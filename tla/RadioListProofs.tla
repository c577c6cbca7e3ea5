---------------------------- MODULE RadioListProofs ----------------------------
(***************************************************************************)
(* Proofs about the client of the radio database, for every set of lists   *)
(* and of other replies, cut off anywhere, and every order of calls.       *)
(***************************************************************************)
EXTENDS RadioFormat, FiniteSetTheorems, Lemmas

----------------------------------------------------------------------------
(* The tokenizer as a run: its state behind each character.                *)

Tokens(C) == [type : {"UNKNOWN", "STRING", "NUMBER", "TIME"}, num : Int, str : Seq(C),
              min : Int, sec : Int]
ParseStates(C) == [state : {"INITIAL", "STRING", "NUMBER", "DONE", "FAILED"},
                   token : Tokens(C), colons : Nat, pos : Nat]

LEMMA DigitType == \A ch \in DOMAIN Digits : Digits[ch] \in Nat
<1>1. ASSUME NEW ch \in DOMAIN Digits PROVE Digits[ch] \in Nat
  <2>1. \E n \in 0..9 : Numerals[n + 1] = ch
    BY DEF Digits
  <2>2. Digits[ch] = CHOOSE n \in 0..9 : Numerals[n + 1] = ch
    BY DEF Digits
  <2>3. (CHOOSE n \in 0..9 : Numerals[n + 1] = ch) \in 0..9
    BY <2>1, Zenon
  <2>4. Digits[ch] \in 0..9
    BY <2>2, <2>3, Zenon
  <2> QED
    BY <2>4
<1> QED
  BY <1>1

LEMMA Numeral ==
  ASSUME NEW n \in 0..9
  PROVE  /\ Numerals[n + 1] \in DOMAIN Digits
         /\ Numerals[n + 1] \in {"0", "1", "2", "3", "4", "5", "6", "7", "8", "9"}
<1>1. Numerals[n + 1] \in DOMAIN Digits
  BY DEF Digits
<1>2. n \in {0, 1, 2, 3, 4, 5, 6, 7, 8, 9}
  OBVIOUS
<1>3. Numerals[n + 1] \in {"0", "1", "2", "3", "4", "5", "6", "7", "8", "9"}
  BY <1>2 DEF Numerals
<1> QED
  BY <1>1, <1>3

\* What ends a token, and what is none of it, are different characters.
LEMMA DistinctChars ==
  /\ Separators \cap DOMAIN Digits = {} /\ NUL \notin DOMAIN Digits
  /\ "QUOTE" \notin Separators \cup DOMAIN Digits
  /\ "COLON" \notin Separators \cup DOMAIN Digits
<1>1. \A ch \in DOMAIN Digits : ch \in {"0", "1", "2", "3", "4", "5", "6", "7", "8", "9"}
  <2>1. ASSUME NEW ch \in DOMAIN Digits
        PROVE  ch \in {"0", "1", "2", "3", "4", "5", "6", "7", "8", "9"}
    <3>1. PICK n \in 0..9 : Numerals[n + 1] = ch
      BY DEF Digits
    <3> QED
      BY <3>1, Numeral
  <2> QED
    BY <2>1
<1> QED
  BY <1>1 DEF Separators, NUL

LEMMA ParserType ==
  ASSUME NEW C, NEW state \in {"INITIAL", "STRING", "NUMBER", "DONE", "FAILED"},
         NEW token \in Tokens(C), NEW colons \in Nat, NEW pos \in Nat
  PROVE  /\ Parser(state, token, colons, pos) \in ParseStates(C)
         /\ Parser(state, token, colons, pos).state = state
         /\ Parser(state, token, colons, pos).token = token
         /\ Parser(state, token, colons, pos).colons = colons
         /\ Parser(state, token, colons, pos).pos = pos
  BY DEF Parser, ParseStates

\* What each step does to a token.
LEMMA TokenSteps ==
  ASSUME NEW C, NEW t \in Tokens(C)
  PROVE  /\ NewString(t) \in Tokens(C) /\ NewNumber(t) \in Tokens(C)
         /\ \A ch \in C : [t EXCEPT !.str = Append(@, ch)] \in Tokens(C)
         /\ \A colons \in Nat : AddColon(t, colons) \in Tokens(C)
         /\ \A d \in Nat, colons \in 0..2 : AddDigit(t, colons, d) \in Tokens(C)
<1>1. NewString(t) \in Tokens(C)
  <2>1. PICK u : u = [t EXCEPT !.type = "STRING"]
    OBVIOUS
  <2>2. u \in Tokens(C)
    BY <2>1 DEF Tokens
  <2>3. PICK e : e = << >>
    OBVIOUS
  <2>4. e \in Seq(C)
    BY <2>3
  <2>5. NewString(t) = [u EXCEPT !.str = e]
    BY <2>1, <2>3 DEF NewString
  <2> QED
    BY <2>2, <2>4, <2>5 DEF Tokens
<1>2. NewNumber(t) \in Tokens(C)
  <2>1. PICK u : u = [t EXCEPT !.type = "NUMBER"]
    OBVIOUS
  <2>2. u \in Tokens(C)
    BY <2>1 DEF Tokens
  <2>3. NewNumber(t) = [u EXCEPT !.num = 0]
    BY <2>1 DEF NewNumber
  <2> QED
    BY <2>2, <2>3, SMTT(30) DEF Tokens
<1>3. \A ch \in C : [t EXCEPT !.str = Append(@, ch)] \in Tokens(C)
  BY SMTT(30) DEF Tokens
<1>4. \A colons \in Nat : AddColon(t, colons) \in Tokens(C)
  BY DEF Tokens, AddColon
<1>5. ASSUME NEW d \in Nat, NEW colons \in 0..2 PROVE AddDigit(t, colons, d) \in Tokens(C)
  <2>1. /\ [t EXCEPT !.num = @ * 10 + d] \in Tokens(C)
        /\ [t EXCEPT !.min = @ * 10 + d] \in Tokens(C)
        /\ [t EXCEPT !.sec = @ * 10 + d] \in Tokens(C)
    <3>1. t.num * 10 + d \in Int /\ t.min * 10 + d \in Int /\ t.sec * 10 + d \in Int
      BY DEF Tokens
    <3>2. \A n \in Int : /\ [t EXCEPT !.num = n] \in Tokens(C)
                         /\ [t EXCEPT !.min = n] \in Tokens(C)
                         /\ [t EXCEPT !.sec = n] \in Tokens(C)
      BY DEF Tokens
    <3> QED
      BY <3>1, <3>2
  <2> QED
    BY <2>1 DEF AddDigit
<1> QED
  BY <1>1, <1>2, <1>3, <1>4, <1>5

LEMMA InNumberType ==
  ASSUME NEW C, NEW a \in ParseStates(C), NEW ch
  PROVE  InNumber(a, ch) \in ParseStates(C)
<1>1. a.token \in Tokens(C) /\ a.colons \in Nat /\ a.pos \in Nat
  BY DEF ParseStates
<1>2. AddColon(a.token, a.colons) \in Tokens(C)
  BY <1>1, TokenSteps
<1>3. ch \in DOMAIN Digits /\ a.colons <= 2 => AddDigit(a.token, a.colons, Digits[ch]) \in Tokens(C)
  <2> SUFFICES ASSUME ch \in DOMAIN Digits, a.colons <= 2
               PROVE  AddDigit(a.token, a.colons, Digits[ch]) \in Tokens(C)
    OBVIOUS
  <2>1. Digits[ch] \in Nat /\ a.colons \in 0..2
    BY <1>1, DigitType
  <2> QED
    BY <2>1, <1>1, TokenSteps
<1>4. a.colons + 1 \in Nat /\ a.pos + 1 \in Nat
  BY <1>1
<1>5. /\ Parser("DONE", a.token, a.colons, a.pos) \in ParseStates(C)
      /\ Parser("NUMBER", AddColon(a.token, a.colons), a.colons + 1, a.pos + 1) \in ParseStates(C)
      /\ Parser("FAILED", a.token, a.colons, a.pos) \in ParseStates(C)
  <2>1. Parser("DONE", a.token, a.colons, a.pos) \in ParseStates(C)
    BY <1>1, ParserType
  <2>2. Parser("NUMBER", AddColon(a.token, a.colons), a.colons + 1, a.pos + 1) \in ParseStates(C)
    BY <1>2, <1>4, ParserType
  <2>3. Parser("FAILED", a.token, a.colons, a.pos) \in ParseStates(C)
    BY <1>1, ParserType
  <2> QED
    BY <2>1, <2>2, <2>3
<1>6. ch \in DOMAIN Digits /\ a.colons <= 2 =>
        Parser("NUMBER", AddDigit(a.token, a.colons, Digits[ch]), a.colons, a.pos + 1) \in ParseStates(C)
  BY <1>1, <1>3, <1>4, ParserType
<1> QED
  BY <1>5, <1>6 DEF InNumber

LEMMA ParseCharType ==
  ASSUME NEW C, NEW a \in ParseStates(C), NEW ch \in C
  PROVE  ParseChar(a, ch) \in ParseStates(C)
<1>1. a.token \in Tokens(C) /\ a.colons \in Nat /\ a.pos \in Nat /\ a.pos + 1 \in Nat
  BY DEF ParseStates
<1>2. InString(a, ch) \in ParseStates(C)
  <2>1. [a.token EXCEPT !.str = Append(@, ch)] \in Tokens(C)
    BY <1>1, TokenSteps
  <2>2. /\ Parser("DONE", a.token, a.colons, a.pos + 1) \in ParseStates(C)
        /\ Parser("STRING", [a.token EXCEPT !.str = Append(@, ch)], a.colons, a.pos + 1)
             \in ParseStates(C)
    BY <1>1, <2>1, ParserType
  <2> QED
    BY <2>2 DEF InString
<1>3. InInitial(a, ch) \in ParseStates(C)
  <2>1. Parser("NUMBER", NewNumber(a.token), a.colons, a.pos) \in ParseStates(C)
    BY <1>1, TokenSteps, ParserType
  <2>2. InNumber(Parser("NUMBER", NewNumber(a.token), a.colons, a.pos), ch) \in ParseStates(C)
    BY <2>1, InNumberType
  <2> QED
    BY <1>1, <2>2, TokenSteps, ParserType DEF InInitial
<1>4. InNumber(a, ch) \in ParseStates(C)
  BY InNumberType
<1>5. a.state \in {"INITIAL", "STRING", "NUMBER", "DONE", "FAILED"}
  BY DEF ParseStates
<1> QED
  BY <1>2, <1>3, <1>4, <1>5 DEF ParseChar

\* a is the run of radiolist_parse_token from pos.
Fresh(token) == [token EXCEPT !.type = "UNKNOWN"]
Parses(a, text, limit, pos, token) ==
  /\ a[pos] = Parser("INITIAL", Fresh(token), 0, pos)
  /\ \A k, l \in pos..limit : l = k + 1 => a[l] = ParseChar(a[k], text[l])

IsParse(a, C, text, limit, pos, token) ==
  /\ limit \in Nat /\ pos \in Nat /\ token \in Tokens(C)
  /\ a \in [pos..limit -> ParseStates(C)] /\ Parses(a, text, limit, pos, token)

LEMMA FreshType ==
  ASSUME NEW C, NEW token \in Tokens(C)
  PROVE  /\ Fresh(token) \in Tokens(C) /\ Fresh(token).type = "UNKNOWN"
         /\ Fresh(token).min = token.min /\ Fresh(token).sec = token.sec
         /\ Fresh(token).num = token.num /\ Fresh(token).str = token.str
  BY DEF Fresh, Tokens

LEMMA ParseRun ==
  ASSUME NEW C, NEW limit \in Nat, NEW pos \in Nat, pos < limit, NEW token \in Tokens(C),
         NEW text, \A k \in 1..limit : text[k] \in C
  PROVE  \E a : /\ IsParse(a, C, text, limit, pos, token)
               /\ radiolist_parse_token(text, limit, pos, token) = Returned(a[limit])
<1> DEFINE S == ParseStates(C)
           s == Parser("INITIAL", Fresh(token), 0, pos)
           F == [kx \in (pos..limit) \X S |-> IF kx[1] = pos THEN kx[2] ELSE ParseChar(kx[2], text[kx[1]])]
           Found(f) == f = [k \in pos..limit |-> IF k = pos THEN s ELSE ParseChar(f[k - 1], text[k])]
           best == CHOOSE f : Found(f)
<1>1. s \in S
  BY FreshType, ParserType
<1>2. F \in [(pos..limit) \X S -> S]
  <2>1. ASSUME NEW kx \in (pos..limit) \X S
        PROVE  (IF kx[1] = pos THEN kx[2] ELSE ParseChar(kx[2], text[kx[1]])) \in S
    <3>1. kx[2] \in S /\ kx[1] \in pos..limit
      OBVIOUS
    <3>2. kx[1] # pos => kx[1] \in 1..limit
      BY <3>1
    <3> HIDE DEF S
    <3>3. kx[1] # pos => ParseChar(kx[2], text[kx[1]]) \in S
      BY <3>1, <3>2, ParseCharType DEF S
    <3> QED
      BY <3>1, <3>3
  <2> QED
    BY <2>1
<1>3. \A k \in (pos + 1)..limit, x \in S : F[<<k, x>>] = ParseChar(x, text[k])
  OBVIOUS
<1> HIDE DEF F, S, s
<1>4. PICK f \in [pos..limit -> S] : Recurs(f, F, s, pos, limit)
  <2>1. pos <= limit
    OBVIOUS
  <2> QED
    BY <1>1, <1>2, <2>1, Recursion
<1>5. ASSUME NEW k \in (pos + 1)..limit PROVE f[k] = ParseChar(f[k - 1], text[k])
  <2>1. f[k - 1] \in S
    OBVIOUS
  <2> QED
    BY <2>1, <1>3, <1>4 DEF Recurs
<1>6. Found(f)
  BY <1>4, <1>5 DEF Recurs
<1>7. Found(best)
  BY <1>6, Zenon
<1>8. best = f
  <2>1. best = [k \in pos..limit |-> best[k]] /\ f = [k \in pos..limit |-> f[k]]
    BY <1>7
  <2>2. best[pos] = s /\ \A k \in (pos + 1)..limit : best[k] = ParseChar(best[k - 1], text[k])
    <3>1. \A k \in pos..limit : best[k] = IF k = pos THEN s ELSE ParseChar(best[k - 1], text[k])
      BY <1>7
    <3> HIDE DEF best
    <3> QED
      BY <3>1
  <2> HIDE DEF best
  <2> DEFINE P == {k \in pos..limit : best[k] = f[k]}
  <2>3. pos \in P
    BY <2>2, <1>4 DEF Recurs
  <2>4. ASSUME NEW k \in (pos + 1)..limit, k - 1 \in P PROVE k \in P
    <3>1. best[k - 1] = f[k - 1]
      BY <2>4
    <3> QED
      BY <3>1, <2>2, <1>5
  <2> HIDE DEF P
  <2>5. \A k \in pos..limit : k \in P
    BY <2>3, <2>4, Upward
  <2> QED
    BY <2>1, <2>5 DEF P
<1>9. radiolist_parse_token(text, limit, pos, token) = Returned(best[limit])
  BY DEF radiolist_parse_token, Fresh, s
<1> HIDE DEF best
<1>10. Parses(f, text, limit, pos, token)
  <2>1. ASSUME NEW k \in pos..limit, NEW l \in pos..limit, l = k + 1
        PROVE  f[l] = ParseChar(f[k], text[l])
    <3>1. l \in (pos + 1)..limit /\ l - 1 = k
      BY <2>1
    <3>2. f[l] = ParseChar(f[l - 1], text[l])
      BY <3>1, <1>5
    <3> QED
      BY <3>1, <3>2
  <2>2. f[pos] = s
    BY <1>4 DEF Recurs
  <2> QED
    BY <2>1, <2>2 DEF Parses, s
<1>11. IsParse(f, C, text, limit, pos, token)
  BY <1>10 DEF IsParse, S
<1> QED
  BY <1>8, <1>9, <1>11

\* A run that is done, or has failed, stays so.
LEMMA Stays ==
  ASSUME NEW C, NEW text, NEW limit, NEW pos, NEW token, NEW a,
         IsParse(a, C, text, limit, pos, token),
         NEW k \in pos..limit, a[k].state \in {"DONE", "FAILED"}
  PROVE  a[limit] = a[k]
<1>0. /\ limit \in Nat /\ pos \in Nat /\ token \in Tokens(C)
      /\ a \in [pos..limit -> ParseStates(C)]
  BY DEF IsParse
<1> USE <1>0
<1>a. \A x, y \in pos..limit : y = x + 1 => a[y] = ParseChar(a[x], text[y])
  BY DEF IsParse, Parses
<1> DEFINE P == {m \in k..limit : a[m] = a[k]}
<1>1. k \in P
  OBVIOUS
<1>2. ASSUME NEW m \in (k + 1)..limit, m - 1 \in P PROVE m \in P
  <2>1. m - 1 \in pos..limit /\ m \in pos..limit /\ m = (m - 1) + 1 /\ a[m - 1] = a[k]
    BY <1>2
  <2>2. PICK l \in pos..limit : l = m - 1
    BY <2>1
  <2>3. a[m] = ParseChar(a[l], text[m])
    BY <2>1, <2>2, <1>a
  <2>4. ParseChar(a[l], text[m]) = a[l]
    BY <2>1, <2>2 DEF ParseChar
  <2> QED
    BY <2>1, <2>2, <2>3, <2>4
<1>3. k \in Nat /\ limit \in k..limit
  OBVIOUS
<1> HIDE DEF P
<1>4. \A m \in k..limit : m \in P
  BY <1>1, <1>2, <1>3, Upward
<1> QED
  BY <1>3, <1>4 DEF P

\* Separators are skipped.
LEMMA Skips ==
  ASSUME NEW C, NEW text, NEW limit, NEW pos, NEW token, NEW a,
         IsParse(a, C, text, limit, pos, token),
         NEW m \in pos..limit, \A q \in (pos + 1)..m : text[q] \in Separators
  PROVE  a[m] = Parser("INITIAL", Fresh(token), 0, m)
<1>0. /\ limit \in Nat /\ pos \in Nat /\ token \in Tokens(C)
      /\ a \in [pos..limit -> ParseStates(C)]
  BY DEF IsParse
<1> USE <1>0
<1>a. \A k, l \in pos..limit : l = k + 1 => a[l] = ParseChar(a[k], text[l])
  BY DEF IsParse, Parses
<1> DEFINE P == {k \in pos..m : a[k] = Parser("INITIAL", Fresh(token), 0, k)}
<1>1. pos \in P
  BY DEF IsParse, Parses
<1>2. ASSUME NEW k \in (pos + 1)..m, k - 1 \in P PROVE k \in P
  <2>1. k - 1 \in pos..limit /\ k \in pos..limit /\ k = (k - 1) + 1
    OBVIOUS
  <2>2. PICK l \in pos..limit : l = k - 1
    BY <2>1
  <2>3. a[k] = ParseChar(a[l], text[k])
    BY <2>1, <2>2, <1>a
  <2>4. a[l] = Parser("INITIAL", Fresh(token), 0, l)
    BY <1>2, <2>2
  <2>5. text[k] \in Separators /\ text[k] # "QUOTE"
    BY <1>2, DistinctChars
  <2>6. a[l].state = "INITIAL" /\ a[l].token = Fresh(token) /\ a[l].colons = 0 /\ a[l].pos = l
    BY <2>4 DEF Parser
  <2>7. ParseChar(a[l], text[k]) = InInitial(a[l], text[k])
    BY <2>6 DEF ParseChar
  <2>8. InInitial(a[l], text[k]) = Parser("INITIAL", a[l].token, a[l].colons, a[l].pos + 1)
    BY <2>5, DistinctChars DEF InInitial
  <2>9. a[l].pos + 1 = k
    BY <2>1, <2>2, <2>6
  <2> QED
    BY <2>3, <2>6, <2>7, <2>8, <2>9, <1>2
<1>3. m \in Nat /\ m \in pos..m
  OBVIOUS
<1> HIDE DEF P
<1>4. \A k \in pos..m : k \in P
  BY <1>1, <1>2, <1>3, Upward
<1> QED
  BY <1>3, <1>4 DEF P

\* The text goes on with the first n of these characters.
Goes(text, at, str, n) == \A j \in 1..n : text[at + j] = str[j]

\* A string is read character by character.
StringSoFar(x, str, j, k) ==
  /\ x.state = "STRING" /\ x.pos = k /\ x.token.type = "STRING"
  /\ x.token.str = SubSeq(str, 1, j)

LEMMA ReadsString ==
  ASSUME NEW C, NEW text, NEW limit, NEW pos, NEW token, NEW a,
         IsParse(a, C, text, limit, pos, token),
         NEW m \in pos..limit, m < limit, NEW t \in Tokens(C),
         a[m] = Parser("INITIAL", t, 0, m), text[m + 1] = "QUOTE",
         NEW S, "QUOTE" \notin S, NEW str \in Seq(S), NEW n \in 0..Len(str), m + 1 + n <= limit,
         Goes(text, m + 1, str, n)
  PROVE  StringSoFar(a[m + 1 + n], str, n, m + 1 + n)
<1>0. /\ limit \in Nat /\ pos \in Nat /\ token \in Tokens(C)
      /\ a \in [pos..limit -> ParseStates(C)]
  BY DEF IsParse
<1> USE <1>0
<1>a. \A k, l \in pos..limit : l = k + 1 => a[l] = ParseChar(a[k], text[l])
  BY DEF IsParse, Parses
<1> DEFINE P == {j \in 0..n : StringSoFar(a[m + 1 + j], str, j, m + 1 + j)}
<1>1. 0 \in P
  <2>1. PICK l \in pos..limit : l = m + 1
    OBVIOUS
  <2>2. a[l] = ParseChar(a[m], text[l]) /\ text[l] = "QUOTE"
    BY <2>1, <1>a
  <2>3. a[m].state = "INITIAL" /\ a[m].token = t /\ a[m].colons = 0 /\ a[m].pos = m
    BY DEF Parser
  <2>4. ParseChar(a[m], text[l]) = InInitial(a[m], text[l])
    BY <2>3 DEF ParseChar
  <2>5. InInitial(a[m], text[l]) = Parser("STRING", NewString(t), 0, l)
    <3>1. InInitial(a[m], text[l]) = Parser("STRING", NewString(a[m].token), a[m].colons, a[m].pos + 1)
      BY <2>2, DistinctChars DEF InInitial
    <3>2. a[m].pos + 1 = l
      BY <2>1, <2>3
    <3> QED
      BY <3>1, <3>2, <2>3
  <2>6. NewString(t) \in Tokens(C)
    BY TokenSteps
  <2>7. NewString(t).type = "STRING" /\ NewString(t).str = << >>
    BY DEF NewString, Tokens
  <2>8. SubSeq(str, 1, 0) = << >>
    OBVIOUS
  <2>9. StringSoFar(a[l], str, 0, l)
    <3>1. a[l] = Parser("STRING", NewString(t), 0, l)
      BY <2>2, <2>4, <2>5
    <3>2. a[l].state = "STRING" /\ a[l].token = NewString(t) /\ a[l].pos = l
      BY <3>1 DEF Parser
    <3> QED
      BY <3>2, <2>7, <2>8 DEF StringSoFar
  <2>10. m + 1 + 0 = l
    BY <2>1
  <2> QED
    BY <2>9, <2>10
<1>2. ASSUME NEW j \in (0 + 1)..n, j - 1 \in P PROVE j \in P
  <2>1. PICK k \in pos..limit : k = m + 1 + (j - 1)
    OBVIOUS
  <2>2. PICK l \in pos..limit : l = m + 1 + j /\ l = k + 1
    BY <2>1
  <2>3. StringSoFar(a[k], str, j - 1, k)
    BY <1>2, <2>1
  <2>4. a[l] = ParseChar(a[k], text[l])
    BY <2>1, <2>2, <1>a
  <2>5. text[l] = str[j] /\ str[j] # "QUOTE"
    BY <2>2 DEF Goes
  <2>6. a[k].token \in Tokens(C)
    BY DEF ParseStates
  <2> DEFINE u == [a[k].token EXCEPT !.str = Append(@, str[j])]
  <2>7. a[l] = Parser("STRING", u, a[k].colons, l)
    BY <2>2, <2>3, <2>4, <2>5 DEF ParseChar, InString, StringSoFar
  <2>8. u.type = "STRING" /\ u.str = Append(SubSeq(str, 1, j - 1), str[j])
    BY <2>3, <2>6 DEF StringSoFar, Tokens
  <2>9. Append(SubSeq(str, 1, j - 1), str[j]) = SubSeq(str, 1, j)
    OBVIOUS
  <2> HIDE DEF u
  <2>10. StringSoFar(a[l], str, j, l)
    <3>1. a[l].state = "STRING" /\ a[l].token = u /\ a[l].pos = l
      BY <2>7 DEF Parser
    <3> QED
      BY <3>1, <2>8, <2>9 DEF StringSoFar
  <2> QED
    BY <2>2, <2>10
<1>3. n \in Nat /\ n \in 0..n
  OBVIOUS
<1> HIDE DEF P
<1>4. \A j \in 0..n : j \in P
  BY <1>1, <1>2, <1>3, Upward
<1> QED
  BY <1>3, <1>4 DEF P

\* A number, or a part of a time, is read digit by digit.
Adds(v, n, digits) ==
  v[0] = n /\ \A k \in 1..Len(digits) : v[k] = 10 * v[k - 1] + Digits[digits[k]]

LEMMA AppendedRun ==
  ASSUME NEW n \in Int, NEW digits \in Seq(DOMAIN Digits)
  PROVE  \E v \in [0..Len(digits) -> Int] :
           Adds(v, n, digits) /\ Appended(n, digits) = v[Len(digits)]
<1> DEFINE hi == Len(digits)
           F == [kx \in (0..hi) \X Int |-> IF kx[1] = 0 THEN kx[2] ELSE 10 * kx[2] + Digits[digits[kx[1]]]]
           Found(f) == f = [k \in 0..hi |-> IF k = 0 THEN n ELSE 10 * f[k - 1] + Digits[digits[k]]]
           best == CHOOSE f : Found(f)
<1>1. \A k \in 1..hi : digits[k] \in DOMAIN Digits /\ Digits[digits[k]] \in Nat
  BY DigitType
<1>2. hi \in Nat /\ 0 <= hi
  OBVIOUS
<1>3. F \in [(0..hi) \X Int -> Int]
  <2>1. ASSUME NEW kx \in (0..hi) \X Int
        PROVE  (IF kx[1] = 0 THEN kx[2] ELSE 10 * kx[2] + Digits[digits[kx[1]]]) \in Int
    <3>1. kx[2] \in Int /\ (kx[1] # 0 => kx[1] \in 1..hi)
      OBVIOUS
    <3> QED
      BY <3>1, <1>1
  <2> QED
    BY <2>1
<1>4. \A k \in 1..hi, x \in Int : F[<<k, x>>] = 10 * x + Digits[digits[k]]
  OBVIOUS
<1>5. Appended(n, digits) = best[Len(digits)]
  BY DEF Appended
<1> HIDE DEF F, hi
<1>6. PICK f \in [0..hi -> Int] : Recurs(f, F, n, 0, hi)
  BY <1>2, <1>3, Recursion
<1>7. f[0] = n /\ \A k \in 1..hi : f[k] = 10 * f[k - 1] + Digits[digits[k]]
  <2>1. f[0] = n
    BY <1>6 DEF Recurs
  <2>2. ASSUME NEW k \in 1..hi PROVE f[k] = 10 * f[k - 1] + Digits[digits[k]]
    <3>1. k - 1 \in 0..hi /\ k \in (0 + 1)..hi
      BY <1>2
    <3>2. f[k - 1] \in Int
      BY <3>1
    <3>3. f[k] = F[<<k, f[k - 1]>>]
      BY <1>6, <3>1 DEF Recurs
    <3> QED
      BY <3>2, <3>3, <1>4
  <2> QED
    BY <2>1, <2>2
<1>8. Found(f)
  BY <1>7
<1>9. Found(best)
  BY <1>8, Zenon
<1> HIDE DEF best
<1>10. best[0] = n /\ \A k \in 1..hi : best[k] = 10 * best[k - 1] + Digits[digits[k]]
  BY <1>2, <1>9
<1> DEFINE P == {k \in 0..hi : best[k] = f[k]}
<1>11. 0 \in P
  BY <1>2, <1>7, <1>10
<1>12. ASSUME NEW k \in (0 + 1)..hi, k - 1 \in P PROVE k \in P
  BY <1>12, <1>7, <1>10
<1> HIDE DEF P
<1>13. \A k \in 0..hi : k \in P
  BY <1>2, <1>11, <1>12, Upward
<1>14. best[hi] = f[hi]
  BY <1>2, <1>13 DEF P
<1> QED
  BY <1>5, <1>7, <1>14 DEF Adds, hi

NumberSoFar(x, k, colons, type, num, min, sec) ==
  /\ x.state = "NUMBER" /\ x.pos = k /\ x.colons = colons
  /\ x.token.type = type /\ x.token.num = num /\ x.token.min = min /\ x.token.sec = sec

Part(c, n, other, value) == IF c = n THEN value ELSE other

LEMMA DigitStep ==
  ASSUME NEW C, NEW x \in ParseStates(C), NEW ch \in DOMAIN Digits, NEW k, NEW c \in 0..2,
         NEW type, NEW num \in Int, NEW min \in Int, NEW sec \in Int,
         NumberSoFar(x, k, c, type, num, min, sec)
  PROVE  NumberSoFar(InNumber(x, ch), k + 1, c, type, Part(c, 0, num, 10 * num + Digits[ch]),
                     Part(c, 1, min, 10 * min + Digits[ch]), Part(c, 2, sec, 10 * sec + Digits[ch]))
<1>1. Digits[ch] \in Nat /\ x.token \in Tokens(C)
  BY DigitType DEF ParseStates
<1>2. InNumber(x, ch) = Parser("NUMBER", AddDigit(x.token, c, Digits[ch]), c, k + 1)
  BY DistinctChars DEF InNumber, NumberSoFar, EndsNumber
<1> DEFINE d == Digits[ch]
<1>3. PICK t \in Tokens(C) : t = x.token
  BY <1>1
<1>4. t.type = type /\ t.num = num /\ t.min = min /\ t.sec = sec
  BY <1>3 DEF NumberSoFar
<1> HIDE DEF d
<1>5. PICK u : u = AddDigit(t, c, d)
  OBVIOUS
<1>6. /\ u.type = type /\ u.num = Part(c, 0, num, 10 * num + d)
      /\ u.min = Part(c, 1, min, 10 * min + d) /\ u.sec = Part(c, 2, sec, 10 * sec + d)
  <2>1. CASE c = 0
    <3>1. u = [t EXCEPT !.num = t.num * 10 + d]
      BY <1>5, <2>1 DEF AddDigit
    <3>2. u.type = t.type /\ u.num = t.num * 10 + d /\ u.min = t.min /\ u.sec = t.sec
      BY <3>1 DEF Tokens
    <3>3. t.num * 10 + d = 10 * num + d
      BY <1>1, <1>4 DEF d
    <3> QED
      BY <3>2, <3>3, <1>4, <2>1 DEF Part
  <2>2. CASE c = 1
    <3>1. u = [t EXCEPT !.min = t.min * 10 + d]
      BY <1>5, <2>2 DEF AddDigit
    <3>2. u.type = t.type /\ u.num = t.num /\ u.min = t.min * 10 + d /\ u.sec = t.sec
      BY <3>1 DEF Tokens
    <3>3. t.min * 10 + d = 10 * min + d
      BY <1>1, <1>4 DEF d
    <3> QED
      BY <3>2, <3>3, <1>4, <2>2 DEF Part
  <2>3. CASE c = 2
    <3>1. u = [t EXCEPT !.sec = t.sec * 10 + d]
      BY <1>5, <2>3 DEF AddDigit
    <3>2. u.type = t.type /\ u.num = t.num /\ u.min = t.min /\ u.sec = t.sec * 10 + d
      BY <3>1 DEF Tokens
    <3>3. t.sec * 10 + d = 10 * sec + d
      BY <1>1, <1>4 DEF d
    <3> QED
      BY <3>2, <3>3, <1>4, <2>3 DEF Part
  <2> QED
    BY <2>1, <2>2, <2>3
<1>7. InNumber(x, ch) = Parser("NUMBER", u, c, k + 1)
  BY <1>2, <1>3, <1>5 DEF d
<1> QED
  BY <1>6, <1>7 DEF NumberSoFar, Parser, d

LEMMA ReadsDigits ==
  ASSUME NEW C, NEW text, NEW limit, NEW pos, NEW token, NEW a,
         IsParse(a, C, text, limit, pos, token),
         NEW m \in pos..limit, NEW x \in ParseStates(C), NEW c \in 0..2,
         NEW type, NEW num \in Int, NEW min \in Int, NEW sec \in Int,
         NumberSoFar(x, m, c, type, num, min, sec),
         NEW digits \in Seq(DOMAIN Digits), NEW n \in 1..Len(digits), m + n <= limit,
         Goes(text, m, digits, n),
         a[m + 1] = InNumber(x, text[m + 1]),
         NEW v \in [0..Len(digits) -> Int],
         Adds(v, Part(c, 0, Part(c, 1, sec, min), num), digits)
  PROVE  NumberSoFar(a[m + n], m + n, c, type, Part(c, 0, num, v[n]), Part(c, 1, min, v[n]),
                     Part(c, 2, sec, v[n]))
<1>0. /\ limit \in Nat /\ pos \in Nat /\ token \in Tokens(C)
      /\ a \in [pos..limit -> ParseStates(C)]
  BY DEF IsParse
<1> USE <1>0
<1>a. \A k, l \in pos..limit : l = k + 1 => a[l] = ParseChar(a[k], text[l])
  BY DEF IsParse, Parses
<1> DEFINE So(j) == NumberSoFar(a[m + j], m + j, c, type, Part(c, 0, num, v[j]),
                                Part(c, 1, min, v[j]), Part(c, 2, sec, v[j]))
           P == {j \in 1..n : So(j)}
<1>1. \A j \in 1..n : digits[j] \in DOMAIN Digits /\ Digits[digits[j]] \in Nat
  BY DigitType, SMTT(30)
<1>2. 1 \in P
  <2>1. NumberSoFar(InNumber(x, digits[1]), m + 1, c, type,
                    Part(c, 0, num, 10 * num + Digits[digits[1]]),
                    Part(c, 1, min, 10 * min + Digits[digits[1]]),
                    Part(c, 2, sec, 10 * sec + Digits[digits[1]]))
    <3>1. digits[1] \in DOMAIN Digits
      BY <1>1
    <3> QED
      BY <3>1, DigitStep
  <2>2. text[m + 1] = digits[1]
    BY DEF Goes
  <2>3. v[1] = 10 * v[0] + Digits[digits[1]] /\ v[0] = Part(c, 0, Part(c, 1, sec, min), num)
    BY DEF Adds
  <2>4. /\ Part(c, 0, num, 10 * num + Digits[digits[1]]) = Part(c, 0, num, v[1])
        /\ Part(c, 1, min, 10 * min + Digits[digits[1]]) = Part(c, 1, min, v[1])
        /\ Part(c, 2, sec, 10 * sec + Digits[digits[1]]) = Part(c, 2, sec, v[1])
    BY <2>3 DEF Part
  <2> QED
    BY <2>1, <2>2, <2>4
<1>3. ASSUME NEW j \in (1 + 1)..n, j - 1 \in P PROVE j \in P
  <2>1. PICK i \in 1..n : i = j - 1
    OBVIOUS
  <2>2. So(i)
    BY <1>3, <2>1
  <2>3. PICK k \in pos..limit : k = m + i
    OBVIOUS
  <2>4. PICK l \in pos..limit : l = m + j /\ l = k + 1
    BY <2>1, <2>3
  <2>5. a[l] = ParseChar(a[k], text[l])
    BY <2>3, <2>4, <1>a
  <2>6. text[l] = digits[j] /\ digits[j] \in DOMAIN Digits
    <3>1. j \in 1..n
      OBVIOUS
    <3> QED
      BY <3>1, <1>1, <2>4 DEF Goes
  <2>6a. i \in 0..Len(digits)
    OBVIOUS
  <2>6b. a[k] \in ParseStates(C) /\ v[i] \in Int
    BY <2>6a
  <2>7. NumberSoFar(a[k], k, c, type, Part(c, 0, num, v[i]), Part(c, 1, min, v[i]),
                    Part(c, 2, sec, v[i]))
    BY <2>2, <2>3
  <2>8. a[l] = InNumber(a[k], digits[j])
    BY <2>5, <2>6, <2>7 DEF ParseChar, NumberSoFar
  <2> DEFINE d == Digits[digits[j]]
  <2>9. Part(c, 0, num, v[i]) \in Int /\ Part(c, 1, min, v[i]) \in Int /\ Part(c, 2, sec, v[i]) \in Int
    BY <2>6b DEF Part
  <2>10. NumberSoFar(a[l], k + 1, c, type,
                     Part(c, 0, Part(c, 0, num, v[i]), 10 * Part(c, 0, num, v[i]) + d),
                     Part(c, 1, Part(c, 1, min, v[i]), 10 * Part(c, 1, min, v[i]) + d),
                     Part(c, 2, Part(c, 2, sec, v[i]), 10 * Part(c, 2, sec, v[i]) + d))
    <3>1. PICK nn \in Int, mm \in Int, ss \in Int :
            nn = Part(c, 0, num, v[i]) /\ mm = Part(c, 1, min, v[i]) /\ ss = Part(c, 2, sec, v[i])
      BY <2>9, Zenon
    <3>2. NumberSoFar(a[k], k, c, type, nn, mm, ss)
      BY <3>1, <2>7
    <3>3. NumberSoFar(InNumber(a[k], digits[j]), k + 1, c, type, Part(c, 0, nn, 10 * nn + d),
                      Part(c, 1, mm, 10 * mm + d), Part(c, 2, ss, 10 * ss + d))
      BY <2>6, <2>6b, <3>2, DigitStep, Zenon
    <3> QED
      BY <3>1, <3>3, <2>8
  <2>11. v[j] = 10 * v[i] + d
    <3>1. j \in 1..Len(digits) /\ j - 1 = i
      BY <2>1
    <3> QED
      BY <3>1 DEF Adds
  <2> HIDE DEF d
  <2>12. /\ Part(c, 0, Part(c, 0, num, v[i]), 10 * Part(c, 0, num, v[i]) + d) = Part(c, 0, num, v[j])
         /\ Part(c, 1, Part(c, 1, min, v[i]), 10 * Part(c, 1, min, v[i]) + d) = Part(c, 1, min, v[j])
         /\ Part(c, 2, Part(c, 2, sec, v[i]), 10 * Part(c, 2, sec, v[i]) + d) = Part(c, 2, sec, v[j])
    BY <2>11 DEF Part
  <2>13. So(j)
    BY <2>4, <2>10, <2>12
  <2> QED
    BY <2>13
<1>4. 1 \in Nat /\ n \in Nat /\ n \in 1..n
  OBVIOUS
<1> HIDE DEF P
<1>5. \A j \in 1..n : j \in P
  BY <1>2, <1>3, <1>4, Upward
<1> QED
  BY <1>4, <1>5 DEF P

\* The digits behind a colon.
LEMMA ReadsPart ==
  ASSUME NEW C, NEW text, NEW limit, NEW pos, NEW token, NEW a,
         IsParse(a, C, text, limit, pos, token),
         NEW m \in pos..limit, NEW c \in 1..2,
         NEW type, NEW num \in Int, NEW min \in Int, NEW sec \in Int,
         NumberSoFar(a[m], m, c, type, num, min, sec),
         NEW digits \in Seq(DOMAIN Digits), m + Len(digits) <= limit,
         HasDigits(text, m, digits)
  PROVE  LET value == Appended(Part(c, 1, sec, min), digits)
         IN  /\ value \in Int
             /\ NumberSoFar(a[m + Len(digits)], m + Len(digits), c, type, num,
                            Part(c, 1, min, value), Part(c, 2, sec, value))
<1>0. /\ limit \in Nat /\ pos \in Nat /\ token \in Tokens(C)
      /\ a \in [pos..limit -> ParseStates(C)]
  BY DEF IsParse
<1> USE <1>0
<1>a. \A k, l \in pos..limit : l = k + 1 => a[l] = ParseChar(a[k], text[l])
  BY DEF IsParse, Parses
<1>1. Part(c, 1, sec, min) \in Int
  BY DEF Part
<1>2. PICK v \in [0..Len(digits) -> Int] :
        /\ Adds(v, Part(c, 1, sec, min), digits)
        /\ Appended(Part(c, 1, sec, min), digits) = v[Len(digits)]
  BY <1>1, AppendedRun
<1>3. CASE Len(digits) = 0
  <2>1. v[0] = Part(c, 1, sec, min) /\ m + Len(digits) = m
    BY <1>2, <1>3 DEF Adds
  <2>2. v[0] \in Int /\ Part(c, 1, min, v[0]) = min /\ Part(c, 2, sec, v[0]) = sec
    BY <2>1, <1>1 DEF Part
  <2> QED
    BY <1>2, <1>3, <2>1, <2>2
<1>4. CASE Len(digits) # 0
  <2>1. PICK n \in 1..Len(digits) : n = Len(digits)
    BY <1>4
  <2>2. PICK l \in pos..limit : l = m + 1
    BY <2>1
  <2>3. a[l] = ParseChar(a[m], text[l])
    BY <2>2, <1>a
  <2>3a. a[m + 1] = InNumber(a[m], text[m + 1])
    BY <2>2, <2>3 DEF ParseChar, NumberSoFar
  <2>4. /\ a[m] \in ParseStates(C) /\ c \in 0..2 /\ m + n <= limit
        /\ Goes(text, m, digits, n)
    BY <2>1 DEF HasDigits, Goes
  <2>5. Adds(v, Part(c, 0, Part(c, 1, sec, min), num), digits)
    BY <1>2 DEF Part
  <2>6. NumberSoFar(a[m + n], m + n, c, type, Part(c, 0, num, v[n]), Part(c, 1, min, v[n]),
                    Part(c, 2, sec, v[n]))
    BY <2>3a, <2>4, <2>5, ReadsDigits
  <2>7. Part(c, 0, num, v[n]) = num /\ v[n] \in Int
    BY DEF Part
  <2> QED
    BY <1>2, <2>1, <2>6, <2>7
<1> QED
  BY <1>3, <1>4

\* The first digits of a number, behind separators.
LEMMA ReadsFirst ==
  ASSUME NEW C, NEW text, NEW limit, NEW pos, NEW token, NEW a,
         IsParse(a, C, text, limit, pos, token),
         NEW m \in pos..limit, NEW t \in Tokens(C), a[m] = Parser("INITIAL", t, 0, m),
         NEW digits \in Seq(DOMAIN Digits), NEW n \in 1..Len(digits), m + n <= limit,
         Goes(text, m, digits, n)
  PROVE  /\ a[m + n].state = "NUMBER"
         /\ Appended(0, digits) \in Int
         /\ n = Len(digits) =>
              NumberSoFar(a[m + n], m + n, 0, "NUMBER", Appended(0, digits), t.min, t.sec)
<1>0. /\ limit \in Nat /\ pos \in Nat /\ token \in Tokens(C)
      /\ a \in [pos..limit -> ParseStates(C)]
  BY DEF IsParse
<1> USE <1>0
<1>a. \A k, l \in pos..limit : l = k + 1 => a[l] = ParseChar(a[k], text[l])
  BY DEF IsParse, Parses
<1>1. PICK v \in [0..Len(digits) -> Int] : Adds(v, 0, digits) /\ Appended(0, digits) = v[Len(digits)]
  <2>1. 0 \in Int
    OBVIOUS
  <2> QED
    BY <2>1, AppendedRun
<1>2. PICK x : x = Parser("NUMBER", NewNumber(t), 0, m)
  OBVIOUS
<1>3. NewNumber(t) \in Tokens(C) /\ m \in Nat /\ 0 \in Nat
  <2>1. NewNumber(t) \in Tokens(C)
    BY TokenSteps
  <2> QED
    BY <2>1
<1>4. x \in ParseStates(C)
  BY <1>2, <1>3, ParserType
<1>5. /\ NewNumber(t).type = "NUMBER" /\ NewNumber(t).num = 0
      /\ NewNumber(t).min = t.min /\ NewNumber(t).sec = t.sec
  BY DEF NewNumber, Tokens
<1>6. NumberSoFar(x, m, 0, "NUMBER", 0, t.min, t.sec)
  BY <1>2, <1>5 DEF NumberSoFar, Parser
<1>7. PICK l \in pos..limit : l = m + 1
  OBVIOUS
<1>8. text[l] = digits[1] /\ digits[1] \in DOMAIN Digits
  BY <1>7, SMTT(30)
<1>9. a[l] = ParseChar(a[m], text[l])
  BY <1>7, <1>a
<1>10. a[m].state = "INITIAL" /\ a[m].token = t /\ a[m].colons = 0 /\ a[m].pos = m
  BY DEF Parser
<1>11. ParseChar(a[m], text[l]) = InInitial(a[m], text[l])
  BY <1>10 DEF ParseChar
<1>12. InInitial(a[m], text[l]) = InNumber(x, text[l])
  BY <1>2, <1>8, <1>10, DistinctChars DEF InInitial
<1>13. a[m + 1] = InNumber(x, text[m + 1])
  BY <1>7, <1>9, <1>11, <1>12
<1>14. t.min \in Int /\ t.sec \in Int /\ 0 \in 0..2 /\ 0 \in Int
  BY DEF Tokens
<1>15. Adds(v, Part(0, 0, Part(0, 1, t.sec, t.min), 0), digits)
  BY <1>1 DEF Part
<1>16. NumberSoFar(a[m + n], m + n, 0, "NUMBER", Part(0, 0, 0, v[n]), Part(0, 1, t.min, v[n]),
                   Part(0, 2, t.sec, v[n]))
  BY <1>4, <1>6, <1>13, <1>14, <1>15, ReadsDigits
<1>17. /\ Part(0, 0, 0, v[n]) = v[n] /\ Part(0, 1, t.min, v[n]) = t.min
       /\ Part(0, 2, t.sec, v[n]) = t.sec
  BY DEF Part
<1>18. NumberSoFar(a[m + n], m + n, 0, "NUMBER", v[n], t.min, t.sec)
  BY <1>16, <1>17
<1>19. a[m + n].state = "NUMBER"
  BY <1>18 DEF NumberSoFar
<1>20. Appended(0, digits) \in Int
  BY <1>1
<1> QED
  BY <1>1, <1>18, <1>19, <1>20

LEMMA ReadsColon ==
  ASSUME NEW C, NEW text, NEW limit, NEW pos, NEW token, NEW a,
         IsParse(a, C, text, limit, pos, token),
         NEW m \in pos..limit, NEW c \in 0..1, NEW type, NEW num, NEW min, NEW sec,
         NumberSoFar(a[m], m, c, type, num, min, sec),
         NEW l \in pos..limit, l = m + 1, text[l] = "COLON"
  PROVE  NumberSoFar(a[l], l, c + 1, Part(c, 0, type, "TIME"), num, min, sec)
<1>0. /\ limit \in Nat /\ pos \in Nat /\ token \in Tokens(C)
      /\ a \in [pos..limit -> ParseStates(C)]
  BY DEF IsParse
<1> USE <1>0
<1>a. \A x, y \in pos..limit : y = x + 1 => a[y] = ParseChar(a[x], text[y])
  BY DEF IsParse, Parses
<1>1. a[l] = InNumber(a[m], text[l])
  BY <1>a DEF ParseChar, NumberSoFar
<1>2. PICK t \in Tokens(C) : t = a[m].token
  BY DEF ParseStates
<1>3. InNumber(a[m], text[l]) = Parser("NUMBER", AddColon(t, c), c + 1, l)
  BY <1>2, DistinctChars DEF InNumber, NumberSoFar, EndsNumber
<1>4. /\ AddColon(t, c).type = Part(c, 0, t.type, "TIME") /\ AddColon(t, c).num = t.num
      /\ AddColon(t, c).min = t.min /\ AddColon(t, c).sec = t.sec
  BY DEF AddColon, Tokens, Part
<1>5. t.type = type /\ t.num = num /\ t.min = min /\ t.sec = sec
  BY <1>2 DEF NumberSoFar
<1> QED
  BY <1>1, <1>3, <1>4, <1>5 DEF NumberSoFar, Parser

IsNumber(t, pos, type, num, min, sec) ==
  /\ t.rc = 0 /\ t.pos = pos /\ t.token.type = type /\ t.token.num = num
  /\ t.token.min = min /\ t.token.sec = sec

LEMMA NumberEnds ==
  ASSUME NEW C, NEW text, NEW limit, NEW pos, NEW token, NEW a,
         IsParse(a, C, text, limit, pos, token),
         NEW m \in pos..limit, NEW c, NEW type, NEW num, NEW min, NEW sec,
         NumberSoFar(a[m], m, c, type, num, min, sec), m < limit, text[m + 1] \in Separators
  PROVE  IsNumber(Returned(a[limit]), m, type, num, min, sec)
<1>0. /\ limit \in Nat /\ pos \in Nat /\ token \in Tokens(C)
      /\ a \in [pos..limit -> ParseStates(C)]
  BY DEF IsParse
<1> USE <1>0
<1>a. \A k, l \in pos..limit : l = k + 1 => a[l] = ParseChar(a[k], text[l])
  BY DEF IsParse, Parses
<1>1. PICK l \in pos..limit : l = m + 1
  OBVIOUS
<1>2. a[l] = ParseChar(a[m], text[l]) /\ text[l] \in Separators
  BY <1>1, <1>a
<1>2a. a[l] = InNumber(a[m], text[l])
  BY <1>2 DEF ParseChar, NumberSoFar
<1>3. a[l] = Parser("DONE", a[m].token, a[m].colons, a[m].pos)
  BY <1>2, <1>2a, DistinctChars DEF InNumber, EndsNumber
<1>4. a[l].state = "DONE" /\ a[l].token = a[m].token /\ a[l].pos = a[m].pos
  BY <1>3 DEF Parser
<1>5. a[limit] = a[l]
  BY <1>4, Stays
<1> QED
  BY <1>4, <1>5 DEF Returned, NumberSoFar, IsNumber

----------------------------------------------------------------------------
(* A field of a list that is read, from the separators before it, out of   *)
(* the first `limit` cells of a chunk.                                     *)

Holds(cells, limit, text, C) == \A k \in 1..limit : cells[k] \in C /\ cells[k] = text[k]

Leads(text, limit, pos, f) ==
  pos <= f.at /\ \A q \in (pos + 1)..f.at : q <= limit => text[q] \in Separators

\* t is field f; what minutes and seconds of a time are behind depends on
\* the token `before`.
ReadsAs(t, f, before) ==
  /\ t.rc = 0 /\ t.pos = FieldEnd(f) /\ t.token.type = f.type
  /\ f.type = "STRING" => t.token.str = f.str
  /\ f.type = "NUMBER" => t.token.num = f.num
  /\ f.type = "TIME" => /\ t.token.num = Appended(0, f.digits[1])
                        /\ t.token.min = Appended(before.min, f.digits[2])
                        /\ t.token.sec = Appended(before.sec, f.digits[3])

\* t is no field: an error, the end, or what lies between two fields.
CutOff(t, limit) == t.rc # 0 \/ (t.token.type = "UNKNOWN" /\ t.pos = limit)

Results(C) == [pos : Nat, token : Tokens(C), rc : {0, 1, -WERR_PARSE_DATABASE}]

LEMMA TokenType ==
  ASSUME NEW C, NEW limit \in Nat, NEW pos \in Nat, NEW token \in Tokens(C), NEW text,
         NEW cells, Holds(cells, limit, text, C)
  PROVE  radiolist_parse_token(cells, limit, pos, token) \in Results(C)
<1>1. CASE pos >= limit
  <2>1. radiolist_parse_token(cells, limit, pos, token) = [pos |-> pos, token |-> Fresh(token), rc |-> 1]
    BY <1>1 DEF radiolist_parse_token, Fresh
  <2>2. Fresh(token) \in Tokens(C)
    BY FreshType
  <2> QED
    BY <2>1, <2>2 DEF Results
<1>2. CASE ~ (pos >= limit)
  <2>1. pos < limit /\ \A k \in 1..limit : cells[k] \in C
    BY <1>2 DEF Holds
  <2>2. PICK a :
          /\ IsParse(a, C, cells, limit, pos, token)
          /\ radiolist_parse_token(cells, limit, pos, token) = Returned(a[limit])
    BY <2>1, ParseRun
  <2>3. PICK x \in ParseStates(C) : x = a[limit]
    BY <2>1, <2>2 DEF IsParse
  <2>4. x.pos \in Nat /\ x.token \in Tokens(C)
    BY DEF ParseStates
  <2>5. Returned(x) \in Results(C)
    BY <2>4 DEF Returned, Results
  <2> QED
    BY <2>2, <2>3, <2>5
<1> QED
  BY <1>1, <1>2

\* Where a field begins, and that none does.
LEMMA Begins ==
  ASSUME NEW C, NEW limit \in Nat, NEW pos \in Nat, NEW token \in Tokens(C), NEW text,
         NEW cells, Holds(cells, limit, text, C), pos < limit,
         NEW m \in pos..limit, \A q \in (pos + 1)..m : text[q] \in Separators
  PROVE  \E a :
           /\ IsParse(a, C, cells, limit, pos, token)
           /\ radiolist_parse_token(cells, limit, pos, token) = Returned(a[limit])
           /\ a[m] = Parser("INITIAL", Fresh(token), 0, m)
<1>1. \A k \in 1..limit : cells[k] \in C
  BY DEF Holds
<1>2. PICK a :
        /\ IsParse(a, C, cells, limit, pos, token)
        /\ radiolist_parse_token(cells, limit, pos, token) = Returned(a[limit])
  BY <1>1, ParseRun
<1>3. \A q \in (pos + 1)..m : cells[q] \in Separators
  <2>1. \A q \in (pos + 1)..m : q \in 1..limit
    OBVIOUS
  <2> QED
    BY <2>1 DEF Holds
<1>4. a[m] = Parser("INITIAL", Fresh(token), 0, m)
  BY <1>2, <1>3, Skips
<1> QED
  BY <1>2, <1>4

\* Behind the last field there is nothing but separators to find.
FindsNothing(t, pos, limit) ==
  \/ t.rc = 1
  \/ t.rc = 0 /\ t.token.type = "UNKNOWN" /\ t.pos = limit /\ pos < limit

LEMMA OnlySeparators ==
  ASSUME NEW C, NEW limit \in Nat, NEW pos \in Nat, NEW token \in Tokens(C), NEW text,
         NEW cells, Holds(cells, limit, text, C),
         \A q \in (pos + 1)..limit : text[q] \in Separators
  PROVE  FindsNothing(radiolist_parse_token(cells, limit, pos, token), pos, limit)
<1>1. CASE pos >= limit
  <2>1. radiolist_parse_token(cells, limit, pos, token) = [pos |-> pos, token |-> Fresh(token), rc |-> 1]
    BY <1>1 DEF radiolist_parse_token, Fresh
  <2> QED
    BY <2>1 DEF FindsNothing
<1>2. CASE ~ (pos >= limit)
  <2>1. pos < limit /\ limit \in pos..limit
    BY <1>2
  <2>2. PICK a :
          /\ IsParse(a, C, cells, limit, pos, token)
          /\ radiolist_parse_token(cells, limit, pos, token) = Returned(a[limit])
          /\ a[limit] = Parser("INITIAL", Fresh(token), 0, limit)
    BY <2>1, Begins
  <2>3. Fresh(token).type = "UNKNOWN"
    BY FreshType
  <2>4. a[limit].token = Fresh(token) /\ a[limit].pos = limit /\ a[limit].state = "INITIAL"
    BY <2>2 DEF Parser
  <2> QED
    BY <2>1, <2>2, <2>3, <2>4 DEF FindsNothing, Returned
<1> QED
  BY <1>1, <1>2

LEMMA NotReached ==
  ASSUME NEW C, NEW limit \in Nat, NEW pos \in Nat, NEW token \in Tokens(C), NEW text,
         NEW cells, Holds(cells, limit, text, C),
         \A q \in (pos + 1)..limit : text[q] \in Separators
  PROVE  CutOff(radiolist_parse_token(cells, limit, pos, token), limit)
<1>1. FindsNothing(radiolist_parse_token(cells, limit, pos, token), pos, limit)
  BY OnlySeparators
<1> QED
  BY <1>1 DEF FindsNothing, CutOff

LEMMA ReadsStringField ==
  ASSUME NEW C, NEW limit \in Nat, NEW pos \in Nat, NEW token \in Tokens(C), NEW text,
         NEW cells, Holds(cells, limit, text, C),
         NEW f, f.type = "STRING", f.at \in Nat, Written(text, f), Leads(text, limit, pos, f)
  PROVE  LET t == radiolist_parse_token(cells, limit, pos, token)
         IN  /\ FieldEnd(f) \in Nat /\ f.at <= FieldEnd(f)
             /\ FieldEnd(f) <= limit => ReadsAs(t, f, token)
             /\ ~ (FieldEnd(f) <= limit) => CutOff(t, limit)
<1> DEFINE t == radiolist_parse_token(cells, limit, pos, token)
           S == {text[q] : q \in 1..Len(text)} \ {"QUOTE"}
<1>1. /\ f.str \in Seq(S) /\ text[f.at + 1] = "QUOTE" /\ text[FieldEnd(f)] = "QUOTE"
      /\ \A j \in 1..Len(f.str) : text[f.at + 1 + j] = f.str[j]
  BY DEF Written
<1>2. FieldEnd(f) = f.at + Len(f.str) + 2
  BY DEF FieldEnd
<1>3. Len(f.str) \in Nat /\ FieldEnd(f) \in Nat /\ f.at <= FieldEnd(f) /\ "QUOTE" \notin S
  BY <1>1, <1>2
<1> HIDE DEF S
<1>4. CASE limit <= f.at
  <2>1. \A q \in (pos + 1)..limit : text[q] \in Separators
    BY <1>4 DEF Leads
  <2>2. CutOff(t, limit)
    BY <2>1, NotReached
  <2> QED
    BY <1>2, <1>3, <1>4, <2>2
<1>5. CASE f.at < limit
  <2>1. pos < limit /\ f.at \in pos..limit /\ \A q \in (pos + 1)..f.at : text[q] \in Separators
    BY <1>5 DEF Leads
  <2>2. PICK a :
          /\ IsParse(a, C, cells, limit, pos, token)
          /\ t = Returned(a[limit])
          /\ a[f.at] = Parser("INITIAL", Fresh(token), 0, f.at)
    BY <2>1, Begins
  <2> HIDE DEF t
  <2>3. Fresh(token) \in Tokens(C)
    BY FreshType
  <2>4. cells[f.at + 1] = "QUOTE"
    <3>1. f.at + 1 \in 1..limit
      BY <1>5
    <3> QED
      BY <3>1, <1>1 DEF Holds
  <2>5. ASSUME NEW n \in 0..Len(f.str), f.at + 1 + n <= limit
        PROVE  StringSoFar(a[f.at + 1 + n], f.str, n, f.at + 1 + n)
    <3>1. Goes(cells, f.at + 1, f.str, n)
      <4>1. \A j \in 1..n : f.at + 1 + j \in 1..limit /\ j \in 1..Len(f.str)
        BY <1>3, <2>5, SMTT(30)
      <4> QED
        BY <4>1, <1>1 DEF Holds, Goes
    <3> QED
      BY <1>1, <1>3, <1>5, <2>1, <2>2, <2>3, <2>4, <2>5, <3>1, ReadsString
  <2>6. CASE FieldEnd(f) <= limit
    <3>1. PICK n \in 0..Len(f.str) : n = Len(f.str)
      BY <1>3
    <3>2. PICK k \in pos..limit, l \in pos..limit : k = f.at + 1 + n /\ l = k + 1 /\ l = FieldEnd(f)
      <4>0. n \in Nat /\ f.at + n + 2 <= limit /\ pos <= f.at
        BY <1>2, <1>3, <2>1, <2>6, <3>1
      <4>1. f.at + 1 + n \in pos..limit /\ f.at + 2 + n \in pos..limit
        BY <4>0
      <4>2. f.at + 2 + n = (f.at + 1 + n) + 1 /\ f.at + 2 + n = FieldEnd(f)
        BY <1>2, <1>3, <3>1
      <4> QED
        BY <4>1, <4>2, Zenon
    <3>3. StringSoFar(a[k], f.str, n, k)
      BY <2>5, <3>2
    <3>4. a[l] = ParseChar(a[k], cells[l])
      BY <2>2, <3>2 DEF IsParse, Parses
    <3>5. cells[l] = "QUOTE"
      BY <1>1, <2>1, <3>2 DEF Holds
    <3>6. a[l] = Parser("DONE", a[k].token, a[k].colons, a[k].pos + 1)
      BY <3>3, <3>4, <3>5 DEF ParseChar, InString, StringSoFar
    <3>7. a[l].state = "DONE" /\ a[l].token = a[k].token /\ a[l].pos = l
      BY <3>2, <3>3, <3>6, SMTT(30) DEF Parser, StringSoFar
    <3>8. a[limit] = a[l]
      BY <2>2, <3>7, Stays
    <3>9. SubSeq(f.str, 1, n) = f.str
      BY <1>1, <3>1
    <3>10. a[k].token.type = "STRING" /\ a[k].token.str = f.str
      BY <3>3, <3>9 DEF StringSoFar
    <3>11. t.rc = 0 /\ t.pos = FieldEnd(f) /\ t.token = a[k].token
      BY <2>2, <3>2, <3>7, <3>8 DEF Returned
    <3>12. ReadsAs(t, f, token)
      BY <3>10, <3>11 DEF ReadsAs
    <3> QED
      BY <1>3, <2>6, <3>12 DEF t
  <2>7. CASE ~ (FieldEnd(f) <= limit)
    <3>1. PICK n \in 0..Len(f.str) : f.at + 1 + n = limit
      <4>1. limit - f.at - 1 \in 0..Len(f.str)
        BY <1>2, <1>3, <1>5, <2>7
      <4>2. f.at + 1 + (limit - f.at - 1) = limit
        OBVIOUS
      <4> QED
        BY <4>1, <4>2
    <3>2. f.at + 1 + n <= limit
      BY <3>1
    <3>3. StringSoFar(a[limit], f.str, n, limit)
      BY <2>5, <3>1, <3>2
    <3>4. t.rc # 0
      BY <2>2, <3>3 DEF Returned, StringSoFar, WERR_PARSE_DATABASE
    <3> QED
      BY <1>3, <2>7, <3>4 DEF t, CutOff
  <2> QED
    BY <2>6, <2>7
<1>6. limit <= f.at \/ f.at < limit
  OBVIOUS
<1> QED
  BY <1>4, <1>5, <1>6

LEMMA ReadsNumberField ==
  ASSUME NEW C, NEW limit \in Nat, NEW pos \in Nat, NEW token \in Tokens(C), NEW text,
         NEW cells, Holds(cells, limit, text, C),
         NEW f, f.type = "NUMBER", f.at \in Nat, Written(text, f), Leads(text, limit, pos, f),
         FieldEnd(f) < limit => text[FieldEnd(f) + 1] \in Separators
  PROVE  LET t == radiolist_parse_token(cells, limit, pos, token)
         IN  /\ FieldEnd(f) \in Nat /\ f.at < FieldEnd(f)
             /\ FieldEnd(f) < limit => ReadsAs(t, f, token)
             /\ ~ (FieldEnd(f) < limit) => CutOff(t, limit)
<1> DEFINE t == radiolist_parse_token(cells, limit, pos, token)
<1>1. /\ f.digits \in Seq(DOMAIN Digits) /\ f.digits # << >>
      /\ \A j \in 1..Len(f.digits) : text[f.at + j] = f.digits[j]
      /\ f.num = Appended(0, f.digits)
  BY DEF Written, HasDigits
<1>2. FieldEnd(f) = f.at + Len(f.digits)
  BY DEF FieldEnd
<1>3. Len(f.digits) \in Nat /\ Len(f.digits) # 0 /\ FieldEnd(f) \in Nat /\ f.at < FieldEnd(f)
  BY <1>1, <1>2
<1>4. CASE limit <= f.at
  <2>1. \A q \in (pos + 1)..limit : text[q] \in Separators
    BY <1>4 DEF Leads
  <2>2. CutOff(t, limit)
    BY <2>1, NotReached
  <2> QED
    BY <1>2, <1>3, <1>4, <2>2
<1>5. CASE f.at < limit
  <2>1. pos < limit /\ f.at \in pos..limit /\ \A q \in (pos + 1)..f.at : text[q] \in Separators
    BY <1>5 DEF Leads
  <2>2. PICK a :
          /\ IsParse(a, C, cells, limit, pos, token)
          /\ t = Returned(a[limit])
          /\ a[f.at] = Parser("INITIAL", Fresh(token), 0, f.at)
    BY <2>1, Begins
  <2> HIDE DEF t
  <2>3. Fresh(token) \in Tokens(C)
    BY FreshType
  <2>4. ASSUME NEW n \in 1..Len(f.digits), f.at + n <= limit
        PROVE  /\ a[f.at + n].state = "NUMBER"
               /\ n = Len(f.digits) =>
                    NumberSoFar(a[f.at + n], f.at + n, 0, "NUMBER", Appended(0, f.digits),
                                Fresh(token).min, Fresh(token).sec)
    <3>1. Goes(cells, f.at, f.digits, n)
      <4>1. \A j \in 1..n : f.at + j \in 1..limit /\ j \in 1..Len(f.digits)
        BY <1>3, <2>4
      <4> QED
        BY <4>1, <1>1 DEF Holds, Goes
    <3> QED
      BY <1>1, <2>1, <2>2, <2>3, <2>4, <3>1, ReadsFirst
  <2>5. CASE FieldEnd(f) < limit
    <3>1. PICK n \in 1..Len(f.digits) : n = Len(f.digits)
      BY <1>3
    <3>2. f.at + n <= limit /\ f.at + n = FieldEnd(f)
      BY <1>2, <1>3, <2>5, <3>1
    <3>3. PICK m \in pos..limit : m = f.at + n
      <4>1. f.at + n \in pos..limit
        BY <3>2, <2>1
      <4> QED
        BY <4>1
    <3>4. NumberSoFar(a[m], m, 0, "NUMBER", Appended(0, f.digits), Fresh(token).min,
                      Fresh(token).sec)
      BY <2>4, <3>1, <3>2, <3>3
    <3>5. m < limit /\ cells[m + 1] \in Separators
      <4>1. m < limit /\ m + 1 \in 1..limit /\ text[m + 1] \in Separators
        BY <2>5, <3>2, <3>3
      <4> QED
        BY <4>1 DEF Holds
    <3>6. t.rc = 0 /\ t.pos = m /\ t.token.type = "NUMBER" /\ t.token.num = Appended(0, f.digits)
      <4>1. IsNumber(Returned(a[limit]), m, "NUMBER", Appended(0, f.digits), Fresh(token).min,
                     Fresh(token).sec)
        BY <2>2, <3>3, <3>4, <3>5, NumberEnds
      <4> QED
        BY <2>2, <4>1 DEF IsNumber
    <3>7. ReadsAs(t, f, token)
      BY <1>1, <3>2, <3>3, <3>6 DEF ReadsAs
    <3> QED
      BY <1>3, <2>5, <3>7 DEF t
  <2>6. CASE ~ (FieldEnd(f) < limit)
    <3>1. PICK n \in 1..Len(f.digits) : f.at + n = limit
      <4>1. limit - f.at \in 1..Len(f.digits)
        BY <1>2, <1>3, <1>5, <2>6
      <4>2. f.at + (limit - f.at) = limit
        OBVIOUS
      <4> QED
        BY <4>1, <4>2
    <3>2. f.at + n <= limit
      BY <3>1
    <3>3. a[limit].state = "NUMBER"
      BY <2>4, <3>1, <3>2
    <3>4. t.rc # 0
      BY <2>2, <3>3 DEF Returned, WERR_PARSE_DATABASE
    <3> QED
      BY <1>3, <2>6, <3>4 DEF t, CutOff
  <2> QED
    BY <2>5, <2>6
<1>6. limit <= f.at \/ f.at < limit
  OBVIOUS
<1> QED
  BY <1>4, <1>5, <1>6

LEMMA ReadsTimeField ==
  ASSUME NEW C, NEW limit \in Nat, NEW pos \in Nat, NEW token \in Tokens(C), NEW text,
         NEW cells, Holds(cells, limit, text, C),
         NEW f, f.type = "TIME", f.at \in Nat, Written(text, f), Leads(text, limit, pos, f),
         FieldEnd(f) < limit, text[FieldEnd(f) + 1] \in Separators
  PROVE  /\ FieldEnd(f) \in Nat /\ f.at < FieldEnd(f)
         /\ ReadsAs(radiolist_parse_token(cells, limit, pos, token), f, token)
<1> DEFINE t == radiolist_parse_token(cells, limit, pos, token)
           d1 == f.digits[1]
           d2 == f.digits[2]
           d3 == f.digits[3]
           m1 == f.at + Len(d1)
           m2 == m1 + 1 + Len(d2)
           m3 == m2 + 1 + Len(d3)
<1>1. /\ d1 \in Seq(DOMAIN Digits) /\ d2 \in Seq(DOMAIN Digits) /\ d3 \in Seq(DOMAIN Digits)
      /\ d1 # << >> /\ HasDigits(text, f.at, d1)
  BY DEF Written
<1>2. /\ text[m1 + 1] = "COLON" /\ HasDigits(text, m1 + 1, d2)
      /\ text[m2 + 1] = "COLON" /\ HasDigits(text, m2 + 1, d3)
  BY DEF Written
<1>3. FieldEnd(f) = m3
  <2>1. FieldEnd(f) = f.at + Len(d1) + Len(d2) + Len(d3) + 2
    BY DEF FieldEnd
  <2>2. Len(d1) \in Nat /\ Len(d2) \in Nat /\ Len(d3) \in Nat
    BY <1>1
  <2> HIDE DEF d1, d2, d3
  <2> QED
    BY <2>1, <2>2
<1>4. Len(d1) \in Nat /\ Len(d1) # 0 /\ Len(d2) \in Nat /\ Len(d3) \in Nat
  BY <1>1
<1> HIDE DEF d1, d2, d3
<1>5. /\ m1 \in Nat /\ m2 \in Nat /\ m3 \in Nat
      /\ f.at < m1 /\ m1 < m2 /\ m2 < m3 /\ m3 < limit
      /\ m1 + 1 + Len(d2) = m2 /\ m2 + 1 + Len(d3) = m3
  <2>1. m1 \in Nat /\ f.at < m1
    BY <1>4
  <2> HIDE DEF m1
  <2>2. m2 \in Nat /\ m1 < m2 /\ m1 + 1 + Len(d2) = m2
    BY <2>1, <1>4
  <2> HIDE DEF m2
  <2>3. m3 \in Nat /\ m2 < m3 /\ m2 + 1 + Len(d3) = m3
    BY <2>2, <1>4
  <2> HIDE DEF m3
  <2>4. m3 < limit
    BY <1>3
  <2> QED
    BY <2>1, <2>2, <2>3, <2>4
<1>6. pos < limit /\ f.at \in pos..limit /\ \A q \in (pos + 1)..f.at : text[q] \in Separators
  <2> HIDE DEF m1, m2, m3
  <2>1. f.at < limit /\ pos <= f.at
    BY <1>5 DEF Leads
  <2>2. \A q \in (pos + 1)..f.at : text[q] \in Separators
    BY <2>1 DEF Leads
  <2> QED
    BY <2>1, <2>2
<1>7. PICK a :
        /\ IsParse(a, C, cells, limit, pos, token)
        /\ t = Returned(a[limit])
        /\ a[f.at] = Parser("INITIAL", Fresh(token), 0, f.at)
  BY <1>6, Begins
<1> HIDE DEF t
<1>8. /\ Fresh(token) \in Tokens(C) /\ Fresh(token).min = token.min /\ Fresh(token).sec = token.sec
      /\ token.min \in Int /\ token.sec \in Int
  BY FreshType DEF Tokens
<1>9. \A k \in 1..limit : cells[k] = text[k]
  BY DEF Holds
<1>10. /\ Appended(0, d1) \in Int
       /\ NumberSoFar(a[m1], m1, 0, "NUMBER", Appended(0, d1), token.min, token.sec)
  <2>1. PICK n \in 1..Len(d1) : n = Len(d1)
    BY <1>4
  <2>2. Goes(cells, f.at, d1, n)
    <3>1. \A j \in 1..n : f.at + j \in 1..limit
      <4>1. f.at + n = m1
        BY <2>1
      <4> HIDE DEF m1, m2, m3
      <4>2. f.at + n < limit
        BY <1>5, <4>1
      <4> QED
        BY <4>2
    <3> QED
      BY <1>1, <1>9, <2>1, <3>1 DEF HasDigits, Goes
  <2>3. f.at + n <= limit
    BY <1>5, <2>1
  <2>4. /\ Appended(0, d1) \in Int
        /\ n = Len(d1) => NumberSoFar(a[f.at + n], f.at + n, 0, "NUMBER", Appended(0, d1),
                                      Fresh(token).min, Fresh(token).sec)
    BY <1>1, <1>6, <1>7, <1>8, <2>2, <2>3, ReadsFirst
  <2> QED
    BY <1>8, <2>1, <2>4
<1> HIDE DEF m1, m2, m3
<1>11. m1 \in pos..limit /\ m1 + 1 \in pos..limit /\ m2 \in pos..limit /\ m2 + 1 \in pos..limit
       /\ m3 \in pos..limit
  BY <1>5, <1>6
<1>12. cells[m1 + 1] = "COLON" /\ cells[m2 + 1] = "COLON" /\ cells[m3 + 1] \in Separators
  <2>1. m1 + 1 \in 1..limit /\ m2 + 1 \in 1..limit /\ m3 + 1 \in 1..limit
    BY <1>5
  <2> QED
    BY <1>2, <1>3, <1>9, <2>1
<1>13. NumberSoFar(a[m1 + 1], m1 + 1, 1, "TIME", Appended(0, d1), token.min, token.sec)
  <2>1. 0 \in 0..1 /\ 0 + 1 = 1 /\ Part(0, 0, "NUMBER", "TIME") = "TIME"
    BY DEF Part
  <2>2. NumberSoFar(a[m1 + 1], m1 + 1, 0 + 1, Part(0, 0, "NUMBER", "TIME"), Appended(0, d1),
                    token.min, token.sec)
    BY <1>7, <1>10, <1>11, <1>12, <2>1, ReadsColon
  <2> QED
    BY <2>1, <2>2
<1>14. HasDigits(cells, m1 + 1, d2) /\ HasDigits(cells, m2 + 1, d3)
  <2>1. /\ \A j \in 1..Len(d2) : m1 + 1 + j \in 1..limit
        /\ \A j \in 1..Len(d3) : m2 + 1 + j \in 1..limit
    BY <1>4, <1>5
  <2> QED
    BY <1>2, <1>9, <2>1 DEF HasDigits
<1> DEFINE v2 == Appended(token.min, d2)
           v3 == Appended(token.sec, d3)
<1>15. v2 \in Int /\ NumberSoFar(a[m2], m2, 1, "TIME", Appended(0, d1), v2, token.sec)
  <2>1. /\ 1 \in 1..2 /\ Part(1, 1, token.sec, token.min) = token.min
        /\ Part(1, 1, token.min, v2) = v2 /\ Part(1, 2, token.sec, v2) = token.sec
    BY DEF Part
  <2>2. m1 + 1 + Len(d2) <= limit
    BY <1>5
  <2>3. /\ Appended(Part(1, 1, token.sec, token.min), d2) \in Int
        /\ NumberSoFar(a[m1 + 1 + Len(d2)], m1 + 1 + Len(d2), 1, "TIME", Appended(0, d1),
                       Part(1, 1, token.min, Appended(Part(1, 1, token.sec, token.min), d2)),
                       Part(1, 2, token.sec, Appended(Part(1, 1, token.sec, token.min), d2)))
    BY <1>1, <1>7, <1>8, <1>10, <1>11, <1>13, <1>14, <2>1, <2>2, ReadsPart
  <2> QED
    BY <1>5, <2>1, <2>3
<1> HIDE DEF v2
<1>16. NumberSoFar(a[m2 + 1], m2 + 1, 2, "TIME", Appended(0, d1), v2, token.sec)
  <2>1. 1 \in 0..1 /\ 1 + 1 = 2 /\ Part(1, 0, "TIME", "TIME") = "TIME"
    BY DEF Part
  <2>2. NumberSoFar(a[m2 + 1], m2 + 1, 1 + 1, Part(1, 0, "TIME", "TIME"), Appended(0, d1),
                    v2, token.sec)
    BY <1>7, <1>11, <1>12, <1>15, <2>1, ReadsColon
  <2> QED
    BY <2>1, <2>2
<1>17. v3 \in Int /\ NumberSoFar(a[m3], m3, 2, "TIME", Appended(0, d1), v2, v3)
  <2>1. /\ 2 \in 1..2 /\ Part(2, 1, token.sec, v2) = token.sec
        /\ Part(2, 1, v2, v3) = v2 /\ Part(2, 2, token.sec, v3) = v3
    BY DEF Part
  <2>2. m2 + 1 + Len(d3) <= limit
    BY <1>5
  <2>3. /\ Appended(Part(2, 1, token.sec, v2), d3) \in Int
        /\ NumberSoFar(a[m2 + 1 + Len(d3)], m2 + 1 + Len(d3), 2, "TIME", Appended(0, d1),
                       Part(2, 1, v2, Appended(Part(2, 1, token.sec, v2), d3)),
                       Part(2, 2, token.sec, Appended(Part(2, 1, token.sec, v2), d3)))
    BY <1>1, <1>7, <1>8, <1>10, <1>11, <1>14, <1>15, <1>16, <2>1, <2>2, ReadsPart
  <2> QED
    BY <1>5, <2>1, <2>3
<1> HIDE DEF v3
<1>18. m3 < limit
  BY <1>5
<1>19. /\ t.rc = 0 /\ t.pos = m3 /\ t.token.type = "TIME" /\ t.token.num = Appended(0, d1)
       /\ t.token.min = v2 /\ t.token.sec = v3
  <2>1. IsNumber(Returned(a[limit]), m3, "TIME", Appended(0, d1), v2, v3)
    BY <1>7, <1>11, <1>12, <1>17, <1>18, NumberEnds
  <2> QED
    BY <1>7, <2>1 DEF IsNumber
<1>20. ReadsAs(t, f, token)
  BY <1>3, <1>19 DEF ReadsAs, v2, v3, d1, d2, d3
<1>21. FieldEnd(f) \in Nat /\ f.at < FieldEnd(f)
  BY <1>3, <1>5
<1> QED
  BY <1>20, <1>21 DEF t

\* What of the next n tokens each is.
TokenRun(t, n, pos, token) ==
  /\ t[0] = [pos |-> pos, token |-> token, rc |-> 0]
  /\ \A k \in 1..n : t[k] = TokenAfter(t[k - 1])

HasRun(C, n, pos, token) ==
  \E t \in [0..n -> Results(C)] : TokenRun(t, n, pos, token) /\ NextTokens(n, pos, token) = t[n]

LEMMA TokensRun ==
  ASSUME NEW C, NEW n \in Nat, NEW pos \in Nat, NEW token \in Tokens(C), NEW text,
         api_chunk_write_pos \in Nat, Holds(api_chunk, api_chunk_write_pos, text, C)
  PROVE  HasRun(C, n, pos, token)
<1> DEFINE S == Results(C)
           s == [pos |-> pos, token |-> token, rc |-> 0]
           F == [kx \in (0..n) \X S |-> TokenAfter(kx[2])]
           Found(f) == f = [k \in 0..n |-> IF k = 0 THEN s ELSE TokenAfter(f[k - 1])]
           best == CHOOSE f : Found(f)
<1>1. s \in S
  BY DEF Results
<1>2. ASSUME NEW x \in S PROVE TokenAfter(x) \in S
  <2>1. x.pos \in Nat /\ x.token \in Tokens(C)
    BY DEF Results
  <2>2. NextToken(x.pos, x.token) \in S
    BY <2>1, TokenType DEF NextToken
  <2> QED
    BY <2>2 DEF TokenAfter
<1>3. F \in [(0..n) \X S -> S]
  <2>1. ASSUME NEW kx \in (0..n) \X S PROVE TokenAfter(kx[2]) \in S
    <3>1. kx[2] \in S
      OBVIOUS
    <3> HIDE DEF S
    <3> QED
      BY <3>1, <1>2
  <2> HIDE DEF S
  <2> QED
    BY <2>1
<1>4. \A k \in 0..n, x \in S : F[<<k, x>>] = TokenAfter(x)
  <2> HIDE DEF S
  <2> QED
    OBVIOUS
<1>5. NextTokens(n, pos, token) = best[n]
  BY DEF NextTokens
<1> HIDE DEF F, S, s
<1>6. PICK f \in [0..n -> S] : Recurs(f, F, s, 0, n)
  <2>1. 0 \in Nat /\ 0 <= n
    OBVIOUS
  <2> QED
    BY <1>1, <1>3, <2>1, Recursion
<1>7. f[0] = s /\ \A k \in 1..n : f[k] = TokenAfter(f[k - 1])
  <2>1. f[0] = s
    BY <1>6 DEF Recurs
  <2>2. ASSUME NEW k \in 1..n PROVE f[k] = TokenAfter(f[k - 1])
    <3>1. k - 1 \in 0..n /\ k \in 0..n /\ k \in (0 + 1)..n
      OBVIOUS
    <3>2. f[k - 1] \in S
      BY <3>1
    <3>3. f[k] = F[<<k, f[k - 1]>>]
      BY <1>6, <3>1 DEF Recurs
    <3> QED
      BY <3>1, <3>2, <3>3, <1>4
  <2> QED
    BY <2>1, <2>2
<1>8. Found(f)
  BY <1>7
<1>9. Found(best)
  BY <1>8, Zenon
<1> HIDE DEF best
<1>10. best[0] = s /\ \A k \in 1..n : best[k] = TokenAfter(best[k - 1])
  BY <1>9
<1> DEFINE P == {k \in 0..n : best[k] = f[k]}
<1>11. 0 \in P
  BY <1>7, <1>10
<1>12. ASSUME NEW k \in (0 + 1)..n, k - 1 \in P PROVE k \in P
  <2>1. k \in 1..n /\ best[k - 1] = f[k - 1]
    BY <1>12
  <2> QED
    BY <2>1, <1>7, <1>10
<1> HIDE DEF P
<1>13. \A k \in 0..n : k \in P
  BY <1>11, <1>12, Upward
<1>14. best[n] = f[n]
  BY <1>13 DEF P
<1>15. TokenRun(f, n, pos, token)
  BY <1>7 DEF TokenRun, s
<1> QED
  BY <1>5, <1>14, <1>15 DEF S, HasRun

----------------------------------------------------------------------------
(* The fields of a list.                                                   *)

LEMMA ShapeFacts ==
  ASSUME NEW api \in DOMAIN Shape
  PROVE  /\ Len(Shape[api]) \in 1..4
         /\ \A j \in 1..Len(Shape[api]) : Shape[api][j] \in {"STRING", "NUMBER", "TIME"}
<1>1. api \in {"CATALOG_ROOT", "CATALOG_ENTRY", "CHANNEL_INFO", "CHANNEL_ENTRY", "SERVER_LIST",
               "PROGRAM_INFO", "PROGRAM_LIST"}
  BY DEF Shape
<1>2. Shape[api] \in {<<"STRING", "NUMBER">>, <<"NUMBER", "STRING">>, <<"NUMBER">>,
                      <<"NUMBER", "NUMBER", "STRING", "STRING">>, <<"STRING", "STRING">>,
                      <<"TIME", "TIME", "STRING">>}
  BY <1>1 DEF Shape
<1> QED
  BY <1>2

LEMMA SourceFacts ==
  ASSUME NEW r \in Sources
  PROVE  /\ r.api \in DOMAIN Shape
         /\ r.text \in Seq(Characters \ {NUL}) /\ Len(r.text) \in Nat /\ Len(r.text) < ChunkSize
         /\ Len(r.rows) \in Nat
         /\ r.rows # << >> => Len(r.rows) >= 1 /\ IsList(r)
         /\ r.rows = << >> => \A q \in 1..Len(r.text) : r.text[q] \notin DOMAIN Digits
<1>1. CASE r \in Replies
  <2>1. r.text \in Seq({r.text[q] : q \in 1..Len(r.text)} \ {NUL})
    BY <1>1, RepliesAssumption
  <2>2. {r.text[q] : q \in 1..Len(r.text)} \ {NUL} \subseteq Characters \ {NUL}
    BY <1>1 DEF Characters
  <2>3. r.text \in Seq(Characters \ {NUL}) /\ Len(r.text) \in Nat
    <3> DEFINE S == {r.text[q] : q \in 1..Len(r.text)} \ {NUL}
    <3>1. r.text \in Seq(S) /\ S \subseteq Characters \ {NUL}
      BY <2>1, <2>2
    <3> HIDE DEF S
    <3> QED
      BY <3>1
  <2>4. Len(r.rows) \in Nat /\ (r.rows # << >> => Len(r.rows) >= 1)
    <3> DEFINE S == {r.rows[i] : i \in 1..Len(r.rows)}
    <3>1. r.rows \in Seq(S)
      BY <1>1, RepliesAssumption
    <3> HIDE DEF S
    <3> QED
      BY <3>1
  <2>5. r.api \in DOMAIN Shape /\ Len(r.text) < ChunkSize /\ (r.rows # << >> => IsList(r))
    BY <1>1, RepliesAssumption
  <2>6. r.rows = << >> => \A q \in 1..Len(r.text) : r.text[q] \notin DOMAIN Digits
    BY <1>1, NoListAssumption
  <2> QED
    BY <2>3, <2>4, <2>5, <2>6
<1>2. CASE r \notin Replies
  <2>1. r.api = "CATALOG_ROOT" /\ r.rows = << >> /\ r.text = << >>
    BY <1>2 DEF Sources
  <2>2. "CATALOG_ROOT" \in DOMAIN Shape
    BY DEF Shape
  <2>3. << >> \in Seq(Characters \ {NUL}) /\ Len(<< >>) = 0
    OBVIOUS
  <2>4. 0 < ChunkSize
    BY BoundsAssumption
  <2> QED
    BY <2>1, <2>2, <2>3, <2>4
<1> QED
  BY <1>1, <1>2

LEMMA FieldEndType ==
  ASSUME NEW text, NEW f, f.type \in {"STRING", "NUMBER", "TIME"}, f.at \in Nat, Written(text, f)
  PROVE  FieldEnd(f) \in Nat /\ f.at < FieldEnd(f)
<1>1. CASE f.type = "STRING"
  <2> DEFINE S == {text[q] : q \in 1..Len(text)} \ {"QUOTE"}
  <2>1. f.str \in Seq(S)
    BY <1>1 DEF Written
  <2>2. FieldEnd(f) = f.at + Len(f.str) + 2
    BY <1>1 DEF FieldEnd
  <2> HIDE DEF S
  <2> QED
    BY <2>1, <2>2
<1>2. CASE f.type = "NUMBER"
  <2>1. f.digits \in Seq(DOMAIN Digits) /\ f.digits # << >>
    BY <1>2 DEF Written
  <2>2. FieldEnd(f) = f.at + Len(f.digits)
    BY <1>2 DEF FieldEnd
  <2> QED
    BY <2>1, <2>2
<1>3. CASE f.type = "TIME"
  <2>1. /\ f.digits[1] \in Seq(DOMAIN Digits) /\ f.digits[2] \in Seq(DOMAIN Digits)
        /\ f.digits[3] \in Seq(DOMAIN Digits)
    BY <1>3 DEF Written
  <2>2. FieldEnd(f) = f.at + Len(f.digits[1]) + Len(f.digits[2]) + Len(f.digits[3]) + 2
    BY <1>3 DEF FieldEnd
  <2>3. Len(f.digits[1]) \in Nat /\ Len(f.digits[2]) \in Nat /\ Len(f.digits[3]) \in Nat
    BY <2>1
  <2>4. \A at, a, b, c \in Nat : at + a + b + c + 2 \in Nat /\ at < at + a + b + c + 2
    OBVIOUS
  <2>5. PICK a \in Nat, b \in Nat, c \in Nat :
          a = Len(f.digits[1]) /\ b = Len(f.digits[2]) /\ c = Len(f.digits[3])
    BY <2>3, Zenon
  <2>6. FieldEnd(f) = f.at + a + b + c + 2
    BY <2>2, <2>5, Zenon
  <2>7. f.at + a + b + c + 2 \in Nat /\ f.at < f.at + a + b + c + 2
    BY <2>4, Zenon
  <2> QED
    BY <2>6, <2>7, Zenon
<1> QED
  BY <1>1, <1>2, <1>3

LEMMA FieldFacts ==
  ASSUME NEW r \in Sources, r.rows # << >>,
         NEW i \in 1..Len(r.rows), NEW j \in 1..Len(r.rows[i])
  PROVE  /\ Len(r.rows[i]) = Len(Shape[r.api]) /\ Len(r.rows[i]) \in 1..4
         /\ r.rows[i][j].type = Shape[r.api][j]
         /\ r.rows[i][j].type \in {"STRING", "NUMBER", "TIME"}
         /\ r.rows[i][j].at \in Nat /\ Written(r.text, r.rows[i][j])
         /\ FieldEnd(r.rows[i][j]) \in Nat /\ r.rows[i][j].at < FieldEnd(r.rows[i][j])
         /\ FieldEnd(r.rows[i][j]) <= Len(r.text)
<1>1. r.api \in DOMAIN Shape /\ IsList(r)
  BY SourceFacts
<1>2. /\ Len(r.rows[i]) = Len(Shape[r.api]) /\ r.rows[i][j].type = Shape[r.api][j]
      /\ r.rows[i][j].at \in Nat /\ Written(r.text, r.rows[i][j])
      /\ FieldEnd(r.rows[i][j]) <= Len(r.text)
  BY <1>1 DEF IsList
<1>3. Len(Shape[r.api]) \in 1..4 /\ \A k \in 1..Len(Shape[r.api]) : Shape[r.api][k] \in {"STRING", "NUMBER", "TIME"}
  BY <1>1, ShapeFacts
<1>4. r.rows[i][j].type \in {"STRING", "NUMBER", "TIME"}
  BY <1>2, <1>3
<1>5. FieldEnd(r.rows[i][j]) \in Nat /\ r.rows[i][j].at < FieldEnd(r.rows[i][j])
  BY <1>2, <1>4, FieldEndType
<1> QED
  BY <1>2, <1>3, <1>4, <1>5

\* Every row has a first and a last field.
LEMMA RowLength ==
  ASSUME NEW r \in Sources, r.rows # << >>, NEW i \in 1..Len(r.rows)
  PROVE  /\ Len(r.rows[i]) = Len(Shape[r.api]) /\ Len(r.rows[i]) \in 1..4
         /\ 1 \in 1..Len(r.rows[i]) /\ Len(r.rows[i]) \in 1..Len(r.rows[i])
<1>1. r.api \in DOMAIN Shape /\ IsList(r)
  BY SourceFacts
<1>2. Len(r.rows[i]) = Len(Shape[r.api])
  BY <1>1 DEF IsList
<1>3. \A n \in 1..4 : 1 \in 1..n /\ n \in 1..n
  OBVIOUS
<1>4. Len(Shape[r.api]) \in 1..4
  BY <1>1, ShapeFacts
<1> QED
  BY <1>2, <1>3, <1>4, Zenon

\* Where a field leads: the separators behind it, and the next field.
LEMMA Behind ==
  ASSUME NEW r \in Sources, r.rows # << >>,
         NEW i \in 1..Len(r.rows), NEW j \in 1..Len(r.rows[i])
  PROVE  /\ NextAt(r, i, j) \in Nat /\ FieldEnd(r.rows[i][j]) <= NextAt(r, i, j)
         /\ i < Len(r.rows) \/ j < Len(r.rows[i]) => FieldEnd(r.rows[i][j]) < NextAt(r, i, j)
         /\ \A q \in Gap(r, i, j) : r.text[q] \in Separators
         /\ j < Len(r.rows[i]) => j + 1 \in 1..Len(r.rows[i]) /\ NextAt(r, i, j) = r.rows[i][j + 1].at
         /\ j = Len(r.rows[i]) /\ i < Len(r.rows) =>
              /\ i + 1 \in 1..Len(r.rows) /\ 1 \in 1..Len(r.rows[i + 1])
              /\ NextAt(r, i, j) = r.rows[i + 1][1].at
         /\ j = Len(r.rows[i]) /\ i = Len(r.rows) => NextAt(r, i, j) = Len(r.text)
         /\ NextAt(r, i, j) <= Len(r.text)
<1>1. IsList(r) /\ Len(r.text) \in Nat /\ Len(r.rows) \in Nat
  BY SourceFacts
<1>2. FieldsApart(r)
  BY <1>1 DEF IsList
<1>3. Len(r.rows[i]) \in 1..4
  BY RowLength
<1>4. CASE j < Len(r.rows[i])
  <2>1. j + 1 \in 1..Len(r.rows[i]) /\ NextAt(r, i, j) = r.rows[i][j + 1].at
    BY <1>3, <1>4 DEF NextAt
  <2>2. PICK k \in 1..Len(r.rows[i]) : k = j + 1
    BY <2>1
  <2>3. /\ r.rows[i][k].at \in Nat /\ FieldEnd(r.rows[i][k]) \in Nat
        /\ r.rows[i][k].at < FieldEnd(r.rows[i][k]) /\ FieldEnd(r.rows[i][k]) <= Len(r.text)
    BY <2>2, FieldFacts
  <2>4. NextAt(r, i, j) \in Nat /\ NextAt(r, i, j) <= Len(r.text)
    BY <1>1, <2>1, <2>2, <2>3
  <2> QED
    BY <1>2, <1>3, <1>4, <2>1, <2>4 DEF FieldsApart
<1>5. CASE j = Len(r.rows[i]) /\ i < Len(r.rows)
  <2>1. PICK k \in 1..Len(r.rows) : k = i + 1
    BY <1>1, <1>5
  <2>2. Len(r.rows[k]) \in 1..4
    BY <2>1, RowLength
  <2>3. 1 \in 1..Len(r.rows[k]) /\ NextAt(r, i, j) = r.rows[k][1].at
    <3>1. NextAt(r, i, j) = r.rows[i + 1][1].at
      BY <1>1, <1>3, <1>5 DEF NextAt
    <3> QED
      BY <2>1, <2>2, <3>1
  <2>4. /\ r.rows[k][1].at \in Nat /\ FieldEnd(r.rows[k][1]) \in Nat
        /\ r.rows[k][1].at < FieldEnd(r.rows[k][1]) /\ FieldEnd(r.rows[k][1]) <= Len(r.text)
    BY <2>1, <2>3, FieldFacts
  <2>5. NextAt(r, i, j) \in Nat /\ NextAt(r, i, j) <= Len(r.text)
    BY <1>1, <2>3, <2>4
  <2> QED
    BY <1>1, <1>2, <1>3, <1>5, <2>1, <2>3, <2>5 DEF FieldsApart
<1>6. CASE j = Len(r.rows[i]) /\ i = Len(r.rows)
  <2>1. NextAt(r, i, j) = Len(r.text)
    BY <1>3, <1>6 DEF NextAt
  <2> QED
    BY <1>1, <1>2, <1>3, <1>6, <2>1 DEF FieldsApart
<1> QED
  BY <1>1, <1>3, <1>4, <1>5, <1>6

\* The field is read whole within the first `limit` characters: a number is
\* only with a separator behind it.
Whole(f, limit) == FieldEnd(f) < limit \/ (f.type = "STRING" /\ FieldEnd(f) = limit)

LEMMA ReadsField ==
  ASSUME NEW r \in Sources, r.rows # << >>,
         NEW i \in 1..Len(r.rows), NEW j \in 1..Len(r.rows[i]),
         NEW limit \in 0..Len(r.text), NEW cells, Holds(cells, limit, r.text, Characters),
         NEW pos \in Nat, NEW token \in Tokens(Characters),
         Leads(r.text, limit, pos, r.rows[i][j])
  PROVE  LET t == radiolist_parse_token(cells, limit, pos, token)
         IN  /\ Whole(r.rows[i][j], limit) => ReadsAs(t, r.rows[i][j], token)
             /\ ~ Whole(r.rows[i][j], limit) /\ r.rows[i][j].type # "TIME" => CutOff(t, limit)
<1> DEFINE f == r.rows[i][j]
           t == radiolist_parse_token(cells, limit, pos, token)
<1>1. /\ f.type \in {"STRING", "NUMBER", "TIME"} /\ f.at \in Nat /\ Written(r.text, f)
      /\ FieldEnd(f) \in Nat /\ FieldEnd(f) <= Len(r.text)
  BY FieldFacts
<1>2. limit \in Nat /\ limit <= Len(r.text) /\ Len(r.text) \in Nat
  BY SourceFacts
<1>3. FieldEnd(f) < limit => r.text[FieldEnd(f) + 1] \in Separators
  <2> SUFFICES ASSUME FieldEnd(f) < limit PROVE r.text[FieldEnd(f) + 1] \in Separators
    OBVIOUS
  <2>1. /\ NextAt(r, i, j) \in Nat /\ FieldEnd(f) <= NextAt(r, i, j)
        /\ i < Len(r.rows) \/ j < Len(r.rows[i]) => FieldEnd(f) < NextAt(r, i, j)
        /\ \A q \in Gap(r, i, j) : r.text[q] \in Separators
        /\ j = Len(r.rows[i]) /\ i = Len(r.rows) => NextAt(r, i, j) = Len(r.text)
    BY Behind
  <2>2. Len(r.rows[i]) \in Nat /\ Len(r.rows) \in Nat
    BY RowLength, SourceFacts
  <2>3. FieldEnd(f) < NextAt(r, i, j)
    BY <1>1, <1>2, <2>1, <2>2
  <2>4. FieldEnd(f) + 1 \in Gap(r, i, j)
    BY <1>1, <2>1, <2>3 DEF Gap
  <2> QED
    BY <2>1, <2>4
<1>4. Leads(r.text, limit, pos, f)
  OBVIOUS
<1> HIDE DEF f
<1>5. CASE f.type = "STRING"
  <2>1. /\ FieldEnd(f) <= limit => ReadsAs(t, f, token)
        /\ ~ (FieldEnd(f) <= limit) => CutOff(t, limit)
    BY <1>1, <1>2, <1>4, <1>5, ReadsStringField
  <2>2. Whole(f, limit) <=> FieldEnd(f) <= limit
    BY <1>1, <1>2, <1>5 DEF Whole
  <2> QED
    BY <2>1, <2>2 DEF f
<1>6. CASE f.type = "NUMBER"
  <2>1. /\ FieldEnd(f) < limit => ReadsAs(t, f, token)
        /\ ~ (FieldEnd(f) < limit) => CutOff(t, limit)
    BY <1>1, <1>2, <1>3, <1>4, <1>6, ReadsNumberField
  <2>2. Whole(f, limit) <=> FieldEnd(f) < limit
    BY <1>6 DEF Whole
  <2> QED
    BY <2>1, <2>2 DEF f
<1>7. CASE f.type = "TIME"
  <2>1. Whole(f, limit) <=> FieldEnd(f) < limit
    BY <1>7 DEF Whole
  <2>2. FieldEnd(f) < limit => ReadsAs(t, f, token)
    BY <1>1, <1>2, <1>3, <1>4, <1>7, ReadsTimeField
  <2> QED
    BY <1>7, <2>1, <2>2 DEF f
<1> QED
  BY <1>1, <1>5, <1>6, <1>7

\* A field leads to the next one of its row, and a row to the next row.
LEMMA LeadsOn ==
  ASSUME NEW r \in Sources, r.rows # << >>, NEW i \in 1..Len(r.rows),
         NEW j \in 1..Len(r.rows[i]), NEW limit \in Nat, NEW pos \in Nat,
         FieldEnd(r.rows[i][j]) <= pos, pos <= NextAt(r, i, j)
  PROVE  /\ j < Len(r.rows[i]) => Leads(r.text, limit, pos, r.rows[i][j + 1])
         /\ j = Len(r.rows[i]) /\ i < Len(r.rows) => Leads(r.text, limit, pos, r.rows[i + 1][1])
         /\ j = Len(r.rows[i]) /\ i = Len(r.rows) /\ limit <= Len(r.text) =>
              \A q \in (pos + 1)..limit : r.text[q] \in Separators
<1>1. FieldEnd(r.rows[i][j]) \in Nat /\ NextAt(r, i, j) \in Nat /\ Len(r.text) \in Nat
  BY FieldFacts, Behind, SourceFacts
<1>2. \A q \in (pos + 1)..NextAt(r, i, j) : r.text[q] \in Separators
  <2>1. \A q \in (pos + 1)..NextAt(r, i, j) : q \in Gap(r, i, j)
    BY <1>1 DEF Gap
  <2> QED
    BY <2>1, Behind
<1>3. /\ j < Len(r.rows[i]) => NextAt(r, i, j) = r.rows[i][j + 1].at
      /\ j = Len(r.rows[i]) /\ i < Len(r.rows) => NextAt(r, i, j) = r.rows[i + 1][1].at
      /\ j = Len(r.rows[i]) /\ i = Len(r.rows) => NextAt(r, i, j) = Len(r.text)
  BY Behind
<1>4. j < Len(r.rows[i]) => Leads(r.text, limit, pos, r.rows[i][j + 1])
  BY <1>2, <1>3 DEF Leads
<1>5. j = Len(r.rows[i]) /\ i < Len(r.rows) => Leads(r.text, limit, pos, r.rows[i + 1][1])
  BY <1>2, <1>3 DEF Leads
<1>6. j = Len(r.rows[i]) /\ i = Len(r.rows) /\ limit <= Len(r.text) =>
        \A q \in (pos + 1)..limit : r.text[q] \in Separators
  BY <1>1, <1>2, <1>3
<1> QED
  BY <1>4, <1>5, <1>6

\* The tokens of a row: its fields, as far as they are whole, and then none.
LEMMA ReadsRow ==
  ASSUME NEW r \in Sources, r.rows # << >>, NEW i \in 1..Len(r.rows),
         api_chunk_write_pos \in 0..Len(r.text),
         Holds(api_chunk, api_chunk_write_pos, r.text, Characters),
         NEW n \in 1..Len(r.rows[i]),
         NEW pos \in Nat, NEW token \in Tokens(Characters),
         Leads(r.text, api_chunk_write_pos, pos, r.rows[i][1]),
         NEW t \in [0..n -> Results(Characters)], TokenRun(t, n, pos, token),
         \A j \in 1..n : r.rows[i][j].type # "TIME" \/ Whole(r.rows[i][j], api_chunk_write_pos)
  PROVE  \A j \in 1..n :
           \/ ReadsAs(t[j], r.rows[i][j], t[j - 1].token)
           \/ /\ CutOff(t[j], api_chunk_write_pos)
              /\ \E k \in 1..j : ~ Whole(r.rows[i][k], api_chunk_write_pos)
<1> DEFINE limit == api_chunk_write_pos
           Good(j) == ReadsAs(t[j], r.rows[i][j], t[j - 1].token)
           Bad(j) == CutOff(t[j], limit) /\ \E k \in 1..j : ~ Whole(r.rows[i][k], limit)
           P == {j \in 1..n : Good(j) \/ Bad(j)}
<1>1. limit \in Nat /\ n \in Nat /\ Len(r.rows[i]) \in Nat /\ 1 \in 1..Len(r.rows[i])
  BY SourceFacts, RowLength
<1>2. t[0].pos = pos /\ t[0].token = token /\ t[0].rc = 0
  BY DEF TokenRun
<1>3. \A j \in 1..n : t[j] = TokenAfter(t[j - 1])
  BY DEF TokenRun
<1>4. \A j \in 0..n : t[j].pos \in Nat /\ t[j].token \in Tokens(Characters)
  BY DEF Results
<1>5. ASSUME NEW j \in 1..n, NEW h, h = j - 1, t[h].rc = 0,
             Leads(r.text, limit, t[h].pos, r.rows[i][j])
      PROVE  j \in P
  <2>1. t[j] = radiolist_parse_token(api_chunk, limit, t[h].pos, t[h].token)
    BY <1>3, <1>5 DEF TokenAfter, NextToken
  <2>2. t[h].pos \in Nat /\ t[h].token \in Tokens(Characters) /\ j \in 1..Len(r.rows[i])
    BY <1>1, <1>4, <1>5, SMTT(30)
  <2>3. /\ Whole(r.rows[i][j], limit) => ReadsAs(t[j], r.rows[i][j], t[h].token)
        /\ ~ Whole(r.rows[i][j], limit) /\ r.rows[i][j].type # "TIME" => CutOff(t[j], limit)
    BY <1>5, <2>1, <2>2, ReadsField
  <2>4. CASE Whole(r.rows[i][j], limit)
    <3>1. Good(j)
      BY <1>5, <2>3, <2>4
    <3> QED
      BY <3>1
  <2>5. CASE ~ Whole(r.rows[i][j], limit)
    <3>1. CutOff(t[j], limit)
      BY <2>3, <2>5
    <3>2. j \in 1..j
      OBVIOUS
    <3>3. Bad(j)
      BY <2>5, <3>1, <3>2
    <3> QED
      BY <3>3
  <2> QED
    BY <2>4, <2>5
<1>6. 1 \in P
  <2>1. 1 \in 1..n /\ 0 = 1 - 1
    BY <1>1
  <2>2. Leads(r.text, limit, t[0].pos, r.rows[i][1])
    BY <1>2
  <2> HIDE DEF P
  <2> QED
    BY <1>2, <1>5, <2>1, <2>2
<1>7. ASSUME NEW j \in (1 + 1)..n, j - 1 \in P PROVE j \in P
  <2>1. PICK h \in 1..n : h = j - 1 /\ j = h + 1 /\ h < Len(r.rows[i]) /\ h \in 1..Len(r.rows[i])
    BY <1>1
  <2>2. Good(h) \/ Bad(h)
    BY <1>7, <2>1
  <2>3. CASE Good(h)
    <3>1. t[h].rc = 0 /\ t[h].pos = FieldEnd(r.rows[i][h])
      BY <2>3 DEF ReadsAs
    <3>2. FieldEnd(r.rows[i][h]) \in Nat /\ FieldEnd(r.rows[i][h]) <= NextAt(r, i, h) /\ NextAt(r, i, h) \in Nat
      BY <2>1, FieldFacts, Behind
    <3>3. FieldEnd(r.rows[i][h]) <= t[h].pos /\ t[h].pos <= NextAt(r, i, h) /\ t[h].pos \in Nat
      BY <3>1, <3>2
    <3>4. Leads(r.text, limit, t[h].pos, r.rows[i][j])
      BY <1>1, <2>1, <3>3, LeadsOn
    <3> HIDE DEF P
    <3> QED
      BY <1>5, <2>1, <3>1, <3>4
  <2>4. CASE Bad(h)
    <3>1. PICK k \in 1..h : ~ Whole(r.rows[i][k], limit)
      BY <2>4
    <3>2. k \in 1..j
      BY <2>1, <3>1
    <3>3. t[j] = TokenAfter(t[h])
      BY <1>3, <2>1
    <3>4. CutOff(t[j], limit)
      <4>1. CASE t[h].rc # 0
        BY <3>3, <4>1 DEF TokenAfter, CutOff
      <4>2. CASE t[h].rc = 0
        <5>1. t[h].pos = limit
          BY <2>4, <4>2 DEF CutOff
        <5>2. t[j] = radiolist_parse_token(api_chunk, limit, limit, t[h].token)
          BY <3>3, <4>2, <5>1 DEF TokenAfter, NextToken
        <5>3. t[j].rc = 1
          BY <1>1, <5>2 DEF radiolist_parse_token
        <5> QED
          BY <5>3 DEF CutOff
      <4> QED
        BY <4>1, <4>2
    <3>5. Bad(j)
      BY <3>1, <3>2, <3>4
    <3> QED
      BY <3>5, SMTT(30)
  <2> QED
    BY <2>2, <2>3, <2>4
<1> HIDE DEF P
<1>8. \A j \in 1..n : j \in P
  <2>1. 1 \in Nat /\ n \in Nat
    BY <1>1
  <2> QED
    BY <1>6, <1>7, <2>1, Upward
<1> QED
  BY <1>8 DEF P

----------------------------------------------------------------------------
(* The lines of a list.                                                    *)

\* The number e of c increasing ones that has n up to it is the n-th.
Increasing(e, c) == \A i, k \in 1..c : i < k => e[i] < e[k]
Rank(E, q) == Cardinality({x \in E : x <= q})
IsImage(E, e, c) == E = {e[i] : i \in 1..c}

LEMMA Ranks ==
  ASSUME NEW c \in Nat, NEW e \in [1..c -> Nat], Increasing(e, c),
         NEW E, IsImage(E, e, c)
  PROVE  /\ Cardinality(E) = c /\ IsFiniteSet(E)
         /\ \A n \in 1..c : \A q \in E : Rank(E, q) = n <=> q = e[n]
<1> USE DEF IsImage
<1> DEFINE Img(n) == {e[i] : i \in 1..n}
<1>1. ASSUME NEW n \in 0..c PROVE Cardinality(Img(n)) = n /\ IsFiniteSet(Img(n))
  <2> DEFINE f == [i \in 1..n |-> e[i]]
  <2>1. n \in Nat /\ \A i \in 1..n : i \in 1..c
    OBVIOUS
  <2>2. f \in [1..n -> Img(n)]
    OBVIOUS
  <2>3. \A i, k \in 1..n : f[i] = f[k] => i = k
    <3>1. ASSUME NEW i \in 1..n, NEW k \in 1..n, f[i] = f[k] PROVE i = k
      <4>1. e[i] = e[k] /\ e[i] \in Nat /\ e[k] \in Nat
        BY <2>1, <3>1
      <4>2. ~ (i < k) /\ ~ (k < i)
        BY <2>1, <4>1 DEF Increasing
      <4> QED
        BY <4>2
    <3> QED
      BY <3>1
  <2>4. \A x \in Img(n) : \E i \in 1..n : f[i] = x
    OBVIOUS
  <2> HIDE DEF f, Img
  <2>5. f \in Bijection(1..n, Img(n))
    BY <2>2, <2>3, <2>4 DEF Bijection, Injection, Surjection, IsInjective
  <2>6. ExistsBijection(1..n, Img(n))
    BY <2>5 DEF ExistsBijection
  <2> QED
    BY <2>1, <2>6, FS_CountingElements, FS_NatBijection
<1>2. E = Img(c) /\ c \in 0..c
  OBVIOUS
<1>3. ASSUME NEW n \in 1..c PROVE Cardinality({x \in E : x <= e[n]}) = n
  <2>1. \A i \in 1..c : e[i] \in Nat
    OBVIOUS
  <2>2. \A i \in 1..c : e[i] <= e[n] <=> i <= n
    <3>1. ASSUME NEW i \in 1..c PROVE e[i] <= e[n] <=> i <= n
      <4>1. i < n => e[i] < e[n]
        BY DEF Increasing
      <4>2. n < i => e[n] < e[i]
        BY DEF Increasing
      <4>3. e[i] \in Nat /\ e[n] \in Nat
        OBVIOUS
      <4>4. i < n \/ i = n \/ n < i
        OBVIOUS
      <4> QED
        BY <4>1, <4>2, <4>3, <4>4
    <3> QED
      BY <3>1
  <2>3. {x \in E : x <= e[n]} = Img(n)
    <3>1. \A i \in 1..c : i \in 1..n <=> i <= n
      OBVIOUS
    <3>2. \A i \in 1..n : i \in 1..c
      OBVIOUS
    <3> QED
      BY <2>2, <3>1, <3>2
  <2>4. n \in 0..c
    OBVIOUS
  <2> QED
    BY <1>1, <2>3, <2>4
<1>4. ASSUME NEW n \in 1..c, NEW q \in E, Cardinality({x \in E : x <= q}) = n PROVE q = e[n]
  <2>1. PICK k \in 1..c : q = e[k]
    OBVIOUS
  <2>2. Cardinality({x \in E : x <= e[k]}) = k
    BY <1>3
  <2> QED
    BY <1>4, <2>1, <2>2
<1>5. Cardinality(E) = c /\ IsFiniteSet(E)
  BY <1>1, <1>2
<1>6. \A n \in 1..c : \A q \in E : Cardinality({x \in E : x <= q}) = n <=> q = e[n]
  BY <1>3, <1>4
<1> QED
  BY <1>5, <1>6 DEF Rank

\* In a set of numbers there is one of each rank.
LEMMA HasRank ==
  ASSUME NEW top \in Nat, NEW E \in SUBSET (1..top), NEW n \in 1..Cardinality(E)
  PROVE  \E q \in E : Rank(E, q) = n
<1> DEFINE Up(p) == {x \in E : x <= p}
           T == {p \in Nat : Cardinality(Up(p)) >= n}
<1>1. IsFiniteSet(E) /\ Cardinality(E) \in Nat
  <2>1. IsFiniteSet(1..top)
    BY FS_Interval
  <2>2. IsFiniteSet(E)
    BY <2>1, FS_Subset
  <2> QED
    BY <2>2, FS_CardinalityType
<1>2. \A p \in Nat : IsFiniteSet(Up(p)) /\ Cardinality(Up(p)) \in Nat
  <2>1. ASSUME NEW p \in Nat PROVE IsFiniteSet(Up(p)) /\ Cardinality(Up(p)) \in Nat
    <3>1. Up(p) \in SUBSET E
      OBVIOUS
    <3> HIDE DEF Up
    <3>2. IsFiniteSet(Up(p))
      BY <1>1, <3>1, FS_Subset
    <3> QED
      BY <3>2, FS_CardinalityType
  <2> QED
    BY <2>1
<1>3. top \in T
  <2>1. Up(top) = E
    <3>1. \A x \in E : x <= top
      OBVIOUS
    <3> QED
      BY <3>1
  <2> HIDE DEF Up
  <2> QED
    BY <1>1, <2>1
<1>4. T \in SUBSET Nat /\ T # {}
  BY <1>3
<1> HIDE DEF T
<1>5. PICK p \in T : \A m \in T : p <= m
  BY <1>4, LeastOf
<1>6. p \in Nat /\ Cardinality(Up(p)) >= n
  BY DEF T
<1>7. p # 0
  <2>1. Up(0) = {}
    <3>1. \A x \in E : ~ (x <= 0)
      OBVIOUS
    <3> QED
      BY <3>1
  <2>2. Cardinality(Up(0)) = 0
    BY <2>1, FS_EmptySet
  <2> HIDE DEF Up
  <2> QED
    BY <1>6, <2>2
<1>8. p - 1 \in Nat /\ ~ (p <= p - 1)
  BY <1>6, <1>7
<1>9. ~ (Cardinality(Up(p - 1)) >= n)
  <2>1. p - 1 \notin T
    BY <1>5, <1>8
  <2> QED
    BY <1>8, <2>1 DEF T
<1>10. p \in E
  <2> SUFFICES ASSUME p \notin E PROVE FALSE
    OBVIOUS
  <2>1. Up(p) = Up(p - 1)
    <3>1. \A x \in E : x \in Nat /\ (x <= p <=> x <= p - 1)
      BY <1>6
    <3> QED
      BY <3>1
  <2> HIDE DEF Up
  <2> QED
    BY <1>6, <1>9, <2>1
<1>11. Up(p) = Up(p - 1) \cup {p} /\ p \notin Up(p - 1)
  <2>1. \A x \in E : x \in Nat /\ (x <= p <=> x <= p - 1 \/ x = p)
    BY <1>6
  <2>2. p <= p /\ ~ (p <= p - 1)
    BY <1>6
  <2>3. \A x : x \in Up(p) <=> x \in Up(p - 1) \/ x = p
    BY <1>10, <2>1, <2>2, Zenon
  <2>4. p \notin Up(p - 1)
    BY <2>2, Zenon
  <2> HIDE DEF Up
  <2> QED
    BY <2>3, <2>4
<1> HIDE DEF Up
<1>12. Cardinality(Up(p)) = Cardinality(Up(p - 1)) + 1
  BY <1>2, <1>8, <1>11, FS_AddElement
<1>13. Cardinality(Up(p)) = n
  BY <1>2, <1>6, <1>8, <1>9, <1>12
<1> QED
  BY <1>10, <1>13, Zenon DEF Up, Rank

\* Line end i of c is the one behind row i.
Feeds(r, i) == {q \in Gap(r, i, Len(r.rows[i])) : r.text[q] = "LF"}
AreEnds(r, c, e) ==
  /\ c \in {Len(r.rows) - 1, Len(r.rows)} /\ e \in [1..c -> Nat]
  /\ \A i \in 1..c : e[i] \in Feeds(r, i)
  /\ Increasing(e, c)
  /\ {q \in 1..Len(r.text) : r.text[q] = "LF"} = {e[i] : i \in 1..c}

LEMMA InRow ==
  ASSUME NEW r \in Sources, r.rows # << >>, NEW i \in 1..Len(r.rows)
  PROVE  r.rows[i][1].at < FieldEnd(r.rows[i][Len(r.rows[i])])
<1> DEFINE row == r.rows[i]
           P == {j \in 1..Len(row) : row[1].at < FieldEnd(row[j])}
<1>1. Len(row) \in 1..4 /\ 1 \in 1..Len(row) /\ Len(row) \in 1..Len(row)
  BY RowLength
<1>2. \A j \in 1..Len(row) : row[j].at \in Nat /\ FieldEnd(row[j]) \in Nat /\ row[j].at < FieldEnd(row[j])
  BY FieldFacts
<1>3. \A j \in 1..Len(row) : j < Len(row) => FieldEnd(row[j]) <= row[j + 1].at
  BY Behind
<1> HIDE DEF row
<1>4. 1 \in P
  <2>1. 1 \in 1..Len(row)
    BY <1>1
  <2>2. row[1].at < FieldEnd(row[1])
    BY <1>2, <2>1
  <2> QED
    BY <2>1, <2>2
<1>5. ASSUME NEW j \in (1 + 1)..Len(row), j - 1 \in P PROVE j \in P
  <2>1. PICK h \in 1..Len(row) : h = j - 1 /\ j = h + 1 /\ h < Len(row) /\ j \in 1..Len(row)
    BY <1>1
  <2>2. row[1].at < FieldEnd(row[h]) /\ FieldEnd(row[h]) <= row[j].at /\ row[j].at < FieldEnd(row[j])
    BY <1>2, <1>3, <1>5, <2>1
  <2>3. row[1].at \in Nat /\ FieldEnd(row[h]) \in Nat /\ row[j].at \in Nat /\ FieldEnd(row[j]) \in Nat
    BY <1>1, <1>2, <2>1
  <2>4. row[1].at < FieldEnd(row[j])
    BY <2>2, <2>3
  <2> QED
    BY <2>1, <2>4
<1> HIDE DEF P
<1>6. \A j \in 1..Len(row) : j \in P
  <2>1. 1 \in Nat /\ Len(row) \in Nat
    BY <1>1
  <2> QED
    BY <1>4, <1>5, <2>1, Upward
<1> QED
  BY <1>1, <1>6 DEF P, row

LEMMA RowEnds ==
  ASSUME NEW r \in Sources, r.rows # << >>
  PROVE  \E c, e : AreEnds(r, c, e)
<1> DEFINE L == Len(r.rows)
           c == IF Feeds(r, L) = {} THEN L - 1 ELSE L
           e == [i \in 1..c |-> CHOOSE q : q \in Feeds(r, i)]
           last(i) == r.rows[i][Len(r.rows[i])]
<1>1. LinesEnd(r) /\ L \in Nat /\ L >= 1 /\ Len(r.text) \in Nat
  BY SourceFacts DEF IsList
<1>2. /\ \A q \in 1..Len(r.text) : r.text[q] = "LF" => \E i \in 1..L : q \in Feeds(r, i)
      /\ \A i \in 1..L : \A p, q \in Feeds(r, i) : p = q
      /\ \A i \in 1..(L - 1) : Feeds(r, i) # {}
  BY <1>1 DEF LinesEnd, Feeds
<1>3. c \in {L - 1, L} /\ c \in Nat /\ c <= L
  BY <1>1
<1>4. \A i \in 1..c : i \in 1..L /\ Feeds(r, i) # {}
  <2>1. ASSUME NEW i \in 1..c PROVE i \in 1..L /\ Feeds(r, i) # {}
    <3>1. i \in 1..L /\ (i # L => i \in 1..(L - 1))
      BY <1>1, <1>3
    <3>2. i = L => Feeds(r, L) # {}
      <4> SUFFICES ASSUME i = L, Feeds(r, L) = {} PROVE FALSE
        OBVIOUS
      <4>1. c = L - 1
        OBVIOUS
      <4> QED
        BY <1>1, <4>1
    <3> QED
      BY <1>2, <3>1, <3>2
  <2> QED
    BY <2>1
<1>5. \A i \in 1..L : \A q \in Feeds(r, i) :
        /\ q \in Nat /\ q \in 1..Len(r.text) /\ r.text[q] = "LF"
        /\ FieldEnd(last(i)) < q /\ q <= NextAt(r, i, Len(r.rows[i])) /\ FieldEnd(last(i)) \in Nat
  <2>1. ASSUME NEW i \in 1..L, NEW q \in Feeds(r, i)
        PROVE  /\ q \in Nat /\ q \in 1..Len(r.text) /\ r.text[q] = "LF"
               /\ FieldEnd(last(i)) < q /\ q <= NextAt(r, i, Len(r.rows[i])) /\ FieldEnd(last(i)) \in Nat
    <3>1. PICK j \in 1..Len(r.rows[i]) : j = Len(r.rows[i])
      BY RowLength
    <3>2. FieldEnd(r.rows[i][j]) \in Nat
      BY <3>1, FieldFacts
    <3>3. NextAt(r, i, j) \in Nat /\ NextAt(r, i, j) <= Len(r.text)
      BY <3>1, Behind
    <3>4. q \in (FieldEnd(r.rows[i][j]) + 1)..NextAt(r, i, j) /\ r.text[q] = "LF"
      BY <3>1 DEF Feeds, Gap
    <3>5. q \in Nat /\ q \in 1..Len(r.text) /\ FieldEnd(r.rows[i][j]) < q /\ q <= NextAt(r, i, j)
      BY <1>1, <3>2, <3>3, <3>4
    <3> QED
      BY <3>1, <3>2, <3>4, <3>5
  <2> QED
    BY <2>1
<1> HIDE DEF c, L
<1>6. \A i \in 1..c : e[i] \in Feeds(r, i) /\ e[i] \in Nat
  <2>1. \A i \in 1..c : e[i] = CHOOSE q : q \in Feeds(r, i)
    OBVIOUS
  <2> HIDE DEF e
  <2>2. \A i \in 1..c : e[i] \in Feeds(r, i)
    BY <1>4, <2>1
  <2> QED
    BY <1>4, <1>5, <2>2
<1>7. e \in [1..c -> Nat]
  <2>1. e = [i \in 1..c |-> e[i]]
    OBVIOUS
  <2> HIDE DEF e
  <2> QED
    BY <1>6, <2>1
<1> HIDE DEF e
<1>8. ASSUME NEW i \in 1..c, NEW k \in 1..c, i < k PROVE e[i] < e[k]
  <2> DEFINE P == {m \in (i + 1)..k : e[i] < e[m]}
  <2>1. ASSUME NEW m \in 1..c, m + 1 \in 1..c PROVE e[m] < e[m + 1]
    <3>1. PICK n \in 1..L : n = m + 1
      BY <1>4, <2>1
    <3>2. m \in 1..L /\ m < L
      BY <1>1, <1>3, <3>1
    <3>3. PICK j \in 1..Len(r.rows[m]) : j = Len(r.rows[m])
      BY <3>2, RowLength DEF L
    <3>4. NextAt(r, m, j) = r.rows[n][1].at
      BY <3>1, <3>2, <3>3, Behind DEF L
    <3>5. e[m] <= r.rows[n][1].at
      BY <1>5, <1>6, <3>2, <3>3, <3>4
    <3>6. r.rows[n][1].at < FieldEnd(last(n))
      BY <3>1, InRow DEF L
    <3>7. FieldEnd(last(n)) < e[n] /\ FieldEnd(last(n)) \in Nat
      BY <1>5, <1>6, <2>1, <3>1
    <3>8. 1 \in 1..Len(r.rows[n])
      BY <3>1, RowLength DEF L
    <3>9. r.rows[n][1].at \in Nat /\ e[m] \in Nat /\ e[n] \in Nat
      BY <1>6, <2>1, <3>1, <3>8, FieldFacts DEF L
    <3> QED
      BY <3>1, <3>5, <3>6, <3>7, <3>9, SMTT(30)
  <2>2. i + 1 \in P
    <3>1. i + 1 \in 1..c /\ i + 1 \in (i + 1)..k
      BY <1>3, <1>8
    <3> QED
      BY <2>1, <3>1
  <2>3. ASSUME NEW m \in ((i + 1) + 1)..k, m - 1 \in P PROVE m \in P
    <3>1. PICK h \in 1..c : h = m - 1 /\ h + 1 = m /\ m \in 1..c
      BY <1>3
    <3>2. e[i] < e[h] /\ e[h] < e[m]
      BY <2>1, <2>3, <3>1
    <3>3. e[i] \in Nat /\ e[h] \in Nat /\ e[m] \in Nat
      BY <1>6, <3>1
    <3>4. e[i] < e[m]
      BY <3>2, <3>3
    <3> QED
      BY <3>4
  <2>4. i + 1 \in Nat /\ k \in Nat /\ k \in (i + 1)..k
    BY <1>8
  <2> HIDE DEF P
  <2>5. \A m \in (i + 1)..k : m \in P
    BY <2>2, <2>3, <2>4, Upward
  <2> QED
    BY <2>4, <2>5 DEF P
<1>9. {q \in 1..Len(r.text) : r.text[q] = "LF"} = {e[i] : i \in 1..c}
  <2>1. ASSUME NEW q \in 1..Len(r.text), r.text[q] = "LF" PROVE \E i \in 1..c : q = e[i]
    <3>1. PICK i \in 1..L : q \in Feeds(r, i)
      BY <1>2, <2>1
    <3>2. i \in 1..c
      <4>1. CASE i = L
        BY <1>1, <3>1, <4>1 DEF c
      <4>2. CASE i # L
        BY <1>1, <1>3, <4>2
      <4> QED
        BY <4>1, <4>2
    <3> QED
      BY <1>2, <1>6, <3>1, <3>2
  <2>2. ASSUME NEW i \in 1..c PROVE e[i] \in 1..Len(r.text) /\ r.text[e[i]] = "LF"
    BY <1>4, <1>5, <1>6
  <2> QED
    BY <2>1, <2>2
<1>10. AreEnds(r, c, e)
  BY <1>3, <1>6, <1>7, <1>8, <1>9 DEF AreEnds, Increasing, L
<1> QED
  BY <1>10

----------------------------------------------------------------------------
(* The chunk.                                                              *)

\* The chunk is that of reply r.
IsReply(r) ==
  /\ r \in Sources /\ api_current = r.api /\ list = r.rows
  /\ api_chunk_write_pos \in 0..Len(r.text)
  /\ Holds(api_chunk, api_chunk_write_pos, r.text, Characters)
  /\ fetched => api_chunk_write_pos = Len(r.text) /\ api_chunk[Len(r.text) + 1] = NUL

LEMMA HoldsReply ==
  ASSUME ChunkIsTheReply
  PROVE  \E r \in Sources : IsReply(r)
<1>1. PICK r \in Sources :
        /\ api_current = r.api /\ list = r.rows
        /\ api_chunk_write_pos \in 0..Len(r.text)
        /\ \A q \in 1..api_chunk_write_pos : api_chunk[q] = r.text[q]
        /\ fetched => api_chunk_write_pos = Len(r.text) /\ api_chunk[Len(r.text) + 1] = NUL
  BY DEF ChunkIsTheReply
<1>2. Len(r.text) \in Nat /\ Len(r.text) < ChunkSize
  BY SourceFacts
<1>3. \A q \in 1..api_chunk_write_pos : q \in 1..ChunkSize
  <2>1. ChunkSize \in Nat
    BY BoundsAssumption
  <2> QED
    BY <1>1, <1>2, <2>1
<1>4. \A q \in 1..ChunkSize : api_chunk[q] \in Characters
  BY DEF ChunkIsTheReply
<1>5. Holds(api_chunk, api_chunk_write_pos, r.text, Characters)
  BY <1>1, <1>3, <1>4 DEF Holds
<1> QED
  BY <1>1, <1>5 DEF IsReply

\* A request leaves the chunk with the start of its reply.
LEMMA RequestLeaves ==
  ASSUME ChunkIsTheReply, NEW r \in Replies, NEW n \in Arrivals(r.text), NEW whole \in BOOLEAN,
         api_request_chunk(r, n, whole)
  PROVE  ChunkIsTheReply'
<1>1. r \in Sources
  BY DEF Sources
<1>2. r.text \in Seq(Characters \ {NUL}) /\ Len(r.text) \in Nat /\ Len(r.text) < ChunkSize
  BY <1>1, SourceFacts
<1>3. n \in 0..Len(r.text) /\ (whole => n = Len(r.text))
  BY <1>2 DEF Arrivals, api_request_chunk
<1>4. ChunkSize \in Nat
  BY BoundsAssumption
<1>5. /\ \A i \in 1..n : i \in 1..Len(r.text) /\ i \in 1..ChunkSize
      /\ n + 1 \in 1..ChunkSize /\ ChunkSize \in 1..ChunkSize /\ ChunkSize \notin 1..n /\ n + 1 \notin 1..n
  BY <1>2, <1>3, <1>4
<1>6. \A i \in 1..Len(r.text) : r.text[i] \in Characters
  <2> HIDE DEF Characters
  <2> QED
    BY <1>2
<1>7. NUL \in Characters
  BY DEF Characters
<1>8. api_chunk \in [1..ChunkSize -> Characters] /\ api_chunk[ChunkSize] = NUL
  BY DEF ChunkIsTheReply
<1>9. /\ api_current' = r.api /\ list' = r.rows /\ fetched' = whole /\ api_chunk_write_pos' = n
      /\ api_chunk' = Received(r.text, n, whole)
  BY DEF api_request_chunk, WritePos
<1>10. \A i \in 1..ChunkSize : i <= n <=> i \in 1..n
  BY <1>3, <1>4
<1>11. /\ DOMAIN api_chunk' = 1..ChunkSize
       /\ api_chunk' = [i \in 1..ChunkSize |-> api_chunk'[i]]
       /\ \A i \in 1..ChunkSize :
            api_chunk'[i] = IF i \in 1..n THEN r.text[i]
                            ELSE IF whole /\ i = n + 1 THEN NUL ELSE api_chunk[i]
  BY <1>9, <1>10 DEF Received
<1>12. \A i \in 1..ChunkSize : api_chunk'[i] \in Characters
  BY <1>5, <1>6, <1>7, <1>8, <1>11
<1>13. api_chunk' \in [1..ChunkSize -> Characters]
  BY <1>11, <1>12
<1>14. api_chunk'[ChunkSize] = NUL
  BY <1>5, <1>8, <1>11
<1>15. \A q \in 1..n : api_chunk'[q] = r.text[q]
  BY <1>5, <1>11
<1>16. whole => api_chunk'[Len(r.text) + 1] = NUL
  BY <1>3, <1>5, <1>11
<1> QED
  BY <1>1, <1>3, <1>9, <1>13, <1>14, <1>15, <1>16 DEF ChunkIsTheReply, Sources, Characters

LEMMA ReadLeaves ==
  ASSUME ReadList \/ ReadField
  PROVE  UNCHANGED chunk
<1>1. ASSUME NEW call, NEW api, NEW n, NEW strict, ReadNames(call, api, n, strict) PROVE UNCHANGED chunk
  BY <1>1 DEF ReadNames, NotFetched
<1>2. ASSUME NEW call, NEW api, NEW n, NEW other, ReadNumber(call, api, n, other) PROVE UNCHANGED chunk
  BY <1>2 DEF ReadNumber, NotFetched
<1>3. ASSUME NEW call, NEW n, ReadTime(call, n) PROVE UNCHANGED chunk
  BY <1>3 DEF ReadTime, NotFetched
<1> QED
  BY <1>1, <1>2, <1>3 DEF ReadList, ReadField

LEMMA SameChunk ==
  ASSUME ChunkIsTheReply, UNCHANGED chunk
  PROVE  ChunkIsTheReply'
  BY DEF ChunkIsTheReply, chunk, Sources, Characters

\* The chunk holds the start of the last reply, with a terminator behind
\* it, whatever the requests before left there.
THEOREM ChunkInvariance == Spec => []ChunkIsTheReply
<1>1. Init => ChunkIsTheReply
  <2> SUFFICES ASSUME Init PROVE ChunkIsTheReply
    OBVIOUS
  <2> DEFINE r == [api |-> "CATALOG_ROOT", rows |-> << >>, text |-> << >>]
  <2>1. r \in Sources /\ r.api = "CATALOG_ROOT" /\ r.rows = << >> /\ Len(r.text) = 0
    BY DEF Sources
  <2>2. ChunkSize \in 1..ChunkSize
    BY BoundsAssumption
  <2>3. api_chunk \in [1..ChunkSize -> Characters] /\ api_chunk[ChunkSize] = NUL
    BY <2>2 DEF Init, Characters
  <2>4. api_chunk_write_pos = 0 /\ api_current = "CATALOG_ROOT" /\ list = << >> /\ ~ fetched
    BY DEF Init
  <2> HIDE DEF r
  <2>5. api_chunk_write_pos \in 0..Len(r.text) /\ \A q \in 1..api_chunk_write_pos : api_chunk[q] = r.text[q]
    BY <2>1, <2>4
  <2> QED
    BY <2>1, <2>3, <2>4, <2>5 DEF ChunkIsTheReply
<1>2. ChunkIsTheReply /\ [Next]_vars => ChunkIsTheReply'
  <2> SUFFICES ASSUME ChunkIsTheReply, [Next]_vars PROVE ChunkIsTheReply'
    OBVIOUS
  <2>1. CASE Update
    BY <2>1, RequestLeaves DEF Update
  <2>2. CASE ChunkInfo
    <3>1. PICK r \in Replies : \E n \in Arrivals(r.text), whole \in BOOLEAN : api_request_chunk(r, n, whole)
      BY <2>2, Zenon DEF ChunkInfo
    <3> QED
      BY <3>1, RequestLeaves
  <2>3. CASE Server
    <3>1. PICK r \in Replies, g \in Leftovers, id \in StreamIds :
            \E n \in Arrivals(r.text), whole \in BOOLEAN : api_request_chunk(r, n, whole)
      BY <2>3 DEF Server
    <3> QED
      BY <3>1, RequestLeaves
  <2>4. CASE ReadList \/ ReadField
    BY <2>4, ReadLeaves, SameChunk
  <2>5. CASE UNCHANGED vars
    BY <2>5, SameChunk DEF vars, chunk
  <2> QED
    BY <2>1, <2>2, <2>3, <2>4, <2>5 DEF Next
<1> QED
  BY <1>1, <1>2, PTL DEF Spec

----------------------------------------------------------------------------
(* The line an index selects.                                              *)

LEMMA TextEnds ==
  ASSUME ChunkIsTheReply
  PROVE  /\ TextLength \in 0..(ChunkSize - 1) /\ api_chunk[TextLength + 1] = NUL
         /\ \A j \in 1..TextLength : api_chunk[j] # NUL
<1> DEFINE T == {n \in 0..(ChunkSize - 1) : api_chunk[n + 1] = NUL}
<1>1. ChunkSize \in Nat \ {0} /\ api_chunk[ChunkSize] = NUL
  BY BoundsAssumption DEF ChunkIsTheReply
<1>2. ChunkSize - 1 \in T
  BY <1>1
<1>3. T \in SUBSET Nat /\ T # {}
  <2>1. \A n \in 0..(ChunkSize - 1) : n \in Nat
    BY <1>1
  <2> QED
    BY <1>2, <2>1, Zenon
<1>4. \A n \in T : n \in 0..(ChunkSize - 1) /\ api_chunk[n + 1] = NUL
  OBVIOUS
<1>5. \A n \in 0..(ChunkSize - 1) : api_chunk[n + 1] = NUL => n \in T
  OBVIOUS
<1> HIDE DEF T
<1>6. PICK n \in T : \A m \in T : n <= m
  BY <1>3, LeastOf
<1>7. ASSUME NEW j \in 1..n PROVE api_chunk[j] # NUL
  <2>1. j - 1 \in 0..(ChunkSize - 1) /\ ~ (n <= j - 1) /\ (j - 1) + 1 = j
    BY <1>1, <1>4
  <2> QED
    BY <1>5, <1>6, <2>1
<1>8. \E m \in 0..(ChunkSize - 1) : api_chunk[m + 1] = NUL /\ \A j \in 1..m : api_chunk[j] # NUL
  BY <1>4, <1>7
<1> QED
  BY <1>8, Zenon DEF TextLength

LEMMA LineEndsType ==
  ASSUME ChunkIsTheReply
  PROVE  /\ TextLength \in Nat /\ LineEnds \in SUBSET (1..TextLength)
         /\ IsFiniteSet(LineEnds) /\ Cardinality(LineEnds) \in Nat
<1>1. TextLength \in Nat /\ LineEnds \in SUBSET (1..TextLength)
  BY BoundsAssumption, TextEnds DEF LineEnds
<1>2. IsFiniteSet(1..TextLength)
  BY <1>1, FS_Interval
<1>3. IsFiniteSet(LineEnds)
  BY <1>1, <1>2, FS_Subset
<1> QED
  BY <1>1, <1>3, FS_CardinalityType

\* radiolist_parser_goto goes to the start of the chunk, or behind a line end.
LEMMA GotoLine ==
  ASSUME ChunkIsTheReply, NEW index \in Nat
  PROVE  /\ radiolist_parser_goto(index) \in Nat
         /\ radiolist_parser_goto(index) = 0 \/ radiolist_parser_goto(index) \in LineEnds
<1>1. TextLength \in Nat /\ LineEnds \in SUBSET (1..TextLength) /\ Cardinality(LineEnds) \in Nat
  BY LineEndsType
<1>2. CASE index = 0 \/ Cardinality(LineEnds) <= index
  BY <1>2 DEF radiolist_parser_goto
<1>3. CASE ~ (index = 0 \/ Cardinality(LineEnds) <= index)
  <2>1. index \in 1..Cardinality(LineEnds)
    BY <1>1, <1>3
  <2>2. \E q \in LineEnds : Rank(LineEnds, q) = index
    BY <1>1, <2>1, HasRank
  <2>3. NthEnd(index) \in LineEnds /\ NthEnd(index) \in Nat
    <3>1. NthEnd(index) \in LineEnds
      BY <2>2, Zenon DEF NthEnd, Rank
    <3>2. \A q \in LineEnds : q \in Nat
      BY <1>1
    <3> QED
      BY <3>1, <3>2
  <2>4. radiolist_parser_goto(index) = NthEnd(index)
    BY <1>3 DEF radiolist_parser_goto
  <2> QED
    BY <1>1, <2>3, <2>4
<1> QED
  BY <1>2, <1>3

\* The line ends of the chunk are those of a reply that was fetched.
LEMMA FetchedLines ==
  ASSUME ChunkIsTheReply, NEW r, IsReply(r), fetched
  PROVE  LineEnds = {q \in 1..Len(r.text) : r.text[q] = "LF"}
<1>1. /\ api_chunk_write_pos = Len(r.text) /\ api_chunk[Len(r.text) + 1] = NUL
      /\ Len(r.text) \in Nat /\ Len(r.text) < ChunkSize /\ r.text \in Seq(Characters \ {NUL})
  BY SourceFacts DEF IsReply
<1>2. \A q \in 1..Len(r.text) : api_chunk[q] = r.text[q]
  BY <1>1 DEF IsReply, Holds
<1>3. \A q \in 1..Len(r.text) : r.text[q] # NUL
  <2> DEFINE S == Characters \ {NUL}
  <2>1. r.text \in Seq(S) /\ NUL \notin S
    BY <1>1
  <2> HIDE DEF S
  <2> QED
    BY <2>1
<1>4. /\ TextLength \in 0..(ChunkSize - 1) /\ api_chunk[TextLength + 1] = NUL
      /\ \A j \in 1..TextLength : api_chunk[j] # NUL
  BY TextEnds
<1>5. TextLength \in Nat
  BY <1>4, BoundsAssumption
<1>6. ~ (TextLength < Len(r.text))
  <2> SUFFICES ASSUME TextLength < Len(r.text) PROVE FALSE
    OBVIOUS
  <2>1. TextLength + 1 \in 1..Len(r.text)
    BY <1>1, <1>5
  <2> QED
    BY <1>2, <1>3, <1>4, <2>1
<1>7. ~ (Len(r.text) < TextLength)
  <2> SUFFICES ASSUME Len(r.text) < TextLength PROVE FALSE
    OBVIOUS
  <2>1. Len(r.text) + 1 \in 1..TextLength
    BY <1>1, <1>5
  <2> QED
    BY <1>1, <1>4, <2>1
<1>8. TextLength = Len(r.text)
  BY <1>1, <1>5, <1>6, <1>7
<1> QED
  BY <1>2, <1>8 DEF LineEnds

\* The row whose line the index selects, or the first.
Selected(index) == IF index < Cardinality(LineEnds) THEN index + 1 ELSE 1

\* A field of a line that is closed is whole.
LEMMA ClosedRow ==
  ASSUME NEW r \in Sources, r.rows # << >>, NEW c, NEW e, AreEnds(r, c, e), NEW i \in 1..c
  PROVE  /\ i \in 1..Len(r.rows)
         /\ \A j \in 1..Len(r.rows[i]) : FieldEnd(r.rows[i][j]) < Len(r.text)
<1>1. c \in {Len(r.rows) - 1, Len(r.rows)} /\ Len(r.rows) \in Nat /\ e[i] \in Feeds(r, i)
  BY SourceFacts DEF AreEnds
<1>2. i \in 1..Len(r.rows)
  BY <1>1
<1>3. ASSUME NEW j \in 1..Len(r.rows[i]) PROVE FieldEnd(r.rows[i][j]) < Len(r.text)
  <2>1. /\ FieldEnd(r.rows[i][j]) \in Nat /\ NextAt(r, i, j) \in Nat /\ Len(r.text) \in Nat
        /\ NextAt(r, i, j) <= Len(r.text)
        /\ j < Len(r.rows[i]) => FieldEnd(r.rows[i][j]) < NextAt(r, i, j)
    BY <1>2, FieldFacts, Behind, SourceFacts
  <2>2. CASE j < Len(r.rows[i])
    BY <2>1, <2>2
  <2>3. CASE j = Len(r.rows[i])
    <3>1. e[i] \in (FieldEnd(r.rows[i][j]) + 1)..NextAt(r, i, j)
      BY <1>1, <2>3 DEF Feeds, Gap
    <3> QED
      BY <2>1, <3>1
  <2>4. Len(r.rows[i]) \in Nat
    BY <1>2, RowLength
  <2> QED
    BY <2>2, <2>3, <2>4
<1> QED
  BY <1>2, <1>3

\* Behind line end i comes row i + 1.
LEMMA BehindEnd ==
  ASSUME NEW r \in Sources, r.rows # << >>, NEW i \in 1..Len(r.rows), NEW q \in Feeds(r, i),
         NEW limit \in Nat
  PROVE  /\ q \in Nat
         /\ i < Len(r.rows) => Leads(r.text, limit, q, r.rows[i + 1][1])
         /\ i = Len(r.rows) /\ limit <= Len(r.text) => \A p \in (q + 1)..limit : r.text[p] \in Separators
<1>1. PICK j \in 1..Len(r.rows[i]) : j = Len(r.rows[i])
  BY RowLength
<1>2. FieldEnd(r.rows[i][j]) \in Nat /\ NextAt(r, i, j) \in Nat
  BY FieldFacts, Behind
<1>3. q \in (FieldEnd(r.rows[i][j]) + 1)..NextAt(r, i, j)
  BY <1>1 DEF Feeds, Gap
<1>4. q \in Nat /\ FieldEnd(r.rows[i][j]) <= q /\ q <= NextAt(r, i, j)
  BY <1>2, <1>3
<1> QED
  BY <1>1, <1>4, LeadsOn

\* Row 1 starts the text.
LEMMA BeforeRows ==
  ASSUME NEW r \in Sources, r.rows # << >>, NEW limit
  PROVE  1 \in 1..Len(r.rows) /\ Leads(r.text, limit, 0, r.rows[1][1])
<1>1. r.rows[1][1].at = 0 /\ Len(r.rows) >= 1 /\ Len(r.rows) \in Nat
  BY SourceFacts DEF IsList
<1> QED
  BY <1>1 DEF Leads

\* An index leads to its row, whose fields are whole.
LEMMA EntryStart ==
  ASSUME ChunkIsTheReply, NEW r, IsReply(r), fetched, r.rows # << >>, LineEnds # {},
         NEW index \in Nat
  PROVE  /\ Selected(index) \in 1..Len(r.rows)
         /\ Leads(r.text, api_chunk_write_pos, radiolist_parser_goto(index), r.rows[Selected(index)][1])
         /\ \A j \in 1..Len(r.rows[Selected(index)]) :
              Whole(r.rows[Selected(index)][j], api_chunk_write_pos)
<1>1. r \in Sources /\ api_chunk_write_pos = Len(r.text) /\ Len(r.text) \in Nat
  BY SourceFacts DEF IsReply
<1>2. PICK c, e : AreEnds(r, c, e)
  BY <1>1, RowEnds
<1>3. /\ c \in {Len(r.rows) - 1, Len(r.rows)} /\ Len(r.rows) \in Nat /\ Len(r.rows) >= 1
      /\ e \in [1..c -> Nat] /\ Increasing(e, c) /\ \A i \in 1..c : e[i] \in Feeds(r, i)
  BY <1>1, <1>2, SourceFacts DEF AreEnds
<1>4. IsImage(LineEnds, e, c)
  BY <1>2, FetchedLines DEF AreEnds, IsImage
<1>5. c \in Nat
  BY <1>3
<1>6. /\ Cardinality(LineEnds) = c
      /\ \A n \in 1..c : \A q \in LineEnds : Rank(LineEnds, q) = n <=> q = e[n]
  <2>1. e \in [1..c -> Nat] /\ Increasing(e, c)
    BY <1>3
  <2> QED
    BY <1>4, <1>5, <2>1, Ranks
<1>7. c # 0
  BY <1>4 DEF IsImage
<1>8. Selected(index) \in 1..c
  BY <1>5, <1>6, <1>7 DEF Selected
<1>9. \A j \in 1..Len(r.rows[Selected(index)]) : Whole(r.rows[Selected(index)][j], api_chunk_write_pos)
  BY <1>1, <1>2, <1>8, ClosedRow DEF Whole
<1>10. Selected(index) \in 1..Len(r.rows)
  BY <1>1, <1>2, <1>8, ClosedRow
<1>11. Leads(r.text, api_chunk_write_pos, radiolist_parser_goto(index), r.rows[Selected(index)][1])
  <2>1. CASE index = 0 \/ Cardinality(LineEnds) <= index
    <3>1. radiolist_parser_goto(index) = 0
      BY <2>1 DEF radiolist_parser_goto
    <3>2. Selected(index) = 1
      BY <1>5, <1>6, <1>7, <2>1 DEF Selected
    <3> QED
      BY <1>1, <3>1, <3>2, BeforeRows
  <2>2. CASE ~ (index = 0 \/ Cardinality(LineEnds) <= index)
    <3>1. radiolist_parser_goto(index) = NthEnd(index) /\ index \in 1..c /\ index < c /\ Selected(index) = index + 1
      BY <1>5, <1>6, <2>2 DEF radiolist_parser_goto, Selected
    <3>2. e[index] \in LineEnds
      BY <1>4, <3>1 DEF IsImage
    <3>3. NthEnd(index) \in LineEnds /\ Rank(LineEnds, NthEnd(index)) = index
      <4>1. Rank(LineEnds, e[index]) = index
        BY <1>6, <3>1, <3>2
      <4> QED
        BY <3>2, <4>1, Zenon DEF NthEnd, Rank
    <3>4. NthEnd(index) = e[index]
      BY <1>6, <3>1, <3>3
    <3>5. index \in 1..Len(r.rows) /\ index < Len(r.rows)
      BY <1>3, <1>10, <3>1
    <3>6. e[index] \in Feeds(r, index)
      BY <1>3, <3>1
    <3> QED
      BY <1>1, <3>1, <3>4, <3>5, <3>6, BehindEnd
  <2> QED
    BY <2>1, <2>2
<1> QED
  BY <1>9, <1>10, <1>11

----------------------------------------------------------------------------
(* The calls that read a field of an entry.                                *)

LEMMA UnsetType ==
  ASSUME NEW g \in Leftovers
  PROVE  /\ Unset(g) \in Tokens(Characters) /\ g \in Int
         /\ Unset(g).min = g /\ Unset(g).sec = g
<1>1. g \in Int /\ << >> \in Seq(Characters)
  BY BoundsAssumption
<1> QED
  BY <1>1 DEF Unset, Tokens

LEMMA SameLines ==
  ASSUME UNCHANGED chunk
  PROVE  LineEnds' = LineEnds
  BY DEF chunk, LineEnds, TextLength

\* Which call the last answer was to.
LEMMA Callers ==
  ASSUME [Next]_vars
  PROVE  /\ ret'.call = "server" => UNCHANGED vars \/ Server
         /\ ret'.call \in NameCalls => UNCHANGED vars \/
              ReadNames(ret'.call, ApiOf[ret'.call], FieldOf[ret'.call], ret'.call # "root_catalog")
         /\ ret'.call \in NumberCalls => UNCHANGED vars \/ \E other \in {-1, -8} :
              ReadNumber(ret'.call, ApiOf[ret'.call], FieldOf[ret'.call], other)
         /\ ret'.call \in TimeCalls =>
              UNCHANGED vars \/ ReadTime(ret'.call, IF ret'.call = "start_time" THEN 1 ELSE 2)
<1> USE DEF NameCalls, NumberCalls, TimeCalls
<1>1. CASE UNCHANGED vars
  BY <1>1
<1>2. CASE Update
  <2>1. ret'.call = "update"
    BY <1>2 DEF Update
  <2> QED
    BY <2>1
<1>3. CASE ChunkInfo
  <2>1. ret'.call = "chunkinfo"
    BY <1>3 DEF ChunkInfo
  <2> QED
    BY <2>1
<1>4. CASE Server
  <2>1. ret'.call = "server"
    BY <1>4 DEF Server
  <2> QED
    BY <1>4, <2>1
<1>5. \A call, api, n, strict : ReadNames(call, api, n, strict) => ret'.call = call
  <2>1. ASSUME NEW call, NEW api, NEW n, NEW strict, ReadNames(call, api, n, strict)
        PROVE  ret'.call = call
    <3>1. CASE api_current # api
      BY <2>1, <3>1 DEF ReadNames, NotFetched
    <3>2. CASE api_current = api
      <4>1. PICK most, rc, names : ret' = [call |-> call, index |-> most, rc |-> rc, names |-> names]
        BY <2>1, <3>2, Zenon DEF ReadNames
      <4> QED
        BY <4>1
    <3> QED
      BY <3>1, <3>2
  <2> QED
    BY <2>1, Zenon
<1>6. \A call, api, n, other : ReadNumber(call, api, n, other) => ret'.call = call
  BY DEF ReadNumber, NotFetched
<1>7. \A call, n : ReadTime(call, n) => ret'.call = call
  BY DEF ReadTime, NotFetched
<1>8. CASE ReadList
  <2>1. \/ ReadNames("root_catalog", "CATALOG_ROOT", 1, FALSE) /\ ret'.call = "root_catalog"
        \/ ret'.call = "catalog"
        \/ ReadNames("channel", "CHANNEL_ENTRY", 4, TRUE) /\ ret'.call = "channel"
        \/ ReadNames("program", "PROGRAM_LIST", 3, TRUE) /\ ret'.call = "program"
    BY <1>5, <1>8, Zenon DEF ReadList
  <2>2. /\ ApiOf["root_catalog"] = "CATALOG_ROOT" /\ FieldOf["root_catalog"] = 1
        /\ ApiOf["channel"] = "CHANNEL_ENTRY" /\ FieldOf["channel"] = 4
        /\ ApiOf["program"] = "PROGRAM_LIST" /\ FieldOf["program"] = 3
    BY DEF ApiOf, FieldOf
  <2>3. ret'.call \in NameCalls \cup {"catalog"}
    BY <2>1
  <2>4. ret'.call \in NameCalls =>
          ReadNames(ret'.call, ApiOf[ret'.call], FieldOf[ret'.call], ret'.call # "root_catalog")
    <3>1. CASE ret'.call = "root_catalog"
      <4>1. (ret'.call # "root_catalog") = FALSE
        BY <3>1
      <4>2. ReadNames("root_catalog", "CATALOG_ROOT", 1, FALSE)
        BY <2>1, <3>1
      <4> QED
        BY <2>2, <3>1, <4>1, <4>2
    <3>2. CASE ret'.call = "channel"
      <4>1. (ret'.call # "root_catalog") = TRUE
        BY <3>2
      <4>2. ReadNames("channel", "CHANNEL_ENTRY", 4, TRUE)
        BY <2>1, <3>2
      <4> QED
        BY <2>2, <3>2, <4>1, <4>2
    <3>3. CASE ret'.call = "program"
      <4>1. (ret'.call # "root_catalog") = TRUE
        BY <3>3
      <4>2. ReadNames("program", "PROGRAM_LIST", 3, TRUE)
        BY <2>1, <3>3
      <4> QED
        BY <2>2, <3>3, <4>1, <4>2
    <3> QED
      BY <3>1, <3>2, <3>3
  <2> QED
    BY <2>3, <2>4
<1>9. CASE ReadField
  <2>1. \/ ReadNumber("root_catalog_id", "CATALOG_ROOT", 2, -1) /\ ret'.call = "root_catalog_id"
        \/ ret'.call = "catalog_id"
        \/ ReadNumber("server_id", "CHANNEL_ENTRY", 1, -8) /\ ret'.call = "server_id"
        \/ ReadNumber("stream_id", "CHANNEL_ENTRY", 2, -8) /\ ret'.call = "stream_id"
        \/ ReadTime("start_time", 1) /\ ret'.call = "start_time"
        \/ ReadTime("end_time", 2) /\ ret'.call = "end_time"
    BY <1>6, <1>7, <1>9, Zenon DEF ReadField, WERR_FAILED, WERR_PARSE_DATABASE
  <2>2. /\ ApiOf["root_catalog_id"] = "CATALOG_ROOT" /\ FieldOf["root_catalog_id"] = 2
        /\ ApiOf["server_id"] = "CHANNEL_ENTRY" /\ FieldOf["server_id"] = 1
        /\ ApiOf["stream_id"] = "CHANNEL_ENTRY" /\ FieldOf["stream_id"] = 2
    BY DEF ApiOf, FieldOf
  <2>3. ret'.call \in NumberCalls \cup TimeCalls \cup {"catalog_id"}
    BY <2>1
  <2>4. ret'.call \in NumberCalls => \E other \in {-1, -8} :
          ReadNumber(ret'.call, ApiOf[ret'.call], FieldOf[ret'.call], other)
    BY <2>1, <2>2
  <2>5. ret'.call \in TimeCalls => ReadTime(ret'.call, IF ret'.call = "start_time" THEN 1 ELSE 2)
    BY <2>1
  <2> QED
    BY <2>3, <2>4, <2>5
<1> QED
  BY <1>1, <1>2, <1>3, <1>4, <1>8, <1>9 DEF Next

\* What a reader of identifiers answers.
NumberAnswer(t, n, other) ==
  IF t[n].rc # 0 THEN t[n].rc ELSE IF t[n].token.type = "NUMBER" THEN t[n].token.num ELSE other

LEMMA AnswersNumber ==
  ASSUME ChunkIsTheReply, NEW call, NEW api, NEW n \in Nat, NEW other, ReadNumber(call, api, n, other),
         api_current = api
  PROVE  \E index \in Indices, g \in Leftovers : \E t \in [0..n -> Results(Characters)] :
           /\ TokenRun(t, n, radiolist_parser_goto(index), Unset(g))
           /\ ret'.call = call /\ ret'.index = index /\ ret'.rc = NumberAnswer(t, n, other)
<1>1. PICK index \in Indices, g \in Leftovers :
        LET u == NextTokens(n, radiolist_parser_goto(index), Unset(g))
        IN  ret' = [call |-> call, index |-> index,
                    rc |-> IF u.rc # 0 THEN u.rc
                           ELSE IF u.token.type = "NUMBER" THEN u.token.num ELSE other]
  BY DEF ReadNumber
<1>2. PICK r \in Sources : IsReply(r)
  BY HoldsReply
<1>3. Holds(api_chunk, api_chunk_write_pos, r.text, Characters) /\ api_chunk_write_pos \in Nat
  BY <1>2, SourceFacts DEF IsReply
<1>4. index \in Nat
  BY BoundsAssumption
<1>5. radiolist_parser_goto(index) \in Nat /\ Unset(g) \in Tokens(Characters)
  BY <1>4, GotoLine, UnsetType
<1>6. PICK t \in [0..n -> Results(Characters)] :
        /\ TokenRun(t, n, radiolist_parser_goto(index), Unset(g))
        /\ NextTokens(n, radiolist_parser_goto(index), Unset(g)) = t[n]
  <2>1. HasRun(Characters, n, radiolist_parser_goto(index), Unset(g))
    BY <1>3, <1>5, TokensRun
  <2> QED
    BY <2>1, Zenon DEF HasRun
<1>7. ret'.call = call /\ ret'.index = index /\ ret'.rc = NumberAnswer(t, n, other)
  BY <1>1, <1>6 DEF NumberAnswer
<1> QED
  BY <1>6, <1>7

LEMMA AnswersTime ==
  ASSUME ChunkIsTheReply, NEW call, NEW n \in Nat, ReadTime(call, n), api_current = "PROGRAM_LIST"
  PROVE  \E index \in Indices, g \in Leftovers : \E t \in [0..n -> Results(Characters)] :
           /\ TokenRun(t, n, radiolist_parser_goto(index), Unset(g))
           /\ ret'.call = call /\ ret'.index = index
           /\ ret'.time = <<t[n].token.num, t[n].token.min, t[n].token.sec>>
<1>1. PICK index \in Indices, g \in Leftovers :
        LET u == NextTokens(n, radiolist_parser_goto(index), Unset(g))
        IN  ret' = [call |-> call, index |-> index,
                    rc |-> IF u.rc # 0 THEN u.rc
                           ELSE IF u.token.type = "TIME" THEN 0 ELSE -WERR_PARSE_DATABASE,
                    time |-> <<u.token.num, u.token.min, u.token.sec>>]
  BY DEF ReadTime
<1>2. PICK r \in Sources : IsReply(r)
  BY HoldsReply
<1>3. Holds(api_chunk, api_chunk_write_pos, r.text, Characters) /\ api_chunk_write_pos \in Nat
  BY <1>2, SourceFacts DEF IsReply
<1>4. index \in Nat
  BY BoundsAssumption
<1>5. radiolist_parser_goto(index) \in Nat /\ Unset(g) \in Tokens(Characters)
  BY <1>4, GotoLine, UnsetType
<1>6. PICK t \in [0..n -> Results(Characters)] :
        /\ TokenRun(t, n, radiolist_parser_goto(index), Unset(g))
        /\ NextTokens(n, radiolist_parser_goto(index), Unset(g)) = t[n]
  <2>1. HasRun(Characters, n, radiolist_parser_goto(index), Unset(g))
    BY <1>3, <1>5, TokensRun
  <2> QED
    BY <2>1, Zenon DEF HasRun
<1>7. ret'.call = call /\ ret'.index = index
      /\ ret'.time = <<t[n].token.num, t[n].token.min, t[n].token.sec>>
  BY <1>1, <1>6
<1> QED
  BY <1>6, <1>7

----------------------------------------------------------------------------
(* The identifier of an entry.                                             *)

LEMMA NumberFields ==
  ASSUME NEW call \in NumberCalls, NEW r \in Sources, r.api = ApiOf[call], r.rows # << >>,
         NEW i \in 1..Len(r.rows)
  PROVE  /\ FieldOf[call] \in 1..Len(r.rows[i]) /\ r.rows[i][FieldOf[call]].type = "NUMBER"
         /\ \A j \in 1..FieldOf[call] : r.rows[i][j].type # "TIME"
<1>1. /\ FieldOf[call] \in 1..Len(Shape[r.api]) /\ Shape[r.api][FieldOf[call]] = "NUMBER"
      /\ \A j \in 1..Len(Shape[r.api]) : Shape[r.api][j] # "TIME"
  <2>1. CASE call = "root_catalog_id"
    <3>1. FieldOf[call] = 2 /\ ApiOf[call] = "CATALOG_ROOT"
      BY <2>1 DEF FieldOf, ApiOf
    <3>2. Shape[r.api] = <<"STRING", "NUMBER">>
      BY <3>1 DEF Shape
    <3>3. Len(Shape[r.api]) = 2 /\ Shape[r.api][1] = "STRING" /\ Shape[r.api][2] = "NUMBER"
      BY <3>2
    <3> QED
      BY <3>1, <3>3
  <2>2. CASE call = "server_id"
    BY <2>2, SMTT(30) DEF ApiOf, FieldOf, Shape
  <2>3. CASE call = "stream_id"
    <3>1. FieldOf[call] = 2 /\ ApiOf[call] = "CHANNEL_ENTRY"
      BY <2>3 DEF FieldOf, ApiOf
    <3>2. Shape[r.api] = <<"NUMBER", "NUMBER", "STRING", "STRING">>
      BY <3>1 DEF Shape
    <3>3. /\ Len(Shape[r.api]) = 4 /\ Shape[r.api][1] = "NUMBER" /\ Shape[r.api][2] = "NUMBER"
          /\ Shape[r.api][3] = "STRING" /\ Shape[r.api][4] = "STRING"
      BY <3>2
    <3> QED
      BY <3>1, <3>3
  <2> QED
    BY <2>1, <2>2, <2>3 DEF NumberCalls
<1>2. Len(r.rows[i]) = Len(Shape[r.api]) /\ Len(r.rows[i]) \in 1..4
  BY RowLength
<1>3. \A j \in 1..Len(r.rows[i]) : r.rows[i][j].type = Shape[r.api][j]
  BY FieldFacts
<1>4. \A j \in 1..FieldOf[call] : j \in 1..Len(Shape[r.api])
  BY <1>1, <1>2
<1> QED
  BY <1>1, <1>2, <1>3, <1>4

LEMMA AnswersEntry ==
  ASSUME ChunkIsTheReply, NEW call \in NumberCalls, NEW other,
         ReadNumber(call, ApiOf[call], FieldOf[call], other), api_current = ApiOf[call],
         fetched, list # << >>, LineEnds # {}
  PROVE  ret'.rc = list[Selected(ret'.index)][FieldOf[call]].num
<1> DEFINE n == FieldOf[call]
<1>1. PICK r \in Sources : IsReply(r)
  BY HoldsReply
<1>2. /\ r.api = ApiOf[call] /\ list = r.rows /\ r.rows # << >>
      /\ api_chunk_write_pos \in 0..Len(r.text)
      /\ Holds(api_chunk, api_chunk_write_pos, r.text, Characters)
  BY <1>1 DEF IsReply
<1>3. n \in {1, 2}
  BY DEF FieldOf, NumberCalls
<1> HIDE DEF n
<1>4. PICK index \in Indices, g \in Leftovers : \E t \in [0..n -> Results(Characters)] :
        /\ TokenRun(t, n, radiolist_parser_goto(index), Unset(g))
        /\ ret'.call = call /\ ret'.index = index /\ ret'.rc = NumberAnswer(t, n, other)
  <2>1. n \in Nat
    BY <1>3
  <2> QED
    BY <2>1, AnswersNumber DEF n
<1>5. PICK t \in [0..n -> Results(Characters)] :
        /\ TokenRun(t, n, radiolist_parser_goto(index), Unset(g))
        /\ ret'.index = index /\ ret'.rc = NumberAnswer(t, n, other)
  BY <1>4
<1>6. index \in Nat
  BY BoundsAssumption
<1>7. PICK i : i = Selected(index)
  OBVIOUS
<1>8. /\ i \in 1..Len(r.rows)
      /\ Leads(r.text, api_chunk_write_pos, radiolist_parser_goto(index), r.rows[i][1])
      /\ \A j \in 1..Len(r.rows[i]) : Whole(r.rows[i][j], api_chunk_write_pos)
  BY <1>1, <1>2, <1>6, <1>7, EntryStart
<1>9. n \in 1..Len(r.rows[i]) /\ r.rows[i][n].type = "NUMBER"
      /\ \A j \in 1..n : r.rows[i][j].type # "TIME"
  BY <1>2, <1>8, NumberFields DEF n
<1>10. PICK pos \in Nat, token \in Tokens(Characters) : pos = radiolist_parser_goto(index) /\ token = Unset(g)
  BY <1>6, GotoLine, UnsetType
<1>11. n \in 1..n /\ \A k \in 1..n : k \in 1..Len(r.rows[i])
  BY <1>3, <1>8, <1>9, RowLength
<1>12. ReadsAs(t[n], r.rows[i][n], t[n - 1].token)
  BY <1>2, <1>5, <1>8, <1>9, <1>10, <1>11, ReadsRow
<1>13. t[n].rc = 0 /\ t[n].token.type = "NUMBER" /\ t[n].token.num = r.rows[i][n].num
  BY <1>9, <1>12 DEF ReadsAs
<1>14. ret'.rc = r.rows[i][n].num
  BY <1>5, <1>13 DEF NumberAnswer
<1> QED
  BY <1>2, <1>5, <1>7, <1>14 DEF n

\* An identifier that is read is the one in the row of the index, or in the
\* first row when no closed line has the index.
THEOREM IdsInvariance == Spec => []IdsAreTheEntrys
<1>1. Init => IdsAreTheEntrys
  BY DEF Init, IdsAreTheEntrys, ReadFrom
<1>2. IdsAreTheEntrys /\ ChunkIsTheReply /\ [Next]_vars => IdsAreTheEntrys'
  <2> SUFFICES ASSUME IdsAreTheEntrys, ChunkIsTheReply, [Next]_vars,
                      ReadFrom(NumberCalls)', LineEnds' # {}
               PROVE  ret'.rc = list'[Entry'][FieldOf[ret'.call]].num
    BY DEF IdsAreTheEntrys
  <2>1. CASE UNCHANGED vars
    <3>1. UNCHANGED chunk /\ ret' = ret
      BY <2>1 DEF vars, chunk
    <3>2. LineEnds' = LineEnds
      BY <3>1, SameLines
    <3>3. ReadFrom(NumberCalls) /\ Entry' = Entry /\ list' = list
      BY <3>1, <3>2 DEF ReadFrom, Entry, chunk
    <3> QED
      BY <3>1, <3>2, <3>3 DEF IdsAreTheEntrys
  <2>2. CASE ~ UNCHANGED vars
    <3>1. ret'.call \in NumberCalls /\ fetched' /\ list' # << >> /\ api_current' = ApiOf[ret'.call]
      BY DEF ReadFrom
    <3>2. PICK other \in {-1, -8} : ReadNumber(ret'.call, ApiOf[ret'.call], FieldOf[ret'.call], other)
      BY <2>2, <3>1, Callers
    <3>3. UNCHANGED chunk
      BY <3>2 DEF ReadNumber, NotFetched
    <3>4. LineEnds' = LineEnds /\ list' = list /\ api_current' = api_current /\ fetched' = fetched
      BY <3>3, SameLines DEF chunk
    <3>5. PICK call \in NumberCalls : call = ret'.call
      BY <3>1
    <3>6. ret'.rc = list[Selected(ret'.index)][FieldOf[call]].num
      BY <3>1, <3>2, <3>4, <3>5, AnswersEntry
    <3>7. Entry' = Selected(ret'.index)
      BY <3>4 DEF Entry, Selected
    <3> QED
      BY <3>4, <3>5, <3>6, <3>7
  <2> QED
    BY <2>1, <2>2
<1> QED
  BY <1>1, <1>2, ChunkInvariance, PTL DEF Spec

----------------------------------------------------------------------------
(* What a request that failed leaves to read.                              *)

\* What is cut off stays so.
LEMMA StaysCutOff ==
  ASSUME NEW n \in Nat, n >= 1, NEW pos, NEW token,
         NEW t \in [0..n -> Results(Characters)], TokenRun(t, n, pos, token),
         api_chunk_write_pos \in Nat, CutOff(t[1], api_chunk_write_pos)
  PROVE  CutOff(t[n], api_chunk_write_pos)
<1> DEFINE limit == api_chunk_write_pos
           P == {j \in 1..n : CutOff(t[j], limit)}
<1>1. 1 \in P
  OBVIOUS
<1>2. ASSUME NEW j \in (1 + 1)..n, j - 1 \in P PROVE j \in P
  <2>1. PICK h \in 1..n : h = j - 1 /\ j \in 1..n
    OBVIOUS
  <2>2. t[j] = TokenAfter(t[h]) /\ CutOff(t[h], limit)
    BY <1>2, <2>1 DEF TokenRun
  <2>3. CutOff(t[j], limit)
    <3>1. CASE t[h].rc # 0
      BY <2>2, <3>1 DEF TokenAfter, CutOff
    <3>2. CASE t[h].rc = 0
      <4>1. t[h].pos = limit
        BY <2>2, <3>2 DEF CutOff
      <4>2. t[j] = radiolist_parse_token(api_chunk, limit, limit, t[h].token)
        BY <2>2, <3>2, <4>1 DEF TokenAfter, NextToken
      <4>3. t[j].rc = 1
        BY <4>2 DEF radiolist_parse_token
      <4> QED
        BY <4>3 DEF CutOff
    <3> QED
      BY <3>1, <3>2
  <2> QED
    BY <2>1, <2>3
<1> HIDE DEF P
<1>3. \A j \in 1..n : j \in P
  <2>1. 1 \in Nat
    OBVIOUS
  <2> QED
    BY <1>1, <1>2, <2>1, Upward
<1> QED
  BY <1>3 DEF P

\* Without a digit there is no number.
LEMMA NoDigits ==
  ASSUME NEW C, NEW limit \in Nat, NEW pos \in Nat, NEW token \in Tokens(C), NEW text,
         NEW cells, Holds(cells, limit, text, C), \A q \in 1..limit : text[q] \notin DOMAIN Digits
  PROVE  radiolist_parse_token(cells, limit, pos, token).token.type # "NUMBER"
<1>1. CASE pos >= limit
  <2>1. radiolist_parse_token(cells, limit, pos, token) = [pos |-> pos, token |-> Fresh(token), rc |-> 1]
    BY <1>1 DEF radiolist_parse_token, Fresh
  <2> QED
    BY <2>1, FreshType
<1>2. CASE ~ (pos >= limit)
  <2>1. pos < limit /\ \A k \in 1..limit : cells[k] \in C
    BY <1>2 DEF Holds
  <2>2. PICK a : /\ IsParse(a, C, cells, limit, pos, token)
                 /\ radiolist_parse_token(cells, limit, pos, token) = Returned(a[limit])
    BY <2>1, ParseRun
  <2>3. /\ a[pos] = Parser("INITIAL", Fresh(token), 0, pos) /\ a \in [pos..limit -> ParseStates(C)]
        /\ \A k, l \in pos..limit : l = k + 1 => a[l] = ParseChar(a[k], cells[l])
    BY <2>2 DEF IsParse, Parses
  <2> DEFINE P == {k \in pos..limit : a[k].state # "NUMBER" /\ a[k].token.type # "NUMBER"}
  <2>4. pos \in P
    <3>1. pos \in pos..limit
      BY <2>1
    <3>2. a[pos].state = "INITIAL" /\ a[pos].token.type = "UNKNOWN"
      BY <2>3, FreshType DEF Parser
    <3> QED
      BY <3>1, <3>2
  <2>5. ASSUME NEW l \in (pos + 1)..limit, l - 1 \in P PROVE l \in P
    <3>1. PICK k \in pos..limit : k = l - 1 /\ l = k + 1 /\ l \in pos..limit /\ l \in 1..limit
      OBVIOUS
    <3>2. a[l] = ParseChar(a[k], cells[l]) /\ a[k].state # "NUMBER" /\ a[k].token.type # "NUMBER"
      BY <2>3, <2>5, <3>1
    <3>3. a[k] \in ParseStates(C)
      BY <2>3
    <3>4. cells[l] \notin DOMAIN Digits
      BY <3>1 DEF Holds
    <3>5. a[k].state \in {"INITIAL", "STRING", "DONE", "FAILED"}
      BY <3>2, <3>3 DEF ParseStates
    <3>6. a[l].state # "NUMBER" /\ a[l].token.type # "NUMBER"
      <4>1. CASE a[k].state = "INITIAL"
        <5>1. a[l] = InInitial(a[k], cells[l])
          BY <3>2, <4>1 DEF ParseChar
        <5>2. a[k].token \in Tokens(C)
          BY <3>3 DEF ParseStates
        <5>3. NewString(a[k].token).type = "STRING"
          BY <5>2 DEF NewString, Tokens
        <5>4. \/ a[l] = Parser("STRING", NewString(a[k].token), a[k].colons, a[k].pos + 1)
              \/ a[l] = Parser("INITIAL", a[k].token, a[k].colons, a[k].pos + 1)
              \/ a[l] = Parser("FAILED", a[k].token, a[k].colons, a[k].pos)
          BY <3>4, <5>1, DistinctChars DEF InInitial
        <5> QED
          BY <3>2, <5>3, <5>4 DEF Parser
      <4>2. CASE a[k].state = "STRING"
        <5>1. a[l] = InString(a[k], cells[l])
          BY <3>2, <4>2 DEF ParseChar
        <5>2. a[k].token \in Tokens(C)
          BY <3>3 DEF ParseStates
        <5>3. [a[k].token EXCEPT !.str = Append(@, cells[l])].type = a[k].token.type
          BY <5>2 DEF Tokens
        <5> QED
          BY <3>2, <5>1, <5>3 DEF InString, Parser
      <4>3. CASE a[k].state \in {"DONE", "FAILED"}
        <5>1. a[l] = a[k]
          BY <3>2, <4>3 DEF ParseChar
        <5> QED
          BY <3>2, <5>1
      <4> QED
        BY <3>5, <4>1, <4>2, <4>3
    <3> QED
      BY <3>1, <3>6
  <2> HIDE DEF P
  <2>6. \A k \in pos..limit : k \in P
    BY <2>4, <2>5, Upward
  <2>7. limit \in pos..limit
    BY <2>1
  <2>8. a[limit].token.type # "NUMBER"
    BY <2>6, <2>7 DEF P
  <2> QED
    BY <2>2, <2>8 DEF Returned
<1> QED
  BY <1>1, <1>2

\* A place behind a line end of the chunk, old or new, is at a row of the
\* reply or has only separators of it before it ends.
LEMMA AtLine ==
  ASSUME ChunkIsTheReply, NEW r, IsReply(r), r.rows # << >>, NEW pos \in Nat,
         pos = 0 \/ pos \in LineEnds
  PROVE  \/ \E i \in 1..Len(r.rows) : Leads(r.text, api_chunk_write_pos, pos, r.rows[i][1])
         \/ \A q \in (pos + 1)..api_chunk_write_pos : r.text[q] \in Separators
<1> DEFINE limit == api_chunk_write_pos
<1>1. /\ r \in Sources /\ limit \in 0..Len(r.text) /\ Len(r.text) \in Nat /\ Len(r.rows) \in Nat
      /\ Holds(api_chunk, limit, r.text, Characters)
  BY SourceFacts DEF IsReply
<1>2. CASE pos = 0
  BY <1>1, <1>2, BeforeRows
<1>3. CASE pos \in LineEnds /\ limit < pos
  BY <1>1, <1>3
<1>4. CASE pos \in LineEnds /\ ~ (limit < pos)
  <2>1. pos \in 1..TextLength /\ TextLength \in Nat /\ api_chunk[pos] = "LF"
    BY <1>4, LineEndsType DEF LineEnds
  <2>2. pos \in 1..limit /\ pos \in 1..Len(r.text)
    BY <1>1, <1>4, <2>1
  <2>3. r.text[pos] = "LF"
    BY <1>1, <2>1, <2>2 DEF Holds
  <2>4. PICK c, e : AreEnds(r, c, e)
    BY <1>1, RowEnds
  <2>5. PICK i \in 1..c : pos = e[i]
    BY <2>2, <2>3, <2>4 DEF AreEnds
  <2>6. i \in 1..Len(r.rows) /\ pos \in Feeds(r, i)
    <3>1. i \in 1..Len(r.rows)
      BY <1>1, <2>4, ClosedRow
    <3> QED
      BY <2>4, <2>5, <3>1 DEF AreEnds
  <2>7. CASE i < Len(r.rows)
    <3>1. i + 1 \in 1..Len(r.rows)
      BY <1>1, <2>7
    <3>2. Leads(r.text, limit, pos, r.rows[i + 1][1])
      BY <1>1, <2>6, <2>7, BehindEnd
    <3> QED
      BY <3>1, <3>2
  <2>8. CASE i = Len(r.rows)
    <3>1. limit \in Nat /\ limit <= Len(r.text)
      BY <1>1
    <3>2. \A p \in (pos + 1)..limit : r.text[p] \in Separators
      BY <1>1, <2>6, <2>8, <3>1, BehindEnd
    <3> QED
      BY <3>2
  <2> QED
    BY <1>1, <2>6, <2>7, <2>8
<1> QED
  BY <1>2, <1>3, <1>4

LEMMA AnswersNew ==
  ASSUME ChunkIsTheReply, NEW call \in NumberCalls, NEW other \in {-1, -8},
         ReadNumber(call, ApiOf[call], FieldOf[call], other), api_current = ApiOf[call],
         ret'.rc \in Nat
  PROVE  ret'.rc = 1 \/ IsSent(ret'.rc)
<1> DEFINE n == FieldOf[call]
           limit == api_chunk_write_pos
<1>1. PICK r \in Sources : IsReply(r)
  BY HoldsReply
<1>2. /\ r.api = ApiOf[call] /\ list = r.rows /\ limit \in 0..Len(r.text) /\ limit \in Nat
      /\ Holds(api_chunk, limit, r.text, Characters)
  BY <1>1, SourceFacts DEF IsReply
<1>3. n \in {1, 2}
  BY DEF FieldOf, NumberCalls
<1> HIDE DEF n
<1>4. n \in Nat /\ n >= 1 /\ n \in 1..n /\ 1 \in 1..n /\ n - 1 \in 0..n /\ 0 \in 0..n /\ n \in 0..n
  BY <1>3
<1>5. PICK index \in Indices, g \in Leftovers : \E t \in [0..n -> Results(Characters)] :
        /\ TokenRun(t, n, radiolist_parser_goto(index), Unset(g))
        /\ ret'.call = call /\ ret'.index = index /\ ret'.rc = NumberAnswer(t, n, other)
  BY <1>4, AnswersNumber DEF n
<1>6. PICK t \in [0..n -> Results(Characters)] :
        /\ TokenRun(t, n, radiolist_parser_goto(index), Unset(g))
        /\ ret'.rc = NumberAnswer(t, n, other)
  BY <1>5
<1>7. index \in Nat
  BY BoundsAssumption
<1>8. PICK pos \in Nat, token \in Tokens(Characters) :
        pos = radiolist_parser_goto(index) /\ token = Unset(g) /\ (pos = 0 \/ pos \in LineEnds)
  BY <1>7, GotoLine, UnsetType
<1>9. TokenRun(t, n, pos, token)
  BY <1>6, <1>8
<1>10. /\ t[n] \in Results(Characters) /\ t[n - 1] \in Results(Characters)
       /\ t[n] = TokenAfter(t[n - 1])
  BY <1>4, <1>9 DEF TokenRun
<1>11. t[n].rc \in {0, 1, -8} /\ t[n - 1].pos \in Nat /\ t[n - 1].token \in Tokens(Characters)
  BY <1>10 DEF Results, WERR_PARSE_DATABASE
<1>12. \/ t[n].rc = 0 /\ t[n].token.type = "NUMBER" /\ ret'.rc = t[n].token.num
       \/ ret'.rc = 1
  BY <1>6, <1>11 DEF NumberAnswer
<1>13. CASE ret'.rc # 1 /\ CutOff(t[n], limit)
  BY <1>12, <1>13 DEF CutOff
<1>14. CASE ret'.rc # 1 /\ r.rows = << >>
  <2>1. t[n] = radiolist_parse_token(api_chunk, limit, t[n - 1].pos, t[n - 1].token)
    BY <1>10, <1>12, <1>14 DEF TokenAfter, NextToken
  <2>2. \A q \in 1..limit : r.text[q] \notin DOMAIN Digits
    BY <1>2, <1>14, SourceFacts
  <2>3. t[n].token.type # "NUMBER"
    BY <1>2, <1>11, <2>1, <2>2, NoDigits
  <2> QED
    BY <1>12, <1>14, <2>3
<1>15. CASE ret'.rc # 1 /\ r.rows # << >> /\ ~ CutOff(t[n], limit)
  <2>1. CASE \A q \in (pos + 1)..limit : r.text[q] \in Separators
    <3>1. t[1] = TokenAfter(t[0]) /\ t[0] = [pos |-> pos, token |-> token, rc |-> 0]
      BY <1>4, <1>9 DEF TokenRun
    <3>2. t[1] = radiolist_parse_token(api_chunk, limit, pos, token)
      BY <3>1 DEF TokenAfter, NextToken
    <3>3. CutOff(t[1], limit)
      BY <1>2, <2>1, <3>2, NotReached
    <3>4. CutOff(t[n], limit)
      BY <1>2, <1>4, <1>9, <3>3, StaysCutOff
    <3> QED
      BY <1>15, <3>4
  <2>2. CASE \E i \in 1..Len(r.rows) : Leads(r.text, limit, pos, r.rows[i][1])
    <3>1. PICK i \in 1..Len(r.rows) : Leads(r.text, limit, pos, r.rows[i][1])
      BY <2>2
    <3>2. /\ n \in 1..Len(r.rows[i]) /\ r.rows[i][n].type = "NUMBER"
          /\ \A j \in 1..n : r.rows[i][j].type # "TIME"
      BY <1>2, <1>15, NumberFields DEF n
    <3>3. ReadsAs(t[n], r.rows[i][n], t[n - 1].token) \/ CutOff(t[n], limit)
      BY <1>2, <1>4, <1>9, <1>15, <3>1, <3>2, ReadsRow
    <3>4. t[n].token.num = r.rows[i][n].num
      BY <1>15, <3>2, <3>3 DEF ReadsAs
    <3> QED
      BY <1>2, <1>12, <3>2, <3>4 DEF IsSent
  <2> QED
    BY <1>1, <1>8, <1>15, <2>1, <2>2, AtLine
<1> QED
  BY <1>13, <1>14, <1>15

\* Whatever a request that fails leaves behind its reply, no identifier of
\* an earlier list is read.
THEOREM NoOldListInvariance == Spec => []NoOldList
<1>1. Init => NoOldList
  BY DEF Init, NoOldList, NumberCalls
<1>2. NoOldList /\ ChunkIsTheReply /\ [Next]_vars => NoOldList'
  <2> SUFFICES ASSUME NoOldList, ChunkIsTheReply, [Next]_vars,
                      ~ fetched', ret'.call \in NumberCalls, ret'.rc \in Nat
               PROVE  ret'.rc = 1 \/ IsSent(ret.rc)'
    BY DEF NoOldList
  <2>1. CASE UNCHANGED vars
    BY <2>1 DEF vars, NoOldList, IsSent
  <2>2. CASE ~ UNCHANGED vars
    <3>1. PICK other \in {-1, -8} : ReadNumber(ret'.call, ApiOf[ret'.call], FieldOf[ret'.call], other)
      BY <2>2, Callers
    <3>2. UNCHANGED chunk
      BY <3>1 DEF ReadNumber, NotFetched
    <3>3. PICK call \in NumberCalls : call = ret'.call
      OBVIOUS
    <3>4. api_current = ApiOf[call]
      <4> SUFFICES ASSUME api_current # ApiOf[call] PROVE FALSE
        OBVIOUS
      <4>1. ret'.rc = -1
        BY <3>1, <3>3 DEF ReadNumber, NotFetched, WERR_FAILED
      <4> QED
        BY <4>1
    <3>5. ret'.rc = 1 \/ IsSent(ret'.rc)
      BY <3>1, <3>3, <3>4, AnswersNew
    <3> QED
      BY <3>2, <3>5 DEF IsSent, chunk
  <2> QED
    BY <2>1, <2>2
<1> QED
  BY <1>1, <1>2, ChunkInvariance, PTL DEF Spec

----------------------------------------------------------------------------
(* The times of a programme.                                               *)

\* What the two readers make of the row: TimesAccumulate with its leftover.
TimeOf(call, row, g) ==
  LET start == row[1].digits
      end   == row[2].digits
  IN  IF call = "start_time"
      THEN <<Appended(0, start[1]), Appended(g, start[2]), Appended(g, start[3])>>
      ELSE <<Appended(0, end[1]), Appended(Appended(g, start[2]), end[2]),
             Appended(Appended(g, start[3]), end[3])>>

LEMMA TimeFields ==
  ASSUME NEW r \in Sources, r.api = "PROGRAM_LIST", r.rows # << >>, NEW i \in 1..Len(r.rows)
  PROVE  /\ 1 \in 1..Len(r.rows[i]) /\ 2 \in 1..Len(r.rows[i])
         /\ r.rows[i][1].type = "TIME" /\ r.rows[i][2].type = "TIME"
<1>1. Shape[r.api] = <<"TIME", "TIME", "STRING">>
  BY DEF Shape
<1>2. Len(Shape[r.api]) = 3 /\ Shape[r.api][1] = "TIME" /\ Shape[r.api][2] = "TIME"
  BY <1>1
<1>3. Len(r.rows[i]) = 3
  BY <1>2, RowLength
<1>4. 1 \in 1..Len(r.rows[i]) /\ 2 \in 1..Len(r.rows[i])
  BY <1>3
<1>5. \A j \in 1..Len(r.rows[i]) : r.rows[i][j].type = Shape[r.api][j]
  BY FieldFacts
<1> QED
  BY <1>2, <1>4, <1>5

LEMMA AnswersTimeOf ==
  ASSUME ChunkIsTheReply, NEW call \in TimeCalls,
         ReadTime(call, IF call = "start_time" THEN 1 ELSE 2), api_current = "PROGRAM_LIST",
         fetched, list # << >>, LineEnds # {}
  PROVE  \E g \in Leftovers : ret'.time = TimeOf(call, list[Selected(ret'.index)], g)
<1> DEFINE n == IF call = "start_time" THEN 1 ELSE 2
<1>1. PICK r \in Sources : IsReply(r)
  BY HoldsReply
<1>2. /\ r.api = "PROGRAM_LIST" /\ list = r.rows /\ r.rows # << >>
      /\ api_chunk_write_pos \in 0..Len(r.text)
      /\ Holds(api_chunk, api_chunk_write_pos, r.text, Characters)
  BY <1>1 DEF IsReply
<1>3. n \in {1, 2} /\ (n = 1 <=> call = "start_time")
  OBVIOUS
<1>4. ReadTime(call, n)
  OBVIOUS
<1> HIDE DEF n
<1>5. PICK index \in Indices, g \in Leftovers : \E t \in [0..n -> Results(Characters)] :
        /\ TokenRun(t, n, radiolist_parser_goto(index), Unset(g))
        /\ ret'.call = call /\ ret'.index = index
        /\ ret'.time = <<t[n].token.num, t[n].token.min, t[n].token.sec>>
  <2>1. n \in Nat
    BY <1>3
  <2> QED
    BY <1>4, <2>1, AnswersTime
<1>6. PICK t \in [0..n -> Results(Characters)] :
        /\ TokenRun(t, n, radiolist_parser_goto(index), Unset(g))
        /\ ret'.index = index /\ ret'.time = <<t[n].token.num, t[n].token.min, t[n].token.sec>>
  BY <1>5
<1>7. index \in Nat
  BY BoundsAssumption
<1>8. PICK i : i = Selected(index)
  OBVIOUS
<1>9. /\ i \in 1..Len(r.rows)
      /\ Leads(r.text, api_chunk_write_pos, radiolist_parser_goto(index), r.rows[i][1])
      /\ \A j \in 1..Len(r.rows[i]) : Whole(r.rows[i][j], api_chunk_write_pos)
  BY <1>1, <1>2, <1>7, <1>8, EntryStart
<1>10. /\ 1 \in 1..Len(r.rows[i]) /\ 2 \in 1..Len(r.rows[i])
       /\ r.rows[i][1].type = "TIME" /\ r.rows[i][2].type = "TIME"
  BY <1>2, <1>9, TimeFields
<1>11. PICK pos \in Nat, token \in Tokens(Characters) :
         pos = radiolist_parser_goto(index) /\ token = Unset(g) /\ token.min = g /\ token.sec = g
  BY <1>7, GotoLine, UnsetType
<1>12. n \in 1..Len(r.rows[i]) /\ 1 \in 1..n /\ n \in 1..n /\ \A k \in 1..n : k \in 1..Len(r.rows[i])
  BY <1>3, <1>9, <1>10, RowLength
<1>13. \A j \in 1..n : ReadsAs(t[j], r.rows[i][j], t[j - 1].token)
  <2>1. TokenRun(t, n, pos, token) /\ Leads(r.text, api_chunk_write_pos, pos, r.rows[i][1])
    BY <1>6, <1>9, <1>11
  <2>2. \A j \in 1..n : Whole(r.rows[i][j], api_chunk_write_pos)
    BY <1>9, <1>12
  <2>3. \A j \in 1..n :
          ReadsAs(t[j], r.rows[i][j], t[j - 1].token) \/ \E k \in 1..j : ~ Whole(r.rows[i][k], api_chunk_write_pos)
    BY <1>2, <1>6, <1>9, <1>12, <2>1, <2>2, ReadsRow
  <2>4. \A j \in 1..n : \A k \in 1..j : k \in 1..n
    BY <1>3
  <2> QED
    BY <2>2, <2>3, <2>4
<1>14. t[0].token = token
  BY <1>6, <1>11 DEF TokenRun
<1>15. PICK start, end : start = r.rows[i][1].digits /\ end = r.rows[i][2].digits
  OBVIOUS
<1>16. /\ t[1].token.num = Appended(0, start[1]) /\ t[1].token.min = Appended(g, start[2])
       /\ t[1].token.sec = Appended(g, start[3])
  <2>1. ReadsAs(t[1], r.rows[i][1], t[0].token)
    BY <1>12, <1>13
  <2> QED
    BY <1>10, <1>11, <1>14, <1>15, <2>1 DEF ReadsAs
<1>17. CASE n = 1
  <2>1. ret'.time = <<Appended(0, start[1]), Appended(g, start[2]), Appended(g, start[3])>>
    BY <1>6, <1>16, <1>17
  <2> QED
    BY <1>2, <1>3, <1>6, <1>8, <1>15, <1>17, <2>1 DEF TimeOf
<1>18. CASE n = 2
  <2>1. ReadsAs(t[2], r.rows[i][2], t[1].token)
    BY <1>12, <1>13, <1>18
  <2>2. /\ t[2].token.num = Appended(0, end[1]) /\ t[2].token.min = Appended(t[1].token.min, end[2])
        /\ t[2].token.sec = Appended(t[1].token.sec, end[3])
    BY <1>10, <1>15, <2>1 DEF ReadsAs
  <2>3. ret'.time = <<Appended(0, end[1]), Appended(Appended(g, start[2]), end[2]),
                      Appended(Appended(g, start[3]), end[3])>>
    BY <1>6, <1>16, <1>18, <2>2
  <2> QED
    BY <1>2, <1>3, <1>6, <1>8, <1>15, <1>18, <2>3, SMTT(30) DEF TimeOf
<1> QED
  BY <1>3, <1>17, <1>18

\* A time has the hours of its entry, and its minutes and seconds behind
\* what the token held before: the leftover, and for the end the start's.
THEOREM TimesInvariance == Spec => []TimesAccumulate
<1>1. Init => TimesAccumulate
  BY DEF Init, TimesAccumulate, ReadFrom
<1>2. TimesAccumulate <=> (ReadFrom(TimeCalls) /\ ret.rc = 0 /\ LineEnds # {} =>
                             \E g \in Leftovers : ret.time = TimeOf(ret.call, list[Entry], g))
  BY DEF TimesAccumulate, TimeOf
<1>3. TimesAccumulate' <=> ((ReadFrom(TimeCalls) /\ ret.rc = 0 /\ LineEnds # {})' =>
                              \E g \in Leftovers : ret'.time = TimeOf(ret'.call, list'[Entry'], g))
  BY DEF TimesAccumulate, TimeOf
<1>4. TimesAccumulate /\ ChunkIsTheReply /\ [Next]_vars => TimesAccumulate'
  <2> SUFFICES ASSUME TimesAccumulate, ChunkIsTheReply, [Next]_vars,
                      ReadFrom(TimeCalls)', ret'.rc = 0, LineEnds' # {}
               PROVE  \E g \in Leftovers : ret'.time = TimeOf(ret'.call, list'[Entry'], g)
    BY <1>3
  <2>1. CASE UNCHANGED vars
    <3>1. UNCHANGED chunk /\ ret' = ret
      BY <2>1 DEF vars, chunk
    <3>2. LineEnds' = LineEnds
      BY <3>1, SameLines
    <3>3. ReadFrom(TimeCalls) /\ Entry' = Entry /\ list' = list
      BY <3>1, <3>2 DEF ReadFrom, Entry, chunk
    <3> QED
      BY <1>2, <3>1, <3>2, <3>3
  <2>2. CASE ~ UNCHANGED vars
    <3>1. ret'.call \in TimeCalls /\ fetched' /\ list' # << >> /\ api_current' = "PROGRAM_LIST"
      BY DEF ReadFrom, ApiOf, TimeCalls
    <3>2. PICK call \in TimeCalls : call = ret'.call
      BY <3>1
    <3>3. ReadTime(call, IF call = "start_time" THEN 1 ELSE 2)
      BY <2>2, <3>1, <3>2, Callers
    <3>4. UNCHANGED chunk
      BY <3>3 DEF ReadTime, NotFetched
    <3>5. LineEnds' = LineEnds /\ list' = list /\ api_current' = api_current /\ fetched' = fetched
      BY <3>4, SameLines DEF chunk
    <3>6. \E g \in Leftovers : ret'.time = TimeOf(call, list[Selected(ret'.index)], g)
      BY <3>1, <3>3, <3>5, AnswersTimeOf
    <3>7. Entry' = Selected(ret'.index)
      BY <3>5 DEF Entry, Selected
    <3> QED
      BY <3>2, <3>5, <3>6, <3>7
  <2> QED
    BY <2>1, <2>2
<1> QED
  BY <1>1, <1>4, ChunkInvariance, PTL DEF Spec

----------------------------------------------------------------------------
(* The address of a stream.                                                *)

NumeralSet == {Numerals[n + 1] : n \in 0..9}

LEMMA DigitsOfId ==
  ASSUME NEW id \in Nat
  PROVE  IdDigits(id) \in Seq(NumeralSet)
<1> DEFINE S == [rest : Nat, digits : Seq(NumeralSet)]
           s == [rest |-> id \div 10, digits |-> <<Numerals[(id % 10) + 1]>>]
           Next1(x) == [rest |-> x.rest \div 10, digits |-> <<Numerals[(x.rest % 10) + 1]>> \o x.digits]
           Step(x) == IF x.rest = 0 THEN x ELSE Next1(x)
           F == [kx \in (0..9) \X S |-> Step(kx[2])]
           Found(f) == f = [k \in 0..9 |-> IF k = 0 THEN s ELSE IF f[k - 1].rest = 0 THEN f[k - 1]
                                            ELSE Next1(f[k - 1])]
           best == CHOOSE f : Found(f)
<1>1. \A n \in Nat : n \div 10 \in Nat /\ n % 10 \in 0..9
  OBVIOUS
<1>2. \A n \in Nat : Numerals[(n % 10) + 1] \in NumeralSet
  BY <1>1 DEF NumeralSet
<1> HIDE DEF NumeralSet
<1>3. s \in S
  <2>1. id \div 10 \in Nat /\ <<Numerals[(id % 10) + 1]>> \in Seq(NumeralSet)
    BY <1>1, <1>2
  <2> QED
    BY <2>1
<1>4. ASSUME NEW x \in S PROVE Step(x) \in S
  <2>1. x.rest \in Nat /\ x.digits \in Seq(NumeralSet)
    OBVIOUS
  <2>2. x.rest \div 10 \in Nat /\ Numerals[(x.rest % 10) + 1] \in NumeralSet
    BY <1>1, <1>2, <2>1
  <2>3. <<Numerals[(x.rest % 10) + 1]>> \o x.digits \in Seq(NumeralSet)
    <3>1. PICK c \in NumeralSet : c = Numerals[(x.rest % 10) + 1]
      BY <2>2
    <3>2. <<c>> \o x.digits \in Seq(NumeralSet)
      BY <2>1
    <3> QED
      BY <3>1, <3>2
  <2>4. Next1(x) \in S
    BY <2>2, <2>3
  <2> HIDE DEF Next1
  <2> QED
    BY <2>4
<1>5. IdDigits(id) = best[9].digits
  BY Zenon DEF IdDigits
<1> HIDE DEF S, s, Next1
<1>6. F \in [(0..9) \X S -> S]
  <2>1. \A kx \in (0..9) \X S : kx[2] \in S
    OBVIOUS
  <2> HIDE DEF Step
  <2> QED
    BY <1>4, <2>1
<1>7. \A k \in 0..9, x \in S : F[<<k, x>>] = Step(x)
  <2> HIDE DEF Step
  <2> QED
    OBVIOUS
<1> HIDE DEF F
<1>8. PICK f \in [0..9 -> S] : Recurs(f, F, s, 0, 9)
  <2>1. 0 \in Nat /\ 9 \in Nat /\ 0 <= 9
    OBVIOUS
  <2> QED
    BY <1>3, <1>6, <2>1, Recursion
<1>9. f[0] = s /\ \A k \in 1..9 : f[k] = Step(f[k - 1])
  <2>1. f[0] = s
    BY <1>8 DEF Recurs
  <2>2. ASSUME NEW k \in 1..9 PROVE f[k] = Step(f[k - 1])
    <3>1. k - 1 \in 0..9 /\ k \in 0..9 /\ k \in (0 + 1)..9
      OBVIOUS
    <3>2. f[k - 1] \in S
      BY <3>1
    <3>3. f[k] = F[<<k, f[k - 1]>>]
      BY <1>8, <3>1 DEF Recurs
    <3> HIDE DEF Step
    <3> QED
      BY <3>1, <3>2, <3>3, <1>7
  <2> QED
    BY <2>1, <2>2
<1>10. Found(f)
  BY <1>9
<1>11. Found(best)
  BY <1>10, Zenon
<1> HIDE DEF best
<1>12. best[0] = s /\ \A k \in 1..9 : best[k] = Step(best[k - 1])
  BY <1>11
<1> DEFINE P == {k \in 0..9 : best[k] \in S}
<1>13. 0 \in P
  BY <1>3, <1>12
<1>14. ASSUME NEW k \in (0 + 1)..9, k - 1 \in P PROVE k \in P
  <2>1. k \in 1..9 /\ best[k - 1] \in S
    BY <1>14
  <2> HIDE DEF Step
  <2>2. best[k] \in S
    BY <1>4, <1>12, <2>1
  <2> QED
    BY <2>2
<1> HIDE DEF P
<1>15. \A k \in 0..9 : k \in P
  BY <1>13, <1>14, Upward
<1>16. best[9] \in S
  BY <1>15 DEF P
<1> QED
  BY <1>5, <1>16 DEF S

LEMMA NumeralsAreNoEnd == NUL \notin NumeralSet
  BY Numeral, DistinctChars DEF NumeralSet

\* A string ends before the first terminator.
LEMMA StringEnds ==
  ASSUME NEW N \in Nat, NEW V, NEW cells \in [1..N -> V], NEW n \in 0..(N - 1),
         cells[n + 1] = NUL, \A j \in 1..n : cells[j] # NUL
  PROVE  Str0(cells) = SubSeq(cells, 1, n)
<1>1. Len(cells) = N
  OBVIOUS
<1> DEFINE Ends(m) == cells[m + 1] = NUL /\ \A j \in 1..m : cells[j] # NUL
           m == CHOOSE m \in 0..(N - 1) : Ends(m)
<1>2. n \in 0..(N - 1) /\ Ends(n)
  OBVIOUS
<1>3. m \in 0..(N - 1) /\ Ends(m)
  <2> HIDE DEF Ends
  <2> QED
    BY <1>2, Zenon
<1>4. Str0(cells) = SubSeq(cells, 1, m)
  BY <1>1, Zenon DEF Str0
<1> HIDE DEF m
<1>5. ~ (n < m)
  <2> SUFFICES ASSUME n < m PROVE FALSE
    OBVIOUS
  <2>1. n + 1 \in 1..m
    BY <1>3
  <2> QED
    BY <1>2, <1>3, <2>1
<1>6. ~ (m < n)
  <2> SUFFICES ASSUME m < n PROVE FALSE
    OBVIOUS
  <2>1. m + 1 \in 1..n
    BY <1>3
  <2> QED
    BY <1>2, <1>3, <2>1
<1>7. m = n
  BY <1>3, <1>5, <1>6
<1> QED
  BY <1>4, <1>7

LEMMA FirstPlaceholder ==
  ASSUME NEW S, NEW file \in Seq(S), Placeholders(file) # {}
  PROVE  First(Placeholders(file)) \in Nat /\ First(Placeholders(file)) + 4 <= Len(file)
<1>1. Len(file) \in Nat
  OBVIOUS
<1>2. \A k \in Placeholders(file) : k \in Nat /\ k + 4 <= Len(file)
  BY <1>1 DEF Placeholders
<1>3. Placeholders(file) \in SUBSET Nat
  BY <1>2
<1>4. PICK k \in Placeholders(file) : \A j \in Placeholders(file) : k <= j
  BY <1>3, LeastOf
<1>5. First(Placeholders(file)) \in Placeholders(file)
  BY <1>4, Zenon DEF First
<1> QED
  BY <1>2, <1>5

LEMMA Joins ==
  ASSUME NEW V, NEW s \in Seq(V), NEW t \in Seq(V)
  PROVE  /\ s \o t \in Seq(V) /\ Len(s \o t) = Len(s) + Len(t)
         /\ \A i \in 1..Len(s) : (s \o t)[i] = s[i]
         /\ \A i \in 1..Len(t) : (s \o t)[Len(s) + i] = t[i]
<1>1. s \o t \in Seq(V) /\ Len(s \o t) = Len(s) + Len(t)
  OBVIOUS
<1>2. ASSUME NEW i \in 1..Len(s) PROVE (s \o t)[i] = s[i]
  <2>1. Len(s) \in Nat /\ Len(t) \in Nat /\ i \in 1..(Len(s) + Len(t)) /\ i <= Len(s)
    OBVIOUS
  <2> QED
    BY <2>1
<1>3. ASSUME NEW i \in 1..Len(t) PROVE (s \o t)[Len(s) + i] = t[i]
  <2>1. /\ Len(s) \in Nat /\ Len(t) \in Nat /\ Len(s) + i \in 1..(Len(s) + Len(t))
        /\ ~ (Len(s) + i <= Len(s)) /\ (Len(s) + i) - Len(s) = i
    OBVIOUS
  <2> QED
    BY <2>1
<1> QED
  BY <1>1, <1>2, <1>3

LEMMA SameSequence ==
  ASSUME NEW V, NEW s \in Seq(V), NEW t \in Seq(V), Len(s) = Len(t),
         \A i \in 1..Len(s) : s[i] = t[i]
  PROVE  s = t
  OBVIOUS

\* The digits of the identifier stand for the placeholder, as long as the
\* five cells that move are all there are behind it.
LEMMA StreamName ==
  ASSUME NEW S, NUL \notin S, NEW file \in Seq(S), NEW id \in Nat, NEW k \in Nat,
         k + 4 <= Len(file), Len(file) - k - 4 <= 4
  PROVE  Str0(apply_url_pattern(file, k, id)) =
           SubSeq(file, 1, k) \o IdDigits(id) \o SubSeq(file, k + 5, Len(file))
<1> DEFINE V == S \cup {NUL} \cup NumeralSet
<1>1. PICK digits \in Seq(NumeralSet) : digits = IdDigits(id)
  BY DigitsOfId
<1>2. PICK d \in Nat : d = Len(digits)
  OBVIOUS
<1>3. PICK L \in Nat : L = Len(file)
  OBVIOUS
<1>4. PICK m \in 0..4 : m = L - k - 4 /\ L = k + 4 + m
  BY <1>3
<1>5. PICK last \in Nat : last = k + d
  BY <1>2
<1>6. PICK old : old = Cells(file)
  OBVIOUS
<1>7. Len(old) = L + 1 /\ old[L + 1] = NUL /\ \A i \in 1..L : old[i] = file[i]
  BY <1>3, <1>6 DEF Cells
<1>8. PICK N \in Nat : N = L + 1 + d
  BY <1>2, <1>3
<1>9. PICK cells : cells = apply_url_pattern(file, k, id)
  OBVIOUS
<1>10. cells = [i \in 1..N |->
         CASE i \in (k + 1)..last -> digits[i - k]
           [] i \in (last + 1)..(last + 5) /\ i - last + k + 4 <= L + 1 -> old[i - last + k + 4]
           [] i \in 1..(L + 1) /\ i \notin (k + 1)..(last + 5) -> old[i]
           [] OTHER -> NUL]
  <2>1. cells = [i \in 1..(Len(old) + Len(digits)) |->
          CASE i \in (k + 1)..(k + Len(digits)) -> digits[i - k]
            [] /\ i \in ((k + Len(digits)) + 1)..((k + Len(digits)) + 5)
               /\ i - (k + Len(digits)) + k + 4 <= Len(old) -> old[i - (k + Len(digits)) + k + 4]
            [] i \in 1..Len(old) /\ i \notin (k + 1)..((k + Len(digits)) + 5) -> old[i]
            [] OTHER -> NUL]
    BY <1>1, <1>6, <1>9 DEF apply_url_pattern
  <2>2. Len(old) + Len(digits) = N /\ k + Len(digits) = last /\ Len(old) = L + 1
    BY <1>2, <1>5, <1>7, <1>8
  <2> QED
    BY <2>1, <2>2
<1>11. /\ \A i \in 1..d : digits[i] \in NumeralSet
       /\ \A i \in 1..L : file[i] \in S
  BY <1>2, <1>3
<1>12. ASSUME NEW i \in 1..k PROVE i \in 1..N /\ cells[i] = file[i] /\ i \in 1..L
  <2>1. /\ i \in 1..N /\ i \in 1..(L + 1) /\ i \notin (k + 1)..(last + 5) /\ i \in 1..L
        /\ i \notin (k + 1)..last /\ i \notin (last + 1)..(last + 5)
    BY <1>4, <1>5, <1>8
  <2>2. cells[i] = old[i]
    BY <1>10, <2>1
  <2> QED
    BY <1>7, <2>1, <2>2
<1>13. ASSUME NEW i \in 1..d PROVE k + i \in 1..N /\ cells[k + i] = digits[i]
  <2>1. k + i \in 1..N /\ k + i \in (k + 1)..last /\ (k + i) - k = i /\ k + i \notin (last + 1)..(last + 5)
    BY <1>4, <1>5, <1>8
  <2>2. cells[k + i] = digits[(k + i) - k]
    BY <1>10, <2>1, SMTT(30)
  <2> QED
    BY <2>1, <2>2
<1>14. ASSUME NEW i \in 1..(m + 1) PROVE last + i \in 1..N /\ cells[last + i] = old[k + 4 + i]
  <2>1. /\ last + i \in 1..N /\ last + i \notin (k + 1)..last /\ last + i \in (last + 1)..(last + 5)
        /\ (last + i) - last + k + 4 <= L + 1 /\ (last + i) - last + k + 4 = k + 4 + i
        /\ last + i \in (k + 1)..(last + 5)
    BY <1>4, <1>5, <1>8
  <2>2. cells[last + i] = old[(last + i) - last + k + 4]
    BY <1>10, <2>1
  <2> QED
    BY <2>1, <2>2
<1>15. ASSUME NEW i \in 1..m PROVE cells[last + i] = file[k + 4 + i] /\ k + 4 + i \in 1..L
  <2>1. i \in 1..(m + 1) /\ k + 4 + i \in 1..L
    BY <1>4
  <2> QED
    BY <1>7, <1>14, <2>1
<1>16. cells[last + m + 1] = NUL
  <2>1. m + 1 \in 1..(m + 1) /\ k + 4 + (m + 1) = L + 1 /\ last + (m + 1) = last + m + 1
    BY <1>4
  <2>2. cells[last + (m + 1)] = old[k + 4 + (m + 1)]
    BY <1>14, <2>1
  <2> QED
    BY <1>7, <2>1, <2>2
<1>17. \A i \in 1..(last + m) : i \in 1..k \/ (\E j \in 1..d : i = k + j) \/ (\E j \in 1..m : i = last + j)
  <2>1. ASSUME NEW i \in 1..(last + m), i \notin 1..k, ~ (i <= last)
        PROVE  \E j \in 1..m : i = last + j
    <3>1. i - last \in 1..m /\ i = last + (i - last)
      BY <1>4, <2>1
    <3> QED
      BY <3>1
  <2>2. ASSUME NEW i \in 1..(last + m), i \notin 1..k, i <= last
        PROVE  \E j \in 1..d : i = k + j
    <3>1. i - k \in 1..d /\ i = k + (i - k)
      BY <1>5, <2>2
    <3> QED
      BY <3>1
  <2> QED
    BY <2>1, <2>2
<1>18. \A i \in 1..(last + m) : cells[i] # NUL
  <2>1. ASSUME NEW i \in 1..(last + m) PROVE cells[i] \in S \cup NumeralSet
    <3>1. CASE i \in 1..k
      BY <1>11, <1>12, <3>1
    <3>2. ASSUME NEW j \in 1..d, i = k + j PROVE cells[i] \in NumeralSet
      BY <1>11, <1>13, <3>2
    <3>3. ASSUME NEW j \in 1..m, i = last + j PROVE cells[i] \in S
      BY <1>11, <1>15, <3>3
    <3> QED
      BY <1>17, <3>1, <3>2, <3>3
  <2> QED
    BY <2>1, NumeralsAreNoEnd
<1>19. cells \in [1..N -> V]
  <2>1. \A i \in 1..(L + 1) : old[i] \in V
    <3>1. ASSUME NEW i \in 1..(L + 1) PROVE old[i] \in V
      <4>1. i = L + 1 \/ i \in 1..L
        OBVIOUS
      <4> QED
        BY <1>7, <1>11, <4>1
    <3> QED
      BY <3>1
  <2>2. ASSUME NEW i \in 1..N PROVE cells[i] \in V
    <3>1. CASE i \in (k + 1)..last
      <4>1. i - k \in 1..d /\ i \notin (last + 1)..(last + 5) /\ i \in (k + 1)..(last + 5)
        BY <1>5, <3>1
      <4>2. cells[i] = digits[i - k]
        BY <1>10, <3>1, <4>1
      <4> QED
        BY <1>11, <4>1, <4>2
    <3>2. CASE i \in (last + 1)..(last + 5) /\ i - last + k + 4 <= L + 1
      <4>1. i - last + k + 4 \in 1..(L + 1) /\ i \notin (k + 1)..last /\ i \in (k + 1)..(last + 5)
        BY <1>5, <3>2
      <4>2. cells[i] = old[i - last + k + 4]
        BY <1>10, <3>2, <4>1
      <4> QED
        BY <2>1, <4>1, <4>2
    <3>3. CASE i \in 1..(L + 1) /\ i \notin (k + 1)..(last + 5)
      <4>1. i \notin (k + 1)..last /\ i \notin (last + 1)..(last + 5)
        BY <1>5, <3>3
      <4>2. cells[i] = old[i]
        BY <1>10, <3>3, <4>1
      <4> QED
        BY <2>1, <3>3, <4>2
    <3>4. CASE /\ i \notin (k + 1)..last
               /\ ~ (i \in (last + 1)..(last + 5) /\ i - last + k + 4 <= L + 1)
               /\ ~ (i \in 1..(L + 1) /\ i \notin (k + 1)..(last + 5))
      <4>1. cells[i] = NUL
        BY <1>10, <3>4
      <4> QED
        BY <4>1
    <3> QED
      BY <3>1, <3>2, <3>3, <3>4
  <2>3. cells = [i \in 1..N |-> cells[i]]
    BY <1>10
  <2> HIDE DEF V
  <2> QED
    BY <2>2, <2>3
<1>20. PICK n \in 0..(N - 1) : n = last + m
  BY <1>4, <1>5, <1>8
<1>21. Str0(cells) = SubSeq(cells, 1, n)
  BY <1>16, <1>18, <1>19, <1>20, StringEnds
<1>22. S \subseteq V /\ NumeralSet \subseteq V
  OBVIOUS
<1> HIDE DEF V
<1>23. PICK out : out = SubSeq(cells, 1, n)
  OBVIOUS
<1>24. out \in Seq(V) /\ Len(out) = n /\ \A i \in 1..n : out[i] = cells[i]
  <2>1. cells \in Seq(V) /\ Len(cells) = N
    BY <1>19
  <2>2. n \in Nat /\ n <= N
    BY <1>8, <1>20
  <2> QED
    BY <1>23, <2>1, <2>2
<1>25. PICK head : head = SubSeq(file, 1, k)
  OBVIOUS
<1>26. head \in Seq(V) /\ Len(head) = k /\ \A i \in 1..k : head[i] = file[i]
  <2>1. file \in Seq(V) /\ k <= Len(file)
    BY <1>22
  <2> QED
    BY <1>25, <2>1
<1>27. PICK tail : tail = SubSeq(file, k + 5, Len(file))
  OBVIOUS
<1>28. tail \in Seq(V) /\ Len(tail) = m /\ \A i \in 1..m : tail[i] = file[k + 4 + i]
  <2>1. file \in Seq(V) /\ Len(file) = L
    BY <1>3, <1>22
  <2>2. tail \in Seq(V) /\ Len(tail) = m
    BY <1>4, <1>27, <2>1
  <2>3. ASSUME NEW i \in 1..m PROVE tail[i] = file[k + 4 + i]
    <3>1. tail[i] = file[k + 5 + i - 1] /\ k + 5 + i - 1 = k + 4 + i
      BY <1>4, <1>27, <2>1, <2>2
    <3> QED
      BY <3>1
  <2> QED
    BY <2>2, <2>3
<1>29. digits \in Seq(V)
  BY <1>22
<1>30. PICK front : front = head \o digits
  OBVIOUS
<1>31. /\ front \in Seq(V) /\ Len(front) = last
       /\ \A i \in 1..k : front[i] = file[i]
       /\ \A i \in 1..d : front[k + i] = digits[i]
  <2>1. /\ front \in Seq(V) /\ Len(front) = Len(head) + Len(digits)
        /\ \A i \in 1..Len(head) : front[i] = head[i]
        /\ \A i \in 1..Len(digits) : front[Len(head) + i] = digits[i]
    <3>1. head \in Seq(V)
      BY <1>26
    <3>2. /\ head \o digits \in Seq(V) /\ Len(head \o digits) = Len(head) + Len(digits)
          /\ \A i \in 1..Len(head) : (head \o digits)[i] = head[i]
          /\ \A i \in 1..Len(digits) : (head \o digits)[Len(head) + i] = digits[i]
      BY <1>29, <3>1, Joins
    <3> QED
      BY <1>30, <3>2, Zenon
  <2>2. Len(head) = k /\ Len(digits) = d /\ last = k + d
    BY <1>2, <1>5, <1>26
  <2>3. \A i \in 1..k : head[i] = file[i]
    BY <1>26
  <2> QED
    BY <2>1, <2>2, <2>3, Zenon
<1>32. PICK all : all = front \o tail
  OBVIOUS
<1>33. /\ all \in Seq(V) /\ Len(all) = last + m
       /\ \A i \in 1..last : all[i] = front[i]
       /\ \A i \in 1..m : all[last + i] = file[k + 4 + i]
  <2>1. /\ all \in Seq(V) /\ Len(all) = Len(front) + Len(tail)
        /\ \A i \in 1..Len(front) : all[i] = front[i]
        /\ \A i \in 1..Len(tail) : all[Len(front) + i] = tail[i]
    BY <1>28, <1>31, <1>32, Joins
  <2>2. Len(front) = last /\ Len(tail) = m
    BY <1>28, <1>31
  <2>3. \A i \in 1..m : all[last + i] = tail[i]
    BY <2>1, <2>2, Zenon
  <2> QED
    BY <1>28, <2>1, <2>2, <2>3
<1>34. ASSUME NEW i \in 1..(last + m) PROVE all[i] = cells[i]
  <2>1. CASE i \in 1..k
    <3>1. i \in 1..last
      BY <1>5, <2>1
    <3> QED
      BY <1>12, <1>31, <1>33, <2>1, <3>1
  <2>2. ASSUME NEW j \in 1..d, i = k + j PROVE all[i] = cells[i]
    <3>1. k + j \in 1..last
      BY <1>5
    <3> QED
      BY <1>13, <1>31, <1>33, <2>2, <3>1
  <2>3. ASSUME NEW j \in 1..m, i = last + j PROVE all[i] = cells[i]
    BY <1>15, <1>33, <2>3
  <2> QED
    BY <1>17, <2>1, <2>2, <2>3
<1>35. out = all
  <2>1. \A i \in 1..Len(out) : out[i] = all[i]
    BY <1>20, <1>24, <1>34
  <2> QED
    BY <1>20, <1>24, <1>33, <2>1, SameSequence
<1> QED
  BY <1>1, <1>9, <1>21, <1>23, <1>25, <1>27, <1>30, <1>32, <1>35

LEMMA ReceivedHolds ==
  ASSUME NEW r \in Replies, NEW n \in 0..Len(r.text), NEW whole \in BOOLEAN
  PROVE  Holds(Received(r.text, n, whole), n, r.text, Characters)
<1>1. r.text \in Seq(Characters \ {NUL}) /\ Len(r.text) \in Nat /\ Len(r.text) < ChunkSize
  BY SourceFacts DEF Sources
<1>2. ChunkSize \in Nat
  BY BoundsAssumption
<1>3. \A i \in 1..n : i \in 1..Len(r.text) /\ i \in 1..ChunkSize /\ i <= n
  BY <1>1, <1>2
<1>4. \A i \in 1..Len(r.text) : r.text[i] \in Characters
  <2> HIDE DEF Characters
  <2> QED
    BY <1>1
<1>5. \A i \in 1..n : Received(r.text, n, whole)[i] = r.text[i]
  BY <1>3 DEF Received
<1> QED
  BY <1>3, <1>4, <1>5 DEF Holds

LEMMA ServerFields ==
  ASSUME NEW r \in Sources, r.api = "SERVER_LIST", r.rows # << >>
  PROVE  /\ 1 \in 1..Len(r.rows) /\ 1 \in 1..Len(r.rows[1]) /\ 2 \in 1..Len(r.rows[1])
         /\ 1 < Len(r.rows[1]) /\ r.rows[1][1].type = "STRING" /\ r.rows[1][2].type = "STRING"
<1>1. Shape[r.api] = <<"STRING", "STRING">>
  BY DEF Shape
<1>2. Len(Shape[r.api]) = 2 /\ Shape[r.api][1] = "STRING" /\ Shape[r.api][2] = "STRING"
  BY <1>1
<1>3. 1 \in 1..Len(r.rows)
  BY BeforeRows
<1>4. Len(r.rows[1]) = 2
  BY <1>2, <1>3, RowLength
<1>5. 1 \in 1..Len(r.rows[1]) /\ 2 \in 1..Len(r.rows[1]) /\ 1 < Len(r.rows[1])
  BY <1>4
<1>6. \A j \in 1..Len(r.rows[1]) : r.rows[1][j].type = Shape[r.api][j]
  BY <1>3, FieldFacts
<1> QED
  BY <1>2, <1>3, <1>5, <1>6

\* The first two fields of a list of servers are read as they were sent.
LEMMA ReadsServer ==
  ASSUME NEW r \in Replies, r.api = "SERVER_LIST", r.rows # << >>, NEW g \in Leftovers,
         NEW cells, Holds(cells, Len(r.text), r.text, Characters),
         NEW host, host = radiolist_parse_token(cells, Len(r.text), 0, Unset(g)),
         NEW file, file = radiolist_parse_token(cells, Len(r.text), host.pos, host.token)
  PROVE  /\ host.rc = 0 /\ host.token.type = "STRING" /\ host.token.str = r.rows[1][1].str
         /\ file.rc = 0 /\ file.token.type = "STRING" /\ file.token.str = r.rows[1][2].str
<1>1. r \in Sources /\ Len(r.text) \in Nat /\ Len(r.text) \in 0..Len(r.text) /\ 0 \in Nat
  <2>1. r \in Sources
    BY DEF Sources
  <2>2. Len(r.text) \in Nat
    BY <2>1, SourceFacts
  <2> QED
    BY <2>1, <2>2
<1>2. /\ 1 \in 1..Len(r.rows) /\ 1 \in 1..Len(r.rows[1]) /\ 2 \in 1..Len(r.rows[1])
      /\ 1 < Len(r.rows[1]) /\ r.rows[1][1].type = "STRING" /\ r.rows[1][2].type = "STRING"
  BY <1>1, ServerFields
<1>3. \A j \in {1, 2} : Whole(r.rows[1][j], Len(r.text))
  <2>1. ASSUME NEW j \in {1, 2} PROVE Whole(r.rows[1][j], Len(r.text))
    <3>1. FieldEnd(r.rows[1][j]) \in Nat /\ FieldEnd(r.rows[1][j]) <= Len(r.text)
      BY <1>1, <1>2, FieldFacts
    <3>2. r.rows[1][j].type = "STRING"
      BY <1>2
    <3> QED
      BY <1>1, <3>1, <3>2 DEF Whole
  <2> QED
    BY <2>1
<1>4. Unset(g) \in Tokens(Characters)
  BY UnsetType
<1>5. Leads(r.text, Len(r.text), 0, r.rows[1][1])
  BY <1>1, BeforeRows
<1>6. ReadsAs(host, r.rows[1][1], Unset(g))
  BY <1>1, <1>2, <1>3, <1>4, <1>5, ReadsField
<1>7. host \in Results(Characters)
  BY <1>1, <1>4, TokenType
<1>8. host.pos \in Nat /\ host.token \in Tokens(Characters) /\ host.pos = FieldEnd(r.rows[1][1])
  BY <1>6, <1>7 DEF ReadsAs, Results
<1>9. FieldEnd(r.rows[1][1]) <= host.pos /\ host.pos <= NextAt(r, 1, 1)
  BY <1>1, <1>2, <1>8, Behind
<1>10. Leads(r.text, Len(r.text), host.pos, r.rows[1][2])
  <2>1. Leads(r.text, Len(r.text), host.pos, r.rows[1][1 + 1])
    BY <1>1, <1>2, <1>8, <1>9, LeadsOn
  <2> QED
    BY <2>1
<1>11. ReadsAs(file, r.rows[1][2], host.token)
  BY <1>1, <1>2, <1>3, <1>8, <1>10, ReadsField
<1> QED
  BY <1>2, <1>6, <1>11 DEF ReadsAs

\* What is said of the address a server list gives.
AddressOf(row, id, host, name) ==
  LET file == row[2].str
      ks   == Placeholders(file)
      k    == First(ks)
      tail == SubSeq(file, k + 5, Len(file))
  IN  /\ host = row[1].str
      /\ ks = {} => name = file
      /\ ks # {} /\ Len(tail) <= 4 => name = SubSeq(file, 1, k) \o IdDigits(id) \o tail

LEMMA AnswersAddress ==
  ASSUME Server, fetched', list' # << >>, ret'.rc = 0
  PROVE  ret'.call = "server" /\ AddressOf(list'[1], ret'.index, ret'.host, ret'.file)
<1>1. PICK r \in Replies, g \in Leftovers, id \in StreamIds :
        \E n \in Arrivals(r.text), whole \in BOOLEAN :
          /\ r.api = "SERVER_LIST"
          /\ api_request_chunk(r, n, whole)
          /\ LET host == radiolist_parse_token(api_chunk', n, 0, Unset(g))
                 file == radiolist_parse_token(api_chunk', n, host.pos, host.token)
                 sent == HostAndFile(host, file, id)
             IN  whole => ret' = [call |-> "server", index |-> id, rc |-> sent.rc,
                                  host |-> sent.host, file |-> sent.file]
  BY DEF Server
<1>2. PICK n \in Arrivals(r.text), whole \in BOOLEAN :
          /\ r.api = "SERVER_LIST"
          /\ api_request_chunk(r, n, whole)
          /\ LET host == radiolist_parse_token(api_chunk', n, 0, Unset(g))
                 file == radiolist_parse_token(api_chunk', n, host.pos, host.token)
                 sent == HostAndFile(host, file, id)
             IN  whole => ret' = [call |-> "server", index |-> id, rc |-> sent.rc,
                                  host |-> sent.host, file |-> sent.file]
  BY <1>1
<1>3. /\ whole /\ n = Len(r.text) /\ list' = r.rows /\ r.rows # << >>
      /\ api_chunk' = Received(r.text, n, whole)
  BY <1>2 DEF api_request_chunk
<1>4. PICK host : host = radiolist_parse_token(api_chunk', n, 0, Unset(g))
  OBVIOUS
<1>5. PICK file : file = radiolist_parse_token(api_chunk', n, host.pos, host.token)
  OBVIOUS
<1>6. PICK sent : sent = HostAndFile(host, file, id)
  OBVIOUS
<1>7. ret' = [call |-> "server", index |-> id, rc |-> sent.rc, host |-> sent.host, file |-> sent.file]
  BY <1>2, <1>3, <1>4, <1>5, <1>6
<1>8. ret'.call = "server" /\ ret'.index = id /\ ret'.host = sent.host /\ ret'.file = sent.file /\ sent.rc = 0
  BY <1>7
<1>9. r \in Sources /\ Len(r.text) \in Nat /\ Len(r.text) \in 0..Len(r.text)
  <2>1. r \in Sources
    BY DEF Sources
  <2>2. Len(r.text) \in Nat
    BY <2>1, SourceFacts
  <2> QED
    BY <2>1, <2>2
<1>10. PICK cells : cells = api_chunk' /\ Holds(cells, Len(r.text), r.text, Characters)
  BY <1>3, <1>9, ReceivedHolds
<1>11. /\ host.rc = 0 /\ host.token.type = "STRING" /\ host.token.str = r.rows[1][1].str
       /\ file.rc = 0 /\ file.token.type = "STRING" /\ file.token.str = r.rows[1][2].str
  <2>1. host = radiolist_parse_token(cells, Len(r.text), 0, Unset(g))
    BY <1>3, <1>4, <1>10
  <2>2. file = radiolist_parse_token(cells, Len(r.text), host.pos, host.token)
    BY <1>3, <1>5, <1>10
  <2>3. r.api = "SERVER_LIST" /\ r.rows # << >> /\ Holds(cells, Len(r.text), r.text, Characters)
    BY <1>2, <1>3, <1>10
  <2> QED
    BY <2>1, <2>2, <2>3, ReadsServer, SMTT(30)
<1>12. PICK named : named = StreamFile(file.token.str, id)
  OBVIOUS
<1>13. sent = [host |-> host.token.str, file |-> named.file, rc |-> named.rc]
  <2>1. \/ sent.rc = -WERR_BUFFER_OVERFLOW
        \/ sent = [host |-> host.token.str, file |-> named.file, rc |-> named.rc]
    BY <1>6, <1>11, <1>12 DEF HostAndFile
  <2> QED
    BY <1>8, <2>1 DEF WERR_BUFFER_OVERFLOW
<1>14. sent.host = host.token.str /\ sent.file = named.file /\ named.rc = 0
  BY <1>8, <1>13
<1>15. PICK str : str = r.rows[1][2].str
  OBVIOUS
<1>16. PICK ks : ks = Placeholders(str)
  OBVIOUS
<1>17. PICK k : k = First(ks)
  OBVIOUS
<1>18. ks = {} => named.file = str
  BY <1>11, <1>12, <1>15, <1>16 DEF StreamFile
<1>19. ks # {} => named.file = Str0(apply_url_pattern(str, k, id))
  <2>1. ks # {} => \/ named.file = Str0(apply_url_pattern(str, k, id))
                   \/ named.rc = -WERR_PARSE_DATABASE
    <3>1. IdDigits(id) \in Seq(NumeralSet)
      BY BoundsAssumption, DigitsOfId
    <3>2. Len(IdDigits(id)) + 5 < ApiBuff \/ Len(IdDigits(id)) + 5 >= ApiBuff
      BY <3>1, BoundsAssumption
    <3> QED
      BY <1>11, <1>12, <1>15, <1>16, <1>17, <3>2, SMTT(30) DEF StreamFile
  <2> QED
    BY <1>14, <2>1 DEF WERR_PARSE_DATABASE
<1>20. PICK S : str \in Seq(S) /\ NUL \notin S
  <2> DEFINE S == {r.text[q] : q \in 1..Len(r.text)} \ {"QUOTE"}
  <2>1. 1 \in 1..Len(r.rows) /\ 2 \in 1..Len(r.rows[1]) /\ r.rows[1][2].type = "STRING"
    BY <1>2, <1>3, <1>9, ServerFields
  <2>2. Written(r.text, r.rows[1][2])
    BY <1>3, <1>9, <2>1, FieldFacts
  <2>3. str \in Seq(S)
    BY <1>15, <2>1, <2>2 DEF Written
  <2>4. NUL \notin S
    <3>1. \A q \in 1..Len(r.text) : r.text[q] # NUL
      <4> DEFINE T == Characters \ {NUL}
      <4>1. r.text \in Seq(T) /\ NUL \notin T
        BY <1>9, SourceFacts
      <4> HIDE DEF T
      <4> QED
        BY <4>1
    <3> QED
      BY <3>1
  <2> HIDE DEF S
  <2> QED
    BY <2>3, <2>4
<1>21. ASSUME ks # {}, Len(SubSeq(str, k + 5, Len(str))) <= 4
       PROVE  named.file = SubSeq(str, 1, k) \o IdDigits(id) \o SubSeq(str, k + 5, Len(str))
  <2>1. k \in Nat /\ k + 4 <= Len(str)
    BY <1>16, <1>17, <1>20, <1>21, FirstPlaceholder
  <2>2. Len(SubSeq(str, k + 5, Len(str))) = Len(str) - k - 4
    BY <1>20, <2>1
  <2>3. Len(str) - k - 4 <= 4 /\ id \in Nat
    BY <1>21, <2>2, BoundsAssumption
  <2> QED
    BY <1>19, <1>20, <1>21, <2>1, <2>3, StreamName
<1>22. /\ sent.host = r.rows[1][1].str
       /\ ks = {} => sent.file = str
       /\ ks # {} /\ Len(SubSeq(str, k + 5, Len(str))) <= 4 =>
            sent.file = SubSeq(str, 1, k) \o IdDigits(id) \o SubSeq(str, k + 5, Len(str))
  BY <1>11, <1>14, <1>18, <1>21
<1>23. AddressOf(r.rows[1], id, sent.host, sent.file)
  BY <1>15, <1>16, <1>17, <1>22, Zenon DEF AddressOf
<1> QED
  BY <1>3, <1>8, <1>23

\* The address of a stream: the host of the first server, and its file with
\* the digits of the identifier in place of the placeholder.
THEOREM AddressInvariance == Spec => []ServerAddress
<1>1. Init => ServerAddress
  BY DEF Init, ServerAddress
<1>2. ServerAddress <=> (fetched /\ list # << >> /\ ret.call = "server" /\ ret.rc = 0 =>
                           AddressOf(list[1], ret.index, ret.host, ret.file))
  BY DEF ServerAddress, AddressOf
<1>3. ServerAddress' <=> (fetched' /\ list' # << >> /\ ret'.call = "server" /\ ret'.rc = 0 =>
                            AddressOf(list'[1], ret'.index, ret'.host, ret'.file))
  BY DEF ServerAddress, AddressOf
<1>4. ServerAddress /\ [Next]_vars => ServerAddress'
  <2> SUFFICES ASSUME ServerAddress, [Next]_vars,
                      fetched', list' # << >>, ret'.call = "server", ret'.rc = 0
               PROVE  AddressOf(list'[1], ret'.index, ret'.host, ret'.file)
    BY <1>3
  <2>1. CASE UNCHANGED vars
    <3>1. fetched' = fetched /\ list' = list /\ ret' = ret
      BY <2>1 DEF vars
    <3> QED
      BY <1>2, <3>1
  <2>2. CASE ~ UNCHANGED vars
    BY <2>2, Callers, AnswersAddress
  <2> QED
    BY <2>1, <2>2
<1> QED
  BY <1>1, <1>4, PTL DEF Spec

----------------------------------------------------------------------------
(* The names of a list.  A reader that goes on has a place in the list: at *)
(* a row, between the name of a catalogue's row and its number, or behind  *)
(* the last row.  Every turn ends the reading or moves the place on.       *)

\* What a list is that names can be read from, field n of a row the name.
IsNameList(r, n, strict) ==
  /\ r \in Sources /\ r.rows # << >> /\ n \in 1..4 /\ strict \in BOOLEAN
  /\ api_chunk_write_pos = Len(r.text) /\ Holds(api_chunk, Len(r.text), r.text, Characters)
  /\ \A i \in 1..Len(r.rows) :
       /\ n \in 1..Len(r.rows[i]) /\ r.rows[i][n].type = "STRING"
       /\ \A j \in 1..Len(r.rows[i]) : Whole(r.rows[i][j], Len(r.text))
       /\ n = 1 => ~ strict /\ Len(r.rows[i]) = 2 /\ r.rows[i][2].type = "NUMBER"
       /\ n # 1 => Len(r.rows[i]) = n /\ \A j \in 1..n : r.rows[i][j].type # "TIME" \/ Whole(r.rows[i][j], Len(r.text))

\* The names of the first i rows.
NamesOf(r, n, i) == [k \in 1..i |-> r.rows[k][n].str]

AtRow(x, r, n, most) ==
  \E i \in 1..Len(r.rows) : /\ x.names = NamesOf(r, n, i - 1) /\ i - 1 <= most
                            /\ Leads(r.text, Len(r.text), x.pos, r.rows[i][1])
AtNumber(x, r, n, most) ==
  n = 1 /\ \E i \in 1..Len(r.rows) : /\ x.names = NamesOf(r, n, i) /\ i <= most
                                     /\ x.pos = FieldEnd(r.rows[i][1])
AtEnd(x, r, n, most) ==
  /\ x.names = NamesOf(r, n, Len(r.rows)) /\ Len(r.rows) <= most
  /\ \A q \in (x.pos + 1)..Len(r.text) : r.text[q] \in Separators

GoesOn(x, r, n, most) ==
  /\ x.more /\ x.rc = 0 /\ x.token \in Tokens(Characters) /\ x.pos \in 0..Len(r.text)
  /\ AtRow(x, r, n, most) \/ AtNumber(x, r, n, most) \/ AtEnd(x, r, n, most)

IsOver(x, r, n, most) ==
  /\ ~ x.more /\ x.names = NamesOf(r, n, Least(Len(r.rows), most))
  /\ x.rc = IF Len(r.rows) > most THEN STOP ELSE 0

Readers(most) ==
  {x \in [pos : Nat, token : Tokens(Characters), names : Seq(Seq(Characters)), more : BOOLEAN, rc : Int] :
     Len(x.names) <= most}

LEMMA ReaderType ==
  ASSUME NEW t \in Results(Characters), NEW names \in Seq(Seq(Characters)), NEW most,
         Len(names) <= most, NEW more \in BOOLEAN, NEW rc \in Int
  PROVE  Reader(t, names, more, rc) \in Readers(most)
<1>1. t.pos \in Nat /\ t.token \in Tokens(Characters)
  BY DEF Results
<1> QED
  BY <1>1 DEF Reader, Readers

\* What a turn of the loop does with the tokens of an entry.
TurnsTo(x, strict, most, t, y) ==
  /\ t.rc = 1 => y = Reader(t, x.names, FALSE, x.rc)
  /\ t.rc = -8 => y = Reader(t, x.names, FALSE, t.rc)
  /\ t.rc = 0 /\ t.token.type = "STRING" /\ Len(x.names) < most =>
       y = Reader(t, Append(x.names, t.token.str), TRUE, x.rc)
  /\ t.rc = 0 /\ t.token.type = "STRING" /\ Len(x.names) = most =>
       y = Reader(t, x.names, FALSE, STOP)
  /\ t.rc = 0 /\ t.token.type # "STRING" /\ strict =>
       y = Reader(t, x.names, FALSE, -WERR_PARSE_DATABASE)
  /\ t.rc = 0 /\ t.token.type # "STRING" /\ ~ strict =>
       y = Reader(t, x.names, TRUE, x.rc)

LEMMA Turns ==
  ASSUME NEW x, x.more, NEW n, NEW strict \in BOOLEAN, NEW most \in Nat, Len(x.names) \in Nat,
         NEW t, t = NextTokens(n, x.pos, x.token), t.rc \in {0, 1, -8}
  PROVE  TurnsTo(x, strict, most, t, NextEntry(x, n, strict, most))
<1>1. PICK rc \in {0, 1, -8} : rc = t.rc
  OBVIOUS
<1>2. PICK len \in Nat : len = Len(x.names)
  OBVIOUS
<1>3. PICK type : type = t.token.type
  OBVIOUS
<1>4. PICK on \in BOOLEAN : on /\ on = x.more
  OBVIOUS
<1>5. PICK y : y = NextEntry(x, n, strict, most)
  OBVIOUS
<1>6. PICK whole, stops, gone : /\ whole = Reader(t, Append(x.names, t.token.str), TRUE, x.rc)
                                /\ stops = Reader(t, x.names, FALSE, STOP)
                                /\ gone = Reader(t, x.names, FALSE, x.rc)
  OBVIOUS
<1>7. PICK fails, bad, on2 : /\ fails = Reader(t, x.names, FALSE, t.rc)
                             /\ bad = Reader(t, x.names, FALSE, -WERR_PARSE_DATABASE)
                             /\ on2 = Reader(t, x.names, TRUE, x.rc)
  OBVIOUS
<1>8. y = CASE ~ x.more -> x
            [] x.more /\ rc = 1 -> gone
            [] x.more /\ rc < 0 -> fails
            [] x.more /\ rc = 0 /\ type = "STRING" /\ len < most -> whole
            [] x.more /\ rc = 0 /\ type = "STRING" /\ len = most -> stops
            [] x.more /\ rc = 0 /\ ~ (type = "STRING") /\ strict -> bad
            [] x.more /\ rc = 0 /\ ~ (type = "STRING") /\ ~ strict -> on2
  BY <1>1, <1>2, <1>3, <1>5, <1>6, <1>7 DEF NextEntry
<1> HIDE DEF STOP
<1>9. /\ rc = 1 => y = gone
      /\ rc = -8 => y = fails
      /\ rc = 0 /\ type = "STRING" /\ len < most => y = whole
      /\ rc = 0 /\ type = "STRING" /\ len = most => y = stops
      /\ rc = 0 /\ type # "STRING" /\ strict => y = bad
      /\ rc = 0 /\ type # "STRING" /\ ~ strict => y = on2
  <2>1. CASE rc = 1
    BY <1>4, <1>8, <2>1
  <2>2. CASE rc = -8
    BY <1>4, <1>8, <2>2
  <2>3. CASE rc = 0 /\ type = "STRING" /\ len < most
    <3>1. len # most /\ ~ (rc < 0) /\ rc # 1 /\ rc # -8
      BY <1>2, <2>3
    <3> QED
      BY <1>4, <1>8, <2>3, <3>1
  <2>4. CASE rc = 0 /\ type = "STRING" /\ ~ (len < most)
    <3>1. ~ (rc < 0) /\ rc # 1 /\ rc # -8
      BY <2>4
    <3> QED
      BY <1>4, <1>8, <2>4, <3>1
  <2>5. CASE rc = 0 /\ type # "STRING"
    <3>1. ~ (rc < 0) /\ rc # 1 /\ rc # -8
      BY <2>5
    <3> QED
      BY <1>4, <1>8, <2>5, <3>1
  <2> QED
    BY <1>1, <2>1, <2>2, <2>3, <2>4, <2>5
<1> QED
  BY <1>1, <1>2, <1>3, <1>5, <1>6, <1>7, <1>9 DEF TurnsTo

\* A turn of the loop keeps a reader one.
LEMMA EntryType ==
  ASSUME ChunkIsTheReply, NEW n \in Nat, NEW strict \in BOOLEAN, NEW most \in Nat,
         NEW x \in Readers(most)
  PROVE  NextEntry(x, n, strict, most) \in Readers(most)
<1>1. /\ x.pos \in Nat /\ x.token \in Tokens(Characters) /\ x.names \in Seq(Seq(Characters))
      /\ x.more \in BOOLEAN /\ x.rc \in Int /\ Len(x.names) \in Nat /\ Len(x.names) <= most
  BY DEF Readers
<1>2. PICK t \in Results(Characters) : t = NextTokens(n, x.pos, x.token)
  <2>1. PICK r \in Sources : IsReply(r)
    BY HoldsReply
  <2>2. Holds(api_chunk, api_chunk_write_pos, r.text, Characters) /\ api_chunk_write_pos \in Nat
    BY <2>1, SourceFacts DEF IsReply
  <2>3. HasRun(Characters, n, x.pos, x.token)
    BY <1>1, <2>2, TokensRun
  <2>4. n \in 0..n
    OBVIOUS
  <2> QED
    BY <2>3, <2>4 DEF HasRun
<1>3. t.rc \in {0, 1, -8} /\ t.token.str \in Seq(Characters)
  BY DEF Results, Tokens, WERR_PARSE_DATABASE
<1>5. x.more => TurnsTo(x, strict, most, t, NextEntry(x, n, strict, most))
  BY <1>1, <1>2, <1>3, Turns
<1>6. CASE ~ x.more
  BY <1>6 DEF NextEntry
<1>7. CASE x.more /\ t.rc = 0 /\ t.token.type = "STRING" /\ Len(x.names) < most
  <2>1. NextEntry(x, n, strict, most) = Reader(t, Append(x.names, t.token.str), TRUE, x.rc)
    BY <1>5, <1>7 DEF TurnsTo
  <2>2. PICK names : names = Append(x.names, t.token.str)
    OBVIOUS
  <2>3. names \in Seq(Seq(Characters)) /\ Len(names) = Len(x.names) + 1
    <3> DEFINE T == Seq(Characters)
    <3>1. t.token.str \in T /\ x.names \in Seq(T)
      BY <1>1, <1>3
    <3> HIDE DEF T
    <3>2. names \in Seq(T) /\ Len(names) = Len(x.names) + 1
      BY <2>2, <3>1
    <3> QED
      BY <3>2 DEF T
  <2>4. Len(names) <= most
    BY <1>1, <1>7, <2>3
  <2> QED
    BY <1>1, <2>1, <2>2, <2>3, <2>4, ReaderType
<1>8. CASE x.more /\ ~ (t.rc = 0 /\ t.token.type = "STRING" /\ Len(x.names) < most)
  <2>1. \E more \in BOOLEAN, rc \in Int : NextEntry(x, n, strict, most) = Reader(t, x.names, more, rc)
    <3>1. t.rc \in Int /\ STOP \in Int /\ -WERR_PARSE_DATABASE \in Int
      BY <1>3 DEF STOP, WERR_PARSE_DATABASE
    <3>2. Len(x.names) < most \/ Len(x.names) = most
      BY <1>1
    <3>3. t.rc = 1 \/ t.rc = -8 \/ t.rc = 0
      BY <1>3
    <3>4. CASE t.rc = 1
      <4>1. NextEntry(x, n, strict, most) = Reader(t, x.names, FALSE, x.rc)
        BY <1>1, <1>3, <1>5, <1>8, <3>4 DEF TurnsTo
      <4> QED
        BY <1>1, <4>1
    <3>5. CASE t.rc = -8
      <4>1. NextEntry(x, n, strict, most) = Reader(t, x.names, FALSE, t.rc)
        BY <1>1, <1>3, <1>5, <1>8, <3>5 DEF TurnsTo
      <4> QED
        BY <3>1, <4>1
    <3>6. CASE t.rc = 0 /\ t.token.type = "STRING"
      <4>1. NextEntry(x, n, strict, most) = Reader(t, x.names, FALSE, STOP)
        BY <1>1, <1>3, <1>5, <1>8, <3>2, <3>6 DEF TurnsTo
      <4> QED
        BY <3>1, <4>1
    <3>7. CASE t.rc = 0 /\ ~ (t.token.type = "STRING")
      <4>1. \/ NextEntry(x, n, strict, most) = Reader(t, x.names, FALSE, -WERR_PARSE_DATABASE)
            \/ NextEntry(x, n, strict, most) = Reader(t, x.names, TRUE, x.rc)
        BY <1>1, <1>3, <1>5, <1>8, <3>7 DEF TurnsTo
      <4> QED
        BY <1>1, <3>1, <4>1
    <3> QED
      BY <3>3, <3>4, <3>5, <3>6, <3>7
  <2> QED
    BY <1>1, <2>1, ReaderType
<1> QED
  BY <1>1, <1>6, <1>7, <1>8

\* The n tokens of an entry.
LEMMA TheTokens ==
  ASSUME NEW r, NEW n, NEW strict, IsNameList(r, n, strict),
         NEW pos \in Nat, NEW token \in Tokens(Characters)
  PROVE  \E t \in [0..n -> Results(Characters)] :
           /\ TokenRun(t, n, pos, token) /\ NextTokens(n, pos, token) = t[n]
           /\ t[1] = radiolist_parse_token(api_chunk, Len(r.text), pos, token)
           /\ t[n].rc \in {0, 1, -8} /\ t[n].token \in Tokens(Characters) /\ t[n].pos \in Nat
<1>1. /\ Holds(api_chunk, api_chunk_write_pos, r.text, Characters) /\ api_chunk_write_pos \in Nat
      /\ n \in 1..4 /\ api_chunk_write_pos = Len(r.text)
  BY SourceFacts DEF IsNameList
<1>2. n \in Nat /\ n \in 0..n /\ 1 \in 1..n
  BY <1>1
<1>3. HasRun(Characters, n, pos, token)
  BY <1>1, <1>2, TokensRun
<1>4. PICK t \in [0..n -> Results(Characters)] :
        TokenRun(t, n, pos, token) /\ NextTokens(n, pos, token) = t[n]
  BY <1>3 DEF HasRun
<1>5. t[1] = TokenAfter(t[0]) /\ t[0] = [pos |-> pos, token |-> token, rc |-> 0]
  BY <1>2, <1>4 DEF TokenRun
<1>6. t[1] = radiolist_parse_token(api_chunk, Len(r.text), pos, token)
  BY <1>1, <1>5 DEF TokenAfter, NextToken
<1>7. t[n] \in Results(Characters)
  BY <1>2, <1>4
<1> QED
  BY <1>4, <1>6, <1>7 DEF Results, WERR_PARSE_DATABASE

LEMMA NamesSeq ==
  ASSUME NEW r, NEW n, NEW strict, IsNameList(r, n, strict), NEW i \in 0..Len(r.rows)
  PROVE  /\ Len(NamesOf(r, n, i)) = i
         /\ i > 0 => NamesOf(r, n, i) = Append(NamesOf(r, n, i - 1), r.rows[i][n].str)
<1> DEFINE V == {r.rows[k][n].str : k \in 1..Len(r.rows)}
<1>1. Len(r.rows) \in Nat
  BY SourceFacts DEF IsNameList
<1>2. \A m \in 0..Len(r.rows) : NamesOf(r, n, m) \in [1..m -> V]
  <2>1. \A m \in 0..Len(r.rows) : \A k \in 1..m : k \in 1..Len(r.rows)
    BY <1>1
  <2> QED
    BY <2>1 DEF NamesOf
<1>3. \A k \in 1..Len(r.rows) : r.rows[k][n].str \in V
  OBVIOUS
<1> HIDE DEF V
<1>4. \A m \in 0..Len(r.rows) : NamesOf(r, n, m) \in Seq(V) /\ Len(NamesOf(r, n, m)) = m
  BY <1>1, <1>2
<1>5. \A m \in 0..Len(r.rows) : \A k \in 1..m : NamesOf(r, n, m)[k] = r.rows[k][n].str
  BY DEF NamesOf
<1>6. ASSUME i > 0 PROVE NamesOf(r, n, i) = Append(NamesOf(r, n, i - 1), r.rows[i][n].str)
  <2>1. PICK s \in Seq(V) : s = NamesOf(r, n, i) /\ Len(s) = i
    BY <1>4
  <2>2. i - 1 \in 0..Len(r.rows) /\ i \in 1..Len(r.rows) /\ i \in Nat
    BY <1>1, <1>6
  <2>3. PICK u \in Seq(V) : u = NamesOf(r, n, i - 1) /\ Len(u) = i - 1
    BY <1>4, <2>2
  <2>4. PICK v \in V : v = r.rows[i][n].str
    BY <1>3, <2>2
  <2>5. Append(u, v) \in Seq(V) /\ Len(Append(u, v)) = i
    BY <2>2, <2>3
  <2>6. ASSUME NEW k \in 1..i PROVE s[k] = Append(u, v)[k]
    <3>1. s[k] = r.rows[k][n].str
      BY <1>5, <2>1
    <3>2. CASE k = i
      BY <2>3, <2>4, <3>1, <3>2
    <3>3. CASE k # i
      <4>1. k \in 1..(i - 1)
        BY <3>3
      <4>2. u[k] = r.rows[k][n].str
        BY <1>5, <2>2, <2>3, <4>1
      <4>3. Append(u, v)[k] = u[k]
        BY <2>3, <4>1
      <4> QED
        BY <3>1, <4>2, <4>3
    <3> QED
      BY <3>2, <3>3
  <2>7. s = Append(u, v)
    BY <2>1, <2>5, <2>6, SameSequence
  <2> QED
    BY <2>1, <2>3, <2>4, <2>7
<1> QED
  BY <1>4, <1>6

\* Behind the last field of a row is the next row, or the end.
LEMMA BehindRow ==
  ASSUME NEW r, NEW n, NEW strict, IsNameList(r, n, strict), NEW most \in Nat,
         NEW i \in 1..Len(r.rows), i <= most, NEW x, x.names = NamesOf(r, n, i),
         x.pos = FieldEnd(r.rows[i][Len(r.rows[i])])
  PROVE  AtRow(x, r, n, most) \/ AtEnd(x, r, n, most)
<1>1. r \in Sources /\ r.rows # << >> /\ Len(r.rows) \in Nat /\ Len(r.text) \in Nat /\ Len(r.text) <= Len(r.text)
  <2>1. r \in Sources /\ r.rows # << >>
    BY DEF IsNameList
  <2>2. Len(r.rows) \in Nat /\ Len(r.text) \in Nat
    BY <2>1, SourceFacts
  <2> QED
    BY <2>1, <2>2
<1>2. PICK j \in 1..Len(r.rows[i]) : j = Len(r.rows[i])
  BY <1>1, RowLength
<1>3. x.pos = FieldEnd(r.rows[i][j]) /\ FieldEnd(r.rows[i][j]) \in Nat
  BY <1>1, <1>2, FieldFacts
<1>4. x.pos \in Nat /\ FieldEnd(r.rows[i][j]) <= x.pos /\ x.pos <= NextAt(r, i, j)
  BY <1>1, <1>3, Behind
<1>5. /\ i < Len(r.rows) => Leads(r.text, Len(r.text), x.pos, r.rows[i + 1][1])
      /\ i = Len(r.rows) => \A q \in (x.pos + 1)..Len(r.text) : r.text[q] \in Separators
  BY <1>1, <1>2, <1>4, LeadsOn
<1>6. CASE i < Len(r.rows)
  <2>1. PICK m \in 1..Len(r.rows) : m = i + 1 /\ m - 1 = i
    BY <1>1, <1>6
  <2> QED
    BY <1>5, <1>6, <2>1 DEF AtRow
<1>7. CASE i = Len(r.rows)
  BY <1>5, <1>7 DEF AtEnd
<1> QED
  BY <1>1, <1>6, <1>7

\* A reader that ends, or goes on behind where it was.
Advances(x, y, r, n, most) ==
  IsOver(y, r, n, most) \/ (GoesOn(y, r, n, most) /\ x.pos < y.pos)

LEMMA RowTurn ==
  ASSUME NEW r, NEW n, NEW strict, IsNameList(r, n, strict), NEW most \in Nat,
         NEW x, GoesOn(x, r, n, most), AtRow(x, r, n, most)
  PROVE  Advances(x, NextEntry(x, n, strict, most), r, n, most)
<1>1. /\ r \in Sources /\ r.rows # << >> /\ n \in 1..4 /\ strict \in BOOLEAN
      /\ api_chunk_write_pos = Len(r.text) /\ Holds(api_chunk, api_chunk_write_pos, r.text, Characters)
  BY DEF IsNameList
<1>2. Len(r.rows) \in Nat /\ Len(r.text) \in Nat /\ api_chunk_write_pos \in 0..Len(r.text)
  <2>1. Len(r.rows) \in Nat /\ Len(r.text) \in Nat
    BY <1>1, SourceFacts
  <2> QED
    BY <1>1, <2>1
<1>3. PICK i \in 1..Len(r.rows) : /\ x.names = NamesOf(r, n, i - 1) /\ i - 1 <= most
                                  /\ Leads(r.text, Len(r.text), x.pos, r.rows[i][1])
  BY DEF AtRow
<1>4. x.more /\ x.rc = 0 /\ x.token \in Tokens(Characters) /\ x.pos \in Nat
  BY <1>2 DEF GoesOn
<1>5. /\ n \in 1..Len(r.rows[i]) /\ r.rows[i][n].type = "STRING"
      /\ \A j \in 1..Len(r.rows[i]) : Whole(r.rows[i][j], Len(r.text))
      /\ n # 1 => Len(r.rows[i]) = n
  BY <1>3 DEF IsNameList
<1>6. PICK t \in [0..n -> Results(Characters)] :
        /\ TokenRun(t, n, x.pos, x.token) /\ NextTokens(n, x.pos, x.token) = t[n]
        /\ t[n].rc \in {0, 1, -8} /\ t[n].token \in Tokens(Characters) /\ t[n].pos \in Nat
  BY <1>4, TheTokens
<1>7. n \in 1..n /\ (\A j \in 1..n : j \in 1..Len(r.rows[i])) /\ \A j \in 1..n : \A k \in 1..j : k \in 1..n
  <2>1. Len(r.rows[i]) \in 1..4
    BY <1>1, <1>3, RowLength
  <2>2. \A j \in 1..n : j \in 1..Len(r.rows[i])
    BY <1>1, <1>5, <2>1
  <2>3. n \in 1..n /\ \A j \in 1..n : \A k \in 1..j : k \in 1..n
    BY <1>1
  <2> QED
    BY <2>2, <2>3
<1>8. ReadsAs(t[n], r.rows[i][n], t[n - 1].token)
  <2>1. Leads(r.text, api_chunk_write_pos, x.pos, r.rows[i][1])
    BY <1>1, <1>3
  <2>2. \A j \in 1..n : Whole(r.rows[i][j], api_chunk_write_pos)
    BY <1>1, <1>5, <1>7
  <2>3. \A j \in 1..n : ReadsAs(t[j], r.rows[i][j], t[j - 1].token)
                        \/ \E k \in 1..j : ~ Whole(r.rows[i][k], api_chunk_write_pos)
    BY <1>1, <1>2, <1>3, <1>4, <1>5, <1>6, <2>1, <2>2, ReadsRow, ZenonT(30)
  <2> QED
    BY <1>7, <2>2, <2>3
<1>9. /\ t[n].rc = 0 /\ t[n].token.type = "STRING" /\ t[n].token.str = r.rows[i][n].str
      /\ t[n].pos = FieldEnd(r.rows[i][n])
  BY <1>5, <1>8 DEF ReadsAs
<1>10. /\ FieldEnd(r.rows[i][n]) \in Nat /\ FieldEnd(r.rows[i][n]) <= Len(r.text)
       /\ x.pos < FieldEnd(r.rows[i][n])
  <2>1. 1 \in 1..Len(r.rows[i])
    BY <1>1, <1>3, RowLength
  <2>2. /\ FieldEnd(r.rows[i][n]) \in Nat /\ FieldEnd(r.rows[i][n]) <= Len(r.text)
        /\ r.rows[i][1].at \in Nat
    BY <1>1, <1>3, <1>5, <2>1, FieldFacts
  <2>3. r.rows[i][1].at < FieldEnd(r.rows[i][n])
    <3>1. CASE n = 1
      BY <1>1, <1>3, <1>5, <3>1, FieldFacts
    <3>2. CASE n # 1
      BY <1>1, <1>3, <1>5, <3>2, InRow
    <3> QED
      BY <3>1, <3>2
  <2>4. x.pos <= r.rows[i][1].at
    BY <1>3 DEF Leads
  <2> QED
    BY <1>4, <2>2, <2>3, <2>4
<1>11. PICK m \in 0..Len(r.rows) : m = i - 1 /\ i \in 0..Len(r.rows) /\ i > 0 /\ i = m + 1
  BY <1>2, <1>3
<1>12. Len(x.names) = m /\ NamesOf(r, n, i) = Append(x.names, r.rows[i][n].str)
  <2>1. Len(NamesOf(r, n, m)) = m
    BY NamesSeq
  <2>2. NamesOf(r, n, i) = Append(NamesOf(r, n, i - 1), r.rows[i][n].str)
    BY <1>11, NamesSeq
  <2> QED
    BY <1>3, <1>11, <2>1, <2>2
<1>13. PICK y : y = NextEntry(x, n, strict, most)
  OBVIOUS
<1>14. TurnsTo(x, strict, most, t[n], y)
  <2>1. Len(x.names) \in Nat
    BY <1>2, <1>11, <1>12
  <2>2. PICK u : u = t[n]
    OBVIOUS
  <2>3. u = NextTokens(n, x.pos, x.token) /\ u.rc \in {0, 1, -8}
    BY <1>6, <2>2
  <2>4. TurnsTo(x, strict, most, u, NextEntry(x, n, strict, most))
    BY <1>1, <1>4, <2>1, <2>3, Turns
  <2> QED
    BY <1>13, <2>2, <2>4
<1>15. CASE m < most
  <2>1. y = Reader(t[n], Append(x.names, t[n].token.str), TRUE, x.rc)
    BY <1>9, <1>12, <1>14, <1>15 DEF TurnsTo
  <2>2. y.pos = t[n].pos /\ y.token = t[n].token /\ y.names = NamesOf(r, n, i) /\ y.more /\ y.rc = 0
    BY <1>4, <1>9, <1>12, <2>1 DEF Reader
  <2>3. i <= most /\ y.pos \in 0..Len(r.text) /\ x.pos < y.pos
    <3>1. i <= most
      BY <1>11, <1>15
    <3>2. PICK e \in Nat : e = FieldEnd(r.rows[i][n]) /\ e <= Len(r.text) /\ x.pos < e
      BY <1>10
    <3>3. y.pos = e
      BY <1>9, <2>2, <3>2
    <3>4. e \in 0..Len(r.text)
      BY <1>2, <3>2
    <3> QED
      BY <3>1, <3>2, <3>3, <3>4
  <2>4. AtRow(y, r, n, most) \/ AtNumber(y, r, n, most) \/ AtEnd(y, r, n, most)
    <3>1. CASE n = 1
      BY <1>9, <2>2, <2>3, <3>1 DEF AtNumber
    <3>2. CASE n # 1
      BY <1>5, <1>9, <2>2, <2>3, <3>2, BehindRow
    <3> QED
      BY <3>1, <3>2
  <2>5. GoesOn(y, r, n, most)
    BY <1>6, <2>2, <2>3, <2>4 DEF GoesOn
  <2> QED
    BY <1>13, <2>3, <2>5 DEF Advances
<1>16. CASE m = most
  <2>1. y = Reader(t[n], x.names, FALSE, STOP)
    BY <1>9, <1>12, <1>14, <1>16 DEF TurnsTo
  <2>2. y.names = x.names /\ ~ y.more /\ y.rc = STOP
    BY <2>1 DEF Reader
  <2>3. Len(r.rows) > most /\ Least(Len(r.rows), most) = m
    BY <1>2, <1>11, <1>16 DEF Least
  <2>4. IsOver(y, r, n, most)
    BY <1>3, <1>11, <2>2, <2>3 DEF IsOver
  <2> QED
    BY <1>13, <2>4 DEF Advances
<1> QED
  BY <1>2, <1>3, <1>11, <1>15, <1>16

LEMMA NumberTurn ==
  ASSUME NEW r, NEW n, NEW strict, IsNameList(r, n, strict), NEW most \in Nat,
         NEW x, GoesOn(x, r, n, most), AtNumber(x, r, n, most)
  PROVE  Advances(x, NextEntry(x, n, strict, most), r, n, most)
<1>1. /\ r \in Sources /\ r.rows # << >> /\ n = 1 /\ strict \in BOOLEAN
      /\ Holds(api_chunk, Len(r.text), r.text, Characters)
  BY DEF IsNameList, AtNumber
<1>2. Len(r.rows) \in Nat /\ Len(r.text) \in Nat /\ Len(r.text) \in 0..Len(r.text)
  <2>1. Len(r.rows) \in Nat /\ Len(r.text) \in Nat
    BY <1>1, SourceFacts
  <2> QED
    BY <2>1
<1>3. PICK i \in 1..Len(r.rows) : /\ x.names = NamesOf(r, n, i) /\ i <= most
                                  /\ x.pos = FieldEnd(r.rows[i][1])
  BY DEF AtNumber
<1>4. x.more /\ x.rc = 0 /\ x.token \in Tokens(Characters) /\ x.pos \in Nat
  BY <1>2 DEF GoesOn
<1>5. /\ ~ strict /\ Len(r.rows[i]) = 2 /\ r.rows[i][2].type = "NUMBER"
      /\ \A j \in 1..Len(r.rows[i]) : Whole(r.rows[i][j], Len(r.text))
  BY <1>1, <1>3 DEF IsNameList
<1>6. 1 \in 1..Len(r.rows[i]) /\ 2 \in 1..Len(r.rows[i]) /\ 1 < Len(r.rows[i])
  BY <1>5
<1>7. PICK t \in [0..n -> Results(Characters)] :
        /\ NextTokens(n, x.pos, x.token) = t[n]
        /\ t[1] = radiolist_parse_token(api_chunk, Len(r.text), x.pos, x.token)
        /\ t[n].rc \in {0, 1, -8} /\ t[n].token \in Tokens(Characters) /\ t[n].pos \in Nat
  BY <1>4, TheTokens
<1>8. /\ FieldEnd(r.rows[i][1]) <= x.pos /\ x.pos <= NextAt(r, i, 1)
      /\ NextAt(r, i, 1) = r.rows[i][1 + 1].at
  BY <1>1, <1>3, <1>4, <1>6, Behind, SMTT(30)
<1>9. Leads(r.text, Len(r.text), x.pos, r.rows[i][2])
  <2>1. Leads(r.text, Len(r.text), x.pos, r.rows[i][1 + 1])
    BY <1>1, <1>2, <1>3, <1>4, <1>6, <1>8, LeadsOn
  <2> QED
    BY <2>1
<1>10. PICK u : u = t[1] /\ u = t[n]
  BY <1>1
<1>11. ReadsAs(u, r.rows[i][2], x.token)
  <2>1. u = radiolist_parse_token(api_chunk, Len(r.text), x.pos, x.token)
    BY <1>7, <1>10
  <2>2. Whole(r.rows[i][2], Len(r.text))
    BY <1>5, <1>6
  <2> QED
    BY <1>1, <1>2, <1>3, <1>4, <1>6, <1>9, <2>1, <2>2, ReadsField
<1>12. u.rc = 0 /\ u.token.type = "NUMBER" /\ u.pos = FieldEnd(r.rows[i][2])
  BY <1>5, <1>11 DEF ReadsAs
<1>13. /\ FieldEnd(r.rows[i][2]) \in Nat /\ FieldEnd(r.rows[i][2]) <= Len(r.text)
       /\ r.rows[i][2].at < FieldEnd(r.rows[i][2]) /\ r.rows[i][2].at \in Nat
  BY <1>1, <1>3, <1>6, FieldFacts
<1>14. PICK y : y = NextEntry(x, n, strict, most)
  OBVIOUS
<1>15. TurnsTo(x, strict, most, u, y)
  <2>1. i \in 0..Len(r.rows)
    BY <1>2, <1>3
  <2>2. Len(x.names) = i
    BY <1>3, <2>1, NamesSeq
  <2>3. Len(x.names) \in Nat
    BY <1>2, <1>3, <2>2
  <2>4. u = NextTokens(n, x.pos, x.token) /\ u.rc \in {0, 1, -8}
    BY <1>7, <1>10
  <2>5. TurnsTo(x, strict, most, u, NextEntry(x, n, strict, most))
    BY <1>1, <1>4, <2>3, <2>4, Turns
  <2> QED
    BY <1>14, <2>5
<1>16. y = Reader(u, x.names, TRUE, x.rc)
  BY <1>5, <1>12, <1>15 DEF TurnsTo
<1>17. y.pos = u.pos /\ y.token = u.token /\ y.names = x.names /\ y.more /\ y.rc = 0
  BY <1>4, <1>16 DEF Reader
<1>18. y.pos \in 0..Len(r.text) /\ x.pos < y.pos
  <2>1. x.pos <= r.rows[i][2].at
    BY <1>8
  <2> QED
    BY <1>2, <1>4, <1>12, <1>13, <1>17, <2>1
<1>19. AtRow(y, r, n, most) \/ AtEnd(y, r, n, most)
  BY <1>3, <1>5, <1>12, <1>17, BehindRow
<1>20. GoesOn(y, r, n, most)
  BY <1>7, <1>10, <1>17, <1>18, <1>19 DEF GoesOn
<1> QED
  BY <1>14, <1>18, <1>20 DEF Advances

\* The end of the list stays the end.
LEMMA StaysAtEnd ==
  ASSUME NEW n \in Nat, NEW m \in 1..n, NEW pos, NEW token,
         NEW t \in [0..n -> Results(Characters)], TokenRun(t, n, pos, token), t[m].rc = 1
  PROVE  t[n].rc = 1
<1> DEFINE P == {j \in m..n : t[j].rc = 1}
<1>1. m \in P
  OBVIOUS
<1>2. ASSUME NEW j \in (m + 1)..n, j - 1 \in P PROVE j \in P
  <2>1. PICK h \in m..n : h = j - 1 /\ j \in m..n /\ j \in 1..n
    OBVIOUS
  <2>2. t[j] = TokenAfter(t[h]) /\ t[h].rc = 1
    BY <1>2, <2>1 DEF TokenRun
  <2>3. t[j] = t[h]
    BY <2>2 DEF TokenAfter
  <2> QED
    BY <2>1, <2>2, <2>3
<1> HIDE DEF P
<1>3. \A j \in m..n : j \in P
  <2>1. m \in Nat
    OBVIOUS
  <2> QED
    BY <1>1, <1>2, <2>1, Upward
<1> QED
  BY <1>3 DEF P

LEMMA EndTurn ==
  ASSUME NEW r, NEW n, NEW strict, IsNameList(r, n, strict), NEW most \in Nat,
         NEW x, GoesOn(x, r, n, most), AtEnd(x, r, n, most)
  PROVE  Advances(x, NextEntry(x, n, strict, most), r, n, most)
<1>1. /\ r \in Sources /\ r.rows # << >> /\ n \in 1..4 /\ strict \in BOOLEAN
      /\ Holds(api_chunk, Len(r.text), r.text, Characters) /\ api_chunk_write_pos = Len(r.text)
  BY DEF IsNameList
<1>2. Len(r.rows) \in Nat /\ Len(r.text) \in Nat
  BY <1>1, SourceFacts
<1>3. x.names = NamesOf(r, n, Len(r.rows)) /\ Len(r.rows) <= most
      /\ \A q \in (x.pos + 1)..Len(r.text) : r.text[q] \in Separators
  BY DEF AtEnd
<1>4. x.more /\ x.rc = 0 /\ x.token \in Tokens(Characters) /\ x.pos \in Nat
  BY <1>2 DEF GoesOn
<1>5. PICK t \in [0..n -> Results(Characters)] :
        /\ TokenRun(t, n, x.pos, x.token) /\ NextTokens(n, x.pos, x.token) = t[n]
        /\ t[1] = radiolist_parse_token(api_chunk, Len(r.text), x.pos, x.token)
        /\ t[n].rc \in {0, 1, -8} /\ t[n].token \in Tokens(Characters) /\ t[n].pos \in Nat
  BY <1>4, TheTokens
<1>6. FindsNothing(t[1], x.pos, Len(r.text))
  <2>1. PICK u : u = t[1] /\ u = radiolist_parse_token(api_chunk, Len(r.text), x.pos, x.token)
    BY <1>5
  <2>2. FindsNothing(u, x.pos, Len(r.text))
    BY <1>1, <1>2, <1>3, <1>4, <2>1, OnlySeparators
  <2> QED
    BY <2>1, <2>2
<1>7. n \in Nat /\ 1 \in 1..n
  BY <1>1
<1>8. \/ t[n].rc = 1
      \/ n = 1 /\ t[n].rc = 0 /\ t[n].token.type = "UNKNOWN" /\ t[n].pos = Len(r.text) /\ x.pos < Len(r.text)
  <2>1. CASE t[1].rc = 1
    BY <1>5, <1>7, <2>1, StaysAtEnd
  <2>2. CASE t[1].rc # 1 /\ n = 1
    BY <1>6, <2>2 DEF FindsNothing
  <2>3. CASE t[1].rc # 1 /\ n # 1
    <3>1. 2 \in 1..n /\ 2 - 1 = 1
      BY <1>1, <2>3
    <3>2. t[2] = TokenAfter(t[1])
      BY <1>5, <3>1 DEF TokenRun
    <3>3. t[1].rc = 0 /\ t[1].pos = Len(r.text)
      BY <1>6, <2>3 DEF FindsNothing
    <3>4. t[2] = radiolist_parse_token(api_chunk, Len(r.text), Len(r.text), t[1].token)
      BY <1>1, <3>2, <3>3 DEF TokenAfter, NextToken
    <3>5. t[2].rc = 1
      BY <1>2, <3>4 DEF radiolist_parse_token
    <3> QED
      BY <1>5, <1>7, <3>1, <3>5, StaysAtEnd
  <2> QED
    BY <2>1, <2>2, <2>3
<1>9. PICK y : y = NextEntry(x, n, strict, most)
  OBVIOUS
<1>10. TurnsTo(x, strict, most, t[n], y)
  <2>1. Len(r.rows) \in 0..Len(r.rows)
    BY <1>2
  <2>2. Len(x.names) = Len(r.rows)
    BY <1>3, <2>1, NamesSeq
  <2>3. Len(x.names) \in Nat
    BY <1>2, <2>2
  <2>4. PICK u : u = t[n]
    OBVIOUS
  <2>5. u = NextTokens(n, x.pos, x.token) /\ u.rc \in {0, 1, -8}
    BY <1>5, <2>4
  <2>6. TurnsTo(x, strict, most, u, NextEntry(x, n, strict, most))
    BY <1>1, <1>4, <2>3, <2>5, Turns
  <2> QED
    BY <1>9, <2>4, <2>6
<1>11. CASE t[n].rc = 1
  <2>1. y = Reader(t[n], x.names, FALSE, x.rc)
    BY <1>10, <1>11 DEF TurnsTo
  <2>2. y.names = x.names /\ ~ y.more /\ y.rc = 0
    BY <1>4, <2>1 DEF Reader
  <2>3. ~ (Len(r.rows) > most) /\ Least(Len(r.rows), most) = Len(r.rows)
    BY <1>2, <1>3 DEF Least
  <2>4. IsOver(y, r, n, most)
    BY <1>3, <2>2, <2>3 DEF IsOver
  <2> QED
    BY <1>9, <2>4 DEF Advances
<1>12. CASE n = 1 /\ t[n].rc = 0 /\ t[n].token.type = "UNKNOWN" /\ t[n].pos = Len(r.text) /\ x.pos < Len(r.text)
  <2>1. ~ strict
    <3>1. 1 \in 1..Len(r.rows)
      BY <1>1, BeforeRows
    <3> QED
      BY <1>12, <3>1 DEF IsNameList
  <2>2. y = Reader(t[n], x.names, TRUE, x.rc)
    BY <1>10, <1>12, <2>1 DEF TurnsTo
  <2>3. y.pos = Len(r.text) /\ y.token = t[n].token /\ y.names = x.names /\ y.more /\ y.rc = 0
    BY <1>4, <1>12, <2>2 DEF Reader
  <2>4. y.pos \in 0..Len(r.text) /\ \A q \in (y.pos + 1)..Len(r.text) : r.text[q] \in Separators
    BY <1>2, <2>3
  <2>5. AtEnd(y, r, n, most)
    BY <1>3, <2>3, <2>4 DEF AtEnd
  <2>6. GoesOn(y, r, n, most)
    BY <1>5, <2>3, <2>4, <2>5 DEF GoesOn
  <2> QED
    BY <1>9, <1>12, <2>3, <2>6 DEF Advances
<1> QED
  BY <1>8, <1>11, <1>12

\* The loop of a reader of names.
Loop(turn, g, n, strict, most, last) ==
  /\ turn[0] = Reader([pos |-> 0, token |-> Unset(g)], << >>, TRUE, 0)
  /\ \A i \in 1..last : turn[i] = NextEntry(turn[i - 1], n, strict, most)

\* What the loop ends with.
LEMMA LoopEnds ==
  ASSUME NEW r, NEW n, NEW strict, IsNameList(r, n, strict), NEW most \in Nat, most >= 0,
         NEW g \in Leftovers, NEW last, last = Len(r.text) + 1,
         NEW turn, Loop(turn, g, n, strict, most, last)
  PROVE  IsOver(turn[last], r, n, most)
<1>1. /\ r \in Sources /\ r.rows # << >> /\ Len(r.text) \in Nat /\ last \in Nat
  <2>1. r \in Sources /\ r.rows # << >>
    BY DEF IsNameList
  <2>2. Len(r.text) \in Nat
    BY <2>1, SourceFacts
  <2> QED
    BY <2>1, <2>2
<1> DEFINE P == {k \in 0..last : \/ IsOver(turn[k], r, n, most)
                                 \/ GoesOn(turn[k], r, n, most) /\ k <= turn[k].pos}
<1>2. 0 \in P
  <2>1. PICK x : x = turn[0]
    OBVIOUS
  <2>2. x = Reader([pos |-> 0, token |-> Unset(g)], << >>, TRUE, 0)
    BY <2>1 DEF Loop
  <2>3. x.pos = 0 /\ x.token = Unset(g) /\ x.names = << >> /\ x.more /\ x.rc = 0
    BY <2>2 DEF Reader
  <2>4. 1 \in 1..Len(r.rows) /\ Leads(r.text, Len(r.text), 0, r.rows[1][1]) /\ 1 - 1 = 0
    BY <1>1, BeforeRows
  <2>5. NamesOf(r, n, 0) = << >>
    BY DEF NamesOf
  <2>6. AtRow(x, r, n, most)
    BY <2>3, <2>4, <2>5 DEF AtRow
  <2>7. x.pos \in 0..Len(r.text) /\ x.token \in Tokens(Characters)
    BY <1>1, <2>3, UnsetType
  <2>8. GoesOn(x, r, n, most)
    BY <2>3, <2>6, <2>7 DEF GoesOn
  <2>9. 0 <= x.pos /\ 0 \in 0..last
    BY <1>1, <2>3
  <2> QED
    BY <2>1, <2>8, <2>9
<1>3. ASSUME NEW k \in (0 + 1)..last, k - 1 \in P PROVE k \in P
  <2>1. PICK h \in 0..last : h = k - 1 /\ k \in 1..last /\ k \in 0..last /\ k = h + 1 /\ h \in Nat
    BY <1>1
  <2>2. PICK x, y : x = turn[h] /\ y = turn[k]
    OBVIOUS
  <2>3. y = NextEntry(x, n, strict, most)
    BY <2>1, <2>2 DEF Loop
  <2>4. IsOver(x, r, n, most) \/ (GoesOn(x, r, n, most) /\ h <= x.pos)
    BY <1>3, <2>1, <2>2
  <2>5. CASE IsOver(x, r, n, most)
    <3>1. ~ x.more
      BY <2>5 DEF IsOver
    <3>2. y = x
      BY <2>3, <3>1 DEF NextEntry
    <3> QED
      BY <2>1, <2>2, <2>5, <3>2
  <2>6. CASE GoesOn(x, r, n, most) /\ h <= x.pos
    <3>1. Advances(x, y, r, n, most)
      BY <2>3, <2>6, RowTurn, NumberTurn, EndTurn DEF GoesOn
    <3>2. CASE IsOver(y, r, n, most)
      BY <2>1, <2>2, <3>2
    <3>3. CASE GoesOn(y, r, n, most) /\ x.pos < y.pos
      <4>1. x.pos \in Nat /\ y.pos \in Nat
        BY <1>1, <2>6, <3>3 DEF GoesOn
      <4>2. k <= y.pos
        BY <2>1, <2>6, <3>3, <4>1
      <4> QED
        BY <2>1, <2>2, <3>3, <4>2
    <3> QED
      BY <3>1, <3>2, <3>3 DEF Advances
  <2> QED
    BY <2>4, <2>5, <2>6
<1> HIDE DEF P
<1>4. \A k \in 0..last : k \in P
  BY <1>1, <1>2, <1>3, Upward
<1>5. last \in 0..last
  BY <1>1
<1>6. \/ IsOver(turn[last], r, n, most)
      \/ GoesOn(turn[last], r, n, most) /\ last <= turn[last].pos
  BY <1>4, <1>5 DEF P
<1>7. ~ (GoesOn(turn[last], r, n, most) /\ last <= turn[last].pos)
  <2> SUFFICES ASSUME GoesOn(turn[last], r, n, most), last <= turn[last].pos PROVE FALSE
    OBVIOUS
  <2>1. turn[last].pos \in 0..Len(r.text)
    BY DEF GoesOn
  <2> QED
    BY <1>1, <2>1
<1> QED
  BY <1>6, <1>7

\* What a reader of names answers is what its loop ends with.
LEMMA AnswersLoop ==
  ASSUME ChunkIsTheReply, NEW call, NEW n \in Nat, NEW strict \in BOOLEAN,
         ReadNames(call, api_current, n, strict)
  PROVE  \E g \in Leftovers, most \in Nat : \E turn :
           /\ Loop(turn, g, n, strict, most, api_chunk_write_pos + 1)
           /\ ret'.call = call /\ ret'.index = most
           /\ ret'.names = turn[api_chunk_write_pos + 1].names
           /\ ret'.rc = turn[api_chunk_write_pos + 1].rc
<1>1. PICK r \in Sources : IsReply(r)
  BY HoldsReply
<1> DEFINE last == api_chunk_write_pos + 1
<1>2. last \in Nat /\ 0 <= last
  BY <1>1, SourceFacts DEF IsReply
<1> DEFINE Start(g) == Reader([pos |-> 0, token |-> Unset(g)], << >>, TRUE, 0)
           Found(f, g, most) == f = [i \in 0..last |-> IF i = 0 THEN Start(g)
                                             ELSE NextEntry(f[i - 1], n, strict, most)]
           best(g, most) == CHOOSE f : Found(f, g, most)
<1>3. \E g \in Leftovers, most \in {1, ChunkSize} :
        ret' = [call |-> call, index |-> most, rc |-> best(g, most)[last].rc,
                names |-> best(g, most)[last].names]
  BY Zenon DEF ReadNames
<1> HIDE DEF best, last
<1>4. PICK g \in Leftovers, most \in {1, ChunkSize} :
        ret' = [call |-> call, index |-> most, rc |-> best(g, most)[last].rc,
                names |-> best(g, most)[last].names]
  BY <1>3, Zenon
<1>5. most \in Nat
  BY BoundsAssumption
<1> DEFINE S == Readers(most)
           s == Start(g)
           Step(x) == NextEntry(x, n, strict, most)
           F == [kx \in (0..last) \X S |-> Step(kx[2])]
<1>6. s \in S
  <2>1. Unset(g) \in Tokens(Characters)
    BY UnsetType
  <2>2. << >> \in Seq(Seq(Characters)) /\ Len(<< >>) = 0 /\ 0 \in Int /\ 0 \in Nat /\ 0 <= most
    BY <1>5
  <2>3. PICK none : none = << >> /\ none \in Seq(Seq(Characters)) /\ Len(none) <= most
    BY <2>2
  <2> QED
    BY <2>1, <2>2, <2>3 DEF Reader, Readers
<1>7. ASSUME NEW x \in S PROVE Step(x) \in S
  BY <1>5, EntryType
<1> HIDE DEF S, s, Step, Start
<1>8. F \in [(0..last) \X S -> S]
  <2>1. \A kx \in (0..last) \X S : kx[2] \in S
    OBVIOUS
  <2> QED
    BY <1>7, <2>1
<1>9. \A k \in 0..last, x \in S : F[<<k, x>>] = Step(x)
  OBVIOUS
<1> HIDE DEF F
<1>10. PICK f \in [0..last -> S] : Recurs(f, F, s, 0, last)
  <2>1. 0 \in Nat
    OBVIOUS
  <2> QED
    BY <1>2, <1>6, <1>8, <2>1, Recursion
<1>11. f[0] = s /\ \A k \in 1..last : f[k] = Step(f[k - 1])
  <2>1. f[0] = s
    BY <1>10 DEF Recurs
  <2>2. ASSUME NEW k \in 1..last PROVE f[k] = Step(f[k - 1])
    <3>1. k - 1 \in 0..last /\ k \in 0..last /\ k \in (0 + 1)..last
      BY <1>2
    <3>2. f[k - 1] \in S
      BY <3>1
    <3>3. f[k] = F[<<k, f[k - 1]>>]
      BY <1>10, <3>1 DEF Recurs
    <3> QED
      BY <3>1, <3>2, <3>3, <1>9
  <2> QED
    BY <2>1, <2>2
<1>12. Found(f, g, most)
  <2>1. s = Start(g) /\ \A x : Step(x) = NextEntry(x, n, strict, most)
    BY DEF s, Step
  <2>2. \A k \in 0..last : k # 0 => k \in 1..last
    BY <1>2
  <2> QED
    BY <1>11, <2>1, <2>2
<1>13. Found(best(g, most), g, most)
  BY <1>12, Zenon DEF best
<1>14. PICK turn : turn = best(g, most)
  OBVIOUS
<1>15. Found(turn, g, most)
  BY <1>13, <1>14
<1>16. turn[0] = Start(g)
  <2>1. 0 \in 0..last
    BY <1>2
  <2> QED
    BY <1>15, <2>1
<1>17. \A i \in 1..last : turn[i] = NextEntry(turn[i - 1], n, strict, most)
  <2>1. \A i \in 1..last : i \in 0..last /\ i # 0
    OBVIOUS
  <2> QED
    BY <1>15, <2>1
<1>18. Loop(turn, g, n, strict, most, last)
  BY <1>16, <1>17 DEF Loop, Start
<1>19. ret'.call = call /\ ret'.index = most /\ ret'.names = turn[last].names /\ ret'.rc = turn[last].rc
  BY <1>4, <1>14
<1> QED
  BY <1>5, <1>18, <1>19 DEF last

LEMMA NameFields ==
  ASSUME NEW call \in NameCalls, NEW r \in Sources, r.api = ApiOf[call], r.rows # << >>,
         NEW i \in 1..Len(r.rows)
  PROVE  /\ FieldOf[call] \in 1..4 /\ FieldOf[call] \in 1..Len(r.rows[i])
         /\ r.rows[i][FieldOf[call]].type = "STRING"
         /\ call = "root_catalog" =>
              FieldOf[call] = 1 /\ Len(r.rows[i]) = 2 /\ r.rows[i][2].type = "NUMBER"
         /\ call # "root_catalog" => FieldOf[call] # 1 /\ Len(r.rows[i]) = FieldOf[call]
<1>1. Len(r.rows[i]) = Len(Shape[r.api])
      /\ \A j \in 1..Len(r.rows[i]) : r.rows[i][j].type = Shape[r.api][j]
  BY RowLength, FieldFacts
<1>2. CASE call = "root_catalog"
  <2>1. FieldOf[call] = 1 /\ Shape[r.api] = <<"STRING", "NUMBER">>
    BY <1>2 DEF FieldOf, ApiOf, Shape
  <2>2. Len(Shape[r.api]) = 2 /\ Shape[r.api][1] = "STRING" /\ Shape[r.api][2] = "NUMBER"
    BY <2>1
  <2>3. 1 \in 1..4 /\ 1 \in 1..2 /\ 2 \in 1..2
    OBVIOUS
  <2> QED
    BY <1>1, <1>2, <2>1, <2>2, <2>3
<1>3. CASE call = "channel"
  <2>1. FieldOf[call] = 4 /\ ApiOf[call] = "CHANNEL_ENTRY"
    BY <1>3 DEF FieldOf, ApiOf
  <2>2. Shape[r.api] = <<"NUMBER", "NUMBER", "STRING", "STRING">>
    BY <2>1 DEF Shape
  <2>3. Len(Shape[r.api]) = 4 /\ Shape[r.api][4] = "STRING"
    BY <2>2
  <2>4. 4 \in 1..4
    OBVIOUS
  <2> QED
    BY <1>1, <1>3, <2>1, <2>3, <2>4
<1>4. CASE call = "program"
  <2>1. FieldOf[call] = 3 /\ ApiOf[call] = "PROGRAM_LIST"
    BY <1>4 DEF FieldOf, ApiOf
  <2>2. Shape[r.api] = <<"TIME", "TIME", "STRING">>
    BY <2>1 DEF Shape
  <2>3. Len(Shape[r.api]) = 3 /\ Shape[r.api][3] = "STRING"
    BY <2>2
  <2>4. 3 \in 1..4 /\ 3 \in 1..3
    OBVIOUS
  <2> QED
    BY <1>1, <1>4, <2>1, <2>3, <2>4
<1> QED
  BY <1>2, <1>3, <1>4 DEF NameCalls

\* Every field of a list is read whole, when the text does not end behind a
\* number.
LEMMA AllWhole ==
  ASSUME NEW r \in Sources, r.rows # << >>,
         NEW i \in 1..Len(r.rows), NEW j \in 1..Len(r.rows[i]),
         j = Len(r.rows[i]) =>
           r.rows[i][j].type = "STRING" \/ (r.rows[i][j].type = "NUMBER" /\ r.text[Len(r.text)] = "LF")
  PROVE  Whole(r.rows[i][j], Len(r.text))
<1>1. PICK f : f = r.rows[i][j]
  OBVIOUS
<1>2. FieldEnd(f) \in Nat /\ f.at \in Nat /\ FieldEnd(f) <= Len(r.text) /\ f.at < FieldEnd(f)
      /\ Written(r.text, f)
  BY <1>1, FieldFacts
<1>3. Len(r.text) \in Nat /\ Len(r.rows[i]) \in 1..4
  BY SourceFacts, RowLength
<1>4. CASE j # Len(r.rows[i])
  <2>1. j < Len(r.rows[i])
    BY <1>3, <1>4
  <2>2. FieldEnd(f) < NextAt(r, i, j) /\ NextAt(r, i, j) <= Len(r.text) /\ NextAt(r, i, j) \in Nat
    BY <1>1, <2>1, Behind
  <2> QED
    BY <1>1, <1>2, <1>3, <2>2 DEF Whole
<1>5. CASE j = Len(r.rows[i]) /\ f.type = "STRING"
  BY <1>1, <1>2, <1>3, <1>5 DEF Whole
<1>6. CASE j = Len(r.rows[i]) /\ f.type = "NUMBER" /\ r.text[Len(r.text)] = "LF"
  <2>1. FieldEnd(f) = f.at + Len(f.digits) /\ f.digits \in Seq(DOMAIN Digits) /\ f.digits # << >>
        /\ HasDigits(r.text, f.at, f.digits)
    BY <1>2, <1>6 DEF FieldEnd, Written
  <2>2. Len(f.digits) \in 1..Len(f.digits) /\ f.digits[Len(f.digits)] \in DOMAIN Digits
    BY <2>1
  <2>3. r.text[FieldEnd(f)] \in DOMAIN Digits
    BY <2>1, <2>2 DEF HasDigits
  <2>4. "LF" \notin DOMAIN Digits
    BY DistinctChars DEF Separators
  <2>5. FieldEnd(f) # Len(r.text)
    BY <1>6, <2>3, <2>4
  <2> QED
    BY <1>1, <1>2, <1>3, <2>5 DEF Whole
<1> QED
  BY <1>1, <1>4, <1>5, <1>6

LEMMA NamesCanBeRead ==
  ASSUME NEW call \in NameCalls, NEW r, IsReply(r), api_current = ApiOf[call],
         fetched, r.rows # << >>, call = "root_catalog" => Closed
  PROVE  IsNameList(r, FieldOf[call], call # "root_catalog")
<1> DEFINE n == FieldOf[call]
<1>1. /\ r \in Sources /\ r.api = ApiOf[call] /\ api_chunk_write_pos = Len(r.text)
      /\ Holds(api_chunk, Len(r.text), r.text, Characters)
  BY DEF IsReply
<1>2. \A i \in 1..Len(r.rows) :
        /\ n \in 1..4 /\ n \in 1..Len(r.rows[i]) /\ r.rows[i][n].type = "STRING"
        /\ call = "root_catalog" => n = 1 /\ Len(r.rows[i]) = 2 /\ r.rows[i][2].type = "NUMBER"
        /\ call # "root_catalog" => n # 1 /\ Len(r.rows[i]) = n
  <2> SUFFICES ASSUME NEW i \in 1..Len(r.rows)
               PROVE  /\ n \in 1..4 /\ n \in 1..Len(r.rows[i]) /\ r.rows[i][n].type = "STRING"
                      /\ call = "root_catalog" => n = 1 /\ Len(r.rows[i]) = 2 /\ r.rows[i][2].type = "NUMBER"
                      /\ call # "root_catalog" => n # 1 /\ Len(r.rows[i]) = n
    BY Zenon
  <2>1. r.api = ApiOf[call] /\ r \in Sources
    BY <1>1
  <2> QED
    BY <2>1, NameFields
<1> HIDE DEF n
<1>3. 1 \in 1..Len(r.rows)
  BY <1>1, SourceFacts
<1>4. n \in 1..4
  BY <1>2, <1>3
<1>5. ASSUME call = "root_catalog" PROVE r.text[Len(r.text)] = "LF"
  <2>1. Len(r.text) \in 1..Len(r.text)
    <3>1. Len(r.rows[1]) \in 1..4
      BY <1>1, <1>3, RowLength
    <3>2. 1 \in 1..Len(r.rows[1])
      <4>1. \A m \in 1..4 : 1 \in 1..m
        OBVIOUS
      <4> QED
        BY <3>1, <4>1, Zenon
    <3>3. /\ FieldEnd(r.rows[1][1]) \in Nat /\ FieldEnd(r.rows[1][1]) <= Len(r.text)
          /\ r.rows[1][1].at \in Nat /\ r.rows[1][1].at < FieldEnd(r.rows[1][1])
      BY <1>1, <1>3, <3>2, FieldFacts
    <3>4. Len(r.text) \in Nat
      BY <1>1, SourceFacts
    <3> QED
      BY <3>3, <3>4
  <2>2. api_chunk[Len(r.text)] = r.text[Len(r.text)]
    BY <1>1, <2>1 DEF Holds
  <2> QED
    BY <1>1, <1>5, <2>2 DEF Closed
<1>6. ASSUME NEW i \in 1..Len(r.rows), NEW j \in 1..Len(r.rows[i])
      PROVE  Whole(r.rows[i][j], Len(r.text))
  <2>1. j = Len(r.rows[i]) =>
          r.rows[i][j].type = "STRING" \/ (r.rows[i][j].type = "NUMBER" /\ r.text[Len(r.text)] = "LF")
    <3>1. CASE call = "root_catalog"
      BY <1>2, <1>5, <3>1
    <3>2. CASE call # "root_catalog"
      BY <1>2, <3>2
    <3> QED
      BY <3>1, <3>2
  <2> QED
    BY <1>1, <2>1, AllWhole
<1>7. ASSUME NEW i \in 1..Len(r.rows)
      PROVE  /\ n \in 1..Len(r.rows[i]) /\ r.rows[i][n].type = "STRING"
             /\ \A j \in 1..Len(r.rows[i]) : Whole(r.rows[i][j], Len(r.text))
             /\ n = 1 => /\ ~ (call # "root_catalog") /\ Len(r.rows[i]) = 2
                         /\ r.rows[i][2].type = "NUMBER"
             /\ n # 1 => /\ Len(r.rows[i]) = n
                         /\ \A j \in 1..n : r.rows[i][j].type # "TIME" \/ Whole(r.rows[i][j], Len(r.text))
  <2>1. n \in 1..Len(r.rows[i]) /\ r.rows[i][n].type = "STRING"
    BY <1>2
  <2>2. n = 1 => call = "root_catalog" /\ Len(r.rows[i]) = 2 /\ r.rows[i][2].type = "NUMBER"
    BY <1>2
  <2>3. n # 1 => Len(r.rows[i]) = n
    BY <1>2
  <2> QED
    BY <1>6, <2>1, <2>2, <2>3
<1>8. (call # "root_catalog") \in BOOLEAN
  OBVIOUS
<1> QED
  BY <1>1, <1>4, <1>7, <1>8 DEF IsNameList, n

LEMMA AnswersNames ==
  ASSUME ChunkIsTheReply, NEW call \in NameCalls,
         ReadNames(call, ApiOf[call], FieldOf[call], call # "root_catalog"),
         api_current = ApiOf[call], fetched, list # << >>, call = "root_catalog" => Closed
  PROVE  /\ ret'.names = [i \in 1..Least(Len(list), ret'.index) |-> list[i][FieldOf[call]].str]
         /\ ret'.rc = IF Len(list) > ret'.index THEN STOP ELSE 0
<1> DEFINE n == FieldOf[call]
           strict == call # "root_catalog"
<1>1. PICK r : IsReply(r)
  BY HoldsReply
<1>2. list = r.rows /\ r.rows # << >> /\ api_chunk_write_pos = Len(r.text)
  BY <1>1 DEF IsReply
<1>3. IsNameList(r, n, strict)
  BY <1>1, <1>2, NamesCanBeRead
<1>4. n \in Nat /\ strict \in BOOLEAN
  BY <1>3 DEF IsNameList
<1>5. ReadNames(call, api_current, n, strict)
  OBVIOUS
<1> HIDE DEF n, strict
<1>6. PICK g \in Leftovers, most \in Nat : \E turn :
        /\ Loop(turn, g, n, strict, most, api_chunk_write_pos + 1)
        /\ ret'.call = call /\ ret'.index = most
        /\ ret'.names = turn[api_chunk_write_pos + 1].names
        /\ ret'.rc = turn[api_chunk_write_pos + 1].rc
  BY <1>4, <1>5, AnswersLoop
<1>7. PICK turn, last :
        /\ last = Len(r.text) + 1 /\ Loop(turn, g, n, strict, most, last)
        /\ ret'.index = most /\ ret'.names = turn[last].names /\ ret'.rc = turn[last].rc
  BY <1>2, <1>6
<1>8. IsOver(turn[last], r, n, most)
  BY <1>3, <1>7, LoopEnds
<1>9. /\ ret'.names = NamesOf(r, n, Least(Len(r.rows), most))
      /\ ret'.rc = IF Len(r.rows) > most THEN STOP ELSE 0
  BY <1>7, <1>8 DEF IsOver
<1> QED
  BY <1>2, <1>7, <1>9 DEF NamesOf, n

\* The names that a reader hands out are those of the list, in order, as many
\* as its caller takes, and it returns 0 unless the caller refused one.
THEOREM NamesInvariance == Spec => []NamesReadBack
<1>1. Init => NamesReadBack
  BY DEF Init, NamesReadBack, ReadFrom
<1>2. NamesReadBack /\ ChunkIsTheReply /\ [Next]_vars => NamesReadBack'
  <2> SUFFICES ASSUME NamesReadBack, ChunkIsTheReply, [Next]_vars,
                      ReadFrom(NameCalls)', (ret.call = "root_catalog" => Closed)'
               PROVE  /\ ret'.names = Names(ret.index)'
                      /\ ret'.rc = IF Len(list') > ret'.index THEN STOP ELSE 0
    BY DEF NamesReadBack
  <2>1. CASE UNCHANGED vars
    <3>1. UNCHANGED chunk /\ ret' = ret
      BY <2>1 DEF vars, chunk
    <3>2. ReadFrom(NameCalls) /\ Names(ret.index)' = Names(ret.index) /\ list' = list
          /\ (ret.call = "root_catalog" => Closed)
      BY <3>1 DEF ReadFrom, Names, Closed, chunk
    <3> QED
      BY <3>1, <3>2 DEF NamesReadBack
  <2>2. CASE ~ UNCHANGED vars
    <3>1. ret'.call \in NameCalls /\ fetched' /\ list' # << >> /\ api_current' = ApiOf[ret'.call]
          /\ (ret'.call = "root_catalog" => Closed')
      BY DEF ReadFrom
    <3>2. PICK call \in NameCalls : call = ret'.call
      BY <3>1
    <3>3. ReadNames(call, ApiOf[call], FieldOf[call], call # "root_catalog")
      BY <2>2, <3>1, <3>2, Callers
    <3>4. UNCHANGED chunk
      BY <3>3, Zenon DEF ReadNames, NotFetched
    <3>5. list' = list /\ api_current' = api_current /\ fetched' = fetched /\ Closed' = Closed
      BY <3>4 DEF chunk, Closed
    <3>6. /\ ret'.names = [i \in 1..Least(Len(list), ret'.index) |-> list[i][FieldOf[call]].str]
          /\ ret'.rc = IF Len(list) > ret'.index THEN STOP ELSE 0
      BY <3>1, <3>2, <3>3, <3>5, AnswersNames
    <3>7. Names(ret.index)' = [i \in 1..Least(Len(list), ret'.index) |-> list[i][FieldOf[call]].str]
      BY <3>2, <3>5 DEF Names, Least
    <3> QED
      BY <3>5, <3>6, <3>7
  <2> QED
    BY <2>1, <2>2
<1> QED
  BY <1>1, <1>2, ChunkInvariance, PTL DEF Spec
=============================================================================
