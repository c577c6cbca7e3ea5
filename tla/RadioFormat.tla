------------------------------ MODULE RadioFormat ------------------------------
(***************************************************************************)
(* The lists of the radio database as its server sends them, which the     *)
(* readers of xapi-nanoradio.c take for granted: an entry is a line, its   *)
(* fields are apart by separators and have the types the readers want.     *)
(* The characters that nothing here speaks of are arbitrary.               *)
(***************************************************************************)
EXTENDS RadioList

\* The fields of an entry, by the comments at the calls of radiolist_parse_token.
Shape == [CATALOG_ROOT  |-> <<"STRING", "NUMBER">>,
          CATALOG_ENTRY |-> <<"NUMBER", "STRING">>,
          CHANNEL_INFO  |-> <<"NUMBER">>,
          CHANNEL_ENTRY |-> <<"NUMBER", "NUMBER", "STRING", "STRING">>,
          SERVER_LIST   |-> <<"STRING", "STRING">>,
          PROGRAM_INFO  |-> <<"NUMBER">>,
          PROGRAM_LIST  |-> <<"TIME", "TIME", "STRING">>]

\* Where a field that starts behind f.at characters ends: a string is in
\* quotes, the parts of a time have colons between them.
FieldEnd(f) ==
  CASE f.type = "STRING" -> f.at + Len(f.str) + 2
    [] f.type = "NUMBER" -> f.at + Len(f.digits)
    [] f.type = "TIME"   -> f.at + Len(f.digits[1]) + Len(f.digits[2]) + Len(f.digits[3]) + 2

\* The text goes on with these digits behind its first `at` characters.
HasDigits(text, at, digits) ==
  \A j \in 1..Len(digits) : text[at + j] = digits[j]

Written(text, f) ==
  CASE f.type = "STRING" ->
         /\ text[f.at + 1] = "QUOTE" /\ text[FieldEnd(f)] = "QUOTE"
         /\ f.str \in Seq({text[q] : q \in 1..Len(text)} \ {"QUOTE"})
         /\ \A j \in 1..Len(f.str) : text[f.at + 1 + j] = f.str[j]
    [] f.type = "NUMBER" ->
         /\ f.digits \in Seq(DOMAIN Digits) \ {<< >>} /\ HasDigits(text, f.at, f.digits)
         /\ f.num = Appended(0, f.digits)
    [] f.type = "TIME" ->
         LET minutes == f.at + Len(f.digits[1]) + 1
             seconds == minutes + Len(f.digits[2]) + 1
         IN  /\ \A p \in 1..3 : f.digits[p] \in Seq(DOMAIN Digits)
             /\ f.digits[1] # << >> /\ HasDigits(text, f.at, f.digits[1])
             /\ text[minutes] = "COLON" /\ HasDigits(text, minutes, f.digits[2])
             /\ text[seconds] = "COLON" /\ HasDigits(text, seconds, f.digits[3])

\* Where the field behind field j of row i starts, or the text ends.
NextAt(r, i, j) ==
  CASE j < Len(r.rows[i]) -> r.rows[i][j + 1].at
    [] j = Len(r.rows[i]) /\ i < Len(r.rows) -> r.rows[i + 1][1].at
    [] j = Len(r.rows[i]) /\ i = Len(r.rows) -> Len(r.text)

\* The separators behind field j of row i.
Gap(r, i, j) == (FieldEnd(r.rows[i][j]) + 1)..NextAt(r, i, j)

\* Only the last field may be one without a separator behind it.
FieldsApart(r) ==
  \A i \in 1..Len(r.rows) : \A j \in 1..Len(r.rows[i]) :
    /\ FieldEnd(r.rows[i][j]) <= NextAt(r, i, j)
    /\ i < Len(r.rows) \/ j < Len(r.rows[i]) => FieldEnd(r.rows[i][j]) < NextAt(r, i, j)
    /\ \A q \in Gap(r, i, j) : r.text[q] \in Separators

\* The line ends are those behind the rows, one behind each; the last may
\* have none.
LinesEnd(r) ==
  LET LineFeeds(i) == {q \in Gap(r, i, Len(r.rows[i])) : r.text[q] = "LF"}
  IN  /\ \A q \in 1..Len(r.text) : r.text[q] = "LF" =>
           \E i \in 1..Len(r.rows) : q \in LineFeeds(i)
      /\ \A i \in 1..Len(r.rows) : \A p, q \in LineFeeds(i) : p = q
      /\ \A i \in 1..(Len(r.rows) - 1) : LineFeeds(i) # {}

IsList(r) ==
  /\ \A i \in 1..Len(r.rows) :
       /\ Len(r.rows[i]) = Len(Shape[r.api])
       /\ \A j \in 1..Len(r.rows[i]) :
            /\ r.rows[i][j].type = Shape[r.api][j]
            /\ r.rows[i][j].at \in Nat /\ FieldEnd(r.rows[i][j]) <= Len(r.text)
            /\ Written(r.text, r.rows[i][j])
  /\ r.rows[1][1].at = 0
  /\ FieldsApart(r) /\ LinesEnd(r)

\* A reply that is no list has no rows.
ASSUME RepliesAssumption ==
  \A r \in Replies :
    /\ r.api \in DOMAIN Shape
    /\ r.text \in Seq({r.text[q] : q \in 1..Len(r.text)} \ {NUL}) /\ Len(r.text) < ChunkSize
    /\ r.rows \in Seq({r.rows[i] : i \in 1..Len(r.rows)})
    /\ r.rows # << >> => IsList(r)

\* A reply that is no list has no numbers that could be taken for one's.
ASSUME NoListAssumption ==
  \A r \in Replies : r.rows = << >> => \A q \in 1..Len(r.text) : r.text[q] \notin DOMAIN Digits

----------------------------------------------------------------------------
\* Before the first request the chunk is like that of an empty reply.
Sources == Replies \cup {[api |-> "CATALOG_ROOT", rows |-> << >>, text |-> << >>]}

Characters == {NUL} \cup UNION {{r.text[q] : q \in 1..Len(r.text)} : r \in Replies}

\* What api_chunk_write_pos counts is the start of the reply to the last
\* request, all of it when the request returned 0; whatever came before it,
\* a terminator is always behind (api_chunk has a byte more than is written).
ChunkIsTheReply ==
  /\ api_chunk \in [1..ChunkSize -> Characters] /\ api_chunk[ChunkSize] = NUL
  /\ \E r \in Sources :
       /\ api_current = r.api /\ list = r.rows
       /\ api_chunk_write_pos \in 0..Len(r.text)
       /\ \A q \in 1..api_chunk_write_pos : api_chunk[q] = r.text[q]
       /\ fetched => api_chunk_write_pos = Len(r.text) /\ api_chunk[Len(r.text) + 1] = NUL
=============================================================================
