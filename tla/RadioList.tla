------------------------------- MODULE RadioList -------------------------------
(***************************************************************************)
(* xapi-nanoradio.c: the client of the online radio database.  A call      *)
(* radio_update_... fetches a list into the one static api_chunk; the      *)
(* calls that read a list check only which API was asked for last          *)
(* (api_current) and parse the chunk again from its start.                 *)
(*                                                                         *)
(* One task makes the calls, one after another, so a call is one step.     *)
(* A list is a sequence of rows, a row a sequence of fields; a reply is    *)
(* given with its text, a sequence of characters (RadioFormat says how one *)
(* is written in the other).                                               *)
(***************************************************************************)
EXTENDS Integers, Sequences, FiniteSets

CONSTANTS
  ChunkSize,    \* NANORADIO_API_CHUNK, and the byte for the terminator
  Replies,      \* records [api, rows, text]
  Leftovers,    \* what token.u.time may hold before it is written
  BlockSize,    \* bound: a body that is cut off is cut between such blocks
  Indices,      \* indices the caller asks for
  ApiBuff,      \* sizeof(api_buff), where the address of a stream is built
  StreamIds,    \* stream identifiers
  MaxRequests   \* bound: requests made

NUL == "nul"
Separators == {"CR", "LF", "SP"}
Numerals == <<"0", "1", "2", "3", "4", "5", "6", "7", "8", "9">>
Digits == [ch \in {Numerals[n + 1] : n \in 0..9} |-> CHOOSE n \in 0..9 : Numerals[n + 1] = ch]

ASSUME BoundsAssumption ==
  /\ ChunkSize \in Nat \ {0} /\ ApiBuff \in Nat /\ BlockSize \in Nat \ {0}
  /\ MaxRequests \in Nat /\ Leftovers \subseteq Int
  /\ Indices \subseteq Nat /\ StreamIds \subseteq Nat

\* The error codes of portable.h, and what a callback returns to stop.
WERR_FAILED == 1
WERR_TCP_RECV == 6
WERR_PARSE_DATABASE == 8
WERR_BUFFER_OVERFLOW == 13
STOP == 100

VARIABLES
  api_current, api_chunk, api_chunk_write_pos, api_parsing_pos,
  list,     \* history: the rows api_request_chunk was sent last
  fetched,  \* history: whether it returned 0
  requests, \* requests made
  ret       \* the last call and what it returned

vars == <<api_current, api_chunk, api_chunk_write_pos, api_parsing_pos, list, fetched,
          requests, ret>>

----------------------------------------------------------------------------
(* The tokenizer.  It keeps its place and its token in a record a, until   *)
(* its state is "DONE" or "FAILED".                                        *)

\* The token of a caller before anything is parsed: only its type is set.  A
\* number and the hour of a time are one field of the union.
Unset(g) == [type |-> "UNKNOWN", num |-> g, str |-> << >>, min |-> g, sec |-> g]

Parser(state, token, colons, pos) ==
  [state |-> state, token |-> token, colons |-> colons, pos |-> pos]

InString(a, ch) ==
  IF ch = "QUOTE" THEN Parser("DONE", a.token, a.colons, a.pos + 1)
  ELSE Parser("STRING", [a.token EXCEPT !.str = Append(@, ch)], a.colons, a.pos + 1)

\* Mutant: the digits behind the second colon still count as minutes.
AddDigit_Minutes(token, colons, d) ==
  IF colons = 0 THEN [token EXCEPT !.num = @ * 10 + d]
                ELSE [token EXCEPT !.min = @ * 10 + d]

\* A digit goes to the part of the token that the colons before it select;
\* nothing has cleared min and sec.
AddDigit(token, colons, d) ==
  CASE colons = 0 -> [token EXCEPT !.num = @ * 10 + d]
    [] colons = 1 -> [token EXCEPT !.min = @ * 10 + d]
    [] colons = 2 -> [token EXCEPT !.sec = @ * 10 + d]

\* Mutant: only a space ends a number.
EndsNumber_Space(ch) == ch = "SP"

EndsNumber(ch) == ch \in Separators

\* The first colon makes a time of the number.
AddColon(token, colons) ==
  IF colons = 0 THEN [token EXCEPT !.type = "TIME"] ELSE token

InNumber(a, ch) ==
  CASE EndsNumber(ch) -> Parser("DONE", a.token, a.colons, a.pos)
    [] ch = "COLON" -> Parser("NUMBER", AddColon(a.token, a.colons), a.colons + 1, a.pos + 1)
    [] ch \in DOMAIN Digits /\ a.colons <= 2 ->
         Parser("NUMBER", AddDigit(a.token, a.colons, Digits[ch]), a.colons, a.pos + 1)
    [] OTHER -> Parser("FAILED", a.token, a.colons, a.pos)

NewString(token) == [token EXCEPT !.type = "STRING", !.str = << >>]
NewNumber(token) == [token EXCEPT !.type = "NUMBER", !.num = 0]

\* The first digit of a number is read again, as part of the number.
InInitial(a, ch) ==
  CASE ch = "QUOTE" -> Parser("STRING", NewString(a.token), a.colons, a.pos + 1)
    [] ch \in Separators -> Parser("INITIAL", a.token, a.colons, a.pos + 1)
    [] ch \in DOMAIN Digits -> InNumber(Parser("NUMBER", NewNumber(a.token), a.colons, a.pos), ch)
    [] OTHER -> Parser("FAILED", a.token, a.colons, a.pos)

\* One turn of the loop of radiolist_parse_token.
ParseChar(a, ch) ==
  CASE a.state = "INITIAL" -> InInitial(a, ch)
    [] a.state = "STRING"  -> InString(a, ch)
    [] a.state = "NUMBER"  -> InNumber(a, ch)
    [] a.state \in {"DONE", "FAILED"} -> a

\* What is returned behind the loop: it may also end between two tokens.
Returned(a) ==
  [pos |-> a.pos, token |-> a.token,
   rc |-> IF a.state \in {"INITIAL", "DONE"} THEN 0 ELSE -WERR_PARSE_DATABASE]

\* radiolist_parse_token on the first `limit` characters of a chunk: the
\* token, the position after it, and 0, 1 at the end, or an error.
radiolist_parse_token(text, limit, pos, token) ==
  LET fresh == [token EXCEPT !.type = "UNKNOWN"]
      a[k \in pos..limit] == IF k = pos THEN Parser("INITIAL", fresh, 0, pos)
                             ELSE ParseChar(a[k - 1], text[k])
  IN  IF pos >= limit THEN [pos |-> pos, token |-> fresh, rc |-> 1] ELSE Returned(a[limit])

NextToken(pos, token) == radiolist_parse_token(api_chunk, api_chunk_write_pos, pos, token)

\* n tokens in a row, or as far as there are tokens.
TokenAfter(t) == IF t.rc = 0 THEN NextToken(t.pos, t.token) ELSE t
NextTokens(n, pos, token) ==
  LET t[k \in 0..n] == IF k = 0 THEN [pos |-> pos, token |-> token, rc |-> 0]
                       ELSE TokenAfter(t[k - 1])
  IN  t[n]

\* The positions after the line ends before the terminator.
TextLength == CHOOSE n \in 0..(ChunkSize - 1) :
  api_chunk[n + 1] = NUL /\ \A j \in 1..n : api_chunk[j] # NUL
LineEnds == {q \in 1..TextLength : api_chunk[q] = "LF"}
NthEnd(n) == CHOOSE q \in LineEnds : Cardinality({e \in LineEnds : e <= q}) = n

\* Mutant: the line after the one asked for.
radiolist_parser_goto_Next(index) ==
  IF Cardinality(LineEnds) <= index THEN 0 ELSE NthEnd(index + 1)

\* radiolist_parser_goto: the start of a line that a line end closes; the
\* start of the chunk when there is none.
radiolist_parser_goto(index) ==
  IF index = 0 \/ Cardinality(LineEnds) <= index THEN 0 ELSE NthEnd(index)

----------------------------------------------------------------------------
(* Fetching.                                                               *)

\* The chunk after n characters of a reply, with or without the terminator.
Received(text, n, whole) ==
  [i \in 1..ChunkSize |-> IF i <= n THEN text[i]
                          ELSE IF whole /\ i = n + 1 THEN NUL ELSE api_chunk[i]]

\* How much of a text may have arrived when its request ends.
Arrivals(text) == {Len(text)} \cup {n \in 0..Len(text) : n % BlockSize = 0}

\* Mutant: a request that gets no body leaves the count of the last one.
WritePos_Kept(n) == IF n = 0 THEN api_chunk_write_pos ELSE n

\* api_chunk_write_pos, set to 0 and moved on by event_body
WritePos(n) == n

\* api_request_chunk, when n characters of the body arrive; whole says
\* whether the reply then ends well.
api_request_chunk(r, n, whole) ==
  /\ requests < MaxRequests /\ requests' = requests + 1
  /\ whole => n = Len(r.text)
  /\ api_current' = r.api
  /\ api_chunk' = Received(r.text, n, whole)
  /\ api_chunk_write_pos' = WritePos(n)
  /\ list' = r.rows /\ fetched' = whole

ChunkInfoApis == {"CHANNEL_INFO", "PROGRAM_INFO"}

\* radio_update_root_catalog, radio_update_catalog, radio_update_channel and
\* radio_update_program
Update == \E r \in Replies : \E n \in Arrivals(r.text), whole \in BOOLEAN :
  /\ r.api \notin ChunkInfoApis \cup {"SERVER_LIST"}
  /\ api_request_chunk(r, n, whole)
  /\ ret' = [call |-> "update", index |-> 0, rc |-> IF whole THEN 0 ELSE -WERR_TCP_RECV]
  /\ UNCHANGED api_parsing_pos

\* radio_channel_chunkinfo and radio_program_chunkinfo
ChunkInfo == \E r \in Replies, g \in Leftovers :
             \E n \in Arrivals(r.text), whole \in BOOLEAN :
  /\ r.api \in ChunkInfoApis
  /\ api_request_chunk(r, n, whole)
  /\ LET t == radiolist_parse_token(api_chunk', n, 0, Unset(g))
         found == IF t.rc # 0 THEN t.rc
                  ELSE IF t.token.type = "NUMBER" THEN t.token.num ELSE -WERR_PARSE_DATABASE
     IN  /\ api_parsing_pos' = IF whole THEN t.pos ELSE api_parsing_pos
         /\ ret' = [call |-> "chunkinfo", index |-> 0, rc |-> IF whole THEN found ELSE -WERR_TCP_RECV]

----------------------------------------------------------------------------
(* The address of a stream.                                                *)

\* The decimal digits of an identifier, first the highest; an int has at
\* most ten.
IdDigits(id) ==
  LET a[k \in 0..9] ==
        IF k = 0 THEN [rest |-> id \div 10, digits |-> <<Numerals[(id % 10) + 1]>>]
        ELSE IF a[k - 1].rest = 0 THEN a[k - 1]
        ELSE [rest   |-> a[k - 1].rest \div 10,
              digits |-> <<Numerals[(a[k - 1].rest % 10) + 1]>> \o a[k - 1].digits]
  IN  a[9].digits

Placeholder == <<"DOLLAR", "i", "d", "DOLLAR">>

\* The cells of a string and its terminator, and a string from its cells.
Cells(str) == Append(str, NUL)
Str0(cells) == SubSeq(cells, 1, (CHOOSE n \in 0..(Len(cells) - 1) :
                 cells[n + 1] = NUL /\ \A j \in 1..n : cells[j] # NUL))

\* Mutant: what follows the placeholder is not moved up to the digits.
apply_url_pattern_NoMove(file, k, id) ==
  LET digits == IdDigits(id)
      old    == Cells(file)
  IN  [i \in 1..(Len(old) + Len(digits)) |->
         CASE i \in (k + 1)..(k + Len(digits)) -> digits[i - k]
           [] i \in 1..Len(old) /\ i \notin (k + 1)..(k + Len(digits)) -> old[i]
           [] OTHER -> NUL]

\* apply_url_pattern with a placeholder behind k characters: the five cells
\* behind it move to the end of the digits, and no other cell moves.
apply_url_pattern(file, k, id) ==
  LET digits == IdDigits(id)
      last   == k + Len(digits)
      old    == Cells(file)
  IN  [i \in 1..(Len(old) + Len(digits)) |->
         CASE i \in (k + 1)..last -> digits[i - k]
           [] i \in (last + 1)..(last + 5) /\ i - last + k + 4 <= Len(old) ->
                old[i - last + k + 4]
           [] i \in 1..Len(old) /\ i \notin (k + 1)..(last + 5) -> old[i]
           [] OTHER -> NUL]

\* The first placeholder of a file name.
Placeholders(file) == {k \in 0..(Len(file) - 4) : SubSeq(file, k + 1, k + 4) = Placeholder}
First(ks) == CHOOSE k \in ks : \A j \in ks : k <= j

\* The file name with its placeholder replaced, and 0; or an error when the
\* digits and the cells that move are more than api_buff has.  What lies
\* behind api_buff is not modelled.
StreamFile(file, id) ==
  LET ks == Placeholders(file)
      k  == First(ks)
  IN  CASE ks = {} -> [file |-> file, rc |-> 0]
        [] ks # {} /\ Len(IdDigits(id)) + 5 < ApiBuff ->
             [file |-> Str0(apply_url_pattern(file, k, id)), rc |-> 0]
        [] ks # {} /\ Len(IdDigits(id)) + 5 >= ApiBuff ->
             [file |-> << >>, rc |-> -WERR_PARSE_DATABASE]

\* radio_server once the list is in the chunk: host and file from its first
\* two tokens.
HostAndFile(host, file, id) ==
  LET refused(rc) == [host |-> << >>, file |-> << >>, rc |-> rc]
      named == StreamFile(file.token.str, id)
  IN  CASE host.rc # 0 -> refused(host.rc)
        [] host.rc = 0 /\ host.token.type # "STRING" -> refused(-WERR_PARSE_DATABASE)
        [] host.rc = 0 /\ host.token.type = "STRING" ->
             CASE Len(host.token.str) >= ApiBuff -> refused(-WERR_BUFFER_OVERFLOW)
               [] Len(host.token.str) < ApiBuff /\ file.rc # 0 -> refused(file.rc)
               [] Len(host.token.str) < ApiBuff /\ file.rc = 0 /\ file.token.type # "STRING" ->
                    refused(-WERR_PARSE_DATABASE)
               [] OTHER ->
                    IF Len(host.token.str) + 1 + Len(file.token.str) >= ApiBuff
                    THEN refused(-WERR_BUFFER_OVERFLOW)
                    ELSE [host |-> host.token.str, file |-> named.file, rc |-> named.rc]

Server == \E r \in Replies, g \in Leftovers, id \in StreamIds :
          \E n \in Arrivals(r.text), whole \in BOOLEAN :
  /\ r.api = "SERVER_LIST"
  /\ api_request_chunk(r, n, whole)
  /\ LET host == radiolist_parse_token(api_chunk', n, 0, Unset(g))
         file == radiolist_parse_token(api_chunk', n, host.pos, host.token)
         sent == HostAndFile(host, file, id)
     IN  IF whole
         THEN /\ api_parsing_pos' = IF host.rc = 0 /\ host.token.type = "STRING"
                                     THEN file.pos ELSE host.pos
              /\ ret' = [call |-> "server", index |-> id, rc |-> sent.rc,
                         host |-> sent.host, file |-> sent.file]
         ELSE /\ UNCHANGED api_parsing_pos
              /\ ret' = [call |-> "server", index |-> id, rc |-> -WERR_TCP_RECV]

----------------------------------------------------------------------------
(* Reading.                                                                *)

chunk == <<api_current, api_chunk, api_chunk_write_pos, list, fetched, requests>>

\* A reader returns -WERR_FAILED, and leaves all else, unless the API asked
\* for last is the one it wants.
NotFetched(call) ==
  /\ ret' = [call |-> call, index |-> 0, rc |-> -WERR_FAILED]
  /\ UNCHANGED <<chunk, api_parsing_pos>>

\* A reader of names: its place and token, the names it has handed out, and
\* whether it goes on.
Reader(t, names, more, rc) ==
  [pos |-> t.pos, token |-> t.token, names |-> names, more |-> more, rc |-> rc]

\* One entry of a list of n fields, the last its name; `strict` readers
\* refuse a last field that is no string.  The caller's callback stops the
\* reader by refusing an entry, here the one after `most`.
NextEntry(a, n, strict, most) ==
  LET t == NextTokens(n, a.pos, a.token)
      isName == t.token.type = "STRING"
  IN  CASE ~ a.more -> a
        [] a.more /\ t.rc = 1 -> Reader(t, a.names, FALSE, a.rc)
        [] a.more /\ t.rc < 0 -> Reader(t, a.names, FALSE, t.rc)
        [] a.more /\ t.rc = 0 /\ isName /\ Len(a.names) < most ->
             Reader(t, Append(a.names, t.token.str), TRUE, a.rc)
        [] a.more /\ t.rc = 0 /\ isName /\ Len(a.names) = most -> Reader(t, a.names, FALSE, STOP)
        [] a.more /\ t.rc = 0 /\ ~ isName /\ strict ->
             Reader(t, a.names, FALSE, -WERR_PARSE_DATABASE)
        [] a.more /\ t.rc = 0 /\ ~ isName /\ ~ strict -> Reader(t, a.names, TRUE, a.rc)

\* radio_root_catalog, radio_catalog, radio_channel and radio_program.  An
\* entry takes a character at least, so the loop ends within as many turns.
ReadNames(call, api, n, strict) ==
  IF api_current # api THEN NotFetched(call)
  ELSE \E g \in Leftovers, most \in {1, ChunkSize} :
       LET turn[i \in 0..(api_chunk_write_pos + 1)] ==
             IF i = 0 THEN Reader([pos |-> 0, token |-> Unset(g)], << >>, TRUE, 0)
                      ELSE NextEntry(turn[i - 1], n, strict, most)
           a == turn[api_chunk_write_pos + 1]
       IN  /\ api_parsing_pos' = a.pos
           /\ ret' = [call |-> call, index |-> most, rc |-> a.rc, names |-> a.names]
           /\ UNCHANGED chunk

\* radio_root_catalog_id, radio_catalog_id, radio_server_id and
\* radio_stream_id: field n of an entry, or `other` if it is no number.
ReadNumber(call, api, n, other) ==
  IF api_current # api THEN NotFetched(call)
  ELSE \E index \in Indices, g \in Leftovers :
       LET t == NextTokens(n, radiolist_parser_goto(index), Unset(g))
       IN  /\ api_parsing_pos' = t.pos
           /\ ret' = [call |-> call, index |-> index,
                      rc |-> IF t.rc # 0 THEN t.rc
                             ELSE IF t.token.type = "NUMBER" THEN t.token.num ELSE other]
           /\ UNCHANGED chunk

\* radio_program_start_time and radio_program_end_time
ReadTime(call, n) ==
  IF api_current # "PROGRAM_LIST" THEN NotFetched(call)
  ELSE \E index \in Indices, g \in Leftovers :
       LET t == NextTokens(n, radiolist_parser_goto(index), Unset(g))
       IN  /\ api_parsing_pos' = t.pos
           /\ ret' = [call |-> call, index |-> index,
                      rc |-> IF t.rc # 0 THEN t.rc
                             ELSE IF t.token.type = "TIME" THEN 0 ELSE -WERR_PARSE_DATABASE,
                      time |-> <<t.token.num, t.token.min, t.token.sec>>]
           /\ UNCHANGED chunk

ReadList ==
  \/ ReadNames("root_catalog", "CATALOG_ROOT", 1, FALSE)
  \/ ReadNames("catalog", "CATALOG_ROOT", 2, TRUE)
  \/ ReadNames("channel", "CHANNEL_ENTRY", 4, TRUE)
  \/ ReadNames("program", "PROGRAM_LIST", 3, TRUE)

ReadField ==
  \/ ReadNumber("root_catalog_id", "CATALOG_ROOT", 2, -WERR_FAILED)
  \/ ReadNumber("catalog_id", "CATALOG_ROOT", 1, -WERR_PARSE_DATABASE)
  \/ ReadNumber("server_id", "CHANNEL_ENTRY", 1, -WERR_PARSE_DATABASE)
  \/ ReadNumber("stream_id", "CHANNEL_ENTRY", 2, -WERR_PARSE_DATABASE)
  \/ ReadTime("start_time", 1)
  \/ ReadTime("end_time", 2)

----------------------------------------------------------------------------
\* The static variables: the first value of the enumeration is CATALOG_ROOT.
Init ==
  /\ api_current = "CATALOG_ROOT" /\ api_chunk = [i \in 1..ChunkSize |-> NUL]
  /\ api_chunk_write_pos = 0 /\ api_parsing_pos = 0
  /\ list = << >> /\ fetched = FALSE /\ requests = 0
  /\ ret = [call |-> "none", index |-> 0, rc |-> 0]

Next == Update \/ ChunkInfo \/ Server \/ ReadList \/ ReadField

Spec == Init /\ [][Next]_vars

----------------------------------------------------------------------------
(* What the readers owe their callers.                                     *)

\* The API each reader reads, and which field of an entry it is after.
ApiOf == [root_catalog |-> "CATALOG_ROOT", channel |-> "CHANNEL_ENTRY",
          program |-> "PROGRAM_LIST", root_catalog_id |-> "CATALOG_ROOT",
          server_id |-> "CHANNEL_ENTRY", stream_id |-> "CHANNEL_ENTRY",
          start_time |-> "PROGRAM_LIST", end_time |-> "PROGRAM_LIST"]
FieldOf == [root_catalog |-> 1, channel |-> 4, program |-> 3,
            root_catalog_id |-> 2, server_id |-> 1, stream_id |-> 2]

NameCalls   == {"root_catalog", "channel", "program"}
NumberCalls == {"root_catalog_id", "server_id", "stream_id"}
TimeCalls   == {"start_time", "end_time"}

\* A list has been fetched, and one of these readers has read it.
ReadFrom(calls) ==
  fetched /\ list # << >> /\ ret.call \in calls /\ api_current = ApiOf[ret.call]

\* The entry whose line the index selects: one that no closed line has
\* selects the first.
Entry == IF ret.index < Cardinality(LineEnds) THEN ret.index + 1 ELSE 1

Least(m, n) == IF m < n THEN m ELSE n
Names(most) == [i \in 1..Least(Len(list), most) |-> list[i][FieldOf[ret.call]].str]

Closed == api_chunk[api_chunk_write_pos] = "LF"

\* A well-formed list that was fetched is read back whole, every name in
\* order, up to the entry the callback refuses; the last line needs its line
\* end only in a list whose rows end in a number.
NamesReadBack ==
  ReadFrom(NameCalls) /\ (ret.call = "root_catalog" => Closed) =>
    /\ ret.names = Names(ret.index)
    /\ ret.rc = IF Len(list) > ret.index THEN STOP ELSE 0

\* An identifier read by the index of an entry is that entry's; an index that
\* no closed line has gives the first entry's.
IdsAreTheEntrys ==
  ReadFrom(NumberCalls) /\ LineEnds # {} => ret.rc = list[Entry][FieldOf[ret.call]].num

\* The numbers among the fields of the list.
IsSent(n) ==
  \E i \in 1..Len(list) : \E j \in 1..Len(list[i]) :
    list[i][j].type = "NUMBER" /\ n = list[i][j].num

\* After a request that failed, nothing of the lists before it is read: an
\* identifier is one of the new list, or the 1 of the end of the chunk.
NoOldList ==
  ~ fetched /\ ret.call \in NumberCalls /\ ret.rc \in Nat => ret.rc = 1 \/ IsSent(ret.rc)

\* The address of a stream is the host, and the file name with the stream's
\* identifier for its placeholder, as long as at most four characters follow
\* the placeholder (".mp3").
ServerAddress ==
  fetched /\ list # << >> /\ ret.call = "server" /\ ret.rc = 0 =>
    LET file == list[1][2].str
        ks   == Placeholders(file)
        k    == First(ks)
        tail == SubSeq(file, k + 5, Len(file))
    IN  /\ ret.host = list[1][1].str
        /\ ks = {} => ret.file = file
        /\ ks # {} /\ Len(tail) <= 4 =>
             ret.file = SubSeq(file, 1, k) \o IdDigits(ret.index) \o tail

\* "required update_catalog()" (xapi-nanoradio.c:314): a catalogue that was
\* fetched can be listed.
CatalogCanBeListed ==
  fetched /\ api_current = "CATALOG_ENTRY" /\ ret.call = "catalog" => ret.rc # -WERR_FAILED

\* The number that digits make behind those of n.
Appended(n, digits) ==
  LET v[k \in 0..Len(digits)] == IF k = 0 THEN n ELSE 10 * v[k - 1] + Digits[digits[k]]
  IN  v[Len(digits)]

\* The times of a programme have the hours of its entry.  The minutes and
\* seconds are appended, digit by digit, to what the token held: a leftover
\* for the start, and for the end the start's as well, since both readers
\* return one token that nothing clears.
TimesAccumulate ==
  ReadFrom(TimeCalls) /\ ret.rc = 0 /\ LineEnds # {} =>
    LET start == list[Entry][1].digits
        end   == list[Entry][2].digits
    IN  \E g \in Leftovers :
          ret.time = IF ret.call = "start_time"
                     THEN <<Appended(0, start[1]), Appended(g, start[2]), Appended(g, start[3])>>
                     ELSE <<Appended(0, end[1]), Appended(Appended(g, start[2]), end[2]),
                            Appended(Appended(g, start[3]), end[3])>>
=============================================================================
