------------------------------ MODULE MCRadioList ------------------------------
(* Lists of one or two rows, the last line closed or not, and the text     *)
(* that is sent for them.                                                  *)
EXTENDS RadioFormat, SequencesExt

Digit(n) == <<"0", "1", "2", "3">>[n + 1]
DigitsOf(n) == IF n > 9 THEN <<Digit(n \div 10), Digit(n % 10)>> ELSE <<Digit(n)>>
Num(n) == [type |-> "NUMBER", num |-> n, digits |-> DigitsOf(n), text |-> DigitsOf(n)]
Str(s) == [type |-> "STRING", str |-> s, text |-> <<"QUOTE">> \o s \o <<"QUOTE">>]
Time(h, m) == [type |-> "TIME", digits |-> <<DigitsOf(h), DigitsOf(m), <<"0">>>>,
               text |-> DigitsOf(h) \o <<"COLON">> \o DigitsOf(m) \o <<"COLON", "0">>]

\* The text of rows, each field with its place in it: fields apart by spaces,
\* rows by line ends.
WithField(a, f) ==
  LET text == IF a.row = << >> THEN a.text ELSE a.text \o <<"SP">>
  IN  [a EXCEPT !.text = text \o f.text, !.row = Append(@, f @@ [at |-> Len(text)])]
WithRow(a, row) ==
  LET b == FoldLeft(WithField, [a EXCEPT !.row = << >>], row)
  IN  [b EXCEPT !.text = @ \o <<"LF">>, !.rows = Append(@, b.row)]
Laid(rows) == FoldLeft(WithRow, [text |-> << >>, row |-> << >>, rows |-> << >>], rows)

ClosedReply(api, rows) == [api |-> api, rows |-> Laid(rows).rows, text |-> Laid(rows).text]
OpenReply(api, rows) == [api |-> api, rows |-> Laid(rows).rows, text |-> Front(Laid(rows).text)]
Both(api, rows) == {ClosedReply(api, rows), OpenReply(api, rows)}

\* Names: empty, a letter, and one that looks like a number and its end.
N1 == Str(<<>>)
N2 == Str(<<"a">>)
N3 == Str(<<"1", "SP">>)
Url == Str(<<>>)

\* File names without a placeholder, and with one that little, much and too
\* much goes before or after.
Files == {<<"/", "a">>, <<"/">> \o Placeholder \o <<".", "a">>,
          Placeholder \o <<".", "a", "a", "a", "a", "a">>,
          <<"/", "/", "/", "/", "/", "/">> \o Placeholder,
          [i \in 1..15 |-> "/"]}

MCReplies ==
  Both("CATALOG_ROOT", <<<<N3, Num(12)>>, <<N2, Num(3)>>>>) \cup
  {ClosedReply("CATALOG_ENTRY", <<<<Num(2), N2>>>>),
   OpenReply("CHANNEL_ENTRY", <<<<Num(1), Num(2), Url, N1>>, <<Num(3), Num(0), Url, N2>>>>),
   ClosedReply("PROGRAM_LIST", <<<<Time(1, 2), Time(2, 3), N2>>>>),
   [api |-> "CATALOG_ROOT", rows |-> << >>, text |-> <<"QUOTE", "a", "QUOTE", "a">>]} \cup
  {ClosedReply("SERVER_LIST", <<<<N2, Str(file)>>>>) : file \in Files} \cup
  Both("CHANNEL_INFO", <<<<Num(3)>>>>)
=============================================================================
