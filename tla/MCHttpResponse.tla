--------------------------- MODULE MCHttpResponse ---------------------------
(* Replies of up to two small chunks, whole and cut off at every symbol,   *)
(* with bodies that look like framing, and plain bodies.                   *)
EXTENDS HttpResponse

Sym(ch, idx) == [ch |-> ch, idx |-> idx]
Header(n) == [i \in 1..n |-> Sym("x", 0)]

\* What the bytes of a body look like.
Looks == {<<"x", "x", "x", "x">>, <<"LF", "CR", "LF", "1">>, <<"2", "CR", "LF", "0">>}

Body(look, first, n) == [i \in 1..n |-> Sym(look[first + i - 1], first + i - 1)]
LineEnd == <<Sym("CR", 0), Sym("LF", 0)>>
SizeLine(n) == <<Sym(<<"0", "1", "2", "3">>[n + 1], 0)>> \o LineEnd
Chunk(look, first, n) == SizeLine(n) \o Body(look, first, n) \o LineEnd

\* Whole replies, with a header of h symbols.
Chunked(h) ==
  {Header(h) \o Chunk(look, 1, ab[1]) \o Chunk(look, ab[1] + 1, ab[2]) \o LastChunk :
     look \in Looks, ab \in {<<1, 3>>, <<2, 1>>, <<3, 1>>}}
Plain(h) == {Header(h) \o Body(look, 1, 4) : look \in Looks}

\* The same cut off after n symbols.
Cut(wires) == UNION {{SubSeq(w, 1, n) : n \in 0..Len(w)} : w \in wires}

Reply(status, chunked, head, wire) ==
  [status |-> status, chunked |-> chunked, head |-> head, wire |-> wire]

MCReplies == UNION {
  {Reply("ok", TRUE, h, w) : w \in Cut(Chunked(h))} \cup
  {Reply("ok", FALSE, h, w) : w \in Cut(Plain(h))} \cup
  {Reply("301", FALSE, h, w) : w \in Plain(h)} : h \in {1, 2, 5}}
=============================================================================
