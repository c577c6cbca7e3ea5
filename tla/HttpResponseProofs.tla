------------------------- MODULE HttpResponseProofs -------------------------
(***************************************************************************)
(* Proofs about http_read_response, for every size of the buffer, every    *)
(* framed reply, and every cut of it into recv calls and sectors.          *)
(***************************************************************************)
EXTENDS HttpResponse, FiniteSetTheorems, Lemmas

----------------------------------------------------------------------------
(* The inductive invariant.                                                *)

TypeInv ==
  /\ reply \in Replies /\ taken \in 0..Len(reply.wire)
  /\ pc \in {"first", "head", "scan", "fill", "done"}
  /\ buff \in [1..BuffSize -> [ch : Chars, idx : Nat \cup {Stale}]]
  /\ pos \in 0..BuffSize /\ write_pos \in 0..BuffSize
  /\ smcode \in {"CHUNK_SIZE", "BODY", "TERMINATE_CHUNK"}
  /\ p \in Nat \ {0} /\ at \in Nat \ {0}
  /\ block_length \in Nat /\ chunked_size \in Nat
  /\ stream_eof \in BOOLEAN
  /\ delivered \in Seq(Nat \cup {Stale})

\* The first sector holds the front of the reply, and is full when it fits.
FirstInv == pc \in {"first", "head"} =>
  /\ taken = pos /\ \A i \in 1..pos : buff[i] = reply.wire[i]
  /\ pc = "head" => pos = BuffSize \/ taken = Len(reply.wire)
  /\ delivered = << >> /\ ~ stream_eof

\* Where the scan is in its sector, and in the block it has not delivered.
SectorInv ==
  /\ pc \in {"scan", "fill"} =>
       /\ smcode = "BODY" \/ reply.chunked
       /\ smcode = "BODY" /\ reply.chunked => chunked_size > 0
  /\ stream_eof => taken = Len(reply.wire)
  /\ pc = "scan" =>
       /\ p <= write_pos + 1
       /\ smcode = "BODY" /\ p <= write_pos =>
            /\ at + block_length = p
            /\ reply.chunked => block_length < chunked_size
  /\ pc = "fill" => at = 1 /\ block_length = 0

\* The sector is the part of the reply received last, behind the header.
BufferInv == Filled /\ pc \in {"scan", "fill"} =>
  /\ reply.head <= BuffSize /\ reply.head <= taken - write_pos
  /\ \A i \in 1..write_pos : buff[i] = reply.wire[taken - write_pos + i]

\* The scan has gone over q symbols of the reply, and is where the reply is:
\* it has delivered the bytes of the body among them but for the last pending.
Agrees(q, pending) ==
  /\ Parts(reply)[q].in = smcode
  /\ smcode = "CHUNK_SIZE" => Parts(reply)[q].size = chunked_size
  /\ smcode = "BODY" /\ reply.chunked => Parts(reply)[q].size = chunked_size - pending
  /\ Len(delivered) + pending = BodyCount(reply, q)
  /\ \A k \in 1..pending : reply.wire[q - pending + k].idx = Len(delivered) + k

Pending == IF smcode = "BODY" /\ p <= write_pos THEN block_length ELSE 0

FrameInv == Filled =>
  /\ pc = "scan" => Agrees(taken - write_pos + p - 1, Pending)
  /\ pc = "fill" => Agrees(taken - write_pos, 0)

ReplyInv ==
  TypeInv /\ FirstInv /\ SectorInv /\ BufferInv /\ FrameInv /\ BodyInOrder /\ BodyComplete

\* The first sector has been scanned to its end.
Scanned == \/ pc = "fill"
           \/ pc = "scan" /\ stream_eof
           \/ pc = "done" /\ rc = "0"

\* A short plain reply is over after its first sector.
ShortInv == ~ reply.chunked /\ ~ Filled /\ reply.head <= pos =>
  /\ pc # "first" => taken = Len(reply.wire)
  /\ Scanned => Len(delivered) = BuffSize - reply.head
  /\ pc \in {"scan", "fill"} =>
       IF Scanned THEN write_pos = 0
                  ELSE /\ write_pos = BuffSize - reply.head
                       /\ Len(delivered) + Pending = p - 1

----------------------------------------------------------------------------
(* A reply and its framing.                                                *)

LEMMA ReplyType ==
  ASSUME NEW r \in Replies
  PROVE  /\ r.head \in Nat \ {0} /\ r.chunked \in BOOLEAN
         /\ r.wire \in Seq([ch : Chars, idx : Nat]) /\ Len(r.wire) \in Nat
         /\ \A n \in 1..Len(r.wire) : r.wire[n].ch \in Chars /\ r.wire[n].idx \in Nat
         /\ \A n \in 1..Len(r.wire) : r.wire[n] \in [ch : Chars, idx : Nat]
<1>1. r.wire \in Seq([ch : Chars, idx : Nat]) /\ r.head \in Nat \ {0} /\ r.chunked \in BOOLEAN
  BY ReplyAssumption
<1> DEFINE wire == r.wire
           Symbols == [ch : Chars, idx : Nat]
<1>2. wire \in Seq(Symbols)
  BY <1>1
<1>3. \A s \in Symbols : s.ch \in Chars /\ s.idx \in Nat
  OBVIOUS
<1> HIDE DEF wire, Symbols
<1>4. Len(wire) \in Nat /\ \A n \in 1..Len(wire) : wire[n] \in Symbols
  BY <1>2
<1>5. \A n \in 1..Len(wire) : wire[n].ch \in Chars /\ wire[n].idx \in Nat
  BY <1>3, <1>4
<1> QED
  BY <1>1, <1>4, <1>5 DEF wire, Symbols

LEMMA DigitIs ==
  /\ \A c \in DOMAIN Digits : Digits[c] \in Nat
  /\ "LF" \notin DOMAIN Digits /\ "CR" \notin DOMAIN Digits
  /\ \A c \in Chars : c \in DOMAIN Digits \/ c = "LF" \/ c = "CR" \/ c = "x"
  BY DEF Digits, Chars

\* The records that say where a body is.
Places == [in : {"CHUNK_SIZE", "BODY", "TERMINATE_CHUNK", "OVER"}, size : Int]

LEMMA AfterType ==
  ASSUME NEW part \in Places, NEW ch
  PROVE  After(part, ch) \in Places
<1>1. /\ part.in \in {"CHUNK_SIZE", "BODY", "TERMINATE_CHUNK", "OVER"} /\ part.size \in Int
      /\ part = [in |-> part.in, size |-> part.size]
  BY DEF Places
<1>2. CASE part.in = "CHUNK_SIZE" /\ ch \in DOMAIN Digits
  <2>1. Digits[ch] \in Int
    BY <1>2, DigitIs
  <2>2. After(part, ch) = [in |-> "CHUNK_SIZE", size |-> part.size * 16 + Digits[ch]]
    BY <1>2, DigitIs DEF After
  <2> QED
    BY <2>1, <2>2, <1>1 DEF Places
<1>3. CASE part.in = "CHUNK_SIZE" /\ ch \notin DOMAIN Digits
  BY <1>1, <1>3 DEF After, Places
<1>4. CASE part.in # "CHUNK_SIZE"
  BY <1>1, <1>4 DEF After, Places
<1> QED
  BY <1>2, <1>3, <1>4

\* Parts is what its equation says.
LEMMA PartsAre ==
  ASSUME NEW r \in Replies
  PROVE  \A n \in 0..Len(r.wire) :
           /\ Parts(r)[n] \in Places
           /\ Parts(r)[n] = IF n <= r.head \/ ~ r.chunked THEN Start(r)
                            ELSE After(Parts(r)[n - 1], r.wire[n].ch)
<1> DEFINE N == Len(r.wire)
           Is(f) == f = [n \in 0..N |-> IF n <= r.head \/ ~ r.chunked THEN Start(r)
                                        ELSE After(f[n - 1], r.wire[n].ch)]
           part == CHOOSE f : Is(f)
           F == [nx \in (0..N) \X Places |->
                   IF nx[1] <= r.head \/ ~ r.chunked THEN Start(r)
                   ELSE After(nx[2], r.wire[nx[1]].ch)]
<1>1. Start(r) \in Places
  BY DEF Start, Places
<1>2. F \in [(0..N) \X Places -> Places]
  <2>1. ASSUME NEW nx \in (0..N) \X Places
        PROVE  (IF nx[1] <= r.head \/ ~ r.chunked THEN Start(r)
                ELSE After(nx[2], r.wire[nx[1]].ch)) \in Places
    <3>1. nx[2] \in Places
      OBVIOUS
    <3>2. After(nx[2], r.wire[nx[1]].ch) \in Places
      BY <3>1, AfterType
    <3> QED
      BY <3>2, <1>1
  <2> QED
    BY <2>1
<1>3. \A n \in 0..N, x \in Places :
        F[<<n, x>>] = IF n <= r.head \/ ~ r.chunked THEN Start(r) ELSE After(x, r.wire[n].ch)
  OBVIOUS
<1>4. N \in Nat /\ r.head \in Nat \ {0}
  BY ReplyType
<1> HIDE DEF F, N
<1>5. PICK f \in [0..N -> Places] : Iterates(f, F, Start(r), 0, N)
  <2>1. 0 <= N
    BY <1>4
  <2> QED
    BY <1>1, <1>2, <1>4, <2>1, Iteration
<1>6. ASSUME NEW n \in 0..N
      PROVE  f[n] = IF n <= r.head \/ ~ r.chunked THEN Start(r) ELSE After(f[n - 1], r.wire[n].ch)
  <2>1. Before(f, n, 0, Start(r)) \in Places
    BY <1>1, <1>4 DEF Before
  <2>2. f[n] = F[<<n, Before(f, n, 0, Start(r))>>]
    BY <1>5 DEF Iterates
  <2>3. ~ (n <= r.head) => Before(f, n, 0, Start(r)) = f[n - 1]
    BY <1>4 DEF Before
  <2> QED
    BY <2>1, <2>2, <2>3, <1>3
<1>7. Is(f)
  BY <1>6
<1>8. Is(part)
  BY <1>7, Zenon
<1>9. Parts(r) = part
  BY DEF Parts, N
<1> HIDE DEF part
<1>10. \A n \in 0..N : part[n] = IF n <= r.head \/ ~ r.chunked THEN Start(r)
                                 ELSE After(part[n - 1], r.wire[n].ch)
  BY <1>8
<1> DEFINE Odd == {n \in 0..N : part[n] \notin Places}
<1>11. Odd = {}
  <2> SUFFICES ASSUME Odd # {} PROVE FALSE
    OBVIOUS
  <2>1. Odd \in SUBSET Nat
    BY <1>4
  <2> HIDE DEF Odd
  <2>2. PICK n \in Odd : \A m \in Odd : n <= m
    BY <2>1, LeastOf
  <2>3. n \in 0..N /\ part[n] \notin Places
    BY DEF Odd
  <2>4. ~ (n <= r.head) /\ part[n] = After(part[n - 1], r.wire[n].ch)
    BY <2>3, <1>1, <1>10
  <2>5. n - 1 \in 0..N /\ ~ (n <= n - 1)
    BY <2>3, <2>4, <1>4
  <2>6. part[n - 1] \in Places
    BY <2>2, <2>5 DEF Odd
  <2> QED
    BY <2>3, <2>4, <2>6, AfterType
<1>12. \A n \in 0..N : part[n] \in Places
  BY <1>11
<1> QED
  BY <1>9, <1>10, <1>12 DEF N

\* What a symbol makes of the place of a chunked body.
LEMMA AfterIs ==
  ASSUME NEW part \in Places, NEW ch
  PROVE  LET next == After(part, ch) IN
         /\ part.in = "CHUNK_SIZE" /\ ch \in DOMAIN Digits =>
              next.in = "CHUNK_SIZE" /\ next.size = part.size * 16 + Digits[ch]
         /\ part.in = "CHUNK_SIZE" /\ ch = "LF" =>
              next.in = (IF part.size = 0 THEN "OVER" ELSE "BODY") /\ next.size = part.size
         /\ part.in = "CHUNK_SIZE" /\ ch = "CR" => next = part
         /\ part.in = "BODY" =>
              /\ next.in = (IF part.size = 1 THEN "TERMINATE_CHUNK" ELSE "BODY")
              /\ next.size = part.size - 1
         /\ part.in = "TERMINATE_CHUNK" =>
              IF ch = "LF" THEN next.in = "CHUNK_SIZE" /\ next.size = 0 ELSE next = part
         /\ part.in = "OVER" => next = part
<1>1. CASE part.in = "CHUNK_SIZE" /\ ch \in DOMAIN Digits
  <2>1. After(part, ch) = [in |-> "CHUNK_SIZE", size |-> part.size * 16 + Digits[ch]]
    BY <1>1, DigitIs DEF After
  <2> QED
    BY <2>1, <1>1, DigitIs
<1>2. CASE part.in = "CHUNK_SIZE" /\ ch \notin DOMAIN Digits
  BY <1>2 DEF After
<1>3. CASE part.in # "CHUNK_SIZE"
  BY <1>3 DEF After
<1> QED
  BY <1>1, <1>2, <1>3

LEMMA CountType ==
  ASSUME NEW r \in Replies, NEW n \in Nat
  PROVE  IsFiniteSet({i \in 1..n : r.wire[i].idx > 0}) /\ BodyCount(r, n) \in Nat
<1>1. IsFiniteSet(1..n)
  BY FS_Interval
<1>2. IsFiniteSet({i \in 1..n : r.wire[i].idx > 0})
  BY <1>1, FS_Subset
<1> QED
  BY <1>2, FS_CardinalityType DEF BodyCount

LEMMA CountGrows ==
  ASSUME NEW r \in Replies, NEW n \in Nat, NEW m \in n..Len(r.wire)
  PROVE  BodyCount(r, n) <= BodyCount(r, m)
<1> DEFINE Bytes(k) == {i \in 1..k : r.wire[i].idx > 0}
<1>1. IsFiniteSet(Bytes(m))
  BY CountType, ReplyType
<1>2. Bytes(n) \in SUBSET Bytes(m)
  BY ReplyType
<1>3. Cardinality(Bytes(n)) <= Cardinality(Bytes(m))
  BY <1>1, <1>2, FS_Subset
<1> QED
  BY <1>3 DEF BodyCount

LEMMA CountOne ==
  ASSUME NEW r \in Replies, NEW n \in 1..Len(r.wire)
  PROVE  BodyCount(r, n) = BodyCount(r, n - 1) + (IF r.wire[n].idx > 0 THEN 1 ELSE 0)
<1> DEFINE Bytes(k) == {i \in 1..k : r.wire[i].idx > 0}
<1>1. n - 1 \in Nat /\ n \in Nat
  BY ReplyType
<1>2. IsFiniteSet(Bytes(n - 1)) /\ Cardinality(Bytes(n - 1)) \in Nat
  BY <1>1, CountType DEF BodyCount
<1>3. n \notin Bytes(n - 1)
  BY <1>1
<1>4. CASE r.wire[n].idx > 0
  <2>1. Bytes(n) = Bytes(n - 1) \cup {n}
    BY <1>1, <1>4
  <2> HIDE DEF Bytes
  <2>2. Cardinality(Bytes(n - 1) \cup {n}) = Cardinality(Bytes(n - 1)) + 1
    BY <1>2, <1>3, FS_AddElement
  <2> USE DEF Bytes
  <2> QED
    BY <2>1, <2>2, <1>4 DEF BodyCount
<1>5. CASE ~ (r.wire[n].idx > 0)
  <2>1. Bytes(n) = Bytes(n - 1)
    BY <1>1, <1>5
  <2>2. BodyCount(r, n) = BodyCount(r, n - 1)
    BY <2>1, Zenon DEF BodyCount
  <2>3. BodyCount(r, n - 1) \in Nat
    BY <1>1, CountType
  <2> HIDE DEF Bytes
  <2> QED
    BY <2>2, <2>3, <1>5
<1> QED
  BY <1>4, <1>5

\* In the header there is nothing of the body.
LEMMA HeadCount ==
  ASSUME NEW r \in Replies, r.head <= Len(r.wire)
  PROVE  BodyCount(r, r.head) = 0 /\ BodyCount(r, 0) = 0
<1>1. Framed(r)
  BY ReplyAssumption
<1>2. \A i \in 1..r.head : ~ (r.wire[i].idx > 0)
  BY <1>1, ReplyType DEF Framed
<1>3. {i \in 1..r.head : r.wire[i].idx > 0} = {} /\ {i \in 1..0 : r.wire[i].idx > 0} = {}
  BY <1>2
<1> QED
  BY <1>3, FS_EmptySet DEF BodyCount

\* One symbol behind the header: where the body is then, and what it counts.
LEMMA SymbolStep ==
  ASSUME NEW r \in Replies, NEW q \in Nat, r.head <= q, q < Len(r.wire)
  PROVE  /\ Parts(r)[q] \in Places
         /\ Parts(r)[q + 1] = IF r.chunked THEN After(Parts(r)[q], r.wire[q + 1].ch)
                              ELSE Parts(r)[q]
         /\ ~ r.chunked => Parts(r)[q].in = "BODY"
         /\ BodyCount(r, q) \in Nat
         /\ BodyCount(r, q + 1) = BodyCount(r, q) + (IF Parts(r)[q].in = "BODY" THEN 1 ELSE 0)
         /\ Parts(r)[q].in = "BODY" => r.wire[q + 1].idx = BodyCount(r, q) + 1
         /\ Parts(r)[q].in = "CHUNK_SIZE" => r.wire[q + 1].ch # "x"
         /\ r.wire[q + 1].ch \in Chars
<1>1. q \in 0..Len(r.wire) /\ q + 1 \in 1..Len(r.wire) /\ q + 1 \in 0..Len(r.wire)
      /\ ~ (q + 1 <= r.head) /\ (q + 1) - 1 = q /\ q + 1 > r.head
  BY ReplyType
<1>2. Parts(r)[q] \in Places
  BY <1>1, PartsAre
<1>3. Parts(r)[q + 1] = IF ~ r.chunked THEN Start(r) ELSE After(Parts(r)[q], r.wire[q + 1].ch)
  BY <1>1, PartsAre
<1>4. ~ r.chunked => Parts(r)[q] = Start(r)
  BY <1>1, PartsAre
<1>5. BodyCount(r, q) \in Nat
  BY CountType
<1>6. Framed(r)
  BY ReplyAssumption
<1>7. /\ r.wire[q + 1].idx = IF Parts(r)[q].in = "BODY" THEN BodyCount(r, q) + 1 ELSE 0
      /\ Parts(r)[q].in = "CHUNK_SIZE" => r.wire[q + 1].ch # "x"
  BY <1>1, <1>6 DEF Framed
<1>8. BodyCount(r, q + 1) = BodyCount(r, q) + (IF r.wire[q + 1].idx > 0 THEN 1 ELSE 0)
  BY <1>1, CountOne
<1>9. BodyCount(r, q + 1) = BodyCount(r, q) + (IF Parts(r)[q].in = "BODY" THEN 1 ELSE 0)
  BY <1>5, <1>7, <1>8
<1>10. r.wire[q + 1].ch \in Chars
  BY <1>1, ReplyType
<1>11. Start(r).in = IF r.chunked THEN "CHUNK_SIZE" ELSE "BODY"
  BY DEF Start
<1>12. r.chunked \in BOOLEAN
  BY ReplyType
<1> QED
  BY <1>2, <1>3, <1>4, <1>5, <1>7, <1>9, <1>10, <1>11, <1>12

\* Behind the last chunk nothing of the body comes.
LEMMA OverStays ==
  ASSUME NEW r \in Replies, NEW q \in Nat, r.head <= q, q <= Len(r.wire), r.chunked,
         Parts(r)[q].in = "OVER"
  PROVE  BodyCount(r, Len(r.wire)) = BodyCount(r, q)
<1> DEFINE N == Len(r.wire)
           Kept(n) == Parts(r)[n].in = "OVER" /\ BodyCount(r, n) = BodyCount(r, q)
           Lost == {n \in q..N : ~ Kept(n)}
<1>1. N \in Nat
  BY ReplyType
<1>2. Kept(q)
  OBVIOUS
<1>3. ASSUME NEW n \in Nat, q <= n, n < N, Kept(n) PROVE Kept(n + 1)
  <2>1. r.head <= n /\ n < Len(r.wire)
    BY <1>3, ReplyType
  <2>2. /\ Parts(r)[n] \in Places
        /\ Parts(r)[n + 1] = After(Parts(r)[n], r.wire[n + 1].ch)
        /\ BodyCount(r, n) \in Nat
        /\ BodyCount(r, n + 1) = BodyCount(r, n) + (IF Parts(r)[n].in = "BODY" THEN 1 ELSE 0)
    BY <2>1, SymbolStep
  <2>3. Parts(r)[n + 1] = Parts(r)[n]
    BY <1>3, <2>2, AfterIs
  <2> QED
    BY <1>3, <2>2, <2>3
<1> HIDE DEF Kept, N
<1>4. Lost = {}
  <2> SUFFICES ASSUME Lost # {} PROVE FALSE
    OBVIOUS
  <2>1. Lost \in SUBSET Nat
    BY <1>1
  <2> HIDE DEF Lost
  <2>2. PICK n \in Lost : \A m \in Lost : n <= m
    BY <2>1, LeastOf
  <2>3. n \in q..N /\ ~ Kept(n)
    BY DEF Lost
  <2>4. n # q
    BY <1>2, <2>3
  <2>5. n - 1 \in Nat /\ q <= n - 1 /\ n - 1 < N /\ n - 1 \in q..N /\ ~ (n <= n - 1)
    BY <1>1, <2>3, <2>4
  <2>6. Kept(n - 1)
    BY <2>2, <2>5 DEF Lost
  <2>7. Kept((n - 1) + 1)
    BY <1>3, <2>5, <2>6
  <2>8. (n - 1) + 1 = n
    BY <1>1, <2>3
  <2> QED
    BY <2>3, <2>7, <2>8
<1>5. N \in q..N
  BY <1>1 DEF N
<1>6. Kept(N)
  BY <1>4, <1>5
<1> QED
  BY <1>6 DEF Kept, N

----------------------------------------------------------------------------
(* The buffer and the place of the scan in it.                             *)

LEMMA ReceivedType ==
  ASSUME TypeInv, NEW k \in 0..BuffSize, NEW n \in RecvSizes(BuffSize - k)
  PROVE  /\ Received(k, n) \in [1..BuffSize -> [ch : Chars, idx : Nat \cup {Stale}]]
         /\ \A i \in 1..k : Received(k, n)[i] = buff[i]
         /\ \A i \in (k + 1)..(k + n) : Received(k, n)[i] = reply.wire[taken + i - k]
         /\ n \in Nat /\ k + n \in 0..BuffSize /\ taken + n \in 0..Len(reply.wire)
<1> DEFINE Symbols == [ch : Chars, idx : Nat \cup {Stale}]
           wire == reply.wire
<1>1. BuffSize \in Nat /\ Len(wire) \in Nat /\ taken \in 0..Len(wire) /\ reply \in Replies
  BY ReplyType, ReplyAssumption DEF TypeInv
<1>2. n \in 1..(BuffSize - k) /\ taken + n <= Len(wire)
  BY DEF RecvSizes
<1>3. \A i \in 1..Len(wire) : wire[i] \in Symbols
  <2>1. \A i \in 1..Len(wire) : wire[i] \in [ch : Chars, idx : Nat]
    BY <1>1, ReplyType
  <2>2. \A s \in [ch : Chars, idx : Nat] : s \in Symbols
    OBVIOUS
  <2> QED
    BY <2>1, <2>2
<1>4. buff \in [1..BuffSize -> Symbols]
  BY DEF TypeInv
<1>5. Received(k, n) = [i \in 1..BuffSize |->
                          IF i \in (k + 1)..(k + n) THEN wire[taken + i - k] ELSE buff[i]]
  BY DEF Received
<1> HIDE DEF Symbols, wire
<1>6. \A i \in (k + 1)..(k + n) : taken + i - k \in 1..Len(wire) /\ i \in 1..BuffSize
  BY <1>1, <1>2
<1>7. \A i \in 1..k : i \in 1..BuffSize /\ i \notin (k + 1)..(k + n)
  BY <1>1, <1>2
<1>8. Received(k, n) \in [1..BuffSize -> Symbols]
  BY <1>3, <1>4, <1>5, <1>6
<1>9. /\ \A i \in 1..k : Received(k, n)[i] = buff[i]
      /\ \A i \in (k + 1)..(k + n) : Received(k, n)[i] = wire[taken + i - k]
  BY <1>5, <1>6, <1>7
<1>10. n \in Nat /\ k + n \in 0..BuffSize /\ taken + n \in 0..Len(wire)
  BY <1>1, <1>2
<1> QED
  BY <1>8, <1>9, <1>10 DEF Symbols, wire

\* The symbol the scan looks at.
LEMMA ScanAt ==
  ASSUME TypeInv, Scanning(smcode)
  PROVE  /\ p \in 1..BuffSize /\ p <= write_pos
         /\ Ch \in Chars /\ buff[p].idx \in Nat \cup {Stale}
<1>1. BuffSize \in Nat
  BY ReplyAssumption
<1>2. p \in 1..BuffSize /\ p <= write_pos
  BY <1>1 DEF TypeInv, Scanning
<1>3. buff[p] \in [ch : Chars, idx : Nat \cup {Stale}]
  BY <1>2 DEF TypeInv
<1> QED
  BY <1>2, <1>3 DEF Ch

LEMMA BlockIs ==
  ASSUME TypeInv, SectorInv, Scanning("BODY")
  PROVE  /\ Block \in Seq(Nat \cup {Stale}) /\ Len(Block) = block_length + 1
         /\ \A k \in 1..(block_length + 1) : Block[k] = buff[at + k - 1].idx
         /\ at + block_length = p /\ at \in Nat \ {0} /\ p <= write_pos
         /\ reply.chunked => block_length < chunked_size
<1>1. /\ at + block_length = p /\ at \in Nat \ {0} /\ block_length \in Nat
      /\ p \in 1..BuffSize /\ BuffSize \in Nat /\ p <= write_pos
      /\ reply.chunked => block_length < chunked_size
  BY ReplyAssumption DEF SectorInv, TypeInv, Scanning
<1>2. ASSUME NEW k \in 1..(block_length + 1) PROVE buff[at + k - 1].idx \in Nat \cup {Stale}
  <2>1. at + k - 1 \in 1..BuffSize
    BY <1>1
  <2>2. buff[at + k - 1] \in [ch : Chars, idx : Nat \cup {Stale}]
    BY <2>1 DEF TypeInv
  <2> QED
    BY <2>2
<1> DEFINE n == block_length + 1
<1>3. n \in Nat
  BY <1>1
<1>4. Block \in [1..n -> Nat \cup {Stale}] /\ \A k \in 1..n : Block[k] = buff[at + k - 1].idx
  BY <1>2 DEF Block
<1> HIDE DEF n
<1>5. Block \in Seq(Nat \cup {Stale}) /\ Len(Block) = n
  BY <1>3, <1>4
<1> QED
  BY <1>1, <1>4, <1>5 DEF n

\* Behind the header the scan is where the reply is.
LEMMA AtSymbol ==
  ASSUME ReplyInv, Filled, pc = "scan", p <= write_pos
  PROVE  \E q \in Nat :
           /\ q = taken - write_pos + p - 1
           /\ reply.head <= q /\ q < Len(reply.wire) /\ q + 1 <= taken
           /\ p \in Nat \ {0} /\ buff[p] = reply.wire[q + 1]
           /\ Agrees(q, Pending)
<1>1. /\ taken \in 0..Len(reply.wire) /\ write_pos \in Nat /\ p \in 1..write_pos
      /\ reply \in Replies /\ Len(reply.wire) \in Nat /\ reply.head \in Nat
  BY ReplyType DEF ReplyInv, TypeInv
<1>2. /\ reply.head <= taken - write_pos
      /\ buff[p] = reply.wire[taken - write_pos + p]
  BY <1>1 DEF ReplyInv, BufferInv
<1>3. Agrees(taken - write_pos + p - 1, Pending)
  BY DEF ReplyInv, FrameInv
<1> DEFINE q == taken - write_pos + p - 1
<1>4. /\ q \in Nat /\ reply.head <= q /\ q < Len(reply.wire) /\ q + 1 <= taken
      /\ q + 1 = taken - write_pos + p
  BY <1>1, <1>2
<1>5. /\ p \in Nat \ {0} /\ buff[p] = reply.wire[q + 1]
      /\ q = taken - write_pos + p - 1 /\ Agrees(q, Pending)
  BY <1>1, <1>2, <1>3, <1>4
<1> HIDE DEF q
<1> QED
  BY <1>4, <1>5

----------------------------------------------------------------------------
(* What one step keeps.                                                    *)

LEMMA TypeStep == TypeInv /\ SectorInv /\ [Next]_vars => TypeInv'
<1> USE ReplyAssumption
<1> SUFFICES ASSUME TypeInv, SectorInv, [Next]_vars PROVE TypeInv'
  OBVIOUS
<1>1. CASE FirstRecv
  <2>1. PICK n \in RecvSizes(BuffSize - pos) :
          buff' = Received(pos, n) /\ pos' = pos + n /\ taken' = taken + n
    BY <1>1 DEF FirstRecv
  <2>2. pos \in 0..BuffSize
    BY DEF TypeInv
  <2> QED
    BY <2>1, <2>2, <1>1, ReceivedType DEF FirstRecv, TypeInv, scan
<1>2. CASE FirstEnd
  BY <1>2 DEF FirstEnd, TypeInv, scan, rest
<1>3. CASE HeadRefused
  BY <1>3 DEF HeadRefused, TypeInv, scan, rest
<1>4. CASE HeadAccepted
  <2>1. PICK head \in 1..BuffSize :
          /\ buff' = [i \in 1..BuffSize |->
                        IF i <= BuffSize - head THEN buff[i + head] ELSE buff[i]]
          /\ write_pos' = BodyLength(head)
    BY <1>4 DEF HeadAccepted
  <2>2. write_pos' \in 0..BuffSize
    BY <2>1 DEF BodyLength
  <2>3. \A i \in 1..BuffSize : i <= BuffSize - head => i + head \in 1..BuffSize
    OBVIOUS
  <2>4. buff' \in [1..BuffSize -> [ch : Chars, idx : Nat \cup {Stale}]]
    BY <2>1, <2>3 DEF TypeInv
  <2> QED
    BY <2>2, <2>4, <1>4 DEF HeadAccepted, TypeInv
<1>5. CASE SkipReturn
  BY <1>5 DEF SkipReturn, TypeInv, scan, rest
<1>6. CASE SizeDigit
  <2>1. chunked_size' \in Nat
    <3>1. Digits[Ch] \in Nat
      BY <1>6, DigitIs DEF SizeDigit
    <3> QED
      BY <3>1, <1>6 DEF SizeDigit, TypeInv
  <2> QED
    BY <2>1, <1>6 DEF SizeDigit, TypeInv, rest
<1>7. CASE SizeEnd
  BY <1>7 DEF SizeEnd, TypeInv, scan, rest
<1>8. CASE SizeRefused
  BY <1>8 DEF SizeRefused, TypeInv, scan, rest
<1>9. CASE ChunkEnd
  BY <1>9 DEF ChunkEnd, TypeInv, scan, rest
<1>10. CASE BodyByte
  BY <1>10 DEF BodyByte, TypeInv, scan, rest
<1>11. CASE BodyBlock
  <2>1. Scanning("BODY") /\ delivered' = delivered \o Block
    BY <1>11 DEF BodyBlock
  <2>2. Block \in Seq(Nat \cup {Stale}) /\ (reply.chunked => block_length < chunked_size)
    BY <2>1, BlockIs
  <2>3. delivered' \in Seq(Nat \cup {Stale})
    <3>1. delivered \in Seq(Nat \cup {Stale})
      BY DEF TypeInv
    <3> QED
      BY <2>1, <2>2, <3>1
  <2>4. chunked_size' \in Nat
    BY <2>2, <1>11 DEF BodyBlock, TypeInv
  <2> QED
    BY <2>3, <2>4, <1>11 DEF BodyBlock, TypeInv, rest
<1>12. CASE NextSector
  BY <1>12 DEF NextSector, TypeInv, scan, rest
<1>13. CASE ReadEnd
  BY <1>13 DEF ReadEnd, TypeInv, scan, rest
<1>14. CASE FillRecv
  <2>1. PICK n \in RecvSizes(BuffSize - write_pos) :
          buff' = Received(write_pos, n) /\ write_pos' = write_pos + n /\ taken' = taken + n
    BY <1>14 DEF FillRecv
  <2>2. write_pos \in 0..BuffSize
    BY DEF TypeInv
  <2> QED
    BY <2>1, <2>2, <1>14, ReceivedType DEF FillRecv, TypeInv, scan
<1>15. CASE FillEnd
  <2>1. stream_eof' \in BOOLEAN
    BY <1>15 DEF FillEnd, TypeInv
  <2>2. /\ p' = 1 /\ pc' = "scan"
        /\ UNCHANGED <<reply, taken, buff, pos, smcode, at, block_length, chunked_size,
                       write_pos, delivered>>
    BY <1>15 DEF FillEnd
  <2> QED
    BY <2>1, <2>2 DEF TypeInv
<1>16. CASE UNCHANGED vars
  BY <1>16 DEF vars, TypeInv, scan, rest
<1> QED
  BY <1>1, <1>2, <1>3, <1>4, <1>5, <1>6, <1>7, <1>8, <1>9, <1>10, <1>11, <1>12, <1>13, <1>14, <1>15, <1>16 DEF Next, Recv, HeadStep, Scan

LEMMA SectorStep == TypeInv /\ FirstInv /\ SectorInv /\ [Next]_vars => SectorInv'
<1> USE ReplyAssumption, ReplyType
<1> SUFFICES ASSUME TypeInv, FirstInv, SectorInv, [Next]_vars PROVE SectorInv'
  OBVIOUS
<1>1. CASE FirstRecv
  BY <1>1 DEF FirstRecv, SectorInv, FirstInv
<1>2. CASE FirstEnd
  BY <1>2 DEF FirstEnd, SectorInv, scan, rest, FirstInv
<1>3. CASE HeadRefused
  BY <1>3 DEF HeadRefused, SectorInv, scan, rest, FirstInv
<1>4. CASE HeadAccepted
  BY <1>4 DEF HeadAccepted, SectorInv, BodyLength, TypeInv, FirstInv
<1>5. CASE SkipReturn
  BY <1>5 DEF SkipReturn, SectorInv, TypeInv, scan, rest, Scanning
<1>6. CASE SizeDigit
  BY <1>6 DEF SizeDigit, SectorInv, TypeInv, scan, rest, Scanning
<1>7. CASE SizeEnd
  BY <1>7 DEF SizeEnd, SectorInv, TypeInv, scan, rest, Scanning
<1>8. CASE SizeRefused
  BY <1>8 DEF SizeRefused, SectorInv, scan, rest, FirstInv
<1>9. CASE ChunkEnd
  BY <1>9 DEF ChunkEnd, SectorInv, TypeInv, scan, rest, Scanning
<1>10. CASE BodyByte
  BY <1>10 DEF BodyByte, SectorInv, TypeInv, scan, rest, Scanning
<1>11. CASE BodyBlock
  BY <1>11 DEF BodyBlock, SectorInv, TypeInv, scan, rest, Scanning
<1>12. CASE NextSector
  BY <1>12 DEF NextSector, SectorInv, TypeInv, scan, rest, Scanning
<1>13. CASE ReadEnd
  BY <1>13 DEF ReadEnd, SectorInv, scan, rest, FirstInv
<1>14. CASE FillRecv
  BY <1>14 DEF FillRecv, SectorInv, RecvSizes, TypeInv, scan
<1>15. CASE FillEnd
  BY <1>15 DEF FillEnd, SectorInv, TypeInv, scan, rest, Scanning
<1>16. CASE UNCHANGED vars
  BY <1>16 DEF vars, SectorInv, TypeInv, scan, rest, Scanning
<1> QED
  BY <1>1, <1>2, <1>3, <1>4, <1>5, <1>6, <1>7, <1>8, <1>9, <1>10, <1>11, <1>12, <1>13, <1>14, <1>15, <1>16 DEF Next, Recv, HeadStep, Scan

LEMMA FirstStep == TypeInv /\ FirstInv /\ [Next]_vars => FirstInv'
<1> SUFFICES ASSUME TypeInv, FirstInv, [Next]_vars, pc' \in {"first", "head"}
             PROVE  /\ taken' = pos' /\ \A i \in 1..pos' : buff'[i] = reply'.wire[i]
                    /\ pc' = "head" => pos' = BuffSize \/ taken' = Len(reply'.wire)
                    /\ delivered' = << >> /\ ~ stream_eof'
  BY DEF FirstInv
<1>1. CASE FirstRecv
  <2>1. PICK n \in RecvSizes(BuffSize - pos) :
          buff' = Received(pos, n) /\ pos' = pos + n /\ taken' = taken + n
    BY <1>1 DEF FirstRecv
  <2>2. pos \in 0..BuffSize /\ BuffSize \in Nat
    BY ReplyAssumption DEF TypeInv
  <2>3. /\ \A i \in 1..pos : buff'[i] = buff[i]
        /\ \A i \in (pos + 1)..(pos + n) : buff'[i] = reply.wire[taken + i - pos]
        /\ n \in Nat
    BY <2>1, <2>2, ReceivedType
  <2>4. pc = "first" /\ taken = pos /\ (\A i \in 1..pos : buff[i] = reply.wire[i])
        /\ delivered = << >> /\ ~ stream_eof
    BY <1>1 DEF FirstRecv, FirstInv
  <2>5. ASSUME NEW i \in 1..(pos + n) PROVE buff'[i] = reply.wire[i]
    <3>1. CASE i \in 1..pos
      BY <3>1, <2>3, <2>4
    <3>2. CASE i \in (pos + 1)..(pos + n)
      <4>1. taken + i - pos = i
        BY <2>2, <2>3, <2>4
      <4> QED
        BY <3>2, <4>1, <2>3
    <3> QED
      BY <3>1, <3>2, <2>2, <2>3
  <2>6. reply' = reply /\ delivered' = delivered /\ stream_eof' = stream_eof /\ pc' = "first"
    BY <1>1 DEF FirstRecv
  <2> QED
    BY <2>1, <2>4, <2>5, <2>6
<1>2. CASE FirstEnd
  BY <1>2 DEF FirstEnd, FirstInv
<1>3. CASE HeadStep \/ Scan \/ FillRecv \/ FillEnd
  BY <1>3 DEF HeadStep, Scan, HeadRefused, HeadAccepted, SkipReturn, SizeDigit, SizeEnd,
              SizeRefused, ChunkEnd, BodyByte, BodyBlock, NextSector, ReadEnd, FillRecv,
              FillEnd, Scanning, FirstInv
<1>4. CASE UNCHANGED vars
  BY <1>4 DEF vars, FirstInv
<1> QED
  BY <1>1, <1>2, <1>3, <1>4 DEF Next, Recv

\* When the reply fills the buffer, the header found ends in what was received.
LEMMA HeadIs ==
  ASSUME TypeInv, FirstInv, HeadAccepted, Filled
  PROVE  /\ taken = BuffSize /\ reply.head \in 1..BuffSize
         /\ buff' = [i \in 1..BuffSize |->
                       IF i <= BuffSize - reply.head THEN buff[i + reply.head] ELSE buff[i]]
         /\ write_pos' = BuffSize - reply.head
<1>1. PICK head \in 1..BuffSize :
        /\ IF HeadComplete THEN head = reply.head ELSE head > pos
        /\ buff' = [i \in 1..BuffSize |->
                      IF i <= BuffSize - head THEN buff[i + head] ELSE buff[i]]
        /\ write_pos' = BodyLength(head)
  BY DEF HeadAccepted
<1>2. taken = pos /\ (pos = BuffSize \/ taken = Len(reply.wire)) /\ pos \in 0..BuffSize
  BY DEF HeadAccepted, FirstInv, TypeInv
<1>3. BuffSize \in Nat /\ Len(reply.wire) >= BuffSize
  BY ReplyAssumption DEF Filled
<1>4. pos = BuffSize
  BY <1>2, <1>3
<1>5. head = reply.head
  BY <1>1, <1>3, <1>4
<1> QED
  BY <1>1, <1>2, <1>4, <1>5 DEF BodyLength

LEMMA BufferStep ==
  TypeInv /\ FirstInv /\ SectorInv /\ BufferInv /\ [Next]_vars => BufferInv'
<1> SUFFICES ASSUME TypeInv, FirstInv, SectorInv, BufferInv, [Next]_vars,
                    Filled', pc' \in {"scan", "fill"}
             PROVE  /\ reply'.head <= BuffSize /\ reply'.head <= taken' - write_pos'
                    /\ \A i \in 1..write_pos' : buff'[i] = reply'.wire[taken' - write_pos' + i]
  BY DEF BufferInv
<1>1. reply' = reply /\ Filled
  BY DEF Next, Recv, HeadStep, Scan, HeadRefused, HeadAccepted, SkipReturn, SizeDigit, SizeEnd,
         SizeRefused, ChunkEnd, BodyByte, BodyBlock, NextSector, ReadEnd, FirstRecv, FirstEnd,
         FillRecv, FillEnd, Filled, rest, vars
<1>2. CASE HeadAccepted
  <2>1. /\ taken = BuffSize /\ reply.head \in 1..BuffSize
        /\ buff' = [i \in 1..BuffSize |->
                      IF i <= BuffSize - reply.head THEN buff[i + reply.head] ELSE buff[i]]
        /\ write_pos' = BuffSize - reply.head
    BY <1>1, <1>2, HeadIs
  <2>2. taken' = taken /\ taken = pos /\ \A i \in 1..pos : buff[i] = reply.wire[i]
    BY <1>2 DEF HeadAccepted, FirstInv
  <2>3. BuffSize \in Nat
    BY ReplyAssumption
  <2>4. ASSUME NEW i \in 1..write_pos' PROVE buff'[i] = reply.wire[reply.head + i]
    <3>1. i \in 1..BuffSize /\ i <= BuffSize - reply.head /\ i + reply.head \in 1..pos
          /\ i + reply.head = reply.head + i
      BY <2>1, <2>2, <2>3
    <3>2. buff'[i] = buff[i + reply.head]
      BY <2>1, <3>1
    <3> QED
      BY <2>2, <3>1, <3>2
  <2>5. taken' - write_pos' = reply.head
    BY <2>1, <2>2, <2>3
  <2> QED
    BY <2>1, <2>4, <2>5, <1>1
<1>3. CASE FillRecv
  <2>1. PICK n \in RecvSizes(BuffSize - write_pos) :
          buff' = Received(write_pos, n) /\ write_pos' = write_pos + n /\ taken' = taken + n
    BY <1>3 DEF FillRecv
  <2>2. write_pos \in 0..BuffSize /\ taken \in Nat /\ BuffSize \in Nat
    BY ReplyAssumption, ReplyType DEF TypeInv
  <2>3. /\ \A i \in 1..write_pos : buff'[i] = buff[i]
        /\ \A i \in (write_pos + 1)..(write_pos + n) : buff'[i] = reply.wire[taken + i - write_pos]
        /\ n \in Nat
    BY <2>1, <2>2, ReceivedType
  <2>4. /\ reply.head <= BuffSize /\ reply.head <= taken - write_pos
        /\ \A i \in 1..write_pos : buff[i] = reply.wire[taken - write_pos + i]
    BY <1>1, <1>3 DEF FillRecv, BufferInv
  <2>5. taken' - write_pos' = taken - write_pos
    BY <2>1, <2>2, <2>3
  <2>6. ASSUME NEW i \in 1..(write_pos + n) PROVE buff'[i] = reply.wire[taken - write_pos + i]
    <3>1. CASE i \in 1..write_pos
      BY <3>1, <2>3, <2>4
    <3>2. CASE i \in (write_pos + 1)..(write_pos + n)
      <4>1. taken + i - write_pos = taken - write_pos + i
        BY <2>2
      <4> QED
        BY <3>2, <4>1, <2>3
    <3> QED
      BY <3>1, <3>2, <2>2, <2>3
  <2> QED
    BY <2>1, <2>4, <2>5, <2>6, <1>1
<1>4. CASE NextSector
  <2>1. write_pos' = 0 /\ taken' = taken /\ pc = "scan"
    BY <1>4 DEF NextSector
  <2>2. write_pos \in Nat /\ taken \in Nat /\ reply.head \in Nat
    BY ReplyAssumption, ReplyType DEF TypeInv
  <2>3. reply.head <= BuffSize /\ reply.head <= taken - write_pos
    BY <2>1, <1>1 DEF BufferInv
  <2> QED
    BY <2>1, <2>2, <2>3, <1>1
<1>5. CASE UNCHANGED <<taken, buff, write_pos>> /\ pc \in {"scan", "fill"}
  BY <1>1, <1>5 DEF BufferInv
<1> QED
  BY <1>2, <1>3, <1>4, <1>5 DEF Next, Recv, HeadStep, Scan, HeadRefused, SkipReturn, SizeDigit,
     SizeEnd, SizeRefused, ChunkEnd, BodyByte, BodyBlock, ReadEnd, FirstRecv, FirstEnd,
     FillEnd, Scanning, rest, vars

----------------------------------------------------------------------------
(* The scan stays where the reply is.                                      *)

\* What the scan knows of the symbol it looks at, the one behind the first q.
LEMMA AtStep ==
  ASSUME ReplyInv, Filled, Scanning(smcode)
  PROVE  \E q \in Nat :
           /\ q = taken - write_pos + p - 1 /\ q + 1 <= taken
           /\ reply.head <= q /\ q < Len(reply.wire)
           /\ Ch = reply.wire[q + 1].ch /\ Ch \in Chars
           /\ Agrees(q, Pending)
           /\ Parts(reply)[q] \in Places
           /\ Parts(reply)[q + 1] = IF reply.chunked THEN After(Parts(reply)[q], Ch)
                                    ELSE Parts(reply)[q]
           /\ ~ reply.chunked => smcode = "BODY"
           /\ BodyCount(reply, q) \in Nat
           /\ BodyCount(reply, q + 1) = BodyCount(reply, q) + (IF smcode = "BODY" THEN 1 ELSE 0)
           /\ smcode = "BODY" => reply.wire[q + 1].idx = BodyCount(reply, q) + 1
           /\ smcode = "CHUNK_SIZE" => Ch # "x"
<1>1. pc = "scan" /\ p <= write_pos /\ reply \in Replies
  BY DEF Scanning, ReplyInv, TypeInv
<1>2. PICK q \in Nat :
        /\ q = taken - write_pos + p - 1
        /\ reply.head <= q /\ q < Len(reply.wire) /\ q + 1 <= taken
        /\ buff[p] = reply.wire[q + 1]
        /\ Agrees(q, Pending)
  BY <1>1, AtSymbol
<1>3. Parts(reply)[q].in = smcode
  BY <1>2 DEF Agrees
<1>4. Ch = reply.wire[q + 1].ch
  BY <1>2 DEF Ch
<1>5. /\ Parts(reply)[q] \in Places
      /\ Parts(reply)[q + 1] = IF reply.chunked THEN After(Parts(reply)[q], reply.wire[q + 1].ch)
                               ELSE Parts(reply)[q]
      /\ ~ reply.chunked => Parts(reply)[q].in = "BODY"
      /\ BodyCount(reply, q) \in Nat
      /\ BodyCount(reply, q + 1)
           = BodyCount(reply, q) + (IF Parts(reply)[q].in = "BODY" THEN 1 ELSE 0)
      /\ Parts(reply)[q].in = "BODY" => reply.wire[q + 1].idx = BodyCount(reply, q) + 1
      /\ Parts(reply)[q].in = "CHUNK_SIZE" => reply.wire[q + 1].ch # "x"
      /\ reply.wire[q + 1].ch \in Chars
  BY <1>1, <1>2, SymbolStep
<1> QED
  BY <1>2, <1>3, <1>4, <1>5

\* The scan goes on behind the symbol.
LEMMA FrameOf ==
  ASSUME NEW q \in Nat, NEW n \in Nat, pc' = "scan",
         taken' - write_pos' + p' - 1 = q, Pending' = n, Agrees(q, n)'
  PROVE  FrameInv'
  BY DEF FrameInv

\* A symbol of the framing: nothing pending before it or after it.
LEMMA FramingSymbol ==
  ASSUME ReplyInv, Filled, Scanning(smcode), smcode # "BODY",
         pc' = "scan", UNCHANGED <<reply, taken, write_pos, delivered>>, p' = p + 1,
         smcode' # "BODY" \/ block_length' = 0,
         LET next == After(Parts(reply)[taken - write_pos + p - 1], Ch) IN
           /\ next.in = smcode'
           /\ smcode' \in {"CHUNK_SIZE", "BODY"} => next.size = chunked_size'
  PROVE  FrameInv'
<1>1. PICK q \in Nat :
        /\ q = taken - write_pos + p - 1
        /\ Agrees(q, Pending)
        /\ Parts(reply)[q + 1] = IF reply.chunked THEN After(Parts(reply)[q], Ch)
                                 ELSE Parts(reply)[q]
        /\ ~ reply.chunked => smcode = "BODY"
        /\ BodyCount(reply, q) \in Nat
        /\ BodyCount(reply, q + 1) = BodyCount(reply, q) + (IF smcode = "BODY" THEN 1 ELSE 0)
  BY AtStep
<1>2. Pending = 0 /\ Pending' = 0
  BY DEF Pending
<1>3. Parts(reply)[q + 1].in = smcode'
      /\ (smcode' \in {"CHUNK_SIZE", "BODY"} => Parts(reply)[q + 1].size = chunked_size')
  BY <1>1
<1>4. Len(delivered) = BodyCount(reply, q + 1)
  <2>1. Len(delivered) + 0 = BodyCount(reply, q)
    BY <1>1, <1>2 DEF Agrees
  <2>2. Len(delivered) \in Nat
    BY DEF ReplyInv, TypeInv
  <2> QED
    BY <1>1, <2>1, <2>2
<1>5. chunked_size' \in Int \/ smcode' \notin {"CHUNK_SIZE", "BODY"}
  <2>1. reply \in Replies /\ Parts(reply)[q] \in Places
    BY AtStep, <1>1 DEF ReplyInv, TypeInv
  <2>2. After(Parts(reply)[q], Ch) \in Places
    BY <2>1, AfterType
  <2> QED
    BY <1>1, <1>3, <2>2 DEF Places
<1>6. Agrees(q + 1, 0)'
  <2>1. Len(delivered) \in Nat
    BY DEF ReplyInv, TypeInv
  <2> QED
    BY <1>3, <1>4, <1>5, <2>1 DEF Agrees
<1>7. taken' - write_pos' + p' - 1 = q + 1
  BY <1>1 DEF ReplyInv, TypeInv
<1> QED
  BY <1>2, <1>6, <1>7, FrameOf

\* Where the reply is when the scan is there.
LEMMA PartIs ==
  ASSUME ReplyInv, Filled, Scanning(smcode)
  PROVE  LET part == Parts(reply)[taken - write_pos + p - 1] IN
         /\ part \in Places /\ part.in = smcode /\ Ch \in Chars
         /\ smcode = "CHUNK_SIZE" => part.size = chunked_size /\ Ch # "x"
         /\ smcode = "BODY" /\ reply.chunked => part.size = chunked_size - Pending
<1>1. PICK q \in Nat :
        /\ q = taken - write_pos + p - 1
        /\ Agrees(q, Pending)
        /\ Parts(reply)[q] \in Places
        /\ smcode = "CHUNK_SIZE" => Ch # "x"
        /\ Ch \in Chars
  BY AtStep
<1> QED
  BY <1>1 DEF Agrees

LEMMA FrameFraming ==
  ReplyInv /\ Filled /\ (SkipReturn \/ SizeDigit \/ SizeEnd \/ ChunkEnd) => FrameInv'
<1> SUFFICES ASSUME ReplyInv, Filled, SkipReturn \/ SizeDigit \/ SizeEnd \/ ChunkEnd
             PROVE  FrameInv'
  OBVIOUS
<1> DEFINE part == Parts(reply)[taken - write_pos + p - 1]
           next == After(part, Ch)
<1>1. /\ Scanning(smcode) /\ smcode # "BODY" /\ pc' = "scan" /\ p' = p + 1
      /\ UNCHANGED <<reply, taken, write_pos, delivered>>
  BY DEF SkipReturn, SizeDigit, SizeEnd, ChunkEnd, Scanning, rest
<1>2. /\ part \in Places /\ part.in = smcode
      /\ smcode = "CHUNK_SIZE" => part.size = chunked_size
  BY <1>1, PartIs
<1> HIDE DEF part
<1>3. smcode \in {"CHUNK_SIZE", "TERMINATE_CHUNK"} /\ chunked_size \in Nat
  BY <1>1 DEF ReplyInv, TypeInv
<1>4. CASE SkipReturn
  <2>1. Ch = "CR" /\ smcode' = smcode /\ chunked_size' = chunked_size
    BY <1>4 DEF SkipReturn
  <2>2. next = part
    BY <1>2, <1>3, <2>1, AfterIs, DigitIs
  <2> QED
    BY <1>1, <1>2, <1>3, <2>1, <2>2, FramingSymbol DEF part
<1>5. CASE SizeDigit
  <2>1. /\ smcode = "CHUNK_SIZE" /\ smcode' = smcode /\ Ch \in DOMAIN Digits
        /\ chunked_size' = chunked_size * 16 + Digits[Ch]
    BY <1>5 DEF SizeDigit, Scanning
  <2>2. next.in = "CHUNK_SIZE" /\ next.size = chunked_size'
    BY <1>2, <2>1, AfterIs
  <2> QED
    BY <1>1, <2>1, <2>2, FramingSymbol DEF part
<1>6. CASE SizeEnd
  <2>1. /\ smcode = "CHUNK_SIZE" /\ smcode' = "BODY" /\ Ch = "LF" /\ chunked_size # 0
        /\ chunked_size' = chunked_size /\ block_length' = 0
    BY <1>6 DEF SizeEnd, Scanning
  <2>2. next.in = "BODY" /\ next.size = chunked_size'
    BY <1>2, <1>3, <2>1, AfterIs
  <2> QED
    BY <1>1, <2>1, <2>2, FramingSymbol DEF part
<1>7. CASE ChunkEnd
  <2>1. /\ smcode = "TERMINATE_CHUNK"
        /\ IF Ch = "LF" THEN smcode' = "CHUNK_SIZE" /\ chunked_size' = 0 ELSE smcode' = smcode
    BY <1>7 DEF ChunkEnd, Scanning
  <2>2. IF Ch = "LF" THEN next.in = "CHUNK_SIZE" /\ next.size = 0 ELSE next.in = smcode
    BY <1>2, <2>1, AfterIs
  <2>3. smcode' # "BODY" /\ next.in = smcode' /\ (smcode' = "CHUNK_SIZE" => next.size = chunked_size')
    BY <2>1, <2>2
  <2> QED
    BY <1>1, <2>3, FramingSymbol DEF part
<1> QED
  BY <1>4, <1>5, <1>6, <1>7

LEMMA FrameByte == ReplyInv /\ Filled /\ BodyByte => FrameInv'
<1> SUFFICES ASSUME ReplyInv, Filled, BodyByte PROVE FrameInv'
  OBVIOUS
<1>1. /\ Scanning(smcode) /\ smcode = "BODY" /\ pc' = "scan" /\ p' = p + 1
      /\ p # write_pos /\ ~ (reply.chunked /\ block_length + 1 = chunked_size)
      /\ block_length' = block_length + 1
      /\ UNCHANGED <<reply, taken, write_pos, delivered, smcode, chunked_size>>
  BY DEF BodyByte, Scanning, rest
<1>2. /\ p \in Nat /\ write_pos \in Nat /\ block_length \in Nat /\ chunked_size \in Nat
      /\ taken \in Nat /\ p <= write_pos /\ Len(delivered) \in Nat /\ reply.chunked \in BOOLEAN
  BY <1>1, ReplyType DEF ReplyInv, TypeInv, Scanning
<1>3. Pending = block_length /\ Pending' = block_length + 1
  BY <1>1, <1>2 DEF Pending
<1>4. PICK q \in Nat :
        /\ q = taken - write_pos + p - 1
        /\ Agrees(q, Pending)
        /\ Parts(reply)[q] \in Places
        /\ Parts(reply)[q + 1] = IF reply.chunked THEN After(Parts(reply)[q], Ch)
                                 ELSE Parts(reply)[q]
        /\ BodyCount(reply, q) \in Nat
        /\ BodyCount(reply, q + 1) = BodyCount(reply, q) + (IF smcode = "BODY" THEN 1 ELSE 0)
        /\ smcode = "BODY" => reply.wire[q + 1].idx = BodyCount(reply, q) + 1
  BY <1>1, AtStep
<1>5. /\ Parts(reply)[q].in = "BODY"
      /\ reply.chunked => Parts(reply)[q].size = chunked_size - block_length
      /\ Len(delivered) + block_length = BodyCount(reply, q)
      /\ \A k \in 1..block_length : reply.wire[q - block_length + k].idx = Len(delivered) + k
  BY <1>1, <1>3, <1>4 DEF Agrees
<1>6. Parts(reply)[q + 1].in = "BODY"
  <2>1. reply.chunked => Parts(reply)[q].size # 1
    BY <1>1, <1>2, <1>5
  <2> QED
    BY <1>4, <1>5, <2>1, AfterIs
<1>7. reply.chunked => Parts(reply)[q + 1].size = chunked_size - (block_length + 1)
  <2>1. reply.chunked => Parts(reply)[q + 1].size = Parts(reply)[q].size - 1
    BY <1>4, <1>5, AfterIs
  <2> QED
    BY <1>2, <1>5, <2>1
<1>8. Len(delivered) + (block_length + 1) = BodyCount(reply, q + 1)
  BY <1>1, <1>2, <1>4, <1>5
<1>9. ASSUME NEW k \in 1..(block_length + 1)
      PROVE  reply.wire[(q + 1) - (block_length + 1) + k].idx = Len(delivered) + k
  <2>1. (q + 1) - (block_length + 1) + k = q - block_length + k
    BY <1>2
  <2>2. CASE k \in 1..block_length
    BY <2>1, <2>2, <1>5
  <2>3. CASE k = block_length + 1
    <3>1. q - block_length + k = q + 1 /\ Len(delivered) + k = BodyCount(reply, q) + 1
      BY <2>3, <1>2, <1>5
    <3> QED
      BY <2>1, <3>1, <1>1, <1>4
  <2> QED
    BY <2>2, <2>3, <1>2
<1>10. PICK m \in Nat : m = block_length + 1
  BY <1>2
<1>11. Agrees(q + 1, m)'
  BY <1>1, <1>6, <1>7, <1>8, <1>9, <1>10 DEF Agrees
<1>12. taken' - write_pos' + p' - 1 = q + 1
  BY <1>1, <1>2, <1>4
<1> QED
  BY <1>1, <1>3, <1>10, <1>11, <1>12, FrameOf

\* The bytes of a block are the next of the body.
LEMMA BlockGoesOn ==
  ASSUME ReplyInv, Filled, Scanning("BODY")
  PROVE  /\ Len(delivered \o Block) = Len(delivered) + block_length + 1
         /\ Len(delivered \o Block)
              = BodyCount(reply, taken - write_pos + p)
         /\ \A i \in 1..Len(delivered \o Block) : (delivered \o Block)[i] = i
<1>1. /\ Block \in Seq(Nat \cup {Stale}) /\ Len(Block) = block_length + 1
      /\ \A k \in 1..(block_length + 1) : Block[k] = buff[at + k - 1].idx
      /\ at + block_length = p /\ at \in Nat \ {0} /\ p <= write_pos
  BY BlockIs DEF ReplyInv
<1>2. /\ p \in Nat /\ write_pos \in Nat /\ block_length \in Nat /\ taken \in Nat
      /\ delivered \in Seq(Nat \cup {Stale}) /\ Len(delivered) \in Nat
      /\ Scanning(smcode) /\ smcode = "BODY"
  BY DEF ReplyInv, TypeInv, Scanning
<1>3. Pending = block_length
  BY <1>1, <1>2 DEF Pending
<1>4. PICK q \in Nat :
        /\ q = taken - write_pos + p - 1
        /\ Agrees(q, Pending)
        /\ BodyCount(reply, q) \in Nat
        /\ BodyCount(reply, q + 1) = BodyCount(reply, q) + (IF smcode = "BODY" THEN 1 ELSE 0)
        /\ smcode = "BODY" => reply.wire[q + 1].idx = BodyCount(reply, q) + 1
  BY <1>2, AtStep
<1>5. /\ Len(delivered) + block_length = BodyCount(reply, q)
      /\ \A k \in 1..block_length : reply.wire[q - block_length + k].idx = Len(delivered) + k
  BY <1>3, <1>4 DEF Agrees
<1>6. q + 1 = taken - write_pos + p
  BY <1>2, <1>4
<1>7. ASSUME NEW k \in 1..(block_length + 1) PROVE Block[k] = Len(delivered) + k
  <2>1. at + k - 1 \in 1..write_pos
    BY <1>1, <1>2
  <2>2. buff[at + k - 1] = reply.wire[taken - write_pos + (at + k - 1)]
    BY <2>1, <1>2 DEF ReplyInv, BufferInv, Scanning
  <2>3. taken - write_pos + (at + k - 1) = q - block_length + k
    BY <1>1, <1>2, <1>4
  <2>4. Block[k] = reply.wire[q - block_length + k].idx
    BY <1>1, <2>2, <2>3
  <2>5. CASE k \in 1..block_length
    BY <2>4, <2>5, <1>5
  <2>6. CASE k = block_length + 1
    <3>1. q - block_length + k = q + 1 /\ Len(delivered) + k = BodyCount(reply, q) + 1
      BY <2>6, <1>2, <1>5
    <3> QED
      BY <2>4, <3>1, <1>2, <1>4
  <2> QED
    BY <2>5, <2>6, <1>2
<1> DEFINE both == delivered \o Block
<1>8. Len(both) = Len(delivered) + (block_length + 1)
  <2>1. \A s, t \in Seq(Nat \cup {Stale}) : Len(s \o t) = Len(s) + Len(t)
    OBVIOUS
  <2>2. Len(both) = Len(delivered) + Len(Block)
    BY <1>1, <1>2, <2>1, Zenon
  <2> QED
    BY <2>2, <1>1
<1>9. Len(both) = BodyCount(reply, q + 1)
  BY <1>2, <1>4, <1>5, <1>8
<1>10. ASSUME NEW i \in 1..Len(both) PROVE both[i] = i
  <2>1. CASE i \in 1..Len(delivered)
    <3>1. both[i] = delivered[i]
      BY <2>1, <1>1, <1>2
    <3> QED
      BY <3>1, <2>1 DEF ReplyInv, BodyInOrder
  <2>2. CASE i \notin 1..Len(delivered)
    <3>1. i - Len(delivered) \in 1..(block_length + 1)
      BY <2>2, <1>2, <1>8
    <3>2. both[i] = Block[i - Len(delivered)]
      BY <2>2, <1>1, <1>2, <1>8
    <3> QED
      BY <3>1, <3>2, <1>2, <1>7
  <2> QED
    BY <2>1, <2>2
<1>11. Len(both) = Len(delivered) + block_length + 1
  BY <1>2, <1>8
<1> HIDE DEF both
<1>12. \A i \in 1..Len(both) : both[i] = i
  BY <1>10
<1> QED
  BY <1>6, <1>9, <1>11, <1>12 DEF both

LEMMA FrameBlock == ReplyInv /\ Filled /\ BodyBlock => FrameInv'
<1> SUFFICES ASSUME ReplyInv, Filled, BodyBlock PROVE FrameInv'
  OBVIOUS
<1>0. pc' \in {"scan", "done"}
  BY DEF BodyBlock, Scanning
<1> SUFFICES ASSUME pc' = "scan" PROVE FrameInv'
  BY <1>0 DEF FrameInv
<1>1. /\ Scanning("BODY") /\ Scanning(smcode) /\ smcode = "BODY" /\ p' = p + 1
      /\ p = write_pos \/ (reply.chunked /\ block_length + 1 = chunked_size)
      /\ delivered' = delivered \o Block
      /\ IF reply.chunked /\ block_length + 1 = chunked_size
         THEN smcode' = "TERMINATE_CHUNK" /\ UNCHANGED chunked_size
         ELSE /\ chunked_size' = IF reply.chunked THEN chunked_size - (block_length + 1)
                                                  ELSE chunked_size
              /\ UNCHANGED smcode
      /\ UNCHANGED <<reply, taken, write_pos>>
  BY DEF BodyBlock, Scanning, rest
<1>2. /\ p \in Nat /\ write_pos \in Nat /\ block_length \in Nat /\ chunked_size \in Nat
      /\ taken \in Nat /\ p <= write_pos /\ reply.chunked \in BOOLEAN
  BY <1>1, ReplyType DEF ReplyInv, TypeInv, Scanning
<1>3. Pending = block_length /\ Pending' = 0
  BY <1>1, <1>2 DEF Pending
<1>4. PICK q \in Nat :
        /\ q = taken - write_pos + p - 1
        /\ Agrees(q, Pending)
        /\ Parts(reply)[q] \in Places
        /\ Parts(reply)[q + 1] = IF reply.chunked THEN After(Parts(reply)[q], Ch)
                                 ELSE Parts(reply)[q]
        /\ BodyCount(reply, q) \in Nat
        /\ BodyCount(reply, q + 1) = BodyCount(reply, q) + (IF smcode = "BODY" THEN 1 ELSE 0)
  BY <1>1, AtStep
<1>5. /\ Parts(reply)[q].in = "BODY"
      /\ reply.chunked => Parts(reply)[q].size = chunked_size - block_length
  BY <1>1, <1>3, <1>4 DEF Agrees
<1>6. Parts(reply)[q + 1].in = smcode'
  <2>1. CASE reply.chunked
    <3>1. Parts(reply)[q].size = 1 <=> block_length + 1 = chunked_size
      BY <2>1, <1>2, <1>5
    <3> QED
      BY <2>1, <3>1, <1>1, <1>4, <1>5, AfterIs
  <2>2. CASE ~ reply.chunked
    BY <2>2, <1>1, <1>4, <1>5
  <2> QED
    BY <2>1, <2>2
<1>7. smcode' = "BODY" /\ reply.chunked => Parts(reply)[q + 1].size = chunked_size' - 0
  <2> SUFFICES ASSUME smcode' = "BODY", reply.chunked
               PROVE  Parts(reply)[q + 1].size = chunked_size' - 0
    OBVIOUS
  <2>1. Parts(reply)[q + 1].size = Parts(reply)[q].size - 1
    BY <1>4, <1>5, AfterIs
  <2>2. chunked_size' = chunked_size - (block_length + 1)
    BY <1>1
  <2> QED
    BY <2>1, <2>2, <1>2, <1>5
<1>8. Len(delivered') + 0 = BodyCount(reply, q + 1)
  <2>1. Len(delivered') = BodyCount(reply, taken - write_pos + p)
    BY <1>1, BlockGoesOn
  <2>2. q + 1 = taken - write_pos + p
    BY <1>2, <1>4
  <2> QED
    BY <2>1, <2>2, <1>1, <1>4
<1>9. smcode' # "CHUNK_SIZE"
  BY <1>1
<1>10. Agrees(q + 1, 0)'
  BY <1>1, <1>6, <1>7, <1>8, <1>9 DEF Agrees
<1>11. taken' - write_pos' + p' - 1 = q + 1
  BY <1>1, <1>2, <1>4
<1> QED
  BY <1>3, <1>10, <1>11, FrameOf

LEMMA FrameHead == ReplyInv /\ Filled /\ HeadAccepted => FrameInv'
<1> SUFFICES ASSUME ReplyInv, Filled, HeadAccepted PROVE FrameInv'
  OBVIOUS
<1>1. /\ smcode' = (IF reply.chunked THEN "CHUNK_SIZE" ELSE "BODY")
      /\ chunked_size' = 0 /\ block_length' = 0 /\ p' = 1 /\ pc' = "scan"
      /\ UNCHANGED <<reply, taken, delivered>> /\ pc = "head"
  BY DEF HeadAccepted
<1>2. taken = BuffSize /\ reply.head \in 1..BuffSize /\ write_pos' = BuffSize - reply.head
  BY HeadIs DEF ReplyInv
<1>3. /\ reply \in Replies /\ BuffSize \in Nat /\ Len(reply.wire) >= BuffSize
      /\ Len(reply.wire) \in Nat /\ reply.chunked \in BOOLEAN
  BY ReplyAssumption, ReplyType DEF ReplyInv, TypeInv, Filled
<1>4. Pending' = 0
  BY <1>1 DEF Pending
<1>5. PICK q \in Nat : q = reply.head /\ q \in 0..Len(reply.wire)
  BY <1>2, <1>3
<1>6. Parts(reply)[q] = Start(reply)
  BY <1>3, <1>5, PartsAre
<1>7. Parts(reply)[q].in = smcode' /\ Parts(reply)[q].size = 0
  BY <1>1, <1>6 DEF Start
<1>8. Len(delivered) = 0 /\ BodyCount(reply, q) = 0
  <2>1. delivered = << >>
    BY <1>1 DEF ReplyInv, FirstInv
  <2>2. BodyCount(reply, reply.head) = 0
    BY <1>2, <1>3, HeadCount
  <2> QED
    BY <2>1, <2>2, <1>5
<1>9. Agrees(q, 0)'
  BY <1>1, <1>3, <1>7, <1>8 DEF Agrees
<1>10. taken' - write_pos' + p' - 1 = q
  BY <1>1, <1>2, <1>3, <1>5
<1> QED
  BY <1>1, <1>4, <1>9, <1>10, FrameOf

\* From sector to sector: no symbol is scanned.
LEMMA FrameSector ==
  ReplyInv /\ Filled /\ (NextSector \/ FillRecv \/ FillEnd) => FrameInv'
<1> SUFFICES ASSUME ReplyInv, Filled, NextSector \/ FillRecv \/ FillEnd PROVE FrameInv'
  OBVIOUS
<1>1. /\ taken \in Nat /\ write_pos \in Nat /\ p \in Nat /\ BuffSize \in Nat
      /\ reply.head \in Nat
  BY ReplyAssumption, ReplyType DEF ReplyInv, TypeInv
<1>2. reply.head <= taken - write_pos
  BY DEF ReplyInv, BufferInv, NextSector, FillRecv, FillEnd
<1>3. CASE NextSector
  <2>1. /\ pc = "scan" /\ p > write_pos /\ write_pos' = 0 /\ pc' = "fill"
        /\ UNCHANGED <<reply, taken, smcode, chunked_size, delivered>>
    BY <1>3 DEF NextSector
  <2>2. p = write_pos + 1 /\ Pending = 0
    BY <2>1, <1>1 DEF ReplyInv, SectorInv, Pending
  <2>3. PICK q \in Nat : q = taken - write_pos + p - 1
    BY <1>1, <1>2, <2>2
  <2>4. Agrees(q, 0)
    BY <2>1, <2>2, <2>3 DEF ReplyInv, FrameInv
  <2>5. q = taken' - write_pos'
    BY <2>1, <2>2, <2>3, <1>1
  <2>6. Agrees(q, 0)'
    BY <2>1, <2>4 DEF Agrees
  <2> QED
    BY <2>1, <2>5, <2>6 DEF FrameInv
<1>4. CASE FillRecv
  <2>1. PICK n \in RecvSizes(BuffSize - write_pos) :
          write_pos' = write_pos + n /\ taken' = taken + n
    BY <1>4 DEF FillRecv
  <2>2. n \in Nat
    BY <1>1 DEF RecvSizes
  <2>3. /\ pc = "fill" /\ pc' = "fill"
        /\ UNCHANGED <<reply, smcode, chunked_size, delivered>>
    BY <1>4 DEF FillRecv, scan
  <2>4. PICK q \in Nat : q = taken - write_pos
    BY <1>1, <1>2
  <2>5. Agrees(q, 0)
    BY <2>3, <2>4 DEF ReplyInv, FrameInv
  <2>6. q = taken' - write_pos'
    BY <2>1, <2>2, <2>4, <1>1
  <2>7. Agrees(q, 0)'
    BY <2>3, <2>5 DEF Agrees
  <2> QED
    BY <2>3, <2>6, <2>7 DEF FrameInv
<1>5. CASE FillEnd
  <2>1. /\ pc = "fill" /\ pc' = "scan" /\ p' = 1
        /\ UNCHANGED <<reply, taken, smcode, block_length, chunked_size, write_pos, delivered>>
    BY <1>5 DEF FillEnd
  <2>2. block_length = 0
    BY <2>1 DEF ReplyInv, SectorInv
  <2>3. PICK q \in Nat : q = taken - write_pos
    BY <1>1, <1>2
  <2>4. Agrees(q, 0)
    BY <2>1, <2>3 DEF ReplyInv, FrameInv
  <2>5. Agrees(q, 0)' /\ Pending' = 0
    BY <2>1, <2>2, <2>4 DEF Agrees, Pending
  <2>6. taken' - write_pos' + p' - 1 = q
    BY <2>1, <2>3, <1>1
  <2> QED
    BY <2>1, <2>5, <2>6, FrameOf
<1> QED
  BY <1>3, <1>4, <1>5

LEMMA FrameStep == ReplyInv /\ [Next]_vars => FrameInv'
<1> SUFFICES ASSUME ReplyInv, [Next]_vars, Filled' PROVE FrameInv'
  BY DEF FrameInv
<1>1. Filled
  BY DEF Next, Recv, HeadStep, Scan, HeadRefused, HeadAccepted, SkipReturn, SizeDigit, SizeEnd,
         SizeRefused, ChunkEnd, BodyByte, BodyBlock, NextSector, ReadEnd, FirstRecv, FirstEnd,
         FillRecv, FillEnd, Filled, rest, vars
<1>2. CASE SkipReturn \/ SizeDigit \/ SizeEnd \/ ChunkEnd \/ BodyByte \/ BodyBlock
  BY <1>1, <1>2, FrameFraming, FrameByte, FrameBlock
<1>3. CASE HeadAccepted \/ NextSector \/ FillRecv \/ FillEnd
  BY <1>1, <1>3, FrameHead, FrameSector
<1>4. CASE FirstRecv \/ FirstEnd \/ HeadRefused \/ SizeRefused \/ ReadEnd
  <2>1. pc' \notin {"scan", "fill"}
    BY <1>4 DEF FirstRecv, FirstEnd, HeadRefused, SizeRefused, ReadEnd
  <2> QED
    BY <2>1 DEF FrameInv
<1>5. CASE UNCHANGED vars
  BY <1>5 DEF ReplyInv, FrameInv, Agrees, Pending, Filled, vars, scan
<1> QED
  BY <1>2, <1>3, <1>4, <1>5 DEF Next, Recv, HeadStep, Scan

----------------------------------------------------------------------------
(* What is delivered.                                                      *)

LEMMA OrderStep == ReplyInv /\ [Next]_vars => BodyInOrder'
<1> SUFFICES ASSUME ReplyInv, [Next]_vars, Filled'
             PROVE  \A i \in 1..Len(delivered') : delivered'[i] = i
  BY DEF BodyInOrder
<1>1. Filled
  BY DEF Next, Recv, HeadStep, Scan, HeadRefused, HeadAccepted, SkipReturn, SizeDigit, SizeEnd,
         SizeRefused, ChunkEnd, BodyByte, BodyBlock, NextSector, ReadEnd, FirstRecv, FirstEnd,
         FillRecv, FillEnd, Filled, rest, vars
<1>2. CASE BodyBlock
  <2>1. Scanning("BODY") /\ delivered' = delivered \o Block
    BY <1>2 DEF BodyBlock
  <2> QED
    BY <2>1, <1>1, BlockGoesOn
<1>3. CASE delivered' = delivered
  BY <1>1, <1>3 DEF ReplyInv, BodyInOrder
<1> QED
  BY <1>2, <1>3 DEF Next, Recv, HeadStep, Scan, HeadRefused, HeadAccepted, SkipReturn, SizeDigit,
     SizeEnd, SizeRefused, ChunkEnd, BodyByte, NextSector, ReadEnd, FirstRecv, FirstEnd,
     FillRecv, FillEnd, vars

\* A reply whose header is not accepted has delivered nothing.
LEMMA CompleteHead ==
  ASSUME ReplyInv, HeadRefused, Filled, reply.head <= BuffSize
  PROVE  /\ rc' \notin {"0", "-WERR_HTTP_HEADER"}
         /\ Len(delivered) <= BodyCount(reply, taken)
<1>1. /\ taken = pos /\ (pos = BuffSize \/ taken = Len(reply.wire)) /\ delivered = << >>
      /\ pos \in 0..BuffSize /\ taken \in Nat /\ reply \in Replies /\ BuffSize \in Nat
      /\ reply.head \in Nat /\ Len(reply.wire) \in Nat
  BY ReplyAssumption, ReplyType DEF HeadRefused, ReplyInv, FirstInv, TypeInv
<1>2. HeadComplete
  BY <1>1 DEF Filled, HeadComplete
<1>3. rc' \notin {"0", "-WERR_HTTP_HEADER"}
  <2>1. rc' = "-WERR_TCP_RECV" \/ rc' = reply.status
    BY <1>2 DEF HeadRefused
  <2>2. reply.status \notin {"0", "-WERR_HTTP_HEADER"}
    BY <1>1, ReplyAssumption
  <2> QED
    BY <2>1, <2>2
<1>4. BodyCount(reply, taken) \in Nat /\ Len(delivered) = 0
  BY <1>1, CountType
<1> QED
  BY <1>3, <1>4

\* A size line that is refused ends the body: it is the last chunk's.
LEMMA CompleteRefused ==
  ASSUME ReplyInv, SizeRefused, Filled
  PROVE  /\ Len(delivered) = BodyCount(reply, Len(reply.wire))
         /\ Len(delivered) <= BodyCount(reply, taken)
<1>1. /\ Scanning(smcode) /\ smcode = "CHUNK_SIZE" /\ Ch # "CR" /\ Ch \notin DOMAIN Digits
      /\ ~ (Ch = "LF" /\ chunked_size # 0)
  BY DEF SizeRefused, Scanning
<1>2. PICK q \in Nat :
        /\ q = taken - write_pos + p - 1 /\ q + 1 <= taken
        /\ reply.head <= q /\ q < Len(reply.wire)
        /\ Ch \in Chars /\ Ch # "x"
        /\ Agrees(q, Pending)
        /\ Parts(reply)[q] \in Places
        /\ Parts(reply)[q + 1] = After(Parts(reply)[q], Ch) /\ reply.chunked
        /\ BodyCount(reply, q) \in Nat
        /\ BodyCount(reply, q + 1) = BodyCount(reply, q) + 0
  <2>1. smcode # "BODY"
    BY <1>1
  <2> QED
    BY <1>1, <2>1, AtStep
<1>3. /\ reply \in Replies /\ taken \in 0..Len(reply.wire) /\ Len(delivered) \in Nat
      /\ Len(reply.wire) \in Nat /\ reply.head \in Nat
  BY ReplyType DEF ReplyInv, TypeInv
<1>4. Ch = "LF" /\ chunked_size = 0
  BY <1>1, <1>2, DigitIs
<1>5. Parts(reply)[q].in = "CHUNK_SIZE" /\ Parts(reply)[q].size = 0
  BY <1>1, <1>2, <1>4 DEF Agrees
<1>6. Parts(reply)[q + 1].in = "OVER"
  BY <1>2, <1>4, <1>5, AfterIs
<1>7. BodyCount(reply, Len(reply.wire)) = BodyCount(reply, q + 1)
  <2>1. q + 1 \in Nat /\ reply.head <= q + 1 /\ q + 1 <= Len(reply.wire)
    BY <1>2, <1>3
  <2> QED
    BY <1>2, <1>3, <1>6, <2>1, OverStays
<1>8. Len(delivered) = BodyCount(reply, q)
  <2>1. Pending = 0
    BY <1>1 DEF Pending
  <2>2. Len(delivered) + 0 = BodyCount(reply, q)
    BY <1>2, <2>1 DEF Agrees
  <2> QED
    BY <2>2, <1>3
<1>9. BodyCount(reply, q) <= BodyCount(reply, taken)
  <2>1. taken \in q..Len(reply.wire)
    BY <1>2, <1>3
  <2> QED
    BY <2>1, <1>3, CountGrows
<1> QED
  BY <1>2, <1>7, <1>8, <1>9

LEMMA CompleteBlock ==
  ASSUME ReplyInv, BodyBlock, Filled
  PROVE  Len(delivered') <= BodyCount(reply, taken)
<1>1. Scanning("BODY") /\ delivered' = delivered \o Block
  BY DEF BodyBlock
<1>2. Len(delivered') = BodyCount(reply, taken - write_pos + p)
  BY <1>1, BlockGoesOn
<1>3. /\ reply \in Replies /\ taken \in 0..Len(reply.wire) /\ Len(reply.wire) \in Nat
      /\ p \in Nat /\ write_pos \in Nat /\ p <= write_pos /\ reply.head \in Nat
      /\ reply.head <= taken - write_pos
  BY <1>1, ReplyType DEF ReplyInv, TypeInv, Scanning, BufferInv
<1>4. PICK q \in Nat : q = taken - write_pos + p /\ q <= taken
  BY <1>3
<1>5. BodyCount(reply, q) <= BodyCount(reply, taken)
  <2>1. taken \in q..Len(reply.wire)
    BY <1>3, <1>4
  <2> QED
    BY <2>1, <1>3, CountGrows
<1> QED
  BY <1>2, <1>4, <1>5

\* At the end of the stream nothing is pending.
LEMMA CompleteEnd ==
  ASSUME ReplyInv, ReadEnd, Filled
  PROVE  /\ Len(delivered) = BodyCount(reply, Len(reply.wire))
         /\ Len(delivered) <= BodyCount(reply, taken)
<1>1. /\ pc = "scan" /\ p = write_pos + 1 /\ taken = Len(reply.wire)
      /\ taken \in Nat /\ write_pos \in Nat /\ Len(delivered) \in Nat /\ reply \in Replies
  BY ReplyType DEF ReadEnd, ReplyInv, TypeInv, SectorInv
<1>2. Pending = 0
  BY <1>1 DEF Pending
<1>3. Agrees(taken - write_pos + p - 1, 0)
  BY <1>1, <1>2 DEF ReplyInv, FrameInv
<1>4. taken - write_pos + p - 1 = taken
  BY <1>1
<1>5. Len(delivered) + 0 = BodyCount(reply, taken)
  BY <1>3, <1>4 DEF Agrees
<1> QED
  BY <1>1, <1>5

LEMMA CompleteStep == ReplyInv /\ [Next]_vars => BodyComplete'
<1> SUFFICES ASSUME ReplyInv, [Next]_vars, Filled', reply'.head <= BuffSize, pc' = "done"
             PROVE  /\ rc' \in {"0", "-WERR_HTTP_HEADER"} =>
                         Len(delivered') = BodyCount(reply', Len(reply'.wire))
                    /\ Len(delivered') <= BodyCount(reply', taken')
  BY DEF BodyComplete
<1>1. CASE HeadRefused
  <2>1. UNCHANGED <<reply, taken, delivered>>
    BY <1>1 DEF HeadRefused
  <2>2. Filled /\ reply.head <= BuffSize
    BY <2>1 DEF Filled
  <2> QED
    BY <1>1, <2>1, <2>2, CompleteHead
<1>2. CASE SizeRefused
  <2>1. UNCHANGED <<reply, taken, delivered>>
    BY <1>2 DEF SizeRefused, rest
  <2>2. Filled
    BY <2>1 DEF Filled
  <2> QED
    BY <1>2, <2>1, <2>2, CompleteRefused
<1>3. CASE BodyBlock
  <2>1. UNCHANGED <<reply, taken>> /\ rc' = "refused"
    BY <1>3 DEF BodyBlock, Scanning, rest
  <2>2. Filled
    BY <2>1 DEF Filled
  <2> QED
    BY <1>3, <2>1, <2>2, CompleteBlock
<1>4. CASE ReadEnd
  <2>1. UNCHANGED <<reply, taken, delivered>>
    BY <1>4 DEF ReadEnd, rest
  <2>2. Filled
    BY <2>1 DEF Filled
  <2> QED
    BY <1>4, <2>1, <2>2, CompleteEnd
<1>5. CASE UNCHANGED vars
  BY <1>5 DEF vars, ReplyInv, BodyComplete, Filled
<1> QED
  BY <1>1, <1>2, <1>3, <1>4, <1>5 DEF Next, Recv, HeadStep, Scan, HeadAccepted, SkipReturn,
     SizeDigit, SizeEnd, ChunkEnd, BodyByte, NextSector, FirstRecv, FirstEnd, FillRecv, FillEnd,
     Scanning

----------------------------------------------------------------------------
LEMMA InitReply == Init => ReplyInv
<1> SUFFICES ASSUME Init PROVE ReplyInv
  OBVIOUS
<1>1. TypeInv
  <2>1. reply \in Replies /\ taken = 0 /\ pos = 0 /\ write_pos = 0
    BY DEF Init
  <2>2. taken \in 0..Len(reply.wire)
    <3>1. Len(reply.wire) \in Nat
      BY <2>1, ReplyType
    <3> QED
      BY <2>1, <3>1
  <2>3. buff \in [1..BuffSize -> [ch : Chars, idx : Nat \cup {Stale}]]
    BY DEF Init, Chars
  <2>4. pos \in 0..BuffSize /\ write_pos \in 0..BuffSize
    BY <2>1, ReplyAssumption
  <2>5. delivered \in Seq(Nat \cup {Stale})
    BY DEF Init
  <2>6. /\ pc = "first" /\ smcode = "BODY" /\ p = 1 /\ at = 1
        /\ block_length = 0 /\ chunked_size = 0 /\ stream_eof = FALSE
    BY Zenon DEF Init
  <2>7. /\ pc \in {"first", "head", "scan", "fill", "done"}
        /\ smcode \in {"CHUNK_SIZE", "BODY", "TERMINATE_CHUNK"}
        /\ stream_eof \in BOOLEAN
    BY <2>6, Zenon
  <2>8. p \in Nat \ {0} /\ at \in Nat \ {0} /\ block_length \in Nat /\ chunked_size \in Nat
    BY <2>6
  <2> QED
    BY <2>1, <2>2, <2>3, <2>4, <2>5, <2>7, <2>8, Zenon DEF TypeInv
<1>2. FirstInv /\ SectorInv /\ BufferInv /\ FrameInv /\ BodyInOrder /\ BodyComplete
  BY DEF Init, FirstInv, SectorInv, BufferInv, FrameInv, BodyInOrder, BodyComplete
<1> QED
  BY <1>1, <1>2 DEF ReplyInv

\* The inductive invariant holds at every step.
THEOREM ReplyInvariance == Spec => []ReplyInv
<1>1. ReplyInv /\ [Next]_vars => ReplyInv'
  BY TypeStep, FirstStep, SectorStep, BufferStep, FrameStep, OrderStep, CompleteStep DEF ReplyInv
<1> QED
  BY <1>1, InitReply, PTL DEF Spec

\* Wherever the sectors, the chunks and the recv calls are cut, event_body gets
\* the body in order, each byte once, and no framing.
THEOREM BodyKeepsOrder == Spec => []BodyInOrder
<1>1. ReplyInv => BodyInOrder
  BY DEF ReplyInv
<1> QED
  BY <1>1, ReplyInvariance, PTL

\* A call that returns 0 or refuses a size line has handed over the whole body.
THEOREM BodyArrives == Spec => []BodyComplete
<1>1. ReplyInv => BodyComplete
  BY DEF ReplyInv
<1> QED
  BY <1>1, ReplyInvariance, PTL

----------------------------------------------------------------------------
(* A short plain reply.                                                    *)

LEMMA ShortStep == TypeInv /\ FirstInv /\ SectorInv /\ ShortInv /\ [Next]_vars => ShortInv'
<1> SUFFICES ASSUME TypeInv, FirstInv, SectorInv, ShortInv, [Next]_vars,
                    ~ reply'.chunked, ~ Filled', reply'.head <= pos'
             PROVE  /\ pc' # "first" => taken' = Len(reply'.wire)
                    /\ Scanned' => Len(delivered') = BuffSize - reply'.head
                    /\ pc' \in {"scan", "fill"} =>
                         IF Scanned' THEN write_pos' = 0
                                     ELSE /\ write_pos' = BuffSize - reply'.head
                                          /\ Len(delivered') + Pending' = p' - 1
  BY DEF ShortInv
<1>1. /\ reply \in Replies /\ BuffSize \in Nat \ {0} /\ reply.head \in Nat
      /\ taken \in 0..Len(reply.wire) /\ Len(reply.wire) \in Nat
      /\ pos \in 0..BuffSize /\ write_pos \in 0..BuffSize /\ p \in Nat \ {0}
      /\ block_length \in Nat /\ Len(delivered) \in Nat
  BY ReplyAssumption, ReplyType DEF TypeInv
<1>2. reply' = reply
  BY DEF Next, Recv, HeadStep, Scan, HeadRefused, HeadAccepted, SkipReturn, SizeDigit, SizeEnd,
         SizeRefused, ChunkEnd, BodyByte, BodyBlock, NextSector, ReadEnd, FirstRecv, FirstEnd,
         FillRecv, FillEnd, rest, vars
<1>3. ~ reply.chunked /\ ~ Filled /\ Len(reply.wire) < BuffSize
  BY <1>1, <1>2 DEF Filled
<1>4. pc \in {"scan", "fill"} => smcode = "BODY"
  BY <1>3 DEF SectorInv
<1>5. CASE FirstRecv
  BY <1>5 DEF FirstRecv, Scanned
<1>6. CASE FirstEnd
  <2>1. taken = pos /\ (pos = BuffSize \/ taken = Len(reply.wire))
    BY <1>6 DEF FirstEnd, FirstInv
  <2>2. taken = Len(reply.wire)
    BY <2>1, <1>1, <1>3
  <2> QED
    BY <2>2, <1>2, <1>6 DEF FirstEnd, Scanned
<1>7. CASE ~ (FirstRecv \/ FirstEnd)
  <2>1. pos' = pos
    BY <1>7 DEF Next, Recv, HeadStep, Scan, HeadRefused, HeadAccepted, SkipReturn, SizeDigit,
       SizeEnd, SizeRefused, ChunkEnd, BodyByte, BodyBlock, NextSector, ReadEnd, FillRecv, FillEnd,
       rest, vars
  <2>2. /\ pc # "first" => taken = Len(reply.wire)
        /\ Scanned => Len(delivered) = BuffSize - reply.head
        /\ pc \in {"scan", "fill"} =>
             IF Scanned THEN write_pos = 0
                        ELSE /\ write_pos = BuffSize - reply.head
                             /\ Len(delivered) + Pending = p - 1
    BY <1>2, <1>3, <2>1 DEF ShortInv
  <2>3. CASE HeadRefused
    <3>1. taken' = Len(reply.wire) /\ pc' = "done"
      BY <2>2, <2>3 DEF HeadRefused
    <3>2. rc' # "0"
      BY <1>1, <2>3, ReplyAssumption DEF HeadRefused
    <3> QED
      BY <1>2, <3>1, <3>2 DEF Scanned
  <2>4. CASE HeadAccepted
    <3>1. PICK head \in 1..BuffSize :
            /\ IF HeadComplete THEN head = reply.head ELSE head > pos
            /\ write_pos' = BodyLength(head)
      BY <2>4 DEF HeadAccepted
    <3>2. head = reply.head
      BY <1>1, <1>2, <2>1, <3>1 DEF HeadComplete
    <3>3. /\ pc' = "scan" /\ p' = 1 /\ block_length' = 0 /\ taken' = Len(reply.wire)
          /\ ~ stream_eof' /\ delivered' = << >>
      BY <2>2, <2>4 DEF HeadAccepted, FirstInv
    <3>4. Pending' = 0 /\ ~ Scanned' /\ Len(delivered') = 0
      BY <3>3 DEF Pending, Scanned
    <3> QED
      BY <1>2, <3>1, <3>2, <3>3, <3>4 DEF BodyLength
  <2>5. CASE SkipReturn \/ SizeDigit \/ SizeEnd \/ SizeRefused \/ ChunkEnd
    BY <1>4, <2>5 DEF SkipReturn, SizeDigit, SizeEnd, SizeRefused, ChunkEnd, Scanning
  <2>6. ASSUME pc = "scan", p <= write_pos
        PROVE  /\ ~ Scanned /\ write_pos = BuffSize - reply.head /\ Pending = block_length
               /\ Len(delivered) + block_length = p - 1 /\ ~ stream_eof
               /\ taken = Len(reply.wire)
    BY <1>1, <1>4, <2>2, <2>6 DEF Scanned, Pending
  <2>7. CASE BodyByte
    <3>1. /\ pc = "scan" /\ p <= write_pos /\ p # write_pos
          /\ pc' = pc /\ smcode' = smcode /\ p' = p + 1 /\ block_length' = block_length + 1
          /\ UNCHANGED <<taken, write_pos, stream_eof, rc, delivered>>
      BY <2>7 DEF BodyByte, Scanning, rest
    <3>2. Pending' = block_length + 1
      BY <1>1, <1>4, <3>1 DEF Pending
    <3>3. ~ Scanned'
      BY <2>6, <3>1 DEF Scanned
    <3> QED
      BY <1>1, <1>2, <2>6, <3>1, <3>2, <3>3
  <2>8. CASE BodyBlock
    <3>1. /\ Scanning("BODY") /\ pc = "scan" /\ p <= write_pos /\ p = write_pos
          /\ delivered' = delivered \o Block
          /\ UNCHANGED <<taken, write_pos, stream_eof>>
      BY <1>3, <2>8 DEF BodyBlock, Scanning, rest
    <3>2. Len(delivered') = Len(delivered) + block_length + 1
      <4>1. Block \in Seq(Nat \cup {Stale}) /\ Len(Block) = block_length + 1
        BY <3>1, BlockIs
      <4>2. delivered \in Seq(Nat \cup {Stale})
        BY DEF TypeInv
      <4> HIDE DEF Block
      <4>3. Len(delivered \o Block) = Len(delivered) + Len(Block)
        BY <4>1, <4>2
      <4> QED
        BY <1>1, <3>1, <4>1, <4>3
    <3>3. CASE rc' = "refused" /\ pc' = "done"
      BY <1>2, <2>6, <3>1, <3>3 DEF Scanned
    <3>4. CASE p' = p + 1 /\ UNCHANGED <<pc, rc>>
      <4>1. Pending' = 0
        BY <1>1, <3>1, <3>4 DEF Pending
      <4>2. ~ Scanned'
        BY <2>6, <3>1, <3>4 DEF Scanned
      <4> QED
        BY <1>1, <1>2, <2>6, <3>1, <3>2, <3>4, <4>1, <4>2
    <3> QED
      BY <2>8, <3>3, <3>4 DEF BodyBlock
  <2>9. CASE NextSector
    <3>1. /\ pc = "scan" /\ p > write_pos /\ ~ stream_eof /\ write_pos' = 0 /\ pc' = "fill"
          /\ UNCHANGED <<taken, delivered>>
      BY <2>9 DEF NextSector
    <3>2. ~ Scanned /\ Pending = 0 /\ p = write_pos + 1
      BY <1>1, <3>1 DEF Scanned, Pending, SectorInv
    <3>3. Scanned'
      BY <3>1 DEF Scanned
    <3> QED
      BY <1>1, <1>2, <2>2, <3>1, <3>2, <3>3
  <2>10. CASE ReadEnd
    <3>1. Scanned /\ pc' = "done" /\ pc = "scan" /\ UNCHANGED <<taken, delivered>>
      BY <2>10 DEF ReadEnd, Scanned, rest
    <3> QED
      BY <1>2, <2>2, <3>1
  <2>11. CASE FillRecv
    BY <1>1, <2>2, <2>11 DEF FillRecv, RecvSizes
  <2>12. CASE FillEnd
    <3>1. pc = "fill" /\ pc' = "scan" /\ UNCHANGED <<taken, write_pos, delivered>>
      BY <2>12 DEF FillEnd
    <3>2. Scanned /\ write_pos = 0 /\ Len(delivered) = BuffSize - reply.head
      BY <2>2, <3>1 DEF Scanned
    <3>3. stream_eof' = TRUE
      BY <1>1, <2>12, <3>2 DEF FillEnd
    <3>4. Scanned'
      BY <3>1, <3>3 DEF Scanned
    <3> QED
      BY <1>2, <2>2, <3>1, <3>2, <3>4
  <2>13. CASE UNCHANGED vars
    <3>1. UNCHANGED <<reply, taken, pc, write_pos, stream_eof, rc, delivered, p, smcode,
                      block_length>>
      BY <2>13 DEF vars, scan
    <3>2. Scanned' = Scanned /\ Pending' = Pending
      BY <3>1 DEF Scanned, Pending
    <3> QED
      BY <2>2, <3>1, <3>2
  <2> QED
    BY <1>7, <2>3, <2>4, <2>5, <2>7, <2>8, <2>9, <2>10, <2>11, <2>12, <2>13
       DEF Next, Recv, HeadStep, Scan
<1> QED
  BY <1>5, <1>6, <1>7

\* The first sector of a short plain reply is delivered whole, and nothing else.
THEOREM ShortInvariance == Spec => []ShortInv
<1>1. Init => ShortInv
  BY ReplyAssumption, ReplyType DEF Init, ShortInv, Scanned
<1>2. ReplyInv /\ ShortInv /\ [Next]_vars => ShortInv'
  BY ShortStep DEF ReplyInv
<1> QED
  BY <1>1, <1>2, ReplyInvariance, PTL DEF Spec

\* A plain reply that ends inside the first sector is padded to the buffer's
\* size with what the buffer held before.
THEOREM ShortReplies == Spec => []ShortReplyPadded
<1>1. ShortInv => ShortReplyPadded
  BY DEF ShortInv, ShortReplyPadded, Scanned
<1> QED
  BY <1>1, ShortInvariance, PTL
=============================================================================
