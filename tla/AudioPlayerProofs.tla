-------------------------- MODULE AudioPlayerProofs --------------------------
(***************************************************************************)
(* Proofs about the opening of a station, for any number of opens, of API  *)
(* requests and of sockets, any sizes, and every interleaving of the       *)
(* control task, the connection tasks and the decoders.                    *)
(***************************************************************************)
EXTENDS AudioPlayer, FiniteSetTheorems, TLAPS

----------------------------------------------------------------------------
(* The inductive invariant.                                                *)

\* A task that writes has something left to write.
WriteInv == \A k \in Opens : conn[k] = "write" => left[k] > 0

\* The status is set before a decoder is created and never set back, so a task
\* that has created one does not come to create_audio_mainloop_task again.
DecoderInv == \A k \in Opens :
  /\ conn[k] = "spawn" => audio_status = "DECODING"
  /\ spawned[k] > 0 => audio_status = "DECODING" /\ conn[k] \notin {"setup", "spawn"}
  /\ spawned[k] <= 1

\* The open under way has one socket of its own only from its connection on.
SocketInv ==
  /\ IsFiniteSet(held)
  /\ opc = "connect" => fd \in held
  /\ opc \in {"resolve", "socket", "sleep"} => Cardinality(held) + 1 <= opened + apis
  /\ Cardinality(held) <= opened + apis

PlayerInv == TypeOK /\ WriteInv /\ DecoderInv /\ SocketInv

----------------------------------------------------------------------------
\* Types.
LEMMA TypeStep ==
  ASSUME TypeOK, WriteInv, [Next]_vars PROVE TypeOK'
<1> USE PlayerAssumption DEF TypeOK, audio, open, stream, decs
<1>1. CASE OpenCall
  BY <1>1 DEF OpenCall
<1>2. CASE ConnResolve
  BY <1>2 DEF ConnResolve, Fails
<1>3. CASE ConnSocket
  BY <1>3 DEF ConnSocket
<1>4. CASE ConnConnect
  BY <1>4 DEF ConnConnect, Fails
<1>5. CASE OpenRetry
  BY <1>5 DEF OpenRetry
<1>6. CASE OpenSend
  BY <1>6 DEF OpenSend
<1>7. CASE OpenCreate
  BY <1>7 DEF OpenCreate
<1>8. CASE ApiRequest
  BY <1>8 DEF ApiRequest
<1>9. ASSUME NEW k \in Opens, Connection(k) PROVE TypeOK'
  <2>1. CASE HeadReply(k)
    BY <2>1 DEF HeadReply
  <2>2. CASE ReplyEnds(k)
    BY <2>2 DEF ReplyEnds, ConnEnd
  <2>3. CASE BodyBlock(k)
    BY <2>3 DEF BodyBlock
  <2>4. CASE BodyWrite(k)
    <3>1. left[k] \in 1..MaxBlock
      BY <2>4 DEF BodyWrite, WriteInv
    <3>2. Append(fifo, k) \in Seq(Opens) /\ Len(Append(fifo, k)) <= FifoSize
      BY <2>4 DEF BodyWrite
    <3> QED
      BY <2>4, <3>1, <3>2 DEF BodyWrite
  <2>5. CASE BodyCheck(k)
    BY <2>5 DEF BodyCheck
  <2>6. CASE DecoderSetup(k)
    BY <2>6 DEF DecoderSetup, ConnEnd
  <2>7. CASE DecoderSpawn(k)
    <3>1. starting' \in Nat /\ spawned' \in [Opens -> Nat]
      <4>1. spawned[k] + 1 \in Nat /\ starting + 1 \in Nat
        OBVIOUS
      <4>2. spawned' = [spawned EXCEPT ![k] = @ + 1] \/ spawned' = spawned
        BY <2>7 DEF DecoderSpawn
      <4>3. starting' = starting + 1 \/ starting' = starting
        BY <2>7 DEF DecoderSpawn
      <4> QED
        BY <4>1, <4>2, <4>3
    <3>2. conn' \in [Opens -> {"none", "head", "recv", "write", "check", "setup", "spawn", "done"}]
      BY <2>7 DEF DecoderSpawn, ConnEnd
    <3>3. causes' \subseteq {"send", "task", "reply", "type", "memory"}
      BY <2>7 DEF DecoderSpawn, ConnEnd
    <3> QED
      BY <2>7, <3>1, <3>2, <3>3 DEF DecoderSpawn
  <2> HIDE DEF TypeOK
  <2> QED
    BY <1>9, <2>1, <2>2, <2>3, <2>4, <2>5, <2>6, <2>7 DEF Connection
<1>10. CASE DecoderAlloc
  <2>1. starting' \in Nat /\ decoding' \in Nat
    BY <1>10 DEF DecoderAlloc
  <2>2. causes' \subseteq {"send", "task", "reply", "type", "memory"}
    BY <1>10 DEF DecoderAlloc
  <2> QED
    BY <1>10, <2>1, <2>2 DEF DecoderAlloc
<1>11. CASE DecoderRead
  <2>1. Tail(fifo) \in Seq(Opens) /\ Len(Tail(fifo)) <= FifoSize
    BY <1>11 DEF DecoderRead
  <2> QED
    BY <1>11, <2>1 DEF DecoderRead
<1>12. CASE UNCHANGED vars
  BY <1>12 DEF vars
<1> HIDE DEF TypeOK
<1> QED
  BY <1>1, <1>2, <1>3, <1>4, <1>5, <1>6, <1>7, <1>8, <1>9, <1>10, <1>11, <1>12
  DEF Next, Control, Decoder

LEMMA WriteStep ==
  ASSUME TypeOK, WriteInv, [Next]_vars PROVE WriteInv'
<1> USE PlayerAssumption DEF TypeOK, WriteInv, open, stream
<1>1. CASE OpenCall \/ ConnResolve \/ ConnSocket \/ ConnConnect \/ OpenRetry \/ OpenSend \/ ApiRequest
  BY <1>1 DEF OpenCall, ConnResolve, ConnSocket, ConnConnect, OpenRetry, OpenSend, ApiRequest
<1>2. CASE OpenCreate
  BY <1>2 DEF OpenCreate
<1>3. ASSUME NEW k \in Opens, Connection(k) PROVE WriteInv'
  <2>1. CASE BodyBlock(k)
    BY <2>1 DEF BodyBlock
  <2>2. CASE BodyWrite(k)
    BY <2>2 DEF BodyWrite
  <2>3. CASE HeadReply(k) \/ ReplyEnds(k) \/ BodyCheck(k) \/ DecoderSetup(k) \/ DecoderSpawn(k)
    BY <2>3 DEF HeadReply, ReplyEnds, BodyCheck, DecoderSetup, DecoderSpawn, ConnEnd
  <2> QED
    BY <1>3, <2>1, <2>2, <2>3 DEF Connection
<1>4. CASE Decoder
  BY <1>4 DEF Decoder, DecoderAlloc, DecoderRead
<1>5. CASE UNCHANGED vars
  BY <1>5 DEF vars
<1> QED
  BY <1>1, <1>2, <1>3, <1>4, <1>5 DEF Next, Control

----------------------------------------------------------------------------
\* One decoder for each connection task.
LEMMA DecoderStep ==
  ASSUME TypeOK, DecoderInv, [Next]_vars PROVE DecoderInv'
<1> USE DEF TypeOK, DecoderInv, audio, open, stream, decs
<1>1. CASE OpenCall \/ ConnResolve \/ ConnSocket \/ ConnConnect \/ OpenRetry \/ OpenSend \/ ApiRequest
  BY <1>1 DEF OpenCall, ConnResolve, ConnSocket, ConnConnect, OpenRetry, OpenSend, ApiRequest
<1>2. CASE OpenCreate
  BY <1>2 DEF OpenCreate
<1>3. ASSUME NEW k \in Opens, Connection(k) PROVE DecoderInv'
  <2>1. CASE HeadReply(k) \/ ReplyEnds(k) \/ BodyBlock(k) \/ BodyWrite(k)
    BY <2>1 DEF HeadReply, ReplyEnds, BodyBlock, BodyWrite, ConnEnd
  <2>2. CASE BodyCheck(k)
    BY <2>2 DEF BodyCheck
  <2>3. CASE DecoderSetup(k)
    BY <2>3 DEF DecoderSetup, ConnEnd
  <2>4. CASE DecoderSpawn(k)
    <3>1. conn[k] = "spawn" /\ spawned[k] = 0 /\ audio_status = "DECODING" /\ audio_status' = audio_status
      BY <2>4 DEF DecoderSpawn
    <3>2. CASE spawned' = [spawned EXCEPT ![k] = @ + 1] /\ conn' = [conn EXCEPT ![k] = "recv"]
      <4> SUFFICES ASSUME NEW j \in Opens
                   PROVE  /\ conn'[j] = "spawn" => audio_status' = "DECODING"
                          /\ spawned'[j] > 0 => /\ audio_status' = "DECODING"
                                                /\ conn'[j] \notin {"setup", "spawn"}
                          /\ spawned'[j] <= 1
        OBVIOUS
      <4>1. CASE j = k
        BY <3>1, <3>2, <4>1
      <4>2. CASE j # k
        BY <3>1, <3>2, <4>2
      <4> QED
        BY <4>1, <4>2
    <3>3. CASE spawned' = spawned /\ conn' = [conn EXCEPT ![k] = "done"]
      BY <3>1, <3>3
    <3> QED
      BY <2>4, <3>2, <3>3 DEF DecoderSpawn, ConnEnd
  <2> QED
    BY <1>3, <2>1, <2>2, <2>3, <2>4 DEF Connection
<1>4. CASE Decoder
  BY <1>4 DEF Decoder, DecoderAlloc, DecoderRead
<1>5. CASE UNCHANGED vars
  BY <1>5 DEF vars
<1> QED
  BY <1>1, <1>2, <1>3, <1>4, <1>5 DEF Next, Control

----------------------------------------------------------------------------
\* A socket more, and a socket less.
LEMMA SocketStep ==
  ASSUME TypeOK, SocketInv, [Next]_vars PROVE SocketInv'
<1> USE DEF TypeOK, SocketInv, open
<1>1. /\ \A s \in Fds \ held : /\ IsFiniteSet(held \cup {s})
                               /\ Cardinality(held \cup {s}) = Cardinality(held) + 1
      /\ \A s \in held : /\ IsFiniteSet(held \ {s})
                         /\ Cardinality(held \ {s}) + 1 = Cardinality(held)
      /\ Cardinality(held) \in Nat
  <2>1. Cardinality(held) \in Nat
    BY FS_CardinalityType
  <2>2. ASSUME NEW s \in Fds \ held
        PROVE  IsFiniteSet(held \cup {s}) /\ Cardinality(held \cup {s}) = Cardinality(held) + 1
    BY FS_AddElement
  <2>3. ASSUME NEW s \in held
        PROVE  IsFiniteSet(held \ {s}) /\ Cardinality(held \ {s}) + 1 = Cardinality(held)
    <3>1. IsFiniteSet(held \ {s}) /\ Cardinality(held \ {s}) = Cardinality(held) - 1
      BY FS_RemoveElement
    <3> QED
      BY <2>1, <3>1
  <2> QED
    BY <2>1, <2>2, <2>3
<1>2. CASE OpenCall
  BY <1>1, <1>2 DEF OpenCall
<1>3. CASE ConnResolve
  BY <1>1, <1>3 DEF ConnResolve
<1>4. CASE ConnSocket
  BY <1>1, <1>4 DEF ConnSocket
<1>5. CASE ConnConnect
  <2>1. opc = "connect" /\ fd \in held /\ UNCHANGED <<opened, apis>>
    BY <1>5 DEF ConnConnect
  <2>2. CASE opc' = "send" /\ held' = held
    BY <2>1, <2>2
  <2>3. CASE opc' = "sleep" /\ held' = held \ {fd}
    <3>1. IsFiniteSet(held') /\ Cardinality(held') + 1 = Cardinality(held)
      BY <1>1, <2>1, <2>3
    <3>2. Cardinality(held') \in Nat /\ Cardinality(held') + 1 <= opened' + apis'
      BY <2>1, <3>1, FS_CardinalityType
    <3> QED
      BY <2>1, <2>3, <3>1, <3>2
  <2> QED
    BY <1>5, <2>2, <2>3 DEF ConnConnect
<1>6. CASE OpenRetry
  BY <1>1, <1>6 DEF OpenRetry
<1>7. CASE OpenSend
  BY <1>1, <1>7 DEF OpenSend
<1>8. CASE OpenCreate
  BY <1>1, <1>8 DEF OpenCreate
<1>9. CASE ApiRequest
  <2>1. PICK s \in Fds \ held : held' = held \cup {s}
    BY <1>9 DEF ApiRequest
  <2>2. apis' = apis + 1 /\ UNCHANGED <<opc, opened, fd>>
    BY <1>9 DEF ApiRequest
  <2>3. IsFiniteSet(held') /\ Cardinality(held') = Cardinality(held) + 1
    BY <1>1, <2>1
  <2> QED
    BY <1>1, <2>1, <2>2, <2>3
<1>10. CASE (\E k \in Opens : Connection(k)) \/ Decoder
  BY <1>10 DEF Connection, HeadReply, ReplyEnds, BodyBlock, BodyWrite, BodyCheck, DecoderSetup,
               DecoderSpawn, Decoder, DecoderAlloc, DecoderRead
<1>11. CASE UNCHANGED vars
  BY <1>11 DEF vars
<1> QED
  BY <1>2, <1>3, <1>4, <1>5, <1>6, <1>7, <1>8, <1>9, <1>10, <1>11 DEF Next, Control

----------------------------------------------------------------------------
\* The inductive invariant holds at every step.
THEOREM PlayerInvariance == Spec => []PlayerInv
<1>1. Init => PlayerInv
  <2> SUFFICES ASSUME Init PROVE PlayerInv
    OBVIOUS
  <2> USE PlayerAssumption DEF Init
  <2>1. TypeOK
    <3>1. fifo \in Seq(Opens) /\ Len(fifo) = 0 /\ FifoSize >= 0 /\ 0 \in 0..MaxBlock
      OBVIOUS
    <3>2. 0 \in 0..MaxOpens /\ held \subseteq Fds /\ causes = {}
      OBVIOUS
    <3> QED
      BY <3>1, <3>2 DEF TypeOK
  <2>2. WriteInv /\ DecoderInv
    BY DEF WriteInv, DecoderInv
  <2>3. SocketInv
    BY FS_EmptySet DEF SocketInv
  <2> QED
    BY <2>1, <2>2, <2>3 DEF PlayerInv
<1>2. PlayerInv /\ [Next]_vars => PlayerInv'
  BY TypeStep, WriteStep, DecoderStep, SocketStep DEF PlayerInv
<1> QED
  BY <1>1, <1>2, PTL DEF Spec

\* No connection task creates a second decoder, whatever other opens do to the
\* status it looks at before it creates one (create_audio_mainloop_task).
THEOREM DecodersAreSingle == Spec => []OneDecoderEach
<1>1. PlayerInv => OneDecoderEach
  BY DEF PlayerInv, DecoderInv, OneDecoderEach
<1> QED
  BY <1>1, PlayerInvariance, PTL

\* Connecting again and again uses up no sockets (ws_socket_conn).
THEOREM RetriesKeepNoSocket == Spec => []SocketsAccounted
<1>1. PlayerInv => SocketsAccounted
  BY DEF PlayerInv, SocketInv, SocketsAccounted
<1> QED
  BY <1>1, PlayerInvariance, PTL

----------------------------------------------------------------------------
(* Room in the FIFO before the first decoder.                              *)

\* Each open that has received a block has the room of one block, of which
\* all but what is still to be written counts as used.
Used == {s \in (1..opened) \X (1..MaxBlock) :
           blocks[s[1]] > 0 /\ s[2] + left[s[1]] <= MaxBlock}

\* A connection task belongs to an open that has been made, and not to the one
\* that is still connecting.
OpenedInv ==
  /\ \A k \in Opens : conn[k] # "none" => k <= opened
  /\ opc # "idle" => opened > 0 /\ conn[opened] = "none"

\* Until a decoder is created a reply gets no further than its first block,
\* and what is in the FIFO fits the room of the blocks.
IdleInv == audio_status = "IDLE" =>
  /\ \A k \in Opens : conn[k] \in {"none", "head", "recv"} => blocks[k] = 0
  /\ \A k \in Opens : conn[k] = "write" => blocks[k] > 0
  /\ Len(fifo) <= Cardinality(Used)

\* From then on a decoder is on its way, or never will be.
ComingInv == audio_status = "DECODING" =>
  \/ starting + decoding > 0 \/ causes \cap {"task", "memory"} # {}
  \/ \E k \in Opens : conn[k] = "spawn"

LEMMA OpenedStep ==
  ASSUME TypeOK, OpenedInv, [Next]_vars PROVE OpenedInv'
<1> USE PlayerAssumption DEF TypeOK, OpenedInv, Opens, audio, open, stream, decs
<1>1. CASE OpenCall
  <2>1. opened + 1 \in Opens /\ conn[opened + 1] = "none"
    BY <1>1 DEF OpenCall
  <2> QED
    BY <1>1, <2>1 DEF OpenCall
<1>2. CASE ConnResolve \/ ConnSocket \/ ConnConnect \/ OpenRetry \/ OpenSend \/ ApiRequest
  BY <1>2 DEF ConnResolve, ConnSocket, ConnConnect, OpenRetry, OpenSend, ApiRequest
<1>3. CASE OpenCreate
  <2>1. opc' = "idle" /\ opened' = opened
    BY <1>3 DEF OpenCreate
  <2>2. \A k \in Opens : conn'[k] # "none" => conn[k] # "none" \/ k = opened
    BY <1>3 DEF OpenCreate
  <2> QED
    BY <2>1, <2>2
<1>4. ASSUME NEW k \in Opens, Connection(k) PROVE OpenedInv'
  <2>1. conn[k] # "none" /\ UNCHANGED <<opc, opened>>
    BY <1>4 DEF Connection, HeadReply, ReplyEnds, BodyBlock, BodyWrite, BodyCheck, DecoderSetup,
                DecoderSpawn
  <2>2. \A j \in Opens : j # k => conn'[j] = conn[j]
    BY <1>4 DEF Connection, HeadReply, ReplyEnds, BodyBlock, BodyWrite, BodyCheck, DecoderSetup,
                DecoderSpawn, ConnEnd
  <2> QED
    BY <2>1, <2>2, SMTT(30)
<1>5. CASE Decoder
  BY <1>5 DEF Decoder, DecoderAlloc, DecoderRead
<1>6. CASE UNCHANGED vars
  BY <1>6 DEF vars
<1> QED
  BY <1>1, <1>2, <1>3, <1>4, <1>5, <1>6 DEF Next, Control

LEMMA IntervalSize ==
  ASSUME NEW n \in Nat PROVE IsFiniteSet(1..n) /\ Cardinality(1..n) = n
<1>1. 1 \in Int /\ n \in Int
  OBVIOUS
<1>2. IsFiniteSet(1..n) /\ Cardinality(1..n) = IF 1 > n THEN 0 ELSE n - 1 + 1
  BY <1>1, FS_Interval, Zenon
<1> QED
  BY <1>2

\* Parts of the room of n opens.
LEMMA RoomOfOpens ==
  ASSUME NEW n \in Nat, NEW part \in SUBSET ((1..n) \X (1..MaxBlock))
  PROVE  /\ IsFiniteSet(part) /\ Cardinality(part) \in Nat
         /\ \A s \in (1..n) \X (1..MaxBlock) :
              s \notin part => Cardinality(part) < n * MaxBlock
<1> DEFINE all == (1..n) \X (1..MaxBlock)
<1>1. n \in Nat /\ MaxBlock \in Nat
  BY PlayerAssumption
<1>2. /\ IsFiniteSet(1..n) /\ Cardinality(1..n) = n
      /\ IsFiniteSet(1..MaxBlock) /\ Cardinality(1..MaxBlock) = MaxBlock
  BY <1>1, IntervalSize, Zenon
<1>3. IsFiniteSet(all) /\ Cardinality(all) = n * MaxBlock
  <2>1. IsFiniteSet(all) /\ Cardinality(all) = Cardinality(1..n) * Cardinality(1..MaxBlock)
    BY <1>2, FS_Product, Zenon
  <2> QED
    BY <1>2, <2>1, Zenon
<1> HIDE DEF all
<1>4. part \in SUBSET all
  BY DEF all
<1>5. /\ IsFiniteSet(part) /\ Cardinality(part) <= Cardinality(all)
      /\ Cardinality(all) = Cardinality(part) => all = part
  BY <1>3, <1>4, FS_Subset
<1>6. Cardinality(part) \in Nat /\ Cardinality(all) \in Nat
  BY <1>3, <1>5, FS_CardinalityType
<1>7. ASSUME NEW s \in all, s \notin part PROVE Cardinality(part) < n * MaxBlock
  BY <1>3, <1>5, <1>6, <1>7
<1> QED
  BY <1>5, <1>6, <1>7 DEF all

LEMMA OpensMade ==
  ASSUME TypeOK PROVE 1..opened \subseteq Opens
<1>1. opened \in 0..MaxOpens /\ MaxOpens \in Nat
  BY PlayerAssumption DEF TypeOK
<1> QED
  BY <1>1 DEF Opens

LEMMA UsedIsRoom ==
  ASSUME TypeOK
  PROVE  opened \in Nat /\ Used \in SUBSET ((1..opened) \X (1..MaxBlock))
  BY DEF TypeOK, Used

\* The room used grows when blocks are received and opens are made, and by one
\* unit when a unit is written.
LEMMA RoomGrows ==
  ASSUME NEW n \in Nat, NEW more \in SUBSET ((1..n) \X (1..MaxBlock)), NEW part \in SUBSET more
  PROVE  Cardinality(part) <= Cardinality(more)
<1>1. IsFiniteSet(more)
  BY RoomOfOpens
<1> QED
  BY <1>1, FS_Subset

LEMMA RoomWritten ==
  ASSUME TypeOK, TypeOK', OpenedInv, NEW k \in Opens, conn[k] = "write",
         blocks[k] > 0, left[k] > 0,
         left' = [left EXCEPT ![k] = @ - 1], UNCHANGED <<opened, blocks>>
  PROVE  Cardinality(Used') = Cardinality(Used) + 1
<1> DEFINE x == <<k, MaxBlock - left[k] + 1>>
<1>1. /\ left[k] \in 1..MaxBlock /\ MaxBlock \in Nat /\ k \in 1..opened /\ opened \in Nat
      /\ \A j \in Opens : left[j] \in Nat
      /\ 1..opened \subseteq Opens
  <2>1. left[k] \in 1..MaxBlock /\ \A j \in Opens : left[j] \in Nat
    BY PlayerAssumption, SMTT(30) DEF TypeOK
  <2>2. k \in 1..opened /\ opened \in Nat
    BY DEF TypeOK, OpenedInv, Opens
  <2> QED
    BY <2>1, <2>2, OpensMade, PlayerAssumption
<1>2. x \notin Used
  BY <1>1 DEF Used
<1>3. Used' = Used \cup {x}
  <2>1. ASSUME NEW s \in (1..opened) \X (1..MaxBlock) PROVE s \in Used' <=> s \in Used \cup {x}
    <3>1. s = <<s[1], s[2]>> /\ s[1] \in 1..opened /\ s[2] \in 1..MaxBlock
      OBVIOUS
    <3>2. s \in Used' <=> blocks[s[1]] > 0 /\ s[2] + left'[s[1]] <= MaxBlock
      BY DEF Used
    <3>3. s \in Used <=> blocks[s[1]] > 0 /\ s[2] + left[s[1]] <= MaxBlock
      BY DEF Used
    <3>4. s[1] \in Opens
      BY <1>1, <3>1
    <3>5. CASE s[1] = k
      <4>1. left'[s[1]] = left[k] - 1
        BY <3>5 DEF TypeOK
      <4>2. s \in Used \cup {x} <=> s[2] + left[k] <= MaxBlock \/ s[2] = MaxBlock - left[k] + 1
        BY <3>1, <3>3, <3>5
      <4> QED
        BY <1>1, <3>1, <3>2, <3>5, <4>1, <4>2
    <3>6. CASE s[1] # k
      <4>1. left'[s[1]] = left[s[1]] /\ s # x
        BY <3>1, <3>4, <3>6 DEF TypeOK
      <4> QED
        BY <3>2, <3>3, <4>1
    <3> QED
      BY <3>5, <3>6
  <2>2. Used \subseteq (1..opened) \X (1..MaxBlock) /\ Used' \subseteq (1..opened) \X (1..MaxBlock)
    BY DEF Used
  <2>3. x \in (1..opened) \X (1..MaxBlock)
    BY <1>1
  <2> QED
    BY <2>1, <2>2, <2>3
<1>4. IsFiniteSet(Used)
  BY UsedIsRoom, RoomOfOpens
<1> QED
  BY <1>2, <1>3, <1>4, FS_AddElement

LEMMA IdleStep ==
  ASSUME TypeOK, TypeOK', WriteInv, DecoderInv, OpenedInv, IdleInv, [Next]_vars
  PROVE  IdleInv'
<1> SUFFICES ASSUME audio_status' = "IDLE"
             PROVE  /\ \A k \in Opens : conn'[k] \in {"none", "head", "recv"} => blocks'[k] = 0
                    /\ \A k \in Opens : conn'[k] = "write" => blocks'[k] > 0
                    /\ Len(fifo') <= Cardinality(Used')
  BY DEF IdleInv
<1> DEFINE Blocked == /\ \A k \in Opens : conn[k] \in {"none", "head", "recv"} => blocks[k] = 0
                      /\ \A k \in Opens : conn[k] = "write" => blocks[k] > 0
<1>1. audio_status = "IDLE"
  BY DEF Next, Control, Connection, Decoder, vars, audio, OpenCall, ConnResolve, ConnSocket,
         ConnConnect, OpenRetry, OpenSend, OpenCreate, ApiRequest, HeadReply, ReplyEnds, BodyBlock,
         BodyWrite, BodyCheck, DecoderSetup, DecoderSpawn, DecoderAlloc, DecoderRead
<1>2. Blocked /\ Len(fifo) <= Cardinality(Used)
  BY <1>1 DEF IdleInv
<1>3. /\ opened \in Nat /\ Used \in SUBSET ((1..opened) \X (1..MaxBlock))
      /\ opened' \in Nat /\ Used' \in SUBSET ((1..opened') \X (1..MaxBlock))
  BY DEF TypeOK, Used
<1>4. Cardinality(Used) \in Nat /\ Cardinality(Used') \in Nat
  BY <1>3, RoomOfOpens
<1>5. ASSUME UNCHANGED <<conn, blocks, left, fifo>>, opened <= opened'
      PROVE  Blocked' /\ Len(fifo') <= Cardinality(Used')
  <2>1. Used \in SUBSET Used'
    BY <1>3, <1>5 DEF Used
  <2>2. Cardinality(Used) <= Cardinality(Used')
    BY <1>3, <2>1, RoomGrows
  <2> QED
    BY <1>2, <1>4, <1>5, <2>2 DEF TypeOK
<1>6. ASSUME UNCHANGED <<opened, blocks, left>>, Len(fifo') \in Nat, Len(fifo') <= Len(fifo)
      PROVE  Len(fifo') <= Cardinality(Used')
  <2>1. Used' = Used
    BY <1>6 DEF Used
  <2> QED
    BY <1>2, <1>4, <1>6, <2>1 DEF TypeOK
<1>7. CASE OpenCall
  BY <1>3, <1>5, <1>7 DEF OpenCall, stream
<1>8. CASE ConnResolve \/ ConnSocket \/ ConnConnect \/ OpenRetry \/ OpenSend \/ ApiRequest
  BY <1>3, <1>5, <1>8
  DEF ConnResolve, ConnSocket, ConnConnect, OpenRetry, OpenSend, ApiRequest, stream, open
<1>9. CASE OpenCreate
  <2>1. /\ UNCHANGED <<opened, blocks, left, fifo>> /\ opc # "idle"
        /\ conn' = conn \/ conn' = [conn EXCEPT ![opened] = "head"]
    BY <1>9 DEF OpenCreate, open
  <2>2. opened \in Opens /\ conn[opened] = "none" /\ blocks[opened] = 0
    BY <1>2, <2>1, PlayerAssumption DEF TypeOK, OpenedInv, Opens
  <2>3. Blocked'
    BY <1>2, <2>1, <2>2 DEF TypeOK
  <2> QED
    BY <1>6, <2>1, <2>3 DEF TypeOK
<1>10. ASSUME NEW k \in Opens, Connection(k) PROVE Blocked' /\ Len(fifo') <= Cardinality(Used')
  <2>1. CASE HeadReply(k) \/ ReplyEnds(k) \/ BodyCheck(k) \/ DecoderSetup(k) \/ DecoderSpawn(k)
    <3>1. UNCHANGED <<opened, blocks, left, fifo>>
      BY <2>1 DEF HeadReply, ReplyEnds, BodyCheck, DecoderSetup, DecoderSpawn, open
    <3>2. /\ conn[k] = "head" \/ conn'[k] \notin {"none", "head", "recv", "write"}
          /\ conn'[k] # "write"
          /\ \A j \in Opens : j # k => conn'[j] = conn[j]
      BY <1>1, <2>1
      DEF TypeOK, DecoderInv, HeadReply, ReplyEnds, BodyCheck, DecoderSetup, DecoderSpawn, ConnEnd
    <3>3. Blocked'
      BY <1>2, <3>1, <3>2
    <3> QED
      BY <1>6, <3>1, <3>3 DEF TypeOK
  <2>2. CASE BodyBlock(k)
    <3>1. /\ conn[k] = "recv" /\ UNCHANGED <<opened, fifo>>
          /\ blocks' = [blocks EXCEPT ![k] = @ + 1] /\ conn' = [conn EXCEPT ![k] = "write"]
          /\ \A j \in Opens : j # k => left'[j] = left[j]
      BY <2>2 DEF BodyBlock, TypeOK, open
    <3>2. blocks[k] = 0 /\ blocks'[k] = 1
      BY <1>2, <3>1 DEF TypeOK
    <3>3. Blocked'
      <4>1. \A j \in Opens : /\ conn'[j] = IF j = k THEN "write" ELSE conn[j]
                             /\ blocks'[j] = IF j = k THEN 1 ELSE blocks[j]
        BY <3>1, <3>2 DEF TypeOK
      <4> QED
        BY <1>2, <4>1
    <3>4. Used \in SUBSET Used'
      <4>1. ASSUME NEW s \in Used PROVE s \in Used'
        <5>1. s[1] \in Opens /\ s[1] # k
          BY <3>2, OpensMade DEF Used
        <5>2. left'[s[1]] = left[s[1]] /\ blocks'[s[1]] = blocks[s[1]]
          BY <3>1, <5>1 DEF TypeOK
        <5> QED
          BY <3>1, <5>2 DEF Used
      <4> QED
        BY <4>1
    <3>5. Cardinality(Used) <= Cardinality(Used')
      BY <1>3, <3>4, RoomGrows
    <3> QED
      BY <1>2, <1>4, <3>1, <3>3, <3>5 DEF TypeOK
  <2>3. CASE BodyWrite(k)
    <3>1. /\ conn[k] = "write" /\ UNCHANGED <<opened, blocks>> /\ fifo' = Append(fifo, k)
          /\ left' = [left EXCEPT ![k] = @ - 1]
          /\ conn' = [conn EXCEPT ![k] = IF left[k] = 1 THEN "check" ELSE "write"]
      BY <2>3 DEF BodyWrite, open
    <3>2. blocks[k] > 0 /\ left[k] > 0
      BY <1>2, <3>1 DEF WriteInv
    <3>3. Blocked'
      <4>1. \A j \in Opens : conn'[j] = IF j = k THEN conn'[k] ELSE conn[j]
        BY <3>1 DEF TypeOK
      <4>2. conn'[k] \in {"check", "write"}
        BY <3>1 DEF TypeOK
      <4> QED
        BY <1>2, <3>1, <3>2, <4>1, <4>2
    <3>4. Cardinality(Used') = Cardinality(Used) + 1
      BY <3>1, <3>2, RoomWritten
    <3>5. Len(fifo') = Len(fifo) + 1 /\ Len(fifo) \in Nat
      BY <3>1 DEF TypeOK
    <3> QED
      BY <1>2, <1>4, <3>3, <3>4, <3>5
  <2> QED
    BY <1>10, <2>1, <2>2, <2>3 DEF Connection
<1>11. CASE Decoder
  <2>1. /\ UNCHANGED <<opened, conn, blocks, left>>
        /\ fifo' = fifo \/ (fifo # << >> /\ fifo' = Tail(fifo))
    BY <1>11 DEF Decoder, DecoderAlloc, DecoderRead, open, stream
  <2>2. Len(fifo') \in Nat /\ Len(fifo') <= Len(fifo)
    BY <2>1, SMTT(30) DEF TypeOK
  <2> QED
    BY <1>2, <1>6, <2>1, <2>2
<1>12. CASE UNCHANGED vars
  BY <1>3, <1>5, <1>12 DEF vars, open, stream
<1> QED
  BY <1>7, <1>8, <1>9, <1>10, <1>11, <1>12 DEF Next, Control

LEMMA ComingStep ==
  ASSUME TypeOK, TypeOK', OpenedInv, ComingInv, [Next]_vars PROVE ComingInv'
<1> USE DEF TypeOK, ComingInv, audio, open, stream, decs
<1>1. CASE OpenCall \/ ConnResolve \/ ConnSocket \/ ConnConnect \/ OpenRetry \/ OpenSend \/ ApiRequest
  BY <1>1 DEF OpenCall, ConnResolve, ConnSocket, ConnConnect, OpenRetry, OpenSend, ApiRequest
<1>2. CASE OpenCreate
  <2>1. UNCHANGED <<audio_status, starting, decoding>> /\ causes \subseteq causes'
    BY <1>2 DEF OpenCreate
  <2>2. \A k \in Opens : conn[k] = "spawn" => conn'[k] = "spawn"
    BY <1>2 DEF OpenCreate, OpenedInv
  <2> QED
    BY <2>1, <2>2
<1>3. ASSUME NEW k \in Opens, Connection(k) PROVE ComingInv'
  <2>1. CASE HeadReply(k) \/ ReplyEnds(k) \/ BodyBlock(k) \/ BodyWrite(k) \/ BodyCheck(k)
    BY <2>1 DEF HeadReply, ReplyEnds, BodyBlock, BodyWrite, BodyCheck, ConnEnd
  <2>2. CASE DecoderSetup(k)
    BY <2>2 DEF DecoderSetup, ConnEnd
  <2>3. CASE DecoderSpawn(k)
    <3>1. \/ starting' = starting + 1 /\ decoding' = decoding
          \/ "task" \in causes'
      BY <2>3 DEF DecoderSpawn, ConnEnd
    <3>2. starting \in Nat /\ decoding \in Nat
      OBVIOUS
    <3>3. CASE starting' = starting + 1 /\ decoding' = decoding
      <4>1. starting' + decoding' > 0
        BY <3>2, <3>3
      <4> QED
        BY <4>1
    <3>4. CASE "task" \in causes'
      BY <3>4
    <3> QED
      BY <3>1, <3>3, <3>4
  <2> QED
    BY <1>3, <2>1, <2>2, <2>3 DEF Connection
<1>4. CASE DecoderAlloc
  <2>1. \/ starting' = starting - 1 /\ decoding' = decoding + 1
        \/ "memory" \in causes'
    BY <1>4 DEF DecoderAlloc
  <2>2. starting > 0 /\ starting \in Nat /\ decoding \in Nat
    BY <1>4 DEF DecoderAlloc
  <2>3. CASE starting' = starting - 1 /\ decoding' = decoding + 1
    <3>1. starting' + decoding' > 0
      BY <2>2, <2>3
    <3> QED
      BY <3>1
  <2>4. CASE "memory" \in causes'
    BY <2>4
  <2> QED
    BY <2>1, <2>3, <2>4
<1>5. CASE DecoderRead
  BY <1>5 DEF DecoderRead
<1>6. CASE UNCHANGED vars
  BY <1>6 DEF vars
<1> QED
  BY <1>1, <1>2, <1>3, <1>4, <1>5, <1>6 DEF Next, Control, Decoder

RoomInv == OpenedInv /\ IdleInv /\ ComingInv

\* Until a decoder is created what is in the FIFO fits the first block of each
\* reply, and after that a decoder is on its way.
THEOREM RoomInvariance == Spec => [](PlayerInv /\ RoomInv)
<1>1. Init => RoomInv
  <2> SUFFICES ASSUME Init PROVE RoomInv
    OBVIOUS
  <2>1. OpenedInv /\ ComingInv
    BY DEF Init, OpenedInv, ComingInv, Opens
  <2>2. Used = {} /\ Len(fifo) = 0
    BY DEF Init, Used
  <2>3. IdleInv
    BY <2>2, FS_EmptySet DEF Init, IdleInv
  <2> QED
    BY <2>1, <2>3 DEF RoomInv
<1>2. PlayerInv /\ PlayerInv' /\ RoomInv /\ [Next]_vars => RoomInv'
  BY OpenedStep, IdleStep, ComingStep DEF PlayerInv, RoomInv
<1> QED
  BY <1>1, <1>2, PlayerInvariance, PTL DEF Spec

\* A connection task that waits for room has a decoder to make it, or one on
\* its way, or something has gone wrong for good: replies that no decoder takes
\* leave a block each, which the FIFO is assumed to hold.
THEOREM WritersGetRoom == Spec => []NoWriterStuck
<1>1. PlayerInv /\ RoomInv => NoWriterStuck
  <2> SUFFICES ASSUME PlayerInv, RoomInv, opened * MaxBlock <= FifoSize,
                      NEW k \in Opens, conn[k] = "write", Len(fifo) = FifoSize
               PROVE  audio_status = "DECODING"
    BY DEF NoWriterStuck, RoomInv, ComingInv
  <2>1. TypeOK /\ left[k] > 0 /\ k \in 1..opened
    BY DEF PlayerInv, RoomInv, WriteInv, OpenedInv, TypeOK, Opens
  <2> SUFFICES ASSUME audio_status = "IDLE" PROVE FALSE
    BY <2>1 DEF TypeOK
  <2>2. opened \in Nat /\ Used \in SUBSET ((1..opened) \X (1..MaxBlock))
    BY <2>1, UsedIsRoom
  <2>3. left[k] \in Nat /\ MaxBlock \in Nat \ {0} /\ FifoSize \in Nat
    BY <2>1, PlayerAssumption DEF TypeOK
  <2>4. <<k, MaxBlock>> \in (1..opened) \X (1..MaxBlock) /\ <<k, MaxBlock>> \notin Used
    BY <2>1, <2>3 DEF Used
  <2>5. Cardinality(Used) \in Nat /\ Cardinality(Used) < opened * MaxBlock
    BY <2>2, <2>4, RoomOfOpens, Zenon
  <2>6. FifoSize <= Cardinality(Used)
    BY DEF RoomInv, IdleInv
  <2>7. opened * MaxBlock \in Nat
    BY <2>2, <2>3
  <2> HIDE DEF RoomInv
  <2> QED
    BY <2>3, <2>5, <2>6, <2>7
<1> QED
  BY <1>1, RoomInvariance, PTL
=============================================================================
