------------------------------ MODULE AudioPlayer ------------------------------
(***************************************************************************)
(* task-af.c, with ws_socket_conn of tcp-socket.c and the life of the      *)
(* decoder task of codec-mpeg.c: how a station is opened.  The control     *)
(* task calls task_audio_open, which connects (retrying for ever), sends   *)
(* the request and starts a connection task.  That task receives the       *)
(* reply, writes each block of the body to the FIFO, and starts the        *)
(* decoder after the first.  Nothing ever stops a decoder, closes the      *)
(* socket of a stream or sets audio_status back.                           *)
(*                                                                         *)
(* The k-th call of task_audio_open is called open k, and its connection   *)
(* task k.  All opens share one stream_http, so one socket variable.  A    *)
(* unit of the FIFO stands for a transfer of af-buffer.c, whose own        *)
(* interleavings are in AudioFifo.                                         *)
(***************************************************************************)
EXTENDS Integers, Sequences, FiniteSets

CONSTANTS
  FifoSize,     \* units in the FIFO (SPIRAMSIZE)
  MaxBlock,     \* units in a block of body (sizeof(http->buff))
  Fds,          \* the sockets of the TCP stack
  NoFd,         \* fd = -1
  Types,        \* stream types a Content-Type may name
  MaxOpens,     \* bound: calls of task_audio_open
  MaxApi,       \* bound: requests of xapi-nanoradio.c, which keep their socket
  MaxFailures,  \* bound: failures to resolve or connect, before the network is up
  MaxBlocks     \* bound: blocks of body in a reply

ASSUME PlayerAssumption ==
  /\ FifoSize \in Nat /\ MaxBlock \in 1..FifoSize /\ NoFd \notin Fds
  /\ "MPEG" \in Types /\ "unknown" \notin Types
  /\ MaxOpens \in Nat /\ MaxApi \in Nat /\ MaxFailures \in Nat /\ MaxBlocks \in Nat

VARIABLES
  audio_status, audio_running, stream_type,
  opc,          \* step of task_audio_open
  opened,       \* calls so far; also the number of the open under way
  fd,           \* stream_http.socket.fd
  held,         \* sockets open in the TCP stack
  conn,         \* step of each connection task
  left,         \* units of its block not yet in the FIFO
  blocks,       \* blocks it has received
  fifo,         \* units in the FIFO, each the number of the task that wrote it
  starting,     \* decoder tasks that have been created but not yet run
  decoding,     \* decoder tasks that decode
  spawned,      \* history: decoders each connection task has created
  apis, failures,
  causes        \* history: what has gone wrong for good

audio  == <<audio_status, audio_running, stream_type>>
open   == <<opc, opened, fd, held, apis, failures>>
stream == <<conn, left, blocks, fifo>>
decs   == <<starting, decoding, spawned>>
vars   == <<audio, open, stream, decs, causes>>

Opens == 1..MaxOpens

----------------------------------------------------------------------------
(* task_audio_open, http_request and ws_socket_conn: the control task.     *)

OpenCall ==
  /\ opc = "idle" /\ opened < MaxOpens
  /\ opened' = opened + 1
  /\ opc' = IF audio_status = "IDLE" THEN "resolve" ELSE "idle"     \* -WERR_BUSY
  /\ UNCHANGED <<audio, fd, held, apis, failures, stream, decs, causes>>

\* A failure of a call that is tried again: the network comes up in the end.
Fails == failures < MaxFailures /\ failures' = failures + 1

\* tcp_socket_reset, which forgets a socket another task may be using, and
\* parsehost
ConnResolve ==
  /\ opc = "resolve" /\ fd' = NoFd
  /\ \/ opc' = "socket" /\ UNCHANGED failures
     \/ opc' = "sleep" /\ Fails
  /\ UNCHANGED <<audio, opened, held, apis, stream, decs, causes>>

\* Mutant: a socket that cannot be had is a failure to connect.
ConnSocket_Fails ==
  /\ opc = "socket"
  /\ \/ \E s \in Fds \ held : opc' = "connect" /\ fd' = s /\ held' = held \cup {s}
     \/ held = Fds /\ opc' = "sleep" /\ UNCHANGED <<fd, held>>
  /\ UNCHANGED <<audio, opened, apis, failures, stream, decs, causes>>

\* Without a free socket the loop goes round and round: no step.
ConnSocket == \E s \in Fds \ held :
  /\ opc = "socket" /\ opc' = "connect"
  /\ fd' = s /\ held' = held \cup {s}
  /\ UNCHANGED <<audio, opened, apis, failures, stream, decs, causes>>

\* Mutant: the socket of a connection that fails is not closed.
ConnConnect_NoClose ==
  /\ opc = "connect"
  /\ \/ opc' = "send" /\ UNCHANGED <<held, failures>>
     \/ opc' = "sleep" /\ UNCHANGED held /\ Fails
  /\ UNCHANGED <<audio, opened, fd, apis, stream, decs, causes>>

ConnConnect ==
  /\ opc = "connect"
  /\ \/ opc' = "send" /\ UNCHANGED <<held, failures>>
     \/ opc' = "sleep" /\ held' = held \ {fd} /\ Fails
  /\ UNCHANGED <<audio, opened, fd, apis, stream, decs, causes>>

\* Mutant: a failed connection is not tried again.
OpenRetry_Return ==
  /\ opc = "sleep" /\ opc' = "idle"
  /\ UNCHANGED <<audio, opened, fd, held, apis, failures, stream, decs, causes>>

OpenRetry ==
  /\ opc = "sleep" /\ opc' = "resolve"
  /\ UNCHANGED <<audio, opened, fd, held, apis, failures, stream, decs, causes>>

\* http_send_request; a failure is returned, and the socket stays open.
OpenSend ==
  /\ opc = "send"
  /\ \/ opc' = "create" /\ UNCHANGED causes
     \/ opc' = "idle" /\ causes' = causes \cup {"send"}
  /\ UNCHANGED <<audio, opened, fd, held, apis, failures, stream, decs>>

OpenCreate ==
  /\ opc = "create" /\ opc' = "idle"
  /\ \/ conn' = [conn EXCEPT ![opened] = "head"] /\ UNCHANGED causes
     \/ causes' = causes \cup {"task"} /\ UNCHANGED conn
  /\ UNCHANGED <<audio, opened, fd, held, apis, failures, left, blocks, fifo, decs>>

\* api_request_chunk of xapi-nanoradio.c never closes the socket it opens.
ApiRequest == \E s \in Fds \ held :
  /\ apis < MaxApi /\ apis' = apis + 1
  /\ held' = held \cup {s}
  /\ UNCHANGED <<audio, opc, opened, fd, failures, stream, decs, causes>>

----------------------------------------------------------------------------
(* task_audio_http_connect: connection task k.                             *)

\* http_read_response returns, with an error or at the end of the reply.
ConnEnd(k, cause) ==
  /\ conn' = [conn EXCEPT ![k] = "done"]
  /\ causes' = causes \cup {cause}

\* The header.  A type that is not known leaves stream_type as it was: the
\* result of event_content_type is not looked at.
HeadReply(k) == \E type \in Types \cup {"unknown"} :
  /\ conn[k] = "head" /\ fd # NoFd
  /\ conn' = [conn EXCEPT ![k] = "recv"]
  /\ stream_type' = IF type = "unknown" THEN stream_type ELSE type
  /\ UNCHANGED <<audio_status, audio_running, open, left, blocks, fifo, decs, causes>>

\* The stream ends, recv fails or the reply is refused.
ReplyEnds(k) ==
  /\ conn[k] \in {"head", "recv"} /\ ConnEnd(k, "reply")
  /\ UNCHANGED <<audio, open, left, blocks, fifo, decs>>

BodyBlock(k) == \E n \in 1..MaxBlock :
  /\ conn[k] = "recv" /\ fd # NoFd /\ blocks[k] < MaxBlocks
  /\ blocks' = [blocks EXCEPT ![k] = @ + 1]
  /\ left' = [left EXCEPT ![k] = n]
  /\ conn' = [conn EXCEPT ![k] = "write"]
  /\ UNCHANGED <<audio, open, fifo, decs, causes>>

\* audio_buffer_write, which waits for room
BodyWrite(k) ==
  /\ conn[k] = "write" /\ Len(fifo) < FifoSize
  /\ fifo' = Append(fifo, k)
  /\ left' = [left EXCEPT ![k] = @ - 1]
  /\ conn' = [conn EXCEPT ![k] = IF left[k] = 1 THEN "check" ELSE "write"]
  /\ UNCHANGED <<audio, open, blocks, decs, causes>>

\* Mutant: the decoder is started once the FIFO is full.
BodyCheck_Full(k) ==
  /\ conn[k] = "check"
  /\ conn' = [conn EXCEPT ![k] = IF audio_status = "IDLE" /\ Len(fifo) = FifoSize
                                 THEN "setup" ELSE "recv"]
  /\ UNCHANGED <<audio, open, left, blocks, fifo, decs, causes>>

BodyCheck(k) ==
  /\ conn[k] = "check"
  /\ conn' = [conn EXCEPT ![k] = IF audio_status = "IDLE" THEN "setup" ELSE "recv"]
  /\ UNCHANGED <<audio, open, left, blocks, fifo, decs, causes>>

\* Mutant: the status is left for the decoder to set.
DecoderSetup_Late(k) ==
  /\ conn[k] = "setup"
  /\ \/ /\ stream_type = "MPEG"
        /\ audio_running' = TRUE
        /\ conn' = [conn EXCEPT ![k] = "spawn"]
        /\ UNCHANGED causes
     \/ /\ stream_type # "MPEG" /\ ConnEnd(k, "type")
        /\ UNCHANGED audio_running
  /\ UNCHANGED <<audio_status, stream_type, open, left, blocks, fifo, decs>>

\* create_audio_mainloop_task, up to util_create_task
DecoderSetup(k) ==
  /\ conn[k] = "setup"
  /\ \/ /\ stream_type = "MPEG"
        /\ audio_running' = TRUE /\ audio_status' = "DECODING"
        /\ conn' = [conn EXCEPT ![k] = "spawn"]
        /\ UNCHANGED causes
     \/ /\ stream_type # "MPEG" /\ ConnEnd(k, "type")
        /\ UNCHANGED <<audio_running, audio_status>>
  /\ UNCHANGED <<stream_type, open, left, blocks, fifo, decs>>

\* util_create_task; a failure ends the reply and leaves the status.
DecoderSpawn(k) ==
  /\ conn[k] = "spawn"
  /\ \/ /\ starting' = starting + 1
        /\ spawned' = [spawned EXCEPT ![k] = @ + 1]
        /\ conn' = [conn EXCEPT ![k] = "recv"]
        /\ UNCHANGED causes
     \/ ConnEnd(k, "task") /\ UNCHANGED <<starting, spawned>>
  /\ UNCHANGED <<audio, open, left, blocks, fifo, decoding>>

----------------------------------------------------------------------------
(* task_mpeg_decode: the decoder tasks.                                    *)

DecoderAlloc ==
  /\ starting > 0 /\ starting' = starting - 1
  /\ \/ decoding' = decoding + 1 /\ UNCHANGED causes
     \/ causes' = causes \cup {"memory"} /\ UNCHANGED decoding
  /\ UNCHANGED <<audio, open, stream, spawned>>

\* decode_input: audio_running stays set, so a decoder goes on for ever.
DecoderRead ==
  /\ decoding > 0 /\ audio_running /\ fifo # << >>
  /\ fifo' = Tail(fifo)
  /\ UNCHANGED <<audio, open, conn, left, blocks, decs, causes>>

----------------------------------------------------------------------------
\* The static variables, as they are at boot.  task_audio_init returns before
\* it sets them on a board whose RAM test passes, and its callers go on.
Init ==
  /\ audio_status = "IDLE" /\ audio_running = FALSE /\ stream_type = "MPEG"
  /\ opc = "idle" /\ opened = 0 /\ fd = NoFd /\ held = {}
  /\ apis = 0 /\ failures = 0
  /\ conn = [k \in Opens |-> "none"] /\ left = [k \in Opens |-> 0]
  /\ blocks = [k \in Opens |-> 0] /\ fifo = << >>
  /\ starting = 0 /\ decoding = 0 /\ spawned = [k \in Opens |-> 0]
  /\ causes = {}

Control == ConnResolve \/ ConnSocket \/ ConnConnect \/ OpenRetry \/ OpenSend \/ OpenCreate
Connection(k) == \/ HeadReply(k) \/ ReplyEnds(k) \/ BodyBlock(k) \/ BodyWrite(k)
                 \/ BodyCheck(k) \/ DecoderSetup(k) \/ DecoderSpawn(k)
Decoder == DecoderAlloc \/ DecoderRead

Next == \/ OpenCall \/ Control \/ ApiRequest
        \/ \E k \in Opens : Connection(k)
        \/ Decoder

Spec == Init /\ [][Next]_vars

\* Every task is scheduled; the server sends its reply or closes.
FairSpec == /\ Spec /\ WF_vars(Control) /\ WF_vars(Decoder)
            /\ \A k \in Opens : WF_vars(Connection(k))

----------------------------------------------------------------------------
\* Types, and the bounds of the FIFO and of a block.
TypeOK ==
  /\ audio_status \in {"IDLE", "DECODING"} /\ audio_running \in BOOLEAN
  /\ stream_type \in Types
  /\ opc \in {"idle", "resolve", "socket", "connect", "sleep", "send", "create"}
  /\ opened \in 0..MaxOpens /\ fd \in Fds \cup {NoFd} /\ held \subseteq Fds
  /\ conn \in [Opens -> {"none", "head", "recv", "write", "check", "setup", "spawn", "done"}]
  /\ left \in [Opens -> 0..MaxBlock] /\ blocks \in [Opens -> Nat]
  /\ fifo \in Seq(Opens) /\ Len(fifo) <= FifoSize
  /\ starting \in Nat /\ decoding \in Nat /\ spawned \in [Opens -> Nat]
  /\ apis \in Nat /\ failures \in Nat
  /\ causes \subseteq {"send", "task", "reply", "type", "memory"}

\* However the blocks of a reply, the decoder's start and other opens are
\* interleaved, a connection task creates at most one decoder (so a single
\* open has a single decoder on the FIFO).
OneDecoderEach == \A k \in Opens : spawned[k] <= 1

\* However often connecting is tried again, only an open that has gone as far
\* as its request, and an API request, keep a socket.
SocketsAccounted == Cardinality(held) <= opened + apis

\* A connection task waits for room only when a decoder makes it or something
\* has gone wrong for good, as long as the blocks that replies of a type
\* without decoder have left behind cannot fill the FIFO.
NoWriterStuck ==
  /\ opened * MaxBlock <= FifoSize
  /\ \E k \in Opens : conn[k] = "write" /\ Len(fifo) = FifoSize
  => \/ starting + decoding > 0 \/ causes \cap {"task", "memory"} # {}
     \/ \E k \in Opens : conn[k] = "spawn"

\* An open ends in a decoder that plays, unless something goes wrong for good
\* in the request or its reply, or the sockets are used up: failures to
\* resolve or connect never do.
OpenPlays == opc = "resolve" ~> \/ decoding > 0 \/ causes # {}
                                \/ opc = "socket" /\ held = Fds

\* ws_socket_conn, which should return "-2 for fatal error, like unable to
\* resolve name, connection timeout..." (tcp-socket.c:94-95), goes round its
\* loop for ever once it finds no free socket: nothing closes one.
NoSocketNoReturn == opc = "socket" /\ held = Fds ~> [](opc = "socket")
=============================================================================
