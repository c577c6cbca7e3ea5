---------------------------- MODULE AudioOutput ----------------------------
(***************************************************************************)
(* The output of the POSIX build from the synthesis to the device:         *)
(* render_sample_block and render_send_sample (codec-mpeg.c) over          *)
(* adif_config and adif_write (af-interface.c) over adif_rt_config and the *)
(* ring of adif-rt.cpp, which the callback thread empties at the same      *)
(* time.  A sample of 16 bits is two bytes of the ring.                    *)
(***************************************************************************)
EXTENDS RtRing, Adif

CONSTANTS BlockSamples,  \* samples of a block, those of both channels
          MaxBlocks,     \* bound: blocks rendered
          Closed         \* no stream is open

ASSUME OutputAssumption ==
  BlockSamples \in Nat \ {0} /\ MaxBlocks \in Nat /\ Closed \notin Formats

VARIABLES
  step,       \* "idle", "config", "open" or "send"
  device,     \* the format the RtAudio stream was opened with, or Closed
  left,       \* samples of the block still to be sent
  len,        \* render_send_sample: len
  blocks,     \* history: blocks rendered
  offered,    \* history: samples offered
  accepted    \* history: sample and byte of each byte the ring has taken

rendervars == <<step, left, len, blocks, offered, accepted>>
allvars    == <<vars, adifvars, device, rendervars>>

SampleSize == 2

\* The sizes in adif_rt_init, CHUNK_SIZE and what the callback is asked for
\* (nBufferFrames * channels * 2) are whole samples; render_send_sample writes
\* one at a time.
ASSUME SampleAssumption ==
  /\ WriteSizes = {SampleSize}
  /\ \A n \in {m_buffersize, m_outburst} \cup ReadSizes : n % SampleSize = 0

\* mad_synth_frame, render_sample_block and the test of adif_config.
RenderBlock == \E format \in Formats :
  /\ step = "idle" /\ blocks < MaxBlocks
  /\ SetFormat(format)
  /\ step' = IF Changed(format) THEN "config" ELSE "send"
  /\ left' = BlockSamples /\ blocks' = blocks + 1
  /\ UNCHANGED <<vars, device, len, offered, accepted>>

\* adif_rt_config: closeStream waits for the callback to return.
CloseStream ==
  /\ step = "config" /\ rpc = "idle"
  /\ device' = Closed
  /\ step' = "open"
  /\ UNCHANGED <<vars, adifvars, left, len, blocks, offered, accepted>>

\* openStream and startStream; an exception leaves the stream closed, and
\* render_sample_block does not look at what adif_config returns.
OpenStream ==
  /\ step = "open"
  /\ device' \in {buffer_fmt, Closed}
  /\ step' = "send"
  /\ UNCHANGED <<vars, adifvars, left, len, blocks, offered, accepted>>

\* The next sample of the block.
NextSample ==
  /\ step = "send" /\ len = 0 /\ left > 0
  /\ len' = SampleSize /\ left' = left - 1 /\ offered' = offered + 1
  /\ UNCHANGED <<vars, adifvars, device, step, blocks, accepted>>

\* The ring is offered the whole sample as long as len is not 0.
SendCall ==
  /\ step = "send" /\ len # 0
  /\ WriteCall
  /\ UNCHANGED <<adifvars, device, rendervars>>

SendCopy ==
  /\ WriteFirst \/ WriteRest
  /\ UNCHANGED <<adifvars, device, rendervars>>

SendReturn ==
  /\ WritePublish
  /\ len' = len - wlen
  /\ accepted' = accepted \o [b \in 1..wlen |-> <<offered, b>>]
  /\ UNCHANGED <<adifvars, device, step, left, blocks, offered>>

BlockEnd ==
  /\ step = "send" /\ len = 0 /\ left = 0
  /\ step' = "idle"
  /\ UNCHANGED <<vars, adifvars, device, left, len, blocks, offered, accepted>>

\* The callback thread runs while a stream is open.
Callback ==
  /\ device # Closed
  /\ Reading
  /\ UNCHANGED <<adifvars, device, rendervars>>

----------------------------------------------------------------------------
OutputInit ==
  /\ Init /\ AdifInit
  /\ step = "idle" /\ device = Closed /\ left = 0 /\ len = 0
  /\ blocks = 0 /\ offered = 0 /\ accepted = << >>

Rendering == CloseStream \/ OpenStream \/ NextSample \/ SendCall \/ SendCopy
             \/ SendReturn \/ BlockEnd

OutputNext == RenderBlock \/ Rendering \/ Callback

\* The decoder task spins until the ring takes its sample, and the device of
\* an open stream calls back for ever.
OutputSpec == /\ OutputInit /\ [][OutputNext]_allvars
              /\ WF_allvars(Rendering) /\ WF_allvars(Callback)

----------------------------------------------------------------------------
\* The device is handed each sample once, whole and low byte first, in the
\* order of the blocks, although a short write makes render_send_sample offer
\* the whole sample again: the ring never has room for half of one.
HeardInOrder == \A i \in 1..Len(played) :
  accepted[played[i] + 1] = <<(i + 1) \div SampleSize, ((i - 1) % SampleSize) + 1>>

\* While a block is sent, an open stream has the format of that block: the
\* copy in adif_config is never taken for the device's format when it is not.
FormatFollows == step = "send" /\ device # Closed => device = buffer_fmt

\* RtAudio asks the callback for sample frames (RtAudio.h:155-157), both
\* channels of each: what a call hands over ends with a whole frame, and the
\* next buffer starts with the left sample.
FramesWhole == rpc = "idle" => Len(played) % (2 * SampleSize) = 0

\* With the stream open each block is sent to its end.
BlockIsSent == step = "send" /\ device # Closed ~> step = "idle"
=============================================================================
