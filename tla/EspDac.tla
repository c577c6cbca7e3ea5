------------------------------- MODULE EspDac -------------------------------
(***************************************************************************)
(* The output of the ESP8266 build: render_sample_block over adif_config   *)
(* and adif_write of adif-esp-i2s-dsm.c.  A new format makes i2sSetRate    *)
(* (i2s_freertos.c) search the clock dividers; a sample goes through a     *)
(* second-order delta-sigma modulator, whose bits are pushed to the I2S    *)
(* ring (DmaRing) as one word.                                             *)
(***************************************************************************)
EXTENDS Adif

CONSTANTS
  FullScale,      \* 32767, what one bit of the output stands for
  Samples,        \* the shorts that the loop of adif_esp_i2s_dsm_write reads
  WordBits,       \* bits of output for a short
  BlockSamples,   \* samples of a block, those of both channels
  MaxBlocks,      \* bound: blocks rendered
  BASEFREQ, MinBck, MaxBck, MinClkm, MaxClkm, MinBits, MaxBits   \* i2sSetRate

\* The loudest signal the bounds below are stated for; louder ones, which the
\* code does not exclude, can make the integrators grow for ever.
Quiet == {a \in -FullScale..FullScale : 16 * a <= FullScale /\ -16 * a <= FullScale}

ASSUME SamplesAssumption == FullScale \in Nat \ {0} /\ Samples \subseteq Quiet

ASSUME BoundsAssumption ==
  WordBits \in Nat \ {0} /\ BlockSamples \in Nat \ {0} /\ MaxBlocks \in Nat

VARIABLES
  i1v, i2v, reg,   \* samp_to_delta_sigma: integrators and comparator
  smp, bit,        \* the short, and how many bits have been made of it
  idx,             \* index of the loop in adif_esp_i2s_dsm_write
  step,            \* "block", "read" or "bits"
  left,            \* samples of the block still to be written
  dividers,        \* what i2sSetRate has put into I2SCONF
  blocks,          \* history: blocks rendered
  total, output    \* history: sums of input and output over the bits made

dacvars  == <<i1v, i2v, reg>>
sumvars  == <<total, output>>
vars     == <<adifvars, dacvars, smp, bit, idx, step, left, dividers, blocks, sumvars>>

----------------------------------------------------------------------------
(* i2sSetRate: dividers are <<bckdiv, clkmdiv, bits>>.                     *)

Dividers  == (MinBck..MaxBck) \X (MinClkm..MaxClkm) \X (MinBits..MaxBits)
NoDivider == <<0, 0, 0>>     \* bestfreq is 0, the dividers are not initialised

Freq(d)           == IF d = NoDivider THEN 0 ELSE BASEFREQ \div (d[1] * d[2] * d[3] * 2)
Distance(rate, d) == LET off == rate - Freq(d) IN IF off > 0 THEN off ELSE -off

\* The dividers reach every rate of a stream nearer than silence (0 Hz) does:
\* from 160 MHz they make rates between 1 kHz and 500 kHz.
ASSUME DividersAssumption ==
  /\ BASEFREQ \in Nat /\ {MinBck, MinClkm, MinBits} \subseteq Nat \ {0}
  /\ MaxBck \in Nat /\ MaxClkm \in Nat /\ MaxBits \in Nat
  /\ \A f \in Formats : \E d \in Dividers : Distance(f.sample_rate, d) < f.sample_rate

\* Mutant: the distance loses its sign.
Nearer_Signed(rate, d, best) == IF rate - Freq(d) < rate - Freq(best) THEN d ELSE best

Nearer(rate, d, best) == IF Distance(rate, d) < Distance(rate, best) THEN d ELSE best

\* One of the loops: the first of the nearest dividers at[lo], ..., at[hi].
\* Taking the best of each inner loop before it is compared with the one found
\* so far chooses the same dividers as one variable carried through all three.
Search(rate, lo, hi, at) ==
  LET best[k \in lo..hi] == Nearer(rate, at[k], IF k = lo THEN NoDivider ELSE best[k - 1])
  IN  best[hi]

i2sSetRate(rate) ==
  Search(rate, MinBck, MaxBck, [bck \in MinBck..MaxBck |->
    Search(rate, MinClkm, MaxClkm, [clkm \in MinClkm..MaxClkm |->
      Search(rate, MinBits, MaxBits, [bits \in MinBits..MaxBits |-> <<bck, clkm, bits>>])])])

\* The search of each rate, once.
Chosen == [rate \in {f.sample_rate : f \in Formats} |-> i2sSetRate(rate)]

----------------------------------------------------------------------------
\* mad_synth_frame, render_sample_block, adif_config, adif_esp_i2s_dsm_config.
RenderBlock == \E format \in Formats :
  /\ step = "block" /\ blocks < MaxBlocks
  /\ SetFormat(format)
  /\ dividers' = IF Changed(format) THEN Chosen[format.sample_rate] ELSE dividers
  /\ left' = BlockSamples /\ blocks' = blocks + 1
  /\ step' = "read" /\ idx' = 0
  /\ UNCHANGED <<dacvars, smp, bit, sumvars>>

\* size of render_send_sample, which the loop takes for a number of shorts
SampleSize == 2

\* Mutant: the integrators start anew with each short.
ReadShort_Restart == \E a \in Samples :
  /\ step = "read"
  /\ smp' = a /\ bit' = 0
  /\ i1v' = 0 /\ i2v' = 0 /\ reg' = 0
  /\ step' = "bits"
  /\ UNCHANGED <<adifvars, idx, left, dividers, blocks, sumvars>>

\* The sample itself, or what lies behind it in memory when idx is 1.
ReadShort == \E a \in Samples :
  /\ step = "read"
  /\ smp' = a /\ bit' = 0
  /\ step' = "bits"
  /\ UNCHANGED <<adifvars, dacvars, idx, left, dividers, blocks, sumvars>>

Sign(w) == IF w > 0 THEN FullScale ELSE -FullScale

\* Mutant: the second difference is left out.
MakeBit_OneDifference ==
  /\ step = "bits" /\ bit < WordBits
  /\ i1v' = smp - Sign(reg) + i1v
  /\ i2v' = i1v' + i2v
  /\ reg' = i2v'
  /\ bit' = bit + 1
  /\ total' = total + smp /\ output' = output + Sign(reg')
  /\ UNCHANGED <<adifvars, smp, idx, step, left, dividers, blocks>>

\* One round of samp_to_delta_sigma; its comparator makes the bit.
MakeBit ==
  /\ step = "bits" /\ bit < WordBits
  /\ i1v' = smp - Sign(reg) + i1v
  /\ i2v' = i1v' - Sign(reg) + i2v
  /\ reg' = i2v'
  /\ bit' = bit + 1
  /\ total' = total + smp /\ output' = output + Sign(reg')
  /\ UNCHANGED <<adifvars, smp, idx, step, left, dividers, blocks>>

\* i2sPushSample takes the word, and the loop and its callers go on.
PushWord ==
  /\ step = "bits" /\ bit = WordBits
  /\ idx' = (idx + 1) % SampleSize
  /\ left' = IF idx' = 0 THEN left - 1 ELSE left
  /\ step' = IF left' = 0 THEN "block" ELSE "read"
  /\ UNCHANGED <<adifvars, dacvars, smp, bit, dividers, blocks, sumvars>>

----------------------------------------------------------------------------
Init ==
  /\ AdifInit
  /\ i1v = 0 /\ i2v = 0 /\ reg = 0
  /\ smp = 0 /\ bit = 0 /\ idx = 0
  /\ step = "block" /\ left = 0 /\ dividers = NoDivider
  /\ blocks = 0 /\ total = 0 /\ output = 0

Next == RenderBlock \/ ReadShort \/ MakeBit \/ PushWord

Spec == Init /\ [][Next]_vars

----------------------------------------------------------------------------
\* The integrators stay within a few times full scale, whatever the samples
\* are and however they are interleaved with what lies behind them, so that
\* the additions in samp_to_delta_sigma cannot overflow.
IntegratorsBounded ==
  /\ 16 * i1v <= 37 * FullScale /\ -16 * i1v <= 37 * FullScale
  /\ 16 * i2v <= 59 * FullScale /\ -16 * i2v <= 59 * FullScale

\* The bits follow the samples: over any time, from the first bit on, what the
\* ones and zeros stand for differs from the sum of the samples by a few bits.
\* The error of the modulator does not add up, over blocks and formats.
OutputFollows ==
  /\ 16 * (total - output) <= 69 * FullScale
  /\ -16 * (total - output) <= 69 * FullScale

LeastDistance == [rate \in {f.sample_rate : f \in Formats} |->
  LET all == {Distance(rate, d) : d \in Dividers}
  IN  CHOOSE off \in all : \A other \in all : off <= other]

\* While a block is written the clock is set for its rate, and no dividers in
\* reach come nearer to it.
RateIsNearest ==
  step # "block" =>
    /\ dividers \in Dividers
    /\ Distance(buffer_fmt.sample_rate, dividers) = LeastDistance[buffer_fmt.sample_rate]
=============================================================================
