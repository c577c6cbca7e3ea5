--------------------------- MODULE MCAudioOutput ---------------------------
(* The output path on a ring of four samples and three formats.            *)
EXTENDS AudioOutput

MCFormats == {[sample_rate |-> 44100, channels |-> 2],
              [sample_rate |-> 48000, channels |-> 2],
              [sample_rate |-> 44100, channels |-> 1]}
=============================================================================
