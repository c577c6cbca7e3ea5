------------------------------ MODULE MCEspDac ------------------------------
(* The modulator with a full scale of 16, and the clock search over a      *)
(* quarter of the dividers and rates a hundredth of those of MPEG audio.   *)
EXTENDS EspDac

CONSTANT Rates

MCFormats == {[sample_rate |-> r, channels |-> 2] : r \in Rates}
MCSamples == -1..1
=============================================================================
