-------------------------------- MODULE Adif --------------------------------
(***************************************************************************)
(* The audio interface between the synthesis and a device: the format the  *)
(* synthesis leaves in buffer_fmt (set_dac_sample_rate and                 *)
(* render_sample_block in codec-mpeg.c), and the copy by which adif_config *)
(* (af-interface.c) tells whether the device has to be set up again.       *)
(* bit_depth is always 16 and left out.                                    *)
(***************************************************************************)
EXTENDS Integers

CONSTANT Formats      \* the formats of the frames that may come

ASSUME FormatsAssumption ==
  Formats \subseteq [sample_rate : Nat \ {0}, channels : {1, 2}]

VARIABLES buffer_fmt, adif_format

adifvars == <<buffer_fmt, adif_format>>

\* static and not initialised
Unset == [sample_rate |-> 0, channels |-> 0]

\* Mutant: a change of the number of channels goes unnoticed.
Changed_RateOnly(format) == adif_format.sample_rate # format.sample_rate

Changed(format) == \/ adif_format.sample_rate # format.sample_rate
                   \/ adif_format.channels # format.channels

\* A block of samples of this format, up to the test in adif_config: the copy
\* is replaced before the device is asked.
SetFormat(format) ==
  /\ buffer_fmt' = format
  /\ adif_format' = IF Changed(format) THEN format ELSE adif_format

AdifInit ==
  /\ buffer_fmt = [sample_rate |-> 0, channels |-> 2]
  /\ adif_format = Unset
=============================================================================
