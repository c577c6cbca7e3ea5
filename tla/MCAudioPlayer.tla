----------------------------- MODULE MCAudioPlayer -----------------------------
(* The instances of AudioPlayer that TLC checks. *)
EXTENDS AudioPlayer
=============================================================================
