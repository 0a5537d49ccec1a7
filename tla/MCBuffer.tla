------------------------------- MODULE MCBuffer -------------------------------
(***************************************************************************)
(* Instances of ChannelBuffer for TLC.                                     *)
(***************************************************************************)
EXTENDS ChannelBuffer

CONSTANTS v1, v2, v3

ThreeValues == {v1, v2, v3}

=============================================================================
