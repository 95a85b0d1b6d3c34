---------------------------- MODULE MCHidRuntime ----------------------------
(* The instances of a HID session.  Every configuration accepts every      *)
(* state, but "reduced" rejects the state where an optional control is     *)
(* held.                                                                   *)
EXTENDS HidRuntime

MCAccepts == [c \in Configs |-> IF c = "reduced" THEN States \ {"held"} ELSE States]
=============================================================================
