---------------------------- MODULE MCDevicePanes ----------------------------
(***************************************************************************)
(* Instances of DevicePanes for TLC: three devices, one of which has no    *)
(* register to open, and one buffer more than there are devices, which is  *)
(* the most that can be alive at a time.                                   *)
(***************************************************************************)
EXTENDS DevicePanes

MCSlots == <<1, 2, 0>>
=============================================================================
