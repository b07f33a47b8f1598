------------------------------- MODULE MCUds --------------------------------
(* Instances of Uds for TLC. *)
EXTENDS Uds, TLC

FdSet == 1 .. 2

=============================================================================
