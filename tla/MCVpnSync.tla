----------------------------- MODULE MCVpnSync -----------------------------
(* Instances of VpnSync for TLC. *)
EXTENDS VpnSync, TLC

====
