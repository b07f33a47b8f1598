----------------------------- MODULE MCInstance -----------------------------
(* Instances of Instance for TLC. *)
EXTENDS Instance, TLC

Symmetry == Permutations(Procs) \cup Permutations(Ctls)

Run(starts, ctls, overlap, faults) ==
    [starts |-> starts, ctls |-> ctls, overlap |-> overlap, faults |-> faults]

(* Overlapping starts and killed daemons; commands in a row; everything. *)
Commands == {Run(4, 0, 1, {"crash"}), Run(3, 2, 0, {"crash", "slow"}),
             Run(2, 2, 1, FaultKinds)}

(* Starts in a row, the first of which may fail. *)
FailedStart == {Run(4, 0, 0, {"init"})}

(* One start and one stop that runs out of time. *)
SlowStop == {Run(1, 1, 0, {"slow"})}

=============================================================================
