---------------------------- MODULE MCClockwork -----------------------------
(***************************************************************************)
(* ReactorTimers, ChildRun and Health for TLC: what has to happen in time.  *)
(* They share no state, so a behaviour is one of the timers, of a child run *)
(* to its end, or of the health check; part says which.                     *)
(***************************************************************************)
EXTENDS ReactorTimers, ChildRun, Health, TLC

VARIABLE part        \* "timers", "child" or "health"

allVars == <<part, vars, runVars, healthVars>>

\* A step of one part leaves the others alone.
Timing == part = "timers" /\ UNCHANGED <<part, runVars, healthVars>>
Running == part = "child" /\ UNCHANGED <<part, vars, healthVars>>
Caring == part = "health" /\ UNCHANGED <<part, vars, runVars>>

MCInit ==
    /\ part \in {"timers", "child", "health"}
    /\ Init /\ HealthInit /\ (part = "health" \/ rpc = "status")
    /\ RunInit /\ (part = "child" \/ runner = "exec")

MCNext == (Timing /\ Next) \/ (Running /\ RunNext) \/ (Caring /\ HealthNext)

MCSpec ==
    /\ MCInit /\ [][MCNext]_allVars
    /\ WF_vars(Timing /\ Loop)
    /\ WF_runVars(Running /\ Parent) /\ WF_runVars(Running /\ DeadlinePasses)
    /\ WF_healthVars(Caring /\ HealthWorker) /\ WF_healthVars(Caring /\ api_result_cb)
    /\ WF_healthVars(Caring /\ service_health_check_cb) /\ WF_healthVars(Caring /\ Second)

-----------------------------------------------------------------------------
\* A pass of the reactor ends although its callbacks arm timers, and a run of a
\* child ends although the child does not: PassEnds of ReactorTimers and RunEnds
\* of ChildRun.
WaitsEnd == PassEnds /\ (part = "child" => RunEnds)

=============================================================================
