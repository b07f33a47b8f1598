---------------------------- MODULE TimerService ----------------------------
(***************************************************************************)
(* What the reactor promises to the components that use its timers: a timer *)
(* that is armed calls back when it is due and no timer armed for an        *)
(* earlier time is left, a one-shot timer does so once, a repeating one     *)
(* keeps to its grid, and a disarmed timer never calls back.                *)
(***************************************************************************)
EXTENDS Naturals

CONSTANTS
    Timers,     \* timer identities
    NoTimer,    \* no callback runs
    Off         \* the deadline of a timer that is not armed

VARIABLES
    now,        \* the monotonic clock
    due,        \* due[t]: when t calls back next, or Off
    running,    \* the timer whose callback runs, or NoTimer
    period      \* period[t]: 0 for a one-shot timer

vars == <<now, due, running, period>>

Armed == {t \in Timers : due[t] # Off}

Init ==
    /\ now \in Nat
    /\ due = [t \in Timers |-> Off] /\ running = NoTimer
    /\ period = [t \in Timers |-> 0]

Tick == now' = now + 1 /\ UNCHANGED <<due, running, period>>

Arm(t) ==
    /\ due[t] = Off
    /\ due' = [due EXCEPT ![t] = due'[t]] /\ due'[t] \in Nat /\ due'[t] >= now
    /\ period' = [period EXCEPT ![t] = period'[t]] /\ period'[t] \in Nat
    /\ UNCHANGED <<now, running>>

Disarm(t) ==
    /\ due[t] # Off
    /\ due' = [due EXCEPT ![t] = Off]
    /\ UNCHANGED <<now, running, period>>

Fire(t) ==
    /\ running = NoTimer /\ running' = t
    /\ due[t] # Off /\ due[t] <= now
    /\ \A u \in Armed : due[t] <= due[u]
    /\ due' = [due EXCEPT ![t] = due'[t]]
    /\ IF period[t] = 0 THEN due'[t] = Off
       ELSE /\ \E k \in 1 .. now + 1 : due'[t] = due[t] + k * period[t]
            /\ due'[t] - period[t] <= now
    /\ UNCHANGED <<now, period>>

Return ==
    /\ running # NoTimer /\ running' = NoTimer
    /\ UNCHANGED <<now, due, period>>

Next == Tick \/ Return \/ \E t \in Timers : Arm(t) \/ Disarm(t) \/ Fire(t)

Spec == Init /\ [][Next]_vars

=============================================================================
