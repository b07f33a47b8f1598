------------------------------- MODULE Health -------------------------------
(***************************************************************************)
(* How the supervisor learns whether sing-box is healthy: the API worker   *)
(* thread samples sing-box once per round and sends the sample through a   *)
(* pipe (src/api.c), the reactor keeps the last one received, and the      *)
(* health check of the supervisor (src/service.c) judges the current child *)
(* by it.  The sample carries the time it was received, not the child it   *)
(* was taken from, and the child may be replaced in between.               *)
(*                                                                         *)
(* Time passes in steps of a second.  An RPC is meant to take at most       *)
(* RpcBudget, but its socket timeout is that of one send or recv and begins *)
(* again with every piece: it may take longer, and so may the reactor.     *)
(***************************************************************************)
EXTENDS Integers, Sequences

CONSTANTS
    RpcBudget,   \* API_REFRESH_RPC_BUDGET_MS
    Interval,    \* API_REFRESH_INTERVAL_MS
    Margin,      \* API_SNAPSHOT_STALE_MARGIN_MS: how late the reactor may be
    MaxChildren  \* bound: children spawned

ASSUME HealthAssumption == RpcBudget \in Nat /\ Interval \in Nat /\ Margin \in Nat

VARIABLES
    state,       \* service_ctx_t.state: "STARTING", "RUNNING" or "FAILED"
    child,       \* generation of the current child
    answers,     \* it answers RPCs
    alive,       \* it runs
    healthy,     \* running_healthy
    rounds,      \* samples written since it was spawned, capped at 2
    rpc,         \* where the worker is in its round
    spent,       \* seconds spent there, capped
    candidate,   \* the sample being taken
    pipe,        \* the newest sample in the result pipe, if any
    waiting,     \* seconds the oldest one there has waited, capped
    snapshot,    \* api_ctx_t.snapshot
    age,         \* seconds since a valid one was received, capped
    since,       \* snapshot.updated_at_ms >= start_time_ms
    late         \* history: since a valid one was received the worker or the reactor exceeded its limit

healthVars == <<state, child, answers, alive, healthy, rounds, rpc, spent, candidate,
                pipe, waiting, snapshot, age, since, late>>

RefreshRpcs == 3
VpnRpcs     == 2
Round       == Interval + (RefreshRpcs + VpnRpcs) * RpcBudget
StaleAfter_without_vpn == Interval + RefreshRpcs * RpcBudget + Margin
\* API_SNAPSHOT_STALE_MS
StaleAfter  == Interval + (RefreshRpcs + VpnRpcs) * RpcBudget + Margin

UpTo(cap, n) == IF n < cap THEN n + 1 ELSE n

Sample(c, v) == [from |-> c, valid |-> v]
NoSample     == Sample(0, FALSE)
serviceVars  == <<state, child, answers, alive, healthy>>
readerVars   == <<waiting, snapshot, age, since, late>>

-----------------------------------------------------------------------------
(* The worker thread: api_refresh_worker, api_refresh_candidate. *)

Rpcs == {"vpn_get", "vpn_set", "status", "version", "mode"}

\* What the worker does ends, and the next thing begins.
Enter(next) == rpc' = next /\ spent' = 0

\* The wait ends after the interval, or earlier when the worker is woken; a
\* request for a mode needs one RPC or two.
VpnStep ==
    /\ \/ rpc = "wait" /\ \E n \in {"vpn_get", "status"} : Enter(n)
       \/ rpc = "vpn_get" /\ \E n \in {"vpn_set", "status"} : Enter(n)
       \/ rpc = "vpn_set" /\ Enter("status")
    /\ UNCHANGED <<candidate, pipe, rounds, serviceVars, readerVars>>

\* Only a child that answers gives a valid sample; without one the two other
\* RPCs of the round are not made.
StatusStep ==
    /\ rpc = "status"
    /\ LET ok == answers = 1 /\ alive = 1 IN
       /\ candidate' = Sample(child, ok)
       /\ Enter(IF ok THEN "version" ELSE "write")
    /\ UNCHANGED <<pipe, rounds, serviceVars, readerVars>>

RefreshStep ==
    /\ \/ rpc = "version" /\ Enter("mode")
       \/ rpc = "mode" /\ Enter("write")
    /\ UNCHANGED <<candidate, pipe, rounds, serviceVars, readerVars>>

\* Of the samples in the pipe only the last is ever kept.  The pipe holds more
\* than the worker takes within the margin; when the reactor leaves them there for
\* longer it is full in the end, and the sample is dropped.
WriteStep ==
    /\ rpc = "write" /\ Enter("wait")
    /\ \/ /\ pipe' = <<candidate>>
          /\ waiting' = IF pipe = <<>> THEN 0 ELSE waiting
          /\ rounds' = UpTo(2, rounds)
       \/ pipe # <<>> /\ waiting = Margin /\ UNCHANGED <<pipe, waiting, rounds>>
    /\ candidate' = NoSample
    /\ UNCHANGED <<snapshot, age, since, late, serviceVars>>

HealthWorker == VpnStep \/ StatusStep \/ RefreshStep \/ WriteStep

-----------------------------------------------------------------------------
(* The reactor thread. *)

\* api_result_cb reads all samples and keeps the last.
api_result_cb ==
    /\ pipe # <<>>
    /\ snapshot' = pipe[1] /\ pipe' = <<>>
    /\ age' = 0 /\ since' = 1 /\ waiting' = 0 /\ late' = 0
    /\ UNCHANGED <<rpc, spent, candidate, rounds, serviceVars>>

\* api_get_snapshot: a snapshot that is too old is not valid.
SnapshotValid == snapshot.valid /\ age <= StaleAfter

service_health_check_cb_any_sample ==
    /\ state = "RUNNING"
    /\ healthy' = IF alive = 1 /\ age <= StaleAfter /\ since = 1 THEN 1 ELSE 0
    /\ UNCHANGED <<state, child, answers, alive, rounds, rpc, spent, candidate, pipe, readerVars>>

service_health_check_cb ==
    /\ state = "RUNNING"
    /\ healthy' = IF alive = 1 /\ SnapshotValid /\ since = 1 THEN 1 ELSE 0
    /\ UNCHANGED <<state, child, answers, alive, rounds, rpc, spent, candidate, pipe, readerVars>>

\* service_spawn, by a start or a retry.  A snapshot received in the same
\* millisecond is not older than the child.
service_spawn ==
    /\ state = "FAILED" /\ child < MaxChildren
    /\ state' = "STARTING" /\ child' = child + 1 /\ alive' = 1 /\ rounds' = 0
    /\ answers' \in {0, 1}
    /\ since' \in IF age = 0 THEN {0, since} ELSE {0}
    /\ UNCHANGED <<healthy, rpc, spent, candidate, pipe, waiting, snapshot, age, late>>

\* service_monitor_cb: the probe asks the child itself and ends STARTING.
MonitorProbe ==
    /\ state = "STARTING" /\ alive = 1 /\ answers = 1
    /\ state' = "RUNNING" /\ healthy' = 1
    /\ UNCHANGED <<child, answers, alive, rounds, rpc, spent, candidate, pipe, readerVars>>

MonitorFails ==
    /\ \/ state \in {"STARTING", "RUNNING"} /\ alive = 0
       \/ state = "STARTING" /\ answers = 0
    /\ state' = "FAILED" /\ alive' = 0 /\ answers' = 0
    /\ UNCHANGED <<child, healthy, rounds, rpc, spent, candidate, pipe, readerVars>>

-----------------------------------------------------------------------------
(* sing-box and the clock. *)

ChildChanges ==
    /\ alive = 1
    /\ \/ alive' = 0 /\ answers' = 0
       \/ answers' = 1 - answers /\ UNCHANGED alive
    /\ UNCHANGED <<state, child, healthy, rounds, rpc, spent, candidate, pipe, readerVars>>

Limit == IF rpc \in Rpcs THEN RpcBudget ELSE IF rpc = "wait" THEN Interval ELSE 0

\* An RPC may outlast its budget and a sample wait for longer than the margin.
Second ==
    /\ spent' = UpTo(Limit, spent)
    /\ waiting' = IF pipe = <<>> THEN 0 ELSE UpTo(Margin, waiting)
    /\ late' = IF snapshot.valid /\ (spent = Limit \/ (pipe # <<>> /\ waiting = Margin))
               THEN 1 ELSE late
    /\ age' = IF snapshot.valid THEN UpTo(StaleAfter + 1, age) ELSE 0
    /\ UNCHANGED <<serviceVars, rounds, rpc, candidate, pipe, snapshot, since>>

\* The worker is started before sing-box is, and begins with a round.
HealthInit ==
    /\ state = "FAILED" /\ child = 0 /\ answers = 0 /\ alive = 0 /\ healthy = 0
    /\ rounds = 0 /\ rpc \in {"vpn_get", "status"} /\ spent = 0 /\ candidate = NoSample
    /\ pipe = <<>> /\ waiting = 0 /\ snapshot = NoSample /\ age = 0 /\ since = 0
    /\ late = 0

HealthReactor ==
    \/ api_result_cb \/ service_health_check_cb \/ service_spawn \/ MonitorProbe
    \/ MonitorFails
HealthNext == HealthWorker \/ HealthReactor \/ ChildChanges \/ Second

HealthSpec == HealthInit /\ [][HealthNext]_healthVars

-----------------------------------------------------------------------------
(* Properties. *)

(* A valid snapshot does not expire between two rounds, not even when every RPC
   takes its whole budget, a mode is read and set in between and the reactor uses
   up its margin (the comment on API_REFRESH_RPC_BUDGET_MS): it expires only when
   a limit was exceeded after it was received.  And a child is judged by the
   sample of its predecessor at most until the reactor has received the second
   sample written after the spawn, however long each of them took.         *)
SampleAge ==
    /\ snapshot.valid /\ late = 0 => age <= StaleAfter
    /\ rounds = 2 /\ pipe = <<>> => snapshot.from = child

(* A sing-box that stops answering for good is reported unhealthy in the end and
   stays so, whatever samples of better times were on their way
   (service_health_check_cb).                                              *)
HangNoticed ==
    <>[](state = "RUNNING" /\ answers = 0) => <>[](healthy = 0)

=============================================================================
