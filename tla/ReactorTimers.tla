--------------------------- MODULE ReactorTimers ----------------------------
(***************************************************************************)
(* The timers of the reactor (reactor.c): the sorted list that              *)
(* process_expired_timers works off at the head of every pass of the loop,  *)
(* while the callbacks it makes add and cancel timers, their own included.  *)
(*                                                                         *)
(* A timer of the model is an internal timer structure; it is allocated     *)
(* from Timers and used again once freed.  handle says that the caller may  *)
(* still use the public structure.                                          *)
(***************************************************************************)
EXTENDS Naturals, Sequences, FiniteSetsExt

CONSTANTS
    Timers,       \* timer structures
    Delays,       \* timeout_ms of the callers: none of them passes 0
    Intervals,    \* interval_ms, 0 for a one-shot timer
    MaxTime,      \* bound on the clock
    NoTimer,      \* no callback is running
    Off           \* the abstract deadline of a timer that is not armed

ASSUME TimerAssumption ==
    /\ Delays \subseteq Nat \ {0} /\ Intervals \subseteq Nat
    /\ MaxTime \in Nat /\ NoTimer \notin Timers /\ Off \notin Nat

VARIABLES
    clock,        \* the monotonic clock
    current_time, \* priv->current_time_ms
    now,          \* process_expired_timers' local: the time of this pass
    list,         \* the timer list from timer_head on
    expires, interval, active, pending_delete,  \* fields of the timers
    allocated, handle,
    pc,           \* where reactor_run is
    cur           \* the timer whose callback runs

timeVars  == <<current_time, now>>
fieldVars == <<expires, interval, active, pending_delete, allocated, handle>>
vars == <<clock, timeVars, list, fieldVars, pc, cur>>

Flag == {0, 1}
Linked == Range(list)

-----------------------------------------------------------------------------
timer_list_insert_at_head(l, t, e) == <<t>> \o l

(* timer_list_insert: behind every timer that expires no later. *)
timer_list_insert(l, t, e) ==
    LET later == {i \in DOMAIN l : expires[l[i]] > e}
        p     == Min(later \cup {Len(l) + 1})
    IN  SubSeq(l, 1, p - 1) \o <<t>> \o SubSeq(l, p, Len(l))

(* timer_list_remove: of a timer that is linked. *)
timer_list_remove(l, t) ==
    LET p == CHOOSE i \in DOMAIN l : l[i] = t
    IN  SubSeq(l, 1, p - 1) \o SubSeq(l, p + 1, Len(l))

Free(t) ==
    /\ allocated' = [allocated EXCEPT ![t] = 0]
    /\ handle' = [handle EXCEPT ![t] = 0]

(* The next deadline of a repeating timer: the first after now on its grid. *)
Realigned(t) ==
    CHOOSE e \in now + 1 .. now + interval[t] :
        \E k \in 1 .. now + 1 : e = expires[t] + k * interval[t]

-----------------------------------------------------------------------------
(* What callbacks of timers and of descriptors do with timers. *)
InCallback == pc \in {"callback", "io"}

Added(t, e, i) ==
    /\ InCallback /\ allocated[t] = 0
    /\ expires' = [expires EXCEPT ![t] = e]
    /\ interval' = [interval EXCEPT ![t] = i]
    /\ active' = [active EXCEPT ![t] = 1]
    /\ pending_delete' = [pending_delete EXCEPT ![t] = 0]
    /\ allocated' = [allocated EXCEPT ![t] = 1]
    /\ handle' = [handle EXCEPT ![t] = 1]
    /\ list' = timer_list_insert(list, t, e)
    /\ UNCHANGED <<clock, timeVars, pc, cur>>

reactor_add_timer(t, d, i) == Added(t, clock + d, i)

(* A cancelled timer goes to the head of the list, where the next pass frees
   it; one whose callback is running is freed when that returns.           *)
reactor_cancel_timer(t) ==
    /\ InCallback /\ handle[t] = 1
    /\ IF t \in Linked
       THEN /\ expires' = [expires EXCEPT ![t] = current_time]
            /\ list' = timer_list_insert(timer_list_remove(list, t), t, current_time)
       ELSE UNCHANGED <<expires, list>>
    /\ active' = [active EXCEPT ![t] = 0]
    /\ pending_delete' = [pending_delete EXCEPT ![t] = 1]
    /\ handle' = [handle EXCEPT ![t] = 0]
    /\ UNCHANGED <<clock, timeVars, interval, allocated, pc, cur>>

-----------------------------------------------------------------------------
(* reactor_run: the time is taken, and process_expired_timers takes its own. *)
BeginPass ==
    /\ pc = "top" /\ pc' = "pass"
    /\ current_time' = clock /\ now' = clock
    /\ UNCHANGED <<clock, list, fieldVars, cur>>

Expired == list # <<>> /\ expires[Head(list)] <= now

(* A cancelled timer at the head is freed without a call. *)
FreeCancelled ==
    LET t == Head(list)
    IN  /\ pc = "pass" /\ Expired /\ pending_delete[t] = 1
        /\ list' = Tail(list)
        /\ Free(t)
        /\ UNCHANGED <<clock, timeVars, expires, interval, active, pending_delete, pc, cur>>

(* The head is unlinked and its callback runs. *)
CallBack ==
    LET t == Head(list)
    IN  /\ pc = "pass" /\ Expired /\ pending_delete[t] = 0
        /\ list' = Tail(list)
        /\ pc' = "callback" /\ cur' = t
        /\ UNCHANGED <<clock, timeVars, fieldVars>>

CallbackReturns_ignores_cancel ==
    LET t == cur
    IN  /\ pc = "callback" /\ pc' = "pass" /\ cur' = NoTimer
        /\ IF interval[t] > 0
           THEN /\ expires' = [expires EXCEPT ![t] = Realigned(t)]
                /\ list' = timer_list_insert(list, t, Realigned(t))
                /\ active' = [active EXCEPT ![t] = 1]
                /\ pending_delete' = [pending_delete EXCEPT ![t] = 0]
                /\ UNCHANGED <<allocated, handle>>
           ELSE Free(t) /\ UNCHANGED <<expires, list, active, pending_delete>>
        /\ UNCHANGED <<clock, timeVars, interval>>

(* A repeating timer that was not cancelled meanwhile is linked again. *)
CallbackReturns ==
    LET t == cur
    IN  /\ pc = "callback" /\ pc' = "pass" /\ cur' = NoTimer
        /\ IF active[t] = 1 /\ pending_delete[t] = 0 /\ interval[t] > 0
           THEN /\ expires' = [expires EXCEPT ![t] = Realigned(t)]
                /\ list' = timer_list_insert(list, t, Realigned(t))
                /\ UNCHANGED <<allocated, handle>>
           ELSE Free(t) /\ UNCHANGED <<expires, list>>
        /\ UNCHANGED <<clock, timeVars, interval, active, pending_delete>>

(* epoll_wait, and the callbacks of the events it reports. *)
EndPass ==
    /\ pc = "pass" /\ ~Expired /\ pc' = "wait"
    /\ UNCHANGED <<clock, timeVars, list, fieldVars, cur>>

Dispatch ==
    /\ pc = "wait" /\ pc' = "io"
    /\ UNCHANGED <<clock, timeVars, list, fieldVars, cur>>

EndDispatch ==
    /\ pc = "io" /\ pc' = "top"
    /\ UNCHANGED <<clock, timeVars, list, fieldVars, cur>>

Tick ==
    /\ clock < MaxTime /\ clock' = clock + 1
    /\ UNCHANGED <<timeVars, list, fieldVars, pc, cur>>

-----------------------------------------------------------------------------
(* reactor_create; components add their first timers before the loop runs. *)
Init ==
    /\ clock = 0 /\ current_time = 0 /\ now = 0
    /\ list = <<>> /\ pc = "io" /\ cur = NoTimer
    /\ expires = [t \in Timers |-> 0] /\ interval = [t \in Timers |-> 0]
    /\ active = [t \in Timers |-> 0] /\ pending_delete = [t \in Timers |-> 0]
    /\ allocated = [t \in Timers |-> 0] /\ handle = [t \in Timers |-> 0]

Loop == \/ BeginPass \/ FreeCancelled \/ CallBack \/ CallbackReturns
        \/ EndPass \/ Dispatch \/ EndDispatch

Callers == \E t \in Timers :
    \/ reactor_cancel_timer(t)
    \/ \E d \in Delays, i \in Intervals : reactor_add_timer(t, d, i)

Next == Loop \/ Callers \/ Tick

Spec == Init /\ [][Next]_vars

(* The loop runs and callbacks return. *)
FairSpec == Spec /\ WF_vars(Loop)

-----------------------------------------------------------------------------
(* Properties. *)

\* The types of the variables.
TypeOK ==
    /\ clock \in 0 .. MaxTime /\ current_time \in 0 .. clock /\ now \in 0 .. clock
    /\ list \in Seq(Timers) /\ cur \in Timers \cup {NoTimer}
    /\ expires \in [Timers -> Nat] /\ interval \in [Timers -> Intervals \cup {0}]
    /\ active \in [Timers -> Flag] /\ pending_delete \in [Timers -> Flag]
    /\ allocated \in [Timers -> Flag] /\ handle \in [Timers -> Flag]
    /\ pc \in {"top", "pass", "callback", "wait", "io"}

(* The list is sound: sorted by deadline, without duplicates, of allocated
   timers only, and the running timer is not in it: callbacks that add or
   cancel timers in the middle of a pass leave nothing freed behind.  A handle
   a caller may still use is that of a live timer.                         *)
ListSound ==
    /\ TypeOK
    /\ \A i, j \in DOMAIN list : i < j => expires[list[i]] <= expires[list[j]]
    /\ IsInjective(list)
    /\ {t \in Timers : allocated[t] = 1} = Linked \cup (IF pc = "callback" THEN {cur} ELSE {})
    /\ cur \notin Linked
    /\ \A t \in Timers : handle[t] = 1 => /\ allocated[t] = 1 /\ active[t] = 1
                                          /\ pending_delete[t] = 0

(* The reactor never goes to wait with an overdue timer or a cancelled one: the
   pass has called the former and freed the latter, at whatever point of the
   pass they came about.                                                   *)
PassComplete ==
    pc = "wait" => \A t \in Linked : expires[t] > now /\ pending_delete[t] = 0

(* What a component relies on between its calls: the list is sound, and the
   reactor sleeps with nothing left over from its pass.                    *)
TimersSound == ListSound /\ PassComplete

(* A pass ends: callbacks that re-arm their timers do not keep it busy. *)
PassEnds == pc = "pass" ~> pc = "wait"

(* The reactor keeps the promise of TimerService: armed timers call back in the
   order of their deadlines and cancelled ones never do.                   *)
Deadline(t) ==
    CASE t \in Linked /\ active[t] = 1 -> expires[t]
      [] t = cur /\ active[t] = 1 /\ interval[t] > 0 -> Realigned(t)
      [] OTHER -> Off

Promise == INSTANCE TimerService WITH
    now <- clock, due <- [t \in Timers |-> Deadline(t)], running <- cur,
    period <- interval

KeepsPromise == Promise!Spec

=============================================================================
