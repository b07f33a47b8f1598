------------------------------- MODULE Service -------------------------------
(***************************************************************************)
(* The supervisor of the sing-box process (src/service.c), with the part   *)
(* of main.c that starts it, waits for it and destroys it.                 *)
(*                                                                         *)
(* Every callback runs to completion on the reactor thread, so a callback  *)
(* is one action.  What interleaves with the callbacks is the world: the   *)
(* child may die between any two of them (and inside the blocking probe),  *)
(* SIGKILL takes effect at any later time, and clocks advance.  Time is    *)
(* abstracted to the two facts the code reads from it: that the startup    *)
(* timeout has passed (overdue) and that the cool-down has (cooled).  A    *)
(* pending timer may fire at any time.                                     *)
(***************************************************************************)
EXTENDS Naturals, FiniteSets

CONSTANTS
    Pid,                \* process ids the kernel may give to a child
    NoPid,              \* child_pid = -1, and the absent PID file
    MaxFailuresValues,  \* values of SERVICE_MAX_FAILURES over all reloads
    Threshold,          \* SERVICE_CIRCUIT_THRESHOLD
    BaseDelay,          \* backoff_init: first retry delay
    MaxDelay,           \* backoff_init: the cap on the retry delay
    StopAttempts,       \* stop_timeout_sec * 10: checks of the async stop
    MaxReloads,         \* bound: reloads in one behaviour
    Faults,             \* environment faults that may happen, see FaultKinds
    AsyncClient         \* TRUE: a client of service_stop_async is present

(* "spawn": a step of service_spawn fails; "timer": reactor_add_timer has
   no memory; "alloc": calloc of the stop state fails; "kill": kill returns
   an error other than ESRCH; "proc": /proc cannot be read.                *)
FaultKinds == {"spawn", "timer", "alloc", "kill", "proc"}

ASSUME PidAssumption == NoPid \notin Pid
ASSUME LimitAssumption ==
    /\ MaxFailuresValues \subseteq Nat \ {0}
    /\ Threshold \in Nat \ {0}
    /\ BaseDelay \in Nat \ {0} /\ MaxDelay \in Nat \ {0}
    /\ BaseDelay <= MaxDelay
    /\ StopAttempts \in Nat \ {0}
    /\ MaxReloads \in Nat
ASSUME FaultAssumption == Faults \subseteq FaultKinds
ASSUME ClientAssumption == AsyncClient \in BOOLEAN

VARIABLES
    phase,           \* run_event_loop: "init", "boot", "loop", "failed", "down"
    state,           \* service_ctx_t.state
    child_pid,       \* service_ctx_t.child_pid
    validated_pid,   \* service_ctx_t.validated_pid
    fail_count,      \* service_ctx_t.fail_count
    max_failures,    \* service_ctx_t.max_failures
    running_healthy, \* service_ctx_t.running_healthy
    overdue,         \* now - start_time_ms >= start_timeout_sec
    breaker,         \* service_ctx_t.breaker; cooled: now - last_failure > cooldown
    delay,           \* service_ctx_t.backoff.current_delay_ms
    monitor_timer,   \* the periodic monitor timer is armed
    retry_timer,     \* the handle service_ctx_t.retry_timer
    retries,         \* number of live timers calling service_delayed_spawn_cb
    health_timer,    \* the handle service_ctx_t.health_timer
    healths,         \* number of live timers calling service_health_check_cb
    recheck,         \* the anonymous 100 ms readiness check is pending
    stop_wait,       \* attempts of the pending async stop, or NoStop
    proc,            \* the kernel's view of every process the daemon forked
    sigchld,         \* SIGCHLD is pending on the signalfd (signals coalesce)
    pid_file,        \* the process named by sing-box.pid
    reloads,         \* number of reloads so far
    attempts,        \* history: spawn attempts since sing-box was last ready
                     \* or a client asked for a start
    done_cb          \* history: what became of the last async stop's done_cb

ctxVars   == <<state, child_pid, validated_pid, fail_count, max_failures,
               running_healthy, overdue, breaker, delay>>
timerVars == <<monitor_timer, retry_timer, retries, health_timer, healths,
               recheck, stop_wait>>
osVars    == <<proc, sigchld, pid_file>>
histVars  == <<reloads, attempts, done_cb>>
vars      == <<phase, ctxVars, timerVars, osVars, histVars>>

\* The C flags; for a timer handle, 0 is NULL.
Flag == {0, 1}

ServiceStates == {"STOPPED", "STARTING", "RUNNING", "FAILED", "STOPPING"}
NoStop == StopAttempts

-----------------------------------------------------------------------------
(* Backoff and circuit breaker, as functions of their structs.  The failure
   count saturates at Threshold, the only value it is compared with.       *)

Least(m, n) == IF m <= n THEN m ELSE n

backoff_next_uncapped(d) == 2 * d
backoff_next(d) == Least(2 * d, MaxDelay)

BreakerType == [failures : Nat, circuit_open : Flag, cooled : Flag]

circuit_breaker_reset == [failures |-> 0, circuit_open |-> 0, cooled |-> 0]

should_allow_never_cools(b) == b.circuit_open = 0

should_allow_always(b) == TRUE

circuit_breaker_should_allow(b) == b.circuit_open = 0 \/ b.cooled = 1

\* The struct after a call of circuit_breaker_should_allow that returned 1.
BreakerAllowed(b) ==
    IF b.circuit_open = 1 THEN [b EXCEPT !.circuit_open = 0, !.failures = 0] ELSE b

circuit_breaker_record_failure(b) ==
    [failures |-> Least(b.failures + 1, Threshold),
     circuit_open |-> IF b.failures + 1 >= Threshold THEN 1 ELSE b.circuit_open,
     cooled |-> 0]

circuit_breaker_record_success(b) ==
    [b EXCEPT !.failures = 0, !.circuit_open = 0]

-----------------------------------------------------------------------------
(* Processes.  A child killed with SIGKILL is "doomed" until it dies; a dead
   child stays a zombie until the daemon waits for it, then its id is free. *)

ProcStates == {"free", "live", "doomed", "zombie"}

Unreaped(p) == proc[p] # "free"

\* service_is_alive may return 1, and may return 0: kill(pid, 0) succeeds on
\* zombies too, and a failing read of /proc/<pid>/stat makes the answer 0.
service_is_alive  == child_pid # NoPid
service_not_alive == child_pid = NoPid \/ "proc" \in Faults

Kill_missing(f, p) == f

Kill(f, p) == IF f[p] = "live" THEN [f EXCEPT ![p] = "doomed"] ELSE f

\* kill(p, SIGKILL), whose result service_monitor_cb does not look at.
Killed(p) == {Kill(proc, p)} \cup (IF "kill" \in Faults THEN {proc} ELSE {})

ForgetChild_keeps_file ==
    child_pid' = NoPid /\ validated_pid' = 0 /\ UNCHANGED pid_file

\* waitpid succeeded: forget the child and remove the PID file.
ForgetChild ==
    /\ child_pid' = NoPid
    /\ validated_pid' = 0
    /\ pid_file' = NoPid

\* kill(SIGKILL) and a blocking waitpid, which returns when the child is gone,
\* of whatever cause.
KillAndReap ==
    IF child_pid = NoPid
    THEN UNCHANGED <<proc, sigchld>>
    ELSE /\ proc' = [proc EXCEPT ![child_pid] = "free"]
         /\ sigchld' = IF proc[child_pid] = "zombie" THEN sigchld ELSE 1

-----------------------------------------------------------------------------
(* Helpers of the callbacks.  Each fixes exactly the variables it names.    *)

\* service_spawn returning 0.
SpawnOk(p) ==
    /\ proc[p] = "free"
    /\ proc' = [proc EXCEPT ![p] = "live"]
    /\ child_pid' = p
    /\ validated_pid' = 1
    /\ overdue' = 0
    /\ pid_file' = p
    /\ UNCHANGED sigchld

\* service_spawn returning -1: before the fork (or no process id is left),
\* because the start time cannot be read, or because the PID file cannot be
\* written.  In the last two cases the new child is killed and waited for.
SpawnFails ==
    /\ "spawn" \in Faults \/ \A p \in Pid : Unreaped(p)
    /\ \/ UNCHANGED <<child_pid, validated_pid, overdue, pid_file, sigchld>>
       \/ /\ "spawn" \in Faults
          /\ child_pid' = NoPid
          /\ sigchld' = 1
          /\ UNCHANGED <<validated_pid, overdue, pid_file>>
       \/ /\ "spawn" \in Faults
          /\ ForgetChild
          /\ overdue' = 0
          /\ sigchld' = 1
    /\ UNCHANGED proc

\* service_schedule_retry in a service whose state is s; live is the number
\* of retry timers left after the handle, if any, has been cancelled.
service_schedule_retry(s, live) ==
    /\ delay' = backoff_next(delay)
    /\ \/ state' = s /\ retry_timer' = 1 /\ retries' = live + 1
       \/ /\ "timer" \in Faults
          /\ state' = "FAILED" /\ retry_timer' = 0 /\ retries' = live

OtherRetries_uncancelled == retries

\* The retry timers that survive reactor_cancel_timer on the handle.
OtherRetries == retries - retry_timer
OtherHealths == healths - health_timer

RetryOrGiveUp_uncounted(n, s) ==
    /\ UNCHANGED fail_count
    /\ IF n < max_failures
       THEN service_schedule_retry(s, OtherRetries)
       ELSE state' = "FAILED" /\ UNCHANGED <<delay, retry_timer, retries>>

RetryOrGiveUp_unlimited(n, s) ==
    /\ fail_count' = n
    /\ service_schedule_retry(s, OtherRetries)

\* Retry in state s unless the failures, now n, have used up the budget; the
\* state is then "FAILED" and a retry timer armed earlier is left alone.
RetryOrGiveUp(n, s) ==
    /\ fail_count' = n
    /\ IF n < max_failures
       THEN service_schedule_retry(s, OtherRetries)
       ELSE state' = "FAILED" /\ UNCHANGED <<delay, retry_timer, retries>>

CancelTimers ==
    /\ monitor_timer' = 0
    /\ retry_timer' = 0 /\ retries' = OtherRetries
    /\ health_timer' = 0 /\ healths' = OtherHealths

-----------------------------------------------------------------------------
(* service_monitor_cb: the monitor timer, the anonymous readiness check and,
   while the daemon boots, service_wait_ready call it.                      *)

\* service_wait_ready looks at the state after each call of the monitor.
WaitReadyVerdict ==
    phase' = IF phase # "boot" THEN phase
             ELSE IF state' = "RUNNING" THEN "loop"
             ELSE IF state' = "FAILED" \/ child_pid' = NoPid THEN "failed"
             ELSE "boot"

\* The one-shot readiness check is used up when it is the caller.
MonitorCall ==
    \/ phase = "boot" /\ UNCHANGED recheck
    \/ phase = "loop" /\ monitor_timer = 1 /\ UNCHANGED recheck
    \/ phase = "loop" /\ recheck = 1 /\ recheck' = 0

MonitorTimeout_missing == FALSE

\* STARTING for too long: SIGKILL, without waiting for the child.
MonitorTimeout ==
    /\ MonitorCall
    /\ state = "STARTING" /\ overdue = 1
    /\ IF child_pid = NoPid THEN proc' = proc ELSE proc' \in Killed(child_pid)
    /\ breaker' = circuit_breaker_record_failure(breaker)
    /\ RetryOrGiveUp(fail_count + 1, "FAILED")
    /\ UNCHANGED <<child_pid, validated_pid, max_failures, running_healthy,
                   overdue, monitor_timer, health_timer, healths, stop_wait,
                   sigchld, pid_file, histVars>>
    /\ WaitReadyVerdict

\* The Native API answers and the child is still there: RUNNING.
MonitorReady ==
    /\ MonitorCall
    /\ state = "STARTING" /\ overdue = 0
    /\ child_pid # NoPid /\ proc[child_pid] \in {"live", "doomed"}
    /\ validated_pid = 1
    /\ fail_count' = 0
    /\ running_healthy' = 1
    /\ delay' = BaseDelay
    /\ breaker' = circuit_breaker_record_success(breaker)
    /\ attempts' = 1
    /\ \/ state' = "RUNNING" /\ health_timer' = 1 /\ healths' = OtherHealths + 1
       \/ /\ "timer" \in Faults
          /\ state' = "FAILED" /\ health_timer' = 0 /\ healths' = OtherHealths
    /\ UNCHANGED <<child_pid, validated_pid, max_failures, overdue,
                   monitor_timer, retry_timer, retries, stop_wait, osVars,
                   reloads, done_cb>>
    /\ WaitReadyVerdict

\* The child dies while the blocking probe is under way and the probe's own
\* liveness check reaps it: the probe fails and nothing else happens.
MonitorProbeReaps ==
    /\ MonitorCall
    /\ state = "STARTING" /\ overdue = 0
    /\ child_pid # NoPid /\ proc[child_pid] \in {"live", "doomed"}
    /\ proc' = [proc EXCEPT ![child_pid] = "free"]
    /\ sigchld' = 1
    /\ ForgetChild
    /\ UNCHANGED <<state, fail_count, max_failures, running_healthy, overdue,
                   breaker, delay, monitor_timer, retry_timer, retries,
                   health_timer, healths, stop_wait, histVars>>
    /\ WaitReadyVerdict

\* service_starting_child_alive says no: there is no child, it is a zombie
\* (reaped here), or /proc cannot be read.  The state stays STARTING.
MonitorDead ==
    /\ MonitorCall
    /\ state = "STARTING" /\ overdue = 0
    /\ \/ child_pid = NoPid /\ UNCHANGED <<child_pid, validated_pid, pid_file, proc>>
       \/ /\ child_pid # NoPid /\ proc[child_pid] = "zombie"
          /\ proc' = [proc EXCEPT ![child_pid] = "free"]
          /\ ForgetChild
       \/ /\ service_not_alive /\ child_pid # NoPid
          /\ UNCHANGED <<child_pid, validated_pid, pid_file, proc>>
    /\ breaker' = circuit_breaker_record_failure(breaker)
    /\ RetryOrGiveUp(fail_count + 1, "STARTING")
    /\ UNCHANGED <<max_failures, running_healthy, overdue, monitor_timer,
                   health_timer, healths, stop_wait, sigchld, histVars>>
    /\ WaitReadyVerdict

\* RUNNING, and service_is_alive says no.
MonitorRunningDead ==
    /\ MonitorCall
    /\ state = "RUNNING"
    /\ service_not_alive
    /\ breaker' = circuit_breaker_record_failure(breaker)
    /\ RetryOrGiveUp(fail_count + 1, "FAILED")
    /\ UNCHANGED <<child_pid, validated_pid, max_failures, running_healthy,
                   overdue, monitor_timer, health_timer, healths, stop_wait,
                   osVars, histVars>>
    /\ WaitReadyVerdict

\* FAILED with no child and no retry on the way: schedule one.
MonitorFailed ==
    /\ MonitorCall
    /\ state = "FAILED" /\ child_pid = NoPid
    /\ fail_count < max_failures /\ retry_timer = 0
    /\ service_schedule_retry("FAILED", retries)
    /\ UNCHANGED <<child_pid, validated_pid, fail_count, max_failures,
                   running_healthy, overdue, breaker, monitor_timer,
                   health_timer, healths, stop_wait, osVars, histVars>>
    /\ WaitReadyVerdict

service_monitor_cb ==
    \/ MonitorTimeout \/ MonitorReady \/ MonitorProbeReaps \/ MonitorDead
    \/ MonitorRunningDead \/ MonitorFailed

-----------------------------------------------------------------------------
(* The other callbacks of the reactor.                                      *)

\* The retry timer.  Nothing here looks at child_pid: a child that has been
\* killed but not waited for is forgotten when the new one is forked.  The
\* early return in state STOPPED is a guard: TimersOwned shows that no
\* retry timer is left then.
service_delayed_spawn_cb ==
    /\ phase = "loop" /\ retries > 0
    /\ state # "STOPPED"
    /\ LET live == retries - 1 IN
       \/ /\ ~circuit_breaker_should_allow(breaker)
          /\ service_schedule_retry(state, live)
          /\ UNCHANGED <<child_pid, validated_pid, fail_count, overdue, breaker,
                         recheck, osVars, attempts>>
       \/ /\ circuit_breaker_should_allow(breaker)
          /\ \E p \in Pid : SpawnOk(p)
          /\ state' = "STARTING"
          /\ breaker' = BreakerAllowed(breaker)
          /\ retry_timer' = 0 /\ retries' = live
          /\ recheck' \in {1} \cup (IF "timer" \in Faults THEN {recheck} ELSE {})
          /\ attempts' = attempts + 1
          /\ UNCHANGED <<fail_count, delay>>
       \/ /\ circuit_breaker_should_allow(breaker)
          /\ SpawnFails
          /\ breaker' = circuit_breaker_record_failure(BreakerAllowed(breaker))
          /\ fail_count' = fail_count + 1
          /\ IF fail_count + 1 < max_failures
             THEN service_schedule_retry(state, live)
             ELSE /\ state' = "FAILED"
                  /\ retry_timer' = 0 /\ retries' = live
                  /\ UNCHANGED delay
          /\ attempts' = attempts + 1
          /\ UNCHANGED recheck
    /\ UNCHANGED <<phase, max_failures, running_healthy, monitor_timer,
                   health_timer, healths, stop_wait, reloads, done_cb>>

\* The states in which the death of the child is a failure.
DeathIsFailure(s) == s \in {"RUNNING", "STARTING"}

\* SIGCHLD on the signalfd: wait for child_pid only.
service_sigchld_cb ==
    /\ phase = "loop" /\ sigchld = 1
    /\ sigchld' = 0
    /\ IF child_pid # NoPid /\ proc[child_pid] = "zombie"
       THEN /\ proc' = [proc EXCEPT ![child_pid] = "free"]
            /\ ForgetChild
            /\ running_healthy' = 0
            /\ IF DeathIsFailure(state)
               THEN /\ breaker' = circuit_breaker_record_failure(breaker)
                    /\ IF fail_count < max_failures
                       THEN /\ fail_count' = fail_count + 1
                            /\ service_schedule_retry("FAILED", OtherRetries)
                       ELSE /\ state' = "FAILED"
                            /\ UNCHANGED <<fail_count, delay, retry_timer, retries>>
               ELSE UNCHANGED <<state, breaker, fail_count, delay, retry_timer, retries>>
       ELSE UNCHANGED <<proc, child_pid, validated_pid, pid_file, running_healthy,
                        state, breaker, fail_count, delay, retry_timer, retries>>
    /\ UNCHANGED <<phase, max_failures, overdue, monitor_timer, health_timer,
                   healths, recheck, stop_wait, histVars>>

\* The health timer; healthy is what the API snapshot says of the child.
service_health_check_cb(healthy) ==
    /\ phase = "loop" /\ healths > 0
    /\ state = "RUNNING"
    /\ \/ /\ service_is_alive
          /\ running_healthy' = healthy
          /\ breaker' = IF healthy = 1 THEN circuit_breaker_record_success(breaker)
                        ELSE circuit_breaker_record_failure(breaker)
       \/ /\ service_not_alive
          /\ running_healthy' = 0
          /\ UNCHANGED breaker
    /\ UNCHANGED <<phase, state, child_pid, validated_pid, fail_count,
                   max_failures, overdue, delay, timerVars, osVars, histVars>>

\* A reload sets the limits; it replaces the health timer when the interval
\* changes while RUNNING.  A longer timeout can make a start not overdue.
\* When the new timer cannot be created nothing at all changes.
service_apply_config(limit, intervalChanged) ==
    /\ phase = "loop" /\ reloads < MaxReloads
    /\ reloads' = reloads + 1
    /\ max_failures' = limit
    /\ overdue' \in {overdue, 0}
    /\ IF intervalChanged /\ state = "RUNNING"
       THEN health_timer' = 1 /\ healths' = OtherHealths + 1
       ELSE UNCHANGED <<health_timer, healths>>
    /\ UNCHANGED <<phase, state, child_pid, validated_pid, fail_count,
                   running_healthy, breaker, delay, monitor_timer, retry_timer,
                   retries, recheck, stop_wait, osVars, attempts, done_cb>>

-----------------------------------------------------------------------------
(* Start and stop.                                                          *)

\* service_start_async; the phase becomes ok when it returns 0 and ko when
\* it returns -1.
service_start_async(ok, ko) ==
    /\ state \notin {"RUNNING", "STARTING"}
    /\ \/ /\ ~circuit_breaker_should_allow(breaker)
          /\ phase' = ko
          /\ UNCHANGED <<ctxVars, osVars, attempts>>
       \/ /\ circuit_breaker_should_allow(breaker)
          /\ service_is_alive
          /\ state' = "STARTING" /\ phase' = ok
          /\ breaker' = BreakerAllowed(breaker)
          /\ attempts' = 1
          /\ UNCHANGED <<child_pid, validated_pid, fail_count, max_failures,
                         running_healthy, overdue, delay, osVars>>
       \/ /\ circuit_breaker_should_allow(breaker)
          /\ service_not_alive
          /\ "spawn" \in Faults      \* service_binary_exists says no
          /\ state' = "FAILED" /\ phase' = ko
          /\ breaker' = BreakerAllowed(breaker)
          /\ UNCHANGED <<child_pid, validated_pid, fail_count, max_failures,
                         running_healthy, overdue, delay, osVars, attempts>>
       \/ /\ circuit_breaker_should_allow(breaker)
          /\ service_not_alive
          /\ \E p \in Pid : SpawnOk(p)
          /\ state' = "STARTING" /\ phase' = ok
          /\ breaker' = BreakerAllowed(breaker)
          /\ fail_count' = 0
          /\ delay' = BaseDelay
          /\ attempts' = 1
          /\ UNCHANGED <<max_failures, running_healthy>>
       \/ /\ circuit_breaker_should_allow(breaker)
          /\ service_not_alive
          /\ SpawnFails
          /\ state' = "FAILED" /\ phase' = ko
          /\ breaker' = circuit_breaker_record_failure(BreakerAllowed(breaker))
          /\ attempts' = 1
          /\ UNCHANGED <<fail_count, max_failures, running_healthy, delay>>

\* run_event_loop starts the service once, before the reactor runs.
DaemonStart ==
    /\ phase = "init"
    /\ service_start_async("boot", "failed")
    /\ UNCHANGED <<timerVars, reloads, done_cb>>

\* service_stop_sync: it blocks until the child is reaped, with SIGTERM and,
\* after the stop timeout, SIGKILL.
service_stop_sync ==
    /\ KillAndReap
    /\ CancelTimers
    /\ ForgetChild
    /\ running_healthy' = 0
    /\ state' = "STOPPED"
    /\ UNCHANGED <<fail_count, max_failures, overdue, breaker, delay, recheck>>

\* run_event_loop's cleanup, after reactor_run returned or start-up failed.
service_destroy ==
    /\ phase \in {"loop", "failed"}
    /\ service_stop_sync
    /\ phase' = "down"
    /\ UNCHANGED <<stop_wait, histVars>>

\* A client's service_stop_async.  A failing kill, timer or calloc makes it
\* return -1; only the calloc path still reports STOPPED and calls done_cb.
service_stop_async ==
    /\ AsyncClient /\ phase = "loop"
    /\ state \notin {"STOPPING", "STOPPED"} /\ stop_wait = NoStop
    /\ health_timer' = 0 /\ healths' = OtherHealths
    /\ \/ /\ "kill" \in Faults /\ child_pid # NoPid
          /\ state' = "STOPPING"
          /\ done_cb' = "refused"
          /\ UNCHANGED <<fail_count, running_healthy, monitor_timer, retry_timer,
                         retries, stop_wait, pid_file>>
       \/ /\ monitor_timer' = 0
          /\ retry_timer' = 0 /\ retries' = OtherRetries
          /\ \/ /\ state' = "STOPPING"
                /\ \/ stop_wait' = 0 /\ done_cb' = "due"
                   \/ "timer" \in Faults /\ stop_wait' = NoStop /\ done_cb' = "refused"
                /\ UNCHANGED <<fail_count, running_healthy, pid_file>>
             \/ /\ "alloc" \in Faults
                /\ state' = "STOPPED"
                /\ fail_count' = 0
                /\ running_healthy' = 0
                /\ pid_file' = NoPid
                /\ done_cb' = "called"
                /\ UNCHANGED stop_wait
    /\ UNCHANGED <<phase, child_pid, validated_pid, max_failures, overdue,
                   breaker, delay, recheck, proc, sigchld, reloads, attempts>>

\* The checks of an async stop are used up.
StopForced == stop_wait + 1 >= StopAttempts

StopDone_silent ==
    /\ ForgetChild
    /\ running_healthy' = 0 /\ state' = "STOPPED"
    /\ stop_wait' = NoStop
    /\ UNCHANGED done_cb

\* The child is gone: the stop is over, and its caller is told.
StopDone ==
    /\ ForgetChild
    /\ running_healthy' = 0 /\ state' = "STOPPED"
    /\ stop_wait' = NoStop
    /\ done_cb' = "called"

\* The 100 ms check of an async stop: done, kill, or look again.  When the next
\* check cannot be scheduled the stop is finished here, without done_cb.
service_stop_wait_cb ==
    /\ phase = "loop" /\ stop_wait # NoStop
    /\ \/ /\ service_not_alive
          /\ StopDone
          /\ UNCHANGED <<proc, sigchld, fail_count, max_failures, overdue,
                         breaker, delay, monitor_timer, retry_timer, retries,
                         health_timer, healths, recheck>>
       \/ /\ service_is_alive /\ StopForced
          /\ KillAndReap
          /\ StopDone
          /\ UNCHANGED <<fail_count, max_failures, overdue, breaker, delay,
                         monitor_timer, retry_timer, retries, health_timer,
                         healths, recheck>>
       \/ /\ service_is_alive /\ ~StopForced
          /\ stop_wait' = stop_wait + 1
          /\ UNCHANGED <<ctxVars, osVars, monitor_timer, retry_timer, retries,
                         health_timer, healths, recheck, done_cb>>
       \/ /\ service_is_alive /\ ~StopForced
          /\ "timer" \in Faults
          /\ service_stop_sync
          /\ stop_wait' = NoStop
          /\ done_cb' = "dropped"
    /\ UNCHANGED <<phase, reloads, attempts>>

\* A client starting the stopped service again, with service_set_reactor
\* (which arms the monitor) first.
ClientRestart ==
    /\ AsyncClient /\ phase = "loop"
    /\ state = "STOPPED" /\ stop_wait = NoStop
    /\ monitor_timer' = 1
    /\ service_start_async("loop", "loop")
    /\ UNCHANGED <<retry_timer, retries, health_timer, healths, recheck,
                   stop_wait, reloads, done_cb>>

-----------------------------------------------------------------------------
(* The world.                                                               *)

\* A child exits, crashes or succumbs to a signal.
ChildDies(p) ==
    /\ phase # "down"
    /\ proc[p] \in {"live", "doomed"}
    /\ proc' = [proc EXCEPT ![p] = "zombie"]
    /\ sigchld' = 1
    /\ UNCHANGED <<phase, ctxVars, timerVars, pid_file, histVars>>

StartTimeoutPasses ==
    /\ phase \in {"boot", "loop"} /\ state = "STARTING" /\ overdue = 0
    /\ overdue' = 1
    /\ UNCHANGED <<phase, state, child_pid, validated_pid, fail_count,
                   max_failures, running_healthy, breaker, delay, timerVars,
                   osVars, histVars>>

CooldownPasses ==
    /\ phase = "loop" /\ breaker.circuit_open = 1 /\ breaker.cooled = 0
    /\ breaker' = [breaker EXCEPT !.cooled = 1]
    /\ UNCHANGED <<phase, state, child_pid, validated_pid, fail_count,
                   max_failures, running_healthy, overdue, delay, timerVars,
                   osVars, histVars>>

-----------------------------------------------------------------------------

\* service_init and service_set_reactor.
Init ==
    /\ phase = "init" /\ state = "STOPPED"
    /\ child_pid = NoPid /\ validated_pid = 0
    /\ fail_count = 0 /\ max_failures \in MaxFailuresValues
    /\ running_healthy = 0 /\ overdue = 0
    /\ breaker = circuit_breaker_reset /\ delay = BaseDelay
    /\ monitor_timer = 1
    /\ retry_timer = 0 /\ retries = 0
    /\ health_timer = 0 /\ healths = 0
    /\ recheck = 0 /\ stop_wait = NoStop
    /\ proc = [p \in Pid |-> "free"] /\ sigchld = 0 /\ pid_file = NoPid
    /\ reloads = 0 /\ attempts = 0 /\ done_cb = "none"

Next ==
    \/ DaemonStart
    \/ service_monitor_cb
    \/ service_delayed_spawn_cb
    \/ service_sigchld_cb
    \/ \E healthy \in {0, 1} : service_health_check_cb(healthy)
    \/ \E limit \in MaxFailuresValues, changed \in BOOLEAN :
          service_apply_config(limit, changed)
    \/ service_stop_async \/ service_stop_wait_cb \/ ClientRestart
    \/ service_destroy
    \/ \E p \in Pid : ChildDies(p)
    \/ StartTimeoutPasses
    \/ CooldownPasses

Spec == Init /\ [][Next]_vars

(* Timers that are armed fire, pending signals are read, SIGKILL works and
   clocks advance; a failed start goes on to its cleanup.  Nothing is assumed of the child: it need never become
   ready, exit, or answer.                                                  *)
Fairness ==
    /\ WF_vars(MonitorTimeout)
    /\ WF_vars(MonitorDead)
    /\ WF_vars(MonitorFailed)
    /\ WF_vars(service_delayed_spawn_cb)
    /\ WF_vars(service_sigchld_cb)
    /\ WF_vars(service_stop_wait_cb)
    /\ WF_vars(StartTimeoutPasses)
    /\ WF_vars(CooldownPasses)
    /\ WF_vars(phase = "failed" /\ service_destroy)
    /\ \A p \in Pid : WF_vars(proc[p] = "doomed" /\ ChildDies(p))

FairSpec == Spec /\ Fairness

-----------------------------------------------------------------------------
(* Properties.                                                              *)

\* The type invariant.
TypeOK ==
    /\ phase \in {"init", "boot", "loop", "failed", "down"}
    /\ state \in ServiceStates
    /\ child_pid \in Pid \cup {NoPid}
    /\ pid_file \in Pid \cup {NoPid}
    /\ proc \in [Pid -> ProcStates]
    /\ fail_count \in Nat /\ max_failures \in Nat
    /\ breaker \in BreakerType
    /\ delay \in BaseDelay..MaxDelay
    /\ stop_wait \in 0..StopAttempts
    /\ retries \in Nat /\ healths \in Nat
    /\ reloads \in Nat /\ attempts \in Nat
    /\ validated_pid \in Flag /\ running_healthy \in Flag
    /\ overdue \in Flag /\ sigchld \in Flag
    /\ done_cb \in {"none", "due", "called", "refused", "dropped"}
    /\ monitor_timer \in Flag /\ recheck \in Flag
    /\ retry_timer \in Flag /\ health_timer \in Flag

\* Only the child in child_pid may be running undisturbed: a child that
\* service_delayed_spawn_cb overwrote has been sent SIGKILL.  (As long as
\* /proc can be read, and a process be killed.)
NoStrayChild ==
    Faults \cap {"proc", "kill"} = {} =>
        \A p \in Pid : proc[p] = "live" => p = child_pid

\* child_pid and sing-box.pid name processes that have not been waited for,
\* so no signal and no status report goes to a recycled process id; and a
\* child is never unvalidated, so the validation in service_monitor_cb
\* (service.c:839-849) has nothing to do.
PidsNotRecycled ==
    /\ child_pid # NoPid => Unreaped(child_pid) /\ validated_pid = 1
    /\ pid_file # NoPid => Unreaped(pid_file)

\* RUNNING is only ever reported of a child the service still holds.
RunningHasChild ==
    ("proc" \notin Faults /\ state = "RUNNING") => child_pid # NoPid

\* retry_timer and health_timer are the only live timers of their kind, and
\* neither handle outlives its timer: no respawn is scheduled twice, no
\* cancelled handle dangles, and none is left in state STOPPED.
TimersOwned ==
    /\ retries = retry_timer
    /\ healths = health_timer
    /\ state = "STOPPED" => retry_timer = 0 /\ health_timer = 0

\* Every respawn is paid for: since sing-box was last ready there have been
\* at most fail_count + 1 spawn attempts, plus one for each reload (which may
\* raise the limit of a service that had given up without counting).  A timer
\* that cannot be created, and a failing service_start_async of a client, are
\* the failures service.c does not count.
RestartBudget ==
    (~AsyncClient /\ Faults \subseteq {"spawn"}) =>
        attempts <= fail_count + 1 + reloads

\* The supervisor gives up at service.max_failures: as long as no reload
\* changes the limit, at most one failure is counted after the one that
\* reached it, whichever of the callbacks notice it and in whatever order.
GivesUpAtLimit == reloads = 0 => fail_count <= max_failures + 1

\* Each failed start is counted once: SERVICE_MAX_FAILURES is documented as a
\* number of consecutive failures, so the count cannot exceed the number of
\* times sing-box was started.
FailuresCountedOnce == fail_count <= attempts

\* A process is forked only when the circuit breaker is closed or has cooled
\* down, and never by a service that is stopping.
SpawnsOnlyWhenAllowed ==
    [][(\E p \in Pid : proc[p] = "free" /\ proc'[p] = "live") =>
          /\ breaker.circuit_open = 0 \/ breaker.cooled = 1
          /\ "kill" \notin Faults => state # "STOPPING"
          /\ phase \in {"init", "loop"}]_vars

\* A start is decided: the service does not stay STARTING for ever.
StartResolves == state = "STARTING" ~> state # "STARTING"

\* A failure within the budget is followed by a new start, whatever the
\* breaker does in between (unless the daemon stops).
FailureRetried ==
    (phase = "loop" /\ state = "FAILED" /\ fail_count < max_failures)
        ~> (state # "FAILED" \/ fail_count >= max_failures \/ phase = "down")

\* An asynchronous stop that was accepted ends with the call of its done_cb in
\* state STOPPED, although the child may ignore SIGTERM.  The daemon's own end
\* cuts it short; and a check that cannot be scheduled again (service.c:681) ends
\* in STOPPED as well, but drops the callback.
StopCompletes ==
    done_cb = "due" ~> \/ done_cb \in {"called", "dropped"} /\ state = "STOPPED"
                       \/ phase = "down"

====
