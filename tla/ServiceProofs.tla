---------------------------- MODULE ServiceProofs ----------------------------
(***************************************************************************)
(* Proofs about the supervisor, for every set of process ids, every limit, *)
(* every combination of faults and with or without an asynchronous client. *)
(***************************************************************************)
EXTENDS Service, TLAPS

USE DEF ServiceStates, ProcStates, NoStop, ctxVars, timerVars, osVars, histVars

USE DEF Flag, BreakerType

LEMMA BreakerTypes ==
    ASSUME NEW b \in BreakerType
    PROVE  /\ BreakerAllowed(b) \in BreakerType
           /\ circuit_breaker_record_failure(b) \in BreakerType
           /\ circuit_breaker_record_success(b) \in BreakerType
<1>1. BreakerAllowed(b) \in BreakerType
  BY Zenon DEF BreakerAllowed
<1>2. circuit_breaker_record_failure(b) \in BreakerType
  BY LimitAssumption DEF circuit_breaker_record_failure, Least
<1>3. circuit_breaker_record_success(b) \in BreakerType
  BY Zenon DEF circuit_breaker_record_success
<1> QED BY <1>1, <1>2, <1>3, Zenon

LEMMA BackoffType ==
    ASSUME NEW d \in BaseDelay..MaxDelay
    PROVE  backoff_next(d) \in BaseDelay..MaxDelay
BY LimitAssumption DEF backoff_next, Least

LEMMA KillType ==
    ASSUME NEW f \in [Pid -> ProcStates], NEW p \in Pid
    PROVE  Kill(f, p) \in [Pid -> ProcStates]
BY Zenon DEF Kill

\* A SIGKILL, whether it works or not, changes the state of a process only.
LEMMA KilledType ==
    ASSUME TypeOK, NEW p \in Pid
    PROVE  Killed(p) \subseteq [Pid -> ProcStates]
BY KillType, Zenon DEF Killed, TypeOK

\* The type invariant holds of every step; the timer counts stay natural
\* because a handle is only held while its timer is live (TimersOwned).
THEOREM TypeStep == TypeOK /\ TimersOwned /\ [Next]_vars => TypeOK'
<1> SUFFICES ASSUME TypeOK, TimersOwned, [Next]_vars PROVE TypeOK'
  BY Zenon
<1> USE LimitAssumption
<1>a. OtherRetries \in Nat /\ OtherHealths \in Nat
  BY DEF TypeOK, TimersOwned, OtherRetries, OtherHealths
<1>b. BreakerAllowed(breaker) \in BreakerType
  BY BreakerTypes, Zenon DEF TypeOK
<1>1. CASE DaemonStart
  BY <1>1, <1>b, BreakerTypes, BackoffType DEF TypeOK, DaemonStart, service_start_async,
     SpawnOk, SpawnFails, ForgetChild
<1>2. CASE MonitorTimeout
  BY <1>2, <1>a, BreakerTypes, BackoffType, KilledType DEF TypeOK, MonitorTimeout, MonitorCall,
     RetryOrGiveUp, service_schedule_retry, WaitReadyVerdict
<1>3. CASE MonitorReady
  BY <1>3, <1>a, BreakerTypes DEF TypeOK, MonitorReady, MonitorCall, WaitReadyVerdict
<1>4. CASE MonitorProbeReaps
  BY <1>4 DEF TypeOK, MonitorProbeReaps, MonitorCall, ForgetChild, WaitReadyVerdict
<1>5. CASE MonitorDead
  BY <1>5, <1>a, BreakerTypes, BackoffType DEF TypeOK, MonitorDead, MonitorCall, ForgetChild,
     RetryOrGiveUp, service_schedule_retry, WaitReadyVerdict
<1>6. CASE MonitorRunningDead
  BY <1>6, <1>a, BreakerTypes, BackoffType DEF TypeOK, MonitorRunningDead, MonitorCall,
     RetryOrGiveUp, service_schedule_retry, WaitReadyVerdict
<1>7. CASE MonitorFailed
  BY <1>7, <1>a, BackoffType DEF TypeOK, MonitorFailed, MonitorCall, service_schedule_retry,
     WaitReadyVerdict
<1>8. CASE service_delayed_spawn_cb
  BY <1>8, <1>a, <1>b, BreakerTypes, BackoffType DEF TypeOK, service_delayed_spawn_cb,
     SpawnOk, SpawnFails, ForgetChild, service_schedule_retry
<1>9. CASE service_sigchld_cb
  BY <1>9, <1>a, BreakerTypes, BackoffType DEF TypeOK, service_sigchld_cb, ForgetChild,
     service_schedule_retry
<1>10. ASSUME NEW h \in Flag, service_health_check_cb(h) PROVE TypeOK'
  BY <1>10, BreakerTypes DEF TypeOK, service_health_check_cb
<1>11. ASSUME NEW l \in MaxFailuresValues, NEW c \in BOOLEAN,
              service_apply_config(l, c)
       PROVE  TypeOK'
  BY <1>11, <1>a DEF TypeOK, service_apply_config
<1>12. CASE service_stop_async
  BY <1>12, <1>a DEF TypeOK, service_stop_async
<1>13. CASE service_stop_wait_cb
  BY <1>13, <1>a DEF TypeOK, service_stop_wait_cb, StopDone, StopForced, KillAndReap, ForgetChild,
     service_stop_sync, CancelTimers
<1>14. CASE ClientRestart
  BY <1>14, <1>b, BreakerTypes DEF TypeOK, ClientRestart, service_start_async, SpawnOk,
     SpawnFails, ForgetChild
<1>15. CASE service_destroy
  BY <1>15, <1>a DEF TypeOK, service_destroy, service_stop_sync, KillAndReap, ForgetChild,
     CancelTimers
<1>16. ASSUME NEW p \in Pid, ChildDies(p) PROVE TypeOK'
  BY <1>16 DEF TypeOK, ChildDies
<1>17. CASE StartTimeoutPasses
  BY <1>17 DEF TypeOK, StartTimeoutPasses
<1>18. CASE CooldownPasses
  BY <1>18 DEF TypeOK, CooldownPasses
<1>19. CASE UNCHANGED vars
  BY <1>19 DEF TypeOK, vars
<1> QED
  BY <1>1, <1>2, <1>3, <1>4, <1>5, <1>6, <1>7, <1>8, <1>9, <1>10, <1>11, <1>12,
     <1>13, <1>14, <1>15, <1>16, <1>17, <1>18, <1>19, Zenon DEF Next, service_monitor_cb


-----------------------------------------------------------------------------
(* The inductive invariant.                                                 *)

\* While the 100 ms check of an asynchronous stop is pending the service is
\* STOPPING and no timer of its own is left.
StopPending ==
    phase # "down" /\ stop_wait # NoStop =>
        state = "STOPPING" /\ retry_timer = 0 /\ health_timer = 0

\* Nothing has happened before the daemon starts the service.
NotStarted == phase = "init" => state = "STOPPED"

\* A service that is STOPPING has cancelled its retry.
NoRetryWhenStopping ==
    "kill" \notin Faults /\ state = "STOPPING" => retry_timer = 0

\* While a retry is pending the child is gone or going: this is what makes
\* it safe for service_delayed_spawn_cb not to look at child_pid.
RetryMeansNoChild ==
    "proc" \notin Faults /\ retry_timer = 1 =>
        /\ state # "RUNNING"
        /\ "kill" \notin Faults /\ child_pid # NoPid => proc[child_pid] # "live"
        /\ state = "STARTING" => child_pid = NoPid

OwnershipInv ==
    /\ TypeOK
    /\ TimersOwned
    /\ PidsNotRecycled
    /\ StopPending
    /\ NotStarted
    /\ NoRetryWhenStopping
    /\ RetryMeansNoChild
    /\ NoStrayChild
    /\ RunningHasChild

LEMMA OwnershipInit == Init => OwnershipInv
BY PidAssumption, LimitAssumption
   DEF Init, OwnershipInv, TypeOK, TimersOwned, PidsNotRecycled, StopPending,
       NotStarted, NoRetryWhenStopping, RetryMeansNoChild, NoStrayChild,
       RunningHasChild, circuit_breaker_reset

LEMMA OwnershipStep == OwnershipInv /\ [Next]_vars => OwnershipInv'
<1> SUFFICES ASSUME OwnershipInv, [Next]_vars PROVE OwnershipInv'
  BY Zenon
<1>t. TypeOK'
  BY TypeStep, Zenon DEF OwnershipInv
<1> USE LimitAssumption, PidAssumption
<1> DEFINE Rest == /\ TimersOwned /\ PidsNotRecycled /\ StopPending
                   /\ NotStarted /\ NoRetryWhenStopping
                   /\ RetryMeansNoChild /\ NoStrayChild /\ RunningHasChild
<1> USE DEF OwnershipInv, TypeOK, TimersOwned, PidsNotRecycled, StopPending,
       NotStarted, NoRetryWhenStopping, RetryMeansNoChild, NoStrayChild,
       RunningHasChild, Unreaped
<1>1. ASSUME DaemonStart PROVE Rest'
  BY <1>1 DEF DaemonStart, service_start_async, service_is_alive, service_not_alive,
         SpawnOk, SpawnFails, ForgetChild
<1>2. ASSUME MonitorTimeout PROVE Rest'
  BY <1>2 DEF MonitorTimeout, MonitorCall, RetryOrGiveUp, OtherRetries,
         service_schedule_retry, WaitReadyVerdict, Killed, Kill
<1>3. ASSUME MonitorReady PROVE Rest'
  BY <1>3 DEF MonitorReady, MonitorCall, OtherHealths, WaitReadyVerdict
<1>4. ASSUME MonitorProbeReaps PROVE Rest'
  BY <1>4, Zenon DEF MonitorProbeReaps, MonitorCall, ForgetChild, WaitReadyVerdict
<1>5. ASSUME MonitorDead PROVE Rest'
  BY <1>5 DEF MonitorDead, MonitorCall, ForgetChild, RetryOrGiveUp, OtherRetries,
         service_schedule_retry, WaitReadyVerdict, service_not_alive
<1>6. ASSUME MonitorRunningDead PROVE Rest'
  BY <1>6 DEF MonitorRunningDead, MonitorCall, RetryOrGiveUp, OtherRetries,
         service_schedule_retry, WaitReadyVerdict, service_not_alive
<1>7. ASSUME MonitorFailed PROVE Rest'
  BY <1>7 DEF MonitorFailed, MonitorCall, service_schedule_retry, WaitReadyVerdict
<1>8. ASSUME service_delayed_spawn_cb PROVE Rest'
  BY <1>8 DEF service_delayed_spawn_cb, SpawnOk, SpawnFails, ForgetChild,
         service_schedule_retry
<1>9. ASSUME service_sigchld_cb PROVE Rest'
  BY <1>9 DEF service_sigchld_cb, ForgetChild, DeathIsFailure, OtherRetries,
         service_schedule_retry
<1>10. ASSUME NEW h \in Flag, service_health_check_cb(h) PROVE Rest'
  BY <1>10, Zenon DEF service_health_check_cb
<1>11. ASSUME NEW l \in MaxFailuresValues, NEW c \in BOOLEAN,
              service_apply_config(l, c)
       PROVE  Rest'
  BY <1>11 DEF service_apply_config, OtherHealths
<1>12. ASSUME service_stop_async PROVE Rest'
  BY <1>12 DEF service_stop_async, OtherRetries, OtherHealths
<1>13. ASSUME service_stop_wait_cb PROVE Rest'
  BY <1>13 DEF service_stop_wait_cb, StopDone, StopForced, KillAndReap, ForgetChild,
         service_stop_sync, CancelTimers, OtherRetries, OtherHealths,
         service_is_alive, service_not_alive
<1>14. ASSUME ClientRestart PROVE Rest'
  BY <1>14 DEF ClientRestart, service_start_async, service_is_alive, service_not_alive,
         SpawnOk, SpawnFails, ForgetChild
<1>15. ASSUME service_destroy PROVE Rest'
  BY <1>15 DEF service_destroy, service_stop_sync, KillAndReap, ForgetChild,
         CancelTimers, OtherRetries, OtherHealths
<1>16. ASSUME NEW p \in Pid, ChildDies(p) PROVE Rest'
  BY <1>16, Zenon DEF ChildDies
<1>17. ASSUME StartTimeoutPasses PROVE Rest'
  BY <1>17, Zenon DEF StartTimeoutPasses
<1>18. ASSUME CooldownPasses PROVE Rest'
  BY <1>18, Zenon DEF CooldownPasses
<1>19. ASSUME UNCHANGED vars PROVE Rest'
  BY <1>19, Zenon DEF vars
<1>20. Rest'
  <2> HIDE DEF Rest, OwnershipInv
  <2> QED
    BY <1>1, <1>2, <1>3, <1>4, <1>5, <1>6, <1>7, <1>8, <1>9, <1>10, <1>11,
       <1>12, <1>13, <1>14, <1>15, <1>16, <1>17, <1>18, <1>19, Zenon
       DEF Next, service_monitor_cb
<1> QED
  BY <1>t, <1>20, Zenon

\* Since every process id the service holds is unreaped and every stray child
\* is doomed, the ownership properties hold for all instances.
THEOREM Ownership == Spec => []OwnershipInv
<1>1. OwnershipInv /\ [Next]_vars => OwnershipInv'
  BY OwnershipStep, Zenon
<1> QED BY OwnershipInit, <1>1, PTL DEF Spec

\* Every variable of the supervisor keeps its type; in particular the retry
\* delay stays between the base delay and the cap.
THEOREM TypeCorrect == Spec => []TypeOK
<1>1. OwnershipInv => TypeOK
  BY Zenon DEF OwnershipInv
<1> QED BY Ownership, <1>1, PTL

\* No child that was overwritten in child_pid runs undisturbed, as long as
\* /proc can be read.
THEOREM NoStrayChildHolds == Spec => []NoStrayChild
<1>1. OwnershipInv => NoStrayChild
  BY Zenon DEF OwnershipInv
<1> QED BY Ownership, <1>1, PTL

\* child_pid and the PID file never name a process id the kernel may have
\* given to somebody else, whatever fails.
THEOREM PidsNotRecycledHolds == Spec => []PidsNotRecycled
<1>1. OwnershipInv => PidsNotRecycled
  BY Zenon DEF OwnershipInv
<1> QED BY Ownership, <1>1, PTL

\* There is at most one retry timer and one health timer, and the handles in
\* service_ctx_t are those of live timers, whatever fails.
THEOREM TimersOwnedHolds == Spec => []TimersOwned
<1>1. OwnershipInv => TimersOwned
  BY Zenon DEF OwnershipInv
<1> QED BY Ownership, <1>1, PTL

\* RUNNING is only reported of a child the service holds.
THEOREM RunningHasChildHolds == Spec => []RunningHasChild
<1>1. OwnershipInv => RunningHasChild
  BY Zenon DEF OwnershipInv
<1> QED BY Ownership, <1>1, PTL

-----------------------------------------------------------------------------
(* No process is forked against the breaker or by a stopping service.       *)

SpawnAllowed ==
    (\E p \in Pid : proc[p] = "free" /\ proc'[p] = "live") =>
        /\ breaker.circuit_open = 0 \/ breaker.cooled = 1
        /\ "kill" \notin Faults => state # "STOPPING"
        /\ phase \in {"init", "loop"}

LEMMA SpawnStep == OwnershipInv /\ [Next]_vars => SpawnAllowed
<1> SUFFICES ASSUME OwnershipInv, [Next]_vars PROVE SpawnAllowed
  BY Zenon
<1> USE LimitAssumption, PidAssumption
<1> USE DEF OwnershipInv, TypeOK, TimersOwned, NotStarted, NoRetryWhenStopping,
       SpawnAllowed
<1>1. ASSUME DaemonStart PROVE SpawnAllowed
  BY <1>1, Zenon DEF DaemonStart, service_start_async, circuit_breaker_should_allow,
         SpawnOk, SpawnFails, ForgetChild
<1>2. ASSUME MonitorTimeout PROVE SpawnAllowed
  BY <1>2, Zenon DEF MonitorTimeout, MonitorCall, RetryOrGiveUp, OtherRetries,
         service_schedule_retry, WaitReadyVerdict, Killed, Kill
<1>3. ASSUME MonitorReady PROVE SpawnAllowed
  BY <1>3, Zenon DEF MonitorReady, MonitorCall, OtherHealths, WaitReadyVerdict
<1>4. ASSUME MonitorProbeReaps PROVE SpawnAllowed
  BY <1>4, Zenon DEF MonitorProbeReaps, MonitorCall, ForgetChild, WaitReadyVerdict
<1>5. ASSUME MonitorDead PROVE SpawnAllowed
  BY <1>5, Zenon DEF MonitorDead, MonitorCall, ForgetChild, RetryOrGiveUp, OtherRetries,
         service_schedule_retry, WaitReadyVerdict, service_not_alive
<1>6. ASSUME MonitorRunningDead PROVE SpawnAllowed
  BY <1>6, Zenon DEF MonitorRunningDead, MonitorCall, RetryOrGiveUp, OtherRetries,
         service_schedule_retry, WaitReadyVerdict, service_not_alive
<1>7. ASSUME MonitorFailed PROVE SpawnAllowed
  BY <1>7, Zenon DEF MonitorFailed, MonitorCall, service_schedule_retry, WaitReadyVerdict
<1>8. ASSUME service_delayed_spawn_cb PROVE SpawnAllowed
  BY <1>8 DEF service_delayed_spawn_cb, circuit_breaker_should_allow, SpawnOk, SpawnFails,
     ForgetChild,
         service_schedule_retry
<1>9. ASSUME service_sigchld_cb PROVE SpawnAllowed
  BY <1>9, Zenon DEF service_sigchld_cb, ForgetChild, DeathIsFailure, OtherRetries,
         service_schedule_retry
<1>10. ASSUME NEW h \in Flag, service_health_check_cb(h) PROVE SpawnAllowed
  BY <1>10, Zenon DEF service_health_check_cb
<1>11. ASSUME NEW l \in MaxFailuresValues, NEW c \in BOOLEAN,
              service_apply_config(l, c)
       PROVE  SpawnAllowed
  BY <1>11, Zenon DEF service_apply_config, OtherHealths
<1>12. ASSUME service_stop_async PROVE SpawnAllowed
  BY <1>12, Zenon DEF service_stop_async, OtherRetries, OtherHealths
<1>13. ASSUME service_stop_wait_cb PROVE SpawnAllowed
  BY <1>13, Zenon DEF service_stop_wait_cb, StopDone, StopForced, KillAndReap, ForgetChild,
         service_stop_sync, CancelTimers, OtherRetries, OtherHealths,
         service_is_alive, service_not_alive
<1>14. ASSUME ClientRestart PROVE SpawnAllowed
  BY <1>14, Zenon DEF ClientRestart, service_start_async, circuit_breaker_should_allow,
         SpawnOk, SpawnFails, ForgetChild
<1>15. ASSUME service_destroy PROVE SpawnAllowed
  BY <1>15, Zenon DEF service_destroy, service_stop_sync, KillAndReap, ForgetChild,
         CancelTimers, OtherRetries, OtherHealths
<1>16. ASSUME NEW p \in Pid, ChildDies(p) PROVE SpawnAllowed
  BY <1>16, Zenon DEF ChildDies
<1>17. ASSUME StartTimeoutPasses PROVE SpawnAllowed
  BY <1>17, Zenon DEF StartTimeoutPasses
<1>18. ASSUME CooldownPasses PROVE SpawnAllowed
  BY <1>18, Zenon DEF CooldownPasses
<1>19. ASSUME UNCHANGED vars PROVE SpawnAllowed
  BY <1>19, Zenon DEF vars
<1> QED
  <2> HIDE DEF SpawnAllowed, OwnershipInv
  <2> QED
    BY <1>1, <1>2, <1>3, <1>4, <1>5, <1>6, <1>7, <1>8, <1>9, <1>10, <1>11,
       <1>12, <1>13, <1>14, <1>15, <1>16, <1>17, <1>18, <1>19, Zenon
       DEF Next, service_monitor_cb

\* A process is forked only when the breaker allows it, by the start of the
\* daemon or in the event loop, and never by a service that is stopping.
THEOREM SpawnsOnlyWhenAllowedHolds == Spec => SpawnsOnlyWhenAllowed
<1>1. OwnershipInv /\ [Next]_vars => [SpawnAllowed]_vars
  BY SpawnStep, Zenon
<1>2. Spec => [][SpawnAllowed]_vars
  BY Ownership, <1>1, PTL DEF Spec
<1> QED BY <1>2, Zenon DEF SpawnsOnlyWhenAllowed, SpawnAllowed

-----------------------------------------------------------------------------
(* Restarts are paid for and end at the limit.                              *)

\* A pending retry, and the one MonitorFailed would schedule, have been paid
\* for by a counted failure or by a reload.
BudgetInv ==
    (~AsyncClient /\ Faults \subseteq {"spawn"}) =>
        /\ attempts <= fail_count + 1 + reloads
        /\ retry_timer = 1 => attempts <= fail_count + reloads
        /\ (phase \in {"boot", "loop"} /\ state = "FAILED" /\ retry_timer = 0
              /\ fail_count < max_failures) => attempts <= fail_count + reloads

LEMMA BudgetStep == OwnershipInv /\ BudgetInv /\ [Next]_vars => BudgetInv'
<1> SUFFICES ASSUME OwnershipInv, BudgetInv, [Next]_vars,
                    ~AsyncClient, Faults \subseteq {"spawn"}
             PROVE  BudgetInv'
  BY Zenon DEF BudgetInv
<1> USE LimitAssumption, PidAssumption
<1> USE DEF OwnershipInv, TypeOK, TimersOwned, NotStarted, StopPending,
       RetryMeansNoChild, RunningHasChild, BudgetInv
<1>1. ASSUME DaemonStart PROVE BudgetInv'
  BY <1>1 DEF DaemonStart, service_start_async, service_is_alive, service_not_alive,
         SpawnOk, SpawnFails, ForgetChild
<1>2. ASSUME MonitorTimeout PROVE BudgetInv'
  BY <1>2 DEF MonitorTimeout, MonitorCall, RetryOrGiveUp, OtherRetries,
         service_schedule_retry, WaitReadyVerdict, Killed, Kill
<1>3. ASSUME MonitorReady PROVE BudgetInv'
  BY <1>3 DEF MonitorReady, MonitorCall, OtherHealths, WaitReadyVerdict
<1>4. ASSUME MonitorProbeReaps PROVE BudgetInv'
  BY <1>4, Zenon DEF MonitorProbeReaps, MonitorCall, ForgetChild, WaitReadyVerdict
<1>5. ASSUME MonitorDead PROVE BudgetInv'
  BY <1>5 DEF MonitorDead, MonitorCall, ForgetChild, RetryOrGiveUp, OtherRetries,
         service_schedule_retry, WaitReadyVerdict, service_not_alive
<1>6. ASSUME MonitorRunningDead PROVE BudgetInv'
  BY <1>6, Zenon DEF MonitorRunningDead, MonitorCall, RetryOrGiveUp, OtherRetries,
         service_schedule_retry, WaitReadyVerdict, service_not_alive
<1>7. ASSUME MonitorFailed PROVE BudgetInv'
  BY <1>7, Zenon DEF MonitorFailed, MonitorCall, service_schedule_retry, WaitReadyVerdict
<1>8. ASSUME service_delayed_spawn_cb PROVE BudgetInv'
  BY <1>8 DEF service_delayed_spawn_cb, SpawnOk, SpawnFails, ForgetChild,
         service_schedule_retry
<1>9. ASSUME service_sigchld_cb PROVE BudgetInv'
  BY <1>9 DEF service_sigchld_cb, ForgetChild, DeathIsFailure, OtherRetries,
         service_schedule_retry
<1>10. ASSUME NEW h \in Flag, service_health_check_cb(h) PROVE BudgetInv'
  BY <1>10, Zenon DEF service_health_check_cb
<1>11. ASSUME NEW l \in MaxFailuresValues, NEW c \in BOOLEAN,
              service_apply_config(l, c)
       PROVE  BudgetInv'
  BY <1>11 DEF service_apply_config, OtherHealths
<1>12. ASSUME service_stop_async PROVE BudgetInv'
  BY <1>12, Zenon DEF service_stop_async, OtherRetries, OtherHealths
<1>13. ASSUME service_stop_wait_cb PROVE BudgetInv'
  BY <1>13, Zenon DEF service_stop_wait_cb, StopDone, StopForced, KillAndReap, ForgetChild,
         service_stop_sync, CancelTimers, OtherRetries, OtherHealths,
         service_is_alive, service_not_alive
<1>14. ASSUME ClientRestart PROVE BudgetInv'
  BY <1>14, Zenon DEF ClientRestart, service_start_async, service_is_alive, service_not_alive,
         SpawnOk, SpawnFails, ForgetChild
<1>15. ASSUME service_destroy PROVE BudgetInv'
  BY <1>15, Zenon DEF service_destroy, service_stop_sync, KillAndReap, ForgetChild,
         CancelTimers, OtherRetries, OtherHealths
<1>16. ASSUME NEW p \in Pid, ChildDies(p) PROVE BudgetInv'
  BY <1>16, Zenon DEF ChildDies
<1>17. ASSUME StartTimeoutPasses PROVE BudgetInv'
  BY <1>17, Zenon DEF StartTimeoutPasses
<1>18. ASSUME CooldownPasses PROVE BudgetInv'
  BY <1>18, Zenon DEF CooldownPasses
<1>19. ASSUME UNCHANGED vars PROVE BudgetInv'
  BY <1>19, Zenon DEF vars
<1> QED
  <2> HIDE DEF BudgetInv, OwnershipInv
  <2> QED
    BY <1>1, <1>2, <1>3, <1>4, <1>5, <1>6, <1>7, <1>8, <1>9, <1>10, <1>11,
       <1>12, <1>13, <1>14, <1>15, <1>16, <1>17, <1>18, <1>19, Zenon
       DEF Next, service_monitor_cb

\* Since sing-box was last ready there have been at most fail_count + 1 spawn
\* attempts, plus one for each reload.
THEOREM RestartBudgetHolds == Spec => []RestartBudget
<1>1. Init => BudgetInv
  BY DEF Init, BudgetInv
<1>2. OwnershipInv /\ BudgetInv /\ [Next]_vars => BudgetInv'
  BY BudgetStep, Zenon
<1>3. BudgetInv => RestartBudget
  BY Zenon DEF BudgetInv, RestartBudget
<1> QED BY Ownership, <1>1, <1>2, <1>3, PTL DEF Spec

\* At the limit nothing is left that could count another failure, except a
\* retry that was scheduled before and the start it leads to.
LimitInv ==
    reloads = 0 =>
        /\ fail_count <= max_failures + 1
        /\ fail_count = max_failures + 1 =>
               retry_timer = 0 /\ state \notin {"STARTING", "RUNNING"}
        /\ state = "STARTING" /\ retry_timer = 1 => fail_count < max_failures
        /\ state = "RUNNING" => fail_count < max_failures
        /\ state = "STOPPED" /\ child_pid # NoPid => fail_count = 0
        /\ max_failures > 0

LEMMA LimitStep == OwnershipInv /\ LimitInv /\ [Next]_vars => LimitInv'
<1> SUFFICES ASSUME OwnershipInv, LimitInv, [Next]_vars
             PROVE  LimitInv'
  BY Zenon
<1> USE LimitAssumption, PidAssumption
<1> USE DEF OwnershipInv, TypeOK, TimersOwned, NotStarted, StopPending, LimitInv
<1>1. ASSUME DaemonStart PROVE LimitInv'
  BY <1>1 DEF DaemonStart, service_start_async, service_is_alive, service_not_alive,
         SpawnOk, SpawnFails, ForgetChild
<1>2. ASSUME MonitorTimeout PROVE LimitInv'
  BY <1>2 DEF MonitorTimeout, MonitorCall, RetryOrGiveUp, OtherRetries,
         service_schedule_retry, WaitReadyVerdict, Killed, Kill
<1>3. ASSUME MonitorReady PROVE LimitInv'
  BY <1>3 DEF MonitorReady, MonitorCall, OtherHealths, WaitReadyVerdict
<1>4. ASSUME MonitorProbeReaps PROVE LimitInv'
  BY <1>4, Zenon DEF MonitorProbeReaps, MonitorCall, ForgetChild, WaitReadyVerdict
<1>5. ASSUME MonitorDead PROVE LimitInv'
  BY <1>5 DEF MonitorDead, MonitorCall, ForgetChild, RetryOrGiveUp, OtherRetries,
         service_schedule_retry, WaitReadyVerdict, service_not_alive
<1>6. ASSUME MonitorRunningDead PROVE LimitInv'
  BY <1>6 DEF MonitorRunningDead, MonitorCall, RetryOrGiveUp, OtherRetries,
         service_schedule_retry, WaitReadyVerdict, service_not_alive
<1>7. ASSUME MonitorFailed PROVE LimitInv'
  BY <1>7 DEF MonitorFailed, MonitorCall, service_schedule_retry, WaitReadyVerdict
<1>8. ASSUME service_delayed_spawn_cb PROVE LimitInv'
  BY <1>8 DEF service_delayed_spawn_cb, SpawnOk, SpawnFails, ForgetChild,
         service_schedule_retry
<1>9. ASSUME service_sigchld_cb PROVE LimitInv'
  BY <1>9 DEF service_sigchld_cb, ForgetChild, DeathIsFailure, OtherRetries,
         service_schedule_retry
<1>10. ASSUME NEW h \in Flag, service_health_check_cb(h) PROVE LimitInv'
  BY <1>10, Zenon DEF service_health_check_cb
<1>11. ASSUME NEW l \in MaxFailuresValues, NEW c \in BOOLEAN,
              service_apply_config(l, c)
       PROVE  LimitInv'
  BY <1>11 DEF service_apply_config, OtherHealths
<1>12. ASSUME service_stop_async PROVE LimitInv'
  BY <1>12 DEF service_stop_async, OtherRetries, OtherHealths
<1>13. ASSUME service_stop_wait_cb PROVE LimitInv'
  BY <1>13, Zenon DEF service_stop_wait_cb, StopDone, StopForced, KillAndReap, ForgetChild,
         service_stop_sync, CancelTimers, OtherRetries, OtherHealths,
         service_is_alive, service_not_alive
<1>14. ASSUME ClientRestart PROVE LimitInv'
  BY <1>14 DEF ClientRestart, service_start_async, service_is_alive, service_not_alive,
         SpawnOk, SpawnFails, ForgetChild
<1>15. ASSUME service_destroy PROVE LimitInv'
  BY <1>15, Zenon DEF service_destroy, service_stop_sync, KillAndReap, ForgetChild,
         CancelTimers, OtherRetries, OtherHealths
<1>16. ASSUME NEW p \in Pid, ChildDies(p) PROVE LimitInv'
  BY <1>16, Zenon DEF ChildDies
<1>17. ASSUME StartTimeoutPasses PROVE LimitInv'
  BY <1>17, Zenon DEF StartTimeoutPasses
<1>18. ASSUME CooldownPasses PROVE LimitInv'
  BY <1>18, Zenon DEF CooldownPasses
<1>19. ASSUME UNCHANGED vars PROVE LimitInv'
  BY <1>19, Zenon DEF vars
<1> QED
  <2> HIDE DEF LimitInv, OwnershipInv
  <2> QED
    BY <1>1, <1>2, <1>3, <1>4, <1>5, <1>6, <1>7, <1>8, <1>9, <1>10, <1>11,
       <1>12, <1>13, <1>14, <1>15, <1>16, <1>17, <1>18, <1>19, Zenon
       DEF Next, service_monitor_cb

\* Without a reload the failure count never exceeds the limit by more than
\* one, whatever fails.
THEOREM GivesUpAtLimitHolds == Spec => []GivesUpAtLimit
<1>1. Init => LimitInv
  BY LimitAssumption DEF Init, LimitInv
<1>2. OwnershipInv /\ LimitInv /\ [Next]_vars => LimitInv'
  BY LimitStep, Zenon
<1>3. LimitInv => GivesUpAtLimit
  BY Zenon DEF LimitInv, GivesUpAtLimit
<1> QED BY Ownership, <1>1, <1>2, <1>3, PTL DEF Spec

====
