------------------------------- MODULE Daemon -------------------------------
(***************************************************************************)
(* The life of one daemon process: the initialization phases and their     *)
(* rollback (src/atpd_init.c), the set-up, event loop and teardown of      *)
(* run_event_loop with its signal and idle callbacks (src/main.c), and the *)
(* runtime state they publish (src/atpd_context.c).                        *)
(*                                                                         *)
(* A phase, a set-up step, a callback and a teardown step are one action   *)
(* each.  Signals arrive between any two of them: one that is not watched  *)
(* yet has its default action and kills the process, a watched one stays   *)
(* pending until the reactor drains its signalfd.                          *)
(***************************************************************************)
EXTENDS Naturals, FiniteSets

CONSTANTS
    HotValues,      \* values of the fields service_apply_config applies
    RestartValues,  \* values of the fields that need a restart
    Invalid,        \* a file config_prepare_reload refuses
    MaxSignals,     \* bound: signals sent in one behaviour
    MaxEdits,       \* bound: edits of the configuration file
    Faults          \* subset of FaultKinds

(* "step": a phase or a set-up step fails; "apply": the replacement health
   timer cannot be allocated; "epoll": epoll_wait fails.                   *)
FaultKinds == {"step", "apply", "epoll"}

ASSUME BoundAssumption == MaxSignals \in Nat /\ MaxEdits \in Nat
ASSUME FaultAssumption == Faults \subseteq FaultKinds

VARIABLES
    pc,        \* where do_start is: "init", "rollback", "setup", "loop",
               \* "teardown", "exit", or "killed" by a signal's default action
    step,      \* the phase, set-up step or teardown step that is next
    completed, \* atpd_init_context_t.completed_phases
    res,       \* resources the process holds, see Resources
    runtime,   \* g_context.runtime_state
    running,   \* reactor_t.running
    shutdown_requested, reload_requested, status_requested,
    pending,   \* signals waiting in the signalfd
    sent,      \* signals sent so far
    result,    \* the result of run_event_loop: 0 or 1 (-1 in the code)
    notified,  \* what notify_startup told the waiting parent
    file,      \* the configuration file: a configuration or Invalid
    edits,     \* edits of the file so far
    config,    \* daemon_config
    svc_hot,   \* the hot fields as the service context holds them
    epoll_ok,  \* history: epoll_wait never failed
    apply_ok   \* history: service_apply_config never failed

flagVars == <<shutdown_requested, reload_requested, status_requested>>
sigVars  == <<pending, sent>>
cfgVars  == <<file, edits, config, svc_hot, apply_ok>>
loopVars == <<running, flagVars, epoll_ok>>
vars     == <<pc, step, completed, res, runtime, result, notified, loopVars,
              sigVars, cfgVars>>

Flag == {0, 1}

Signals == {"TERM", "HUP", "USR1"}

(* "mode_cb": the VPN mode callback is set, with the API context as its data;
   "api_ref": service->api points to the API context; "child": sing-box.    *)
Resources == {"pid_file", "reactor", "netlink", "service", "api", "mode_cb",
              "api_ref", "uds", "child"}

Config == [hot : HotValues, restart : RestartValues]

ASSUME InvalidAssumption == Invalid \notin Config

-----------------------------------------------------------------------------
(* src/atpd_context.c *)

RuntimeStates == {"UNINITIALIZED", "INITIALIZING", "RUNNING", "RELOADING",
                  "STOPPING", "STOPPED", "FAILED"}

runtime_transition_allowed(old, new) ==
    \/ old = "UNINITIALIZED" /\ new = "INITIALIZING"
    \/ old = "INITIALIZING"  /\ new \in {"RUNNING", "FAILED", "STOPPING"}
    \/ old = "RUNNING"       /\ new \in {"RELOADING", "STOPPING", "FAILED"}
    \/ old = "RELOADING"     /\ new \in {"RUNNING", "STOPPING"}
    \/ old = "STOPPING"      /\ new = "STOPPED"
    \/ old = "FAILED"        /\ new \in {"STOPPING", "STOPPED"}

\* The state after a transition was asked for; a refused one changes nothing.
atpd_runtime_state_transition(old, new) ==
    IF runtime_transition_allowed(old, new) THEN new ELSE old

notify_startup(answer) ==
    notified' = IF notified = "none" THEN answer ELSE notified

-----------------------------------------------------------------------------
(* src/atpd_init.c: phases 1 config, 2 logger, 3 reactor, 4 netlink,
   5 service, 6 api, 7 ready.  config was loaded by main, and ready does
   nothing: neither can fail.                                              *)

LastPhase == 7
Fallible  == {2, 3, 4, 5, 6}
Required(k) == k # 6

PhaseAcquires(k) ==
    CASE k = 3 -> {"reactor"}
      [] k = 4 -> {"netlink"}
      [] k = 5 -> {"service"}
      [] k = 6 -> {"api", "mode_cb", "api_ref"}
      [] OTHER -> {}

\* The cleanup callback of a phase.
PhaseReleases(k) == PhaseAcquires(k)

InitPhaseSucceeds ==
    /\ pc = "init" /\ step <= LastPhase
    /\ res' = res \cup PhaseAcquires(step)
    /\ completed' = completed \cup {step}
    /\ step' = step + 1
    /\ UNCHANGED <<pc, runtime, result, notified, loopVars, sigVars, cfgVars>>

InitPhaseFails ==
    /\ pc = "init" /\ step \in Fallible /\ "step" \in Faults
    /\ IF Required(step)
         THEN pc' = "rollback" /\ step' = LastPhase
         ELSE pc' = pc /\ step' = step + 1
    /\ UNCHANGED <<completed, res, runtime, result, notified, loopVars,
                   sigVars, cfgVars>>

\* The phase that a step of the rollback loop looks at.
RollbackPhase == step

\* One round of atpd_init_rollback: phases are visited from the last down.
atpd_init_rollback ==
    /\ pc = "rollback" /\ step >= 1
    /\ res' = IF RollbackPhase \in completed
                THEN res \ PhaseReleases(RollbackPhase) ELSE res
    /\ completed' = completed \ {RollbackPhase}
    /\ step' = step - 1
    /\ UNCHANGED <<pc, runtime, result, notified, loopVars, sigVars, cfgVars>>

\* do_start after a failed initialization.
InitFailed ==
    /\ pc = "rollback" /\ step = 0
    /\ pc' = "exit"
    /\ runtime' = atpd_runtime_state_transition(runtime, "FAILED")
    /\ result' = 1
    /\ notify_startup("fail")
    /\ res' = res \ {"pid_file"}
    /\ UNCHANGED <<step, completed, loopVars, sigVars, cfgVars>>

InitDone ==
    /\ pc = "init" /\ step = LastPhase + 1
    /\ pc' = "setup" /\ step' = 1
    /\ runtime' = atpd_runtime_state_transition(runtime, "RUNNING")
    /\ UNCHANGED <<completed, res, result, notified, loopVars, sigVars, cfgVars>>

-----------------------------------------------------------------------------
(* run_event_loop up to reactor_run.  Steps: 1-3 watch SIGTERM (and SIGINT),
   SIGHUP, SIGUSR1; 4 attach netlink; 5 uds_init; 6 service_start_async;
   7 service_wait_ready.                                                   *)

LastSetup == 7

Watched ==
    IF pc \in {"init", "rollback"} THEN {}
    ELSE IF pc # "setup" THEN Signals
    ELSE (IF step > 1 THEN {"TERM"} ELSE {}) \cup
         (IF step > 2 THEN {"HUP"} ELSE {}) \cup
         (IF step > 3 THEN {"USR1"} ELSE {})

SetupAcquires(k) ==
    CASE k = 5 -> {"uds"}
      [] k = 6 -> {"child"}
      [] OTHER -> {}

SetupSucceeds ==
    /\ pc = "setup" /\ step < LastSetup
    /\ res' = res \cup SetupAcquires(step)
    /\ step' = step + 1
    /\ UNCHANGED <<pc, completed, runtime, result, notified, loopVars, sigVars,
                   cfgVars>>

\* goto cleanup with result = -1.  A service_start_async that fails may have
\* spawned sing-box.
SetupFails ==
    /\ pc = "setup" /\ "step" \in Faults
    /\ pc' = "teardown" /\ step' = 1 /\ result' = 1
    /\ \/ UNCHANGED res
       \/ step = 6 /\ res' = res \cup {"child"}
    /\ IF step = LastSetup THEN notify_startup("fail") ELSE UNCHANGED notified
    /\ runtime' = atpd_runtime_state_transition(runtime, "STOPPING")
    /\ UNCHANGED <<completed, loopVars, sigVars, cfgVars>>

EnterLoop ==
    /\ pc = "setup" /\ step = LastSetup
    /\ pc' = "loop" /\ step' = 1
    /\ shutdown_requested' = 0
    /\ running' = 1
    /\ notify_startup("ok")
    /\ UNCHANGED <<completed, res, runtime, result, reload_requested,
                   status_requested, epoll_ok, sigVars, cfgVars>>

-----------------------------------------------------------------------------
(* Callbacks of the reactor. *)

on_signal_reads_one ==
    /\ pc = "loop" /\ pending # {}
    /\ reload_requested' = IF "HUP" \in pending THEN 1 ELSE reload_requested
    /\ IF "TERM" \in pending /\ "HUP" \notin pending
         THEN /\ shutdown_requested' = 1
              /\ runtime' = atpd_runtime_state_transition(runtime, "STOPPING")
              /\ running' = 0
         ELSE UNCHANGED <<shutdown_requested, runtime, running>>
    /\ pending' = {}
    /\ UNCHANGED <<pc, step, completed, res, result, notified, sent, epoll_ok,
                   status_requested, cfgVars>>

\* reactor_signal_handle drains the signalfd and calls on_signal for each.
on_signal ==
    /\ pc = "loop" /\ pending # {}
    /\ reload_requested' = IF "HUP" \in pending THEN 1 ELSE reload_requested
    /\ status_requested' = IF "USR1" \in pending THEN 1 ELSE status_requested
    /\ IF "TERM" \in pending
         THEN /\ shutdown_requested' = 1
              /\ runtime' = atpd_runtime_state_transition(runtime, "STOPPING")
              /\ running' = 0
         ELSE UNCHANGED <<shutdown_requested, runtime, running>>
    /\ pending' = {}
    /\ UNCHANGED <<pc, step, completed, res, result, notified, sent, epoll_ok,
                   cfgVars>>

\* uds_client_flush once the acknowledgement of a stop command is sent.
UdsStop ==
    /\ pc = "loop"
    /\ shutdown_requested' = 1
    /\ runtime' = atpd_runtime_state_transition(runtime, "STOPPING")
    /\ running' = 0
    /\ UNCHANGED <<pc, step, completed, res, result, notified, reload_requested,
                   status_requested, epoll_ok, sigVars, cfgVars>>

requires_restart_any_change(cur, cand) == cand # cur

\* config_classify_reload has CONFIG_RELOAD_CHANGE_REQUIRES_RESTART.
requires_restart(cur, cand) == cand.restart # cur.restart

reload_commit_first ==
    IF file = Invalid \/ requires_restart(config, file)
      THEN UNCHANGED <<config, svc_hot, apply_ok>>
      ELSE /\ config' = file
           /\ \/ svc_hot' = file.hot /\ UNCHANGED apply_ok
              \/ /\ "apply" \in Faults /\ file.hot # svc_hot
                 /\ apply_ok' = 0 /\ UNCHANGED svc_hot

\* The candidate is prepared, classified, applied to the service and only
\* then committed; any failure keeps both.
reload_transaction ==
    IF file = Invalid \/ requires_restart(config, file)
      THEN UNCHANGED <<config, svc_hot, apply_ok>>
      ELSE \/ config' = file /\ svc_hot' = file.hot /\ UNCHANGED apply_ok
           \/ /\ "apply" \in Faults /\ file.hot # svc_hot
              /\ apply_ok' = 0 /\ UNCHANGED <<config, svc_hot>>

\* The idle callback: a reload, a status display, then a shutdown.  The loop
\* calls it in a round without events, so only while it is running.
on_idle ==
    /\ pc = "loop" /\ running = 1
    /\ reload_requested' = 0
    /\ IF reload_requested = 1 /\ shutdown_requested = 0 /\ runtime = "RUNNING"
         THEN reload_transaction
         ELSE UNCHANGED <<config, svc_hot, apply_ok>>
    /\ status_requested' = IF shutdown_requested = 0 THEN 0 ELSE status_requested
    /\ IF shutdown_requested = 1
         THEN /\ runtime' = atpd_runtime_state_transition(runtime, "STOPPING")
              /\ running' = 0
         ELSE UNCHANGED <<runtime, running>>
    /\ UNCHANGED <<pc, step, completed, res, result, notified,
                   shutdown_requested, epoll_ok, sigVars, file, edits>>

EpollFails ==
    /\ pc = "loop" /\ running = 1 /\ "epoll" \in Faults
    /\ running' = 0 /\ epoll_ok' = 0
    /\ UNCHANGED <<pc, step, completed, res, runtime, result, notified,
                   flagVars, sigVars, cfgVars>>

\* reactor_run returns 0, so line 513 does not move the state to STOPPING.
LoopExits ==
    /\ pc = "loop" /\ running = 0
    /\ pc' = "teardown" /\ step' = 1 /\ result' = 0
    /\ UNCHANGED <<completed, res, runtime, notified, loopVars, sigVars, cfgVars>>

-----------------------------------------------------------------------------
(* The cleanup label of run_event_loop.  Steps: 1 uds_cleanup;
   2 service_destroy, which stops sing-box; 3 the VPN callbacks;
   4 api_cleanup; 5 netlink_cleanup; 6 reactor_destroy.                    *)

LastCleanup == 6

CleanupReleases_reactor_first(k) ==
    CASE k = 1 -> {"uds"}
      [] k = 2 -> {"service", "child", "api_ref"}
      [] k = 3 -> {"mode_cb"}
      [] k = 4 -> {"api"}
      [] k = 5 -> {"reactor"}
      [] OTHER -> {"netlink"}

CleanupReleases(k) ==
    CASE k = 1 -> {"uds"}
      [] k = 2 -> {"service", "child", "api_ref"}
      [] k = 3 -> {"mode_cb"}
      [] k = 4 -> {"api"}
      [] k = 5 -> {"netlink"}
      [] OTHER -> {"reactor"}

CleanupStep ==
    /\ pc = "teardown" /\ step <= LastCleanup
    /\ res' = res \ CleanupReleases(step)
    /\ step' = step + 1
    /\ UNCHANGED <<pc, completed, runtime, result, notified, loopVars, sigVars,
                   cfgVars>>

PublishStopped_unanswered ==
    /\ pc = "teardown" /\ step = LastCleanup + 1
    /\ pc' = "exit"
    /\ runtime' = atpd_runtime_state_transition(runtime, "STOPPED")
    /\ result' = IF runtime_transition_allowed(runtime, "STOPPED") THEN result ELSE 1
    /\ res' = res \ {"pid_file"}
    /\ UNCHANGED <<step, completed, notified, loopVars, sigVars, cfgVars>>

\* The end of run_event_loop and of do_start.
PublishStopped ==
    /\ pc = "teardown" /\ step = LastCleanup + 1
    /\ pc' = "exit"
    /\ runtime' = atpd_runtime_state_transition(runtime, "STOPPED")
    /\ result' = IF runtime_transition_allowed(runtime, "STOPPED") THEN result ELSE 1
    /\ notify_startup(IF result' = 0 THEN "ok" ELSE "fail")
    /\ res' = res \ {"pid_file"}
    /\ UNCHANGED <<step, completed, loopVars, sigVars, cfgVars>>

-----------------------------------------------------------------------------
(* The environment. *)

SendSignal(s) ==
    /\ pc \notin {"exit", "killed"} /\ sent < MaxSignals
    /\ sent' = sent + 1
    /\ IF s \in Watched
         THEN pending' = pending \cup {s} /\ UNCHANGED <<pc, res>>
         ELSE /\ pc' = "killed"
              /\ res' = res \cap {"pid_file", "child"}
              /\ UNCHANGED pending
    /\ UNCHANGED <<step, completed, runtime, result, notified, loopVars, cfgVars>>

EditFile(c) ==
    /\ pc \notin {"exit", "killed"} /\ edits < MaxEdits
    /\ file' = c /\ edits' = edits + 1
    /\ UNCHANGED <<pc, step, completed, res, runtime, result, notified,
                   loopVars, sigVars, config, svc_hot, apply_ok>>

-----------------------------------------------------------------------------
\* do_start holds the PID file, has initialized the context and has moved it
\* to INITIALIZING; main has loaded a valid file.
Init ==
    /\ pc = "init" /\ step = 1 /\ completed = {} /\ res = {"pid_file"}
    /\ runtime = atpd_runtime_state_transition("UNINITIALIZED", "INITIALIZING")
    /\ running = 0 /\ shutdown_requested = 0 /\ reload_requested = 0
    /\ status_requested = 0 /\ pending = {} /\ sent = 0
    /\ result = 1 /\ notified = "none"
    /\ config \in Config /\ file = config /\ edits = 0 /\ svc_hot = config.hot
    /\ epoll_ok = 1 /\ apply_ok = 1

Startup  == InitPhaseSucceeds \/ InitPhaseFails \/ atpd_init_rollback
            \/ InitFailed \/ InitDone \/ SetupSucceeds \/ SetupFails \/ EnterLoop
Loop     == on_signal \/ UdsStop \/ on_idle \/ EpollFails \/ LoopExits
Teardown == CleanupStep \/ PublishStopped
World    == \/ \E s \in Signals : SendSignal(s)
            \/ \E c \in Config \cup {Invalid} : EditFile(c)

Next == Startup \/ Loop \/ Teardown \/ World

Spec == Init /\ [][Next]_vars

(* Code that does not wait runs on.  The reactor serves its signalfd, and has
   rounds without events: nothing else keeps its descriptors ready for ever. *)
Fairness ==
    /\ WF_vars(Startup) /\ WF_vars(Teardown) /\ WF_vars(LoopExits)
    /\ WF_vars(on_signal) /\ WF_vars(on_idle)

FairSpec == Spec /\ Fairness

-----------------------------------------------------------------------------
(* Properties. *)

\* The types of the variables.
TypeOK ==
    /\ pc \in {"init", "rollback", "setup", "loop", "teardown", "exit", "killed"}
    /\ step \in 0 .. LastPhase + 1
    /\ completed \subseteq 1 .. LastPhase
    /\ res \subseteq Resources
    /\ runtime \in RuntimeStates
    /\ running \in Flag /\ shutdown_requested \in Flag
    /\ reload_requested \in Flag /\ status_requested \in Flag
    /\ epoll_ok \in Flag /\ apply_ok \in Flag /\ result \in Flag
    /\ pending \subseteq Signals
    /\ sent \in 0 .. MaxSignals /\ edits \in 0 .. MaxEdits
    /\ notified \in {"none", "ok", "fail"}
    /\ config \in Config /\ file \in Config \cup {Invalid}
    /\ svc_hot \in HotValues

(* Whatever step failed, in the rollback of atpd_init.c as in the cleanup of
   run_event_loop, nothing outlives what it points to: every user of the
   reactor is gone before reactor_destroy, and the VPN mode callback and
   service->api are cleared before the API context is.                     *)
NoDangling ==
    /\ TypeOK
    /\ pc # "killed" =>
       /\ "reactor" \notin res => res \cap {"netlink", "service", "api", "uds", "child"} = {}
       /\ "api" \notin res => res \cap {"mode_cb", "api_ref"} = {}
       /\ "service" \notin res => res \cap {"child", "api_ref"} = {}

(* The process leaves nothing behind, on every path out of do_start, and the
   runtime state is STOPPED only once all is torn down.  A signal that kills
   the process before it is watched finds no sing-box to orphan.  A daemon that
   reached its loop and whose epoll_wait works ends in STOPPED with result 0:
   no order of signals, stop commands and reloads makes
   atpd_runtime_state_transition refuse a step of the shutdown.            *)
CleanExit ==
    /\ pc = "exit" \/ runtime = "STOPPED" => res = {}
    /\ pc = "killed" => "child" \notin res
    /\ pc = "exit" /\ notified = "ok" /\ epoll_ok = 1 =>
          runtime = "STOPPED" /\ result = 0

(* Every way down is orderly: NoDangling on the way, CleanExit at its end, in
   the rollback of atpd_init.c as in the cleanup of run_event_loop.        *)
TearsDown == NoDangling /\ CleanExit

(* The parent of a daemon that exits was always answered, and "ok" only by a
   daemon that reached its event loop (daemonize, notify_startup).         *)
HandshakeAnswered ==
    /\ pc = "exit" => notified # "none"
    /\ notified = "ok" => pc \in {"loop", "teardown", "exit"}
    /\ pc = "exit" /\ result = 0 => notified = "ok"

(* The active configuration and the service agree on the hot fields in every
   state, failed reloads included (on_idle, service_apply_config).         *)
ConfigAgrees == svc_hot = config.hot

(* A SIGTERM that was caught, in the blocking wait for sing-box included,
   ends the process; clearing shutdown_requested before the loop does not
   lose it.                                                                *)
TermStops == "TERM" \in pending ~> pc \in {"exit", "killed"}

(* A SIGHUP that follows an edit makes the edited configuration active when
   it only changes hot fields, the service can apply them and the daemon is
   not stopping.                                                           *)
ReloadHonoured ==
    \A c \in Config :
       ("HUP" \in pending /\ file = c /\ c.restart = config.restart)
          ~> (config = c \/ file # c \/ apply_ok = 0 \/ pc \notin {"setup", "loop"})

=============================================================================
