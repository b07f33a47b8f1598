---------------------------- MODULE DaemonProofs -----------------------------
(***************************************************************************)
(* Proofs about the daemon as a whole, each for every number of events and *)
(* every combination of failures.                                          *)
(*   Daemon   what the daemon holds and has announced at each step of its  *)
(*            life, and which configuration is in force;                   *)
(*   VpnSync  the path from a VPN interface to the mode of sing-box, for   *)
(*            every set of interfaces and of modes.                        *)
(***************************************************************************)
EXTENDS Daemon, VpnSync, TLAPS

USE DEF Flag, Signals, Resources, RuntimeStates, LastPhase, LastSetup, LastCleanup,
        flagVars, sigVars, cfgVars, loopVars

-----------------------------------------------------------------------------
(* Daemon.  The inductive invariant: what is held, and what has been said, at
   each step.                                                              *)

\* Whoever holds the API context's users holds the API context.
ApiOwned == "api" \notin res => "mode_cb" \notin res /\ "api_ref" \notin res

\* Phases are completed in order, rolled back from the last, and hold exactly
\* what the completed ones acquired.
HeldInPhases ==
    pc \in {"init", "rollback"} =>
      /\ "reactor" \in res <=> 3 \in completed
      /\ "netlink" \in res <=> 4 \in completed
      /\ "service" \in res <=> 5 \in completed
      /\ "api" \in res <=> 6 \in completed
      /\ "mode_cb" \in res <=> 6 \in completed
      /\ "api_ref" \in res <=> 6 \in completed
      /\ "uds" \notin res /\ "child" \notin res
      /\ 4 \in completed => 3 \in completed
      /\ 5 \in completed => 3 \in completed
      /\ 6 \in completed => 3 \in completed /\ 5 \in completed
      /\ pc = "init" => /\ step >= 1 /\ \A k \in completed : k < step
                        /\ step > 3 => 3 \in completed
                        /\ step > 5 => 5 \in completed
      /\ pc = "rollback" => \A k \in completed : k <= step

\* The set-up and the loop hold at least what every phase but the optional
\* one acquired; sing-box is there only when all signals are watched.
HeldInLoop ==
    pc \in {"setup", "loop"} =>
      /\ "reactor" \in res /\ "service" \in res /\ ApiOwned
      /\ step >= 1 /\ step <= LastSetup
      /\ pc = "setup" /\ "child" \in res => step > 6

\* The steps of the teardown.
HeldInTeardown ==
    pc = "teardown" =>
      /\ step >= 1 /\ step <= LastCleanup + 1
      /\ ApiOwned
      /\ step <= 6 <=> "reactor" \in res
      /\ step <= 2 <=> "service" \in res
      /\ step > 1 => "uds" \notin res
      /\ step > 2 => "child" \notin res /\ "api_ref" \notin res
      /\ step > 3 => "mode_cb" \notin res
      /\ step > 4 => "api" \notin res
      /\ step > 5 => "netlink" \notin res

HeldAtEnd ==
    /\ pc = "exit" => res = {}
    /\ pc = "killed" => "child" \notin res

\* The runtime state and the answer to the parent go with the place.
Published ==
    /\ pc \in {"init", "rollback"} => runtime = "INITIALIZING" /\ notified = "none"
    /\ pc = "setup" => runtime = "RUNNING" /\ notified = "none"
    /\ pc = "loop" => /\ notified = "ok"
                      /\ runtime \in {"RUNNING", "STOPPING"}
                      /\ running = 0 /\ epoll_ok = 1 => runtime = "STOPPING"
    /\ pc = "teardown" =>
         /\ runtime \in {"RUNNING", "STOPPING"}
         /\ IF notified = "ok" THEN result = 0 /\ (epoll_ok = 1 => runtime = "STOPPING")
                               ELSE result = 1
    /\ pc = "exit" =>
         /\ notified # "none"
         /\ result = 0 => notified = "ok"
         /\ notified = "ok" /\ epoll_ok = 1 => runtime = "STOPPED" /\ result = 0
    /\ pc = "killed" => notified = "none" /\ runtime # "STOPPED"

LifeInv ==
    /\ TypeOK
    /\ HeldInPhases /\ HeldInLoop /\ HeldInTeardown /\ HeldAtEnd
    /\ Published
    /\ ConfigAgrees

Held == HeldInPhases /\ HeldInLoop /\ HeldInTeardown /\ HeldAtEnd

-----------------------------------------------------------------------------
\* LifeInv holds when do_start has the PID file.
LEMMA LifeInit == Init => LifeInv
<1> SUFFICES ASSUME Init PROVE LifeInv
  BY Zenon
<1>1. TypeOK /\ ConfigAgrees
  BY BoundAssumption
  DEF Init, TypeOK, ConfigAgrees, Config, atpd_runtime_state_transition,
  runtime_transition_allowed
<1>2. Held
  BY DEF Init, Held, HeldInPhases, HeldInLoop, HeldInTeardown, HeldAtEnd
<1>3. Published
  BY Zenon DEF Init, Published, atpd_runtime_state_transition, runtime_transition_allowed
<1> QED BY <1>1, <1>2, <1>3, Zenon DEF LifeInv, Held

\* The types are kept by every step.
LEMMA TypeStep == LifeInv /\ [Next]_vars => TypeOK'
<1> SUFFICES ASSUME LifeInv, [Next]_vars PROVE TypeOK'
  BY Zenon
<1>0. /\ TypeOK
      /\ pc = "init" => step >= 1
  BY Zenon DEF LifeInv, HeldInPhases
<1> USE <1>0, BoundAssumption DEF TypeOK
<1> HIDE DEF Resources, Signals
<1>t. \A s \in RuntimeStates : atpd_runtime_state_transition(runtime, s) \in RuntimeStates
  BY Zenon DEF atpd_runtime_state_transition
<1>n. \A a \in {"ok", "fail"} : notify_startup(a) => notified' \in {"none", "ok", "fail"}
  BY Zenon DEF notify_startup
<1>1. CASE InitPhaseSucceeds
  <2>1. PhaseAcquires(step) \subseteq Resources
    BY Zenon DEF PhaseAcquires, Resources
  <2> QED BY <1>1, <2>1 DEF InitPhaseSucceeds
<1>2. CASE InitPhaseFails
  BY <1>2 DEF InitPhaseFails, Fallible
<1>3. CASE atpd_init_rollback
  BY <1>3 DEF atpd_init_rollback, RollbackPhase
<1>4. CASE InitFailed
  BY <1>4, <1>t, <1>n, Zenon DEF InitFailed
<1>5. CASE InitDone
  BY <1>5, <1>t DEF InitDone
<1>6. CASE SetupSucceeds
  <2>1. SetupAcquires(step) \subseteq Resources
    BY Zenon DEF SetupAcquires, Resources
  <2> QED BY <1>6, <2>1 DEF SetupSucceeds
<1>7. CASE SetupFails
  <2>1. res' \subseteq Resources
    BY <1>7, Zenon DEF SetupFails, Resources
  <2>2. notified' \in {"none", "ok", "fail"}
    BY <1>7, <1>n, Zenon DEF SetupFails
  <2> QED BY <1>7, <1>t, <2>1, <2>2 DEF SetupFails
<1>8. CASE EnterLoop
  BY <1>8, <1>n DEF EnterLoop
<1>9. CASE on_signal
  BY <1>9, <1>t DEF on_signal
<1>9b. CASE UdsStop
  BY <1>9b, <1>t, Zenon DEF UdsStop
<1>10. CASE on_idle
  <2>1. config' \in Config /\ svc_hot' \in HotValues /\ apply_ok' \in Flag
    BY <1>10, Zenon DEF on_idle, reload_transaction, Config
  <2> QED BY <1>10, <1>t, <2>1, Zenon DEF on_idle
<1>11. CASE EpollFails
  BY <1>11 DEF EpollFails
<1>11b. CASE LoopExits
  BY <1>11b DEF LoopExits
<1>12. CASE CleanupStep
  BY <1>12 DEF CleanupStep
<1>13. CASE PublishStopped
  BY <1>13, <1>t, <1>n, Zenon DEF PublishStopped
<1>14. ASSUME NEW s \in Signals, SendSignal(s) PROVE TypeOK'
  BY <1>14 DEF SendSignal
<1>15. ASSUME NEW c \in Config \cup {Invalid}, EditFile(c) PROVE TypeOK'
  BY <1>15 DEF EditFile
<1>16. CASE UNCHANGED vars
  BY <1>16 DEF vars
<1> QED
  BY <1>1, <1>2, <1>3, <1>4, <1>5, <1>6, <1>7, <1>8, <1>9, <1>9b, <1>10, <1>11, <1>11b,
     <1>12, Zenon,
     <1>13, <1>14, <1>15, <1>16 DEF Next, Startup, Loop, Teardown, World

\* What is held keeps going with the place: one step per phase, set-up step and
\* teardown step, and the signal that kills.
LEMMA HeldStep == LifeInv /\ [Next]_vars => Held'
<1> SUFFICES ASSUME LifeInv, [Next]_vars PROVE Held'
  BY Zenon
<1>0. TypeOK /\ Held
  BY Zenon DEF LifeInv, Held
<1> USE <1>0 DEF TypeOK, Held, HeldInPhases, HeldInLoop, HeldInTeardown, HeldAtEnd, ApiOwned
<1>1. CASE InitPhaseSucceeds
  BY <1>1 DEF InitPhaseSucceeds, PhaseAcquires
<1>2. CASE InitPhaseFails
  BY <1>2 DEF InitPhaseFails, Fallible, Required
<1>3. CASE atpd_init_rollback
  BY <1>3 DEF atpd_init_rollback, RollbackPhase, PhaseReleases, PhaseAcquires
<1>4. CASE InitFailed
  BY <1>4 DEF InitFailed
<1>5. CASE InitDone
  BY <1>5 DEF InitDone
<1>6. CASE SetupSucceeds
  BY <1>6 DEF SetupSucceeds, SetupAcquires
<1>7. CASE SetupFails
  BY <1>7 DEF SetupFails
<1>8. CASE EnterLoop
  BY <1>8 DEF EnterLoop
<1>9. CASE on_signal \/ UdsStop \/ on_idle \/ EpollFails
  BY <1>9, Zenon DEF on_signal, UdsStop, on_idle, EpollFails
<1>10. CASE LoopExits
  BY <1>10 DEF LoopExits
<1>11. CASE CleanupStep
  BY <1>11 DEF CleanupStep, CleanupReleases
<1>12. CASE PublishStopped
  BY <1>12 DEF PublishStopped
<1>13. ASSUME NEW s \in Signals, SendSignal(s) PROVE Held'
  BY <1>13 DEF SendSignal, Watched
<1>14. ASSUME NEW c \in Config \cup {Invalid}, EditFile(c) PROVE Held'
  BY <1>14, Zenon DEF EditFile
<1>15. CASE UNCHANGED vars
  BY <1>15, Zenon DEF vars
<1> QED
  BY <1>1, <1>2, <1>3, <1>4, <1>5, <1>6, <1>7, <1>8, <1>9, <1>10, <1>11, <1>12, <1>13, <1>14,
     Zenon,
     <1>15 DEF Next, Startup, Loop, Teardown, World

\* What is published keeps going with the place: no step of the shutdown is
\* refused once the loop has been left in order.
LEMMA PublishedStep == LifeInv /\ [Next]_vars => Published'
<1> SUFFICES ASSUME LifeInv, [Next]_vars PROVE Published'
  BY Zenon
<1>0. TypeOK /\ Published
  BY Zenon DEF LifeInv
<1> USE <1>0 DEF TypeOK, Published, atpd_runtime_state_transition, runtime_transition_allowed,
                 notify_startup
<1>1. CASE InitPhaseSucceeds \/ InitPhaseFails \/ atpd_init_rollback
  BY <1>1, Zenon DEF InitPhaseSucceeds, InitPhaseFails, atpd_init_rollback
<1>2. CASE InitFailed
  BY <1>2 DEF InitFailed
<1>3. CASE InitDone
  BY <1>3, Zenon DEF InitDone
<1>4. CASE SetupSucceeds \/ SetupFails
  BY <1>4, Zenon DEF SetupSucceeds, SetupFails
<1>5. CASE EnterLoop
  BY <1>5 DEF EnterLoop
<1>6. CASE on_signal
  BY <1>6, Zenon DEF on_signal
<1>7. CASE UdsStop
  BY <1>7, Zenon DEF UdsStop
<1>8. CASE on_idle
  BY <1>8, Zenon DEF on_idle
<1>9. CASE EpollFails
  BY <1>9, Zenon DEF EpollFails
<1>10. CASE LoopExits
  BY <1>10, Zenon DEF LoopExits
<1>11. CASE CleanupStep
  BY <1>11, Zenon DEF CleanupStep
<1>12. CASE PublishStopped
  BY <1>12 DEF PublishStopped
<1>13. ASSUME NEW s \in Signals, SendSignal(s) PROVE Published'
  BY <1>13, Zenon DEF SendSignal, Watched
<1>14. ASSUME NEW c \in Config \cup {Invalid}, EditFile(c) PROVE Published'
  BY <1>14, Zenon DEF EditFile
<1>15. CASE UNCHANGED vars
  BY <1>15, Zenon DEF vars
<1> QED
  BY <1>1, <1>2, <1>3, <1>4, <1>5, <1>6, <1>7, <1>8, <1>9, <1>10, <1>11, <1>12, <1>13, <1>14,
     Zenon,
     <1>15 DEF Next, Startup, Loop, Teardown, World

\* A reload changes the configuration and the service together or neither.
LEMMA AgreeStep == LifeInv /\ [Next]_vars => ConfigAgrees'
<1> SUFFICES ASSUME LifeInv, [Next]_vars PROVE ConfigAgrees'
  BY Zenon
<1>1. CASE on_idle
  BY <1>1, Zenon DEF on_idle, reload_transaction, LifeInv, ConfigAgrees
<1>2. CASE UNCHANGED <<config, svc_hot>>
  BY <1>2, Zenon DEF LifeInv, ConfigAgrees
<1> QED
  BY <1>1, <1>2, Zenon DEF Next, Startup, Loop, Teardown, World, vars, InitPhaseSucceeds,
     InitPhaseFails,
     atpd_init_rollback, InitFailed, InitDone, SetupSucceeds, SetupFails, EnterLoop, on_signal,
     UdsStop, EpollFails, LoopExits, CleanupStep, PublishStopped, SendSignal, EditFile

-----------------------------------------------------------------------------
\* LifeInv is an invariant.
LEMMA LifeInvariant == Spec => []LifeInv
<1>1. LifeInv /\ [Next]_vars => LifeInv'
  BY TypeStep, HeldStep, PublishedStep, AgreeStep, Zenon DEF LifeInv, Held
<1> QED BY LifeInit, <1>1, PTL DEF Spec

\* Every way down is orderly, whichever step failed: nothing outlives what it
\* points to, nothing is left behind, and no step of the shutdown is refused
\* (atpd_init_rollback, the cleanup of run_event_loop).
THEOREM TearsDownHolds == Spec => []TearsDown
<1>1. LifeInv => TearsDown
  <2> SUFFICES ASSUME LifeInv PROVE NoDangling /\ CleanExit
    BY Zenon DEF TearsDown
  <2>1. NoDangling
    BY DEF LifeInv, TypeOK, HeldInPhases, HeldInLoop, HeldInTeardown, HeldAtEnd, ApiOwned,
       NoDangling
  <2>2. CleanExit
    BY Zenon DEF LifeInv, TypeOK, HeldAtEnd, Published, CleanExit
  <2> QED BY <2>1, <2>2, Zenon
<1> QED BY LifeInvariant, <1>1, PTL

\* The waiting parent is always answered, and never with "ok" before the loop
\* is reached (notify_startup).
THEOREM HandshakeHolds == Spec => []HandshakeAnswered
<1>1. LifeInv => HandshakeAnswered
  BY Zenon DEF LifeInv, TypeOK, Published, HandshakeAnswered
<1> QED BY LifeInvariant, <1>1, PTL

\* The service never runs with other hot fields than the active configuration
\* has (on_idle, service_apply_config).
THEOREM ConfigAgreesHolds == Spec => []ConfigAgrees
<1>1. LifeInv => ConfigAgrees
  BY Zenon DEF LifeInv
<1> QED BY LifeInvariant, <1>1, PTL

HIDE DEF Flag, Signals, Resources, RuntimeStates, LastPhase, LastSetup, LastCleanup,
        flagVars, sigVars, cfgVars, loopVars

-----------------------------------------------------------------------------
(* VpnSync. *)

USE DEF VpnStates, Requests, WorkerStates, netVars, ctxVars, boxVars, workerVars, coreVars

Busy == {"read", "set", "repost"}

\* The scan finds an interface exactly when one is up (netlink_get_active_vpn).
LEMMA ActiveIsUp ==
    ASSUME SyncTypeOK
    PROVE  /\ ActiveVpn \in Iface \cup {NoIface}
           /\ ActiveVpn = NoIface <=> link = {}
<1>1. CASE link = {}
  BY <1>1, Zenon DEF ActiveVpn
<1>2. CASE link # {} /\ link \cap Ipsec # {}
  <2>1. PICK v : v \in link \cap Ipsec
    BY <1>2, Zenon
  <2>2. (CHOOSE i \in link \cap Ipsec : TRUE) \in link \cap Ipsec
    BY <2>1, Zenon
  <2> QED BY <1>2, <2>2, IfaceAssumption, Zenon DEF ActiveVpn, SyncTypeOK
<1>3. CASE link # {} /\ link \cap Ipsec = {}
  <2>1. PICK v : v \in link
    BY <1>3, Zenon
  <2>2. (CHOOSE i \in link : TRUE) \in link
    BY <2>1, Zenon
  <2> QED BY <1>3, <2>2, IfaceAssumption, Zenon DEF ActiveVpn, SyncTypeOK
<1> QED BY <1>1, <1>2, <1>3, Zenon

\* A transition of the context keeps its types, and leaves the mailbox as it
\* was or with a request that is then the newest.
LEMMA TransitionEffect ==
    ASSUME SyncTypeOK, NEW s \in VpnStates, NEW i \in Iface \cup {NoIface},
           atpd_vpn_state_transition(s, i)
    PROVE  /\ vpn_state' = s /\ vpn_iface' = i /\ before' \in Modes
           /\ \/ UNCHANGED boxVars
              \/ /\ vpn_pending' = 1 /\ vpn_request' \in Requests
                 /\ latest' = vpn_request'
BY Zenon DEF atpd_vpn_state_transition, api_vpn_mode_callback, SyncTypeOK

\* Arming the debounce timer works, or no look at the interfaces is due.
LEMMA RefreshEffect ==
    ASSUME SyncTypeOK, trigger_network_refresh_delay
    PROVE  /\ debounce' \in {0, 1} /\ blind' \in {0, 1}
           /\ debounce' = 1 \/ blind' = 1
BY Zenon DEF trigger_network_refresh_delay, SyncTypeOK

-----------------------------------------------------------------------------
(* The inductive invariant. *)

\* While the daemon alone switches modes, the mode it saved is the one chosen
\* by sing-box or its user, with nothing saved sing-box is in that mode, and a
\* mode about to be set is the one the request calls for.
SavedMode ==
    outside = 0 /\ mode_unknown = 0 =>
       /\ default_mode \in {NoMode, chosen}
       /\ default_mode = NoMode => mode = chosen
       /\ worker = "set" =>
            /\ default_mode = chosen
            /\ set_mode = IF request = "IDLE" THEN chosen ELSE Target

\* The worker is busy only with a request that was made.
BusyWithRequest == worker \in Busy => latest # "NONE"

SyncInv ==
    /\ NoRequestLost /\ BusyWithRequest
    /\ VpnStateFresh
    /\ SavedMode /\ ModeMatches

\* SyncInv holds when the loop is entered with a refresh scheduled.
LEMMA SyncStarts == SyncInit => SyncInv
<1> SUFFICES ASSUME SyncInit PROVE SyncInv
  BY Zenon
<1>1. SyncTypeOK
  BY ModeAssumption, SyncBoundAssumption DEF SyncInit, SyncTypeOK
<1>2. NoRequestLost /\ BusyWithRequest /\ VpnStateFresh
  BY <1>1 DEF SyncInit, NoRequestLost, BusyWithRequest, Busy, VpnStateFresh
<1>3. SavedMode /\ ModeMatches
  BY Zenon DEF SyncInit, SavedMode, ModeMatches, Settled
<1> QED BY <1>2, <1>3, Zenon DEF SyncInv

-----------------------------------------------------------------------------
(* The steps. *)

\* The types are kept by every step.
LEMMA SyncTypeStep == SyncTypeOK /\ [SyncNext]_syncVars => SyncTypeOK'
<1> SUFFICES ASSUME SyncTypeOK, [SyncNext]_syncVars PROVE SyncTypeOK'
  BY Zenon
<1> USE ModeAssumption, SyncBoundAssumption
<1>1. CASE netlink_handle_event
  BY <1>1, RefreshEffect DEF netlink_handle_event, SyncTypeOK
<1>2. ASSUME NEW s \in VpnStates, NEW i \in Iface \cup {NoIface}, XfrmEvent(s, i)
      PROVE  SyncTypeOK'
  BY <1>2, RefreshEffect, TransitionEffect DEF XfrmEvent, SyncTypeOK
<1>3. CASE debounce_timer_cb
  <2>1. ASSUME NEW s \in VpnStates, NEW i \in Iface \cup {NoIface},
               atpd_vpn_state_transition(s, i)
        PROVE  SyncTypeOK'
    BY <1>3, <2>1, TransitionEffect DEF debounce_timer_cb, SyncTypeOK
  <2> QED BY <1>3, <2>1, ActiveIsUp, Zenon DEF debounce_timer_cb
<1>4. CASE TakeRequest
  BY <1>4 DEF TakeRequest, SyncTypeOK
<1>5. CASE ReadStatus
  BY <1>5 DEF ReadStatus, RestoreMode, SelectTarget, Succeed, Fail, SyncTypeOK
<1>6. CASE ReadFails \/ SetMode \/ SetFails \/ Repost \/ PollReturns
  BY <1>6 DEF ReadFails, SetMode, Succeed, SetFails, Repost, PollReturns, SyncTypeOK
<1>7. ASSUME NEW l \in SUBSET Iface, LinkChange(l) PROVE SyncTypeOK'
  BY <1>7 DEF LinkChange, SyncTypeOK
<1>8. ASSUME NEW m \in Modes, ModeChange(m) PROVE SyncTypeOK'
  BY <1>8 DEF ModeChange, SyncTypeOK
<1>9. CASE api_cleanup
  BY <1>9 DEF api_cleanup, SyncTypeOK
<1>10. CASE UNCHANGED syncVars
  BY <1>10 DEF syncVars, SyncTypeOK
<1> QED
  BY <1>1, <1>2, <1>3, <1>4, <1>5, <1>6, <1>7, <1>8, <1>9, <1>10, IfaceAssumption, Zenon
  DEF SyncNext, Reactor, Worker, SyncWorld, netlink_xfrm_event_cb

\* A step of the reactor touches the worker's side only through the mailbox.
LEMMA ReactorEffect ==
    ASSUME SyncTypeOK, Reactor
    PROVE  /\ UNCHANGED <<workerVars, coreVars, stopping>>
           /\ \/ UNCHANGED boxVars
              \/ /\ vpn_pending' = 1 /\ vpn_request' \in Requests
                 /\ latest' = vpn_request'
<1>1. CASE netlink_handle_event
  BY <1>1, Zenon DEF netlink_handle_event
<1>2. ASSUME NEW s \in VpnStates, NEW i \in Iface \cup {NoIface}, XfrmEvent(s, i)
      PROVE  /\ UNCHANGED <<workerVars, coreVars, stopping>>
             /\ \/ UNCHANGED boxVars
                \/ vpn_pending' = 1 /\ vpn_request' \in Requests /\ latest' = vpn_request'
  BY <1>2, TransitionEffect, Zenon DEF XfrmEvent
<1>3. CASE debounce_timer_cb
  BY <1>3, ActiveIsUp, TransitionEffect, Zenon DEF debounce_timer_cb
<1> QED
  BY <1>1, <1>2, <1>3, IfaceAssumption, Zenon DEF Reactor, netlink_xfrm_event_cb

\* No step loses the newest request: the worker takes it from the mailbox, and
\* puts it back after a failure unless a newer one is there.
LEMMA RequestStep ==
    ASSUME NoRequestLost, BusyWithRequest, [SyncNext]_syncVars
    PROVE  NoRequestLost' /\ BusyWithRequest'
<1>0. SyncTypeOK /\ SyncTypeOK'
  BY SyncTypeStep, Zenon DEF NoRequestLost
<1> USE <1>0 DEF NoRequestLost, BusyWithRequest, Busy
<1>1. CASE Reactor
  BY <1>1, ReactorEffect, Zenon DEF SyncTypeOK
<1>2. CASE TakeRequest
  BY <1>2, Zenon DEF TakeRequest, SyncTypeOK
<1>3. CASE ReadStatus
  BY <1>3, Zenon DEF ReadStatus, RestoreMode, SelectTarget, Succeed, Fail, SyncTypeOK
<1>4. CASE ReadFails \/ SetMode \/ SetFails
  BY <1>4, Zenon DEF ReadFails, SetMode, Succeed, SetFails, SyncTypeOK
<1>5. CASE Repost
  BY <1>5 DEF Repost, SyncTypeOK
<1>6. CASE PollReturns
  BY <1>6, Zenon DEF PollReturns, SyncTypeOK
<1>7. CASE SyncWorld \/ api_cleanup
  BY <1>7 DEF SyncWorld, LinkChange, ModeChange, api_cleanup, SyncTypeOK
<1>8. CASE UNCHANGED syncVars
  BY <1>8, Zenon DEF syncVars
<1> QED
  BY <1>1, <1>2, <1>3, <1>4, <1>5, <1>6, <1>7, <1>8, Zenon DEF SyncNext, Worker

\* The context is fresh or a message or a timer is still to come: a change of
\* the interfaces leaves a message, which leaves a timer, which looks again.
LEMMA FreshStep ==
    ASSUME SyncTypeOK, VpnStateFresh, [SyncNext]_syncVars
    PROVE  VpnStateFresh'
<1>1. CASE netlink_handle_event
  BY <1>1, RefreshEffect DEF netlink_handle_event, VpnStateFresh, SyncTypeOK
<1>2. CASE netlink_xfrm_event_cb
  BY <1>2, RefreshEffect DEF netlink_xfrm_event_cb, XfrmEvent, VpnStateFresh, SyncTypeOK
<1>3. CASE debounce_timer_cb
  <2>1. ActiveVpn' = ActiveVpn
    BY <1>3 DEF debounce_timer_cb, ActiveVpn
  <2>2. CASE link = {} /\ blind' = 0
    <3>1. vpn_state' = "IDLE" /\ vpn_iface' = NoIface
      BY <1>3, <2>2, ActiveIsUp, TransitionEffect DEF debounce_timer_cb
    <3> QED BY <1>3, <2>1, <2>2, <3>1, ActiveIsUp, Zenon DEF debounce_timer_cb, VpnStateFresh
  <2>3. CASE link # {} /\ blind' = 0
    <3>1. vpn_state' = "READY" /\ vpn_iface' = ActiveVpn
      BY <1>3, <2>3, ActiveIsUp, TransitionEffect DEF debounce_timer_cb
    <3> QED BY <1>3, <2>1, <2>3, <3>1, Zenon DEF debounce_timer_cb, VpnStateFresh
  <2>4. CASE blind' # 0
    BY <2>4, Zenon DEF VpnStateFresh
  <2> QED BY <2>2, <2>3, <2>4, Zenon
<1>4. ASSUME NEW l \in SUBSET Iface, LinkChange(l) PROVE VpnStateFresh'
  BY <1>4 DEF LinkChange, VpnStateFresh
<1>5. ASSUME UNCHANGED <<netVars, ctxVars>> PROVE VpnStateFresh'
  <2>1. ActiveVpn' = ActiveVpn
    BY <1>5 DEF ActiveVpn
  <2> QED BY <1>5, <2>1, Zenon DEF VpnStateFresh
<1>6. CASE Worker \/ api_cleanup \/ (\E m \in Modes : ModeChange(m)) \/ UNCHANGED syncVars
  BY <1>5, <1>6, Zenon DEF Worker, TakeRequest, ReadStatus, ReadFails, SetMode, SetFails,
     Repost,
                    PollReturns, api_cleanup, ModeChange, syncVars
<1> QED
  BY <1>1, <1>2, <1>3, <1>4, <1>6, Zenon DEF SyncNext, Reactor, SyncWorld

\* The mode and the saved mode go with the request the worker has applied.
LEMMA ModeStep ==
    ASSUME SyncInv, [SyncNext]_syncVars
    PROVE  SavedMode' /\ ModeMatches'
<1>0. SyncTypeOK /\ NoRequestLost /\ BusyWithRequest /\ SavedMode /\ ModeMatches
  BY Zenon DEF SyncInv, NoRequestLost
<1> USE <1>0, ModeAssumption DEF SavedMode, ModeMatches, Settled
<1>1. CASE Reactor
  BY <1>1, ReactorEffect DEF SyncTypeOK
<1>2. CASE TakeRequest
  BY <1>2, Zenon DEF TakeRequest, SyncTypeOK
<1>3. CASE ReadStatus
  <2>1. CASE request = "IDLE"
    BY <1>3, <2>1 DEF ReadStatus, RestoreMode, Succeed, Fail, SyncTypeOK, NoRequestLost,
       BusyWithRequest, Busy
  <2>2. CASE request = "READY"
    BY <1>3, <2>2 DEF ReadStatus, SelectTarget, Succeed, Fail, SyncTypeOK, NoRequestLost,
       BusyWithRequest, Busy
  <2> QED BY <2>1, <2>2, Zenon DEF SyncTypeOK
<1>4. CASE ReadFails
  BY <1>4, Zenon DEF ReadFails, SyncTypeOK
<1>5. CASE SetMode
  BY <1>5 DEF SetMode, Succeed, SyncTypeOK, NoRequestLost, BusyWithRequest, Busy
<1>6. CASE SetFails
  BY <1>6, Zenon DEF SetFails, SyncTypeOK
<1>7. CASE Repost
  BY <1>7 DEF Repost, SyncTypeOK
<1>8. CASE PollReturns
  BY <1>8, Zenon DEF PollReturns, SyncTypeOK
<1>9. ASSUME NEW l \in SUBSET Iface, LinkChange(l) PROVE SavedMode' /\ ModeMatches'
  BY <1>9, Zenon DEF LinkChange
<1>10. ASSUME NEW m \in Modes, ModeChange(m) PROVE SavedMode' /\ ModeMatches'
  BY <1>10 DEF ModeChange, SyncTypeOK
<1>11. CASE api_cleanup
  BY <1>11, Zenon DEF api_cleanup
<1>12. CASE UNCHANGED syncVars
  BY <1>12, Zenon DEF syncVars
<1> QED
  BY <1>1, <1>2, <1>3, <1>4, <1>5, <1>6, <1>7, <1>8, <1>9, <1>10, <1>11, <1>12, Zenon
  DEF SyncNext, Worker, SyncWorld

-----------------------------------------------------------------------------
\* SyncInv is an invariant.
LEMMA SyncInvariant == SyncSpec => []SyncInv
<1>1. SyncInv /\ [SyncNext]_syncVars => SyncInv'
  BY RequestStep, FreshStep, ModeStep, Zenon DEF SyncInv, NoRequestLost
<1> QED BY SyncStarts, <1>1, PTL DEF SyncSpec

\* The newest READY or IDLE is never lost between the reactor thread and the
\* API worker, and a failed request is never put back over a newer one.
THEOREM RequestsKept == SyncSpec => []NoRequestLost
<1>1. SyncInv => NoRequestLost
  BY Zenon DEF SyncInv
<1> QED BY SyncInvariant, <1>1, PTL

\* The daemon follows the VPN: unless the last look at the interfaces was lost
\* or failed, no change of them is missed; and the worker at rest has left
\* sing-box in the mode that goes with the VPN.
THEOREM FollowsVpn == SyncSpec => []VpnFollowed
<1>1. SyncInv => VpnFollowed
  BY Zenon DEF SyncInv, VpnFollowed
<1> QED BY SyncInvariant, <1>1, PTL

=============================================================================
