------------------------------- MODULE VpnSync -------------------------------
(***************************************************************************)
(* From a VPN interface to the Clash mode of sing-box: the netlink and     *)
(* XFRM handlers with their debounce timer (src/netlink.c), the VPN state  *)
(* of the context (src/atpd_context.c), and the one-slot mailbox through   *)
(* which the reactor thread hands READY and IDLE to the API worker thread  *)
(* (src/api.c).                                                            *)
(*                                                                         *)
(* The two threads interleave at the mailbox lock and at every RPC of the  *)
(* worker.  sing-box may restart or be switched by its user between any    *)
(* two RPCs, and an RPC may fail before or after it took effect.           *)
(***************************************************************************)
EXTENDS Naturals, FiniteSets

CONSTANTS
    Iface,       \* VPN interfaces of the kernel
    Ipsec,       \* those named ipsecN, which the scan prefers
    NoIface,     \* the empty interface name
    Modes,       \* Clash modes
    Target,      \* VPN_TARGET_MODE
    Fallback,    \* VPN_FALLBACK_MODE
    NoMode,      \* default_mode is empty
    MaxLinks,    \* bound: changes of the set of interfaces
    MaxXfrm,     \* bound: XFRM messages
    MaxOutside,  \* bound: mode changes by a restart of sing-box or by its user
    SyncFaults       \* subset of SyncFaultKinds

(* "timer": reactor_add_timer fails; "overrun": the route socket dropped its
   messages and recv fails; "probe": netlink_get_active_vpn fails; "rpc": an
   RPC fails; "late": a mode change takes effect although its RPC failed;
   "modes": sing-box does not know every configured mode.                  *)
SyncFaultKinds == {"timer", "overrun", "probe", "rpc", "late", "modes"}

ASSUME IfaceAssumption == Ipsec \subseteq Iface /\ NoIface \notin Iface
ASSUME ModeAssumption ==
    Target \in Modes /\ Fallback \in Modes /\ NoMode \notin Modes
ASSUME SyncBoundAssumption ==
    MaxLinks \in Nat /\ MaxXfrm \in Nat /\ MaxOutside \in Nat
ASSUME SyncFaultAssumption == SyncFaults \subseteq SyncFaultKinds

VARIABLES
    link,         \* the VPN interfaces that are up
    route_evt,    \* unread messages in the route netlink socket
    debounce,     \* g_debounce_timer
    vpn_state,    \* g_context.vpn.state
    vpn_iface,    \* g_context.vpn.iface
    vpn_pending,  \* api_ctx_t.vpn_pending
    vpn_request,  \* api_ctx_t.vpn_request.state
    stopping,     \* api_ctx_t.stopping
    worker,       \* where api_refresh_worker is
    request,      \* its copy of the request
    set_mode,     \* the mode it is about to set
    default_mode, \* api_ctx_t.default_mode
    mode,         \* the current mode of sing-box
    links, xfrms, outside, \* events so far
    latest,       \* history: the newest request handed over, or "NONE"
    applied,      \* history: the last request applied with success, or "NONE"
    chosen,       \* history: the mode last set by sing-box or its user
    before,       \* history: chosen, when the VPN last became READY
    blind,        \* history: the last look due at the interfaces was not
                  \* scheduled, or it failed
    mode_unknown  \* history: sing-box did not know every mode

netVars    == <<link, route_evt, debounce, links, xfrms, blind>>
ctxVars    == <<vpn_state, vpn_iface, before>>
boxVars    == <<vpn_pending, vpn_request, latest>>
workerVars == <<worker, request, set_mode, default_mode, applied, mode_unknown>>
coreVars   == <<mode, chosen, outside>>
syncVars   == <<netVars, ctxVars, boxVars, workerVars, coreVars, stopping>>

VpnStates == {"IDLE", "PREDICTING", "READY", "TEARDOWN"}
Requests  == {"IDLE", "READY"}

-----------------------------------------------------------------------------
(* src/atpd_context.c and the mode callback of src/api.c. *)

\* Only the debounced states are handed to the worker.
api_vpn_mode_callback(s) ==
    IF s \in Requests
      THEN vpn_pending' = 1 /\ vpn_request' = s /\ latest' = s
      ELSE UNCHANGED boxVars

\* The same state of the same interface again is not a transition.
atpd_vpn_state_transition(s, iface) ==
    IF vpn_state = s /\ vpn_iface = iface
      THEN UNCHANGED <<ctxVars, boxVars>>
      ELSE /\ vpn_state' = s /\ vpn_iface' = iface
           /\ before' = IF s = "READY" /\ vpn_state # "READY" THEN chosen ELSE before
           /\ api_vpn_mode_callback(s)

-----------------------------------------------------------------------------
(* src/netlink.c *)

\* netlink_get_active_vpn: an ipsec interface if there is one, else the first.
ActiveVpn ==
    IF link = {} THEN NoIface
    ELSE IF link \cap Ipsec # {} THEN CHOOSE i \in link \cap Ipsec : TRUE
    ELSE CHOOSE i \in link : TRUE

\* Cancels the pending timer and arms a new one.
trigger_network_refresh_delay ==
    \/ debounce' = 1 /\ UNCHANGED blind
    \/ "timer" \in SyncFaults /\ debounce' = 0 /\ blind' = 1

\* A recv that fails is not looked into.
netlink_handle_event ==
    /\ stopping = 0 /\ route_evt = 1
    /\ route_evt' = 0
    /\ \/ trigger_network_refresh_delay
       \/ "overrun" \in SyncFaults /\ blind' = 1 /\ UNCHANGED debounce
    /\ UNCHANGED <<link, links, xfrms, ctxVars, boxVars, workerVars, coreVars,
                   stopping>>

\* netlink_xfrm_event_cb: a new SA predicts a VPN, a deleted one its end.
XfrmEvent(s, iface) ==
    /\ stopping = 0 /\ xfrms < MaxXfrm
    /\ xfrms' = xfrms + 1
    /\ atpd_vpn_state_transition(s, iface)
    /\ trigger_network_refresh_delay
    /\ UNCHANGED <<link, route_evt, links, workerVars, coreVars, stopping>>

netlink_xfrm_event_cb ==
    \/ \E i \in Ipsec : XfrmEvent("PREDICTING", i)
    \/ XfrmEvent("TEARDOWN", NoIface)

\* A look that fails is taken for one that found nothing.
debounce_timer_cb ==
    /\ stopping = 0 /\ debounce = 1
    /\ debounce' = 0
    /\ \/ /\ blind' = 0
          /\ IF ActiveVpn # NoIface
               THEN atpd_vpn_state_transition("READY", ActiveVpn)
               ELSE atpd_vpn_state_transition("IDLE", NoIface)
       \/ /\ "probe" \in SyncFaults /\ blind' = 1
          /\ atpd_vpn_state_transition("IDLE", NoIface)
    /\ UNCHANGED <<link, route_evt, links, xfrms, workerVars, coreVars, stopping>>

-----------------------------------------------------------------------------
(* src/api.c: the worker thread.  "take" reads the mailbox, "read" gets the
   mode status, "set" sets set_mode, "repost" follows a failure, "wait" is
   the refresh of the snapshot and the poll of at most a second.           *)

WorkerStates == {"take", "read", "set", "repost", "wait", "done"}

TakeRequest_ignores_stop ==
    /\ worker = "take"
    /\ vpn_pending' = 0
    /\ request' = IF vpn_pending = 1 THEN vpn_request ELSE request
    /\ worker' = IF vpn_pending = 1 THEN "read" ELSE "wait"
    /\ UNCHANGED <<vpn_request, latest, set_mode, default_mode, applied, mode_unknown,
                   netVars, ctxVars, coreVars, stopping>>

TakeRequest ==
    /\ worker = "take"
    /\ vpn_pending' = 0
    /\ request' = IF vpn_pending = 1 THEN vpn_request ELSE request
    /\ worker' = IF stopping = 1 THEN "done"
                 ELSE IF vpn_pending = 1 THEN "read" ELSE "wait"
    /\ UNCHANGED <<vpn_request, latest, set_mode, default_mode, applied, mode_unknown,
                   netVars, ctxVars, coreVars, stopping>>

\* api_apply_vpn_mode returns true.
Succeed(r) == worker' = "wait" /\ applied' = r

Fail == worker' = "repost" /\ UNCHANGED applied

\* An IDLE request: back to the saved mode, or to the fallback.
RestoreMode(supported) ==
    IF default_mode = NoMode
      THEN Succeed("IDLE") /\ UNCHANGED <<set_mode, default_mode>>
      ELSE LET restore == IF default_mode \in supported THEN default_mode ELSE Fallback
           IN  IF restore \notin supported
                 THEN Fail /\ UNCHANGED <<set_mode, default_mode>>
                 ELSE IF mode = restore
                        THEN Succeed("IDLE") /\ default_mode' = NoMode /\ UNCHANGED set_mode
                        ELSE /\ worker' = "set" /\ set_mode' = restore
                             /\ UNCHANGED <<applied, default_mode>>

SelectTarget_saves_always(supported) ==
    /\ default_mode' = mode
    /\ IF Target \notin supported THEN Fail /\ UNCHANGED set_mode
       ELSE IF mode = Target THEN Succeed("READY") /\ UNCHANGED set_mode
       ELSE worker' = "set" /\ set_mode' = Target /\ UNCHANGED applied

\* A READY request: the current mode is saved, unless one is saved already.
SelectTarget(supported) ==
    /\ default_mode' = IF default_mode = NoMode THEN mode ELSE default_mode
    /\ IF Target \notin supported THEN Fail /\ UNCHANGED set_mode
       ELSE IF mode = Target THEN Succeed("READY") /\ UNCHANGED set_mode
       ELSE worker' = "set" /\ set_mode' = Target /\ UNCHANGED applied

\* The status RPC: the current mode and the modes sing-box knows.
ReadStatus ==
    /\ worker = "read"
    /\ \E supported \in SUBSET Modes :
          /\ mode \in supported
          /\ "modes" \in SyncFaults \/ supported = Modes
          /\ mode_unknown' = IF supported = Modes THEN mode_unknown ELSE 1
          /\ IF request = "IDLE" THEN RestoreMode(supported) ELSE SelectTarget(supported)
    /\ UNCHANGED <<request, netVars, ctxVars, boxVars, coreVars, stopping>>

ReadFails ==
    /\ worker = "read" /\ "rpc" \in SyncFaults
    /\ worker' = "repost"
    /\ UNCHANGED <<request, set_mode, default_mode, applied, mode_unknown, netVars, ctxVars,
                   boxVars, coreVars, stopping>>

SetMode ==
    /\ worker = "set"
    /\ mode' = set_mode
    /\ default_mode' = IF request = "IDLE" THEN NoMode ELSE default_mode
    /\ Succeed(request)
    /\ UNCHANGED <<request, set_mode, mode_unknown, chosen, outside, netVars,
                   ctxVars, boxVars, stopping>>

SetFails ==
    /\ worker = "set"
    /\ \/ "rpc" \in SyncFaults /\ UNCHANGED mode
       \/ "late" \in SyncFaults /\ mode' = set_mode
    /\ worker' = "repost"
    /\ UNCHANGED <<request, set_mode, default_mode, applied, mode_unknown, chosen, outside,
                   netVars, ctxVars, boxVars, stopping>>

Repost_gives_up ==
    /\ worker = "repost"
    /\ worker' = "wait"
    /\ UNCHANGED <<boxVars, request, set_mode, default_mode, applied, mode_unknown, netVars,
                   ctxVars, coreVars, stopping>>

\* A failed request is tried again unless a newer one arrived meanwhile.
Repost ==
    /\ worker = "repost"
    /\ IF vpn_pending = 0 /\ stopping = 0
         THEN vpn_request' = request /\ vpn_pending' = 1
         ELSE UNCHANGED <<vpn_request, vpn_pending>>
    /\ worker' = "wait"
    /\ UNCHANGED <<latest, request, set_mode, default_mode, applied, mode_unknown, netVars,
                   ctxVars, coreVars, stopping>>

PollReturns_without_timeout ==
    /\ worker = "wait"
    /\ (vpn_pending = 1 /\ vpn_request # request) \/ stopping = 1
    /\ worker' = "take"
    /\ request' = "IDLE" /\ set_mode' = Target
    /\ UNCHANGED <<default_mode, applied, mode_unknown, netVars, ctxVars, boxVars,
                   coreVars, stopping>>

\* The poll of the wake descriptor returns, by a wake-up or its timeout, and
\* the next round begins with no request and no mode of its own.
PollReturns ==
    /\ worker = "wait"
    /\ worker' = "take"
    /\ request' = "IDLE" /\ set_mode' = Target
    /\ UNCHANGED <<default_mode, applied, mode_unknown, netVars, ctxVars, boxVars,
                   coreVars, stopping>>

\* api_cleanup, after the callbacks were cleared: the reactor thread joins.
api_cleanup ==
    /\ stopping = 0
    /\ stopping' = 1
    /\ UNCHANGED <<netVars, ctxVars, boxVars, workerVars, coreVars>>

-----------------------------------------------------------------------------
(* The environment. *)

LinkChange(l) ==
    /\ links < MaxLinks /\ l # link
    /\ link' = l /\ links' = links + 1 /\ route_evt' = 1
    /\ UNCHANGED <<debounce, blind, xfrms, ctxVars, boxVars, workerVars,
                   coreVars, stopping>>

\* sing-box restarts in another mode, or its user selects one.
ModeChange(m) ==
    /\ outside < MaxOutside /\ m # mode
    /\ mode' = m /\ chosen' = m /\ outside' = outside + 1
    /\ UNCHANGED <<netVars, ctxVars, boxVars, workerVars, stopping>>

-----------------------------------------------------------------------------
\* The loop is entered with a refresh scheduled (netlink_refresh_state).
SyncInit ==
    /\ link \in SUBSET Iface /\ route_evt = 0 /\ debounce = 1
    /\ vpn_state = "IDLE" /\ vpn_iface = NoIface
    /\ vpn_pending = 0 /\ vpn_request = "IDLE" /\ stopping = 0
    /\ worker = "take" /\ request = "IDLE" /\ set_mode = Target
    /\ default_mode = NoMode /\ mode \in Modes
    /\ links = 0 /\ xfrms = 0 /\ outside = 0
    /\ latest = "NONE" /\ applied = "NONE" /\ chosen = mode /\ before = mode
    /\ blind = 0 /\ mode_unknown = 0

Reactor == netlink_handle_event \/ netlink_xfrm_event_cb \/ debounce_timer_cb
Worker  == \/ TakeRequest \/ ReadStatus \/ ReadFails \/ SetMode \/ SetFails
           \/ Repost \/ PollReturns
SyncWorld == \/ \E l \in SUBSET Iface : LinkChange(l)
             \/ \E m \in Modes : ModeChange(m)

SyncNext == Reactor \/ Worker \/ SyncWorld \/ api_cleanup

SyncSpec == SyncInit /\ [][SyncNext]_syncVars

(* The reactor serves its sockets and timers, the worker runs, and an RPC that
   is tried again and again succeeds in the end.                           *)
SyncFairness ==
    /\ WF_syncVars(netlink_handle_event) /\ WF_syncVars(debounce_timer_cb)
    /\ WF_syncVars(Worker) /\ SF_syncVars(ReadStatus) /\ SF_syncVars(SetMode)

SyncFairSpec == SyncSpec /\ SyncFairness

-----------------------------------------------------------------------------
(* Properties. *)

\* The types of the variables.
SyncTypeOK ==
    /\ link \subseteq Iface
    /\ route_evt \in {0, 1} /\ debounce \in {0, 1} /\ stopping \in {0, 1}
    /\ blind \in {0, 1} /\ mode_unknown \in {0, 1}
    /\ vpn_state \in VpnStates /\ vpn_iface \in Iface \cup {NoIface}
    /\ vpn_pending \in {0, 1} /\ vpn_request \in Requests
    /\ worker \in WorkerStates /\ request \in Requests /\ set_mode \in Modes
    /\ default_mode \in Modes \cup {NoMode}
    /\ mode \in Modes /\ chosen \in Modes /\ before \in Modes
    /\ latest \in Requests \cup {"NONE"} /\ applied \in Requests \cup {"NONE"}
    /\ links \in 0 .. MaxLinks /\ xfrms \in 0 .. MaxXfrm
    /\ outside \in 0 .. MaxOutside

(* The newest request is never lost: it waits in the mailbox, the worker has
   it, or it was the last one applied; and a failed request is not put back
   over a newer one (api_refresh_worker).                                  *)
NoRequestLost ==
    /\ SyncTypeOK
    /\ vpn_pending = 1 => vpn_request = latest
    /\ \/ latest = "NONE" \/ stopping = 1
       \/ vpn_pending = 1
       \/ worker \in {"read", "set", "repost"} /\ request = latest
       \/ worker \notin {"read", "set", "repost"} /\ applied = latest

(* No change of the interfaces is missed: with no message unread and no timer
   pending, the context shows what the kernel has, so PREDICTING and TEARDOWN
   always have a timer, however often it was cancelled and armed again.  The
   only exceptions are a look at the interfaces that could not be scheduled
   (no timer, or the route socket lost its messages) and one that failed, which
   debounce_timer_cb publishes as IDLE; the next look that works, after
   whichever event, makes up for both.                                     *)
VpnStateFresh ==
    blind = 0 /\ route_evt = 0 /\ debounce = 0 =>
       /\ vpn_iface = ActiveVpn
       /\ vpn_state = IF link = {} THEN "IDLE" ELSE "READY"

\* The worker has applied the newest request and nothing is under way.
Settled == vpn_pending = 0 /\ worker \in {"wait", "take"} /\ stopping = 0

(* When the daemon alone switches modes, READY leaves sing-box in the target
   mode, and IDLE in the mode it had before the VPN came up, whatever was
   superseded, retried or applied late on the way.  Once IDLE is applied no
   saved mode is left that a later connection could restore.               *)
ModeMatches ==
    Settled =>
       /\ latest = "IDLE" => default_mode = NoMode
       /\ outside = 0 /\ mode_unknown = 0 =>
             mode = CASE latest = "READY" -> Target
                      [] latest = "IDLE" -> chosen
                      [] OTHER -> mode

(* The daemon follows the VPN: its state shows the kernel's interfaces
   (VpnStateFresh) and sing-box is left in the mode that goes with it
   (ModeMatches).                                                          *)
VpnFollowed == VpnStateFresh /\ ModeMatches

(* IDLE restores the mode from before this connection, never one saved for an
   earlier connection: the mode a restoring RPC sets is the one sing-box or
   its user had chosen when the VPN became READY, the one chosen since, or the
   fallback.                                                               *)
RestoresOwnMode ==
    [][worker = "set" /\ worker' = "wait" /\ request = "IDLE" /\ vpn_pending = 0
         => mode' \in {before, chosen, Fallback}]_syncVars

(* With the interfaces at rest, the mode follows the VPN: in the end, and from
   then on, a VPN that is up has the target mode, unless the last look at the
   interfaces was lost or failed, or somebody else selects modes.          *)
ModeConverges ==
    <>[](\/ stopping = 1 \/ blind = 1 \/ mode_unknown = 1 \/ outside > 0
         \/ link # {} => mode = Target)

(* api_cleanup does not wait for ever in pthread_join. *)
WorkerJoins == stopping = 1 ~> worker = "done"

=============================================================================
