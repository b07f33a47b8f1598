------------------------------ MODULE Session -------------------------------
(***************************************************************************)
(* Forwarding sessions (session.c): reference-counted objects shared by the *)
(* code that created them, the registry of open sessions, two reactor       *)
(* handlers and the garbage collector's queue, which move data from fd_in   *)
(* through a pipe to fd_out while the VPN is up and are closed all at once  *)
(* when it is torn down.                                                    *)
(*                                                                         *)
(* A callback is one step, but its effects keep their order: walk[s] is the *)
(* sequence of states s goes through in the last step, and the references   *)
(* taken and dropped in a step are a sequence too, so that an object freed  *)
(* in the middle of a step and touched again is seen.                       *)
(***************************************************************************)
EXTENDS Integers, Sequences, FiniteSets, FiniteSetsExt, Functions

CONSTANTS
    Sessions,     \* session objects, each created once
    PipeSize,     \* ATPD_SESSION_PIPE_SIZE, in units
    SinkRoom,     \* units fd_out accepts before it blocks
    MaxUnits,     \* bound: units that arrive in all
    SessionFaults        \* subset of SessionFaultKinds

(* "register": reactor_add_fd_ex fails; "io": splice or epoll_ctl fails;
   "nomem": the snapshot of emergency_drain_all is not allocated.          *)
SessionFaultKinds == {"register", "io", "nomem"}

ASSUME SizeAssumption ==
    /\ PipeSize \in Nat \ {0} /\ SinkRoom \in Nat /\ MaxUnits \in Nat
    /\ SessionFaults \subseteq SessionFaultKinds

VARIABLES
    walk,        \* states s went through in the last step on sessions
    ref,         \* s->ref_count
    freed,       \* sessions that atpd_session_destroy_internal has freed
    touched,     \* 1 once a freed session was used
    owners,      \* sessions whose creator holds its reference
    registry,    \* sessions in g_session_head's list
    handlers,    \* handlers[s]: the descriptors of s the reactor watches
    gc_queue,    \* sessions in g_gc_queue, which is emptied as a whole
    src, arrived,\* units waiting on fd_in, and units that ever arrived
    pipe, pipe_pending, out, room, wr,  \* pipe contents, its record, units
                 \* delivered, space on fd_out, whether WRITE is watched
    damaged,     \* history: sessions that stay open after a failed splice or
                 \* epoll_ctl
    undrained,   \* history: 1 once a close-all found no memory
    vpn,         \* the VPN is READY
    phase        \* run_event_loop: "run", then the steps of its cleanup

refVars  == <<ref, freed, touched>>
dataVars == <<src, arrived, pipe, pipe_pending, out, room, wr>>
histVars == <<damaged, undrained>>
sessionVars == <<walk, refVars, owners, registry, handlers, gc_queue, dataVars, histVars,
          vpn, phase>>

States == {"NONE", "IDLE", "ACTIVE", "PIPE_DIRTY", "DRAINING", "CLOSING",
           "DESTROY_PENDING", "DESTROYED"}
state(s) == walk[s][Len(walk[s])]
Open(s)  == state(s) \in {"IDLE", "ACTIVE", "PIPE_DIRTY", "DRAINING"}

-----------------------------------------------------------------------------
(* atpd_session_get (+1) and atpd_session_put (-1) in the order in which a
   step makes them: the count after the first n, and whether it is zero before
   the last one, when the object is freed while the step still uses it.    *)
Count(ops, n, op) == Cardinality({i \in 1 .. n : ops[i] = op})
After(r, ops, n)  == r + Count(ops, n, 1) - Count(ops, n, -1)
FreedEarly(r, ops) == \E n \in 1 .. Len(ops) - 1 : After(r, ops, n) = 0

(* A step's effect on the references and states of the sessions in S. *)
Touch(S, ops(_), states(_)) ==
    LET final(s) == After(ref[s], ops(s), Len(ops(s)))
    IN  /\ ref' = [s \in Sessions |-> IF s \in S THEN final(s) ELSE ref[s]]
        /\ freed' = freed \cup {s \in S : final(s) = 0}
        /\ touched' = IF \E s \in S : s \in freed \/ FreedEarly(ref[s], ops(s))
                      THEN 1 ELSE touched
        /\ walk' = [s \in Sessions |->
               IF s \notin S THEN <<state(s)>>
               ELSE <<state(s)>> \o states(s)
                    \o (IF final(s) = 0 THEN <<"DESTROYED">> ELSE <<>>)]

One(b) == IF b THEN 1 ELSE 0
Times(n, op) == [i \in 1 .. n |-> op]

-----------------------------------------------------------------------------
(* atpd_session_mark_closing: a reference of its own, the registry's, those of
   the handlers (session_free_cb), the queue's, and its own again; nothing for
   a session that is closing already.                                      *)
ClosingRefs(s) ==
    IF ~Open(s) THEN <<1, -1>>
    ELSE <<1>> \o Times(One(s \in registry), -1)
         \o Times(Cardinality(handlers[s]), -1) \o <<1, -1>>

ClosingStates(s) == IF Open(s) THEN <<"CLOSING", "DESTROY_PENDING">> ELSE <<>>

(* What mark_closing does to the other structures, for the open ones of S:
   registry, handlers, and the queue of the collector (atpd_session_gc_enqueue). *)
Unlink(S) ==
    LET closing == {s \in S : Open(s)}
    IN  /\ registry' = registry \ closing
        /\ handlers' = [s \in Sessions |-> IF s \in closing THEN {} ELSE handlers[s]]
        /\ gc_queue' = gc_queue \cup closing

-----------------------------------------------------------------------------
(* atpd_session_create: the creator's reference, and one for the registry. *)
atpd_session_create(s) ==
    /\ phase = "run" /\ state(s) = "NONE"
    /\ Touch({s}, LAMBDA x : <<1, 1>>, LAMBDA x : <<"IDLE">>)
    /\ owners' = owners \cup {s}
    /\ registry' = registry \cup {s}
    /\ UNCHANGED <<handlers, gc_queue, dataVars, histVars, vpn, phase>>

register_keeps_reference(s) ==
    /\ phase = "run" /\ s \in owners /\ state(s) = "IDLE"
    /\ handlers[s] = {} /\ "register" \in SessionFaults
    /\ Touch({s}, LAMBDA x : <<1, 1, -1>>, LAMBDA x : <<>>)
    /\ UNCHANGED <<owners, registry, handlers, gc_queue, dataVars, histVars, vpn,
                   phase>>

(* atpd_session_register that fails on the first or on the second descriptor:
   what it took is given back, and the session stays IDLE.                 *)
RegisterFails(s) ==
    /\ phase = "run" /\ s \in owners /\ state(s) = "IDLE"
    /\ handlers[s] = {} /\ "register" \in SessionFaults
    /\ \/ Touch({s}, LAMBDA x : <<1, -1>>, LAMBDA x : <<>>)
       \/ Touch({s}, LAMBDA x : <<1, 1, -1, -1>>, LAMBDA x : <<>>)
    /\ UNCHANGED <<owners, registry, handlers, gc_queue, dataVars, histVars, vpn,
                   phase>>

atpd_session_register(s) ==
    /\ phase = "run" /\ s \in owners /\ state(s) = "IDLE"
    /\ Touch({s}, LAMBDA x : <<1, 1>>, LAMBDA x : <<"ACTIVE">>)
    /\ handlers' = [handlers EXCEPT ![s] = {"in", "out"}]
    /\ UNCHANGED <<owners, registry, gc_queue, dataVars, histVars, vpn, phase>>

(* The creator drops its reference, or asks for the session to be closed. *)
OwnerPut(s) ==
    /\ s \in owners
    /\ Touch({s}, LAMBDA x : <<-1>>, LAMBDA x : <<>>)
    /\ owners' = owners \ {s}
    /\ UNCHANGED <<registry, handlers, gc_queue, dataVars, histVars, vpn, phase>>

atpd_session_destroy(s) ==
    /\ phase = "run" /\ s \in owners /\ Open(s)
    /\ Touch({s}, ClosingRefs, ClosingStates)
    /\ Unlink({s})
    /\ UNCHANGED <<owners, dataVars, histVars, vpn, phase>>

-----------------------------------------------------------------------------
(* The reactor's callbacks hold a reference while they run. *)
Keep(s, states) ==
    /\ Touch({s}, LAMBDA x : <<1, -1>>, LAMBDA x : states)
    /\ UNCHANGED <<owners, registry, handlers, gc_queue, undrained, vpn, phase>>

Close(s, states) ==
    /\ Touch({s}, LAMBDA x : <<1>> \o ClosingRefs(x) \o <<-1>>,
                  LAMBDA x : states \o ClosingStates(x))
    /\ Unlink({s})
    /\ UNCHANGED <<owners, undrained, vpn, phase>>

(* n units leave the pipe for fd_out, and pending are recorded as left. *)
SendFromPipe(s, n, pending) ==
    /\ pipe' = [pipe EXCEPT ![s] = @ - n]
    /\ out' = [out EXCEPT ![s] = @ + n]
    /\ room' = [room EXCEPT ![s] = @ - n]
    /\ pipe_pending' = [pipe_pending EXCEPT ![s] = pending]

Sendable(s) == Min({pipe_pending[s], pipe[s], room[s]})

(* atpd_session_drain_pipe when fd_out blocks again, when splice fails (the
   record is left as it was), and when the pipe is emptied.                *)
DrainBlocked_forgets_record(s) ==
    /\ Sendable(s) < pipe_pending[s]
    /\ SendFromPipe(s, Sendable(s), pipe_pending[s])
    /\ UNCHANGED <<src, arrived, wr, damaged>>

DrainBlocked(s) ==
    /\ Sendable(s) < pipe_pending[s]
    /\ SendFromPipe(s, Sendable(s), pipe_pending[s] - Sendable(s))
    /\ UNCHANGED <<src, arrived, wr, damaged>>

DrainFails(s) ==
    /\ "io" \in SessionFaults
    /\ \E n \in 0 .. Sendable(s) : SendFromPipe(s, n, pipe_pending[s])
    /\ damaged' = damaged \cup {s}
    /\ UNCHANGED <<src, arrived, wr>>

Drained(s) == Sendable(s) = pipe_pending[s]

DrainComplete(s) ==
    /\ Drained(s)
    /\ SendFromPipe(s, Sendable(s), 0)
    /\ wr' = [wr EXCEPT ![s] = 0]
    /\ UNCHANGED <<src, arrived, damaged>>

Hangup(s) ==
    /\ phase = "run" /\ handlers[s] # {}
    /\ Close(s, <<>>)
    /\ UNCHANGED <<dataVars, damaged>>

(* session_out_cb on a dirty pipe: an error, of epoll_ctl too, closes. *)
session_out_cb(s) ==
    /\ phase = "run" /\ "out" \in handlers[s] /\ state(s) = "PIPE_DIRTY"
    /\ \/ DrainBlocked(s) /\ Keep(s, <<"DRAINING", "PIPE_DIRTY">>)
       \/ DrainFails(s) /\ Close(s, <<"DRAINING", "PIPE_DIRTY">>)
       \/ DrainComplete(s) /\ \/ Keep(s, <<"DRAINING", "ACTIVE">>)
                              \/ "io" \in SessionFaults /\ Close(s, <<"DRAINING", "ACTIVE">>)

(* session_in_cb that finds the pipe dirty and leaves it so: input has to wait,
   and a failed drain is left to the other callback.                       *)
InBlocked(s) ==
    /\ phase = "run" /\ "in" \in handlers[s] /\ state(s) = "PIPE_DIRTY"
    /\ DrainBlocked(s) \/ DrainFails(s)
    /\ Keep(s, <<"DRAINING", "PIPE_DIRTY">>)

(* atpd_session_splice_pump after k drained units, with r units of room left:
   at most PipeSize units enter the pipe, as many as fit leave it, and what is
   stuck makes it dirty.  With taken units in the pipe, sent leave it.     *)
Pumped(s, k, taken, sent, watch) ==
    /\ src' = [src EXCEPT ![s] = @ - taken]
    /\ pipe' = [pipe EXCEPT ![s] = @ - k + taken - sent]
    /\ out' = [out EXCEPT ![s] = @ + k + sent]
    /\ room' = [room EXCEPT ![s] = @ - k - sent]
    /\ pipe_pending' = [pipe_pending EXCEPT ![s] = taken - sent]
    /\ wr' = [wr EXCEPT ![s] = watch]
    /\ damaged' = IF sent < taken /\ watch = 0 THEN damaged \cup {s} ELSE damaged
    /\ UNCHANGED arrived

(* session_in_cb that pumps: everything fits, or the pipe is left dirty with
   WRITE watched (not when fd_out's peer is gone), or the end of the input, a
   VPN that is not READY or an error closes the session.  The VPN does not
   change inside a callback, so the pump's second look at it sees the same. *)
InPump(s) ==
    LET dirty == state(s) = "PIPE_DIRTY"
        k     == IF dirty THEN Sendable(s) ELSE 0
        r     == room[s] - k
        n     == Min({PipeSize, src[s]})
        first == IF dirty THEN <<"DRAINING", "ACTIVE">> ELSE <<>>
    IN  /\ phase = "run" /\ "in" \in handlers[s]
        /\ state(s) \in {"ACTIVE", "PIPE_DIRTY"} /\ (dirty => Drained(s))
        /\ \/ vpn = 1 /\ n <= r /\ Pumped(s, k, n, n, 0) /\ Keep(s, first)
           \/ /\ vpn = 1 /\ n > r
              /\ \E taken \in r + 1 .. n,
                    watch \in {1} \cup (IF "io" \in SessionFaults THEN {0} ELSE {}) :
                    Pumped(s, k, taken, r, watch)
              /\ \/ Keep(s, first \o <<"PIPE_DIRTY">>)
                 \/ "io" \in SessionFaults /\ Close(s, first \o <<"PIPE_DIRTY">>)
           \/ /\ vpn = 0 \/ n = 0 \/ "io" \in SessionFaults
              /\ Pumped(s, k, 0, 0, 0) /\ Close(s, first)

-----------------------------------------------------------------------------
(* atpd_session_emergency_drain_all on a snapshot of the registry: each session
   loses its pipe and is closed.                                           *)
DrainAll ==
    \/ /\ registry # {}
       /\ Touch(registry, LAMBDA x : <<1>> \o ClosingRefs(x) \o <<-1>>, ClosingStates)
       /\ Unlink(registry)
       /\ pipe' = [s \in Sessions |-> IF s \in registry THEN 0 ELSE pipe[s]]
       /\ pipe_pending' =
              [s \in Sessions |-> IF s \in registry THEN 0 ELSE pipe_pending[s]]
       /\ UNCHANGED <<owners, src, arrived, out, room, wr, histVars>>
    \/ /\ registry = {} \/ "nomem" \in SessionFaults
       /\ undrained' = IF registry = {} THEN undrained ELSE 1
       /\ UNCHANGED <<walk, refVars, owners, registry, handlers, gc_queue, dataVars,
                      damaged>>

(* The VPN comes up, goes down unannounced, or is torn down, which closes every
   session (atpd_vpn_state_transition's teardown callback).                *)
VpnUp ==
    /\ phase = "run" /\ vpn = 0 /\ vpn' = 1
    /\ UNCHANGED <<walk, refVars, owners, registry, handlers, gc_queue, dataVars,
                   histVars, phase>>

VpnDown ==
    /\ phase = "run" /\ vpn = 1 /\ vpn' = 0
    /\ UNCHANGED <<walk, refVars, owners, registry, handlers, gc_queue, dataVars,
                   histVars, phase>>

VpnTeardown == phase = "run" /\ vpn' = 0 /\ DrainAll /\ UNCHANGED phase

Collect ==
    /\ Touch(gc_queue, LAMBDA x : <<-1>>, LAMBDA x : <<>>)
    /\ gc_queue' = {}
    /\ UNCHANGED <<owners, registry, handlers, dataVars, histVars, vpn>>

(* on_idle: the collector drops the references of its whole queue. *)
atpd_session_gc_process ==
    phase = "run" /\ gc_queue # {} /\ Collect /\ UNCHANGED phase

CleanupCollect_skipped ==
    /\ phase = "drained" /\ phase' = "collected"
    /\ UNCHANGED <<walk, refVars, owners, registry, handlers, gc_queue, dataVars,
                   histVars, vpn>>

(* run_event_loop's cleanup, in its order. *)
CleanupDrain == phase = "run" /\ phase' = "drained" /\ DrainAll /\ UNCHANGED vpn

CleanupCollect == phase = "drained" /\ phase' = "collected" /\ Collect

(* reactor_destroy frees the handlers that are left. *)
CleanupReactor ==
    /\ phase = "collected" /\ phase' = "end"
    /\ Touch({s \in Sessions : handlers[s] # {}},
             LAMBDA x : Times(Cardinality(handlers[x]), -1), LAMBDA x : <<>>)
    /\ handlers' = [s \in Sessions |-> {}]
    /\ UNCHANGED <<owners, registry, gc_queue, dataVars, histVars, vpn>>

(* The endpoints: data arrives on fd_in, and fd_out's peer reads; what they do
   while nobody watches the descriptors is seen with what they do after.   *)
Arrive(s) ==
    /\ phase = "run" /\ handlers[s] # {} /\ FoldFunction(+, 0, arrived) < MaxUnits
    /\ src' = [src EXCEPT ![s] = @ + 1]
    /\ arrived' = [arrived EXCEPT ![s] = @ + 1]
    /\ UNCHANGED <<walk, refVars, owners, registry, handlers, gc_queue,
                   pipe, pipe_pending, out, room, wr, histVars, vpn, phase>>

SinkReads(s) ==
    /\ phase = "run" /\ handlers[s] # {} /\ room[s] < SinkRoom
    /\ room' = [room EXCEPT ![s] = @ + 1]
    /\ UNCHANGED <<walk, refVars, owners, registry, handlers, gc_queue,
                   src, arrived, pipe, pipe_pending, out, wr, histVars, vpn, phase>>

-----------------------------------------------------------------------------
SessionInit ==
    /\ walk = [s \in Sessions |-> <<"NONE">>]
    /\ ref = [s \in Sessions |-> 0] /\ freed = {} /\ touched = 0
    /\ owners = {} /\ registry = {} /\ gc_queue = {}
    /\ handlers = [s \in Sessions |-> {}]
    /\ src = [s \in Sessions |-> 0] /\ arrived = [s \in Sessions |-> 0]
    /\ pipe = [s \in Sessions |-> 0] /\ pipe_pending = [s \in Sessions |-> 0]
    /\ out = [s \in Sessions |-> 0] /\ room = [s \in Sessions |-> SinkRoom]
    /\ wr = [s \in Sessions |-> 0]
    /\ damaged = {} /\ undrained = 0 /\ vpn = 0 /\ phase = "run"

Owner(s)    == \/ atpd_session_create(s) \/ atpd_session_register(s) \/ RegisterFails(s)
               \/ OwnerPut(s) \/ atpd_session_destroy(s)
Callback(s) == Hangup(s) \/ session_out_cb(s) \/ InBlocked(s) \/ InPump(s)
Cleanup     == CleanupDrain \/ CleanupCollect \/ CleanupReactor

SessionNext == \/ \E s \in Sessions : Owner(s) \/ Callback(s) \/ Arrive(s) \/ SinkReads(s)
        \/ VpnUp \/ VpnDown \/ VpnTeardown \/ atpd_session_gc_process \/ Cleanup

SessionSpec == SessionInit /\ [][SessionNext]_sessionVars

-----------------------------------------------------------------------------
(* Properties. *)

\* The types of the variables.
SessionTypeOK ==
    /\ walk \in [Sessions -> Seq(States) \ {<<>>}]
    /\ ref \in [Sessions -> 0 .. 6] /\ touched \in {0, 1} /\ vpn \in {0, 1}
    /\ owners \cup registry \cup gc_queue \cup freed \cup damaged \subseteq Sessions
    /\ undrained \in {0, 1}
    /\ handlers \in [Sessions -> SUBSET {"in", "out"}]
    /\ pipe \in [Sessions -> 0 .. PipeSize] /\ pipe_pending \in [Sessions -> 0 .. PipeSize]
    /\ src \in [Sessions -> Nat] /\ arrived \in [Sessions -> Nat] /\ out \in [Sessions -> Nat]
    /\ room \in [Sessions -> 0 .. SinkRoom] /\ wr \in [Sessions -> {0, 1}]
    /\ phase \in {"run", "drained", "collected", "end"}

(* The state machine that session.c lists above session_set_state. *)
ValidTransitions ==
    {<<"NONE", "IDLE">>, <<"IDLE", "ACTIVE">>, <<"IDLE", "CLOSING">>,
     <<"ACTIVE", "PIPE_DIRTY">>, <<"PIPE_DIRTY", "DRAINING">>,
     <<"DRAINING", "ACTIVE">>, <<"DRAINING", "PIPE_DIRTY">>,
     <<"ACTIVE", "CLOSING">>, <<"PIPE_DIRTY", "CLOSING">>,
     <<"DRAINING", "CLOSING">>, <<"CLOSING", "DESTROY_PENDING">>,
     <<"DESTROY_PENDING", "DESTROYED">>}

(* The count of a session is the number of those who hold it: its creator, the
   registry, the reactor's handlers and the collector, after every callback,
   failure and close-all (the ownership contract of session.c).            *)
RefExact ==
    SessionTypeOK /\ \A s \in Sessions :
       ref[s] = One(s \in owners) + One(s \in registry) + Cardinality(handlers[s])
                + One(s \in gc_queue)

(* No freed session is used: not within the step that drops the last
   reference, and not later from the registry, a handler or the queue.  Every
   single change of state is one of the "Valid Transitions" of session.c.  *)
NoUseAfterFree ==
    /\ \A s \in Sessions : \A i \in 1 .. Len(walk[s]) - 1 :
          <<walk[s][i], walk[s][i + 1]>> \in ValidTransitions
    /\ touched = 0
    /\ \A s \in freed : s \notin registry \cup owners \cup gc_queue /\ handlers[s] = {}

(* Whatever callbacks, the garbage collector and a VPN teardown do to sessions,
   both of these hold.                                                     *)
SessionsHeld == NoUseAfterFree /\ RefExact

(* No unit is lost or sent twice while a session is open: what arrived is
   waiting, in the pipe or delivered, and the pipe holds exactly what the
   record of a dirty session says, nothing otherwise, unless a system call on
   it failed.  A dirty pipe is watched for WRITE, and only a dirty one:
   otherwise nothing would empty it, or the loop would spin.               *)
DataConserved ==
    \A s \in Sessions \ damaged : Open(s) =>
       /\ src[s] + pipe[s] + out[s] = arrived[s]
       /\ pipe[s] = pipe_pending[s]
       /\ (pipe[s] > 0) <=> (state(s) = "PIPE_DIRTY")
       /\ (wr[s] = 1) <=> (state(s) = "PIPE_DIRTY")

(* At the end of run_event_loop every session whose creator let go of it is
   freed, wherever it was when the loop stopped, unless there was no memory for
   the list of the sessions to close.                                      *)
NoneLeaked ==
    phase = "end" /\ undrained = 0 =>
       \A s \in Sessions : state(s) # "NONE" /\ s \notin owners => s \in freed

=============================================================================
