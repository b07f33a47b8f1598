-------------------------------- MODULE Uds ---------------------------------
(***************************************************************************)
(* The control socket (uds.c) on the reactor's event loop (reactor_run):   *)
(* client connections that are accepted from an edge-triggered listening    *)
(* socket, send one command, get one reply and are closed, at most          *)
(* MaxClients at a time, with a scan that closes idle ones and a stop       *)
(* command that takes effect once its reply is written.                    *)
(*                                                                         *)
(* A connection's bytes are units: "part" is input without a newline, any   *)
(* other input unit ends a command line.  A callback is one step; the peer, *)
(* the kernel's buffers and the edges of epoll move between any two.  Time  *)
(* is the number of idle scans since a client was last active.              *)
(***************************************************************************)
EXTENDS Naturals, Sequences, FiniteSetsExt

CONSTANTS
    Conns,        \* connections that peers open, each once
    MaxClients,   \* UDS_MAX_CLIENTS
    Fds,          \* file descriptors free for clients, positive numbers
    InputCap,     \* units that fit in client->input
    SendCap,      \* units that fit in the socket's send buffer
    IdleScans,    \* scans after which a silent client is closed
    MaxSend,      \* bound: units a peer sends
    NoClient,     \* an unused descriptor
    Faults        \* subset of FaultKinds

(* "accept": accept4 fails although a connection waits; "reject": the peer's
   uid or the allocation of the client fails; "io": read, send or epoll_ctl
   fails; "memory": there is no memory for a reply.                        *)
FaultKinds == {"accept", "reject", "io", "memory"}

Flag     == {0, 1}
Listener == 0
Input    == {"part", "query", "stop", "blank"}
Command  == Input \ {"part"}
Unit     == {"query", "stop", "error"}       \* what replies consist of
Event    == {"in", "out", "hup"}

(* uds_client_t *)
Client == [conn : Conns, state : {"READING", "WRITING"}, len : 0 .. InputCap - 1,
           out : Seq(Unit), stop : Flag, age : 0 .. IdleScans - 1]

ASSUME BoundAssumption ==
    /\ Fds \subseteq Nat \ {0} /\ IsFiniteSet(Fds) /\ MaxClients <= Cardinality(Fds)
    /\ MaxClients \in Nat \ {0} /\ InputCap \in Nat \ {0} /\ SendCap \in Nat \ {0}
    /\ IdleScans \in Nat \ {0} /\ MaxSend \in Nat \ {0}
    /\ NoClient \notin Client /\ Faults \subseteq FaultKinds

VARIABLES
    \* the server: client[fd] is the handler registered for fd, with its
    \* uds_client_t; listener 0 is the listening socket
    client, active, loop, running, shutdown,
    accept_failed, \* history: accept4 failed and left connections waiting
    unqueued,      \* history: whose reply the last callback could not queue
    \* epoll: the ready list, and the events of the batch being handled
    ready, batch,
    \* connections: where each is, its buffers, and what its peer saw
    backlog, conn, peer, rx, wire, asked, got, sent

serverVars == <<client, active, loop, running, shutdown, accept_failed, unqueued>>
pollVars   == <<ready, batch>>
peerVars   == <<peer, asked, got, sent>>
vars == <<serverVars, pollVars, backlog, conn, rx, wire, peerVars>>

-----------------------------------------------------------------------------
(* process_command and its handlers: what a command line is answered with.  A
   status is longer than the send buffer, a blank line has no answer.      *)
process_command(cmd) ==
    CASE cmd = "query" -> <<"query", "query">>
      [] cmd = "blank" -> <<>>
      [] OTHER         -> <<cmd>>

TooLong == <<"error">>

(* client_queue_response: what a reply leaves in client->output.  Without memory
   that is nothing; a status, which is first written to memory of its own, may
   also be cut short or replaced by an error.  The handlers go on regardless,
   the one of stop included.                                               *)
client_queue_response(reply) ==
    {reply} \cup (IF "memory" \notin Faults THEN {}
                 ELSE IF reply = process_command("query") THEN {<<>>, <<"query">>, <<"error">>}
                 ELSE {<<>>})

Unqueued(c, reply, out) == unqueued' = IF out = reply THEN {} ELSE {c}

Clients  == {fd \in Fds : client[fd] # NoClient}
FdOf(c)  == {fd \in Clients : client[fd].conn = c}

(* What poll reports on a connection, and what epoll reports of it to a client
   in the given state: a client that writes does not ask for input, and a
   hangup is always reported.                                              *)
Poll(c) ==
      (IF rx[c] # <<>> \/ peer[c] = "closed" THEN {"in"} ELSE {})
    \cup (IF Len(wire[c]) < SendCap \/ peer[c] = "closed" THEN {"out"} ELSE {})
    \cup (IF peer[c] = "closed" THEN {"hup"} ELSE {})
Interest(state) == {"hup"} \cup (IF state = "READING" THEN {"in"} ELSE {"out"})
Reported(fd) == Poll(client[fd].conn) \cap Interest(client[fd].state)

(* The descriptors an event of a connection puts on epoll's ready list. *)
Woken(c, event) ==
    ready \cup {fd \in FdOf(c) : event \in Interest(client[fd].state)}

-----------------------------------------------------------------------------
(* Where reactor_run goes on after a callback: the rest of the batch is handled
   even after reactor_stop, and only then does it look at its running flag. *)
LoopAfter(events, run) ==
    IF events # {} THEN "batch" ELSE IF run = 1 THEN "wait" ELSE "done"

(* The end of a callback: the event is consumed. *)
Handled(b) ==
    /\ batch' = batch \ {b}
    /\ loop' = LoopAfter(batch', running')

(* reactor_remove_fd and uds_client_free: the handler leaves epoll, the client
   leaves the list, and its descriptor may be used again.                  *)
uds_client_free(fd) ==
    /\ client' = [client EXCEPT ![fd] = NoClient]
    /\ active' = IF active > 0 THEN active - 1 ELSE 0
    /\ conn' = [conn EXCEPT ![client[fd].conn] = "closed"]
    /\ ready' = ready \ {fd}

uds_client_close(fd) ==
    /\ uds_client_free(fd)
    /\ unqueued' = {}
    /\ UNCHANGED <<running, shutdown, rx, wire>>

(* A stop whose reply is out: shutdown is requested and the reactor stopped. *)
Stop == running' = 0 /\ shutdown' = 1

StopDue_unacknowledged(cl, left) == cl.stop = 1

StopDue(cl, left) == cl.stop = 1 /\ left = <<>>

Unsent(out, n) == SubSeq(out, n + 1, Len(out))

(* uds_client_flush of client cl at fd: it sends what fits in the send buffer.
   A reply sent in full closes the connection, after a stop has taken effect;
   a peer that is gone loses the reply, and its stop with it.              *)
uds_client_flush(fd, cl) ==
    LET c    == cl.conn
        n    == IF peer[c] = "closed" THEN 0
                ELSE Min({Len(cl.out), SendCap - Len(wire[c])})
        left == Unsent(cl.out, n)
    IN  /\ wire' = [wire EXCEPT ![c] = @ \o SubSeq(cl.out, 1, n)]
        /\ IF StopDue(cl, left) THEN Stop ELSE UNCHANGED <<running, shutdown>>
        /\ \/ /\ left = <<>> \/ peer[c] = "closed" \/ "io" \in Faults
              /\ uds_client_free(fd)
           \/ /\ left # <<>> /\ peer[c] = "open"
              /\ client' = [client EXCEPT ![fd] =
                     [cl EXCEPT !.out = left, !.age = IF n > 0 THEN 0 ELSE @]]
              /\ UNCHANGED <<active, conn, ready>>

(* A client that starts to write the given reply. *)
Answering(cl, reply, stop) ==
    [cl EXCEPT !.state = "WRITING", !.out = reply, !.stop = stop, !.age = 0]

(* The reading half of uds_client_cb: it reads until a newline, a full buffer,
   the end of the input or EAGAIN.                                         *)
ReadCommand(fd) ==
    LET cl    == client[fd]
        c     == cl.conn
        room  == InputCap - cl.len
        input == SubSeq(rx[c], 1, Min({room, Len(rx[c])}))
        lines == {i \in DOMAIN input : input[i] \in Command}
    IN  \/ /\ lines # {}
           /\ LET cmd == input[Min(lines)]
              IN  \E out \in client_queue_response(process_command(cmd)) :
                     /\ uds_client_flush(fd, Answering(cl, out,
                                                       IF cmd = "stop" THEN 1 ELSE 0))
                     /\ Unqueued(c, process_command(cmd), out)
           /\ rx' = [rx EXCEPT ![c] = SubSeq(@, Len(input) + 1, Len(@))]
        \/ /\ lines = {} /\ Len(input) = room
           /\ \E out \in client_queue_response(TooLong) :
                 /\ client' = [client EXCEPT ![fd] = Answering(cl, out, 0)]
                 /\ Unqueued(c, TooLong, out)
           /\ rx' = [rx EXCEPT ![c] = SubSeq(@, Len(input) + 1, Len(@))]
           /\ ready' = ready \cup {fd}
           /\ UNCHANGED <<active, conn, wire, running, shutdown>>
        \/ /\ lines = {} /\ Len(input) < room /\ peer[c] = "open"
           /\ client' = [client EXCEPT ![fd] = [cl EXCEPT
                  !.len = @ + Len(input), !.age = IF input = <<>> THEN @ ELSE 0]]
           /\ rx' = [rx EXCEPT ![c] = <<>>]
           /\ unqueued' = {}
           /\ UNCHANGED <<active, conn, ready, wire, running, shutdown>>
        \/ /\ \/ lines = {} /\ Len(input) < room /\ peer[c] = "closed"
              \/ "io" \in Faults
           /\ uds_client_close(fd)

(* uds_client_cb.  An event whose handler is gone is dropped by reactor_run. *)
uds_client_cb(b) ==
    LET fd == b.fd
    IN  /\ b \in batch /\ loop = "batch" /\ fd # Listener
        /\ \/ /\ client[fd] = NoClient
              /\ unqueued' = {}
              /\ UNCHANGED <<client, active, conn, ready, rx, wire, running, shutdown>>
           \/ /\ client[fd] # NoClient /\ "hup" \in b.events /\ "in" \notin b.events
              /\ uds_client_close(fd)
           \/ /\ client[fd] # NoClient /\ client[fd].state = "WRITING"
              /\ b.events = {"out"}
              /\ uds_client_flush(fd, client[fd])
              /\ unqueued' = {}
              /\ UNCHANGED rx
           \/ /\ client[fd] # NoClient /\ client[fd].state = "READING"
              /\ "in" \in b.events
              /\ ReadCommand(fd)
        /\ Handled(b)
        /\ UNCHANGED <<accept_failed, backlog, peerVars>>

-----------------------------------------------------------------------------
(* uds_accept_cb: one connection a step, until accept4 has no more. *)
ListenerEvent ==
    /\ loop = "batch"
    /\ \E b \in batch : b.fd = Listener /\ batch' = batch \ {b}
    /\ loop' = "accept"
    /\ UNCHANGED <<client, active, running, shutdown, accept_failed, unqueued, ready,
                   backlog, conn, rx, wire, peerVars>>

(* A connection over the limit, of a foreign user, without memory or that
   epoll refuses is closed at once.                                        *)
Refuse ==
    /\ loop = "accept" /\ backlog # <<>>
    /\ active >= MaxClients \/ {"reject", "io"} \cap Faults # {}
    /\ conn' = [conn EXCEPT ![Head(backlog)] = "closed"]
    /\ backlog' = Tail(backlog)
    /\ UNCHANGED <<serverVars, pollVars, rx, wire, peerVars>>

(* A new client takes the lowest free descriptor; adding it to epoll reports
   what the peer sent while it was in the backlog.                         *)
Accept ==
    LET c == Head(backlog)
        fd == Min(Fds \ Clients)
    IN  /\ loop = "accept" /\ backlog # <<>> /\ active < MaxClients
        /\ client' = [client EXCEPT ![fd] =
               [conn |-> c, state |-> "READING", len |-> 0, out |-> <<>>,
                stop |-> 0, age |-> 0]]
        /\ active' = active + 1
        /\ conn' = [conn EXCEPT ![c] = "open"]
        /\ backlog' = Tail(backlog)
        /\ ready' = IF "in" \in Poll(c) THEN ready \cup {fd} ELSE ready
        /\ UNCHANGED <<loop, running, shutdown, accept_failed, unqueued, batch, rx, wire,
                       peerVars>>

AcceptEnds_after_one ==
    /\ loop = "accept"
    /\ loop' = LoopAfter(batch, running)
    /\ UNCHANGED <<client, active, running, shutdown, accept_failed, unqueued, pollVars,
                   backlog, conn, rx, wire, peerVars>>

(* accept4 returns EAGAIN, or fails and leaves the rest in the backlog. *)
AcceptEnds ==
    /\ loop = "accept"
    /\ backlog = <<>> \/ "accept" \in Faults
    /\ accept_failed' = IF backlog = <<>> THEN accept_failed ELSE 1
    /\ loop' = LoopAfter(batch, running)
    /\ UNCHANGED <<client, active, running, shutdown, unqueued, pollVars, backlog, conn,
                   rx, wire, peerVars>>

-----------------------------------------------------------------------------
(* epoll_wait in reactor_run: the descriptors on the ready list are reported
   with what is true of them now, and leave the list (EPOLLET).            *)
EpollWait ==
    LET events == {[fd |-> fd, conn |-> client[fd].conn, events |-> Reported(fd)] :
                      fd \in {f \in ready \ {Listener} : Reported(f) # {}}}
        incoming == IF Listener \in ready /\ backlog # <<>>
                    THEN {[fd |-> Listener, conn |-> Listener, events |-> {"in"}]} ELSE {}
    IN  /\ loop = "wait" /\ events \cup incoming # {}
        /\ batch' = events \cup incoming
        /\ ready' = {}
        /\ loop' = "batch"
        /\ UNCHANGED <<client, active, running, shutdown, accept_failed, unqueued, backlog,
                       conn, rx, wire, peerVars>>

Idle(cl) == cl.age + 1 >= IdleScans

CloseIdle_readers ==
    LET idle == {fd \in Clients : Idle(client[fd]) /\ client[fd].state = "READING"}
    IN  /\ client' = [fd \in Fds |->
               IF fd \in idle \/ client[fd] = NoClient THEN NoClient
               ELSE [client[fd] EXCEPT !.age = Min({@ + 1, IdleScans - 1})]]
        /\ active' = active - Cardinality(idle)
        /\ conn' = [c \in Conns |-> IF FdOf(c) \cap idle # {} THEN "closed" ELSE conn[c]]
        /\ ready' = ready \ idle
        /\ UNCHANGED <<loop, running, shutdown, accept_failed, unqueued, batch, backlog, rx,
                       wire, peerVars>>

CloseIdle ==
    LET idle == {fd \in Clients : Idle(client[fd])}
    IN  /\ client' = [fd \in Fds |->
               IF fd \in idle \/ client[fd] = NoClient THEN NoClient
               ELSE [client[fd] EXCEPT !.age = Min({@ + 1, IdleScans})]]
        /\ active' = active - Cardinality(idle)
        /\ conn' = [c \in Conns |-> IF FdOf(c) \cap idle # {} THEN "closed" ELSE conn[c]]
        /\ ready' = ready \ idle
        /\ UNCHANGED <<loop, running, shutdown, accept_failed, unqueued, batch, backlog, rx,
                       wire, peerVars>>

uds_idle_timer_cb_between_events == loop \in {"wait", "batch"} /\ CloseIdle

(* uds_idle_timer_cb; process_expired_timers runs before epoll_wait only. *)
uds_idle_timer_cb == loop = "wait" /\ CloseIdle

(* SIGTERM, through the reactor's signalfd. *)
SignalStop ==
    /\ loop = "wait" /\ running = 1
    /\ running' = 0 /\ shutdown' = 1 /\ loop' = "done"
    /\ UNCHANGED <<client, active, accept_failed, unqueued, pollVars, backlog, conn, rx, wire,
                   peerVars>>

(* uds_cleanup: every client is closed, then the listening socket, and with it
   the connections nobody accepted.                                        *)
uds_cleanup ==
    /\ loop = "done" /\ loop' = "cleaned"
    /\ client' = [fd \in Fds |-> NoClient]
    /\ active' = active - Cardinality(Clients)
    /\ conn' = [c \in Conns |-> IF conn[c] \in {"open", "backlog"} THEN "closed" ELSE conn[c]]
    /\ backlog' = <<>> /\ ready' = {}
    /\ UNCHANGED <<accept_failed, unqueued, running, shutdown, batch, rx, wire, peerVars>>

-----------------------------------------------------------------------------
(* The peers: external programs such as the command line tool. *)
Connect(c) ==
    /\ conn[c] = "none" /\ loop # "cleaned"
    /\ conn' = [conn EXCEPT ![c] = "backlog"]
    /\ peer' = [peer EXCEPT ![c] = "open"]
    /\ backlog' = Append(backlog, c)
    /\ ready' = ready \cup {Listener}
    /\ UNCHANGED <<serverVars, batch, rx, wire, asked, got, sent>>

Send(c, unit) ==
    /\ peer[c] = "open" /\ conn[c] \in {"backlog", "open"} /\ sent[c] < MaxSend
    /\ asked[c] = "none"
    /\ sent' = [sent EXCEPT ![c] = @ + 1]
    /\ rx' = [rx EXCEPT ![c] = Append(@, unit)]
    /\ asked' = [asked EXCEPT ![c] = IF unit \in Command THEN unit ELSE @]
    /\ ready' = Woken(c, "in")
    /\ UNCHANGED <<serverVars, batch, backlog, conn, wire, peer, got>>

Receive(c) ==
    /\ peer[c] = "open" /\ wire[c] # <<>>
    /\ got' = [got EXCEPT ![c] = Append(@, Head(wire[c]))]
    /\ wire' = [wire EXCEPT ![c] = Tail(@)]
    /\ ready' = Woken(c, "out")
    /\ UNCHANGED <<serverVars, batch, backlog, conn, rx, peer, asked, sent>>

HangUp(c) ==
    /\ peer[c] = "open" /\ conn[c] \in {"backlog", "open"}
    /\ peer' = [peer EXCEPT ![c] = "closed"]
    /\ wire' = [wire EXCEPT ![c] = <<>>]
    /\ ready' = Woken(c, "hup")
    /\ UNCHANGED <<serverVars, batch, backlog, conn, rx, asked, got, sent>>

Peers == \E c \in Conns : \/ Connect(c) \/ Receive(c) \/ HangUp(c)
                          \/ \E unit \in Input : Send(c, unit)

-----------------------------------------------------------------------------
(* uds_init has registered the listening socket and the scan timer. *)
Init ==
    /\ client = [fd \in Fds |-> NoClient] /\ active = 0
    /\ loop = "wait" /\ running = 1 /\ shutdown = 0 /\ accept_failed = 0
    /\ unqueued = {}
    /\ ready = {} /\ batch = {} /\ backlog = <<>>
    /\ conn = [c \in Conns |-> "none"] /\ peer = [c \in Conns |-> "none"]
    /\ rx = [c \in Conns |-> <<>>] /\ wire = [c \in Conns |-> <<>>]
    /\ asked = [c \in Conns |-> "none"] /\ got = [c \in Conns |-> <<>>]
    /\ sent = [c \in Conns |-> 0]

Server == \/ EpollWait \/ ListenerEvent \/ Refuse \/ Accept \/ AcceptEnds
          \/ \E b \in batch : uds_client_cb(b)
          \/ uds_cleanup

Next == Server \/ uds_idle_timer_cb \/ SignalStop \/ Peers

Spec == Init /\ [][Next]_vars

(* The reactor runs, and its repeating timer expires whenever it waits. *)
FairSpec == Spec /\ WF_vars(Server) /\ WF_vars(uds_idle_timer_cb)

-----------------------------------------------------------------------------
(* Properties. *)

\* The types of the variables.
TypeOK ==
    /\ client \in [Fds -> Client \cup {NoClient}] /\ active \in Nat
    /\ loop \in {"wait", "batch", "accept", "done", "cleaned"}
    /\ running \in Flag /\ shutdown \in Flag /\ accept_failed \in Flag
    /\ unqueued \subseteq Conns
    /\ ready \subseteq Fds \cup {Listener}
    /\ batch \subseteq [fd : Fds \cup {Listener}, conn : Conns \cup {Listener},
                       events : SUBSET Event]
    /\ backlog \in Seq(Conns) /\ conn \in [Conns -> {"none", "backlog", "open", "closed"}]
    /\ peer \in [Conns -> {"none", "open", "closed"}] /\ rx \in [Conns -> Seq(Input)]
    /\ wire \in [Conns -> Seq(Unit)] /\ got \in [Conns -> Seq(Unit)]
    /\ asked \in [Conns -> Command \cup {"none"}] /\ sent \in [Conns -> Nat]
    /\ \A c \in Conns : Len(wire[c]) <= SendCap

(* The client table is exact: the counter that limits it is the number of
   clients and never exceeds UDS_MAX_CLIENTS, and a connection is held by one
   client as long as it is open, however clients come and go; uds_cleanup
   leaves neither.                                                         *)
ClientsAccounted ==
    /\ TypeOK
    /\ loop = "cleaned" => active = 0 /\ \A c \in Conns : conn[c] \in {"none", "closed"}
    /\ active = Cardinality(Clients) /\ active <= MaxClients
    /\ \A c \in Conns : conn[c] = "open" <=> \E fd \in Clients : client[fd].conn = c
    /\ \A f, g \in Clients : client[f].conn = client[g].conn => f = g

(* No edge is lost although every socket is edge-triggered: what a client could
   act on is on the ready list or in the batch, and so is a waiting connection,
   unless accept4 has failed.                                              *)
NoLostEdge ==
    loop # "cleaned" =>
       /\ \A fd \in Clients :
             Reported(fd) # {} => fd \in ready \/ \E b \in batch : b.fd = fd
       /\ \/ backlog = <<>> \/ Listener \in ready \/ loop = "accept"
          \/ \E b \in batch : b.fd = Listener
          \/ accept_failed = 1

(* Every peer is attended to: it has its slot (ClientsAccounted) and what it
   sends or can take raises an event that is handled (NoLostEdge).         *)
ClientsServed == ClientsAccounted /\ NoLostEdge

(* An event is never delivered to another connection than the one it is about,
   although descriptors are closed and reused inside a batch (reactor_run
   looks handlers up by descriptor only).                                  *)
BatchFresh ==
    \A b \in batch : b.fd # Listener /\ client[b.fd] # NoClient =>
                        client[b.fd].conn = b.conn

IsPrefix(s, t) == Len(s) <= Len(t) /\ \A i \in 1 .. Len(s) : s[i] = t[i]

(* A peer sees its own reply and nothing else: a prefix of the answer to its
   command, or of an error line.                                           *)
ReplyMatches ==
    \A c \in Conns :
       \/ asked[c] # "none" /\ IsPrefix(got[c] \o wire[c], process_command(asked[c]))
       \/ IsPrefix(got[c] \o wire[c], <<"error">>)

(* Events and replies reach the connection they are about: BatchFresh for what
   goes in, ReplyMatches for what comes out.                               *)
RepliesMatch == BatchFresh /\ ReplyMatches

(* A stop command takes effect only for a peer that asked for it, and when its
   whole reply has been handed to the socket of that peer, who is still there:
   a reply that waits for room, fails or is hung up on holds the stop back or
   cancels it.  The one exception is a reply for which this very callback found
   no memory: handle_stop does not look at what client_queue_string did, and
   uds_client_flush takes an empty reply for one that was sent.            *)
StopAcknowledged ==
    [][loop = "batch" /\ shutdown' # shutdown =>
         \E c \in Conns : /\ asked[c] = "stop"
                          /\ \/ /\ peer[c] = "open"
                                /\ got[c] \o wire'[c] = process_command("stop")
                             \/ c \in unqueued']_vars

(* No connection keeps its slot for ever: silent, half-sent, stalled or gone,
   every accepted client is closed in the end.                             *)
ClientEnds == \A c \in Conns : conn[c] = "open" ~> conn[c] # "open"

=============================================================================
