----------------------------- MODULE UdsLemmas ------------------------------
(***************************************************************************)
(* The inductive invariant of Uds, UdsInv, and what UdsProofs needs of the *)
(* steps.  First the steps that leave the clients alone: the dispatch loop *)
(* of reactor_run, a connection that is refused, and the peers.  Then what *)
(* a call of uds_client_cb reads, answers and writes (CallbackEffect).     *)
(***************************************************************************)
EXTENDS Uds, WellFoundedInduction, TLAPS

-----------------------------------------------------------------------------
(* The inductive invariant. *)

(* The connections that wait to be accepted wait once. *)
BacklogInv ==
    /\ \A i \in 1 .. Len(backlog) : conn[backlog[i]] = "backlog"
    /\ \A i, j \in 1 .. Len(backlog) : backlog[i] = backlog[j] => i = j

(* The events of a batch are about different descriptors, and about the clients
   that still hold them; between batches there are none.  Nor is a descriptor
   ready that nobody holds.                                                *)
BatchInv ==
    /\ ready \subseteq Clients \cup {Listener}
    /\ \A b \in batch : b.fd # Listener =>
          client[b.fd] # NoClient /\ client[b.fd].conn = b.conn
    /\ \A a, b \in batch : a.fd = b.fd => a = b
    /\ loop \in {"wait", "done", "cleaned"} => batch = {}

(* A command line that waits to be read is the one the peer asked. *)
AskedInv ==
    \A c \in Conns :
       /\ conn[c] = "none" <=> peer[c] = "none"
       /\ \A i \in 1 .. Len(rx[c]) : rx[c][i] \in Command => rx[c][i] = asked[c]

(* A client that reads has nothing to write, and one that is to stop the daemon
   has the answer to the stop of its peer to write.                        *)
ClientInv ==
    \A fd \in Clients :
       /\ client[fd].state = "READING" =>
             /\ client[fd].out = <<>> /\ client[fd].stop = 0
             /\ got[client[fd].conn] = <<>> /\ wire[client[fd].conn] = <<>>
       /\ client[fd].stop = 1 =>
             /\ asked[client[fd].conn] = "stop"
             /\ client[fd].out # <<>> /\ client[fd].out[1] = "stop"

(* The reply a connection may be given consists of n units u. *)
Owed(c, u, n) ==
    \/ u = "error" /\ n = 1
    \/ u = "query" /\ n = 2 /\ asked[c] = "query"
    \/ u = "stop" /\ n = 1 /\ asked[c] = "stop"

Of(s, u) == \A i \in 1 .. Len(s) : s[i] = u

(* What a peer has, what is on its way and what its client still has to send
   are together no more than one such reply.                               *)
ReplyOf(c, u, n) ==
    /\ Owed(c, u, n) /\ Of(got[c], u) /\ Of(wire[c], u)
    /\ Len(got[c]) + Len(wire[c]) <= n
    /\ \A fd \in Clients : client[fd].conn = c =>
          Of(client[fd].out, u) /\ Len(got[c]) + Len(wire[c]) + Len(client[fd].out) <= n

ReplyInv ==
    \A c \in Conns :
       /\ \E u \in Unit, n \in 1 .. 2 : ReplyOf(c, u, n)
       /\ conn[c] \in {"none", "backlog"} => got[c] = <<>> /\ wire[c] = <<>>

UdsInv ==
    /\ ClientsAccounted /\ BacklogInv /\ BatchInv /\ NoLostEdge
    /\ AskedInv /\ ClientInv /\ ReplyInv

-----------------------------------------------------------------------------
(* Constants and types. *)

LEMMA Bounds ==
    /\ Fds \subseteq Nat /\ Listener \notin Fds
    /\ InputCap \in Nat /\ InputCap > 0 /\ SendCap \in Nat /\ SendCap > 0
    /\ MaxClients \in Nat /\ IdleScans \in Nat /\ IdleScans > 0
    /\ NoClient \notin Client
BY BoundAssumption DEF Listener

\* The types of what a client's connection has.
LEMMA ConnTypes ==
    ASSUME TypeOK, NEW c \in Conns
    PROVE  /\ rx[c] \in Seq(Input) /\ wire[c] \in Seq(Unit) /\ got[c] \in Seq(Unit)
           /\ Len(rx[c]) \in Nat /\ Len(wire[c]) \in Nat /\ Len(got[c]) \in Nat
           /\ Len(wire[c]) <= SendCap
           /\ peer[c] \in {"none", "open", "closed"}
           /\ asked[c] \in Command \cup {"none"}
BY DEF TypeOK

\* A registered handler is a client with a connection.
LEMMA ClientTypes ==
    ASSUME TypeOK, NEW fd \in Clients
    PROVE  fd \in Fds /\ client[fd] \in Client /\ client[fd].conn \in Conns
BY Zenon DEF TypeOK, Clients, Client

-----------------------------------------------------------------------------
(* The other steps of the event loop preserve the invariant. *)

\* What says nothing about the loop is kept by a step that only moves it.
LEMMA LoopFrame ==
    ASSUME UdsInv, UNCHANGED <<client, active, conn, peer, rx, wire, asked, got>>
    PROVE  /\ AskedInv' /\ ClientInv' /\ ReplyInv'
           /\ Clients' = Clients /\ \A f \in Clients : Reported(f)' = Reported(f)
           /\ TypeOK' /\ loop' # "cleaned" => ClientsAccounted'
           /\ backlog' = backlog => BacklogInv'
<1>1. AskedInv /\ ClientInv /\ ReplyInv /\ BacklogInv /\ ClientsAccounted
  BY Zenon DEF UdsInv
<1>2. Clients' = Clients
  BY Zenon DEF Clients
<1>3. \A f \in Clients : Reported(f)' = Reported(f)
  BY Zenon DEF Reported, Poll
<1>4. AskedInv' /\ ClientInv'
  BY <1>1, <1>2, Zenon DEF AskedInv, ClientInv
<1>5. ReplyInv'
  <2>1. ASSUME NEW c \in Conns, NEW u \in Unit, NEW n \in 1 .. 2, ReplyOf(c, u, n)
        PROVE  ReplyOf(c, u, n)'
    BY <1>2, <2>1, Zenon DEF ReplyOf, Owed
  <2> QED BY <1>1, <2>1, Zenon DEF ReplyInv
<1>6. TypeOK' /\ loop' # "cleaned" => ClientsAccounted'
  BY <1>1, <1>2, Zenon DEF ClientsAccounted
<1>7. backlog' = backlog => BacklogInv'
  BY <1>1, Zenon DEF BacklogInv
<1> QED BY <1>2, <1>3, <1>4, <1>5, <1>6, <1>7, Zenon

\* epoll_wait reports each descriptor once, with the client that holds it.
LEMMA EpollWaitKeeps ==
    ASSUME UdsInv, EpollWait
    PROVE  UdsInv'
<1> DEFINE report(f) == [fd |-> f, conn |-> client[f].conn, events |-> Reported(f)]
           fds == {f \in ready \ {Listener} : Reported(f) # {}}
           events == {report(f) : f \in fds}
           hello == [fd |-> Listener, conn |-> Listener, events |-> {"in"}]
           incoming == IF Listener \in ready /\ backlog # <<>> THEN {hello} ELSE {}
<1>1. /\ loop = "wait" /\ batch' = events \cup incoming /\ ready' = {} /\ loop' = "batch"
      /\ UNCHANGED <<client, active, running, shutdown, accept_failed, unqueued, backlog,
                     conn, rx, wire, peer, asked, got, sent>>
  BY Zenon DEF EpollWait, peerVars
<1>2. /\ TypeOK /\ NoLostEdge /\ Listener \notin Fds
  BY Bounds, Zenon DEF UdsInv, ClientsAccounted
<1>3. /\ AskedInv' /\ ClientInv' /\ ReplyInv' /\ BacklogInv'
      /\ Clients' = Clients /\ \A f \in Clients : Reported(f)' = Reported(f)
      /\ TypeOK' /\ loop' # "cleaned" => ClientsAccounted'
  BY <1>1, LoopFrame, Zenon
<1>4. ASSUME NEW f \in fds
      PROVE  f \in Clients /\ f # Listener /\ client[f].conn \in Conns /\ f \in Fds
             /\ client[f] # NoClient /\ Reported(f) \in SUBSET Event
  <2>1. f \in Clients
    BY Zenon DEF UdsInv, BatchInv
  <2>2. Reported(f) \in SUBSET Event
    BY Zenon DEF Reported, Poll, Interest, Event
  <2> QED BY <1>2, <2>1, <2>2, ClientTypes, Zenon DEF Clients
<1> HIDE DEF fds
<1>5. ASSUME NEW a \in batch'
      PROVE  (\E f \in fds : a = report(f)) \/ (a = hello /\ Listener \in ready /\ backlog # <<>>)
  BY <1>1, Zenon
<1>6. ASSUME NEW f \in fds PROVE report(f).fd = f /\ report(f).conn = client[f].conn
  BY Zenon
<1>7. hello.fd = Listener
  BY Zenon
<1>8. batch' \subseteq [fd : Fds \cup {Listener}, conn : Conns \cup {Listener},
                        events : SUBSET Event]
  <2>1. ASSUME NEW f \in fds
        PROVE  report(f) \in [fd : Fds \cup {Listener}, conn : Conns \cup {Listener},
                              events : SUBSET Event]
    BY <1>4, Zenon
  <2>2. hello \in [fd : Fds \cup {Listener}, conn : Conns \cup {Listener},
                   events : SUBSET Event]
    BY Zenon DEF Event
  <2> HIDE DEF report, hello
  <2> QED BY <1>5, <2>1, <2>2, Zenon
<1>9. BatchInv'
  <2>1. ASSUME NEW a \in batch', a.fd # Listener
        PROVE  client'[a.fd] # NoClient /\ client'[a.fd].conn = a.conn
    <3>1. PICK f \in fds : a = report(f)
      BY <1>5, <1>7, <2>1, Zenon
    <3> HIDE DEF report
    <3> QED BY <1>1, <1>4, <1>6, <3>1, Zenon
  <2>2. ASSUME NEW a1 \in batch', NEW a2 \in batch', a1.fd = a2.fd PROVE a1 = a2
    <3> HIDE DEF report, hello
    <3> QED BY <1>4, <1>5, <1>6, <1>7, <2>2
  <2> QED BY <1>1, <2>1, <2>2, Zenon DEF BatchInv
<1>10. NoLostEdge'
  <2>1. ASSUME NEW f \in Clients, Reported(f) # {} PROVE \E a \in batch' : a.fd = f
    <3>1. f \in ready
      BY <1>1, <1>2, <2>1, Zenon DEF NoLostEdge, UdsInv, BatchInv
    <3>2. f \in fds
      BY <1>2, <2>1, <3>1, Zenon DEF fds, Clients
    <3>3. report(f) \in batch'
      BY <1>1, <3>2, Zenon
    <3> HIDE DEF report
    <3> QED BY <1>6, <3>2, <3>3, Zenon
  <2>2. backlog = <<>> \/ accept_failed = 1 \/ \E a \in batch' : a.fd = Listener
    <3>1. backlog = <<>> \/ Listener \in ready \/ accept_failed = 1
      BY <1>1, <1>2, Zenon DEF NoLostEdge, UdsInv, BatchInv
    <3>2. Listener \in ready /\ backlog # <<>> => hello \in batch'
      BY <1>1, Zenon
    <3> HIDE DEF hello
    <3> QED BY <1>7, <3>1, <3>2, Zenon
  <2> QED BY <1>1, <1>3, <2>1, <2>2, Zenon DEF NoLostEdge
<1>11. TypeOK'
  BY <1>1, <1>2, <1>8, Zenon DEF TypeOK
<1> QED BY <1>1, <1>3, <1>9, <1>10, <1>11, Zenon DEF UdsInv

\* uds_accept_cb starts.
LEMMA ListenerEventKeeps ==
    ASSUME UdsInv, ListenerEvent
    PROVE  UdsInv'
<1>1. PICK b \in batch : b.fd = Listener /\ batch' = batch \ {b}
  BY Zenon DEF ListenerEvent
<1>2. /\ loop = "batch" /\ loop' = "accept"
      /\ UNCHANGED <<client, active, running, shutdown, accept_failed, unqueued, ready, backlog,
                     conn, rx, wire, peer, asked, got, sent>>
  BY Zenon DEF ListenerEvent, peerVars
<1>3. /\ AskedInv' /\ ClientInv' /\ ReplyInv' /\ BacklogInv'
      /\ Clients' = Clients /\ \A f \in Clients : Reported(f)' = Reported(f)
      /\ TypeOK' /\ loop' # "cleaned" => ClientsAccounted'
  BY <1>2, LoopFrame, Zenon
<1>4. TypeOK /\ BatchInv /\ NoLostEdge /\ Clients \subseteq Fds /\ Listener \notin Fds
  BY Bounds, Zenon DEF UdsInv, ClientsAccounted, Clients
<1>5. TypeOK'
  BY <1>1, <1>2, <1>4, Zenon DEF TypeOK
<1>6. BatchInv'
  BY <1>1, <1>2, <1>3, <1>4, Zenon DEF BatchInv
<1>7. NoLostEdge'
  <2>1. ASSUME NEW f \in Clients, Reported(f) # {}
        PROVE  f \in ready' \/ \E a \in batch' : a.fd = f
    BY <1>1, <1>2, <1>4, <2>1, Zenon DEF NoLostEdge
  <2> QED BY <1>2, <1>3, <2>1, Zenon DEF NoLostEdge
<1> QED BY <1>2, <1>3, <1>5, <1>6, <1>7, Zenon DEF UdsInv

\* accept4 has no more, or fails.
LEMMA AcceptEndsKeeps ==
    ASSUME UdsInv, AcceptEnds
    PROVE  UdsInv'
<1>1. /\ loop = "accept" /\ loop' = LoopAfter(batch, running)
      /\ accept_failed' = IF backlog = <<>> THEN accept_failed ELSE 1
      /\ UNCHANGED <<client, active, running, shutdown, unqueued, ready, batch, backlog,
                     conn, rx, wire, peer, asked, got, sent>>
  BY Zenon DEF AcceptEnds, pollVars, peerVars
<1>2. loop' \in {"wait", "batch", "done"} /\ (loop' # "batch" => batch = {})
  BY <1>1, Zenon DEF LoopAfter
<1>3. /\ AskedInv' /\ ClientInv' /\ ReplyInv' /\ BacklogInv'
      /\ Clients' = Clients /\ \A f \in Clients : Reported(f)' = Reported(f)
      /\ TypeOK' /\ loop' # "cleaned" => ClientsAccounted'
  BY <1>1, LoopFrame, Zenon
<1>4. TypeOK /\ BatchInv /\ NoLostEdge
  BY Zenon DEF UdsInv, ClientsAccounted
<1>5. TypeOK'
  BY <1>1, <1>2, <1>4, Zenon DEF TypeOK, Flag
<1>6. BatchInv'
  BY <1>1, <1>2, <1>3, <1>4, Zenon DEF BatchInv
<1>7. NoLostEdge'
  BY <1>1, <1>3, <1>4, Zenon DEF NoLostEdge
<1> QED BY <1>2, <1>3, <1>5, <1>6, <1>7, Zenon DEF UdsInv

\* SIGTERM.
LEMMA SignalStopKeeps ==
    ASSUME UdsInv, SignalStop
    PROVE  UdsInv'
<1>1. /\ loop = "wait" /\ loop' = "done" /\ running' = 0 /\ shutdown' = 1
      /\ UNCHANGED <<client, active, accept_failed, unqueued, ready, batch, backlog,
                     conn, rx, wire, peer, asked, got, sent>>
  BY Zenon DEF SignalStop, pollVars, peerVars
<1>2. /\ AskedInv' /\ ClientInv' /\ ReplyInv' /\ BacklogInv'
      /\ Clients' = Clients /\ \A f \in Clients : Reported(f)' = Reported(f)
      /\ TypeOK' /\ loop' # "cleaned" => ClientsAccounted'
  BY <1>1, LoopFrame, Zenon
<1>3. TypeOK /\ BatchInv /\ NoLostEdge
  BY Zenon DEF UdsInv, ClientsAccounted
<1>4. TypeOK'
  BY <1>1, <1>3, Zenon DEF TypeOK, Flag
<1>5. BatchInv'
  BY <1>1, <1>2, <1>3, Zenon DEF BatchInv
<1>6. NoLostEdge'
  BY <1>1, <1>2, <1>3, Zenon DEF NoLostEdge
<1> QED BY <1>1, <1>2, <1>4, <1>5, <1>6, Zenon DEF UdsInv

\* The first connection of the backlog, and the others.
LEMMA BacklogTail ==
    ASSUME TypeOK, BacklogInv, backlog # <<>>
    PROVE  /\ Head(backlog) \in Conns /\ conn[Head(backlog)] = "backlog"
           /\ Tail(backlog) \in Seq(Conns)
           /\ \A i \in 1 .. Len(Tail(backlog)) :
                 /\ Tail(backlog)[i] \in Conns /\ Tail(backlog)[i] # Head(backlog)
                 /\ conn[Tail(backlog)[i]] = "backlog"
           /\ \A i, j \in 1 .. Len(Tail(backlog)) : Tail(backlog)[i] = Tail(backlog)[j] => i = j
<1> DEFINE t == Tail(backlog)
<1>1. backlog \in Seq(Conns) /\ Len(backlog) \in Nat /\ Len(backlog) >= 1
  BY DEF TypeOK
<1>2. Head(backlog) = backlog[1] /\ 1 \in 1 .. Len(backlog) /\ backlog[1] \in Conns
  BY <1>1
<1>3. /\ t \in Seq(Conns) /\ Len(t) = Len(backlog) - 1
      /\ \A i \in 1 .. Len(backlog) - 1 : t[i] = backlog[i + 1]
  BY <1>1
<1> HIDE DEF t
<1>4. ASSUME NEW i \in 1 .. Len(t)
      PROVE  i + 1 \in 1 .. Len(backlog) /\ t[i] = backlog[i + 1] /\ i + 1 # 1 /\ i \in Nat
  BY <1>1, <1>3
<1>5. ASSUME NEW i \in 1 .. Len(t)
      PROVE  t[i] \in Conns /\ t[i] # Head(backlog) /\ conn[t[i]] = "backlog"
  <2>1. i + 1 \in 1 .. Len(backlog) /\ t[i] = backlog[i + 1] /\ i + 1 # 1
    BY <1>4, Zenon
  <2>2. backlog[i + 1] \in Conns
    BY <1>1, <2>1
  <2>3. conn[backlog[i + 1]] = "backlog" /\ backlog[i + 1] # backlog[1]
    BY <1>2, <2>1, Zenon DEF BacklogInv
  <2> QED BY <1>2, <2>1, <2>2, <2>3, Zenon
<1>6. ASSUME NEW i \in 1 .. Len(t), NEW j \in 1 .. Len(t), t[i] = t[j] PROVE i = j
  <2>1. i + 1 = j + 1
    BY <1>4, <1>6 DEF BacklogInv
  <2> QED BY <1>4, <2>1
<1>7. conn[Head(backlog)] = "backlog"
  BY <1>2, Zenon DEF BacklogInv
<1> QED BY <1>2, <1>3, <1>5, <1>6, <1>7, Zenon DEF t

\* A connection that is refused leaves the backlog.
LEMMA RefuseKeeps ==
    ASSUME UdsInv, Refuse
    PROVE  UdsInv'
<1> PICK c : c = Head(backlog)
  BY Zenon
<1>1. /\ loop = "accept" /\ backlog # <<>> /\ conn' = [conn EXCEPT ![c] = "closed"]
      /\ backlog' = Tail(backlog)
      /\ UNCHANGED <<client, active, loop, running, shutdown, accept_failed, unqueued, ready, batch,
                     rx, wire, peer, asked, got, sent>>
  BY Zenon DEF Refuse, serverVars, pollVars, peerVars
<1>2. /\ TypeOK /\ ClientsAccounted /\ BacklogInv /\ BatchInv /\ NoLostEdge
      /\ AskedInv /\ ClientInv /\ ReplyInv
  BY Zenon DEF UdsInv, ClientsAccounted
<1>3. /\ c \in Conns /\ conn[c] = "backlog" /\ backlog' \in Seq(Conns)
      /\ \A i \in 1 .. Len(backlog') :
            backlog'[i] \in Conns /\ backlog'[i] # c /\ conn[backlog'[i]] = "backlog"
      /\ \A i, j \in 1 .. Len(backlog') : backlog'[i] = backlog'[j] => i = j
  BY <1>1, <1>2, BacklogTail, Zenon
<1>4. /\ conn' \in [Conns -> {"none", "backlog", "open", "closed"}] /\ conn'[c] = "closed"
      /\ \A d \in Conns : d # c => conn'[d] = conn[d]
  BY <1>1, <1>2, <1>3, Zenon DEF TypeOK
<1>5. Clients' = Clients /\ \A f \in Clients : Reported(f)' = Reported(f)
  BY <1>1, Zenon DEF Clients, Reported, Poll
<1>6. TypeOK'
  BY <1>1, <1>2, <1>3, <1>4, Zenon DEF TypeOK
<1>7. ClientsAccounted'
  <2>1. \A d \in Conns : conn'[d] = "open" <=> conn[d] = "open"
    BY <1>3, <1>4, Zenon
  <2> QED BY <1>1, <1>2, <1>5, <1>6, <2>1 DEF ClientsAccounted
<1>8. BacklogInv'
  BY <1>3, <1>4, Zenon DEF BacklogInv
<1>9. BatchInv' /\ NoLostEdge'
  BY <1>1, <1>2, <1>5, Zenon DEF BatchInv, NoLostEdge
<1>10. AskedInv'
  BY <1>1, <1>2, <1>3, <1>4 DEF AskedInv
<1>11. ClientInv'
  BY <1>1, <1>2, <1>5, Zenon DEF ClientInv
<1>12. ReplyInv'
  <2>1. ASSUME NEW d \in Conns, NEW u \in Unit, NEW n \in 1 .. 2, ReplyOf(d, u, n)
        PROVE  ReplyOf(d, u, n)'
    BY <1>1, <1>5, <2>1, Zenon DEF ReplyOf, Owed
  <2>2. ASSUME NEW d \in Conns, conn'[d] \in {"none", "backlog"}
        PROVE  got'[d] = <<>> /\ wire'[d] = <<>>
    BY <1>1, <1>2, <1>4, <2>2, Zenon DEF ReplyInv
  <2> QED BY <1>2, <2>1, <2>2, Zenon DEF ReplyInv
<1> QED BY <1>7, <1>8, <1>9, <1>10, <1>11, <1>12, Zenon DEF UdsInv

-----------------------------------------------------------------------------
(* The peers preserve the invariant. *)

\* A peer that only touches connection c wakes the client that holds it.
LEMMA WokenUp ==
    ASSUME UdsInv, NEW c \in Conns, NEW event \in Event,
           UNCHANGED <<serverVars, batch, backlog, conn>>, TypeOK',
           ready' = Woken(c, event),
           \A d \in Conns : d # c => rx'[d] = rx[d] /\ wire'[d] = wire[d] /\ peer'[d] = peer[d],
           \A e \in Event : e \in Poll(c)' /\ e \notin Poll(c) => e = event \/ event = "hup"
    PROVE  ClientsAccounted' /\ BacklogInv' /\ BatchInv' /\ NoLostEdge' /\ Clients' = Clients
<1>1. /\ UNCHANGED <<client, active, loop, running, shutdown, accept_failed, unqueued, batch, backlog,
                   conn>>
  BY Zenon DEF serverVars
<1>2. /\ TypeOK /\ ClientsAccounted /\ BacklogInv /\ BatchInv /\ NoLostEdge
  BY Zenon DEF UdsInv, ClientsAccounted
<1>3. Clients' = Clients
  BY <1>1, Zenon DEF Clients
<1>4. ClientsAccounted' /\ BacklogInv'
  BY <1>1, <1>2, <1>3 DEF ClientsAccounted, BacklogInv
<1>5. BatchInv'
  <2>1. ready' \subseteq Clients \cup {Listener}
    BY <1>2, Zenon DEF Woken, FdOf, BatchInv
  <2> QED BY <1>1, <1>2, <1>3, <2>1, Zenon DEF BatchInv
<1>6. ready \subseteq ready'
  BY Zenon DEF Woken
<1>7. ASSUME NEW f \in Clients, Reported(f)' # {}, loop # "cleaned"
      PROVE  f \in ready' \/ \E b \in batch' : b.fd = f
  <2>1. client[f].conn \in Conns /\ client'[f] = client[f]
    BY <1>1, <1>2, ClientTypes, Zenon
  <2>2. CASE Reported(f) # {}
    BY <1>1, <1>2, <1>6, <1>7, <2>2, Zenon DEF NoLostEdge
  <2>3. CASE Reported(f) = {}
    <3>1. PICK e : e \in Poll(client[f].conn)' /\ e \in Interest(client[f].state)
      BY <1>7, <2>1, Zenon DEF Reported
    <3>2. e \notin Poll(client[f].conn) /\ e \in Event
      BY <2>3, <3>1, Zenon DEF Reported, Interest, Event
    <3>3. client[f].conn = c
      <4>1. ASSUME client[f].conn # c PROVE Poll(client[f].conn)' = Poll(client[f].conn)
        BY <1>1, <2>1, <4>1, Zenon DEF Poll
      <4> QED BY <3>1, <3>2, <4>1, Zenon
    <3>4. e = event \/ event = "hup"
      BY <1>1, <3>1, <3>2, <3>3, Zenon
    <3>5. event \in Interest(client[f].state)
      BY <3>1, <3>4, Zenon DEF Interest
    <3> QED BY <3>3, <3>5, Zenon DEF Woken, FdOf
  <2> QED BY <2>2, <2>3, Zenon
<1>8. NoLostEdge'
  BY <1>1, <1>2, <1>3, <1>6, <1>7, Zenon DEF NoLostEdge
<1> QED BY <1>3, <1>4, <1>5, <1>8, Zenon

\* A connection enters the backlog.
LEMMA ConnectKeeps ==
    ASSUME UdsInv, NEW c \in Conns, Connect(c)
    PROVE  UdsInv'
<1>1. /\ conn[c] = "none" /\ loop # "cleaned" /\ conn' = [conn EXCEPT ![c] = "backlog"]
      /\ peer' = [peer EXCEPT ![c] = "open"] /\ backlog' = Append(backlog, c)
      /\ ready' = ready \cup {Listener}
      /\ UNCHANGED <<client, active, loop, running, shutdown, accept_failed, unqueued, batch,
                     rx, wire, asked, got, sent>>
  BY Zenon DEF Connect, serverVars
<1>2. /\ TypeOK /\ ClientsAccounted /\ BacklogInv /\ BatchInv /\ NoLostEdge
      /\ AskedInv /\ ClientInv /\ ReplyInv
  BY Zenon DEF UdsInv, ClientsAccounted
<1>3. /\ conn' \in [Conns -> {"none", "backlog", "open", "closed"}] /\ conn'[c] = "backlog"
      /\ peer' \in [Conns -> {"none", "open", "closed"}] /\ peer'[c] = "open"
      /\ \A d \in Conns : d # c => conn'[d] = conn[d] /\ peer'[d] = peer[d]
  BY <1>1, <1>2, Zenon DEF TypeOK
<1>4. Clients' = Clients
  BY <1>1, Zenon DEF Clients
<1>5. ASSUME NEW f \in Clients
      PROVE  client[f].conn \in Conns /\ client[f].conn # c /\ Reported(f)' = Reported(f)
  <2>1. client[f].conn \in Conns
    BY <1>2, ClientTypes, Zenon
  <2>2. conn[client[f].conn] = "open"
    BY <1>2, <2>1, Zenon DEF ClientsAccounted
  <2>3. client[f].conn # c
    BY <1>1, <2>2, Zenon
  <2> QED BY <1>1, <1>3, <2>1, <2>3, Zenon DEF Reported, Poll
<1>6. /\ backlog' \in Seq(Conns) /\ Len(backlog') = Len(backlog) + 1 /\ Len(backlog) \in Nat
      /\ backlog'[Len(backlog) + 1] = c
      /\ \A i \in 1 .. Len(backlog) : backlog'[i] = backlog[i]
  BY <1>1, <1>2 DEF TypeOK
<1>7. TypeOK'
  BY <1>1, <1>2, <1>3, <1>6, Zenon DEF TypeOK
<1>8. ClientsAccounted'
  <2>1. \A d \in Conns : conn'[d] = "open" <=> conn[d] = "open"
    BY <1>1, <1>3, Zenon
  <2> QED BY <1>1, <1>2, <1>4, <1>7, <2>1, Zenon DEF ClientsAccounted
<1>9. BacklogInv'
  <2>1. ASSUME NEW i \in 1 .. Len(backlog)
        PROVE  backlog[i] \in Conns /\ backlog[i] # c /\ conn'[backlog[i]] = "backlog"
    <3>1. backlog[i] \in Conns /\ conn[backlog[i]] = "backlog"
      <4>1. backlog \in Seq(Conns)
        BY <1>2, Zenon DEF TypeOK
      <4> QED BY <1>2, <4>1 DEF BacklogInv
    <3> QED BY <1>1, <1>3, <3>1, Zenon
  <2>2. ASSUME NEW i \in 1 .. Len(backlog') PROVE i \in 1 .. Len(backlog) \/ i = Len(backlog) + 1
    BY <1>6
  <2>3. \A i \in 1 .. Len(backlog') : conn'[backlog'[i]] = "backlog"
    BY <1>3, <1>6, <2>1, <2>2, Zenon
  <2>4. ASSUME NEW i \in 1 .. Len(backlog'), NEW j \in 1 .. Len(backlog'),
               backlog'[i] = backlog'[j]
        PROVE  i = j
    BY <1>2, <1>6, <2>1, <2>2, <2>4 DEF BacklogInv
  <2> QED BY <2>3, <2>4, Zenon DEF BacklogInv
<1>10. BatchInv'
  BY <1>1, <1>2, <1>4, Zenon DEF BatchInv
<1>11. NoLostEdge'
  BY <1>1, <1>2, <1>4, <1>5, Zenon DEF NoLostEdge
<1>12. AskedInv'
  BY <1>1, <1>2, <1>3 DEF AskedInv
<1>13. ClientInv'
  BY <1>1, <1>2, <1>4, Zenon DEF ClientInv
<1>14. ReplyInv'
  <2>1. ASSUME NEW d \in Conns, NEW u \in Unit, NEW n \in 1 .. 2, ReplyOf(d, u, n)
        PROVE  ReplyOf(d, u, n)'
    BY <1>1, <1>4, <2>1, Zenon DEF ReplyOf, Owed
  <2>2. ASSUME NEW d \in Conns, conn'[d] \in {"none", "backlog"}
        PROVE  got'[d] = <<>> /\ wire'[d] = <<>>
    BY <1>1, <1>2, <1>3, <2>2 DEF ReplyInv
  <2> QED BY <1>2, <2>1, <2>2, Zenon DEF ReplyInv
<1> QED BY <1>8, <1>9, <1>10, <1>11, <1>12, <1>13, <1>14, Zenon DEF UdsInv

\* A peer sends a unit of input, or its one command.
LEMMA SendKeeps ==
    ASSUME UdsInv, NEW c \in Conns, NEW unit \in Input, Send(c, unit)
    PROVE  UdsInv'
<1>1. /\ asked[c] = "none" /\ sent' = [sent EXCEPT ![c] = @ + 1]
      /\ rx' = [rx EXCEPT ![c] = Append(@, unit)]
      /\ asked' = [asked EXCEPT ![c] = IF unit \in Command THEN unit ELSE @]
      /\ ready' = Woken(c, "in") /\ UNCHANGED <<serverVars, batch, backlog, conn>>
      /\ UNCHANGED <<client, active, loop, running, shutdown, accept_failed, unqueued, wire, peer, got>>
  BY Zenon DEF Send, serverVars
<1>2. TypeOK /\ AskedInv /\ ClientInv /\ ReplyInv
  BY Zenon DEF UdsInv, ClientsAccounted
<1>3. /\ rx' \in [Conns -> Seq(Input)] /\ rx'[c] = Append(rx[c], unit)
      /\ asked' \in [Conns -> Command \cup {"none"}]
      /\ asked'[c] = IF unit \in Command THEN unit ELSE "none"
      /\ \A d \in Conns : d # c => rx'[d] = rx[d] /\ asked'[d] = asked[d]
  <2>1. Append(rx[c], unit) \in Seq(Input)
    BY <1>2, ConnTypes
  <2>2. rx' \in [Conns -> Seq(Input)] /\ rx'[c] = Append(rx[c], unit)
        /\ \A d \in Conns : d # c => rx'[d] = rx[d]
    BY <1>1, <1>2, <2>1, Zenon DEF TypeOK
  <2>3. /\ asked' \in [Conns -> Command \cup {"none"}]
        /\ asked'[c] = IF unit \in Command THEN unit ELSE "none"
        /\ \A d \in Conns : d # c => asked'[d] = asked[d]
    BY <1>1, <1>2, Zenon DEF TypeOK
  <2> QED BY <2>2, <2>3, Zenon
<1>4. TypeOK'
  <2>1. ready' \subseteq Fds \cup {Listener}
    BY <1>1, <1>2, Zenon DEF TypeOK, Woken, FdOf, Clients
  <2>2. sent' \in [Conns -> Nat]
    BY <1>1, <1>2 DEF TypeOK
  <2> QED BY <1>1, <1>2, <1>3, <2>1, <2>2, Zenon DEF TypeOK
<1>5. ClientsAccounted' /\ BacklogInv' /\ BatchInv' /\ NoLostEdge' /\ Clients' = Clients
  <2>1. \A e \in Event : e \in Poll(c)' /\ e \notin Poll(c) => e = "in" \/ "in" = "hup"
    BY <1>1, Zenon DEF Poll, Event
  <2>2. "in" \in Event
    BY Zenon DEF Event
  <2> QED BY <1>1, <1>3, <1>4, <2>1, <2>2, WokenUp, Zenon
<1>6. AskedInv'
  <2>1. ASSUME NEW i \in 1 .. Len(rx'[c]), rx'[c][i] \in Command PROVE rx'[c][i] = asked'[c]
    <3>1. rx[c] \in Seq(Input) /\ Len(rx[c]) \in Nat
      BY <1>2, ConnTypes, Zenon
    <3>2. CASE i \in 1 .. Len(rx[c])
      <4>1. rx'[c][i] = rx[c][i]
        BY <1>3, <3>1, <3>2
      <4>2. rx[c][i] = "none"
        BY <1>1, <1>2, <2>1, <3>2, <4>1, Zenon DEF AskedInv
      <4> QED BY <2>1, <4>1, <4>2, Zenon DEF Command, Input
    <3>3. CASE i = Len(rx[c]) + 1
      <4>1. rx'[c][i] = unit
        BY <1>3, <3>1, <3>3
      <4> QED BY <1>3, <2>1, <4>1, Zenon
    <3> QED BY <1>3, <3>1, <3>2, <3>3
  <2> QED BY <1>1, <1>2, <1>3, <2>1 DEF AskedInv
<1>7. ASSUME NEW d \in Conns, asked[d] # "none" PROVE asked'[d] = asked[d]
  BY <1>1, <1>3, <1>7, Zenon
<1>8. ClientInv'
  <2>1. \A f \in Clients : client[f].conn \in Conns
    BY <1>2, ClientTypes, Zenon
  <2> QED BY <1>1, <1>2, <1>5, <1>7, <2>1, Zenon DEF ClientInv
<1>9. ReplyInv'
  <2>1. ASSUME NEW d \in Conns, NEW u \in Unit, NEW n \in 1 .. 2, ReplyOf(d, u, n)
        PROVE  ReplyOf(d, u, n)'
    <3>1. Owed(d, u, n)'
      BY <1>7, <2>1, Zenon DEF ReplyOf, Owed
    <3> QED BY <1>1, <1>5, <2>1, <3>1, Zenon DEF ReplyOf
  <2> QED BY <1>1, <1>2, <2>1, Zenon DEF ReplyInv
<1> QED BY <1>5, <1>6, <1>8, <1>9, Zenon DEF UdsInv

\* A reply of at most two units.
LEMMA ShortReply ==
    ASSUME NEW s \in Seq(Unit), NEW u \in Unit, Of(s, u), NEW n \in 1 .. 2, Len(s) <= n
    PROVE  IsPrefix(s, IF n = 1 THEN <<u>> ELSE <<u, u>>)
BY DEF Of, IsPrefix

\* A unit that moves from the wire to the peer does not change their sum.
LEMMA UnitMoves ==
    ASSUME NEW g \in Nat, NEW w \in Nat, w > 0
    PROVE  (g + 1) + (w - 1) = g + w /\ w - 1 < w /\ w - 1 \in Nat
OBVIOUS

\* What is lost makes a sum no larger.
LEMMA UnitsLost ==
    ASSUME NEW g \in Nat, NEW w \in Nat, NEW n \in 1 .. 2, g + w <= n
    PROVE  /\ g + 0 <= n
           /\ \A o \in Nat : g + w + o <= n => g + 0 + o <= n
OBVIOUS

\* A peer takes a unit of its reply off the wire.
LEMMA TakesUnit ==
    ASSUME NEW g \in Seq(Unit), NEW w \in Seq(Unit), w # <<>>
    PROVE  /\ Append(g, Head(w)) \in Seq(Unit) /\ Tail(w) \in Seq(Unit)
           /\ Len(Append(g, Head(w))) = Len(g) + 1 /\ Len(Tail(w)) = Len(w) - 1
           /\ Len(g) \in Nat /\ Len(w) \in Nat /\ Len(w) > 0
           /\ \A u \in Unit : Of(g, u) /\ Of(w, u) =>
                                 Of(Append(g, Head(w)), u) /\ Of(Tail(w), u)
<1>1. Len(g) \in Nat /\ Len(w) \in Nat /\ Len(w) > 0 /\ Head(w) = w[1] /\ w[1] \in Unit
  OBVIOUS
<1>2. /\ Append(g, Head(w)) \in Seq(Unit) /\ Len(Append(g, Head(w))) = Len(g) + 1
      /\ Tail(w) \in Seq(Unit) /\ Len(Tail(w)) = Len(w) - 1
  BY <1>1
<1>3. ASSUME NEW u \in Unit, Of(g, u), Of(w, u)
      PROVE  Of(Append(g, Head(w)), u) /\ Of(Tail(w), u)
  <2>1. Of(Append(g, Head(w)), u)
    BY <1>1, <1>2, <1>3 DEF Of
  <2>2. ASSUME NEW i \in 1 .. Len(Tail(w)) PROVE Tail(w)[i] = u
    <3>1. i + 1 \in 1 .. Len(w) /\ Tail(w)[i] = w[i + 1]
      BY <1>1, <1>2
    <3> QED BY <1>3, <3>1, Zenon DEF Of
  <2> QED BY <2>1, <2>2, Zenon DEF Of
<1> QED BY <1>1, <1>2, <1>3, Zenon

\* A peer receives.
LEMMA ReceiveKeeps ==
    ASSUME UdsInv, NEW c \in Conns, Receive(c)
    PROVE  UdsInv'
<1>1. /\ wire[c] # <<>> /\ got' = [got EXCEPT ![c] = Append(@, Head(wire[c]))]
      /\ wire' = [wire EXCEPT ![c] = Tail(@)]
      /\ ready' = Woken(c, "out") /\ UNCHANGED <<serverVars, batch, backlog, conn>>
      /\ UNCHANGED <<client, active, loop, running, shutdown, accept_failed, unqueued, rx, peer,
                     asked, sent>>
  BY Zenon DEF Receive, serverVars
<1>2. TypeOK /\ AskedInv /\ ClientInv /\ ReplyInv
  BY Zenon DEF UdsInv, ClientsAccounted
<1>3. /\ wire[c] \in Seq(Unit) /\ got[c] \in Seq(Unit) /\ Len(wire[c]) <= SendCap
  BY <1>2, ConnTypes, Zenon
<1>4. /\ Append(got[c], Head(wire[c])) \in Seq(Unit) /\ Tail(wire[c]) \in Seq(Unit)
      /\ Len(Append(got[c], Head(wire[c]))) = Len(got[c]) + 1
      /\ Len(Tail(wire[c])) = Len(wire[c]) - 1
      /\ Len(got[c]) \in Nat /\ Len(wire[c]) \in Nat /\ Len(wire[c]) > 0
      /\ \A u \in Unit : Of(got[c], u) /\ Of(wire[c], u) =>
                            Of(Append(got[c], Head(wire[c])), u) /\ Of(Tail(wire[c]), u)
  BY <1>1, <1>3, TakesUnit, Zenon
<1>5. /\ wire' \in [Conns -> Seq(Unit)] /\ got' \in [Conns -> Seq(Unit)]
      /\ wire'[c] = Tail(wire[c]) /\ got'[c] = Append(got[c], Head(wire[c]))
      /\ \A d \in Conns : d # c => wire'[d] = wire[d] /\ got'[d] = got[d]
  BY <1>1, <1>2, <1>4, Zenon DEF TypeOK
<1>6. Len(got'[c]) + Len(wire'[c]) = Len(got[c]) + Len(wire[c]) /\ Len(wire'[c]) < Len(wire[c])
      /\ Len(wire'[c]) \in Nat
  <2>1. Len(got'[c]) = Len(got[c]) + 1 /\ Len(wire'[c]) = Len(wire[c]) - 1
    BY <1>4, <1>5, Zenon
  <2>2. Len(got[c]) \in Nat /\ Len(wire[c]) \in Nat /\ Len(wire[c]) > 0
    BY <1>4, Zenon
  <2>3. (Len(got[c]) + 1) + (Len(wire[c]) - 1) = Len(got[c]) + Len(wire[c])
        /\ Len(wire[c]) - 1 < Len(wire[c]) /\ Len(wire[c]) - 1 \in Nat
    BY <2>2, UnitMoves, Zenon
  <2> QED BY <2>1, <2>3, Zenon
<1>7. TypeOK'
  <2>1. ready' \subseteq Fds \cup {Listener}
    BY <1>1, <1>2, Zenon DEF TypeOK, Woken, FdOf, Clients
  <2>2. \A d \in Conns : Len(wire'[d]) <= SendCap
    <3>1. Len(wire'[c]) <= SendCap
      BY <1>3, <1>4, <1>6, Bounds
    <3> QED BY <1>2, <1>5, <3>1, Zenon DEF TypeOK
  <2> QED BY <1>1, <1>2, <1>5, <2>1, <2>2, Zenon DEF TypeOK
<1>8. ClientsAccounted' /\ BacklogInv' /\ BatchInv' /\ NoLostEdge' /\ Clients' = Clients
  <2>1. \A e \in Event : e \in Poll(c)' /\ e \notin Poll(c) => e = "out" \/ "out" = "hup"
    BY <1>1, Zenon DEF Poll, Event
  <2>2. "out" \in Event
    BY Zenon DEF Event
  <2> QED BY <1>1, <1>5, <1>7, <2>1, <2>2, WokenUp, Zenon
<1>9. AskedInv'
  BY <1>1, <1>2, Zenon DEF AskedInv
<1>10. ClientInv'
  <2>1. ASSUME NEW f \in Clients, client[f].state = "READING" PROVE client[f].conn # c
    <3>1. wire[client[f].conn] = <<>>
      BY <1>2, <2>1, Zenon DEF ClientInv
    <3>2. wire[c] # <<>>
      BY <1>1, Zenon
    <3> QED BY <3>1, <3>2, Zenon
  <2>2. \A f \in Clients : client[f].conn \in Conns
    BY <1>2, ClientTypes, Zenon
  <2> QED BY <1>1, <1>2, <1>5, <1>8, <2>1, <2>2, Zenon DEF ClientInv
<1>11. ReplyInv'
  <2>1. ASSUME NEW d \in Conns, NEW u \in Unit, NEW n \in 1 .. 2, ReplyOf(d, u, n)
        PROVE  ReplyOf(d, u, n)'
    <3>1. Owed(d, u, n)'
      BY <1>1, <2>1, Zenon DEF ReplyOf, Owed
    <3>2. CASE d # c
      BY <1>1, <1>5, <1>8, <2>1, <3>1, <3>2, Zenon DEF ReplyOf
    <3>3. CASE d = c
      <4>1. Of(got'[c], u) /\ Of(wire'[c], u)
        BY <1>4, <1>5, <2>1, <3>3, Zenon DEF ReplyOf
      <4> QED BY <1>1, <1>6, <1>8, <2>1, <3>1, <3>3, <4>1, Zenon DEF ReplyOf
    <3> QED BY <3>2, <3>3, Zenon
  <2>2. ASSUME NEW d \in Conns, conn'[d] \in {"none", "backlog"}
        PROVE  got'[d] = <<>> /\ wire'[d] = <<>>
    <3>1. conn[d] \in {"none", "backlog"}
      BY <1>1, <2>2, Zenon
    <3>2. wire[d] = <<>> /\ got[d] = <<>>
      BY <1>2, <3>1, Zenon DEF ReplyInv
    <3> QED BY <1>1, <1>5, <3>2, Zenon
  <2> QED BY <1>2, <2>1, <2>2, Zenon DEF ReplyInv
<1> QED BY <1>8, <1>9, <1>10, <1>11, Zenon DEF UdsInv

\* A peer goes away, and what was on its way is lost.
LEMMA HangUpKeeps ==
    ASSUME UdsInv, NEW c \in Conns, HangUp(c)
    PROVE  UdsInv'
<1>1. /\ peer[c] = "open" /\ peer' = [peer EXCEPT ![c] = "closed"]
      /\ wire' = [wire EXCEPT ![c] = <<>>]
      /\ ready' = Woken(c, "hup") /\ UNCHANGED <<serverVars, batch, backlog, conn>>
      /\ UNCHANGED <<client, active, loop, running, shutdown, accept_failed, unqueued, rx,
                     asked, got, sent>>
  BY Zenon DEF HangUp, serverVars
<1>2. TypeOK /\ AskedInv /\ ClientInv /\ ReplyInv
  BY Zenon DEF UdsInv, ClientsAccounted
<1>3. /\ wire' \in [Conns -> Seq(Unit)] /\ wire'[c] = <<>>
      /\ peer' \in [Conns -> {"none", "open", "closed"}] /\ peer'[c] = "closed"
      /\ \A d \in Conns : d # c => wire'[d] = wire[d] /\ peer'[d] = peer[d]
  BY <1>1, <1>2 DEF TypeOK
<1>4. TypeOK'
  <2>1. ready' \subseteq Fds \cup {Listener}
    BY <1>1, <1>2, Zenon DEF TypeOK, Woken, FdOf, Clients
  <2>2. \A d \in Conns : Len(wire'[d]) <= SendCap
    <3>1. Len(wire'[c]) = 0
      BY <1>3
    <3>2. 0 <= SendCap
      BY Bounds
    <3> QED BY <1>2, <1>3, <3>1, <3>2, Zenon DEF TypeOK
  <2> QED BY <1>1, <1>2, <1>3, <2>1, <2>2, Zenon DEF TypeOK
<1>5. ClientsAccounted' /\ BacklogInv' /\ BatchInv' /\ NoLostEdge' /\ Clients' = Clients
  <2>1. "hup" \in Event
    BY Zenon DEF Event
  <2> QED BY <1>1, <1>3, <1>4, <2>1, WokenUp, Zenon
<1>6. AskedInv'
  BY <1>1, <1>2, <1>3 DEF AskedInv
<1>7. ClientInv'
  <2>1. \A f \in Clients : client[f].conn \in Conns
    BY <1>2, ClientTypes, Zenon
  <2> QED BY <1>1, <1>2, <1>3, <1>5, <2>1, Zenon DEF ClientInv
<1>8. ReplyInv'
  <2>1. ASSUME NEW d \in Conns, NEW u \in Unit, NEW n \in 1 .. 2, ReplyOf(d, u, n)
        PROVE  ReplyOf(d, u, n)'
    <3>1. Owed(d, u, n)'
      BY <1>1, <2>1, Zenon DEF ReplyOf, Owed
    <3>2. CASE d # c
      BY <1>1, <1>3, <1>5, <2>1, <3>1, <3>2, Zenon DEF ReplyOf
    <3>3. CASE d = c
      <4>1. /\ got[c] \in Seq(Unit) /\ wire[c] \in Seq(Unit)
            /\ Len(got[c]) \in Nat /\ Len(wire[c]) \in Nat /\ Of(got[c], u)
            /\ Len(got[c]) + Len(wire[c]) <= n
        BY <1>2, <2>1, <3>3, ConnTypes, Zenon DEF ReplyOf
      <4>2. Of(wire'[c], u) /\ Len(wire'[c]) = 0
        BY <1>3 DEF Of
      <4>3. /\ Len(got[c]) + 0 <= n
            /\ \A o \in Nat : Len(got[c]) + Len(wire[c]) + o <= n => Len(got[c]) + 0 + o <= n
        BY <4>1, UnitsLost, Zenon
      <4>4. ASSUME NEW f \in Clients, client[f].conn = c
            PROVE  Of(client[f].out, u)
                   /\ Len(got[c]) + Len(wire'[c]) + Len(client[f].out) <= n
        <5>1. client[f].out \in Seq(Unit) /\ Len(client[f].out) \in Nat
          BY <1>2, ClientTypes DEF Client
        <5>2. Of(client[f].out, u) /\ Len(got[c]) + Len(wire[c]) + Len(client[f].out) <= n
          BY <2>1, <3>3, <4>4, Zenon DEF ReplyOf
        <5>3. Len(got[c]) + 0 + Len(client[f].out) <= n
          BY <4>1, <4>3, <5>1, <5>2, Zenon
        <5> QED BY <4>2, <5>2, <5>3, Zenon
      <4> QED BY <1>1, <1>5, <3>1, <3>3, <4>1, <4>2, <4>3, <4>4, Zenon DEF ReplyOf
    <3> QED BY <3>2, <3>3, Zenon
  <2>2. ASSUME NEW d \in Conns, conn'[d] \in {"none", "backlog"}
        PROVE  got'[d] = <<>> /\ wire'[d] = <<>>
    BY <1>1, <1>2, <1>3, <2>2, Zenon DEF ReplyInv
  <2> QED BY <1>2, <2>1, <2>2, Zenon DEF ReplyInv
<1> QED BY <1>5, <1>6, <1>7, <1>8, Zenon DEF UdsInv

-----------------------------------------------------------------------------
(* Sets and sequences. *)

\* The minimum of a set of naturals (a descriptor, the first line) is in the set.
LEMMA LeastNat ==
    ASSUME NEW S \in SUBSET Nat, S # {}
    PROVE  Min(S) \in S
<1>1. PICK x \in S : \A y \in S : ~(<<y, x>> \in OpToRel(<, Nat))
  BY WFMin, NatLessThanWellFounded, Zenon
<1>2. ASSUME NEW y \in S PROVE x <= y
  <2>1. <<y, x>> \notin {ss \in Nat \X Nat : ss[1] < ss[2]}
    BY <1>1, Zenon DEF OpToRel
  <2> QED BY <2>1
<1> QED BY <1>2, Zenon DEF Min

\* The minimum of two numbers.
LEMMA LesserNat ==
    ASSUME NEW a \in Nat, NEW b \in Nat
    PROVE  /\ Min({a, b}) = IF a <= b THEN a ELSE b
           /\ Min({a, b}) \in 0 .. b /\ (Min({a, b}) < a => Min({a, b}) = b)
<1>1. Min({a, b}) = IF a <= b THEN a ELSE b
  BY DEF Min
<1> QED BY <1>1

\* Input that leaves room in the buffer is within it.
LEMMA RoomLeft ==
    ASSUME NEW l \in Nat, NEW r \in Nat, NEW k \in Nat, k < r
    PROVE  l + k \in 0 .. (l + r) - 1
OBVIOUS

\* A reply is split into what is sent and what is left.
LEMMA SplitReply ==
    ASSUME NEW s \in Seq(Unit), NEW n \in 0 .. Len(s)
    PROVE  /\ SubSeq(s, 1, n) \in Seq(Unit) /\ Len(SubSeq(s, 1, n)) = n
           /\ \A i \in 1 .. n : SubSeq(s, 1, n)[i] = s[i]
           /\ Unsent(s, n) \in Seq(Unit) /\ Len(Unsent(s, n)) = Len(s) - n
           /\ \A i \in 1 .. Len(s) - n : Unsent(s, n)[i] = s[i + n]
<1>1. Len(s) \in Nat /\ n \in Nat /\ n <= Len(s)
  OBVIOUS
<1>2. /\ SubSeq(s, 1, n) \in Seq(Unit) /\ Len(SubSeq(s, 1, n)) = n
      /\ \A i \in 1 .. n : SubSeq(s, 1, n)[i] = s[i]
  BY <1>1
<1>3. /\ Unsent(s, n) \in Seq(Unit) /\ Len(Unsent(s, n)) = Len(s) - n
  BY <1>1 DEF Unsent
<1>4. ASSUME NEW i \in 1 .. Len(s) - n PROVE Unsent(s, n)[i] = s[i + n]
  BY <1>1 DEF Unsent
<1> QED BY <1>2, <1>3, <1>4, Zenon

\* Two parts of one reply, one after the other.
LEMMA JoinReply ==
    ASSUME NEW s \in Seq(Unit), NEW t \in Seq(Unit), NEW u, Of(s, u), Of(t, u)
    PROVE  s \o t \in Seq(Unit) /\ Len(s \o t) = Len(s) + Len(t) /\ Of(s \o t, u)
<1>1. Len(s) \in Nat /\ Len(t) \in Nat
  OBVIOUS
<1>2. s \o t \in Seq(Unit) /\ Len(s \o t) = Len(s) + Len(t)
  OBVIOUS
<1>3. ASSUME NEW i \in 1 .. Len(s) + Len(t) PROVE (s \o t)[i] = u
  <2>1. CASE i <= Len(s)
    BY <1>1, <2>1 DEF Of
  <2>2. CASE i > Len(s)
    <3>1. i - Len(s) \in 1 .. Len(t) /\ (s \o t)[i] = t[i - Len(s)]
      BY <1>1, <2>2
    <3> QED BY <3>1, Zenon DEF Of
  <2> QED BY <1>1, <2>1, <2>2
<1> QED BY <1>2, <1>3, Zenon DEF Of

\* A sequence of one unit.
LEMMA OneUnit ==
    ASSUME NEW s \in Seq(Unit), NEW u \in Unit, Len(s) = 1, s[1] = u
    PROVE  s = <<u>>
OBVIOUS

(* The client cl with another output and age. *)
Updated(m, cl, out, age) ==
    /\ m \in Client /\ m.conn = cl.conn /\ m.state = cl.state /\ m.len = cl.len
    /\ m.out = out /\ m.stop = cl.stop /\ m.age = age

\* A client whose output and age change is a client.
LEMMA ClientUpdate ==
    ASSUME NEW cl \in Client, NEW out \in Seq(Unit), NEW age \in 0 .. IdleScans - 1
    PROVE  Updated([cl EXCEPT !.out = out, !.age = age], cl, out, age)
BY Zenon DEF Client, Updated

(* A peer that has g, with w on its way and out to be sent, gets a reply of at
   most n units u.                                                         *)
Parts(g, w, out, u, n) ==
    /\ g \in Seq(Unit) /\ w \in Seq(Unit) /\ out \in Seq(Unit)
    /\ Of(g, u) /\ Of(w, u) /\ Of(out, u)
    /\ Len(g) + Len(w) <= n /\ Len(g) + Len(w) + Len(out) <= n

\* A client that is gone sends nothing more.
LEMMA NothingLeft ==
    ASSUME NEW g, NEW w, NEW out, NEW u \in Unit, NEW n \in Nat, Parts(g, w, out, u, n)
    PROVE  Parts(g, w, <<>>, u, n)
BY DEF Parts, Of

(* After k units of out were sent, sent1 is on its way and left is left. *)
SentOf(g, w, out, u, n, k, sent1, left) ==
    /\ Parts(g, sent1, left, u, n)
    /\ Len(sent1) = Len(w) + k /\ Len(left) = Len(out) - k
    /\ left = <<>> /\ out # <<>> /\ n = 1 => g = <<>> /\ sent1 = <<u>>

\* Moving k units from one part to another leaves the sum.
LEMMA SumKept ==
    ASSUME NEW a \in Nat, NEW b \in Nat, NEW c \in Nat, NEW k \in Nat, NEW n \in Nat,
           k <= c, a + b + c <= n
    PROVE  a + (b + k) <= n /\ a + (b + k) + (c - k) <= n
OBVIOUS

\* Sending k units of a reply leaves its parts in one piece, and a reply of one
\* unit is sent as a whole.
LEMMA PartSent ==
    ASSUME NEW g, NEW w, NEW out, NEW u \in Unit, NEW n \in Nat, Parts(g, w, out, u, n),
           NEW k \in 0 .. Len(out)
    PROVE  SentOf(g, w, out, u, n, k, w \o SubSeq(out, 1, k), Unsent(out, k))
<1> DEFINE sent1 == w \o SubSeq(out, 1, k)
           left  == Unsent(out, k)
<1> USE DEF Parts
<1>0. Len(g) \in Nat /\ Len(w) \in Nat /\ Len(out) \in Nat /\ k \in Nat /\ k <= Len(out)
  OBVIOUS
<1> DEFINE part == SubSeq(out, 1, k)
<1>1. /\ part \in Seq(Unit) /\ Len(part) = k /\ \A i \in 1 .. k : part[i] = out[i]
      /\ left \in Seq(Unit) /\ Len(left) = Len(out) - k
      /\ \A i \in 1 .. Len(out) - k : left[i] = out[i + k]
  BY SplitReply, Zenon
<1>2. Of(part, u) /\ Of(left, u)
  <2>1. ASSUME NEW i \in 1 .. k PROVE out[i] = u
    BY <1>0 DEF Of
  <2>2. ASSUME NEW i \in 1 .. Len(out) - k PROVE out[i + k] = u
    BY <1>0 DEF Of
  <2> QED BY <1>1, <2>1, <2>2, Zenon DEF Of
<1>3. sent1 = w \o part
  BY Zenon
<1> HIDE DEF part, sent1, left
<1>4. /\ sent1 \in Seq(Unit) /\ Len(sent1) = Len(w) + k /\ Of(sent1, u)
  <2>1. /\ w \o part \in Seq(Unit) /\ Len(w \o part) = Len(w) + Len(part)
        /\ Of(w \o part, u)
    BY <1>1, <1>2, JoinReply, Zenon
  <2> QED BY <1>1, <1>3, <2>1, Zenon
<1>5. Len(g) + Len(sent1) <= n /\ Len(g) + Len(sent1) + Len(left) <= n
  <2>1. Len(g) + Len(w) + Len(out) <= n
    BY Zenon
  <2>2. /\ Len(g) + (Len(w) + k) <= n
        /\ Len(g) + (Len(w) + k) + (Len(out) - k) <= n
    BY <1>0, <2>1, SumKept, Zenon
  <2> QED BY <1>1, <1>4, <2>2, Zenon
<1>6. ASSUME left = <<>>, out # <<>>, n = 1 PROVE g = <<>> /\ sent1 = <<u>>
  <2>1. Len(left) = 0 /\ Len(out) # 0
    BY <1>6
  <2>2. Len(g) = 0 /\ Len(w) = 0 /\ k = 1
    BY <2>1, <1>0, <1>1, <1>6
  <2>3. Len(sent1) = 1 /\ sent1[1] = u
    BY <2>2, <1>4 DEF Of
  <2>4. sent1 = <<u>>
    BY <2>3, <1>4, OneUnit, Zenon
  <2>5. g = <<>>
    BY <2>2
  <2> QED BY <2>4, <2>5, Zenon
<1>7. SentOf(g, w, out, u, n, k, sent1, left)
  BY <1>1, <1>2, <1>4, <1>5, <1>6, Zenon DEF SentOf
<1> QED BY <1>7, Zenon DEF sent1, left

\* uds_client_flush sends no more than there is and fits.
LEMMA FitsBuffer ==
    ASSUME NEW o \in Nat, NEW w \in Nat, w <= SendCap, NEW closed \in BOOLEAN,
           NEW k, k = IF closed THEN 0 ELSE Min({o, SendCap - w})
    PROVE  /\ k \in 0 .. o /\ w + k \in Nat /\ w + k <= SendCap
           /\ closed => k = 0
           /\ ~closed => k = o \/ w + k = SendCap
<1>1. SendCap - w \in Nat
  BY Bounds
<1>2. Min({o, SendCap - w}) = IF o <= SendCap - w THEN o ELSE SendCap - w
  BY <1>1, LesserNat, Zenon
<1> QED BY <1>1, <1>2, Bounds

-----------------------------------------------------------------------------
(* What uds_client_cb does to the client at fd, whose connection is c. *)

(* A client that has been given a reply of n units u to write. *)
Writes(cl, u, n) ==
    LET c == cl.conn
    IN  /\ cl \in Client /\ Owed(c, u, n) /\ Parts(got[c], wire[c], cl.out, u, n)
        /\ cl.stop = 1 => asked[c] = "stop" /\ (cl.out # <<>> => cl.out[1] = "stop")

(* The client at fd stays, as m, and has been told of all it can act on. *)
Stays(fd, m) ==
    /\ client' = [client EXCEPT ![fd] = m] /\ m.conn = client[fd].conn
    /\ UNCHANGED <<active, conn>>
    /\ \/ ready' = ready \cup {fd}
       \/ /\ ready' = ready /\ peer[m.conn] # "closed"
          /\ \/ m.state = "READING" /\ rx'[m.conn] = <<>>
             \/ m.state = "WRITING" /\ Len(wire'[m.conn]) = SendCap

(* The client at fd is gone, or has the rest of its reply to write. *)
Written(fd, c, u, n) ==
    /\ Owed(c, u, n) /\ Parts(got[c], wire'[c], <<>>, u, n)
    /\ \/ uds_client_free(fd)
       \/ \E m \in Client :
             /\ Stays(fd, m)
             /\ Parts(got[c], wire'[c], m.out, u, n)
             /\ m.state = "READING" => m.out = <<>> /\ m.stop = 0
                                       /\ got[c] = <<>> /\ wire'[c] = <<>>
             /\ m.stop = 1 => asked[c] = "stop" /\ m.out # <<>> /\ m.out[1] = "stop"

(* What was sent for connection c, from the output out: a stop has the whole of
   its reply sent, or it has none.                                         *)
Flushed(c, out) ==
    /\ wire' = [wire EXCEPT ![c] = wire'[c]]
    /\ wire'[c] \in Seq(Unit) /\ Len(wire'[c]) <= SendCap
    /\ running' \in Flag /\ shutdown' \in Flag
    /\ shutdown' # shutdown =>
          /\ asked[c] = "stop"
          /\ \/ peer[c] = "open" /\ got[c] = <<>> /\ wire'[c] = <<"stop">>
             \/ out = <<>>

(* The same of the callback as a whole, which knows why there is none. *)
Sends(c) ==
    /\ wire' = [wire EXCEPT ![c] = wire'[c]]
    /\ wire'[c] \in Seq(Unit) /\ Len(wire'[c]) <= SendCap
    /\ running' \in Flag /\ shutdown' \in Flag /\ unqueued' \subseteq {c}
    /\ shutdown' # shutdown =>
          /\ asked[c] = "stop"
          /\ \/ peer[c] = "open" /\ got[c] = <<>> /\ wire'[c] = <<"stop">>
             \/ c \in unqueued'

\* uds_client_flush sends a part of the reply, and the whole of a stop's reply,
\* if there is one, before the stop takes effect.
LEMMA FlushWrites ==
    ASSUME TypeOK, AskedInv, NEW fd \in Clients, NEW cl \in Client,
           NEW c \in Conns, c = cl.conn, c = client[fd].conn, conn[c] # "none",
           NEW out \in Seq(Unit), out = cl.out,
           NEW u \in Unit, NEW n \in Nat, Writes(cl, u, n), cl.state = "WRITING",
           uds_client_flush(fd, cl)
    PROVE  Flushed(c, out) /\ Written(fd, c, u, n)
<1> DEFINE k    == IF peer[c] = "closed" THEN 0
                   ELSE Min({Len(out), SendCap - Len(wire[c])})
           left == Unsent(out, k)
           out1 == SubSeq(out, 1, k)
<1>1. /\ cl.stop \in Flag /\ cl.age \in 0 .. IdleScans - 1 /\ Len(out) \in Nat
  BY DEF Client
<1>2. /\ wire[c] \in Seq(Unit) /\ got[c] \in Seq(Unit)
      /\ Len(wire[c]) \in Nat /\ Len(wire[c]) <= SendCap
      /\ peer[c] \in {"open", "closed"}
  <2>1. peer[c] # "none"
    BY Zenon DEF AskedInv
  <2> QED BY <2>1, ConnTypes, Zenon
<1>3. /\ k \in 0 .. Len(out) /\ Len(wire[c]) + k <= SendCap
      /\ peer[c] = "open" => k = Len(out) \/ Len(wire[c]) + k = SendCap
      /\ peer[c] = "closed" => k = 0
  BY <1>1, <1>2, FitsBuffer, Zenon
<1>4. /\ wire' = [wire EXCEPT ![c] = @ \o SubSeq(out, 1, k)]
      /\ IF StopDue(cl, left) THEN Stop ELSE UNCHANGED <<running, shutdown>>
      /\ \/ uds_client_free(fd)
         \/ /\ left # <<>> /\ peer[c] = "open"
            /\ client' = [client EXCEPT ![fd] =
                   [cl EXCEPT !.out = left, !.age = IF k > 0 THEN 0 ELSE @]]
            /\ UNCHANGED <<active, conn, ready>>
  BY Zenon DEF uds_client_flush
<1> HIDE DEF k
<1>5. wire'[c] = wire[c] \o SubSeq(out, 1, k) /\ wire' = [wire EXCEPT ![c] = wire'[c]]
  BY <1>4, Zenon DEF TypeOK
<1>8. /\ Owed(c, u, n)
      /\ cl.stop = 1 => asked[c] = "stop" /\ (out # <<>> => out[1] = "stop")
      /\ Len(out) # 0 => out[1] = u
  BY <1>1 DEF Writes, Parts, Of
<1> DEFINE w2 == wire'[c]
<1>9. w2 = wire[c] \o SubSeq(out, 1, k) /\ left = Unsent(out, k)
  BY <1>5, Zenon
<1> HIDE DEF left, w2
<1>10. /\ Parts(got[c], w2, left, u, n)
       /\ Len(w2) = Len(wire[c]) + k /\ Len(left) = Len(out) - k
       /\ left = <<>> /\ out # <<>> /\ n = 1 => got[c] = <<>> /\ w2 = <<u>>
  <2>1. Parts(got[c], wire[c], out, u, n)
    BY Zenon DEF Writes
  <2>2. SentOf(got[c], wire[c], out, u, n, k, wire[c] \o SubSeq(out, 1, k), Unsent(out, k))
    BY <2>1, <1>3, PartSent, Zenon
  <2> QED BY <2>2, <1>9, Zenon DEF SentOf
<1>11. /\ w2 \in Seq(Unit) /\ Of(w2, u) /\ left \in Seq(Unit) /\ Of(left, u)
       /\ Of(got[c], u) /\ Len(got[c]) + Len(w2) <= n
  BY <1>10, Zenon DEF Parts
<1>12. Flushed(c, out)
  <2>1. running' \in Flag /\ shutdown' \in Flag
    BY <1>4, Zenon DEF Stop, TypeOK, Flag
  <2>2. ASSUME shutdown' # shutdown
        PROVE  /\ asked[c] = "stop"
               /\ out # <<>> => peer[c] = "open" /\ got[c] = <<>> /\ w2 = <<"stop">>
    <3>1. cl.stop = 1 /\ left = <<>>
      BY <1>4, <2>2, Zenon DEF StopDue
    <3>2. asked[c] = "stop" /\ (out # <<>> => out[1] = "stop")
      BY <3>1, <1>8, Zenon
    <3> SUFFICES ASSUME out # <<>>
                 PROVE  peer[c] = "open" /\ got[c] = <<>> /\ w2 = <<"stop">>
      BY <3>2, Zenon
    <3>3. Len(out) # 0 /\ Len(left) = 0
      BY <3>1, <3>2
    <3>4. peer[c] = "open"
      BY <3>3, <1>1, <1>2, <1>3, <1>10
    <3>5. u = "stop" /\ n = 1
      <4>1. u = "stop"
        BY <3>2, <3>3, <1>8, Zenon
      <4> QED BY <4>1, <1>8, Zenon DEF Owed
    <3> QED BY <3>1, <3>2, <3>4, <3>5, <1>10, Zenon
  <2> QED BY <1>3, <1>5, <1>10, <1>11, <2>1, <2>2, Zenon DEF Flushed, w2
<1>13. Written(fd, c, u, n)
  <2>0. Parts(got[c], w2, <<>>, u, n)
    BY <1>10, NothingLeft, Zenon
  <2>1. CASE uds_client_free(fd)
    BY <1>8, <2>0, <2>1, Zenon DEF Written, w2
  <2>2. CASE /\ left # <<>> /\ peer[c] = "open"
             /\ client' = [client EXCEPT ![fd] =
                    [cl EXCEPT !.out = left, !.age = IF k > 0 THEN 0 ELSE @]]
             /\ UNCHANGED <<active, conn, ready>>
    <3> DEFINE age == IF k > 0 THEN 0 ELSE cl.age
               m   == [cl EXCEPT !.out = left, !.age = age]
    <3>0. age \in 0 .. IdleScans - 1
      BY <1>1, Bounds
    <3> HIDE DEF age
    <3>1. /\ m \in Client /\ m.conn = c /\ m.state = "WRITING"
          /\ m.out = left /\ m.stop = cl.stop
      <4>1. Updated(m, cl, left, age)
        BY <3>0, <1>11, ClientUpdate, Zenon
      <4> HIDE DEF m
      <4> QED BY <4>1, Zenon DEF Updated
    <3>2. client' = [client EXCEPT ![fd] = m]
      BY <2>2, Zenon DEF age
    <3> HIDE DEF m
    <3>3. Len(left) # 0 /\ Len(left) \in Nat
      BY <2>2, <1>11
    <3>4. Len(w2) = SendCap
      BY <3>3, <2>2, <1>1, <1>3, <1>10
    <3>5. Stays(fd, m)
      BY <2>2, <3>1, <3>2, <3>4, Zenon DEF Stays, w2
    <3>6. m.stop = 1 => asked[c] = "stop" /\ m.out # <<>> /\ m.out[1] = "stop"
      <4>1. ASSUME m.stop = 1 PROVE asked[c] = "stop" /\ u = "stop"
        <5>1. Len(out) # 0
          BY <3>3, <1>1, <1>3, <1>10
        <5> QED BY <4>1, <5>1, <3>1, <1>1, <1>8
      <4>2. left[1] = u
        BY <3>3, <1>11 DEF Of
      <4> QED BY <2>2, <3>1, <4>1, <4>2, Zenon
    <3> QED BY <3>1, <3>5, <3>6, <2>0, <2>2, <1>8, <1>10, Zenon DEF Written, w2
  <2> QED BY <1>4, <2>1, <2>2, Zenon
<1> QED BY <1>12, <1>13, Zenon

-----------------------------------------------------------------------------
(* What uds_client_cb reads, and its effect as a whole. *)

(* Input of a peer that asked v. *)
Asks(s, v) == s \in Seq(Input) /\ \A i \in 1 .. Len(s) : s[i] \in Command => s[i] = v

\* What is read of the input and what is left of it.
LEMMA SplitInput ==
    ASSUME NEW s, NEW v, Asks(s, v), NEW k \in 0 .. Len(s)
    PROVE  /\ Asks(SubSeq(s, 1, k), v) /\ Len(SubSeq(s, 1, k)) = k
           /\ Asks(SubSeq(s, k + 1, Len(s)), v)
<1>1. s \in Seq(Input) /\ Len(s) \in Nat /\ k \in Nat /\ k <= Len(s)
  BY DEF Asks
<1> DEFINE a == SubSeq(s, 1, k)
           z == SubSeq(s, k + 1, Len(s))
<1>2. /\ a \in Seq(Input) /\ Len(a) = k /\ \A i \in 1 .. k : a[i] = s[i]
  BY <1>1
<1>3. /\ z \in Seq(Input) /\ Len(z) = Len(s) - k
  BY <1>1
<1>4. ASSUME NEW i \in 1 .. Len(s) - k PROVE i + k \in 1 .. Len(s) /\ z[i] = s[i + k]
  BY <1>1
<1> HIDE DEF a, z
<1>5. Asks(a, v)
  <2>1. ASSUME NEW i \in 1 .. k PROVE s[i] \in Command => s[i] = v
    BY <1>1 DEF Asks
  <2> QED BY <1>2, <2>1, Zenon DEF Asks
<1>6. Asks(z, v)
  <2>1. ASSUME NEW i \in 1 .. Len(z) PROVE z[i] \in Command => z[i] = v
    <3>1. i + k \in 1 .. Len(s) /\ z[i] = s[i + k]
      BY <1>3, <1>4, Zenon
    <3> QED BY <3>1, Zenon DEF Asks
  <2> QED BY <1>3, <2>1, Zenon DEF Asks
<1> QED BY <1>2, <1>5, <1>6, Zenon DEF a, z

\* What is queued for a command is made of one unit.
LEMMA ReplyIs ==
    ASSUME NEW cmd \in Command, NEW out \in client_queue_response(process_command(cmd))
    PROVE  /\ out \in Seq(Unit)
           /\ \E u \in Unit, n \in 1 .. 2 :
                 /\ \/ u = "error" /\ n = 1
                    \/ u = "query" /\ n = 2 /\ cmd = "query"
                    \/ u = "stop" /\ n = 1 /\ cmd = "stop"
                 /\ Of(out, u) /\ Len(out) <= n
           /\ cmd = "stop" => process_command(cmd) = <<"stop">>
                              /\ (out # <<>> => out = <<"stop">>)
<1>1. CASE cmd = "query"
  <2>1. out \in {<<"query", "query">>, <<"query">>, <<>>, <<"error">>}
    BY <1>1, Zenon DEF process_command, client_queue_response
  <2>2. CASE out = <<"error">>
    BY <1>1, <2>2 DEF Unit, Of
  <2>3. CASE out = <<"query", "query">>
    BY <1>1, <2>3 DEF Unit, Of
  <2>4. CASE out = <<"query">>
    BY <1>1, <2>4 DEF Unit, Of
  <2>5. CASE out = <<>>
    BY <1>1, <2>5 DEF Unit, Of
  <2> QED BY <2>1, <2>2, <2>3, <2>4, <2>5, Zenon
<1>2. CASE cmd = "stop"
  <2>1. process_command(cmd) = <<"stop">> /\ process_command("query") = <<"query", "query">>
    BY <1>2, Zenon DEF process_command
  <2>2. out \in {<<"stop">>, <<>>}
    BY <2>1 DEF client_queue_response
  <2>3. CASE out = <<"stop">>
    BY <1>2, <2>1, <2>3 DEF Unit, Of
  <2>4. CASE out = <<>>
    BY <1>2, <2>1, <2>4 DEF Unit, Of
  <2> QED BY <2>2, <2>3, <2>4, Zenon
<1>3. CASE cmd = "blank"
  <2>1. process_command(cmd) = <<>> /\ process_command("query") = <<"query", "query">>
    BY <1>3, Zenon DEF process_command
  <2>2. out = <<>>
    BY <2>1 DEF client_queue_response
  <2> QED BY <1>3, <2>2 DEF Unit, Of
<1> QED BY <1>1, <1>2, <1>3, Zenon DEF Command, Input

(* The client cl that has been given a reply. *)
Answers(m, cl, reply, stop) ==
    /\ m \in Client /\ m.conn = cl.conn /\ m.state = "WRITING"
    /\ m.out = reply /\ m.stop = stop

\* A client that starts to write is a client.
LEMMA ClientAnswers ==
    ASSUME NEW cl \in Client, NEW reply \in Seq(Unit), NEW stop \in Flag
    PROVE  Answers(Answering(cl, reply, stop), cl, reply, stop)
<1>1. 0 \in 0 .. IdleScans - 1
  BY Bounds
<1> QED BY <1>1, Zenon DEF Client, Answers, Answering

(* The client cl that has read more. *)
ReadsOn(m, cl) ==
    /\ m \in Client /\ m.conn = cl.conn /\ m.state = cl.state
    /\ m.out = cl.out /\ m.stop = cl.stop

\* A client that goes on reading is a client.
LEMMA ClientReads ==
    ASSUME NEW cl \in Client, NEW len \in 0 .. InputCap - 1, NEW age \in 0 .. IdleScans - 1
    PROVE  ReadsOn([cl EXCEPT !.len = len, !.age = age], cl)
BY Zenon DEF Client, ReadsOn

\* A client that ages is a client.
LEMMA AgeUpdate ==
    ASSUME NEW cl \in Client, NEW age \in 0 .. IdleScans - 1
    PROVE  ReadsOn([cl EXCEPT !.age = age], cl)
BY Zenon DEF Client, ReadsOn

(* The callback has read and written for connection c, and its client at fd is
   gone or goes on.                                                        *)
Effect(fd, c) ==
    /\ Sends(c) /\ \E u \in Unit, n \in 1 .. 2 : Written(fd, c, u, n)
    /\ rx' = [rx EXCEPT ![c] = rx'[c]] /\ Asks(rx'[c], asked[c])

\* A client of a peer that got nothing yet stays, either to read on or to write
\* that the command is too long.
LEMMA TooLongStays ==
    ASSUME NEW fd, NEW c, NEW m \in Client, Stays(fd, m), m.stop = 0,
           \/ m.state = "READING" /\ m.out = <<>>
           \/ m.state = "WRITING" /\ m.out \in {<<>>, <<"error">>},
           got[c] = <<>>, wire'[c] = <<>>, Owed(c, "error", 1),
           Parts(<<>>, <<>>, <<>>, "error", 1),
           Parts(<<>>, <<>>, <<"error">>, "error", 1)
    PROVE  Written(fd, c, "error", 1)
<1>1. /\ Parts(got[c], wire'[c], m.out, "error", 1)
      /\ m.state = "READING" => m.out = <<>>
  OBVIOUS
<1> QED BY <1>1 DEF Written

\* The reading half of the callback.
LEMMA ReadEffect ==
    ASSUME UdsInv, NEW fd \in Clients, NEW c \in Conns, c = client[fd].conn,
           client[fd].state = "READING", ReadCommand(fd)
    PROVE  Effect(fd, c)
<1> DEFINE cl    == client[fd]
           room  == InputCap - cl.len
           k     == Min({room, Len(rx[c])})
           input == SubSeq(rx[c], 1, k)
           lines == {i \in DOMAIN input : input[i] \in Command}
<1>1. /\ TypeOK /\ AskedInv /\ cl \in Client /\ conn[c] # "none"
      /\ got[c] = <<>> /\ wire[c] = <<>> /\ cl.out = <<>> /\ cl.stop = 0
  <2>1. conn[c] = "open"
    BY Zenon DEF UdsInv, ClientsAccounted
  <2> QED BY <2>1, ClientTypes, Zenon DEF UdsInv, ClientsAccounted, ClientInv
<1>2. /\ room \in Nat /\ room > 0 /\ cl.len \in Nat /\ cl.len + room = InputCap
      /\ cl.age \in 0 .. IdleScans - 1
  <2>1. cl.len \in 0 .. InputCap - 1 /\ cl.age \in 0 .. IdleScans - 1
    BY <1>1, Zenon DEF Client
  <2>2. InputCap \in Nat
    BY Bounds, Zenon
  <2> QED BY <2>1, <2>2
<1>3. Asks(rx[c], asked[c]) /\ Len(rx[c]) \in Nat
  BY <1>1, ConnTypes, Zenon DEF AskedInv, Asks
<1>4. k \in 0 .. Len(rx[c]) /\ (k < room => k = Len(rx[c]))
  BY <1>2, <1>3, LesserNat, Zenon
<1>5. /\ Asks(input, asked[c]) /\ Len(input) = k
      /\ Asks(SubSeq(rx[c], k + 1, Len(rx[c])), asked[c])
  <2> HIDE DEF k
  <2> QED BY <1>3, <1>4, SplitInput, Zenon
<1>6. ASSUME NEW s, Asks(s, asked[c]), rx' = [rx EXCEPT ![c] = s]
      PROVE  rx' = [rx EXCEPT ![c] = rx'[c]] /\ Asks(rx'[c], asked[c]) /\ rx'[c] = s
  BY <1>1, <1>6, Zenon DEF TypeOK
<1>7. ASSUME UNCHANGED <<wire, running, shutdown>>, unqueued' \subseteq {c}
      PROVE  Sends(c) /\ wire'[c] = <<>>
  BY <1>1, <1>7, Bounds, Zenon DEF TypeOK, Sends
<1>8. Parts(<<>>, <<>>, <<>>, "error", 1) /\ Owed(c, "error", 1)
      /\ "error" \in Unit /\ 1 \in 1 .. 2 /\ <<"error">> \in Seq(Unit)
      /\ Parts(<<>>, <<>>, <<"error">>, "error", 1)
  BY DEF Parts, Of, Owed, Unit
<1>9. \/ /\ lines # {}
         /\ LET cmd == input[Min(lines)]
            IN  \E out \in client_queue_response(process_command(cmd)) :
                   /\ uds_client_flush(fd, Answering(cl, out, IF cmd = "stop" THEN 1 ELSE 0))
                   /\ Unqueued(c, process_command(cmd), out)
         /\ rx' = [rx EXCEPT ![c] = SubSeq(rx[c], k + 1, Len(rx[c]))]
      \/ /\ \E out \in client_queue_response(TooLong) :
               /\ client' = [client EXCEPT ![fd] = Answering(cl, out, 0)]
               /\ Unqueued(c, TooLong, out)
         /\ rx' = [rx EXCEPT ![c] = SubSeq(rx[c], k + 1, Len(rx[c]))]
         /\ ready' = ready \cup {fd}
         /\ UNCHANGED <<active, conn, wire, running, shutdown>>
      \/ /\ k < room /\ peer[c] = "open"
         /\ client' = [client EXCEPT ![fd] = [cl EXCEPT
                !.len = cl.len + k, !.age = IF input = <<>> THEN cl.age ELSE 0]]
         /\ rx' = [rx EXCEPT ![c] = <<>>] /\ unqueued' = {}
         /\ UNCHANGED <<active, conn, ready, wire, running, shutdown>>
      \/ uds_client_close(fd)
  BY <1>5, Zenon DEF ReadCommand
<1> HIDE DEF room, k, input
<1>10. CASE /\ lines # {}
            /\ LET cmd == input[Min(lines)]
               IN  \E out \in client_queue_response(process_command(cmd)) :
                      /\ uds_client_flush(fd, Answering(cl, out,
                                                        IF cmd = "stop" THEN 1 ELSE 0))
                      /\ Unqueued(c, process_command(cmd), out)
            /\ rx' = [rx EXCEPT ![c] = SubSeq(rx[c], k + 1, Len(rx[c]))]
  <2> DEFINE cmd == input[Min(lines)]
             stop == IF cmd = "stop" THEN 1 ELSE 0
  <2>1. Min(lines) \in lines
    <3>1. lines \in SUBSET Nat
      BY <1>5 DEF Asks
    <3> QED BY <3>1, <1>10, LeastNat, Zenon
  <2>2. cmd \in Command /\ cmd = asked[c]
    <3>1. ASSUME NEW i \in lines PROVE input[i] \in Command /\ input[i] = asked[c]
      BY <1>5 DEF Asks
    <3> HIDE DEF lines
    <3> QED BY <2>1, <3>1, Zenon
  <2>0. PICK reply \in client_queue_response(process_command(cmd)) :
           /\ uds_client_flush(fd, Answering(cl, reply, stop))
           /\ Unqueued(c, process_command(cmd), reply)
    BY <1>10, Zenon
  <2> HIDE DEF lines, cmd
  <2> DEFINE m == Answering(cl, reply, stop)
  <2>3. stop \in Flag
    BY Zenon DEF Flag
  <2>4. reply \in Seq(Unit)
    BY <2>2, ReplyIs, Zenon
  <2>5. Answers(m, cl, reply, stop)
    <3> HIDE DEF stop
    <3> QED BY <1>1, <2>3, <2>4, ClientAnswers, Zenon
  <2>6. uds_client_flush(fd, m)
    BY <2>0, Zenon
  <2>7. PICK u \in Unit, n \in 1 .. 2 :
           /\ Owed(c, u, n) /\ Of(reply, u) /\ Len(reply) <= n
    BY <2>2, ReplyIs, Zenon DEF Owed
  <2>8. stop = 1 => asked[c] = "stop" /\ (reply # <<>> => reply = <<"stop">>)
    BY <2>2, ReplyIs
  <2> HIDE DEF stop, m
  <2>9. Parts(got[c], wire[c], reply, u, n)
    BY <1>1, <2>4, <2>7 DEF Parts, Of
  <2>10. m \in Client /\ m.conn = c /\ m.state = "WRITING" /\ m.out = reply /\ m.stop = stop
    BY <2>5, Zenon DEF Answers
  <2>11. Writes(m, u, n)
    BY <2>7, <2>8, <2>9, <2>10 DEF Writes
  <2>12. n \in Nat
    OBVIOUS
  <2>13. Flushed(c, reply) /\ Written(fd, c, u, n)
    BY <1>1, <2>4, <2>6, <2>10, <2>11, <2>12, FlushWrites, Zenon
  <2>14. unqueued' \subseteq {c}
    BY <2>0, Zenon DEF Unqueued
  <2>15. ASSUME shutdown' # shutdown, reply = <<>> PROVE c \in unqueued'
    <3>1. process_command(cmd) = <<"stop">>
      BY <2>2, <2>13, <2>15, ReplyIs, Zenon DEF Flushed
    <3>2. reply # process_command(cmd)
      BY <2>15, <3>1
    <3> QED BY <2>0, <3>2, Zenon DEF Unqueued
  <2>16. Sends(c)
    BY <2>13, <2>14, <2>15, Zenon DEF Flushed, Sends
  <2> QED BY <1>5, <1>6, <1>10, <2>13, <2>16, Zenon DEF Effect
<1>11. CASE /\ \E out \in client_queue_response(TooLong) :
                  /\ client' = [client EXCEPT ![fd] = Answering(cl, out, 0)]
                  /\ Unqueued(c, TooLong, out)
            /\ rx' = [rx EXCEPT ![c] = SubSeq(rx[c], k + 1, Len(rx[c]))]
            /\ ready' = ready \cup {fd}
            /\ UNCHANGED <<active, conn, wire, running, shutdown>>
  <2>0. PICK out \in client_queue_response(TooLong) :
           /\ client' = [client EXCEPT ![fd] = Answering(cl, out, 0)]
           /\ Unqueued(c, TooLong, out)
    BY <1>11, Zenon
  <2> DEFINE m == Answering(cl, out, 0)
  <2>8. out \in {<<>>, <<"error">>} /\ out \in Seq(Unit)
    <3>1. TooLong = <<"error">> /\ process_command("query") = <<"query", "query">>
      BY Zenon DEF TooLong, process_command
    <3>2. out \in {<<>>, <<"error">>}
      BY <3>1 DEF client_queue_response
    <3>3. <<>> \in Seq(Unit)
      OBVIOUS
    <3> QED BY <1>8, <3>2, <3>3, Zenon
  <2>1. Answers(m, cl, out, 0)
    BY <1>1, <2>8, ClientAnswers, Zenon DEF Flag
  <2>2. client' = [client EXCEPT ![fd] = m]
    BY <2>0, Zenon
  <2> HIDE DEF m
  <2>3. /\ m \in Client /\ m.conn = c /\ m.state = "WRITING"
        /\ m.out \in {<<>>, <<"error">>} /\ m.stop = 0
    BY <2>1, <2>8, Zenon DEF Answers
  <2>4. Stays(fd, m)
    BY <1>11, <2>2, <2>3, Zenon DEF Stays
  <2>5. Sends(c) /\ wire'[c] = <<>>
    <3>1. unqueued' \subseteq {c}
      BY <2>0, Zenon DEF Unqueued
    <3> QED BY <1>7, <1>11, <3>1, Zenon
  <2>6. Written(fd, c, "error", 1)
    BY <1>1, <1>8, <2>3, <2>4, <2>5, TooLongStays, Zenon
  <2>7. rx' = [rx EXCEPT ![c] = rx'[c]] /\ Asks(rx'[c], asked[c])
    BY <1>5, <1>6, <1>11, Zenon
  <2> QED BY <1>8, <2>5, <2>6, <2>7, Zenon DEF Effect
<1>12. CASE /\ k < room /\ peer[c] = "open"
            /\ client' = [client EXCEPT ![fd] = [cl EXCEPT
                   !.len = cl.len + k, !.age = IF input = <<>> THEN cl.age ELSE 0]]
            /\ rx' = [rx EXCEPT ![c] = <<>>] /\ unqueued' = {}
            /\ UNCHANGED <<active, conn, ready, wire, running, shutdown>>
  <2> DEFINE len == cl.len + k
             age == IF input = <<>> THEN cl.age ELSE 0
             m   == [cl EXCEPT !.len = len, !.age = age]
  <2>1. len \in 0 .. InputCap - 1
    <3>1. k \in Nat
      BY <1>3, <1>4
    <3>2. cl.len + k \in 0 .. (cl.len + room) - 1
      <4> HIDE DEF k, room
      <4> QED BY <1>2, <1>12, <3>1, RoomLeft, Zenon
    <3> QED BY <1>2, <3>2, Zenon
  <2>0. age \in 0 .. IdleScans - 1
    <3>1. 0 \in 0 .. IdleScans - 1
      BY Bounds
    <3> QED BY <1>2, <3>1, Zenon
  <2>2. ReadsOn(m, cl)
    <3> HIDE DEF len, age
    <3> QED BY <1>1, <2>0, <2>1, ClientReads, Zenon
  <2>3. client' = [client EXCEPT ![fd] = m]
    BY <1>12, Zenon
  <2> HIDE DEF m
  <2>4. /\ m \in Client /\ m.conn = c /\ m.state = "READING"
        /\ m.out = <<>> /\ m.stop = 0
    BY <1>1, <2>2, Zenon DEF ReadsOn
  <2>5. Asks(<<>>, asked[c])
    BY DEF Asks
  <2>6. /\ rx' = [rx EXCEPT ![c] = rx'[c]] /\ Asks(rx'[c], asked[c]) /\ rx'[c] = <<>>
    BY <1>6, <1>12, <2>5, Zenon
  <2>7. Stays(fd, m)
    BY <1>12, <2>3, <2>4, <2>6, Zenon DEF Stays
  <2>8. Sends(c) /\ wire'[c] = <<>>
    BY <1>7, <1>12, Zenon
  <2>9. Written(fd, c, "error", 1)
    BY <1>1, <1>8, <2>4, <2>7, <2>8, TooLongStays, Zenon
  <2> QED BY <1>8, <2>6, <2>8, <2>9, Zenon DEF Effect
<1>13. CASE uds_client_close(fd)
  <2>1. Sends(c) /\ wire'[c] = <<>> /\ rx' = rx /\ uds_client_free(fd)
    BY <1>7, <1>13, Zenon DEF uds_client_close
  <2>2. Written(fd, c, "error", 1)
    BY <1>1, <1>8, <2>1, Zenon DEF Written
  <2>3. rx' = [rx EXCEPT ![c] = rx'[c]]
    BY <1>1, <2>1, Zenon DEF TypeOK
  <2> QED BY <1>3, <1>8, <2>1, <2>2, <2>3, Zenon DEF Effect
<1> QED BY <1>9, <1>10, <1>11, <1>12, <1>13, Zenon

\* The callback as a whole acts on the client its event is about.
LEMMA CallbackEffect ==
    ASSUME UdsInv, NEW b \in batch, uds_client_cb(b),
           NEW fd, fd = b.fd, NEW c, c = client[fd].conn
    PROVE  fd \in Clients /\ c \in Conns /\ Effect(fd, c)
<1>1. fd \in Clients /\ c \in Conns /\ client[fd] \in Client /\ conn[c] # "none"
  <2>1. fd \in Fds /\ client[fd] # NoClient
    BY Zenon DEF uds_client_cb, UdsInv, ClientsAccounted, TypeOK, BatchInv
  <2>2. fd \in Clients
    BY <2>1, Zenon DEF Clients
  <2>3. client[fd] \in Client /\ c \in Conns
    BY <2>2, ClientTypes, Zenon DEF UdsInv, ClientsAccounted
  <2>4. conn[c] = "open"
    BY <2>2, <2>3, Zenon DEF UdsInv, ClientsAccounted
  <2> QED BY <2>2, <2>3, <2>4, Zenon
<1>2. /\ TypeOK /\ AskedInv /\ Asks(rx[c], asked[c])
      /\ wire[c] \in Seq(Unit) /\ got[c] \in Seq(Unit) /\ Len(wire[c]) <= SendCap
  BY <1>1, ConnTypes, Zenon DEF UdsInv, ClientsAccounted, AskedInv, Asks
<1>3. PICK u \in Unit, n \in 1 .. 2 : ReplyOf(c, u, n)
  BY <1>1, Zenon DEF UdsInv, ReplyInv
<1>4. n \in Nat /\ Owed(c, u, n)
  <2>1. n \in Nat
    OBVIOUS
  <2>2. Owed(c, u, n)
    BY <1>3, Zenon DEF ReplyOf
  <2> QED BY <2>1, <2>2, Zenon
<1>5. Parts(got[c], wire[c], client[fd].out, u, n) /\ Parts(got[c], wire[c], <<>>, u, n)
  <2>1. client[fd].out \in Seq(Unit) /\ Of(client[fd].out, u)
    BY <1>1, <1>3, Zenon DEF Client, ReplyOf
  <2>2. /\ Of(got[c], u) /\ Of(wire[c], u) /\ Len(got[c]) + Len(wire[c]) <= n
        /\ Len(got[c]) + Len(wire[c]) + Len(client[fd].out) <= n
    BY <1>1, <1>3, Zenon DEF ReplyOf
  <2>3. Parts(got[c], wire[c], client[fd].out, u, n)
    BY <1>2, <2>1, <2>2, Zenon DEF Parts
  <2> QED BY <1>4, <2>3, NothingLeft, Zenon
<1>6. ASSUME rx' = rx PROVE rx' = [rx EXCEPT ![c] = rx'[c]] /\ Asks(rx'[c], asked[c])
  BY <1>1, <1>2, <1>6, Zenon DEF TypeOK
<1>7. CASE uds_client_close(fd)
  <2>1. UNCHANGED <<running, shutdown, rx, wire>> /\ uds_client_free(fd) /\ unqueued' = {}
    BY <1>7, Zenon DEF uds_client_close
  <2>2. Sends(c)
    BY <1>1, <1>2, <2>1, Zenon DEF TypeOK, Sends
  <2>3. Written(fd, c, u, n)
    BY <1>4, <1>5, <2>1, Zenon DEF Written
  <2> QED BY <1>1, <1>6, <2>1, <2>2, <2>3, Zenon DEF Effect
<1>8. CASE /\ client[fd].state = "WRITING" /\ uds_client_flush(fd, client[fd])
           /\ UNCHANGED rx /\ unqueued' = {}
  <2>1. Writes(client[fd], u, n)
    BY <1>1, <1>4, <1>5, <1>8, Zenon DEF Writes, UdsInv, ClientInv
  <2>2. Sends(c) /\ Written(fd, c, u, n)
    <3>1. client[fd].out \in Seq(Unit)
      BY <1>1, Zenon DEF Client
    <3>2. Flushed(c, client[fd].out) /\ Written(fd, c, u, n)
      BY <1>1, <1>2, <1>4, <1>8, <2>1, <3>1, FlushWrites, Zenon
    <3>3. shutdown' # shutdown => client[fd].stop = 1
      BY <1>8, Zenon DEF uds_client_flush, StopDue
    <3>4. client[fd].stop = 1 => client[fd].out # <<>>
      BY <1>1, Zenon DEF UdsInv, ClientInv
    <3> QED BY <1>8, <3>2, <3>3, <3>4, Zenon DEF Flushed, Sends
  <2> QED BY <1>1, <1>6, <1>8, <2>2, Zenon DEF Effect
<1>9. CASE client[fd].state = "READING" /\ ReadCommand(fd)
  BY <1>1, <1>9, ReadEffect, Zenon
<1> QED BY <1>1, <1>7, <1>8, <1>9, Zenon DEF uds_client_cb, Clients

=============================================================================
