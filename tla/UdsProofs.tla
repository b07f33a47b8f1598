----------------------------- MODULE UdsProofs ------------------------------
(***************************************************************************)
(* The control socket serves its clients as Uds.tla says, for any number of  *)
(* connections, descriptors and buffer sizes: the client table is exact, no  *)
(* edge of epoll is lost, events and replies reach the connection they are   *)
(* about, and a stop takes effect only when its reply is out.                *)
(***************************************************************************)
EXTENDS UdsLemmas, FiniteSetTheorems

-----------------------------------------------------------------------------
(* The client table and the replies after the callback. *)

\* How the client table changes: the client at fd leaves it, or stays with its
\* connection; the others are untouched.
LEMMA CallbackTable ==
    ASSUME TypeOK, ClientsAccounted, NEW fd \in Clients, NEW c \in Conns,
           c = client[fd].conn, Effect(fd, c)
    PROVE  /\ client' \in [Fds -> Client \cup {NoClient}]
           /\ \A f \in Fds : f # fd => client'[f] = client[f]
           /\ \A f \in Clients : f # fd => client[f].conn # c
           /\ ready' \subseteq ready \cup {fd} /\ ready \ {fd} \subseteq ready'
           /\ \/ /\ client'[fd] = NoClient /\ Clients' = Clients \ {fd}
                 /\ active' = (IF active > 0 THEN active - 1 ELSE 0)
                 /\ conn' = [conn EXCEPT ![c] = "closed"] /\ ready' = ready \ {fd}
              \/ /\ client'[fd] \in Client /\ client'[fd].conn = c /\ Clients' = Clients
                 /\ active' = active /\ conn' = conn
<1>0. /\ fd \in Fds /\ client \in [Fds -> Client \cup {NoClient}] /\ NoClient \notin Client
      /\ client[fd] \in Client
  BY Bounds, ClientTypes, Zenon DEF TypeOK
<1>1. \A f \in Clients : f # fd => client[f].conn # c
  BY Zenon DEF ClientsAccounted
<1>2. CASE uds_client_free(fd)
  <2>1. client' = [client EXCEPT ![fd] = NoClient]
    BY <1>2, Zenon DEF uds_client_free
  <2>2. Clients' = Clients \ {fd}
    BY <1>0, <2>1, Zenon DEF Clients
  <2> QED BY <1>0, <1>1, <1>2, <2>1, <2>2, Zenon DEF uds_client_free
<1>3. ASSUME NEW m \in Client, Stays(fd, m)
      PROVE  /\ client' \in [Fds -> Client \cup {NoClient}]
             /\ \A f \in Fds : f # fd => client'[f] = client[f]
             /\ ready' \subseteq ready \cup {fd} /\ ready \ {fd} \subseteq ready'
             /\ client'[fd] \in Client /\ client'[fd].conn = c /\ Clients' = Clients
             /\ active' = active /\ conn' = conn
  <2>1. client' = [client EXCEPT ![fd] = m] /\ m.conn = c
    BY <1>3, Zenon DEF Stays
  <2>2. Clients' = Clients
    BY <1>0, <2>1, Zenon DEF Clients
  <2> QED BY <1>0, <1>3, <2>1, <2>2, Zenon DEF Stays
<1>4. uds_client_free(fd) \/ \E m \in Client : Stays(fd, m)
  BY Zenon DEF Effect, Written
<1> QED BY <1>1, <1>2, <1>3, <1>4, Zenon

\* The replies after the callback.
LEMMA CallbackReplies ==
    ASSUME UdsInv, NEW b \in batch, uds_client_cb(b)
    PROVE  AskedInv' /\ ClientInv' /\ ReplyInv'
<1> PICK fd : fd = b.fd
  BY Zenon
<1> PICK c : c = client[fd].conn
  BY Zenon
<1>1. TypeOK /\ ClientsAccounted /\ AskedInv /\ ClientInv /\ ReplyInv
  BY Zenon DEF UdsInv, ClientsAccounted
<1>2. fd \in Clients /\ c \in Conns /\ Effect(fd, c) /\ fd \in Fds
  BY CallbackEffect, Zenon DEF Clients
<1>3. /\ \A f \in Fds : f # fd => client'[f] = client[f]
      /\ \A f \in Clients : f # fd => client[f].conn # c
      /\ \/ /\ client'[fd] = NoClient /\ Clients' = Clients \ {fd}
            /\ conn' = [conn EXCEPT ![c] = "closed"]
         \/ /\ client'[fd] \in Client /\ client'[fd].conn = c /\ Clients' = Clients
            /\ conn' = conn
  BY <1>1, <1>2, CallbackTable
<1>4. peer' = peer /\ asked' = asked /\ got' = got
  BY Zenon DEF uds_client_cb, peerVars
<1>5. /\ rx' = [rx EXCEPT ![c] = rx'[c]] /\ Asks(rx'[c], asked[c])
      /\ wire' = [wire EXCEPT ![c] = wire'[c]]
  BY <1>2, Zenon DEF Effect, Sends
<1>6. conn[c] = "open"
  BY <1>1, <1>2, Zenon DEF ClientsAccounted
<1>7. ASSUME NEW d \in Conns, d # c
      PROVE  conn'[d] = conn[d] /\ rx'[d] = rx[d] /\ wire'[d] = wire[d]
  BY <1>1, <1>2, <1>3, <1>5, <1>7, Zenon DEF TypeOK
<1>8. conn'[c] \in {"open", "closed"}
  BY <1>1, <1>2, <1>3, <1>6, Zenon DEF TypeOK
<1>9. ASSUME NEW f \in Clients', f # fd
      PROVE  /\ f \in Clients /\ client'[f] = client[f]
             /\ client[f].conn \in Conns /\ client[f].conn # c
  BY <1>1, <1>3, <1>9, ClientTypes, Zenon
<1>10. AskedInv'
  <2>1. ASSUME NEW d \in Conns
        PROVE  /\ conn'[d] = "none" <=> peer'[d] = "none"
               /\ \A i \in 1 .. Len(rx'[d]) : rx'[d][i] \in Command => rx'[d][i] = asked'[d]
    <3>1. CASE d # c
      BY <1>1, <1>4, <1>7, <3>1 DEF AskedInv
    <3>2. CASE d = c
      BY <1>1, <1>2, <1>4, <1>5, <1>6, <1>8, <3>2, Zenon DEF AskedInv, Asks
    <3> QED BY <3>1, <3>2, Zenon
  <2> QED BY <2>1, Zenon DEF AskedInv
<1>11. PICK u \in Unit, n \in 1 .. 2 : Written(fd, c, u, n)
  BY <1>2, Zenon DEF Effect
<1>12. ASSUME fd \in Clients'
       PROVE  /\ client'[fd] \in Client /\ client'[fd].conn = c
              /\ Parts(got[c], wire'[c], client'[fd].out, u, n)
              /\ client'[fd].state = "READING" =>
                    /\ client'[fd].out = <<>> /\ client'[fd].stop = 0
                    /\ got[c] = <<>> /\ wire'[c] = <<>>
              /\ client'[fd].stop = 1 =>
                    /\ asked[c] = "stop"
                    /\ client'[fd].out # <<>> /\ client'[fd].out[1] = "stop"
  <2>1. ~uds_client_free(fd)
    BY <1>1, <1>2, <1>12, Zenon DEF uds_client_free, TypeOK, Clients
  <2>2. PICK m \in Client :
           /\ Stays(fd, m) /\ Parts(got[c], wire'[c], m.out, u, n)
           /\ m.state = "READING" => m.out = <<>> /\ m.stop = 0
                                     /\ got[c] = <<>> /\ wire'[c] = <<>>
           /\ m.stop = 1 => asked[c] = "stop" /\ m.out # <<>> /\ m.out[1] = "stop"
    BY <1>11, <2>1, Zenon DEF Written
  <2>3. client'[fd] = m /\ m.conn = c
    BY <1>1, <1>2, <2>2, Zenon DEF Stays, TypeOK
  <2> QED BY <2>2, <2>3, Zenon
<1>13. ClientInv'
  <2>1. ASSUME NEW f \in Clients'
        PROVE  /\ client'[f].state = "READING" =>
                     /\ client'[f].out = <<>> /\ client'[f].stop = 0
                     /\ got'[client'[f].conn] = <<>> /\ wire'[client'[f].conn] = <<>>
               /\ client'[f].stop = 1 =>
                     /\ asked'[client'[f].conn] = "stop"
                     /\ client'[f].out # <<>> /\ client'[f].out[1] = "stop"
    <3>1. CASE f = fd
      BY <1>4, <1>12, <3>1, Zenon
    <3>2. CASE f # fd
      BY <1>1, <1>4, <1>7, <1>9, <3>2 DEF ClientInv
    <3> QED BY <3>1, <3>2, Zenon
  <2> QED BY <2>1, Zenon DEF ClientInv
<1>14. ReplyInv'
  <2>1. ASSUME NEW d \in Conns, d # c
        PROVE  \E v \in Unit, k \in 1 .. 2 : ReplyOf(d, v, k)'
    <3>1. PICK v \in Unit, k \in 1 .. 2 : ReplyOf(d, v, k)
      BY <1>1, Zenon DEF ReplyInv
    <3>2. ASSUME NEW f \in Clients', client'[f].conn = d
          PROVE  f \in Clients /\ client'[f] = client[f]
      BY <1>9, <1>12, <2>1, <3>2, Zenon
    <3>3. ReplyOf(d, v, k)'
      BY <1>4, <1>7, <2>1, <3>1, <3>2, Zenon DEF ReplyOf, Owed
    <3> QED BY <3>3, Zenon
  <2>2. ReplyOf(c, u, n)'
    <3>1. ASSUME NEW f \in Clients', client'[f].conn = c PROVE f = fd
      BY <1>9, <3>1, Zenon
    <3>2. /\ Owed(c, u, n)' /\ Of(got[c], u) /\ Of(wire'[c], u)
          /\ Len(got[c]) + Len(wire'[c]) <= n
      BY <1>4, <1>11, Zenon DEF Written, Parts, Owed
    <3>3. ASSUME NEW f \in Clients', client'[f].conn = c
          PROVE  Of(client'[f].out,
          u) /\ Len(got[c]) + Len(wire'[c]) + Len(client'[f].out) <= n
      BY <1>12, <3>1, <3>3, Zenon DEF Parts
    <3> QED BY <1>4, <3>2, <3>3, Zenon DEF ReplyOf
  <2>3. ASSUME NEW d \in Conns, conn'[d] \in {"none", "backlog"}
        PROVE  got'[d] = <<>> /\ wire'[d] = <<>>
    BY <1>1, <1>4, <1>7, <1>8, <2>3, Zenon DEF ReplyInv
  <2> QED BY <2>1, <2>2, <2>3, Zenon DEF ReplyInv
<1> QED BY <1>10, <1>13, <1>14, Zenon

-----------------------------------------------------------------------------
(* The number of clients. *)

\* A descriptor that is taken adds one to the number of clients.
LEMMA SlotTaken ==
    ASSUME NEW S \in SUBSET Fds, NEW x \in Fds, x \notin S
    PROVE  Cardinality(S) \in Nat /\ Cardinality(S \cup {x}) = Cardinality(S) + 1
<1>1. IsFiniteSet(S)
  BY BoundAssumption, FS_Subset, Zenon
<1> QED BY <1>1, FS_AddElement, FS_CardinalityType, Zenon

\* Descriptors that are freed are subtracted from the number of clients.
LEMMA SlotsFreed ==
    ASSUME NEW S \in SUBSET Fds, NEW F \in SUBSET S
    PROVE  /\ Cardinality(S) \in Nat /\ Cardinality(F) \in Nat
           /\ Cardinality(S \ F) = Cardinality(S) - Cardinality(F)
           /\ Cardinality(S \ F) \in Nat
<1>1. IsFiniteSet(S)
  BY BoundAssumption, FS_Subset, Zenon
<1>2. IsFiniteSet(F)
  BY <1>1, FS_Subset, Zenon
<1>3. S \cap F = F
  BY Zenon
<1>4. IsFiniteSet(S \ F) /\ Cardinality(S \ F) = Cardinality(S) - Cardinality(F)
  BY <1>1, <1>3, FS_Difference, Zenon
<1> QED BY <1>1, <1>2, <1>4, FS_CardinalityType, Zenon

\* Below the limit there is a free descriptor.
LEMMA SlotFree ==
    ASSUME NEW S \in SUBSET Fds, Cardinality(S) < MaxClients
    PROVE  Min(Fds \ S) \in Fds /\ Min(Fds \ S) \notin S
<1>1. S # Fds
  <2>1. IsFiniteSet(Fds) /\ MaxClients <= Cardinality(Fds) /\ MaxClients \in Nat
    BY BoundAssumption, Zenon
  <2>2. Cardinality(Fds) \in Nat
    BY <2>1, FS_CardinalityType, Zenon
  <2> QED BY <2>1, <2>2
<1>2. Fds \ S # {} /\ Fds \ S \in SUBSET Nat
  BY <1>1, Bounds, Zenon
<1> QED BY <1>2, LeastNat, Zenon

-----------------------------------------------------------------------------
(* The callback preserves the rest of the invariant. *)

\* The table, the batch and the ready list after the callback.
LEMMA CallbackServes ==
    ASSUME UdsInv, NEW b \in batch, uds_client_cb(b)
    PROVE  ClientsAccounted' /\ BacklogInv' /\ BatchInv' /\ NoLostEdge'
<1> PICK fd : fd = b.fd
  BY Zenon
<1> PICK c : c = client[fd].conn
  BY Zenon
<1>1. /\ TypeOK /\ ClientsAccounted /\ BacklogInv /\ BatchInv /\ NoLostEdge
  BY Zenon DEF UdsInv, ClientsAccounted
<1>2. fd \in Clients /\ c \in Conns /\ Effect(fd, c) /\ fd \in Fds /\ fd # Listener
  BY CallbackEffect, Bounds, Zenon DEF Clients
<1>3. /\ client' \in [Fds -> Client \cup {NoClient}]
      /\ \A f \in Fds : f # fd => client'[f] = client[f]
      /\ \A f \in Clients : f # fd => client[f].conn # c
      /\ ready' \subseteq ready \cup {fd} /\ ready \ {fd} \subseteq ready'
      /\ \/ /\ client'[fd] = NoClient /\ Clients' = Clients \ {fd}
            /\ active' = (IF active > 0 THEN active - 1 ELSE 0)
            /\ conn' = [conn EXCEPT ![c] = "closed"] /\ ready' = ready \ {fd}
         \/ /\ client'[fd] \in Client /\ client'[fd].conn = c /\ Clients' = Clients
            /\ active' = active /\ conn' = conn
  BY <1>1, <1>2, CallbackTable
<1>4. /\ batch' = batch \ {b} /\ loop = "batch"
      /\ loop' = LoopAfter(batch', running')
      /\ UNCHANGED <<accept_failed, backlog, peer, asked, got, sent>> /\ unqueued' \subseteq Conns
  BY <1>2, Zenon DEF uds_client_cb, Handled, peerVars, Effect, Sends
<1>5. /\ rx' = [rx EXCEPT ![c] = rx'[c]] /\ rx'[c] \in Seq(Input)
      /\ wire' = [wire EXCEPT ![c] = wire'[c]] /\ wire'[c] \in Seq(Unit)
      /\ Len(wire'[c]) <= SendCap /\ running' \in Flag /\ shutdown' \in Flag
  BY <1>2, Zenon DEF Effect, Sends, Asks
<1>6. active' \in Nat /\ active' = Cardinality(Clients') /\ active' <= MaxClients
  <2>1. Clients \in SUBSET Fds /\ {fd} \in SUBSET Clients
    BY <1>2, Zenon DEF Clients
  <2>2. active = Cardinality(Clients) /\ active \in Nat /\ active <= MaxClients
    BY <1>1, Zenon DEF ClientsAccounted, TypeOK
  <2>3. /\ Cardinality(Clients \ {fd}) = Cardinality(Clients) - Cardinality({fd})
        /\ Cardinality(Clients \ {fd}) \in Nat
    BY <2>1, SlotsFreed, Zenon
  <2>4. Cardinality({fd}) = 1
    BY FS_Singleton, Zenon
  <2>5. Cardinality(Clients \ {fd}) = active - 1
    BY <2>2, <2>3, <2>4, Zenon
  <2>6. CASE Clients' = Clients \ {fd} /\ active' = IF active > 0 THEN active - 1 ELSE 0
    BY <2>2, <2>3, <2>5, <2>6, Bounds
  <2>7. CASE Clients' = Clients /\ active' = active
    BY <2>2, <2>7, Zenon
  <2> QED BY <1>3, <2>6, <2>7, Zenon
<1>7. conn' \in [Conns -> {"none", "backlog", "open", "closed"}]
  BY <1>1, <1>2, <1>3, Zenon DEF TypeOK
<1>8. loop' \in {"wait", "batch", "done"} /\ (loop' # "batch" => batch' = {})
  BY <1>4, Zenon DEF LoopAfter
<1>9. TypeOK'
  <2>1. \A d \in Conns : Len(wire'[d]) <= SendCap
    BY <1>1, <1>2, <1>5, Zenon DEF TypeOK
  <2>2. rx' \in [Conns -> Seq(Input)] /\ wire' \in [Conns -> Seq(Unit)]
    BY <1>1, <1>2, <1>5, Zenon DEF TypeOK
  <2>3. /\ accept_failed' \in Flag /\ backlog' \in Seq(Conns) /\ unqueued' \subseteq Conns
        /\ peer' \in [Conns -> {"none", "open", "closed"}]
        /\ got' \in [Conns -> Seq(Unit)] /\ asked' \in [Conns -> Command \cup {"none"}]
        /\ sent' \in [Conns -> Nat]
    BY <1>1, <1>4, Zenon DEF TypeOK
  <2>4. ready' \subseteq Fds \cup {Listener}
    BY <1>1, <1>2, <1>3, Zenon DEF TypeOK
  <2>5. batch' \subseteq [fd : Fds \cup {Listener}, conn : Conns \cup {Listener},
                          events : SUBSET Event]
    BY <1>1, <1>4, Zenon DEF TypeOK
  <2> QED BY <1>3, <1>5, <1>6, <1>7, <1>8, <2>1, <2>2, <2>3, <2>4, <2>5 DEF TypeOK
<1>10. ASSUME NEW f \in Clients'
       PROVE  f \in Clients /\ client'[f].conn = client[f].conn /\ (f # fd => client[f].conn # c)
  BY <1>2, <1>3, <1>10, Zenon DEF Clients
<1>11. ClientsAccounted'
  <2>1. ASSUME NEW d \in Conns, conn'[d] = "open"
        PROVE  \E f \in Clients' : client'[f].conn = d
    <3>1. conn[d] = "open"
      BY <1>1, <1>2, <1>3, <2>1, Zenon DEF TypeOK
    <3>2. PICK f \in Clients : client[f].conn = d
      BY <1>1, <3>1, Zenon DEF ClientsAccounted
    <3>3. CASE f # fd
      BY <1>3, <3>2, <3>3, Zenon DEF Clients
    <3>4. CASE f = fd
      BY <1>1, <1>2, <1>3, <2>1, <3>2, <3>4, Zenon DEF TypeOK
    <3> QED BY <3>3, <3>4, Zenon
  <2>2. ASSUME NEW d \in Conns, NEW f \in Clients', client'[f].conn = d
        PROVE  conn'[d] = "open"
    <3>1. f \in Clients /\ client[f].conn = d
      BY <1>10, <2>2, Zenon
    <3>2. conn[d] = "open"
      BY <1>1, <3>1, Zenon DEF ClientsAccounted
    <3>3. d = c => conn' = conn
      BY <1>3, <1>10, <2>2, <3>1, Zenon
    <3> QED BY <1>1, <1>3, <3>2, <3>3, Zenon DEF TypeOK
  <2>3. \A f, g \in Clients' : client'[f].conn = client'[g].conn => f = g
    BY <1>1, <1>10 DEF ClientsAccounted
  <2> QED BY <1>6, <1>8, <1>9, <2>1, <2>2, <2>3, Zenon DEF ClientsAccounted
<1>12. BacklogInv'
  <2>1. conn[c] = "open"
    BY <1>1, <1>2, Zenon DEF ClientsAccounted
  <2>2. ASSUME NEW i \in 1 .. Len(backlog) PROVE conn'[backlog[i]] = "backlog"
    <3>1. conn[backlog[i]] = "backlog" /\ backlog[i] \in Conns
      BY <1>1 DEF BacklogInv, TypeOK
    <3> QED BY <1>1, <1>3, <2>1, <3>1, Zenon DEF TypeOK
  <2> QED BY <1>1, <1>4, <2>2, Zenon DEF BacklogInv
<1>13. ASSUME NEW a \in batch' PROVE a \in batch /\ a.fd # fd
  BY <1>1, <1>4, <1>13, Zenon DEF BatchInv
<1>14. BatchInv'
  <2>1. ASSUME NEW a \in batch', a.fd # Listener
        PROVE  client'[a.fd] # NoClient /\ client'[a.fd].conn = a.conn
    <3>1. a.fd \in Fds
      BY <1>1, <1>13, <2>1, Zenon DEF TypeOK
    <3> QED BY <1>1, <1>3, <1>13, <2>1, <3>1, Zenon DEF BatchInv
  <2>2. \A a1, a2 \in batch' : a1.fd = a2.fd => a1 = a2
    BY <1>1, <1>13, Zenon DEF BatchInv
  <2>3. ready' \subseteq Clients' \cup {Listener}
    <3>1. ready \subseteq Clients \cup {Listener}
      BY <1>1, Zenon DEF BatchInv
    <3> QED BY <1>2, <1>3, <3>1, Zenon
  <2> QED BY <1>8, <2>1, <2>2, <2>3, Zenon DEF BatchInv
<1>15. NoLostEdge'
  <2>1. ASSUME NEW f \in Clients', f # fd, Reported(f)' # {}
        PROVE  f \in ready' \/ \E a \in batch' : a.fd = f
    <3>1. f \in Clients /\ f \in Fds /\ client'[f] = client[f] /\ client[f].conn # c
          /\ client[f].conn \in Conns
      BY <1>1, <1>3, <1>10, <2>1, ClientTypes, Zenon
    <3>2. Reported(f)' = Reported(f)
      <4>1. rx'[client[f].conn] = rx[client[f].conn] /\ wire'[client[f].conn] = wire[client[f].conn]
        BY <1>1, <1>5, <3>1, Zenon DEF TypeOK
      <4> QED BY <1>4, <3>1, <4>1, Zenon DEF Reported, Poll
    <3>3. f \in ready \/ \E a \in batch : a.fd = f
      BY <1>1, <1>4, <2>1, <3>1, <3>2, Zenon DEF NoLostEdge
    <3> QED BY <1>3, <1>4, <2>1, <3>3, Zenon
  <2>2. ASSUME fd \in Clients', Reported(fd)' # {} PROVE fd \in ready'
    <3>1. client'[fd] # NoClient
      BY <2>2, Zenon DEF Clients
    <3>2. PICK m \in Client : Stays(fd, m)
      <4>1. ~uds_client_free(fd)
        BY <1>1, <1>2, <3>1, Zenon DEF uds_client_free, TypeOK
      <4> QED BY <1>2, <4>1, Zenon DEF Effect, Written
    <3>3. client'[fd] = m /\ m.conn = c /\ peer' = peer
      BY <1>1, <1>2, <1>4, <3>2, Zenon DEF Stays, TypeOK
    <3>4. ASSUME ready' = ready /\ peer[c] # "closed"
                 /\ \/ m.state = "READING" /\ rx'[c] = <<>>
                    \/ m.state = "WRITING" /\ Len(wire'[c]) = SendCap
          PROVE  Reported(fd)' = {}
      <4>1. ~(SendCap < SendCap)
        BY Bounds
      <4>2. CASE m.state = "READING" /\ rx'[c] = <<>>
        BY <3>3, <3>4, <4>2, Zenon DEF Reported, Poll, Interest
      <4>3. CASE m.state = "WRITING" /\ Len(wire'[c]) = SendCap
        BY <3>3, <3>4, <4>1, <4>3, Zenon DEF Reported, Poll, Interest
      <4> QED BY <3>4, <4>2, <4>3, Zenon
    <3> QED BY <2>2, <3>2, <3>3, <3>4, Zenon DEF Stays
  <2>3. backlog' = <<>> \/ Listener \in ready' \/ accept_failed' = 1
        \/ \E a \in batch' : a.fd = Listener
    <3>1. backlog = <<>> \/ Listener \in ready \/ accept_failed = 1
          \/ \E a \in batch : a.fd = Listener
      BY <1>1, <1>4, Zenon DEF NoLostEdge
    <3> QED BY <1>2, <1>3, <1>4, <3>1, Zenon
  <2> QED BY <2>1, <2>2, <2>3, Zenon DEF NoLostEdge
<1> QED BY <1>11, <1>12, <1>14, <1>15, Zenon

-----------------------------------------------------------------------------
(* The other steps that open or close clients, and those between batches. *)

\* A new client takes a descriptor that no client and no event is about.
LEMMA AcceptKeeps ==
    ASSUME UdsInv, Accept
    PROVE  UdsInv'
<1> PICK c : c = Head(backlog)
  BY Zenon
<1> PICK fd : fd = Min(Fds \ Clients)
  BY Zenon
<1> DEFINE m == [conn |-> c, state |-> "READING", len |-> 0, out |-> <<>>,
                 stop |-> 0, age |-> 0]
<1>1. /\ loop = "accept" /\ backlog # <<>> /\ active < MaxClients
      /\ client' = [client EXCEPT ![fd] = m] /\ active' = active + 1
      /\ conn' = [conn EXCEPT ![c] = "open"] /\ backlog' = Tail(backlog)
      /\ ready' = IF "in" \in Poll(c) THEN ready \cup {fd} ELSE ready
      /\ UNCHANGED <<loop, running, shutdown, accept_failed, unqueued, batch,
                     rx, wire, peer, asked, got, sent>>
  BY Zenon DEF Accept, peerVars
<1>2. /\ TypeOK /\ ClientsAccounted /\ BacklogInv /\ BatchInv /\ NoLostEdge
      /\ AskedInv /\ ClientInv /\ ReplyInv
  BY Zenon DEF UdsInv, ClientsAccounted
<1>3. /\ c \in Conns /\ conn[c] = "backlog" /\ backlog' \in Seq(Conns)
      /\ \A i \in 1 .. Len(backlog') :
            backlog'[i] \in Conns /\ backlog'[i] # c /\ conn[backlog'[i]] = "backlog"
      /\ \A i, j \in 1 .. Len(backlog') : backlog'[i] = backlog'[j] => i = j
  BY <1>1, <1>2, BacklogTail, Zenon
<1>4. Clients \in SUBSET Fds /\ active = Cardinality(Clients)
  BY <1>2, Zenon DEF Clients, ClientsAccounted
<1>5. fd \in Fds /\ fd \notin Clients /\ fd # Listener
  BY <1>1, <1>4, SlotFree, Bounds, Zenon
<1>6. /\ m \in Client /\ m.conn = c /\ m.state = "READING" /\ m.out = <<>> /\ m.stop = 0
  <2>1. 0 \in 0 .. IdleScans - 1 /\ 0 \in 0 .. InputCap - 1 /\ <<>> \in Seq(Unit) /\ 0 \in Flag
    BY Bounds DEF Flag
  <2> QED BY <1>3, <2>1, Zenon DEF Client
<1> HIDE DEF m
<1>7. /\ client' \in [Fds -> Client \cup {NoClient}] /\ client'[fd] = m
      /\ \A f \in Fds : f # fd => client'[f] = client[f]
  BY <1>1, <1>2, <1>5, <1>6, Zenon DEF TypeOK
<1>8. Clients' = Clients \cup {fd}
  BY <1>5, <1>6, <1>7, Bounds, Zenon DEF Clients
<1>9. active' \in Nat /\ active' = Cardinality(Clients') /\ active' <= MaxClients
  <2>1. Cardinality(Clients) \in Nat /\ Cardinality(Clients \cup {fd}) = Cardinality(Clients) + 1
    BY <1>4, <1>5, SlotTaken, Zenon
  <2> QED BY <1>1, <1>4, <1>8, <2>1, Bounds
<1>10. /\ conn' \in [Conns -> {"none", "backlog", "open", "closed"}] /\ conn'[c] = "open"
       /\ \A d \in Conns : d # c => conn'[d] = conn[d]
  BY <1>1, <1>2, <1>3, Zenon DEF TypeOK
<1>11. ASSUME NEW f \in Clients
       PROVE  f # fd /\ client'[f] = client[f] /\ client[f].conn \in Conns /\ client[f].conn # c
  <2>1. client[f].conn \in Conns /\ f \in Fds
    BY <1>2, ClientTypes, Zenon
  <2>2. conn[client[f].conn] = "open"
    BY <1>2, <2>1, Zenon DEF ClientsAccounted
  <2> QED BY <1>3, <1>5, <1>7, <2>1, <2>2, Zenon
<1>12. TypeOK'
  <2>1. ready' \subseteq Fds \cup {Listener}
    BY <1>1, <1>2, <1>5, Zenon DEF TypeOK
  <2> QED BY <1>1, <1>2, <1>3, <1>7, <1>9, <1>10, <2>1, Zenon DEF TypeOK
<1>13. ClientsAccounted'
  <2>1. ASSUME NEW d \in Conns
        PROVE  conn'[d] = "open" <=> \E f \in Clients' : client'[f].conn = d
    <3>1. CASE d = c
      BY <1>6, <1>7, <1>8, <1>10, <3>1, Zenon
    <3>2. CASE d # c
      BY <1>2, <1>6, <1>7, <1>8, <1>10, <1>11, <3>2 DEF ClientsAccounted
    <3> QED BY <3>1, <3>2, Zenon
  <2>2. \A f, g \in Clients' : client'[f].conn = client'[g].conn => f = g
    BY <1>2, <1>6, <1>7, <1>8, <1>11 DEF ClientsAccounted
  <2> QED BY <1>1, <1>9, <1>12, <2>1, <2>2, Zenon DEF ClientsAccounted
<1>14. BacklogInv'
  BY <1>3, <1>10, Zenon DEF BacklogInv
<1>15. BatchInv'
  <2>1. ASSUME NEW b \in batch', b.fd # Listener
        PROVE  client'[b.fd] # NoClient /\ client'[b.fd].conn = b.conn
    <3>1. b.fd \in Clients /\ client[b.fd] # NoClient /\ client[b.fd].conn = b.conn
      BY <1>1, <1>2, <2>1, Zenon DEF BatchInv, TypeOK, Clients
    <3> QED BY <1>11, <3>1, Zenon
  <2>2. ready' \subseteq Clients' \cup {Listener}
    BY <1>1, <1>2, <1>8, Zenon DEF BatchInv
  <2> QED BY <1>1, <1>2, <2>1, <2>2, Zenon DEF BatchInv
<1>16. NoLostEdge'
  <2>1. ASSUME NEW f \in Clients, Reported(f)' # {}
        PROVE  f \in ready' \/ \E b \in batch' : b.fd = f
    <3>1. Reported(f)' = Reported(f)
      BY <1>1, <1>11, Zenon DEF Reported, Poll
    <3> QED BY <1>1, <1>2, <2>1, <3>1, Zenon DEF NoLostEdge
  <2>2. ASSUME Reported(fd)' # {} PROVE fd \in ready'
    <3>1. Reported(fd)' = Poll(c) \cap {"hup", "in"}
      <4>1. Poll(c)' = Poll(c)
        BY <1>1, Zenon DEF Poll
      <4>2. Reported(fd)' = Poll(c)' \cap Interest("READING")
        BY <1>6, <1>7, Zenon DEF Reported, Poll
      <4> QED BY <4>1, <4>2, Zenon DEF Interest
    <3>2. "in" \in Poll(c)
      BY <2>2, <3>1, Zenon DEF Poll
    <3> QED BY <1>1, <3>2, Zenon
  <2> QED BY <1>1, <1>8, <2>1, <2>2, Zenon DEF NoLostEdge
<1>17. AskedInv'
  BY <1>1, <1>2, <1>3, <1>10 DEF AskedInv
<1>18. got[c] = <<>> /\ wire[c] = <<>>
  BY <1>2, <1>3, Zenon DEF ReplyInv
<1>19. ClientInv'
  <2>1. ASSUME NEW f \in Clients'
        PROVE  /\ client'[f].state = "READING" =>
                     /\ client'[f].out = <<>> /\ client'[f].stop = 0
                     /\ got'[client'[f].conn] = <<>> /\ wire'[client'[f].conn] = <<>>
               /\ client'[f].stop = 1 =>
                     /\ asked'[client'[f].conn] = "stop"
                     /\ client'[f].out # <<>> /\ client'[f].out[1] = "stop"
    <3>1. CASE f = fd
      BY <1>1, <1>6, <1>7, <1>18, <3>1
    <3>2. CASE f # fd
      BY <1>1, <1>2, <1>8, <1>11, <3>2, ZenonT(30) DEF ClientInv
    <3> QED BY <3>1, <3>2, Zenon
  <2> QED BY <2>1, Zenon DEF ClientInv
<1>20. ReplyInv'
  <2>1. ASSUME NEW d \in Conns, NEW u \in Unit, NEW n \in 1 .. 2, ReplyOf(d, u, n)
        PROVE  ReplyOf(d, u, n)'
    <3>1. ASSUME NEW f \in Clients', client'[f].conn = d
          PROVE  Of(client'[f].out, u)
                 /\ Len(got[d]) + Len(wire[d]) + Len(client'[f].out) <= n
      <4>1. CASE f = fd
        <5>1. client'[f].out = <<>> /\ got[d] = <<>> /\ wire[d] = <<>>
          BY <1>6, <1>7, <1>18, <3>1, <4>1, Zenon
        <5> QED BY <5>1 DEF Of
      <4>2. CASE f # fd
        BY <1>8, <1>11, <2>1, <3>1, <4>2, Zenon DEF ReplyOf
      <4> QED BY <4>1, <4>2, Zenon
    <3> QED BY <1>1, <2>1, <3>1, Zenon DEF ReplyOf, Owed
  <2>2. ASSUME NEW d \in Conns, conn'[d] \in {"none", "backlog"}
        PROVE  got'[d] = <<>> /\ wire'[d] = <<>>
    BY <1>1, <1>2, <1>10, <2>2, Zenon DEF ReplyInv
  <2> QED BY <1>2, <2>1, <2>2, Zenon DEF ReplyInv
<1> QED BY <1>13, <1>14, <1>15, <1>16, <1>17, <1>19, <1>20, Zenon DEF UdsInv

\* The scan closes the idle clients between two batches; the others only age.
LEMMA IdleScanKeeps ==
    ASSUME UdsInv, uds_idle_timer_cb
    PROVE  UdsInv'
<1> DEFINE idle == {f \in Clients : Idle(client[f])}
           aged(f) == [client[f] EXCEPT !.age = Min({client[f].age + 1, IdleScans})]
<1>1. /\ loop = "wait" /\ active' = active - Cardinality(idle) /\ ready' = ready \ idle
      /\ client' = [f \in Fds |-> IF f \in idle \/ client[f] = NoClient THEN NoClient
                                  ELSE aged(f)]
      /\ conn' = [c \in Conns |-> IF FdOf(c) \cap idle # {} THEN "closed" ELSE conn[c]]
      /\ UNCHANGED <<loop, running, shutdown, accept_failed, unqueued, batch, backlog,
                     rx, wire, peer, asked, got, sent>>
  BY Zenon DEF uds_idle_timer_cb, CloseIdle, peerVars
<1>2. /\ TypeOK /\ ClientsAccounted /\ BacklogInv /\ BatchInv /\ NoLostEdge
      /\ AskedInv /\ ClientInv /\ ReplyInv
  BY Zenon DEF UdsInv, ClientsAccounted
<1>3. ASSUME NEW f \in Clients, f \notin idle
      PROVE  /\ aged(f) \in Client /\ aged(f).conn = client[f].conn
             /\ aged(f).state = client[f].state /\ aged(f).out = client[f].out
             /\ aged(f).stop = client[f].stop
  <2> DEFINE age == Min({client[f].age + 1, IdleScans})
  <2>1. client[f] \in Client /\ client[f].age \in Nat /\ ~(client[f].age + 1 >= IdleScans)
    BY <1>2, <1>3, ClientTypes, Bounds DEF Idle, Client
  <2>2. age = client[f].age + 1
    BY <2>1, LesserNat, Bounds
  <2>3. age \in 0 .. IdleScans - 1
    BY <2>1, <2>2, Bounds
  <2> HIDE DEF age
  <2>4. ReadsOn([client[f] EXCEPT !.age = age], client[f])
    BY <2>1, <2>3, AgeUpdate, Zenon
  <2> QED BY <2>4, Zenon DEF ReadsOn, age
<1> HIDE DEF aged, idle
<1>4. idle \in SUBSET Clients /\ Clients \in SUBSET Fds
  BY Zenon DEF idle, Clients
<1>5. Clients' = Clients \ idle
  <2>1. ASSUME NEW f \in Fds PROVE client'[f] # NoClient <=> f \in Clients \ idle
    BY <1>1, <1>3, Bounds, Zenon DEF Clients
  <2> QED BY <1>4, <2>1, Zenon DEF Clients
<1>6. ASSUME NEW f \in Clients'
      PROVE  /\ f \in Clients /\ f \in Fds /\ client'[f] \in Client
             /\ client'[f].conn = client[f].conn /\ client'[f].state = client[f].state
             /\ client'[f].out = client[f].out /\ client'[f].stop = client[f].stop
  <2>1. f \in Clients /\ f \notin idle /\ f \in Fds /\ client[f] # NoClient
    BY <1>4, <1>5, Zenon DEF Clients
  <2>2. client'[f] = aged(f)
    BY <1>1, <2>1, Zenon
  <2> QED BY <1>3, <2>1, <2>2, Zenon
<1>7. ASSUME NEW d \in Conns
      PROVE  conn'[d] = IF \E f \in idle : client[f].conn = d THEN "closed" ELSE conn[d]
  BY <1>1, <1>4, Zenon DEF FdOf
<1>8. active' \in Nat /\ active' = Cardinality(Clients') /\ active' <= MaxClients
  <2>1. /\ active = Cardinality(Clients) /\ active \in Nat /\ active <= MaxClients
    BY <1>2, Zenon DEF ClientsAccounted, TypeOK
  <2>2. /\ Cardinality(Clients) \in Nat /\ Cardinality(idle) \in Nat
        /\ Cardinality(Clients \ idle) = Cardinality(Clients) - Cardinality(idle)
        /\ Cardinality(Clients \ idle) \in Nat
    BY <1>4, SlotsFreed, Zenon
  <2> QED BY <1>1, <1>5, <2>1, <2>2, Bounds
<1>9. TypeOK'
  <2>1. client' \in [Fds -> Client \cup {NoClient}]
    <3>1. ASSUME NEW f \in Fds
          PROVE  (IF f \in idle \/ client[f] = NoClient THEN NoClient ELSE aged(f))
                    \in Client \cup {NoClient}
      BY <1>3, Zenon DEF Clients
    <3> QED BY <1>1, <3>1, Zenon
  <2>2. conn' \in [Conns -> {"none", "backlog", "open", "closed"}]
    BY <1>1, <1>2, Zenon DEF TypeOK
  <2>3. ready' \subseteq Fds \cup {Listener}
    BY <1>1, <1>2, Zenon DEF TypeOK
  <2> QED BY <1>1, <1>2, <1>8, <2>1, <2>2, <2>3, Zenon DEF TypeOK
<1>10. ClientsAccounted'
  <2>1. ASSUME NEW d \in Conns, conn'[d] = "open"
        PROVE  \E f \in Clients' : client'[f].conn = d
    <3>1. conn[d] = "open" /\ ~\E f \in idle : client[f].conn = d
      BY <1>7, <2>1, Zenon
    <3>2. PICK f \in Clients : client[f].conn = d
      BY <1>2, <3>1, Zenon DEF ClientsAccounted
    <3>3. f \in Clients'
      BY <1>5, <3>1, <3>2, Zenon
    <3> QED BY <1>6, <3>2, <3>3, Zenon
  <2>2. ASSUME NEW d \in Conns, NEW f \in Clients', client'[f].conn = d
        PROVE  conn'[d] = "open"
    <3>1. f \in Clients /\ f \notin idle /\ client[f].conn = d
      BY <1>5, <1>6, <2>2, Zenon
    <3>2. conn[d] = "open"
      BY <1>2, <3>1, Zenon DEF ClientsAccounted
    <3>3. ~\E g \in idle : client[g].conn = d
      BY <1>2, <1>4, <3>1, Zenon DEF ClientsAccounted
    <3> QED BY <1>7, <3>2, <3>3, Zenon
  <2>3. \A f, g \in Clients' : client'[f].conn = client'[g].conn => f = g
    BY <1>2, <1>6 DEF ClientsAccounted
  <2> QED BY <1>1, <1>8, <1>9, <2>1, <2>2, <2>3, Zenon DEF ClientsAccounted
<1>11. ASSUME NEW f \in idle
       PROVE  client[f].conn \in Conns /\ conn[client[f].conn] = "open"
  <2>1. client[f].conn \in Conns
    BY <1>2, <1>4, ClientTypes, Zenon
  <2> QED BY <1>2, <1>4, <2>1, Zenon DEF ClientsAccounted
<1>12. BacklogInv'
  <2>1. ASSUME NEW i \in 1 .. Len(backlog) PROVE conn'[backlog[i]] = "backlog"
    <3>1. backlog[i] \in Conns /\ conn[backlog[i]] = "backlog"
      BY <1>2 DEF TypeOK, BacklogInv
    <3> QED BY <1>7, <1>11, <3>1, Zenon
  <2> QED BY <1>1, <1>2, <2>1, Zenon DEF BacklogInv
<1>13. BatchInv'
  BY <1>1, <1>2, <1>5, Zenon DEF BatchInv
<1>14. NoLostEdge'
  <2>1. ASSUME NEW f \in Clients', Reported(f)' # {} PROVE f \in ready'
    <3>1. Reported(f)' = Reported(f)
      BY <1>1, <1>6, Zenon DEF Reported, Poll
    <3> QED BY <1>1, <1>2, <1>5, <1>6, <2>1, <3>1, Zenon DEF NoLostEdge, BatchInv
  <2>2. backlog' = <<>> \/ Listener \in ready' \/ accept_failed' = 1
    <3>1. Listener \notin idle
      BY <1>4, Bounds, Zenon
    <3> QED BY <1>1, <1>2, <3>1, Zenon DEF NoLostEdge, BatchInv
  <2> QED BY <2>1, <2>2, Zenon DEF NoLostEdge
<1>15. AskedInv'
  BY <1>1, <1>2, <1>7, <1>11, Zenon DEF AskedInv
<1>16. ClientInv'
  BY <1>1, <1>2, <1>6 DEF ClientInv
<1>17. ReplyInv'
  <2>1. ASSUME NEW d \in Conns, NEW u \in Unit, NEW n \in 1 .. 2, ReplyOf(d, u, n)
        PROVE  ReplyOf(d, u, n)'
    BY <1>1, <1>6, <2>1, Zenon DEF ReplyOf, Owed
  <2>2. ASSUME NEW d \in Conns, conn'[d] \in {"none", "backlog"}
        PROVE  got'[d] = <<>> /\ wire'[d] = <<>>
    BY <1>1, <1>2, <1>7, <2>2, Zenon DEF ReplyInv
  <2> QED BY <1>2, <2>1, <2>2, Zenon DEF ReplyInv
<1> QED BY <1>10, <1>12, <1>13, <1>14, <1>15, <1>16, <1>17, Zenon DEF UdsInv

\* uds_cleanup leaves no client and no connection.
LEMMA CleanupKeeps ==
    ASSUME UdsInv, uds_cleanup
    PROVE  UdsInv'
<1>1. /\ loop = "done" /\ loop' = "cleaned" /\ client' = [f \in Fds |-> NoClient]
      /\ active' = active - Cardinality(Clients) /\ backlog' = <<>> /\ ready' = {}
      /\ conn' = [c \in Conns |-> IF conn[c] \in {"open", "backlog"} THEN "closed" ELSE conn[c]]
      /\ UNCHANGED <<accept_failed, unqueued, running, shutdown, batch, rx, wire, peer, asked, got, sent>>
  BY Zenon DEF uds_cleanup, peerVars
<1>2. /\ TypeOK /\ ClientsAccounted /\ BatchInv /\ AskedInv /\ ReplyInv
  BY Zenon DEF UdsInv, ClientsAccounted
<1>3. Clients' = {}
  BY <1>1, Zenon DEF Clients
<1>4. ASSUME NEW d \in Conns
      PROVE  /\ conn'[d] \in {"none", "closed"} /\ (conn'[d] = "none" <=> conn[d] = "none")
  BY <1>1, <1>2, Zenon DEF TypeOK
<1>5. active' = 0 /\ Cardinality(Clients') = 0 /\ 0 <= MaxClients
  BY <1>1, <1>2, <1>3, FS_EmptySet, Bounds DEF ClientsAccounted, TypeOK
<1>6. TypeOK'
  <2>1. conn' \in [Conns -> {"none", "backlog", "open", "closed"}]
    BY <1>1, <1>2, Zenon DEF TypeOK
  <2>2. client' \in [Fds -> Client \cup {NoClient}] /\ backlog' \in Seq(Conns)
    BY <1>1
  <2> QED BY <1>1, <1>2, <1>5, <2>1, <2>2 DEF TypeOK
<1>7. ClientsAccounted'
  BY <1>3, <1>4, <1>5, <1>6, Zenon DEF ClientsAccounted
<1>8. BacklogInv' /\ BatchInv' /\ NoLostEdge'
  BY <1>1, <1>2 DEF BacklogInv, BatchInv, NoLostEdge
<1>9. AskedInv' /\ ClientInv'
  BY <1>1, <1>2, <1>3, <1>4, Zenon DEF AskedInv, ClientInv
<1>10. ReplyInv'
  <2>1. ASSUME NEW d \in Conns, NEW u \in Unit, NEW n \in 1 .. 2, ReplyOf(d, u, n)
        PROVE  ReplyOf(d, u, n)'
    BY <1>1, <1>3, <2>1, Zenon DEF ReplyOf, Owed
  <2> QED BY <1>1, <1>2, <1>4, <2>1, Zenon DEF ReplyInv
<1> QED BY <1>7, <1>8, <1>9, <1>10, Zenon DEF UdsInv

-----------------------------------------------------------------------------
(* The theorems. *)

LEMMA UdsStarts == Init => UdsInv
<1> SUFFICES ASSUME Init PROVE UdsInv
  BY Zenon
<1>1. Clients = {}
  BY Zenon DEF Init, Clients
<1>2. Cardinality(Clients) = 0
  BY <1>1, FS_EmptySet, Zenon
<1>3. TypeOK
  <2>1. client \in [Fds -> Client \cup {NoClient}] /\ active \in Nat /\ backlog \in Seq(Conns)
    BY DEF Init
  <2>2. \A c \in Conns : Len(wire[c]) <= SendCap
    <3>1. \A c \in Conns : Len(wire[c]) = 0
      BY Zenon DEF Init
    <3>2. 0 <= SendCap
      BY Bounds
    <3> QED BY <3>1, <3>2, Zenon
  <2> QED BY <2>1, <2>2 DEF Init, TypeOK, Flag
<1>4. ClientsAccounted
  BY <1>1, <1>2, <1>3, Bounds DEF Init, ClientsAccounted
<1>5. BacklogInv /\ BatchInv /\ NoLostEdge /\ AskedInv /\ ClientInv
  BY <1>1 DEF Init, BacklogInv, BatchInv, NoLostEdge, AskedInv, ClientInv
<1>6. ASSUME NEW c \in Conns PROVE ReplyOf(c, "error", 1)
  BY <1>1 DEF Init, ReplyOf, Owed, Of
<1>7. ReplyInv
  BY <1>6 DEF ReplyInv, Unit, Init
<1> QED BY <1>4, <1>5, <1>7, Zenon DEF UdsInv

LEMMA UdsStep == UdsInv /\ [Next]_vars => UdsInv'
<1> SUFFICES ASSUME UdsInv, [Next]_vars PROVE UdsInv'
  BY Zenon
<1>1. CASE UNCHANGED vars
  <2>1. UNCHANGED <<client, active, loop, running, shutdown, accept_failed, unqueued, ready, batch,
                    backlog, conn, rx, wire, peer, asked, got, sent>>
    BY <1>1, Zenon DEF vars, serverVars, pollVars, peerVars
  <2>2. /\ AskedInv' /\ ClientInv' /\ ReplyInv' /\ BacklogInv' /\ Clients' = Clients
        /\ \A f \in Clients : Reported(f)' = Reported(f)
    BY <2>1, LoopFrame, Zenon
  <2>3. ClientsAccounted'
    BY <2>1, <2>2 DEF UdsInv, ClientsAccounted, TypeOK
  <2>4. BatchInv' /\ NoLostEdge'
    BY <2>1, <2>2, Zenon DEF UdsInv, BatchInv, NoLostEdge
  <2> QED BY <2>2, <2>3, <2>4, Zenon DEF UdsInv
<1>2. CASE EpollWait
  BY <1>2, EpollWaitKeeps, Zenon
<1>3. CASE ListenerEvent
  BY <1>3, ListenerEventKeeps, Zenon
<1>4. CASE Refuse
  BY <1>4, RefuseKeeps, Zenon
<1>5. CASE Accept
  BY <1>5, AcceptKeeps, Zenon
<1>6. CASE AcceptEnds
  BY <1>6, AcceptEndsKeeps, Zenon
<1>7. ASSUME NEW b \in batch, uds_client_cb(b) PROVE UdsInv'
  BY <1>7, CallbackServes, CallbackReplies, Zenon DEF UdsInv
<1>8. CASE uds_cleanup
  BY <1>8, CleanupKeeps, Zenon
<1>9. CASE uds_idle_timer_cb
  BY <1>9, IdleScanKeeps, Zenon
<1>10. CASE SignalStop
  BY <1>10, SignalStopKeeps, Zenon
<1>11. CASE Peers
  BY <1>11, ConnectKeeps, SendKeeps, ReceiveKeeps, HangUpKeeps, Zenon DEF Peers
<1> QED BY <1>1, <1>2, <1>3, <1>4, <1>5, <1>6, <1>7, <1>8, <1>9, <1>10, <1>11, Zenon
        DEF Next, Server

LEMMA UdsInvariant == Spec => []UdsInv
BY UdsStarts, UdsStep, PTL DEF Spec

\* For any number of connections, descriptors and clients, and any sizes of the
\* buffers: the table of uds.c counts and holds exactly the open connections and
\* respects UDS_MAX_CLIENTS, and no edge of the edge-triggered sockets is lost.
THEOREM ClientsServedHolds == Spec => []ClientsServed
<1>1. UdsInv => ClientsServed
  BY Zenon DEF UdsInv, ClientsServed
<1> QED BY <1>1, UdsInvariant, PTL

\* No event and no reply reaches another connection than the one it is about,
\* although uds_accept_cb reuses descriptors inside a batch and replies are sent
\* piecewise: a peer has a prefix of the answer to its own command.
THEOREM RepliesMatchHold == Spec => []RepliesMatch
<1>1. ASSUME UdsInv PROVE BatchFresh
  BY <1>1, Zenon DEF UdsInv, BatchInv, BatchFresh
<1>2. ASSUME UdsInv PROVE ReplyMatches
  <2> SUFFICES ASSUME NEW c \in Conns
               PROVE  \/ /\ asked[c] # "none"
                         /\ IsPrefix(got[c] \o wire[c], process_command(asked[c]))
                      \/ IsPrefix(got[c] \o wire[c], <<"error">>)
    BY Zenon DEF ReplyMatches
  <2>1. PICK u \in Unit, n \in 1 .. 2 : ReplyOf(c, u, n)
    BY <1>2, Zenon DEF UdsInv, ReplyInv
  <2>2. got[c] \in Seq(Unit) /\ wire[c] \in Seq(Unit)
    BY <1>2, ConnTypes, Zenon DEF UdsInv, ClientsAccounted
  <2> DEFINE seen == got[c] \o wire[c]
  <2>3. seen \in Seq(Unit) /\ Len(seen) = Len(got[c]) + Len(wire[c]) /\ Of(seen, u)
    BY <2>1, <2>2, JoinReply, Zenon DEF ReplyOf
  <2>4. Len(seen) <= n /\ Owed(c, u, n)
    BY <2>1, <2>3, Zenon DEF ReplyOf
  <2> HIDE DEF seen
  <2>5. IsPrefix(seen, IF n = 1 THEN <<u>> ELSE <<u, u>>)
    BY <2>3, <2>4, ShortReply, Zenon
  <2>6. /\ process_command("stop") = <<"stop">>
        /\ process_command("query") = <<"query", "query">>
    BY Zenon DEF process_command
  <2>7. CASE u = "error" /\ n = 1
    BY <2>5, <2>7, Zenon DEF seen
  <2>8. CASE u = "stop" /\ n = 1 /\ asked[c] = "stop"
    BY <2>5, <2>6, <2>8, Zenon DEF seen
  <2>9. CASE u = "query" /\ n = 2 /\ asked[c] = "query"
    BY <2>5, <2>6, <2>9 DEF seen
  <2> QED BY <2>4, <2>7, <2>8, <2>9, Zenon DEF Owed
<1> QED BY <1>1, <1>2, UdsInvariant, PTL DEF RepliesMatch

\* A stop command takes effect only for a peer that asked for it, and when its
\* reply is with the socket of that peer, who is still there, or found no memory
\* in this callback (handle_stop, uds_client_flush).
THEOREM StopAcknowledgedHolds == Spec => StopAcknowledged
<1> DEFINE Acknowledged ==
        loop = "batch" /\ shutdown' # shutdown =>
           \E c \in Conns : /\ asked[c] = "stop"
                            /\ \/ /\ peer[c] = "open"
                                  /\ got[c] \o wire'[c] = process_command("stop")
                               \/ c \in unqueued'
<1>1. ASSUME UdsInv, Next PROVE Acknowledged
  <2> SUFFICES ASSUME loop = "batch", shutdown' # shutdown
               PROVE  \E c \in Conns : /\ asked[c] = "stop"
                                       /\ \/ /\ peer[c] = "open"
                                             /\ got[c] \o wire'[c] = process_command("stop")
                                          \/ c \in unqueued'
    BY Zenon
  <2>1. PICK b \in batch : uds_client_cb(b)
    BY <1>1, Zenon DEF Next, Server, Peers, EpollWait, ListenerEvent, Refuse, Accept,
       AcceptEnds,
                uds_cleanup, uds_idle_timer_cb, SignalStop, Connect, Send, Receive, HangUp,
                serverVars
  <2> PICK fd : fd = b.fd
    BY Zenon
  <2> PICK c : c = client[fd].conn
    BY Zenon
  <2>2. c \in Conns /\ Effect(fd, c)
    BY <1>1, <2>1, CallbackEffect, Zenon
  <2>3. /\ asked[c] = "stop"
        /\ \/ peer[c] = "open" /\ got[c] = <<>> /\ wire'[c] = <<"stop">>
           \/ c \in unqueued'
    BY <2>2, Zenon DEF Effect, Sends
  <2>4. <<>> \o <<"stop">> = <<"stop">>
    OBVIOUS
  <2>5. process_command("stop") = <<"stop">>
    BY Zenon DEF process_command
  <2> QED BY <2>2, <2>3, <2>4, <2>5, Zenon
<1>2. UdsInv /\ [Next]_vars => [Acknowledged]_vars
  BY <1>1, Zenon
<1> QED BY <1>2, UdsInvariant, PTL DEF Spec, StopAcknowledged

=============================================================================
