------------------------------ MODULE Netlink ------------------------------
(***************************************************************************)
(* How netlink.c asks the kernel about interfaces: netlink_get_active_vpn  *)
(* (getifaddrs, then a link dump over the synchronous socket),             *)
(* netlink_get_iface_stats (/proc/net/dev, then one link request), and the *)
(* life of the three sockets (netlink_init, netlink_xfrm_init,             *)
(* netlink_set_reactor, netlink_cleanup).  Interfaces change during a      *)
(* call; a request may time out and its answer arrive during a later one.  *)
(***************************************************************************)
EXTENDS Integers, Sequences, SequencesExt

CONSTANTS
    Links,         \* interfaces by index 1 .. n, each the kind of its name
    MaxLinks,      \* room in the links array (32)
    MaxCalls,      \* bound: calls made
    MaxChanges,    \* bound: interfaces going up or down
    SockFaults     \* subset of {"ifaddrs", "socket", "send", "recv", "proc", "add_fd"}

VARIABLES
    up,            \* the interfaces that are up (IFF_UP)
    sock,          \* the module's globals: fds, registered, and the reactor's view
    kernel,        \* requests the kernel has not answered completely
    queue,         \* messages waiting in the synchronous socket
    call,          \* the call in progress
    answer,        \* result of the last call
    seq,           \* g_seq
    changes        \* history: number of changes

vars == <<up, sock, kernel, queue, call, answer, seq, changes>>

Index == DOMAIN Links
Nothing == [of |-> "none"]
Idle == [at |-> "idle"]

\* is_proxy_interface, by the prefix of the name.
is_proxy_interface(i) == Links[i] \notin {"eth", "lo"}
is_ipsec(i) == Links[i] = "ipsec"

----------------------------------------------------------------------------
(* The kernel.                                                             *)

\* An interface goes up or down (or is created up, or deleted).
LinkChange ==
    /\ changes < MaxChanges
    /\ \E i \in Index : up' = IF i \in up THEN up \ {i} ELSE up \cup {i}
    /\ call' = IF call.at = "idle" THEN call
               ELSE [call EXCEPT !.some = @ \cup up', !.all = @ \cap up']
    /\ changes' = changes + 1
    /\ UNCHANGED <<sock, kernel, queue, answer, seq>>

\* The next message of the oldest request: a dump goes through the indexes
\* and ends with NLMSG_DONE; a request for one link, without NLM_F_DUMP and
\* NLM_F_ACK, is answered by that link alone.
KernelAnswers ==
    /\ kernel # <<>>
    /\ LET r == Head(kernel)
           msg == [seq |-> r.seq, type |-> "link", index |-> r.next, up |-> r.next \in up]
       IN IF r.next > r.last
          THEN /\ queue' = IF r.dump THEN Append(queue, [seq |-> r.seq, type |-> "done"]) ELSE queue
               /\ kernel' = Tail(kernel)
          ELSE /\ queue' = Append(queue, msg)
               /\ kernel' = [kernel EXCEPT ![1].next = @ + 1]
    /\ UNCHANGED <<up, sock, call, answer, seq, changes>>

----------------------------------------------------------------------------
(* netlink_get_active_vpn and netlink_get_iface_stats.                     *)

\* The first ipsec interface that is up, else the first proxy interface;
\* 0 when there is none.  seen is a sequence of [index, up].
choose_vpn(seen) ==
    LET proxies == {i \in DOMAIN seen : seen[i].up /\ is_proxy_interface(seen[i].index)}
        ipsecs  == {i \in proxies : is_ipsec(seen[i].index)}
    IN  IF ipsecs # {} THEN seen[Min(ipsecs)].index
        ELSE IF proxies # {} THEN seen[Min(proxies)].index ELSE 0

\* getifaddrs sees every interface at once.
getifaddrs_find_vpn == choose_vpn([i \in Index |-> [index |-> i, up |-> i \in up]])

Return(result) == answer' = result /\ call' = Idle

\* The module's socket keeps what was not read of it; a temporary socket is
\* closed with it.
Keep(messages) == IF sock.sync = "closed" THEN <<>> ELSE messages

Started(what) == [at |-> "open", of |-> what, some |-> up, all |-> up]
Vpn(i) == [of |-> "vpn", index |-> i, some |-> up, all |-> up, fault |-> FALSE]

GetActiveVpn ==
    /\ call = Idle /\ seq < MaxCalls
    /\ \/ getifaddrs_find_vpn # 0 /\ Return(Vpn(getifaddrs_find_vpn))
       \/ /\ getifaddrs_find_vpn = 0 \/ "ifaddrs" \in SockFaults
          /\ call' = Started("vpn") /\ answer' = Nothing
    /\ UNCHANGED <<up, sock, kernel, queue, seq, changes>>

\* /proc/net/dev lists every interface with its counters; if it cannot be
\* read, or the interface is in another name space, the socket is asked.
GetIfaceStats ==
    /\ call = Idle /\ seq < MaxCalls
    /\ \E i \in Index :
          \/ Return([of |-> "stats", asked |-> i, index |-> i])
          \/ "proc" \in SockFaults /\ call' = Started("stats") @@ [asked |-> i] /\ answer' = Nothing
    /\ UNCHANGED <<up, sock, kernel, queue, seq, changes>>

Error == Return(IF call.of = "vpn"
                THEN [of |-> "vpn", index |-> 0, some |-> call.some, all |-> call.all, fault |-> TRUE]
                ELSE [of |-> "stats", asked |-> call.asked, index |-> 0])

\* A dump of all links, or one link by its index.
Request ==
    IF call.of = "vpn"
    THEN [seq |-> seq, next |-> 1, last |-> Len(Links), dump |-> TRUE]
    ELSE [seq |-> seq, next |-> call.asked, last |-> call.asked, dump |-> FALSE]

\* A temporary socket when there is none; g_seq advances, also when
\* if_nametoindex no longer knows the interface; the socket is drained and
\* the request sent.
SendRequest ==
    /\ call.at = "open"
    /\ \/ /\ sock.sync = "closed" /\ "socket" \in SockFaults /\ Error
          /\ UNCHANGED <<kernel, queue, seq>>
       \/ call.of = "stats" /\ seq' = seq + 1 /\ Error /\ UNCHANGED <<kernel, queue>>
       \/ /\ seq' = seq + 1
          /\ queue' = <<>>
          /\ \/ /\ kernel' = Append(kernel, Request)
                /\ call' = [call EXCEPT !.at = "recv"] @@ [seq |-> seq, seen |-> <<>>]
                /\ UNCHANGED answer
             \/ "send" \in SockFaults /\ Error /\ UNCHANGED kernel
    /\ UNCHANGED <<up, sock, changes>>

\* parser_link_sync: a link beyond the array is ignored.
parser_link_sync(seen, msg) ==
    IF Len(seen) >= (IF call.of = "vpn" THEN MaxLinks ELSE 1) THEN seen
    ELSE Append(seen, [index |-> msg.index, up |-> msg.up])

\* netlink_recv_all_with_timeout: a message of another request is passed
\* over.
answers_this_request_any(msg) == TRUE
answers_this_request(msg) == msg.seq = call.seq

\* The end of the dump.  (A request for one link gets no NLMSG_DONE and no
\* acknowledgement, so that its call always ends by the timeout.)
Finish ==
    Return(IF call.of = "vpn"
           THEN [of |-> "vpn", index |-> choose_vpn(call.seen),
                 some |-> call.some, all |-> call.all, fault |-> FALSE]
           ELSE [of |-> "stats", asked |-> call.asked,
                 index |-> IF call.seen = <<>> THEN 0 ELSE call.seen[1].index])

Receive ==
    /\ call.at = "recv" /\ queue # <<>>
    /\ LET msg == Head(queue) IN
       IF answers_this_request(msg) /\ msg.type = "done"
       THEN Finish /\ queue' = Keep(Tail(queue)) /\ kernel' = Keep(kernel)
       ELSE /\ call' = IF ~answers_this_request(msg) THEN call
                       ELSE [call EXCEPT !.seen = parser_link_sync(@, msg)]
            /\ queue' = Tail(queue)
            /\ UNCHANGED <<answer, kernel>>
    /\ UNCHANGED <<up, sock, seq, changes>>

\* SO_RCVTIMEO passes without a message; or there is no memory for the
\* buffer, recv fails, or the kernel answers with an error.
ReceiveFails ==
    /\ call.at = "recv" /\ (queue = <<>> \/ "recv" \in SockFaults)
    /\ Error
    /\ queue' = Keep(queue) /\ kernel' = Keep(kernel)
    /\ UNCHANGED <<up, sock, seq, changes>>

----------------------------------------------------------------------------
(* The sockets.                                                            *)

Fault(kind) == kind \in SockFaults

\* netlink_init: both route sockets or neither.
netlink_init ==
    /\ sock.phase = "new" /\ call = Idle
    /\ \/ sock' = [sock EXCEPT !.phase = "up", !.sync = "open", !.async = "open"]
       \/ Fault("socket") /\ sock' = [sock EXCEPT !.phase = "failed"]
    /\ UNCHANGED <<up, kernel, queue, call, answer, seq, changes>>

Register == [sock EXCEPT !.registered = TRUE, !.reactor = TRUE, !.watched = TRUE]

\* netlink_xfrm_init(r), with and without a reactor, repeatable.
netlink_xfrm_init ==
    /\ sock.phase = "up" /\ call = Idle
    /\ \E r \in {TRUE, FALSE} :
          IF sock.xfrm = "open"
          THEN \/ r /\ ~sock.registered /\ sock' = Register
               \/ (~r \/ sock.registered \/ Fault("add_fd")) /\ UNCHANGED sock
          ELSE \/ Fault("socket") /\ UNCHANGED sock
               \/ ~r /\ sock' = [sock EXCEPT !.xfrm = "open"]
               \/ r /\ sock' = [Register EXCEPT !.xfrm = "open"]
               \/ r /\ Fault("add_fd") /\ UNCHANGED sock           \* closed again
    /\ UNCHANGED <<up, kernel, queue, call, answer, seq, changes>>

\* netlink_set_reactor: registers an XFRM socket opened before the reactor.
netlink_set_reactor ==
    /\ sock.phase = "up" /\ call = Idle
    /\ \/ sock.xfrm = "open" /\ ~sock.registered /\ sock' = Register
       \/ (sock.xfrm = "closed" \/ sock.registered \/ Fault("add_fd")) /\ UNCHANGED sock
    /\ UNCHANGED <<up, kernel, queue, call, answer, seq, changes>>

netlink_cleanup ==
    /\ sock.phase = "up" /\ call = Idle
    /\ sock' = [phase |-> "closed", sync |-> "closed", async |-> "closed", xfrm |-> "closed",
                registered |-> FALSE, reactor |-> FALSE,
                watched |-> IF sock.xfrm = "open" /\ sock.reactor THEN FALSE ELSE sock.watched]
    /\ queue' = <<>> /\ kernel' = <<>>
    /\ UNCHANGED <<up, call, answer, seq, changes>>

Init ==
    /\ up \in SUBSET Index
    /\ sock = [phase |-> "new", sync |-> "closed", async |-> "closed", xfrm |-> "closed",
               registered |-> FALSE, reactor |-> FALSE, watched |-> FALSE]
    /\ kernel = <<>> /\ queue = <<>>
    /\ call = Idle /\ answer = Nothing
    /\ seq = 0 /\ changes = 0

Next ==
    \/ LinkChange \/ KernelAnswers
    \/ GetActiveVpn \/ GetIfaceStats \/ SendRequest \/ Receive \/ ReceiveFails
    \/ netlink_init \/ netlink_xfrm_init \/ netlink_set_reactor \/ netlink_cleanup

----------------------------------------------------------------------------
\* The interface reported as the active VPN is a proxy interface that was up
\* at some moment of the call, never one out of a late answer to an earlier
\* request.  Unless a system call failed, none is reported only when no
\* proxy interface was up throughout, and another than an ipsec one only
\* when no ipsec interface was (as long as the array holds them all).
VpnTrue ==
    answer.of = "vpn" =>
        /\ answer.index # 0 => is_proxy_interface(answer.index) /\ answer.index \in answer.some
        /\ (answer.index = 0 /\ ~answer.fault) =>
              \A i \in answer.all : i <= MaxLinks => ~is_proxy_interface(i)
        /\ (answer.index # 0 /\ ~answer.fault /\ ~is_ipsec(answer.index)) =>
              \A i \in answer.all : i <= MaxLinks => ~is_ipsec(i)

\* Counters are those of the interface asked for; the reactor watches the
\* XFRM socket exactly while the module counts it as registered and holds
\* it, and after cleanup nothing is open.
NetlinkTrue ==
    /\ VpnTrue
    /\ (answer.of = "stats" /\ answer.index # 0) => answer.index = answer.asked
    /\ sock.registered = sock.watched
    /\ sock.watched => sock.xfrm = "open"
    /\ sock.phase # "up" => {sock.sync, sock.async, sock.xfrm} = {"closed"}
============================================================================
