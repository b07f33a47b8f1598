------------------------------- MODULE Splice -------------------------------
(***************************************************************************)
(* The splice pump for non-blocking descriptors (src/splice.c): each call   *)
(* of atpd_bridge_splice_stateful empties what an earlier call left in the  *)
(* pipe, moves one chunk from fd_in into it and on to fd_out, and keeps in  *)
(* pipe_pending what fd_out did not take.                                   *)
(*                                                                         *)
(* The whole state is the record sp.  The kernel's answers to splice are    *)
(* parameters: how many units it moves before it stops, and why it stops.   *)
(***************************************************************************)
EXTENDS Integers

CONSTANTS
    PipeCapacity,  \* ATPD_SPLICE_PIPE_SIZE and chunk, in units
    MaxPerEvent,   \* ATPD_SPLICE_MAX_PER_EVENT, in units
    Limits,        \* max_len of the callers, 0 for none
    SpliceUnits    \* bound: units that arrive on fd_in

VARIABLE sp

\* The return codes, which also name why the kernel's splice moves no more: end
\* of file, EPIPE or ECONNRESET; EAGAIN; EINVAL, ENOSYS or ESPIPE; the rest.
OK == 0
EOF == -1
EAGAIN == -2
NOTSUP == -3
ERROR == -4
Stops == {EOF, EAGAIN, NOTSUP, ERROR}
Broken == {NOTSUP, ERROR}

AtMost(a, b) == IF a < b THEN a ELSE b

Zero == [init |-> 0, pending |-> 0, bytes_in |-> 0, bytes_out |-> 0,
         kernel |-> 0, src |-> SpliceUnits, delivered |-> 0, call |-> 0,
         max |-> 0, ret |-> OK, broken |-> 0]

Init == sp = Zero

\* Under F_SETPIPE_SZ failing the capacity is that of the kernel's default.
atpd_splice_state_init ==
    /\ sp.init = 0
    /\ sp' = [sp EXCEPT !.init = 1, !.ret = OK]

\* What is in the pipe is discarded.
atpd_splice_state_cleanup ==
    /\ sp.init = 1
    /\ sp' = [Zero EXCEPT !.src = sp.src]

-----------------------------------------------------------------------------
\* Splicing "to" units from the pipe to fd_out: m of them are moved before
\* stop, or all of them.
OutDone(to, m)    == m = to
\* The counters follow, except when the loop is left for a fatal error.
Counted(to, m, stop) == IF OutDone(to, m) \/ stop \notin Broken THEN m ELSE 0

Drained(s, to, m, stop) ==
    [s EXCEPT !.kernel = @ - m, !.delivered = @ + m, !.call = @ + m,
              !.pending = @ - Counted(to, m, stop),
              !.bytes_out = @ + Counted(to, m, stop),
              !.broken = IF ~OutDone(to, m) /\ stop \in Broken THEN 1 ELSE @]

\* The return value: total bytes if any, else the reason.
Value(total, why) == IF total > 0 THEN total ELSE why
Returned(s, v)    == [s EXCEPT !.ret = v]

\* A phase that empties the pipe stops before it is done: an error or what this
\* phase moved, and what earlier phases moved if this one moved anything.
Stopped(s, m, total, stop) ==
    Returned(s, IF stop \in Broken \/ m = 0 THEN stop ELSE total + m)

\* Phase 3: pipe -> fd_out.
WritePhase(s, total, limit, m, stop) ==
    LET to == AtMost(s.pending, limit)
        t  == Drained(s, to, m, stop)
    IN  IF OutDone(to, m) THEN Returned(t, Value(total + m, OK)) ELSE Stopped(t, m, total, stop)

\* Phase 2: fd_in -> pipe, one chunk of n units, only when the pipe is empty.
ReadChunk(s, limit) == AtMost(AtMost(PipeCapacity - s.kernel, limit), s.src)
ReadPhase(s, n) ==
    [s EXCEPT !.kernel = @ + n, !.src = @ - n, !.pending = @ + n, !.bytes_in = @ + n]
ReadStopped(s, total, why) ==
    Returned(s, IF why \in Broken THEN why ELSE Value(total, why))

\* Phase 1 has emptied d units; the limit for the rest of the call.
Ceiling(max)      == IF max = 0 THEN MaxPerEvent ELSE AtMost(max, MaxPerEvent)
LimitAfter_afresh(max, d) == Ceiling(max)
LimitAfter(max, d) == IF max = 0 THEN MaxPerEvent ELSE AtMost(max - d, MaxPerEvent)

\* One call.  m1, n and m3 are what the kernel moves in the three phases, why
\* is the reason it moves no more in the phase in which the call ends.
atpd_bridge_splice_stateful(max, m1, n, m3, why) ==
    /\ sp.init = 1
    /\ LET s0  == [sp EXCEPT !.call = 0, !.max = max]
           to1 == AtMost(s0.pending, Ceiling(max))
           s1  == Drained(s0, to1, m1, why)
           lim == LimitAfter(max, m1)
           s2  == ReadPhase(s1, n)
       IN  /\ m1 \in 0 .. AtMost(to1, sp.kernel)
           /\ \/ /\ ~OutDone(to1, m1) /\ n = 0 /\ m3 = 0
                 /\ sp' = Stopped(s1, m1, 0, why)
              \/ /\ OutDone(to1, m1) /\ n = 0 /\ m3 = 0
                 /\ (m1 > 0 /\ max > 0 /\ m1 >= max) \/ s1.pending > 0
                 /\ sp' = Returned(s1, m1)
              \/ /\ OutDone(to1, m1) /\ ~(m1 > 0 /\ max > 0 /\ m1 >= max) /\ s1.pending = 0
                 /\ \/ n = 0 /\ m3 = 0 /\ sp' = ReadStopped([s1 EXCEPT !.broken = sp.broken],
                                                            m1, why)
                    \/ /\ n \in 1 .. ReadChunk(s1, lim)
                       /\ m3 \in 0 .. n
                       /\ sp' = WritePhase(s2, m1, lim, m3, why)

\* The deprecated entry starts from an empty record every time, and so forgets
\* what the last call left in the pipe.
atpd_bridge_splice(max, n, m3, why) ==
    /\ sp.init = 1
    /\ LET own == [sp EXCEPT !.call = 0, !.max = max, !.pending = 0]
           t   == IF n = 0 THEN ReadStopped(own, 0, why)
                  ELSE WritePhase(ReadPhase(own, n), 0, Ceiling(max), m3, why)
       IN  /\ n \in 0 .. ReadChunk(sp, Ceiling(max)) /\ m3 \in 0 .. n
           /\ sp' = [t EXCEPT !.pending = sp.pending, !.bytes_in = sp.bytes_in,
                              !.bytes_out = sp.bytes_out, !.broken = 1]

Units == 0 .. PipeCapacity
Next ==
    \/ atpd_splice_state_init \/ atpd_splice_state_cleanup
    \/ \E max \in Limits, m1, n, m3 \in Units, why \in Stops :
          atpd_bridge_splice_stateful(max, m1, n, m3, why)
    \/ \E max \in Limits, n, m3 \in Units, why \in Stops : atpd_bridge_splice(max, n, m3, why)

-----------------------------------------------------------------------------
(* Nothing is lost, repeated or overstated by the pump: the record agrees with
   the kernel's pipe and with the bytes counted in and out (the assertions at
   the head of atpd_bridge_splice_stateful), through any sequence of short
   writes and full sinks; a record on which a fatal error broke off a write, or
   on which the deprecated entry was used, is exempt from this.  A call never
   returns more than it delivered, and never delivers more than max_len, or
   without one more than two events' worth, one left in the pipe by an earlier
   call and one new.                                                         *)
SpliceExact ==
    /\ sp.broken = 0 => /\ sp.kernel = sp.pending
                        /\ sp.bytes_in = sp.bytes_out + sp.pending
                        /\ sp.bytes_out = sp.delivered
    /\ sp.ret <= sp.call
    /\ sp.call <= IF sp.max > 0 THEN sp.max ELSE 2 * MaxPerEvent
    /\ sp.pending <= PipeCapacity
=============================================================================
