---------------------------- MODULE Diagnostics -----------------------------
(***************************************************************************)
(* What the daemon remembers of its past: the ring of recent errors         *)
(* (src/atpd_error.c) and the log file with its rotated predecessors        *)
(* (src/logger.c), both written by the reactor's thread and the API worker. *)
(*                                                                         *)
(* Every critical section is one step.  A push is two of them, the ring and *)
(* then the log, and a log line is two, reading the level and then writing. *)
(* A record is a number, given out in the order the ring or the log file    *)
(* takes them; the histories pushed and logged are in that order too.       *)
(***************************************************************************)
EXTENDS Naturals, Sequences, SequencesExt

CONSTANTS
    Writers,       \* threads
    ErrorMax,      \* ATPD_ERROR_MAX
    RotateCount,   \* g_log_config.rotate_count: the file and its predecessors
    MaxFileSize,   \* max_file_size, in lines
    MaxRecords     \* bound: errors pushed and lines written, each

VARIABLES
    ring,    \* g_error_ring: entries, count, head, tail, total
    log,     \* g_log_config, g_log_fp, g_current_log_size and the files
    at,      \* at[t]: "idle", "pushed" (an error, not yet logged), "write"
    pushed,  \* history: errors since the last clear
    logged,  \* history: lines written to the file
    turns    \* history: Len(logged) at each of the last RotateCount rotations

vars == <<ring, log, at, pushed, logged, turns>>

Levels == 0 .. 2    \* LOG_LEVEL_DEBUG ..; the last one is LOG_LEVEL_NONE
ErrorLevel == 1

-----------------------------------------------------------------------------
(* atpd_error.c *)

EmptyRing(total) == [entries |-> [i \in 0 .. ErrorMax - 1 |-> 0], count |-> 0, head |-> 0,
                     tail |-> 0, total |-> total]

Pushed_keeps_head(r, e) ==
    [entries |-> [r.entries EXCEPT ![r.tail] = e],
     tail  |-> (r.tail + 1) % ErrorMax,
     count |-> IF r.count < ErrorMax THEN r.count + 1 ELSE r.count,
     head  |-> r.head,
     total |-> r.total + 1]

\* The entry at the tail is overwritten; in a full ring the head moves on.
Pushed(r, e) ==
    [entries |-> [r.entries EXCEPT ![r.tail] = e],
     tail  |-> (r.tail + 1) % ErrorMax,
     count |-> IF r.count < ErrorMax THEN r.count + 1 ELSE r.count,
     head  |-> IF r.count < ErrorMax THEN r.head ELSE (r.head + 1) % ErrorMax,
     total |-> r.total + 1]

atpd_error_push(t) ==
    /\ at[t] = "idle" /\ ring.total < MaxRecords
    /\ ring' = Pushed(ring, ring.total + 1)
    /\ pushed' = Append(pushed, ring.total + 1)
    /\ at' = [at EXCEPT ![t] = "pushed"]
    /\ UNCHANGED <<log, logged, turns>>

\* The total survives.
atpd_error_clear ==
    /\ ring' = EmptyRing(ring.total) /\ pushed' = <<>>
    /\ UNCHANGED <<log, at, logged, turns>>

\* atpd_error_get, by its index; 0 is its failure.
atpd_error_get(r, i) ==
    IF i >= r.count THEN 0 ELSE r.entries[(r.head + i) % ErrorMax]
atpd_error_get_last(r) ==
    IF r.count = 0 THEN 0 ELSE r.entries[(r.tail + ErrorMax - 1) % ErrorMax]
\* The entries as atpd_error_print_all collects them.
atpd_error_print_all(r) == [i \in 1 .. r.count |-> r.entries[(r.head + i - 1) % ErrorMax]]

-----------------------------------------------------------------------------
(* logger.c.  files[1] is the log file, files[i + 1] its predecessor ".i"; a
   file is <<its lines>>, or Missing.                                      *)

Missing == <<>>

log_close_file(l) == [l EXCEPT !.open = 0, !.size = 0]

\* The size counts on from what the file holds; with ok = 0 open or its checks
\* fail.
log_open_file(l, ok) ==
    LET there == IF l.files[1] = Missing THEN <<<<>>>> ELSE l.files[1]
    IN  IF l.open = 1 \/ ok = 0 THEN l
        ELSE [l EXCEPT !.open = 1, !.files[1] = there, !.size = Len(there[1])]

log_rotate_file_clobbers(l, ok) ==
    LET moved == [i \in 1 .. RotateCount |->
                    IF i = 1 THEN Missing ELSE IF i = 2 THEN l.files[1] ELSE l.files[i]]
    IN  log_open_file([log_close_file(l) EXCEPT !.files = IF RotateCount = 1 THEN @ ELSE moved],
                      ok)

\* From the oldest on, each file takes the place of the one before it, and the
\* last one is overwritten if there is one to take its place.  With a
\* rotate_count of one nothing moves.  A rename of a file that is there succeeds.
log_rotate_file(l, ok) ==
    LET moved == [i \in 1 .. RotateCount |->
                    IF i = 1 THEN Missing
                    ELSE IF i = RotateCount /\ l.files[i - 1] = Missing THEN l.files[i]
                    ELSE l.files[i - 1]]
    IN  log_open_file([log_close_file(l) EXCEPT !.files = IF RotateCount = 1 THEN @ ELSE moved],
                      ok)

Turned(lines) == turns' = Append(Tail(turns), Len(lines))

\* log_write_v: the level is read first ...
log_write_v(t, level) ==
    /\ at[t] = "idle" /\ level < 2 /\ level >= log.min
    /\ at' = [at EXCEPT ![t] = "write"]
    /\ UNCHANGED <<ring, log, pushed, logged, turns>>

\* ... an error's line is written unless errors are not logged ...
LogPushed(t) ==
    /\ at[t] = "pushed"
    /\ at' = [at EXCEPT ![t] = IF ErrorLevel >= log.min THEN "write" ELSE "idle"]
    /\ UNCHANGED <<ring, log, pushed, logged, turns>>

\* ... and log_write_file_unlocked writes it, if it can, and rotates.
log_write_file(t, ok) ==
    /\ at[t] = "write" /\ Len(logged) < MaxRecords
    /\ LET l == log_open_file(log, ok)
           w == [l EXCEPT !.files[1][1] = Append(@, Len(logged) + 1), !.size = @ + 1]
       IN  IF log.target = 0 \/ l.open = 0 THEN UNCHANGED <<log, logged, turns>>
           ELSE /\ logged' = Append(logged, Len(logged) + 1)
                /\ IF w.size < MaxFileSize THEN log' = w /\ UNCHANGED turns
                   ELSE log' = log_rotate_file(w, ok) /\ Turned(logged')
    /\ at' = [at EXCEPT ![t] = "idle"]
    /\ UNCHANGED <<ring, pushed>>

log_set_level(n) ==
    /\ log.min # n
    /\ log' = [log EXCEPT !.min = n]
    /\ UNCHANGED <<ring, at, pushed, logged, turns>>

log_set_target(n, ok) ==
    /\ log' = IF n = 1 THEN log_open_file([log EXCEPT !.target = 1], ok)
              ELSE log_close_file([log EXCEPT !.target = 0])
    /\ UNCHANGED <<ring, at, pushed, logged, turns>>

\* The path that is used already, or that of another file.
log_set_file(same, ok) ==
    /\ LET l == log_close_file(IF same = 1 THEN log
                               ELSE [log EXCEPT !.files = [i \in 1 .. RotateCount |-> Missing]])
       IN  log' = IF l.target = 1 THEN log_open_file(l, ok) ELSE l
    /\ IF same = 1 THEN UNCHANGED <<logged, turns>>
       ELSE logged' = <<>> /\ turns' = [i \in 1 .. RotateCount |-> 0]
    /\ UNCHANGED <<ring, at, pushed>>

log_rotate(ok) ==
    /\ log' = log_rotate_file(log, ok) /\ Turned(logged)
    /\ UNCHANGED <<ring, at, pushed, logged>>

logger_close ==
    /\ log' = log_close_file(log)
    /\ UNCHANGED <<ring, at, pushed, logged, turns>>

log_init(ok) ==
    /\ log' = log_open_file(log_close_file(log), ok)
    /\ UNCHANGED <<ring, at, pushed, logged, turns>>

Init ==
    /\ ring = EmptyRing(0) /\ at = [t \in Writers |-> "idle"]
    /\ pushed = <<>> /\ logged = <<>> /\ turns = [i \in 1 .. RotateCount |-> 0]
    /\ log = [min |-> 1, target |-> 1, open |-> 0, size |-> 0,
              files |-> [i \in 1 .. RotateCount |-> Missing]]

Next ==
    \/ \E t \in Writers : atpd_error_push(t) \/ LogPushed(t)
    \/ \E t \in Writers, n \in Levels : log_write_v(t, n)
    \/ atpd_error_clear \/ logger_close
    \/ \E n \in Levels : log_set_level(n)
    \/ \E ok \in {0, 1} : \/ \E t \in Writers : log_write_file(t, ok)
                          \/ \E n \in {0, 1} : log_set_target(n, ok) \/ log_set_file(n, ok)
                          \/ log_rotate(ok) \/ log_init(ok)

-----------------------------------------------------------------------------
Suffix(s, n) == SubSeq(s, Len(s) - n + 1, Len(s))
Kept == FlattenSeq(FlattenSeq(Reverse(log.files)))

(* The past is remembered without holes: the ring holds exactly the latest
   errors since it was cleared, oldest first, read by index, as the last one or
   as a whole (atpd_error_get, atpd_error_get_last, atpd_error_print_all); and
   the log files, from the oldest predecessor to the current one, hold the latest
   lines that were written to them, in order and without a gap, among them every
   line written since the rotation RotateCount rotations ago, whatever threads
   wrote them and however often the files were rotated, closed and opened again;
   and the size that decides on the next rotation is that of the open file
   (log_rotate_file_unlocked).                                               *)
HistoryKept ==
    /\ LET n == IF Len(pushed) < ErrorMax THEN Len(pushed) ELSE ErrorMax IN
       /\ atpd_error_print_all(ring) = Suffix(pushed, n)
       /\ \A i \in 0 .. n - 1 : atpd_error_get(ring, i) = Suffix(pushed, n)[i + 1]
       /\ atpd_error_get(ring, n) = 0
       /\ n > 0 => atpd_error_get_last(ring) = Last(pushed)
    /\ Kept = Suffix(logged, Len(Kept)) /\ Len(Kept) >= Len(logged) - turns[1]
    /\ log.open = 1 => log.size = Len(log.files[1][1])
=============================================================================
