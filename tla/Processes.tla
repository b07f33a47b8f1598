----------------------------- MODULE Processes -----------------------------
(***************************************************************************)
(* What the daemon learns from /proc about processes it cannot hold still: *)
(* the CPU share of sing-box (get_process_cpu_percent and its cache in     *)
(* utils.c), the adoption of the process a PID file names                  *)
(* (service_get_pid, validate_process, service_is_alive in service.c), and *)
(* the search of /proc by name (get_pid_by_name).  Every call reads /proc  *)
(* several times; processes end, and their ids are given to others,        *)
(* between two reads.                                                      *)
(***************************************************************************)
EXTENDS Integers, Sequences, SequencesExt

CONSTANTS
    Pids,          \* process ids, positive integers
    CacheMax,      \* CPU_CACHE_MAX
    MaxClock,      \* bound: last tick of the clock
    MaxCalls       \* bound: calls made

VARIABLES
    proc,          \* process id |-> the process that has it, or None
    clock,         \* ticks: start times, CPU time and the monotonic clock
    cache,         \* g_cpu_cache[0 .. g_cpu_cache_count - 1]
    ctx,           \* service_ctx_t: child_pid, child_starttime_ticks
    pidfile,       \* the number in sing-box.pid, NoFile when there is none
    call,          \* the call in progress: its place and its locals
    answer,        \* what the last call returned
    sampled,       \* history: process id |-> the last CPU sample taken of it
    calls          \* history: number of calls begun

vars == <<proc, clock, cache, ctx, pidfile, call, answer, sampled, calls>>

None == <<>>
NoFile == 0
Unset == 0         \* child_pid -1, child_starttime_ticks 0
NotFound == 0      \* get_pid_by_name, service_get_pid: -1
Idle == [at |-> "idle"]
Quiet == [of |-> "none"]

\* A process: its start time, the CPU ticks it has used, and what its exe
\* link and its comm name.
Kinds == {"sing-box", "renamed", "other"}
exe_matches(p) == p.kind = "sing-box"     \* basename(exe) = basename(bin_path)
comm_matches(p) == p.kind # "other"       \* comm = PROXY_BIN_NAME

Exists(pid) == proc[pid] # None           \* process_exists
Running == {pid \in Pids : Exists(pid)}

----------------------------------------------------------------------------
(* The rest of the machine.                                                *)

\* fork and exec of any program.  The kernel hands out ids in turn: one that
\* was just freed does not come back within the same tick.
Fork ==
    \E pid \in Pids \ Running, k \in Kinds :
        /\ clock < MaxClock
        /\ clock' = clock + 1
        /\ proc' = [proc EXCEPT ![pid] = [start |-> clock', cpu |-> 0, kind |-> k]]
        /\ UNCHANGED <<cache, ctx, pidfile, call, answer, sampled, calls>>

\* A process ends and is reaped.
Exit ==
    \E pid \in Running :
        /\ proc' = [proc EXCEPT ![pid] = None]
        /\ UNCHANGED <<clock, cache, ctx, pidfile, call, answer, sampled, calls>>

\* A tick passes; a process may have used one processor, two, or none of it.
Tick ==
    /\ clock < MaxClock
    /\ clock' = clock + 1
    /\ \E used \in [Running -> {0, 2}] :
          proc' = [pid \in Pids |-> IF Exists(pid)
                                    THEN [proc[pid] EXCEPT !.cpu = @ + used[pid]]
                                    ELSE None]
    /\ UNCHANGED <<cache, ctx, pidfile, call, answer, sampled, calls>>

----------------------------------------------------------------------------
(* get_process_cpu_percent.                                                *)

\* read_proc_stat: the start time and the CPU time, or failure when the
\* process is gone.
read_proc_stat(pid) ==
    IF Exists(pid) THEN [start |-> proc[pid].start, total |-> proc[pid].cpu] ELSE None

CpuRead ==
    /\ calls < MaxCalls /\ call = Idle
    /\ \E pid \in Pids :
          LET stat == read_proc_stat(pid) IN
          IF stat = None
          THEN call' = Idle /\ answer' = [of |-> "cpu", pid |-> pid, percent |-> 0]
          ELSE /\ call' = [at |-> "cpu", pid |-> pid, stat |-> stat]
               /\ answer' = Quiet
    /\ calls' = calls + 1
    /\ UNCHANGED <<proc, clock, cache, ctx, pidfile, sampled>>

Clamp(n) == IF n < 0 THEN 0 ELSE IF n > 100 THEN 100 ELSE n
Share(used, elapsed) == Clamp((used * 100) \div elapsed)

Entry(pid, stat) == [pid |-> pid, start |-> stat.start, total |-> stat.total, time |-> clock]

\* The share an entry and a reading give: none when the process id has
\* changed hands or no time has passed.
PercentSince_any_process(e, stat) ==
    IF e.time > 0 /\ clock > e.time THEN Share(stat.total - e.total, clock - e.time) ELSE 0
PercentSince(e, stat) ==
    IF e.start # stat.start THEN 0
    ELSE IF e.time > 0 /\ clock > e.time THEN Share(stat.total - e.total, clock - e.time)
    ELSE 0

\* The part under g_cpu_cache_mutex.
CpuUpdate ==
    /\ call.at = "cpu"
    /\ LET pid == call.pid
           stat == call.stat
           found == {i \in 1 .. Len(cache) : cache[i].pid = pid}
       IN /\ answer' = [of |-> "cpu", pid |-> pid, start |-> stat.start, total |-> stat.total,
                        time |-> clock, before |-> sampled[pid],
                        percent |-> IF found = {} THEN 0
                                    ELSE PercentSince(cache[CHOOSE i \in found : TRUE], stat)]
          /\ cache' = IF found # {} THEN [cache EXCEPT ![CHOOSE i \in found : TRUE] = Entry(pid, stat)]
                      ELSE IF Len(cache) < CacheMax THEN Append(cache, Entry(pid, stat))
                      ELSE cache
          /\ sampled' = [sampled EXCEPT ![pid] = Entry(pid, stat)]
    /\ call' = Idle
    /\ UNCHANGED <<proc, clock, ctx, pidfile, calls>>

----------------------------------------------------------------------------
(* service_get_pid and validate_process.                                   *)

\* A child the supervisor holds is returned at once; otherwise the PID file
\* is read and the start time of the process it names is taken.
GetPid ==
    /\ calls < MaxCalls /\ call = Idle
    /\ calls' = calls + 1
    /\ LET stat == IF pidfile = NoFile THEN None ELSE read_proc_stat(pidfile) IN
       IF ctx.pid # Unset
       THEN answer' = [of |-> "pid", pid |-> ctx.pid] /\ UNCHANGED <<ctx, call>>
       ELSE IF stat = None
       THEN answer' = [of |-> "pid", pid |-> NotFound] /\ UNCHANGED <<ctx, call>>
       ELSE /\ ctx' = [ctx EXCEPT !.start = stat.start]
            /\ call' = [at |-> "exists", pid |-> pidfile]
            /\ answer' = Quiet
    /\ UNCHANGED <<proc, clock, cache, pidfile, sampled>>

Reject ==
    /\ ctx' = [ctx EXCEPT !.start = Unset]
    /\ answer' = [of |-> "pid", pid |-> NotFound]
    /\ call' = Idle

Adopt ==
    /\ ctx' = [ctx EXCEPT !.pid = call.pid]
    /\ answer' = [of |-> "pid", pid |-> call.pid]
    /\ call' = Idle

\* validate_process: the id must still have the start time just taken; then
\* exe is read, and comm when exe does not match.
ValidateExists ==
    /\ call.at = "exists"
    /\ IF Exists(call.pid) /\ proc[call.pid].start = ctx.start
       THEN call' = [call EXCEPT !.at = "exe"] /\ UNCHANGED <<ctx, answer>>
       ELSE Reject
    /\ UNCHANGED <<proc, clock, cache, pidfile, sampled, calls>>

ValidateExe ==
    /\ call.at = "exe"
    /\ IF Exists(call.pid) /\ exe_matches(proc[call.pid])
       THEN Adopt
       ELSE call' = [call EXCEPT !.at = "comm"] /\ UNCHANGED <<ctx, answer>>
    /\ UNCHANGED <<proc, clock, cache, pidfile, sampled, calls>>

ValidateComm ==
    /\ call.at = "comm"
    /\ IF Exists(call.pid) /\ comm_matches(proc[call.pid]) THEN Adopt ELSE Reject
    /\ UNCHANGED <<proc, clock, cache, pidfile, sampled, calls>>

\* service_is_alive on the child held.
service_is_alive ==
    /\ ctx.pid # Unset /\ Exists(ctx.pid)
    /\ ctx.start # Unset /\ proc[ctx.pid].start = ctx.start

IsAlive ==
    /\ calls < MaxCalls /\ call = Idle /\ ctx.pid # Unset
    /\ answer' = [of |-> "alive", alive |-> service_is_alive,
                  kind |-> IF Exists(ctx.pid) THEN proc[ctx.pid].kind ELSE "gone"]
    /\ calls' = calls + 1
    /\ UNCHANGED <<proc, clock, cache, ctx, pidfile, call, sampled>>

----------------------------------------------------------------------------
(* get_pid_by_name: the ids /proc lists, in ascending order, each looked   *)
(* at when its turn comes.                                                 *)

FindBegin ==
    /\ calls < MaxCalls /\ call = Idle
    /\ call' = [at |-> "find", left |-> SetToSortSeq(Pids, LAMBDA a, b : a < b)]
    /\ answer' = Quiet
    /\ calls' = calls + 1
    /\ UNCHANGED <<proc, clock, cache, ctx, pidfile, sampled>>

FindNext ==
    /\ call.at = "find"
    /\ LET pid == Head(call.left) IN
       IF Exists(pid) /\ (comm_matches(proc[pid]) \/ exe_matches(proc[pid]))
       THEN call' = Idle /\ answer' = [of |-> "find", pid |-> pid, kind |-> proc[pid].kind]
       ELSE IF Len(call.left) = 1
       THEN call' = Idle /\ answer' = [of |-> "find", pid |-> NotFound, kind |-> "none"]
       ELSE call' = [call EXCEPT !.left = Tail(@)] /\ UNCHANGED answer
    /\ UNCHANGED <<proc, clock, cache, ctx, pidfile, sampled, calls>>

Init ==
    /\ proc \in [Pids -> {None}]
    /\ clock = 1
    /\ cache = <<>>
    /\ ctx = [pid |-> Unset, start |-> Unset]
    /\ pidfile \in Pids \cup {NoFile}
    /\ call = Idle /\ answer = Quiet
    /\ sampled = [pid \in Pids |-> None]
    /\ calls = 0

Next ==
    \/ Fork \/ Exit \/ Tick
    \/ CpuRead \/ CpuUpdate
    \/ GetPid \/ ValidateExists \/ ValidateExe \/ ValidateComm \/ IsAlive
    \/ FindBegin \/ FindNext

----------------------------------------------------------------------------
\* A CPU share is about one process: it is what that process used since the
\* sample before, and 0 when the sample before was of another process with
\* the same id.  (get_process_cpu_percent)
CpuTrue ==
    (answer.of = "cpu" /\ answer.percent # 0) =>
        /\ answer.before # None
        /\ answer.before.start = answer.start
        /\ answer.percent = Share(answer.total - answer.before.total,
                                  answer.time - answer.before.time)

\* Whatever ended or started while the PID file was being checked, the
\* supervisor never calls a process alive that is not sing-box: an id that
\* changed hands during the check is adopted with a start time that no
\* longer matches.  (service_get_pid, validate_process, service_is_alive)
AdoptedTrue == (answer.of = "alive" /\ answer.alive) => answer.kind # "other"

\* All answers about processes are true of one process.
ProcTrue ==
    /\ CpuTrue
    /\ AdoptedTrue
    /\ (answer.of = "find" /\ answer.pid # NotFound) => answer.kind # "other"
============================================================================
