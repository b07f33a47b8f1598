------------------------------ MODULE Instance ------------------------------
(***************************************************************************)
(* Which daemon is the daemon: the start, stop and reload commands of        *)
(* main.c as processes that share one directory with the PID file and its    *)
(* record lock, the control socket's path (uds_init, uds_cleanup) and        *)
(* sing-box.pid, and that may be killed at any moment.                       *)
(*                                                                         *)
(* A process is its identity (pid and start time), so a PID is never reused. *)
(* A step is one system call on shared state with what surrounds it.  What   *)
(* the daemon does between those calls is in module Daemon, the child's own  *)
(* life in module Service; here the child lives until somebody stops it.     *)
(***************************************************************************)
EXTENDS Naturals, FiniteSets

CONSTANTS
    Procs,        \* the processes that `atpd start` makes, one per command
    Ctls,         \* `atpd stop` and `atpd reload` commands
    Scenarios,    \* how many commands are given, how, and what may fail
    Inodes,       \* of the PID files, more than there are processes
    None

(* "crash": a daemon is killed; "io": the PID file cannot be written; "init":
   a phase of startup fails; "slow": a stop command's polls run out.        *)
FaultKinds == {"crash", "io", "init", "slow"}

(* A scenario: the number of starts and of other commands; whether commands
   overlap or each waits for the one before; and the faults.               *)
Scenario == [starts : Nat, ctls : Nat, overlap : {0, 1}, faults : SUBSET FaultKinds]

ASSUME InstanceAssumption ==
    /\ IsFiniteSet(Procs) /\ IsFiniteSet(Ctls)
    /\ \A cs \in SUBSET Ctls : Cardinality(cs) \in Nat
    /\ None \notin Procs /\ None \notin Inodes
    /\ "empty" \notin Procs /\ "torn" \notin Procs
    /\ \A f \in [Procs -> Inodes \cup {None}] :
         \E i \in Inodes : \A p \in Procs : f[p] # i
    /\ Scenarios \subseteq Scenario

VARIABLES
    \* the directory: the PID file's inode, every inode's bytes and lock, the
    \* socket's path (who bound it) and sing-box.pid (whose child it names)
    path, content, lock, sock, sbpid,
    \* the processes: control point, PID file descriptor, listening socket,
    \* g_uds_path set, sing-box alive, pending signals, what the parent told
    pc, fd, listening, upath, child, sig, report,
    \* the commands: control point and the identity read; who was SIGKILLed
    cpc, target, killed,
    scenario      \* chosen at the beginning

fileVars == <<path, content, lock>>
dirVars  == <<sock, sbpid>>
procVars == <<pc, fd, listening, upath, child, sig, report>>
ctlVars  == <<cpc, target>>
histVars == <<killed, scenario>>
vars == <<fileVars, dirVars, procVars, ctlVars, histVars>>

Flag   == {0, 1}
Faults == scenario.faults

(* Control points, in the order of do_start and run_event_loop: those before
   signals are blocked, those of startup after, and those of the teardown.  *)
Early    == {"open", "lock", "write", "trunc", "init"}
Setup    == {"probe", "stale", "bind", "listen", "spawn", "wait"}
Teardown == {"uds_close", "uds_unlink", "destroy", "release", "remove"}
PC  == {"idle", "dead", "run"} \cup Early \cup Setup \cup Teardown
CPC == {"idle", "match", "kill", "hup", "poll", "poll_killed", "unlink",
        "ok", "reloaded", "failed"}

Alive(p) == pc[p] \notin {"idle", "dead"}

(* A start command has returned once its parent was told or lost the pipe. *)
Finished(p) == pc[p] \in {"idle", "dead"} \/ report[p] # "none"
MayIssue ==
    \/ scenario.overlap = 1
    \/ /\ \A p \in Procs : Finished(p)
       /\ \A c \in Ctls : cpc[c] \in {"idle", "ok", "reloaded", "failed"}

(* An inode that no path and no descriptor refers to. *)
Fresh == CHOOSE i \in Inodes : i # path /\ \A p \in Procs : fd[p] # i

Goto(p, to) == pc' = [pc EXCEPT ![p] = to]
Told(p, what) == IF report[p] = "none" THEN [report EXCEPT ![p] = what]
                                       ELSE report
Unlocked(p) == [i \in Inodes |-> IF lock[i] = p THEN None ELSE lock[i]]

Init ==
    /\ path = None /\ sock = None /\ sbpid = None
    /\ content = [i \in Inodes |-> "empty"]
    /\ lock = [i \in Inodes |-> None]
    /\ pc = [p \in Procs |-> "idle"]
    /\ fd = [p \in Procs |-> None]
    /\ listening = [p \in Procs |-> 0]
    /\ upath = [p \in Procs |-> 0]
    /\ child = [p \in Procs |-> 0]
    /\ sig = [p \in Procs |-> {}]
    /\ report = [p \in Procs |-> "none"]
    /\ cpc = [c \in Ctls |-> "idle"]
    /\ target = [c \in Ctls |-> None]
    /\ killed = {} /\ scenario \in Scenarios

-----------------------------------------------------------------------------
(* preflight_startup: a scratch service context validates the configuration;
   destroying it removes sing-box.pid.                                     *)
preflight_startup(p) ==
    /\ pc[p] = "idle" /\ MayIssue
    /\ Cardinality({q \in Procs : pc[q] # "idle"}) < scenario.starts
    /\ sbpid' = None
    /\ \/ Goto(p, "open") /\ UNCHANGED report
       \/ "init" \in Faults /\ Goto(p, "dead") /\ report' = Told(p, "fail")
    /\ UNCHANGED <<fileVars, sock, fd, listening, upath, child, sig, ctlVars,
                   histVars>>

(* write_pid_file: open(O_CREAT). *)
OpenPid(p) ==
    /\ pc[p] = "open"
    /\ LET i == IF path = None THEN Fresh ELSE path IN
       /\ fd' = [fd EXCEPT ![p] = i]
       /\ path' = i
       /\ content' = IF path = None THEN [content EXCEPT ![i] = "empty"]
                                    ELSE content
    /\ Goto(p, "lock")
    /\ UNCHANGED <<lock, dirVars, listening, upath, child, sig, report, ctlVars,
                   histVars>>

LockFree(p) == lock[fd[p]] = None

(* write_pid_file: fcntl(F_SETLK).  Refused, the start ends and leaves the file
   to its holder.                                                          *)
LockPid_unlinks(p) ==
    /\ pc[p] = "lock"
    /\ IF LockFree(p)
       THEN /\ lock' = [lock EXCEPT ![fd[p]] = p]
            /\ Goto(p, "write")
            /\ UNCHANGED <<path, fd, report>>
       ELSE /\ fd' = [fd EXCEPT ![p] = None]
            /\ report' = Told(p, "fail")
            /\ path' = None
            /\ Goto(p, "dead")
            /\ UNCHANGED lock
    /\ UNCHANGED <<content, dirVars, listening, upath, child, sig, ctlVars, histVars>>

LockPid(p) ==
    /\ pc[p] = "lock"
    /\ IF LockFree(p)
       THEN /\ lock' = [lock EXCEPT ![fd[p]] = p]
            /\ Goto(p, "write")
            /\ UNCHANGED <<fd, report>>
       ELSE /\ fd' = [fd EXCEPT ![p] = None]
            /\ report' = Told(p, "fail")
            /\ Goto(p, "dead")
            /\ UNCHANGED lock
    /\ UNCHANGED <<path, content, dirVars, listening, upath, child, sig, ctlVars,
                   histVars>>

(* write_pid_file: pwrite over what the file held.  Until ftruncate, the end of
   a longer old identity may follow the new one; a reader rejects that.    *)
WritePid(p) ==
    /\ pc[p] = "write"
    /\ \/ /\ content' \in {[content EXCEPT ![fd[p]] = b] :
                             b \in {p} \cup (IF content[fd[p]] = "empty" THEN {}
                                             ELSE {"torn"})}
          /\ Goto(p, "trunc")
       \/ "io" \in Faults /\ Goto(p, "release") /\ UNCHANGED content
    /\ UNCHANGED <<path, lock, dirVars, fd, listening, upath, child, sig, report,
                   ctlVars, histVars>>

(* write_pid_file: ftruncate and fsync. *)
TruncatePid(p) ==
    /\ pc[p] = "trunc"
    /\ \/ content' = [content EXCEPT ![fd[p]] = p] /\ Goto(p, "init")
       \/ "io" \in Faults /\ Goto(p, "release") /\ UNCHANGED content
    /\ UNCHANGED <<path, lock, dirVars, fd, listening, upath, child, sig, report,
                   ctlVars, histVars>>

(* atpd_context_init and atpd_init_run, up to the signals run_event_loop
   blocks.  A failure, after which a service made already is destroyed and with
   it sing-box.pid, is told to the parent before the PID file goes; one of
   run_event_loop's own first steps goes through its whole teardown.       *)
InitRun(p) ==
    /\ pc[p] = "init"
    /\ \/ Goto(p, "probe") /\ UNCHANGED <<sbpid, report>>
       \/ /\ "init" \in Faults /\ sbpid' \in {sbpid, None}
          /\ Goto(p, "release") /\ report' = Told(p, "fail")
       \/ "init" \in Faults /\ Goto(p, "uds_close") /\ UNCHANGED <<sbpid, report>>
    /\ UNCHANGED <<fileVars, sock, fd, listening, upath, child, sig, ctlVars,
                   histVars>>

-----------------------------------------------------------------------------
(* uds_prepare_socket_path: connect decides whether the path is in use; only a
   socket that nobody listens on may go.                                   *)
SocketActive == sock # None /\ listening[sock] = 1

uds_prepare_socket_path(p) ==
    /\ pc[p] = "probe"
    /\ upath' = [upath EXCEPT ![p] = 1]
    /\ Goto(p, IF sock = None THEN "bind"
               ELSE IF SocketActive THEN "uds_close" ELSE "stale")
    /\ UNCHANGED <<fileVars, dirVars, fd, listening, child, sig, report, ctlVars,
                   histVars>>

(* uds_prepare_socket_path: unlink of the path that was found stale. *)
UnlinkStale_kept(p) ==
    /\ pc[p] = "stale"
    /\ Goto(p, "bind")
    /\ UNCHANGED <<fileVars, dirVars, fd, listening, upath, child, sig, report,
                   ctlVars, histVars>>

UnlinkStale(p) ==
    /\ pc[p] = "stale"
    /\ sock' = None
    /\ Goto(p, "bind")
    /\ UNCHANGED <<fileVars, sbpid, fd, listening, upath, child, sig, report,
                   ctlVars, histVars>>

(* uds_init: bind makes the path, and fails where one exists. *)
BindSocket(p) ==
    /\ pc[p] = "bind"
    /\ IF sock = None THEN sock' = p /\ Goto(p, "listen")
                      ELSE Goto(p, "uds_close") /\ UNCHANGED sock
    /\ UNCHANGED <<fileVars, sbpid, fd, listening, upath, child, sig, report,
                   ctlVars, histVars>>

(* uds_init: listen and the registrations; where one fails, the path goes. *)
ListenSocket(p) ==
    /\ pc[p] = "listen"
    /\ \/ listening' = [listening EXCEPT ![p] = 1] /\ Goto(p, "spawn")
          /\ UNCHANGED sock
       \/ "init" \in Faults /\ sock' = None /\ Goto(p, "uds_close")
          /\ UNCHANGED listening
    /\ UNCHANGED <<fileVars, sbpid, fd, upath, child, sig, report, ctlVars, histVars>>

(* service_start_async: the child runs and sing-box.pid names it, or neither. *)
SpawnChild(p) ==
    /\ pc[p] = "spawn"
    /\ \/ /\ child' = [child EXCEPT ![p] = 1] /\ sbpid' = p
          /\ Goto(p, "wait")
       \/ "init" \in Faults /\ Goto(p, "uds_close") /\ UNCHANGED <<child, sbpid>>
    /\ UNCHANGED <<fileVars, sock, fd, listening, upath, sig, report, ctlVars,
                   histVars>>

(* service_wait_ready, and notify_startup with its result. *)
WaitReady(p) ==
    /\ pc[p] = "wait"
    /\ \/ Goto(p, "run") /\ report' = Told(p, "ok")
       \/ "init" \in Faults /\ Goto(p, "uds_close") /\ report' = Told(p, "fail")
    /\ UNCHANGED <<fileVars, dirVars, fd, listening, upath, child, sig, ctlVars,
                   histVars>>

(* on_signal in the running loop: SIGHUP asks for a reload, SIGTERM leaves the
   loop; the child is stopped in the teardown, by service_destroy.         *)
TakeSignal(p) ==
    /\ pc[p] = "run"
    /\ \E s \in sig[p] :
       /\ sig' = [sig EXCEPT ![p] = @ \ {s}]
       /\ Goto(p, IF s = "term" THEN "uds_close" ELSE "run")
    /\ UNCHANGED <<fileVars, dirVars, fd, listening, upath, child, report, ctlVars,
                   histVars>>

-----------------------------------------------------------------------------
(* uds_cleanup: the listening socket is closed, then the path removed if
   uds_init ever saw it.                                                   *)
CloseSocket(p) ==
    /\ pc[p] = "uds_close"
    /\ listening' = [listening EXCEPT ![p] = 0]
    /\ Goto(p, "uds_unlink")
    /\ UNCHANGED <<fileVars, dirVars, fd, upath, child, sig, report, ctlVars,
                   histVars>>

uds_cleanup(p) ==
    /\ pc[p] = "uds_unlink"
    /\ sock' = IF upath[p] = 1 THEN None ELSE sock
    /\ upath' = [upath EXCEPT ![p] = 0]
    /\ Goto(p, "destroy")
    /\ UNCHANGED <<fileVars, sbpid, fd, listening, child, sig, report, ctlVars,
                   histVars>>

(* service_destroy to the end of run_event_loop: the child is killed and
   reaped, sing-box.pid removed and the parent told, if it was not yet.    *)
service_destroy(p) ==
    /\ pc[p] = "destroy"
    /\ child' = [child EXCEPT ![p] = 0] /\ sbpid' = None
    /\ report' = Told(p, "fail")
    /\ Goto(p, "release")
    /\ UNCHANGED <<fileVars, sock, fd, listening, upath, sig, ctlVars, histVars>>

(* do_start, write_pid_file: the PID file is closed, which drops the lock, ... *)
ReleasePid(p) ==
    /\ pc[p] = "release"
    /\ lock' = Unlocked(p)
    /\ fd' = [fd EXCEPT ![p] = None]
    /\ Goto(p, "remove")
    /\ UNCHANGED <<path, content, dirVars, listening, upath, child, sig, report,
                   ctlVars, histVars>>

(* ... and then the path is removed. *)
RemovePid(p) ==
    /\ pc[p] = "remove"
    /\ path' = None
    /\ report' = Told(p, "fail")
    /\ Goto(p, "dead")
    /\ UNCHANGED <<content, lock, dirVars, fd, listening, upath, child, sig, ctlVars,
                   histVars>>

(* A process that dies where it stands: SIGKILL, a signal that is not blocked
   yet, or a crash.  The kernel closes its descriptors; the paths and the
   child stay.                                                             *)
Fatal(p) == \/ "kill" \in sig[p]
            \/ pc[p] \in Early /\ sig[p] # {}
            \/ "crash" \in Faults

Die(p) ==
    /\ Alive(p) /\ Fatal(p)
    /\ lock' = Unlocked(p)
    /\ fd' = [fd EXCEPT ![p] = None]
    /\ listening' = [listening EXCEPT ![p] = 0]
    /\ killed' = killed \cup {p}
    /\ Goto(p, "dead")
    /\ UNCHANGED <<path, content, dirVars, upath, child, sig, report, ctlVars,
                   scenario>>

-----------------------------------------------------------------------------
(* read_pid_identity: a file that is missing, empty or malformed names no one,
   and the command ends.                                                   *)
read_pid_identity(c) ==
    /\ cpc[c] = "idle" /\ MayIssue
    /\ Cardinality({d \in Ctls : cpc[d] # "idle"}) < scenario.ctls
    /\ LET named == path # None /\ content[path] \in Procs IN
       /\ target' = [target EXCEPT ![c] = IF named THEN content[path] ELSE None]
       /\ cpc' = [cpc EXCEPT ![c] = IF named THEN "match" ELSE "failed"]
    /\ UNCHANGED <<fileVars, dirVars, procVars, histVars>>

(* process_matches_identity: the start time tells the daemon from a later
   process with its PID.                                                   *)
process_matches_identity(c) == Alive(target[c])

(* do_stop, do_reload: the process named must be that daemon. *)
MatchTarget(c) ==
    /\ cpc[c] = "match"
    /\ \E to \in {"kill", "hup"} :
       cpc' = [cpc EXCEPT ![c] = IF process_matches_identity(c) THEN to
                                 ELSE "failed"]
    /\ UNCHANGED <<fileVars, dirVars, procVars, target, histVars>>

(* kill(pid, s): a process that is gone makes the command fail. *)
Signal(c, s, to) ==
    LET p == target[c] IN
    /\ sig' = IF Alive(p) THEN [sig EXCEPT ![p] = @ \cup {s}] ELSE sig
    /\ cpc' = [cpc EXCEPT ![c] = IF Alive(p) THEN to ELSE "failed"]
    /\ UNCHANGED <<fileVars, dirVars, pc, fd, listening, upath, child, report,
                   target, histVars>>

do_reload(c) == cpc[c] = "hup" /\ Signal(c, "hup", "reloaded")
SendTerm(c)  == cpc[c] = "kill" /\ Signal(c, "term", "poll")

(* do_stop: a poll finds the daemon gone. *)
PollGone(c) ==
    /\ cpc[c] \in {"poll", "poll_killed"}
    /\ ~ process_matches_identity(c)
    /\ cpc' = [cpc EXCEPT ![c] = "unlink"]
    /\ UNCHANGED <<fileVars, dirVars, procVars, target, histVars>>

(* do_stop: five seconds of polls ran out; SIGKILL to a daemon still there (one
   that is gone is PollGone), ...                                          *)
PollTimeout_done(c) ==
    /\ "slow" \in Faults
    /\ cpc[c] = "poll" /\ process_matches_identity(c)
    /\ sig' = [sig EXCEPT ![target[c]] = @ \cup {"kill"}]
    /\ cpc' = [cpc EXCEPT ![c] = "unlink"]
    /\ UNCHANGED <<fileVars, dirVars, pc, fd, listening, upath, child, report,
                   target, histVars>>

PollTimeout(c) ==
    /\ "slow" \in Faults
    /\ cpc[c] = "poll" /\ process_matches_identity(c)
    /\ sig' = [sig EXCEPT ![target[c]] = @ \cup {"kill"}]
    /\ cpc' = [cpc EXCEPT ![c] = "poll_killed"]
    /\ UNCHANGED <<fileVars, dirVars, pc, fd, listening, upath, child, report,
                   target, histVars>>

(* ... and the same again after it: the command gives up. *)
KillTimeout(c) ==
    /\ "slow" \in Faults
    /\ cpc[c] = "poll_killed" /\ process_matches_identity(c)
    /\ cpc' = [cpc EXCEPT ![c] = "failed"]
    /\ UNCHANGED <<fileVars, dirVars, procVars, target, histVars>>

(* do_stop: unlink of the PID file, success. *)
StopDone(c) ==
    /\ cpc[c] = "unlink"
    /\ path' = None
    /\ cpc' = [cpc EXCEPT ![c] = "ok"]
    /\ UNCHANGED <<content, lock, dirVars, procVars, target, histVars>>

-----------------------------------------------------------------------------
Start(p) ==
    \/ preflight_startup(p) \/ OpenPid(p) \/ LockPid(p) \/ WritePid(p)
    \/ TruncatePid(p) \/ InitRun(p) \/ uds_prepare_socket_path(p)
    \/ UnlinkStale(p) \/ BindSocket(p) \/ ListenSocket(p) \/ SpawnChild(p)
    \/ WaitReady(p)
Stop(p) ==
    \/ TakeSignal(p) \/ CloseSocket(p) \/ uds_cleanup(p)
    \/ service_destroy(p) \/ ReleasePid(p) \/ RemovePid(p)
Control(c) ==
    \/ read_pid_identity(c) \/ MatchTarget(c) \/ do_reload(c) \/ SendTerm(c)
    \/ PollGone(c) \/ PollTimeout(c) \/ KillTimeout(c) \/ StopDone(c)

(* A process with a pending SIGKILL runs no more code of its own. *)
Runs(p) == "kill" \notin sig[p] /\ (Start(p) \/ Stop(p))

Next == \/ \E p \in Procs : Runs(p) \/ Die(p)
        \/ \E c \in Ctls : Control(c)

Spec == Init /\ [][Next]_vars

-----------------------------------------------------------------------------
(* Properties. *)

\* The types of the variables.
TypeOK ==
    /\ path \in Inodes \cup {None}
    /\ content \in [Inodes -> Procs \cup {"empty", "torn"}]
    /\ lock \in [Inodes -> Procs \cup {None}]
    /\ sock \in Procs \cup {None} /\ sbpid \in Procs \cup {None}
    /\ pc \in [Procs -> PC]
    /\ fd \in [Procs -> Inodes \cup {None}]
    /\ listening \in [Procs -> Flag] /\ upath \in [Procs -> Flag]
    /\ child \in [Procs -> Flag]
    /\ sig \in [Procs -> SUBSET {"term", "hup", "kill"}]
    /\ report \in [Procs -> {"none", "ok", "fail"}]
    /\ cpc \in [Ctls -> CPC]
    /\ target \in [Ctls -> Procs \cup {None}]
    /\ killed \subseteq Procs /\ scenario \in Scenarios

(* The scenarios in which the files are reliable: daemons may be killed and stops
   may run out of time, and either commands are given one after the other or
   only starts overlap.                                                    *)
Orderly ==
    /\ scenario.faults \subseteq {"crash", "slow"}
    /\ scenario.overlap = 0 \/ scenario.ctls = 0

Serving(p) == pc[p] \in Setup \cup {"run"}

(* At most one process has passed the PID file's lock and is setting up or
   running the event loop, however starts overlap and daemons are killed.  *)
OneServing ==
    Orderly => \A p, q \in Procs : Serving(p) /\ Serving(q) => p = q

(* A running daemon can be found: the PID file holds its identity and is the
   file it has locked, so that stop and reload reach it and start is refused,
   and the control socket's path leads to its listening socket.            *)
Findable ==
    Orderly => \A p \in Procs : pc[p] = "run" =>
        /\ path # None /\ content[path] = p /\ lock[path] = p
        /\ sock = p /\ listening[p] = 1

(* One daemon serves (OneServing), and it is the one that commands find
   (Findable).                                                             *)
OneFindable == OneServing /\ Findable

(* What a killed daemon leaves behind (PID file, socket, descriptors) refuses
   no later start: a start fails only while another daemon is alive.       *)
RefusedOnlyIfRunning ==
    [][Orderly => \A p \in Procs : report[p] = "none" /\ report'[p] = "fail" =>
                     \E q \in Procs \ {p} : Alive(q)]_vars

(* stop reports success only when the very process whose identity it read from
   the PID file is gone, even after a SIGKILL.                             *)
StopExact ==
    TypeOK /\ \A c \in Ctls : cpc[c] \in {"unlink", "ok"} => ~ Alive(target[c])

(* A sing-box outlives its daemon only if the daemon was killed: every way out
   of do_start stops the child first.  sing-box.pid never names one that is
   gone, although several processes write and remove it.                   *)
ChildOwned ==
    /\ \A p \in Procs : child[p] = 1 /\ ~ Alive(p) => p \in killed
    /\ sbpid # None => child[sbpid] = 1

(* A stop is complete: of the daemon it names (StopExact) and of the child that
   daemon owns, unless the daemon was killed (ChildOwned).                 *)
StopsWhole == StopExact /\ ChildOwned

(* There is one running daemon (android-device-test.md, T08). *)
OneRunning == \A p, q \in Procs : pc[p] = "run" /\ pc[q] = "run" => p = q

(* After a successful stop the daemon's sing-box is gone as well
   (android-device-test.md, T09).                                          *)
StopLeavesNoChild ==
    \A c \in Ctls : cpc[c] = "ok" => child[target[c]] = 0

=============================================================================
