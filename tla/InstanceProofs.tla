--------------------------- MODULE InstanceProofs ---------------------------
(***************************************************************************)
(* What Instance promises for any number of start, stop and reload commands: *)
(* a stop is complete (StopsWhole), one daemon serves and is the one the     *)
(* commands find (OneFindable), and a start is refused only while another    *)
(* daemon is alive (RefusedOnlyIfRunning).                                   *)
(*                                                                         *)
(* The inductive invariant has a part that holds whatever the scenario:      *)
(* LockInv, ChildInv, StopInv and SetupInv; and one that holds in an orderly *)
(* scenario, FilesInv and CommandInv, which need each other: a PID file is   *)
(* removed only by a daemon that a stop waits for, or by that stop, and then *)
(* nobody holds it.                                                         *)
(***************************************************************************)
EXTENDS Instance, TLAPS

(* Between F_SETLK and the close of the PID file; once the file holds the
   process's identity.                                                     *)
Locked == {"write", "trunc", "init"} \cup Setup \cup {"run"}
            \cup (Teardown \ {"remove"})
Named  == Locked \ {"write", "trunc"}

(* A stop or reload command that has read an identity and not ended. *)
Busy(c) == cpc[c] \notin {"idle", "ok", "reloaded", "failed"}

(* A process has the PID file open from open(O_CREAT) to its close, and the
   kernel's lock is held by exactly the processes past F_SETLK, each on the
   inode it has open.                                                      *)
LockInv ==
    /\ \A p \in Procs : fd[p] # None <=> pc[p] \in Locked \cup {"lock"}
    /\ \A p \in Procs, i \in Inodes :
         lock[i] = p <=> pc[p] \in Locked /\ fd[p] = i

(* A child is owned by a daemon between service_start_async and
   service_destroy, or by one that was killed there.                       *)
ChildInv ==
    /\ \A p \in Procs : child[p] = 1 =>
         \/ pc[p] \in {"wait", "run", "uds_close", "uds_unlink", "destroy"}
         \/ pc[p] = "dead" /\ p \in killed
    /\ sbpid # None => child[sbpid] = 1

(* The identities in PID files, and hence those that commands read, are of
   processes that exist or have existed; a stop past its polls has seen its
   process dead.                                                           *)
StopInv ==
    /\ \A i \in Inodes : content[i] \in Procs => pc[content[i]] # "idle"
    /\ \A c \in Ctls : target[c] # None => pc[target[c]] # "idle"
    /\ \A c \in Ctls : cpc[c] \notin {"idle", "failed"} => target[c] # None
    /\ \A c \in Ctls : cpc[c] \in {"unlink", "ok"} => pc[target[c]] = "dead"

(* A start that is setting up has told its parent nothing; the socket listens
   from listen to the first step of uds_cleanup.                           *)
SetupInv == \A p \in Procs :
    /\ pc[p] \in {"idle"} \cup Early \cup Setup => report[p] = "none"
    /\ listening[p] = 1 => pc[p] \in {"spawn", "wait", "run", "uds_close"}
    /\ pc[p] \in {"spawn", "wait", "run"} => listening[p] = 1

(* Orderly: the PID file somebody has open is the one at the path, it holds its
   holder's identity, and the socket's path is the holder's or free.       *)
FilesInv ==
    /\ \A p \in Procs : pc[p] \in Locked \cup {"lock"} => fd[p] = path
    /\ \A p \in Procs : pc[p] \in Named => content[fd[p]] = p
    /\ \A p \in Procs : pc[p] = "bind" => sock = None
    /\ \A p \in Procs :
         pc[p] \in {"listen", "spawn", "wait", "run"} => sock = p

(* Orderly: only a daemon that has reported is signalled or tears down; unless
   SIGKILL is pending a stop is waiting for it; a command works alone, and the
   PID file, while there is one, is its target's.                          *)
CommandInv ==
    /\ \A p \in Procs : pc[p] \in {"run"} \cup Teardown => report[p] # "none"
    /\ \A p \in Procs : sig[p] # {} => pc[p] \in {"run", "dead"} \cup Teardown
    /\ \A p \in Procs :
         /\ "kill" \notin sig[p]
         /\ pc[p] \in Teardown \/ (pc[p] = "run" /\ "term" \in sig[p])
         => \E c \in Ctls : cpc[c] = "poll" /\ target[c] = p
    /\ \A c \in Ctls : Busy(c) =>
         /\ scenario.ctls # 0
         /\ \A p \in Procs : Finished(p)
         /\ \A d \in Ctls : Busy(d) => d = c
         /\ path # None => content[path] = target[c]

IInv ==
    /\ TypeOK /\ LockInv /\ ChildInv /\ StopInv /\ SetupInv
    /\ Orderly => FilesInv /\ CommandInv

-----------------------------------------------------------------------------
(* None is neither a process nor an inode. *)
LEMMA NoneApart == None \notin Procs /\ None \notin Inodes
  BY InstanceAssumption, Zenon

(* open(O_CREAT) finds an unused inode: there are more than there are processes,
   and each process has at most one open.                                  *)
LEMMA FreshInode ==
    ASSUME TypeOK, path = None
    PROVE  Fresh \in Inodes /\ \A p \in Procs : fd[p] # Fresh
<1>1. PICK i \in Inodes : \A p \in Procs : fd[p] # i
  BY InstanceAssumption, Zenon DEF TypeOK
<1>2. i # path
  BY NoneApart, Zenon
<1> QED
  BY <1>1, <1>2, Zenon DEF Fresh

-----------------------------------------------------------------------------
(* Every step keeps the types. *)
LEMMA TypeStep == TypeOK /\ [Next]_vars => TypeOK'
<1> SUFFICES ASSUME TypeOK, [Next]_vars PROVE TypeOK'
  BY Zenon
<1> USE DEF fileVars, dirVars, procVars, ctlVars, histVars, Goto, Told, TypeOK,
            PC, CPC, Early, Setup, Teardown, Flag
<1>1. ASSUME NEW p \in Procs, Start(p) PROVE TypeOK'
  BY <1>1, FreshInode DEF Start, preflight_startup, OpenPid, LockPid, LockFree,
         WritePid, TruncatePid, InitRun, uds_prepare_socket_path, UnlinkStale,
         BindSocket, ListenSocket, SpawnChild, WaitReady
<1>2. ASSUME NEW p \in Procs, Stop(p) PROVE TypeOK'
  BY <1>2 DEF Stop, TakeSignal, CloseSocket, uds_cleanup, service_destroy,
         ReleasePid, RemovePid, Unlocked
<1>3. ASSUME NEW p \in Procs, Die(p) PROVE TypeOK'
  BY <1>3, Zenon DEF Die, Alive, Unlocked
<1>4. ASSUME NEW c \in Ctls, Control(c) PROVE TypeOK'
  BY <1>4 DEF Control, read_pid_identity, MatchTarget, do_reload, SendTerm,
         Signal, PollGone, PollTimeout, KillTimeout, StopDone,
         process_matches_identity, Alive
<1>5. CASE UNCHANGED vars
  BY <1>5, Zenon DEF vars
<1> QED
  BY <1>1, <1>2, <1>3, <1>4, <1>5, Zenon DEF Next, Runs

(* Opening, locking, closing and dying keep descriptors and locks matched. *)
LEMMA LockStep == TypeOK /\ LockInv /\ [Next]_vars => LockInv'
<1> SUFFICES ASSUME TypeOK, LockInv, [Next]_vars PROVE LockInv'
  BY Zenon
<1> USE NoneApart
<1> /\ pc \in [Procs -> PC] /\ path \in Inodes \cup {None}
    /\ fd \in [Procs -> Inodes \cup {None}] /\ lock \in [Inodes -> Procs \cup {None}]
  BY Zenon DEF TypeOK
<1> USE DEF fileVars, procVars, Goto, Setup, Teardown, LockInv, Locked
<1>1. ASSUME NEW p \in Procs, Start(p) PROVE LockInv'
  BY <1>1, FreshInode DEF Start, preflight_startup, OpenPid, LockPid, LockFree,
         WritePid, TruncatePid, InitRun, uds_prepare_socket_path, UnlinkStale,
         BindSocket, ListenSocket, SpawnChild, WaitReady
<1>2. ASSUME NEW p \in Procs, Stop(p) PROVE LockInv'
  BY <1>2 DEF Stop, TakeSignal, CloseSocket, uds_cleanup, service_destroy,
         ReleasePid, RemovePid, Unlocked
<1>3. ASSUME NEW p \in Procs, Die(p) PROVE LockInv'
  BY <1>3 DEF Die, Alive, Unlocked
<1>4. ASSUME NEW c \in Ctls, Control(c) PROVE LockInv'
  BY <1>4 DEF Control, read_pid_identity, MatchTarget, do_reload, SendTerm,
         Signal, PollGone, PollTimeout, KillTimeout, StopDone,
         process_matches_identity, Alive
<1>5. CASE UNCHANGED vars
  BY <1>5 DEF vars
<1> QED
  BY <1>1, <1>2, <1>3, <1>4, <1>5, Zenon DEF Next, Runs

(* Every way out of the event loop passes service_destroy, except dying. *)
LEMMA ChildStep == TypeOK /\ ChildInv /\ [Next]_vars => ChildInv'
<1> SUFFICES ASSUME TypeOK, ChildInv, [Next]_vars PROVE ChildInv'
  BY Zenon
<1> /\ pc \in [Procs -> PC] /\ child \in [Procs -> {0, 1}]
    /\ sbpid \in Procs \cup {None} /\ None \notin Procs
  BY NoneApart, Zenon DEF TypeOK, Flag
<1> USE DEF dirVars, procVars, histVars, Goto, ChildInv
<1>1. ASSUME NEW p \in Procs, Start(p) PROVE ChildInv'
  BY <1>1, Zenon DEF Start, preflight_startup, OpenPid, LockPid, LockFree, WritePid,
         TruncatePid, InitRun, uds_prepare_socket_path, UnlinkStale, BindSocket,
         ListenSocket, SpawnChild, WaitReady
<1>2. ASSUME NEW p \in Procs, Stop(p) PROVE ChildInv'
  BY <1>2 DEF Stop, TakeSignal, CloseSocket, uds_cleanup, service_destroy,
         ReleasePid, RemovePid, Unlocked
<1>3. ASSUME NEW p \in Procs, Die(p) PROVE ChildInv'
  BY <1>3, Zenon DEF Die, Alive, Unlocked
<1>4. ASSUME NEW c \in Ctls, Control(c) PROVE ChildInv'
  BY <1>4, Zenon DEF Control, read_pid_identity, MatchTarget, do_reload, SendTerm,
         Signal, PollGone, PollTimeout, KillTimeout, StopDone,
         process_matches_identity, Alive
<1>5. CASE UNCHANGED vars
  BY <1>5, Zenon DEF vars
<1> QED
  BY <1>1, <1>2, <1>3, <1>4, <1>5, Zenon DEF Next, Runs

(* A process that is dead stays dead, and commands keep the identity they read. *)
LEMMA StopStep == TypeOK /\ StopInv /\ [Next]_vars => StopInv'
<1> SUFFICES ASSUME TypeOK, StopInv, [Next]_vars PROVE StopInv'
  BY Zenon
<1> /\ pc \in [Procs -> PC] /\ content \in [Inodes -> Procs \cup {"empty", "torn"}]
    /\ path \in Inodes \cup {None} /\ fd \in [Procs -> Inodes \cup {None}]
    /\ cpc \in [Ctls -> CPC] /\ target \in [Ctls -> Procs \cup {None}]
    /\ None \notin Procs /\ "empty" \notin Procs /\ "torn" \notin Procs
  BY NoneApart, InstanceAssumption, Zenon DEF TypeOK
<1> USE DEF fileVars, procVars, ctlVars, Goto, StopInv
<1>1. ASSUME NEW p \in Procs, Start(p) PROVE StopInv'
  BY <1>1 DEF Start, preflight_startup, OpenPid, LockPid, LockFree, WritePid,
         TruncatePid, InitRun, uds_prepare_socket_path, UnlinkStale, BindSocket,
         ListenSocket, SpawnChild, WaitReady
<1>2. ASSUME NEW p \in Procs, Stop(p) PROVE StopInv'
  BY <1>2 DEF Stop, TakeSignal, CloseSocket, uds_cleanup, service_destroy,
         ReleasePid, RemovePid, Unlocked
<1>3. ASSUME NEW p \in Procs, Die(p) PROVE StopInv'
  BY <1>3, Zenon DEF Die, Alive, Unlocked
<1>4. ASSUME NEW c \in Ctls, Control(c) PROVE StopInv'
  BY <1>4 DEF Control, read_pid_identity, MatchTarget, do_reload, SendTerm,
         Signal, PollGone, PollTimeout, KillTimeout, StopDone,
         process_matches_identity, Alive
<1>5. CASE UNCHANGED vars
  BY <1>5, Zenon DEF vars
<1> QED
  BY <1>1, <1>2, <1>3, <1>4, <1>5, Zenon DEF Next, Runs

(* The parent is told at the end of the setup, and the socket opened in it. *)
LEMMA SetupStep == TypeOK /\ SetupInv /\ [Next]_vars => SetupInv'
<1> SUFFICES ASSUME TypeOK, SetupInv, [Next]_vars PROVE SetupInv'
  BY Zenon
<1> /\ pc \in [Procs -> PC] /\ listening \in [Procs -> {0, 1}]
    /\ report \in [Procs -> {"none", "ok", "fail"}]
  BY Zenon DEF TypeOK, Flag
<1> USE DEF procVars, Goto, Told, Early, Setup, SetupInv
<1>1. ASSUME NEW p \in Procs, Start(p) PROVE SetupInv'
  BY <1>1 DEF Start, preflight_startup, OpenPid, LockPid, LockFree, WritePid,
         TruncatePid, InitRun, uds_prepare_socket_path, UnlinkStale, BindSocket,
         ListenSocket, SpawnChild, WaitReady
<1>2. ASSUME NEW p \in Procs, Stop(p) PROVE SetupInv'
  BY <1>2 DEF Stop, TakeSignal, CloseSocket, uds_cleanup, service_destroy,
         ReleasePid, RemovePid, Unlocked
<1>3. ASSUME NEW p \in Procs, Die(p) PROVE SetupInv'
  BY <1>3 DEF Die, Alive, Unlocked
<1>4. ASSUME NEW c \in Ctls, Control(c) PROVE SetupInv'
  BY <1>4, Zenon DEF Control, read_pid_identity, MatchTarget, do_reload, SendTerm,
         Signal, PollGone, PollTimeout, KillTimeout, StopDone,
         process_matches_identity, Alive
<1>5. CASE UNCHANGED vars
  BY <1>5, Zenon DEF vars
<1> QED
  BY <1>1, <1>2, <1>3, <1>4, <1>5, Zenon DEF Next, Runs

-----------------------------------------------------------------------------
(* Where every holder has the file at the path open, the lock is exclusive. *)
LEMMA OneLocked ==
    ASSUME TypeOK, LockInv, FilesInv
    PROVE  \A p, q \in Procs : pc[p] \in Locked /\ pc[q] \in Locked => p = q
<1> SUFFICES ASSUME NEW p \in Procs, NEW q \in Procs,
                    pc[p] \in Locked, pc[q] \in Locked
             PROVE  p = q
  BY Zenon
<1>1. fd[p] = path /\ fd[q] = path /\ path \in Inodes
  BY DEF LockInv, FilesInv, TypeOK
<1> QED
  BY <1>1 DEF LockInv

(* In an orderly scenario no step takes the PID file or the socket's path from
   the process that holds the lock: the interesting cases are OpenPid, which
   makes a path only where nobody has the file open, and RemovePid and
   StopDone, which remove it when the only possible holder is gone.        *)
LEMMA FilesStep ==
    ASSUME TypeOK, LockInv, StopInv, SetupInv, Orderly, FilesInv, CommandInv,
           [Next]_vars
    PROVE  FilesInv'
<1> USE NoneApart
<1> /\ \A p, q \in Procs : pc[p] \in Locked /\ pc[q] \in Locked => p = q
    /\ scenario.faults \subseteq {"crash", "slow"}
  BY OneLocked, Zenon DEF Orderly
<1> /\ pc \in [Procs -> PC] /\ path \in Inodes \cup {None}
    /\ content \in [Inodes -> Procs \cup {"empty", "torn"}]
    /\ fd \in [Procs -> Inodes \cup {None}] /\ sock \in Procs \cup {None}
  BY Zenon DEF TypeOK
<1> USE DEF fileVars, dirVars, procVars, Goto, Setup, Teardown, Locked, Named,
            Faults, LockInv, FilesInv
<1>1. ASSUME NEW p \in Procs,
             preflight_startup(p) \/ InitRun(p) \/ ListenSocket(p) \/
             SpawnChild(p) \/ WaitReady(p) PROVE FilesInv'
  BY <1>1, SMTT(30) DEF preflight_startup, InitRun, ListenSocket, SpawnChild, WaitReady
<1>2. ASSUME NEW p \in Procs, OpenPid(p) PROVE FilesInv'
  BY <1>2, FreshInode, SMTT(30) DEF OpenPid
<1>3. ASSUME NEW p \in Procs, LockPid(p) PROVE FilesInv'
  BY <1>3 DEF LockPid, LockFree
<1>4. ASSUME NEW p \in Procs, WritePid(p) PROVE FilesInv'
  BY <1>4 DEF WritePid
<1>5. ASSUME NEW p \in Procs, TruncatePid(p) PROVE FilesInv'
  BY <1>5 DEF TruncatePid
<1>6. ASSUME NEW p \in Procs, uds_prepare_socket_path(p) PROVE FilesInv'
  BY <1>6 DEF uds_prepare_socket_path, SocketActive, SetupInv, Flag
<1>7. ASSUME NEW p \in Procs, UnlinkStale(p) PROVE FilesInv'
  BY <1>7 DEF UnlinkStale
<1>8. ASSUME NEW p \in Procs, BindSocket(p) PROVE FilesInv'
  BY <1>8 DEF BindSocket
<1>9. ASSUME NEW p \in Procs,
             TakeSignal(p) \/ CloseSocket(p) \/ service_destroy(p) PROVE FilesInv'
  BY <1>9 DEF TakeSignal, CloseSocket, service_destroy
<1>10. ASSUME NEW p \in Procs, uds_cleanup(p) PROVE FilesInv'
  BY <1>10 DEF uds_cleanup
<1>11. ASSUME NEW p \in Procs, ReleasePid(p) PROVE FilesInv'
  BY <1>11 DEF ReleasePid, Unlocked
<1>12. ASSUME NEW p \in Procs, "kill" \notin sig[p], RemovePid(p) PROVE FilesInv'
  BY <1>12 DEF RemovePid, Busy, CommandInv, Finished, SetupInv, Early
<1>13. ASSUME NEW p \in Procs, Die(p) PROVE FilesInv'
  BY <1>13 DEF Die, Unlocked, Alive
<1>14. ASSUME NEW c \in Ctls,
             read_pid_identity(c) \/ MatchTarget(c) \/ do_reload(c) \/
             SendTerm(c) \/ PollGone(c) \/ PollTimeout(c) \/
             KillTimeout(c) PROVE FilesInv'
  BY <1>14, SMTT(30) DEF read_pid_identity, MatchTarget, do_reload, SendTerm, PollGone,
         PollTimeout, KillTimeout, Signal
<1>15. ASSUME NEW c \in Ctls, StopDone(c) PROVE FilesInv'
  BY <1>15 DEF StopDone, Busy, CommandInv, Finished, StopInv, SetupInv, Early
<1>16. CASE UNCHANGED vars
  BY <1>16, Zenon DEF vars
<1> QED
  BY <1>1, <1>2, <1>3, <1>4, <1>5, <1>6, <1>7, <1>8, <1>9, <1>10, <1>11, <1>12,
         <1>13, <1>14, <1>15, <1>16, ZenonT(30) DEF Next, Runs, Start, Stop,
         Control

(* In an orderly scenario a command starts when nothing else is under way, reads
   the identity of the only daemon, and its signals reach a daemon that has
   reported; so a teardown has a stop waiting for it.                      *)
LEMMA CommandStep ==
    ASSUME TypeOK, LockInv, StopInv, SetupInv, Orderly, FilesInv, CommandInv,
           [Next]_vars
    PROVE  CommandInv'
<1> USE NoneApart
<1> /\ \A p, q \in Procs : pc[p] \in Locked /\ pc[q] \in Locked => p = q
    /\ scenario.faults \subseteq {"crash", "slow"}
    /\ scenario.overlap = 0 \/ scenario.ctls = 0
  BY OneLocked, Zenon DEF Orderly
<1> /\ pc \in [Procs -> PC] /\ path \in Inodes \cup {None}
    /\ content \in [Inodes -> Procs \cup {"empty", "torn"}]
    /\ fd \in [Procs -> Inodes \cup {None}] /\ sock \in Procs \cup {None}
    /\ sig \in [Procs -> SUBSET {"term", "hup", "kill"}]
    /\ report \in [Procs -> {"none", "ok", "fail"}]
    /\ cpc \in [Ctls -> CPC] /\ target \in [Ctls -> Procs \cup {None}]
  BY Zenon DEF TypeOK
<1> USE DEF fileVars, procVars, ctlVars, histVars, Goto, Told, Early, Setup, Teardown,
            Busy, Finished, Faults, Alive, CommandInv, SetupInv
<1>1. ASSUME NEW p \in Procs, preflight_startup(p) PROVE CommandInv'
  BY <1>1 DEF preflight_startup, MayIssue
<1>2. ASSUME NEW p \in Procs,
             OpenPid(p) \/ WritePid(p) \/ TruncatePid(p) PROVE CommandInv'
  BY <1>2 DEF OpenPid, WritePid, TruncatePid
<1>3. ASSUME NEW p \in Procs, LockPid(p) PROVE CommandInv'
  BY <1>3 DEF LockPid, LockFree
<1>4. ASSUME NEW p \in Procs,
             InitRun(p) \/ UnlinkStale(p) \/ ListenSocket(p) \/
             SpawnChild(p) PROVE CommandInv'
  BY <1>4 DEF InitRun, UnlinkStale, ListenSocket, SpawnChild
<1>5. ASSUME NEW p \in Procs, uds_prepare_socket_path(p) PROVE CommandInv'
  BY <1>5 DEF uds_prepare_socket_path, SocketActive, FilesInv, Locked
<1>6. ASSUME NEW p \in Procs, BindSocket(p) PROVE CommandInv'
  BY <1>6 DEF BindSocket, FilesInv
<1>7. ASSUME NEW p \in Procs, WaitReady(p) PROVE CommandInv'
  BY <1>7 DEF WaitReady
<1>8. ASSUME NEW p \in Procs, "kill" \notin sig[p], TakeSignal(p) PROVE CommandInv'
  <2>1. PICK s \in sig[p] :
          /\ sig' = [sig EXCEPT ![p] = @ \ {s}]
          /\ Goto(p, IF s = "term" THEN "uds_close" ELSE "run")
    BY <1>8, Zenon DEF TakeSignal
  <2>2. CASE s = "term"
    BY <1>8, <2>1, <2>2 DEF TakeSignal
  <2>3. CASE s # "term"
    BY <1>8, <2>1, <2>3 DEF TakeSignal
  <2> QED
    BY <2>2, <2>3, Zenon
<1>9. ASSUME NEW p \in Procs,
             CloseSocket(p) \/ uds_cleanup(p) \/ service_destroy(p) \/
             ReleasePid(p) PROVE CommandInv'
  BY <1>9 DEF CloseSocket, uds_cleanup, service_destroy, ReleasePid, Unlocked
<1>10. ASSUME NEW p \in Procs, RemovePid(p) PROVE CommandInv'
  BY <1>10 DEF RemovePid
<1>11. ASSUME NEW p \in Procs, Die(p) PROVE CommandInv'
  BY <1>11 DEF Die, Unlocked
<1>12. ASSUME NEW c \in Ctls, read_pid_identity(c) PROVE CommandInv'
  <2>1. Cardinality({d \in Ctls : cpc[d] # "idle"}) \in Nat
    BY InstanceAssumption, Zenon
  <2>2. scenario.ctls # 0 /\ scenario.overlap = 0
    BY <1>12, <2>1 DEF read_pid_identity
  <2> QED
    BY <1>12, <2>2 DEF read_pid_identity, MayIssue
<1>13. ASSUME NEW c \in Ctls, MatchTarget(c) PROVE CommandInv'
  BY <1>13 DEF MatchTarget, process_matches_identity
<1>14. ASSUME NEW c \in Ctls, do_reload(c) PROVE CommandInv'
  BY <1>14 DEF do_reload, Signal, PC
<1>15. ASSUME NEW c \in Ctls, SendTerm(c) PROVE CommandInv'
  BY <1>15 DEF SendTerm, Signal, PC
<1>16. ASSUME NEW c \in Ctls, PollGone(c) PROVE CommandInv'
  BY <1>16 DEF PollGone, process_matches_identity
<1>17. ASSUME NEW c \in Ctls, PollTimeout(c) PROVE CommandInv'
  BY <1>17 DEF PollTimeout, process_matches_identity, PC
<1>18. ASSUME NEW c \in Ctls, KillTimeout(c) PROVE CommandInv'
  BY <1>18 DEF KillTimeout, process_matches_identity
<1>19. ASSUME NEW c \in Ctls, StopDone(c) PROVE CommandInv'
  BY <1>19 DEF StopDone
<1>20. CASE UNCHANGED vars
  BY <1>20 DEF vars
<1> QED
  BY <1>1, <1>2, <1>3, <1>4, <1>5, <1>6, <1>7, <1>8, <1>9, <1>10, <1>11, <1>12,
         <1>13, <1>14, <1>15, <1>16, <1>17, <1>18, <1>19, <1>20, ZenonT(30)
     DEF Next, Runs, Start, Stop, Control

-----------------------------------------------------------------------------
(* The invariant holds at the start, when there is no file and no process. *)
LEMMA InitInv == Init => IInv
<1> SUFFICES ASSUME Init PROVE IInv
  BY Zenon
<1> USE NoneApart, InstanceAssumption
<1> USE DEF Init, Early, Setup, Teardown, Locked
<1>1. TypeOK
  BY Zenon DEF TypeOK, PC, CPC, Flag
<1>2. LockInv /\ ChildInv /\ StopInv /\ SetupInv
  BY DEF LockInv, ChildInv, StopInv, SetupInv
<1>3. FilesInv /\ CommandInv
  BY Zenon DEF FilesInv, CommandInv, Named, Busy
<1> QED
  BY <1>1, <1>2, <1>3, Zenon DEF IInv

(* No step chooses the scenario anew. *)
LEMMA ScenarioKept == [Next]_vars => (Orderly' <=> Orderly)
<1> SUFFICES ASSUME [Next]_vars PROVE scenario' = scenario
  BY Zenon DEF Orderly
<1> USE DEF histVars
<1>1. ASSUME NEW p \in Procs, Start(p) PROVE scenario' = scenario
  BY <1>1, Zenon DEF Start, preflight_startup, OpenPid, LockPid, LockFree, WritePid,
         TruncatePid, InitRun, uds_prepare_socket_path, UnlinkStale, BindSocket,
         ListenSocket, SpawnChild, WaitReady
<1>2. ASSUME NEW p \in Procs, Stop(p) PROVE scenario' = scenario
  BY <1>2, Zenon DEF Stop, TakeSignal, CloseSocket, uds_cleanup, service_destroy,
         ReleasePid, RemovePid, Unlocked
<1>3. ASSUME NEW p \in Procs, Die(p) PROVE scenario' = scenario
  BY <1>3, Zenon DEF Die, Alive, Unlocked
<1>4. ASSUME NEW c \in Ctls, Control(c) PROVE scenario' = scenario
  BY <1>4, Zenon DEF Control, read_pid_identity, MatchTarget, do_reload, SendTerm,
         Signal, PollGone, PollTimeout, KillTimeout, StopDone,
         process_matches_identity, Alive
<1>5. CASE UNCHANGED vars
  BY <1>5, Zenon DEF vars
<1> QED
  BY <1>1, <1>2, <1>3, <1>4, <1>5, Zenon DEF Next, Runs

(* The invariant is inductive. *)
LEMMA StepInv == IInv /\ [Next]_vars => IInv'
  BY TypeStep, LockStep, ChildStep, StopStep, SetupStep, FilesStep, CommandStep,
     ScenarioKept, Zenon DEF IInv

(* The invariant holds in every reachable state. *)
THEOREM Invariance == Spec => []IInv
<1>1. Init => IInv
  BY InitInv, Zenon
<1>2. IInv /\ [Next]_vars => IInv'
  BY StepInv, Zenon
<1> QED
  BY <1>1, <1>2, PTL DEF Spec

(* A stop reports success only when the process it read from the PID file is
   gone, and a sing-box outlives its daemon only if that daemon was killed: in
   every scenario, overlapping commands and all faults included.           *)
THEOREM StopsWholeHolds == Spec => []StopsWhole
<1>1. IInv => StopsWhole
  BY Zenon DEF IInv, StopsWhole, StopExact, ChildOwned, ChildInv, StopInv, Alive, TypeOK, PC
<1> QED
  BY <1>1, Invariance, PTL

(* However starts overlap and daemons are killed, or commands follow each other
   with stops that run out of time: at most one process is past the PID file's
   lock, and a running daemon is the one the PID file, its lock and the control
   socket's path lead to.                                                  *)
THEOREM OneFindableHolds == Spec => []OneFindable
<1>1. IInv => OneFindable
  <2> SUFFICES ASSUME IInv, Orderly PROVE OneFindable
    BY Zenon DEF OneFindable, OneServing, Findable
  <2> USE DEF IInv
  <2>1. OneServing
    BY OneLocked, Zenon DEF OneServing, Serving, Locked
  <2>2. Findable
    BY NoneApart DEF Findable, FilesInv, LockInv, SetupInv, Locked, Named, TypeOK
  <2> QED
    BY <2>1, <2>2, Zenon DEF OneFindable
<1> QED
  BY <1>1, Invariance, PTL

(* A start fails only while another daemon is alive, whatever a killed daemon
   left behind: its only refusal is F_SETLK's, and the lock it meets is that of
   a living process.                                                       *)
THEOREM RefusalHolds == Spec => RefusedOnlyIfRunning
<1> DEFINE Refusal ==
        Orderly => \A p \in Procs : report[p] = "none" /\ report'[p] = "fail" =>
                     \E q \in Procs \ {p} : Alive(q)
<1>1. ASSUME IInv, [Next]_vars PROVE Refusal
  <2> SUFFICES ASSUME Orderly PROVE Refusal
    BY Zenon
  <2>0. scenario.faults \subseteq {"crash", "slow"}
    BY Zenon DEF Orderly
  <2>1. ASSUME NEW p \in Procs, LockPid(p) PROVE Refusal
    <3>1. CASE LockFree(p)
      BY <2>1, <3>1, Zenon DEF LockPid
    <3>2. CASE ~ LockFree(p)
      <4>1. lock[fd[p]] \in Procs \ {p} /\ Alive(lock[fd[p]])
        BY <1>1, <2>1, <3>2 DEF LockPid, LockFree, IInv, TypeOK, LockInv, Locked,
                                Setup, Teardown, Alive
      <4>2. \A q \in Procs : q # p => report'[q] = report[q]
        BY <1>1, <2>1, <3>2, Zenon DEF LockPid, Told, IInv, TypeOK
      <4> QED
        BY <4>1, <4>2, Zenon
    <3> QED
      BY <3>1, <3>2, Zenon
  <2>2. ASSUME NEW p \in Procs, preflight_startup(p) \/ InitRun(p)
        PROVE  UNCHANGED report
    BY <2>0, <2>2, Zenon DEF preflight_startup, InitRun, Faults
  <2>3. ASSUME NEW p \in Procs, WaitReady(p)
        PROVE  \A q \in Procs : report'[q] = "fail" => report[q] = "fail"
    BY <1>1, <2>0, <2>3, Zenon DEF WaitReady, Told, Faults, IInv, TypeOK
  <2>4. ASSUME NEW p \in Procs, service_destroy(p) \/ RemovePid(p)
        PROVE  UNCHANGED report
    BY <1>1, <2>4, Zenon DEF service_destroy, RemovePid, Told, IInv, CommandInv, Teardown
  <2>5. ASSUME NEW p \in Procs,
               OpenPid(p) \/ WritePid(p) \/ TruncatePid(p) \/
               uds_prepare_socket_path(p) \/ UnlinkStale(p) \/ BindSocket(p) \/
               ListenSocket(p) \/ SpawnChild(p)
        PROVE  UNCHANGED report
    BY <2>5, Zenon DEF OpenPid, WritePid, TruncatePid, uds_prepare_socket_path,
                UnlinkStale, BindSocket, ListenSocket, SpawnChild
  <2>6. ASSUME NEW p \in Procs,
               TakeSignal(p) \/ CloseSocket(p) \/ uds_cleanup(p) \/
               ReleasePid(p) \/ Die(p)
        PROVE  UNCHANGED report
    BY <2>6, Zenon DEF TakeSignal, CloseSocket, uds_cleanup, ReleasePid, Die
  <2>7. ASSUME NEW c \in Ctls, Control(c) PROVE UNCHANGED report
    BY <2>7, Zenon DEF Control, read_pid_identity, MatchTarget, do_reload, SendTerm,
                Signal, PollGone, PollTimeout, KillTimeout, StopDone, procVars
  <2>8. CASE UNCHANGED vars
    BY <2>8, Zenon DEF vars, procVars
  <2>9. ASSUME NEW p \in Procs, Start(p) \/ Stop(p) \/ Die(p), ~ LockPid(p)
        PROVE  \A q \in Procs : report'[q] = "fail" => report[q] = "fail"
    BY <2>2, <2>3, <2>4, <2>5, <2>6, <2>9, Zenon DEF Start, Stop
  <2> QED
    BY <1>1, <2>1, <2>7, <2>8, <2>9, Zenon DEF Next, Runs
<1> QED
  BY <1>1, Invariance, PTL DEF Spec, RefusedOnlyIfRunning

=============================================================================
