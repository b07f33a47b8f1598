------------------------------ MODULE ChildRun ------------------------------
(***************************************************************************)
(* A command run to completion with its output read through a pipe, under  *)
(* a deadline.  The daemon has three implementations, and "runner" says    *)
(* which one this execution uses: "exec" is exec_cmd_argv (src/utils.c),   *)
(* "check" is service_validate_config (src/service.c), both loops of their *)
(* own, and "async" is async_validate_config (src/async_validate.c), driven*)
(* by the reactor.                                                         *)
(*                                                                         *)
(* The child writes, closes its output early or exits between any two      *)
(* steps of the parent, and a process it started (the heir) may keep the   *)
(* write end of the pipe open after it.                                    *)
(***************************************************************************)
EXTENDS Naturals

CONSTANTS
    Runners,     \* the implementations to run
    OutCap,      \* room in the output buffer
    MaxWrites,   \* bound: pieces of output the child writes
    RunFaults    \* subset of RunFaultKinds

\* "start": pipe, fork, timerfd or registration fail; "poll": poll fails;
\* "read": a read fails; "lost": somebody else reaps the child.
RunFaultKinds == {"start", "poll", "read", "lost"}

ASSUME RunAssumption ==
    /\ OutCap \in Nat /\ MaxWrites \in Nat
    /\ Runners \subseteq {"exec", "check", "async"} /\ RunFaults \subseteq RunFaultKinds

VARIABLES
    runner,     \* which implementation runs
    at,         \* "idle", "loop", "poll" or "done"
    proc,       \* the child: "none", "running", "zombie", "gone"
    exit,       \* how it ended: "none", "ok", "bad", "signal"
    out_open,   \* the child holds the write end
    heir,       \* a descendant holds it
    wrote,      \* pieces the child has written
    buffered,   \* pieces in the pipe
    got,        \* pieces kept by the parent
    fd,         \* the read end: "none", "open", "closed"
    timer,      \* deadline: "none", "armed", "due", "read"
    child_done, \* exec: child_done; async: child_reaped
    status,     \* the wait status the parent holds
    pipe_done,  \* exec: pipe_done
    verdict,    \* what the caller was told, "none" before
    calls,      \* async: invocations of the callback
    odd         \* history: a fault that loses the child or the pipe

runVars == <<runner, at, proc, exit, out_open, heir, wrote, buffered, got, fd, timer,
             child_done, status, pipe_done, verdict, calls, odd>>

childVars == <<proc, exit, out_open, heir, wrote>>

\* Nobody holds the write end: a read of the empty pipe returns 0.
AtEof == out_open = 0 /\ heir = 0
Least(a, b) == IF a < b THEN a ELSE b
\* The status as the caller is told it; the initial one, that of a child
\* somebody else reaped, reads as exit 0.
Report(s) == CASE s \in {"ok", "none"} -> "ok" [] s = "bad" -> "bad" [] OTHER -> "error"

-----------------------------------------------------------------------------
(* System calls. *)

\* waitpid(WNOHANG): the answers 0, the child, or ECHILD.
Wait == CASE proc = "running" -> "alive" [] proc = "zombie" -> "reaped" [] OTHER -> "echild"
Reap == proc' = IF proc = "zombie" THEN "gone" ELSE proc

\* kill(SIGKILL) and a blocking waitpid: the status is that of the kill,
\* unless the child had exited before.
KillAndReap ==
    /\ proc' = "gone" /\ out_open' = 0
    /\ exit' = IF proc = "running" THEN "signal" ELSE exit

\* Reading until EAGAIN or end of file keeps what there is room for.
Drain(room) == buffered' = 0 /\ got' = Least(got + buffered, room)

-----------------------------------------------------------------------------
(* Starting. *)

\* A pipe, a child that writes to it, and a deadline.
Begin ==
    /\ at = "idle"
    /\ at' = "loop" /\ proc' = "running" /\ out_open' = 1 /\ fd' = "open"
    /\ timer' = "armed"
    /\ UNCHANGED <<runner, exit, heir, wrote, buffered, got, child_done, status, pipe_done,
                   verdict, calls, odd>>

StartExec == runner = "exec" /\ Begin
StartCheck == runner = "check" /\ Begin
StartAsync == runner = "async" /\ Begin    \* timerfd and two registrations
Start == StartExec \/ StartCheck \/ StartAsync

\* A step of it fails; a child that was forked is killed and reaped.
StartFails ==
    /\ at = "idle" /\ "start" \in RunFaults
    /\ at' = "done" /\ verdict' = "refused"
    /\ \/ UNCHANGED <<proc, exit, fd>>
       \/ runner = "async" /\ proc' = "gone" /\ exit' = "signal" /\ fd' = "closed"
    /\ UNCHANGED <<runner, out_open, heir, wrote, buffered, got, timer, child_done, status,
                   pipe_done, calls, odd>>

-----------------------------------------------------------------------------
(* exec_cmd_argv: a loop of waitpid, deadline, poll and reads. *)

Return(v) == at' = "done" /\ verdict' = v

\* The status of the last successful waitpid is kept.
Noted == IF Wait = "reaped" THEN exit ELSE status

ExecWait_no_deadline ==
    /\ runner = "exec" /\ at = "loop"
    /\ Reap /\ child_done' = (IF Wait = "alive" THEN child_done ELSE 1)
    /\ status' = Noted /\ at' = "poll"
    /\ UNCHANGED <<runner, exit, out_open, heir, wrote, buffered, got, fd, timer, pipe_done,
                   verdict, calls, odd>>

ExecWait ==
    /\ runner = "exec" /\ at = "loop" /\ (child_done = 0 \/ pipe_done = 0)
    /\ child_done' = IF Wait = "alive" THEN child_done ELSE 1
    /\ status' = Noted
    /\ IF timer = "due"
         THEN /\ IF child_done' = 0 THEN KillAndReap ELSE Reap /\ UNCHANGED <<exit, out_open>>
              /\ fd' = "closed" /\ Return("timeout")
         ELSE /\ Reap /\ at' = "poll"
              /\ UNCHANGED <<exit, out_open, fd, verdict>>
    /\ UNCHANGED <<runner, heir, wrote, buffered, got, timer, pipe_done, calls, odd>>

\* poll times out, or the pipe is read dry.  A pipe that is closed before the
\* child is done is polled, read and closed again in every round; nobody else is
\* given its number meanwhile, so that this fails and changes nothing.
ExecPoll ==
    /\ runner = "exec" /\ at = "poll"
    /\ at' = "loop"
    /\ \/ UNCHANGED <<buffered, got, fd, pipe_done>>
       \/ /\ fd = "open" /\ (buffered > 0 \/ AtEof)
          /\ Drain(OutCap)
          /\ IF AtEof THEN pipe_done' = 1 /\ fd' = "closed" ELSE UNCHANGED <<pipe_done, fd>>
    /\ UNCHANGED <<runner, childVars, timer, child_done, status, verdict, calls, odd>>

\* A failing read ends the pipe, a failing poll ends the loop.
ExecPollFails ==
    /\ runner = "exec" /\ at = "poll"
    /\ \/ /\ "read" \in RunFaults /\ fd = "open" /\ pipe_done' = 1 /\ fd' = "closed"
          /\ at' = "loop" /\ odd' = 1 /\ UNCHANGED verdict
       \/ /\ "poll" \in RunFaults /\ odd' = 1 /\ UNCHANGED <<pipe_done, fd>>
          /\ Return(IF child_done = 1 THEN Report(status) ELSE "error")
    /\ UNCHANGED <<runner, childVars, buffered, got, timer, child_done, status, calls>>

ExecReturn ==
    /\ runner = "exec" /\ at = "loop" /\ child_done = 1 /\ pipe_done = 1
    /\ Return(Report(status))
    /\ UNCHANGED <<runner, childVars, buffered, got, fd, timer, child_done, status, pipe_done,
                   calls, odd>>

-----------------------------------------------------------------------------
(* service_validate_config: poll and reads, then waitpid, then the deadline. *)

CheckPoll ==
    /\ runner = "check" /\ at = "loop"
    /\ at' = "poll"
    /\ \/ timer = "due" /\ UNCHANGED <<buffered, got>>
       \/ (buffered > 0 \/ AtEof) /\ Drain(MaxWrites)
    /\ UNCHANGED <<runner, childVars, fd, timer, child_done, status, pipe_done, verdict, calls,
                   odd>>

\* When the loop ends the rest of the output is read and the pipe closed.
\* A waitpid that fails leaves the initial status, which reads as exit 0.
CheckWait ==
    /\ runner = "check" /\ at = "poll"
    /\ \/ /\ Wait # "alive"
          /\ Reap /\ status' = Noted
          /\ Return(IF Noted \in {"ok", "none"} THEN "ok" ELSE "bad")
          /\ Drain(MaxWrites) /\ fd' = "closed"
          /\ UNCHANGED <<exit, out_open>>
       \/ /\ Wait = "alive" /\ timer = "due"
          /\ KillAndReap /\ status' = exit' /\ Return("timeout")
          /\ Drain(MaxWrites) /\ fd' = "closed"
       \/ /\ Wait = "alive" /\ timer # "due"
          /\ at' = "loop"
          /\ UNCHANGED <<proc, exit, out_open, status, verdict, buffered, got, fd>>
    /\ UNCHANGED <<runner, heir, wrote, timer, child_done, pipe_done, calls, odd>>

-----------------------------------------------------------------------------
(* async_validate_config: callbacks of the reactor.  The descriptors are level
   triggered and registered while "at" is "loop".                          *)

\* reap_child: a child reaped before answers with its stored status.
AsyncReap ==
    /\ child_done' = IF child_done = 1 \/ Wait # "alive" THEN 1 ELSE 0
    /\ status' = IF child_done = 0 THEN Noted ELSE status

\* validate_cleanup: only the first call does anything, the callback included.
validate_cleanup_twice(v) ==
    /\ verdict' = v /\ calls' = calls + 1
    /\ UNCHANGED at

validate_cleanup(v) ==
    /\ at' = "done" /\ verdict' = v /\ calls' = calls + 1

\* The child is killed and reaped unless reap_child has had it.
EndChild ==
    /\ IF child_done' = 0 THEN KillAndReap ELSE Reap /\ UNCHANGED <<exit, out_open>>
    /\ fd' = "closed"

validate_io_cb ==
    /\ runner = "async" /\ at = "loop" /\ (buffered > 0 \/ AtEof)
    /\ Drain(OutCap)
    /\ IF ~AtEof \/ (child_done = 0 /\ Wait = "alive")
         THEN UNCHANGED <<at, proc, exit, out_open, fd, child_done, status, verdict, calls>>
         ELSE /\ AsyncReap /\ EndChild
              /\ validate_cleanup(IF child_done = 0 /\ Wait = "echild" THEN "error"
                                  ELSE IF status' = "ok" THEN "ok" ELSE "bad")
    /\ UNCHANGED <<runner, heir, wrote, timer, pipe_done, odd>>

\* A child that has exited is left to validate_io_cb; the timer is one-shot.
validate_timeout_cb ==
    /\ runner = "async" /\ at = "loop" /\ timer = "due"
    /\ timer' = "read"
    /\ AsyncReap
    /\ IF child_done = 1 \/ Wait = "reaped"
         THEN Reap /\ UNCHANGED <<at, exit, out_open, fd, verdict, calls>>
         ELSE EndChild /\ validate_cleanup("timeout")
    /\ UNCHANGED <<runner, heir, wrote, buffered, got, pipe_done, odd>>

\* async_validate_cleanup, and the callbacks whose read fails.
AsyncAbandon ==
    /\ runner = "async" /\ at = "loop"
    /\ AsyncReap /\ EndChild /\ validate_cleanup("error")
    /\ UNCHANGED <<runner, heir, wrote, buffered, got, timer, pipe_done, odd>>

-----------------------------------------------------------------------------
(* The child and the clock. *)

ChildWrites ==
    /\ proc = "running" /\ out_open = 1 /\ wrote < MaxWrites
    /\ wrote' = wrote + 1 /\ buffered' = buffered + 1
    /\ UNCHANGED <<runner, at, proc, exit, out_open, heir, got, fd, timer, child_done, status,
                   pipe_done, verdict, calls, odd>>

\* It closes its output, or leaves it to a descendant too.
ChildForks(h) ==
    /\ proc = "running" /\ out_open = 1
    /\ out_open' = h /\ heir' = h
    /\ UNCHANGED <<runner, at, proc, exit, wrote, buffered, got, fd, timer, child_done, status,
                   pipe_done, verdict, calls, odd>>

ChildExits(e) ==
    /\ proc = "running"
    /\ exit' = e /\ out_open' = 0
    /\ \/ proc' = "zombie" /\ UNCHANGED odd
       \/ "lost" \in RunFaults /\ proc' = "gone" /\ odd' = 1
    /\ UNCHANGED <<runner, at, heir, wrote, buffered, got, fd, timer, child_done, status,
                   pipe_done, verdict, calls>>

HeirExits ==
    /\ heir = 1 /\ heir' = 0
    /\ UNCHANGED <<runner, at, proc, exit, out_open, wrote, buffered, got, fd, timer, child_done,
                   status, pipe_done, verdict, calls, odd>>

DeadlinePasses ==
    /\ timer = "armed" /\ timer' = "due"
    /\ UNCHANGED <<runner, at, childVars, buffered, got, fd, child_done, status, pipe_done,
                   verdict, calls, odd>>

RunInit ==
    /\ runner \in Runners /\ at = "idle" /\ proc = "none" /\ exit = "none"
    /\ out_open = 0 /\ heir = 0 /\ wrote = 0 /\ buffered = 0 /\ got = 0 /\ fd = "none"
    /\ timer = "none" /\ child_done = 0 /\ status = "none" /\ pipe_done = 0
    /\ verdict = "none" /\ calls = 0 /\ odd = 0

Parent == \/ Start \/ ExecWait \/ ExecPoll \/ ExecReturn \/ CheckPoll \/ CheckWait
          \/ validate_io_cb \/ validate_timeout_cb
RunWorld == \/ ChildWrites \/ \E h \in {0, 1} : ChildForks(h)
            \/ \E e \in {"ok", "bad", "signal"} : ChildExits(e)
            \/ HeirExits \/ DeadlinePasses
RunNext == Parent \/ StartFails \/ ExecPollFails \/ AsyncAbandon \/ RunWorld

RunSpec == RunInit /\ [][RunNext]_runVars

-----------------------------------------------------------------------------
(* Properties. *)

Done == at = "done"

(* What the caller is told is true, and nothing is left behind: success is only
   reported of a child that exited with 0, a verdict of the child comes with
   all of its output up to the size of the buffer, whatever order the output,
   the end of file, the exit and the deadline came in; the callback is invoked
   once, with the child reaped and the pipe closed (the contract of
   async_validate.c; exec_cmd_argv and service_validate_config).           *)
VerdictTrue ==
    /\ calls = IF runner = "async" /\ Done /\ verdict # "refused" THEN 1 ELSE 0
    /\ Done /\ odd = 0 =>
       /\ verdict = "ok" => exit = "ok"
       /\ verdict = "bad" => exit \in {"bad", "signal"}
       /\ verdict \in {"ok", "bad"} =>
            got = Least(wrote, IF runner = "check" THEN MaxWrites ELSE OutCap)
       /\ proc \in {"none", "gone"} /\ fd \in {"none", "closed"}

(* Every run ends, whether or not the child ever exits or closes its output.
   The exception is an asynchronous validation whose child has exited while a
   descendant keeps the pipe: its timeout has been used up (line 290).     *)
RunEnds == <>[](Done \/ (runner = "async" /\ heir = 1))

=============================================================================
