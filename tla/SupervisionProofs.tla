------------------------- MODULE SupervisionProofs --------------------------
(***************************************************************************)
(* What the supervisor is told of its children.  First, the verdict of the *)
(* three ways of running a command is true, for every amount of output,    *)
(* every size of the output buffer and every combination of faults.        *)
(* Second, how old the snapshot of sing-box's state can get, for every     *)
(* budget of an RPC, every interval between rounds, every delay of the     *)
(* reactor and any number of children.                                     *)
(***************************************************************************)
EXTENDS ChildRun, Health, TLAPS

-----------------------------------------------------------------------------
\* ChildRun: the verdicts.

Exits == {"none", "ok", "bad", "signal"}

\* The room each runner has for output.
Room == IF runner = "check" THEN MaxWrites ELSE OutCap

RunTypes ==
    /\ runner \in {"exec", "check", "async"}
    /\ at \in {"idle", "loop", "poll", "done"}
    /\ proc \in {"none", "running", "zombie", "gone"}
    /\ exit \in Exits /\ status \in Exits
    /\ out_open \in {0, 1} /\ heir \in {0, 1} /\ child_done \in {0, 1} /\ pipe_done \in {0, 1}
    /\ wrote \in Nat /\ buffered \in Nat /\ got \in Nat
    /\ odd \in {0, 1}

\* A run that has not ended has told nobody; an asynchronous one that ended
\* called back once, unless it never began.
Told ==
    /\ ~Done => verdict = "none"
    /\ calls = IF runner = "async" /\ Done /\ verdict # "refused" THEN 1 ELSE 0

\* Nothing is lost in the pipe: what was written is still in it or was read,
\* and what was read was kept up to the size of the buffer.
Conserved == buffered =< wrote /\ got = Least(wrote - buffered, Room)

\* Where the child is.  With no fault, the parent alone makes it go away, and
\* then holds its status.
ChildHeld ==
    /\ proc = "none" <=> at = "idle" \/ (Done /\ exit = "none" /\ verdict = "refused")
    /\ proc \in {"none", "running"} <=> exit = "none"
    /\ proc = "zombie" => out_open = 0
    /\ at = "idle" => child_done = 0 /\ pipe_done = 0 /\ fd = "none" /\ out_open = 0
    /\ runner = "check" => child_done = 0
    /\ odd = 0 =>
         /\ ~Done => (proc = "gone" <=> child_done = 1)
         /\ child_done = 1 => status = exit /\ proc = "gone"
         /\ Done => proc \in {"none", "gone"} /\ fd \in {"none", "closed"}

\* exec_cmd_argv has seen the end of the pipe only when no more can come.
PipeDrained ==
    /\ pipe_done = 1 => fd = "closed"
    /\ pipe_done = 1 /\ odd = 0 => buffered = 0 /\ out_open = 0

\* What a verdict of the child rests on.
VerdictGrounded ==
    Done /\ odd = 0 =>
       /\ verdict = "ok" => exit = "ok"
       /\ verdict = "bad" => exit \in {"bad", "signal"}
       /\ verdict \in {"ok", "bad"} => buffered = 0

RunInv == RunTypes /\ Told /\ Conserved /\ ChildHeld /\ PipeDrained /\ VerdictGrounded

-----------------------------------------------------------------------------
\* Reading the pipe dry keeps Conserved (the read loops of all three).
LEMMA DrainConserves ==
    ASSUME OutCap \in Nat, MaxWrites \in Nat, RunTypes, Conserved, Drain(Room),
           wrote' = wrote, runner' = runner
    PROVE  buffered' = 0 /\ got' \in Nat /\ Conserved'
BY DEF RunTypes, Conserved, Drain, Room, Least

\* RunInv holds when nothing has been started.
LEMMA RunStarts ==
    ASSUME OutCap \in Nat, MaxWrites \in Nat,
           Runners \subseteq {"exec", "check", "async"}, RunInit
    PROVE  RunInv
BY SMTT(30) DEF RunInit, RunInv, RunTypes, Told, Conserved, ChildHeld, PipeDrained,
   VerdictGrounded,
       Exits, Room, Least, Done

\* Every step of a parent, of the child and of the clock keeps RunInv.
LEMMA RunStep ==
    ASSUME OutCap \in Nat, MaxWrites \in Nat, RunInv, [RunNext]_runVars
    PROVE  RunInv'
<1> USE DEF Exits, Done, RunInv, RunTypes, Told, ChildHeld, PipeDrained, VerdictGrounded
<1>a. ASSUME UNCHANGED <<runner, wrote, buffered, got>> PROVE Conserved'
  BY <1>a, Zenon DEF Conserved, Room
<1>1. CASE Start
  BY <1>1, <1>a, Zenon DEF Start, StartExec, StartCheck, StartAsync, Begin
<1>2. CASE StartFails
  BY <1>2, <1>a, Zenon DEF StartFails
<1>3. CASE ExecWait
  BY <1>3, <1>a DEF ExecWait, Wait, Noted, Reap, KillAndReap, Return
<1>4. CASE ExecPoll
  <2>1. CASE UNCHANGED <<buffered, got, fd, pipe_done>>
    BY <1>4, <1>a, <2>1 DEF ExecPoll, childVars
  <2>2. CASE /\ fd = "open" /\ Drain(OutCap)
             /\ IF AtEof THEN pipe_done' = 1 /\ fd' = "closed" ELSE UNCHANGED <<pipe_done, fd>>
    <3>1. buffered' = 0 /\ got' \in Nat /\ Conserved'
      BY <1>4, <2>2, DrainConserves, Zenon DEF ExecPoll, childVars, Room
    <3> QED BY <1>4, <2>2, <3>1 DEF ExecPoll, childVars, AtEof
  <2> QED BY <1>4, <2>1, <2>2, Zenon DEF ExecPoll
<1>5. CASE ExecPollFails
  BY <1>5, <1>a DEF ExecPollFails, childVars, Return, Report
<1>6. CASE ExecReturn
  BY <1>6, <1>a DEF ExecReturn, childVars, Return, Report
<1>7. CASE CheckPoll
  <2>1. CASE UNCHANGED <<buffered, got>>
    BY <1>7, <1>a, <2>1 DEF CheckPoll, childVars
  <2>2. CASE Drain(MaxWrites)
    <3>1. buffered' = 0 /\ got' \in Nat /\ Conserved'
      BY <1>7, <2>2, DrainConserves, Zenon DEF CheckPoll, childVars, Room
    <3> QED BY <1>7, <3>1 DEF CheckPoll, childVars
  <2> QED BY <1>7, <2>1, <2>2, Zenon DEF CheckPoll
<1>8. CASE CheckWait
  <2>1. CASE Wait = "alive" /\ timer # "due"
    BY <1>8, <1>a, <2>1 DEF CheckWait
  <2>2. CASE ~(Wait = "alive" /\ timer # "due")
    <3>1. buffered' = 0 /\ got' \in Nat /\ Conserved'
      BY <1>8, <2>2, DrainConserves, Zenon DEF CheckWait, Room
    <3>2. CASE Wait # "alive"
      BY <1>8, <3>1, <3>2 DEF CheckWait, Wait, Reap, Noted, Return
    <3>3. CASE Wait = "alive"
      BY <1>8, <2>2, <3>1, <3>3, Zenon DEF CheckWait, Wait, KillAndReap, Return
    <3> QED BY <3>2, <3>3, Zenon
  <2> QED BY <2>1, <2>2, Zenon
<1>9. CASE validate_io_cb
  <2>1. buffered' = 0 /\ got' \in Nat /\ Conserved'
    BY <1>9, DrainConserves, Zenon DEF validate_io_cb, Room
  <2>2. CASE ~AtEof \/ (child_done = 0 /\ Wait = "alive")
    BY <1>9, <2>1, <2>2 DEF validate_io_cb
  <2>3. CASE ~(~AtEof \/ (child_done = 0 /\ Wait = "alive"))
    BY <1>9, <2>1, <2>3
    DEF validate_io_cb, AsyncReap, EndChild, KillAndReap, Reap, Noted, Wait, validate_cleanup
  <2> QED BY <2>2, <2>3, Zenon
<1>10. CASE validate_timeout_cb
  BY <1>10, <1>a
  DEF validate_timeout_cb, AsyncReap, EndChild, KillAndReap, Reap, Noted, Wait,
  validate_cleanup
<1>11. CASE AsyncAbandon
  BY <1>11, <1>a
  DEF AsyncAbandon, AsyncReap, EndChild, KillAndReap, Reap, Noted, Wait, validate_cleanup
<1>12. CASE ChildWrites
  <2>1. Conserved'
    BY <1>12 DEF ChildWrites, Conserved, Room, Least
  <2> QED BY <1>12, <2>1 DEF ChildWrites
<1>13. ASSUME NEW h \in {0, 1}, ChildForks(h) PROVE RunInv'
  BY <1>13, <1>a DEF ChildForks
<1>14. ASSUME NEW e \in {"ok", "bad", "signal"}, ChildExits(e) PROVE RunInv'
  BY <1>14, <1>a DEF ChildExits
<1>15. CASE HeirExits
  BY <1>15, <1>a DEF HeirExits
<1>16. CASE DeadlinePasses
  BY <1>16, <1>a DEF DeadlinePasses, childVars
<1>17. CASE UNCHANGED runVars
  BY <1>17, <1>a DEF runVars
<1> QED
  BY <1>1, <1>2, <1>3, <1>4, <1>5, <1>6, <1>7, <1>8, <1>9, <1>10, <1>11, <1>12, <1>13, <1>14,
     Zenon,
     <1>15, <1>16, <1>17 DEF RunNext, Parent, RunWorld

\* What exec_cmd_argv, service_validate_config and async_validate_config tell
\* their callers of a child is true: VerdictTrue of ChildRun.
THEOREM VerdictsHold == RunSpec => []VerdictTrue
<1>1. RunInit => RunInv
  BY RunStarts, RunAssumption, Zenon
<1>2. RunInv /\ [RunNext]_runVars => RunInv'
  BY RunStep, RunAssumption, Zenon
<1>3. RunInv => VerdictTrue
  BY RunAssumption DEF Exits, Done, RunInv, RunTypes, Told, Conserved, ChildHeld,
     VerdictGrounded, VerdictTrue,
                       Room, Least
<1> QED BY <1>1, <1>2, <1>3, PTL DEF RunSpec

-----------------------------------------------------------------------------
\* Health: the age of a sample.

Places == Rpcs \cup {"wait", "write"}

\* The longest the worker stays in a place of its round.
Longest(r) == IF r \in Rpcs THEN RpcBudget ELSE IF r = "wait" THEN Interval ELSE 0

\* The most that can have passed between the last write and a place.
SinceWrite(r) ==
    CASE r = "wait"    -> 0
      [] r = "vpn_get" -> Interval
      [] r = "vpn_set" -> Interval + RpcBudget
      [] r = "status"  -> Interval + 2 * RpcBudget
      [] r = "version" -> Interval + 3 * RpcBudget
      [] r = "mode"    -> Interval + 4 * RpcBudget
      [] OTHER         -> Interval + 5 * RpcBudget

\* How long ago, at most, the worker wrote a sample, if it kept its limits.
Elapsed == SinceWrite(rpc) + spent

Sampling == rpc \in {"version", "mode", "write"}

\* The child that the sample written last is from.
LastWritten == IF pipe = <<>> THEN snapshot.from ELSE pipe[1].from

Placed == rpc \in Places /\ spent \in Nat /\ spent <= Longest(rpc)

AgeTypes ==
    /\ waiting \in Nat /\ waiting <= Margin
    /\ age \in Nat /\ rounds \in 0 .. 2 /\ child \in Nat
    /\ snapshot.from \in Nat /\ candidate.from \in Nat /\ LastWritten \in Nat

\* The worker writes a sample every round and the reactor takes it within its
\* margin, so a snapshot is never older than both while they keep their limits.
AgeBounded ==
    late = 0 => /\ pipe = <<>> => age <= Elapsed
                /\ pipe # <<>> => age <= Round + waiting

\* Samples arrive in the order in which they were taken.
InOrder ==
    /\ snapshot.from <= LastWritten /\ LastWritten <= child
    /\ Sampling => LastWritten <= candidate.from /\ candidate.from <= child

\* Only the sample under way at the spawn can be of an earlier child: the next one
\* is begun after it, and so is the second to be written.
OwnSample ==
    /\ rounds # 0 /\ Sampling => candidate.from = child
    /\ rounds = 2 => LastWritten = child

AgeInv == Placed /\ AgeTypes /\ AgeBounded /\ InOrder /\ OwnSample

-----------------------------------------------------------------------------
\* The times of a round, place by place (api_refresh_worker).
LEMMA Times ==
    ASSUME RpcBudget \in Nat, Interval \in Nat
    PROVE  /\ Round \in Nat /\ Round = Interval + 5 * RpcBudget
           /\ SinceWrite("wait") = 0
           /\ SinceWrite("vpn_get") = Interval
           /\ SinceWrite("vpn_set") = Interval + RpcBudget
           /\ SinceWrite("status") = Interval + 2 * RpcBudget
           /\ SinceWrite("version") = Interval + 3 * RpcBudget
           /\ SinceWrite("mode") = Interval + 4 * RpcBudget
           /\ SinceWrite("write") = Interval + 5 * RpcBudget
           /\ Longest("wait") = Interval /\ Longest("write") = 0
           /\ \A r \in Rpcs : Longest(r) = RpcBudget
BY DEF Round, RefreshRpcs, VpnRpcs, SinceWrite, Longest, Rpcs

\* Every place has a time.
LEMMA NatBases ==
    ASSUME RpcBudget \in Nat, Interval \in Nat
    PROVE  \A r \in Places : SinceWrite(r) \in Nat
BY DEF Places, Rpcs, SinceWrite

\* No place of a round comes later after a write than the round is long.
LEMMA RoundBound ==
    ASSUME RpcBudget \in Nat, Interval \in Nat, Placed
    PROVE  Round \in Nat /\ Elapsed \in Nat /\ Elapsed <= Round
<1>1. CASE rpc = "wait" \/ rpc = "write"
  BY <1>1, Times DEF Placed, Elapsed
<1>2. CASE rpc \in {"vpn_get", "vpn_set", "status"}
  <2>1. spent <= RpcBudget
    BY <1>2, Times, Zenon DEF Placed, Rpcs
  <2> QED BY <1>2, <2>1, Times DEF Placed, Elapsed
<1>3. CASE rpc \in {"version", "mode"}
  <2>1. spent <= RpcBudget
    BY <1>3, Times, Zenon DEF Placed, Rpcs
  <2> QED BY <1>3, <2>1, Times DEF Placed, Elapsed
<1> QED BY <1>1, <1>2, <1>3, Zenon DEF Placed, Places, Rpcs

\* A step of the worker to its next place, other than a write, begins it no
\* earlier than the last place ended.
LEMMA WorkerMoves ==
    ASSUME RpcBudget \in Nat, Interval \in Nat, Placed, VpnStep \/ StatusStep \/ RefreshStep
    PROVE  Placed' /\ Elapsed' \in Nat /\ Elapsed <= Elapsed'
<1>0. spent' = 0 /\ rpc' \in Places
  BY Zenon DEF VpnStep, StatusStep, RefreshStep, Enter, Places, Rpcs
<1>1. Placed'
  <2>1. CASE rpc' \in Rpcs
    BY <1>0, <2>1, Times DEF Placed
  <2>2. CASE rpc' \in {"wait", "write"}
    BY <1>0, <2>2, Times DEF Placed
  <2> QED BY <1>0, <2>1, <2>2, Zenon DEF Places
<1>2. CASE rpc = "wait"
  <2>1. rpc' \in {"vpn_get", "status"}
    BY <1>2, Zenon DEF VpnStep, StatusStep, RefreshStep, Enter
  <2> QED BY <1>0, <1>1, <1>2, <2>1, Times DEF Placed, Elapsed
<1>3. CASE rpc \in Rpcs
  <2>0. spent <= RpcBudget /\ spent \in Nat
    BY <1>3, Times, Zenon DEF Placed
  <2>1. CASE rpc = "vpn_get"
    <3>1. rpc' \in {"vpn_set", "status"}
      BY <2>1, Zenon DEF VpnStep, StatusStep, RefreshStep, Enter
    <3> QED BY <1>0, <1>1, <2>0, <2>1, <3>1, Times DEF Elapsed
  <2>2. CASE rpc = "vpn_set"
    <3>1. rpc' = "status"
      BY <2>2, Zenon DEF VpnStep, StatusStep, RefreshStep, Enter
    <3> QED BY <1>0, <1>1, <2>0, <2>2, <3>1, Times DEF Elapsed
  <2>3. CASE rpc = "status"
    <3>1. rpc' \in {"version", "write"}
      BY <2>3, Zenon DEF VpnStep, StatusStep, RefreshStep, Enter
    <3> QED BY <1>0, <1>1, <2>0, <2>3, <3>1, Times DEF Elapsed
  <2>4. CASE rpc = "version"
    <3>1. rpc' = "mode"
      BY <2>4, Zenon DEF VpnStep, StatusStep, RefreshStep, Enter
    <3> QED BY <1>0, <1>1, <2>0, <2>4, <3>1, Times DEF Elapsed
  <2>5. CASE rpc = "mode"
    <3>1. rpc' = "write"
      BY <2>5, Zenon DEF VpnStep, StatusStep, RefreshStep, Enter
    <3> QED BY <1>0, <1>1, <2>0, <2>5, <3>1, Times DEF Elapsed
  <2> QED BY <1>3, <2>1, <2>2, <2>3, <2>4, <2>5, Zenon DEF Rpcs
<1> QED BY <1>2, <1>3, Zenon DEF VpnStep, StatusStep, RefreshStep, Rpcs

\* AgeInv holds before the first round.
LEMMA AgeInit ==
    ASSUME RpcBudget \in Nat, Interval \in Nat, Margin \in Nat, HealthInit
    PROVE  AgeInv
<1>1. snapshot.from = 0 /\ candidate.from = 0 /\ LastWritten = 0
  BY Zenon DEF HealthInit, NoSample, Sample, LastWritten
<1>2. Placed
  <2>1. rpc \in Rpcs /\ spent = 0
    BY Zenon DEF HealthInit, Rpcs
  <2> QED BY <2>1, Times DEF Placed, Places
<1>3. ~Sampling
  BY DEF HealthInit, Sampling
<1> QED BY <1>1, <1>2, <1>3, RoundBound
        DEF HealthInit, AgeInv, AgeTypes, AgeBounded, InOrder, OwnSample

\* A round of the worker, the reactor's callbacks and a second that passes keep
\* AgeInv.
LEMMA AgeStep ==
    ASSUME RpcBudget \in Nat, Interval \in Nat, Margin \in Nat, AgeInv, [HealthNext]_healthVars
    PROVE  AgeInv'
<1>0. Placed /\ Round \in Nat /\ Elapsed \in Nat /\ Elapsed <= Round
  BY RoundBound, Zenon DEF AgeInv
<1> USE <1>0 DEF AgeInv, AgeTypes, AgeBounded, InOrder, OwnSample, serviceVars, readerVars
<1>p. ASSUME UNCHANGED <<pipe, snapshot>> PROVE LastWritten' = LastWritten
  BY <1>p, Zenon DEF LastWritten
<1>r. ASSUME UNCHANGED <<rpc, spent>>
      PROVE  Elapsed' = Elapsed /\ Sampling' = Sampling /\ Placed'
  BY <1>r, Zenon DEF Elapsed, Sampling, Placed
<1>1. CASE VpnStep
  <2>1. /\ UNCHANGED <<LastWritten, candidate, pipe, rounds, serviceVars, readerVars>>
        /\ ~Sampling'
    BY <1>1, <1>p, Zenon DEF VpnStep, Enter, Sampling
  <2> QED BY <1>1, <2>1, WorkerMoves
<1>2. CASE StatusStep
  <2>1. /\ UNCHANGED <<LastWritten, pipe, rounds, serviceVars, readerVars>>
        /\ candidate'.from = child
    BY <1>2, <1>p, Zenon DEF StatusStep, Sample
  <2> QED BY <1>2, <2>1, WorkerMoves
<1>3. CASE RefreshStep
  <2>1. /\ UNCHANGED <<LastWritten, candidate, pipe, rounds, serviceVars, readerVars>>
        /\ Sampling
    BY <1>3, <1>p, Zenon DEF RefreshStep, Sampling
  <2> QED BY <1>3, <2>1, WorkerMoves
<1>4. CASE WriteStep
  <2>1. rpc = "write" /\ rpc' = "wait" /\ spent' = 0
    BY <1>4, Zenon DEF WriteStep, Enter
  <2>2. Sampling /\ ~Sampling'
    BY <2>1, Zenon DEF Sampling
  <2>3. Placed' /\ Elapsed' = 0
    BY <2>1, Times DEF Placed, Places, Elapsed
  <2>4. candidate'.from = 0 /\ UNCHANGED <<serviceVars, snapshot, age, since, late>>
    BY <1>4, Zenon DEF WriteStep, NoSample, Sample
  <2>5. CASE UNCHANGED <<pipe, waiting, rounds>> /\ pipe # <<>>
    BY <1>p, <2>2, <2>3, <2>4, <2>5
  <2>6. CASE /\ pipe' = <<candidate>> /\ rounds' = UpTo(2, rounds)
             /\ waiting' = IF pipe = <<>> THEN 0 ELSE waiting
    <3>1. pipe' # <<>> /\ LastWritten' = candidate.from
      BY <2>6, Zenon DEF LastWritten
    <3>2. rounds' \in 0 .. 2 /\ (rounds' = 2 => rounds # 0)
      BY <2>6 DEF UpTo
    <3>3. AgeTypes' /\ AgeBounded' /\ InOrder'
      BY <2>2, <2>3, <2>4, <2>6, <3>1, <3>2
    <3>4. OwnSample'
      BY <2>2, <2>4, <3>1, <3>2
    <3> QED BY <2>3, <3>3, <3>4, Zenon
  <2> QED BY <1>4, <2>5, <2>6, Zenon DEF WriteStep
<1>5. CASE api_result_cb
  <2>1. /\ pipe' = <<>> /\ snapshot'.from = LastWritten /\ LastWritten' = LastWritten
        /\ age' = 0 /\ waiting' = 0 /\ UNCHANGED <<candidate, child, rounds>>
    BY <1>5, Zenon DEF api_result_cb, LastWritten
  <2>2. Elapsed' = Elapsed /\ Sampling' = Sampling /\ Placed'
    BY <1>5, <1>r, Zenon DEF api_result_cb
  <2> QED BY <2>1, <2>2
<1>6. CASE service_spawn
  <2>1. /\ UNCHANGED <<LastWritten, candidate, pipe, waiting, snapshot, age, late>>
        /\ child' = child + 1 /\ rounds' = 0
    BY <1>6, <1>p, Zenon DEF service_spawn
  <2>2. Elapsed' = Elapsed /\ Sampling' = Sampling /\ Placed'
    BY <1>6, <1>r, Zenon DEF service_spawn
  <2> QED BY <2>1, <2>2
<1>7. ASSUME UNCHANGED <<child, rounds, rpc, spent, candidate, pipe, waiting, snapshot, age,
                         late>>
      PROVE  AgeInv'
  BY <1>p, <1>r, <1>7
<1>8. CASE Second
  <2>1. /\ UNCHANGED <<LastWritten, child, rounds, candidate, pipe, snapshot>>
        /\ Sampling' = Sampling /\ rpc' = rpc
    BY <1>8, <1>p, Zenon DEF Second, Sampling
  <2>2. waiting' \in Nat /\ waiting' <= Margin /\ age' \in Nat
    BY <1>8, <2>1 DEF Second, UpTo
  <2>3. Placed'
    BY <1>8, <2>1 DEF Second, Placed, Limit, Longest, UpTo
  <2>4. Elapsed' \in Nat
    BY <2>3, NatBases DEF Elapsed, Placed
  <2>5. AgeBounded'
    <3>1. CASE ~snapshot.valid
      <4>1. age' = 0
        BY <1>8, <3>1, Zenon DEF Second
      <4>2. \A m, n \in Nat : 0 <= m /\ 0 <= m + n
        OBVIOUS
      <4>3. 0 <= Elapsed' /\ 0 <= Round + waiting'
        BY <2>2, <2>4, <4>2, Zenon
      <4> QED BY <4>1, <4>3, Zenon
    <3>2. CASE snapshot.valid /\ late' = 0
      <4>1. late = 0 /\ spent # Limit /\ (pipe # <<>> => waiting # Margin)
        BY <1>8, <3>2 DEF Second
      <4>2. spent \in Nat /\ spent < Limit
        BY <4>1 DEF Placed, Limit, Longest
      <4>3. spent' = spent + 1 /\ age' <= age + 1
        BY <1>8, <3>2, <4>2 DEF Second, UpTo
      <4>4. pipe # <<>> => waiting' = waiting + 1
        BY <1>8, <4>1 DEF Second, UpTo
      <4>5. Elapsed' = Elapsed + 1
        BY <2>1, <4>2, <4>3, NatBases DEF Elapsed, Placed
      <4>6. pipe = <<>> => age' <= Elapsed'
        BY <2>2, <4>1, <4>3, <4>5
      <4>7. pipe # <<>> => age' <= Round + waiting'
        BY <2>2, <4>1, <4>3, <4>4
      <4> QED BY <2>1, <4>6, <4>7, Zenon
    <3>3. CASE late' # 0
      BY <3>3
    <3> QED BY <3>1, <3>2, <3>3, Zenon
  <2> QED BY <2>1, <2>2, <2>3, <2>5
<1> QED
  BY <1>1, <1>2, <1>3, <1>4, <1>5, <1>6, <1>7, <1>8, Zenon
  DEF HealthNext, HealthWorker, HealthReactor, service_health_check_cb, MonitorProbe,
  MonitorFails, ChildChanges, healthVars

\* A valid snapshot expires only when the worker or the reactor exceeded its limit
\* after it was received, and from the second sample after its spawn on a child is
\* judged by its own (API_SNAPSHOT_STALE_MS, service_health_check_cb).
THEOREM SampleAgeHolds == HealthSpec => []SampleAge
<1> USE HealthAssumption
<1>1. HealthInit => AgeInv
  BY AgeInit, Zenon
<1>2. AgeInv /\ [HealthNext]_healthVars => AgeInv'
  BY AgeStep, Zenon
<1>3. AgeInv => SampleAge
  <2> SUFFICES ASSUME AgeInv PROVE SampleAge
    BY Zenon
  <2>1. Round \in Nat /\ Elapsed \in Nat /\ Elapsed <= Round
    BY RoundBound, Zenon DEF AgeInv
  <2>2. StaleAfter = Round + Margin
    BY DEF StaleAfter, Round, RefreshRpcs, VpnRpcs
  <2>3. late = 0 => age <= StaleAfter
    BY <2>1, <2>2 DEF AgeInv, AgeTypes, AgeBounded
  <2>4. rounds = 2 /\ pipe = <<>> => snapshot.from = child
    BY Zenon DEF AgeInv, OwnSample, LastWritten
  <2> QED BY <2>3, <2>4, Zenon DEF SampleAge
<1> QED BY <1>1, <1>2, <1>3, PTL DEF HealthSpec

=============================================================================
