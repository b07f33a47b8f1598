------------------------------ MODULE MCParts -------------------------------
(***************************************************************************)
(* For TLC, the parts of the daemon that run on their own: the sessions,    *)
(* the splice pump, the histories of errors and log lines, the messages and *)
(* files it reads, and what it asks of and hands to the host.  They share   *)
(* no state, so a behaviour is one of a single part; part says of which.    *)
(* The variables of the others are 0, or as SessionInit has them.           *)
(***************************************************************************)
EXTENDS Session, TLC

CONSTANTS
    PipeCapacity, MaxPerEvent, Limits, SpliceUnits,                      \* Splice
    Writers, ErrorMax, RotateCount, MaxFileSize, MaxRecords,             \* Diagnostics
    Messages, GroupBits, WordBits, Int32Max, BufSize, RespCap, StringCap,  \* NativeApi
    Files, Jsons, TooLong, IntBits,                                      \* ConfigLoad
    MaxElems, MaxPairs, Names, Data,                                     \* JsonMut
    Chars, Heads, MaxMore, BufLen, MaxChunk, ReadFlags,                  \* JsonRead
    Pids, CacheMax, MaxClock, MaxCalls,                                  \* Processes
    Users, Groups, Requests, MaxArgs,                                    \* Launch
    Links, MaxLinks, MaxChanges, SockFaults,                             \* Netlink
    Paths, Commands, MaxWords,                                           \* Cli
    Procs, Devices, TableZones, MaxInits, MaxMoves,                      \* Timezone
    Alphabet, MaxText, Olds, News, BufSizes, MaxBytes,                   \* Text
    Labels, Values, Widths, Seconds, Sizes                               \* Display

VARIABLES
    part,
    sp,                                                                  \* Splice
    ring, log, writer_at, pushed, logged, turns,                         \* Diagnostics
    rpc, rpc_phase, response, used, verdict, value, connected,           \* NativeApi
    load, conf_file, json, pc, line, tmp, seen, cfg, result,             \* ConfigLoad
    kind, m, mut_ref,                                                    \* JsonMut
    text, flg, incr, more,                                               \* JsonRead
    proc, clock, cache, ctx, pidfile, call, answer, sampled, calls,      \* Processes
    conf, disk, parent, exec_ctx, child,                                 \* Launch
    up, sock, kernel, queue, net_call, net_answer, seq, changes,         \* Netlink
    argv,                                                                \* Cli
    device, tz, name, file, local, inits, moves, past, first,            \* Timezone
    str,                                                                 \* Text
    world, snap, at, rows                                                \* Display

Pump == INSTANCE Splice
Hist == INSTANCE Diagnostics WITH at <- writer_at
Rpc  == INSTANCE NativeApi WITH phase <- rpc_phase
Conf == INSTANCE ConfigLoad WITH call <- load, file <- conf_file
Mut  == INSTANCE JsonMut WITH ref <- mut_ref
Json == INSTANCE JsonRead
Proc == INSTANCE Processes
Exec == INSTANCE Launch WITH ctx <- exec_ctx
Net  == INSTANCE Netlink WITH call <- net_call, answer <- net_answer
Args == INSTANCE Cli
Zone == INSTANCE Timezone
Str  == INSTANCE Text WITH text <- str
Show == INSTANCE Display

diagVars  == <<ring, log, writer_at, pushed, logged, turns>>
rpcVars   == <<rpc, rpc_phase, response, used, verdict, value, connected>>
confVars  == <<load, conf_file, json, pc, line, tmp, seen, cfg, result>>
mutVars   == <<kind, m, mut_ref>>
jsonVars  == <<text, flg, incr, more>>
procVars  == <<proc, clock, cache, ctx, pidfile, call, answer, sampled, calls>>
execVars  == <<conf, disk, parent, exec_ctx, child>>
netVars   == <<up, sock, kernel, queue, net_call, net_answer, seq, changes>>
zoneVars  == <<device, tz, name, file, local, inits, moves, past, first>>
showVars  == <<world, snap, at, rows>>

allVars == <<part, sessionVars, sp, diagVars, rpcVars, confVars, mutVars, jsonVars, procVars,
             execVars, netVars, argv, zoneVars, str, showVars>>

Parts == {"session", "pump", "hist", "rpc", "conf", "mut", "json", "proc", "exec", "net",
          "args", "zone", "str", "show"}

-----------------------------------------------------------------------------
PartsInit ==
    /\ part \in Parts
    /\ SessionInit
    /\ IF part = "pump" THEN Pump!Init ELSE sp = 0
    /\ IF part = "hist" THEN Hist!Init
       ELSE ring = 0 /\ log = 0 /\ writer_at = 0 /\ pushed = 0 /\ logged = 0 /\ turns = 0
    /\ IF part = "rpc" THEN Rpc!Init
       ELSE rpc = 0 /\ rpc_phase = 0 /\ response = 0 /\ used = 0 /\ verdict = 0 /\ value = 0
            /\ connected = 0
    /\ IF part = "conf" THEN Conf!Init
       ELSE load = 0 /\ conf_file = 0 /\ json = 0 /\ pc = 0 /\ line = 0 /\ tmp = 0 /\ seen = 0
            /\ cfg = 0 /\ result = 0
    /\ IF part = "mut" THEN Mut!Init ELSE kind = 0 /\ m = 0 /\ mut_ref = 0
    /\ IF part = "json" THEN Json!Init ELSE text = 0 /\ flg = 0 /\ incr = 0 /\ more = 0
    /\ IF part = "proc" THEN Proc!Init
       ELSE proc = 0 /\ clock = 0 /\ cache = 0 /\ ctx = 0 /\ pidfile = 0 /\ call = 0
            /\ answer = 0 /\ sampled = 0 /\ calls = 0
    /\ IF part = "exec" THEN Exec!Init
       ELSE conf = 0 /\ disk = 0 /\ parent = 0 /\ exec_ctx = 0 /\ child = 0
    /\ IF part = "net" THEN Net!Init
       ELSE up = 0 /\ sock = 0 /\ kernel = 0 /\ queue = 0 /\ net_call = 0 /\ net_answer = 0
            /\ seq = 0 /\ changes = 0
    /\ IF part = "args" THEN Args!Init ELSE argv = 0
    /\ IF part = "zone" THEN Zone!Init
       ELSE device = 0 /\ tz = 0 /\ name = 0 /\ file = 0 /\ local = 0 /\ inits = 0 /\ moves = 0
            /\ past = 0 /\ first = 0
    /\ IF part = "str" THEN Str!Init ELSE str = 0
    /\ IF part = "show" THEN Show!Init ELSE world = 0 /\ snap = 0 /\ at = 0 /\ rows = 0

\* A step of part p, while the others stand still.
Only(p) ==
    /\ part = p /\ part' = p
    /\ IF p = "session" THEN TRUE ELSE UNCHANGED sessionVars
    /\ IF p = "pump" THEN TRUE ELSE UNCHANGED sp
    /\ IF p = "hist" THEN TRUE ELSE UNCHANGED diagVars
    /\ IF p = "rpc" THEN TRUE ELSE UNCHANGED rpcVars
    /\ IF p = "conf" THEN TRUE ELSE UNCHANGED confVars
    /\ IF p = "mut" THEN TRUE ELSE UNCHANGED mutVars
    /\ IF p = "json" THEN TRUE ELSE UNCHANGED jsonVars
    /\ IF p = "proc" THEN TRUE ELSE UNCHANGED procVars
    /\ IF p = "exec" THEN TRUE ELSE UNCHANGED execVars
    /\ IF p = "net" THEN TRUE ELSE UNCHANGED netVars
    /\ IF p = "args" THEN TRUE ELSE UNCHANGED argv
    /\ IF p = "zone" THEN TRUE ELSE UNCHANGED zoneVars
    /\ IF p = "str" THEN TRUE ELSE UNCHANGED str
    /\ IF p = "show" THEN TRUE ELSE UNCHANGED showVars

PartsNext ==
    \/ Only("session") /\ SessionNext
    \/ Only("pump") /\ Pump!Next
    \/ Only("hist") /\ Hist!Next
    \/ Only("rpc") /\ Rpc!Next
    \/ Only("conf") /\ Conf!Next
    \/ Only("mut") /\ Mut!Next
    \/ Only("json") /\ Json!Next
    \/ Only("proc") /\ Proc!Next
    \/ Only("exec") /\ Exec!Next
    \/ Only("net") /\ Net!Next
    \/ Only("args") /\ Args!Next
    \/ Only("zone") /\ Zone!Next
    \/ Only("str") /\ Str!Next
    \/ Only("show") /\ Show!Next

PartsSpec == PartsInit /\ [][PartsNext]_allVars

SessionSymmetry == Permutations(Sessions)

-----------------------------------------------------------------------------
(* Values for the constants. *)

\* Fields of a message, as Field of NativeApi makes them; -1 is Endless.
MCField(f, w, v) == [field |-> f, wire |-> w, v |-> v]
MCFields ==
    {MCField(1, 0, 31), MCField(1, 0, 0), MCField(2, 0, 7), MCField(2, 0, 9),
     MCField(5, 0, 2), MCField(12, 0, 1), MCField(1, 0, -1), MCField(2, 2, 0),
     MCField(2, 2, 5), MCField(1, 2, 1), MCField(3, 5, 0), MCField(4, 3, 0)}
MCMessages == UNION {[1 .. n -> MCFields] : n \in 0 .. 2}

\* As in ConfigLoad: Garbage, Deep, NotString, NoApi and Api.
MCGarbage == -99
MCDeep == "deep"
MCNotString == "!"
MCNoApi == [listen |-> <<"", 0>>, port |-> <<>>, secret |-> "", none |-> 1]
MCApi(l, p, s) == [listen |-> l, port |-> p, secret |-> s, none |-> 0]
MCLines ==
    {<<"skip", "">>, <<"bad", "">>,
     <<"set", "API_PORT", 80>>, <<"set", "API_PORT", 70000>>,
     <<"set", "SERVICE_MAX_FAILURES", MCGarbage>>, <<"set", "CLASH_SECRET", "s">>,
     <<"set", "API_SECRET", "">>, <<"set", "RUN_DIR", "x">>, <<"set", "RUN_DIR", MCDeep>>,
     <<"set", "WORK_DIR", MCDeep>>,
     <<"set", "PID_FILE", "p">>, <<"set", "API_HOST", "10.0.0.1">>,
     <<"set", "VPN_AUTO_CLASH_MODE", 0>>, <<"set", "NO_SUCH_KEY", 0>>}
MCFiles == UNION {[1 .. n -> MCLines] : n \in 0 .. 2}
MCApis ==
    {MCNoApi, MCApi(<<"10.0.0.2", 81>>, <<>>, "t"), MCApi(<<"", 0>>, <<82>>, ""),
     MCApi(<<"10.0.0.2", MCGarbage>>, <<>>, ""), MCApi(<<"name", 0>>, <<83>>, "u"),
     MCApi(<<"", 84>>, <<85>>, MCNotString)}
MCNumbers == {MCGarbage, 0, 65536, 2^IntBits + 80, 2^(IntBits - 1) + 80, 80 - 2^IntBits}
MCJson(there, a, b) ==
    [there |-> there, services |-> a, top |-> b, experimental |-> MCNoApi]
MCJsons == {MCJson(t, MCNoApi, MCNoApi) : t \in {"no", "malformed"}}
             \cup {MCJson("yes", a, b) :
                     a \in MCApis, b \in {MCNoApi, MCApi(<<"10.0.0.1", 0>>, <<86>>, "v")}}
             \cup {MCJson("yes", MCNoApi, MCApi(<<"", 0>>, <<n>>, "")) : n \in MCNumbers}

MCHeads ==
    {<<>>, <<"[", "1", ",">>, <<"{", "q", "q", ":">>, <<"[", "[", "1", "]", ",">>,
     <<"[", "q", "e", "b">>, <<"{", "q", "q", ":", "[", "1", ",", "1", "]", ",", "q">>}

MCToken(n, v) == [eq |-> TRUE, name |-> n, value |-> v]
MCRequests ==
    {[args |-> <<"a", "-C">>, env |-> <<>>],
     [args |-> <<"-c", "x">>, env |-> <<MCToken("A", "1"), [eq |-> FALSE], MCToken("A", "2")>>],
     [args |-> <<"a">>, env |-> <<MCToken("A", "1"), MCToken("B", "1")>>],
     [args |-> <<"--disable-color", "a", "b", "c">>, env |-> <<MCToken("LD_PRELOAD", "u")>>]}

MCLinks == <<"eth", "tun", "ipsec">>

MCContainers ==
    {<<>>, <<[zones |-> {"Tokyo"}, footer |-> FALSE],
             [zones |-> {"Shanghai", "Lima"}, footer |-> TRUE]>>}
MCDevices ==
    [localtime : {FALSE}, prop : {"", "Shanghai", "Tokyo", "Lima"}, locale : {"", "Seoul"},
     date : {"", "Lima"}, containers : MCContainers, writable : BOOLEAN]
    \cup [localtime : {TRUE}, prop : {"Tokyo"}, locale : {""}, date : {""},
          containers : {<<>>}, writable : {TRUE}]

MCOlds == {<<>>, <<"a">>, <<"a", "a">>, <<"a", "s">>}
MCNews == {<<>>, <<"a">>, <<"a", "a">>, <<"s", "a", "s">>}

-----------------------------------------------------------------------------
(* Properties. *)

\* Nothing is lost or counted twice on its way through the pump, the ring of
\* errors and the rotated log: SpliceExact of Splice, HistoryKept of Diagnostics.
DataKept ==
    /\ part = "pump" => Pump!SpliceExact
    /\ part = "hist" => Hist!HistoryKept

\* An RPC reports what the message that sing-box sent means, however it is cut
\* into reads, or fails: FramesExact of NativeApi.
FramesExact == part = "rpc" => Rpc!FramesExact


\* The readers of JSON text agree with the grammar and with each other, and
\* edits of a document do what their calls promise: ReadExact and IncrExact of
\* JsonRead, RingExact of JsonMut.
JsonExact ==
    /\ part = "json" => Json!ReadExact /\ Json!IncrExact
    /\ part = "mut" => Mut!RingExact


=============================================================================
