------------------------------- MODULE Launch -------------------------------
(***************************************************************************)
(* service_spawn of service.c at the grain of its system calls: the        *)
(* parent that prepares the directories, forks, records the child and      *)
(* writes the PID file, and the child that leaves the daemon's session,    *)
(* gives up its descriptors, signal mask and privileges, and executes      *)
(* sing-box.  The two run side by side and every call may fail.  The       *)
(* credentials are resolved as in service_credentials.c.  (Service.tla     *)
(* takes this as one step that succeeds or fails.)                         *)
(***************************************************************************)
EXTENDS Integers, Sequences, SequencesExt

CONSTANTS
    Users,         \* values of SERVICE_USER
    Groups,        \* values of SERVICE_GROUP
    Requests,      \* [args, env] pairs: SERVICE_ARGS and SERVICE_ENV by token
    MaxArgs        \* the 28 of build_service_args

VARIABLES
    conf,          \* what service_ctx_t asks for, and who the daemon is
    disk,          \* the log file, its backups, sing-box.pid
    parent,        \* place of the parent in service_spawn
    ctx,           \* child_pid and child_starttime_ticks are set
    child          \* the forked process

vars == <<conf, disk, parent, ctx, child>>

Failed == [ok |-> FALSE]

(* Credentials.  Numbers stand for themselves; "name" is in the databases, *)
(* "nobody" is not, "long" has a name too long for the record, "12x" and   *)
(* a number beyond uid_t are refused by parse_uid and parse_gid.           *)
PasswdUid == 7
PasswdGid == 8
GroupGid == 9
Numbers == {"1", "2"}
Value(text) == IF text = "1" THEN 1 ELSE 2
BadNumbers == {"12x", "huge"}

\* parse_uid, parse_gid.
parse_id(text) == IF text \in BadNumbers THEN Failed ELSE [ok |-> TRUE, id |-> Value(text)]

ByUser(user, uid, gid) ==
    CASE user = "" -> [ok |-> TRUE, uid |-> uid, gid |-> gid, init_groups |-> FALSE]
      [] user = "root" -> [ok |-> TRUE, uid |-> 0, gid |-> 0, init_groups |-> FALSE]
      [] user \in Numbers -> [ok |-> TRUE, uid |-> parse_id(user).id, gid |-> gid, init_groups |-> FALSE]
      [] user = "name" -> [ok |-> TRUE, uid |-> PasswdUid, gid |-> PasswdGid, init_groups |-> TRUE]
      [] OTHER -> Failed           \* a bad number, an unknown or a long name

service_credentials_resolve(user, group, uid, gid) ==
    LET c == ByUser(user, uid, gid) IN
    IF ~c.ok \/ group = "" THEN c
    ELSE
    CASE group = "root" -> [c EXCEPT !.gid = 0]
      [] group \in Numbers -> [c EXCEPT !.gid = parse_id(group).id]
      [] group = "name" -> [c EXCEPT !.gid = GroupGid]
      [] OTHER -> Failed

\* strstr(service_args, "-c") or "-C": any argument that contains one.
has_custom_c(args) == \E i \in DOMAIN args : args[i] \in {"-c", "-C", "--disable-color"}


\* The arguments that find no place are dropped without a word.
build_service_args(args) ==
    LET own == <<"sing-box", "run", "-D", "work">>
               \o (IF has_custom_c(args) THEN <<>> ELSE <<"-c", "conf">>)
    IN own \o SubSeq(args, 1, Min({Len(args), MaxArgs - Len(own)}))

\* set_service_environment after unsetenv("LD_PRELOAD"): NAME=value tokens
\* are set in order, a token without "=" is passed over.
set_service_environment(env, tokens) ==
    FoldLeft(LAMBDA e, t : IF t.eq THEN {v \in e : v[1] # t.name} \cup {<<t.name, t.value>>} ELSE e,
             {v \in env : v[1] # "LD_PRELOAD"}, tokens)

----------------------------------------------------------------------------
(* The parent.                                                             *)

NoChild == [at |-> "none"]

\* What a freshly forked child inherits.
Forked ==
    [at |-> "sigpipe", own_session |-> FALSE, out |-> "daemon", masked |-> TRUE,
     uid |-> conf.uid, gid |-> conf.uid, groups |-> "daemon",
     env |-> {<<"LD_PRELOAD", "d">>}, argv |-> <<>>, creds |-> Failed]

GiveUp == parent' = "failed"
Go(at) == parent' = at

\* service_binary_exists, service_rotate_log (a log over MAX_LOG_SIZE is
\* renamed, and stays where it is when that fails), mkdir_recursive of the
\* working and the runtime directory.
Prepare ==
    /\ parent = "prepare"
    /\ \/ GiveUp /\ UNCHANGED disk                      \* no executable
       \/ \E rotates \in {TRUE, FALSE}, dirs \in {TRUE, FALSE} :
             /\ disk' = IF disk.log = "big" /\ rotates
                        THEN [disk EXCEPT !.log = "missing", !.backup = TRUE] ELSE disk
             /\ IF dirs THEN Go("fork") ELSE GiveUp
    /\ UNCHANGED <<conf, ctx, child>>

Fork ==
    /\ parent = "fork"
    /\ \/ GiveUp /\ UNCHANGED <<child, ctx>>
       \/ Go("starttime") /\ child' = Forked /\ ctx' = [ctx EXCEPT !.pid = TRUE]
    /\ UNCHANGED <<conf, disk>>

\* kill(SIGKILL) and waitpid: whatever the child was doing, it is gone.
KillAndReap_forgets == ctx' = [pid |-> FALSE, start |-> FALSE] /\ UNCHANGED child
KillAndReap == ctx' = [pid |-> FALSE, start |-> FALSE] /\ child' = [child EXCEPT !.at = "reaped"]

Starttime ==
    /\ parent = "starttime"
    /\ \/ GiveUp /\ KillAndReap
       \/ Go("pidfile") /\ ctx' = [ctx EXCEPT !.start = TRUE] /\ UNCHANGED child
    /\ UNCHANGED <<conf, disk>>

\* open_regular_file of the PID file (refused when it is a symbolic link
\* or has a second name), ftruncate, dprintf, fsync, close: one of them may
\* fail, after the number was written or before; then the file is unlinked.
PidFile ==
    /\ parent = "pidfile"
    /\ \/ GiveUp /\ KillAndReap /\ disk' = [disk EXCEPT !.pid = "none"]
       \/ /\ disk.pid # "odd"
          /\ Go("done") /\ disk' = [disk EXCEPT !.pid = "child"] /\ UNCHANGED <<ctx, child>>
    /\ UNCHANGED conf

----------------------------------------------------------------------------
(* The child.                                                              *)

\* One step of the child that ends at the next place, or _exit(127).
Step(at, next, effect) ==
    /\ child.at = at
    /\ child' = [effect EXCEPT !.at = next]
    /\ UNCHANGED <<conf, disk, parent, ctx>>
Refuse(at) ==
    /\ child.at = at
    /\ child' = [child EXCEPT !.at = "exited"]
    /\ UNCHANGED <<conf, disk, parent, ctx>>

Detach ==
    \/ Step("sigpipe", "setsid", child) \/ Refuse("sigpipe")
    \/ Step("setsid", "stdio", [child EXCEPT !.own_session = TRUE]) \/ Refuse("setsid")

\* The standard descriptors are closed; output goes to the log when that is
\* a regular file with one name, else to /dev/null when that opens.
Stdio ==
    /\ child.at = "stdio"
    /\ \/ /\ disk.log # "odd"
          /\ \/ child' = [child EXCEPT !.at = "mask", !.out = "log"]
             \/ child' = [child EXCEPT !.at = "exited"]                  \* dup2 fails
          /\ disk' = [disk EXCEPT !.log = IF @ = "missing" THEN "small" ELSE @]
       \/ \E out \in {"null", "closed"} :
             child' = [child EXCEPT !.at = "mask", !.out = out] /\ UNCHANGED disk
    /\ UNCHANGED <<conf, parent, ctx>>

Unmask == Step("mask", "creds", [child EXCEPT !.masked = FALSE]) \/ Refuse("mask")

Creds ==
    /\ child.at = "creds"
    /\ LET c == service_credentials_resolve(conf.user, conf.group, conf.uid, conf.uid)
       IN child' = [child EXCEPT !.creds = c,
                                 !.at = IF ~c.ok THEN "exited"
                                        ELSE IF conf.uid = 0 THEN "groups" ELSE "environ"]
    /\ UNCHANGED <<conf, disk, parent, ctx>>

\* As root: initgroups or setgroups(0), then setgid, then setuid.
DropGroups ==
    \/ Step("groups", "setgid", IF child.creds.init_groups
                                THEN [child EXCEPT !.groups = "user"]
                                ELSE [child EXCEPT !.groups = "none"])
    \/ Refuse("groups")

Drop ==
    \/ DropGroups
    \/ Step("setgid", "setuid", [child EXCEPT !.gid = child.creds.gid]) \/ Refuse("setgid")
    \/ Step("setuid", "environ", [child EXCEPT !.uid = child.creds.uid]) \/ Refuse("setuid")

\* A chdir that fails is only logged.
Environ ==
    Step("environ", "exec", [child EXCEPT !.env = set_service_environment(@, conf.env)])

Exec ==
    \/ Step("exec", "sing-box", [child EXCEPT !.argv = build_service_args(conf.args)])
    \/ Refuse("exec")

Init ==
    /\ \E user \in Users, group \in Groups, uid \in {0, 5}, r \in Requests :
          conf = [user |-> user, group |-> group, uid |-> uid, args |-> r.args, env |-> r.env]
    /\ disk \in [log : {"missing", "big", "odd"}, backup : {FALSE}, pid : {"none", "old", "odd"}]
    /\ parent = "prepare"
    /\ ctx = [pid |-> FALSE, start |-> FALSE]
    /\ child = NoChild

Next ==
    \/ Prepare \/ Fork \/ Starttime \/ PidFile
    \/ Detach \/ Stdio \/ Unmask \/ Creds \/ Drop \/ Environ \/ Exec

----------------------------------------------------------------------------
Executing == child.at = "sing-box"
SetBy(tokens, name) == {i \in DOMAIN tokens : tokens[i].eq /\ tokens[i].name = name}
Configured(tokens) ==
    {<<tokens[i].name, tokens[i].value>> :
        i \in {n \in DOMAIN tokens : tokens[n].eq /\ n = Max(SetBy(tokens, tokens[n].name))}}

\* The user's own configuration file, and an argument that is taken for one.
OwnFile(args)  == \E i \in DOMAIN args : args[i] \in {"-c", "-C"}
LooksLike(args) == Contains(args, "--disable-color")

\* What the configuration asks for, of a daemon that runs as root.
Asked == service_credentials_resolve(conf.user, conf.group, conf.uid, conf.uid)

\* service_spawn is all or nothing.  A sing-box that runs is in a session of
\* its own, with no signal blocked, without the daemon's output and LD_PRELOAD,
\* and under a root daemon with the user, the group and only the
\* supplementary groups of the credentials asked for, whatever calls failed.
\* Its environment is exactly the variables of SERVICE_ENV, each with its last
\* value.  Its arguments are the daemon's own, among them the configuration file
\* unless the user names one, and then all those of SERVICE_ARGS in their order;
\* the exceptions are an argument in which "-c" merely occurs, for which the file
\* is not named either, and the arguments that come when the vector is full,
\* which are lost (set_service_environment, build_service_args).  A failed spawn
\* leaves no process, no child_pid and no PID file naming the child; a successful
\* one leaves all three.
LaunchWhole ==
    /\ Executing =>
          /\ child.own_session /\ ~child.masked /\ child.out # "daemon"
          /\ child.uid = (IF conf.uid = 0 THEN Asked.uid ELSE conf.uid)
          /\ child.gid = (IF conf.uid = 0 THEN Asked.gid ELSE conf.uid)
          /\ child.groups = (IF conf.uid # 0 THEN "daemon"
                             ELSE IF conf.user = "name" THEN "user" ELSE "none")
          /\ child.env = Configured(conf.env)
          /\ \E file \in {<<>>, <<"-c", "conf">>}, n \in 0 .. Len(conf.args) :
                /\ child.argv = <<"sing-box", "run", "-D", "work">> \o file
                                \o SubSeq(conf.args, 1, n)
                /\ OwnFile(conf.args) => file = <<>>
                /\ file = <<>> => OwnFile(conf.args) \/ LooksLike(conf.args)
                /\ n < Len(conf.args) => Len(child.argv) = MaxArgs
          /\ Len(child.argv) <= MaxArgs
    /\ parent = "failed" =>
          child.at \in {"none", "reaped"} /\ ~ctx.pid /\ ~ctx.start /\ disk.pid # "child"
    /\ parent = "done" =>
          child.at \notin {"none", "reaped"} /\ ctx.pid /\ ctx.start /\ disk.pid = "child"
============================================================================
