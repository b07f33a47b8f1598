----------------------------- MODULE ConfigLoad -----------------------------
(***************************************************************************)
(* Reading the configuration (src/config.c, src/config_validator.c): the    *)
(* lines of atp.conf over the defaults, then what sing-box's config.json    *)
(* says of its API where atp.conf says nothing, then the checks of the      *)
(* whole; only a configuration that passed everything reaches the caller,   *)
(* at startup (config_load) and on a reload (config_prepare_reload).        *)
(*                                                                         *)
(* A line is a tuple <<kind, key, value>>: "skip" is a comment or a blank   *)
(* line, "bad" is a line too long, without '=', without a key or with an    *)
(* unterminated quote, both with "" for a key.  A value is a number for the *)
(* keys that need one and Garbage for what config_parse_int refuses, and    *)
(* otherwise a string.                                                      *)
(***************************************************************************)
EXTENDS Integers, Sequences, FiniteSets

CONSTANTS
    Files,     \* contents of atp.conf: sequences of lines
    Jsons,     \* contents of config.json: see Api
    TooLong,   \* a string that no field has room for
    IntBits    \* bits of a C int, more than a port needs

VARIABLES
    call,      \* "config_load" or "config_prepare_reload"
    file, json,
    pc,        \* "read", "sync", "check" or "done"
    line,      \* lines read
    tmp,       \* the configuration being built
    seen,      \* canonical names of the keys read
    cfg,       \* the caller's configuration, <<>> before the first
    result     \* atp_result_t of the call

vars == <<call, file, json, pc, line, tmp, seen, cfg, result>>

Garbage == -99
Deep == "deep"  \* a directory whose path leaves no room for a file's name

-----------------------------------------------------------------------------
(* The schema. *)

Between(lo, hi) == [type |-> "int", lo |-> lo, hi |-> hi]
IntKeys == [RESTART_DELAY |-> Between(0, 3600), API_PORT |-> Between(1, 65535),
            SERVICE_START_TIMEOUT |-> Between(1, 3600), SERVICE_STOP_TIMEOUT |-> Between(1, 3600),
            SERVICE_GRACE_PERIOD |-> Between(0, 3600), SERVICE_MAX_FAILURES |-> Between(1, 1000),
            SERVICE_CIRCUIT_THRESHOLD |-> Between(1, 1000),
            SERVICE_CIRCUIT_COOLDOWN |-> Between(1, 86400),
            SERVICE_HEALTH_CHECK_INTERVAL |-> Between(100, 3600000)]
BoolKeys   == {"LOG_TIMESTAMP", "UI_EMOJI_ENABLED", "VPN_AUTO_MODE"}
StringKeys == {"API_SECRET", "API_HOST", "VPN_TARGET_MODE", "VPN_FALLBACK_MODE", "DATA_DIR",
               "RUN_DIR", "PID_FILE", "LOG_FILE", "CORE_USER_GROUP", "SERVICE_ARGS",
               "SERVICE_ENV"}
Canonical  == DOMAIN IntKeys \cup BoolKeys \cup StringKeys
Aliases    == [WORK_DIR |-> "DATA_DIR", CLASH_SECRET |-> "API_SECRET",
               VPN_AUTO_CLASH_MODE |-> "VPN_AUTO_MODE", VPN_CLASH_MODE |-> "VPN_TARGET_MODE",
               VPN_DEFAULT_MODE |-> "VPN_FALLBACK_MODE"]
AllowEmpty == {"API_SECRET", "SERVICE_ARGS", "SERVICE_ENV"}

NotFound == "?"
config_schema_find(k) ==
    IF k \in Canonical THEN k ELSE IF k \in DOMAIN Aliases THEN Aliases[k] ELSE NotFound

Defaults == [RESTART_DELAY |-> 2, API_PORT |-> 9080, SERVICE_START_TIMEOUT |-> 30,
             SERVICE_STOP_TIMEOUT |-> 10, SERVICE_GRACE_PERIOD |-> 3,
             SERVICE_MAX_FAILURES |-> 5, SERVICE_CIRCUIT_THRESHOLD |-> 5,
             SERVICE_CIRCUIT_COOLDOWN |-> 60, SERVICE_HEALTH_CHECK_INTERVAL |-> 5000,
             LOG_TIMESTAMP |-> 1, UI_EMOJI_ENABLED |-> 1, VPN_AUTO_MODE |-> 1,
             API_SECRET |-> "", API_HOST |-> "127.0.0.1", VPN_TARGET_MODE |-> "Google VPN",
             VPN_FALLBACK_MODE |-> "Rule", DATA_DIR |-> "app", RUN_DIR |-> "run",
             PID_FILE |-> "run/atpd.pid", LOG_FILE |-> "run/atp.log",
             CORE_USER_GROUP |-> "root:net_admin", SERVICE_ARGS |-> "", SERVICE_ENV |-> ""]

-----------------------------------------------------------------------------
(* atp.conf. *)

\* parse_key_value: whether a value fits its key.  Ranges are not checked here.
parse_key_value(c, v) ==
    IF c \in DOMAIN IntKeys THEN v # Garbage
    ELSE IF c \in BoolKeys THEN v \in {0, 1}
    ELSE v # TooLong /\ (v # "" \/ c \in AllowEmpty)

Refuse(why) == pc' = "done" /\ result' = why /\ UNCHANGED <<tmp, seen, cfg>>

ReadLine_last_wins ==
    /\ pc = "read" /\ line < Len(file)
    /\ line' = line + 1
    /\ LET l == file[line + 1]
           c == config_schema_find(l[2])
       IN  IF l[1] = "skip" THEN UNCHANGED <<pc, tmp, seen, cfg, result>>
           ELSE IF l[1] = "bad" \/ c = NotFound THEN Refuse("CONFIG")
           ELSE IF ~parse_key_value(c, l[3]) THEN Refuse("CONFIG")
           ELSE /\ tmp' = [tmp EXCEPT ![c] = l[3]] /\ seen' = seen \cup {c}
                /\ UNCHANGED <<pc, cfg, result>>
    /\ UNCHANGED <<call, file, json>>

\* One line of config_load_file_internal.  A key and its alias count as one.
ReadLine ==
    /\ pc = "read" /\ line < Len(file)
    /\ line' = line + 1
    /\ LET l == file[line + 1]
           c == config_schema_find(l[2])
       IN  IF l[1] = "skip" THEN UNCHANGED <<pc, tmp, seen, cfg, result>>
           ELSE IF l[1] = "bad" \/ c = NotFound THEN Refuse("CONFIG")
           ELSE IF c \in seen \/ ~parse_key_value(c, l[3]) THEN Refuse("CONFIG")
           ELSE /\ tmp' = [tmp EXCEPT ![c] = l[3]] /\ seen' = seen \cup {c}
                /\ UNCHANGED <<pc, cfg, result>>
    /\ UNCHANGED <<call, file, json>>

\* config_apply_run_dir_defaults: the files move with the directory, unless
\* they differ from their defaults.
Moved(dir, c, name) ==
    IF dir = Defaults.RUN_DIR \/ tmp[c] # Defaults[c] THEN tmp[c] ELSE dir \o "/" \o name
InRunDir(dir) == [tmp EXCEPT !.PID_FILE = Moved(dir, "PID_FILE", "atpd.pid"),
                             !.LOG_FILE = Moved(dir, "LOG_FILE", "atp.log")]

EndOfFile ==
    /\ pc = "read" /\ line = Len(file)
    /\ IF tmp.RUN_DIR = Deep /\ \E c \in {"PID_FILE", "LOG_FILE"} : tmp[c] = Defaults[c]
         THEN Refuse("CONFIG")
         ELSE tmp' = InRunDir(tmp.RUN_DIR) /\ pc' = "sync" /\ UNCHANGED <<seen, cfg, result>>
    /\ UNCHANGED <<call, file, json, line>>

\* fopen, a read or fclose fails; for a reload also a file that is missing.
ReadFails ==
    /\ pc = "read"
    /\ Refuse(IF line = 0 THEN "NOENT" ELSE "IO")
    /\ UNCHANGED <<call, file, json, line>>

-----------------------------------------------------------------------------
(* config.json: [there, services, top, experimental], the last three NoApi or
   the API's object: listen is <<host, port>> with "" and 0 for a part that is
   not there and Garbage for a port that is no number in range; port is <<n>>
   for the number n at listen_port, or at port without it, <<Garbage>> for what
   is no integer, and <<>> when neither is there; secret may be NotString.   *)
NoApi == [listen |-> <<"", 0>>, port |-> <<>>, secret |-> "", none |-> 1]
Api(listen, port, secret) == [listen |-> listen, port |-> port, secret |-> secret, none |-> 0]
NotString == "!"

\* An entry of "services" with type "api", else "api", else
\* "experimental"."api".
ApiObject(j) ==
    IF j.services.none = 0 THEN j.services ELSE IF j.top.none = 0 THEN j.top
    ELSE j.experimental

validate_port(p) == p \in 1 .. 65535


\* The 64 bits of a JSON integer cut to an int.
yyjson_get_int(n) ==
    LET low == n % 2^IntBits IN IF low < 2^(IntBits - 1) THEN low ELSE low - 2^IntBits

\* "listen", checked even where atp.conf decides.
SyncListen(t, a) ==
    LET port == IF a.listen[2] # 0 /\ "API_PORT" \notin seen
                  THEN [t EXCEPT !.API_PORT = a.listen[2]] ELSE t
    IN  IF a.listen[1] # "" /\ "API_HOST" \notin seen
          THEN [port EXCEPT !.API_HOST = a.listen[1]] ELSE port
SyncPort(t, a) ==
    IF a.port # <<>> /\ "API_PORT" \notin seen
      THEN [t EXCEPT !.API_PORT = yyjson_get_int(a.port[1])] ELSE t
SyncSecret(t, a) ==
    IF a.secret # "" /\ "API_SECRET" \notin seen THEN [t EXCEPT !.API_SECRET = a.secret] ELSE t
JsonRefused(a) ==
    \/ a.listen[2] # 0 /\ ~validate_port(a.listen[2])
    \/ a.listen[1] = TooLong /\ "API_HOST" \notin seen
    \/ a.port # <<>> /\ ~validate_port(yyjson_get_int(a.port[1]))
    \/ a.secret = NotString
    \/ a.secret = TooLong /\ "API_SECRET" \notin seen

\* A file that cannot be read is no error; one that is no JSON is, and a
\* DATA_DIR that leaves no room for its name.
config_sync_from_singbox_json ==
    /\ pc = "sync"
    /\ LET a == ApiObject(json) IN
       IF \/ tmp.DATA_DIR = Deep
          \/ json.there = "malformed"
          \/ json.there = "yes" /\ a.none = 0 /\ JsonRefused(a)
         THEN Refuse("CONFIG")
         ELSE /\ tmp' = IF json.there = "yes" /\ a.none = 0
                          THEN SyncSecret(SyncPort(SyncListen(tmp, a), a), a) ELSE tmp
              /\ pc' = "check" /\ UNCHANGED <<seen, cfg, result>>
    /\ UNCHANGED <<call, file, json, line>>

-----------------------------------------------------------------------------
\* The address must be numeric.
Addresses == {"127.0.0.1", "10.0.0.1", "10.0.0.2"}
config_validate_values(t) ==
    /\ \A k \in DOMAIN IntKeys : t[k] \in IntKeys[k].lo .. IntKeys[k].hi
    /\ t.API_HOST \in Addresses

\* The end of config_load and config_prepare_reload.
Commit ==
    /\ pc = "check"
    /\ IF config_validate_values(tmp)
         THEN cfg' = tmp /\ result' = "OK" /\ pc' = "done" /\ UNCHANGED <<tmp, seen>>
         ELSE Refuse("CONFIG")
    /\ UNCHANGED <<call, file, json, line>>

\* What an earlier load of a file with one line left.
Running == [Defaults EXCEPT !.API_PORT = 99]

Init ==
    /\ \/ call = "config_load" /\ cfg = <<>>
       \/ call = "config_prepare_reload" /\ cfg = Running
    /\ file \in Files /\ json \in Jsons
    /\ pc = "read" /\ line = 0 /\ tmp = Defaults /\ seen = {} /\ result = "none"

Next == \/ ReadLine \/ EndOfFile \/ ReadFails \/ config_sync_from_singbox_json \/ Commit

-----------------------------------------------------------------------------
\* What the files say of a setting, without an order: the set of values given.
Given(c) == {file[i][3] : i \in {n \in DOMAIN file : file[n][1] = "set"
                                        /\ config_schema_find(file[n][2]) = c}}
Times(c) == Cardinality({n \in DOMAIN file : file[n][1] = "set"
                                        /\ config_schema_find(file[n][2]) = c})
FromJson(c) ==
    LET a == ApiObject(json) IN
    IF json.there # "yes" \/ a.none = 1 THEN {}
    ELSE CASE c = "API_PORT" -> IF a.port # <<>> THEN {a.port[1] % 2^IntBits}
                                ELSE {a.listen[2]} \ {0}
           [] c = "API_HOST" -> {a.listen[1]} \ {""}
           [] c = "API_SECRET" -> {a.secret} \ {""}
           [] OTHER -> {}
RunDirFile(c) == IF c = "PID_FILE" THEN "/atpd.pid" ELSE "/atp.log"

(* A configuration is accepted whole or not at all, and means what its files
   say in whatever order they say it: a setting has the value atp.conf gives it
   under either of its names, else config.json's, else its default, which for
   the PID file and the log moves with RUN_DIR, even where atp.conf repeats the
   default; a setting given twice, alias included, is refused, and an accepted
   configuration is within every range (config_load, config_prepare_reload; the
   rules the comments of config.c state).  The one number that is not taken as it
   stands is the port in config.json, of which only the bits of an int count: a
   number outside the range of an int is accepted when they make a port.  A
   refused reload leaves the running configuration alone.                    *)
ConfigMeans ==
    /\ result = "OK" =>
       /\ \A c \in Canonical :
          /\ Times(c) <= 1
          /\ IF Given(c) # {} /\ Given(c) # {Defaults[c]} THEN cfg[c] \in Given(c)
             ELSE IF Given(c) = {} /\ FromJson(c) # {} THEN cfg[c] \in FromJson(c)
             ELSE IF c \in {"PID_FILE", "LOG_FILE"} /\ Given("RUN_DIR") # {}
               THEN cfg[c] = cfg.RUN_DIR \o RunDirFile(c)
             ELSE cfg[c] = Defaults[c]
       /\ cfg.DATA_DIR # Deep /\ (cfg.RUN_DIR = Deep => Times("PID_FILE") = 1)
       /\ cfg.API_HOST \in Addresses /\ validate_port(cfg.API_PORT)
       /\ \A k \in DOMAIN IntKeys : cfg[k] \in IntKeys[k].lo .. IntKeys[k].hi
    /\ result # "OK" => cfg = IF call = "config_load" THEN <<>> ELSE Running
=============================================================================
