------------------------------ MODULE Timezone ------------------------------
(***************************************************************************)
(* The time zone of log timestamps: atp_timezone_init of utils.c and what  *)
(* it calls.  The daemon runs it at start, when the log opens and at every *)
(* reload; every other atpd command runs it too, beside the daemon and on  *)
(* the same localtime file.  The zone of the device may change meanwhile.  *)
(***************************************************************************)
EXTENDS Integers, Sequences, SequencesExt

CONSTANTS
    Procs,         \* atpd processes
    Devices,       \* what a device offers: see Device below
    TableZones,    \* zones of k_tz_fallbacks
    MaxInits,      \* bound: calls of a process
    MaxMoves       \* bound: changes of the device's zone

VARIABLES
    device,        \* [localtime, prop, locale, date, containers, writable]
    tz,            \* process |-> its TZ environment variable
    name,          \* process |-> g_tz_name
    file,          \* the localtime file: a zone, Partial, or Missing
    local,         \* process |-> the call in progress
    inits,         \* history: process |-> calls made
    moves,         \* history: changes of the zone
    past,          \* history: zones the device has had
    first          \* history: process |-> the first TZ it respected or chose

vars == <<device, tz, name, file, local, inits, moves, past, first>>

Missing == "missing"
Partial == "partial"
Unset == [is |-> "unset"]
Idle == [at |-> "idle"]
ZoneFile == [is |-> "file"]                       \* the localtime file
\* A POSIX string of that zone, with a '-', '+' or '0' in it.  (One without,
\* such as EST5, is to atp_timezone_init like a name.)
Posix(z) == [is |-> "posix", zone |-> z]
Plain(z) == [is |-> "name", zone |-> z]           \* a name without '-', '+' or '0'

\* get_android_prop of the two properties, then the locale.
detect_device_timezone == IF device.prop # "" THEN device.prop ELSE device.locale

\* derive_posix_tz_from_date.
DateKnown == device.date # ""

\* lookup_posix_fallback.
lookup_posix_fallback(z) == IF z \in TableZones THEN {Posix(z)} ELSE {}

\* extract_tzif_from_tzdata_file: the containers that can be read and hold
\* the zone, in the order of k_android_tzdata_paths.
holding(z) == {i \in DOMAIN device.containers : z \in device.containers[i].zones}
\* extract_posix_tz_from_tzif: a version 2 file ends in the POSIX string.
footer(z) == IF \E i \in holding(z) : device.containers[i].footer THEN {Posix(z)} ELSE {}

----------------------------------------------------------------------------
\* A TZ that is a path or may be a POSIX string is respected; then
\* /etc/localtime; then the device's zone is looked for.
respects_env(v) == v.is \in {"file", "posix"}

Keep(p, n) ==
    /\ name' = [name EXCEPT ![p] = n]
    /\ UNCHANGED <<tz, local, first>>
Set(p, v) ==
    /\ tz' = [tz EXCEPT ![p] = v]
    /\ local' = [local EXCEPT ![p] = Idle]
    /\ first' = [first EXCEPT ![p] = IF @ = Unset THEN v ELSE @]

Begin(p) ==
    /\ local[p] = Idle /\ inits[p] < MaxInits
    /\ inits' = [inits EXCEPT ![p] = @ + 1]
    /\ IF respects_env(tz[p]) THEN Keep(p, tz[p])
       ELSE IF device.localtime
       THEN Keep(p, IF name[p] = Unset THEN [is |-> "Localtime"] ELSE name[p])
       ELSE IF detect_device_timezone = "" /\ DateKnown
       THEN Set(p, Posix(device.date)) /\ name' = [name EXCEPT ![p] = Posix(device.date)]
       ELSE LET z == IF detect_device_timezone = "" THEN "Shanghai" ELSE detect_device_timezone
            IN /\ local' = [local EXCEPT ![p] = [at |-> "extract", zone |-> z]]
               /\ name' = [name EXCEPT ![p] = Plain(z)]
               /\ UNCHANGED <<tz, first>>
    /\ UNCHANGED <<device, file, moves, past>>

\* The zone is written to a file of its own and renamed; a failed write
\* leaves the old file.
WriteTzif_in_place(p) ==
    /\ file' = Partial
    /\ local' = [local EXCEPT ![p].at = "rename"]
WriteTzif(p) ==
    /\ UNCHANGED file
    /\ local' = [local EXCEPT ![p].at = "rename"]

\* Step 5 and 6 of atp_timezone_init: the footer read before the write
\* failed, the table, the date, and CST-8.
Fallback(p) ==
    LET z == local[p].zone
        known == IF footer(z) # {} THEN footer(z) ELSE lookup_posix_fallback(z)
    IN Set(p, IF known # {} THEN CHOOSE v \in known : TRUE
              ELSE IF DateKnown THEN Posix(device.date)
              ELSE Posix("Shanghai"))

Extract(p) ==
    /\ local[p].at = "extract"
    /\ IF holding(local[p].zone) = {} THEN Fallback(p) /\ UNCHANGED file
       ELSE \/ device.writable /\ WriteTzif(p) /\ UNCHANGED <<tz, first>>
            \/ Fallback(p) /\ UNCHANGED file
    /\ UNCHANGED <<device, name, inits, moves, past>>

Rename(p) ==
    /\ local[p].at = "rename"
    /\ \/ file' = local[p].zone /\ Set(p, ZoneFile)
       \/ UNCHANGED file /\ Fallback(p)
    /\ UNCHANGED <<device, name, inits, moves, past>>

\* The user of the device travels.
Travel ==
    /\ moves < MaxMoves
    /\ \E d \in Devices :
          /\ device' = [device EXCEPT !.prop = d.prop]
          /\ past' = past \cup {d.prop}
    /\ moves' = moves + 1
    /\ UNCHANGED <<tz, name, file, local, inits, first>>

Init ==
    /\ device \in Devices
    /\ tz \in [Procs -> {Unset, Plain("Tokyo"), Posix("Tokyo")}]
    /\ \A p, q \in Procs : tz[p] = tz[q]              \* the same environment
    /\ name = [p \in Procs |-> Unset]
    /\ file \in {Missing, "Tokyo"}                    \* left by an earlier daemon
    /\ local = [p \in Procs |-> Idle]
    /\ inits = [p \in Procs |-> 0]
    /\ moves = 0
    /\ past = {device.prop}
    /\ first = [p \in Procs |-> IF respects_env(tz[p]) THEN tz[p] ELSE Unset]

Next == Travel \/ \E p \in Procs : Begin(p) \/ Extract(p) \/ Rename(p)

----------------------------------------------------------------------------
Shown(p) == IF tz[p] = ZoneFile THEN file ELSE tz[p].zone

\* Once a process has its zone it keeps it: timestamps do not move between
\* the start, the opening of the log and a reload.  And whatever processes
\* choose at the same time, one that chose by the device shows a zone the
\* device had (never the one a localtime file was left with), from a file
\* that is always whole.  (g_tz_name is TZ itself when TZ was respected.
\* atp_timezone_init, extract_tzif_from_tzdata_file)
TimezoneTrue ==
    /\ file # Partial
    /\ \A p \in Procs : first[p] # Unset => tz[p] = first[p]
    /\ (~device.localtime /\ "" \notin past /\ past \subseteq TableZones) =>
          \A p \in Procs : (first[p] # Unset /\ inits[p] > 0 /\ name[p] # first[p]) => Shown(p) \in past
============================================================================
