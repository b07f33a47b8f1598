------------------------------ MODULE Display ------------------------------
(***************************************************************************)
(* The status report: status_collect_snapshot of status.c, the rendering   *)
(* of status_render.c and the rows of ui.c.  The reactor collects the      *)
(* figures one after another, from /proc, the supervisor, the API          *)
(* worker's snapshot and the VPN state; sing-box may die and an interface  *)
(* go down between two of them.                                            *)
(***************************************************************************)
EXTENDS Integers, Sequences, FiniteSets

CONSTANTS
    Labels,        \* lengths of row labels
    Values,        \* lengths of row values
    Widths,        \* widths asked for, 0: detect (a terminal's, or 80)
    Seconds,       \* uptimes
    Sizes          \* sizes in kB

VARIABLES
    world,         \* what is the case: the child, its figures, the interface
    snap,          \* status_snapshot_t
    at,            \* place in status_collect_snapshot
    rows           \* the report

vars == <<world, snap, at, rows>>

NA == -1
None == <<>>

----------------------------------------------------------------------------
(* Formats.                                                                *)

\* format_uptime: the fields printed.
format_uptime(s) ==
    LET d == s \div 86400
        h == (s % 86400) \div 3600
        m == (s % 3600) \div 60
    IN CASE s < 0 -> <<"N/A">>
         [] d > 0 -> <<"d", d, h, m, s % 60>>
         [] d = 0 /\ h > 0 -> <<"h", h, m, s % 60>>
         [] d = 0 /\ h = 0 /\ m > 0 -> <<"m", m, s % 60>>
         [] OTHER -> <<"s", s % 60>>
SecondsOf(f) ==
    CASE f[1] = "d" -> f[2] * 86400 + f[3] * 3600 + f[4] * 60 + f[5]
      [] f[1] = "h" -> f[2] * 3600 + f[3] * 60 + f[4]
      [] f[1] = "m" -> f[2] * 60 + f[3]
      [] OTHER -> f[2]

\* format_kb (format_bytes alike): the unit and the whole part.
format_kb(kb) ==
    CASE kb < 0 -> <<"N/A">>
      [] kb >= 1048576 -> <<"GB", kb \div 1048576>>
      [] kb >= 1024 /\ kb < 1048576 -> <<"MB", kb \div 1024>>
      [] OTHER -> <<"KB", kb>>

format_int(v) == IF v < 0 THEN <<"N/A">> ELSE <<"int", v>>

----------------------------------------------------------------------------
(* Rows.  A row is as many columns wide as its parts.                      *)

Max2(a, b) == IF a > b THEN a ELSE b
clamp_width(w) == IF w < 30 THEN 30 ELSE IF w > 200 THEN 200 ELSE w
label_width(w) ==
    CASE w >= 110 -> 16
      [] w >= 80 /\ w < 110 -> 14
      [] w >= 60 /\ w < 80 -> 12
      [] w >= 40 /\ w < 60 -> 10
      [] OTHER -> 8
\* truncate_utf8 of an ASCII value: all of it, or dots at the limit.
Cut(value, max) == IF value <= max THEN value ELSE IF max <= 3 THEN 0 ELSE max

\* ui_table_row_color, ui_table_subrow: how much room is left for a value,
\* and the width printed.
row_room_no_gap(w, label, indent) ==
    IF w < 60 THEN Max2(w - label, 1) ELSE Max2(w - label_width(w), 10)
row_room(w, label, indent) ==
    IF w < 60 THEN Max2(w - 2 - indent - label, 1) ELSE Max2(w - label_width(w) - 4 - indent, 10)
row_width(w, label, value, indent) ==
    IF w < 60 THEN indent + label + 2 + Cut(value, row_room(w, label, indent))
    ELSE indent + Max2(label, label_width(w)) + 2 + Cut(value, row_room(w, label, indent))

\* ui_table_header of a title of so many columns.
header_width(w, title) ==
    IF w < 60 THEN title + 8 ELSE Max2(w - 4 - title, 0) + title + 2

----------------------------------------------------------------------------
(* status_collect_snapshot.                                                *)

\* read_process_memory, get_process_uptime_sec, get_process_fd_count: a
\* zombie has a start time, and neither descriptors nor memory.
Figures ==
    IF world.child = "alive" THEN [up |-> 5, fds |-> 3, rss |-> 7]
    ELSE [up |-> 5, fds |-> 0, rss |-> NA]

Empty == [pid |-> NA, state |-> "STOPPED", healthy |-> FALSE, valid |-> FALSE,
          up |-> NA, fds |-> NA, rss |-> NA, vpn |-> "IDLE", iface |-> FALSE, traffic |-> FALSE]

\* service_get_snapshot: the supervisor's fields, as they are.
CollectService ==
    /\ at = "service"
    /\ snap' = [snap EXCEPT !.pid = IF world.held THEN 1 ELSE NA, !.state = world.state,
                            !.healthy = world.healthy]
    /\ at' = "api"
    /\ UNCHANGED <<world, rows>>

CollectApi ==
    /\ at = "api"
    /\ snap' = [snap EXCEPT !.valid = world.sampled]
    /\ at' = IF snap.pid > 0 THEN "uptime" ELSE "vpn"
    /\ UNCHANGED <<world, rows>>

CollectProcess ==
    /\ \/ at = "uptime" /\ snap' = [snap EXCEPT !.up = Figures.up] /\ at' = "fds"
       \/ at = "fds" /\ snap' = [snap EXCEPT !.fds = Figures.fds] /\ at' = "memory"
       \/ at = "memory" /\ snap' = [snap EXCEPT !.rss = Figures.rss] /\ at' = "vpn"
    /\ UNCHANGED <<world, rows>>

\* atpd_vpn_get_snapshot, then the counters of the interface it names.
CollectVpn ==
    /\ at = "vpn"
    /\ snap' = [snap EXCEPT !.vpn = world.vpn, !.iface = world.vpn # "IDLE"]
    /\ at' = "traffic"
    /\ UNCHANGED <<world, rows>>

CollectTraffic ==
    /\ at = "traffic"
    /\ snap' = [snap EXCEPT !.traffic = snap.iface /\ world.link]
    /\ at' = "render"
    /\ UNCHANGED <<world, rows>>

\* status_render_snapshot: which rows there are and what they say.
service_display_state(s) ==
    IF s.state # "RUNNING" THEN s.state
    ELSE IF s.healthy THEN "RUNNING / healthy" ELSE "RUNNING / unhealthy"
service_display_color(s) ==
    CASE s.state = "RUNNING" /\ s.healthy -> "green"
      [] s.state \in {"STARTING", "STOPPING"} \/ (s.state = "RUNNING" /\ ~s.healthy) -> "yellow"
      [] OTHER -> "red"
render_proxy(s) ==
    [status |-> <<service_display_state(s), service_display_color(s)>>,
     detail |-> IF s.pid <= 0 THEN None
                ELSE <<format_int(s.pid), format_uptime(s.up), format_kb(s.rss), format_int(s.fds)>>,
     goroutines |-> IF s.pid > 0 /\ s.valid THEN <<"int">> ELSE <<"N/A">>]
render_vpn(s) ==
    IF s.vpn # "READY" \/ ~s.iface THEN <<"STANDALONE / DIRECT">>
    ELSE <<"CONNECTED", IF s.traffic THEN "counters" ELSE "N/A">>

Render ==
    /\ at = "render"
    /\ rows' = [proxy |-> render_proxy(snap), vpn |-> render_vpn(snap)]
    /\ at' = "done"
    /\ UNCHANGED <<world, snap>>

\* The child dies (its id stays taken until the reactor reaps it, after the
\* report); the link goes down; the API worker publishes or drops a sample.
WorldMoves ==
    /\ at # "done"
    /\ \/ world.child = "alive" /\ world' = [world EXCEPT !.child = "zombie"]
       \/ world.link /\ world' = [world EXCEPT !.link = FALSE]
       \/ world' = [world EXCEPT !.sampled = ~@]
    /\ UNCHANGED <<snap, at, rows>>

Init ==
    /\ world \in [held : BOOLEAN, child : {"alive", "zombie"}, sampled : BOOLEAN, healthy : BOOLEAN,
                  state : {"STOPPED", "STARTING", "RUNNING", "STOPPING", "FAILED"},
                  vpn : {"IDLE", "PREDICTING", "READY"}, link : BOOLEAN]
    /\ world.state = "RUNNING" => world.held
    /\ world.state = "STOPPED" => ~world.held
    /\ snap = Empty /\ at = "service" /\ rows = None

Next ==
    \/ CollectService \/ CollectApi \/ CollectProcess \/ CollectVpn \/ CollectTraffic
    \/ Render \/ WorldMoves

----------------------------------------------------------------------------
\* Formats lose nothing: an uptime can be read back from what is printed and
\* a size keeps its unit's range.  Rows fit the width of the report for
\* every label that fits its column.
FormatsExact ==
    /\ \A s \in Seconds : SecondsOf(format_uptime(s)) = s
    /\ \A kb \in Sizes :
          format_kb(kb)[1] # "N/A" /\ format_kb(kb)[2] <= (IF format_kb(kb)[1] = "GB" THEN kb ELSE 1023)
    /\ \A w \in Widths, label \in Labels, value \in Values, indent \in {2, 4} :
          label <= label_width(60) => row_width(clamp_width(w), label, value, indent) <= clamp_width(w)
    /\ \A w \in Widths, title \in Labels :
          title + 8 <= 30 => header_width(clamp_width(w), title) <= clamp_width(w)

\* Whatever happened while it was collected, the report agrees with itself:
\* figures of sing-box are shown exactly when there is a process id to show,
\* RUNNING always has one, a STOPPED service shows none, an interface is
\* CONNECTED only when the VPN is READY, and memory that could
\* not be read is N/A.  (status_collect_snapshot, status_render_snapshot)
DisplayTrue ==
    /\ (at = "service") => FormatsExact
    /\ at = "done" =>
          LET p == rows.proxy IN
          /\ p.detail # None <=> snap.pid > 0
          /\ p.status[2] = "green" => p.detail # None
          /\ p.status[1] = "STOPPED" => p.detail = None /\ p.goroutines = <<"N/A">>
          /\ (p.detail # None /\ p.detail[3] # <<"N/A">>) => p.detail[3] = format_kb(7)
          /\ rows.vpn[1] = "CONNECTED" <=> world.vpn = "READY"
          /\ (rows.vpn[1] = "CONNECTED" /\ world.link) => rows.vpn[2] = "counters"
============================================================================
