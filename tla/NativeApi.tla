----------------------------- MODULE NativeApi ------------------------------
(***************************************************************************)
(* The client of sing-box's native API (src/singbox_api.c): a call connects,*)
(* sends its request, and after every recv tries to decode the response so  *)
(* far: HTTP header, chunk, gRPC-Web frame, protobuf fields, varints.       *)
(*                                                                         *)
(* A response is a sequence of units, the largest pieces the parsers tell   *)
(* apart: the header up to its blank line, the size line of a chunk, the    *)
(* flag and the length of a frame, a field key, one group of a varint, one  *)
(* piece of a payload.  TCP delivers any number of units at a time.  A      *)
(* chunk of the response holds whole frames, as sing-box writes them.       *)
(***************************************************************************)
EXTENDS Integers, Sequences, SequencesExt

CONSTANTS
    Messages,    \* messages sing-box sends: sequences of Field records
    GroupBits,   \* 7 in the code: bits of a varint in one byte
    WordBits,    \* 64 in the code: bits of the decoded value
    Int32Max,    \* INT32_MAX
    BufSize,     \* units that fit in buf
    RespCap,     \* units of a frame that fit in the caller's response buffer
    StringCap    \* size of the caller's string, in payload pieces

VARIABLES
    rpc,        \* "status", "version", "mode" or "health"
    phase,      \* "connect", "send", "recv" or "done"
    response,   \* [kind, chunked, message, units]: see Response
    used,       \* units received
    verdict,    \* 1 decoded, -1 failed, 0 neither yet
    value,      \* what was decoded
    connected   \* ctx->connected

vars == <<rpc, phase, response, used, verdict, value, connected>>

Hdr       == [u |-> "hdr"]
Size(n)   == [u |-> "size", n |-> n]
Crlf      == [u |-> "crlf"]
Flag(v)   == [u |-> "flag", v |-> v]
Length(n) == [u |-> "len", n |-> n]
Key(f, w) == [u |-> "key", field |-> f, wire |-> w]
Group(v, more) == [u |-> "group", v |-> v, more |-> more]
Raw       == [u |-> "raw"]
FrameHead == 2     \* units of the five bytes that begin a frame

None == [ok |-> 0, at |-> 0, v |-> 0]

(* The encoder: sing-box's, and that of singbox_api_set_clash_mode. *)

EncodeVarint(n) ==
    LET RECURSIVE Varint(_)
        Varint(k) == IF k < 2 ^ GroupBits THEN <<Group(k, 0)>>
                     ELSE <<Group(k % (2 ^ GroupBits), 1)>> \o Varint(k \div (2 ^ GroupBits))
    IN  Varint(n)

\* A field: v is the value of a varint (Endless: one that does not end within
\* the word), the length of a payload, or of no meaning.
Endless == -1
Field(f, w, v) == [field |-> f, wire |-> w, v |-> v]
EncodeField(x) ==
    <<Key(x.field, x.wire)>> \o
    CASE x.wire = 0 /\ x.v = Endless -> [i \in 1 .. WordBits |-> Group(1, 1)]
      [] x.wire = 0 /\ x.v # Endless -> EncodeVarint(x.v)
      [] x.wire = 2 -> EncodeVarint(x.v) \o [i \in 1 .. x.v |-> Raw]
      [] OTHER -> <<Raw>>
EncodeMessage(message) == FlattenSeq([i \in DOMAIN message |-> EncodeField(message[i])])

\* The request: field 3, its length, the name.
singbox_api_set_clash_mode(n) == <<Key(3, 2)>> \o EncodeVarint(n) \o [i \in 1 .. n |-> Raw]

\* "data": the frame of the message, and another one after it; "short": a
\* frame that promises more than comes; "trailer": the frame of an RPC error.
Kinds == {"data", "short", "trailer"}
Frame(flag, extra, m) == <<Flag(flag), Length(Len(m) + extra)>> \o m
Chunked(b, f) == IF b = 0 THEN f ELSE <<Size(Len(f))>> \o f \o <<Crlf>>
Response(k, b, message) ==
    LET m == EncodeMessage(message) IN
    [kind |-> k, chunked |-> b, message |-> message,
     units |-> <<Hdr>>
        \o (IF k = "trailer" THEN Chunked(b, Frame(1, 0, <<>>))
            ELSE Chunked(b, Frame(0, IF k = "short" THEN 1 ELSE 0, m)))
        \o (IF k = "data" THEN Chunked(b, Frame(0, 0, <<Key(1, 0), Group(1, 0)>>)) ELSE <<>>)
        \o (IF b = 1 THEN <<Size(0)>> ELSE <<>>)]

-----------------------------------------------------------------------------
(* Decoding. *)

read_varint_short(m, end, pos) ==
    LET RECURSIVE From(_, _, _)
        From(p, shift, acc) ==
            IF shift + GroupBits > WordBits \/ p > end THEN None
            ELSE LET sum == acc + ((m[p].v * 2 ^ shift) % (2 ^ WordBits)) IN
                 IF m[p].more = 0 THEN [ok |-> 1, at |-> p + 1, v |-> sum]
                 ELSE From(p + 1, shift + GroupBits, sum)
    IN  From(pos, 0, 0)

\* Groups from the least significant one; bits beyond the word are lost, and a
\* varint that does not end within the word or before end is an error.
read_varint(m, end, pos) ==
    LET RECURSIVE From(_, _, _)
        From(p, shift, acc) ==
            IF shift >= WordBits \/ p > end THEN None
            ELSE LET sum == acc + ((m[p].v * 2 ^ shift) % (2 ^ WordBits)) IN
                 IF m[p].more = 0 THEN [ok |-> 1, at |-> p + 1, v |-> sum]
                 ELSE From(p + 1, shift + GroupBits, sum)
    IN  From(pos, 0, 0)

NoStatus == [f \in 1 .. 9 |-> 0]
\* Counters that are int32 in the daemon; field 5 is a truth value.
Narrow == {2, 3, 4}
Stored(f, v) == IF f = 5 THEN IF v # 0 THEN 1 ELSE 0 ELSE v

Answer(v, s) == [verdict |-> v, value |-> s]

\* The fields of one message, units pos .. end of m.  A payload that ends
\* early is taken for an incomplete frame.
StatusFields(m, start, end) ==
    LET RECURSIVE From(_, _)
        From(p, s) ==
            IF p > end THEN Answer(1, s)
            ELSE LET k == m[p]
                     n == read_varint(m, end, p + 1)
                 IN  IF k.wire = 0
                       THEN IF n.ok = 0 \/ (k.field \in Narrow /\ n.v > Int32Max)
                              THEN Answer(-1, s)
                            ELSE From(n.at, IF k.field \in 1 .. 9
                                              THEN [s EXCEPT ![k.field] = Stored(k.field, n.v)]
                                              ELSE s)
                     ELSE IF k.wire = 1 \/ k.wire = 5
                       THEN IF p + 1 > end THEN Answer(0, s) ELSE From(p + 2, s)
                     ELSE IF k.wire = 2
                       THEN IF n.ok = 0 \/ n.v > end + 1 - n.at THEN Answer(0, s)
                            ELSE From(n.at + n.v, s)
                     ELSE Answer(-1, s)
    IN  From(start, NoStatus)

\* A frame that begins at unit "from", of which units up to "to" are there.
parse_status_frame(m, from, to) ==
    IF to + 1 - from < FrameHead THEN Answer(0, NoStatus)
    ELSE IF m[from].v = 1 THEN Answer(-1, NoStatus)
    ELSE IF m[from + 1].n > to + 1 - from - FrameHead THEN Answer(0, NoStatus)
    ELSE StatusFields(m, from + FrameHead, from + FrameHead - 1 + m[from + 1].n)

\* Chunk after chunk until one decides; the terminating chunk is a failure, as
\* is a size that is no number.
parse_grpc_web_response(r, n) ==
    LET RECURSIVE Chunk(_)
        Chunk(body) ==
            IF body > n THEN Answer(0, NoStatus)
            ELSE IF r.units[body].n <= 0 THEN Answer(-1, NoStatus)
            ELSE IF r.units[body].n > n - body THEN Answer(0, NoStatus)
            ELSE LET a == parse_status_frame(r.units, body + 1, body + r.units[body].n) IN
                 IF a.verdict # 0 THEN a ELSE Chunk(body + r.units[body].n + 2)
    IN  IF n < 1 THEN Answer(0, NoStatus)
        ELSE IF r.chunked = 0 THEN parse_status_frame(r.units, 2, n)
        ELSE Chunk(2)

-----------------------------------------------------------------------------
(* grpc_web_unary_call returns one frame, the first. *)

\* Where the first frame begins and how many of its units can be read now;
\* "bad" when the size of the chunk is no number.
FirstFrame(r, n) ==
    IF r.chunked = 0 THEN [from |-> 2, room |-> n - 1, bad |-> 0]
    ELSE IF n < 2 THEN [from |-> 0, room |-> 0, bad |-> 0]
    ELSE IF r.units[2].n < 0 THEN [from |-> 0, room |-> 0, bad |-> 1]
    ELSE [from |-> 3, room |-> IF r.units[2].n > n - 2 THEN 0 ELSE r.units[2].n, bad |-> 0]

unary_response(r, n) ==
    LET f == FirstFrame(r, n) IN
    IF f.bad = 1 THEN Answer(-1, <<>>)
    ELSE IF f.room < FrameHead THEN Answer(0, <<>>)
    ELSE IF r.units[f.from].v = 1 \/ r.units[f.from + 1].n + FrameHead > RespCap
      THEN Answer(-1, <<>>)
    ELSE IF r.units[f.from + 1].n > f.room - FrameHead THEN Answer(0, <<>>)
    ELSE Answer(1, SubSeq(r.units, f.from + FrameHead, f.from + FrameHead - 1
                                                        + r.units[f.from + 1].n))

Copied(n, cap) == IF n < cap - 1 THEN n ELSE cap - 1

\* The length-delimited fields of a message in order, <<field, length>>, or
\* the failure of the whole.
Strings(m) ==
    LET RECURSIVE From(_, _)
        From(p, acc) ==
            IF p > Len(m) THEN Answer(1, acc)
            ELSE LET k == m[p]
                     n == read_varint(m, Len(m), p + 1)
                 IN  IF k.wire \in {0, 2} /\ n.ok = 0 THEN Answer(-1, acc)
                     ELSE IF k.wire = 0 THEN From(n.at, acc)
                     ELSE IF k.wire = 2
                       THEN IF n.v > Len(m) + 1 - n.at THEN Answer(-1, acc)
                            ELSE From(n.at + n.v, Append(acc, <<k.field, n.v>>))
                     ELSE IF k.wire \in {1, 5}
                       THEN IF p + 1 > Len(m) THEN Answer(-1, acc) ELSE From(p + 2, acc)
                     ELSE Answer(-1, acc)
    IN  From(1, <<>>)

\* The first field that is wanted, found before any error behind it.
parse_string_field(m, wanted) ==
    LET found == SelectSeq(Strings(m).value, LAMBDA s : s[1] = wanted)
    IN  IF found = <<>> THEN Answer(-1, 0) ELSE Answer(1, Copied(found[1][2], StringCap))

\* The last current mode; a message without one, or with an empty one, fails.
parse_clash_mode_status(m) ==
    LET all     == Strings(m)
        current == SelectSeq(all.value, LAMBDA s : s[1] = 2)
    IN  IF all.verdict = -1 \/ current = <<>> THEN Answer(-1, 0)
        ELSE IF current[Len(current)][2] = 0 THEN Answer(-1, 0)
        ELSE Answer(1, Copied(current[Len(current)][2], StringCap))

-----------------------------------------------------------------------------
(* The calls. *)

Fails ==
    /\ phase' = "done" /\ verdict' = -1

\* socket, address, connect within a second, and for the health check that is
\* all.
Connect(ok) ==
    /\ phase = "connect"
    /\ IF rpc = "health"
         THEN phase' = "done" /\ verdict' = (IF ok = 1 THEN 1 ELSE -1) /\ connected' = ok
         ELSE /\ IF ok = 1 THEN phase' = "send" /\ UNCHANGED verdict ELSE Fails
              /\ UNCHANGED connected
    /\ UNCHANGED <<rpc, response, used, value>>

\* The request is sent whole or the call fails.
Send(ok) ==
    /\ phase = "send"
    /\ IF ok = 1 THEN phase' = "recv" /\ UNCHANGED verdict ELSE Fails
    /\ UNCHANGED <<rpc, response, used, value, connected>>

Decode(n) ==
    IF rpc = "status" THEN parse_grpc_web_response(response, n)
    ELSE LET a == unary_response(response, n) IN
         IF a.verdict # 1 THEN a
         ELSE IF rpc = "version" THEN parse_string_field(a.value, 1)
         ELSE parse_clash_mode_status(a.value)

\* recv and what follows; the loop ends with a decision or with buf full.
Recv(n) ==
    /\ phase = "recv" /\ n \in used + 1 .. Len(response.units) /\ n <= BufSize
    /\ used' = n
    /\ LET a == Decode(n) IN
       /\ value' = IF a.verdict = 1 THEN a.value ELSE value
       /\ IF a.verdict # 0 THEN phase' = "done" /\ verdict' = a.verdict
          ELSE IF n = BufSize THEN Fails
          ELSE UNCHANGED <<phase, verdict>>
    /\ UNCHANGED <<rpc, response, connected>>

\* The peer closes, an error, or nothing for a second.
RecvEnds ==
    /\ phase = "recv" /\ Fails
    /\ UNCHANGED <<rpc, response, used, value, connected>>

Init ==
    /\ rpc \in {"status", "version", "mode", "health"}
    /\ \E k \in Kinds, b \in {0, 1}, m \in Messages : response = Response(k, b, m)
    /\ phase = "connect" /\ used = 0 /\ verdict = 0 /\ value = 0 /\ connected = 0

Next ==
    \/ \E ok \in {0, 1} : Connect(ok) \/ Send(ok)
    \/ \E n \in 1 .. BufSize : Recv(n)
    \/ RecvEnds

-----------------------------------------------------------------------------
\* What a message means: of each field the last value; nothing when a varint
\* does not end or a counter does not fit.
Valid(message) ==
    \A i \in DOMAIN message : LET x == message[i] IN
        x.wire = 0 => x.v # Endless /\ ~(x.field \in Narrow /\ x.v > Int32Max)
Known(message) == \A i \in DOMAIN message : message[i].wire \in {0, 1, 2, 5}
LastOf(message, f, w, default) ==
    LET those == SelectSeq(message, LAMBDA x : x.field = f /\ x.wire = w)
    IN  IF those = <<>> THEN default ELSE those[Len(those)].v
Meaning(message) == [f \in 1 .. 9 |-> Stored(f, LastOf(message, f, 0, 0))]

(* What is decoded does not depend on how the response was cut into segments:
   a prefix is either undecided or decided as every longer one is, and the
   first frame decides: a status is what sing-box encoded, the last value of
   every field, is never read from a frame of which a part is still to come, and
   is read from every frame that is whole and valid
   (parse_grpc_web_response, grpc_web_unary_call).  A mode request decodes to
   the mode's length for every length (singbox_api_set_clash_mode).         *)
FramesExact ==
    /\ phase = "recv" /\ used = 0 =>
         \A k, n \in 1 .. Len(response.units) :
            k < n /\ Decode(k).verdict # 0 => Decode(n) = Decode(k)
    /\ verdict = 1 /\ rpc = "status" =>
         /\ response.kind = "data" /\ Valid(response.message)
         /\ value = Meaning(response.message)
    /\ verdict = 1 /\ rpc = "mode" =>
         value = Copied(LastOf(response.message, 2, 2, 0), StringCap) /\ value > 0
    /\ phase = "recv" /\ rpc = "status" /\ response.kind = "data" /\ Known(response.message) =>
         Decode(Len(response.units)).verdict = IF Valid(response.message) THEN 1 ELSE -1
    /\ \A n \in 1 .. 2 * StringCap :
         parse_string_field(singbox_api_set_clash_mode(n), 3) = Answer(1, Copied(n, StringCap))

=============================================================================
