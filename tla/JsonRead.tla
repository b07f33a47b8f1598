------------------------------ MODULE JsonRead ------------------------------
(***************************************************************************)
(* The JSON readers of src/src/yyjson.c.  Three readers share one grammar   *)
(* machine, written out three times with goto: for compact text, for        *)
(* indented text, and the incremental one, which saves a label and resumes  *)
(* there when more bytes are given.  They fill an array of values in which  *)
(* a container holds its length and the distance to its next sibling (to    *)
(* its parent while it is open).                                            *)
(*                                                                         *)
(* A text is a sequence of characters: the punctuation, "q" a quote, "b" a  *)
(* backslash, "1" a digit, "te" the two letters of a literal, " " and "nl". *)
(* The value of a number is its number of digits, that of a string its      *)
(* characters after unescaping.                                             *)
(***************************************************************************)
EXTENDS Naturals, Sequences, SequencesExt, FiniteSets, FiniteSetsExt

CONSTANTS
    Chars,     \* the characters texts are made of
    Heads,     \* what the first call is given
    MaxMore,   \* bound: bytes given by later calls
    BufLen,    \* the length of the whole buffer
    MaxChunk,  \* bound: bytes by which a call extends the part to parse
    ReadFlags  \* the flag sets given to the readers

VARIABLES
    text,      \* the bytes given so far
    flg,       \* read flags: "stop" for YYJSON_READ_STOP_WHEN_DONE
    incr,      \* the incremental reader: its yyjson_incr_state after a call
    more       \* bytes given by later calls

vars == <<text, flg, incr, more>>

Hdr == 4                                \* values that the document header takes
At(x, i) == IF i \in 1 .. Len(x) THEN x[i] ELSE "nul"
Space(c) == c \in {" ", "nl"}
Opens(c) == c \in {"{", "["}

-----------------------------------------------------------------------------
(* The state of a reader. *)

Start(cap) ==
    [lab |-> "doc_begin", fresh |-> 1, cur |-> 1, val |-> 1, ctn |-> 1, n |-> 0,
     tape |-> <<>>, cap |-> cap, over |-> 0, code |-> "none", pos |-> 0,
     saved |-> [lab |-> "doc_begin", cur |-> 1, val |-> 1, n |-> 0],
     con |-> [src |-> 0, out |-> <<>>]]

Goto(s, l) == [s EXCEPT !.lab = l, !.fresh = 1]
Atom(t, n, str) == [t |-> t, len |-> n, ofs |-> 0, str |-> str]

\* A value is written at val; over records a write outside the allocation.
Put(s, e) ==
    [s EXCEPT !.tape = IF s.val <= Len(@) THEN [@ EXCEPT ![s.val] = e] ELSE Append(@, e),
              !.over = IF Hdr + s.val - 1 < s.cap THEN @ ELSE 1]

\* Room for two more values is kept: a key is followed by its value unchecked.
val_incr(s) ==
    [s EXCEPT !.val = @ + 1,
              !.cap = IF Hdr + s.val >= @ - 2 THEN @ + (@ \div 2) ELSE @]

is_truncated_end(x, pos, code) ==
    \/ pos > Len(x)
    \/ code = "LITERAL" /\ pos = Len(x)
    \/ code = "STRING" /\ x[pos] = "b" /\ pos = Len(x)

return_err(x, s, pos, code) ==
    IF is_truncated_end(x, pos, code)
      THEN [s EXCEPT !.lab = "end", !.code = "END", !.pos = Len(x)]
      ELSE [s EXCEPT !.lab = "fail", !.code = code, !.pos = pos]

\* Only the incremental reader remembers where it was.
save_incr_state(x, s) ==
    LET r == [s EXCEPT !.fresh = 0,
                       !.saved = [lab |-> s.lab, cur |-> s.cur, val |-> s.val, n |-> s.n]]
    IN  IF s.cur > Len(x) THEN return_err(x, r, s.cur, "END") ELSE r

-----------------------------------------------------------------------------
(* Strings.  con is where an interrupted string continues and what was      *)
(* unescaped of it.                                                         *)

NoCon == [src |-> 0, out |-> <<>>]

str_resume_forgets(con, hdr) == [src |-> IF con.src # 0 THEN con.src ELSE hdr, out |-> <<>>]

str_resume(con, hdr) == IF con.src # 0 THEN con ELSE [src |-> hdr, out |-> <<>>]

\* What may follow a backslash.
Escapes == {"q", "b", "t"}

read_str_opt(x, hdr, con) ==
    LET RECURSIVE From(_, _)
        From(src, out) ==
            CASE At(x, src) = "q" -> [ok |-> 1, src |-> src, out |-> out]
              [] At(x, src) = "nul" -> [ok |-> 0, src |-> src, out |-> out]
              [] At(x, src) = "b" ->
                   IF At(x, src + 1) \in Escapes
                     THEN From(src + 2, Append(out, <<"b", x[src + 1]>>))
                     ELSE [ok |-> 0, src |-> src, out |-> out]
              [] OTHER -> From(src + 1, Append(out, <<x[src]>>))
        r == str_resume(con, hdr)
    IN  From(r.src, r.out)

read_str_con(x, s, next) ==
    LET r == read_str_opt(x, s.cur + 1, s.con) IN
    IF r.ok = 1
      THEN Goto([Put(s, Atom("str", Len(r.out), r.out)) EXCEPT !.cur = r.src + 1, !.con = NoCon], next)
      ELSE return_err(x, [s EXCEPT !.con = [src |-> r.src, out |-> r.out], !.cur = r.src],
                      r.src, "STRING")

\* The end of a number is known only when something follows it.
read_num(x, mode, s, next) ==
    LET stop == Min({i \in s.cur .. Len(x) + 1 : At(x, i) # "1"})
        r    == [Put(s, Atom("num", stop - s.cur, <<>>)) EXCEPT !.cur = stop]
    IN  IF mode = "incr" /\ next # "doc_end" /\ stop > Len(x)
          THEN return_err(x, r, stop, "END") ELSE Goto(r, next)

read_literal(x, s, next) ==
    IF At(x, s.cur + 1) = "e"
      THEN Goto([Put(s, Atom("lit", 0, <<>>)) EXCEPT !.cur = @ + 2], next)
      ELSE return_err(x, s, s.cur, "LITERAL")

-----------------------------------------------------------------------------
(* Containers.  The reader for indented text swallows a line break after a  *)
(* bracket, and spaces in pairs.                                            *)

Break(x, mode, i) == IF mode = "pretty" /\ At(x, i) = "nl" THEN i + 1 ELSE i

ctn_begin(x, mode, s, t) ==
    LET p == val_incr([s EXCEPT !.tape[s.ctn].len = s.n + 1])
        r == Put(p, [Atom(t, 0, <<>>) EXCEPT !.ofs = p.val - p.ctn])
    IN  Goto([r EXCEPT !.ctn = p.val, !.n = 0, !.cur = Break(x, mode, @ + 1)],
             IF t = "arr" THEN "arr_val_begin" ELSE "obj_key_begin")

\* The distance to the value behind the container that closes at val.
next_ofs_short(s) == s.val - s.ctn

next_ofs(s) == s.val - s.ctn + 1

ctn_end(x, mode, s) ==
    LET t      == s.tape[s.ctn].t
        parent == s.ctn - s.tape[s.ctn].ofs
        r      == [s EXCEPT !.tape[s.ctn].ofs = next_ofs(s),
                            !.tape[s.ctn].len = IF t = "arr" THEN s.n ELSE s.n \div 2,
                            !.cur = @ + 1]
    IN  IF s.ctn = parent THEN Goto(r, "doc_end")
        ELSE Goto([r EXCEPT !.ctn = parent, !.n = r.tape[parent].len, !.cur = Break(x, mode, @)],
                  IF r.tape[parent].t = "obj" THEN "obj_val_end" ELSE "arr_val_end")

\* A closing bracket where a value or key was expected.  The build leaves out
\* trailing commas (YYJSON_DISABLE_NON_STANDARD).
ctn_close(x, mode, s) ==
    IF s.n = 0 THEN ctn_end(x, mode, s)
    ELSE return_err(x, s, Max({i \in 1 .. s.cur : x[i] = ","}), "STRUCTURE")

\* White space: the incremental reader saves its place again only behind a value.
Skip(s, again) == [s EXCEPT !.cur = @ + 1, !.fresh = IF again THEN 1 ELSE 0]
Pair(x, mode, s) == mode = "pretty" /\ At(x, s.cur) = " " /\ At(x, s.cur + 1) = " "

Value(x, mode, s, v, next) ==      \* v: s with room for a scalar
    LET c == At(x, s.cur) IN
    CASE c = "{" -> ctn_begin(x, mode, s, "obj")
      [] c = "[" -> ctn_begin(x, mode, s, "arr")
      [] c = "1" -> read_num(x, mode, v, next)
      [] c = "q" -> read_str_con(x, v, next)
      [] c = "t" -> read_literal(x, v, next)
      [] Space(c) -> Skip(s, FALSE)
      [] OTHER -> return_err(x, s, s.cur, "CHARACTER")

arr_val_begin(x, mode, s) ==
    IF Pair(x, mode, s) THEN [s EXCEPT !.cur = @ + 2]
    ELSE IF At(x, s.cur) = "]" THEN ctn_close(x, mode, s)
    ELSE Value(x, mode, s, [val_incr(s) EXCEPT !.n = @ + 1], "arr_val_end")

obj_key_begin(x, mode, s) ==
    LET c == At(x, s.cur) IN
    IF Pair(x, mode, s) THEN [s EXCEPT !.cur = @ + 2]
    ELSE
    CASE c = "q" -> read_str_con(x, [val_incr(s) EXCEPT !.n = @ + 1], "obj_key_end")
      [] c = "}" -> ctn_close(x, mode, s)
      [] Space(c) -> Skip(s, FALSE)
      [] OTHER -> return_err(x, s, s.cur, "CHARACTER")

obj_key_end(x, mode, s) ==
    LET c == At(x, s.cur) IN
    CASE c = ":" -> Goto([s EXCEPT !.cur = IF mode = "pretty" /\ At(x, @ + 1) = " "
                                             THEN @ + 2 ELSE @ + 1], "obj_val_begin")
      [] Space(c) -> Skip(s, TRUE)
      [] OTHER -> return_err(x, s, s.cur, "CHARACTER")

obj_val_begin(x, mode, s) ==
    Value(x, mode, s, [s EXCEPT !.val = @ + 1, !.n = @ + 1], "obj_val_end")

\* Behind a value: a comma, or the bracket that closes the container.
val_end(x, mode, s, close, next) ==
    LET c == At(x, s.cur) IN
    CASE c = "," -> Goto([s EXCEPT !.cur = Break(x, mode, @ + 1)], next)
      [] c = close -> ctn_end(x, mode, s)
      [] Space(c) -> Skip(s, TRUE)
      [] OTHER -> return_err(x, s, s.cur, "CHARACTER")

\* The root: a container, or a single value.
root(x, mode, s) ==
    LET c == At(x, s.cur) IN
    IF Opens(c)
      THEN Goto([Put(s, Atom(IF c = "{" THEN "obj" ELSE "arr", 0, <<>>))
                   EXCEPT !.cur = Break(x, mode, @ + 1)],
                IF c = "{" THEN "obj_key_begin" ELSE "arr_val_begin")
      ELSE IF Space(c) THEN return_err(x, s, s.cur, "CHARACTER")
      ELSE Value(x, mode, s, s, "doc_end")

doc_end(x, f, s) ==
    LET stop == Min({i \in s.cur .. Len(x) + 1 : ~Space(At(x, i))}) IN
    IF s.cur > Len(x) \/ "stop" \in f THEN [s EXCEPT !.lab = "doc"]
    ELSE IF stop > Len(x) THEN [s EXCEPT !.lab = "doc", !.cur = stop]
    ELSE return_err(x, [s EXCEPT !.cur = stop], stop, "CONTENT")

Step(x, mode, f, s) ==
    IF mode = "incr" /\ s.fresh = 1 /\ s.lab # "doc_end" THEN save_incr_state(x, s)
    ELSE CASE s.lab = "doc_begin"     -> root(x, mode, s)
           [] s.lab = "arr_val_begin" -> arr_val_begin(x, mode, s)
           [] s.lab = "arr_val_end"   -> val_end(x, mode, s, "]", "arr_val_begin")
           [] s.lab = "obj_key_begin" -> obj_key_begin(x, mode, s)
           [] s.lab = "obj_key_end"   -> obj_key_end(x, mode, s)
           [] s.lab = "obj_val_begin" -> obj_val_begin(x, mode, s)
           [] s.lab = "obj_val_end"   -> val_end(x, mode, s, "}", "obj_key_begin")
           [] s.lab = "doc_end"       -> doc_end(x, f, s)

RECURSIVE Run(_, _, _, _)
Run(x, mode, f, s) ==
    IF s.lab \in {"doc", "fail", "end"} THEN s ELSE Run(x, mode, f, Step(x, mode, f, s))

-----------------------------------------------------------------------------
(* The entry points. *)

First(x) == Min({i \in 1 .. Len(x) + 1 : ~Space(At(x, i))})
Room(c, len, ratio) == IF Opens(c) THEN Hdr + (len \div ratio) + 4 ELSE Hdr + 1

read_root(x, mode, f) ==
    LET cap == Room(At(x, First(x)), IF "stop" \in f THEN 256 ELSE Len(x) + 1 - First(x),
                    IF mode = "pretty" THEN 16 ELSE 6)
    IN  Run(x, mode, f, [Start(cap) EXCEPT !.cur = First(x)])

yyjson_read_opts(x, f) ==
    LET i == First(x) IN
    IF i > Len(x) THEN [Start(0) EXCEPT !.lab = "fail", !.code = "EMPTY"]
    ELSE read_root(x, IF Opens(x[i]) /\ Space(At(x, i + 1)) /\ Space(At(x, i + 2))
                        THEN "pretty" ELSE "minify", f)

yyjson_incr_new == [Start(0) EXCEPT !.lab = "end"]

\* Resume at the saved label.  White space before the root is skipped anew
\* until a root begins; then memory for the values is allocated.
yyjson_incr_read(s, x, f) ==
    LET r == [Goto(s, s.saved.lab) EXCEPT !.cur = s.saved.cur, !.val = s.saved.val,
                                          !.n = s.saved.n, !.code = "none", !.pos = 0]
        i == First(x)
    IN  IF s.cap > 0 THEN Run(x, "incr", f, r)
        ELSE IF i > Len(x) THEN return_err(x, r, i, "END")
        ELSE Run(x, "incr", f,
                 [r EXCEPT !.cap = Room(x[i], IF "stop" \in f THEN 256 ELSE BufLen, 6), !.cur = i])

-----------------------------------------------------------------------------
(* Reading the values of a document. *)

IsCtn(e) == e.t \in {"arr", "obj"}
unsafe_yyjson_get_first(i) == i + 1
unsafe_yyjson_get_next(tape, i) == i + (IF IsCtn(tape[i]) THEN tape[i].ofs ELSE 1)
unsafe_yyjson_arr_is_flat(tape, i) == tape[i].ofs = tape[i].len + 1

\* The element with index k: in one go when no element is a container.
yyjson_arr_get(tape, i, k) ==
    LET step[j \in 0 .. k] == IF j = 0 THEN unsafe_yyjson_get_first(i)
                              ELSE unsafe_yyjson_get_next(tape, step[j - 1])
    IN  IF unsafe_yyjson_arr_is_flat(tape, i) THEN unsafe_yyjson_get_first(i) + k ELSE step[k]

\* The key with index k: the next one is behind the value.
yyjson_obj_iter_next(tape, i, k) ==
    LET step[j \in 0 .. k] == IF j = 0 THEN unsafe_yyjson_get_first(i)
                              ELSE unsafe_yyjson_get_next(tape, step[j - 1] + 1)
    IN  step[k]

yyjson_obj_getn(tape, i, key) ==
    LET ks == [j \in 0 .. tape[i].len - 1 |-> yyjson_obj_iter_next(tape, i, j)]
        is == {j \in DOMAIN ks : tape[ks[j]].str = key}
    IN  IF is = {} THEN 0 ELSE ks[Min(is)] + 1

RECURSIVE Tree(_, _)
Tree(tape, i) ==
    LET e == tape[i] IN
    CASE e.t = "arr" -> <<"arr", [k \in 1 .. e.len |-> Tree(tape, yyjson_arr_get(tape, i, k - 1))]>>
      [] e.t = "obj" -> <<"obj", [k \in 1 .. e.len |->
                            LET key == yyjson_obj_iter_next(tape, i, k - 1)
                            IN  <<Tree(tape, key), Tree(tape, key + 1)>>]>>
      [] e.t = "str" -> <<"str", e.str>>
      [] OTHER -> <<e.t, e.len>>

-----------------------------------------------------------------------------
(* The grammar, as a reference: the value that x[i..j] is, or Bad.          *)

Bad == <<>>
Trimmed(x, i, j) ==
    LET p == Min({k \in i .. j + 1 : k > j \/ ~Space(x[k])})
        q == Max({k \in (i - 1) .. j : k < p \/ ~Space(x[k])})
    IN  <<p, q>>
Whole(x, i, j, S) == i <= j /\ \A k \in i .. j : x[k] \in S

\* The characters of a string: a quote or backslash only behind a backslash.
RECURSIVE Text(_, _, _)
Text(x, i, j) ==
    IF i > j THEN <<<<>>>>
    ELSE IF x[i] = "q" THEN Bad
    ELSE LET n    == IF x[i] = "b" THEN 2 ELSE 1
             rest == Text(x, i + n, j)
         IN  IF \/ i + n > j + 1 \/ rest = Bad
                \/ n = 2 /\ x[i + 1] \notin {"q", "b", "t"} THEN Bad
             ELSE <<<<SubSeq(x, i, i + n - 1)>> \o rest[1]>>

RECURSIVE Phrase(_, _, _), Items(_, _, _, _), Pair2(_, _, _)
Phrase(x, a, b) ==
    LET i == Trimmed(x, a, b)[1]
        j == Trimmed(x, a, b)[2]
        in == IF j - 1 < i + 1 THEN <<>> ELSE Trimmed(x, i + 1, j - 1)
        body(t, isObj) ==
            IF in = <<>> \/ in[1] > in[2] THEN <<t, <<>>>>
            ELSE LET its == Items(x, in[1], in[2], isObj)
                 IN  IF its = Bad THEN Bad ELSE <<t, its>>
    IN  IF i > j THEN Bad
        ELSE CASE Whole(x, i, j, {"1"}) -> <<"num", j - i + 1>>
               [] SubSeq(x, i, j) = <<"t", "e">> -> <<"lit", 0>>
               [] x[i] = "q" /\ x[j] = "q" /\ i < j ->
                    LET t == Text(x, i + 1, j - 1) IN IF t = Bad THEN Bad ELSE <<"str", t[1]>>
               [] x[i] = "[" /\ x[j] = "]" -> body("arr", FALSE)
               [] x[i] = "{" /\ x[j] = "}" -> body("obj", TRUE)
               [] OTHER -> Bad

\* One value or one pair.
Pair2(x, i, j) ==
    LET cs == {k \in i .. j : x[k] = ":" /\ Phrase(x, i, k - 1) # Bad
                              /\ Phrase(x, i, k - 1)[1] = "str"
                              /\ Phrase(x, k + 1, j) # Bad}
    IN  IF cs = {} THEN Bad
        ELSE <<Phrase(x, i, Min(cs) - 1), Phrase(x, Min(cs) + 1, j)>>
Items(x, i, j, isObj) ==
    LET One(p, q) == IF isObj THEN Pair2(x, p, q) ELSE Phrase(x, p, q)
        cs == {k \in i .. j : x[k] = "," /\ One(i, k - 1) # Bad}
    IN  IF One(i, j) # Bad THEN <<One(i, j)>>
        ELSE IF cs = {} THEN Bad
        ELSE LET rest == Items(x, Min(cs) + 1, j, isObj)
             IN  IF rest = Bad THEN Bad ELSE <<One(i, Min(cs) - 1)>> \o rest

-----------------------------------------------------------------------------
Init ==
    /\ text \in Heads
    /\ flg \in ReadFlags
    /\ incr = IF text = <<>> THEN yyjson_incr_new ELSE yyjson_incr_read(yyjson_incr_new, text, flg)
    /\ more = 0

\* More bytes are given, as long as they can still become a document.
Extend ==
    /\ text # <<>> => yyjson_read_opts(text, flg).code \in {"END", "EMPTY"}
    /\ \E n \in 1 .. MaxChunk : \E chunk \in [1 .. n -> Chars] :
         /\ more + n <= MaxMore
         /\ more' = more + n
         /\ text' = text \o chunk
         /\ incr' = IF incr.lab = "end" THEN yyjson_incr_read(incr, text', flg) ELSE incr
    /\ UNCHANGED flg

Next == Extend

-----------------------------------------------------------------------------
\* yyjson_read_opts accepts exactly the texts of the grammar, both container
\* readers give the document the grammar gives, as the accessors see it (the
\* sibling distances, lengths and the flat-array short cut included), look-up
\* finds the first key, and no value is written outside the allocation.
ReadExact == text # <<>> =>
    LET one == yyjson_read_opts(text, flg)
        ref == Phrase(text, 1, Len(text))
    IN  /\ one.over = 0
        /\ one.lab = "doc" =>
              /\ Tree(one.tape, 1) = Phrase(text, 1, one.cur - 1)
              /\ Len(one.tape) = one.val
              /\ one.tape[1].t = "obj" => \A k \in 1 .. one.tape[1].len :
                    LET key == one.tape[yyjson_obj_iter_next(one.tape, 1, k - 1)].str
                    IN  yyjson_obj_getn(one.tape, 1, key) <= yyjson_obj_iter_next(one.tape, 1, k - 1) + 1
        /\ "stop" \notin flg => (one.lab = "doc" <=> ref # Bad)
        /\ Opens(At(text, First(text))) =>
              LET a == read_root(text, "minify", flg)
                  b == read_root(text, "pretty", flg)
              IN  /\ <<a.lab, a.code, a.pos>> = <<b.lab, b.code, b.pos>>
                  /\ a.lab = "doc" => a.tape = b.tape /\ a.cur = b.cur /\ b.over = 0

\* However the bytes are cut into calls, the incremental reader ends where
\* yyjson_read_opts ends on the same bytes: with the same document, the same
\* error at the same place, or asking for more exactly when the text is empty or
\* a beginning that is cut short.
IncrExact == text # <<>> =>
    LET one == yyjson_read_opts(text, flg) IN
    /\ incr.over = 0
    /\ incr.lab = "doc" => one.lab = "doc" /\ Tree(incr.tape, 1) = Tree(one.tape, 1)
    /\ incr.lab # "doc" => \/ incr.code = one.code /\ incr.pos = one.pos
                           \/ incr.lab = "end" /\ one.code = "EMPTY"

=============================================================================
