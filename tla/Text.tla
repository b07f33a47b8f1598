-------------------------------- MODULE Text --------------------------------
(***************************************************************************)
(* The text helpers: trim, str_replace, starts_with and ends_with,         *)
(* read_file, mkdir_recursive and get_app_dir of utils.c, and              *)
(* truncate_utf8 of ui.c, each against what it is meant to compute.  A     *)
(* text grows character by character; a path is its sequence of names.     *)
(***************************************************************************)
EXTENDS Integers, Sequences, SequencesExt

CONSTANTS
    Alphabet,      \* characters: "s" is a space, "nl" a line end, "2" and "3"
                   \* begin characters of two and three bytes, "+" goes on
    MaxText,       \* bound: length of a text
    Olds, News,    \* str_replace: what is replaced, and by what
    BufSizes,      \* sizes of read_file and truncate_utf8 buffers
    MaxBytes       \* limits of truncate_utf8

VARIABLE text

Space(c) == c \in {"s", "nl"}
At(s, i, w) == i + Len(w) - 1 <= Len(s) /\ SubSeq(s, i, i + Len(w) - 1) = w

\* strstr: the first place of w in s at or after i, 0 when there is none.
strstr(s, i, w) ==
    LET hits == {j \in i .. Len(s) : At(s, j, w)} IN IF hits = {} THEN 0 ELSE Min(hits)

starts_with(s, w) == At(s, 1, w)
ends_with(s, w) == Len(w) <= Len(s) /\ SubSeq(s, Len(s) - Len(w) + 1, Len(s)) = w

\* trim: start moves to the first character that is no space, end back to
\* the last, but not before start; what is between them moves to the front.
trim(s) ==
    LET start == Min({i \in 1 .. Len(s) + 1 : i = Len(s) + 1 \/ ~Space(s[i])})
        end == Max({i \in start .. Len(s) : i = start \/ ~Space(s[i])})
    IN IF s = <<>> \/ start = Len(s) + 1 THEN <<>> ELSE SubSeq(s, start, end)

\* str_replace: a first pass counts, the buffer is sized by the count, and a
\* second pass copies.
occurrences_overlapping(s, w) == {i \in 1 .. Len(s) : At(s, i, w)}
occurrences(s, w) ==
    LET f[i \in 1 .. Len(s) + 1] ==
          LET j == IF i > Len(s) THEN 0 ELSE strstr(s, i, w)
          IN IF j = 0 THEN {} ELSE {j} \cup (IF j + Len(w) > Len(s) THEN {} ELSE f[j + Len(w)])
    IN f[1]
buf_len(s, old, new) == Len(s) + Cardinality(occurrences(s, old)) * (Len(new) - Len(old)) + 1
str_replace(s, old, new) ==
    LET f[i \in 1 .. Len(s) + 1] ==
          LET j == IF i > Len(s) THEN 0 ELSE strstr(s, i, old)
          IN IF j = 0 THEN SubSeq(s, i, Len(s))
             ELSE SubSeq(s, i, j - 1) \o new
                  \o (IF j + Len(old) > Len(s) THEN <<>> ELSE f[j + Len(old)])
    IN IF old = <<>> THEN s ELSE f[1]

\* read_file: what fits with its terminator; one line end at the end is cut
\* off, but counted in the result.
read_file(file, size) ==
    LET got == SubSeq(file, 1, Min({Len(file), size - 1})) IN
    IF size < 2 THEN [rc |-> -1, buf |-> <<>>]
    ELSE [rc |-> Len(got),
          buf |-> IF got # <<>> /\ Last(got) = "nl" THEN Front(got) ELSE got]

----------------------------------------------------------------------------
(* truncate_utf8: values too wide for their column.                        *)

Dots == <<".", ".", ".">>
Bytes(c) == CASE c = "2" -> 2 [] c = "3" -> 3 [] OTHER -> 1
\* How much is kept of src in keep bytes: whole characters.
used_bytes(src, keep) ==
    LET f[u \in 0 .. keep] ==
          IF u < keep /\ u < Len(src) /\ u + Bytes(src[u + 1]) <= keep
             /\ u + Bytes(src[u + 1]) <= Len(src)
          THEN f[u + Bytes(src[u + 1])] ELSE u
    IN f[0]
truncate_utf8(src, size, max_bytes) ==
    LET limit == Min({max_bytes, size - 1}) IN
    IF max_bytes <= 0 THEN <<>>
    ELSE IF Len(src) <= limit THEN src
    ELSE IF limit <= 3 THEN <<>>
    ELSE SubSeq(src, 1, used_bytes(src, limit - 3)) \o Dots

\* A text of whole characters.
WellFormed(s) ==
    LET f[i \in 1 .. Len(s) + 1] ==
          IF i = Len(s) + 1 THEN TRUE
          ELSE /\ s[i] # "+"
               /\ i + Bytes(s[i]) - 1 <= Len(s)
               /\ \A k \in i + 1 .. i + Bytes(s[i]) - 1 : s[k] = "+"
               /\ f[i + Bytes(s[i])]
    IN f[1]

----------------------------------------------------------------------------
(* Paths.                                                                  *)

\* mkdir_recursive on a tree: dirs and files are sets of paths.  Every
\* prefix is made in turn; one that exists must be a directory.
mkdir_recursive(path, dirs, files, readonly) ==
    LET f[n \in 0 .. Len(path)] ==
          IF n = 0 THEN [rc |-> 0, dirs |-> dirs]
          ELSE LET prev == f[n - 1]
                   here == SubSeq(path, 1, n)
               IN IF prev.rc # 0 \/ here \in prev.dirs THEN prev
                  ELSE IF here \in files \/ SubSeq(path, 1, n - 1) \in readonly
                  THEN [prev EXCEPT !.rc = -1]
                  ELSE [prev EXCEPT !.dirs = @ \cup {here}]
    IN IF path = <<>> THEN [rc |-> -1, dirs |-> dirs] ELSE f[Len(path)]

\* get_app_dir: the directory of the executable, its parent when that is
\* called bin.
get_app_dir(exe) ==
    LET dir == Front(exe) IN
    IF Len(exe) < 2 THEN <<".">>
    ELSE IF Len(dir) > 1 /\ Last(dir) = "bin" THEN Front(dir) ELSE dir

----------------------------------------------------------------------------
Init == text = <<>>
Next == Len(text) < MaxText /\ \E c \in Alphabet : text' = Append(text, c)

Trees == {<<"a">>, <<"a", "bin">>, <<"a", "bin", "b">>}
Closed(dirs) == \A d \in dirs : Len(d) > 1 => Front(d) \in dirs

\* mkdir_recursive succeeds exactly when every directory of the path is
\* there afterwards, and takes nothing away when it fails half way; both
\* layouts of an installation (dir/atpd and dir/bin/atpd) have one app_dir.
PathsExact ==
    /\ \A dirs \in SUBSET Trees, files \in SUBSET Trees, readonly \in SUBSET Trees, path \in Trees :
          (Closed(dirs) /\ dirs \cap files = {} /\ readonly \subseteq dirs) =>
             LET r == mkdir_recursive(path, dirs, files, readonly) IN
             /\ r.rc = 0 <=> \A n \in DOMAIN path : SubSeq(path, 1, n) \in r.dirs
             /\ dirs \subseteq r.dirs /\ Closed(r.dirs) /\ r.dirs \cap files = {}
    /\ \A d \in Trees : Last(d) # "bin" =>
          get_app_dir(d \o <<"bin", "atpd">>) = get_app_dir(Append(d, "atpd"))

\* trim takes off all space at both ends and nothing else; str_replace
\* writes exactly the buffer it sized, and what it leaves of the text is
\* what stood between the occurrences; a text cut by truncate_utf8 fits its
\* column and its buffer and is cut between characters, never within one;
\* read_file never gives more than its buffer holds and loses at most the
\* last line end of a file that fits.
TextExact ==
    /\ text = <<>> => PathsExact
    /\ LET t == trim(text) IN
       /\ t # <<>> => ~Space(t[1]) /\ ~Space(Last(t))
       /\ \E i \in 1 .. Len(text) + 1, j \in 0 .. Len(text) :
             /\ SubSeq(text, i, j) = t
             /\ \A k \in DOMAIN text : (k < i \/ k > j) => Space(text[k])
    /\ \A old \in Olds, new \in News :
          LET r == str_replace(text, old, new) IN
          /\ old # <<>> => Len(r) + 1 = buf_len(text, old, new)
          /\ (old # <<>> /\ new = <<>>) =>
                Len(r) = Len(text) - Len(old) * Cardinality(occurrences(text, old))
          /\ old = new => r = text
    /\ \A size \in BufSizes, max \in MaxBytes :
          LET r == truncate_utf8(text, size, max) IN
          /\ Len(r) < size /\ Len(r) <= max
          /\ WellFormed(text) => WellFormed(r)
          /\ r # text => r = <<>> \/ ends_with(r, Dots)
    /\ \A size \in BufSizes :
          LET r == read_file(text, size) IN
          /\ Len(r.buf) < size /\ r.rc < size
          /\ starts_with(text, r.buf)
          /\ (size > Len(text) /\ size > 1) => Len(r.buf) >= Len(text) - 1
============================================================================
