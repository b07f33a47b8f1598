------------------------------ MODULE JsonMut -------------------------------
(***************************************************************************)
(* The containers of a mutable JSON document (src/include/yyjson.h): the    *)
(* elements of an array, and the keys and values of an object in turn, are  *)
(* linked to a cycle through "next"; the container holds its length and a   *)
(* pointer to the last element or the last key.  The operations relink the  *)
(* cycle by hand.                                                           *)
(*                                                                         *)
(* The container, the cycle and one iterator over it are the record m.      *)
(* ref is what the operations promise: the contents as a sequence, the      *)
(* iterator as a position in it.  The next of a value outside the container *)
(* is never read before it is written; here it is Nil, which has no next.   *)
(***************************************************************************)
EXTENDS Naturals, Sequences, SequencesExt, FiniteSets, FiniteSetsExt

CONSTANTS
    MaxElems,    \* bound: elements of an array
    MaxPairs,    \* bound: pairs of an object
    Names,       \* names of keys, as positive numbers
    Data         \* contents of values, as positive numbers

VARIABLES
    kind,   \* "arr" or "obj"
    m,      \* [next, ptr, len, name, data, idx, max, cur, pre, it, ret]
            \*   it: 0 no iterator, 1 before or between values, 2 at a value,
            \*   3 a search went round past the end
    ref     \* [seq, idx, ret]

vars == <<kind, m, ref>>

Nil    == 0
Vals   == 1 .. MaxElems + 2 * MaxPairs

-----------------------------------------------------------------------------
Link(h, v, w)  == [h EXCEPT !.next[v] = w]
Answer(h, v)   == [h EXCEPT !.ret = v]
After(h, v, k) ==
    LET f[i \in 0 .. k] == IF i = 0 THEN v ELSE h.next[f[i - 1]] IN f[k]

\* The values linked into the cycle, from the first on.
Linked(h) ==
    LET n == IF kind = "arr" THEN h.len ELSE 2 * h.len
        first == IF kind = "arr" THEN h.next[h.ptr] ELSE h.next[h.next[h.ptr]]
    IN  [i \in 1 .. n |-> After(h, first, i - 1)]
\* Values outside are not read any more, and addresses carry no meaning: the
\* values of the container are renumbered in their order.
Settled(h) ==
    LET lk  == IF h.len = 0 THEN <<>> ELSE Linked(h)
        num(v) == IF v \in ToSet(lk) THEN Min({i \in DOMAIN lk : lk[i] = v}) ELSE Nil
        Moved(f) == [v \in Vals |-> IF v \in DOMAIN lk THEN f[lk[v]] ELSE Nil]
    IN  [h EXCEPT !.next = [v \in Vals |-> num(Moved(h.next)[v])], !.name = Moved(@),
                  !.data = Moved(@), !.ptr = num(@), !.cur = num(@), !.pre = num(@)]
NoIter(h) == [h EXCEPT !.it = 0, !.idx = 0, !.max = 0, !.cur = Nil, !.pre = Nil]

\* What a reader of the container sees.
Contents(h) ==
    IF h.len = 0 THEN <<>>
    ELSE IF kind = "arr" THEN [i \in 1 .. h.len |-> h.data[Linked(h)[i]]]
    ELSE [i \in 1 .. h.len |-> <<h.name[Linked(h)[2 * i - 1]], h.data[Linked(h)[2 * i]]>>]

Free == Vals \ (IF m.len = 0 THEN {} ELSE ToSet(Linked(m)))
New(k) == Min({v \in Free : Cardinality({w \in Free : w <= v}) = k})      \* a value made for the call
Value(h, v, d) == [h EXCEPT !.data[v] = d]

-----------------------------------------------------------------------------
(* Arrays. *)

Alone(h, v) == [Link(h, v, v) EXCEPT !.ptr = v]
\* v between prev and the value behind it.
Between(h, prev, v) == Link(Link(h, v, h.next[prev]), prev, v)
Longer(h)  == [h EXCEPT !.len = @ + 1]
Shorter(h) == [h EXCEPT !.len = @ - 1]

yyjson_mut_arr_append(h, v) ==
    Longer(IF h.len = 0 THEN Alone(h, v) ELSE [Between(h, h.ptr, v) EXCEPT !.ptr = v])

yyjson_mut_arr_prepend(h, v) ==
    Longer(IF h.len = 0 THEN Alone(h, v) ELSE Between(h, h.ptr, v))

yyjson_mut_arr_insert_keeps_tail(h, v, i) ==
    Longer(IF h.len = 0 THEN Alone(h, v) ELSE Between(h, After(h, h.ptr, i), v))

yyjson_mut_arr_insert(h, v, i) ==
    IF h.len = 0 THEN Longer(Alone(h, v))
    ELSE IF i = h.len THEN yyjson_mut_arr_append(h, v)
    ELSE Longer(Between(h, After(h, h.ptr, i), v))

yyjson_mut_arr_replace(h, i, v) ==
    LET prev == After(h, h.ptr, i)
        old  == h.next[prev]
        r    == Link(Link(h, prev, v), v, h.next[old])
    IN  Answer(IF h.len > 1 THEN [r EXCEPT !.ptr = IF @ = old THEN v ELSE @] ELSE Alone(h, v),
               h.data[old])

yyjson_mut_arr_remove(h, i) ==
    LET prev == After(h, h.ptr, i)
        old  == h.next[prev]
        r    == Link(h, prev, h.next[old])
    IN  Answer(Shorter(IF h.len > 1 THEN [r EXCEPT !.ptr = IF @ = old THEN prev ELSE @] ELSE h),
               h.data[old])

yyjson_mut_arr_remove_first(h) ==
    LET old == h.next[h.ptr]
    IN  Answer(Shorter(IF h.len > 1 THEN Link(h, h.ptr, h.next[old]) ELSE h), h.data[old])

\* The value before the last is found by going round the cycle.
yyjson_mut_arr_remove_last(h) ==
    LET prev == After(h, h.ptr, h.len - 1)
    IN  Answer(Shorter(IF h.len > 1 THEN [Link(h, prev, h.next[h.ptr]) EXCEPT !.ptr = prev]
                       ELSE h), h.data[h.ptr])

yyjson_mut_arr_remove_range(h, i, n) ==
    LET prev == After(h, h.ptr, i)
        r    == Link(h, prev, After(h, h.next[prev], n))
    IN  IF n = 0 THEN h
        ELSE [(IF h.len = n THEN h ELSE IF i + n = h.len THEN [r EXCEPT !.ptr = prev] ELSE r)
                EXCEPT !.len = @ - n]

yyjson_mut_arr_clear(h) == [h EXCEPT !.len = 0]
yyjson_mut_arr_rotate(h, i) == [h EXCEPT !.ptr = After(h, @, i)]
yyjson_mut_arr_get(h, i)  == h.next[After(h, h.ptr, i)]
yyjson_mut_arr_get_first(h) == h.next[h.ptr]
yyjson_mut_arr_get_last(h)  == h.ptr

yyjson_mut_arr_iter_init(h) ==
    [h EXCEPT !.it = 1, !.idx = 0, !.max = h.len, !.cur = IF h.len > 0 THEN h.ptr ELSE Nil,
              !.pre = Nil]
yyjson_mut_arr_iter_next(h) ==
    [h EXCEPT !.pre = h.cur, !.cur = h.next[h.cur], !.idx = @ + 1, !.it = 2,
              !.ret = h.data[h.next[h.cur]]]
yyjson_mut_arr_iter_remove(h) ==
    [Link(h, h.pre, h.next[h.cur]) EXCEPT
        !.ptr = IF h.idx = h.max THEN h.pre ELSE @,
        !.idx = @ - 1, !.max = @ - 1, !.len = h.max - 1, !.cur = h.pre, !.it = 1,
        !.ret = h.data[h.cur]]

-----------------------------------------------------------------------------
(* Objects. *)

Second(h, key) == h.next[h.next[key]]     \* the next key

unsafe_yyjson_mut_obj_add(h, key, v) ==
    LET l == IF h.len = 0 THEN Link(h, v, key)
             ELSE LET last == h.next[h.ptr] IN Link(Link(h, v, h.next[last]), last, key)
    IN  [Link(l, key, v) EXCEPT !.ptr = key, !.len = @ + 1]

unsafe_yyjson_mut_obj_rotate(h, i) == [h EXCEPT !.ptr = After(h, @, 2 * i)]

yyjson_mut_obj_insert(h, key, v, i) ==
    IF h.len > i
      THEN [unsafe_yyjson_mut_obj_add(unsafe_yyjson_mut_obj_rotate(h, i), key, v)
              EXCEPT !.ptr = h.ptr]
      ELSE unsafe_yyjson_mut_obj_add(h, key, v)

\* Every pair with the name goes; the first one's value is returned.
unsafe_yyjson_mut_obj_remove(h, n) ==
    LET RECURSIVE From(_, _, _, _)
        From(g, pre, cur, i) ==
            IF i = g.len THEN g
            ELSE IF g.name[cur] # n THEN From(g, cur, Second(g, cur), i + 1)
            ELSE LET r == [Link(g, g.next[pre], Second(g, cur)) EXCEPT
                             !.ptr = IF i + 1 = g.len THEN pre ELSE @,
                             !.len = @ - 1,
                             !.ret = IF @ = Nil THEN g.data[g.next[cur]] ELSE @]
                 IN  From(r, pre, Second(g, cur), i)
    IN  IF h.len = 0 THEN Answer(h, Nil)
        ELSE From(Answer(h, Nil), h.ptr, Second(h, h.ptr), 0)

\* The pairs of the object in order: their keys.
Keys(h) == [i \in 1 .. h.len |-> After(h, h.ptr, 2 * i)]
Named(h, n) == {i \in 1 .. h.len : h.name[Keys(h)[i]] = n}

\* The content of the first value with the name is overwritten in place.
unsafe_yyjson_mut_obj_replace(h, n, d) ==
    IF Named(h, n) = {} THEN h
    ELSE [h EXCEPT !.data[h.next[Keys(h)[Min(Named(h, n))]]] = d]

yyjson_mut_obj_getn(h, n) ==
    IF Named(h, n) = {} THEN Nil ELSE h.data[h.next[Keys(h)[Min(Named(h, n))]]]

yyjson_mut_obj_iter_init(h) == yyjson_mut_arr_iter_init(h)
yyjson_mut_obj_iter_next(h) ==
    [h EXCEPT !.pre = h.cur, !.cur = Second(h, h.cur), !.idx = @ + 1, !.it = 2,
              !.ret = h.name[Second(h, h.cur)]]
yyjson_mut_obj_iter_remove(h) ==
    [Link(h, h.next[h.pre], Second(h, h.cur)) EXCEPT
        !.ptr = IF h.idx = h.max THEN h.pre ELSE @,
        !.idx = @ - 1, !.max = @ - 1, !.len = h.max - 1, !.cur = h.pre, !.it = 1,
        !.ret = h.data[h.next[h.cur]]]

\* The first pair with the name gets v in place of its value, the others go;
\* without one the pair is added.  v = Nil only removes.
yyjson_mut_obj_put(h, key, v) ==
    LET RECURSIVE Walk(_, _)
        Walk(g, replaced) ==
            IF g.idx = g.max
              THEN IF replaced = 0 /\ v # Nil
                     THEN unsafe_yyjson_mut_obj_add([g EXCEPT !.len = g.max], key, v) ELSE g
            ELSE LET f == yyjson_mut_obj_iter_next(g) IN
                 IF f.name[f.cur] # h.name[key] THEN Walk(f, replaced)
                 ELSE IF replaced = 0 /\ v # Nil
                   THEN Walk(Link(Link(f, v, Second(f, f.cur)), f.cur, v), 1)
                 ELSE Walk(yyjson_mut_obj_iter_remove(f), replaced)
    IN  Answer(Walk(yyjson_mut_obj_iter_init(h), 0), Nil)

\* From the current key on round the cycle; idx is set back when it passes max.
yyjson_mut_obj_iter_getn(h, n) ==
    LET steps == {k \in 1 .. h.max : h.name[After(h, h.cur, 2 * k)] = n}
        k     == Min(steps)
        idx   == h.idx + k
    IN  IF steps = {} THEN Answer(h, Nil)
        ELSE [h EXCEPT !.pre = After(h, h.cur, 2 * k - 2), !.cur = After(h, h.cur, 2 * k),
                       !.idx = IF idx > h.max THEN idx - (h.max + 1) ELSE idx,
                       !.it = IF idx > h.max THEN 3 ELSE 2,
                       !.ret = h.data[h.next[After(h, h.cur, 2 * k)]]]

-----------------------------------------------------------------------------
(* Calls.  A call that edits the container ends the iteration, except a      *)
(* removal through the iterator of the value it is at.  A failed index check *)
(* changes nothing.                                                          *)

Init ==
    /\ kind \in {"arr", "obj"}
    /\ m = [next |-> [v \in Vals |-> Nil], ptr |-> Nil, len |-> 0,
            name |-> [v \in Vals |-> Nil], data |-> [v \in Vals |-> Nil],
            idx |-> 0, max |-> 0, cur |-> Nil, pre |-> Nil, it |-> 0, ret |-> Nil]
    /\ ref = [seq |-> <<>>, idx |-> 0, ret |-> Nil]

Quiet == Answer(m, Nil)
Edit(h, s, r) ==
    /\ m' = NoIter(Settled(h))
    /\ ref' = [seq |-> s, idx |-> 0, ret |-> r]
    /\ UNCHANGED kind
Iterate(h, s, i, r) ==
    /\ m' = Settled(h)
    /\ ref' = [seq |-> s, idx |-> i, ret |-> r]
    /\ UNCHANGED kind

s0 == ref.seq
Places == 1 .. Len(s0)

ArrAdd == \E d \in Data :
    /\ kind = "arr" /\ m.len < MaxElems
    /\ LET v == New(1)
           h == Value(Quiet, v, d) IN
       \/ Edit(yyjson_mut_arr_append(h, v), Append(s0, d), Nil)
       \/ Edit(yyjson_mut_arr_prepend(h, v), <<d>> \o s0, Nil)
       \/ \E i \in 1 .. Len(s0) + 1 :
             Edit(yyjson_mut_arr_insert(h, v, i - 1), InsertAt(s0, i, d), Nil)
       \/ \E i \in Places :
             Edit(yyjson_mut_arr_replace(h, i - 1, v), ReplaceAt(s0, i, d), s0[i])

ArrRemove ==
    /\ kind = "arr" /\ s0 # <<>>
    /\ \/ \E i \in Places :
             Edit(yyjson_mut_arr_remove(Quiet, i - 1), RemoveAt(s0, i), s0[i])
       \/ Edit(yyjson_mut_arr_remove_first(Quiet), Tail(s0), Head(s0))
       \/ Edit(yyjson_mut_arr_remove_last(Quiet), Front(s0), Last(s0))
       \/ \E i \in Places : \E n \in 0 .. Len(s0) - i + 1 :
             Edit(yyjson_mut_arr_remove_range(Quiet, i - 1, n),
                  SubSeq(s0, 1, i - 1) \o SubSeq(s0, i + n, Len(s0)), Nil)
       \/ Edit(yyjson_mut_arr_clear(Quiet), <<>>, Nil)

ArrRotate == \E i \in Places :
    /\ kind = "arr"
    /\ Edit(yyjson_mut_arr_rotate(Quiet, i - 1), SubSeq(s0, i, Len(s0)) \o SubSeq(s0, 1, i - 1), Nil)

ArrIter ==
    /\ kind = "arr"
    /\ \/ Iterate(yyjson_mut_arr_iter_init(Quiet), s0, 0, Nil)
       \/ /\ m.it > 0 /\ m.idx < m.max
          /\ Iterate(yyjson_mut_arr_iter_next(Quiet), s0, ref.idx + 1, s0[ref.idx + 1])
       \/ /\ m.it = 2
          /\ Iterate(yyjson_mut_arr_iter_remove(Quiet), RemoveAt(s0, ref.idx), ref.idx - 1,
                     s0[ref.idx])

With(n) == [Quiet EXCEPT !.name[New(1)] = n]    \* a new key with name n
Having(n) == {i \in Places : s0[i][1] = n}
Without(n) == SelectSeq(s0, LAMBDA p : p[1] # n)
ValueOf(n) == IF Having(n) = {} THEN Nil ELSE s0[Min(Having(n))][2]

ObjAdd == \E n \in Names, d \in Data :
    /\ kind = "obj" /\ m.len < MaxPairs
    /\ LET v == New(2)
           h == Value(With(n), v, d) IN
       \/ Edit(unsafe_yyjson_mut_obj_add(h, New(1), v), Append(s0, <<n, d>>), Nil)
       \/ \E i \in 1 .. Len(s0) + 1 :
             Edit(yyjson_mut_obj_insert(h, New(1), v, i - 1), InsertAt(s0, i, <<n, d>>), Nil)
       \/ LET at == Min(Having(n))
              later == SelectSeq(SubSeq(s0, at + 1, Len(s0)), LAMBDA p : p[1] # n)
          IN  Edit(yyjson_mut_obj_put(h, New(1), v),
                   IF Having(n) = {} THEN Append(s0, <<n, d>>)
                   ELSE SubSeq(s0, 1, at - 1) \o <<<<n, d>>>> \o later, Nil)
       \/ Edit(unsafe_yyjson_mut_obj_replace(Quiet, n, d),
               IF Having(n) = {} THEN s0 ELSE ReplaceAt(s0, Min(Having(n)), <<n, d>>), Nil)

ObjRemove ==
    /\ kind = "obj"
    /\ \/ \E n \in Names :
             \/ Edit(unsafe_yyjson_mut_obj_remove(Quiet, n), Without(n), ValueOf(n))
             \/ Edit(yyjson_mut_obj_put(With(n), New(1), Nil), Without(n), Nil)
       \/ Edit(yyjson_mut_arr_clear(Quiet), <<>>, Nil)

ObjRotate == \E i \in Places :
    /\ kind = "obj"
    /\ Edit(unsafe_yyjson_mut_obj_rotate(Quiet, i - 1),
            SubSeq(s0, i, Len(s0)) \o SubSeq(s0, 1, i - 1), Nil)

ObjIter ==
    /\ kind = "obj"
    /\ \/ Iterate(yyjson_mut_obj_iter_init(Quiet), s0, 0, Nil)
       \/ /\ m.it \in {1, 2} /\ m.idx < m.max
          /\ Iterate(yyjson_mut_obj_iter_next(Quiet), s0, ref.idx + 1, s0[ref.idx + 1][1])
       \/ /\ m.it = 2
          /\ Iterate(yyjson_mut_obj_iter_remove(Quiet), RemoveAt(s0, ref.idx), ref.idx - 1,
                     s0[ref.idx][2])
       \/ \E n \in Names :
             LET ahead == {i \in Having(n) : i > ref.idx}
                 found == IF ahead # {} THEN Min(ahead)
                          ELSE IF Having(n) # {} THEN Min(Having(n)) ELSE ref.idx
             IN  /\ m.it \in {1, 2}
                 /\ Iterate(yyjson_mut_obj_iter_getn(Quiet, n), s0, found,
                            IF Having(n) = {} THEN Nil ELSE s0[found][2])

Next == ArrAdd \/ ArrRemove \/ ArrRotate \/ ArrIter
        \/ ObjAdd \/ ObjRemove \/ ObjRotate \/ ObjIter

-----------------------------------------------------------------------------
\* After any sequence of edits a reader of the container finds exactly what
\* the calls promised, in order: the cycle, the length and the pointer to the
\* last element agree, look-ups find the first pair with a name, each call
\* returned the right value, and the iterator is where it should be.  A search
\* that went round past the end leaves idx one short: such an iterator is not
\* used again before it is initialised.
RingExact ==
    /\ Contents(m) = ref.seq
    /\ m.ret = ref.ret
    /\ m.it \in {1, 2} => m.idx = ref.idx /\ m.max = Len(ref.seq)
    /\ kind = "arr" /\ m.len > 0 =>
          /\ \A i \in Places : m.data[yyjson_mut_arr_get(m, i - 1)] = ref.seq[i]
          /\ m.data[yyjson_mut_arr_get_first(m)] = Head(ref.seq)
          /\ m.data[yyjson_mut_arr_get_last(m)] = Last(ref.seq)
    /\ kind = "obj" => \A n \in Names : yyjson_mut_obj_getn(m, n) = ValueOf(n)

=============================================================================
