-------------------------------- MODULE Bag --------------------------------
(***************************************************************************)
(* The Python layer of silk.Bag, src/src/pysilk/python/__init__.py lines   *)
(* 676-1214: the methods written in Python on top of the C type            *)
(* pysilk.BagBase.                                                         *)
(*                                                                         *)
(* A bag is a function from keys to positive counters, a key being absent  *)
(* when its counter is zero: the representation of the standard Bags       *)
(* module.  The program holds the bags named Names; an action is one       *)
(* method call, a bag method returning a new bag being assigned back to    *)
(* its receiver (a = a.min(b)).  A Python exception is recorded in err.    *)
(*                                                                         *)
(* BagBase is the C extension, not part of these sources.  Its operations  *)
(* are modelled by what the Python code relies on: setting a counter to 0  *)
(* removes the key, decr below zero raises ValueError (caught by           *)
(* __isub__), += adds counters, and iteration visits each key once in key  *)
(* order over the bag as it was when the loop started.  Counters stay far  *)
(* below the 2^64 limit in every state checked, so overflow is not         *)
(* modelled.                                                               *)
(***************************************************************************)
EXTENDS Integers, Sequences, FiniteSets, SequencesExt, Bags

CONSTANTS Names,    \* the bag variables of the program
          Keys,     \* the keys, integers
          Values,   \* counters a caller stores with b[k] = v
          Bounds,   \* min and max arguments: integers or None
          Items,    \* key sequences given to add() and remove()
          Pairs,    \* <<key, value>> sequences given to update()
          Factors,  \* integers given to *=
          InvCap,   \* the cap inversion() puts on a value (0xFFFFFFFF)
          Fuel,     \* items of group_iterator() the model computes
          None      \* Python's None

ASSUME None \notin Int

VARIABLES bag,      \* [Names -> bag]
          err,      \* the exception the last call raised, or None
          last      \* <<method, receiver, arguments>> of the last call

vars == <<bag, err, last>>

----------------------------------------------------------------------------
(* pysilk.BagBase, the environment.                                        *)

\* BagBase.__getitem__: the counter, 0 for an absent key.
Get(b, k) == IF k \in DOMAIN b THEN b[k] ELSE 0

\* BagBase.__setitem__: a zero counter removes the key.
Put(b, k, v) ==
    IF v = 0 THEN [e \in DOMAIN b \ {k} |-> b[e]]
    ELSE [e \in DOMAIN b \cup {k} |-> IF e = k THEN v ELSE Get(b, e)]

\* The keys of a bag in the order BagBase's iterator visits them.
KeysOf(b) == SetToSortSeq(DOMAIN b, <)

\* A loop over the items of b, body(acc, key, value) updating acc.
ForItems(b, body(_, _, _), acc) ==
    FoldLeft(LAMBDA s, k : body(s, k, b[k]), acc, KeysOf(b))

\* A result: the receiver's new contents and the exception raised.
Res(b, e) == [b |-> b, err |-> e]

\* Python truthiness of a min/max argument.
Truthy(x) == x # None /\ x # 0

----------------------------------------------------------------------------
(* The Python methods.                                                     *)

\* Mutant: a zero counter stored instead of removing the key.
SetItemKeepZero(b, k, v) ==
    Res([e \in DOMAIN b \cup {k} |-> IF e = k THEN v ELSE Get(b, e)], None)

\* __setitem__.
SetItem(b, k, v) == Res(Put(b, k, v), None)

\* __delitem__: self[key] = 0.
DelItem(b, k) == SetItem(b, k, 0)

\* incr(key): BagBase.incr by 1.
Incr(b, k) == Put(b, k, Get(b, k) + 1)

\* decr(key): BagBase.decr by v, ValueError below zero.
Decr(b, k, v) ==
    IF Get(b, k) < v THEN Res(b, "ValueError") ELSE Res(Put(b, k, Get(b, k) - v), None)

\* add(k1, k2, ...): incr for each key in turn.
AddKeys(b, items) == Res(FoldLeft(Incr, b, items), None)

\* remove(k1, k2, ...): decr for each key in turn; the first ValueError
\* propagates with the earlier keys already decremented.
RemoveKeys(b, items) ==
    FoldLeft(LAMBDA r, k : IF r.err # None THEN r ELSE Decr(r.b, k, 1),
             Res(b, None), items)

\* update(seq): b[key] = val for each pair in turn.
Update(b, pairs) ==
    Res(FoldLeft(LAMBDA s, p : Put(s, p[1], p[2]), b, pairs), None)

\* __iadd__: BagBase.__iadd__.
IAdd(b, o) == Res([k \in DOMAIN b \cup DOMAIN o |-> Get(b, k) + Get(o, k)], None)

\* Mutant: the ValueError of decr swallowed without deleting the key.
ISubNoDel(b, o) ==
    Res(ForItems(o, LAMBDA s, k, v : LET d == Decr(s, k, v)
                                     IN  IF d.err = None THEN d.b ELSE s,
                 b), None)

\* __isub__: decr each key of other by its value, del self[key] when
\* decr raises ValueError.
ISub(b, o) ==
    Res(ForItems(o, LAMBDA s, k, v : LET d == Decr(s, k, v)
                                     IN  IF d.err = None THEN d.b ELSE Put(s, k, 0),
                 b), None)

\* min(other): for each key of self, min(val, other[key]).
MinOf(b, o) ==
    Res(ForItems(b, LAMBDA s, k, v : Put(s, k, IF v <= Get(o, k) THEN v ELSE Get(o, k)),
                 EmptyBag), None)

\* max(other): the keys of other, then the keys of self.
MaxOf(b, o) ==
    LET mx(x, y) == IF x >= y THEN x ELSE y
        fromO == ForItems(o, LAMBDA s, k, v : Put(s, k, mx(v, Get(b, k))), EmptyBag)
    IN  Res(ForItems(b, LAMBDA s, k, v : Put(s, k, mx(v, Get(o, k))), fromO), None)

\* __div__: divmod, rounded half up, for the keys other has.
Div(b, o) ==
    LET q(a, d) == (a \div d) + (IF (a % d) * 2 >= d THEN 1 ELSE 0)
    IN  Res(ForItems(b, LAMBDA s, k, a : IF Get(o, k) # 0 THEN Put(s, k, q(a, Get(o, k))) ELSE s,
                     EmptyBag), None)

\* __imul__: self[key] = value * other for each key.
IMul(b, n) == Res(ForItems(b, LAMBDA s, k, v : Put(s, k, v * n), b), None)

\* complement_intersect(other): the items of self whose key other lacks.
ComplementIntersect(b, o) ==
    Res(ForItems(b, LAMBDA s, k, v : IF Get(o, k) # 0 THEN s ELSE Put(s, k, v),
                 EmptyBag), None)

\* intersect(slice(start, stop)): a falsy start or stop is no bound.
IntersectSlice(b, start, stop) ==
    Res(ForItems(b, LAMBDA s, k, v :
                     IF (Truthy(start) /\ k < start) \/ (Truthy(stop) /\ k >= stop)
                     THEN s ELSE Put(s, k, v),
                 EmptyBag), None)

\* constrain_values(min, max): del self[key] for values outside.
ConstrainValues(b, lo, hi) ==
    IF ~(Truthy(lo) \/ Truthy(hi)) THEN Res(b, "ValueError")
    ELSE Res(ForItems(b, LAMBDA s, k, v :
                          IF (Truthy(lo) /\ v < lo) \/ (Truthy(hi) /\ v > hi)
                          THEN Put(s, k, 0) ELSE s, b), None)

\* constrain_keys(min, max): del self[key] for keys outside.
ConstrainKeys(b, lo, hi) ==
    IF ~(Truthy(lo) \/ Truthy(hi)) THEN Res(b, "ValueError")
    ELSE Res(ForItems(b, LAMBDA s, k, v :
                          IF (Truthy(lo) /\ k < lo) \/ (Truthy(hi) /\ k > hi)
                          THEN Put(s, k, 0) ELSE s, b), None)

\* inversion(): a new integer bag counting each value, capped at
\* InvCap, by add() over a generator (incr for each item).
Inversion(b) ==
    Res(ForItems(b, LAMBDA s, k, v : Incr(s, IF v <= InvCap THEN v ELSE InvCap),
                 EmptyBag), None)

\* copy(): Bag(_copy=self).
CopyOf(b) == Res(b, None)

\* Mutant: __eq__ without the len() check.
BagEqNoLen(b, o) == \A k \in DOMAIN b : b[k] = Get(o, k)

\* __eq__: the same number of keys and every value of self in other.
BagEq(b, o) ==
    /\ Cardinality(DOMAIN b) = Cardinality(DOMAIN o)
    /\ \A k \in DOMAIN b : b[k] = Get(o, k)

----------------------------------------------------------------------------
(* group_iterator(other), lines 1030-1091: a generator merging the sorted  *)
(* items of two bags.  Its state is the record st: the point pc where it   *)
(* resumes, the positions ia and ib of the next items of a and b, the      *)
(* current items ak/av and bk/bv, and the items yielded so far, out.       *)

\* The items of b as sorted_iter() yields them.
SortedItems(b) == [i \in 1..Cardinality(DOMAIN b) |-> <<KeysOf(b)[i], b[KeysOf(b)[i]]>>]

\* Yield one item.
Yield(st, k, va, vb) == [st EXCEPT !.out = Append(@, <<k, va, vb>>)]

\* Mutant: the item of b yielded in a's place when bk < ak.
GIStepSwapped(a, b, st) ==
    LET hasA == st.ia <= Len(a)
        hasB == st.ib <= Len(b)
        nextA(s) == [s EXCEPT !.ak = a[s.ia][1], !.av = a[s.ia][2], !.ia = @ + 1]
        nextB(s) == [s EXCEPT !.bk = b[s.ib][1], !.bv = b[s.ib][2], !.ib = @ + 1]
    IN
    CASE st.pc = "start" ->
            IF ~hasA THEN [st EXCEPT !.pc = "drainB"]
            ELSE IF ~hasB
            THEN [Yield(nextA(st), a[1][1], a[1][2], None) EXCEPT !.pc = "drainAret"]
            ELSE [nextB(nextA(st)) EXCEPT !.pc = "loop"]
      [] st.pc = "loop" /\ st.ak < st.bk ->
            LET y == Yield(st, st.ak, st.av, None)
            IN  IF hasA THEN nextA(y)
                ELSE [Yield(y, st.bk, None, st.bv) EXCEPT !.pc = "drainB"]
      [] st.pc = "loop" /\ st.bk < st.ak ->
            LET y == Yield(st, st.bk, st.bv, None)
            IN  IF hasB THEN nextB(y)
                ELSE [Yield(y, st.ak, st.av, None) EXCEPT !.pc = "drainAloop"]
      [] st.pc = "loop" ->
            LET y == Yield(st, st.ak, st.av, st.bv)
            IN  IF ~hasA THEN [y EXCEPT !.pc = "drainB"]
                ELSE IF st.ib <= Len(b) THEN nextB(nextA(y))
                ELSE LET y2 == nextA(y)
                     IN  [Yield(y2, y2.ak, y2.av, None) EXCEPT !.pc = "drainAret"]
      [] st.pc \in {"drainAret", "drainAloop"} ->
            IF hasA THEN Yield(nextA(st), a[st.ia][1], a[st.ia][2], None)
            ELSE [st EXCEPT !.pc = IF st.pc = "drainAret" THEN "done" ELSE "loop"]
      [] st.pc = "drainB" ->
            IF hasB THEN Yield([st EXCEPT !.ib = @ + 1], b[st.ib][1], None, b[st.ib][2])
            ELSE [st EXCEPT !.pc = "done"]
      [] OTHER -> st

\* One turn of the generator's code from st.pc, with a and b the sorted
\* items of the two bags.  next() past the end raises StopIteration.
GIStep(a, b, st) ==
    LET hasA == st.ia <= Len(a)
        hasB == st.ib <= Len(b)
        nextA(s) == [s EXCEPT !.ak = a[s.ia][1], !.av = a[s.ia][2], !.ia = @ + 1]
        nextB(s) == [s EXCEPT !.bk = b[s.ib][1], !.bv = b[s.ib][2], !.ib = @ + 1]
    IN
    CASE st.pc = "start" ->
            IF ~hasA THEN [st EXCEPT !.pc = "drainB"]
            ELSE IF ~hasB
            THEN [Yield(nextA(st), a[1][1], a[1][2], None) EXCEPT !.pc = "drainAret"]
            ELSE [nextB(nextA(st)) EXCEPT !.pc = "loop"]
      [] st.pc = "loop" /\ st.ak < st.bk ->
            LET y == Yield(st, st.ak, st.av, None)
            IN  IF hasA THEN nextA(y)
                ELSE [Yield(y, st.bk, None, st.bv) EXCEPT !.pc = "drainB"]
      [] st.pc = "loop" /\ st.bk < st.ak ->
            LET y == Yield(st, st.bk, None, st.bv)
            IN  IF hasB THEN nextB(y)
                ELSE [Yield(y, st.ak, st.av, None) EXCEPT !.pc = "drainAloop"]
      [] st.pc = "loop" ->
            LET y == Yield(st, st.ak, st.av, st.bv)
            IN  IF ~hasA THEN [y EXCEPT !.pc = "drainB"]
                ELSE IF st.ib <= Len(b) THEN nextB(nextA(y))
                ELSE LET y2 == nextA(y)
                     IN  [Yield(y2, y2.ak, y2.av, None) EXCEPT !.pc = "drainAret"]
      [] st.pc \in {"drainAret", "drainAloop"} ->
            IF hasA THEN Yield(nextA(st), a[st.ia][1], a[st.ia][2], None)
            ELSE [st EXCEPT !.pc = IF st.pc = "drainAret" THEN "done" ELSE "loop"]
      [] st.pc = "drainB" ->
            IF hasB THEN Yield([st EXCEPT !.ib = @ + 1], b[st.ib][1], None, b[st.ib][2])
            ELSE [st EXCEPT !.pc = "done"]
      [] OTHER -> st

\* list(x.group_iterator(y)), cut once Fuel items have been yielded.
RECURSIVE GIRun(_, _, _)
GIRun(a, b, st) ==
    IF st.pc = "done" \/ Len(st.out) >= Fuel THEN st ELSE GIRun(a, b, GIStep(a, b, st))

GroupIterator(x, y) ==
    GIRun(SortedItems(x), SortedItems(y),
          [pc |-> "start", ia |-> 1, ib |-> 1, ak |-> None, av |-> None,
           bk |-> None, bv |-> None, out |-> <<>>])

----------------------------------------------------------------------------
(* The program: any method called on any bag with arguments from the       *)
(* small sets above.                                                       *)

\* Bag() or Bag(seq): an empty bag, then update(seq) when seq is not empty.
Init ==
    /\ bag \in [Names -> {EmptyBag} \cup {Update(EmptyBag, ps).b : ps \in Pairs}]
    /\ err = None
    /\ last = <<"init", CHOOSE x \in Names : TRUE, <<>>>>

\* The call m with arguments a on the bag named x, with result r.
Call(m, x, a, r) ==
    /\ bag' = [bag EXCEPT ![x] = r.b]
    /\ err' = r.err
    /\ last' = <<m, x, a>>

Next ==
    \E x \in Names :
        \/ \E k \in Keys, v \in Values : Call("set", x, <<k, v>>, SetItem(bag[x], k, v))
        \/ \E k \in Keys : Call("del", x, <<k>>, DelItem(bag[x], k))
        \/ \E k \in Keys : Call("incr", x, <<k>>, Res(Incr(bag[x], k), None))
        \/ \E k \in Keys : Call("decr", x, <<k>>, Decr(bag[x], k, 1))
        \/ \E it \in Items : Call("add", x, <<it>>, AddKeys(bag[x], it))
        \/ \E it \in Items : Call("remove", x, <<it>>, RemoveKeys(bag[x], it))
        \/ \E ps \in Pairs : Call("update", x, <<ps>>, Update(bag[x], ps))
        \/ \E n \in Factors : Call("imul", x, <<n>>, IMul(bag[x], n))
        \/ \E lo, hi \in Bounds :
               \/ Call("constrain_values", x, <<lo, hi>>, ConstrainValues(bag[x], lo, hi))
               \/ Call("constrain_keys", x, <<lo, hi>>, ConstrainKeys(bag[x], lo, hi))
               \/ Call("intersect", x, <<lo, hi>>, IntersectSlice(bag[x], lo, hi))
        \/ \E y \in Names :
               \/ Call("iadd", x, <<y>>, IAdd(bag[x], bag[y]))
               \/ Call("isub", x, <<y>>, ISub(bag[x], bag[y]))
               \/ Call("min", x, <<y>>, MinOf(bag[x], bag[y]))
               \/ Call("max", x, <<y>>, MaxOf(bag[x], bag[y]))
               \/ Call("div", x, <<y>>, Div(bag[x], bag[y]))
               \/ Call("complement_intersect", x, <<y>>, ComplementIntersect(bag[x], bag[y]))
               \/ Call("inversion", x, <<y>>, Inversion(bag[y]))
               \/ Call("copy", x, <<y>>, CopyOf(bag[y]))

Spec == Init /\ [][Next]_vars

----------------------------------------------------------------------------
TypeOK ==
    /\ \A x \in Names : IsABag(bag[x]) /\ DOMAIN bag[x] \subseteq Nat
    /\ err \in {None, "ValueError"}

\* __eq__ (len, then every value of self against other) is equality of
\* the two bags, whatever calls built them.
EqIsEquality ==
    \A x, y \in Names : BagEq(bag[x], bag[y]) <=> bag[x] = bag[y]

\* Every item group_iterator yields is a key with its counter in each bag,
\* None where that bag lacks the key, and the key is in at least one bag.
GroupIterValues ==
    \A x, y \in Names :
        LET out == GroupIterator(bag[x], bag[y]).out
        IN  \A i \in DOMAIN out :
                /\ out[i][2] = IF out[i][1] \in DOMAIN bag[x] THEN bag[x][out[i][1]] ELSE None
                /\ out[i][3] = IF out[i][1] \in DOMAIN bag[y] THEN bag[y][out[i][1]] ELSE None
                /\ out[i][1] \in DOMAIN bag[x] \cup DOMAIN bag[y]

\* group_iterator ends, having yielded each key of either bag once, in
\* key order (its docstring: "Will iterate over every key in which one of
\* the bags has a non-zero value").
GroupIterComplete ==
    \A x, y \in Names :
        LET g == GroupIterator(bag[x], bag[y])
            ks == SetToSortSeq(DOMAIN bag[x] \cup DOMAIN bag[y], <)
        IN  /\ g.pc = "done"
            /\ [i \in DOMAIN g.out |-> g.out[i][1]] = ks
=============================================================================
