------------------------------ MODULE BagSpec ------------------------------
(***************************************************************************)
(* What the methods of silk.Bag promise, in the words of their docstrings, *)
(* stated with the operators of the standard Bags module: a bag is a       *)
(* multiset, += and + are (+), -= and - are (-) ("Will not underflow"),    *)
(* min and max are taken key by key, division rounds to the nearest        *)
(* integer, and so on.  Each call is one atomic step; remove() raises      *)
(* ValueError at the first key that is no longer in the bag.               *)
(***************************************************************************)
EXTENDS Integers, Sequences, FiniteSets, SequencesExt, Bags

CONSTANTS Names, Keys, Values, Bounds, Items, Pairs, Factors, InvCap, None

ASSUME None \notin Int

VARIABLES bag, err, last

\* The keys of b within the optional bounds lo and hi.
Within(v, lo, hi) == (lo = None \/ v >= lo) /\ (hi = None \/ v <= hi)

\* The items of b whose key is in S.
Keep(b, S) == [k \in DOMAIN b \cap S |-> b[k]]

\* b with each key of the pairs ps counting the last value paired with it.
Assigned(b, ps) ==
    LET lastv(k) == ps[CHOOSE i \in DOMAIN ps : ps[i][1] = k
                           /\ \A j \in DOMAIN ps : ps[j][1] = k => j <= i][2]
        set == {ps[i][1] : i \in DOMAIN ps}
    IN  [k \in (BagToSet(b) \ set) \cup {k2 \in set : lastv(k2) > 0} |->
            IF k \in set THEN lastv(k) ELSE b[k]]

\* The abstract result of the method m with arguments a on b, the bag
\* called x.
Step(m, x, b) ==
    LET r(nb, e, a) == last' = <<m, x, a>> /\ bag' = [bag EXCEPT ![x] = nb] /\ err' = e
    IN
    CASE m = "set" -> \E k \in Keys, v \in Values :
            r(Keep(b, BagToSet(b) \ {k}) (+) (IF v = 0 THEN EmptyBag ELSE (k :> v)), None, <<k, v>>)
      [] m = "del" -> \E k \in Keys : r(Keep(b, BagToSet(b) \ {k}), None, <<k>>)
      [] m = "incr" -> \E k \in Keys : r(b (+) SetToBag({k}), None, <<k>>)
      [] m = "decr" -> \E k \in Keys :
            IF k \in BagToSet(b) THEN r(b (-) SetToBag({k}), None, <<k>>)
            ELSE r(b, "ValueError", <<k>>)
      [] m = "add" -> \E it \in Items : r(b (+) ToBag(it), None, <<it>>)
      [] m = "remove" -> \E it \in Items :
            LET fits(n) == ToBag(SubSeq(it, 1, n)) \sqsubseteq b
                n == CHOOSE n \in 0..Len(it) : fits(n) /\ (n = Len(it) \/ ~fits(n + 1))
            IN  r(b (-) ToBag(SubSeq(it, 1, n)), IF n = Len(it) THEN None ELSE "ValueError", <<it>>)
      [] m = "update" -> \E ps \in Pairs : r(Assigned(b, ps), None, <<ps>>)
      [] m = "imul" -> \E n \in Factors :
            r(IF n = 0 THEN EmptyBag ELSE [k \in BagToSet(b) |-> b[k] * n], None, <<n>>)
      [] m = "intersect" -> \E lo, hi \in Bounds :
            r(Keep(b, {k \in Keys : (lo = None \/ k >= lo) /\ (hi = None \/ k < hi)}), None, <<lo, hi>>)
      [] m \in {"constrain_values", "constrain_keys"} -> \E lo, hi \in Bounds :
            IF lo = None /\ hi = None THEN r(b, "ValueError", <<lo, hi>>)
            ELSE IF m = "constrain_keys"
            THEN r(Keep(b, {k \in Keys : Within(k, lo, hi)}), None, <<lo, hi>>)
            ELSE r(Keep(b, {k \in BagToSet(b) : Within(b[k], lo, hi)}), None, <<lo, hi>>)
      [] OTHER -> \E y \in Names :
            LET o == bag[y]
                both == BagToSet(b) \cap BagToSet(o)
                near(p, d) == (2 * p + d) \div (2 * d)
                cap(v) == IF v <= InvCap THEN v ELSE InvCap
                ry(nb) == r(nb, None, <<y>>)
            IN
            CASE m = "iadd" -> ry(b (+) o)
              [] m = "isub" -> ry(b (-) o)
              [] m = "min" -> ry([k \in both |-> IF b[k] <= o[k] THEN b[k] ELSE o[k]])
              [] m = "max" -> ry([k \in BagToSet(b) \cup BagToSet(o) |->
                                   IF CopiesIn(k, b) >= CopiesIn(k, o) THEN b[k] ELSE o[k]])
              [] m = "div" -> ry([k \in {k2 \in both : near(b[k2], o[k2]) > 0} |-> near(b[k], o[k])])
              [] m = "complement_intersect" -> ry(Keep(b, BagToSet(b) \ BagToSet(o)))
              [] m = "inversion" -> ry([v \in {cap(o[k]) : k \in BagToSet(o)} |->
                                         Cardinality({k \in BagToSet(o) : cap(o[k]) = v})])
              [] m = "copy" -> ry(o)

\* A new bag is empty, or holds the pairs it was made from.
Init ==
    /\ bag \in [Names -> {EmptyBag} \cup {Assigned(EmptyBag, ps) : ps \in Pairs}]
    /\ err = None
    /\ last = <<"init", CHOOSE x \in Names : TRUE, <<>>>>

Methods == {"set", "del", "incr", "decr", "add", "remove", "update", "imul",
            "constrain_values", "constrain_keys", "intersect", "iadd", "isub",
            "min", "max", "div", "complement_intersect", "inversion", "copy"}

Next == \E x \in Names, m \in Methods : Step(m, x, bag[x])

Spec == Init /\ [][Next]_<<bag, err, last>>
=============================================================================
