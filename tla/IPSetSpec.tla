----------------------------- MODULE IPSetSpec -----------------------------
(***************************************************************************)
(* What the methods of silk.IPSet promise in their docstrings, as the      *)
(* algebra of sets of addresses: update is the union "of itself and        *)
(* another", symmetric_difference holds "all elements that are in exactly  *)
(* one of the IPSets", remove raises KeyError for a non-member, pop removes *)
(* and returns an address, and the predicates answer the questions they    *)
(* name.  An argument stands for the addresses it holds, however it is     *)
(* given.                                                                  *)
(***************************************************************************)
EXTENDS Integers, Sequences, FiniteSets, SequencesExt

CONSTANTS Names, Addrs, Wilds, Lists, None

VARIABLES ipset, ipres, iplast

Args == [kind : {"ipset"}, name : Names] \cup [kind : {"wild"}, w : Wilds]
        \cup [kind : {"addr"}, a : Addrs]
        \cup [kind : {"iter"}, items : Lists, once : BOOLEAN]

\* The addresses an argument holds.
Members(g) ==
    CASE g.kind = "ipset" -> ipset[g.name]
      [] g.kind = "wild"  -> g.w
      [] g.kind = "addr"  -> {g.a}
      [] g.kind = "iter"  -> ToSet(g.items)

\* A truth value, an address or an exception returned; None where absent.
Ret(ans, addr, exc) == [ans |-> ans, addr |-> addr, exc |-> exc]
NoRet == Ret(None, None, None)
Raise(cond, exc) == IF cond THEN Ret(None, None, exc) ELSE NoRet
Answer(b) == Ret(b, None, None)

\* The method m with arguments a on the IPSet x leaves S in it and returns v.
Done(m, x, a, S, v) == iplast' = <<m, x, a>> /\ ipset' = [ipset EXCEPT ![x] = S] /\ ipres' = v

Init ==
    /\ ipset \in [Names -> {{}} \cup {ToSet(l) : l \in Lists}]
    /\ ipres = NoRet
    /\ iplast = <<"init", CHOOSE x \in Names : TRUE, <<>>>>

Next ==
    \E x \in Names :
        LET s == ipset[x] IN
        \/ \E a \in Addrs :
               \/ Done("add", x, <<a>>, s \cup {a}, NoRet)
               \/ Done("discard", x, <<a>>, s \ {a}, NoRet)
               \/ Done("remove", x, <<a>>, s \ {a}, Raise(a \notin s, "KeyError"))
        \/ \E lo, hi \in Addrs :
               Done("add_range", x, <<lo, hi>>, s \cup lo..hi, Raise(lo > hi, "ValueError"))
        \/ s = {} /\ Done("pop", x, <<>>, s, Raise(TRUE, "KeyError"))
        \/ \E a \in s : Done("pop", x, <<>>, s \ {a}, Ret(None, a, None))
        \/ Done("nonzero", x, <<>>, s, Answer(s # {}))
        \/ \E y \in Names : Done("eq", x, <<y>>, s, Answer(s = ipset[y]))
        \/ \E g \in Args :
               LET e == Members(g) IN
               \/ Done("update", x, <<g>>, s \cup e, NoRet)
               \/ Done("intersection_update", x, <<g>>, s \cap e, NoRet)
               \/ Done("difference_update", x, <<g>>, s \ e, NoRet)
               \/ Done("symmetric_difference_update", x, <<g>>, (s \ e) \cup (e \ s), NoRet)
               \/ Done("issubset", x, <<g>>, s, Answer(s \subseteq e))
               \/ Done("issuperset", x, <<g>>, s, Answer(e \subseteq s))
               \/ Done("isdisjoint", x, <<g>>, s, Answer(s \cap e = {}))
               \/ \E y \in Names :
                      LET t == ipset[y] IN
                      \/ Done("union", x, <<y, g>>, t \cup e, NoRet)
                      \/ Done("intersection", x, <<y, g>>, t \cap e, NoRet)
                      \/ Done("difference", x, <<y, g>>, t \ e, NoRet)
                      \/ Done("symmetric_difference", x, <<y, g>>, (t \ e) \cup (e \ t), NoRet)
        \/ \E y \in Names : Done("copy", x, <<y>>, ipset[y], NoRet)

Spec == Init /\ [][Next]_<<ipset, ipres, iplast>>
=============================================================================
