------------------------------- MODULE IPSet -------------------------------
(***************************************************************************)
(* silk.IPSet, the Python layer of src/src/pysilk/python/__init__.py over  *)
(* the C type pysilk.IPSetBase.                                            *)
(*                                                                         *)
(* IPSetBase is not in this repository.  Its primitives are taken as set   *)
(* operations on addresses: add, discard, update, intersection_update,     *)
(* difference_update and isdisjoint with an IPSet or an IPWildcard, and    *)
(* iteration in ascending address order.  An address is an integer, an    *)
(* IPWildcard (or a wildcard string) the set of addresses it matches.      *)
(*                                                                         *)
(* The Python methods compose those primitives, and accept any iterable of *)
(* addresses as argument.  An iterable is a list, which can be iterated    *)
(* again, or a generator, which yields its items once: a second iteration  *)
(* of it yields nothing.  Each method is one step of the program.          *)
(***************************************************************************)
EXTENDS Integers, Sequences, FiniteSets, SequencesExt

CONSTANTS Names,    \* the IPSet variables of the program
          Addrs,    \* addresses, integers
          Wilds,    \* the address sets of the IPWildcards the program uses
          Lists,    \* address sequences iterables yield
          OneShot,  \* TRUE: iterables may be generators
          None      \* Python's None

ASSUME None \notin Int

VARIABLES ipset,    \* [Names -> set of addresses]
          ipres,    \* the value the last call returned, or an exception
          iplast    \* <<method, receiver, arguments>> of the last call

ipvars == <<ipset, ipres, iplast>>

\* The arguments a method is called with: another IPSet of the program,
\* an IPWildcard, an address, or an iterable of addresses.
Args == [kind : {"ipset"}, name : Names] \cup [kind : {"wild"}, w : Wilds]
        \cup [kind : {"addr"}, a : Addrs]
        \cup [kind : {"iter"}, items : Lists, once : OneShot]

\* The addresses one iteration over, or one C call with, the argument g
\* sees, and the argument after it: a generator is then exhausted.
Elems(g) ==
    CASE g.kind = "ipset" -> ipset[g.name]
      [] g.kind \in {"wild", "set"} -> g.w
      [] g.kind = "addr"  -> {g.a}
      [] g.kind = "iter"  -> ToSet(g.items)
Used(g) == IF g.kind = "iter" /\ g.once THEN [g EXCEPT !.items = <<>>] ELSE g

\* An IPSet value the method itself made, passed on as an argument.
SetArg(S) == [kind |-> "set", w |-> S]

\* What a call returns: a truth value, an address, or the exception it
\* raises, None where it has none.
Ret(ans, addr, exc) == [ans |-> ans, addr |-> addr, exc |-> exc]
NoRet == Ret(None, None, None)

\* A result: the receiver's new contents, the argument after the call and
\* what the call returns.
Out(s, g, v) == [s |-> s, g |-> g, v |-> v]

\* update(arg): IPSetBase.update with an IPSet, IPSetBase.add with a
\* wildcard or an address, each item of an iterable added in turn.
Update(s, g) == Out(s \cup Elems(g), Used(g), NoRet)

\* add(addr): IPSetBase.add of one address.
AddAddr(s, a) == Update(s, [kind |-> "addr", a |-> a])

\* intersection_update(arg): any other argument is first made an IPSet.
IntersectionUpdate(s, g) == Out(s \cap Elems(g), Used(g), NoRet)

\* difference_update(arg): IPSetBase.difference_update with an IPSet,
\* IPSetBase.discard with a wildcard, an address or each item.
DifferenceUpdate(s, g) == Out(s \ Elems(g), Used(g), NoRet)

\* discard(addr): IPSetBase.discard of one address.
Discard(s, a) == DifferenceUpdate(s, [kind |-> "addr", a |-> a])

\* copy(): IPSet().update(self).
Copy(s) == s

\* union, intersection, difference: self.copy() updated in place.
Union(s, g) == Update(Copy(s), g)
Intersection(s, g) == IntersectionUpdate(Copy(s), g)
Difference(s, g) == DifferenceUpdate(Copy(s), g)

\* symmetric_difference(arg): the intersection, then the union, then the
\* union without the intersection.  Both iterate arg.
SymmetricDifference(s, g) ==
    LET i == Intersection(s, g)
        c == Union(s, i.g)
    IN  Out(DifferenceUpdate(c.s, SetArg(i.s)).s, c.g, NoRet)

\* symmetric_difference_update(arg): the intersection, self.update(arg),
\* then self.difference_update(intersection).
SymmetricDifferenceUpdate(s, g) ==
    LET i == Intersection(s, g)
        u == Update(s, i.g)
    IN  Out(DifferenceUpdate(u.s, SetArg(i.s)).s, u.g, NoRet)

\* __nonzero__: whether iteration yields a first address.
NonZero(s) == s # {}

\* issubset(arg): not self.difference(arg).
IsSubset(s, g) == ~NonZero(Difference(s, g).s)

\* Mutant: the difference taken the other way round.
IsSupersetSwapped(s, g) == ~NonZero(Difference(s, g).s)

\* issuperset(arg): not IPSet(arg).difference(self).
IsSuperset(s, g) == ~NonZero(Difference(Update({}, g).s, SetArg(s)).s)

\* isdisjoint(arg): IPSetBase.isdisjoint with an IPSet or a wildcard,
\* otherwise `item in self` for each item until one is.
IsDisjoint(s, g) == s \cap Elems(g) = {}

\* __eq__: self <= arg and self >= arg, each only with an IPSet.
Eq(s, y) == IsSubset(s, [kind |-> "ipset", name |-> y]) /\ IsSuperset(s, [kind |-> "ipset", name |-> y])

\* Mutant: the range taken one past its end.
AddRangePastEnd(s, lo, hi) ==
    IF lo > hi THEN Out(s, None, Ret(None, None, "ValueError")) ELSE Out(s \cup lo..(hi + 1), None, NoRet)

\* add_range(start, end): ValueError when start > end.
AddRange(s, lo, hi) ==
    IF lo > hi THEN Out(s, None, Ret(None, None, "ValueError")) ELSE Out(s \cup lo..hi, None, NoRet)

\* remove(addr): KeyError unless addr is in self, then discard(addr).
RemoveAddr(s, a) == IF a \notin s THEN Out(s, None, Ret(None, None, "KeyError")) ELSE Out(s \ {a}, None, NoRet)

\* pop(): discard and return the first address iteration yields, or
\* KeyError for an empty set.
Pop(s) ==
    IF s = {} THEN Out(s, None, Ret(None, None, "KeyError"))
    ELSE LET a == CHOOSE a \in s : \A b \in s : a <= b IN Out(s \ {a}, None, Ret(None, a, None))

----------------------------------------------------------------------------
(* The program: any method on any IPSet with arguments from the sets      *)
(* above.  x = y.method(arg) stores a new set in x.                        *)

\* IPSet() or IPSet(iterable): empty, or update(iterable).
Init ==
    /\ ipset \in [Names -> {{}} \cup {ToSet(l) : l \in Lists}]
    /\ ipres = NoRet
    /\ iplast = <<"init", CHOOSE x \in Names : TRUE, <<>>>>

\* The call m with arguments a on the IPSet named x, with result r.
IPCall(m, x, a, r) ==
    /\ iplast' = <<m, x, a>>
    /\ ipset' = [ipset EXCEPT ![x] = r.s]
    /\ ipres' = r.v

IPNext ==
    \E x \in Names :
        \/ \E a \in Addrs :
               \/ IPCall("add", x, <<a>>, AddAddr(ipset[x], a))
               \/ IPCall("discard", x, <<a>>, Discard(ipset[x], a))
               \/ IPCall("remove", x, <<a>>, RemoveAddr(ipset[x], a))
        \/ \E lo, hi \in Addrs : IPCall("add_range", x, <<lo, hi>>, AddRange(ipset[x], lo, hi))
        \/ IPCall("pop", x, <<>>, Pop(ipset[x]))
        \/ IPCall("nonzero", x, <<>>, Out(ipset[x], None, Ret(NonZero(ipset[x]), None, None)))
        \/ \E y \in Names : IPCall("eq", x, <<y>>, Out(ipset[x], None, Ret(Eq(ipset[x], y), None, None)))
        \/ \E g \in Args :
               \/ IPCall("update", x, <<g>>, Update(ipset[x], g))
               \/ IPCall("intersection_update", x, <<g>>, IntersectionUpdate(ipset[x], g))
               \/ IPCall("difference_update", x, <<g>>, DifferenceUpdate(ipset[x], g))
               \/ IPCall("symmetric_difference_update", x, <<g>>, SymmetricDifferenceUpdate(ipset[x], g))
               \/ IPCall("issubset", x, <<g>>, Out(ipset[x], None, Ret(IsSubset(ipset[x], g), None, None)))
               \/ IPCall("issuperset", x, <<g>>, Out(ipset[x], None, Ret(IsSuperset(ipset[x], g), None, None)))
               \/ g.kind # "addr" /\ IPCall("isdisjoint", x, <<g>>, Out(ipset[x], None, Ret(IsDisjoint(ipset[x], g), None, None)))
               \/ \E y \in Names :
                      \/ IPCall("union", x, <<y, g>>, Union(ipset[y], g))
                      \/ IPCall("intersection", x, <<y, g>>, Intersection(ipset[y], g))
                      \/ IPCall("difference", x, <<y, g>>, Difference(ipset[y], g))
                      \/ IPCall("symmetric_difference", x, <<y, g>>, SymmetricDifference(ipset[y], g))
        \/ \E y \in Names : IPCall("copy", x, <<y>>, Out(Copy(ipset[y]), None, NoRet))

IPSpec == Init /\ [][IPNext]_ipvars

----------------------------------------------------------------------------
IPTypeOK ==
    /\ \A x \in Names : ipset[x] \subseteq Addrs
    /\ ipres.ans \in BOOLEAN \cup {None} /\ ipres.addr \in Addrs \cup {None}
    /\ ipres.exc \in {None, "KeyError", "ValueError"}
=============================================================================
