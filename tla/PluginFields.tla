---------------------------- MODULE PluginFields ----------------------------
(***************************************************************************)
(* The fields a PySiLK plug-in registers through the helpers of            *)
(* src/src/pysilk/python/plugin.py, as the tools that call them use them:  *)
(* rwuniq and rwstats feed records into aggregate bins (add_rec_to_bin),   *)
(* merge partial bins (bin_merge), order them (bin_compare) and print a    *)
(* key or a value from its bin (bin_to_text); rwsort compares key bins     *)
(* byte by byte.                                                           *)
(*                                                                         *)
(* The state is the field one plug-in registers: an aggregator            *)
(* (register_int_aggregator) with two partial bins, an enumeration field   *)
(* (register_enum_field) with the bins it has handed out, or an integer    *)
(* field (register_int_field) with the bins rwsort has been given.  The    *)
(* conv objects of different fields share no state, so a behaviour         *)
(* exercises one of them.                                                  *)
(***************************************************************************)
EXTENDS PluginCodec, FiniteSets

CONSTANTS Kinds,      \* the aggregators: "sum", "max", "min"
          MaxVals,    \* the `max` arguments an aggregator is registered with
          MaxRecs,    \* records fed into one partial bin
          Ordering,   \* the `ordering` given to register_enum_field
          Keys,       \* the keys the enum field's function returns
          Ranges      \* <<min, max>> pairs given to register_int_field

ASSUME /\ Kinds \subseteq {"sum", "max", "min"}
       /\ MaxVals \subseteq Nat \ {0} /\ MaxRecs \in Nat
       /\ Ranges \subseteq Int \X Int

Parts == {1, 2}

VARIABLES reg,      \* the helper the plug-in called: "agg", "enum" or "int"
          kind,     \* the aggregator registered
          maxval,   \* its `max`
          part,     \* the result in each partial bin
          vals,     \* the values fed into each partial bin
          merged,   \* <<the result of bin_merge>>, or <<>> before it
          est,      \* the enum_conv's map, list and nextindex
          ebins,    \* the <<key, result>> pairs rec_to_bin has returned
          field,    \* the <<min, max>> of the int field
          ibins     \* the <<value, result>> pairs its rec_to_bin has returned

vars == <<reg, kind, maxval, part, vals, merged, est, ebins, field, ibins>>

\* The values the aggregated function returns: within 0..max, the range
\* the caller declares by passing `max`.
Inputs(m) == {1, m \div 2, m}

\* The values of the int field's records: both ends of the range, their
\* neighbours and zero when the range holds it.
FieldInputs(rg) == {rg[1], rg[1] + 1, rg[2] - 1, rg[2], 0} \cap rg[1]..rg[2]

Init ==
    /\ reg \in {"agg", "enum", "int"}
    \* The arguments of the helpers the plug-in did not call are fixed.
    /\ kind \in IF reg = "agg" THEN Kinds ELSE {"sum"}
    /\ maxval \in IF reg = "agg" THEN MaxVals ELSE {Max(MaxVals)}
    /\ part = [p \in Parts |-> AggInitial(kind, maxval)]
    /\ vals = [p \in Parts |-> <<>>]
    /\ merged = <<>>
    /\ est = EnumInit(Ordering)
    /\ ebins = {}
    /\ field \in IF reg = "int" THEN Ranges ELSE {CHOOSE rg \in Ranges : TRUE}
    /\ ibins = {}

\* add_rec_to_bin on partial bin p.  An exception ends the tool, so a
\* raised bin takes no more records.
AddRec(p, v) ==
    /\ reg = "agg" /\ merged = <<>> /\ part[p].ok /\ Len(vals[p]) < MaxRecs
    /\ part' = [part EXCEPT ![p] = AddRecToBin(kind, maxval, v, part[p].v)]
    /\ vals' = [vals EXCEPT ![p] = Append(@, v)]
    /\ UNCHANGED <<reg, kind, maxval, merged, est, ebins, field, ibins>>

\* bin_merge of the two partial bins.
Merge ==
    /\ reg = "agg" /\ merged = <<>> /\ part[1].ok /\ part[2].ok
    /\ merged' = <<BinMerge(kind, maxval, part[1].v, part[2].v)>>
    /\ UNCHANGED <<reg, kind, maxval, part, vals, est, ebins, field, ibins>>

\* rec_to_bin of the enum field for a record whose function returns key.
EnumRec(key) ==
    LET r == EnumRecToBin(est, key)
    IN  /\ reg = "enum" /\ <<key, r.bin>> \notin ebins
        /\ est' = r.st
        /\ ebins' = ebins \cup {<<key, r.bin>>}
        /\ UNCHANGED <<reg, kind, maxval, part, vals, merged, field, ibins>>

\* rec_to_bin of the int field for a record whose function returns v.
IntRec(v) ==
    /\ reg = "int"
    /\ ibins' = ibins \cup {<<v, IntRecToBin(field[1], field[2], v)>>}
    /\ UNCHANGED <<reg, kind, maxval, part, vals, merged, est, ebins, field>>

Next ==
    \/ \E p \in Parts : \E v \in Inputs(maxval) : AddRec(p, v)
    \/ Merge
    \/ \E key \in Keys : EnumRec(key)
    \/ \E v \in FieldInputs(field) \ {x[1] : x \in ibins} : IntRec(v)

Spec == Init /\ [][Next]_vars

----------------------------------------------------------------------------
(* Reference definitions.                                                  *)

\* The aggregate of a sequence of values from the initial value, with no
\* bound on the result.
AggOf(k, m, s) ==
    LET init == IF k = "min" THEN m ELSE 0
        f(a, b) == CASE k = "sum" -> a + b
                     [] k = "max" -> IF a >= b THEN a ELSE b
                     [] k = "min" -> IF a <= b THEN a ELSE b
    IN  FoldLeft(f, init, s)

\* memcmp order of two byte strings of the same length.
RECURSIVE LexLess(_, _)
LexLess(s, t) ==
    /\ s # <<>>
    /\ \/ Head(s) < Head(t)
       \/ Head(s) = Head(t) /\ LexLess(Tail(s), Tail(t))

----------------------------------------------------------------------------
TypeOK ==
    /\ kind \in Kinds /\ maxval \in MaxVals
    /\ \A p \in Parts : part[p].ok \in BOOLEAN /\ Len(vals[p]) <= MaxRecs
    /\ Len(merged) <= 1
    /\ reg \in {"agg", "enum", "int"} /\ field \in Ranges
    /\ est.next = Len(est.list) /\ DOMAIN est.map = Range(est.list)

\* Every partial bin, and the merged bin, decodes to the aggregate of the
\* values that went into it, and bin_compare orders the partial bins by
\* those aggregates; the only exception add_rec_to_bin or bin_merge raise
\* is the sum aggregator's OverflowError when the sum passes `max`.
AggFaithful ==
    LET faithful(res, s) ==
            IF res.ok THEN BinToInt(res.v, AggBytes(maxval)) = Ok(AggOf(kind, maxval, s))
            ELSE kind = "sum" /\ AggOf(kind, maxval, s) > maxval
                 /\ res.v = "OverflowError"
        a1 == AggOf(kind, maxval, vals[1])
        a2 == AggOf(kind, maxval, vals[2])
    IN  /\ \A p \in Parts : faithful(part[p], vals[p])
        /\ merged # <<>> => faithful(merged[1], vals[1] \o vals[2])
        /\ part[1].ok /\ part[2].ok =>
             BinCompare(maxval, part[1].v, part[2].v)
               = Ok((IF a1 > a2 THEN 1 ELSE 0) - (IF a1 < a2 THEN 1 ELSE 0))

\* Every bin the enum field's rec_to_bin has returned, read back by
\* bin_to_text after any number of later keys, prints the key it was made
\* for; two keys never share a bin; and "Too many items" is raised only once
\* all 2^32 indexes are taken.
EnumFaithful ==
    \A <<k, b>> \in ebins :
        /\ b.ok => EnumBinToText(est, b.v) = Ok(k)
        /\ ~b.ok => est.next = B ^ 4
        /\ \A <<k2, b2>> \in ebins : b.ok /\ b2.ok /\ k # k2 => b.v # b2.v

\* The widths: every width struct_map serves, the byte-by-byte widths
\* between them and one past 16.
Widths == 1..17
Samples(n) == {0, 1, B ^ (n - 1), B ^ n - 1}

\* int_to_bin and bin_to_int are inverse on every value that fits the width.
IntRoundTrip ==
    \A n \in Widths : \A v \in Samples(n) :
        LET b == IntToBin(v, n)
        IN  b.ok /\ Len(b.v) = n /\ BinToInt(b.v, n) = Ok(v)

\* Every value of the int field's range gets a bin, and the byte order
\* of the bins, the order rwsort sorts by, is the order of the values.
IntFieldOrder ==
    \A <<v, b>> \in ibins :
        /\ b.ok
        /\ \A <<w, c>> \in ibins : v < w => c.ok /\ LexLess(b.v, c.v)

\* bin_to_text of an int field's bin prints the value the record had, as
\* rec_to_text does.
IntFieldText ==
    \A <<v, b>> \in ibins :
        b.ok => IntBinToText(field[1], field[2], b.v) = Ok(v)
=============================================================================
