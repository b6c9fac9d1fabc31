---------------------------- MODULE PluginCodec ----------------------------
(***************************************************************************)
(* The integer codecs of the PySiLK plug-in support,                       *)
(* src/src/pysilk/python/plugin.py: how a field's value is packed into the *)
(* fixed-width binary form that rwsort, rwuniq and rwstats compare and     *)
(* aggregate, and how it is turned back into text.                         *)
(*                                                                         *)
(* A byte string is a sequence of digits in base B, most significant       *)
(* first (the '!' big-endian struct formats).  The code's base is 256;     *)
(* the model keeps B a constant so that every width the code treats        *)
(* differently (1, 2, 4 and 8 bytes, the widths padded from a larger       *)
(* format, 16 bytes and the widths built byte by byte) can be enumerated   *)
(* within TLC's integers.  A Python exception is a result of its own.      *)
(* PY3 selects the interpreter: Int2String and String2Int behave           *)
(* differently under Python 2 and Python 3.                                *)
(***************************************************************************)
EXTENDS Integers, Sequences, SequencesExt, TLC

CONSTANTS B,     \* values per byte (256 in the code)
          PY3    \* whether the interpreter is Python 3

ASSUME B \in Nat /\ B >= 2 /\ PY3 \in BOOLEAN

\* A result: a value, or the exception raised.
Ok(v) == [ok |-> TRUE, v |-> v]
Raise(e) == [ok |-> FALSE, v |-> e]

\* The big-endian digits of num in n bytes.
Digits(num, n) == [i \in 1..n |-> (num \div B ^ (n - i)) % B]

\* The value of a big-endian byte string: (x << 8) | y over its bytes.
Value(s) == FoldLeft(LAMBDA a, d : a * B + d, 0, s)

----------------------------------------------------------------------------
(* struct.Struct('!B'), '!H', '!L', '!Q' and the converters built on them  *)
(* by setup_struct_map (lines 238-264).                                    *)

\* Struct(fmt).pack / unpack for a format of `size` bytes.
StructPack(size, num) ==
    IF num \in 0..B ^ size - 1 THEN Ok(Digits(num, size))
    ELSE Raise("struct.error")
StructUnpack(size, s) ==
    IF Len(s) = size THEN Ok(Value(s)) ELSE Raise("struct.error")

\* A converter of struct_map: a Struct, a convert_from_larger over the
\* Struct of `fmt` bytes for `size` bytes, or convert_128.
Conv(kind, fmt, size) == [kind |-> kind, fmt |-> fmt, size |-> size]

\* Mutant: the slice taken from the front, [size:] for [-size:].
LargerPackSign(c, num) ==
    LET p == StructPack(c.fmt, num)
    IN  IF p.ok THEN Ok(SubSeq(p.v, c.size + 1, c.fmt)) ELSE p

\* convert_from_larger.pack keeps the last `size` bytes of the larger
\* packing; unpack pads with zero bytes in front.
LargerPack(c, num) ==
    LET p == StructPack(c.fmt, num)
    IN  IF p.ok THEN Ok(SubSeq(p.v, c.fmt - c.size + 1, c.fmt)) ELSE p
LargerUnpack(c, s) ==
    StructUnpack(c.fmt, [i \in 1..c.fmt - c.size |-> 0] \o s)

\* convert_128 packs num >> 64 and num & 0xffffffffffffffff as '!2Q'.
C128Pack(num) ==
    LET hi == StructPack(8, num \div B ^ 8)
        lo == StructPack(8, num % B ^ 8)
    IN  IF hi.ok /\ lo.ok THEN Ok(hi.v \o lo.v)
        ELSE Raise("struct.error")
C128Unpack(s) ==
    IF Len(s) = 16
    THEN Ok(Value(SubSeq(s, 1, 8)) * B ^ 8 + Value(SubSeq(s, 9, 16)))
    ELSE Raise("struct.error")

ConvPack(c, num) ==
    CASE c.kind = "struct" -> StructPack(c.size, num)
      [] c.kind = "larger" -> LargerPack(c, num)
      [] c.kind = "c128"   -> C128Pack(num)
ConvUnpack(c, s) ==
    CASE c.kind = "struct" -> StructUnpack(c.size, s)
      [] c.kind = "larger" -> LargerUnpack(c, s)
      [] c.kind = "c128"   -> C128Unpack(s)

\* The loop of setup_struct_map over struct_fmts: each format of size f
\* serves f, and the sizes from `current` up to f - 1 are padded from it.
RECURSIVE Setup(_, _, _)
Setup(fmts, current, map) ==
    IF fmts = <<>> THEN map
    ELSE LET f == Head(fmts)
         IN  Setup(Tail(fmts), f + 1,
                   [i \in current..f - 1 |-> Conv("larger", f, i)]
                       @@ (f :> Conv("struct", f, f)) @@ map)

\* struct_map once setup_struct_map has run.
StructMap ==
    LET m == Setup(<<1, 2, 4, 8>>, 1, <<>>)
    IN  IF 16 \notin DOMAIN m /\ m[8].kind = "struct"
        THEN (16 :> Conv("c128", 8, 16)) @@ m ELSE m

----------------------------------------------------------------------------
(* The widths struct_map lacks (lines 266-303).                            *)

\* Int2String, the Python >= 2.6 version: the bytes of num are stored from
\* the last index down, while n is not zero.  A negative index wraps
\* around; one below -nbytes raises IndexError.  Under Python 3 storing
\* chr(...) into a bytearray raises TypeError.
RECURSIVE Int2StringFrom(_, _, _, _)
Int2StringFrom(n, count, nbytes, s) ==
    IF n = 0 THEN Ok(s)
    ELSE IF PY3 THEN Raise("TypeError")
    ELSE IF count >= nbytes \/ count < -nbytes THEN Raise("IndexError")
    ELSE LET i == IF count >= 0 THEN count + 1 ELSE nbytes + count + 1
         IN  Int2StringFrom(n \div B, count - 1, nbytes, [s EXCEPT ![i] = n % B])

Int2String(num, nbytes) ==
    Int2StringFrom(num, nbytes - 1, nbytes, [i \in 1..nbytes |-> 0])

\* String2Int: reduce((x << 8) | y, map(ord, str)).  reduce of an empty
\* string raises TypeError; under Python 3 ord() of a byte does too.
String2Int(s) ==
    IF PY3 \/ s = <<>> THEN Raise("TypeError") ELSE Ok(Value(s))

IntToBin(num, nbytes) ==
    IF nbytes \in DOMAIN StructMap THEN ConvPack(StructMap[nbytes], num)
    ELSE Int2String(num, nbytes)

BinToInt(s, nbytes) ==
    IF nbytes \in DOMAIN StructMap THEN ConvUnpack(StructMap[nbytes], s)
    ELSE String2Int(s)

\* bytes_for_val: while n: n >>= 8; count += 1.  A negative num never
\* reaches zero and the loop runs forever.
RECURSIVE ShiftCount(_)
ShiftCount(n) == IF n = 0 THEN 0 ELSE 1 + ShiftCount(n \div B)

BytesForVal(num) == IF num < 0 THEN Raise("hang") ELSE Ok(ShiftCount(num))

----------------------------------------------------------------------------
(* int_conv and register_int_field (lines 358-384).  A value's text is     *)
(* str() of it, modelled by the integer it prints.                         *)

\* register_int_field: bin_bytes is bytes_for_val(max - min + 1).
IntConvBytes(lo, hi) == BytesForVal(hi - lo + 1).v

\* Mutant: the offset by min left out.
IntRecToBinNoOffset(lo, hi, v) == IntToBin(v, IntConvBytes(lo, hi))

\* rec_to_bin stores fn(rec) - min.
IntRecToBin(lo, hi, v) == IntToBin(v - lo, IntConvBytes(lo, hi))

\* bin_to_text prints the integer stored in the bin.
IntBinToText(lo, hi, s) == BinToInt(s, IntConvBytes(lo, hi))

----------------------------------------------------------------------------
(* enum_conv (lines 386-424).  Its state is the record [map, list, next];  *)
(* EnumRecToBin returns the new state and the bin (or the exception).      *)

\* __init__: each item of `ordering` gets the next index.
EnumInit(ordering) ==
    LET step(st, item) ==
            [map |-> (item :> st.next) @@ st.map,
             list |-> Append(st.list, item), next |-> st.next + 1]
    IN  FoldLeft(step, [map |-> <<>>, list |-> <<>>, next |-> 0], ordering)

\* Mutant: nextindex not advanced for a new key.
EnumRecToBinNoIncr(st, key) ==
    IF key \in DOMAIN st.map
    THEN [st |-> st, bin |-> IntToBin(st.map[key], 4)]
    ELSE IF st.next > B ^ 4 - 1
    THEN [st |-> st, bin |-> Raise("RuntimeError")]
    ELSE [st |-> [map |-> (key :> st.next) @@ st.map,
                  list |-> Append(st.list, key), next |-> st.next],
          bin |-> IntToBin(st.next, 4)]

\* Mutant: the limit tested with >= 0xffffffff.
EnumRecToBinEarlyLimit(st, key) ==
    IF key \in DOMAIN st.map
    THEN [st |-> st, bin |-> IntToBin(st.map[key], 4)]
    ELSE IF st.next >= B ^ 4 - 1
    THEN [st |-> st, bin |-> Raise("RuntimeError")]
    ELSE [st |-> [map |-> (key :> st.next) @@ st.map,
                  list |-> Append(st.list, key), next |-> st.next + 1],
          bin |-> IntToBin(st.next, 4)]

\* rec_to_bin: a key not yet mapped gets the next index, unless the next
\* index would not fit the 4-byte bin ("Too many items").
EnumRecToBin(st, key) ==
    IF key \in DOMAIN st.map
    THEN [st |-> st, bin |-> IntToBin(st.map[key], 4)]
    ELSE IF st.next > B ^ 4 - 1
    THEN [st |-> st, bin |-> Raise("RuntimeError")]
    ELSE [st |-> [map |-> (key :> st.next) @@ st.map,
                  list |-> Append(st.list, key), next |-> st.next + 1],
          bin |-> IntToBin(st.next, 4)]

\* bin_to_text: self.list[bin_to_int(bin, 4)].
EnumBinToText(st, s) ==
    LET i == BinToInt(s, 4)
    IN  IF i.ok /\ i.v < Len(st.list) THEN Ok(st.list[i.v + 1])
        ELSE Raise("IndexError")

----------------------------------------------------------------------------
(* int_agg_conv and register_int_aggregator (lines 426-503).               *)

AggBytes(maxval) == BytesForVal(maxval).v

\* Mutant: sum without the overflow check.
AggregateNoCheck(kind, maxval, a, b) ==
    CASE kind = "sum" -> Ok(a + b)
      [] kind = "max" -> Ok(IF a >= b THEN a ELSE b)
      [] kind = "min" -> Ok(IF a <= b THEN a ELSE b)

\* The aggregate: sum (raising OverflowError past maxval), max or min.
Aggregate(kind, maxval, a, b) ==
    CASE kind = "sum" ->
            IF a + b > maxval THEN Raise("OverflowError") ELSE Ok(a + b)
      [] kind = "max" -> Ok(IF a >= b THEN a ELSE b)
      [] kind = "min" -> Ok(IF a <= b THEN a ELSE b)

\* Decode the bins, aggregate, encode; the first exception wins.
AggCombine(kind, maxval, s, v) ==
    LET n == BinToInt(s, AggBytes(maxval))
        r == IF n.ok THEN Aggregate(kind, maxval, n.v, v) ELSE n
    IN  IF r.ok THEN IntToBin(r.v, AggBytes(maxval)) ELSE r

\* add_rec_to_bin: the record's value into the bin.
AddRecToBin(kind, maxval, v, s) == AggCombine(kind, maxval, s, v)

\* bin_compare: (n1 > n2) - (n1 < n2) over the decoded bins.
BinCompare(maxval, s1, s2) ==
    LET n1 == BinToInt(s1, AggBytes(maxval))
        n2 == BinToInt(s2, AggBytes(maxval))
    IN  CASE ~n1.ok -> n1
          [] ~n2.ok -> n2
          [] OTHER  -> Ok((IF n1.v > n2.v THEN 1 ELSE 0)
                          - (IF n1.v < n2.v THEN 1 ELSE 0))

\* bin_merge: two bins into one.
BinMerge(kind, maxval, s1, s2) ==
    LET n2 == BinToInt(s2, AggBytes(maxval))
    IN  IF n2.ok THEN AggCombine(kind, maxval, s1, n2.v) ELSE n2

\* The initial bin register_int_aggregator passes: bin_initial(), or
\* bin_initial(max=True) for the min aggregator.
AggInitial(kind, maxval) ==
    IntToBin(IF kind = "min" THEN maxval ELSE 0, AggBytes(maxval))
=============================================================================
