-------------------------------- MODULE Stats --------------------------------
(***************************************************************************)
(* crates/parquet-lab/src/stats.rs: what a column chunk's minimum and      *)
(* maximum mean, and when a reader may believe them.  A comparator is its  *)
(* name.  A value has a place in its order, a sequence of numbers that are *)
(* compared from the first on, or none.  The orders a reader would mistake *)
(* for a column's (Comparator::mistake) are only shown, and left out.       *)
(***************************************************************************)
EXTENDS Metadata

CONSTANTS
    FloatExponent,   \* how many bits of a FLOAT are its exponent: 8 of 32 in the program
    DoubleExponent   \* and of a DOUBLE: 11 of 64

ASSUME StatsAssumption ==
    /\ FloatExponent \in 1 .. 8 * IntBytes - 2
    /\ DoubleExponent \in 1 .. LongBits - 2

\* Faulty variant: an older writer's annotation is not known.
UnsignedByLogicalType(leaf) ==
    leaf.logical_type # <<>> /\ IsLogical(leaf.logical_type, "Integer") /\ ~leaf.logical_type[1].signed

Unsigned(leaf) ==
    \/ leaf.logical_type # <<>> /\ IsLogical(leaf.logical_type, "Integer") /\ ~leaf.logical_type[1].signed
    \/ leaf.converted_type \in {<<"UINT_8">>, <<"UINT_16">>, <<"UINT_32">>, <<"UINT_64">>}

IsDecimal(leaf) == IsLogical(leaf.logical_type, "Decimal") \/ leaf.converted_type = <<"DECIMAL">>

\* Comparator::for_leaf
ForLeaf(leaf) ==
    LET type == leaf.physical_type
    IN  CASE type = "BOOLEAN" -> "Bool"
          [] type = "INT32"   -> IF Unsigned(leaf) THEN "U32" ELSE "I32"
          [] type = "INT64"   -> IF Unsigned(leaf) THEN "U64" ELSE "I64"
          [] type = "FLOAT"   -> "F32"
          [] type = "DOUBLE"  -> "F64"
          [] type = "BYTE_ARRAY" -> IF IsDecimal(leaf) THEN "BigEndianSigned" ELSE "Bytes"
          [] type = "FIXED_LEN_BYTE_ARRAY" ->
                IF IsLogical(leaf.logical_type, "Float16") THEN "F16"
                ELSE IF leaf.converted_type = <<"INTERVAL">> THEN "None"
                ELSE IF IsDecimal(leaf) THEN "BigEndianSigned" ELSE "Bytes"
          [] OTHER -> "None"

\* Comparator::order
Order(comparator) ==
    CASE comparator \in {"U32", "U64", "Bytes"} -> "unsigned"
      [] comparator = "None"                    -> "undefined"
      [] OTHER                                  -> "signed"

\* A number of so many bytes, or nothing if the value has not as many.
Fixed_(v, width, Number_(_)) == IF Len(v) = width THEN << <<Number_(LittleEndian(v))>> >> ELSE <<>>

\* A float: its sign, and how far from zero its bits put it.  One beyond infinity is NaN.
FloatPlace(v, width, exponent) ==
    LET half      == 2 ^ (8 * width - 1)
        infinity  == (2 ^ exponent - 1) * 2 ^ (8 * width - 1 - exponent)
        bits      == LittleEndian(v)
        magnitude == bits % half
    IN  IF Len(v) # width THEN <<>>
        ELSE IF magnitude > infinity THEN <<>>
        ELSE << <<IF bits < half THEN magnitude ELSE -magnitude>> >>

\* be_twos_complement
BigEndian(v) == IF Len(v) \in 1 .. 16 THEN << <<Signed(LittleEndian(Reverse(v)), 8 * Len(v))>> >> ELSE <<>>

\* A value's place in an order.
PlaceOf(comparator, v) ==
    LET signed(width) == Fixed_(v, width, LAMBDA n : Signed(n, 8 * width))
    IN  CASE comparator = "Bool" -> IF v = <<>> THEN <<>> ELSE << <<v[1]>> >>
          [] comparator = "I32"  -> signed(IntBytes)
          [] comparator = "I64"  -> signed(LongBytes)
          [] comparator = "U32"  -> Fixed_(v, IntBytes, LAMBDA n : n)
          [] comparator = "U64"  -> Fixed_(v, LongBytes, LAMBDA n : n)
          [] comparator = "F16"  -> FloatPlace(v, 2, 5)
          [] comparator = "F32"  -> FloatPlace(v, IntBytes, FloatExponent)
          [] comparator = "F64"  -> FloatPlace(v, LongBytes, DoubleExponent)
          [] comparator = "BigEndianSigned" -> BigEndian(v)
          [] comparator = "Bytes"       -> <<v>>
          [] comparator = "None"        -> <<>>

\* One sequence of numbers before another: it is the shorter, or smaller where they first differ.
Before(a, b) ==
    \E n \in 0 .. Min({Len(a), Len(b)}) :
        /\ SubSeq(a, 1, n) = SubSeq(b, 1, n)
        /\ n < Len(b)
        /\ n = Len(a) \/ a[Min({n + 1, Len(a)})] < b[n + 1]

\* Comparator::compare
ComparePlaces(p, q) ==
    IF p = <<>> \/ q = <<>> THEN "none"
    ELSE IF Before(p[1], q[1]) THEN "less"
    ELSE IF Before(q[1], p[1]) THEN "greater" ELSE "equal"

Compare(comparator, a, b) == ComparePlaces(PlaceOf(comparator, a), PlaceOf(comparator, b))

HasPlace(comparator, v) == PlaceOf(comparator, v) # <<>>

\* Comparator::min_max: the first of the smallest and the first of the largest, of those that
\* have a place.
MinMax(comparator, values) ==
    LET placed == SelectSeq(values, LAMBDA v : HasPlace(comparator, v))
        best(way) == FoldLeft(LAMBDA found, v : IF Compare(comparator, v, found) = way THEN v ELSE found,
                              placed[1], placed)
    IN  IF placed = <<>> THEN <<>> ELSE <<[min |-> best("less"), max |-> best("greater")]>>

\* bounds: what a reader may compare values with, or nothing.
Usable(comparator, min, max) == HasPlace(comparator, min) /\ HasPlace(comparator, max)

BoundsOf(stats, comparator, type_order) ==
    LET newer  == stats.min_value # <<>> /\ stats.max_value # <<>>
        older  == stats.min # <<>> /\ stats.max # <<>>
        signed == Order(comparator) = "signed" /\ comparator # "BigEndianSigned"
    IN  IF Order(comparator) = "undefined" THEN <<>>
        ELSE IF newer
             THEN IF type_order /\ Usable(comparator, stats.min_value[1], stats.max_value[1])
                  THEN <<[min |-> stats.min_value[1], max |-> stats.max_value[1],
                          min_exact |-> UnwrapOr(stats.is_min_value_exact, TRUE),
                          max_exact |-> UnwrapOr(stats.is_max_value_exact, TRUE)]>>
                  ELSE <<>>
        ELSE IF older /\ signed /\ Usable(comparator, stats.min[1], stats.max[1])
             THEN <<[min |-> stats.min[1], max |-> stats.max[1], min_exact |-> TRUE, max_exact |-> TRUE]>>
             ELSE <<>>
=============================================================================
