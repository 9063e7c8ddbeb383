------------------------------- MODULE Layout -------------------------------
(***************************************************************************)
(* The assembly layout (assembly.rs): typed fields of a fixed-size byte    *)
(* image, checked once when the configuration is read and then extracted   *)
(* and inserted without a bound in sight.  A byte has Bits bits; a usint   *)
(* is one byte, a uint two, least significant first.                       *)
(***************************************************************************)
EXTENDS Integers, Sequences

Bits == 2                  \* 8 in the code
Byte == 0..(2^Bits - 1)
Full == 2^Bits - 1         \* 0xFF, how a BOOL is written

\* A field's bit is a function with at most one value.
FieldSpecs(offsets, bits, counts) ==
    [offset : offsets, ty : {"bool", "usint", "uint", "string"}, bit : {<<>>} \cup {<<b>> : b \in bits}, count : counts]

element_size(ty) == CASE ty \in {"bool", "usint"} -> 1 [] ty = "uint" -> 2 [] OTHER -> 0   \* 0: none

\* AssemblyLayout::new accepts the fields: each elementary, not empty, its bit a bit of one BOOL, and
\* inside the image.
LayoutNew(fields, data_size) ==
    \A i \in 1..Len(fields) :
        LET f == fields[i]
        IN  /\ f.count > 0
            /\ element_size(f.ty) > 0
            /\ f.bit # <<>> => f.ty = "bool" /\ f.bit[1] < Bits /\ f.count = 1
            /\ f.offset + element_size(f.ty) * f.count <= data_size

(***************************************************************************)
(* Reading.                                                                *)
(***************************************************************************)
BitOf(byte, b) == (byte \div 2^b) % 2

\* One element that starts at byte p, counted from zero.
Element(data, p, ty) == IF ty = "bool" THEN (IF data[p + 1] = 0 THEN 0 ELSE 1)
                        ELSE IF ty = "usint" THEN data[p + 1]
                        ELSE data[p + 1] + data[p + 2] * 2^Bits

extract_field(f, data) ==
    IF f.bit # <<>> THEN <<BitOf(data[f.offset + 1], f.bit[1])>>
    ELSE [i \in 1..f.count |-> Element(data, f.offset + (i - 1) * element_size(f.ty), f.ty)]

(***************************************************************************)
(* Writing.                                                                *)
(***************************************************************************)
encode_value(v, ty) == CASE ty = "bool" -> <<IF v = 0 THEN 0 ELSE Full>>
                         [] ty = "usint" -> <<v>>
                         [] OTHER -> <<v % 2^Bits, v \div 2^Bits>>

\* Variant: the byte of a packed BOOL is written whole.
insert_field_byte(f, ty, vs, buf) ==
    IF f.bit # <<>> THEN [buf EXCEPT ![f.offset + 1] = vs[1] * 2^f.bit[1]] ELSE buf

\* insert_field of a value of type ty: refused unless type and count are the field's, otherwise only the
\* field's own bits change.
insert_field(f, ty, vs, buf) ==
    IF f.bit # <<>>
    THEN IF ty # "bool" \/ Len(vs) # 1 THEN buf
         ELSE [buf EXCEPT ![f.offset + 1] = @ + (vs[1] - BitOf(@, f.bit[1])) * 2^f.bit[1]]
    ELSE IF ty # f.ty \/ Len(vs) # f.count THEN buf
    ELSE LET size == element_size(f.ty)
         IN  [p \in 1..Len(buf) |->
                 IF p <= f.offset \/ p > f.offset + size * f.count THEN buf[p]
                 ELSE LET k == p - f.offset - 1 IN encode_value(vs[(k \div size) + 1], f.ty)[(k % size) + 1]]

(***************************************************************************)
(* What the layout promises.                                               *)
(***************************************************************************)
\* The bits of the image that belong to a field, as <<byte, bit>>.
Own(f) == IF f.bit # <<>> THEN {<<f.offset + 1, f.bit[1]>>}
          ELSE ((f.offset + 1)..(f.offset + element_size(f.ty) * f.count)) \X (0..(Bits - 1))

FieldValues(f) == LET range == CASE f.ty = "bool" -> 0..1 [] f.ty = "usint" -> Byte [] OTHER -> 0..(2^(2 * Bits) - 1)
                  IN  [1..f.count -> range]

\* An accepted field never reaches outside its image; what is inserted is extracted again, and no other
\* bit of the image moves, so a field that shares a byte keeps its value.
FieldExact(f, buf) ==
    LayoutNew(<<f>>, Len(buf)) =>
        /\ \A own \in Own(f) : own[1] \in 1..Len(buf) /\ own[2] \in 0..(Bits - 1)
        /\ \A vs \in FieldValues(f) :
               LET after == insert_field(f, f.ty, vs, buf)
               IN  /\ extract_field(f, after) = vs
                   /\ \A p \in 1..Len(buf), b \in 0..(Bits - 1) :
                          <<p, b>> \notin Own(f) => BitOf(after[p], b) = BitOf(buf[p], b)
=============================================================================
