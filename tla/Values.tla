------------------------------- MODULE Values -------------------------------
(***************************************************************************)
(* The value codec (eip/types.rs): a CIP value to the published JSON value *)
(* and a JSON value of a write to the CIP value the device is sent.        *)
(*                                                                         *)
(* A number is an integer count of quarters.  The two float types are      *)
(* scaled down and keep their form: a significand of so many bits, a last  *)
(* bit that no number goes below, a largest number, and rounding to the    *)
(* nearest, ties to the even neighbour.  JSON keeps apart an integer       *)
(* literal ("int") and a float ("float"), and a value and an array of one. *)
(***************************************************************************)
EXTENDS Integers, Sequences

Q == 4            \* quarters
F64 == [bits |-> 3, max |-> 448]    \* f64: 53 bits in the code
F32 == [bits |-> 2, max |-> 48]     \* f32: 24 bits in the code
Limit == 2^F64.bits                 \* EXACT_F64_INT_LIMIT, 2^53 in the code
NonFinite == 9999 \* stands for NaN and the infinities

Abs(x) == IF x < 0 THEN -x ELSE x

\* The distance of neighbouring numbers of a float type around a / b.
Spacing(a, b, float) ==
    CHOOSE s \in {2^e : e \in 0..9} :
        /\ Abs(a) < b * s * 2^float.bits
        /\ s = 1 \/ Abs(a) >= b * (s \div 2) * 2^float.bits

\* Rounding to a float type: the number nearest to a / b, for every quotient the inputs lead to.
MaxScale == 4     \* bound of a scale, in halves
Rounding(float) ==
    [a \in -(MaxScale * F64.max)..(MaxScale * F64.max), b \in 1..MaxScale |->
        LET s == Spacing(a, b, float)
            up == (2 * a + b * s) \div (2 * b * s)
            tie == (2 * a + b * s) % (2 * b * s) = 0
            x == s * IF tie /\ up % 2 = 1 THEN up - 1 ELSE up
        IN  IF Abs(x) > float.max THEN NonFinite ELSE x]
f64 == Rounding(F64)
f32 == Rounding(F32)

\* f64::round: to the nearest whole number, a half away from zero.
Round(x) == IF x < 0 THEN -((2 * (-x) + Q) \div (2 * Q)) ELSE (2 * x + Q) \div (2 * Q)

IntTypes == {"sint", "usint"}
is_integer_type(ty) == ty \in IntTypes
int_bounds(ty) == IF ty = "sint" THEN -16..15 ELSE 0..31

\* An optional value of the configuration: a function with at most one value, under 1.  A scale is
\* in halves, an offset in whole numbers.
None == <<>>
Or(option, default) == IF option = None THEN default ELSE option[1]
Scaled(scale, offset) == scale # None \/ offset # None

(***************************************************************************)
(* Reading.                                                                *)
(***************************************************************************)
\* numeric_to_f64: an integer as the nearest f64; a float is one already.
numeric_to_f64(v, ty) == IF is_integer_type(ty) THEN f64[v * Q, 1] ELSE v

\* raw * scale + offset, rounded after each.
Publish(raw, scale, offset) ==
    LET product == f64[raw * Or(scale, 2), 2]
    IN  IF raw = NonFinite \/ product = NonFinite THEN NonFinite
        ELSE f64[product + Or(offset, 0) * Q, 1]

\* decode_scalar: a boolean as it is; a transformed number as a float, null when it is not finite; an
\* untransformed integer keeps every bit.
decode_scalar(v, ty, scale, offset) ==
    LET n == IF Scaled(scale, offset) THEN Publish(numeric_to_f64(v, ty), scale, offset) ELSE v
    IN  [k |-> IF ty = "bool" THEN "bool"
               ELSE IF n = NonFinite THEN "null"
               ELSE IF is_integer_type(ty) /\ ~Scaled(scale, offset) THEN "int" ELSE "float",
         n |-> IF ty = "bool" THEN v ELSE n]

\* decode_value: a value of another wire type is BAD; otherwise element by element, and one that is not
\* finite makes the whole reading UNCERTAIN.  The stack decodes one element as the bare value.
decode_value(vs, wire, ty, scale, offset) ==
    LET out == [i \in 1..Len(vs) |-> decode_scalar(vs[i], ty, scale, offset)]
        null == \E i \in 1..Len(out) : out[i].k = "null"
    IN  [quality |-> IF wire # ty THEN "bad" ELSE IF null THEN "uncertain" ELSE "good",
         array |-> Len(vs) # 1, of |-> IF wire # ty \/ null THEN <<>> ELSE out]

\* assembly_to_readings of one field: what the poll reading says, and UNCERTAIN while the peer is idle.
assembly_to_readings(vs, ty, scale, offset, run_mode) ==
    LET d == decode_value(vs, ty, ty, scale, offset)
    IN  IF d.quality = "good" /\ ~run_mode THEN [d EXCEPT !.quality = "uncertain"] ELSE d

(***************************************************************************)
(* Writing.                                                                *)
(***************************************************************************)
Refused == [ok |-> FALSE, v |-> 0]
Encoded(v) == [ok |-> TRUE, v |-> v]

is_identity_transform(scale, offset) == Or(scale, 2) = 2 /\ Or(offset, 0) = 0

\* The device's value of an f64, (n - offset) / scale, rounded after each.
Device(n, scale, offset) ==
    LET difference == f64[n - Or(offset, 0) * Q, 1]
    IN  IF ~Scaled(scale, offset) THEN n
        ELSE IF Or(scale, 2) = 0 \/ difference = NonFinite THEN NonFinite
        ELSE f64[difference * 2, Or(scale, 2)]

encode_exact_int(ty, v) == IF v \in int_bounds(ty) THEN Encoded(v) ELSE Refused

\* A REAL is range-checked, then narrowed.
encode_real(d) == IF Abs(d) > F32.max THEN Refused ELSE Encoded(f32[d, 1])

\* The f64 path: a fractional result is refused only where no transform is configured.
encode_scalar_f64(j, ty, scale, offset) ==
    LET d == Device(IF j.k = "int" THEN f64[j.n * Q, 1] ELSE j.n, scale, offset)
    IN  IF j.k \notin {"int", "float"} \/ d = NonFinite THEN Refused
        ELSE IF ty = "real" THEN encode_real(d)
        ELSE IF ty = "lreal" THEN Encoded(d)
        ELSE IF ty = "bool" \/ (~Scaled(scale, offset) /\ d % Q # 0) THEN Refused
        ELSE encode_exact_int(ty, Round(d))

\* encode_scalar: an integer literal without a transform never meets an f64; one that an f64 cannot
\* carry is refused under a transform; what the transform yields is rounded, then held against the bounds.
encode_scalar(j, ty, scale, offset) ==
    IF ty = "bool" THEN (IF j.k = "bool" THEN Encoded(j.n) ELSE Refused)
    ELSE IF j.k = "int" /\ is_integer_type(ty) /\ is_identity_transform(scale, offset)
    THEN encode_exact_int(ty, j.n)
    ELSE IF j.k = "int" /\ is_integer_type(ty) /\ Abs(j.n) > Limit THEN Refused
    ELSE encode_scalar_f64(j, ty, scale, offset)

\* encode_write: a bare value without an arrayCount, an array of exactly so many elements with one;
\* every element is encoded, or nothing.
encode_write(json, ty, scale, offset, array_count) ==
    LET out == [i \in 1..Len(json.of) |-> encode_scalar(json.of[i], ty, scale, offset)]
    IN  IF \/ json.array # (array_count # None)
           \/ json.array /\ Len(json.of) # array_count[1]
           \/ \E i \in 1..Len(out) : ~out[i].ok
        THEN [ok |-> FALSE, v |-> <<>>]
        ELSE [ok |-> TRUE, v |-> [i \in 1..Len(out) |-> out[i].v]]

(***************************************************************************)
(* What the codec promises, for one signal and one input.                  *)
(***************************************************************************)
Number(j) == IF j.k = "int" THEN j.n * Q ELSE j.n

\* Twice the exact device value of x times the scale, less twice that of what was sent: the error.
Error(device, x, scale, offset) == Abs(2 * (x - Or(offset, 0) * Q) - device * Or(scale, 2))

\* How far the two roundings of the arithmetic, and the one of the target, may take it.
Tolerance(ty, x, scale, offset) ==
    LET a == x - Or(offset, 0) * Q
        b == Or(scale, 2)
        quotient == Spacing(2 * (Abs(a) + Spacing(a, 1, F64)), b, F64)
        target == IF ty = "real" THEN Spacing(2 * (Abs(a) + Spacing(a, 1, F64)) + b * quotient, b, F32)
                  ELSE IF ty = "lreal" THEN 0 ELSE Q
    IN  Spacing(a, 1, F64) + (b * (quotient + target)) \div 2

\* A write the codec accepts lands as it was asked: every element, and none of them clamped.  Without
\* a transform an integer lands exactly, and a float as the nearest one of the target's type; through a
\* transform the value lands within what rounding the difference, the quotient and the target costs.
Lands(json, ty, scale, offset, array_count) ==
    \A w \in {encode_write(json, ty, scale, offset, array_count)} : w.ok =>
        /\ Len(w.v) = Len(json.of)
        /\ \A i \in 1..Len(w.v) :
              LET j == json.of[i]
                  x == IF is_integer_type(ty) THEN Number(j) ELSE f64[Number(j), 1]
              IN  CASE ty = "bool" -> w.v[i] = j.n
                    [] ty = "real" /\ ~Scaled(scale, offset) -> w.v[i] = f32[x, 1]
                    [] ty = "lreal" /\ ~Scaled(scale, offset) -> w.v[i] = x
                    [] is_integer_type(ty) /\ ~Scaled(scale, offset) -> w.v[i] * Q = x
                    [] OTHER -> Error(IF is_integer_type(ty) THEN w.v[i] * Q ELSE w.v[i], x, scale, offset)
                                    <= Tolerance(ty, x, scale, offset)

\* The transform loses nothing of what is read: neither the raw value nor the product nor the sum.
CarriedExactly(v, ty, scale, offset) ==
    LET raw == numeric_to_f64(v, ty)
    IN  ~Scaled(scale, offset)
        \/ /\ is_integer_type(ty) => raw = v * Q
           /\ 2 * f64[raw * Or(scale, 2), 2] = raw * Or(scale, 2)
           /\ Publish(raw, scale, offset) = (raw * Or(scale, 2)) \div 2 + Or(offset, 0) * Q

\* What was read and published can be written back, and it is the value the device had, whenever the
\* arithmetic of the transform carries it (always without one).  The exception is an arrayCount of 1,
\* which is published as the bare value and written only as an array.
ReadsBack(v, ty, scale, offset, array_count) ==
    \A r \in {decode_value(v, ty, ty, scale, offset)} :
        r.quality = "good" /\ Or(scale, 2) # 0 /\ (\A i \in 1..Len(v) : CarriedExactly(v[i], ty, scale, offset)) =>
            LET w == encode_write([array |-> r.array, of |-> r.of], ty, scale, offset, array_count)
            IN  IF array_count = <<1>> THEN ~w.ok ELSE w = [ok |-> TRUE, v |-> v]

\* types.rs of encode_write: with no transform, "or the identity 1.0 / 0.0", a "JSON float is accepted
\* when it is finite and integral".
IdentityExact(json, ty, scale, offset, array_count) ==
    is_integer_type(ty) /\ is_identity_transform(scale, offset) =>
        LET w == encode_write(json, ty, scale, offset, array_count)
        IN  w.ok => \A i \in 1..Len(w.v) : w.v[i] * Q = Number(json.of[i])

\* types.rs, module comment: under a transform, "an integer input the arithmetic cannot carry exactly is
\* a typed error naming it, never a silent rounding": an integer lands on the nearest device unit.
CarriedOrRefused(json, ty, scale, offset, array_count) ==
    is_integer_type(ty) /\ Scaled(scale, offset) =>
        LET w == encode_write(json, ty, scale, offset, array_count)
        IN  w.ok => \A i \in 1..Len(w.v) : json.of[i].k = "int" =>
                        Error(w.v[i] * Q, json.of[i].n * Q, scale, offset) <= (Or(scale, 2) * Q) \div 2
=============================================================================
