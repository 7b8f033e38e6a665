----------------------------- MODULE TypedArith -----------------------------
(***************************************************************************)
(* Arithmetic in a named type on i64 payloads (tracer.rs): type_bounds,    *)
(* wrapping_*_in_type, truncate_to_type and detect_checked_overflow.       *)
(*                                                                         *)
(* i64 has the values -Half64 .. Half64 - 1.  The types of 8, 16 and 32 bits   *)
(* have Size[t] values; u64, u128, i64 and i128 share i64's payload, and   *)
(* any other name (field, scalar, group) is unbounded to the wrapping      *)
(* operations and has u32's bounds.                                        *)
(***************************************************************************)
EXTENDS Integers

CONSTANTS Half64, Size

Unsigned == {"u8", "u16", "u32"}

Signed == {"i8", "i16", "i32"}

Narrow == Unsigned \cup Signed

Types == Narrow \cup {"u64", "u128", "i64", "i128", "field", "scalar", "group"}

ASSUME Half64Assumption == Half64 \in Nat \ {0}

\* Every narrow type is narrower than i64, and splits into halves.
ASSUME SizeAssumption ==
    /\ Size \in [Narrow -> Nat \ {0}]
    /\ \A t \in Narrow : Size[t] % 2 = 0 /\ Size[t] <= Half64

\* The payloads of a signed type with 2 * h values.
InSigned(n, h) == ((n + h) % (2 * h)) - h

\* `as t as i64`
As(n, t) ==
    CASE t \in Unsigned -> n % Size[t]
      [] t \in Signed   -> InSigned(n, Size[t] \div 2)
      [] OTHER          -> n

Exact(op, a, b) ==
    CASE op = "add" -> a + b
      [] op = "sub" -> a - b
      [] op = "mul" -> a * b

\* Both operands and the result are cast to a narrow type.
WrappingInType(op, a, b, t) ==
    IF t \in Narrow THEN As(Exact(op, As(a, t), As(b, t)), t)
    ELSE InSigned(Exact(op, a, b), Half64)

TruncateToType(n, t) == As(n, t)

MaxOf(t) == CASE t \in Unsigned -> Size[t] - 1
              [] t \in Signed   -> Size[t] \div 2 - 1
              [] t \in {"u64", "u128", "i64", "i128"} -> Half64 - 1
              [] OTHER -> Size["u32"] - 1

MinOf(t) == CASE t \in Signed -> -(Size[t] \div 2)
              [] t \in {"i64", "i128"} -> -Half64
              [] OTHER -> 0

InBounds(n, t) == MinOf(t) <= n /\ n <= MaxOf(t)

\* checked_* of i64, and the bounds.
DetectCheckedOverflow(op, a, b, t) ==
    LET n == Exact(op, a, b) IN ~(-Half64 <= n /\ n < Half64 /\ InBounds(n, t))

\* add_saturating, sub_saturating and mul_saturating.
Clamp(n, lo, hi) == IF n < lo THEN lo ELSE IF n > hi THEN hi ELSE n

Saturating(op, a, b, t) == Clamp(Clamp(Exact(op, a, b), -Half64, Half64 - 1), MinOf(t), MaxOf(t))

\* Rust divides towards zero.
Towards0(a, b) ==
    LET abs(n) == IF n < 0 THEN -n ELSE n
        q == abs(a) \div abs(b)
    IN  IF (a < 0) # (b < 0) THEN -q ELSE q

----------------------------------------------------------------------------
(* Properties *)

\* tracer.rs:4104-4109 and 4876-4879: of two values of a type an overflow is
\* reported unless the value that is recorded, the wrapped one, is the
\* mathematical one.  In a type with a width of its own it is reported only
\* then; u64 and u128 also report what i64 cannot hold, and a field what u32
\* cannot.
ReportsOverflow(op, a, b, t) ==
    LET exact == WrappingInType(op, a, b, t) = Exact(op, a, b)
    IN  InBounds(a, t) /\ InBounds(b, t) =>
            /\ ~DetectCheckedOverflow(op, a, b, t) => exact
            /\ t \in Narrow \cup {"i64", "i128"} => (exact => ~DetectCheckedOverflow(op, a, b, t))

\* What a saturating method returns lies in its type, and is the mathematical
\* value unless the checked operation would overflow.
SaturatesInType(op, a, b, t) ==
    /\ InBounds(Saturating(op, a, b, t), t)
    /\ ~DetectCheckedOverflow(op, a, b, t) => Saturating(op, a, b, t) = Exact(op, a, b)

=============================================================================
