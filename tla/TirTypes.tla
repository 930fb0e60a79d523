------------------------------ MODULE TirTypes ------------------------------
(***************************************************************************)
(* The types of TIR, the language the engine is written in, and what the   *)
(* rest of the toolchain asks of one: is it linear, what does it weigh,    *)
(* what may hold it, which integers are its values (tir/types.py).  A type *)
(* is a tuple headed by its kind; a struct is the function from its fields *)
(* to their types and an enum the sequence of its variants.  The widths,   *)
(* the counter's saturation point and the allocation ceiling are           *)
(* parameters, so that a model checker can walk the whole of a small range.*)
(***************************************************************************)
EXTENDS Integers, Sequences, FiniteSets, FiniteSetsExt

CONSTANTS Structs,   \* name -> (field -> type)
          Enums,     \* name -> the sequence of its variants
          Narrow,    \* the bits of a u8
          Wide,      \* the bits of an i32 and of a u32
          CAP,       \* where a counter saturates
          CEILING,   \* the most IR bytes one allocation may hold
          NoValue    \* an operator the type does not have

ASSUME WidthsAssumption == Narrow \in Nat \ {0} /\ Wide \in Nat /\ Wide >= Narrow
ASSUME LimitsAssumption == CAP >= 2 ^ Wide - 1 /\ CEILING \in Nat \ {0}

Prim(name) == <<name>>
BOOL == Prim("bool")
U8 == Prim("u8")
I32 == Prim("i32")
U32 == Prim("u32")
COUNTER == Prim("counter")
BYTES == Prim("bytes")
PRIMS == {BOOL, U8, I32, U32, COUNTER, BYTES}

EnumType(name) == <<"enum", name>>
StructType(name) == <<"struct", name>>
VecType(elem, max) == <<"vec", elem, max>>
FrozenType(inner) == <<"frozen", inner>>

IsStruct(t) == t[1] = "struct"
IsFrozen(t) == t[1] = "frozen"
IsEnum(t) == t[1] = "enum"
IsSequence(t) == t[1] \in {"bytes", "vec"}
Unfrozen(t) == IF IsFrozen(t) THEN t[2] ELSE t
ElementType(t) == LET s == Unfrozen(t) IN IF s = BYTES THEN U8 ELSE s[2]
DeclaredMax(t) == LET s == Unfrozen(t) IN IF s = BYTES THEN CEILING ELSE s[3]

INTEGERS == {U8, I32, U32, COUNTER}
Bits(t) == IF t = U8 THEN Narrow ELSE Wide

\* The values of an integer type, from the least to the greatest.
INT_RANGE(t) == CASE t = COUNTER -> 0..CAP
                  [] t = I32 -> -(2 ^ (Wide - 1))..(2 ^ (Wide - 1)) - 1
                  [] OTHER -> 0..(2 ^ Bits(t)) - 1

\* Reduce modulo 2^w, and read the residue back in the type.
wrap(t, n) == LET residue == n % (2 ^ Bits(t)) IN
              IF t = I32 /\ residue >= 2 ^ (Wide - 1)
              THEN residue - 2 ^ Wide ELSE residue

(***************************************************************************)
(* Linear means heap-backed: it moves and does not copy.  A struct is      *)
(* linear when it holds something that is.                                 *)
(***************************************************************************)
RECURSIVE is_linear(_)
is_linear(t) ==
    \/ IsSequence(t)
    \/ /\ IsStruct(t)
       /\ \E f \in DOMAIN Structs[t[2]] : is_linear(Structs[t[2]][f])

HANDLE_SIZE == 8
ENUM_SIZE == 4
RECURSIVE sizeof(_)
sizeof(t) ==
    CASE t \in {BOOL, U8} -> 1
      [] t \in {I32, U32} \/ IsEnum(t) -> ENUM_SIZE
      [] t = COUNTER \/ IsSequence(t) \/ IsFrozen(t) -> HANDLE_SIZE
      [] OTHER -> MapThenSumSet(LAMBDA f : sizeof(Structs[t[2]][f]), DOMAIN Structs[t[2]])

max_capacity(elem) == CEILING \div sizeof(elem)

\* What a program may write where a type is wanted (rules V-003, V-006 to V-010).
RECURSIVE check_type(_)
check_type(t) ==
    CASE t[1] = "enum" -> t[2] \in DOMAIN Enums
      [] t[1] = "struct" -> t[2] \in DOMAIN Structs
      [] t[1] = "vec" -> /\ check_type(t[2])
                         /\ ~is_linear(t[2])
                         /\ ~(t[2] = U8 /\ t[3] = CEILING)
                         /\ t[3] \in 1..max_capacity(t[2])
      [] t[1] = "frozen" -> /\ ~IsFrozen(t[2])
                            /\ check_type(t[2])
                            /\ is_linear(t[2])
      [] OTHER -> t \in PRIMS

-----------------------------------------------------------------------------
(***************************************************************************)
(* The operators of TIR as the reference interpreter computes them         *)
(* (tir/interp.py): every machine integer wraps in two's complement, a     *)
(* counter saturates by a check made before the operation, a division      *)
(* truncates and takes its third operand for a zero divisor.               *)
(***************************************************************************)
Abs(n) == IF n < 0 THEN -n ELSE n

\* The two's-complement pattern of a value, as the set of its one bits.
Pattern(t, n) == {i \in 0..(Bits(t) - 1) : (n \div 2 ^ i) % 2 = 1}
FromPattern(ones) == MapThenSumSet(LAMBDA i : 2 ^ i, ones)

UnaryValue(op, x, t) ==
    wrap(t, IF op = "neg" THEN -x ELSE -x - 1)

Saturated(op, a, b) ==
    CASE op = "add" -> IF a > CAP - b THEN CAP ELSE a + b
      [] op = "sub" -> IF a < b THEN 0 ELSE a - b
      [] op = "mul" -> IF a = 0 \/ b = 0 THEN 0
                       ELSE IF a > CAP \div b THEN CAP ELSE a * b
      [] OTHER -> NoValue

BinaryValue(op, a, b, t) ==
    IF t = COUNTER THEN Saturated(op, a, b) ELSE
    LET p == Pattern(t, a)
        q == Pattern(t, b)
    IN  wrap(t, CASE op = "add" -> a + b
                  [] op = "sub" -> a - b
                  [] op = "mul" -> a * b
                  [] op = "and" -> FromPattern(p \intersect q)
                  [] op = "or"  -> FromPattern(p \union q)
                  [] op = "xor" -> FromPattern((p \ q) \union (q \ p)))

DivRemValue(op, a, b, fallback, t) ==
    LET size == Abs(a) \div Abs(b)
        quotient == IF (a < 0) # (b < 0) THEN -size ELSE size
    IN  IF b = 0 THEN fallback
        ELSE IF op = "rem" THEN a - b * quotient
        ELSE IF t = COUNTER THEN quotient ELSE wrap(t, quotient)

ShiftValue(op, x, count, t) ==
    IF op = "shl" THEN wrap(t, x * 2 ^ count) ELSE x \div 2 ^ count

CompareValue(op, a, b) ==
    CASE op = "eq" -> a = b
      [] op = "ne" -> a # b
      [] op = "lt" -> a < b
      [] op = "le" -> a <= b
      [] op = "gt" -> a > b
      [] op = "ge" -> a >= b

\* A counter counts things, so a negative i32 lands at zero.
CastValue(t, x) == IF t = COUNTER THEN IF x < 0 THEN 0 ELSE x ELSE wrap(t, x)
=============================================================================
