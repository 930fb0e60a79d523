------------------------------ MODULE TirChecks ------------------------------
(***************************************************************************)
(* What the validator says of a program without running it, part by part:  *)
(* of an expression, of how a function's body ends (TirEndings) and of     *)
(* what contains or calls what (TirGraph).  A state is about one of the    *)
(* three, and leaves the others' variables at rest.  Expressions are       *)
(* evaluated each in a machine: every operator over every pair of literals *)
(* of a type, and every form of expression over the names, fields,         *)
(* elements and constants of a program.                                    *)
(***************************************************************************)
EXTENDS TirHeap, TirGraph

VARIABLES expr, machine

V == VecType(U8, 2)
C == StructType("C")
K == FrozenType(V)
TheStructs == [L |-> [a |-> V], C |-> [f |-> K, n |-> I32], D |-> [l |-> FrozenType(StructType("L"))]]
TheEnums == [E |-> <<"On", "Off">>]

\* Constants, the right ones of each type among wrong ones.
Plain == {Bool_(TRUE), Int_(1), Int_(-1), Int_(9), <<"enum", "Off">>, <<"enum", "No">>}
Made == {<<"bytes", <<1, 0>> >>} \union {<<"vec", v>> : v \in {<<x>> : x \in Plain}
                                                  \union {<<Int_(1), Int_(1), Int_(0)>>}}
Composed == {<<"struct", [f |-> v, n |-> x]>> : v \in Made, x \in Plain}
            \union {<<"struct", [a |-> v]>> : v \in Made}
ConstTypes == PRIMS \union {EnumType("E"), K, FrozenType(BYTES), FrozenType(StructType("L")), C,
                            FrozenType(C), FrozenType(VecType(C, 2)), V, FrozenType(K)}
ConstForms == [type : ConstTypes,
               value : Plain \union Made \union Composed \union {<<"vec", <<c>> >> : c \in Composed}]
TheConsts == [c \in ConstForms |-> c]
Empty == [type |-> K, value |-> <<"vec", <<Int_(1)>> >>]
NoFuncs == << >>

Lit(t, n) == [node |-> "lit", type |-> t, value |-> n]
Field(b, n) == [node |-> "field", base |-> b, name |-> n]
Index(b, i) == [node |-> "index", base |-> b, index |-> i]
Name(n) == [node |-> "var", name |-> n]

Pairs(ls, rs) ==
    [node : {"bin"}, op : {"add", "sub", "mul", "and", "or", "xor"}, left : ls, right : rs]
    \union [node : {"cmp"}, op : {"eq", "ne", "lt", "le", "gt", "ge"}, left : ls, right : rs]
    \union [node : {"divrem"}, op : {"div", "rem"}, left : ls, right : rs, fallback : rs]
    \union [node : {"logic"}, op : {"and", "or"}, left : ls, right : rs]
Singles(es) ==
    [node : {"un"}, op : {"not", "neg", "bnot"}, arg : es]
    \union [node : {"shift"}, op : {"shl", "shr", "sar"}, arg : es, count : 0..2]
    \union [node : {"cast"}, type : INTEGERS \union {BOOL}, arg : es]
    \union [node : {"len", "cap"}, arg : es]
    \union [node : {"field"}, base : es, name : {"f", "n", "l", "a"}]

Literals(t) == {Lit(t, n) : n \in INT_RANGE(t)}
Arithmetic == UNION {Pairs(Literals(t), Literals(t)) \union Singles(Literals(t)) : t \in INTEGERS}
Atoms == {Name("v"), Name("c"), Name("d"), Name("q"), Name("k"), Name("gone"),
          [node |-> "const", name |-> Empty], Lit(BOOL, 1), Lit(U8, 1), Lit(U32, 0),
          [node |-> "enum", name |-> "E", variant |-> "Off"]}
Reads == Atoms \union Singles(Atoms)
         \union {Index(b, i) : b \in Atoms \union {Field(Name("c"), "f")}, i \in Singles({Name("v")})
                                                        \union {Lit(U32, 0)}}
         \union {Field(Index(Name("q"), Lit(U32, 0)), f) : f \in {"f", "n"}}
         \union {Field(Field(Name("d"), "l"), "a")}
Structures == [node : {"struct"}, name : {"C", "L"}, fields : [f : Reads, n : Atoms]]
Mixed == Pairs({Name("v"), Lit(BOOL, 1), Lit(U8, 1)}, {Lit(BOOL, 0), Lit(U32, 0)})
         \union Pairs({[node |-> "len", arg |-> Name("v")], Field(Name("c"), "n"),
                       Index(Field(Name("c"), "f"), Lit(U32, 0))},
                      {Lit(U32, 3), Lit(I32, 3), Lit(U8, 3)})

Bindings ==
    [v |-> V, c |-> C, d |-> StructType("D"), q |-> VecType(C, 2), k |-> K, gone |-> U8]
Running(heap) ==
    [heap |-> heap,
     frames |-> <<[locals |-> [v |-> Obj(1), c |-> Obj(2), d |-> Obj(3), q |-> Obj(4),
                               k |-> Frozen(Obj(5))],
                   aliases |-> << >>,
                   scope |-> [bindings |-> [n \in DOMAIN Bindings |->
                                              [type |-> Bindings[n], writable |-> TRUE]],
                              live |-> DOMAIN Bindings \ {"gone"}]]>>]
Heap(items, n, elems) ==
    <<Object(V, items, 2), Object(C, [f |-> Frozen(Obj(5)), n |-> Int_(n)], 0),
      Object(StructType("D"), [l |-> Frozen(Obj(6))], 0), Object(VecType(C, 2), elems, 1),
      Object(V, <<Int_(1), Int_(2)>>, 2), Object(StructType("L"), [a |-> Obj(7)], 0),
      Object(V, <<Int_(3)>>, 1),
      Object(C, [f |-> Frozen(Obj(7)), n |-> Int_(1)], 0)>>
Machines == {Running(Heap(<< >>, -1, << >>)), Running(Heap(<<Int_(0)>>, 2, <<Obj(8)>>))}

Idle == Running(Heap(<< >>, -1, << >>))
ExprInit ==
    \/ /\ expr \in Reads \union Mixed
       /\ machine \in Machines
    \/ /\ expr \in [node : {"const"}, name : ConstForms]
       /\ machine = Idle
    \/ /\ expr \in Arithmetic \union Structures
       /\ machine = Running(Heap(<<Int_(0)>>, 2, <<Obj(8)>>))

--------------------------------------------------------------------------
Claimed == type_of(expr, Top(machine).scope)
Value == Eval(machine, expr)

RECURSIVE Fits(_, _)
Fits(v, t) ==
    CASE t = BOOL -> v[1] = "bool"
      [] t \in INTEGERS -> v[1] = "int" /\ v[2] \in INT_RANGE(t)
      [] IsEnum(t) -> v[1] = "tag" /\ v[2] \in ToSet(Enums[t[2]])
      [] IsFrozen(t) -> v[1] = "frozen" /\ Fits(v[2], t[2])
      [] OTHER ->
           /\ IsObject(v) /\ Body(machine.heap, v).type = t
           /\ LET slots == Body(machine.heap, v).slots IN
              IF IsStruct(t) THEN \A f \in DOMAIN slots : Fits(slots[f], Structs[t[2]][f])
              ELSE Len(slots) <= DeclaredMax(t) /\ \A i \in DOMAIN slots : Fits(slots[i], ElementType(t))

\* TypesTold: an expression the validator gives a type to, over constants it
\* accepts, evaluates to a value of that type through and through, or to the trap of
\* an index past the end, and the interpreter's own static types, which nothing
\* compares with the validator's, agree on it up to freezing (_type_of of interp.py
\* against _type_of of validate.py).
TypesTold ==
    Claimed # Wrong /\ (expr.node = "const" => check_constant(Consts[expr.name])) =>
       /\ Value = Trap("T-01") \/ Fits(Value, Claimed)
       /\ Unfrozen(StaticType(expr, Top(machine).scope.bindings)) = Unfrozen(Claimed)

\* The result of the operator in unbounded arithmetic.
IsLit(e) == e.node = "lit"
Between == expr.node \in {"bin", "divrem"} /\ IsLit(expr.left) /\ IsLit(expr.right) /\ Claimed # Wrong
Exact(op, a, b) == CASE op = "add" -> a + b [] op = "sub" -> a - b [] op = "mul" -> a * b

\* ArithmeticRight: sums, differences and products of machine integers are right
\* modulo 2^w and those of counters are clamped to 0..CAP; a division by anything
\* but zero has its remainder smaller than the divisor and of the dividend's sign,
\* and only the least i32 over -1 wraps (_binary, DivRem and _cast).
ArithmeticRight ==
    Between =>
       LET t == Claimed
           a == expr.left.value
           b == expr.right.value
           v == Value[2]
           rem == DivRemValue("rem", a, b, 0, t)
           exact == Exact(expr.op, a, b)
           modulus == 2 ^ Bits(t)
       IN  CASE expr.op \in ARITH_OPS ->
                  IF t = COUNTER
                  THEN v = IF exact < 0 THEN 0 ELSE IF exact > CAP THEN CAP ELSE exact
                  ELSE v \in INT_RANGE(t) /\ (v - exact) % modulus = 0
             [] expr.node = "divrem" ->
                  IF b = 0 THEN v = expr.fallback.value
                  ELSE IF expr.op = "rem" THEN
                       /\ Abs(v) < Abs(b) /\ (v # 0 => (v < 0) = (a < 0))
                       /\ (a - v) % Abs(b) = 0
                  ELSE v * b + rem = a \/ (t = I32 /\ b = -1 /\ v = a /\ a = -(modulus \div 2))
             [] OTHER ->
                  /\ v \in INT_RANGE(t)
                  /\ expr.op = "xor" => v = wrap(t, BinaryValue("or", a, b, t)
                                                    - BinaryValue("and", a, b, t))
                  /\ expr.op = "or" => wrap(t, v + BinaryValue("and", a, b, t)) = wrap(t, a + b)

--------------------------------------------------------------------------
CONSTANT Variants
VARIABLES about, body, result
Ends == INSTANCE TirEndings

allVars == <<vars, about, expr, machine, body, result>>

NoWalk ==
    /\ graph = << >> /\ root = 0 /\ path = << >> /\ stack = << >>
    /\ settled = {} /\ walks = [n \in 1..Nodes |-> 0] /\ verdict = "none"

ChecksInit ==
    \/ about = "expression" /\ ExprInit /\ body = << >> /\ result = FALSE /\ NoWalk
    \/ about = "function" /\ Ends!Functions /\ expr = NoExpr /\ machine = Idle /\ NoWalk
    \/ about = "declarations" /\ Init /\ expr = NoExpr /\ machine = Idle /\ body = << >> /\ result = FALSE
ChecksNext == Next /\ UNCHANGED <<about, expr, machine, body, result>>
ChecksSpec == ChecksInit /\ [][ChecksNext]_allVars

--------------------------------------------------------------------------
\* What the validator promises of an expression: its value is of the type given,
\* and its arithmetic is that of the type.
ExpressionsRight == about = "expression" => TypesTold /\ ArithmeticRight

\* What it promises of a body: it ends as said, and with a result when one is due.
EndingsRight == about = "function" => Ends!EndingExact /\ Ends!AlwaysReturns

=============================================================================
