------------------------------ MODULE TirRules ------------------------------
(***************************************************************************)
(* What the TIR validator asks of a statement where it stands              *)
(* (tir/validate.py): the types of the expressions it reads, the places it *)
(* writes, and that the places one statement names cannot overlap.  An     *)
(* expression, a place and a statement are records headed by their node; a *)
(* scope is every name of the function with its binding, and which of them *)
(* are live.  The check stops at the first rule broken; which one that was *)
(* is wording here, so a rule is a conjunct and a mistyped expression has  *)
(* the type Wrong.                                                         *)
(***************************************************************************)
EXTENDS TirTypes, TLC, SequencesExt

CONSTANTS Consts,    \* name -> [type, value], the value as it is written
          Funcs      \* name -> [params: sequence of [name, type, mode], ret]

Wrong == <<"wrong">>
Nothing == <<"none">>         \* no return type
NoExpr == [node |-> "none"]   \* no initializer, no value, no destination

ARITH_TYPES == {U8, I32, U32, COUNTER}
BITWISE_TYPES == {U8, I32, U32}
SHIFT_TYPES == [shl |-> BITWISE_TYPES, shr |-> {U8, U32}, sar |-> {I32}]
ORDER_TYPES == ARITH_TYPES
CASTABLE_TO == ARITH_TYPES
CASTABLE_FROM == ARITH_TYPES \union {BOOL}
ARITH_OPS == {"add", "sub", "mul"}
EQUALITY_OPS == {"eq", "ne"}

--------------------------------------------------------------------------
(* Scopes.  A name never shadows: it is bound once in a function, and is   *)
(* live until the body that declared it closes.                            *)

declare(scope, name, type, writable) ==
    [bindings |-> (name :> [type |-> type, writable |-> writable]) @@ scope.bindings,
     live |-> scope.live \union {name}]

--------------------------------------------------------------------------
(* Access paths: a root and the projections from it.  An index that is not *)
(* a literal is Unknown.                                                   *)

Unknown == -1
Path(root, steps) == [root |-> root, steps |-> steps]
FieldStep(name) == [kind |-> "field", field |-> name, index |-> Unknown]
IndexStep(i) == [kind |-> "index", field |-> "", index |-> i]

Same(l, r) ==
    /\ l.kind = r.kind
    /\ l.kind = "index" => l.index # Unknown /\ r.index # Unknown
    /\ l.field = r.field /\ l.index = r.index

Apart(l, r) ==
    /\ l.kind = r.kind
    /\ l.kind = "index" => l.index # Unknown /\ r.index # Unknown
    /\ l.field # r.field \/ l.index # r.index

\* Two paths part at their first projections that differ, and not before one
\* that nobody can compare.
provably_disjoint(a, b) ==
    \/ a.root # b.root
    \/ \E i \in DOMAIN a.steps \intersect DOMAIN b.steps :
         /\ \A j \in 1..(i - 1) : Same(a.steps[j], b.steps[j])
         /\ Apart(a.steps[i], b.steps[i])

literal_index(e) == IF e.node = "lit" /\ e.type = U32 THEN e.value ELSE Unknown

\* The path of a place, and of an expression that is one: none or one of them.
RECURSIVE Chain(_)
Chain(e) ==
    CASE e.node = "var" -> {Path(e.name, << >>)}
      [] e.node = "field" ->
           {Path(p.root, Append(p.steps, FieldStep(e.name))) : p \in Chain(e.base)}
      [] e.node = "index" ->
           {Path(p.root, Append(p.steps, IndexStep(literal_index(e.index)))) :
              p \in Chain(e.base)}
      [] OTHER -> {}
place_path(p) == CHOOSE path \in Chain(p) : TRUE

subexpressions(e) ==
    CASE e.node = "field" -> {e.base}
      [] e.node = "index" -> {e.base, e.index}
      [] e.node \in {"len", "cap", "un", "cast", "shift"} -> {e.arg}
      [] e.node \in {"bin", "cmp", "logic"} -> {e.left, e.right}
      [] e.node = "divrem" -> {e.left, e.right, e.fallback}
      [] e.node = "struct" -> {e.fields[f] : f \in DOMAIN e.fields}
      [] OTHER -> {}

\* The indices along a chain are reads of their own.
RECURSIVE Indices(_)
Indices(e) == CASE e.node = "index" -> {e.index} \union Indices(e.base)
                [] e.node = "field" -> Indices(e.base)
                [] OTHER -> {}

RECURSIVE read_paths(_)
read_paths(e) ==
    Chain(e) \union UNION {read_paths(s) : s \in IF Chain(e) = {} THEN subexpressions(e)
                                                 ELSE Indices(e)}
place_read_paths(p) == UNION {read_paths(i) : i \in Indices(p)}

--------------------------------------------------------------------------
(* Expressions.                                                            *)

RECURSIVE type_of(_, _)
\* Mutation: a field of a frozen struct comes out as it was declared.
field_type_thawed(base, name) ==
    LET inner == Unfrozen(base) IN
    IF ~IsStruct(inner) \/ (IsStruct(inner) /\ name \notin DOMAIN Structs[inner[2]]) THEN Wrong
    ELSE Structs[inner[2]][name]

\* A field that would be linear comes out of a frozen struct frozen.
field_type(base, name) ==
    LET inner == Unfrozen(base) IN
    IF ~IsStruct(inner) \/ (IsStruct(inner) /\ name \notin DOMAIN Structs[inner[2]]) THEN Wrong
    ELSE LET t == Structs[inner[2]][name] IN
         IF IsFrozen(base) /\ is_linear(t) THEN FrozenType(t) ELSE t

\* The type of an expression used as a value, which may not be linear.
value_type(e, scope) ==
    LET t == type_of(e, scope) IN IF t # Wrong /\ is_linear(t) THEN Wrong ELSE t
expects(e, wanted, scope) == wanted # Wrong /\ value_type(e, scope) = wanted
type_of(e, scope) ==
    CASE e.node = "lit" ->
           IF e.type = BOOL \/ (e.type \in INTEGERS /\ e.value \in INT_RANGE(e.type))
           THEN e.type ELSE Wrong
      [] e.node = "var" ->
           IF e.name \in scope.live THEN scope.bindings[e.name].type ELSE Wrong
      [] e.node = "const" ->
           IF e.name \in DOMAIN Consts THEN Consts[e.name].type ELSE Wrong
      [] e.node = "field" -> field_type(type_of(e.base, scope), e.name)
      [] e.node = "index" ->
           LET base == type_of(e.base, scope) IN
           IF IsSequence(Unfrozen(base)) /\ expects(e.index, U32, scope)
           THEN ElementType(base) ELSE Wrong
      [] e.node \in {"len", "cap"} ->
           IF IsSequence(Unfrozen(type_of(e.arg, scope))) THEN U32 ELSE Wrong
      [] e.node = "un" ->
           LET t == value_type(e.arg, scope) IN
           IF IF e.op = "not" THEN t = BOOL ELSE t \in BITWISE_TYPES THEN t ELSE Wrong
      [] e.node = "bin" ->
           LET t == value_type(e.left, scope) IN
           IF /\ t \in IF e.op \in ARITH_OPS THEN ARITH_TYPES ELSE BITWISE_TYPES
              /\ expects(e.right, t, scope)
           THEN t ELSE Wrong
      [] e.node = "cmp" ->
           LET t == value_type(e.left, scope) IN
           IF /\ IF e.op \in EQUALITY_OPS THEN t \in INTEGERS \union {BOOL} \/ IsEnum(t)
                 ELSE t \in ORDER_TYPES
              /\ expects(e.right, t, scope)
           THEN BOOL ELSE Wrong
      [] e.node = "divrem" ->
           LET t == value_type(e.left, scope) IN
           IF t \in ARITH_TYPES /\ expects(e.right, t, scope) /\ expects(e.fallback, t, scope)
           THEN t ELSE Wrong
      [] e.node = "shift" ->
           LET t == value_type(e.arg, scope) IN
           IF t \in SHIFT_TYPES[e.op] /\ e.count \in 0..(Bits(t) - 1) THEN t ELSE Wrong
      [] e.node = "cast" ->
           IF e.type \in CASTABLE_TO /\ value_type(e.arg, scope) \in CASTABLE_FROM
           THEN e.type ELSE Wrong
      [] e.node = "logic" ->
           IF expects(e.left, BOOL, scope) /\ expects(e.right, BOOL, scope) THEN BOOL ELSE Wrong
      [] e.node = "enum" ->
           IF e.name \in DOMAIN Enums /\ e.variant \in ToSet(Enums[e.name])
           THEN EnumType(e.name) ELSE Wrong
      [] e.node = "struct" ->
           IF /\ e.name \in DOMAIN Structs /\ ~is_linear(StructType(e.name))
              /\ DOMAIN e.fields = DOMAIN Structs[e.name]
              /\ \A f \in DOMAIN e.fields : expects(e.fields[f], Structs[e.name][f], scope)
           THEN StructType(e.name) ELSE Wrong

--------------------------------------------------------------------------
(* Places.  A place is always about to be written, so its root must be     *)
(* writable and nothing on the way may be frozen.                          *)

RECURSIVE place_type(_, _)
place_type(p, scope) ==
    CASE p.node = "var" ->
           IF p.name \in scope.live /\ scope.bindings[p.name].writable
           THEN scope.bindings[p.name].type ELSE Wrong
      [] p.node = "field" ->
           LET base == place_type(p.base, scope) IN
           IF IsFrozen(base) THEN Wrong ELSE field_type(base, p.name)
      [] p.node = "index" ->
           LET base == place_type(p.base, scope) IN
           IF IsSequence(base) /\ expects(p.index, U32, scope) THEN ElementType(base) ELSE Wrong

\* Mutation: a frozen sequence is as good as any other.
sequence_element_frozen(p, scope) ==
    LET t == place_type(p, scope) IN IF IsSequence(Unfrozen(t)) THEN ElementType(t) ELSE Wrong

\* The element type of a sequence a statement changes in place.
sequence_element(p, scope) ==
    LET t == place_type(p, scope) IN IF IsSequence(t) THEN ElementType(t) ELSE Wrong

--------------------------------------------------------------------------
(* Constants: <<form, content>>, a form being bool, int, enum, struct,     *)
(* bytes or vec.                                                           *)

RECURSIVE check_const_value(_, _)
check_const_value(c, t) ==
    CASE IsFrozen(t) -> check_const_value(c, t[2])
      [] t = BOOL -> c[1] = "bool"
      [] t \in INTEGERS -> c[1] = "int" /\ c[2] \in INT_RANGE(t)
      [] IsEnum(t) -> c[1] = "enum" /\ c[2] \in ToSet(Enums[t[2]])
      [] IsStruct(t) -> /\ c[1] = "struct" /\ DOMAIN c[2] = DOMAIN Structs[t[2]]
                        /\ \A f \in DOMAIN c[2] : check_const_value(c[2][f], Structs[t[2]][f])
      [] t = BYTES -> c[1] = "bytes"
      [] OTHER -> /\ c[1] = "vec" /\ Len(c[2]) <= t[3]
                  /\ \A i \in DOMAIN c[2] : check_const_value(c[2][i], t[2])

\* A constant is a scalar, an enum or frozen.
check_constant(const) ==
    /\ check_type(const.type)
    /\ const.type \in PRIMS \ {BYTES} \/ IsEnum(const.type) \/ IsFrozen(const.type)
    /\ check_const_value(const.value, const.type)

--------------------------------------------------------------------------
(* Signatures.  What is linear travels inout, and is never returned.       *)

check_signature(func) ==
    /\ \A i, j \in DOMAIN func.params : func.params[i].name = func.params[j].name => i = j
    /\ \A i \in DOMAIN func.params :
         LET p == func.params[i] IN
         /\ p.mode \in {"in", "inout"}
         /\ check_type(p.type)
         /\ p.mode = "in" => ~is_linear(p.type)
    /\ func.ret # Nothing => check_type(func.ret) /\ ~is_linear(func.ret)

--------------------------------------------------------------------------
(* Statements.                                                             *)

\* What an argument, or the destination, writes and reads.
Written(arg) == IF arg.mode = "in" THEN {} ELSE {place_path(arg.place)}
\* Mutation: two places written are not held against each other.
TouchedReads(arg) == IF arg.mode = "in" THEN read_paths(arg.expr) ELSE place_read_paths(arg.place)
Touched(arg) == IF arg.mode = "in" THEN read_paths(arg.expr)
                ELSE Written(arg) \union place_read_paths(arg.place)

\* Rules V-013, V-020 and V-022: modes and types as declared, and nothing one
\* argument writes may overlap anything another one touches.
check_call(call, scope) ==
    LET callee == Funcs[call.fn]
        result == [mode |-> "inout", place |-> call.dest]
        args == IF call.dest = NoExpr THEN call.args ELSE Append(call.args, result)
    IN  /\ call.fn \in DOMAIN Funcs
        /\ Len(call.args) = Len(callee.params)
        /\ \A i \in DOMAIN call.args :
             LET arg == call.args[i]
                 param == callee.params[i]
             IN  /\ arg.mode = param.mode
                 /\ IF arg.mode = "in" THEN expects(arg.expr, param.type, scope)
                    ELSE place_type(arg.place, scope) = param.type
        /\ (call.dest = NoExpr) = (callee.ret = Nothing)
        /\ call.dest # NoExpr => place_type(call.dest, scope) = callee.ret
        /\ \A i, j \in DOMAIN args : i # j =>
             \A w \in Written(args[i]), r \in Touched(args[j]) : provably_disjoint(w, r)

DisjointFrom(place, paths) == \A p \in paths : provably_disjoint(place_path(place), p)

check_stmt(s, scope, ret) ==
    CASE s.node = "let" ->
           /\ s.name \notin DOMAIN scope.bindings
           /\ check_type(s.type)
           /\ s.init # NoExpr => ~is_linear(s.type) /\ expects(s.init, s.type, scope)
      [] s.node = "assign" ->
           LET t == place_type(s.dest, scope) IN
           t # Wrong /\ ~is_linear(t) /\ expects(s.value, t, scope)
      [] s.node \in {"take", "swap"} ->
           /\ place_type(s.dest, scope) # Wrong
           /\ place_type(s.dest, scope) = place_type(s.src, scope)
           /\ DisjointFrom(s.dest, {place_path(s.src)})
      [] s.node = "copy" ->
           /\ place_type(s.dest, scope) # Wrong
           /\ Unfrozen(type_of(s.value, scope)) = place_type(s.dest, scope)
           /\ DisjointFrom(s.dest, read_paths(s.value))
      [] s.node = "freeze" ->
           LET t == place_type(s.src, scope) IN
           t # Wrong /\ is_linear(t) /\ place_type(s.dest, scope) = FrozenType(t)
      [] s.node = "push" ->
           /\ expects(s.value, sequence_element(s.seq, scope), scope)
           /\ DisjointFrom(s.seq, read_paths(s.value))
      [] s.node = "pop" ->
           /\ sequence_element(s.seq, scope) # Wrong
           /\ place_type(s.dest, scope) = sequence_element(s.seq, scope)
           /\ DisjointFrom(s.seq, {place_path(s.dest)})
      [] s.node \in {"truncate", "reserve"} ->
           sequence_element(s.seq, scope) # Wrong /\ expects(s.value, U32, scope)
      [] s.node = "if" -> expects(s.cond, BOOL, scope)
      [] s.node = "while" -> expects(s.cond, BOOL, scope) /\ expects(s.variant, COUNTER, scope)
      [] s.node = "return" ->
           IF ret = Nothing THEN s.value = NoExpr
           ELSE s.value # NoExpr /\ expects(s.value, ret, scope)
      [] s.node = "call" -> check_call(s, scope)
=============================================================================
