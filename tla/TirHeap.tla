------------------------------ MODULE TirHeap ------------------------------
(***************************************************************************)
(* Values, slots and expressions of the reference interpreter of TIR       *)
(* (tir/interp.py).                                                        *)
(*                                                                         *)
(* A sequence and a struct are objects the heap names, as they are in      *)
(* Python: a variable, a field and an element hold a reference to one, an  *)
(* inout parameter is an alias for the slot the caller passed, and nothing *)
(* but the validator's rules keeps two names from reaching one object.  A  *)
(* machine is the record m of its heap, object -> [type, slots, cap], and  *)
(* of its frames, the functions running with the latest last.              *)
(***************************************************************************)
EXTENDS TirRules

--------------------------------------------------------------------------
(* Values: what a slot holds is an integer, a boolean, a tag, an object or *)
(* a frozen object; what an expression yields may also be an object that   *)
(* is not on the heap yet, or a failure.                                   *)

Int_(n) == <<"int", n>>
Bool_(b) == <<"bool", b>>
Tag(variant) == <<"tag", variant>>
Obj(id) == <<"obj", id>>
Frozen(v) == <<"frozen", v>>
Fresh(object) == <<"fresh", object>>
Object(type, slots, cap) == [type |-> type, slots |-> slots, cap |-> cap]
Trap(code) == <<"trap", code>>
Stuck == <<"stuck", "">>
Failed(v) == v[1] \in {"trap", "stuck"}
\* From left to right: what the first failure says.
Failures(vs) == SelectSeq(vs, Failed)

IsObject(v) == v[1] \in {"obj", "fresh"}
Body(h, v) == IF v[1] = "fresh" THEN v[2] ELSE h[v[2]]
Thawed(v) == IF v[1] = "frozen" THEN v[2] ELSE v

\* The zero value of a type.
RECURSIVE Zero(_)
Zero(t) ==
    CASE t = BOOL -> Bool_(FALSE)
      [] t \in INTEGERS -> Int_(0)
      [] IsEnum(t) -> Tag(Head(Enums[t[2]]))
      [] IsFrozen(t) -> Frozen(Zero(t[2]))
      [] IsSequence(t) -> Fresh(Object(t, << >>, 0))
      [] IsStruct(t) -> Fresh(Object(t, [f \in DOMAIN Structs[t[2]] |-> Zero(Structs[t[2]][f])], 0))

\* The value a constant stands for, made anew where it is mentioned.
RECURSIVE ConstValue(_, _)
ConstValue(c, t) ==
    CASE IsFrozen(t) -> Frozen(ConstValue(c, t[2]))
      [] c[1] = "enum" -> Tag(c[2])
      [] c[1] = "bytes" -> Fresh(Object(BYTES, [i \in DOMAIN c[2] |-> Int_(c[2][i])], Len(c[2])))
      [] c[1] = "vec" ->
           Fresh(Object(t, [i \in DOMAIN c[2] |-> ConstValue(c[2][i], t[2])], Len(c[2])))
      [] c[1] = "struct" ->
           Fresh(Object(t, [f \in DOMAIN c[2] |-> ConstValue(c[2][f], Structs[t[2]][f])], 0))
      [] OTHER -> c

\* Out of storage a struct is copied and anything else is handed over as it is.
RECURSIVE Read(_, _)
Read(h, v) ==
    IF IsObject(v) /\ IsStruct(Body(h, v).type)
    THEN LET o == Body(h, v) IN
         Fresh([o EXCEPT !.slots = [k \in DOMAIN o.slots |-> Read(h, o.slots[k])]])
    ELSE v

\* The copy statement's copy: every mutable sequence fresh, its capacity its length.
RECURSIVE Deep(_, _)
Deep(h, v) ==
    IF ~IsObject(v) THEN v ELSE
    LET o == Body(h, v)
        copied == [k \in DOMAIN o.slots |-> Deep(h, o.slots[k])]
    IN  Fresh(Object(o.type, copied, IF IsStruct(o.type) THEN 0 ELSE Len(o.slots)))

\* The objects a value reaches; the mutable walk stops at a frozen one.
RECURSIVE Objects(_, _, _)
Objects(h, v, through) ==
    IF v[1] = "frozen" THEN IF through THEN Objects(h, v[2], TRUE) ELSE {}
    ELSE IF v[1] # "obj" THEN {}
    ELSE {v[2]} \union UNION {Objects(h, h[v[2]].slots[k], through) : k \in DOMAIN h[v[2]].slots}

\* A value put on the heap, every object in it that is not there yet allocated.
RECURSIVE Stored(_, _)
Stored(h, v) ==
    CASE v[1] = "frozen" -> LET in == Stored(h, v[2]) IN
                            [heap |-> in.heap, value |-> Frozen(in.value)]
      [] v[1] = "fresh" ->
           LET Put(k, acc) ==
                   LET in == Stored(acc.heap, v[2].slots[k]) IN
                   [heap |-> in.heap, slots |-> [acc.slots EXCEPT ![k] = in.value]]
               all == FoldSet(Put, [heap |-> h, slots |-> v[2].slots], DOMAIN v[2].slots)
               id == CHOOSE i \in 1..(Cardinality(DOMAIN all.heap) + 1) : i \notin DOMAIN all.heap
           IN  [heap |-> (id :> [v[2] EXCEPT !.slots = all.slots]) @@ all.heap,
                value |-> Obj(id)]
      [] OTHER -> [heap |-> h, value |-> v]

--------------------------------------------------------------------------
(* Places: the slot a value lives in, in a frame's locals or in an object. *)

Slot(at, key) == <<"slot", [at |-> at, key |-> key]>>
FrameOf(level) == <<"frame", level>>

Slots(m, at) == CASE at[1] = "frame" -> m.frames[at[2]].locals
                  [] at[1] = "obj" -> IF at[2] \in DOMAIN m.heap THEN m.heap[at[2]].slots
                                      ELSE << >>
Present(m, slot) == slot[2].key \in DOMAIN Slots(m, slot[2].at)
Get(m, slot) == IF Failed(slot) THEN slot
                ELSE IF Present(m, slot) THEN Slots(m, slot[2].at)[slot[2].key] ELSE Stuck

\* The machine with a value stored in a slot.
Set(m, slot, v) ==
    LET in == Stored(m.heap, v)
        at == slot[2].at
    IN  IF at[1] = "frame"
        THEN [heap |-> in.heap,
              frames |-> [m.frames EXCEPT ![at[2]].locals =
                            (slot[2].key :> in.value) @@ @]]
        ELSE [heap |-> [in.heap EXCEPT ![at[2]].slots[slot[2].key] = in.value],
              frames |-> m.frames]

Top(m) == Last(m.frames)

\* A parameter passed inout is the caller's slot; any other name is a local.
ref(m, name) == IF name \in DOMAIN Top(m).aliases THEN Top(m).aliases[name]
                ELSE Slot(FrameOf(Len(m.frames)), name)

--------------------------------------------------------------------------
(* Expressions.                                                            *)

\* The interpreter's own static types, which it asks only for widths.
RECURSIVE StaticType(_, _)
StaticType(e, bindings) ==
    CASE e.node \in {"lit", "cast"} -> e.type
      [] e.node \in {"len", "cap"} -> U32
      [] e.node \in {"cmp", "logic"} -> BOOL
      [] e.node = "un" -> IF e.op = "not" THEN BOOL ELSE StaticType(e.arg, bindings)
      [] e.node = "shift" -> StaticType(e.arg, bindings)
      [] e.node \in {"bin", "divrem"} -> StaticType(e.left, bindings)
      [] e.node = "var" -> bindings[e.name].type
      [] e.node = "const" -> Consts[e.name].type
      [] e.node = "field" -> Structs[Unfrozen(StaticType(e.base, bindings))[2]][e.name]
      [] e.node = "index" -> ElementType(StaticType(e.base, bindings))
      [] e.node = "struct" -> StructType(e.name)
      [] e.node = "enum" -> EnumType(e.name)

At(o, v) == IF ~IsSequence(o.type) \/ v[1] # "int" THEN Stuck
            ELSE IF v[2] >= Len(o.slots) THEN Trap("T-01") ELSE o.slots[v[2] + 1]

\* What an expression evaluates before itself, in order.
Operands(e) ==
    CASE e.node = "field" -> <<e.base>>
      [] e.node = "index" -> <<e.base, e.index>>
      [] e.node \in {"len", "cap", "un", "shift", "cast"} -> <<e.arg>>
      [] e.node \in {"bin", "cmp"} -> <<e.left, e.right>>
      [] e.node = "divrem" -> <<e.left, e.right, e.fallback>>
      [] e.node = "logic" -> <<e.left>>
      [] OTHER -> << >>

\* The operands are of the kinds the interpreter asserts them to be.
Proper(h, e, vs) ==
    LET held == IsObject(Thawed(vs[1]))
        type == Body(h, Thawed(vs[1])).type
    IN
    CASE e.node = "field" ->
           held /\ IsStruct(type) /\ (IsStruct(type) => e.name \in DOMAIN Structs[type[2]])
      [] e.node \in {"index", "len", "cap"} -> held /\ IsSequence(type)
      [] e.node \in {"bin", "divrem", "shift"} -> \A i \in DOMAIN vs : vs[i][1] = "int"
      [] e.node = "un" -> vs[1][1] = IF e.op = "not" THEN "bool" ELSE "int"
      [] e.node = "cmp" -> vs[1][1] = vs[2][1] /\ vs[1][1] \in {"int", "bool", "tag"}
      [] e.node = "cast" -> vs[1][1] \in {"int", "bool"}
      [] e.node = "logic" -> vs[1][1] = "bool"
      [] OTHER -> TRUE

\* An expression over the values of its operands.
Apply(m, e, vs) ==
    LET n(i) == vs[i][2]
        o == Body(m.heap, Thawed(vs[1]))
        width(x) == StaticType(x, Top(m).scope.bindings)
    IN
    CASE e.node = "lit" -> IF e.type = BOOL THEN Bool_(e.value = 1) ELSE Int_(e.value)
      [] e.node = "var" -> Read(m.heap, Get(m, ref(m, e.name)))
      [] e.node = "const" -> ConstValue(Consts[e.name].value, Consts[e.name].type)
      [] e.node = "field" ->
           IF vs[1][1] = "frozen" /\ is_linear(Structs[o.type[2]][e.name])
           THEN Frozen(o.slots[e.name]) ELSE Read(m.heap, o.slots[e.name])
      [] e.node = "index" -> Read(m.heap, At(o, vs[2]))
      [] e.node = "len" -> Int_(Len(o.slots))
      [] e.node = "cap" -> Int_(o.cap)
      [] e.node = "un" ->
           IF e.op = "not" THEN Bool_(~n(1)) ELSE Int_(UnaryValue(e.op, n(1), width(e.arg)))
      [] e.node = "bin" -> Int_(BinaryValue(e.op, n(1), n(2), width(e.left)))
      [] e.node = "cmp" -> Bool_(CompareValue(e.op, n(1), n(2)))
      [] e.node = "divrem" -> Int_(DivRemValue(e.op, n(1), n(2), n(3), width(e.left)))
      [] e.node = "shift" -> Int_(ShiftValue(e.op, n(1), e.count, width(e.arg)))
      [] e.node = "cast" ->
           Int_(CastValue(e.type, IF vs[1] = Bool_(TRUE) THEN 1
                                  ELSE IF vs[1] = Bool_(FALSE) THEN 0 ELSE n(1)))
      [] e.node = "enum" -> Tag(e.variant)

\* The right of "and" and "or" is evaluated only if the left does not settle it;
\* a struct is made of its fields.
RECURSIVE Eval(_, _)
Eval(m, e) ==
    LET vs == [i \in DOMAIN Operands(e) |-> Eval(m, Operands(e)[i])]
        given == [f \in DOMAIN e.fields |-> Eval(m, e.fields[f])]
        failed == {given[f] : f \in DOMAIN given}
    IN  IF Failures(vs) # << >> THEN Failures(vs)[1]
        ELSE IF ~Proper(m.heap, e, vs) THEN Stuck
        ELSE IF e.node = "logic"
        THEN IF vs[1] = Bool_(e.op = "and") THEN Eval(m, e.right) ELSE vs[1]
        ELSE IF e.node = "struct"
        THEN IF \E v \in failed : Failed(v) THEN CHOOSE v \in failed : Failed(v)
             ELSE Fresh(Object(StructType(e.name), given, 0))
        ELSE Apply(m, e, vs)

\* The slot a place names, its indices evaluated and checked on the way.
InStruct(m, c, name) ==
    CASE Failed(c) -> c
      [] c[1] = "obj" /\ IsStruct(m.heap[c[2]].type) -> Slot(c, name)
      [] OTHER -> Stuck
InSequence(m, c, i) ==
    CASE Failed(c) -> c
      [] Failed(i) -> i
      [] c[1] # "obj" -> Stuck
      [] OTHER -> LET x == At(m.heap[c[2]], i) IN IF Failed(x) THEN x ELSE Slot(c, i[2] + 1)

RECURSIVE PlaceRef(_, _)
PlaceRef(m, p) ==
    CASE p.node = "var" -> ref(m, p.name)
      [] p.node = "field" -> InStruct(m, Get(m, PlaceRef(m, p.base)), p.name)
      [] p.node = "index" -> InSequence(m, Get(m, PlaceRef(m, p.base)), Eval(m, p.index))
=============================================================================
