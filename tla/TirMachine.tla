----------------------------- MODULE TirMachine -----------------------------
(***************************************************************************)
(* The reference interpreter of TIR running functions the validator        *)
(* accepts.                                                                *)
(*                                                                         *)
(* A function's body is not written down beforehand: at each step any      *)
(* statement of Statements that the validator accepts where control stands *)
(* runs next, so a behaviour is one run of some accepted program and the   *)
(* model walks them all.  A call may only go to a deeper function, which   *)
(* is what an acyclic call graph comes to; a function with a result is     *)
(* left only by a return, which TirEndings shows of the bodies accepted.   *)
(* Objects nothing reaches are dropped, and the others take their names    *)
(* from where they are found.                                              *)
(***************************************************************************)
EXTENDS TirHeap

CONSTANTS Statements,   \* function -> the statements it may be written with
          Depth,        \* function -> its place in the acyclic call graph
          HostCalls,    \* what the host may call: [fn, heap, args]
          MaxObjects,   \* function the host calls -> bound: objects on the heap
          MaxBlocks     \* bound: bodies open in one function

VARIABLES heap,      \* object -> [type, slots, cap]
          frames,    \* the functions running, the latest last
          outcome,   \* "running", "refused", "done", "variant", or a failure
          melted     \* has a step changed what a frozen value holds?

vars == <<heap, frames, outcome, melted>>
Here == [heap |-> heap, frames |-> frames]
top == Last(frames)

--------------------------------------------------------------------------
(* The host's call.  An argument is an object; a cell holds the value of   *)
(* an inout parameter in its one slot.                                     *)

Reached(h, arg) == Objects(h, arg, TRUE)
Writable(h, arg, mode) == IF mode = "inout" THEN Objects(h, arg, FALSE) ELSE {}

\* Nothing one argument can write may be reachable from another.
Overlapping(h, args, params) ==
    \E i, j \in DOMAIN args :
       i # j /\ Writable(h, args[i], params[i].mode) \intersect Reached(h, args[j]) # {}

\* What a parameter is called, and where its value is.
Aliased(params, slots) ==
    [n \in {params[i].name : i \in {i \in DOMAIN params : params[i].mode = "inout"}} |->
       slots[CHOOSE i \in DOMAIN params : params[i].name = n]]
Scope(params) ==
    FoldSeq(LAMBDA p, sc : declare(sc, p.name, p.type, p.mode = "inout"),
            [bindings |-> << >>, live |-> {}], params)

Frame(fn, locals, aliases, dest) ==
    [fn |-> fn, locals |-> locals, aliases |-> aliases, dest |-> dest,
     scope |-> Scope(Funcs[fn].params), blocks |-> << >>]

\* The inner machine of a call: the arguments resolved from left to right.
RECURSIVE Bound(_, _, _, _, _)
Bound(m, args, params, i, frame) ==
    IF i > Len(args) THEN [failure |-> <<"", "">>, heap |-> m.heap, frame |-> frame] ELSE
    LET arg == args[i]
        got == IF arg.mode = "in" THEN Eval(m, arg.expr) ELSE PlaceRef(m, arg.place)
        in == Stored(m.heap, got)
        name == params[i].name
    IN  IF Failed(got) THEN [failure |-> got, heap |-> m.heap, frame |-> frame]
        ELSE IF arg.mode = "in"
        THEN Bound([m EXCEPT !.heap = in.heap], args, params, i + 1,
                   [frame EXCEPT !.locals = (name :> in.value) @@ @])
        ELSE Bound(m, args, params, i + 1, [frame EXCEPT !.aliases = (name :> got) @@ @])

\* The host's frame: a copy of what it passes in, the cells behind the rest.
HostCall(fn, h, args) ==
    LET params == Funcs[fn].params
        given == {i \in DOMAIN params : params[i].mode = "in"}
        Keep(i, acc) ==
            LET in == Stored(acc.heap, Read(acc.heap, args[i])) IN
            [heap |-> in.heap, locals |-> (params[i].name :> in.value) @@ acc.locals]
        kept == FoldSet(Keep, [heap |-> h, locals |-> << >>], given)
    IN  [heap |-> kept.heap,
         frames |-> <<Frame(fn, kept.locals,
                            Aliased(params, [i \in DOMAIN params |-> Slot(args[i], "value")]),
                            NoExpr)>>]

\* The objects in the order a walk of the frames meets them.
RECURSIVE Walk(_, _)
Walk(h, v) ==
    CASE v[1] = "frozen" -> Walk(h, v[2])
      [] v[1] = "obj" -> <<v[2]>> \o FlattenSeq(
           LET keys == SetToSeq(DOMAIN h[v[2]].slots) IN
           [i \in DOMAIN keys |-> Walk(h, h[v[2]].slots[keys[i]])])
      [] OTHER -> << >>
Walked(h, slots) == LET keys == SetToSeq(DOMAIN slots) IN
                    FlattenSeq([i \in DOMAIN keys |-> Walk(h, slots[keys[i]])])
Trail(m) ==
    FlattenSeq([i \in DOMAIN m.frames |->
       Walked(m.heap, m.frames[i].locals)
         \o Walked(m.heap, [n \in DOMAIN m.frames[i].aliases |-> m.frames[i].aliases[n][2].at])])
Naming(trail) ==
    [id \in ToSet(trail) |->
       Cardinality({trail[i] : i \in 1..(CHOOSE i \in DOMAIN trail :
                                           trail[i] = id /\ id \notin {trail[j] : j \in 1..(i - 1)})})]

RECURSIVE Renamed(_, _)
Renamed(names, v) ==
    CASE v[1] = "frozen" -> Frozen(Renamed(names, v[2]))
      [] v[1] = "obj" -> Obj(names[v[2]])
      [] OTHER -> v
All(names, slots) == [k \in DOMAIN slots |-> Renamed(names, slots[k])]
Tidied(m, names) ==
    [heap |-> [n \in Range(names) |->
                 LET o == m.heap[CHOOSE id \in DOMAIN names : names[id] = n] IN
                 [o EXCEPT !.slots = All(names, @)]],
     frames |-> [i \in DOMAIN m.frames |->
                   [m.frames[i] EXCEPT
                      !.locals = All(names, @),
                      !.aliases = [n \in DOMAIN @ |->
                                     Slot(Renamed(names, @[n][2].at), @[n][2].key)]]]]

Init ==
    /\ melted = FALSE
    /\ \E call \in HostCalls :
         IF Overlapping(call.heap, call.args, Funcs[call.fn].params)
         THEN heap = << >> /\ frames = << >> /\ outcome = <<"refused", "">>
         ELSE \E m \in {HostCall(call.fn, call.heap, call.args)} :
              \E tidy \in {Tidied(m, Naming(Trail(m)))} :
                 /\ heap = tidy.heap
                 /\ frames = tidy.frames
                 /\ outcome = <<"running", "">>

--------------------------------------------------------------------------
(* How a statement ends: with the machine it leaves, or with a failure.    *)

FrozenIn(h, slots) ==
    UNION {IF slots[k][1] = "frozen" THEN Objects(h, slots[k], TRUE) ELSE {} : k \in DOMAIN slots}
FrozenObjects == UNION {FrozenIn(heap, heap[id].slots) : id \in DOMAIN heap}
                 \union UNION {FrozenIn(heap, frames[i].locals) : i \in DOMAIN frames}

Leave(m) ==
    /\ \E tidy \in {Tidied(m, Naming(Trail(m)))} :
         /\ Cardinality(DOMAIN tidy.heap) <= MaxObjects[frames[1].fn]
         /\ heap' = tidy.heap
         /\ frames' = tidy.frames
    /\ melted' = (melted \/ \E id \in FrozenObjects : m.heap[id] # heap[id])
    /\ UNCHANGED outcome
Fail(v) == outcome' = v /\ UNCHANGED <<heap, frames, melted>>

\* Go on to the machine m unless one of the results is a failure.
Settle(results, m) ==
    IF Failures(results) # << >> THEN Fail(Failures(results)[1])
    ELSE \E n \in {m} : Leave(n)

Replace(frame) == [frames EXCEPT ![Len(frames)] = frame]

\* The statements the validator accepts where control stands.
Accepted == {s \in Statements[top.fn] : check_stmt(s, top.scope, Funcs[top.fn].ret)}

Running == outcome[1] = "running"

--------------------------------------------------------------------------
(* The statements that run straight through.                               *)

\* The name is known to the body it stands in, and dropped when that closes.
Declared(frame, name, type) ==
    LET n == Len(frame.blocks) IN
    [frame EXCEPT !.scope = declare(@, name, type, TRUE),
                  !.blocks = IF n = 0 THEN @ ELSE [@ EXCEPT ![n].introduced = @ \union {name}]]
Let_(s) ==
    \E v \in {IF s.init = NoExpr THEN Zero(s.type) ELSE Eval(Here, s.init)} :
       Settle(<<v>>, LET n == Len(frames)
                         m == Set(Here, Slot(FrameOf(n), s.name), v)
                     IN  [m EXCEPT !.frames[n] = Declared(@, s.name, s.type)])

Assign(s) ==
    \E d \in {PlaceRef(Here, s.dest)}, v \in {Eval(Here, s.value)} :
       Settle(<<d, v>>, Set(Here, d, v))

\* The source is left with the zero value of its type, and then the
\* destination gets what the source held.
Moved(s, Made(_)) ==
    \E d \in {PlaceRef(Here, s.dest)}, r \in {PlaceRef(Here, s.src)} :
       \E v \in {Get(Here, r)} :
          Settle(<<d, r, v>>, Set(Set(Here, r, Zero(place_type(s.src, top.scope))), d, Made(v)))
Take(s) == Moved(s, LAMBDA v : v)
\* Mutation: the source keeps what was frozen.
FreezeShared(s) ==
    \E d \in {PlaceRef(Here, s.dest)}, r \in {PlaceRef(Here, s.src)} :
       \E v \in {Get(Here, r)} : Settle(<<d, r, v>>, Set(Here, d, Frozen(v)))
Freeze(s) == Moved(s, LAMBDA v : Frozen(v))

Swap(s) ==
    \E a \in {PlaceRef(Here, s.dest)}, b \in {PlaceRef(Here, s.src)} :
       \E left \in {Get(Here, a)}, right \in {Get(Here, b)} :
          Settle(<<a, b, left, right>>, Set(Set(Here, a, right), b, left))

Copy(s) ==
    \E d \in {PlaceRef(Here, s.dest)}, v \in {Eval(Here, s.value)} :
       Settle(<<d, v>>, Set(Here, d, Deep(heap, Thawed(v))))

\* The sequence a place holds, for the statements that change one in place.
Sequence_(p) == LET c == Get(Here, PlaceRef(Here, p)) IN
                IF Failed(c) \/ (c[1] = "obj" /\ IsSequence(heap[c[2]].type)) THEN c ELSE Stuck
Changed(h, id, slots, cap) ==
    [frames |-> frames, heap |-> [h EXCEPT ![id] = [@ EXCEPT !.slots = slots, !.cap = cap]]]

\* Twice the capacity and four at the least, up to the declared maximum.
Grown(o) ==
    LET twice == IF o.cap < 2 THEN 4 ELSE 2 * o.cap IN
    IF Len(o.slots) < o.cap THEN o.cap
    ELSE IF twice > DeclaredMax(o.type) THEN DeclaredMax(o.type) ELSE twice

Push(s) ==
    \E c \in {Sequence_(s.seq)}, v \in {Eval(Here, s.value)} :
       IF Failures(<<c, v>>) = << >> /\ Len(heap[c[2]].slots) >= DeclaredMax(heap[c[2]].type)
       THEN Fail(Trap("T-05"))
       ELSE Settle(<<c, v>>, LET in == Stored(heap, v)
                                 o == heap[c[2]]
                             IN  Changed(in.heap, c[2], Append(o.slots, in.value), Grown(o)))

Pop(s) ==
    \E c \in {Sequence_(s.seq)}, d \in {PlaceRef(Here, s.dest)} :
       IF Failures(<<c, d>>) = << >> /\ heap[c[2]].slots = << >> THEN Fail(Trap("T-02"))
       ELSE Settle(<<c, d>>, LET o == heap[c[2]] IN
                             Set(Changed(heap, c[2], Front(o.slots), o.cap), d, Last(o.slots)))

Truncate(s) ==
    \E c \in {Sequence_(s.seq)}, n \in {Eval(Here, s.value)} :
       IF Failures(<<c, n>>) = << >> /\ n[2] > Len(heap[c[2]].slots) THEN Fail(Trap("T-03"))
       ELSE Settle(<<c, n>>, LET o == heap[c[2]] IN
                             Changed(heap, c[2], SubSeq(o.slots, 1, n[2]), o.cap))

Reserve(s) ==
    \E c \in {Sequence_(s.seq)}, n \in {Eval(Here, s.value)} :
       IF Failures(<<c, n>>) = << >> /\ n[2] > DeclaredMax(heap[c[2]].type)
       THEN Fail(Trap("T-04"))
       ELSE Settle(<<c, n>>, LET o == heap[c[2]] IN
                             Changed(heap, c[2], o.slots, IF n[2] > o.cap THEN n[2] ELSE o.cap))

--------------------------------------------------------------------------
(* Bodies.  A block is a body that is open; a loop's stays open while its  *)
(* condition is tested.                                                    *)

Block(kind, stmt) == [kind |-> kind, stmt |-> stmt, introduced |-> {},
                      testing |-> kind = "loop", previous |-> -1]
Opened(kind, stmt) ==
    Leave([Here EXCEPT !.frames = Replace([top EXCEPT !.blocks = Append(@, Block(kind, stmt))])])

\* The frame with its blocks from level n on closed, their names gone with them.
Closed(frame, n) ==
    LET names == UNION {frame.blocks[i].introduced : i \in n..Len(frame.blocks)} IN
    [frame EXCEPT !.blocks = SubSeq(@, 1, n - 1),
                  !.locals = [x \in DOMAIN @ \ names |-> @[x]],
                  !.scope.live = @ \ names]

If(s) == \E b \in {Eval(Here, s.cond)} : IF Failed(b) THEN Fail(b) ELSE Opened("body", s)
While(s) == Opened("loop", s)

\* The names of an iteration are the names of the next one.
Again(frame, n) ==
    LET names == UNION {frame.blocks[i].introduced : i \in n..Len(frame.blocks)}
        out == Closed(frame, n)
    IN  [out EXCEPT !.blocks = Append(@, [frame.blocks[n] EXCEPT !.introduced = {},
                                                                 !.testing = TRUE]),
                    !.scope.bindings = [x \in DOMAIN @ \ names |-> @[x]]]

Loops == {i \in DOMAIN top.blocks : top.blocks[i].kind = "loop"}
Testing == top.blocks # << >> /\ Last(top.blocks).testing

\* The condition, then the variant, which must have fallen since the last time.
Test ==
    /\ Running /\ Testing
    /\ \E n \in {Len(top.blocks)} :
       \E b \in {Eval(Here, top.blocks[n].stmt.cond)} :
       \E measure \in {Eval(Here, top.blocks[n].stmt.variant)} :
          CASE Failed(b) -> Fail(b)
            [] b = Bool_(FALSE) -> Leave([Here EXCEPT !.frames = Replace(Closed(top, n))])
            [] OTHER ->
                 IF \/ Failed(measure)
                    \/ top.blocks[n].previous >= 0 /\ measure[2] >= top.blocks[n].previous
                 THEN Fail(<<"variant", "">>)
                 ELSE Leave([Here EXCEPT !.frames =
                        Replace([top EXCEPT !.blocks[n].testing = FALSE,
                                            !.blocks[n].previous = measure[2]])])

CloseBody ==
    /\ Running /\ ~Testing /\ top.blocks # << >>
    /\ LET n == Len(top.blocks) IN
       Leave([Here EXCEPT !.frames =
         Replace(IF top.blocks[n].kind = "loop" THEN Again(top, n) ELSE Closed(top, n))])

Break ==
    /\ Running /\ ~Testing /\ Loops # {}
    /\ Leave([Here EXCEPT !.frames = Replace(Closed(top, Max(Loops)))])

Continue ==
    /\ Running /\ ~Testing /\ Loops # {}
    /\ Leave([Here EXCEPT !.frames = Replace(Again(top, Max(Loops)))])

--------------------------------------------------------------------------
(* Calls.                                                                  *)

Call(s) ==
    \E bound \in {Bound(Here, s.args, Funcs[s.fn].params, 1,
                        Frame(s.fn, << >>, << >>, s.dest))} :
       IF Failed(bound.failure) THEN Fail(bound.failure)
       ELSE Leave([heap |-> bound.heap, frames |-> Append(frames, bound.frame)])

\* The destination is resolved once the callee is gone.
Returned(v) ==
    IF Len(frames) = 1
    THEN Fail(<<"done", "">>)
    ELSE \E in \in {Stored(heap, v)} : \E m \in {[heap |-> in.heap, frames |-> Front(frames)]} :
           IF top.dest = NoExpr THEN Leave(m)
           ELSE \E d \in {PlaceRef(m, top.dest)} : Settle(<<d>>, Set(m, d, in.value))

Return(s) ==
    \E v \in {IF s.value = NoExpr THEN Int_(0) ELSE Eval(Here, s.value)} :
       IF Failed(v) THEN Fail(v) ELSE Returned(v)
FallOff ==
    /\ Running /\ top.blocks = << >> /\ Funcs[top.fn].ret = Nothing
    /\ Returned(Int_(0))

--------------------------------------------------------------------------
Execute(s) ==
    \/ s.node = "let" /\ Let_(s)
    \/ s.node = "assign" /\ Assign(s)
    \/ s.node = "take" /\ Take(s)
    \/ s.node = "swap" /\ Swap(s)
    \/ s.node = "copy" /\ Copy(s)
    \/ s.node = "freeze" /\ Freeze(s)
    \/ s.node = "push" /\ Push(s)
    \/ s.node = "pop" /\ Pop(s)
    \/ s.node = "truncate" /\ Truncate(s)
    \/ s.node = "reserve" /\ Reserve(s)
    \/ s.node = "if" /\ Len(top.blocks) < MaxBlocks /\ If(s)
    \/ s.node = "while" /\ Len(top.blocks) < MaxBlocks /\ While(s)
    \/ s.node = "return" /\ Return(s)
    \/ s.node = "call" /\ /\ check_signature(Funcs[s.fn])
                         /\ Depth[s.fn] > Depth[top.fn]
                         /\ Call(s)

Next ==
    \/ Running /\ ~Testing /\ \E s \in Accepted : Execute(s)
    \/ Test \/ CloseBody \/ Break \/ Continue \/ FallOff
Spec == Init /\ [][Next]_vars

--------------------------------------------------------------------------
(* Properties.                                                             *)

\* Every slot there is, and what it holds.
Everywhere == UNION {{Slot(FrameOf(i), n) : n \in DOMAIN frames[i].locals} : i \in DOMAIN frames}
              \union UNION {{Slot(Obj(id), k) : k \in DOMAIN heap[id].slots} : id \in DOMAIN heap}
Holding(v) == {s \in Everywhere : Get(Here, s) = v}
RECURSIVE Fits(_, _)
Fits(v, t) ==
    CASE t = BOOL -> v[1] = "bool"
      [] t \in INTEGERS -> v[1] = "int" /\ v[2] \in INT_RANGE(t)
      [] IsEnum(t) -> v[1] = "tag" /\ v[2] \in ToSet(Enums[t[2]])
      [] IsFrozen(t) -> v[1] = "frozen" /\ Fits(v[2], t[2])
      [] OTHER -> IsObject(v) /\ Body(heap, v).type = t

\* TypesHold: whatever accepted statements have run, every slot holds a value of
\* the type it was declared with, and no sequence is longer than its capacity or
\* has more of it than its type allows (the growth schedule of _stmt's Push, the
\* zero value a Take or a Freeze leaves behind).
TypesHold ==
    /\ \A id \in DOMAIN heap :
         LET o == heap[id] IN
         CASE IsStruct(o.type) ->
                /\ DOMAIN o.slots = DOMAIN Structs[o.type[2]]
                /\ \A f \in DOMAIN o.slots : Fits(o.slots[f], Structs[o.type[2]][f])
           [] IsSequence(o.type) ->
                /\ Len(o.slots) <= o.cap /\ o.cap <= DeclaredMax(o.type)
                /\ \A k \in DOMAIN o.slots : Fits(o.slots[k], ElementType(o.type))
           [] OTHER -> TRUE
    /\ \A i \in DOMAIN frames :
         /\ DOMAIN frames[i].locals \union DOMAIN frames[i].aliases = frames[i].scope.live
         /\ \A n \in frames[i].scope.live :
              LET m == [heap |-> heap, frames |-> SubSeq(frames, 1, i)] IN
              Fits(Get(m, ref(m, n)), frames[i].scope.bindings[n].type)

\* NeverStuck: a run of accepted statements ends by returning or by one of the
\* traps, and never meets a name that is not there, a value that is not the kind
\* of thing the statement takes, or a slot that has gone (the assertions of
\* _stmt, _place and _eval).
NeverStuck == outcome # Stuck
RunsAsTyped == NeverStuck /\ TypesHold

\* OneOwner: there is no aliasing.  A mutable sequence or struct is held in one
\* slot only, and what a frozen value holds is held by nothing that could write
\* it, wherever take, swap, copy, freeze, calls and returns have moved it.
OneOwner ==
    \A id \in DOMAIN heap :
       /\ Cardinality(Holding(Obj(id))) <= 1
       /\ Holding(Frozen(Obj(id))) # {} => Holding(Obj(id)) = {}

\* FrozenStands: what has been frozen never changes again, so that two views of
\* it may be shared (the frozen case of _deep and _read).
FrozenStands == ~melted

\* AliasesStand: while a function runs, each of its inout parameters is a slot
\* that still exists and still belongs to the variable the caller named, and no
\* two of its parameters reach one object (rule V-022 and the footprint check of
\* Interpreter.call, for the references _call takes before the callee runs).
Cells == {id \in DOMAIN heap : heap[id].type = <<"cell">>}
Owned == Cells \union UNION {Objects(heap, Get(Here, s), FALSE) : s \in Everywhere}
Spread(slot) == Objects(heap, Get(Here, slot), FALSE)
Inside(slot, in) == slot = in \/ (slot[2].at[1] = "obj" /\ slot[2].at[2] \in Spread(in))
AliasesStand ==
    \A i \in DOMAIN frames : \A n \in DOMAIN frames[i].aliases :
       LET a == frames[i].aliases[n] IN
       /\ Present(Here, a)
       /\ a[2].at[1] = "obj" => a[2].at[2] \in Owned
       /\ \A o \in DOMAIN frames[i].aliases \ {n} : ~Inside(a, frames[i].aliases[o])
       /\ \A l \in DOMAIN frames[i].locals :
            Spread(a) \intersect Objects(heap, frames[i].locals[l], TRUE) = {}

\* There is no aliasing, in the heap and in the frames: what one name writes no
\* other name reads.
NoAliasing == OneOwner /\ AliasesStand
=============================================================================
