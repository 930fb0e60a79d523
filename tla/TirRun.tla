------------------------------- MODULE TirRun -------------------------------
(***************************************************************************)
(* Programs for TirMachine: a linear struct L of two sequences, a copyable *)
(* struct C with a frozen sequence, and a sequence Q of the latter.        *)
(***************************************************************************)
EXTENDS TirMachine

V == VecType(U8, 1)
Q == VecType(StructType("C"), 2)
L == StructType("L")
C == StructType("C")
K == FrozenType(V)
TheStructs == [L |-> [a |-> V, b |-> V], C |-> [f |-> K, n |-> U8]]
TheEnums == [E |-> <<"On", "Off">>]
TheConsts == [EMPTY |-> [type |-> K, value |-> <<"vec", <<Int_(1)>> >>]]

Var(n) == [node |-> "var", name |-> n]
Field(b, n) == [node |-> "field", base |-> b, name |-> n]
Index(b, i) == [node |-> "index", base |-> b, index |-> i]
Lit(t, n) == [node |-> "lit", type |-> t, value |-> n]
LenOf(e) == [node |-> "len", arg |-> e]
ConstRef(n) == [node |-> "const", name |-> n]
Make(f, n) == [node |-> "struct", name |-> "C", fields |-> [f |-> f, n |-> n]]
N(i) == Lit(U32, i)
B(i) == Lit(U8, i)
Equal(l, r) == [node |-> "cmp", op |-> "eq", left |-> l, right |-> r]
ToCounter(e) == [node |-> "cast", type |-> COUNTER, arg |-> e]

Let(n, t, init) == [node |-> "let", name |-> n, type |-> t, init |-> init]
Two(node, dests, srcs) == [node : {node}, dest : dests, src : srcs]
Values(node, dests, values) == [node : {node}, dest : dests, value : values]
Seqs(node, seqs, values) == [node : {node}, seq : seqs, value : values]
Pops(seqs, dests) == [node : {"pop"}, seq : seqs, dest : dests]
Returns(values) == [node : {"return"}, value : values]
InArg(e) == [mode |-> "in", expr |-> e]
InoutArg(p) == [mode |-> "inout", place |-> p]
CallOf(fn, args, dest) == [node |-> "call", fn |-> fn, args |-> args, dest |-> dest]
Param(n, t, mode) == [name |-> n, type |-> t, mode |-> mode]

Zeroed(t) == Object(t, << >>, 0)
Cell(v) == Object(<<"cell">>, [value |-> v], 0)

--------------------------------------------------------------------------
(* Moving sequences between a struct, variables and a frozen variable.     *)

MoveFuncs == [moves |-> [params |-> <<Param("s", L, "inout")>>, ret |-> Nothing]]
S == Var("s")
MovePlaces == {S, Field(S, "a"), Field(S, "b"), Var("v"), Var("k")}
MoveStatements ==
    {Let("v", V, NoExpr), Let("k", K, NoExpr), Let("k", K, Var("k")), Let("v", V, Var("v"))}
    \union Two("take", MovePlaces, MovePlaces) \union Two("swap", MovePlaces, MovePlaces)
    \union Values("copy", MovePlaces, MovePlaces)
    \union Two("freeze", {Var("k"), Var("v")}, MovePlaces)
    \union Seqs("push", {Field(S, "a"), Var("v"), Var("k")},
                {B(1), Index(Var("v"), N(0)), Index(Field(S, "a"), N(0))})
    \union Values("assign", {Index(Var("v"), N(0)), Index(Var("k"), N(0)), Var("v")},
                  {B(0), Index(Var("k"), N(0)), Var("v")})
    \union Seqs("truncate", {Var("v"), Field(S, "b")}, {N(0)})
    \union {[node |-> "if", cond |-> Equal(LenOf(Var("v")), N(0))]}
MoveCalls ==
    LET h(b) == << Cell(Obj(2)), Object(L, [a |-> Obj(3), b |-> Obj(b)], 0), Zeroed(V), Zeroed(V)>>
    IN  {[fn |-> "moves", heap |-> h(4), args |-> <<Obj(1)>>]}

--------------------------------------------------------------------------
(* Elements: structs copied in and out of a sequence, and two functions    *)
(* that take some of them inout, at literal and at computed indices.       *)

ElementFuncs ==
    [elements |-> [params |-> <<Param("q", Q, "inout"), Param("k", K, "in")>>, ret |-> Nothing],
     pair |-> [params |-> <<Param("x", C, "inout"), Param("y", C, "inout")>>, ret |-> U8],
     tail |-> [params |-> <<Param("z", Q, "inout"), Param("x", C, "inout")>>, ret |-> Nothing]]
C1 == Var("c")
Qs == Var("q")
Computed == Index(Qs, [node |-> "cast", type |-> U32, arg |-> Field(C1, "n")])
First == Index(Qs, N(0))
ElementStatements ==
    {Let("c", C, NoExpr), Let("c", C, Make(Var("k"), B(1))), Let("c", C, First),
     Let("d", U8, Field(First, "n")),
     [node |-> "while", cond |-> Equal(LenOf(Qs), N(1)), variant |-> ToCounter(LenOf(Qs))],
     CallOf("pair", <<InoutArg(First), InoutArg(Index(Qs, N(1)))>>, Field(C1, "n")),
     CallOf("pair", <<InoutArg(First), InoutArg(Computed)>>, Var("d")),
     CallOf("pair", <<InoutArg(First), InoutArg(C1)>>, Field(Computed, "n")),
     CallOf("pair", <<InoutArg(First), InoutArg(C1)>>, NoExpr),
     CallOf("tail", <<InoutArg(Qs), InoutArg(C1)>>, NoExpr),
     CallOf("tail", <<InoutArg(Qs), InoutArg(First)>>, NoExpr)}
    \union Values("assign", {C1, First}, {C1, First, Computed, Index(Var("z"), N(0))})
    \union Values("assign", {Field(C1, "f"), Field(First, "f"), Var("k")},
                  {Var("k"), ConstRef("EMPTY"), Field(First, "f")})
    \union Values("assign", {Field(Var("x"), "n")}, {Field(Var("y"), "n"), B(1)})
    \union Two("swap", {First, Var("x")}, {C1, First, Var("y")})
    \union Two("take", {C1}, {First, Computed})
    \union Seqs("push", {Qs}, {C1, First})
    \union Seqs("push", {Var("z")}, {Var("x")})
    \union Pops({Qs}, {C1, First}) \union Pops({Var("z")}, {Var("x")})
    \union Seqs("truncate", {Qs}, {N(0), N(1)})
    \union Seqs("reserve", {Qs}, {N(1), N(3)})
    \union Returns({Field(Var("x"), "n"), B(2)})
ElementCalls ==
    {[fn |-> "elements", heap |-> <<Cell(Obj(2)), Zeroed(Q), Object(V, <<Int_(0)>>, 1)>>,
      args |-> <<Obj(1), Frozen(Obj(3))>>]}

--------------------------------------------------------------------------
(* Calls: sequences and structs passed inout, through two levels, from a   *)
(* host that may have two arguments share an object.                       *)

CallFuncs ==
    [calls |-> [params |-> <<Param("s", L, "inout"), Param("v", V, "inout"),
                            Param("k", K, "in")>>, ret |-> Nothing],
     both |-> [params |-> <<Param("l", L, "inout"), Param("w", V, "inout")>>, ret |-> Nothing],
     move |-> [params |-> <<Param("p", V, "inout"), Param("r", V, "inout"),
                            Param("x", U8, "in")>>, ret |-> U8],
     given |-> [params |-> <<Param("g", C, "in"), Param("y", C, "inout")>>, ret |-> C],
     lent |-> [params |-> <<Param("p", V, "in")>>, ret |-> Nothing],
     lend |-> [params |-> <<Param("p", V, "inout")>>, ret |-> V]]
P == Var("p")
R == Var("r")
Move(p, r, x, dest) == CallOf("move", <<InoutArg(p), InoutArg(r), InArg(x)>>, dest)
CallStatements ==
    {Move(Field(S, "a"), Field(S, "b"), B(1), Index(Var("v"), N(0))),
     Move(Field(S, "a"), Field(S, "a"), B(1), Index(Var("v"), N(0))),
     Move(Field(S, "a"), Var("v"), B(1), Index(Field(S, "b"), N(0))),
     Move(Field(S, "a"), Var("v"), B(1), Index(Var("v"), N(0))),
     Move(Field(S, "a"), Var("v"), Index(Var("v"), N(0)), Index(Field(S, "b"), N(0))),
     CallOf("both", <<InoutArg(S), InoutArg(Var("v"))>>, NoExpr),
     CallOf("both", <<InoutArg(S), InoutArg(Field(S, "a"))>>, NoExpr),
     Move(Field(Var("l"), "a"), Var("w"), B(1), Index(Field(Var("l"), "b"), N(0))),
     [node |-> "take", dest |-> Field(Var("l"), "a"), src |-> Var("w")],
     [node |-> "copy", dest |-> Var("w"), value |-> Var("k")],
     [node |-> "copy", dest |-> Var("v"), value |-> Var("k")],
     [node |-> "take", dest |-> P, src |-> R], [node |-> "swap", dest |-> P, src |-> R],
     [node |-> "take", dest |-> P, src |-> P],
     [node |-> "push", seq |-> P, value |-> Var("x")],
     [node |-> "push", seq |-> P, value |-> Index(P, N(0))],
     [node |-> "truncate", seq |-> R, value |-> LenOf(P)],
     Let("c", C, NoExpr),
     [node |-> "assign", dest |-> Field(C1, "f"), value |-> Var("k")],
     [node |-> "assign", dest |-> Var("y"), value |-> Var("g")],
     [node |-> "assign", dest |-> Field(Var("g"), "n"), value |-> B(1)],
     CallOf("given", <<InArg(C1), InoutArg(C1)>>, NoExpr),
     CallOf("given", <<InArg(Make(Var("k"), B(1))), InoutArg(C1)>>, NoExpr),
     CallOf("given", <<InArg(Make(Var("k"), B(1))), InoutArg(C1)>>, C1),
     CallOf("lent", <<InArg(Var("v"))>>, NoExpr),
     CallOf("lend", <<InoutArg(Var("v"))>>, Field(S, "a")),
     [node |-> "return", value |-> Var("g")], [node |-> "return", value |-> P],
     [node |-> "return", value |-> Var("x")], [node |-> "return", value |-> NoExpr]}
HostedCalls ==
    LET h(b, w, f) == <<Cell(Obj(2)), Object(L, [a |-> Obj(3), b |-> Obj(b)], 0), Zeroed(V),
                        Object(V, <<Int_(1)>>, 1), Cell(Obj(w)), Zeroed(V),
                        Object(V, <<Int_(1)>>, 1)>>
    IN  {[fn |-> "calls", heap |-> h(4, w, f), args |-> <<Obj(1), Obj(5), Frozen(Obj(f))>>] :
           w \in {3, 4, 6}, f \in {3, 6, 7}}
--------------------------------------------------------------------------
(* The three programs, and what the host calls of each.                    *)

TheFuncs == MoveFuncs @@ ElementFuncs @@ CallFuncs
TheStatements == [f \in DOMAIN TheFuncs |->
    CASE f \in DOMAIN MoveFuncs -> MoveStatements
      [] f \in DOMAIN ElementFuncs -> ElementStatements
      [] f \in DOMAIN CallFuncs -> CallStatements]
TheDepth == [f \in DOMAIN TheFuncs |->
    CASE f \in {"moves", "elements", "calls"} -> 0
      [] f \in {"pair", "tail", "both"} -> 1
      [] OTHER -> 2]
TheCalls == MoveCalls \union ElementCalls \union HostedCalls
TheBounds == [moves |-> 8, elements |-> 7, calls |-> 9]
=============================================================================
