----------------------------- MODULE TirEndings -----------------------------
(***************************************************************************)
(* How bodies end: what the validator says of one without running it       *)
(* (_check_body and _check_switch of tir/validate.py, rules V-027, V-032   *)
(* to V-035), and how the interpreter leaves it (_body, _stmt and _while   *)
(* of tir/interp.py, which jump by raising).  Conditions and tags are not  *)
(* modelled: a body may take either branch and any variant of the enum.    *)
(* The functions are every body of up to two statements, one of them       *)
(* nesting bodies, alone or in a loop or in a branch.                      *)
(***************************************************************************)
EXTENDS Sequences, FiniteSets, SequencesExt

CONSTANT Variants        \* of the enum a switch is over

VARIABLES body, result   \* a function's body, and whether it has a result

Refused == "refused"
FALLS_THROUGH == "falls"
RETURNS == "returns"
JUMPS == "jumps"

\* Mutation: the second branch speaks for both.
combine_second(a, b) == IF Refused \in {a, b} THEN Refused ELSE b

combine(a, b) ==
    IF Refused \in {a, b} THEN Refused
    ELSE IF FALLS_THROUGH \in {a, b} THEN FALLS_THROUGH
    ELSE IF a = RETURNS /\ b = RETURNS THEN RETURNS ELSE JUMPS

CombineAll(endings) == FoldLeft(combine, Head(endings), Tail(endings))

\* Every variant once, by an arm of its own or by the default, and no default
\* that nothing is left for.
covers(s) ==
    LET seen == {s.arms[i].variant : i \in DOMAIN s.arms} IN
    /\ seen \subseteq Variants
    /\ Cardinality(seen) = Len(s.arms)
    /\ (seen = Variants) = (s.default = << >>)

\* The default of a switch is a sequence of none or one body.
Bodies(s) ==
    CASE s.node = "if" -> <<s.then, s.otherwise>>
      [] s.node = "while" -> <<s.body>>
      [] s.node = "switch" -> [i \in DOMAIN s.arms |-> s.arms[i].body] \o s.default
      [] OTHER -> << >>

RECURSIVE check_body(_, _, _)
check_stmt(s, res, in_loop) ==
    LET inner == [i \in DOMAIN Bodies(s) |->
                    check_body(Bodies(s)[i], res, in_loop \/ s.node = "while")]
    IN
    CASE s.node = "plain" -> FALLS_THROUGH
      [] s.node = "if" -> CombineAll(inner)
      [] s.node = "while" -> IF inner[1] = Refused THEN Refused ELSE FALLS_THROUGH
      [] s.node = "switch" -> IF covers(s) THEN CombineAll(inner) ELSE Refused
      [] s.node \in {"break", "continue"} -> IF in_loop THEN JUMPS ELSE Refused
      [] s.node = "return" -> IF s.value = res THEN RETURNS ELSE Refused

check_body(b, res, in_loop) ==
    FoldLeft(LAMBDA ending, s : IF ending # FALLS_THROUGH THEN Refused
                                ELSE check_stmt(s, res, in_loop),
             FALLS_THROUGH, b)

\* A function with a result may not reach its end.
check_function(b, res) ==
    LET ending == check_body(b, res, FALSE) IN
    ending # Refused /\ (res => ending = RETURNS)

--------------------------------------------------------------------------
(* The interpreter.                                                        *)

\* A loop runs its body as often as it likes, and takes its break and continue.
Loop(inner) == {FALLS_THROUGH} \union (inner \ {"break", "continue"})

\* The arms are tried in order; what no arm takes is the default's.
Taken(s, variant) ==
    LET arms == SelectSeq(s.arms, LAMBDA a : a.variant = variant) IN
    IF arms # << >> THEN <<arms[1].body>> ELSE s.default

RECURSIVE body_outcomes(_)
stmt_outcomes(s) ==
    CASE s.node = "plain" -> {FALLS_THROUGH}
      [] s.node \in {"break", "continue"} -> {s.node}
      [] s.node = "return" -> {IF s.value THEN "returns" ELSE "returns nothing"}
      [] s.node = "if" -> body_outcomes(s.then) \union body_outcomes(s.otherwise)
      [] s.node = "while" -> Loop(body_outcomes(s.body))
      [] s.node = "switch" ->
           UNION {IF Taken(s, v) = << >> THEN {"stuck"} ELSE body_outcomes(Taken(s, v)[1]) :
                    v \in Variants}
\* A body is run until a statement does not fall through.
body_outcomes(b) ==
    FoldLeft(LAMBDA outs, s : IF FALLS_THROUGH \in outs
                              THEN (outs \ {FALLS_THROUGH}) \union stmt_outcomes(s) ELSE outs,
             {FALLS_THROUGH}, b)

--------------------------------------------------------------------------
Plain == [node |-> "plain"]
Jumps == {[node |-> "break"], [node |-> "continue"]}
Returning == [node : {"return"}, value : BOOLEAN]
Leaves == {Plain} \union Jumps \union Returning
Small == {<< >>} \union {<<s>> : s \in Leaves}
Short == Small \union {<<s, t>> : s, t \in Leaves}

Ifs == [node : {"if"}, then : Short, otherwise : Small]
Whiles == [node : {"while"}, body : Short]
Arms == [variant : Variants \union {"Unknown"}, body : Small]
Switches == [node : {"switch"}, arms : {<< >>} \union {<<a>> : a \in Arms}
                                        \union {<<a, b>> : a \in Arms, b \in Arms},
             default : {<< >>} \union {<<b>> : b \in Small}]
Nested == Ifs \union Whiles \union Switches
Around(s) == {<<s>>} \union {<<s, t>> : t \in Leaves} \union {<<t, s>> : t \in Leaves}
             \union {<<[node |-> "while", body |-> <<s>>]>>,
                     <<[node |-> "if", then |-> <<s>>, otherwise |-> <<[node |-> "return", value |-> TRUE]>>]>>,
                     <<[node |-> "while", body |-> <<s, Plain>>], [node |-> "return", value |-> TRUE]>>}

Functions == result \in BOOLEAN /\ \E s \in Nested : body \in Around(s) \union Short

Outcomes == body_outcomes(body)

\* AlwaysReturns: a function the validator accepts is left by its end or by a
\* return that carries a value exactly when it declares one, never by a break or
\* a continue, and by its end only if it declares none; a switch always has a
\* body for its tag (_call takes whatever the body left as the result).
AlwaysReturns ==
    check_function(body, result) =>
       Outcomes \subseteq IF result THEN {"returns"} ELSE {"returns nothing", FALLS_THROUGH}

\* EndingExact: what the validator says of a body, of a function or of a loop, is
\* what running it does: it falls through exactly when some run of it does, a
\* function's returns exactly when every run does, and a statement let follow
\* another can be reached.
EndingExact ==
    \A in_loop \in BOOLEAN :
       LET ending == check_body(body, result, in_loop) IN
       ending # Refused =>
          /\ (ending = FALLS_THROUGH) = (FALLS_THROUGH \in Outcomes)
          /\ ~in_loop => (ending = RETURNS) = (Outcomes \in {{"returns"}, {"returns nothing"}})
          /\ \A i \in 1..(Len(body) - 1) : FALLS_THROUGH \in body_outcomes(SubSeq(body, 1, i))
=============================================================================
