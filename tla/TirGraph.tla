------------------------------ MODULE TirGraph ------------------------------
(***************************************************************************)
(* The walk the validator makes of the structs a struct contains and of    *)
(* the functions a function calls (_check_acyclic of tir/validate.py): from *)
(* each declaration in order, depth first with its stack in its own hands, *)
(* a node settled once everything it reaches has been walked.  It refuses  *)
(* a chain that closes on itself, and one longer than MAX_DEPTH.           *)
(***************************************************************************)
EXTENDS Integers, Sequences, FiniteSets, SequencesExt

CONSTANTS Nodes,       \* the declarations, in the order they are walked: 1..N
          Degree,      \* bound: the most successors of one of them
          MAX_DEPTH
ASSUME NodesAssumption == {Nodes, MAX_DEPTH} \subseteq Nat \ {0} /\ Degree \in Nat

VARIABLES graph,       \* node -> the sequence of its successors
          root,        \* the declaration being walked from
          path,        \* from the root to where the walk is
          stack,       \* what is left of the successors of each node of the path
          settled, walks, verdict

vars == <<graph, root, path, stack, settled, walks, verdict>>

\* In the order the fields or the names give them, one as often as it is named.
Successors == UNION {[1..k -> 1..Nodes] : k \in 0..Degree}

Init ==
    /\ graph \in [1..Nodes -> Successors]
    /\ root = 0 /\ path = << >> /\ stack = << >> /\ settled = {}
    /\ walks = [n \in 1..Nodes |-> 0]
    /\ verdict = "walking"

Walking == verdict = "walking"
Settled(n) == n \in settled

Started ==
    /\ Walking /\ path = << >> /\ root < Nodes
    /\ root' = root + 1
    /\ IF Settled(root') THEN UNCHANGED <<path, stack, walks>>
       ELSE /\ path' = <<root'>> /\ stack' = <<graph[root']>>
            /\ walks' = [walks EXCEPT ![root'] = @ + 1]
    /\ UNCHANGED <<graph, settled, verdict>>

\* The last node of the path has no successor left: it is settled.
Retreat ==
    /\ Walking /\ path # << >> /\ Last(stack) = << >>
    /\ settled' = settled \union {Last(path)}
    /\ path' = Front(path) /\ stack' = Front(stack)
    /\ UNCHANGED <<graph, root, walks, verdict>>

\* Mutation: only a node that names itself is a cycle.
AdvanceSelf ==
    /\ Walking /\ path # << >> /\ Last(stack) # << >>
    /\ LET reached == Head(Last(stack))
           rest == [stack EXCEPT ![Len(stack)] = Tail(@)]
       IN  CASE reached = Last(path) ->
                  verdict' = "V-021" /\ UNCHANGED <<path, stack, walks>>
             [] Settled(reached) ->
                  stack' = rest /\ UNCHANGED <<path, walks, verdict>>
             [] OTHER ->
                  /\ path' = Append(path, reached)
                  /\ walks' = [walks EXCEPT ![reached] = @ + 1]
                  /\ IF Len(path') > MAX_DEPTH THEN verdict' = "V-044" /\ UNCHANGED stack
                     ELSE stack' = Append(rest, graph[reached]) /\ UNCHANGED verdict
    /\ UNCHANGED <<graph, root, settled>>

Advance ==
    /\ Walking /\ path # << >> /\ Last(stack) # << >>
    /\ LET reached == Head(Last(stack))
           rest == [stack EXCEPT ![Len(stack)] = Tail(@)]
       IN  CASE reached \in ToSet(path) ->
                  verdict' = "V-021" /\ UNCHANGED <<path, stack, walks>>
             [] Settled(reached) ->
                  stack' = rest /\ UNCHANGED <<path, walks, verdict>>
             [] OTHER ->
                  /\ path' = Append(path, reached)
                  /\ walks' = [walks EXCEPT ![reached] = @ + 1]
                  /\ IF Len(path') > MAX_DEPTH THEN verdict' = "V-044" /\ UNCHANGED stack
                     ELSE stack' = Append(rest, graph[reached]) /\ UNCHANGED verdict
    /\ UNCHANGED <<graph, root, settled>>

Accept ==
    /\ Walking /\ path = << >> /\ root = Nodes
    /\ verdict' = "accepted"
    /\ UNCHANGED <<graph, root, path, stack, settled, walks>>

Next == Started \/ Retreat \/ Advance \/ Accept
Spec == Init /\ [][Next]_vars

--------------------------------------------------------------------------
\* A chain of n + 1 declarations, each a successor of the one before.
Linked(p, n) == \A i \in 1..n : p[i] \in ToSet(graph[p[i - 1]])

\* Declarations among which one can go on for ever: a cycle, and what leads to
\* it inside the set.
Cyclic == \E C \in SUBSET (1..Nodes) :
              C # {} /\ \A n \in C : ToSet(graph[n]) \cap C # {}

\* A chain of more than n declarations, none of them twice.
DeeperThan(n) == \E p \in [0..n -> 1..Nodes] :
              Linked(p, n) /\ \A i, j \in 0..n : p[i] = p[j] => i = j

\* RefusedFairly: declarations are refused for a cycle only when they have one,
\* and for their depth only when a chain of them is deeper; accepted ones have no
\* cycle, which is_linear, sizeof and the zero value recurse on.
RefusedFairly ==
    /\ verdict = "V-021" => Cyclic
    /\ verdict = "V-044" => DeeperThan(MAX_DEPTH)
    /\ verdict = "accepted" => ~Cyclic

\* WalkedOnce: no node is walked twice, however many edges lead to it, so a chain
\* of diamonds does not cost 2^n.
WalkedOnce == \A n \in 1..Nodes : walks[n] <= 1

\* ChainsBounded: what the walk accepts has no chain longer than MAX_DEPTH, the
\* bound "the passes downstream need" (_check_acyclic's comment; rule V-044).
ChainsBounded == verdict = "accepted" => ~DeeperThan(MAX_DEPTH)

\* WalkRight: what the validator promises of declarations: each is walked once,
\* and a refusal has a cycle or a chain too long to show for it.
WalkRight == WalkedOnce /\ RefusedFairly
=============================================================================
