----------------------------- MODULE ParserRun -----------------------------
(***************************************************************************)
(* The patterns the parser is tried on, and what must hold of a pass.  A   *)
(* pattern is put together from tokens, so that what it says can be read   *)
(* off them without the parser.  Some are parsed twice: as they stand, and *)
(* with something the lexer does not see put in between two of the tokens. *)
(***************************************************************************)
EXTENDS Parser

VARIABLES
  about,      \* what the pattern is tried for, fixed by Init
  toks,       \* its tokens
  turns,      \* how many turns the loops have taken
  pat2, at2, quoting2, cls2, w2, phase2     \* the second pass

second == <<pat2, at2, quoting2, cls2, w2, phase2>>
allVars == <<vars, about, toks, turns, second>>

Filled == INSTANCE Parser WITH pat <- pat2, at <- at2, quoting <- quoting2,
                               cls <- cls2, w <- w2, phase <- phase2

\* Bytes alone: every string after a few openings.
Singles(set) == {<<c>> : c \in set}
Raw ==
  {[tokens |-> Singles({"(", ")", "*", "?", "|", "a", "\\", "{", "^", "+"}), many |-> 4, before |-> <<>>, opts |-> {}],
   [tokens |-> Singles({")", "i", "-", "x", ":", "^", "1", "P", "<", "#", "=", "C", "'", "a", "!", "r"}), many |-> 3,
    before |-> <<<<"(">>, <<"?">>>>, opts |-> {}],
   [tokens |-> Singles({"x", "{", "}", "1", "0", "8", "o", "g", "k", "<", ">", "p", "c", "n", "-", "Q", "E", "G"}), many |-> 3,
    before |-> <<<<"\\">>>>, opts |-> {}],
   [tokens |-> Singles({"a", "{", "}", "1", "2", "3", ",", " "}), many |-> 4, before |-> <<<<"a">>, <<"{">>>>, opts |-> {}],
   [tokens |-> Singles({"]", "[", "^", "-", "\\", "a", "Z", "Q", "E", "d", ":"}), many |-> 4,
    before |-> <<<<"[">>>>, opts |-> {"CASELESS"}],
   [tokens |-> Singles({"]", "-", "\\", "a", "E", "Q"}), many |-> 4, before |-> <<<<"[", "\\", "Q">>>>, opts |-> {}],
   [tokens |-> Singles({"a", "\\", "E", "Q"}), many |-> 4, before |-> <<<<"\\", "Q">>>>, opts |-> {"CASELESS"}],
   [tokens |-> Singles({"]", "a", "^", "LF"}) \cup {<<"d", "i", "g", "i", "t">>, <<"l", "o", "w", "e", "r">>}, many |-> 3,
    before |-> <<<<"[">>, <<"[">>, <<":">>>>, opts |-> {"CASELESS"}],
   [tokens |-> Singles({".", "]", "a"}), many |-> 4, before |-> <<<<"[">>, <<"[">>, <<".">>>>, opts |-> {}],
   [tokens |-> {<<":", "]">>, <<"]">>, <<"-">>, <<"z">>}, many |-> 3,
    before |-> <<<<"[">>, <<"[">>, <<":">>, <<"d", "i", "g", "i", "t">>>>, opts |-> {}],
   [tokens |-> {<<":", "]">>, <<"]">>, <<"-">>, <<"z">>}, many |-> 4, before |-> <<<<"[">>, <<"[">>, <<":">>>>, opts |-> {}],
   [tokens |-> Singles({" ", "#", "a", "*", "LF", "CR", ".", "$", "^"}), many |-> 4, before |-> <<>>, opts |-> {"EXTENDED"}]}

Cap == <<"(">>
Non == <<"(", "?", ":">>
Name == <<"(", "?", "<", "n", ">">>
Close == <<")">>
Bar == <<"|">>
Star == <<"*">>
Twice == <<"{", "2", "}">>
Maybe == <<"?">>
Lit == <<"a">>
On(c) == <<"(", "?", c, ")">>
Off(c) == <<"(", "?", "-", c, ")">>
Inside(c) == <<"(", "?", c, ":">>

\* Groups, branches and quantifiers, and the options in force among them.
Shapes ==
  {[tokens |-> {Lit, Cap, Non, Close, Bar, Twice, Maybe}, many |-> 5, before |-> <<>>, opts |-> {}],
   [tokens |-> {Lit, Non, Close, Bar, On("i"), Off("i"), Inside("i")}, many |-> 5, before |-> <<>>, opts |-> {}],
   [tokens |-> {Lit, Cap, Close, Bar, Star, On("U"), On("s"), <<".">>}, many |-> 4, before |-> <<>>, opts |-> {}],
   [tokens |-> {Cap, Close, Bar, Name, Lit}, many |-> 2, before |-> <<Cap, Cap, Cap>>, opts |-> {"CASELESS"}]}

\* The items pcre2 would possessify against one another, and others.
Slash(c) == <<"\\", c>>
Possessives ==
  {[tokens |-> {Slash("S"), Slash("R"), Slash("s"), Slash("h"), Star, Twice, Non, Close, Bar}, many |-> 4,
    before |-> <<>>, opts |-> {}],
   [tokens |-> {Slash("R"), Slash("s"), Star, Close, Twice, <<".">>, Bar}, many |-> 5, before |-> <<Non>>, opts |-> {}]}

\* References behind, across and ahead of the groups they name.
References ==
  {[tokens |-> {Cap, Name, Close, Slash("1"), Slash("2"), <<"\\", "g", "{", "-", "1", "}">>,
                <<"\\", "g", "{", "+", "1", "}">>, <<"\\", "k", "<", "n", ">">>}, many |-> 5,
    before |-> <<>>, opts |-> {}]}

-----------------------------------------------------------------------------
(* What the lexer does not see: a comment, a pair of quotes around nothing,  *)
(* the white space and comments of EXTENDED.                                 *)

Comments == {<<"(", "?", "#", "x", ")">>}
Quotes == {<<"\\", "E">>, <<"\\", "Q", "\\", "E">>}
Blankness == {<<" ">>, <<"LF">>, <<"#", "x", "LF">>} \cup Comments
Set == {Slash("d"), <<"[", ":", "d", "i", "g", "i", "t", ":", "]">>}
Fillings ==
  {[markers |-> Comments \cup Quotes, many |-> 4, before |-> <<>>, after |-> <<>>, opts |-> {},
    tokens |-> {Lit, <<"(">>, <<")">>, <<"|">>, <<"*">>, <<"[", "b", "]">>}],
   [markers |-> Comments, many |-> 4, before |-> <<>>, after |-> <<>>, opts |-> {"UNGREEDY"},
    tokens |-> {Lit, <<")">>, <<"{", "2", "}">>, <<"?">>, <<"(", "?", ":">>}],
   [markers |-> Blankness, many |-> 4, before |-> <<>>, after |-> <<>>, opts |-> {"EXTENDED"},
    tokens |-> {Lit, <<"(">>, <<")">>, <<"*">>, Slash("d")}],
   [markers |-> Blankness, many |-> 3, before |-> <<<<"(", "?", "x", ":">>>>, after |-> <<<<")">>>>, opts |-> {},
    tokens |-> {Lit, <<"?">>, <<"*">>, <<"|">>, <<"{", "2", "}">>}],
   [markers |-> Quotes, many |-> 3, before |-> <<<<"[">>>>, after |-> <<<<"]">>>>, opts |-> {"CASELESS"},
    tokens |-> {<<"^">>, <<"-">>, Lit, <<"z">>, <<"]">>} \cup Set],
   [markers |-> Quotes, many |-> 3, before |-> <<<<"[">>, <<"^">>>>, after |-> <<<<"]">>>>, opts |-> {},
    tokens |-> {<<"LF">>, <<"-">>, Lit, Slash("n"), <<"\\", "x", "6", "1">>}]}

\* After a bare parenthesis, ? * and + make other tokens of it; a hyphen right
\* after a set is refused wherever it stands, so a marker there is seen.
PairApart(s) ==
  \A i \in 1 .. (Len(s) - 1) :
    /\ s[i] = <<"(">> => s[i + 1] \notin {<<"*">>, <<"?">>}
    /\ s[i] \in Set => s[i + 1] # <<"-">>

-----------------------------------------------------------------------------
(* The passes.                                                             *)

\* After a bare parenthesis, ? and * would make another token of it.
Apart(s) == \A i \in 1 .. (Len(s) - 1) : s[i] = Cap => s[i + 1] \notin {Maybe, Star}
Strings(tokens, many) == UNION {[1 .. k -> tokens] : k \in 0 .. many}

Once(what, families) ==
  \E family \in families : \E s \in Strings(family.tokens, family.many) :
    LET t == family.before \o s
    IN  /\ what = "bytes" \/ Apart(t)
        /\ about = what /\ toks = t
        /\ Begin(FlattenSeq(t), family.opts)
        /\ Filled!Begin(<<>>, {})

Twofold ==
  \E f \in Fillings : \E s \in {t \in Strings(f.tokens, f.many) : PairApart(t)} :
  \E m \in f.markers, k \in 0 .. Len(s) :
    LET marked == SubSeq(s, 1, k) \o <<m>> \o SubSeq(s, k + 1, Len(s))
    IN  /\ about = "pair" /\ toks = s
        /\ Begin(FlattenSeq(f.before \o s \o f.after), f.opts)
        /\ Filled!Begin(FlattenSeq(f.before \o marked \o f.after), f.opts)

Init ==
  /\ \/ Once("bytes", Raw) \/ Once("shapes", Shapes) \/ Once("possess", Possessives)
     \/ Once("references", References) \/ Twofold
  /\ turns = 0

First == Next /\ turns' = turns + 1 /\ UNCHANGED second
Second == about = "pair" /\ phase = "done" /\ Filled!Next /\ UNCHANGED <<vars, turns>>
Rest ==
  /\ phase = "done" /\ (about = "pair" => phase2 = "done")
  /\ UNCHANGED <<vars, turns, second>>
Spec == Init /\ [][(First \/ Second \/ Rest) /\ UNCHANGED <<about, toks>>]_allVars

-----------------------------------------------------------------------------
(* What the tokens say, read by recursive descent.                         *)

Binds(t) == t \in {Cap, Name}
Setting(t, opts) ==
  CASE t \in {On("i"), Inside("i")} -> opts \cup {"CASELESS"}
    [] t = Off("i") -> opts \ {"CASELESS"}
    [] t = On("U") -> opts \cup {"UNGREEDY"}
    [] t = On("s") -> opts \cup {"DOTALL"}
    [] OTHER -> opts
Counts(t) == CASE t = Star -> <<0, NONE>> [] t = Twice -> <<2, 2>> [] t = Maybe -> <<0, 1>>
Single(t, opts) ==
  CASE t = Lit -> IF "CASELESS" \in opts THEN <<"NdCharCI", 97>> ELSE <<"NdChar", 97>>
    [] t = <<".">> -> <<IF "DOTALL" \in opts THEN "NdAny" ELSE "NdAnyNoNL", 0>>
Joined(branches) == IF Len(branches) = 1 THEN branches[1] ELSE <<"NdAlt", branches>>
Opened(i) == Cardinality({j \in 1 .. i : Binds(toks[j])})

\* From token i, inside `depth` groups: the branches so far, the last of them
\* being read, and whether its last item can be repeated.
RECURSIVE Says(_, _, _, _, _)
Says(i, depth, opts, branches, item) ==
  LET t == toks[i]
      last == Len(branches)
      add(x) == [branches EXCEPT ![last] = Append(@, x)]
      again == [branches EXCEPT ![last] = Append(Front(@),
                  <<"NdRepeat", Counts(t), ("UNGREEDY" \notin opts), Last(@)>>)]
      markedLazy == i < Len(toks) /\ toks[i + 1] = Maybe
      lazy == [branches EXCEPT ![last] = Append(Front(@),
                  <<"NdRepeat", Counts(t), ("UNGREEDY" \in opts), Last(@)>>)]
  IN  CASE i > Len(toks) -> [err |-> IF depth > 0 THEN "MISSING_PAREN" ELSE OK, next |-> i, tree |-> Joined(branches)]
        [] i <= Len(toks) /\ t = Close ->
             [err |-> IF depth = 0 THEN "UNMATCHED_PAREN" ELSE OK, next |-> i + 1, tree |-> Joined(branches)]
        [] i <= Len(toks) /\ t = Bar -> Says(i + 1, depth, opts, Append(branches, <<>>), FALSE)
        [] i <= Len(toks) /\ t \in {On("i"), Off("i"), On("U"), On("s")} ->
             Says(i + 1, depth, Setting(t, opts), branches, FALSE)
        [] i <= Len(toks) /\ t \in {Cap, Non, Name, Inside("i")} ->
             LET clash == t = Name /\ \E j \in 1 .. (i - 1) : toks[j] = Name
                 inner == Says(i + 1, depth + 1, Setting(t, opts), <<<<>>>>, FALSE)
             IN  CASE clash -> [err |-> "DUPLICATE_NAME", next |-> i, tree |-> <<>>]
                   [] ~clash /\ Binds(t) /\ Opened(i) > MaxGroups ->
                        [err |-> "PATTERN_TOO_LARGE", next |-> i, tree |-> <<>>]
                   [] ~clash /\ ~(Binds(t) /\ Opened(i) > MaxGroups) /\ depth >= MaxDepth ->
                        [err |-> "TOO_DEEP", next |-> i, tree |-> <<>>]
                   [] OTHER -> IF inner.err # OK THEN inner
                               ELSE Says(inner.next, depth, opts,
                                         add(<<"NdGroup", IF Binds(t) THEN Opened(i) ELSE 0, inner.tree>>), TRUE)
        [] i <= Len(toks) /\ t \in {Star, Twice, Maybe} ->
             IF ~item THEN [err |-> "NOTHING_TO_REPEAT", next |-> i, tree |-> <<>>]
             ELSE IF markedLazy THEN Says(i + 2, depth, opts, lazy, FALSE)
             ELSE Says(i + 1, depth, opts, again, FALSE)
        [] OTHER -> Says(i + 1, depth, opts, add(Single(t, opts)), TRUE)

-----------------------------------------------------------------------------
(* The arena.                                                              *)

Links(i) == {w.nodes[i].first, w.nodes[i].nxt} \ {0}
RECURSIVE Reached(_, _)
Reached(seen, edge) ==
  LET more == seen \cup UNION {Links(i) : i \in edge}
  IN  IF more = seen THEN seen ELSE Reached(more, more \ seen)
RECURSIVE Kids(_)
Kids(i) == IF i = 0 THEN <<>> ELSE <<i>> \o Kids(w.nodes[i].nxt)

\* However branches are added, groups promoted to alternations and slots taken
\* over by repeats, the arena is one tree: every node hangs from exactly one
\* place, none is lost, and each list ends at the child its parent calls last.
TreeOf ==
  LET nodes == DOMAIN w.nodes
  IN  /\ Reached({1}, {1}) = nodes
      /\ \A i \in nodes \ {1} :
           Cardinality({p \in nodes : w.nodes[p].first = i}) + Cardinality({p \in nodes : w.nodes[p].nxt = i}) = 1
      /\ \A p \in nodes : LET kids == Kids(w.nodes[p].first)
                          IN  w.nodes[p].last = IF kids = <<>> THEN 0 ELSE Last(kids)

\* No byte of a pattern costs more than two nodes, and no two bytes more than
\* one reference (spec.py's MAX_NODES and MAX_REFS), so that only the length,
\* the depth and the groups ever refuse a pattern as too large.
TwoPerByte ==
  phase # "done" =>
    Len(w.nodes) <= 2 + 2 * at /\ 2 * Len(w.refs) <= at /\ Len(w.classes) <= at

\* Every turn of a loop reads a byte or ends the pass, so that none is without
\* end (the variants the loops are written with).
Advances == turns <= at + 1

\* The three together, for every string of bytes.
ArenaIsTree == about = "bytes" => TreeOf /\ TwoPerByte /\ Advances

\* The tree of an arena, as the reading above writes it.
RECURSIVE Shown(_)
Shown(i) ==
  LET node == w.nodes[i]
      kids == [k \in DOMAIN Kids(node.first) |-> Shown(Kids(node.first)[k])]
  IN  CASE node.kind = "NdConcat" -> kids
        [] node.kind = "NdAlt" -> <<"NdAlt", kids>>
        [] node.kind = "NdGroup" -> <<"NdGroup", node.val, kids[1]>>
        [] node.kind = "NdRepeat" -> <<"NdRepeat", <<node.val, node.aux>>, node.opts = 1, kids[1]>>
        [] OTHER -> <<node.kind, node.val>>

\* The arena says what the tokens say: alternation binds weakest, a repeat
\* takes the one item before it, a lazy mark turns it about, an option holds to
\* the end of its group and no further, groups are numbered by where they open,
\* and what is refused is refused for the first thing wrong.
MeansWhatItSays ==
  about = "shapes" /\ phase = "done" =>
    \E said \in {Says(1, 0, {}, <<<<>>>>, FALSE)} :
      /\ w.err = said.err
      /\ w.err = OK => Shown(1) = <<"NdGroup", 0, said.tree>>

\* A reference is judged by all the groups of the pattern, the later ones too:
\* one without its group is pcre2's error, and only if every one has its group
\* is the pattern refused as beyond what is supported.
Target(i) ==
  CASE toks[i] = Slash("1") -> 1
    [] toks[i] = Slash("2") -> 2
    [] toks[i] = <<"\\", "g", "{", "-", "1", "}">> -> Opened(i)
    [] toks[i] = <<"\\", "g", "{", "+", "1", "}">> -> Opened(i) + 1
    [] toks[i] = <<"\\", "k", "<", "n", ">">> -> IF Name \in ToSet(toks) THEN 1 ELSE MaxGroups + 1
    [] OTHER -> 0
ReferencesJudged ==
  LET behind(i) == toks[i] = <<"\\", "g", "{", "-", "1", "}">> /\ Opened(i) = 0
      dangling == {i \in DOMAIN toks : Target(i) > Opened(Len(toks)) \/ behind(i)}
      wanted == {i \in DOMAIN toks : toks[i] \notin {Cap, Name, Close}}
  IN  about = "references" /\ phase = "done" /\ w.err \in {OK, "NO_SUCH_GROUP", "UNSUPPORTED_FEATURE"} =>
        w.err = CASE dangling # {} -> "NO_SUCH_GROUP"
                  [] dangling = {} /\ wanted # {} -> "UNSUPPORTED_FEATURE"
                  [] OTHER -> OK

-----------------------------------------------------------------------------
(* What may come right after a repetition.                                 *)

RECURSIVE Skippable(_)
Skippable(i) ==
  LET node == w.nodes[i]
      kids == ToSet(Kids(node.first))
  IN  CASE node.kind = "NdConcat" -> \A k \in kids : Skippable(k)
        [] node.kind = "NdAlt" -> \E k \in kids : Skippable(k)
        [] node.kind = "NdGroup" -> Skippable(node.first)
        [] node.kind = "NdRepeat" -> node.val = 0 \/ Skippable(node.first)
        [] OTHER -> FALSE
RECURSIVE Front1(_)
\* The identities an item may begin with.
Front1(i) ==
  LET node == w.nodes[i]
      kids == Kids(node.first)
  IN  CASE node.kind = "NdConcat" ->
             UNION {Front1(kids[k]) : k \in {j \in DOMAIN kids : \A b \in 1 .. (j - 1) : Skippable(kids[b])}}
        [] node.kind \in {"NdAlt", "NdGroup", "NdRepeat"} -> UNION {Front1(k) : k \in ToSet(kids)}
        [] OTHER -> {Identity(node)}
RECURSIVE Runs(_, _)
\* The repetitions that give back, each with what may follow it.
Runs(i, follow) ==
  LET node == w.nodes[i]
      kids == Kids(node.first)
      rest(k) == LET past == {j \in (k + 1) .. Len(kids) : \A b \in (k + 1) .. (j - 1) : Skippable(kids[b])}
                 IN  UNION {Front1(kids[j]) : j \in past}
                       \cup IF \A b \in (k + 1) .. Len(kids) : Skippable(kids[b]) THEN follow ELSE {}
  IN  CASE node.kind = "NdConcat" -> UNION {Runs(kids[k], rest(k)) : k \in DOMAIN kids}
        [] node.kind \in {"NdAlt", "NdGroup"} -> UNION {Runs(k, follow) : k \in ToSet(kids)}
        [] node.kind = "NdRepeat" ->
             (IF GivesBack(node) THEN {Identity(w.nodes[node.first])} \X follow ELSE {})
               \cup Runs(node.first, follow \cup IF node.aux = 1 THEN {} ELSE Front1(node.first))
        [] OTHER -> {}

\* No pattern is accepted in which an item pcre2 would wrongly possessify can
\* be followed by its partner, on another copy of a repeated group included.
PossessSound ==
  about = "possess" /\ phase = "done" /\ w.err = OK => Runs(1, {}) \cap Unsound = {}

\* Whether a pattern is accepted is decided by what it says: by the groups its
\* references have, and by what may follow its repetitions.
RefusesRightly == ReferencesJudged /\ PossessSound

\* All that a pass hands on but for offsets.
Outcome(v) ==
  [err |-> v.err, nodes |-> v.nodes, classes |-> v.classes, ncap |-> v.ncap, hascrlf |-> v.hascrlf]

\* What the lexer makes invisible changes nothing: the same tree, classes and
\* groups, or the same refusal, wherever between two tokens it is put - before
\* a quantifier and before its lazy mark, and on both sides of a range's hyphen.
SameReading == about = "pair" /\ phase = "done" /\ phase2 = "done" => Outcome(w) = Outcome(w2)
=============================================================================
