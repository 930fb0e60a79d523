------------------------------ MODULE Patterns ------------------------------
(***************************************************************************)
(* Compiled programs for the model checker, as engine/compiler.py emits    *)
(* them for the pattern in the comment above each.  Between them they hold *)
(* every instruction: ordered alternation, captures written and undone,    *)
(* greedy, lazy, counted and nested repetitions, an iteration that eats    *)
(* nothing, every assertion and every newline convention.                  *)
(***************************************************************************)
EXTENDS Program

Op(op) == [op |-> op, arg |-> 0, alt |-> 0, set |-> {}]
To(op, arg, alt) == [op |-> op, arg |-> arg, alt |-> alt, set |-> {}]
Eat1(op, set) == [op |-> op, arg |-> 0, alt |-> 0, set |-> set]
Rep1(lo, hi, greedy, head, body, after) ==
  [lo |-> lo, hi |-> hi, greedy |-> greedy, head |-> head, body |-> body,
   after |-> after]

\* The bounds of a certificate, all over one base, by their coefficients.
Bound(base, coefs) ==
  [base |-> base,
   coef |-> [d \in Degrees |-> IF d < Len(coefs) THEN coefs[d + 1] ELSE 0]]
Claim(base, cost, stack, trail, mem) ==
  [cost |-> Bound(base, cost), stack |-> Bound(base, stack),
   trail |-> Bound(base, trail), mem |-> Bound(base, mem)]
Unpriced == Claim(0, <<>>, <<>>, <<>>, <<>>)

Compiled(code, reps, ncap, nltype, bsr, anchored, hascrlf, crfirst, pike,
         cert) ==
  [code |-> code, reps |-> reps, ncap |-> ncap,
   nregs |-> 2 * (ncap + 1) + 2 * Len(reps), nltype |-> nltype, bsr |-> bsr,
   anchored |-> anchored, hascrlf |-> hascrlf, crfirst |-> crfirst,
   pike |-> pike, hascert |-> cert # Unpriced, cert |-> cert]

\* (a|ab)(c|bcd)?
Alternation ==
  Compiled(<<
     To("OpSave", 2, 0), To("OpSplit", 2, 4), Eat1("OpChar", {"a"}),
     To("OpJump", 6, 0), Eat1("OpChar", {"a"}), Eat1("OpChar", {"b"}),
     To("OpSave", 3, 0), To("OpSplit", 8, 16), To("OpSave", 4, 0),
     To("OpSplit", 10, 12), Eat1("OpChar", {"c"}), To("OpJump", 15, 0),
     Eat1("OpChar", {"b"}), Eat1("OpChar", {"c"}), Eat1("OpChar", {"d"}),
     To("OpSave", 5, 0), Op("OpAccept")>>,
     <<>>,
     2, "LF", "UNICODE", FALSE, FALSE, FALSE, TRUE,
     Claim(1, <<1104, 94>>, <<5>>, <<9>>, <<760>>))

\* (a*)*b
Star ==
  Compiled(<<
     To("OpRepZero", 0, 0), To("OpRepLoop", 0, 0), To("OpRepEnter", 0, 0),
     To("OpSave", 2, 0), To("OpRepZero", 1, 0), To("OpRepLoop", 1, 0),
     To("OpRepEnter", 1, 0), Eat1("OpChar", {"a"}), To("OpRepNext", 1, 0),
     To("OpSave", 3, 0), To("OpRepNext", 0, 0), Eat1("OpChar", {"b"}),
     Op("OpAccept")>>,
     <<Rep1(0, NONE, TRUE, 1, 2, 11), Rep1(0, NONE, TRUE, 5, 6, 9)>>,
     1, "LF", "UNICODE", FALSE, FALSE, FALSE, FALSE,
     Unpriced)

\* (\R?){1,2}a
Counted ==
  Compiled(<<
     To("OpRepZero", 0, 0), To("OpRepLoop", 0, 0), To("OpRepEnter", 0, 0),
     To("OpSave", 2, 0), To("OpSplit", 5, 6), Eat1("OpBsr", {}),
     To("OpSave", 3, 0), To("OpRepNext", 0, 0), Eat1("OpChar", {"a"}),
     Op("OpAccept")>>,
     <<Rep1(1, 2, TRUE, 1, 2, 8)>>,
     1, "ANY", "UNICODE", FALSE, FALSE, TRUE, FALSE,
     Claim(1, <<3800, 341>>, <<16>>, <<49>>, <<2552>>))

\* (?:a|b)+?(b)
Lazy ==
  Compiled(<<
     To("OpSplit", 1, 3), Eat1("OpChar", {"a"}), To("OpJump", 4, 0),
     Eat1("OpChar", {"b"}), To("OpRepZero", 0, 0), To("OpRepLoop", 0, 0),
     To("OpRepEnter", 0, 0), To("OpSplit", 8, 10), Eat1("OpChar", {"a"}),
     To("OpJump", 11, 0), Eat1("OpChar", {"b"}), To("OpRepNext", 0, 0),
     To("OpSave", 2, 0), Eat1("OpChar", {"b"}), To("OpSave", 3, 0),
     Op("OpAccept")>>,
     <<Rep1(0, NONE, FALSE, 5, 6, 12)>>,
     1, "LF", "UNICODE", FALSE, FALSE, FALSE, TRUE,
     Claim(2, <<5072, 486>>, <<17>>, <<74>>, <<3400>>))

\* (?:(a)|b)*a
Restore ==
  Compiled(<<
     To("OpRepZero", 0, 0), To("OpRepLoop", 0, 0), To("OpRepEnter", 0, 0),
     To("OpSplit", 4, 8), To("OpSave", 2, 0), Eat1("OpChar", {"a"}),
     To("OpSave", 3, 0), To("OpJump", 9, 0), Eat1("OpChar", {"b"}),
     To("OpRepNext", 0, 0), Eat1("OpChar", {"a"}), Op("OpAccept")>>,
     <<Rep1(0, NONE, TRUE, 1, 2, 10)>>,
     1, "LF", "UNICODE", FALSE, FALSE, FALSE, TRUE,
     Claim(2, <<1880, 173>>, <<8>>, <<21>>, <<1272>>))

\* (?:a|ab)*c
Pairs ==
  Compiled(<<
     To("OpRepZero", 0, 0), To("OpRepLoop", 0, 0), To("OpRepEnter", 0, 0),
     To("OpSplit", 4, 6), Eat1("OpChar", {"a"}), To("OpJump", 8, 0),
     Eat1("OpChar", {"a"}), Eat1("OpChar", {"b"}), To("OpRepNext", 0, 0),
     Eat1("OpChar", {"c"}), Op("OpAccept")>>,
     <<Rep1(0, NONE, TRUE, 1, 2, 9)>>,
     0, "LF", "UNICODE", FALSE, FALSE, FALSE, TRUE,
     Claim(2, <<1472, 129>>, <<8>>, <<13>>, <<992>>))

\* ^a?$ with MULTILINE
Lines ==
  Compiled(<<
     Op("OpCircM"), To("OpSplit", 2, 3), Eat1("OpChar", {"a"}),
     Op("OpDollM"), Op("OpAccept")>>,
     <<>>,
     0, "ANYCRLF", "UNICODE", FALSE, FALSE, TRUE, TRUE,
     Claim(1, <<240, 15>>, <<1>>, <<>>, <<168>>))

\* a(\R+)
Bsr ==
  Compiled(<<
     Eat1("OpChar", {"a"}), To("OpSave", 2, 0), To("OpRepZero", 0, 0),
     To("OpRepLoop", 0, 0), To("OpRepEnter", 0, 0), Eat1("OpBsr", {}),
     To("OpRepNext", 0, 0), To("OpSave", 3, 0), Op("OpAccept")>>,
     <<Rep1(1, NONE, TRUE, 3, 4, 7)>>,
     1, "CRLF", "ANYCRLF", FALSE, FALSE, FALSE, FALSE,
     Claim(1, <<920, 347, 24>>, <<2, 1>>, <<10, 4>>, <<632, 176>>))

\* [^a]?$
Edge ==
  Compiled(<<
     To("OpSplit", 1, 2),
     Eat1("OpClass", {"b", "c", "d", "CR", "LF", "VT", "-"}), Op("OpDoll"),
     Op("OpAccept")>>,
     <<>>,
     0, "CRLF", "UNICODE", FALSE, FALSE, TRUE, TRUE,
     Claim(1, <<240, 14>>, <<1>>, <<>>, <<168>>))

\* (.*?)$ with DOLLAR_ENDONLY
Dots ==
  Compiled(<<
     To("OpSave", 2, 0), To("OpRepZero", 0, 0), To("OpRepLoop", 0, 0),
     To("OpRepEnter", 0, 0), Eat1("OpAnyNoNL", {}), To("OpRepNext", 0, 0),
     To("OpSave", 3, 0), Op("OpDollE"), Op("OpAccept")>>,
     <<Rep1(0, NONE, FALSE, 2, 3, 6)>>,
     1, "ANY", "UNICODE", FALSE, FALSE, TRUE, TRUE,
     Claim(1, <<656, 324, 26>>, <<1, 1>>, <<6, 4>>, <<456, 176>>))

\* \ba|\B-
Word ==
  Compiled(<<
     To("OpSplit", 1, 4), Op("OpWordB"), Eat1("OpChar", {"a"}),
     To("OpJump", 6, 0), Op("OpNotWordB"), Eat1("OpChar", {"-"}),
     Op("OpAccept")>>,
     <<>>,
     0, "LF", "UNICODE", FALSE, FALSE, FALSE, TRUE,
     Claim(1, <<240, 16>>, <<1>>, <<>>, <<168>>))

\* \AA\Z|^b|\z with CASELESS
Ends ==
  Compiled(<<
     To("OpSplit", 1, 5), Op("OpSod"), Eat1("OpCharCI", {"a"}),
     Op("OpEodn"), To("OpJump", 10, 0), To("OpSplit", 6, 9), Op("OpCirc"),
     Eat1("OpCharCI", {"b"}), To("OpJump", 10, 0), Op("OpEod"),
     Op("OpAccept")>>,
     <<>>,
     0, "CR", "UNICODE", FALSE, FALSE, TRUE, TRUE,
     Claim(1, <<312, 21>>, <<2>>, <<>>, <<216>>))

-----------------------------------------------------------------------------
(* The calls of the runs.  Subjects hold the bytes a pattern tells apart    *)
(* and one it does not; starts are the first two offsets, the second of     *)
(* which is past the end of an empty subject.                               *)

SubjectsOver(bytes, most) == UNION {[1 .. k -> bytes] : k \in 0 .. most}

CallsOf(res, subjects, options, costs, stacks, mems) ==
  {[re |-> r, subj |-> s, start |-> b, mopts |-> o, costlimit |-> x,
    stacklimit |-> y, memlimit |-> z] :
     r \in res, s \in subjects, b \in 0 .. 1, o \in options, x \in costs,
     y \in stacks, z \in mems}

\* Limits no call below comes near.
Ample == {20000}

\* Every instruction, with the match options that change what it does.
SemanticCalls ==
  CallsOf({Alternation, Lazy, Restore, Pairs}, SubjectsOver({"a", "b", "c"}, 3),
          {{}}, Ample, Ample, Ample)
  \cup CallsOf({Star, Word, Ends}, SubjectsOver({"a", "b", "-"}, 3),
               {{}, {"NOTEMPTY_ATSTART"}, {"ANCHORED"}}, Ample, Ample, Ample)
  \cup CallsOf({Lines, Bsr, Edge, Dots, Counted},
               SubjectsOver({"a", "CR", "LF"}, 3) \cup {<<"a", "VT">>},
               {{}, {"NOTEMPTY"}, {"NOTBOL", "NOTEOL"}}, Ample, Ample, Ample)

\* Each limit swept on its own through every value that can stop these calls.
LimitCalls ==
  LET Swept(costs, stacks, mems) ==
        CallsOf({Star, Lazy, Restore},
                {<<"a", "a", "b">>, <<"c", "a", "b", "a">>, <<"c">>}, {{}},
                costs, stacks, mems)
  IN  Swept({4 * k : k \in 0 .. 180}, Ample, Ample)
      \cup Swept(Ample, 0 .. 9, Ample)
      \cup Swept(Ample, Ample, {8 * k : k \in 0 .. 80})

MatchCalls == SemanticCalls \cup LimitCalls

\* Subjects on which the arrays of the runs' bounds are too small.
LongCalls ==
  CallsOf({Counted, Restore, Star, Lazy, Pairs}, {<<"a", "a", "a", "a", "a">>},
          {{}}, Ample, Ample, Ample)
=============================================================================
