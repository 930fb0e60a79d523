------------------------------- MODULE Parser ------------------------------
(***************************************************************************)
(* The parser (engine/parser.py): one pass over the pattern builds the     *)
(* arena of nodes, the classes, the names and the references, and a last   *)
(* check refuses what pcre2's auto-possessification would answer otherwise.*)
(*                                                                         *)
(* `w` is the source's Work.  Node i is w.nodes[i]; the source's node 0 is *)
(* the nil node, so 0 is no node.  One action is one turn of the main      *)
(* loop, or of the loop over the elements of a class.                      *)
(***************************************************************************)
EXTENDS Lexis

CONSTANTS
  MaxNodes, MaxDepth, MaxClasses, MaxGroups, MaxNames, MaxNameBytes, MaxRefs,
  Newline           \* what ends a comment: "CR", "LF", "CRLF" or "ANYCRLF"

ASSUME ParserAssumption ==
  /\ {MaxNodes, MaxDepth, MaxClasses, MaxGroups, MaxNames, MaxNameBytes, MaxRefs} \subseteq Nat
  /\ MaxNodes >= 3

VARIABLES
  pat,        \* the pattern, a sequence of bytes
  at,         \* where the pass has got to
  quoting,    \* inside \Q ... \E
  cls,        \* the class being read, or NoClass
  w,          \* the work space
  phase       \* "main", "class" or "done"

vars == <<pat, at, quoting, cls, w, phase>>

OK == "none"
Fail(v, code, off) == [v EXCEPT !.err = code, !.erroff = off]
\* The limits leave the offset alone.
TooLarge(v) == Fail(v, "PATTERN_TOO_LARGE", v.erroff)

-----------------------------------------------------------------------------
(* The arena.                                                              *)

Node(kind, val, aux) ==
  [kind |-> kind, val |-> val, aux |-> aux, opts |-> 0, first |-> 0, last |-> 0, nxt |-> 0]

\* alloc_node; the new node is the last.
Alloc(v, node) ==
  IF Len(v.nodes) + 1 >= MaxNodes THEN TooLarge(v) ELSE [v EXCEPT !.nodes = Append(@, node)]

AddChild(nodes, parent, child) ==
  LET linked == IF nodes[parent].first = 0
                THEN [nodes EXCEPT ![parent].first = child]
                ELSE [nodes EXCEPT ![nodes[parent].last].nxt = child]
  IN  [linked EXCEPT ![parent].last = child]

Frame(grp, cat, opts, from, unsup) ==
  [grp |-> grp, alt |-> 0, cat |-> cat, qual |-> 0, opts |-> opts, at |-> from, unsup |-> unsup]

\* attach_atom: a new node on the current branch, to be repeated by what follows.
Attach(v, kind, val, aux) ==
  LET made == Alloc(v, Node(kind, val, aux))
      new == Len(made.nodes)
      top == Len(v.frames)
  IN  IF made.err # OK THEN made
      ELSE [made EXCEPT !.nodes = AddChild(@, v.frames[top].cat, new), !.frames[top].qual = new]

IsUpper(value) == value \in 65 .. 90
IsLower(value) == value \in 97 .. 122
Flip(value) == CASE IsUpper(value) -> value + 32 [] IsLower(value) -> value - 32 [] OTHER -> value

\* add_char: folded here when caseless, so that nothing later carries the option.
AddChar(v, value) ==
  LET noted == [v EXCEPT !.hascrlf = @ \/ value \in {10, 13}]
      folds == "CASELESS" \in v.opts /\ Flip(value) # value
  IN  IF folds THEN Attach(noted, "NdCharCI", IF IsUpper(value) THEN Flip(value) ELSE value, 0)
               ELSE Attach(noted, "NdChar", value, 0)

\* push_frame: the group, its first branch, and the options in force inside.
PushFrame(v, capno, nopts, from, unsup) ==
  LET group == Alloc(v, Node("NdGroup", capno, 0))
      both == IF group.err = OK THEN Alloc(group, Node("NdConcat", 0, 0)) ELSE group
      grp == Len(group.nodes)
      cat == Len(both.nodes)
  IN  CASE Len(v.frames) > MaxDepth -> Fail(v, "TOO_DEEP", from + 1)
        [] Len(v.frames) <= MaxDepth /\ both.err # OK -> both
        [] OTHER -> [both EXCEPT
             !.nodes = AddChild(AddChild(@, grp, cat), Last(v.frames).cat, grp),
             !.frames = Append(@, Frame(grp, cat, v.opts, from, unsup)),
             !.opts = nopts]

\* apply_quant: the repeat takes over the slot of what it repeats, which moves
\* to a new node, so that the parent's list of children is left alone.
Unrepeatable == {"NdRepeat", "NdCirc", "NdCircM", "NdDoll", "NdDollE", "NdDollM",
                 "NdSod", "NdEod", "NdEodn", "NdWordB", "NdNotWordB"}
\* Mutation: the group moved to a new node leaves its branches behind.
ApplyQuantBare(v, lo, hi, greedy, off) ==
  LET q == Last(v.frames).qual
      made == Alloc(v, Node(v.nodes[q].kind, v.nodes[q].val, v.nodes[q].aux))
      inner == Len(made.nodes)
  IN  CASE q = 0 -> Fail(v, "NOTHING_TO_REPEAT", off)
        [] q # 0 /\ v.nodes[q].kind \in Unrepeatable -> Fail(v, "NOTHING_TO_REPEAT", off)
        [] OTHER -> IF made.err # OK THEN made
                    ELSE [made EXCEPT !.nodes[q] =
                            [Node("NdRepeat", lo, hi) EXCEPT
                               !.opts = IF greedy THEN 1 ELSE 0,
                               !.first = inner, !.last = inner, !.nxt = v.nodes[q].nxt]]
ApplyQuant(v, lo, hi, greedy, off) ==
  LET q == Last(v.frames).qual
      made == Alloc(v, [v.nodes[q] EXCEPT !.nxt = 0])
      inner == Len(made.nodes)
  IN  CASE q = 0 -> Fail(v, "NOTHING_TO_REPEAT", off)
        [] q # 0 /\ v.nodes[q].kind \in Unrepeatable -> Fail(v, "NOTHING_TO_REPEAT", off)
        [] OTHER -> IF made.err # OK THEN made
                    ELSE [made EXCEPT !.nodes[q] =
                            [Node("NdRepeat", lo, hi) EXCEPT
                               !.opts = IF greedy THEN 1 ELSE 0,
                               !.first = inner, !.last = inner, !.nxt = v.nodes[q].nxt]]

-----------------------------------------------------------------------------
(* Steps of the main loop.                                                 *)

\* The work space and the place a step leaves; an error ends the pass.
Go(v, next) ==
  /\ w' = v
  /\ at' = IF v.err = OK THEN next ELSE at
  /\ phase' = IF v.err = OK THEN "main" ELSE "done"
  /\ cls' = cls

Refuse(code, off) == Go(Fail(w, code, off), at) /\ UNCHANGED quoting

n == Len(pat)
Here == Byte(pat, at)
After == Byte(pat, at + 1)
Extended == "EXTENDED" \in w.opts

Main == phase = "main" /\ at < n
\* A byte of the pattern that stands for something.
AtMain(bytes) ==
  /\ Main
  /\ ~quoting
  /\ ~(Extended /\ Here \in IsSpace \cup {"#"})
  /\ Here \in bytes

Quoted ==
  /\ Main /\ quoting
  /\ IF Here = "\\" /\ After = "E"
     THEN Go(w, at + 2) /\ quoting' = FALSE
     ELSE Go(AddChar(w, Code[Here]), at + 1) /\ UNCHANGED quoting

\* newline_at: how long the newline at i is, or 0.
NewlineAt(i) ==
  LET pair == Byte(pat, i) = "CR" /\ Byte(pat, i + 1) = "LF"
  IN  CASE pair /\ Newline \in {"CRLF", "ANYCRLF"} -> 2
        [] ~pair /\ Newline = "CRLF" -> 0
        [] OTHER -> IF Byte(pat, i) \in (IF Newline = "ANYCRLF" THEN {"CR", "LF"} ELSE {Newline})
                    THEN 1 ELSE 0

\* skip_gaps: (?#...) always, spaces and # comments when EXTENDED.
SkipGaps(i, extended) ==
  LET skip[k \in i .. (n + 1)] ==
        LET newline == {j \in (k + 1) .. (n - 1) : NewlineAt(j) > 0}
            close == {j \in (k + 3) .. (n - 1) : Byte(pat, j) = ")"}
            c == Byte(pat, k)
        IN  CASE extended /\ c \in IsSpace -> skip[k + 1]
              [] extended /\ c = "#" -> IF newline = {} THEN n ELSE skip[Min(newline) + NewlineAt(Min(newline))]
              [] c = "(" /\ Byte(pat, k + 1) = "?" /\ Byte(pat, k + 2) = "#" /\ close # {} ->
                   skip[Min(close) + 1]
              [] OTHER -> k
  IN  skip[i]

Gap ==
  /\ Main /\ ~quoting /\ Extended /\ Here \in IsSpace \cup {"#"}
  /\ Go(w, SkipGaps(at, TRUE))
  /\ UNCHANGED quoting

\* open_group, one action to each way it goes.  What follows "(?" stands at
\* at + 2.
Verb ==
  /\ AtMain({"("}) /\ After = "*" /\ Byte(pat, at + 2) \notin {")", "end"}
  /\ Refuse("UNSUPPORTED_FEATURE", at + 2)

Capture ==
  /\ AtMain({"("}) /\ After # "?"
  /\ ~(After = "*" /\ Byte(pat, at + 2) \notin {")", "end"})
  /\ IF w.ncap >= MaxGroups THEN Go(TooLarge(w), at)
     ELSE Go(PushFrame([w EXCEPT !.ncap = @ + 1], w.ncap + 1, w.opts, at, 0), at + 1)
  /\ UNCHANGED quoting

AtQuery(bytes) == AtMain({"("}) /\ After = "?" /\ Byte(pat, at + 2) \in bytes

CutShort == AtQuery({"end"}) /\ Refuse("MISSING_PAREN", n)

Comment ==
  /\ AtQuery({"#"})
  /\ LET close == {k \in (at + 3) .. (n - 1) : Byte(pat, k) = ")"}
     IN  IF close = {} THEN Go(Fail(w, "MISSING_COMMENT_PAREN", n), at)
                       ELSE Go(w, Min(close) + 1)
  /\ UNCHANGED quoting

NonCapture ==
  /\ AtQuery({":"})
  /\ Go(PushFrame(w, 0, w.opts, at, 0), at + 3)
  /\ UNCHANGED quoting

\* Lookaround and its kin: the body is read, and refused when it closes.
Body ==
  CASE Byte(pat, at + 2) \in {"=", "!", ">", "|", "*"} -> at + 3
    [] Byte(pat, at + 2) = "<" /\ Byte(pat, at + 3) \in {"=", "!", "*"} -> at + 4
    [] OTHER -> 0
Deferred ==
  /\ AtQuery({"=", "!", ">", "|", "*", "<"}) /\ Body # 0
  /\ Go(PushFrame(w, 0, w.opts, at, Body), Body)
  /\ UNCHANGED quoting

\* named_group.
NameAt == CASE Byte(pat, at + 2) = "P" -> at + 4 [] OTHER -> at + 3
Taken(v, name) == \E entry \in ToSet(v.names) : entry.name = name
Bind(v, name, past) ==
  LET room == FoldLeft(LAMBDA sum, entry : sum + Len(entry.name), Len(name), v.names)
  IN  CASE Taken(v, name) -> Fail(v, "DUPLICATE_NAME", past)
        [] ~Taken(v, name) /\ (v.ncap >= MaxGroups \/ Len(v.names) >= MaxNames \/ room > MaxNameBytes) ->
             TooLarge(v)
        [] OTHER -> PushFrame([v EXCEPT !.ncap = @ + 1,
                                        !.names = Append(@, [name |-> name, grp |-> v.ncap + 1])],
                              v.ncap + 1, v.opts, at, 0)
Named ==
  /\ \/ AtQuery({"<", "'"}) /\ Body = 0
     \/ AtQuery({"P"}) /\ Byte(pat, at + 3) = "<"
  /\ \E read \in {ReadName(pat, NameAt, IF Byte(pat, at + 2) = "'" THEN "'" ELSE ">", FALSE)} :
         IF read.kind = "EkErr" THEN Go(Fail(w, read.err, read.off), at)
         ELSE Go(Bind(w, read.refs[1].name, read.next), read.next)
  /\ UNCHANGED quoting

\* Subroutines, callouts, conditionals: not ours yet.
Signed == Byte(pat, at + 2) = "-" /\ Byte(pat, at + 3) \in IsDigit
NotYet ==
  /\ \/ AtQuery({"&", "+", "R", "C", "(", "["} \cup IsDigit)
     \/ AtQuery({"P"}) /\ Byte(pat, at + 3) # "<"
     \/ AtQuery({"-"}) /\ Signed
  /\ Refuse("UNSUPPORTED_FEATURE", IF Signed THEN at + 4 ELSE at + 3)

\* (?i-s) and (?i-s: ...).
OptionSetting ==
  /\ AtMain({"("}) /\ After = "?"
  /\ Byte(pat, at + 2) \notin {"end", "#", ":", "=", "!", ">", "|", "*", "<", "'", "P",
                               "&", "+", "R", "C", "(", "["} \cup IsDigit
  /\ ~Signed
  /\ \E read \in {ReadOptions(pat, at + 2)} :
     LET settled == (w.opts \cup read.on) \ read.off
         close == Byte(pat, read.at)
     IN  CASE read.hyphen -> Go(Fail(w, "BAD_HYPHEN", read.at + 1), at)
           [] ~read.hyphen /\ close = "end" -> Go(Fail(w, "MISSING_PAREN", n), at)
           [] ~read.hyphen /\ close \notin {")", ":", "end"} ->
                Go(Fail(w, "UNRECOGNIZED_AFTER_QUERY", read.at + 1), at)
           [] ~read.hyphen /\ close \in {")", ":"} /\ ~read.ours ->
                Go(Fail(w, "UNSUPPORTED_OPTION", read.at + 1), at)
           [] OTHER -> IF close = ":" THEN Go(PushFrame(w, 0, settled, at, 0), read.at + 1)
                       ELSE Go([w EXCEPT !.opts = settled, !.frames[Len(w.frames)].qual = 0],
                               read.at + 1)
  /\ UNCHANGED quoting

\* close_group: the options outside come back into force.
\* Mutation: the options set inside the group outlive it.
CloseFrameKeepsOptions(v) ==
  LET gone == Last(v.frames)
      left == [v EXCEPT !.frames = Front(@)]
  IN  IF gone.unsup # 0 THEN Fail(left, "UNSUPPORTED_FEATURE", gone.unsup)
      ELSE [left EXCEPT !.frames[Len(left.frames)].qual = gone.grp]
CloseFrame(v) ==
  LET gone == Last(v.frames)
      left == [v EXCEPT !.frames = Front(@), !.opts = gone.opts]
  IN  IF gone.unsup # 0 THEN Fail(left, "UNSUPPORTED_FEATURE", gone.unsup)
      ELSE [left EXCEPT !.frames[Len(left.frames)].qual = gone.grp]
CloseGroup ==
  /\ AtMain({")"})
  /\ IF Len(w.frames) <= 1 THEN Go(Fail(w, "UNMATCHED_PAREN", at + 1), at)
                           ELSE Go(CloseFrame(w), at + 1)
  /\ UNCHANGED quoting

\* new_branch: the first one turns the only branch into an alternation.
Alternation(v) ==
  LET top == Len(v.frames)
      frame == v.frames[top]
      made == Alloc(v, [Node("NdAlt", 0, 0) EXCEPT !.first = v.nodes[frame.grp].first,
                                                   !.last = v.nodes[frame.grp].first])
      new == Len(made.nodes)
  IN  IF frame.alt # 0 \/ made.err # OK THEN IF frame.alt # 0 THEN v ELSE made
      ELSE [made EXCEPT !.nodes[frame.grp].first = new, !.nodes[frame.grp].last = new,
                        !.frames[top].alt = new]
Branch(v) ==
  LET alternated == Alternation(v)
      made == Alloc(alternated, Node("NdConcat", 0, 0))
      new == Len(made.nodes)
      top == Len(v.frames)
  IN  IF alternated.err # OK THEN alternated
      ELSE IF made.err # OK THEN made
      ELSE [made EXCEPT !.nodes = AddChild(@, made.frames[top].alt, new),
                        !.frames[top].cat = new, !.frames[top].qual = 0]
NewBranch == AtMain({"|"}) /\ Go(Branch(w), at + 1) /\ UNCHANGED quoting

Simple ==
  /\ AtMain({".", "^", "$"})
  /\ LET kind == CASE Here = "." -> IF "DOTALL" \in w.opts THEN "NdAny" ELSE "NdAnyNoNL"
                   [] Here = "^" -> IF "MULTILINE" \in w.opts THEN "NdCircM" ELSE "NdCirc"
                   [] Here = "$" -> IF "MULTILINE" \in w.opts THEN "NdDollM"
                                    ELSE IF "DOLLAR_ENDONLY" \in w.opts THEN "NdDollE" ELSE "NdDoll"
     IN  Go(Attach(w, kind, 0, 0), at + 1)
  /\ UNCHANGED quoting

\* quantifier: the repeat, its ? or + after any gap, and a possessive one
\* refused only once there is something to repeat.
\* Mutation: nothing may stand between a quantifier and its marker.
MarkerAtOnce(i, extended) == i
Marker(i, extended) == SkipGaps(i, extended)
Repeats(lo, hi, past) ==
  \E i \in {Marker(past, Extended)} :
  LET lazy == Byte(pat, i) = "?"
      possessive == Byte(pat, i) = "+"
      next == IF lazy \/ possessive THEN i + 1 ELSE i
      greedy == lazy = ("UNGREEDY" \in w.opts)
      v == ApplyQuant(w, lo, hi, greedy, past)
  IN  Go(IF v.err = OK /\ possessive THEN Fail(v, "UNSUPPORTED_FEATURE", next) ELSE v, next)
Quantifier ==
  /\ AtMain({"*", "+", "?", "{"})
  /\ \E read \in {ReadBraces(pat, at)} :
         CASE Here = "*" -> Repeats(0, NONE, at + 1)
           [] Here = "+" -> Repeats(1, NONE, at + 1)
           [] Here = "?" -> Repeats(0, 1, at + 1)
           [] Here = "{" -> CASE read.kind = "EkErr" -> Go(Fail(w, read.err, read.off), at)
                              [] read.kind = "EkNop" -> Go(AddChar(w, Code["{"]), at + 1)
                              [] OTHER -> Repeats(read.lo, read.hi, read.next)
  /\ UNCHANGED quoting

-----------------------------------------------------------------------------
(* Escapes, and the built-in sets.                                         *)

Bytes == 0 .. 255
Alnum == (48 .. 57) \cup (65 .. 90) \cup (97 .. 122)
Sets ==
  [digit |-> 48 .. 57, word |-> Alnum \cup {95}, space |-> (9 .. 13) \cup {32},
   hspace |-> {9, 32, 160}, vspace |-> (10 .. 13) \cup {133},
   lower |-> 97 .. 122, upper |-> 65 .. 90, alpha |-> (65 .. 90) \cup (97 .. 122)]
Ranged(set, neg) == IF neg THEN Bytes \ Sets[set] ELSE Sets[set]

\* What pcre2's opcode for an item is told apart by: 0 for none of them.
AP == [digit |-> 1, space |-> 3, word |-> 5, hspace |-> 10, vspace |-> 12]
AP_DOT == 7
AP_DOTALL == 8
AP_ANYNL == 9
ApOfSet(set, neg) == IF neg THEN AP[set] ELSE AP[set] + 1

NewClass(v, bytes) ==
  IF Len(v.classes) >= MaxClasses THEN TooLarge(v) ELSE [v EXCEPT !.classes = Append(@, bytes)]

ClassFromSet(v, set, neg) ==
  LET made == NewClass(v, Ranged(set, neg))
  IN  IF made.err # OK THEN made
      ELSE Attach(made, "NdClass", Len(v.classes), ApOfSet(set, neg))

EscapeKinds == [EkSod |-> "NdSod", EkEod |-> "NdEod", EkEodn |-> "NdEodn", EkWordB |-> "NdWordB",
                EkNotWordB |-> "NdNotWordB", EkBsr |-> "NdBsr", EkNop |-> "NdNil"]
\* note_ref, then attach_escape.
AttachEscape(v, read) ==
  LET full == read.refs # <<>> /\ Len(v.refs) >= MaxRefs
      noted == [v EXCEPT !.refs = @ \o read.refs]
  IN  CASE full -> TooLarge(v)
        [] ~full /\ read.kind = "EkChar" -> AddChar(v, read.val)
        [] ~full /\ read.kind \in {"EkSet", "EkNegSet"} ->
             ClassFromSet(v, read.set, read.kind = "EkNegSet")
        [] OTHER -> Attach(noted, EscapeKinds[read.kind], 0, 0)

Escape ==
  /\ AtMain({"\\"})
  /\ \E read \in {ReadEscape(pat, at, FALSE, w.ncap)} :
         CASE After = "Q" -> Go(w, at + 2) /\ quoting' = TRUE
           [] After = "E" -> Go(w, at + 2) /\ UNCHANGED quoting
           [] OTHER -> /\ IF read.kind = "EkErr" THEN Go(Fail(w, read.err, read.off), at)
                                                 ELSE Go(AttachEscape(w, read), read.next)
                       /\ UNCHANGED quoting

Special == {"(", ")", "|", "[", ".", "^", "$", "*", "+", "?", "{", "\\"}
Literal ==
  /\ AtMain(DOMAIN Code \ Special)
  /\ Go(AddChar(w, Code[Here]), at + 1)
  /\ UNCHANGED quoting

-----------------------------------------------------------------------------
(***************************************************************************)
(* A character class, from [ to ] (parse_class in engine/parser.py): one   *)
(* step to each element.  The class under construction is the last entry   *)
(* of w.classes, and `cls` holds the locals of the loop.                   *)
(***************************************************************************)
NoClass == [neg |-> FALSE, fold |-> FALSE, first |-> TRUE, elems |-> 0, ranged |-> FALSE, crlf |-> FALSE]

\* class_skip: \Q and \E are markers, not contents.
ClassSkip(i, quoted) ==
  LET skip[k \in i .. (n + 1)] ==
        IF Byte(pat, k) = "\\" /\ Byte(pat, k + 1) \in {"Q", "E"} THEN skip[k + 2] ELSE k
      to == skip[i]
  IN  [at |-> to, quoting |-> IF to = i THEN quoted ELSE Byte(pat, to - 1) = "Q"]

\* [:name:], [.x.] or [=x=] at i, by where it stops.
PosixAt(i) ==
  IF Byte(pat, i) = "[" /\ Byte(pat, i + 1) \in {":", ".", "="} THEN PosixEnd(pat, i + 1) ELSE NONE

\* set_range: folded when the class is caseless.
Span(lo, hi) == (lo .. hi) \cup IF cls.fold THEN {Flip(c) : c \in lo .. hi} ELSE {}
AddSet(v, bytes) == [v EXCEPT !.classes[Len(v.classes)] = @ \cup bytes]

\* note_element: a range of one is one character.
Noted(lo, hi) ==
  [cls EXCEPT !.first = FALSE,
              !.ranged = @ \/ lo # hi,
              !.elems = IF lo = hi THEN @ + 1 ELSE @,
              !.crlf = @ \/ {lo, hi} \cap {10, 13} # {}]

InClass == phase = "class" /\ at < n

\* A step inside the class; an error ends the pass.
Within(v, next, c, q) ==
  /\ w' = v
  /\ at' = IF v.err = OK THEN next ELSE at
  /\ phase' = IF v.err = OK THEN "class" ELSE "done"
  /\ cls' = c
  /\ quoting' = q

BeginClass ==
  /\ AtMain({"["})
  /\ \E stop \in {PosixAt(at)}, opened \in {ClassSkip(at + 1, FALSE)} :
     LET neg == Byte(pat, opened.at) = "^" /\ ~opened.quoting
     IN  IF stop # NONE
         THEN Refuse(IF After = ":" THEN "POSIX_OUTSIDE_CLASS" ELSE "POSIX_COLLATING", stop + 2)
         ELSE Within(NewClass(w, {}), IF neg THEN opened.at + 1 ELSE opened.at,
                     [NoClass EXCEPT !.neg = neg, !.fold = "CASELESS" \in w.opts], opened.quoting)

ClassQuoted ==
  /\ InClass /\ quoting
  /\ IF Here = "\\" /\ After = "E" THEN Within(w, at + 2, cls, FALSE)
     ELSE Within(AddSet(w, Span(Code[Here], Code[Here])), at + 1, Noted(Code[Here], Code[Here]), TRUE)

\* The end of a range that begins at j: a byte, or [err, off] for what is none.
OnlyByte(read) == IF read.kind \in {"EkErr", "EkChar"} THEN read ELSE Bad("INVALID_CLASS_RANGE", read.next)
HighEnd(j, quoted) ==
  CASE ~quoted /\ Byte(pat, j) = "\\" -> OnlyByte(ReadEscape(pat, j, TRUE, w.ncap))
    [] ~quoted /\ PosixAt(j) # NONE -> Bad("INVALID_CLASS_RANGE", PosixAt(j) + 2)
    [] OTHER -> Char(Code[Byte(pat, j)], j + 1)

\* class_element: one byte, and the range it may start.
Element(lo, i) ==
  \E past \in {ClassSkip(i, quoting)} :
  \E end \in {ClassSkip(past.at + 1, FALSE)} :
    IF /\ Byte(pat, past.at) = "-" /\ ~past.quoting
       /\ end.at < n
       /\ end.quoting \/ Byte(pat, end.at) # "]"
    THEN \E high \in {HighEnd(end.at, end.quoting)} :
           CASE high.kind = "EkErr" -> Within(Fail(w, high.err, high.off), at, cls, quoting)
             [] high.kind # "EkErr" /\ high.val < lo ->
                  Within(Fail(w, "CLASS_RANGE_ORDER", high.next), at, cls, quoting)
             [] OTHER -> Within(AddSet(w, Span(lo, high.val)), high.next, Noted(lo, high.val), end.quoting)
    ELSE Within(AddSet(w, Span(lo, lo)), past.at, Noted(lo, lo), past.quoting)

\* class_after_set: no range starts at a set, be its name known or not.
AfterSet(v, i) ==
  IF Byte(pat, i) = "-" /\ Byte(pat, i + 1) \notin {"]", "end"}
  THEN Fail(v, "INVALID_CLASS_RANGE", i + 1) ELSE v
SetTaken == [cls EXCEPT !.first = FALSE, !.ranged = TRUE]

AtElement == InClass /\ ~quoting /\ ~(Here = "]" /\ ~cls.first)

\* posix_item: caseless makes alpha of lower and of upper.
Spelling ==
  [digit |-> <<"d", "i", "g", "i", "t">>, word |-> <<"w", "o", "r", "d">>,
   space |-> <<"s", "p", "a", "c", "e">>, alpha |-> <<"a", "l", "p", "h", "a">>,
   lower |-> <<"l", "o", "w", "e", "r">>, upper |-> <<"u", "p", "p", "e", "r">>]
PosixItem(stop) ==
  LET neg == Byte(pat, at + 2) = "^"
      name == SubSeq(pat, IF neg THEN at + 4 ELSE at + 3, stop)
      named == {s \in DOMAIN Spelling : Spelling[s] = name}
      which == CHOOSE s \in named : TRUE
      folded == IF cls.fold /\ which \in {"lower", "upper"} THEN "alpha" ELSE which
  IN  IF named = {} THEN Fail(w, "UNKNOWN_POSIX_CLASS", stop + 2) ELSE AddSet(w, Ranged(folded, neg))
ClassPosix ==
  /\ AtElement /\ PosixAt(at) # NONE
  /\ \E stop \in {PosixAt(at)} :
         IF After # ":" THEN Within(Fail(w, "POSIX_COLLATING", stop + 2), at, cls, FALSE)
         ELSE Within(AfterSet(PosixItem(stop), stop + 2), stop + 2, SetTaken, FALSE)

ClassMarker ==
  /\ AtElement /\ Here = "\\" /\ After \in {"Q", "E"}
  /\ Within(w, at + 2, cls, After = "Q")

ClassEscape ==
  /\ AtElement /\ Here = "\\" /\ After \notin {"Q", "E"}
  /\ \E read \in {ReadEscape(pat, at, TRUE, w.ncap)} :
         CASE read.kind = "EkErr" -> Within(Fail(w, read.err, read.off), at, cls, FALSE)
           [] read.kind = "EkChar" -> Element(read.val, read.next)
           [] OTHER -> Within(AfterSet(AddSet(w, Ranged(read.set, read.kind = "EkNegSet")), read.next),
                              read.next, SetTaken, FALSE)

ClassByte ==
  /\ AtElement /\ Here # "\\" /\ PosixAt(at) = NONE
  /\ Element(Code[Here], at + 1)

\* A class that names CR or LF is remembered, but for [^x], which pcre2 never
\* compiles as a class.
ClassDone ==
  /\ InClass /\ ~quoting /\ Here = "]" /\ ~cls.first
  /\ LET alone == cls.neg /\ cls.elems = 1 /\ ~cls.ranged
         noted == [w EXCEPT !.hascrlf = @ \/ (cls.crlf /\ ~alone)]
         last == Len(w.classes)
         built == IF cls.neg THEN [noted EXCEPT !.classes[last] = Bytes \ @] ELSE noted
         made == Attach(built, "NdClass", last - 1, 0)
     IN  /\ w' = made
         /\ at' = IF made.err = OK THEN at + 1 ELSE at
         /\ phase' = IF made.err = OK THEN "main" ELSE "done"
  /\ cls' = NoClass
  /\ quoting' = FALSE

ClassUnclosed ==
  /\ phase = "class" /\ at >= n
  /\ Within(Fail(w, "MISSING_BRACKET", n), at, cls, quoting)

-----------------------------------------------------------------------------
(* The pass.                                                               *)

\* The arena begins with the group of the whole pattern and its first branch.
Work(opts) ==
  [nodes |-> AddChild(<<Node("NdGroup", 0, 0), Node("NdConcat", 0, 0)>>, 1, 2),
   frames |-> <<Frame(1, 2, opts, 0, 0)>>,
   classes |-> <<>>, names |-> <<>>, refs |-> <<>>, ncap |-> 0,
   opts |-> opts, hascrlf |-> FALSE, err |-> OK, erroff |-> 0]

Begin(p, opts) ==
  /\ pat = p
  /\ at = 0 /\ quoting = FALSE /\ cls = NoClass /\ phase = "main"
  /\ w = Work(opts)

-----------------------------------------------------------------------------
(* check_possess.  Everything that may follow a repetition sits above it in *)
(* the arena, but for a repeated group, whose front follows its end.        *)

Identity(node) ==
  CASE node.kind = "NdClass" -> node.aux
    [] node.kind = "NdAnyNoNL" -> AP_DOT
    [] node.kind = "NdAny" -> AP_DOTALL
    [] node.kind = "NdBsr" -> AP_ANYNL
    [] OTHER -> 0

\* AP_UNSOUND: <<repeated, following>>.
NOT_SPACE == AP["space"]
SPACE == NOT_SPACE + 1
HSPACE == AP["hspace"] + 1
VSPACE == AP["vspace"] + 1
Unsound ==
  ({NOT_SPACE} \X {AP_ANYNL, HSPACE, VSPACE}) \cup {<<AP_DOT, AP_ANYNL>>}
    \cup ({AP_ANYNL} \X {SPACE, AP_DOT}) \cup ({HSPACE, VSPACE} \X {NOT_SPACE})

GivesBack(node) == node.kind = "NdRepeat" /\ (node.aux = NONE \/ node.aux > node.val)

\* Mutation: the item and its partner are looked up the wrong way round.
PossessedBackwards(nodes) ==
  \E q \in DOMAIN nodes :
    /\ GivesBack(nodes[q])
    /\ \E i \in (q + 1) .. Len(nodes) : <<Identity(nodes[i]), Identity(nodes[nodes[q].first])>> \in Unsound
Possessed(nodes) ==
  LET grouprep == \E q \in DOMAIN nodes :
                    nodes[q].kind = "NdRepeat" /\ nodes[nodes[q].first].kind = "NdGroup"
  IN  \E q \in DOMAIN nodes :
        /\ GivesBack(nodes[q])
        /\ \E i \in (IF grouprep THEN 1 ELSE q + 1) .. Len(nodes) :
             <<Identity(nodes[nodes[q].first]), Identity(nodes[i])>> \in Unsound

\* The end of the pass.  A reference may stand ahead of its group, so they are
\* judged here, in the order of the pattern.
Missing(ref) == IF ref.num = NONE THEN ~Taken(w, ref.name) ELSE ref.num > w.ncap
Judged ==
  LET missing == SelectSeq(w.refs, Missing)
  IN  CASE Len(w.frames) > 1 -> Fail(w, "MISSING_PAREN", n)
        [] Len(w.frames) = 1 /\ missing # <<>> -> Fail(w, "NO_SUCH_GROUP", missing[1].off)
        [] Len(w.frames) = 1 /\ missing = <<>> /\ w.refs # <<>> ->
             Fail(w, "UNSUPPORTED_FEATURE", w.refs[1].off)
        [] OTHER -> IF Possessed(w.nodes) THEN Fail(w, "UNSUPPORTED_FEATURE", 0) ELSE w
Finish ==
  /\ phase = "main" /\ at >= n
  /\ w' = Judged
  /\ phase' = "done"
  /\ UNCHANGED <<at, quoting, cls>>

Step ==
  \/ Quoted \/ Gap \/ Verb \/ Capture \/ CutShort \/ Comment \/ NonCapture \/ Deferred
  \/ Named \/ NotYet \/ OptionSetting \/ CloseGroup \/ NewBranch \/ Simple
  \/ Quantifier \/ Escape \/ Literal
  \/ BeginClass \/ ClassQuoted \/ ClassPosix \/ ClassMarker \/ ClassEscape
  \/ ClassByte \/ ClassDone \/ ClassUnclosed
  \/ Finish
Next == Step /\ UNCHANGED pat
=============================================================================
