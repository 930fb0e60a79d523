------------------------------- MODULE Lexis -------------------------------
(***************************************************************************)
(* What the parser reads at one place of a pattern (engine/parser.py):     *)
(* escapes, references, counted quantifiers, names and option letters.  A  *)
(* pattern is a sequence of bytes, offsets count from zero, and a byte     *)
(* past the end is "end".  What is read either is refused, with a code and *)
(* the offset blamed, or says where reading goes on.                       *)
(***************************************************************************)
EXTENDS Integers, SequencesExt, TLC

CONSTANTS
  MaxQuant,     \* spec.MAX_QUANT: the largest count, and group number
  MaxName       \* spec.MAX_NAME: bytes in a group name

ASSUME LexisAssumption == MaxQuant \in Nat \ {0} /\ MaxName \in Nat \ {0}

NONE == -1

Byte(pat, i) == IF i < Len(pat) THEN pat[i + 1] ELSE "end"

-----------------------------------------------------------------------------
(* The properties of a byte (spec.py's table, read by `ct`).               *)

Digits == <<"0", "1", "2", "3", "4", "5", "6", "7", "8", "9">>
Lowers == <<"a", "b", "c", "d", "e", "f", "g", "h", "i", "j", "k", "l", "m",
            "n", "o", "p", "q", "r", "s", "t", "u", "v", "w", "x", "y", "z">>
Uppers == <<"A", "B", "C", "D", "E", "F", "G", "H", "I", "J", "K", "L", "M",
            "N", "O", "P", "Q", "R", "S", "T", "U", "V", "W", "X", "Y", "Z">>
IsDigit == ToSet(Digits)
IsOctal == ToSet(SubSeq(Digits, 1, 8))
IsAlpha == ToSet(Lowers) \cup ToSet(Uppers)
IsHex == IsDigit \cup ToSet(SubSeq(Lowers, 1, 6)) \cup ToSet(SubSeq(Uppers, 1, 6))
IsWord == IsAlpha \cup IsDigit \cup {"_"}
Blanks == {" ", "TAB"}
IsSpace == Blanks \cup {"LF", "CR"}

\* The value of a byte: its place in ASCII.
Marks == <<" ", "!", "\"", "#", "$", "%", "&", "'", "(", ")", "*", "+", ",", "-", ".", "/">>
Code ==
  LET ascii == Marks \o Digits \o <<":", ";", "<", "=", ">", "?", "@">> \o Uppers
                 \o <<"[", "\\", "]", "^", "_", "BACKQUOTE">> \o Lowers \o <<"{", "|", "}", "~">>
      control == ("TAB" :> 9) @@ ("LF" :> 10) @@ ("CR" :> 13)
  IN  [c \in ToSet(ascii) |-> 31 + CHOOSE i \in DOMAIN ascii : ascii[i] = c] @@ control

HexValue(c) ==
  CASE c \in IsDigit -> Code[c] - Code["0"]
    [] c \in ToSet(Lowers) -> Code[c] - Code["a"] + 10
    [] OTHER -> Code[c] - Code["A"] + 10

\* The end of the run of bytes of a kind that begins at i.
PastRun(pat, i, kind) == Min({j \in i .. Len(pat) : Byte(pat, j) \notin kind})
SkipBlanks(pat, i) == PastRun(pat, i, Blanks)

\* The number the digits from i up to j spell, left alone once past a cap.
Numeral(pat, i, j, base, cap) ==
  FoldLeft(LAMBDA v, c : IF v <= cap THEN v * base + HexValue(c) ELSE v,
           0, SubSeq(pat, i + 1, j))

-----------------------------------------------------------------------------
(* What reading an escape answers.                                         *)

Bad(code, off) == [kind |-> "EkErr", err |-> code, off |-> off]
Read(kind, next) == [kind |-> kind, val |-> 0, set |-> "none", refs |-> <<>>, next |-> next]
Char(value, next) == [Read("EkChar", next) EXCEPT !.val = value]
\* A reference is remembered and judged at the end of the pass.
Refers(num, name, off, next) ==
  [Read("EkNop", next) EXCEPT !.refs = <<[num |-> num, name |-> name, off |-> off]>>]

\* read_hex and read_octal_brace: digits between braces, with the refusals in
\* pcre2's order.
Braced(pat, i, kind, base, misfit) ==
  LET n == Len(pat)
      from == SkipBlanks(pat, i + 1)
      to == PastRun(pat, from, kind)
      close == SkipBlanks(pat, to)
      value == Numeral(pat, from, to, base, 1114111)
  IN  CASE Byte(pat, close) # "}" /\ ~(from = to /\ close >= n) -> Bad(misfit, close + 1)
        [] from = to /\ (Byte(pat, close) = "}" \/ close >= n) -> Bad("MISSING_DIGITS", close)
        [] Byte(pat, close) = "}" /\ from # to /\ value > 255 -> Bad("CODE_POINT_TOO_BIG", close)
        [] OTHER -> Char(value, close + 1)

ReadHex(pat, i) ==
  LET to == Min({PastRun(pat, i, IsHex), i + 2})
  IN  CASE Byte(pat, i) = "{" -> Braced(pat, i, IsHex, 16, "BAD_HEX_DIGIT")
        [] Byte(pat, i) # "{" /\ to = i -> Bad("MISSING_DIGITS", i)
        [] OTHER -> Char(Numeral(pat, i, to, 16, 255), to)

ReadOctalBrace(pat, i) ==
  IF Byte(pat, i) = "{" THEN Braced(pat, i, IsOctal, 8, "BAD_OCTAL_DIGIT")
                        ELSE Bad("MISSING_OCTAL_BRACE", i)

\* read_digit_escape: a back reference when it can only be one or that many
\* groups are open already, octal otherwise.
ReadDigitEscape(pat, i, incls, ncap) ==
  LET c == Byte(pat, i - 1)
      past == PastRun(pat, i - 1, IsDigit)
      number == Numeral(pat, i - 1, past, 10, MaxQuant)
      reference == ~incls /\ c # "0" /\ (number < 10 \/ c \in {"8", "9"} \/ number <= ncap)
      to == Min({PastRun(pat, i, IsOctal), i + 2})
      value == Numeral(pat, i - 1, to, 8, 4096)
  IN  CASE reference -> IF number > MaxQuant THEN Bad("NUMBER_TOO_BIG", past)
                        ELSE Refers(number, <<>>, past, past)
        [] ~reference /\ c \in {"8", "9"} -> Char(Code[c], i)
        [] OTHER -> IF value > 255 THEN Bad("OCTAL_TOO_BIG", to) ELSE Char(value, to)

-----------------------------------------------------------------------------
(* References and names.                                                   *)

\* ref_number_ahead.
NumberAhead(pat, i) ==
  Byte(pat, IF Byte(pat, i) \in {"+", "-"} THEN i + 1 ELSE i) \in IsDigit

\* read_ref_number: relative to the groups opened so far when it is signed.
\* `blame` is the offset of a refusal, or NONE for just past the digits.
ReadRefNumber(pat, i, ncap, blame) ==
  LET sign == Byte(pat, i)
      signed == sign \in {"+", "-"}
      from == IF signed THEN i + 1 ELSE i
      to == PastRun(pat, from, IsDigit)
      value == Numeral(pat, from, to, 10, MaxQuant)
      off == IF blame = NONE THEN to ELSE blame
      limit == IF sign = "+" THEN MaxQuant - ncap ELSE MaxQuant
      absolute == CASE sign = "-" -> ncap + 1 - value
                    [] sign = "+" -> ncap + value
                    [] OTHER -> value
  IN  CASE value > limit -> Bad("NUMBER_TOO_BIG", off)
        [] value <= limit /\ signed /\ value = 0 -> Bad("ZERO_RELATIVE", off)
        [] value <= limit /\ sign = "-" /\ value > ncap -> Bad("NO_SUCH_GROUP", off)
        [] OTHER -> Char(absolute, to)

\* The name that starts here and its terminator: a run of word bytes, with a
\* code of its own for every way it goes wrong.
ReadName(pat, start, term, blanks) ==
  LET to == PastRun(pat, start, IsWord)
      close == IF blanks THEN SkipBlanks(pat, to) ELSE to
  IN  CASE Byte(pat, start) \in IsDigit -> Bad("NAME_STARTS_WITH_DIGIT", start + 1)
        [] Byte(pat, start) \notin IsDigit /\ to = start -> Bad("NAME_EXPECTED", start)
        [] Byte(pat, start) \notin IsDigit /\ to - start > MaxName -> Bad("NAME_TOO_LONG", to)
        [] Byte(pat, start) \notin IsDigit /\ to - start \in 1 .. MaxName /\
             Byte(pat, close) # term -> Bad("BAD_NAME_TERMINATOR", close)
        [] OTHER -> Refers(NONE, SubSeq(pat, start + 1, to), start, close + 1)

\* read_gk without a delimiter: \g and a bare number.
Bare(read) ==
  CASE read.kind = "EkErr" -> read
    [] read.kind # "EkErr" /\ read.val = 0 -> Bad("NO_SUCH_GROUP", read.next)
    [] OTHER -> Refers(read.val, <<>>, read.next, read.next)
BareReference(pat, i, isg, ncap) ==
  CASE ~isg -> Bad("BAD_K_ESCAPE", i)
    [] isg /\ ~NumberAhead(pat, i) -> Bad("BAD_G_ESCAPE", i)
    [] OTHER -> Bare(ReadRefNumber(pat, i, ncap, NONE))

\* A number between delimiters: \g<0> recurses and \g{0} refers to nothing.
Closed(pat, read, close, term) ==
  CASE read.kind = "EkErr" -> read
    [] read.kind # "EkErr" /\ Byte(pat, close) # term -> Bad("NUMBER_TERMINATOR", close)
    [] OTHER -> IF term = "}" /\ read.val = 0 THEN Bad("NO_SUCH_GROUP", close + 1)
                ELSE Refers(read.val, <<>>, close + 1, close + 1)
Delimited(pat, read, term) ==
  Closed(pat, read, IF read.kind # "EkErr" /\ term = "}" THEN SkipBlanks(pat, read.next)
                    ELSE IF read.kind # "EkErr" THEN read.next ELSE 0, term)

ReadGK(pat, i, isg, ncap) ==
  LET open == Byte(pat, i)
      term == CASE open = "<" -> ">" [] open = "'" -> "'" [] OTHER -> "}"
      j == IF open = "{" THEN SkipBlanks(pat, i + 1) ELSE i + 1
  IN  CASE open \notin {"{", "<", "'"} -> BareReference(pat, i, isg, ncap)
        [] open \in {"{", "<", "'"} /\ isg /\ NumberAhead(pat, j) ->
             Delimited(pat, ReadRefNumber(pat, j, ncap, i), term)
        [] OTHER -> ReadName(pat, j, term, open = "{")

\* read_ucp always ends in a refusal: malformed, unknown, or not ours yet.
ReadUcp(pat, i) ==
  LET skipped == IsSpace \cup {"_", "-"}
      visit(s, c) ==
        LET at == s.at + 1
        IN  CASE s.over -> s
              [] ~s.over /\ c \in skipped -> [s EXCEPT !.at = at]
              [] ~s.over /\ c = "^" /\ s.sig = 0 /\ ~s.neg -> [s EXCEPT !.at = at, !.neg = TRUE]
              [] ~s.over /\ c = "}" -> [s EXCEPT !.at = at, !.over = TRUE, !.closed = TRUE]
              [] ~s.over /\ c # "}" /\ c \notin skipped /\ (Code[c] < 38 \/ Code[c] > 122) ->
                   [s EXCEPT !.at = at, !.over = TRUE]
              [] OTHER -> [s EXCEPT !.at = at, !.sig = @ + 1, !.over = s.sig + 1 >= 49]
      name == FoldLeft(visit, [at |-> i + 1, neg |-> FALSE, sig |-> 0, over |-> FALSE,
                               closed |-> FALSE], SubSeq(pat, i + 2, Len(pat)))
      c == Byte(pat, i)
  IN  CASE c = "end" -> Bad("MALFORMED_UCP", i)
        [] c = "{" -> Bad(CASE ~name.closed -> "MALFORMED_UCP"
                            [] name.closed /\ name.sig = 0 -> "UNKNOWN_PROPERTY"
                            [] OTHER -> "UNSUPPORTED_FEATURE", name.at)
        [] OTHER -> Bad(IF c \in IsAlpha THEN "UNSUPPORTED_FEATURE" ELSE "MALFORMED_UCP", i + 1)

-----------------------------------------------------------------------------
(* read_escape, from the backslash at `at`.                                *)

Controls == [n |-> 10, r |-> 13, t |-> 9, f |-> 12, a |-> 7, e |-> 27]
NamedSets == [d |-> "digit", w |-> "word", s |-> "space", h |-> "hspace", v |-> "vspace"]
NegatedSets == [D |-> "digit", W |-> "word", S |-> "space", H |-> "hspace", V |-> "vspace"]
Asserts == [B |-> "EkNotWordB", A |-> "EkSod", Z |-> "EkEodn", z |-> "EkEod", R |-> "EkBsr"]

\* \cX, of a printable byte.
ReadControl(pat, i) ==
  LET d == Byte(pat, i)
      value == IF d \in ToSet(Lowers) THEN Code[d] - 32 ELSE Code[d]
  IN  CASE d = "end" -> Bad("C_AT_END", i)
        [] d # "end" /\ value < 32 -> Bad("C_NOT_PRINTABLE", i + 1)
        [] OTHER -> Char(IF (value \div 64) % 2 = 1 THEN value - 64 ELSE value + 64, i + 1)

ReadEscape(pat, at, incls, ncap) ==
  LET c == Byte(pat, at + 1)
      i == at + 2
      notOurs(code) == Bad(IF incls THEN code ELSE "UNSUPPORTED_FEATURE", i)
  IN  CASE c = "end" -> Bad("BACKSLASH_AT_END", at + 1)
        [] c \in DOMAIN Controls -> Char(Controls[c], i)
        [] c \in DOMAIN NamedSets -> [Read("EkSet", i) EXCEPT !.set = NamedSets[c]]
        [] c \in DOMAIN NegatedSets -> [Read("EkNegSet", i) EXCEPT !.set = NegatedSets[c]]
        [] c = "b" -> IF incls THEN Char(8, i) ELSE Read("EkWordB", i)
        [] c \in DOMAIN Asserts -> IF incls THEN Bad("BAD_CLASS_ESCAPE", i) ELSE Read(Asserts[c], i)
        [] c \in {"G", "K", "X", "C"} -> notOurs("BAD_CLASS_ESCAPE")
        [] c = "N" -> notOurs("N_IN_CLASS")
        [] c \in {"F", "L", "l", "U", "u"} -> Bad("NO_SUCH_BACKSLASH", i)
        [] c \in {"k", "g"} -> IF incls THEN Char(Code[c], i) ELSE ReadGK(pat, i, c = "g", ncap)
        [] c \in {"p", "P"} -> ReadUcp(pat, i)
        [] c = "c" -> ReadControl(pat, i)
        [] c = "x" -> ReadHex(pat, i)
        [] c = "o" -> ReadOctalBrace(pat, i)
        [] c \in IsDigit -> ReadDigitEscape(pat, i, incls, ncap)
        [] c \in IsAlpha \cap {"i", "I", "j", "J", "m", "M", "O", "q", "Q", "T", "y", "Y", "E"} ->
             Bad("UNRECOGNIZED_ESCAPE", i)
        [] OTHER -> Char(Code[c], i)

-----------------------------------------------------------------------------
(* Quantifiers, options, and the names of classes.                         *)

\* read_braces: a quantifier only when the braces read as one.
ReadBraces(pat, at) ==
  LET from == SkipBlanks(pat, at + 1)
      loEnd == PastRun(pat, from, IsDigit)
      comma == SkipBlanks(pat, loEnd)
      second == Byte(pat, comma) = ","
      hiFrom == IF second THEN SkipBlanks(pat, comma + 1) ELSE comma
      ends == IF second THEN PastRun(pat, hiFrom, IsDigit) ELSE loEnd
      close == IF second THEN SkipBlanks(pat, ends) ELSE comma
      hasHi == second /\ ends > hiFrom
      lo == Numeral(pat, from, loEnd, 10, MaxQuant)
      hi == IF hasHi THEN Numeral(pat, hiFrom, ends, 10, MaxQuant) ELSE IF second THEN NONE ELSE lo
      quantifies == (loEnd > from \/ hasHi) /\ Byte(pat, close) = "}"
  IN  CASE ~quantifies -> Read("EkNop", at)
        [] quantifies /\ lo > MaxQuant -> Bad("QUANTIFIER_TOO_BIG", loEnd)
        [] quantifies /\ lo <= MaxQuant /\ hi > MaxQuant -> Bad("QUANTIFIER_TOO_BIG", ends)
        [] quantifies /\ lo <= MaxQuant /\ hi \in 0 .. (lo - 1) -> Bad("QUANTIFIER_ORDER", ends)
        [] OTHER -> [kind |-> "quant", lo |-> lo, hi |-> hi, next |-> close + 1]

OptionLetters ==
  [i |-> "CASELESS", m |-> "MULTILINE", s |-> "DOTALL", x |-> "EXTENDED", U |-> "UNGREEDY"]

\* One letter of an option setting, the first of which stands at j.
OptionLetter(pat, j, s, k) ==
  LET e == Byte(pat, k)
      foreign == e \in {"a", "J", "n", "r"} \/ (e = "^" /\ k = j)
                   \/ (s.ascii /\ e \in {"D", "P", "S", "T", "W"})
      ours == e \in DOMAIN OptionLetters
      doubled == e = "x" /\ Byte(pat, k + 1) = "x"
  IN  CASE s.over -> s
        [] ~s.over /\ e = "-" -> IF s.neg \/ s.reset THEN [s EXCEPT !.over = TRUE, !.hyphen = TRUE]
                                 ELSE [s EXCEPT !.neg = TRUE, !.at = k + 1]
        [] ~s.over /\ ours /\ s.neg -> [s EXCEPT !.off = @ \cup {OptionLetters[e]}, !.at = k + 1,
                                !.ours = @ /\ ~doubled, !.ascii = FALSE, !.reset = FALSE]
        [] ~s.over /\ ours /\ ~s.neg -> [s EXCEPT !.on = @ \cup {OptionLetters[e]}, !.at = k + 1,
                                !.ours = @ /\ ~doubled, !.ascii = FALSE, !.reset = FALSE]
        [] ~s.over /\ foreign -> [s EXCEPT !.ours = FALSE, !.ascii = (e = "a"), !.reset = (e = "^"),
                                           !.at = k + 1]
        [] OTHER -> [s EXCEPT !.over = TRUE]

ReadOptions(pat, j) ==
  FoldLeft(LAMBDA s, k : OptionLetter(pat, j, s, k + j - 1),
           [at |-> j, over |-> FALSE, on |-> {}, off |-> {}, neg |-> FALSE, ours |-> TRUE,
            ascii |-> FALSE, reset |-> FALSE, hyphen |-> FALSE],
           [k \in 1 .. (Len(pat) - j) |-> k])

\* posix_end: where [:name:] ends, or NONE when it is no such thing.
PosixEnd(pat, at) ==
  LET term == Byte(pat, at)
      scan[i \in at .. (Len(pat) + 1)] ==
        LET c == Byte(pat, i)
            next == Byte(pat, i + 1)
        IN  CASE i + 1 >= Len(pat) -> NONE
              [] i + 1 < Len(pat) /\ c = "\\" /\ next \in {"]", "\\"} -> scan[i + 2]
              [] i + 1 < Len(pat) /\ ((c = "[" /\ next = term) \/ c = "]") -> NONE
              [] i + 1 < Len(pat) /\ c = term /\ next = "]" -> i
              [] OTHER -> scan[i + 1]
  IN  scan[at + 1]
=============================================================================
