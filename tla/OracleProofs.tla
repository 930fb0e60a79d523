---------------------------- MODULE OracleProofs ----------------------------
(***************************************************************************)
(* Safety of the oracle client for any number of shims and questions: what *)
(* a call returns, what is left in the pipes and what is left running.     *)
(***************************************************************************)
EXTENDS Oracle, SequenceTheorems, TLAPS

-----------------------------------------------------------------------------
(* The inductive invariant.  A call is the only one to write to the shim   *)
(* it holds, so what is in that shim's pipes is the question in flight;    *)
(* and only the watchdog of that question may still shoot.                 *)

Guarded == dog[ask.no].guards

\* Outside idle a question is in flight, and its watchdog guards the shim
\* the client holds, or held until its start was given up.
InFlight ==
  /\ at # "idle" => ask.no \in Asks /\ Guarded \in Shims
  /\ at \in {"send", "read", "stop", "settle", "diagnose"} => held = Guarded
  /\ at = "abandon" => held \in {NONE, Guarded}

\* A watchdog that may still shoot is that of the question in flight, and the
\* client has yet to stand it down; one that shot has left its shim gone.
OneWatchdog ==
  \A n \in Asks :
    /\ dog[n].clock # "off" => dog[n].guards \in Shims
    /\ dog[n].clock # "off" /\ ~dog[n].done =>
         n = ask.no /\ at \in {"send", "read", "stop"}
    /\ dog[n].expired => dog[n].guards \in Shims /\ Gone(dog[n].guards)

\* A client that holds a shim that was shot has yet to find out.
ShotIsKnown ==
  held # NONE /\ shim[held].is = "shot" =>
    at \in {"send", "read", "stop", "settle"} /\ dog[ask.no].expired

\* At most one shim runs.
OneRuns ==
  \A p \in Shims : Alive(p) => p = IF at = "abandon" THEN Guarded ELSE held

\* The question in flight is unread, or answered, or cut short in the answer.
Owed(p) ==
  \/ shim[p].in = <<ask.no>> /\ shim[p].out = <<>>
  \/ /\ shim[p].in = <<>>
     /\ \E kind \in {"whole", "odd", "garbled"} : shim[p].out = <<Line(ask.no, kind)>>
  \/ /\ shim[p].in = <<ask.no>> /\ Gone(p)
     /\ shim[p].out = <<Line(ask.no, "cut")>>

\* Nothing is left in the pipes but while a line is being read.
PipesInStep ==
  /\ \A p \in Shims : shim[p].is = "unborn" => shim[p].in = <<>> /\ shim[p].out = <<>>
  /\ held # NONE =>
       IF at = "read" THEN Owed(held)
       ELSE shim[held].out = <<>> /\ (Gone(held) \/ shim[held].in = <<>>)

\* What was read is of this question.
GotIsMine ==
  /\ at \in {"send", "read"} => got = Nothing
  /\ at \in {"stop", "settle"} => got = Nothing \/ got.no = ask.no

IInv ==
  /\ TypeOK /\ InFlight /\ OneWatchdog /\ ShotIsKnown /\ OneRuns /\ PipesInStep
  /\ GotIsMine /\ AnswerIsMine

-----------------------------------------------------------------------------
(* The types.                                                              *)

\* A shim's record, spelled out.
LEMMA ShimTyped ==
  ASSUME TypeOK, NEW p \in Shims
  PROVE  /\ shim[p] \in ShimStates
         /\ shim[p].in \in Seq(Asks) /\ shim[p].out \in Seq(Lines)
BY DEF TypeOK, ShimStates

\* A kill keeps the pipes and stops the shim, unless it had stopped.
LEMMA KillTyped ==
  ASSUME TypeOK, NEW p \in Shims, NEW how \in {"exited", "shot", "killed"}
  PROVE  /\ Kill(p, how) \in [Shims -> ShimStates]
         /\ \A q \in Shims : /\ Kill(p, how)[q].in = shim[q].in
                             /\ Kill(p, how)[q].out = shim[q].out
                             /\ q # p => Kill(p, how)[q].is = shim[q].is
         /\ Kill(p, how)[p].is = IF Gone(p) THEN shim[p].is ELSE how
<1>0. shim \in [Shims -> ShimStates]
  BY DEF TypeOK
<1>1. CASE Gone(p)
  BY <1>0, <1>1 DEF Kill
<1>2. CASE ~Gone(p)
  <2> DEFINE k == [shim EXCEPT ![p].is = how]
  <2>1. k \in [Shims -> ShimStates]
    BY <1>0 DEF ShimStates
  <2>2. \A q \in Shims : k[q].in = shim[q].in /\ k[q].out = shim[q].out /\ (q # p => k[q].is = shim[q].is)
    BY <1>0 DEF ShimStates
  <2>3. k[p].is = how
    BY <1>0 DEF ShimStates
  <2>4. Kill(p, how) = k
    BY <1>2 DEF Kill
  <2> QED BY <1>2, <2>1, <2>2, <2>3, <2>4
<1> QED BY <1>1, <1>2

\* What a kill does to the shims: none comes back, the one killed is gone.
LEMMA KillEffect ==
  ASSUME TypeOK, NEW p \in Shims, NEW how \in {"exited", "shot", "killed"},
         shim' = Kill(p, how)
  PROVE  /\ shim' \in [Shims -> ShimStates]
         /\ shim'[p].is \in {"exited", "shot", "killed"}
         /\ \A q \in Shims :
              /\ shim'[q].in = shim[q].in /\ shim'[q].out = shim[q].out
              /\ Gone(q) => Gone(q)'
              /\ Alive(q)' => Alive(q) /\ q # p
              /\ shim'[q].is = "unborn" => shim[q].is = "unborn"
              /\ shim'[q].is = "shot" => shim[q].is = "shot" \/ (how = "shot" /\ q = p)
<1>1. /\ shim' \in [Shims -> ShimStates]
      /\ \A q \in Shims : /\ shim'[q].in = shim[q].in
                          /\ shim'[q].out = shim[q].out
                          /\ q # p => shim'[q].is = shim[q].is
      /\ shim'[p].is = IF Gone(p) THEN shim[p].is ELSE how
  BY KillTyped
<1>2. shim'[p].is \in {"exited", "shot", "killed"}
  BY <1>1 DEF Gone
<1>3. ASSUME NEW q \in Shims
      PROVE  /\ Gone(q) => Gone(q)'
             /\ Alive(q)' => Alive(q) /\ q # p
             /\ shim'[q].is = "unborn" => shim[q].is = "unborn"
             /\ shim'[q].is = "shot" => shim[q].is = "shot" \/ (how = "shot" /\ q = p)
  <2>1. CASE q = p
    BY <1>1, <1>2, <2>1 DEF Gone, Alive
  <2>2. CASE q # p
    <3>1. shim'[q].is = shim[q].is
      BY <1>1, <2>2
    <3>2. QED BY <2>2, <3>1 DEF Gone, Alive
  <2>3. QED BY <2>1, <2>2
<1>4. QED BY <1>1, <1>2, <1>3

\* A line is of a question the client may ask.
LEMMA LineTyped ==
  /\ Nothing \in Lines
  /\ \A n \in Asks, kind \in {"whole", "odd", "garbled", "cut"} : Line(n, kind) \in Lines
BY OracleAssumption DEF Nothing, Lines, Line, Asks

\* Beginning an exchange opens the next question, its watchdog set.
LEMMA BeginTyped ==
  ASSUME TypeOK, NEW p \in Shims, NEW kind \in {"hello", "match"}, NEW big \in BOOLEAN,
         Begin(p, kind, big)
  PROVE  /\ ask' \in [no : 0 .. MaxAsks, kind : {"hello", "match"}, big : BOOLEAN]
         /\ ask'.no = ask.no + 1 /\ ask'.no \in Asks
         /\ dog' \in [Asks -> Watchdogs]
         /\ \A n \in Asks : n # ask'.no => dog'[n] = dog[n]
         /\ dog'[ask'.no] = [clock |-> "set", done |-> FALSE, expired |-> FALSE, guards |-> p]
         /\ got' = Nothing /\ got' \in Lines /\ at' = "send"
<1>1. ask.no \in 0 .. MaxAsks /\ MaxAsks \in Nat
  BY OracleAssumption DEF TypeOK
<1>2. /\ ask' \in [no : 0 .. MaxAsks, kind : {"hello", "match"}, big : BOOLEAN]
      /\ ask'.no = ask.no + 1 /\ ask'.no \in Asks
  BY <1>1 DEF Begin, Asks
<1>3. [clock |-> "set", done |-> FALSE, expired |-> FALSE, guards |-> p] \in Watchdogs
  BY DEF Watchdogs
<1>4. /\ dog' \in [Asks -> Watchdogs]
      /\ \A n \in Asks : n # ask'.no => dog'[n] = dog[n]
      /\ dog'[ask'.no] = [clock |-> "set", done |-> FALSE, expired |-> FALSE, guards |-> p]
  BY <1>2, <1>3 DEF Begin, TypeOK
<1>5. got' = Nothing /\ got' \in Lines /\ at' = "send"
  BY <1>1 DEF Begin, Nothing, Lines
<1>6. QED BY <1>2, <1>4, <1>5

-----------------------------------------------------------------------------
(* The calls.                                                              *)

\* A start: the shim born is the only one that runs.
LEMMA StartStep ==
  ASSUME IInv, Start
  PROVE  IInv'
<1> USE DEF IInv
<1>1. PICK p \in Shims :
        /\ shim[p].is = "unborn" /\ \A q \in 1 .. (p - 1) : shim[q].is # "unborn"
        /\ Begin(p, "hello", FALSE)
        /\ shim' = [shim EXCEPT ![p].is = "up"]
        /\ held' = p
  BY DEF Start
<1>2. at = "idle" /\ held = NONE /\ last' = last
  BY DEF Start
<1>3. /\ ask' \in [no : 0 .. MaxAsks, kind : {"hello", "match"}, big : BOOLEAN]
      /\ ask'.no = ask.no + 1 /\ ask'.no \in Asks
      /\ dog' \in [Asks -> Watchdogs]
      /\ \A n \in Asks : n # ask'.no => dog'[n] = dog[n]
      /\ dog'[ask'.no] = [clock |-> "set", done |-> FALSE, expired |-> FALSE, guards |-> p]
      /\ got' = Nothing /\ got' \in Lines /\ at' = "send"
  BY <1>1, BeginTyped
<1>4. /\ shim' \in [Shims -> ShimStates]
      /\ \A q \in Shims : shim'[q].in = shim[q].in /\ shim'[q].out = shim[q].out
                          /\ (q # p => shim'[q].is = shim[q].is)
      /\ shim'[p].is = "up"
  BY <1>1 DEF TypeOK, ShimStates
<1>5. TypeOK'
  BY <1>1, <1>2, <1>3, <1>4 DEF TypeOK
<1>6. InFlight'
  BY <1>1, <1>3 DEF InFlight, Guarded
<1>7. OneWatchdog'
  BY <1>1, <1>2, <1>3, <1>4 DEF OneWatchdog, Gone
<1>8. ShotIsKnown'
  BY <1>1, <1>4 DEF ShotIsKnown
<1>9. OneRuns'
  BY <1>1, <1>2, <1>3, <1>4 DEF OneRuns, Alive, TypeOK, Shims, NONE
<1>10. PipesInStep'
  BY <1>1, <1>2, <1>3, <1>4 DEF PipesInStep
<1>11. GotIsMine' /\ AnswerIsMine'
  BY <1>3 DEF GotIsMine, AnswerIsMine
<1>12. QED BY <1>5, <1>6, <1>7, <1>8, <1>9, <1>10, <1>11

\* A request: refused, or the next question of the shim that is held.
LEMMA RequestStep ==
  ASSUME IInv, Request
  PROVE  IInv'
<1> USE DEF IInv
<1>1. at = "idle" /\ held' = held /\ shim' = shim
  BY DEF Request
<1>2. CASE held = NONE
  <2>1. last' = Ended("notrunning", Nothing) /\ UNCHANGED <<dog, ask, at, got>>
    BY <1>2 DEF Request
  <2>2. TypeOK'
    BY <1>1, <2>1, LineTyped DEF TypeOK, Ended
  <2>3. AnswerIsMine'
    BY <2>1 DEF AnswerIsMine, Ended
  <2>4. (InFlight /\ OneWatchdog /\ ShotIsKnown /\ OneRuns /\ PipesInStep /\ GotIsMine)'
    BY <1>1, <2>1 DEF InFlight, OneWatchdog, ShotIsKnown, OneRuns, PipesInStep, GotIsMine,
       Guarded, Gone, Alive, Owed
  <2>5. QED BY <2>2, <2>3, <2>4
<1>3. CASE held # NONE
  <2>1. PICK big \in BOOLEAN : Begin(held, "match", big)
    BY <1>3 DEF Request
  <2>2. last' = last /\ held \in Shims
    BY <1>3 DEF Request, TypeOK
  <2>3. /\ ask' \in [no : 0 .. MaxAsks, kind : {"hello", "match"}, big : BOOLEAN]
        /\ ask'.no = ask.no + 1 /\ ask'.no \in Asks
        /\ dog' \in [Asks -> Watchdogs]
        /\ \A n \in Asks : n # ask'.no => dog'[n] = dog[n]
        /\ dog'[ask'.no] = [clock |-> "set", done |-> FALSE, expired |-> FALSE, guards |-> held]
        /\ got' = Nothing /\ got' \in Lines /\ at' = "send"
    BY <2>1, <2>2, BeginTyped
  <2>4. TypeOK'
    BY <1>1, <2>2, <2>3 DEF TypeOK
  <2>5. InFlight'
    BY <1>1, <2>2, <2>3 DEF InFlight, Guarded
  <2>6. OneWatchdog'
    BY <1>1, <2>2, <2>3 DEF OneWatchdog, Gone
  <2>7. ShotIsKnown' /\ OneRuns' /\ PipesInStep'
    BY <1>1, <2>3 DEF ShotIsKnown, OneRuns, Alive, PipesInStep, Gone
  <2>8. GotIsMine' /\ AnswerIsMine'
    BY <2>3 DEF GotIsMine, AnswerIsMine
  <2>9. QED BY <2>4, <2>5, <2>6, <2>7, <2>8
<1>4. QED BY <1>2, <1>3

\* A close leaves the shim it held stopped.
LEMMA CloseStep ==
  ASSUME IInv, Close
  PROVE  IInv'
<1> USE DEF IInv
<1>1. /\ at = "idle" /\ held \in Shims /\ held' = NONE
      /\ shim' = Kill(held, "exited")
      /\ last' = Ended("closed", Nothing)
      /\ UNCHANGED <<dog, ask, at, got>>
  BY DEF Close, TypeOK
<1>2. /\ shim' \in [Shims -> ShimStates]
      /\ \A q \in Shims :
           /\ shim'[q].in = shim[q].in /\ shim'[q].out = shim[q].out
           /\ Gone(q) => Gone(q)'
           /\ Alive(q)' => Alive(q) /\ q # held
           /\ shim'[q].is = "unborn" => shim[q].is = "unborn"
  BY <1>1, KillEffect
<1>3. TypeOK'
  BY <1>1, <1>2, LineTyped DEF TypeOK, Ended
<1>4. InFlight' /\ ShotIsKnown' /\ GotIsMine' /\ AnswerIsMine'
  BY <1>1 DEF InFlight, ShotIsKnown, GotIsMine, AnswerIsMine, Ended
<1>5. OneWatchdog'
  BY <1>1, <1>2 DEF OneWatchdog
<1>6. OneRuns'
  BY <1>1, <1>2 DEF OneRuns
<1>7. PipesInStep'
  BY <1>1, <1>2 DEF PipesInStep
<1>8. QED BY <1>3, <1>4, <1>5, <1>6, <1>7

-----------------------------------------------------------------------------
(* One exchange.                                                           *)

\* A line is written to a pipe that was empty, or a broken pipe is noticed.
LEMMA SendStep ==
  ASSUME IInv, Send \/ SendBig
  PROVE  IInv'
<1> USE DEF IInv
<1>1. /\ at = "send" /\ held \in Shims /\ ask.no \in Asks /\ got = Nothing
      /\ UNCHANGED <<held, dog, ask, got, last>>
  BY DEF Send, SendBig, InFlight, GotIsMine
<1>2. CASE Gone(held) /\ at' = "stop" /\ shim' = shim
  <2>1. TypeOK' /\ InFlight' /\ GotIsMine' /\ AnswerIsMine'
    BY <1>1, <1>2 DEF TypeOK, InFlight, Guarded, GotIsMine, AnswerIsMine
  <2>2. OneWatchdog' /\ ShotIsKnown' /\ OneRuns'
    BY <1>1, <1>2 DEF OneWatchdog, ShotIsKnown, OneRuns, Alive, Gone
  <2>3. PipesInStep'
    BY <1>1, <1>2 DEF PipesInStep, Gone
  <2>4. QED BY <2>1, <2>2, <2>3
<1>3. CASE /\ Alive(held) /\ at' = "read"
           /\ shim' = [shim EXCEPT ![held].in = Append(@, ask.no)]
  <2>1. shim[held].in = <<>> /\ shim[held].out = <<>>
    BY <1>1, <1>3 DEF PipesInStep, Alive, Gone, Shims, NONE
  <2>2. Append(shim[held].in, ask.no) = <<ask.no>> /\ <<ask.no>> \in Seq(Asks)
    BY <1>1, <2>1
  <2>3. /\ shim' \in [Shims -> ShimStates]
        /\ \A q \in Shims : /\ shim'[q].is = shim[q].is /\ shim'[q].out = shim[q].out
                            /\ q # held => shim'[q].in = shim[q].in
        /\ shim'[held].in = <<ask.no>>
    BY <1>1, <1>3, <2>2 DEF TypeOK, ShimStates
  <2>4. TypeOK' /\ InFlight' /\ GotIsMine' /\ AnswerIsMine'
    BY <1>1, <1>3, <2>3 DEF TypeOK, InFlight, Guarded, GotIsMine, AnswerIsMine
  <2>5. OneWatchdog' /\ ShotIsKnown' /\ OneRuns'
    BY <1>1, <1>3, <2>3 DEF OneWatchdog, ShotIsKnown, OneRuns, Alive, Gone
  <2>6. Owed(held)'
    BY <1>1, <2>1, <2>3 DEF Owed
  <2>7. \A q \in Shims : shim'[q].is = "unborn" => shim'[q].in = <<>> /\ shim'[q].out = <<>>
    BY <1>3, <2>3 DEF PipesInStep, Alive
  <2>8. QED BY <1>1, <1>3, <2>4, <2>5, <2>6, <2>7 DEF PipesInStep
<1>4. QED BY <1>2, <1>3 DEF Send, SendBig

\* A line is taken off the output, or its end is.
LEMMA ReadStep ==
  ASSUME IInv, Read
  PROVE  IInv'
<1> USE DEF IInv
<1>1. /\ at = "read" /\ held \in Shims /\ ask.no \in Asks /\ got = Nothing
      /\ UNCHANGED <<held, dog, ask, last>> /\ at' = "stop" /\ Owed(held)
  BY DEF Read, InFlight, GotIsMine, PipesInStep, Shims, NONE
<1>2. CASE shim[held].out = <<>> /\ Gone(held) /\ got' = got /\ shim' = shim
  <2>1. TypeOK' /\ InFlight' /\ GotIsMine' /\ AnswerIsMine'
    BY <1>1, <1>2 DEF TypeOK, InFlight, Guarded, GotIsMine, AnswerIsMine
  <2>2. OneWatchdog' /\ ShotIsKnown' /\ OneRuns'
    BY <1>1, <1>2 DEF OneWatchdog, ShotIsKnown, OneRuns, Alive, Gone
  <2>3. PipesInStep'
    BY <1>1, <1>2 DEF PipesInStep, Gone
  <2>4. QED BY <2>1, <2>2, <2>3
<1>3. CASE /\ shim[held].out # <<>>
           /\ got' = IF Head(shim[held].out).kind = "garbled" THEN Nothing
                     ELSE Head(shim[held].out)
           /\ shim' = [shim EXCEPT ![held].out = Tail(@)]
  <2>1. PICK kind \in {"whole", "odd", "garbled", "cut"} :
          /\ shim[held].out = <<Line(ask.no, kind)>>
          /\ Gone(held) \/ shim[held].in = <<>>
    BY <1>1, <1>3 DEF Owed
  <2>2. Head(shim[held].out) = Line(ask.no, kind) /\ Tail(shim[held].out) = <<>>
    BY <2>1
  <2>3. got' \in Lines /\ (got' = Nothing \/ got'.no = ask.no)
    <3>1. Line(ask.no, kind) \in Lines /\ Line(ask.no, kind).no = ask.no /\ Nothing \in Lines
      BY <1>1, LineTyped DEF Line
    <3>2. got' \in {Nothing, Line(ask.no, kind)}
      BY <1>3, <2>2
    <3>3. QED BY <3>1, <3>2
  <2>4. /\ shim' \in [Shims -> ShimStates]
        /\ \A q \in Shims : /\ shim'[q].is = shim[q].is /\ shim'[q].in = shim[q].in
                            /\ q # held => shim'[q].out = shim[q].out
        /\ shim'[held].out = <<>>
    <3>1. shim' = [shim EXCEPT ![held].out = <<>>]
      BY <1>3, <2>2
    <3>2. <<>> \in Seq(Lines)
      OBVIOUS
    <3>3. QED BY <1>1, <3>1, <3>2 DEF TypeOK, ShimStates
  <2>5. TypeOK' /\ InFlight' /\ GotIsMine' /\ AnswerIsMine'
    BY <1>1, <2>3, <2>4 DEF TypeOK, InFlight, Guarded, GotIsMine, AnswerIsMine
  <2>6. OneWatchdog' /\ ShotIsKnown' /\ OneRuns'
    BY <1>1, <2>4 DEF OneWatchdog, ShotIsKnown, OneRuns, Alive, Gone
  <2>7. \A q \in Shims : shim'[q].is = "unborn" => shim'[q].in = <<>> /\ shim'[q].out = <<>>
    BY <2>4 DEF PipesInStep
  <2>8. QED BY <1>1, <2>1, <2>4, <2>5, <2>6, <2>7 DEF PipesInStep, Gone
<1>4. QED BY <1>2, <1>3 DEF Read

\* The watchdog of the question in flight is stood down.
LEMMA StopStep ==
  ASSUME IInv, Stop
  PROVE  IInv'
<1> USE DEF IInv
<1>1. /\ at = "stop" /\ ask.no \in Asks /\ Guarded \in Shims /\ held = Guarded
      /\ UNCHANGED <<held, shim, ask, got, last>> /\ at' = "settle"
      /\ dog' = [dog EXCEPT ![ask.no].done = TRUE,
                            ![ask.no].clock = IF @ = "set" THEN "off" ELSE @]
  BY DEF Stop, InFlight
<1>2. /\ dog' \in [Asks -> Watchdogs]
      /\ \A n \in Asks : /\ n # ask.no => dog'[n] = dog[n]
                         /\ dog'[n].guards = dog[n].guards
                         /\ dog'[n].expired = dog[n].expired
                         /\ dog'[n].clock # "off" => dog[n].clock # "off"
      /\ dog'[ask.no].done
  <2> DEFINE c == IF dog[ask.no].clock = "set" THEN "off" ELSE dog[ask.no].clock
  <2>1. dog \in [Asks -> Watchdogs] /\ dog[ask.no] \in Watchdogs /\ ask.no \in Asks
    BY <1>1 DEF TypeOK
  <2>2. c \in {"off", "set", "rang"} /\ (c # "off" => dog[ask.no].clock # "off")
    BY <2>1 DEF Watchdogs
  <2>3. dog' = [dog EXCEPT ![ask.no].done = TRUE, ![ask.no].clock = c]
    BY <1>1
  <2> HIDE DEF c
  <2>4. QED BY <2>1, <2>2, <2>3 DEF Watchdogs
<1>3. TypeOK' /\ GotIsMine' /\ AnswerIsMine'
  BY <1>1, <1>2 DEF TypeOK, GotIsMine, AnswerIsMine
<1>4. InFlight' /\ ShotIsKnown' /\ OneRuns' /\ PipesInStep'
  BY ZenonT(40), <1>1, <1>2 DEF InFlight, Guarded, ShotIsKnown, OneRuns, Alive, PipesInStep, Gone
<1>5. OneWatchdog'
  BY <1>1, <1>2 DEF OneWatchdog, Gone
<1>6. QED BY <1>3, <1>4, <1>5

\* What a call makes of the line it read is settled once.
LEMMA SettleStep ==
  ASSUME IInv, Settle
  PROVE  IInv'
<1> USE DEF IInv
<1>1. /\ at = "settle" /\ ask.no \in Asks /\ Guarded \in Shims /\ held = Guarded
      /\ held \in Shims /\ UNCHANGED <<shim, dog, ask, got>>
      /\ held' = IF dog[ask.no].expired THEN NONE ELSE held
      /\ got \in Lines /\ (got = Nothing \/ got.no = ask.no)
  BY DEF Settle, InFlight, GotIsMine, TypeOK
<1>2. \/ at' = "abandon" /\ last' = last
      \/ at' = "diagnose" /\ last' = last /\ ~dog[ask.no].expired
      \/ at' = "idle" /\ last'.line \in Lines /\ last'.how # "answer"
      \/ at' = "idle" /\ last'.line = got /\ Whole(got) /\ got.kind # "odd"
  BY <1>1, LineTyped DEF Settle, Accepted, Raised, Ended
<1>3. TypeOK'
  BY <1>1, <1>2 DEF TypeOK
<1>4. InFlight' /\ GotIsMine'
  BY <1>1, <1>2 DEF InFlight, Guarded, GotIsMine
<1>5. OneWatchdog'
  BY <1>1, <1>2 DEF OneWatchdog, Gone
<1>6. ShotIsKnown'
  BY <1>1, <1>2 DEF ShotIsKnown
<1>7. OneRuns'
  <2>1. dog[ask.no].expired => ~Alive(held)
    BY <1>1 DEF OneWatchdog, Guarded, Gone, Alive
  <2>2. QED BY <1>1, <1>2, <2>1 DEF OneRuns, Alive, Guarded
<1>8. PipesInStep'
  BY <1>1, <1>2 DEF PipesInStep, Gone
<1>9. AnswerIsMine'
  <2>1. SUFFICES ASSUME at' = "idle", last'.line = got, Whole(got), got.kind # "odd"
                 PROVE  last'.line = Line(ask'.no, "whole")
    BY <1>2 DEF AnswerIsMine
  <2>2. got.kind = "whole" /\ got.no = ask.no
    BY <1>1, <2>1 DEF Whole, Nothing
  <2>3. got = [no |-> got.no, kind |-> got.kind]
    BY <1>1 DEF Lines
  <2>4. QED BY <1>1, <2>1, <2>2, <2>3 DEF Line
<1>10. QED BY <1>3, <1>4, <1>5, <1>6, <1>7, <1>8, <1>9

\* A shim that is asked why it stopped has stopped.
LEMMA DiagnoseStep ==
  ASSUME IInv, Diagnose
  PROVE  IInv'
<1> USE DEF IInv
<1>1. /\ at = "diagnose" /\ ask.no \in Asks /\ Guarded \in Shims /\ held = Guarded
      /\ held \in Shims /\ UNCHANGED <<held, dog, ask, got>>
      /\ shim' = Kill(held, "killed")
  BY DEF Diagnose, InFlight
<1>2. /\ shim' \in [Shims -> ShimStates]
      /\ \A q \in Shims :
           /\ shim'[q].in = shim[q].in /\ shim'[q].out = shim[q].out
           /\ Gone(q) => Gone(q)'
           /\ Alive(q)' => Alive(q) /\ q # held
           /\ shim'[q].is = "unborn" => shim[q].is = "unborn"
           /\ shim'[q].is = "shot" => shim[q].is = "shot"
  BY <1>1, KillEffect
<1>3. \/ at' = "abandon" /\ last' = last
      \/ at' = "idle" /\ last'.line \in Lines /\ last'.how # "answer"
  BY LineTyped DEF Diagnose, Raised, Ended
<1>4. TypeOK'
  BY <1>1, <1>2, <1>3 DEF TypeOK
<1>5. InFlight' /\ GotIsMine' /\ AnswerIsMine'
  BY <1>1, <1>3 DEF InFlight, Guarded, GotIsMine, AnswerIsMine
<1>6. OneWatchdog'
  BY <1>1, <1>2, <1>3 DEF OneWatchdog
<1>7. ShotIsKnown' /\ OneRuns'
  BY <1>1, <1>2, <1>3 DEF ShotIsKnown, OneRuns
<1>8. PipesInStep'
  BY <1>1, <1>2, <1>3 DEF PipesInStep
<1>9. QED BY <1>4, <1>5, <1>6, <1>7, <1>8

\* A start given up leaves nothing running.
LEMMA AbandonStep ==
  ASSUME IInv, Abandon
  PROVE  IInv'
<1> USE DEF IInv
<1>1. /\ at = "abandon" /\ ask.no \in Asks /\ Guarded \in Shims
      /\ at' = "idle" /\ held' = NONE /\ UNCHANGED <<dog, ask, got>>
      /\ shim' = Kill(Guarded, "killed") /\ last' = Ended("notstarted", Nothing)
  BY DEF Abandon, InFlight, Guarded
<1>2. /\ shim' \in [Shims -> ShimStates]
      /\ \A q \in Shims :
           /\ shim'[q].in = shim[q].in /\ shim'[q].out = shim[q].out
           /\ Gone(q) => Gone(q)'
           /\ Alive(q)' => Alive(q) /\ q # Guarded
           /\ shim'[q].is = "unborn" => shim[q].is = "unborn"
  BY <1>1, KillEffect
<1>3. TypeOK'
  BY <1>1, <1>2, LineTyped DEF TypeOK, Ended
<1>4. InFlight' /\ GotIsMine' /\ AnswerIsMine' /\ ShotIsKnown'
  BY <1>1 DEF InFlight, GotIsMine, AnswerIsMine, ShotIsKnown, Ended
<1>5. OneWatchdog'
  BY <1>1, <1>2 DEF OneWatchdog
<1>6. OneRuns'
  BY <1>1, <1>2 DEF OneRuns
<1>7. PipesInStep'
  BY <1>1, <1>2 DEF PipesInStep
<1>8. QED BY <1>3, <1>4, <1>5, <1>6, <1>7

-----------------------------------------------------------------------------
(* The shims and the watchdogs.                                            *)

\* A shim that is owed an answer is the one being read.
LEMMA OnlyTheOneRead ==
  ASSUME IInv, NEW p \in Shims, Alive(p), shim[p].in # <<>>, p = held
  PROVE  at = "read" /\ shim[p].in = <<ask.no>> /\ shim[p].out = <<>> /\ ask.no \in Asks
<1>1. p # NONE /\ ~Gone(p)
  BY DEF Shims, NONE, Gone, Alive
<1>2. QED BY <1>1 DEF IInv, PipesInStep, Owed, InFlight

\* An answer is to the question in flight.
LEMMA ReplyStep ==
  ASSUME IInv, NEW p \in Shims, Reply(p)
  PROVE  IInv'
<1> USE DEF IInv
<1>1. PICK kind \in {"whole", "odd", "garbled"} :
        /\ Alive(p) /\ shim[p].in # <<>>
        /\ shim' = [shim EXCEPT ![p].in = Tail(@),
                                ![p].out = Append(@, Line(Head(shim[p].in), kind))]
  BY DEF Reply
<1>2. UNCHANGED <<held, dog, ask, at, got, last>>
  BY DEF Reply
<1>3. /\ Tail(shim[p].in) \in Seq(Asks)
      /\ Append(shim[p].out, Line(Head(shim[p].in), kind)) \in Seq(Lines)
  <2>1. shim[p].in \in Seq(Asks) /\ shim[p].out \in Seq(Lines)
    BY ShimTyped
  <2>2. Head(shim[p].in) \in Asks /\ Tail(shim[p].in) \in Seq(Asks)
    BY <1>1, <2>1
  <2>3. Line(Head(shim[p].in), kind) \in Lines
    BY <2>2, LineTyped
  <2>4. QED BY <2>1, <2>2, <2>3
<1>4. /\ shim' \in [Shims -> ShimStates]
      /\ \A q \in Shims : shim'[q].is = shim[q].is
      /\ \A q \in Shims \ {p} : shim'[q].in = shim[q].in /\ shim'[q].out = shim[q].out
      /\ shim'[p].in = Tail(shim[p].in)
      /\ shim'[p].out = Append(shim[p].out, Line(Head(shim[p].in), kind))
  BY <1>1, <1>3 DEF TypeOK, ShimStates
<1>5. TypeOK' /\ InFlight' /\ GotIsMine' /\ AnswerIsMine'
  BY <1>2, <1>4 DEF TypeOK, InFlight, Guarded, GotIsMine, AnswerIsMine
<1>6. OneWatchdog' /\ ShotIsKnown' /\ OneRuns'
  BY <1>2, <1>4 DEF OneWatchdog, ShotIsKnown, OneRuns, Alive, Gone, TypeOK, Guarded
<1>7. \A q \in Shims : shim'[q].is = "unborn" => shim'[q].in = <<>> /\ shim'[q].out = <<>>
  BY <1>1, <1>4 DEF PipesInStep, Alive
<1>8. CASE p = held
  <2>1. at = "read" /\ shim[p].in = <<ask.no>> /\ shim[p].out = <<>>
    BY <1>1, <1>8, OnlyTheOneRead
  <2>2. shim'[p].in = <<>> /\ shim'[p].out = <<Line(ask.no, kind)>>
    BY <1>4, <2>1
  <2>3. Owed(held)'
    BY <1>2, <1>8, <2>2 DEF Owed
  <2>4. QED BY <1>2, <1>5, <1>6, <1>7, <2>1, <2>3 DEF PipesInStep
<1>9. CASE p # held
  <2>1. ASSUME held # NONE
        PROVE  IF at = "read" THEN Owed(held)'
               ELSE shim'[held].out = <<>> /\ (Gone(held)' \/ shim'[held].in = <<>>)
    <3>1. held \in Shims \ {p}
      BY <1>9, <2>1 DEF TypeOK
    <3>2. QED BY <1>2, <1>4, <2>1, <3>1 DEF PipesInStep, Owed, Gone
  <2>2. QED BY <1>2, <1>5, <1>6, <1>7, <2>1 DEF PipesInStep
<1>10. QED BY <1>8, <1>9

\* A shim that exits may leave its answer cut short.
LEMMA ExitStep ==
  ASSUME IInv, NEW p \in Shims, Exit(p)
  PROVE  IInv'
<1> USE DEF IInv
<1> DEFINE cut == Line(Head(shim[p].in), "cut")
<1>1. Alive(p) /\ UNCHANGED <<held, dog, ask, at, got, last>>
  BY DEF Exit
<1>2. PICK rest \in {<<>>, <<cut>>} :
        /\ rest # <<>> => shim[p].in # <<>>
        /\ shim' = [shim EXCEPT ![p].is = "exited", ![p].out = shim[p].out \o rest]
        /\ shim[p].out \o rest \in Seq(Lines)
  <2>1. shim \in [Shims -> ShimStates] /\ shim[p].in \in Seq(Asks) /\ shim[p].out \in Seq(Lines)
    BY ShimTyped DEF TypeOK
  <2>2. CASE shim' = [shim EXCEPT ![p].is = "exited"]
    <3>1. shim[p].out \o <<>> = shim[p].out
      BY <2>1
    <3>2. [shim EXCEPT ![p].is = "exited"] =
            [shim EXCEPT ![p].is = "exited", ![p].out = shim[p].out]
      BY <2>1 DEF ShimStates
    <3>3. QED BY <2>1, <2>2, <3>1, <3>2
  <2>3. CASE /\ shim[p].in # <<>>
             /\ shim' = [shim EXCEPT ![p].is = "exited", ![p].out = Append(@, cut)]
    <3>1. Head(shim[p].in) \in Asks
      BY <2>1, <2>3
    <3>2. cut \in Lines
      BY <3>1, LineTyped
    <3>3. Append(shim[p].out, cut) = shim[p].out \o <<cut>>
          /\ shim[p].out \o <<cut>> \in Seq(Lines)
      BY <2>1, <3>2
    <3>4. QED BY <2>3, <3>3
  <2>4. QED BY <2>2, <2>3 DEF Exit
<1>3. /\ shim' \in [Shims -> ShimStates]
      /\ \A q \in Shims : shim'[q].in = shim[q].in
      /\ \A q \in Shims \ {p} : shim'[q].is = shim[q].is /\ shim'[q].out = shim[q].out
      /\ shim'[p].is = "exited"
      /\ shim'[p].out = shim[p].out \o rest
  BY <1>2 DEF TypeOK, ShimStates
<1>4. \A q \in Shims : /\ Gone(q) => Gone(q)'
                       /\ Alive(q)' => Alive(q)
                       /\ shim'[q].is = "shot" => shim[q].is = "shot"
                       /\ shim'[q].is = "unborn" => shim[q].is = "unborn" /\ q # p
  BY <1>1, <1>3 DEF Gone, Alive
<1>5. TypeOK' /\ InFlight' /\ GotIsMine' /\ AnswerIsMine'
  BY <1>1, <1>3 DEF TypeOK, InFlight, Guarded, GotIsMine, AnswerIsMine
<1>6. OneWatchdog' /\ ShotIsKnown' /\ OneRuns'
  BY <1>1, <1>4 DEF OneWatchdog, ShotIsKnown, OneRuns, TypeOK, Guarded
<1>7. \A q \in Shims : shim'[q].is = "unborn" => shim'[q].in = <<>> /\ shim'[q].out = <<>>
  BY <1>3, <1>4 DEF PipesInStep
<1>8. ASSUME held # NONE
      PROVE  IF at = "read" THEN Owed(held)'
             ELSE shim'[held].out = <<>> /\ (Gone(held)' \/ shim'[held].in = <<>>)
  <2>1. CASE p # held
    <3>1. held \in Shims \ {p}
      BY <1>8, <2>1 DEF TypeOK
    <3>2. QED BY <1>1, <1>3, <1>8, <3>1 DEF PipesInStep, Owed, Gone
  <2>2. CASE p = held /\ rest = <<>>
    <3>1. shim'[p].out = shim[p].out
      BY <1>3, <2>2, ShimTyped
    <3>2. QED BY <1>1, <1>3, <1>8, <2>2, <3>1 DEF PipesInStep, Owed, Gone
  <2>3. CASE p = held /\ rest = <<cut>>
    <3>1. at = "read" /\ shim[p].in = <<ask.no>> /\ shim[p].out = <<>>
      BY <1>1, <1>2, <2>3, OnlyTheOneRead
    <3>2. shim'[p].in = <<ask.no>> /\ shim'[p].out = <<Line(ask.no, "cut")>>
      BY <1>3, <2>3, <3>1
    <3>3. QED BY <1>1, <1>3, <2>3, <3>1, <3>2 DEF Owed, Gone
  <2>4. QED BY <2>1, <2>2, <2>3
<1>9. QED BY <1>1, <1>5, <1>6, <1>7, <1>8 DEF PipesInStep

\* A watchdog's timer runs out.
LEMMA RingStep ==
  ASSUME IInv, NEW n \in Asks, Ring(n)
  PROVE  IInv'
<1> USE DEF IInv
<1>1. /\ dog[n].clock = "set" /\ UNCHANGED <<held, shim, ask, at, got, last>>
      /\ dog' \in [Asks -> Watchdogs]
      /\ \A k \in Asks : /\ dog'[k].done = dog[k].done /\ dog'[k].guards = dog[k].guards
                         /\ dog'[k].expired = dog[k].expired
                         /\ k # n => dog'[k].clock = dog[k].clock
  BY DEF Ring, TypeOK, Watchdogs
<1>2. TypeOK' /\ GotIsMine' /\ AnswerIsMine'
  BY <1>1 DEF TypeOK, GotIsMine, AnswerIsMine
<1>3. InFlight' /\ ShotIsKnown' /\ OneRuns' /\ PipesInStep'
  BY <1>1 DEF InFlight, Guarded, ShotIsKnown, OneRuns, Alive, PipesInStep, Gone, Owed
<1>4. OneWatchdog'
  BY <1>1 DEF OneWatchdog, Gone
<1>5. QED BY <1>2, <1>3, <1>4

\* A watchdog that was stood down kills nothing; another kills the shim held.
LEMMA GiveUpStep ==
  ASSUME IInv, NEW n \in Asks, GiveUp(n)
  PROVE  IInv'
<1> USE DEF IInv
<1>1. dog[n].clock = "rang" /\ UNCHANGED <<held, ask, at, got, last>>
      /\ dog[n].guards \in Shims
  BY DEF GiveUp, OneWatchdog
<1>2. CASE dog[n].done
  <2>1. dog' = [dog EXCEPT ![n].clock = "off"] /\ shim' = shim
    BY <1>2 DEF GiveUp
  <2>2. /\ dog' \in [Asks -> Watchdogs]
        /\ \A k \in Asks : /\ dog'[k].done = dog[k].done /\ dog'[k].guards = dog[k].guards
                           /\ dog'[k].expired = dog[k].expired
                           /\ dog'[k].clock # "off" => dog[k].clock # "off"
    BY <2>1 DEF TypeOK, Watchdogs
  <2>3. TypeOK' /\ GotIsMine' /\ AnswerIsMine'
    BY <1>1, <2>1, <2>2 DEF TypeOK, GotIsMine, AnswerIsMine
  <2>4. InFlight' /\ ShotIsKnown' /\ OneRuns' /\ PipesInStep'
    BY <1>1, <2>1, <2>2 DEF InFlight, Guarded, ShotIsKnown, OneRuns, Alive, PipesInStep,
       Gone, Owed
  <2>5. OneWatchdog'
    BY <1>1, <2>1, <2>2 DEF OneWatchdog, Gone
  <2>6. QED BY <2>3, <2>4, <2>5
<1>3. CASE ~dog[n].done
  <2>1. /\ dog' = [dog EXCEPT ![n].clock = "off", ![n].expired = TRUE]
        /\ shim' = Kill(dog[n].guards, "shot")
        /\ n = ask.no /\ at \in {"send", "read", "stop"} /\ held = dog[n].guards
        /\ held \in Shims
    BY <1>1, <1>3 DEF GiveUp, OneWatchdog, InFlight, Guarded
  <2>2. /\ dog' \in [Asks -> Watchdogs]
        /\ \A k \in Asks : /\ dog'[k].done = dog[k].done /\ dog'[k].guards = dog[k].guards
                           /\ k # n => dog'[k].expired = dog[k].expired
                           /\ dog'[k].clock # "off" => dog[k].clock # "off"
        /\ dog'[n].expired
    <3>1. dog \in [Asks -> Watchdogs] /\ dog[n] \in Watchdogs
      BY DEF TypeOK
    <3> DEFINE r == [dog[n] EXCEPT !.clock = "off", !.expired = TRUE]
    <3>2. /\ r \in Watchdogs /\ r.done = dog[n].done /\ r.guards = dog[n].guards
          /\ r.clock = "off" /\ r.expired
      BY <3>1 DEF Watchdogs
    <3>3. dog' = [dog EXCEPT ![n] = r]
      BY <2>1, <3>1 DEF Watchdogs
    <3> HIDE DEF r
    <3>4. QED BY <3>1, <3>2, <3>3
  <2>3. /\ shim' \in [Shims -> ShimStates]
        /\ shim'[held].is \in {"exited", "shot", "killed"}
        /\ \A q \in Shims :
             /\ shim'[q].in = shim[q].in /\ shim'[q].out = shim[q].out
             /\ Gone(q) => Gone(q)'
             /\ Alive(q)' => Alive(q) /\ q # held
             /\ shim'[q].is = "unborn" => shim[q].is = "unborn"
    <3> DEFINE how == "shot"
    <3>1. how \in {"exited", "shot", "killed"} /\ shim' = Kill(held, how) /\ held \in Shims
      BY <2>1
    <3> HIDE DEF how
    <3>2. TypeOK
      BY DEF IInv
    <3>3. QED BY <3>1, <3>2, KillEffect
  <2>4. TypeOK' /\ GotIsMine' /\ AnswerIsMine'
    BY <1>1, <2>2, <2>3 DEF TypeOK, GotIsMine, AnswerIsMine
  <2>5. InFlight' /\ ShotIsKnown' /\ OneRuns'
    <3>1. InFlight'
      BY <1>1, <2>1, <2>2 DEF InFlight, Guarded
    <3>2. ShotIsKnown'
      BY <1>1, <2>1, <2>2, <2>3 DEF InFlight, Guarded, ShotIsKnown
    <3>3. ASSUME NEW p \in Shims, Alive(p)' PROVE p = held /\ at # "abandon"
      <4>1. Alive(p) /\ at # "abandon"
        BY <2>1, <2>3, <3>3
      <4>2. QED BY <4>1 DEF OneRuns
    <3>4. OneRuns'
      BY <1>1, <3>3 DEF OneRuns
    <3>5. QED BY <3>1, <3>2, <3>4
  <2>6. OneWatchdog'
    <3>1. ASSUME NEW k \in Asks
          PROVE  /\ dog'[k].clock # "off" => dog'[k].guards \in Shims
                 /\ dog'[k].clock # "off" /\ ~dog'[k].done =>
                      k = ask.no /\ at \in {"send", "read", "stop"}
      BY <2>2 DEF OneWatchdog
    <3>2. ASSUME NEW k \in Asks, dog'[k].expired
          PROVE  dog'[k].guards \in Shims /\ Gone(dog[k].guards)'
      <4>1. CASE k = n
        BY <2>1, <2>2, <2>3, <4>1 DEF Gone
      <4>2. CASE k # n
        <5>1. dog[k].guards \in Shims /\ Gone(dog[k].guards) /\ dog'[k].guards = dog[k].guards
          BY <2>2, <3>2, <4>2 DEF OneWatchdog
        <5>2. QED BY <2>3, <5>1 DEF Gone
      <4>3. QED BY <4>1, <4>2
    <3>3. QED BY <1>1, <3>1, <3>2 DEF OneWatchdog, Gone
  <2>7. Owed(held) => Owed(held)'
    BY ZenonT(40), <1>1, <2>1, <2>3 DEF Owed
  <2>8. PipesInStep'
    <3>1. PipesInStep
      OBVIOUS
    <3> HIDE DEF IInv
    <3>2. ASSUME NEW p \in Shims, shim'[p].is = "unborn"
          PROVE  shim'[p].in = <<>> /\ shim'[p].out = <<>>
      <4>1. shim[p].is = "unborn" /\ shim'[p].in = shim[p].in /\ shim'[p].out = shim[p].out
        BY <2>3, <3>2
      <4>2. QED BY <3>1, <4>1 DEF PipesInStep
    <3>3. /\ held' = held /\ at' = at
          /\ shim'[held].in = shim[held].in /\ shim'[held].out = shim[held].out
          /\ Gone(held) => Gone(held)'
      BY <1>1, <2>1, <2>3
    <3>4. ASSUME held # NONE
          PROVE  IF at = "read" THEN Owed(held)'
                 ELSE shim'[held].out = <<>> /\ (Gone(held)' \/ shim'[held].in = <<>>)
      <4>1. IF at = "read" THEN Owed(held)
            ELSE shim[held].out = <<>> /\ (Gone(held) \/ shim[held].in = <<>>)
        BY <3>1, <3>4 DEF PipesInStep
      <4>2. QED BY <2>7, <3>3, <4>1
    <3>5. QED BY ZenonT(40), <3>2, <3>3, <3>4 DEF PipesInStep
  <2>9. QED BY <2>4, <2>5, <2>6, <2>8
<1>4. QED BY <1>2, <1>3

-----------------------------------------------------------------------------
(* The theorems.                                                           *)

\* No step of the client, of a shim or of a watchdog breaks the invariant.
LEMMA IInvHolds == Spec => []IInv
<1>1. Init => IInv
  <2>1. SUFFICES ASSUME Init PROVE IInv
    OBVIOUS
  <2>2. [is |-> "unborn", in |-> <<>>, out |-> <<>>] \in ShimStates
    BY DEF ShimStates
  <2>3. [clock |-> "off", done |-> FALSE, expired |-> FALSE, guards |-> NONE] \in Watchdogs
    BY DEF Watchdogs
  <2>4. /\ held = NONE /\ ask = [no |-> 0, kind |-> "hello", big |-> FALSE]
        /\ at = "idle" /\ got = Nothing /\ last.how = "none" /\ last.line = Nothing
    BY <2>1 DEF Init, Ended
  <2>5. /\ shim \in [Shims -> ShimStates]
        /\ \A p \in Shims : shim[p].is = "unborn" /\ shim[p].in = <<>> /\ shim[p].out = <<>>
    BY <2>1, <2>2 DEF Init
  <2>6. /\ dog \in [Asks -> Watchdogs]
        /\ \A n \in Asks : dog[n].clock = "off" /\ ~dog[n].expired
    BY <2>1, <2>3 DEF Init
  <2>7. TypeOK
    BY <2>4, <2>5, <2>6, LineTyped, OracleAssumption DEF TypeOK
  <2>8. InFlight /\ GotIsMine /\ AnswerIsMine /\ ShotIsKnown
    BY <2>4 DEF InFlight, GotIsMine, AnswerIsMine, ShotIsKnown
  <2>9. OneWatchdog /\ OneRuns /\ PipesInStep
    BY <2>4, <2>5, <2>6 DEF OneWatchdog, OneRuns, PipesInStep, Alive
  <2>10. QED BY <2>7, <2>8, <2>9 DEF IInv
<1>2. IInv /\ [Next]_vars => IInv'
  <2>1. SUFFICES ASSUME IInv, [Next]_vars PROVE IInv'
    OBVIOUS
  <2>2. CASE Next
    BY <2>1, <2>2, StartStep, RequestStep, CloseStep, SendStep, ReadStep, StopStep,
       SettleStep, DiagnoseStep, AbandonStep, ReplyStep, ExitStep, RingStep, GiveUpStep
       DEF Next, Exchange
  <2>3. CASE UNCHANGED vars
    BY <2>1, <2>3 DEF vars, IInv, TypeOK, InFlight, Guarded, OneWatchdog, Gone, ShotIsKnown,
       OneRuns, Alive, Owed, PipesInStep, GotIsMine, AnswerIsMine
  <2>4. QED BY <2>1, <2>2, <2>3
<1>3. QED BY <1>1, <1>2, PTL DEF Spec

\* Every variable of the client keeps its type.
THEOREM TypesHold == Spec => []TypeOK
<1>1. IInv => TypeOK
  BY DEF IInv
<1>2. QED BY <1>1, IInvHolds, PTL

\* Between calls, a shim that can still answer owes nothing.
THEOREM StreamHolds == Spec => []StreamInStep
<1>1. IInv => StreamInStep
  BY DEF IInv, PipesInStep, StreamInStep
<1>2. QED BY <1>1, IInvHolds, PTL

\* A request returns the line written for it, whole.
THEOREM AnswerHolds == Spec => []AnswerIsMine
<1>1. IInv => AnswerIsMine
  BY DEF IInv
<1>2. QED BY <1>1, IInvHolds, PTL

\* Between calls no shim runs but the one held.
THEOREM NothingLeftHolds == Spec => []NothingLeftRunning
<1>1. IInv => NothingLeftRunning
  BY DEF IInv, OneRuns, NothingLeftRunning
<1>2. QED BY <1>1, IInvHolds, PTL

\* The client goes on with no shim a watchdog killed, and holds through an
\* exchange the very shim its watchdog guards.
THEOREM KillHolds == Spec => []KillStands
<1>1. IInv => KillStands
  BY DEF IInv, InFlight, ShotIsKnown, KillStands, Guarded, Shims, NONE
<1>2. QED BY <1>1, IInvHolds, PTL
=============================================================================
