------------------------------- MODULE Oracle -------------------------------
(***************************************************************************)
(* The client of the pcre2 shim, oracle/client.py.  A shim is a process    *)
(* that answers each line on its input with one line on its output.  The   *)
(* client's thread asks one question at a time, and each question is       *)
(* guarded by a watchdog: a timer thread that kills the shim if it is not  *)
(* stood down in time.  The two settle under a lock who came first.        *)
(*                                                                         *)
(* A shim may stop taking part at any moment, exit, cut its answer short,  *)
(* answer late, or answer with a line of the wrong shape or one that does  *)
(* not decode.  The client's calls are start, close and the requests.      *)
(***************************************************************************)
EXTENDS Integers, Sequences

CONSTANTS
  MaxShims,   \* how many shims may ever be started
  MaxAsks     \* how many lines the client may ever send

ASSUME OracleAssumption == MaxShims \in Nat /\ MaxAsks \in Nat

VARIABLES
  held,       \* Oracle._process
  shim,       \* every shim: how it is, and its two pipes
  dog,        \* the watchdog of every question
  ask,        \* the question in flight
  at,         \* where the client's thread is
  got,        \* what readline gave it
  last        \* how the last call ended

vars == <<held, shim, dog, ask, at, got, last>>

NONE == 0
Shims == 1 .. MaxShims
Asks == 1 .. MaxAsks
Nothing == [no |-> 0, kind |-> "nothing"]
Line(no, kind) == [no |-> no, kind |-> kind]

\* A shim killed by a watchdog is "shot", by the client "killed".
Alive(p) == shim[p].is = "up"
Gone(p) == shim[p].is \in {"exited", "shot", "killed"}

Ended(how, line) == [how |-> how, line |-> line]

-----------------------------------------------------------------------------
(* The shim.  Nothing makes it run.                                        *)

\* Mutation: a line is answered twice.
ReplyTwice(p) ==
  /\ Alive(p) /\ shim[p].in # <<>>
  /\ LET answer == Line(Head(shim[p].in), "whole")
     IN  shim' = [shim EXCEPT ![p].in = Tail(@), ![p].out = @ \o <<answer, answer>>]
  /\ UNCHANGED <<held, dog, ask, at, got, last>>

\* One line in, one line out; "odd" is a whole line that is no answer.
Reply(p) ==
  /\ Alive(p) /\ shim[p].in # <<>>
  /\ \E kind \in {"whole", "odd", "garbled"} :
       shim' = [shim EXCEPT ![p].in = Tail(@),
                            ![p].out = Append(@, Line(Head(shim[p].in), kind))]
  /\ UNCHANGED <<held, dog, ask, at, got, last>>

\* The shim exits, perhaps half-way through a line.
Exit(p) ==
  /\ Alive(p)
  /\ \/ shim' = [shim EXCEPT ![p].is = "exited"]
     \/ /\ shim[p].in # <<>>
        /\ shim' = [shim EXCEPT ![p].is = "exited",
                                ![p].out = Append(@, Line(Head(shim[p].in), "cut"))]
  /\ UNCHANGED <<held, dog, ask, at, got, last>>

Kill(p, how) == IF Gone(p) THEN shim ELSE [shim EXCEPT ![p].is = how]

-----------------------------------------------------------------------------
(* The watchdog's thread.                                                  *)

Ring(n) ==
  /\ dog[n].clock = "set"
  /\ dog' = [dog EXCEPT ![n].clock = "rang"]
  /\ UNCHANGED <<held, shim, ask, at, got, last>>

\* Mutation: whether the client has stood it down is not looked at.
GiveUpLate(n) ==
  /\ dog[n].clock = "rang"
  /\ dog' = [dog EXCEPT ![n].clock = "off", ![n].expired = TRUE]
  /\ shim' = Kill(dog[n].guards, "shot")
  /\ UNCHANGED <<held, ask, at, got, last>>

\* Under the lock.
GiveUp(n) ==
  /\ dog[n].clock = "rang"
  /\ IF dog[n].done
     THEN dog' = [dog EXCEPT ![n].clock = "off"] /\ UNCHANGED shim
     ELSE /\ dog' = [dog EXCEPT ![n].clock = "off", ![n].expired = TRUE]
          /\ shim' = Kill(dog[n].guards, "shot")
  /\ UNCHANGED <<held, ask, at, got, last>>

-----------------------------------------------------------------------------
(* One exchange.                                                           *)

\* Mutation: only the read is guarded against a shim that stopped.
BeginUnguarded(p, kind, big) ==
  /\ ask.no < MaxAsks
  /\ ask' = [no |-> ask.no + 1, kind |-> kind, big |-> big]
  /\ dog' = [dog EXCEPT ![ask.no + 1] =
               [clock |-> IF big THEN "off" ELSE "set", done |-> FALSE,
                expired |-> FALSE, guards |-> p]]
  /\ got' = Nothing
  /\ at' = "send"

\* The watchdog is set before anything is written.
Begin(p, kind, big) ==
  /\ ask.no < MaxAsks
  /\ ask' = [no |-> ask.no + 1, kind |-> kind, big |-> big]
  /\ dog' = [dog EXCEPT ![ask.no + 1] =
               [clock |-> "set", done |-> FALSE, expired |-> FALSE, guards |-> p]]
  /\ got' = Nothing
  /\ at' = "send"

\* A line that fits the pipe is sent whoever reads; a broken pipe is noticed.
Send ==
  /\ at = "send"
  /\ \/ /\ Alive(held) /\ ~ask.big
        /\ shim' = [shim EXCEPT ![held].in = Append(@, ask.no)]
        /\ at' = "read"
     \/ /\ Gone(held)
        /\ at' = "stop"
        /\ UNCHANGED shim
  /\ UNCHANGED <<held, dog, ask, got, last>>

\* A longer one is sent only as the shim reads it.
SendBig ==
  /\ at = "send" /\ ask.big /\ Alive(held)
  /\ shim' = [shim EXCEPT ![held].in = Append(@, ask.no)]
  /\ at' = "read"
  /\ UNCHANGED <<held, dog, ask, got, last>>

\* readline: a whole line, what there is of one at the end of the output, or
\* nothing if the line does not decode.
Read ==
  /\ at = "read"
  /\ \/ /\ shim[held].out # <<>>
        /\ LET line == Head(shim[held].out)
           IN  got' = IF line.kind = "garbled" THEN Nothing ELSE line
        /\ shim' = [shim EXCEPT ![held].out = Tail(@)]
     \/ /\ shim[held].out = <<>> /\ Gone(held)
        /\ UNCHANGED <<got, shim>>
  /\ at' = "stop"
  /\ UNCHANGED <<held, dog, ask, last>>

\* Stand the watchdog down, under the lock, and cancel its timer.
Stop ==
  /\ at = "stop"
  /\ dog' = [dog EXCEPT ![ask.no].done = TRUE,
                        ![ask.no].clock = IF @ = "set" THEN "off" ELSE @]
  /\ at' = "settle"
  /\ UNCHANGED <<held, shim, ask, got, last>>

\* Mutation: a line without its end is an answer.
WholeOrCut(line) == line.kind \in {"whole", "odd", "cut"}

Whole(line) == line.kind \in {"whole", "odd"}

\* A call that raises; at the handshake the start gives up.
Raised(how) ==
  IF ask.kind = "hello" THEN at' = "abandon" /\ UNCHANGED last
  ELSE at' = "idle" /\ last' = Ended(how, Nothing)

\* What a call makes of the line it takes for an answer.
Accepted ==
  IF got.kind = "odd" THEN Raised("protocol")
  ELSE /\ at' = "idle"
       /\ last' = Ended(IF ask.kind = "hello" THEN "started" ELSE "answer", got)

\* A shim that was killed is let go of whatever the read came back with; a
\* whole line that landed in time is still an answer.
Settle ==
  /\ at = "settle"
  /\ held' = IF dog[ask.no].expired THEN NONE ELSE held
  /\ \/ Whole(got) /\ Accepted
     \/ ~Whole(got) /\ dog[ask.no].expired /\ Raised("timeout")
     \/ ~Whole(got) /\ ~dog[ask.no].expired /\ at' = "diagnose" /\ UNCHANGED last
  /\ UNCHANGED <<shim, dog, ask, got>>

\* Wait for the shim to exit, and kill it if it does not.  It stays held.
Diagnose ==
  /\ at = "diagnose"
  /\ shim' = Kill(held, "killed")
  /\ Raised("died")
  /\ UNCHANGED <<held, dog, ask, got>>

-----------------------------------------------------------------------------
(* The calls.                                                              *)

\* A shim is held from the start, so that the handshake can be asked of it.
Start ==
  /\ at = "idle" /\ held = NONE
  /\ \E p \in Shims :
       /\ shim[p].is = "unborn" /\ \A q \in 1 .. (p - 1) : shim[q].is # "unborn"
       /\ Begin(p, "hello", FALSE)
       /\ shim' = [shim EXCEPT ![p].is = "up"]
       /\ held' = p
  /\ UNCHANGED last

\* Mutation: the handshake failed and its shim goes on.
AbandonAlive ==
  /\ at = "abandon"
  /\ held' = NONE
  /\ at' = "idle"
  /\ last' = Ended("notstarted", Nothing)
  /\ UNCHANGED <<shim, dog, ask, got>>

\* The handshake failed: leave nothing running, and be startable again.
Abandon ==
  /\ at = "abandon"
  /\ shim' = Kill(dog[ask.no].guards, "killed")
  /\ held' = NONE
  /\ at' = "idle"
  /\ last' = Ended("notstarted", Nothing)
  /\ UNCHANGED <<dog, ask, got>>

Request ==
  /\ at = "idle"
  /\ \/ /\ held = NONE
        /\ last' = Ended("notrunning", Nothing)
        /\ UNCHANGED <<shim, dog, ask, at, got>>
     \/ /\ held # NONE
        /\ \E big \in BOOLEAN : Begin(held, "match", big)
        /\ UNCHANGED <<shim, last>>
  /\ UNCHANGED held

\* Say quit and wait; a shim that does not go is killed.
Close ==
  /\ at = "idle" /\ held # NONE
  /\ held' = NONE
  /\ shim' = Kill(held, "exited")
  /\ last' = Ended("closed", Nothing)
  /\ UNCHANGED <<dog, ask, at, got>>

-----------------------------------------------------------------------------
Init ==
  /\ held = NONE
  /\ shim = [p \in Shims |-> [is |-> "unborn", in |-> <<>>, out |-> <<>>]]
  /\ dog = [n \in Asks |-> [clock |-> "off", done |-> FALSE, expired |-> FALSE,
                            guards |-> NONE]]
  /\ ask = [no |-> 0, kind |-> "hello", big |-> FALSE]
  /\ at = "idle" /\ got = Nothing /\ last = Ended("none", Nothing)

Exchange == Send \/ Read \/ Stop \/ Settle \/ Diagnose \/ Abandon

Next ==
  \/ Start \/ Request \/ Close
  \/ Exchange \/ SendBig
  \/ \E p \in Shims : Reply(p) \/ Exit(p)
  \/ \E n \in Asks : Ring(n) \/ GiveUp(n)

Spec == Init /\ [][Next]_vars

\* The client's thread and the timers run; the shim and the caller need not.
FairSpec ==
  /\ Spec
  /\ WF_vars(Exchange)
  /\ \A n \in Asks : WF_vars(Ring(n)) /\ WF_vars(GiveUp(n))

-----------------------------------------------------------------------------
(* Properties.                                                             *)

Lines == [no : 0 .. MaxAsks, kind : {"nothing", "whole", "odd", "garbled", "cut"}]
ShimStates == [is : {"unborn", "up", "exited", "shot", "killed"},
               in : Seq(Asks), out : Seq(Lines)]
Watchdogs == [clock : {"off", "set", "rang"}, done : BOOLEAN, expired : BOOLEAN,
              guards : Shims \cup {NONE}]

\* The types of the state.
TypeOK ==
  /\ held \in Shims \cup {NONE}
  /\ shim \in [Shims -> ShimStates]
  /\ dog \in [Asks -> Watchdogs]
  /\ ask \in [no : 0 .. MaxAsks, kind : {"hello", "match"}, big : BOOLEAN]
  /\ at \in {"idle", "send", "read", "stop", "settle", "diagnose", "abandon"}
  /\ got \in Lines /\ last.line \in Lines

\* Between calls a shim that can still answer owes nothing: no question is
\* unread and no answer is unclaimed, so no later answer is an earlier one's.
StreamInStep ==
  at = "idle" /\ held # NONE /\ ~Gone(held) =>
    shim[held].in = <<>> /\ shim[held].out = <<>>

\* What a request returns is a whole line, and the one written for it.
AnswerIsMine ==
  last.how = "answer" /\ at = "idle" => last.line = Line(ask.no, "whole")

\* Between calls no shim runs but the one held.
NothingLeftRunning ==
  at = "idle" => \A p \in Shims : Alive(p) => p = held

\* A watchdog's kill is never undone, and one that wakes late kills nothing: in
\* an exchange the client holds the very shim its watchdog guards, and a shim a
\* watchdog killed is not one the client goes on with.
KillStands ==
  /\ at = "idle" /\ held # NONE => shim[held].is # "shot"
  /\ at \in {"send", "read", "stop", "settle", "diagnose"} =>
       held # NONE /\ held = dog[ask.no].guards

\* A shim is asked why it stopped only once it has stopped (Oracle._diagnosis
\* says so); an answer that does not decode leads there too, and it has not.
DiagnosedOnceStopped == at = "diagnose" => Gone(held)

\* Every call comes back, whatever the shim does.
EveryCallReturns == (at # "idle") ~> (at = "idle")
=============================================================================
