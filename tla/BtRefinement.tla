---------------------------- MODULE BtRefinement ----------------------------
(***************************************************************************)
(* The matcher implements Snapshot.  A choice point of the matcher stands  *)
(* for a whole configuration, whose register file is what replaying the    *)
(* undo trail down to its mark would give back.                            *)
(***************************************************************************)
EXTENDS BtVM

\* The registers r once the undo trail t has been replayed down to mark m.
\* Replay is newest first, so of the entries above the mark the oldest wins.
Unwound(t, r, m) ==
  [s \in DOMAIN r |->
     LET undone == {k \in (m + 1) .. Len(t) : t[k].slot = s}
     IN  IF undone = {} THEN r[s]
         ELSE t[CHOOSE k \in undone : \A j \in undone : k <= j].old]

Rewound(m) == Unwound(trail, regs, m)

Saved ==
  [i \in 1 .. Len(bt) |->
     [pc |-> bt[i].pc, pos |-> bt[i].pos, regs |-> Rewound(bt[i].mark)]]

Here == [pc |-> pc, pos |-> pos, regs |-> regs]

StackBar ==
  CASE phase = "attempt" -> <<Opening(call, attempt)>>
    [] phase = "run"  -> Append(Saved, Here)
    [] phase = "undo" -> Append(Saved, [Here EXCEPT !.regs = Rewound(mark)])
    [] phase \in {"fail", "next"} -> Saved
    [] phase = "stop" /\ result = "MATCHED" -> <<Here>>
    [] OTHER -> <<>>

PhaseBar ==
  CASE phase = "idle" -> "idle"
    [] phase \in {"attempt", "run", "fail", "undo", "next"} -> "running"
    [] phase = "stop" /\ result = "MATCHED" -> "found"
    [] OTHER -> "done"

Abstract ==
  INSTANCE Snapshot WITH stack <- StackBar, phase <- PhaseBar

\* Every run of the matcher is a run of the abstract backtracker: the undo
\* trail gives each choice point back exactly the registers it was taken with,
\* and alternatives are explored in the program's order of preference.
Implements == Abstract!SnapSpec
=============================================================================
