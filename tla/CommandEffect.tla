---------------------------- MODULE CommandEffect ---------------------------
(***************************************************************************)
(* What the OMS promises about one command, whatever crashes: its order is *)
(* sent to the broker at most once, only a sent order fills, and once the  *)
(* command is closed the broker's side of it no longer changes.            *)
(***************************************************************************)
EXTENDS Naturals

CONSTANT Command

VARIABLES sends, filled, closed

vars == <<sends, filled, closed>>

Init ==
  /\ sends = [c \in Command |-> 0]
  /\ filled = [c \in Command |-> 0]
  /\ closed = [c \in Command |-> FALSE]

Send(c) ==
  /\ ~closed[c]
  /\ sends[c] = 0
  /\ sends' = [sends EXCEPT ![c] = 1]
  /\ UNCHANGED <<filled, closed>>

Fill(c) ==
  /\ ~closed[c]
  /\ sends[c] = 1
  /\ filled' = [filled EXCEPT ![c] = @ + 1]
  /\ UNCHANGED <<sends, closed>>

Close(c) ==
  /\ ~closed[c]
  /\ closed' = [closed EXCEPT ![c] = TRUE]
  /\ UNCHANGED <<sends, filled>>

Next == \E c \in Command : Send(c) \/ Fill(c) \/ Close(c)

Spec == Init /\ [][Next]_vars
=============================================================================
