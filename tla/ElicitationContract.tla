------------------------ MODULE ElicitationContract ------------------------
(***************************************************************************)
(* What the elicitation storage promises: a question is settled once, by   *)
(* one party, and only that party is told that it settled it. The removal  *)
(* of its workspace may take an open question away. A verdict is history   *)
(* and stays, but for one case, which the documentation of the storage     *)
(* denies: a removal that found the question open may yet fall on it after *)
(* it was settled. No other removal ever takes a verdict.                  *)
(***************************************************************************)
EXTENDS FiniteSets

CONSTANTS Parties, NoOne

VARIABLES
  outcome,   \* "none", "open", "answered", "declined", "expired", "removed"
  winner,    \* who settled it
  acked,     \* who was told that it did
  doomed     \* a removal has found it open and is on its way

vars == <<outcome, winner, acked, doomed>>

Verdicts == {"answered", "declined", "expired"}

Init == outcome = "none" /\ winner = NoOne /\ acked = {} /\ doomed = FALSE

Open ==
  /\ outcome = "none"
  /\ outcome' = "open"
  /\ UNCHANGED <<winner, acked, doomed>>

Settle ==
  /\ outcome = "open"
  /\ outcome' \in Verdicts
  /\ winner' \in Parties
  /\ UNCHANGED <<acked, doomed>>

Acknowledge ==
  /\ winner # NoOne
  /\ acked' = acked \cup {winner}
  /\ UNCHANGED <<outcome, winner, doomed>>

Doom ==
  /\ outcome = "open" /\ ~doomed
  /\ doomed' = TRUE
  /\ UNCHANGED <<outcome, winner, acked>>

(* The removal comes to nothing. *)
Spare ==
  /\ doomed
  /\ doomed' = FALSE
  /\ UNCHANGED <<outcome, winner, acked>>

Remove ==
  /\ doomed /\ outcome \in Verdicts \cup {"open"}
  /\ outcome' = "removed" /\ doomed' = FALSE
  /\ UNCHANGED <<winner, acked>>

Next == Open \/ Settle \/ Acknowledge \/ Doom \/ Spare \/ Remove

Spec == Init /\ [][Next]_vars
=============================================================================
