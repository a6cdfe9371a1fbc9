--------------------------- MODULE CascadeContract ---------------------------
(***************************************************************************)
(* What the cascade consumer promises its callers: an accepted envelope is *)
(* run at most once, at most Cap run at a time, and a caller waiting for   *)
(* one is answered once, when it is over. The answer may get lost, and no  *)
(* second one follows; nobody is answered when the process ends first.     *)
(***************************************************************************)
EXTENDS Integers, FiniteSets

CONSTANTS Msgs, Correlated, Cap

VARIABLES job, replies, unheard

vars == <<job, replies, unheard>>

Running  == {m \in Msgs : job[m] = "running"}
Accepted == {m \in Msgs : job[m] = "accepted"}

Init == job = [m \in Msgs |-> "unsent"] /\ replies = [m \in Msgs |-> 0] /\ unheard = {}

Accept(m) ==
  /\ job[m] = "unsent"
  /\ job' = [job EXCEPT ![m] = "accepted"]
  /\ UNCHANGED <<replies, unheard>>

Begin(m) ==
  /\ job[m] = "accepted"
  /\ Cardinality(Running) < Cap
  /\ job' = [job EXCEPT ![m] = "running"]
  /\ UNCHANGED <<replies, unheard>>

(* Over, run or given up: its caller is told, or the answer is lost. *)
Conclude(m) ==
  /\ job[m] \in {"accepted", "running"}
  /\ job' = [job EXCEPT ![m] = "over"]
  /\ \/ m \notin Correlated /\ UNCHANGED <<replies, unheard>>
     \/ m \in Correlated /\ replies' = [replies EXCEPT ![m] = @ + 1] /\ UNCHANGED unheard
     \/ m \in Correlated /\ unheard' = unheard \cup {m} /\ UNCHANGED replies

(* The process ends: what ran is over, so is what it had taken and not begun,
   and nobody is told. (What still waits in the stream stays accepted.) *)
Cut(taken) ==
  /\ job' = [m \in Msgs |-> IF m \in Running \cup taken THEN "over" ELSE job[m]]
  /\ UNCHANGED <<replies, unheard>>

Next == \/ \E m \in Msgs : Accept(m) \/ Begin(m) \/ Conclude(m)
        \/ \E taken \in SUBSET Accepted : Cut(taken)

Spec == Init /\ [][Next]_vars
=============================================================================
