---------------------------- MODULE MCCascadeOrder ----------------------------
(* Cascade with the order of the stream remembered, to state what the queue
   policy says about it. *)
EXTENDS MCCascade, SequencesExt

VARIABLE arrived   \* every envelope published so far, in stream order

OInit == Init /\ arrived = <<>>

ONext ==
  /\ Next
  /\ arrived' = IF IsStrictPrefix(stream, stream') THEN Append(arrived, Last(stream'))
                ELSE arrived

OSpec == OInit /\ [][ONext]_<<vars, arrived>>

Before(n, m) == \E i, j \in DOMAIN arrived : i < j /\ arrived[i] = n /\ arrived[j] = m

(* The comment in handleMessage's queue branch: "Chain onto the previous tail
   so envelopes for the same (workspace, signal) run in arrival order". When a
   chained cascade registers, every envelope of its key that arrived before it
   has registered or been given up. *)
QueueArrivalOrder ==
  [][\A m, n \in Msgs :
       /\ KeyOf[m] = KeyOf[n] /\ Before(n, m)
       /\ phase[m] = "chained" /\ phase'[m] \in {"granted", "waiting"}
       => phase[n] \notin {"resolving", "deciding", "chained"}]_<<vars, arrived>>
=============================================================================
