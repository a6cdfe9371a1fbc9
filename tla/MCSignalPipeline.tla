--------------------------- MODULE MCSignalPipeline ---------------------------
(* Instances of SignalPipeline for TLC: two triggers of one signal, the first
   with a caller waiting. A tick is five minutes: both windows are one,
   the caller's patience is two. *)
EXTENDS SignalPipeline, TLC

CONSTANTS s1, s2, k1

MCKeyOf == s1 :> k1 @@ s2 :> k1
=============================================================================
