------------------------------ MODULE MCCascade ------------------------------
(* Instances of Cascade for TLC: three envelopes for one (workspace, signal),
   the first with a caller waiting who may cancel. *)
EXTENDS Cascade, TLC

CONSTANTS m1, m2, m3, k1, c1

MCKeyOf  == m1 :> k1 @@ m2 :> k1 @@ m3 :> k1
MCCorrOf == m1 :> c1 @@ m2 :> NoCorr @@ m3 :> NoCorr

(* The key has one policy, or one that is edited while cascades run. *)
MCConfigs == [{k1} -> {{"skip"}, {"concurrent"}, {"replace"}, {"queue", "replace"}}]
MCQueue   == [{k1} -> {{"queue"}}]
MCReplace == [{k1} -> {{"replace"}}]
=============================================================================
