------------------------------ MODULE MCEngine ------------------------------
(***************************************************************************)
(* The engine with two threads.  The data of both keys fall into one       *)
(* bucket.                                                                 *)
(***************************************************************************)
EXTENDS EngineHistory, TLC

CONSTANTS t1, t2, k1, k2

MCThreads == {t1, t2}
TwoKeys == {k1, k2}
OneKey == {k1}
SharedKeys == [t \in MCThreads |-> Keys]
OwnKeys == (t1 :> {k1}) @@ (t2 :> {})
MCBuckets == {1, 2}
MCBucketOf == [s \in Slots |-> IF s[2] = "data" THEN 1 ELSE 2]
TwoFields == {<<"f">>, <<"f", "g">>}
TsField == {<<"ts">>}
NoField == {}
Symmetry == Permutations(MCThreads) \cup Permutations(TwoKeys)
=============================================================================
