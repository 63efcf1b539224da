------------------------- MODULE MCPassportLifecycle -------------------------
(***************************************************************************)
(* Small instances of PassportLifecycle.  The executor threads w1 and w2   *)
(* share the replay cache k1.                                              *)
(***************************************************************************)
EXTENDS PassportLifecycle, TLC

CONSTANTS w1, w2, k1

OneThread  == w1 :> k1
TwoThreads == w1 :> k1 @@ w2 :> k1

\* People and payloads are interchangeable: no action names one.
PeopleSymmetry == Permutations(Ids) \cup Permutations(Payloads)

=============================================================================
