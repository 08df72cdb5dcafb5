---------------------------- MODULE MCReviewRaces ----------------------------
(* Two deliveries with a BDN each, by one barge or by two, and a loading BDN  *)
(* of the first barge.                                                       *)
EXTENDS ReviewRaces, TLC

CONSTANTS b1, b2, load, d1, d2, v1, v2

MCFor == b1 :> d1 @@ b2 :> d2 @@ load :> Loading
MCMt  == b1 :> 1 @@ b2 :> 2 @@ load :> 4

MCLayouts == {b1 :> v1 @@ b2 :> v @@ load :> v1 : v \in {v1, v2}}
=============================================================================
