---------------------------- MODULE MCCovClient ----------------------------
(* Two properties of one remote object with COV strategies. *)
EXTENDS CovClient, TLC

CONSTANTS a, b

MCOrder == (a :> 1) @@ (b :> 2)
MCObjectOf == (a :> 1) @@ (b :> 1)
MCMaxValue == (a :> 1) @@ (b :> 2)
=============================================================================
