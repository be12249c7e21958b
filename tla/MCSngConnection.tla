-------------------------- MODULE MCSngConnection --------------------------
(* A lamp without a feedback address, with buttons at both ends of a hall   *)
(* that share an address for what they send and what lights them, and a     *)
(* valve that reports, with a switch that has a light of its own.           *)
EXTENDS SngConnection, TLC

CONSTANTS lamp, valve, button, button2, switch

MCRank == (lamp :> 1) @@ (valve :> 2) @@ (button :> 3) @@ (button2 :> 4) @@ (switch :> 5)
MCTypeOf == [e \in Elements |-> "Value"]
MCRx == (lamp :> 0) @@ (valve :> 3) @@ (button :> 2) @@ (button2 :> 2) @@ (switch :> 5)
MCTx == (lamp :> 1) @@ (valve :> 4) @@ (button :> 2) @@ (button2 :> 2) @@ (switch :> 6)
MCSubject == (button :> lamp) @@ (button2 :> lamp) @@ (switch :> valve)
=============================================================================
