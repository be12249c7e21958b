----------------------------- MODULE MCRouting -----------------------------
(***************************************************************************)
(* Three gateways in a row, A -2- B -3- C, and a foreign router that    *)
(* moves between networks 2 and 3.  The network behind C is 256 = 0x0100   *)
(* and the roaming one 30 = 0x001e, so that rejecting the latter is read   *)
(* as rejecting the former.                                                *)
(***************************************************************************)
EXTENDS Routing, TLC

CONSTANTS A, B, C, X

MCNetworks == {2, 3, 10, 20, 30, 256}
MCAttached == (A :> {2}) @@ (B :> {2, 3}) @@ (C :> {3})
MCVirtual == (A :> 10) @@ (B :> 20) @@ (C :> 256)
MCWanted == (A :> {20, 256}) @@ (B :> {}) @@ (C :> {10})
MCNoRoutes == [p \in MCNetworks |-> [n \in MCNetworks |-> NoRouter]]
MCStatic == [g \in {A, B, C} |-> MCNoRoutes]
MCBeyond ==
    LET Row(two, three) == [p \in MCNetworks |->
            CASE p = 2 -> two [] p = 3 -> three [] OTHER -> {}]
    IN  (A :> Row({10, 30}, {})) @@ (B :> Row({3, 20, 30, 256}, {2, 10, 20, 30}))
          @@ (C :> Row({}, {256, 30}))

=============================================================================
