---------------------------- MODULE MCDiscovery ----------------------------
(***************************************************************************)
(* A small instance of Discovery: two objects and a mapper with room for   *)
(* one, three devices of which one is configured, and a dynamic table with *)
(* room for one.  Two services look for the same device.                   *)
(***************************************************************************)
EXTENDS Discovery, TLC

CONSTANTS s1, s2, s3, o1, o2, d1, d2, d3, a1, a2

MCTarget == (s1 :> o1) @@ (s2 :> d1) @@ (s3 :> o2)
MCDeviceOf == (o1 :> d1) @@ (o2 :> d2)
MCConfigured == (d1 :> NoAddress) @@ (d2 :> NoAddress) @@ (d3 :> a1)

=============================================================================
