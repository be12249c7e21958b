-------------------------- MODULE MCAsynchActions --------------------------
(***************************************************************************)
(* Small instances of AsynchActions: three ids, four requests, a 4-bit int *)
(* (the timeout fits it more than once, as 2000 fits a 32-bit int).        *)
(***************************************************************************)
EXTENDS AsynchActions

CONSTANTS r1, r2, r3, r4

MCRequests == {r1, r2, r3, r4}
MCIntMin == -8

=============================================================================
