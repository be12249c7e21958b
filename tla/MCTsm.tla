------------------------------- MODULE MCTsm -------------------------------
(***************************************************************************)
(* A small instance of Tsm: three requests to two devices over two invoke  *)
(* ids, so that ids run out, are reused by the same device and by the      *)
(* other one.  The third request is too long to be transmitted.            *)
(***************************************************************************)
EXTENDS Tsm

CONSTANTS s1, s2, s3, d1, d2

MCServices == {s1, s2, s3}
MCDevices == {d1, d2}
MCDst == [s \in Services |-> IF s = s2 THEN d2 ELSE d1]
MCOversized == {s3}

=============================================================================
