-------------------------- MODULE ConfirmedService --------------------------
(***************************************************************************)
(* What the layers above promise each other about confirmed requests: at   *)
(* most IdCount requests are open at a time, a request is turned away only *)
(* when that many are, and an open request is concluded exactly once, by   *)
(* an answer or by a time-out, unless the program ends first.              *)
(***************************************************************************)
EXTENDS Integers, FiniteSets

CONSTANTS Services, IdCount

VARIABLES
    up,     \* is the program running?
    status  \* of each request

vars == <<up, status>>

Open == {s \in Services : status[s] = "open"}

Init == up = TRUE /\ status = [s \in Services |-> "new"]

Accept(s) ==
    /\ up
    /\ status[s] = "new"
    /\ Cardinality(Open) < IdCount
    /\ status' = [status EXCEPT ![s] = "open"]
    /\ UNCHANGED up

Refuse(s) ==
    /\ up
    /\ status[s] = "new"
    /\ Cardinality(Open) >= IdCount
    /\ status' = [status EXCEPT ![s] = "refused"]
    /\ UNCHANGED up

Answer(s) ==
    /\ up
    /\ status[s] = "open"
    /\ status' = [status EXCEPT ![s] = "answered"]
    /\ UNCHANGED up

\* One tick of a timer may end several requests.
TimeOut(S) ==
    /\ up
    /\ S # {}
    /\ S \subseteq Open
    /\ status' = [s \in Services |-> IF s \in S THEN "timedout" ELSE status[s]]
    /\ UNCHANGED up

\* The program may end at any time, and does nothing after it.
Stop == up /\ up' = FALSE /\ UNCHANGED status

Next ==
    \/ \E s \in Services : Accept(s) \/ Refuse(s) \/ Answer(s)
    \/ \E S \in SUBSET Services : TimeOut(S)
    \/ Stop

Spec == Init /\ [][Next]_vars

\* Every open request of a program that keeps running is concluded.
Ends(s) ==
    Answer(s) \/ \E S \in SUBSET Services : s \in S /\ TimeOut(S)

FairSpec == Spec /\ \A s \in Services : WF_vars(Ends(s))

=============================================================================
