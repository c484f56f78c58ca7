---------------------------- MODULE RequestAnswer ----------------------------
(***************************************************************************)
(* What a caller of AdapterSupervisor.call may rely on, with no pipe, no   *)
(* process and no kill in sight: calls are served one at a time, and a     *)
(* call returns the answer to its own request or an error, never the       *)
(* answer to an earlier one.  AdapterIPC implements it.                    *)
(***************************************************************************)
EXTENDS Naturals

CONSTANTS Callers, NoCaller

VARIABLES
    busy,   \* the caller being served
    number, \* how many requests were made so far
    last    \* per caller: its last request, and the request whose answer it
            \* was given (0: an error)

vars == <<busy, number, last>>

Init ==
    /\ busy = NoCaller
    /\ number = 0
    /\ last = [c \in Callers |-> [req |-> 0, of |-> 0]]

Ask(c) ==
    /\ busy = NoCaller
    /\ busy' = c
    /\ number' = number + 1
    /\ last' = [last EXCEPT ![c] = [req |-> number + 1, of |-> 0]]

Return(c) ==
    /\ busy = c
    /\ busy' = NoCaller
    /\ \E answer \in {0, number} :
          last' = [last EXCEPT ![c] = [req |-> number, of |-> answer]]
    /\ UNCHANGED number

Next == \E c \in Callers : Ask(c) \/ Return(c)

SafetySpec == Init /\ [][Next]_vars

Spec == SafetySpec /\ \A c \in Callers : WF_vars(Return(c))
=============================================================================
