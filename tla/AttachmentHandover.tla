------------------------- MODULE AttachmentHandover -------------------------
(***************************************************************************)
(* What the exchange of attachments promises, without the two instances    *)
(* that keep it: a file is handed over in four stages, one after another.  *)
(* It is stored at the Relay, whole; the receiver is offered it; it is     *)
(* received, so that the user may open it; and the sender is told so.      *)
(* No stage is left out and none is taken back, whatever answers are lost, *)
(* whatever expires or is cancelled, and whichever side crashes.           *)
(***************************************************************************)
CONSTANT Transfers

VARIABLES stored, offered, received, confirmed   \* the transfers that have come so far

handoverVars == <<stored, offered, received, confirmed>>

Init == stored = {} /\ offered = {} /\ received = {} /\ confirmed = {}

\* The transfer reaches a stage: it has reached the one before, and not this one.
Reaches(t, before, stage) == t \in before \ stage

Store(t) ==
    /\ Reaches(t, Transfers, stored)
    /\ stored' = stored \union {t}
    /\ UNCHANGED <<offered, received, confirmed>>

Offer(t) ==
    /\ Reaches(t, stored, offered)
    /\ offered' = offered \union {t}
    /\ UNCHANGED <<stored, received, confirmed>>

Receive(t) ==
    /\ Reaches(t, offered, received)
    /\ received' = received \union {t}
    /\ UNCHANGED <<stored, offered, confirmed>>

Confirm(t) ==
    /\ Reaches(t, received, confirmed)
    /\ confirmed' = confirmed \union {t}
    /\ UNCHANGED <<stored, offered, received>>

Next == \E t \in Transfers : Store(t) \/ Offer(t) \/ Receive(t) \/ Confirm(t)

Spec == Init /\ [][Next]_handoverVars
=============================================================================
