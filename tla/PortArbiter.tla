----------------------------- MODULE PortArbiter -----------------------------
(***************************************************************************)
(* What the arbitration of the serial port promises, without the lock, the *)
(* pause and the pointers that keep it.  The port is granted to one        *)
(* requester at a time, who finds it free, may open it, and gives it back  *)
(* closed.  While it is granted to nobody a listener may open it, and has  *)
(* left it before it is granted or opened again.                           *)
(***************************************************************************)
CONSTANTS Requesters, Listeners

VARIABLES
    granted,    \* the requesters the port is granted to
    users       \* the programs that have it open

portVars == <<granted, users>>

Init == granted = {} /\ users = {}

Free == granted = {} /\ users = {}

\* Some requesters are programs that are on the port at once.
Grant(t) ==
    /\ Free
    /\ granted' = {t}
    /\ users' \in {{}, {t}}

Open(t) ==
    /\ granted = {t} /\ users = {}
    /\ users' = {t}
    /\ UNCHANGED granted

GiveBack(t) ==
    /\ granted = {t}
    /\ granted' = {} /\ users' = {}

Listen(p) ==
    /\ Free
    /\ users' = {p}
    /\ UNCHANGED granted

Leave(p) ==
    /\ granted = {} /\ users = {p}
    /\ users' = {}
    /\ UNCHANGED granted

Next ==
    \/ \E t \in Requesters : Grant(t) \/ Open(t) \/ GiveBack(t)
    \/ \E p \in Listeners : Listen(p) \/ Leave(p)

Spec == Init /\ [][Next]_portVars
=============================================================================
