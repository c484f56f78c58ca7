-------------------------- MODULE AttachmentMedium --------------------------
(***************************************************************************)
(* What lies between the sender and the receiver of an attachment:         *)
(*                                                                         *)
(*   - the Relay, an HTTP store of encrypted objects, as the repository's  *)
(*     own MockRelayStore implements its contract                          *)
(*     (src/meshsrv/attachments/relay/mock_server.py): an upload session   *)
(*     is staged part by part, committed, and later revoked or expired;    *)
(*   - the radio, which carries OFFER frames one way and signed ACK frames *)
(*     the other.  It may lose, repeat and reorder frames, so it is the    *)
(*     record of the frames ever transmitted: a receiver may see one of    *)
(*     these at any later time, any number of times, or never.             *)
(*                                                                         *)
(* The parts of an object are its chunks followed by its manifest, which   *)
(* the sender uploads in that order; `parts` counts those uploaded.        *)
(***************************************************************************)
EXTENDS Naturals

CONSTANTS
    MaxTransfers,   \* bound: transfer ids a run may draw (os.urandom(16) in the code)
    Parts           \* chunks of an object, plus one for its manifest

ASSUME MediumAssumption ==
    /\ MaxTransfers \in Nat \ {0}
    /\ Parts \in Nat \ {0}

Transfers == 1 .. MaxTransfers

AckKinds == {"received", "unknown", "downloaded"}

VARIABLES
    relay,      \* relay[t]: the object stored under transfer id t
    offered,    \* the transfers whose OFFER has been transmitted
    acked       \* the transfers whose ACK_DOWNLOADED has been transmitted: the other
                \* ACKs announce nothing that a property is about

mediumVars == <<relay, offered, acked>>

ObjectStates == {"none", "staging", "lapsed", "committed", "expired", "revoked"}

MediumTypeOK ==
    /\ relay \in [Transfers -> [state : ObjectStates, parts : 0 .. Parts]]
    /\ offered \subseteq Transfers
    /\ acked \subseteq Transfers

MediumInit ==
    /\ relay = [t \in Transfers |-> [state |-> "none", parts |-> 0]]
    /\ offered = {}
    /\ acked = {}

(***************************************************************************)
(* The Relay's answers to a request, as the object it leaves behind.       *)
(***************************************************************************)

\* POST /v1/uploads is refused with 409 transfer_exists for a known id.
Exists(t) == relay[t].state # "none"

Created(t) == [relay EXCEPT ![t] = [state |-> "staging", parts |-> 0]]

\* Chunks and the manifest are taken by a live staging session only.
Writable(t) == relay[t].state = "staging"

PartStored(t) == [relay EXCEPT ![t].parts = @ + 1]

\* commit() is idempotent, and otherwise needs a staging session with every part.
Committable(t) ==
    \/ relay[t].state = "committed"
    \/ Writable(t) /\ relay[t].parts = Parts

Committed(t) == [relay EXCEPT ![t].state = "committed"]

Revoked(t) == [relay EXCEPT ![t].state = "revoked"]

\* The descriptor and the chunks of a committed object can be downloaded.
Downloadable(t) == relay[t].state = "committed"

\* Upload sessions lapse (session_expires_at) and objects expire
\* (hard_expires_at, or delete_after once every recipient has completed).
Expire(t) ==
    /\ relay[t].state \in {"staging", "committed"}
    /\ relay' = [relay EXCEPT ![t].state = IF @ = "staging" THEN "lapsed" ELSE "expired"]
    /\ UNCHANGED <<offered, acked>>

MediumNext == \E t \in Transfers : Expire(t)

OfferSent(t) == offered \union {t}

AckSent(t, k) == IF k = "downloaded" THEN acked \union {t} ELSE acked
=============================================================================
