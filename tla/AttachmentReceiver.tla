------------------------- MODULE AttachmentReceiver -------------------------
(***************************************************************************)
(* Incoming attachments: the state machine of                              *)
(* src/meshsrv/attachments/receiver.py as the worker of service.py drives  *)
(* it, with its outbox of ACKs.                                            *)
(*                                                                         *)
(* handle_offer() records an OFFER in two transactions, the row with its   *)
(* ACK and then the state it waits in.  A download is fetched, written to  *)
(* a file, completed at the Relay and only then recorded.  An ACK is       *)
(* transmitted and then marked as sent.  The process may die at every      *)
(* point in between; on a restart reconcile_pending() re-evaluates the     *)
(* rows that wait for a key, a provider or the network.                    *)
(*                                                                         *)
(* An OFFER may arrive altered: it then still decodes, but its signature   *)
(* does not verify under the sender's key.                                 *)
(*                                                                         *)
(* Not modelled: the admission limits and the reply quotas (a refused      *)
(* OFFER or a postponed reply changes nothing), replies without a route    *)
(* (every OFFER that comes in through the service records one), EXPIRED    *)
(* (no code enters it), a provider that is removed (remove_or_disable()    *)
(* keeps one that a row refers to).                                        *)
(***************************************************************************)
EXTENDS AttachmentMedium

CONSTANTS
    ReceiverCrashes     \* bound: crashes of the receiving process

ASSUME ReceiverAssumption == ReceiverCrashes \in Nat

VARIABLES
    inbox,      \* inbox[t]: the state of the row received for t, "NONE" if there is none
    parked,     \* rows whose pending_offer_cbor is kept
    copy,       \* the OFFER the row was made from: "none", "intact" or "altered"
    keyKnown,   \* a binding for the sender's key exists
    provider,   \* the Relay is a registered provider
    replies,    \* replies[t][k]: the mca_outgoing_replies row of an ACK
    files,      \* files[t]: the files written for t: none, one, or several (2)
    reader,     \* what the worker is in the middle of, and for which transfer
    rCrashes    \* crashes so far

inboxVars    == <<inbox, parked, copy, replies, files>>
receiverVars == <<inbox, parked, copy, keyKnown, provider, replies, files, reader, rCrashes>>

WaitingStates == {"WAITING_KEY", "WAITING_PROVIDER", "WAITING_NETWORK"}

FinalStates == {"AVAILABLE", "REJECTED", "FAILED"}

InboxStates ==
    {"NONE", "OFFER_RECEIVED", "WAITING_CONSENT", "DOWNLOADING"}
        \union WaitingStates \union FinalStates

ReplyStates == {"none", "PENDING", "SENT"}

ReaderSteps == {"idle", "routing", "fetched", "saved", "completed", "answered", "booting"}

ReceiverTypeOK ==
    /\ inbox \in [Transfers -> InboxStates]
    /\ parked \subseteq Transfers
    /\ copy \in [Transfers -> {"none", "intact", "altered"}]
    /\ keyKnown \in BOOLEAN
    /\ provider \in BOOLEAN
    /\ replies \in [Transfers -> [AckKinds -> ReplyStates]]
    /\ files \in [Transfers -> 0 .. 2]
    /\ reader.step \in ReaderSteps
    /\ reader.step \notin {"idle", "booting"} => reader.job \in Transfers
    /\ rCrashes \in 0 .. ReceiverCrashes

ReceiverInit ==
    /\ inbox = [t \in Transfers |-> "NONE"]
    /\ parked = {}
    /\ copy = [t \in Transfers |-> "none"]
    /\ keyKnown \in BOOLEAN
    /\ provider \in BOOLEAN
    /\ replies = [t \in Transfers |-> [k \in AckKinds |-> "none"]]
    /\ files = [t \in Transfers |-> 0]
    /\ reader = [step |-> "idle", job |-> 0, ack |-> "none"]
    /\ rCrashes = 0

-----------------------------------------------------------------------------
(* Helpers *)

Reading(step, t) == reader.step = step /\ reader.job = t

ReaderIdle == reader.step = "idle"

Continue(step, t) == reader' = [step |-> step, job |-> t, ack |-> "none"]

ReaderRests == reader' = [step |-> "idle", job |-> 0, ack |-> "none"]

SetInbox(t, state) == inbox' = [inbox EXCEPT ![t] = state]

\* _maybe_send_ack(): an ACK is queued at most once.
Queued(r, t, k) == IF r[t][k] = "none" THEN [r EXCEPT ![t][k] = "PENDING"] ELSE r

\* _resolve_provider_or_wait(): where a row with a verified OFFER waits.
WaitsIn(network) ==
    IF ~provider THEN "WAITING_PROVIDER"
    ELSE IF network THEN "WAITING_CONSENT" ELSE "WAITING_NETWORK"

\* Fault: a parked OFFER is not verified once the key is known.
AdvancedUnverified(t, network) ==
    CASE inbox[t] = "WAITING_KEY" -> IF keyKnown THEN WaitsIn(network) ELSE "WAITING_KEY"
      [] inbox[t] = "WAITING_PROVIDER" -> WaitsIn(network)
      [] inbox[t] = "WAITING_NETWORK" -> IF network THEN "WAITING_CONSENT" ELSE "WAITING_NETWORK"
      [] OTHER -> inbox[t]

\* run_step() on a waiting row, as the row state it leaves behind.
Advanced(t, network) ==
    CASE inbox[t] = "WAITING_KEY" ->
           IF ~keyKnown THEN "WAITING_KEY"
           ELSE IF copy[t] = "altered" THEN "FAILED" ELSE WaitsIn(network)
      [] inbox[t] = "WAITING_PROVIDER" -> WaitsIn(network)
      [] inbox[t] = "WAITING_NETWORK" -> IF network THEN "WAITING_CONSENT" ELSE "WAITING_NETWORK"
      [] OTHER -> inbox[t]

\* The rows of `ts` advance: their states, the parked OFFERs they are done
\* with, and the ACK of an unknown provider.
AdvanceAll(ts, network) ==
    /\ inbox' = [t \in Transfers |-> IF t \in ts THEN Advanced(t, network) ELSE inbox[t]]
    /\ parked' = {t \in parked : t \in ts => Advanced(t, network) = "WAITING_KEY"}
    /\ replies' = [t \in Transfers |->
                     IF t \in ts /\ Advanced(t, network) = "WAITING_PROVIDER"
                     THEN Queued(replies, t, "unknown")[t] ELSE replies[t]]
    /\ UNCHANGED <<copy, files>>

-----------------------------------------------------------------------------
(* An OFFER arrives *)

\* Fault: a repeated OFFER replaces the row whatever its state.
RecordOfferAnew(t, condition) ==
    /\ ReaderIdle
    /\ t \in offered
    /\ keyKnown => condition = "intact"
    /\ SetInbox(t, "OFFER_RECEIVED")
    /\ copy' = [copy EXCEPT ![t] = condition]
    /\ parked' = IF keyKnown THEN parked ELSE parked \union {t}
    /\ replies' = Queued(replies, t, "received")
    /\ Continue("routing", t)
    /\ UNCHANGED <<keyKnown, provider, files, rCrashes, mediumVars>>

\* First transaction of handle_offer() for a new transfer id: the row, and
\* ACK_RECEIVED in the outbox.  A known key refuses an altered OFFER.
RecordOffer(t, condition) ==
    /\ ReaderIdle
    /\ t \in offered
    /\ inbox[t] = "NONE"
    /\ keyKnown => condition = "intact"
    /\ SetInbox(t, "OFFER_RECEIVED")
    /\ copy' = [copy EXCEPT ![t] = condition]
    /\ parked' = IF keyKnown THEN parked ELSE parked \union {t}
    /\ replies' = Queued(replies, t, "received")
    /\ Continue("routing", t)
    /\ UNCHANGED <<keyKnown, provider, files, rCrashes, mediumVars>>

\* Second transaction: where the row waits.
RouteOffer(t) ==
    /\ Reading("routing", t)
    /\ \E network \in BOOLEAN :
          LET state == IF t \in parked THEN "WAITING_KEY" ELSE WaitsIn(network) IN
          /\ SetInbox(t, state)
          /\ replies' = IF state = "WAITING_PROVIDER" THEN Queued(replies, t, "unknown") ELSE replies
    /\ ReaderRests
    /\ UNCHANGED <<parked, copy, keyKnown, provider, files, rCrashes, mediumVars>>

-----------------------------------------------------------------------------
(* The tick: run_step() of one row.  A repeated OFFER does the same. *)

StepWaiting(t) ==
    /\ ReaderIdle
    /\ inbox[t] \in WaitingStates
    /\ \E network \in BOOLEAN : AdvanceAll({t}, network)
    /\ UNCHANGED <<keyKnown, provider, reader, rCrashes, mediumVars>>

\* _step_downloading(): the descriptor, the manifest and the chunks verify.
Fetch(t) ==
    /\ ReaderIdle
    /\ inbox[t] = "DOWNLOADING"
    /\ Downloadable(t)
    /\ Continue("fetched", t)
    /\ UNCHANGED <<inboxVars, keyKnown, provider, rCrashes, mediumVars>>

\* The Relay answers 5xx to every retry: the row waits for the network, and
\* then for the user's consent again.
FetchInterrupted(t) ==
    /\ ReaderIdle
    /\ inbox[t] = "DOWNLOADING"
    /\ SetInbox(t, "WAITING_NETWORK")
    /\ UNCHANGED <<parked, copy, replies, files, keyKnown, provider, reader, rCrashes, mediumVars>>

\* Fault: a download that cannot succeed is tried for ever.
FetchTriedAgain(t) ==
    /\ ReaderIdle
    /\ inbox[t] = "DOWNLOADING"
    /\ UNCHANGED <<receiverVars, mediumVars>>

\* The object is gone, or what was fetched does not verify.
FetchFails(t) ==
    /\ ReaderIdle
    /\ inbox[t] = "DOWNLOADING"
    /\ SetInbox(t, "FAILED")
    /\ UNCHANGED <<parked, copy, replies, files, keyKnown, provider, reader, rCrashes, mediumVars>>

\* Fault: the ACK is queued when the file is written, before the row says so.
SaveFileAndTell(t) ==
    /\ Reading("fetched", t)
    /\ files' = [files EXCEPT ![t] = IF @ = 0 THEN 1 ELSE 2]
    /\ replies' = Queued(replies, t, "downloaded")
    /\ Continue("saved", t)
    /\ UNCHANGED <<inbox, parked, copy, keyKnown, provider, rCrashes, mediumVars>>

\* The plaintext is written under a file name of its own.
SaveFile(t) ==
    /\ Reading("fetched", t)
    /\ files' = [files EXCEPT ![t] = IF @ = 0 THEN 1 ELSE 2]
    /\ Continue("saved", t)
    /\ UNCHANGED <<inbox, parked, copy, replies, keyKnown, provider, rCrashes, mediumVars>>

\* POST complete: a RelayError is ignored.
Complete(t) ==
    /\ Reading("saved", t)
    /\ Continue("completed", t)
    /\ UNCHANGED <<inboxVars, keyKnown, provider, rCrashes, mediumVars>>

\* An exception of the HTTP library is no RelayError: it ends the step, and
\* the next tick downloads the file again.
CompleteRaises(t) ==
    /\ Reading("saved", t)
    /\ ReaderRests
    /\ UNCHANGED <<inboxVars, keyKnown, provider, rCrashes, mediumVars>>

FinishDownload(t) ==
    /\ Reading("completed", t)
    /\ SetInbox(t, "AVAILABLE")
    /\ replies' = Queued(replies, t, "downloaded")
    /\ ReaderRests
    /\ UNCHANGED <<parked, copy, files, keyKnown, provider, rCrashes, mediumVars>>

-----------------------------------------------------------------------------
(* _dispatch_outgoing_replies(): an ACK is transmitted, then marked *)

SendAck(t, k) ==
    /\ ReaderIdle
    /\ replies[t][k] = "PENDING"
    /\ acked' = AckSent(t, k)
    /\ reader' = [step |-> "answered", job |-> t, ack |-> k]
    /\ UNCHANGED <<inboxVars, keyKnown, provider, rCrashes, relay, offered>>

\* The radio reports a timeout although the frame went out: the ACK stays
\* pending.  (Otherwise a failed send only postpones the next attempt.)
SendAckUnconfirmed(t, k) ==
    /\ ReaderIdle
    /\ replies[t][k] = "PENDING"
    /\ acked' = AckSent(t, k)
    /\ UNCHANGED <<inboxVars, keyKnown, provider, reader, rCrashes, relay, offered>>

\* Fault: an ACK that was transmitted stays in the outbox.
LeaveReplyPending(t) ==
    /\ Reading("answered", t)
    /\ ReaderRests
    /\ UNCHANGED <<inboxVars, keyKnown, provider, rCrashes, mediumVars>>

MarkReplySent(t) ==
    /\ Reading("answered", t)
    /\ replies' = [replies EXCEPT ![t][reader.ack] = "SENT"]
    /\ ReaderRests
    /\ UNCHANGED <<inbox, parked, copy, files, keyKnown, provider, rCrashes, mediumVars>>

-----------------------------------------------------------------------------
(* The user, the key exchange, and crashes *)

BeginDownload(t) ==
    /\ ReaderIdle
    /\ inbox[t] = "WAITING_CONSENT"
    /\ SetInbox(t, "DOWNLOADING")
    /\ UNCHANGED <<parked, copy, replies, files, keyKnown, provider, reader, rCrashes, mediumVars>>

Reject(t) ==
    /\ ReaderIdle
    /\ inbox[t] = "WAITING_CONSENT"
    /\ SetInbox(t, "REJECTED")
    /\ UNCHANGED <<parked, copy, replies, files, keyKnown, provider, reader, rCrashes, mediumVars>>

LearnKey ==
    /\ ReaderIdle
    /\ ~keyKnown
    /\ keyKnown' = TRUE
    /\ UNCHANGED <<inboxVars, provider, reader, rCrashes, mediumVars>>

RegisterProvider ==
    /\ ReaderIdle
    /\ ~provider
    /\ provider' = TRUE
    /\ UNCHANGED <<inboxVars, keyKnown, reader, rCrashes, mediumVars>>

ReceiverCrash ==
    /\ rCrashes < ReceiverCrashes
    /\ rCrashes' = rCrashes + 1
    /\ reader' = [step |-> "booting", job |-> 0, ack |-> "none"]
    /\ UNCHANGED <<inboxVars, keyKnown, provider, mediumVars>>

\* reconcile_pending() with network_available=False, before the worker starts.
ReceiverBoot ==
    /\ reader.step = "booting"
    /\ AdvanceAll({t \in Transfers : inbox[t] \in WaitingStates}, FALSE)
    /\ ReaderRests
    /\ UNCHANGED <<keyKnown, provider, rCrashes, mediumVars>>

Receive(t) ==
    \/ \E condition \in {"intact", "altered"} : RecordOffer(t, condition)
    \/ RouteOffer(t)

Download(t) ==
    \/ Fetch(t) \/ FetchInterrupted(t) \/ FetchFails(t) \/ SaveFile(t)
    \/ Complete(t) \/ CompleteRaises(t) \/ FinishDownload(t)

Answer(t) ==
    \/ \E k \in AckKinds : SendAck(t, k) \/ SendAckUnconfirmed(t, k)
    \/ MarkReplySent(t)

ReceiverNext ==
    \/ \E t \in Transfers :
          Receive(t) \/ StepWaiting(t) \/ Download(t) \/ Answer(t) \/ BeginDownload(t) \/ Reject(t)
    \/ LearnKey
    \/ RegisterProvider
    \/ ReceiverCrash
    \/ ReceiverBoot
================================================================================
