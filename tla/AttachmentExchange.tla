------------------------- MODULE AttachmentExchange -------------------------
(***************************************************************************)
(* Two instances of the program exchanging attachments: the sender of      *)
(* AttachmentSender, the receiver of AttachmentReceiver, and between them  *)
(* the Relay and the radio of AttachmentMedium.  They share nothing else:  *)
(* the sender creates objects and offers them, the receiver hears offers,  *)
(* downloads objects and answers.                                          *)
(***************************************************************************)
EXTENDS AttachmentSender, AttachmentReceiver

CONSTANT MaxCrashes   \* bound: crashes of the two sides together

ASSUME CrashesAssumption == MaxCrashes \in Nat

vars == <<mediumVars, senderVars, receiverVars>>

Init == MediumInit /\ SenderInit /\ ReceiverInit

Next ==
    /\ \/ SenderNext /\ UNCHANGED receiverVars
       \/ ReceiverNext /\ UNCHANGED senderVars
       \/ MediumNext /\ UNCHANGED <<senderVars, receiverVars>>
    /\ sCrashes' + rCrashes' <= MaxCrashes

Spec == Init /\ [][Next]_vars

(***************************************************************************)
(* Fairness.  Each side's worker thread ticks every DEFAULT_TICK_SECONDS,  *)
(* steps the rows that are due (a retry command may step one that is not,  *)
(* but nobody has to give it) and always finishes what it is in the middle *)
(* of.  The Relay and the radio answer a request that is repeated for ever *)
(* some time: what may happen again and again is a lost answer, not that   *)
(* every answer is lost.  Nothing is assumed of the user, of crashes, of   *)
(* the frames on the air or of an object's expiry.                         *)
(***************************************************************************)
TakeStep(a) ==
    /\ \/ StepDraft(a) \/ StepValidating(a) \/ Encrypt(a) \/ StepQueuedUpload(a)
       \/ CreateUpload(a) \/ AbandonTransfer(a) \/ ResumeUpload(a) \/ SendOffer(a)
    /\ a \in DueRows
    /\ UNCHANGED receiverVars

Upload(a) ==
    (UploadPart(a) \/ CommitUpload(a) \/ UploadRejected(a)) /\ UNCHANGED receiverVars

WorkerFinishes ==
    /\ \/ \E a \in Attachments :
             \/ SaveUpload(a) \/ UploadInterrupted(a) \/ UploadRejected(a) \/ FinishUpload(a)
             \/ SaveSent(a)
             \/ CancelUnlink(a) \/ CancelRow(a) \/ CancelForget(a)
             \/ BootStep(a) \/ BootRaises(a)
       \/ BootDone
    /\ UNCHANGED receiverVars

ReaderFinishes ==
    /\ \/ \E t \in Transfers :
             RouteOffer(t) \/ SaveFile(t) \/ FinishDownload(t) \/ MarkReplySent(t)
       \/ ReceiverBoot
    /\ UNCHANGED senderVars

Fetches == (\E t \in Transfers : Fetch(t) \/ FetchFails(t)) /\ UNCHANGED senderVars

Completes == (\E t \in Transfers : Complete(t)) /\ UNCHANGED senderVars

Answers == (\E t \in Transfers, k \in AckKinds : SendAck(t, k)) /\ UNCHANGED senderVars

SenderFairness ==
    /\ WF_vars(WorkerFinishes)
    /\ \A a \in Attachments : SF_vars(TakeStep(a)) /\ SF_vars(Upload(a))

ReceiverFairness ==
    /\ WF_vars(ReaderFinishes)
    /\ SF_vars(Fetches)
    /\ SF_vars(Completes)
    /\ SF_vars(Answers)

FairSpec == Spec /\ SenderFairness /\ ReceiverFairness

-----------------------------------------------------------------------------
(* Properties *)

TypeOK == MediumTypeOK /\ SenderTypeOK /\ ReceiverTypeOK

\* An object that has all its parts and takes no more: it is committed, or has
\* expired or been revoked since.
Whole(t) == relay[t].parts = Parts /\ relay[t].state \in {"committed", "expired", "revoked"}

\* Nobody hears of an object before it is complete: an OFFER is transmitted
\* only for a transfer whose commit the Relay has confirmed, whatever answers
\* were lost on the way (sender.py:579-684, 747-814).
OfferedIsComplete == \A t \in offered : Whole(t)

\* The two sides together hand a file over as AttachmentHandover says.  It is
\* stored when the Relay's object is whole, offered when an OFFER was on the
\* air, received when the receiver's row says AVAILABLE, and confirmed when
\* ACK_DOWNLOADED was on the air.
Handover == INSTANCE AttachmentHandover WITH
    stored    <- {t \in Transfers : Whole(t)},
    received  <- {t \in Transfers : inbox[t] = "AVAILABLE"},
    confirmed <- acked

\* A file is confirmed to the sender only after it was received, received only
\* after it was offered, and offered only after it was stored, each for good
\* (sender.py:579-814, receiver.py:869-1101, service.py:1722-1859).
HandoverSpec == Handover!Spec

\* No object is forgotten at the Relay: each belongs to the attachment that
\* still carries its transfer id, or its id is tombstoned and never used
\* again (sender.py:687-698).
NoForeignObject ==
    \A t \in Transfers :
        Exists(t) => (t \in tombs) # (\E a \in Attachments : row[a].transfer = t)

\* A cancelled attachment can no longer be downloaded: the Relay object is
\* gone before the row says CANCELLED (service.py:1444-1518).
CancelledIsWithdrawn ==
    \A a \in Attachments : In(a, "CANCELLED") => ~Downloadable(row[a].transfer)

\* What the receiver shows as available came from an OFFER whose signature
\* verified, and its file is on the disk (receiver.py:869-908, 988-1101).
AvailableIsGenuine ==
    \A t \in Transfers : inbox[t] = "AVAILABLE" => copy[t] = "intact" /\ files[t] > 0

\* The sender is told that a file was downloaded only by a receiver that has
\* it, before and after any crash; and a receiver that has it owes or has
\* sent that ACK (receiver.py:1090-1100, service.py:1722-1859).
DownloadedAckIsTrue ==
    \A t \in Transfers :
        /\ t \in acked => inbox[t] = "AVAILABLE"
        /\ inbox[t] = "AVAILABLE" => replies[t]["downloaded"] # "none"

\* An attachment that is settled stays so: a late answer, a retry, a cancel or
\* a restart never reopens it, and a row the receiver is done with is never
\* downloaded again (sender.py:840-848, receiver.py:689-700).
SettledIsFinal ==
    [][/\ \A a \in Attachments : row[a].state \in SettledStates => row'[a].state = row[a].state
       /\ \A t \in Transfers : inbox[t] \in FinalStates => inbox'[t] = inbox[t] /\ files'[t] = files[t]
      ]_vars

\* Every draft is sent, cancelled or reported as failed (ADR-0008: "restart
\* never loses a job").
EveryDraftSettles ==
    \A a \in Attachments : row[a].state # "NONE" ~> row[a].state \in SettledStates

\* Every draft settles, but for two cases: a restart has left the worker
\* unstarted, or a crash inside a cancel has left a row without its staged
\* file (every later step of it then raises FileNotFoundError).  No lost
\* answer, no refusal and no failed cancel leaves it half done for ever.
DraftSettlesUnlessStranded ==
    \A a \in Attachments :
        row[a].state # "NONE"
            ~> (row[a].state \in SettledStates \/ worker.step = "dead" \/ a \notin spool)

\* The receiver gets to the end of its work: the downloads the user asked for
\* end, in whatever state, and ...
DownloadsEnd ==
    (\E t \in Transfers : inbox[t] = "DOWNLOADING")
        ~> (\A t \in Transfers : inbox[t] # "DOWNLOADING")

\* ... its outbox drains: every ACK is transmitted, across failed sends and
\* crashes (service.py:1722-1859).
OutboxDrains ==
    (\E t \in Transfers, k \in AckKinds : replies[t][k] = "PENDING")
        ~> (\A t \in Transfers, k \in AckKinds : replies[t][k] # "PENDING")
=============================================================================
