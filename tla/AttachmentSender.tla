-------------------------- MODULE AttachmentSender --------------------------
(***************************************************************************)
(* Outgoing attachments: the state machine of                              *)
(* src/meshsrv/attachments/sender.py as the worker of service.py drives it.*)
(*                                                                         *)
(* One thread, the worker, owns the database.  A tick drains the command   *)
(* queue and then calls run_step() once for each of the oldest MaxPerTick  *)
(* rows in an automatic state.  A step that talks to the Relay or to the   *)
(* radio is not one transaction: the remote effect comes first, its answer *)
(* may be lost, and the process may die before the row says what happened. *)
(* So such a step is split here at every remote effect and every commit,   *)
(* and `worker` says how far the worker has come.                          *)
(*                                                                         *)
(* After a crash, ensure_service() runs sender.resume_pending() and only   *)
(* then starts the worker thread.  An exception there leaves the service   *)
(* constructed, stored and never started ("dead" below).                   *)
(*                                                                         *)
(* Not modelled: on_ack_received() and on_ack_downloaded(), which no code  *)
(* in the repository calls outside its tests; the encryption itself; MIME, *)
(* disk-space and trust checks, which are a nondeterministic refusal.      *)
(***************************************************************************)
EXTENDS AttachmentMedium, Sequences, FiniteSets

CONSTANTS
    Attachments,    \* the files the user may send
    Commented,      \* those the user typed a comment for
    Offline,        \* those whose Relay is out of reach for good
    MaxPerTick,     \* rows one tick steps (MAX_ATTACHMENTS_PER_TICK)
    SenderCrashes   \* bound: crashes of the sending process

ASSUME SenderAssumption ==
    /\ Commented \subseteq Attachments
    /\ Offline \subseteq Attachments
    /\ MaxPerTick \in Nat \ {0}
    /\ SenderCrashes \in Nat

VARIABLES
    row,        \* row[a]: the attachments row: state, transfer id, draft comment
    secret,     \* secret[a]: the mca_sender_state row, or NoSecret
    spool,      \* the attachments whose staged file exists
    order,      \* the attachments in the order of created_at
    tombs,      \* transfer ids in mca_tombstones
    worker,     \* what the worker is in the middle of, and for which attachment
    sCrashes    \* crashes so far

rowVars    == <<row, secret, spool, order, tombs>>
senderVars == <<row, secret, spool, order, tombs, worker, sCrashes>>

NoTransfer == 0

NoSecret == [held |-> FALSE, comment |-> FALSE, upload |-> FALSE]

AutomaticStates ==
    {"DRAFT", "VALIDATING", "ENCRYPTING", "QUEUED_UPLOAD", "UPLOADING", "READY_TO_SEND"}

FailedStates == {"FAILED_VALIDATION", "FAILED_UPLOAD"}

\* SENT is left by an inbound ACK only; the others are terminal.
SettledStates == {"SENT", "CANCELLED"} \union FailedStates

RowStates == {"NONE"} \union AutomaticStates \union SettledStates

WorkerSteps ==
    {"idle", "created", "uploading", "committed", "offered",     \* inside run_step()
     "revoked", "unlinked", "cancelled",                         \* inside _command_cancel()
     "booting", "dead"}

SenderTypeOK ==
    /\ row \in [Attachments -> [state : RowStates, transfer : Transfers \union {NoTransfer},
                                comment : BOOLEAN]]
    /\ secret \in [Attachments -> [held : BOOLEAN, comment : BOOLEAN, upload : BOOLEAN]]
    /\ spool \subseteq Attachments
    /\ order \in Seq(Attachments)
    /\ tombs \subseteq Transfers
    /\ worker.step \in WorkerSteps
    /\ worker.step \notin {"idle", "booting", "dead"} => worker.job \in Attachments
    /\ sCrashes \in 0 .. SenderCrashes

SenderInit ==
    /\ row = [a \in Attachments |-> [state |-> "NONE", transfer |-> NoTransfer, comment |-> FALSE]]
    /\ secret = [a \in Attachments |-> NoSecret]
    /\ spool = {}
    /\ order = <<>>
    /\ tombs = {}
    /\ worker = [step |-> "idle", job |-> "none"]
    /\ sCrashes = 0

-----------------------------------------------------------------------------
(* Helpers *)

UsedTransfers == tombs \union {row[a].transfer : a \in Attachments}

FreshTransfers == Transfers \ UsedTransfers

\* A new random transfer id: the ids are alike, so the least unused one stands for any.
NextTransfer == CHOOSE t \in FreshTransfers : \A u \in FreshTransfers : t <= u

At(step, a) == worker = [step |-> step, job |-> a]

Idle == worker.step = "idle"

Go(step, a) == worker' = [step |-> step, job |-> a]

Rest == worker' = [step |-> "idle", job |-> "none"]

In(a, state) == row[a].state = state

SetState(a, state) == row' = [row EXCEPT ![a].state = state]

\* _due_rows(): the oldest MaxPerTick rows in an automatic state.
DueRows ==
    LET Waiting == SelectSeq(order, LAMBDA a : row[a].state \in AutomaticStates)
    IN  {Waiting[i] : i \in 1 .. (IF Len(Waiting) < MaxPerTick THEN Len(Waiting) ELSE MaxPerTick)}

-----------------------------------------------------------------------------
(* Commands *)

\* The create command: the request thread has staged the file, the worker
\* inserts the row, its recipients and its delivery in one transaction.
CreateDraft(a) ==
    /\ Idle
    /\ In(a, "NONE")
    /\ FreshTransfers # {}
    /\ row' = [row EXCEPT ![a] = [state |-> "DRAFT", transfer |-> NextTransfer,
                                  comment |-> a \in Commented]]
    /\ spool' = spool \union {a}
    /\ order' = Append(order, a)
    /\ UNCHANGED <<secret, tombs, worker, sCrashes, mediumVars>>

\* Fault: an unreachable Relay is taken for a confirmed absence.
CancelWithoutRevoke(a) ==
    /\ Idle
    /\ row[a].state \in AutomaticStates
    /\ IF secret[a].upload /\ a \notin Offline
       THEN relay' = Revoked(row[a].transfer) \/ UNCHANGED relay
       ELSE UNCHANGED relay
    /\ Go("revoked", a)
    /\ UNCHANGED <<rowVars, sCrashes, offered, acked>>

\* The cancel command, first half: a Relay object the row knows of is revoked
\* (404 counts as revoked); any other answer ends the command.
CancelRemote(a) ==
    /\ Idle
    /\ row[a].state \in AutomaticStates
    /\ IF secret[a].upload
       THEN /\ a \notin Offline
            /\ relay' = Revoked(row[a].transfer)
            /\ Go("revoked", a) \/ Rest     \* the answer arrives, or is lost: relay_unreachable
       ELSE Go("revoked", a) /\ UNCHANGED relay
    /\ UNCHANGED <<rowVars, sCrashes, offered, acked>>

\* Second half: the staged file is unlinked; an OSError ends the command with
\* spool_cleanup_failed.
CancelUnlink(a) ==
    /\ At("revoked", a)
    /\ \/ spool' = spool \ {a} /\ Go("unlinked", a)
       \/ UNCHANGED spool /\ Rest
    /\ UNCHANGED <<row, secret, order, tombs, sCrashes, mediumVars>>

\* sender.cancel(): _set_state() commits the row ...
CancelRow(a) ==
    /\ At("unlinked", a)
    /\ SetState(a, "CANCELLED")
    /\ Go("cancelled", a)
    /\ UNCHANGED <<secret, spool, order, tombs, sCrashes, mediumVars>>

\* ... and the sender state is deleted in a second transaction.
CancelForget(a) ==
    /\ At("cancelled", a)
    /\ secret' = [secret EXCEPT ![a] = NoSecret]
    /\ Rest
    /\ UNCHANGED <<row, spool, order, tombs, sCrashes, mediumVars>>

-----------------------------------------------------------------------------
(* run_step(), state by state *)

StepDraft(a) ==
    /\ Idle
    /\ In(a, "DRAFT")
    /\ SetState(a, "VALIDATING")
    /\ UNCHANGED <<secret, spool, order, tombs, worker, sCrashes, mediumVars>>

\* A missing file, a MIME type, an extension or a full disk refuses it.
StepValidating(a) ==
    /\ Idle
    /\ In(a, "VALIDATING")
    /\ \/ a \in spool /\ SetState(a, "ENCRYPTING")
       \/ SetState(a, "FAILED_VALIDATION")
    /\ UNCHANGED <<secret, spool, order, tombs, worker, sCrashes, mediumVars>>

\* The manifest is sealed with the draft comment, which is then cleared.
Encrypt(a) ==
    /\ Idle
    /\ In(a, "ENCRYPTING")
    /\ a \in spool
    /\ secret' = [secret EXCEPT ![a] = [held |-> TRUE, comment |-> row[a].comment, upload |-> FALSE]]
    /\ row' = [row EXCEPT ![a].state = "QUEUED_UPLOAD", ![a].comment = FALSE]
    /\ UNCHANGED <<spool, order, tombs, worker, sCrashes, mediumVars>>

\* A recipient whose key is no longer trusted fails the attachment.
FailUntrusted(a) ==
    /\ Idle
    /\ In(a, "ENCRYPTING")
    /\ SetState(a, "FAILED_VALIDATION")
    /\ UNCHANGED <<secret, spool, order, tombs, worker, sCrashes, mediumVars>>

StepQueuedUpload(a) ==
    /\ Idle
    /\ In(a, "QUEUED_UPLOAD")
    /\ a \notin Offline
    /\ SetState(a, "UPLOADING")
    /\ UNCHANGED <<secret, spool, order, tombs, worker, sCrashes, mediumVars>>

\* Any answer of the Relay outside 2xx is final, but for transfer_exists.
FailUpload(a) ==
    /\ SetState(a, "FAILED_UPLOAD")
    /\ Rest

CreateUpload(a) ==
    LET t == row[a].transfer IN
    /\ Idle
    /\ In(a, "UPLOADING")
    /\ ~secret[a].upload
    /\ a \in spool \ Offline
    /\ ~Exists(t)
    /\ relay' = Created(t)
    /\ Go("created", a)
    /\ UNCHANGED <<rowVars, sCrashes, offered, acked>>

\* The session is created but its answer is lost: the exception of the HTTP
\* library leaves the row as it was.  (A further transfer id must remain.)
LoseUpload(a) ==
    LET t == row[a].transfer IN
    /\ Idle
    /\ In(a, "UPLOADING")
    /\ ~secret[a].upload
    /\ a \in spool \ Offline
    /\ ~Exists(t)
    /\ FreshTransfers # {}
    /\ relay' = Created(t)
    /\ UNCHANGED <<rowVars, worker, sCrashes, offered, acked>>

RefuseUpload(a) ==
    /\ Idle
    /\ In(a, "UPLOADING")
    /\ ~secret[a].upload
    /\ a \in spool \ Offline
    /\ ~Exists(row[a].transfer)
    /\ FailUpload(a)
    /\ UNCHANGED <<secret, spool, order, tombs, sCrashes, mediumVars>>

\* Fault: the abandoned id is not tombstoned.
AbandonUntombstoned(a) ==
    LET t == row[a].transfer IN
    /\ Idle
    /\ In(a, "UPLOADING")
    /\ ~secret[a].upload
    /\ a \in spool \ Offline
    /\ Exists(t)
    /\ FreshTransfers # {}
    /\ secret' = [secret EXCEPT ![a] = NoSecret]
    /\ row' = [row EXCEPT ![a].transfer = NextTransfer, ![a].state = "ENCRYPTING"]
    /\ UNCHANGED <<spool, order, tombs, worker, sCrashes, mediumVars>>

\* Fault: the conflict is taken for a transient error, and the same id tried again.
RetrySameTransfer(a) ==
    /\ Idle
    /\ In(a, "UPLOADING")
    /\ ~secret[a].upload
    /\ a \in spool \ Offline
    /\ Exists(row[a].transfer)
    /\ SetState(a, "QUEUED_UPLOAD")
    /\ UNCHANGED <<secret, spool, order, tombs, worker, sCrashes, mediumVars>>

\* 409 transfer_exists: an earlier attempt created the session and its answer
\* was lost.  The id is tombstoned and the attachment encrypted afresh.
AbandonTransfer(a) ==
    LET t == row[a].transfer IN
    /\ Idle
    /\ In(a, "UPLOADING")
    /\ ~secret[a].upload
    /\ a \in spool \ Offline
    /\ Exists(t)
    /\ FreshTransfers # {}
    /\ tombs' = tombs \union {t}
    /\ secret' = [secret EXCEPT ![a] = NoSecret]
    /\ row' = [row EXCEPT ![a].transfer = NextTransfer, ![a].state = "ENCRYPTING"]
    /\ UNCHANGED <<spool, order, worker, sCrashes, mediumVars>>

\* The tokens of the session are committed before any part is uploaded.
SaveUpload(a) ==
    /\ At("created", a)
    /\ secret' = [secret EXCEPT ![a].upload = TRUE]
    /\ Go("uploading", a)
    /\ UNCHANGED <<row, spool, order, tombs, sCrashes, mediumVars>>

\* A later attempt starts by asking the Relay which parts it has.
ResumeUpload(a) ==
    /\ Idle
    /\ In(a, "UPLOADING")
    /\ secret[a].upload
    /\ a \notin Offline
    /\ Go("uploading", a)
    /\ UNCHANGED <<rowVars, sCrashes, mediumVars>>

\* Fault: the loop over the parts runs once too often.
UploadOneTooMany(a) ==
    LET t == row[a].transfer IN
    /\ At("uploading", a)
    /\ Writable(t)
    /\ relay' = PartStored(t)
    /\ UNCHANGED worker
    /\ UNCHANGED <<rowVars, sCrashes, offered, acked>>

UploadPart(a) ==
    LET t == row[a].transfer IN
    /\ At("uploading", a)
    /\ relay[t].parts < Parts
    /\ Writable(t)
    /\ a \in spool \/ relay[t].parts + 1 = Parts     \* the manifest is in the database
    /\ relay' = PartStored(t)
    /\ UNCHANGED worker \/ Rest            \* the answer arrives, or is lost
    /\ UNCHANGED <<rowVars, sCrashes, offered, acked>>

CommitUpload(a) ==
    LET t == row[a].transfer IN
    /\ At("uploading", a)
    /\ relay[t].parts = Parts
    /\ Committable(t)
    /\ relay' = Committed(t)
    /\ Go("committed", a)
    /\ UNCHANGED <<rowVars, sCrashes, offered, acked>>

\* The object is committed but the answer is lost; or every retry was answered
\* 5xx, which queues the upload again.
LoseCommit(a) ==
    LET t == row[a].transfer IN
    /\ At("uploading", a)
    /\ relay[t].parts = Parts
    /\ Committable(t)
    /\ relay' = Committed(t)
    /\ UNCHANGED row \/ SetState(a, "QUEUED_UPLOAD")
    /\ Rest
    /\ UNCHANGED <<secret, spool, order, tombs, sCrashes, offered, acked>>

\* Fault: an upload that was interrupted counts as committed.
UploadAssumedDone(a) ==
    /\ At("uploading", a)
    /\ SetState(a, "READY_TO_SEND")
    /\ Rest
    /\ UNCHANGED <<secret, spool, order, tombs, sCrashes, mediumVars>>

\* The Relay cannot be reached: an exception of the HTTP library, or
\* RelayUnavailableError after the retries of a status or commit request.
UploadInterrupted(a) ==
    /\ At("uploading", a)
    /\ UNCHANGED row \/ SetState(a, "QUEUED_UPLOAD")
    /\ Rest
    /\ UNCHANGED <<secret, spool, order, tombs, sCrashes, mediumVars>>

\* A session that lapsed or was revoked, or any other answer outside 2xx.
UploadRejected(a) ==
    /\ At("uploading", a)
    /\ FailUpload(a)
    /\ UNCHANGED <<secret, spool, order, tombs, sCrashes, mediumVars>>

FinishUpload(a) ==
    /\ At("committed", a)
    /\ SetState(a, "READY_TO_SEND")
    /\ Rest
    /\ UNCHANGED <<secret, spool, order, tombs, sCrashes, mediumVars>>

\* _step_ready_to_send(): the OFFER is transmitted and the radio says so ...
SendOffer(a) ==
    LET t == row[a].transfer IN
    /\ Idle
    /\ In(a, "READY_TO_SEND")
    /\ offered' = OfferSent(t)
    /\ Go("offered", a)
    /\ UNCHANGED <<rowVars, sCrashes, relay, acked>>

\* ... and the row is then committed as SENT.
SaveSent(a) ==
    /\ At("offered", a)
    /\ SetState(a, "SENT")
    /\ Rest
    /\ UNCHANGED <<secret, spool, order, tombs, sCrashes, mediumVars>>

\* A send that timed out is reported as not sent although the frame went out;
\* the row stays READY_TO_SEND.  (Otherwise the send changes nothing at all.)
SendOfferUnconfirmed(a) ==
    LET t == row[a].transfer IN
    /\ Idle
    /\ In(a, "READY_TO_SEND")
    /\ offered' = OfferSent(t)
    /\ UNCHANGED <<rowVars, worker, sCrashes, relay, acked>>

RunStep(a) ==
    \/ StepDraft(a) \/ StepValidating(a) \/ Encrypt(a) \/ FailUntrusted(a)
    \/ StepQueuedUpload(a)
    \/ CreateUpload(a) \/ LoseUpload(a) \/ RefuseUpload(a) \/ AbandonTransfer(a) \/ ResumeUpload(a)
    \/ SendOffer(a) \/ SendOfferUnconfirmed(a)

FinishStep(a) ==
    \/ SaveUpload(a) \/ UploadPart(a) \/ CommitUpload(a) \/ LoseCommit(a)
    \/ UploadInterrupted(a) \/ UploadRejected(a) \/ FinishUpload(a) \/ SaveSent(a)

Cancel(a) == CancelRemote(a) \/ CancelUnlink(a) \/ CancelRow(a) \/ CancelForget(a)

-----------------------------------------------------------------------------
(* Crash and restart *)

SenderCrash ==
    /\ sCrashes < SenderCrashes
    /\ sCrashes' = sCrashes + 1
    /\ worker' = [step |-> "booting", job |-> "none"]
    /\ UNCHANGED <<rowVars, mediumVars>>

\* resume_pending() steps rows with no Relay, no radio and no recipient
\* identities at hand: it takes a row through the states that need none ...
BootStep(a) ==
    /\ worker.step = "booting"
    /\ \/ In(a, "DRAFT") /\ SetState(a, "VALIDATING")
       \/ In(a, "VALIDATING") /\ a \in spool /\ SetState(a, "ENCRYPTING")
       \/ In(a, "VALIDATING") /\ SetState(a, "FAILED_VALIDATION")
    /\ UNCHANGED <<secret, spool, order, tombs, worker, sCrashes, mediumVars>>

\* ... and run_step() raises SenderError in the others: nobody catches it
\* before start_runtime(), and service.start() is never called.
BootRaises(a) ==
    /\ worker.step = "booting"
    /\ row[a].state \in {"ENCRYPTING", "UPLOADING", "READY_TO_SEND"}
    /\ worker' = [step |-> "dead", job |-> "none"]
    /\ UNCHANGED <<rowVars, sCrashes, mediumVars>>

\* A queued upload is left alone; with nothing else to do the worker starts.
BootDone ==
    /\ worker.step = "booting"
    /\ \A a \in Attachments : row[a].state \in {"NONE", "QUEUED_UPLOAD"} \union SettledStates
    /\ Rest
    /\ UNCHANGED <<rowVars, sCrashes, mediumVars>>

SenderNext ==
    \/ \E a \in Attachments :
          CreateDraft(a) \/ RunStep(a) \/ FinishStep(a) \/ Cancel(a) \/ BootStep(a) \/ BootRaises(a)
    \/ SenderCrash
    \/ BootDone
=============================================================================
