-------------------------- MODULE AttachmentProofs --------------------------
(***************************************************************************)
(* Proofs about AttachmentExchange, for every set of attachments, number   *)
(* of transfer ids and parts, and any number of crashes.                   *)
(*                                                                         *)
(* The two sides share the Relay and the frames on the air.  The sender's  *)
(* invariant speaks of its own rows and of the objects at the Relay, which *)
(* no step of the receiver changes; the receiver's invariant speaks of its *)
(* own rows and of the ACKs, which no step of the sender changes.          *)
(***************************************************************************)
EXTENDS AttachmentExchange, FiniteSetTheorems, WellFoundedInduction, TLAPS

USE MediumAssumption, SenderAssumption, ReceiverAssumption

-----------------------------------------------------------------------------
(* Transfer ids                                                            *)

\* A set of natural numbers that is not empty has a least element: of the
\* intervals 0..n, one is minimal under inclusion.
LEMMA LeastNumber ==
    ASSUME NEW S \in SUBSET Nat, S # {}
    PROVE  \E n \in S : \A m \in S : n <= m
<1> DEFINE Below == {0 .. n : n \in S}
<1>1. Below \subseteq FiniteSubsetsOf(Nat) /\ Below # {}
  <2>1. ASSUME NEW n \in S PROVE 0 .. n \in SUBSET Nat /\ IsFiniteSet(0 .. n)
    BY FS_Interval
  <2> QED
    BY <2>1 DEF FiniteSubsetsOf
<1>2. PICK I \in Below : \A J \in Below : ~ (<<J, I>> \in StrictSubsetOrdering(Nat))
  BY <1>1, FS_StrictSubsetOrderingWellFounded, WFMin
<1>3. PICK n \in S : I = 0 .. n
  BY <1>2
<1>4. ASSUME NEW m \in S PROVE n <= m
  <2> SUFFICES ASSUME m < n PROVE FALSE
    OBVIOUS
  <2>1. 0 .. m \subseteq 0 .. n /\ n \in 0 .. n /\ n \notin 0 .. m
    OBVIOUS
  <2>2. <<0 .. m, 0 .. n>> \in StrictSubsetOrdering(Nat)
    BY <2>1 DEF StrictSubsetOrdering
  <2> QED
    BY <1>2, <1>3, <2>2
<1> QED
  BY <1>4

\* A transfer id that is drawn is one nobody has used.
LEMMA NextIsFresh ==
    ASSUME FreshTransfers # {}
    PROVE  NextTransfer \in FreshTransfers
<1>1. FreshTransfers \in SUBSET Nat
  BY DEF FreshTransfers, Transfers
<1>2. \E t \in FreshTransfers : \A u \in FreshTransfers : t <= u
  BY <1>1, LeastNumber
<1> QED
  BY <1>2 DEF NextTransfer
-----------------------------------------------------------------------------
(* The sender and the Relay                                                *)

\* An object that no commit has reached.
Unfinished(t) == relay[t].state \in {"none", "staging", "lapsed"}

\* The rows that may have a session at the Relay.
SessionStates == {"QUEUED_UPLOAD", "UPLOADING", "READY_TO_SEND", "SENT", "CANCELLED", "FAILED_UPLOAD"}

RestingSteps == {"idle", "booting", "dead"}

Resting == [step : RestingSteps, job : {"none"}]

WorkingOn(as) == [step : WorkerSteps \ RestingSteps, job : as]

Objects == [Transfers -> [state : ObjectStates, parts : 0 .. Parts]]

Rows == [Attachments -> [state : RowStates, transfer : Transfers \union {NoTransfer}, comment : BOOLEAN]]

Secrets == [Attachments -> [held : BOOLEAN, comment : BOOLEAN, upload : BOOLEAN]]

SenderTyped ==
    /\ relay \in Objects
    /\ row \in Rows
    /\ secret \in Secrets
    /\ offered \subseteq Transfers
    /\ spool \subseteq Attachments
    /\ order \in Seq(Attachments)
    /\ tombs \subseteq Transfers
    /\ worker \in Resting \union WorkingOn(Attachments)
    /\ sCrashes \in 0 .. SenderCrashes

\* A transfer id belongs to one row, or it is tombstoned, or nobody has used it.
IdsAreOwned ==
    /\ \A a \in Attachments : row[a].transfer = NoTransfer <=> row[a].state = "NONE"
    /\ \A a, b \in Attachments :
          row[a].transfer = row[b].transfer /\ row[a].transfer # NoTransfer => a = b
    /\ \A a \in Attachments : row[a].transfer \notin tombs
    /\ \A t \in Transfers : Exists(t) => t \in tombs \/ \E a \in Attachments : row[a].transfer = t

\* A row without a session has no committed object; one that has a session has
\* been encrypted, and its object exists.  A row that is offered, or was, has a
\* whole object; a cancelled one has none that can be downloaded.
RowFits(a) ==
    /\ secret[a].upload => row[a].state \in SessionStates /\ Exists(row[a].transfer)
    /\ row[a].state \notin {"NONE", "CANCELLED"} /\ ~secret[a].upload
          => Unfinished(row[a].transfer)
    /\ row[a].state \in {"READY_TO_SEND", "SENT"} => Whole(row[a].transfer)
    /\ row[a].state = "CANCELLED" => ~Downloadable(row[a].transfer)

\* What the worker is in the middle of fits the row it works for.
WorkerFits(a) ==
    /\ At("created", a) => In(a, "UPLOADING") /\ ~secret[a].upload /\ Exists(row[a].transfer)
    /\ At("uploading", a) => In(a, "UPLOADING") /\ secret[a].upload
    /\ At("committed", a) => In(a, "UPLOADING") /\ Whole(row[a].transfer)
    /\ At("offered", a) => In(a, "READY_TO_SEND")
    /\ At("revoked", a) \/ At("unlinked", a)
          => row[a].state \in AutomaticStates /\ ~Downloadable(row[a].transfer)
    /\ At("cancelled", a) => In(a, "CANCELLED")

SenderInv ==
    /\ SenderTyped
    /\ IdsAreOwned
    /\ \A a \in Attachments : RowFits(a) /\ WorkerFits(a)
    /\ \A t \in offered : Whole(t)

LEMMA SenderStarts == MediumInit /\ SenderInit => SenderInv
  BY DEF MediumInit, SenderInit, SenderInv, SenderTyped, IdsAreOwned, RowFits, WorkerFits, Resting,
         WorkingOn, RestingSteps, RowStates, ObjectStates, NoSecret, NoTransfer, Exists, At,
         Objects, Rows, Secrets

\* The names of states and steps are what they seem.
LEMMA Names ==
    /\ AutomaticStates \union SettledStates \subseteq RowStates \ {"NONE"}
    /\ AutomaticStates \intersect SettledStates = {}
    /\ {"created", "uploading", "committed", "offered", "revoked", "unlinked", "cancelled"}
          \subseteq WorkerSteps \ RestingSteps
  BY DEF RowStates, AutomaticStates, SettledStates, FailedStates, WorkerSteps, RestingSteps

\* A step that leaves a row and its object alone, and does not work for it,
\* keeps what is known of it.
LEMMA OthersKeep ==
    ASSUME SenderInv, NEW b \in Attachments,
           row'[b] = row[b], secret'[b] = secret[b],
           row[b].state # "NONE" => relay'[row[b].transfer] = relay[row[b].transfer],
           \A step \in WorkerSteps \ RestingSteps : ~At(step, b)'
    PROVE  RowFits(b)' /\ WorkerFits(b)'
<1>1. RowFits(b)'
  BY DEF SenderInv, RowFits, Exists, Unfinished, Whole, Downloadable, SessionStates
<1>2. WorkerFits(b)'
  BY Names DEF WorkerFits
<1> QED
  BY <1>1, <1>2

\* A step for one row, which keeps its transfer id, and for its object.
LEMMA RowSteps ==
    ASSUME SenderInv, NEW a \in Attachments,
           row[a].state # "NONE",
           SenderTyped',
           row'[a].state # "NONE", row'[a].transfer = row[a].transfer,
           \A b \in Attachments \ {a} : row'[b] = row[b] /\ secret'[b] = secret[b],
           \A t \in Transfers \ {row[a].transfer} : relay'[t] = relay[t],
           Whole(row[a].transfer) => Whole(row[a].transfer)',
           worker' \in Resting \union WorkingOn({a}),
           offered' \subseteq offered \union {row[a].transfer},
           row[a].transfer \in offered' \ offered => Whole(row[a].transfer)',
           tombs' = tombs,
           RowFits(a)', WorkerFits(a)'
    PROVE  SenderInv'
<1>1. /\ row[a].transfer \in Transfers
      /\ \A b \in Attachments \ {a} : row[b].transfer # row[a].transfer
  BY DEF SenderInv, SenderTyped, IdsAreOwned, Rows
<1>2. IdsAreOwned'
  <2>1. \A b \in Attachments : row'[b].transfer = row[b].transfer /\ (row'[b].state = "NONE" <=> row[b].state = "NONE")
    OBVIOUS
  <2>2. ASSUME NEW t \in Transfers, Exists(t)'
        PROVE  t \in tombs \/ \E b \in Attachments : row[b].transfer = t
    BY <2>2 DEF SenderInv, IdsAreOwned, Exists
  <2> QED
    BY <2>1, <2>2 DEF SenderInv, IdsAreOwned
<1>3. ASSUME NEW b \in Attachments \ {a} PROVE RowFits(b)' /\ WorkerFits(b)'
  <2>1. row[b].state # "NONE" => row[b].transfer \in Transfers
    BY DEF SenderInv, SenderTyped, IdsAreOwned, Rows
  <2>2. \A step \in WorkerSteps \ RestingSteps : ~At(step, b)'
    BY DEF At, Resting, WorkingOn, RestingSteps
  <2> QED
    BY <1>1, <2>1, <2>2, OthersKeep
<1>4. \A t \in offered' : Whole(t)'
  BY DEF SenderInv, SenderTyped, Whole
<1> QED
  BY <1>2, <1>3, <1>4 DEF SenderInv

LEMMA WorkerNames ==
    /\ \A a \in Attachments :
          /\ WorkingOn({a}) \subseteq WorkingOn(Attachments)
          /\ \A step \in {"created", "uploading", "committed", "offered", "revoked", "unlinked", "cancelled"} :
                [step |-> step, job |-> a] \in WorkingOn({a})
    /\ \A step \in RestingSteps : [step |-> step, job |-> "none"] \in Resting
  BY Names DEF WorkingOn, Resting

LEMMA WorkerRests == ASSUME SenderInv, worker.step \in RestingSteps PROVE worker \in Resting
  BY DEF SenderInv, SenderTyped, Resting, WorkingOn

\* The kinds of step a row takes: only its state changes, ...
LEMMA StateSteps ==
    ASSUME SenderInv, NEW a \in Attachments, NEW state \in RowStates \ {"NONE"},
           row[a].state # "NONE",
           SetState(a, state),
           worker' \in Resting \union WorkingOn({a}),
           UNCHANGED <<secret, order, tombs, sCrashes, relay, offered>>,
           spool' \subseteq Attachments,
           RowFits(a)', WorkerFits(a)'
    PROVE  SenderInv'
<1>1. row' \in Rows /\ row'[a] = [row[a] EXCEPT !.state = state]
  BY SMTT(30) DEF SetState, SenderInv, SenderTyped, Rows
<1>2. \A b \in Attachments \ {a} : row'[b] = row[b]
  BY DEF SetState, SenderInv, SenderTyped, Rows
<1>3. row'[a].state # "NONE" /\ row'[a].transfer = row[a].transfer
  BY <1>1 DEF SenderInv, SenderTyped, Rows
<1>4. SenderTyped'
  BY <1>1, WorkerNames DEF SenderInv, SenderTyped
<1> QED
  BY <1>2, <1>3, <1>4, RowSteps DEF Whole

\* ... or only its object does, ...
LEMMA ObjectSteps ==
    ASSUME SenderInv, NEW a \in Attachments, NEW object \in [state : ObjectStates, parts : 0 .. Parts],
           row[a].state # "NONE",
           relay' = [relay EXCEPT ![row[a].transfer] = object],
           Whole(row[a].transfer) => Whole(row[a].transfer)',
           worker' \in Resting \union WorkingOn({a}),
           UNCHANGED <<rowVars, sCrashes, offered>>,
           RowFits(a)', WorkerFits(a)'
    PROVE  SenderInv'
<1>1. relay' \in Objects /\ \A t \in Transfers \ {row[a].transfer} : relay'[t] = relay[t]
  BY DEF SenderInv, SenderTyped, Objects
<1>2. SenderTyped'
  BY <1>1, WorkerNames DEF SenderInv, SenderTyped, rowVars
<1> QED
  BY <1>1, <1>2, RowSteps DEF rowVars

\* ... or only its secrets do, ...
LEMMA SecretSteps ==
    ASSUME SenderInv, NEW a \in Attachments,
           row[a].state # "NONE",
           secret' \in Secrets, \A b \in Attachments \ {a} : secret'[b] = secret[b],
           worker' \in Resting \union WorkingOn({a}),
           UNCHANGED <<row, spool, order, tombs, sCrashes, relay, offered>>,
           RowFits(a)', WorkerFits(a)'
    PROVE  SenderInv'
<1>1. SenderTyped'
  BY WorkerNames DEF SenderInv, SenderTyped
<1> QED
  BY <1>1, RowSteps DEF Whole

\* ... or only what is done for it.
LEMMA WorkSteps ==
    ASSUME SenderInv, NEW a \in Attachments,
           row[a].state # "NONE",
           worker' \in Resting \union WorkingOn({a}),
           spool' \subseteq Attachments,
           offered' # offered => Whole(row[a].transfer) /\ offered' = OfferSent(row[a].transfer),
           UNCHANGED <<row, secret, order, tombs, sCrashes, relay>>,
           WorkerFits(a)'
    PROVE  SenderInv'
<1>1. row[a].transfer \in Transfers
  BY DEF SenderInv, SenderTyped, IdsAreOwned, Rows
<1>2. SenderTyped'
  BY <1>1, WorkerNames DEF SenderInv, SenderTyped, OfferSent
<1>3. RowFits(a)' /\ (Whole(row[a].transfer) => Whole(row[a].transfer)')
  BY DEF SenderInv, RowFits, Exists, Unfinished, Whole, Downloadable
<1> QED
  BY <1>2, <1>3, RowSteps DEF OfferSent

\* The row a step is taken for.
LEMMA RowIs ==
    ASSUME SenderInv, NEW a \in Attachments, row[a].state # "NONE"
    PROVE  /\ row[a].transfer \in Transfers
           /\ relay[row[a].transfer] \in [state : ObjectStates, parts : 0 .. Parts]
           /\ row[a] \in [state : RowStates, transfer : Transfers, comment : BOOLEAN]
           /\ secret[a] \in [held : BOOLEAN, comment : BOOLEAN, upload : BOOLEAN]
  BY DEF SenderInv, SenderTyped, IdsAreOwned, Rows, Objects, Secrets

LEMMA RestFits == ASSUME NEW a \in Attachments, worker' \in Resting PROVE WorkerFits(a)'
  BY DEF WorkerFits, At, Resting, RestingSteps

\* What is known when a row, or the worker's business with it, is looked at.
LEMMA Known == ASSUME SenderInv, NEW a \in Attachments PROVE RowFits(a) /\ WorkerFits(a)
  BY DEF SenderInv

LEMMA StepDraftKeeps == ASSUME SenderInv, NEW a \in Attachments, StepDraft(a) PROVE SenderInv'
<1> USE DEF StepDraft, Idle, mediumVars, In
<1>1. SetState(a, "VALIDATING") /\ row[a].state # "NONE" /\ "VALIDATING" \in RowStates \ {"NONE"}
  BY Known, Names DEF WorkerFits, AutomaticStates, SettledStates, FailedStates
<1>2. row'[a].state = "VALIDATING" /\ row'[a].transfer = row[a].transfer
  BY <1>1, RowIs DEF SetState, SenderInv, SenderTyped, Rows
<1>3. worker' \in Resting
  BY WorkerNames, WorkerRests DEF RestingSteps
<1>4. RowFits(a)'
  BY <1>1, <1>2, Known, RowIs DEF WorkerFits, RowFits, Exists, Unfinished, Whole, Downloadable, SessionStates, AutomaticStates
<1> QED
  BY <1>1, <1>3, <1>4, RestFits, StateSteps DEF SenderInv, SenderTyped

LEMMA FailUntrustedKeeps == ASSUME SenderInv, NEW a \in Attachments, FailUntrusted(a) PROVE SenderInv'
<1> USE DEF FailUntrusted, Idle, mediumVars, In
<1>1. SetState(a, "FAILED_VALIDATION") /\ row[a].state # "NONE" /\ "FAILED_VALIDATION" \in RowStates \ {"NONE"}
  BY Known, Names DEF WorkerFits, AutomaticStates, SettledStates, FailedStates
<1>2. row'[a].state = "FAILED_VALIDATION" /\ row'[a].transfer = row[a].transfer
  BY <1>1, RowIs DEF SetState, SenderInv, SenderTyped, Rows
<1>3. worker' \in Resting
  BY WorkerNames, WorkerRests DEF RestingSteps
<1>4. RowFits(a)'
  BY <1>1, <1>2, Known, RowIs DEF WorkerFits, RowFits, Exists, Unfinished, Whole, Downloadable, SessionStates, AutomaticStates
<1> QED
  BY <1>1, <1>3, <1>4, RestFits, StateSteps DEF SenderInv, SenderTyped

LEMMA StepQueuedUploadKeeps == ASSUME SenderInv, NEW a \in Attachments, StepQueuedUpload(a) PROVE SenderInv'
<1> USE DEF StepQueuedUpload, Idle, mediumVars, In
<1>1. SetState(a, "UPLOADING") /\ row[a].state # "NONE" /\ "UPLOADING" \in RowStates \ {"NONE"}
  BY Known, Names DEF WorkerFits, AutomaticStates, SettledStates, FailedStates
<1>2. row'[a].state = "UPLOADING" /\ row'[a].transfer = row[a].transfer
  BY <1>1, RowIs DEF SetState, SenderInv, SenderTyped, Rows
<1>3. worker' \in Resting
  BY WorkerNames, WorkerRests DEF RestingSteps
<1>4. RowFits(a)'
  BY <1>1, <1>2, Known, RowIs DEF WorkerFits, RowFits, Exists, Unfinished, Whole, Downloadable, SessionStates, AutomaticStates
<1> QED
  BY <1>1, <1>3, <1>4, RestFits, StateSteps DEF SenderInv, SenderTyped

LEMMA RefuseUploadKeeps == ASSUME SenderInv, NEW a \in Attachments, RefuseUpload(a) PROVE SenderInv'
<1> USE DEF RefuseUpload, Idle, FailUpload, Rest, mediumVars, In
<1>1. SetState(a, "FAILED_UPLOAD") /\ row[a].state # "NONE" /\ "FAILED_UPLOAD" \in RowStates \ {"NONE"}
  BY Known, Names DEF WorkerFits, AutomaticStates, SettledStates, FailedStates
<1>2. row'[a].state = "FAILED_UPLOAD" /\ row'[a].transfer = row[a].transfer
  BY <1>1, RowIs DEF SetState, SenderInv, SenderTyped, Rows
<1>3. worker' \in Resting
  BY WorkerNames, WorkerRests DEF RestingSteps
<1>4. RowFits(a)'
  BY <1>1, <1>2, Known, RowIs DEF WorkerFits, RowFits, Exists, Unfinished, Whole, Downloadable, SessionStates, AutomaticStates
<1> QED
  BY <1>1, <1>3, <1>4, RestFits, StateSteps DEF SenderInv, SenderTyped

LEMMA UploadRejectedKeeps == ASSUME SenderInv, NEW a \in Attachments, UploadRejected(a) PROVE SenderInv'
<1> USE DEF UploadRejected, FailUpload, Rest, mediumVars, In
<1>1. SetState(a, "FAILED_UPLOAD") /\ row[a].state # "NONE" /\ "FAILED_UPLOAD" \in RowStates \ {"NONE"}
  BY Known, Names DEF WorkerFits, AutomaticStates, SettledStates, FailedStates
<1>2. row'[a].state = "FAILED_UPLOAD" /\ row'[a].transfer = row[a].transfer
  BY <1>1, RowIs DEF SetState, SenderInv, SenderTyped, Rows
<1>3. worker' \in Resting
  BY WorkerNames, WorkerRests DEF RestingSteps
<1>4. RowFits(a)'
  BY <1>1, <1>2, Known, RowIs DEF WorkerFits, RowFits, Exists, Unfinished, Whole, Downloadable, SessionStates, AutomaticStates
<1> QED
  BY <1>1, <1>3, <1>4, RestFits, StateSteps DEF SenderInv, SenderTyped

LEMMA FinishUploadKeeps == ASSUME SenderInv, NEW a \in Attachments, FinishUpload(a) PROVE SenderInv'
<1> USE DEF FinishUpload, Rest, mediumVars, In
<1>1. SetState(a, "READY_TO_SEND") /\ row[a].state # "NONE" /\ "READY_TO_SEND" \in RowStates \ {"NONE"}
  BY Known, Names DEF WorkerFits, AutomaticStates, SettledStates, FailedStates
<1>2. row'[a].state = "READY_TO_SEND" /\ row'[a].transfer = row[a].transfer
  BY <1>1, RowIs DEF SetState, SenderInv, SenderTyped, Rows
<1>3. worker' \in Resting
  BY WorkerNames, WorkerRests DEF RestingSteps
<1>4. RowFits(a)'
  BY <1>1, <1>2, Known, RowIs DEF WorkerFits, RowFits, Exists, Unfinished, Whole, Downloadable, SessionStates, AutomaticStates
<1> QED
  BY <1>1, <1>3, <1>4, RestFits, StateSteps DEF SenderInv, SenderTyped

LEMMA SaveSentKeeps == ASSUME SenderInv, NEW a \in Attachments, SaveSent(a) PROVE SenderInv'
<1> USE DEF SaveSent, Rest, mediumVars, In
<1>1. SetState(a, "SENT") /\ row[a].state # "NONE" /\ "SENT" \in RowStates \ {"NONE"}
  BY Known, Names DEF WorkerFits, AutomaticStates, SettledStates, FailedStates
<1>2. row'[a].state = "SENT" /\ row'[a].transfer = row[a].transfer
  BY <1>1, RowIs DEF SetState, SenderInv, SenderTyped, Rows
<1>3. worker' \in Resting
  BY WorkerNames, WorkerRests DEF RestingSteps
<1>4. RowFits(a)'
  BY <1>1, <1>2, Known, RowIs DEF WorkerFits, RowFits, Exists, Unfinished, Whole, Downloadable, SessionStates, AutomaticStates
<1> QED
  BY <1>1, <1>3, <1>4, RestFits, StateSteps DEF SenderInv, SenderTyped

LEMMA CancelRowKeeps == ASSUME SenderInv, NEW a \in Attachments, CancelRow(a) PROVE SenderInv'
<1> USE DEF CancelRow, Go, mediumVars, In
<1>1. SetState(a, "CANCELLED") /\ row[a].state # "NONE" /\ "CANCELLED" \in RowStates \ {"NONE"}
  BY Known, Names DEF WorkerFits, AutomaticStates, SettledStates, FailedStates
<1>2. row'[a].state = "CANCELLED" /\ row'[a].transfer = row[a].transfer
  BY <1>1, RowIs DEF SetState, SenderInv, SenderTyped, Rows
<1>3. worker' \in WorkingOn({a})
  BY WorkerNames
<1>4. RowFits(a)'
  BY <1>1, <1>2, Known, RowIs DEF WorkerFits, RowFits, Exists, Unfinished, Whole, Downloadable, SessionStates, AutomaticStates
<1>5. WorkerFits(a)'
  BY <1>2 DEF WorkerFits, At
<1> QED
  BY <1>1, <1>3, <1>4, <1>5, StateSteps DEF SenderInv, SenderTyped

LEMMA StepValidatingKeeps == ASSUME SenderInv, NEW a \in Attachments, StepValidating(a) PROVE SenderInv'
<1> USE DEF StepValidating, Idle, mediumVars, In
<1>1. PICK state \in {"ENCRYPTING", "FAILED_VALIDATION"} : SetState(a, state)
  OBVIOUS
<1>2. row'[a].state = state /\ row'[a].transfer = row[a].transfer
  BY <1>1, RowIs DEF SetState, SenderInv, SenderTyped, Rows
<1>3. worker' \in Resting
  BY WorkerRests DEF RestingSteps
<1>4. RowFits(a)'
  BY <1>2, Known, RowIs DEF RowFits, Exists, Unfinished, Whole, SessionStates
<1> QED
  BY <1>1, <1>3, <1>4, Names, RestFits, StateSteps
     DEF SenderInv, SenderTyped, AutomaticStates, SettledStates, FailedStates

LEMMA UploadInterruptedKeeps ==
    ASSUME SenderInv, NEW a \in Attachments, UploadInterrupted(a) PROVE SenderInv'
<1> USE DEF UploadInterrupted, Rest, mediumVars, In
<1>1. worker' \in Resting /\ row[a].state = "UPLOADING"
  BY Known, WorkerNames DEF WorkerFits, RestingSteps
<1>2. CASE UNCHANGED row
  <2>1. WorkerFits(a)'
    BY <1>1, RestFits
  <2>2. spool' \subseteq Attachments
    BY DEF SenderInv, SenderTyped
  <2> QED
    BY <1>1, <1>2, <2>1, <2>2, WorkSteps
<1>3. CASE SetState(a, "QUEUED_UPLOAD")
  <2>1. row'[a].state = "QUEUED_UPLOAD" /\ row'[a].transfer = row[a].transfer
    BY <1>1, <1>3, RowIs DEF SetState, SenderInv, SenderTyped, Rows
  <2>2. RowFits(a)'
    BY <1>1, <2>1, Known, RowIs DEF RowFits, Exists, Unfinished, SessionStates
  <2> QED
    BY <1>1, <1>3, <2>2, Names, RestFits, StateSteps DEF SenderInv, SenderTyped, AutomaticStates
<1> QED
  BY <1>2, <1>3

LEMMA BootStepKeeps == ASSUME SenderInv, NEW a \in Attachments, BootStep(a) PROVE SenderInv'
<1> USE DEF BootStep, mediumVars, In
<1>1. PICK state \in {"VALIDATING", "ENCRYPTING", "FAILED_VALIDATION"} :
         SetState(a, state) /\ row[a].state \in {"DRAFT", "VALIDATING"}
  OBVIOUS
<1>2. row'[a].state = state /\ row'[a].transfer = row[a].transfer
  BY <1>1, RowIs DEF SetState, SenderInv, SenderTyped, Rows
<1>3. worker' \in Resting
  BY WorkerRests DEF RestingSteps
<1>4. RowFits(a)'
  BY <1>1, <1>2, Known, RowIs DEF RowFits, Exists, Unfinished, Whole, SessionStates
<1> QED
  BY <1>1, <1>3, <1>4, Names, RestFits, StateSteps
     DEF SenderInv, SenderTyped, AutomaticStates, SettledStates, FailedStates

LEMMA CreateUploadKeeps == ASSUME SenderInv, NEW a \in Attachments, CreateUpload(a) PROVE SenderInv'
<1> USE DEF CreateUpload, Idle, Go, Created, rowVars, In
<1>1. [state |-> "staging", parts |-> 0] \in [state : ObjectStates, parts : 0 .. Parts]
  BY DEF ObjectStates
<1>2. relay'[row[a].transfer].state = "staging" /\ ~Exists(row[a].transfer)
  BY RowIs DEF SenderInv, SenderTyped, Objects
<1>3. worker' \in WorkingOn({a})
  BY WorkerNames
<1>4. RowFits(a)'
  BY <1>2, Known DEF RowFits, Unfinished, Exists
<1>5. WorkerFits(a)'
  BY <1>2 DEF WorkerFits, At, Exists
<1> QED
  BY <1>1, <1>2, <1>3, <1>4, <1>5, ObjectSteps DEF Whole, Exists

LEMMA LoseUploadKeeps == ASSUME SenderInv, NEW a \in Attachments, LoseUpload(a) PROVE SenderInv'
<1> USE DEF LoseUpload, Idle, Created, rowVars, In
<1>1. [state |-> "staging", parts |-> 0] \in [state : ObjectStates, parts : 0 .. Parts]
  BY DEF ObjectStates
<1>2. relay'[row[a].transfer].state = "staging" /\ ~Exists(row[a].transfer)
  BY RowIs DEF SenderInv, SenderTyped, Objects
<1>3. worker' \in Resting
  BY WorkerRests DEF RestingSteps
<1>4. RowFits(a)'
  BY <1>2, Known, SMTT(30) DEF RowFits, Unfinished, Exists
<1> QED
  BY <1>1, <1>2, <1>3, <1>4, RestFits, ObjectSteps DEF Whole, Exists

LEMMA UploadPartKeeps == ASSUME SenderInv, NEW a \in Attachments, UploadPart(a) PROVE SenderInv'
<1> USE DEF UploadPart, Rest, rowVars, In
<1> DEFINE object == [relay[row[a].transfer] EXCEPT !.parts = @ + 1]
<1>1. row[a].state = "UPLOADING" /\ secret[a].upload
  BY Known DEF WorkerFits
<1>2. /\ object \in [state : ObjectStates, parts : 0 .. Parts] /\ object.state = "staging"
      /\ relay[row[a].transfer].state = "staging"
  BY <1>1, RowIs DEF Writable
<1>3. relay' = [relay EXCEPT ![row[a].transfer] = object]
  BY <1>1, RowIs DEF PartStored, SenderInv, SenderTyped, Objects
<1>4. relay'[row[a].transfer] = object
  BY <1>1, <1>3, RowIs DEF SenderInv, SenderTyped, Objects
<1>5. worker' \in Resting \union WorkingOn({a}) /\ (worker' = worker \/ worker' \in Resting)
  BY WorkerNames DEF At, RestingSteps
<1>6. RowFits(a)'
  BY <1>1, <1>2, <1>4 DEF RowFits, Exists, SessionStates
<1>7. WorkerFits(a)'
  <2>1. CASE worker' = worker
    BY <1>1, <2>1 DEF WorkerFits, At
  <2>2. CASE worker' \in Resting
    BY <2>2, RestFits
  <2> QED
    BY <1>5, <2>1, <2>2
<1> QED
  BY <1>1, <1>2, <1>3, <1>4, <1>5, <1>6, <1>7, ObjectSteps DEF Whole

\* What a commit leaves behind at the Relay.
LEMMA CommitMakesWhole ==
    ASSUME SenderInv, NEW a \in Attachments, row[a].state # "NONE",
           relay[row[a].transfer].parts = Parts,
           relay' = Committed(row[a].transfer)
    PROVE  /\ relay' = [relay EXCEPT ![row[a].transfer] = [state |-> "committed", parts |-> Parts]]
           /\ relay'[row[a].transfer] = [state |-> "committed", parts |-> Parts]
           /\ [state |-> "committed", parts |-> Parts] \in [state : ObjectStates, parts : 0 .. Parts]
<1>1. relay[row[a].transfer] \in [state : ObjectStates, parts : {Parts}]
  BY RowIs
<1>2. [relay[row[a].transfer] EXCEPT !.state = "committed"] = [state |-> "committed", parts |-> Parts]
  BY <1>1
<1>3. row[a].transfer \in Transfers /\ relay \in Objects
  BY RowIs DEF SenderInv, SenderTyped
<1>4. relay' = [relay EXCEPT ![row[a].transfer] = [state |-> "committed", parts |-> Parts]]
  BY <1>2, <1>3 DEF Committed, Objects
<1> QED
  BY <1>3, <1>4 DEF Objects, ObjectStates

LEMMA CommitUploadKeeps == ASSUME SenderInv, NEW a \in Attachments, CommitUpload(a) PROVE SenderInv'
<1> USE DEF CommitUpload, Go, rowVars, In
<1>1. row[a].state = "UPLOADING" /\ secret[a].upload
  BY Known DEF WorkerFits
<1>2. /\ worker' \in WorkingOn({a})
      /\ relay'[row[a].transfer] = [state |-> "committed", parts |-> Parts]
  BY <1>1, WorkerNames, CommitMakesWhole
<1>3. RowFits(a)'
  BY <1>1, <1>2 DEF RowFits, Exists, SessionStates
<1>4. Whole(row[a].transfer)'
  BY <1>2 DEF Whole
<1>5. WorkerFits(a)'
  BY <1>1, <1>4 DEF WorkerFits, At
<1> QED
  BY <1>1, <1>2, <1>3, <1>4, <1>5, CommitMakesWhole, ObjectSteps

LEMMA LoseCommitKeeps == ASSUME SenderInv, NEW a \in Attachments, LoseCommit(a) PROVE SenderInv'
<1>0. /\ row' = row \/ row' = [row EXCEPT ![a].state = "QUEUED_UPLOAD"]
      /\ row \in Rows /\ "QUEUED_UPLOAD" \in RowStates
  BY Names DEF LoseCommit, SetState, SenderInv, SenderTyped, AutomaticStates
<1> USE DEF LoseCommit, Rest, In
<1>1. row[a].state = "UPLOADING" /\ secret[a].upload
  BY Known DEF WorkerFits
<1>2. worker' \in Resting
  BY WorkerNames DEF RestingSteps
<1>3. relay'[row[a].transfer] = [state |-> "committed", parts |-> Parts]
  BY <1>1, CommitMakesWhole
<1>4. relay' \in Objects /\ \A t \in Transfers \ {row[a].transfer} : relay'[t] = relay[t]
  BY <1>1, CommitMakesWhole, ZenonT(60) DEF SenderInv, SenderTyped, Objects
<1>5. /\ row' \in Rows /\ \A b \in Attachments \ {a} : row'[b] = row[b]
      /\ row'[a].state \in {"UPLOADING", "QUEUED_UPLOAD"} /\ row'[a].transfer = row[a].transfer
  <2>1. row[a].state = "UPLOADING"
    BY <1>1
  <2>2. CASE row' = row
    BY ONLY <1>0, <2>1, <2>2
  <2>3. CASE row' = [row EXCEPT ![a].state = "QUEUED_UPLOAD"]
    BY ONLY <1>0, <2>1, <2>3, a \in Attachments DEF Rows
  <2> QED
    BY ONLY <1>0, <2>2, <2>3
<1>6. RowFits(a)'
  BY <1>1, <1>3, <1>5 DEF RowFits, Exists, SessionStates
<1>7. SenderTyped'
  BY <1>2, <1>4, <1>5 DEF SenderInv, SenderTyped
<1>8. Whole(row[a].transfer)'
  BY <1>3, <1>5 DEF Whole
<1> QED
  BY <1>1, <1>2, <1>4, <1>5, <1>6, <1>7, <1>8, RestFits, RowSteps

LEMMA CancelRemoteKeeps == ASSUME SenderInv, NEW a \in Attachments, CancelRemote(a) PROVE SenderInv'
<1> USE DEF CancelRemote, Idle, Go, Rest, rowVars, In
<1> DEFINE object == [relay[row[a].transfer] EXCEPT !.state = "revoked"]
<1>1. row[a].state # "NONE" /\ row[a].state \notin {"SENT", "CANCELLED"}
  BY DEF AutomaticStates
<1>2. worker' \in Resting \/ worker' = [step |-> "revoked", job |-> a]
  BY WorkerNames DEF RestingSteps
<1>3. worker' \in Resting \union WorkingOn({a})
  BY <1>2, WorkerNames
<1>4. CASE secret[a].upload
  <2>1. object \in [state : ObjectStates, parts : 0 .. Parts] /\ object.state = "revoked"
    BY <1>1, RowIs DEF ObjectStates
  <2>2. relay' = [relay EXCEPT ![row[a].transfer] = object]
    BY <1>1, <1>4, RowIs DEF Revoked, SenderInv, SenderTyped, Objects
  <2>3. relay'[row[a].transfer] = object /\ object.parts = relay[row[a].transfer].parts
    BY <1>1, <2>2, RowIs DEF SenderInv, SenderTyped, Objects
  <2>4. Whole(row[a].transfer) => Whole(row[a].transfer)'
    BY <2>1, <2>3 DEF Whole
  <2>5. RowFits(a)'
    BY <1>1, <1>4, <2>1, <2>3, <2>4, Known DEF RowFits, Exists
  <2>6. WorkerFits(a)'
    BY <1>2, <2>1, <2>3, RestFits DEF WorkerFits, At, Downloadable
  <2> QED
    BY <1>1, <1>3, <2>1, <2>2, <2>4, <2>5, <2>6, ObjectSteps
<1>5. CASE ~secret[a].upload
  <2>1. worker' = [step |-> "revoked", job |-> a] /\ UNCHANGED relay
    BY <1>5
  <2>2. ~Downloadable(row[a].transfer)
    BY <1>1, <1>5, Known DEF RowFits, Unfinished, Downloadable
  <2>3. WorkerFits(a)'
    BY <2>1, <2>2 DEF WorkerFits, At, Downloadable
  <2> QED
    BY <1>1, <1>3, <2>1, <2>3, WorkSteps DEF SenderInv, SenderTyped
<1> QED
  BY <1>4, <1>5

LEMMA EncryptKeeps == ASSUME SenderInv, NEW a \in Attachments, Encrypt(a) PROVE SenderInv'
<1> USE DEF Encrypt, Idle, mediumVars, In
<1>1. row[a].state = "ENCRYPTING" /\ ~secret[a].upload
  BY Known DEF RowFits, SessionStates
<1>2. /\ row' \in Rows /\ \A b \in Attachments \ {a} : row'[b] = row[b]
      /\ row'[a].state = "QUEUED_UPLOAD" /\ row'[a].transfer = row[a].transfer
  BY Names DEF SenderInv, SenderTyped, Rows, AutomaticStates
<1>3. /\ secret' \in Secrets /\ \A b \in Attachments \ {a} : secret'[b] = secret[b]
      /\ ~secret'[a].upload
  BY <1>1, RowIs DEF SenderInv, SenderTyped, Secrets
<1>4. worker' \in Resting
  BY WorkerRests DEF RestingSteps
<1>5. RowFits(a)'
  BY <1>1, <1>2, <1>3, Known DEF RowFits, Unfinished
<1>6. SenderTyped'
  BY <1>2, <1>3, <1>4 DEF SenderInv, SenderTyped
<1> QED
  BY <1>1, <1>2, <1>3, <1>4, <1>5, <1>6, RestFits, RowSteps DEF Whole

LEMMA SaveUploadKeeps == ASSUME SenderInv, NEW a \in Attachments, SaveUpload(a) PROVE SenderInv'
<1> USE DEF SaveUpload, Go, mediumVars, In
<1>1. row[a].state = "UPLOADING" /\ Exists(row[a].transfer)
  BY Known DEF WorkerFits
<1>2. /\ secret' \in Secrets /\ \A b \in Attachments \ {a} : secret'[b] = secret[b]
      /\ secret'[a].upload
  BY DEF SenderInv, SenderTyped, Secrets
<1>3. worker' \in WorkingOn({a})
  BY WorkerNames
<1>4. RowFits(a)'
  BY <1>1, <1>2 DEF RowFits, SessionStates, Exists
<1>5. WorkerFits(a)'
  BY <1>1, <1>2 DEF WorkerFits, At
<1> QED
  BY <1>1, <1>2, <1>3, <1>4, <1>5, SecretSteps

LEMMA CancelForgetKeeps == ASSUME SenderInv, NEW a \in Attachments, CancelForget(a) PROVE SenderInv'
<1> USE DEF CancelForget, Rest, mediumVars, In
<1>1. row[a].state = "CANCELLED"
  BY Known DEF WorkerFits
<1>2. /\ secret' \in Secrets /\ \A b \in Attachments \ {a} : secret'[b] = secret[b]
      /\ ~secret'[a].upload
  BY DEF SenderInv, SenderTyped, Secrets, NoSecret
<1>3. worker' \in Resting
  BY WorkerNames DEF RestingSteps
<1>4. RowFits(a)'
  BY <1>1, <1>2, Known DEF RowFits, Downloadable
<1> QED
  BY <1>1, <1>2, <1>3, <1>4, RestFits, SecretSteps

LEMMA WorkKeeps ==
    ASSUME SenderInv, NEW a \in Attachments,
           ResumeUpload(a) \/ SendOffer(a) \/ SendOfferUnconfirmed(a) \/ CancelUnlink(a)
    PROVE  SenderInv'
<1> USE DEF rowVars, mediumVars, In, Go
<1>1. CASE ResumeUpload(a)
  <2>1. row[a].state = "UPLOADING" /\ worker' \in WorkingOn({a})
    BY <1>1, WorkerNames DEF ResumeUpload
  <2>2. WorkerFits(a)'
    BY <1>1 DEF ResumeUpload, WorkerFits, At
  <2> QED
    BY <1>1, <2>1, <2>2, WorkSteps DEF ResumeUpload, SenderInv, SenderTyped
<1>2. CASE SendOffer(a)
  <2>1. row[a].state = "READY_TO_SEND" /\ Whole(row[a].transfer) /\ worker' \in WorkingOn({a})
    BY <1>2, Known, WorkerNames DEF SendOffer, RowFits
  <2>2. WorkerFits(a)'
    BY <1>2 DEF SendOffer, WorkerFits, At
  <2> QED
    BY <1>2, <2>1, <2>2, WorkSteps DEF SendOffer, SenderInv, SenderTyped
<1>3. CASE SendOfferUnconfirmed(a)
  <2>1. row[a].state = "READY_TO_SEND" /\ Whole(row[a].transfer) /\ worker' \in Resting
    BY <1>3, Known, WorkerRests DEF SendOfferUnconfirmed, RowFits, Idle, RestingSteps
  <2> QED
    BY <1>3, <2>1, RestFits, WorkSteps DEF SendOfferUnconfirmed, SenderInv, SenderTyped
<1>4. CASE CancelUnlink(a)
  <2>1. row[a].state \in AutomaticStates /\ ~Downloadable(row[a].transfer)
    BY <1>4, Known DEF CancelUnlink, WorkerFits
  <2>2. worker' \in Resting \/ worker' = [step |-> "unlinked", job |-> a]
    BY <1>4, WorkerNames DEF CancelUnlink, Rest, RestingSteps
  <2>3. worker' \in Resting \union WorkingOn({a})
    BY <2>2, WorkerNames
  <2>4. WorkerFits(a)'
    BY <1>4, <2>1, <2>2, RestFits DEF CancelUnlink, WorkerFits, At, Downloadable
  <2> QED
    BY <1>4, <2>1, <2>3, <2>4, WorkSteps DEF CancelUnlink, SenderInv, SenderTyped, AutomaticStates
<1> QED
  BY <1>1, <1>2, <1>3, <1>4

\* A row takes a transfer id that nobody has used.
LEMMA FreshIdKeeps ==
    ASSUME SenderInv, NEW a \in Attachments, FreshTransfers # {},
           row' \in Rows, \A b \in Attachments \ {a} : row'[b] = row[b],
           row'[a].transfer = NextTransfer,
           row'[a].state \notin {"NONE"} \union SessionStates,
           secret' \in Secrets, \A b \in Attachments \ {a} : secret'[b] = secret[b],
           ~secret'[a].upload,
           row[a].transfer \in tombs' \union {NoTransfer},
           tombs' \subseteq tombs \union ({row[a].transfer} \ {NoTransfer}), tombs \subseteq tombs',
           worker \in Resting,
           order' \in Seq(Attachments),
           spool' \subseteq Attachments,
           UNCHANGED <<worker, sCrashes, relay, offered>>
    PROVE  SenderInv'
<1>1. /\ NextTransfer \in Transfers \ tombs
      /\ \A b \in Attachments : row[b].transfer # NextTransfer
  BY NextIsFresh DEF FreshTransfers, UsedTransfers
<1>2. NextTransfer # NoTransfer /\ NextTransfer \notin tombs'
  BY <1>1 DEF NoTransfer, Transfers
<1>3. ~Exists(NextTransfer)
  BY <1>1 DEF SenderInv, IdsAreOwned
<1>4. SenderTyped'
  BY DEF SenderInv, SenderTyped, Rows
<1>5. IdsAreOwned'
  <2>1. \A b \in Attachments : row'[b].transfer = NoTransfer <=> row'[b].state = "NONE"
    BY <1>2 DEF SenderInv, IdsAreOwned
  <2>2. ASSUME NEW b \in Attachments, NEW c \in Attachments,
               row'[b].transfer = row'[c].transfer, row'[b].transfer # NoTransfer
        PROVE  b = c
    BY <1>1, <2>2 DEF SenderInv, IdsAreOwned
  <2>3. ASSUME NEW b \in Attachments PROVE row'[b].transfer \notin tombs'
    <3>1. CASE b = a
      BY <1>2, <3>1
    <3>2. CASE b # a
      BY <3>2 DEF SenderInv, IdsAreOwned
    <3> QED
      BY <3>1, <3>2
  <2>4. ASSUME NEW t \in Transfers, Exists(t)'
        PROVE  t \in tombs' \/ \E b \in Attachments : row'[b].transfer = t
    <3>1. CASE t \in tombs
      BY <3>1
    <3>2. CASE \E b \in Attachments : row[b].transfer = t
      BY <3>2 DEF NoTransfer, Transfers
    <3> QED
      BY <2>4, <3>1, <3>2 DEF SenderInv, IdsAreOwned, Exists
  <2> QED
    BY <2>1, <2>2, <2>3, <2>4 DEF IdsAreOwned
<1>6. RowFits(a)' /\ WorkerFits(a)'
  BY <1>3, RestFits DEF RowFits, SessionStates, Exists, Unfinished
<1>7. ASSUME NEW b \in Attachments \ {a} PROVE RowFits(b)' /\ WorkerFits(b)'
  BY Known, RestFits DEF RowFits, Exists, Unfinished, Whole, Downloadable
<1>8. \A t \in offered' : Whole(t)'
  BY DEF SenderInv, Whole
<1> QED
  BY <1>4, <1>5, <1>6, <1>7, <1>8 DEF SenderInv

LEMMA CreateDraftKeeps == ASSUME SenderInv, NEW a \in Attachments, CreateDraft(a) PROVE SenderInv'
<1> USE DEF CreateDraft, Idle, mediumVars, In
<1>1. row[a].transfer = NoTransfer /\ ~secret[a].upload
  BY Known DEF SenderInv, IdsAreOwned, RowFits, SessionStates
<1>2. /\ row' \in Rows /\ \A b \in Attachments \ {a} : row'[b] = row[b]
      /\ row'[a].transfer = NextTransfer /\ row'[a].state = "DRAFT"
  BY Names, NextIsFresh DEF SenderInv, SenderTyped, Rows, AutomaticStates, FreshTransfers
<1>3. order' \in Seq(Attachments) /\ spool' \subseteq Attachments
  BY DEF SenderInv, SenderTyped
<1>4. worker \in Resting
  BY WorkerRests DEF RestingSteps
<1> QED
  BY <1>1, <1>2, <1>3, <1>4, FreshIdKeeps DEF SenderInv, SenderTyped, SessionStates

LEMMA AbandonTransferKeeps ==
    ASSUME SenderInv, NEW a \in Attachments, AbandonTransfer(a) PROVE SenderInv'
<1> USE DEF AbandonTransfer, Idle, mediumVars, In
<1>1. row[a].transfer \in Transfers /\ row[a].transfer # NoTransfer
  BY RowIs DEF Transfers, NoTransfer
<1>2. /\ row' \in Rows /\ \A b \in Attachments \ {a} : row'[b] = row[b]
      /\ row'[a].transfer = NextTransfer /\ row'[a].state = "ENCRYPTING"
  BY Names, NextIsFresh DEF SenderInv, SenderTyped, Rows, AutomaticStates, FreshTransfers
<1>3. /\ secret' \in Secrets /\ \A b \in Attachments \ {a} : secret'[b] = secret[b]
      /\ ~secret'[a].upload
  BY DEF SenderInv, SenderTyped, Secrets, NoSecret
<1>4. worker \in Resting
  BY WorkerRests DEF RestingSteps
<1> QED
  BY <1>1, <1>2, <1>3, <1>4, FreshIdKeeps DEF SenderInv, SenderTyped, SessionStates

LEMMA ExpireKeeps ==
    ASSUME SenderInv, NEW t \in Transfers, Expire(t), UNCHANGED senderVars PROVE SenderInv'
<1> USE DEF Expire, senderVars
<1> DEFINE gone == IF relay[t].state = "staging" THEN "lapsed" ELSE "expired"
<1>1. /\ relay' = [relay EXCEPT ![t].state = gone] /\ relay' \in Objects
      /\ \A u \in Transfers : relay'[u].parts = relay[u].parts
      /\ \A u \in Transfers \ {t} : relay'[u] = relay[u]
      /\ relay'[t].state = gone
  BY DEF SenderInv, SenderTyped, Objects, ObjectStates
<1>2. \A u \in Transfers :
         /\ Whole(u) => Whole(u)'
         /\ Exists(u) <=> Exists(u)'
         /\ Unfinished(u) => Unfinished(u)'
         /\ Downloadable(u)' => Downloadable(u)
  BY <1>1 DEF Whole, Exists, Unfinished, Downloadable
<1>3. SenderTyped'
  BY <1>1 DEF SenderInv, SenderTyped
<1>4. IdsAreOwned'
  BY <1>2 DEF SenderInv, IdsAreOwned
<1>5. ASSUME NEW a \in Attachments PROVE RowFits(a)' /\ WorkerFits(a)'
  <2>1. CASE row[a].state = "NONE"
    BY <2>1, Known DEF RowFits, WorkerFits, At, In, SessionStates, AutomaticStates
  <2>2. CASE row[a].state # "NONE"
    <3>1. row[a].transfer \in Transfers
      BY <2>2, RowIs
    <3>2. RowFits(a)'
      BY <1>2, <3>1, Known DEF RowFits, Exists, Unfinished, Whole, Downloadable
    <3>3. WorkerFits(a)'
      BY <1>2, <3>1, Known DEF WorkerFits, At, In, Exists, Whole, Downloadable
    <3> QED
      BY <3>2, <3>3
  <2> QED
    BY <2>1, <2>2
<1>6. \A u \in offered' : Whole(u)'
  BY <1>2 DEF SenderInv, SenderTyped
<1> QED
  BY <1>3, <1>4, <1>5, <1>6 DEF SenderInv

\* The worker stops, or starts: nothing else changes.
LEMMA PausesKeep ==
    ASSUME SenderInv, worker' \in Resting, sCrashes' \in 0 .. SenderCrashes,
           UNCHANGED <<rowVars, relay, offered>>
    PROVE  SenderInv'
<1>1. SenderTyped' /\ IdsAreOwned'
  BY DEF SenderInv, SenderTyped, IdsAreOwned, Exists, rowVars
<1>2. ASSUME NEW a \in Attachments PROVE RowFits(a)' /\ WorkerFits(a)'
  BY Known, RestFits DEF RowFits, Exists, Unfinished, Whole, Downloadable, rowVars
<1> QED
  BY <1>1, <1>2 DEF SenderInv, Whole

LEMMA SenderStep == SenderInv /\ SenderNext => SenderInv'
<1> SUFFICES ASSUME SenderInv, SenderNext PROVE SenderInv'
  OBVIOUS
<1>1. ASSUME NEW a \in Attachments, RunStep(a) PROVE SenderInv'
  BY <1>1, StepDraftKeeps, StepValidatingKeeps, EncryptKeeps, FailUntrustedKeeps,
     StepQueuedUploadKeeps, CreateUploadKeeps, LoseUploadKeeps, RefuseUploadKeeps,
     AbandonTransferKeeps, WorkKeeps DEF RunStep
<1>2. ASSUME NEW a \in Attachments, FinishStep(a) PROVE SenderInv'
  BY <1>2, SaveUploadKeeps, UploadPartKeeps, CommitUploadKeeps, LoseCommitKeeps,
     UploadInterruptedKeeps, UploadRejectedKeeps, FinishUploadKeeps, SaveSentKeeps DEF FinishStep
<1>3. ASSUME NEW a \in Attachments, Cancel(a) PROVE SenderInv'
  BY <1>3, CancelRemoteKeeps, WorkKeeps, CancelRowKeeps, CancelForgetKeeps DEF Cancel
<1>4. ASSUME NEW a \in Attachments, BootRaises(a) PROVE SenderInv'
  BY <1>4, WorkerNames, PausesKeep DEF BootRaises, RestingSteps, mediumVars, SenderInv, SenderTyped
<1>5. CASE SenderCrash
  <2>1. worker' \in Resting /\ sCrashes' \in 0 .. SenderCrashes
    BY <1>5, WorkerNames DEF SenderCrash, RestingSteps, SenderInv, SenderTyped
  <2> QED
    BY <1>5, <2>1, PausesKeep DEF SenderCrash, mediumVars
<1>6. CASE BootDone
  BY <1>6, WorkerNames, PausesKeep DEF BootDone, Rest, RestingSteps, mediumVars, SenderInv, SenderTyped
<1> QED
  BY <1>1, <1>2, <1>3, <1>4, <1>5, <1>6, CreateDraftKeeps, BootStepKeeps DEF SenderNext

-----------------------------------------------------------------------------
(* The receiver                                                            *)

VerifiedStates == {"WAITING_PROVIDER", "WAITING_NETWORK", "WAITING_CONSENT", "DOWNLOADING", "AVAILABLE"}

ReaderRested == [step : {"idle", "booting"}, job : {0}, ack : {"none"}]

ReaderOn(ts) ==
    [step : {"routing", "fetched", "saved", "completed"}, job : ts, ack : {"none"}]
        \union [step : {"answered"}, job : ts, ack : AckKinds]

ReceiverTyped ==
    /\ inbox \in [Transfers -> InboxStates]
    /\ parked \subseteq Transfers
    /\ copy \in [Transfers -> {"none", "intact", "altered"}]
    /\ keyKnown \in BOOLEAN
    /\ provider \in BOOLEAN
    /\ replies \in [Transfers -> [AckKinds -> ReplyStates]]
    /\ files \in [Transfers -> 0 .. 2]
    /\ reader \in ReaderRested \union ReaderOn(Transfers)
    /\ rCrashes \in 0 .. ReceiverCrashes
    /\ acked \subseteq Transfers

\* A row that is past the verification was made from a genuine OFFER; exactly
\* the available ones have an ACK of the download, and they have the file.
InboxFits(t) ==
    /\ inbox[t] # "NONE" => copy[t] # "none"
    /\ inbox[t] \in VerifiedStates => copy[t] = "intact"
    /\ inbox[t] = "OFFER_RECEIVED" /\ t \notin parked => copy[t] = "intact"
    /\ inbox[t] = "AVAILABLE" => files[t] > 0
    /\ inbox[t] = "AVAILABLE" <=> replies[t]["downloaded"] # "none"
    /\ t \in acked => inbox[t] = "AVAILABLE"

\* What the worker is in the middle of fits the row it works for.
ReaderFits(t) ==
    /\ Reading("routing", t) => inbox[t] = "OFFER_RECEIVED"
    /\ Reading("fetched", t) => inbox[t] = "DOWNLOADING"
    /\ Reading("saved", t) \/ Reading("completed", t) => inbox[t] = "DOWNLOADING" /\ files[t] > 0
    /\ Reading("answered", t) => replies[t][reader.ack] # "none"

ReceiverInv ==
    /\ ReceiverTyped
    /\ \A t \in Transfers : InboxFits(t) /\ ReaderFits(t)

LEMMA ReceiverStarts == MediumInit /\ ReceiverInit => ReceiverInv
  BY DEF MediumInit, ReceiverInit, ReceiverInv, ReceiverTyped, InboxFits, ReaderFits, Reading,
         ReaderRested, InboxStates, ReplyStates, VerifiedStates, AckKinds

LEMMA InboxNames ==
    VerifiedStates \union WaitingStates \union FinalStates \union {"NONE", "OFFER_RECEIVED"}
        \subseteq InboxStates
  BY DEF VerifiedStates, WaitingStates, FinalStates, InboxStates

LEMMA ReaderNames ==
    ASSUME NEW t \in Transfers
    PROVE  /\ [step |-> "idle", job |-> 0, ack |-> "none"] \in ReaderRested
           /\ [step |-> "booting", job |-> 0, ack |-> "none"] \in ReaderRested
           /\ \A step \in {"routing", "fetched", "saved", "completed"} :
                 [step |-> step, job |-> t, ack |-> "none"] \in ReaderOn({t})
           /\ \A k \in AckKinds : [step |-> "answered", job |-> t, ack |-> k] \in ReaderOn({t})
           /\ ReaderOn({t}) \subseteq ReaderOn(Transfers)
  BY DEF ReaderRested, ReaderOn

LEMMA InboxKnown == ASSUME ReceiverInv, NEW t \in Transfers PROVE InboxFits(t) /\ ReaderFits(t)
  BY DEF ReceiverInv

LEMMA ReaderRestFits ==
    ASSUME NEW t \in Transfers, reader'.step \in {"idle", "booting"} PROVE ReaderFits(t)'
  BY DEF ReaderFits, Reading

\* A step for the row of one transfer.
LEMMA InboxSteps ==
    ASSUME ReceiverInv, NEW t \in Transfers,
           ReceiverTyped',
           \A u \in Transfers \ {t} : /\ inbox'[u] = inbox[u] /\ copy'[u] = copy[u]
                                      /\ replies'[u] = replies[u] /\ files'[u] = files[u]
                                      /\ u \in parked' <=> u \in parked
                                      /\ u \in acked' => u \in acked,
           reader'.step \in {"idle", "booting"} \/ reader'.job = t,
           InboxFits(t)', ReaderFits(t)'
    PROVE  ReceiverInv'
<1>1. ASSUME NEW u \in Transfers \ {t} PROVE InboxFits(u)' /\ ReaderFits(u)'
  BY InboxKnown DEF InboxFits, ReaderFits, Reading
<1> QED
  BY <1>1 DEF ReceiverInv

\* A step in which a row changes its state only, and one in which only what is
\* done for it changes.
LEMMA InboxStateSteps ==
    ASSUME ReceiverInv, NEW t \in Transfers, NEW state \in InboxStates,
           SetInbox(t, state), ReaderIdle,
           UNCHANGED <<parked, copy, replies, files, keyKnown, provider, reader, rCrashes, acked>>,
           inbox[t] \notin {"NONE", "AVAILABLE"}, state \notin {"NONE", "OFFER_RECEIVED", "AVAILABLE"},
           state \in VerifiedStates => inbox[t] \in VerifiedStates
    PROVE  ReceiverInv'
<1>1. ReceiverTyped' /\ inbox'[t] = state /\ \A u \in Transfers \ {t} : inbox'[u] = inbox[u]
  BY DEF ReceiverInv, ReceiverTyped, SetInbox
<1>2. InboxFits(t)'
  BY <1>1, InboxKnown DEF InboxFits
<1> QED
  BY <1>1, <1>2, ReaderRestFits, InboxSteps DEF ReaderIdle

LEMMA ReadingSteps ==
    ASSUME ReceiverInv, NEW t \in Transfers,
           UNCHANGED <<inboxVars, keyKnown, provider, rCrashes, acked>>,
           reader' \in ReaderRested \union ReaderOn({t}),
           ReaderFits(t)'
    PROVE  ReceiverInv'
<1>1. ReceiverTyped' /\ InboxFits(t)'
  BY InboxKnown, ReaderNames DEF ReceiverInv, ReceiverTyped, inboxVars, InboxFits
<1>2. reader'.step \in {"idle", "booting"} \/ reader'.job = t
  BY DEF ReaderRested, ReaderOn
<1> QED
  BY <1>1, <1>2, InboxSteps DEF inboxVars

\* Queueing an ACK leaves the other ACKs as they were.
LEMMA QueuedIs ==
    ASSUME ReceiverInv, NEW t \in Transfers, NEW k \in AckKinds
    PROVE  /\ Queued(replies, t, k) \in [Transfers -> [AckKinds -> ReplyStates]]
           /\ \A u \in Transfers \ {t} : Queued(replies, t, k)[u] = replies[u]
           /\ Queued(replies, t, k)[t][k] # "none"
           /\ \A j \in AckKinds \ {k} : Queued(replies, t, k)[t][j] = replies[t][j]
<1>1. "PENDING" \in ReplyStates /\ replies \in [Transfers -> [AckKinds -> ReplyStates]]
  BY DEF ReplyStates, ReceiverInv, ReceiverTyped
<1>2. CASE replies[t][k] = "none"
  <2>1. Queued(replies, t, k) = [replies EXCEPT ![t] = [@ EXCEPT ![k] = "PENDING"]]
    BY <1>1, <1>2 DEF Queued
  <2> QED
    BY <1>1, <2>1
<1>3. CASE replies[t][k] # "none"
  BY <1>1, <1>3 DEF Queued
<1> QED
  BY <1>2, <1>3

LEMMA Acks == "received" \in AckKinds /\ "unknown" \in AckKinds /\ "downloaded" \in AckKinds
  BY DEF AckKinds

LEMMA RecordOfferKeeps ==
    ASSUME ReceiverInv, NEW t \in Transfers, NEW condition \in {"intact", "altered"},
           RecordOffer(t, condition)
    PROVE  ReceiverInv'
<1> USE DEF RecordOffer, SetInbox, Continue, mediumVars
<1>1. /\ inbox' \in [Transfers -> InboxStates] /\ inbox'[t] = "OFFER_RECEIVED"
      /\ \A u \in Transfers \ {t} : inbox'[u] = inbox[u]
  BY InboxNames DEF ReceiverInv, ReceiverTyped
<1>2. /\ copy' \in [Transfers -> {"none", "intact", "altered"}] /\ copy'[t] = condition
      /\ \A u \in Transfers \ {t} : copy'[u] = copy[u]
  BY DEF ReceiverInv, ReceiverTyped
<1>3. /\ replies' \in [Transfers -> [AckKinds -> ReplyStates]]
      /\ \A u \in Transfers \ {t} : replies'[u] = replies[u]
      /\ replies'[t]["downloaded"] = replies[t]["downloaded"]
  BY QueuedIs, Acks, ZenonT(60)
<1>4. /\ parked' \subseteq Transfers /\ \A u \in Transfers \ {t} : u \in parked' <=> u \in parked
      /\ ~keyKnown => t \in parked'
  BY DEF ReceiverInv, ReceiverTyped
<1>5. ReceiverTyped'
  BY <1>1, <1>2, <1>3, <1>4, ReaderNames DEF ReceiverInv, ReceiverTyped
<1>6. InboxFits(t)'
  BY <1>1, <1>2, <1>3, <1>4, InboxKnown DEF InboxFits, VerifiedStates, ReceiverInv, ReceiverTyped
<1>7. ReaderFits(t)'
  BY <1>1 DEF ReaderFits, Reading
<1> QED
  BY <1>1, <1>2, <1>3, <1>4, <1>5, <1>6, <1>7, InboxSteps

LEMMA WaitsVerified ==
    ASSUME NEW network \in BOOLEAN
    PROVE  WaitsIn(network) \in {"WAITING_PROVIDER", "WAITING_CONSENT", "WAITING_NETWORK"}
  BY DEF WaitsIn

LEMMA RouteOfferKeeps == ASSUME ReceiverInv, NEW t \in Transfers, RouteOffer(t) PROVE ReceiverInv'
<1> USE DEF RouteOffer, SetInbox, ReaderRests, mediumVars
<1>1. PICK network \in BOOLEAN :
         LET state == IF t \in parked THEN "WAITING_KEY" ELSE WaitsIn(network) IN
         /\ SetInbox(t, state)
         /\ replies' = IF state = "WAITING_PROVIDER" THEN Queued(replies, t, "unknown") ELSE replies
  OBVIOUS
<1> DEFINE state == IF t \in parked THEN "WAITING_KEY" ELSE WaitsIn(network)
<1>2. /\ state \in {"WAITING_KEY", "WAITING_PROVIDER", "WAITING_CONSENT", "WAITING_NETWORK"}
      /\ state \in InboxStates /\ (state # "WAITING_KEY" => t \notin parked)
  BY WaitsVerified, InboxNames DEF WaitingStates, VerifiedStates
<1>3. /\ inbox' \in [Transfers -> InboxStates] /\ inbox'[t] = state
      /\ \A u \in Transfers \ {t} : inbox'[u] = inbox[u]
  BY <1>1, <1>2 DEF ReceiverInv, ReceiverTyped
<1>4. /\ replies' \in [Transfers -> [AckKinds -> ReplyStates]]
      /\ \A u \in Transfers \ {t} : replies'[u] = replies[u]
      /\ replies'[t]["downloaded"] = replies[t]["downloaded"]
  BY <1>1, QueuedIs, Acks DEF ReceiverInv, ReceiverTyped
<1>5. ReceiverTyped'
  BY <1>3, <1>4, ReaderNames DEF ReceiverInv, ReceiverTyped
<1>6. inbox[t] = "OFFER_RECEIVED"
  BY InboxKnown DEF ReaderFits
<1>7. InboxFits(t)'
  <2>1. inbox'[t] # "AVAILABLE" /\ (inbox'[t] \in VerifiedStates => t \notin parked)
    BY <1>2, <1>3 DEF VerifiedStates
  <2> QED
    BY <1>2, <1>3, <1>4, <1>6, <2>1, InboxKnown DEF InboxFits
<1> QED
  BY <1>3, <1>4, <1>5, <1>7, ReaderRestFits, InboxSteps

\* What a waiting row becomes.
LEMMA AdvancedIs ==
    ASSUME ReceiverInv, NEW t \in Transfers, inbox[t] \in WaitingStates, NEW network \in BOOLEAN
    PROVE  /\ Advanced(t, network) \in WaitingStates \union {"WAITING_CONSENT", "FAILED"}
           /\ Advanced(t, network) \in VerifiedStates => copy[t] = "intact"
<1>1. copy[t] \in {"intact", "altered"} /\ (inbox[t] # "WAITING_KEY" => copy[t] = "intact")
  BY InboxKnown DEF InboxFits, WaitingStates, VerifiedStates, ReceiverInv, ReceiverTyped
<1> QED
  BY <1>1, WaitsVerified DEF Advanced, WaitingStates, VerifiedStates

LEMMA AdvanceKeeps ==
    ASSUME ReceiverInv, NEW ts \in SUBSET Transfers, \A t \in ts : inbox[t] \in WaitingStates,
           NEW network \in BOOLEAN, AdvanceAll(ts, network),
           reader.step \in {"idle", "booting"},
           reader' \in ReaderRested,
           UNCHANGED <<keyKnown, provider, rCrashes, acked>>
    PROVE  ReceiverInv'
<1> USE DEF AdvanceAll
<1>1. ASSUME NEW t \in ts
      PROVE  /\ inbox'[t] = Advanced(t, network) /\ inbox'[t] \in InboxStates
             /\ inbox'[t] \in WaitingStates \union {"WAITING_CONSENT", "FAILED"}
             /\ inbox'[t] \in VerifiedStates => copy[t] = "intact"
  BY AdvancedIs, InboxNames DEF VerifiedStates, FinalStates
<1>2. \A t \in Transfers \ ts : inbox'[t] = inbox[t] /\ replies'[t] = replies[t]
                                  /\ (t \in parked' <=> t \in parked)
  BY DEF ReceiverInv, ReceiverTyped
<1>3. ASSUME NEW t \in Transfers
      PROVE  /\ replies'[t] \in [AckKinds -> ReplyStates]
             /\ replies'[t]["downloaded"] = replies[t]["downloaded"]
  BY QueuedIs, Acks DEF ReceiverInv, ReceiverTyped
<1>4. inbox' \in [Transfers -> InboxStates]
  BY <1>1, <1>2 DEF ReceiverInv, ReceiverTyped
<1>5. replies' \in [Transfers -> [AckKinds -> ReplyStates]]
  BY <1>3
<1>6. ReceiverTyped'
  BY <1>4, <1>5 DEF ReceiverInv, ReceiverTyped
<1>7. ASSUME NEW t \in ts PROVE InboxFits(t)'
  <2>1. t \in Transfers /\ inbox[t] # "NONE" /\ inbox[t] # "AVAILABLE"
    BY DEF WaitingStates
  <2>2. inbox'[t] # "AVAILABLE" /\ inbox'[t] # "OFFER_RECEIVED"
    BY <1>1 DEF WaitingStates
  <2> QED
    BY <1>1, <1>3, <2>1, <2>2, InboxKnown DEF InboxFits
<1>8. ASSUME NEW t \in Transfers \ ts PROVE InboxFits(t)'
  BY <1>2, InboxKnown DEF InboxFits
<1>9. ASSUME NEW t \in Transfers PROVE ReaderFits(t)'
  BY ReaderRestFits DEF ReaderRested
<1> QED
  BY <1>6, <1>7, <1>8, <1>9 DEF ReceiverInv

LEMMA DownloadKeeps == ASSUME ReceiverInv, NEW t \in Transfers, Download(t) PROVE ReceiverInv'
<1> USE DEF mediumVars, inboxVars, Continue, ReaderRests
<1>1. CASE Fetch(t)
  <2>1. ReaderFits(t)'
    BY <1>1 DEF Fetch, ReaderFits, Reading
  <2> QED
    BY <1>1, <2>1, ReaderNames, ReadingSteps DEF Fetch
<1>2. CASE FetchInterrupted(t)
  BY <1>2, InboxStateSteps, InboxNames DEF FetchInterrupted, WaitingStates, VerifiedStates
<1>3. CASE FetchFails(t)
  BY <1>3, InboxStateSteps, InboxNames DEF FetchFails, FinalStates, VerifiedStates
<1>4. CASE SaveFile(t)
  <2>1. inbox[t] = "DOWNLOADING"
    BY <1>4, InboxKnown DEF SaveFile, ReaderFits
  <2>2. /\ files' \in [Transfers -> 0 .. 2] /\ files'[t] > 0
        /\ \A u \in Transfers \ {t} : files'[u] = files[u]
    BY <1>4 DEF SaveFile, ReceiverInv, ReceiverTyped
  <2>3. ReceiverTyped'
    BY <1>4, <2>2, ReaderNames DEF SaveFile, ReceiverInv, ReceiverTyped
  <2>4. InboxFits(t)' /\ ReaderFits(t)'
    BY <1>4, <2>1, <2>2, InboxKnown DEF SaveFile, InboxFits, ReaderFits, Reading
  <2> QED
    BY <1>4, <2>2, <2>3, <2>4, InboxSteps DEF SaveFile
<1>5. CASE Complete(t)
  <2>1. ReaderFits(t)'
    BY <1>5, InboxKnown DEF Complete, ReaderFits, Reading
  <2> QED
    BY <1>5, <2>1, ReaderNames, ReadingSteps DEF Complete
<1>6. CASE CompleteRaises(t)
  BY <1>6, ReaderNames, ReaderRestFits, ReadingSteps DEF CompleteRaises
<1>7. CASE FinishDownload(t)
  <2>1. inbox[t] = "DOWNLOADING" /\ files[t] > 0
    BY <1>7, InboxKnown DEF FinishDownload, ReaderFits
  <2>2. /\ inbox' \in [Transfers -> InboxStates] /\ inbox'[t] = "AVAILABLE"
        /\ \A u \in Transfers \ {t} : inbox'[u] = inbox[u]
    BY <1>7, InboxNames DEF FinishDownload, SetInbox, FinalStates, ReceiverInv, ReceiverTyped
  <2>3. /\ replies' \in [Transfers -> [AckKinds -> ReplyStates]]
        /\ \A u \in Transfers \ {t} : replies'[u] = replies[u]
        /\ replies'[t]["downloaded"] # "none"
    BY <1>7, QueuedIs, Acks DEF FinishDownload
  <2>4. ReceiverTyped'
    BY <1>7, <2>2, <2>3, ReaderNames DEF FinishDownload, ReceiverInv, ReceiverTyped
  <2>5. InboxFits(t)'
    BY <1>7, <2>1, <2>2, <2>3, InboxKnown DEF FinishDownload, InboxFits, VerifiedStates
  <2> QED
    BY <1>7, <2>2, <2>3, <2>4, <2>5, ReaderRestFits, InboxSteps DEF FinishDownload
<1> QED
  BY <1>1, <1>2, <1>3, <1>4, <1>5, <1>6, <1>7 DEF Download

LEMMA AnswerKeeps == ASSUME ReceiverInv, NEW t \in Transfers, Answer(t) PROVE ReceiverInv'
<1> USE DEF mediumVars, inboxVars, ReaderRests
<1>1. ASSUME NEW k \in AckKinds, SendAck(t, k) \/ SendAckUnconfirmed(t, k) PROVE ReceiverInv'
  <2>1. replies[t][k] # "none" /\ acked' = AckSent(t, k)
    BY <1>1 DEF SendAck, SendAckUnconfirmed
  <2>2. /\ acked' \subseteq Transfers /\ \A u \in Transfers \ {t} : u \in acked' => u \in acked
        /\ t \in acked' => t \in acked \/ k = "downloaded"
    BY <2>1 DEF AckSent, ReceiverInv, ReceiverTyped
  <2>3. reader' \in ReaderRested \union ReaderOn({t}) /\ UNCHANGED <<inboxVars, keyKnown, provider, rCrashes>>
    BY <1>1, ReaderNames DEF SendAck, SendAckUnconfirmed, ReaderIdle, ReceiverInv, ReceiverTyped, ReaderRested, ReaderOn
  <2>4. ReceiverTyped'
    BY <2>2, <2>3, ReaderNames DEF ReceiverInv, ReceiverTyped
  <2>5. InboxFits(t)'
    BY <2>1, <2>2, <2>3, InboxKnown DEF InboxFits
  <2>6. ReaderFits(t)'
    BY <1>1, <2>1 DEF SendAck, SendAckUnconfirmed, ReaderFits, Reading, ReaderIdle
  <2>7. reader'.step \in {"idle", "booting"} \/ reader'.job = t
    BY <2>3 DEF ReaderRested, ReaderOn
  <2> QED
    BY <2>2, <2>3, <2>4, <2>5, <2>6, <2>7, InboxSteps
<1>2. CASE MarkReplySent(t)
  <2>1. reader.ack \in AckKinds /\ replies[t][reader.ack] # "none"
    BY <1>2, InboxKnown DEF MarkReplySent, ReaderFits, Reading, ReceiverInv, ReceiverTyped, ReaderRested, ReaderOn
  <2>2. /\ replies' \in [Transfers -> [AckKinds -> ReplyStates]]
        /\ \A u \in Transfers \ {t} : replies'[u] = replies[u]
        /\ replies'[t]["downloaded"] # "none" <=> replies[t]["downloaded"] # "none"
    <3>1. replies' = [replies EXCEPT ![t] = [@ EXCEPT ![reader.ack] = "SENT"]] /\ "SENT" \in ReplyStates
      BY <1>2 DEF MarkReplySent, ReplyStates
    <3>2. replies \in [Transfers -> [AckKinds -> ReplyStates]]
      BY DEF ReceiverInv, ReceiverTyped
    <3> QED
      BY <2>1, <3>1, <3>2, Acks
  <2>3. ReceiverTyped'
    BY <1>2, <2>2, ReaderNames DEF MarkReplySent, ReceiverInv, ReceiverTyped
  <2>4. InboxFits(t)'
    BY <1>2, <2>2, InboxKnown DEF MarkReplySent, InboxFits
  <2> QED
    BY <1>2, <2>2, <2>3, <2>4, ReaderRestFits, InboxSteps DEF MarkReplySent
<1> QED
  BY <1>1, <1>2 DEF Answer

LEMMA ReceiverStep == ReceiverInv /\ ReceiverNext => ReceiverInv'
<1> SUFFICES ASSUME ReceiverInv, ReceiverNext PROVE ReceiverInv'
  OBVIOUS
<1> USE DEF mediumVars
<1>1. ASSUME NEW t \in Transfers, Receive(t) PROVE ReceiverInv'
  BY <1>1, RecordOfferKeeps, RouteOfferKeeps DEF Receive
<1>2. ASSUME NEW t \in Transfers, StepWaiting(t) PROVE ReceiverInv'
  <2>1. reader.step = "idle" /\ reader' \in ReaderRested
    BY <1>2 DEF StepWaiting, ReaderIdle, ReceiverInv, ReceiverTyped, ReaderRested, ReaderOn
  <2> QED
    BY <1>2, <2>1, AdvanceKeeps DEF StepWaiting
<1>3. ASSUME NEW t \in Transfers, BeginDownload(t) PROVE ReceiverInv'
  BY <1>3, InboxStateSteps, InboxNames DEF BeginDownload, VerifiedStates
<1>4. ASSUME NEW t \in Transfers, Reject(t) PROVE ReceiverInv'
  BY <1>4, InboxStateSteps, InboxNames DEF Reject, VerifiedStates, FinalStates
<1>5. CASE LearnKey \/ RegisterProvider
  <2>1. ReceiverTyped'
    BY <1>5 DEF LearnKey, RegisterProvider, inboxVars, ReceiverInv, ReceiverTyped
  <2>2. ASSUME NEW t \in Transfers PROVE InboxFits(t)' /\ ReaderFits(t)'
    BY <1>5, InboxKnown DEF LearnKey, RegisterProvider, inboxVars, InboxFits, ReaderFits, Reading
  <2> QED
    BY <2>1, <2>2 DEF ReceiverInv
<1>6. CASE ReceiverCrash
  <2>1. ReceiverTyped'
    BY <1>6 DEF ReceiverCrash, inboxVars, ReceiverInv, ReceiverTyped, ReaderRested
  <2>2. ASSUME NEW t \in Transfers PROVE InboxFits(t)' /\ ReaderFits(t)'
    BY <1>6, InboxKnown DEF ReceiverCrash, inboxVars, InboxFits, ReaderFits, Reading
  <2> QED
    BY <2>1, <2>2 DEF ReceiverInv
<1>7. CASE ReceiverBoot
  <2>1. reader' \in ReaderRested
    BY <1>7 DEF ReceiverBoot, ReaderRests, ReaderRested
  <2> QED
    BY <1>7, <2>1, AdvanceKeeps DEF ReceiverBoot
<1> QED
  BY <1>1, <1>2, <1>3, <1>4, <1>5, <1>6, <1>7, DownloadKeeps, AnswerKeeps DEF ReceiverNext

-----------------------------------------------------------------------------
(* Both sides                                                              *)

ExchangeInv == SenderInv /\ ReceiverInv

LEMMA ExchangeStarts == Init => ExchangeInv
  BY SenderStarts, ReceiverStarts DEF Init, ExchangeInv

LEMMA SenderMedium == SenderNext => UNCHANGED acked
  BY ZenonT(60) DEF SenderNext, CreateDraft, RunStep, FinishStep, Cancel, BootStep, BootRaises,
     SenderCrash, BootDone, StepDraft, StepValidating, Encrypt, FailUntrusted, StepQueuedUpload,
     CreateUpload, LoseUpload, RefuseUpload, AbandonTransfer, ResumeUpload, SendOffer,
     SendOfferUnconfirmed, SaveUpload, UploadPart, CommitUpload, LoseCommit, UploadInterrupted,
     UploadRejected, FinishUpload, SaveSent, CancelRemote, CancelUnlink, CancelRow, CancelForget,
     mediumVars

LEMMA ReceiverMedium == ReceiverNext => UNCHANGED <<relay, offered>>
  BY DEF ReceiverNext, Receive, RecordOffer, RouteOffer, StepWaiting, Download, Fetch,
     FetchInterrupted, FetchFails, SaveFile, Complete, CompleteRaises, FinishDownload, Answer,
     SendAck, SendAckUnconfirmed, MarkReplySent, BeginDownload, Reject, LearnKey,
     RegisterProvider, ReceiverCrash, ReceiverBoot, mediumVars

\* The receiver changes nothing the sender's invariant speaks of, and the
\* sender nothing the receiver's does.
LEMMA ExchangeStep == ExchangeInv /\ [Next]_vars => ExchangeInv'
<1> SUFFICES ASSUME ExchangeInv, [Next]_vars PROVE ExchangeInv'
  OBVIOUS
<1> USE DEF ExchangeInv
<1>1. ASSUME UNCHANGED <<relay, offered, senderVars>> PROVE SenderInv'
  BY <1>1 DEF senderVars, SenderInv, SenderTyped, IdsAreOwned, RowFits, WorkerFits, At, In, Exists,
              Unfinished, Whole, Downloadable
<1>2. ASSUME UNCHANGED <<acked, receiverVars>> PROVE ReceiverInv'
  BY <1>2 DEF receiverVars, ReceiverInv, ReceiverTyped, InboxFits, ReaderFits, Reading
<1>3. CASE SenderNext /\ UNCHANGED receiverVars
  BY <1>2, <1>3, SenderMedium, SenderStep
<1>4. CASE ReceiverNext /\ UNCHANGED senderVars
  BY <1>1, <1>4, ReceiverMedium, ReceiverStep
<1>5. CASE MediumNext /\ UNCHANGED <<senderVars, receiverVars>>
  BY <1>2, <1>5, ExpireKeeps DEF MediumNext, Expire
<1>6. CASE UNCHANGED vars
  BY <1>1, <1>2, <1>6 DEF vars, mediumVars
<1> QED
  BY <1>3, <1>4, <1>5, <1>6 DEF Next

LEMMA Exchanged == Spec => []ExchangeInv
  BY ExchangeStarts, ExchangeStep, PTL DEF Spec

\* Every variable of the exchange keeps its type.
THEOREM ExchangeTypeCorrect == Spec => []TypeOK
<1>1. ExchangeInv => TypeOK
  <2> SUFFICES ASSUME ExchangeInv PROVE TypeOK
    OBVIOUS
  <2>1. MediumTypeOK
    BY DEF ExchangeInv, SenderInv, SenderTyped, ReceiverInv, ReceiverTyped, MediumTypeOK, Objects
  <2>2. SenderTypeOK
    BY DEF ExchangeInv, SenderInv, SenderTyped, SenderTypeOK, Rows, Secrets, Resting, WorkingOn,
           RestingSteps, WorkerSteps
  <2>3. ReceiverTypeOK
    BY DEF ExchangeInv, ReceiverInv, ReceiverTyped, ReceiverTypeOK, ReaderRested, ReaderOn, ReaderSteps
  <2> QED
    BY <2>1, <2>2, <2>3 DEF TypeOK
<1> QED
  BY <1>1, Exchanged, PTL

\* Nobody hears of an object before the Relay has all of it, whatever answers
\* were lost (sender.py:579-684, 747-814).
THEOREM OfferedObjectsAreComplete == Spec => []OfferedIsComplete
<1>1. ExchangeInv => OfferedIsComplete
  BY DEF ExchangeInv, SenderInv, OfferedIsComplete, Whole
<1> QED
  BY <1>1, Exchanged, PTL

\* Every object at the Relay is one row's or tombstoned, never both
\* (sender.py:687-698).
THEOREM NoObjectIsForgotten == Spec => []NoForeignObject
<1>1. ExchangeInv => NoForeignObject
  BY DEF ExchangeInv, SenderInv, IdsAreOwned, NoForeignObject
<1> QED
  BY <1>1, Exchanged, PTL

\* A cancelled attachment cannot be downloaded any more (service.py:1444-1518).
THEOREM CancelWithdraws == Spec => []CancelledIsWithdrawn
<1>1. ExchangeInv => CancelledIsWithdrawn
  BY DEF ExchangeInv, SenderInv, RowFits, CancelledIsWithdrawn, In
<1> QED
  BY <1>1, Exchanged, PTL

\* What is shown as available came from a verified OFFER and is on the disk
\* (receiver.py:869-908, 988-1101).
THEOREM AvailableFilesAreGenuine == Spec => []AvailableIsGenuine
<1>1. ExchangeInv => AvailableIsGenuine
  BY DEF ExchangeInv, ReceiverInv, InboxFits, AvailableIsGenuine, VerifiedStates
<1> QED
  BY <1>1, Exchanged, PTL

\* The sender is told of a download by a receiver that has the file, and every
\* such receiver owes it that ACK (receiver.py:1090-1100, service.py:1722-1859).
THEOREM DownloadAcksAreTrue == Spec => []DownloadedAckIsTrue
<1>1. ExchangeInv => DownloadedAckIsTrue
  BY DEF ExchangeInv, ReceiverInv, InboxFits, DownloadedAckIsTrue
<1> QED
  BY <1>1, Exchanged, PTL

LEMMA SettledRowsStay ==
    ASSUME SenderInv, SenderNext, NEW a \in Attachments, row[a].state \in SettledStates
    PROVE  row'[a].state = row[a].state
<1>1. ASSUME NEW b \in Attachments, row[b].state \notin SettledStates, row' = row \/
             \E r : row' = [row EXCEPT ![b] = r]
      PROVE  row'[a].state = row[a].state
  BY <1>1 DEF SenderInv, SenderTyped, Rows
<1>2. ASSUME NEW b \in Attachments, CreateDraft(b) \/ RunStep(b) PROVE row'[a].state = row[a].state
  <2> USE DEF SettledStates, FailedStates, AutomaticStates, In, SetState, FailUpload, rowVars
  <2>1. CASE CreateDraft(b)
    BY <1>1, <2>1 DEF CreateDraft
  <2>2. CASE StepDraft(b) \/ StepValidating(b) \/ Encrypt(b) \/ FailUntrusted(b) \/ StepQueuedUpload(b)
    BY <2>2 DEF StepDraft, StepValidating, Encrypt, FailUntrusted, StepQueuedUpload,
                SenderInv, SenderTyped, Rows
  <2>3. CASE CreateUpload(b) \/ LoseUpload(b) \/ ResumeUpload(b) \/ SendOffer(b) \/ SendOfferUnconfirmed(b)
    BY <2>3 DEF CreateUpload, LoseUpload, ResumeUpload, SendOffer, SendOfferUnconfirmed
  <2>4. CASE RefuseUpload(b) \/ AbandonTransfer(b)
    BY <2>4 DEF RefuseUpload, AbandonTransfer, SenderInv, SenderTyped, Rows
  <2> QED
    BY <1>2, <2>1, <2>2, <2>3, <2>4 DEF RunStep
<1>3. ASSUME NEW b \in Attachments, FinishStep(b) PROVE row'[a].state = row[a].state
  <2> USE DEF SettledStates, FailedStates, SetState, FailUpload, rowVars, In
  <2>1. CASE SaveUpload(b) \/ UploadPart(b) \/ CommitUpload(b)
    BY <2>1 DEF SaveUpload, UploadPart, CommitUpload
  <2>2. CASE LoseCommit(b) \/ UploadInterrupted(b) \/ UploadRejected(b)
    <3>1. At("uploading", b)
      BY <2>2 DEF LoseCommit, UploadInterrupted, UploadRejected
    <3>2. row[b].state = "UPLOADING"
      BY <3>1, Known DEF WorkerFits
    <3> QED
      BY <2>2, <3>2 DEF LoseCommit, UploadInterrupted, UploadRejected, SenderInv, SenderTyped, Rows
  <2>3. CASE FinishUpload(b)
    BY <2>3, Known DEF FinishUpload, WorkerFits, SenderInv, SenderTyped, Rows
  <2>4. CASE SaveSent(b)
    BY <2>4, Known DEF SaveSent, WorkerFits, SenderInv, SenderTyped, Rows
  <2> QED
    BY <1>3, <2>1, <2>2, <2>3, <2>4 DEF FinishStep
<1>4. ASSUME NEW b \in Attachments, Cancel(b) PROVE row'[a].state = row[a].state
  <2>1. CASE CancelRow(b)
    BY <2>1, Known, Names DEF CancelRow, SetState, WorkerFits, SenderInv, SenderTyped, Rows
  <2> QED
    BY <1>4, <2>1 DEF Cancel, CancelRemote, CancelUnlink, CancelForget, rowVars
<1>5. ASSUME NEW b \in Attachments, BootStep(b) \/ BootRaises(b) PROVE row'[a].state = row[a].state
  BY <1>5 DEF BootStep, BootRaises, SetState, In, SettledStates, FailedStates, rowVars,
              SenderInv, SenderTyped, Rows
<1> QED
  BY <1>2, <1>3, <1>4, <1>5 DEF SenderNext, SenderCrash, BootDone, rowVars

LEMMA FinalRowsStay ==
    ASSUME ReceiverInv, ReceiverNext, NEW t \in Transfers, inbox[t] \in FinalStates
    PROVE  inbox'[t] = inbox[t] /\ files'[t] = files[t]
<1> USE DEF FinalStates, ReceiverInv, ReceiverTyped, SetInbox, inboxVars
<1>1. ASSUME NEW u \in Transfers, Receive(u) PROVE inbox'[t] = inbox[t] /\ files'[t] = files[t]
  <2>1. CASE RouteOffer(u)
    BY <2>1, InboxKnown DEF RouteOffer, ReaderFits
  <2> QED
    BY <1>1, <2>1 DEF Receive, RecordOffer
<1>2. ASSUME NEW u \in Transfers, Download(u) PROVE inbox'[t] = inbox[t] /\ files'[t] = files[t]
  <2>1. CASE SaveFile(u)
    BY <2>1, InboxKnown DEF SaveFile, ReaderFits
  <2>2. CASE FinishDownload(u)
    BY <2>2, InboxKnown DEF FinishDownload, ReaderFits
  <2>3. CASE Fetch(u) \/ FetchInterrupted(u) \/ FetchFails(u) \/ Complete(u) \/ CompleteRaises(u)
    BY <2>3 DEF Fetch, FetchInterrupted, FetchFails, Complete, CompleteRaises
  <2> QED
    BY <1>2, <2>1, <2>2, <2>3 DEF Download
<1>3. ASSUME NEW u \in Transfers, Answer(u) \/ BeginDownload(u) \/ Reject(u)
      PROVE  inbox'[t] = inbox[t] /\ files'[t] = files[t]
  BY <1>3 DEF Answer, SendAck, SendAckUnconfirmed, MarkReplySent, BeginDownload, Reject
<1>4. ASSUME NEW u \in Transfers, StepWaiting(u) PROVE inbox'[t] = inbox[t] /\ files'[t] = files[t]
  BY <1>4 DEF StepWaiting, AdvanceAll, WaitingStates
<1>5. CASE LearnKey \/ RegisterProvider \/ ReceiverCrash
  BY <1>5 DEF LearnKey, RegisterProvider, ReceiverCrash
<1>6. CASE ReceiverBoot
  BY <1>6 DEF ReceiverBoot, AdvanceAll, WaitingStates
<1> QED
  BY <1>1, <1>2, <1>3, <1>4, <1>5, <1>6 DEF ReceiverNext

\* What is settled stays so: no late answer, retry, cancel, restart or repeated
\* OFFER reopens a row of either side (sender.py:840-848, receiver.py:689-700).
THEOREM SettledRowsAreFinal == Spec => SettledIsFinal
<1>1. ExchangeInv /\ [Next]_vars =>
         [/\ \A a \in Attachments : row[a].state \in SettledStates => row'[a].state = row[a].state
          /\ \A t \in Transfers : inbox[t] \in FinalStates => inbox'[t] = inbox[t] /\ files'[t] = files[t]
         ]_vars
  BY SettledRowsStay, FinalRowsStay DEF ExchangeInv, Next, senderVars, receiverVars
<1> QED
  BY <1>1, Exchanged, PTL DEF Spec, SettledIsFinal
-----------------------------------------------------------------------------
(* The handover                                                            *)

Stored == {t \in Transfers : Whole(t)}

Received == {t \in Transfers : inbox[t] = "AVAILABLE"}

\* The receiver has no row that nobody offered.
RowsWereOffered == \A t \in Transfers : inbox[t] # "NONE" => t \in offered

HandoverInv == ExchangeInv /\ RowsWereOffered

\* A step of the sender changes one object and leaves a whole one whole, or
\* offers one that is whole, or does neither.
LEMMA SenderMoves ==
    ASSUME SenderInv, SenderNext
    PROVE  \/ UNCHANGED <<relay, offered>>
           \/ \E t \in Transfers :
                 /\ offered' = offered
                 /\ \A u \in Transfers \ {t} : relay'[u] = relay[u]
                 /\ Whole(t) => Whole(t)'
           \/ \E t \in Stored : relay' = relay /\ offered' = offered \union {t}
<1> DEFINE OneObject(t) ==
              /\ offered' = offered
              /\ \A u \in Transfers \ {t} : relay'[u] = relay[u]
              /\ Whole(t) => Whole(t)'
<1>0. ASSUME NEW a \in Attachments, row[a].state # "NONE"
      PROVE  row[a].transfer \in Transfers
  BY <1>0 DEF SenderInv, SenderTyped, IdsAreOwned, Rows
<1>1. ASSUME NEW a \in Attachments, NEW t \in Transfers, t = row[a].transfer, CreateUpload(a) \/ LoseUpload(a)
      PROVE  OneObject(t)
  BY <1>1 DEF CreateUpload, LoseUpload, Exists, Created, Whole, SenderInv, SenderTyped, Objects
<1>2. ASSUME NEW a \in Attachments, NEW t \in Transfers, t = row[a].transfer, UploadPart(a)
      PROVE  OneObject(t)
  BY <1>2 DEF UploadPart, Writable, PartStored, Whole, SenderInv, SenderTyped, Objects
<1>3. ASSUME NEW a \in Attachments, NEW t \in Transfers, t = row[a].transfer, CommitUpload(a) \/ LoseCommit(a)
      PROVE  OneObject(t)
  <2>1. relay' = Committed(t) /\ offered' = offered
    BY <1>3 DEF CommitUpload, LoseCommit
  <2> QED
    BY <2>1 DEF Committed, Whole, SenderInv, SenderTyped, Objects
<1>4. ASSUME NEW a \in Attachments, NEW t \in Transfers, t = row[a].transfer, CancelRemote(a)
      PROVE  OneObject(t)
  <2>1. relay' \in {relay, Revoked(t)} /\ offered' = offered
    BY <1>4 DEF CancelRemote
  <2> QED
    BY <2>1 DEF Revoked, Whole, SenderInv, SenderTyped, Objects
<1>5. ASSUME NEW a \in Attachments, SendOffer(a) \/ SendOfferUnconfirmed(a)
      PROVE  /\ relay' = relay /\ offered' = offered \union {row[a].transfer}
             /\ row[a].transfer \in Stored
  BY <1>5, <1>0, Known DEF SendOffer, SendOfferUnconfirmed, OfferSent, In, RowFits, Stored
<1>6. ASSUME NEW a \in Attachments,
             \/ CreateDraft(a) \/ StepDraft(a) \/ StepValidating(a) \/ Encrypt(a) \/ FailUntrusted(a)
             \/ StepQueuedUpload(a) \/ RefuseUpload(a) \/ AbandonTransfer(a) \/ ResumeUpload(a)
             \/ SaveUpload(a) \/ UploadInterrupted(a) \/ UploadRejected(a) \/ FinishUpload(a)
             \/ SaveSent(a) \/ CancelUnlink(a) \/ CancelRow(a) \/ CancelForget(a)
             \/ BootStep(a) \/ BootRaises(a)
      PROVE  UNCHANGED <<relay, offered>>
  BY <1>6 DEF CreateDraft, StepDraft, StepValidating, Encrypt, FailUntrusted, StepQueuedUpload,
              RefuseUpload, AbandonTransfer, ResumeUpload, SaveUpload, UploadInterrupted,
              UploadRejected, FinishUpload, SaveSent, CancelUnlink, CancelRow, CancelForget,
              BootStep, BootRaises, mediumVars
<1>7. CASE SenderCrash \/ BootDone
  BY <1>7 DEF SenderCrash, BootDone, mediumVars
<1>8. ASSUME NEW a \in Attachments,
             CreateDraft(a) \/ RunStep(a) \/ FinishStep(a) \/ Cancel(a) \/ BootStep(a) \/ BootRaises(a)
      PROVE  \/ UNCHANGED <<relay, offered>>
             \/ \E t \in Transfers : OneObject(t)
             \/ \E t \in Stored : relay' = relay /\ offered' = offered \union {t}
  <2>1. CASE CreateUpload(a) \/ LoseUpload(a) \/ UploadPart(a) \/ CommitUpload(a) \/ LoseCommit(a) \/ CancelRemote(a)
    <3>1. row[a].state # "NONE"
      BY <2>1, Known DEF CreateUpload, LoseUpload, UploadPart, CommitUpload, LoseCommit, CancelRemote,
                         WorkerFits, In, AutomaticStates
    <3>2. PICK t \in Transfers : t = row[a].transfer
      BY <3>1, <1>0
    <3>3. OneObject(t)
      BY <2>1, <3>2, <1>1, <1>2, <1>3, <1>4
    <3> QED
      BY <3>3
  <2>2. CASE SendOffer(a) \/ SendOfferUnconfirmed(a)
    BY <2>2, <1>5
  <2> QED
    BY <1>6, <1>8, <2>1, <2>2 DEF RunStep, FinishStep, Cancel
<1>9. \/ SenderCrash \/ BootDone
      \/ \E a \in Attachments :
            CreateDraft(a) \/ RunStep(a) \/ FinishStep(a) \/ Cancel(a) \/ BootStep(a) \/ BootRaises(a)
  BY DEF SenderNext
<1> QED
  BY <1>7, <1>8, <1>9

\* An object that expires was whole before and is so after, or neither.
LEMMA ExpiryMoves ==
    ASSUME SenderInv, MediumNext
    PROVE  Stored' = Stored /\ offered' = offered /\ acked' = acked
  BY DEF MediumNext, Expire, Stored, Whole, SenderInv, SenderTyped, Objects

\* A step of the receiver makes one row available, or tells of one that is; a
\* row appears only for an OFFER that was on the air.
LEMMA ReceiverMoves ==
    ASSUME ReceiverInv, ReceiverNext
    PROVE  /\ \/ UNCHANGED <<Received, acked>>
              \/ \E t \in Transfers :
                    inbox[t] = "DOWNLOADING" /\ Received' = Received \union {t} /\ acked' = acked
              \/ \E t \in Received : Received' = Received /\ acked' = acked \union {t}
           /\ \A t \in Transfers : inbox[t] = "NONE" /\ inbox'[t] # "NONE" => t \in offered
<1> DEFINE Still == UNCHANGED <<Received, acked>>
           OnlyOffered ==
              \A t \in Transfers : inbox[t] = "NONE" /\ inbox'[t] # "NONE" => t \in offered
<1> USE DEF ReceiverInv, ReceiverTyped, SetInbox, inboxVars, mediumVars
<1>1. ASSUME NEW t \in Transfers, Receive(t) PROVE Still /\ OnlyOffered
  <2>1. CASE RouteOffer(t)
    <3>1. inbox[t] = "OFFER_RECEIVED"
      BY <2>1, InboxKnown DEF RouteOffer, ReaderFits
    <3>2. PICK state \in {"WAITING_KEY", "WAITING_PROVIDER", "WAITING_CONSENT", "WAITING_NETWORK"} :
             inbox' = [inbox EXCEPT ![t] = state]
      BY <2>1 DEF RouteOffer, WaitsIn
    <3> QED
      BY <2>1, <3>1, <3>2 DEF RouteOffer, Received
  <2>2. CASE \E condition \in {"intact", "altered"} : RecordOffer(t, condition)
    BY <2>2 DEF RecordOffer, Received
  <2> QED
    BY <1>1, <2>1, <2>2 DEF Receive
<1>2. ASSUME NEW t \in Transfers, BeginDownload(t) \/ Reject(t) PROVE Still /\ OnlyOffered
  BY <1>2 DEF BeginDownload, Reject, Received
<1>3. ASSUME NEW ts \in SUBSET Transfers, NEW network \in BOOLEAN, AdvanceAll(ts, network),
             \A t \in ts : inbox[t] \in WaitingStates, acked' = acked
      PROVE  Still /\ OnlyOffered
  <2>1. \A t \in ts : inbox[t] \notin {"NONE", "AVAILABLE"} /\ Advanced(t, network) \notin {"NONE", "AVAILABLE"}
    BY <1>3 DEF WaitingStates, Advanced, WaitsIn
  <2>2. \A t \in Transfers : inbox'[t] = IF t \in ts THEN Advanced(t, network) ELSE inbox[t]
    BY <1>3 DEF AdvanceAll
  <2> QED
    BY <1>3, <2>1, <2>2 DEF Received
<1>4. ASSUME NEW t \in Transfers, StepWaiting(t) PROVE Still /\ OnlyOffered
  BY <1>4, <1>3 DEF StepWaiting
<1>5. CASE ReceiverBoot
  <2> DEFINE waiting == {t \in Transfers : inbox[t] \in WaitingStates}
  <2>1. AdvanceAll(waiting, FALSE) /\ acked' = acked
    BY <1>5 DEF ReceiverBoot
  <2>2. waiting \in SUBSET Transfers /\ \A t \in waiting : inbox[t] \in WaitingStates
    OBVIOUS
  <2> HIDE DEF waiting
  <2> QED
    BY <1>3, <2>1, <2>2
<1>6. CASE LearnKey \/ RegisterProvider \/ ReceiverCrash
  BY <1>6 DEF LearnKey, RegisterProvider, ReceiverCrash, Received
<1>7. ASSUME NEW t \in Transfers, Download(t), ~FinishDownload(t) PROVE Still /\ OnlyOffered
  BY <1>7 DEF Download, Fetch, FetchInterrupted, FetchFails, SaveFile, Complete, CompleteRaises, Received
<1>8. ASSUME NEW t \in Transfers, FinishDownload(t)
      PROVE  inbox[t] = "DOWNLOADING" /\ Received' = Received \union {t} /\ acked' = acked /\ OnlyOffered
  BY <1>8, InboxKnown DEF FinishDownload, ReaderFits, Received
<1>9. ASSUME NEW t \in Transfers, Answer(t)
      PROVE  /\ Received' = Received /\ OnlyOffered
             /\ acked' = acked \/ (acked' = acked \union {t} /\ t \in Received)
  BY <1>9, InboxKnown DEF Answer, SendAck, SendAckUnconfirmed, MarkReplySent, AckSent, InboxFits, Received
<1> QED
  BY <1>1, <1>2, <1>4, <1>5, <1>6, <1>7, <1>8, <1>9 DEF ReceiverNext

LEMMA HandoverStep == HandoverInv /\ [Next]_vars => HandoverInv'
<1> SUFFICES ASSUME HandoverInv, [Next]_vars PROVE RowsWereOffered'
  BY ExchangeStep DEF HandoverInv
<1> USE DEF HandoverInv, RowsWereOffered, ExchangeInv
<1>1. CASE SenderNext /\ UNCHANGED receiverVars
  BY <1>1, SenderMoves DEF receiverVars
<1>2. CASE ReceiverNext /\ UNCHANGED senderVars
  BY <1>2, ReceiverMoves, ReceiverMedium
<1>3. CASE MediumNext /\ UNCHANGED <<senderVars, receiverVars>>
  BY <1>3, ExpiryMoves DEF receiverVars
<1>4. CASE UNCHANGED vars
  BY <1>4 DEF vars, mediumVars, receiverVars
<1> QED
  BY <1>1, <1>2, <1>3, <1>4 DEF Next

\* A step of the exchange takes one transfer one stage further, or none.
LEMMA HandoverMoves == HandoverInv /\ [Next]_vars => [Handover!Next]_(Handover!handoverVars)
<1> SUFFICES ASSUME HandoverInv, [Next]_vars,
                    UNCHANGED <<Stored, offered, Received, acked>> => FALSE
             PROVE  Handover!Next
  BY DEF Handover!handoverVars, Stored, Received
<1> USE DEF HandoverInv, ExchangeInv
<1>1. CASE SenderNext /\ UNCHANGED receiverVars
  <2>1. UNCHANGED <<Received, acked>>
    BY <1>1, SenderMedium DEF receiverVars, Received
  <2>2. CASE UNCHANGED <<relay, offered>>
    BY <2>1, <2>2 DEF Stored, Whole
  <2>3. ASSUME NEW t \in Transfers, offered' = offered, Whole(t) => Whole(t)',
               \A u \in Transfers \ {t} : relay'[u] = relay[u]
        PROVE  Handover!Next
    <3>1. \A u \in Transfers \ {t} : Whole(u)' <=> Whole(u)
      BY <2>3 DEF Whole
    <3>2. Stored' = Stored \/ (t \notin Stored /\ Stored' = Stored \union {t})
      BY <2>3, <3>1 DEF Stored
    <3>3. Handover!Store(t)
      BY <2>1, <2>3, <3>2 DEF Handover!Store, Handover!Reaches, Stored, Received
    <3> QED
      BY <3>3 DEF Handover!Next
  <2>4. ASSUME NEW t \in Stored, relay' = relay, offered' = offered \union {t} PROVE Handover!Next
    <3>1. t \in Transfers /\ t \notin offered /\ Stored' = Stored
      BY <2>1, <2>4 DEF Stored, Whole
    <3>2. Handover!Offer(t)
      BY <2>1, <2>4, <3>1 DEF Handover!Offer, Handover!Reaches, Stored, Received
    <3> QED
      BY <3>1, <3>2 DEF Handover!Next
  <2> QED
    BY <1>1, <2>2, <2>3, <2>4, SenderMoves
<1>2. CASE ReceiverNext /\ UNCHANGED senderVars
  <2>1. UNCHANGED <<Stored, offered>>
    BY <1>2, ReceiverMedium DEF Stored, Whole
  <2>2. ASSUME NEW t \in Transfers, inbox[t] = "DOWNLOADING", Received' = Received \union {t}, acked' = acked
        PROVE  Handover!Next
    <3>1. t \in offered /\ t \notin Received
      BY <2>2 DEF RowsWereOffered, Received
    <3>2. Handover!Receive(t)
      BY <2>1, <2>2, <3>1 DEF Handover!Receive, Handover!Reaches, Stored, Received
    <3> QED
      BY <3>2 DEF Handover!Next
  <2>3. ASSUME NEW t \in Received, Received' = Received, acked' = acked \union {t} PROVE Handover!Next
    <3>1. t \in Transfers /\ t \notin acked
      BY <2>1, <2>3 DEF Received
    <3>2. Handover!Confirm(t)
      BY <2>1, <2>3, <3>1 DEF Handover!Confirm, Handover!Reaches, Stored, Received
    <3> QED
      BY <3>1, <3>2 DEF Handover!Next
  <2> QED
    BY <1>2, <2>1, <2>2, <2>3, ReceiverMoves
<1>3. CASE MediumNext /\ UNCHANGED <<senderVars, receiverVars>>
  BY <1>3, ExpiryMoves DEF receiverVars, Received
<1>4. CASE UNCHANGED vars
  BY <1>4 DEF vars, mediumVars, receiverVars, Stored, Received, Whole
<1> QED
  BY <1>1, <1>2, <1>3, <1>4 DEF Next

\* The two instances, the Relay and the radio implement the handover: a file is
\* confirmed only after it was received, received only after it was offered,
\* and offered only after it was stored, each for good (sender.py:579-814,
\* receiver.py:869-1101, service.py:1722-1859).
THEOREM ImplementsHandover == Spec => HandoverSpec
<1>1. Init => Handover!Init
  BY DEF Init, MediumInit, ReceiverInit, Handover!Init, Whole
<1>2. Init => HandoverInv
  BY ExchangeStarts DEF HandoverInv, RowsWereOffered, Init, ReceiverInit
<1> QED
  BY <1>1, <1>2, HandoverStep, HandoverMoves, PTL DEF Spec, HandoverSpec, Handover!Spec
=============================================================================
