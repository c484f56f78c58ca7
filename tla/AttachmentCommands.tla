------------------------- MODULE AttachmentCommands -------------------------
(***************************************************************************)
(* How a page's request becomes a command of the attachment worker: the    *)
(* request thread stages the file, reserves the client's request id and    *)
(* enqueues; the worker drains the queue, commits the row, publishes the   *)
(* snapshot and only then lets the reservation go. The database and the    *)
(* spool directory outlive the process, everything else is lost with it.   *)
(* A request's command and attachment ids are the request itself.          *)
(***************************************************************************)
EXTENDS Naturals, Sequences, SequencesExt

CONSTANTS
    Requests,    \* requests of the pages, each used once
    IdempotencyKeys,        \* client_request_id
    Hashes,      \* canonical_hash
    QueueSize    \* COMMAND_QUEUE_MAXSIZE

ASSUME QueueAssumption == QueueSize \in Nat \ {0}

NoId == "no id"

VARIABLES
    request,      \* per request: what it asks and how far it has come
    spool,        \* spool/outgoing: nothing, a temporary file or the file itself
    reservation,  \* PendingReservations: key -> the attachment, the command
    queue,        \* CommandQueue
    registry,     \* CommandRegistry: status and resource_id
    row,          \* attachments rows of this side's own attachments
    offer,        \* state of the one received row, and what the snapshot says of it
    index,        \* the published snapshot: attachments and their keys
    handoff,      \* _committed_reservations
    backlog,      \* _spool_cleanup_backlog
    duty,         \* where the worker's tick stands
    ready,        \* _ready_event
    unlinked      \* history: a cancel has removed this attachment's file

cmdVars == <<request, spool, reservation, queue, registry, row, offer, index, handoff, backlog, duty,
             ready, unlinked>>
requestSide == <<request, queue, ready>>

Kinds == {"create", "cancel", "download", "reject", "retry"}
Active == {"staging", "staged", "looked", "reserved", "registered"}
Answers == {"accepted", "replay pending", "replay committed", "conflict", "full", "refused"}
Unasked == [kind |-> "none", pc |-> "idle"]
CommandIds == Requests \cup {NoId}
Free == [id |-> NoId, command |-> NoId]
OfferStates == {"waiting", "downloading", "rejected", "available"}
Terminal == {"succeeded", "failed"}
Forgotten == [status |-> "none", resource |-> NoId]

CmdTypeOK ==
    /\ request \in [Requests ->
         {Unasked}
         \cup [kind : {"create"}, pc : Active \cup Answers \cup {"lost"}, key : IdempotencyKeys, hash : Hashes,
               seen : CommandIds, told : CommandIds]
         \cup [kind : Kinds \ {"create"}, pc : {"reserved", "registered"} \cup Answers \cup {"lost"},
               target : CommandIds]]
    /\ spool \in [Requests -> {"none", "temporary", "final"}]
    /\ reservation \in [IdempotencyKeys -> [id : CommandIds, command : CommandIds]]
    /\ queue \in BoundedSeq(Requests, QueueSize)
    /\ registry \in [Requests -> [status : {"none", "queued", "running"} \cup Terminal, resource : CommandIds]]
    /\ row \in [Requests -> {"none", "live", "cancelled"}]
    /\ offer \in [state : OfferStates, published : OfferStates]
    /\ index \in [Requests -> {"none", "live", "cancelled"}]
    /\ handoff \in [IdempotencyKeys -> CommandIds] /\ backlog \in SUBSET Requests
    /\ duty \in {"commands", "rows", "publish", "handoffs", "backlog", "orphans"}
    /\ ready \in BOOLEAN /\ unlinked \in SUBSET Requests

CmdInit ==
    /\ request = [r \in Requests |-> Unasked]
    /\ spool = [r \in Requests |-> "none"]
    /\ row = [r \in Requests |-> "none"] /\ unlinked = {}
    /\ offer = [state |-> "waiting", published |-> "waiting"]
    /\ reservation = [k \in IdempotencyKeys |-> Free] /\ queue = <<>>
    /\ registry = [r \in Requests |-> Forgotten]
    /\ index = [r \in Requests |-> "none"] /\ handoff = [k \in IdempotencyKeys |-> NoId] /\ backlog = {}
    /\ duty = "commands" /\ ready = FALSE

Is(r, pc) == request[r].pc = pc
Creates(r) == request[r].kind = "create"
Moves(r, pc) == request' = [request EXCEPT ![r].pc = pc]
Marks(r, s, id) == registry' = [registry EXCEPT ![r] = [status |-> s, resource |-> id]]
Release(k) == reservation' = [reservation EXCEPT ![k] = Free]
\* _discard_spool(): a file that cannot be removed is left to the recovery.
Discard(r) == spool' \in {spool, [spool EXCEPT ![r] = "none"]}

Unregister(r) == Marks(r, "none", NoId)
\* _record_failed(), and what is left of a handler that raises.
Fails(r) == Marks(r, "failed", NoId)
\* _record_committed_handoff()
HandOver(k, id) == handoff' = [handoff EXCEPT ![k] = id]

-----------------------------------------------------------------------------
(* The request thread.                                                     *)

\* _stage_spool_file(): read, hashed and synchronized under a temporary name.
Staged(r) == spool' = [spool EXCEPT ![r] = "temporary"]

\* A request is validated against the snapshots and its file staged.
Stage(r, k, h) ==
    /\ request[r] = Unasked
    /\ request' = [request EXCEPT ![r] = [kind |-> "create", pc |-> "staging", key |-> k, hash |-> h,
                                          seen |-> NoId, told |-> NoId]]
    /\ Staged(r)
    /\ UNCHANGED <<reservation, queue, registry, row, offer, index, handoff, backlog, duty, ready, unlinked>>

\* The content is refused, or the file moves to its final name.
PublishFile(r) ==
    /\ Is(r, "staging")
    /\ \/ Moves(r, "refused") /\ Discard(r)
       \/ Moves(r, "staged") /\ spool' = [spool EXCEPT ![r] = "final"]
    /\ UNCHANGED <<reservation, queue, registry, row, offer, index, handoff, backlog, duty, ready, unlinked>>

\* The published attachment that bears the key; keys are unique.
Entry(k) ==
    LET bearers == {x \in Requests : index[x] # "none" /\ request[x].key = k}
    IN IF bearers = {} THEN NoId ELSE CHOOSE x \in bearers : TRUE

\* submit_create() reads the committed index before it reserves.
Look(r) ==
    /\ Is(r, "staged")
    /\ IF ready
       THEN /\ request' = [request EXCEPT ![r].pc = "looked", ![r].seen = Entry(request[r].key)]
            /\ UNCHANGED spool
       ELSE Moves(r, "refused") /\ Discard(r)
    /\ UNCHANGED <<reservation, queue, registry, row, offer, index, handoff, backlog, duty, ready, unlinked>>

\* PendingReservations.reserve(): the pending half, then the committed one.
Verdict(r) ==
    LET held == reservation[request[r].key].id
        known == IF held # NoId THEN held ELSE request[r].seen
    IN IF known = NoId THEN "reserved"
       ELSE IF request[known].hash # request[r].hash THEN "conflict"
       ELSE IF held # NoId THEN "replay pending" ELSE "replay committed"

Reserve(r) ==
    /\ Is(r, "looked")
    /\ LET k == request[r].key
           told == IF reservation[k].id # NoId THEN reservation[k].id ELSE request[r].seen
       IN IF Verdict(r) = "reserved"
          THEN /\ Moves(r, "reserved") /\ UNCHANGED spool
               /\ reservation' = [reservation EXCEPT ![k] = [id |-> r, command |-> r]]
          ELSE /\ request' = [request EXCEPT ![r].pc = Verdict(r), ![r].told = told]
               /\ Discard(r) /\ UNCHANGED reservation
    /\ UNCHANGED <<queue, registry, row, offer, index, handoff, backlog, duty, ready, unlinked>>

Register(r) ==
    /\ Is(r, "reserved")
    /\ Moves(r, "registered") /\ Marks(r, "queued", NoId)
    /\ UNCHANGED <<spool, reservation, queue, row, offer, index, handoff, backlog, duty, ready, unlinked>>

\* CommandQueue is bounded.
Full == Len(queue) = QueueSize

\* A full queue undoes the submission: registry entry, own reservation, file.
Enqueue(r) ==
    /\ Is(r, "registered")
    /\ IF ~Full
       THEN /\ queue' = Append(queue, r) /\ Moves(r, "accepted")
            /\ UNCHANGED <<spool, reservation, registry>>
       ELSE /\ Moves(r, "full") /\ Unregister(r) /\ UNCHANGED queue
            /\ IF Creates(r)
               THEN /\ Discard(r)
                    /\ IF reservation[request[r].key].command = r THEN Release(request[r].key)
                       ELSE UNCHANGED reservation
               ELSE UNCHANGED <<spool, reservation>>
    /\ UNCHANGED <<row, offer, index, handoff, backlog, duty, ready, unlinked>>

\* Cancel, download, reject and retry: the precondition is read from the snapshot.
AskLifecycle(r, kind, target) ==
    /\ request[r] = Unasked /\ ready
    /\ CASE kind = "cancel" -> target # NoId /\ index[target] = "live"
         [] kind \in {"download", "reject"} -> target = NoId /\ offer.published = "waiting"
         [] kind = "retry" -> target = NoId /\ offer.published = "downloading"
         [] OTHER -> FALSE
    /\ request' = [request EXCEPT ![r] = [kind |-> kind, pc |-> "reserved", target |-> target]]
    /\ UNCHANGED <<spool, reservation, queue, registry, row, offer, index, handoff, backlog, duty,
                   ready, unlinked>>

\* A finished command's entry is evicted, by age or by number.
Evict(r) ==
    /\ registry[r].status \in Terminal
    /\ registry' = [registry EXCEPT ![r] = Forgotten]
    /\ UNCHANGED <<request, spool, reservation, queue, row, offer, index, handoff, backlog, duty,
                   ready, unlinked>>

-----------------------------------------------------------------------------
(* The worker.                                                             *)

Running == {r \in Requests : registry[r].status = "running"}

Take ==
    /\ duty = "commands" /\ Running = {} /\ queue # <<>>
    /\ queue' = Tail(queue)
    /\ Marks(Head(queue), "running", NoId)
    /\ UNCHANGED <<request, spool, reservation, row, offer, index, handoff, backlog, duty, ready, unlinked>>

\* _remove_unreferenced_spool(): removed, or put down for later.
Unspool(r) ==
    \/ spool' = [spool EXCEPT ![r] = "none"] /\ UNCHANGED backlog
    \/ backlog' = backlog \cup {r} /\ UNCHANGED spool

\* The provider, the binding or the payload is not what it was, or a step raises.
CreateRefused(r) ==
    /\ Fails(r)
    /\ Release(request[r].key) /\ Unspool(r)
    /\ UNCHANGED <<row, handoff>>

\* Fault: what the colliding request reserved is not given back.
DuplicateKept(r, original) ==
    /\ Unspool(r)
    /\ IF request[original].hash = request[r].hash
       THEN Marks(r, "succeeded", original) ELSE Fails(r)
    /\ UNCHANGED <<row, reservation, handoff>>

\* Fault: any request under the key is answered with the original.
DuplicateUnread(r, original) ==
    /\ Unspool(r)
    /\ reservation' = [reservation EXCEPT ![request[r].key] = [id |-> original, command |-> r]]
    /\ HandOver(request[r].key, original)
    /\ Marks(r, "succeeded", original)
    /\ UNCHANGED row

\* The unique index refuses the row: the same request once more is answered
\* with the original, if the second file could be removed; another is a conflict.
CreateDuplicate(r, original) ==
    LET k == request[r].key IN
    /\ Unspool(r)
    /\ IF request[original].hash = request[r].hash /\ backlog' = backlog
       THEN /\ reservation' = [reservation EXCEPT ![k] = [id |-> original, command |-> r]]
            /\ HandOver(k, original)
            /\ Marks(r, "succeeded", original)
       ELSE Release(k) /\ Fails(r) /\ UNCHANGED handoff
    /\ UNCHANGED row

CreateCommits(r) ==
    /\ row' = [row EXCEPT ![r] = "live"]
    /\ HandOver(request[r].key, r)
    /\ Marks(r, "succeeded", r)
    /\ UNCHANGED <<spool, reservation, backlog>>

\* _command_create().
ExecuteCreate(r) ==
    /\ duty = "commands" /\ r \in Running /\ Creates(r)
    /\ LET same == {x \in Requests : row[x] # "none" /\ request[x].key = request[r].key}
       IN \/ CreateRefused(r)
          \/ same = {} /\ CreateCommits(r)
          \/ \E original \in same : CreateDuplicate(r, original)
    /\ UNCHANGED <<requestSide, offer, index, duty, unlinked>>

\* _command_cancel(): the revoke may fail; the file goes first ...
CancelUnlinks(r) ==
    /\ duty = "commands" /\ r \in Running /\ request[r].kind = "cancel"
    /\ LET x == request[r].target
       IN /\ row[x] = "live" /\ spool[x] = "final"
          /\ spool' = [spool EXCEPT ![x] = "none"] /\ unlinked' = unlinked \cup {x}
    /\ UNCHANGED <<requestSide, reservation, registry, row, offer, index, handoff, backlog, duty>>

\* ... and then the row; without either the command fails.
ExecuteCancel(r) ==
    /\ duty = "commands" /\ r \in Running /\ request[r].kind = "cancel"
    /\ LET x == request[r].target
       IN \/ /\ row[x] = "live" /\ spool[x] = "none"
             /\ row' = [row EXCEPT ![x] = "cancelled"] /\ Marks(r, "succeeded", x)
          \/ spool[x] = "final" /\ Fails(r) /\ UNCHANGED row
          \/ row[x] # "live" /\ Fails(r) /\ UNCHANGED row
    /\ UNCHANGED <<requestSide, spool, reservation, offer, index, handoff, backlog, duty, unlinked>>

\* What a command does to the received row, if its state still allows it.
Decided(kind) ==
    CASE kind = "download" /\ offer.state = "waiting" -> {"downloading"}
      [] kind = "reject" /\ offer.state = "waiting" -> {"rejected"}
      [] kind = "retry" /\ offer.state = "downloading" -> {"downloading", "available"}
      [] OTHER -> {}

ExecuteDecision(r) ==
    /\ duty = "commands" /\ r \in Running /\ request[r].kind \in {"download", "reject", "retry"}
    /\ LET to == Decided(request[r].kind)
       IN IF to = {} THEN Fails(r) /\ UNCHANGED offer
          ELSE /\ Marks(r, "succeeded", NoId)
               /\ offer' \in {[offer EXCEPT !.state = s] : s \in to}
    /\ UNCHANGED <<requestSide, spool, reservation, row, index, handoff, backlog, duty, unlinked>>

\* MAX_COMMANDS_PER_TICK is more than an instance has.
DrainEnds ==
    /\ duty = "commands" /\ Running = {} /\ queue = <<>>
    /\ duty' = "rows"
    /\ UNCHANGED <<requestSide, spool, reservation, registry, row, offer, index, handoff, backlog, unlinked>>

\* The due rows are stepped; sending is a module of its own.
StepRows ==
    /\ duty = "rows"
    /\ duty' = "publish"
    /\ offer' \in {offer} \cup (IF offer.state = "downloading" THEN {[offer EXCEPT !.state = "available"]}
                                ELSE {})
    /\ UNCHANGED <<requestSide, spool, reservation, registry, row, index, handoff, backlog, unlinked>>

\* A snapshot that cannot be built leaves the one before.
PublishFails ==
    /\ duty = "publish" /\ duty' = "handoffs"
    /\ UNCHANGED <<requestSide, spool, reservation, registry, row, offer, index, handoff, backlog, unlinked>>

Publish ==
    /\ duty = "publish" /\ duty' = "handoffs"
    /\ index' = row /\ offer' = [offer EXCEPT !.published = offer.state]
    /\ ready' = TRUE
    /\ UNCHANGED <<request, queue, spool, reservation, registry, row, handoff, backlog, unlinked>>

\* _cleanup_committed_reservations(): once the snapshot answers for the key.
Handed(k) == handoff[k] # NoId /\ index[handoff[k]] # "none"
CleanupReservations ==
    /\ duty = "handoffs" /\ duty' = "backlog"
    /\ handoff' = [k \in IdempotencyKeys |-> IF Handed(k) THEN NoId ELSE handoff[k]]
    /\ reservation' = [k \in IdempotencyKeys |-> IF Handed(k) THEN Free ELSE reservation[k]]
    /\ UNCHANGED <<requestSide, spool, registry, row, offer, index, backlog, unlinked>>

DrainSpoolCleanup ==
    /\ duty = "backlog" /\ duty' = "orphans"
    /\ \E kept \in SUBSET backlog :
          /\ backlog' = kept
          /\ spool' = [r \in Requests |-> IF r \in backlog \ kept THEN "none" ELSE spool[r]]
    /\ UNCHANGED <<requestSide, reservation, registry, row, offer, index, handoff, unlinked>>

\* Fault: a command that waits in the queue does not count.
ReferencedByRows == {r \in Requests : row[r] # "none"}

\* _referenced_attachment_ids().
Referenced ==
    {r \in Requests : \/ row[r] # "none"
                      \/ \E k \in IdempotencyKeys : reservation[k].id = r
                      \/ r \in ToSet(queue)}

\* A file is old enough only when its request is long over.
Orphans == {r \in Requests : /\ request[r].pc \notin Active
                             /\ \/ spool[r] = "temporary"
                                \/ spool[r] = "final" /\ r \notin Referenced}

RecoverOrphans ==
    /\ duty = "orphans" /\ duty' = "commands"
    /\ spool' = [r \in Requests |-> IF r \in Orphans THEN "none" ELSE spool[r]]
    /\ UNCHANGED <<requestSide, reservation, registry, row, offer, index, handoff, backlog, unlinked>>

\* Not every tick looks for orphans.
RecoverNothing ==
    /\ duty = "orphans" /\ duty' = "commands"
    /\ UNCHANGED <<requestSide, spool, reservation, registry, row, offer, index, handoff, backlog, unlinked>>

Restart ==
    /\ reservation' = [k \in IdempotencyKeys |-> Free] /\ queue' = <<>>
    /\ registry' = [r \in Requests |-> Forgotten]
    /\ index' = [r \in Requests |-> "none"] /\ handoff' = [k \in IdempotencyKeys |-> NoId] /\ backlog' = {}
    /\ duty' = "commands" /\ ready' = FALSE
    /\ request' = [r \in Requests |-> IF request[r].pc \in Active
                                      THEN [request[r] EXCEPT !.pc = "lost"] ELSE request[r]]
    /\ UNCHANGED <<spool, row, offer, unlinked>>

RequestStep(r) ==
    \/ \E k \in IdempotencyKeys, h \in Hashes : Stage(r, k, h)
    \/ PublishFile(r) \/ Look(r) \/ Reserve(r) \/ Register(r) \/ Enqueue(r)
    \/ \E kind \in Kinds, target \in CommandIds : AskLifecycle(r, kind, target)

Execute(r) == ExecuteCreate(r) \/ CancelUnlinks(r) \/ ExecuteCancel(r) \/ ExecuteDecision(r)

Tick ==
    \/ Take \/ DrainEnds \/ StepRows \/ PublishFails \/ Publish \/ CleanupReservations
    \/ DrainSpoolCleanup \/ RecoverOrphans \/ RecoverNothing
    \/ \E r \in Requests : Execute(r)

CmdNext == Tick \/ Restart \/ \E r \in Requests : RequestStep(r) \/ Evict(r)

Onward(r) == PublishFile(r) \/ Look(r) \/ Reserve(r) \/ Register(r) \/ Enqueue(r)

-----------------------------------------------------------------------------
\* However often a request is repeated, and whatever raced: a create that
\* succeeded names the one row of its key, with its own content, and so does an
\* answer out of the committed index.
OneAttachmentPerKey ==
    \A r \in Requests :
       LET x == IF Is(r, "replay committed") THEN request[r].told ELSE registry[r].resource
       IN Creates(r) /\ x # NoId =>
             /\ row[x] # "none"
             /\ request[x].key = request[r].key /\ request[x].hash = request[r].hash
             /\ \A y \in Requests \ {x} : row[y] # "none" => request[y].key # request[x].key

\* The file of a command that waits, and of a row that was not cancelled, is
\* never taken for an orphan.
SpoolIsKept ==
    \A r \in Requests :
       \/ row[r] = "live" /\ r \notin unlinked
       \/ Creates(r) /\ (r \in ToSet(queue) \/ r \in Running)
       => spool[r] = "final"

\* Every key is set free again: by the failure, or by the published snapshot.
ReservationIsReleased == \A k \in IdempotencyKeys : reservation[k] # Free ~> reservation[k] = Free
=============================================================================
