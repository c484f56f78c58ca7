--------------------------- MODULE MessageDelivery ---------------------------
(***************************************************************************)
(* An outgoing chat message from /api/send to its final status: the       *)
(* request thread stores it "pending" and queues a job, the one send       *)
(* worker takes the queued jobs in batches and sends a batch through the   *)
(* transport, the listener resolves delivery ACKs, ack_timeout_worker      *)
(* gives up on them, and a restart fails what it finds pending.            *)
(*                                                                         *)
(* messages and its file hold the outgoing messages only, each with its    *)
(* id, status, packet id (0: none) and ack_requested; what is received     *)
(* takes room in the same list, which a smaller MaxHistory stands for.     *)
(* packet ids are numbered in the order of transmission.  A crash takes    *)
(* the queue, the worker and the adapter subprocess with it; the file      *)
(* stays.                                                                  *)
(***************************************************************************)
EXTENDS Naturals, Sequences, FiniteSets

CONSTANTS
    Msgs,            \* message ids
    Dms,             \* the direct ones among them, which request an ACK
    MaxHistory,      \* MAX_HISTORY_MESSAGES
    MaxPackets,      \* bound: transmissions in a behaviour
    MaxAsks,         \* bound: requests (send and retries) per message
    MaxRetried,      \* bound: messages that are retried
    MaxCrashes,      \* bound: crashes of the server
    SaveMayFail,     \* safe_write_json may fail (it says so to nobody)
    HandlerMayRaise  \* _handle_send_result may raise after its update

ASSUME MessagesAssumption ==
    /\ Dms \subseteq Msgs
    /\ MaxHistory \in Nat \ {0}
    /\ MaxPackets \in Nat /\ MaxAsks \in Nat /\ MaxRetried \in Nat /\ MaxCrashes \in Nat
    /\ SaveMayFail \in BOOLEAN /\ HandlerMayRaise \in BOOLEAN

VARIABLES
    up,       \* the server runs
    mem,      \* messages
    disk,     \* HISTORY_FILE
    posting,  \* messages whose request thread has not queued its job yet
    queue,    \* send_queue
    wpc,      \* where send_worker stands
    batch,    \* its batch
    results,  \* per job of the batch: packet id, or 0 for not accepted
    at,       \* the job whose result is handled next
    orphan,   \* jobs an abandoned thread of the adapter may still transmit
    air,      \* transmissions so far: message and packet id
    heard,    \* packet ids whose ACK has come in
    asked,    \* per message: requests to send it
    crashes

storeVars == <<mem, disk>>
workerVars == <<wpc, batch, results, at>>
historyVars == <<air, heard, asked, crashes>>
vars == <<up, mem, disk, posting, queue, wpc, batch, results, at, orphan, air,
          heard, asked, crashes>>

Statuses == {"pending", "sent", "failed", "delivered", "unconfirmed"}
Record == [id : Msgs, status : Statuses, pid : 0..MaxPackets, ack : BOOLEAN]

TypeOK ==
    /\ up \in BOOLEAN
    /\ mem \in Seq(Record) /\ Len(mem) <= MaxHistory
    /\ disk \in Seq(Record) /\ Len(disk) <= MaxHistory
    /\ posting \subseteq Msgs
    /\ queue \in Seq(Msgs)
    /\ wpc \in {"wait", "check", "sending", "results", "except"}
    /\ batch \in Seq(Msgs)
    /\ results \in Seq(0..MaxPackets)
    /\ at \in Nat
    /\ orphan \in Seq(Msgs)
    /\ air \subseteq [id : Msgs, pid : 1..MaxPackets]
    /\ heard \subseteq 1..MaxPackets
    /\ asked \in [Msgs -> 0..MaxAsks]
    /\ crashes \in 0..MaxCrashes

Init ==
    /\ up = TRUE
    /\ mem = <<>>
    /\ disk = <<>>
    /\ posting = {}
    /\ queue = <<>>
    /\ wpc = "wait"
    /\ batch = <<>>
    /\ results = <<>>
    /\ at = 1
    /\ orphan = <<>>
    /\ air = {}
    /\ heard = {}
    /\ asked = [m \in Msgs |-> 0]
    /\ crashes = 0

-----------------------------------------------------------------------------
(* The message store *)

\* Fault: the history is cut before the new message is appended.
KeepTooMany(s) ==
    SubSeq(s, IF Len(s) > MaxHistory + 1 THEN Len(s) - MaxHistory ELSE 1, Len(s))

KeepLast(s) ==
    SubSeq(s, IF Len(s) > MaxHistory THEN Len(s) - MaxHistory + 1 ELSE 1, Len(s))

\* save_messages() after a change: on failure the file stays as it was.
Store(new) ==
    /\ mem' = new
    /\ \/ disk' = new
       \/ SaveMayFail /\ disk' = disk

\* The messages with a new status for m, and its packet id if there is one
\* (0: none), with which a direct message begins to await its ACK.
Changed(m, status, pid) ==
    [i \in 1..Len(mem) |->
        IF mem[i].id # m THEN mem[i]
        ELSE IF pid = 0 THEN [mem[i] EXCEPT !.status = status]
        ELSE [mem[i] EXCEPT !.status = status, !.pid = pid, !.ack = m \in Dms]]

Has(m, status) == \E i \in 1..Len(mem) : mem[i].id = m /\ mem[i].status = status

\* update_message_status: no message of that id (deleted, or pushed out of
\* the history) is no error, and saves nothing.
UpdateStatus(m, status, pid) ==
    IF \E i \in 1..Len(mem) : mem[i].id = m
    THEN Store(Changed(m, status, pid))
    ELSE UNCHANGED storeVars

MarkFailed(m) == UpdateStatus(m, "failed", 0)

-----------------------------------------------------------------------------
(* Request threads *)

\* /api/send: add_message under state_lock ...
Post(m) ==
    /\ up
    /\ asked[m] = 0 /\ asked[m] < MaxAsks
    /\ Store(KeepLast(Append(mem, [id |-> m, status |-> "pending",
                                   pid |-> 0, ack |-> FALSE])))
    /\ posting' = posting \cup {m}
    /\ asked' = [asked EXCEPT ![m] = 1]
    /\ UNCHANGED <<up, queue, workerVars, orphan, air, heard, crashes>>

Retried == {m \in Msgs : asked[m] > 1}

\* Fault: a retry is accepted whatever the status.
RetryAnyStatus(m) ==
    /\ up
    /\ \E status \in Statuses : Has(m, status)
    /\ m \notin posting
    /\ asked[m] < MaxAsks /\ Cardinality(Retried \cup {m}) <= MaxRetried
    /\ Store(Changed(m, "pending", 0))
    /\ posting' = posting \cup {m}
    /\ asked' = [asked EXCEPT ![m] = @ + 1]
    /\ UNCHANGED <<up, queue, workerVars, orphan, air, heard, crashes>>

\* /api/send/retry: only a failed message, and under state_lock, so that a
\* second click finds it pending ...
Retry(m) ==
    /\ up
    /\ Has(m, "failed")
    /\ m \notin posting
    /\ asked[m] < MaxAsks /\ Cardinality(Retried \cup {m}) <= MaxRetried
    /\ Store(Changed(m, "pending", 0))
    /\ posting' = posting \cup {m}
    /\ asked' = [asked EXCEPT ![m] = @ + 1]
    /\ UNCHANGED <<up, queue, workerVars, orphan, air, heard, crashes>>

\* ... and both: send_queue.put, after the lock.
Enqueue(m) ==
    /\ up
    /\ m \in posting
    /\ posting' = posting \ {m}
    /\ queue' = Append(queue, m)
    /\ UNCHANGED <<up, storeVars, workerVars, orphan, historyVars>>

\* /api/messages/delete: the job, if there is one, stays where it is.
Delete(m) ==
    /\ up
    /\ \E i \in 1..Len(mem) :
          /\ mem[i].id = m
          /\ \A j \in 1..(i - 1) : mem[j].id # m
          /\ Store(SubSeq(mem, 1, i - 1) \o SubSeq(mem, i + 1, Len(mem)))
    /\ UNCHANGED <<up, posting, queue, workerVars, orphan, historyVars>>

-----------------------------------------------------------------------------
(* send_worker *)

\* Fault: the batch is the whole queue, yet only its first job is removed.
TakeLeavesRest ==
    /\ up /\ wpc = "wait" /\ queue # <<>>
    /\ batch' = queue
    /\ queue' = Tail(queue)
    /\ wpc' = "check"
    /\ UNCHANGED <<up, storeVars, posting, results, at, orphan, historyVars>>

\* One get(), and what else comes in within the accumulation window.
WorkerTakes ==
    /\ up /\ wpc = "wait"
    /\ \E n \in 1..Len(queue) :
          /\ batch' = SubSeq(queue, 1, n)
          /\ queue' = SubSeq(queue, n + 1, Len(queue))
    /\ wpc' = "check"
    /\ UNCHANGED <<up, storeVars, posting, results, at, orphan, historyVars>>

NotAccepted == [i \in 1..Len(batch) |-> 0]

\* The radio is released: every job fails.
WorkerRefuses ==
    /\ up /\ wpc = "check"
    /\ results' = NotAccepted
    /\ wpc' = "results"
    /\ UNCHANGED <<up, storeVars, posting, queue, batch, at, orphan, historyVars>>

WorkerSends ==
    /\ up /\ wpc = "check"
    /\ results' = <<>>
    /\ wpc' = "sending"
    /\ UNCHANGED <<up, storeVars, posting, queue, batch, at, orphan, historyVars>>

Transmitted(m, pid) == air' = air \cup {[id |-> m, pid |-> pid]}
Packets == Cardinality(air)

\* In the adapter: the next message goes out, or sendText raises.
AdapterSends ==
    /\ up /\ wpc = "sending"
    /\ Len(results) < Len(batch)
    /\ \/ /\ Packets < MaxPackets
          /\ Transmitted(batch[Len(results) + 1], Packets + 1)
          /\ results' = Append(results, Packets + 1)
       \/ /\ UNCHANGED air
          /\ results' = Append(results, 0)
    /\ UNCHANGED <<up, storeVars, posting, queue, wpc, batch, at, orphan, heard,
                   asked, crashes>>

SendReturns ==
    /\ up /\ wpc = "sending"
    /\ Len(results) = Len(batch)
    /\ wpc' = "results"
    /\ UNCHANGED <<up, storeVars, posting, queue, batch, results, at, orphan,
                   historyVars>>

\* The adapter's own timeout comes back as accepted=False for every job,
\* and the abandoned thread may go on with the rest.
SendTimesOut ==
    /\ up /\ wpc = "sending"
    /\ results' = NotAccepted
    /\ orphan' = orphan \o SubSeq(batch, Len(results) + 1, Len(batch))
    /\ wpc' = "results"
    /\ UNCHANGED <<up, storeVars, posting, queue, batch, at, historyVars>>

\* send_messages raises: the router, the port or the adapter is not to be
\* had, or the adapter had to be killed.
SendRaises ==
    /\ up /\ wpc = "sending"
    /\ \/ results = <<>> /\ UNCHANGED orphan
       \/ orphan' = <<>>
    /\ wpc' = "except"
    /\ UNCHANGED <<up, storeVars, posting, queue, batch, results, at, historyVars>>

OrphanSends ==
    /\ up /\ orphan # <<>>
    /\ \/ Packets < MaxPackets /\ Transmitted(Head(orphan), Packets + 1)
       \/ UNCHANGED air
    /\ orphan' = Tail(orphan)
    /\ UNCHANGED <<up, storeVars, posting, queue, workerVars, heard, asked,
                   crashes>>

\* The next job of the batch; after the last one, the next batch.
Advance(label) ==
    IF at < Len(batch)
    THEN at' = at + 1 /\ wpc' = label /\ UNCHANGED <<batch, results>>
    ELSE at' = 1 /\ wpc' = "wait" /\ batch' = <<>> /\ results' = <<>>

\* Fault: a result is stored under the job before it.
SentShifted(m, pid) == UpdateStatus(m, "sent", IF pid > 1 THEN pid - 1 ELSE pid)

Sent(m, pid) == UpdateStatus(m, "sent", pid)

HandleResult ==
    /\ up /\ wpc = "results"
    /\ IF results[at] = 0 THEN MarkFailed(batch[at]) ELSE Sent(batch[at], results[at])
    /\ Advance("results")
    /\ UNCHANGED <<up, posting, queue, orphan, historyVars>>

\* Something after the update raises: all jobs of the batch will be failed,
\* those already handled too.
HandlerRaises ==
    /\ HandlerMayRaise
    /\ up /\ wpc = "results"
    /\ results[at] # 0
    /\ Sent(batch[at], results[at])
    /\ wpc' = "except"
    /\ at' = 1
    /\ UNCHANGED <<up, posting, queue, batch, results, orphan, historyVars>>

\* Fault: the handler logs the exception and drops the batch.
ExceptDropsBatch ==
    /\ up /\ wpc = "except"
    /\ at' = 1 /\ wpc' = "wait" /\ batch' = <<>> /\ results' = <<>>
    /\ UNCHANGED <<up, storeVars, posting, queue, orphan, historyVars>>

WorkerExcept ==
    /\ up /\ wpc = "except"
    /\ MarkFailed(batch[at])
    /\ Advance("except")
    /\ UNCHANGED <<up, posting, queue, orphan, historyVars>>

SendWorker ==
    \/ WorkerTakes \/ WorkerRefuses \/ WorkerSends \/ AdapterSends
    \/ SendReturns \/ SendTimesOut \/ SendRaises \/ HandleResult
    \/ HandlerRaises \/ WorkerExcept

-----------------------------------------------------------------------------
(* Delivery ACKs, restarts *)

AwaitsAck(r) == r.status = "sent" /\ r.ack

\* process_routing_ack_line: an ACK or NAK (repeated ones included) counts
\* for the newest message of its packet id, while that awaits it.
AckArrives(t, status) ==
    /\ up
    /\ t \in air /\ t.id \in Dms
    /\ heard' = IF status = "delivered" THEN heard \cup {t.pid} ELSE heard
    /\ \E i \in 1..Len(mem) :
          /\ mem[i].pid = t.pid
          /\ \A j \in i + 1..Len(mem) : mem[j].pid # t.pid
          /\ AwaitsAck(mem[i])
          /\ Store([mem EXCEPT ![i].status = status])
    /\ UNCHANGED <<up, posting, queue, workerVars, orphan, air, asked, crashes>>

\* Fault: the worker does not look at the status.
AckTimesOutBlindly(m) ==
    /\ up
    /\ \E i \in 1..Len(mem) :
          /\ mem[i].id = m /\ mem[i].ack /\ mem[i].status # "unconfirmed"
          /\ Store([mem EXCEPT ![i].status = "unconfirmed"])
    /\ UNCHANGED <<up, posting, queue, workerVars, orphan, historyVars>>

\* ack_timeout_worker, past the ack_deadline.
AckTimesOut(m) ==
    /\ up
    /\ \E i \in 1..Len(mem) :
          /\ mem[i].id = m /\ AwaitsAck(mem[i])
          /\ Store([mem EXCEPT ![i].status = "unconfirmed"])
    /\ UNCHANGED <<up, posting, queue, workerVars, orphan, historyVars>>

Crash ==
    /\ up
    /\ crashes < MaxCrashes
    /\ up' = FALSE
    /\ crashes' = crashes + 1
    /\ mem' = <<>> /\ posting' = {} /\ queue' = <<>> /\ orphan' = <<>>
    /\ wpc' = "wait" /\ batch' = <<>> /\ results' = <<>> /\ at' = 1
    /\ UNCHANGED <<disk, air, heard, asked>>

\* Fault: the reconciliation is forgotten.
RestartAsIs ==
    /\ ~up
    /\ up' = TRUE
    /\ mem' = disk
    /\ UNCHANGED <<disk, posting, queue, workerVars, orphan, historyVars>>

\* start_runtime: load_messages, reconcile_interrupted_sends.
Restart ==
    /\ ~up
    /\ up' = TRUE
    /\ LET reconciled == [i \in 1..Len(disk) |->
              IF disk[i].status = "pending" THEN [disk[i] EXCEPT !.status = "failed"] ELSE disk[i]]
       IN Store(reconciled)
    /\ UNCHANGED <<posting, queue, workerVars, orphan, historyVars>>

-----------------------------------------------------------------------------
Next ==
    \/ \E m \in Msgs : Post(m) \/ Retry(m) \/ Enqueue(m) \/ Delete(m)
    \/ SendWorker
    \/ OrphanSends
    \/ \E t \in air, status \in {"delivered", "unconfirmed"} : AckArrives(t, status)
    \/ \E m \in Msgs : AckTimesOut(m)
    \/ Crash
    \/ Restart

Spec == Init /\ [][Next]_vars

\* A request thread goes on to its put(), the worker and the ACK watch go
\* on (send_messages is bounded by its timeout), the service manager
\* restarts the server.  No ACK is promised.
FairSpec ==
    /\ Spec
    /\ \A m \in Msgs : WF_vars(Enqueue(m)) /\ WF_vars(AckTimesOut(m))
    /\ WF_vars(SendWorker)
    /\ WF_vars(Restart)

-----------------------------------------------------------------------------
(* Properties *)

Ahead == {batch[i] : i \in (IF wpc = "wait" THEN 1 ELSE at)..Len(batch)}
Queued == {queue[i] : i \in 1..Len(queue)}

\* A message shown as pending is on its way: some thread still has its job.
\* A restart, which loses all jobs, leaves none pending.
PendingHasJob ==
    up => \A i \in 1..Len(mem) :
             mem[i].status = "pending" => mem[i].id \in posting \cup Queued \cup Ahead

\* No message has two jobs: a second click finds it pending, and what waits for
\* the worker is pending (api_chat.py:631-678). An exception after a status was
\* stored breaks it: it fails the whole batch, and with it a message that has
\* been retried already (221-230).
OneJobPerMessage ==
    \A i, j \in 1..Len(queue) : queue[i] = queue[j] => i = j /\ queue[i] \notin posting

\* A message is on the air at most as often as the user asked for it,
\* whatever crashes, times out or raises in between.
NoDoubleSend ==
    \A m \in Msgs : Cardinality({t \in air : t.id = m}) <= asked[m]

\* "sent", "delivered" and "unconfirmed" are never claimed of a message that
\* did not go out, and an ACK is credited to the message it acknowledges.
StatusIsEarned ==
    \A i \in 1..Len(mem) :
       /\ mem[i].status \in {"sent", "delivered", "unconfirmed"} =>
             [id |-> mem[i].id, pid |-> mem[i].pid] \in air
       /\ mem[i].status = "delivered" => mem[i].pid \in heard

\* A final status stays: nothing turns a delivered message into anything
\* else, or a message given up on into a delivered one.  Where a handler may
\* raise it does not hold: its exception fails the whole batch, and a message
\* that is retried twice meanwhile is handled twice (api_chat.py:221-230).
FinalIsFinal ==
    [][up /\ up' =>
       \A i \in 1..Len(mem), j \in 1..Len(mem') :
          mem[i].id = mem'[j].id /\ mem[i].status \in {"delivered", "unconfirmed"}
          => mem'[j].status = mem[i].status]_vars

\* No message stays pending, and no direct message stays without an outcome:
\* a message that waits for the worker or for its ACK comes to an end of it.
Unresolved(m) ==
    \E i \in 1..Len(mem) :
       mem[i].id = m /\ (mem[i].status = "pending" \/ AwaitsAck(mem[i]))

EveryMessageResolves == \A m \in Msgs : Unresolved(m) ~> ~Unresolved(m)
=============================================================================
