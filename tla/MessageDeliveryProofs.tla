------------------------ MODULE MessageDeliveryProofs ------------------------
(***************************************************************************)
(* Proofs about MessageDelivery for every number of messages, length of    *)
(* the history, crashes and transmissions.                                 *)
(***************************************************************************)
EXTENDS MessageDelivery, FiniteSetTheorems, SequenceTheorems, TLAPS

\* Where the worker stands bounds what its locals hold.
PlaceInv ==
    /\ wpc = "wait" => batch = <<>> /\ results = <<>>
    /\ wpc \in {"wait", "check", "sending"} => at = 1
    /\ wpc # "wait" => Len(batch) >= 1
    /\ wpc = "sending" => Len(results) <= Len(batch)
    /\ wpc = "results" => Len(results) = Len(batch)
    /\ wpc \in {"results", "except"} => at \in 1..Len(batch)
    /\ ~up => wpc = "wait" /\ posting = {} /\ queue = <<>> /\ mem = <<>>

TypeInv == TypeOK /\ PlaceInv /\ IsFiniteSet(air)

-----------------------------------------------------------------------------
(* What the operations on the history return.                              *)

LEMMA KeepLastKeeps ==
    ASSUME NEW S, NEW s \in Seq(S), Len(s) <= MaxHistory + 1
    PROVE  /\ KeepLast(s) \in Seq(S)
           /\ Len(KeepLast(s)) <= MaxHistory
           /\ \A i \in 1..Len(KeepLast(s)) : \E j \in 1..Len(s) : KeepLast(s)[i] = s[j]
<1> DEFINE first == IF Len(s) > MaxHistory THEN Len(s) - MaxHistory + 1 ELSE 1
<1>1. MaxHistory \in Nat \ {0} /\ Len(s) \in Nat
  BY MessagesAssumption, LenProperties
<1>2. first \in 1..(Len(s) + 1) /\ first \in Nat
  BY <1>1
<1>3. KeepLast(s) = SubSeq(s, first, Len(s))
  BY DEF KeepLast
<1>4. /\ SubSeq(s, first, Len(s)) \in Seq(S)
      /\ Len(SubSeq(s, first, Len(s))) = IF first <= Len(s) THEN Len(s) - first + 1 ELSE 0
      /\ \A i \in 1..(Len(s) - first + 1) : SubSeq(s, first, Len(s))[i] = s[first + i - 1]
  BY <1>1, <1>2, SubSeqProperties
<1>5. Len(KeepLast(s)) <= MaxHistory
  BY <1>1, <1>2, <1>3, <1>4
<1>6. ASSUME NEW i \in 1..Len(KeepLast(s))
      PROVE  \E j \in 1..Len(s) : KeepLast(s)[i] = s[j]
  <2>1. i \in 1..(Len(s) - first + 1) /\ first + i - 1 \in 1..Len(s)
    BY <1>1, <1>2, <1>3, <1>4, <1>6
  <2> QED
    BY <1>3, <1>4, <2>1, SMTT(30)
<1> QED
  BY <1>3, <1>4, <1>5, <1>6

LEMMA ChangedKeeps ==
    ASSUME NEW m, NEW status \in Statuses, NEW pid \in 0..MaxPackets, TypeOK
    PROVE  /\ Changed(m, status, pid) \in Seq(Record)
           /\ Len(Changed(m, status, pid)) = Len(mem)
           /\ \A i \in 1..Len(mem) : Changed(m, status, pid)[i].id = mem[i].id
<1>1. mem \in Seq(Record) /\ Len(mem) \in Nat
  BY LenProperties DEF TypeOK
<1>2. \A i \in 1..Len(mem) : mem[i] \in Record
  BY <1>1, ElementOfSeq
<1>3. \A i \in 1..Len(mem) : /\ Changed(m, status, pid)[i] \in Record
                             /\ Changed(m, status, pid)[i].id = mem[i].id
  <2> SUFFICES ASSUME NEW i \in 1..Len(mem)
               PROVE  /\ Changed(m, status, pid)[i] \in Record
                      /\ Changed(m, status, pid)[i].id = mem[i].id
    OBVIOUS
  <2> DEFINE b == m \in Dms
  <2>1. b \in BOOLEAN
    OBVIOUS
  <2>2. Changed(m, status, pid)[i] =
           IF mem[i].id # m THEN mem[i]
           ELSE IF pid = 0 THEN [mem[i] EXCEPT !.status = status]
           ELSE [mem[i] EXCEPT !.status = status, !.pid = pid, !.ack = b]
    BY DEF Changed
  <2> HIDE DEF b
  <2> QED
    BY <1>2, <2>1, <2>2 DEF Record
<1>4. Changed(m, status, pid) \in [1..Len(mem) -> Record]
  BY <1>3 DEF Changed
<1>5. Changed(m, status, pid) \in Seq(Record)
  BY <1>1, <1>4, SeqDef
<1>6. Len(Changed(m, status, pid)) = Len(mem)
  BY <1>1, <1>4, <1>5, LenProperties
<1> QED
  BY <1>3, <1>5, <1>6

LEMMA WithoutKeeps ==
    ASSUME NEW S, NEW s \in Seq(S), NEW i \in 1..Len(s)
    PROVE  LET r == SubSeq(s, 1, i - 1) \o SubSeq(s, i + 1, Len(s)) IN
           /\ r \in Seq(S) /\ Len(r) <= Len(s)
           /\ \A k \in 1..Len(r) : \E j \in 1..Len(s) : r[k] = s[j]
<1> DEFINE a == SubSeq(s, 1, i - 1)
           b == SubSeq(s, i + 1, Len(s))
<1>1. Len(s) \in Nat
  BY LenProperties
<1>2. /\ a \in Seq(S) /\ Len(a) = i - 1
      /\ \A k \in 1..(i - 1) : a[k] = s[k]
  BY <1>1, SubSeqProperties
<1>3. /\ b \in Seq(S) /\ Len(b) = Len(s) - i
      /\ \A k \in 1..(Len(s) - i) : b[k] = s[i + k]
  BY <1>1, SubSeqProperties
<1> HIDE DEF a, b
<1>4. /\ a \o b \in Seq(S) /\ Len(a \o b) = Len(s) - 1
      /\ \A k \in 1..(Len(s) - 1) : (a \o b)[k] = IF k < i THEN a[k] ELSE b[k - (i - 1)]
  <2>1. /\ a \o b \in Seq(S) /\ Len(a \o b) = Len(a) + Len(b)
        /\ \A k \in 1..(Len(a) + Len(b)) :
              (a \o b)[k] = IF k <= Len(a) THEN a[k] ELSE b[k - Len(a)]
    BY <1>2, <1>3, ConcatProperties
  <2> QED
    BY <1>1, <1>2, <1>3, <2>1
<1>5. ASSUME NEW k \in 1..(Len(s) - 1)
      PROVE  \E j \in 1..Len(s) : (a \o b)[k] = s[j]
  <2>1. CASE k < i
    BY <2>1, <1>1, <1>2, <1>4
  <2>2. CASE ~(k < i)
    <3>1. k - (i - 1) \in 1..(Len(s) - i) /\ k + 1 \in 1..Len(s) /\ i + (k - (i - 1)) = k + 1
      BY <2>2, <1>1
    <3> QED
      BY <2>2, <3>1, <1>3, <1>4
  <2> QED
    BY <2>1, <2>2
<1>6. Len(a \o b) <= Len(s)
  BY <1>1, <1>4
<1>7. ASSUME NEW k \in 1..Len(a \o b)
      PROVE  \E j \in 1..Len(s) : (a \o b)[k] = s[j]
  <2>1. k \in 1..(Len(s) - 1)
    BY <1>4
  <2> QED
    BY <1>5, <2>1
<1> QED
  BY <1>4, <1>6, <1>7 DEF a, b

-----------------------------------------------------------------------------
(* Types                                                                   *)

LEMMA StoreType ==
    ASSUME TypeOK, NEW new \in Seq(Record), Len(new) <= MaxHistory, Store(new)
    PROVE  /\ mem' \in Seq(Record) /\ Len(mem') <= MaxHistory
           /\ disk' \in Seq(Record) /\ Len(disk') <= MaxHistory
  BY DEF TypeOK, Store

LEMMA UpdateType ==
    ASSUME TypeOK, NEW m, NEW status \in Statuses, NEW pid \in 0..MaxPackets,
           UpdateStatus(m, status, pid)
    PROVE  /\ mem' \in Seq(Record) /\ Len(mem') <= MaxHistory
           /\ disk' \in Seq(Record) /\ Len(disk') <= MaxHistory
<1>1. Len(Changed(m, status, pid)) <= MaxHistory
  BY ChangedKeeps DEF TypeOK
<1> QED
  BY <1>1, ChangedKeeps, StoreType DEF UpdateStatus, storeVars, TypeOK

LEMMA FailedType ==
    ASSUME TypeOK, NEW m, MarkFailed(m)
    PROVE  /\ mem' \in Seq(Record) /\ Len(mem') <= MaxHistory
           /\ disk' \in Seq(Record) /\ Len(disk') <= MaxHistory
  BY UpdateType, MessagesAssumption DEF MarkFailed, Statuses

LEMMA InitType == Init => TypeInv
<1> SUFFICES ASSUME Init PROVE TypeInv
  OBVIOUS
<1>1. /\ mem \in Seq(Record) /\ Len(mem) = 0 /\ disk \in Seq(Record) /\ Len(disk) = 0
      /\ queue \in Seq(Msgs) /\ batch \in Seq(Msgs) /\ orphan \in Seq(Msgs)
      /\ results \in Seq(0..MaxPackets)
  BY EmptySeq DEF Init
<1>2. IsFiniteSet(air)
  BY FS_EmptySet DEF Init
<1> QED
  BY <1>1, <1>2, MessagesAssumption DEF Init, TypeInv, TypeOK, PlaceInv

LEMMA PostType == ASSUME TypeInv, NEW m \in Msgs, Post(m) PROVE TypeInv'
<1> DEFINE new == [id |-> m, status |-> "pending", pid |-> 0, ack |-> FALSE]
<1>1. new \in Record
  BY MessagesAssumption DEF Record, Statuses
<1>2. /\ Append(mem, new) \in Seq(Record)
      /\ Len(Append(mem, new)) <= MaxHistory + 1
  BY <1>1, AppendProperties, MessagesAssumption, LenProperties DEF TypeInv, TypeOK
<1>3. /\ KeepLast(Append(mem, new)) \in Seq(Record)
      /\ Len(KeepLast(Append(mem, new))) <= MaxHistory
  BY <1>2, KeepLastKeeps
<1>4. /\ mem' \in Seq(Record) /\ Len(mem') <= MaxHistory
      /\ disk' \in Seq(Record) /\ Len(disk') <= MaxHistory
  BY <1>3, StoreType DEF Post, TypeInv
<1>5. /\ posting' = posting \cup {m} /\ asked' = [asked EXCEPT ![m] = 1] /\ up
      /\ UNCHANGED <<up, queue, wpc, batch, results, at, orphan, air, heard, crashes>>
      /\ 1 \in 0..MaxAsks
  BY MessagesAssumption DEF Post, workerVars
<1>6. posting' \subseteq Msgs /\ asked' \in [Msgs -> 0..MaxAsks]
  BY <1>5 DEF TypeInv, TypeOK
<1>7. TypeOK'
  BY <1>4, <1>5, <1>6 DEF TypeInv, TypeOK
<1>8. PlaceInv'
  BY <1>5 DEF TypeInv, PlaceInv
<1> QED
  BY <1>5, <1>7, <1>8 DEF TypeInv

LEMMA RetryType == ASSUME TypeInv, NEW m \in Msgs, Retry(m) PROVE TypeInv'
<1>1. /\ Changed(m, "pending", 0) \in Seq(Record)
      /\ Len(Changed(m, "pending", 0)) <= MaxHistory
  <2>1. "pending" \in Statuses /\ 0 \in 0..MaxPackets /\ TypeOK /\ Len(mem) <= MaxHistory
    BY MessagesAssumption DEF Statuses, TypeInv, TypeOK
  <2>2. /\ Changed(m, "pending", 0) \in Seq(Record)
        /\ Len(Changed(m, "pending", 0)) = Len(mem)
    BY <2>1, ChangedKeeps
  <2> QED
    BY <2>1, <2>2
<1>2. /\ mem' \in Seq(Record) /\ Len(mem') <= MaxHistory
      /\ disk' \in Seq(Record) /\ Len(disk') <= MaxHistory
  BY <1>1, StoreType DEF Retry, TypeInv
<1>3. asked' \in [Msgs -> 0..MaxAsks]
  BY MessagesAssumption, SMTT(30) DEF TypeInv, TypeOK, Retry
<1> QED
  BY <1>2, <1>3 DEF TypeInv, TypeOK, PlaceInv, Retry, workerVars

LEMMA EnqueueType == ASSUME TypeInv, NEW m \in Msgs, Enqueue(m) PROVE TypeInv'
  BY AppendProperties DEF TypeInv, TypeOK, PlaceInv, Enqueue, workerVars, storeVars, historyVars

LEMMA DeleteType == ASSUME TypeInv, NEW m \in Msgs, Delete(m) PROVE TypeInv'
<1>1. PICK i \in 1..Len(mem) : Store(SubSeq(mem, 1, i - 1) \o SubSeq(mem, i + 1, Len(mem)))
  BY DEF Delete
<1> DEFINE rest == SubSeq(mem, 1, i - 1) \o SubSeq(mem, i + 1, Len(mem))
<1>2. rest \in Seq(Record) /\ Len(rest) <= Len(mem)
  BY WithoutKeeps DEF TypeInv, TypeOK
<1>3. Len(rest) \in Nat /\ Len(mem) \in Nat /\ Len(mem) <= MaxHistory
  BY <1>2, LenProperties DEF TypeInv, TypeOK
<1> HIDE DEF rest
<1>4. Len(rest) <= MaxHistory
  BY <1>2, <1>3, MessagesAssumption
<1>5. /\ mem' \in Seq(Record) /\ Len(mem') <= MaxHistory
      /\ disk' \in Seq(Record) /\ Len(disk') <= MaxHistory
  BY <1>1, <1>2, <1>4, StoreType DEF TypeInv, rest
<1> QED
  BY <1>5 DEF TypeInv, TypeOK, PlaceInv, Delete, workerVars, historyVars

LEMMA TakeType == ASSUME TypeInv, WorkerTakes PROVE TypeInv'
<1>1. PICK n \in 1..Len(queue) : /\ batch' = SubSeq(queue, 1, n)
                                 /\ queue' = SubSeq(queue, n + 1, Len(queue))
  BY DEF WorkerTakes
<1>2. queue \in Seq(Msgs) /\ Len(queue) \in Nat /\ \A i \in 1..Len(queue) : queue[i] \in Msgs
  BY LenProperties, ElementOfSeq DEF TypeInv, TypeOK
<1>3. batch' \in Seq(Msgs) /\ Len(batch') = n
  BY <1>1, <1>2, SubSeqProperties
<1>4. queue' \in Seq(Msgs)
  BY <1>1, <1>2, SubSeqProperties
<1> QED
  BY <1>3, <1>4, SMTT(30) DEF TypeInv, TypeOK, PlaceInv, WorkerTakes, storeVars, historyVars

LEMMA RefuseType == ASSUME TypeInv, WorkerRefuses PROVE TypeInv'
<1>1. Len(batch) \in Nat
  BY LenProperties DEF TypeInv, TypeOK
<1>2. NotAccepted \in Seq(0..MaxPackets) /\ Len(NotAccepted) = Len(batch)
  <2>1. NotAccepted \in [1..Len(batch) -> 0..MaxPackets]
    BY MessagesAssumption DEF NotAccepted
  <2>2. NotAccepted \in Seq(0..MaxPackets)
    BY <1>1, <2>1, SeqDef
  <2> QED
    BY <1>1, <2>1, <2>2, LenProperties
<1> QED
  BY <1>1, <1>2 DEF TypeInv, TypeOK, PlaceInv, WorkerRefuses, storeVars, historyVars

LEMMA SendsType == ASSUME TypeInv, WorkerSends PROVE TypeInv'
<1>1. <<>> \in Seq(0..MaxPackets) /\ Len(<<>>) = 0 /\ Len(batch) \in Nat
  BY EmptySeq, LenProperties DEF TypeInv, TypeOK
<1> QED
  BY <1>1 DEF TypeInv, TypeOK, PlaceInv, WorkerSends, storeVars, historyVars

\* One more transmission: the set of transmissions stays finite, and its size
\* is the number of the next one.
LEMMA TransmittedType ==
    ASSUME TypeInv, NEW m \in Msgs, Packets < MaxPackets, Transmitted(m, Packets + 1)
    PROVE  /\ Packets + 1 \in 1..MaxPackets
           /\ air' \subseteq [id : Msgs, pid : 1..MaxPackets]
           /\ IsFiniteSet(air')
<1>1. Packets \in Nat
  BY FS_CardinalityType DEF TypeInv, Packets
<1>2. Packets + 1 \in 1..MaxPackets
  BY <1>1, MessagesAssumption
<1>3. IsFiniteSet(air')
  BY FS_AddElement DEF TypeInv, Transmitted
<1> HIDE DEF Packets
<1> QED
  BY <1>2, <1>3 DEF TypeInv, TypeOK, Transmitted

LEMMA AdapterType == ASSUME TypeInv, AdapterSends PROVE TypeInv'
<1>1. /\ Len(results) \in Nat /\ Len(batch) \in Nat
      /\ Len(results) + 1 \in 1..Len(batch)
      /\ \A i \in 1..Len(batch) : batch[i] \in Msgs
  BY LenProperties, ElementOfSeq, SMTT(30) DEF TypeInv, TypeOK, AdapterSends
<1>2. CASE /\ Packets < MaxPackets
           /\ Transmitted(batch[Len(results) + 1], Packets + 1)
           /\ results' = Append(results, Packets + 1)
  <2>1. /\ Packets + 1 \in 1..MaxPackets
        /\ air' \subseteq [id : Msgs, pid : 1..MaxPackets]
        /\ IsFiniteSet(air')
    BY <1>1, <1>2, TransmittedType
  <2>2. Packets + 1 \in 0..MaxPackets
    BY <2>1, MessagesAssumption
  <2> HIDE DEF Packets
  <2>3. results' \in Seq(0..MaxPackets) /\ Len(results') = Len(results) + 1
    BY <1>2, <2>2, AppendProperties DEF TypeInv, TypeOK
  <2> QED
    BY <1>1, <2>1, <2>3, SMTT(30) DEF TypeInv, TypeOK, PlaceInv, AdapterSends, storeVars
<1>3. CASE UNCHANGED air /\ results' = Append(results, 0)
  <2>1. results' \in Seq(0..MaxPackets) /\ Len(results') = Len(results) + 1
    BY <1>3, AppendProperties, MessagesAssumption DEF TypeInv, TypeOK
  <2> QED
    BY <1>1, <1>3, <2>1 DEF TypeInv, TypeOK, PlaceInv, AdapterSends, storeVars
<1> QED
  BY <1>2, <1>3 DEF AdapterSends

LEMMA ReturnType == ASSUME TypeInv, SendReturns PROVE TypeInv'
<1>1. Len(batch) \in Nat
  BY LenProperties DEF TypeInv, TypeOK
<1> QED
  BY <1>1 DEF TypeInv, TypeOK, PlaceInv, SendReturns, storeVars, historyVars

LEMMA TimeOutType == ASSUME TypeInv, SendTimesOut PROVE TypeInv'
<1>1. Len(batch) \in Nat /\ Len(results) \in Nat /\ \A i \in 1..Len(batch) : batch[i] \in Msgs
  BY LenProperties, ElementOfSeq DEF TypeInv, TypeOK
<1>2. NotAccepted \in Seq(0..MaxPackets) /\ Len(NotAccepted) = Len(batch)
  <2>1. NotAccepted \in [1..Len(batch) -> 0..MaxPackets]
    BY MessagesAssumption DEF NotAccepted
  <2>2. NotAccepted \in Seq(0..MaxPackets)
    BY <1>1, <2>1, SeqDef
  <2> QED
    BY <1>1, <2>1, <2>2, LenProperties
<1>3. SubSeq(batch, Len(results) + 1, Len(batch)) \in Seq(Msgs)
  BY <1>1, SubSeqProperties
<1>4. orphan' \in Seq(Msgs)
  BY <1>3, ConcatProperties DEF TypeInv, TypeOK, SendTimesOut
<1> QED
  BY <1>1, <1>2, <1>4, SMTT(30) DEF TypeInv, TypeOK, PlaceInv, SendTimesOut, storeVars, historyVars

LEMMA RaiseType == ASSUME TypeInv, SendRaises PROVE TypeInv'
<1>1. Len(batch) \in Nat
  BY LenProperties DEF TypeInv, TypeOK
<1>2. orphan' \in Seq(Msgs)
  BY EmptySeq DEF TypeInv, TypeOK, SendRaises
<1>3. /\ up /\ up' = up /\ wpc' = "except" /\ at' = at /\ batch' = batch
      /\ UNCHANGED <<mem, disk, posting, queue, results, air, heard, asked, crashes>>
  BY DEF SendRaises, storeVars, historyVars
<1>4. at \in 1..Len(batch) /\ Len(batch) >= 1
  BY <1>1 DEF TypeInv, PlaceInv, SendRaises
<1> QED
  BY <1>2, <1>3, <1>4 DEF TypeInv, TypeOK, PlaceInv

LEMMA OrphanType == ASSUME TypeInv, OrphanSends PROVE TypeInv'
<1>1. Head(orphan) \in Msgs /\ orphan' \in Seq(Msgs)
  BY HeadTailProperties DEF TypeInv, TypeOK, OrphanSends
<1>2. air' \subseteq [id : Msgs, pid : 1..MaxPackets] /\ IsFiniteSet(air')
  BY <1>1, TransmittedType DEF OrphanSends, TypeInv, TypeOK
<1> QED
  BY <1>1, <1>2 DEF TypeInv, TypeOK, PlaceInv, OrphanSends, workerVars, storeVars

\* The worker goes on with the next job, or with the next batch.
LEMMA AdvanceType ==
    ASSUME TypeInv, NEW label \in {"results", "except"}, wpc = label, Advance(label)
    PROVE  /\ wpc' \in {"wait", label} /\ at' \in Nat
           /\ batch' \in Seq(Msgs) /\ results' \in Seq(0..MaxPackets)
           /\ wpc' = "wait" => at' = 1 /\ batch' = <<>> /\ results' = <<>>
           /\ wpc' = label => /\ at' = at + 1 /\ at' \in 1..Len(batch)
                              /\ batch' = batch /\ results' = results
<1>1. Len(batch) \in Nat /\ at \in 1..Len(batch)
  BY LenProperties DEF TypeInv, TypeOK, PlaceInv
<1>2. CASE at < Len(batch)
  BY <1>1, <1>2 DEF Advance, TypeInv, TypeOK
<1>3. CASE ~(at < Len(batch))
  BY <1>3, EmptySeq DEF Advance
<1> QED
  BY <1>2, <1>3

LEMMA ResultType == ASSUME TypeInv, HandleResult PROVE TypeInv'
<1>1. batch[at] \in Msgs /\ results[at] \in 0..MaxPackets
  BY ElementOfSeq DEF TypeInv, TypeOK, PlaceInv, HandleResult
<1>2. /\ mem' \in Seq(Record) /\ Len(mem') <= MaxHistory
      /\ disk' \in Seq(Record) /\ Len(disk') <= MaxHistory
  <2>1. CASE results[at] = 0
    BY <2>1, FailedType DEF HandleResult, TypeInv
  <2>2. CASE results[at] # 0
    <3>1. "sent" \in Statuses
      BY DEF Statuses
    <3> QED
      BY <1>1, <2>2, <3>1, UpdateType DEF HandleResult, Sent, TypeInv
  <2> QED
    BY <2>1, <2>2
<1>3. wpc = "results" /\ Advance("results")
  BY DEF HandleResult
<1>4. UNCHANGED <<up, posting, queue, orphan, air, heard, asked, crashes>>
  BY DEF HandleResult, historyVars
<1>5. Len(batch) \in Nat
  BY LenProperties DEF TypeInv, TypeOK
<1>6. /\ wpc' \in {"wait", "results"} /\ at' \in Nat
      /\ batch' \in Seq(Msgs) /\ results' \in Seq(0..MaxPackets)
      /\ wpc' = "wait" => at' = 1 /\ batch' = <<>> /\ results' = <<>>
      /\ wpc' = "results" => /\ at' \in 1..Len(batch)
                             /\ batch' = batch /\ results' = results
  BY <1>3, AdvanceType
<1>7. up /\ up' = up
  BY <1>4 DEF HandleResult
<1>8. PlaceInv'
  BY <1>3, <1>5, <1>6, <1>7 DEF PlaceInv, TypeInv
<1> QED
  BY <1>2, <1>4, <1>6, <1>8 DEF TypeInv, TypeOK

LEMMA HandlerType == ASSUME TypeInv, HandlerRaises PROVE TypeInv'
<1>1. batch[at] \in Msgs /\ results[at] \in 0..MaxPackets /\ "sent" \in Statuses
  BY ElementOfSeq DEF TypeInv, TypeOK, PlaceInv, HandlerRaises, Statuses
<1>2. /\ mem' \in Seq(Record) /\ Len(mem') <= MaxHistory
      /\ disk' \in Seq(Record) /\ Len(disk') <= MaxHistory
  BY <1>1, UpdateType DEF HandlerRaises, Sent, TypeInv
<1>3. Len(batch) \in Nat
  BY LenProperties DEF TypeInv, TypeOK
<1>4. PlaceInv'
  BY <1>3 DEF TypeInv, PlaceInv, HandlerRaises
<1> QED
  BY <1>2, <1>4 DEF TypeInv, TypeOK, HandlerRaises, historyVars

LEMMA ExceptType == ASSUME TypeInv, WorkerExcept PROVE TypeInv'
<1>1. /\ mem' \in Seq(Record) /\ Len(mem') <= MaxHistory
      /\ disk' \in Seq(Record) /\ Len(disk') <= MaxHistory
  BY FailedType DEF WorkerExcept, TypeInv
<1>2. wpc = "except" /\ Advance("except") /\ up
  BY DEF WorkerExcept
<1>3. UNCHANGED <<up, posting, queue, orphan, air, heard, asked, crashes>>
  BY DEF WorkerExcept, historyVars
<1>4. Len(batch) \in Nat
  BY LenProperties DEF TypeInv, TypeOK
<1>5. /\ wpc' \in {"wait", "except"} /\ at' \in Nat
      /\ batch' \in Seq(Msgs) /\ results' \in Seq(0..MaxPackets)
      /\ wpc' = "wait" => at' = 1 /\ batch' = <<>> /\ results' = <<>>
      /\ wpc' = "except" => at' \in 1..Len(batch) /\ batch' = batch
  BY <1>2, AdvanceType
<1>6. PlaceInv'
  BY <1>2, <1>3, <1>4, <1>5 DEF PlaceInv, TypeInv
<1> QED
  BY <1>1, <1>3, <1>5, <1>6 DEF TypeInv, TypeOK

\* An ACK, a NAK or a deadline changes the status of one message.
LEMMA OneStatusType ==
    ASSUME TypeOK, NEW i \in 1..Len(mem), NEW status \in Statuses,
           Store([mem EXCEPT ![i].status = status])
    PROVE  /\ mem' \in Seq(Record) /\ Len(mem') <= MaxHistory
           /\ disk' \in Seq(Record) /\ Len(disk') <= MaxHistory
<1>1. mem[i] \in Record
  BY ElementOfSeq DEF TypeOK
<1>2. [mem[i] EXCEPT !.status = status] \in Record
  BY <1>1 DEF Record
<1>3. /\ [mem EXCEPT ![i] = [mem[i] EXCEPT !.status = status]] \in Seq(Record)
      /\ Len([mem EXCEPT ![i] = [mem[i] EXCEPT !.status = status]]) = Len(mem)
  BY <1>2, ExceptSeq DEF TypeOK
<1>4. [mem EXCEPT ![i] = [mem[i] EXCEPT !.status = status]] = [mem EXCEPT ![i].status = status]
  OBVIOUS
<1>5. /\ [mem EXCEPT ![i].status = status] \in Seq(Record)
      /\ Len([mem EXCEPT ![i].status = status]) <= MaxHistory
  BY <1>3, <1>4 DEF TypeOK
<1> QED
  BY <1>5, StoreType

LEMMA AckType ==
    ASSUME TypeInv, NEW t \in air, NEW status \in {"delivered", "unconfirmed"},
           AckArrives(t, status)
    PROVE  TypeInv'
<1>1. PICK i \in 1..Len(mem) : Store([mem EXCEPT ![i].status = status])
  BY DEF AckArrives
<1>2. status \in Statuses
  BY DEF Statuses
<1>3. /\ mem' \in Seq(Record) /\ Len(mem') <= MaxHistory
      /\ disk' \in Seq(Record) /\ Len(disk') <= MaxHistory
  BY <1>1, <1>2, OneStatusType DEF TypeInv
<1>4. heard' \subseteq 1..MaxPackets
  BY DEF AckArrives, TypeInv, TypeOK
<1> QED
  BY <1>3, <1>4 DEF TypeInv, TypeOK, PlaceInv, AckArrives, workerVars

LEMMA DeadlineType == ASSUME TypeInv, NEW m \in Msgs, AckTimesOut(m) PROVE TypeInv'
<1>1. PICK i \in 1..Len(mem) : Store([mem EXCEPT ![i].status = "unconfirmed"])
  BY DEF AckTimesOut
<1>2. "unconfirmed" \in Statuses
  BY DEF Statuses
<1>3. /\ mem' \in Seq(Record) /\ Len(mem') <= MaxHistory
      /\ disk' \in Seq(Record) /\ Len(disk') <= MaxHistory
  BY <1>1, <1>2, OneStatusType DEF TypeInv
<1> QED
  BY <1>3 DEF TypeInv, TypeOK, PlaceInv, AckTimesOut, workerVars, historyVars

LEMMA CrashType == ASSUME TypeInv, Crash PROVE TypeInv'
<1>1. /\ <<>> \in Seq(Record) /\ <<>> \in Seq(Msgs) /\ <<>> \in Seq(0..MaxPackets)
      /\ Len(<<>>) = 0
  BY EmptySeq
<1>2. crashes' \in 0..MaxCrashes
  BY MessagesAssumption DEF TypeInv, TypeOK, Crash
<1>3. PlaceInv'
  BY DEF PlaceInv, Crash
<1>4. Len(mem') <= MaxHistory /\ mem' \in Seq(Record)
  BY <1>1, MessagesAssumption DEF Crash
<1> QED
  BY <1>1, <1>2, <1>3, <1>4 DEF TypeInv, TypeOK, Crash

LEMMA RestartType == ASSUME TypeInv, Restart PROVE TypeInv'
<1> DEFINE reconciled == [i \in 1..Len(disk) |->
               IF disk[i].status = "pending" THEN [disk[i] EXCEPT !.status = "failed"] ELSE disk[i]]
<1>1. disk \in Seq(Record) /\ Len(disk) \in Nat /\ Len(disk) <= MaxHistory
      /\ \A i \in 1..Len(disk) : disk[i] \in Record
  BY LenProperties, ElementOfSeq DEF TypeInv, TypeOK
<1>2. reconciled \in [1..Len(disk) -> Record]
  BY <1>1 DEF Record, Statuses
<1>3. reconciled \in Seq(Record)
  BY <1>1, <1>2, SeqDef
<1>4. Len(reconciled) <= MaxHistory
  BY <1>1, <1>2, <1>3, LenProperties
<1>5. Store(reconciled)
  BY DEF Restart
<1> HIDE DEF reconciled
<1>6. /\ mem' \in Seq(Record) /\ Len(mem') <= MaxHistory
      /\ disk' \in Seq(Record) /\ Len(disk') <= MaxHistory
  BY <1>3, <1>4, <1>5, StoreType DEF TypeInv
<1> QED
  BY <1>6 DEF TypeInv, TypeOK, PlaceInv, Restart, workerVars, historyVars

LEMMA NextType == TypeInv /\ [Next]_vars => TypeInv'
<1> SUFFICES ASSUME TypeInv, [Next]_vars PROVE TypeInv'
  OBVIOUS
<1>1. CASE SendWorker
  BY <1>1, TakeType, RefuseType, SendsType, AdapterType, ReturnType, TimeOutType, RaiseType,
     ResultType, HandlerType, ExceptType DEF SendWorker
<1>2. CASE UNCHANGED vars
  BY <1>2 DEF vars, TypeInv, TypeOK, PlaceInv
<1>3. ASSUME NEW m \in Msgs, Post(m) \/ Retry(m) \/ Enqueue(m) \/ Delete(m) \/ AckTimesOut(m)
      PROVE  TypeInv'
  BY <1>3, PostType, RetryType, EnqueueType, DeleteType, DeadlineType
<1>4. ASSUME NEW t \in air, NEW status \in {"delivered", "unconfirmed"}, AckArrives(t, status)
      PROVE  TypeInv'
  BY <1>4, AckType
<1> QED
  BY <1>1, <1>2, <1>3, <1>4, OrphanType, CrashType, RestartType DEF Next

\* MessageDelivery's variables keep their types, and the history its length,
\* whatever is sent, retried, deleted or lost in a crash.
THEOREM TypeCorrect == Spec => []TypeOK
<1>1. TypeInv => TypeOK
  BY DEF TypeInv
<1> QED
  BY <1>1, InitType, NextType, PTL DEF Spec

-----------------------------------------------------------------------------
(* What a step makes of the history                                        *)

LEMMA MemLength == ASSUME TypeInv PROVE Len(mem) \in Nat /\ Len(disk) \in Nat
  BY LenProperties DEF TypeInv, TypeOK

LEMMA MemRecord == ASSUME TypeInv, NEW i \in 1..Len(mem) PROVE mem[i] \in Record
  BY ElementOfSeq DEF TypeInv, TypeOK

LEMMA DiskRecord == ASSUME TypeInv, NEW i \in 1..Len(disk) PROVE disk[i] \in Record
  BY ElementOfSeq DEF TypeInv, TypeOK

LEMMA PostMem ==
    ASSUME TypeInv, NEW m \in Msgs, Post(m)
    PROVE  \A i \in 1..Len(mem') :
              \/ mem'[i] = [id |-> m, status |-> "pending", pid |-> 0, ack |-> FALSE]
              \/ \E j \in 1..Len(mem) : mem'[i] = mem[j]
<1> DEFINE new == [id |-> m, status |-> "pending", pid |-> 0, ack |-> FALSE]
           long == Append(mem, new)
<1>1. new \in Record
  BY MessagesAssumption DEF Record, Statuses
<1>2. /\ long \in Seq(Record) /\ Len(long) = Len(mem) + 1
      /\ \A j \in 1..Len(mem) : long[j] = mem[j]
      /\ long[Len(mem) + 1] = new
  BY <1>1, AppendProperties DEF TypeInv, TypeOK
<1>3. Len(mem) \in Nat /\ Len(mem) <= MaxHistory /\ MaxHistory \in Nat
  BY MemLength, MessagesAssumption DEF TypeInv, TypeOK
<1>4. mem' = KeepLast(long)
  BY DEF Post, Store
<1> HIDE DEF new, long
<1>5. Len(long) <= MaxHistory + 1
  BY <1>2, <1>3
<1>6. \A i \in 1..Len(KeepLast(long)) : \E j \in 1..Len(long) : KeepLast(long)[i] = long[j]
  BY <1>2, <1>5, KeepLastKeeps
<1>7. ASSUME NEW i \in 1..Len(mem')
      PROVE  mem'[i] = new \/ \E j \in 1..Len(mem) : mem'[i] = mem[j]
  <2>1. PICK j \in 1..Len(long) : mem'[i] = long[j]
    BY <1>4, <1>6
  <2>2. j \in 1..Len(mem) \/ j = Len(mem) + 1
    BY <1>2, <1>3
  <2> QED
    BY <1>2, <2>1, <2>2
<1> QED
  BY <1>7 DEF new

LEMMA ChangedRecord ==
    ASSUME TypeInv, NEW m, NEW status \in Statuses, NEW pid \in 0..MaxPackets,
           NEW i \in 1..Len(mem)
    PROVE  LET r == Changed(m, status, pid)[i] IN
           /\ r.id = mem[i].id
           /\ mem[i].id # m => r = mem[i]
           /\ mem[i].id = m => r.status = status /\ r.pid = IF pid = 0 THEN mem[i].pid ELSE pid
<1>1. mem[i] \in Record
  BY MemRecord
<1>2. Changed(m, status, pid)[i] =
         IF mem[i].id # m THEN mem[i]
         ELSE IF pid = 0 THEN [mem[i] EXCEPT !.status = status]
         ELSE [mem[i] EXCEPT !.status = status, !.pid = pid, !.ack = m \in Dms]
  BY DEF Changed
<1>3. CASE mem[i].id # m
  BY <1>2, <1>3
<1>4. CASE mem[i].id = m /\ pid = 0
  BY <1>1, <1>2, <1>4 DEF Record
<1>5. CASE mem[i].id = m /\ pid # 0
  <2> DEFINE b == m \in Dms
  <2>1. Changed(m, status, pid)[i] = [mem[i] EXCEPT !.status = status, !.pid = pid, !.ack = b]
    BY <1>2, <1>5
  <2> HIDE DEF b
  <2> QED
    BY <1>1, <1>5, <2>1 DEF Record
<1> QED
  BY <1>3, <1>4, <1>5

\* Changed() over the whole history, whether it was stored because a message of
\* that id was there or left alone because none was.
LEMMA UpdatedMem ==
    ASSUME TypeInv, NEW m, NEW status \in Statuses, NEW pid \in 0..MaxPackets,
           UpdateStatus(m, status, pid) \/ Store(Changed(m, status, pid))
    PROVE  /\ Len(mem') = Len(mem)
           /\ \A i \in 1..Len(mem) :
                 /\ mem'[i].id = mem[i].id
                 /\ mem[i].id # m => mem'[i] = mem[i]
                 /\ mem[i].id = m => mem'[i].status = status
                 /\ mem[i].id = m /\ pid # 0 => mem'[i].pid = pid
           /\ disk' = disk \/ disk' = mem'
<1>1. Len(Changed(m, status, pid)) = Len(mem)
  BY ChangedKeeps DEF TypeInv
<1>2. CASE Store(Changed(m, status, pid))
  <2>1. mem' = Changed(m, status, pid) /\ (disk' = disk \/ disk' = mem')
    BY <1>2 DEF Store
  <2> QED
    BY <1>1, <2>1, ChangedRecord
<1>3. CASE ~ \E i \in 1..Len(mem) : mem[i].id = m
  <2>1. (mem' = mem /\ disk' = disk) \/ Store(Changed(m, status, pid))
    BY DEF UpdateStatus, storeVars
  <2> QED
    BY <1>2, <1>3, <2>1
<1> QED
  BY <1>2, <1>3 DEF UpdateStatus

LEMMA DeletedMem ==
    ASSUME TypeInv, NEW m \in Msgs, Delete(m)
    PROVE  /\ \A i \in 1..Len(mem') : \E j \in 1..Len(mem) : mem'[i] = mem[j]
           /\ disk' = disk \/ disk' = mem'
<1>1. PICK i \in 1..Len(mem) : Store(SubSeq(mem, 1, i - 1) \o SubSeq(mem, i + 1, Len(mem)))
  BY DEF Delete
<1> DEFINE rest == SubSeq(mem, 1, i - 1) \o SubSeq(mem, i + 1, Len(mem))
<1>2. \A k \in 1..Len(rest) : \E j \in 1..Len(mem) : rest[k] = mem[j]
  BY WithoutKeeps DEF TypeInv, TypeOK
<1>3. mem' = rest /\ (disk' = disk \/ disk' = mem')
  BY <1>1 DEF Store
<1> QED
  BY <1>2, <1>3

LEMMA OneStatusMem ==
    ASSUME TypeInv, NEW i \in 1..Len(mem), NEW status,
           Store([mem EXCEPT ![i].status = status])
    PROVE  /\ Len(mem') = Len(mem)
           /\ \A j \in 1..Len(mem) :
                 /\ mem'[j].id = mem[j].id /\ mem'[j].pid = mem[j].pid
                 /\ mem'[j].status = IF j = i THEN status ELSE mem[j].status
           /\ disk' = disk \/ disk' = mem'
<1>1. mem \in [1..Len(mem) -> Record] /\ Len(mem) \in Nat
  BY LenProperties DEF TypeInv, TypeOK
<1>2. mem' = [mem EXCEPT ![i].status = status] /\ (disk' = disk \/ disk' = mem')
  BY DEF Store
<1>3. DOMAIN mem' = 1..Len(mem)
  BY <1>1, <1>2
<1>4. ASSUME NEW j \in 1..Len(mem)
      PROVE  /\ mem'[j].id = mem[j].id /\ mem'[j].pid = mem[j].pid
             /\ mem'[j].status = IF j = i THEN status ELSE mem[j].status
  <2>1. mem[j] \in Record
    BY <1>1
  <2>2. mem'[j] = IF j = i THEN [mem[j] EXCEPT !.status = status] ELSE mem[j]
    BY <1>1, <1>2
  <2> QED
    BY <2>1, <2>2 DEF Record
<1>5. Len(mem') = Len(mem)
  <2>1. mem' = [mem EXCEPT ![i] = [mem[i] EXCEPT !.status = status]]
    BY <1>2
  <2>2. mem' \in [1..Len(mem) -> {mem'[j] : j \in 1..Len(mem)}]
    BY <1>1, <2>1
  <2>3. mem' \in Seq({mem'[j] : j \in 1..Len(mem)})
    BY <1>1, <2>2, SeqDef
  <2> QED
    BY <1>1, <1>3, <2>3, LenProperties
<1> QED
  BY <1>2, <1>4, <1>5

LEMMA RestartedMem ==
    ASSUME TypeInv, Restart
    PROVE  /\ Len(mem') = Len(disk)
           /\ \A i \in 1..Len(disk) :
                 /\ mem'[i].id = disk[i].id /\ mem'[i].pid = disk[i].pid
                 /\ mem'[i].status = IF disk[i].status = "pending" THEN "failed"
                                     ELSE disk[i].status
           /\ disk' = disk \/ disk' = mem'
<1> DEFINE reconciled == [i \in 1..Len(disk) |->
               IF disk[i].status = "pending" THEN [disk[i] EXCEPT !.status = "failed"] ELSE disk[i]]
<1>1. disk \in Seq(Record) /\ Len(disk) \in Nat /\ \A i \in 1..Len(disk) : disk[i] \in Record
  BY LenProperties, ElementOfSeq DEF TypeInv, TypeOK
<1>2. reconciled \in [1..Len(disk) -> Record]
  BY <1>1 DEF Record, Statuses
<1>3. reconciled \in Seq(Record) /\ Len(reconciled) = Len(disk)
  BY <1>1, <1>2, SeqDef, LenProperties
<1>4. mem' = reconciled /\ (disk' = disk \/ disk' = mem')
  BY DEF Restart, Store
<1>5. ASSUME NEW i \in 1..Len(disk)
      PROVE  /\ reconciled[i].id = disk[i].id /\ reconciled[i].pid = disk[i].pid
             /\ reconciled[i].status = IF disk[i].status = "pending" THEN "failed"
                                       ELSE disk[i].status
  BY <1>1 DEF Record
<1> HIDE DEF reconciled
<1> QED
  BY <1>3, <1>4, <1>5

\* Every job of a batch whose results are handled has a result.
LEMMA ResultIs ==
    ASSUME TypeInv, wpc = "results"
    PROVE  /\ results[at] \in 0..MaxPackets /\ 0 \in 0..MaxPackets
           /\ "sent" \in Statuses /\ "failed" \in Statuses
<1>1. results \in Seq(0..MaxPackets) /\ at \in 1..Len(results)
  BY DEF TypeInv, TypeOK, PlaceInv
<1>2. results[at] \in 0..MaxPackets
  BY ONLY <1>1, ElementOfSeq
<1>3. 0 \in 0..MaxPackets
  BY MessagesAssumption
<1>4. "sent" \in Statuses /\ "failed" \in Statuses
  BY DEF Statuses
<1> QED
  BY <1>2, <1>3, <1>4

-----------------------------------------------------------------------------
(* Who has the job of a message                                            *)

Jobs == posting \cup Queued \cup Ahead

LEMMA AheadIs == ASSUME TypeInv PROVE Ahead = {batch[i] : i \in at..Len(batch)}
  BY DEF TypeInv, PlaceInv, Ahead

\* What the worker does before it has results leaves the jobs where they are.
QuietStep == \/ WorkerRefuses \/ WorkerSends \/ AdapterSends
             \/ SendReturns \/ SendTimesOut \/ SendRaises

LEMMA QuietJobs ==
    ASSUME TypeInv, QuietStep
    PROVE  /\ UNCHANGED <<up, mem, disk, posting, queue, batch, asked>>
           /\ Queued' = Queued /\ Ahead' = Ahead /\ Jobs' = Jobs
           /\ at' = at /\ up
<1>1. /\ UNCHANGED <<up, mem, disk, posting, queue, batch, asked>>
      /\ at' = at /\ up /\ wpc # "wait" /\ wpc' # "wait"
  BY DEF QuietStep, WorkerRefuses, WorkerSends, AdapterSends, SendReturns, SendTimesOut,
         SendRaises, storeVars, historyVars
<1>2. Queued' = Queued /\ Ahead' = Ahead
  BY <1>1 DEF Queued, Ahead
<1> QED
  BY <1>1, <1>2 DEF Jobs

LEMMA EnqueueJobs ==
    ASSUME TypeInv, NEW m \in Msgs, Enqueue(m)
    PROVE  Queued' = Queued \cup {m} /\ Ahead' = Ahead /\ Jobs' = Jobs
<1>1. /\ queue \in Seq(Msgs) /\ Len(queue) \in Nat
      /\ queue' = Append(queue, m) /\ Len(queue') = Len(queue) + 1
      /\ \A i \in 1..Len(queue) : queue'[i] = queue[i]
      /\ queue'[Len(queue) + 1] = m
  BY AppendProperties, LenProperties DEF Enqueue, TypeInv, TypeOK
<1>2. Queued' = Queued \cup {m}
  BY <1>1 DEF Queued
<1>3. Ahead' = Ahead
  BY DEF Enqueue, Ahead, workerVars
<1>4. posting = posting' \cup {m}
  BY DEF Enqueue
<1> QED
  BY <1>2, <1>3, <1>4 DEF Jobs

LEMMA TakenJobs ==
    ASSUME TypeInv, WorkerTakes
    PROVE  /\ Ahead = {} /\ Queued = Queued' \cup Ahead' /\ Jobs' = Jobs
           /\ \E n \in 1..Len(queue) :
                 /\ Len(batch') = n /\ \A i \in 1..n : batch'[i] = queue[i]
                 /\ Len(queue') = Len(queue) - n
                 /\ \A i \in 1..(Len(queue) - n) : queue'[i] = queue[n + i]
<1>1. PICK n \in 1..Len(queue) : /\ batch' = SubSeq(queue, 1, n)
                                 /\ queue' = SubSeq(queue, n + 1, Len(queue))
  BY DEF WorkerTakes
<1>2. queue \in Seq(Msgs) /\ Len(queue) \in Nat /\ \A i \in 1..Len(queue) : queue[i] \in Msgs
  BY LenProperties, ElementOfSeq DEF TypeInv, TypeOK
<1>3. Len(batch') = n /\ \A i \in 1..n : batch'[i] = queue[i]
  BY <1>1, <1>2, SubSeqProperties
<1>4. /\ Len(queue') = Len(queue) - n
      /\ \A i \in 1..(Len(queue) - n) : queue'[i] = queue[n + i]
  BY <1>1, <1>2, SubSeqProperties
<1>5. Ahead = {}
  BY EmptySeq DEF Ahead, WorkerTakes, TypeInv, PlaceInv
<1>6. Ahead' = {batch'[i] : i \in 1..n}
  BY <1>3 DEF Ahead, WorkerTakes, TypeInv, PlaceInv
<1>7. Queued = Queued' \cup Ahead'
  <2>1. ASSUME NEW i \in 1..Len(queue)
        PROVE  \/ i \in 1..n
               \/ i - n \in 1..(Len(queue) - n) /\ n + (i - n) = i
    BY <1>2
  <2>2. ASSUME NEW i \in 1..Len(queue) PROVE queue[i] \in Queued' \cup Ahead'
    <3>1. CASE i \in 1..n
      BY <1>3, <1>6, <3>1
    <3>2. CASE i - n \in 1..(Len(queue) - n) /\ n + (i - n) = i
      <4>1. queue'[i - n] = queue[i] /\ i - n \in 1..Len(queue')
        BY <1>4, <3>2
      <4> QED
        BY <4>1 DEF Queued
    <3> QED
      BY <2>1, <3>1, <3>2
  <2>3. ASSUME NEW i \in 1..(Len(queue) - n) PROVE n + i \in 1..Len(queue)
    BY <1>2
  <2>4. Queued' \subseteq {queue[i] : i \in 1..Len(queue)}
    BY <1>4, <2>3 DEF Queued
  <2>5. Ahead' \subseteq {queue[i] : i \in 1..Len(queue)}
    BY <1>2, <1>3, <1>6
  <2> QED
    BY <2>2, <2>4, <2>5 DEF Queued
<1>8. posting' = posting
  BY DEF WorkerTakes
<1> QED
  BY <1>3, <1>4, <1>5, <1>7, <1>8 DEF Jobs

\* The job whose result was handled is gone, the other ones are where they were.
LEMMA AdvancedJobs ==
    ASSUME TypeInv, NEW label \in {"results", "except"}, wpc = label, Advance(label),
           UNCHANGED <<posting, queue>>
    PROVE  /\ Queued' = Queued
           /\ Ahead' \subseteq Ahead /\ Ahead \subseteq Ahead' \cup {batch[at]}
           /\ Jobs' \subseteq Jobs /\ Jobs \subseteq Jobs' \cup {batch[at]}
           /\ \/ at' = at + 1 /\ batch' = batch
              \/ at' = 1 /\ batch' = <<>>
           /\ batch[at] \in Ahead
<1>1. Len(batch) \in Nat /\ at \in 1..Len(batch)
  BY LenProperties DEF TypeInv, TypeOK, PlaceInv
<1>2. Ahead = {batch[i] : i \in at..Len(batch)}
  BY AheadIs
<1>3. CASE at < Len(batch)
  <2>1. at' = at + 1 /\ batch' = batch /\ wpc' = label
    BY <1>3 DEF Advance
  <2>2. Ahead' = {batch[i] : i \in (at + 1)..Len(batch)}
    BY <2>1 DEF Ahead
  <2>3. Ahead' \subseteq Ahead /\ Ahead \subseteq Ahead' \cup {batch[at]}
    BY <1>1, <1>2, <2>2
  <2> QED
    BY <1>1, <1>2, <2>1, <2>3 DEF Jobs, Queued
<1>4. CASE ~(at < Len(batch))
  <2>1. at' = 1 /\ batch' = <<>> /\ wpc' = "wait"
    BY <1>4 DEF Advance
  <2>2. Ahead' = {}
    BY <2>1, EmptySeq DEF Ahead
  <2>3. at = Len(batch)
    BY <1>1, <1>4
  <2>4. Ahead = {batch[at]}
    BY <1>1, <1>2, <2>3
  <2> QED
    BY <2>1, <2>2, <2>4 DEF Jobs, Queued
<1> QED
  BY <1>3, <1>4

-----------------------------------------------------------------------------
(* A pending message is on its way                                         *)

LEMMA PendingInit == Init => PendingHasJob
  BY EmptySeq DEF Init, PendingHasJob

LEMMA PendingNext == TypeInv /\ PendingHasJob /\ [Next]_vars => PendingHasJob'
<1> SUFFICES ASSUME TypeInv, PendingHasJob, [Next]_vars PROVE PendingHasJob'
  OBVIOUS
<1>0. up => \A i \in 1..Len(mem) : mem[i].status = "pending" => mem[i].id \in Jobs
  BY DEF PendingHasJob, Jobs
<1> SUFFICES ASSUME up', NEW i \in 1..Len(mem'), mem'[i].status = "pending"
             PROVE  mem'[i].id \in Jobs'
  BY DEF PendingHasJob, Jobs
<1>1. ASSUME NEW m \in Msgs, Post(m) PROVE mem'[i].id \in Jobs'
  <2>1. Jobs' = Jobs \cup {m} /\ up
    BY <1>1 DEF Post, Jobs, Queued, Ahead, workerVars
  <2>2. CASE mem'[i] = [id |-> m, status |-> "pending", pid |-> 0, ack |-> FALSE]
    BY <2>1, <2>2
  <2>3. CASE \E j \in 1..Len(mem) : mem'[i] = mem[j]
    BY <1>0, <2>1, <2>3
  <2> QED
    BY <1>1, <2>2, <2>3, PostMem
<1>2. ASSUME NEW m \in Msgs, Retry(m) PROVE mem'[i].id \in Jobs'
  <2>1. Jobs' = Jobs \cup {m} /\ up
    BY <1>2 DEF Retry, Jobs, Queued, Ahead, workerVars
  <2>2. "pending" \in Statuses /\ 0 \in 0..MaxPackets
    BY MessagesAssumption DEF Statuses
  <2> DEFINE new == Changed(m, "pending", 0)
  <2>3. Store(new)
    BY <1>2 DEF Retry
  <2>4. /\ Len(mem') = Len(mem)
        /\ \A j \in 1..Len(mem) : /\ mem'[j].id = mem[j].id
                                  /\ mem[j].id # m => mem'[j] = mem[j]
    BY <2>2, <2>3, UpdatedMem
  <2>5. i \in 1..Len(mem) /\ mem'[i].id = mem[i].id /\ (mem[i].id # m => mem'[i] = mem[i])
    <3>1. i \in 1..Len(mem)
      BY <2>4
    <3> QED
      BY <2>4, <3>1
  <2>6. CASE mem[i].id = m
    BY <2>1, <2>5, <2>6
  <2>7. CASE mem[i].id # m
    BY <1>0, <2>1, <2>5, <2>7
  <2> QED
    BY <2>6, <2>7
<1>3. ASSUME NEW m \in Msgs, Enqueue(m) PROVE mem'[i].id \in Jobs'
  BY <1>0, <1>3, EnqueueJobs DEF Enqueue, storeVars
<1>4. ASSUME NEW m \in Msgs, Delete(m) PROVE mem'[i].id \in Jobs'
  <2>1. Jobs' = Jobs /\ up
    BY <1>4 DEF Delete, Jobs, Queued, Ahead, workerVars
  <2>2. PICK j \in 1..Len(mem) : mem'[i] = mem[j]
    BY <1>4, DeletedMem
  <2> QED
    BY <1>0, <2>1, <2>2
<1>5. CASE WorkerTakes
  BY <1>0, <1>5, TakenJobs DEF WorkerTakes, storeVars
<1>6. CASE QuietStep
  BY <1>0, <1>6, QuietJobs
<1>7. CASE HandleResult
  <2>1. Jobs \subseteq Jobs' \cup {batch[at]} /\ up
    BY <1>7, AdvancedJobs DEF HandleResult
  <2>2. results[at] \in 0..MaxPackets /\ 0 \in 0..MaxPackets /\ "sent" \in Statuses /\ "failed" \in Statuses
    BY <1>7, ResultIs DEF HandleResult
  <2>3. \/ UpdateStatus(batch[at], "failed", 0)
        \/ UpdateStatus(batch[at], "sent", results[at])
    BY <1>7 DEF HandleResult, MarkFailed, Sent
  <2>4. /\ Len(mem') = Len(mem) /\ mem'[i].id = mem[i].id
        /\ mem[i].id # batch[at] => mem'[i] = mem[i]
        /\ mem[i].id = batch[at] => mem'[i].status \in {"failed", "sent"}
    BY <2>2, <2>3, UpdatedMem
  <2> QED
    BY <1>0, <2>1, <2>4
<1>8. CASE HandlerRaises
  <2>1. Jobs \subseteq Jobs' /\ up
    BY <1>8 DEF HandlerRaises, Jobs, Queued, Ahead, TypeInv, PlaceInv, TypeOK
  <2>2. results[at] \in 0..MaxPackets /\ "sent" \in Statuses
    BY <1>8, ResultIs DEF HandlerRaises
  <2>3. UpdateStatus(batch[at], "sent", results[at])
    BY <1>8 DEF HandlerRaises, Sent
  <2>4. /\ Len(mem') = Len(mem) /\ mem'[i].id = mem[i].id
        /\ mem[i].id # batch[at] => mem'[i] = mem[i]
        /\ mem[i].id = batch[at] => mem'[i].status = "sent"
    BY <2>2, <2>3, UpdatedMem
  <2> QED
    BY <1>0, <2>1, <2>4
<1>9. CASE WorkerExcept
  <2>1. Jobs \subseteq Jobs' \cup {batch[at]} /\ up
    BY <1>9, AdvancedJobs DEF WorkerExcept
  <2>2. 0 \in 0..MaxPackets /\ "failed" \in Statuses
    BY MessagesAssumption DEF Statuses
  <2>3. /\ Len(mem') = Len(mem) /\ mem'[i].id = mem[i].id
        /\ mem[i].id # batch[at] => mem'[i] = mem[i]
        /\ mem[i].id = batch[at] => mem'[i].status = "failed"
    BY <1>9, <2>2, UpdatedMem DEF WorkerExcept, MarkFailed
  <2> QED
    BY <1>0, <2>1, <2>3
<1>10. CASE OrphanSends
  BY <1>0, <1>10 DEF OrphanSends, storeVars, workerVars, Jobs, Queued, Ahead
<1>11. ASSUME NEW t \in air, NEW status \in {"delivered", "unconfirmed"}, AckArrives(t, status)
       PROVE  mem'[i].id \in Jobs'
  <2>1. Jobs' = Jobs /\ up
    BY <1>11 DEF AckArrives, Jobs, Queued, Ahead, workerVars
  <2>2. PICK k \in 1..Len(mem) : Store([mem EXCEPT ![k].status = status])
    BY <1>11 DEF AckArrives
  <2>3. /\ Len(mem') = Len(mem) /\ mem'[i].id = mem[i].id
        /\ mem'[i].status = IF i = k THEN status ELSE mem[i].status
    BY <2>2, OneStatusMem
  <2> QED
    BY <1>0, <2>1, <2>3
<1>12. ASSUME NEW m \in Msgs, AckTimesOut(m) PROVE mem'[i].id \in Jobs'
  <2>1. Jobs' = Jobs /\ up
    BY <1>12 DEF AckTimesOut, Jobs, Queued, Ahead, workerVars
  <2>2. PICK k \in 1..Len(mem) : Store([mem EXCEPT ![k].status = "unconfirmed"])
    BY <1>12 DEF AckTimesOut
  <2>3. /\ Len(mem') = Len(mem) /\ mem'[i].id = mem[i].id
        /\ mem'[i].status = IF i = k THEN "unconfirmed" ELSE mem[i].status
    BY ONLY TypeInv, <1>0, <2>2, OneStatusMem, ZenonT(60)
  <2> QED
    BY <1>0, <2>1, <2>3
<1>13. CASE Crash
  BY <1>13 DEF Crash
<1>14. CASE Restart
  BY <1>14, RestartedMem
<1>15. CASE UNCHANGED vars
  BY <1>0, <1>15 DEF vars, Jobs, Queued, Ahead
<1> QED
  BY <1>1, <1>2, <1>3, <1>4, <1>5, <1>6, <1>7, <1>8, <1>9, <1>10, <1>11, <1>12, <1>13, <1>14, <1>15
     DEF Next, SendWorker, QuietStep

\* A message shown as pending is in the hands of a request thread, the queue or
\* the worker, for any number of messages and crashes, silent failures to save
\* and exceptions in the worker included (api_chat.py, server.py:3197-3224).
THEOREM PendingOnItsWay == Spec => []PendingHasJob
  BY InitType, NextType, PendingInit, PendingNext, PTL DEF Spec

-----------------------------------------------------------------------------
(* One job per message                                                     *)

\* No job is there twice, in one place or in two.
OwnJobs ==
    /\ \A i, j \in 1..Len(queue) : queue[i] = queue[j] => i = j
    /\ \A i, j \in at..Len(batch) : batch[i] = batch[j] => i = j
    /\ posting \cap Queued = {} /\ posting \cap Ahead = {} /\ Queued \cap Ahead = {}

\* Nobody takes, queues or finishes a job.
LEMMA SameJobs ==
    ASSUME UNCHANGED <<posting, queue, batch, at, wpc>>
    PROVE  /\ OwnJobs => OwnJobs'
           /\ Jobs' = Jobs
<1>1. Queued' = Queued
  BY DEF Queued
<1>2. Ahead' = Ahead
  BY DEF Ahead
<1>3. posting' = posting
  OBVIOUS
<1>4. Jobs' = Jobs
  BY ONLY <1>1, <1>2, <1>3 DEF Jobs
<1>5. ASSUME OwnJobs PROVE OwnJobs'
  <2>1. \A i, j \in 1..Len(queue') : queue'[i] = queue'[j] => i = j
    BY <1>5 DEF OwnJobs
  <2>2. \A i, j \in at'..Len(batch') : batch'[i] = batch'[j] => i = j
    BY <1>5 DEF OwnJobs
  <2>3. posting' \cap Queued' = {} /\ posting' \cap Ahead' = {} /\ Queued' \cap Ahead' = {}
    BY <1>1, <1>2, <1>3, <1>5 DEF OwnJobs
  <2> QED
    BY ONLY <2>1, <2>2, <2>3 DEF OwnJobs
<1> QED
  BY <1>4, <1>5

\* Whatever is stored or on its way was asked for: its id is taken.
AskedInv ==
    /\ \A m \in Jobs : asked[m] # 0
    /\ \A i \in 1..Len(mem) : asked[mem[i].id] # 0
    /\ \A i \in 1..Len(disk) : asked[disk[i].id] # 0

\* A message that somebody still has a job of is shown as pending, so that it
\* cannot be retried.
WaitingIsPending == \A i \in 1..Len(mem) : mem[i].id \in Jobs => mem[i].status = "pending"

JobsInv == OwnJobs /\ AskedInv /\ WaitingIsPending

LEMMA JobTypes == ASSUME TypeInv PROVE Jobs \subseteq Msgs
<1>1. Queued \subseteq Msgs
  BY ElementOfSeq DEF TypeInv, TypeOK, Queued
<1>2. Ahead \subseteq Msgs
  <2>1. \A i \in 1..Len(batch) : batch[i] \in Msgs
    BY ElementOfSeq DEF TypeInv, TypeOK
  <2>2. at \in Nat /\ at >= 1
    BY DEF TypeInv, TypeOK, PlaceInv
  <2> QED
    BY <2>1, <2>2, AheadIs
<1> QED
  BY <1>1, <1>2 DEF Jobs, TypeInv, TypeOK

LEMMA OneJob == ASSUME OwnJobs PROVE OneJobPerMessage
  BY DEF OwnJobs, OneJobPerMessage, Queued

LEMMA JobsInit == Init => JobsInv
<1> SUFFICES ASSUME Init PROVE JobsInv
  OBVIOUS
<1>1. queue = <<>> /\ batch = <<>> /\ posting = {} /\ mem = <<>> /\ disk = <<>> /\ Len(<<>>) = 0
  BY EmptySeq DEF Init
<1>2. Queued = {} /\ Ahead = {} /\ at = 1
  BY <1>1 DEF Queued, Ahead, Init
<1> QED
  BY <1>1, <1>2 DEF JobsInv, OwnJobs, AskedInv, WaitingIsPending, Jobs

LEMMA PostJobs == ASSUME TypeInv, JobsInv, NEW m \in Msgs, Post(m) PROVE JobsInv'
<1>1. /\ posting' = posting \cup {m} /\ queue' = queue /\ batch' = batch /\ at' = at
      /\ Queued' = Queued /\ Ahead' = Ahead /\ Jobs' = Jobs \cup {m}
  BY DEF Post, Jobs, Queued, Ahead, workerVars
<1>2. /\ asked[m] = 0 /\ asked' = [asked EXCEPT ![m] = 1]
      /\ asked \in [Msgs -> 0..MaxAsks]
  BY DEF Post, TypeInv, TypeOK
<1>3. m \notin Jobs
  BY <1>2 DEF JobsInv, AskedInv
<1>4. OwnJobs'
  BY <1>1, <1>3 DEF JobsInv, OwnJobs, Jobs
<1>5. \A k \in Msgs : asked[k] # 0 \/ k = m => asked'[k] # 0
  BY <1>2
<1>6. ASSUME NEW i \in 1..Len(mem')
      PROVE  /\ asked'[mem'[i].id] # 0
             /\ mem'[i].id \in Jobs' => mem'[i].status = "pending"
  <2>1. CASE mem'[i] = [id |-> m, status |-> "pending", pid |-> 0, ack |-> FALSE]
    BY <1>5, <2>1
  <2>2. CASE \E j \in 1..Len(mem) : mem'[i] = mem[j]
    <3>1. PICK j \in 1..Len(mem) : mem'[i] = mem[j]
      BY <2>2
    <3>2. mem[j].id \in Msgs /\ asked[mem[j].id] # 0
      BY MemRecord DEF Record, JobsInv, AskedInv
    <3> QED
      BY <1>1, <1>2, <1>5, <3>1, <3>2 DEF JobsInv, WaitingIsPending
  <2> QED
    BY <2>1, <2>2, PostMem
<1>7. disk' = disk \/ disk' = mem'
  BY DEF Post, Store
<1>8. \A i \in 1..Len(disk) : disk[i].id \in Msgs
  BY DiskRecord DEF Record
<1>9. AskedInv'
  <2>1. \A k \in Jobs' : asked'[k] # 0
    BY <1>1, <1>5, JobTypes DEF JobsInv, AskedInv
  <2>2. \A i \in 1..Len(disk') : asked'[disk'[i].id] # 0
    BY <1>5, <1>6, <1>7, <1>8 DEF JobsInv, AskedInv
  <2> QED
    BY <1>6, <2>1, <2>2 DEF AskedInv
<1> QED
  BY <1>4, <1>6, <1>9 DEF JobsInv, WaitingIsPending

LEMMA RetryJobs == ASSUME TypeInv, JobsInv, NEW m \in Msgs, Retry(m) PROVE JobsInv'
<1>1. /\ posting' = posting \cup {m} /\ queue' = queue /\ batch' = batch /\ at' = at
      /\ Queued' = Queued /\ Ahead' = Ahead /\ Jobs' = Jobs \cup {m}
  BY DEF Retry, Jobs, Queued, Ahead, workerVars
<1>2. m \notin Jobs
  BY DEF Retry, Has, JobsInv, WaitingIsPending
<1>3. OwnJobs'
  BY <1>1, <1>2 DEF JobsInv, OwnJobs, Jobs
<1>4. \A k \in Msgs : asked[k] # 0 \/ k = m => asked'[k] # 0
  <2>1. asked \in [Msgs -> 0..MaxAsks] /\ asked' = [asked EXCEPT ![m] = @ + 1]
    BY DEF Retry, TypeInv, TypeOK
  <2>2. asked[m] \in Nat
    BY <2>1, MessagesAssumption
  <2> QED
    BY <2>1, <2>2
<1>5. "pending" \in Statuses /\ 0 \in 0..MaxPackets
  BY MessagesAssumption DEF Statuses
<1>6. /\ Len(mem') = Len(mem) /\ (disk' = disk \/ disk' = mem')
      /\ \A j \in 1..Len(mem) : /\ mem'[j].id = mem[j].id
                                /\ mem[j].id # m => mem'[j] = mem[j]
                                /\ mem[j].id = m => mem'[j].status = "pending"
  <2>1. Store(Changed(m, "pending", 0))
    BY DEF Retry
  <2> QED
    BY ZenonT(60), <1>5, <2>1, UpdatedMem
<1>7. \A i \in 1..Len(mem) : mem[i].id \in Msgs
  BY MemRecord DEF Record
<1>8. \A i \in 1..Len(disk) : disk[i].id \in Msgs
  BY DiskRecord DEF Record
<1>9. AskedInv'
  <2>1. \A k \in Jobs' : asked'[k] # 0
    BY <1>1, <1>4, JobTypes DEF JobsInv, AskedInv
  <2>2. ASSUME NEW i \in 1..Len(mem') PROVE asked'[mem'[i].id] # 0
    <3>1. i \in 1..Len(mem) /\ mem'[i].id = mem[i].id /\ mem[i].id \in Msgs
      <4>1. i \in 1..Len(mem)
        BY <1>6
      <4> QED
        BY <1>6, <1>7, <4>1
    <3>2. asked[mem[i].id] # 0
      BY <3>1 DEF JobsInv, AskedInv
    <3> QED
      BY <1>4, <3>1, <3>2
  <2>3. \A i \in 1..Len(disk') : asked'[disk'[i].id] # 0
    BY <1>4, <1>6, <1>8, <2>2 DEF JobsInv, AskedInv
  <2> QED
    BY <2>1, <2>2, <2>3 DEF AskedInv
<1>10. ASSUME NEW i \in 1..Len(mem'), mem'[i].id \in Jobs' PROVE mem'[i].status = "pending"
  <2>1. /\ i \in 1..Len(mem) /\ mem'[i].id = mem[i].id
        /\ mem[i].id # m => mem'[i] = mem[i]
        /\ mem[i].id = m => mem'[i].status = "pending"
    <3>1. i \in 1..Len(mem)
      BY <1>6
    <3> QED
      BY <1>6, <3>1
  <2>2. CASE mem[i].id # m
    <3>1. mem[i].id \in Jobs
      BY <1>1, <1>10, <2>1, <2>2
    <3> QED
      BY <2>1, <2>2, <3>1 DEF JobsInv, WaitingIsPending
  <2> QED
    BY <2>1, <2>2
<1>11. WaitingIsPending'
  BY <1>10 DEF WaitingIsPending
<1> QED
  BY <1>3, <1>9, <1>11 DEF JobsInv

\* A step that takes no new job and leaves the places of the others, and that
\* changes no status of a message with a job.
LEMMA KeptJobs ==
    ASSUME TypeInv, JobsInv, OwnJobs', Jobs' \subseteq Jobs, asked' = asked,
           disk' = disk \/ disk' = mem',
           \A i \in 1..Len(mem') :
              \E j \in 1..Len(mem) :
                 /\ mem'[i].id = mem[j].id
                 /\ mem[j].id \in Jobs' => mem'[i].status = mem[j].status
    PROVE  JobsInv'
<1>1. \A i \in 1..Len(mem') : asked'[mem'[i].id] # 0
  BY DEF JobsInv, AskedInv
<1>2. \A i \in 1..Len(disk') : asked'[disk'[i].id] # 0
  BY <1>1 DEF JobsInv, AskedInv
<1>3. AskedInv'
  BY <1>1, <1>2 DEF JobsInv, AskedInv
<1>4. WaitingIsPending'
  BY DEF JobsInv, WaitingIsPending
<1> QED
  BY <1>3, <1>4 DEF JobsInv

\* The same where the history does not change either.
LEMMA StillJobs ==
    ASSUME TypeInv, JobsInv, OwnJobs', Jobs' \subseteq Jobs,
           UNCHANGED <<mem, disk, asked>>
    PROVE  JobsInv'
  BY KeptJobs

LEMMA EnqueueKeeps == ASSUME TypeInv, JobsInv, NEW m \in Msgs, Enqueue(m) PROVE JobsInv'
<1>1. /\ queue \in Seq(Msgs) /\ Len(queue) \in Nat
      /\ Len(queue') = Len(queue) + 1
      /\ \A i \in 1..Len(queue) : queue'[i] = queue[i]
      /\ queue'[Len(queue) + 1] = m
  BY AppendProperties, LenProperties DEF Enqueue, TypeInv, TypeOK
<1>2. /\ m \in posting /\ posting' = posting \ {m} /\ batch' = batch /\ at' = at
      /\ UNCHANGED <<mem, disk, asked>>
  BY DEF Enqueue, workerVars, storeVars, historyVars
<1>3. m \notin Queued /\ m \notin Ahead
  BY <1>2 DEF JobsInv, OwnJobs
<1>4. \A i \in 1..Len(queue) : queue[i] # m
  BY <1>3 DEF Queued
<1>5. ASSUME NEW i \in 1..Len(queue'), NEW j \in 1..Len(queue'), queue'[i] = queue'[j]
      PROVE  i = j
  <2>1. /\ i \in 1..Len(queue) \/ i = Len(queue) + 1
        /\ j \in 1..Len(queue) \/ j = Len(queue) + 1
    BY <1>1
  <2> QED
    BY <1>1, <1>4, <1>5, <2>1 DEF JobsInv, OwnJobs
<1>6. OwnJobs'
  BY <1>2, <1>3, <1>5, EnqueueJobs DEF JobsInv, OwnJobs
<1> QED
  BY <1>2, <1>6, EnqueueJobs, StillJobs

LEMMA TakeKeeps == ASSUME TypeInv, JobsInv, WorkerTakes PROVE JobsInv'
<1>1. PICK n \in 1..Len(queue) :
         /\ Len(batch') = n /\ \A i \in 1..n : batch'[i] = queue[i]
         /\ Len(queue') = Len(queue) - n
         /\ \A i \in 1..(Len(queue) - n) : queue'[i] = queue[n + i]
  BY TakenJobs
<1>2. Len(queue) \in Nat /\ at = 1 /\ at' = 1 /\ posting' = posting
  BY LenProperties DEF TypeInv, TypeOK, PlaceInv, WorkerTakes
<1>3. \A i, j \in 1..Len(queue) : queue[i] = queue[j] => i = j
  BY DEF JobsInv, OwnJobs
<1>4. ASSUME NEW i \in 1..Len(queue'), NEW j \in 1..Len(queue'), queue'[i] = queue'[j]
      PROVE  i = j
  <2>1. n + i \in 1..Len(queue) /\ n + j \in 1..Len(queue)
    BY <1>1, <1>2
  <2>2. queue[n + i] = queue[n + j]
    BY <1>1, <1>2, <1>4
  <2>3. n + i = n + j
    BY <1>3, <2>1, <2>2
  <2> QED
    BY <1>1, <1>2, <2>3
<1>5. ASSUME NEW i \in at'..Len(batch'), NEW j \in at'..Len(batch'), batch'[i] = batch'[j]
      PROVE  i = j
  <2>1. i \in 1..n /\ j \in 1..n /\ i \in 1..Len(queue) /\ j \in 1..Len(queue)
    BY <1>1, <1>2
  <2> QED
    BY <1>1, <1>3, <1>5, <2>1
<1>6. Queued' \cap Ahead' = {}
  <2> SUFFICES ASSUME NEW m \in Queued', m \in Ahead' PROVE FALSE
    OBVIOUS
  <2>1. PICK i \in 1..Len(queue') : m = queue'[i]
    BY DEF Queued
  <2>2. PICK j \in 1..n : m = batch'[j]
    BY <1>1, <1>2 DEF Ahead, WorkerTakes
  <2>3. n + i \in 1..Len(queue) /\ j \in 1..Len(queue) /\ n + i # j
    BY <1>1, <1>2
  <2>4. queue[n + i] = m /\ queue[j] = m
    BY <1>1, <1>2, <2>1, <2>2
  <2> QED
    BY <1>3, <2>3, <2>4
<1>7. Queued = Queued' \cup Ahead' /\ Jobs' = Jobs
  BY TakenJobs
<1>8. OwnJobs'
  BY <1>2, <1>4, <1>5, <1>6, <1>7 DEF JobsInv, OwnJobs
<1>9. UNCHANGED <<mem, disk, asked>>
  BY DEF WorkerTakes, storeVars, historyVars
<1> QED
  BY <1>7, <1>8, <1>9, StillJobs

LEMMA QuietKeeps == ASSUME TypeInv, JobsInv, QuietStep PROVE JobsInv'
<1>1. OwnJobs'
  BY QuietJobs DEF JobsInv, OwnJobs
<1> QED
  BY <1>1, QuietJobs, StillJobs

\* The job that is done is nowhere else.
LEMMA AdvanceKeeps ==
    ASSUME TypeInv, OwnJobs, NEW label \in {"results", "except"}, wpc = label,
           Advance(label), UNCHANGED <<posting, queue>>
    PROVE  OwnJobs' /\ batch[at] \notin Jobs'
<1>1. Len(batch) \in Nat /\ at \in 1..Len(batch)
  BY LenProperties DEF TypeInv, TypeOK, PlaceInv
<1>2. \A i, j \in at..Len(batch) : batch[i] = batch[j] => i = j
  BY DEF OwnJobs
<1>3. Queued' = Queued /\ Ahead' \subseteq Ahead /\ batch[at] \in Ahead
  BY AdvancedJobs
<1>4. batch[at] \notin posting /\ batch[at] \notin Queued
  BY <1>3 DEF OwnJobs
<1>5. CASE at < Len(batch)
  <2>1. at' = at + 1 /\ batch' = batch /\ wpc' = label
    BY <1>5 DEF Advance
  <2>2. Ahead' = {batch[i] : i \in (at + 1)..Len(batch)}
    BY <2>1 DEF Ahead
  <2>3. \A i \in (at + 1)..Len(batch) : i \in at..Len(batch) /\ i # at
    BY <1>1
  <2>4. batch[at] \notin Ahead'
    BY <1>1, <1>2, <2>2, <2>3
  <2>5. \A i, j \in at'..Len(batch') : batch'[i] = batch'[j] => i = j
    BY <1>2, <2>1, <2>3
  <2> QED
    BY <1>3, <1>4, <2>4, <2>5 DEF OwnJobs, Jobs
<1>6. CASE ~(at < Len(batch))
  <2>1. at' = 1 /\ batch' = <<>> /\ wpc' = "wait"
    BY <1>6 DEF Advance
  <2>2. Len(batch') = 0 /\ Ahead' = {}
    BY <2>1, EmptySeq DEF Ahead
  <2>3. \A i, j \in at'..Len(batch') : batch'[i] = batch'[j] => i = j
    BY <2>1, <2>2
  <2> QED
    BY <1>3, <1>4, <2>2, <2>3 DEF OwnJobs, Jobs
<1> QED
  BY <1>5, <1>6

\* A job whose outcome is stored is given up by the worker in the same step.
LEMMA OutcomeKeeps ==
    ASSUME TypeInv, JobsInv, NEW label \in {"results", "except"}, wpc = label,
           Advance(label), UNCHANGED <<posting, queue, asked>>,
           NEW status \in Statuses, NEW pid \in 0..MaxPackets,
           UpdateStatus(batch[at], status, pid)
    PROVE  JobsInv'
<1>1. OwnJobs' /\ batch[at] \notin Jobs'
  BY AdvanceKeeps DEF JobsInv
<1>2. Jobs' \subseteq Jobs
  BY AdvancedJobs
<1>3. /\ Len(mem') = Len(mem) /\ (disk' = disk \/ disk' = mem')
      /\ \A i \in 1..Len(mem) : /\ mem'[i].id = mem[i].id
                                /\ mem[i].id # batch[at] => mem'[i] = mem[i]
  BY UpdatedMem
<1>4. \A i \in 1..Len(mem') :
         \E j \in 1..Len(mem) : /\ mem'[i].id = mem[j].id
                                /\ mem[j].id \in Jobs' => mem'[i].status = mem[j].status
  <2> SUFFICES ASSUME NEW i \in 1..Len(mem')
               PROVE  /\ i \in 1..Len(mem) /\ mem'[i].id = mem[i].id
                      /\ mem[i].id \in Jobs' => mem'[i].status = mem[i].status
    OBVIOUS
  <2> QED
    BY <1>1, <1>3
<1> QED
  BY <1>1, <1>2, <1>3, <1>4, KeptJobs

LEMMA ResultKeeps == ASSUME TypeInv, JobsInv, HandleResult PROVE JobsInv'
<1>1. results[at] \in 0..MaxPackets /\ 0 \in 0..MaxPackets /\ "sent" \in Statuses /\ "failed" \in Statuses
  BY ResultIs DEF HandleResult
<1>2. \/ UpdateStatus(batch[at], "failed", 0)
      \/ UpdateStatus(batch[at], "sent", results[at])
  BY DEF HandleResult, MarkFailed, Sent
<1>3. wpc = "results" /\ Advance("results") /\ UNCHANGED <<posting, queue, asked>>
  BY DEF HandleResult, historyVars
<1> QED
  BY <1>1, <1>2, <1>3, OutcomeKeeps

LEMMA ExceptKeeps == ASSUME TypeInv, JobsInv, WorkerExcept PROVE JobsInv'
<1>1. 0 \in 0..MaxPackets /\ "failed" \in Statuses /\ UpdateStatus(batch[at], "failed", 0)
  BY MessagesAssumption DEF Statuses, WorkerExcept, MarkFailed
<1>2. wpc = "except" /\ Advance("except") /\ UNCHANGED <<posting, queue, asked>>
  BY DEF WorkerExcept, historyVars
<1> QED
  BY <1>1, <1>2, OutcomeKeeps

LEMMA DeleteKeeps == ASSUME TypeInv, JobsInv, NEW m \in Msgs, Delete(m) PROVE JobsInv'
<1>1. UNCHANGED <<posting, queue, batch, at, wpc, asked>>
  BY DEF Delete, workerVars, historyVars
<1>2. OwnJobs' /\ Jobs' = Jobs
  BY <1>1, SameJobs DEF JobsInv
<1>3. /\ disk' = disk \/ disk' = mem'
      /\ \A i \in 1..Len(mem') : \E j \in 1..Len(mem) : mem'[i] = mem[j]
  BY DeletedMem
<1>4. \A i \in 1..Len(mem') :
         \E j \in 1..Len(mem) : /\ mem'[i].id = mem[j].id
                                /\ mem[j].id \in Jobs' => mem'[i].status = mem[j].status
  BY <1>3
<1> QED
  BY <1>1, <1>2, <1>3, <1>4, KeptJobs

\* Only a message that went out, and so has no job, awaits its ACK.
LEMMA AwaitedKeeps ==
    ASSUME TypeInv, JobsInv, NEW k \in 1..Len(mem), AwaitsAck(mem[k]), NEW status,
           Store([mem EXCEPT ![k].status = status]),
           UNCHANGED <<posting, queue, batch, at, wpc, asked>>
    PROVE  JobsInv'
<1>1. OwnJobs' /\ Jobs' = Jobs
  BY SameJobs DEF JobsInv
<1>2. mem[k].id \notin Jobs
  BY DEF AwaitsAck, JobsInv, WaitingIsPending
<1>3. /\ Len(mem') = Len(mem) /\ (disk' = disk \/ disk' = mem')
      /\ \A j \in 1..Len(mem) : /\ mem'[j].id = mem[j].id
                                /\ mem'[j].status = IF j = k THEN status ELSE mem[j].status
  BY OneStatusMem
<1>4. \A i \in 1..Len(mem') :
         \E j \in 1..Len(mem) : /\ mem'[i].id = mem[j].id
                                /\ mem[j].id \in Jobs' => mem'[i].status = mem[j].status
  <2> SUFFICES ASSUME NEW i \in 1..Len(mem')
               PROVE  /\ i \in 1..Len(mem) /\ mem'[i].id = mem[i].id
                      /\ mem[i].id \in Jobs' => mem'[i].status = mem[i].status
    OBVIOUS
  <2>1. i \in 1..Len(mem)
    BY <1>3
  <2>2. /\ mem'[i].id = mem[i].id
        /\ mem'[i].status = IF i = k THEN status ELSE mem[i].status
    BY <1>3, <2>1
  <2> QED
    BY <1>1, <1>2, <2>1, <2>2
<1> QED
  BY <1>1, <1>3, <1>4, KeptJobs

LEMMA AckKeeps ==
    ASSUME TypeInv, JobsInv, NEW t \in air, NEW status \in {"delivered", "unconfirmed"},
           AckArrives(t, status)
    PROVE  JobsInv'
<1>1. PICK k \in 1..Len(mem) : AwaitsAck(mem[k]) /\ Store([mem EXCEPT ![k].status = status])
  BY DEF AckArrives
<1>2. UNCHANGED <<posting, queue, batch, at, wpc, asked>>
  BY DEF AckArrives, workerVars
<1> QED
  BY <1>1, <1>2, AwaitedKeeps

LEMMA DeadlineKeeps ==
    ASSUME TypeInv, JobsInv, NEW m \in Msgs, AckTimesOut(m)
    PROVE  JobsInv'
<1>1. PICK k \in 1..Len(mem) :
         AwaitsAck(mem[k]) /\ Store([mem EXCEPT ![k].status = "unconfirmed"])
  BY DEF AckTimesOut
<1>2. UNCHANGED <<posting, queue, batch, at, wpc, asked>>
  BY DEF AckTimesOut, workerVars, historyVars
<1> QED
  BY <1>1, <1>2, AwaitedKeeps

\* A crash takes every job, a restart brings none back.
LEMMA RestartKeeps == ASSUME TypeInv, JobsInv, Crash \/ Restart PROVE JobsInv'
<1>1. posting' = {} /\ queue' = <<>> /\ batch' = <<>> /\ at' = 1 /\ asked' = asked
  BY DEF Crash, Restart, TypeInv, PlaceInv, workerVars, historyVars
<1>2. Len(queue') = 0 /\ Len(batch') = 0
  BY <1>1, EmptySeq
<1>3. Queued' = {} /\ Ahead' = {}
  BY <1>1, <1>2 DEF Queued, Ahead
<1>4. OwnJobs' /\ Jobs' = {}
  BY <1>1, <1>2, <1>3 DEF OwnJobs, Jobs
<1>5. CASE Crash
  <2>1. mem' = <<>> /\ Len(mem') = 0 /\ disk' = disk
    BY <1>5, EmptySeq DEF Crash
  <2> QED
    BY <1>1, <1>4, <2>1 DEF JobsInv, AskedInv, WaitingIsPending
<1>6. CASE Restart
  <2>1. /\ Len(mem') = Len(disk) /\ (disk' = disk \/ disk' = mem')
        /\ \A i \in 1..Len(disk) : mem'[i].id = disk[i].id
    BY <1>6, RestartedMem
  <2>2. \A i \in 1..Len(disk) : asked[disk[i].id] # 0
    BY DEF JobsInv, AskedInv
  <2>3. ASSUME NEW i \in 1..Len(mem') PROVE asked'[mem'[i].id] # 0
    <3>1. i \in 1..Len(disk) /\ mem'[i].id = disk[i].id
      BY <2>1
    <3> QED
      BY <1>1, <2>2, <3>1
  <2>4. \A i \in 1..Len(disk') : asked'[disk'[i].id] # 0
    BY <1>1, <2>1, <2>2, <2>3
  <2> QED
    BY <1>4, <2>3, <2>4 DEF JobsInv, AskedInv, WaitingIsPending
<1> QED
  BY <1>5, <1>6

LEMMA JobsNext ==
    ASSUME ~HandlerMayRaise
    PROVE  TypeInv /\ JobsInv /\ [Next]_vars => JobsInv'
<1> SUFFICES ASSUME TypeInv, JobsInv, [Next]_vars PROVE JobsInv'
  OBVIOUS
<1>1. ASSUME NEW m \in Msgs, Post(m) \/ Retry(m) \/ Enqueue(m) \/ Delete(m) \/ AckTimesOut(m)
      PROVE  JobsInv'
  BY <1>1, PostJobs, RetryJobs, EnqueueKeeps, DeleteKeeps, DeadlineKeeps
<1>2. CASE SendWorker
  BY <1>2, TakeKeeps, QuietKeeps, ResultKeeps, ExceptKeeps DEF SendWorker, QuietStep, HandlerRaises
<1>3. CASE OrphanSends
  <2>1. UNCHANGED <<mem, disk, posting, queue, batch, at, wpc, asked>>
    BY <1>3 DEF OrphanSends, storeVars, workerVars
  <2>2. OwnJobs' /\ Jobs' = Jobs
    BY <2>1, SameJobs DEF JobsInv
  <2> QED
    BY <2>1, <2>2, StillJobs
<1>4. ASSUME NEW t \in air, NEW status \in {"delivered", "unconfirmed"}, AckArrives(t, status)
      PROVE  JobsInv'
  BY <1>4, AckKeeps
<1>5. CASE Crash \/ Restart
  BY <1>5, RestartKeeps
<1>6. CASE UNCHANGED vars
  <2>1. UNCHANGED <<mem, disk, posting, queue, batch, at, wpc, asked>>
    BY <1>6 DEF vars
  <2>2. OwnJobs' /\ Jobs' = Jobs
    BY <2>1, SameJobs DEF JobsInv
  <2> QED
    BY <2>1, <2>2, StillJobs
<1> QED
  BY <1>1, <1>2, <1>3, <1>4, <1>5, <1>6 DEF Next

\* While nothing raises after a status was stored, no message has two jobs, for
\* any number of messages, retries and crashes and a history of any length that
\* drops messages still queued (api_chat.py:631-678, server.py:3197-3224).
THEOREM OneJobEach == ~HandlerMayRaise => (Spec => []OneJobPerMessage)
<1> SUFFICES ASSUME ~HandlerMayRaise PROVE Spec => []OneJobPerMessage
  OBVIOUS
<1>1. JobsInv => OneJobPerMessage
  BY OneJob DEF JobsInv
<1>2. TypeInv /\ JobsInv /\ [Next]_vars => JobsInv'
  BY JobsNext
<1> QED
  BY <1>1, <1>2, InitType, NextType, JobsInit, PTL DEF Spec

-----------------------------------------------------------------------------
(* A status is earned                                                      *)

\* What a stored record claims is true of transmissions a and ACKs h.
Good(r, a, h) ==
    /\ r.status \in {"sent", "delivered", "unconfirmed"} => [id |-> r.id, pid |-> r.pid] \in a
    /\ r.status = "delivered" => r.pid \in h

\* What the worker was told went out did go out, for the job it was told it of.
ResultsInv ==
    /\ wpc \in {"wait", "check"} => results = <<>>
    /\ \A k \in 1..Len(results) :
          results[k] # 0 => [id |-> batch[k], pid |-> results[k]] \in air

EarnedInv ==
    /\ \A i \in 1..Len(mem) : Good(mem[i], air, heard)
    /\ \A i \in 1..Len(disk) : Good(disk[i], air, heard)
    /\ ResultsInv

LEMMA StaysGood ==
    ASSUME NEW r, NEW a, NEW h, NEW b, NEW g, Good(r, a, h), a \subseteq b, h \subseteq g
    PROVE  Good(r, b, g)
  BY DEF Good

\* Transmissions and ACKs only grow; what is stored has to be good, or old.
LEMMA StoredEarned ==
    ASSUME EarnedInv, ResultsInv', air \subseteq air', heard \subseteq heard',
           disk' = disk \/ disk' = mem',
           \A i \in 1..Len(mem') : Good(mem'[i], air', heard')
    PROVE  EarnedInv'
<1>1. \A i \in 1..Len(disk) : Good(disk[i], air', heard')
  BY StaysGood DEF EarnedInv
<1> QED
  BY <1>1 DEF EarnedInv

LEMMA SameEarned ==
    ASSUME EarnedInv, ResultsInv', air \subseteq air', heard \subseteq heard',
           UNCHANGED <<mem, disk>>
    PROVE  EarnedInv'
<1>1. \A i \in 1..Len(mem) : Good(mem[i], air', heard')
  BY StaysGood DEF EarnedInv
<1> QED
  BY <1>1, StoredEarned

LEMMA EarnedInit == Init => EarnedInv
<1> SUFFICES ASSUME Init PROVE EarnedInv
  OBVIOUS
<1>1. mem = <<>> /\ disk = <<>> /\ results = <<>> /\ Len(<<>>) = 0
  BY EmptySeq DEF Init
<1> QED
  BY <1>1 DEF EarnedInv, ResultsInv

LEMMA PostEarned == ASSUME TypeInv, EarnedInv, NEW m \in Msgs, Post(m) PROVE EarnedInv'
<1>1. ResultsInv' /\ UNCHANGED <<air, heard>> /\ (disk' = disk \/ disk' = mem')
  BY DEF Post, Store, workerVars, EarnedInv, ResultsInv
<1>2. ASSUME NEW i \in 1..Len(mem') PROVE Good(mem'[i], air, heard)
  <2>1. CASE mem'[i] = [id |-> m, status |-> "pending", pid |-> 0, ack |-> FALSE]
    BY <2>1 DEF Good
  <2>2. CASE \E j \in 1..Len(mem) : mem'[i] = mem[j]
    BY <2>2 DEF EarnedInv
  <2> QED
    BY <2>1, <2>2, PostMem
<1> QED
  BY <1>1, <1>2, StoredEarned

\* A new status with which nothing is claimed, or one a transmission has earned.
LEMMA UpdateEarned ==
    ASSUME TypeInv, EarnedInv, ResultsInv', UNCHANGED <<air, heard>>,
           NEW m, NEW status \in Statuses, NEW pid \in 0..MaxPackets,
           UpdateStatus(m, status, pid) \/ Store(Changed(m, status, pid)),
           \/ status \in {"pending", "failed"}
           \/ status = "sent" /\ pid # 0 /\ [id |-> m, pid |-> pid] \in air
    PROVE  EarnedInv'
<1>1. /\ Len(mem') = Len(mem) /\ (disk' = disk \/ disk' = mem')
      /\ \A i \in 1..Len(mem) :
            /\ mem'[i].id = mem[i].id
            /\ mem[i].id # m => mem'[i] = mem[i]
            /\ mem[i].id = m => mem'[i].status = status
            /\ mem[i].id = m /\ pid # 0 => mem'[i].pid = pid
  BY ONLY TypeInv, status \in Statuses, pid \in 0..MaxPackets,
          UpdateStatus(m, status, pid) \/ Store(Changed(m, status, pid)), UpdatedMem, ZenonT(60)
<1>2. ASSUME NEW i \in 1..Len(mem') PROVE Good(mem'[i], air, heard)
  <2>1. i \in 1..Len(mem)
    BY <1>1
  <2>2. CASE mem[i].id # m
    BY <1>1, <2>1, <2>2 DEF EarnedInv
  <2>3. CASE mem[i].id = m
    <3>1. /\ mem'[i].id = m /\ mem'[i].status = status
          /\ pid # 0 => mem'[i].pid = pid
      BY <1>1, <2>1, <2>3
    <3> QED
      BY <3>1 DEF Good
  <2> QED
    BY <2>2, <2>3
<1> QED
  BY <1>1, <1>2, StoredEarned

LEMMA RetryEarned == ASSUME TypeInv, EarnedInv, NEW m \in Msgs, Retry(m) PROVE EarnedInv'
<1>1. ResultsInv' /\ UNCHANGED <<air, heard>>
  BY DEF Retry, workerVars, EarnedInv, ResultsInv
<1>2. "pending" \in Statuses /\ 0 \in 0..MaxPackets /\ Store(Changed(m, "pending", 0))
  BY MessagesAssumption DEF Statuses, Retry
<1> QED
  BY <1>1, <1>2, UpdateEarned

LEMMA DeleteEarned == ASSUME TypeInv, EarnedInv, NEW m \in Msgs, Delete(m) PROVE EarnedInv'
<1>1. ResultsInv' /\ UNCHANGED <<air, heard>>
  BY DEF Delete, workerVars, historyVars, EarnedInv, ResultsInv
<1>2. \A i \in 1..Len(mem') : Good(mem'[i], air, heard)
  BY DeletedMem DEF EarnedInv
<1> QED
  BY <1>1, <1>2, DeletedMem, StoredEarned

LEMMA AdapterEarned == ASSUME TypeInv, EarnedInv, AdapterSends PROVE EarnedInv'
<1>1. Len(results) \in Nat /\ results \in Seq(0..MaxPackets) /\ batch' = batch
  BY LenProperties DEF TypeInv, TypeOK, AdapterSends
<1>2. Packets \in Nat
  BY FS_CardinalityType DEF TypeInv, Packets
<1>3. PICK r \in 0..MaxPackets :
         /\ results' = Append(results, r)
         /\ air \subseteq air'
         /\ r # 0 => [id |-> batch[Len(results) + 1], pid |-> r] \in air'
  <2>1. 0 \in 0..MaxPackets /\ (Packets < MaxPackets => Packets + 1 \in 0..MaxPackets)
    BY <1>2, MessagesAssumption
  <2> HIDE DEF Packets
  <2> QED
    BY <2>1 DEF AdapterSends, Transmitted
<1>4. /\ Len(results') = Len(results) + 1
      /\ \A k \in 1..Len(results) : results'[k] = results[k]
      /\ results'[Len(results) + 1] = r
  BY <1>1, <1>3, AppendProperties
<1>5. ASSUME NEW k \in 1..Len(results'), results'[k] # 0
      PROVE  [id |-> batch'[k], pid |-> results'[k]] \in air'
  <2>1. k \in 1..Len(results) \/ k = Len(results) + 1
    BY <1>1, <1>4
  <2>2. CASE k \in 1..Len(results)
    BY <1>1, <1>3, <1>4, <1>5, <2>2 DEF EarnedInv, ResultsInv
  <2>3. CASE k = Len(results) + 1
    BY <1>1, <1>3, <1>4, <1>5, <2>3
  <2> QED
    BY <2>1, <2>2, <2>3
<1>6. ResultsInv'
  BY <1>5 DEF ResultsInv, AdapterSends
<1> QED
  BY <1>3, <1>6, SameEarned DEF AdapterSends, storeVars

\* The worker's other steps up to the results claim nothing new.
LEMMA WorkerEarned ==
    ASSUME TypeInv, EarnedInv,
           \/ WorkerTakes \/ WorkerRefuses \/ WorkerSends
           \/ SendReturns \/ SendTimesOut \/ SendRaises
    PROVE  EarnedInv'
<1>1. UNCHANGED <<mem, disk, air, heard>>
  BY DEF WorkerTakes, WorkerRefuses, WorkerSends, SendReturns, SendTimesOut, SendRaises,
         storeVars, historyVars
<1>2. CASE WorkerTakes
  <2>1. results' = <<>> /\ Len(results') = 0
    BY <1>2, EmptySeq DEF WorkerTakes, EarnedInv, ResultsInv
  <2> QED
    BY <1>1, <2>1, SameEarned DEF ResultsInv
<1>3. CASE WorkerSends
  <2>1. results' = <<>> /\ Len(results') = 0
    BY <1>3, EmptySeq DEF WorkerSends
  <2> QED
    BY <1>1, <2>1, SameEarned DEF ResultsInv
<1>4. CASE WorkerRefuses \/ SendTimesOut
  <2>1. Len(batch) \in Nat /\ results' = [k \in 1..Len(batch) |-> 0] /\ wpc' = "results"
    BY <1>4, LenProperties DEF WorkerRefuses, SendTimesOut, NotAccepted, TypeInv, TypeOK
  <2>2. results' \in [1..Len(batch) -> {0}]
    BY <2>1
  <2>3. results' \in Seq({0})
    BY <2>1, <2>2, SeqDef
  <2>4. \A k \in 1..Len(results') : results'[k] = 0
    BY <2>3, ElementOfSeq
  <2> QED
    BY <1>1, <2>1, <2>4, SameEarned DEF ResultsInv
<1>5. CASE SendReturns \/ SendRaises
  <2>1. results' = results /\ batch' = batch /\ wpc' \notin {"wait", "check"}
    BY <1>5 DEF SendReturns, SendRaises
  <2> QED
    BY <1>1, <2>1, SameEarned DEF EarnedInv, ResultsInv
<1> QED
  BY <1>2, <1>3, <1>4, <1>5

LEMMA OutcomeEarned ==
    ASSUME TypeInv, EarnedInv, HandleResult \/ HandlerRaises \/ WorkerExcept
    PROVE  EarnedInv'
<1>1. at \in 1..Len(batch) /\ UNCHANGED <<air, heard>> /\ wpc \in {"results", "except"}
  BY DEF TypeInv, PlaceInv, HandleResult, HandlerRaises, WorkerExcept, historyVars
<1>2. ResultsInv'
  <2>1. \/ results' = results /\ batch' = batch /\ wpc' \notin {"wait", "check"}
        \/ results' = <<>>
    BY DEF HandleResult, HandlerRaises, WorkerExcept, Advance
  <2>2. CASE results' = <<>>
    BY <2>2, EmptySeq DEF ResultsInv
  <2>3. CASE results' = results /\ batch' = batch /\ wpc' \notin {"wait", "check"}
    BY <1>1, <2>3 DEF EarnedInv, ResultsInv
  <2> QED
    BY <2>1, <2>2, <2>3
<1>3. 0 \in 0..MaxPackets /\ "failed" \in Statuses /\ "sent" \in Statuses
  BY MessagesAssumption DEF Statuses
<1>4. CASE UpdateStatus(batch[at], "failed", 0)
  BY <1>1, <1>2, <1>3, <1>4, UpdateEarned
<1>5. CASE UpdateStatus(batch[at], "sent", results[at]) /\ results[at] # 0 /\ wpc = "results"
  <2>1. at \in 1..Len(results)
    BY <1>1, <1>5 DEF TypeInv, PlaceInv
  <2>2. results[at] \in 0..MaxPackets
    BY <2>1, ElementOfSeq DEF TypeInv, TypeOK
  <2>3. [id |-> batch[at], pid |-> results[at]] \in air
    BY <1>5, <2>1 DEF EarnedInv, ResultsInv
  <2> QED
    BY <1>1, <1>2, <1>3, <1>5, <2>2, <2>3, UpdateEarned
<1> QED
  BY <1>4, <1>5 DEF HandleResult, HandlerRaises, WorkerExcept, MarkFailed, Sent

LEMMA AckEarned ==
    ASSUME TypeInv, EarnedInv, NEW t \in air, NEW status \in {"delivered", "unconfirmed"},
           AckArrives(t, status)
    PROVE  EarnedInv'
<1>1. PICK k \in 1..Len(mem) : /\ mem[k].pid = t.pid /\ AwaitsAck(mem[k])
                               /\ Store([mem EXCEPT ![k].status = status])
  BY DEF AckArrives
<1>2. /\ heard \subseteq heard' /\ (status = "delivered" => t.pid \in heard') /\ air' = air
      /\ ResultsInv'
  BY DEF AckArrives, workerVars, EarnedInv, ResultsInv
<1>3. /\ Len(mem') = Len(mem) /\ (disk' = disk \/ disk' = mem')
      /\ \A j \in 1..Len(mem) : /\ mem'[j].id = mem[j].id /\ mem'[j].pid = mem[j].pid
                                /\ mem'[j].status = IF j = k THEN status ELSE mem[j].status
  BY <1>1, OneStatusMem
<1>4. ASSUME NEW i \in 1..Len(mem') PROVE Good(mem'[i], air', heard')
  <2>1. i \in 1..Len(mem)
    BY <1>3
  <2>2. /\ mem'[i].id = mem[i].id /\ mem'[i].pid = mem[i].pid
        /\ mem'[i].status = IF i = k THEN status ELSE mem[i].status
    BY <1>3, <2>1
  <2>3. Good(mem[i], air, heard)
    BY <2>1 DEF EarnedInv
  <2> QED
    BY <1>1, <1>2, <2>2, <2>3 DEF Good, AwaitsAck
<1> QED
  BY <1>2, <1>3, <1>4, StoredEarned

LEMMA DeadlineEarned ==
    ASSUME TypeInv, EarnedInv, NEW m \in Msgs, AckTimesOut(m)
    PROVE  EarnedInv'
<1>1. PICK k \in 1..Len(mem) : /\ AwaitsAck(mem[k])
                               /\ Store([mem EXCEPT ![k].status = "unconfirmed"])
  BY DEF AckTimesOut
<1>2. UNCHANGED <<air, heard>> /\ ResultsInv'
  BY DEF AckTimesOut, workerVars, historyVars, EarnedInv, ResultsInv
<1>3. /\ Len(mem') = Len(mem) /\ (disk' = disk \/ disk' = mem')
      /\ \A j \in 1..Len(mem) : /\ mem'[j].id = mem[j].id /\ mem'[j].pid = mem[j].pid
                                /\ mem'[j].status = IF j = k THEN "unconfirmed" ELSE mem[j].status
  BY <1>1, OneStatusMem
<1>4. ASSUME NEW i \in 1..Len(mem') PROVE Good(mem'[i], air, heard)
  <2>1. i \in 1..Len(mem)
    BY <1>3
  <2>2. /\ mem'[i].id = mem[i].id /\ mem'[i].pid = mem[i].pid
        /\ mem'[i].status = IF i = k THEN "unconfirmed" ELSE mem[i].status
    BY <1>3, <2>1
  <2>3. Good(mem[i], air, heard)
    BY <2>1 DEF EarnedInv
  <2> QED
    BY <1>1, <2>2, <2>3 DEF Good, AwaitsAck
<1> QED
  BY <1>2, <1>3, <1>4, StoredEarned

LEMMA RestartEarned == ASSUME TypeInv, EarnedInv, Crash \/ Restart PROVE EarnedInv'
<1>1. UNCHANGED <<air, heard>>
  BY DEF Crash, Restart, historyVars
<1>2. CASE Crash
  <2>1. mem' = <<>> /\ results' = <<>> /\ Len(<<>>) = 0 /\ disk' = disk
    BY <1>2, EmptySeq DEF Crash
  <2> QED
    BY <1>1, <2>1, StoredEarned DEF ResultsInv
<1>3. CASE Restart
  <2>1. /\ Len(mem') = Len(disk) /\ (disk' = disk \/ disk' = mem')
        /\ \A i \in 1..Len(disk) :
              /\ mem'[i].id = disk[i].id /\ mem'[i].pid = disk[i].pid
              /\ mem'[i].status = IF disk[i].status = "pending" THEN "failed" ELSE disk[i].status
    BY <1>3, RestartedMem
  <2>2. ASSUME NEW i \in 1..Len(mem') PROVE Good(mem'[i], air, heard)
    <3>1. i \in 1..Len(disk)
      BY <2>1
    <3>2. /\ mem'[i].id = disk[i].id /\ mem'[i].pid = disk[i].pid
          /\ mem'[i].status = IF disk[i].status = "pending" THEN "failed" ELSE disk[i].status
      BY <2>1, <3>1
    <3>3. Good(disk[i], air, heard)
      BY <3>1 DEF EarnedInv
    <3> QED
      BY <3>2, <3>3 DEF Good
  <2>3. ResultsInv'
    BY <1>3 DEF Restart, workerVars, historyVars, EarnedInv, ResultsInv
  <2> QED
    BY <1>1, <2>1, <2>2, <2>3, StoredEarned
<1> QED
  BY <1>2, <1>3

LEMMA EarnedNext == TypeInv /\ EarnedInv /\ [Next]_vars => EarnedInv'
<1> SUFFICES ASSUME TypeInv, EarnedInv, [Next]_vars PROVE EarnedInv'
  OBVIOUS
<1>1. ASSUME NEW m \in Msgs, Post(m) \/ Retry(m) \/ Delete(m) \/ AckTimesOut(m)
      PROVE  EarnedInv'
  BY <1>1, PostEarned, RetryEarned, DeleteEarned, DeadlineEarned
<1>2. ASSUME NEW m \in Msgs, Enqueue(m) PROVE EarnedInv'
  <2>1. UNCHANGED <<mem, disk, air, heard, wpc, batch, results>>
    BY <1>2 DEF Enqueue, storeVars, workerVars, historyVars
  <2>2. ResultsInv'
    BY <2>1 DEF EarnedInv, ResultsInv
  <2> QED
    BY <2>1, <2>2, SameEarned
<1>3. CASE SendWorker
  BY <1>3, AdapterEarned, WorkerEarned, OutcomeEarned DEF SendWorker
<1>4. CASE OrphanSends
  <2>1. UNCHANGED <<mem, disk, heard, wpc, batch, results>> /\ air \subseteq air'
    BY <1>4 DEF OrphanSends, Transmitted, storeVars, workerVars
  <2>2. ResultsInv'
    BY <2>1 DEF EarnedInv, ResultsInv
  <2> QED
    BY <2>1, <2>2, SameEarned
<1>5. ASSUME NEW t \in air, NEW status \in {"delivered", "unconfirmed"}, AckArrives(t, status)
      PROVE  EarnedInv'
  BY <1>5, AckEarned
<1>6. CASE Crash \/ Restart
  BY <1>6, RestartEarned
<1>7. CASE UNCHANGED vars
  <2>1. UNCHANGED <<mem, disk, air, heard, wpc, batch, results>>
    BY <1>7 DEF vars
  <2>2. ResultsInv'
    BY <2>1 DEF EarnedInv, ResultsInv
  <2> QED
    BY <2>1, <2>2, SameEarned
<1> QED
  BY <1>1, <1>2, <1>3, <1>4, <1>5, <1>6, <1>7 DEF Next

\* "sent", "delivered" and "unconfirmed" are claimed only of a message that went
\* out under the packet id stored with it, and "delivered" only when that id was
\* acknowledged - for any batch, crash, retry and late ACK (api_chat.py:150-230,
\* server.py:2683-2793).
THEOREM StatusEarned == Spec => []StatusIsEarned
<1>1. EarnedInv => StatusIsEarned
  BY DEF EarnedInv, StatusIsEarned, Good
<1> QED
  BY <1>1, InitType, NextType, EarnedInit, EarnedNext, PTL DEF Spec

-----------------------------------------------------------------------------
(* A final status stays                                                    *)

UniqueIds(s) == \A i, j \in 1..Len(s) : s[i].id = s[j].id => i = j

\* An id names one message of the history.
IdsInv == UniqueIds(mem) /\ UniqueIds(disk)

LEMMA KeepLastUnique ==
    ASSUME NEW s \in Seq(Record), UniqueIds(s)
    PROVE  UniqueIds(KeepLast(s))
<1> DEFINE first == IF Len(s) > MaxHistory THEN Len(s) - MaxHistory + 1 ELSE 1
<1>1. MaxHistory \in Nat \ {0} /\ Len(s) \in Nat
  BY MessagesAssumption, LenProperties
<1>2. first \in 1..(Len(s) + 1) /\ first \in Nat
  BY <1>1
<1>3. KeepLast(s) = SubSeq(s, first, Len(s))
  BY DEF KeepLast
<1>4. /\ Len(SubSeq(s, first, Len(s))) = IF first <= Len(s) THEN Len(s) - first + 1 ELSE 0
      /\ \A i \in 1..(Len(s) - first + 1) : SubSeq(s, first, Len(s))[i] = s[first + i - 1]
  BY <1>1, <1>2, SubSeqProperties
<1> HIDE DEF first
<1>5. ASSUME NEW i \in 1..Len(KeepLast(s))
      PROVE  first + i - 1 \in 1..Len(s) /\ KeepLast(s)[i] = s[first + i - 1]
  <2>1. i \in 1..(Len(s) - first + 1)
    BY <1>1, <1>2, <1>3, <1>4
  <2> QED
    BY <1>1, <1>2, <1>3, <1>4, <2>1
<1>6. ASSUME NEW i \in 1..Len(KeepLast(s)), NEW j \in 1..Len(KeepLast(s)),
             KeepLast(s)[i].id = KeepLast(s)[j].id
      PROVE  i = j
  <2>1. first + i - 1 = first + j - 1
    BY <1>5, <1>6 DEF UniqueIds
  <2> QED
    BY <1>2, <2>1
<1> QED
  BY <1>6 DEF UniqueIds

LEMMA WithoutUnique ==
    ASSUME NEW s \in Seq(Record), UniqueIds(s), NEW i \in 1..Len(s)
    PROVE  UniqueIds(SubSeq(s, 1, i - 1) \o SubSeq(s, i + 1, Len(s)))
<1> DEFINE a == SubSeq(s, 1, i - 1)
           b == SubSeq(s, i + 1, Len(s))
           r == a \o b
<1>1. Len(s) \in Nat
  BY LenProperties
<1>2. /\ a \in Seq(Record) /\ Len(a) = i - 1
      /\ \A k \in 1..(i - 1) : a[k] = s[k]
  BY <1>1, SubSeqProperties
<1>3. /\ b \in Seq(Record) /\ Len(b) = Len(s) - i
      /\ \A k \in 1..(Len(s) - i) : b[k] = s[i + k]
  BY <1>1, SubSeqProperties
<1> HIDE DEF a, b
<1>4. /\ Len(r) = Len(s) - 1
      /\ \A k \in 1..(Len(s) - 1) : r[k] = IF k < i THEN a[k] ELSE b[k - (i - 1)]
  <2>1. /\ Len(r) = Len(a) + Len(b)
        /\ \A k \in 1..(Len(a) + Len(b)) : r[k] = IF k <= Len(a) THEN a[k] ELSE b[k - Len(a)]
    BY <1>2, <1>3, ConcatProperties
  <2> QED
    BY <1>1, <1>2, <1>3, <2>1
<1> DEFINE old(k) == IF k < i THEN k ELSE k + 1
<1>5. ASSUME NEW k \in 1..Len(r) PROVE old(k) \in 1..Len(s) /\ r[k] = s[old(k)]
  <2>1. k \in 1..(Len(s) - 1)
    BY <1>4
  <2>2. CASE k < i
    BY <1>1, <1>2, <1>4, <2>1, <2>2
  <2>3. CASE ~(k < i)
    <3>1. k - (i - 1) \in 1..(Len(s) - i) /\ k + 1 \in 1..Len(s) /\ i + (k - (i - 1)) = k + 1
      BY <2>1, <2>3, <1>1
    <3> QED
      BY <2>1, <2>3, <3>1, <1>3, <1>4
  <2> QED
    BY <2>2, <2>3
<1>6. ASSUME NEW k \in 1..Len(r), NEW l \in 1..Len(r), r[k].id = r[l].id
      PROVE  k = l
  <2>1. old(k) = old(l)
    <3> HIDE DEF r, old
    <3> QED
      BY <1>5, <1>6 DEF UniqueIds
  <2>2. k \in Int /\ l \in Int
    OBVIOUS
  <2> QED
    BY <2>1, <2>2
<1> QED
  BY <1>6 DEF UniqueIds, a, b

LEMMA SameIdsUnique ==
    ASSUME NEW s, NEW t, UniqueIds(s), Len(t) = Len(s), \A i \in 1..Len(s) : t[i].id = s[i].id
    PROVE  UniqueIds(t)
  BY DEF UniqueIds

LEMMA PostUnique ==
    ASSUME TypeInv, JobsInv, IdsInv, NEW m \in Msgs, Post(m)
    PROVE  UniqueIds(mem') /\ \A i \in 1..Len(mem) : mem[i].id # m
<1> DEFINE new == [id |-> m, status |-> "pending", pid |-> 0, ack |-> FALSE]
           long == Append(mem, new)
<1>1. new \in Record
  BY MessagesAssumption DEF Record, Statuses
<1>2. /\ long \in Seq(Record) /\ Len(long) = Len(mem) + 1
      /\ \A j \in 1..Len(mem) : long[j] = mem[j]
      /\ long[Len(mem) + 1] = new
  BY <1>1, AppendProperties DEF TypeInv, TypeOK
<1>3. \A i \in 1..Len(mem) : mem[i].id # m
  BY DEF Post, JobsInv, AskedInv
<1>4. new.id = m /\ mem' = KeepLast(long)
  BY DEF Post, Store
<1> HIDE DEF new, long
<1>5. ASSUME NEW i \in 1..Len(long), NEW j \in 1..Len(long), long[i].id = long[j].id
      PROVE  i = j
  <2>1. /\ i \in 1..Len(mem) \/ i = Len(mem) + 1
        /\ j \in 1..Len(mem) \/ j = Len(mem) + 1
    BY <1>2, MemLength
  <2> QED
    BY <1>2, <1>3, <1>4, <1>5, <2>1 DEF IdsInv, UniqueIds
<1> QED
  BY <1>2, <1>3, <1>4, <1>5, KeepLastUnique DEF UniqueIds

\* What a step of the running server may make of the history: a message keeps
\* its status if that is final, or is new.
Settles ==
    \A j \in 1..Len(mem') :
       \/ \A k \in 1..Len(mem) : mem[k].id # mem'[j].id
       \/ \E k \in 1..Len(mem) :
             /\ mem'[j].id = mem[k].id
             /\ mem[k].status \in {"delivered", "unconfirmed"} => mem'[j].status = mem[k].status

LEMMA SettledStays ==
    ASSUME UniqueIds(mem), Settles,
           NEW i \in 1..Len(mem), NEW j \in 1..Len(mem'), mem[i].id = mem'[j].id,
           mem[i].status \in {"delivered", "unconfirmed"}
    PROVE  mem'[j].status = mem[i].status
<1>1. PICK k \in 1..Len(mem) :
         /\ mem'[j].id = mem[k].id
         /\ mem[k].status \in {"delivered", "unconfirmed"} => mem'[j].status = mem[k].status
  BY DEF Settles
<1>2. k = i
  BY <1>1 DEF UniqueIds
<1> QED
  BY <1>1, <1>2

\* A new status for a message with one that is not final.
LEMMA UpdateSettles ==
    ASSUME TypeInv, IdsInv, NEW m, NEW status \in Statuses, NEW pid \in 0..MaxPackets,
           UpdateStatus(m, status, pid) \/ Store(Changed(m, status, pid)),
           \A i \in 1..Len(mem) :
              mem[i].id = m => mem[i].status \notin {"delivered", "unconfirmed"}
    PROVE  IdsInv' /\ Settles
<1>1. /\ Len(mem') = Len(mem) /\ (disk' = disk \/ disk' = mem')
      /\ \A i \in 1..Len(mem) : /\ mem'[i].id = mem[i].id
                                /\ mem[i].id # m => mem'[i] = mem[i]
  BY UpdatedMem
<1>2. IdsInv'
  BY <1>1, SameIdsUnique DEF IdsInv
<1>3. ASSUME NEW j \in 1..Len(mem')
      PROVE  /\ j \in 1..Len(mem) /\ mem'[j].id = mem[j].id
             /\ mem[j].status \in {"delivered", "unconfirmed"} => mem'[j].status = mem[j].status
  <2>1. j \in 1..Len(mem)
    BY <1>1
  <2> QED
    BY <1>1, <2>1
<1> QED
  BY <1>2, <1>3 DEF Settles

LEMMA SameSettles ==
    ASSUME IdsInv, UNCHANGED <<mem, disk>>
    PROVE  IdsInv' /\ Settles
  BY DEF IdsInv, Settles

LEMMA AwaitedSettles ==
    ASSUME TypeInv, IdsInv, NEW k \in 1..Len(mem), AwaitsAck(mem[k]), NEW status,
           Store([mem EXCEPT ![k].status = status])
    PROVE  IdsInv' /\ Settles
<1>1. /\ Len(mem') = Len(mem) /\ (disk' = disk \/ disk' = mem')
      /\ \A j \in 1..Len(mem) : /\ mem'[j].id = mem[j].id
                                /\ mem'[j].status = IF j = k THEN status ELSE mem[j].status
  BY OneStatusMem
<1>2. IdsInv'
  BY <1>1, SameIdsUnique DEF IdsInv
<1>3. mem[k].status = "sent"
  BY DEF AwaitsAck
<1>4. ASSUME NEW j \in 1..Len(mem')
      PROVE  /\ j \in 1..Len(mem) /\ mem'[j].id = mem[j].id
             /\ mem[j].status \in {"delivered", "unconfirmed"} => mem'[j].status = mem[j].status
  <2>1. j \in 1..Len(mem)
    BY <1>1
  <2>2. mem'[j].id = mem[j].id /\ mem'[j].status = IF j = k THEN status ELSE mem[j].status
    BY <1>1, <2>1
  <2> QED
    BY <1>3, <2>1, <2>2
<1> QED
  BY <1>2, <1>4 DEF Settles

\* The worker's outcome is that of a job, and a message with a job is pending.
LEMMA OutcomeSettles ==
    ASSUME TypeInv, JobsInv, IdsInv, HandleResult \/ WorkerExcept
    PROVE  IdsInv' /\ Settles
<1>1. at \in 1..Len(batch) /\ wpc \in {"results", "except"}
  BY DEF TypeInv, PlaceInv, HandleResult, WorkerExcept
<1>2. batch[at] \in Jobs
  BY <1>1, AheadIs, LenProperties DEF Jobs, TypeInv, TypeOK
<1>3. \A i \in 1..Len(mem) : mem[i].id = batch[at] => mem[i].status = "pending"
  BY <1>2 DEF JobsInv, WaitingIsPending
<1>4. 0 \in 0..MaxPackets /\ "failed" \in Statuses /\ "sent" \in Statuses
  BY MessagesAssumption DEF Statuses
<1>5. CASE UpdateStatus(batch[at], "failed", 0)
  BY <1>3, <1>4, <1>5, UpdateSettles
<1>6. CASE UpdateStatus(batch[at], "sent", results[at]) /\ wpc = "results"
  <2>1. results[at] \in 0..MaxPackets
    BY <1>1, <1>6, ElementOfSeq DEF TypeInv, TypeOK, PlaceInv
  <2> QED
    BY <1>3, <1>4, <1>6, <2>1, UpdateSettles
<1> QED
  BY <1>5, <1>6 DEF HandleResult, WorkerExcept, MarkFailed, Sent

LEMMA RetrySettles ==
    ASSUME TypeInv, IdsInv, NEW m \in Msgs, Retry(m)
    PROVE  IdsInv' /\ Settles
<1>1. PICK k \in 1..Len(mem) : mem[k].id = m /\ mem[k].status = "failed"
  BY DEF Retry, Has
<1>2. \A i \in 1..Len(mem) : mem[i].id = m => i = k
  BY <1>1 DEF IdsInv, UniqueIds
<1>3. \A i \in 1..Len(mem) : mem[i].id = m => mem[i].status \notin {"delivered", "unconfirmed"}
  BY <1>1, <1>2
<1>4. Store(Changed(m, "pending", 0)) /\ "pending" \in Statuses /\ 0 \in 0..MaxPackets
  BY MessagesAssumption DEF Retry, Statuses
<1> QED
  BY <1>3, <1>4, UpdateSettles

LEMMA PostSettles ==
    ASSUME TypeInv, JobsInv, IdsInv, NEW m \in Msgs, Post(m)
    PROVE  IdsInv' /\ Settles
<1>1. disk' = disk \/ disk' = mem'
  BY DEF Post, Store
<1>2. IdsInv'
  BY <1>1, PostUnique DEF IdsInv
<1>3. ASSUME NEW j \in 1..Len(mem')
      PROVE  \/ \A k \in 1..Len(mem) : mem[k].id # mem'[j].id
             \/ \E k \in 1..Len(mem) : mem'[j] = mem[k]
  <2>1. CASE mem'[j] = [id |-> m, status |-> "pending", pid |-> 0, ack |-> FALSE]
    <3>1. mem'[j].id = m
      BY <2>1
    <3> QED
      BY <3>1, PostUnique
  <2> QED
    BY <2>1, PostMem
<1> QED
  BY <1>2, <1>3 DEF Settles

LEMMA DeleteSettles ==
    ASSUME TypeInv, IdsInv, NEW m \in Msgs, Delete(m)
    PROVE  IdsInv' /\ Settles
<1>1. PICK i \in 1..Len(mem) : Store(SubSeq(mem, 1, i - 1) \o SubSeq(mem, i + 1, Len(mem)))
  BY DEF Delete
<1>2. UniqueIds(mem')
  BY <1>1, WithoutUnique DEF Store, IdsInv, TypeInv, TypeOK
<1> QED
  BY <1>2, DeletedMem DEF IdsInv, Settles

LEMMA RestartIds == ASSUME TypeInv, IdsInv, Crash \/ Restart PROVE IdsInv'
<1>1. CASE Crash
  <2>1. mem' = <<>> /\ Len(mem') = 0 /\ disk' = disk
    BY <1>1, EmptySeq DEF Crash
  <2> QED
    BY <2>1 DEF IdsInv, UniqueIds
<1>2. CASE Restart
  <2>1. /\ Len(mem') = Len(disk) /\ (disk' = disk \/ disk' = mem')
        /\ \A i \in 1..Len(disk) : mem'[i].id = disk[i].id
    BY <1>2, RestartedMem
  <2> QED
    BY <2>1, SameIdsUnique DEF IdsInv
<1> QED
  BY <1>1, <1>2

LEMMA SettlesNext ==
    ASSUME ~HandlerMayRaise, TypeInv, JobsInv, IdsInv, [Next]_vars
    PROVE  IdsInv' /\ (up /\ up' => Settles)
<1>1. ASSUME NEW m \in Msgs, Post(m) \/ Retry(m) \/ Delete(m)
      PROVE  IdsInv' /\ Settles
  BY <1>1, PostSettles, RetrySettles, DeleteSettles
<1>2. ASSUME NEW m \in Msgs, AckTimesOut(m)
      PROVE  IdsInv' /\ Settles
  BY <1>2, AwaitedSettles DEF AckTimesOut
<1>3. ASSUME NEW t \in air, NEW status \in {"delivered", "unconfirmed"}, AckArrives(t, status)
      PROVE  IdsInv' /\ Settles
  BY <1>3, AwaitedSettles DEF AckArrives
<1>4. CASE HandleResult \/ WorkerExcept
  BY <1>4, OutcomeSettles
<1>5. CASE WorkerTakes \/ QuietStep \/ OrphanSends \/ (\E m \in Msgs : Enqueue(m)) \/ UNCHANGED vars
  <2>1. UNCHANGED <<mem, disk>>
    BY <1>5 DEF WorkerTakes, QuietStep, WorkerRefuses, WorkerSends, AdapterSends, SendReturns,
       SendTimesOut, SendRaises, OrphanSends, Enqueue, storeVars, vars
  <2> QED
    BY <2>1, SameSettles
<1>6. CASE Crash \/ Restart
  <2>1. ~(up /\ up')
    BY <1>6 DEF Crash, Restart
  <2> QED
    BY <1>6, <2>1, RestartIds
<1> QED
  BY <1>1, <1>2, <1>3, <1>4, <1>5, <1>6 DEF Next, SendWorker, QuietStep, HandlerRaises

\* A delivered message, or one given up on, stays that while the server runs:
\* for any retries, late or repeated ACKs and deletions, as long as no handler
\* raises after it stored a status (api_chat.py:150-230, server.py:2683-2793).
THEOREM FinalStays == ~HandlerMayRaise => (Spec => FinalIsFinal)
<1> SUFFICES ASSUME ~HandlerMayRaise PROVE Spec => FinalIsFinal
  OBVIOUS
<1> DEFINE Stays ==
      up /\ up' =>
         \A i \in 1..Len(mem), j \in 1..Len(mem') :
            mem[i].id = mem'[j].id /\ mem[i].status \in {"delivered", "unconfirmed"}
            => mem'[j].status = mem[i].status
<1>1. Init => IdsInv
  BY EmptySeq DEF Init, IdsInv, UniqueIds
<1>2. TypeInv /\ JobsInv /\ IdsInv /\ [Next]_vars => IdsInv'
  BY SettlesNext
<1>3. TypeInv /\ JobsInv /\ IdsInv /\ [Next]_vars => Stays
  <2> SUFFICES ASSUME TypeInv, JobsInv, IdsInv, [Next]_vars, up, up',
                      NEW i \in 1..Len(mem), NEW j \in 1..Len(mem'), mem[i].id = mem'[j].id,
                      mem[i].status \in {"delivered", "unconfirmed"}
               PROVE  mem'[j].status = mem[i].status
    OBVIOUS
  <2>1. Settles /\ UniqueIds(mem)
    BY SettlesNext DEF IdsInv
  <2> QED
    BY <2>1, SettledStays
<1>4. TypeInv /\ JobsInv /\ [Next]_vars => JobsInv'
  BY JobsNext
<1> QED
  BY <1>1, <1>2, <1>3, <1>4, InitType, NextType, JobsInit, PTL DEF Spec, FinalIsFinal

-----------------------------------------------------------------------------
(* As often on the air as it was asked for                                 *)

\* How often x is among the elements of s from the a-th to the b-th.
CountIn(s, a, b, x) == Cardinality({i \in a..b : s[i] = x})

LEMMA CountIsNat ==
    ASSUME NEW s, NEW x, NEW a \in Int, NEW b \in Int
    PROVE  IsFiniteSet({i \in a..b : s[i] = x}) /\ CountIn(s, a, b, x) \in Nat
<1>1. IsFiniteSet({i \in a..b : s[i] = x})
  <2>1. IsFiniteSet(a..b)
    BY FS_Interval
  <2>2. {i \in a..b : s[i] = x} \subseteq a..b
    OBVIOUS
  <2> QED
    BY <2>1, <2>2, FS_Subset
<1> QED
  BY <1>1, FS_CardinalityType DEF CountIn

LEMMA CountNat ==
    ASSUME NEW s, NEW x, NEW a \in Int, NEW b \in Int
    PROVE  CountIn(s, a, b, x) \in Nat
  BY CountIsNat

LEMMA CountOne ==
    ASSUME NEW s, NEW x, NEW a \in Int
    PROVE  CountIn(s, a, a, x) = IF s[a] = x THEN 1 ELSE 0
<1>1. {i \in a..a : s[i] = x} = IF s[a] = x THEN {a} ELSE {}
  BY SMT
<1> QED
  BY <1>1, FS_EmptySet, FS_Singleton DEF CountIn

LEMMA CountNone ==
    ASSUME NEW s, NEW x, NEW a \in Int, NEW b \in Int, b < a
    PROVE  CountIn(s, a, b, x) = 0
<1>1. {i \in a..b : s[i] = x} = {}
  BY SMT
<1> QED
  BY <1>1, FS_EmptySet DEF CountIn

LEMMA CountSplits ==
    ASSUME NEW s, NEW x, NEW a \in Int, NEW b \in Int, NEW c \in Int, a <= b + 1, b <= c
    PROVE  CountIn(s, a, c, x) = CountIn(s, a, b, x) + CountIn(s, b + 1, c, x)
<1> DEFINE L == {i \in a..b : s[i] = x}
           R == {i \in (b + 1)..c : s[i] = x}
<1>1. {i \in a..c : s[i] = x} = L \cup R /\ L \cap R = {}
  BY SMT
<1>2. IsFiniteSet(L) /\ IsFiniteSet(R) /\ CountIn(s, a, b, x) \in Nat
      /\ CountIn(s, b + 1, c, x) \in Nat
  BY CountIsNat
<1>3. Cardinality(L \cup R) = Cardinality(L) + Cardinality(R) - Cardinality(L \cap R)
  BY <1>2, FS_Union
<1>4. Cardinality(L \cap R) = 0
  BY <1>1, FS_EmptySet
<1> HIDE DEF L, R
<1>5. CountIn(s, a, b, x) = Cardinality(L) /\ CountIn(s, b + 1, c, x) = Cardinality(R)
      /\ CountIn(s, a, c, x) = Cardinality(L \cup R)
  BY <1>1 DEF CountIn, L, R
<1> QED
  BY <1>2, <1>3, <1>4, <1>5

\* From a to b, s is what t is d places further on.
Shifted(s, t, a, b, d) == \A i \in a..b : t[i + d] = s[i]

LEMMA CountMoves ==
    ASSUME NEW s, NEW t, NEW x, NEW a \in Int, NEW b \in Int, NEW d \in Int,
           NEW c, NEW e, c = a + d, e = b + d,
           Shifted(s, t, a, b, d)
    PROVE  CountIn(t, c, e, x) = CountIn(s, a, b, x)
<1> DEFINE S == {i \in a..b : s[i] = x}
           T == {i \in (a + d)..(b + d) : t[i] = x}
           f == [i \in S |-> i + d]
<1>1. IsFiniteSet(S)
  BY CountIsNat
<1>2. f \in [S -> T]
  BY SMT DEF Shifted
<1>3. \A i, j \in S : f[i] = f[j] => i = j
  BY SMT
<1>4. \A k \in T : \E i \in S : f[i] = k
  <2> SUFFICES ASSUME NEW k \in T PROVE k - d \in S /\ f[k - d] = k
    OBVIOUS
  <2>1. k - d \in a..b /\ k - d + d = k
    OBVIOUS
  <2>2. s[k - d] = t[k]
    BY <2>1 DEF Shifted
  <2> QED
    BY <2>1, <2>2
<1>5. f \in Bijection(S, T)
  BY <1>2, <1>3, <1>4 DEF Bijection, Injection, Surjection, IsInjective
<1>6. Cardinality(T) = Cardinality(S)
  BY <1>1, <1>5, FS_Bijection DEF ExistsBijection
<1> QED
  BY <1>6 DEF CountIn

LEMMA CountSame ==
    ASSUME NEW s, NEW t, NEW x, NEW a \in Int, NEW b \in Int, \A i \in a..b : t[i] = s[i]
    PROVE  CountIn(t, a, b, x) = CountIn(s, a, b, x)
<1>1. {i \in a..b : t[i] = x} = {i \in a..b : s[i] = x}
  OBVIOUS
<1> QED
  BY <1>1 DEF CountIn

\* The transmissions of m, and the jobs of it that may still be transmitted.
Aired(m) == Cardinality({t \in air : t.id = m})
Posted(m) == IF m \in posting THEN 1 ELSE 0
InQueue(m) == CountIn(queue, 1, Len(queue), m)
FirstUnsent == IF wpc = "check" THEN 1
               ELSE IF wpc = "sending" THEN Len(results) + 1
               ELSE Len(batch) + 1
InBatch(m) == CountIn(batch, FirstUnsent, Len(batch), m)
InOrphan(m) == CountIn(orphan, 1, Len(orphan), m)

\* Every one of them was asked for: a transmission uses up a job, and a job
\* uses up a request.
BudgetInv ==
    \A m \in Msgs : Aired(m) + Posted(m) + InQueue(m) + InBatch(m) + InOrphan(m) <= asked[m]

LEMMA Lengths ==
    ASSUME TypeInv
    PROVE  /\ Len(queue) \in Nat /\ Len(batch) \in Nat /\ Len(orphan) \in Nat /\ Len(results) \in Nat
           /\ FirstUnsent \in Nat
  BY LenProperties DEF TypeInv, TypeOK, FirstUnsent

LEMMA Amounts ==
    ASSUME TypeInv, NEW m \in Msgs
    PROVE  /\ Aired(m) \in Nat /\ Posted(m) \in Nat /\ InQueue(m) \in Nat
           /\ InBatch(m) \in Nat /\ InOrphan(m) \in Nat /\ asked[m] \in Nat
<1>1. Aired(m) \in Nat
  <2>1. {t \in air : t.id = m} \subseteq air /\ IsFiniteSet(air)
    BY DEF TypeInv
  <2> QED
    BY <2>1, FS_Subset, FS_CardinalityType DEF Aired
<1>2. asked[m] \in Nat
  BY MessagesAssumption DEF TypeInv, TypeOK
<1>3. InQueue(m) \in Nat /\ InBatch(m) \in Nat /\ InOrphan(m) \in Nat
  <2>1. /\ 1 \in Int /\ Len(queue) \in Int /\ Len(batch) \in Int /\ Len(orphan) \in Int
        /\ FirstUnsent \in Int
    BY Lengths
  <2> HIDE DEF FirstUnsent
  <2> QED
    BY <2>1, CountNat DEF InQueue, InBatch, InOrphan
<1> QED
  BY <1>1, <1>2, <1>3 DEF Posted

LEMMA AmountsNext ==
    ASSUME TypeInv', NEW m \in Msgs
    PROVE  /\ Aired(m)' \in Nat /\ Posted(m)' \in Nat /\ InQueue(m)' \in Nat
           /\ InBatch(m)' \in Nat /\ InOrphan(m)' \in Nat
<1>1. Aired(m)' \in Nat
  <2>1. {t \in air' : t.id = m} \subseteq air' /\ IsFiniteSet(air')
    BY DEF TypeInv
  <2> QED
    BY <2>1, FS_Subset, FS_CardinalityType DEF Aired
<1>2. Len(queue') \in Nat /\ Len(batch') \in Nat /\ Len(orphan') \in Nat /\ FirstUnsent' \in Nat
  BY LenProperties DEF TypeInv, TypeOK, FirstUnsent
<1>3. InQueue(m)' \in Nat /\ InBatch(m)' \in Nat /\ InOrphan(m)' \in Nat
  <2>1. /\ 1 \in Int /\ Len(queue') \in Int /\ Len(batch') \in Int /\ Len(orphan') \in Int
        /\ FirstUnsent' \in Int
    BY <1>2
  <2> QED
    BY <2>1, CountNat DEF InQueue, InBatch, InOrphan
<1> QED
  BY <1>1, <1>3 DEF Posted

\* One transmission more counts at most once, and for its message only.
LEMMA OneMoreAired ==
    ASSUME TypeInv, NEW x \in Msgs, NEW pid, Transmitted(x, pid), NEW m \in Msgs
    PROVE  Aired(m)' <= Aired(m) + IF x = m THEN 1 ELSE 0
<1> DEFINE T == {t \in air : t.id = m}
           new == [id |-> x, pid |-> pid]
<1>1. IsFiniteSet(T)
  <2>1. T \subseteq air /\ IsFiniteSet(air)
    BY DEF TypeInv
  <2> QED
    BY <2>1, FS_Subset
<1>2. {t \in air' : t.id = m} = IF x = m THEN T \cup {new} ELSE T
  BY DEF Transmitted
<1>3. /\ IsFiniteSet(T \cup {new})
      /\ Cardinality(T \cup {new}) = IF new \in T THEN Cardinality(T) ELSE Cardinality(T) + 1
  BY <1>1, FS_AddElement
<1>4. Cardinality(T) \in Nat
  BY <1>1, FS_CardinalityType
<1>5. Aired(m) = Cardinality(T) /\ Aired(m)' = Cardinality(IF x = m THEN T \cup {new} ELSE T)
  BY <1>2 DEF Aired
<1> HIDE DEF T, new
<1> QED
  BY <1>3, <1>4, <1>5

-----------------------------------------------------------------------------
(* What a step does to the amounts                                         *)

LEMMA EmptyAmounts ==
    ASSUME NEW m
    PROVE  /\ queue' = <<>> => InQueue(m)' = 0
           /\ orphan' = <<>> => InOrphan(m)' = 0
  BY EmptySeq, CountNone DEF InQueue, InOrphan

\* No job of the batch is left to send, once the results are known.
LEMMA NothingUnsent ==
    ASSUME TypeInv', wpc' \notin {"check", "sending"}, NEW m
    PROVE  InBatch(m)' = 0
<1>1. Len(batch') \in Nat /\ FirstUnsent' = Len(batch') + 1
  BY LenProperties DEF TypeInv, TypeOK, FirstUnsent
<1> QED
  BY <1>1, CountNone DEF InBatch

LEMMA EnqueueAmounts ==
    ASSUME TypeInv, NEW x \in Msgs, Enqueue(x), NEW m \in Msgs
    PROVE  InQueue(m)' = InQueue(m) + IF x = m THEN 1 ELSE 0
<1>1. /\ Len(queue) \in Nat /\ Len(queue') = Len(queue) + 1
      /\ \A i \in 1..Len(queue) : queue'[i] = queue[i]
      /\ queue'[Len(queue) + 1] = x
  BY AppendProperties, LenProperties DEF Enqueue, TypeInv, TypeOK
<1>2. CountIn(queue', 1, Len(queue) + 1, m) =
         CountIn(queue', 1, Len(queue), m) + CountIn(queue', Len(queue) + 1, Len(queue) + 1, m)
  BY <1>1, CountSplits
<1>3. CountIn(queue', 1, Len(queue), m) = CountIn(queue, 1, Len(queue), m)
  BY <1>1, CountSame
<1>4. CountIn(queue', Len(queue) + 1, Len(queue) + 1, m) = IF x = m THEN 1 ELSE 0
  BY <1>1, CountOne
<1> QED
  BY <1>1, <1>2, <1>3, <1>4 DEF InQueue

LEMMA TakeAmounts ==
    ASSUME TypeInv, WorkerTakes, NEW m \in Msgs
    PROVE  InQueue(m)' + InBatch(m)' = InQueue(m)
<1>1. PICK n \in 1..Len(queue) :
         /\ Len(batch') = n /\ \A i \in 1..n : batch'[i] = queue[i]
         /\ Len(queue') = Len(queue) - n
         /\ \A i \in 1..(Len(queue) - n) : queue'[i] = queue[n + i]
  BY TakenJobs
<1>2. Len(queue) \in Nat /\ n \in Int /\ n <= Len(queue) /\ 1 <= n
  BY Lengths
<1>3. CountIn(queue, 1, Len(queue), m) =
         CountIn(queue, 1, n, m) + CountIn(queue, n + 1, Len(queue), m)
  BY <1>2, CountSplits
<1>4. CountIn(batch', 1, n, m) = CountIn(queue, 1, n, m)
  BY <1>1, <1>2, CountSame
<1>5. CountIn(queue, n + 1, Len(queue), m) = CountIn(queue', 1, Len(queue) - n, m)
  <2>1. Shifted(queue', queue, 1, Len(queue) - n, n)
    BY <1>1, <1>2 DEF Shifted
  <2>2. /\ 1 \in Int /\ Len(queue) - n \in Int /\ n \in Int
        /\ n + 1 = 1 + n /\ Len(queue) = (Len(queue) - n) + n
    BY <1>2
  <2> QED
    BY <2>1, <2>2, CountMoves
<1>7. FirstUnsent' = 1
  BY DEF FirstUnsent, WorkerTakes
<1>8. InQueue(m)' = CountIn(queue', 1, Len(queue) - n, m) /\ InBatch(m)' = CountIn(batch', 1, n, m)
      /\ InQueue(m) = CountIn(queue, 1, Len(queue), m)
  BY <1>1, <1>7 DEF InQueue, InBatch
<1>9. CountIn(queue, 1, n, m) \in Nat /\ CountIn(queue, n + 1, Len(queue), m) \in Nat
  <2>1. 1 \in Int /\ n + 1 \in Int /\ Len(queue) \in Int
    BY <1>2
  <2> QED
    BY <1>2, <2>1, CountNat
<1> QED
  BY <1>3, <1>4, <1>5, <1>8, <1>9

\* The adapter's next job is one the batch has no more to send.
LEMMA AdapterAmounts ==
    ASSUME TypeInv, AdapterSends, NEW m \in Msgs
    PROVE  InBatch(m) = InBatch(m)' + IF batch[Len(results) + 1] = m THEN 1 ELSE 0
<1> DEFINE k == Len(results)
<1>1. k \in Nat /\ Len(batch) \in Nat /\ k < Len(batch) /\ batch' = batch
  BY Lengths DEF AdapterSends
<1>2. Len(results') = k + 1
  BY AppendProperties DEF AdapterSends, TypeInv, TypeOK
<1>3. FirstUnsent = k + 1 /\ FirstUnsent' = k + 2
  <2>1. wpc = "sending" /\ wpc' = "sending"
    BY DEF AdapterSends
  <2> QED
    BY <1>1, <1>2, <2>1 DEF FirstUnsent
<1> HIDE DEF k
<1>4. CountIn(batch, k + 1, Len(batch), m) =
         CountIn(batch, k + 1, k + 1, m) + CountIn(batch, k + 2, Len(batch), m)
  <2>1. k + 1 <= (k + 1) + 1 /\ k + 1 <= Len(batch) /\ (k + 1) + 1 = k + 2 /\ k + 1 \in Int
    BY <1>1
  <2> QED
    BY <1>1, <2>1, CountSplits
<1>5. CountIn(batch, k + 1, k + 1, m) = IF batch[k + 1] = m THEN 1 ELSE 0
  BY <1>1, CountOne
<1>6. InBatch(m) = CountIn(batch, k + 1, Len(batch), m)
      /\ InBatch(m)' = CountIn(batch, k + 2, Len(batch), m)
  BY <1>1, <1>3 DEF InBatch
<1>7. CountIn(batch, k + 2, Len(batch), m) \in Nat
  <2>1. k + 2 \in Int /\ Len(batch) \in Int
    BY <1>1
  <2> QED
    BY <2>1, CountNat
<1> QED
  BY <1>4, <1>5, <1>6, <1>7 DEF k

LEMMA TimeOutAmounts ==
    ASSUME TypeInv, SendTimesOut, NEW m \in Msgs
    PROVE  InOrphan(m)' = InOrphan(m) + InBatch(m)
<1> DEFINE k == Len(results)
           n == Len(batch)
           o == Len(orphan)
           rest == SubSeq(batch, k + 1, n)
<1>1. k \in Nat /\ n \in Nat /\ o \in Nat /\ k <= n
  BY Lengths DEF SendTimesOut, TypeInv, PlaceInv
<1>2. \A i \in 1..n : batch[i] \in Msgs
  BY ElementOfSeq DEF TypeInv, TypeOK
<1>3. /\ rest \in Seq(Msgs) /\ Len(rest) = n - k
      /\ \A i \in 1..(n - k) : rest[i] = batch[k + i]
  <2>1. \A i \in (k + 1)..n : batch[i] \in Msgs
    BY <1>1, <1>2
  <2> HIDE DEF k, n
  <2>2. /\ SubSeq(batch, k + 1, n) \in Seq(Msgs)
        /\ Len(SubSeq(batch, k + 1, n)) = IF k + 1 <= n THEN n - (k + 1) + 1 ELSE 0
        /\ \A i \in 1..(n - (k + 1) + 1) : SubSeq(batch, k + 1, n)[i] = batch[k + 1 + i - 1]
    BY <1>1, <2>1, SubSeqProperties
  <2> QED
    BY <1>1, <2>2
<1>4. FirstUnsent = k + 1
  BY DEF FirstUnsent, SendTimesOut
<1> HIDE DEF rest, k, n
<1>5. /\ Len(orphan') = o + (n - k)
      /\ \A i \in 1..o : orphan'[i] = orphan[i]
      /\ \A i \in 1..(n - k) : orphan'[i + o] = rest[i]
  <2>1. orphan' = orphan \o rest /\ orphan \in Seq(Msgs)
    BY DEF SendTimesOut, rest, k, n, TypeInv, TypeOK
  <2>2. /\ Len(orphan') = Len(orphan) + Len(rest)
        /\ \A i \in 1..(Len(orphan) + Len(rest)) :
              orphan'[i] = IF i <= Len(orphan) THEN orphan[i] ELSE rest[i - Len(orphan)]
    BY <1>3, <2>1, ConcatProperties
  <2> HIDE DEF o
  <2>3. /\ Len(orphan') = o + (n - k)
        /\ \A i \in 1..(o + (n - k)) :
              orphan'[i] = IF i <= o THEN orphan[i] ELSE rest[i - o]
    BY <1>1, <1>3, <2>2 DEF o
  <2> QED
    BY <1>1, <2>3
<1> HIDE DEF o
<1>6. CountIn(orphan', 1, o + (n - k), m) =
         CountIn(orphan', 1, o, m) + CountIn(orphan', o + 1, o + (n - k), m)
  BY <1>1, CountSplits
<1>7. CountIn(orphan', 1, o, m) = CountIn(orphan, 1, o, m)
  BY <1>1, <1>5, CountSame
<1>8. CountIn(orphan', o + 1, o + (n - k), m) = CountIn(rest, 1, n - k, m)
  <2>1. /\ 1 \in Int /\ n - k \in Int /\ o \in Int
        /\ o + 1 = 1 + o /\ o + (n - k) = (n - k) + o
    BY <1>1
  <2>2. Shifted(rest, orphan', 1, n - k, o)
    BY <1>5 DEF Shifted
  <2> QED
    BY <2>1, <2>2, CountMoves
<1>9. CountIn(batch, k + 1, n, m) = CountIn(rest, 1, n - k, m)
  <2>1. Shifted(rest, batch, 1, n - k, k)
    BY <1>1, <1>3 DEF Shifted
  <2>2. /\ 1 \in Int /\ n - k \in Int /\ k \in Int
        /\ k + 1 = 1 + k /\ n = (n - k) + k
    BY <1>1
  <2> QED
    BY <2>1, <2>2, CountMoves
<1>10. /\ InOrphan(m) = CountIn(orphan, 1, o, m)
       /\ InOrphan(m)' = CountIn(orphan', 1, o + (n - k), m)
       /\ InBatch(m) = CountIn(batch, k + 1, n, m)
  BY <1>4, <1>5 DEF InOrphan, InBatch, n, o
<1> QED
  BY <1>6, <1>7, <1>8, <1>9, <1>10

LEMMA OrphanAmounts ==
    ASSUME TypeInv, OrphanSends, NEW m \in Msgs
    PROVE  InOrphan(m) = InOrphan(m)' + IF Head(orphan) = m THEN 1 ELSE 0
<1> DEFINE o == Len(orphan)
<1>1. /\ o \in Nat /\ o >= 1 /\ Head(orphan) = orphan[1]
      /\ Len(orphan') = o - 1 /\ \A i \in 1..(o - 1) : orphan'[i] = orphan[i + 1]
  <2>1. orphan \in Seq(Msgs) /\ orphan # <<>> /\ orphan' = Tail(orphan)
    BY DEF OrphanSends, TypeInv, TypeOK
  <2> QED
    BY <2>1, HeadTailProperties, LenProperties, EmptySeq
<1> HIDE DEF o
<1>2. CountIn(orphan, 1, o, m) = CountIn(orphan, 1, 1, m) + CountIn(orphan, 1 + 1, o, m)
  BY <1>1, CountSplits
<1>3. CountIn(orphan, 1, 1, m) = IF orphan[1] = m THEN 1 ELSE 0
  BY CountOne
<1>4. CountIn(orphan, 1 + 1, o, m) = CountIn(orphan', 1, o - 1, m)
  <2>1. 1 \in Int /\ o - 1 \in Int /\ o = (o - 1) + 1
    BY <1>1
  <2>2. Shifted(orphan', orphan, 1, o - 1, 1)
    BY <1>1 DEF Shifted
  <2> QED
    BY <2>1, <2>2, CountMoves
<1>5. o \in Int
  BY <1>1
<1>6. InOrphan(m) = CountIn(orphan, 1, o, m) /\ InOrphan(m)' = CountIn(orphan', 1, o - 1, m)
  BY <1>1 DEF InOrphan, o
<1>7. CountIn(orphan', 1, o - 1, m) \in Nat
  <2>1. 1 \in Int /\ o - 1 \in Int
    BY <1>1
  <2> QED
    BY <2>1, CountNat
<1> QED
  BY <1>1, <1>2, <1>3, <1>4, <1>5, <1>6, <1>7

\* The other steps of the worker leave jobs where they are, or give them up.
LEMMA SendsAmounts ==
    ASSUME TypeInv, WorkerSends, NEW m \in Msgs
    PROVE  InBatch(m)' = InBatch(m)
<1>1. FirstUnsent = 1 /\ FirstUnsent' = 1 /\ batch' = batch
  BY EmptySeq DEF FirstUnsent, WorkerSends
<1> QED
  BY <1>1 DEF InBatch

-----------------------------------------------------------------------------
(* Each step stays within the budget                                       *)

\* A step that sends nothing, and leaves jobs where they are or drops them.
LEMMA BudgetDrops ==
    ASSUME TypeInv, TypeInv', BudgetInv, UNCHANGED <<air, asked>>,
           \A m \in Msgs : /\ Posted(m)' <= Posted(m) /\ InQueue(m)' <= InQueue(m)
                           /\ InBatch(m)' <= InBatch(m) /\ InOrphan(m)' <= InOrphan(m)
    PROVE  BudgetInv'
<1> SUFFICES ASSUME NEW m \in Msgs
             PROVE  (Aired(m) + Posted(m) + InQueue(m) + InBatch(m) + InOrphan(m) <= asked[m])'
  BY DEF BudgetInv
<1>1. Aired(m) + Posted(m) + InQueue(m) + InBatch(m) + InOrphan(m) <= asked[m]
  BY DEF BudgetInv
<1>2. Aired(m)' = Aired(m) /\ asked'[m] = asked[m]
  BY DEF Aired
<1>3. /\ Posted(m)' <= Posted(m) /\ InQueue(m)' <= InQueue(m)
      /\ InBatch(m)' <= InBatch(m) /\ InOrphan(m)' <= InOrphan(m)
  OBVIOUS
<1> QED
  BY <1>1, <1>2, <1>3, Amounts, AmountsNext

\* A step of the users or the store: nothing happens to the jobs.
LEMMA SameAmounts ==
    ASSUME TypeInv, UNCHANGED <<queue, wpc, batch, results, orphan>>, NEW m
    PROVE  InQueue(m)' = InQueue(m) /\ InBatch(m)' = InBatch(m) /\ InOrphan(m)' = InOrphan(m)
<1>1. FirstUnsent' = FirstUnsent
  BY DEF FirstUnsent
<1> QED
  BY <1>1 DEF InQueue, InBatch, InOrphan

LEMMA BudgetSame ==
    ASSUME TypeInv, TypeInv', BudgetInv,
           UNCHANGED <<posting, queue, wpc, batch, results, orphan, air, asked>>
    PROVE  BudgetInv'
<1>1. ASSUME NEW m \in Msgs
      PROVE  /\ Posted(m)' <= Posted(m) /\ InQueue(m)' <= InQueue(m)
             /\ InBatch(m)' <= InBatch(m) /\ InOrphan(m)' <= InOrphan(m)
  <2>1. Posted(m)' = Posted(m)
    BY DEF Posted
  <2> QED
    BY <2>1, SameAmounts, Amounts
<1> QED
  BY <1>1, BudgetDrops

\* A request: one job more for one request more.
LEMMA AskBudget ==
    ASSUME TypeInv, TypeInv', BudgetInv, NEW x \in Msgs, Post(x) \/ Retry(x)
    PROVE  BudgetInv'
<1>1. /\ UNCHANGED <<queue, wpc, batch, results, orphan, air>>
      /\ posting' = posting \cup {x}
      /\ asked' = [asked EXCEPT ![x] = @ + 1]
  BY DEF Post, Retry, workerVars, TypeInv, TypeOK
<1> SUFFICES ASSUME NEW m \in Msgs
             PROVE  (Aired(m) + Posted(m) + InQueue(m) + InBatch(m) + InOrphan(m) <= asked[m])'
  BY DEF BudgetInv
<1>2. Aired(m) + Posted(m) + InQueue(m) + InBatch(m) + InOrphan(m) <= asked[m]
  BY DEF BudgetInv
<1>3. Aired(m)' = Aired(m)
  BY <1>1 DEF Aired
<1>4. Posted(m)' <= Posted(m) + IF m = x THEN 1 ELSE 0
  BY <1>1 DEF Posted
<1>5. asked'[m] = asked[m] + IF m = x THEN 1 ELSE 0
  <2>1. asked \in [Msgs -> 0..MaxAsks] /\ asked[m] \in Nat
    BY Amounts DEF TypeInv, TypeOK
  <2> QED
    BY <1>1, <2>1
<1> QED
  BY <1>1, <1>2, <1>3, <1>4, <1>5, SameAmounts, Amounts, AmountsNext

LEMMA EnqueueBudget ==
    ASSUME TypeInv, TypeInv', BudgetInv, NEW x \in Msgs, Enqueue(x)
    PROVE  BudgetInv'
<1>1. /\ UNCHANGED <<wpc, batch, results, orphan, air, asked>>
      /\ x \in posting /\ posting' = posting \ {x}
  BY DEF Enqueue, workerVars, historyVars
<1> SUFFICES ASSUME NEW m \in Msgs
             PROVE  (Aired(m) + Posted(m) + InQueue(m) + InBatch(m) + InOrphan(m) <= asked[m])'
  BY DEF BudgetInv
<1>2. Aired(m) + Posted(m) + InQueue(m) + InBatch(m) + InOrphan(m) <= asked[m]
  BY DEF BudgetInv
<1>3. Aired(m)' = Aired(m) /\ asked'[m] = asked[m]
  BY <1>1 DEF Aired
<1>4. Posted(m)' = Posted(m) - IF x = m THEN 1 ELSE 0
  BY <1>1 DEF Posted
<1>5. InQueue(m)' = InQueue(m) + IF x = m THEN 1 ELSE 0
  BY EnqueueAmounts
<1>6. InBatch(m)' = InBatch(m) /\ InOrphan(m)' = InOrphan(m)
  <2>1. FirstUnsent' = FirstUnsent
    BY <1>1 DEF FirstUnsent
  <2> QED
    BY <1>1, <2>1 DEF InBatch, InOrphan
<1> QED
  BY <1>2, <1>3, <1>4, <1>5, <1>6, Amounts

LEMMA TakeBudget ==
    ASSUME TypeInv, TypeInv', BudgetInv, WorkerTakes
    PROVE  BudgetInv'
<1>1. UNCHANGED <<posting, orphan, air, asked>>
  BY DEF WorkerTakes, historyVars
<1> SUFFICES ASSUME NEW m \in Msgs
             PROVE  (Aired(m) + Posted(m) + InQueue(m) + InBatch(m) + InOrphan(m) <= asked[m])'
  BY DEF BudgetInv
<1>2. Aired(m) + Posted(m) + InQueue(m) + InBatch(m) + InOrphan(m) <= asked[m]
  BY DEF BudgetInv
<1>3. /\ Aired(m)' = Aired(m) /\ asked'[m] = asked[m]
      /\ Posted(m)' = Posted(m) /\ InOrphan(m)' = InOrphan(m)
  BY <1>1 DEF Aired, Posted, InOrphan
<1>4. InQueue(m)' + InBatch(m)' = InQueue(m)
  BY TakeAmounts
<1> QED
  BY <1>2, <1>3, <1>4, Amounts, AmountsNext

LEMMA AdapterBudget ==
    ASSUME TypeInv, TypeInv', BudgetInv, AdapterSends
    PROVE  BudgetInv'
<1> DEFINE x == batch[Len(results) + 1]
<1>1. UNCHANGED <<posting, queue, orphan, asked>>
  BY DEF AdapterSends
<1>2. x \in Msgs
  <2>1. Len(results) + 1 \in 1..Len(batch)
    BY Lengths DEF AdapterSends
  <2> QED
    BY <2>1, ElementOfSeq DEF TypeInv, TypeOK
<1> SUFFICES ASSUME NEW m \in Msgs
             PROVE  (Aired(m) + Posted(m) + InQueue(m) + InBatch(m) + InOrphan(m) <= asked[m])'
  BY DEF BudgetInv
<1>3. Aired(m) + Posted(m) + InQueue(m) + InBatch(m) + InOrphan(m) <= asked[m]
  BY DEF BudgetInv
<1>4. /\ asked'[m] = asked[m] /\ Posted(m)' = Posted(m)
      /\ InQueue(m)' = InQueue(m) /\ InOrphan(m)' = InOrphan(m)
  BY <1>1 DEF Posted, InQueue, InOrphan
<1>5. InBatch(m) = InBatch(m)' + IF x = m THEN 1 ELSE 0
  BY AdapterAmounts
<1>6. Aired(m)' <= Aired(m) + IF x = m THEN 1 ELSE 0
  <2>1. CASE Transmitted(x, Packets + 1)
    <3> HIDE DEF x
    <3> QED
      BY <1>2, <2>1, OneMoreAired
  <2>2. CASE UNCHANGED air
    <3>1. Aired(m)' = Aired(m)
      BY <2>2 DEF Aired
    <3> QED
      BY <3>1, Amounts
  <2> QED
    BY <2>1, <2>2 DEF AdapterSends
<1> HIDE DEF x
<1> QED
  BY <1>3, <1>4, <1>5, <1>6, Amounts, AmountsNext

LEMMA TimeOutBudget ==
    ASSUME TypeInv, TypeInv', BudgetInv, SendTimesOut
    PROVE  BudgetInv'
<1>1. UNCHANGED <<posting, queue, air, asked>> /\ wpc' = "results"
  BY DEF SendTimesOut, historyVars
<1> SUFFICES ASSUME NEW m \in Msgs
             PROVE  (Aired(m) + Posted(m) + InQueue(m) + InBatch(m) + InOrphan(m) <= asked[m])'
  BY DEF BudgetInv
<1>2. Aired(m) + Posted(m) + InQueue(m) + InBatch(m) + InOrphan(m) <= asked[m]
  BY DEF BudgetInv
<1>3. /\ Aired(m)' = Aired(m) /\ asked'[m] = asked[m]
      /\ Posted(m)' = Posted(m) /\ InQueue(m)' = InQueue(m)
  BY <1>1 DEF Aired, Posted, InQueue
<1>4. InOrphan(m)' = InOrphan(m) + InBatch(m)
  BY TimeOutAmounts
<1>5. InBatch(m)' = 0
  BY <1>1, NothingUnsent
<1> QED
  BY <1>2, <1>3, <1>4, <1>5, Amounts

LEMMA OrphanBudget ==
    ASSUME TypeInv, TypeInv', BudgetInv, OrphanSends
    PROVE  BudgetInv'
<1> DEFINE x == Head(orphan)
<1>1. UNCHANGED <<posting, queue, wpc, batch, results, asked>>
  BY DEF OrphanSends, workerVars
<1>2. x \in Msgs
  BY HeadTailProperties DEF OrphanSends, TypeInv, TypeOK
<1> SUFFICES ASSUME NEW m \in Msgs
             PROVE  (Aired(m) + Posted(m) + InQueue(m) + InBatch(m) + InOrphan(m) <= asked[m])'
  BY DEF BudgetInv
<1>3. Aired(m) + Posted(m) + InQueue(m) + InBatch(m) + InOrphan(m) <= asked[m]
  BY DEF BudgetInv
<1>4. /\ asked'[m] = asked[m] /\ Posted(m)' = Posted(m)
      /\ InQueue(m)' = InQueue(m) /\ InBatch(m)' = InBatch(m)
  <2>1. FirstUnsent' = FirstUnsent
    BY <1>1 DEF FirstUnsent
  <2> QED
    BY <1>1, <2>1 DEF Posted, InQueue, InBatch
<1>5. InOrphan(m) = InOrphan(m)' + IF x = m THEN 1 ELSE 0
  BY OrphanAmounts
<1>6. Aired(m)' <= Aired(m) + IF x = m THEN 1 ELSE 0
  <2>1. CASE Transmitted(x, Packets + 1)
    <3> HIDE DEF x
    <3> QED
      BY <1>2, <2>1, OneMoreAired
  <2>2. CASE UNCHANGED air
    <3>1. Aired(m)' = Aired(m)
      BY <2>2 DEF Aired
    <3> QED
      BY <3>1, Amounts
  <2> QED
    BY <2>1, <2>2 DEF OrphanSends
<1> QED
  BY <1>3, <1>4, <1>5, <1>6, Amounts, AmountsNext

\* The rest of the worker's steps send nothing.
LEMMA WorkerBudget ==
    ASSUME TypeInv, TypeInv', BudgetInv,
           \/ WorkerRefuses \/ WorkerSends \/ SendReturns \/ SendRaises
           \/ HandleResult \/ HandlerRaises \/ WorkerExcept
    PROVE  BudgetInv'
<1>1. /\ UNCHANGED <<posting, queue, air, asked>>
      /\ orphan' = orphan \/ orphan' = <<>>
  BY DEF WorkerRefuses, WorkerSends, SendReturns, SendRaises, HandleResult, HandlerRaises,
         WorkerExcept, storeVars, historyVars
<1>2. WorkerSends \/ wpc' \notin {"check", "sending"}
  BY DEF WorkerRefuses, SendReturns, SendRaises, HandleResult, HandlerRaises, WorkerExcept, Advance
<1>3. ASSUME NEW m \in Msgs
      PROVE  /\ Posted(m)' <= Posted(m) /\ InQueue(m)' <= InQueue(m)
             /\ InBatch(m)' <= InBatch(m) /\ InOrphan(m)' <= InOrphan(m)
  <2>1. Posted(m)' = Posted(m) /\ InQueue(m)' = InQueue(m)
    BY <1>1 DEF Posted, InQueue
  <2>2. InOrphan(m)' = InOrphan(m) \/ InOrphan(m)' = 0
    <3>1. CASE orphan' = orphan
      BY <3>1 DEF InOrphan
    <3>2. CASE orphan' = <<>>
      BY <3>2, EmptyAmounts
    <3> QED
      BY <1>1, <3>1, <3>2
  <2>3. InBatch(m)' = InBatch(m) \/ InBatch(m)' = 0
    BY <1>2, SendsAmounts, NothingUnsent
  <2> QED
    BY <2>1, <2>2, <2>3, Amounts
<1> QED
  BY <1>1, <1>3, BudgetDrops

LEMMA CrashBudget ==
    ASSUME TypeInv, TypeInv', BudgetInv, Crash
    PROVE  BudgetInv'
<1>1. /\ UNCHANGED <<air, asked>> /\ posting' = {} /\ queue' = <<>> /\ orphan' = <<>>
      /\ wpc' = "wait"
  BY DEF Crash
<1>2. ASSUME NEW m \in Msgs
      PROVE  /\ Posted(m)' <= Posted(m) /\ InQueue(m)' <= InQueue(m)
             /\ InBatch(m)' <= InBatch(m) /\ InOrphan(m)' <= InOrphan(m)
  <2>1. Posted(m)' = 0 /\ InQueue(m)' = 0 /\ InOrphan(m)' = 0 /\ InBatch(m)' = 0
    BY <1>1, EmptyAmounts, NothingUnsent DEF Posted
  <2> QED
    BY <2>1, Amounts
<1> QED
  BY <1>1, <1>2, BudgetDrops

LEMMA BudgetInit == Init => BudgetInv
<1> SUFFICES ASSUME Init, NEW m \in Msgs
             PROVE  Aired(m) + Posted(m) + InQueue(m) + InBatch(m) + InOrphan(m) <= asked[m]
  BY DEF BudgetInv
<1>1. Aired(m) = 0
  <2>1. {t \in air : t.id = m} = {}
    BY DEF Init
  <2> QED
    BY <2>1, FS_EmptySet DEF Aired
<1>2. Posted(m) = 0 /\ asked[m] = 0
  BY DEF Init, Posted
<1>3. InQueue(m) = 0 /\ InOrphan(m) = 0 /\ InBatch(m) = 0
  <2>1. Len(queue) = 0 /\ Len(orphan) = 0 /\ Len(batch) = 0 /\ FirstUnsent = 1
    BY EmptySeq DEF Init, FirstUnsent
  <2> QED
    BY <2>1, CountNone DEF InQueue, InOrphan, InBatch
<1> QED
  BY <1>1, <1>2, <1>3

LEMMA BudgetNext == TypeInv /\ TypeInv' /\ BudgetInv /\ [Next]_vars => BudgetInv'
<1> SUFFICES ASSUME TypeInv, TypeInv', BudgetInv, [Next]_vars PROVE BudgetInv'
  OBVIOUS
<1>1. ASSUME NEW m \in Msgs, Post(m) \/ Retry(m) \/ Enqueue(m) PROVE BudgetInv'
  BY <1>1, AskBudget, EnqueueBudget
<1>2. ASSUME NEW m \in Msgs, Delete(m) \/ AckTimesOut(m) PROVE BudgetInv'
  BY <1>2, BudgetSame DEF Delete, AckTimesOut, workerVars, historyVars
<1>3. CASE SendWorker
  BY <1>3, TakeBudget, AdapterBudget, TimeOutBudget, WorkerBudget DEF SendWorker
<1>4. CASE OrphanSends
  BY <1>4, OrphanBudget
<1>5. ASSUME NEW t \in air, NEW status \in {"delivered", "unconfirmed"}, AckArrives(t, status)
      PROVE  BudgetInv'
  BY <1>5, BudgetSame DEF AckArrives, workerVars
<1>6. CASE Crash
  BY <1>6, CrashBudget
<1>7. CASE Restart \/ UNCHANGED vars
  BY <1>7, BudgetSame DEF Restart, workerVars, historyVars, vars
<1> QED
  BY <1>1, <1>2, <1>3, <1>4, <1>5, <1>6, <1>7 DEF Next

\* A message is on the air at most as often as the user asked for it, for any
\* batches, retries and crashes, the thread an adapter timeout abandons and the
\* exceptions of the worker included (server.py:3197-3224,
\* serial_transport.py:323-372).
THEOREM SentAsAsked == Spec => []NoDoubleSend
<1>1. TypeInv /\ BudgetInv => NoDoubleSend
  <2> SUFFICES ASSUME TypeInv, BudgetInv, NEW m \in Msgs
               PROVE  Cardinality({t \in air : t.id = m}) <= asked[m]
    BY DEF NoDoubleSend
  <2>1. Aired(m) + Posted(m) + InQueue(m) + InBatch(m) + InOrphan(m) <= asked[m]
    BY DEF BudgetInv
  <2> QED
    BY <2>1, Amounts DEF Aired
<1> QED
  BY <1>1, InitType, NextType, BudgetInit, BudgetNext, PTL DEF Spec
=============================================================================
