--------------------------- MODULE AdapterIPCProofs ---------------------------
(***************************************************************************)
(* Proofs about AdapterIPC, for any callers and any bounds, as long as no  *)
(* stray print parses as JSON: a call never returns the answer to another  *)
(* request, a call that ends leaves nothing in the pipes and nothing       *)
(* running, and the whole implements RequestAnswer.                        *)
(*                                                                         *)
(* TypeOK and AnswerBelongs are not inductive: that the line at the head   *)
(* of stdout answers the current request has to come from somewhere.       *)
(* LockInv says that the owner of _proc_lock is the one caller inside      *)
(* call(), PipeInv that outside "wait" the pipes hold no request and no    *)
(* answer, and that in "wait" they hold at most one of either, numbered    *)
(* like the current call.  NoWorkBehind needs WorkInv on top: an abandoned *)
(* thread implies that its timeout is still to be read, and the read of it *)
(* kills the subprocess.                                                   *)
(***************************************************************************)
EXTENDS AdapterIPC, TLAPS

\* The owner of _proc_lock is the one caller inside call(), its request is
\* the newest one, and it has not been answered.
LockInv ==
    /\ \A c \in Callers : pc[c] # "idle" <=> plock = c
    /\ plock # NoCaller => last[plock] = [req |-> number, of |-> 0] /\ number # 0

IsAnswer(i) == i \in 1..Len(stdout) /\ stdout[i].says # "text"

\* No line on stdout is anything but a stray print.
NoAnswer == \A i \in 1..Len(stdout) : ~IsAnswer(i)

Quiet == stdin = <<>> /\ handling = 0 /\ NoAnswer

\* The exchange under way: written, being handled, or answered at most once.
Exchange ==
    \/ stdin = <<number>> /\ handling = 0 /\ NoAnswer
    \/ stdin = <<>> /\ handling = number /\ NoAnswer
    \/ /\ stdin = <<>> /\ handling = 0
       /\ \A i \in 1..Len(stdout) : IsAnswer(i) => stdout[i].of = number
       /\ \A i, j \in 1..Len(stdout) : IsAnswer(i) /\ IsAnswer(j) => i = j

PipeInv ==
    /\ (\A c \in Callers : pc[c] # "wait") => Quiet
    /\ \A c \in Callers : pc[c] = "wait" => Exchange
    /\ \A i \in 1..Len(stdout) : stdout[i].says # "json"

IInv == TypeOK /\ LockInv /\ PipeInv /\ AnswerBelongs

\* The initial state satisfies the inductive invariant: nobody has asked and
\* the pipes are empty.
LEMMA InitIInv == Init => IInv
<1> SUFFICES ASSUME Init PROVE IInv
  OBVIOUS
<1> USE CallersAssumption DEF Init
<1>1. TypeOK
  <2>1. stdin \in Seq(Requests) /\ stdout \in Seq(Line)
    OBVIOUS
  <2>2. /\ pc \in [Callers -> {"idle", "spawn", "write", "wait"}]
        /\ last \in [Callers -> [req : 0..MaxRequests, of : 0..MaxRequests]]
    OBVIOUS
  <2>3. handling \in 0..MaxRequests /\ number \in 0..MaxRequests /\ badLines \in Nat
    OBVIOUS
  <2>4. /\ orphans \subseteq Requests /\ sends \subseteq Requests
        /\ plock \in Callers \cup {NoCaller}
        /\ proc \in {"none", "running", "dead"}
    BY Zenon
  <2> QED
    BY ONLY <2>1, <2>2, <2>3, <2>4 DEF TypeOK
<1>2. LockInv
  BY DEF LockInv
<1>3. PipeInv
  BY DEF PipeInv, Quiet, NoAnswer, IsAnswer
<1>4. AnswerBelongs
  BY DEF AnswerBelongs
<1> QED
  BY <1>1, <1>2, <1>3, <1>4 DEF IInv

\* What the end of a call does to the facts that do not concern the pipes.
LEMMA ReturnsPreserves ==
    ASSUME IInv, NEW c \in Callers, pc[c] # "idle", NEW answer \in {0, number},
           Returns(c, answer)
    PROVE  /\ LockInv' /\ AnswerBelongs'
           /\ pc' \in [Callers -> {"idle", "spawn", "write", "wait"}]
           /\ last' \in [Callers -> [req : 0..MaxRequests, of : 0..MaxRequests]]
           /\ \A d \in Callers : pc'[d] = "idle"
<1> USE CallersAssumption DEF IInv, Returns, Go
<1>1. plock = c /\ last[c] = [req |-> number, of |-> 0]
  BY DEF LockInv
<1>2. \A d \in Callers : pc'[d] = "idle"
  BY <1>1 DEF LockInv, TypeOK
<1>3. LockInv'
  BY <1>2 DEF LockInv
<1>4. last' \in [Callers -> [req : 0..MaxRequests, of : 0..MaxRequests]]
  <2>1. /\ last \in [Callers -> [req : 0..MaxRequests, of : 0..MaxRequests]]
        /\ number \in 0..MaxRequests /\ answer \in 0..MaxRequests
    BY DEF TypeOK
  <2>2. last' = [last EXCEPT ![c] = [req |-> number, of |-> answer]]
    OBVIOUS
  <2> QED
    BY ONLY <2>1, <2>2
<1>5. AnswerBelongs'
  BY <1>1 DEF AnswerBelongs, TypeOK
<1>6. pc' \in [Callers -> {"idle", "spawn", "write", "wait"}]
  BY DEF TypeOK
<1> QED
  BY ONLY <1>2, <1>3, <1>4, <1>5, <1>6

\* A new or removed subprocess has empty pipes.
LEMMA PipesPreserves ==
    ASSUME NEW state, Pipes(state), number' \in Nat,
           \A c \in Callers : pc'[c] # "wait"
    PROVE  PipeInv'
BY DEF Pipes, PipeInv, Quiet, NoAnswer, IsAnswer

\* Every end of a call that kills the subprocess keeps the invariant.
LEMMA KillPreserves ==
    ASSUME IInv, NEW c \in Callers, pc[c] # "idle", NEW answer \in {0, number},
           KillLocked, Returns(c, answer)
    PROVE  IInv'
<1> USE CallersAssumption
<1>1. LockInv' /\ AnswerBelongs' /\ \A d \in Callers : pc'[d] = "idle"
  BY ReturnsPreserves
<1>2. TypeOK'
  <2>1. /\ pc' \in [Callers -> {"idle", "spawn", "write", "wait"}]
        /\ last' \in [Callers -> [req : 0..MaxRequests, of : 0..MaxRequests]]
    BY ReturnsPreserves
  <2>2. /\ plock' \in Callers \cup {NoCaller} /\ number' \in 0..MaxRequests
        /\ sends' \subseteq Requests /\ badLines' \in Nat
    BY DEF IInv, TypeOK, Returns
  <2>3. /\ proc' \in {"none", "running", "dead"} /\ handling' \in 0..MaxRequests
        /\ stdin' \in Seq(Requests) /\ stdout' \in Seq(Line)
        /\ orphans' \subseteq Requests
    BY DEF KillLocked, Pipes
  <2> QED
    BY ONLY <2>1, <2>2, <2>3 DEF TypeOK
<1>3. PipeInv'
  BY <1>1, <1>2, PipesPreserves DEF KillLocked, TypeOK
<1> QED
  BY <1>1, <1>2, <1>3 DEF IInv

\* Every step of a caller keeps the inductive invariant.
LEMMA CallPreserves ==
    ASSUME IInv, ~StrayParses, NEW c \in Callers, CallStart(c) \/ CallStep(c)
    PROVE  IInv'
<1> USE CallersAssumption
<1> USE DEF IInv
<1>1. CASE CallStart(c)
  <2> USE <1>1 DEF CallStart, Go, procVars
  <2>1. TypeOK'
    BY DEF TypeOK, Requests
  <2>2. LockInv' /\ AnswerBelongs'
    BY DEF LockInv, AnswerBelongs, TypeOK
  <2>3. PipeInv'
    <3>1. \A d \in Callers : pc[d] = "idle"
      BY DEF LockInv, TypeOK
    <3>2. \A d \in Callers : pc'[d] # "wait"
      BY <3>1 DEF TypeOK
    <3> QED
      BY <3>1, <3>2 DEF PipeInv, Quiet, NoAnswer, IsAnswer
  <2> QED
    BY <2>1, <2>2, <2>3
<1>2. CASE Spawn(c)
  <2> USE <1>2 DEF Spawn, Go
  <2>1. TypeOK'
    BY DEF TypeOK, Requests, Line, Pipes
  <2>2. LockInv' /\ AnswerBelongs'
    BY DEF LockInv, AnswerBelongs, TypeOK
  <2>3. \A d \in Callers : pc'[d] # "wait"
    BY DEF LockInv, TypeOK
  <2> QED
    BY <2>1, <2>2, <2>3, PipesPreserves DEF TypeOK
<1>3. CASE SpawnFails(c)
  <2> USE <1>3 DEF SpawnFails, procVars
  <2>1. pc[c] # "idle" /\ Returns(c, 0)
    OBVIOUS
  <2>2. LockInv' /\ AnswerBelongs' /\ \A d \in Callers : pc'[d] = "idle"
    BY <2>1, ReturnsPreserves
  <2>3. TypeOK'
    BY <2>1, ReturnsPreserves DEF TypeOK, Returns
  <2>4. Quiet
    BY DEF LockInv, PipeInv, TypeOK
  <2>5. PipeInv'
    BY <2>2, <2>4 DEF PipeInv, Quiet, NoAnswer, IsAnswer
  <2> QED
    BY <2>2, <2>3, <2>5
<1>4. CASE Write(c)
  <2> USE <1>4 DEF Write, Go
  <2>1. Quiet /\ number \in Requests
    <3>1. plock = c /\ number # 0
      BY DEF LockInv, TypeOK
    <3>2. \A d \in Callers : pc[d] # "wait"
      BY <3>1 DEF LockInv
    <3> QED
      BY <3>1, <3>2 DEF PipeInv, TypeOK, Requests
  <2>2. stdin' = <<number>>
    BY <2>1 DEF Quiet, TypeOK
  <2>3. TypeOK'
    BY <2>1 DEF TypeOK
  <2>4. LockInv' /\ AnswerBelongs'
    BY DEF LockInv, AnswerBelongs, TypeOK
  <2>5. Exchange'
    BY <2>1, <2>2 DEF Exchange, Quiet, NoAnswer, IsAnswer
  <2>6. PipeInv'
    BY <2>5 DEF PipeInv, TypeOK
  <2> QED
    BY <2>3, <2>4, <2>6
<1>5. CASE WriteFails(c)
  BY <1>5, KillPreserves DEF WriteFails
<1>6. CASE ReadStray(c)
  <2> USE <1>6 DEF ReadStray
  <2>1. /\ Exchange
        /\ stdout \in Seq(Line) /\ stdout # <<>> /\ stdout[1].says = "text"
    BY DEF PipeInv, TypeOK
  <2>2. /\ Len(stdout') = Len(stdout) - 1
        /\ \A i \in 1..Len(stdout') : stdout'[i] = stdout[i + 1]
    BY <2>1
  <2>3. TypeOK'
    BY <2>1 DEF TypeOK
  <2>4. LockInv' /\ AnswerBelongs'
    BY DEF LockInv, AnswerBelongs
  <2>5. Exchange'
    <3>1. Len(stdout) \in Nat
      BY <2>1
    <3>2. \A i \in 1..Len(stdout') : IsAnswer(i)' => IsAnswer(i + 1)
      BY <2>2, <3>1 DEF IsAnswer
    <3>3. NoAnswer => NoAnswer'
      BY <2>2, <3>1, <3>2 DEF NoAnswer
    <3>4. CASE NoAnswer
      BY <2>1, <3>3, <3>4 DEF Exchange, NoAnswer
    <3>5. CASE stdin = <<>> /\ handling = 0 /\ ~NoAnswer
      <4>1. /\ \A i \in 1..Len(stdout) : IsAnswer(i) => stdout[i].of = number
            /\ \A i, j \in 1..Len(stdout) : IsAnswer(i) /\ IsAnswer(j) => i = j
        BY <2>1, <3>5 DEF Exchange
      <4>2. \A i \in 1..Len(stdout') : i + 1 \in 1..Len(stdout)
        BY <2>2, <3>1
      <4>3. \A i \in 1..Len(stdout') : IsAnswer(i)' => stdout'[i].of = number
        BY <2>2, <3>2, <4>1, <4>2
      <4>4. \A i, j \in 1..Len(stdout') : IsAnswer(i)' /\ IsAnswer(j)' => i = j
        <5> SUFFICES ASSUME NEW i \in 1..Len(stdout'), NEW j \in 1..Len(stdout'),
                            IsAnswer(i)', IsAnswer(j)'
                     PROVE  i = j
          OBVIOUS
        <5>1. i + 1 = j + 1
          BY <3>2, <4>1, <4>2
        <5> QED
          BY <5>1, <3>1, <2>2
      <4> QED
        BY <3>5, <4>3, <4>4 DEF Exchange
    <3> QED
      BY <2>1, <3>4, <3>5 DEF Exchange
  <2>6. PipeInv'
    BY <2>1, <2>2, <2>5 DEF PipeInv, TypeOK
  <2> QED
    BY <2>3, <2>4, <2>6
<1>7. CASE ReadGivesUp(c)
  BY <1>7, KillPreserves DEF ReadGivesUp
<1>8. CASE ReadAnswer(c)
  <2> USE <1>8 DEF ReadAnswer
  <2>1. stdout \in Seq(Line) /\ stdout # <<>> /\ 1 \in 1..Len(stdout)
    BY DEF TypeOK
  <2>2. IsAnswer(1) /\ Head(stdout) = stdout[1]
    BY <2>1 DEF IsAnswer
  <2>3. /\ stdin = <<>> /\ handling = 0 /\ Head(stdout).of = number
        /\ \A i \in 1..Len(stdout) : IsAnswer(i) => i = 1
    BY <2>1, <2>2 DEF PipeInv, Exchange, NoAnswer
  <2>4. /\ Len(stdout') = Len(stdout) - 1
        /\ \A i \in 1..Len(stdout') : stdout'[i] = stdout[i + 1]
        /\ Len(stdout) \in Nat
    BY <2>1
  <2>5. LockInv' /\ AnswerBelongs' /\ \A d \in Callers : pc'[d] = "idle"
    BY <2>3, ReturnsPreserves
  <2>6. TypeOK'
    <3>1. /\ pc' \in [Callers -> {"idle", "spawn", "write", "wait"}]
          /\ last' \in [Callers -> [req : 0..MaxRequests, of : 0..MaxRequests]]
      BY <2>3, ReturnsPreserves
    <3>2. stdout' \in Seq(Line)
      BY <2>1
    <3> QED
      BY <3>1, <3>2 DEF TypeOK, Returns
  <2>7. \A i \in 1..Len(stdout') : ~IsAnswer(i)'
    <3> SUFFICES ASSUME NEW i \in 1..Len(stdout'), IsAnswer(i)' PROVE FALSE
      OBVIOUS
    <3>1. IsAnswer(i + 1)
      BY <2>4 DEF IsAnswer
    <3>2. i + 1 \in 1..Len(stdout) /\ i + 1 # 1
      BY <2>4
    <3> QED
      BY <2>3, <3>1, <3>2
  <2>8. PipeInv'
    BY <2>1, <2>3, <2>4, <2>5, <2>7 DEF PipeInv, Quiet, NoAnswer, IsAnswer
  <2> QED
    BY <2>5, <2>6, <2>8
<1>9. CASE ReadTimeoutAnswer(c)
  <2>1. stdout \in Seq(Line) /\ stdout # <<>> /\ 1 \in 1..Len(stdout)
    BY <1>9 DEF TypeOK, ReadTimeoutAnswer
  <2>2. IsAnswer(1) /\ Head(stdout) = stdout[1]
    BY <1>9, <2>1 DEF IsAnswer, ReadTimeoutAnswer
  <2>3. Head(stdout).of = number
    BY <1>9, <2>1, <2>2 DEF PipeInv, Exchange, NoAnswer, ReadTimeoutAnswer
  <2> QED
    BY <1>9, <2>3, KillPreserves DEF ReadTimeoutAnswer
<1>10. CASE ReadClosed(c)
  BY <1>10, KillPreserves DEF ReadClosed
<1>11. CASE CallTimesOut(c)
  BY <1>11, KillPreserves DEF CallTimesOut
<1> QED
  BY <1>1, <1>2, <1>3, <1>4, <1>5, <1>6, <1>7, <1>8, <1>9, <1>10, <1>11
     DEF CallStep

\* Every step of the adapter keeps the inductive invariant.
LEMMA AdapterPreserves ==
    ASSUME IInv, ~StrayParses,
           ServeForever \/ (\E r \in Requests : OrphanEnds(r))
           \/ AdapterPrints \/ AdapterDies
    PROVE  IInv'
<1> USE CallersAssumption
<1> USE DEF IInv, callVars
<1>0. /\ \A c \in Callers : pc[c] # "wait" => pc[c] = "wait" \/ c # plock \/ plock = c
      /\ stdin # <<>> \/ handling # 0 => \E c \in Callers : pc[c] = "wait"
  BY DEF PipeInv, Quiet
<1>1. CASE TakeRequest
  <2> USE <1>1 DEF TakeRequest
  <2>1. /\ Exchange /\ stdin = <<number>> /\ NoAnswer
        /\ number \in Requests /\ stdin \in Seq(Requests)
    <3>1. Exchange
      BY <1>0 DEF PipeInv
    <3> QED
      BY <3>1 DEF Exchange, TypeOK
  <2>2. handling' = number /\ stdin' = <<>>
    BY <2>1
  <2>3. TypeOK'
    BY <2>1, <2>2 DEF TypeOK, Requests
  <2>4. LockInv' /\ AnswerBelongs'
    BY DEF LockInv, AnswerBelongs
  <2>5. Exchange'
    BY <2>1, <2>2 DEF Exchange, NoAnswer, IsAnswer
  <2>6. PipeInv'
    BY <1>0, <2>1, <2>5 DEF PipeInv
  <2> QED
    BY <2>3, <2>4, <2>6
<1>2. ASSUME NEW says \in {"result", "error", "timeout"}, Answer(says),
             proc = "running", handling # 0, orphans' \subseteq Requests,
             UNCHANGED <<proc, stdin>>, UNCHANGED callVars
      PROVE  IInv'
  <2> USE <1>2 DEF Answer
  <2>1. stdin = <<>> /\ handling = number /\ NoAnswer
    BY <1>0 DEF PipeInv, Exchange
  <2> DEFINE line == [of |-> number, says |-> says]
  <2>2. stdout \in Seq(Line) /\ line \in Line
    BY <2>1 DEF TypeOK, Line, LineSays
  <2>3. /\ stdout' = Append(stdout, line) /\ handling' = 0 /\ stdin' = <<>>
        /\ Len(stdout') = Len(stdout) + 1 /\ Len(stdout) \in Nat
        /\ stdout'[Len(stdout) + 1] = line
        /\ \A i \in 1..Len(stdout) : stdout'[i] = stdout[i]
    BY <2>1, <2>2
  <2>4. stdout' \in Seq(Line)
    BY <2>2, <2>3
  <2>5. TypeOK'
    BY <2>3, <2>4 DEF TypeOK
  <2>6. LockInv' /\ AnswerBelongs'
    BY DEF LockInv, AnswerBelongs
  <2>7. \A i \in 1..Len(stdout') : IsAnswer(i)' => i = Len(stdout) + 1
    BY <2>1, <2>3 DEF NoAnswer, IsAnswer
  <2>8. Exchange'
    BY <2>3, <2>7 DEF Exchange
  <2>9. \A i \in 1..Len(stdout') : stdout'[i].says # "json"
    BY <2>3 DEF PipeInv
  <2>10. PipeInv'
    BY <1>0, <2>8, <2>9 DEF PipeInv
  <2> QED
    BY <2>5, <2>6, <2>10
<1>3. CASE AnswerRequest
  <2>1. PICK says \in {"result", "error"} : Answer(says)
    BY <1>3 DEF AnswerRequest
  <2> QED
    BY <1>2, <1>3, <2>1 DEF AnswerRequest, TypeOK
<1>4. CASE WatchdogFires
  <2>1. handling \in Requests /\ orphans \subseteq Requests
    BY <1>4 DEF WatchdogFires, TypeOK, Requests
  <2>2. orphans' \subseteq Requests
    BY <1>4, <2>1 DEF WatchdogFires
  <2> QED
    BY <1>2, <1>4, <2>2 DEF WatchdogFires
<1>5. CASE \E r \in Requests : OrphanEnds(r)
  <2>1. /\ UNCHANGED <<proc, stdin, stdout, handling>> /\ UNCHANGED callVars
        /\ orphans' \subseteq orphans
    BY <1>5 DEF OrphanEnds
  <2>2. TypeOK'
    BY <2>1 DEF TypeOK
  <2>3. LockInv' /\ AnswerBelongs' /\ PipeInv'
    BY <2>1 DEF LockInv, AnswerBelongs, PipeInv, Quiet, Exchange, NoAnswer,
       IsAnswer
  <2> QED
    BY <2>2, <2>3
<1>6. CASE AdapterPrints
  <2> DEFINE line == [of |-> 0, says |-> "text"]
  <2>1. stdout' = Append(stdout, line)
    BY <1>6 DEF AdapterPrints
  <2>2. /\ UNCHANGED <<proc, stdin, handling, orphans>> /\ UNCHANGED callVars
        /\ stdout \in Seq(Line) /\ line \in Line
    BY <1>6 DEF AdapterPrints, TypeOK, Line, LineSays
  <2>3. /\ Len(stdout') = Len(stdout) + 1 /\ Len(stdout) \in Nat
        /\ stdout'[Len(stdout) + 1].says = "text"
        /\ \A i \in 1..Len(stdout) : stdout'[i] = stdout[i]
        /\ stdout' \in Seq(Line)
    BY <2>1, <2>2
  <2>4. /\ \A i \in 1..Len(stdout') : IsAnswer(i)' => IsAnswer(i) /\ stdout'[i] = stdout[i]
        /\ \A i \in 1..Len(stdout) : i \in 1..Len(stdout')
        /\ \A i : IsAnswer(i)' => i \in 1..Len(stdout')
    BY <2>3 DEF IsAnswer
  <2>5. TypeOK'
    BY <2>2, <2>3 DEF TypeOK
  <2>6. LockInv' /\ AnswerBelongs'
    BY <2>2 DEF LockInv, AnswerBelongs
  <2>7. NoAnswer => NoAnswer'
    BY <2>3, <2>4 DEF NoAnswer, IsAnswer
  <2>8. Quiet => Quiet'
    BY <2>2, <2>7 DEF Quiet
  <2>9. Exchange => Exchange'
    <3>1. ASSUME \A i \in 1..Len(stdout) : IsAnswer(i) => stdout[i].of = number
          PROVE  \A i \in 1..Len(stdout') : IsAnswer(i)' => stdout'[i].of = number
      BY <2>4, <3>1 DEF IsAnswer
    <3>2. ASSUME \A i, j \in 1..Len(stdout) : IsAnswer(i) /\ IsAnswer(j) => i = j
          PROVE  \A i, j \in 1..Len(stdout') : IsAnswer(i)' /\ IsAnswer(j)' => i = j
      BY <2>4, <3>2 DEF IsAnswer
    <3> QED
      BY <2>2, <2>7, <3>1, <3>2 DEF Exchange
  <2>10. \A i \in 1..Len(stdout') : stdout'[i].says # "json"
    BY <2>3 DEF PipeInv
  <2>11. PipeInv'
    BY <2>2, <2>8, <2>9, <2>10 DEF PipeInv
  <2> QED
    BY <2>5, <2>6, <2>11
<1>7. CASE AdapterDies
  <2> USE <1>7 DEF AdapterDies
  <2>1. TypeOK'
    BY DEF TypeOK
  <2>2. LockInv' /\ AnswerBelongs'
    BY DEF LockInv, AnswerBelongs
  <2>3. NoAnswer' <=> NoAnswer
    BY DEF NoAnswer, IsAnswer
  <2>4. Quiet => Quiet'
    BY <2>3 DEF Quiet
  <2>5. Exchange => Exchange'
    <3>1. CASE NoAnswer
      BY <2>3, <3>1 DEF Exchange, NoAnswer
    <3>2. CASE ~NoAnswer
      BY <3>2 DEF Exchange, IsAnswer
    <3> QED
      BY <3>1, <3>2
  <2>6. PipeInv'
    BY <2>4, <2>5 DEF PipeInv
  <2> QED
    BY <2>1, <2>2, <2>6
<1> QED
  BY <1>1, <1>3, <1>4, <1>5, <1>6, <1>7 DEF ServeForever

\* The inductive invariant holds in every reachable state.
LEMMA Invariance == ~StrayParses => (Spec => []IInv)
<1> SUFFICES ASSUME ~StrayParses PROVE Spec => []IInv
  OBVIOUS
<1>1. IInv /\ [Next]_vars => IInv'
  <2> SUFFICES ASSUME IInv, [Next]_vars PROVE IInv'
    OBVIOUS
  <2>1. CASE Next
    BY <2>1, CallPreserves, AdapterPreserves DEF Next
  <2>2. CASE UNCHANGED vars
    BY <2>2 DEF vars, IInv, TypeOK, LockInv, PipeInv, AnswerBelongs,
       Quiet, Exchange, NoAnswer, IsAnswer
  <2> QED
    BY <2>1, <2>2
<1> QED
  BY InitIInv, <1>1, PTL DEF Spec

\* An operation that timed out and is not a send has left its TIMEOUT on
\* stdout, where the current call will read it and kill the subprocess.
WorkInv ==
    \/ orphans \subseteq sends
    \/ \E i \in 1..Len(stdout) : stdout[i].says = "timeout"

\* Every step keeps WorkInv in the states of the inductive invariant.
LEMMA WorkPreserves ==
    ASSUME IInv, WorkInv, Next PROVE WorkInv'
<1> USE CallersAssumption
<1>0. stdout \in Seq(Line) /\ Len(stdout) \in Nat
  BY DEF IInv, TypeOK
<1>1. ASSUME NEW state, Pipes(state) PROVE WorkInv'
  BY <1>1 DEF Pipes, WorkInv
<1>2. ASSUME NEW c \in Callers, CallStart(c) PROVE WorkInv'
  BY <1>2 DEF CallStart, procVars, WorkInv
<1>3. ASSUME NEW c \in Callers, Spawn(c) \/ WriteFails(c) \/ ReadGivesUp(c)
             \/ ReadTimeoutAnswer(c) \/ ReadClosed(c) \/ CallTimesOut(c)
      PROVE  WorkInv'
  BY <1>1, <1>3 DEF Spawn, WriteFails, ReadGivesUp, ReadTimeoutAnswer,
     ReadClosed, CallTimesOut, KillLocked
<1>4. ASSUME NEW c \in Callers, SpawnFails(c) \/ Write(c) PROVE WorkInv'
  BY <1>4 DEF SpawnFails, Write, Returns, procVars, WorkInv
<1>5. ASSUME NEW c \in Callers, ReadStray(c) PROVE WorkInv'
  <2>1. /\ Len(stdout') = Len(stdout) - 1
        /\ \A i \in 1..Len(stdout') : stdout'[i] = stdout[i + 1]
        /\ stdout[1].says = "text"
    BY <1>0, <1>5 DEF ReadStray
  <2>2. ASSUME NEW i \in 1..Len(stdout), stdout[i].says = "timeout"
        PROVE  WorkInv'
    <3>1. i - 1 \in 1..Len(stdout')
      BY <1>0, <2>1, <2>2
    <3>2. stdout'[i - 1] = stdout[i]
      BY <1>0, <2>1, <3>1
    <3> QED
      BY <2>2, <3>1, <3>2 DEF WorkInv
  <2> QED
    BY <1>5, <2>2 DEF ReadStray, WorkInv
<1>6. ASSUME NEW c \in Callers, ReadAnswer(c) PROVE WorkInv'
  <2>1. 1 \in 1..Len(stdout) /\ Head(stdout) = stdout[1] /\ IsAnswer(1)
    BY <1>0, <1>6 DEF ReadAnswer, IsAnswer
  <2>2. \A i \in 1..Len(stdout) : IsAnswer(i) => i = 1
    BY <1>6, <2>1 DEF ReadAnswer, IInv, PipeInv, Exchange, NoAnswer
  <2>3. \A i \in 1..Len(stdout) : stdout[i].says # "timeout"
    BY <1>6, <2>1, <2>2 DEF ReadAnswer, IsAnswer
  <2> QED
    BY <1>6, <2>3 DEF ReadAnswer, Returns, WorkInv
<1>7. ASSUME NEW line \in Line, stdout' = Append(stdout, line), sends' = sends,
             orphans' \subseteq orphans \/ line.says = "timeout"
      PROVE  WorkInv'
  <2>1. /\ Len(stdout') = Len(stdout) + 1
        /\ stdout'[Len(stdout) + 1] = line
        /\ \A i \in 1..Len(stdout) : stdout'[i] = stdout[i] /\ i \in 1..Len(stdout')
        /\ Len(stdout) + 1 \in 1..Len(stdout')
    BY <1>0, <1>7
  <2> QED
    BY <1>7, <2>1 DEF WorkInv
<1>8. CASE TakeRequest
  BY <1>8 DEF TakeRequest, callVars, WorkInv
<1>9. CASE AnswerRequest
  <2>1. PICK says \in {"result", "error"} : Answer(says)
    BY <1>9 DEF AnswerRequest
  <2>2. [of |-> handling, says |-> says] \in Line
    BY <2>1 DEF IInv, TypeOK, Line, LineSays
  <2> QED
    BY <1>7, <1>9, <2>1, <2>2 DEF AnswerRequest, Answer, callVars
<1>10. CASE WatchdogFires
  <2>1. /\ [of |-> handling, says |-> "timeout"] \in Line
        /\ [of |-> handling, says |-> "result"] \in Line
    BY DEF IInv, TypeOK, Line, LineSays
  <2>2. CASE handling \in sends
    <3>1. /\ stdout' = Append(stdout, [of |-> handling, says |-> "result"])
          /\ orphans' \subseteq orphans \cup sends /\ sends' = sends
      BY <1>10, <2>2 DEF WatchdogFires, Answer, callVars
    <3>2. /\ \A i \in 1..Len(stdout) : stdout'[i] = stdout[i] /\ i \in 1..Len(stdout')
      BY <1>0, <2>1, <3>1
    <3> QED
      BY <3>1, <3>2 DEF WorkInv
  <2>3. CASE handling \notin sends
    BY <1>7, <1>10, <2>1, <2>3 DEF WatchdogFires, Answer, callVars
  <2> QED
    BY <2>2, <2>3
<1>11. ASSUME NEW r \in Requests, OrphanEnds(r) PROVE WorkInv'
  BY <1>11 DEF OrphanEnds, callVars, WorkInv
<1>12. CASE AdapterPrints
  <2>1. PICK says \in {"text", "json"} :
           stdout' = Append(stdout, [of |-> 0, says |-> says])
    BY <1>12 DEF AdapterPrints
  <2>2. [of |-> 0, says |-> says] \in Line
    BY DEF Line, LineSays
  <2> QED
    BY <1>7, <1>12, <2>1, <2>2 DEF AdapterPrints, callVars
<1>13. CASE AdapterDies
  BY <1>13 DEF AdapterDies, callVars, WorkInv
<1> QED
  BY <1>2, <1>3, <1>4, <1>5, <1>6, <1>8, <1>9, <1>10, <1>11, <1>12, <1>13
     DEF Next, CallStep, ServeForever

\* For any number of callers and requests: a call of AdapterSupervisor.call
\* returns the answer to its own request or an error, although the lines on
\* the pipes carry no request number, provided that no stray print on the
\* adapter's stdout happens to be valid JSON.
THEOREM CallsAnswered == ~StrayParses => (Spec => []AnswerBelongs)
<1> SUFFICES ASSUME ~StrayParses PROVE Spec => []AnswerBelongs
  OBVIOUS
<1>1. IInv => AnswerBelongs
  BY DEF IInv
<1> QED
  BY Invariance, <1>1, PTL

\* Between calls the pipes hold no request and no answer that a later call
\* could mistake for its own.
THEOREM NothingLeftBehind == ~StrayParses => (Spec => []PipesDrained)
<1> SUFFICES ASSUME ~StrayParses PROVE Spec => []PipesDrained
  OBVIOUS
<1>1. IInv => PipesDrained
  BY CallersAssumption DEF IInv, PipesDrained, LockInv, PipeInv, Quiet, NoAnswer, IsAnswer,
     TypeOK
<1> QED
  BY Invariance, <1>1, PTL

\* No request is written to a subprocess in which an operation that timed out
\* still runs, unless that operation is a send: its timeout was read as such,
\* and the subprocess killed, before the lock was released.
THEOREM NothingRunsBehind == ~StrayParses => (Spec => []NoWorkBehind)
<1> SUFFICES ASSUME ~StrayParses PROVE Spec => []NoWorkBehind
  OBVIOUS
<1>1. Init => WorkInv
  BY DEF Init, WorkInv
<1>2. IInv /\ WorkInv /\ [Next]_vars => WorkInv'
  <2> SUFFICES ASSUME IInv, WorkInv, [Next]_vars PROVE WorkInv'
    OBVIOUS
  <2>1. CASE Next
    BY <2>1, WorkPreserves
  <2>2. CASE UNCHANGED vars
    BY <2>2 DEF vars, WorkInv
  <2> QED
    BY <2>1, <2>2
<1>3. IInv /\ WorkInv => NoWorkBehind
  <2> SUFFICES ASSUME IInv, WorkInv, NEW c \in Callers, pc[c] = "write"
               PROVE  orphans \subseteq sends
    BY DEF NoWorkBehind
  <2>1. NoAnswer
    BY CallersAssumption DEF IInv, LockInv, PipeInv, Quiet
  <2>2. \A i \in 1..Len(stdout) : stdout[i].says # "timeout"
    BY <2>1 DEF NoAnswer, IsAnswer
  <2> QED
    BY <2>2 DEF WorkInv
<1> QED
  BY <1>1, <1>2, <1>3, Invariance, PTL DEF Spec

\* The pipes, the subprocess and its kills implement the request/answer
\* service: every step of the exchange asks, returns the caller's own answer
\* or an error, or is invisible to the callers.
THEOREM ImplementsService == ~StrayParses => (Spec => Service!SafetySpec)
<1> SUFFICES ASSUME ~StrayParses PROVE Spec => Service!SafetySpec
  OBVIOUS
<1> USE DEF Service!vars
<1>1. Init => Service!Init
  BY DEF Init, Service!Init
<1>2. IInv /\ [Next]_vars => [Service!Next]_Service!vars
  <2> SUFFICES ASSUME IInv, [Next]_vars PROVE [Service!Next]_Service!vars
    OBVIOUS
  <2>1. ASSUME NEW c \in Callers, CallStart(c) PROVE Service!Next
    BY <2>1 DEF CallStart, Service!Next, Service!Ask
  <2>2. ASSUME NEW c \in Callers, pc[c] # "idle", NEW answer \in {0, number},
               Returns(c, answer)
        PROVE  Service!Next
    <3>1. plock = c
      BY <2>2 DEF IInv, LockInv
    <3> QED
      BY <2>2, <3>1 DEF Returns, Service!Next, Service!Return
  <2>3. ASSUME NEW c \in Callers, pc[c] = "wait", stdout # <<>>,
               Head(stdout).says # "text"
        PROVE  Head(stdout).of = number
    <3>1. stdout \in Seq(Line) /\ 1 \in 1..Len(stdout) /\ Head(stdout) = stdout[1]
      BY <2>3 DEF IInv, TypeOK
    <3>2. IsAnswer(1)
      BY <2>3, <3>1 DEF IsAnswer
    <3> QED
      BY <2>3, <3>1, <3>2 DEF IInv, PipeInv, Exchange, NoAnswer
  <2>4. ASSUME NEW c \in Callers, CallStep(c)
        PROVE  Service!Next \/ UNCHANGED Service!vars
    <3>1. CASE Spawn(c) \/ Write(c) \/ ReadStray(c)
      BY <3>1 DEF Spawn, Write, ReadStray
    <3>2. CASE SpawnFails(c) \/ WriteFails(c) \/ ReadGivesUp(c) \/ ReadClosed(c)
               \/ CallTimesOut(c)
      BY <3>2, <2>2 DEF SpawnFails, WriteFails, ReadGivesUp, ReadClosed,
         CallTimesOut
    <3>3. CASE ReadAnswer(c)
      BY <3>3, <2>2, <2>3 DEF ReadAnswer
    <3>4. CASE ReadTimeoutAnswer(c)
      BY <3>4, <2>2, <2>3 DEF ReadTimeoutAnswer
    <3> QED
      BY <2>4, <3>1, <3>2, <3>3, <3>4 DEF CallStep
  <2>5. ASSUME ServeForever \/ (\E r \in Requests : OrphanEnds(r))
               \/ AdapterPrints \/ AdapterDies
        PROVE  UNCHANGED Service!vars
    BY <2>5 DEF ServeForever, TakeRequest, AnswerRequest, WatchdogFires,
       OrphanEnds, AdapterPrints, AdapterDies, callVars
  <2>6. CASE UNCHANGED vars
    BY <2>6 DEF vars
  <2> QED
    BY <2>1, <2>4, <2>5, <2>6 DEF Next
<1> QED
  BY <1>1, <1>2, Invariance, PTL DEF Spec, Service!SafetySpec
-----------------------------------------------------------------------------
(* Types, stray prints that parse included *)

TypeInv == TypeOK /\ LockInv

\* Removed, crashed or new: empty pipes have their types.
LEMMA EmptyPipesTyped ==
    ASSUME NEW state \in {"none", "running", "dead"}, Pipes(state)
    PROVE  /\ proc' \in {"none", "running", "dead"}
           /\ stdin' \in Seq(Requests) /\ stdout' \in Seq(Line)
           /\ handling' \in 0..MaxRequests /\ orphans' \subseteq Requests
BY CallersAssumption DEF Pipes

\* Whatever a call returns, it returns it to the owner of the lock.
LEMMA ReturnsTyped ==
    ASSUME TypeInv, NEW c \in Callers, pc[c] # "idle",
           NEW answer \in 0..MaxRequests, Returns(c, answer),
           proc' \in {"none", "running", "dead"},
           stdin' \in Seq(Requests), stdout' \in Seq(Line),
           handling' \in 0..MaxRequests, orphans' \subseteq Requests
    PROVE  TypeInv'
<1> USE CallersAssumption DEF TypeInv
<1>1. plock = c
  BY DEF LockInv
<1>2. pc' \in [Callers -> {"idle", "spawn", "write", "wait"}]
  BY DEF TypeOK, Returns, Go
<1>3. last' \in [Callers -> [req : 0..MaxRequests, of : 0..MaxRequests]]
  <2>1. /\ last \in [Callers -> [req : 0..MaxRequests, of : 0..MaxRequests]]
        /\ number \in 0..MaxRequests
        /\ last' = [last EXCEPT ![c] = [req |-> number, of |-> answer]]
    BY DEF TypeOK, Returns
  <2> QED
    BY ONLY <2>1
<1>4. TypeOK'
  BY <1>2, <1>3 DEF TypeOK, Returns
<1>5. LockInv'
  BY <1>1 DEF LockInv, Returns, Go, TypeOK
<1> QED
  BY <1>4, <1>5

\* What the adapter does to its own side leaves the callers as they were.
LEMMA AdapterSideTyped ==
    ASSUME TypeInv, UNCHANGED callVars,
           proc' \in {"none", "running", "dead"},
           stdin' \in Seq(Requests), stdout' \in Seq(Line),
           handling' \in 0..MaxRequests, orphans' \subseteq Requests
    PROVE  TypeInv'
BY DEF TypeInv, TypeOK, LockInv, callVars

\* Every step keeps the types and the ownership of the lock.
LEMMA StepTyped ==
    ASSUME TypeInv, Next PROVE TypeInv'
<1> USE CallersAssumption
<1>0. /\ proc \in {"none", "running", "dead"} /\ stdin \in Seq(Requests)
      /\ stdout \in Seq(Line) /\ handling \in 0..MaxRequests
      /\ orphans \subseteq Requests /\ number \in 0..MaxRequests
  BY DEF TypeInv, TypeOK
<1>h. stdout # <<>> => /\ Head(stdout).of \in 0..MaxRequests
                       /\ Tail(stdout) \in Seq(Line)
  <2> SUFFICES ASSUME stdout # <<>>
               PROVE  Head(stdout).of \in 0..MaxRequests /\ Tail(stdout) \in Seq(Line)
    OBVIOUS
  <2>1. Head(stdout) \in Line /\ Tail(stdout) \in Seq(Line)
    BY <1>0
  <2> QED
    BY <2>1 DEF Line
<1>a. ASSUME NEW says \in LineSays
      PROVE  \A of \in 0..MaxRequests :
                Append(stdout, [of |-> of, says |-> says]) \in Seq(Line)
  <2> TAKE of \in 0..MaxRequests
  <2>1. [of |-> of, says |-> says] \in Line
    BY DEF Line
  <2> QED
    BY <1>0, <2>1
<1>1. ASSUME NEW c \in Callers, CallStart(c) PROVE TypeInv'
  <2> USE <1>1 DEF CallStart, Go, procVars
  <2>1. TypeOK'
    BY DEF TypeInv, TypeOK, Requests
  <2>2. LockInv'
    BY DEF TypeInv, LockInv, TypeOK
  <2> QED
    BY <2>1, <2>2 DEF TypeInv
<1>2. ASSUME NEW c \in Callers, Spawn(c) PROVE TypeInv'
  <2>1. TypeOK'
    BY <1>2, EmptyPipesTyped DEF Spawn, Go, TypeInv, TypeOK
  <2>2. LockInv'
    BY <1>2 DEF Spawn, Go, TypeInv, LockInv, TypeOK
  <2> QED
    BY <2>1, <2>2 DEF TypeInv
<1>3. ASSUME NEW c \in Callers, SpawnFails(c) PROVE TypeInv'
  <2>1. /\ pc[c] # "idle" /\ Returns(c, 0) /\ proc' = proc /\ stdin' = stdin
        /\ stdout' = stdout /\ handling' = handling /\ orphans' = orphans
    BY <1>3 DEF SpawnFails, procVars
  <2> QED
    BY <1>0, <2>1, ReturnsTyped
<1>4. ASSUME NEW c \in Callers, Write(c) PROVE TypeInv'
  <2>1. number \in Requests
    <3>1. plock = c
      BY <1>4 DEF Write, TypeInv, LockInv
    <3> QED
      BY <1>0, <3>1 DEF TypeInv, LockInv, Requests
  <2>2. stdin' \in Seq(Requests)
    BY <1>0, <1>4, <2>1 DEF Write
  <2>3. TypeOK'
    BY <1>4, <2>2 DEF Write, Go, TypeInv, TypeOK
  <2>4. LockInv'
    BY <1>4 DEF Write, Go, TypeInv, LockInv, TypeOK
  <2> QED
    BY <2>3, <2>4 DEF TypeInv
<1>5. ASSUME NEW c \in Callers, NEW answer \in 0..MaxRequests, pc[c] # "idle",
             KillLocked, Returns(c, answer)
      PROVE  TypeInv'
  <2>1. /\ proc' \in {"none", "running", "dead"}
        /\ stdin' \in Seq(Requests) /\ stdout' \in Seq(Line)
        /\ handling' \in 0..MaxRequests /\ orphans' \subseteq Requests
    BY <1>5, EmptyPipesTyped DEF KillLocked
  <2> QED
    BY ONLY TypeInv, <1>5, <2>1, ReturnsTyped
<1>6. ASSUME NEW c \in Callers,
             WriteFails(c) \/ ReadGivesUp(c) \/ ReadClosed(c) \/ CallTimesOut(c)
      PROVE  TypeInv'
  <2>1. pc[c] # "idle" /\ KillLocked /\ Returns(c, 0) /\ 0 \in 0..MaxRequests
    BY <1>6 DEF WriteFails, ReadGivesUp, ReadClosed, CallTimesOut
  <2> QED
    BY <1>5, <2>1
<1>7. ASSUME NEW c \in Callers, ReadStray(c) PROVE TypeInv'
  <2>1. TypeOK'
    BY <1>7, <1>h, SMTT(30) DEF ReadStray, TypeInv, TypeOK
  <2>2. LockInv'
    BY <1>7 DEF ReadStray, TypeInv, LockInv
  <2> QED
    BY <2>1, <2>2 DEF TypeInv
<1>8. ASSUME NEW c \in Callers, ReadAnswer(c) PROVE TypeInv'
  <2>1. /\ pc[c] # "idle" /\ Returns(c, Head(stdout).of)
        /\ Head(stdout).of \in 0..MaxRequests
        /\ stdout' \in Seq(Line) /\ proc' = proc /\ stdin' = stdin
        /\ handling' = handling /\ orphans' = orphans
    BY <1>8, <1>h DEF ReadAnswer
  <2> QED
    BY <1>0, <2>1, ReturnsTyped
<1>9. ASSUME NEW c \in Callers, ReadTimeoutAnswer(c) PROVE TypeInv'
  <2>1. /\ pc[c] # "idle" /\ KillLocked /\ Returns(c, Head(stdout).of)
        /\ Head(stdout).of \in 0..MaxRequests
    BY <1>9, <1>h DEF ReadTimeoutAnswer
  <2> QED
    BY <1>5, <2>1
<1>10. CASE TakeRequest
  <2>1. Head(stdin) \in Requests /\ Tail(stdin) \in Seq(Requests)
    BY <1>0, <1>10 DEF TakeRequest
  <2>2. /\ handling' \in 0..MaxRequests /\ stdin' \in Seq(Requests)
        /\ proc' = proc /\ stdout' = stdout /\ orphans' = orphans
        /\ UNCHANGED callVars
    BY <1>10, <2>1 DEF TakeRequest, Requests
  <2> QED
    BY <1>0, <2>2, AdapterSideTyped
<1>11. CASE AnswerRequest
  <2>1. PICK says \in {"result", "error"} : Answer(says)
    BY <1>11 DEF AnswerRequest
  <2>2. /\ stdout' \in Seq(Line) /\ handling' = 0 /\ proc' = proc
        /\ stdin' = stdin /\ orphans' = orphans /\ UNCHANGED callVars
    BY <1>0, <1>11, <1>a, <2>1 DEF AnswerRequest, Answer, LineSays
  <2> QED
    BY <1>0, <2>2, AdapterSideTyped
<1>12. CASE WatchdogFires
  <2>1. PICK says \in {"result", "timeout"} : Answer(says)
    BY <1>12 DEF WatchdogFires
  <2>2. /\ stdout' \in Seq(Line) /\ handling' = 0
    BY <1>0, <1>a, <2>1 DEF Answer, LineSays
  <2>3. /\ proc' = proc /\ stdin' = stdin /\ UNCHANGED callVars
        /\ orphans' \subseteq Requests
    BY <1>0, <1>12 DEF WatchdogFires, Requests
  <2> QED
    BY <1>0, <2>2, <2>3, AdapterSideTyped
<1>13. ASSUME NEW r \in Requests, OrphanEnds(r) PROVE TypeInv'
  <2>1. /\ proc' = proc /\ stdin' = stdin /\ stdout' = stdout
        /\ handling' = handling /\ orphans' \subseteq Requests
        /\ UNCHANGED callVars
    BY <1>0, <1>13 DEF OrphanEnds
  <2> QED
    BY <1>0, <2>1, AdapterSideTyped
<1>14. CASE AdapterPrints
  <2>1. PICK says \in {"text", "json"} :
           stdout' = Append(stdout, [of |-> 0, says |-> says])
    BY <1>14 DEF AdapterPrints
  <2>2. /\ stdout' \in Seq(Line) /\ handling' = handling /\ proc' = proc
        /\ stdin' = stdin /\ orphans' = orphans /\ UNCHANGED callVars
    BY <1>a, <1>14, <2>1 DEF AdapterPrints, LineSays
  <2> QED
    BY <1>0, <2>2, AdapterSideTyped
<1>15. CASE AdapterDies
  <2>1. /\ stdout' = stdout /\ handling' = 0 /\ proc' = "dead"
        /\ stdin' = <<>> /\ orphans' = {} /\ UNCHANGED callVars
    BY <1>15 DEF AdapterDies
  <2> QED
    BY <1>0, <2>1, AdapterSideTyped
<1> QED
  BY <1>1, <1>2, <1>3, <1>4, <1>6, <1>7, <1>8, <1>9, <1>10, <1>11, <1>12,
     <1>13, <1>14, <1>15
     DEF Next, CallStep, ServeForever

\* Type correctness of the exchange, whatever the adapter prints: a request
\* is only written, and an answer only handed over, by the caller that owns
\* _proc_lock and has numbered its call.
THEOREM ExchangeTyped == Spec => []TypeOK
<1>1. Init => TypeInv
  BY InitIInv DEF IInv, TypeInv
<1>2. TypeInv /\ [Next]_vars => TypeInv'
  <2> SUFFICES ASSUME TypeInv, [Next]_vars PROVE TypeInv'
    OBVIOUS
  <2>1. CASE Next
    BY <2>1, StepTyped
  <2>2. CASE UNCHANGED vars
    BY <2>2 DEF vars, TypeInv, TypeOK, LockInv
  <2> QED
    BY <2>1, <2>2
<1>3. TypeInv => TypeOK
  BY DEF TypeInv
<1> QED
  BY <1>1, <1>2, <1>3, PTL DEF Spec
=============================================================================
