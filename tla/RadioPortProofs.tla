--------------------------- MODULE RadioPortProofs ---------------------------
(***************************************************************************)
(* Proofs about RadioPort for every set of threads and subprocesses: the   *)
(* variables keep their types, radio_lock is held by exactly the thread    *)
(* between its acquire and its release, and an exclusive claim is alone on *)
(* the port (when no claimer is one of the send_* commands whose timeout   *)
(* the adapter swallows).                                                  *)
(***************************************************************************)
EXTENDS RadioPort, TLAPS

LockUsers == Claimers \cup Sessions

\* While run_listener is past a spawn, its local proc is a subprocess.
ProcInv == lpc \in {"read", "note", "classify", "report", "forget"}
           => lproc \in Procs

TypeInv == TypeOK /\ ProcInv

\* The thread between acquire and release, and no other, owns radio_lock.
LockInv == \A t \in LockUsers : pc[t] # "idle" <=> lock = t

\* An adapter-side thread belongs to a claim that still waits for it.
AdapterInv == \A c \in Claimers : athread[c] # "none" => pc[c] = "work"

\* No listener is alive while somebody works.
WorkInv == \A t \in LockUsers : pc[t] = "work" => Alive = {}

IInv == TypeInv /\ LockInv /\ AdapterInv /\ WorkInv

-----------------------------------------------------------------------------
LEMMA TerminatedType ==
    ASSUME TypeOK, NEW p \in Procs \cup {NoProc}, Terminated(p, pstate')
    PROVE  /\ pstate' \in [Procs -> ProcStates]
           /\ Alive' \subseteq Alive
  BY DEF TypeOK, Terminated, ProcStates, Alive

\* Every variable keeps its type (RadioPort's TypeOK) in every instance.
LEMMA InitTypeInv == Init => TypeInv
<1> SUFFICES ASSUME Init PROVE TypeInv
  OBVIOUS
<1>1. report \in [cause : ProcStates, intentional : BOOLEAN]
  BY DEF Init, ProcStates
<1>2. /\ pstate \in [Procs -> ProcStates]
      /\ pc \in [Threads -> ThreadPcs]
      /\ target \in [Threads -> Procs \cup {NoProc}]
      /\ athread \in [Claimers -> {"none", "waiting", "open"}]
  BY DEF Init, ProcStates, ThreadPcs
<1> QED
  BY <1>1, <1>2 DEF Init, TypeInv, TypeOK, ProcInv, Modes, ListenerPcs

LEMMA NextTypeInv == TypeInv /\ [Next]_vars => TypeInv'
<1> SUFFICES ASSUME TypeInv, [Next]_vars PROVE TypeInv'
  OBVIOUS
<1> USE DEF TypeInv, TypeOK, ProcInv
<1>1. CASE Listener
  <2>1. CASE ListenerTop
    BY <2>1 DEF ListenerTop, ListenerPcs
  <2>2. CASE ListenerReset
    BY <2>2 DEF ListenerReset, ListenerPcs
  <2>3. CASE ListenerGatePaused
    BY <2>3 DEF ListenerGatePaused, ListenerPcs
  <2>4. CASE ListenerSpawn
    BY <2>4 DEF ListenerSpawn, ListenerPcs, ProcStates, Modes
  <2>5. CASE ListenerSpawnFails
    BY <2>5 DEF ListenerSpawnFails, ListenerPcs
  <2>6. CASE ListenerBreak
    BY <2>6 DEF ListenerBreak, ListenerPcs
  <2>7. CASE ListenerEof
    BY <2>7 DEF ListenerEof, ListenerPcs
  <2>8. CASE ListenerNote
    BY <2>8 DEF ListenerNote, ListenerPcs
  <2>9. CASE ListenerClassify
    BY <2>9 DEF ListenerClassify, ListenerPcs
  <2>10. CASE ListenerReport
    <3>1. pstate' \in [Procs -> ProcStates]
      BY <2>10, TerminatedType DEF ListenerReport
    <3>2. report' \in [cause : ProcStates, intentional : BOOLEAN]
      BY <2>10 DEF ListenerReport, ProcStates
    <3> QED
      BY <2>10, <3>1, <3>2 DEF ListenerReport, ListenerPcs
  <2>11. CASE ListenerForget
    BY <2>11 DEF ListenerForget, ListenerPcs
  <2> QED
    BY <1>1, <2>1, <2>2, <2>3, <2>4, <2>5, <2>6, <2>7, <2>8, <2>9, <2>10,
       <2>11 DEF Listener
<1>2. ASSUME NEW p \in Procs, ListenerExits(p) PROVE TypeInv'
  BY <1>2 DEF ListenerExits, listenerVars, ProcStates
<1>3. ASSUME NEW t \in Threads, StopListenerProcess(t) PROVE TypeInv'
  <2>1. \A b \in BOOLEAN : AfterStop(t, b) \in ThreadPcs
    BY DEF AfterStop, ThreadPcs
  <2>2. CASE PauseListener(t)
    BY <2>2 DEF PauseListener, Go, listenerVars, ThreadPcs
  <2>3. CASE ReadListenProcess(t)
    BY <2>1, <2>3, ZenonT(60) DEF ReadListenProcess, Go, listenerVars, ThreadPcs
  <2>4. CASE KillListener(t)
    <3>1. pstate' \in [Procs -> ProcStates]
      BY <2>4, TerminatedType DEF KillListener
    <3> QED
      BY <2>4, <3>1 DEF KillListener, Go, listenerVars, ThreadPcs
  <2>5. CASE ForgetListener(t)
    <3>1. AfterStop(t, pstate[target[t]] # "running") \in ThreadPcs
      BY <2>1
    <3> QED
      BY <2>5, <3>1 DEF ForgetListener, Go, listenerVars
  <2> QED
    BY <1>3, <2>2, <2>3, <2>4, <2>5 DEF StopListenerProcess
<1>4. ASSUME NEW c \in Claimers, ClaimStart(c) \/ ClaimStep(c) \/ AdapterStep(c)
      PROVE  TypeInv'
  <2>0. c \in Threads
    BY DEF Threads
  <2>1. CASE StopListenerProcess(c)
    BY <1>3, <2>0, <2>1
  <2>2. CASE ClaimStart(c)
    BY <2>0, <2>2 DEF ClaimStart, Go, listenerVars, ThreadPcs
  <2>3. CASE ClaimGranted(c) \/ ClaimRefused(c)
    BY <2>0, <2>3 DEF ClaimGranted, ClaimRefused, Go, listenerVars, ThreadPcs
  <2>4. CASE AdapterKilled(c) \/ SendTimedOut(c)
    BY <2>0, <2>4 DEF AdapterKilled, SendTimedOut, Go, listenerVars, ThreadPcs
  <2>5. CASE ClaimResumes(c) \/ Unlock(c)
    BY <2>0, <2>5 DEF ClaimResumes, Unlock, Go, listenerVars, ThreadPcs
  <2>6. CASE AdapterOpen(c)
    BY <2>0, <2>6 DEF AdapterOpen, listenerVars
  <2>7. CASE AdapterAnswers(c)
    BY <2>0, <2>7 DEF AdapterAnswers, Go, listenerVars, ThreadPcs
  <2> QED
    BY <1>4, <2>1, <2>2, <2>3, <2>4, <2>5, <2>6, <2>7
       DEF ClaimStep, AdapterStep
<1>5. ASSUME NEW s \in Sessions, SessionStart(s) \/ SessionStep(s)
      PROVE  TypeInv'
  <2>0. s \in Threads
    BY DEF Threads
  <2>1. CASE StopListenerProcess(s)
    BY <1>3, <2>0, <2>1
  <2>2. CASE SessionStart(s)
    BY <2>0, <2>2 DEF SessionStart, Go, listenerVars, ThreadPcs
  <2>3. CASE SessionAllowed(s) \/ SessionGranted(s) \/ SessionEnds(s)
    BY <2>0, <2>3 DEF SessionAllowed, SessionGranted, SessionEnds, Go,
                      listenerVars, ThreadPcs
  <2>4. CASE SessionRestores(s) \/ SessionResumes(s) \/ Unlock(s)
    BY <2>0, <2>4 DEF SessionRestores, SessionResumes, Unlock, Go,
                      listenerVars, ThreadPcs
  <2> QED
    BY <1>5, <2>1, <2>2, <2>3, <2>4 DEF SessionStep
<1>6. ASSUME NEW r \in Restarters, RestartStart(r) \/ RestartStep(r)
      PROVE  TypeInv'
  <2>0. r \in Threads
    BY DEF Threads
  <2>1. CASE StopListenerProcess(r)
    BY <1>3, <2>0, <2>1
  <2>2. CASE RestartStart(r) \/ RestartResumes(r)
    BY <2>0, <2>2 DEF RestartStart, RestartResumes, Go, listenerVars,
                      ThreadPcs
  <2> QED
    BY <1>6, <2>1, <2>2 DEF RestartStep
<1>7. ASSUME NEW r \in Releasers, ReleaseStart(r) \/ ReleaseStep(r)
      PROVE  TypeInv'
  <2>0. r \in Threads
    BY DEF Threads
  <2>1. CASE StopListenerProcess(r)
    BY <1>3, <2>0, <2>1
  <2>2. CASE ReleaseStart(r) \/ ReleaseSucceeds(r)
    BY <2>0, <2>2 DEF ReleaseStart, ReleaseSucceeds, Go, listenerVars,
                      ThreadPcs, Modes
  <2>3. CASE ReleaseFails(r) \/ ReleaseError(r)
    BY <2>0, <2>3, ZenonT(60) DEF ReleaseFails, ReleaseError, Go, listenerVars,
                      ThreadPcs, Modes
  <2> QED
    BY <1>7, <2>1, <2>2, <2>3 DEF ReleaseStep
<1>8. ASSUME NEW r \in Reconnecters, ReconnectStart(r) \/ ReconnectResumes(r)
      PROVE  TypeInv'
  <2>0. r \in Threads
    BY DEF Threads
  <2> QED
    BY <1>8, <2>0, ZenonT(60) DEF ReconnectStart, ReconnectResumes, Go, listenerVars,
                      ThreadPcs, Modes
<1>9. CASE StatusPoll
  BY <1>9 DEF StatusPoll, listenerVars, Modes
<1>10. CASE UNCHANGED vars
  BY <1>10 DEF vars
<1> QED
  BY <1>1, <1>2, <1>4, <1>5, <1>6, <1>7, <1>8, <1>9, <1>10 DEF Next

\* Type correctness of the port arbitration.
THEOREM TypeCorrect == Spec => []TypeOK
<1>1. TypeInv => TypeOK
  BY DEF TypeInv
<1> QED
  BY InitTypeInv, NextTypeInv, <1>1, PTL DEF Spec

-----------------------------------------------------------------------------
(* Exclusive access *)

\* The invariants below speak of Claimers and Sessions only, and a step of
\* another thread leaves their program counters alone.
LEMMA OthersKeepPc ==
    ASSUME TypeOK, NEW t \in Threads \ LockUsers, NEW l, Go(t, l)
    PROVE  \A u \in LockUsers : pc'[u] = pc[u]
  BY DEF TypeOK, Go, LockUsers, Threads

LEMMA InitExclusive == Init => LockInv /\ AdapterInv /\ WorkInv
  BY ThreadsAssumption DEF Init, LockInv, AdapterInv, WorkInv, LockUsers,
                           Threads, Alive

\* A step that moves no Claimer or Session, keeps the lock and the adapter,
\* and starts no listener preserves the three invariants.
LEMMA QuietStep ==
    ASSUME LockInv, AdapterInv, WorkInv,
           \A u \in LockUsers : pc'[u] = pc[u],
           lock' = lock, athread' = athread, Alive' \subseteq Alive
    PROVE  (LockInv /\ AdapterInv /\ WorkInv)'
  BY DEF LockInv, AdapterInv, WorkInv, LockUsers

\* The owner of the lock moves between two of the points where it holds it.
LEMMA OwnerStep ==
    ASSUME TypeOK, LockInv, AdapterInv, WorkInv,
           NEW t \in LockUsers, NEW l, Go(t, l), pc[t] # "idle",
           l # "idle", l = "work" => Alive' = {},
           lock' = lock, Alive' \subseteq Alive,
           \A c \in Claimers :
              athread'[c] # "none" => pc'[c] = "work"
    PROVE  (LockInv /\ AdapterInv /\ WorkInv)'
<1>1. /\ pc'[t] = l
      /\ \A u \in LockUsers : u # t => pc'[u] = pc[u]
  BY DEF TypeOK, Go, LockUsers, Threads
<1>2. LockInv'
  BY <1>1 DEF LockInv, LockUsers
<1>3. WorkInv'
  BY <1>1 DEF WorkInv, LockUsers
<1>4. AdapterInv'
  BY DEF AdapterInv
<1> QED
  BY <1>2, <1>3, <1>4

LEMMA NextExclusive ==
    ASSUME Senders = {}, TypeInv, LockInv, AdapterInv, WorkInv, [Next]_vars
    PROVE  (LockInv /\ AdapterInv /\ WorkInv)'
<1> DEFINE Inv == LockInv /\ AdapterInv /\ WorkInv
<1>0. TypeOK
  BY DEF TypeInv
<1>1. CASE Listener
  <2>1. CASE ListenerSpawn
    <3>1. \A u \in LockUsers : pc[u] # "work"
      BY <2>1, ThreadsAssumption
         DEF ListenerSpawn, LockInv, LockUsers, Threads
    <3> QED
      BY <2>1, <3>1 DEF ListenerSpawn, LockInv, AdapterInv, WorkInv, LockUsers
  <2>2. CASE ListenerReport
    <3>1. Alive' \subseteq Alive
      BY <1>0, <2>2, TerminatedType DEF ListenerReport, Alive, TypeOK
    <3> QED
      BY <2>2, <3>1, QuietStep DEF ListenerReport
  <2>3. ASSUME ~ListenerSpawn, ~ListenerReport
        PROVE  pc' = pc /\ lock' = lock /\ athread' = athread /\ pstate' = pstate
    BY <1>1, <2>3 DEF Listener, ListenerTop, ListenerReset,
       ListenerGatePaused, ListenerSpawnFails, ListenerBreak, ListenerEof,
       ListenerNote, ListenerClassify, ListenerForget
  <2>4. ASSUME ~ListenerSpawn, ~ListenerReport PROVE Inv'
    BY <2>3, <2>4, QuietStep DEF Alive
  <2> QED
    BY <2>1, <2>2, <2>4
<1>2. ASSUME NEW p \in Procs, ListenerExits(p) PROVE Inv'
  <2>1. Alive' \subseteq Alive
    BY <1>0, <1>2 DEF ListenerExits, Alive, TypeOK
  <2> QED
    BY <1>2, <2>1, QuietStep DEF ListenerExits
<1>3. ASSUME NEW t \in Threads, StopListenerProcess(t)
      PROVE  /\ lock' = lock
             /\ athread' = athread
             /\ Alive' \subseteq Alive
             /\ pc[t] \notin {"idle", "work"}
             /\ \E l \in {"stop", "kill", "forget", AfterStop(t, TRUE),
                          AfterStop(t, FALSE)} : Go(t, l)
  <2>1. CASE PauseListener(t)
    BY <2>1 DEF PauseListener, Alive
  <2>2. CASE ReadListenProcess(t)
    BY <2>2 DEF ReadListenProcess, Alive
  <2>3. CASE KillListener(t)
    <3>1. Alive' \subseteq Alive
      BY <1>0, <2>3, TerminatedType DEF KillListener, TypeOK
    <3> QED
      BY <2>3, <3>1 DEF KillListener
  <2>4. CASE ForgetListener(t)
    <3>1. PICK b \in BOOLEAN : b = (pstate[target[t]] # "running")
      OBVIOUS
    <3> QED
      BY <2>4, <3>1 DEF ForgetListener, Alive
  <2> QED
    BY <1>3, <2>1, <2>2, <2>3, <2>4 DEF StopListenerProcess
<1>4. ASSUME NEW t \in LockUsers, StopListenerProcess(t) PROVE Inv'
  <2>1. t \in Threads
    BY DEF LockUsers, Threads
  <2>2. \A b \in BOOLEAN : AfterStop(t, b) = "check"
    BY ThreadsAssumption DEF AfterStop, LockUsers, Threads
  <2>3. PICK l \in {"stop", "kill", "forget", "check"} : Go(t, l)
    BY <1>3, <1>4, <2>1, <2>2
  <2>4. /\ lock' = lock
        /\ athread' = athread
        /\ Alive' \subseteq Alive
        /\ pc[t] \notin {"idle", "work"}
    BY <1>3, <1>4, <2>1
  <2>5. \A c \in Claimers : athread'[c] # "none" => pc'[c] = "work"
    BY <1>0, <2>1, <2>3, <2>4 DEF AdapterInv, Go, TypeOK
  <2> QED
    BY <1>0, <2>3, <2>4, <2>5, OwnerStep
<1>5. ASSUME NEW t \in Threads \ LockUsers, StopListenerProcess(t) PROVE Inv'
  <2>1. \A u \in LockUsers : pc'[u] = pc[u]
    BY <1>0, <1>3, <1>5, OthersKeepPc
  <2> QED
    BY <1>3, <1>5, <2>1, QuietStep
<1>6. ASSUME NEW c \in LockUsers, ClaimStart(c) \/ SessionStart(c) PROVE Inv'
  <2>1. /\ lock = NoThread
        /\ lock' = c
        /\ athread' = athread
        /\ Alive' = Alive
        /\ pc[c] = "idle"
        /\ pc'[c] \notin {"idle", "work"}
        /\ \A u \in LockUsers : u # c => pc'[u] = pc[u]
    BY <1>0, <1>6 DEF ClaimStart, SessionStart, Go, TypeOK, LockUsers,
                      Threads, Alive
  <2>2. \A u \in LockUsers : pc[u] = "idle"
    BY <2>1, ThreadsAssumption DEF LockInv, LockUsers, Threads
  <2> QED
    BY <2>1, <2>2, ThreadsAssumption
       DEF LockInv, AdapterInv, WorkInv, LockUsers, Threads
<1>7. ASSUME NEW t \in LockUsers, Unlock(t) PROVE Inv'
  <2>1. /\ lock' = NoThread
        /\ athread' = athread
        /\ Alive' = Alive
        /\ pc[t] = "unlock"
        /\ pc'[t] = "idle"
        /\ \A u \in LockUsers : u # t => pc'[u] = pc[u]
    BY <1>0, <1>7 DEF Unlock, Go, TypeOK, LockUsers, Threads, Alive
  <2>2. \A u \in LockUsers : u # t => pc[u] = "idle"
    BY <2>1 DEF LockInv
  <2> QED
    BY <2>1, <2>2, ThreadsAssumption
       DEF LockInv, AdapterInv, WorkInv, LockUsers, Threads
<1>8. ASSUME NEW c \in Claimers, ClaimStep(c) \/ AdapterStep(c) PROVE Inv'
  <2>0. c \in LockUsers /\ c \in Threads
    BY DEF LockUsers, Threads
  <2>1. CASE StopListenerProcess(c)
    BY <1>4, <2>0, <2>1
  <2>2. CASE Unlock(c)
    BY <1>7, <2>0, <2>2
  <2>3. CASE ClaimGranted(c)
    <3>1. Alive' = {}
      BY <2>3 DEF ClaimGranted, PortUsers, Alive
    <3>2. \A d \in Claimers : athread'[d] # "none" => pc'[d] = "work"
      BY <1>0, <2>0, <2>3 DEF ClaimGranted, Go, AdapterInv, TypeOK
    <3>3. lock' = lock /\ pc[c] # "idle" /\ Go(c, "work") /\ Alive' \subseteq Alive
      BY <2>3, <3>1 DEF ClaimGranted
    <3> QED
      BY <1>0, <2>0, <3>1, <3>2, <3>3, OwnerStep
  <2>4. CASE ClaimRefused(c) \/ ClaimResumes(c)
    <3>1. PICK l \in {"resume", "unlock"} : Go(c, l)
      BY <2>4 DEF ClaimRefused, ClaimResumes
    <3>2. /\ lock' = lock
          /\ athread' = athread
          /\ pc[c] \notin {"idle", "work"}
          /\ Alive' = Alive
      BY <2>4 DEF ClaimRefused, ClaimResumes, Alive
    <3>3. \A d \in Claimers : athread'[d] # "none" => pc'[d] = "work"
      BY <1>0, <2>0, <3>1, <3>2 DEF Go, AdapterInv, TypeOK
    <3> QED
      BY <1>0, <2>0, <3>1, <3>2, <3>3, OwnerStep
  <2>5. CASE AdapterKilled(c)
    <3>1. \A d \in Claimers : athread'[d] # "none" => pc'[d] = "work"
      BY <2>5 DEF AdapterKilled
    <3>2. /\ lock' = lock
          /\ Go(c, "resume")
          /\ pc[c] # "idle"
          /\ Alive' = Alive
      BY <2>5 DEF AdapterKilled, Alive
    <3> QED
      BY <1>0, <2>0, <3>1, <3>2, OwnerStep
  <2>6. CASE SendTimedOut(c)
    BY <2>6 DEF SendTimedOut
  <2>7. CASE AdapterOpen(c)
    <3>1. pc' = pc /\ lock' = lock /\ Alive' = Alive
      BY <2>7 DEF AdapterOpen, Alive
    <3>2. pc[c] = "work"
      BY <2>7 DEF AdapterOpen, AdapterInv
    <3>3. \A d \in Claimers : athread'[d] # "none" => pc[d] = "work"
      BY <1>0, <2>7, <3>2 DEF AdapterOpen, AdapterInv, TypeOK
    <3> QED
      BY <3>1, <3>3 DEF LockInv, AdapterInv, WorkInv, LockUsers
  <2>8. CASE AdapterAnswers(c)
    <3>1. pc[c] = "work"
      BY <2>8 DEF AdapterAnswers, AdapterInv
    <3>2. lock' = lock /\ Go(c, "resume") /\ Alive' = Alive
      BY <2>8, <3>1 DEF AdapterAnswers, Alive
    <3>3. \A d \in Claimers : athread'[d] # "none" => pc'[d] = "work"
      BY <1>0, <2>0, <2>8, <3>2 DEF AdapterAnswers, AdapterInv, Go, TypeOK
    <3> QED
      BY <1>0, <2>0, <3>1, <3>2, <3>3, OwnerStep
  <2> QED
    BY <1>8, <2>1, <2>2, <2>3, <2>4, <2>5, <2>6, <2>7, <2>8
       DEF ClaimStep, AdapterStep
<1>9. ASSUME NEW s \in Sessions, SessionStep(s) PROVE Inv'
  <2>0. s \in LockUsers /\ s \in Threads /\ s \notin Claimers
    BY ThreadsAssumption DEF LockUsers, Threads
  <2>1. CASE StopListenerProcess(s)
    BY <1>4, <2>0, <2>1
  <2>2. CASE Unlock(s)
    BY <1>7, <2>0, <2>2
  <2>3. CASE SessionGranted(s)
    <3>1. Alive' = {}
      BY <2>3 DEF SessionGranted, PortUsers, Alive
    <3>2. /\ lock' = lock
          /\ pc[s] # "idle"
          /\ Go(s, "work")
          /\ athread' = athread
          /\ Alive' \subseteq Alive
      BY <2>3, <3>1 DEF SessionGranted
    <3>3. \A d \in Claimers : athread'[d] # "none" => pc'[d] = "work"
      BY <1>0, <2>0, <3>2 DEF Go, AdapterInv, TypeOK
    <3> QED
      BY <1>0, <2>0, <3>1, <3>2, <3>3, OwnerStep
  <2>4. CASE SessionAllowed(s) \/ SessionEnds(s) \/ SessionRestores(s)
             \/ SessionResumes(s)
    <3>1. PICK l \in {"pause", "restore", "resume", "unlock"} : Go(s, l)
      BY <2>4 DEF SessionAllowed, SessionEnds, SessionRestores, SessionResumes
    <3>2. /\ lock' = lock
          /\ athread' = athread
          /\ pc[s] # "idle"
          /\ Alive' = Alive
      BY <2>4 DEF SessionAllowed, SessionEnds, SessionRestores,
                  SessionResumes, Alive
    <3>3. \A d \in Claimers : athread'[d] # "none" => pc'[d] = "work"
      BY <1>0, <2>0, <3>1, <3>2 DEF Go, AdapterInv, TypeOK
    <3> QED
      BY <1>0, <2>0, <3>1, <3>2, <3>3, OwnerStep
  <2> QED
    BY <1>9, <2>1, <2>2, <2>3, <2>4 DEF SessionStep
<1>10. ASSUME NEW r \in Restarters \cup Releasers \cup Reconnecters,
              \/ RestartStart(r) \/ RestartResumes(r)
              \/ ReleaseStart(r) \/ ReleaseSucceeds(r)
              \/ ReleaseFails(r) \/ ReleaseError(r)
              \/ ReconnectStart(r) \/ ReconnectResumes(r)
       PROVE  Inv'
  <2>1. r \in Threads \ LockUsers
    BY ThreadsAssumption DEF Threads, LockUsers
  <2>2. /\ lock' = lock
        /\ athread' = athread
        /\ Alive' = Alive
        /\ \E l : Go(r, l)
    BY <1>10 DEF RestartStart, RestartResumes, ReleaseStart, ReleaseSucceeds,
                 ReleaseFails, ReleaseError, ReconnectStart,
                 ReconnectResumes, Alive
  <2>3. \A u \in LockUsers : pc'[u] = pc[u]
    BY <1>0, <2>1, <2>2, OthersKeepPc
  <2> QED
    BY <2>2, <2>3, QuietStep
<1>11. ASSUME NEW r \in Restarters \cup Releasers, StopListenerProcess(r)
       PROVE  Inv'
  <2>1. r \in Threads \ LockUsers
    BY ThreadsAssumption DEF Threads, LockUsers
  <2> QED
    BY <1>5, <1>11, <2>1
<1>12. CASE StatusPoll
  BY <1>12, QuietStep DEF StatusPoll, Alive
<1>13. CASE UNCHANGED vars
  BY <1>13, QuietStep DEF vars, Alive
<1> QED
  BY <1>1, <1>2, <1>6, <1>8, <1>9, <1>10, <1>11, <1>12, <1>13
     DEF Next, RestartStep, ReleaseStep, LockUsers

LEMMA InvImpliesExclusive == LockInv /\ AdapterInv /\ WorkInv => ExclusiveWork
<1> SUFFICES ASSUME LockInv, AdapterInv, WorkInv PROVE ExclusiveWork
  OBVIOUS
<1>1. \A t, u \in LockUsers : pc[t] = "work" /\ pc[u] = "work" => t = u
  BY DEF LockInv
<1>2. ASSUME NEW s \in Sessions, pc[s] = "work" PROVE PortUsers = {s}
  <2>1. Alive = {}
    BY <1>2 DEF WorkInv, LockUsers
  <2>2. \A c \in Claimers : athread[c] # "open"
    BY <1>1, <1>2, ThreadsAssumption DEF AdapterInv, LockUsers
  <2> QED
    BY <1>1, <1>2, <2>1, <2>2 DEF PortUsers, LockUsers
<1>3. ASSUME NEW c \in Claimers, pc[c] = "work"
      PROVE  PortUsers = IF athread[c] = "open" THEN {c} ELSE {}
  <2>1. Alive = {}
    BY <1>3 DEF WorkInv, LockUsers
  <2>2. \A s \in Sessions : pc[s] # "work"
    BY <1>1, <1>3, ThreadsAssumption DEF LockUsers
  <2>3. \A d \in Claimers : athread[d] = "open" => d = c
    BY <1>1, <1>3 DEF AdapterInv, LockUsers
  <2> QED
    BY <2>1, <2>2, <2>3 DEF PortUsers
<1> QED
  BY <1>2, <1>3 DEF ExclusiveWork

\* radio_lock is owned by exactly the thread between acquire and release,
\* and whoever is granted the port (claim_exclusive_access, radio_session)
\* is alone on it, whatever the other threads, the listener's exits and the
\* listeners that survive a kill do.
THEOREM ExclusiveAccess == Senders = {} => (Spec => []ExclusiveWork)
<1> SUFFICES ASSUME Senders = {} PROVE Spec => []ExclusiveWork
  OBVIOUS
<1>1. Init => IInv
  BY InitTypeInv, InitExclusive DEF IInv
<1>2. IInv /\ [Next]_vars => IInv'
  BY NextTypeInv, NextExclusive DEF IInv
<1>3. IInv => ExclusiveWork
  BY InvImpliesExclusive DEF IInv
<1> QED
  BY <1>1, <1>2, <1>3, PTL DEF Spec
=============================================================================
