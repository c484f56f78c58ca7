------------------------ MODULE RadioPortPauseProofs ------------------------
(***************************************************************************)
(* More proofs about RadioPort: what _listen_process and pause_listen mean *)
(* while only lock holders stop the listener, and what a release means to  *)
(* the sessions - for every set of threads and subprocesses.               *)
(***************************************************************************)
EXTENDS RadioPortProofs

\* A thread that goes on moves no other thread.
LEMMA Moves ==
    ASSUME TypeOK, NEW t \in Threads, NEW l, Go(t, l)
    PROVE  pc'[t] = l /\ \A u \in Threads : u # t => pc'[u] = pc[u]
  BY DEF TypeOK, Go

LEMMA HoldersAreThreads == LockUsers \subseteq Threads /\ Releasers \subseteq Threads
  BY DEF LockUsers, Threads

LEMMA AliveType == TypeOK => Alive \subseteq Procs /\ NoProc \notin Alive
  BY ThreadsAssumption DEF TypeOK, Alive

-----------------------------------------------------------------------------
(* Only those who hold the lock stop the listener                          *)

\* No request that stops the listener without the lock, no listener that
\* survives a kill, no send whose timeout is swallowed.
Undisturbed ==
    Senders = {} /\ Restarters = {} /\ Releasers = {} /\ ~KillCanFail

Stopping == {"stop", "kill"}
Stopped == {"forget", "check", "work", "restore", "resume"}

\* Without a release there is nothing to reconnect.
ModeInv == mode = "connected" /\ \A n \in Reconnecters : pc[n] = "idle"

\* A lock holder past the stop has left no listener, and on the way there it
\* knows the only one.
StopInv ==
    \A t \in LockUsers : /\ pc[t] = "kill" => Alive \subseteq {target[t]}
                         /\ pc[t] \in Stopped => Alive = {}

\* A set pause is that of the lock holder.
PauseInv == pause => \E t \in LockUsers : pc[t] \in Stopping \cup Stopped

\* The listener's thread starts the next listener only when there is none.
ListenInv ==
    /\ Alive \subseteq {listenProc}
    /\ lpc = "read" => Alive \subseteq {lproc}
    /\ lpc = "note" => Alive = {} \/ \E t \in LockUsers : pc[t] \in Stopping
    /\ lpc \notin {"read", "note"} => Alive = {}

HolderInv == ModeInv /\ StopInv /\ PauseInv /\ ListenInv

LEMMA HolderInit == Init => HolderInv
<1> SUFFICES ASSUME Init PROVE HolderInv
  OBVIOUS
<1>1. Alive = {}
  BY DEF Init, Alive
<1>2. \A t \in Threads : pc[t] = "idle"
  BY DEF Init
<1>3. \A n \in Reconnecters : n \in Threads
  BY DEF Threads
<1> QED
  BY <1>1, <1>2, <1>3, HoldersAreThreads
     DEF Init, HolderInv, ModeInv, StopInv, PauseInv, ListenInv, Stopped

\* Nobody moves; a listener may have gone.
LEMMA NobodyMoves ==
    ASSUME HolderInv, UNCHANGED <<mode, pc, target, pause, listenProc, lpc, lproc>>,
           Alive' \subseteq Alive
    PROVE  HolderInv'
  BY DEF HolderInv, ModeInv, StopInv, PauseInv, ListenInv

\* The lock holder moves from one label to another.
LEMMA HolderMoves ==
    ASSUME TypeOK, HolderInv, NEW t \in LockUsers, NEW l, Go(t, l),
           UNCHANGED <<mode, lpc, lproc>>, Alive' \subseteq Alive,
           listenProc' = listenProc \/ Alive' = {},
           \A u \in LockUsers : u # t => target'[u] = target[u],
           l = "kill" => Alive' \subseteq {target'[t]},
           l \in Stopped => Alive' = {},
           pc[t] \in Stopping => l \in Stopping \/ Alive' = {},
           pause' => l \in Stopping \cup Stopped \/ (pause /\ pc[t] \notin Stopping \cup Stopped)
    PROVE  HolderInv'
<1>1. pc'[t] = l /\ \A u \in Threads : u # t => pc'[u] = pc[u]
  BY HoldersAreThreads, Moves
<1>2. ModeInv'
  <2>1. \A n \in Reconnecters : n \in Threads /\ n # t
    BY ThreadsAssumption DEF Threads, LockUsers
  <2> QED
    BY <1>1, <2>1 DEF HolderInv, ModeInv
<1>3. StopInv'
  <2> SUFFICES ASSUME NEW u \in LockUsers
               PROVE  /\ pc'[u] = "kill" => Alive' \subseteq {target'[u]}
                      /\ pc'[u] \in Stopped => Alive' = {}
    BY DEF StopInv
  <2>1. CASE u = t
    BY <1>1, <2>1
  <2>2. CASE u # t
    <3>1. pc'[u] = pc[u] /\ target'[u] = target[u]
      BY <1>1, <2>2, HoldersAreThreads
    <3> QED
      BY <3>1 DEF HolderInv, StopInv
  <2> QED
    BY <2>1, <2>2
<1>4. PauseInv'
  <2>1. CASE l \in Stopping \cup Stopped
    BY <1>1, <2>1 DEF PauseInv
  <2>2. CASE pause /\ pc[t] \notin Stopping \cup Stopped
    <3>1. PICK u \in LockUsers : pc[u] \in Stopping \cup Stopped
      BY <2>2 DEF HolderInv, PauseInv
    <3>2. pc'[u] = pc[u]
      BY <1>1, <2>2, <3>1, HoldersAreThreads
    <3> QED
      BY <3>1, <3>2 DEF PauseInv
  <2> QED
    BY <2>1, <2>2 DEF PauseInv
<1>5. ListenInv'
  <2>1. Alive' \subseteq {listenProc'}
    BY DEF HolderInv, ListenInv
  <2>2. ASSUME lpc = "note", Alive' # {} PROVE \E u \in LockUsers : pc'[u] \in Stopping
    <3>1. PICK u \in LockUsers : pc[u] \in Stopping
      BY <2>2 DEF HolderInv, ListenInv
    <3>2. CASE u = t
      BY <1>1, <2>2, <3>1, <3>2
    <3>3. CASE u # t
      BY <1>1, <3>1, <3>3, HoldersAreThreads
    <3> QED
      BY <3>2, <3>3
  <2> QED
    BY <2>1, <2>2 DEF HolderInv, ListenInv
<1> QED
  BY <1>2, <1>3, <1>4, <1>5 DEF HolderInv

\* While the lock is free nobody stops the listener, and no pause is set.
LEMMA FreeLock ==
    ASSUME TypeOK, LockInv, HolderInv, lock = NoThread
    PROVE  /\ \A t \in LockUsers : pc[t] = "idle"
           /\ ~pause
<1>1. \A t \in LockUsers : pc[t] = "idle"
  BY ThreadsAssumption, HoldersAreThreads DEF LockInv
<1> QED
  BY <1>1 DEF HolderInv, PauseInv, Stopping, Stopped

LEMMA ListenerKeeps ==
    ASSUME Undisturbed, TypeOK, LockInv, HolderInv, Listener
    PROVE  HolderInv'
<1>1. CASE ListenerSpawn
  <2>1. PICK p \in Procs : /\ pstate' = [pstate EXCEPT ![p] = "running"]
                           /\ listenProc' = p /\ lproc' = p
    BY <1>1 DEF ListenerSpawn
  <2>2. /\ lock = NoThread /\ lpc = "gate" /\ lpc' = "read"
        /\ mode' = (IF IsReleased THEN mode ELSE "connected")
        /\ UNCHANGED <<pause, pc, target>>
    BY <1>1 DEF ListenerSpawn
  <2>3. Alive = {}
    BY <2>2 DEF HolderInv, ListenInv
  <2>4. Alive' \subseteq {p}
    BY <2>1, <2>3 DEF Alive, TypeOK
  <2>5. \A t \in LockUsers : pc[t] = "idle"
    BY <2>2, FreeLock
  <2> QED
    BY <2>1, <2>2, <2>4, <2>5
       DEF HolderInv, ModeInv, StopInv, PauseInv, ListenInv, IsReleased, Stopped
<1>2. CASE ListenerReport
  <2>1. Alive' \subseteq Alive
    BY <1>2, TerminatedType DEF ListenerReport, Alive, TypeOK
  <2>2. UNCHANGED <<mode, pc, target, pause, listenProc, lproc>> /\ lpc = "report" /\ lpc' = "forget"
    BY <1>2 DEF ListenerReport
  <2> QED
    BY <2>1, <2>2 DEF HolderInv, ModeInv, StopInv, PauseInv, ListenInv
<1>3. CASE ListenerReset \/ ListenerForget
  <2>1. UNCHANGED <<mode, pc, target, pause, pstate>> /\ lpc \in {"reset", "forget"}
        /\ lpc' \notin {"read", "note"}
    BY <1>3 DEF ListenerReset, ListenerForget
  <2>2. Alive = {} /\ Alive' = {}
    BY <2>1 DEF HolderInv, ListenInv, Alive
  <2> QED
    BY <2>1, <2>2 DEF HolderInv, ModeInv, StopInv, PauseInv, ListenInv
<1>4. CASE ListenerTop \/ ListenerGatePaused \/ ListenerSpawnFails \/ ListenerClassify
  <2>1. /\ UNCHANGED <<mode, pc, target, pause, pstate, listenProc, lproc>>
        /\ lpc \notin {"read", "note"} /\ lpc' \notin {"read", "note"}
    BY <1>4 DEF ListenerTop, ListenerGatePaused, ListenerSpawnFails, ListenerClassify
  <2> QED
    BY <2>1 DEF HolderInv, ModeInv, StopInv, PauseInv, ListenInv, Alive
<1>5. CASE ListenerBreak
  <2>1. /\ UNCHANGED <<mode, pc, target, pause, pstate, listenProc, lproc>>
        /\ lpc = "read" /\ lpc' = "note" /\ pause
    BY <1>5 DEF ListenerBreak
  <2>2. Alive = {} \/ \E t \in LockUsers : pc[t] \in Stopping
    BY <2>1 DEF HolderInv, PauseInv, StopInv
  <2> QED
    BY <2>1, <2>2 DEF HolderInv, ModeInv, StopInv, PauseInv, ListenInv, Alive
<1>6. CASE ListenerEof
  <2>1. /\ UNCHANGED <<mode, pc, target, pause, pstate, listenProc, lproc>>
        /\ lpc = "read" /\ lpc' = "note" /\ pstate[lproc] # "running"
    BY <1>6 DEF ListenerEof
  <2>2. Alive = {}
    BY <2>1 DEF HolderInv, ListenInv, Alive
  <2> QED
    BY <2>1, <2>2 DEF HolderInv, ModeInv, StopInv, PauseInv, ListenInv, Alive
<1>7. CASE ListenerNote
  <2>1. /\ UNCHANGED <<mode, pc, target, pause, pstate, listenProc, lproc>>
        /\ lpc = "note" /\ lpc' = "classify" /\ lock = NoThread
    BY <1>7 DEF ListenerNote
  <2>2. Alive = {}
    BY <2>1, FreeLock DEF HolderInv, ListenInv, Stopping
  <2> QED
    BY <2>1, <2>2 DEF HolderInv, ModeInv, StopInv, PauseInv, ListenInv, Alive
<1> QED
  BY <1>1, <1>2, <1>3, <1>4, <1>5, <1>6, <1>7 DEF Listener

LEMMA StopKeeps ==
    ASSUME Undisturbed, TypeOK, HolderInv, NEW t \in LockUsers, StopListenerProcess(t)
    PROVE  HolderInv'
<1>1. t \notin Restarters /\ t \notin Releasers
  BY DEF Undisturbed
<1>2. \A b \in BOOLEAN : AfterStop(t, b) = "check"
  BY <1>1 DEF AfterStop
<1>3. CASE PauseListener(t)
  <2>1. /\ Go(t, "stop") /\ pc[t] = "pause"
        /\ UNCHANGED <<mode, lpc, lproc, listenProc, target, pstate>>
    BY <1>3 DEF PauseListener, listenerVars
  <2>2. Alive' = Alive
    BY <2>1 DEF Alive
  <2> QED
    BY <2>1, <2>2, HolderMoves DEF Stopping, Stopped
<1>4. CASE ReadListenProcess(t)
  <2>1. /\ pc[t] = "stop" /\ target' = [target EXCEPT ![t] = listenProc]
        /\ UNCHANGED <<mode, lpc, lproc, listenProc, pstate, pause>>
        /\ Go(t, IF listenProc = NoProc THEN "check" ELSE "kill")
    BY <1>2, <1>4 DEF ReadListenProcess, listenerVars
  <2>2. Alive' = Alive /\ Alive \subseteq {listenProc}
    BY <2>1 DEF Alive, HolderInv, ListenInv
  <2>3. target'[t] = listenProc /\ \A u \in LockUsers : u # t => target'[u] = target[u]
    BY <2>1, HoldersAreThreads DEF TypeOK
  <2>4. CASE listenProc = NoProc
    <3>1. Alive = {} /\ Go(t, "check")
      BY <2>1, <2>2, <2>4, AliveType
    <3> QED
      BY <2>1, <2>2, <2>3, <3>1, HolderMoves DEF Stopping, Stopped
  <2>5. CASE listenProc # NoProc
    <3>1. Go(t, "kill")
      BY <2>1, <2>5
    <3> QED
      BY <2>1, <2>2, <2>3, <3>1, HolderMoves DEF Stopping, Stopped
  <2> QED
    BY <2>4, <2>5
<1>5. CASE KillListener(t)
  <2>1. /\ pc[t] = "kill" /\ Go(t, "forget") /\ Terminated(target[t], pstate')
        /\ UNCHANGED <<mode, lpc, lproc, listenProc, target, pause>>
    BY <1>5 DEF KillListener, listenerVars
  <2>2. Alive \subseteq {target[t]}
    BY <2>1 DEF HolderInv, StopInv
  <2>3. Alive' = {}
    BY <2>1, <2>2, AliveType DEF Terminated, Undisturbed, Alive, TypeOK
  <2> QED
    BY <2>1, <2>3, HolderMoves DEF Stopping, Stopped
<1>6. CASE ForgetListener(t)
  <2>1. /\ pc[t] = "forget" /\ target' = [target EXCEPT ![t] = NoProc]
        /\ UNCHANGED <<mode, lpc, lproc, pstate, pause>>
        /\ Go(t, "check")
    <3>1. PICK b \in BOOLEAN : b = (pstate[target[t]] # "running")
      OBVIOUS
    <3> QED
      BY <1>2, <1>6, <3>1 DEF ForgetListener, listenerVars
  <2>2. Alive' = {} /\ Alive = {}
    BY <2>1 DEF Alive, HolderInv, StopInv, Stopped
  <2>3. \A u \in LockUsers : u # t => target'[u] = target[u]
    BY <2>1, HoldersAreThreads DEF TypeOK
  <2> QED
    BY <2>1, <2>2, <2>3, HolderMoves DEF Stopping, Stopped
<1> QED
  BY <1>3, <1>4, <1>5, <1>6 DEF StopListenerProcess

LEMMA ClaimKeeps ==
    ASSUME Undisturbed, TypeOK, HolderInv, NEW c \in Claimers,
           ClaimStart(c) \/ ClaimStep(c) \/ AdapterStep(c)
    PROVE  HolderInv'
<1>0. c \in LockUsers
  BY DEF LockUsers
<1>1. CASE StopListenerProcess(c)
  BY <1>0, <1>1, StopKeeps
<1>2. CASE AdapterOpen(c) \/ (AdapterAnswers(c) /\ pc[c] # "work")
  BY <1>2, NobodyMoves DEF AdapterOpen, AdapterAnswers, listenerVars, Alive
<1>3. CASE \/ ClaimStart(c) \/ ClaimGranted(c) \/ ClaimRefused(c) \/ AdapterKilled(c)
           \/ ClaimResumes(c) \/ Unlock(c) \/ (AdapterAnswers(c) /\ pc[c] = "work")
  <2>1. UNCHANGED <<mode, lpc, lproc, listenProc, target, pstate>>
    BY <1>3 DEF ClaimStart, ClaimGranted, ClaimRefused, AdapterKilled, ClaimResumes, Unlock,
                AdapterAnswers, listenerVars
  <2>2. Alive' = Alive
    BY <2>1 DEF Alive
  <2>3. /\ pc[c] \in Stopped => Alive = {}
    BY <1>0 DEF HolderInv, StopInv
  <2>4. CASE ClaimStart(c)
    <3>1. pc[c] = "idle" /\ Go(c, "pause") /\ pause' = pause
      BY <2>4 DEF ClaimStart
    <3> QED
      BY <1>0, <2>1, <2>2, <3>1, HolderMoves DEF Stopping, Stopped
  <2>5. CASE ClaimGranted(c)
    <3>1. pc[c] = "check" /\ Go(c, "work") /\ pause' = pause
      BY <2>5 DEF ClaimGranted
    <3> QED
      BY <1>0, <2>1, <2>2, <2>3, <3>1, HolderMoves DEF Stopping, Stopped
  <2>6. CASE ClaimRefused(c) \/ AdapterKilled(c) \/ (AdapterAnswers(c) /\ pc[c] = "work")
    <3>1. pc[c] \in {"check", "work"} /\ Go(c, "resume") /\ pause' = pause
      BY <2>6 DEF ClaimRefused, AdapterKilled, AdapterAnswers
    <3> QED
      BY <1>0, <2>1, <2>2, <2>3, <3>1, HolderMoves DEF Stopping, Stopped
  <2>7. CASE ClaimResumes(c)
    <3>1. pc[c] = "resume" /\ Go(c, "unlock") /\ pause' = FALSE
      BY <2>7 DEF ClaimResumes
    <3> QED
      BY <1>0, <2>1, <2>2, <2>3, <3>1, HolderMoves DEF Stopping, Stopped
  <2>8. CASE Unlock(c)
    <3>1. pc[c] = "unlock" /\ Go(c, "idle") /\ pause' = pause
      BY <2>8 DEF Unlock
    <3> QED
      BY <1>0, <2>1, <2>2, <3>1, HolderMoves DEF Stopping, Stopped
  <2> QED
    BY <1>3, <2>4, <2>5, <2>6, <2>7, <2>8
<1>4. ~SendTimedOut(c)
  BY DEF SendTimedOut, Undisturbed
<1> QED
  BY <1>1, <1>2, <1>3, <1>4 DEF ClaimStep, AdapterStep

LEMMA SessionKeeps ==
    ASSUME Undisturbed, TypeOK, HolderInv, NEW s \in Sessions,
           SessionStart(s) \/ SessionStep(s)
    PROVE  HolderInv'
<1>0. s \in LockUsers /\ mode = "connected" /\ CommandsAllowed
  BY DEF LockUsers, HolderInv, ModeInv, CommandsAllowed
<1>1. CASE StopListenerProcess(s)
  BY <1>0, <1>1, StopKeeps
<1>2. CASE \/ SessionStart(s) \/ SessionAllowed(s) \/ SessionGranted(s) \/ SessionEnds(s)
           \/ SessionRestores(s) \/ SessionResumes(s) \/ Unlock(s)
  <2>1. UNCHANGED <<mode, lpc, lproc, listenProc, target, pstate>>
    BY <1>2 DEF SessionStart, SessionAllowed, SessionGranted, SessionEnds, SessionRestores,
                SessionResumes, Unlock, listenerVars
  <2>2. Alive' = Alive
    BY <2>1 DEF Alive
  <2>3. pc[s] \in Stopped => Alive = {}
    BY <1>0 DEF HolderInv, StopInv
  <2>4. CASE SessionStart(s) \/ SessionAllowed(s)
    <3>1. PICK l \in {"allowed", "pause"} : Go(s, l)
      BY <1>0, <2>4 DEF SessionStart, SessionAllowed
    <3>2. pc[s] \in {"idle", "allowed"} /\ pause' = pause
      BY <2>4 DEF SessionStart, SessionAllowed
    <3> QED
      BY <1>0, <2>1, <2>2, <3>1, <3>2, HolderMoves DEF Stopping, Stopped
  <2>5. CASE SessionGranted(s) \/ SessionEnds(s) \/ SessionRestores(s)
    <3>1. PICK l \in {"work", "restore", "resume"} : Go(s, l)
      BY <1>0, <2>5 DEF SessionGranted, SessionEnds, SessionRestores
    <3>2. pc[s] \in {"check", "work", "restore"} /\ pause' = pause
      BY <2>5 DEF SessionGranted, SessionEnds, SessionRestores
    <3> QED
      BY <1>0, <2>1, <2>2, <2>3, <3>1, <3>2, HolderMoves DEF Stopping, Stopped
  <2>6. CASE SessionResumes(s)
    <3>1. pc[s] = "resume" /\ Go(s, "unlock") /\ pause' = FALSE
      BY <2>6 DEF SessionResumes
    <3> QED
      BY <1>0, <2>1, <2>2, <2>3, <3>1, HolderMoves DEF Stopping, Stopped
  <2>7. CASE Unlock(s)
    <3>1. pc[s] = "unlock" /\ Go(s, "idle") /\ pause' = pause
      BY <2>7 DEF Unlock
    <3> QED
      BY <1>0, <2>1, <2>2, <3>1, HolderMoves DEF Stopping, Stopped
  <2> QED
    BY <1>2, <2>4, <2>5, <2>6, <2>7
<1> QED
  BY <1>1, <1>2 DEF SessionStep

LEMMA HolderNext ==
    ASSUME Undisturbed, TypeOK, LockInv, HolderInv, [Next]_vars
    PROVE  HolderInv'
<1>1. CASE Listener
  BY <1>1, ListenerKeeps
<1>2. ASSUME NEW p \in Procs, ListenerExits(p) PROVE HolderInv'
  <2>1. Alive' \subseteq Alive
    BY <1>2 DEF ListenerExits, Alive, TypeOK
  <2> QED
    BY <1>2, <2>1, NobodyMoves DEF ListenerExits, listenerVars
<1>3. ASSUME NEW c \in Claimers, ClaimStart(c) \/ ClaimStep(c) \/ AdapterStep(c)
      PROVE  HolderInv'
  BY <1>3, ClaimKeeps
<1>4. ASSUME NEW s \in Sessions, SessionStart(s) \/ SessionStep(s) PROVE HolderInv'
  BY <1>4, SessionKeeps
<1>5. ASSUME NEW n \in Reconnecters PROVE ~ReconnectStart(n) /\ ~ReconnectResumes(n)
  BY <1>5 DEF ReconnectStart, ReconnectResumes, HolderInv, ModeInv
<1>6. ~StatusPoll
  BY DEF StatusPoll, HolderInv, ModeInv
<1>7. CASE UNCHANGED vars
  BY <1>7, NobodyMoves DEF vars, Alive
<1> QED
  BY <1>1, <1>2, <1>3, <1>4, <1>5, <1>6, <1>7 DEF Next, Undisturbed

LEMMA Together ==
    ASSUME Undisturbed
    PROVE  /\ Init => IInv /\ HolderInv
           /\ IInv /\ HolderInv /\ [Next]_vars => IInv' /\ HolderInv'
<1>1. Init => IInv /\ HolderInv
  BY InitTypeInv, InitExclusive, HolderInit DEF IInv
<1>2. IInv /\ [Next]_vars => IInv'
  BY NextTypeInv, NextExclusive DEF IInv, Undisturbed
<1>3. IInv /\ HolderInv /\ [Next]_vars => HolderInv'
  BY HolderNext DEF IInv, TypeInv
<1> QED
  BY <1>1, <1>2, <1>3

LEMMA OneUser == ASSUME IInv, HolderInv PROVE OnePortUser
<1> SUFFICES ASSUME NEW u \in PortUsers, NEW v \in PortUsers PROVE u = v
  BY DEF OnePortUser
<1>1. Alive \subseteq {listenProc}
  BY DEF HolderInv, ListenInv
<1>2. CASE \E t \in LockUsers : pc[t] = "work"
  <2>1. PICK t \in LockUsers : pc[t] = "work"
    BY <1>2
  <2>2. ExclusiveWork
    BY InvImpliesExclusive DEF IInv
  <2>3. PortUsers \subseteq {t}
    BY <2>1, <2>2 DEF ExclusiveWork, LockUsers
  <2> QED
    BY <2>3
<1>3. CASE ~ \E t \in LockUsers : pc[t] = "work"
  <2>1. PortUsers = Alive
    BY <1>3 DEF PortUsers, IInv, AdapterInv, LockUsers
  <2> QED
    BY <1>1, <2>1
<1> QED
  BY <1>2, <1>3

\* Where only lock holders stop the listener and a kill works, the node never
\* sees two programs on its serial port, for any number of commands, sessions
\* and listener crashes (serial_port_supervisor.py:60-231, server.py's
\* radio_session).
THEOREM OneUserOfThePort == Undisturbed => (Spec => []OnePortUser)
<1> SUFFICES ASSUME Undisturbed PROVE Spec => []OnePortUser
  OBVIOUS
<1>1. IInv /\ HolderInv => OnePortUser
  BY OneUser
<1> QED
  BY <1>1, Together, PTL DEF Spec

\* Under the same conditions the pause that keeps the listener away is always
\* that of a thread on its way to lifting it ...
THEOREM PauseIsOwned == Undisturbed => (Spec => []PauseHasOwner)
<1> SUFFICES ASSUME Undisturbed PROVE Spec => []PauseHasOwner
  OBVIOUS
<1>1. HolderInv => PauseHasOwner
  BY HoldersAreThreads DEF HolderInv, PauseInv, PauseHasOwner, Stopping, Stopped
<1> QED
  BY <1>1, Together, PTL DEF Spec

\* ... and the next stop reaches the listener that is being read.
THEOREM ListenerIsReached == Undisturbed => (Spec => []ListenerReachable)
<1> SUFFICES ASSUME Undisturbed PROVE Spec => []ListenerReachable
  OBVIOUS
<1>1. IInv /\ HolderInv => ListenerReachable
  BY DEF IInv, TypeInv, ProcInv, HolderInv, ListenInv, ListenerReachable, Alive
<1> QED
  BY <1>1, Together, PTL DEF Spec

-----------------------------------------------------------------------------
(* The port is granted, opened and left as PortArbiter says                *)

\* One thread at most is granted the port, the others have closed it, and
\* between grants only the listener may be on it.
GrantInv ==
    /\ \A t \in LockUsers : pc[t] = "work" =>
          Working = {t} /\ Alive = {} /\ PortUsers \subseteq {t}
    /\ Working = {} => PortUsers = Alive
    /\ Alive \subseteq {listenProc}

LEMMA Granted == IInv /\ HolderInv => GrantInv
<1> SUFFICES ASSUME IInv, HolderInv PROVE GrantInv
  OBVIOUS
<1>1. ASSUME NEW t \in LockUsers, pc[t] = "work"
      PROVE  Working = {t} /\ Alive = {} /\ PortUsers \subseteq {t}
  <2>1. \A u \in LockUsers : pc[u] = "work" => u = t
    BY <1>1 DEF IInv, LockInv
  <2>2. Working = {t}
    BY <1>1, <2>1 DEF Working, LockUsers
  <2>3. Alive = {}
    BY <1>1 DEF IInv, WorkInv
  <2>4. ExclusiveWork
    BY InvImpliesExclusive DEF IInv
  <2>5. PortUsers \subseteq {t}
    BY <1>1, <2>4 DEF ExclusiveWork, LockUsers
  <2> QED
    BY <2>2, <2>3, <2>5
<1>2. ASSUME Working = {} PROVE PortUsers = Alive
  <2>1. \A t \in LockUsers : pc[t] # "work"
    BY <1>2 DEF Working, LockUsers
  <2> QED
    BY <2>1 DEF PortUsers, IInv, AdapterInv, LockUsers
<1>3. Alive \subseteq {listenProc}
  BY DEF HolderInv, ListenInv
<1> QED
  BY <1>1, <1>2, <1>3 DEF GrantInv

\* Nobody gets the port, opens it, closes it or gives it back.
LEMMA PortStands ==
    ASSUME UNCHANGED <<pstate, athread>>,
           \A u \in LockUsers : (pc'[u] = "work") <=> (pc[u] = "work")
    PROVE  UNCHANGED <<Working, PortUsers>>
<1>1. Working' = Working
  BY DEF Working, LockUsers
<1>2. Alive' = Alive
  BY DEF Alive
<1>3. {c \in Claimers : athread'[c] = "open"} = {c \in Claimers : athread[c] = "open"}
  OBVIOUS
<1>4. {s \in Sessions : pc'[s] = "work"} = {s \in Sessions : pc[s] = "work"}
  BY DEF LockUsers
<1> QED
  BY <1>1, <1>2, <1>3, <1>4 DEF PortUsers

LEMMA ElsewhereStands ==
    ASSUME TypeOK, NEW t \in LockUsers, NEW l, Go(t, l), pc[t] # "work", l # "work",
           UNCHANGED <<pstate, athread>>
    PROVE  UNCHANGED <<Working, PortUsers>>
<1>1. \A u \in LockUsers : (pc'[u] = "work") <=> (pc[u] = "work")
  BY HoldersAreThreads, Moves
<1> QED
  BY <1>1, PortStands

\* The check has found nobody on the port.
LEMMA GrantStep ==
    ASSUME TypeOK, GrantInv, GrantInv', NEW t \in LockUsers, Go(t, "work"), PortUsers = {},
           pc[t] # "work"
    PROVE  Arbiter!Grant(t)
<1>1. pc'[t] = "work" /\ \A u \in LockUsers : u # t => pc'[u] = pc[u]
  BY HoldersAreThreads, Moves
<1>2. Working' = {t} /\ PortUsers' \subseteq {t}
  BY <1>1 DEF GrantInv
<1>3. Working = {}
  <2> SUFFICES ASSUME NEW u \in Working PROVE FALSE
    OBVIOUS
  <2>1. u \in LockUsers /\ pc[u] = "work"
    BY DEF Working, LockUsers
  <2>2. u \in Working'
    BY <1>1, <2>1 DEF Working, LockUsers
  <2> QED
    BY <1>2, <2>1, <2>2
<1> QED
  BY <1>2, <1>3 DEF Arbiter!Grant, Arbiter!Free

\* Whoever leaves its work has closed the port.
LEMMA GiveBackStep ==
    ASSUME TypeOK, GrantInv, GrantInv', NEW t \in LockUsers, NEW l, Go(t, l), l # "work",
           pc[t] = "work", pstate' = pstate
    PROVE  Arbiter!GiveBack(t)
<1>1. pc'[t] = l /\ \A u \in LockUsers : u # t => pc'[u] = pc[u]
  BY HoldersAreThreads, Moves
<1>2. Working = {t} /\ Alive = {}
  BY DEF GrantInv
<1>3. Working' = {}
  <2> SUFFICES ASSUME NEW u \in Working' PROVE FALSE
    OBVIOUS
  <2>1. u \in LockUsers /\ pc'[u] = "work"
    BY DEF Working, LockUsers
  <2>2. u \in Working /\ u # t
    BY <1>1, <2>1 DEF Working, LockUsers
  <2> QED
    BY <1>2, <2>2
<1>4. PortUsers' = {}
  <2>1. Alive' = {}
    BY <1>2 DEF Alive
  <2> QED
    BY <1>3, <2>1 DEF GrantInv
<1> QED
  BY <1>2, <1>3, <1>4 DEF Arbiter!GiveBack

\* The listener goes, or nobody was there to go.
LEMMA LeaveStep ==
    ASSUME GrantInv, GrantInv', Alive' \subseteq Alive, Alive \subseteq Procs,
           athread' = athread,
           \A u \in LockUsers : (pc'[u] = "work") <=> (pc[u] = "work")
    PROVE  UNCHANGED <<Working, PortUsers>> \/ \E p \in Procs : Arbiter!Leave(p)
<1>1. Working' = Working
  BY DEF Working, LockUsers
<1>2. CASE Alive' = Alive
  <2>1. {s \in Sessions : pc'[s] = "work"} = {s \in Sessions : pc[s] = "work"}
    BY DEF LockUsers
  <2> QED
    BY <1>1, <1>2, <2>1 DEF PortUsers
<1>3. CASE Alive' # Alive
  <2>1. PICK p \in Procs : Alive = {p} /\ Alive' = {}
    BY <1>3 DEF GrantInv
  <2>2. Working = {}
    <3> SUFFICES ASSUME NEW u \in Working PROVE FALSE
      OBVIOUS
    <3>1. u \in LockUsers /\ pc[u] = "work"
      BY DEF Working, LockUsers
    <3> QED
      BY <2>1, <3>1 DEF GrantInv
  <2>3. PortUsers = {p} /\ PortUsers' = {}
    BY <1>1, <2>1, <2>2 DEF GrantInv
  <2> QED
    BY <1>1, <2>1, <2>2, <2>3 DEF Arbiter!Leave
<1> QED
  BY <1>2, <1>3

LEMMA StopArbitrates ==
    ASSUME TypeOK, GrantInv, GrantInv', NEW t \in LockUsers, StopListenerProcess(t)
    PROVE  UNCHANGED <<Working, PortUsers>> \/ \E p \in Procs : Arbiter!Leave(p)
<1>1. athread' = athread
  BY DEF StopListenerProcess, PauseListener, ReadListenProcess, KillListener, ForgetListener
<1>2. CASE KillListener(t)
  <2>1. pc[t] = "kill" /\ Go(t, "forget") /\ Terminated(target[t], pstate')
    BY <1>2 DEF KillListener
  <2>2. target[t] \in Procs \cup {NoProc}
    BY HoldersAreThreads DEF TypeOK
  <2>3. Alive' \subseteq Alive
    BY <2>1, <2>2, TerminatedType
  <2>4. \A u \in LockUsers : (pc'[u] = "work") <=> (pc[u] = "work")
    BY <2>1, HoldersAreThreads, Moves
  <2> QED
    BY <1>1, <2>3, <2>4, LeaveStep, AliveType
<1>3. CASE PauseListener(t) \/ ReadListenProcess(t) \/ ForgetListener(t)
  <2>1. \A b \in BOOLEAN : AfterStop(t, b) # "work"
    BY DEF AfterStop
  <2>2. pc[t] # "work" /\ pstate' = pstate
    BY <1>3 DEF PauseListener, ReadListenProcess, ForgetListener
  <2>3. PICK l : Go(t, l) /\ l # "work"
    <3>1. CASE ForgetListener(t)
      <4>1. PICK b \in BOOLEAN : b = (pstate[target[t]] # "running")
        OBVIOUS
      <4> QED
        BY <2>1, <3>1, <4>1 DEF ForgetListener
    <3>2. CASE PauseListener(t)
      BY <3>2 DEF PauseListener
    <3>3. CASE ReadListenProcess(t)
      <4>1. Go(t, IF listenProc = NoProc THEN AfterStop(t, TRUE) ELSE "kill")
        BY <3>3 DEF ReadListenProcess
      <4>2. (IF listenProc = NoProc THEN AfterStop(t, TRUE) ELSE "kill") # "work"
        BY <2>1
      <4> QED
        BY <4>1, <4>2
    <3> QED
      BY <1>3, <3>1, <3>2, <3>3
  <2> QED
    BY <1>1, <2>2, <2>3, ElsewhereStands
<1> QED
  BY <1>2, <1>3 DEF StopListenerProcess

LEMMA ClaimArbitrates ==
    ASSUME TypeOK, AdapterInv, GrantInv, GrantInv', NEW c \in Claimers,
           ClaimStart(c) \/ ClaimStep(c) \/ AdapterStep(c), Senders = {}
    PROVE  [Arbiter!Next]_<<Working, PortUsers>>
<1>0. c \in LockUsers
  BY DEF LockUsers
<1>1. CASE StopListenerProcess(c)
  BY <1>0, <1>1, StopArbitrates DEF Arbiter!Next
<1>2. CASE ClaimStart(c) \/ ClaimRefused(c) \/ ClaimResumes(c) \/ Unlock(c)
  <2>1. PICK l \in {"pause", "resume", "unlock", "idle"} : Go(c, l)
    BY <1>2 DEF ClaimStart, ClaimRefused, ClaimResumes, Unlock
  <2>2. pc[c] # "work" /\ UNCHANGED <<pstate, athread>>
    BY <1>2 DEF ClaimStart, ClaimRefused, ClaimResumes, Unlock
  <2> QED
    BY <1>0, <2>1, <2>2, ElsewhereStands
<1>3. CASE ClaimGranted(c)
  <2>1. pc[c] = "check" /\ PortUsers = {} /\ Go(c, "work")
    BY <1>3 DEF ClaimGranted
  <2> QED
    BY <1>0, <2>1, GrantStep DEF Arbiter!Next
<1>4. CASE AdapterOpen(c)
  <2>1. /\ athread[c] = "waiting" /\ athread' = [athread EXCEPT ![c] = "open"]
        /\ PortUsers = {} /\ pc' = pc
    BY <1>4 DEF AdapterOpen
  <2>2. pc[c] = "work" /\ pc'[c] = "work"
    BY <2>1 DEF AdapterInv
  <2>3. Working = {c} /\ Working' = {c} /\ PortUsers' \subseteq {c}
    BY <1>0, <2>2 DEF GrantInv
  <2>4. c \in PortUsers'
    BY <2>1 DEF PortUsers, TypeOK
  <2>5. Arbiter!Open(c)
    BY <2>1, <2>3, <2>4 DEF Arbiter!Open
  <2> QED
    BY <2>5 DEF Arbiter!Next
<1>5. CASE AdapterAnswers(c) \/ AdapterKilled(c)
  <2>1. pc[c] = "work" /\ pstate' = pstate /\ Go(c, "resume")
    BY <1>5 DEF AdapterAnswers, AdapterKilled, AdapterInv
  <2> QED
    BY <1>0, <2>1, GiveBackStep DEF Arbiter!Next
<1>6. ~SendTimedOut(c)
  BY DEF SendTimedOut
<1> QED
  BY <1>1, <1>2, <1>3, <1>4, <1>5, <1>6 DEF ClaimStep, AdapterStep

LEMMA SessionArbitrates ==
    ASSUME TypeOK, GrantInv, GrantInv', NEW s \in Sessions,
           SessionStart(s) \/ SessionStep(s)
    PROVE  [Arbiter!Next]_<<Working, PortUsers>>
<1>0. s \in LockUsers
  BY DEF LockUsers
<1>1. CASE StopListenerProcess(s)
  BY <1>0, <1>1, StopArbitrates DEF Arbiter!Next
<1>2. CASE \/ SessionStart(s) \/ SessionAllowed(s) \/ SessionRestores(s)
           \/ SessionResumes(s) \/ Unlock(s) \/ (SessionEnds(s) /\ pc[s] # "work")
  <2>1. PICK l \in {"allowed", "pause", "restore", "resume", "unlock", "idle"} : Go(s, l)
    BY <1>2 DEF SessionStart, SessionAllowed, SessionRestores, SessionResumes, Unlock,
                SessionEnds
  <2>2. pc[s] # "work" /\ UNCHANGED <<pstate, athread>>
    BY <1>2 DEF SessionStart, SessionAllowed, SessionRestores, SessionResumes, Unlock,
                SessionEnds
  <2> QED
    BY <1>0, <2>1, <2>2, ElsewhereStands
<1>3. CASE SessionGranted(s)
  <2>1. pc[s] = "check" /\ PortUsers = {} /\ Go(s, "work")
    BY <1>3 DEF SessionGranted
  <2> QED
    BY <1>0, <2>1, GrantStep DEF Arbiter!Next
<1>4. CASE SessionEnds(s) /\ pc[s] = "work"
  <2>1. pc[s] = "work" /\ pstate' = pstate /\ Go(s, "restore")
    BY <1>4 DEF SessionEnds
  <2> QED
    BY <1>0, <2>1, GiveBackStep DEF Arbiter!Next
<1> QED
  BY <1>1, <1>2, <1>3, <1>4 DEF SessionStep

LEMMA ListenerArbitrates ==
    ASSUME TypeInv, LockInv, HolderInv, GrantInv, GrantInv',
           Listener \/ \E p \in Procs : ListenerExits(p)
    PROVE  [Arbiter!Next]_<<Working, PortUsers>>
<1>1. CASE ListenerSpawn
  <2>1. PICK p \in Procs : pstate' = [pstate EXCEPT ![p] = "running"]
    BY <1>1 DEF ListenerSpawn
  <2>2. lpc = "gate" /\ lock = NoThread /\ pc' = pc
    BY <1>1 DEF ListenerSpawn
  <2>3. Alive = {} /\ \A t \in LockUsers : pc[t] = "idle"
    BY <2>2, FreeLock DEF HolderInv, ListenInv, TypeInv
  <2>4. Working = {} /\ Working' = {}
    BY <2>2, <2>3 DEF Working, LockUsers
  <2>5. Alive' = {p}
    BY <2>1, <2>3 DEF Alive, TypeInv, TypeOK
  <2>6. PortUsers = {} /\ PortUsers' = {p}
    BY <2>3, <2>4, <2>5 DEF GrantInv
  <2> QED
    BY <2>4, <2>6 DEF Arbiter!Next, Arbiter!Listen, Arbiter!Free
<1>2. CASE ListenerReport \/ \E p \in Procs : ListenerExits(p)
  <2>1. UNCHANGED <<pc, athread>>
    BY <1>2 DEF ListenerReport, ListenerExits
  <2>2. Alive' \subseteq Alive
    <3>1. CASE ListenerReport
      BY <3>1, TerminatedType DEF ListenerReport, Alive, TypeInv, TypeOK
    <3>2. CASE \E p \in Procs : ListenerExits(p)
      BY <3>2 DEF ListenerExits, Alive, TypeInv, TypeOK
    <3> QED
      BY <1>2, <3>1, <3>2
  <2> QED
    BY <2>1, <2>2, LeaveStep, AliveType DEF Arbiter!Next, TypeInv
<1>3. CASE Listener /\ ~ListenerSpawn /\ ~ListenerReport
  <2>1. UNCHANGED <<pc, athread, pstate>>
    BY <1>3 DEF Listener, ListenerTop, ListenerReset, ListenerGatePaused,
       ListenerSpawnFails, ListenerBreak, ListenerEof, ListenerNote, ListenerClassify,
       ListenerForget
  <2> QED
    BY <2>1, PortStands
<1> QED
  BY <1>1, <1>2, <1>3

\* Where only lock holders stop the listener and a kill works, the lock, the
\* pause and the pointers of the serial port's supervisor implement PortArbiter:
\* every step of a command, a session or the listener grants, opens, gives back
\* or leaves the port as that specification allows, or leaves it as it is
\* (serial_port_supervisor.py:60-231, server.py's radio_session, run_listener).
THEOREM ImplementsArbiter == Undisturbed => (Spec => ArbiterSpec)
<1> SUFFICES ASSUME Undisturbed PROVE Spec => ArbiterSpec
  OBVIOUS
<1>1. Init => Arbiter!Init
  <2> SUFFICES ASSUME Init PROVE Arbiter!Init
    OBVIOUS
  <2>1. \A t \in Claimers \cup Sessions : pc[t] = "idle"
    BY DEF Init, Threads
  <2> QED
    BY <2>1 DEF Init, Arbiter!Init, Working, PortUsers, Alive
<1>2. ASSUME IInv, HolderInv, GrantInv, GrantInv', [Next]_vars
      PROVE  [Arbiter!Next]_<<Working, PortUsers>>
  <2>1. CASE Listener \/ \E p \in Procs : ListenerExits(p)
    BY <1>2, <2>1, ListenerArbitrates DEF IInv
  <2>2. ASSUME NEW c \in Claimers, ClaimStart(c) \/ ClaimStep(c) \/ AdapterStep(c)
        PROVE  [Arbiter!Next]_<<Working, PortUsers>>
    BY <1>2, <2>2, ClaimArbitrates DEF IInv, TypeInv, Undisturbed
  <2>3. ASSUME NEW s \in Sessions, SessionStart(s) \/ SessionStep(s)
        PROVE  [Arbiter!Next]_<<Working, PortUsers>>
    BY <1>2, <2>3, SessionArbitrates DEF IInv, TypeInv
  <2>4. ASSUME NEW n \in Reconnecters PROVE ~ReconnectStart(n) /\ ~ReconnectResumes(n)
    BY <1>2, <2>4 DEF ReconnectStart, ReconnectResumes, HolderInv, ModeInv
  <2>5. ~StatusPoll
    BY <1>2 DEF StatusPoll, HolderInv, ModeInv
  <2>6. CASE UNCHANGED vars
    BY <2>6, PortStands DEF vars
  <2> QED
    BY <1>2, <2>1, <2>2, <2>3, <2>4, <2>5, <2>6 DEF Next, Undisturbed
<1> QED
  BY <1>1, <1>2, Together, Granted, PTL DEF Spec, ArbiterSpec, Arbiter!Spec, Arbiter!portVars

-----------------------------------------------------------------------------
(* A release, and the sessions                                             *)

Outside == {"idle", "allowed", "restore", "unlock"}

\* One release at a time, and from its look at the listener - which waits for
\* the lock - to the reconnect every session is outside its block.
ReleaseInv ==
    /\ \A r \in Releasers : pc[r] # "idle" => mode = "releasing"
    /\ \A r, q \in Releasers : pc[r] # "idle" /\ pc[q] # "idle" => r = q
    /\ mode = "released" \/ (\E r \in Releasers : pc[r] \in {"kill", "forget", "check"})
          => \A s \in Sessions : pc[s] \in Outside

LEMMA ReleaseQuiet ==
    ASSUME ReleaseInv, UNCHANGED <<pc, mode>>
    PROVE  ReleaseInv'
  BY DEF ReleaseInv

\* The mode changes while no release is under way.
LEMMA ModeMoves ==
    ASSUME ReleaseInv, mode # "releasing", mode' # "released",
           \A t \in Releasers : pc'[t] = pc[t]
    PROVE  ReleaseInv'
  BY DEF ReleaseInv

\* Somebody else moves; a session that is outside does not get in.
LEMMA OtherMoves ==
    ASSUME TypeOK, ReleaseInv, mode' = mode, NEW t \in Threads \ Releasers, NEW l, Go(t, l),
           t \in Sessions /\ pc[t] \in Outside /\ IsReleased => l \in Outside
    PROVE  ReleaseInv'
<1>1. pc'[t] = l /\ \A u \in Threads : u # t => pc'[u] = pc[u]
  BY Moves
<1>2. \A r \in Releasers : pc'[r] = pc[r]
  BY <1>1, HoldersAreThreads
<1>3. ASSUME mode = "released" \/ (\E r \in Releasers : pc[r] \in {"kill", "forget", "check"}),
             NEW s \in Sessions
      PROVE  pc'[s] \in Outside
  <2>1. IsReleased /\ pc[s] \in Outside
    BY <1>3 DEF ReleaseInv, IsReleased
  <2>2. s \in Threads
    BY DEF Threads
  <2> QED
    BY <1>1, <2>1, <2>2
<1> QED
  BY <1>2, <1>3 DEF ReleaseInv

\* The release moves; it gets past its look at the listener while every
\* session is idle.
LEMMA ReleaserMoves ==
    ASSUME TypeOK, ReleaseInv, mode' = mode, NEW r \in Releasers, NEW l, Go(r, l),
           pc[r] # "idle",
           l \in {"kill", "forget", "check"} =>
              \/ pc[r] \in {"kill", "forget", "check"}
              \/ \A s \in Sessions : pc[s] \in Outside
    PROVE  ReleaseInv'
<1>1. pc'[r] = l /\ \A u \in Threads : u # r => pc'[u] = pc[u]
  BY HoldersAreThreads, Moves
<1>2. \A s \in Sessions : pc'[s] = pc[s]
  BY <1>1, ThreadsAssumption DEF Threads
<1>3. mode = "releasing" /\ \A q \in Releasers : q # r => pc'[q] = "idle"
  BY <1>1, HoldersAreThreads DEF ReleaseInv
<1> QED
  BY <1>1, <1>2, <1>3 DEF ReleaseInv

LEMMA ReleaseStopKeeps ==
    ASSUME TypeOK, LockInv, ReleaseInv, NEW r \in Releasers, StopListenerProcess(r)
    PROVE  ReleaseInv'
<1>1. mode' = mode /\ pc[r] # "idle"
  BY DEF StopListenerProcess, PauseListener, ReadListenProcess, KillListener, ForgetListener
<1>2. CASE PauseListener(r)
  <2>1. Go(r, "stop")
    BY <1>2 DEF PauseListener
  <2> QED
    BY <1>1, <2>1, ReleaserMoves
<1>3. CASE ReadListenProcess(r)
  <2>1. lock = NoThread
    BY <1>3, ThreadsAssumption DEF ReadListenProcess, LockOpenTo, TypeOK
  <2>2. \A s \in Sessions : pc[s] \in Outside
    BY <2>1, ThreadsAssumption DEF LockInv, LockUsers, Threads, Outside
  <2>3. \E l : Go(r, l)
    BY <1>3 DEF ReadListenProcess
  <2> QED
    BY <1>1, <2>2, <2>3, ReleaserMoves
<1>4. CASE KillListener(r)
  <2>1. Go(r, "forget") /\ pc[r] = "kill"
    BY <1>4 DEF KillListener
  <2> QED
    BY <1>1, <2>1, ReleaserMoves
<1>5. CASE ForgetListener(r)
  <2>1. pc[r] = "forget" /\ \E l : Go(r, l)
    BY <1>5 DEF ForgetListener
  <2> QED
    BY <1>1, <2>1, ReleaserMoves
<1> QED
  BY <1>2, <1>3, <1>4, <1>5 DEF StopListenerProcess

LEMMA ReleaseStepKeeps ==
    ASSUME TypeOK, LockInv, ReleaseInv, NEW r \in Releasers, ReleaseStart(r) \/ ReleaseStep(r)
    PROVE  ReleaseInv'
<1>0. r \in Threads /\ \A s \in Sessions : s \in Threads /\ s # r
  BY ThreadsAssumption DEF Threads
<1>1. CASE StopListenerProcess(r)
  BY <1>1, ReleaseStopKeeps
<1>2. CASE ReleaseStart(r)
  <2>1. mode \notin {"releasing", "released"} /\ mode' = "releasing" /\ Go(r, "pause")
    BY <1>2 DEF ReleaseStart
  <2>2. pc'[r] = "pause" /\ \A u \in Threads : u # r => pc'[u] = pc[u]
    BY <1>0, <2>1, Moves
  <2>3. \A q \in Releasers : q # r => pc'[q] = "idle"
    BY <2>1, <2>2, HoldersAreThreads DEF ReleaseInv
  <2> QED
    BY <2>1, <2>2, <2>3 DEF ReleaseInv
<1>3. CASE ReleaseSucceeds(r)
  <2>1. pc[r] = "check" /\ mode' = "released" /\ Go(r, "idle")
    BY <1>3 DEF ReleaseSucceeds
  <2>2. pc'[r] = "idle" /\ \A u \in Threads : u # r => pc'[u] = pc[u]
    BY <1>0, <2>1, Moves
  <2>3. \A q \in Releasers : pc'[q] = "idle"
    BY <2>1, <2>2, HoldersAreThreads DEF ReleaseInv
  <2>4. \A s \in Sessions : pc'[s] \in Outside
    BY <1>0, <2>1, <2>2 DEF ReleaseInv
  <2> QED
    BY <2>3, <2>4 DEF ReleaseInv
<1>4. CASE ReleaseFails(r)
  <2>1. pc[r] \in {"check", "fail"} /\ mode' = mode /\ Go(r, "error")
    BY <1>4 DEF ReleaseFails
  <2> QED
    BY <2>1, ReleaserMoves
<1>5. CASE ReleaseError(r)
  <2>1. pc[r] = "error" /\ mode' = "error" /\ Go(r, "idle")
    BY <1>5 DEF ReleaseError
  <2>2. pc'[r] = "idle" /\ \A u \in Threads : u # r => pc'[u] = pc[u]
    BY <1>0, <2>1, Moves
  <2>3. \A q \in Releasers : pc'[q] = "idle"
    BY <2>1, <2>2, HoldersAreThreads DEF ReleaseInv
  <2> QED
    BY <2>1, <2>3 DEF ReleaseInv
<1> QED
  BY <1>1, <1>2, <1>3, <1>4, <1>5 DEF ReleaseStep

\* A thread that is no release moves as the code of its kind has it.
LEMMA BystanderKeeps ==
    ASSUME TypeOK, ReleaseInv, NEW t \in Threads \ Releasers, mode' = mode,
           \E l : Go(t, l), t \in Sessions => pc[t] \notin Outside
    PROVE  ReleaseInv'
  BY OtherMoves

LEMMA StopperKeeps ==
    ASSUME TypeOK, ReleaseInv, NEW t \in Threads \ Releasers, StopListenerProcess(t)
    PROVE  ReleaseInv'
<1>1. mode' = mode /\ (\E l : Go(t, l)) /\ pc[t] \notin Outside
  BY DEF StopListenerProcess, PauseListener, ReadListenProcess, KillListener, ForgetListener,
         Outside
<1> QED
  BY <1>1, BystanderKeeps

LEMMA SessionReleaseKeeps ==
    ASSUME TypeOK, ReleaseInv, NEW s \in Sessions, SessionStart(s) \/ SessionStep(s)
    PROVE  ReleaseInv'
<1>0. s \in Threads \ Releasers
  BY ThreadsAssumption DEF Threads
<1>1. CASE StopListenerProcess(s)
  BY <1>0, <1>1, StopperKeeps
<1>2. CASE SessionStart(s) \/ Unlock(s)
  <2>1. PICK l \in Outside : Go(s, l)
    BY <1>2 DEF SessionStart, Unlock, Outside
  <2>2. mode' = mode
    BY <1>2 DEF SessionStart, Unlock
  <2> QED
    BY <1>0, <2>1, <2>2, OtherMoves
<1>3. CASE SessionAllowed(s) \/ SessionRestores(s)
  <2>1. mode' = mode /\ (\E l : Go(s, l)) /\ (IsReleased => Go(s, "restore") \/ Go(s, "unlock"))
    BY <1>3 DEF SessionAllowed, SessionRestores, CommandsAllowed, IsReleased
  <2>2. CASE IsReleased
    BY <1>0, <2>1, <2>2, OtherMoves DEF Outside
  <2>3. CASE ~IsReleased
    BY <1>0, <2>1, <2>3, OtherMoves
  <2> QED
    BY <2>2, <2>3
<1>4. CASE SessionGranted(s) \/ SessionEnds(s) \/ SessionResumes(s)
  <2>1. mode' = mode /\ (\E l : Go(s, l)) /\ pc[s] \notin Outside
    BY <1>4 DEF SessionGranted, SessionEnds, SessionResumes, Outside
  <2> QED
    BY <1>0, <2>1, BystanderKeeps
<1> QED
  BY <1>1, <1>2, <1>3, <1>4 DEF SessionStep

LEMMA ClaimReleaseKeeps ==
    ASSUME TypeOK, ReleaseInv, NEW c \in Claimers,
           ClaimStart(c) \/ ClaimStep(c) \/ AdapterStep(c)
    PROVE  ReleaseInv'
<1>0. c \in Threads \ Releasers /\ c \notin Sessions
  BY ThreadsAssumption DEF Threads
<1>1. CASE StopListenerProcess(c)
  BY <1>0, <1>1, StopperKeeps
<1>2. CASE AdapterOpen(c) \/ (AdapterAnswers(c) /\ pc[c] # "work")
  BY <1>2, ReleaseQuiet DEF AdapterOpen, AdapterAnswers
<1>3. CASE \/ ClaimStart(c) \/ ClaimGranted(c) \/ ClaimRefused(c) \/ AdapterKilled(c)
           \/ SendTimedOut(c) \/ ClaimResumes(c) \/ Unlock(c)
           \/ (AdapterAnswers(c) /\ pc[c] = "work")
  <2>1. mode' = mode /\ \E l : Go(c, l)
    BY <1>3 DEF ClaimStart, ClaimGranted, ClaimRefused, AdapterKilled, SendTimedOut,
                ClaimResumes, Unlock, AdapterAnswers
  <2> QED
    BY <1>0, <2>1, BystanderKeeps
<1> QED
  BY <1>1, <1>2, <1>3 DEF ClaimStep, AdapterStep

LEMMA ReleaseNext ==
    ASSUME TypeOK, LockInv, ReleaseInv, [Next]_vars
    PROVE  ReleaseInv'
<1>1. CASE Listener
  <2>1. CASE ListenerSpawn
    <3>1. pc' = pc /\ mode' = (IF IsReleased THEN mode ELSE "connected")
      BY <2>1 DEF ListenerSpawn
    <3>2. CASE IsReleased
      BY <3>1, <3>2, ReleaseQuiet
    <3>3. CASE ~IsReleased
      BY <3>1, <3>3, ModeMoves DEF IsReleased
    <3> QED
      BY <3>2, <3>3
  <2>2. CASE ~ListenerSpawn
    <3>1. UNCHANGED <<pc, mode>>
      BY <1>1, <2>2 DEF Listener, ListenerTop, ListenerReset, ListenerGatePaused,
         ListenerSpawnFails, ListenerBreak, ListenerEof, ListenerNote, ListenerClassify,
         ListenerReport, ListenerForget
    <3> QED
      BY <3>1, ReleaseQuiet
  <2> QED
    BY <2>1, <2>2
<1>2. ASSUME NEW p \in Procs, ListenerExits(p) PROVE ReleaseInv'
  BY <1>2, ReleaseQuiet DEF ListenerExits
<1>3. ASSUME NEW c \in Claimers, ClaimStart(c) \/ ClaimStep(c) \/ AdapterStep(c)
      PROVE  ReleaseInv'
  BY <1>3, ClaimReleaseKeeps
<1>4. ASSUME NEW s \in Sessions, SessionStart(s) \/ SessionStep(s) PROVE ReleaseInv'
  BY <1>4, SessionReleaseKeeps
<1>5. ASSUME NEW r \in Restarters, RestartStart(r) \/ RestartStep(r) PROVE ReleaseInv'
  <2>0. r \in Threads \ Releasers /\ r \notin Sessions
    BY ThreadsAssumption DEF Threads
  <2>1. CASE StopListenerProcess(r)
    BY <2>0, <2>1, StopperKeeps
  <2>2. CASE RestartStart(r) \/ RestartResumes(r)
    <3>1. mode' = mode /\ \E l : Go(r, l)
      BY <2>2 DEF RestartStart, RestartResumes
    <3> QED
      BY <2>0, <3>1, BystanderKeeps
  <2> QED
    BY <1>5, <2>1, <2>2 DEF RestartStep
<1>6. ASSUME NEW r \in Releasers, ReleaseStart(r) \/ ReleaseStep(r) PROVE ReleaseInv'
  BY <1>6, ReleaseStepKeeps
<1>7. ASSUME NEW n \in Reconnecters, ReconnectStart(n) \/ ReconnectResumes(n)
      PROVE  ReleaseInv'
  <2>0. n \in Threads \ Releasers /\ n \notin Sessions
    BY ThreadsAssumption DEF Threads
  <2>1. CASE ReconnectStart(n)
    <3>1. mode # "releasing" /\ mode' # "released" /\ Go(n, "resume")
      BY <2>1 DEF ReconnectStart
    <3>2. \A t \in Releasers : pc'[t] = pc[t]
      BY <2>0, <3>1, Moves, HoldersAreThreads
    <3> QED
      BY <3>1, <3>2, ModeMoves
  <2>2. CASE ReconnectResumes(n)
    <3>1. mode' = mode /\ Go(n, "idle")
      BY <2>2 DEF ReconnectResumes
    <3> QED
      BY <2>0, <3>1, BystanderKeeps
  <2> QED
    BY <1>7, <2>1, <2>2
<1>8. CASE StatusPoll
  BY <1>8, ModeMoves DEF StatusPoll
<1>9. CASE UNCHANGED vars
  BY <1>9, ReleaseQuiet DEF vars
<1> QED
  BY <1>1, <1>2, <1>3, <1>4, <1>5, <1>6, <1>7, <1>8, <1>9 DEF Next

\* While the radio is released no Node Tools session works on its port: a
\* release looks at the listener under radio_lock, and a session asks the
\* manager after it has got the lock. Any number of sessions, commands,
\* restarts, releases and reconnects, and listeners that survive a kill
\* (radio_connection_manager.py, server.py's radio_session).
THEOREM SessionsKeepOut == Senders = {} => (Spec => []SessionsRespectRelease)
<1> SUFFICES ASSUME Senders = {} PROVE Spec => []SessionsRespectRelease
  OBVIOUS
<1>1. Init => IInv /\ ReleaseInv
  <2>1. Init => ReleaseInv
    BY HoldersAreThreads DEF Init, ReleaseInv
  <2> QED
    BY <2>1, InitTypeInv, InitExclusive DEF IInv
<1>2. IInv /\ [Next]_vars => IInv'
  BY NextTypeInv, NextExclusive DEF IInv
<1>3. IInv /\ ReleaseInv /\ [Next]_vars => ReleaseInv'
  BY ReleaseNext DEF IInv, TypeInv
<1>4. ReleaseInv => SessionsRespectRelease
  BY DEF ReleaseInv, SessionsRespectRelease, Outside
<1> QED
  BY <1>1, <1>2, <1>3, <1>4, PTL DEF Spec
=============================================================================
