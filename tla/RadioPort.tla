------------------------------ MODULE RadioPort ------------------------------
(***************************************************************************)
(* Arbitration of the one serial port of the Meshtastic node.              *)
(*                                                                         *)
(* Core keeps a "--listen" subprocess on the port (run_listener, a thread  *)
(* of its own).  Every command that needs the port has to pause and stop   *)
(* that subprocess, use the port, and let the listener resume.  What       *)
(* coordinates them is one RLock (radio_lock), one threading.Event         *)
(* (pause_listen) and one shared pointer (_listen_process):                *)
(*   - Claimers    threads inside AdapterIPCTransport._call, which wraps   *)
(*                 the adapter's work in claim_exclusive_access();         *)
(*   - Sessions    threads inside radio_session() (Node Tools, rescan),    *)
(*                 which run the CLI while they own the port;              *)
(*   - Restarters  /api/restart_listener and process_listener_autorecovery *)
(*                 (stop the listener, then clear the pause: no lock);     *)
(*   - Releasers, Reconnecters   RadioConnectionManager.release/reconnect. *)
(*                                                                         *)
(* Time is abstracted: a sleep is a point where others run, a timeout is a *)
(* nondeterministic outcome.  The adapter subprocess is seen through the   *)
(* threads it runs for the claimers; AdapterIPC models it in detail.       *)
(***************************************************************************)
EXTENDS FiniteSets, Naturals

CONSTANTS
    Claimers, Sessions, Restarters, Releasers, Reconnecters, \* threads
    Senders,        \* the claimers whose command is send_packet/send_messages
    Procs,          \* identities of listener subprocesses (bound: how many
                    \* may be alive at once)
    KillCanFail,    \* a listener may survive terminate() and kill()
    NoThread, NoProc

Threads == Claimers \cup Sessions \cup Restarters \cup Releasers
           \cup Reconnecters

ASSUME ThreadsAssumption ==
    /\ Senders \subseteq Claimers
    /\ Claimers \cap (Sessions \cup Restarters \cup Releasers \cup Reconnecters) = {}
    /\ Sessions \cap (Restarters \cup Releasers \cup Reconnecters) = {}
    /\ Restarters \cap (Releasers \cup Reconnecters) = {}
    /\ Releasers \cap Reconnecters = {}
    /\ NoThread \notin Threads
    /\ NoProc \notin Procs
    /\ KillCanFail \in BOOLEAN

VARIABLES
    lock,       \* owner of radio_lock (between steps that release it)
    pause,      \* pause_listen.is_set()
    mode,       \* RadioConnectionManager._mode
    listenProc, \* SerialPortSupervisor._listen_process
    pstate,     \* listener subprocesses: "none", "running", "stopped" (by a
                \* terminate/kill of ours) or "exited" (by itself)
    lpc,        \* where run_listener stands
    lproc,      \* its local variable proc
    lcur,       \* its local variable current
    lstop,      \* its local variable stop_was_intentional
    report,     \* last listener_stop event: how the process ended, and how
                \* the event says it did
    running,    \* radio_health["listener_running"]
    pc,         \* where each requesting thread stands
    target,     \* its local variable proc in stop_listener_process
    athread     \* the adapter-side thread of each claimer's command

listenerVars == <<lpc, lproc, lcur, lstop, report, running>>
vars == <<lock, pause, mode, listenProc, pstate, lpc, lproc, lcur, lstop,
          report, running, pc, target, athread>>

Modes == {"connected", "releasing", "released", "reconnecting", "error"}
ProcStates == {"none", "running", "stopped", "exited"}
ListenerPcs == {"top", "reset", "gate", "read", "note", "classify",
                "report", "forget"}
ThreadPcs == {"idle", "allowed", "pause", "stop", "kill", "forget", "check",
              "work", "restore", "resume", "unlock", "fail", "error"}

TypeOK ==
    /\ lock \in Claimers \cup Sessions \cup {NoThread}
    /\ pause \in BOOLEAN
    /\ mode \in Modes
    /\ listenProc \in Procs \cup {NoProc}
    /\ pstate \in [Procs -> ProcStates]
    /\ lpc \in ListenerPcs
    /\ lproc \in Procs \cup {NoProc}
    /\ lcur \in Procs \cup {NoProc}
    /\ lstop \in BOOLEAN
    /\ report \in [cause : ProcStates, intentional : BOOLEAN]
    /\ running \in BOOLEAN
    /\ pc \in [Threads -> ThreadPcs]
    /\ target \in [Threads -> Procs \cup {NoProc}]
    /\ athread \in [Claimers -> {"none", "waiting", "open"}]

Init ==
    /\ lock = NoThread
    /\ pause = FALSE
    /\ mode = "connected"
    /\ listenProc = NoProc
    /\ pstate = [p \in Procs |-> "none"]
    /\ lpc = "top"
    /\ lproc = NoProc
    /\ lcur = NoProc
    /\ lstop = FALSE
    /\ report = [cause |-> "none", intentional |-> FALSE]
    /\ running = FALSE
    /\ pc = [t \in Threads |-> "idle"]
    /\ target = [t \in Threads |-> NoProc]
    /\ athread = [c \in Claimers |-> "none"]

-----------------------------------------------------------------------------
(* Helpers *)

Alive == {p \in Procs : pstate[p] = "running"}

\* Everything that has the serial device open at this moment: listener
\* subprocesses, adapter threads past _open_interface(), CLI subprocesses.
PortUsers == Alive \cup {c \in Claimers : athread[c] = "open"}
                   \cup {s \in Sessions : pc[s] = "work"}

\* Popen objects that a thread inside stop_listener_process still holds: a new
\* subprocess never has the identity of one of these.
Referenced == {target[t] : t \in Threads}

\* radio_lock is an RLock: its owner passes, anybody else needs it free.
LockOpenTo(t) == lock \in {t, NoThread}

IsReleased == mode \in {"releasing", "released"}
CommandsAllowed == mode \notin {"releasing", "released", "reconnecting"}

\* terminate(), wait(), kill(), wait(): the process ends, or outlives both.
Terminated(p, new) ==
    \/ p = NoProc /\ new = pstate
    \/ p # NoProc /\ pstate[p] # "running" /\ new = pstate
    \/ p # NoProc /\ pstate[p] = "running"
                  /\ new = [pstate EXCEPT ![p] = "stopped"]
    \/ p # NoProc /\ pstate[p] = "running" /\ KillCanFail /\ new = pstate

Go(t, label) == pc' = [pc EXCEPT ![t] = label]

-----------------------------------------------------------------------------
(* run_listener *)

\* The loop is left alone while pause_listen is set; otherwise a new round
\* starts.
ListenerTop ==
    /\ lpc = "top"
    /\ ~pause
    /\ lpc' = "reset"
    /\ UNCHANGED <<lock, pause, mode, listenProc, pstate, lproc, lcur, lstop,
                   report, running, pc, target, athread>>

ListenerReset ==
    /\ lpc = "reset"
    /\ lock = NoThread
    /\ listenProc' = NoProc
    /\ lpc' = "gate"
    /\ UNCHANGED <<lock, pause, mode, pstate, lproc, lcur, lstop, report,
                   running, pc, target, athread>>

\* Under radio_lock: a pause that came in meanwhile sends the loop back.
ListenerGatePaused ==
    /\ lpc = "gate"
    /\ lock = NoThread
    /\ pause
    /\ lpc' = "top"
    /\ UNCHANGED <<lock, pause, mode, listenProc, pstate, lproc, lcur, lstop,
                   report, running, pc, target, athread>>

\* Fault: the spawn is neither under radio_lock nor behind a second look at
\* pause_listen.
SpawnUnguarded ==
    /\ lpc = "gate"
    /\ \E p \in Procs \ (Alive \cup Referenced) :
          /\ pstate' = [pstate EXCEPT ![p] = "running"]
          /\ listenProc' = p
          /\ lproc' = p
    /\ running' = TRUE
    /\ mode' = IF IsReleased THEN mode ELSE "connected"
    /\ lpc' = "read"
    /\ UNCHANGED <<lock, pause, lcur, lstop, report, pc, target, athread>>

\* Fault: the event comes before _listen_process is set, and raises.
SpawnUnrecorded ==
    /\ lpc = "gate"
    /\ lock = NoThread
    /\ ~pause
    /\ \E p \in Procs \ (Alive \cup Referenced) :
          /\ pstate' = [pstate EXCEPT ![p] = "running"]
          /\ lproc' = p
    /\ running' = TRUE
    /\ mode' = IF IsReleased THEN mode ELSE "connected"
    /\ lpc' = "read"
    /\ UNCHANGED <<lock, pause, listenProc, lcur, lstop, report, pc, target,
                   athread>>

\* Under radio_lock: Popen("--listen") and the listener_start event, which
\* tells the connection manager (listener_started).
ListenerSpawn ==
    /\ lpc = "gate"
    /\ lock = NoThread
    /\ ~pause
    /\ \E p \in Procs \ (Alive \cup Referenced) :
          /\ pstate' = [pstate EXCEPT ![p] = "running"]
          /\ listenProc' = p
          /\ lproc' = p
    /\ running' = TRUE
    /\ mode' = IF IsReleased THEN mode ELSE "connected"
    /\ lpc' = "read"
    /\ UNCHANGED <<lock, pause, lcur, lstop, report, pc, target, athread>>

\* Popen raises: logged, a back-off sleep, next round.
ListenerSpawnFails ==
    /\ lpc = "gate"
    /\ lock = NoThread
    /\ ~pause
    /\ lpc' = "top"
    /\ UNCHANGED <<lock, pause, mode, listenProc, pstate, lproc, lcur, lstop,
                   report, running, pc, target, athread>>

\* A line arrives while pause_listen is set: the for loop is left.
ListenerBreak ==
    /\ lpc = "read"
    /\ pause
    /\ lpc' = "note"
    /\ UNCHANGED <<lock, pause, mode, listenProc, pstate, lproc, lcur, lstop,
                   report, running, pc, target, athread>>

\* End of file: the process is gone.
ListenerEof ==
    /\ lpc = "read"
    /\ pstate[lproc] # "running"
    /\ lpc' = "note"
    /\ UNCHANGED <<lock, pause, mode, listenProc, pstate, lproc, lcur, lstop,
                   report, running, pc, target, athread>>

\* with radio_lock: current = _listen_process.
ListenerNote ==
    /\ lpc = "note"
    /\ lock = NoThread
    /\ lcur' = listenProc
    /\ lpc' = "classify"
    /\ UNCHANGED <<lock, pause, mode, listenProc, pstate, lproc, lstop,
                   report, running, pc, target, athread>>

\* stop_was_intentional = pause_listen.is_set(), read without the lock.
ListenerClassify ==
    /\ lpc = "classify"
    /\ lstop' = pause
    /\ lpc' = "report"
    /\ UNCHANGED <<lock, pause, mode, listenProc, pstate, lproc, lcur,
                   report, running, pc, target, athread>>

\* An intentional stop terminates what is left of the process; both kinds
\* send the listener_stop event.
ListenerReport ==
    /\ lpc = "report"
    /\ IF lstop THEN Terminated(lcur, pstate') ELSE pstate' = pstate
    /\ report' = [cause |-> pstate[lproc], intentional |-> lstop]
    /\ running' = FALSE
    /\ lpc' = "forget"
    /\ UNCHANGED <<lock, pause, mode, listenProc, lproc, lcur, lstop, pc,
                   target, athread>>

ListenerForget ==
    /\ lpc = "forget"
    /\ lock = NoThread
    /\ listenProc' = NoProc
    /\ lproc' = NoProc
    /\ lcur' = NoProc
    /\ lpc' = "top"
    /\ UNCHANGED <<lock, pause, mode, pstate, lstop, report, running, pc,
                   target, athread>>

\* The subprocess ends by itself (a crash, a USB disconnect).
ListenerExits(p) ==
    /\ pstate[p] = "running"
    /\ pstate' = [pstate EXCEPT ![p] = "exited"]
    /\ UNCHANGED <<lock, pause, mode, listenProc, pc, target, athread>>
    /\ UNCHANGED listenerVars

Listener ==
    \/ ListenerTop \/ ListenerReset \/ ListenerGatePaused \/ ListenerSpawn
    \/ ListenerSpawnFails \/ ListenerBreak \/ ListenerEof \/ ListenerNote
    \/ ListenerClassify \/ ListenerReport \/ ListenerForget

-----------------------------------------------------------------------------
(* stop_listener_process, called by every requesting thread; the label it   *)
(* returns to depends on the caller.                                        *)

AfterStop(t, stopped) ==
    CASE t \in Restarters -> "resume"
      [] t \in Releasers -> IF stopped THEN "check" ELSE "fail"
      [] OTHER -> "check"

PauseListener(t) ==
    /\ pc[t] = "pause"
    /\ pause' = TRUE
    /\ Go(t, "stop")
    /\ UNCHANGED <<lock, mode, listenProc, pstate, target, athread>>
    /\ UNCHANGED listenerVars

ReadListenProcess(t) ==
    /\ pc[t] = "stop"
    /\ LockOpenTo(t)
    /\ target' = [target EXCEPT ![t] = listenProc]
    /\ Go(t, IF listenProc = NoProc THEN AfterStop(t, TRUE) ELSE "kill")
    /\ UNCHANGED <<lock, pause, mode, listenProc, pstate, athread>>
    /\ UNCHANGED listenerVars

\* terminate/wait/kill/wait outside the lock (the caller may hold it).
KillListener(t) ==
    /\ pc[t] = "kill"
    /\ Terminated(target[t], pstate')
    /\ Go(t, "forget")
    /\ UNCHANGED <<lock, pause, mode, listenProc, target, athread>>
    /\ UNCHANGED listenerVars

\* finally: _listen_process = None, whatever it points to by now.
ForgetListener(t) ==
    /\ pc[t] = "forget"
    /\ LockOpenTo(t)
    /\ listenProc' = NoProc
    /\ target' = [target EXCEPT ![t] = NoProc]
    /\ Go(t, AfterStop(t, pstate[target[t]] # "running"))
    /\ UNCHANGED <<lock, pause, mode, pstate, athread>>
    /\ UNCHANGED listenerVars

StopListenerProcess(t) ==
    PauseListener(t) \/ ReadListenProcess(t) \/ KillListener(t)
    \/ ForgetListener(t)

-----------------------------------------------------------------------------
(* AdapterIPCTransport._call inside claim_exclusive_access                  *)

\* Bound: a claimer whose abandoned adapter thread still runs waits.
ClaimStart(c) ==
    /\ pc[c] = "idle"
    /\ athread[c] = "none"
    /\ lock = NoThread
    /\ lock' = c
    /\ Go(c, "pause")
    /\ UNCHANGED <<pause, mode, listenProc, pstate, target, athread>>
    /\ UNCHANGED listenerVars

\* The port is confirmed free and the request goes to the adapter.
ClaimGranted(c) ==
    /\ pc[c] = "check"
    /\ PortUsers = {}
    /\ athread' = [athread EXCEPT ![c] = "waiting"]
    /\ Go(c, "work")
    /\ UNCHANGED <<lock, pause, mode, listenProc, pstate, target>>
    /\ UNCHANGED listenerVars

\* Fault: the refusal leaves the block before the finally clause.
ClaimRefusedUncleaned(c) ==
    /\ pc[c] = "check"
    /\ Go(c, "unlock")
    /\ UNCHANGED <<lock, pause, mode, listenProc, pstate, target, athread>>
    /\ UNCHANGED listenerVars

\* The port is busy, or the check could not tell: TransportError.
ClaimRefused(c) ==
    /\ pc[c] = "check"
    /\ Go(c, "resume")
    /\ UNCHANGED <<lock, pause, mode, listenProc, pstate, target, athread>>
    /\ UNCHANGED listenerVars

\* The adapter-side thread gets the adapter's own lock and opens the port,
\* unless the adapter's own port check finds somebody on it.
AdapterOpen(c) ==
    /\ athread[c] = "waiting"
    /\ PortUsers = {}
    /\ athread' = [athread EXCEPT ![c] = "open"]
    /\ UNCHANGED <<lock, pause, mode, listenProc, pstate, pc, target>>
    /\ UNCHANGED listenerVars

\* The adapter-side thread ends (result, error, or busy port); its answer
\* ends the call unless the caller has given up on it.
AdapterAnswers(c) ==
    /\ athread[c] # "none"
    /\ athread' = [athread EXCEPT ![c] = "none"]
    /\ IF pc[c] = "work" THEN Go(c, "resume") ELSE UNCHANGED pc
    /\ UNCHANGED <<lock, pause, mode, listenProc, pstate, target>>
    /\ UNCHANGED listenerVars

\* A timed-out, broken or silent answer: AdapterSupervisor kills the whole
\* adapter process, with every thread in it.
AdapterKilled(c) ==
    /\ pc[c] = "work"
    /\ athread' = [d \in Claimers |-> "none"]
    /\ Go(c, "resume")
    /\ UNCHANGED <<lock, pause, mode, listenProc, pstate, target>>
    /\ UNCHANGED listenerVars

\* send_packet/send_messages: the adapter turns its own TIMEOUT into an
\* ordinary SendResult(accepted=False), so nothing is killed and the
\* abandoned thread goes on.
SendTimedOut(c) ==
    /\ c \in Senders
    /\ pc[c] = "work"
    /\ Go(c, "resume")
    /\ UNCHANGED <<lock, pause, mode, listenProc, pstate, target, athread>>
    /\ UNCHANGED listenerVars

\* finally: cooldown, pause_listen.clear(), then the lock is released.
ClaimResumes(c) ==
    /\ pc[c] = "resume"
    /\ pause' = FALSE
    /\ Go(c, "unlock")
    /\ UNCHANGED <<lock, mode, listenProc, pstate, target, athread>>
    /\ UNCHANGED listenerVars

Unlock(t) ==
    /\ pc[t] = "unlock"
    /\ lock' = NoThread
    /\ Go(t, "idle")
    /\ UNCHANGED <<pause, mode, listenProc, pstate, target, athread>>
    /\ UNCHANGED listenerVars

\* What a claimer does once it has started.
ClaimStep(c) ==
    \/ StopListenerProcess(c) \/ ClaimGranted(c) \/ ClaimRefused(c)
    \/ AdapterKilled(c) \/ SendTimedOut(c) \/ ClaimResumes(c) \/ Unlock(c)

AdapterStep(c) == AdapterOpen(c) \/ AdapterAnswers(c)

-----------------------------------------------------------------------------
(* radio_session                                                            *)

\* The bounded acquire succeeded; one that times out leaves no trace.
SessionStart(s) ==
    /\ pc[s] = "idle"
    /\ lock = NoThread
    /\ lock' = s
    /\ Go(s, "allowed")
    /\ UNCHANGED <<pause, mode, listenProc, pstate, target, athread>>
    /\ UNCHANGED listenerVars

\* Fault: prepare_radio_command does not ask the connection manager.
SessionAllowedUnasked(s) ==
    /\ pc[s] = "allowed"
    /\ Go(s, "pause")
    /\ UNCHANGED <<lock, pause, mode, listenProc, pstate, target, athread>>
    /\ UNCHANGED listenerVars

\* prepare_radio_command: a released radio refuses before any pause.
SessionAllowed(s) ==
    /\ pc[s] = "allowed"
    /\ Go(s, IF CommandsAllowed THEN "pause" ELSE "restore")
    /\ UNCHANGED <<lock, pause, mode, listenProc, pstate, target, athread>>
    /\ UNCHANGED listenerVars

SessionGranted(s) ==
    /\ pc[s] = "check"
    /\ PortUsers = {}
    /\ Go(s, "work")
    /\ UNCHANGED <<lock, pause, mode, listenProc, pstate, target, athread>>
    /\ UNCHANGED listenerVars

\* Fault: the clean-up is scoped to the yield only, so a failed prepare
\* skips it.
SessionEndsUncleaned(s) ==
    /\ pc[s] \in {"check", "work"}
    /\ Go(s, IF pc[s] = "work" THEN "restore" ELSE "unlock")
    /\ UNCHANGED <<lock, pause, mode, listenProc, pstate, target, athread>>
    /\ UNCHANGED listenerVars

\* The port was not confirmed free, or the block is over (the CLI has
\* exited, or its own timeout killed it): the finally clause.
SessionEnds(s) ==
    /\ pc[s] \in {"check", "work"}
    /\ Go(s, "restore")
    /\ UNCHANGED <<lock, pause, mode, listenProc, pstate, target, athread>>
    /\ UNCHANGED listenerVars

\* if is_radio_available(): the test, and then the clear.  Where there is a
\* listener thread the radio was recognised, and stays so (server.py:3669, 5116).
SessionRestores(s) ==
    /\ pc[s] = "restore"
    /\ Go(s, IF CommandsAllowed THEN "resume" ELSE "unlock")
    /\ UNCHANGED <<lock, pause, mode, listenProc, pstate, target, athread>>
    /\ UNCHANGED listenerVars

SessionResumes(s) ==
    /\ pc[s] = "resume"
    /\ pause' = FALSE
    /\ Go(s, "unlock")
    /\ UNCHANGED <<lock, mode, listenProc, pstate, target, athread>>
    /\ UNCHANGED listenerVars

SessionStep(s) ==
    \/ SessionAllowed(s) \/ StopListenerProcess(s) \/ SessionGranted(s)
    \/ SessionEnds(s) \/ SessionRestores(s) \/ SessionResumes(s)
    \/ Unlock(s)

-----------------------------------------------------------------------------
(* /api/restart_listener and process_listener_autorecovery                  *)

RestartStart(r) ==
    /\ pc[r] = "idle"
    /\ ~IsReleased
    /\ Go(r, "pause")
    /\ UNCHANGED <<lock, pause, mode, listenProc, pstate, target, athread>>
    /\ UNCHANGED listenerVars

RestartResumes(r) ==
    /\ pc[r] = "resume"
    /\ pause' = FALSE
    /\ Go(r, "idle")
    /\ UNCHANGED <<lock, mode, listenProc, pstate, target, athread>>
    /\ UNCHANGED listenerVars

RestartStep(r) == StopListenerProcess(r) \/ RestartResumes(r)

-----------------------------------------------------------------------------
(* RadioConnectionManager                                                   *)

ReleaseStart(r) ==
    /\ pc[r] = "idle"
    /\ mode \in {"connected", "error"}
    /\ mode' = "releasing"
    /\ Go(r, "pause")
    /\ UNCHANGED <<lock, pause, listenProc, pstate, target, athread>>
    /\ UNCHANGED listenerVars

ReleaseSucceeds(r) ==
    /\ pc[r] = "check"
    /\ PortUsers = {}
    /\ mode' = "released"
    /\ Go(r, "idle")
    /\ UNCHANGED <<lock, pause, listenProc, pstate, target, athread>>
    /\ UNCHANGED listenerVars

\* The listener could not be stopped, or the port is not confirmed free.
ReleaseFails(r) ==
    /\ pc[r] \in {"check", "fail"}
    /\ pause' = FALSE
    /\ Go(r, "error")
    /\ UNCHANGED <<lock, mode, listenProc, pstate, target, athread>>
    /\ UNCHANGED listenerVars

\* Fault: a mode outside the manager's vocabulary.
ReleaseFailedMode(r) ==
    /\ pc[r] = "error"
    /\ mode' = "failed"
    /\ Go(r, "idle")
    /\ UNCHANGED <<lock, pause, listenProc, pstate, target, athread>>
    /\ UNCHANGED listenerVars

ReleaseError(r) ==
    /\ pc[r] = "error"
    /\ mode' = "error"
    /\ Go(r, "idle")
    /\ UNCHANGED <<lock, pause, listenProc, pstate, target, athread>>
    /\ UNCHANGED listenerVars

ReleaseStep(r) ==
    StopListenerProcess(r) \/ ReleaseSucceeds(r) \/ ReleaseFails(r)
    \/ ReleaseError(r)

ReconnectStart(r) ==
    /\ pc[r] = "idle"
    /\ mode \in {"released", "reconnecting", "error"}
    /\ mode' = "reconnecting"
    /\ Go(r, "resume")
    /\ UNCHANGED <<lock, pause, listenProc, pstate, target, athread>>
    /\ UNCHANGED listenerVars

\* Fault: the reconnect forgets the pause it is meant to lift.
ReconnectKeepsPause(r) ==
    /\ pc[r] = "resume"
    /\ Go(r, "idle")
    /\ UNCHANGED <<lock, pause, mode, listenProc, pstate, target, athread>>
    /\ UNCHANGED listenerVars

ReconnectResumes(r) ==
    /\ pc[r] = "resume"
    /\ pause' = FALSE
    /\ Go(r, "idle")
    /\ UNCHANGED <<lock, mode, listenProc, pstate, target, athread>>
    /\ UNCHANGED listenerVars

\* status(listener_running): a poll of the page completes a reconnect.
StatusPoll ==
    /\ mode = "reconnecting"
    /\ running
    /\ mode' = "connected"
    /\ UNCHANGED <<lock, pause, listenProc, pstate, pc, target, athread>>
    /\ UNCHANGED listenerVars

-----------------------------------------------------------------------------
Next ==
    \/ Listener
    \/ \E p \in Procs : ListenerExits(p)
    \/ \E c \in Claimers : ClaimStart(c) \/ ClaimStep(c) \/ AdapterStep(c)
    \/ \E s \in Sessions : SessionStart(s) \/ SessionStep(s)
    \/ \E r \in Restarters : RestartStart(r) \/ RestartStep(r)
    \/ \E r \in Releasers : ReleaseStart(r) \/ ReleaseStep(r)
    \/ \E r \in Reconnecters : ReconnectStart(r) \/ ReconnectResumes(r)
    \/ StatusPoll

\* Threads run: a requesting thread that has started goes on (every wait in
\* it is bounded by a timeout of its own), the listener thread goes on, an
\* adapter thread ends.  Nothing obliges a request to come in, a page to
\* poll, a line to arrive or a subprocess to exit.  Popen eventually works.
Fairness ==
    /\ WF_vars(ListenerTop \/ ListenerReset \/ ListenerGatePaused
               \/ ListenerEof \/ ListenerNote \/ ListenerClassify
               \/ ListenerReport \/ ListenerForget)
    /\ SF_vars(ListenerSpawn)
    /\ \A c \in Claimers : WF_vars(ClaimStep(c)) /\ WF_vars(AdapterAnswers(c))
    /\ \A s \in Sessions : WF_vars(SessionStep(s))
    /\ \A r \in Restarters : WF_vars(RestartStep(r))
    /\ \A r \in Releasers : WF_vars(ReleaseStep(r))
    /\ \A r \in Reconnecters : WF_vars(ReconnectResumes(r))
    /\ WF_vars(StatusPoll)

Spec == Init /\ [][Next]_vars
FairSpec == Spec /\ Fairness

-----------------------------------------------------------------------------
(* Properties *)

\* Exclusive access: whoever was granted the port is alone on it until the
\* block ends - no listener, adapter thread or CLI of another thread.
ExclusiveWork ==
    /\ \A s \in Sessions : pc[s] = "work" => PortUsers = {s}
    /\ \A c \in Claimers :
          pc[c] = "work" => PortUsers = IF athread[c] = "open" THEN {c} ELSE {}

\* The node never sees two programs on its serial port.
OnePortUser == \A u, v \in PortUsers : u = v

\* The threads the port is granted to: those inside their block.
Working == {t \in Claimers \cup Sessions : pc[t] = "work"}

Arbiter == INSTANCE PortArbiter WITH
    Requesters <- Claimers \cup Sessions,
    Listeners  <- Procs,
    granted    <- Working,
    users      <- PortUsers

\* Claims and sessions are granted the port as PortArbiter says, and listeners
\* come and go in between: it passes from one program to the next only by way
\* of being free, and no listener is started on a port that is granted
\* (serial_port_supervisor.py:60-231, server.py's radio_session, run_listener).
ArbiterSpec == Arbiter!Spec

\* Nobody leaves pause_listen set behind: while it is set, the radio is
\* released or some thread is on the way to clearing it.
PauseHasOwner ==
    pause => \/ IsReleased
             \/ \E t \in Threads : pc[t] \in {"stop", "kill", "forget",
                    "check", "work", "restore", "resume", "fail"}

\* A listener that is being read is the one _listen_process points to, so
\* that the next stop reaches it.
ListenerReachable ==
    lpc = "read" /\ pstate[lproc] = "running" => listenProc = lproc

\* A Node Tools session never runs while the radio is released.
SessionsRespectRelease ==
    mode = "released" => \A s \in Sessions : pc[s] # "work"

\* A released port is MeshCenter's no more: no program of ours is on it.
ReleasedPortIsFree == mode = "released" => PortUsers = {}

\* A listener that MeshCenter stopped is not reported as a failure.  This is
\* what the event is for, and it does not hold: see the README.
StopsReportedAsIntended == report.cause = "stopped" => report.intentional

\* Once requests cease with the radio not released, the listener is reading
\* again, and again after every exit.
Quiet == (\A t \in Threads : pc[t] = "idle") /\ mode \in {"connected", "error"}
Listening == lpc = "read" /\ pstate[lproc] = "running"
ListenerComesBack == <>[]Quiet => []<>Listening

\* A command passed commands_allowed() before the reconnect and has yet to set
\* pause_listen: it will set it after the reconnect has cleared it, and leave it.
Overtaken == mode = "reconnecting" /\ \E s \in Sessions : pc[s] = "pause"

\* Once requests cease (and no lost listener uses up the bound Procs), a
\* reconnect that overtook no command does not stay "reconnecting", the mode
\* that refuses commands.
ReconnectCompletes ==
    /\ <>[]((\A t \in Threads : pc[t] = "idle") /\ Alive \subseteq {lproc})
    /\ [] ~Overtaken
    => <>[](mode # "reconnecting")
=============================================================================
