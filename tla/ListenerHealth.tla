--------------------------- MODULE ListenerHealth ---------------------------
(***************************************************************************)
(* The health worker of server.py and the automatic recovery of the        *)
(* listener: every 30 seconds it derives a status from what the listener   *)
(* reported, without the lock decides what to do about it, and may restart *)
(* the listener. Times are ages, counted in checks of the worker. What the *)
(* restart does to the port is in RadioPort; here the listener, commands   *)
(* and the pages are the environment.                                      *)
(***************************************************************************)
EXTENDS Integers, FiniteSets

CONSTANTS
    Delays,          \* values of the setting "delay"
    ResultTimeout,   \* LISTENER_RECOVERY_RESULT_TIMEOUT
    AttemptWindow,          \* LISTENER_RECOVERY_WINDOW
    MaxRecoveries,     \* LISTENER_RECOVERY_MAX_ATTEMPTS
    PausedLimit,     \* LISTENER_PAUSED_ESCALATE_THRESHOLD_S
    Quiet            \* the 600 seconds without a packet after which something is wrong

ASSUME HealthAssumption ==
    /\ Delays \subseteq Nat /\ \E d \in Delays : \A e \in Delays : e <= d
    /\ ResultTimeout \in Nat /\ MaxRecoveries \in Nat /\ PausedLimit \in Nat /\ Quiet \in Nat
    /\ AttemptWindow \in Nat \ {0}

VARIABLES
    listenerRunning,         \* radio_health.listener_running
    pause,           \* pause_listen.is_set()
    released,        \* radio_connection_manager.is_released()
    packetAge,       \* NoAge before the first packet
    health,          \* radio_health.status
    recoveryOn, delay,  \* settings.listener_autorecovery
    wpc,             \* the worker: "sleeping", "deciding" or "restarting"
    seen,            \* what its check read: the status to act on and listener_running
    downFor,         \* since down_since
    tries,           \* attempts: their ages; two never fall into one check
    pendingFor,      \* since restart_requested_at, NoAge when none is pending
    pausedFor,       \* since paused_since
    budget,          \* history: the ages of the restarts since recovery was switched on
    unhealthyFor     \* history: checks since one saw the listener well

healthVars == <<listenerRunning, pause, released, packetAge, health, recoveryOn, delay, wpc, seen, downFor,
                tries, pendingFor, pausedFor, budget, unhealthyFor>>
radioVars == <<listenerRunning, pause, released, packetAge>>
recoveryVars == <<downFor, tries, pendingFor, pausedFor>>

NoAge == -1
MaxDelay == CHOOSE d \in Delays : \A e \in Delays : e <= d
Statuses == {"UNKNOWN", "RELEASED", "PAUSED", "LISTENER_DOWN", "STARTING", "OK", "NO_PACKETS", "ERROR"}

\* An age one check later; what lies beyond the limit is all the same.
Aged(age, limit) == IF age = NoAge \/ age >= limit THEN age ELSE age + 1

HealthTypeOK ==
    /\ listenerRunning \in BOOLEAN /\ pause \in BOOLEAN /\ released \in BOOLEAN /\ recoveryOn \in BOOLEAN
    /\ packetAge \in NoAge..(Quiet + 1)
    /\ health \in Statuses /\ delay \in Delays
    /\ wpc \in {"sleeping", "deciding", "restarting"}
    /\ seen \in [status : Statuses, listenerRunning : BOOLEAN]
    /\ downFor \in NoAge..MaxDelay
    /\ tries \subseteq 0..AttemptWindow /\ Cardinality(tries) <= MaxRecoveries
    /\ pendingFor \in NoAge..ResultTimeout /\ pausedFor \in NoAge..PausedLimit

HealthInit ==
    /\ listenerRunning = FALSE /\ pause = FALSE /\ released = FALSE /\ packetAge = NoAge
    /\ health = "UNKNOWN" /\ recoveryOn \in BOOLEAN /\ delay \in Delays
    /\ wpc = "sleeping" /\ seen = [status |-> "UNKNOWN", listenerRunning |-> FALSE]
    /\ downFor = NoAge /\ tries = {} /\ pendingFor = NoAge /\ pausedFor = NoAge
    /\ budget = {} /\ unhealthyFor = 0

-----------------------------------------------------------------------------
(* What the listener thread, commands and pages do to the radio            *)

Radio(run, p, rel, age) ==
    /\ listenerRunning' = run /\ pause' = p /\ released' = rel /\ packetAge' = age
    /\ UNCHANGED <<health, recoveryOn, delay, wpc, seen, recoveryVars, budget, unhealthyFor>>

\* radio_event("listener_start") and ("listener_stop").
ListenerStarts == ~listenerRunning /\ ~pause /\ Radio(TRUE, pause, released, packetAge)
ListenerStops == listenerRunning /\ Radio(FALSE, pause, released, packetAge)

\* radio_event("packet"), ("telemetry") and ("text").
PacketHeard == listenerRunning /\ packetAge # 0 /\ Radio(listenerRunning, pause, released, 0)

\* prepare_radio_command() or radio_session() begins and ends; it may be stuck.
CommandPauses == ~pause /\ ~released /\ Radio(listenerRunning, TRUE, released, packetAge)
CommandResumes == pause /\ ~released /\ Radio(listenerRunning, FALSE, released, packetAge)

\* /api/radio_connection/release and /reconnect.
PortReleased == ~released /\ Radio(listenerRunning, TRUE, TRUE, packetAge)
PortReconnected == released /\ Radio(listenerRunning, FALSE, FALSE, packetAge)

\* The recovery settings are saved.
SettingsSaved ==
    /\ recoveryOn' \in BOOLEAN /\ delay' \in Delays
    /\ <<recoveryOn', delay'>> # <<recoveryOn, delay>>
    /\ UNCHANGED <<radioVars, health, wpc, seen, recoveryVars, budget, unhealthyFor>>

-----------------------------------------------------------------------------
(* radio_health_worker()                                                   *)

StatusOf(age) ==
    CASE released -> "RELEASED"
      [] ~released /\ pause -> "PAUSED"
      [] ~released /\ ~pause /\ ~listenerRunning -> "LISTENER_DOWN"
      [] ~released /\ ~pause /\ listenerRunning /\ age = NoAge -> "STARTING"
      [] ~released /\ ~pause /\ listenerRunning /\ age # NoAge /\ age <= Quiet -> "OK"
      [] OTHER -> "NO_PACKETS"

\* Fault: the clock of the pause starts again at every check.
NeverEscalates(status) == IF status # "PAUSED" THEN NoAge ELSE 0

\* resolve_paused_recovery_status(): a pause that outlives every command
\* counts as a listener that is down.
PausedSince(status) ==
    IF status # "PAUSED" THEN NoAge
    ELSE IF pausedFor = NoAge THEN 0 ELSE Aged(pausedFor, PausedLimit)

\* 30 seconds have passed.
TimePassed ==
    LET older(ages) == {Aged(age, AttemptWindow) : age \in ages} IN
    /\ packetAge' = Aged(packetAge, Quiet + 1)
    /\ downFor' = Aged(downFor, MaxDelay)
    /\ pendingFor' = Aged(pendingFor, ResultTimeout)
    /\ tries' = older(tries)
    /\ budget' = {age \in older(budget) : age < AttemptWindow}
    /\ UNCHANGED <<listenerRunning, pause, released, recoveryOn, delay>>

HealthCheck ==
    LET status == StatusOf(Aged(packetAge, Quiet + 1))
        stuck  == PausedSince(status) >= PausedLimit
        act    == IF stuck THEN "LISTENER_DOWN" ELSE status
    IN  /\ wpc = "sleeping"
        /\ TimePassed
        /\ wpc' = "deciding"
        /\ health' = status
        /\ seen' = [status |-> act, listenerRunning |-> listenerRunning]
        /\ pausedFor' = PausedSince(status)
        /\ unhealthyFor' = IF listenerRunning /\ act # "LISTENER_DOWN" THEN 0
                           ELSE Aged(unhealthyFor, MaxDelay + 1)

\* The check itself failed: nothing is decided.
CheckFails ==
    /\ wpc = "sleeping"
    /\ TimePassed
    /\ health' = "ERROR"
    /\ pausedFor' = Aged(pausedFor, PausedLimit)
    /\ unhealthyFor' = Aged(unhealthyFor, MaxDelay + 1)
    /\ UNCHANGED <<wpc, seen>>

Settled(down, attempts, pending) ==
    /\ downFor' = down /\ tries' = attempts /\ pendingFor' = pending
    /\ wpc' = "sleeping"
    /\ UNCHANGED <<radioVars, health, recoveryOn, delay, seen, pausedFor, unhealthyFor>>

\* Fault: attempts are forgotten one check too early.
RecentButOne == {age \in tries : age + 1 < AttemptWindow}

\* The attempts that still count.
Recent == {age \in tries : age < AttemptWindow}

RecoveryOff ==
    /\ wpc = "deciding" /\ ~recoveryOn
    /\ Settled(NoAge, {}, NoAge)
    /\ budget' = {}

\* A restart was requested: wait for its result.
AwaitResult ==
    /\ wpc = "deciding" /\ recoveryOn /\ pendingFor # NoAge
    /\ \/ /\ seen.listenerRunning /\ seen.status # "LISTENER_DOWN"
          /\ Settled(NoAge, Recent, NoAge)
       \/ /\ ~(seen.listenerRunning /\ seen.status # "LISTENER_DOWN")
          /\ pendingFor >= ResultTimeout
          /\ Settled(0, Recent, NoAge)
       \/ /\ ~(seen.listenerRunning /\ seen.status # "LISTENER_DOWN")
          /\ pendingFor < ResultTimeout
          /\ Settled(downFor, Recent, pendingFor)
    /\ UNCHANGED budget

Watching == wpc = "deciding" /\ recoveryOn /\ pendingFor = NoAge

\* Fault: a listener that came back does not stop the clock.
NotDownIgnored ==
    /\ Watching /\ seen.status # "LISTENER_DOWN"
    /\ Settled(downFor, Recent, NoAge)
    /\ UNCHANGED budget

NotDown ==
    /\ Watching /\ seen.status # "LISTENER_DOWN"
    /\ Settled(NoAge, Recent, NoAge)
    /\ UNCHANGED budget

\* The failure is noted, or the delay or the limit says to wait.
WaitBeforeRestart ==
    /\ Watching /\ seen.status = "LISTENER_DOWN"
    /\ downFor = NoAge \/ downFor < delay \/ Cardinality(Recent) >= MaxRecoveries
    /\ Settled(IF downFor = NoAge THEN 0 ELSE downFor, Recent, NoAge)
    /\ UNCHANGED budget

\* stop_listener(), which sets pause_listen and catches its own errors, and a
\* second's sleep.
RestartListener ==
    /\ Watching /\ seen.status = "LISTENER_DOWN"
    /\ downFor # NoAge /\ downFor >= delay /\ Cardinality(Recent) < MaxRecoveries
    /\ downFor' = NoAge /\ tries' = Recent \cup {0} /\ pendingFor' = 0
    /\ budget' = budget \cup {0}
    /\ pause' = TRUE
    /\ wpc' = "restarting"
    /\ UNCHANGED <<listenerRunning, released, packetAge, health, recoveryOn, delay, seen, pausedFor,
                   unhealthyFor>>

\* pause_listen.clear(), whoever set it.
RestartResumes ==
    /\ wpc = "restarting"
    /\ pause' = FALSE
    /\ wpc' = "sleeping"
    /\ UNCHANGED <<listenerRunning, released, packetAge, health, recoveryOn, delay, seen, recoveryVars,
                   budget, unhealthyFor>>

Decide == RecoveryOff \/ AwaitResult \/ NotDown \/ WaitBeforeRestart \/ RestartListener

HealthNext ==
    \/ ListenerStarts \/ ListenerStops \/ PacketHeard \/ CommandPauses \/ CommandResumes
    \/ PortReleased \/ PortReconnected \/ SettingsSaved
    \/ HealthCheck \/ CheckFails \/ Decide \/ RestartResumes

-----------------------------------------------------------------------------
\* However often the listener fails, and whichever of the two reasons brought
\* recovery in, it restarts the listener at most MaxRecoveries times in a window
\* (server.py:4126-4134, 4217-4240).
RationIsKept == Cardinality(budget) <= MaxRecoveries

\* A restart never hits a listener that some check of the last "delay" saw
\* well: a failure must last (server.py:4176-4211, 4000-4006).
RestartIsPatient == [][RestartListener => unhealthyFor > delay]_healthVars

\* A command that never ends and keeps the listener paused does not keep it
\* paused for ever: recovery comes in, again and again when need be
\* (server.py:3967-4019, 4242-4263).
StuckPauseEnds == <>[](recoveryOn /\ ~released) => []<>~pause
=============================================================================
