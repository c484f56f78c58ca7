------------------------------ MODULE NodeClock ------------------------------
(***************************************************************************)
(* Time: time_service.py keeps a cache of what the system says about its   *)
(* clock, refreshed by a thread of the web process; on a (re)connect of    *)
(* the listener server.py starts an attempt to set the node's clock, which *)
(* node_time_sync.py carries out in the adapter's process. The adapter     *)
(* imports the same time_service and nobody starts its thread.             *)
(***************************************************************************)
EXTENDS Naturals

CONSTANTS
    Cooldown,       \* NODE_TIME_SYNC_ATTEMPT_COOLDOWN_S
    MinInterval     \* MIN_SYNC_INTERVAL_S

ASSUME ThrottleAssumption == Cooldown \in Nat /\ MinInterval \in Nat

Zones == {"UTC", "named"}
Backends == {"timedatectl", "etc_timezone", "localtime"}
TzAnswers == {"fails", "invalid", "valid"}

VARIABLES
    ntp,            \* what timedatectl would say of NTPSynchronized
    tzAnswers,      \* what each backend would say of the timezone
    rtcReadable,    \* the RTC is configured and can be read
    coreClock,      \* _cache in the web process, or Empty
    adapterClock,   \* _cache in the adapter
    hearing,        \* radio_health.listener_running
    sinceAttempt,   \* age of _node_time_sync_last_attempt_ts
    sinceSync,      \* age of _last_sync_ts, in the adapter
    attempt,        \* the attempt's thread: "none", "settling" or "claimed"
    outcome         \* what the last try_sync() returned

clockVars == <<ntp, tzAnswers, rtcReadable, coreClock, adapterClock, hearing, sinceAttempt,
               sinceSync, attempt, outcome>>
hostVars == <<ntp, tzAnswers, rtcReadable>>

Empty == [synchronized |-> FALSE, quality |-> "unknown", timezone |-> "UTC"]
Status == [synchronized : BOOLEAN, quality : {"unknown", "synchronized", "rtc", "system"},
           timezone : Zones]

ClockTypeOK ==
    /\ ntp \in BOOLEAN /\ rtcReadable \in BOOLEAN /\ tzAnswers \in [Backends -> TzAnswers]
    /\ coreClock \in Status /\ adapterClock \in Status
    /\ hearing \in BOOLEAN
    /\ sinceAttempt \in 0..Cooldown /\ sinceSync \in 0..MinInterval
    /\ attempt \in {"none", "settling", "claimed"}
    /\ outcome \in {"none", "too_soon", "untrusted", "synced", "failed"}

ClockInit ==
    /\ ntp \in BOOLEAN /\ rtcReadable \in BOOLEAN
    /\ tzAnswers \in [Backends -> {"fails", "valid"}]
    /\ coreClock = Empty /\ adapterClock = Empty /\ hearing = FALSE
    /\ sinceAttempt = Cooldown /\ sinceSync = MinInterval
    /\ attempt = "none" /\ outcome = "none"

\* detect_system_timezone(): the first backend with a valid answer, or UTC.
Timezone == IF \E b \in Backends : tzAnswers[b] = "valid" THEN "named" ELSE "UTC"

\* _probe(): NTP wins over the RTC.
Probe ==
    [synchronized |-> ntp, timezone |-> Timezone,
     quality |-> IF ntp THEN "synchronized" ELSE IF rtcReadable THEN "rtc" ELSE "system"]

\* is_trusted() looks at NTP alone.
Trusted(cache) == cache.synchronized

RefreshStatus ==
    /\ coreClock' = Probe
    /\ UNCHANGED <<hostVars, adapterClock, hearing, sinceAttempt, sinceSync, attempt, outcome>>

HostChanges ==
    /\ \/ ntp' = ~ntp /\ UNCHANGED <<tzAnswers, rtcReadable>>
       \/ rtcReadable' = ~rtcReadable /\ UNCHANGED <<ntp, tzAnswers>>
       \/ \E b \in Backends, a \in TzAnswers :
            tzAnswers' = [tzAnswers EXCEPT ![b] = a] /\ UNCHANGED <<ntp, rtcReadable>>
    /\ UNCHANGED <<coreClock, adapterClock, hearing, sinceAttempt, sinceSync, attempt, outcome>>

Ages ==
    /\ sinceAttempt' = IF sinceAttempt < Cooldown THEN sinceAttempt + 1 ELSE Cooldown
    /\ sinceSync' = IF sinceSync < MinInterval THEN sinceSync + 1 ELSE MinInterval
    /\ UNCHANGED <<hostVars, coreClock, adapterClock, hearing, attempt, outcome>>

\* radio_event("listener_start"): a real transition, not too soon after the
\* last attempt, spawns the next; the identity gate lets it pass.
ListenerUp ==
    /\ ~hearing /\ attempt # "claimed"
    /\ hearing' = TRUE
    /\ IF sinceAttempt >= Cooldown /\ attempt = "none"
       THEN sinceAttempt' = 0 /\ attempt' = "settling"
       ELSE UNCHANGED <<sinceAttempt, attempt>>
    /\ UNCHANGED <<hostVars, coreClock, adapterClock, sinceSync, outcome>>

ListenerDown ==
    /\ hearing
    /\ hearing' = FALSE
    /\ UNCHANGED <<hostVars, coreClock, adapterClock, sinceAttempt, sinceSync, attempt, outcome>>

\* After STARTUP_SYNC_DELAY_S the adapter claims the port, which stops the listener.
AttemptClaims ==
    /\ attempt = "settling"
    /\ attempt' = "claimed" /\ hearing' = FALSE
    /\ UNCHANGED <<hostVars, coreClock, adapterClock, sinceAttempt, sinceSync, outcome>>

\* The claim, the interface or the adapter fails: nothing was tried.
AttemptFails ==
    /\ attempt # "none"
    /\ attempt' = "none"
    /\ UNCHANGED <<hostVars, coreClock, adapterClock, hearing, sinceAttempt, sinceSync, outcome>>

\* try_sync(), in the adapter's process: its own throttle, its own cache.
TrySync ==
    /\ attempt = "claimed"
    /\ attempt' = "none"
    /\ outcome' \in IF sinceSync < MinInterval THEN {"too_soon"}
                    ELSE IF ~Trusted(adapterClock) THEN {"untrusted"}
                    ELSE {"synced", "failed"}
    /\ sinceSync' = IF outcome' = "synced" THEN 0 ELSE sinceSync
    /\ UNCHANGED <<hostVars, coreClock, adapterClock, hearing, sinceAttempt>>

\* The adapter's process is started anew.
AdapterRestarts ==
    /\ adapterClock' = Empty /\ sinceSync' = MinInterval
    /\ attempt' = IF attempt = "claimed" THEN "none" ELSE attempt
    /\ UNCHANGED <<hostVars, coreClock, hearing, sinceAttempt, outcome>>

ClockNext ==
    \/ RefreshStatus \/ HostChanges \/ Ages \/ ListenerUp \/ ListenerDown
    \/ AttemptClaims \/ AttemptFails \/ TrySync \/ AdapterRestarts
=============================================================================
