---------------------------- MODULE Connectivity ----------------------------
(***************************************************************************)
(* ConnectivityMonitor: what the worker's refresh() finds out about every  *)
(* registered Relay and about the internet, how long it waits before it    *)
(* probes again, and what the pages are told. A refresh takes the profiles *)
(* first and publishes last, readers come in between.                      *)
(***************************************************************************)
EXTENDS Naturals, FiniteSets

CONSTANTS
    Relays,
    Ceiling,       \* RELAY_HEALTH_BACKOFF_CEILING_SECONDS, in health intervals (5)
    InfoInterval   \* RELAY_INFO_MIN_INTERVAL_SECONDS, in health intervals (60)

ASSUME IntervalAssumption == Ceiling \in Nat /\ InfoInterval \in Nat /\ InfoInterval > 1

Absent == "absent"
Behaviours == {"down", "sick", "mute", "impostor", "genuine"}

VARIABLES
    relay,       \* what answers under the Relay's origin
    registered,  \* mca_provider_profiles: absent, or switched on or off
    inCheck,       \* _profile_snapshot
    status,      \* _relay_statuses: what was found, and how long ago
    failures,    \* _consecutive_failures
    info,        \* age of _last_info_check, InfoInterval for "long ago or never"
    internet,    \* _internet_status
    fallback,    \* age of _last_fallback_check_at
    publishedState,   \* ConnectivitySnapshot
    refreshing,  \* refresh() is under way
    suspect      \* history: the last identity check of this Relay failed

connVars == <<relay, registered, inCheck, status, failures, info, internet, fallback, publishedState,
              refreshing, suspect>>

Attemptable == {"online", "degraded"}
RelayStates == {"online", "degraded", "unreachable", "identity_mismatch", "disabled"}
Profiles == {Absent, "on", "off"}
Unchecked == [state |-> "unknown", age |-> Ceiling]
Internets == {"unknown", "online", "offline"}

ConnTypeOK ==
    /\ relay \in [Relays -> Behaviours]
    /\ registered \in [Relays -> Profiles] /\ inCheck \in [Relays -> Profiles]
    /\ status \in [Relays -> {Unchecked} \cup [state : RelayStates, age : 0..Ceiling]]
    /\ failures \in [Relays -> 0..Ceiling] /\ info \in [Relays -> 0..InfoInterval]
    /\ internet \in Internets /\ fallback \in 0..1
    /\ publishedState \in [internet : Internets, state : [Relays -> RelayStates \cup {"unknown"}]]
    /\ refreshing \in BOOLEAN /\ suspect \in [Relays -> BOOLEAN]

ConnInit ==
    /\ relay \in [Relays -> Behaviours]
    /\ registered \in [Relays -> Profiles]
    /\ inCheck = registered
    /\ status = [r \in Relays |-> Unchecked] /\ failures = [r \in Relays |-> 0]
    /\ info = [r \in Relays |-> InfoInterval]
    /\ internet = "unknown" /\ fallback = 1
    /\ publishedState = [internet |-> "unknown", state |-> [r \in Relays |-> "unknown"]]
    /\ refreshing = FALSE /\ suspect = [r \in Relays |-> FALSE]

-----------------------------------------------------------------------------
CapAt(n, cap) == IF n < cap THEN n ELSE cap

\* One health interval passes.
MinutePasses ==
    /\ status' = [r \in Relays |-> [status[r] EXCEPT !.age = CapAt(@ + 1, Ceiling)]]
    /\ info' = [r \in Relays |-> CapAt(info[r] + 1, InfoInterval)]
    /\ fallback' = 1
    /\ UNCHANGED <<relay, registered, inCheck, failures, internet, publishedState, refreshing, suspect>>

RelayChanges(r) ==
    /\ relay' \in {[relay EXCEPT ![r] = b] : b \in Behaviours \ {relay[r]}}
    /\ UNCHANGED <<registered, inCheck, status, failures, info, internet, fallback, publishedState,
                   refreshing, suspect>>

\* A registry command of the same worker: register, switch on or off, remove.
RegistryChanges(r) ==
    /\ ~refreshing
    /\ registered' \in {[registered EXCEPT ![r] = p] : p \in Profiles \ {registered[r]}}
    /\ UNCHANGED <<relay, inCheck, status, failures, info, internet, fallback, publishedState,
                   refreshing, suspect>>

\* refresh() takes the profiles and forgets the Relays that are gone.
RefreshStarts ==
    /\ ~refreshing
    /\ refreshing' = TRUE
    /\ inCheck' = registered
    /\ status' = [r \in Relays |-> IF registered[r] = Absent THEN Unchecked ELSE status[r]]
    /\ failures' = [r \in Relays |-> IF registered[r] = Absent THEN 0 ELSE failures[r]]
    /\ info' = [r \in Relays |-> IF registered[r] = Absent THEN InfoInterval ELSE info[r]]
    /\ suspect' = [r \in Relays |-> suspect[r] /\ registered[r] # Absent]
    /\ UNCHANGED <<relay, registered, internet, fallback, publishedState>>

\* Fault: a Relay that lost its identity is not looked at again.
DueForgetful(r) ==
    \/ status[r] = Unchecked
    \/ status[r].state # "identity_mismatch" /\ status[r].age >= CapAt(2 ^ failures[r], Ceiling)

\* _due_for_health_check(): twice as long after every failure in a row.
Due(r) == status[r] = Unchecked \/ status[r].age >= CapAt(2 ^ failures[r], Ceiling)

InfoDue(r) == info[r] = InfoInterval

\* _probe_relay_with_session(), _check_identity(): an inconclusive answer
\* counts as online, and as no check at all.
Probed(r) ==
    CASE relay[r] = "down" -> "unreachable"
      [] relay[r] = "sick" -> "degraded"
      [] relay[r] = "impostor" /\ InfoDue(r) -> "identity_mismatch"
      [] OTHER -> "online"
Failed(r) == relay[r] \in {"down", "sick"}
InfoChecked(r) == relay[r] \in {"impostor", "genuine"} /\ InfoDue(r)

\* The end of refresh(): every due Relay is probed at once, a disabled one is
\* not; then the internet, by the Relays or by the fallback address.
RefreshEnds ==
    LET on    == {r \in Relays : inCheck[r] = "on"}
        due   == {r \in on : Due(r)}
        now   == [r \in Relays |->
                    IF inCheck[r] = "off" THEN [state |-> "disabled", age |-> 0]
                    ELSE IF r \in due THEN [state |-> Probed(r), age |-> 0] ELSE status[r]]
        anyOn == \E r \in on : now[r].state \in Attemptable
    IN
    /\ refreshing /\ refreshing' = FALSE
    /\ status' = now
    /\ failures' = [r \in Relays |->
          IF inCheck[r] = "off" \/ (r \in due /\ ~Failed(r)) THEN 0
          ELSE IF r \in due THEN CapAt(failures[r] + 1, Ceiling) ELSE failures[r]]
    /\ info' = [r \in Relays |-> IF r \in due /\ InfoChecked(r) THEN 0 ELSE info[r]]
    /\ suspect' = [r \in Relays |->
          IF r \in due /\ InfoChecked(r) THEN relay[r] = "impostor" ELSE suspect[r]]
    /\ IF anyOn THEN internet' = "online" /\ UNCHANGED fallback
       ELSE IF fallback = 1 THEN internet' \in {"online", "offline"} /\ fallback' = 0
       ELSE UNCHANGED <<internet, fallback>>
    /\ publishedState' = [internet |-> internet', state |-> [r \in Relays |-> now[r].state]]
    /\ UNCHANGED <<relay, registered, inCheck>>

ConnNext ==
    \/ MinutePasses \/ RefreshStarts \/ RefreshEnds
    \/ \E r \in Relays : RelayChanges(r) \/ RegistryChanges(r)

-----------------------------------------------------------------------------
\* evaluate_upload_decision(): the Relay's part of it.
UploadReady(r) == inCheck[r] = "on" /\ publishedState.state[r] \in Attemptable

\* A Relay that is registered and well for good is found usable in the end,
\* whatever back-off or mismatch its past has left
\* (connectivity_monitor.py:681-690, 800-834).
RecoveryIsNoticed ==
    \A r \in Relays :
        <>[](registered[r] = "on" /\ relay[r] = "genuine") => <>[](UploadReady(r))
=============================================================================
