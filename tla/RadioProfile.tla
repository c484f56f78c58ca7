---------------------------- MODULE RadioProfile ----------------------------
(***************************************************************************)
(* Which radio this installation belongs to: instance.json, the profile    *)
(* bound at boot, the verdict of the one identity check, the requests that *)
(* detect, accept and activate another radio, and the thread that records  *)
(* when the installation was given its time. A request reads the identity, *)
(* probes for half a minute and saves the whole record.                    *)
(***************************************************************************)
EXTENDS Naturals

CONSTANTS
    Radios,         \* node ids; a profile is named after its radio
    ProfileRequests,       \* activate requests under way
    MaxConfirmed    \* bound of the instants NTP confirms

ASSUME ConfirmedAssumption == MaxConfirmed \in Nat

NoRadio == "no radio"
Pending == 0        \* assigned_at is null

VARIABLES
    plugged,        \* the radio on the serial port
    saved,          \* instance.json and InstanceManager._data
    identity,       \* INSTANCE_IDENTITY, the server's copy
    bound,          \* ACTIVE_PROFILE_ID: whose files are open
    profiles,       \* profiles with a profile.json
    verdict,        \* RADIO_IDENTITY_RESULT.status
    listener,       \* the listener's thread was started
    freed,          \* radio_connection_manager is released
    hears,          \* the radio the listener's subprocess is connected to
    activation,     \* per request: the profile it selected and the identity it read
    restartDue,     \* _restart_meshcenter_after_profile_switch() is under way
    assigner,       \* the assignment thread: what it read, while it is at work
    confirmed,      \* the instant NTP last confirmed
    exchanged       \* history: since boot the radio was exchanged for another

profileVars == <<plugged, saved, identity, bound, profiles, verdict, listener, freed, hears,
                 activation, restartDue, assigner, confirmed, exchanged>>

Identities == [profile : Radios, radio : Radios, assigned : 0..MaxConfirmed]
Idle == [pc |-> "idle"]
Verdicts == {"NOT_CHECKED", "MATCH", "MISMATCH", "NOT_FOUND", "DETECTION_ERROR"}

\* What detect_connected_radio() finds on the serial port.
OnPort == Radios \cup {NoRadio}

ProfileTypeOK ==
    /\ plugged \in OnPort /\ hears \in OnPort
    /\ saved \in Identities /\ identity \in Identities
    /\ bound \in Radios /\ profiles \subseteq Radios /\ verdict \in Verdicts
    /\ listener \in BOOLEAN /\ freed \in BOOLEAN /\ restartDue \in BOOLEAN
    /\ activation \in [ProfileRequests ->
          {Idle} \cup [pc : {"probing"}, target : Radios, copy : Identities]]
    /\ assigner \in {Idle, [pc |-> "waiting"]} \cup [pc : {"saving"}, copy : Identities]
    /\ confirmed \in 0..MaxConfirmed

\* compare_radio_identity(), and a probe that fails.
Compare(own, found) ==
    IF found = NoRadio THEN "NOT_FOUND" ELSE IF found = own THEN "MATCH" ELSE "MISMATCH"

\* ensure_profile(), create_clean_profile(): the profile's directory and files.
WithProfile(r) == profiles' = profiles \cup {r}

\* Fault: the listener is started whatever the probe says.
StartedAnyway(file, v) ==
    LET id == [file EXCEPT !.profile = file.radio] IN
    /\ saved' = id /\ identity' = id /\ bound' = file.radio
    /\ WithProfile(file.radio)
    /\ verdict' = v
    /\ listener' = TRUE
    /\ freed' = FALSE /\ hears' = NoRadio /\ exchanged' = FALSE
    /\ activation' = [q \in ProfileRequests |-> Idle]
    /\ restartDue' = FALSE
    /\ assigner' = [pc |-> "waiting"]

\* The module body of server.py and start_runtime(): the profile is bound to
\* the accepted radio, then the radio is probed once.
Started(file, v) ==
    LET id == [file EXCEPT !.profile = file.radio] IN
    /\ saved' = id /\ identity' = id /\ bound' = file.radio
    /\ WithProfile(file.radio)
    /\ verdict' = v
    /\ listener' = (v = "MATCH")
    /\ freed' = FALSE /\ hears' = NoRadio /\ exchanged' = FALSE
    /\ activation' = [q \in ProfileRequests |-> Idle]
    /\ restartDue' = FALSE
    /\ assigner' = [pc |-> "waiting"]

ProfileInit ==
    /\ plugged \in OnPort
    /\ \E r \in Radios : /\ saved = [profile |-> r, radio |-> r, assigned |-> Pending]
                         /\ bound = r /\ profiles = {r} /\ verdict = Compare(r, plugged)
    /\ identity = saved
    /\ listener = (verdict = "MATCH")
    /\ freed = FALSE /\ hears = NoRadio /\ exchanged = FALSE
    /\ activation = [q \in ProfileRequests |-> Idle] /\ restartDue = FALSE
    /\ assigner = [pc |-> "waiting"] /\ confirmed = 0

\* The service is restarted, by a profile switch or for any other reason; the
\* probe of the radio may fail. No identity is compared then.
Boot ==
    /\ \/ Started(saved, Compare(saved.radio, plugged))
       \/ Started(saved, "DETECTION_ERROR")
    /\ UNCHANGED <<plugged, confirmed>>

RestartRefused ==    \* systemctl fails: the process goes on as it was
    /\ restartDue
    /\ restartDue' = FALSE
    /\ UNCHANGED <<plugged, saved, identity, bound, profiles, verdict, listener, freed, hears,
                   activation, assigner, confirmed, exchanged>>

Exchange ==
    /\ plugged' \in OnPort \ {plugged}
    /\ hears' = NoRadio
    /\ exchanged' = (exchanged \/ plugged' # NoRadio)
    /\ UNCHANGED <<saved, identity, bound, profiles, verdict, listener, freed, activation,
                   restartDue, assigner, confirmed>>

\* The listener's loop connects to whatever is on the port.
ListenerConnects ==
    /\ listener /\ ~freed /\ hears # plugged
    /\ hears' = plugged
    /\ UNCHANGED <<plugged, saved, identity, bound, profiles, verdict, listener, freed,
                   activation, restartDue, assigner, confirmed, exchanged>>

\* /api/node-manager/radio/detect, and /api/radio_connection/release.
DetectRadio ==
    /\ ~freed
    /\ freed' = TRUE /\ hears' = NoRadio
    /\ UNCHANGED <<plugged, saved, identity, bound, profiles, verdict, listener, activation,
                   restartDue, assigner, confirmed, exchanged>>

\* /api/radio_connection/reconnect asks the verdict, not the radio.
Reconnect ==
    /\ freed /\ verdict = "MATCH"
    /\ freed' = FALSE
    /\ UNCHANGED <<plugged, saved, identity, bound, profiles, verdict, listener, hears,
                   activation, restartDue, assigner, confirmed, exchanged>>

\* Fault: only the profile changes hands.
AcceptHalf(r) ==
    /\ plugged = r
    /\ saved' = [saved EXCEPT !.profile = r] /\ identity' = saved'
    /\ WithProfile(r) /\ verdict' = "MATCH" /\ restartDue' = TRUE
    /\ UNCHANGED <<plugged, bound, listener, freed, hears, activation, assigner, confirmed,
                   exchanged>>

\* /api/node-manager/radio/accept: probes first and reads the identity after,
\* so that it saves what is current; the verdict of the process becomes MATCH.
AcceptRadio(r) ==
    /\ plugged = r
    /\ saved' = [saved EXCEPT !.profile = r, !.radio = r] /\ identity' = saved'
    /\ WithProfile(r)
    /\ verdict' = "MATCH"
    /\ restartDue' = TRUE
    /\ UNCHANGED <<plugged, bound, listener, freed, hears, activation, assigner, confirmed,
                   exchanged>>

\* /api/node-manager/profiles/<id>/activate: reads the identity, releases the
\* port and probes ...
ActivateStarts(q, r) ==
    /\ activation[q] = Idle
    /\ r \in profiles /\ r # saved.profile
    /\ activation' = [activation EXCEPT ![q] = [pc |-> "probing", target |-> r, copy |-> saved]]
    /\ freed' = TRUE /\ hears' = NoRadio
    /\ UNCHANGED <<plugged, saved, identity, bound, profiles, verdict, listener, restartDue,
                   assigner, confirmed, exchanged>>

\* ... and saves the identity it read, with the other radio in it.
ActivateEnds(q) ==
    /\ activation[q].pc = "probing"
    /\ activation' = [activation EXCEPT ![q] = Idle]
    /\ \/ /\ plugged = activation[q].target
          /\ saved' = [activation[q].copy EXCEPT !.profile = plugged, !.radio = plugged]
          /\ identity' = saved'
          /\ restartDue' = TRUE
       \/ /\ plugged # activation[q].target
          /\ UNCHANGED <<saved, identity, restartDue>>
    /\ UNCHANGED <<plugged, bound, profiles, verdict, listener, freed, hears, assigner, confirmed,
                   exchanged>>

\* assign_installation_time_when_confirmed(): once NTP is confirmed it reads
\* the identity ...
AssignReads ==
    /\ assigner.pc = "waiting"
    /\ confirmed < MaxConfirmed
    /\ confirmed' = confirmed + 1
    /\ assigner' = [pc |-> "saving", copy |-> [saved EXCEPT !.assigned = confirmed']]
    /\ UNCHANGED <<plugged, saved, identity, bound, profiles, verdict, listener, freed, hears,
                   activation, restartDue, exchanged>>

\* ... and saves it, past INSTANCE_IDENTITY.
AssignSaves ==
    /\ assigner.pc = "saving"
    /\ saved' = assigner.copy
    /\ assigner' = Idle
    /\ UNCHANGED <<plugged, identity, bound, profiles, verdict, listener, freed, hears,
                   activation, restartDue, confirmed, exchanged>>

ProfileNext ==
    \/ Boot \/ RestartRefused \/ Exchange \/ ListenerConnects \/ DetectRadio \/ Reconnect
    \/ AssignReads \/ AssignSaves
    \/ \E r \in Radios : AcceptRadio(r) \/ \E q \in ProfileRequests : ActivateStarts(q, r)
    \/ \E q \in ProfileRequests : ActivateEnds(q)

-----------------------------------------------------------------------------
\* The stored identity never mixes the profile of one radio with the name of
\* another, whoever saves last (server.py:5018-5020, 5096-5115, 5161-5252).
ProfileMatchesRadio == saved.profile = saved.radio

\* A radio writes into the files of another one's profile only after somebody
\* exchanged the radio while the process was running: what was on the port at
\* boot never does (server.py:5935-5937, 6080-6083).
ForeignOnlyAfterExchange == hears \notin {NoRadio, bound} => exchanged
=============================================================================
