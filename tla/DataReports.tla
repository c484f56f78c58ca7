----------------------------- MODULE DataReports -----------------------------
(***************************************************************************)
(* The actions of a schedule rule, schedule_actions.py: a data report reads *)
(* telemetry of a node and sends it, with its age or not at all when it is  *)
(* stale; a message goes out over the radio and then into the chat history. *)
(***************************************************************************)
EXTENDS Integers, FiniteSets, FiniteSetsExt

CONSTANTS
    Fields,       \* telemetry fields a report asks for
    Threshold,    \* stale_threshold_min, in units of MaxAge
    MaxAge        \* bound of a reading's age

Unknown == -1     \* a field that was never recorded
Undated == -2     \* a value without a timestamp
Policies == {"send_with_age", "skip_if_stale"}
Outcomes == {"none", "no data", "skipped as stale", "not sent", "sent", "sent with age"}

ASSUME AgeAssumption == MaxAge \in Nat /\ Threshold \in Nat

VARIABLES
    reading,      \* per field: the age of its value
    radioUp,      \* the port is not released to another program
    report,       \* the last report: its policy, the age of its data, its outcome
    chatLog       \* whether the last message on the air is in the chat history

reportVars == <<reading, radioUp, report, chatLog>>

ReportsTypeOK ==
    /\ reading \in [Fields -> {Unknown, Undated} \cup 0..MaxAge]
    /\ radioUp \in BOOLEAN /\ chatLog \in BOOLEAN
    /\ report \in [policy : Policies, age : 0..MaxAge, outcome : Outcomes]

ReportsInit ==
    /\ reading = [f \in Fields |-> Unknown]
    /\ radioUp = TRUE /\ chatLog = TRUE
    /\ report = [policy |-> "send_with_age", age |-> 0, outcome |-> "none"]

\* _get_field_value(), over the fields that have a value: those with a timestamp.
Dated == {f \in Fields : reading[f] >= 0}

\* age_s: since the oldest of them, or no time at all.
DataAge == Max({0} \cup {reading[f] : f \in Dated})

\* send_mesh_message(): refused while the port is released; the transport may
\* fail; the chat history is written after the send, and may fail alone.
MeshMessage(success) ==
    \/ /\ radioUp
       /\ report' = success
       /\ chatLog' \in BOOLEAN
    \/ /\ report' = [success EXCEPT !.outcome = "not sent"]
       /\ UNCHANGED chatLog

\* _do_send_data_report()
DataReport(policy) ==
    LET answer(o) == [policy |-> policy, age |-> DataAge, outcome |-> o] IN
    /\ UNCHANGED <<reading, radioUp>>
    /\ \/ /\ \A f \in Fields : reading[f] = Unknown
          /\ report' = answer("no data") /\ UNCHANGED chatLog
       \/ /\ \E f \in Fields : reading[f] # Unknown
          /\ DataAge > Threshold
          /\ MeshMessage(answer("sent with age"))
       \/ /\ \E f \in Fields : reading[f] # Unknown
          /\ DataAge <= Threshold /\ policy = "skip_if_stale"
          /\ report' = answer("skipped as stale") /\ UNCHANGED chatLog
       \/ /\ \E f \in Fields : reading[f] # Unknown
          /\ DataAge <= Threshold /\ policy # "skip_if_stale"
          /\ MeshMessage(answer("sent"))

\* Telemetry of the node arrives, with or without a time of its own.
FieldArrives(f) ==
    /\ reading' \in {[reading EXCEPT ![f] = 0], [reading EXCEPT ![f] = Undated]}
    /\ UNCHANGED <<radioUp, report, chatLog>>

FieldsAge ==
    /\ \A f \in Dated : reading[f] < MaxAge
    /\ reading' = [f \in Fields |-> IF f \in Dated THEN reading[f] + 1 ELSE reading[f]]
    /\ UNCHANGED <<radioUp, report, chatLog>>

\* api_system's release and reconnect of the port, as this module sees it.
PortToggles == radioUp' = ~radioUp /\ UNCHANGED <<reading, report, chatLog>>

ReportsNext ==
    \/ FieldsAge \/ PortToggles
    \/ \E f \in Fields : FieldArrives(f)
    \/ \E policy \in Policies : DataReport(policy)

-----------------------------------------------------------------------------
\* What is skipped as stale is stale, as the notification says
\* (schedule_actions.py:215). It is not so: the test of the policy is the
\* "elif" of the test of the age (lines 208-211).
SkippedIsStale == report.outcome = "skipped as stale" => report.age > Threshold
=============================================================================
