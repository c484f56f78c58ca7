----------------------------- MODULE Readings -----------------------------
(***************************************************************************)
(* Telemetry: what the local radio reports is gathered for a moment and    *)
(* applied by a worker of its own (server.py, queue_telemetry_values and   *)
(* telemetry_buffer_worker), and every node's reports become records of    *)
(* one bounded history (telemetry/telemetry.py).  A reading is a number    *)
(* that grows with every report, so that an older one can be told from a   *)
(* newer one; 0 is "no reading".                                           *)
(***************************************************************************)
EXTENDS Integers, Sequences, FiniteSets, FiniteSetsExt

CONSTANTS
    Quantities,       \* temperature, humidity, pressure, voltage, current
    Remotes,      \* other nodes
    Local,        \* this machine's node
    Debounce,     \* TELEMETRY_DEBOUNCE_SECONDS
    Spacing,      \* telemetry_config["interval"]
    MaxRecords,   \* 26000
    MaxReports, LastSecond \* bounds: reports of the local node, the clock

ASSUME ReadingsAssumption ==
    /\ Debounce \in Nat \ {0} /\ Spacing \in Nat \ {0}
    /\ MaxRecords \in Nat \ {0} /\ MaxReports \in Nat /\ LastSecond \in Nat
    /\ Local \notin Remotes

VARIABLES
    reports,   \* how many reports the local node has made
    lastHeard, \* ghost: per field, the last one that carried it
    queued, queuedAge, \* telemetry_pending_values and the age of telemetry_pending_time
    takenReport,     \* values_to_apply of the worker
    shown,     \* telemetry_current
    time,
    log,       \* telemetry_history, and its file
    lastLogged \* telemetry_last_save_time: in memory only

bufferVars == <<reports, lastHeard, queued, queuedAge, takenReport, shown>>
readingsVars == <<bufferVars, time, log, lastLogged>>

NoReading == [f \in Quantities |-> 0]
Records == [node : Remotes \cup {Local}, time : 0..LastSecond]

ReadingsTypeOK ==
    /\ reports \in 0..MaxReports
    /\ {lastHeard, queued, takenReport, shown} \subseteq [Quantities -> 0..MaxReports]
    /\ queuedAge \in 0..Debounce
    /\ time \in 0..LastSecond
    /\ log \in Seq(Records) /\ Len(log) <= MaxRecords
    /\ lastLogged \in -Spacing..LastSecond

\* time.time() is far from 0, the value telemetry_last_save_time starts with.
ReadingsInit ==
    /\ reports = 0 /\ queuedAge = 0
    /\ lastHeard = NoReading /\ queued = NoReading /\ takenReport = NoReading /\ shown = NoReading
    /\ time = 0 /\ log = <<>> /\ lastLogged = -Spacing

\* A field a report does not carry keeps what it has.
Merge(new, old) == [f \in Quantities |-> IF new[f] # 0 THEN new[f] ELSE old[f]]

Trimmed(s) == IF Len(s) > MaxRecords THEN SubSeq(s, Len(s) - MaxRecords + 1, Len(s)) ELSE s

\* Fault: a new report takes the place of the one that waits.
ReportReplaces(S) ==
    /\ reports < MaxReports
    /\ reports' = reports + 1
    /\ queued' = [f \in Quantities |-> IF f \in S THEN reports + 1 ELSE 0]
    /\ lastHeard' = Merge(queued', lastHeard)
    /\ queuedAge' = 0
    /\ UNCHANGED <<takenReport, shown, time, log, lastLogged>>

\* process_telemetry_line of the local node: merged into what waits, and the
\* wait starts again.
Report(S) ==
    /\ reports < MaxReports
    /\ LET values == [f \in Quantities |-> IF f \in S THEN reports + 1 ELSE 0] IN
          /\ reports' = reports + 1
          /\ lastHeard' = Merge(values, lastHeard)
          /\ queued' = Merge(values, queued)
    /\ queuedAge' = 0
    /\ UNCHANGED <<takenReport, shown, time, log, lastLogged>>

\* add_telemetry_record
Logged ==
    /\ log' = Trimmed(Append(log, [node |-> Local, time |-> time]))
    /\ lastLogged' = time

\* Taken and emptied under telemetry_buffer_lock ...
BufferTakes ==
    /\ takenReport = NoReading /\ queued # NoReading /\ queuedAge = Debounce
    /\ takenReport' = queued
    /\ queued' = NoReading
    /\ queuedAge' = 0
    /\ UNCHANGED <<reports, lastHeard, shown, time, log, lastLogged>>

\* ... and applied under state_lock; add_telemetry_record at most once in Spacing.
BufferApplies ==
    /\ takenReport # NoReading
    /\ shown' = Merge(takenReport, shown)
    /\ IF time - lastLogged >= Spacing THEN Logged ELSE UNCHANGED <<log, lastLogged>>
    /\ takenReport' = NoReading
    /\ UNCHANGED <<reports, lastHeard, queued, queuedAge, time>>

OfNode(n) == {i \in DOMAIN log : log[i].node = n}

\* Fault: the list is searched from its beginning.
TooSoonAfterFirst(n) == OfNode(n) # {} /\ time - log[Min(OfNode(n))].time < Spacing

\* The newest record of the node is not Spacing old yet.
TooSoon(n) == OfNode(n) # {} /\ time - log[Max(OfNode(n))].time < Spacing

\* add_node_telemetry_record: a report that comes too soon is merged into the
\* node's last record, another one is a record of its own.
RemoteReport(n) ==
    /\ log' = IF TooSoon(n) THEN log ELSE Trimmed(Append(log, [node |-> n, time |-> time]))
    /\ UNCHANGED <<bufferVars, time, lastLogged>>

ReadingsTick ==
    /\ time < LastSecond
    /\ time' = time + 1
    /\ queuedAge' = IF queued # NoReading /\ queuedAge < Debounce THEN queuedAge + 1 ELSE queuedAge
    /\ UNCHANGED <<reports, lastHeard, queued, takenReport, shown, log, lastLogged>>

\* The process starts again: the history is read back, what waited is lost and
\* what is shown comes from the radio's own information, if it has any.
ReadingsRestart ==
    /\ queued' = NoReading /\ takenReport' = NoReading /\ queuedAge' = 0
    /\ lastHeard' = NoReading
    /\ shown' \in {NoReading, lastHeard}
    /\ lastLogged' = -Spacing
    /\ UNCHANGED <<reports, time, log>>

ReadingsNext ==
    \/ \E S \in SUBSET Quantities \ {{}} : Report(S)
    \/ BufferTakes \/ BufferApplies
    \/ \E n \in Remotes : RemoteReport(n)
    \/ ReadingsTick \/ ReadingsRestart

-----------------------------------------------------------------------------
(* Safety *)

\* The last reading of every field is shown, or on its way and not behind an
\* older one: a report that arrives while the worker stands between its two
\* locks is neither lost nor overtaken.
NewestIsOnItsWay ==
    \A f \in Quantities :
        lastHeard[f] # 0 =>
            lastHeard[f] = IF queued[f] # 0 THEN queued[f] ELSE IF takenReport[f] # 0 THEN takenReport[f] ELSE shown[f]

\* Two records of one remote node are at least an interval apart, however many
\* restarts and other nodes' records come between.
RemoteRecordsAreSpaced ==
    \A n \in Remotes : \A i, j \in OfNode(n) :
        i < j => log[j].time - log[i].time >= Spacing
=============================================================================
