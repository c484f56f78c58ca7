------------------------------ MODULE Snapshots ------------------------------
(***************************************************************************)
(* AttachmentsSnapshotPublisher. Triggers note every attachment a          *)
(* transaction touches; the worker's refresh() publishes those anew and    *)
(* forgets the notes. A row's content is its version, 0 when there is      *)
(* none; the worker's connection sees what is not committed yet.           *)
(***************************************************************************)
EXTENDS Naturals, FiniteSets

CONSTANTS Attachments, MaxVersion      \* MaxVersion bounds the history of a row

ASSUME VersionAssumption == MaxVersion \in Nat

VARIABLES
    committed,    \* the rows and notes a new connection would see
    view,         \* what the worker's connection sees: its own transaction included
    published,    \* the snapshot
    initialized,  \* _initialized
    torn          \* history: what was published and then rolled back

snapVars == <<committed, view, published, initialized, torn>>

Versions == [Attachments -> 0..MaxVersion]
Database == [version : Versions, dirty : SUBSET Attachments]

SnapTypeOK ==
    /\ committed \in Database /\ view \in Database
    /\ published \in Versions /\ initialized \in BOOLEAN
    /\ torn \in SUBSET Attachments

SnapInit ==
    /\ committed = [version |-> [a \in Attachments |-> 0], dirty |-> {}]
    /\ view = committed
    /\ published = [a \in Attachments |-> 0]
    /\ initialized = FALSE /\ torn = {}

\* Fault: a table without its trigger.
WriteUntracked(a) ==
    /\ view.version[a] < MaxVersion
    /\ view' = [view EXCEPT !.version[a] = @ + 1]
    /\ UNCHANGED <<committed, published, initialized, torn>>

\* An attachment, a recipient, a delivery or an event is written; no row of a
\* published attachment is ever deleted.
Write(a) ==
    /\ view.version[a] < MaxVersion
    /\ view' = [view EXCEPT !.version[a] = @ + 1, !.dirty = @ \cup {a}]
    /\ UNCHANGED <<committed, published, initialized, torn>>

\* A handler commits, or rolls back; one that raises leaves its transaction to
\* whoever commits next.
Commit == committed' = view /\ UNCHANGED <<view, published, initialized, torn>>
Rollback == view' = committed /\ UNCHANGED <<committed, published, initialized, torn>>

\* The projections: of every row at first, then of the noted ones.
Projected == IF initialized THEN view.dirty ELSE Attachments

\* The projections are put in, or taken out, of a copy of the snapshot.
Updated == [a \in Attachments |-> IF a \in Projected THEN view.version[a] ELSE published[a]]

\* refresh(): the new snapshot is swapped in, and then the notes are removed
\* and everything is committed ...
Show ==
    /\ initialized' = TRUE
    /\ published' = Updated

RefreshDone ==
    /\ ~initialized \/ view.dirty # {}
    /\ Show
    /\ view' = [view EXCEPT !.dirty = {}] /\ committed' = view'
    /\ torn' = torn \ Projected

\* ... or that fails, and the whole transaction is rolled back.
RefreshUnacknowledged ==
    /\ ~initialized \/ view.dirty # {}
    /\ Show
    /\ view' = committed /\ UNCHANGED committed
    /\ torn' = (torn \ Projected)
               \cup {a \in Projected : view.version[a] # committed.version[a]}

\* Everything in memory goes, and what was not committed.
SnapRestart ==
    /\ view' = committed
    /\ published' = [a \in Attachments |-> 0] /\ initialized' = FALSE /\ torn' = {}
    /\ UNCHANGED committed

SnapNext ==
    \/ \E a \in Attachments : Write(a)
    \/ Commit \/ Rollback \/ RefreshDone \/ RefreshUnacknowledged \/ SnapRestart

\* The snapshot never lags behind the database unnoticed: what differs is noted
\* for the next refresh. The exception takes two failures: a handler that left
\* its transaction open and a refresh that could not commit (service.py:547,
\* snapshots.py:974-982).
LagIsNoted ==
    initialized => \A a \in Attachments :
        published[a] # committed.version[a] => a \in view.dirty \cup torn
=============================================================================
