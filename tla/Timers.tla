------------------------------- MODULE Timers -------------------------------
(***************************************************************************)
(* The countdown timers of timer_service.py and their routes in            *)
(* api_system.py. Any number of pages may work on the same timer; each     *)
(* operation is one critical section of _lock. The countdown itself runs   *)
(* in the pages, which tell the server when it reached zero.               *)
(***************************************************************************)
EXTENDS Notifications

CONSTANTS
    TimerIds,     \* ids of timers
    Pages,        \* pages whose request to finish a timer may be under way
    MaxTime       \* bound of the clock

ASSUME TimersAssumption == MaxTime \in Nat \ {0}

VARIABLES
    now,          \* int(time.time())
    tstate,       \* _timers[t].state, "none" before create and after delete
    banked,       \* accumulated_s
    segment,      \* segment_started_at, 0 when it is None
    ran,          \* history: how long the timer has really been running
    finishing     \* per page: the timer its /finish request has just marked

timerVars == <<now, tstate, banked, segment, ran, finishing, notes>>

TimerStates == {"none", "running", "paused", "stopped", "finished"}
NoTimer == "no timer"

TimersTypeOK ==
    /\ NotesTypeOK
    /\ now \in 1..MaxTime
    /\ tstate \in [TimerIds -> TimerStates]
    /\ banked \in [TimerIds -> Nat]
    /\ segment \in [TimerIds -> 0..MaxTime]
    /\ finishing \in [Pages -> TimerIds \cup {NoTimer}]

TimersInit ==
    /\ NotesInit
    /\ now = 1
    /\ tstate = [t \in TimerIds |-> "none"]
    /\ banked = [t \in TimerIds |-> 0]
    /\ segment = [t \in TimerIds |-> 0]
    /\ ran = [t \in TimerIds |-> 0]
    /\ finishing = [p \in Pages |-> NoTimer]

\* get_elapsed()
Elapsed(t) ==
    IF tstate[t] = "running" /\ segment[t] # 0
    THEN banked[t] + (now - segment[t]) ELSE banked[t]

\* _bank_running_segment(): folds a running segment in, once.
Bank(t) ==
    /\ banked' = [banked EXCEPT ![t] = Elapsed(t)]
    /\ segment' = [segment EXCEPT ![t] = IF tstate[t] = "running" THEN 0 ELSE @]

Second ==
    /\ now < MaxTime
    /\ now' = now + 1
    /\ ran' = [t \in TimerIds |-> IF tstate[t] = "running" THEN ran[t] + 1 ELSE ran[t]]
    /\ UNCHANGED <<tstate, banked, segment, finishing, notes>>

\* create_timer(), and reset_timer() from any state.
StartAfresh(t) ==
    /\ tstate' = [tstate EXCEPT ![t] = "running"]
    /\ banked' = [banked EXCEPT ![t] = 0]
    /\ segment' = [segment EXCEPT ![t] = now]
    /\ ran' = [ran EXCEPT ![t] = 0]
    /\ UNCHANGED <<now, finishing, notes>>

CreateTimer(t) == tstate[t] = "none" /\ StartAfresh(t)

ResetTimer(t) == tstate[t] # "none" /\ StartAfresh(t)

PauseTimer(t) ==
    /\ tstate[t] = "running"
    /\ Bank(t)
    /\ tstate' = [tstate EXCEPT ![t] = "paused"]
    /\ UNCHANGED <<now, ran, finishing, notes>>

\* Fault: a resume that leaves the anchor of the segment unset.
ResumeWithoutAnchor(t) ==
    /\ tstate[t] = "paused"
    /\ tstate' = [tstate EXCEPT ![t] = "running"]
    /\ UNCHANGED <<now, banked, segment, ran, finishing, notes>>

ResumeTimer(t) ==
    /\ tstate[t] = "paused"
    /\ segment' = [segment EXCEPT ![t] = now]
    /\ tstate' = [tstate EXCEPT ![t] = "running"]
    /\ UNCHANGED <<now, banked, ran, finishing, notes>>

StopTimer(t) ==
    /\ tstate[t] \in {"running", "paused"}
    /\ Bank(t)
    /\ tstate' = [tstate EXCEPT ![t] = "stopped"]
    /\ UNCHANGED <<now, ran, finishing, notes>>

DeleteTimer(t) ==
    /\ tstate[t] # "none"
    /\ tstate' = [tstate EXCEPT ![t] = "none"]
    /\ banked' = [banked EXCEPT ![t] = 0]
    /\ segment' = [segment EXCEPT ![t] = 0]
    /\ ran' = [ran EXCEPT ![t] = 0]
    /\ UNCHANGED <<now, finishing, notes>>

\* /api/timers/<tid>/finish, first mark_finished(), whatever the state was ...
MarkFinished(p, t) ==
    /\ finishing[p] = NoTimer
    /\ tstate[t] # "none"
    /\ Bank(t)
    /\ tstate' = [tstate EXCEPT ![t] = "finished"]
    /\ finishing' = [finishing EXCEPT ![p] = t]
    /\ UNCHANGED <<now, ran, notes>>

\* ... then the notification and the mesh message, outside the lock.
AnnounceFinish(p) ==
    /\ finishing[p] # NoTimer
    /\ notes' = Pushed(notes)
    /\ finishing' = [finishing EXCEPT ![p] = NoTimer]
    /\ UNCHANGED <<now, tstate, banked, segment, ran>>

\* Timers and notifications live in memory only.
TimersRestart ==
    /\ tstate' = [t \in TimerIds |-> "none"]
    /\ banked' = [t \in TimerIds |-> 0]
    /\ segment' = [t \in TimerIds |-> 0]
    /\ ran' = [t \in TimerIds |-> 0]
    /\ finishing' = [p \in Pages |-> NoTimer]
    /\ notes' = <<>>
    /\ UNCHANGED now

PagesStep == NotesNext /\ UNCHANGED <<now, tstate, banked, segment, ran, finishing>>

TimersNext ==
    \/ Second \/ TimersRestart \/ PagesStep
    \/ \E t \in TimerIds :
        \/ CreateTimer(t) \/ ResetTimer(t) \/ PauseTimer(t) \/ ResumeTimer(t)
        \/ StopTimer(t) \/ DeleteTimer(t)
        \/ \E p \in Pages : MarkFinished(p, t)
    \/ \E p \in Pages : AnnounceFinish(p)

-----------------------------------------------------------------------------
\* Whatever pages pause, resume, stop, reset and finish in whatever order, a
\* timer shows the time it was really running: no segment is lost and none is
\* banked twice (timer_service.py:37-44, 64-126).
TimerKeepsTime == \A t \in TimerIds : Elapsed(t) = ran[t]
=============================================================================
