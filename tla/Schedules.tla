------------------------------ MODULE Schedules ------------------------------
(***************************************************************************)
(* The schedule engine of schedule_engine.py: a ticker thread that wakes   *)
(* at the start of every minute and runs the rules of a file, and requests *)
(* that edit that file. Both hold _lock from the load to the save; running *)
(* an action may take minutes. The file is written in place, and a file    *)
(* that does not parse loads as no rules.                                  *)
(***************************************************************************)
EXTENDS Integers, Sequences, FiniteSets

CONSTANTS
    Daily, Interval, Once,   \* rule ids by trigger mode
    Malformed,               \* daily rules whose time does not parse
    Editors,                 \* requests under way
    Minute,                  \* units of the clock in a minute
    MinGap,                  \* the 50 seconds of _should_fire in those units
    Every,                   \* the interval of an interval rule in those units
    DueMinute,               \* the minute daily and one-time rules ask for
    MaxRules, MaxClock, MaxRestarts    \* bounds

Rules == Daily \cup Interval \cup Once
Ticker == "ticker"
Nobody == "nobody"

ASSUME SchedulesAssumption ==
    /\ Malformed \subseteq Daily
    /\ Daily \cap Interval = {} /\ Daily \cap Once = {} /\ Interval \cap Once = {}
    /\ Minute \in Nat \ {0} /\ MinGap \in 1..Minute /\ Every \in Nat \ {0}
    /\ MaxRules \in Nat /\ MaxRules <= Cardinality(Rules)
    /\ DueMinute \in Nat /\ MaxClock \in Nat \ {0} /\ MaxRestarts \in Nat
    /\ Ticker \notin Editors /\ Nobody \notin Editors

VARIABLES
    clock,       \* time.time()
    file,        \* what schedules.json loads as: <<>> while it is being written
    lock,        \* owner of _lock
    tpc,         \* the ticker: "asleep", "checking" a rule, "saving"
    wake,        \* when it wakes
    rules, index,   \* its local list and the index of the next rule
    nowTs,       \* now_ts, read when the tick began
    changed,     \* its local flag
    writing,     \* per editor: the list it is writing, while it owns the lock
    restarts,    \* history, bounds the crashes
    last,        \* history: when each rule was last executed, by now_ts; 0 if never,
                 \* or if the file may not have it: edited, or a tick cut short
    gone         \* history: rules that were deleted

schedVars == <<clock, file, lock, tpc, wake, rules, index, nowTs, changed, writing,
               restarts, last, gone>>
tickVars == <<tpc, wake, rules, index, nowTs, changed>>

Rule == [id : Rules, on : BOOLEAN, fired : 0..MaxClock]
Ids(list) == {list[i].id : i \in DOMAIN list}

MinuteOf(t) == t \div Minute

SchedTypeOK ==
    /\ clock \in 1..MaxClock
    /\ file \in Seq(Rule)
    /\ lock \in Editors \cup {Ticker, Nobody}
    /\ tpc \in {"asleep", "checking", "saving"}
    /\ rules \in Seq(Rule) /\ index \in 1..(Len(rules) + 1)
    /\ nowTs \in 0..MaxClock /\ changed \in BOOLEAN
    /\ writing \in [Editors -> {<<>>} \cup Seq(Rule)]
    /\ last \in [Rules -> 0..MaxClock] /\ gone \subseteq Rules

SchedInit ==
    /\ clock = 1 /\ restarts = 0
    /\ \E list \in {l \in [1..MaxRules -> Rules] : \A i, j \in 1..MaxRules : l[i] = l[j] => i = j} :
        file = [i \in DOMAIN list |-> [id |-> list[i], on |-> TRUE, fired |-> 0]]
    /\ lock = Nobody
    /\ tpc = "asleep" /\ wake = 1 /\ rules = <<>> /\ index = 1 /\ nowTs = 0 /\ changed = FALSE
    /\ writing = [e \in Editors |-> <<>>]
    /\ last = [r \in Rules |-> 0] /\ gone = {}

TimePasses ==
    /\ clock < MaxClock
    /\ clock' = clock + 1
    /\ UNCHANGED <<file, lock, tickVars, writing, restarts, last, gone>>

-----------------------------------------------------------------------------
(* The ticker                                                              *)

\* _should_fire(): a one-time rule and a daily rule look at the clock of this
\* moment, an interval rule at that of the start of the tick.
ShouldFire(r) ==
    \/ /\ r.id \in Daily
       /\ MinuteOf(clock) = DueMinute
       /\ nowTs - r.fired >= MinGap
    \/ /\ r.id \in Interval
       /\ r.fired = 0 \/ nowTs - r.fired >= Every
    \/ /\ r.id \in Once
       /\ r.fired = 0
       /\ MinuteOf(clock) = DueMinute

Sleep ==
    /\ tpc' = "asleep"
    /\ wake' = (MinuteOf(clock) + 1) * Minute
    /\ rules' = <<>> /\ index' = 1 /\ changed' = FALSE /\ nowTs' = 0

\* The clock is not trusted (yet): nothing runs in this minute.
TickUntrusted ==
    /\ tpc = "asleep" /\ clock >= wake
    /\ Sleep
    /\ UNCHANGED <<clock, file, lock, writing, restarts, last, gone>>

\* Fault: a tick that does not take the lock.
TickStartUnlocked ==
    /\ tpc = "asleep" /\ clock >= wake
    /\ tpc' = "checking" /\ rules' = file /\ index' = 1 /\ changed' = FALSE /\ nowTs' = clock
    /\ UNCHANGED <<clock, file, lock, wake, writing, restarts, last, gone>>

TickStart ==
    /\ tpc = "asleep" /\ clock >= wake /\ lock = Nobody
    /\ lock' = Ticker
    /\ tpc' = "checking" /\ rules' = file /\ index' = 1 /\ changed' = FALSE /\ nowTs' = clock
    /\ UNCHANGED <<clock, file, wake, writing, restarts, last, gone>>

Skip ==
    /\ tpc = "checking" /\ index <= Len(rules)
    /\ \/ ~rules[index].on
       \/ rules[index].id \notin Malformed /\ ~ShouldFire(rules[index])
    /\ index' = index + 1
    /\ UNCHANGED <<clock, file, lock, tpc, wake, rules, nowTs, changed, writing, restarts, last,
                   gone>>

\* Fault: the tick forgets when it fired the rule.
FireUnrecorded(r) ==
    /\ tpc = "checking" /\ index <= Len(rules) /\ rules[index].id = r
    /\ rules[index].on /\ r \notin Malformed /\ ShouldFire(rules[index])
    /\ index' = index + 1
    /\ changed' = TRUE
    /\ last' = [last EXCEPT ![r] = nowTs]
    /\ UNCHANGED <<clock, file, lock, tpc, wake, rules, nowTs, writing, restarts, gone>>

\* The actions and the notification of a rule: each may fail, which is caught
\* and notified, and none of that is told to the tick.
Fire(r) ==
    /\ tpc = "checking" /\ index <= Len(rules) /\ rules[index].id = r
    /\ rules[index].on /\ r \notin Malformed /\ ShouldFire(rules[index])
    /\ rules' = [rules EXCEPT ![index].fired = nowTs, ![index].on = r \notin Once]
    /\ index' = index + 1
    /\ changed' = TRUE
    /\ last' = [last EXCEPT ![r] = nowTs]
    /\ UNCHANGED <<clock, file, lock, tpc, wake, nowTs, writing, restarts, gone>>

\* What was executed in this tick and is not saved yet.
Unsaved == {r \in Rules : changed /\ last[r] = nowTs /\ r \in Ids(rules)}

Forget(lost) == last' = [r \in Rules |-> IF r \in lost THEN 0 ELSE last[r]]

\* map(int, ...) raises out of the tick, past the save.
TickRaises ==
    /\ tpc = "checking" /\ index <= Len(rules)
    /\ rules[index].on /\ rules[index].id \in Malformed
    /\ lock' = Nobody
    /\ Forget(Unsaved)
    /\ Sleep
    /\ UNCHANGED <<clock, file, writing, restarts, gone>>

\* _save() opens the file, which empties it, ...
TickSaves ==
    /\ tpc = "checking" /\ index > Len(rules) /\ changed
    /\ tpc' = "saving" /\ file' = <<>>
    /\ UNCHANGED <<clock, lock, wake, rules, index, nowTs, changed, writing, restarts, last,
                   gone>>

\* ... and writes it. A tick that fired nothing saves nothing.
TickEnds ==
    /\ \/ tpc = "saving" /\ file' = rules
       \/ tpc = "checking" /\ index > Len(rules) /\ ~changed /\ file' = file
    /\ lock' = Nobody
    /\ Sleep
    /\ UNCHANGED <<clock, writing, restarts, last, gone>>

TickerStep ==
    \/ TickUntrusted \/ TickStart \/ Skip \/ TickRaises \/ TickSaves \/ TickEnds
    \/ \E r \in Rules : Fire(r)

-----------------------------------------------------------------------------
(* Requests                                                                *)

BeginsWriting(e, list) ==
    /\ lock' = e
    /\ writing' = [writing EXCEPT ![e] = list]
    /\ file' = <<>>

\* create_rule(): a fresh id, at the end of the list.
CreateRule(e, r) ==
    /\ lock = Nobody
    /\ r \notin Ids(file) \cup gone /\ Len(file) < MaxRules
    /\ BeginsWriting(e, Append(file, [id |-> r, on |-> TRUE, fired |-> 0]))
    /\ Forget({r})
    /\ UNCHANGED <<clock, tickVars, restarts, gone>>

\* update_rule(): the request's body replaces the rule; last_fired_at is what
\* the page sends, or 0.
UpdateRule(e, i, on, keep) ==
    /\ lock = Nobody
    /\ i \in DOMAIN file
    /\ BeginsWriting(e, [file EXCEPT ![i].on = on, ![i].fired = IF keep THEN @ ELSE 0])
    /\ Forget({file[i].id})
    /\ UNCHANGED <<clock, tickVars, restarts, gone>>

ToggleRule(e, i) ==
    /\ lock = Nobody
    /\ i \in DOMAIN file
    /\ BeginsWriting(e, [file EXCEPT ![i].on = ~@])
    /\ UNCHANGED <<clock, tickVars, restarts, last, gone>>

DeleteRule(e, i) ==
    /\ lock = Nobody
    /\ i \in DOMAIN file
    /\ BeginsWriting(e, SubSeq(file, 1, i - 1) \o SubSeq(file, i + 1, Len(file)))
    /\ gone' = gone \cup {file[i].id}
    /\ UNCHANGED <<clock, tickVars, restarts, last>>

\* The list is written and the request answered.
EditEnds(e) ==
    /\ lock = e
    /\ file' = writing[e]
    /\ writing' = [writing EXCEPT ![e] = <<>>]
    /\ lock' = Nobody
    /\ UNCHANGED <<clock, tickVars, restarts, last, gone>>

Edit(e) ==
    \/ \E r \in Rules : CreateRule(e, r)
    \/ \E i \in DOMAIN file :
        \/ \E on, keep \in BOOLEAN : UpdateRule(e, i, on, keep)
        \/ ToggleRule(e, i) \/ DeleteRule(e, i)
    \/ EditEnds(e)

\* The process ends anywhere; start() launches a ticker that ticks at once.
SchedRestart ==
    /\ restarts < MaxRestarts
    /\ restarts' = restarts + 1
    /\ lock' = Nobody
    /\ tpc' = "asleep" /\ wake' = clock /\ rules' = <<>> /\ index' = 1 /\ nowTs' = 0 /\ changed' = FALSE
    /\ writing' = [e \in Editors |-> <<>>]
    /\ Forget(Daily \cup Unsaved)
    /\ UNCHANGED <<clock, file, gone>>

SchedNext == TimePasses \/ TickerStep \/ SchedRestart \/ \E e \in Editors : Edit(e)

-----------------------------------------------------------------------------
\* A rule does not run again in its minute (daily), within its interval
\* (interval), or ever (once), whatever the length of a tick and whatever
\* requests do, unless it was edited, or the process ended or a tick raised
\* between its execution and the save (schedule_engine.py:63-118, 161-199).
RuleKeepsItsPace ==
    [][\A r \in Rules : Fire(r) /\ last[r] # 0 =>
            /\ r \in Daily => MinuteOf(last[r]) # MinuteOf(nowTs)
            /\ r \in Interval => nowTs - last[r] >= Every
            /\ r \notin Once]_schedVars

\* A deletion stands: no tick that loaded the rule
\* before brings it back (schedule_engine.py:179-188).
DeletedStaysDeleted == gone \cap Ids(file) = {}
=============================================================================
