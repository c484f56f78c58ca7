---------------------------- MODULE StationProofs ----------------------------
(***************************************************************************)
(* Proofs about Station, the parts of the web process: the countdown       *)
(* timers, the profile of the radio and the address Bluetooth reconnects   *)
(* to, the inbox, the readings, the cameras and the display, the           *)
(* schedules, and the types of every part - for every number of timers,    *)
(* pages, radios, requests, nodes and messages, and every size of the      *)
(* history and of the log.                                                 *)
(***************************************************************************)
EXTENDS Station, DeviceProofs, MessageDeliveryProofs, FiniteSetTheorems, SequenceTheorems, WellFoundedInduction, TLAPS

\* A step of Station is a step of one part, or leaves the part alone.
LEMMA PartSteps ==
    ASSUME [StationNext]_stationVars
    PROVE  /\ TimersNext \/ UNCHANGED timerVars
           /\ ProfileNext \/ UNCHANGED profileVars
           /\ SwitchNext \/ UNCHANGED switchVars
           /\ InboxNext \/ UNCHANGED inboxVars
           /\ ReadingsNext \/ UNCHANGED readingsVars
           /\ UsbNext \/ UNCHANGED usbVars
           /\ CsiNext \/ UNCHANGED csiVars
           /\ DisplayNext \/ UNCHANGED displayVars
           /\ SchedNext \/ UNCHANGED schedVars
           /\ ReportsNext \/ UNCHANGED reportVars
           /\ ClockNext \/ UNCHANGED clockVars
           /\ [Next]_vars
  BY DEF StationNext, stationVars

-----------------------------------------------------------------------------
(* Timers                                                                  *)

\* A running timer has an anchor, and no anchor lies in the future.
TimerInv ==
    /\ now \in Nat \ {0}
    /\ tstate \in [TimerIds -> TimerStates]
    /\ banked \in [TimerIds -> Nat]
    /\ segment \in [TimerIds -> Nat]
    /\ ran \in [TimerIds -> Nat]
    /\ \A t \in TimerIds : /\ segment[t] <= now
                           /\ tstate[t] = "running" => segment[t] # 0
    /\ TimerKeepsTime

LEMMA TimerInit == TimersInit => TimerInv
  BY DEF TimersInit, TimerInv, TimerStates, TimerKeepsTime, Elapsed

\* What one timer shows and what it ran, after it was started, or banked and
\* left in a state in which it does not run.
LEMMA StartedKeeps ==
    ASSUME TimerInv, NEW t \in TimerIds, StartAfresh(t)
    PROVE  TimerInv'
<1>1. /\ now' = now /\ now \in Nat \ {0}
      /\ tstate' \in [TimerIds -> TimerStates]
      /\ banked' \in [TimerIds -> Nat] /\ segment' \in [TimerIds -> Nat] /\ ran' \in [TimerIds -> Nat]
  BY DEF StartAfresh, TimerInv, TimerStates
<1>2. ASSUME NEW u \in TimerIds
      PROVE  /\ segment'[u] <= now' /\ (tstate'[u] = "running" => segment'[u] # 0)
             /\ Elapsed(u)' = ran'[u]
  <2>1. CASE u = t
    BY <1>1, <2>1 DEF StartAfresh, TimerInv, Elapsed
  <2>2. CASE u # t
    BY <1>1, <2>2 DEF StartAfresh, TimerInv, TimerKeepsTime, Elapsed
  <2> QED
    BY <2>1, <2>2
<1> QED
  BY <1>1, <1>2 DEF TimerInv, TimerKeepsTime

LEMMA BankedKeeps ==
    ASSUME TimerInv, NEW t \in TimerIds, Bank(t),
           NEW label \in TimerStates \ {"running"}, tstate' = [tstate EXCEPT ![t] = label],
           UNCHANGED <<now, ran>>
    PROVE  TimerInv'
<1>1. Elapsed(t) \in Nat /\ Elapsed(t) = ran[t]
  BY DEF TimerInv, TimerKeepsTime
<1>2. /\ now' = now /\ now \in Nat \ {0}
      /\ tstate' \in [TimerIds -> TimerStates]
      /\ banked' \in [TimerIds -> Nat] /\ segment' \in [TimerIds -> Nat] /\ ran' \in [TimerIds -> Nat]
  BY <1>1 DEF Bank, TimerInv, TimerStates
<1>3. ASSUME NEW u \in TimerIds
      PROVE  /\ segment'[u] <= now' /\ (tstate'[u] = "running" => segment'[u] # 0)
             /\ Elapsed(u)' = ran'[u]
  <2>1. CASE u = t
    <3>1. tstate'[u] # "running" /\ banked'[u] = ran[u]
      BY <1>1, <2>1 DEF Bank, TimerInv
    <3>2. segment'[u] = 0 \/ segment'[u] = segment[u]
      BY <2>1 DEF Bank, TimerInv
    <3> QED
      BY <1>2, <3>1, <3>2 DEF Elapsed, TimerInv
  <2>2. CASE u # t
    BY <1>2, <2>2 DEF Bank, TimerInv, TimerKeepsTime, Elapsed
  <2> QED
    BY <2>1, <2>2
<1> QED
  BY <1>2, <1>3 DEF TimerInv, TimerKeepsTime

LEMMA TimerNext == TimerInv /\ (TimersNext \/ UNCHANGED timerVars) => TimerInv'
<1> SUFFICES ASSUME TimerInv, TimersNext \/ UNCHANGED timerVars PROVE TimerInv'
  OBVIOUS
<1>1. CASE Second
  <2>1. /\ now' = now + 1 /\ UNCHANGED <<tstate, banked, segment>>
        /\ ran' = [t \in TimerIds |-> IF tstate[t] = "running" THEN ran[t] + 1 ELSE ran[t]]
    BY <1>1 DEF Second
  <2>2. now' \in Nat \ {0} /\ ran' \in [TimerIds -> Nat]
    BY <2>1 DEF TimerInv
  <2>3. ASSUME NEW u \in TimerIds PROVE segment'[u] <= now' /\ Elapsed(u)' = ran'[u]
    BY <2>1 DEF TimerInv, TimerKeepsTime, Elapsed
  <2> QED
    BY <2>1, <2>2, <2>3 DEF TimerInv, TimerKeepsTime
<1>2. CASE TimersRestart
  BY <1>2 DEF TimersRestart, TimerInv, TimerStates, TimerKeepsTime, Elapsed
<1>3. CASE PagesStep \/ \E p \in Pages : AnnounceFinish(p)
  BY <1>3 DEF PagesStep, AnnounceFinish, TimerInv, TimerKeepsTime, Elapsed
<1>4. ASSUME NEW t \in TimerIds, CreateTimer(t) \/ ResetTimer(t) PROVE TimerInv'
  BY <1>4, StartedKeeps DEF CreateTimer, ResetTimer
<1>5. ASSUME NEW t \in TimerIds, PauseTimer(t) PROVE TimerInv'
  BY <1>5, BankedKeeps DEF PauseTimer, TimerStates
<1>6. ASSUME NEW t \in TimerIds, ResumeTimer(t) PROVE TimerInv'
  <2>1. /\ now' = now /\ now \in Nat \ {0} /\ UNCHANGED <<banked, ran>>
        /\ tstate' \in [TimerIds -> TimerStates] /\ segment' \in [TimerIds -> Nat]
    BY <1>6 DEF ResumeTimer, TimerInv, TimerStates
  <2>2. ASSUME NEW u \in TimerIds
        PROVE  /\ segment'[u] <= now' /\ (tstate'[u] = "running" => segment'[u] # 0)
               /\ Elapsed(u)' = ran'[u]
    <3>1. CASE u = t
      BY <1>6, <2>1, <3>1 DEF ResumeTimer, TimerInv, TimerKeepsTime, Elapsed
    <3>2. CASE u # t
      BY <1>6, <2>1, <3>2 DEF ResumeTimer, TimerInv, TimerKeepsTime, Elapsed
    <3> QED
      BY <3>1, <3>2
  <2> QED
    BY <2>1, <2>2 DEF TimerInv, TimerKeepsTime
<1>7. ASSUME NEW t \in TimerIds, StopTimer(t) PROVE TimerInv'
  BY <1>7, BankedKeeps DEF StopTimer, TimerStates
<1>8. ASSUME NEW t \in TimerIds, DeleteTimer(t) PROVE TimerInv'
  <2>1. /\ now' = now /\ now \in Nat \ {0}
        /\ tstate' \in [TimerIds -> TimerStates]
        /\ banked' \in [TimerIds -> Nat] /\ segment' \in [TimerIds -> Nat] /\ ran' \in [TimerIds -> Nat]
    BY <1>8 DEF DeleteTimer, TimerInv, TimerStates
  <2>2. ASSUME NEW u \in TimerIds
        PROVE  /\ segment'[u] <= now' /\ (tstate'[u] = "running" => segment'[u] # 0)
               /\ Elapsed(u)' = ran'[u]
    <3>1. CASE u = t
      BY <1>8, <2>1, <3>1 DEF DeleteTimer, TimerInv, Elapsed
    <3>2. CASE u # t
      BY <1>8, <2>1, <3>2 DEF DeleteTimer, TimerInv, TimerKeepsTime, Elapsed
    <3> QED
      BY <3>1, <3>2
  <2> QED
    BY <2>1, <2>2 DEF TimerInv, TimerKeepsTime
<1>9. ASSUME NEW t \in TimerIds, NEW p \in Pages, MarkFinished(p, t) PROVE TimerInv'
  BY <1>9, BankedKeeps DEF MarkFinished, TimerStates
<1>10. CASE UNCHANGED timerVars
  BY <1>10 DEF timerVars, TimerInv, TimerKeepsTime, Elapsed
<1> QED
  BY <1>1, <1>2, <1>3, <1>4, <1>5, <1>6, <1>7, <1>8, <1>9, <1>10 DEF TimersNext

\* Every timer shows the time it was really running, however many pages pause,
\* resume, stop, reset and finish it, and for however long
\* (timer_service.py:37-44, 64-126).
THEOREM TimersKeepTime == StationSpec => []TimerKeepsTime
<1>1. StationInit => TimerInv
  BY TimerInit DEF StationInit
<1>2. TimerInv /\ [StationNext]_stationVars => TimerInv'
  BY PartSteps, TimerNext
<1>3. TimerInv => TimerKeepsTime
  BY DEF TimerInv
<1> QED
  BY <1>1, <1>2, <1>3, PTL DEF StationSpec

-----------------------------------------------------------------------------
(* The profile of the radio                                                *)

RadioRecords == [profile : Radios, radio : Radios, assigned : Nat]

\* Both threads that save a record they read earlier save a matching one, and
\* the listener was started for the bound radio.
RadioInv ==
    /\ plugged \in OnPort /\ confirmed \in Nat
    /\ saved \in RadioRecords
    /\ activation \in [ProfileRequests ->
          {Idle} \cup [pc : {"probing"}, target : Radios, copy : RadioRecords]]
    /\ assigner \in {Idle, [pc |-> "waiting"]} \cup [pc : {"saving"}, copy : RadioRecords]
    /\ assigner.pc = "saving" => assigner.copy.profile = assigner.copy.radio
    /\ listener => exchanged \/ plugged \in {NoRadio, bound}
    /\ ProfileMatchesRadio
    /\ ForeignOnlyAfterExchange

LEMMA RadioInit == ProfileInit => RadioInv
<1> SUFFICES ASSUME ProfileInit PROVE RadioInv
  OBVIOUS
<1>1. PICK r \in Radios : /\ saved = [profile |-> r, radio |-> r, assigned |-> Pending]
                          /\ bound = r /\ verdict = Compare(r, plugged)
  BY DEF ProfileInit
<1>2. listener => plugged \in {NoRadio, bound}
  BY <1>1 DEF ProfileInit, Compare
<1> QED
  BY <1>1, <1>2 DEF ProfileInit, RadioInv, RadioRecords, Pending, Idle, ProfileMatchesRadio,
                    ForeignOnlyAfterExchange

LEMMA BootKeeps == ASSUME RadioInv, Boot PROVE RadioInv'
<1>1. PICK v \in {Compare(saved.radio, plugged), "DETECTION_ERROR"} : Started(saved, v)
  BY DEF Boot
<1>2. /\ saved' = [saved EXCEPT !.profile = saved.radio] /\ bound' = saved.radio
      /\ listener' = (v = "MATCH") /\ hears' = NoRadio
      /\ activation' = [q \in ProfileRequests |-> Idle]
      /\ assigner' = [pc |-> "waiting"]
      /\ UNCHANGED <<plugged, confirmed>>
  BY <1>1 DEF Started, Boot
<1>3. saved' \in RadioRecords /\ saved'.profile = saved'.radio
  BY <1>2 DEF RadioInv, RadioRecords
<1>4. listener' => plugged \in {NoRadio, bound'}
  BY <1>2 DEF Compare
<1> QED
  BY <1>2, <1>3, <1>4 DEF RadioInv, ProfileMatchesRadio, ForeignOnlyAfterExchange

LEMMA ActivatedKeeps ==
    ASSUME RadioInv, NEW q \in ProfileRequests, ActivateEnds(q)
    PROVE  RadioInv'
<1>1. activation[q] \in [pc : {"probing"}, target : Radios, copy : RadioRecords]
  BY DEF ActivateEnds, RadioInv, Idle
<1>2. activation' \in [ProfileRequests ->
          {Idle} \cup [pc : {"probing"}, target : Radios, copy : RadioRecords]]
  BY DEF ActivateEnds, RadioInv
<1>3. saved' \in RadioRecords /\ saved'.profile = saved'.radio
  <2>1. CASE plugged = activation[q].target
    <3>1. /\ saved' = [activation[q].copy EXCEPT !.profile = plugged, !.radio = plugged]
          /\ plugged \in Radios /\ activation[q].copy \in RadioRecords
      BY <1>1, <2>1 DEF ActivateEnds
    <3> QED
      BY <3>1 DEF RadioRecords
  <2>2. CASE plugged # activation[q].target
    BY <2>2 DEF ActivateEnds, RadioInv, ProfileMatchesRadio
  <2> QED
    BY <2>1, <2>2
<1>4. UNCHANGED <<plugged, confirmed, assigner, listener, exchanged, bound, hears>>
  BY DEF ActivateEnds
<1> QED
  BY <1>2, <1>3, <1>4 DEF RadioInv, ProfileMatchesRadio, ForeignOnlyAfterExchange

LEMMA RadioNext == RadioInv /\ (ProfileNext \/ UNCHANGED profileVars) => RadioInv'
<1> SUFFICES ASSUME RadioInv, ProfileNext \/ UNCHANGED profileVars PROVE RadioInv'
  OBVIOUS
<1> USE DEF RadioInv, ProfileMatchesRadio, ForeignOnlyAfterExchange
<1>1. CASE Boot
  BY <1>1, BootKeeps
<1>2. CASE RestartRefused
  BY <1>2 DEF RestartRefused
<1>3. CASE Exchange
  BY <1>3 DEF Exchange, OnPort
<1>4. CASE ListenerConnects
  BY <1>4 DEF ListenerConnects
<1>5. CASE DetectRadio \/ Reconnect
  BY <1>5 DEF DetectRadio, Reconnect
<1>6. CASE AssignReads
  <2>1. /\ confirmed' = confirmed + 1
        /\ assigner' = [pc |-> "saving", copy |-> [saved EXCEPT !.assigned = confirmed']]
        /\ UNCHANGED <<plugged, saved, bound, listener, hears, activation, exchanged>>
    BY <1>6 DEF AssignReads
  <2>2. confirmed' \in Nat
    BY <2>1
  <2>3. /\ [saved EXCEPT !.assigned = confirmed'] \in RadioRecords
        /\ [saved EXCEPT !.assigned = confirmed'].profile = saved.profile
        /\ [saved EXCEPT !.assigned = confirmed'].radio = saved.radio
    BY <2>2 DEF RadioRecords
  <2> QED
    BY <2>1, <2>2, <2>3
<1>7. CASE AssignSaves
  <2>1. assigner \in [pc : {"saving"}, copy : RadioRecords]
    BY <1>7 DEF AssignSaves, Idle
  <2> QED
    BY <1>7, <2>1 DEF AssignSaves, Idle
<1>8. ASSUME NEW r \in Radios, AcceptRadio(r) PROVE RadioInv'
  <2>1. saved' \in RadioRecords /\ saved'.profile = saved'.radio
    BY <1>8 DEF AcceptRadio, RadioRecords
  <2> QED
    BY <1>8, <2>1 DEF AcceptRadio
<1>9. ASSUME NEW r \in Radios, NEW q \in ProfileRequests, ActivateStarts(q, r) PROVE RadioInv'
  BY <1>9 DEF ActivateStarts
<1>10. ASSUME NEW q \in ProfileRequests, ActivateEnds(q) PROVE RadioInv'
  BY <1>10, ActivatedKeeps
<1>11. CASE UNCHANGED profileVars
  BY <1>11 DEF profileVars
<1> QED
  BY <1>1, <1>2, <1>3, <1>4, <1>5, <1>6, <1>7, <1>8, <1>9, <1>10, <1>11 DEF ProfileNext

\* Bluetooth reconnects to the node it last reached or to whatever it finds,
\* never to one it only tried.
LEMMA AddressNext ==
    AddressIsLastGood /\ (SwitchNext \/ UNCHANGED switchVars) => AddressIsLastGood'
<1> SUFFICES ASSUME AddressIsLastGood, SwitchNext \/ UNCHANGED switchVars
             PROVE  AddressIsLastGood'
  OBVIOUS
<1> USE DEF AddressIsLastGood
<1>1. CASE UNCHANGED switchVars
  BY <1>1 DEF switchVars
<1>2. CASE Delegate
  BY <1>2 DEF Delegate, Killed
<1>3. ASSUME NEW c \in Callers, SwitchStep(c) PROVE AddressIsLastGood'
  <2>1. ASSUME NEW to \in Transports, NEW n \in Nodes \cup {Nowhere}, AskSwitch(c, to, n)
        PROVE  AddressIsLastGood'
    BY <2>1 DEF AskSwitch
  <2>2. CASE Enter(c) \/ Busy(c) \/ StoreChoice(c) \/ RecoverEnters(c) \/ AskReconnect(c)
    BY <2>2 DEF Enter, Busy, StoreChoice, RecoverEnters, AskReconnect
  <2>3. CASE Drop(c)
    BY <2>3 DEF Drop, Killed
  <2>4. CASE Connect(c)
    BY <2>4 DEF Connect, SerialAnswers, Tries, Connected, NotFound, Killed
  <2>5. CASE Restore(c) \/ SerialReconnect(c)
    BY <2>5 DEF Restore, SerialReconnect, SerialAnswers, Killed
  <2>6. CASE BleReconnect(c)
    BY <2>6 DEF BleReconnect, Connected, ConnectSome, NotFound, Killed
  <2> QED
    BY <1>3, <2>1, <2>2, <2>3, <2>4, <2>5, <2>6 DEF SwitchStep
<1> QED
  BY <1>1, <1>2, <1>3 DEF SwitchNext

\* Whoever saves last, the stored profile is that of the stored radio; a radio
\* is heard into another one's profile only after an exchange; and a failed
\* attempt leaves no address behind - for every number of radios, requests and
\* nodes (server.py:5018-5020, 5096-5115, 5161-5252, 5935-5937;
\* ble_transport.py:187-196, 303-330).
THEOREM RadioStaysTheRightOne == StationSpec => []RadioIsTheRightOne
<1>1. StationInit => RadioInv /\ AddressIsLastGood
  BY RadioInit DEF StationInit, SwitchInit, AddressIsLastGood
<1>2. RadioInv /\ AddressIsLastGood /\ [StationNext]_stationVars
         => RadioInv' /\ AddressIsLastGood'
  BY PartSteps, RadioNext, AddressNext
<1>3. RadioInv /\ AddressIsLastGood => RadioIsTheRightOne
  BY DEF RadioInv, RadioIsTheRightOne
<1> QED
  BY <1>1, <1>2, <1>3, PTL DEF StationSpec

-----------------------------------------------------------------------------
(* The inbox                                                               *)

LEMMA LeastNumber ==
    ASSUME NEW S \in SUBSET Nat, S # {}
    PROVE  \E n \in S : \A m \in S : n <= m
<1> DEFINE Below == {0 .. n : n \in S}
<1>1. Below \subseteq FiniteSubsetsOf(Nat) /\ Below # {}
  <2>1. ASSUME NEW n \in S PROVE 0 .. n \in SUBSET Nat /\ IsFiniteSet(0 .. n)
    BY FS_Interval
  <2> QED
    BY <2>1 DEF FiniteSubsetsOf
<1>2. PICK I \in Below : \A J \in Below : ~ (<<J, I>> \in StrictSubsetOrdering(Nat))
  BY <1>1, FS_StrictSubsetOrderingWellFounded, WFMin
<1>3. PICK n \in S : I = 0 .. n
  BY <1>2
<1>4. ASSUME NEW m \in S PROVE n <= m
  <2> SUFFICES ASSUME m < n PROVE FALSE
    OBVIOUS
  <2>1. 0 .. m \subseteq 0 .. n /\ n \in 0 .. n /\ n \notin 0 .. m
    OBVIOUS
  <2>2. <<0 .. m, 0 .. n>> \in StrictSubsetOrdering(Nat)
    BY <2>1 DEF StrictSubsetOrdering
  <2> QED
    BY <1>2, <1>3, <2>2
<1> QED
  BY <1>4

\* What holds of 0, and of the next number of which it holds, holds up to L.
LEMMA UpTo ==
    ASSUME NEW L \in Nat, NEW S \in SUBSET (0..L), 0 \in S,
           \A n \in 0..L : n # L /\ n \in S => n + 1 \in S
    PROVE  S = 0..L
<1> SUFFICES ASSUME S # 0..L PROVE FALSE
  OBVIOUS
<1>1. (0..L) \ S \in SUBSET Nat /\ (0..L) \ S # {}
  <2>1. (0..L) \ S \in SUBSET Nat
    OBVIOUS
  <2>2. \E n \in 0..L : n \notin S
    BY Zenon
  <2> QED
    BY <2>1, <2>2
<1>2. PICK n \in (0..L) \ S : \A m \in (0..L) \ S : n <= m
  BY <1>1, LeastNumber
<1>3. n # 0 /\ n - 1 \in 0..L /\ n - 1 # L
  BY <1>2
<1>4. n - 1 \in S
  BY <1>2, <1>3
<1>5. (n - 1) + 1 \in S
  BY <1>3, <1>4
<1> QED
  BY <1>2, <1>5

\* The messages that are left, one after the other.
IsLeft(left, M, C, L) ==
    left = [i \in 0..L |-> IF i = 0 THEN <<>>
                           ELSE IF M[i].chat \in C THEN left[i - 1]
                           ELSE Append(left[i - 1], M[i])]

LEMMA LeftExists ==
    ASSUME NEW M, NEW C, NEW L \in Nat
    PROVE  \E left : IsLeft(left, M, C, L)
<1> DEFINE Def(n) == \E left : left = [i \in 0..n |->
                        IF i = 0 THEN <<>>
                        ELSE IF M[i].chat \in C THEN left[i - 1]
                        ELSE Append(left[i - 1], M[i])]
<1> DEFINE S == {n \in 0..L : Def(n)}
<1>1. 0 \in S
  <2> DEFINE f == [i \in 0..0 |-> <<>>]
  <2>1. f = [i \in 0..0 |-> IF i = 0 THEN <<>>
                            ELSE IF M[i].chat \in C THEN f[i - 1]
                            ELSE Append(f[i - 1], M[i])]
    <3>1. \A i \in 0..0 : i = 0
      OBVIOUS
    <3> QED
      BY <3>1
  <2>2. Def(0)
    BY <2>1
  <2> QED
    BY <2>2
<1>2. ASSUME NEW n \in 0..L, n # L, n \in S PROVE n + 1 \in S
  <2>1. PICK f : f = [i \in 0..n |-> IF i = 0 THEN <<>>
                        ELSE IF M[i].chat \in C THEN f[i - 1]
                        ELSE Append(f[i - 1], M[i])]
    BY <1>2
  <2> DEFINE g == [i \in 0..(n+1) |-> IF i = n + 1
                       THEN IF M[i].chat \in C THEN f[i - 1] ELSE Append(f[i - 1], M[i])
                       ELSE f[i]]
  <2>2. \A i \in 0..n : g[i] = f[i] /\ i \in 0..(n+1) /\ i # n + 1
    OBVIOUS
  <2>3. ASSUME NEW i \in 0..(n+1)
        PROVE  g[i] = IF i = 0 THEN <<>>
                      ELSE IF M[i].chat \in C THEN g[i - 1]
                      ELSE Append(g[i - 1], M[i])
    <3>1. CASE i = n + 1
      <4>1. g[i] = IF M[i].chat \in C THEN f[i - 1] ELSE Append(f[i - 1], M[i])
        BY <3>1
      <4>2. i # 0 /\ i - 1 \in 0..n
        BY <3>1
      <4>3. g[i - 1] = f[i - 1]
        BY <2>2, <4>2
      <4> HIDE DEF g
      <4> QED
        BY <4>1, <4>2, <4>3
    <3>2. CASE i # n + 1
      <4>1. i \in 0..n /\ (i # 0 => i - 1 \in 0..n)
        BY <3>2
      <4>2. g[i] = f[i] /\ (i # 0 => g[i - 1] = f[i - 1])
        BY <2>2, <4>1
      <4>3. f[i] = IF i = 0 THEN <<>>
                   ELSE IF M[i].chat \in C THEN f[i - 1] ELSE Append(f[i - 1], M[i])
        BY <2>1, <4>1
      <4> HIDE DEF g
      <4> QED
        BY <4>1, <4>2, <4>3
    <3> QED
      BY <3>1, <3>2
  <2>4. g = [i \in 0..(n+1) |-> IF i = 0 THEN <<>>
                      ELSE IF M[i].chat \in C THEN g[i - 1]
                      ELSE Append(g[i - 1], M[i])]
    <3> DEFINE h == [i \in 0..(n+1) |-> IF i = 0 THEN <<>>
                      ELSE IF M[i].chat \in C THEN g[i - 1]
                      ELSE Append(g[i - 1], M[i])]
    <3>1. \A i \in 0..(n+1) : g[i] = h[i]
      BY <2>3
    <3>2. g = [i \in 0..(n+1) |-> g[i]] /\ h = [i \in 0..(n+1) |-> h[i]]
      OBVIOUS
    <3> QED
      BY ONLY <3>1, <3>2
  <2> HIDE DEF g
  <2>5. Def(n + 1)
    BY <2>4
  <2>6. n + 1 \in 0..L
    BY <1>2
  <2> HIDE DEF Def
  <2> QED
    BY <2>5, <2>6
<1> HIDE DEF Def
<1>3. S = 0..L
  BY <1>1, <1>2, UpTo
<1>4. Def(L)
  BY <1>3
<1> QED
  BY <1>4 DEF Def, IsLeft

\* s shows some of the elements of t, each position of t at most once.
PartOf(s, t) ==
    /\ s \in Seq(Messages) /\ Len(s) <= Len(t)
    /\ \A i \in 1..Len(s) : \E a \in 1..Len(t) : s[i] = t[a]
    /\ \A i, j \in 1..Len(s) : i # j =>
          \E a, b \in 1..Len(t) : a # b /\ s[i] = t[a] /\ s[j] = t[b]

LEMMA PartOfAppend ==
    ASSUME NEW M \in Seq(Messages), NEW n \in Nat, n + 1 <= Len(M),
           NEW s, PartOf(s, SubSeq(M, 1, n))
    PROVE  /\ PartOf(s, SubSeq(M, 1, n + 1))
           /\ PartOf(Append(s, M[n + 1]), SubSeq(M, 1, n + 1))
<1> DEFINE t == SubSeq(M, 1, n)
           u == SubSeq(M, 1, n + 1)
           w == Append(s, M[n + 1])
<1>1. /\ t \in Seq(Messages) /\ u \in Seq(Messages) /\ Len(t) = n /\ Len(u) = n + 1
      /\ \A i \in 1..n : t[i] = M[i]
      /\ \A i \in 1..(n + 1) : u[i] = M[i]
      /\ M[n + 1] \in Messages
  BY Z3
<1>2. /\ s \in Seq(Messages) /\ Len(s) \in Nat /\ Len(s) <= n
      /\ \A i \in 1..Len(s) : \E a \in 1..n : s[i] = M[a]
      /\ \A i, j \in 1..Len(s) : i # j =>
            \E a, b \in 1..n : a # b /\ s[i] = M[a] /\ s[j] = M[b]
  BY <1>1 DEF PartOf
<1> HIDE DEF t, u
<1>3. PartOf(s, u)
  <2>1. \A i \in 1..Len(s) : \E a \in 1..Len(u) : s[i] = u[a]
    <3> SUFFICES ASSUME NEW i \in 1..Len(s) PROVE \E a \in 1..Len(u) : s[i] = u[a]
      OBVIOUS
    <3>1. PICK a \in 1..n : s[i] = M[a]
      BY <1>2
    <3> QED
      BY <1>1, <3>1
  <2>2. \A i, j \in 1..Len(s) : i # j =>
          \E a, b \in 1..Len(u) : a # b /\ s[i] = u[a] /\ s[j] = u[b]
    <3> SUFFICES ASSUME NEW i \in 1..Len(s), NEW j \in 1..Len(s), i # j
                 PROVE  \E a, b \in 1..Len(u) : a # b /\ s[i] = u[a] /\ s[j] = u[b]
      OBVIOUS
    <3>1. PICK a \in 1..n, b \in 1..n : a # b /\ s[i] = M[a] /\ s[j] = M[b]
      BY <1>2
    <3>2. u[a] = M[a] /\ u[b] = M[b] /\ a \in 1..Len(u) /\ b \in 1..Len(u)
      BY <1>1
    <3> QED
      BY <3>1, <3>2
  <2> QED
    BY <1>1, <1>2, <2>1, <2>2 DEF PartOf
<1>4. /\ w \in Seq(Messages) /\ Len(w) = Len(s) + 1 /\ w[Len(w)] = M[n + 1]
      /\ \A i \in 1..Len(s) : w[i] = s[i]
  BY <1>1, <1>2
<1> HIDE DEF w
<1>5. ASSUME NEW i \in 1..Len(w)
      PROVE  \E a \in 1..(n + 1) : w[i] = M[a] /\ (i # Len(w) => a # n + 1)
  <2>1. CASE i = Len(w)
    BY <1>1, <1>2, <1>4, <2>1
  <2>2. CASE i # Len(w)
    <3>1. i \in 1..Len(s)
      BY <1>2, <1>4, <2>2
    <3>2. PICK a \in 1..n : s[i] = M[a]
      BY <1>2, <3>1
    <3> QED
      BY <1>4, <3>1, <3>2
  <2> QED
    BY <2>1, <2>2
<1>6. ASSUME NEW i \in 1..Len(w), NEW j \in 1..Len(w), i # j
      PROVE  \E a, b \in 1..(n + 1) : a # b /\ w[i] = M[a] /\ w[j] = M[b]
  <2>1. CASE i # Len(w) /\ j # Len(w)
    <3>1. i \in 1..Len(s) /\ j \in 1..Len(s)
      BY <1>2, <1>4, <2>1
    <3>2. PICK a \in 1..n, b \in 1..n : a # b /\ s[i] = M[a] /\ s[j] = M[b]
      BY <1>2, <1>6, <3>1
    <3> QED
      BY <1>4, <3>1, <3>2
  <2>2. CASE i = Len(w) \/ j = Len(w)
    <3>1. PICK a \in 1..(n + 1) : w[i] = M[a] /\ (i # Len(w) => a # n + 1)
      BY <1>5
    <3>2. PICK b \in 1..(n + 1) : w[j] = M[b] /\ (j # Len(w) => b # n + 1)
      BY <1>5
    <3>3. n + 1 \in 1..(n + 1)
      OBVIOUS
    <3>4. CASE i = Len(w)
      <4>1. w[i] = M[n + 1] /\ b # n + 1
        BY <1>4, <1>6, <3>2, <3>4
      <4> QED
        BY <3>2, <3>3, <4>1
    <3>5. CASE j = Len(w)
      <4>1. w[j] = M[n + 1] /\ a # n + 1
        BY <1>4, <1>6, <3>1, <3>5
      <4> QED
        BY <3>1, <3>3, <4>1
    <3> QED
      BY <2>2, <3>4, <3>5
  <2> QED
    BY <2>1, <2>2
<1>7. PartOf(w, u)
  <2>1. \A i \in 1..Len(w) : \E a \in 1..Len(u) : w[i] = u[a]
    BY <1>1, <1>5
  <2>2. \A i, j \in 1..Len(w) : i # j =>
          \E a, b \in 1..Len(u) : a # b /\ w[i] = u[a] /\ w[j] = u[b]
    <3> SUFFICES ASSUME NEW i \in 1..Len(w), NEW j \in 1..Len(w), i # j
                 PROVE  \E a, b \in 1..Len(u) : a # b /\ w[i] = u[a] /\ w[j] = u[b]
      OBVIOUS
    <3>1. PICK a \in 1..(n + 1), b \in 1..(n + 1) : a # b /\ w[i] = M[a] /\ w[j] = M[b]
      BY <1>6
    <3>2. u[a] = M[a] /\ u[b] = M[b] /\ a \in 1..Len(u) /\ b \in 1..Len(u)
      BY <1>1
    <3> QED
      BY <3>1, <3>2
  <2>3. w \in Seq(Messages) /\ Len(w) <= Len(u)
    BY <1>1, <1>2, <1>4
  <2> QED
    BY <2>1, <2>2, <2>3 DEF PartOf
<1> QED
  BY <1>3, <1>7 DEF u, w

LEMMA WithoutIsPart ==
    ASSUME NEW C, messages \in Seq(Messages)
    PROVE  PartOf(Without(C), messages)
<1> DEFINE L == Len(messages)
           M == messages
           Left == CHOOSE left : left = [i \in 0..L |->
                        IF i = 0 THEN <<>>
                        ELSE IF M[i].chat \in C THEN left[i - 1]
                        ELSE Append(left[i - 1], M[i])]
<1>1. L \in Nat
  OBVIOUS
<1>2. \E left : IsLeft(left, M, C, L)
  BY <1>1, LeftExists
<1>3. Left = [i \in 0..L |-> IF i = 0 THEN <<>>
                        ELSE IF M[i].chat \in C THEN Left[i - 1]
                        ELSE Append(Left[i - 1], M[i])]
  BY <1>2, Zenon DEF IsLeft
<1>4. Without(C) = Left[L]
  BY DEF Without
<1> HIDE DEF Left, L
<1> DEFINE S == {n \in 0..L : PartOf(Left[n], SubSeq(M, 1, n))}
<1>5. 0 \in S
  <2>1. Left[0] = <<>> /\ 0 \in 0..L
    BY <1>1, <1>3
  <2>2. PartOf(<<>>, SubSeq(M, 1, 0))
    BY DEF PartOf
  <2> QED
    BY <2>1, <2>2
<1>6. ASSUME NEW n \in 0..L, n # L, n \in S PROVE n + 1 \in S
  <2>1. n + 1 \in 0..L /\ n + 1 # 0 /\ (n + 1) - 1 = n /\ n \in Nat /\ n + 1 <= Len(M)
    BY <1>1, <1>6 DEF L
  <2>2. PartOf(Left[n], SubSeq(M, 1, n))
    BY <1>6
  <2>3. Left[n + 1] = IF M[n + 1].chat \in C THEN Left[n] ELSE Append(Left[n], M[n + 1])
    <3>1. Left[n + 1] = IF n + 1 = 0 THEN <<>>
                        ELSE IF M[n + 1].chat \in C THEN Left[(n + 1) - 1]
                        ELSE Append(Left[(n + 1) - 1], M[n + 1])
      BY <1>3, <2>1
    <3> QED
      BY <2>1, <3>1
  <2>4. /\ PartOf(Left[n], SubSeq(M, 1, n + 1))
        /\ PartOf(Append(Left[n], M[n + 1]), SubSeq(M, 1, n + 1))
    BY <2>1, <2>2, PartOfAppend
  <2>5. PartOf(Left[n + 1], SubSeq(M, 1, n + 1))
    BY <2>3, <2>4
  <2> QED
    BY <2>1, <2>5
<1>7. S = 0..L
  <2> HIDE DEF S
  <2>1. S \in SUBSET (0..L)
    BY DEF S
  <2> QED
    BY <1>1, <1>5, <1>6, <2>1, UpTo
<1>8. PartOf(Left[L], SubSeq(M, 1, L))
  BY <1>1, <1>7
<1>9. SubSeq(M, 1, L) = M
  BY DEF L
<1> QED
  BY <1>4, <1>8, <1>9

\* Every id of the list is known, and one that is in it twice is forgotten.
OnceIn(s, known, dropped) ==
    /\ s \in Seq(Messages)
    /\ \A i \in 1..Len(s) : s[i].id \in known \cup dropped
    /\ \A i, j \in 1..Len(s) : i # j /\ s[i].id = s[j].id => s[i].id \in dropped

LEMMA PartIsOnce ==
    ASSUME NEW s, NEW t, NEW known, NEW dropped, OnceIn(t, known, dropped), PartOf(s, t)
    PROVE  /\ OnceIn(s, known, dropped)
           /\ \A p : (\A i \in 1..Len(t) : t[i].id = p => p \in dropped)
                        => (\A i \in 1..Len(s) : s[i].id = p => p \in dropped)
<1>1. /\ s \in Seq(Messages)
      /\ \A i \in 1..Len(s) : \E a \in 1..Len(t) : s[i] = t[a]
      /\ \A i, j \in 1..Len(s) : i # j =>
          \E a, b \in 1..Len(t) : a # b /\ s[i] = t[a] /\ s[j] = t[b]
  BY DEF PartOf
<1>2. \A i \in 1..Len(s) : s[i].id \in known \cup dropped
  BY <1>1 DEF OnceIn
<1>3. \A i, j \in 1..Len(s) : i # j /\ s[i].id = s[j].id => s[i].id \in dropped
  <2> SUFFICES ASSUME NEW i \in 1..Len(s), NEW j \in 1..Len(s), i # j, s[i].id = s[j].id
               PROVE  s[i].id \in dropped
    OBVIOUS
  <2>1. PICK a \in 1..Len(t), b \in 1..Len(t) : a # b /\ s[i] = t[a] /\ s[j] = t[b]
    BY <1>1
  <2> QED
    BY <2>1 DEF OnceIn
<1>4. ASSUME NEW p, \A i \in 1..Len(t) : t[i].id = p => p \in dropped
      PROVE  \A i \in 1..Len(s) : s[i].id = p => p \in dropped
  BY <1>1, <1>4
<1> QED
  BY <1>1, <1>2, <1>3, <1>4 DEF OnceIn

LEMMA RemoveAtIsPart ==
    ASSUME NEW t \in Seq(Messages), NEW p \in 1..Len(t)
    PROVE  PartOf(RemoveAt(t, p), t)
<1> DEFINE s == RemoveAt(t, p)
           moved(i) == IF i < p THEN i ELSE i + 1
<1>1. Len(t) \in Nat /\ p \in Nat
  OBVIOUS
<1>2. s = SubSeq(t, 1, p - 1) \o SubSeq(t, p + 1, Len(t))
  BY DEF RemoveAt
<1>3. /\ SubSeq(t, 1, p - 1) \in Seq(Messages) /\ Len(SubSeq(t, 1, p - 1)) = p - 1
      /\ \A i \in 1..(p - 1) : SubSeq(t, 1, p - 1)[i] = t[i]
  BY <1>1
<1>4. /\ SubSeq(t, p + 1, Len(t)) \in Seq(Messages)
      /\ Len(SubSeq(t, p + 1, Len(t))) = Len(t) - p
      /\ \A i \in 1..(Len(t) - p) : SubSeq(t, p + 1, Len(t))[i] = t[p + i]
  BY <1>1
<1> HIDE DEF s
<1>5. /\ s \in Seq(Messages) /\ Len(s) = Len(t) - 1
      /\ \A i \in 1..Len(s) : s[i] = t[moved(i)]
  <2> DEFINE u == SubSeq(t, 1, p - 1)
             w == SubSeq(t, p + 1, Len(t))
  <2>1. u \in Seq(Messages) /\ w \in Seq(Messages) /\ Len(u) = p - 1 /\ Len(w) = Len(t) - p /\ s = u \o w
    BY <1>2, <1>3, <1>4
  <2>2. /\ \A i \in 1..(p - 1) : u[i] = t[i]
        /\ \A i \in 1..(Len(t) - p) : w[i] = t[p + i]
    BY <1>3, <1>4
  <2> HIDE DEF u, w
  <2>3. /\ s \in Seq(Messages) /\ Len(s) = Len(u) + Len(w)
        /\ \A i \in 1..Len(s) : s[i] = IF i <= Len(u) THEN u[i] ELSE w[i - Len(u)]
    <3>1. /\ u \o w \in Seq(Messages) /\ Len(u \o w) = Len(u) + Len(w)
          /\ \A i \in 1..(Len(u) + Len(w)) : (u \o w)[i] = IF i <= Len(u) THEN u[i] ELSE w[i - Len(u)]
      BY ONLY <2>1, ConcatProperties
    <3> QED
      BY ONLY <2>1, <3>1
  <2>4. ASSUME NEW i \in 1..Len(s) PROVE s[i] = t[moved(i)]
    <3>1. CASE i < p
      <4>1. i \in 1..(p - 1) /\ i <= Len(u)
        BY <1>1, <2>1, <3>1
      <4> QED
        BY <2>2, <2>3, <3>1, <4>1
    <3>2. CASE ~(i < p)
      <4>0. i \in 1..(Len(t) - 1) /\ Len(u) = p - 1
        <5>1. Len(s) = p - 1 + (Len(t) - p)
          BY <2>1, <2>3
        <5> QED
          BY <1>1, <2>1, <5>1
      <4>1. i - (p - 1) \in 1..(Len(t) - p) /\ ~(i <= Len(u)) /\ p + (i - (p - 1)) = i + 1
        BY ONLY <1>1, <3>2, <4>0
      <4>2. s[i] = w[i - (p - 1)]
        BY <2>1, <2>3, <4>1
      <4> QED
        BY <2>2, <3>2, <4>1, <4>2
    <3> QED
      BY <3>1, <3>2
  <2> QED
    BY <1>1, <2>1, <2>3, <2>4
<1>6. /\ \A i \in 1..Len(s) : moved(i) \in 1..Len(t)
      /\ \A i, j \in 1..Len(s) : i # j => moved(i) # moved(j)
  BY <1>1, <1>5
<1> HIDE DEF moved
<1>7. \A i, j \in 1..Len(s) : i # j =>
          \E a, b \in 1..Len(t) : a # b /\ s[i] = t[a] /\ s[j] = t[b]
  BY <1>5, <1>6
<1>8. PartOf(s, t)
  BY <1>1, <1>5, <1>6, <1>7 DEF PartOf
<1> QED
  BY <1>8 DEF s

LEMMA LatestIsPart ==
    ASSUME NEW t \in Seq(Messages)
    PROVE  PartOf(Latest(t), t) /\ Len(Latest(t)) <= HistorySize
<1> USE InboxAssumption
<1> DEFINE s == Latest(t)
           shift == IF Len(t) > HistorySize THEN Len(t) - HistorySize ELSE 0
<1>1. Len(t) \in Nat /\ HistorySize \in Nat \ {0}
  OBVIOUS
<1>2. shift \in Nat /\ shift <= Len(t)
  BY <1>1
<1>3. /\ s \in Seq(Messages) /\ Len(s) = Len(t) - shift
      /\ \A i \in 1..Len(s) : s[i] = t[i + shift]
  <2>1. CASE Len(t) > HistorySize
    <3>1. s = SubSeq(t, Len(t) - HistorySize + 1, Len(t))
      BY <2>1 DEF Latest
    <3> HIDE DEF s
    <3>2. Len(s) = HistorySize /\ s \in Seq(Messages)
      BY <1>1, <2>1, <3>1
    <3>3. \A i \in 1..HistorySize : s[i] = t[(Len(t) - HistorySize + 1) + i - 1]
      BY <1>1, <2>1, <3>1
    <3>4. ASSUME NEW i \in 1..HistorySize PROVE (Len(t) - HistorySize + 1) + i - 1 = i + shift
      BY <1>1, <2>1
    <3> QED
      BY <1>1, <2>1, <3>2, <3>3, <3>4
  <2>2. CASE ~(Len(t) > HistorySize)
    BY <1>1, <2>2 DEF Latest
  <2> QED
    BY <2>1, <2>2
<1>4. Len(s) <= HistorySize
  BY <1>1, <1>3
<1> HIDE DEF s, shift
<1>5. /\ \A i \in 1..Len(s) : i + shift \in 1..Len(t)
      /\ \A i, j \in 1..Len(s) : i # j => i + shift # j + shift
  BY <1>1, <1>2, <1>3
<1>6. \A i, j \in 1..Len(s) : i # j =>
          \E a, b \in 1..Len(t) : a # b /\ s[i] = t[a] /\ s[j] = t[b]
  BY <1>3, <1>5
<1>7. \A i \in 1..Len(s) : \E a \in 1..Len(t) : s[i] = t[a]
  BY <1>3, <1>5
<1>8. PartOf(s, t)
  BY <1>1, <1>2, <1>3, <1>6, <1>7 DEF PartOf
<1> QED
  BY <1>4, <1>8 DEF s

LEMMA SameIsPart == ASSUME NEW t \in Seq(Messages) PROVE PartOf(t, t)
BY DEF PartOf

\* A text that the list does not hold yet (or whose id is forgotten), added.
LEMMA AppendIsOnce ==
    ASSUME NEW t, NEW known, NEW dropped, OnceIn(t, known, dropped),
           NEW m \in Messages, m.id \in known \cup dropped,
           \A i \in 1..Len(t) : t[i].id = m.id => m.id \in dropped
    PROVE  OnceIn(Append(t, m), known, dropped)
<1> DEFINE s == Append(t, m)
<1>1. /\ s \in Seq(Messages) /\ Len(s) = Len(t) + 1 /\ Len(t) \in Nat
      /\ s[Len(t) + 1] = m /\ \A i \in 1..Len(t) : s[i] = t[i]
  BY DEF OnceIn
<1> HIDE DEF s
<1>2. \A i \in 1..Len(s) : i = Len(t) + 1 \/ i \in 1..Len(t)
  BY <1>1
<1>3. \A i \in 1..Len(s) : s[i].id \in known \cup dropped
  BY <1>1, <1>2 DEF OnceIn
<1>4. \A i, j \in 1..Len(s) : i # j /\ s[i].id = s[j].id => s[i].id \in dropped
  <2> SUFFICES ASSUME NEW i \in 1..Len(s), NEW j \in 1..Len(s), i # j, s[i].id = s[j].id
               PROVE  s[i].id \in dropped
    OBVIOUS
  <2>1. CASE i \in 1..Len(t) /\ j \in 1..Len(t)
    BY <1>1, <2>1 DEF OnceIn
  <2>2. CASE i = Len(t) + 1 /\ j \in 1..Len(t)
    BY <1>1, <2>2
  <2>3. CASE j = Len(t) + 1 /\ i \in 1..Len(t)
    BY <1>1, <2>3
  <2> QED
    BY <1>2, <2>1, <2>2, <2>3
<1>5. OnceIn(s, known, dropped)
  BY <1>1, <1>3, <1>4 DEF OnceIn
<1> QED
  BY <1>5 DEF s

\* The line the listener works on: its id is known, and its text not recorded.
LineInv ==
    line # NoLine =>
        /\ line \in Lines
        /\ line.id \in seenIds \cup forgotten
        /\ unread[line.to] < MaxUnread
        /\ \A i \in 1..Len(messages) : messages[i].id = line.id => line.id \in forgotten

\* The kept state of the routes.
DeskTypeOK ==
    /\ nodes \subseteq Peers /\ chats \subseteq Peers /\ ignored \subseteq nodes
    /\ unread \in [Chats -> 0..MaxUnread]
    /\ deletedDm \in {NoFile, EmptyList} \cup {Naming(S) : S \in SUBSET Peers}
    /\ routeList = Shared \/ routeList[1] \in Seq(Messages)

InboxInv ==
    /\ DeskTypeOK
    /\ seenIds \subseteq PacketIds /\ lately \subseteq Peers \X Texts
    /\ forgotten \subseteq PacketIds
    /\ Len(messages) <= HistorySize
    /\ OnceIn(messages, seenIds, forgotten)
    /\ LineInv

LEMMA InboxTypes == InboxInv => InboxTypeOK /\ HeardOnce
<1> SUFFICES ASSUME InboxInv PROVE InboxTypeOK /\ HeardOnce
  OBVIOUS
<1>1. messages \in Seq(Messages) /\ DOMAIN messages = 1..Len(messages)
  BY DEF InboxInv, OnceIn
<1>2. HeardOnce
  BY <1>1 DEF InboxInv, OnceIn, HeardOnce
<1>3. line = NoLine \/ line \in Lines
  BY DEF InboxInv, LineInv
<1> QED
  BY <1>1, <1>2, <1>3 DEF InboxInv, InboxTypeOK, DeskTypeOK

LEMMA InboxStart == InboxInit => InboxInv
<1> USE InboxAssumption
<1> SUFFICES ASSUME InboxInit PROVE InboxInv
  OBVIOUS
<1>1. DeskTypeOK
  BY DEF InboxInit, DeskTypeOK
<1>2. messages = <<>> /\ OnceIn(<<>>, {}, {}) /\ Len(<<>>) = 0
  BY DEF InboxInit, OnceIn
<1> QED
  BY <1>1, <1>2 DEF InboxInit, InboxInv, LineInv

\* A step of the desk: the lists may lose messages, the listener stands still.
LEMMA DeskKeeps ==
    ASSUME InboxInv, UNCHANGED listenerVars, DeskTypeOK', PartOf(messages', messages),
           \A c \in Chats : unread'[c] <= unread[c]
    PROVE  InboxInv'
<1>1. UNCHANGED seenIds /\ UNCHANGED lately /\ UNCHANGED line /\ UNCHANGED forgotten
  BY DEF listenerVars
<1>2. /\ OnceIn(messages', seenIds, forgotten)
      /\ \A p : (\A i \in 1..Len(messages) : messages[i].id = p => p \in forgotten)
            => (\A i \in 1..Len(messages') : messages'[i].id = p => p \in forgotten)
  BY PartIsOnce DEF InboxInv
<1>3. /\ Len(messages') <= Len(messages) /\ Len(messages) \in Nat /\ Len(messages') \in Nat
  BY DEF PartOf, InboxInv, OnceIn
<1>4. Len(messages') <= HistorySize
  BY <1>3, InboxAssumption DEF InboxInv
<1>5. LineInv'
  <2> SUFFICES ASSUME line # NoLine
               PROVE  /\ line \in Lines
                      /\ line.id \in seenIds \cup forgotten
                      /\ unread'[line.to] < MaxUnread
                      /\ \A i \in 1..Len(messages') : messages'[i].id = line.id => line.id \in forgotten
    BY <1>1 DEF LineInv
  <2>1. /\ line \in Lines /\ line.id \in seenIds \cup forgotten
        /\ unread[line.to] < MaxUnread
        /\ \A i \in 1..Len(messages) : messages[i].id = line.id => line.id \in forgotten
    BY DEF InboxInv, LineInv
  <2>2. line.to \in Chats
    BY <2>1 DEF Lines
  <2>3. unread'[line.to] < MaxUnread
    <3>1. unread[line.to] \in Nat /\ unread'[line.to] \in Nat /\ unread'[line.to] <= unread[line.to]
      BY <2>2, InboxAssumption DEF InboxInv, DeskTypeOK
    <3> QED
      BY <2>1, <3>1, InboxAssumption
  <2> QED
    BY <1>2, <2>1, <2>3
<1> QED
  BY <1>1, <1>2, <1>4, <1>5 DEF InboxInv

\* A step of the listener that records nothing.
LEMMA ListenerKeeps ==
    ASSUME InboxInv, UNCHANGED <<messages, unread, seenIds, forgotten>>,
           DeskTypeOK', lately' \subseteq Peers \X Texts,
           line' = NoLine \/ (line # NoLine /\ \E w \in {"node", "text", "sender", "chat", "add"} :
                                line' = [line EXCEPT !.at = w])
    PROVE  InboxInv'
<1>1. UNCHANGED messages /\ UNCHANGED unread /\ UNCHANGED seenIds /\ UNCHANGED forgotten
  OBVIOUS
<1>2. LineInv'
  <2>1. CASE line' = NoLine
    BY <2>1 DEF LineInv
  <2>2. ASSUME line # NoLine, NEW w \in {"node", "text", "sender", "chat", "add"},
               line' = [line EXCEPT !.at = w]
        PROVE  LineInv'
    <3>1. line \in Lines
      BY <2>2 DEF InboxInv, LineInv
    <3>2. line' \in Lines /\ line'.id = line.id /\ line'.to = line.to
      BY <2>2, <3>1 DEF Lines
    <3> QED
      BY <1>1, <2>2, <3>2 DEF InboxInv, LineInv
  <2> QED
    BY <2>1, <2>2
<1> QED
  BY <1>1, <1>2 DEF InboxInv

LEMMA HearKeeps ==
    ASSUME InboxInv, NEW p \in PacketIds, NEW n \in Peers, NEW t \in Texts, NEW c \in Chats,
           Hear(p, n, t, c)
    PROVE  InboxInv'
<1>1. /\ line = NoLine /\ unread[c] < MaxUnread /\ p \notin seenIds
      /\ seenIds' = seenIds \cup {p}
      /\ line' = [at |-> "node", id |-> p, from |-> n, text |-> t, to |-> c]
      /\ lately' = lately /\ nodes' = nodes /\ chats' = chats /\ unread' = unread
      /\ ignored' = ignored /\ deletedDm' = deletedDm /\ messages' = messages
      /\ routeList' = routeList /\ forgotten' = forgotten
  BY DEF Hear
<1>2. line' \in Lines /\ line'.id = p /\ line'.to = c
  BY <1>1 DEF Lines
<1>3. OnceIn(messages, seenIds', forgotten)
  BY <1>1 DEF InboxInv, OnceIn
<1>4. \A i \in 1..Len(messages) : messages[i].id = p => p \in forgotten
  BY <1>1 DEF InboxInv, OnceIn
<1>5. LineInv'
  BY <1>1, <1>2, <1>4 DEF LineInv
<1>6. DeskTypeOK'
  BY <1>1 DEF InboxInv, DeskTypeOK
<1>7. seenIds' \subseteq PacketIds
  BY <1>1 DEF InboxInv
<1> QED
  BY <1>1, <1>3, <1>5, <1>6, <1>7 DEF InboxInv

LEMMA ListenerStepsKeep ==
    ASSUME InboxInv, UpdateNode \/ JudgeText \/ JudgeSender \/ ChooseChat
    PROVE  InboxInv'
<1>1. ASSUME line.at \in {"node", "text", "sender", "chat"}
      PROVE  line # NoLine /\ line \in Lines /\ line.from \in Peers /\ line.text \in Texts /\ line.to \in Chats
  <2>1. line # NoLine
    BY <1>1 DEF NoLine
  <2> QED
    BY <2>1 DEF InboxInv, LineInv, Lines
<1>2. CASE UpdateNode
  <2>1. /\ nodes' = nodes \cup {line.from} /\ chats' = chats \cup {line.from}
        /\ line' = [line EXCEPT !.at = "text"] /\ line.at = "node"
        /\ UNCHANGED <<messages, unread, seenIds, forgotten>>
        /\ lately' = lately /\ unread' = unread /\ ignored' = ignored
        /\ deletedDm' = deletedDm /\ routeList' = routeList
    BY <1>2 DEF UpdateNode, WithChat
  <2>2. DeskTypeOK'
    BY <1>1, <2>1 DEF InboxInv, DeskTypeOK
  <2>3. lately' \subseteq Peers \X Texts
    BY <2>1 DEF InboxInv
  <2> QED
    BY <1>1, <2>1, <2>2, <2>3, ListenerKeeps
<1>3. CASE JudgeText
  <2>1. /\ line.at = "text"
        /\ \/ line' = NoLine /\ lately' = lately
           \/ line' = [line EXCEPT !.at = "sender"] /\ lately' = lately \cup {<<line.from, line.text>>}
        /\ UNCHANGED <<messages, unread, seenIds, forgotten>>
        /\ nodes' = nodes /\ chats' = chats /\ unread' = unread /\ ignored' = ignored
        /\ deletedDm' = deletedDm /\ routeList' = routeList
    BY <1>3 DEF JudgeText
  <2>2. DeskTypeOK'
    BY <2>1 DEF InboxInv, DeskTypeOK
  <2>3. lately' \subseteq Peers \X Texts
    BY <1>1, <2>1 DEF InboxInv
  <2> QED
    BY <1>1, <2>1, <2>2, <2>3, ListenerKeeps
<1>4. CASE JudgeSender
  <2>1. /\ line.at = "sender"
        /\ (line' = NoLine \/ line' = [line EXCEPT !.at = "chat"])
        /\ UNCHANGED <<messages, unread, seenIds, forgotten>>
        /\ lately' = lately /\ nodes' = nodes /\ chats' = chats /\ unread' = unread
        /\ ignored' = ignored /\ deletedDm' = deletedDm /\ routeList' = routeList
    BY <1>4 DEF JudgeSender
  <2>2. DeskTypeOK'
    BY <2>1 DEF InboxInv, DeskTypeOK
  <2>3. lately' \subseteq Peers \X Texts
    BY <2>1 DEF InboxInv
  <2> QED
    BY <1>1, <2>1, <2>2, <2>3, ListenerKeeps
<1>5. CASE ChooseChat
  <2>1. /\ line.at = "chat"
        /\ (line' = NoLine \/ line' = [line EXCEPT !.at = "add"])
        /\ (chats' = chats \/ (line.to # Channel /\ chats' = chats \cup {line.to}))
        /\ UNCHANGED <<messages, unread, seenIds, forgotten>>
        /\ lately' = lately /\ nodes' = nodes /\ unread' = unread
        /\ ignored' = ignored /\ deletedDm' = deletedDm /\ routeList' = routeList
    BY <1>5 DEF ChooseChat, WithChat
  <2>2. DeskTypeOK'
    BY <1>1, <2>1 DEF InboxInv, DeskTypeOK, Chats
  <2>3. lately' \subseteq Peers \X Texts
    BY <2>1 DEF InboxInv
  <2> QED
    BY <1>1, <2>1, <2>2, <2>3, ListenerKeeps
<1> QED
  BY <1>2, <1>3, <1>4, <1>5

LEMMA AddKeeps ==
    ASSUME InboxInv, AddMessage
    PROVE  InboxInv'
<1> USE InboxAssumption
<1> DEFINE m == [id |-> line.id, chat |-> line.to]
<1>1. /\ line.at = "add"
      /\ chats' = chats \cup {line.from}
      /\ messages' = Latest(Append(messages, m))
      /\ unread' = [unread EXCEPT ![line.to] = @ + 1]
      /\ line' = NoLine
      /\ seenIds' = seenIds /\ lately' = lately /\ nodes' = nodes /\ ignored' = ignored
      /\ deletedDm' = deletedDm /\ routeList' = routeList /\ forgotten' = forgotten
  BY DEF AddMessage, WithChat
<1>2. line # NoLine
  BY <1>1 DEF NoLine
<1>3. /\ line \in Lines /\ line.id \in seenIds \cup forgotten
      /\ unread[line.to] < MaxUnread
      /\ \A i \in 1..Len(messages) : messages[i].id = line.id => line.id \in forgotten
  BY <1>2 DEF InboxInv, LineInv
<1>4. /\ m \in Messages /\ m.id = line.id /\ line.to \in Chats /\ line.from \in Peers
  BY <1>3 DEF Lines, Messages
<1> HIDE DEF m
<1>5. OnceIn(messages, seenIds, forgotten) /\ messages \in Seq(Messages)
  BY DEF InboxInv, OnceIn
<1>6. OnceIn(Append(messages, m), seenIds, forgotten)
  BY <1>3, <1>4, <1>5, AppendIsOnce
<1>7. Append(messages, m) \in Seq(Messages)
  BY <1>4, <1>5
<1>8. OnceIn(messages', seenIds', forgotten') /\ Len(messages') <= HistorySize
  BY <1>1, <1>6, <1>7, LatestIsPart, PartIsOnce
<1>9. unread' \in [Chats -> 0..MaxUnread]
  BY <1>1, <1>3, <1>4 DEF InboxInv, DeskTypeOK
<1>10. DeskTypeOK'
  BY <1>1, <1>4, <1>9 DEF InboxInv, DeskTypeOK
<1>11. LineInv'
  BY <1>1 DEF LineInv
<1> QED
  BY <1>1, <1>8, <1>10, <1>11 DEF InboxInv

LEMMA ForgettingKeeps ==
    ASSUME InboxInv, CleanupSeenIds \/ InboxRestart
    PROVE  InboxInv'
<1>1. /\ seenIds' \subseteq seenIds /\ seenIds' \cup forgotten' = seenIds \cup forgotten
      /\ forgotten' = forgotten \cup (seenIds \ seenIds')
      /\ messages' = messages /\ unread' = unread
      /\ (line' = line \/ line' = NoLine)
      /\ lately' \subseteq lately
  <2>1. CASE CleanupSeenIds
    BY <2>1 DEF CleanupSeenIds
  <2>2. CASE InboxRestart
    BY <2>2 DEF InboxRestart
  <2> QED
    BY <2>1, <2>2
<1>2. OnceIn(messages, seenIds', forgotten')
  BY <1>1 DEF InboxInv, OnceIn
<1>3. LineInv'
  BY <1>1 DEF InboxInv, LineInv
<1>4. DeskTypeOK'
  <2>1. CASE CleanupSeenIds
    BY <2>1 DEF CleanupSeenIds, InboxInv, DeskTypeOK
  <2>2. CASE InboxRestart
    BY <2>2 DEF InboxRestart, EveryNodeHasAChat, InboxInv, DeskTypeOK
  <2> QED
    BY <2>1, <2>2
<1>5. seenIds' \subseteq PacketIds /\ forgotten' \subseteq PacketIds /\ lately' \subseteq Peers \X Texts
  BY <1>1 DEF InboxInv
<1> QED
  BY <1>1, <1>2, <1>3, <1>4, <1>5 DEF InboxInv

LEMMA ExpiryKeeps ==
    ASSUME InboxInv, NEW key \in lately, TextExpires(key)
    PROVE  InboxInv'
<1>1. /\ UNCHANGED <<messages, unread, seenIds, forgotten>>
      /\ line' = line /\ lately' \subseteq lately
      /\ nodes' = nodes /\ chats' = chats /\ unread' = unread /\ ignored' = ignored
      /\ deletedDm' = deletedDm /\ routeList' = routeList
  BY DEF TextExpires
<1>2. DeskTypeOK' /\ LineInv'
  BY <1>1 DEF InboxInv, DeskTypeOK, LineInv
<1> QED
  BY <1>1, <1>2 DEF InboxInv

LEMMA NotedKeeps ==
    ASSUME InboxInv, NEW S \in SUBSET Peers, Noted(S)
    PROVE  InboxInv'
<1>1. /\ nodes' = nodes \cup S /\ chats' = chats \cup S /\ UNCHANGED listenerVars
      /\ unread' = unread /\ ignored' = ignored /\ deletedDm' = deletedDm
      /\ messages' = messages /\ routeList' = routeList
  BY DEF Noted
<1>2. DeskTypeOK'
  BY <1>1 DEF InboxInv, DeskTypeOK
<1>3. PartOf(messages', messages)
  BY <1>1, SameIsPart DEF InboxInv, OnceIn
<1>4. \A c \in Chats : unread'[c] <= unread[c]
  BY <1>1, InboxAssumption DEF InboxInv, DeskTypeOK
<1> QED
  BY <1>1, <1>2, <1>3, <1>4, DeskKeeps

\* A route that takes messages away and sets counts to zero.
LEMMA RouteKeeps ==
    ASSUME InboxInv, UNCHANGED listenerVars, PartOf(messages', messages),
           unread' \in [Chats -> 0..MaxUnread],
           \A c \in Chats : unread'[c] = unread[c] \/ unread'[c] = 0,
           nodes' = nodes, chats' \subseteq Peers, ignored' \subseteq nodes,
           deletedDm' \in {NoFile, EmptyList} \cup {Naming(S) : S \in SUBSET Peers},
           routeList' = Shared \/ routeList'[1] \in Seq(Messages)
    PROVE  InboxInv'
<1>1. DeskTypeOK'
  BY DEF DeskTypeOK, InboxInv
<1>2. \A c \in Chats : unread'[c] <= unread[c]
  BY InboxAssumption DEF InboxInv, DeskTypeOK
<1> QED
  BY <1>1, <1>2, DeskKeeps

\* Setting one count to zero.
LEMMA SilencedTyped ==
    ASSUME NEW f, f \in [Chats -> 0..MaxUnread], NEW c, NEW g, g = [f EXCEPT ![c] = 0]
    PROVE  /\ g \in [Chats -> 0..MaxUnread]
           /\ \A d \in Chats : g[d] = f[d] \/ g[d] = 0
<1>1. 0 \in 0..MaxUnread
  BY InboxAssumption
<1>2. DOMAIN g = Chats /\ \A d \in Chats : g[d] = IF d = c THEN 0 ELSE f[d]
  OBVIOUS
<1>3. g = [d \in Chats |-> g[d]]
  BY <1>2
<1>4. \A d \in Chats : g[d] \in 0..MaxUnread
  BY <1>1, <1>2
<1> QED
  BY <1>2, <1>3, <1>4

LEMMA RouteStepsKeep ==
    ASSUME InboxInv, InboxNext
    PROVE  \/ InboxInv'
           \/ \E m \in ToSet(RoutesSee) : DeleteMessage(m)
<1> USE InboxAssumption
<1>0. /\ messages \in Seq(Messages) /\ PartOf(messages, messages)
      /\ unread \in [Chats -> 0..MaxUnread] /\ chats \subseteq Peers /\ nodes \subseteq Peers
      /\ ignored \subseteq nodes
      /\ deletedDm \in {NoFile, EmptyList} \cup {Naming(S) : S \in SUBSET Peers}
      /\ (routeList = Shared \/ routeList[1] \in Seq(Messages))
  BY SameIsPart DEF InboxInv, DeskTypeOK, OnceIn
<1>1. ASSUME NEW c, unread' = [unread EXCEPT ![c] = 0]
      PROVE  /\ unread' \in [Chats -> 0..MaxUnread]
             /\ \A d \in Chats : unread'[d] = unread[d] \/ unread'[d] = 0
  BY <1>0, <1>1, SilencedTyped
<1>2. ASSUME NEW C, Rebind(Without(C))
      PROVE  PartOf(messages', messages) /\ routeList'[1] \in Seq(Messages)
  <2>1. messages' = Without(C) /\ routeList' = <<RoutesSee>>
    BY <1>2 DEF Rebind
  <2>2. RoutesSee \in Seq(Messages)
    BY <1>0 DEF RoutesSee
  <2> QED
    BY <1>0, <2>1, <2>2, WithoutIsPart
<1>3. ASSUME NEW c \in Chats, ReadChat(c) PROVE InboxInv'
  <2>1. /\ unread' = [unread EXCEPT ![c] = 0] /\ UNCHANGED listenerVars /\ nodes' = nodes
        /\ chats' = chats /\ ignored' = ignored /\ deletedDm' = deletedDm
        /\ messages' = messages /\ routeList' = routeList
    BY <1>3 DEF ReadChat
  <2> QED
    BY <1>0, <1>1, <2>1, RouteKeeps
<1>4. ASSUME NEW c \in Chats, ClearChat(c) PROVE InboxInv'
  <2>1. /\ unread' = [unread EXCEPT ![c] = 0] /\ UNCHANGED listenerVars /\ nodes' = nodes
        /\ chats' = chats /\ ignored' = ignored /\ deletedDm' = deletedDm
        /\ Rebind(Without({c}))
    BY <1>4 DEF ClearChat
  <2> QED
    BY <1>0, <1>1, <1>2, <2>1, RouteKeeps
<1>5. ASSUME NEW n \in Peers, DeleteChat(n) PROVE InboxInv'
  <2>1. /\ unread' = [unread EXCEPT ![n] = 0] /\ UNCHANGED listenerVars /\ nodes' = nodes
        /\ chats' = chats \ {n} /\ ignored' = ignored /\ deletedDm' = deletedDm
        /\ Rebind(Without({n}))
    BY <1>5 DEF DeleteChat
  <2>2. chats' \subseteq Peers
    BY <1>0, <2>1
  <2> QED
    BY <1>0, <1>1, <1>2, <2>1, <2>2, RouteKeeps
<1>6. CASE DeleteAllDm
  <2>1. /\ unread' = [c \in Chats |-> IF c = Channel THEN unread[c] ELSE 0]
        /\ UNCHANGED listenerVars /\ nodes' = nodes
        /\ chats' = {} /\ ignored' = ignored /\ deletedDm' \in {Naming(chats), deletedDm}
        /\ Rebind(Without(Peers))
    BY <1>6 DEF DeleteAllDm
  <2>2. /\ unread' \in [Chats -> 0..MaxUnread]
        /\ \A c \in Chats : unread'[c] = unread[c] \/ unread'[c] = 0
    BY <1>0, <2>1
  <2>3. deletedDm' \in {NoFile, EmptyList} \cup {Naming(S) : S \in SUBSET Peers}
    BY <1>0, <2>1
  <2>4. chats' \subseteq Peers
    BY <2>1
  <2> QED
    BY <1>0, <1>2, <2>1, <2>2, <2>3, <2>4, RouteKeeps
<1>7. CASE RestoreDeletedDm
  <2>1. /\ UNCHANGED listenerVars /\ nodes' = nodes /\ unread' = unread
        /\ chats' = chats \cup nodes /\ ignored' = ignored /\ deletedDm' = NoFile
        /\ messages' = messages /\ routeList' = routeList
    BY <1>7 DEF RestoreDeletedDm
  <2>2. chats' \subseteq Peers /\ deletedDm' \in {NoFile, EmptyList} \cup {Naming(S) : S \in SUBSET Peers}
    BY <1>0, <2>1
  <2> QED
    BY <1>0, <2>1, <2>2, RouteKeeps
<1>8. CASE CleanupNodes
  <2>1. /\ UNCHANGED listenerVars /\ nodes' = nodes /\ unread' = unread
        /\ chats' = chats \cup nodes /\ ignored' = ignored /\ deletedDm' = deletedDm
        /\ messages' = messages /\ routeList' = routeList
    BY <1>8 DEF CleanupNodes
  <2>2. chats' \subseteq Peers
    BY <1>0, <2>1
  <2> QED
    BY <1>0, <2>1, <2>2, RouteKeeps
<1>9. ASSUME NEW n \in Peers, ToggleIgnore(n) PROVE InboxInv'
  <2>1. /\ UNCHANGED listenerVars /\ nodes' = nodes /\ unread' = unread
        /\ chats' = chats /\ n \in nodes /\ deletedDm' = deletedDm
        /\ (ignored' = ignored \ {n} \/ ignored' = ignored \cup {n})
        /\ messages' = messages /\ routeList' = routeList
    BY <1>9 DEF ToggleIgnore
  <2>2. ignored' \subseteq nodes
    BY <1>0, <2>1
  <2> QED
    BY <1>0, <2>1, <2>2, RouteKeeps
<1>10. ASSUME NEW n \in Peers, NodeInfo(n) \/ ReceivedNodeInfo(n) \/ MeshListed(n) PROVE InboxInv'
  <2>1. Noted({n}) /\ {n} \in SUBSET Peers
    BY <1>10 DEF NodeInfo, ReceivedNodeInfo, MeshListed
  <2> QED
    BY <2>1, NotedKeeps
<1>11. ASSUME NEW S \in SUBSET Peers, NodesImported(S) PROVE InboxInv'
  BY <1>11, NotedKeeps DEF NodesImported
<1>12. CASE \E p \in PacketIds, n \in Peers, t \in Texts, c \in Chats : Hear(p, n, t, c)
  BY <1>12, HearKeeps
<1>13. CASE UpdateNode \/ JudgeText \/ JudgeSender \/ ChooseChat \/ AddMessage
  BY <1>13, ListenerStepsKeep, AddKeeps
<1>14. CASE CleanupSeenIds \/ InboxRestart
  BY <1>14, ForgettingKeeps
<1>15. CASE \E key \in lately : TextExpires(key)
  BY <1>15, ExpiryKeeps
<1> QED
  BY <1>3, <1>4, <1>5, <1>6, <1>7, <1>8, <1>9, <1>10, <1>11, <1>12, <1>13, <1>14, <1>15
     DEF InboxNext

LEMMA DeletionKeeps ==
    ASSUME InboxInv, NEW m \in ToSet(RoutesSee), DeleteMessage(m)
    PROVE  InboxInv'
<1> USE InboxAssumption
<1>0. /\ messages \in Seq(Messages) /\ PartOf(messages, messages)
      /\ unread \in [Chats -> 0..MaxUnread] /\ chats \subseteq Peers /\ nodes \subseteq Peers
      /\ ignored \subseteq nodes
      /\ deletedDm \in {NoFile, EmptyList} \cup {Naming(S) : S \in SUBSET Peers}
      /\ (routeList = Shared \/ routeList[1] \in Seq(Messages))
  BY SameIsPart DEF InboxInv, DeskTypeOK, OnceIn
<1> DEFINE pos == CHOOSE i \in DOMAIN RoutesSee : RoutesSee[i] = m
<1>1. pos \in DOMAIN RoutesSee
  <2>1. \E i \in DOMAIN RoutesSee : RoutesSee[i] = m
    BY DEF ToSet
  <2> QED
    BY <2>1
<1>2. RoutesSee \in Seq(Messages) /\ DOMAIN RoutesSee = 1..Len(RoutesSee)
  BY <1>0 DEF RoutesSee
<1>3. /\ IF routeList = Shared
         THEN messages' = RemoveAt(messages, pos) /\ routeList' = routeList
         ELSE routeList' = <<RemoveAt(RoutesSee, pos)>> /\ messages' = messages
      /\ unread' = [unread EXCEPT ![m.chat] = 0]
      /\ UNCHANGED listenerVars /\ nodes' = nodes /\ chats' = chats
      /\ ignored' = ignored /\ deletedDm' = deletedDm
  BY DEF DeleteMessage
<1> HIDE DEF pos
<1>4. PartOf(RemoveAt(RoutesSee, pos), RoutesSee)
  BY <1>1, <1>2, RemoveAtIsPart
<1>5. RemoveAt(RoutesSee, pos) \in Seq(Messages)
  BY <1>4 DEF PartOf
<1>6. PartOf(messages', messages) /\ (routeList' = Shared \/ routeList'[1] \in Seq(Messages))
  <2>1. CASE routeList = Shared
    BY <1>3, <1>4, <2>1 DEF RoutesSee
  <2>2. CASE routeList # Shared
    BY <1>0, <1>3, <1>5, <2>2
  <2> QED
    BY <2>1, <2>2
<1>7. /\ unread' \in [Chats -> 0..MaxUnread]
      /\ \A d \in Chats : unread'[d] = unread[d] \/ unread'[d] = 0
  BY <1>0, <1>3, SilencedTyped
<1> QED
  BY <1>0, <1>3, <1>6, <1>7, RouteKeeps

LEMMA InboxKeeps == InboxInv /\ (InboxNext \/ UNCHANGED inboxVars) => InboxInv'
<1> SUFFICES ASSUME InboxInv, InboxNext \/ UNCHANGED inboxVars PROVE InboxInv'
  OBVIOUS
<1>1. CASE InboxNext
  BY <1>1, RouteStepsKeep, DeletionKeeps
<1>2. CASE UNCHANGED inboxVars
  BY <1>2 DEF inboxVars, InboxInv, DeskTypeOK, LineInv
<1> QED
  BY <1>1, <1>2

-----------------------------------------------------------------------------
(* The readings                                                            *)

\* What is typed of the buffer, and that no field is behind.
BufferInv ==
    /\ reports \in 0..MaxReports
    /\ lastHeard \in [Quantities -> 0..MaxReports] /\ queued \in [Quantities -> 0..MaxReports]
    /\ takenReport \in [Quantities -> 0..MaxReports] /\ shown \in [Quantities -> 0..MaxReports]
    /\ queuedAge \in 0..Debounce
    /\ NewestIsOnItsWay

\* The records are of the past and spaced.
LogInv ==
    /\ time \in 0..LastSecond /\ lastLogged \in -Spacing..LastSecond
    /\ log \in Seq(Records) /\ Len(log) <= MaxRecords
    /\ RemoteRecordsAreSpaced

ReadInv == BufferInv /\ LogInv

LEMMA ReadTypes == ReadInv => ReadingsTypeOK
BY DEF ReadInv, BufferInv, LogInv, ReadingsTypeOK

LEMMA NoReadingTyped == NoReading \in [Quantities -> 0..MaxReports] /\ \A f \in Quantities : NoReading[f] = 0
BY ReadingsAssumption DEF NoReading

LEMMA ReadStart == ReadingsInit => ReadInv
<1> USE ReadingsAssumption
<1> SUFFICES ASSUME ReadingsInit PROVE ReadInv
  OBVIOUS
<1>1. BufferInv
  BY NoReadingTyped DEF ReadingsInit, BufferInv, NewestIsOnItsWay
<1>2. log = <<>> /\ time = 0 /\ lastLogged = -Spacing
  BY DEF ReadingsInit
<1>3. RemoteRecordsAreSpaced
  BY <1>2 DEF RemoteRecordsAreSpaced, OfNode
<1>4. -Spacing \in -Spacing..LastSecond
  OBVIOUS
<1>5. LogInv
  BY <1>2, <1>3, <1>4 DEF LogInv
<1> QED
  BY <1>1, <1>5 DEF ReadInv

LEMMA MergeTyped ==
    ASSUME NEW new, new \in [Quantities -> 0..MaxReports], NEW old, old \in [Quantities -> 0..MaxReports]
    PROVE  /\ Merge(new, old) \in [Quantities -> 0..MaxReports]
           /\ \A f \in Quantities : Merge(new, old)[f] = IF new[f] # 0 THEN new[f] ELSE old[f]
BY DEF Merge

LEMMA BufferKeeps == BufferInv /\ (ReadingsNext \/ UNCHANGED readingsVars) => BufferInv'
<1> USE ReadingsAssumption
<1> SUFFICES ASSUME BufferInv, ReadingsNext \/ UNCHANGED readingsVars PROVE BufferInv'
  OBVIOUS
<1>0. /\ reports \in 0..MaxReports
      /\ lastHeard \in [Quantities -> 0..MaxReports] /\ queued \in [Quantities -> 0..MaxReports]
      /\ takenReport \in [Quantities -> 0..MaxReports] /\ shown \in [Quantities -> 0..MaxReports]
      /\ queuedAge \in 0..Debounce
      /\ \A f \in Quantities : lastHeard[f] # 0 =>
            lastHeard[f] = IF queued[f] # 0 THEN queued[f] ELSE IF takenReport[f] # 0 THEN takenReport[f] ELSE shown[f]
  BY DEF BufferInv, NewestIsOnItsWay
<1>1. ASSUME NEW S \in SUBSET Quantities, Report(S) PROVE BufferInv'
  <2> DEFINE values == [f \in Quantities |-> IF f \in S THEN reports + 1 ELSE 0]
  <2>1. /\ reports < MaxReports /\ reports' = reports + 1
        /\ lastHeard' = Merge(values, lastHeard) /\ queued' = Merge(values, queued)
        /\ queuedAge' = 0 /\ takenReport' = takenReport /\ shown' = shown
    BY <1>1 DEF Report
  <2>2. values \in [Quantities -> 0..MaxReports] /\ \A f \in Quantities : values[f] = IF f \in S THEN reports + 1 ELSE 0
    BY <1>0, <2>1
  <2> HIDE DEF values
  <2>3. /\ lastHeard' \in [Quantities -> 0..MaxReports] /\ queued' \in [Quantities -> 0..MaxReports]
        /\ \A f \in Quantities : /\ lastHeard'[f] = IF values[f] # 0 THEN values[f] ELSE lastHeard[f]
                                 /\ queued'[f] = IF values[f] # 0 THEN values[f] ELSE queued[f]
    BY <1>0, <2>1, <2>2, MergeTyped
  <2>4. NewestIsOnItsWay'
    BY <1>0, <2>1, <2>3 DEF NewestIsOnItsWay
  <2>5. reports' \in 0..MaxReports
    BY <1>0, <2>1
  <2> QED
    BY <1>0, <2>1, <2>3, <2>4, <2>5 DEF BufferInv
<1>2. CASE BufferTakes
  <2>1. /\ takenReport = NoReading /\ takenReport' = queued /\ queued' = NoReading /\ queuedAge' = 0
        /\ reports' = reports /\ lastHeard' = lastHeard /\ shown' = shown
    BY <1>2 DEF BufferTakes
  <2>2. NewestIsOnItsWay'
    BY <1>0, <2>1, NoReadingTyped DEF NewestIsOnItsWay
  <2> QED
    BY <1>0, <2>1, <2>2, NoReadingTyped DEF BufferInv
<1>3. CASE BufferApplies
  <2>1. /\ shown' = Merge(takenReport, shown) /\ takenReport' = NoReading
        /\ reports' = reports /\ lastHeard' = lastHeard /\ queued' = queued /\ queuedAge' = queuedAge
    BY <1>3 DEF BufferApplies
  <2>2. /\ shown' \in [Quantities -> 0..MaxReports]
        /\ \A f \in Quantities : shown'[f] = IF takenReport[f] # 0 THEN takenReport[f] ELSE shown[f]
    BY <1>0, <2>1, MergeTyped
  <2>3. NewestIsOnItsWay'
    BY <1>0, <2>1, <2>2, NoReadingTyped DEF NewestIsOnItsWay
  <2> QED
    BY <1>0, <2>1, <2>2, <2>3, NoReadingTyped DEF BufferInv
<1>4. ASSUME NEW n \in Remotes, RemoteReport(n) PROVE BufferInv'
  BY <1>4 DEF RemoteReport, bufferVars, BufferInv, NewestIsOnItsWay
<1>5. CASE ReadingsTick
  <2>1. /\ (queuedAge' = queuedAge \/ (queuedAge < Debounce /\ queuedAge' = queuedAge + 1))
        /\ reports' = reports /\ lastHeard' = lastHeard /\ queued' = queued
        /\ takenReport' = takenReport /\ shown' = shown
    BY <1>5 DEF ReadingsTick
  <2>2. queuedAge' \in 0..Debounce
    BY <1>0, <2>1
  <2> QED
    BY <2>1, <2>2 DEF BufferInv, NewestIsOnItsWay
<1>6. CASE ReadingsRestart
  <2>1. /\ queued' = NoReading /\ takenReport' = NoReading /\ queuedAge' = 0 /\ lastHeard' = NoReading
        /\ shown' \in {NoReading, lastHeard} /\ reports' = reports
    BY <1>6 DEF ReadingsRestart
  <2>2. NewestIsOnItsWay'
    BY <2>1, NoReadingTyped DEF NewestIsOnItsWay
  <2> QED
    BY <1>0, <2>1, <2>2, NoReadingTyped DEF BufferInv
<1>7. CASE UNCHANGED readingsVars
  BY <1>7 DEF readingsVars, bufferVars, BufferInv, NewestIsOnItsWay
<1> QED
  BY <1>1, <1>2, <1>3, <1>4, <1>5, <1>6, <1>7 DEF ReadingsNext

\* A set of positions has a greatest one.
LEMMA Greatest ==
    ASSUME NEW L \in Nat, NEW S \in SUBSET (0..L), S # {}
    PROVE  Max(S) \in S /\ \A i \in S : i <= Max(S)
<1> DEFINE T == {L - i : i \in S}
<1>1. T \in SUBSET Nat /\ T # {}
  <2>1. \A i \in S : L - i \in Nat
    OBVIOUS
  <2>2. PICK i \in S : TRUE
    OBVIOUS
  <2>3. L - i \in T
    OBVIOUS
  <2> QED
    BY <2>1, <2>3
<1>2. PICK t \in T : \A u \in T : t <= u
  BY <1>1, LeastNumber
<1>3. PICK x \in S : t = L - x
  BY <1>2
<1>4. \A i \in S : x >= i
  <2> TAKE i \in S
  <2>1. L - i \in T
    OBVIOUS
  <2>2. L - x <= L - i
    BY <1>2, <1>3, <2>1
  <2>3. L \in Nat /\ x \in Nat /\ i \in Nat
    OBVIOUS
  <2> HIDE DEF T
  <2> QED
    BY <2>2, <2>3
<1>5. \E y \in S : \A i \in S : y >= i
  BY <1>4
<1>6. Max(S) \in S /\ \A i \in S : Max(S) >= i
  BY <1>5 DEF Max
<1> QED
  BY <1>6

\* The newest records of a list that grows: typed, and one that is spaced stays so.
LEMMA TrimmedShifts ==
    ASSUME NEW s \in Seq(Records)
    PROVE  /\ Trimmed(s) \in Seq(Records) /\ Len(Trimmed(s)) <= MaxRecords
           /\ \E k \in Nat : \A i \in 1..Len(Trimmed(s)) :
                 i + k \in 1..Len(s) /\ Trimmed(s)[i] = s[i + k]
<1> USE ReadingsAssumption
<1> DEFINE w == Trimmed(s)
           k == IF Len(s) > MaxRecords THEN Len(s) - MaxRecords ELSE 0
<1>1. Len(s) \in Nat /\ MaxRecords \in Nat \ {0} /\ k \in Nat /\ k <= Len(s)
  OBVIOUS
<1>2. /\ w \in Seq(Records) /\ Len(w) = Len(s) - k
      /\ \A i \in 1..Len(w) : w[i] = s[i + k]
  <2>1. CASE Len(s) > MaxRecords
    <3>1. w = SubSeq(s, Len(s) - MaxRecords + 1, Len(s))
      BY <2>1 DEF Trimmed
    <3> HIDE DEF w
    <3>2. Len(w) = MaxRecords /\ w \in Seq(Records)
      BY <1>1, <2>1, <3>1
    <3>3. \A i \in 1..MaxRecords : w[i] = s[(Len(s) - MaxRecords + 1) + i - 1]
      BY <1>1, <2>1, <3>1
    <3>4. ASSUME NEW i \in 1..MaxRecords PROVE (Len(s) - MaxRecords + 1) + i - 1 = i + k
      BY <1>1, <2>1
    <3> QED
      BY <1>1, <2>1, <3>2, <3>3, <3>4
  <2>2. CASE ~(Len(s) > MaxRecords)
    BY <1>1, <2>2 DEF Trimmed
  <2> QED
    BY <2>1, <2>2
<1>3. Len(w) <= MaxRecords
  BY <1>1, <1>2
<1> HIDE DEF w, k
<1>4. \A i \in 1..Len(w) : i + k \in 1..Len(s)
  BY <1>1, <1>2
<1> QED
  BY <1>1, <1>2, <1>3, <1>4 DEF w

SpacedIn(s) ==
    \A n \in Remotes : \A i, j \in 1..Len(s) :
        s[i].node = n /\ s[j].node = n /\ i < j => s[j].time - s[i].time >= Spacing

LEMMA SpacedSame == log \in Seq(Records) => (RemoteRecordsAreSpaced <=> SpacedIn(log))
BY DEF RemoteRecordsAreSpaced, OfNode, SpacedIn

LEMMA TrimmedSpaced ==
    ASSUME NEW s \in Seq(Records), SpacedIn(s)
    PROVE  SpacedIn(Trimmed(s))
<1> DEFINE w == Trimmed(s)
<1>1. PICK k \in Nat : \A i \in 1..Len(w) : i + k \in 1..Len(s) /\ w[i] = s[i + k]
  BY TrimmedShifts
<1>2. w \in Seq(Records)
  BY TrimmedShifts
<1> HIDE DEF w
<1>3. SpacedIn(w)
  <2> SUFFICES ASSUME NEW n \in Remotes, NEW i \in 1..Len(w), NEW j \in 1..Len(w),
                      w[i].node = n, w[j].node = n, i < j
               PROVE  w[j].time - w[i].time >= Spacing
    BY DEF SpacedIn
  <2>1. i + k \in 1..Len(s) /\ j + k \in 1..Len(s) /\ i + k < j + k
    BY <1>1
  <2>2. w[i] = s[i + k] /\ w[j] = s[j + k]
    BY <1>1
  <2> QED
    BY <2>1, <2>2 DEF SpacedIn
<1> QED
  BY <1>3 DEF w

\* A record is added to those of its node only when the last one is old enough.
LEMMA AddedSpaced ==
    ASSUME log \in Seq(Records), SpacedIn(log), time \in 0..LastSecond,
           NEW n \in Remotes \cup {Local}, n \in Remotes => ~TooSoon(n)
    PROVE  /\ Append(log, [node |-> n, time |-> time]) \in Seq(Records)
           /\ SpacedIn(Append(log, [node |-> n, time |-> time]))
<1> USE ReadingsAssumption
<1> DEFINE r == [node |-> n, time |-> time]
           s == Append(log, r)
<1>1. r \in Records /\ r.node = n /\ r.time = time
  BY DEF Records
<1> HIDE DEF r
<1>2. /\ s \in Seq(Records) /\ Len(s) = Len(log) + 1 /\ s[Len(log) + 1] = r
      /\ \A i \in 1..Len(log) : s[i] = log[i]
      /\ Len(log) \in Nat
  BY <1>1
<1> HIDE DEF s
<1>3. ASSUME NEW i \in 1..Len(log), n \in Remotes, log[i].node = n
      PROVE  time - log[i].time >= Spacing
  <2>1. OfNode(n) \in SUBSET (0..Len(log)) /\ i \in OfNode(n)
    BY <1>3 DEF OfNode
  <2>2. Max(OfNode(n)) \in OfNode(n) /\ i <= Max(OfNode(n))
    BY <1>2, <2>1, Greatest
  <2>3. ~(time - log[Max(OfNode(n))].time < Spacing)
    BY <1>3, <2>1 DEF TooSoon
  <2> DEFINE x == Max(OfNode(n))
  <2>4. x \in 1..Len(log) /\ log[x].node = n /\ i <= x /\ ~(time - log[x].time < Spacing)
    BY <2>2, <2>3 DEF OfNode
  <2> HIDE DEF x
  <2>5. log[x] \in Records /\ log[i] \in Records
    BY <2>4
  <2>6. log[x].time \in 0..LastSecond /\ log[i].time \in 0..LastSecond
    BY <2>5 DEF Records
  <2>7. CASE i = x
    BY <2>4, <2>6, <2>7
  <2>8. CASE i < x
    <3>1. log[x].time - log[i].time >= Spacing
      BY <1>3, <2>4, <2>8 DEF SpacedIn
    <3> QED
      BY SMTT(30), <2>4, <2>6, <3>1
  <2> QED
    BY <2>4, <2>7, <2>8
<1>4. SpacedIn(s)
  <2> SUFFICES ASSUME NEW m \in Remotes, NEW i \in 1..Len(s), NEW j \in 1..Len(s),
                      s[i].node = m, s[j].node = m, i < j
               PROVE  s[j].time - s[i].time >= Spacing
    BY DEF SpacedIn
  <2>1. i \in 1..Len(log) /\ s[i] = log[i]
    BY <1>2
  <2>2. CASE j \in 1..Len(log)
    BY <1>2, <2>1, <2>2 DEF SpacedIn
  <2>3. CASE j = Len(log) + 1
    <3>1. n = m /\ n \in Remotes
      BY <1>1, <1>2, <2>3
    <3> QED
      BY <1>1, <1>2, <1>3, <2>1, <2>3, <3>1
  <2> QED
    BY <1>2, <2>2, <2>3
<1> QED
  BY <1>2, <1>4 DEF r, s

LEMMA LogKeeps == LogInv /\ (ReadingsNext \/ UNCHANGED readingsVars) => LogInv'
<1> USE ReadingsAssumption
<1> SUFFICES ASSUME LogInv, ReadingsNext \/ UNCHANGED readingsVars PROVE LogInv'
  OBVIOUS
<1>0. /\ time \in 0..LastSecond /\ lastLogged \in -Spacing..LastSecond
      /\ log \in Seq(Records) /\ Len(log) <= MaxRecords /\ SpacedIn(log)
  BY SpacedSame DEF LogInv
<1>q. ASSUME time' \in 0..LastSecond, lastLogged' \in -Spacing..LastSecond,
             log' \in Seq(Records), Len(log') <= MaxRecords, SpacedIn(log')
      PROVE  LogInv'
  <2>1. RemoteRecordsAreSpaced'
    BY <1>q DEF RemoteRecordsAreSpaced, OfNode, SpacedIn
  <2> QED
    BY <1>q, <2>1 DEF LogInv
<1>r. ASSUME NEW n \in Remotes \cup {Local}, n \in Remotes => ~TooSoon(n),
             log' = Trimmed(Append(log, [node |-> n, time |-> time]))
      PROVE  log' \in Seq(Records) /\ Len(log') <= MaxRecords /\ SpacedIn(log')
  <2>1. /\ Append(log, [node |-> n, time |-> time]) \in Seq(Records)
        /\ SpacedIn(Append(log, [node |-> n, time |-> time]))
    BY <1>0, <1>r, AddedSpaced
  <2> QED
    BY <1>r, <2>1, TrimmedShifts, TrimmedSpaced
<1>1. CASE BufferApplies
  <2>1. CASE Logged /\ time' = time
    <3>1. log' \in Seq(Records) /\ Len(log') <= MaxRecords /\ SpacedIn(log')
      BY <1>r, <2>1 DEF Logged
    <3>2. lastLogged' \in -Spacing..LastSecond
      BY <1>0, <2>1 DEF Logged
    <3> QED
      BY <1>0, <1>q, <2>1, <3>1, <3>2
  <2>2. CASE UNCHANGED <<log, lastLogged>> /\ time' = time
    BY <1>0, <1>q, <2>2
  <2> QED
    BY <1>1, <2>1, <2>2 DEF BufferApplies
<1>2. ASSUME NEW n \in Remotes, RemoteReport(n) PROVE LogInv'
  <2>1. /\ log' = IF TooSoon(n) THEN log ELSE Trimmed(Append(log, [node |-> n, time |-> time]))
        /\ time' = time /\ lastLogged' = lastLogged
    BY <1>2 DEF RemoteReport
  <2>2. CASE TooSoon(n)
    BY <1>0, <1>q, <2>1, <2>2
  <2>3. CASE ~TooSoon(n)
    <3>1. log' \in Seq(Records) /\ Len(log') <= MaxRecords /\ SpacedIn(log')
      BY <1>r, <2>1, <2>3
    <3> QED
      BY <1>0, <1>q, <2>1, <3>1
  <2> QED
    BY <2>2, <2>3
<1>3. CASE ReadingsTick
  <2>1. time' = time + 1 /\ time < LastSecond /\ log' = log /\ lastLogged' = lastLogged
    BY <1>3 DEF ReadingsTick
  <2>2. time' \in 0..LastSecond
    BY <1>0, <2>1
  <2> QED
    BY <1>0, <1>q, <2>1, <2>2
<1>4. CASE ReadingsRestart
  <2>1. lastLogged' = -Spacing /\ time' = time /\ log' = log
    BY <1>4 DEF ReadingsRestart
  <2>2. lastLogged' \in -Spacing..LastSecond
    BY <2>1
  <2> QED
    BY <1>0, <1>q, <2>1, <2>2
<1>5. CASE (\E S \in SUBSET Quantities \ {{}} : Report(S)) \/ BufferTakes
  <2>1. time' = time /\ log' = log /\ lastLogged' = lastLogged
    BY <1>5 DEF Report, BufferTakes
  <2> QED
    BY <1>0, <1>q, <2>1
<1>6. CASE UNCHANGED readingsVars
  <2>1. time' = time /\ log' = log /\ lastLogged' = lastLogged
    BY <1>6 DEF readingsVars
  <2> QED
    BY <1>0, <1>q, <2>1
<1> QED
  BY <1>1, <1>2, <1>3, <1>4, <1>5, <1>6 DEF ReadingsNext

\* A text that is heard is recorded once, however its line, the clearing of the
\* chat, an expiry and a deletion fall between each other; the last value of a
\* field is shown or on its way; and the records of a remote node are spaced,
\* whatever restarts and other nodes' records come between (server.py:1995-2070,
\* telemetry.py).  For every size of the history and of the log.
THEOREM WhatIsHeardIsKept == StationSpec => []HeardIsKept
<1>1. StationInit => InboxInv /\ ReadInv
  BY InboxStart, ReadStart DEF StationInit
<1>2. InboxInv /\ ReadInv /\ [StationNext]_stationVars => InboxInv' /\ ReadInv'
  BY PartSteps, InboxKeeps, BufferKeeps, LogKeeps DEF ReadInv
<1>3. InboxInv /\ ReadInv => HeardIsKept
  BY InboxTypes DEF ReadInv, BufferInv, LogInv, HeardIsKept
<1> QED
  BY <1>1, <1>2, <1>3, PTL DEF StationSpec

-----------------------------------------------------------------------------
(* The devices                                                             *)

\* The last frame is of the running configuration or there is none; no generator
\* is ahead of the camera, and what it holds is not older than the generation it
\* serves.
CsiInv ==
    /\ streamGen \in 0..MaxStreams /\ lastFrame \in {0, streamGen}
    /\ available \in BOOLEAN /\ running \in BOOLEAN /\ mode \in {"video", "photo"}
    /\ feed \in [Feeds -> [at : {"none", "begins", "loops", "asks", "holds"}, gen : 0..MaxStreams, shows : 0..MaxStreams]]
    /\ \A v \in Feeds : /\ feed[v].gen <= streamGen
                        /\ feed[v].at = "holds" => feed[v].shows = 0 \/ feed[v].shows \in feed[v].gen..streamGen

CsiRest ==
    /\ power \in BOOLEAN /\ powerFile \in BOOLEAN
    /\ closing \in BOOLEAN /\ still \in BOOLEAN /\ pictures \in 0..MaxPictures

LEMMA CsiStart == CsiInit => CsiInv /\ CsiRest
<1> SUFFICES ASSUME CsiInit PROVE CsiInv /\ CsiRest
  OBVIOUS
<1> USE CsiAssumption
<1>1. NoFeed \in [at : {"none", "begins", "loops", "asks", "holds"}, gen : 0..MaxStreams, shows : 0..MaxStreams]
  BY DEF NoFeed
<1>2. NoFeed.gen = 0 /\ NoFeed.at = "none"
  BY DEF NoFeed
<1>3. streamGen = 0 /\ lastFrame = 0 /\ 0 \in 0..MaxStreams /\ pictures \in 0..MaxPictures
  BY DEF CsiInit
<1>4. \A v \in Feeds : feed[v] = NoFeed
  BY DEF CsiInit
<1>5. feed \in [Feeds -> [at : {"none", "begins", "loops", "asks", "holds"}, gen : 0..MaxStreams, shows : 0..MaxStreams]]
  BY <1>1 DEF CsiInit
<1>6. \A v \in Feeds : /\ feed[v].gen <= streamGen
                       /\ feed[v].at = "holds" => feed[v].shows = 0 \/ feed[v].shows \in feed[v].gen..streamGen
  BY <1>2, <1>3, <1>4
<1>7. /\ available \in BOOLEAN /\ running \in BOOLEAN /\ mode \in {"video", "photo"}
      /\ power \in BOOLEAN /\ powerFile \in BOOLEAN /\ closing \in BOOLEAN /\ still \in BOOLEAN
  BY DEF CsiInit
<1> QED
  BY <1>3, <1>5, <1>6, <1>7 DEF CsiInv, CsiRest

LEMMA CsiTypes == CsiInv /\ CsiRest => CsiTypeOK
  BY CsiAssumption DEF CsiInv, CsiRest, CsiTypeOK

\* The camera is stopped or started: the generation rises and takes the last
\* frame with it.
CameraMoves ==
    /\ available' \in BOOLEAN /\ running' \in BOOLEAN /\ mode' \in {"video", "photo"}
    /\ streamGen' \in 0..MaxStreams /\ streamGen <= streamGen' /\ lastFrame' \in {0, streamGen'}

LEMMA CameraKeeps == ASSUME CsiInv, CameraMoves, UNCHANGED feed PROVE CsiInv'
<1>1. /\ streamGen \in Nat /\ streamGen' \in Nat /\ streamGen <= streamGen'
      /\ \A v \in Feeds : feed[v].gen \in Nat /\ feed[v].shows \in Nat
  BY CsiAssumption DEF CsiInv, CameraMoves
<1>2. ASSUME NEW v \in Feeds
      PROVE  /\ feed'[v].gen <= streamGen'
             /\ feed'[v].at = "holds" => feed'[v].shows = 0 \/ feed'[v].shows \in feed'[v].gen..streamGen'
  BY <1>1 DEF CsiInv
<1> QED
  BY <1>2 DEF CsiInv, CameraMoves

LEMMA StartMoves ==
    ASSUME CsiInv, UNCHANGED available,
           \/ StartCamera
           \/ Halts /\ UNCHANGED mode
           \/ \E m \in {"video", "photo"} : SwitchTo(m)
    PROVE  CameraMoves
<1> USE CsiAssumption
<1>1. CASE UNCHANGED <<running, mode, streamGen, lastFrame>>
  BY <1>1 DEF CsiInv, CameraMoves
<1>2. CASE Halts /\ UNCHANGED mode
  <2>1. streamGen \in 0..MaxStreams /\ available \in BOOLEAN /\ mode \in {"video", "photo"}
    BY DEF CsiInv
  <2>2. streamGen' = streamGen + 1 /\ streamGen < MaxStreams /\ lastFrame' = 0 /\ running' = FALSE /\ mode' = mode
        /\ available' = available
    BY <1>2 DEF Halts
  <2>3. streamGen' \in 0..MaxStreams /\ streamGen <= streamGen'
    BY <2>1, <2>2
  <2>4. available' \in BOOLEAN /\ running' \in BOOLEAN /\ mode' \in {"video", "photo"}
    BY <2>1, <2>2
  <2> QED
    BY <2>2, <2>3, <2>4 DEF CameraMoves
<1>3. ASSUME NEW m \in {"video", "photo"}, SwitchTo(m) PROVE CameraMoves
  BY <1>3 DEF CsiInv, CameraMoves, SwitchTo
<1> QED
  BY <1>1, <1>2, <1>3 DEF StartCamera, NoCamera

\* One generator moves, the camera with it or not.
LEMMA FeedKeeps ==
    ASSUME CsiInv, CameraMoves, NEW v \in Feeds,
           NEW f \in [at : {"none", "begins", "loops", "asks", "holds"}, gen : 0..MaxStreams, shows : 0..MaxStreams],
           feed' = [feed EXCEPT ![v] = f],
           f.gen <= streamGen',
           f.at = "holds" => f.shows = 0 \/ f.shows \in f.gen..streamGen'
    PROVE  CsiInv'
<1>1. /\ streamGen \in Nat /\ streamGen' \in Nat /\ streamGen <= streamGen'
      /\ \A u \in Feeds : feed[u].gen \in Nat /\ feed[u].shows \in Nat
  BY CsiAssumption DEF CsiInv, CameraMoves
<1>2. ASSUME NEW u \in Feeds
      PROVE  /\ feed'[u].gen <= streamGen'
             /\ feed'[u].at = "holds" => feed'[u].shows = 0 \/ feed'[u].shows \in feed'[u].gen..streamGen'
  <2>1. CASE u = v
    <3>1. feed'[u] = f
      BY <2>1 DEF CsiInv
    <3> QED
      BY <3>1
  <2>2. CASE u # v
    <3>1. feed'[u] = feed[u]
      BY <2>2 DEF CsiInv
    <3> QED
      BY <1>1, <3>1 DEF CsiInv
  <2> QED
    BY <2>1, <2>2
<1>3. feed' \in [Feeds -> [at : {"none", "begins", "loops", "asks", "holds"}, gen : 0..MaxStreams, shows : 0..MaxStreams]]
  BY DEF CsiInv
<1> QED
  BY <1>2, <1>3 DEF CsiInv, CameraMoves

LEMMA Holding ==
    ASSUME NEW P, NEW N, NEW g \in [at : P, gen : N, shows : N], NEW p \in P, NEW w \in N
    PROVE  /\ [g EXCEPT !.at = p, !.shows = w] \in [at : P, gen : N, shows : N]
           /\ [g EXCEPT !.at = p, !.shows = w].shows = w
           /\ [g EXCEPT !.at = p, !.shows = w].gen = g.gen
  OBVIOUS

LEMMA GeneratorKeeps ==
    ASSUME CsiInv, NEW v \in Feeds,
           \/ FeedOpens(v) \/ FeedReadsGeneration(v) \/ FeedLoops(v)
           \/ FrameStarts(v) \/ FrameCaptured(v) \/ FeedYields(v) \/ FeedEnds(v)
    PROVE  CsiInv'
<1> USE CsiAssumption
<1> DEFINE Places == {"none", "begins", "loops", "asks", "holds"}
           Generators == [at : Places, gen : 0..MaxStreams, shows : 0..MaxStreams]
<1>0. /\ feed \in [Feeds -> Generators] /\ feed[v] \in Generators
      /\ streamGen \in 0..MaxStreams /\ lastFrame \in {0, streamGen}
      /\ feed[v].gen <= streamGen
      /\ feed[v].at = "holds" => feed[v].shows = 0 \/ feed[v].shows \in feed[v].gen..streamGen
  BY DEF CsiInv
<1>1. NoFeed \in Generators /\ NoFeed.at = "none" /\ NoFeed.gen = 0
  BY DEF NoFeed
<1>2. CASE FeedOpens(v)
  <2>1. CameraMoves
    <3>1. StartCamera /\ UNCHANGED available
      BY <1>2 DEF FeedOpens
    <3> QED
      BY <3>1, StartMoves
  <2>2. PICK p \in {"none", "begins"} : feed' = [feed EXCEPT ![v] = [@ EXCEPT !.at = p]]
    BY <1>2 DEF FeedOpens
  <2> DEFINE f == [feed[v] EXCEPT !.at = p]
  <2>3. f \in Generators /\ f.at = p /\ f.gen = feed[v].gen
    BY <1>0
  <2>4. feed' = [feed EXCEPT ![v] = f]
    BY <2>2
  <2> HIDE DEF f
  <2>5. f.gen <= streamGen' /\ f.at # "holds"
    BY <1>0, <2>1, <2>3 DEF CameraMoves
  <2> QED
    BY <2>1, <2>3, <2>4, <2>5, FeedKeeps
<1>3. CASE FeedReadsGeneration(v)
  <2>1. CameraMoves
    BY <1>3 DEF FeedReadsGeneration, CameraMoves, CsiInv
  <2> DEFINE f == [feed[v] EXCEPT !.at = "loops", !.gen = streamGen]
  <2>3. f \in Generators /\ f.at = "loops" /\ f.gen = streamGen
    BY <1>0
  <2>4. feed' = [feed EXCEPT ![v] = f] /\ streamGen' = streamGen
    BY <1>3 DEF FeedReadsGeneration
  <2> HIDE DEF f
  <2>5. f.gen <= streamGen' /\ f.at # "holds"
    BY <1>0, <2>3, <2>4
  <2> QED
    BY <2>1, <2>3, <2>4, <2>5, FeedKeeps
<1>4. CASE FeedLoops(v) \/ FeedYields(v) \/ FeedEnds(v)
  <2>1. CameraMoves /\ streamGen' = streamGen
    BY <1>4 DEF FeedLoops, FeedYields, FeedEnds, CameraMoves, CsiInv
  <2>2. PICK p \in {"loops", "asks"} :
           feed' = [feed EXCEPT ![v] = [@ EXCEPT !.at = p]] \/ feed' = [feed EXCEPT ![v] = NoFeed]
    BY <1>4 DEF FeedLoops, FeedYields, FeedEnds
  <2>3. CASE feed' = [feed EXCEPT ![v] = NoFeed]
    <3>1. NoFeed.gen <= streamGen' /\ NoFeed.at # "holds"
      BY <1>0, <1>1, <2>1
    <3> QED
      BY <1>1, <2>1, <2>3, <3>1, FeedKeeps
  <2>4. CASE feed' = [feed EXCEPT ![v] = [@ EXCEPT !.at = p]]
    <3> DEFINE f == [feed[v] EXCEPT !.at = p]
    <3>1. f \in Generators /\ f.at = p /\ f.gen = feed[v].gen
      BY <1>0
    <3>2. feed' = [feed EXCEPT ![v] = f]
      BY <2>4
    <3> HIDE DEF f
    <3>3. f.gen <= streamGen' /\ f.at # "holds"
      BY <1>0, <2>1, <3>1
    <3> QED
      BY <2>1, <3>1, <3>2, <3>3, FeedKeeps
  <2> QED
    BY <2>2, <2>3, <2>4
<1>5. CASE FrameStarts(v)
  <2>1. CameraMoves
    <3>1. StartCamera /\ UNCHANGED available
      BY <1>5 DEF FrameStarts
    <3> QED
      BY <3>1, StartMoves
  <2>2. PICK p \in {"asks", "holds"} : feed' = [feed EXCEPT ![v] = [@ EXCEPT !.at = p, !.shows = 0]]
    BY <1>5 DEF FrameStarts
  <2> DEFINE f == [feed[v] EXCEPT !.at = p, !.shows = 0]
  <2>3. f \in Generators /\ f.shows = 0 /\ f.gen = feed[v].gen
    <3>1. 0 \in 0..MaxStreams /\ p \in Places
      OBVIOUS
    <3> QED
      BY <1>0, <3>1, Holding
  <2>4. feed' = [feed EXCEPT ![v] = f]
    BY <2>2
  <2> HIDE DEF f
  <2>5. f.gen <= streamGen'
    BY <1>0, <2>1, <2>3 DEF CameraMoves
  <2> QED
    BY <2>1, <2>3, <2>4, <2>5, FeedKeeps
<1>6. CASE FrameCaptured(v)
  <2>1. /\ lastFrame' \in {0, streamGen} /\ streamGen' = streamGen
        /\ running' \in BOOLEAN /\ UNCHANGED <<available, mode>>
    BY <1>0, <1>6 DEF FrameCaptured, CsiInv
  <2>2. CameraMoves
    BY <1>0, <2>1 DEF CameraMoves, CsiInv
  <2> DEFINE f == [feed[v] EXCEPT !.at = "holds", !.shows = lastFrame']
  <2>3. f \in Generators /\ f.shows = lastFrame' /\ f.gen = feed[v].gen
    <3>1. lastFrame' \in 0..MaxStreams /\ "holds" \in Places
      BY <1>0, <2>1
    <3> QED
      BY <1>0, <3>1, Holding
  <2>4. feed' = [feed EXCEPT ![v] = f]
    BY <1>6 DEF FrameCaptured
  <2> HIDE DEF f
  <2>5. f.gen <= streamGen' /\ (f.shows = 0 \/ f.shows \in f.gen..streamGen')
    <3>1. feed[v].gen \in Nat /\ streamGen \in Nat
      BY <1>0
    <3> QED
      BY <1>0, <2>1, <2>3, <3>1
  <2> QED
    BY <2>2, <2>3, <2>4, <2>5, FeedKeeps
<1> QED
  BY <1>2, <1>3, <1>4, <1>5, <1>6

LEMMA RoutesKeep ==
    ASSUME CsiInv,
           \/ StopCamera \/ PowerOn \/ PowerOff \/ CloseCamera \/ DetectCamera
           \/ (\E m \in {"video", "photo"} : SwitchMode(m))
           \/ UpdateSettings \/ SetVideoMode
           \/ StillSwitches \/ StillTaken \/ Screenshot \/ DeletePictures
    PROVE  CsiInv'
<1> USE CsiAssumption
<1>0. UNCHANGED feed
  BY DEF StopCamera, PowerOn, PowerOff, CloseCamera, DetectCamera, SwitchMode, UpdateSettings, SetVideoMode,
         StillSwitches, StillTaken, Screenshot, DeletePictures
<1>1. CASE StopCamera \/ PowerOff
  BY <1>0, <1>1, StartMoves, CameraKeeps DEF StopCamera, PowerOff
<1>2. CASE PowerOn
  <2>0. /\ streamGen \in 0..MaxStreams /\ lastFrame \in {0, streamGen}
        /\ available \in BOOLEAN /\ running \in BOOLEAN /\ mode \in {"video", "photo"}
    BY DEF CsiInv
  <2>1. CameraMoves
    <3>1. CASE UNCHANGED <<available, running, mode, streamGen, lastFrame>>
      BY <2>0, <3>1 DEF CameraMoves
    <3>2. CASE ~UNCHANGED <<available, running, mode, streamGen, lastFrame>>
      <4>1. /\ available' = TRUE /\ streamGen < MaxStreams
            /\ streamGen' = streamGen + 1 /\ lastFrame' = 0
            /\ running' \in BOOLEAN /\ mode' \in {mode, "video"}
        BY <1>2, <3>2 DEF PowerOn
      <4> QED
        BY <2>0, <4>1 DEF CameraMoves
    <3> QED
      BY <3>1, <3>2
  <2> QED
    BY <1>0, <2>1, CameraKeeps
<1>3. CASE CloseCamera \/ DetectCamera \/ StillTaken \/ DeletePictures
  <2>0. /\ streamGen \in 0..MaxStreams /\ lastFrame \in {0, streamGen}
        /\ available \in BOOLEAN /\ running \in BOOLEAN /\ mode \in {"video", "photo"}
    BY DEF CsiInv
  <2>1. CameraMoves
    <3>1. available' \in BOOLEAN /\ UNCHANGED <<running, mode, streamGen, lastFrame>>
      BY <1>3, <2>0 DEF CloseCamera, DetectCamera, StillTaken, DeletePictures
    <3> QED
      BY <2>0, <3>1 DEF CameraMoves
  <2> QED
    BY <1>0, <2>1, CameraKeeps
<1>4. CASE (\E m \in {"video", "photo"} : SwitchMode(m)) \/ UpdateSettings \/ SetVideoMode \/ StillSwitches
  <2>1. (\E m \in {"video", "photo"} : SwitchTo(m)) /\ UNCHANGED available
    BY <1>4 DEF SwitchMode, UpdateSettings, SetVideoMode, StillSwitches, CsiInv
  <2> QED
    BY <1>0, <2>1, StartMoves, CameraKeeps
<1>5. CASE Screenshot
  <2>1. CASE StartCamera
    <3>1. UNCHANGED available
      BY <1>5 DEF Screenshot
    <3> QED
      BY <1>0, <2>1, <3>1, StartMoves, CameraKeeps
  <2>2. CASE ~StartCamera
    <3>1. CameraMoves
      BY <1>5, <2>2 DEF Screenshot, CameraMoves, CsiInv
    <3> QED
      BY <1>0, <3>1, CameraKeeps
  <2> QED
    BY <2>1, <2>2
<1> QED
  BY SMTT(30), <1>1, <1>2, <1>3, <1>4, <1>5

LEMMA CsiKeeps == CsiInv /\ (CsiNext \/ UNCHANGED csiVars) => CsiInv'
<1> SUFFICES ASSUME CsiInv, CsiNext \/ UNCHANGED csiVars PROVE CsiInv'
  OBVIOUS
<1>1. CASE UNCHANGED csiVars
  BY <1>1 DEF csiVars, CsiInv
<1> QED
  BY <1>1, GeneratorKeeps, RoutesKeep DEF CsiNext

\* The two looks at the generation: what is sent is of the generator's own
\* configuration.
LEMMA YieldsOwn ==
    ASSUME CsiInv, NEW v \in Feeds, FeedYields(v), feed'[v] # NoFeed
    PROVE  feed[v].shows \in {0, feed[v].gen}
<1>1. feed[v].at = "holds" /\ feed[v].gen = streamGen
  BY DEF FeedYields, CsiInv
<1>2. feed[v].gen \in Nat /\ feed[v].shows \in Nat
  BY CsiAssumption DEF CsiInv
<1> QED
  BY <1>1, <1>2 DEF CsiInv

\* Viewers of the USB camera get frames of the stream that runs, but for the last
\* one of a thread whose conversion outlived the two seconds of its stop; every
\* open device is the running stream's or is being closed; a generator of the CSI
\* camera sends frames of one configuration, and the display's pins belong to the
\* panel in use or to nobody - for every number of viewers, generations, models
\* and tries (usb_driver.py, camera.py, display/manager.py).
THEOREM DevicesStayTheirs == StationSpec => DevicesAreTheirs
<1>1. StationInit => CsiInv /\ UsbInv /\ DispInv
  BY CsiStart, UsbStart, DisplayStart DEF StationInit
<1>2. CsiInv /\ UsbInv /\ DispInv /\ [StationNext]_stationVars => CsiInv' /\ UsbInv' /\ DispInv'
  BY PartSteps, CsiKeeps, UsbKeeps, DisplayKeeps
<1>3. UsbInv /\ DispInv => DevicesAreFreed /\ ClaimFollowsDriver
  BY UsbTypesHold, DisplayHolds
<1>4. CsiInv => [\A v \in Feeds : FeedYields(v) /\ feed'[v] # NoFeed => feed[v].shows \in {0, feed[v].gen}]_csiVars
  BY YieldsOwn
<1>5. UsbInv /\ [StationNext]_stationVars =>
          [streaming' /\ frame' \notin {NoThread, generation'} =>
              \/ streaming /\ UNCHANGED <<generation, frame>>
              \/ Outlived(frame') /\ reader'[frame'] = "ended"]_usbVars
  BY PartSteps, UsbShows
<1> QED
  BY <1>1, <1>2, <1>3, <1>4, <1>5, PTL
     DEF StationSpec, DevicesAreTheirs, OneConfigurationPerFeed, FramesAreCurrent

-----------------------------------------------------------------------------
(* Types of the parts                                                      *)

LEMMA NotesKeep ==
    ASSUME NotesTypeOK, NotesNext \/ notes' = Pushed(notes) \/ notes' = <<>> \/ notes' = notes
    PROVE  NotesTypeOK'
<1> USE QueueAssumption DEF NotesTypeOK
<1>0. notes \in Seq(BOOLEAN) /\ Len(notes) \in Nat /\ Len(notes) <= MaxQueue /\ DOMAIN notes = 1..Len(notes)
  BY LenProperties
<1>1. CASE notes' = <<>>
  BY <1>1
<1>2. CASE MarkRead
  <2>1. PICK i \in 1..Len(notes) : notes' = [notes EXCEPT ![i] = TRUE]
    BY <1>0, <1>2 DEF MarkRead
  <2> QED
    BY <1>0, <2>1, ExceptSeq
<1>3. CASE MarkAllRead
  <2>1. notes' \in [1..Len(notes) -> BOOLEAN]
    BY <1>0, <1>3 DEF MarkAllRead
  <2>2. notes' \in Seq(BOOLEAN)
    BY <1>0, <2>1, SeqDef
  <2>3. Len(notes') = Len(notes)
    BY <1>0, <2>1, <2>2, LenProperties
  <2> QED
    BY <1>0, <2>2, <2>3
<1>4. CASE DeleteOne
  <2>1. PICK i \in 1..Len(notes) : notes' = SubSeq(notes, 1, i - 1) \o SubSeq(notes, i + 1, Len(notes))
    BY <1>0, <1>4 DEF DeleteOne
  <2>2. notes' \in Seq(BOOLEAN) /\ Len(notes') <= Len(notes)
    BY <1>0, <2>1, WithoutKeeps
  <2> QED
    BY SMTT(30), <1>0, <2>2, LenProperties
<1>5. CASE notes' = Pushed(notes)
  <2> DEFINE longer == Append(notes, FALSE)
  <2>1. longer \in Seq(BOOLEAN) /\ Len(longer) = Len(notes) + 1
    BY <1>0, AppendProperties
  <2>2. notes' = IF Len(longer) > MaxQueue THEN Tail(longer) ELSE longer
    BY <1>5 DEF Pushed
  <2> HIDE DEF longer
  <2>3. Tail(longer) \in Seq(BOOLEAN) /\ Len(Tail(longer)) = Len(longer) - 1
    BY <1>0, <2>1, HeadTailProperties
  <2>4. CASE Len(longer) > MaxQueue
    <3>1. Len(notes') = Len(notes) /\ notes' \in Seq(BOOLEAN)
      BY <1>0, <2>1, <2>2, <2>3, <2>4
    <3> QED
      BY <1>0, <3>1
  <2>5. CASE ~(Len(longer) > MaxQueue)
    BY <1>0, <2>1, <2>2, <2>5
  <2> QED
    BY <2>4, <2>5
<1>6. CASE notes' = notes
  BY <1>6
<1> QED
  BY <1>1, <1>2, <1>3, <1>4, <1>5, <1>6 DEF NotesNext, ClearAll

TimerTypes ==
    /\ NotesTypeOK /\ now <= MaxTime
    /\ finishing \in [Pages -> TimerIds \cup {NoTimer}]

LEMMA TimersTyped == TimerInv /\ TimerTypes => TimersTypeOK
<1> SUFFICES ASSUME TimerInv, TimerTypes PROVE TimersTypeOK
  OBVIOUS
<1>1. now \in 1..MaxTime
  BY TimersAssumption DEF TimerInv, TimerTypes
<1>2. \A t \in TimerIds : segment[t] \in 0..MaxTime
  BY <1>1, TimersAssumption DEF TimerInv
<1> QED
  BY <1>1, <1>2 DEF TimerInv, TimerTypes, TimersTypeOK

LEMMA TimersStart == TimersInit => TimerTypes
  BY TimersAssumption, QueueAssumption DEF TimersInit, NotesInit, TimerTypes, NotesTypeOK

LEMMA TimersStay == TimerInv /\ TimerTypes /\ (TimersNext \/ UNCHANGED timerVars) => TimerTypes'
<1> SUFFICES ASSUME TimerInv, TimerTypes, TimersNext \/ UNCHANGED timerVars PROVE TimerTypes'
  OBVIOUS
<1>1. NotesTypeOK'
  <2>1. NotesNext \/ notes' = Pushed(notes) \/ notes' = <<>> \/ notes' = notes
    BY DEF TimersNext, Second, TimersRestart, PagesStep, CreateTimer, ResetTimer, StartAfresh, PauseTimer, ResumeTimer,
           StopTimer, DeleteTimer, MarkFinished, AnnounceFinish, timerVars
  <2> QED
    BY <2>1, NotesKeep DEF TimerTypes
<1>2. now' <= MaxTime
  <2>1. now' = now \/ (now < MaxTime /\ now' = now + 1)
    BY DEF TimersNext, Second, TimersRestart, PagesStep, CreateTimer, ResetTimer, StartAfresh, PauseTimer, ResumeTimer,
           StopTimer, DeleteTimer, MarkFinished, AnnounceFinish, timerVars
  <2> QED
    BY <2>1, TimersAssumption DEF TimerInv, TimerTypes
<1>3. finishing' \in [Pages -> TimerIds \cup {NoTimer}]
  <2>1. \/ finishing' = finishing \/ finishing' = [p \in Pages |-> NoTimer]
        \/ \E p \in Pages, t \in TimerIds \cup {NoTimer} : finishing' = [finishing EXCEPT ![p] = t]
    BY DEF TimersNext, Second, TimersRestart, PagesStep, CreateTimer, ResetTimer, StartAfresh, PauseTimer, ResumeTimer,
           StopTimer, DeleteTimer, MarkFinished, AnnounceFinish, timerVars
  <2> QED
    BY <2>1 DEF TimerTypes
<1> QED
  BY <1>1, <1>2, <1>3 DEF TimerTypes

LEMMA DataAgeTyped == ReportsTypeOK => DataAge \in 0..MaxAge
<1> SUFFICES ASSUME ReportsTypeOK PROVE DataAge \in 0..MaxAge
  OBVIOUS
<1> DEFINE S == {0} \cup {reading[f] : f \in Dated}
<1>1. S \in SUBSET (0..MaxAge) /\ S # {}
  BY AgeAssumption DEF ReportsTypeOK, Dated, Unknown, Undated
<1> HIDE DEF S
<1>2. Max(S) \in S
  BY <1>1, AgeAssumption, Greatest
<1>3. Max(S) \in 0..MaxAge
  BY <1>1, <1>2
<1> QED
  BY <1>3 DEF DataAge, S

LEMMA ReportsStart == ReportsInit => ReportsTypeOK
  BY AgeAssumption DEF ReportsInit, ReportsTypeOK, Policies, Outcomes

Reported == [policy : Policies, age : 0..MaxAge, outcome : Outcomes]

LEMMA ReportsStay == ReportsTypeOK /\ (ReportsNext \/ UNCHANGED reportVars) => ReportsTypeOK'
<1> SUFFICES ASSUME ReportsTypeOK, ReportsNext \/ UNCHANGED reportVars PROVE ReportsTypeOK'
  OBVIOUS
<1> USE AgeAssumption
<1>1. CASE UNCHANGED reportVars
  BY <1>1 DEF reportVars, ReportsTypeOK
<1>2. CASE PortToggles
  BY <1>2 DEF PortToggles, ReportsTypeOK
<1>3. CASE FieldsAge
  <2>1. \A f \in Fields : (IF f \in Dated THEN reading[f] + 1 ELSE reading[f]) \in {Unknown, Undated} \cup 0..MaxAge
    BY <1>3 DEF FieldsAge, Dated, ReportsTypeOK, Unknown, Undated
  <2> QED
    BY <1>3, <2>1 DEF FieldsAge, ReportsTypeOK
<1>4. ASSUME NEW f \in Fields, FieldArrives(f) PROVE ReportsTypeOK'
  BY <1>4 DEF FieldArrives, ReportsTypeOK
<1>5. ASSUME NEW policy \in Policies, DataReport(policy) PROVE ReportsTypeOK'
  <2> DEFINE answer(o) == [policy |-> policy, age |-> DataAge, outcome |-> o]
  <2>1. \A o \in Outcomes : answer(o) \in Reported
    BY DataAgeTyped DEF Reported
  <2>2. \A o \in Outcomes : [answer(o) EXCEPT !.outcome = "not sent"] \in Reported
    BY DataAgeTyped DEF Reported, Outcomes
  <2>3. ASSUME NEW o \in Outcomes, MeshMessage(answer(o)) PROVE report' \in Reported /\ chatLog' \in BOOLEAN
    <3>1. \/ report' = answer(o) /\ chatLog' \in BOOLEAN
          \/ report' = [answer(o) EXCEPT !.outcome = "not sent"] /\ chatLog' = chatLog
      BY <2>3 DEF MeshMessage
    <3> QED
      BY <2>1, <2>2, <3>1 DEF ReportsTypeOK
  <2>4. /\ UNCHANGED <<reading, radioUp>>
        /\ \/ \E o \in Outcomes : MeshMessage(answer(o))
           \/ \E o \in Outcomes : report' = answer(o) /\ chatLog' = chatLog
    BY <1>5 DEF DataReport, Outcomes
  <2>5. report' \in Reported /\ chatLog' \in BOOLEAN
    BY <2>1, <2>3, <2>4 DEF ReportsTypeOK
  <2> QED
    BY <2>4, <2>5 DEF ReportsTypeOK, Reported
<1> QED
  BY <1>1, <1>2, <1>3, <1>4, <1>5 DEF ReportsNext

Probing == [pc : {"probing"}, target : Radios, copy : Identities]
Saving == [pc : {"saving"}, copy : Identities]

LEMMA ProfileStart == ProfileInit => ProfileTypeOK
<1> SUFFICES ASSUME ProfileInit PROVE ProfileTypeOK
  OBVIOUS
<1> USE ConfirmedAssumption
<1>1. PICK r \in Radios : /\ saved = [profile |-> r, radio |-> r, assigned |-> Pending]
                          /\ bound = r /\ profiles = {r} /\ verdict = Compare(r, plugged)
  BY DEF ProfileInit
<1>2. saved \in Identities /\ identity \in Identities /\ verdict \in Verdicts
  BY <1>1 DEF ProfileInit, Identities, Pending, Compare, Verdicts
<1>3. /\ activation \in [ProfileRequests -> {Idle} \cup [pc : {"probing"}, target : Radios, copy : Identities]]
      /\ confirmed \in 0..MaxConfirmed /\ plugged \in OnPort /\ hears \in OnPort
  BY DEF ProfileInit, OnPort
<1> QED
  BY <1>1, <1>2, <1>3 DEF ProfileInit, ProfileTypeOK

LEMMA BootTyped == ASSUME ProfileTypeOK, Boot PROVE ProfileTypeOK'
<1>1. PICK v \in {Compare(saved.radio, plugged), "DETECTION_ERROR"} : Started(saved, v)
  BY DEF Boot
<1> DEFINE id == [saved EXCEPT !.profile = saved.radio]
<1>2. id \in Identities /\ saved.radio \in Radios /\ v \in Verdicts
  BY <1>1 DEF ProfileTypeOK, Identities, Compare, Verdicts
<1>3. /\ saved' = id /\ identity' = id /\ bound' = saved.radio
      /\ profiles' = profiles \cup {saved.radio} /\ verdict' = v
      /\ listener' = (v = "MATCH")
      /\ freed' = FALSE /\ hears' = NoRadio
      /\ activation' = [q \in ProfileRequests |-> Idle]
      /\ restartDue' = FALSE
      /\ assigner' = [pc |-> "waiting"]
      /\ plugged' = plugged /\ confirmed' = confirmed
  BY <1>1 DEF Boot, Started, WithProfile
<1> HIDE DEF id
<1>4. listener' \in BOOLEAN /\ hears' \in OnPort /\ profiles' \subseteq Radios
  BY <1>2, <1>3 DEF OnPort, ProfileTypeOK
<1> QED
  BY <1>2, <1>3, <1>4 DEF ProfileTypeOK

LEMMA ProfileStays == ProfileTypeOK /\ (ProfileNext \/ UNCHANGED profileVars) => ProfileTypeOK'
<1> SUFFICES ASSUME ProfileTypeOK, ProfileNext \/ UNCHANGED profileVars PROVE ProfileTypeOK'
  OBVIOUS
<1> USE ConfirmedAssumption
<1>0. /\ saved \in Identities /\ plugged \in OnPort /\ confirmed \in 0..MaxConfirmed
      /\ activation \in [ProfileRequests -> {Idle} \cup Probing]
      /\ assigner \in {Idle, [pc |-> "waiting"]} \cup Saving
  BY DEF ProfileTypeOK, Probing, Saving
<1>1. CASE Boot
  BY <1>1, BootTyped
<1>2. CASE RestartRefused \/ DetectRadio \/ Reconnect \/ ListenerConnects
  BY <1>2 DEF RestartRefused, DetectRadio, Reconnect, ListenerConnects, ProfileTypeOK, OnPort
<1>3. CASE Exchange
  BY <1>3 DEF Exchange, ProfileTypeOK, OnPort
<1>4. CASE AssignReads
  <2>1. /\ confirmed' = confirmed + 1 /\ confirmed' \in 0..MaxConfirmed
        /\ assigner' = [pc |-> "saving", copy |-> [saved EXCEPT !.assigned = confirmed']]
    BY <1>0, <1>4 DEF AssignReads
  <2>2. [saved EXCEPT !.assigned = confirmed'] \in Identities
    BY <1>0, <2>1 DEF Identities
  <2>3. assigner' \in Saving
    BY <2>1, <2>2 DEF Saving
  <2> QED
    BY <1>4, <2>1, <2>3 DEF AssignReads, ProfileTypeOK, Saving
<1>5. CASE AssignSaves
  <2>1. assigner \in Saving
    BY <1>0, <1>5 DEF AssignSaves, Idle
  <2>2. saved' \in Identities /\ assigner' = Idle
    BY <1>5, <2>1 DEF AssignSaves, Saving
  <2> QED
    BY <1>5, <2>2 DEF AssignSaves, ProfileTypeOK
<1>6. ASSUME NEW r \in Radios, AcceptRadio(r) PROVE ProfileTypeOK'
  <2>1. saved' \in Identities /\ profiles' \subseteq Radios /\ verdict' \in Verdicts
    BY <1>0, <1>6 DEF AcceptRadio, WithProfile, Identities, ProfileTypeOK, Verdicts
  <2> QED
    BY <1>6, <2>1 DEF AcceptRadio, ProfileTypeOK
<1>7. ASSUME NEW r \in Radios, NEW q \in ProfileRequests, ActivateStarts(q, r) PROVE ProfileTypeOK'
  <2>1. [pc |-> "probing", target |-> r, copy |-> saved] \in Probing
    BY <1>0 DEF Probing
  <2>2. activation' \in [ProfileRequests -> {Idle} \cup Probing] /\ hears' \in OnPort
    BY <1>0, <1>7, <2>1 DEF ActivateStarts, OnPort
  <2> QED
    BY <1>7, <2>2 DEF ActivateStarts, ProfileTypeOK, Probing
<1>8. ASSUME NEW q \in ProfileRequests, ActivateEnds(q) PROVE ProfileTypeOK'
  <2>1. activation[q] \in Probing
    BY <1>0, <1>8 DEF ActivateEnds, Idle
  <2>2. activation' \in [ProfileRequests -> {Idle} \cup Probing]
    BY <1>0, <1>8 DEF ActivateEnds
  <2>3. saved' \in Identities /\ identity' \in Identities /\ restartDue' \in BOOLEAN
    <3>1. CASE plugged = activation[q].target
      <4>1. plugged \in Radios /\ activation[q].copy \in Identities
        BY <2>1, <3>1 DEF Probing
      <4>2. /\ saved' = [activation[q].copy EXCEPT !.profile = plugged, !.radio = plugged]
            /\ identity' = saved' /\ restartDue' = TRUE
        BY <1>8, <3>1 DEF ActivateEnds
      <4>3. saved' \in Identities
        BY <4>1, <4>2 DEF Identities
      <4> QED
        BY <4>2, <4>3
    <3>2. CASE plugged # activation[q].target
      BY <1>8, <3>2 DEF ActivateEnds, ProfileTypeOK
    <3> QED
      BY <3>1, <3>2
  <2> QED
    BY <1>8, <2>2, <2>3 DEF ActivateEnds, ProfileTypeOK, Probing
<1>9. CASE UNCHANGED profileVars
  BY <1>9 DEF profileVars, ProfileTypeOK
<1> QED
  BY <1>1, <1>2, <1>3, <1>4, <1>5, <1>6, <1>7, <1>8, <1>9 DEF ProfileNext

LEMMA ClockStart == ClockInit => ClockTypeOK
<1> SUFFICES ASSUME ClockInit PROVE ClockTypeOK
  OBVIOUS
<1>1. Empty \in Status
  BY DEF Empty, Status, Zones
<1>2. tzAnswers \in [Backends -> TzAnswers]
  BY DEF ClockInit, TzAnswers
<1>3. /\ ntp \in BOOLEAN /\ rtcReadable \in BOOLEAN /\ hearing \in BOOLEAN
      /\ coreClock = Empty /\ adapterClock = Empty /\ attempt = "none" /\ outcome = "none"
  BY DEF ClockInit
<1>4. sinceAttempt \in 0..Cooldown /\ sinceSync \in 0..MinInterval
  BY ThrottleAssumption DEF ClockInit
<1> QED
  BY <1>1, <1>2, <1>3, <1>4 DEF ClockTypeOK

LEMMA ClockStays == ClockTypeOK /\ (ClockNext \/ UNCHANGED clockVars) => ClockTypeOK'
<1> SUFFICES ASSUME ClockTypeOK, ClockNext \/ UNCHANGED clockVars PROVE ClockTypeOK'
  OBVIOUS
<1> USE ThrottleAssumption
<1>0. Empty \in Status /\ (ntp \in BOOLEAN => Probe \in Status)
  BY DEF Empty, Probe, Timezone, Status, Zones
<1>1. CASE UNCHANGED clockVars
  BY <1>1 DEF clockVars, ClockTypeOK
<1>2. CASE RefreshStatus
  BY <1>0, <1>2 DEF RefreshStatus, hostVars, ClockTypeOK
<1>3. CASE HostChanges
  <2>1. ntp' \in BOOLEAN /\ rtcReadable' \in BOOLEAN /\ tzAnswers' \in [Backends -> TzAnswers]
    BY <1>3 DEF HostChanges, ClockTypeOK
  <2> QED
    BY <1>3, <2>1 DEF HostChanges, ClockTypeOK
<1>4. CASE Ages
  <2>1. sinceAttempt' \in 0..Cooldown /\ sinceSync' \in 0..MinInterval
    BY <1>4 DEF Ages, ClockTypeOK
  <2> QED
    BY <1>4, <2>1 DEF Ages, hostVars, ClockTypeOK
<1>5. CASE ListenerUp
  <2>1. sinceAttempt' \in 0..Cooldown /\ attempt' \in {"none", "settling", "claimed"} /\ hearing' = TRUE
    BY <1>5 DEF ListenerUp, ClockTypeOK
  <2> QED
    BY <1>5, <2>1 DEF ListenerUp, hostVars, ClockTypeOK
<1>6. CASE ListenerDown \/ AttemptClaims \/ AttemptFails
  BY <1>6 DEF ListenerDown, AttemptClaims, AttemptFails, hostVars, ClockTypeOK
<1>7. CASE TrySync
  <2>1. outcome' \in {"too_soon", "untrusted", "synced", "failed"} /\ sinceSync' \in 0..MinInterval /\ attempt' = "none"
    BY <1>7 DEF TrySync, ClockTypeOK
  <2> QED
    BY <1>7, <2>1 DEF TrySync, hostVars, ClockTypeOK
<1>8. CASE AdapterRestarts
  <2>1. adapterClock' \in Status /\ sinceSync' \in 0..MinInterval /\ attempt' \in {"none", "settling", "claimed"}
    BY <1>0, <1>8 DEF AdapterRestarts, ClockTypeOK
  <2> QED
    BY <1>8, <2>1 DEF AdapterRestarts, hostVars, ClockTypeOK
<1> QED
  BY <1>1, <1>2, <1>3, <1>4, <1>5, <1>6, <1>7, <1>8 DEF ClockNext

SwitchCalls == {NoCall} \cup Switches \cup Recoveries \cup Reconnects

LEMMA SwitchStart == SwitchInit => SwitchTypeOK
  BY DEF SwitchInit, SwitchTypeOK, Transports, States

LEMMA GoesTyped ==
    ASSUME SwitchTypeOK, NEW c \in Callers, NEW to \in SwitchCalls, Goes(c, to)
    PROVE  call' \in [Callers -> SwitchCalls]
  BY DEF SwitchTypeOK, SwitchCalls, Goes

LEMMA LearnsTyped ==
    ASSUME SwitchTypeOK, NEW t \in Transports, NEW s \in States, Learns(t, s)
    PROVE  cached' \in [Transports -> States]
  BY DEF SwitchTypeOK, Learns

LEMMA FailsTyped ==
    ASSUME SwitchTypeOK, NEW c \in Callers, NEW refused \in BOOLEAN, Fails(c, refused)
    PROVE  call' \in [Callers -> SwitchCalls]
<1>1. NoCall \in SwitchCalls /\ [pc |-> "recovering", refused |-> refused] \in SwitchCalls
  BY DEF SwitchCalls, Recoveries
<1> QED
  BY <1>1, GoesTyped DEF Fails

\* What an operation leaves of the adapter is typed: nothing, what it had, or a
\* node that was reached.
Reached == address' \in Nodes \cup {Nowhere} /\ link' \in Nodes \cup {Nowhere}

LEMMA SerialTyped ==
    ASSUME SwitchTypeOK, SerialAnswers
    PROVE  Reached /\ cached' \in [Transports -> States]
  BY LearnsTyped DEF SwitchTypeOK, SerialAnswers, Killed, Reached, Transports, States

LEMMA TriesTyped ==
    ASSUME SwitchTypeOK, NEW n \in Nodes \cup {Nowhere}, Tries(n)
    PROVE  Reached /\ cached' \in [Transports -> States]
  BY LearnsTyped DEF SwitchTypeOK, Tries, Connected, NotFound, Killed, Reached, Transports, States

LEMMA StepTyped ==
    ASSUME SwitchTypeOK, NEW c \in Callers, SwitchStep(c)
    PROVE  SwitchTypeOK'
<1> USE DEF SwitchTypeOK
<1>0. /\ call[c] \in SwitchCalls /\ c \in Callers \cup {Unheld} /\ Unheld \in Callers \cup {Unheld} /\ NoCall \in SwitchCalls
      /\ active \in Transports
  BY DEF SwitchCalls
<1>a. At(c, "waiting") \/ At(c, "dropping") \/ At(c, "connecting") \/ At(c, "storing") => call[c] \in Switches
  BY <1>0 DEF At, SwitchCalls, NoCall, Recoveries, Reconnects, Switches
<1>b. \A p \in {"waiting", "dropping", "connecting", "storing"} :
         call[c] \in Switches => [call[c] EXCEPT !.pc = p] \in SwitchCalls
  BY DEF Switches, SwitchCalls
<1>c. call[c] \in Switches => call[c].to \in Transports /\ call[c].node \in Nodes \cup {Nowhere}
  BY DEF Switches
<1>1. ASSUME NEW to \in Transports, NEW n \in Nodes \cup {Nowhere}, AskSwitch(c, to, n) PROVE SwitchTypeOK'
  <2>1. [pc |-> "waiting", to |-> to, node |-> n] \in SwitchCalls
    BY DEF SwitchCalls, Switches
  <2>2. call' \in [Callers -> SwitchCalls]
    BY <1>1, <2>1, GoesTyped DEF AskSwitch
  <2> QED
    BY <1>1, <2>2 DEF AskSwitch, SwitchCalls
<1>2. CASE Enter(c)
  <2>1. call' \in [Callers -> SwitchCalls]
    BY <1>2, <1>a, <1>b, GoesTyped DEF Enter
  <2> QED
    BY <1>0, <1>2, <2>1 DEF Enter, SwitchCalls
<1>3. CASE Busy(c)
  <2>1. call' \in [Callers -> SwitchCalls]
    BY <1>3, FailsTyped DEF Busy
  <2> QED
    BY <1>3, <2>1 DEF Busy, SwitchCalls
<1>4. CASE Drop(c)
  <2>1. call' \in [Callers -> SwitchCalls] /\ holder' \in Callers \cup {Unheld}
    BY <1>0, <1>4, <1>a, <1>b, GoesTyped, FailsTyped DEF Drop
  <2>2. Reached
    BY <1>4 DEF Drop, Killed, Reached
  <2>3. cached' \in [Transports -> States]
    <3>1. PICK t \in Transports, s \in States : Learns(t, s)
      BY <1>4 DEF Drop, Transports, States
    <3> QED
      BY <3>1, LearnsTyped
  <2> QED
    BY <1>4, <2>1, <2>2, <2>3 DEF Drop, SwitchCalls, Reached
<1>5. CASE Connect(c)
  <2>0. call[c] \in Switches /\ call[c].to \in Transports /\ call[c].node \in Nodes \cup {Nowhere}
    BY <1>5, <1>a, <1>c DEF Connect
  <2>1. call' \in [Callers -> SwitchCalls] /\ active' \in Transports
    BY <1>0, <1>5, <2>0, <1>b, GoesTyped, FailsTyped DEF Connect
  <2>2. Reached /\ cached' \in [Transports -> States]
    BY <1>5, <2>0, SerialTyped, TriesTyped DEF Connect
  <2>3. holder' = Unheld /\ stored' = stored
    BY <1>5 DEF Connect
  <2> QED
    BY <1>0, <2>1, <2>2, <2>3 DEF SwitchCalls, Reached
<1>6. CASE StoreChoice(c)
  <2>0. call[c].to \in Transports /\ call[c].node \in Nodes \cup {Nowhere} /\ stored.node \in Nodes \cup {Nowhere}
    BY <1>6, <1>a, <1>c DEF StoreChoice
  <2>1. stored' \in [transport : Transports, node : Nodes \cup {Nowhere}]
    BY <1>6, <2>0 DEF StoreChoice
  <2>2. call' \in [Callers -> SwitchCalls]
    BY <1>0, <1>6, GoesTyped DEF StoreChoice
  <2> QED
    BY <1>6, <2>1, <2>2 DEF StoreChoice, SwitchCalls
<1>7. CASE RecoverEnters(c)
  <2>0. call[c] \in Recoveries
    BY <1>0, <1>7 DEF RecoverEnters, At, SwitchCalls, NoCall, Switches, Reconnects
  <2>1. [call[c] EXCEPT !.pc = "restoring"] \in SwitchCalls
    BY <2>0 DEF Recoveries, SwitchCalls
  <2>2. call' \in [Callers -> SwitchCalls] /\ holder' \in Callers \cup {Unheld}
    BY <1>0, <1>7, <2>1, GoesTyped DEF RecoverEnters
  <2> QED
    BY <1>7, <2>2 DEF RecoverEnters, SwitchCalls
<1>8. CASE Restore(c)
  <2>1. call' \in [Callers -> SwitchCalls] /\ active' \in Transports
    BY <1>0, <1>8, GoesTyped DEF Restore, Transports
  <2>2. Reached /\ cached' \in [Transports -> States]
    BY <1>8, SerialTyped DEF Restore
  <2> QED
    BY <1>0, <1>8, <2>1, <2>2 DEF Restore, SwitchCalls, Reached
<1>9. CASE AskReconnect(c)
  <2>1. [pc |-> "asking"] \in SwitchCalls /\ [pc |-> "trying", left |-> Attempts] \in SwitchCalls
    BY DEF SwitchCalls, Reconnects, Attempts
  <2>2. call' \in [Callers -> SwitchCalls]
    BY <1>9, <2>1, GoesTyped DEF AskReconnect
  <2> QED
    BY <1>0, <1>9, <2>2 DEF AskReconnect, SwitchCalls
<1>10. CASE SerialReconnect(c)
  <2>1. call' \in [Callers -> SwitchCalls] /\ Reached /\ cached' \in [Transports -> States]
    BY <1>0, <1>10, GoesTyped, SerialTyped DEF SerialReconnect
  <2> QED
    BY <1>0, <1>10, <2>1 DEF SerialReconnect, SwitchCalls, Reached
<1>11. CASE BleReconnect(c)
  <2>0. call[c] \in [pc : {"trying"}, left : 1..Attempts]
    BY <1>0, <1>11 DEF BleReconnect, At, SwitchCalls, NoCall, Switches, Recoveries, Reconnects
  <2>1. call[c].left > 1 => [call[c] EXCEPT !.left = @ - 1] \in SwitchCalls
    BY <2>0 DEF SwitchCalls, Reconnects, Attempts
  <2>2. call' \in [Callers -> SwitchCalls] /\ holder' \in Callers \cup {Unheld}
    BY <1>0, <1>11, <2>1, GoesTyped DEF BleReconnect
  <2>3. Reached
    BY <1>11 DEF BleReconnect, Connected, ConnectSome, NotFound, Killed, Reached
  <2>4. cached' \in [Transports -> States]
    BY <1>11, LearnsTyped DEF BleReconnect, Transports, States
  <2> QED
    BY <1>11, <2>2, <2>3, <2>4 DEF BleReconnect, SwitchCalls, Reached
<1> QED
  BY <1>1, <1>2, <1>3, <1>4, <1>5, <1>6, <1>7, <1>8, <1>9, <1>10, <1>11 DEF SwitchStep

LEMMA SwitchStays == SwitchTypeOK /\ (SwitchNext \/ UNCHANGED switchVars) => SwitchTypeOK'
<1> SUFFICES ASSUME SwitchTypeOK, SwitchNext \/ UNCHANGED switchVars PROVE SwitchTypeOK'
  OBVIOUS
<1>1. CASE UNCHANGED switchVars
  BY <1>1 DEF switchVars, SwitchTypeOK
<1>2. CASE Delegate
  <2>1. cached' \in [Transports -> States]
    BY <1>2, LearnsTyped DEF Delegate, SwitchTypeOK, States
  <2>2. Reached
    BY <1>2 DEF Delegate, Killed, Reached, SwitchTypeOK
  <2> QED
    BY <1>2, <2>1, <2>2 DEF Delegate, SwitchTypeOK, Reached
<1> QED
  BY <1>1, <1>2, StepTyped DEF SwitchNext

LEMMA SchedStart == SchedInit => SchedTypeOK
<1> SUFFICES ASSUME SchedInit PROVE SchedTypeOK
  OBVIOUS
<1> USE SchedulesAssumption
<1>1. PICK list \in [1..MaxRules -> Rules] :
         file = [i \in DOMAIN list |-> [id |-> list[i], on |-> TRUE, fired |-> 0]]
  BY DEF SchedInit
<1>2. \A i \in 1..MaxRules : [id |-> list[i], on |-> TRUE, fired |-> 0] \in Rule
  BY DEF Rule
<1>3. file \in [1..MaxRules -> Rule]
  BY <1>1, <1>2
<1>4. file \in Seq(Rule)
  BY <1>3, SeqDef
<1>5. /\ <<>> \in Seq(Rule) /\ Len(<<>>) = 0 /\ rules = <<>> /\ index = 1
      /\ clock = 1 /\ lock = Nobody /\ tpc = "asleep" /\ nowTs = 0 /\ changed = FALSE
      /\ writing = [e \in Editors |-> <<>>] /\ last = [r \in Rules |-> 0] /\ gone = {}
  BY EmptySeq DEF SchedInit
<1>6. clock \in 1..MaxClock /\ index \in 1..(Len(rules) + 1) /\ nowTs \in 0..MaxClock
  BY <1>5
<1>7. writing \in [Editors -> {<<>>} \cup Seq(Rule)] /\ last \in [Rules -> 0..MaxClock]
  BY <1>5
<1> QED
  BY <1>4, <1>5, <1>6, <1>7 DEF SchedTypeOK

\* The list of a rule, edited in one place.
LEMMA EditedList ==
    ASSUME NEW l \in Seq(Rule), NEW i \in 1..Len(l), NEW r \in Rule
    PROVE  [l EXCEPT ![i] = r] \in Seq(Rule) /\ Len([l EXCEPT ![i] = r]) = Len(l)
  BY ExceptSeq

LEMMA SchedAsleep ==
    ASSUME SchedTypeOK, rules' = <<>>, index' = 1, changed' = FALSE, nowTs' = 0, tpc' = "asleep"
    PROVE  /\ rules' \in Seq(Rule) /\ index' \in 1..(Len(rules') + 1)
           /\ tpc' \in {"asleep", "checking", "saving"}
           /\ nowTs' \in 0..MaxClock /\ changed' \in BOOLEAN
<1>1. <<>> \in Seq(Rule) /\ Len(<<>>) = 0
  BY EmptySeq
<1>2. 0 \in 0..MaxClock /\ 1 \in 1..(0 + 1)
  BY SchedulesAssumption
<1> QED
  BY <1>1, <1>2

\* What is forgotten is 0, and the rest is what it was.
LEMMA Forgets ==
    ASSUME SchedTypeOK, NEW lost, Forget(lost)
    PROVE  \A r \in Rules : last'[r] = IF r \in lost THEN 0 ELSE last[r]
  BY DEF Forget

LEMMA ForgetTyped ==
    ASSUME SchedTypeOK, NEW lost, Forget(lost)
    PROVE  last' \in [Rules -> 0..MaxClock]
<1>1. 0 \in 0..MaxClock /\ last \in [Rules -> 0..MaxClock]
  BY SchedulesAssumption DEF SchedTypeOK
<1> QED
  BY <1>1 DEF Forget

LEMMA TickerTyped == ASSUME SchedTypeOK, TickerStep PROVE SchedTypeOK'
<1> USE SchedulesAssumption
<1>0. /\ rules \in Seq(Rule) /\ Len(rules) \in Nat /\ index \in 1..(Len(rules) + 1)
      /\ file \in Seq(Rule) /\ Len(file) \in Nat /\ clock \in 1..MaxClock /\ nowTs \in 0..MaxClock
  BY LenProperties DEF SchedTypeOK
<1>1. CASE TickUntrusted
  BY <1>1, SchedAsleep DEF TickUntrusted, Sleep, SchedTypeOK
<1>2. CASE TickStart
  <2>1. index' \in 1..(Len(rules') + 1) /\ rules' \in Seq(Rule) /\ nowTs' \in 0..MaxClock
    BY <1>0, <1>2 DEF TickStart
  <2> QED
    BY <1>2, <2>1 DEF TickStart, SchedTypeOK
<1>3. CASE Skip
  <2>1. index' \in 1..(Len(rules) + 1) /\ rules' = rules
    BY <1>0, <1>3 DEF Skip
  <2> QED
    BY <1>3, <2>1 DEF Skip, SchedTypeOK
<1>4. CASE TickRaises
  <2>1. last' \in [Rules -> 0..MaxClock]
    BY <1>4, ForgetTyped DEF TickRaises
  <2> QED
    BY <1>4, <2>1, SchedAsleep DEF TickRaises, Sleep, SchedTypeOK
<1>5. CASE TickSaves
  BY <1>5, EmptySeq DEF TickSaves, SchedTypeOK
<1>6. CASE TickEnds
  <2>1. file' \in Seq(Rule)
    BY <1>0, <1>6 DEF TickEnds
  <2> QED
    BY <1>6, <2>1, SchedAsleep DEF TickEnds, Sleep, SchedTypeOK
<1>7. ASSUME NEW r \in Rules, Fire(r) PROVE SchedTypeOK'
  <2> DEFINE fired == [rules[index] EXCEPT !.fired = nowTs, !.on = r \notin Once]
  <2>1. index \in 1..Len(rules) /\ rules[index] \in Rule
    BY <1>0, <1>7, SMTT(30) DEF Fire
  <2>2. fired \in Rule
    <3> DEFINE b == r \notin Once
    <3>1. b \in BOOLEAN /\ fired = [rules[index] EXCEPT !.fired = nowTs, !.on = b]
      OBVIOUS
    <3> HIDE DEF b, fired
    <3> QED
      BY <1>0, <2>1, <3>1 DEF Rule
  <2>3. rules' = [rules EXCEPT ![index] = fired]
    BY <1>7 DEF Fire
  <2> HIDE DEF fired
  <2>4. rules' \in Seq(Rule) /\ Len(rules') = Len(rules)
    BY <1>0, <2>1, <2>2, <2>3, EditedList
  <2>5. index' \in 1..(Len(rules') + 1)
    BY <1>0, <1>7, <2>1, <2>4, SMTT(30) DEF Fire
  <2>6. last' \in [Rules -> 0..MaxClock]
    BY <1>0, <1>7 DEF Fire, SchedTypeOK
  <2> QED
    BY <1>7, <2>4, <2>5, <2>6 DEF Fire, SchedTypeOK
<1> QED
  BY <1>1, <1>2, <1>3, <1>4, <1>5, <1>6, <1>7 DEF TickerStep

LEMMA WritingTyped ==
    ASSUME SchedTypeOK, NEW e \in Editors, NEW list \in Seq(Rule), BeginsWriting(e, list)
    PROVE  /\ lock' \in Editors \cup {Ticker, Nobody} /\ file' \in Seq(Rule)
           /\ writing' \in [Editors -> {<<>>} \cup Seq(Rule)]
  BY EmptySeq DEF BeginsWriting, SchedTypeOK

LEMMA EditTyped == ASSUME SchedTypeOK, NEW e \in Editors, Edit(e) PROVE SchedTypeOK'
<1> USE SchedulesAssumption
<1>0. /\ file \in Seq(Rule) /\ Len(file) \in Nat /\ DOMAIN file = 1..Len(file)
      /\ \A i \in 1..Len(file) : file[i] \in Rule
  BY LenProperties, ElementOfSeq DEF SchedTypeOK
<1>1. ASSUME NEW r \in Rules, CreateRule(e, r) PROVE SchedTypeOK'
  <2>1. [id |-> r, on |-> TRUE, fired |-> 0] \in Rule
    BY DEF Rule
  <2>2. Append(file, [id |-> r, on |-> TRUE, fired |-> 0]) \in Seq(Rule)
    BY <1>0, <2>1, AppendProperties
  <2>3. last' \in [Rules -> 0..MaxClock]
    BY <1>1, ForgetTyped DEF CreateRule
  <2>4. /\ lock' \in Editors \cup {Ticker, Nobody} /\ file' \in Seq(Rule)
        /\ writing' \in [Editors -> {<<>>} \cup Seq(Rule)]
    BY <1>1, <2>2, WritingTyped DEF CreateRule
  <2> QED
    BY <1>1, <2>3, <2>4 DEF CreateRule, tickVars, SchedTypeOK
<1>2. ASSUME NEW i \in DOMAIN file, NEW on \in BOOLEAN, NEW keep \in BOOLEAN, UpdateRule(e, i, on, keep) PROVE SchedTypeOK'
  <2> DEFINE r == [file[i] EXCEPT !.on = on, !.fired = IF keep THEN @ ELSE 0]
  <2>1. i \in 1..Len(file) /\ file[i] \in Rule
    BY <1>0
  <2>2. r \in Rule
    <3> DEFINE k == IF keep THEN file[i].fired ELSE 0
    <3>1. k \in 0..MaxClock /\ r = [file[i] EXCEPT !.on = on, !.fired = k]
      BY <2>1 DEF Rule
    <3> HIDE DEF k, r
    <3> QED
      BY <2>1, <3>1 DEF Rule
  <2>3. BeginsWriting(e, [file EXCEPT ![i] = r])
    BY <1>2 DEF UpdateRule
  <2> HIDE DEF r
  <2>4. [file EXCEPT ![i] = r] \in Seq(Rule)
    BY <1>0, <2>1, <2>2, EditedList
  <2>5. /\ lock' \in Editors \cup {Ticker, Nobody} /\ file' \in Seq(Rule)
        /\ writing' \in [Editors -> {<<>>} \cup Seq(Rule)]
    BY <2>3, <2>4, WritingTyped
  <2>6. last' \in [Rules -> 0..MaxClock]
    BY <1>2, ForgetTyped DEF UpdateRule
  <2> QED
    BY <1>2, <2>5, <2>6 DEF UpdateRule, tickVars, SchedTypeOK
<1>3. ASSUME NEW i \in DOMAIN file, ToggleRule(e, i) PROVE SchedTypeOK'
  <2> DEFINE r == [file[i] EXCEPT !.on = ~@]
  <2>1. i \in 1..Len(file) /\ file[i] \in Rule
    BY <1>0
  <2>2. r \in Rule
    <3> DEFINE b == ~file[i].on
    <3>1. b \in BOOLEAN /\ r = [file[i] EXCEPT !.on = b]
      OBVIOUS
    <3> HIDE DEF b, r
    <3> QED
      BY <2>1, <3>1 DEF Rule
  <2>3. BeginsWriting(e, [file EXCEPT ![i] = r])
    BY <1>3 DEF ToggleRule
  <2> HIDE DEF r
  <2>4. [file EXCEPT ![i] = r] \in Seq(Rule)
    BY <1>0, <2>1, <2>2, EditedList
  <2>5. /\ lock' \in Editors \cup {Ticker, Nobody} /\ file' \in Seq(Rule)
        /\ writing' \in [Editors -> {<<>>} \cup Seq(Rule)]
    BY <2>3, <2>4, WritingTyped
  <2> QED
    BY <1>3, <2>5 DEF ToggleRule, tickVars, SchedTypeOK
<1>4. ASSUME NEW i \in DOMAIN file, DeleteRule(e, i) PROVE SchedTypeOK'
  <2>1. SubSeq(file, 1, i - 1) \o SubSeq(file, i + 1, Len(file)) \in Seq(Rule)
    BY <1>0, WithoutKeeps
  <2>2. /\ lock' \in Editors \cup {Ticker, Nobody} /\ file' \in Seq(Rule)
        /\ writing' \in [Editors -> {<<>>} \cup Seq(Rule)]
    BY <1>4, <2>1, WritingTyped DEF DeleteRule
  <2>3. gone' \subseteq Rules
    BY <1>0, <1>4 DEF DeleteRule, SchedTypeOK, Rule
  <2> QED
    BY <1>4, <2>2, <2>3 DEF DeleteRule, tickVars, SchedTypeOK
<1>5. CASE EditEnds(e)
  <2>1. file' \in Seq(Rule) /\ writing' \in [Editors -> {<<>>} \cup Seq(Rule)]
    BY <1>5, EmptySeq DEF EditEnds, SchedTypeOK
  <2> QED
    BY <1>5, <2>1 DEF EditEnds, tickVars, SchedTypeOK
<1> QED
  BY <1>1, <1>2, <1>3, <1>4, <1>5 DEF Edit

LEMMA SchedStays == SchedTypeOK /\ (SchedNext \/ UNCHANGED schedVars) => SchedTypeOK'
<1> SUFFICES ASSUME SchedTypeOK, SchedNext \/ UNCHANGED schedVars PROVE SchedTypeOK'
  OBVIOUS
<1> USE SchedulesAssumption
<1>1. CASE TimePasses
  <2>1. clock' \in 1..MaxClock
    BY <1>1 DEF TimePasses, SchedTypeOK
  <2> QED
    BY <1>1, <2>1 DEF TimePasses, tickVars, SchedTypeOK
<1>2. CASE SchedRestart
  <2>1. last' \in [Rules -> 0..MaxClock]
    BY <1>2, ForgetTyped DEF SchedRestart
  <2>2. writing' \in [Editors -> {<<>>} \cup Seq(Rule)]
    BY <1>2 DEF SchedRestart
  <2> QED
    BY <1>2, <2>1, <2>2, SchedAsleep DEF SchedRestart, SchedTypeOK
<1>3. CASE UNCHANGED schedVars
  BY <1>3 DEF schedVars, tickVars, SchedTypeOK
<1> QED
  BY <1>1, <1>2, <1>3, TickerTyped, EditTyped DEF SchedNext

LEMMA CsiRestStays == CsiRest /\ CsiInv /\ (CsiNext \/ UNCHANGED csiVars) => CsiRest'
<1> SUFFICES ASSUME CsiRest, CsiInv, CsiNext \/ UNCHANGED csiVars PROVE CsiRest'
  OBVIOUS
<1>0. pictures \in 0..MaxPictures /\ MaxPictures \in Nat /\ running \in BOOLEAN
  BY CsiAssumption DEF CsiRest, CsiInv
<1>k. Kept(pictures + 1) \in 0..MaxPictures /\ pictures - 1 \in Int /\ (pictures > 0 => pictures - 1 \in 0..MaxPictures)
      /\ 0 \in 0..MaxPictures
  BY <1>0 DEF Kept
<1>1. pictures' \in 0..MaxPictures
  <2>1. \/ UNCHANGED pictures \/ StillTaken \/ Screenshot \/ DeletePictures
    BY DEF CsiNext, csiVars, FeedOpens, FeedReadsGeneration, FeedLoops, FrameStarts, FrameCaptured, FeedYields,
           FeedEnds, StopCamera, PowerOn, PowerOff, CloseCamera, DetectCamera, SwitchMode, UpdateSettings,
           SetVideoMode, StillSwitches
  <2>2. CASE StillTaken
    BY <1>0, <1>k, <2>2 DEF StillTaken
  <2>3. CASE Screenshot
    BY <1>0, <1>k, <2>3 DEF Screenshot
  <2>4. CASE DeletePictures
    BY <1>0, <1>k, <2>4 DEF DeletePictures
  <2> QED
    BY SMTT(30), <1>0, <2>1, <2>2, <2>3, <2>4
<1>2. power' \in BOOLEAN /\ powerFile' \in BOOLEAN
  <2>1. UNCHANGED <<power, powerFile>> \/ PowerOn \/ CloseCamera
    BY DEF CsiNext, csiVars, FeedOpens, FeedReadsGeneration, FeedLoops, FrameStarts, FrameCaptured, FeedYields,
           FeedEnds, StopCamera, PowerOff, DetectCamera, SwitchMode, UpdateSettings,
           SetVideoMode, StillSwitches, StillTaken, Screenshot, DeletePictures
  <2>2. CASE UNCHANGED <<power, powerFile>>
    BY <2>2 DEF CsiRest
  <2>3. CASE PowerOn
    BY <2>3 DEF PowerOn
  <2>4. CASE CloseCamera
    BY <2>4 DEF CloseCamera
  <2> QED
    BY <2>1, <2>2, <2>3, <2>4
<1>3. closing' \in BOOLEAN
  <2>1. UNCHANGED closing \/ PowerOff \/ CloseCamera
    BY DEF CsiNext, csiVars, FeedOpens, FeedReadsGeneration, FeedLoops, FrameStarts, FrameCaptured, FeedYields,
           FeedEnds, StopCamera, PowerOn, DetectCamera, SwitchMode, UpdateSettings,
           SetVideoMode, StillSwitches, StillTaken, Screenshot, DeletePictures
  <2> QED
    BY <2>1 DEF CsiRest, PowerOff, CloseCamera
<1>4. still' \in BOOLEAN
  <2>1. UNCHANGED still \/ StillSwitches \/ StillTaken
    BY DEF CsiNext, csiVars, FeedOpens, FeedReadsGeneration, FeedLoops, FrameStarts, FrameCaptured, FeedYields,
           FeedEnds, StopCamera, PowerOn, PowerOff, CloseCamera, DetectCamera, SwitchMode, UpdateSettings,
           SetVideoMode, Screenshot, DeletePictures
  <2>2. CASE StillSwitches
    BY <2>2 DEF StillSwitches, SwitchTo
  <2> QED
    BY <2>1, <2>2 DEF CsiRest, StillTaken
<1> QED
  BY <1>1, <1>2, <1>3, <1>4 DEF CsiRest

\* The types of every part, and what they need beside them to be inductive: a
\* timer's anchor is not ahead of the clock, a message is where its worker says,
\* a generator holds no frame older than its generation.
StationTypes ==
    /\ SchedTypeOK /\ TimerInv /\ TimerTypes /\ ReportsTypeOK
    /\ ProfileTypeOK /\ ClockTypeOK /\ SwitchTypeOK
    /\ InboxInv /\ ReadInv /\ TypeInv
    /\ UsbInv /\ CsiInv /\ CsiRest /\ DispInv

\* Every part of the web process keeps its types - the notification queue, the
\* history and the telemetry log in the sizes the code sets - for every size of
\* them and every set of rules, timers, radios, nodes, messages and viewers.
THEOREM StationIsTyped == StationSpec => []StationTypeOK
<1>1. StationInit => StationTypes
  <2> SUFFICES ASSUME StationInit PROVE StationTypes
    OBVIOUS
  <2>1. SchedTypeOK /\ TimerInv /\ TimerTypes /\ ReportsTypeOK
    BY SchedStart, TimerInit, TimersStart, ReportsStart DEF StationInit
  <2>2. ProfileTypeOK /\ ClockTypeOK /\ SwitchTypeOK
    BY ProfileStart, ClockStart, SwitchStart DEF StationInit
  <2>3. InboxInv /\ ReadInv /\ TypeInv
    BY InboxStart, ReadStart, InitType DEF StationInit
  <2>4. UsbInv /\ CsiInv /\ CsiRest /\ DispInv
    BY UsbStart, CsiStart, DisplayStart DEF StationInit
  <2> QED
    BY <2>1, <2>2, <2>3, <2>4 DEF StationTypes
<1>2. StationTypes /\ [StationNext]_stationVars => StationTypes'
  <2> SUFFICES ASSUME StationTypes, [StationNext]_stationVars PROVE StationTypes'
    OBVIOUS
  <2>0. /\ SchedTypeOK /\ TimerInv /\ TimerTypes /\ ReportsTypeOK
        /\ ProfileTypeOK /\ ClockTypeOK /\ SwitchTypeOK
        /\ InboxInv /\ ReadInv /\ TypeInv
        /\ UsbInv /\ CsiInv /\ CsiRest /\ DispInv
    BY DEF StationTypes
  <2>1. (SchedTypeOK /\ TimerInv /\ TimerTypes /\ ReportsTypeOK)'
    BY <2>0, PartSteps, SchedStays, TimerNext, TimersStay, ReportsStay
  <2>2. (ProfileTypeOK /\ ClockTypeOK /\ SwitchTypeOK)'
    BY <2>0, PartSteps, ProfileStays, ClockStays, SwitchStays
  <2>3. (InboxInv /\ TypeInv)'
    BY <2>0, PartSteps, InboxKeeps, NextType
  <2>4. ReadInv'
    BY <2>0, PartSteps, BufferKeeps, LogKeeps DEF ReadInv
  <2>5. (UsbInv /\ CsiInv /\ CsiRest /\ DispInv)'
    BY <2>0, PartSteps, UsbKeeps, CsiKeeps, CsiRestStays, DisplayKeeps
  <2> QED
    BY <2>1, <2>2, <2>3, <2>4, <2>5 DEF StationTypes
<1>3. StationTypes => StationTypeOK
  <2> SUFFICES ASSUME StationTypes PROVE StationTypeOK
    OBVIOUS
  <2>1. SchedTypeOK /\ TimersTypeOK /\ ReportsTypeOK /\ ProfileTypeOK /\ ClockTypeOK /\ SwitchTypeOK
    BY TimersTyped DEF StationTypes
  <2>2. InboxTypeOK /\ ReadingsTypeOK /\ TypeOK
    BY InboxTypes, ReadTypes DEF StationTypes, TypeInv
  <2>3. UsbTypeOK /\ CsiTypeOK /\ DisplayTypeOK
    BY UsbTypesHold, CsiTypes, DisplayHolds DEF StationTypes
  <2> QED
    BY <2>1, <2>2, <2>3 DEF StationTypeOK
<1> QED
  BY <1>1, <1>2, <1>3, PTL DEF StationSpec

-----------------------------------------------------------------------------
(* The schedules                                                           *)

\* A list of rules that is, or will be, on the file: every rule once, none that
\* was deleted, and each with the time of its last execution, if that is held
\* against the file, but for those left out.
OnRecord(list, ex, dead, lastRun) ==
    /\ \A i, j \in DOMAIN list : list[i].id = list[j].id => i = j
    /\ \A i \in DOMAIN list :
          /\ list[i].id \notin dead
          /\ list[i].id \in ex \/ lastRun[list[i].id] \in {0, list[i].fired}

\* Whoever owns the lock has the rules, and nobody else writes them; what a tick
\* executed and did not save yet is what the file may not know.
LockInv ==
    /\ lock = Ticker <=> tpc # "asleep"
    /\ lock = Nobody => OnRecord(file, {}, gone, last)
    /\ lock \in Editors => file = <<>> /\ OnRecord(writing[lock], {}, gone, last)
    /\ tpc # "asleep" => OnRecord(rules, {}, gone, last)
    /\ tpc = "checking" => OnRecord(file, Unsaved, gone, last)
    /\ tpc = "saving" => file = <<>>

\* A tick begins in a later minute than every execution of a daily rule before
\* it, and executes a rule once.
MinuteInv ==
    /\ wake \in Nat
    /\ \A r \in Rules : last[r] <= clock
    /\ nowTs <= clock
    /\ tpc = "asleep" => \A r \in Daily : last[r] # 0 => MinuteOf(last[r]) < MinuteOf(wake)
    /\ tpc = "checking" => \A i \in index..Len(rules) :
          rules[i].id \in Daily /\ last[rules[i].id] # 0
             => MinuteOf(last[rules[i].id]) < MinuteOf(nowTs)

SchedInv == SchedTypeOK /\ LockInv /\ MinuteInv

LEMMA EmptyOnRecord == ASSUME NEW ex, NEW dead, NEW lastRun PROVE OnRecord(<<>>, ex, dead, lastRun)
  BY DEF OnRecord

\* A list that is wholly on record is so whatever is left out of the question.
LEMMA LeavesOutMore ==
    ASSUME NEW list, NEW ex, NEW dead, NEW lastRun, OnRecord(list, {}, dead, lastRun)
    PROVE  OnRecord(list, ex, dead, lastRun)
  BY DEF OnRecord

\* What a list of rules holds: every entry has the id of a rule.
LEMMA RuleAt ==
    ASSUME NEW list \in Seq(Rule)
    PROVE  \A i \in DOMAIN list : list[i] \in Rule /\ list[i].id \in Rules
<1>1. \A i \in DOMAIN list : list[i] \in Rule
  BY LenProperties, ElementOfSeq
<1> QED
  BY <1>1 DEF Rule

\* What is not held against the file any more need not be left out.
LEMMA ForgottenOnRecord ==
    ASSUME NEW list \in Seq(Rule), NEW ex, NEW dead, NEW lastRun, NEW lastRun2,
           OnRecord(list, ex, dead, lastRun),
           \A x \in Rules : lastRun2[x] \in {0, lastRun[x]} /\ (x \in ex => lastRun2[x] = 0)
    PROVE  OnRecord(list, {}, dead, lastRun2)
<1>1. \A i \in DOMAIN list : list[i].id \in Rules
  BY RuleAt
<1> QED
  BY <1>1 DEF OnRecord

\* Minutes are counted upwards.
LEMMA MinuteMonotone ==
    ASSUME NEW a \in Nat, NEW b \in Nat, a <= b
    PROVE  MinuteOf(a) \in Nat /\ MinuteOf(a) <= MinuteOf(b)
  BY SchedulesAssumption DEF MinuteOf

LEMMA NextMinute ==
    ASSUME NEW a \in Nat, NEW b \in Nat, a <= b
    PROVE  /\ (MinuteOf(b) + 1) * Minute \in Nat
           /\ MinuteOf(a) < MinuteOf((MinuteOf(b) + 1) * Minute)
<1>1. Minute \in Nat /\ Minute > 0
  BY SchedulesAssumption
<1>2. MinuteOf(a) \in Nat /\ MinuteOf(b) \in Nat /\ MinuteOf(a) <= MinuteOf(b)
  BY MinuteMonotone
<1>3. ASSUME NEW k \in Nat PROVE k * Minute \in Nat /\ (k * Minute) \div Minute = k
  BY <1>1
<1>4. MinuteOf((MinuteOf(b) + 1) * Minute) = MinuteOf(b) + 1
  BY <1>2, <1>3 DEF MinuteOf
<1> QED
  BY <1>2, <1>3, <1>4

\* One rule of the list is edited; it keeps its id.
LEMMA EditOnRecord ==
    ASSUME NEW list \in Seq(Rule), NEW i \in 1..Len(list), NEW r \in Rule, r.id = list[i].id,
           NEW dead, NEW lastRun, NEW lastRun2, OnRecord(list, {}, dead, lastRun),
           lastRun2[r.id] \in {0, r.fired},
           \A x \in Rules : x # r.id => lastRun2[x] = lastRun[x]
    PROVE  OnRecord([list EXCEPT ![i] = r], {}, dead, lastRun2)
<1> DEFINE new == [list EXCEPT ![i] = r]
<1>1. /\ Len(list) \in Nat /\ DOMAIN list = 1..Len(list) /\ DOMAIN new = 1..Len(list)
      /\ \A j \in 1..Len(list) : new[j] = IF j = i THEN r ELSE list[j]
  BY LenProperties
<1> HIDE DEF new
<1>2. \A j \in 1..Len(list) : new[j].id = list[j].id /\ list[j].id \in Rules
  BY <1>1, RuleAt
<1>3. \A j, k \in DOMAIN new : new[j].id = new[k].id => j = k
  BY <1>1, <1>2 DEF OnRecord
<1>4. ASSUME NEW j \in DOMAIN new
      PROVE  new[j].id \notin dead /\ lastRun2[new[j].id] \in {0, new[j].fired}
  <2>1. CASE j = i
    BY <1>1, <1>2, <2>1 DEF OnRecord
  <2>2. CASE j # i
    <3>1. new[j] = list[j] /\ list[j].id # r.id /\ list[j].id \in Rules
      BY <1>1, <1>2, <2>2 DEF OnRecord
    <3> QED
      BY <1>1, <3>1 DEF OnRecord
  <2> QED
    BY <2>1, <2>2
<1>5. OnRecord(new, {}, dead, lastRun2)
  BY <1>3, <1>4 DEF OnRecord
<1> QED
  BY <1>5 DEF new

\* A rule with a new id is put at the end.
LEMMA AddOnRecord ==
    ASSUME NEW list \in Seq(Rule), NEW r \in Rule, r.id \notin Ids(list),
           NEW ex, NEW dead, NEW lastRun, NEW lastRun2,
           OnRecord(list, ex, dead, lastRun), r.id \notin dead, lastRun2[r.id] \in {0, r.fired},
           \A x \in Rules : x # r.id => lastRun2[x] = lastRun[x]
    PROVE  OnRecord(Append(list, r), ex, dead, lastRun2)
<1> DEFINE new == Append(list, r)
<1>1. /\ Len(list) \in Nat /\ DOMAIN list = 1..Len(list) /\ DOMAIN new = 1..(Len(list) + 1)
      /\ \A j \in 1..Len(list) : new[j] = list[j]
      /\ new[Len(list) + 1] = r
  BY LenProperties, AppendProperties
<1> HIDE DEF new
<1>2. \A j \in 1..Len(list) : list[j].id # r.id /\ list[j].id \in Rules
  BY <1>1, RuleAt DEF Ids
<1>3. ASSUME NEW j \in DOMAIN new PROVE j \in 1..Len(list) \/ j = Len(list) + 1
  BY <1>1
<1>4. \A j, k \in DOMAIN new : new[j].id = new[k].id => j = k
  BY <1>1, <1>2, <1>3 DEF OnRecord
<1>5. ASSUME NEW j \in DOMAIN new
      PROVE  new[j].id \notin dead /\ (new[j].id \in ex \/ lastRun2[new[j].id] \in {0, new[j].fired})
  <2>1. CASE j = Len(list) + 1
    BY <1>1, <2>1
  <2>2. CASE j \in 1..Len(list)
    BY <1>1, <1>2, <2>2 DEF OnRecord
  <2> QED
    BY <1>3, <2>1, <2>2
<1>6. OnRecord(new, ex, dead, lastRun2)
  BY <1>4, <1>5 DEF OnRecord
<1> QED
  BY <1>6 DEF new

\* A rule is taken out, and its id is one of those deleted.
LEMMA DeleteOnRecord ==
    ASSUME NEW list \in Seq(Rule), NEW i \in 1..Len(list),
           NEW ex, NEW dead, NEW lastRun, OnRecord(list, ex, dead, lastRun)
    PROVE  OnRecord(SubSeq(list, 1, i - 1) \o SubSeq(list, i + 1, Len(list)), ex,
                    dead \cup {list[i].id}, lastRun)
<1> DEFINE a == SubSeq(list, 1, i - 1)
           b == SubSeq(list, i + 1, Len(list))
           new == a \o b
           old(k) == IF k < i THEN k ELSE k + 1
<1>1. Len(list) \in Nat /\ DOMAIN list = 1..Len(list)
  BY LenProperties
<1>2. /\ a \in Seq(Rule) /\ Len(a) = i - 1
      /\ \A k \in 1..(i - 1) : a[k] = list[k]
  BY <1>1, SubSeqProperties
<1>3. /\ b \in Seq(Rule) /\ Len(b) = Len(list) - i
      /\ \A k \in 1..(Len(list) - i) : b[k] = list[i + k]
  <2> DEFINE m == i + 1
             n == Len(list)
  <2>1. m \in Int /\ n \in Int /\ \A j \in m..n : list[j] \in Rule
    BY <1>1
  <2>2. /\ b \in Seq(Rule) /\ Len(b) = (IF m <= n THEN n - m + 1 ELSE 0)
        /\ \A k \in 1..(n - m + 1) : b[k] = list[m + k - 1]
    <3> HIDE DEF m, n
    <3>1. b = SubSeq(list, m, n)
      BY DEF m, n
    <3> HIDE DEF b
    <3> QED
      BY <2>1, <3>1, SubSeqProperties
  <2> HIDE DEF b
  <2>3. \A k \in 1..(Len(list) - i) : k \in 1..(n - m + 1) /\ m + k - 1 = i + k
    BY <1>1
  <2>4. Len(b) = Len(list) - i
    <3>1. i \in Nat /\ Len(list) \in Nat /\ i <= Len(list)
      BY <1>1
    <3>2. Len(b) = IF i + 1 <= Len(list) THEN Len(list) - (i + 1) + 1 ELSE 0
      BY <2>2
    <3> QED
      BY <3>1, <3>2
  <2> QED
    BY <2>2, <2>3, <2>4
<1>4. /\ new \in Seq(Rule) /\ Len(new) = Len(list) - 1
      /\ \A k \in 1..(Len(list) - 1) : new[k] = IF k < i THEN a[k] ELSE b[k - (i - 1)]
  <2> HIDE DEF a, b
  <2>1. /\ a \o b \in Seq(Rule) /\ Len(a \o b) = Len(a) + Len(b)
        /\ \A k \in 1..(Len(a) + Len(b)) :
              (a \o b)[k] = IF k <= Len(a) THEN a[k] ELSE b[k - Len(a)]
    BY <1>2, <1>3, ConcatProperties
  <2> QED
    BY <1>1, <1>2, <1>3, <2>1
<1>5. DOMAIN new = 1..(Len(list) - 1)
  BY <1>4, LenProperties
<1> HIDE DEF a, b, new
<1>6. ASSUME NEW k \in 1..(Len(list) - 1)
      PROVE  new[k] = list[old(k)] /\ old(k) \in 1..Len(list) /\ old(k) # i
  <2>1. CASE k < i
    <3>1. k \in 1..(i - 1) /\ k \in 1..Len(list) /\ k # i /\ old(k) = k
      BY <2>1, <1>1
    <3> QED
      BY <2>1, <3>1, <1>2, <1>4
  <2>2. CASE ~(k < i)
    <3>1. k - (i - 1) \in 1..(Len(list) - i) /\ k + 1 \in 1..Len(list) /\ i + (k - (i - 1)) = k + 1 /\ k + 1 # i
      BY <2>2, <1>1
    <3> QED
      BY <2>2, <3>1, <1>3, <1>4
  <2> QED
    BY <2>1, <2>2
<1>7. ASSUME NEW j \in 1..(Len(list) - 1), NEW k \in 1..(Len(list) - 1), new[j].id = new[k].id PROVE j = k
  <2>1. old(j) = old(k)
    BY <1>1, <1>6, <1>7 DEF OnRecord
  <2> QED
    BY <2>1, <1>1
<1>8. ASSUME NEW k \in 1..(Len(list) - 1)
      PROVE  /\ new[k].id \notin dead \cup {list[i].id}
             /\ new[k].id \in ex \/ lastRun[new[k].id] \in {0, new[k].fired}
  BY <1>1, <1>6 DEF OnRecord
<1>9. OnRecord(new, ex, dead \cup {list[i].id}, lastRun)
  BY <1>5, <1>7, <1>8 DEF OnRecord
<1> QED
  BY <1>9 DEF new, a, b

LEMMA SchedBegins == SchedInit => SchedInv
<1> SUFFICES ASSUME SchedInit PROVE SchedInv
  OBVIOUS
<1> USE SchedulesAssumption
<1>1. PICK list \in [1..MaxRules -> Rules] :
         /\ \A i, j \in 1..MaxRules : list[i] = list[j] => i = j
         /\ file = [i \in DOMAIN list |-> [id |-> list[i], on |-> TRUE, fired |-> 0]]
  BY DEF SchedInit
<1>2. DOMAIN file = 1..MaxRules /\ \A i \in 1..MaxRules : file[i].id = list[i] /\ file[i].fired = 0
  BY <1>1
<1>3. /\ lock = Nobody /\ tpc = "asleep" /\ wake = 1 /\ nowTs = 0 /\ clock = 1 /\ gone = {}
      /\ \A r \in Rules : last[r] = 0
  BY DEF SchedInit
<1>4. OnRecord(file, {}, gone, last)
  BY <1>1, <1>2, <1>3 DEF OnRecord
<1>5. Nobody \notin Editors /\ Ticker # Nobody
  BY DEF Ticker, Nobody
<1>6. LockInv
  BY <1>3, <1>4, <1>5 DEF LockInv
<1>7. MinuteInv
  BY <1>3 DEF MinuteInv, Rules
<1> QED
  BY <1>6, <1>7, SchedStart DEF SchedInv

\* Who owns the lock is one of three.
LEMMA Owners == Ticker # Nobody /\ Nobody \notin Editors /\ Ticker \notin Editors
  BY SchedulesAssumption DEF Ticker, Nobody

\* A tick ends, one way or the other: the file is what it was or what was saved.
LEMMA TickOver ==
    ASSUME SchedInv, Sleep, lock' = Nobody, OnRecord(file', {}, gone', last')
    PROVE  LockInv'
  BY Owners DEF Sleep, LockInv

LEMMA TickerLock == ASSUME SchedInv, TickerStep PROVE LockInv'
<1> USE Owners
<1>0. /\ rules \in Seq(Rule) /\ Len(rules) \in Nat /\ DOMAIN rules = 1..Len(rules)
      /\ file \in Seq(Rule)
      /\ index \in 1..(Len(rules) + 1) /\ nowTs \in 0..MaxClock /\ last \in [Rules -> 0..MaxClock]
      /\ lock \in Editors \cup {Ticker, Nobody}
      /\ tpc \in {"asleep", "checking", "saving"}
  BY LenProperties DEF SchedInv, SchedTypeOK
<1>1. CASE TickUntrusted
  BY <1>1 DEF TickUntrusted, Sleep, SchedInv, LockInv
<1>2. CASE TickStart
  <2>1. OnRecord(file, {}, gone, last)
    BY <1>2 DEF TickStart, SchedInv, LockInv
  <2>2. OnRecord(file, Unsaved', gone, last)
    BY <2>1, LeavesOutMore
  <2> QED
    BY <1>2, <2>1, <2>2 DEF TickStart, LockInv
<1>3. CASE Skip
  <2>1. UNCHANGED <<lock, tpc, file, writing, gone, last, rules, Unsaved>>
    BY <1>3 DEF Skip, Unsaved
  <2> QED
    BY <2>1 DEF SchedInv, LockInv
<1>4. CASE TickRaises
  <2>1. OnRecord(file, Unsaved, gone, last)
    BY <1>4 DEF TickRaises, SchedInv, LockInv
  <2>2. file' = file /\ Forget(Unsaved) /\ gone' = gone /\ lock' = Nobody /\ Sleep
    BY <1>4 DEF TickRaises
  <2>3. OnRecord(file, {}, gone, last')
    BY <1>0, <2>1, <2>2, Forgets, ForgottenOnRecord DEF SchedInv
  <2> QED
    BY <2>2, <2>3, TickOver
<1>5. CASE TickSaves
  BY <1>5 DEF TickSaves, SchedInv, LockInv
<1>6. CASE TickEnds
  <2>1. lock' = Nobody /\ Sleep /\ gone' = gone /\ last' = last
    BY <1>6 DEF TickEnds
  <2>2. CASE tpc = "saving" /\ file' = rules
    <3>1. OnRecord(rules, {}, gone, last)
      BY <2>2 DEF SchedInv, LockInv
    <3> QED
      BY <2>1, <2>2, <3>1, TickOver
  <2>3. CASE tpc = "checking" /\ ~changed /\ file' = file
    <3>1. OnRecord(file, Unsaved, gone, last) /\ Unsaved = {}
      BY <2>3 DEF SchedInv, LockInv, Unsaved
    <3> QED
      BY <2>1, <2>3, <3>1, TickOver
  <2> QED
    BY <1>6, <2>2, <2>3 DEF TickEnds
<1>7. ASSUME NEW r \in Rules, Fire(r) PROVE LockInv'
  <2> DEFINE b == r \notin Once
             f == [rules[index] EXCEPT !.fired = nowTs, !.on = b]
  <2>1. index \in 1..Len(rules) /\ rules[index] \in Rule /\ rules[index].id = r /\ b \in BOOLEAN
    BY <1>0, <1>7 DEF Fire
  <2>2. rules' = [rules EXCEPT ![index] = f] /\ changed' = TRUE /\ last' = [last EXCEPT ![r] = nowTs]
        /\ UNCHANGED <<lock, tpc, file, writing, gone, nowTs>> /\ tpc = "checking"
    BY <1>7 DEF Fire
  <2> HIDE DEF b
  <2>3. f \in Rule /\ f.id = r /\ f.fired = nowTs
    BY <1>0, <2>1 DEF Rule
  <2> HIDE DEF f
  <2>4. last'[r] = nowTs /\ \A x \in Rules : x # r => last'[x] = last[x]
    BY <1>0, <2>2
  <2>5. OnRecord(rules, {}, gone, last)
    BY <2>2 DEF SchedInv, LockInv
  <2>6. OnRecord(rules', {}, gone', last')
    BY <1>0, <2>1, <2>2, <2>3, <2>4, <2>5, EditOnRecord
  <2>7. /\ DOMAIN rules' = 1..Len(rules)
        /\ \A j \in 1..Len(rules) : rules'[j].id = rules[j].id
    BY <1>0, <2>1, <2>2, <2>3
  <2>8. r \in Unsaved' /\ \A x \in Unsaved : x \in Unsaved'
    <3>1. Ids(rules) \subseteq Ids(rules') /\ r \in Ids(rules')
      BY <1>0, <2>1, <2>7 DEF Ids
    <3> QED
      BY <2>2, <2>4, <3>1 DEF Unsaved
  <2>9. OnRecord(file, Unsaved, gone, last)
    BY <2>2 DEF SchedInv, LockInv
  <2>10. OnRecord(file, Unsaved', gone, last')
    <3>1. ASSUME NEW i \in DOMAIN file, file[i].id \notin Unsaved'
          PROVE  last'[file[i].id] \in {0, file[i].fired}
      <4>1. file[i].id # r /\ file[i].id \notin Unsaved /\ file[i].id \in Rules
        BY <1>0, <2>8, <3>1, RuleAt
      <4> QED
        BY <2>4, <2>9, <4>1 DEF OnRecord
    <3> QED
      BY <2>9, <3>1 DEF OnRecord
  <2>11. lock = Ticker
    BY <2>2 DEF SchedInv, LockInv
  <2> QED
    BY <2>2, <2>6, <2>10, <2>11 DEF LockInv
<1> QED
  BY <1>1, <1>2, <1>3, <1>4, <1>5, <1>6, <1>7 DEF TickerStep

\* A request that has the lock holds the list it writes.
LEMMA WritingLock ==
    ASSUME SchedInv, NEW e \in Editors, NEW list, BeginsWriting(e, list), lock = Nobody, UNCHANGED tickVars,
           OnRecord(list, {}, gone', last')
    PROVE  LockInv'
<1>1. tpc = "asleep" /\ tpc' = "asleep"
  BY DEF SchedInv, LockInv, SchedTypeOK, tickVars, Ticker, Nobody
<1>2. lock' = e /\ file' = <<>> /\ writing'[lock'] = list
  BY DEF BeginsWriting, SchedInv, SchedTypeOK
<1> QED
  BY <1>1, <1>2, Owners DEF LockInv

LEMMA EditLock == ASSUME SchedInv, NEW e \in Editors, Edit(e) PROVE LockInv'
<1> USE Owners
<1>0. /\ file \in Seq(Rule) /\ Len(file) \in Nat /\ DOMAIN file = 1..Len(file)
      /\ \A i \in 1..Len(file) : file[i] \in Rule
      /\ last \in [Rules -> 0..MaxClock] /\ 0 \in 0..MaxClock
  BY LenProperties, ElementOfSeq, SchedulesAssumption DEF SchedInv, SchedTypeOK
<1>f. lock = Nobody => OnRecord(file, {}, gone, last)
  BY DEF SchedInv, LockInv
<1>1. ASSUME NEW r \in Rules, CreateRule(e, r) PROVE LockInv'
  <2> DEFINE new == [id |-> r, on |-> TRUE, fired |-> 0]
  <2>1. new \in Rule /\ new.id = r /\ new.fired = 0
    BY <1>0 DEF Rule
  <2>2. /\ BeginsWriting(e, Append(file, new)) /\ lock = Nobody /\ r \notin Ids(file) /\ r \notin gone
        /\ Forget({r}) /\ UNCHANGED <<tickVars, gone>>
    BY <1>1 DEF CreateRule
  <2> HIDE DEF new
  <2>3. last'[r] = 0 /\ \A x \in Rules : x # r => last'[x] = last[x]
    BY <2>2, Forgets DEF SchedInv
  <2>4. OnRecord(Append(file, new), {}, gone, last')
    BY <1>0, <1>f, <2>1, <2>2, <2>3, AddOnRecord
  <2> QED
    BY <2>2, <2>4, WritingLock
<1>2. ASSUME NEW i \in DOMAIN file, NEW on \in BOOLEAN, NEW keep \in BOOLEAN, UpdateRule(e, i, on, keep) PROVE LockInv'
  <2> DEFINE k == IF keep THEN file[i].fired ELSE 0
             r == [file[i] EXCEPT !.on = on, !.fired = k]
  <2>1. i \in 1..Len(file) /\ file[i] \in Rule /\ k \in 0..MaxClock
    BY <1>0 DEF Rule
  <2>2. /\ BeginsWriting(e, [file EXCEPT ![i] = r]) /\ lock = Nobody
        /\ Forget({file[i].id}) /\ UNCHANGED <<tickVars, gone>>
    BY <1>2 DEF UpdateRule
  <2> HIDE DEF k
  <2>3. r \in Rule /\ r.id = file[i].id
    BY <2>1 DEF Rule
  <2> HIDE DEF r
  <2>5. last'[r.id] = 0 /\ \A x \in Rules : x # r.id => last'[x] = last[x]
    BY <2>1, <2>2, <2>3, Forgets DEF SchedInv, Rule
  <2>4. OnRecord([file EXCEPT ![i] = r], {}, gone, last')
    BY <1>0, <1>f, <2>1, <2>2, <2>3, <2>5, EditOnRecord
  <2> QED
    BY <2>2, <2>4, WritingLock
<1>3. ASSUME NEW i \in DOMAIN file, ToggleRule(e, i) PROVE LockInv'
  <2> DEFINE b == ~file[i].on
             r == [file[i] EXCEPT !.on = b]
  <2>1. i \in 1..Len(file) /\ file[i] \in Rule /\ b \in BOOLEAN
    BY <1>0 DEF Rule
  <2>2. /\ BeginsWriting(e, [file EXCEPT ![i] = r]) /\ lock = Nobody
        /\ UNCHANGED <<tickVars, last, gone>>
    BY <1>3 DEF ToggleRule
  <2> HIDE DEF b
  <2>3. r \in Rule /\ r.id = file[i].id /\ r.fired = file[i].fired
    BY <2>1 DEF Rule
  <2> HIDE DEF r
  <2>4. last[r.id] \in {0, r.fired}
    BY <1>0, <1>f, <2>1, <2>2, <2>3 DEF OnRecord
  <2>5. OnRecord([file EXCEPT ![i] = r], {}, gone, last)
    BY <1>0, <1>f, <2>1, <2>2, <2>3, <2>4, EditOnRecord
  <2> QED
    BY <2>2, <2>5, WritingLock
<1>4. ASSUME NEW i \in DOMAIN file, DeleteRule(e, i) PROVE LockInv'
  <2> DEFINE new == SubSeq(file, 1, i - 1) \o SubSeq(file, i + 1, Len(file))
  <2>1. OnRecord(new, {}, gone \cup {file[i].id}, last)
    BY <1>0, <1>f, <1>4, DeleteOnRecord DEF DeleteRule
  <2>2. /\ BeginsWriting(e, new) /\ lock = Nobody
        /\ gone' = gone \cup {file[i].id} /\ UNCHANGED <<tickVars, last>>
    BY <1>4 DEF DeleteRule
  <2> HIDE DEF new
  <2> QED
    BY <2>1, <2>2, WritingLock
<1>5. CASE EditEnds(e)
  <2>1. lock = e /\ lock' = Nobody /\ file' = writing[lock] /\ UNCHANGED <<tickVars, last, gone>>
    BY <1>5 DEF EditEnds
  <2>2. OnRecord(writing[lock], {}, gone, last) /\ tpc = "asleep" /\ tpc' = "asleep"
    BY <2>1 DEF SchedInv, LockInv, SchedTypeOK, tickVars
  <2> QED
    BY <2>1, <2>2 DEF LockInv
<1> QED
  BY <1>1, <1>2, <1>3, <1>4, <1>5 DEF Edit

LEMMA LockKeeps == ASSUME SchedInv, SchedNext \/ UNCHANGED schedVars PROVE LockInv'
<1> USE Owners
<1>1. CASE TimePasses
  <2>1. UNCHANGED <<lock, tpc, file, writing, gone, last, rules, Unsaved>>
    BY <1>1 DEF TimePasses, tickVars, Unsaved
  <2> QED
    BY <2>1 DEF SchedInv, LockInv
<1>2. CASE SchedRestart
  <2>1. /\ lock' = Nobody /\ tpc' = "asleep" /\ file' = file /\ gone' = gone
        /\ Forget(Daily \cup Unsaved) /\ file \in Seq(Rule)
    BY <1>2 DEF SchedRestart, SchedInv, SchedTypeOK
  <2>3. \A x \in Rules : last'[x] \in {0, last[x]} /\ (x \in Unsaved => last'[x] = 0)
    BY <2>1, Forgets DEF SchedInv
  <2>2. OnRecord(file, {}, gone, last')
    <3>1. CASE tpc = "checking"
      <4>1. OnRecord(file, Unsaved, gone, last)
        BY <2>1, <3>1 DEF SchedInv, LockInv
      <4> QED
        BY <2>1, <2>3, <4>1, ForgottenOnRecord
    <3>2. CASE file = <<>>
      BY <3>2, EmptyOnRecord
    <3>3. CASE lock = Nobody
      <4>1. OnRecord(file, {}, gone, last)
        BY <2>1, <3>3 DEF SchedInv, LockInv
      <4> QED
        BY <2>1, <2>3, <4>1, ForgottenOnRecord
    <3>4. lock = Nobody \/ file = <<>> \/ tpc = "checking"
      BY DEF SchedInv, LockInv, SchedTypeOK
    <3> QED
      BY <3>1, <3>2, <3>3, <3>4
  <2> QED
    BY <2>1, <2>2 DEF LockInv
<1>3. CASE UNCHANGED schedVars
  <2>1. UNCHANGED <<lock, tpc, file, writing, gone, last, rules, Unsaved>>
    BY <1>3 DEF schedVars, tickVars, Unsaved
  <2> QED
    BY <2>1 DEF SchedInv, LockInv
<1> QED
  BY <1>1, <1>2, <1>3, TickerLock, EditLock DEF SchedNext

\* The next minute is later than every execution there has been.
LEMMA AsleepKeeps ==
    ASSUME SchedInv, Sleep, UNCHANGED clock, \A r \in Rules : last'[r] \in {0, last[r]}
    PROVE  MinuteInv'
<1> USE SchedulesAssumption
<1>1. clock \in Nat /\ \A r \in Rules : last[r] \in Nat /\ last[r] <= clock
  BY DEF SchedInv, SchedTypeOK, MinuteInv
<1>2. tpc' = "asleep" /\ nowTs' = 0 /\ wake' = (MinuteOf(clock) + 1) * Minute
  BY DEF Sleep
<1>3. wake' \in Nat
  BY <1>1, <1>2, NextMinute
<1>4. ASSUME NEW r \in Daily, last'[r] # 0 PROVE MinuteOf(last'[r]) < MinuteOf(wake')
  <2>1. r \in Rules /\ last'[r] = last[r]
    BY <1>4 DEF Rules
  <2> QED
    BY <1>1, <1>2, <2>1, NextMinute
<1>5. \A r \in Rules : last'[r] <= clock
  BY <1>1
<1> QED
  BY <1>1, <1>2, <1>3, <1>4, <1>5 DEF MinuteInv, MinuteOf

LEMMA MinuteKeeps == ASSUME SchedInv, SchedNext \/ UNCHANGED schedVars PROVE MinuteInv'
<1> USE SchedulesAssumption
<1>t. /\ rules \in Seq(Rule) /\ file \in Seq(Rule) /\ index \in 1..(Len(rules) + 1)
      /\ last \in [Rules -> 0..MaxClock]
  BY DEF SchedInv, SchedTypeOK
<1>l. /\ Len(rules) \in Nat /\ DOMAIN rules = 1..Len(rules)
      /\ Len(file) \in Nat /\ DOMAIN file = 1..Len(file)
      /\ \A i \in 1..Len(rules) : rules[i] \in Rule
      /\ \A i \in 1..Len(file) : file[i] \in Rule
  BY <1>t, LenProperties, ElementOfSeq
<1>n. /\ nowTs \in Nat /\ clock \in Nat /\ wake \in Nat /\ nowTs <= clock
      /\ \A r \in Rules : last[r] \in Nat /\ last[r] <= clock
  BY DEF SchedInv, SchedTypeOK, MinuteInv
<1>0. /\ rules \in Seq(Rule) /\ Len(rules) \in Nat /\ DOMAIN rules = 1..Len(rules)
      /\ file \in Seq(Rule) /\ Len(file) \in Nat /\ DOMAIN file = 1..Len(file)
      /\ index \in 1..(Len(rules) + 1) /\ nowTs \in Nat /\ clock \in Nat /\ wake \in Nat
      /\ last \in [Rules -> 0..MaxClock] /\ \A r \in Rules : last[r] \in Nat /\ last[r] <= clock
      /\ nowTs <= clock
      /\ \A i \in 1..Len(rules) : rules[i].id \in Rules
      /\ \A i \in 1..Len(file) : file[i].id \in Rules
  BY <1>t, <1>l, <1>n DEF Rule
<1>m. /\ tpc = "asleep" => \A r \in Daily : last[r] # 0 => MinuteOf(last[r]) < MinuteOf(wake)
      /\ tpc = "checking" => \A i \in index..Len(rules) :
            rules[i].id \in Daily /\ last[rules[i].id] # 0
               => MinuteOf(last[rules[i].id]) < MinuteOf(nowTs)
  BY DEF SchedInv, MinuteInv
<1>1. CASE TimePasses
  <2>1. clock' = clock + 1 /\ UNCHANGED <<tpc, wake, rules, index, nowTs, last>>
    BY <1>1 DEF TimePasses, tickVars
  <2> QED
    BY <1>0, <1>m, <2>1 DEF MinuteInv, MinuteOf
<1>2. CASE TickUntrusted \/ TickRaises \/ TickEnds
  <2>1. Sleep /\ UNCHANGED clock /\ (UNCHANGED last \/ Forget(Unsaved))
    BY <1>2 DEF TickUntrusted, TickRaises, TickEnds
  <2>2. \A r \in Rules : last'[r] \in {0, last[r]}
    BY <2>1, Forgets DEF SchedInv
  <2> QED
    BY <2>1, <2>2, AsleepKeeps
<1>3. CASE TickStart
  <2>1. /\ tpc = "asleep" /\ clock >= wake /\ tpc' = "checking" /\ rules' = file /\ index' = 1 /\ nowTs' = clock
        /\ UNCHANGED <<clock, wake, last>>
    BY <1>3 DEF TickStart
  <2>2. ASSUME NEW i \in 1..Len(file), file[i].id \in Daily, last[file[i].id] # 0
        PROVE  MinuteOf(last[file[i].id]) < MinuteOf(clock)
    <3>1. MinuteOf(last[file[i].id]) < MinuteOf(wake)
      BY <1>m, <2>1, <2>2
    <3>0. /\ wake \in Nat /\ clock \in Nat /\ wake <= clock /\ clock <= clock
          /\ last[file[i].id] \in Nat /\ last[file[i].id] <= clock
      BY <1>0, <2>1
    <3>2. MinuteOf(wake) \in Nat /\ MinuteOf(wake) <= MinuteOf(clock) /\ MinuteOf(clock) \in Nat
      BY <3>0, MinuteMonotone
    <3>3. MinuteOf(last[file[i].id]) \in Nat
      BY <3>0, MinuteMonotone
    <3> QED
      BY <3>1, <3>2, <3>3
  <2>3. \A i \in index'..Len(rules') :
            rules'[i].id \in Daily /\ last'[rules'[i].id] # 0
               => MinuteOf(last'[rules'[i].id]) < MinuteOf(nowTs')
    BY <2>1, <2>2
  <2> QED
    BY <1>0, <2>1, <2>3 DEF MinuteInv, MinuteOf
<1>4. CASE Skip
  <2>1. tpc' = tpc /\ tpc = "checking" /\ index' = index + 1 /\ UNCHANGED <<clock, wake, rules, nowTs, last>>
    BY <1>4 DEF Skip
  <2> QED
    BY <1>0, <1>m, <2>1 DEF MinuteInv, MinuteOf
<1>5. CASE TickSaves
  <2>1. tpc' = "saving" /\ UNCHANGED <<clock, wake, nowTs, last>>
    BY <1>5 DEF TickSaves
  <2> QED
    BY <1>0, <2>1 DEF MinuteInv
<1>6. ASSUME NEW r \in Rules, Fire(r) PROVE MinuteInv'
  <2>1. /\ tpc = "checking" /\ tpc' = tpc /\ index \in 1..Len(rules) /\ rules[index].id = r /\ index' = index + 1
        /\ last' = [last EXCEPT ![r] = nowTs]
        /\ UNCHANGED <<clock, wake, nowTs>>
    BY <1>0, <1>6 DEF Fire
  <2>2. last'[r] = nowTs /\ \A x \in Rules : x # r => last'[x] = last[x]
    BY <1>0, <2>1
  <2>3. /\ Len(rules') = Len(rules)
        /\ \A j \in 1..Len(rules) : j # index => rules'[j] = rules[j]
    BY <1>0, <1>6, <2>1 DEF Fire
  <2>4. \A j \in 1..Len(rules) : j # index => rules[j].id # r
    BY <1>0, <2>1 DEF SchedInv, LockInv, OnRecord
  <2>5. ASSUME NEW j \in index'..Len(rules'), rules'[j].id \in Daily, last'[rules'[j].id] # 0
        PROVE  MinuteOf(last'[rules'[j].id]) < MinuteOf(nowTs')
    <3>1. j \in 1..Len(rules) /\ j # index /\ j \in index..Len(rules)
      BY <1>0, <2>1, <2>3
    <3>2. rules'[j] = rules[j] /\ rules[j].id # r /\ rules[j].id \in Rules
      BY <1>0, <2>3, <2>4, <3>1
    <3>3. last'[rules[j].id] = last[rules[j].id] /\ rules[j].id \in Daily
      BY <2>1, <2>2, <2>5, <3>2
    <3> QED
      BY <1>m, <2>1, <2>5, <3>1, <3>2, <3>3
  <2>6. \A x \in Rules : last'[x] <= clock'
    BY <1>0, <2>1, <2>2
  <2> QED
    BY <1>0, <2>1, <2>5, <2>6 DEF MinuteInv, MinuteOf
<1>7. ASSUME NEW e \in Editors, Edit(e) PROVE MinuteInv'
  <2>1. /\ UNCHANGED <<clock, tpc, wake, rules, index, nowTs>>
        /\ last' = last \/ \E lost : Forget(lost)
    BY <1>7 DEF Edit, CreateRule, UpdateRule, ToggleRule, DeleteRule, EditEnds, tickVars
  <2>2. \A r \in Rules : last'[r] \in {last[r], 0}
    BY <2>1, Forgets DEF SchedInv
  <2>3. \A r \in Rules : last'[r] <= clock
    BY <1>0, <2>2
  <2>4. ASSUME tpc = "asleep", NEW r \in Daily, last'[r] # 0
        PROVE  MinuteOf(last'[r]) < MinuteOf(wake)
    <3>1. r \in Rules /\ r \in Daily
      BY <2>1, <2>4 DEF Rules
    <3>2. last'[r] = last[r]
      BY <2>2, <2>4, <3>1
    <3> QED
      BY <1>m, <2>4, <3>1, <3>2
  <2>5. ASSUME tpc = "checking", NEW j \in index..Len(rules), rules[j].id \in Daily, last'[rules[j].id] # 0
        PROVE  MinuteOf(last'[rules[j].id]) < MinuteOf(nowTs)
    <3>1. rules[j].id \in Rules /\ rules[j].id \in Daily
      BY <2>1, <2>5 DEF Rules
    <3>2. last'[rules[j].id] = last[rules[j].id]
      BY <2>2, <2>5, <3>1
    <3> QED
      BY <1>m, <2>5, <3>1, <3>2
  <2> QED
    BY <1>0, <2>1, <2>3, <2>4, <2>5 DEF MinuteInv, MinuteOf
<1>8. CASE SchedRestart
  <2>1. /\ tpc' = "asleep" /\ wake' = clock /\ nowTs' = 0
        /\ Forget(Daily \cup Unsaved) /\ UNCHANGED clock
    BY <1>8 DEF SchedRestart
  <2>2. \A r \in Rules : last'[r] \in {0, last[r]} /\ (r \in Daily => last'[r] = 0)
    BY <2>1, Forgets DEF SchedInv
  <2>3. \A r \in Daily : last'[r] = 0
    BY <2>2 DEF Rules
  <2>4. \A r \in Rules : last'[r] <= clock
    BY <1>0, <2>2
  <2> QED
    BY <1>0, <2>1, <2>3, <2>4 DEF MinuteInv
<1>9. CASE UNCHANGED schedVars
  <2>1. UNCHANGED <<clock, tpc, wake, rules, index, nowTs, last>>
    BY <1>9 DEF schedVars, tickVars
  <2> QED
    BY <1>0, <1>m, <2>1 DEF MinuteInv, MinuteOf
<1> QED
  BY <1>1, <1>2, <1>3, <1>4, <1>5, <1>6, <1>7, <1>8, <1>9 DEF SchedNext, TickerStep

LEMMA SchedKeeps == SchedInv /\ (SchedNext \/ UNCHANGED schedVars) => SchedInv'
  BY SchedStays, LockKeeps, MinuteKeeps DEF SchedInv

\* A rule that fires is due by its own last execution.
LEMMA FiresOnPace ==
    ASSUME SchedInv, NEW r \in Rules, Fire(r), last[r] # 0
    PROVE  /\ r \in Daily => MinuteOf(last[r]) # MinuteOf(nowTs)
           /\ r \in Interval => nowTs - last[r] >= Every
           /\ r \notin Once
<1> USE SchedulesAssumption
<1>0. /\ rules \in Seq(Rule) /\ Len(rules) \in Nat /\ DOMAIN rules = 1..Len(rules)
      /\ index \in 1..(Len(rules) + 1) /\ nowTs \in Nat /\ last[r] \in Nat
  BY LenProperties DEF SchedInv, SchedTypeOK
<1>1. tpc = "checking" /\ index \in 1..Len(rules) /\ rules[index].id = r /\ ShouldFire(rules[index])
  BY <1>0 DEF Fire
<1>2. rules[index].fired = last[r]
  BY <1>0, <1>1 DEF SchedInv, LockInv, OnRecord
<1>3. ASSUME r \in Daily PROVE MinuteOf(last[r]) # MinuteOf(nowTs)
  <2>1. MinuteOf(last[r]) < MinuteOf(nowTs)
    BY <1>0, <1>1, <1>3 DEF SchedInv, MinuteInv
  <2>2. MinuteOf(last[r]) \in Nat /\ MinuteOf(nowTs) \in Nat
    <3>1. last[r] <= last[r] /\ nowTs <= nowTs
      BY <1>0
    <3> QED
      BY <1>0, <3>1, MinuteMonotone
  <2> QED
    BY <2>1, <2>2
<1>4. r \in Interval => nowTs - last[r] >= Every
  BY <1>0, <1>1, <1>2 DEF ShouldFire
<1>5. r \notin Once
  BY <1>0, <1>1, <1>2 DEF ShouldFire
<1> QED
  BY <1>3, <1>4, <1>5

LEMMA DeletedIsGone == SchedInv => DeletedStaysDeleted
<1> SUFFICES ASSUME SchedInv PROVE DeletedStaysDeleted
  OBVIOUS
<1>1. \A i \in DOMAIN file : file[i].id \notin gone
  <2>1. CASE file = <<>>
    BY <2>1
  <2>2. CASE lock = Nobody \/ tpc = "checking"
    BY <2>2 DEF SchedInv, LockInv, OnRecord
  <2> QED
    BY <2>1, <2>2, Owners DEF SchedInv, LockInv, SchedTypeOK
<1> QED
  BY <1>1 DEF DeletedStaysDeleted, Ids

\* A rule keeps its pace and a deletion stands, however ticks, edits, crashes and
\* ticks that raise fall between each other (schedule_engine.py:63-118,
\* 161-199).  For every length of the minute, gap and interval, and every set of
\* rules and requests.
THEOREM RulesKeepTheirPace == StationSpec => RulesKeepTheirWord
<1>1. StationInit => SchedInv
  BY SchedBegins DEF StationInit
<1>2. SchedInv /\ [StationNext]_stationVars => SchedInv'
  BY PartSteps, SchedKeeps
<1>3. SchedInv => [\A r \in Rules : Fire(r) /\ last[r] # 0 =>
            /\ r \in Daily => MinuteOf(last[r]) # MinuteOf(nowTs)
            /\ r \in Interval => nowTs - last[r] >= Every
            /\ r \notin Once]_schedVars
  BY FiresOnPace
<1>4. SchedInv => (part = "schedules" => DeletedStaysDeleted)
  BY DeletedIsGone
<1> QED
  BY <1>1, <1>2, <1>3, <1>4, PTL DEF StationSpec, RulesKeepTheirWord, RuleKeepsItsPace
=============================================================================
