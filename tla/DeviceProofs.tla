---------------------------- MODULE DeviceProofs ----------------------------
(***************************************************************************)
(* The USB camera and the e-paper display, for every number of viewers,    *)
(* generations, models, frames and tries.  Station and Workers both follow *)
(* them; their theorems rest on the invariants of this module.             *)
(***************************************************************************)
EXTENDS UsbCamera, Display, FiniteSetTheorems, TLAPS

-----------------------------------------------------------------------------
(* The USB camera                                                          *)

\* The viewers that have been counted and have not left.
Counted == {v \in Watchers : watcher[v].at \in {"counted", "watches"}}

UsbTypes ==
    /\ generation \in 0..MaxGeneration /\ streaming \in BOOLEAN
    /\ device \in 0..MaxGeneration /\ open \subseteq Generations /\ frame \in 0..MaxGeneration
    /\ reader \in [Generations -> {"none", "waits", "converts", "ended"}]
    /\ watchdog \in [Generations -> {"none", "sleeps", "decided", "ended"}]
    /\ watcher \in [Watchers -> [at : {"away", "started", "counted", "watches"}, gen : 0..MaxGeneration]]
    /\ consumers \in Nat /\ idle \in BOOLEAN
    /\ stopping \in [PhotoCallers -> 0..MaxGeneration]
    /\ photo \in {"none", "stop", "wait", "wait, switched", "stop again"}

\* A running stream has the one open device, and a stop notes which it is to
\* close.  A thread that has a device writes the frames of the stream that runs,
\* if one does: a thread without one is at its last conversion or at its end.
StreamInv ==
    /\ device <= generation
    /\ \A c \in PhotoCallers : stopping[c] = NoThread \/ stopping[c] < generation
    /\ streaming => open = {generation} /\ device = generation
    /\ DevicesAreFreed

\* Nobody is counted who is not there.
CountInv == consumers <= Cardinality(Counted)

UsbInv == UsbTypes /\ StreamInv /\ CountInv

\* What the camera's invariant gives to the parts that state it.
LEMMA UsbTypesHold == UsbInv => UsbTypeOK /\ DevicesAreFreed
<1> SUFFICES ASSUME UsbInv PROVE UsbTypeOK /\ DevicesAreFreed
  OBVIOUS
<1>1. Counted \subseteq Watchers /\ IsFiniteSet(Watchers)
  BY UsbAssumption DEF Counted
<1>2. Cardinality(Counted) <= Cardinality(Watchers) /\ Cardinality(Counted) \in Nat
      /\ Cardinality(Watchers) \in Nat
  BY <1>1, FS_Subset, FS_CardinalityType
<1>3. consumers \in 0..Cardinality(Watchers)
  <2>1. consumers \in Nat /\ consumers <= Cardinality(Counted)
    BY DEF UsbInv, UsbTypes, CountInv
  <2> QED
    BY <1>2, <2>1
<1> QED
  BY <1>3 DEF UsbInv, UsbTypes, StreamInv, UsbTypeOK

LEMMA UsbStart == UsbInit => UsbInv
<1> SUFFICES ASSUME UsbInit PROVE UsbInv
  OBVIOUS
<1> USE UsbAssumption
<1>1. UsbTypes
  <2>1. watcher \in [Watchers -> [at : {"away", "started", "counted", "watches"}, gen : 0..MaxGeneration]]
    BY DEF UsbInit, Away, NoThread
  <2>2. streaming \in BOOLEAN /\ idle \in BOOLEAN
    BY DEF UsbInit
  <2> QED
    BY <2>1, <2>2 DEF UsbInit, UsbTypes, NoThread
<1>2. StreamInv
  BY DEF UsbInit, StreamInv, DevicesAreFreed, NoThread
<1>3. Counted \subseteq Watchers
  BY DEF Counted
<1>4. Cardinality(Counted) \in Nat
  BY <1>3, FS_Subset, FS_CardinalityType
<1>5. CountInv
  BY <1>4 DEF UsbInit, CountInv
<1> QED
  BY <1>1, <1>2, <1>5 DEF UsbInv

\* A start, whoever asks for it: the stream that begins has the only device.
LEMMA StartsKeeps ==
    ASSUME UsbTypes, StreamInv, Starts, stopping' = stopping
    PROVE  /\ StreamInv'
           /\ generation' \in 0..MaxGeneration /\ streaming' \in BOOLEAN
           /\ device' \in 0..MaxGeneration /\ open' \subseteq Generations
           /\ frame' \in 0..MaxGeneration
           /\ reader' \in [Generations -> {"none", "waits", "converts", "ended"}]
           /\ watchdog' \in [Generations -> {"none", "sleeps", "decided", "ended"}]
           /\ consumers' = 0 /\ idle' \in BOOLEAN
<1> USE UsbAssumption
<1> DEFINE g == generation + 1
<1>1. /\ open = {} /\ generation < MaxGeneration
      /\ generation' = g /\ device' = g /\ open' = {g}
      /\ reader' = [reader EXCEPT ![g] = "waits"]
      /\ watchdog' = [watchdog EXCEPT ![g] = "sleeps"]
      /\ streaming' = TRUE /\ frame' = NoThread
      /\ consumers' = 0 /\ idle' = FALSE
  BY DEF Starts
<1>0. /\ generation \in 0..MaxGeneration /\ MaxGeneration \in Nat
      /\ \A c \in PhotoCallers : stopping[c] \in 0..MaxGeneration
  BY DEF UsbTypes
<1>2. g \in Generations /\ g \in Nat /\ generation \in Nat
  BY <1>0, <1>1 DEF Generations
<1>5. reader' \in [Generations -> {"none", "waits", "converts", "ended"}]
  BY <1>1 DEF UsbTypes
<1>6. watchdog' \in [Generations -> {"none", "sleeps", "decided", "ended"}]
  BY <1>1 DEF UsbTypes
<1>7. \A c \in PhotoCallers : stopping[c] = NoThread \/ stopping[c] < g
  BY <1>0, <1>2 DEF StreamInv
<1>8. StreamInv'
  BY <1>1, <1>2, <1>7 DEF StreamInv, DevicesAreFreed
<1>9. /\ generation' \in 0..MaxGeneration /\ device' \in 0..MaxGeneration
      /\ frame' \in 0..MaxGeneration /\ open' \subseteq Generations
  BY <1>0, <1>1, <1>2 DEF Generations, NoThread
<1> QED
  BY <1>1, <1>5, <1>6, <1>8, <1>9

\* The locked part of a stop: nothing runs any more, and the device is noted.
LEMMA CutKeeps ==
    ASSUME UsbTypes, StreamInv, NEW c \in PhotoCallers, Cut(c), UNCHANGED <<open, frame, reader>>
    PROVE  /\ StreamInv'
           /\ generation' \in 0..MaxGeneration /\ streaming' \in BOOLEAN
           /\ device' \in 0..MaxGeneration
           /\ stopping' \in [PhotoCallers -> 0..MaxGeneration]
<1> USE UsbAssumption
<1>1. /\ generation < MaxGeneration /\ generation' = generation + 1
      /\ streaming' = FALSE /\ device' = NoThread
      /\ stopping' = [stopping EXCEPT ![c] = device]
      /\ open' = open /\ frame' = frame /\ reader' = reader
  BY DEF Cut
<1>0. /\ generation \in 0..MaxGeneration /\ MaxGeneration \in Nat
      /\ device \in 0..MaxGeneration
      /\ stopping \in [PhotoCallers -> 0..MaxGeneration]
  BY DEF UsbTypes
<1>2. /\ generation \in Nat /\ device \in 0..MaxGeneration /\ device <= generation
      /\ stopping \in [PhotoCallers -> 0..MaxGeneration]
  BY <1>0 DEF StreamInv
<1>3. stopping' \in [PhotoCallers -> 0..MaxGeneration]
  BY <1>1, <1>2
<1>4. \A d \in PhotoCallers : stopping'[d] = IF d = c THEN device ELSE stopping[d]
  BY <1>1, <1>2
<1>5. \A d \in PhotoCallers : stopping'[d] = NoThread \/ stopping'[d] < generation'
  <2> TAKE d \in PhotoCallers
  <2>1. stopping[d] \in Nat /\ (stopping[d] = NoThread \/ stopping[d] < generation)
    BY <1>2 DEF StreamInv
  <2> QED
    BY <1>1, <1>2, <1>4, <2>1
<1>6. DevicesAreFreed'
  <2> SUFFICES ASSUME NEW g \in open PROVE \E d \in PhotoCallers : stopping'[d] = g
    BY <1>1 DEF DevicesAreFreed
  <2>1. CASE streaming
    BY <1>4, <2>1 DEF StreamInv
  <2>2. CASE ~streaming
    <3>1. PICK d \in PhotoCallers : stopping[d] = g
      BY <2>2 DEF StreamInv, DevicesAreFreed
    <3>2. stopping[c] = NoThread
      BY DEF Cut
    <3>3. open \subseteq Generations
      BY DEF UsbTypes
    <3>4. g # NoThread
      BY <3>3 DEF Generations, NoThread
    <3> QED
      BY <1>4, <3>1, <3>2, <3>4
  <2> QED
    BY <2>1, <2>2
<1>7. StreamInv'
  BY <1>1, <1>2, <1>5, <1>6 DEF StreamInv, NoThread
<1>8. generation' \in 0..MaxGeneration /\ device' \in 0..MaxGeneration
  BY <1>0, <1>1 DEF NoThread
<1> QED
  BY <1>1, <1>3, <1>7, <1>8

LEMMA CountedFinite == IsFiniteSet(Counted) /\ Cardinality(Counted) \in Nat
<1>1. Counted \subseteq Watchers /\ IsFiniteSet(Watchers)
  BY UsbAssumption DEF Counted
<1> QED
  BY <1>1, FS_Subset, FS_CardinalityType

\* A step that counts nobody in or out.
LEMMA CountStays ==
    ASSUME CountInv, consumers \in Nat, consumers' = consumers \/ consumers' = 0,
           \A v \in Watchers : (watcher'[v].at \in {"counted", "watches"})
                                  <=> (watcher[v].at \in {"counted", "watches"})
    PROVE  CountInv' /\ consumers' \in Nat
<1>1. Counted' = Counted
  BY DEF Counted
<1>2. Cardinality(Counted') = Cardinality(Counted)
  BY <1>1
<1>3. Cardinality(Counted) \in Nat
  BY CountedFinite
<1> QED
  BY <1>2, <1>3 DEF CountInv

\* A step of the camera that leaves the stream's state alone, the readers' but
\* for a step between waiting and the end, and the newest frame.
LEMMA ViewersKeep ==
    ASSUME UsbInv,
           UNCHANGED <<generation, streaming, device, open, frame, reader, stopping>>,
           watchdog' \in [Generations -> {"none", "sleeps", "decided", "ended"}],
           watcher' \in [Watchers -> [at : {"away", "started", "counted", "watches"}, gen : 0..MaxGeneration]],
           idle' \in BOOLEAN, photo' \in {"none", "stop", "wait", "wait, switched", "stop again"},
           consumers' \in Nat, CountInv'
    PROVE  UsbInv'
<1>1. UsbTypes'
  BY DEF UsbInv, UsbTypes
<1>2. StreamInv'
  BY DEF UsbInv, StreamInv, DevicesAreFreed
<1> QED
  BY <1>1, <1>2 DEF UsbInv

LEMMA ReaderStepsKeep ==
    ASSUME UsbInv, NEW g \in Generations, ReaderTakes(g) \/ ReaderWrites(g)
    PROVE  UsbInv'
<1> USE UsbAssumption
<1>0. /\ reader \in [Generations -> {"none", "waits", "converts", "ended"}]
      /\ StreamInv
  BY DEF UsbInv, UsbTypes
<1>1. /\ generation' = generation /\ streaming' = streaming /\ device' = device /\ open' = open
      /\ watchdog' = watchdog /\ watcher' = watcher /\ consumers' = consumers /\ idle' = idle
      /\ stopping' = stopping /\ photo' = photo
  BY DEF ReaderTakes, ReaderWrites
<1>2. /\ reader[g] \in {"waits", "converts"}
      /\ \E w \in {"waits", "converts", "ended"} : reader' = [reader EXCEPT ![g] = w]
      /\ (frame' = frame \/ frame' = g)
  BY DEF ReaderTakes, ReaderWrites
<1>3. reader' \in [Generations -> {"none", "waits", "converts", "ended"}]
  BY <1>0, <1>2
<1>4. frame' \in 0..MaxGeneration
  <2>1. frame \in 0..MaxGeneration
    BY DEF UsbInv, UsbTypes
  <2>2. g \in 0..MaxGeneration
    BY DEF Generations
  <2> QED
    BY <1>2, <2>1, <2>2
<1>8. StreamInv'
  BY <1>0, <1>1 DEF StreamInv, DevicesAreFreed
<1>9. UsbTypes'
  BY <1>1, <1>3, <1>4 DEF UsbInv, UsbTypes
<1>10. CountInv'
  BY <1>1 DEF UsbInv, CountInv, Counted
<1> QED
  BY <1>8, <1>9, <1>10 DEF UsbInv

LEMMA CloseKeeps ==
    ASSUME UsbInv, NEW c \in PhotoCallers, Close(c)
    PROVE  UsbInv'
<1> USE UsbAssumption
<1> DEFINE d == stopping[c]
<1>0. /\ reader \in [Generations -> {"none", "waits", "converts", "ended"}]
      /\ stopping \in [PhotoCallers -> 0..MaxGeneration] /\ open \subseteq Generations
      /\ StreamInv
  BY DEF UsbInv, UsbTypes
<1>1. /\ d # NoThread
      /\ reader' = [reader EXCEPT ![d] = IF @ = "converts" THEN @ ELSE "ended"]
      /\ open' = open \ {d}
      /\ frame' = NoThread /\ stopping' = [stopping EXCEPT ![c] = NoThread]
      /\ generation' = generation /\ streaming' = streaming /\ device' = device
      /\ watchdog' = watchdog /\ watcher' = watcher /\ consumers' = consumers
      /\ idle' = idle /\ photo' = photo
  BY DEF Close
<1>2. d \in Generations /\ d < generation /\ generation \in Nat /\ d \in Nat
  <2>1. generation \in 0..MaxGeneration
    BY DEF UsbInv, UsbTypes
  <2>2. d \in 0..MaxGeneration
    BY <1>0
  <2>3. d < generation
    BY <1>0, <1>1 DEF StreamInv
  <2> QED
    BY <1>1, <2>1, <2>2, <2>3 DEF NoThread, Generations
<1> HIDE DEF d
<1>3. reader' \in [Generations -> {"none", "waits", "converts", "ended"}]
  BY <1>0, <1>1
<1>4. stopping' \in [PhotoCallers -> 0..MaxGeneration]
  BY <1>0, <1>1 DEF NoThread
<1>5. DevicesAreFreed'
  <2> SUFFICES ASSUME NEW g \in open'
               PROVE  (streaming /\ g = generation) \/ \E e \in PhotoCallers : stopping'[e] = g
    BY <1>1 DEF DevicesAreFreed
  <2>1. g \in open /\ g # d
    BY <1>1
  <2>2. CASE streaming /\ g = generation
    BY <2>2
  <2>3. ASSUME NEW e \in PhotoCallers, stopping[e] = g
        PROVE  stopping'[e] = g
    BY <1>0, <1>1, <2>1, <2>3 DEF d
  <2> QED
    BY <1>0, <2>1, <2>2, <2>3 DEF StreamInv, DevicesAreFreed
<1>6. \A e \in PhotoCallers : stopping'[e] = NoThread \/ stopping'[e] < generation
  BY <1>0, <1>1 DEF StreamInv
<1>7. streaming => open' = {generation}
  <2> SUFFICES ASSUME streaming PROVE open' = {generation}
    OBVIOUS
  <2>1. open = {generation}
    BY <1>0 DEF StreamInv
  <2>2. d # generation
    BY <1>2
  <2> QED
    BY <1>1, <2>1, <2>2
<1>8. StreamInv'
  BY <1>0, <1>1, <1>5, <1>6, <1>7 DEF StreamInv
<1>9. open' \subseteq Generations /\ frame' \in 0..MaxGeneration
  BY <1>0, <1>1 DEF NoThread
<1>10. UsbTypes'
  BY <1>1, <1>3, <1>4, <1>9 DEF UsbInv, UsbTypes
<1>11. CountInv'
  BY <1>1 DEF UsbInv, CountInv, Counted
<1> QED
  BY <1>8, <1>10, <1>11 DEF UsbInv

\* A stop, by the route, by a watchdog or for a photo.
LEMMA StopKeeps ==
    ASSUME UsbInv, NEW c \in PhotoCallers, Cut(c),
           UNCHANGED <<open, frame, reader, watcher, consumers, idle>>,
           watchdog' \in [Generations -> {"none", "sleeps", "decided", "ended"}],
           photo' \in {"none", "stop", "wait", "wait, switched", "stop again"}
    PROVE  UsbInv'
<1>1. /\ StreamInv'
      /\ generation' \in 0..MaxGeneration /\ streaming' \in BOOLEAN
      /\ device' \in 0..MaxGeneration
      /\ stopping' \in [PhotoCallers -> 0..MaxGeneration]
  BY CutKeeps DEF UsbInv
<1>2. UsbTypes'
  BY <1>1 DEF UsbInv, UsbTypes
<1>3. CountInv'
  BY DEF UsbInv, CountInv, Counted
<1> QED
  BY <1>1, <1>2, <1>3 DEF UsbInv

\* A start, by a viewer or for a photo.
LEMMA BeginKeeps ==
    ASSUME UsbInv, Starts, stopping' = stopping,
           watcher' \in [Watchers -> [at : {"away", "started", "counted", "watches"}, gen : 0..MaxGeneration]],
           \A v \in Watchers : (watcher'[v].at \in {"counted", "watches"})
                                  <=> (watcher[v].at \in {"counted", "watches"}),
           photo' \in {"none", "stop", "wait", "wait, switched", "stop again"}
    PROVE  UsbInv'
<1>1. /\ StreamInv'
      /\ generation' \in 0..MaxGeneration /\ streaming' \in BOOLEAN
      /\ device' \in 0..MaxGeneration /\ open' \subseteq Generations
      /\ frame' \in 0..MaxGeneration
      /\ reader' \in [Generations -> {"none", "waits", "converts", "ended"}]
      /\ watchdog' \in [Generations -> {"none", "sleeps", "decided", "ended"}]
      /\ consumers' = 0 /\ idle' \in BOOLEAN
  BY StartsKeeps DEF UsbInv
<1>2. CountInv' /\ consumers' \in Nat
  BY <1>1, CountStays DEF UsbInv, UsbTypes
<1>3. UsbTypes'
  BY <1>1, <1>2 DEF UsbInv, UsbTypes
<1> QED
  BY <1>1, <1>2, <1>3 DEF UsbInv

\* A viewer starts, is counted, watches and leaves.
LEMMA WatcherStepsKeep ==
    ASSUME UsbInv, NEW v \in Watchers,
           WatcherStarts(v) \/ WatcherCounts(v) \/ WatcherWatches(v) \/ WatcherLeaves(v)
    PROVE  UsbInv'
<1> USE UsbAssumption
<1> DEFINE Viewers == [Watchers -> [at : {"away", "started", "counted", "watches"}, gen : 0..MaxGeneration]]
<1>0. /\ watcher \in Viewers /\ consumers \in Nat /\ CountInv
      /\ generation \in 0..MaxGeneration /\ idle \in BOOLEAN
      /\ watchdog \in [Generations -> {"none", "sleeps", "decided", "ended"}]
      /\ photo \in {"none", "stop", "wait", "wait, switched", "stop again"}
  BY DEF UsbInv, UsbTypes
<1>1. CASE WatcherStarts(v)
  <2>1. /\ watcher[v] = Away /\ watcher' = [watcher EXCEPT ![v].at = "started"]
        /\ (StartFails \/ Starts) /\ stopping' = stopping /\ photo' = photo
    BY <1>1 DEF WatcherStarts
  <2>2. watcher' \in Viewers
    BY <1>0, <2>1
  <2>3. \A u \in Watchers : (watcher'[u].at \in {"counted", "watches"})
                                  <=> (watcher[u].at \in {"counted", "watches"})
    <3> TAKE u \in Watchers
    <3>1. CASE u = v
      <4>1. watcher[u].at = "away"
        BY <2>1, <3>1 DEF Away
      <4>2. watcher'[v] = [watcher[v] EXCEPT !.at = "started"]
        BY <1>0, <2>1
      <4>3. watcher[v] \in [at : {"away", "started", "counted", "watches"}, gen : 0..MaxGeneration]
        BY <1>0
      <4>4. watcher'[v].at = "started"
        BY ONLY <4>2, <4>3
      <4> QED
        BY <3>1, <4>1, <4>4
    <3>2. CASE u # v
      <4>1. watcher'[u] = watcher[u]
        BY <1>0, <2>1, <3>2
      <4> QED
        BY <4>1
    <3> QED
      BY <3>1, <3>2
  <2>4. CASE Starts
    BY <1>0, <2>1, <2>2, <2>3, <2>4, BeginKeeps
  <2>5. CASE StartFails
    <3>1. /\ UNCHANGED <<generation, streaming, device, open, frame, reader, stopping>>
          /\ watchdog' = watchdog /\ consumers' = consumers /\ idle' = idle
      BY <2>1, <2>5 DEF StartFails
    <3>2. CountInv' /\ consumers' \in Nat
      BY <1>0, <2>3, <3>1, CountStays
    <3> QED
      BY <1>0, <2>1, <2>2, <3>1, <3>2, ViewersKeep
  <2> QED
    BY <2>1, <2>4, <2>5
<1>2. CASE WatcherCounts(v)
  <2>1. /\ watcher[v].at = "started" /\ consumers' = consumers + 1
        /\ watcher' = [watcher EXCEPT ![v].at = "counted"]
        /\ UNCHANGED <<generation, streaming, device, open, frame, reader, stopping>>
        /\ watchdog' = watchdog /\ idle' = idle /\ photo' = photo
    BY <1>2 DEF WatcherCounts
  <2>2. watcher' \in Viewers
    BY <1>0, <2>1
  <2>3. Counted' = Counted \cup {v} /\ v \notin Counted
    BY <1>0, <2>1 DEF Counted
  <2>4. Cardinality(Counted \cup {v}) = Cardinality(Counted) + 1
    BY <2>3, CountedFinite, FS_AddElement
  <2>5. Cardinality(Counted') = Cardinality(Counted) + 1
    BY <2>3, <2>4
  <2>6. CountInv' /\ consumers' \in Nat
    <3>1. consumers <= Cardinality(Counted) /\ consumers \in Nat /\ Cardinality(Counted) \in Nat
      BY <1>0, CountedFinite DEF CountInv
    <3>2. consumers' <= Cardinality(Counted') /\ consumers' \in Nat
      BY <2>1, <2>5, <3>1
    <3> QED
      BY <3>2 DEF CountInv
  <2> QED
    BY <1>0, <2>1, <2>2, <2>6, ViewersKeep
<1>3. CASE WatcherWatches(v)
  <2>1. /\ watcher[v].at = "counted" /\ consumers' = consumers
        /\ watcher' = [watcher EXCEPT ![v] = [at |-> "watches", gen |-> generation]]
        /\ UNCHANGED <<generation, streaming, device, open, frame, reader, stopping>>
        /\ watchdog' = watchdog /\ idle' = idle /\ photo' = photo
    BY <1>3 DEF WatcherWatches
  <2>2. watcher' \in Viewers
    BY <1>0, <2>1
  <2>3. \A u \in Watchers : (watcher'[u].at \in {"counted", "watches"})
                                  <=> (watcher[u].at \in {"counted", "watches"})
    BY <1>0, <2>1
  <2>4. CountInv' /\ consumers' \in Nat
    BY <1>0, <2>1, <2>3, CountStays
  <2> QED
    BY <1>0, <2>1, <2>2, <2>4, ViewersKeep
<1>4. CASE WatcherLeaves(v)
  <2>1. /\ watcher[v].at = "watches"
        /\ consumers' = IF consumers > 0 THEN consumers - 1 ELSE 0
        /\ (idle' = FALSE \/ idle' = idle)
        /\ watcher' = [watcher EXCEPT ![v] = Away]
        /\ UNCHANGED <<generation, streaming, device, open, frame, reader, stopping>>
        /\ watchdog' = watchdog /\ photo' = photo
    BY <1>4 DEF WatcherLeaves, Uncount
  <2>2. watcher' \in Viewers
    <3>1. Away \in [at : {"away", "started", "counted", "watches"}, gen : 0..MaxGeneration]
      BY DEF Away, NoThread
    <3> QED
      BY <1>0, <2>1, <3>1
  <2>3. Counted' = Counted \ {v} /\ v \in Counted
    BY <1>0, <2>1 DEF Counted, Away
  <2>4. Cardinality(Counted \ {v}) = Cardinality(Counted) - 1
    BY <2>3, CountedFinite, FS_RemoveElement
  <2>5. Cardinality(Counted') = Cardinality(Counted) - 1
    BY <2>3, <2>4
  <2>6. Cardinality(Counted) >= 1
    <3>1. Counted # {}
      BY <2>3
    <3>2. Cardinality(Counted) # 0
      BY <3>1, CountedFinite, FS_EmptySet
    <3> QED
      BY <3>2, CountedFinite
  <2>7. CountInv' /\ consumers' \in Nat
    <3>1. consumers <= Cardinality(Counted) /\ consumers \in Nat /\ Cardinality(Counted) \in Nat
      BY <1>0, CountedFinite DEF CountInv
    <3>2. consumers' <= Cardinality(Counted') /\ consumers' \in Nat
      BY <2>1, <2>5, <2>6, <3>1
    <3> QED
      BY <3>2 DEF CountInv
  <2>8. idle' \in BOOLEAN
    BY <1>0, <2>1
  <2> QED
    BY <1>0, <2>1, <2>2, <2>7, <2>8, ViewersKeep
<1> QED
  BY <1>1, <1>2, <1>3, <1>4

LEMMA WatchdogStepsKeep ==
    ASSUME UsbInv,
           SixtySeconds \/ RouteStops
             \/ \E g \in Generations : WatchdogLooks(g) \/ WatchdogStops(g)
    PROVE  UsbInv'
<1>0. /\ consumers \in Nat /\ CountInv /\ idle \in BOOLEAN
      /\ watcher \in [Watchers -> [at : {"away", "started", "counted", "watches"}, gen : 0..MaxGeneration]]
      /\ watchdog \in [Generations -> {"none", "sleeps", "decided", "ended"}]
      /\ photo \in {"none", "stop", "wait", "wait, switched", "stop again"}
  BY DEF UsbInv, UsbTypes
<1>1. CASE SixtySeconds
  <2>1. /\ UNCHANGED <<generation, streaming, device, open, frame, reader, stopping>>
        /\ watchdog' = watchdog /\ watcher' = watcher /\ consumers' = consumers
        /\ idle' = TRUE /\ photo' = photo
    BY <1>1 DEF SixtySeconds
  <2>2. CountInv' /\ consumers' \in Nat
    BY <1>0, <2>1, CountStays
  <2> QED
    BY <1>0, <2>1, <2>2, ViewersKeep
<1>2. ASSUME NEW g \in Generations, WatchdogLooks(g) PROVE UsbInv'
  <2>1. /\ UNCHANGED <<generation, streaming, device, open, frame, reader, stopping>>
        /\ \E w \in {"decided", "ended"} : watchdog' = [watchdog EXCEPT ![g] = w]
        /\ watcher' = watcher /\ consumers' = consumers
        /\ idle' = idle /\ photo' = photo
    BY <1>2 DEF WatchdogLooks
  <2>2. CountInv' /\ consumers' \in Nat
    BY <1>0, <2>1, CountStays
  <2>3. watchdog' \in [Generations -> {"none", "sleeps", "decided", "ended"}]
    BY <1>0, <2>1
  <2> QED
    BY <1>0, <2>1, <2>2, <2>3, ViewersKeep
<1>3. CASE RouteStops
  <2>1. /\ Cut("route") /\ UNCHANGED <<open, frame, reader, watcher, consumers, idle>>
        /\ watchdog' = watchdog /\ photo' = photo
    BY <1>3 DEF RouteStops
  <2> QED
    BY <1>0, <2>1, StopKeeps DEF PhotoCallers
<1>4. ASSUME NEW g \in Generations, WatchdogStops(g) PROVE UsbInv'
  <2>1. /\ Cut("watchdog") /\ UNCHANGED <<open, frame, reader, watcher, consumers, idle>>
        /\ watchdog' = [watchdog EXCEPT ![g] = "ended"] /\ photo' = photo
    BY <1>4 DEF WatchdogStops
  <2>2. watchdog' \in [Generations -> {"none", "sleeps", "decided", "ended"}]
    BY <1>0, <2>1
  <2> QED
    BY <1>0, <2>1, <2>2, StopKeeps DEF PhotoCallers
<1> QED
  BY <1>1, <1>2, <1>3, <1>4

LEMMA PhotoStepsKeep ==
    ASSUME UsbInv, PhotoNext
    PROVE  UsbInv'
<1>0. /\ consumers \in Nat /\ CountInv /\ idle \in BOOLEAN
      /\ watcher \in [Watchers -> [at : {"away", "started", "counted", "watches"}, gen : 0..MaxGeneration]]
      /\ watchdog \in [Generations -> {"none", "sleeps", "decided", "ended"}]
      /\ photo \in {"none", "stop", "wait", "wait, switched", "stop again"}
  BY DEF UsbInv, UsbTypes
<1>1. ASSUME UNCHANGED <<generation, streaming, device, open, frame, reader, stopping>>,
             watchdog' = watchdog, watcher' = watcher, consumers' = consumers,
             idle' \in BOOLEAN, photo' \in {"none", "stop", "wait", "wait, switched", "stop again"}
      PROVE  UsbInv'
  <2>1. CountInv' /\ consumers' \in Nat
    BY <1>0, <1>1, CountStays
  <2> QED
    BY <1>0, <1>1, <2>1, ViewersKeep
<1>2. ASSUME Starts, watcher' = watcher, stopping' = stopping,
             photo' \in {"none", "stop", "wait", "wait, switched", "stop again"}
      PROVE  UsbInv'
  BY <1>0, <1>2, BeginKeeps
<1>3. CASE PhotoAsIs
  <2>1. CASE Starts /\ photo' = "wait" /\ UNCHANGED <<watcher, stopping>>
    BY <1>2, <2>1
  <2>2. CASE Touched /\ photo' = "wait"
             /\ UNCHANGED <<generation, streaming, device, open, frame, reader, watchdog, consumers>>
             /\ UNCHANGED <<watcher, stopping>>
    <3>1. idle' \in BOOLEAN
      BY <1>0, <2>2 DEF Touched
    <3> QED
      BY <1>1, <2>2, <3>1
  <2> QED
    BY <1>3, <2>1, <2>2 DEF PhotoAsIs
<1>4. CASE PhotoStops \/ PhotoStopsAgain
  <2>1. /\ Cut("photo") /\ UNCHANGED <<open, frame, reader, watcher, consumers, idle>>
        /\ watchdog' = watchdog /\ photo' \in {"stop", "stop again"}
    BY <1>4 DEF PhotoStops, PhotoStopsAgain
  <2> QED
    BY <1>0, <2>1, StopKeeps DEF PhotoCallers
<1>5. CASE PhotoSwitches \/ PhotoSwitchesBack
  <2>1. /\ (Starts \/ StartFails) /\ watcher' = watcher /\ stopping' = stopping
        /\ photo' \in {"wait, switched", "none"}
    BY <1>5 DEF PhotoSwitches, PhotoSwitchesBack
  <2>2. CASE Starts
    BY <1>2, <2>1, <2>2
  <2>3. CASE StartFails
    BY <1>0, <1>1, <2>1, <2>3 DEF StartFails
  <2> QED
    BY <2>1, <2>2, <2>3
<1>6. CASE PhotoTaken
  BY <1>0, <1>1, <1>6 DEF PhotoTaken
<1> QED
  BY <1>3, <1>4, <1>5, <1>6 DEF PhotoNext

LEMMA UsbKeeps == UsbInv /\ (UsbNext \/ UNCHANGED usbVars) => UsbInv'
<1> SUFFICES ASSUME UsbInv, UsbNext \/ UNCHANGED usbVars PROVE UsbInv'
  OBVIOUS
<1>1. CASE UNCHANGED usbVars
  BY <1>1 DEF usbVars, UsbInv, UsbTypes, StreamInv, DevicesAreFreed, CountInv, Counted
<1>2. CASE UsbNext
  BY <1>2, ReaderStepsKeep, CloseKeeps, WatcherStepsKeep, WatchdogStepsKeep, PhotoStepsKeep DEF UsbNext
<1> QED
  BY <1>1, <1>2

\* A step of a thread that reads: what it writes is of the stream that runs, or
\* is the last thing it does.
LEMMA ReaderShows ==
    ASSUME UsbInv, NEW g \in Generations, ReaderTakes(g) \/ ReaderWrites(g), streaming'
    PROVE  \/ UNCHANGED <<generation, frame>> /\ streaming
           \/ frame' = generation'
           \/ Outlived(frame') /\ reader'[frame'] = "ended"
<1>1. generation' = generation /\ streaming
  BY DEF ReaderTakes, ReaderWrites
<1>2. CASE ReaderTakes(g)
  BY <1>1, <1>2 DEF ReaderTakes
<1>3. CASE ReaderWrites(g)
  <2>1. frame' = g /\ reader[g] = "converts"
    BY <1>3 DEF ReaderWrites
  <2>2. CASE g \in open
    BY <1>1, <2>1, <2>2 DEF UsbInv, StreamInv
  <2>3. CASE g \notin open
    <3>1. reader \in [Generations -> {"none", "waits", "converts", "ended"}]
      BY DEF UsbInv, UsbTypes
    <3>2. reader'[g] = "ended"
      BY <1>3, <2>3, <3>1 DEF ReaderWrites
    <3> QED
      BY <2>1, <2>3, <3>2 DEF Outlived
  <2> QED
    BY <2>2, <2>3
<1> QED
  BY <1>2, <1>3

\* Everybody else leaves the frame of a running stream, or clears it.
LEMMA OthersShow ==
    ASSUME UsbNext, streaming', ~\E g \in Generations : ReaderTakes(g) \/ ReaderWrites(g)
    PROVE  (UNCHANGED <<generation, frame>> /\ streaming) \/ frame' = NoThread
<1>1. CASE \E g \in Generations : WatchdogLooks(g) \/ WatchdogStops(g)
  BY <1>1 DEF WatchdogLooks, WatchdogStops, Cut
<1>2. CASE \E c \in PhotoCallers : Close(c)
  BY <1>2 DEF Close
<1>3. CASE \E v \in Watchers : WatcherStarts(v) \/ WatcherCounts(v) \/ WatcherWatches(v) \/ WatcherLeaves(v)
  BY <1>3 DEF WatcherStarts, WatcherCounts, WatcherWatches, WatcherLeaves, Starts, StartFails
<1>4. CASE RouteStops \/ SixtySeconds
  BY <1>4 DEF RouteStops, SixtySeconds, Cut
<1>5. CASE PhotoNext
  BY <1>5 DEF PhotoNext, PhotoAsIs, PhotoStops, PhotoSwitches, PhotoTaken, PhotoStopsAgain, PhotoSwitchesBack,
             Starts, StartFails, Cut
<1> QED
  BY <1>1, <1>2, <1>3, <1>4, <1>5 DEF UsbNext

LEMMA UsbShows ==
    UsbInv /\ (UsbNext \/ UNCHANGED usbVars) =>
        [streaming' /\ frame' \notin {NoThread, generation'} =>
            \/ streaming /\ UNCHANGED <<generation, frame>>
            \/ Outlived(frame') /\ reader'[frame'] = "ended"]_usbVars
<1> SUFFICES ASSUME UsbInv, UsbNext, streaming', frame' \notin {NoThread, generation'}
             PROVE  \/ streaming /\ UNCHANGED <<generation, frame>>
                    \/ Outlived(frame') /\ reader'[frame'] = "ended"
  OBVIOUS
<1>1. CASE \E g \in Generations : ReaderTakes(g) \/ ReaderWrites(g)
  BY <1>1, ReaderShows
<1>2. CASE ~\E g \in Generations : ReaderTakes(g) \/ ReaderWrites(g)
  BY <1>2, OthersShow
<1> QED
  BY <1>1, <1>2

-----------------------------------------------------------------------------
(* The display                                                             *)

(* What the display needs to keep its claim: while a request is checked the    *)
(* driver is the saved model's, from the moment it is installed it is the one  *)
(* asked for, and the way back leads to the saved one.  The last conjuncts     *)
(* bound the drivers built and the tries.                                      *)
WorkerInv ==
    /\ worker \in {"holding", "gate", "entering", "trying", "calling"} => held \in Screens
    /\ worker = "calling" => attempts < MaxTries

SwapInv ==
    /\ pinOwner \in {Unclaimed, driver.model}
    /\ swap = NoSwap => driver.model = savedModel
    /\ swap.at = "checking" => driver.model = savedModel /\ ~swap.back /\ built + 2 <= MaxDrivers
    /\ swap.at = "waiting" => IF swap.back THEN swap.to = savedModel /\ built + 1 <= MaxDrivers
                                           ELSE built + 2 <= MaxDrivers
    /\ swap.at \in {"installed", "starting"} =>
          /\ driver.model = swap.to
          /\ IF swap.back THEN swap.to = savedModel ELSE built + 1 <= MaxDrivers
    /\ swap.at = "failed" => ~swap.back /\ built + 1 <= MaxDrivers

DispInv == DisplayTypeOK /\ WorkerInv /\ SwapInv

\* The type invariant in parts: the worker's, the panel's, the request's.
WorkerTyped ==
    /\ pendingFrame \in Frames \cup {NoFrame} /\ held \in Screens \cup {NoPage}
    /\ woken \in BOOLEAN /\ stopFlag \in BOOLEAN /\ paused \in BOOLEAN
    /\ displayOn \in BOOLEAN /\ cooling \in BOOLEAN
PanelTyped ==
    /\ worker \in {"dead", "waiting", "holding", "gate", "entering", "trying", "calling"}
    /\ holdLeft \in 0..HoldTime /\ attempts \in 0..MaxTries
    /\ driver \in Drivers /\ startedDrivers \subseteq Drivers
    /\ pinOwner \in Models \cup {Unclaimed} /\ savedModel \in Models
RequestTyped ==
    /\ onPanel \in Screens \cup {Blank}
    /\ workerCall \in Calls \cup {NoMethod} /\ swapCall \in Calls \cup {NoMethod}
    /\ strayCalls \subseteq Calls
    /\ setter \in {"none", "joining"} /\ built \in 0..MaxDrivers
    /\ swap = NoSwap \/ swap \in [at : {"checking", "waiting", "installed", "starting", "failed"},
                                  to : Models, back : BOOLEAN]

LEMMA DisplayHolds == DispInv => DisplayTypeOK /\ ClaimFollowsDriver
  BY DEF DispInv, SwapInv, ClaimFollowsDriver

LEMMA DisplayStart == DisplayInit => DispInv
<1> SUFFICES ASSUME DisplayInit PROVE DispInv
  OBVIOUS
<1> USE DisplayAssumption
<1>1. DisplayTypeOK
  <2>1. driver \in Drivers /\ driver = [model |-> FirstModel, nr |-> 0]
    BY DEF DisplayInit, Drivers
  <2>2. (worker = "calling") = (workerCall # NoMethod)
    BY DEF DisplayInit
  <2>3. worker \in {"dead", "waiting"} /\ holdLeft \in 0..HoldTime /\ attempts \in 0..MaxTries /\ built \in 0..MaxDrivers
    BY DEF DisplayInit
  <2>4. savedModel \in Models /\ pinOwner = Unclaimed /\ setter = "none"
    BY DEF DisplayInit
  <2> QED
    BY <2>1, <2>2, <2>3, <2>4 DEF DisplayInit, DisplayTypeOK
<1>2. WorkerInv /\ SwapInv
  BY DEF DisplayInit, WorkerInv, SwapInv, NoSwap, Unclaimed
<1> QED
  BY <1>1, <1>2 DEF DispInv

\* A frame is marked, by a poll or by a route.
LEMMA MarkKeeps ==
    ASSUME DispInv, NEW p \in Screens, NEW c \in BOOLEAN, MarkDirty(p, c)
    PROVE  DispInv'
<1>1. /\ pendingFrame' = [page |-> p, critical |-> c \/ pendingFrame.critical]
      /\ woken' = TRUE
      /\ UNCHANGED <<workVars, stopFlag, paused, driverVars, onPanel, cooling, callVars, routeVars>>
  BY DEF MarkDirty
<1>2. pendingFrame' \in Frames
  <2>1. pendingFrame.critical \in BOOLEAN
    <3>1. pendingFrame \in Frames \/ pendingFrame = NoFrame
      BY DEF DispInv, DisplayTypeOK
    <3>2. NoFrame.critical \in BOOLEAN /\ \A f \in Frames : f.critical \in BOOLEAN
      BY DEF NoFrame, Frames
    <3> QED
      BY <3>1, <3>2
  <2> QED
    BY <1>1, <2>1 DEF Frames
<1>3. DisplayTypeOK'
  BY <1>1, <1>2 DEF DispInv, DisplayTypeOK, workVars, driverVars, callVars, routeVars
<1> QED
  BY <1>1, <1>3 DEF DispInv, WorkerInv, SwapInv, workVars, driverVars, callVars, routeVars

\* Up to the call of the driver the worker touches its own variables only.
LEMMA WaitingKeeps ==
    ASSUME DispInv, WorkerWakes \/ HoldNewer \/ HoldEnds \/ HoldTick \/ WorkerPasses \/ WorkerStops \/ Refresh
    PROVE  DispInv'
<1> USE DisplayAssumption
<1>0. UNCHANGED workerKeeps
  BY DEF WorkerWakes, HoldNewer, HoldEnds, HoldTick, WorkerPasses, WorkerStops, Refresh
<1>1. /\ pendingFrame' \in Frames \cup {NoFrame} /\ held' \in Screens \cup {NoPage}
      /\ woken' \in BOOLEAN
      /\ worker' \in {"dead", "waiting", "holding", "gate", "entering", "trying", "calling"}
      /\ holdLeft' \in 0..HoldTime /\ attempts' \in 0..MaxTries
  <2>0. /\ pendingFrame \in Frames \cup {NoFrame} /\ held \in Screens \cup {NoPage}
        /\ woken \in BOOLEAN
        /\ worker \in {"dead", "waiting", "holding", "gate", "entering", "trying", "calling"}
        /\ holdLeft \in 0..HoldTime /\ attempts \in 0..MaxTries
    BY DEF DispInv, DisplayTypeOK
  <2>1. CASE WorkerWakes \/ HoldNewer
    <3>1. pendingFrame' = NoFrame /\ woken' = FALSE /\ worker \in {"waiting", "holding"}
      BY <2>1 DEF WorkerWakes, HoldNewer, Takes
    <3>2. CASE pendingFrame = NoFrame
      BY <2>0, <2>1, <3>1, <3>2 DEF WorkerWakes, HoldNewer, workVars
    <3>3. CASE pendingFrame # NoFrame
      <4>1. /\ held' = pendingFrame.page /\ worker' \in {"gate", "holding"} /\ attempts' = attempts
            /\ holdLeft' \in {0, HoldTime, holdLeft}
        BY <2>1, <3>3 DEF WorkerWakes, HoldNewer
      <4>2. holdLeft' \in 0..HoldTime
        BY <2>0, <4>1
      <4>3. worker' \in {"dead", "waiting", "holding", "gate", "entering", "trying", "calling"}
        BY <4>1
      <4>4. pendingFrame.page \in Screens
        BY <2>0, <3>3 DEF Frames
      <4> QED
        BY ONLY <2>0, <3>1, <4>1, <4>2, <4>3, <4>4
    <3> QED
      BY <3>2, <3>3
  <2>2. CASE HoldEnds \/ HoldTick \/ WorkerPasses
    BY <2>0, <2>2 DEF HoldEnds, HoldTick, WorkerPasses
  <2>3. CASE WorkerStops \/ Refresh
    BY <2>0, <2>3 DEF WorkerStops, Refresh
  <2> QED
    BY <2>1, <2>2, <2>3
<1>2. (worker' = "calling") = (workerCall' # NoMethod)
  <2>1. workerCall' = workerCall
    BY <1>0 DEF workerKeeps, callVars
  <2>2. (worker' = "calling") = (worker = "calling")
    BY DEF WorkerWakes, HoldNewer, HoldEnds, HoldTick, WorkerPasses, WorkerStops, Refresh, workVars
  <2> QED
    BY <2>1, <2>2 DEF DispInv, DisplayTypeOK
<1>3. DisplayTypeOK'
  BY <1>0, <1>1, <1>2 DEF DispInv, DisplayTypeOK, workerKeeps, driverVars, callVars, routeVars
<1>4. WorkerInv'
  <2>1. pendingFrame # NoFrame => pendingFrame.page \in Screens
    BY DEF DispInv, DisplayTypeOK, Frames
  <2> QED
    BY <2>1 DEF DispInv, DisplayTypeOK, WorkerInv, WorkerWakes, HoldNewer, HoldEnds, HoldTick, WorkerPasses,
                WorkerStops, Refresh, Takes, workVars
<1>5. SwapInv'
  BY <1>0 DEF DispInv, SwapInv, workerKeeps, driverVars, routeVars
<1> QED
  BY <1>3, <1>4, <1>5 DEF DispInv

LEMMA StopKeepsClaim ==
    ASSUME DispInv, Stop(driver)
    PROVE  /\ startedDrivers' \subseteq Drivers
           /\ pinOwner' = Unclaimed
  BY DEF DispInv, DisplayTypeOK, SwapInv, Stop

\* The calls of the driver.
LEMMA CallingKeeps ==
    ASSUME DispInv, WorkerCalls \/ CallReturns \/ CallRaises \/ CallTimesOut \/ GivesUp
    PROVE  DispInv'
<1> USE DisplayAssumption
<1>0. /\ driver \in Drivers /\ driver.model \in Models
      /\ workerCall \in Calls \cup {NoMethod} /\ held \in Screens \cup {NoPage}
      /\ (worker = "calling") = (workerCall # NoMethod)
      /\ attempts \in 0..MaxTries
      /\ WorkerInv /\ SwapInv
  BY DEF DispInv, DisplayTypeOK, Drivers
<1>1. CASE WorkerCalls
  <2>1. /\ workerCall' \in Calls \cup {NoMethod} /\ pinOwner' \in Models \cup {Unclaimed}
        /\ pinOwner' \in {Unclaimed, driver.model}
        /\ worker' \in {"trying", "calling"} /\ (worker' = "calling") = (workerCall' # NoMethod)
        /\ attempts' \in 0..MaxTries /\ (worker' = "calling" => attempts' < MaxTries)
    <3>0. attempts < MaxTries /\ worker = "trying" /\ workerCall = NoMethod
      BY <1>0, <1>1 DEF WorkerCalls
    <3>1. CASE driver \in startedDrivers
      BY <1>0, <1>1, <3>0, <3>1 DEF WorkerCalls, Calls, NoMethod, SwapInv, DispInv, DisplayTypeOK
    <3>2. CASE driver \notin startedDrivers /\ MayClaim(driver)
      BY <1>0, <1>1, <3>0, <3>2 DEF WorkerCalls, Calls, NoMethod
    <3>3. CASE driver \notin startedDrivers /\ ~MayClaim(driver)
      BY <1>0, <1>1, <3>0, <3>3 DEF WorkerCalls, SwapInv, DispInv, DisplayTypeOK
    <3> QED
      BY <3>1, <3>2, <3>3
  <2>2. held \in Screens
    BY <1>0, <1>1 DEF WorkerCalls, WorkerInv
  <2> QED
    BY <1>1, <2>1, <2>2 DEF WorkerCalls, DispInv, DisplayTypeOK, WorkerInv, SwapInv, routeVars
<1>2. CASE CallReturns
  <2>1. worker = "calling" /\ workerCall \in Calls /\ held \in Screens
    BY <1>0, <1>2 DEF CallReturns, WorkerInv
  <2>2. workerCall.on \in Drivers /\ held \in Screens
    BY <2>1 DEF Calls, Frames
  <2>3. /\ startedDrivers' \subseteq Drivers /\ onPanel' \in Screens \cup {Blank}
        /\ worker' \in {"trying", "waiting"} /\ workerCall' = NoMethod
        /\ held' \in Screens \cup {NoPage} /\ (worker' = "trying" => held' \in Screens)
    BY <1>2, <2>1, <2>2 DEF CallReturns, DispInv, DisplayTypeOK
  <2> QED
    BY <1>2, <2>3 DEF CallReturns, DispInv, DisplayTypeOK, WorkerInv, SwapInv, routeVars
<1>3. CASE CallRaises
  <2>1. attempts' \in 0..MaxTries /\ held \in Screens /\ held' = held /\ worker' = "trying" /\ workerCall' = NoMethod
    BY <1>0, <1>3 DEF CallRaises, WorkerInv
  <2> QED
    BY <1>3, <2>1 DEF CallRaises, DispInv, DisplayTypeOK, WorkerInv, SwapInv, driverVars, routeVars
<1>4. CASE CallTimesOut
  <2>1. /\ attempts' \in 0..MaxTries /\ held \in Screens /\ held' = held /\ worker' = "trying"
        /\ workerCall' = NoMethod /\ workerCall \in Calls
    BY <1>0, <1>4 DEF CallTimesOut, WorkerInv
  <2>2. strayCalls' \subseteq Calls
    BY <1>4, <2>1 DEF CallTimesOut, DispInv, DisplayTypeOK
  <2>3. /\ startedDrivers' \subseteq Drivers /\ pinOwner' \in {Unclaimed, driver.model}
    BY <1>0, <1>4, StopKeepsClaim DEF CallTimesOut, DispInv, DisplayTypeOK, SwapInv
  <2>4. pinOwner' \in Models \cup {Unclaimed}
    BY <1>0, <2>3
  <2> QED
    BY <1>4, <2>1, <2>2, <2>3, <2>4 DEF CallTimesOut, DispInv, DisplayTypeOK, WorkerInv, SwapInv, routeVars
<1>5. CASE GivesUp
  BY <1>0, <1>5 DEF GivesUp, DispInv, DisplayTypeOK, WorkerInv, SwapInv, driverVars, callVars, routeVars
<1> QED
  BY <1>1, <1>2, <1>3, <1>4, <1>5

\* An abandoned call ends, the cooldown ends, and the settings route.
LEMMA SettingsKeep ==
    ASSUME DispInv, CooldownEnds \/ (\E c \in strayCalls : StrayEnds(c)) \/ Enable \/ Disable \/ Joined
    PROVE  DispInv'
<1> USE DisplayAssumption
<1>1. CASE CooldownEnds
  <2>1. (worker' = "calling") = (workerCall' # NoMethod)
    BY <1>1 DEF CooldownEnds, workVars, callVars, DispInv, DisplayTypeOK
  <2> QED
    <3>0. /\ cooling' = FALSE
          /\ UNCHANGED <<pendingFrame, woken, workVars, stopFlag, paused, driverVars, onPanel, callVars, routeVars>>
      BY <1>1 DEF CooldownEnds
    <3>5. WorkerTyped'
      BY <3>0 DEF DispInv, DisplayTypeOK, WorkerTyped, workVars, routeVars
    <3>6. PanelTyped'
      BY <3>0 DEF DispInv, DisplayTypeOK, PanelTyped, workVars, driverVars, routeVars
    <3>7. RequestTyped'
      BY <3>0 DEF DispInv, DisplayTypeOK, RequestTyped, callVars, routeVars
    <3>2. DisplayTypeOK'
      BY <2>1, <3>5, <3>6, <3>7, Zenon DEF DisplayTypeOK, WorkerTyped, PanelTyped, RequestTyped
    <3> QED
      BY <1>1, <3>2 DEF CooldownEnds, DispInv, WorkerInv, SwapInv, workVars, driverVars, routeVars
<1>2. ASSUME NEW c \in strayCalls, StrayEnds(c) PROVE DispInv'
  <2>1. c \in Calls /\ c.on \in Drivers
    BY DEF DispInv, DisplayTypeOK, Calls
  <2>2. strayCalls' \subseteq Calls /\ startedDrivers' \subseteq Drivers
    BY <1>2, <2>1 DEF StrayEnds, DispInv, DisplayTypeOK
  <2> QED
    BY <1>2, <2>2 DEF StrayEnds, DispInv, DisplayTypeOK, WorkerInv, SwapInv, workVars, routeVars
<1>3. CASE Enable
  <2>1. /\ (worker' = "calling") = (workerCall' # NoMethod)
        /\ worker' \in {worker, "waiting"} /\ stopFlag' \in BOOLEAN
        /\ held' = held /\ attempts' = attempts
    BY <1>3 DEF Enable, callVars, DispInv, DisplayTypeOK
  <2>2. DisplayTypeOK'
    BY <1>3, <2>1 DEF Enable, DispInv, DisplayTypeOK, driverVars, callVars
  <2>3. WorkerInv'
    BY <2>1 DEF DispInv, WorkerInv
  <2> QED
    BY <1>3, <2>2, <2>3 DEF Enable, DispInv, SwapInv, driverVars
<1>4. CASE Disable
  <2>1. (worker' = "calling") = (workerCall' # NoMethod)
    BY <1>4 DEF Disable, workVars, callVars, DispInv, DisplayTypeOK
  <2> QED
    <3>0. /\ displayOn' = FALSE /\ stopFlag' = TRUE /\ woken' = TRUE /\ setter' = "joining"
          /\ UNCHANGED <<pendingFrame, workVars, paused, driverVars, onPanel, cooling, callVars, savedModel, swap, built>>
      BY <1>4 DEF Disable
    <3>5. WorkerTyped'
      BY <3>0 DEF DispInv, DisplayTypeOK, WorkerTyped, workVars
    <3>6. PanelTyped'
      BY <3>0 DEF DispInv, DisplayTypeOK, PanelTyped, workVars, driverVars
    <3>7. RequestTyped'
      BY <3>0 DEF DispInv, DisplayTypeOK, RequestTyped, callVars
    <3>2. DisplayTypeOK'
      BY <2>1, <3>5, <3>6, <3>7, Zenon DEF DisplayTypeOK, WorkerTyped, PanelTyped, RequestTyped
    <3> QED
      BY <1>4, <3>2 DEF Disable, DispInv, WorkerInv, SwapInv, workVars, driverVars, routeVars
<1>5. CASE Joined
  <2>1. startedDrivers' \subseteq Drivers /\ pinOwner' = Unclaimed
    BY <1>5, StopKeepsClaim DEF Joined
  <2> QED
    BY <1>5, <2>1 DEF Joined, DispInv, DisplayTypeOK, WorkerInv, SwapInv, workVars, callVars
<1> QED
  BY <1>1, <1>2, <1>3, <1>4, <1>5

SwapRequests == [at : {"checking", "waiting", "installed", "starting", "failed"}, to : Models, back : BOOLEAN]

\* The re-init route, up to the pause.
LEMMA ReinitKeeps ==
    ASSUME DispInv, (\E m \in Models : ReinitReleases(m)) \/ ReinitConflicts \/ SwapPauses
    PROVE  DispInv'
<1> USE DisplayAssumption
<1>0. /\ driver.model \in Models /\ savedModel \in Models /\ built \in 0..MaxDrivers /\ SwapInv
      /\ swap = NoSwap \/ swap \in SwapRequests
  BY DEF DispInv, DisplayTypeOK, Drivers, SwapRequests
<1>1. ASSUME NEW m \in Models, ReinitReleases(m) PROVE DispInv'
  <2>1. /\ swap' = [at |-> "checking", to |-> m, back |-> FALSE] /\ swap' \in SwapRequests
        /\ pinOwner' \in {Unclaimed, pinOwner} /\ driver.model = savedModel
    BY <1>0, <1>1 DEF ReinitReleases, SwapRequests, SwapInv
  <2> QED
    BY <1>1, <2>1 DEF ReinitReleases, swapKeeps, DispInv, DisplayTypeOK, WorkerInv, SwapInv, SwapRequests, workVars, NoSwap
<1>2. CASE ReinitConflicts
  <2>1. /\ swap' = NoSwap /\ driver.model = savedModel /\ pinOwner' \in {Unclaimed, driver.model}
    BY <1>0, <1>2 DEF ReinitConflicts, SwapInv
  <2> QED
    BY <1>2, <2>1, <1>0 DEF ReinitConflicts, swapKeeps, DispInv, DisplayTypeOK, WorkerInv, SwapInv, workVars, NoSwap
<1>3. CASE SwapPauses
  <2>1. swap \in SwapRequests /\ swap.at \in {"checking", "failed"}
    BY <1>0, <1>3 DEF SwapPauses, NoSwap
  <2>2. /\ swap' \in SwapRequests /\ swap'.at = "waiting"
        /\ swap.at = "failed" => swap'.back /\ swap'.to = savedModel
        /\ swap.at = "checking" => swap'.back = swap.back
    BY <1>0, <1>3, <2>1 DEF SwapPauses, SwapRequests
  <2>3. SwapInv'
    <3>0. /\ pinOwner' = pinOwner /\ driver' = driver /\ savedModel' = savedModel /\ built' = built /\ swap' # NoSwap
      BY <1>3, <2>2 DEF SwapPauses, NoSwap, driverVars
    <3>1. CASE swap.at = "failed"
      BY <3>0, <3>1, <2>2, <1>0 DEF SwapInv
    <3>2. CASE swap.at = "checking"
      BY <3>0, <3>2, <2>2, <1>0 DEF SwapInv
    <3> QED
      BY <2>1, <3>1, <3>2
  <2> QED
    BY <1>3, <2>2, <2>3 DEF SwapPauses, swapKeeps, DispInv, DisplayTypeOK, WorkerInv, SwapRequests, workVars, driverVars
<1> QED
  BY <1>1, <1>2, <1>3

\* The swap itself.
LEMMA SwapKeeps ==
    ASSUME DispInv, SwapInstalls \/ SwapStarts \/ SwapSucceeds \/ SwapFails
    PROVE  DispInv'
<1> USE DisplayAssumption
<1>0. /\ driver \in Drivers /\ driver.model \in Models /\ savedModel \in Models /\ built \in 0..MaxDrivers /\ SwapInv
      /\ swapCall \in Calls \cup {NoMethod} /\ strayCalls \subseteq Calls
      /\ startedDrivers \subseteq Drivers /\ pinOwner \in Models \cup {Unclaimed}
  BY DEF DispInv, DisplayTypeOK, Drivers
<1>1. swap \in SwapRequests
  BY DEF SwapInstalls, SwapStarts, SwapSucceeds, SwapFails, NoSwap, DispInv, DisplayTypeOK, SwapRequests
<1>2. swap.to \in Models /\ swap.back \in BOOLEAN /\ swap.at \in {"waiting", "installed", "starting"}
  BY <1>1 DEF SwapInstalls, SwapStarts, SwapSucceeds, SwapFails, SwapRequests
<1>3. CASE SwapInstalls
  <2>1. /\ swap' \in SwapRequests /\ swap'.at = "installed" /\ swap'.to = swap.to /\ swap'.back = swap.back
    BY <1>1, <1>3 DEF SwapInstalls, SwapRequests
  <2>2. startedDrivers' \subseteq Drivers /\ pinOwner' = Unclaimed
    BY <1>3, StopKeepsClaim DEF SwapInstalls
  <2>3. built + 1 \in 0..MaxDrivers
    BY <1>0, <1>2, <1>3 DEF SwapInstalls, SwapInv
  <2>4. driver' \in Drivers /\ driver'.model = swap.to
    BY <1>2, <1>3, <2>3 DEF SwapInstalls, Drivers
  <2>5. SwapInv'
    <3>1. swap' # NoSwap
      BY <2>1 DEF NoSwap
    <3>2. savedModel' = savedModel /\ built' = built + 1 /\ swap.at = "waiting"
      BY <1>3 DEF SwapInstalls
    <3> QED
      BY <1>0, <1>2, <2>1, <2>2, <2>4, <3>1, <3>2 DEF SwapInv
  <2>6. DisplayTypeOK'
    BY <1>3, <2>1, <2>2, <2>3, <2>4 DEF SwapInstalls, swapKeeps, DispInv, DisplayTypeOK, SwapRequests, workVars
  <2> QED
    BY <1>3, <2>5, <2>6 DEF SwapInstalls, swapKeeps, DispInv, WorkerInv, workVars
<1>4. CASE SwapStarts
  <2>1. /\ swap' \in SwapRequests /\ swap'.at = "starting" /\ swap'.to = swap.to /\ swap'.back = swap.back
    BY <1>1, <1>4 DEF SwapStarts, SwapRequests
  <2>2. swapCall' \in Calls /\ pinOwner' = driver.model
    BY <1>0, <1>4 DEF SwapStarts, Calls
  <2>5. SwapInv'
    <3>1. swap' # NoSwap
      BY <2>1 DEF NoSwap
    <3>2. savedModel' = savedModel /\ built' = built /\ driver' = driver /\ swap.at = "installed"
      BY <1>4 DEF SwapStarts
    <3> QED
      BY <1>0, <1>2, <2>1, <2>2, <3>1, <3>2 DEF SwapInv
  <2>6. DisplayTypeOK'
    BY <1>0, <1>4, <2>1, <2>2 DEF SwapStarts, swapKeeps, DispInv, DisplayTypeOK, SwapRequests, workVars
  <2> QED
    BY <1>4, <2>5, <2>6 DEF SwapStarts, swapKeeps, DispInv, WorkerInv, workVars
<1>5. CASE SwapSucceeds
  <2>1. driver.model = swap.to /\ swap' = NoSwap
    BY <1>0, <1>5 DEF SwapSucceeds, SwapInv
  <2>2. startedDrivers' \subseteq Drivers
    BY <1>0, <1>5 DEF SwapSucceeds
  <2>5. SwapInv'
    BY <1>0, <1>5, <2>1 DEF SwapSucceeds, SwapInv, NoSwap
  <2>6. DisplayTypeOK'
    <3>1. DisplayTypeOK
      BY DEF DispInv
    <3>2. savedModel' \in Models
      BY <1>0, <1>5, <2>1, <3>1 DEF SwapSucceeds, DisplayTypeOK, Drivers
    <3>3. /\ swapCall' = NoMethod /\ paused' = FALSE /\ woken' = TRUE /\ swap' = NoSwap
          /\ UNCHANGED <<pendingFrame, worker, held, holdLeft, attempts, stopFlag, cooling,
                        workerCall, displayOn, setter, driver, pinOwner, onPanel, strayCalls, built>>
      BY <1>5 DEF SwapSucceeds, swapKeeps, workVars
    <3> QED
      BY ONLY <2>2, <3>1, <3>2, <3>3, ZenonT(60) DEF DisplayTypeOK
  <2> QED
    BY <1>5, <2>5, <2>6 DEF SwapSucceeds, swapKeeps, DispInv, WorkerInv, workVars
<1>6. CASE SwapFails
  <2>1. swap.at \in {"installed", "starting"} /\ driver.model = swap.to
    BY <1>0, <1>6 DEF SwapFails, SwapInv
  <2>2. strayCalls' \subseteq Calls
    BY <1>0, <1>6 DEF SwapFails
  <2>3. \/ swap.back /\ swap' = NoSwap
        \/ ~swap.back /\ swap' \in SwapRequests /\ swap'.at = "failed" /\ ~swap'.back
    BY <1>1, <1>6 DEF SwapFails, SwapRequests
  <2>5. SwapInv'
    <3>1. savedModel' = savedModel /\ built' = built /\ driver' = driver /\ pinOwner' = pinOwner
      BY <1>6 DEF SwapFails, driverVars
    <3> QED
      BY <1>0, <2>1, <2>3, <3>1 DEF SwapInv, NoSwap
  <2>4. /\ (worker' = "calling") = (workerCall' # NoMethod)
        /\ swap' = NoSwap \/ swap' \in SwapRequests
        /\ swapCall' = NoMethod /\ paused' = FALSE /\ woken' = TRUE
    BY <1>6, <2>3 DEF SwapFails, swapKeeps, workVars, DispInv, DisplayTypeOK
  <2>6. DisplayTypeOK'
    <3>0. woken' = TRUE /\ paused' = FALSE /\ swapCall' = NoMethod /\ strayCalls' \subseteq Calls
      BY <2>2, <2>4
    <3>1. swap' = NoSwap \/ swap' \in [at : {"checking", "waiting", "installed", "starting", "failed"},
                                       to : Models, back : BOOLEAN]
      BY <2>4 DEF SwapRequests
    <3>2. UNCHANGED <<pendingFrame, held, stopFlag, displayOn, cooling, worker, holdLeft, attempts, driver, startedDrivers,
                      pinOwner, savedModel, onPanel, workerCall, setter, built>>
      BY <1>6 DEF SwapFails, swapKeeps, workVars, driverVars
    <3>5. WorkerTyped'
      BY <3>0, <3>2 DEF DispInv, DisplayTypeOK, WorkerTyped
    <3>6. PanelTyped'
      BY <3>2 DEF DispInv, DisplayTypeOK, PanelTyped
    <3>7. RequestTyped'
      BY <3>0, <3>1, <3>2 DEF DispInv, DisplayTypeOK, RequestTyped
    <3> QED
      BY <2>4, <3>5, <3>6, <3>7, Zenon DEF DisplayTypeOK, WorkerTyped, PanelTyped, RequestTyped
  <2> QED
    BY <1>6, <2>5, <2>6 DEF SwapFails, swapKeeps, DispInv, WorkerInv, workVars
<1> QED
  BY <1>3, <1>4, <1>5, <1>6

LEMMA DisplayKeeps ==
    ASSUME DispInv, DisplayNext \/ UNCHANGED displayVars
    PROVE  DispInv'
<1>1. ASSUME NEW p \in Screens, Shows(p) PROVE DispInv'
  BY <1>1, MarkKeeps DEF Shows
<1>2. ASSUME NEW p \in Screens, NEW c \in BOOLEAN, Poll(p, c) PROVE DispInv'
  BY <1>2, MarkKeeps DEF Poll
<1>3. CASE UNCHANGED displayVars
  BY <1>3 DEF displayVars, DispInv, DisplayTypeOK, WorkerInv, SwapInv, workVars, driverVars, callVars, routeVars
<1> QED
  BY <1>1, <1>2, <1>3, WaitingKeeps, CallingKeeps, SettingsKeep, ReinitKeeps, SwapKeeps
     DEF DisplayNext, WorkerStep, SwapStep
=============================================================================
