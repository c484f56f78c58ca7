----------------------------- MODULE UsbCamera -----------------------------
(***************************************************************************)
(* camera/usb_driver.py: a device that only one format context may stream  *)
(* from, a thread that reads it, a watchdog that stops it when nobody      *)
(* watches, viewers (generators of /video_feed), and photos, for which the *)
(* stream is stopped and started again at another size.                    *)
(*                                                                         *)
(* Every start and every stop advances the generation; threads and viewers *)
(* of an older one end when they notice.  A thread, a device and a frame   *)
(* are named by the generation they were started in.  Sixty idle seconds   *)
(* are a flag that any state without viewers may set.                      *)
(***************************************************************************)
EXTENDS Naturals, FiniteSets

CONSTANTS
    Watchers,      \* clients of /video_feed
    MaxGeneration  \* bound on _stream_generation

ASSUME UsbAssumption == MaxGeneration \in Nat \ {0} /\ IsFiniteSet(Watchers)

VARIABLES
    generation, streaming,  \* _stream_generation, _started
    device,      \* the generation of _device, 0 for none
    open,        \* the devices that are open
    frame,       \* _last_frame
    reader, watchdog, \* the threads of every generation
    watcher,     \* per client: how far its stream_mjpeg is, and its generation
    consumers, idle,  \* _active_consumers, and whether the last activity is 60 s ago
    stopping,    \* per caller of stop(): the device it has yet to close, 0 for none
    photo        \* how far capture_photo is

usbVars == <<generation, streaming, device, open, frame, reader, watchdog, watcher, consumers, idle, stopping, photo>>

Generations == 1..MaxGeneration
NoThread == 0
PhotoCallers == {"route", "watchdog", "photo"}
Away == [at |-> "away", gen |-> NoThread]

UsbTypeOK ==
    /\ generation \in 0..MaxGeneration /\ streaming \in BOOLEAN
    /\ device \in 0..MaxGeneration /\ open \subseteq Generations /\ frame \in 0..MaxGeneration
    /\ reader \in [Generations -> {"none", "waits", "converts", "ended"}]
    /\ watchdog \in [Generations -> {"none", "sleeps", "decided", "ended"}]
    /\ watcher \in [Watchers -> [at : {"away", "started", "counted", "watches"}, gen : 0..MaxGeneration]]
    /\ consumers \in 0..Cardinality(Watchers) /\ idle \in BOOLEAN
    /\ stopping \in [PhotoCallers -> 0..MaxGeneration]
    /\ photo \in {"none", "stop", "wait", "wait, switched", "stop again"}

UsbInit ==
    /\ generation = 0 /\ streaming = FALSE /\ device = NoThread /\ open = {} /\ frame = NoThread
    /\ reader = [g \in Generations |-> "none"] /\ watchdog = [g \in Generations |-> "none"]
    /\ watcher = [v \in Watchers |-> Away]
    /\ consumers = 0 /\ idle = FALSE
    /\ stopping = [c \in PhotoCallers |-> NoThread]
    /\ photo = "none"

\* capture_photo holds _lock from its stop to its start.
Unlocked == photo \notin {"stop", "stop again"}

\* Fault: the frame of the stream before is not cleared.
StartsWithFrame ==
    /\ open = {} /\ generation < MaxGeneration
    /\ LET g == generation + 1 IN
          /\ generation' = g /\ device' = g /\ open' = {g}
          /\ reader' = [reader EXCEPT ![g] = "waits"]
          /\ watchdog' = [watchdog EXCEPT ![g] = "sleeps"]
    /\ streaming' = TRUE /\ frame' = frame
    /\ consumers' = 0 /\ idle' = FALSE

\* start(): a second context fails with EBUSY while another device is open.
Starts ==
    /\ open = {} /\ generation < MaxGeneration
    /\ LET g == generation + 1 IN
          /\ generation' = g /\ device' = g /\ open' = {g}
          /\ reader' = [reader EXCEPT ![g] = "waits"]
          /\ watchdog' = [watchdog EXCEPT ![g] = "sleeps"]
    /\ streaming' = TRUE /\ frame' = NoThread
    /\ consumers' = 0 /\ idle' = FALSE

StartFails == UNCHANGED <<generation, streaming, device, open, frame, reader, watchdog, consumers, idle>>

\* The locked part of stop(); what is left is to join, to close and to clear.
Cut(c) ==
    /\ stopping[c] = NoThread /\ generation < MaxGeneration
    /\ generation' = generation + 1
    /\ streaming' = FALSE /\ device' = NoThread
    /\ stopping' = [stopping EXCEPT ![c] = device]

-----------------------------------------------------------------------------
(* The reader thread *)

\* A frame arrives: the generation is looked at once, before the conversion.
ReaderTakes(g) ==
    /\ reader[g] = "waits"
    /\ reader' = [reader EXCEPT ![g] = IF g = generation THEN "converts" ELSE "ended"]
    /\ UNCHANGED <<generation, streaming, device, open, frame, watchdog, watcher, consumers, idle, stopping, photo>>

\* It is not looked at again: what was converted is written, whatever runs by
\* then.  A device that was closed meanwhile has no next frame.
ReaderWrites(g) ==
    /\ reader[g] = "converts"
    /\ frame' = g
    /\ reader' = [reader EXCEPT ![g] = IF g \in open THEN "waits" ELSE "ended"]
    /\ UNCHANGED <<generation, streaming, device, open, watchdog, watcher, consumers, idle, stopping, photo>>

\* Fault: a stop whose two seconds run out leaves the device to the thread.
CloseIfEnded(c) ==
    /\ stopping[c] # NoThread
    /\ open' = IF reader[stopping[c]] = "ended" THEN open \ {stopping[c]} ELSE open
    /\ frame' = NoThread
    /\ stopping' = [stopping EXCEPT ![c] = NoThread]
    /\ UNCHANGED <<generation, streaming, device, reader, watchdog, watcher, consumers, idle, photo>>

\* The rest of stop(): the join ends when the thread does or after two seconds,
\* and either way the device is closed and the frame cleared.  The closed device
\* ends a thread that waits for a frame; one that converts outlives the stop.
Close(c) ==
    /\ stopping[c] # NoThread
    /\ reader' = [reader EXCEPT ![stopping[c]] = IF @ = "converts" THEN @ ELSE "ended"]
    /\ open' = open \ {stopping[c]}
    /\ frame' = NoThread
    /\ stopping' = [stopping EXCEPT ![c] = NoThread]
    /\ UNCHANGED <<generation, streaming, device, watchdog, watcher, consumers, idle, photo>>

\* Power off, another camera made active, a rescan.
RouteStops ==
    /\ Unlocked /\ Cut("route")
    /\ UNCHANGED <<open, frame, reader, watchdog, watcher, consumers, idle, photo>>

-----------------------------------------------------------------------------
(* Viewers: stream_mjpeg *)

WatcherStarts(v) ==
    /\ watcher[v] = Away /\ Unlocked
    /\ \/ /\ streaming /\ StartFails
          /\ watcher' = [watcher EXCEPT ![v].at = "started"]
       \/ /\ ~streaming /\ Starts
          /\ watcher' = [watcher EXCEPT ![v].at = "started"]
    /\ UNCHANGED <<stopping, photo>>

WatcherCounts(v) ==
    /\ watcher[v].at = "started"
    /\ consumers' = consumers + 1
    /\ watcher' = [watcher EXCEPT ![v].at = "counted"]
    /\ UNCHANGED <<generation, streaming, device, open, frame, reader, watchdog, idle, stopping, photo>>

WatcherWatches(v) ==
    /\ watcher[v].at = "counted"
    /\ watcher' = [watcher EXCEPT ![v] = [at |-> "watches", gen |-> generation]]
    /\ UNCHANGED <<generation, streaming, device, open, frame, reader, watchdog, consumers, idle, stopping, photo>>

Uncount ==
    /\ consumers' = IF consumers > 0 THEN consumers - 1 ELSE 0
    /\ idle' = IF consumers' = 0 THEN FALSE ELSE idle

\* Fault: a viewer whose connection broke is not counted out.
LeavesCounted(v) ==
    /\ watcher[v].at = "watches"
    /\ watcher' = [watcher EXCEPT ![v] = Away]
    /\ UNCHANGED <<generation, streaming, device, open, frame, reader, watchdog, consumers, idle, stopping, photo>>

\* The client is gone, or the generation is: noticed when the generator runs
\* again, which a client that does not read holds up.
WatcherLeaves(v) ==
    /\ watcher[v].at = "watches"
    /\ Uncount
    /\ watcher' = [watcher EXCEPT ![v] = Away]
    /\ UNCHANGED <<generation, streaming, device, open, frame, reader, watchdog, stopping, photo>>

-----------------------------------------------------------------------------
(* The watchdog *)

SixtySeconds ==
    /\ consumers = 0 /\ ~idle
    /\ idle' = TRUE
    /\ UNCHANGED <<generation, streaming, device, open, frame, reader, watchdog, watcher, consumers, stopping, photo>>

WatchdogLooks(g) ==
    /\ watchdog[g] = "sleeps"
    /\ generation # g \/ (consumers = 0 /\ idle)
    /\ watchdog' = [watchdog EXCEPT ![g] = IF generation = g THEN "decided" ELSE "ended"]
    /\ UNCHANGED <<generation, streaming, device, open, frame, reader, watcher, consumers, idle, stopping, photo>>

\* stop() waits for _lock and stops whatever runs by then.
WatchdogStops(g) ==
    /\ watchdog[g] = "decided" /\ Unlocked
    /\ Cut("watchdog")
    /\ watchdog' = [watchdog EXCEPT ![g] = "ended"]
    /\ UNCHANGED <<open, frame, reader, watcher, consumers, idle, photo>>

-----------------------------------------------------------------------------
(* capture_photo *)

\* activity: if nobody watches, the idle time starts again.
Touched == idle' = IF consumers = 0 THEN FALSE ELSE idle

\* Nothing runs, or it runs at the size of the photo: no stop.
PhotoAsIs ==
    /\ photo = "none"
    /\ \/ streaming /\ Touched /\ photo' = "wait"
          /\ UNCHANGED <<generation, streaming, device, open, frame, reader, watchdog, consumers>>
       \/ ~streaming /\ Starts /\ photo' = "wait"
    /\ UNCHANGED <<watcher, stopping>>

\* The stream runs at another size: stopped under the lock ...
PhotoStops ==
    /\ photo = "none" /\ streaming /\ Cut("photo")
    /\ photo' = "stop"
    /\ UNCHANGED <<open, frame, reader, watchdog, watcher, consumers, idle>>

\* ... and started again before the lock is given back; if that fails, the old
\* size is tried, and there is no photo.
PhotoSwitches ==
    /\ photo = "stop" /\ stopping["photo"] = NoThread
    /\ \/ Starts /\ photo' \in {"wait, switched", "none"}
       \/ StartFails /\ photo' = "none"
    /\ UNCHANGED <<watcher, stopping>>

\* A frame, or three seconds without one.
PhotoTaken ==
    /\ photo = "wait"
    /\ photo' = "none"
    /\ UNCHANGED <<generation, streaming, device, open, frame, reader, watchdog, watcher, consumers, idle, stopping>>

PhotoStopsAgain ==
    /\ photo = "wait, switched" /\ Cut("photo")
    /\ photo' = "stop again"
    /\ UNCHANGED <<open, frame, reader, watchdog, watcher, consumers, idle>>

PhotoSwitchesBack ==
    /\ photo = "stop again" /\ stopping["photo"] = NoThread
    /\ Starts \/ StartFails
    /\ photo' = "none"
    /\ UNCHANGED <<watcher, stopping>>

PhotoNext == PhotoAsIs \/ PhotoStops \/ PhotoSwitches \/ PhotoTaken \/ PhotoStopsAgain \/ PhotoSwitchesBack

UsbNext ==
    \/ \E g \in Generations : ReaderTakes(g) \/ ReaderWrites(g) \/ WatchdogLooks(g) \/ WatchdogStops(g)
    \/ \E c \in PhotoCallers : Close(c)
    \/ \E v \in Watchers : WatcherStarts(v) \/ WatcherCounts(v) \/ WatcherWatches(v) \/ WatcherLeaves(v)
    \/ RouteStops \/ SixtySeconds \/ PhotoNext

-----------------------------------------------------------------------------
(* Safety *)

\* A thread that is still in a conversion when its device is closed: stop()
\* waits two seconds for it and no more.
Outlived(g) == reader[g] = "converts" /\ g \notin open

\* While a stream runs its frames are its own, with one exception: the thread of
\* an older stream that outlived its stop writes the frame it was converting,
\* and ends.  A stream never begins with an old frame, and no other thread
\* brings one in, whatever stops, starts and photos overlap.
FramesAreCurrent ==
    [][streaming' /\ frame' \notin {NoThread, generation'} =>
          \/ streaming /\ UNCHANGED <<generation, frame>>
          \/ Outlived(frame') /\ reader'[frame'] = "ended"]_usbVars

\* An open device is that of the stream that runs or one that a stop is about
\* to close: none stays open, which would make every later start fail, although
\* a stop may find nothing to do, give up its join or overlap with another.
DevicesAreFreed ==
    \A g \in open : (streaming /\ g = generation) \/ \E c \in PhotoCallers : stopping[c] = g

-----------------------------------------------------------------------------
(* Liveness *)

Unused == photo = "none" /\ \A v \in Watchers : watcher[v] = Away

\* A camera nobody watches, or takes photos with, is stopped in the end: no viewer is left in the count.
UnwatchedStops ==
    streaming /\ Unused ~> ~streaming \/ ~Unused \/ generation >= MaxGeneration - 1
=============================================================================
