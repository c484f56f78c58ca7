----------------------------- MODULE CsiCamera -----------------------------
(***************************************************************************)
(* camera/camera.py behind camera/csi_driver.py and the routes of          *)
(* api/api_camera.py: one Picamera2 object, stopped and started again for  *)
(* every change of its mode or settings, and generators of /video_feed     *)
(* that each belong to one generation of it.  A configuration is the       *)
(* number of the generation it was started in; what a frame shows of it is *)
(* that number.                                                            *)
(***************************************************************************)
EXTENDS Naturals, Sequences

CONSTANTS
    Feeds,        \* generators of /video_feed
    MaxStreams,   \* bound on stream_generation
    MaxPictures   \* what cleanup_old_screenshots keeps

ASSUME CsiAssumption == MaxStreams \in Nat \ {0} /\ MaxPictures \in Nat \ {0}

VARIABLES
    available,  \* CAMERA_AVAILABLE: picam2 is there
    running, mode, \* camera_started, CAMERA_MODE
    streamGen,  \* stream_generation
    lastFrame,  \* the configuration last_frame shows, 0 for None
    power, powerFile, \* power_state["enabled"] and camera_power.json
    feed,       \* per generator: where it is, its generation, the frame it holds
    closing,    \* close_camera stands between its two locked parts
    still,      \* _capture_still: between its switch to photo mode and its frames
    pictures    \* how many pictures the gallery holds

csiVars == <<available, running, mode, streamGen, lastFrame, power, powerFile, feed, closing, still, pictures>>

NoFeed == [at |-> "none", gen |-> 0, shows |-> 0]

CsiTypeOK ==
    /\ available \in BOOLEAN /\ running \in BOOLEAN /\ mode \in {"video", "photo"}
    /\ streamGen \in 0..MaxStreams /\ lastFrame \in 0..MaxStreams
    /\ power \in BOOLEAN /\ powerFile \in BOOLEAN
    /\ feed \in [Feeds -> [at : {"none", "begins", "loops", "asks", "holds"}, gen : 0..MaxStreams, shows : 0..MaxStreams]]
    /\ closing \in BOOLEAN /\ still \in BOOLEAN /\ pictures \in 0..MaxPictures

CsiInit ==
    /\ available \in BOOLEAN /\ running = FALSE /\ mode = "video"
    /\ streamGen = 0 /\ lastFrame = 0
    /\ power \in BOOLEAN /\ powerFile = power
    /\ feed = [v \in Feeds |-> NoFeed]
    /\ closing = FALSE /\ still = FALSE /\ pictures = 0

\* stop_camera
Halts ==
    /\ streamGen < MaxStreams
    /\ running' = FALSE /\ lastFrame' = 0 /\ streamGen' = streamGen + 1

\* switch_camera_mode: stopped, then started in the mode asked for, which may fail.
SwitchTo(m) ==
    /\ available /\ streamGen < MaxStreams
    /\ streamGen' = streamGen + 1 /\ lastFrame' = 0
    /\ running' \in BOOLEAN
    /\ mode' = IF running' THEN m ELSE mode

NoCamera == ~available /\ UNCHANGED <<running, mode, streamGen, lastFrame>>

\* start_camera: nothing to do when it runs in video mode.
StartCamera ==
    \/ available /\ running /\ mode = "video" /\ UNCHANGED <<running, mode, streamGen, lastFrame>>
    \/ ~(running /\ mode = "video") /\ SwitchTo("video")
    \/ NoCamera

-----------------------------------------------------------------------------
(* A generator: stream_mjpeg, generate_mjpeg_stream *)

FeedOpens(v) ==
    /\ feed[v] = NoFeed /\ power
    /\ StartCamera
    /\ feed' = [feed EXCEPT ![v].at = IF available /\ running' THEN "begins" ELSE "none"]
    /\ UNCHANGED <<available, power, powerFile, closing, still, pictures>>

\* The generation is read after the start, with no lock in between.
FeedReadsGeneration(v) ==
    /\ feed[v].at = "begins"
    /\ feed' = [feed EXCEPT ![v].at = "loops", ![v].gen = streamGen]
    /\ UNCHANGED <<available, running, mode, streamGen, lastFrame, power, powerFile, closing, still, pictures>>

FeedLoops(v) ==
    /\ feed[v].at = "loops"
    /\ feed' = [feed EXCEPT ![v] = IF @.gen = streamGen THEN [@ EXCEPT !.at = "asks"] ELSE NoFeed]
    /\ UNCHANGED <<available, running, mode, streamGen, lastFrame, power, powerFile, closing, still, pictures>>

\* get_camera_frame starts a camera that does not run, whoever stopped it ...
FrameStarts(v) ==
    /\ feed[v].at = "asks" /\ ~running
    /\ StartCamera
    /\ feed' = [feed EXCEPT ![v].at = IF available /\ running' THEN "asks" ELSE "holds", ![v].shows = 0]
    /\ UNCHANGED <<available, power, powerFile, closing, still, pictures>>

\* ... and captures a frame, or answers with the last one; an exception stops it.
FrameCaptured(v) ==
    /\ feed[v].at = "asks" /\ running
    /\ \/ available /\ lastFrame' = streamGen /\ UNCHANGED running
       \/ UNCHANGED <<lastFrame, running>>
       \/ running' = FALSE /\ UNCHANGED lastFrame
    /\ feed' = [feed EXCEPT ![v].at = "holds", ![v].shows = lastFrame']
    /\ UNCHANGED <<available, mode, streamGen, power, powerFile, closing, still, pictures>>

\* Fault: the frame is sent without a second look at the generation.
FeedYieldsUnchecked(v) ==
    /\ feed[v].at = "holds"
    /\ feed' = [feed EXCEPT ![v] = [@ EXCEPT !.at = "loops"]]
    /\ UNCHANGED <<available, running, mode, streamGen, lastFrame, power, powerFile, closing, still, pictures>>

\* The generation is looked at again before the frame is sent.
FeedYields(v) ==
    /\ feed[v].at = "holds"
    /\ feed' = [feed EXCEPT ![v] = IF @.gen = streamGen THEN [@ EXCEPT !.at = "loops"] ELSE NoFeed]
    /\ UNCHANGED <<available, running, mode, streamGen, lastFrame, power, powerFile, closing, still, pictures>>

FeedEnds(v) ==
    /\ feed[v].at = "loops"
    /\ feed' = [feed EXCEPT ![v] = NoFeed]
    /\ UNCHANGED <<available, running, mode, streamGen, lastFrame, power, powerFile, closing, still, pictures>>

-----------------------------------------------------------------------------
(* The routes *)

\* /api/camera/stop, and a photo that failed: not gated by the power state.
StopCamera ==
    /\ Halts
    /\ UNCHANGED <<available, mode, power, powerFile, feed, closing, still, pictures>>

\* Power on: the driver's start finds the camera again, if it was closed.
PowerOn ==
    /\ ~power /\ ~closing
    /\ \/ /\ available' = TRUE /\ streamGen < MaxStreams
          /\ streamGen' = streamGen + 1 /\ lastFrame' = 0
          /\ running' \in BOOLEAN
          /\ mode' = IF running' THEN "video" ELSE mode
       \/ UNCHANGED <<available, running, mode, streamGen, lastFrame>>
    /\ power' = (available' /\ running')
    /\ powerFile' = power'
    /\ UNCHANGED <<feed, closing, still, pictures>>

\* Power off is CsiCameraDriver.stop, close_camera: stop_camera under the lock ...
PowerOff ==
    /\ power /\ ~closing
    /\ Halts
    /\ closing' = TRUE
    /\ UNCHANGED <<available, mode, power, powerFile, feed, still, pictures>>

\* ... and, under the lock once more, the object given up.
CloseCamera ==
    /\ closing
    /\ available' = FALSE /\ closing' = FALSE
    /\ power' = FALSE /\ powerFile' = FALSE
    /\ UNCHANGED <<running, mode, streamGen, lastFrame, feed, still, pictures>>

\* detect() of a driver, at a rescan or when the list is made: no power gate.
DetectCamera ==
    /\ ~available
    /\ available' = TRUE
    /\ UNCHANGED <<running, mode, streamGen, lastFrame, power, powerFile, feed, closing, still, pictures>>

\* /api/camera/switch_mode
SwitchMode(m) ==
    /\ power
    /\ SwitchTo(m)
    /\ UNCHANGED <<available, power, powerFile, feed, closing, still, pictures>>

\* update_camera_settings: a camera that runs is started again with what changed.
UpdateSettings == running /\ SwitchMode(mode)

\* /api/camera/mode/<mode>: does not ask whether the camera is turned off.
SetVideoMode ==
    /\ SwitchTo("video")
    /\ UNCHANGED <<available, power, powerFile, feed, closing, still, pictures>>

\* _capture_still: the switch, and 1.5 s later the frames, with no lock held.
StillSwitches ==
    /\ power /\ ~still
    /\ SwitchTo("photo")
    /\ still' = running'
    /\ UNCHANGED <<available, power, powerFile, feed, closing, pictures>>

\* cleanup_old_screenshots, after a picture was added.
Kept(n) == IF n < MaxPictures THEN n ELSE MaxPictures

\* A frame of another size than asked for is not a photo, and a preview is not kept.
StillTaken ==
    /\ still
    /\ still' = FALSE
    /\ pictures' \in {pictures, IF running THEN Kept(pictures + 1) ELSE pictures}
    /\ UNCHANGED <<available, running, mode, streamGen, lastFrame, power, powerFile, feed, closing>>

\* capture_screenshot: of the running stream, which it starts if need be.
Screenshot ==
    /\ power
    /\ \/ /\ running /\ available
          /\ lastFrame' = streamGen /\ pictures' = Kept(pictures + 1)
          /\ UNCHANGED <<running, mode, streamGen>>
       \/ /\ ~running /\ StartCamera
          /\ pictures' = IF available /\ running' THEN Kept(pictures + 1) ELSE pictures
    /\ UNCHANGED <<available, power, powerFile, feed, closing, still>>

DeletePictures ==
    /\ pictures > 0
    /\ pictures' \in {pictures - 1, 0}
    /\ UNCHANGED <<available, running, mode, streamGen, lastFrame, power, powerFile, feed, closing, still>>

CsiNext ==
    \/ \E v \in Feeds :
          \/ FeedOpens(v) \/ FeedReadsGeneration(v) \/ FeedLoops(v)
          \/ FrameStarts(v) \/ FrameCaptured(v) \/ FeedYields(v) \/ FeedEnds(v)
    \/ StopCamera \/ PowerOn \/ PowerOff \/ CloseCamera \/ DetectCamera
    \/ \E m \in {"video", "photo"} : SwitchMode(m)
    \/ UpdateSettings \/ SetVideoMode
    \/ StillSwitches \/ StillTaken \/ Screenshot \/ DeletePictures

-----------------------------------------------------------------------------
(* Safety *)

\* A generator sends frames of one configuration only, its own: a stop, a photo
\* or a change of settings between its two looks at the generation ends it.
OneConfigurationPerFeed ==
    [][\A v \in Feeds :
          FeedYields(v) /\ feed'[v] # NoFeed => feed[v].shows \in {0, feed[v].gen}]_csiVars
=============================================================================
