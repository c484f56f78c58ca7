------------------------------ MODULE Display ------------------------------
(***************************************************************************)
(* The e-paper display: modules/display/manager.py's worker, which turns   *)
(* marked frames into refreshes, the two routes that start, stop and       *)
(* replace what it works with (api/api_hardware_display.py), the drivers'  *)
(* start, stop and render, and the registry of GPIO pins.                  *)
(*                                                                         *)
(* A frame is what it shows; the pages and their drawing are left out.     *)
(* Every model of panel uses the pins of the one header, so the registry   *)
(* is the model that has claimed them.                                     *)
(***************************************************************************)
EXTENDS Naturals, FiniteSets

CONSTANTS
    Screens,       \* what a frame can show
    Models,      \* models of panel
    FirstModel,  \* of the saved configuration
    HoldTime,    \* debounce_seconds, in ticks
    MaxTries, \* MAX_CONSECUTIVE_RETRIES + 1
    MaxDrivers,  \* bound: driver objects built by re-inits
    MaxStrays    \* bound: abandoned calls at one time

ASSUME DisplayAssumption ==
    /\ FirstModel \in Models /\ HoldTime \in Nat \ {0}
    /\ MaxTries \in Nat \ {0} /\ MaxDrivers \in Nat /\ MaxStrays \in Nat

VARIABLES
    pendingFrame, woken,         \* _pending_image with its priority, _wake
    worker, held, holdLeft, attempts, \* the worker thread, what it has taken, its tries at it
    stopFlag, paused,            \* _stop_flag, _pause_for_reinit inverted
    driver, startedDrivers, pinOwner, \* _driver; drivers with _started; the registry
    onPanel, cooling,            \* _last_hash; the cooldown after errors
    workerCall, swapCall, strayCalls, \* calls of driver methods; strays are abandoned
    displayOn, savedModel, setter, \* the configuration; the settings request
    swap, built                  \* the re-init request; drivers built

workVars == <<worker, held, holdLeft, attempts>>
callVars == <<workerCall, swapCall, strayCalls>>
driverVars == <<driver, startedDrivers, pinOwner>>
routeVars == <<displayOn, savedModel, setter, swap, built>>
displayVars == <<pendingFrame, woken, workVars, stopFlag, paused, driverVars, onPanel, cooling, callVars, routeVars>>

NoPage == "none"
NoFrame == [page |-> NoPage, critical |-> FALSE]
NoMethod == [method |-> "none"]
Unclaimed == "nobody"
Blank == "blank" \* no hash: the next frame is drawn whatever it shows
Frames == [page : Screens, critical : BOOLEAN]
Drivers == [model : Models, nr : 0..MaxDrivers]
Calls == [method : {"start", "render"}, on : Drivers]
NoSwap == [at |-> "none"]

DisplayTypeOK ==
    /\ pendingFrame \in Frames \cup {NoFrame} /\ held \in Screens \cup {NoPage}
    /\ woken \in BOOLEAN /\ stopFlag \in BOOLEAN /\ paused \in BOOLEAN
    /\ displayOn \in BOOLEAN /\ cooling \in BOOLEAN
    /\ worker \in {"dead", "waiting", "holding", "gate", "entering", "trying", "calling"}
    /\ holdLeft \in 0..HoldTime /\ attempts \in 0..MaxTries
    /\ driver \in Drivers /\ startedDrivers \subseteq Drivers
    /\ pinOwner \in Models \cup {Unclaimed} /\ savedModel \in Models
    /\ onPanel \in Screens \cup {Blank}
    /\ workerCall \in Calls \cup {NoMethod} /\ swapCall \in Calls \cup {NoMethod}
    /\ (worker = "calling") = (workerCall # NoMethod)
    /\ strayCalls \subseteq Calls
    /\ setter \in {"none", "joining"} /\ built \in 0..MaxDrivers
    /\ swap = NoSwap \/ swap \in [at : {"checking", "waiting", "installed", "starting", "failed"},
                                  to : Models, back : BOOLEAN]

DisplayInit ==
    /\ pendingFrame = NoFrame /\ woken = FALSE
    /\ displayOn \in BOOLEAN /\ worker = IF displayOn THEN "waiting" ELSE "dead"
    /\ held = NoPage /\ holdLeft = 0 /\ attempts = 0
    /\ stopFlag = FALSE /\ paused = FALSE
    /\ driver = [model |-> FirstModel, nr |-> 0] /\ startedDrivers = {} /\ pinOwner = Unclaimed
    /\ onPanel = Blank /\ cooling = FALSE
    /\ workerCall = NoMethod /\ swapCall = NoMethod /\ strayCalls = {}
    /\ savedModel = FirstModel /\ setter = "none" /\ swap = NoSwap /\ built = 0

-----------------------------------------------------------------------------
(* Frames *)

MarkDirty(page, critical) ==
    /\ pendingFrame' = [page |-> page, critical |-> critical \/ pendingFrame.critical]
    /\ woken' = TRUE
    /\ UNCHANGED <<workVars, stopFlag, paused, driverVars, onPanel, cooling, callVars, routeVars>>

\* The poll of epaper_worker: an alert and a page whose turn in the rotation has
\* come are critical.
Poll(page, critical) == displayOn /\ MarkDirty(page, critical)

\* The routes test, clear, refresh and show do not ask whether it is enabled.
Shows(page) == MarkDirty(page, TRUE)

-----------------------------------------------------------------------------
(* The worker *)

workerKeeps == <<stopFlag, paused, driverVars, onPanel, cooling, callVars, routeVars>>

Takes == pendingFrame' = NoFrame /\ woken' = FALSE

WorkerWakes ==
    /\ worker = "waiting" /\ woken /\ ~stopFlag
    /\ Takes
    /\ IF pendingFrame = NoFrame THEN UNCHANGED workVars
       ELSE /\ held' = pendingFrame.page
            /\ worker' = IF pendingFrame.critical THEN "gate" ELSE "holding"
            /\ holdLeft' = IF pendingFrame.critical THEN 0 ELSE HoldTime
            /\ UNCHANGED attempts
    /\ UNCHANGED workerKeeps

\* Fault: a newer frame starts the wait again.
HoldRestarts ==
    /\ worker = "holding" /\ woken /\ holdLeft > 0 /\ ~stopFlag
    /\ Takes
    /\ IF pendingFrame = NoFrame THEN UNCHANGED workVars
       ELSE /\ held' = pendingFrame.page
            /\ worker' = IF pendingFrame.critical THEN "gate" ELSE "holding"
            /\ holdLeft' = IF pendingFrame.critical THEN 0 ELSE HoldTime
            /\ UNCHANGED attempts
    /\ UNCHANGED workerKeeps

\* _debounce: a newer frame replaces the one that waits and leaves the deadline
\* where it is; a critical one ends the wait.
HoldNewer ==
    /\ worker = "holding" /\ woken /\ holdLeft > 0 /\ ~stopFlag
    /\ Takes
    /\ IF pendingFrame = NoFrame THEN UNCHANGED workVars
       ELSE /\ held' = pendingFrame.page
            /\ worker' = IF pendingFrame.critical THEN "gate" ELSE "holding"
            /\ holdLeft' = IF pendingFrame.critical THEN 0 ELSE holdLeft
            /\ UNCHANGED attempts
    /\ UNCHANGED workerKeeps

HoldTick ==
    /\ holdLeft > 0
    /\ holdLeft' = holdLeft - 1
    /\ UNCHANGED <<pendingFrame, woken, worker, held, attempts, workerKeeps>>

HoldEnds ==
    /\ worker = "holding" /\ holdLeft = 0 /\ ~stopFlag
    /\ worker' = "gate"
    /\ UNCHANGED <<pendingFrame, woken, held, holdLeft, attempts, workerKeeps>>

\* Passing the gate and clearing _worker_idle are two steps.
WorkerPasses ==
    /\ worker = "gate" /\ ~paused /\ ~stopFlag
    /\ worker' = "entering"
    /\ UNCHANGED <<pendingFrame, woken, held, holdLeft, attempts, workerKeeps>>

\* Where it looks at the flag, the worker ends, with the frame it holds.
WorkerStops ==
    /\ stopFlag /\ worker \in {"waiting", "holding", "gate"} /\ (worker = "gate" => ~paused)
    /\ worker' = "dead" /\ held' = NoPage /\ holdLeft' = 0
    /\ UNCHANGED <<pendingFrame, woken, attempts, workerKeeps>>

\* _refresh: a frame that comes in the cooldown, without a panel, or that the
\* panel shows already is dropped.
Refresh ==
    /\ worker = "entering"
    /\ \/ worker' = "waiting" /\ held' = NoPage
       \/ ~cooling /\ held # onPanel /\ worker' = "trying" /\ UNCHANGED held
    /\ attempts' = 0
    /\ UNCHANGED <<pendingFrame, woken, holdLeft, workerKeeps>>

CooldownEnds ==
    /\ cooling /\ cooling' = FALSE
    /\ UNCHANGED <<pendingFrame, woken, workVars, stopFlag, paused, driverVars, onPanel, callVars, routeVars>>

MayClaim(d) == pinOwner \in {Unclaimed, d.model}

\* _ensure_started: each method is called in a thread of its own.  A start claims the pins.
WorkerCalls ==
    /\ worker = "trying" /\ attempts < MaxTries
    /\ IF driver \in startedDrivers
       THEN /\ workerCall' = [method |-> "render", on |-> driver]
            /\ worker' = "calling" /\ UNCHANGED <<attempts, pinOwner>>
       ELSE IF MayClaim(driver)
       THEN /\ workerCall' = [method |-> "start", on |-> driver]
            /\ pinOwner' = driver.model /\ worker' = "calling" /\ UNCHANGED attempts
       ELSE attempts' = attempts + 1 /\ UNCHANGED <<workerCall, pinOwner, worker>>
    /\ UNCHANGED <<pendingFrame, woken, held, holdLeft, stopFlag, paused, driver, startedDrivers, onPanel, cooling,
                   swapCall, strayCalls, routeVars>>

\* A render on a driver that another thread has stopped raises.
CallReturns ==
    /\ worker = "calling"
    /\ IF workerCall.method = "start"
       THEN /\ startedDrivers' = startedDrivers \cup {workerCall.on} /\ worker' = "trying"
            /\ UNCHANGED <<onPanel, held, attempts>>
       ELSE /\ workerCall.on \in startedDrivers
            /\ onPanel' = held /\ worker' = "waiting" /\ held' = NoPage /\ attempts' = 0
            /\ UNCHANGED startedDrivers
    /\ workerCall' = NoMethod
    /\ UNCHANGED <<pendingFrame, woken, holdLeft, stopFlag, paused, driver, pinOwner, cooling, swapCall,
                   strayCalls, routeVars>>

CallRaises ==
    /\ worker = "calling"
    /\ worker' = "trying" /\ attempts' = attempts + 1 /\ workerCall' = NoMethod
    /\ UNCHANGED <<pendingFrame, woken, held, holdLeft, stopFlag, paused, driverVars, onPanel, cooling, swapCall,
                   strayCalls, routeVars>>

\* Fault: a driver that never finished its start() keeps its claim.
StopStartedOnly(d) ==
    /\ startedDrivers' = startedDrivers \ {d}
    /\ pinOwner' = IF pinOwner = d.model /\ d \in startedDrivers THEN Unclaimed ELSE pinOwner

\* The driver's stop(): the claim is released whether it was started or not.
Stop(d) ==
    /\ startedDrivers' = startedDrivers \ {d}
    /\ pinOwner' = IF pinOwner = d.model THEN Unclaimed ELSE pinOwner

\* The thread is abandoned.  After a render the manager's driver is stopped:
\* that may be another one by now.
CallTimesOut ==
    /\ worker = "calling" /\ Cardinality(strayCalls) < MaxStrays
    /\ strayCalls' = strayCalls \cup {workerCall}
    /\ IF workerCall.method = "render" THEN Stop(driver) ELSE UNCHANGED <<startedDrivers, pinOwner>>
    /\ worker' = "trying" /\ attempts' = attempts + 1 /\ workerCall' = NoMethod
    /\ UNCHANGED <<pendingFrame, woken, held, holdLeft, stopFlag, paused, driver, onPanel, cooling, swapCall, routeVars>>

\* Three refreshes that fail in a row start the cooldown.
GivesUp ==
    /\ worker = "trying" /\ attempts = MaxTries
    /\ worker' = "waiting" /\ held' = NoPage /\ attempts' = 0 /\ cooling' \in BOOLEAN
    /\ UNCHANGED <<pendingFrame, woken, holdLeft, stopFlag, paused, driverVars, onPanel, callVars, routeVars>>

\* An abandoned start() may yet come through; its driver then counts as started.
StrayEnds(c) ==
    /\ c \in strayCalls
    /\ strayCalls' = strayCalls \ {c}
    /\ \/ c.method = "start" /\ startedDrivers' = startedDrivers \cup {c.on}
       \/ UNCHANGED startedDrivers
    /\ UNCHANGED <<pendingFrame, woken, workVars, stopFlag, paused, driver, pinOwner, onPanel, cooling, workerCall,
                   swapCall, routeVars>>

-----------------------------------------------------------------------------
(* The settings route *)

\* start() does nothing while the old worker lives, whatever the stop flag says.
Enable ==
    /\ displayOn' = TRUE
    /\ IF worker = "dead" THEN stopFlag' = FALSE /\ worker' = "waiting"
       ELSE UNCHANGED <<stopFlag, worker>>
    /\ UNCHANGED <<pendingFrame, woken, held, holdLeft, attempts, paused, driverVars, onPanel, cooling, callVars,
                   savedModel, setter, swap, built>>

Disable ==
    /\ setter = "none"
    /\ displayOn' = FALSE /\ stopFlag' = TRUE /\ woken' = TRUE /\ setter' = "joining"
    /\ UNCHANGED <<pendingFrame, workVars, paused, driverVars, onPanel, cooling, callVars, savedModel, swap, built>>

\* The join has a time limit of 5 seconds: the worker may be alive after it.
Joined ==
    /\ setter = "joining" /\ setter' = "none"
    /\ Stop(driver)
    /\ UNCHANGED <<pendingFrame, woken, workVars, stopFlag, paused, driver, onPanel, cooling, callVars, displayOn,
                   savedModel, swap, built>>

-----------------------------------------------------------------------------
(* The re-init route.  One request at a time. *)

swapKeeps == <<pendingFrame, workVars, stopFlag, cooling, workerCall, displayOn, setter>>

ReinitReleases(m) ==
    /\ swap = NoSwap /\ built + 2 <= MaxDrivers
    /\ pinOwner' = IF pinOwner = savedModel THEN Unclaimed ELSE pinOwner
    /\ swap' = [at |-> "checking", to |-> m, back |-> FALSE]
    /\ UNCHANGED <<swapKeeps, woken, paused, driver, startedDrivers, onPanel, swapCall, strayCalls, savedModel, built>>

\* The pins asked for are taken (or, of those left out here, reserved).
ReinitConflicts ==
    /\ swap.at = "checking"
    /\ pinOwner' = IF pinOwner = Unclaimed THEN savedModel ELSE pinOwner
    /\ swap' = NoSwap
    /\ UNCHANGED <<swapKeeps, woken, paused, driver, startedDrivers, onPanel, swapCall, strayCalls, savedModel, built>>

\* From here on it is swap_driver_and_start, once or twice.
SwapPauses ==
    /\ \/ swap.at = "checking" /\ pinOwner \in {Unclaimed, swap.to}
       \/ swap.at = "failed"
    /\ paused' = TRUE
    /\ swap' = IF swap.at = "failed" THEN [at |-> "waiting", to |-> savedModel, back |-> TRUE]
               ELSE [swap EXCEPT !.at = "waiting"]
    /\ UNCHANGED <<swapKeeps, woken, driverVars, onPanel, swapCall, strayCalls, savedModel, built>>

\* The wait for an idle worker has a time limit as well.
SwapInstalls ==
    /\ swap.at = "waiting" /\ swap' = [swap EXCEPT !.at = "installed"]
    /\ Stop(driver)
    /\ driver' = [model |-> swap.to, nr |-> built + 1] /\ built' = built + 1
    /\ onPanel' = Blank
    /\ UNCHANGED <<swapKeeps, woken, paused, swapCall, strayCalls, savedModel>>

SwapStarts ==
    /\ swap.at = "installed" /\ MayClaim(driver)
    /\ swap' = [swap EXCEPT !.at = "starting"]
    /\ pinOwner' = driver.model /\ swapCall' = [method |-> "start", on |-> driver]
    /\ UNCHANGED <<swapKeeps, woken, paused, driver, startedDrivers, onPanel, strayCalls, savedModel, built>>

SwapSucceeds ==
    /\ swap.at = "starting" /\ swap' = NoSwap
    /\ startedDrivers' = startedDrivers \cup {driver} /\ swapCall' = NoMethod
    /\ savedModel' = swap.to
    /\ paused' = FALSE /\ woken' = TRUE
    /\ UNCHANGED <<swapKeeps, driver, pinOwner, onPanel, strayCalls, built>>

\* start() fails, cannot claim, or takes too long and is abandoned.  The worker
\* goes on, with the driver that failed, until the swap back pauses it again.
SwapFails ==
    /\ swap.at = "starting" \/ (swap.at = "installed" /\ ~MayClaim(driver))
    /\ swap' = IF swap.back THEN NoSwap ELSE [swap EXCEPT !.at = "failed"]
    /\ strayCalls' \in {strayCalls} \cup (IF swapCall = NoMethod \/ Cardinality(strayCalls) = MaxStrays THEN {} ELSE {strayCalls \cup {swapCall}})
    /\ swapCall' = NoMethod
    /\ paused' = FALSE /\ woken' = TRUE
    /\ UNCHANGED <<swapKeeps, driverVars, onPanel, savedModel, built>>

-----------------------------------------------------------------------------
WorkerStep ==
    \/ WorkerWakes \/ HoldNewer \/ HoldEnds \/ WorkerPasses \/ WorkerStops
    \/ Refresh \/ WorkerCalls \/ CallReturns \/ CallRaises \/ CallTimesOut \/ GivesUp
SwapStep == SwapPauses \/ SwapInstalls \/ SwapStarts \/ SwapSucceeds \/ SwapFails

DisplayNext ==
    \/ \E p \in Screens : Shows(p) \/ \E c \in BOOLEAN : Poll(p, c)
    \/ WorkerStep \/ HoldTick \/ CooldownEnds
    \/ \E c \in strayCalls : StrayEnds(c)
    \/ Enable \/ Disable \/ Joined
    \/ \E m \in Models : ReinitReleases(m)
    \/ ReinitConflicts \/ SwapStep

-----------------------------------------------------------------------------
(* Properties *)

\* Whatever starts failed, timed out or were abandoned, and however many models
\* were tried: between re-inits the pins are claimed by nobody or by the model
\* that is in use, so a next re-init is not refused for a panel long gone.
ClaimFollowsDriver == swap = NoSwap => pinOwner \in {Unclaimed, driver.model}

\* A frame that waits is drawn (or dropped) however often newer ones replace it:
\* the deadline stands (manager.py:326).
HoldIsBounded == (worker = "holding") ~> (worker # "holding")
=============================================================================
