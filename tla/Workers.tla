------------------------------ MODULE Workers ------------------------------
(***************************************************************************)
(* The attachment service with its database and its trust, and the threads *)
(* that something is expected of in the end: the monitors of the Relays    *)
(* and of the listener, the USB camera's watchdog and the display.  As in  *)
(* Station, none of them reads what another one writes, and a behaviour    *)
(* follows one part.  Fairness is required of the followed part only.  The *)
(* safety of the camera and the display is checked in Station, where their *)
(* bounds are larger.                                                      *)
(***************************************************************************)
EXTENDS AttachmentCommands, Snapshots, KeyTrust, Providers, Connectivity, ListenerHealth,
        UsbCamera, Display

CONSTANT Parts   \* the parts a run looks at
VARIABLE part    \* the one this behaviour follows

workersVars ==
    <<part, cmdVars, snapVars, keyVars, provVars, connVars, healthVars,
      usbVars, displayVars>>

\* A part that is not followed starts in one fixed state of its initial ones.
WorkersInit ==
    /\ part \in Parts
    /\ ConnInit
    /\ part # "connectivity" => \A r \in Relays : relay[r] = "down" /\ registered[r] = Absent
    /\ HealthInit
    /\ part # "health" => ~recoveryOn /\ delay = MaxDelay
    /\ DisplayInit
    /\ part # "display" => ~displayOn
    /\ CmdInit /\ SnapInit /\ KeyInit /\ ProvInit /\ UsbInit

WorkersNext ==
    /\ UNCHANGED part
    /\ \/ /\ part = "commands" /\ CmdNext
          /\ UNCHANGED <<snapVars, keyVars, provVars, connVars, healthVars,
                         usbVars, displayVars>>
       \/ /\ part = "snapshots" /\ SnapNext
          /\ UNCHANGED <<cmdVars, keyVars, provVars, connVars, healthVars,
                         usbVars, displayVars>>
       \/ /\ part = "keys" /\ KeyNext
          /\ UNCHANGED <<cmdVars, snapVars, provVars, connVars, healthVars,
                         usbVars, displayVars>>
       \/ /\ part = "providers" /\ ProvNext
          /\ UNCHANGED <<cmdVars, snapVars, keyVars, connVars, healthVars,
                         usbVars, displayVars>>
       \/ /\ part = "connectivity" /\ ConnNext
          /\ UNCHANGED <<cmdVars, snapVars, keyVars, provVars, healthVars,
                         usbVars, displayVars>>
       \/ /\ part = "health" /\ HealthNext
          /\ UNCHANGED <<cmdVars, snapVars, keyVars, provVars, connVars,
                         usbVars, displayVars>>
       \/ /\ part = "usb" /\ UsbNext
          /\ UNCHANGED <<cmdVars, snapVars, keyVars, provVars, connVars,
                         healthVars, displayVars>>
       \/ /\ part = "display" /\ DisplayNext
          /\ UNCHANGED <<cmdVars, snapVars, keyVars, provVars, connVars,
                         healthVars, usbVars>>

\* The service's thread ticks, and a request's thread goes on; what a full disk
\* or a busy database refuses now it does not refuse for ever.
CmdFairness ==
    /\ WF_cmdVars(part = "commands" /\ Tick)
    /\ SF_cmdVars(part = "commands" /\ Publish) /\ SF_cmdVars(part = "commands" /\ RecoverOrphans)
    /\ \A r \in Requests : WF_cmdVars(part = "commands" /\ Onward(r))

\* The monitor's thread runs, and a refresh ends (every probe has a time limit).
ConnFairness ==
    /\ WF_connVars(part = "connectivity" /\ MinutePasses)
    /\ WF_connVars(part = "connectivity" /\ RefreshStarts)
    /\ WF_connVars(part = "connectivity" /\ RefreshEnds)

\* The recovery worker's loop goes on whatever a check meets.
HealthFairness ==
    /\ WF_healthVars(part = "health" /\ HealthCheck)
    /\ WF_healthVars(part = "health" /\ Decide)
    /\ WF_healthVars(part = "health" /\ RestartResumes)

\* Time passes and the watchdogs are threads.
UsbFairness ==
    /\ WF_usbVars(part = "usb" /\ SixtySeconds)
    /\ \A g \in Generations : /\ WF_usbVars(part = "usb" /\ WatchdogLooks(g))
                              /\ WF_usbVars(part = "usb" /\ WatchdogStops(g))

\* The display's worker and the requests are threads, every call of theirs has
\* a time limit, and time passes.
DisplayFairness ==
    /\ WF_displayVars(part = "display" /\ WorkerStep)
    /\ WF_displayVars(part = "display" /\ HoldTick)
    /\ WF_displayVars(part = "display" /\ SwapStep)
    /\ WF_displayVars(part = "display" /\ Joined)

WorkersSpec ==
    /\ WorkersInit /\ [][WorkersNext]_workersVars
    /\ CmdFairness /\ ConnFairness /\ HealthFairness /\ UsbFairness /\ DisplayFairness

-----------------------------------------------------------------------------
(* Properties: those of the parts, gathered by what a user would miss.     *)

\* Every part's variables keep their types, and with them the bounds the code
\* sets itself: the command queue, the announcements of an hour, the back-off.
WorkersTypeOK ==
    /\ part = "commands" => CmdTypeOK
    /\ part = "snapshots" => SnapTypeOK
    /\ part = "keys" => KeyTypeOK
    /\ part = "providers" => ProvTypeOK
    /\ part = "connectivity" => ConnTypeOK
    /\ part = "health" => HealthTypeOK
    /\ part = "usb" => UsbTypeOK
    /\ part = "display" => DisplayTypeOK

\* A confirmed key is not replaced and no letter is sealed for another one; a
\* default Relay is lost only with its own profile; no token outlives the row
\* that names it (key_exchange.py, provider_registry.py).
TrustIsKept == TrustIsPinned /\ DefaultIsKept
               /\ [](part = "providers" => NoSecretLeftBehind)

\* The listener is restarted for a lasting failure only, and not more often
\* than the ration allows (server.py's recovery worker).
RestartsAreRationed == RestartIsPatient /\ [](part = "health" => RationIsKept)

\* An idempotency key makes one attachment, the spooled file of a command or a
\* row is no orphan, and what the snapshot does not show yet is noted for its
\* next refresh (service.py, idempotency.py, snapshots.py).
AttachmentsAreKept == OneAttachmentPerKey /\ SpoolIsKept /\ LagIsNoted

\* What a thread has begun it ends: a reserved key is set free, a Relay that is
\* well again is used again, a stuck pause of the listener ends, a camera
\* nobody watches is stopped, a frame that was held back is drawn.
WorkEnds ==
    /\ ReservationIsReleased
    /\ part = "connectivity" => RecoveryIsNoticed
    /\ StuckPauseEnds
    /\ UnwatchedStops
    /\ HoldIsBounded
=============================================================================
