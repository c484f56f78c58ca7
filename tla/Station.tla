------------------------------ MODULE Station ------------------------------
(***************************************************************************)
(* Parts of the web process, side by side, with the safety asked of them   *)
(* and no fairness.  They are one process, but none of them reads what     *)
(* another one writes: the schedules, timers and reports append to the     *)
(* notifications, the rest have files, locks and devices of their own.  A  *)
(* behaviour therefore follows one part, and the states of the parts add   *)
(* up instead of multiplying.  "delivery" is MessageDelivery with a        *)
(* history too short for its messages.                                     *)
(***************************************************************************)
EXTENDS Schedules, Timers, DataReports, RadioProfile, NodeClock, TransportSwitch, Inbox,
        Readings, MessageDelivery, UsbCamera, CsiCamera, Display

CONSTANT Parts   \* the parts a run looks at
VARIABLE part    \* the one this behaviour follows

stationVars ==
    <<part, schedVars, timerVars, reportVars, profileVars, clockVars,
      switchVars, inboxVars, readingsVars, vars, usbVars, csiVars, displayVars>>

\* A part that is not followed starts in one fixed state of its initial ones.
StationInit ==
    /\ part \in Parts
    /\ SchedInit
    /\ part # "schedules" => file =
          CHOOSE list \in [1..MaxRules -> [id : Rules, on : {TRUE}, fired : {0}]] :
             \A i, j \in 1..MaxRules : i # j => list[i].id # list[j].id
    /\ ProfileInit
    /\ part # "radio" => plugged = NoRadio /\ bound = CHOOSE r \in Radios : TRUE
    /\ ClockInit
    /\ part # "clock" => ~ntp /\ ~rtcReadable /\ \A b \in Backends : tzAnswers[b] = "fails"
    /\ SwitchInit
    /\ part # "transport" => stored.transport = "serial" /\ stored.node = Nowhere
    /\ InboxInit
    /\ part # "inbox" => deletedDm = NoFile
    /\ CsiInit
    /\ part # "csi" => ~available /\ ~power
    /\ DisplayInit
    /\ part # "display" => ~displayOn
    /\ TimersInit /\ ReportsInit /\ ReadingsInit /\ Init /\ UsbInit

StationNext ==
    /\ UNCHANGED part
    /\ \/ /\ part = "schedules" /\ SchedNext
          /\ UNCHANGED <<timerVars, reportVars, profileVars, clockVars,
                         switchVars, inboxVars, readingsVars, vars, usbVars,
                         csiVars, displayVars>>
       \/ /\ part = "timers" /\ TimersNext
          /\ UNCHANGED <<schedVars, reportVars, profileVars, clockVars,
                         switchVars, inboxVars, readingsVars, vars, usbVars,
                         csiVars, displayVars>>
       \/ /\ part = "reports" /\ ReportsNext
          /\ UNCHANGED <<schedVars, timerVars, profileVars, clockVars,
                         switchVars, inboxVars, readingsVars, vars, usbVars,
                         csiVars, displayVars>>
       \/ /\ part = "radio" /\ ProfileNext
          /\ UNCHANGED <<schedVars, timerVars, reportVars, clockVars,
                         switchVars, inboxVars, readingsVars, vars, usbVars,
                         csiVars, displayVars>>
       \/ /\ part = "clock" /\ ClockNext
          /\ UNCHANGED <<schedVars, timerVars, reportVars, profileVars,
                         switchVars, inboxVars, readingsVars, vars, usbVars,
                         csiVars, displayVars>>
       \/ /\ part = "transport" /\ SwitchNext
          /\ UNCHANGED <<schedVars, timerVars, reportVars, profileVars,
                         clockVars, inboxVars, readingsVars, vars, usbVars,
                         csiVars, displayVars>>
       \/ /\ part = "inbox" /\ InboxNext
          /\ UNCHANGED <<schedVars, timerVars, reportVars, profileVars,
                         clockVars, switchVars, readingsVars, vars, usbVars,
                         csiVars, displayVars>>
       \/ /\ part = "readings" /\ ReadingsNext
          /\ UNCHANGED <<schedVars, timerVars, reportVars, profileVars,
                         clockVars, switchVars, inboxVars, vars, usbVars,
                         csiVars, displayVars>>
       \/ /\ part = "delivery" /\ Next
          /\ UNCHANGED <<schedVars, timerVars, reportVars, profileVars,
                         clockVars, switchVars, inboxVars, readingsVars,
                         usbVars, csiVars, displayVars>>
       \/ /\ part = "usb" /\ UsbNext
          /\ UNCHANGED <<schedVars, timerVars, reportVars, profileVars,
                         clockVars, switchVars, inboxVars, readingsVars, vars,
                         csiVars, displayVars>>
       \/ /\ part = "csi" /\ CsiNext
          /\ UNCHANGED <<schedVars, timerVars, reportVars, profileVars,
                         clockVars, switchVars, inboxVars, readingsVars, vars,
                         usbVars, displayVars>>
       \/ /\ part = "display" /\ DisplayNext
          /\ UNCHANGED <<schedVars, timerVars, reportVars, profileVars,
                         clockVars, switchVars, inboxVars, readingsVars, vars,
                         usbVars, csiVars>>

StationSpec == StationInit /\ [][StationNext]_stationVars

-----------------------------------------------------------------------------
(* Properties: those of the parts, gathered by what a user would miss.     *)

\* Every part's variables keep their types, and with them the bounds the code
\* sets itself: the notification queue, the history and the telemetry log.
StationTypeOK ==
    /\ part = "schedules" => SchedTypeOK
    /\ part = "timers" => TimersTypeOK
    /\ part = "reports" => ReportsTypeOK
    /\ part = "radio" => ProfileTypeOK
    /\ part = "clock" => ClockTypeOK
    /\ part = "transport" => SwitchTypeOK
    /\ part = "inbox" => InboxTypeOK
    /\ part = "readings" => ReadingsTypeOK
    /\ part = "delivery" => TypeOK
    /\ part = "usb" => UsbTypeOK
    /\ part = "csi" => CsiTypeOK
    /\ part = "display" => DisplayTypeOK

\* A rule runs when it is due and not again, and a deleted rule does not come
\* back with the save of a tick that had read it (schedule_engine.py).
RulesKeepTheirWord == RuleKeepsItsPace /\ [](part = "schedules" => DeletedStaysDeleted)

\* A text is recorded once though its line is worked on in several locked
\* sections; the last value of a field is shown or on its way to it; the
\* records of a remote node are spaced (server.py, telemetry.py).
HeardIsKept == HeardOnce /\ NewestIsOnItsWay /\ RemoteRecordsAreSpaced

\* The profile and the radio of the record belong together, a profile's files
\* are written for another radio only after an exchange of radios, and the
\* adapter reconnects to the node it was last connected to.
RadioIsTheRightOne == ProfileMatchesRadio /\ ForeignOnlyAfterExchange /\ AddressIsLastGood

\* A viewer gets frames of the stream that runs, but for the last one of a thread
\* that outlived its stop; no device stays open behind a stop; a generator sends
\* frames of one configuration; and the pins belong to the panel in use or to
\* nobody (usb_driver.py, camera.py, display/manager.py).
DevicesAreTheirs ==
    OneConfigurationPerFeed /\ FramesAreCurrent /\ [](DevicesAreFreed /\ ClaimFollowsDriver)
=============================================================================
