# MeshCenter verification

TLA+ specifications of MeshCenter (the Python server under `src/`), the TLC
configurations that check them on small instances, and TLAPS proofs of the
theorems that hold for every instance.

    tlasany M.tla                     parse a module
    tlc -config X.cfg M.tla           model-check a run (RUN: its module, section 3)
    tlapm MProofs.tla                 check the proofs of a module

Contents: [inventory](#1-inventory) · [modules](#2-modules) · [runs](#3-runs) ·
[where code and documents disagree](#4-where-the-code-and-its-documents-disagree) ·
[proofs](#5-proofs) · [not modelled, and limits](#6-not-modelled-and-limits) ·
[plan](#7-plan)

## 1. Inventory

MeshCenter is one Flask process (gunicorn, one worker, many threads) that owns a
Meshtastic node on a serial port or over Bluetooth, keeps the chat, exchanges
attachments over a Relay, drives a camera and a small display, and serves a browser
client. Its parts and how they meet:

| Part | State it keeps | Operations | What is hard | What makes it correct |
|---|---|---|---|---|
| **Radio port arbitration** `serial_port_supervisor.py`, `radio_manager.py`, `serial_transport.py`, `run_listener` and `radio_session` in `server.py` | `radio_lock`, `pause_listen`, `_listen_process`, connection mode | claim, session, release, reconnect, restart, the listener loop | six kinds of thread share one port through a lock, an event and a pointer, not always together; a subprocess may survive its kill | one program on the port at a time; the listener always comes back |
| **Adapter IPC** `adapter_ipc_client.py`, `ipc_server.py` | the subprocess, its two pipes, `_proc_lock` | one request line out, one answer line back | no sequence numbers; two watchdogs; abandoned threads; stray prints | an answer belongs to the call that reads it |
| **Message delivery** `api_chat.py`, `server.py`, `json_store.py` | `messages` and its file, `send_queue`, the worker's batch | send, retry, delete, batch, ACK/NAK, timeout, restart | crash with a queue in memory; a timed-out send that went out; late ACKs; a bounded history | no double send; a status is earned; nothing stays pending |
| **Inbox** `server.py` (`_handle_listener_line`, chat routes) | chats, unread counts, seen ids, deleted chats, files | hear a line, open, clear, delete, restore, restart | a line is worked on in several locked sections; clearing rebinds the list others hold | a packet is shown once |
| **Attachments, sending** `sender.py`, `service.py` | `attachments` rows, `mca_sender_state`, staged files, tombstones | create, run_step per state, cancel, resume_pending | each remote effect precedes its commit; lost answers; a crash at any point | an OFFER is sent for a complete object only; every draft settles |
| **Attachments, receiving** `receiver.py`, `service.py` | received rows, parked OFFERs, the reply outbox, files | handle_offer, run_step, consent, reject, download, replies | repeated, late and altered frames; two-transaction handlers | what is available is genuine; the sender is told the truth |
| **Attachment commands** `commands.py`, `command_registry.py`, `idempotency.py`, `facade.py`, `service.py` | command queue, reservations, idempotency rows, spool | submit, execute, publish, replay, orphan recovery | a crash between reservation, commit and answer; a repeated request | one attachment per key; no file taken for an orphan |
| **Snapshots** `snapshots.py` | the published index, the notes of what changed | note, publish, acknowledge | an open transaction that a later commit takes along | what is not shown yet is noted |
| **Keys and trust** `key_exchange.py`, `contacts.py` | bindings, parked key changes, quotas | request, announce, confirm, accept, reject | a key that changes while an attachment waits for it | a confirmed key is not replaced; nothing is sealed for another one |
| **Providers** `provider_registry.py` | profiles, the default, token files | save, default, set and clear a token, remove | file and row change one after the other | one default; no token without its row |
| **Connectivity** `connectivity_monitor.py` | statuses, back-off, identity, snapshot | refresh, publish | back-off against recovery, a stale list of profiles | a Relay that is well again is used again |
| **Transport** `transport_router.py`, `api_meshtastic.py`, `ble_transport.py` | the active transport, one lock, the adapter's link and address | delegate, switch, recover, reconnect | a switch that fails half way; the lock is given back before the recovery | a reconnect goes for the right node |
| **Listener recovery** `server.py` | health, the ration of restarts, back-off | derive, decide, restart | it decides without the lock; flickering failures | lasting failures only, within the ration |
| **Radio identity** `instance_manager.py`, `profile_manager.py`, `server.py` | `instance.json`, profiles, the verdict of the boot check | boot, accept, activate, detach | half a minute between read and save; another radio on the port | profile and radio belong together |
| **Schedules, reports** `schedule_engine.py`, `schedule_actions.py` | rules with last-run times, telemetry with ages | tick, edit, run, report | a slow tick, a save that fails, a malformed rule | a rule keeps its pace; a deletion stands |
| **Timers, notifications** `timer_service.py`, `notification_service.py` | timers, a bounded list | start, pause, resume, finish; push, read | two pages with one timer | a timer shows the time it ran |
| **Clock** `time_service.py`, `node_time_sync.py` | cached clock status, one per process | refresh, attempt | the adapter's copy of the cache | see section 4 |
| **Telemetry** `server.py`, `telemetry.py` | pending values, shown values, records | queue, take, apply, record | two locked sections of the worker | no reading is lost or overtaken |
| **Cameras** `usb_driver.py`, `camera.py`, `csi_driver.py` | device, generation, last frame, viewers | start, stop, stream, photo, modes | old threads outlive their stream | frames of the stream that runs; an unwatched camera stops |
| **Display** `display/manager.py`, `api_hardware_display.py` | pending frame, worker, driver, pins | mark, hold, render, enable, disable, re-init | abandoned driver calls that come through later | pins follow the driver; a held frame is drawn |

How they interact: `/api/send` stores a message and queues a job; the send worker
takes a batch, calls the transport router, which calls the active transport under
the router's lock; the serial transport claims the port (pausing and stopping the
listener), the claim calls the adapter subprocess, the answer updates the message.
The listener prints lines that `run_listener` turns into messages, telemetry, ACKs and
attachment frames. A request about an attachment becomes a command of the attachment
worker, a thread of its own that talks to the Relay over HTTP and to the radio through
the same router, and is shown through the snapshot. Schedules send through the same
router. The health worker restarts the listener through the port's supervisor.

Left aside, with the reason in `PROJECT.json`: updates and system control (external
programs); accounts, settings, waypoints (a file or a list behind a lock); attachment
formats, cryptography and migrations (data, not control); the browser client;
installers and tools.

The list of what is hard to test, each at its line and with the properties that
cover it, is `hazards` in `PROJECT.json`; section 6 names the ones it leaves out.

## 2. Modules

A definition that begins with the comment `Fault:` is not part of the system: it is a
plausible bug, used to show that a property would notice it. `MC` modules only declare
model values and symmetry sets; modules without one take model values straight from
their `.cfg`.

    PortArbiter <- RadioPort (refinement) <- MCRadioPort
                                                RadioPortProofs <- RadioPortPauseProofs
    RequestAnswer, AdapterIPC <- MCAdapterIPC   AdapterIPCProofs
    MessageDelivery                             MessageDeliveryProofs
    AttachmentMedium <- AttachmentSender, AttachmentReceiver
                     <- AttachmentExchange <- MCAttachmentExchange
    AttachmentHandover <- AttachmentExchange (refinement)
                                                AttachmentProofs
    Notifications <- Timers
    UsbCamera, Display                          DeviceProofs
    Station = Schedules, Timers, DataReports, RadioProfile, NodeClock, TransportSwitch,
              Inbox, Readings, MessageDelivery, UsbCamera, CsiCamera, Display
                          StationProofs <- DeviceProofs, MessageDeliveryProofs
    Workers = AttachmentCommands, Snapshots, KeyTrust, Providers, Connectivity,
              ListenerHealth, UsbCamera, Display
                          WorkersProofs <- DeviceProofs

### PortArbiter and RadioPort: who is on the serial port

One action per step between two points where another thread can run. `lock` is the
owner of `radio_lock`, `pause` is `pause_listen`, `listenProc` the shared pointer
`_listen_process`, `pstate` the listener subprocesses, `lpc`/`lproc`/`lcur` the place
and the locals of `run_listener`, `pc` the place of each requesting thread and `target`
its local `proc`, `athread` the thread a claimer's command runs on in the adapter.

- `Listener…` is the loop of `run_listener`: wait while paused, spawn under the lock
  after a second look at the pause, read, note the end, classify it, forget the
  process. Locals are read where the code reads them, so a stale one is visible.
- `PauseListener`, `ReadListenProcess`, `KillListener`, `ForgetListener` are the
  steps of `stop_listener_process`, which all requesters share.
- `Claim…`, `Adapter…` (`claim_exclusive_access` around one adapter command),
  `Session…` (`radio_session`), `Restart…` (no lock at all), `Release…`, `Reconnect…`.
- `StatusPoll` is `get_status`, which completes a reconnect when it sees the listener.

Subprocesses come from a finite set of identities and are reused when dead and
unreferenced; `Procs` bounds how many live at once. Time is abstracted: every timeout
is a nondeterministic outcome.

`PortArbiter` is what the arbitration promises, without the lock, the pause and the
pointers: the port is granted to one requester at a time, who finds it free, may open it
and gives it back closed; a listener opens it only while nobody has it, and leaves before
the next grant. `Arbiter == INSTANCE PortArbiter WITH granted <- Working, users <-
PortUsers` is the refinement (`Working`: the threads inside their block); `RP_commands`
checks `ArbiterSpec`, `ImplementsArbiter` proves it. A claim that is refused, a stop, a
pause and every step of the listener but its spawn and its end leave the port as it is.

### RequestAnswer and AdapterIPC: the adapter subprocess

`RequestAnswer` is what a caller is promised: requests are numbered, one caller at a
time is busy, and a call returns the answer to its own request or nothing. `AdapterIPC`
is the code: a lock, a subprocess that is started when needed, a request line, a reader
that skips a bounded number of stray lines, a watchdog on each side, and the kill that
ends every exchange that did not end with its answer. Nothing in it numbers a line: the
numbers the model gives lines are history, which no guard reads.
`Service == INSTANCE RequestAnswer WITH busy <- plock` is the refinement; the run checks
`ServiceSpec` and `ImplementsService` proves its safety part. `StrayParses` is a switch
for a stray print that is valid JSON; the code cannot tell it from an answer, so
everything about answers assumes it is FALSE.

### MessageDelivery: from /api/send to a final status

`mem` and `disk` are the list of outgoing messages and its file, cut to `MaxHistory` by
every `Store`; `queue`, `batch`, `results`, `at` are the send worker; `orphan` holds what
an abandoned adapter thread may still transmit; `air` is every transmission so far.
`Post` and `Enqueue` are the two halves of `/api/send` (store, then queue), `Retry` and
`Delete` its neighbours, `WorkerTakes` … `HandleResult` the worker, `WorkerExcept` its
handler for an exception in the middle of a batch, `AckArrives` and `AckTimesOut` the
listener and `ack_timeout_worker`, `Crash` and `Restart` the process. `SaveMayFail`
makes a write of the file fail silently, as `safe_write_json` does; `HandlerMayRaise`
lets `_handle_send_result` raise after its update. `Delete` and `Retry` assume that no
chat was cleared since boot; what happens otherwise is in `Inbox`.

### AttachmentMedium, AttachmentSender, AttachmentReceiver, AttachmentExchange, AttachmentHandover

`AttachmentMedium` is what both sides see: the Relay, translated from the repository's
`MockRelayStore`, and the radio, of which only the set of frames ever transmitted is
kept, because it may lose, repeat, delay and reorder: a receiver sees any of them at any
time, any number of times.

`AttachmentSender` is `run_step()` and `_command_cancel()`, split at every remote effect
and every commit; `worker` says how far the one worker thread has come. For every request
to the Relay there is the answer, the answer that is lost after the effect
(`LoseUpload`, `UploadPart` with `Rest`, `LoseCommit`) and the refusal. `SenderCrash` may
come at any point and leads to `resume_pending()` (`BootStep`, `BootRaises`, `BootDone`),
after which the worker runs or, if the pass raised, never starts (`dead`). `DueRows` is
the bounded window of a tick.

`AttachmentReceiver` is `handle_offer()` in its two transactions, `run_step()` of the
waiting states (`Advanced`), a download in its four steps (fetch, write, complete,
record), the reply outbox and `reconcile_pending()` after a crash.

`AttachmentExchange` composes them: they share the medium and nothing else. Fairness and
properties are stated there.

`AttachmentHandover` is what the exchange promises, without the two machines: a file is
stored whole, offered, received and confirmed, one stage after another, and no stage is
left out or taken back. `Handover == INSTANCE AttachmentHandover WITH stored <- the
transfers whose object at the Relay is whole, received <- the rows that are AVAILABLE,
confirmed <- acked` is the refinement (`offered` is the medium's variable of that name);
`AX_exchange` checks `HandoverSpec`, `ImplementsHandover` proves it. Every step of the
machines is a step of it or a stutter, in particular every crash, lost answer and expiry.

### Station and Workers: the other parts of the process

The remaining parts live in one process but none of them reads what another one writes,
except that schedules, timers and reports append to the notifications (of which the model
keeps the timers'). Composing them
as an interleaving would multiply their states and show nothing more: no property of one
can depend on a variable of another. `Station` and `Workers` therefore carry a variable
`part`, chosen at the start and constant; a behaviour follows that part and leaves the
others in one fixed initial state. The states of the parts add up instead of multiplying,
and a property of a part speaks about exactly its behaviours. `Station` asks for safety
and has no fairness; `Workers` has the parts of which something is expected in the end,
with fairness for the followed part only. `UsbCamera` and `Display` are in both: safety
with larger bounds, liveness with smaller ones.

| Module | Code | State | Steps between which others run |
|---|---|---|---|
| `Schedules` | `schedule_engine.py` | the file of rules, the tick's list, last runs, the lock | a tick holds the lock from load to save, one step per rule and the save; editors wait; a save may fail, a rule may be malformed, the process may restart |
| `Timers` | `timer_service.py`, timer routes | state, banked time, segment start, per page a finish under way | each call is one critical section; `finish` marks, then notifies |
| `DataReports` | `schedule_actions.py` | a reading per field with its age, the last report | one report; one scheduled message (send, then history) |
| `Notifications` | `notification_service.py` | the bounded list | one critical section each |
| `RadioProfile` | `instance_manager.py`, `profile_manager.py`, `server.py` | what is plugged, saved, bound, the server's copy, the listener, requests | activation reads, probes, saves; the assignment thread waits, reads, saves; a radio is exchanged at any time |
| `NodeClock` | `time_service.py`, `node_time_sync.py` | two caches, ages of attempt and success | settle, claim, try, in two processes |
| `TransportSwitch` | `transport_router.py`, `api_meshtastic.py`, `ble_transport.py` | active transport, lock, address, link, cached states, settings | a switch under the lock, the recovery under another acquisition of it, a kill of the adapter |
| `Inbox` | `server.py` | history, the routes' stale list, chats, unread, seen ids, files | every locked section of one heard line |
| `Readings` | `server.py`, `telemetry.py` | pending, taken and shown values, the log of records | the buffer worker's two locked sections |
| `UsbCamera` | `usb_driver.py` | generation, device, frame, threads of every generation, viewers | every unlock, conversion and join; a thread may outlive its join |
| `CsiCamera` | `camera.py`, `csi_driver.py`, `api_camera.py` | one Picamera2, generation, power, feeds | a feed's two looks at the generation; close in two locked sections; a photo |
| `Display` | `manager.py`, drivers, `gpio_registry.py`, routes | pending frame, worker, driver, pins, abandoned calls | every wait and every call with a time limit |
| `AttachmentCommands` | `facade.py`, `idempotency.py`, `service.py`, `commands.py` | requests, spool, reservations, queue, registry, rows, index | every step of a request; a tick's drain, commit, publication, clean-up |
| `Snapshots` | `snapshots.py`, `service.py` | committed and viewed rows with notes, the published index | write, commit, refresh, a refresh that cannot commit, a rollback |
| `KeyTrust` | `key_exchange.py`, `contacts.py`, `sender.py` | bindings, the pages' list, quotas, one letter | one transaction each; a letter is asked for, drafted and sealed apart |
| `Providers` | `provider_registry.py` | rows, token files | file and row apart, a crash between |
| `Connectivity` | `connectivity_monitor.py` | what answers, what was found, failures, ages, snapshot | list of profiles, probes, publication |
| `ListenerHealth` | `server.py` | listener, pause, health, ration, back-off | check, decision without the lock, restart |

## 3. Runs

| Run | Module | Instance | What it shows |
|---|---|---|---|
| `RP_commands` | `MCRadioPort` | 2 claims, 1 session, 2 subprocess identities | exclusive access, the port is granted and left as `PortArbiter` says, the pause always has an owner, the read listener is the reachable one; the listener comes back |
| `RP_release` | `MCRadioPort` | one of each requester; a kill may fail | no session works while the radio is released, in every mix of requesters |
| `RP_reconnect` | `MCRadioPort` | a send command that may time out, a session, a release, a reconnect; kills succeed | a reconnect does not stay "reconnecting", unless it overtakes a session that has not set its pause yet |
| `IPC_calls` | `MCAdapterIPC` | 2 callers, 4 requests, 1 stray line tolerated | answers belong, pipes are drained, nothing runs behind a returned call; implements `RequestAnswer` with its liveness |
| `MD_faults` | `MessageDelivery` | 2 messages (1 direct), 2 transmissions, 2 askings each, one message retried, 1 crash, failing saves, a handler that raises | no message without a job, no double send, statuses are earned, every message resolves |
| `AX_exchange` | `MCAttachmentExchange` | 1 attachment, 2 transfer ids, one crash, on either side | sender, Relay and receiver stay consistent, implement `AttachmentHandover`, and both sides end their work |
| `ST_station` | `Station` | twelve parts | safety of the parts, see below |
| `WK_workers` | `Workers` | eight parts | safety and liveness of the parts, see below |
| `RP_release_overridden`, `AX_restart`, `IN_deletion`, `DR_stale_report` | | smallest that show it | section 4 |

Properties of `AX_exchange`: a file is confirmed only after it was received, received only
after an OFFER, and offered only when the Relay has all of it (`HandoverSpec`); no object is left at the Relay without an owner or a tombstone
(`NoForeignObject`); a cancelled attachment cannot be downloaded (`CancelledIsWithdrawn`);
what is available came from a verified OFFER and is on disk (`AvailableIsGenuine`); the
sender is told "downloaded" only by a receiver that has the file (`DownloadedAckIsTrue`);
settled rows stay settled (`SettledIsFinal`); drafts settle unless a restart or a crash
inside a cancel strands them (`DraftSettlesUnlessStranded`); downloads end and the outbox
drains (`DownloadsEnd`, `OutboxDrains`).

Properties of `ST_station`, each a conjunction over the parts it names:

- `OneJobPerMessage` (delivery): no message has two jobs, with two messages in a
  history of one, so that the cut takes messages whose job is queued. `FinalIsFinal`: a
  message that was delivered or given up on stays so. Both without a handler that raises;
  section 4 says what one does.
- `TimerKeepsTime` (timers): a timer shows the time it ran, whatever two pages do with it.
- `HeardIsKept`: a packet is shown once while its id is remembered, although its line is
  worked on in several locked sections (`HeardOnce`); the last reading of a field is shown
  or on its way (`NewestIsOnItsWay`); the records of a remote node are spaced.
- `RadioIsTheRightOne`: the stored profile and radio belong together, whoever saves last
  (`ProfileMatchesRadio`); a radio writes into another one's profile only after somebody
  exchanged it (`ForeignOnlyAfterExchange`); the adapter's address is that of the last
  node it reached (`AddressIsLastGood`).
- `RulesKeepTheirWord`: a rule runs once in its minute, interval or life
  (`RuleKeepsItsPace`); no tick brings a deleted rule back (`DeletedStaysDeleted`).
  A last run that the file may not have is not held against a rule: after an update that
  does not send it, after a run that a raising tick or a restart left unsaved, and, for a
  daily rule, after a restart, whose first tick comes at once (`Forget`). The next run
  counts again.
- `DevicesAreTheirs`: a generator of the CSI camera sends frames of its own configuration
  only, and the display's pins belong to the panel in use or to nobody. Of the USB camera:
  a stream never begins with an old frame, and the only old frame that can enter it is the
  last one of a thread that was still in a conversion when `stop()` gave up its two seconds
  and closed the device (`FramesAreCurrent`); every open device is that of the running
  stream or one a stop is about to close, so that no later start meets a device that was
  left open (`DevicesAreFreed`).

Properties of `WK_workers`:

- `AttachmentsAreKept`: a key makes one attachment, with the content it was first asked
  for (`OneAttachmentPerKey`); the file of a command that waits or of a row that was not
  cancelled is never taken for an orphan (`SpoolIsKept`); what the snapshot does not show
  is noted for the next one (`LagIsNoted`).
- `TrustIsKept`: a confirmed key is not replaced, and a letter is sealed only for the key
  that is trusted at that moment (`TrustIsPinned`); a default is lost only with its own
  profile (`DefaultIsKept`); a token is named by a row (`NoSecretLeftBehind`).
- `RestartsAreRationed`: the listener is restarted for a failure that lasts, and at most
  `MaxRecoveries` times in a window.
- `WorkEnds` (liveness): reserved keys are set free (`ReservationIsReleased`), a Relay that
  is well for good is used (`RecoveryIsNoticed`), a stuck pause of the listener ends
  (`StuckPauseEnds`), an unwatched camera stops (`UnwatchedStops`), a frame that is held
  back is drawn or dropped (`HoldIsBounded`).

The type invariants of both also hold the bounds the code sets itself: the notification
list, the history, the telemetry log, the command queue, the announcements of an hour.

### Bounds and why they are enough

- *Threads and callers.* Two claimers and a session give every pair of lock users; one
  thread of each other kind is enough because each kind meets every other. Two subprocess
  identities let an old listener outlive the spawn of a new one.
- *Requests.* Four requests let two callers each leave an exchange unfinished and meet its
  debris. `MaxNonJsonLines = 1` (50 in the code) makes giving up reachable. `MaxLines`
  bounds unread lines only.
- *Messages.* Two, for a batch with a first and a second job; two transmissions and two
  askings allow a retry beside a timed-out batch (the invariants of `MD_faults` were also
  checked once with three of each). `MaxRetried` bounds how many messages are retried: one
  there, both in `ST_station`, which has three askings and a history that is too short for
  both, and neither crash nor failing handler.
- *Attachments.* One, since rows share only the window of the tick. Two transfer ids: one
  abandoned, one fresh; `LoseUpload` asks for a fresh id to remain, so that the bound and
  not the code never decides an outcome. Two parts: a chunk and the manifest. One crash,
  of either side (`MaxCrashes = 1`), may come at every point; what a second one, of the other
  side, could meet is on the Relay and in the air, which survive the first. `MaxPerTick = 1`
  (8 in the code) makes the window bind. The theorems hold for any number of attachments, ids,
  parts and crashes.
- *Clocks.* `Schedules` has minutes of three units, so that a tick can come in one minute
  and a second time in it, and the gap of 50 seconds (`MinGap = 2`) lies between; two rules
  fit into the file, so three modes and a malformed one meet in pairs. `Timers` runs to
  4: a segment, a pause and a second segment. `NodeClock`'s cool-down and interval of 2 can
  each be the one that binds. `ListenerHealth`'s window of 4 is wide enough that a ration of
  one binds: a ration that let one more through is noticed. `Connectivity`'s ceiling of 3 is reached by the second failure (2 ^ failures, capped).
- *Inbox.* One packet id in `ST_station` (the code treats ids independently), two in
  `IN_deletion`; `MaxSeen = KeptIds = 0` makes every clean-up forget.
- *Cameras and display.* Four generations in `ST_station`: a stream, its photo and the stream
  after it, with threads of every one of them alive, and three streams of the CSI camera;
  three generations in `WK_workers`, for liveness. `UnwatchedStops` excepts the last two generations,
  where the bound itself stops things. A re-initialisation builds up to two drivers
  (`MaxDrivers = 2`, in `ST_station`); `WK_workers` has one, for liveness.
- *Queue, history, lists.* A command queue of one, a notification list of two, a log of
  three and a seen-set of none all bind.
- `CHECK_DEADLOCK FALSE` where a bounded behaviour ends: all requests made, all messages
  final, all attachments settled, the clock at its bound. The RadioPort runs check deadlock.

### Fairness

- *RadioPort*: each thread that is inside an operation takes its next step (it only
  waits for the lock or for a bounded sleep), the listener thread runs, and `StatusPoll`
  happens: the page and the e-paper display poll it (`server.py` 576-577, 5411-5419).
  Nobody has to start a request, and subprocesses need not exit.
- *AdapterIPC*: `CallStep` of a caller that is inside a call, weakly. Its own timeout is
  such a step. Nothing at all is assumed of the subprocess.
- *MessageDelivery*: the worker, `ack_timeout_worker` and a restart after a crash go on.
  ACKs need not arrive and users need not retry.
- *AttachmentExchange*: each worker finishes what it is in the middle of (weak), steps
  its due rows, and a request that is repeated for ever is answered some time (strong,
  since a lost answer disables the step). Users, crashes, frames and expiry have none.
- *Workers*: of the followed part only. The attachment service's thread ticks, and what a
  full disk or a busy database refuses now it does not refuse for ever (strong fairness of
  the publication and of the orphans' recovery); the monitors' threads run and a refresh
  ends, since every probe has a time limit; time passes for cameras and display, whose
  driver calls have time limits too. Relays, viewers, pages and crashes have none.
- *Station* has none; it is checked for safety.

Properties that speak of what comes after the environment has calmed down say so:
`ListenerComesBack` and `ReconnectCompletes` speak of the time after requests have ceased,
`RecoveryIsNoticed` of a Relay that is well for good, `StuckPauseEnds` of recovery that
stays on and a radio that is not released.

## 4. Where the code and its documents disagree

Each of these runs checks one sentence of the repository against the code and finds it
violated; `findings` in `PROJECT.json` quotes the sentence.

- `RP_release_overridden`: `claim_exclusive_access` clears `pause_listen` at its end
  whatever set it; a release that came in between is left with a running listener, and a
  command may use the port of a released radio. The same check-then-clear is in
  `radio_session` (`server.py:3540`).
- `AX_restart`: the pass over the rows at startup has no Relay, no radio and no recipient
  identities at hand. A row that needs one makes it raise, and the worker is never started.
- `IN_deletion`: clearing a chat assigns a new list of messages, while the routes of
  `api_chat` keep the one they were registered with. A deletion after that is answered with
  ok and the message stays.
- `DR_stale_report`: under `skip_if_stale` a data report is skipped when its data is fresh
  and sent when it is stale: the test of the policy is the `elif` of the test of the age.

Other facts met on the way, without a run of their own:

*Port and adapter.* A `send_packet` that times out is answered like any result
(`serial_transport.py:360`, against `adapter_ipc_client.py:409`) while its thread still has
the port open; hence `Senders = {}` wherever exclusive access is claimed. A listener stopped
by a claim is reported as an unexpected exit (`StopsReportedAsIntended` does not hold): the
listener thread needs `radio_lock` to classify its end, and gets it only after the claim has
cleared the pause. With a restart overlapping a claim a listener just spawned can be
forgotten, so `ArbiterSpec` and `ListenerReachable` are not claimed with restarters, nor
`PauseHasOwner` with releases: recovery and reconnect clear a pause that is another's.
After the adapter was killed its Bluetooth address is empty, and a reconnect goes for any
node. A failed switch to serial has no recovery; a refused one still runs the serial
recovery (`transport_router.py:84-88`); boot always starts on serial.

*Messages.* `api_chat.py:175-178` says the transport never raises there;
`TransportRouter` and `AdapterIPCTransport._call` do. The model has it (`SendRaises`). A
message retried while its batch is still handled can be failed again by the handler of an
exception in that batch, and retried into a second job (`api_chat.py:221-230`); that is why
`OneJobPerMessage` and `FinalIsFinal` assume that no handler raises, as their theorems say. Direct texts are lost
in a fresh profile: its file of deleted chats holds `[]`, whose `.get` raises
(`profile_manager.py:148`, `server.py:1439-1446`). Deleted chats reappear at a restart.

*Attachments.* A crash inside a cancel, between the unlink and the commit, leaves a row whose
later steps raise `FileNotFoundError` at every tick; a cancel that revoked and then could not
unlink leaves a READY_TO_SEND row that is offered although it is gone (`service.py:1507`). A
crash between the two transactions of `handle_offer` leaves a row in OFFER_RECEIVED, which
nothing steps (`receiver.py:781`). A connection error in `/complete` writes the file again
under a new name. The comment of a draft is lost when the answer to `create_upload` is
(`sender.py:536-548, 687`, against `tests/test_sender.py:453`). Rows that cannot progress
occupy the window of a tick, which is ordered by age, so younger ones are not stepped
(`service.py:610, 1861`). A letter can fail for a key that is fine (`sender.py:372-377`), and
a suspect Relay can be reported ready (against ADR-0008:87).
What `snapshots.py:965, 977` calls "a harmless retry" of an acknowledgement that failed is
not harmless when a handler left its transaction open: the rollback takes that handler's
change along, the published index keeps showing it, and no note is left (`torn` in
`Snapshots`, the exception in `LagIsNoted`).

*Automation and identity.* A rule that fired before a restart, or was edited since, fires
again in the same minute once 50 seconds have passed. The radio's identity is verified at
boot only; a radio exchanged later writes into the bound profile (`server.py:5935`). The
thread that records the installation's time can revert an activation, and the time can be
saved again (`installation_time_assignment.py:27-28`). The adapter's copy of
`time_service` is never refreshed, so node time sync on connect always finds the clock
untrusted (`node_time_sync.py:41-42, 124-128`). Steady telemetry more frequent than the
debounce is never applied.

*Devices.* A conversion that outlasts the two seconds of `stop()` puts its frame into
whatever USB stream runs by then, with the size of the old one: the reader looks at the
generation before the conversion and not after it, and `stop()` closes the device and
clears the frame whatever its join returned (`usb_driver.py:492-515, 747, 761-776`). A photo
taken at another size can be that frame (`:650-663`). It is at most one per thread, which is
what `FramesAreCurrent` says. The USB watchdog can stop a stream that has just got viewers
(`usb_driver.py:782`); a frame request restarts a CSI camera a stop has just stopped
(`camera.py:581`), and a close in two sections can leave `camera_started` set without a
camera; a rescan opens a camera that is powered off. Enabling the display while its old
worker still ends has no effect (`server.py:6148`), and two enables at once may start two
workers; a swap may begin while the worker stands between its gate and `idle.clear()`
(`manager.py:226-229`).

## 5. Proofs

Every safety invariant and every action property of a passing run is the statement of a
theorem, for every value of the constants. What the proofs assume: the named assumptions of
the modules, which every run evaluates, and the hypotheses written in a theorem
(`Senders = {}`, `Undisturbed`, `~StrayParses`, `~HandlerMayRaise`), each of which a run
instantiates. Each proof has one step per action of the next-state relation, over an
inductive invariant, which TLC checked on the runs' instances before it was proved.

| Property | Theorem | Property | Theorem |
|---|---|---|---|
| `TypeOK` (port) | `TypeCorrect` | `TypeOK` (exchange) | `ExchangeTypeCorrect` |
| `ExclusiveWork` | `ExclusiveAccess` | `HandoverSpec` | `ImplementsHandover` |
| `ArbiterSpec` | `ImplementsArbiter` | `NoForeignObject` | `NoObjectIsForgotten` |
| `PauseHasOwner` | `PauseIsOwned` | `CancelledIsWithdrawn` | `CancelWithdraws` |
| `ListenerReachable` | `ListenerIsReached` | `AvailableIsGenuine` | `AvailableFilesAreGenuine` |
| `SessionsRespectRelease` | `SessionsKeepOut` | `DownloadedAckIsTrue` | `DownloadAcksAreTrue` |
| `TypeOK` (pipes) | `ExchangeTyped` | `SettledIsFinal` | `SettledRowsAreFinal` |
| `AnswerBelongs` | `CallsAnswered` | `StationTypeOK` | `StationIsTyped` |
| `PipesDrained` | `NothingLeftBehind` | `TimerKeepsTime` | `TimersKeepTime` |
| `NoWorkBehind` | `NothingRunsBehind` | `RadioIsTheRightOne` | `RadioStaysTheRightOne` |
| `ServiceSpec`, safety | `ImplementsService` | `HeardIsKept` | `WhatIsHeardIsKept` |
| `PendingHasJob` | `PendingOnItsWay` | `DevicesAreTheirs` | `DevicesStayTheirs` |
| `OneJobPerMessage` | `OneJobEach` | `RulesKeepTheirWord` | `RulesKeepTheirPace` |
| `StatusIsEarned` | `StatusEarned` | `WorkersTypeOK` | `WorkersAreTyped` |
| `FinalIsFinal` | `FinalStays` | `AttachmentsAreKept` | `AttachmentsStay` |
| `NoDoubleSend` | `SentAsAsked` | `TrustIsKept` | `TrustIsNeverLost` |
| | | `RestartsAreRationed` | `RestartsAreRare` |

Two things about the form. The library's induction theorems cannot be used here, so where a
proof needs a least element or a recursion along a list it goes through `LeastNumber`, which
follows from the well-foundedness of inclusion of finite sets, and through `UpTo` and its
likes, which step a recursive function from n to n + 1. And models say by recursive functions
and set comprehensions what could also be said by a fold, because those can be reasoned about.

**RadioPortProofs.** `TypeCorrect`: `Spec => []TypeOK`. By itself `TypeOK` is not
inductive: `ListenerNote` and its successors index `pstate` with the local `lproc`, so
`ProcInv` says that it is a subprocess while the loop is past a spawn.
`ExclusiveAccess`: `Senders = {} => (Spec => []ExclusiveWork)`. The argument: exactly the
thread between acquire and release owns `radio_lock` (`LockInv`); an adapter thread belongs
to a claim that still waits for it (`AdapterInv`, the part that a swallowed timeout breaks,
hence the hypothesis); and no listener is alive while somebody works (`WorkInv`), since
`work` is entered only after a check under the lock and a spawn needs the lock. Actions of
threads that are not lock users go through `OthersKeepPc` and `QuietStep`, steps of the
lock's owner through `OwnerStep`.

**RadioPortPauseProofs.** What `pause_listen` and `_listen_process` mean. `OneUserOfThePort`
(`OnePortUser`, at most one program has the port open), `PauseIsOwned` (`PauseHasOwner`) and
`ListenerIsReached`
(`ListenerReachable`) under `Undisturbed`: no request that stops the listener without the
lock, no listener that survives a kill, no swallowed timeout - the setting of `RP_commands`,
and by section 4 the code does not keep them in a wider one. The inductive invariant
`HolderInv` says that a lock holder past its stop has left no listener and on the way there
knows the only one (`StopInv`), that a set pause is the lock holder's (`PauseInv`), and that
the listener thread starts the next listener only when there is none (`ListenInv`).
`ImplementsArbiter` (`Undisturbed => (Spec => ArbiterSpec)`) is a step simulation over these
invariants, through what they say of the port (`GrantInv`: a thread that works is the only
one, no listener is alive and nobody else has the port open; otherwise only the listener can
be on it). One lemma per abstract step (`GrantStep`, `GiveBackStep`, `LeaveStep`, `PortStands`
for a stutter), then one per kind of thread.
`SessionsKeepOut`: `Senders = {} => (Spec => []SessionsRespectRelease)`, with restarts,
releases and unkillable listeners: `ReleaseInv` says that there is one releaser at a time, that
the mode names it, and that from its stop under the lock on every session is outside its block.

**AdapterIPCProofs.** With `~StrayParses`: `CallsAnswered` (`[]AnswerBelongs`),
`NothingLeftBehind` (`[]PipesDrained`), `NothingRunsBehind` (`[]NoWorkBehind`) and
`ImplementsService` (`Spec => Service!SafetySpec`). The inductive invariant is `TypeOK`,
`LockInv` (the owner of the lock is the one caller inside a call, its request the newest),
`PipeInv` (outside "wait" the pipes hold no request and no answer; inside they hold at most
one of either, with the current number) and `AnswerBelongs`. It is needed because only
`PipeInv` says where the line at the head of stdout comes from: every way out of "wait"
either takes the one answer or kills the subprocess with its pipes. `WorkInv` adds that an
abandoned operation has left its TIMEOUT in the pipe, whose reader kills it. `ExchangeTyped`
(`[]TypeOK`) needs no hypothesis: `LockInv` alone gives the owner a number in range, whatever
is printed.

**MessageDeliveryProofs.** `TypeCorrect` needs `PlaceInv`: where the worker stands bounds
what its locals hold. `PendingOnItsWay` (`PendingHasJob`): the jobs are in three places,
between store and queue, in the queue, ahead in the batch; every action either leaves that
union alone, moves a job within it, or settles the message it takes out; a restart fails what
is pending in the file. `OneJobEach`: `~HandlerMayRaise => (Spec => []OneJobPerMessage)`.
`OwnJobs` (no job twice, in one place or in two) is not inductive without
`WaitingIsPending` (a message with a job is shown as pending, so Retry refuses it) and
`AskedInv` (an id with a job is taken, so Post cannot use it). `StatusEarned`
(`StatusIsEarned`): a record that claims a transmission names one that happened (`Good`),
in memory, in the file, and in the results the worker still has to apply (`ResultsInv`);
transmissions and ACKs only grow. `FinalStays` (`FinalIsFinal`, with `~HandlerMayRaise`):
`IdsInv` says that an id names one record of the history, so that an update and a retry touch
the message they mean; then no result that is still to be applied and no late ACK meets a
final status. `SentAsAsked` (`NoDoubleSend`) counts: `BudgetInv` says that the transmissions of
a message and its jobs that may still be transmitted - being posted, queued, ahead in the
batch, in an abandoned thread - are together at most as many as it was asked for; a
transmission uses up a job, a job uses up a request. Lemmas such as `KeepLastKeeps`, `ChangedKeeps` and
`WithoutKeeps` say what the operations on the history return.

**AttachmentProofs.** The sender and the receiver share the Relay and the air, and write
different parts of them, so each side has an invariant the other cannot disturb.
`SenderInv`: a transfer id is one row's, tombstoned or unused (`IdsAreOwned`); what state a
row is in says what its object can be (`RowFits`: one without a session has no finished
object, one that is offered has a whole one, a cancelled one has none that can be
downloaded); and the same for the row the worker stands in the middle of (`WorkerFits`),
which is what survives a lost answer or a crash between an effect at the Relay and its
commit. `ReceiverInv`: a row past its first state came from a verified OFFER, one that is
available has its file and owes or has sent its ACK (`InboxFits`), and what the worker
fetched or saved belongs to a row that is downloading (`ReaderFits`). Seven theorems are
corollaries, `SettledRowsAreFinal` with one lemma per side about what a step does to a
settled row; `OfferedObjectsAreComplete` (`[]OfferedIsComplete`) is one of them.
`ImplementsHandover` (`Spec => HandoverSpec`) is a step simulation over `HandoverInv`, these
invariants and `RowsWereOffered`: the receiver has no row that nobody offered, needed because
the abstract `Receive` asks for a transfer that was offered, while `ReceiverInv` alone speaks
of verified OFFERs of rows past their first state. `SenderMoves`, `ReceiverMoves` and
`ExpiryMoves` say what a step of each side does to the four stages: it makes one object
whole, or offers a whole one, or receives, or confirms, or none of these. A step that only
writes a row is none of these: the stages are read off the Relay, the air and the
receiver's rows, never off what the sender believes.

**DeviceProofs.** Lemmas about the two devices both compositions hold. `UsbInv`: a running
stream has the only open device, and every other open one is noted by the stop that will
close it. So a thread that writes a frame while a stream runs is the stream's own, or its
device was closed under it and this is its last step (`ReaderShows`); everybody else leaves
the frame or clears it (`OthersShow`). Nobody is counted as a viewer who is not there, a fact
about cardinalities. `DispInv`: while a request for another model is under way the driver is the
saved model's until it is installed and the one asked for from then on, and the way back
leads to the saved one.

**StationProofs.** Theorems of `StationSpec`, through `PartSteps` (a step of Station is a
step of one part or leaves it alone).
`TimersKeepTime`: `TimerInv` adds that a running timer has an anchor and none lies in the
future. `RadioStaysTheRightOne`: `RadioInv` says that copies under way have profile and radio
of one radio, and that the listener was started only when the port had the bound radio or
nothing; the address is that of a link that was made.
`WhatIsHeardIsKept`: `OnceIn` (an id is in the history once, and what is remembered or
dropped) is kept because a cut, an expiry and a deletion leave a part of the list (`PartOf`,
and `WithoutIsPart`, `LatestIsPart` about the operators), and because the line the listener
stands in the middle of has its id noted and its text not recorded (`LineInv`). `BufferInv`
and `LogInv` do the same for readings; that a trimmed list of spaced records is spaced is
`TrimmedSpaced`.
`DevicesStayTheirs`: `DeviceProofs` (the exception of `FramesAreCurrent` is part of what is
proved: without it the statement is false), and `CsiInv`: what a generator holds is not older than
the generation it serves, so its second look at the generation lets only its own pass.
`RulesKeepTheirPace`: `LockInv` says that whoever owns the lock has the rules and what the
file may not know is what this tick executed and did not save; `OnRecord`, that such a list
has every rule once, none that was deleted and every last run that was not
forgotten.
`MinuteInv` is what makes the 50 seconds of `_should_fire` irrelevant for a daily rule: a
tick begins in a later minute than every execution before it, and executes a rule once. The
proof needs that a rule has one trigger mode, now part of `SchedulesAssumption`.
`StationIsTyped` adds the types of the other parts.

**WorkersProofs.** Theorems of `WorkersSpec`, its `PartSteps` likewise.
`AttachmentsStay`: `CmdInv` follows an attachment from its request to its row. A command
waits once and nothing else has happened to it (`QueueInv`); a row is that of an accepted
create, and no two rows have one key (`RowInv`); between the move to its final name and the
queue a file is there (`StagedInv`); whatever is named to a request, in the registry or in an
answer, is a row of the same key (`NamedInv`). `LagInv` says of the snapshot that rows and
notes travel in one transaction: what differs from either view of the database is noted in it.
`TrustIsNeverLost`: `KeySteps` needs only the types, since a binding is written in one
transaction and a letter looks at it when it is sealed; `ProvInv` says what holds between the
two steps of an operation on a token (`DoingFits`) and that there is one default.
`RestartsAreRare`: `HealthInv` says that the failure being waited out began after the last
check that saw the listener well, and that the attempts the worker counts are those the
history counts; `FewAttempts` bounds them. `WorkersAreTyped` adds `ConnTypeOK` and the devices.

## 6. Not modelled, and limits

- Only model-checked: liveness, that is every property with `~>` or `<>` (`ListenerComesBack`,
  `ReconnectCompletes`, `EveryMessageResolves`, `DraftSettlesUnlessStranded`, `DownloadsEnd`,
  `OutboxDrains`, `WorkEnds`) and the liveness part of `ServiceSpec`: the prover has neither
  fairness nor ENABLED. The four runs that expect a violation are counterexamples.
- `OneJobPerMessage` and `FinalIsFinal` are proved of `MessageDelivery` and checked in
  `ST_station`, where it is the part "delivery".
- Not modelled, with the reasons in `PROJECT.json`: attachment formats and cryptography,
  accounts and settings, waypoints, updates, the browser, installers. Of modelled parts:
  reactions, names and positions of nodes; import and export (an import drops a node's
  telemetry); admission limits and quotas of attachments (they postpone or refuse);
  days of the week in rules; setting the time by hand; pictures' controls; drawing.
- Clocks and budgets are abstracted: a watchdog may fire at any time while its work is under
  way, and a join with a time limit may end with its thread still at work (the USB camera's
  in a conversion, the display's in a call). That budgets add up is not covered.
- `RadioPort` is about a process whose radio was recognised at boot. With any other verdict
  the listener thread returns at once (`server.py:3669`), and afterwards the verdict only
  ever becomes `MATCH` (`:5116`); so the identity half of `is_radio_available()` (`:3450`) is
  true wherever there is a listener, and `SessionRestores` tests the other half alone.
- `AdapterOpen` asks that nobody has the port, as the adapter's own check under its lock
  does; a check that is wrong about a free port is not modelled.
- `ListenerHealth` leaves out the `except` branch of a restart (`server.py:4253-4262`):
  `stop_listener()` catches its own errors and nothing after it is expected to raise.
- `Display` makes one step of a start's claim: the worker's look at the manager's driver,
  the abandoned thread's way to the registry, and the test and assignment in
  `gpio_registry.py:43-48`, which no lock guards. Two models that claim overlapping pins
  between each other's test and assignment are not covered.
- `NodeClock` has no property of its own beyond `StationTypeOK`.
- `on_ack_received` and `on_ack_downloaded` are not called by the program, so SENT is where a
  sender ends. Received rows share the tick's window with sent ones in the code; the two
  roles are separate instances here.
- Hazards of this code that no property covers: a stray print that parses as JSON
  (`adapter_ipc_client.py:477`); an ACK seen before the worker stored the packet id, which
  is dropped (`server.py:2725`); no `ack_timeout_worker` after an identity mismatch
  (`server.py:5958`); a rules file cut off by a crash, since it is written in place
  (`schedule_engine.py:35`; modelled, all rules are then gone); a malformed time that raises out of a tick before its save
  (`:76`; modelled, and the runs it leaves unsaved are forgotten); a tick so slow that it
  steps over a daily minute (`:208`); a timer finished by two pages, which notifies twice
  (`api_system.py:544`); the attachment cases of section 4.

## 7. Plan

Done: the modules of section 2 with their runs, and the proofs of section 5, which state every
safety property of the passing runs. Next:

1. `ListenerHealth` composed with `RadioPort`, in place of its environment, and
   `ExclusiveAccess` for that composition.
2. Withdrawal and failure in `AttachmentHandover` (a cancelled transfer reaches no further
   stage at a receiver that has not fetched it), and its liveness.
3. The wider settings in which single properties still hold: `PauseHasOwner` with restarts but
   no releases; `OneJobPerMessage` with a handler that raises but no retry in that batch.
