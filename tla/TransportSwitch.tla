-------------------------- MODULE TransportSwitch --------------------------
(***************************************************************************)
(* Which transport carries the traffic. TransportRouter holds one lock     *)
(* over a whole switch or delegated call; the pages switch to serial, to a *)
(* scanned Bluetooth node or to the stored one, and reconnect; Core's      *)
(* proxies keep the last known state; the adapter process holds the        *)
(* Bluetooth link and the address it would reconnect to, and is killed     *)
(* with both when a call times out.                                        *)
(***************************************************************************)
EXTENDS Naturals, FiniteSets

CONSTANTS Nodes, Callers      \* Bluetooth addresses; requests under way

Nowhere == "nowhere"          \* BLETransport._address is ""; _interface is None
Unheld == "free"
Attempts == 3                 \* Len(_RECONNECT_DELAYS_S)

VARIABLES
    active,       \* TransportRouter._active
    holder,       \* who holds TransportRouter._lock
    address,      \* BLETransport._address, in the adapter process
    link,         \* the node BLETransport is connected to
    cached,       \* AdapterIPCTransport._cached_info, per transport
    stored,       \* settings["meshtastic"]
    call,         \* per request: where it stands
    lastGood      \* history: the node this adapter process last connected to

switchVars == <<active, holder, address, link, cached, stored, call, lastGood>>

Transports == {"serial", "bluetooth"}
States == {"connected", "disconnected", "error"}
NoCall == [pc |-> "none"]
Switches == [pc : {"waiting", "dropping", "connecting", "storing"}, to : Transports, node : Nodes \cup {Nowhere}]
Recoveries == [pc : {"recovering", "restoring"}, refused : BOOLEAN]
Reconnects == [pc : {"asking"}] \cup [pc : {"trying"}, left : 1..Attempts]

SwitchTypeOK ==
    /\ active \in Transports /\ holder \in Callers \cup {Unheld}
    /\ address \in Nodes \cup {Nowhere} /\ link \in Nodes \cup {Nowhere}
    /\ cached \in [Transports -> States]
    /\ stored \in [transport : Transports, node : Nodes \cup {Nowhere}]
    /\ call \in [Callers -> {NoCall} \cup Switches \cup Recoveries \cup Reconnects]

\* A process starts on serial whatever settings["meshtastic"] says.
SwitchInit ==
    /\ active = "serial" /\ holder = Unheld /\ address = Nowhere /\ link = Nowhere
    /\ cached = [t \in Transports |-> "error"]
    /\ stored \in [transport : Transports, node : Nodes \cup {Nowhere}]
    /\ stored.transport = "bluetooth" => stored.node # Nowhere
    /\ call = [c \in Callers |-> NoCall]
    /\ lastGood = Nowhere

At(c, pc) == call[c].pc = pc
Goes(c, to) == call' = [call EXCEPT ![c] = to]
Learns(t, s) == cached' = [cached EXCEPT ![t] = s]

-----------------------------------------------------------------------------
(* What an operation does to the adapter.                                  *)

\* A call that times out: the process is killed, the next one knows nothing.
Killed == address' = Nowhere /\ link' = Nowhere /\ lastGood' = Nowhere

\* BLETransport.connect(force=True): lets go of what it has, and restores the
\* address when the node is not found or not the expected one.
Connected(n) == address' = n /\ link' = n /\ lastGood' = n
NotFound == link' = Nowhere /\ UNCHANGED <<address, lastGood>>
\* An empty address is "any node": the one the scan happens to find.
ConnectSome(n) == link' = n /\ UNCHANGED <<address, lastGood>>

\* Fault: the address tried stays when the attempt fails.
TriesKept(n) ==
    \/ Connected(n) /\ Learns("bluetooth", "connected")
    \/ address' = n /\ link' = Nowhere /\ UNCHANGED lastGood /\ Learns("bluetooth", "error")
    \/ Killed /\ Learns("bluetooth", "error")

Tries(n) ==
    \/ Connected(n) /\ Learns("bluetooth", "connected")
    \/ NotFound /\ Learns("bluetooth", "error")
    \/ Killed /\ Learns("bluetooth", "error")

\* SerialTransport.connect(force=True) behind Core's claim of the port: the
\* claim or the handshake fails, or the call times out.
SerialAnswers ==
    \/ Learns("serial", "connected") /\ UNCHANGED <<address, link, lastGood>>
    \/ Learns("serial", "error") /\ UNCHANGED <<address, link, lastGood>>
    \/ Learns("serial", "error") /\ Killed

-----------------------------------------------------------------------------
(* api_meshtastic.py.                                                      *)

AskSwitch(c, to, n) ==
    /\ call[c] = NoCall
    /\ IF to = "serial" THEN n = Nowhere ELSE n \in Nodes  \* scanned, or the stored one
    /\ Goes(c, [pc |-> "waiting", to |-> to, node |-> n])
    /\ UNCHANGED <<active, holder, address, link, cached, stored, lastGood>>

\* router.switch() takes the lock ...
Enter(c) ==
    /\ At(c, "waiting") /\ holder = Unheld
    /\ holder' = c /\ Goes(c, [call[c] EXCEPT !.pc = "dropping"])
    /\ UNCHANGED <<active, address, link, cached, stored, lastGood>>

\* ... or raises BUSY; a failure of any kind on the way to Bluetooth is
\* followed by a switch back to serial.
Fails(c, refused) ==
    IF call[c].to = "serial" THEN Goes(c, NoCall)
    ELSE Goes(c, [pc |-> "recovering", refused |-> refused])

Busy(c) ==
    /\ At(c, "waiting") /\ holder # Unheld
    /\ Fails(c, TRUE)
    /\ UNCHANGED <<active, holder, address, link, cached, stored, lastGood>>

\* connect_new() disconnects the old transport ...
Drop(c) ==
    /\ At(c, "dropping")
    /\ \/ /\ Goes(c, [call[c] EXCEPT !.pc = "connecting"])
          /\ IF call[c].to = "serial" THEN link' = Nowhere /\ Learns("bluetooth", "disconnected")
             ELSE UNCHANGED link /\ Learns("serial", "disconnected")
          /\ UNCHANGED <<holder, address, lastGood>>
       \/ /\ Fails(c, FALSE) /\ holder' = Unheld
          /\ Killed \/ UNCHANGED <<address, link, lastGood>>
          /\ Learns(IF call[c].to = "serial" THEN "bluetooth" ELSE "serial", "error")
    /\ UNCHANGED <<active, stored>>

\* ... and connects the new one; the router follows only a success.
Connect(c) ==
    /\ At(c, "connecting")
    /\ holder' = Unheld
    /\ IF call[c].to = "serial" THEN SerialAnswers ELSE Tries(call[c].node)
    /\ IF cached'[call[c].to] = "connected"
       THEN active' = call[c].to /\ Goes(c, [call[c] EXCEPT !.pc = "storing"])
       ELSE Fails(c, FALSE) /\ UNCHANGED active
    /\ UNCHANGED stored

\* _persist_choice().
StoreChoice(c) ==
    /\ At(c, "storing")
    /\ stored' = [transport |-> call[c].to,
                  node |-> IF call[c].to = "serial" THEN stored.node ELSE call[c].node]
    /\ Goes(c, NoCall)
    /\ UNCHANGED <<active, holder, address, link, cached, lastGood>>

\* _recover_serial(), another switch: refused as well, or carried out.
RecoverEnters(c) ==
    /\ At(c, "recovering")
    /\ IF holder = Unheld
       THEN holder' = c /\ Goes(c, [call[c] EXCEPT !.pc = "restoring"])
       ELSE Goes(c, NoCall) /\ UNCHANGED holder
    /\ UNCHANGED <<active, address, link, cached, stored, lastGood>>

Restore(c) ==
    /\ At(c, "restoring")
    /\ holder' = Unheld /\ Goes(c, NoCall)
    /\ SerialAnswers
    /\ active' = IF cached'["serial"] = "connected" THEN "serial" ELSE active
    /\ UNCHANGED stored

\* /reconnect asks the active transport, if the lock can be had in time.
AskReconnect(c) ==
    /\ call[c] = NoCall /\ holder = Unheld
    /\ holder' = c
    /\ Goes(c, IF active = "serial" THEN [pc |-> "asking"] ELSE [pc |-> "trying", left |-> Attempts])
    /\ UNCHANGED <<active, address, link, cached, stored, lastGood>>

SerialReconnect(c) ==
    /\ At(c, "asking")
    /\ holder' = Unheld /\ Goes(c, NoCall) /\ SerialAnswers
    /\ UNCHANGED <<active, stored>>

\* BLETransport.reconnect(): up to three attempts at its own address, inside
\* one call of the proxy. Core's deadline ends them sooner.
BleReconnect(c) ==
    /\ At(c, "trying")
    /\ \/ /\ \/ address # Nowhere /\ Connected(address)
             \/ address = Nowhere /\ \E n \in Nodes : ConnectSome(n)
          /\ Learns("bluetooth", "connected")
          /\ holder' = Unheld /\ Goes(c, NoCall)
       \/ /\ NotFound /\ call[c].left > 1
          /\ Goes(c, [call[c] EXCEPT !.left = @ - 1])
          /\ UNCHANGED <<holder, cached>>
       \/ /\ Killed \/ (NotFound /\ call[c].left = 1)
          /\ Learns("bluetooth", "error")
          /\ holder' = Unheld /\ Goes(c, NoCall)
    /\ UNCHANGED <<active, stored>>

\* A message, a waypoint, a query of nodes or channels: refused while the lock
\* is held, otherwise carried by the active transport; it may time out, and a
\* Bluetooth transport without a link refuses.
Delegate ==
    /\ holder = Unheld
    /\ \/ Killed /\ Learns(active, "error")
       \/ /\ active = "bluetooth" /\ link = Nowhere
          /\ Learns(active, "error") /\ UNCHANGED <<address, link, lastGood>>
    /\ UNCHANGED <<active, holder, stored, call>>

SwitchStep(c) ==
    \/ \E to \in Transports, n \in Nodes \cup {Nowhere} : AskSwitch(c, to, n)
    \/ Enter(c) \/ Busy(c) \/ Drop(c) \/ Connect(c) \/ StoreChoice(c) \/ RecoverEnters(c) \/ Restore(c)
    \/ AskReconnect(c) \/ SerialReconnect(c) \/ BleReconnect(c)

SwitchNext == Delegate \/ \E c \in Callers : SwitchStep(c)

-----------------------------------------------------------------------------
\* Between attempts the adapter holds the address of the last node it reached,
\* or none: a failed attempt at another node is never what a later reconnect
\* goes for (ble_transport.py:187-196, 303-330).
AddressIsLastGood == address \in {Nowhere, lastGood}
=============================================================================
