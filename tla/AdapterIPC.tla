------------------------------ MODULE AdapterIPC ------------------------------
(***************************************************************************)
(* Core and the adapter subprocess: one JSON request line out, one JSON    *)
(* answer line back, over the subprocess's stdin and stdout                *)
(* (AdapterSupervisor.call and ipc_server.serve_forever).                  *)
(*                                                                         *)
(* Neither side numbers its lines.  That an answer belongs to the call     *)
(* that reads it rests on the lock around the whole exchange and on one    *)
(* rule: whenever an exchange does not end with its answer, the subprocess *)
(* is killed, its pipes go with it, and the next call starts a new one.    *)
(*                                                                         *)
(* A request is its number.  A line on stdout is the number of the request *)
(* it answers with what it says, or a stray print.  Clocks are abstracted: *)
(* either watchdog may fire while the work it guards is under way (the     *)
(* budgets themselves are the subject of CallBudget).  A killed subprocess *)
(* is gone: SIGKILL is not waited for longer than five seconds, and its    *)
(* pipes are never read again either way.                                  *)
(***************************************************************************)
EXTENDS Naturals, Sequences

CONSTANTS
    Callers, NoCaller,
    MaxRequests,      \* bound: requests made in a behaviour
    MaxNonJsonLines,  \* MAX_NON_JSON_LINES
    MaxLines,         \* bound: unread lines on the adapter's stdout
    StrayParses       \* a stray print may happen to be valid JSON

ASSUME CallersAssumption ==
    /\ NoCaller \notin Callers
    /\ MaxRequests \in Nat /\ MaxNonJsonLines \in Nat /\ MaxLines \in Nat
    /\ StrayParses \in BOOLEAN

VARIABLES
    plock,    \* owner of _proc_lock
    proc,     \* the subprocess: "none", "running" or "dead" (its end not
              \* noticed yet)
    stdin,    \* requests written and not taken up
    stdout,   \* lines written and not read
    handling, \* the request in dispatcher.handle, 0 if none
    orphans,  \* requests whose abandoned daemon thread still runs
    pc,       \* where each caller stands
    number,   \* requests made so far; the last one is the current one
    sends,    \* requests for send_packet or send_messages, which turn their
              \* own TIMEOUT into an ordinary result
    badLines, \* non-JSON lines the reader of the current call has skipped
    last      \* per caller, see RequestAnswer

procVars == <<proc, stdin, stdout, handling, orphans>>
callVars == <<plock, pc, number, sends, badLines, last>>
vars == <<plock, proc, stdin, stdout, handling, orphans, pc, number, sends,
          badLines, last>>

Requests == 1..MaxRequests
LineSays == {"result", "error", "timeout", "text", "json"}
Line == [of : 0..MaxRequests, says : LineSays]

TypeOK ==
    /\ plock \in Callers \cup {NoCaller}
    /\ proc \in {"none", "running", "dead"}
    /\ stdin \in Seq(Requests)
    /\ stdout \in Seq(Line)
    /\ handling \in 0..MaxRequests
    /\ orphans \subseteq Requests
    /\ pc \in [Callers -> {"idle", "spawn", "write", "wait"}]
    /\ number \in 0..MaxRequests
    /\ sends \subseteq Requests
    /\ badLines \in Nat
    /\ last \in [Callers -> [req : 0..MaxRequests, of : 0..MaxRequests]]

Init ==
    /\ plock = NoCaller
    /\ proc = "none"
    /\ stdin = <<>>
    /\ stdout = <<>>
    /\ handling = 0
    /\ orphans = {}
    /\ pc = [c \in Callers |-> "idle"]
    /\ number = 0
    /\ sends = {}
    /\ badLines = 0
    /\ last = [c \in Callers |-> [req |-> 0, of |-> 0]]

-----------------------------------------------------------------------------
(* AdapterSupervisor.call *)

Go(c, label) == pc' = [pc EXCEPT ![c] = label]

Pipes(state) ==
    /\ proc' = state
    /\ stdin' = <<>>
    /\ stdout' = <<>>
    /\ handling' = 0
    /\ orphans' = {}

\* Fault: the killed subprocess stays in _proc.
KillLeavesZombie == Pipes("zombie")

\* _kill_locked: the process, its threads and its pipes are gone.
KillLocked == Pipes("none")

\* The end of a call: the answer handed over, the lock released.
Returns(c, answer) ==
    /\ last' = [last EXCEPT ![c] = [req |-> number, of |-> answer]]
    /\ plock' = NoCaller
    /\ Go(c, "idle")
    /\ UNCHANGED <<number, sends, badLines>>

CallStart(c) ==
    /\ pc[c] = "idle"
    /\ plock = NoCaller
    /\ number < MaxRequests
    /\ plock' = c
    /\ number' = number + 1
    /\ sends' \in {sends, sends \cup {number + 1}}
    /\ badLines' = 0
    /\ last' = [last EXCEPT ![c] = [req |-> number + 1, of |-> 0]]
    /\ Go(c, IF proc = "running" THEN "write" ELSE "spawn")
    /\ UNCHANGED procVars

\* No subprocess, or poll() found it dead: a new one, with new pipes.
Spawn(c) ==
    /\ pc[c] = "spawn"
    /\ Pipes("running")
    /\ Go(c, "write")
    /\ UNCHANGED <<plock, number, sends, badLines, last>>

\* Popen raises (no adapter venv): ADAPTER_UNAVAILABLE.
SpawnFails(c) ==
    /\ pc[c] = "spawn"
    /\ Returns(c, 0)
    /\ UNCHANGED procVars

Write(c) ==
    /\ pc[c] = "write"
    /\ proc = "running"
    /\ stdin' = Append(stdin, number)
    /\ Go(c, "wait")
    /\ UNCHANGED <<proc, stdout, handling, orphans, plock, number, sends,
                   badLines, last>>

\* The subprocess died since poll(): a broken pipe.
WriteFails(c) ==
    /\ pc[c] = "write"
    /\ proc = "dead"
    /\ KillLocked
    /\ Returns(c, 0)

\* The reader skips a stray line that is not JSON.
ReadStray(c) ==
    /\ pc[c] = "wait"
    /\ stdout # <<>>
    /\ Head(stdout).says = "text"
    /\ badLines < MaxNonJsonLines
    /\ stdout' = Tail(stdout)
    /\ badLines' = badLines + 1
    /\ UNCHANGED <<proc, stdin, handling, orphans, plock, pc, number, sends,
                   last>>

\* Too many stray lines, or too many bytes of them: ADAPTER_PROTOCOL_ERROR.
ReadGivesUp(c) ==
    /\ pc[c] = "wait"
    /\ stdout # <<>>
    /\ Head(stdout).says = "text"
    /\ KillLocked
    /\ Returns(c, 0)

\* Any line that parses is taken for the answer.
ReadAnswer(c) ==
    /\ pc[c] = "wait"
    /\ stdout # <<>>
    /\ Head(stdout).says \in {"result", "error", "json"}
    /\ stdout' = Tail(stdout)
    /\ Returns(c, Head(stdout).of)
    /\ UNCHANGED <<proc, stdin, handling, orphans>>

\* Fault: a well-formed timeout is an answer like any other.
TimeoutAnswerTrusted(c) ==
    /\ pc[c] = "wait"
    /\ stdout # <<>>
    /\ Head(stdout).says = "timeout"
    /\ stdout' = Tail(stdout)
    /\ Returns(c, Head(stdout).of)
    /\ UNCHANGED <<proc, stdin, handling, orphans>>

\* ok: false, code "timeout": the answer is returned, and the subprocess,
\* where the abandoned operation still runs, is killed.
ReadTimeoutAnswer(c) ==
    /\ pc[c] = "wait"
    /\ stdout # <<>>
    /\ Head(stdout).says = "timeout"
    /\ KillLocked
    /\ Returns(c, Head(stdout).of)

\* End of file.
ReadClosed(c) ==
    /\ pc[c] = "wait"
    /\ stdout = <<>>
    /\ proc = "dead"
    /\ KillLocked
    /\ Returns(c, 0)

\* Fault: the caller is released and the subprocess kept, as healthy.
GiveUpWithoutKill(c) ==
    /\ pc[c] = "wait"
    /\ Returns(c, 0)
    /\ UNCHANGED procVars

\* Fault: result_box.get() has no timeout, and waits for a first line.
GiveUpOnlyAfterALine(c) ==
    /\ pc[c] = "wait"
    /\ stdout # <<>>
    /\ KillLocked
    /\ Returns(c, 0)

\* result_box.get ran out of time.
CallTimesOut(c) ==
    /\ pc[c] = "wait"
    /\ KillLocked
    /\ Returns(c, 0)

CallStep(c) ==
    \/ Spawn(c) \/ SpawnFails(c) \/ Write(c) \/ WriteFails(c) \/ ReadStray(c)
    \/ ReadGivesUp(c) \/ ReadAnswer(c) \/ ReadTimeoutAnswer(c)
    \/ ReadClosed(c) \/ CallTimesOut(c)

-----------------------------------------------------------------------------
(* ipc_server.serve_forever *)

Answer(says) ==
    /\ stdout' = Append(stdout, [of |-> handling, says |-> says])
    /\ handling' = 0

TakeRequest ==
    /\ proc = "running"
    /\ handling = 0
    /\ stdin # <<>>
    /\ handling' = Head(stdin)
    /\ stdin' = Tail(stdin)
    /\ UNCHANGED <<proc, stdout, orphans>>
    /\ UNCHANGED callVars

\* handle(): a result, or the error an operation raised.
AnswerRequest ==
    /\ proc = "running"
    /\ handling # 0
    /\ \E says \in {"result", "error"} : Answer(says)
    /\ UNCHANGED <<proc, stdin, orphans>>
    /\ UNCHANGED callVars

\* _call_with_timeout gives up on its daemon thread, which goes on.
WatchdogFires ==
    /\ proc = "running"
    /\ handling # 0
    /\ Answer(IF handling \in sends THEN "result" ELSE "timeout")
    /\ orphans' = orphans \cup {handling}
    /\ UNCHANGED <<proc, stdin>>
    /\ UNCHANGED callVars

OrphanEnds(r) ==
    /\ r \in orphans
    /\ orphans' = orphans \ {r}
    /\ UNCHANGED <<proc, stdin, stdout, handling>>
    /\ UNCHANGED callVars

\* Outside handle() nothing redirects stdout: an abandoned thread, or a
\* library being imported at the start, prints into the protocol.
AdapterPrints ==
    /\ proc = "running"
    /\ handling = 0
    /\ Len(stdout) < MaxLines
    /\ \E says \in {"text"} \cup (IF StrayParses THEN {"json"} ELSE {}) :
          stdout' = Append(stdout, [of |-> 0, says |-> says])
    /\ UNCHANGED <<proc, stdin, handling, orphans>>
    /\ UNCHANGED callVars

\* A crash; what was already written can still be read.
AdapterDies ==
    /\ proc = "running"
    /\ proc' = "dead"
    /\ stdin' = <<>>
    /\ handling' = 0
    /\ orphans' = {}
    /\ UNCHANGED stdout
    /\ UNCHANGED callVars

ServeForever == TakeRequest \/ AnswerRequest \/ WatchdogFires

-----------------------------------------------------------------------------
Next ==
    \/ \E c \in Callers : CallStart(c) \/ CallStep(c)
    \/ ServeForever
    \/ \E r \in Requests : OrphanEnds(r)
    \/ AdapterPrints
    \/ AdapterDies

Spec == Init /\ [][Next]_vars

\* A caller's thread goes on; in "wait" its own timeout sees to that.
\* Nothing is assumed of the adapter: it may hang for ever.
FairSpec == Spec /\ \A c \in Callers : WF_vars(CallStep(c))

-----------------------------------------------------------------------------
(* Properties *)

\* A call returns the answer to its own request or an error, though no line
\* carries a request number: every answer in the pipe is of the last call.
AnswerBelongs ==
    \A c \in Callers : last[c].of \in {0, last[c].req}

\* A request is never written to a subprocess in which an operation that
\* timed out still runs (and may still have the serial port open) - but for
\* send_packet and send_messages, whose TIMEOUT the client never sees.
NoWorkBehind ==
    \A c \in Callers : pc[c] = "write" => orphans \subseteq sends

\* Between calls nothing is left in the pipes for a later call to read.
PipesDrained ==
    plock = NoCaller =>
        stdin = <<>> /\ handling = 0
        /\ \A i \in 1..Len(stdout) : stdout[i].says = "text"

\* Implementation of the request/answer service, its liveness included: a
\* call returns whatever the adapter does.
Service == INSTANCE RequestAnswer WITH busy <- plock
ServiceSpec == Service!Spec
=============================================================================
