------------------------------ MODULE KeyTrust ------------------------------
(***************************************************************************)
(* KeyExchangeCoordinator: the key bound to each radio address, trusted on *)
(* first use once the user confirms it, a changed key parked until he      *)
(* decides; and what the attachment worker takes from it when a request    *)
(* comes, when the draft is made and when the content is sealed.           *)
(***************************************************************************)
EXTENDS Naturals, FiniteSets

CONSTANTS
    Addresses, Keys,
    ReplyInterval,        \* MIN_SECONDS_BETWEEN_..._TO_SAME_ADDRESS, in ticks
    MaxPerWindow     \* DEFAULT_MAX_ANNOUNCES_PER_HOUR

ASSUME KeyAssumption == ReplyInterval \in Nat \ {0} /\ MaxPerWindow \in Nat \ {0}

NoKey == "no key"

VARIABLES
    binding,     \* mca_recipient_bindings
    known,       \* RecipientSnapshot: the addresses the pages may send to
    letter,      \* one attachment: its route, its recipient's key, how far it is
    replied,     \* age of last_announce_sent_at per address
    requested,   \* age of last_request_sent_at per address
    quota        \* mca_key_exchange_quota: answers in this hour, its age

keyVars == <<binding, known, letter, replied, requested, quota>>

Unbound == [key |-> NoKey, confirmed |-> FALSE, pending |-> NoKey]
NoLetter == [pc |-> "none"]
ReplyWindow == 2 * ReplyInterval     \* _QUOTA_WINDOW_SECONDS is longer than the interval

KeyTypeOK ==
    /\ binding \in [Addresses -> [key : Keys \cup {NoKey}, confirmed : BOOLEAN,
                                  pending : Keys \cup {NoKey}]]
    /\ known \in SUBSET Addresses
    /\ letter \in {NoLetter} \cup [pc : {"asked"}, route : Addresses]
                  \cup [pc : {"draft", "sealed", "failed"}, route : Addresses, key : Keys]
    /\ replied \in [Addresses -> 0..ReplyInterval] /\ requested \in [Addresses -> 0..ReplyInterval]
    /\ quota \in [sent : 0..MaxPerWindow, age : 0..ReplyWindow]

KeyInit ==
    /\ binding = [a \in Addresses |-> Unbound]
    /\ known = {} /\ letter = NoLetter
    /\ replied = [a \in Addresses |-> ReplyInterval] /\ requested = [a \in Addresses |-> ReplyInterval]
    /\ quota = [sent |-> 0, age |-> ReplyWindow]

\* RecipientBinding.status.
IsBound(a) == binding[a].key # NoKey
Ready(a) == IsBound(a) /\ binding[a].confirmed /\ binding[a].pending = NoKey

Older(n, cap) == IF n < cap THEN n + 1 ELSE n
KeyTick ==
    /\ replied' = [a \in Addresses |-> Older(replied[a], ReplyInterval)]
    /\ requested' = [a \in Addresses |-> Older(requested[a], ReplyInterval)]
    /\ quota' = [quota EXCEPT !.age = Older(@, ReplyWindow)]
    /\ UNCHANGED <<binding, known, letter>>

-----------------------------------------------------------------------------
\* The last window of answers is over.
WindowOver == quota.age = ReplyWindow

\* Fault: one answer more than the limit.
OneTooMany == WindowOver \/ quota.sent <= MaxPerWindow

\* _check_rate_limits(): everybody together has not been answered too often.
WithinQuota == WindowOver \/ quota.sent < MaxPerWindow

\* _handle_key_request(): answered, unless this address or everybody has been
\* answered too often; the hour begins with the first answer after the last.
AnswerRequest(a) ==
    /\ replied[a] = ReplyInterval /\ WithinQuota
    /\ replied' = [replied EXCEPT ![a] = 0]
    /\ quota' = IF WindowOver THEN [sent |-> 1, age |-> 0] ELSE [quota EXCEPT !.sent = @ + 1]
    /\ UNCHANGED <<binding, known, letter, requested>>

\* Fault: the announced key is taken whatever was confirmed.
BoundAnyway(a, k) == [binding[a] EXCEPT !.key = k]

\* _handle_key_announce(): the first key is bound, an unconfirmed one replaced,
\* a confirmed one kept and the other parked.
BoundTo(a, k) ==
    CASE ~binding[a].confirmed -> [Unbound EXCEPT !.key = k]
      [] binding[a].key = k -> binding[a]
      [] OTHER -> [binding[a] EXCEPT !.pending = k]

Announced(a, k) ==
    /\ binding' = [binding EXCEPT ![a] = BoundTo(a, k)]
    /\ UNCHANGED <<known, letter, replied, requested, quota>>

\* confirm_binding(), accept_key_change() and reject_key_change().
ConfirmTofu(a) ==
    /\ IsBound(a)
    /\ binding' = [binding EXCEPT ![a].confirmed = TRUE]
    /\ UNCHANGED <<known, letter, replied, requested, quota>>

AcceptChange(a) ==
    /\ binding[a].pending # NoKey
    /\ binding' = [binding EXCEPT ![a] = [Unbound EXCEPT !.key = binding[a].pending]]
    /\ UNCHANGED <<known, letter, replied, requested, quota>>

RejectChange(a) ==
    /\ binding[a].pending # NoKey
    /\ binding' = [binding EXCEPT ![a].pending = NoKey]
    /\ UNCHANGED <<known, letter, replied, requested, quota>>

\* _command_request_key(): the radio may refuse, and then nothing is recorded.
RequestKey(a) ==
    /\ ~Ready(a) /\ requested[a] = ReplyInterval
    /\ requested' = [requested EXCEPT ![a] = 0]
    /\ UNCHANGED <<binding, known, letter, replied, quota>>

-----------------------------------------------------------------------------
\* RecipientSnapshotPublisher.refresh(), at every tick of the worker.
RefreshKnown ==
    /\ known' = {a \in Addresses : Ready(a)}
    /\ UNCHANGED <<binding, letter, replied, requested, quota>>

\* evaluate_recipient_trust() on the request thread ...
AskLetter(a) ==
    /\ letter = NoLetter /\ a \in known
    /\ letter' = [pc |-> "asked", route |-> a]
    /\ UNCHANGED <<binding, known, replied, requested, quota>>

\* ... once more when the draft is made, which notes the key ...
DraftLetter ==
    /\ letter.pc = "asked"
    /\ letter' = IF Ready(letter.route)
                 THEN [pc |-> "draft", route |-> letter.route, key |-> binding[letter.route].key]
                 ELSE NoLetter
    /\ UNCHANGED <<binding, known, replied, requested, quota>>

\* get_binding_by_key_id(): the first row with the key, whichever that is.
Bearers(k) == {a \in Addresses : binding[a].key = k}

\* Fault: whoever bears the key will do.
ResolvesAnywhere(b) == Ready(b)

\* _resolve_recipient_identities(): the binding found must be the route's own.
Resolves(b) == Ready(b) /\ b = letter.route

\* ... and a last time when the content is sealed.
SealLetter ==
    /\ letter.pc = "draft"
    /\ \/ \E b \in Bearers(letter.key) :
             letter' = [letter EXCEPT !.pc = IF Resolves(b) THEN "sealed" ELSE "failed"]
       \/ Bearers(letter.key) = {} /\ letter' = [letter EXCEPT !.pc = "failed"]
    /\ UNCHANGED <<binding, known, replied, requested, quota>>

\* The next attachment.
NextLetter ==
    /\ letter.pc \in {"sealed", "failed"} /\ letter' = NoLetter
    /\ UNCHANGED <<binding, known, replied, requested, quota>>

KeyNext ==
    \/ KeyTick \/ RefreshKnown \/ DraftLetter \/ SealLetter \/ NextLetter
    \/ \E a \in Addresses :
          \/ AnswerRequest(a) \/ ConfirmTofu(a) \/ AcceptChange(a) \/ RejectChange(a)
          \/ RequestKey(a) \/ AskLetter(a) \/ \E k \in Keys : Announced(a, k)

-----------------------------------------------------------------------------
\* No announcement, in whatever order, replaces a key the user has confirmed;
\* a letter is sealed only for the key its own route is trusted for, although
\* the key was noted long before.
TrustIsPinned ==
    [][/\ \A a \in Addresses :
             binding[a].confirmed /\ binding'[a].confirmed => binding'[a].key = binding[a].key
       /\ letter'.pc = "sealed" /\ letter.pc = "draft" =>
             Ready(letter.route) /\ binding[letter.route].key = letter.key]_keyVars
=============================================================================
