--------------------------- MODULE WorkersProofs ---------------------------
(***************************************************************************)
(* What Workers promises, for every value of its constants: trust in keys  *)
(* and Relays, the rationed restarts of the listener, the attachments that *)
(* commands make, and the types of every part.  A step of Workers is a     *)
(* step of one part, so each part has an invariant of its own, kept by its *)
(* own actions.                                                            *)
(***************************************************************************)
EXTENDS Workers, DeviceProofs, FiniteSetTheorems, FunctionTheorems, SequenceTheorems, TLAPS

\* A step of Workers is a step of one part, or leaves the part alone.
LEMMA PartSteps ==
    ASSUME [WorkersNext]_workersVars
    PROVE  /\ CmdNext \/ UNCHANGED cmdVars
           /\ SnapNext \/ UNCHANGED snapVars
           /\ KeyNext \/ UNCHANGED keyVars
           /\ ProvNext \/ UNCHANGED provVars
           /\ ConnNext \/ UNCHANGED connVars
           /\ HealthNext \/ UNCHANGED healthVars
           /\ UsbNext \/ UNCHANGED usbVars
           /\ DisplayNext \/ UNCHANGED displayVars
  BY DEF WorkersNext, workersVars

-----------------------------------------------------------------------------
(* The snapshot                                                            *)

\* What differs from either view of the database is noted there, or torn: the
\* notes travel with the rows in one transaction.
LagInv ==
    initialized => \A a \in Attachments :
        /\ published[a] # view.version[a] => a \in view.dirty \cup torn
        /\ published[a] # committed.version[a] => a \in committed.dirty \cup torn
        /\ published[a] # committed.version[a] => a \in view.dirty \cup torn

SnapInv == SnapTypeOK /\ LagInv

LEMMA SnapStart == SnapInit => SnapInv
<1> SUFFICES ASSUME SnapInit PROVE SnapInv
  OBVIOUS
<1>1. [a \in Attachments |-> 0] \in Versions
  BY VersionAssumption DEF Versions
<1>2. committed \in Database /\ view \in Database
  BY <1>1 DEF SnapInit, Database
<1> QED
  BY <1>1, <1>2 DEF SnapInit, SnapInv, SnapTypeOK, LagInv

LEMMA ProjectedType == ASSUME SnapTypeOK PROVE Projected \subseteq Attachments /\ Updated \in Versions
<1>1. Projected \subseteq Attachments
  BY DEF Projected, SnapTypeOK, Database
<1>2. \A a \in Attachments : view.version[a] \in 0..MaxVersion /\ published[a] \in 0..MaxVersion
  BY DEF SnapTypeOK, Database, Versions
<1> QED
  BY <1>1, <1>2 DEF Updated, Versions

LEMMA SnapSteps ==
    ASSUME SnapInv, SnapNext \/ UNCHANGED snapVars
    PROVE  SnapInv'
<1> USE DEF SnapInv
<1>0. committed \in Database /\ view \in Database
  BY DEF SnapTypeOK
<1>1. ASSUME NEW a \in Attachments, Write(a) PROVE SnapInv'
  <2>1. /\ view.version[a] \in 0..MaxVersion /\ view.version[a] < MaxVersion
        /\ view' = [view EXCEPT !.version[a] = view.version[a] + 1, !.dirty = view.dirty \cup {a}]
        /\ UNCHANGED <<committed, published, initialized, torn>>
    BY <1>1 DEF Write, SnapTypeOK, Database, Versions
  <2>2. /\ view' \in Database /\ view'.dirty = view.dirty \cup {a}
        /\ \A b \in Attachments \ {a} : view'.version[b] = view.version[b]
    <3> DEFINE v == [view.version EXCEPT ![a] = view.version[a] + 1]
    <3>1. v \in Versions /\ \A b \in Attachments \ {a} : v[b] = view.version[b]
      BY <1>0, <2>1, VersionAssumption DEF Database, Versions
    <3> HIDE DEF v
    <3>2. view' = [view EXCEPT !.version = v, !.dirty = view.dirty \cup {a}]
      BY <2>1 DEF v
    <3> QED
      BY <1>0, <3>1, <3>2 DEF Database
  <2> QED
    BY <2>1, <2>2 DEF SnapTypeOK, LagInv
<1>2. CASE Commit
  BY <1>2 DEF Commit, SnapTypeOK, LagInv
<1>3. CASE Rollback
  BY <1>3 DEF Rollback, SnapTypeOK, LagInv
<1>4. CASE RefreshDone
  <2>1. /\ initialized' = TRUE /\ published' = Updated /\ torn' = torn \ Projected
        /\ view' = [view EXCEPT !.dirty = {}] /\ committed' = view'
    BY <1>4 DEF RefreshDone, Show
  <2>2. view' \in Database /\ view'.version = view.version /\ view'.dirty = {}
    BY <1>0, <2>1 DEF Database
  <2>3. ASSUME NEW a \in Attachments, published'[a] # view.version[a]
        PROVE  a \in torn'
    <3>1. a \notin Projected /\ published'[a] = published[a]
      BY <2>1, <2>3 DEF Updated
    <3>2. initialized /\ a \notin view.dirty
      BY <3>1 DEF Projected
    <3> QED
      BY <2>1, <2>3, <3>1, <3>2 DEF LagInv
  <2> QED
    BY <2>1, <2>2, <2>3, ProjectedType DEF SnapTypeOK, LagInv
<1>5. CASE RefreshUnacknowledged
  <2>1. /\ initialized' = TRUE /\ published' = Updated /\ view' = committed /\ committed' = committed
        /\ torn' = (torn \ Projected)
                   \cup {a \in Projected : view.version[a] # committed.version[a]}
    BY <1>5 DEF RefreshUnacknowledged, Show
  <2>2. ASSUME NEW a \in Attachments, published'[a] # committed.version[a]
        PROVE  a \in committed.dirty \cup torn'
    <3>1. CASE a \in Projected
      <4>1. published'[a] = view.version[a]
        BY <2>1, <3>1 DEF Updated
      <4> QED
        BY <2>1, <2>2, <3>1, <4>1
    <3>2. CASE a \notin Projected
      <4>1. published'[a] = published[a] /\ initialized
        BY <2>1, <3>2 DEF Updated, Projected
      <4> QED
        BY <2>1, <2>2, <3>2, <4>1 DEF LagInv
    <3> QED
      BY <3>1, <3>2
  <2>3. torn' \subseteq Attachments
    BY <2>1, ProjectedType DEF SnapTypeOK
  <2> QED
    BY <2>1, <2>2, <2>3, ProjectedType DEF SnapTypeOK, LagInv
<1>6. CASE SnapRestart
  <2>1. published' \in Versions
    BY <1>6, VersionAssumption DEF SnapRestart, Versions
  <2> QED
    BY <1>6, <2>1 DEF SnapRestart, SnapTypeOK, LagInv
<1>7. CASE UNCHANGED snapVars
  BY <1>7 DEF snapVars, SnapTypeOK, LagInv
<1> QED
  BY <1>1, <1>2, <1>3, <1>4, <1>5, <1>6, <1>7 DEF SnapNext

-----------------------------------------------------------------------------
(* The keys of other people                                                *)

KeyPcs == {"asked", "draft", "sealed", "failed"}

LEMMA KeyStart == KeyInit => KeyTypeOK
<1> SUFFICES ASSUME KeyInit PROVE KeyTypeOK
  OBVIOUS
<1>1. ReplyInterval \in Nat /\ MaxPerWindow \in Nat /\ ReplyWindow \in Nat
  BY KeyAssumption DEF ReplyWindow
<1>2. Unbound \in [key : Keys \cup {NoKey}, confirmed : BOOLEAN, pending : Keys \cup {NoKey}]
  BY DEF Unbound
<1>3. [sent |-> 0, age |-> ReplyWindow] \in [sent : 0..MaxPerWindow, age : 0..ReplyWindow]
  BY <1>1
<1> QED
  BY <1>1, <1>2, <1>3 DEF KeyInit, KeyTypeOK

LEMMA OlderInRange == ASSUME NEW n \in Nat, NEW c \in Nat, n <= c PROVE Older(n, c) \in 0..c
  BY DEF Older

LEMMA LetterFields ==
    ASSUME KeyTypeOK, letter.pc \in {"draft", "sealed", "failed"}
    PROVE  /\ letter \in [pc : {"draft", "sealed", "failed"}, route : Addresses, key : Keys]
  BY DEF KeyTypeOK, NoLetter

LEMMA BindingSteps ==
    ASSUME KeyTypeOK, NEW a \in Addresses,
           \/ \E k \in Keys : Announced(a, k)
           \/ ConfirmTofu(a) \/ AcceptChange(a) \/ RejectChange(a)
    PROVE  /\ KeyTypeOK' /\ UNCHANGED letter
           /\ \A b \in Addresses :
                 binding[b].confirmed /\ binding'[b].confirmed => binding'[b].key = binding[b].key
<1> DEFINE Bindings == [key : Keys \cup {NoKey}, confirmed : BOOLEAN, pending : Keys \cup {NoKey}]
<1>1. binding \in [Addresses -> Bindings] /\ binding[a] \in Bindings
  BY DEF KeyTypeOK
<1>2. UNCHANGED <<known, letter, replied, requested, quota>>
  BY DEF Announced, ConfirmTofu, AcceptChange, RejectChange
<1>3. PICK new \in Bindings :
         /\ binding' = [binding EXCEPT ![a] = new]
         /\ binding[a].confirmed /\ new.confirmed => new.key = binding[a].key
  <2>1. ASSUME NEW k \in Keys, Announced(a, k)
        PROVE  /\ BoundTo(a, k) \in Bindings
               /\ binding' = [binding EXCEPT ![a] = BoundTo(a, k)]
               /\ binding[a].confirmed /\ BoundTo(a, k).confirmed => BoundTo(a, k).key = binding[a].key
    BY <1>1, <2>1 DEF Announced, BoundTo, Unbound
  <2>2. CASE ConfirmTofu(a)
    <3> DEFINE new == [binding[a] EXCEPT !.confirmed = TRUE]
    <3>1. binding' = [binding EXCEPT ![a] = new] /\ new \in Bindings /\ new.key = binding[a].key
      BY <1>1, <2>2 DEF ConfirmTofu
    <3> QED
      BY <3>1
  <2>3. CASE AcceptChange(a)
    <3> DEFINE new == [Unbound EXCEPT !.key = binding[a].pending]
    <3>1. binding' = [binding EXCEPT ![a] = new] /\ new \in Bindings /\ ~new.confirmed
      BY <1>1, <2>3 DEF AcceptChange, Unbound
    <3> QED
      BY <3>1
  <2>4. CASE RejectChange(a)
    <3> DEFINE new == [binding[a] EXCEPT !.pending = NoKey]
    <3>1. binding' = [binding EXCEPT ![a] = new] /\ new \in Bindings /\ new.key = binding[a].key
      BY <1>1, <2>4 DEF RejectChange
    <3> QED
      BY <3>1
  <2> QED
    BY <2>1, <2>2, <2>3, <2>4
<1>4. binding' \in [Addresses -> Bindings]
  BY <1>1, <1>3
<1> HIDE DEF Bindings
<1>5. \A b \in Addresses : binding'[b] = IF b = a THEN new ELSE binding[b]
  BY <1>1, <1>3
<1> QED
  BY <1>2, <1>3, <1>4, <1>5 DEF KeyTypeOK, Bindings

LEMMA LetterSteps ==
    ASSUME KeyTypeOK,
           DraftLetter \/ SealLetter \/ NextLetter \/ \E a \in Addresses : AskLetter(a)
    PROVE  /\ KeyTypeOK' /\ UNCHANGED binding
           /\ letter'.pc = "sealed" /\ letter.pc = "draft" =>
                 Ready(letter.route) /\ binding[letter.route].key = letter.key
<1>1. UNCHANGED <<binding, known, replied, requested, quota>>
  BY DEF DraftLetter, SealLetter, NextLetter, AskLetter
<1>2. ASSUME NEW a \in Addresses, AskLetter(a)
      PROVE  letter' \in [pc : {"asked"}, route : Addresses] /\ letter'.pc # "sealed"
  BY <1>2 DEF AskLetter
<1>3. CASE DraftLetter
  <2>1. letter \in [pc : {"asked"}, route : Addresses] /\ letter.route \in Addresses
    BY <1>3 DEF DraftLetter, KeyTypeOK, NoLetter
  <2>2. Ready(letter.route) => binding[letter.route].key \in Keys
    BY <2>1 DEF Ready, IsBound, KeyTypeOK
  <2>3. /\ letter' \in {NoLetter} \cup [pc : {"draft", "sealed", "failed"}, route : Addresses, key : Keys]
        /\ letter.pc # "draft"
    BY <1>3, <2>1, <2>2 DEF DraftLetter
  <2> QED
    BY <1>1, <2>3 DEF KeyTypeOK
<1>4. CASE SealLetter
  <2>1. letter \in [pc : {"draft", "sealed", "failed"}, route : Addresses, key : Keys]
    BY <1>4, LetterFields DEF SealLetter
  <2>2. PICK end \in {"sealed", "failed"} :
           /\ letter' = [letter EXCEPT !.pc = end]
           /\ end = "sealed" => \E b \in Bearers(letter.key) : Resolves(b)
    BY <1>4 DEF SealLetter
  <2>3. /\ letter' \in [pc : {"draft", "sealed", "failed"}, route : Addresses, key : Keys]
        /\ letter'.pc = end
    BY <2>1, <2>2
  <2>4. end = "sealed" => Ready(letter.route) /\ binding[letter.route].key = letter.key
    BY <2>2 DEF Bearers, Resolves
  <2> QED
    BY <1>1, <2>3, <2>4 DEF KeyTypeOK
<1>5. CASE NextLetter
  BY <1>1, <1>5 DEF NextLetter, KeyTypeOK, NoLetter
<1> QED
  BY <1>1, <1>2, <1>3, <1>4, <1>5 DEF KeyTypeOK

\* Answers, requests, the clock and the recipients' snapshot.
LEMMA OtherKeySteps ==
    ASSUME KeyTypeOK,
           \/ KeyTick \/ RefreshKnown \/ UNCHANGED keyVars
           \/ \E a \in Addresses : AnswerRequest(a) \/ RequestKey(a)
    PROVE  KeyTypeOK' /\ UNCHANGED <<binding, letter>>
<1>0. /\ ReplyInterval \in Nat /\ MaxPerWindow \in Nat /\ ReplyWindow \in Nat /\ 1 <= MaxPerWindow
      /\ \A a \in Addresses : replied[a] \in 0..ReplyInterval /\ requested[a] \in 0..ReplyInterval
      /\ quota.sent \in 0..MaxPerWindow /\ quota.age \in 0..ReplyWindow
  BY KeyAssumption DEF KeyTypeOK, ReplyWindow
<1>1. CASE KeyTick
  <2>1. \A a \in Addresses : /\ Older(replied[a], ReplyInterval) \in 0..ReplyInterval
                             /\ Older(requested[a], ReplyInterval) \in 0..ReplyInterval
    BY <1>0, OlderInRange
  <2>2. Older(quota.age, ReplyWindow) \in 0..ReplyWindow
    BY <1>0, OlderInRange
  <2>3. /\ replied' = [a \in Addresses |-> Older(replied[a], ReplyInterval)]
        /\ requested' = [a \in Addresses |-> Older(requested[a], ReplyInterval)]
        /\ quota' = [quota EXCEPT !.age = Older(quota.age, ReplyWindow)]
        /\ UNCHANGED <<binding, known, letter>>
    BY <1>1 DEF KeyTick, KeyTypeOK
  <2> HIDE DEF Older, ReplyWindow
  <2>4. quota' \in [sent : 0..MaxPerWindow, age : 0..ReplyWindow]
    BY <2>2, <2>3 DEF KeyTypeOK
  <2> QED
    BY <2>1, <2>3, <2>4 DEF KeyTypeOK
<1>2. CASE RefreshKnown \/ UNCHANGED keyVars
  BY <1>2 DEF RefreshKnown, keyVars, KeyTypeOK
<1>3. ASSUME NEW a \in Addresses, AnswerRequest(a) PROVE KeyTypeOK' /\ UNCHANGED <<binding, letter>>
  <2>1. quota' \in [sent : 0..MaxPerWindow, age : 0..ReplyWindow]
    <3>1. CASE WindowOver
      BY <1>0, <1>3, <3>1 DEF AnswerRequest
    <3>2. CASE ~WindowOver
      <4>1. quota.sent < MaxPerWindow /\ quota' = [quota EXCEPT !.sent = quota.sent + 1]
        BY <1>3, <3>2 DEF AnswerRequest, WithinQuota, KeyTypeOK
      <4>2. quota.sent + 1 \in 0..MaxPerWindow
        BY <1>0, <4>1
      <4> QED
        BY <4>1, <4>2 DEF KeyTypeOK
    <3> QED
      BY <3>1, <3>2
  <2>2. replied' \in [Addresses -> 0..ReplyInterval]
    BY <1>0, <1>3 DEF AnswerRequest, KeyTypeOK
  <2> QED
    BY <1>3, <2>1, <2>2 DEF AnswerRequest, KeyTypeOK
<1>4. ASSUME NEW a \in Addresses, RequestKey(a) PROVE KeyTypeOK' /\ UNCHANGED <<binding, letter>>
  BY <1>0, <1>4 DEF RequestKey, KeyTypeOK
<1> QED
  BY <1>1, <1>2, <1>3, <1>4

KeyStepSafe ==
    /\ \A a \in Addresses :
          binding[a].confirmed /\ binding'[a].confirmed => binding'[a].key = binding[a].key
    /\ letter'.pc = "sealed" /\ letter.pc = "draft" =>
          Ready(letter.route) /\ binding[letter.route].key = letter.key

LEMMA KeySteps ==
    ASSUME KeyTypeOK, KeyNext \/ UNCHANGED keyVars
    PROVE  KeyTypeOK' /\ KeyStepSafe
<1>1. CASE \E a \in Addresses : \/ \E k \in Keys : Announced(a, k)
                                \/ ConfirmTofu(a) \/ AcceptChange(a) \/ RejectChange(a)
  BY <1>1, BindingSteps DEF KeyStepSafe
<1>2. CASE DraftLetter \/ SealLetter \/ NextLetter \/ \E a \in Addresses : AskLetter(a)
  BY <1>2, LetterSteps DEF KeyStepSafe
<1>3. CASE \/ KeyTick \/ RefreshKnown \/ UNCHANGED keyVars
           \/ \E a \in Addresses : AnswerRequest(a) \/ RequestKey(a)
  BY <1>3, OtherKeySteps DEF KeyStepSafe
<1> QED
  BY <1>1, <1>2, <1>3 DEF KeyNext

-----------------------------------------------------------------------------
(* The Relays' profiles and tokens                                         *)

\* Between its two steps an operation has the row it will write, and one that
\* removes a token has removed it.
DoingFits ==
    /\ \A p \in Providers : doing = [what |-> "set", of |-> p] => Known(p)
    /\ \A p \in Providers :
          doing = [what |-> "clear", of |-> p] => Known(p) /\ (token[p] = "none" \/ p \in stray)
    /\ \A p \in Providers :
          doing = [what |-> "remove", of |-> p] => token[p] = "none" \/ p \in stray

OneDefault == \A p, q \in Providers : IsDefault(p) /\ IsDefault(q) => p = q

ProvInv == ProvTypeOK /\ DoingFits /\ OneDefault /\ NoSecretLeftBehind

LEMMA ProvStart == ProvInit => ProvInv
  BY DEF ProvInit, ProvInv, ProvTypeOK, DoingFits, OneDefault, NoSecretLeftBehind, NoProfile,
         Nothing, IsDefault, Known

LEMMA RowIs ==
    ASSUME ProvTypeOK, NEW p \in Providers
    PROVE  /\ Known(p) => profile[p] \in Rows
           /\ ~Known(p) => profile[p] = NoProfile
<1>1. profile[p] = NoProfile \/ profile[p] \in Rows
  BY DEF ProvTypeOK
<1>2. NoProfile.there = FALSE
  BY DEF NoProfile
<1>3. \A one \in Rows : one.there = TRUE
  BY DEF Rows
<1> QED
  BY <1>1, <1>2, <1>3 DEF Known

\* A new row of p, which is no default unless p was it: what is asked of rows.
LEMMA RowWritten ==
    ASSUME ProvTypeOK, NEW p \in Providers, NEW new \in Rows \cup {NoProfile},
           profile' = [profile EXCEPT ![p] = new],
           new.there /\ new.default => IsDefault(p)
    PROVE  /\ profile' \in [Providers -> {NoProfile} \cup Rows]
           /\ \A q \in Providers : profile'[q] = IF q = p THEN new ELSE profile[q]
           /\ \A q \in Providers : IsDefault(q)' => IsDefault(q)
<1>1. profile \in [Providers -> {NoProfile} \cup Rows]
  BY DEF ProvTypeOK
<1>2. \A q \in Providers : profile'[q] = IF q = p THEN new ELSE profile[q]
  BY <1>1
<1> QED
  BY <1>1, <1>2 DEF IsDefault, Known

DefaultStays ==
    LET now == {p \in Providers : IsDefault(p)}
        next == {p \in Providers : IsDefault(p)'}
    IN /\ Cardinality(next) <= 1
       /\ now # {} /\ next = {} => \E p \in now : ~Known(p)'

LEMMA AtMostOne ==
    ASSUME NEW S, \A p, q \in S : p = q
    PROVE  Cardinality(S) <= 1
<1>1. CASE S = {}
  BY <1>1, FS_EmptySet
<1>2. CASE S # {}
  <2>1. PICK p \in S : S = {p}
    BY <1>2
  <2>2. Cardinality({p}) = 1
    BY FS_Singleton
  <2> QED
    BY <2>1, <2>2
<1> QED
  BY <1>1, <1>2

\* A step that gives no provider the mark, and takes it from none that stays.
LEMMA DefaultsKept ==
    ASSUME OneDefault,
           \A q \in Providers : IsDefault(q)' => IsDefault(q),
           \A q \in Providers : IsDefault(q) => IsDefault(q)' \/ ~Known(q)'
    PROVE  OneDefault' /\ DefaultStays
<1>1. OneDefault'
  BY DEF OneDefault
<1>2. Cardinality({p \in Providers : IsDefault(p)'}) <= 1
  <2>1. \A p, q \in {x \in Providers : IsDefault(x)'} : p = q
    BY DEF OneDefault
  <2> QED
    BY <2>1, AtMostOne
<1> QED
  BY <1>1, <1>2 DEF DefaultStays

LEMMA MadeDefaultKeeps ==
    ASSUME ProvInv, NEW p \in Providers, MadeDefault(p)
    PROVE  /\ profile' \in [Providers -> {NoProfile} \cup Rows]
           /\ \A q \in Providers : (Known(q)' <=> Known(q)) /\ (Named(q)' <=> Named(q))
           /\ OneDefault' /\ DefaultStays
<1>1. CASE ~Known(p)
  <2>1. profile' = profile
    BY <1>1 DEF MadeDefault
  <2> QED
    BY <2>1, DefaultsKept DEF ProvInv, ProvTypeOK, IsDefault, Known, Named
<1>2. CASE Known(p)
  <2>1. profile' = [q \in Providers |-> IF Known(q) THEN [profile[q] EXCEPT !.default = q = p]
                                        ELSE profile[q]]
    BY <1>2 DEF MadeDefault
  <2>2. ASSUME NEW q \in Providers
        PROVE  /\ profile'[q] \in {NoProfile} \cup Rows
               /\ profile'[q].there = profile[q].there
               /\ Known(q) => profile'[q].default = (q = p) /\ profile'[q].named = profile[q].named
    <3>1. CASE Known(q)
      <4> DEFINE b == q = p
      <4>1. b \in BOOLEAN /\ profile[q] \in Rows
        BY <3>1, RowIs DEF ProvInv
      <4>2. profile'[q] = [profile[q] EXCEPT !.default = b]
        BY <2>1, <3>1
      <4> HIDE DEF b
      <4>3. /\ profile'[q] \in Rows /\ profile'[q].default = b
            /\ profile'[q].there = profile[q].there /\ profile'[q].named = profile[q].named
        BY <4>1, <4>2 DEF Rows
      <4> QED
        BY <4>3 DEF b
    <3>2. CASE ~Known(q)
      BY <2>1, <3>2, RowIs DEF ProvInv
    <3> QED
      BY <3>1, <3>2
  <2>3. profile' \in [Providers -> {NoProfile} \cup Rows]
    BY <2>1, <2>2
  <2>4. \A q \in Providers : (Known(q)' <=> Known(q)) /\ (Named(q)' <=> Named(q))
    BY <2>2 DEF Known, Named
  <2>5. \A q \in Providers : IsDefault(q)' <=> q = p
    BY <1>2, <2>2, <2>4 DEF IsDefault, Known
  <2>6. OneDefault' /\ {q \in Providers : IsDefault(q)'} = {p}
    BY <2>5 DEF OneDefault
  <2>7. Cardinality({p}) = 1
    BY FS_Singleton
  <2> QED
    BY <2>3, <2>4, <2>6, <2>7 DEF DefaultStays
<1> QED
  BY <1>1, <1>2

\* Only the profiles' other marks, or other variables, change.
LEMMA SameRows ==
    ASSUME ProvInv, UNCHANGED profile
    PROVE  /\ profile' \in [Providers -> {NoProfile} \cup Rows]
           /\ \A q \in Providers : (Known(q)' <=> Known(q)) /\ (Named(q)' <=> Named(q))
           /\ OneDefault' /\ DefaultStays
  BY DefaultsKept DEF ProvInv, ProvTypeOK, Known, Named, IsDefault

LEMMA RegisterKeeps ==
    ASSUME ProvInv, NEW p \in Providers, RegisterProfile(p)
    PROVE  ProvInv' /\ DefaultStays
<1> DEFINE new == [there |-> TRUE, enabled |-> TRUE, default |-> FALSE, named |-> FALSE]
<1>1. new \in Rows
  BY DEF Rows
<1>2. /\ profile' \in [Providers -> {NoProfile} \cup Rows]
      /\ \A q \in Providers : (Known(q) => Known(q)') /\ (Named(q)' <=> Named(q))
      /\ OneDefault' /\ DefaultStays
  <2>1. CASE Known(p)
    BY <2>1, SameRows DEF RegisterProfile
  <2>2. CASE ~Known(p)
    <3>1. profile' = [profile EXCEPT ![p] = new]
      BY <2>2 DEF RegisterProfile
    <3>2. /\ profile' \in [Providers -> {NoProfile} \cup Rows]
          /\ \A q \in Providers : profile'[q] = IF q = p THEN new ELSE profile[q]
          /\ \A q \in Providers : IsDefault(q)' => IsDefault(q)
      BY <1>1, <3>1, RowWritten DEF ProvInv
    <3>3. \A q \in Providers : IsDefault(q) => IsDefault(q)'
      BY <2>2, <3>2 DEF IsDefault, Known
    <3>4. OneDefault' /\ DefaultStays
      BY <3>2, <3>3, DefaultsKept DEF ProvInv
    <3>5. \A q \in Providers : (Known(q) => Known(q)') /\ (Named(q)' <=> Named(q))
      BY <2>2, <3>2 DEF Known, Named
    <3> QED
      BY <3>2, <3>4, <3>5
  <2> QED
    BY <2>1, <2>2
<1>3. /\ doing = Nothing /\ UNCHANGED <<token, inUse, stray>>
      /\ doing' = Nothing \/ doing' = [what |-> "default", of |-> p]
  BY DEF RegisterProfile, Does
<1>4. ProvTypeOK'
  BY <1>2, <1>3 DEF ProvInv, ProvTypeOK
<1>5. DoingFits'
  BY <1>3 DEF DoingFits, Nothing
<1>6. \A q \in Providers : token[q] # "none" => Named(q) \/ q \in stray
  BY <1>3 DEF ProvInv, NoSecretLeftBehind, Nothing
<1>7. NoSecretLeftBehind'
  BY <1>2, <1>3, <1>6 DEF NoSecretLeftBehind
<1> QED
  BY <1>2, <1>4, <1>5, <1>7 DEF ProvInv

LEMMA DefaultKeeps ==
    ASSUME ProvInv, NEW p \in Providers, SetDefault(p) \/ RegisterAsDefault(p)
    PROVE  ProvInv' /\ DefaultStays
<1>1. /\ MadeDefault(p) /\ doing' = Nothing /\ UNCHANGED <<token, inUse, stray>>
      /\ doing = Nothing \/ doing = [what |-> "default", of |-> p]
  BY DEF SetDefault, RegisterAsDefault, Does2nd
<1> QED
  BY <1>1, MadeDefaultKeeps DEF ProvInv, ProvTypeOK, DoingFits, NoSecretLeftBehind, Nothing

\* Some mark of an existing row but the default one is changed.
LEMMA ProviderMarkKeeps ==
    ASSUME ProvInv, NEW p \in Providers, Known(p), NEW on \in BOOLEAN,
           \/ profile' = [profile EXCEPT ![p].enabled = on]
           \/ profile' = [profile EXCEPT ![p].named = on]
    PROVE  /\ profile' \in [Providers -> {NoProfile} \cup Rows]
           /\ \A q \in Providers : Known(q)' <=> Known(q)
           /\ \A q \in Providers \ {p} : Named(q)' <=> Named(q)
           /\ profile' = [profile EXCEPT ![p].enabled = on] => (Named(p)' <=> Named(p))
           /\ profile' = [profile EXCEPT ![p].named = on] => (Named(p)' <=> on)
           /\ OneDefault' /\ DefaultStays
<1>1. profile[p] \in Rows
  BY RowIs DEF ProvInv
<1>2. PICK new \in Rows :
         /\ profile' = [profile EXCEPT ![p] = new]
         /\ new.default = profile[p].default
         /\ profile' = [profile EXCEPT ![p].enabled = on] => new.named = profile[p].named
         /\ profile' = [profile EXCEPT ![p].named = on] => new.named = on
  <2>1. CASE profile' = [profile EXCEPT ![p].enabled = on]
    <3> DEFINE new == [profile[p] EXCEPT !.enabled = on]
    <3>1. /\ profile' = [profile EXCEPT ![p] = new] /\ new \in Rows
          /\ new.default = profile[p].default /\ new.named = profile[p].named
      BY <1>1, <2>1 DEF Rows
    <3>2. profile' = [profile EXCEPT ![p].named = on] => profile'[p].named = on /\ profile'[p] = new
      BY <1>1, <3>1 DEF ProvInv, ProvTypeOK, Rows
    <3> QED
      BY <3>1, <3>2
  <2>2. CASE profile' = [profile EXCEPT ![p].named = on]
    <3> DEFINE new == [profile[p] EXCEPT !.named = on]
    <3>1. /\ profile' = [profile EXCEPT ![p] = new] /\ new \in Rows
          /\ new.default = profile[p].default /\ new.named = on
      BY <1>1, <2>2 DEF Rows
    <3>2. profile' = [profile EXCEPT ![p].enabled = on]
             => profile'[p].named = profile[p].named /\ profile'[p] = new
      BY <1>1, <3>1 DEF ProvInv, ProvTypeOK, Rows
    <3> QED
      BY <3>1, <3>2
  <2> QED
    BY <2>1, <2>2
<1>3. new.there /\ Known(p) /\ (IsDefault(p) <=> new.default)
  BY <1>1, <1>2 DEF Rows, Known, IsDefault
<1>4. /\ profile' \in [Providers -> {NoProfile} \cup Rows]
      /\ \A q \in Providers : profile'[q] = IF q = p THEN new ELSE profile[q]
      /\ \A q \in Providers : IsDefault(q)' => IsDefault(q)
  BY <1>2, <1>3, RowWritten DEF ProvInv
<1>5. \A q \in Providers : IsDefault(q) => IsDefault(q)'
  BY <1>3, <1>4 DEF IsDefault, Known
<1>6. OneDefault' /\ DefaultStays
  BY <1>4, <1>5, DefaultsKept DEF ProvInv
<1> QED
  BY <1>2, <1>3, <1>4, <1>6 DEF Known, Named

LEMMA UpdateKeeps ==
    ASSUME ProvInv, NEW p \in Providers, NEW on \in BOOLEAN, UpdateProfile(p, on)
    PROVE  ProvInv' /\ DefaultStays
<1>1. /\ Known(p) /\ profile' = [profile EXCEPT ![p].enabled = on]
      /\ UNCHANGED <<doing, token, inUse, stray>>
  BY DEF UpdateProfile
<1>2. /\ profile' \in [Providers -> {NoProfile} \cup Rows]
      /\ \A q \in Providers : (Known(q)' <=> Known(q)) /\ (Named(q)' <=> Named(q))
      /\ OneDefault' /\ DefaultStays
  BY <1>1, ProviderMarkKeeps
<1> QED
  BY <1>1, <1>2 DEF ProvInv, ProvTypeOK, DoingFits, NoSecretLeftBehind

LEMMA SetTokenKeeps ==
    ASSUME ProvInv, NEW p \in Providers, SetTokenFile(p) \/ SetTokenRow(p)
    PROVE  ProvInv' /\ DefaultStays
<1>1. CASE SetTokenFile(p)
  <2>1. /\ Known(p) /\ doing = Nothing /\ doing' = [what |-> "set", of |-> p]
        /\ token' = [token EXCEPT ![p] = "token"] /\ UNCHANGED <<profile, inUse, stray>>
    BY <1>1 DEF SetTokenFile, Does
  <2> QED
    BY <2>1, SameRows DEF ProvInv, ProvTypeOK, DoingFits, NoSecretLeftBehind, Nothing
<1>2. CASE SetTokenRow(p)
  <2>1. /\ doing = [what |-> "set", of |-> p] /\ doing' = Nothing
        /\ profile' = [profile EXCEPT ![p].named = TRUE]
        /\ stray' = stray \ {p} /\ UNCHANGED <<token, inUse>>
    BY <1>2 DEF SetTokenRow, Does2nd
  <2>2. Known(p)
    BY <2>1 DEF ProvInv, DoingFits
  <2>3. /\ profile' \in [Providers -> {NoProfile} \cup Rows]
        /\ \A q \in Providers : Known(q)' <=> Known(q)
        /\ \A q \in Providers \ {p} : Named(q)' <=> Named(q)
        /\ Named(p)'
        /\ OneDefault' /\ DefaultStays
    BY <2>1, <2>2, ProviderMarkKeeps
  <2> QED
    BY <2>1, <2>3 DEF ProvInv, ProvTypeOK, DoingFits, NoSecretLeftBehind, Nothing
<1> QED
  BY <1>1, <1>2

\* The file a row names goes; nothing but a stray file is left.
LEMMA TokenGoes ==
    ASSUME ProvInv, NEW p \in Providers, doing = Nothing,
           token' = IF Named(p) THEN [token EXCEPT ![p] = "none"] ELSE token
    PROVE  /\ token' \in [Providers -> {"none", "empty", "token"}]
           /\ token'[p] = "none" \/ p \in stray
           /\ \A q \in Providers : token'[q] # "none" => Named(q) \/ q \in stray
<1>1. \A q \in Providers : token[q] # "none" => Named(q) \/ q \in stray
  BY DEF ProvInv, NoSecretLeftBehind, Nothing
<1> QED
  BY <1>1 DEF ProvInv, ProvTypeOK

LEMMA ClearTokenKeeps ==
    ASSUME ProvInv, NEW p \in Providers, ClearTokenFile(p) \/ ClearTokenRow(p)
    PROVE  ProvInv' /\ DefaultStays
<1>1. CASE ClearTokenFile(p)
  <2>1. /\ Known(p) /\ doing = Nothing /\ doing' = [what |-> "clear", of |-> p]
        /\ token' = IF Named(p) THEN [token EXCEPT ![p] = "none"] ELSE token
        /\ UNCHANGED <<profile, inUse, stray>>
    BY <1>1 DEF ClearTokenFile, Does
  <2>2. /\ token' \in [Providers -> {"none", "empty", "token"}]
        /\ token'[p] = "none" \/ p \in stray
        /\ \A q \in Providers : token'[q] # "none" => Named(q) \/ q \in stray
    BY <2>1, TokenGoes
  <2> QED
    BY <2>1, <2>2, SameRows DEF ProvInv, ProvTypeOK, DoingFits, NoSecretLeftBehind
<1>2. CASE ClearTokenRow(p)
  <2>1. /\ doing = [what |-> "clear", of |-> p] /\ doing' = Nothing
        /\ profile' = [profile EXCEPT ![p].named = FALSE]
        /\ UNCHANGED <<token, inUse, stray>>
    BY <1>2 DEF ClearTokenRow, Does2nd
  <2>2. Known(p) /\ (token[p] = "none" \/ p \in stray)
    BY <2>1 DEF ProvInv, DoingFits
  <2>3. /\ profile' \in [Providers -> {NoProfile} \cup Rows]
        /\ \A q \in Providers \ {p} : Named(q)' <=> Named(q)
        /\ OneDefault' /\ DefaultStays
    BY <2>1, <2>2, ProviderMarkKeeps
  <2> QED
    BY <2>1, <2>2, <2>3 DEF ProvInv, ProvTypeOK, DoingFits, NoSecretLeftBehind, Nothing
<1> QED
  BY <1>1, <1>2

LEMMA RemoveKeeps ==
    ASSUME ProvInv, NEW p \in Providers, RemoveOrDisable(p) \/ RemoveRow(p)
    PROVE  ProvInv' /\ DefaultStays
<1>1. CASE RemoveOrDisable(p) /\ p \in inUse
  <2>1. /\ Known(p) /\ profile' = [profile EXCEPT ![p].enabled = FALSE]
        /\ UNCHANGED <<doing, token, inUse, stray>>
    BY <1>1 DEF RemoveOrDisable
  <2>2. /\ profile' \in [Providers -> {NoProfile} \cup Rows]
        /\ \A q \in Providers : (Known(q)' <=> Known(q)) /\ (Named(q)' <=> Named(q))
        /\ OneDefault' /\ DefaultStays
    BY <2>1, ProviderMarkKeeps
  <2> QED
    BY <2>1, <2>2 DEF ProvInv, ProvTypeOK, DoingFits, NoSecretLeftBehind
<1>2. CASE RemoveOrDisable(p) /\ p \notin inUse
  <2>1. /\ doing = Nothing /\ doing' = [what |-> "remove", of |-> p]
        /\ token' = IF Named(p) THEN [token EXCEPT ![p] = "none"] ELSE token
        /\ UNCHANGED <<profile, inUse, stray>>
    BY <1>2 DEF RemoveOrDisable, Does
  <2>2. /\ token' \in [Providers -> {"none", "empty", "token"}]
        /\ token'[p] = "none" \/ p \in stray
        /\ \A q \in Providers : token'[q] # "none" => Named(q) \/ q \in stray
    BY <2>1, TokenGoes
  <2> QED
    BY <2>1, <2>2, SameRows DEF ProvInv, ProvTypeOK, DoingFits, NoSecretLeftBehind
<1>3. CASE RemoveRow(p)
  <2>1. /\ doing = [what |-> "remove", of |-> p] /\ doing' = Nothing
        /\ profile' = [profile EXCEPT ![p] = NoProfile] /\ UNCHANGED <<token, inUse, stray>>
    BY <1>3 DEF RemoveRow, Does2nd
  <2>2. token[p] = "none" \/ p \in stray
    BY <2>1 DEF ProvInv, DoingFits
  <2>3. /\ profile' \in [Providers -> {NoProfile} \cup Rows]
        /\ \A q \in Providers : profile'[q] = IF q = p THEN NoProfile ELSE profile[q]
        /\ \A q \in Providers : IsDefault(q)' => IsDefault(q)
    <3>1. ~NoProfile.there
      BY DEF NoProfile
    <3> QED
      BY <2>1, <3>1, RowWritten DEF ProvInv
  <2>4. ASSUME NEW q \in Providers
        PROVE  /\ IsDefault(q) => IsDefault(q)' \/ ~Known(q)'
               /\ q # p => (Named(q)' <=> Named(q))
    BY <2>3 DEF IsDefault, Known, Named, NoProfile
  <2>5. OneDefault' /\ DefaultStays
    BY <2>3, <2>4, DefaultsKept DEF ProvInv
  <2> QED
    BY <2>1, <2>2, <2>3, <2>4, <2>5 DEF ProvInv, ProvTypeOK, DoingFits, NoSecretLeftBehind, Nothing
<1> QED
  BY <1>1, <1>2, <1>3 DEF RemoveRow

LEMMA CutShortKeeps ==
    ASSUME ProvInv, ProvRestart
    PROVE  ProvInv' /\ DefaultStays
<1>1. doing # Nothing /\ doing' = Nothing /\ UNCHANGED <<profile, inUse>>
  BY DEF ProvRestart
<1>2. PICK p \in Providers, w \in {"default", "set", "clear", "remove"} :
         doing = [what |-> w, of |-> p]
  BY <1>1 DEF ProvInv, ProvTypeOK
<1>3. CASE w = "set"
  <2>1. /\ token' \in {token, [token EXCEPT ![p] = "empty"]}
        /\ stray' = IF Named(p) THEN stray ELSE stray \cup {p}
    BY <1>2, <1>3 DEF ProvRestart
  <2> QED
    BY <1>1, <1>2, <1>3, <2>1, SameRows DEF ProvInv, ProvTypeOK, DoingFits, NoSecretLeftBehind, Nothing
<1>4. CASE w # "set"
  <2>1. UNCHANGED <<token, stray>>
    BY <1>2, <1>4 DEF ProvRestart
  <2> QED
    BY <1>1, <1>2, <1>4, <2>1, SameRows DEF ProvInv, ProvTypeOK, DoingFits, NoSecretLeftBehind, Nothing
<1> QED
  BY <1>3, <1>4

LEMMA ProvSteps ==
    ASSUME ProvInv, ProvNext \/ UNCHANGED provVars
    PROVE  ProvInv' /\ DefaultStays
<1>1. ASSUME NEW p \in Providers, UseProvider(p) PROVE ProvInv' /\ DefaultStays
  BY <1>1, SameRows DEF UseProvider, ProvInv, ProvTypeOK, DoingFits, NoSecretLeftBehind
<1>2. CASE UNCHANGED provVars
  BY <1>2, SameRows DEF provVars, ProvInv, ProvTypeOK, DoingFits, NoSecretLeftBehind
<1> QED
  BY <1>1, <1>2, CutShortKeeps, RegisterKeeps, DefaultKeeps, UpdateKeeps, SetTokenKeeps,
     ClearTokenKeeps, RemoveKeeps DEF ProvNext

-----------------------------------------------------------------------------
(* The listener's restarts                                                 *)

\* The last delay in Delays is their maximum.
LEMMA MaxDelayIsLast == MaxDelay \in Delays /\ MaxDelay \in Nat /\ \A d \in Delays : d <= MaxDelay
<1>1. \E d \in Delays : \A e \in Delays : e <= d
  BY HealthAssumption
<1>2. MaxDelay \in Delays /\ \A d \in Delays : d <= MaxDelay
  BY <1>1 DEF MaxDelay
<1> QED
  BY <1>2, HealthAssumption

\* Aging by one check keeps what is ordered in order, and an age in its range.
LEMMA AgedInRange ==
    ASSUME NEW limit \in Nat, NEW age \in NoAge..limit
    PROVE  /\ Aged(age, limit) \in NoAge..limit
           /\ Aged(age, limit) = NoAge <=> age = NoAge
           /\ age \in 0..limit => Aged(age, limit) \in 0..limit
  BY DEF Aged, NoAge

\* What the last check saw of the listener was good.
SeenWell == seen.listenerRunning /\ seen.status # "LISTENER_DOWN"

\* The failure that is being waited out began after the last check that saw the
\* listener well, but for a check that is not acted on yet; what the history
\* counts is what the worker counts, and an attempt that is noted now is the
\* only one of its age.
HealthInv ==
    /\ HealthTypeOK
    /\ unhealthyFor \in 0..(MaxDelay + 1)
    /\ wpc = "deciding" /\ ~SeenWell => unhealthyFor > 0
    /\ downFor = NoAge \/ downFor < unhealthyFor \/ (wpc = "deciding" /\ SeenWell)
    /\ budget = Recent
    /\ wpc = "deciding" => 0 \notin tries

LEMMA HealthStart == HealthInit => HealthInv
<1> SUFFICES ASSUME HealthInit PROVE HealthInv
  OBVIOUS
<1>1. Cardinality({}) = 0
  BY FS_EmptySet
<1>2. HealthTypeOK
  <2>1. NoAge \in NoAge..MaxDelay /\ NoAge \in NoAge..ResultTimeout /\ NoAge \in NoAge..PausedLimit
        /\ NoAge \in NoAge..(Quiet + 1)
    BY MaxDelayIsLast, HealthAssumption DEF NoAge
  <2>2. Cardinality(tries) <= MaxRecoveries
    BY <1>1, HealthAssumption DEF HealthInit
  <2> QED
    BY <2>1, <2>2 DEF HealthInit, HealthTypeOK, Statuses
<1>3. budget = Recent
  BY DEF HealthInit, Recent
<1> QED
  BY <1>2, <1>3, MaxDelayIsLast DEF HealthInit, HealthInv

\* The attempts that count are some of those that are kept.
LEMMA FewAttempts ==
    ASSUME HealthTypeOK
    PROVE  /\ Recent \subseteq 0..AttemptWindow /\ IsFiniteSet(Recent)
           /\ Cardinality(Recent) \in Nat /\ Cardinality(Recent) <= MaxRecoveries
           /\ Cardinality({}) <= MaxRecoveries
<1>1. IsFiniteSet(0..AttemptWindow)
  BY FS_Interval, HealthAssumption
<1>2. IsFiniteSet(tries) /\ Recent \subseteq tries
  BY <1>1, FS_Subset DEF HealthTypeOK, Recent
<1>3. IsFiniteSet(Recent) /\ Cardinality(Recent) <= Cardinality(tries) /\ Cardinality(Recent) \in Nat
      /\ Cardinality(tries) \in Nat
  BY <1>2, FS_Subset, FS_CardinalityType
<1>4. Cardinality({}) = 0
  BY FS_EmptySet
<1> QED
  BY <1>2, <1>3, <1>4, HealthAssumption DEF HealthTypeOK

\* A set of ages does not grow when time passes.
LEMMA OlderAges ==
    ASSUME HealthTypeOK, TimePassed
    PROVE  /\ tries' \subseteq 0..AttemptWindow /\ Cardinality(tries') <= MaxRecoveries
           /\ budget = Recent => budget' = Recent'
           /\ 0 \notin tries'
<1> DEFINE older(ages) == {Aged(age, AttemptWindow) : age \in ages}
<1>1. tries' = older(tries) /\ budget' = {age \in older(budget) : age < AttemptWindow}
  BY DEF TimePassed
<1>2. \A age \in 0..AttemptWindow : Aged(age, AttemptWindow) \in 0..AttemptWindow
  BY HealthAssumption DEF Aged, NoAge
<1>3. tries' \subseteq 0..AttemptWindow /\ 0 \notin tries'
  <2>1. \A age \in 0..AttemptWindow : Aged(age, AttemptWindow) # 0
    BY HealthAssumption DEF Aged, NoAge
  <2> QED
    BY <1>1, <1>2, <2>1 DEF HealthTypeOK
<1>4. Cardinality(tries') <= MaxRecoveries
  <2>1. IsFiniteSet(tries)
    <3>1. IsFiniteSet(0..AttemptWindow)
      BY FS_Interval, HealthAssumption
    <3> QED
      BY <3>1, FS_Subset DEF HealthTypeOK
  <2> DEFINE f == [age \in tries |-> Aged(age, AttemptWindow)]
  <2>2. older(tries) = {f[age] : age \in tries}
    OBVIOUS
  <2>3. f \in Surjection(tries, older(tries))
    BY <2>2, Fun_IsSurj
  <2> HIDE DEF f
  <2>4. IsFiniteSet(older(tries)) /\ Cardinality(older(tries)) <= Cardinality(tries)
    BY <2>1, <2>3, FS_Surjection
  <2>5. Cardinality(older(tries)) \in Nat /\ Cardinality(tries) \in Nat
    BY <2>1, <2>4, FS_CardinalityType
  <2> QED
    BY <1>1, <2>4, <2>5, HealthAssumption DEF HealthTypeOK
<1>5. ASSUME budget = Recent PROVE budget' = Recent'
  <2>1. \A age \in tries : age \notin Recent => Aged(age, AttemptWindow) = age /\ age >= AttemptWindow
    BY HealthAssumption DEF Recent, HealthTypeOK, Aged
  <2>2. Recent \subseteq tries /\ Recent' = {age \in tries' : age < AttemptWindow}
    BY DEF Recent
  <2>3. older(tries) = older(Recent) \cup {age \in tries : age \notin Recent}
    BY <2>1, <2>2
  <2>4. \A age \in tries : age \notin Recent => ~(age < AttemptWindow)
    BY HealthAssumption DEF Recent
  <2> QED
    BY <1>1, <1>5, <2>2, <2>3, <2>4
<1> QED
  BY <1>3, <1>4, <1>5

\* A step of the listener, of a command or of a page: nothing the worker decides by.
RadioOnly ==
    /\ health' = health /\ seen' = seen /\ UNCHANGED recoveryVars
    /\ budget' = budget /\ unhealthyFor' = unhealthyFor
    /\ wpc' = wpc \/ (wpc = "restarting" /\ wpc' = "sleeping")
Flags ==
    /\ listenerRunning' \in BOOLEAN /\ pause' \in BOOLEAN /\ released' \in BOOLEAN
    /\ recoveryOn' \in BOOLEAN

LEMMA RadioSteps ==
    ASSUME HealthInv,
           \/ ListenerStarts \/ ListenerStops \/ PacketHeard \/ CommandPauses \/ CommandResumes
           \/ PortReleased \/ PortReconnected \/ SettingsSaved \/ RestartResumes
           \/ UNCHANGED healthVars
    PROVE  HealthInv'
<1>1. packetAge' \in {0, packetAge} /\ delay' \in Delays
  BY DEF ListenerStarts, ListenerStops, PacketHeard, CommandPauses, CommandResumes, PortReleased,
         PortReconnected, SettingsSaved, RestartResumes, Radio, radioVars, healthVars, HealthInv,
         HealthTypeOK
<1>2. listenerRunning \in BOOLEAN /\ pause \in BOOLEAN /\ released \in BOOLEAN /\ recoveryOn \in BOOLEAN
  BY DEF HealthInv, HealthTypeOK
<1>3. ASSUME NEW run, NEW p, NEW rel, NEW age, Radio(run, p, rel, age)
      PROVE  RadioOnly /\ listenerRunning' = run /\ pause' = p /\ released' = rel /\ recoveryOn' = recoveryOn
  BY <1>3 DEF Radio, RadioOnly
<1>4. RadioOnly /\ Flags
  <2>1. CASE ListenerStarts
    BY <1>2, <1>3, <2>1 DEF ListenerStarts, Flags
  <2>2. CASE ListenerStops
    BY <1>2, <1>3, <2>2 DEF ListenerStops, Flags
  <2>3. CASE PacketHeard
    BY <1>2, <1>3, <2>3 DEF PacketHeard, Flags
  <2>4. CASE CommandPauses
    BY <1>2, <1>3, <2>4 DEF CommandPauses, Flags
  <2>5. CASE CommandResumes
    BY <1>2, <1>3, <2>5 DEF CommandResumes, Flags
  <2>6. CASE PortReleased
    BY <1>2, <1>3, <2>6 DEF PortReleased, Flags
  <2>7. CASE PortReconnected
    BY <1>2, <1>3, <2>7 DEF PortReconnected, Flags
  <2>8. CASE SettingsSaved
    <3>1. /\ RadioOnly /\ listenerRunning' = listenerRunning /\ pause' = pause /\ released' = released
          /\ recoveryOn' \in BOOLEAN
      BY <2>8 DEF RadioOnly, SettingsSaved, radioVars
    <3> QED
      BY <1>2, <3>1 DEF Flags
  <2>9. CASE RestartResumes
    <3>1. /\ RadioOnly /\ listenerRunning' = listenerRunning /\ pause' = FALSE /\ released' = released
          /\ recoveryOn' = recoveryOn
      BY <2>9 DEF RadioOnly, RestartResumes
    <3> QED
      BY <1>2, <3>1 DEF Flags
  <2>10. CASE UNCHANGED healthVars
    <3>1. /\ listenerRunning' = listenerRunning /\ pause' = pause /\ released' = released
          /\ recoveryOn' = recoveryOn
      BY <2>10 DEF healthVars
    <3>2. RadioOnly
      <4>1. /\ health' = health /\ seen' = seen /\ UNCHANGED recoveryVars /\ wpc' = wpc
            /\ budget' = budget /\ unhealthyFor' = unhealthyFor
        BY <2>10 DEF healthVars, recoveryVars
      <4> QED
        BY <4>1 DEF RadioOnly
    <3> QED
      BY <1>2, <3>1, <3>2 DEF Flags
  <2> QED
    BY <2>1, <2>2, <2>3, <2>4, <2>5, <2>6, <2>7, <2>8, <2>9, <2>10
<1>5. HealthTypeOK'
  BY <1>1, <1>4, HealthAssumption DEF RadioOnly, Flags, HealthInv, HealthTypeOK, NoAge, recoveryVars
<1>6. Recent' = Recent
  BY <1>4 DEF RadioOnly, Recent, recoveryVars
<1> QED
  BY <1>4, <1>5, <1>6 DEF RadioOnly, HealthInv, SeenWell, recoveryVars

\* What a check makes of the ages.
LEMMA TimeEffect ==
    ASSUME HealthInv, TimePassed
    PROVE  /\ UNCHANGED <<listenerRunning, pause, released, recoveryOn, delay>>
           /\ packetAge' \in NoAge..(Quiet + 1) /\ downFor' \in NoAge..MaxDelay
           /\ pendingFor' \in NoAge..ResultTimeout
           /\ tries' \subseteq 0..AttemptWindow /\ Cardinality(tries') <= MaxRecoveries
           /\ budget' = Recent' /\ 0 \notin tries'
           /\ Aged(unhealthyFor, MaxDelay + 1) \in 1..(MaxDelay + 1)
           /\ downFor = NoAge => downFor' = NoAge
           /\ downFor # NoAge /\ downFor < unhealthyFor => downFor' < Aged(unhealthyFor, MaxDelay + 1)
<1>1. /\ packetAge' = Aged(packetAge, Quiet + 1) /\ downFor' = Aged(downFor, MaxDelay)
      /\ pendingFor' = Aged(pendingFor, ResultTimeout)
      /\ UNCHANGED <<listenerRunning, pause, released, recoveryOn, delay>>
  BY DEF TimePassed
<1>2. Quiet + 1 \in Nat /\ MaxDelay \in Nat /\ ResultTimeout \in Nat
  BY HealthAssumption, MaxDelayIsLast
<1>3. /\ packetAge' \in NoAge..(Quiet + 1) /\ downFor' \in NoAge..MaxDelay
      /\ pendingFor' \in NoAge..ResultTimeout
  BY <1>1, <1>2, AgedInRange DEF HealthInv, HealthTypeOK
<1>4. /\ Aged(unhealthyFor, MaxDelay + 1) \in 1..(MaxDelay + 1)
      /\ downFor = NoAge => downFor' = NoAge
      /\ downFor # NoAge /\ downFor < unhealthyFor => downFor' < Aged(unhealthyFor, MaxDelay + 1)
  BY <1>1, <1>2 DEF HealthInv, HealthTypeOK, Aged, NoAge
<1> QED
  BY <1>1, <1>3, <1>4, OlderAges DEF HealthInv

LEMMA CheckSteps ==
    ASSUME HealthInv, HealthCheck \/ CheckFails
    PROVE  HealthInv'
<1>1. wpc = "sleeping" /\ TimePassed
  BY DEF HealthCheck, CheckFails
<1> DEFINE older == Aged(unhealthyFor, MaxDelay + 1)
<1>2. /\ UNCHANGED <<listenerRunning, pause, released, recoveryOn, delay>>
      /\ packetAge' \in NoAge..(Quiet + 1) /\ downFor' \in NoAge..MaxDelay
      /\ pendingFor' \in NoAge..ResultTimeout
      /\ tries' \subseteq 0..AttemptWindow /\ Cardinality(tries') <= MaxRecoveries
      /\ budget' = Recent' /\ 0 \notin tries'
      /\ older \in 1..(MaxDelay + 1)
      /\ downFor = NoAge => downFor' = NoAge
      /\ downFor # NoAge /\ downFor < unhealthyFor => downFor' < older
  BY <1>1, TimeEffect
<1>3. downFor' = NoAge \/ downFor' < older
  BY <1>1, <1>2 DEF HealthInv
<1> HIDE DEF older
<1>4. CASE HealthCheck
  <2> DEFINE found == StatusOf(Aged(packetAge, Quiet + 1))
             act == IF PausedSince(found) >= PausedLimit THEN "LISTENER_DOWN" ELSE found
  <2>1. /\ wpc' = "deciding" /\ health' = found /\ pausedFor' = PausedSince(found)
        /\ seen' = [status |-> act, listenerRunning |-> listenerRunning]
        /\ unhealthyFor' = IF listenerRunning /\ act # "LISTENER_DOWN" THEN 0 ELSE older
    BY <1>4 DEF HealthCheck, older
  <2>2. found \in Statuses
    BY DEF StatusOf, Statuses
  <2>3. PausedSince(found) \in NoAge..PausedLimit
    BY HealthAssumption DEF PausedSince, HealthInv, HealthTypeOK, Aged, NoAge
  <2>4. act \in Statuses
    BY <2>2 DEF Statuses
  <2> HIDE DEF found, act
  <2>5. HealthTypeOK'
    BY <1>2, <2>1, <2>2, <2>3, <2>4 DEF HealthInv, HealthTypeOK
  <2>6. SeenWell' <=> listenerRunning /\ act # "LISTENER_DOWN"
    BY <2>1 DEF SeenWell
  <2>7. unhealthyFor' \in 0..(MaxDelay + 1)
    BY <1>2, <2>1, MaxDelayIsLast
  <2> QED
    BY <1>2, <1>3, <2>1, <2>5, <2>6, <2>7 DEF HealthInv
<1>5. CASE CheckFails
  <2>1. /\ health' = "ERROR" /\ pausedFor' = Aged(pausedFor, PausedLimit)
        /\ unhealthyFor' = older /\ UNCHANGED <<wpc, seen>>
    BY <1>5 DEF CheckFails, older
  <2>2. pausedFor' \in NoAge..PausedLimit
    BY <2>1, AgedInRange, HealthAssumption DEF HealthInv, HealthTypeOK
  <2>3. HealthTypeOK'
    BY <1>2, <2>1, <2>2 DEF HealthInv, HealthTypeOK, Statuses
  <2>4. unhealthyFor' \in 0..(MaxDelay + 1)
    BY <1>2, <2>1, MaxDelayIsLast
  <2> QED
    BY <1>1, <1>2, <1>3, <2>1, <2>3, <2>4 DEF HealthInv
<1> QED
  BY <1>4, <1>5

\* A decision that leaves the listener alone.
LEMMA SettledKeeps ==
    ASSUME HealthInv, wpc = "deciding", NEW down \in {NoAge, 0, downFor}, NEW noted \in {{}, Recent},
           NEW pending \in {NoAge, pendingFor}, Settled(down, noted, pending),
           \/ down = NoAge
           \/ ~SeenWell /\ (down = 0 \/ down = downFor),
           \/ noted = Recent /\ UNCHANGED budget
           \/ noted = {} /\ budget' = {}
    PROVE  HealthInv'
<1>1. /\ downFor' = down /\ tries' = noted /\ pendingFor' = pending /\ wpc' = "sleeping"
      /\ UNCHANGED <<listenerRunning, pause, released, packetAge, health, recoveryOn, delay, seen,
                     pausedFor, unhealthyFor>>
  BY DEF Settled, radioVars
<1>2. /\ downFor' \in NoAge..MaxDelay /\ pendingFor' \in NoAge..ResultTimeout
      /\ downFor' = NoAge \/ downFor' < unhealthyFor
  BY <1>1, MaxDelayIsLast, HealthAssumption DEF HealthInv, HealthTypeOK, NoAge
<1>3. tries' \subseteq 0..AttemptWindow /\ Cardinality(tries') <= MaxRecoveries
  BY <1>1, FewAttempts DEF HealthInv
<1>4. budget' = Recent'
  BY <1>1 DEF HealthInv, Recent
<1>5. HealthTypeOK'
  BY <1>1, <1>2, <1>3 DEF HealthInv, HealthTypeOK
<1> QED
  BY <1>1, <1>2, <1>4, <1>5 DEF HealthInv

LEMMA DecideSteps ==
    ASSUME HealthInv, Decide
    PROVE  HealthInv' /\ (RestartListener => unhealthyFor > delay)
<1>0. ASSUME RestartListener PROVE ~SeenWell
  BY <1>0 DEF RestartListener, SeenWell
<1>1. CASE RecoveryOff
  BY <1>0, <1>1, SettledKeeps DEF RecoveryOff, RestartListener, Watching
<1>2. CASE AwaitResult
  BY <1>2, SettledKeeps DEF AwaitResult, SeenWell, RestartListener, Watching
<1>3. CASE NotDown
  BY <1>3, SettledKeeps DEF NotDown, Watching, SeenWell, RestartListener
<1>4. CASE WaitBeforeRestart
  <2>1. ~SeenWell /\ wpc = "deciding" /\ UNCHANGED budget
        /\ Settled(IF downFor = NoAge THEN 0 ELSE downFor, Recent, NoAge)
    BY <1>4 DEF WaitBeforeRestart, Watching, SeenWell
  <2>2. wpc' = "sleeping"
    BY <2>1 DEF Settled
  <2> QED
    BY <2>1, <2>2, SettledKeeps DEF RestartListener
<1>5. CASE RestartListener
  <2>1. /\ ~SeenWell /\ wpc = "deciding" /\ downFor # NoAge /\ downFor >= delay
        /\ Cardinality(Recent) < MaxRecoveries
        /\ downFor' = NoAge /\ tries' = Recent \cup {0} /\ pendingFor' = 0
        /\ budget' = budget \cup {0} /\ pause' = TRUE /\ wpc' = "restarting"
        /\ UNCHANGED <<listenerRunning, released, packetAge, health, recoveryOn, delay, seen,
                       pausedFor, unhealthyFor>>
    BY <1>5 DEF RestartListener, Watching, SeenWell
  <2>2. unhealthyFor > delay
    <3>1. delay \in Nat /\ downFor \in Int /\ unhealthyFor \in Int
      BY HealthAssumption DEF HealthInv, HealthTypeOK, NoAge
    <3> QED
      BY <2>1, <3>1 DEF HealthInv
  <2>3. tries' \subseteq 0..AttemptWindow /\ Cardinality(tries') <= MaxRecoveries
    <3>1. IsFiniteSet(Recent) /\ Cardinality(Recent) \in Nat /\ Recent \subseteq 0..AttemptWindow
      BY FewAttempts DEF HealthInv
    <3> DEFINE n == Cardinality(Recent)
    <3>2. Cardinality(Recent \cup {0}) \in {n, n + 1}
      BY <3>1, FS_AddElement
    <3>3. n \in Nat /\ n < MaxRecoveries
      BY <2>1, <3>1
    <3> HIDE DEF n
    <3>4. Cardinality(tries') \in {n, n + 1}
      BY <2>1, <3>2
    <3>5. tries' \subseteq 0..AttemptWindow
      BY <2>1, <3>1, HealthAssumption
    <3> QED
      BY <3>3, <3>4, <3>5, HealthAssumption
  <2>4. budget' = Recent'
    BY <2>1, HealthAssumption DEF HealthInv, Recent
  <2>5. HealthTypeOK'
    BY <2>1, <2>3, MaxDelayIsLast, HealthAssumption DEF HealthInv, HealthTypeOK, NoAge
  <2> QED
    BY <2>1, <2>2, <2>4, <2>5 DEF HealthInv
<1> QED
  BY <1>1, <1>2, <1>3, <1>4, <1>5 DEF Decide

LEMMA HealthSteps ==
    ASSUME HealthInv, HealthNext \/ UNCHANGED healthVars
    PROVE  HealthInv' /\ (RestartListener => unhealthyFor > delay)
<1>1. ~RestartListener => (\/ ListenerStarts \/ ListenerStops \/ PacketHeard \/ CommandPauses
                          \/ CommandResumes \/ PortReleased \/ PortReconnected \/ SettingsSaved
                          \/ RestartResumes \/ UNCHANGED healthVars
                          \/ HealthCheck \/ CheckFails \/ Decide)
  BY DEF HealthNext
<1>2. RestartListener => Decide
  BY DEF Decide
<1> QED
  BY <1>1, <1>2, RadioSteps, CheckSteps, DecideSteps

LEMMA RationFollows == HealthInv => RationIsKept
  BY FewAttempts DEF HealthInv, RationIsKept

\* No announcement replaces a confirmed key and no letter is sealed for a key its
\* route is not trusted for; a default Relay is lost only with its profile; but
\* for a set that was cut short, no token file is without the row that names it:
\* whatever the number of addresses, keys and providers (key_exchange.py,
\* provider_registry.py).
THEOREM TrustIsNeverLost == WorkersSpec => TrustIsKept
<1> DEFINE Inv == KeyTypeOK /\ ProvInv
<1>1. WorkersInit => Inv
  BY KeyStart, ProvStart DEF WorkersInit
<1>2. Inv /\ [WorkersNext]_workersVars => Inv'
  BY PartSteps, KeySteps, ProvSteps
<1>3. Inv /\ [WorkersNext]_workersVars =>
         [/\ \A a \in Addresses :
                binding[a].confirmed /\ binding'[a].confirmed => binding'[a].key = binding[a].key
          /\ letter'.pc = "sealed" /\ letter.pc = "draft" =>
                Ready(letter.route) /\ binding[letter.route].key = letter.key]_keyVars
  BY PartSteps, KeySteps DEF KeyStepSafe
<1>4. Inv /\ [WorkersNext]_workersVars =>
         [LET now == {p \in Providers : IsDefault(p)}
              next == {p \in Providers : IsDefault(p)'}
          IN /\ Cardinality(next) <= 1
             /\ now # {} /\ next = {} => \E p \in now : ~Known(p)']_provVars
  BY PartSteps, ProvSteps DEF DefaultStays
<1>5. Inv => (part = "providers" => NoSecretLeftBehind)
  BY DEF ProvInv
<1> QED
  BY <1>1, <1>2, <1>3, <1>4, <1>5, PTL DEF WorkersSpec, TrustIsKept, TrustIsPinned, DefaultIsKept

\* Whatever the delays, limits and time-outs: a restart hits no listener that a
\* check of the last "delay" saw well, and there are at most MaxRecoveries of
\* them in a window, whichever of the two reasons brought recovery in
\* (server.py:4022-4262).
THEOREM RestartsAreRare == WorkersSpec => RestartsAreRationed
<1>1. WorkersInit => HealthInv
  BY HealthStart DEF WorkersInit
<1>2. HealthInv /\ [WorkersNext]_workersVars => HealthInv'
  BY PartSteps, HealthSteps
<1>3. HealthInv /\ [WorkersNext]_workersVars => [RestartListener => unhealthyFor > delay]_healthVars
  BY PartSteps, HealthSteps
<1>4. HealthInv => (part = "health" => RationIsKept)
  BY RationFollows
<1> QED
  BY <1>1, <1>2, <1>3, <1>4, PTL DEF WorkersSpec, RestartsAreRationed, RestartIsPatient

-----------------------------------------------------------------------------
(* The commands of the attachment worker                                   *)

CreateRequests ==
    [kind : {"create"}, pc : Active \cup Answers \cup {"lost"}, key : IdempotencyKeys, hash : Hashes,
     seen : CommandIds, told : CommandIds]
OtherRequests ==
    [kind : Kinds \ {"create"}, pc : {"reserved", "registered"} \cup Answers \cup {"lost"},
     target : CommandIds]

\* What a create asks for does not change.
SameAsk(r) ==
    Creates(r) => /\ Creates(r)' /\ request'[r].key = request[r].key
                  /\ request'[r].hash = request[r].hash

LEMMA AskedFields ==
    ASSUME CmdTypeOK, NEW r \in Requests
    PROVE  /\ Creates(r) => request[r] \in CreateRequests
           /\ ~Creates(r) => request[r] = Unasked \/ request[r] \in OtherRequests
           /\ request[r].pc # "idle" /\ ~Creates(r) => request[r] \in OtherRequests
           /\ Creates(r) => request[r].pc # "idle"
<1>1. request[r] = Unasked \/ request[r] \in CreateRequests \/ request[r] \in OtherRequests
  BY DEF CmdTypeOK, CreateRequests, OtherRequests
<1>2. Unasked.kind = "none" /\ Unasked.pc = "idle"
  BY DEF Unasked
<1>3. \A one \in CreateRequests : one.kind = "create" /\ one.pc # "idle"
  BY DEF CreateRequests, Active, Answers
<1>4. \A one \in OtherRequests : one.kind # "create"
  BY DEF OtherRequests
<1> QED
  BY <1>1, <1>2, <1>3, <1>4 DEF Creates

\* One request's new record is its own affair.
LEMMA OneAsk ==
    ASSUME CmdTypeOK, NEW r \in Requests, NEW new \in CreateRequests \cup OtherRequests,
           request' = [request EXCEPT ![r] = new],
           Creates(r) => /\ new.kind = "create" /\ new.key = request[r].key
                         /\ new.hash = request[r].hash
    PROVE  /\ request' \in [Requests -> {Unasked} \cup CreateRequests \cup OtherRequests]
           /\ request'[r] = new
           /\ \A s \in Requests \ {r} : request'[s] = request[s]
           /\ \A s \in Requests : SameAsk(s)
           /\ \A s \in Requests \ {r} : Creates(s)' <=> Creates(s)
<1>1. request \in [Requests -> {Unasked} \cup CreateRequests \cup OtherRequests]
  BY DEF CmdTypeOK, CreateRequests, OtherRequests
<1>2. /\ request' \in [Requests -> {Unasked} \cup CreateRequests \cup OtherRequests]
      /\ request'[r] = new
      /\ \A s \in Requests \ {r} : request'[s] = request[s]
  BY <1>1
<1> QED
  BY <1>2 DEF SameAsk, Creates

\* A request goes on to pc and stays what it was.
LEMMA MovesOn ==
    ASSUME CmdTypeOK, NEW r \in Requests, request[r].pc # "idle",
           NEW pc \in Active \cup Answers,
           pc \in {"staging", "staged", "looked"} => Creates(r), Moves(r, pc)
    PROVE  /\ request' \in [Requests -> {Unasked} \cup CreateRequests \cup OtherRequests]
           /\ request'[r].pc = pc /\ request'[r].kind = request[r].kind
           /\ Creates(r) => request'[r].seen = request[r].seen /\ request'[r].told = request[r].told
           /\ ~Creates(r) => request'[r].target = request[r].target
           /\ \A s \in Requests \ {r} : request'[s] = request[s]
           /\ \A s \in Requests : SameAsk(s) /\ (Creates(s)' <=> Creates(s))
<1> DEFINE new == [request[r] EXCEPT !.pc = pc]
<1>0. Moves(r, pc) => request' = [request EXCEPT ![r] = new]
  BY DEF Moves
<1>1. CASE Creates(r)
  <2>1. request[r] \in CreateRequests
    BY <1>1, AskedFields
  <2>2. /\ new \in CreateRequests /\ new.kind = "create" /\ new.key = request[r].key
        /\ new.hash = request[r].hash /\ new.pc = pc
        /\ new.seen = request[r].seen /\ new.told = request[r].told
    BY <2>1 DEF CreateRequests
  <2> HIDE DEF new
  <2> QED
    BY <1>0, <1>1, <2>2, OneAsk DEF Creates
<1>2. CASE ~Creates(r)
  <2>1. request[r] \in OtherRequests
    BY <1>2, AskedFields
  <2>2. /\ new \in OtherRequests /\ new.kind = request[r].kind /\ new.pc = pc
        /\ new.target = request[r].target
    BY <1>2, <2>1 DEF OtherRequests, Active
  <2> HIDE DEF new
  <2> QED
    BY <1>0, <1>2, <2>2, OneAsk DEF Creates
<1> QED
  BY <1>1, <1>2

-----------------------------------------------------------------------------

\* The queue as a sequence.
LEMMA QueueType ==
    ASSUME NEW s
    PROVE  s \in BoundedSeq(Requests, QueueSize) <=> s \in Seq(Requests) /\ Len(s) <= QueueSize
<1>1. BoundedSeq(Requests, QueueSize) = UNION {[1..m -> Requests] : m \in 0..QueueSize}
  BY DEF BoundedSeq, SeqOf
<1>2. ASSUME s \in Seq(Requests), Len(s) <= QueueSize
      PROVE  s \in BoundedSeq(Requests, QueueSize)
  <2>1. Len(s) \in 0..QueueSize /\ s \in [1..Len(s) -> Requests]
    BY <1>2, QueueAssumption
  <2> QED
    BY <1>1, <2>1
<1>3. ASSUME s \in BoundedSeq(Requests, QueueSize)
      PROVE  s \in Seq(Requests) /\ Len(s) <= QueueSize
  <2>1. PICK m \in 0..QueueSize : s \in [1..m -> Requests]
    BY <1>1, <1>3
  <2>2. s \in Seq(Requests) /\ Len(s) = m
    BY <2>1, QueueAssumption
  <2> QED
    BY <2>1, <2>2, QueueAssumption
<1> QED
  BY <1>2, <1>3

Distinct(s) == \A i, j \in 1..Len(s) : s[i] = s[j] => i = j

LEMMA QueueElements ==
    ASSUME NEW s \in Seq(Requests)
    PROVE  ToSet(s) = {s[i] : i \in 1..Len(s)} /\ ToSet(s) \subseteq Requests
  BY DEF ToSet

LEMMA QueueGrows ==
    ASSUME NEW s \in Seq(Requests), NEW r \in Requests, Distinct(s), r \notin ToSet(s)
    PROVE  /\ Append(s, r) \in Seq(Requests) /\ Len(Append(s, r)) = Len(s) + 1
           /\ ToSet(Append(s, r)) = ToSet(s) \cup {r} /\ Distinct(Append(s, r))
<1> DEFINE t == Append(s, r)
<1>1. /\ t \in Seq(Requests) /\ Len(t) = Len(s) + 1 /\ t[Len(s) + 1] = r
      /\ \A i \in 1..Len(s) : t[i] = s[i]
  OBVIOUS
<1> HIDE DEF t
<1>2. \A i \in 1..Len(t) : i \in 1..Len(s) \/ i = Len(s) + 1
  BY <1>1
<1>3. ToSet(t) = ToSet(s) \cup {r}
  BY <1>1, <1>2, QueueElements
<1>4. Distinct(t)
  BY <1>1, <1>2, QueueElements DEF Distinct
<1> QED
  BY <1>1, <1>3, <1>4 DEF t

LEMMA QueueShrinks ==
    ASSUME NEW s \in Seq(Requests), s # <<>>, Distinct(s)
    PROVE  /\ Tail(s) \in Seq(Requests) /\ Len(Tail(s)) <= Len(s)
           /\ Head(s) \in ToSet(s) /\ ToSet(Tail(s)) = ToSet(s) \ {Head(s)} /\ Distinct(Tail(s))
<1> DEFINE t == Tail(s)
<1>1. /\ t \in Seq(Requests) /\ Len(s) \in Nat /\ Len(s) > 0 /\ Len(t) = Len(s) - 1 /\ Head(s) = s[1]
      /\ \A i \in 1..Len(t) : t[i] = s[i + 1]
  OBVIOUS
<1> HIDE DEF t
<1>2. \A i \in 1..Len(t) : i + 1 \in 1..Len(s) /\ i + 1 # 1
  BY <1>1
<1>3. \A i \in 1..Len(s) : i = 1 \/ (i - 1 \in 1..Len(t) /\ t[i - 1] = s[i])
  BY <1>1
<1>4. 1 \in 1..Len(s)
  BY <1>1
<1>5. ToSet(t) = ToSet(s) \ {Head(s)}
  <2>1. ASSUME NEW i \in 1..Len(t) PROVE t[i] \in ToSet(s) \ {Head(s)}
    BY <1>1, <1>2, <1>4, QueueElements DEF Distinct
  <2>2. ASSUME NEW x \in ToSet(s) \ {Head(s)} PROVE x \in ToSet(t)
    BY <1>1, <1>3, QueueElements
  <2> QED
    BY <1>1, <2>1, <2>2, QueueElements
<1>6. Distinct(t)
  <2> SUFFICES ASSUME NEW i \in 1..Len(t), NEW j \in 1..Len(t), t[i] = t[j] PROVE i = j
    BY DEF Distinct
  <2>1. i + 1 = j + 1
    BY <1>1, <1>2 DEF Distinct
  <2> QED
    BY <2>1, <1>1
<1> QED
  BY <1>1, <1>4, <1>5, <1>6, QueueElements DEF t

Accepted(r) == request[r].pc = "accepted"
Waits(r) == r \in ToSet(queue) \/ r \in Running

\* x is a row, and the one r asked for.
Bears(r, x) ==
    /\ row[x] # "none"
    /\ request[x].key = request[r].key /\ request[x].hash = request[r].hash

\* A cancel has its target.
TargetsInv == \A r \in Requests : request[r].kind = "cancel" => request[r].target \in Requests

\* A command waits once; while it waits nothing else has happened to it.
QueueInv ==
    /\ Distinct(queue)
    /\ \A r \in Requests : r \in ToSet(queue) => r \notin Running
    /\ Running # {} => duty = "commands"
    /\ \A r \in Requests :
          Waits(r) => /\ Accepted(r) /\ row[r] = "none" /\ r \notin backlog
                      /\ Creates(r) => spool[r] = "final"

\* A row is that of an accepted create; its file is there until a cancel takes it.
RowInv ==
    /\ \A r \in Requests : row[r] # "none" => Creates(r) /\ Accepted(r) /\ r \notin backlog
    /\ \A r \in Requests : row[r] = "live" /\ r \notin unlinked => spool[r] = "final"
    /\ \A r, s \in Requests :
          row[r] # "none" /\ row[s] # "none" /\ request[r].key = request[s].key => r = s
    /\ \A r \in Requests : index[r] # "none" => row[r] # "none"
    /\ \A r \in backlog : Accepted(r)

\* Between the move to its final name and the queue the file is there.
StagedInv ==
    \A r \in Requests :
       Creates(r) /\ request[r].pc \in {"staged", "looked", "reserved", "registered"}
       => spool[r] = "final"

\* Every attachment that is named to a request is a row, of the same key.
NamedInv ==
    /\ \A r \in Requests : registry[r].resource # NoId => Accepted(r)
    /\ \A r \in Requests : Creates(r) =>
          /\ registry[r].resource # NoId => Bears(r, registry[r].resource)
          /\ request[r].seen # NoId => /\ row[request[r].seen] # "none"
                                       /\ request[request[r].seen].key = request[r].key
          /\ request[r].pc = "replay committed" /\ request[r].told # NoId
                => Bears(r, request[r].told)

CmdInv == CmdTypeOK /\ TargetsInv /\ QueueInv /\ RowInv /\ StagedInv /\ NamedInv

LEMMA CmdStart == CmdInit => CmdInv
<1> SUFFICES ASSUME CmdInit PROVE CmdInv
  OBVIOUS
<1>1. queue = <<>> /\ ToSet(queue) = {} /\ Distinct(queue) /\ queue \in BoundedSeq(Requests, QueueSize)
  <2>1. queue = <<>>
    BY DEF CmdInit
  <2>2. <<>> \in Seq(Requests) /\ Len(<<>>) = 0 /\ 1..0 = {}
    OBVIOUS
  <2>3. <<>> \in BoundedSeq(Requests, QueueSize)
    <3>1. 0 <= QueueSize
      BY QueueAssumption
    <3> QED
      BY <2>2, <3>1, QueueType
  <2> QED
    BY <2>1, <2>2, <2>3, QueueElements DEF Distinct
<1>2. /\ \A r \in Requests : /\ request[r] = Unasked /\ row[r] = "none" /\ index[r] = "none"
                             /\ registry[r] = Forgotten
      /\ Unasked.kind = "none" /\ Unasked.pc = "idle"
      /\ Forgotten.resource = NoId /\ Forgotten.status = "none"
  BY DEF CmdInit, Unasked, Forgotten
<1>3. Running = {} /\ backlog = {}
  BY <1>2 DEF Running, CmdInit
<1>4. CmdTypeOK
  BY <1>1 DEF CmdInit, CmdTypeOK, Free, Forgotten, CommandIds, OfferStates
<1>5. TargetsInv /\ StagedInv
  BY <1>2 DEF TargetsInv, StagedInv
<1>6. QueueInv /\ RowInv
  BY <1>1, <1>2, <1>3 DEF QueueInv, RowInv, Waits
<1>7. NamedInv
  BY <1>2 DEF NamedInv, Creates
<1> QED
  BY <1>4, <1>5, <1>6, <1>7 DEF CmdInv

\* What names a row goes on naming it.
LEMMA StillNamed ==
    ASSUME CmdInv, \A s \in Requests : SameAsk(s),
           \A s \in Requests : row[s] # "none" => row'[s] # "none",
           NEW r \in Requests, Creates(r), NEW x \in Requests
    PROVE  /\ Bears(r, x) => Bears(r, x)'
           /\ row[x] # "none" /\ request[x].key = request[r].key
                 => row'[x] # "none" /\ request'[x].key = request'[r].key
<1>1. row[x] # "none" => Creates(x)
  BY DEF CmdInv, RowInv
<1> QED
  BY <1>1 DEF SameAsk, Bears

LEMMA NamesAreRequests ==
    ASSUME CmdInv, NEW r \in Requests
    PROVE  /\ registry[r].resource # NoId => registry[r].resource \in Requests
           /\ Creates(r) /\ request[r].seen # NoId => request[r].seen \in Requests
           /\ Creates(r) /\ request[r].told # NoId => request[r].told \in Requests
           /\ registry[r] \in [status : {"none", "queued", "running"} \cup Terminal, resource : CommandIds]
  BY AskedFields DEF CmdInv, CmdTypeOK, CommandIds, CreateRequests

\* A step of a request before it is accepted: only its own record, its file and
\* its registry entry change, and rows, index and backlog do not.
LEMMA RequestKeeps ==
    ASSUME CmdInv, NEW r \in Requests, ~Accepted(r), ~Accepted(r)',
           request' \in [Requests -> {Unasked} \cup CreateRequests \cup OtherRequests],
           \A s \in Requests \ {r} : request'[s] = request[s],
           \A s \in Requests : SameAsk(s),
           request'[r].kind = "cancel" => request'[r].target \in Requests,
           spool' \in [Requests -> {"none", "temporary", "final"}],
           \A s \in Requests \ {r} : spool'[s] = spool[s],
           Creates(r)' /\ request'[r].pc \in {"staged", "looked", "reserved", "registered"}
              => spool'[r] = "final",
           registry' \in [Requests -> [status : {"none", "queued", "running"} \cup Terminal,
                                       resource : CommandIds]],
           \A s \in Requests \ {r} : registry'[s] = registry[s],
           registry'[r].resource = NoId /\ registry'[r].status # "running",
           Creates(r)' /\ request'[r].seen # NoId =>
              /\ request'[r].seen \in Requests /\ row[request'[r].seen] # "none"
              /\ request'[request'[r].seen].key = request'[r].key,
           Creates(r)' /\ request'[r].pc = "replay committed" /\ request'[r].told # NoId =>
              request'[r].told \in Requests /\ Bears(r, request[r].told)',
           reservation' \in [IdempotencyKeys -> [id : CommandIds, command : CommandIds]],
           UNCHANGED <<queue, row, offer, index, handoff, backlog, duty, ready, unlinked>>
    PROVE  CmdInv'
<1>0. /\ row' = row /\ index' = index /\ queue' = queue /\ backlog' = backlog /\ duty' = duty
      /\ unlinked' = unlinked
  OBVIOUS
<1>1. CmdTypeOK'
  BY DEF CmdInv, CmdTypeOK, CreateRequests, OtherRequests
<1>2. TargetsInv'
  BY DEF CmdInv, TargetsInv
<1>3. ~Waits(r) /\ row[r] = "none" /\ r \notin backlog
  BY DEF CmdInv, QueueInv, RowInv
<1>4. \A s \in Requests : s \in Running' <=> s \in Running
  BY <1>3 DEF Running, Waits
<1>5. QueueInv'
  <2>1. Running' = Running
    BY <1>4 DEF Running
  <2>2. \A s \in Requests : Waits(s)' <=> Waits(s)
    BY <1>0, <1>4 DEF Waits
  <2>3. \A s \in Requests : Waits(s) => s # r
    BY <1>3
  <2>4. \A s \in Requests \ {r} : (Accepted(s)' <=> Accepted(s)) /\ (Creates(s)' <=> Creates(s))
    BY DEF Accepted, Creates
  <2>5. QueueInv
    BY DEF CmdInv
  <2>6. /\ Distinct(queue')
        /\ \A s \in Requests : s \in ToSet(queue') => s \notin Running'
        /\ Running' # {} => duty' = "commands"
    BY <1>0, <2>1, <2>5 DEF QueueInv
  <2>7. ASSUME NEW s \in Requests, Waits(s)'
        PROVE  /\ Accepted(s)' /\ row'[s] = "none" /\ s \notin backlog'
               /\ Creates(s)' => spool'[s] = "final"
    <3>1. Waits(s) /\ s \in Requests \ {r}
      BY <2>2, <2>3, <2>7
    <3>2. /\ Accepted(s) /\ row[s] = "none" /\ s \notin backlog
          /\ Creates(s) => spool[s] = "final"
      BY <2>5, <3>1 DEF QueueInv
    <3>3. spool'[s] = spool[s]
      BY <3>1
    <3> QED
      BY <1>0, <2>4, <3>1, <3>2, <3>3
  <2> QED
    BY <2>6, <2>7 DEF QueueInv
<1>6. RowInv'
  <2>1. \A s \in Requests \ {r} : (Accepted(s)' <=> Accepted(s)) /\ (Creates(s)' <=> Creates(s))
    BY DEF Accepted, Creates
  <2>2. \A s \in Requests : row[s] # "none" => s # r
    BY <1>3
  <2>3. backlog \subseteq Requests
    BY DEF CmdInv, CmdTypeOK
  <2>4. \A s \in Requests : row'[s] # "none" => Creates(s)' /\ Accepted(s)' /\ s \notin backlog'
    BY <1>0, <2>1, <2>2 DEF CmdInv, RowInv
  <2>5. \A s \in Requests : row'[s] = "live" /\ s \notin unlinked' => spool'[s] = "final"
    BY <1>0, <1>3 DEF CmdInv, RowInv
  <2>6. ASSUME NEW s \in Requests, NEW t \in Requests,
               row'[s] # "none", row'[t] # "none", request'[s].key = request'[t].key
        PROVE  s = t
    <3>1. s # r /\ t # r /\ row[s] # "none" /\ row[t] # "none"
      BY <1>0, <2>2, <2>6
    <3>2. request[s].key = request[t].key
      BY <2>6, <3>1
    <3> QED
      BY <3>1, <3>2, ZenonT(60) DEF CmdInv, RowInv
  <2>7. \A s \in Requests : index'[s] # "none" => row'[s] # "none"
    BY <1>0 DEF CmdInv, RowInv
  <2>8. \A s \in backlog' : Accepted(s)'
    BY <1>0, <1>3, <2>1, <2>3 DEF CmdInv, RowInv
  <2> QED
    BY <2>4, <2>5, <2>6, <2>7, <2>8 DEF RowInv
<1>7. StagedInv'
  BY ZenonT(60) DEF CmdInv, StagedInv, Creates
<1>8. NamedInv'
  <2>1. \A s \in Requests : registry'[s].resource # NoId => Accepted(s)'
    BY ZenonT(60) DEF CmdInv, NamedInv, Accepted
  <2>2. ASSUME NEW s \in Requests, Creates(s)', s # r
        PROVE  /\ registry'[s].resource # NoId => Bears(s, registry[s].resource)'
               /\ request'[s].seen # NoId => /\ row'[request'[s].seen] # "none"
                                             /\ request'[request'[s].seen].key = request'[s].key
               /\ request'[s].pc = "replay committed" /\ request'[s].told # NoId
                     => Bears(s, request[s].told)'
    <3>1. Creates(s) /\ request'[s] = request[s] /\ registry'[s] = registry[s]
      BY <2>2 DEF Creates
    <3>2. \A x \in Requests : /\ Bears(s, x) => Bears(s, x)'
                              /\ row[x] # "none" /\ request[x].key = request[s].key
                                    => row'[x] # "none" /\ request'[x].key = request'[s].key
      BY <1>0, <3>1, StillNamed
    <3>3. /\ registry[s].resource # NoId => registry[s].resource \in Requests
          /\ request[s].seen # NoId => request[s].seen \in Requests
          /\ request[s].told # NoId => request[s].told \in Requests
      BY <3>1, NamesAreRequests
    <3>4. /\ registry[s].resource # NoId => Bears(s, registry[s].resource)
          /\ request[s].seen # NoId => /\ row[request[s].seen] # "none"
                                       /\ request[request[s].seen].key = request[s].key
          /\ request[s].pc = "replay committed" /\ request[s].told # NoId
                => Bears(s, request[s].told)
      BY <3>1 DEF CmdInv, NamedInv
    <3> QED
      BY <3>1, <3>2, <3>3, <3>4
  <2> QED
    BY <1>0, <2>1, <2>2 DEF NamedInv
<1> QED
  BY <1>1, <1>2, <1>5, <1>6, <1>7, <1>8 DEF CmdInv

\* The steps of a request's thread.
LEMMA StageKeeps ==
    ASSUME CmdInv, NEW r \in Requests, NEW k \in IdempotencyKeys, NEW h \in Hashes, Stage(r, k, h)
    PROVE  CmdInv'
<1> DEFINE new == [kind |-> "create", pc |-> "staging", key |-> k, hash |-> h,
                   seen |-> NoId, told |-> NoId]
<1>1. /\ request[r] = Unasked /\ request' = [request EXCEPT ![r] = new]
      /\ spool' = [spool EXCEPT ![r] = "temporary"]
      /\ UNCHANGED <<reservation, queue, registry, row, offer, index, handoff, backlog, duty, ready,
                     unlinked>>
  BY DEF Stage, Staged
<1>2. new \in CreateRequests /\ new.pc = "staging" /\ new.seen = NoId /\ new.kind = "create"
  BY DEF CreateRequests, Active, CommandIds
<1>3. Unasked.kind = "none" /\ Unasked.pc = "idle"
  BY DEF Unasked
<1> HIDE DEF new
<1>4. ~Creates(r) /\ ~Accepted(r)
  BY <1>1, <1>3 DEF Creates, Accepted
<1>5. /\ request' \in [Requests -> {Unasked} \cup CreateRequests \cup OtherRequests]
      /\ request'[r] = new
      /\ \A s \in Requests \ {r} : request'[s] = request[s]
      /\ \A s \in Requests : SameAsk(s)
  BY <1>1, <1>2, <1>4, OneAsk DEF CmdInv
<1>6. registry[r].resource = NoId /\ registry[r].status # "running"
  BY <1>4 DEF CmdInv, NamedInv, QueueInv, Waits, Running
<1>7. ~Accepted(r)'
  BY <1>2, <1>5 DEF Accepted
<1> QED
  BY <1>1, <1>2, <1>4, <1>5, <1>6, <1>7, RequestKeeps DEF CmdInv, CmdTypeOK

\* A request on its way has nothing in the registry but what it puts there.
LEMMA Unanswered ==
    ASSUME CmdInv, NEW r \in Requests, ~Accepted(r)
    PROVE  registry[r].resource = NoId /\ registry[r].status # "running"
  BY DEF CmdInv, NamedInv, QueueInv, Waits, Running

\* A step that moves the request on, with its file and its registry entry.
LEMMA MoveKeeps ==
    ASSUME CmdInv, NEW r \in Requests, NEW pc \in (Active \cup Answers) \ {"accepted", "replay committed"},
           request[r].pc # "idle", ~Accepted(r),
           pc \in {"staging", "staged", "looked"} => Creates(r), Moves(r, pc),
           spool' \in [Requests -> {"none", "temporary", "final"}],
           \A s \in Requests \ {r} : spool'[s] = spool[s],
           Creates(r) /\ pc \in {"staged", "looked", "reserved", "registered"} => spool'[r] = "final",
           \/ UNCHANGED registry \/ Unregister(r) \/ Marks(r, "queued", NoId),
           reservation' \in [IdempotencyKeys -> [id : CommandIds, command : CommandIds]],
           UNCHANGED <<queue, row, offer, index, handoff, backlog, duty, ready, unlinked>>
    PROVE  CmdInv'
<1>1. CmdTypeOK
  BY DEF CmdInv
<1>2. pc \in Active \cup Answers /\ pc # "accepted" /\ pc # "replay committed"
  OBVIOUS
<1>3. /\ request' \in [Requests -> {Unasked} \cup CreateRequests \cup OtherRequests]
      /\ request'[r].pc = pc /\ request'[r].kind = request[r].kind
      /\ Creates(r) => request'[r].seen = request[r].seen /\ request'[r].told = request[r].told
      /\ ~Creates(r) => request'[r].target = request[r].target
      /\ \A s \in Requests \ {r} : request'[s] = request[s]
      /\ \A s \in Requests : SameAsk(s) /\ (Creates(s)' <=> Creates(s))
  BY <1>1, <1>2, MovesOn
<1>4. /\ registry' \in [Requests -> [status : {"none", "queued", "running"} \cup Terminal,
                                     resource : CommandIds]]
      /\ \A s \in Requests \ {r} : registry'[s] = registry[s]
      /\ registry'[r].resource = NoId /\ registry'[r].status # "running"
  <2>1. registry \in [Requests -> [status : {"none", "queued", "running"} \cup Terminal,
                                   resource : CommandIds]]
    BY <1>1 DEF CmdTypeOK
  <2>2. CASE UNCHANGED registry
    BY <2>1, <2>2, Unanswered
  <2>3. ASSUME NEW st \in {"none", "queued"}, Marks(r, st, NoId)
        PROVE  /\ registry' \in [Requests -> [status : {"none", "queued", "running"} \cup Terminal,
                                              resource : CommandIds]]
               /\ \A s \in Requests \ {r} : registry'[s] = registry[s]
               /\ registry'[r].resource = NoId /\ registry'[r].status # "running"
    BY <2>1, <2>3 DEF Marks, CommandIds
  <2> QED
    BY <2>2, <2>3 DEF Unregister
<1>5. ~Accepted(r)'
  BY <1>2, <1>3 DEF Accepted
<1>6. request'[r].kind = "cancel" => request'[r].target \in Requests
  BY <1>3 DEF CmdInv, TargetsInv, Creates
<1>7. Creates(r)' /\ request'[r].seen # NoId =>
              /\ request'[r].seen \in Requests /\ row[request'[r].seen] # "none"
              /\ request'[request'[r].seen].key = request'[r].key
  <2> SUFFICES ASSUME Creates(r), request[r].seen # NoId
               PROVE  /\ request[r].seen \in Requests /\ row[request[r].seen] # "none"
                      /\ request'[request[r].seen].key = request'[r].key
    BY <1>3
  <2>1. /\ request[r].seen \in Requests /\ row[request[r].seen] # "none"
        /\ request[request[r].seen].key = request[r].key
    BY NamesAreRequests DEF CmdInv, NamedInv
  <2> QED
    BY <1>3, <2>1, StillNamed
<1>8. Creates(r)' /\ request'[r].pc \in {"staged", "looked", "reserved", "registered"}
              => spool'[r] = "final"
  BY <1>3
<1>9. Creates(r)' /\ request'[r].pc = "replay committed" /\ request'[r].told # NoId =>
              request'[r].told \in Requests /\ Bears(r, request[r].told)'
  BY <1>2, <1>3
<1> QED
  BY <1>3, <1>4, <1>5, <1>6, <1>7, <1>8, <1>9, RequestKeeps

LEMMA Discarded ==
    ASSUME CmdInv, NEW r \in Requests, Discard(r) \/ UNCHANGED spool
    PROVE  /\ spool' \in [Requests -> {"none", "temporary", "final"}]
           /\ \A s \in Requests \ {r} : spool'[s] = spool[s]
  BY DEF Discard, CmdInv, CmdTypeOK

LEMMA PublishFileKeeps ==
    ASSUME CmdInv, NEW r \in Requests, PublishFile(r)
    PROVE  CmdInv'
<1>1. /\ request[r].pc = "staging"
      /\ UNCHANGED <<reservation, queue, registry, row, offer, index, handoff, backlog, duty, ready,
                     unlinked>>
  BY DEF PublishFile, Is
<1>2. Creates(r) /\ ~Accepted(r) /\ request[r].pc # "idle"
  <2>1. \A one \in OtherRequests : one.pc # "staging"
    BY DEF OtherRequests, Answers
  <2> QED
    BY <1>1, <2>1, AskedFields DEF CmdInv, Accepted
<1>3. reservation' \in [IdempotencyKeys -> [id : CommandIds, command : CommandIds]]
  BY <1>1 DEF CmdInv, CmdTypeOK
<1>4. CASE Moves(r, "refused") /\ Discard(r)
  <2>1. "refused" \in (Active \cup Answers) \ {"accepted", "replay committed"}
    BY DEF Answers
  <2> QED
    BY <1>1, <1>2, <1>3, <1>4, <2>1, Discarded, MoveKeeps
<1>5. CASE Moves(r, "staged") /\ spool' = [spool EXCEPT ![r] = "final"]
  <2>1. "staged" \in (Active \cup Answers) \ {"accepted", "replay committed"}
    BY DEF Active
  <2>2. /\ spool' \in [Requests -> {"none", "temporary", "final"}] /\ spool'[r] = "final"
        /\ \A s \in Requests \ {r} : spool'[s] = spool[s]
    BY <1>5 DEF CmdInv, CmdTypeOK
  <2> QED
    BY <1>1, <1>2, <1>3, <1>5, <2>1, <2>2, MoveKeeps
<1> QED
  BY <1>4, <1>5 DEF PublishFile

\* What the snapshot shows under a key is a row of that key.
LEMMA EntryIsRow ==
    ASSUME CmdInv, NEW k, Entry(k) # NoId
    PROVE  Entry(k) \in Requests /\ row[Entry(k)] # "none" /\ request[Entry(k)].key = k
<1> DEFINE bearers == {x \in Requests : index[x] # "none" /\ request[x].key = k}
<1>1. Entry(k) = IF bearers = {} THEN NoId ELSE CHOOSE x \in bearers : TRUE
  BY DEF Entry
<1>2. Entry(k) \in bearers
  BY <1>1
<1> QED
  BY <1>2 DEF CmdInv, RowInv

LEMMA LookKeeps ==
    ASSUME CmdInv, NEW r \in Requests, Look(r)
    PROVE  CmdInv'
<1>1. /\ request[r].pc = "staged"
      /\ UNCHANGED <<reservation, queue, registry, row, offer, index, handoff, backlog, duty, ready,
                     unlinked>>
  BY DEF Look, Is
<1>2. Creates(r) /\ ~Accepted(r) /\ request[r].pc # "idle"
  <2>1. \A one \in OtherRequests : one.pc # "staged"
    BY DEF OtherRequests, Answers
  <2> QED
    BY <1>1, <2>1, AskedFields DEF CmdInv, Accepted
<1>3. reservation' \in [IdempotencyKeys -> [id : CommandIds, command : CommandIds]]
  BY <1>1 DEF CmdInv, CmdTypeOK
<1>4. CASE ~ready
  <2>1. "refused" \in (Active \cup Answers) \ {"accepted", "replay committed"}
    BY DEF Answers
  <2>2. Moves(r, "refused") /\ Discard(r)
    BY <1>4 DEF Look
  <2> QED
    BY <1>1, <1>2, <1>3, <2>1, <2>2, Discarded, MoveKeeps
<1>5. CASE ready
  <2> DEFINE e == Entry(request[r].key)
             new == [request[r] EXCEPT !.pc = "looked", !.seen = e]
  <2>1. request' = [request EXCEPT ![r] = new] /\ UNCHANGED spool
    BY <1>5 DEF Look
  <2>2. e # NoId => e \in Requests /\ row[e] # "none" /\ request[e].key = request[r].key
    BY EntryIsRow
  <2>3. e \in CommandIds /\ request[r] \in CreateRequests
    BY <1>2, <2>2, AskedFields DEF CommandIds, CmdInv
  <2> HIDE DEF e
  <2>4. /\ new \in CreateRequests /\ new.kind = "create" /\ new.pc = "looked" /\ new.seen = e
        /\ new.key = request[r].key /\ new.hash = request[r].hash
    BY <2>3 DEF CreateRequests, Active
  <2> HIDE DEF new
  <2>5. /\ request' \in [Requests -> {Unasked} \cup CreateRequests \cup OtherRequests]
        /\ request'[r] = new
        /\ \A s \in Requests \ {r} : request'[s] = request[s]
        /\ \A s \in Requests : SameAsk(s)
    BY <2>1, <2>4, OneAsk DEF CmdInv
  <2>6. e # NoId => request'[e].key = new.key
    BY <2>2, <2>4, <2>5
  <2>7. spool[r] = "final"
    BY <1>1, <1>2 DEF CmdInv, StagedInv
  <2>8. ~Accepted(r)'
    BY <2>4, <2>5 DEF Accepted
  <2> QED
    BY <1>1, <1>2, <1>3, <2>1, <2>2, <2>4, <2>5, <2>6, <2>7, <2>8, Unanswered, RequestKeeps
       DEF CmdInv, CmdTypeOK
<1> QED
  BY <1>4, <1>5

ReservationType == reservation \in [IdempotencyKeys -> [id : CommandIds, command : CommandIds]]

LEMMA Reserved ==
    ASSUME ReservationType, NEW k \in IdempotencyKeys, NEW x \in CommandIds, NEW c \in CommandIds,
           \/ reservation' = [reservation EXCEPT ![k] = [id |-> x, command |-> c]]
           \/ Release(k) \/ UNCHANGED reservation
    PROVE  ReservationType'
<1>1. NoId \in CommandIds
  BY DEF CommandIds
<1> QED
  BY <1>1 DEF ReservationType, Release, Free

LEMMA ReserveKeeps ==
    ASSUME CmdInv, NEW r \in Requests, Reserve(r)
    PROVE  CmdInv'
<1>1. /\ request[r].pc = "looked"
      /\ UNCHANGED <<queue, registry, row, offer, index, handoff, backlog, duty, ready, unlinked>>
  BY DEF Reserve, Is
<1>2. Creates(r) /\ ~Accepted(r) /\ request[r].pc # "idle" /\ request[r] \in CreateRequests
  <2>1. \A one \in OtherRequests : one.pc # "looked"
    BY DEF OtherRequests, Answers
  <2> QED
    BY <1>1, <2>1, AskedFields DEF CmdInv, Accepted
<1> DEFINE k == request[r].key
           v == Verdict(r)
           t == IF reservation[k].id # NoId THEN reservation[k].id ELSE request[r].seen
<1>3. k \in IdempotencyKeys /\ r \in CommandIds /\ ReservationType
  BY <1>2 DEF CreateRequests, CommandIds, CmdInv, CmdTypeOK, ReservationType
<1>4. CASE v = "reserved"
  <2>1. /\ Moves(r, "reserved") /\ UNCHANGED spool
        /\ reservation' = [reservation EXCEPT ![k] = [id |-> r, command |-> r]]
    BY <1>4 DEF Reserve
  <2>2. "reserved" \in (Active \cup Answers) \ {"accepted", "replay committed"}
    BY DEF Active
  <2>3. spool[r] = "final"
    BY <1>1, <1>2 DEF CmdInv, StagedInv
  <2>4. ReservationType'
    BY <1>3, <2>1, Reserved
  <2>5. spool' \in [Requests -> {"none", "temporary", "final"}]
        /\ \A s \in Requests \ {r} : spool'[s] = spool[s]
    BY <2>1 DEF CmdInv, CmdTypeOK
  <2> HIDE DEF k, v, t
  <2> QED
    BY <1>1, <1>2, <2>1, <2>2, <2>3, <2>4, <2>5, MoveKeeps DEF ReservationType
<1>5. CASE v # "reserved"
  <2> DEFINE new == [request[r] EXCEPT !.pc = v, !.told = t]
  <2>1. request' = [request EXCEPT ![r] = new] /\ Discard(r) /\ UNCHANGED reservation
    BY <1>5 DEF Reserve
  <2>2. v \in {"conflict", "replay pending", "replay committed"}
    BY <1>5 DEF Verdict
  <2>3. t \in CommandIds
    BY <1>2, <1>3 DEF ReservationType, CreateRequests
  <2>4. v = "replay committed" =>
          /\ t = request[r].seen /\ t # NoId
          /\ request[t].hash = request[r].hash
    BY DEF Verdict
  <2> HIDE DEF v, t
  <2>5. /\ new \in CreateRequests /\ new.kind = "create" /\ new.pc = v /\ new.seen = request[r].seen
        /\ new.told = t /\ new.key = request[r].key /\ new.hash = request[r].hash
    BY <1>2, <2>2, <2>3 DEF CreateRequests, Answers
  <2> HIDE DEF new, k
  <2>6. /\ request' \in [Requests -> {Unasked} \cup CreateRequests \cup OtherRequests]
        /\ request'[r] = new
        /\ \A s \in Requests \ {r} : request'[s] = request[s]
        /\ \A s \in Requests : SameAsk(s)
    BY <2>1, <2>5, OneAsk DEF CmdInv
  <2>7. ~Accepted(r)' /\ new.pc \notin {"staged", "looked", "reserved", "registered"}
    BY <2>2, <2>5, <2>6 DEF Accepted
  <2>8. request[r].seen # NoId =>
          /\ request[r].seen \in Requests /\ row[request[r].seen] # "none"
          /\ request[request[r].seen].key = request[r].key
    BY <1>2, NamesAreRequests DEF CmdInv, NamedInv
  <2>9. request[r].seen # NoId => request'[request[r].seen].key = request'[r].key
    BY <1>1, <1>2, <2>6, <2>8, StillNamed
  <2>10. ASSUME v = "replay committed", NEW x \in Requests, x = t
         PROVE  Bears(r, x)'
    <3>1. Bears(r, x)
      BY <2>4, <2>8, <2>10 DEF Bears
    <3> QED
      BY <1>1, <1>2, <2>6, <3>1, StillNamed
  <2>11. /\ spool' \in [Requests -> {"none", "temporary", "final"}]
         /\ \A s \in Requests \ {r} : spool'[s] = spool[s]
    BY <2>1, Discarded
  <2>12. Creates(r)' /\ request'[r].seen # NoId =>
              /\ request'[r].seen \in Requests /\ row[request'[r].seen] # "none"
              /\ request'[request'[r].seen].key = request'[r].key
    BY <2>5, <2>6, <2>8, <2>9
  <2>13. Creates(r)' /\ request'[r].pc = "replay committed" /\ request'[r].told # NoId =>
              request'[r].told \in Requests /\ Bears(r, request[r].told)'
    <3> SUFFICES ASSUME v = "replay committed", t # NoId
                 PROVE  request'[r].told \in Requests /\ Bears(r, request[r].told)'
      BY <2>5, <2>6
    <3>1. t \in Requests /\ request'[r].told = t
      BY <2>4, <2>5, <2>6, <2>8
    <3>2. PICK x \in Requests : x = t /\ x = request'[r].told
      BY <3>1
    <3>3. Bears(r, x)'
      BY <2>10, <3>2
    <3> QED
      BY <3>2, <3>3 DEF Bears
  <2> QED
    BY <1>1, <1>2, <1>3, <2>1, <2>5, <2>6, <2>7, <2>11, <2>12, <2>13, Unanswered, RequestKeeps
       DEF CmdInv, CmdTypeOK, ReservationType
<1> QED
  BY <1>4, <1>5

\* A command on its way is one of a request's: never an unasked one.
LEMMA OnItsWay ==
    ASSUME CmdInv, NEW r \in Requests, request[r].pc \in {"reserved", "registered"}
    PROVE  /\ request[r].pc # "idle" /\ ~Accepted(r) /\ ~Waits(r) /\ row[r] = "none" /\ r \notin backlog
           /\ Creates(r) => spool[r] = "final" /\ request[r].key \in IdempotencyKeys
<1>1. ~Accepted(r)
  BY DEF Accepted
<1>2. Creates(r) => spool[r] = "final"
  BY DEF CmdInv, StagedInv
<1>3. Creates(r) => request[r].key \in IdempotencyKeys
  BY AskedFields DEF CmdInv, CreateRequests
<1> QED
  BY <1>1, <1>2, <1>3 DEF CmdInv, QueueInv, RowInv

LEMMA RegisterCommandKeeps ==
    ASSUME CmdInv, NEW r \in Requests, Register(r)
    PROVE  CmdInv'
<1>1. /\ request[r].pc = "reserved" /\ Moves(r, "registered") /\ Marks(r, "queued", NoId)
      /\ UNCHANGED <<spool, reservation, queue, row, offer, index, handoff, backlog, duty, ready,
                     unlinked>>
  BY DEF Register, Is
<1>2. "registered" \in (Active \cup Answers) \ {"accepted", "replay committed"}
  BY DEF Active
<1>3. /\ request[r].pc # "idle" /\ ~Accepted(r)
      /\ Creates(r) => spool[r] = "final"
  BY <1>1, OnItsWay
<1> QED
  BY <1>1, <1>2, <1>3, MoveKeeps DEF CmdInv, CmdTypeOK

LEMMA QueueFullKeeps ==
    ASSUME CmdInv, NEW r \in Requests, Enqueue(r), Full
    PROVE  CmdInv'
<1>1. /\ request[r].pc = "registered" /\ Moves(r, "full") /\ Unregister(r)
      /\ Discard(r) \/ UNCHANGED spool
      /\ UNCHANGED <<queue, row, offer, index, handoff, backlog, duty, ready, unlinked>>
  BY DEF Enqueue, Is
<1>2. "full" \in (Active \cup Answers) \ {"accepted", "replay committed"}
  BY DEF Answers
<1>3. /\ request[r].pc # "idle" /\ ~Accepted(r)
      /\ Creates(r) => request[r].key \in IdempotencyKeys
  BY <1>1, OnItsWay
<1>4. ReservationType'
  <2>1. ReservationType
    BY DEF CmdInv, CmdTypeOK, ReservationType
  <2>2. UNCHANGED reservation \/ (Creates(r) /\ Release(request[r].key))
    BY DEF Enqueue
  <2> QED
    BY <1>3, <2>1, <2>2, Reserved DEF CommandIds, ReservationType
<1> QED
  BY <1>1, <1>2, <1>3, <1>4, Discarded, MoveKeeps DEF ReservationType

LEMMA AskLifecycleKeeps ==
    ASSUME CmdInv, NEW r \in Requests, NEW kind \in Kinds, NEW target \in CommandIds,
           AskLifecycle(r, kind, target)
    PROVE  CmdInv'
<1> DEFINE new == [kind |-> kind, pc |-> "reserved", target |-> target]
<1>1. /\ request[r] = Unasked /\ request' = [request EXCEPT ![r] = new]
      /\ UNCHANGED <<spool, reservation, queue, registry, row, offer, index, handoff, backlog, duty,
                     ready, unlinked>>
  BY DEF AskLifecycle
<1>2. kind \in Kinds \ {"create"} /\ (kind = "cancel" => target \in Requests)
  BY DEF AskLifecycle, Kinds, CommandIds
<1>3. new \in OtherRequests /\ new.pc = "reserved" /\ new.kind = kind /\ new.target = target
  BY <1>2 DEF OtherRequests
<1>4. Unasked.kind = "none" /\ Unasked.pc = "idle"
  BY DEF Unasked
<1> HIDE DEF new
<1>5. ~Creates(r) /\ ~Accepted(r)
  BY <1>1, <1>4 DEF Creates, Accepted
<1>6. /\ request' \in [Requests -> {Unasked} \cup CreateRequests \cup OtherRequests]
      /\ request'[r] = new
      /\ \A s \in Requests \ {r} : request'[s] = request[s]
      /\ \A s \in Requests : SameAsk(s)
  BY <1>1, <1>3, <1>5, OneAsk DEF CmdInv
<1>7. ~Accepted(r)' /\ ~Creates(r)'
  BY <1>2, <1>3, <1>6 DEF Accepted, Creates
<1> QED
  BY <1>1, <1>2, <1>3, <1>5, <1>6, <1>7, Unanswered, RequestKeeps DEF CmdInv, CmdTypeOK

LEMMA EnqueueKeeps ==
    ASSUME CmdInv, NEW r \in Requests, Enqueue(r), ~Full
    PROVE  CmdInv'
<1>1. /\ request[r].pc = "registered" /\ Moves(r, "accepted") /\ queue' = Append(queue, r)
      /\ spool' = spool /\ reservation' = reservation /\ registry' = registry /\ row' = row
      /\ offer' = offer /\ index' = index /\ handoff' = handoff /\ backlog' = backlog
      /\ duty' = duty /\ ready' = ready /\ unlinked' = unlinked
  BY DEF Enqueue, Is
<1>2. /\ request[r].pc # "idle" /\ ~Accepted(r) /\ ~Waits(r) /\ row[r] = "none" /\ r \notin backlog
      /\ Creates(r) => spool[r] = "final"
  BY <1>1, OnItsWay
<1>3. "accepted" \in Active \cup Answers /\ CmdTypeOK
  BY DEF Answers, CmdInv
<1>4. /\ request' \in [Requests -> {Unasked} \cup CreateRequests \cup OtherRequests]
      /\ request'[r].pc = "accepted" /\ request'[r].kind = request[r].kind
      /\ Creates(r) => request'[r].seen = request[r].seen /\ request'[r].told = request[r].told
      /\ ~Creates(r) => request'[r].target = request[r].target
      /\ \A s \in Requests \ {r} : request'[s] = request[s]
      /\ \A s \in Requests : SameAsk(s) /\ (Creates(s)' <=> Creates(s))
  BY <1>1, <1>2, <1>3, MovesOn
<1>5. /\ queue \in Seq(Requests) /\ Len(queue) <= QueueSize /\ Len(queue) # QueueSize
      /\ Distinct(queue) /\ r \notin ToSet(queue)
  BY <1>2, <1>3, QueueType DEF CmdTypeOK, Full, CmdInv, QueueInv, Waits
<1>6. /\ queue' \in BoundedSeq(Requests, QueueSize) /\ ToSet(queue') = ToSet(queue) \cup {r}
      /\ Distinct(queue')
  <2>1. /\ queue' \in Seq(Requests) /\ Len(queue') = Len(queue) + 1
        /\ ToSet(queue') = ToSet(queue) \cup {r} /\ Distinct(queue')
    BY <1>1, <1>5, QueueGrows
  <2>2. Len(queue') <= QueueSize
    BY <1>5, <2>1, QueueAssumption
  <2> QED
    BY <2>1, <2>2, QueueType
<1>7. CmdTypeOK'
  BY <1>1, <1>3, <1>4, <1>6 DEF CmdTypeOK, CreateRequests, OtherRequests
<1>8. TargetsInv'
  BY <1>4 DEF CmdInv, TargetsInv, Creates
<1>9. \A s \in Requests : Accepted(s) => Accepted(s)'
  BY <1>4 DEF Accepted
<1>10. Accepted(r)'
  BY <1>4 DEF Accepted
<1>11. Running' = Running
  BY <1>1 DEF Running
<1>12. \A s \in Requests : Waits(s)' <=> Waits(s) \/ s = r
  BY <1>6, <1>11 DEF Waits
<1>13. QueueInv'
  <2>1. \A s \in Requests : s \in ToSet(queue') => s \notin Running'
    BY <1>2, <1>6, <1>11 DEF Waits, CmdInv, QueueInv
  <2>2. ASSUME NEW s \in Requests, Waits(s)'
        PROVE  /\ Accepted(s)' /\ row'[s] = "none" /\ s \notin backlog'
               /\ Creates(s)' => spool'[s] = "final"
    BY <1>1, <1>2, <1>4, <1>9, <1>10, <1>12, <2>2 DEF CmdInv, QueueInv
  <2>3. Running' # {} => duty' = "commands"
    BY <1>1, <1>11 DEF CmdInv, QueueInv
  <2> QED
    BY <1>6, <2>1, <2>2, <2>3 DEF QueueInv
<1>14. RowInv'
  <2>1. \A s \in Requests : row[s] # "none" => s # r /\ request'[s] = request[s]
    BY <1>2, <1>4
  <2>2. \A s \in Requests : row'[s] # "none" => Creates(s)' /\ Accepted(s)' /\ s \notin backlog'
    BY <1>1, <1>4, <1>9 DEF CmdInv, RowInv
  <2>3. \A s \in Requests : row'[s] = "live" /\ s \notin unlinked' => spool'[s] = "final"
    BY <1>1 DEF CmdInv, RowInv
  <2>4. ASSUME NEW s \in Requests, NEW t \in Requests,
               row'[s] # "none", row'[t] # "none", request'[s].key = request'[t].key
        PROVE  s = t
    BY <1>1, <2>1, <2>4 DEF CmdInv, RowInv
  <2>5. \A s \in Requests : index'[s] # "none" => row'[s] # "none"
    BY <1>1 DEF CmdInv, RowInv
  <2>6. \A s \in backlog' : Accepted(s)'
    BY <1>1, <1>3, <1>9 DEF CmdInv, RowInv, CmdTypeOK
  <2> QED
    BY <2>2, <2>3, <2>4, <2>5, <2>6 DEF RowInv
<1>15. StagedInv'
  BY <1>1, <1>4 DEF CmdInv, StagedInv, Creates
<1>16. NamedInv'
  <2>1. \A s \in Requests : registry'[s].resource # NoId => Accepted(s)'
    BY <1>1, <1>9 DEF CmdInv, NamedInv
  <2>2. ASSUME NEW s \in Requests, Creates(s)'
        PROVE  /\ registry'[s].resource # NoId => Bears(s, registry[s].resource)'
               /\ request'[s].seen # NoId => /\ row'[request'[s].seen] # "none"
                                             /\ request'[request'[s].seen].key = request'[s].key
               /\ request'[s].pc = "replay committed" /\ request'[s].told # NoId
                     => Bears(s, request[s].told)'
    <3>1. /\ Creates(s) /\ registry'[s] = registry[s] /\ request'[s].seen = request[s].seen
          /\ request'[s].told = request[s].told
          /\ request'[s].pc = "replay committed" => request[s].pc = "replay committed"
      BY <1>1, <1>4, <2>2
    <3>2. \A x \in Requests : /\ Bears(s, x) => Bears(s, x)'
                              /\ row[x] # "none" /\ request[x].key = request[s].key
                                    => row'[x] # "none" /\ request'[x].key = request'[s].key
      BY <1>1, <1>4, <3>1, StillNamed
    <3>3. /\ registry[s].resource # NoId => registry[s].resource \in Requests
          /\ request[s].seen # NoId => request[s].seen \in Requests
          /\ request[s].told # NoId => request[s].told \in Requests
      BY <3>1, NamesAreRequests
    <3>4. /\ registry[s].resource # NoId => Bears(s, registry[s].resource)
          /\ request[s].seen # NoId => /\ row[request[s].seen] # "none"
                                       /\ request[request[s].seen].key = request[s].key
          /\ request[s].pc = "replay committed" /\ request[s].told # NoId
                => Bears(s, request[s].told)
      BY <3>1 DEF CmdInv, NamedInv
    <3> QED
      BY <3>1, <3>2, <3>3, <3>4
  <2> QED
    BY <2>1, <2>2 DEF NamedInv
<1> QED
  BY <1>7, <1>8, <1>13, <1>14, <1>15, <1>16 DEF CmdInv

-----------------------------------------------------------------------------
(* The worker's steps leave the requests' records alone.                   *)

LEMMA NamesKeep ==
    ASSUME CmdInv, UNCHANGED request, \A s \in Requests : row[s] # "none" => row'[s] # "none",
           \A s \in Requests :
              \/ registry'[s].resource = NoId
              \/ registry'[s].resource = registry[s].resource
              \/ /\ Accepted(s) /\ registry'[s].resource \in Requests
                 /\ Creates(s) => /\ row'[registry'[s].resource] # "none"
                                  /\ request[registry'[s].resource].key = request[s].key
                                  /\ request[registry'[s].resource].hash = request[s].hash
    PROVE  NamedInv' /\ TargetsInv'
<1>1. \A s \in Requests : registry'[s].resource # NoId => Accepted(s)'
  BY DEF CmdInv, NamedInv, Accepted
<1>2. ASSUME NEW s \in Requests, Creates(s)
      PROVE  /\ registry'[s].resource # NoId => Bears(s, registry[s].resource)'
             /\ request[s].seen # NoId => /\ row'[request[s].seen] # "none"
                                          /\ request[request[s].seen].key = request[s].key
             /\ request[s].pc = "replay committed" /\ request[s].told # NoId
                   => Bears(s, request[s].told)'
  <2>1. /\ registry[s].resource # NoId => registry[s].resource \in Requests
        /\ request[s].seen # NoId => request[s].seen \in Requests
        /\ request[s].told # NoId => request[s].told \in Requests
    BY <1>2, NamesAreRequests
  <2>2. /\ registry[s].resource # NoId => Bears(s, registry[s].resource)
        /\ request[s].seen # NoId => /\ row[request[s].seen] # "none"
                                     /\ request[request[s].seen].key = request[s].key
        /\ request[s].pc = "replay committed" /\ request[s].told # NoId
              => Bears(s, request[s].told)
    BY <1>2 DEF CmdInv, NamedInv
  <2> QED
    BY <1>2, <2>1, <2>2 DEF Bears
<1>3. NamedInv'
  BY <1>1, <1>2 DEF NamedInv, Creates
<1> QED
  BY <1>3 DEF CmdInv, TargetsInv

LEMMA CommandWaitingKeeps ==
    ASSUME CmdInv, UNCHANGED request, Distinct(queue'),
           \A s \in Requests :
              Waits(s)' => /\ Waits(s) /\ row'[s] = row[s] /\ (s \in backlog' => s \in backlog)
                           /\ Creates(s) => spool'[s] = spool[s],
           \A s \in Requests : s \in ToSet(queue') => s \notin Running',
           Running' # {} => duty' = "commands"
    PROVE  QueueInv'
  BY DEF CmdInv, QueueInv, Accepted, Creates

\* A step that neither takes a command nor ends one.
LEMMA SameQueue ==
    ASSUME CmdInv, UNCHANGED <<request, queue, registry>>,
           \A s \in Requests :
              Waits(s) => /\ row'[s] = row[s] /\ (s \in backlog' => s \in backlog)
                          /\ Creates(s) => spool'[s] = spool[s],
           Running # {} => duty' = "commands",
           \A s \in Requests : row[s] # "none" => row'[s] # "none"
    PROVE  QueueInv' /\ NamedInv' /\ TargetsInv'
<1>1. Running' = Running /\ ToSet(queue') = ToSet(queue)
  BY DEF Running
<1>2. \A s \in Requests : Waits(s)' <=> Waits(s)
  BY <1>1 DEF Waits
<1>3. Distinct(queue') /\ \A s \in Requests : s \in ToSet(queue') => s \notin Running'
  BY <1>1 DEF CmdInv, QueueInv
<1>4. QueueInv'
  BY <1>1, <1>2, <1>3, CommandWaitingKeeps
<1> QED
  BY <1>4, NamesKeep

\* No row comes or goes and no file that somebody needs does.
LEMMA SameRowsKeep ==
    ASSUME CmdInv, UNCHANGED <<request, row>>,
           \A s \in Requests : index'[s] # "none" => row[s] # "none",
           backlog' \subseteq Requests, \A s \in backlog' : Accepted(s) /\ row[s] = "none",
           unlinked \subseteq unlinked',
           \A s \in Requests : row[s] = "live" /\ s \notin unlinked' => spool'[s] = spool[s],
           \A s \in Requests : Creates(s) /\ request[s].pc \in {"staged", "looked", "reserved", "registered"}
                                  => spool'[s] = spool[s]
    PROVE  RowInv' /\ StagedInv'
<1>1. StagedInv'
  BY DEF CmdInv, StagedInv, Creates
<1>2. \A s \in Requests : row'[s] # "none" => Creates(s)' /\ Accepted(s)' /\ s \notin backlog'
  BY DEF CmdInv, RowInv, Creates, Accepted
<1>3. \A s \in Requests : row'[s] = "live" /\ s \notin unlinked' => spool'[s] = "final"
  BY DEF CmdInv, RowInv
<1>4. \A s, t \in Requests :
         row'[s] # "none" /\ row'[t] # "none" /\ request'[s].key = request'[t].key => s = t
  BY DEF CmdInv, RowInv
<1>5. \A s \in Requests : index'[s] # "none" => row'[s] # "none"
  OBVIOUS
<1>6. \A s \in backlog' : Accepted(s)'
  BY DEF Accepted
<1> QED
  BY <1>1, <1>2, <1>3, <1>4, <1>5, <1>6 DEF RowInv

LEMMA EvictKeeps ==
    ASSUME CmdInv, NEW r \in Requests, Evict(r)
    PROVE  CmdInv'
<1>1. /\ registry[r].status \in Terminal /\ registry' = [registry EXCEPT ![r] = Forgotten]
      /\ request' = request /\ queue' = queue /\ row' = row /\ backlog' = backlog /\ spool' = spool
      /\ duty' = duty /\ index' = index /\ unlinked' = unlinked
      /\ UNCHANGED <<reservation, offer, handoff, ready>>
  BY DEF Evict
<1>2. Forgotten.resource = NoId /\ Forgotten.status = "none"
      /\ Forgotten \in [status : {"none", "queued", "running"} \cup Terminal, resource : CommandIds]
  BY DEF Forgotten, CommandIds
<1>3. CmdTypeOK'
  BY <1>1, <1>2 DEF CmdInv, CmdTypeOK
<1>4. registry'[r] = Forgotten /\ \A s \in Requests \ {r} : registry'[s] = registry[s]
  BY <1>1 DEF CmdInv, CmdTypeOK
<1>5. Running' = Running
  BY <1>1, <1>2, <1>4 DEF Running, Terminal
<1>6. \A s \in Requests : Waits(s)' <=> Waits(s)
  BY <1>1, <1>5 DEF Waits
<1>7. QueueInv'
  BY <1>1, <1>5, <1>6, CommandWaitingKeeps DEF CmdInv, QueueInv
<1>8. NamedInv' /\ TargetsInv'
  BY <1>1, <1>2, <1>4, NamesKeep
<1>9. RowInv' /\ StagedInv'
  BY <1>1 DEF CmdInv, RowInv, StagedInv, Creates, Accepted
<1> QED
  BY <1>3, <1>7, <1>8, <1>9 DEF CmdInv

LEMMA TakeKeeps ==
    ASSUME CmdInv, Take
    PROVE  CmdInv'
<1> DEFINE r == Head(queue)
<1>1. /\ duty = "commands" /\ Running = {} /\ queue # <<>> /\ queue' = Tail(queue)
      /\ registry' = [registry EXCEPT ![r] = [status |-> "running", resource |-> NoId]]
      /\ request' = request /\ row' = row /\ backlog' = backlog /\ spool' = spool
      /\ duty' = duty /\ index' = index /\ unlinked' = unlinked
      /\ UNCHANGED <<reservation, offer, handoff, ready>>
  BY DEF Take, Marks
<1>2. queue \in Seq(Requests) /\ Len(queue) <= QueueSize /\ Distinct(queue)
  BY QueueType DEF CmdInv, CmdTypeOK, QueueInv
<1>3. /\ Tail(queue) \in Seq(Requests) /\ Len(Tail(queue)) <= Len(queue) /\ r \in ToSet(queue)
      /\ ToSet(Tail(queue)) = ToSet(queue) \ {r} /\ Distinct(Tail(queue))
  BY <1>1, <1>2, QueueShrinks
<1>4. r \in Requests /\ queue' \in BoundedSeq(Requests, QueueSize)
  <2>1. Len(Tail(queue)) <= QueueSize
    BY <1>2, <1>3, QueueAssumption
  <2> QED
    BY <1>1, <1>2, <1>3, <2>1, QueueType, QueueElements
<1> HIDE DEF r
<1>5. CmdTypeOK'
  BY <1>1, <1>4 DEF CmdInv, CmdTypeOK, CommandIds
<1>6. /\ registry'[r] = [status |-> "running", resource |-> NoId]
      /\ \A s \in Requests \ {r} : registry'[s] = registry[s]
  BY <1>1, <1>4 DEF CmdInv, CmdTypeOK
<1>7. Running' = {r}
  BY <1>1, <1>4, <1>6 DEF Running
<1>8. \A s \in Requests : Waits(s)' => Waits(s)
  BY <1>1, <1>3, <1>7 DEF Waits
<1>9. \A s \in Requests : s \in ToSet(queue') => s \notin Running'
  BY <1>1, <1>3, <1>7
<1>10. QueueInv'
  BY <1>1, <1>3, <1>8, <1>9, CommandWaitingKeeps
<1>11. NamedInv' /\ TargetsInv'
  BY <1>1, <1>6, NamesKeep
<1>12. RowInv' /\ StagedInv'
  BY <1>1 DEF CmdInv, RowInv, StagedInv, Creates, Accepted
<1> QED
  BY <1>5, <1>10, <1>11, <1>12 DEF CmdInv

\* The duties of a tick that touch neither a command nor a file.
LEMMA PlainDutyKeeps ==
    ASSUME CmdInv,
           DrainEnds \/ StepRows \/ PublishFails \/ Publish \/ CleanupReservations \/ RecoverNothing
    PROVE  CmdInv'
<1>1. /\ request' = request /\ queue' = queue /\ registry' = registry /\ row' = row /\ spool' = spool
      /\ backlog' = backlog /\ unlinked' = unlinked
      /\ index' = index \/ index' = row
  BY DEF DrainEnds, StepRows, PublishFails, Publish, CleanupReservations, RecoverNothing, requestSide
<1>2. duty' \in {"commands", "rows", "publish", "handoffs", "backlog", "orphans"}
      /\ (Running # {} => duty' = "commands")
  BY DEF DrainEnds, StepRows, PublishFails, Publish, CleanupReservations, RecoverNothing, CmdInv, QueueInv
<1>3. /\ offer' \in [state : OfferStates, published : OfferStates] /\ ready' \in BOOLEAN
      /\ ReservationType' /\ handoff' \in [IdempotencyKeys -> CommandIds]
  <2>0. /\ offer \in [state : OfferStates, published : OfferStates] /\ ready \in BOOLEAN
        /\ ReservationType /\ handoff \in [IdempotencyKeys -> CommandIds]
    BY DEF CmdInv, CmdTypeOK, ReservationType
  <2>1. CASE DrainEnds \/ PublishFails \/ RecoverNothing
    BY <2>0, <2>1 DEF DrainEnds, PublishFails, RecoverNothing, requestSide, ReservationType
  <2>2. CASE StepRows
    <3>1. offer' = offer \/ offer' = [offer EXCEPT !.state = "available"]
      BY <2>2 DEF StepRows
    <3>2. offer' \in [state : OfferStates, published : OfferStates]
      BY <2>0, <3>1 DEF OfferStates
    <3> QED
      BY <2>0, <2>2, <3>2 DEF StepRows, requestSide, ReservationType
  <2>3. CASE Publish
    <3>1. offer' \in [state : OfferStates, published : OfferStates]
      BY <2>0, <2>3 DEF Publish
    <3> QED
      BY <2>0, <2>3, <3>1 DEF Publish, ReservationType
  <2>4. CASE CleanupReservations
    <3>1. handoff' \in [IdempotencyKeys -> CommandIds] /\ ReservationType'
      BY <2>0, <2>4 DEF CleanupReservations, ReservationType, Free, CommandIds
    <3> QED
      BY <2>0, <2>4, <3>1 DEF CleanupReservations, requestSide
  <2> QED
    BY <2>1, <2>2, <2>3, <2>4
<1>4. CmdTypeOK'
  BY <1>1, <1>2, <1>3 DEF CmdInv, CmdTypeOK, ReservationType
<1>5. QueueInv' /\ NamedInv' /\ TargetsInv'
  BY <1>1, <1>2, SameQueue
<1>6. RowInv' /\ StagedInv'
  <2>1. /\ \A s \in Requests : index'[s] # "none" => row[s] # "none"
        /\ backlog' \subseteq Requests /\ \A s \in backlog' : Accepted(s) /\ row[s] = "none"
    BY <1>1 DEF CmdInv, CmdTypeOK, RowInv
  <2> QED
    BY <1>1, <2>1, SameRowsKeep
<1> QED
  BY <1>4, <1>5, <1>6 DEF CmdInv

LEMMA DrainSpoolKeeps ==
    ASSUME CmdInv, DrainSpoolCleanup
    PROVE  CmdInv'
<1>1. PICK kept \in SUBSET backlog :
         /\ backlog' = kept
         /\ spool' = [r \in Requests |-> IF r \in backlog \ kept THEN "none" ELSE spool[r]]
  BY DEF DrainSpoolCleanup
<1>2. /\ request' = request /\ queue' = queue /\ registry' = registry /\ row' = row
      /\ index' = index /\ unlinked' = unlinked /\ duty = "backlog" /\ duty' = "orphans"
      /\ UNCHANGED <<reservation, offer, handoff, ready>>
  BY DEF DrainSpoolCleanup, requestSide
<1>3. CmdTypeOK'
  BY <1>1, <1>2 DEF CmdInv, CmdTypeOK
<1>4. \A s \in Requests : s \notin backlog => spool'[s] = spool[s]
  BY <1>1
<1>5. /\ \A s \in Requests : Waits(s) => s \notin backlog
      /\ \A s \in Requests : row[s] # "none" => s \notin backlog
      /\ \A s \in backlog : s \in Requests /\ Accepted(s)
      /\ Running = {}
  BY <1>2 DEF CmdInv, QueueInv, RowInv, CmdTypeOK
<1>6. QueueInv' /\ NamedInv' /\ TargetsInv'
  BY <1>1, <1>2, <1>4, <1>5, SameQueue
<1>7. RowInv' /\ StagedInv'
  <2>1. \A s \in Requests : index'[s] # "none" => row[s] # "none"
    BY <1>2 DEF CmdInv, RowInv
  <2>2. \A s \in Requests : request[s].pc \in {"staged", "looked", "reserved", "registered"}
           => s \notin backlog
    BY <1>5 DEF Accepted
  <2>3. backlog' \subseteq Requests /\ \A s \in backlog' : Accepted(s) /\ row[s] = "none"
    BY <1>1, <1>5
  <2> QED
    BY <1>2, <1>4, <1>5, <2>1, <2>2, <2>3, SameRowsKeep
<1> QED
  BY <1>3, <1>6, <1>7 DEF CmdInv

LEMMA RecoverOrphansKeeps ==
    ASSUME CmdInv, RecoverOrphans
    PROVE  CmdInv'
<1>1. /\ request' = request /\ queue' = queue /\ registry' = registry /\ row' = row
      /\ index' = index /\ unlinked' = unlinked /\ duty = "orphans" /\ duty' = "commands"
      /\ backlog' = backlog
      /\ spool' = [r \in Requests |-> IF r \in Orphans THEN "none" ELSE spool[r]]
      /\ UNCHANGED <<reservation, offer, handoff, ready>>
  BY DEF RecoverOrphans, requestSide
<1>2. CmdTypeOK'
  BY <1>1 DEF CmdInv, CmdTypeOK
<1>3. Running = {}
  BY <1>1 DEF CmdInv, QueueInv
<1>4. \A s \in Requests : s \in Orphans =>
         /\ request[s].pc \notin Active
         /\ spool[s] # "final" \/ (row[s] = "none" /\ s \notin ToSet(queue))
  BY DEF Orphans, Referenced
<1>5. \A s \in Requests : s \notin Orphans => spool'[s] = spool[s]
  BY <1>1
<1>6. QueueInv' /\ NamedInv' /\ TargetsInv'
  <2>1. \A s \in Requests : Waits(s) /\ Creates(s) => s \notin Orphans
    BY <1>3, <1>4 DEF CmdInv, QueueInv, Waits
  <2> QED
    BY <1>1, <1>5, <2>1, SameQueue
<1>7. RowInv' /\ StagedInv'
  <2>1. /\ \A s \in Requests : index'[s] # "none" => row[s] # "none"
        /\ backlog' \subseteq Requests /\ \A s \in backlog' : Accepted(s) /\ row[s] = "none"
    BY <1>1 DEF CmdInv, CmdTypeOK, RowInv
  <2>2. \A s \in Requests : row[s] = "live" /\ s \notin unlinked' => s \notin Orphans
    BY <1>1, <1>4 DEF CmdInv, RowInv
  <2>3. \A s \in Requests : request[s].pc \in {"staged", "looked", "reserved", "registered"}
           => s \notin Orphans
    BY <1>4 DEF Active
  <2> QED
    BY <1>1, <1>5, <2>1, <2>2, <2>3, SameRowsKeep
<1> QED
  BY <1>2, <1>6, <1>7 DEF CmdInv

LEMMA RestartKeeps ==
    ASSUME CmdInv, Restart
    PROVE  CmdInv'
<1>1. /\ queue' = <<>> /\ registry' = [r \in Requests |-> Forgotten]
      /\ index' = [r \in Requests |-> "none"] /\ backlog' = {} /\ duty' = "commands" /\ ready' = FALSE
      /\ reservation' = [k \in IdempotencyKeys |-> Free]
      /\ handoff' = [k \in IdempotencyKeys |-> NoId]
      /\ spool' = spool /\ row' = row /\ offer' = offer /\ unlinked' = unlinked
      /\ request' = [r \in Requests |-> IF request[r].pc \in Active
                                        THEN [request[r] EXCEPT !.pc = "lost"] ELSE request[r]]
  BY DEF Restart
<1>2. ASSUME NEW r \in Requests, request[r].pc \in Active
      PROVE  /\ request'[r] \in CreateRequests \cup OtherRequests /\ request'[r].pc = "lost"
             /\ request'[r].kind = request[r].kind
             /\ Creates(r) => /\ request'[r].key = request[r].key /\ request'[r].hash = request[r].hash
                              /\ request'[r].seen = request[r].seen /\ request'[r].told = request[r].told
             /\ ~Creates(r) => request'[r].target = request[r].target
  <2>1. request'[r] = [request[r] EXCEPT !.pc = "lost"] /\ request[r].pc # "idle"
    BY <1>1, <1>2 DEF Active
  <2>2. CASE Creates(r)
    <3>1. request[r] \in CreateRequests
      BY <2>2, AskedFields DEF CmdInv
    <3> QED
      BY <2>1, <2>2, <3>1 DEF CreateRequests
  <2>3. CASE ~Creates(r)
    <3>1. request[r] \in OtherRequests
      BY <2>1, <2>3, AskedFields DEF CmdInv
    <3> QED
      BY <2>1, <2>3, <3>1 DEF OtherRequests
  <2> QED
    BY <2>2, <2>3
<1>3. \A r \in Requests : request[r].pc \notin Active => request'[r] = request[r]
  BY <1>1
<1>4. \A r \in Requests : SameAsk(r) /\ (Creates(r)' <=> Creates(r)) /\ (Accepted(r) => Accepted(r)')
  BY <1>2, <1>3 DEF SameAsk, Creates, Accepted, Active
<1>5. request' \in [Requests -> {Unasked} \cup CreateRequests \cup OtherRequests]
  <2>1. \A r \in Requests : request[r] \in {Unasked} \cup CreateRequests \cup OtherRequests
    BY DEF CmdInv, CmdTypeOK, CreateRequests, OtherRequests
  <2>2. \A r \in Requests : request'[r] \in {Unasked} \cup CreateRequests \cup OtherRequests
    BY <1>2, <1>3, <2>1
  <2> QED
    BY <1>1, <2>2
<1>6. queue' \in BoundedSeq(Requests, QueueSize) /\ ToSet(queue') = {} /\ Distinct(queue')
  <2>1. <<>> \in Seq(Requests) /\ Len(<<>>) = 0 /\ 1..0 = {} /\ 0 <= QueueSize
    BY QueueAssumption
  <2>2. <<>> \in BoundedSeq(Requests, QueueSize)
    BY <2>1, QueueType
  <2> QED
    BY <1>1, <2>1, <2>2, QueueElements DEF Distinct
<1>7. Forgotten.resource = NoId /\ Forgotten.status = "none"
  BY DEF Forgotten
<1>8. CmdTypeOK'
  <2>1. /\ registry' \in [Requests -> [status : {"none", "queued", "running"} \cup Terminal,
                                       resource : CommandIds]]
        /\ reservation' \in [IdempotencyKeys -> [id : CommandIds, command : CommandIds]]
        /\ handoff' \in [IdempotencyKeys -> CommandIds]
    BY <1>1 DEF Forgotten, Free, CommandIds
  <2> QED
    BY <1>1, <1>5, <1>6, <2>1 DEF CmdInv, CmdTypeOK, CreateRequests, OtherRequests
<1>9. Running' = {}
  BY <1>1, <1>7 DEF Running
<1>10. QueueInv'
  BY <1>6, <1>9 DEF QueueInv, Waits
<1>11. TargetsInv'
  BY <1>2, <1>3 DEF CmdInv, TargetsInv, Creates
<1>12. RowInv'
  <2>1. \A r \in Requests : row[r] # "none" => Creates(r) /\ Accepted(r) /\ request'[r] = request[r]
    BY <1>3 DEF CmdInv, RowInv, Accepted, Active
  <2>2. ASSUME NEW r \in Requests, NEW s \in Requests,
               row'[r] # "none", row'[s] # "none", request'[r].key = request'[s].key
        PROVE  r = s
    BY <1>1, <2>1, <2>2 DEF CmdInv, RowInv
  <2>3. \A r \in Requests : row'[r] = "live" /\ r \notin unlinked' => spool'[r] = "final"
    BY <1>1 DEF CmdInv, RowInv
  <2> QED
    BY <1>1, <1>4, <2>1, <2>2, <2>3 DEF RowInv
<1>13. StagedInv'
  <2>1. \A r \in Requests : request'[r].pc \in {"staged", "looked", "reserved", "registered"} => FALSE
    BY <1>2, <1>3 DEF Active
  <2> QED
    BY <2>1 DEF StagedInv
<1>14. NamedInv'
  <2>1. ASSUME NEW s \in Requests, Creates(s)'
        PROVE  /\ request'[s].seen # NoId => /\ row'[request'[s].seen] # "none"
                                             /\ request'[request'[s].seen].key = request'[s].key
               /\ request'[s].pc = "replay committed" /\ request'[s].told # NoId
                     => Bears(s, request[s].told)'
    <3>1. /\ Creates(s) /\ request'[s].seen = request[s].seen /\ request'[s].told = request[s].told
          /\ request'[s].pc = "replay committed" => request[s].pc = "replay committed"
      BY <1>2, <1>3, <1>4, <2>1
    <3>2. \A x \in Requests : /\ Bears(s, x) => Bears(s, x)'
                              /\ row[x] # "none" /\ request[x].key = request[s].key
                                    => row'[x] # "none" /\ request'[x].key = request'[s].key
      BY <1>1, <1>4, <3>1, StillNamed
    <3>3. /\ request[s].seen # NoId => request[s].seen \in Requests
          /\ request[s].told # NoId => request[s].told \in Requests
      BY <3>1, NamesAreRequests
    <3>4. /\ request[s].seen # NoId => /\ row[request[s].seen] # "none"
                                       /\ request[request[s].seen].key = request[s].key
          /\ request[s].pc = "replay committed" /\ request[s].told # NoId
                => Bears(s, request[s].told)
      BY <3>1 DEF CmdInv, NamedInv
    <3> QED
      BY <3>1, <3>2, <3>3, <3>4
  <2>2. \A s \in Requests : registry'[s].resource = NoId
    BY <1>1, <1>7
  <2> QED
    BY <2>1, <2>2 DEF NamedInv
<1> QED
  BY <1>8, <1>10, <1>11, <1>12, <1>13, <1>14 DEF CmdInv

RegistryEntries == [status : {"none", "queued", "running"} \cup Terminal, resource : CommandIds]

\* A command that ends: nobody waits for it any more.
LEMMA CommandEnds ==
    ASSUME CmdInv, NEW r \in Running, NEW st \in Terminal, NEW x \in CommandIds, Marks(r, st, x),
           UNCHANGED <<request, queue, duty>>,
           \A s \in Requests \ {r} :
              Waits(s) => /\ row'[s] = row[s] /\ (s \in backlog' => s \in backlog)
                          /\ Creates(s) => spool'[s] = spool[s],
           \A s \in Requests : row[s] # "none" => row'[s] # "none",
           Creates(r) /\ x # NoId => /\ row'[x] # "none" /\ request[x].key = request[r].key
                                     /\ request[x].hash = request[r].hash
    PROVE  QueueInv' /\ NamedInv' /\ TargetsInv' /\ registry' \in [Requests -> RegistryEntries]
<1>1. r \in Requests /\ registry' = [registry EXCEPT ![r] = [status |-> st, resource |-> x]]
  BY DEF Running, Marks
<1>2. registry \in [Requests -> RegistryEntries]
  BY DEF CmdInv, CmdTypeOK, RegistryEntries
<1>3. /\ registry'[r] = [status |-> st, resource |-> x] /\ st # "running"
      /\ \A s \in Requests \ {r} : registry'[s] = registry[s]
      /\ registry' \in [Requests -> RegistryEntries]
  BY <1>1, <1>2 DEF RegistryEntries, Terminal
<1>4. Running' = Running \ {r}
  BY <1>1, <1>3 DEF Running
<1>5. r \notin ToSet(queue) /\ Accepted(r)
  BY <1>1 DEF CmdInv, QueueInv, Waits
<1>6. \A s \in Requests : Waits(s)' => Waits(s) /\ s # r
  BY <1>4, <1>5 DEF Waits
<1>7. QueueInv'
  <2>1. \A s \in Requests : s \in ToSet(queue') => s \notin Running'
    BY <1>4 DEF CmdInv, QueueInv
  <2>2. Distinct(queue') /\ (Running' # {} => duty' = "commands")
    BY <1>4 DEF CmdInv, QueueInv
  <2> QED
    BY <1>6, <2>1, <2>2, CommandWaitingKeeps
<1>8. NamedInv' /\ TargetsInv'
  <2>1. x # NoId => x \in Requests
    BY DEF CommandIds
  <2> QED
    BY <1>1, <1>3, <1>5, <2>1, NamesKeep
<1> QED
  BY <1>3, <1>7, <1>8

LEMMA Unspooled ==
    ASSUME CmdInv, NEW r \in Running, Unspool(r)
    PROVE  /\ spool' \in [Requests -> {"none", "temporary", "final"}]
           /\ \A s \in Requests \ {r} : spool'[s] = spool[s]
           /\ backlog \subseteq backlog' /\ backlog' \subseteq backlog \cup {r}
           /\ r \in Requests /\ Accepted(r) /\ row[r] = "none" /\ backlog' \subseteq Requests
<1>1. r \in Requests /\ Waits(r)
  BY DEF Running, Waits
<1> QED
  BY <1>1 DEF Unspool, CmdInv, CmdTypeOK, QueueInv

\* A create that makes no row.
LEMMA NoRowKeeps ==
    ASSUME CmdInv, NEW r \in Running, Unspool(r), Creates(r),
           NEW st \in Terminal, NEW x \in CommandIds, Marks(r, st, x),
           x # NoId => /\ row[x] # "none" /\ request[x].key = request[r].key
                       /\ request[x].hash = request[r].hash,
           ReservationType', handoff' \in [IdempotencyKeys -> CommandIds],
           UNCHANGED <<request, queue, ready, row, offer, index, duty, unlinked>>
    PROVE  CmdInv'
<1>1. /\ spool' \in [Requests -> {"none", "temporary", "final"}]
      /\ \A s \in Requests \ {r} : spool'[s] = spool[s]
      /\ backlog \subseteq backlog' /\ backlog' \subseteq backlog \cup {r}
      /\ r \in Requests /\ Accepted(r) /\ row[r] = "none" /\ backlog' \subseteq Requests
  BY Unspooled
<1>2. QueueInv' /\ NamedInv' /\ TargetsInv' /\ registry' \in [Requests -> RegistryEntries]
  BY <1>1, CommandEnds
<1>3. CmdTypeOK'
  BY <1>1, <1>2 DEF CmdInv, CmdTypeOK, ReservationType, RegistryEntries
<1>4. RowInv' /\ StagedInv'
  <2>1. \A s \in Requests : index'[s] # "none" => row[s] # "none"
    BY DEF CmdInv, RowInv
  <2>2. \A s \in backlog' : Accepted(s) /\ row[s] = "none"
    BY <1>1 DEF CmdInv, RowInv, CmdTypeOK
  <2>3. request[r].pc \notin {"staged", "looked", "reserved", "registered"}
    BY <1>1 DEF Accepted
  <2>4. \A s \in Requests : row[s] = "live" /\ s \notin unlinked' => spool'[s] = spool[s]
    BY <1>1
  <2>5. \A s \in Requests : Creates(s) /\ request[s].pc \in {"staged", "looked", "reserved", "registered"}
                               => spool'[s] = spool[s]
    BY <1>1, <2>3
  <2> QED
    BY <1>1, <2>1, <2>2, <2>4, <2>5, SameRowsKeep
<1> QED
  BY <1>2, <1>3, <1>4 DEF CmdInv

LEMMA CreateKeeps ==
    ASSUME CmdInv, NEW r \in Requests, ExecuteCreate(r)
    PROVE  CmdInv'
<1> DEFINE k == request[r].key
           same == {x \in Requests : row[x] # "none" /\ request[x].key = request[r].key}
<1>1. /\ duty = "commands" /\ r \in Running /\ Creates(r)
      /\ request' = request /\ queue' = queue /\ ready' = ready /\ offer' = offer /\ index' = index
      /\ duty' = duty /\ unlinked' = unlinked
  BY DEF ExecuteCreate, requestSide
<1>2. /\ k \in IdempotencyKeys /\ ReservationType /\ handoff \in [IdempotencyKeys -> CommandIds]
      /\ NoId \in CommandIds /\ r \in CommandIds /\ {"failed", "succeeded"} \subseteq Terminal
  BY <1>1, AskedFields DEF CmdInv, CmdTypeOK, CreateRequests, ReservationType, CommandIds, Terminal
<1>3. CASE CreateRefused(r)
  <2>1. Marks(r, "failed", NoId) /\ Release(k) /\ Unspool(r) /\ UNCHANGED <<row, handoff>>
    BY <1>3 DEF CreateRefused, Fails
  <2>2. ReservationType'
    BY <1>2, <2>1, Reserved
  <2> QED
    BY <1>1, <1>2, <2>1, <2>2, NoRowKeeps
<1>4. ASSUME NEW original \in same, CreateDuplicate(r, original)
      PROVE  CmdInv'
  <2>0. /\ original \in Requests /\ original \in CommandIds
        /\ row[original] # "none" /\ request[original].key = request[r].key
    BY <1>4 DEF CommandIds
  <2>1. Unspool(r) /\ UNCHANGED row
    BY <1>4 DEF CreateDuplicate
  <2>2. CASE request[original].hash = request[r].hash /\ backlog' = backlog
    <3>1. /\ reservation' = [reservation EXCEPT ![k] = [id |-> original, command |-> r]]
          /\ handoff' = [handoff EXCEPT ![k] = original] /\ Marks(r, "succeeded", original)
      BY <1>4, <2>2 DEF CreateDuplicate, HandOver
    <3>2. ReservationType' /\ handoff' \in [IdempotencyKeys -> CommandIds]
      BY <1>2, <2>0, <3>1, Reserved
    <3> QED
      BY <1>1, <1>2, <2>0, <2>1, <2>2, <3>1, <3>2, NoRowKeeps
  <2>3. CASE ~(request[original].hash = request[r].hash /\ backlog' = backlog)
    <3>1. Release(k) /\ Marks(r, "failed", NoId) /\ UNCHANGED handoff
      BY <1>4, <2>3 DEF CreateDuplicate, Fails
    <3>2. ReservationType'
      BY <1>2, <3>1, Reserved
    <3> QED
      BY <1>1, <1>2, <2>1, <3>1, <3>2, NoRowKeeps
  <2> QED
    BY <2>2, <2>3
<1>5. CASE same = {} /\ CreateCommits(r)
  <2>1. /\ row' = [row EXCEPT ![r] = "live"] /\ handoff' = [handoff EXCEPT ![k] = r]
        /\ Marks(r, "succeeded", r)
        /\ spool' = spool /\ reservation' = reservation /\ backlog' = backlog
    BY <1>5 DEF CreateCommits, HandOver
  <2>2. /\ row' \in [Requests -> {"none", "live", "cancelled"}] /\ row'[r] = "live"
        /\ \A s \in Requests \ {r} : row'[s] = row[s]
    BY <2>1 DEF CmdInv, CmdTypeOK
  <2>3. Accepted(r) /\ r \notin backlog /\ spool[r] = "final"
    BY <1>1 DEF CmdInv, QueueInv, Waits
  <2>4. QueueInv' /\ NamedInv' /\ TargetsInv' /\ registry' \in [Requests -> RegistryEntries]
    BY <1>1, <1>2, <2>1, <2>2, CommandEnds
  <2>5. handoff' \in [IdempotencyKeys -> CommandIds]
    BY <1>2, <2>1
  <2>6. CmdTypeOK'
    BY <1>1, <2>1, <2>2, <2>4, <2>5 DEF CmdInv, CmdTypeOK, RegistryEntries
  <2>7. StagedInv'
    BY <1>1, <2>1 DEF CmdInv, StagedInv, Creates
  <2>8. RowInv'
    <3>1. \A s \in Requests : row'[s] # "none" => Creates(s)' /\ Accepted(s)' /\ s \notin backlog'
      BY <1>1, <2>1, <2>2, <2>3 DEF CmdInv, RowInv, Creates, Accepted
    <3>2. \A s \in Requests : row'[s] = "live" /\ s \notin unlinked' => spool'[s] = "final"
      BY <1>1, <2>1, <2>2, <2>3 DEF CmdInv, RowInv
    <3>3. \A s \in Requests \ {r} : row'[s] # "none" => request'[s].key # request'[r].key
      BY <1>1, <1>5, <2>2
    <3>4. ASSUME NEW s \in Requests, NEW t \in Requests,
                 row'[s] # "none", row'[t] # "none", request'[s].key = request'[t].key
          PROVE  s = t
      <4>1. CASE s = r \/ t = r
        BY <3>3, <3>4, <4>1
      <4>2. CASE s # r /\ t # r
        BY <1>1, <2>2, <3>4, <4>2 DEF CmdInv, RowInv
      <4> QED
        BY <4>1, <4>2
    <3>5. \A s \in Requests : index'[s] # "none" => row'[s] # "none"
      BY <1>1, <2>2 DEF CmdInv, RowInv
    <3>6. \A s \in backlog' : Accepted(s)'
      BY <1>1, <2>1 DEF CmdInv, RowInv, Accepted
    <3> QED
      BY <3>1, <3>2, <3>4, <3>5, <3>6 DEF RowInv
  <2> QED
    BY <2>4, <2>6, <2>7, <2>8 DEF CmdInv
<1> QED
  BY <1>3, <1>4, <1>5 DEF ExecuteCreate

LEMMA CancelKeeps ==
    ASSUME CmdInv, NEW r \in Requests, CancelUnlinks(r) \/ ExecuteCancel(r)
    PROVE  CmdInv'
<1> DEFINE x == request[r].target
<1>1. /\ duty = "commands" /\ r \in Running /\ request[r].kind = "cancel" /\ x \in Requests
      /\ ~Creates(r)
  BY DEF CancelUnlinks, ExecuteCancel, CmdInv, TargetsInv, Creates
<1>2. CASE CancelUnlinks(r)
  <2>1. /\ row[x] = "live" /\ spool' = [spool EXCEPT ![x] = "none"] /\ unlinked' = unlinked \cup {x}
        /\ request' = request /\ queue' = queue /\ registry' = registry /\ row' = row
        /\ index' = index /\ backlog' = backlog /\ duty' = duty
        /\ UNCHANGED <<ready, reservation, offer, handoff>>
    BY <1>2 DEF CancelUnlinks, requestSide
  <2>2. /\ spool' \in [Requests -> {"none", "temporary", "final"}]
        /\ \A s \in Requests \ {x} : spool'[s] = spool[s]
    BY <1>1, <2>1 DEF CmdInv, CmdTypeOK
  <2>3. Accepted(x) /\ ~Waits(x)
    BY <1>1, <2>1 DEF CmdInv, RowInv, QueueInv
  <2> HIDE DEF x
  <2>4. CmdTypeOK'
    BY <1>1, <2>1, <2>2 DEF CmdInv, CmdTypeOK
  <2>5. QueueInv' /\ NamedInv' /\ TargetsInv'
    BY <1>1, <2>1, <2>2, <2>3, SameQueue
  <2>6. RowInv' /\ StagedInv'
    <3>1. /\ \A s \in Requests : index'[s] # "none" => row[s] # "none"
          /\ backlog' \subseteq Requests /\ \A s \in backlog' : Accepted(s) /\ row[s] = "none"
      BY <2>1 DEF CmdInv, CmdTypeOK, RowInv
    <3>2. request[x].pc \notin {"staged", "looked", "reserved", "registered"}
      BY <2>3 DEF Accepted
    <3> QED
      BY <2>1, <2>2, <3>1, <3>2, SameRowsKeep
  <2> QED
    BY <2>4, <2>5, <2>6 DEF CmdInv
<1>3. CASE ExecuteCancel(r)
  <2>1. /\ spool' = spool /\ unlinked' = unlinked /\ request' = request /\ queue' = queue
        /\ index' = index /\ backlog' = backlog /\ duty' = duty
        /\ UNCHANGED <<ready, reservation, offer, handoff>>
    BY <1>3 DEF ExecuteCancel, requestSide
  <2>2. PICK st \in Terminal, y \in CommandIds : Marks(r, st, y)
    <3>1. {"succeeded", "failed"} \subseteq Terminal /\ x \in CommandIds /\ NoId \in CommandIds
      BY <1>1 DEF Terminal, CommandIds
    <3> QED
      BY <1>3, <3>1 DEF ExecuteCancel, Fails
  <2>3. row' = row \/ (row[x] = "live" /\ row' = [row EXCEPT ![x] = "cancelled"])
    BY <1>3 DEF ExecuteCancel
  <2> HIDE DEF x
  <2>4. /\ row' \in [Requests -> {"none", "live", "cancelled"}]
        /\ \A s \in Requests : /\ row'[s] # "none" <=> row[s] # "none"
                               /\ row'[s] = "live" => row[s] = "live"
                               /\ row[s] = "none" => row'[s] = "none"
    BY <1>1, <2>3 DEF CmdInv, CmdTypeOK
  <2>5. \A s \in Requests : Waits(s) => row'[s] = row[s]
    BY <2>4 DEF CmdInv, QueueInv
  <2>6. QueueInv' /\ NamedInv' /\ TargetsInv' /\ registry' \in [Requests -> RegistryEntries]
    BY <1>1, <2>1, <2>2, <2>4, <2>5, CommandEnds
  <2>7. CmdTypeOK'
    BY <2>1, <2>4, <2>6 DEF CmdInv, CmdTypeOK, RegistryEntries
  <2>8. RowInv' /\ StagedInv'
    <3>1. \A s \in Requests : row'[s] # "none" => Creates(s)' /\ Accepted(s)' /\ s \notin backlog'
      BY <2>1, <2>4 DEF CmdInv, RowInv, Creates, Accepted
    <3>2. \A s \in Requests : row'[s] = "live" /\ s \notin unlinked' => spool'[s] = "final"
      BY <2>1, <2>4 DEF CmdInv, RowInv
    <3>3. \A s, t \in Requests :
             row'[s] # "none" /\ row'[t] # "none" /\ request'[s].key = request'[t].key => s = t
      BY <2>1, <2>4 DEF CmdInv, RowInv
    <3>4. \A s \in Requests : index'[s] # "none" => row'[s] # "none"
      BY <2>1, <2>4 DEF CmdInv, RowInv
    <3>5. \A s \in backlog' : Accepted(s)'
      BY <2>1 DEF CmdInv, RowInv, Accepted
    <3>6. StagedInv'
      BY <2>1 DEF CmdInv, StagedInv, Creates
    <3> QED
      BY <3>1, <3>2, <3>3, <3>4, <3>5, <3>6 DEF RowInv
  <2> QED
    BY <2>6, <2>7, <2>8 DEF CmdInv
<1> QED
  BY <1>2, <1>3

LEMMA DecisionKeeps ==
    ASSUME CmdInv, NEW r \in Requests, ExecuteDecision(r)
    PROVE  CmdInv'
<1>1. /\ r \in Running /\ ~Creates(r)
      /\ spool' = spool /\ unlinked' = unlinked /\ request' = request /\ queue' = queue /\ row' = row
      /\ index' = index /\ backlog' = backlog /\ duty' = duty
      /\ UNCHANGED <<ready, reservation, handoff>>
  BY DEF ExecuteDecision, requestSide, Creates
<1>2. PICK st \in Terminal : Marks(r, st, NoId)
  BY DEF ExecuteDecision, Fails, Terminal
<1>3. offer' \in [state : OfferStates, published : OfferStates]
  <2>1. offer \in [state : OfferStates, published : OfferStates]
    BY DEF CmdInv, CmdTypeOK
  <2>2. offer' = offer \/ \E s \in OfferStates : offer' = [offer EXCEPT !.state = s]
    <3>1. Decided(request[r].kind) \subseteq OfferStates
      BY DEF Decided, OfferStates
    <3> QED
      BY <3>1 DEF ExecuteDecision
  <2> QED
    BY <2>1, <2>2
<1>4. QueueInv' /\ NamedInv' /\ TargetsInv' /\ registry' \in [Requests -> RegistryEntries]
  BY <1>1, <1>2, CommandEnds DEF CommandIds
<1>5. CmdTypeOK'
  BY <1>1, <1>3, <1>4 DEF CmdInv, CmdTypeOK, RegistryEntries
<1>6. RowInv' /\ StagedInv'
  BY <1>1 DEF CmdInv, RowInv, StagedInv, Creates, Accepted
<1> QED
  BY <1>4, <1>5, <1>6 DEF CmdInv

LEMMA CmdSteps ==
    ASSUME CmdInv, CmdNext \/ UNCHANGED cmdVars
    PROVE  CmdInv'
<1>1. CASE Restart
  BY <1>1, RestartKeeps
<1>2. CASE Tick
  BY <1>2, TakeKeeps, PlainDutyKeeps, DrainSpoolKeeps, RecoverOrphansKeeps, CreateKeeps, CancelKeeps,
     DecisionKeeps DEF Tick, Execute
<1>3. ASSUME NEW r \in Requests, RequestStep(r) \/ Evict(r) PROVE CmdInv'
  BY <1>3, StageKeeps, PublishFileKeeps, LookKeeps, ReserveKeeps, RegisterCommandKeeps, QueueFullKeeps,
     EnqueueKeeps, AskLifecycleKeeps, EvictKeeps DEF RequestStep
<1>4. CASE UNCHANGED cmdVars
  <2>1. /\ request' = request /\ spool' = spool /\ reservation' = reservation /\ queue' = queue
        /\ registry' = registry /\ row' = row /\ offer' = offer /\ index' = index
        /\ handoff' = handoff /\ backlog' = backlog /\ duty' = duty /\ ready' = ready
        /\ unlinked' = unlinked
    BY <1>4 DEF cmdVars
  <2>2. CmdTypeOK'
    BY <2>1 DEF CmdInv, CmdTypeOK
  <2>3. QueueInv' /\ NamedInv' /\ TargetsInv'
    BY <2>1, SameQueue DEF CmdInv, QueueInv
  <2>4. RowInv' /\ StagedInv'
    BY <2>1 DEF CmdInv, RowInv, StagedInv, Creates, Accepted
  <2> QED
    BY <2>2, <2>3, <2>4 DEF CmdInv
<1> QED
  BY <1>1, <1>2, <1>3, <1>4 DEF CmdNext

LEMMA NamedFollows == CmdInv => OneAttachmentPerKey /\ SpoolIsKept
<1> SUFFICES ASSUME CmdInv PROVE OneAttachmentPerKey /\ SpoolIsKept
  OBVIOUS
<1>1. ASSUME NEW r \in Requests, NEW x \in CommandIds, x # NoId, Creates(r), Bears(r, x)
      PROVE  /\ row[x] # "none"
             /\ request[x].key = request[r].key /\ request[x].hash = request[r].hash
             /\ \A y \in Requests \ {x} : row[y] # "none" => request[y].key # request[x].key
  BY <1>1 DEF Bears, CmdInv, RowInv, CommandIds
<1>2. OneAttachmentPerKey
  <2> SUFFICES ASSUME NEW r \in Requests, Creates(r)
               PROVE  LET x == IF Is(r, "replay committed") THEN request[r].told
                               ELSE registry[r].resource
                      IN x # NoId =>
                            /\ row[x] # "none"
                            /\ request[x].key = request[r].key /\ request[x].hash = request[r].hash
                            /\ \A y \in Requests \ {x} : row[y] # "none" => request[y].key # request[x].key
    BY DEF OneAttachmentPerKey
  <2>1. request[r].told \in CommandIds /\ registry[r].resource \in CommandIds
    BY AskedFields, NamesAreRequests DEF CmdInv, CreateRequests
  <2>2. /\ registry[r].resource # NoId => Bears(r, registry[r].resource)
        /\ request[r].pc = "replay committed" /\ request[r].told # NoId => Bears(r, request[r].told)
    BY DEF CmdInv, NamedInv
  <2> QED
    BY <1>1, <2>1, <2>2 DEF Is
<1>3. SpoolIsKept
  BY DEF SpoolIsKept, CmdInv, RowInv, QueueInv, Waits
<1> QED
  BY <1>2, <1>3

\* Whatever the numbers of requests, keys and attachments and the length of the
\* queue, and wherever the process ends: a key makes one attachment, a file
\* that somebody needs is no orphan, and what the published snapshot lacks is
\* noted for the next refresh (service.py, idempotency.py, snapshots.py).
THEOREM AttachmentsStay == WorkersSpec => []AttachmentsAreKept
<1> DEFINE Inv == CmdInv /\ SnapInv
<1>1. WorkersInit => Inv
  BY CmdStart, SnapStart DEF WorkersInit
<1>2. Inv /\ [WorkersNext]_workersVars => Inv'
  BY PartSteps, CmdSteps, SnapSteps
<1>3. Inv => AttachmentsAreKept
  BY NamedFollows DEF AttachmentsAreKept, SnapInv, LagInv, LagIsNoted
<1> QED
  BY <1>1, <1>2, <1>3, PTL DEF WorkersSpec

-----------------------------------------------------------------------------
(* Connectivity                                                            *)

LEMMA CapAtTyped == ASSUME NEW n \in Nat, NEW cap \in Nat PROVE CapAt(n, cap) \in 0..cap
  BY DEF CapAt

LEMMA ConnStart == ConnInit => ConnTypeOK
<1> SUFFICES ASSUME ConnInit PROVE ConnTypeOK
  OBVIOUS
<1>1. /\ status \in [Relays -> {Unchecked} \cup [state : RelayStates, age : 0..Ceiling]]
      /\ failures \in [Relays -> 0..Ceiling] /\ info \in [Relays -> 0..InfoInterval]
  BY IntervalAssumption DEF ConnInit
<1>2. publishedState \in [internet : Internets, state : [Relays -> RelayStates \cup {"unknown"}]]
  BY DEF ConnInit, Internets
<1>3. /\ registered \in [Relays -> Profiles] /\ inCheck \in [Relays -> Profiles]
      /\ internet \in Internets /\ fallback \in 0..1
      /\ relay \in [Relays -> Behaviours]
  BY DEF ConnInit, Internets
<1>4. refreshing \in BOOLEAN /\ suspect \in [Relays -> BOOLEAN]
  BY DEF ConnInit
<1> QED
  BY <1>1, <1>2, <1>3, <1>4 DEF ConnTypeOK

LEMMA MinuteTyped == ASSUME ConnTypeOK, MinutePasses PROVE ConnTypeOK'
<1>1. ASSUME NEW r \in Relays
      PROVE  [status[r] EXCEPT !.age = CapAt(@ + 1, Ceiling)] \in {Unchecked} \cup [state : RelayStates, age : 0..Ceiling]
  <2> DEFINE a == CapAt(status[r].age + 1, Ceiling)
  <2>1. status[r].age \in 0..Ceiling
    BY IntervalAssumption DEF ConnTypeOK, Unchecked
  <2>2. a \in 0..Ceiling
    BY <2>1, IntervalAssumption, CapAtTyped
  <2>3. CASE status[r] \in [state : RelayStates, age : 0..Ceiling]
    BY <2>2, <2>3
  <2>4. CASE status[r] = Unchecked
    <3>1. a = Ceiling
      BY <2>4, IntervalAssumption DEF Unchecked, CapAt
    <3>2. [Unchecked EXCEPT !.age = a] = Unchecked
      BY <3>1 DEF Unchecked
    <3> QED
      BY <2>4, <3>2
  <2> QED
    BY <2>3, <2>4 DEF ConnTypeOK
<1>2. status' \in [Relays -> {Unchecked} \cup [state : RelayStates, age : 0..Ceiling]]
  BY <1>1 DEF MinutePasses
<1>3. ASSUME NEW r \in Relays PROVE CapAt(info[r] + 1, InfoInterval) \in 0..InfoInterval
  <2>1. InfoInterval \in Nat /\ info[r] + 1 \in Nat
    BY IntervalAssumption DEF ConnTypeOK
  <2> QED
    BY <2>1, CapAtTyped
<1>4. info' \in [Relays -> 0..InfoInterval] /\ fallback' \in 0..1
  BY <1>3 DEF MinutePasses
<1> QED
  BY <1>2, <1>4 DEF MinutePasses, ConnTypeOK

LEMMA ChangesTyped == ASSUME ConnTypeOK, NEW r \in Relays, RelayChanges(r) \/ RegistryChanges(r) PROVE ConnTypeOK'
<1>1. CASE RelayChanges(r)
  <2>1. relay' \in [Relays -> Behaviours]
    BY <1>1 DEF RelayChanges, ConnTypeOK
  <2> QED
    BY <1>1, <2>1 DEF RelayChanges, ConnTypeOK
<1>2. CASE RegistryChanges(r)
  <2>1. registered' \in [Relays -> Profiles]
    BY <1>2 DEF RegistryChanges, ConnTypeOK
  <2> QED
    BY <1>2, <2>1 DEF RegistryChanges, ConnTypeOK
<1> QED
  BY <1>1, <1>2

LEMMA StartsTyped == ASSUME ConnTypeOK, RefreshStarts PROVE ConnTypeOK'
<1>1. /\ status' \in [Relays -> {Unchecked} \cup [state : RelayStates, age : 0..Ceiling]]
      /\ failures' \in [Relays -> 0..Ceiling] /\ info' \in [Relays -> 0..InfoInterval]
  BY IntervalAssumption DEF RefreshStarts, ConnTypeOK
<1>2. inCheck' \in [Relays -> Profiles] /\ refreshing' \in BOOLEAN
  BY DEF RefreshStarts, ConnTypeOK
<1>3. suspect' \in [Relays -> BOOLEAN]
  BY DEF RefreshStarts, ConnTypeOK
<1> QED
  BY <1>1, <1>2, <1>3 DEF RefreshStarts, ConnTypeOK

LEMMA EndsTyped == ASSUME ConnTypeOK, RefreshEnds PROVE ConnTypeOK'
<1> DEFINE on == {r \in Relays : inCheck[r] = "on"}
           due == {r \in on : Due(r)}
           found == [r \in Relays |->
                    IF inCheck[r] = "off" THEN [state |-> "disabled", age |-> 0]
                    ELSE IF r \in due THEN [state |-> Probed(r), age |-> 0] ELSE status[r]]
<1>1. ASSUME NEW r \in Relays PROVE Probed(r) \in RelayStates
  BY DEF Probed, RelayStates
<1>2. found \in [Relays -> {Unchecked} \cup [state : RelayStates, age : 0..Ceiling]]
  <2>1. 0 \in 0..Ceiling /\ "disabled" \in RelayStates
    BY IntervalAssumption DEF RelayStates
  <2> QED
    BY <1>1, <2>1 DEF ConnTypeOK
<1>3. status' = found
  BY DEF RefreshEnds
<1>4. failures' \in [Relays -> 0..Ceiling]
  <2>1. ASSUME NEW r \in Relays PROVE CapAt(failures[r] + 1, Ceiling) \in 0..Ceiling
    <3>1. Ceiling \in Nat /\ failures[r] + 1 \in Nat
      BY IntervalAssumption DEF ConnTypeOK
    <3> QED
      BY <3>1, CapAtTyped
  <2>2. 0 \in 0..Ceiling
    BY IntervalAssumption
  <2>3. failures' = [r \in Relays |->
          IF inCheck[r] = "off" \/ (r \in due /\ ~Failed(r)) THEN 0
          ELSE IF r \in due THEN CapAt(failures[r] + 1, Ceiling) ELSE failures[r]]
    BY DEF RefreshEnds
  <2> HIDE DEF due
  <2> QED
    BY <2>1, <2>2, <2>3 DEF ConnTypeOK
<1>5. info' \in [Relays -> 0..InfoInterval]
  <2>1. info' = [r \in Relays |-> IF r \in due /\ InfoChecked(r) THEN 0 ELSE info[r]]
    BY DEF RefreshEnds
  <2> HIDE DEF due
  <2> QED
    BY <2>1, IntervalAssumption DEF ConnTypeOK
<1>6. suspect' \in [Relays -> BOOLEAN]
  <2>1. suspect' = [r \in Relays |-> IF r \in due /\ InfoChecked(r) THEN relay[r] = "impostor" ELSE suspect[r]]
    BY DEF RefreshEnds
  <2> HIDE DEF due
  <2> QED
    BY <2>1 DEF ConnTypeOK
<1>7. internet' \in Internets /\ fallback' \in 0..1
  BY DEF RefreshEnds, Internets, ConnTypeOK
<1>8. publishedState' \in [internet : Internets, state : [Relays -> RelayStates \cup {"unknown"}]]
  <2>1. publishedState' = [internet |-> internet', state |-> [r \in Relays |-> found[r].state]]
    BY DEF RefreshEnds
  <2>2. [r \in Relays |-> found[r].state] \in [Relays -> RelayStates \cup {"unknown"}]
    <3> HIDE DEF found
    <3> QED
      BY <1>2 DEF Unchecked
  <2> HIDE DEF found
  <2> QED
    BY <1>7, <2>1, <2>2
<1>9. UNCHANGED <<relay, registered, inCheck>> /\ refreshing' \in BOOLEAN
  BY DEF RefreshEnds
<1> HIDE DEF found
<1> QED
  BY <1>2, <1>3, <1>4, <1>5, <1>6, <1>7, <1>8, <1>9 DEF ConnTypeOK

LEMMA ConnStays == ConnTypeOK /\ (ConnNext \/ UNCHANGED connVars) => ConnTypeOK'
<1>1. ConnTypeOK /\ UNCHANGED connVars => ConnTypeOK'
  BY DEF connVars, ConnTypeOK
<1> QED
  BY <1>1, MinuteTyped, ChangesTyped, StartsTyped, EndsTyped DEF ConnNext

-----------------------------------------------------------------------------
(* Types of the parts                                                      *)

\* What keeps the types of every part: the invariants above, and those of the
\* devices.
WorkersTypes ==
    /\ CmdInv /\ SnapInv /\ KeyTypeOK /\ ProvInv
    /\ ConnTypeOK /\ HealthInv /\ UsbInv /\ DispInv

\* Every part keeps its types - the command queue, the announcements of an
\* hour and the back-off in the sizes the code sets (service.py,
\* key_exchange.py, connectivity_monitor.py) - for every size of them and every
\* set of requests, attachments, nodes and Relays.
THEOREM WorkersAreTyped == WorkersSpec => []WorkersTypeOK
<1>1. WorkersInit => WorkersTypes
  <2> SUFFICES ASSUME WorkersInit PROVE WorkersTypes
    OBVIOUS
  <2>1. CmdInv /\ SnapInv /\ KeyTypeOK /\ ProvInv
    BY CmdStart, SnapStart, KeyStart, ProvStart DEF WorkersInit
  <2>2. ConnTypeOK /\ HealthInv /\ UsbInv /\ DispInv
    BY ConnStart, HealthStart, UsbStart, DisplayStart DEF WorkersInit
  <2> QED
    BY <2>1, <2>2 DEF WorkersTypes
<1>2. WorkersTypes /\ [WorkersNext]_workersVars => WorkersTypes'
  <2> SUFFICES ASSUME WorkersTypes, [WorkersNext]_workersVars PROVE WorkersTypes'
    OBVIOUS
  <2>0. /\ CmdInv /\ SnapInv /\ KeyTypeOK /\ ProvInv
        /\ ConnTypeOK /\ HealthInv /\ UsbInv /\ DispInv
    BY DEF WorkersTypes
  <2>1. CmdInv' /\ SnapInv' /\ KeyTypeOK' /\ ProvInv'
    BY <2>0, PartSteps, CmdSteps, SnapSteps, KeySteps, ProvSteps
  <2>2. ConnTypeOK' /\ HealthInv' /\ UsbInv' /\ DispInv'
    BY <2>0, PartSteps, ConnStays, HealthSteps, UsbKeeps, DisplayKeeps
  <2> QED
    BY <2>1, <2>2 DEF WorkersTypes
<1>3. WorkersTypes => WorkersTypeOK
  BY UsbTypesHold, DisplayHolds
     DEF WorkersTypes, WorkersTypeOK, CmdInv, SnapInv, ProvInv, HealthInv
<1> QED
  BY <1>1, <1>2, <1>3, PTL DEF WorkersSpec
=============================================================================
