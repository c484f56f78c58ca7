------------------------------- MODULE Inbox -------------------------------
(***************************************************************************)
(* What becomes of a text the radio hears: server.py's                     *)
(* _handle_listener_line and the routes of the chat list that work on the  *)
(* same chats, nodes and messages while the listener thread is between two *)
(* of its locked sections.                                                 *)
(*                                                                         *)
(* A line is its packet id, its sender, its text and whether it is for one *)
(* chat or for the channel; the regular expressions that read these from   *)
(* the line's words are the parameters of Hear.  Names, signal values and  *)
(* positions of nodes are left out.                                        *)
(***************************************************************************)
EXTENDS Naturals, FiniteSets, Sequences, SequencesExt

CONSTANTS
    Peers,      \* nodes other than the one on this machine
    PacketIds,    \* packet ids
    Texts,
    Channel,    \* the chat of the channel
    HistorySize, \* MAX_HISTORY_MESSAGES
    MaxUnread,  \* bound: hear no more for a chat with this many unread
    MaxSeen,    \* 1000 ids: above it cleanup_seen_ids keeps ...
    KeptIds     \* ... 500 of them

ASSUME InboxAssumption ==
    /\ HistorySize \in Nat \ {0} /\ MaxUnread \in Nat
    /\ MaxSeen \in Nat /\ KeptIds \in 0..MaxSeen
    /\ Channel \notin Peers

VARIABLES
    seenIds,    \* seen_ids
    lately,     \* seen_recent_texts of the last 15 seconds
    nodes, chats, unread, ignored, \* of the nodes and of their chats
    deletedDm,  \* the file DELETED_DM_FILE: its form and the chats it names
    messages,   \* server.messages, and its file
    routeList,  \* the list api_chat was given at registration
    line,       \* the line the listener is working on
    forgotten   \* ghost: the ids cleanup or a restart dropped

inboxVars == <<seenIds, lately, nodes, chats, unread, ignored, deletedDm, messages, routeList, line, forgotten>>
listenerVars == <<seenIds, lately, line, forgotten>>

NoFile == [form |-> "none", names |-> {}]
\* What create_clean_profile writes, and what the routes write.
EmptyList == [form |-> "list", names |-> {}]
Naming(S) == [form |-> "object", names |-> S]
Shared == <<>> \* the list is the one server.messages names; <<s>>: another, holding s
NoLine == [at |-> "none"]
Chats == Peers \cup {Channel}
Messages == [id : PacketIds, chat : Chats]
Lines == [at : {"node", "text", "sender", "chat", "add"}, id : PacketIds, from : Peers, text : Texts, to : Chats]

InboxTypeOK ==
    /\ seenIds \subseteq PacketIds /\ lately \subseteq Peers \X Texts
    /\ nodes \subseteq Peers /\ chats \subseteq Peers /\ ignored \subseteq nodes
    /\ unread \in [Chats -> 0..MaxUnread]
    /\ deletedDm \in {NoFile, EmptyList} \cup {Naming(S) : S \in SUBSET Peers}
    /\ messages \in Seq(Messages) /\ Len(messages) <= HistorySize
    /\ routeList = Shared \/ routeList[1] \in Seq(Messages)
    /\ line = NoLine \/ line \in Lines
    /\ forgotten \subseteq PacketIds

InboxInit ==
    /\ seenIds = {} /\ lately = {} /\ nodes = {} /\ chats = {} /\ ignored = {}
    /\ unread = [c \in Chats |-> 0]
    /\ deletedDm \in {NoFile, EmptyList}
    /\ messages = <<>> /\ routeList = Shared
    /\ line = NoLine
    /\ forgotten = {}

-----------------------------------------------------------------------------
(* The listener: one line at a time, one locked section after the other. *)

\* Fault: the id is noted, but a known one is not turned away.
HearAgain(p, n, t, c) ==
    /\ line = NoLine
    /\ c \in {n, Channel} /\ unread[c] < MaxUnread
    /\ seenIds' = seenIds \cup {p}
    /\ line' = [at |-> "node", id |-> p, from |-> n, text |-> t, to |-> c]
    /\ UNCHANGED <<lately, nodes, chats, unread, ignored, deletedDm, messages, routeList, forgotten>>

\* An id is looked up and noted in one locked section; a known one is dropped.
Hear(p, n, t, c) ==
    /\ line = NoLine
    /\ c \in {n, Channel} /\ unread[c] < MaxUnread
    /\ p \notin seenIds
    /\ seenIds' = seenIds \cup {p}
    /\ line' = [at |-> "node", id |-> p, from |-> n, text |-> t, to |-> c]
    /\ UNCHANGED <<lately, nodes, chats, unread, ignored, deletedDm, messages, routeList, forgotten>>

\* ensure_chat(force=True): a chat that was deleted comes back, empty.
WithChat(n) == chats' = chats \cup {n}

\* update_node: before any of the filters that follow.
UpdateNode ==
    /\ line.at = "node"
    /\ nodes' = nodes \cup {line.from}
    /\ WithChat(line.from)
    /\ line' = [line EXCEPT !.at = "text"]
    /\ UNCHANGED <<seenIds, lately, unread, ignored, deletedDm, messages, routeList, forgotten>>

\* is_duplicate_text: the key names the sender and the text, not the chat.
JudgeText ==
    /\ line.at = "text"
    /\ LET key == <<line.from, line.text>> IN
          IF key \in lately
          THEN line' = NoLine /\ UNCHANGED lately
          ELSE line' = [line EXCEPT !.at = "sender"] /\ lately' = lately \cup {key}
    /\ UNCHANGED <<seenIds, nodes, chats, unread, ignored, deletedDm, messages, routeList, forgotten>>

\* The ignored flag is read once, with no lock.
JudgeSender ==
    /\ line.at = "sender"
    /\ line' = IF line.from \in ignored THEN NoLine ELSE [line EXCEPT !.at = "chat"]
    /\ UNCHANGED <<seenIds, lately, nodes, chats, unread, ignored, deletedDm, messages, routeList, forgotten>>

\* ensure_chat(force=False): not for a chat the file of deleted chats names.  A
\* file that is a list has no .get(): what that raises ends the line.
ChooseChat ==
    /\ line.at = "chat"
    /\ IF line.to = Channel \/ deletedDm.form = "list" \/ line.to \in deletedDm.names
       THEN UNCHANGED chats ELSE WithChat(line.to)
    /\ line' = IF line.to # Channel /\ deletedDm.form = "list"
               THEN NoLine ELSE [line EXCEPT !.at = "add"]
    /\ UNCHANGED <<seenIds, lately, nodes, unread, ignored, deletedDm, messages, routeList, forgotten>>

Latest(s) == IF Len(s) > HistorySize THEN SubSeq(s, Len(s) - HistorySize + 1, Len(s)) ELSE s

\* add_message makes the sender's chat once more; the list is cut in place, so
\* it stays the same object.  (An "MCA1:" text then goes to the attachments:
\* AttachmentReceiver.)
AddMessage ==
    /\ line.at = "add"
    /\ WithChat(line.from)
    /\ messages' = Latest(Append(messages, [id |-> line.id, chat |-> line.to]))
    /\ unread' = [unread EXCEPT ![line.to] = @ + 1]
    /\ line' = NoLine
    /\ UNCHANGED <<seenIds, lately, nodes, ignored, deletedDm, routeList, forgotten>>

\* A node that is noted keeps its flags; its chat is made if it is not there.
Noted(S) ==
    /\ nodes' = nodes \cup S
    /\ chats' = chats \cup S
    /\ UNCHANGED <<listenerVars, unread, ignored, deletedDm, messages, routeList>>

\* The listener hears a packet of a node's own data ...
NodeInfo(n) == line = NoLine /\ Noted({n})

\* ... or the adapter's entry for a node of its database ...
ReceivedNodeInfo(n) == line = NoLine /\ Noted({n})

\* ... a rescan goes through "Nodes in mesh", a locked section for each ...
MeshListed(n) == Noted({n})

\* ... and an imported list is one section.
NodesImported(S) == Noted(S)

\* 15 seconds have passed.
TextExpires(key) ==
    /\ key \in lately
    /\ lately' = lately \ {key}
    /\ UNCHANGED <<seenIds, nodes, chats, unread, ignored, deletedDm, messages, routeList, line, forgotten>>

\* cleanup_seen_ids: which ids of a Python set are the "last" 500 is arbitrary.
CleanupSeenIds ==
    /\ Cardinality(seenIds) > MaxSeen
    /\ \E kept \in SUBSET seenIds :
          /\ Cardinality(kept) = KeptIds
          /\ seenIds' = kept
          /\ forgotten' = forgotten \cup (seenIds \ kept)
    /\ UNCHANGED <<lately, nodes, chats, unread, ignored, deletedDm, messages, routeList, line>>

-----------------------------------------------------------------------------
(* The routes, each in one locked section. *)

Without(C) ==
    LET left[i \in 0..Len(messages)] ==
            IF i = 0 THEN <<>>
            ELSE IF messages[i].chat \in C THEN left[i - 1]
            ELSE Append(left[i - 1], messages[i])
    IN left[Len(messages)]

RoutesSee == IF routeList = Shared THEN messages ELSE routeList[1]

\* "messages = [...]" makes a new list: api_chat goes on with the old one.
Rebind(kept) ==
    /\ messages' = kept
    /\ routeList' = <<RoutesSee>>

ReadChat(c) ==
    /\ unread' = [unread EXCEPT ![c] = 0]
    /\ UNCHANGED <<listenerVars, nodes, chats, ignored, deletedDm, messages, routeList>>

ClearChat(c) ==
    /\ Rebind(Without({c}))
    /\ unread' = [unread EXCEPT ![c] = 0]
    /\ UNCHANGED <<listenerVars, nodes, chats, ignored, deletedDm>>

DeleteChat(n) ==
    /\ Rebind(Without({n}))
    /\ chats' = chats \ {n}
    /\ unread' = [unread EXCEPT ![n] = 0]
    /\ UNCHANGED <<listenerVars, nodes, ignored, deletedDm>>

\* The list of deleted chats is replaced, not added to, and may not be written.
DeleteAllDm ==
    /\ Rebind(Without(Peers))
    /\ chats' = {}
    /\ unread' = [c \in Chats |-> IF c = Channel THEN unread[c] ELSE 0]
    /\ deletedDm' \in {Naming(chats), deletedDm}
    /\ UNCHANGED <<listenerVars, nodes, ignored>>

RestoreDeletedDm ==
    /\ deletedDm # NoFile
    /\ deletedDm' = NoFile
    /\ chats' = chats \cup nodes
    /\ UNCHANGED <<listenerVars, nodes, unread, ignored, messages, routeList>>

CleanupNodes ==
    /\ chats' = chats \cup nodes
    /\ UNCHANGED <<listenerVars, nodes, unread, ignored, deletedDm, messages, routeList>>

ToggleIgnore(n) ==
    /\ n \in nodes
    /\ ignored' = IF n \in ignored THEN ignored \ {n} ELSE ignored \cup {n}
    /\ UNCHANGED <<listenerVars, nodes, chats, unread, deletedDm, messages, routeList>>

\* /api/messages/delete searches, and pops from, the list api_chat holds; what
\* it then saves is server.messages.
DeleteMessage(m) ==
    /\ m \in ToSet(RoutesSee)
    /\ LET pos == CHOOSE i \in DOMAIN RoutesSee : RoutesSee[i] = m IN
          IF routeList = Shared
          THEN messages' = RemoveAt(messages, pos) /\ UNCHANGED routeList
          ELSE routeList' = <<RemoveAt(RoutesSee, pos)>> /\ UNCHANGED messages
    /\ unread' = [unread EXCEPT ![m.chat] = 0]
    /\ UNCHANGED <<listenerVars, nodes, chats, ignored, deletedDm>>

\* ensure_known_nodes(), normalize_unknown_nodes().
EveryNodeHasAChat == chats' = chats \cup nodes

\* The process ends and starts: load_messages fills the list in place, before
\* the routes' list can be left behind.  A chat that was deleted is back.
InboxRestart ==
    /\ EveryNodeHasAChat
    /\ seenIds' = {} /\ lately' = {} /\ line' = NoLine
    /\ forgotten' = forgotten \cup seenIds
    /\ routeList' = Shared
    /\ UNCHANGED <<nodes, unread, ignored, deletedDm, messages>>

InboxNext ==
    \/ \E p \in PacketIds, n \in Peers, t \in Texts, c \in Chats : Hear(p, n, t, c)
    \/ UpdateNode \/ JudgeText \/ JudgeSender \/ ChooseChat \/ AddMessage
    \/ CleanupSeenIds \/ DeleteAllDm \/ RestoreDeletedDm \/ CleanupNodes \/ InboxRestart
    \/ \E key \in lately : TextExpires(key)
    \/ \E S \in SUBSET Peers : NodesImported(S)
    \/ \E n \in Peers : NodeInfo(n) \/ ReceivedNodeInfo(n) \/ MeshListed(n) \/ DeleteChat(n) \/ ToggleIgnore(n)
    \/ \E c \in Chats : ReadChat(c) \/ ClearChat(c)
    \/ \E m \in ToSet(RoutesSee) : DeleteMessage(m)

-----------------------------------------------------------------------------
(* Safety *)

\* A packet that is published again (by the adapter, after a restart of the
\* listener, or by a relay of the mesh) is not shown a second time for as long
\* as its id is remembered, whatever is done to chats between its two hearings:
\* the id is noted before the filters, in the section that looks it up.
HeardOnce ==
    \A i, j \in DOMAIN messages :
        i # j /\ messages[i].id = messages[j].id => messages[i].id \in forgotten

\* A deletion that is answered with "ok" takes the message out of the history
\* (docs/User_Guide.md:435, "Delete the message from local MeshCenter history").
\* It is not so once a chat was cleared or deleted: see Rebind.
DeletionDeletes ==
    [][\A m \in Messages : DeleteMessage(m) => Len(messages') < Len(messages)]_inboxVars
=============================================================================
