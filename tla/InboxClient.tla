---------------------------- MODULE InboxClient ----------------------------
(***************************************************************************)
(* The inbox page of a connected workspace: the two queries and their      *)
(* cache (queries.ts), what an agent does with the open conversation       *)
(* (use-live-inbox.ts, inbox/page.tsx).  The server's                      *)
(* side of a request and its answer are separate steps; polls, mutations   *)
(* and effects of the page write the same cache.                           *)
(***************************************************************************)
EXTENDS Naturals, FiniteSets

CONSTANTS Conv,
          MaxInbound, MaxSend, MaxPatch, MaxMiss  \* bounds: customer messages, sends, changes, failed requests

VARIABLES
    srv,       \* the server's conversations
    list,      \* cache of inboxKeys.list: no data yet, or rows
    listRead,  \* request for the list in flight: the rows it has read
    msgs,      \* cache of inboxKeys.messages: rows shown and whether a pending one is
    msgsRead,  \* request for messages in flight
    stale,     \* queries that are invalidated and fetched next
    selected, tab, seen,  \* page: selection, queue tab, dependencies of the markRead effect
    marking,   \* POST .../read in flight
    patch,     \* PATCH or retry in flight
    send,      \* POST .../messages in flight
    owed,      \* history: messages of a conversation when our last send was answered
    inbound, sends, patches, missed

yvars == <<srv, list, listRead, msgs, msgsRead, stale, selected, tab, seen, marking, patch, send,
           owed, inbound, sends, patches, missed>>
queries == <<list, listRead, msgs, msgsRead, stale>>
view == <<selected, tab, seen>>
counts == <<inbound, sends, patches, missed>>

Me == "me"
Summary == [status : {"OPEN", "RESOLVED"}, assignee : {"none", Me}, unread : 0 .. MaxInbound]
Row == [status : {"OPEN", "RESOLVED"}, assignee : {"none", Me}, unread : 0 .. MaxInbound, n : 0 .. MaxInbound + MaxSend]
NoRows == [c \in Conv |-> [status |-> "none", assignee |-> "none", unread |-> 0]]
NoMsgs == [has |-> FALSE, n |-> 0, pending |-> FALSE]
NoRead == [of |-> "none", n |-> 0]
NoPatch == [op |-> "none", of |-> "none"]
NoSend == [of |-> "none", previous |-> NoMsgs, stored |-> FALSE]
Maybe == Conv \cup {"none"}
Key == {"list"} \cup Conv

TypeOK ==
    /\ srv \in [Conv -> Row]
    /\ list = NoRows \/ list \in [Conv -> Summary]
    /\ listRead = NoRows \/ listRead \in [Conv -> Summary]
    /\ msgs \in [Conv -> [has : BOOLEAN, n : 0 .. MaxInbound + MaxSend, pending : BOOLEAN]]
    /\ msgsRead \in [of : Maybe, n : 0 .. MaxInbound + MaxSend] /\ stale \subseteq Key
    /\ selected \in Maybe /\ tab \in {"mine", "unassigned", "all"} /\ seen \in Maybe \X (0 .. MaxInbound)
    /\ marking \subseteq Conv /\ patch.of \in Maybe /\ send.of \in Maybe
    /\ owed \in [Conv -> 0 .. MaxInbound + MaxSend]
    /\ inbound <= MaxInbound /\ sends <= MaxSend /\ patches <= MaxPatch /\ missed <= MaxMiss

\* The tab may be changed while the list is loading.
Init ==
    /\ srv = [c \in Conv |-> [status |-> "OPEN", assignee |-> "none", unread |-> 0, n |-> 0]]
    /\ list = NoRows /\ listRead = NoRows /\ msgs = [c \in Conv |-> NoMsgs] /\ msgsRead = NoRead /\ stale = {}
    /\ selected = "none" /\ tab \in {"mine", "all"} /\ seen = <<"none", 0>>
    /\ marking = {} /\ patch = NoPatch /\ send = NoSend
    /\ owed = [c \in Conv |-> 0] /\ inbound = 0 /\ sends = 0 /\ patches = 0 /\ missed = 0

Miss == missed < MaxMiss /\ missed' = missed + 1 /\ UNCHANGED <<inbound, sends, patches>>

----------------------------------------------------------------------------
(* What a render makes of selection and rows *)

filterQueue(rows, t) ==
    {c \in Conv : \/ t = "all"
                  \/ rows[c].status # "RESOLVED" /\ rows[c].assignee = IF t = "mine" THEN Me ELSE "none"}

\* "Keep a valid selection": the first visible conversation, or else the first.
ValidSelection(s, rows) ==
    IF rows = NoRows \/ s # "none" THEN {s}
    ELSE IF filterQueue(rows, tab) # {} THEN filterQueue(rows, tab) ELSE Conv

\* Mutant: the effect depends on the conversation only.
SelectionChanged(c, unread) == c # seen[1]

DepsChanged(c, unread) == <<c, unread>> # seen

\* The page is rendered with selection s and rows; its effects run.  markRead empties the badge in the cache at once.
Render(s, rows) ==
    LET unread == IF s = "none" \/ rows = NoRows THEN 0 ELSE rows[s].unread
        reads == unread > 0 /\ DepsChanged(s, unread)
    IN  /\ selected' = s
        /\ seen' = <<s, IF reads THEN 0 ELSE unread>>
        /\ marking' = IF reads THEN marking \cup {s} ELSE marking
        /\ list' = IF reads THEN [rows EXCEPT ![s].unread = 0] ELSE rows

----------------------------------------------------------------------------
(* Queries *)

\* Mutant: a settled mutation leaves the cache to the next poll.
LeftToPolls(keys) == UNCHANGED <<listRead, msgsRead, stale>>

\* invalidateQueries: requests in flight are dropped and sent again.
Invalidate(keys) ==
    /\ listRead' = IF "list" \in keys THEN NoRows ELSE listRead
    /\ msgsRead' = IF msgsRead.of \in keys THEN NoRead ELSE msgsRead
    /\ stale' = stale \cup keys

SummaryOf(r) == [status |-> r.status, assignee |-> r.assignee, unread |-> r.unread]

\* refetchInterval, an invalidation or a realtime hint.
ListRequested ==
    /\ listRead = NoRows
    /\ listRead' = [c \in Conv |-> SummaryOf(srv[c])] /\ stale' = stale \ {"list"}
    /\ UNCHANGED <<srv, list, msgs, msgsRead, view, marking, patch, send, owed, counts>>

ListAnswered ==
    /\ listRead # NoRows /\ listRead' = NoRows
    /\ \E s \in ValidSelection(selected, listRead) : Render(s, listRead)
    /\ UNCHANGED <<srv, msgs, msgsRead, stale, tab, patch, send, owed, counts>>

\* enabled: only the messages of the open conversation are fetched.
MsgsRequested ==
    /\ selected # "none" /\ msgsRead = NoRead
    /\ msgsRead' = [of |-> selected, n |-> srv[selected].n] /\ stale' = stale \ {selected}
    /\ UNCHANGED <<srv, list, listRead, msgs, view, marking, patch, send, owed, counts>>

MsgsAnswered ==
    /\ msgsRead # NoRead /\ msgsRead' = NoRead
    /\ msgs' = [msgs EXCEPT ![msgsRead.of] = [has |-> TRUE, n |-> msgsRead.n, pending |-> FALSE]]
    /\ UNCHANGED <<srv, list, listRead, stale, view, marking, patch, send, owed, counts>>

RequestFails ==
    /\ Miss
    /\ \/ listRead # NoRows /\ listRead' = NoRows /\ stale' = stale \cup {"list"} /\ UNCHANGED msgsRead
       \/ msgsRead # NoRead /\ msgsRead' = NoRead /\ stale' = stale \cup {msgsRead.of} /\ UNCHANGED listRead
    /\ UNCHANGED <<srv, list, msgs, view, marking, patch, send, owed>>

----------------------------------------------------------------------------
(* The server *)

Inbound(c) ==
    /\ inbound < MaxInbound /\ inbound' = inbound + 1
    /\ srv' = [srv EXCEPT ![c].unread = @ + 1, ![c].n = @ + 1]
    /\ UNCHANGED <<queries, view, marking, patch, send, owed, sends, patches, missed>>

MarkReadApplied(c) ==
    /\ c \in marking /\ marking' = marking \ {c}
    /\ srv' = [srv EXCEPT ![c].unread = 0]
    /\ UNCHANGED <<queries, view, patch, send, owed, counts>>

\* No onError: the badge stays empty until the next answer.
MarkReadFails(c) ==
    /\ c \in marking /\ marking' = marking \ {c} /\ Miss
    /\ UNCHANGED <<srv, queries, view, patch, send, owed>>

PatchApplied ==
    /\ patch.op \notin {"none", "applied"} /\ patch' = [patch EXCEPT !.op = "applied"]
    /\ srv' = CASE patch.op = "resolve" -> [srv EXCEPT ![patch.of].status = "RESOLVED"]
                [] patch.op = "reopen" -> [srv EXCEPT ![patch.of].status = "OPEN"]
                [] patch.op = "claim" -> [srv EXCEPT ![patch.of].assignee = Me]
                [] patch.op = "unassign" -> [srv EXCEPT ![patch.of].assignee = "none"]
                [] patch.op = "retry" -> srv
    /\ UNCHANGED <<queries, view, marking, send, owed, counts>>

SendStored ==
    /\ send # NoSend /\ ~send.stored /\ send' = [send EXCEPT !.stored = TRUE]
    /\ srv' = [srv EXCEPT ![send.of].n = @ + 1, ![send.of].unread = 0]
    /\ UNCHANGED <<queries, view, marking, patch, owed, counts>>

----------------------------------------------------------------------------
(* Mutations *)

\* onSettled of every change invalidates the list and the conversation.
PatchSettles ==
    /\ patch # NoPatch
    /\ (patch.op = "applied" /\ UNCHANGED counts) \/ Miss
    /\ Invalidate({"list", patch.of}) /\ patch' = NoPatch
    /\ UNCHANGED <<srv, list, msgs, view, marking, send, owed>>

Patch(op) ==
    /\ patch = NoPatch /\ patches < MaxPatch /\ patches' = patches + 1
    /\ patch' = [op |-> op, of |-> selected]

Shown == IF selected = "none" \/ list = NoRows THEN {} ELSE {selected}

claim ==
    /\ \E c \in Shown : list[c].assignee = "none" /\ list[c].status # "RESOLVED"
    /\ Patch("claim")
    /\ UNCHANGED <<srv, queries, view, marking, send, owed, inbound, sends, missed>>

\* handleCompleteConversation goes on to the next conversation of the queue, if there is one.
resolve ==
    /\ \E c \in Shown : list[c].status # "RESOLVED"
    /\ Patch("resolve")
    /\ LET others == filterQueue(list, tab) \ {selected}
       IN  \E s \in others \cup {selected} : Render(s, list)
    /\ UNCHANGED <<srv, listRead, msgs, msgsRead, stale, tab, send, owed, inbound, sends, missed>>

reopen ==
    /\ \E c \in Shown : list[c].status = "RESOLVED"
    /\ Patch("reopen")
    /\ UNCHANGED <<srv, queries, view, marking, send, owed, inbound, sends, missed>>

updateAssignee ==
    /\ Shown # {} /\ \E op \in {"claim", "unassign"} : Patch(op)
    /\ UNCHANGED <<srv, queries, view, marking, send, owed, inbound, sends, missed>>

\* Any reply of the conversation may have failed.
retryMessage ==
    /\ Shown # {} /\ Patch("retry")
    /\ UNCHANGED <<srv, queries, view, marking, send, owed, inbound, sends, missed>>

\* onMutate: requests for the messages are cancelled and the pending reply is shown.
Mutate(c) ==
    /\ send' = [of |-> c, previous |-> msgs[c], stored |-> FALSE] /\ sends' = sends + 1
    /\ msgsRead' = IF msgsRead.of = c THEN NoRead ELSE msgsRead
    /\ msgs' = [msgs EXCEPT ![c].has = TRUE, ![c].pending = TRUE]

\* A reply or a private note; isSending keeps the composer from sending two at once.
sendMessage ==
    /\ Shown # {} /\ send = NoSend /\ sends < MaxSend /\ Mutate(selected)
    /\ UNCHANGED <<srv, list, listRead, stale, view, marking, patch, owed, inbound, patches, missed>>

SendSucceeds ==
    /\ send # NoSend /\ send.stored /\ send' = NoSend
    /\ owed' = [owed EXCEPT ![send.of] = srv[send.of].n]
    /\ Invalidate({"list", send.of})
    /\ UNCHANGED <<srv, list, msgs, view, marking, patch, counts>>

\* onError puts the rows of before back; setQueryData ignores undefined.
SendFails ==
    /\ send # NoSend /\ Miss /\ send' = NoSend
    /\ msgs' = IF send.previous.has THEN [msgs EXCEPT ![send.of] = send.previous] ELSE msgs
    /\ Invalidate({"list", send.of})
    /\ UNCHANGED <<srv, list, view, marking, patch, owed>>

----------------------------------------------------------------------------
(* The page *)

\* A click, or J and K in the queue as shown.
Select(c) ==
    /\ list # NoRows /\ c \in filterQueue(list, tab) \ {selected} /\ Render(c, list)
    /\ stale' = IF msgs[c].has THEN stale ELSE stale \cup {c}
    /\ UNCHANGED <<srv, listRead, msgs, msgsRead, tab, patch, send, owed, counts>>

SetTab(t) ==
    /\ t # tab /\ tab' = t
    /\ UNCHANGED <<srv, queries, selected, seen, marking, patch, send, owed, counts>>

Reading ==
    \/ ListRequested \/ ListAnswered \/ RequestFails
    \/ \E c \in Conv : Inbound(c) \/ Select(c)

ReplyNext ==
    \/ Reading \/ MsgsRequested \/ MsgsAnswered
    \/ sendMessage \/ SendStored \/ SendSucceeds \/ SendFails

ManageNext ==
    \/ Reading \/ \E c \in Conv : MarkReadApplied(c) \/ MarkReadFails(c)
    \/ PatchApplied \/ PatchSettles \/ claim \/ resolve \/ reopen \/ updateAssignee \/ retryMessage
    \/ \E t \in {"mine", "unassigned", "all"} : SetTab(t)

Next == ReplyNext \/ ManageNext

----------------------------------------------------------------------------
(* When nothing is in flight and nothing is to be fetched, the open        *)
(* conversation shows no reply that the server does not have, whatever     *)
(* overlapped with a send that failed, and shows every reply whose sending *)
(* was confirmed.                                                          *)
NoGhostMessage ==
    selected # "none" /\ send = NoSend /\ msgsRead = NoRead /\ selected \notin stale =>
        ~msgs[selected].pending /\ msgs[selected].n >= owed[selected]

(* The server counts no unread message in the open conversation.  This     *)
(* comes about again and again, also when the request that says so fails   *)
(* or crosses an older list.                                               *)
OpenIsRead == selected # "none" => srv[selected].unread = 0
=============================================================================
