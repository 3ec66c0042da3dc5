----------------------------- MODULE InboxPages -----------------------------
(***************************************************************************)
(* Reading the inbox page by page while it changes: conversations, newest  *)
(* first, from a cursor that names a row (conversations.service.ts: list), *)
(* and the history of a conversation, from a cursor that names a moment    *)
(* (listMessages).                                                         *)
(***************************************************************************)
EXTENDS Naturals, FiniteSets, Sequences

CONSTANTS
    Conversation,   \* ids: natural numbers
    PageLimit,      \* query.limit
    MaxMoment,      \* bound on the clock
    MaxMessage      \* bound on the messages

VARIABLES
    moment,         \* the clock; several rows may carry one value
    lastMessageAt,  \* of each conversation
    matching,       \* conversations the query's filters select
    cursor,         \* id of the last row of the previous page, 0 before the first
    listed,         \* conversations the walk has shown
    quiet,          \* selected since the walk began, with no new message
    createdAt,      \* messages of one conversation in the order of their ids
    before,         \* cursor of the history: [at, id]
    history,        \* ids the reader has been shown, newest page first
    known,          \* messages there when the reader began
    ended           \* walks that received a page without a next cursor

pvars == <<moment, lastMessageAt, matching, cursor, listed, quiet, createdAt, before, history, known, ended>>

NoMoment == [at |-> MaxMoment + 1, id |-> 0]

TypeOK ==
    /\ moment \in 0..MaxMoment /\ lastMessageAt \in [Conversation -> 0..MaxMoment]
    /\ matching \subseteq Conversation /\ cursor \in Conversation \cup {0}
    /\ listed \subseteq Conversation /\ quiet \subseteq matching
    /\ \A m \in DOMAIN createdAt : createdAt[m] \in 0..MaxMoment
    /\ known \subseteq 1..MaxMessage /\ ended \subseteq {"list", "history"}

Init ==
    /\ moment = 0 /\ lastMessageAt = [c \in Conversation |-> 0] /\ matching = Conversation
    /\ cursor = 0 /\ listed = {} /\ quiet = Conversation
    /\ \E n \in 0..MaxMessage : createdAt = [m \in 1..n |-> 0] /\ known = 1..n
    /\ before = NoMoment /\ history = <<>> /\ ended = {}

Tick ==
    /\ moment < MaxMoment
    /\ moment' = moment + 1
    /\ UNCHANGED <<lastMessageAt, matching, cursor, listed, quiet, createdAt, before, history, known, ended>>

-----------------------------------------------------------------------------
(* Conversations. *)

NewMessage(c) ==
    /\ lastMessageAt' = [lastMessageAt EXCEPT ![c] = moment]
    /\ quiet' = quiet \ {c}
    /\ UNCHANGED <<moment, matching, cursor, listed, createdAt, before, history, known, ended>>

\* It is resolved, reopened or assigned, and enters or leaves the filter.
Changed(c) ==
    /\ matching' = IF c \in matching THEN matching \ {c} ELSE matching \cup {c}
    /\ quiet' = quiet \ {c}
    /\ UNCHANGED <<moment, lastMessageAt, cursor, listed, createdAt, before, history, known, ended>>

\* orderBy: lastMessageAt descending, then id descending.
BelowInTime(c, d) == lastMessageAt[c] < lastMessageAt[d]
Below(c, d) ==
    \/ lastMessageAt[c] < lastMessageAt[d]
    \/ lastMessageAt[c] = lastMessageAt[d] /\ c < d

\* The rows below the cursor row, where that row is now.
Remaining == {c \in matching : cursor = 0 \/ Below(c, cursor)}

\* list: one row more than the limit tells whether there is another page.
List ==
    /\ "list" \notin ended
    /\ \E page \in SUBSET Remaining :
        /\ Cardinality(page) <= PageLimit
        /\ Cardinality(page) = PageLimit \/ page = Remaining
        /\ \A c \in page, d \in Remaining \ page : ~Below(c, d)
        /\ listed' = listed \cup page
        /\ IF Cardinality(Remaining) > PageLimit
           THEN /\ cursor' \in {c \in page : \A d \in page \ {c} : ~Below(d, c)}
                /\ UNCHANGED ended
           ELSE ended' = ended \cup {"list"} /\ UNCHANGED cursor
    /\ UNCHANGED <<moment, lastMessageAt, matching, quiet, createdAt, before, history, known>>

-----------------------------------------------------------------------------
(* The history of a conversation. *)

Arrives ==
    /\ Len(createdAt) < MaxMessage
    /\ createdAt' = Append(createdAt, moment)
    /\ UNCHANGED <<moment, lastMessageAt, matching, cursor, listed, quiet, before, history, known, ended>>

\* where: created before the cursor's moment, or then with a smaller id.
OlderInTime(m) == createdAt[m] < before.at
Older(m) == createdAt[m] < before.at \/ (createdAt[m] = before.at /\ m < before.id)

\* orderBy createdAt, id: ids are handed out in the order of time.
Newest(S, n) == {m \in S : Cardinality({k \in S : k > m}) < n}
Descending(S) == [k \in 1..Cardinality(S) |-> CHOOSE m \in S : Cardinality({x \in S : x > m}) = k - 1]

listMessages ==
    /\ "history" \notin ended
    /\ LET older == {m \in DOMAIN createdAt : Older(m)}
           page == Newest(older, PageLimit)
       IN  /\ history' = history \o Descending(page)
           /\ IF Cardinality(older) > PageLimit
              THEN LET last == CHOOSE m \in page : \A k \in page : m <= k
                   IN  before' = [at |-> createdAt[last], id |-> last] /\ UNCHANGED ended
              ELSE ended' = ended \cup {"history"} /\ UNCHANGED before
    /\ UNCHANGED <<moment, lastMessageAt, matching, cursor, listed, quiet, createdAt, known>>

Next ==
    \/ Tick \/ List \/ Arrives \/ listMessages
    \/ \E c \in Conversation : NewMessage(c) \/ Changed(c)

Spec == Init /\ [][Next]_pvars

-----------------------------------------------------------------------------
(* A reader who follows the cursors to the end has seen every conversation *)
(* that stayed in the filter and received nothing meanwhile, although      *)
(* others, the cursor's own included, moved to the top. *)
WalkShowsTheQuiet == "list" \in ended => quiet \subseteq listed

(* Paging back through a history shows each message once, and by the end   *)
(* all that were there at the start, also those of one instant. *)
HistoryShownOnce ==
    /\ \A i, j \in DOMAIN history : i < j => history[i] > history[j]
    /\ "history" \in ended => known \subseteq {history[i] : i \in DOMAIN history}
=============================================================================
