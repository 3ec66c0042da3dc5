------------------------------ MODULE WebChat ------------------------------
(***************************************************************************)
(* The web chat: the widget on a customer's site                           *)
(* (apps/api/src/webchat/widget-script.ts) polls the API                   *)
(* (webchat.service.ts) for the messages after the last one it has seen,   *)
(* by their created_at.  A row has its created_at when its transaction     *)
(* begins and is visible when it commits, so rows may appear out of order; *)
(* message m is the one whose created_at is m.                             *)
(***************************************************************************)
EXTENDS Naturals, FiniteSets

CONSTANTS
    MaxMsg,     \* bound: rows
    MaxPost,    \* bound: messages the visitor writes
    Text,       \* what the visitor writes
    Take,       \* messages per answer (100 in the code)
    MaxTrouble  \* bound: failed requests and key rotations

Msg == 1 .. MaxMsg
Slot == {1, 2}

VARIABLES
    next,      \* created_at of the next row
    writing,   \* rows whose transaction has begun
    rows,      \* committed rows
    dir, text, \* of a row
    status,    \* messages.status of a row
    overtaken, \* history: rows that were committed after a later one
    visitor,   \* the widget's session: "none", "asking", "good", "stale"
    open,      \* the panel is open
    timer,     \* the next poll is scheduled
    lastSeen, shown, unread,
    bubbles,   \* pending messages on display
    post,      \* the message being sent: its text, or "none"
    accepted,  \* journaled messages that are not rows yet
    posts,     \* messages the visitor wrote
    later,     \* the poll after a post is due
    polls,     \* the requests in flight
    fresh,     \* history: replies that came while the panel was closed
    trouble

wvars == <<next, writing, rows, dir, text, status, overtaken, visitor, open, timer, lastSeen, shown,
           unread, bubbles, post, accepted, posts, later, polls, fresh, trouble>>
server == <<next, writing, rows, dir, text, status, overtaken, accepted>>
display == <<lastSeen, shown, unread, bubbles, fresh>>

NoPoll == [pc |-> "none", after |-> 0, ids |-> {}, chain |-> FALSE]

TypeOK ==
    /\ next \in 1 .. MaxMsg + 1 /\ writing \subseteq Msg /\ rows \subseteq Msg
    /\ dir \in [Msg -> {"IN", "OUT"}] /\ text \in [Msg -> Text]
    /\ status \in [Msg -> {"PENDING", "SENT", "DELIVERED"}]
    /\ overtaken \subseteq Msg
    /\ visitor \in {"none", "asking", "good", "stale"} /\ open \in BOOLEAN /\ timer \in BOOLEAN
    /\ lastSeen \in 0 .. MaxMsg /\ shown \subseteq Msg /\ unread \in 0 .. MaxMsg
    /\ bubbles \subseteq (1 .. MaxPost) \X Text
    /\ post \in Text \cup {"none"} /\ posts \in 0 .. MaxPost /\ later \in BOOLEAN
    /\ \A t \in Text : accepted[t] \in 0 .. MaxPost
    /\ polls \in [Slot -> [pc : {"none", "sent", "answered"}, after : 0 .. MaxMsg, ids : SUBSET Msg, chain : BOOLEAN]]
    /\ fresh \subseteq Msg /\ trouble \in 0 .. MaxTrouble

\* A returning visitor, or one whose browser has nothing stored.
Init ==
    /\ next = 1 /\ writing = {} /\ rows = {} /\ overtaken = {}
    /\ dir = [m \in Msg |-> "OUT"] /\ text = [m \in Msg |-> CHOOSE t \in Text : TRUE] /\ status = [m \in Msg |-> "PENDING"]
    /\ visitor \in {"none", "asking"} /\ open = FALSE /\ timer = FALSE
    /\ lastSeen = 0 /\ shown = {} /\ unread = 0 /\ bubbles = {} /\ fresh = {}
    /\ post = "none" /\ posts = 0 /\ accepted = [t \in Text |-> 0] /\ later = FALSE
    /\ polls = [s \in Slot |-> NoPoll] /\ trouble = 0

----------------------------------------------------------------------------
(* Rows *)

\* An agent replies.
BeginReply ==
    /\ next <= MaxMsg
    /\ writing' = writing \cup {next} /\ next' = next + 1
    /\ dir' = [dir EXCEPT ![next] = "OUT"]
    /\ UNCHANGED <<rows, text, status, overtaken, accepted, display, visitor, open, timer, post, posts, later, polls, trouble>>

\* The worker ingests a journaled message.
BeginInbound(t) ==
    /\ next <= MaxMsg /\ accepted[t] > 0
    /\ accepted' = [accepted EXCEPT ![t] = @ - 1]
    /\ writing' = writing \cup {next} /\ next' = next + 1
    /\ dir' = [dir EXCEPT ![next] = "IN"] /\ text' = [text EXCEPT ![next] = t]
    /\ UNCHANGED <<rows, status, overtaken, display, visitor, open, timer, post, posts, later, polls, trouble>>

Commit(m) ==
    /\ m \in writing
    /\ writing' = writing \ {m} /\ rows' = rows \cup {m}
    /\ overtaken' = IF \E k \in rows : k > m THEN overtaken \cup {m} ELSE overtaken
    /\ UNCHANGED <<next, dir, text, status, accepted, display, visitor, open, timer, post, posts, later, polls, trouble>>

\* The worker has sent the reply, which for the web chat is no call.
MarkSent(m) ==
    /\ m \in rows /\ dir[m] = "OUT" /\ status[m] = "PENDING"
    /\ status' = [status EXCEPT ![m] = "SENT"]
    /\ UNCHANGED <<next, writing, rows, dir, text, overtaken, accepted, display, visitor, open, timer, post, posts, later, polls, trouble>>

----------------------------------------------------------------------------
(* Session *)

Idle == {s \in Slot : polls[s].pc = "none"}
Polling(s, chain) == [polls EXCEPT ![s] = [pc |-> "sent", after |-> lastSeen, ids |-> {}, chain |-> chain]]

\* toggle(true) and the page load: a session first, then a poll that schedules the next.
Open(s) ==
    /\ ~open /\ s \in Idle
    /\ open' = TRUE /\ unread' = 0 /\ fresh' = {}
    /\ IF visitor \in {"good", "stale"} THEN polls' = Polling(s, TRUE) /\ UNCHANGED visitor
       ELSE visitor' = "asking" /\ UNCHANGED polls
    /\ UNCHANGED <<server, timer, lastSeen, shown, bubbles, post, posts, later, trouble>>

Close ==
    /\ open /\ open' = FALSE
    /\ UNCHANGED <<server, display, visitor, timer, post, posts, later, polls, trouble>>

SessionAnswered(s) ==
    /\ visitor = "asking" /\ s \in Idle
    /\ visitor' = "good"
    /\ polls' = Polling(s, TRUE)
    /\ UNCHANGED <<server, display, open, timer, post, posts, later, trouble>>

\* 429, 503 or no answer: nothing is scheduled until the panel is opened again.
SessionFails ==
    /\ visitor = "asking" /\ trouble < MaxTrouble
    /\ visitor' = "none" /\ trouble' = trouble + 1
    /\ UNCHANGED <<server, display, open, timer, post, posts, later, polls>>

\* The API is restarted with another active key: deriveKey signs differently.
KeyRotated ==
    /\ visitor = "good" /\ trouble < MaxTrouble
    /\ visitor' = "stale" /\ trouble' = trouble + 1
    /\ UNCHANGED <<server, display, open, timer, post, posts, later, polls>>

----------------------------------------------------------------------------
(* Polling *)

\* The timer, or the 1.2 seconds after a post.
TimerFires(s) ==
    /\ s \in Idle /\ visitor # "asking"
    /\ \/ timer /\ timer' = FALSE /\ UNCHANGED later
          /\ IF visitor = "none" THEN UNCHANGED polls ELSE polls' = Polling(s, TRUE)
       \/ later /\ later' = FALSE /\ UNCHANGED timer
          /\ IF visitor = "none" THEN UNCHANGED polls ELSE polls' = Polling(s, FALSE)
    /\ UNCHANGED <<server, display, visitor, open, post, posts, trouble>>

\* Mutant: the newest rows.
LatestOf(after) ==
    LET new == {m \in rows : m > after} IN {m \in new : Cardinality({k \in new : k >= m}) <= Take}

\* The oldest rows after `after'.
RowsAfter(after) ==
    LET new == {m \in rows : m > after} IN {m \in new : Cardinality({k \in new : k <= m}) <= Take}

\* messages: what is fetched counts as delivered.
Answer(s) ==
    /\ polls[s].pc = "sent" /\ visitor = "good"
    /\ LET ids == RowsAfter(polls[s].after) IN
         /\ polls' = [polls EXCEPT ![s].pc = "answered", ![s].ids = ids]
         /\ status' = [m \in Msg |-> IF m \in ids /\ status[m] = "SENT" THEN "DELIVERED" ELSE status[m]]
    /\ UNCHANGED <<next, writing, rows, dir, text, overtaken, accepted, display, visitor, open, timer, post, posts, later, trouble>>

\* Mutant: a bubble goes when its own id comes back.
BubblesById(ids) == bubbles

\* A bubble goes when a row with its text comes.
BubblesAfter(ids) == {b \in bubbles : ~\E m \in ids : dir[m] = "IN" /\ text[m] = b[2]}

\* Mutant: a reply that is on display already is counted again.
CountedAgain(ids) == {m \in ids : dir[m] = "OUT"}

\* Replies that are not on display yet.
Counted(ids) == {m \in ids \ shown : dir[m] = "OUT"}

\* Mutant: only a poll that succeeds schedules the next one.
ScheduleAfterSuccess(s) == timer

\* poll() never rejects, so schedule follows.
ScheduleAfterFailure(s) == timer \/ polls[s].chain

Receive(s) ==
    /\ polls[s].pc = "answered"
    /\ LET ids == polls[s].ids IN
         IF ids = {} THEN UNCHANGED display
         ELSE /\ bubbles' = BubblesAfter(ids)
              /\ shown' = shown \cup ids
              /\ unread' = IF open THEN unread ELSE unread + Cardinality(Counted(ids))
              /\ fresh' = IF open THEN fresh ELSE fresh \cup {m \in ids \ shown : dir[m] = "OUT"}
              /\ lastSeen' = CHOOSE m \in ids : \A k \in ids : k <= m
    /\ polls' = [polls EXCEPT ![s] = NoPoll]
    /\ timer' = (timer \/ polls[s].chain)
    /\ UNCHANGED <<server, visitor, open, post, posts, later, trouble>>

\* No answer, or 401 for a token of the old key.
PollFails(s) ==
    /\ polls[s].pc # "none"
    /\ \/ visitor # "good" /\ UNCHANGED trouble
       \/ trouble < MaxTrouble /\ trouble' = trouble + 1
    /\ polls' = [polls EXCEPT ![s] = NoPoll]
    /\ timer' = ScheduleAfterFailure(s)
    /\ UNCHANGED <<server, display, visitor, open, post, posts, later>>

----------------------------------------------------------------------------
(* Writing *)

\* Without a session it asks for one first, and does nothing if that fails.
Submit(t) ==
    /\ open /\ post = "none" /\ visitor # "asking" /\ posts < MaxPost
    /\ visitor' = IF visitor = "none" THEN "good" ELSE visitor
    /\ post' = t /\ posts' = posts + 1
    /\ bubbles' = bubbles \cup {<<posts + 1, t>>}
    /\ UNCHANGED <<server, open, timer, lastSeen, shown, unread, fresh, later, polls, trouble>>

PostAnswered ==
    /\ post # "none" /\ visitor = "good"
    /\ accepted' = [accepted EXCEPT ![post] = @ + 1]
    /\ post' = "none" /\ later' = TRUE
    /\ UNCHANGED <<next, writing, rows, dir, text, status, overtaken, display, visitor, open, timer, posts, polls, trouble>>

\* The visitor sees the error; after a 401 the widget forgets who it was, and the
\* rows of that visitor are not the next one's.
PostFails ==
    /\ post # "none"
    /\ \/ /\ visitor = "stale" /\ visitor' = "none"
          /\ writing' = {} /\ rows' = {} /\ accepted' = [t \in Text |-> 0]
          /\ UNCHANGED <<next, dir, text, status, overtaken, trouble>>
       \/ trouble < MaxTrouble /\ trouble' = trouble + 1 /\ UNCHANGED <<server, visitor>>
    /\ post' = "none"
    /\ UNCHANGED <<display, open, timer, posts, later, polls>>

Next ==
    \/ BeginReply \/ Close \/ SessionFails \/ KeyRotated \/ PostAnswered \/ PostFails
    \/ \E t \in Text : BeginInbound(t) \/ Submit(t)
    \/ \E m \in Msg : Commit(m) \/ MarkSent(m)
    \/ \E s \in Slot : Open(s) \/ SessionAnswered(s) \/ TimerFires(s) \/ Answer(s) \/ Receive(s) \/ PollFails(s)

Spec == Init /\ [][Next]_wvars

----------------------------------------------------------------------------
(* The widget passes over no row, also when polls overlap and their        *)
(* answers arrive in another order, except rows that were committed after  *)
(* a later one.                                                            *)
NothingPassedOver == \A m \in rows \ overtaken : m <= lastSeen => m \in shown

(* The badge counts each reply that came while the panel was closed once,  *)
(* however often it was fetched.                                           *)
UnreadCountsOnce == unread = Cardinality(fresh)

(* A message of the visitor is not on display twice: when all of its texts *)
(* are shown as rows, no bubble with that text is left from an accepted    *)
(* message.                                                                *)
OwnMessageOnce ==
    \A t \in Text :
      (/\ accepted[t] = 0 /\ post # t /\ \A m \in rows \cup writing : dir[m] = "IN" /\ text[m] = t => m \in shown
       /\ trouble = 0 /\ \E m \in shown : dir[m] = "IN" /\ text[m] = t)
      => ~\E b \in bubbles : b[2] = t

(* Once the widget has begun to poll it goes on, whatever fails; only a    *)
(* session that the widget gave up stops it.                               *)
Scheduled == timer \/ \E s \in Slot : polls[s].chain
PollingGoesOn == [][Scheduled /\ visitor # "none" => Scheduled']_wvars
=============================================================================
