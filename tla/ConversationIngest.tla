------------------------ MODULE ConversationIngest ------------------------
(***************************************************************************)
(* The Conversation Core of one channel: the worker stores customer        *)
(* messages (apps/worker/src/conversations/conversation-ingest.service.ts) *)
(* while agents read, answer, assign and resolve the same conversations    *)
(* (apps/api/src/conversations/conversations.service.ts).                  *)
(*                                                                         *)
(* Transactions are READ COMMITTED: an ingest reads (Lookup, Choose) and   *)
(* commits later, and what it read may be stale by then.  The advisory     *)
(* lock keeps out only ingests of the same sender.  A request of an agent  *)
(* reads the conversation first and writes in a second statement.          *)
(* Conversations are numbered in the order they are created.  Names and    *)
(* contact details (upsertSenderIdentity) are left out: a sender is known  *)
(* once a message of his is stored.                                        *)
(***************************************************************************)
EXTENDS Integers, Sequences, FiniteSetsExt

CONSTANTS Message,        \* inbound messages; each is ingested once (module InboundProcessing)
          Incoming,        \* [Message -> [sender, thread, reply, time]]; thread and reply may be ""
          Agent,          \* active members of the inbox, in the order they joined
          Settings,       \* inbox settings: [method, cap, preferred]; a cap that is not enabled is
                          \* one no agent can reach
          User,           \* requests of agents in progress at the same time
          MaxRequests     \* bound: requests

VARIABLES
    settings,  \* provider_accounts.settings, as readInboxSettings reads them
    conv,      \* conversations, in the order they were created
    at,        \* where the ingest of a message stands
    snap,      \* what it read: the conversation's number (0: none) and its row
    pick,      \* the assignee it chose
    user,      \* a request of an agent: the operation, its conversation and the row it read
    requests,
    resolves,  \* history: [sender -> resolutions of his conversations]
    raced,     \* history: conversations written between an ingest's read and its commit
    overlap    \* history: an agent's load changed between the choice and the commit of an ingest

vars == <<settings, conv, at, snap, pick, user, requests, resolves, raced, overlap>>
history == <<resolves, raced, overlap>>

Sender == {Incoming[m].sender : m \in Message}
AgentSet == {Agent[i] : i \in DOMAIN Agent}
Conversations == DOMAIN conv
NoRow == [sender |-> "", thread |-> "", status |-> "", assignee |-> "", unread |-> 0,
          lastInbound |-> 0, last |-> 0, times |-> {}]
Idle == [op |-> "none", c |-> 0, row |-> NoRow]

TypeOK ==
    /\ \A c \in Conversations : /\ conv[c].sender \in Sender /\ conv[c].unread \in Nat
                                /\ conv[c].status \in {"OPEN", "PENDING", "RESOLVED"}
                                /\ conv[c].assignee \in AgentSet \cup {""}
    /\ at \in [Message -> {"new", "locked", "chosen", "done"}]
    /\ \A m \in Message : at[m] \in {"locked", "chosen"} => snap[m].c \in 0 .. Len(conv)
    /\ requests \in 0 .. MaxRequests

Init ==
    /\ settings \in Settings
    /\ conv = <<>> /\ at = [m \in Message |-> "new"]
    /\ snap = [m \in Message |-> [c |-> 0, row |-> NoRow]] /\ pick = [m \in Message |-> ""]
    /\ user = [u \in User |-> Idle] /\ requests = 0
    /\ resolves = [s \in Sender |-> 0] /\ raced = {} /\ overlap = FALSE

-----------------------------------------------------------------------------
(* ConversationIngestService *)

Open(c) == conv[c].status \in {"OPEN", "PENDING"}

\* Mutant: the advisory lock is taken for the message, not for its sender.
LockAlwaysFree(m) == TRUE

\* pg_advisory_xact_lock(ingest:channel:sender)
LockFree(m) == \A n \in Message : Incoming[n].sender = Incoming[m].sender => at[n] \notin {"locked", "chosen"}

\* The conversations that hold the message with this provider id.
Holding(m) == {c \in Conversations : \E t \in conv[c].times : t.of = m}

\* resolveConversation: an e-mail by its thread or by the message it answers, in any status; a
\* chat by the sender's open or pending conversation, the one with the latest message first.
Candidates(m) ==
    LET in == Incoming[m]
        byThread == {c \in Conversations : conv[c].thread = in.thread}
        chats == {c \in Conversations : conv[c].sender = in.sender /\ Open(c)}
        latest == {c \in chats : \A d \in chats : conv[d].last <= conv[c].last}
    IN IF in.thread = "" THEN latest ELSE IF byThread # {} THEN byThread ELSE Holding(in.reply)

Resolve(m) == IF Candidates(m) = {} THEN 0 ELSE Max(Candidates(m))

Lookup(m) ==
    /\ at[m] = "new" /\ LockFree(m)
    /\ LET c == Resolve(m)
       IN /\ snap' = [snap EXCEPT ![m] = [c |-> c, row |-> IF c = 0 THEN NoRow ELSE conv[c]]]
          /\ at' = [at EXCEPT ![m] = IF c = 0 THEN "locked" ELSE "chosen"]
    /\ UNCHANGED <<settings, conv, pick, user, requests, history>>

Load(a) == Cardinality({c \in Conversations : conv[c].assignee = a /\ Open(c)})

\* Mutant: the cap lets one conversation more through.
AvailableOneMore == {i \in DOMAIN Agent : Load(Agent[i]) <= settings.cap}

Available == {i \in DOMAIN Agent : Load(Agent[i]) < settings.cap}

\* Mutant: round robin goes by the agents' load.
LastAssignedByLoad(a) == Load(a)

\* The number of the latest conversation an agent was given; 0 when there is none.
LastAssigned(a) == Max({0} \cup {c \in Conversations : conv[c].assignee = a})

\* The agent who had the sender's latest conversation, when he may take more.
Previous(s) == {c \in Conversations : conv[c].sender = s /\ conv[c].assignee \in {Agent[i] : i \in Available}}

\* The first in the inbox's order among those with the smallest key.
Least(key(_)) == Agent[Min({i \in Available : \A j \in Available : key(Agent[i]) <= key(Agent[j])})]

\* Mutant: nobody available is not the same as unassigned.
Undefined == "undefined"

Nobody == ""

chooseAssignee(s) ==
    IF settings.method = "MANUAL" \/ Available = {} THEN Nobody
    ELSE IF settings.preferred /\ Previous(s) # {} THEN conv[Max(Previous(s))].assignee
    ELSE IF settings.method = "LEAST_ASSIGNED" THEN Least(Load)
    ELSE Least(LastAssigned)

Choose(m) ==
    /\ at[m] = "locked"
    /\ pick' = [pick EXCEPT ![m] = chooseAssignee(Incoming[m].sender)]
    /\ at' = [at EXCEPT ![m] = "chosen"]
    /\ UNCHANGED <<settings, conv, snap, user, requests, history>>

\* Ingests and requests that read conversation c and have not committed.
Race(c, me) == IF \E m \in Message \ {me} : at[m] = "chosen" /\ snap[m].c = c THEN raced \cup {c} ELSE raced
Choosing(me) == \E m \in Message \ {me} : at[m] = "chosen" /\ snap[m].c = 0

\* Mutant: a late message moves the conversation's times.
IsLatestAlways(read, time) == TRUE

IsLatest(read, time) == read <= time

\* The row after the ingest's UPDATE: unread_count is incremented in the database, everything
\* else is decided from the row the ingest read.
Received(row, read, m) ==
    LET t == Incoming[m].time
    IN [row EXCEPT !.unread = @ + 1,
                   !.times = @ \cup {[of |-> m, time |-> t]},
                   !.lastInbound = IF IsLatest(read.lastInbound, t) THEN t ELSE @,
                   !.last = IF IsLatest(read.last, t) THEN t ELSE @,
                   !.status = IF read.status # "OPEN" THEN "OPEN" ELSE @]

\* The message and the conversation commit; the lock goes with the transaction.
Commit(m) ==
    /\ at[m] = "chosen"
    /\ at' = [at EXCEPT ![m] = "done"]
    /\ LET c == snap[m].c
           new == [NoRow EXCEPT !.sender = Incoming[m].sender, !.thread = Incoming[m].thread,
                                !.status = "OPEN", !.assignee = pick[m]]
       IN IF c = 0
          THEN /\ conv' = Append(conv, Received(new, new, m))
               /\ raced' = raced
               /\ overlap' = (overlap \/ Choosing(m))
          ELSE /\ conv' = [conv EXCEPT ![c] = Received(@, snap[m].row, m)]
               /\ raced' = Race(c, m)
               /\ overlap' = (overlap \/ (conv[c].status = "RESOLVED"))
    /\ UNCHANGED <<settings, snap, pick, user, requests, resolves>>

-----------------------------------------------------------------------------
(* ConversationsService: the row is read and checked, and written in another statement *)

Request(u, op, c) ==
    /\ user[u] = Idle /\ requests < MaxRequests
    /\ requests' = requests + 1
    /\ user' = [user EXCEPT ![u] = [op |-> op, c |-> c, row |-> conv[c]]]
    /\ UNCHANGED <<settings, conv, at, snap, pick, history>>

Written(u) ==
    /\ user' = [user EXCEPT ![u] = Idle]
    /\ raced' = Race(user[u].c, "")
    /\ UNCHANGED <<settings, at, snap, pick, requests>>

\* update: another status
SetStatus(u, s) ==
    /\ user[u].op = "status" /\ user[u].row.status # s
    /\ conv' = [conv EXCEPT ![user[u].c].status = s]
    /\ resolves' = IF s = "RESOLVED" THEN [resolves EXCEPT ![conv[user[u].c].sender] = @ + 1] ELSE resolves
    /\ overlap' = (overlap \/ s # "RESOLVED")
    /\ Written(u)

\* update: another assignee, whatever he has to do already
Assign(u, a) ==
    /\ user[u].op = "assign" /\ user[u].row.assignee # a
    /\ conv' = [conv EXCEPT ![user[u].c].assignee = a]
    /\ overlap' = TRUE
    /\ Written(u)
    /\ UNCHANGED resolves

\* markRead returns at once when the row it read has nothing unread.
MarkRead(u) ==
    /\ user[u].op = "read"
    /\ conv' = IF user[u].row.unread = 0 THEN conv ELSE [conv EXCEPT ![user[u].c].unread = 0]
    /\ Written(u)
    /\ UNCHANGED <<resolves, overlap>>

\* sendMessage: a reply is the latest message, and whoever replies has read the others.
sendMessage(u) ==
    /\ user[u].op = "reply"
    /\ LET now == 1 + Max({0} \cup UNION {{t.time : t \in conv[c].times} : c \in Conversations})
           row == conv[user[u].c]
       IN conv' = [conv EXCEPT ![user[u].c] =
                    [row EXCEPT !.unread = 0, !.last = now, !.times = @ \cup {[of |-> "", time |-> now]}]]
    /\ Written(u)
    /\ UNCHANGED <<resolves, overlap>>

UserStep(u) ==
    \/ \E op \in {"status", "assign", "read", "reply"}, c \in Conversations : Request(u, op, c)
    \/ \E s \in {"OPEN", "PENDING", "RESOLVED"} : SetStatus(u, s)
    \/ \E a \in AgentSet \cup {""} : Assign(u, a)
    \/ MarkRead(u) \/ sendMessage(u)

Next == \/ \E m \in Message : Lookup(m) \/ Choose(m) \/ Commit(m)
        \/ \E u \in User : UserStep(u)

Spec == Init /\ [][Next]_vars

-----------------------------------------------------------------------------
(* Properties *)

\* Two first messages of a sender that arrive together share a conversation: a chat sender has
\* one conversation more than those agents resolved.
OneConversationAtATime ==
    \A s \in Sender : Cardinality({c \in Conversations : conv[c].sender = s /\ conv[c].thread = ""}) <= resolves[s] + 1

\* Distribution honours the cap: no agent gets more open conversations than the limit from
\* ingests that do not overlap and without agents reopening or assigning conversations.
CapHonoured == ~overlap => \A a \in AgentSet : Load(a) <= settings.cap

\* Round robin takes turns: while no cap stops it, ingests do not overlap and nobody reassigns,
\* the agents' shares of the conversations differ by one at most, whatever they resolved.
RoundRobinTakesTurns ==
    LET given(a) == Cardinality({c \in Conversations : conv[c].assignee = a})
    IN settings.method = "ROUND_ROBIN" /\ settings.cap > Cardinality(Message) /\ ~settings.preferred /\ ~overlap
          => \A a, b \in AgentSet : given(a) <= given(b) + 1

\* The conversation list is ordered by the latest message, and the reply window counts from the
\* latest customer message, whatever order the provider delivers in; only a write that committed
\* between an ingest's read and its commit can spoil it.
LastIsLatest ==
    \A c \in Conversations \ raced :
        /\ conv[c].last = Max({t.time : t \in conv[c].times})
        /\ conv[c].lastInbound = Max({t.time : t \in {x \in conv[c].times : x.of # ""}})

\* A customer message reopens pending or resolved threads.
InboundReopens ==
    [][\A m \in Message : at[m] = "chosen" /\ at'[m] = "done" =>
          conv'[IF snap[m].c = 0 THEN Len(conv') ELSE snap[m].c].status = "OPEN"]_vars
=============================================================================
