---------------------------- MODULE AgentPreview ----------------------------
(***************************************************************************)
(* The test chat of an AI agent (AgentTestChat.tsx) and the engine behind  *)
(* it (preview-engine.ts): messages are collected while the await timer    *)
(* runs and answered together, with the settings of the moment.            *)
(* A text is what its words match; languages and phrases are left out.     *)
(***************************************************************************)
EXTENDS Integers, Sequences, FiniteSets, FiniteSetsExt, Functions

CONSTANTS
    Message,   \* [intent, topic, labels, stages]: what a text is about and which labels and statuses it names
    Setting,   \* values of the agent's settings
    MaxTurn, MaxSession  \* bounds: messages of the customer, sessions

VARIABLES
    general,   \* the settings in the form, saved or not
    chat,      \* ConversationState
    entries,   \* the messages shown, with their session and number
    queue,     \* messages not answered yet
    timer,     \* the await timer runs
    session,
    answer,    \* history: topic of the last answer, messages that were both answered and remembered, topics it may know
    turns

avars == <<general, chat, entries, queue, timer, session, answer, turns>>

initialConversationState ==
    [status |-> "OPEN", silenced |-> FALSE, assigned |-> FALSE, aiMessageCount |-> 0, welcomed |-> FALSE,
     labels |-> {}, pipelineStatus |-> 0]  \* 0: none, else the place in the pipeline
NoAnswer == [about |-> "none", own |-> {}, allowed |-> {}]
Empty == [intent |-> "none", topic |-> "none", labels |-> {}, stages |-> {}]

TypeOK ==
    /\ general \in Setting /\ chat.status \in {"OPEN", "PENDING"} /\ chat.aiMessageCount \in 0 .. MaxTurn
    /\ chat.silenced \in BOOLEAN /\ chat.assigned \in BOOLEAN /\ chat.welcomed \in BOOLEAN /\ chat.pipelineStatus \in Nat
    /\ \A i \in 1 .. Len(entries) : entries[i].role \in {"customer", "ai"} /\ entries[i].session \in 1 .. session
    /\ \A i \in 1 .. Len(queue) : queue[i].said \in Message
    /\ timer \in BOOLEAN /\ session \in 1 .. MaxSession /\ turns \in 0 .. MaxTurn

Init ==
    /\ general \in Setting /\ chat = initialConversationState /\ entries = <<>> /\ queue = <<>> /\ timer = FALSE
    /\ session = 1 /\ answer = NoAnswer /\ turns = 0

Said(s) == {e.said : e \in Range(s)}

----------------------------------------------------------------------------
(* The engine *)

\* Mutant: the furthest status of the message, wherever the chat is.
AnyStage(g, c, text) == {p \in g.statuses : \E m \in text : p \in m.stages}

\* Statuses further on than the one the chat has; without one it is at the first.
Ahead(g, c, text) == {p \in g.statuses : p > Max({1, c.pipelineStatus}) /\ \E m \in text : p \in m.stages}

applyActions(g, c, text) ==
    LET ahead == Ahead(g, c, text)
    IN  [c EXCEPT !.labels = @ \cup {l \in g.labels : \E m \in text : l \in m.labels},
                  !.pipelineStatus = IF ahead = {} THEN @ ELSE Max(ahead)]

\* A pending chat waits for a human agent.
Waits(g, c) == c.status = "PENDING" /\ (c.silenced \/ g.stopAfterHandoff)

matchesConditions(text) == \E m \in text : m.intent = "transfer"
isGreetingOnly(text) == \A m \in text : m.intent = "greeting"
isThanks(text) == (\E m \in text : m.intent = "thanks") /\ \A m \in text : m.intent \in {"thanks", "greeting"}

Topics(text) == {m.topic : m \in text} \ {"none"}

\* The last k of some places among the entries: slice(-k), with k > 0 (the form takes no limit below 1).
Latest(places, k) == {i \in places : Cardinality({j \in places : j > i}) < k}

\* The last two customer turns of the turns that the agent may remember.
Remembered(g, history) ==
    LET ours == {i \in Latest(history, g.historyLimit) : entries[i].role = "customer"}
    IN  {entries[i].said : i \in Latest(ours, 2)}

\* What rankKnowledge may come to: an entry about one of the topics, or none.  Without an entry, or with
\* two that are as good, the remembered turns are looked at as well.
rankKnowledge(g, text, history) ==
    {"none"} \cup Topics(text)
             \cup (IF Cardinality(Topics(text)) = 1 THEN {} ELSE Topics(Remembered(g, history)))

Result(c, replies, about) == [chat |-> c, replies |-> replies, about |-> about]

\* Mutant: the check for the limit comes a message late.
OneMore(g, c) == c.aiMessageCount > g.messageLimit

LimitReached(g, c) == c.aiMessageCount >= g.messageLimit

\* runPreviewEngine: the possible results.  A welcome and a pending message are not counted.
runPreviewEngine(g, c, text, history) ==
    IF Waits(g, c) THEN {Result(applyActions(g, c, text), IF c.silenced THEN 0 ELSE 1, "none")}
    ELSE IF LimitReached(g, c) THEN {Result(c, 0, "none")}
    ELSE LET welcome == IF c.welcomed \/ ~g.welcome THEN 0 ELSE 1
             acted == [applyActions(g, c, text) EXCEPT !.welcomed = TRUE]
             counted == [acted EXCEPT !.aiMessageCount = @ + 1]
         IN  IF c.status = "OPEN" /\ matchesConditions(text)
             THEN IF g.silentHandoff THEN {Result([acted EXCEPT !.status = "PENDING", !.silenced = TRUE], welcome, "none")}
                  ELSE {Result([counted EXCEPT !.status = "PENDING"], welcome + 1, "none")}
             ELSE IF isGreetingOnly(text)
             THEN IF welcome = 1 THEN {Result(acted, 1, "none")} ELSE {Result(counted, 1, "none")}
             ELSE IF isThanks(text) THEN {Result(counted, welcome + 1, "none")}
             ELSE {Result(counted, welcome + 1, t) : t \in rankKnowledge(g, text, history)}

----------------------------------------------------------------------------
(* The chat *)

send(m) ==
    /\ turns < MaxTurn /\ turns' = turns + 1
    /\ LET e == [role |-> "customer", session |-> session, n |-> turns', said |-> m]
       IN  entries' = Append(entries, e) /\ queue' = Append(queue, e)
    /\ timer' = TRUE
    /\ UNCHANGED <<general, chat, session, answer>>

\* Mutant: the session is not looked at.
AllEntries(g, es, n) == DOMAIN es

\* The places of the entries that count as history.
InMemory(g, es, n) == {i \in DOMAIN es : ~g.sessionOnlyMemory \/ es[i].session = n}

\* Mutant: a message that is answered is taken for history.
AllButFirst(known, incoming) == known \ Latest(known, Len(incoming) - 1)

\* "The messages being answered are the latest customer turns, not history."
Earlier(known, incoming) == known \ Latest(known, Len(incoming))

\* The timer fires.
respond ==
    /\ timer /\ timer' = FALSE /\ queue' = <<>>
    /\ LET known == InMemory(general, entries, session)
           history == Earlier(known, queue)
       IN  \E r \in runPreviewEngine(general, chat, Said(queue), history) :
              /\ chat' = r.chat
              /\ entries' = entries \o [i \in 1 .. r.replies |-> [role |-> "ai", session |-> session, n |-> 0, said |-> Empty]]
              /\ answer' = [about |-> r.about, own |-> {entries[i] : i \in history} \cap Range(queue),
                            allowed |-> Topics({e.said : e \in {x \in Range(entries) : ~general.sessionOnlyMemory \/ x.session = session}})]
    /\ UNCHANGED <<general, session, turns>>

resolve ==
    /\ session < MaxSession /\ session' = session + 1
    /\ timer' = FALSE /\ queue' = <<>> /\ chat' = initialConversationState /\ answer' = NoAnswer
    /\ entries' = IF general.sessionOnlyMemory THEN <<>> ELSE entries
    /\ UNCHANGED <<general, turns>>

\* "Simulate a human agent picking up the chat"
ToggleAssigned ==
    /\ chat.status = "PENDING" /\ chat' = [chat EXCEPT !.assigned = ~@]
    /\ UNCHANGED <<general, entries, queue, timer, session, answer, turns>>

\* GeneralSettingsForm: a setting is changed while the chat goes on.
ChangeSetting(g) ==
    /\ g # general /\ general' = g
    /\ UNCHANGED <<chat, entries, queue, timer, session, answer, turns>>

Next ==
    \/ respond \/ resolve \/ ToggleAssigned
    \/ \E m \in Message : send(m)
    \/ \E g \in Setting : ChangeSetting(g)

----------------------------------------------------------------------------
(* The agent answers from what it may remember: with session-only memory   *)
(* nothing of an earlier session, whenever the setting was turned on, and  *)
(* the messages it answers are never also its memory.                      *)
AnswersFromMemory ==
    answer.own = {} /\ (answer.about # "none" => answer.about \in answer.allowed)

(* A message never waits without the timer that answers it.                *)
QueueIsTimed == queue # <<>> <=> timer

(* After a silent handoff the agent writes nothing until the chat is       *)
(* resolved, whatever the settings become; it never moves a chat back in   *)
(* the pipeline; and it writes no counted message over its limit.          *)
AgentKeepsToSettings ==
    [][/\ chat.silenced /\ chat'.silenced => Len(entries') <= Len(entries) \/ turns' # turns
       /\ session' = session => chat'.pipelineStatus >= chat.pipelineStatus /\ chat.labels \subseteq chat'.labels
       /\ chat'.aiMessageCount > chat.aiMessageCount => chat.aiMessageCount < general.messageLimit]_avars
=============================================================================
