-------------------------- MODULE TelegramUpdates --------------------------
(***************************************************************************)
(* A Telegram bot gets its updates by webhook or by polling                *)
(* (telegram-bot.adapter.ts; channels.service.ts, registerInbound).        *)
(* Telegram keeps an update until a webhook call for it got a 200 or a     *)
(* getUpdates call names a higher offset.  The API is restarted with and   *)
(* without a public HTTPS URL, the channel is reconnected, calls fail and  *)
(* answers are lost.                                                       *)
(***************************************************************************)
EXTENDS Naturals

CONSTANTS PollLimit,  \* updates of a getUpdates call (100 in the code)
          MaxUpdate,  \* bound: updates
          MaxTrouble  \* bound: restarts and failures

VARIABLES
    https,     \* PUBLIC_WEBHOOK_BASE_URL is an HTTPS address
    mode,      \* config.inboundMode
    note,      \* config.setupNote is set
    webhook,   \* what Telegram calls: "none", or "set"
    joining,   \* registerInbound: "no", "call" (before the provider call), "save"
    result,    \* of the call: a note is due
    queue,     \* updates Telegram still keeps
    latest,    \* number of the newest update
    offset,    \* sync_state.offset, 0 for none
    asked,     \* a getUpdates call: its offset and what it returned
    journaled, \* update ids in the journal
    trouble

vars == <<https, mode, note, webhook, joining, result, queue, latest, offset, asked, journaled, trouble>>

NoCall == [pc |-> "idle", offset |-> 0, ids |-> {}]

TypeOK ==
    /\ {https, note, result} \subseteq BOOLEAN
    /\ mode \in {"WEBHOOK", "POLLING"} /\ webhook \in {"none", "set"} /\ joining \in {"no", "call", "save"}
    /\ queue \subseteq 1 .. latest /\ journaled \subseteq 1 .. latest /\ latest \in 0 .. MaxUpdate
    /\ offset \in 0 .. MaxUpdate + 1 /\ asked.pc \in {"idle", "asked", "answered"}
    /\ trouble \in 0 .. MaxTrouble

\* A new channel: its row is written, its webhook is not.
Init ==
    /\ https \in BOOLEAN
    /\ mode = (IF https THEN "WEBHOOK" ELSE "POLLING")
    /\ note = FALSE /\ webhook = "none" /\ joining = "call" /\ result = FALSE
    /\ queue = {} /\ latest = 0 /\ offset = 0 /\ asked = NoCall /\ journaled = {} /\ trouble = 0

rowVars == <<mode, note, offset>>
pollVars == <<asked, journaled>>

NewUpdate ==
    /\ latest < MaxUpdate
    /\ latest' = latest + 1
    /\ queue' = queue \cup {latest'}
    /\ UNCHANGED <<https, rowVars, webhook, joining, result, pollVars, trouble>>

----------------------------------------------------------------------------
(* Connecting *)

\* Mutant: deleteWebhook with drop_pending_updates.
QueueDropped == {}

\* drop_pending_updates: false.
QueueAfterDelete == queue

\* setWebhook, or deleteWebhook so that polling is not blocked by an old webhook;
\* the note is for the admin.
registerWebhook ==
    /\ joining = "call"
    /\ IF https THEN webhook' = "set" /\ result' = FALSE /\ UNCHANGED queue
       ELSE webhook' = "none" /\ result' = TRUE /\ queue' = QueueAfterDelete
    /\ joining' = "save"
    /\ UNCHANGED <<https, rowVars, latest, pollVars, trouble>>

\* Mutant: a failed registration leaves no note.
NoteUnset == FALSE

\* "Failures do not undo the connection; they become a setup note".
NoteOfFailure == TRUE

RegisterFails ==
    /\ joining = "call" /\ trouble < MaxTrouble
    /\ trouble' = trouble + 1
    /\ result' = NoteOfFailure
    /\ joining' = "save"
    /\ UNCHANGED <<https, rowVars, webhook, queue, latest, pollVars>>

registerInbound ==
    /\ joining = "save"
    /\ note' = result
    /\ joining' = "no"
    /\ UNCHANGED <<https, mode, offset, webhook, result, queue, latest, pollVars, trouble>>

\* The API restarts with the other kind of URL and the channel is connected
\* again; buildConfig clears the note.  The cursor stays.
Reconnect ==
    /\ joining = "no" /\ trouble < MaxTrouble
    /\ trouble' = trouble + 1
    /\ https' \in BOOLEAN
    /\ mode' = IF https' THEN "WEBHOOK" ELSE "POLLING"
    /\ note' = FALSE
    /\ joining' = "call"
    /\ UNCHANGED <<offset, webhook, result, queue, latest, pollVars>>

\* Somebody else with the bot's token removes the webhook.
WebhookRemoved ==
    /\ webhook = "set" /\ trouble < MaxTrouble
    /\ trouble' = trouble + 1
    /\ webhook' = "none"
    /\ UNCHANGED <<https, rowVars, joining, result, queue, latest, pollVars>>

----------------------------------------------------------------------------
(* Webhook and polling *)

\* Telegram calls with its oldest update, which is journaled; the 200 may be lost.
Webhook(answered) ==
    /\ webhook = "set" /\ https /\ queue # {}
    /\ LET u == CHOOSE x \in queue : \A y \in queue : x <= y IN
         /\ journaled' = journaled \cup {u}
         /\ queue' = IF answered THEN queue \ {u} ELSE queue
    /\ answered \/ trouble < MaxTrouble
    /\ trouble' = IF answered THEN trouble ELSE trouble + 1
    /\ UNCHANGED <<https, rowVars, webhook, joining, result, latest, asked>>

PollStarts ==
    /\ mode = "POLLING" /\ asked.pc = "idle"
    /\ asked' = [NoCall EXCEPT !.pc = "asked", !.offset = offset]
    /\ UNCHANGED <<https, rowVars, webhook, joining, result, queue, latest, journaled, trouble>>

\* getUpdates forgets what is below the offset and returns the oldest of the
\* rest; with a webhook it answers 409 and the poll ends.
getUpdates ==
    /\ asked.pc = "asked"
    /\ IF webhook = "set" THEN asked' = NoCall /\ UNCHANGED queue
       ELSE LET kept == {u \in queue : u >= asked.offset} IN
              /\ queue' = kept
              /\ asked' = [asked EXCEPT !.pc = "answered",
                             !.ids = {u \in kept : \A v \in kept : v <= u => u < v + PollLimit}]
    /\ UNCHANGED <<https, rowVars, webhook, joining, result, latest, journaled, trouble>>

\* Mutant: one too many.
NextOffsetPast(ids) == IF ids = {} THEN offset ELSE (CHOOSE x \in ids : \A y \in ids : y <= x) + 2

\* The newest update that came, plus one.
NextOffset(ids) == IF ids = {} THEN asked.offset ELSE (CHOOSE x \in ids : \A y \in ids : y <= x) + 1

\* One transaction journals the updates and saves the offset.
PollSaved ==
    /\ asked.pc = "answered"
    /\ journaled' = journaled \cup asked.ids
    /\ offset' = NextOffset(asked.ids)
    /\ asked' = NoCall
    /\ UNCHANGED <<https, mode, note, webhook, joining, result, queue, latest, trouble>>

PollFails ==
    /\ asked.pc # "idle" /\ trouble < MaxTrouble
    /\ trouble' = trouble + 1
    /\ asked' = NoCall
    /\ UNCHANGED <<https, rowVars, webhook, joining, result, queue, latest, journaled>>

Next ==
    \/ NewUpdate \/ registerWebhook \/ RegisterFails \/ registerInbound \/ Reconnect \/ WebhookRemoved
    \/ \E answered \in BOOLEAN : Webhook(answered)
    \/ PollStarts \/ getUpdates \/ PollSaved \/ PollFails

Spec == Init /\ [][Next]_vars

----------------------------------------------------------------------------
(* Properties *)

\* An update is journaled or Telegram still has it, across lost answers, failed
\* polls and every switch between webhook and polling.
NoUpdateLost == 1 .. latest \subseteq queue \cup journaled

\* Mutant: the webhook is not looked at.
HealthyWithoutWebhook == TRUE

\* healthCheck: a channel in webhook mode needs one.
Healthy == ~(mode = "WEBHOOK" /\ webhook = "none")

\* A connected channel that no update can reach shows it: healthCheck fails, or
\* the failed registration left a note.
SilenceIsVisible ==
    (joining = "no" /\ queue # {} /\ ~(webhook = "set" /\ https) /\ ~(mode = "POLLING" /\ webhook = "none"))
        => ~Healthy \/ note
=============================================================================
