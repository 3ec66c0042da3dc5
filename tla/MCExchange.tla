----------------------------- MODULE MCExchange -----------------------------
(***************************************************************************)
(* What comes in from the channels and what goes out, each question in a   *)
(* part of its own: what a webhook call is turned into, what polls of a    *)
(* mailbox and of Telegram fetch, what becomes of a reply, how an account  *)
(* is registered, what opens its credentials, and the conversations that   *)
(* the messages end up in.                                                 *)
(***************************************************************************)
EXTENDS Naturals, Sequences, FiniteSets

CONSTANTS Customer, Reply, MaxEvents, MessageIds, LongId, PollBatch, MaxMail, MaxRebuild, MaxFail,
          PollLimit, MaxUpdate, MaxTrouble, Attempts, Limit, MaxToggle, Process, Account, MaxKey, MaxSecret,
          Messages, Members, InboxSettings, User, MaxRequests, MAX_EMAIL_REFERENCES, MaxLetter, MaxWaiting, MaxNew

\* There is a first key, and the bounds are numbers.
ASSUME BoundsAssumption == MaxKey \in Nat \ {0} /\ {MaxSecret, Limit, MaxToggle} \subseteq Nat
ASSUME UpdatesAssumption == {PollLimit, MaxUpdate, MaxTrouble} \subseteq Nat
ASSUME MailAssumption == {PollBatch, MaxMail, MaxRebuild, MaxFail} \subseteq Nat /\ 0 \notin LongId
ASSUME InboundAssumption == MaxEvents \in Nat
ASSUME SendAssumption == Attempts \in Nat \ {0}

\* Messages have a time, the inbox has an order, and "" stands for no message and no agent.
ASSUME ConversationsAssumption ==
    /\ IsFiniteSet(DOMAIN Messages) /\ "" \notin DOMAIN Messages /\ \A m \in DOMAIN Messages : Messages[m].time \in Nat
    /\ DOMAIN Members = 1 .. Len(Members) /\ Len(Members) \in Nat /\ \A i \in DOMAIN Members : Members[i] # ""
    /\ \A s \in InboxSettings : s.cap \in Nat
    /\ MaxRequests \in Nat
ASSUME LettersAssumption == {MAX_EMAIL_REFERENCES, MaxLetter, MaxWaiting, MaxNew} \subseteq Nat

VARIABLES part,
    provider, happened, delivered, journal, pending, stored, receipts,
    validity, uidNext, mails, arrivedMail, cursorAt, poll, keys, saved, failed,
    https, mode, note, webhook, joining, result, queue, latest, offset, asked, journaled, trouble,
    sender, content, made, calls, taken, copies, outcome, seen, blamed,
    platform, entered, stage, console, toggles, registered, told, healthy, file, read,
    env, ring, sealed, opened, secrets,
    settings, conv, at, snap, pick, user, requests, resolves, raced, overlap,
    letters, threads, filed, processed, strayed

Inbound == INSTANCE InboundAdapters
Mail == INSTANCE Mailbox
Updates == INSTANCE TelegramUpdates
Sending == INSTANCE OutboundAdapters WITH provider <- sender
Accounts == INSTANCE AdapterAccounts
Keys == INSTANCE KeyRotation
Core == INSTANCE ConversationIngest
            WITH Message <- DOMAIN Messages, Incoming <- Messages, Agent <- Members, Settings <- InboxSettings
Threads == INSTANCE EmailThreads

\* The messages, agents and settings that TLC checks the conversations with.
Sample == INSTANCE MCConversations
MCInbound == Sample!MCInbound
MCAgent == Sample!MCAgent
MCSettings == Sample!MCSettings

ivars == <<provider, happened, delivered, journal, pending, stored, receipts>>
mvars == <<validity, uidNext, mails, arrivedMail, cursorAt, poll, keys, saved, failed>>
uvars == <<https, mode, note, webhook, joining, result, queue, latest, offset, asked, journaled, trouble>>
svars == <<sender, content, made, calls, taken, copies, outcome, seen, blamed>>
avars == <<platform, entered, stage, console, toggles, registered, told, healthy, file, read>>
kvars == <<env, ring, sealed, opened, secrets>>
cvars == <<settings, conv, at, snap, pick, user, requests, resolves, raced, overlap>>
tvars == <<letters, threads, filed, processed, strayed>>
vars == <<part, ivars, mvars, uvars, svars, avars, kvars, cvars, tvars>>

\* The parts that a behaviour is not about start in one of their states.
Init ==
    /\ part \in {"inbound", "mail", "updates", "sending", "accounts", "keys", "core", "threads"}
    /\ Inbound!Init /\ (part = "inbound" \/ provider = "LINE")
    /\ Mail!Init
    /\ Updates!Init /\ (part = "updates" \/ https)
    /\ Sending!Init /\ (part = "sending" \/ (sender = "LINE" /\ content = "TEXT"))
    /\ Accounts!Init
    /\ part = "accounts" \/ /\ platform = "WHATSAPP"
                            /\ entered = [token |-> "own", id |-> "own", business |-> "own"]
    /\ Keys!Init
    /\ Core!Init /\ (part = "core" \/ settings.method = "MANUAL")
    /\ Threads!Init

Next ==
    /\ UNCHANGED part
    /\ \/ part = "inbound" /\ Inbound!Next /\ UNCHANGED <<mvars, uvars, svars, avars, kvars, cvars, tvars>>
       \/ part = "mail" /\ Mail!Next /\ UNCHANGED <<ivars, uvars, svars, avars, kvars, cvars, tvars>>
       \/ part = "updates" /\ Updates!Next /\ UNCHANGED <<ivars, mvars, svars, avars, kvars, cvars, tvars>>
       \/ part = "sending" /\ Sending!Next /\ UNCHANGED <<ivars, mvars, uvars, avars, kvars, cvars, tvars>>
       \/ part = "accounts" /\ Accounts!Next /\ UNCHANGED <<ivars, mvars, uvars, svars, kvars, cvars, tvars>>
       \/ part = "keys" /\ Keys!Next /\ UNCHANGED <<ivars, mvars, uvars, svars, avars, cvars, tvars>>
       \/ part = "core" /\ Core!Next /\ UNCHANGED <<ivars, mvars, uvars, svars, avars, kvars, tvars>>
       \/ part = "threads" /\ Threads!Next /\ UNCHANGED <<ivars, mvars, uvars, svars, avars, kvars, cvars>>

Spec == Init /\ [][Next]_vars

(* What customers send becomes rows as it was sent: two actions are never one row, no report is  *)
(* lost to another's key, quotes find their message, echoes stay out, offered media can be       *)
(* opened.                                                                                       *)
InboundIsFaithful ==
    part = "inbound" =>
        /\ Inbound!TypeOK
        /\ Inbound!EachActionItsOwnRow /\ Inbound!EveryReportCounts /\ Inbound!QuotesFindTheirMessage
        /\ Inbound!OnlyCustomersAreStored /\ Inbound!OfferedMediaCanBeOpened

(* What is fetched is fetched once and completely: no mail below the cursor and no Telegram      *)
(* update is passed over, old mail stays out, no two mails share a key, and a Telegram channel   *)
(* that receives nothing says so.                                                                *)
NothingFetchedIsLost ==
    /\ part = "mail" => /\ Mail!TypeOK
                        /\ Mail!NoMailPassedOver /\ Mail!OldMailStaysOut /\ Mail!EachMailItsOwnEvent
    /\ part = "updates" => Updates!TypeOK /\ Updates!NoUpdateLost /\ Updates!SilenceIsVisible

(* A failure is blamed on what failed: a channel is to be reconnected only when its credentials  *)
(* are at fault, a reply is given up early only for a reason that a retry cannot cure, what an   *)
(* adapter cannot send is refused without a call, and LINE takes a retried reply once.           *)
FailuresAreUnderstood ==
    part = "sending" =>
        /\ Sending!TypeOK
        /\ Sending!LineSendsOnce /\ Sending!ReconnectMeansCredentials
        /\ Sending!GivenUpForAReason /\ Sending!RefusedWithoutCall

(* An account that is connected can be used: its identifiers belong together, downloads stay     *)
(* within the limit, and processes with the deployed keys open every envelope.                   *)
AccountsAreUsable ==
    /\ part = "accounts" => /\ Accounts!TypeOK
                            /\ Accounts!IdentifiersBelongTogether /\ Accounts!HeldWithinLimit
    /\ part = "keys" => Keys!TypeOK /\ Keys!CurrentRingOpensAll

(* A chat sender has one unresolved conversation, its last message is the latest, automatic      *)
(* assignment honours the limit of an agent and round robin gives every agent a turn; an answer  *)
(* by e-mail is stored with the letter it answers, even when that reply was never recorded.      *)
ConversationsAreInOrder ==
    /\ part = "core" => /\ Core!TypeOK
                        /\ Core!OneConversationAtATime /\ Core!CapHonoured
                        /\ Core!RoundRobinTakesTurns /\ Core!LastIsLatest
    /\ part = "threads" => /\ Threads!TypeOK
                           /\ Threads!AnswersJoinTheirLetter /\ Threads!FirstReferenceIsEnough

(* A webhook is reported as registered only when it is called, and generated secrets, which      *)
(* providers were told, survive a reconnect.                                                     *)
SetupStaysTrue == Accounts!RegisteredIsCalled /\ Keys!SecretsSurviveReconnect
=============================================================================
