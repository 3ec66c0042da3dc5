-------------------------- MODULE InboundAdapters --------------------------
(***************************************************************************)
(* What the channel adapters make of a provider's webhook payloads         *)
(* (packages/channel-adapters/src/providers): extractEvents gives every    *)
(* native event the key it is journaled under, normalizeInbound turns the  *)
(* journaled payload into a message, receipts, or nothing.                 *)
(*                                                                         *)
(* A native event is what happened at the provider: n is its number there  *)
(* (update id, webhook event id, timestamp), id the number of the message  *)
(* in the provider's own scope (per chat for TELEGRAM, per visitor for     *)
(* WEBCHAT), about the earlier message it quotes or reacts to, or the      *)
(* reply it reports on.  Colon-joined strings are tuples.  The journal     *)
(* keeps the first payload of a key and the messages table the first row   *)
(* of a provider message id (module InboundProcessing has the details);    *)
(* META is Messenger and Instagram.                                        *)
(***************************************************************************)
EXTENDS Naturals, FiniteSets

CONSTANTS Customer,
          Reply,     \* numbers of outbound messages the provider accepted
          MaxEvents  \* bound: native events

VARIABLES
    provider,
    happened,  \* native events
    delivered, \* native events some webhook call brought
    journal,   \* provider_events: pairs of key and payload
    pending,   \* keys whose job has not run
    stored,    \* messages rows made from customer messages
    receipts   \* delivery receipts handed to the Conversation Core

vars == <<provider, happened, delivered, journal, pending, stored, receipts>>

Provider == {"WHATSAPP", "TELEGRAM", "LINE", "META", "CUSTOM", "WEBCHAT"}
Bodies == [WHATSAPP |-> {"text", "image", "lostmedia", "contacts", "nocontacts", "order"},
           TELEGRAM |-> {"text", "photo", "venue", "contact", "poll"},
           LINE |-> {"text", "image", "file", "sticker"},
           META |-> {"text", "quick_reply", "image", "nourl", "location"},
           CUSTOM |-> {"text", "notext"},
           WEBCHAT |-> {"text", "notext"}]
Others == [WHATSAPP |-> {"reaction", "status"},
           TELEGRAM |-> {"callback", "edited", "group"},
           LINE |-> {"postback", "group", "follow"},
           META |-> {"echo", "postback", "oldpostback", "reaction", "delivery", "read"},
           CUSTOM |-> {"status"},
           WEBCHAT |-> {}]
States == [WHATSAPP |-> {"sent", "delivered", "read", "failed", "warning"},
           META |-> {"mids", "watermark"},
           CUSTOM |-> {"delivered", "failed", "unknown"}]
Kinds == {"message"} \cup UNION {Others[p] : p \in Provider}
Written == UNION {Bodies[p] : p \in Provider}
Reported == UNION {States[p] : p \in DOMAIN States}
Whats == {"react", "unreact", "press"} \cup Written \cup Reported
Native == [kind : Kinds, from : Customer, n : 1 .. MaxEvents, id : 1 .. MaxEvents,
           what : Whats, about : (0 .. MaxEvents) \cup Reply]

TypeOK ==
    /\ provider \in Provider
    /\ happened \subseteq Native /\ delivered \subseteq happened
    /\ \A j \in journal : j.payload \in delivered
    /\ pending \subseteq {j.key : j \in journal}
    /\ \A r \in stored : r.of \in happened
    /\ \A r \in receipts : r.reply \in Reply /\ r.status \in {"SENT", "DELIVERED", "READ", "FAILED"}

Init ==
    /\ provider \in Provider
    /\ happened = {} /\ delivered = {} /\ journal = {} /\ pending = {}
    /\ stored = {} /\ receipts = {}

----------------------------------------------------------------------------
(* extractEvents *)

\* Mutant: the states of a message share one key.
whatsappKeyOfMessage(e) == IF e.kind = "status" THEN <<"status", e.about>> ELSE <<"msg", e.id>>

\* A status has a key per state; everything else is in messages[].
whatsappKey(e) == IF e.kind = "status" THEN <<"status", e.about, e.what>> ELSE <<"msg", e.id>>

telegramKey(e) == <<"update", e.n>>

lineKey(e) == <<"event", e.n>>

\* Mutant: every receipt of a customer has the same key.
metaReceiptKeyOfSender(e) == <<e.kind, e.from>>

\* The watermark is the time of the receipt.
metaReceiptKey(e) == <<e.kind, e.from, e.n>>

metaKey(e) ==
    CASE e.kind \in {"message", "echo"} -> <<"mid", e.id>>
      [] e.kind = "postback"            -> <<"postback", e.id>>
      [] e.kind = "oldpostback"         -> <<"postback", e.from, e.n>>
      [] e.kind \in {"delivery", "read"} -> metaReceiptKey(e)
      [] e.kind = "reaction"            -> <<"reaction", e.about, e.from, e.what, e.n>>

customKey(e) == IF e.kind = "status" THEN <<"status", e.about, e.what>> ELSE <<"msg", e.id>>

\* Mutant: the visitor is not part of the key.
webchatKeyOfMessage(e) == <<"msg", e.id>>

webchatKey(e) == <<"msg", e.from, e.id>>

Key(e) == CASE provider = "WHATSAPP" -> whatsappKey(e)
            [] provider = "TELEGRAM" -> telegramKey(e)
            [] provider = "LINE"     -> lineKey(e)
            [] provider = "META"     -> metaKey(e)
            [] provider = "CUSTOM"   -> customKey(e)
            [] provider = "WEBCHAT"  -> webchatKey(e)

\* Mutant: an echo of the business's own message is taken for the customer's.
EchoExtracted(e) == TRUE

\* Echoes are messages the business sent from another app.
Extracted(e) == e.kind # "echo"

----------------------------------------------------------------------------
(* normalizeInbound: content *)

Plain(type) == [type |-> type, ref |-> "none"]
Media(ref) == [type |-> "MEDIA", ref |-> ref]

normalizeWhatsAppContent ==
    [text |-> Plain("TEXT"), image |-> Media("id"), lostmedia |-> Media("none"),
     contacts |-> Plain("CONTACT"), nocontacts |-> Plain("UNSUPPORTED"),
     order |-> Plain("UNSUPPORTED")]

normalizeTelegramContent ==
    [text |-> Plain("TEXT"), photo |-> Media("id"), venue |-> Plain("LOCATION"),
     contact |-> Plain("CONTACT"), poll |-> Plain("UNSUPPORTED")]

\* Mutant: the content address stands for the message id.
normalizeLineContentByUrl ==
    [text |-> Plain("TEXT"), image |-> Media("url"), file |-> Media("url"),
     sticker |-> Plain("UNSUPPORTED")]

\* LINE's files are fetched by the id of their message.
normalizeLineContent ==
    [text |-> Plain("TEXT"), image |-> Media("id"), file |-> Media("id"),
     sticker |-> Plain("UNSUPPORTED")]

\* An attachment without a URL is no MEDIA.
normalizeMessagingContent ==
    [text |-> Plain("TEXT"), quick_reply |-> Plain("INTERACTIVE"), image |-> Media("url"),
     nourl |-> Plain("UNSUPPORTED"), location |-> Plain("LOCATION")]

\* What downloadMedia cannot do without: the provider's media id or a URL.
DownloadedBy == [WHATSAPP |-> "id", TELEGRAM |-> "id", LINE |-> "id", META |-> "url"]

Content(e) ==
    CASE e.kind = "reaction" -> Plain("REACTION")
      [] e.kind \in {"postback", "oldpostback", "callback"} -> Plain("INTERACTIVE")
      [] e.kind = "message" /\ provider = "WHATSAPP" -> normalizeWhatsAppContent[e.what]
      [] e.kind = "message" /\ provider = "TELEGRAM" -> normalizeTelegramContent[e.what]
      [] e.kind = "message" /\ provider = "LINE" -> normalizeLineContent[e.what]
      [] e.kind = "message" /\ provider = "META" -> normalizeMessagingContent[e.what]
      [] e.kind = "echo" -> Plain("TEXT")
      [] e.kind = "message" /\ provider \in {"CUSTOM", "WEBCHAT"} -> Plain("TEXT")

----------------------------------------------------------------------------
(* normalizeInbound: identity.  NoMessage stands for IGNORED. *)

NoMessage == <<"ignored">>

whatsappMessageId(e) == <<"wamid", e.id>>

\* Mutant: the message id alone names a message of every chat.
telegramMessageIdOnly(chat, id) == <<"chat", id>>

\* Message ids are unique in their chat only.
telegramMessageId(chat, id) == <<"chat", chat, id>>

\* Edits, channel posts and groups are not synced.
normalizeTelegram(e) ==
    CASE e.kind = "callback" -> <<"callback", e.n>>
      [] e.kind = "message"  -> telegramMessageId(e.from, e.id)
      [] OTHER               -> NoMessage

normalizeLine(e) ==
    CASE e.kind = "message"  -> <<"line", e.id>>
      [] e.kind = "postback" -> <<"postback", e.n>>
      [] OTHER               -> NoMessage

\* Mutant: one row per reacted-to message and customer.
metaReactionIdOfTarget(e) == <<"reaction", e.about, e.from>>

\* A reaction is named by its target, its sender and its time.
metaReactionId(e) == <<"reaction", e.about, e.from, e.n>>

normalizeMessagingEvent(e) ==
    CASE e.kind = "oldpostback" -> <<"postback", e.from, e.n>>
      [] e.kind = "reaction"    -> metaReactionId(e)
      [] OTHER                  -> <<"mid", e.id>>

normalizeCustom(e) == IF e.what = "notext" THEN NoMessage ELSE <<"custom", e.id>>

normalizeWebchat(e) == IF e.what = "notext" THEN NoMessage ELSE <<"webchat", e.from, e.id>>

MessageId(e) ==
    CASE provider = "WHATSAPP" -> whatsappMessageId(e)
      [] provider = "TELEGRAM" -> normalizeTelegram(e)
      [] provider = "LINE"     -> normalizeLine(e)
      [] provider = "META"     -> normalizeMessagingEvent(e)
      [] provider = "CUSTOM"   -> normalizeCustom(e)
      [] provider = "WEBCHAT"  -> normalizeWebchat(e)

\* Mutant: the quoted message is named by its id alone.
replyTargetUnscoped(e) == <<"chat", e.about>>

telegramReplyTarget(e) == telegramMessageId(e.from, e.about)

\* replyContext.targetProviderMessageId
ReplyTarget(e) ==
    IF e.about = 0 THEN NoMessage ELSE
    CASE provider = "WHATSAPP" -> <<"wamid", e.about>>
      [] provider = "TELEGRAM" -> telegramReplyTarget(e)
      [] provider = "LINE"     -> <<"line", e.about>>
      [] provider = "META"     -> <<"mid", e.about>>
      [] OTHER -> NoMessage

STATUS_MAP == [sent |-> {"SENT"}, delivered |-> {"DELIVERED"}, read |-> {"READ"}, failed |-> {"FAILED"},
               warning |-> {}, unknown |-> {}]

\* Mutant: a receipt that names its messages is read as a watermark.
MessagingReceiptsByWatermark(e) == {}

\* Receipts that name their messages; a watermark is applied by the Conversation Core.
MessagingReceipts(e) ==
    IF e.what = "mids" THEN {[reply |-> e.about, status |-> IF e.kind = "read" THEN "READ" ELSE "DELIVERED"]}
    ELSE {}

Receipts(e) ==
    IF provider = "META" THEN MessagingReceipts(e)
    ELSE {[reply |-> e.about, status |-> s] : s \in STATUS_MAP[e.what]}

IsReceipt(e) == e.kind \in {"status", "delivery", "read"}

----------------------------------------------------------------------------
(* What happens at the provider, and the way in *)

LastId(c) == LET scope == {e \in happened : /\ e.kind \in {"message", "group", "edited", "echo", "postback", "reaction"}
                                            /\ provider \in {"TELEGRAM", "WEBCHAT"} => e.from = c}
             IN Cardinality(scope)

\* A customer writes, maybe quoting an earlier message of the same chat.
\* (Bound: only the first event is anything but text.)
Writes(c, body, quoted) ==
    /\ happened = {} \/ body = "text"
    /\ quoted \in {0} \cup {e.id : e \in {f \in happened : f.kind = "message" /\ f.from = c}}
    /\ quoted # 0 => provider \notin {"CUSTOM", "WEBCHAT"}
    /\ happened' = happened \cup
         {[kind |-> "message", from |-> c, n |-> Cardinality(happened) + 1, id |-> LastId(c) + 1,
           what |-> body, about |-> quoted]}

\* A customer presses a button, reacts or unreacts, or does what is not synced.
Acts(c, kind, what, target) ==
    /\ kind = "reaction" <=> what \in {"react", "unreact"}
    /\ kind = "reaction" => target \in {e.id : e \in {f \in happened : f.kind = "message" /\ f.from = c}}
    /\ kind # "reaction" => target = 0
    /\ happened' = happened \cup
         {[kind |-> kind, from |-> c, n |-> Cardinality(happened) + 1, id |-> LastId(c) + 1,
           what |-> what, about |-> target]}

\* The provider reports on a reply, each state of it once.
Reports(c, kind, what, reply) ==
    /\ ~\E e \in happened : e.kind = kind /\ e.about = reply /\ e.what = what
    /\ happened' = happened \cup
         {[kind |-> kind, from |-> c, n |-> Cardinality(happened) + 1, id |-> MaxEvents,
           what |-> what, about |-> reply]}

Happens ==
    /\ Cardinality(happened) < MaxEvents
    /\ \E c \in Customer :
         \/ \E body \in Bodies[provider], quoted \in 0 .. MaxEvents : Writes(c, body, quoted)
         \/ \E kind \in Others[provider] \ {"status", "delivery", "read"},
               what \in {"react", "unreact", "press"}, target \in 0 .. MaxEvents : Acts(c, kind, what, target)
         \/ \E kind \in Others[provider] \cap {"status", "delivery", "read"}, reply \in Reply :
              \E what \in States[provider] : Reports(c, kind, what, reply)
    /\ UNCHANGED <<provider, delivered, journal, pending, stored, receipts>>

\* A webhook call brings an event, in any order and any number of times.
Deliver(e) ==
    /\ delivered' = delivered \cup {e}
    /\ IF Extracted(e) /\ ~\E j \in journal : j.key = Key(e)
       THEN /\ journal' = journal \cup {[key |-> Key(e), payload |-> e]}
            /\ pending' = pending \cup {Key(e)}
       ELSE UNCHANGED <<journal, pending>>
    /\ UNCHANGED <<provider, happened, stored, receipts>>

\* The worker normalises a journaled event and the results are stored.
ProcessEvent(j) ==
    /\ j.key \in pending
    /\ pending' = pending \ {j.key}
    /\ LET e == j.payload IN
         IF IsReceipt(e)
         THEN receipts' = receipts \cup Receipts(e) /\ UNCHANGED stored
         ELSE /\ stored' = IF MessageId(e) = NoMessage \/ \E r \in stored : r.id = MessageId(e) THEN stored
                           ELSE stored \cup {[id |-> MessageId(e), of |-> e, quotes |-> ReplyTarget(e),
                                              content |-> Content(e)]}
              /\ UNCHANGED receipts
    /\ UNCHANGED <<provider, happened, delivered, journal>>

Next ==
    \/ Happens
    \/ \E e \in happened : Deliver(e)
    \/ \E j \in journal : ProcessEvent(j)

Spec == Init /\ [][Next]_vars

----------------------------------------------------------------------------
(* Properties *)

Arrived == {e \in delivered : Extracted(e) /\ Key(e) \notin pending}
ByCustomer(e) == /\ e.kind \in {"message", "postback", "oldpostback", "reaction", "callback"}
                 /\ e.what # "notext"

\* However a provider orders and repeats its webhooks, no two things customers
\* did are taken for one: each has a row of its own (the key of extractEvents
\* and the providerMessageId of normalizeInbound tell them apart).
EachActionItsOwnRow == \A e \in Arrived : ByCustomer(e) => \E r \in stored : r.of = e

\* Every state the provider reported of a reply reaches the Conversation Core:
\* no report is swallowed as a repetition of another.
EveryReportCounts ==
    \A e \in Arrived : IsReceipt(e) =>
        \/ e.what = "watermark" /\ [key |-> Key(e), payload |-> e] \in journal
        \/ e.what # "watermark" /\ Receipts(e) \subseteq receipts
           /\ (e.what = "mids" => \E r \in receipts : r.reply = e.about)

\* A message that quotes another points at the row of that very message, as the
\* ids of normalizeInbound name it.
QuotesFindTheirMessage ==
    \A r, q \in stored :
        (/\ r.of.about # 0 /\ q.of.kind = "message" /\ q.of.from = r.of.from /\ q.of.id = r.of.about)
            => r.quotes = q.id

\* What the business or a group wrote is never a customer's message.
OnlyCustomersAreStored == \A r \in stored : ByCustomer(r.of)

\* A file the inbox offers to open (conversations.service.ts, mediaUrl) is named
\* in the way the adapter's downloadMedia needs.
OfferedMediaCanBeOpened ==
    \A r \in stored : r.content.ref # "none" => r.content.ref = DownloadedBy[provider]
=============================================================================
