-------------------------- MODULE OutboundAdapters --------------------------
(***************************************************************************)
(* sendMessage of the channel adapters and the errors they raise           *)
(* (packages/channel-adapters/src): one reply, sent by a job that is run   *)
(* again while the error is retryable.  `World' is what is the matter at   *)
(* the provider when it is called; Answer is how the provider says it, and *)
(* the adapters' error mappers turn that into a category.                  *)
(***************************************************************************)
EXTENDS Naturals, FiniteSets

CONSTANTS Attempts  \* attempts of the send job

VARIABLES
    provider, content,
    made,     \* attempts so far
    calls,    \* requests that reached the provider
    taken,    \* retry keys LINE has accepted
    copies,   \* copies the customer has
    outcome,  \* of the reply: "PENDING", "SENT", "FAILED"
    seen,     \* history: the worlds the calls met
    blamed    \* the channel was marked as to be reconnected

vars == <<provider, content, made, calls, taken, copies, outcome, seen, blamed>>

Graph == {"WHATSAPP", "MESSENGER", "INSTAGRAM"}
Provider == Graph \cup {"TELEGRAM", "LINE", "EMAIL", "CUSTOM", "WEBCHAT"}
ContentKind == {"TEXT", "IMAGE_URL", "IMAGE_ID", "AUDIO_URL", "LOCATION", "INTERACTIVE", "TEMPLATE"}
World == {"fine", "lost", "noid", "outage", "busy", "revoked", "forbidden", "blocked", "window", "refused", "quota"}

TypeOK ==
    /\ provider \in Provider /\ content \in ContentKind
    /\ made \in 0 .. Attempts /\ calls \in 0 .. Attempts /\ copies \in 0 .. Attempts
    /\ taken \subseteq 0 .. Attempts /\ seen \subseteq World
    /\ outcome \in {"PENDING", "SENT", "FAILED"} /\ blamed \in BOOLEAN

Init ==
    /\ provider \in Provider /\ content \in ContentKind
    /\ made = 0 /\ calls = 0 /\ taken = {} /\ copies = 0
    /\ outcome = "PENDING" /\ seen = {} /\ blamed = FALSE

----------------------------------------------------------------------------
(* What can be sent *)

buildWhatsAppContent == ContentKind

buildTelegramRequest == ContentKind \ {"TEMPLATE"}

\* Media needs a URL, and only images and video are sent.
buildLineMessage == {"TEXT", "IMAGE_URL", "LOCATION", "INTERACTIVE"}

\* Media needs a URL.
buildMessagingSendBody == {"TEXT", "IMAGE_URL", "AUDIO_URL", "INTERACTIVE"}

Buildable == [WHATSAPP |-> buildWhatsAppContent, TELEGRAM |-> buildTelegramRequest,
              LINE |-> buildLineMessage, MESSENGER |-> buildMessagingSendBody,
              INSTAGRAM |-> buildMessagingSendBody,
              EMAIL |-> {"TEXT"}, CUSTOM |-> {"TEXT"}, WEBCHAT |-> {"TEXT"}]

----------------------------------------------------------------------------
(* Errors *)

\* How the providers say it: HTTP status, and Graph or mail code.
Says(status, code) == [status |-> status, code |-> code]
Answer(world) ==
    CASE world = "outage"    -> IF provider = "EMAIL" THEN Says(0, "ETIMEDOUT") ELSE Says(503, "none")
      [] world = "busy"      -> CASE provider \in Graph -> Says(400, "rate")
                                  [] provider = "EMAIL" -> Says(451, "none")
                                  [] OTHER -> Says(429, "none")
      [] world = "revoked"   -> CASE provider \in Graph -> Says(400, "token")
                                  [] provider = "EMAIL" -> Says(535, "EAUTH")
                                  [] OTHER -> Says(401, "none")
      [] world = "forbidden" -> IF provider \in Graph THEN Says(403, "permission") ELSE Says(403, "none")
      [] world = "blocked"   -> CASE provider \in Graph -> Says(400, "recipient")
                                  [] provider = "TELEGRAM" -> Says(403, "none")
                                  [] provider = "EMAIL" -> Says(550, "EENVELOPE")
                                  [] OTHER -> Says(400, "none")
      [] world = "window"    -> Says(400, "window")
      [] world = "refused"   -> IF provider = "EMAIL" THEN Says(554, "none") ELSE Says(400, "none")
      [] world = "quota"     -> Says(429, "monthly")

\* Worlds a provider knows.
Meets == [WHATSAPP |-> World \ {"quota"}, MESSENGER |-> World \ {"quota"}, INSTAGRAM |-> World \ {"quota"},
          TELEGRAM |-> World \ {"noid", "forbidden", "window", "quota"},
          LINE |-> World \ {"window"},
          EMAIL |-> World \ {"forbidden", "window", "quota"},
          CUSTOM |-> World \ {"blocked", "window", "quota"},
          WEBCHAT |-> {"fine"}]

\* Mutant: too many requests are a bad request.
mapHttpStatusWithout429(a) ==
    CASE a.status = 401 -> "AUTHENTICATION"
      [] a.status = 403 -> "PERMISSION"
      [] a.status = 404 -> "NOT_FOUND"
      [] a.status >= 500 -> "TRANSIENT"
      [] OTHER -> "INVALID_REQUEST"

mapHttpStatus(a) ==
    CASE a.status = 401 -> "AUTHENTICATION"
      [] a.status = 403 -> "PERMISSION"
      [] a.status = 404 -> "NOT_FOUND"
      [] a.status = 429 -> "RATE_LIMITED"
      [] a.status >= 500 -> "TRANSIENT"
      [] OTHER -> "INVALID_REQUEST"

\* Mutant: the HTTP status decides, also when there is a Graph code.
categorizeByStatus(a) == mapHttpStatus(a)

\* The code of the error body decides; without one the HTTP status.
categorizeGraphError(a) ==
    CASE a.code = "token"      -> "AUTHENTICATION"
      [] a.code = "rate"       -> "RATE_LIMITED"
      [] a.code = "window"     -> "REPLY_WINDOW_CLOSED"
      [] a.code = "recipient"  -> "RECIPIENT_UNAVAILABLE"
      [] a.code = "permission" -> "PERMISSION"
      [] OTHER                 -> mapHttpStatus(a)

\* Mutant: Telegram's 403 is read as everybody else's.
mapTelegramErrorByStatus(a) == mapHttpStatus(a)

\* 403 is a customer who blocked the bot, 404 a bot that is gone.
mapTelegramError(a) ==
    CASE a.status \in {401, 404} -> "AUTHENTICATION"
      [] a.status = 429 -> "RATE_LIMITED"
      [] a.status = 409 -> "CONFIGURATION"
      [] a.status = 403 -> "RECIPIENT_UNAVAILABLE"
      [] a.status >= 500 -> "TRANSIENT"
      [] OTHER -> "INVALID_REQUEST"

\* A used-up monthly quota does not come back by waiting.
mapLineError(a) == IF a.status = 429 /\ a.code = "monthly" THEN "CONFIGURATION" ELSE mapHttpStatus(a)

\* The code decides before the status of the SMTP answer does.
mapMailError(a) ==
    CASE a.code = "EAUTH"     -> "AUTHENTICATION"
      [] a.code = "ETIMEDOUT" -> "TRANSIENT"
      [] a.code = "EENVELOPE" -> "RECIPIENT_UNAVAILABLE"
      [] OTHER -> IF a.status >= 500 THEN "INVALID_REQUEST" ELSE "TRANSIENT"

Category(world) ==
    CASE provider \in Graph -> categorizeGraphError(Answer(world))
      [] provider = "TELEGRAM" -> mapTelegramError(Answer(world))
      [] provider = "LINE"     -> mapLineError(Answer(world))
      [] provider = "EMAIL"    -> mapMailError(Answer(world))
      [] OTHER                 -> mapHttpStatus(Answer(world))

Retryable(category) == category \in {"RATE_LIMITED", "TRANSIENT"}
RequiresReconnect(category) == category \in {"AUTHENTICATION", "PERMISSION"}

----------------------------------------------------------------------------
(* Sending *)

\* Mutant: a key of its own for every attempt.
RetryKeyOfAttempt == made + 1

\* X-Line-Retry-Key is the id of the reply.
RetryKey == 0

\* 409: an earlier attempt was accepted, so the reply has been sent.
AlreadyTaken == provider = "LINE" /\ RetryKey \in taken

\* Mutant: the refusal is not a ChannelProviderError, so it counts as TRANSIENT.
RefusedUncategorised == "PENDING"

\* INVALID_REQUEST is not retried.
RefusedAs == "FAILED"

Refuse ==
    /\ outcome = "PENDING" /\ made < Attempts /\ content \notin Buildable[provider]
    /\ made' = made + 1
    /\ outcome' = RefusedAs
    /\ UNCHANGED <<provider, content, calls, taken, copies, seen, blamed>>

\* What sendMessage makes of the answer to a message that was taken, which may have no id.
sendWhatsApp(world) == IF world = "noid" THEN "TRANSIENT" ELSE "ACCEPTED"

sendMessenger(world) == IF world = "noid" THEN "TRANSIENT" ELSE "ACCEPTED"

sendInstagram(world) == IF world = "noid" THEN "TRANSIENT" ELSE "ACCEPTED"

sendTelegram(world) == "ACCEPTED"

\* The retry key stands in for the id.
sendLine(world) == "ACCEPTED"

\* The Message-ID is made here.
sendEmail(world) == "ACCEPTED"

\* The reply's own id stands in.
sendCustom(world) == "ACCEPTED"

sendWebchat(world) == "ACCEPTED"

\* A lost answer is TRANSIENT whatever the provider.
Result(world) ==
    IF world = "lost" THEN "TRANSIENT" ELSE
    CASE provider = "WHATSAPP"  -> sendWhatsApp(world)
      [] provider = "MESSENGER" -> sendMessenger(world)
      [] provider = "INSTAGRAM" -> sendInstagram(world)
      [] provider = "TELEGRAM"  -> sendTelegram(world)
      [] provider = "LINE"      -> sendLine(world)
      [] provider = "EMAIL"     -> sendEmail(world)
      [] provider = "CUSTOM"    -> sendCustom(world)
      [] provider = "WEBCHAT"   -> sendWebchat(world)

\* The provider takes the message; the answer arrives, is lost, or has no id.
Accepted(world) ==
    /\ outcome = "PENDING" /\ made < Attempts /\ content \in Buildable[provider]
    /\ world \in {"fine", "lost", "noid"} \cap Meets[provider]
    /\ made' = made + 1
    /\ calls' = calls + (IF provider = "WEBCHAT" THEN 0 ELSE 1)
    /\ copies' = IF AlreadyTaken THEN copies ELSE copies + 1
    /\ taken' = taken \cup (IF provider = "LINE" THEN {RetryKey} ELSE {})
    /\ seen' = seen \cup {world}
    /\ outcome' = IF Result(world) = "ACCEPTED" THEN "SENT"
                  ELSE IF made' = Attempts THEN "FAILED" ELSE "PENDING"
    /\ UNCHANGED <<provider, content, blamed>>

\* The provider answers with an error.
Rejected(world) ==
    /\ outcome = "PENDING" /\ made < Attempts /\ content \in Buildable[provider]
    /\ world \in Meets[provider] \ {"fine", "lost", "noid"}
    /\ made' = made + 1
    /\ calls' = calls + 1
    /\ seen' = seen \cup {world}
    /\ blamed' = (blamed \/ RequiresReconnect(Category(world)))
    /\ outcome' = IF Retryable(Category(world)) /\ made' < Attempts THEN "PENDING" ELSE "FAILED"
    /\ UNCHANGED <<provider, content, taken, copies>>

Next == Refuse \/ \E world \in World : Accepted(world) \/ Rejected(world)

Spec == Init /\ [][Next]_vars

----------------------------------------------------------------------------
(* Properties *)

\* A LINE customer gets a reply once, however many attempts lost their answer:
\* the retry key makes LINE ignore a resend (line-messaging.adapter.ts).
LineSendsOnce == provider = "LINE" => copies <= 1

\* The channel is to be reconnected exactly when the provider no longer accepts
\* its credentials: a customer who blocks the business, a closed reply window,
\* an outage or a used-up quota do not take the channel down.
ReconnectMeansCredentials == blamed <=> {"revoked", "forbidden"} \cap seen # {}

\* Only what may pass is tried again, and what may pass is not given up early.
GivenUpForAReason ==
    LET passing == {"outage", "busy", "lost", "noid"} IN
    /\ (outcome = "FAILED" /\ content \in Buildable[provider] /\ seen \subseteq passing) => made = Attempts
    /\ (seen \ passing) \ {"fine"} # {} => outcome = "FAILED"

\* What an adapter cannot send fails at once and never reaches the provider.
RefusedWithoutCall == content \notin Buildable[provider] => calls = 0 /\ copies = 0 /\ made <= 1
=============================================================================
