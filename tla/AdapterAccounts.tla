-------------------------- MODULE AdapterAccounts --------------------------
(***************************************************************************)
(* What the adapters do with an account besides messages                   *)
(* (packages/channel-adapters/src): verifyCredentials, registerWebhook,    *)
(* unregisterWebhook, healthCheck and downloadMedia.  Each is a few        *)
(* requests to the provider, any of which may fail, while the account is   *)
(* changed in the provider's console.  Telegram's are in TelegramUpdates,  *)
(* email's in Mailbox.                                                     *)
(***************************************************************************)
EXTENDS Naturals, FiniteSets

CONSTANTS
    Limit,     \* MAX_MEDIA_DOWNLOAD_BYTES, in chunks
    MaxToggle  \* changes in the console

VARIABLES
    platform,
    entered,   \* what the admin typed: the account and, for WhatsApp, its business account
    stage,     \* "form", "owner", "verified", "refused", "subscribed", "done"
    console,   \* provider's side: the app is subscribed, our URL is called, webhooks are on
    toggles,
    registered, told,  \* registerWebhook's answer, and whether the admin got a note
    healthy,   \* healthCheck's answer
    file,      \* the download: declared and actual size, chunks held, "idle" .. "refused"
    read       \* what the download has in memory

vars == <<platform, entered, stage, console, toggles, registered, told, healthy, file, read>>

Platform == {"WHATSAPP", "MESSENGER", "INSTAGRAM", "LINE"}
\* Whose token, number and business account were copied into the form.
Whose == {"own", "other"}

TypeOK ==
    /\ platform \in Platform
    /\ entered \in [token : Whose, id : Whose, business : Whose]
    /\ stage \in {"form", "owner", "verified", "refused", "subscribed", "done"}
    /\ console \in [subscribed : BOOLEAN, url : BOOLEAN, on : BOOLEAN]
    /\ toggles \in 0 .. MaxToggle /\ registered \in BOOLEAN /\ told \in BOOLEAN
    /\ healthy \in {"unknown", "yes", "no"}
    /\ file.state \in {"idle", "reading", "held", "refused"} /\ read \in 0 .. Limit + 1

Init ==
    /\ platform \in Platform
    /\ entered \in [token : Whose, id : Whose, business : Whose]
    /\ stage = "form" /\ toggles = 0
    /\ console \in [subscribed : {FALSE}, url : BOOLEAN, on : BOOLEAN]
    /\ platform # "LINE" => console.on /\ ~console.url
    /\ registered = FALSE /\ told = FALSE /\ healthy = "unknown"
    /\ file = [state |-> "idle", declared |-> 0, actual |-> 0] /\ read = 0

account == <<platform, entered, console, toggles>>
download == <<file, read>>

----------------------------------------------------------------------------
(* verifyCredentials *)

\* fetchPhoneNumber: the token must be able to read the number; its business account comes next.
verifyWhatsApp == IF entered.id = entered.token THEN "owner" ELSE "refused"

\* NOT_A_PAGE_TOKEN
verifyMessenger == IF entered.id = entered.token THEN "verified" ELSE "refused"

\* The account is the one of the token.
verifyInstagram == "verified"

verifyLine == "verified"

VerifyFirst ==
    /\ stage = "form"
    /\ stage' = CASE platform = "WHATSAPP"  -> verifyWhatsApp
                  [] platform = "MESSENGER" -> verifyMessenger
                  [] platform = "INSTAGRAM" -> verifyInstagram
                  [] platform = "LINE"      -> verifyLine
    /\ UNCHANGED <<account, registered, told, healthy, download>>

\* Mutant: any business account with a number will do.
OwnedByAny == TRUE

\* The number is among those of the business account.
Owned == entered.business = entered.id

VerifyOwner ==
    /\ stage = "owner"
    /\ stage' = IF Owned THEN "verified" ELSE "refused"
    /\ UNCHANGED <<account, registered, told, healthy, download>>

\* Either request fails: the channel is not connected.
VerifyThrows ==
    /\ stage \in {"form", "owner"}
    /\ stage' = "refused"
    /\ UNCHANGED <<account, registered, told, healthy, download>>

----------------------------------------------------------------------------
(* registerWebhook *)

\* What the first step leaves at the provider and whether a second one follows; if none does,
\* the admin is told what is left to do.
Then(side, more) == [side |-> side, more |-> more]

registerWhatsApp(https) == Then([console EXCEPT !.subscribed = TRUE], https)

\* The callback URL of the app is set in its console.
registerMessenger == Then([console EXCEPT !.subscribed = TRUE], FALSE)

registerInstagram == Then([console EXCEPT !.subscribed = TRUE], FALSE)

\* LINE only calls HTTPS webhooks.
registerLine(https) == Then([console EXCEPT !.url = @ \/ https], https)

Subscribe(https) ==
    LET step == CASE platform = "WHATSAPP"  -> registerWhatsApp(https)
                  [] platform = "MESSENGER" -> registerMessenger
                  [] platform = "INSTAGRAM" -> registerInstagram
                  [] platform = "LINE"      -> registerLine(https) IN
    /\ stage = "verified"
    /\ console' = step.side
    /\ stage' = IF step.more THEN "subscribed" ELSE "done"
    /\ told' = ~step.more
    /\ UNCHANGED <<platform, entered, toggles, registered, healthy, download>>

\* The override of WhatsApp; a refusal is answered with a note.
Override(accepted) ==
    /\ platform = "WHATSAPP" /\ stage = "subscribed"
    /\ console' = IF accepted THEN [console EXCEPT !.url = TRUE] ELSE console
    /\ registered' = accepted /\ told' = ~accepted
    /\ stage' = "done"
    /\ UNCHANGED <<platform, entered, toggles, healthy, download>>

\* Mutant: the endpoint was set, so it is called.
EndpointSet == console.url

\* LINE is asked whether it uses the endpoint.
EndpointActive == console.on

ReadEndpoint ==
    /\ platform = "LINE" /\ stage = "subscribed"
    /\ registered' = EndpointActive /\ told' = ~EndpointActive
    /\ stage' = "done"
    /\ UNCHANGED <<account, healthy, download>>

\* Any request may fail: registerInbound keeps the channel and shows the error as its note.
RegisterThrows ==
    /\ stage \in {"verified", "subscribed"}
    /\ registered' = FALSE /\ told' = TRUE /\ stage' = "done"
    /\ UNCHANGED <<account, healthy, download>>

unregisterWhatsApp == [console EXCEPT !.url = FALSE]

unregisterMessenger == [console EXCEPT !.subscribed = FALSE]

\* LINE and Instagram have nothing to unregister.
unregisterWebhook ==
    /\ stage = "done" /\ platform \in {"WHATSAPP", "MESSENGER"}
    /\ console' = IF platform = "WHATSAPP" THEN unregisterWhatsApp ELSE unregisterMessenger
    /\ stage' = "refused" /\ registered' = FALSE
    /\ UNCHANGED <<platform, entered, toggles, told, healthy, download>>

----------------------------------------------------------------------------
(* healthCheck *)

\* Mutant: the switch alone is looked at.
LineActiveSwitch == console.on

LineActive == console.on /\ console.url

\* Reading the number or the profile is enough.
WhatsAppActive == TRUE

InstagramActive == TRUE

\* The token still belongs to the Page.
MessengerActive == entered.id = entered.token

healthCheck ==
    /\ stage = "done"
    /\ healthy' = IF CASE platform = "LINE"      -> LineActive
                       [] platform = "MESSENGER" -> MessengerActive
                       [] platform = "WHATSAPP"  -> WhatsAppActive
                       [] platform = "INSTAGRAM" -> InstagramActive
                  THEN "yes" ELSE "no"
    /\ UNCHANGED <<account, stage, registered, told, download>>

\* The admin works in the provider's console.
Console ==
    /\ toggles < MaxToggle /\ stage = "done"
    /\ toggles' = toggles + 1
    /\ \/ console' = [console EXCEPT !.on = ~@]
       \/ console' = [console EXCEPT !.url = ~@]
    /\ UNCHANGED <<platform, entered, stage, registered, told, healthy, download>>

----------------------------------------------------------------------------
(* downloadMedia: requestBinary and readCapped *)

\* The part of a media reference that each platform downloads by; WhatsApp resolves it to a
\* URL first.
downloadWhatsApp(ref) == ref = "id"

downloadMessenger(ref) == ref = "url"

downloadInstagram(ref) == ref = "url"

downloadLine(ref) == ref = "id"

Resolves(ref) ==
    CASE platform = "WHATSAPP"  -> downloadWhatsApp(ref)
      [] platform = "MESSENGER" -> downloadMessenger(ref)
      [] platform = "INSTAGRAM" -> downloadInstagram(ref)
      [] platform = "LINE"      -> downloadLine(ref)

\* A declared length, if there is one, may be wrong.
DownloadStarts(ref, declared, actual) ==
    /\ stage = "done" /\ file.state = "idle"
    /\ file' = [state |-> IF declared > Limit \/ ~Resolves(ref) THEN "refused" ELSE "reading",
                declared |-> declared, actual |-> actual]
    /\ UNCHANGED <<account, stage, registered, told, healthy, read>>

\* Mutant: a declared length is believed.
PastDeclared(total) == file.declared = 0 /\ total > Limit

PastLimit(total) == total > Limit

ReadChunk ==
    /\ file.state = "reading"
    /\ IF read = file.actual
       THEN file' = [file EXCEPT !.state = "held"] /\ UNCHANGED read
       ELSE IF PastLimit(read + 1)
       THEN file' = [file EXCEPT !.state = "refused"] /\ read' = 0
       ELSE read' = read + 1 /\ UNCHANGED file
    /\ UNCHANGED <<account, stage, registered, told, healthy>>

DownloadThrows ==
    /\ file.state = "reading"
    /\ file' = [file EXCEPT !.state = "refused"] /\ read' = 0
    /\ UNCHANGED <<account, stage, registered, told, healthy>>

Next ==
    \/ VerifyFirst \/ VerifyOwner \/ VerifyThrows
    \/ \E https \in BOOLEAN : Subscribe(https)
    \/ \E accepted \in BOOLEAN : Override(accepted)
    \/ ReadEndpoint \/ RegisterThrows \/ unregisterWebhook
    \/ healthCheck \/ Console
    \/ \E ref \in {"id", "url"}, declared, actual \in 0 .. Limit + 1 : DownloadStarts(ref, declared, actual)
    \/ ReadChunk \/ DownloadThrows

Spec == Init /\ [][Next]_vars

----------------------------------------------------------------------------
Delivers == console.url /\ console.on /\ (platform = "WHATSAPP" => console.subscribed)

(* registerWebhook answers `registered' only when the provider calls the   *)
(* channel's URL, the healthCheck of LINE likewise, and an admin whose     *)
(* channel is not registered has a note that says what to do.              *)
RegisteredIsCalled ==
    [][/\ registered' /\ ~registered => Delivers'
       /\ platform = "LINE" /\ healthy' = "yes" /\ healthy # "yes" => Delivers'
       /\ stage' = "done" => registered' \/ told']_vars

(* A channel is connected only with identifiers that belong together: a    *)
(* token of the Page, a number of the business account it is subscribed    *)
(* with.                                                                   *)
IdentifiersBelongTogether ==
    stage \in {"verified", "subscribed", "done"} =>
        /\ platform \in {"WHATSAPP", "MESSENGER"} => entered.id = entered.token
        /\ platform = "WHATSAPP" => entered.business = entered.id

(* A download never holds more than the limit, whatever length was         *)
(* declared, and hands over whole files only.                              *)
HeldWithinLimit ==
    /\ read <= Limit
    /\ file.state = "held" => read = file.actual
=============================================================================
