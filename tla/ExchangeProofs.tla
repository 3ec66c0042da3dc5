--------------------------- MODULE ExchangeProofs ---------------------------
(***************************************************************************)
(* Proofs about what comes in from the channels and what goes out, for any *)
(* number of accounts, processes, messages and faults.                     *)
(***************************************************************************)
EXTENDS Integers, MCExchange, FiniteSetTheorems, WellFoundedInduction, TLAPS

-----------------------------------------------------------------------------
(* Credentials while their key is rotated *)

\* The keys a deployed environment has.
Deployed == env.previous \cup {env.active}

\* A process that is not restarted yet seals with a key that the deployed environment still has,
\* since the operator goes on only when every process is restarted.
KeysInv ==
    /\ env \in Keys!Env /\ ring \in [Process -> Keys!Env]
    /\ DOMAIN sealed = Account
    /\ \A a \in Account : sealed[a] = Keys!None \/
          (sealed[a] \in [key : Keys!Key, owner : Account, secret : Nat]
           /\ sealed[a].owner = a /\ sealed[a].secret \in 1 .. secrets /\ sealed[a].key \in Deployed)
    /\ opened \in [Process -> {"none", "fine", "failed"}] /\ secrets \in 0 .. MaxSecret
    /\ \A p \in Process : ring[p].active \in Deployed

\* The first key, before anything is sealed.
LEMMA KeysInit == ASSUME Keys!Init PROVE KeysInv
<1> USE BoundsAssumption DEF Keys!Init
<1>1. env \in Keys!Env BY DEF Keys!Env, Keys!Key
<1>2. env.active \in Deployed BY DEF Deployed
<1> QED BY <1>1, <1>2 DEF KeysInv

\* The keys a process has from its environment.
LEMMA CurrentOpens ==
    ASSUME KeysInv, NEW p \in Process, ring[p] = env, NEW a \in Account, sealed[a] # Keys!None
    PROVE  Keys!CanOpen(p, a)
BY DEF KeysInv, Deployed, Keys!CanOpen, Keys!Keys, Keys!parsePreviousKeys

\* An account is connected, or connected again, by any process.
LEMMA SealStep ==
    ASSUME KeysInv, NEW p \in Process, NEW a \in Account, NEW s \in 1 .. secrets', secrets' = secrets + 1,
           secrets < MaxSecret, sealed' = [sealed EXCEPT ![a] = Keys!Seal(p, a, s)],
           UNCHANGED <<env, ring, opened>>
    PROVE  KeysInv'
<1> USE BoundsAssumption DEF KeysInv
<1> DEFINE x == Keys!Seal(p, a, s)
<1>1. secrets' \in 0 .. MaxSecret /\ s \in Nat /\ secrets \in Nat OBVIOUS
<1>2. ring[p].active \in Keys!Key /\ ring[p].active \in Deployed BY DEF Keys!Env
<1>3. x \in [key : Keys!Key, owner : Account, secret : Nat] /\ x.owner = a /\ x.secret = s /\ x.key \in Deployed
  BY <1>1, <1>2 DEF Keys!Seal
<1> HIDE DEF x
<1>4. sealed'[a] = x /\ DOMAIN sealed' = Account /\ \A b \in Account \ {a} : sealed'[b] = sealed[b] BY DEF x
<1>5. Deployed' = Deployed BY DEF Deployed
<1>6. ASSUME NEW b \in Account, sealed'[b] # Keys!None
      PROVE  /\ sealed'[b] \in [key : Keys!Key, owner : Account, secret : Nat]
             /\ sealed'[b].owner = b /\ sealed'[b].secret \in 1 .. secrets' /\ sealed'[b].key \in Deployed
  <2>1. CASE b = a BY <1>3, <1>4, <2>1
  <2>2. CASE b # a
    <3>1. /\ sealed[b] \in [key : Keys!Key, owner : Account, secret : Nat]
          /\ sealed[b].owner = b /\ sealed[b].secret \in 1 .. secrets /\ sealed[b].key \in Deployed
      BY <1>4, <1>6, <2>2
    <3>2. sealed[b].secret \in 1 .. secrets' BY <1>1, <3>1
    <3> QED BY <1>4, <2>2, <3>1, <3>2
  <2> QED BY <2>1, <2>2
<1>7. Keys!None' = Keys!None BY DEF Keys!None
<1> QED BY <1>1, <1>4, <1>5, <1>6, <1>7

\* What a reconnect keeps, when the process can open the envelope.
SecretsKept == \A a \in Account : sealed[a] # Keys!None /\ sealed'[a].secret # sealed[a].secret => ~Keys!Rolled

\* A rotation, a restart, a reconnect or a read of credentials.
LEMMA KeysNext == ASSUME KeysInv, Keys!Next PROVE KeysInv' /\ SecretsKept
<1> USE BoundsAssumption DEF KeysInv
<1>0. Keys!None' = Keys!None BY DEF Keys!None
<1>1. CASE Keys!Rotate
  <2>1. env' \in Keys!Env BY <1>1 DEF Keys!Rotate, Keys!Env, Keys!Key
  <2>2. Deployed \subseteq Deployed' BY <1>1 DEF Keys!Rotate, Deployed
  <2> QED BY <1>0, <1>1, <2>1, <2>2 DEF Keys!Rotate, SecretsKept
<1>2. CASE Keys!RemoveOldKeys
  <2>1. env' \in Keys!Env /\ env'.active = env.active BY <1>2 DEF Keys!RemoveOldKeys, Keys!Env, Keys!Key
  <2>2. env.active \in Deployed' BY <2>1 DEF Deployed
  <2>3. \A a \in Account : sealed[a] # Keys!None => sealed[a].key = env.active BY <1>2 DEF Keys!RemoveOldKeys, Deployed
  <2>4. \A p \in Process : ring[p].active = env.active BY <1>2 DEF Keys!RemoveOldKeys, Keys!Rolled
  <2> QED BY <1>0, <1>2, <2>1, <2>2, <2>3, <2>4 DEF Keys!RemoveOldKeys, SecretsKept
<1>3. ASSUME NEW p \in Process, Keys!Restart(p) PROVE KeysInv' /\ SecretsKept
  <2>1. Deployed' = Deployed /\ env.active \in Deployed BY <1>3 DEF Keys!Restart, Deployed
  <2> QED BY <1>0, <1>3, <2>1 DEF Keys!Restart, SecretsKept
<1>4. ASSUME NEW p \in Process, NEW a \in Account, Keys!Act(p, a) PROVE KeysInv' /\ SecretsKept
  <2>1. Deployed' = Deployed BY <1>4 DEF Keys!Act, Deployed
  <2> QED BY <1>0, <1>4, <2>1 DEF Keys!Act, SecretsKept
<1>5. ASSUME NEW p \in Process, NEW a \in Account, Keys!Connect(p, a) PROVE KeysInv' /\ SecretsKept
  <2>1. secrets + 1 \in 1 .. secrets' BY <1>5 DEF Keys!Connect
  <2>2. KeysInv' BY <1>5, <2>1, SealStep DEF Keys!Connect
  <2> QED BY <1>5, <2>2 DEF Keys!Connect, SecretsKept
<1>6. ASSUME NEW p \in Process, NEW a \in Account, Keys!Reconnect(p, a) PROVE KeysInv' /\ SecretsKept
  <2> DEFINE s == Keys!SecretAfter(p, a)
  <2>1. s \in 1 .. secrets' BY <1>6 DEF Keys!Reconnect, Keys!SecretAfter
  <2>2. KeysInv' BY <1>6, <2>1, SealStep DEF Keys!Reconnect
  <2>3. Keys!Rolled => s = sealed[a].secret
    BY <1>6, CurrentOpens DEF Keys!Reconnect, Keys!SecretAfter, Keys!Rolled
  <2> HIDE DEF s
  <2>4. sealed'[a].secret = s BY <1>6 DEF Keys!Reconnect, Keys!Seal, s
  <2> QED BY <1>6, <2>2, <2>3, <2>4 DEF Keys!Reconnect, SecretsKept
<1> QED BY <1>1, <1>2, <1>3, <1>4, <1>5, <1>6 DEF Keys!Next

\* What the invariant says of processes and envelopes.
LEMMA KeysInvImplies == ASSUME KeysInv PROVE Keys!TypeOK /\ Keys!CurrentRingOpensAll
<1>1. Keys!TypeOK BY DEF KeysInv, Keys!TypeOK
<1>2. Keys!CurrentRingOpensAll BY CurrentOpens DEF Keys!CurrentRingOpensAll
<1> QED BY <1>1, <1>2

-----------------------------------------------------------------------------
(* Registering an account *)

\* What has been verified, what a step of the registration leaves at the provider, and what a
\* download has in memory.
AccountTypes ==
    /\ platform \in Accounts!Platform /\ entered \in [token : Accounts!Whose, id : Accounts!Whose, business : Accounts!Whose]
    /\ stage \in {"form", "owner", "verified", "refused", "subscribed", "done"}
    /\ console \in [subscribed : BOOLEAN, url : BOOLEAN, on : BOOLEAN]
    /\ toggles \in 0 .. MaxToggle /\ registered \in BOOLEAN /\ told \in BOOLEAN
    /\ healthy \in {"unknown", "yes", "no"}

VerifiedInv ==
    /\ stage = "owner" => platform = "WHATSAPP" /\ entered.id = entered.token
    /\ Accounts!IdentifiersBelongTogether

\* Nobody works in the console before the registration is over.
RegistrationInv ==
    /\ platform # "LINE" /\ stage \notin {"done", "refused"} => console.on
    /\ stage = "subscribed" /\ platform = "WHATSAPP" => console.subscribed
    /\ stage = "subscribed" /\ platform = "LINE" => console.url
    /\ stage = "done" => registered \/ told

DownloadInv ==
    /\ file \in [state : {"idle", "reading", "held", "refused"}, declared : 0 .. Limit + 1, actual : 0 .. Limit + 1]
    /\ Accounts!HeldWithinLimit /\ read \in Nat

AccountsInv == AccountTypes /\ VerifiedInv /\ RegistrationInv /\ DownloadInv

\* What a step says of the webhook is so.
CalledIfSaid ==
    /\ registered' /\ ~registered => Accounts!Delivers'
    /\ platform = "LINE" /\ healthy' = "yes" /\ healthy # "yes" => Accounts!Delivers'
    /\ stage' = "done" => registered' \/ told'

\* The form is open, and nothing is registered.
LEMMA AccountsInit == ASSUME Accounts!Init PROVE AccountsInv
<1> USE BoundsAssumption DEF Accounts!Init
<1>1. AccountTypes
  <2>1. console \in [subscribed : BOOLEAN, url : BOOLEAN, on : BOOLEAN] BY Zenon
  <2>2. registered \in BOOLEAN /\ told \in BOOLEAN BY Zenon
  <2>3. toggles \in 0 .. MaxToggle OBVIOUS
  <2> QED BY <2>1, <2>2, <2>3, Zenon DEF AccountTypes
<1>2. VerifiedInv BY DEF VerifiedInv, Accounts!IdentifiersBelongTogether
<1>3. RegistrationInv BY DEF RegistrationInv
<1>4. DownloadInv BY DEF DownloadInv, Accounts!HeldWithinLimit
<1> QED BY <1>1, <1>2, <1>3, <1>4 DEF AccountsInv

\* A step that leaves the registration alone.
LEMMA RegistrationKept ==
    ASSUME AccountsInv, UNCHANGED <<platform, entered, console, toggles, stage, registered, told, healthy>>, DownloadInv'
    PROVE  AccountsInv' /\ CalledIfSaid
BY DEF AccountsInv, AccountTypes, VerifiedInv, Accounts!IdentifiersBelongTogether, RegistrationInv, CalledIfSaid

\* A step that leaves the download alone.
LEMMA DownloadKept == ASSUME DownloadInv, UNCHANGED <<file, read>> PROVE DownloadInv'
BY DEF DownloadInv, Accounts!HeldWithinLimit

\* A download goes on, and is given up at the limit.
LEMMA DownloadStep ==
    ASSUME AccountsInv,
           \/ \E ref \in {"id", "url"}, declared, actual \in 0 .. Limit + 1 : Accounts!DownloadStarts(ref, declared, actual)
           \/ Accounts!ReadChunk \/ Accounts!DownloadThrows
    PROVE  AccountsInv' /\ CalledIfSaid
<1> USE BoundsAssumption
<1>1. UNCHANGED <<platform, entered, console, toggles, stage, registered, told, healthy>>
  BY DEF Accounts!DownloadStarts, Accounts!ReadChunk, Accounts!DownloadThrows, Accounts!account
<1>2. DownloadInv'
  <2> USE DEF AccountsInv, DownloadInv, Accounts!HeldWithinLimit
  <2>1. ASSUME NEW ref \in {"id", "url"}, NEW declared \in 0 .. Limit + 1, NEW actual \in 0 .. Limit + 1,
               Accounts!DownloadStarts(ref, declared, actual)
        PROVE  DownloadInv'
    <3>1. PICK s \in {"refused", "reading"} : file' = [state |-> s, declared |-> declared, actual |-> actual]
      BY <2>1 DEF Accounts!DownloadStarts
    <3>2. read' = read BY <2>1 DEF Accounts!DownloadStarts
    <3> QED BY <3>1, <3>2
  <2>2. CASE Accounts!ReadChunk BY <2>2 DEF Accounts!ReadChunk, Accounts!PastLimit
  <2>3. CASE Accounts!DownloadThrows BY <2>3 DEF Accounts!DownloadThrows
  <2> QED BY <2>1, <2>2, <2>3
<1> QED BY <1>1, <1>2, RegistrationKept

\* The credentials are verified in one or two requests.
LEMMA VerifyStep ==
    ASSUME AccountsInv, Accounts!VerifyFirst \/ Accounts!VerifyOwner \/ Accounts!VerifyThrows
    PROVE  AccountsInv' /\ CalledIfSaid
<1> USE DEF AccountsInv
<1>1. UNCHANGED <<platform, entered, console, toggles, registered, told, healthy, file, read>>
  BY DEF Accounts!VerifyFirst, Accounts!VerifyOwner, Accounts!VerifyThrows, Accounts!account, Accounts!download
<1>2. DownloadInv' BY <1>1, DownloadKept
<1>3. /\ stage \in {"form", "owner"} /\ stage' \in {"owner", "verified", "refused"}
      /\ stage' = "owner" => platform = "WHATSAPP" /\ entered.id = entered.token
      /\ stage' = "verified" => /\ platform \in {"WHATSAPP", "MESSENGER"} => entered.id = entered.token
                                /\ platform = "WHATSAPP" => entered.business = entered.id
  <2>1. CASE Accounts!VerifyFirst
    <3>1. CASE platform = "WHATSAPP"
      <4>1. stage = "form" /\ stage' = Accounts!verifyWhatsApp BY <2>1, <3>1, Zenon DEF Accounts!VerifyFirst
      <4> QED BY <3>1, <4>1 DEF Accounts!verifyWhatsApp
    <3>2. CASE platform = "MESSENGER"
      <4>1. stage = "form" /\ stage' = Accounts!verifyMessenger BY <2>1, <3>2, Zenon DEF Accounts!VerifyFirst
      <4> QED BY <3>2, <4>1 DEF Accounts!verifyMessenger
    <3>3. CASE platform = "INSTAGRAM"
      <4>1. stage = "form" /\ stage' = Accounts!verifyInstagram BY <2>1, <3>3, Zenon DEF Accounts!VerifyFirst
      <4> QED BY <3>3, <4>1 DEF Accounts!verifyInstagram
    <3>4. CASE platform = "LINE"
      <4>1. stage = "form" /\ stage' = Accounts!verifyLine BY <2>1, <3>4, Zenon DEF Accounts!VerifyFirst
      <4> QED BY <3>4, <4>1 DEF Accounts!verifyLine
    <3> QED BY <3>1, <3>2, <3>3, <3>4 DEF AccountTypes, Accounts!Platform
  <2>2. CASE Accounts!VerifyOwner BY <2>2 DEF Accounts!VerifyOwner, Accounts!Owned, VerifiedInv
  <2>3. CASE Accounts!VerifyThrows BY <2>3 DEF Accounts!VerifyThrows
  <2> QED BY <2>1, <2>2, <2>3
<1>4. AccountTypes' BY <1>1, <1>3 DEF AccountTypes
<1>5. VerifiedInv' BY <1>1, <1>3 DEF VerifiedInv, Accounts!IdentifiersBelongTogether
<1>6. RegistrationInv' BY <1>1, <1>3 DEF RegistrationInv
<1>7. CalledIfSaid BY <1>1, <1>3 DEF CalledIfSaid
<1> QED BY <1>2, <1>4, <1>5, <1>6, <1>7

\* The webhook is registered, in one request or two, and any may fail.
LEMMA RegisterStep ==
    ASSUME AccountsInv,
           \/ \E secure \in BOOLEAN : Accounts!Subscribe(secure)
           \/ \E accepted \in BOOLEAN : Accounts!Override(accepted)
           \/ Accounts!ReadEndpoint \/ Accounts!RegisterThrows
    PROVE  AccountsInv' /\ CalledIfSaid
<1> USE DEF AccountsInv
<1>1. UNCHANGED <<platform, entered, toggles, healthy, file, read>>
  BY DEF Accounts!Subscribe, Accounts!Override, Accounts!ReadEndpoint, Accounts!RegisterThrows, Accounts!account, Accounts!download
<1>2. DownloadInv' BY <1>1, DownloadKept
<1>3. stage \in {"verified", "subscribed"} /\ stage' \in {"subscribed", "done"}
  BY DEF Accounts!Subscribe, Accounts!Override, Accounts!ReadEndpoint, Accounts!RegisterThrows
<1>4. VerifiedInv' BY <1>1, <1>3 DEF VerifiedInv, Accounts!IdentifiersBelongTogether
<1>5. ASSUME NEW side, NEW more \in BOOLEAN, side \in [subscribed : BOOLEAN, url : BOOLEAN, on : BOOLEAN],
             side.on = console.on, platform = "WHATSAPP" => side.subscribed, platform = "LINE" /\ more => side.url,
             stage = "verified", console' = side, stage' = IF more THEN "subscribed" ELSE "done",
             told' = ~more, registered' = registered
      PROVE  AccountTypes' /\ RegistrationInv' /\ CalledIfSaid
  <2>1. told' \in BOOLEAN /\ (told' <=> ~more) BY <1>5, Zenon
  <2>2. AccountTypes' BY <1>1, <1>3, <1>5, <2>1, Zenon DEF AccountTypes
  <2>3. stage' = "done" => told'
    <3>1. stage' = "done" => ~more BY <1>5
    <3> QED BY <2>1, <3>1, Zenon
  <2>4. stage' = "subscribed" => more BY <1>5
  <2>5. platform # "LINE" => side.on BY <1>5 DEF RegistrationInv
  <2>6. RegistrationInv' BY <1>1, <1>3, <1>5, <2>3, <2>4, <2>5, Zenon DEF RegistrationInv
  <2>7. CalledIfSaid BY <1>1, <1>5, <2>3, Zenon DEF CalledIfSaid
  <2> QED BY <2>2, <2>6, <2>7
<1>6. ASSUME registered' \in BOOLEAN, told' \in BOOLEAN, registered' \/ told', stage' = "done",
             console' \in [subscribed : BOOLEAN, url : BOOLEAN, on : BOOLEAN],
             registered' => console'.url /\ console'.on /\ (platform = "WHATSAPP" => console'.subscribed)
      PROVE  AccountTypes' /\ RegistrationInv' /\ CalledIfSaid
  <2>2. AccountTypes' BY <1>1, <1>3, <1>6, Zenon DEF AccountTypes
  <2>3. RegistrationInv' BY <1>6 DEF RegistrationInv
  <2>4. CalledIfSaid BY <1>1, <1>6, Zenon DEF CalledIfSaid, Accounts!Delivers
  <2> QED BY <2>2, <2>3, <2>4
<1>7. ASSUME NEW secure \in BOOLEAN, Accounts!Subscribe(secure) PROVE AccountTypes' /\ RegistrationInv' /\ CalledIfSaid
  <2> DEFINE subscribed == [console EXCEPT !.subscribed = TRUE]
             called == [console EXCEPT !.url = @ \/ secure]
  <2>1. /\ subscribed \in [subscribed : BOOLEAN, url : BOOLEAN, on : BOOLEAN]
        /\ subscribed.on = console.on /\ subscribed.subscribed
    BY DEF AccountTypes
  <2>2. /\ called \in [subscribed : BOOLEAN, url : BOOLEAN, on : BOOLEAN]
        /\ called.on = console.on /\ (secure => called.url)
    BY Zenon DEF AccountTypes
  <2>3. stage = "verified" /\ registered' = registered BY <1>7 DEF Accounts!Subscribe
  <2>4. CASE platform = "WHATSAPP"
    <3>1. /\ console' = Accounts!Then(subscribed, secure).side
          /\ stage' = IF Accounts!Then(subscribed, secure).more THEN "subscribed" ELSE "done"
          /\ told' = ~Accounts!Then(subscribed, secure).more
      BY <1>7, <2>4, Zenon DEF Accounts!Subscribe, Accounts!registerWhatsApp
    <3>2. Accounts!Then(subscribed, secure).side = subscribed /\ Accounts!Then(subscribed, secure).more = secure
      BY Zenon DEF Accounts!Then
    <3> HIDE DEF subscribed
    <3> QED BY <1>5, <2>1, <2>3, <2>4, <3>1, <3>2
  <2>5. CASE platform \in {"MESSENGER", "INSTAGRAM"}
    <3>1. /\ console' = Accounts!Then(subscribed, FALSE).side
          /\ stage' = IF Accounts!Then(subscribed, FALSE).more THEN "subscribed" ELSE "done"
          /\ told' = ~Accounts!Then(subscribed, FALSE).more
      BY <1>7, <2>5, Zenon DEF Accounts!Subscribe, Accounts!registerMessenger, Accounts!registerInstagram
    <3>2. Accounts!Then(subscribed, FALSE).side = subscribed /\ Accounts!Then(subscribed, FALSE).more = FALSE
      BY Zenon DEF Accounts!Then
    <3> HIDE DEF subscribed
    <3> QED BY <1>5, <2>1, <2>3, <2>5, <3>1, <3>2
  <2>6. CASE platform = "LINE"
    <3>1. /\ console' = Accounts!Then(called, secure).side
          /\ stage' = IF Accounts!Then(called, secure).more THEN "subscribed" ELSE "done"
          /\ told' = ~Accounts!Then(called, secure).more
      BY <1>7, <2>6, Zenon DEF Accounts!Subscribe, Accounts!registerLine
    <3>2. Accounts!Then(called, secure).side = called /\ Accounts!Then(called, secure).more = secure
      BY Zenon DEF Accounts!Then
    <3> HIDE DEF called
    <3> QED BY <1>5, <2>2, <2>3, <2>6, <3>1, <3>2
  <2> QED BY <2>4, <2>5, <2>6 DEF AccountTypes, Accounts!Platform
<1>8. ASSUME NEW accepted \in BOOLEAN, Accounts!Override(accepted) PROVE AccountTypes' /\ RegistrationInv' /\ CalledIfSaid
  <2>1. /\ platform = "WHATSAPP" /\ stage = "subscribed" /\ stage' = "done" /\ registered' = accepted /\ told' = ~accepted
        /\ console' = IF accepted THEN [console EXCEPT !.url = TRUE] ELSE console
    BY <1>8 DEF Accounts!Override
  <2>2. /\ console' \in [subscribed : BOOLEAN, url : BOOLEAN, on : BOOLEAN]
        /\ accepted => console'.url /\ console'.on = console.on /\ console'.subscribed = console.subscribed
    BY <2>1 DEF AccountTypes
  <2>3. console.on /\ console.subscribed BY <2>1 DEF RegistrationInv
  <2>4. registered' \in BOOLEAN /\ told' \in BOOLEAN /\ (registered' \/ told') /\ (registered' => accepted)
    BY <2>1, Zenon
  <2>5. registered' => console'.url /\ console'.on /\ console'.subscribed BY <2>2, <2>3, <2>4, Zenon
  <2> QED BY <1>6, <2>1, <2>2, <2>4, <2>5, Zenon
<1>9. CASE Accounts!ReadEndpoint
  <2>1. /\ platform = "LINE" /\ stage = "subscribed" /\ stage' = "done" /\ console' = console
        /\ registered' = console.on /\ told' = ~console.on
    BY <1>9 DEF Accounts!ReadEndpoint, Accounts!EndpointActive, Accounts!account
  <2>2. console.url BY <2>1 DEF RegistrationInv
  <2>3. console.on \in BOOLEAN /\ console' \in [subscribed : BOOLEAN, url : BOOLEAN, on : BOOLEAN]
    BY <2>1 DEF AccountTypes
  <2>4. registered' \in BOOLEAN /\ told' \in BOOLEAN /\ (registered' \/ told') /\ (registered' => console.on)
    BY <2>1, <2>3, Zenon
  <2>5. registered' => console'.url /\ console'.on BY <2>1, <2>2, <2>4, Zenon
  <2>6. platform # "WHATSAPP" BY <2>1
  <2>7. stage' = "done" BY <2>1
  <2>8. registered' => console'.url /\ console'.on /\ (platform = "WHATSAPP" => console'.subscribed) BY <2>5, <2>6
  <2>9. registered' \/ told' BY <2>4
  <2> QED BY <1>2, <1>4, <1>6, <2>3, <2>4, <2>7, <2>8, <2>9
<1>10. CASE Accounts!RegisterThrows
  <2>1. stage' = "done" /\ console' = console /\ registered' = FALSE /\ told' = TRUE
    BY <1>10 DEF Accounts!RegisterThrows, Accounts!account
  <2>2. console' \in [subscribed : BOOLEAN, url : BOOLEAN, on : BOOLEAN] BY <2>1 DEF AccountTypes
  <2>3. registered' \in BOOLEAN /\ told' \in BOOLEAN /\ told' /\ ~registered' BY <2>1, Zenon
  <2>4. stage' = "done" BY <2>1
  <2>5. registered' => console'.url /\ console'.on /\ (platform = "WHATSAPP" => console'.subscribed) BY <2>3
  <2>6. registered' \/ told' BY <2>3
  <2> QED BY <1>2, <1>4, <1>6, <2>2, <2>3, <2>4, <2>5, <2>6
<1> QED BY <1>2, <1>4, <1>7, <1>8, <1>9, <1>10

\* The webhook is taken away.
LEMMA UnregisterStep == ASSUME AccountsInv, Accounts!unregisterWebhook PROVE AccountsInv' /\ CalledIfSaid
<1> USE DEF AccountsInv
<1>1. /\ UNCHANGED <<platform, entered, toggles, told, healthy, file, read>> /\ stage' = "refused" /\ registered' = FALSE
      /\ console' = IF platform = "WHATSAPP" THEN [console EXCEPT !.url = FALSE] ELSE [console EXCEPT !.subscribed = FALSE]
  BY DEF Accounts!unregisterWebhook, Accounts!unregisterWhatsApp, Accounts!unregisterMessenger, Accounts!download
<1>2. DownloadInv' BY <1>1, DownloadKept
<1>3. console' \in [subscribed : BOOLEAN, url : BOOLEAN, on : BOOLEAN] BY <1>1 DEF AccountTypes
<1>4. registered' \in BOOLEAN /\ ~registered' BY <1>1, Zenon
<1>5. AccountTypes' BY <1>1, <1>3, <1>4, Zenon DEF AccountTypes
<1>6. VerifiedInv' BY <1>1 DEF VerifiedInv, Accounts!IdentifiersBelongTogether
<1>7. RegistrationInv' /\ CalledIfSaid BY <1>1, <1>4 DEF RegistrationInv, CalledIfSaid
<1> QED BY <1>2, <1>5, <1>6, <1>7

\* The admin works in the provider's console, after the registration.
LEMMA ConsoleStep == ASSUME AccountsInv, Accounts!Console PROVE AccountsInv' /\ CalledIfSaid
<1> USE DEF AccountsInv
<1>1. /\ UNCHANGED <<platform, entered, stage, registered, told, healthy, file, read>> /\ stage = "done"
      /\ toggles < MaxToggle /\ toggles' = toggles + 1
      /\ console' = [console EXCEPT !.on = ~@] \/ console' = [console EXCEPT !.url = ~@]
  BY DEF Accounts!Console, Accounts!download
<1>2. DownloadInv' BY <1>1, DownloadKept
<1>3. console' \in [subscribed : BOOLEAN, url : BOOLEAN, on : BOOLEAN] BY <1>1, Zenon DEF AccountTypes
<1>4. toggles' \in 0 .. MaxToggle BY <1>1, BoundsAssumption DEF AccountTypes
<1>5. AccountTypes' BY <1>1, <1>3, <1>4, Zenon DEF AccountTypes
<1>6. VerifiedInv' BY <1>1 DEF VerifiedInv, Accounts!IdentifiersBelongTogether
<1>7. RegistrationInv' /\ CalledIfSaid BY <1>1 DEF RegistrationInv, CalledIfSaid
<1> QED BY <1>2, <1>5, <1>6, <1>7

\* The channel is checked.
LEMMA HealthCheckStep == ASSUME AccountsInv, Accounts!healthCheck PROVE AccountsInv' /\ CalledIfSaid
<1> USE DEF AccountsInv
<1>1. UNCHANGED <<platform, entered, console, toggles, stage, registered, told, file, read>>
  BY DEF Accounts!healthCheck, Accounts!account, Accounts!download
<1>2. DownloadInv' BY <1>1, DownloadKept
<1>3. healthy' \in {"yes", "no"} BY DEF Accounts!healthCheck
<1>4. platform = "LINE" /\ healthy' = "yes" => console.on /\ console.url
  <2> SUFFICES ASSUME platform = "LINE", healthy' = "yes" PROVE console.on /\ console.url OBVIOUS
  <2>1. healthy' = IF Accounts!LineActive THEN "yes" ELSE "no" BY Zenon DEF Accounts!healthCheck
  <2>2. Accounts!LineActive BY <2>1
  <2> QED BY <2>2 DEF Accounts!LineActive
<1>5. AccountTypes' BY <1>1, <1>3, Zenon DEF AccountTypes
<1>6. VerifiedInv' BY <1>1 DEF VerifiedInv, Accounts!IdentifiersBelongTogether
<1>7. RegistrationInv' BY <1>1 DEF RegistrationInv
<1>8. CalledIfSaid BY <1>1, <1>4 DEF CalledIfSaid, Accounts!Delivers, RegistrationInv
<1> QED BY <1>2, <1>5, <1>6, <1>7, <1>8

\* Every step of an administrator, of the provider and of a download.
LEMMA AccountsNext == ASSUME AccountsInv, Accounts!Next PROVE AccountsInv' /\ CalledIfSaid
BY DownloadStep, VerifyStep, RegisterStep, UnregisterStep, ConsoleStep, HealthCheckStep DEF Accounts!Next

\* What the invariant says of an account.
LEMMA AccountsInvImplies ==
    ASSUME AccountsInv
    PROVE  Accounts!TypeOK /\ Accounts!IdentifiersBelongTogether /\ Accounts!HeldWithinLimit
<1>1. read \in 0 .. Limit + 1 BY BoundsAssumption DEF AccountsInv, DownloadInv, Accounts!HeldWithinLimit
<1>2. file.state \in {"idle", "reading", "held", "refused"} BY DEF AccountsInv, DownloadInv
<1> QED BY <1>1, <1>2, Zenon DEF AccountsInv, AccountTypes, VerifiedInv, DownloadInv, Accounts!TypeOK

\* What both parts rest on.
SetupInv == (part = "accounts" => AccountsInv) /\ (part = "keys" => KeysInv)

\* No account is connected yet.
LEMMA SetupInit == Init => SetupInv
BY AccountsInit, KeysInit DEF Init, SetupInv

\* A step of another part changes neither.
LEMMA SetupNext == SetupInv /\ [Next]_vars => SetupInv' /\ [CalledIfSaid]_avars /\ [SecretsKept]_kvars
<1> SUFFICES ASSUME SetupInv, [Next]_vars PROVE SetupInv' /\ [CalledIfSaid]_avars /\ [SecretsKept]_kvars
  OBVIOUS
<1>1. part' = part BY DEF Next, vars
<1>2. CASE part = "accounts" /\ Accounts!Next /\ UNCHANGED kvars BY <1>1, <1>2, AccountsNext DEF SetupInv
<1>3. CASE part = "keys" /\ Keys!Next /\ UNCHANGED avars BY <1>1, <1>3, KeysNext DEF SetupInv
<1>4. CASE UNCHANGED <<avars, kvars>>
  <2>1. KeysInv => KeysInv' BY <1>4 DEF kvars, KeysInv, Deployed, Keys!None
  <2>2. AccountsInv => AccountsInv' BY <1>4, RegistrationKept, DownloadKept DEF avars, AccountsInv
  <2> QED BY <1>1, <1>4, <2>1, <2>2 DEF SetupInv
<1> QED BY <1>2, <1>3, <1>4 DEF Next, vars

(* An account that is connected has identifiers that belong together, a download keeps within    *)
(* the limit whatever was declared (readCapped), and a process that runs with the deployed keys  *)
(* opens every stored envelope (credential-cipher.ts), for any number of processes and accounts. *)
THEOREM ConnectedIsUsable == Spec => []AccountsAreUsable
<1>1. Init => SetupInv BY SetupInit
<1>2. SetupInv /\ [Next]_vars => SetupInv' BY SetupNext
<1>3. SetupInv => AccountsAreUsable BY AccountsInvImplies, KeysInvImplies DEF SetupInv, AccountsAreUsable
<1> QED BY <1>1, <1>2, <1>3, PTL DEF Spec

(* A webhook is reported as registered only when the provider calls it, and generated secrets    *)
(* survive every reconnect except one by a process that a rolling restart has not reached.       *)
THEOREM SetupIsTrue == Spec => SetupStaysTrue
<1>1. Init => SetupInv BY SetupInit
<1>2. SetupInv /\ [Next]_vars => SetupInv' BY SetupNext
<1>3. SetupInv /\ [Next]_vars => [CalledIfSaid]_(Accounts!vars)
  <2>1. UNCHANGED avars => UNCHANGED Accounts!vars BY DEF avars, Accounts!vars
  <2> QED BY <2>1, SetupNext
<1>4. SetupInv /\ [Next]_vars => [SecretsKept]_(Keys!vars)
  <2>1. UNCHANGED kvars => UNCHANGED Keys!vars BY DEF kvars, Keys!vars
  <2> QED BY <2>1, SetupNext
<1>5. Spec => [][CalledIfSaid]_(Accounts!vars) /\ [][SecretsKept]_(Keys!vars) BY <1>1, <1>2, <1>3, <1>4, PTL DEF Spec
<1>6. [][CalledIfSaid]_(Accounts!vars) => Accounts!RegisteredIsCalled
  BY PTL DEF CalledIfSaid, Accounts!RegisteredIsCalled
<1>7. [][SecretsKept]_(Keys!vars) => Keys!SecretsSurviveReconnect
  BY PTL DEF SecretsKept, Keys!SecretsSurviveReconnect
<1> QED BY <1>5, <1>6, <1>7 DEF SetupStaysTrue

-----------------------------------------------------------------------------
(* Telegram updates *)

\* A set of natural numbers has a least element.
LEMMA LeastNatural == ASSUME NEW T, T \subseteq Nat, T # {} PROVE \E x \in T : \A y \in T : x <= y
<1> DEFINE R == OpToRel(<, Nat)
<1>1. IsWellFoundedOn(R, Nat) BY NatLessThanWellFounded
<1>2. \A x, y \in Nat : y < x => <<y, x>> \in R BY DEF OpToRel
<1> HIDE DEF R
<1>3. PICK x \in T : \A y \in T : <<y, x>> \notin R BY <1>1, WFMin
<1>4. ASSUME NEW y \in T PROVE x <= y
  <2>1. x \in Nat /\ y \in Nat OBVIOUS
  <2>2. ~(y < x) BY <2>1, <1>2, <1>3
  <2> QED BY <2>1, <2>2
<1> QED BY <1>4

\* A set of numbers with a bound has a largest one.
LEMMA LargestBelow == ASSUME NEW N \in Nat, NEW T, T \subseteq 0 .. N, T # {} PROVE \E x \in T : \A y \in T : y <= x
<1> DEFINE U == {N - x : x \in T}
<1>0. \A x \in T : x \in Int /\ x <= N /\ N - x \in Nat OBVIOUS
<1>1. U \subseteq Nat /\ U # {}
  <2>1. PICK x \in T : TRUE OBVIOUS
  <2>2. N - x \in U OBVIOUS
  <2> QED BY <1>0, <2>2
<1>2. PICK u \in U : \A v \in U : u <= v BY <1>1, LeastNatural
<1>3. PICK x \in T : u = N - x BY <1>2
<1>4. ASSUME NEW y \in T PROVE y <= x
  <2>1. N - y \in U OBVIOUS
  <2>2. N - x <= N - y BY <2>1, <1>2, <1>3
  <2>3. x \in Int /\ y \in Int OBVIOUS
  <2> QED BY <2>2, <2>3
<1> QED BY <1>4


AskedType == [pc : {"idle", "asked", "answered"}, offset : Nat, ids : SUBSET Nat]

UpdateTypes ==
    /\ https \in BOOLEAN /\ note \in BOOLEAN /\ result \in BOOLEAN
    /\ mode = (IF https THEN "WEBHOOK" ELSE "POLLING")
    /\ webhook \in {"none", "set"} /\ joining \in {"no", "call", "save"}
    /\ latest \in 0 .. MaxUpdate /\ trouble \in 0 .. MaxTrouble
    /\ queue \subseteq 1 .. latest /\ journaled \subseteq 1 .. latest
    /\ offset \in 0 .. latest + 1
    /\ asked \in AskedType /\ asked.offset \in 0 .. latest + 1 /\ asked.ids \subseteq 1 .. latest

\* What is below an offset is journaled, and so is what is below an answer and not in it.
OffsetInv ==
    /\ \A u \in 1 .. latest : u \in queue \cup journaled
    /\ \A u \in 1 .. latest : u < offset \/ u < asked.offset => u \in journaled
    /\ \A w \in asked.ids : \A u \in 1 .. w : u \in asked.ids \cup journaled

\* Without HTTPS the registration ends in a note, whether it failed or not.
NoteInv ==
    /\ joining = "save" /\ ~https => result
    /\ joining = "no" /\ ~https => note

UpdatesInv == UpdateTypes /\ OffsetInv /\ NoteInv

\* A new channel has no update and no webhook.
LEMMA UpdatesInit == ASSUME Updates!Init PROVE UpdatesInv
<1> USE UpdatesAssumption DEF Updates!Init, Updates!NoCall
<1>1. note \in BOOLEAN /\ result \in BOOLEAN BY Zenon
<1>2. /\ asked \in AskedType /\ asked.offset \in 0 .. latest + 1 /\ asked.ids \subseteq 1 .. latest
      /\ asked.ids = {}
  BY DEF AskedType
<1>3. UpdateTypes BY <1>1, <1>2 DEF UpdateTypes
<1>4. OffsetInv BY <1>2 DEF OffsetInv
<1>5. NoteInv BY DEF NoteInv
<1> QED BY <1>3, <1>4, <1>5 DEF UpdatesInv

\* A step that leaves the updates alone, and the polls.
LEMMA OffsetKept ==
    ASSUME OffsetInv, UNCHANGED <<latest, queue, journaled, offset, asked>>
    PROVE  OffsetInv'
BY DEF OffsetInv

\* The registration.
LEMMA RegistrationStep ==
    ASSUME UpdatesInv, Updates!registerWebhook \/ Updates!RegisterFails \/ Updates!registerInbound
                       \/ Updates!Reconnect \/ Updates!WebhookRemoved
    PROVE  UpdatesInv'
<1> USE UpdatesAssumption DEF UpdatesInv
<1>1. UNCHANGED <<latest, queue, journaled, offset, asked>>
  BY DEF Updates!registerWebhook, Updates!RegisterFails, Updates!registerInbound, Updates!Reconnect,
         Updates!WebhookRemoved, Updates!rowVars, Updates!pollVars, Updates!QueueAfterDelete
<1>2. OffsetInv' BY <1>1, OffsetKept
<1>3. CASE Updates!registerWebhook
  <2>1. /\ UNCHANGED <<https, mode, note, trouble>> /\ joining' = "save" /\ webhook' \in {"none", "set"}
        /\ IF https THEN result' = FALSE ELSE result' = TRUE
    BY <1>3 DEF Updates!registerWebhook, Updates!rowVars
  <2>2. result' \in BOOLEAN /\ (~https => result') BY <2>1, Zenon
  <2>3. UpdateTypes' BY <1>1, <2>1, <2>2 DEF UpdateTypes
  <2> QED BY <1>2, <2>1, <2>2, <2>3 DEF NoteInv
<1>4. CASE Updates!RegisterFails
  <2>1. /\ UNCHANGED <<https, mode, note, webhook>> /\ joining' = "save" /\ trouble' = trouble + 1 /\ trouble < MaxTrouble
    BY <1>4 DEF Updates!RegisterFails, Updates!rowVars
  <2>2. result' \in BOOLEAN /\ result' BY <1>4, Zenon DEF Updates!RegisterFails, Updates!NoteOfFailure
  <2>3. trouble' \in 0 .. MaxTrouble BY <2>1 DEF UpdateTypes
  <2>4. UpdateTypes' BY <1>1, <2>1, <2>2, <2>3 DEF UpdateTypes
  <2> QED BY <1>2, <2>1, <2>2, <2>4 DEF NoteInv
<1>5. CASE Updates!registerInbound
  <2>1. UNCHANGED <<https, mode, webhook, result, trouble>> /\ joining' = "no" /\ joining = "save" /\ note' = result
    BY <1>5 DEF Updates!registerInbound
  <2>2. note' \in BOOLEAN /\ (~https => note') BY <2>1, Zenon DEF NoteInv, UpdateTypes
  <2>3. UpdateTypes' BY <1>1, <2>1, <2>2 DEF UpdateTypes
  <2> QED BY <1>2, <2>1, <2>2, <2>3 DEF NoteInv
<1>6. CASE Updates!Reconnect
  <2>1. /\ UNCHANGED <<webhook, result>> /\ joining' = "call" /\ trouble' = trouble + 1 /\ trouble < MaxTrouble
        /\ https' \in BOOLEAN /\ mode' = IF https' THEN "WEBHOOK" ELSE "POLLING"
    BY <1>6 DEF Updates!Reconnect
  <2>2. note' \in BOOLEAN BY <1>6, Zenon DEF Updates!Reconnect
  <2>3. trouble' \in 0 .. MaxTrouble BY <2>1 DEF UpdateTypes
  <2>4. UpdateTypes' BY <1>1, <2>1, <2>2, <2>3 DEF UpdateTypes
  <2> QED BY <1>2, <2>1, <2>4 DEF NoteInv
<1>7. CASE Updates!WebhookRemoved
  <2>1. /\ UNCHANGED <<https, mode, note, joining, result>> /\ webhook' = "none" /\ trouble' = trouble + 1
        /\ trouble < MaxTrouble
    BY <1>7 DEF Updates!WebhookRemoved, Updates!rowVars
  <2>2. trouble' \in 0 .. MaxTrouble BY <2>1 DEF UpdateTypes
  <2>3. UpdateTypes' BY <1>1, <2>1, <2>2 DEF UpdateTypes
  <2> QED BY <1>2, <2>1, <2>3 DEF NoteInv
<1> QED BY <1>3, <1>4, <1>5, <1>6, <1>7

\* An update arrives at Telegram.
LEMMA NewUpdateStep == ASSUME UpdatesInv, Updates!NewUpdate PROVE UpdatesInv'
<1> USE UpdatesAssumption DEF UpdatesInv
<1>1. /\ UNCHANGED <<https, mode, note, webhook, joining, result, trouble, offset, asked, journaled>>
      /\ latest < MaxUpdate /\ latest' = latest + 1 /\ queue' = queue \cup {latest'}
  BY DEF Updates!NewUpdate, Updates!rowVars, Updates!pollVars
<1>2. latest \in Nat /\ latest' \in 0 .. MaxUpdate BY <1>1 DEF UpdateTypes
<1>3. \A u : u \in 1 .. latest' <=> u \in 1 .. latest \/ u = latest' BY <1>1, <1>2
<1>4. UpdateTypes'
  <2>1. queue' \subseteq 1 .. latest' /\ journaled \subseteq 1 .. latest' /\ asked.ids \subseteq 1 .. latest'
    BY <1>1, <1>3 DEF UpdateTypes
  <2>2. offset \in 0 .. latest' + 1 /\ asked.offset \in 0 .. latest' + 1 BY <1>1, <1>2 DEF UpdateTypes
  <2> QED BY <1>1, <1>2, <2>1, <2>2 DEF UpdateTypes
<1>5. OffsetInv'
  <2>1. \A u \in 1 .. latest' : u \in queue' \cup journaled BY <1>1, <1>3 DEF OffsetInv
  <2>2. ~(latest' < offset) /\ ~(latest' < asked.offset) BY <1>1, <1>2 DEF UpdateTypes
  <2>3. \A u \in 1 .. latest' : u < offset \/ u < asked.offset => u \in journaled BY <1>3, <2>2 DEF OffsetInv
  <2> QED BY <1>1, <2>1, <2>3 DEF OffsetInv
<1>6. NoteInv' BY <1>1 DEF NoteInv
<1> QED BY <1>4, <1>5, <1>6

\* Telegram calls the webhook; the update is journaled before it is forgotten.
LEMMA WebhookStep == ASSUME UpdatesInv, NEW answered \in BOOLEAN, Updates!Webhook(answered) PROVE UpdatesInv'
<1> USE UpdatesAssumption DEF UpdatesInv
<1> DEFINE u == CHOOSE x \in queue : \A y \in queue : x <= y
<1>1. /\ UNCHANGED <<https, mode, note, webhook, joining, result, latest, offset, asked>>
      /\ queue # {} /\ journaled' = journaled \cup {u} /\ queue' = IF answered THEN queue \ {u} ELSE queue
      /\ trouble' = trouble \/ (trouble < MaxTrouble /\ trouble' = trouble + 1)
  BY DEF Updates!Webhook, Updates!rowVars
<1>2. u \in queue
  <2>1. queue \subseteq Nat BY DEF UpdateTypes
  <2>2. \E x \in queue : \A y \in queue : x <= y BY <1>1, <2>1, LeastNatural
  <2> QED BY <2>2
<1> HIDE DEF u
<1>3. UpdateTypes'
  <2>1. trouble' \in 0 .. MaxTrouble BY <1>1 DEF UpdateTypes
  <2>2. queue' \subseteq 1 .. latest /\ journaled' \subseteq 1 .. latest BY <1>1, <1>2 DEF UpdateTypes
  <2> QED BY <1>1, <2>1, <2>2 DEF UpdateTypes
<1>4. OffsetInv' BY <1>1, <1>2 DEF OffsetInv
<1>5. NoteInv' BY <1>1 DEF NoteInv
<1> QED BY <1>3, <1>4, <1>5

\* A poll begins, or ends without a result.
LEMMA PollBeginsStep == ASSUME UpdatesInv, Updates!PollStarts \/ Updates!PollFails PROVE UpdatesInv'
<1> USE UpdatesAssumption DEF UpdatesInv
<1>1. /\ UNCHANGED <<https, mode, note, webhook, joining, result, latest, offset, queue, journaled>>
      /\ trouble' = trouble \/ (trouble < MaxTrouble /\ trouble' = trouble + 1)
  BY DEF Updates!PollStarts, Updates!PollFails, Updates!rowVars
<1>2. asked' \in AskedType /\ asked'.offset \in {0, offset} /\ asked'.ids = {}
  <2>1. offset \in Nat BY DEF UpdateTypes
  <2>2. CASE Updates!PollStarts
    <3>1. asked' = [pc |-> "asked", offset |-> offset, ids |-> {}] BY <2>2 DEF Updates!PollStarts, Updates!NoCall
    <3> QED BY <2>1, <3>1 DEF AskedType
  <2>3. CASE Updates!PollFails BY <2>3 DEF Updates!PollFails, Updates!NoCall, AskedType
  <2> QED BY <2>2, <2>3
<1>3. UpdateTypes'
  <2>1. trouble' \in 0 .. MaxTrouble BY <1>1 DEF UpdateTypes
  <2>2. asked'.offset \in 0 .. latest + 1 BY <1>2 DEF UpdateTypes
  <2> QED BY <1>1, <1>2, <2>1, <2>2 DEF UpdateTypes
<1>4. OffsetInv' BY <1>1, <1>2 DEF OffsetInv
<1>5. NoteInv' BY <1>1 DEF NoteInv
<1> QED BY <1>3, <1>4, <1>5

\* Telegram forgets what is below the offset, which is journaled, and answers with the oldest of the rest.
LEMMA getUpdatesStep == ASSUME UpdatesInv, Updates!getUpdates PROVE UpdatesInv'
<1> USE UpdatesAssumption DEF UpdatesInv
<1> DEFINE kept == {u \in queue : u >= asked.offset}
           ids == {u \in kept : \A v \in kept : v <= u => u < v + PollLimit}
<1>1. UNCHANGED <<https, mode, note, webhook, joining, result, latest, offset, journaled, trouble>>
  BY DEF Updates!getUpdates, Updates!rowVars
<1>2. NoteInv' BY <1>1 DEF NoteInv
<1>3. CASE webhook = "set"
  <2>1. asked' = Updates!NoCall /\ queue' = queue BY <1>3 DEF Updates!getUpdates
  <2>2. asked' \in AskedType /\ asked'.offset = 0 /\ asked'.ids = {} BY <2>1 DEF Updates!NoCall, AskedType
  <2>3. UpdateTypes' BY <1>1, <2>1, <2>2 DEF UpdateTypes
  <2>4. OffsetInv' BY <1>1, <2>1, <2>2 DEF OffsetInv
  <2> QED BY <1>2, <2>3, <2>4
<1>4. CASE webhook # "set"
  <2>1. queue' = kept /\ asked' = [asked EXCEPT !.pc = "answered", !.ids = ids] BY <1>4 DEF Updates!getUpdates
  <2>3. kept \subseteq 1 .. latest /\ ids \subseteq kept /\ ids \in SUBSET Nat
    <3>1. kept \subseteq queue OBVIOUS
    <3>2. ids \subseteq kept OBVIOUS
    <3> HIDE DEF kept, ids
    <3> QED BY <3>1, <3>2 DEF UpdateTypes
  <2>2. asked' \in AskedType /\ asked'.offset = asked.offset /\ asked'.ids = ids
    <3> HIDE DEF kept, ids
    <3> QED BY <2>1, <2>3 DEF AskedType, UpdateTypes
  <2>4. UpdateTypes' BY <1>1, <2>1, <2>2, <2>3 DEF UpdateTypes
  <2>5. \A u \in 1 .. latest : u \in kept \/ u \in journaled
    <3>1. ASSUME NEW u \in 1 .. latest, u \notin journaled PROVE u \in kept
      <4>1. u \in queue /\ ~(u < asked.offset) BY <3>1 DEF OffsetInv
      <4> QED BY <4>1 DEF UpdateTypes
    <3> QED BY <3>1
  <2>6. ASSUME NEW w \in ids, NEW u \in 1 .. w PROVE u \in ids \cup journaled
    <3>1. w \in 1 .. latest /\ u \in 1 .. latest BY <2>3 DEF UpdateTypes
    <3>2. SUFFICES ASSUME u \in kept PROVE u \in ids BY <2>5, <3>1
    <3>3. ASSUME NEW v \in kept, v <= u PROVE u < v + PollLimit
      <4>1. v \in Int /\ u \in Int /\ w \in Int /\ u <= w BY <2>3, <3>1
      <4>2. w < v + PollLimit BY <3>3, <4>1
      <4> QED BY <4>1, <4>2
    <3> QED BY <3>2, <3>3
  <2> HIDE DEF kept, ids
  <2>7. OffsetInv' BY <1>1, <2>1, <2>2, <2>5, <2>6 DEF OffsetInv
  <2> QED BY <1>2, <2>4, <2>7
<1> QED BY <1>3, <1>4

\* The updates and the offset are saved in one transaction.
LEMMA PollSavedStep == ASSUME UpdatesInv, Updates!PollSaved PROVE UpdatesInv'
<1> USE UpdatesAssumption DEF UpdatesInv
<1>1. /\ UNCHANGED <<https, mode, note, webhook, joining, result, latest, queue, trouble>>
      /\ journaled' = journaled \cup asked.ids /\ offset' = Updates!NextOffset(asked.ids) /\ asked' = Updates!NoCall
  BY DEF Updates!PollSaved
<1>2. asked' \in AskedType /\ asked'.offset = 0 /\ asked'.ids = {} BY <1>1 DEF Updates!NoCall, AskedType
<1>3. offset' \in 0 .. latest + 1 /\ \A u \in 1 .. latest : u < offset' => u \in journaled'
  <2>1. CASE asked.ids = {}
    <3>1. offset' = asked.offset BY <1>1, <2>1 DEF Updates!NextOffset
    <3> QED BY <1>1, <3>1 DEF UpdateTypes, OffsetInv
  <2>2. CASE asked.ids # {}
    <3> DEFINE m == CHOOSE x \in asked.ids : \A y \in asked.ids : y <= x
    <3>1. m \in asked.ids
      <4>1. latest \in Nat /\ asked.ids \subseteq 0 .. latest BY DEF UpdateTypes
      <4>2. \E x \in asked.ids : \A y \in asked.ids : y <= x BY <2>2, <4>1, LargestBelow
      <4> QED BY <4>2
    <3>2. offset' = m + 1 BY <1>1, <2>2 DEF Updates!NextOffset
    <3> HIDE DEF m
    <3>3. m \in 1 .. latest /\ latest \in Nat BY <3>1 DEF UpdateTypes
    <3>4. \A u \in 1 .. latest : u < m + 1 => u \in 1 .. m BY <3>3
    <3> QED BY <1>1, <3>1, <3>2, <3>3, <3>4 DEF OffsetInv
  <2> QED BY <2>1, <2>2
<1>4. journaled' \subseteq 1 .. latest BY <1>1 DEF UpdateTypes
<1>5. UpdateTypes' BY <1>1, <1>2, <1>3, <1>4 DEF UpdateTypes
<1>6. OffsetInv' BY <1>1, <1>2, <1>3 DEF OffsetInv
<1>7. NoteInv' BY <1>1 DEF NoteInv
<1> QED BY <1>5, <1>6, <1>7

\* Every step of the bot, its channel and Telegram.
LEMMA UpdatesNext == ASSUME UpdatesInv, Updates!Next PROVE UpdatesInv'
BY NewUpdateStep, RegistrationStep, WebhookStep, PollBeginsStep, getUpdatesStep, PollSavedStep DEF Updates!Next

\* What the invariant says of updates and of a silent channel.
LEMMA UpdatesInvImplies ==
    ASSUME UpdatesInv PROVE Updates!TypeOK /\ Updates!NoUpdateLost /\ Updates!SilenceIsVisible
<1> USE UpdatesAssumption DEF UpdatesInv
<1>1. {https, note, result} \subseteq BOOLEAN BY Zenon DEF UpdateTypes
<1>2. offset \in 0 .. MaxUpdate + 1 BY DEF UpdateTypes
<1>3. mode \in {"WEBHOOK", "POLLING"} BY DEF UpdateTypes
<1>4. asked.pc \in {"idle", "asked", "answered"} BY DEF UpdateTypes, AskedType
<1>7. Updates!TypeOK BY <1>1, <1>2, <1>3, <1>4, Zenon DEF Updates!TypeOK, UpdateTypes
<1>5. Updates!NoUpdateLost BY DEF Updates!NoUpdateLost, OffsetInv
<1>6. Updates!SilenceIsVisible BY DEF Updates!SilenceIsVisible, Updates!Healthy, NoteInv, UpdateTypes
<1> QED BY <1>5, <1>6, <1>7

-----------------------------------------------------------------------------
(* The mailbox *)

MailType == [uid : Nat, mid : MessageIds \cup {0}, due : BOOLEAN, no : Nat]

\* UIDs are given once, below uidNext, and there are no more of them than mails.
MailTypes ==
    /\ validity \in 1 .. MaxRebuild + 1 /\ arrivedMail \in 0 .. MaxMail
    /\ uidNext \in 1 .. arrivedMail + 2
    /\ mails \subseteq MailType
    /\ \A m \in mails : m.uid \in 1 .. uidNext - 1
    /\ \A m, w \in mails : m.uid = w.uid => m = w
    /\ cursorAt \in [val : 1 .. validity, last : 0 .. MaxMail + 1]
    /\ cursorAt.val = validity => cursorAt.last < uidNext

\* A poll reads the mailbox of the cursor, from the cursor on.
PollInv ==
    /\ poll = [pc |-> poll.pc, val |-> poll.val, last |-> poll.last, todo |-> poll.todo, got |-> poll.got,
               top |-> poll.top]
    /\ poll.pc \in {"idle", "search", "fetch"} /\ {poll.val, poll.last, poll.top} \subseteq Nat
    /\ poll.todo \subseteq Nat /\ \A g \in poll.got : g.no \in Nat \ {0}
    /\ poll.pc # "idle" => /\ poll.val = validity /\ cursorAt.val = validity
                           /\ poll.last = cursorAt.last /\ poll.last <= poll.top /\ poll.top < uidNext
                           /\ \A u \in poll.todo : poll.top < u /\ u < uidNext
    /\ poll.pc = "search" => poll.top = poll.last
    /\ poll.pc # "fetch" => poll.got = {} /\ poll.todo = {}

\* What is behind the cursor, between the cursor and the poll, and ahead of it.
PassedInv ==
    /\ cursorAt.val # validity => \A m \in mails : ~m.due
    /\ cursorAt.val = validity => \A m \in mails : m.no = 0 => m.uid <= cursorAt.last
    /\ cursorAt.val = validity =>
         \A m \in mails : m.due /\ m.uid <= cursorAt.last => \E s \in saved : s.no = m.no
    /\ poll.pc # "idle" =>
         \A m \in mails : poll.last < m.uid /\ m.uid <= poll.top => \E g \in poll.got : g.no = m.no
    /\ \A t \in poll.todo : \A m \in mails : poll.top < m.uid /\ m.uid <= t => m.uid \in poll.todo

\* A key that was made of a UID was made of one behind the cursor.
KeyMade(k, v, u) == k.key = Mail!eventKeyFor(k.mid, v, u)

KeyedInv ==
    /\ \A k \in keys : \E v \in 1 .. validity, u \in Nat :
         /\ KeyMade(k, v, u)
         /\ k.mid = 0 /\ v = validity => cursorAt.val = validity /\ u <= cursorAt.last
    /\ \A g \in poll.got : \E u \in Nat : KeyMade(g, poll.val, u) /\ poll.last < u /\ u <= poll.top
    /\ \A g, h \in poll.got : g.key = h.key /\ g.mid = 0 => g = h
    /\ \A s \in saved : s.no # 0
    /\ Mail!EachMailItsOwnEvent

MailInv == MailTypes /\ PollInv /\ PassedInv /\ KeyedInv

\* The mailbox counts with the same Cardinality.
LEMMA MailCount == \A S : Mail!Cardinality(S) = Cardinality(S)
BY Zenon DEF Mail!Cardinality, Cardinality, Mail!IsFiniteSet, IsFiniteSet

\* Two mails have the same key only when they have the same Message-ID, or the same UID.
LEMMA KeyInjective ==
    ASSUME NEW mid, NEW v, NEW u, NEW mid2, NEW v2, NEW u2,
           Mail!eventKeyFor(mid, v, u) = Mail!eventKeyFor(mid2, v2, u2)
    PROVE  mid = mid2 /\ (mid = 0 => v = v2 /\ u = u2)
<1>1. CASE mid = 0 /\ mid2 = 0 BY <1>1, MailAssumption DEF Mail!eventKeyFor
<1>2. CASE mid = 0 /\ mid2 # 0
  <2>1. CASE mid2 \in LongId BY <1>2, <2>1, MailAssumption DEF Mail!eventKeyFor
  <2>2. CASE mid2 \notin LongId BY <1>2, <2>2, MailAssumption DEF Mail!eventKeyFor
  <2> QED BY <2>1, <2>2
<1>3. CASE mid # 0 /\ mid2 = 0
  <2>1. CASE mid \in LongId BY <1>3, <2>1, MailAssumption DEF Mail!eventKeyFor
  <2>2. CASE mid \notin LongId BY <1>3, <2>2, MailAssumption DEF Mail!eventKeyFor
  <2> QED BY <2>1, <2>2
<1>4. CASE mid # 0 /\ mid2 # 0
  <2>1. CASE mid \in LongId /\ mid2 \in LongId BY <1>4, <2>1 DEF Mail!eventKeyFor
  <2>2. CASE mid \notin LongId /\ mid2 \in LongId BY <1>4, <2>2 DEF Mail!eventKeyFor
  <2>3. CASE mid \in LongId /\ mid2 \notin LongId BY <1>4, <2>3 DEF Mail!eventKeyFor
  <2>4. CASE mid \notin LongId /\ mid2 \notin LongId BY <1>4, <2>4 DEF Mail!eventKeyFor
  <2> QED BY <2>1, <2>2, <2>3, <2>4
<1> QED BY <1>1, <1>2, <1>3, <1>4

\* There are fewer mails than UIDs were given.
LEMMA MailsCounted ==
    ASSUME MailTypes PROVE IsFiniteSet(mails) /\ Cardinality(mails) \in Nat /\ Cardinality(mails) <= uidNext - 1
<1> USE MailAssumption
<1> DEFINE f == [m \in mails |-> m.uid]
<1>1. uidNext \in Nat /\ uidNext >= 1 BY DEF MailTypes
<1>2. f \in Injection(mails, 1 .. uidNext - 1) BY DEF MailTypes, Injection, IsInjective
<1>3. IsFiniteSet(1 .. uidNext - 1) /\ Cardinality(1 .. uidNext - 1) = uidNext - 1
  <2> DEFINE n == uidNext - 1
  <2>1. n \in Nat /\ n \in Int /\ 1 \in Int BY <1>1
  <2> HIDE DEF n
  <2>2. IsFiniteSet(1 .. n) /\ Cardinality(1 .. n) = IF 1 > n THEN 0 ELSE n - 1 + 1 BY <2>1, FS_Interval, Zenon
  <2>3. IsFiniteSet(1 .. n) /\ Cardinality(1 .. n) = n BY <2>1, <2>2
  <2> QED BY <2>3 DEF n
<1> HIDE DEF f
<1>4. IsFiniteSet(mails) /\ Cardinality(mails) <= Cardinality(1 .. uidNext - 1) BY <1>2, <1>3, FS_Injection
<1>5. Cardinality(mails) \in Nat BY <1>4, FS_CardinalityType
<1> QED BY <1>3, <1>4, <1>5

Behind(m) == Cardinality({w \in mails : w.uid <= m.uid})

\* A rebuilt mailbox numbers its mails from 1 on, in the same order.
LEMMA Renumbered ==
    ASSUME MailTypes
    PROVE  /\ \A m \in mails : Behind(m) \in 1 .. Cardinality(mails)
           /\ \A m, w \in mails : Behind(m) = Behind(w) => m = w
<1> USE MailAssumption
<1> DEFINE S(m) == {w \in mails : w.uid <= m.uid}
<1>1. IsFiniteSet(mails) /\ Cardinality(mails) \in Nat BY MailsCounted
<1>2. ASSUME NEW m \in mails PROVE IsFiniteSet(S(m)) /\ Cardinality(S(m)) \in 1 .. Cardinality(mails)
  <2>1. S(m) \in SUBSET mails OBVIOUS
  <2>2. m \in S(m) BY DEF MailTypes
  <2> HIDE DEF S
  <2>3. IsFiniteSet(S(m)) /\ Cardinality(S(m)) <= Cardinality(mails) BY <1>1, <2>1, FS_Subset
  <2>4. Cardinality(S(m)) \in Nat /\ Cardinality(S(m)) # 0 BY <2>2, <2>3, FS_CardinalityType, FS_EmptySet
  <2> QED BY <1>1, <2>3, <2>4
<1>3. ASSUME NEW m \in mails, NEW w \in mails, m.uid < w.uid PROVE Cardinality(S(m)) # Cardinality(S(w))
  <2>1. S(m) \in SUBSET S(w) BY <1>3 DEF MailTypes
  <2>2. w \in S(w) /\ w \notin S(m) BY <1>3 DEF MailTypes
  <2>3. IsFiniteSet(S(w)) BY <1>2
  <2> HIDE DEF S
  <2> QED BY <2>1, <2>2, <2>3, FS_Subset
<1>4. ASSUME NEW m \in mails, NEW w \in mails, Cardinality(S(m)) = Cardinality(S(w)) PROVE m = w
  <2>1. m.uid \in Int /\ w.uid \in Int BY DEF MailTypes
  <2>2. ~(m.uid < w.uid) /\ ~(w.uid < m.uid) BY <1>3, <1>4
  <2>3. m.uid = w.uid BY <2>1, <2>2
  <2> QED BY <2>3 DEF MailTypes
<1> QED BY <1>2, <1>4 DEF Behind

\* The mailbox before the first poll.
LEMMA MailInit == Mail!Init => MailInv
<1> SUFFICES ASSUME Mail!Init PROVE MailInv OBVIOUS
<1> USE MailAssumption DEF Mail!Init
<1>1. MailTypes BY DEF MailTypes, MailType
<1>2. PollInv BY DEF PollInv, Mail!Idle
<1>3. PassedInv BY DEF PassedInv, Mail!Idle
<1>4. KeyedInv BY DEF KeyedInv, Mail!Idle, Mail!EachMailItsOwnEvent
<1> QED BY <1>1, <1>2, <1>3, <1>4 DEF MailInv

\* A mail arrives behind everything that was found or fetched.
LEMMA ArriveStep == ASSUME MailInv, NEW mid \in MessageIds \cup {0}, Mail!Arrive(mid) PROVE MailInv'
<1> USE MailAssumption DEF MailInv
<1> DEFINE new == [uid |-> uidNext, mid |-> mid, due |-> cursorAt.val = validity, no |-> arrivedMail + 1]
<1>1. /\ UNCHANGED <<validity, cursorAt, poll, keys, saved>> /\ arrivedMail' = arrivedMail + 1
      /\ arrivedMail < MaxMail /\ mails' = mails \cup {new} /\ uidNext' = uidNext + 1
  BY DEF Mail!Arrive
<1>2. new \in MailType /\ new.uid = uidNext /\ new.no = arrivedMail + 1 /\ (new.due => cursorAt.val = validity)
  <2>1. arrivedMail + 1 \in Nat /\ uidNext \in Nat BY DEF MailTypes
  <2>2. (cursorAt.val = validity) \in BOOLEAN BY Zenon
  <2> QED BY <2>1, <2>2 DEF MailType
<1> HIDE DEF new
<1>3. MailTypes'
  <2>1. arrivedMail' \in 0 .. MaxMail /\ uidNext' \in 1 .. arrivedMail' + 2 BY <1>1 DEF MailTypes
  <2>2. \A m \in mails' : m.uid \in 1 .. uidNext' - 1 BY <1>1, <1>2 DEF MailTypes
  <2>3. \A m, w \in mails' : m.uid = w.uid => m = w BY <1>1, <1>2 DEF MailTypes
  <2> QED BY <1>1, <1>2, <2>1, <2>2, <2>3 DEF MailTypes
<1>4. PollInv' BY <1>1 DEF PollInv, MailTypes
<1>5. PassedInv' BY <1>1, <1>2 DEF PassedInv, PollInv, MailTypes
<1>6. KeyedInv' BY <1>1 DEF KeyedInv, Mail!EachMailItsOwnEvent, KeyMade
<1> QED BY <1>3, <1>4, <1>5, <1>6

\* A mail is deleted.
LEMMA ExpungeStep == ASSUME MailInv, NEW m \in mails, Mail!Expunge(m) PROVE MailInv'
<1> USE DEF MailInv
<1>1. UNCHANGED <<validity, uidNext, arrivedMail, cursorAt, poll, keys, saved>> /\ mails' \subseteq mails
  BY DEF Mail!Expunge
<1>2. MailTypes' BY <1>1 DEF MailTypes
<1>3. PollInv' BY <1>1 DEF PollInv
<1>4. PassedInv' BY <1>1 DEF PassedInv
<1>5. KeyedInv' BY <1>1 DEF KeyedInv, Mail!EachMailItsOwnEvent, KeyMade
<1> QED BY <1>2, <1>3, <1>4, <1>5

\* The server rebuilds the mailbox: no key was made with the new UIDVALIDITY.
LEMMA RebuildStep == ASSUME MailInv, Mail!Rebuild PROVE MailInv'
<1> USE MailAssumption DEF MailInv
<1>0. mails' = {[m EXCEPT !.uid = Behind(m), !.due = FALSE] : m \in mails}
  BY MailCount, Zenon DEF Mail!Rebuild, Behind
<1>1. /\ validity <= MaxRebuild /\ validity' = validity + 1 /\ poll' = Mail!Idle
      /\ uidNext' = Cardinality(mails) + 1 /\ UNCHANGED <<arrivedMail, cursorAt, keys, saved>>
  BY MailCount, Zenon DEF Mail!Rebuild
<1>2. /\ Cardinality(mails) \in Nat /\ Cardinality(mails) <= uidNext - 1
      /\ \A m \in mails : Behind(m) \in 1 .. Cardinality(mails)
      /\ \A m, w \in mails : Behind(m) = Behind(w) => m = w
  BY MailsCounted, Renumbered
<1>3. ASSUME NEW m \in mails'
      PROVE  m \in MailType /\ ~m.due /\ \E w \in mails : m = [w EXCEPT !.uid = Behind(w), !.due = FALSE] /\ m.uid = Behind(w)
  <2>1. PICK w \in mails : m = [w EXCEPT !.uid = Behind(w), !.due = FALSE] BY <1>0
  <2>2. w \in MailType /\ Behind(w) \in Nat BY <1>2 DEF MailTypes
  <2>3. m.uid = Behind(w) /\ m.due = FALSE /\ m \in MailType BY <2>1, <2>2 DEF MailType
  <2> QED BY <2>1, <2>3
<1>4. MailTypes'
  <2>1. uidNext' \in 1 .. arrivedMail' + 2 BY <1>1, <1>2 DEF MailTypes
  <2>2. \A m \in mails' : m.uid \in 1 .. uidNext' - 1
    <3>1. uidNext' - 1 = Cardinality(mails) BY <1>1, <1>2
    <3>2. ASSUME NEW m \in mails' PROVE m.uid \in 1 .. Cardinality(mails)
      <4>1. PICK w \in mails : m.uid = Behind(w) BY <1>3
      <4> QED BY <1>2, <4>1
    <3> QED BY <3>1, <3>2
  <2>3. \A m, w \in mails' : m.uid = w.uid => m = w BY <1>2, <1>3, ZenonT(60)
  <2>4. validity' \in 1 .. MaxRebuild + 1 BY <1>1 DEF MailTypes
  <2>5. cursorAt' \in [val : 1 .. validity', last : 0 .. MaxMail + 1] BY <1>1 DEF MailTypes
  <2>6. cursorAt'.val # validity' BY <1>1 DEF MailTypes
  <2>7. mails' \subseteq MailType BY <1>3
  <2> QED BY <1>1, <2>1, <2>2, <2>3, <2>4, <2>5, <2>6, <2>7 DEF MailTypes
<1>5. cursorAt'.val # validity' BY <1>1 DEF MailTypes
<1>6. PollInv' BY <1>1 DEF PollInv, Mail!Idle
<1>7. PassedInv'
  <2>1. \A m \in mails' : ~m.due BY <1>3
  <2> QED BY <1>1, <1>5, <2>1 DEF PassedInv, Mail!Idle
<1>8. KeyedInv'
  <2>1. ASSUME NEW k \in keys'
        PROVE  \E v \in 1 .. validity', u \in Nat : KeyMade(k, v, u) /\ v # validity'
    <3>1. PICK v \in 1 .. validity, u \in Nat : KeyMade(k, v, u) BY <1>1 DEF KeyedInv
    <3>2. v \in 1 .. validity' /\ v # validity' BY <1>1 DEF MailTypes
    <3> QED BY <3>1, <3>2
  <2> QED BY <1>1, <2>1 DEF KeyedInv, Mail!EachMailItsOwnEvent, Mail!Idle, KeyMade
<1> QED BY <1>4, <1>6, <1>7, <1>8

\* The UIDs above the cursor.
NewUids == {u \in {m.uid : m \in mails} : u > poll.last}

\* What a search answers lies above the cursor, and everything below a UID that it answers too.
LEMMA FoundInOrderLemma ==
    ASSUME MailTypes, poll.last \in Nat
    PROVE  /\ Mail!FoundInOrder \subseteq NewUids
           /\ \A t \in Mail!FoundInOrder : \A u \in NewUids : u <= t => u \in Mail!FoundInOrder
<1> USE MailAssumption
<1> DEFINE uids == {m.uid : m \in mails}
           new == {u \in Mail!Found : u > poll.last}
<1>1. uids \subseteq Nat /\ uids \subseteq 0 .. uidNext - 1 /\ uidNext - 1 \in Nat BY DEF MailTypes
<1>2. new = NewUids
  <2>1. CASE NewUids = {} /\ uids # {}
    <3>1. PICK x \in uids : \A y \in uids : y <= x BY <1>1, <2>1, LargestBelow
    <3>2. \A y \in uids : x >= y BY <1>1, <3>1
    <3>3. Mail!Max(uids) \in uids BY <3>2, Zenon DEF Mail!Max
    <3>4. Mail!Found = {Mail!Max(uids)} BY <2>1 DEF Mail!Found, NewUids
    <3> QED BY <2>1, <3>3, <3>4 DEF NewUids
  <2>2. CASE NewUids # {} \/ uids = {}
    <3>1. Mail!Found = NewUids BY <2>2 DEF Mail!Found, NewUids
    <3> QED BY <3>1 DEF NewUids
  <2> QED BY <2>1, <2>2
<1>3. Mail!FoundInOrder = {u \in new : Cardinality({v \in new : v <= u}) <= PollBatch}
  BY MailCount, Zenon DEF Mail!FoundInOrder
<1> HIDE DEF new
<1>4. NewUids \subseteq 0 .. uidNext - 1 BY <1>1 DEF NewUids
<1>5. IsFiniteSet(NewUids)
  <2>1. IsFiniteSet(0 .. uidNext - 1) BY <1>1, FS_Interval
  <2> QED BY <1>4, <2>1, FS_Subset
<1>6. ASSUME NEW t \in Mail!FoundInOrder, NEW u \in NewUids, u <= t PROVE u \in Mail!FoundInOrder
  <2> DEFINE S(x) == {v \in NewUids : v <= x}
  <2>1. t \in NewUids /\ Cardinality(S(t)) <= PollBatch BY <1>2, <1>3
  <2>2. S(u) \in SUBSET S(t)
    <3>1. t \in Int /\ u \in Int /\ \A v \in NewUids : v \in Int BY <1>4, <2>1
    <3>2. \A v \in NewUids : v <= u => v <= t BY <1>6, <3>1
    <3> QED BY <3>2
  <2>3. S(t) \in SUBSET NewUids OBVIOUS
  <2>4. u \in Mail!FoundInOrder <=> Cardinality(S(u)) <= PollBatch BY <1>2, <1>3
  <2> HIDE DEF S
  <2>5. IsFiniteSet(S(t)) BY <1>5, <2>3, FS_Subset
  <2>6. IsFiniteSet(S(u)) /\ Cardinality(S(u)) <= Cardinality(S(t)) BY <2>2, <2>5, FS_Subset
  <2>7. Cardinality(S(u)) \in Nat /\ Cardinality(S(t)) \in Nat BY <2>5, <2>6, FS_CardinalityType
  <2> QED BY <2>1, <2>4, <2>6, <2>7
<1> QED BY <1>2, <1>3, <1>6

\* A poll begins at the cursor; a rebuilt mailbox is read from its end, where nothing is due yet.
LEMMA SelectStep == ASSUME MailInv, Mail!Select PROVE MailInv'
<1> USE MailAssumption DEF MailInv
<1>1. UNCHANGED <<validity, uidNext, mails, arrivedMail, keys, saved>> /\ poll.pc = "idle" BY DEF Mail!Select
<1>2. Mail!LastUid \in 0 .. MaxMail + 1 /\ Mail!LastUid < uidNext BY DEF Mail!LastUid, MailTypes
<1>3. cursorAt.val = validity => Mail!LastUid = cursorAt.last BY DEF Mail!LastUid
<1>4. CASE uidNext - 1 <= Mail!LastUid
  <2>1. cursorAt' = [val |-> validity, last |-> Mail!LastUid] /\ poll' = poll BY <1>4 DEF Mail!Select
  <2>2. /\ cursorAt'.val = validity /\ cursorAt'.last = Mail!LastUid
        /\ cursorAt' \in [val : 1 .. validity, last : 0 .. MaxMail + 1]
    BY <1>2, <2>1 DEF MailTypes
  <2>3. MailTypes' BY <1>1, <1>2, <2>2 DEF MailTypes
  <2>4. PollInv' BY <1>1, <2>1 DEF PollInv
  <2>5. PassedInv'
    <3>1. \A m \in mails : m.uid <= Mail!LastUid BY <1>2, <1>4 DEF MailTypes
    <3> QED BY <1>1, <1>3, <2>1, <2>2, <3>1 DEF PassedInv
  <2>6. KeyedInv'
    <3>1. ASSUME NEW k \in keys, NEW v \in 1 .. validity, NEW u \in Nat,
                 k.mid = 0 /\ v = validity => cursorAt.val = validity /\ u <= cursorAt.last
          PROVE  k.mid = 0 /\ v = validity => cursorAt'.val = validity /\ u <= cursorAt'.last
      BY <1>3, <2>2, <3>1
    <3> QED BY <1>1, <2>1, <3>1 DEF KeyedInv, Mail!EachMailItsOwnEvent, KeyMade
  <2> QED BY <2>3, <2>4, <2>5, <2>6
<1>5. CASE ~(uidNext - 1 <= Mail!LastUid)
  <2>1. /\ poll' = [Mail!Idle EXCEPT !.pc = "search", !.val = validity, !.last = Mail!LastUid, !.top = Mail!LastUid]
        /\ cursorAt' = cursorAt
    BY <1>5 DEF Mail!Select
  <2>2. cursorAt.val = validity /\ Mail!LastUid = cursorAt.last BY <1>5 DEF Mail!LastUid, MailTypes
  <2>3. /\ poll'.pc = "search" /\ poll'.val = validity /\ poll'.last = cursorAt.last /\ poll'.todo = {}
        /\ poll'.got = {} /\ poll'.top = cursorAt.last
        /\ poll' = [pc |-> poll'.pc, val |-> poll'.val, last |-> poll'.last, todo |-> poll'.todo, got |-> poll'.got,
                    top |-> poll'.top]
    BY <2>1, <2>2 DEF Mail!Idle
  <2>8. cursorAt' = cursorAt /\ cursorAt.last \in Nat /\ validity \in Nat BY <2>1 DEF MailTypes
  <2>4. MailTypes' BY <1>1, <2>8 DEF MailTypes
  <2>5. PollInv' BY <1>1, <2>2, <2>3, <2>8 DEF PollInv, MailTypes
  <2>6. PassedInv' BY <1>1, <2>2, <2>3, <2>8 DEF PassedInv, MailTypes
  <2>7. KeyedInv' BY <1>1, <2>3, <2>8 DEF KeyedInv, Mail!EachMailItsOwnEvent, KeyMade
  <2> QED BY <2>4, <2>5, <2>6, <2>7
<1> QED BY <1>4, <1>5

\* Mails are found above the cursor, without a gap.
LEMMA SearchStep == ASSUME MailInv, Mail!Search PROVE MailInv'
<1> USE MailAssumption DEF MailInv
<1>1. UNCHANGED <<validity, uidNext, mails, arrivedMail, keys, saved>> /\ poll.pc = "search" BY DEF Mail!Search
<1>2. poll.val = cursorAt.val /\ poll.last = cursorAt.last /\ poll.top = poll.last /\ poll.got = {} /\ poll.last \in Nat
  BY <1>1 DEF PollInv
<1>3. CASE Mail!FoundInOrder = {}
  <2>1. cursorAt' = [val |-> poll.val, last |-> poll.last] /\ poll' = Mail!Idle BY <1>3 DEF Mail!Search
  <2>2. cursorAt' = cursorAt BY <1>2, <2>1 DEF MailTypes
  <2>3. MailTypes' BY <1>1, <2>2 DEF MailTypes
  <2>4. PollInv' BY <2>1 DEF PollInv, Mail!Idle
  <2>5. PassedInv' BY <1>1, <2>1, <2>2 DEF PassedInv, Mail!Idle
  <2>6. KeyedInv' BY <1>1, <2>1, <2>2 DEF KeyedInv, Mail!EachMailItsOwnEvent, KeyMade, Mail!Idle
  <2> QED BY <2>3, <2>4, <2>5, <2>6
<1>4. CASE Mail!FoundInOrder # {}
  <2>1. poll' = [poll EXCEPT !.pc = "fetch", !.todo = Mail!FoundInOrder] /\ cursorAt' = cursorAt
    BY <1>4 DEF Mail!Search
  <2>2. /\ Mail!FoundInOrder \subseteq NewUids
        /\ \A t \in Mail!FoundInOrder : \A u \in NewUids : u <= t => u \in Mail!FoundInOrder
    BY <1>2, FoundInOrderLemma
  <2>3. poll' = [pc |-> "fetch", val |-> poll.val, last |-> poll.last, todo |-> Mail!FoundInOrder, got |-> poll.got,
                 top |-> poll.top]
    BY <2>1 DEF PollInv
  <2>4. \A u \in Mail!FoundInOrder : u \in Nat /\ poll.top < u /\ u < uidNext
    BY <1>2, <2>2 DEF NewUids, MailTypes
  <2>5. MailTypes' BY <1>1, <2>1 DEF MailTypes
  <2>6. PollInv' BY <1>1, <1>2, <2>1, <2>3, <2>4, ZenonT(60) DEF PollInv
  <2>7. PassedInv'
    <3>1. ASSUME NEW t \in Mail!FoundInOrder, NEW m \in mails, poll.top < m.uid, m.uid <= t
          PROVE  m.uid \in Mail!FoundInOrder
      <4>1. m.uid \in NewUids BY <1>2, <3>1 DEF NewUids, MailTypes
      <4> QED BY <2>2, <3>1, <4>1
    <3> QED BY <1>1, <2>1, <2>3, <3>1 DEF PassedInv
  <2>8. KeyedInv' BY <1>1, <2>1, <2>3 DEF KeyedInv, Mail!EachMailItsOwnEvent, KeyMade
  <2> QED BY <2>5, <2>6, <2>7, <2>8
<1> QED BY <1>3, <1>4

\* The next mail of the batch: none between it and the mail before is left out.
LEMMA FetchStep == ASSUME MailInv, Mail!Fetch PROVE MailInv'
<1> USE MailAssumption DEF MailInv
<1> DEFINE u == Mail!Min(poll.todo)
           news == {[key |-> Mail!eventKeyFor(m.mid, poll.val, u), no |-> m.no, mid |-> m.mid] :
                    m \in {w \in mails : w.uid = u}}
<1>1. /\ UNCHANGED <<validity, uidNext, mails, arrivedMail, cursorAt, keys, saved>>
      /\ poll.pc = "fetch" /\ poll.todo # {}
  BY DEF Mail!Fetch
<1>2. poll' = [poll EXCEPT !.todo = @ \ {u}, !.top = u, !.got = @ \cup news] BY DEF Mail!Fetch
<1>3. u \in poll.todo /\ \A t \in poll.todo : u <= t
  <2>1. PICK x \in poll.todo : \A y \in poll.todo : x <= y BY <1>1, LeastNatural DEF PollInv
  <2> QED BY <2>1, Zenon DEF Mail!Min
<1>4. ASSUME NEW g \in news
      PROVE  \E m \in mails : /\ m.uid = u /\ g = [key |-> Mail!eventKeyFor(m.mid, poll.val, u), no |-> m.no, mid |-> m.mid]
                              /\ g.no = m.no /\ g.mid = m.mid /\ KeyMade(g, poll.val, u)
  BY DEF KeyMade
<1>5. ASSUME NEW m \in mails, m.uid = u PROVE \E g \in news : g.no = m.no
  <2> DEFINE g == [key |-> Mail!eventKeyFor(m.mid, poll.val, u), no |-> m.no, mid |-> m.mid]
  <2>1. g \in news /\ g.no = m.no BY <1>5
  <2> QED BY <2>1
<1>9. \A g, h \in news : g = h
  <2> SUFFICES ASSUME NEW g \in news, NEW h \in news PROVE g = h OBVIOUS
  <2>1. PICK m \in mails : m.uid = u /\ g = [key |-> Mail!eventKeyFor(m.mid, poll.val, u), no |-> m.no, mid |-> m.mid]
    BY <1>4
  <2>2. PICK w \in mails : w.uid = u /\ h = [key |-> Mail!eventKeyFor(w.mid, poll.val, u), no |-> w.no, mid |-> w.mid]
    BY <1>4
  <2>3. m = w BY <2>1, <2>2 DEF MailTypes
  <2> QED BY <2>1, <2>2, <2>3
<1> HIDE DEF u, news
<1>6. /\ poll'.pc = "fetch" /\ poll'.val = poll.val /\ poll'.last = poll.last /\ poll'.todo = poll.todo \ {u}
      /\ poll'.got = poll.got \cup news /\ poll'.top = u
      /\ poll' = [pc |-> poll'.pc, val |-> poll'.val, last |-> poll'.last, todo |-> poll'.todo, got |-> poll'.got,
                  top |-> poll'.top]
  <2>1. poll = [pc |-> poll.pc, val |-> poll.val, last |-> poll.last, todo |-> poll.todo, got |-> poll.got,
                top |-> poll.top]
    BY DEF PollInv
  <2> QED BY <1>1, <1>2, <2>1
<1>7. /\ u \in Nat /\ poll.top < u /\ u < uidNext /\ poll.last <= poll.top /\ poll.last = cursorAt.last
      /\ cursorAt.val = validity /\ {poll.last, poll.top} \subseteq Nat /\ uidNext \in Nat
      /\ \A t \in poll.todo : t \in Nat /\ u <= t /\ t < uidNext
  BY <1>1, <1>3 DEF PollInv, MailTypes
<1>8. MailTypes' BY <1>1 DEF MailTypes
<1>10. PollInv'
  <2>1. \A g \in news : g.no \in Nat \ {0}
    <3>1. ASSUME NEW m \in mails, m.uid = u PROVE m.no \in Nat \ {0}
      <4>1. m.no \in Nat BY DEF MailTypes, MailType
      <4>2. ~(m.uid <= cursorAt.last) BY <1>7, <3>1
      <4> QED BY <1>7, <4>1, <4>2 DEF PassedInv
    <3> QED BY <1>4, <3>1
  <2>2. \A t \in poll'.todo : t \in Nat /\ u < t /\ t < uidNext BY <1>6, <1>7
  <2>3. poll.val = validity /\ poll.val \in Nat BY <1>1 DEF PollInv
  <2>4. \A g \in poll'.got : g.no \in Nat \ {0} BY <1>6, <2>1 DEF PollInv
  <2>5. poll.last <= u BY <1>7
  <2> QED BY <1>1, <1>6, <1>7, <2>2, <2>3, <2>4, <2>5 DEF PollInv
<1>11. PassedInv'
  <2>1. ASSUME NEW m \in mails, poll.last < m.uid, m.uid <= u PROVE \E g \in poll'.got : g.no = m.no
    <3>1. m.uid \in Nat BY DEF MailTypes, MailType
    <3>2. CASE m.uid <= poll.top BY <1>1, <1>6, <2>1, <3>2 DEF PassedInv
    <3>3. CASE ~(m.uid <= poll.top)
      <4>1. poll.top < m.uid BY <1>7, <3>1, <3>3
      <4>2. m.uid \in poll.todo BY <1>3, <2>1, <4>1 DEF PassedInv
      <4>3. m.uid = u BY <1>7, <2>1, <3>1, <4>2
      <4> QED BY <1>5, <1>6, <4>3
    <3> QED BY <3>2, <3>3
  <2>2. ASSUME NEW t \in poll'.todo, NEW m \in mails, u < m.uid, m.uid <= t PROVE m.uid \in poll'.todo
    <3>1. m.uid \in Nat BY DEF MailTypes, MailType
    <3>2. poll.top < m.uid /\ t \in poll.todo BY <1>6, <1>7, <2>2, <3>1
    <3>3. m.uid \in poll.todo BY <2>2, <3>2 DEF PassedInv
    <3>4. m.uid # u BY <1>7, <2>2, <3>1
    <3> QED BY <1>6, <3>3, <3>4
  <2> QED BY <1>1, <1>6, <2>1, <2>2 DEF PassedInv
<1>12. KeyedInv'
  <2>1. ASSUME NEW g \in poll'.got PROVE \E v \in Nat : KeyMade(g, poll.val, v) /\ poll.last < v /\ v <= u
    <3>1. CASE g \in poll.got
      <4>1. PICK v \in Nat : KeyMade(g, poll.val, v) /\ poll.last < v /\ v <= poll.top BY <3>1 DEF KeyedInv
      <4>2. v <= u BY <1>7, <4>1
      <4> QED BY <4>1, <4>2
    <3>2. CASE g \in news
      <4>1. KeyMade(g, poll.val, u) /\ poll.last < u /\ u <= u BY <1>4, <1>7, <3>2
      <4> QED BY <1>7, <4>1
    <3> QED BY <1>6, <3>1, <3>2
  <2>2. ASSUME NEW g \in poll.got, NEW h \in news, g.key = h.key PROVE g.mid # 0 /\ h.mid # 0
    <3>1. PICK v \in Nat : KeyMade(g, poll.val, v) /\ poll.last < v /\ v <= poll.top BY DEF KeyedInv
    <3>2. KeyMade(h, poll.val, u) BY <1>4
    <3>3. Mail!eventKeyFor(g.mid, poll.val, v) = Mail!eventKeyFor(h.mid, poll.val, u) BY <2>2, <3>1, <3>2 DEF KeyMade
    <3>4. g.mid = h.mid /\ (g.mid = 0 => v = u) BY <3>3, KeyInjective
    <3>5. v # u BY <1>7, <3>1
    <3> QED BY <3>4, <3>5
  <2>3. \A g, h \in poll'.got : g.key = h.key /\ g.mid = 0 => g = h BY <1>6, <1>9, <2>2 DEF KeyedInv
  <2> QED BY <1>1, <1>6, <2>1, <2>3 DEF KeyedInv, Mail!EachMailItsOwnEvent, KeyMade
<1> QED BY <1>8, <1>10, <1>11, <1>12

\* The batch is saved: each of its mails has an event, and the cursor stops behind the last one.
LEMMA SaveStep == ASSUME MailInv, Mail!Save PROVE MailInv'
<1> USE MailAssumption DEF MailInv
<1> DEFINE kept == {g \in Mail!Fresh : \A h \in Mail!Fresh : h.key = g.key => g.no <= h.no}
           notes == {[no |-> g.no, mid |-> g.mid] : g \in poll.got}
<1>1. /\ UNCHANGED <<validity, uidNext, mails, arrivedMail>> /\ poll' = Mail!Idle /\ poll.pc = "fetch"
      /\ cursorAt' = [val |-> poll.val, last |-> poll.top]
      /\ keys' = keys \cup kept /\ saved' = saved \cup notes
  BY DEF Mail!Save, Mail!BatchEnd
<1>2. Mail!Fresh \subseteq poll.got BY DEF Mail!Fresh
<1>3. kept \subseteq Mail!Fresh OBVIOUS
<1>4. \A g \in poll.got : \E s \in notes : s.no = g.no
  <2>1. ASSUME NEW g \in poll.got PROVE [no |-> g.no, mid |-> g.mid] \in notes OBVIOUS
  <2> QED BY <2>1
<1>5. \A s \in notes : \E g \in poll.got : s.no = g.no /\ s.mid = g.mid OBVIOUS
<1>6. /\ poll.val = validity /\ cursorAt.val = validity /\ poll.last = cursorAt.last /\ poll.last <= poll.top
      /\ poll.top < uidNext /\ {poll.val, poll.last, poll.top} \subseteq Nat
      /\ uidNext \in 1 .. MaxMail + 2 /\ validity \in Nat \ {0}
  BY <1>1 DEF PollInv, MailTypes
<1>7. /\ cursorAt'.val = validity /\ cursorAt'.last = poll.top
      /\ cursorAt' \in [val : 1 .. validity, last : 0 .. MaxMail + 1]
  BY <1>1, <1>6
<1>8. MailTypes' BY <1>1, <1>6, <1>7 DEF MailTypes
<1>9. PollInv' BY <1>1 DEF PollInv, Mail!Idle
<1>10. ASSUME NEW g \in poll.got PROVE \E k \in keys' : k.no = g.no \/ (g.mid # 0 /\ k.mid = g.mid)
  <2>1. PICK u \in Nat : KeyMade(g, poll.val, u) /\ poll.last < u /\ u <= poll.top BY DEF KeyedInv
  <2>2. CASE \E k \in keys : k.key = g.key
    <3>1. PICK k \in keys : k.key = g.key BY <2>2
    <3>2. PICK v \in 1 .. validity, w \in Nat :
            /\ KeyMade(k, v, w)
            /\ k.mid = 0 /\ v = validity => cursorAt.val = validity /\ w <= cursorAt.last
      BY DEF KeyedInv
    <3>3. k.mid = g.mid /\ (k.mid = 0 => v = poll.val /\ w = u)
      <4>1. Mail!eventKeyFor(k.mid, v, w) = Mail!eventKeyFor(g.mid, poll.val, u) BY <2>1, <3>1, <3>2 DEF KeyMade
      <4> QED BY <4>1, KeyInjective
    <3>4. k.mid # 0 BY <1>6, <2>1, <3>2, <3>3
    <3> QED BY <1>1, <3>3, <3>4
  <2>3. CASE ~\E k \in keys : k.key = g.key
    <3> DEFINE same == {h \in Mail!Fresh : h.key = g.key}
               nos == {h.no : h \in same}
    <3>1. g \in same BY <2>3 DEF Mail!Fresh
    <3>2. nos \subseteq Nat BY <1>2 DEF PollInv
    <3>3. g.no \in nos BY <3>1
    <3>4. PICK n \in nos : \A y \in nos : n <= y BY <3>2, <3>3, LeastNatural
    <3>5. PICK h \in same : h.no = n OBVIOUS
    <3>6. \A x \in Mail!Fresh : x.key = h.key => h.no <= x.no BY <3>4, <3>5
    <3>7. h \in kept BY <3>5, <3>6
    <3>8. h \in poll.got /\ h.key = g.key BY <1>2, <3>5
    <3>9. PICK w \in Nat : KeyMade(h, poll.val, w) BY <3>8 DEF KeyedInv
    <3>10. h.mid = g.mid
      <4>1. Mail!eventKeyFor(h.mid, poll.val, w) = Mail!eventKeyFor(g.mid, poll.val, u) BY <2>1, <3>8, <3>9 DEF KeyMade
      <4> QED BY <4>1, KeyInjective
    <3>11. g.mid = 0 => h = g BY <3>8 DEF KeyedInv
    <3> QED BY <1>1, <3>7, <3>10, <3>11
  <2> QED BY <2>2, <2>3
<1> HIDE DEF kept, notes
<1>11. PassedInv'
  <2>1. ASSUME NEW m \in mails, m.due, m.uid <= poll.top PROVE \E s \in saved' : s.no = m.no
    <3>1. m.uid \in Nat BY DEF MailTypes, MailType
    <3>2. CASE m.uid <= poll.last BY <1>1, <1>6, <2>1, <3>2 DEF PassedInv
    <3>3. CASE ~(m.uid <= poll.last)
      <4>1. poll.last < m.uid BY <1>6, <3>1, <3>3
      <4>2. PICK g \in poll.got : g.no = m.no BY <1>1, <2>1, <4>1 DEF PassedInv
      <4> QED BY <1>1, <1>4, <4>2
    <3> QED BY <3>2, <3>3
  <2>2. ASSUME NEW m \in mails, m.no = 0 PROVE m.uid <= poll.top
    <3>1. m.uid \in Nat BY DEF MailTypes, MailType
    <3>2. m.uid <= cursorAt.last BY <1>6, <2>2 DEF PassedInv
    <3> QED BY <1>6, <3>1, <3>2
  <2>3. poll'.pc = "idle" /\ poll'.todo = {} BY <1>1 DEF Mail!Idle
  <2> QED BY <1>1, <1>7, <2>1, <2>2, <2>3 DEF PassedInv
<1>12. KeyedInv'
  <2>1. ASSUME NEW k \in keys'
        PROVE  \E v \in 1 .. validity, u \in Nat : KeyMade(k, v, u) /\ (k.mid = 0 /\ v = validity => u <= poll.top)
    <3>1. CASE k \in keys
      <4>1. PICK v \in 1 .. validity, u \in Nat :
              /\ KeyMade(k, v, u)
              /\ k.mid = 0 /\ v = validity => cursorAt.val = validity /\ u <= cursorAt.last
        BY <3>1 DEF KeyedInv
      <4>2. k.mid = 0 /\ v = validity => u <= poll.top BY <1>6, <4>1
      <4> QED BY <4>1, <4>2
    <3>2. CASE k \in kept
      <4>1. PICK u \in Nat : KeyMade(k, poll.val, u) /\ poll.last < u /\ u <= poll.top BY <1>2, <1>3, <3>2 DEF KeyedInv
      <4>2. poll.val \in 1 .. validity BY <1>6
      <4> QED BY <4>1, <4>2
    <3> QED BY <1>1, <3>1, <3>2
  <2>2. \A s \in saved' : s.no # 0 BY <1>1, <1>5 DEF KeyedInv, PollInv
  <2>3. ASSUME NEW s \in saved' PROVE \E k \in keys' : k.no = s.no \/ (s.mid # 0 /\ k.mid = s.mid)
    <3>1. CASE s \in saved BY <1>1, <3>1 DEF KeyedInv, Mail!EachMailItsOwnEvent
    <3>2. CASE s \in notes BY <1>5, <1>10, <3>2
    <3> QED BY <1>1, <3>1, <3>2
  <2>4. poll'.got = {} BY <1>1 DEF Mail!Idle
  <2> QED BY <1>1, <1>7, <2>1, <2>2, <2>3, <2>4 DEF KeyedInv, Mail!EachMailItsOwnEvent, KeyMade
<1> QED BY <1>8, <1>9, <1>11, <1>12

\* A poll that fails saves nothing.
LEMMA FailsStep == ASSUME MailInv, Mail!Fails PROVE MailInv'
<1> USE DEF MailInv
<1>1. UNCHANGED <<validity, uidNext, mails, arrivedMail, cursorAt, keys, saved>> /\ poll' = Mail!Idle BY DEF Mail!Fails
<1>2. MailTypes' BY <1>1 DEF MailTypes
<1>3. PollInv' BY <1>1 DEF PollInv, Mail!Idle
<1>4. PassedInv' BY <1>1 DEF PassedInv, Mail!Idle
<1>5. KeyedInv' BY <1>1 DEF KeyedInv, Mail!EachMailItsOwnEvent, Mail!Idle, KeyMade
<1> QED BY <1>2, <1>3, <1>4, <1>5

\* Every step of the mailbox and of its poller.
LEMMA MailNext == ASSUME MailInv, Mail!Next PROVE MailInv'
BY ArriveStep, ExpungeStep, RebuildStep, SelectStep, SearchStep, FetchStep, SaveStep, FailsStep DEF Mail!Next

\* What the invariant says of the mails that were fetched.
LEMMA MailInvImplies ==
    ASSUME MailInv
    PROVE  Mail!TypeOK /\ Mail!NoMailPassedOver /\ Mail!OldMailStaysOut /\ Mail!EachMailItsOwnEvent
<1> USE MailAssumption DEF MailInv
<1>1. uidNext \in 1 .. MaxMail + 2 /\ poll.pc \in {"idle", "search", "fetch"} BY DEF MailTypes, PollInv
<1>2. \A m \in mails : m.uid < uidNext /\ m.mid \in MessageIds \cup {0} BY DEF MailTypes, MailType
<1>3. Mail!TypeOK BY <1>1, <1>2 DEF Mail!TypeOK, MailTypes
<1>4. Mail!NoMailPassedOver BY DEF Mail!NoMailPassedOver, PassedInv
<1> QED BY <1>3, <1>4 DEF KeyedInv, Mail!OldMailStaysOut

\* What both parts rest on.
FetchInv == (part = "mail" => MailInv) /\ (part = "updates" => UpdatesInv)

\* A step of another part changes neither.
LEMMA FetchNext == FetchInv /\ [Next]_vars => FetchInv'
<1> SUFFICES ASSUME FetchInv, [Next]_vars PROVE FetchInv' OBVIOUS
<1>1. part' = part BY DEF Next, vars
<1>2. CASE part = "mail" /\ Mail!Next BY <1>1, <1>2, MailNext DEF FetchInv
<1>3. CASE part = "updates" /\ Updates!Next BY <1>1, <1>3, UpdatesNext DEF FetchInv
<1>4. CASE UNCHANGED <<mvars, uvars>>
  <2>1. MailInv => MailInv'
    BY <1>4 DEF mvars, MailInv, MailTypes, PollInv, PassedInv, KeyedInv, KeyMade, Mail!EachMailItsOwnEvent
  <2>2. UpdatesInv => UpdatesInv' BY <1>4 DEF uvars, UpdatesInv, UpdateTypes, OffsetInv, NoteInv
  <2> QED BY <1>1, <2>1, <2>2 DEF FetchInv
<1>5. CASE part = "mail" /\ UNCHANGED mvars
  <2>1. MailInv => MailInv'
    BY <1>5 DEF mvars, MailInv, MailTypes, PollInv, PassedInv, KeyedInv, KeyMade, Mail!EachMailItsOwnEvent
  <2> QED BY <1>1, <1>5, <2>1 DEF FetchInv
<1> QED BY <1>2, <1>3, <1>4, <1>5 DEF Next, vars

(* What is fetched is fetched once and completely, whatever the size of a batch and of the       *)
(* mailbox: no mail behind the cursor and no Telegram update is passed over, old mail stays out, *)
(* no mail loses its event to another's key (email.adapter.ts), and a Telegram channel that      *)
(* receives nothing says so (telegram.adapter.ts).                                               *)
THEOREM EverythingIsFetched == Spec => []NothingFetchedIsLost
<1>1. Init => FetchInv BY MailInit, UpdatesInit DEF Init, FetchInv
<1>2. FetchInv /\ [Next]_vars => FetchInv' BY FetchNext
<1>3. FetchInv => NothingFetchedIsLost BY MailInvImplies, UpdatesInvImplies DEF FetchInv, NothingFetchedIsLost
<1> QED BY <1>1, <1>2, <1>3, PTL DEF Spec

-----------------------------------------------------------------------------
(* Replies and what their failures mean *)

Passing == {"outage", "busy", "lost", "noid"}

SendTypes ==
    /\ sender \in Sending!Provider /\ content \in Sending!ContentKind
    /\ made \in 0 .. Attempts /\ calls \in 0 .. made /\ copies \in 0 .. made
    /\ taken \subseteq {0} /\ seen \subseteq Sending!World
    /\ outcome \in {"PENDING", "SENT", "FAILED"}

\* A reply that is to be tried again has met nothing but what may pass.
SendInv ==
    /\ SendTypes /\ blamed \in BOOLEAN
    /\ sender = "LINE" => copies <= 1 /\ (copies = 0 \/ 0 \in taken)
    /\ blamed <=> {"revoked", "forbidden"} \cap seen # {}
    /\ outcome = "PENDING" => seen \subseteq Passing
    /\ outcome = "FAILED" /\ content \in Sending!Buildable[sender] /\ seen \subseteq Passing => made = Attempts
    /\ outcome = "SENT" => seen \subseteq Passing \cup {"fine"}
    /\ content \notin Sending!Buildable[sender] =>
         calls = 0 /\ copies = 0 /\ made <= 1 /\ (outcome = "PENDING" => made = 0)

\* Only an error that blames the credentials asks for a reconnect, and only what passes is retried,
\* in the words of every provider.
LEMMA ErrorsCategorised ==
    ASSUME sender \in Sending!Provider, NEW world \in Sending!Meets[sender] \ {"fine", "lost", "noid"}
    PROVE  /\ Sending!RequiresReconnect(Sending!Category(world)) <=> world \in {"revoked", "forbidden"}
           /\ Sending!Retryable(Sending!Category(world)) <=> world \in {"outage", "busy"}
<1> USE DEF Sending!RequiresReconnect, Sending!Retryable, Sending!Says, Sending!Graph
<1>1. CASE sender \in Sending!Graph
  <2>1. world \in {"outage", "busy", "revoked", "forbidden", "blocked", "window", "refused"}
    BY <1>1 DEF Sending!Meets, Sending!World
  <2> QED BY <1>1, <2>1 DEF Sending!Category, Sending!categorizeGraphError, Sending!mapHttpStatus, Sending!Answer
<1>2. CASE sender = "TELEGRAM"
  <2>1. world \in {"outage", "busy", "revoked", "blocked", "refused"} BY <1>2 DEF Sending!Meets, Sending!World
  <2> QED BY <1>2, <2>1 DEF Sending!Category, Sending!mapTelegramError, Sending!Answer
<1>3. CASE sender = "LINE"
  <2>1. world \in {"outage", "busy", "revoked", "forbidden", "blocked", "refused", "quota"}
    BY <1>3 DEF Sending!Meets, Sending!World
  <2> QED BY <1>3, <2>1 DEF Sending!Category, Sending!mapLineError, Sending!mapHttpStatus, Sending!Answer
<1>4. CASE sender = "EMAIL"
  <2>1. world \in {"outage", "busy", "revoked", "blocked", "refused"} BY <1>4 DEF Sending!Meets, Sending!World
  <2> QED BY <1>4, <2>1 DEF Sending!Category, Sending!mapMailError, Sending!Answer
<1>5. CASE sender = "CUSTOM"
  <2>1. world \in {"outage", "busy", "revoked", "forbidden", "refused"} BY <1>5 DEF Sending!Meets, Sending!World
  <2> QED BY <1>5, <2>1 DEF Sending!Category, Sending!mapHttpStatus, Sending!Answer
<1>6. CASE sender = "WEBCHAT" BY <1>6 DEF Sending!Meets
<1> QED BY <1>1, <1>2, <1>3, <1>4, <1>5, <1>6 DEF Sending!Provider

\* A message that was taken counts as sent when its answer arrived and has an id.
LEMMA FineIsAccepted == ASSUME sender \in Sending!Provider PROVE Sending!Result("fine") = "ACCEPTED"
BY DEF Sending!Result, Sending!Provider, Sending!Graph, Sending!sendWhatsApp, Sending!sendMessenger,
       Sending!sendInstagram, Sending!sendTelegram, Sending!sendLine, Sending!sendEmail, Sending!sendCustom,
       Sending!sendWebchat

\* A reply that nobody has tried to send.
LEMMA SendInit == Sending!Init => SendInv
<1> SUFFICES ASSUME Sending!Init PROVE SendInv OBVIOUS
<1> USE SendAssumption DEF Sending!Init
<1>1. SendTypes BY DEF SendTypes
<1>2. blamed \in BOOLEAN BY Zenon
<1>3. ~blamed /\ {"revoked", "forbidden"} \cap seen = {} OBVIOUS
<1> QED BY <1>1, <1>2, <1>3 DEF SendInv, Passing

\* What an adapter cannot build is refused at once.
LEMMA RefuseStep == ASSUME SendInv, Sending!Refuse PROVE SendInv'
<1> USE SendAssumption DEF SendInv
<1>1. /\ UNCHANGED <<sender, content, calls, taken, copies, seen, blamed>> /\ made' = made + 1 /\ outcome' = "FAILED"
      /\ outcome = "PENDING" /\ made < Attempts /\ content \notin Sending!Buildable[sender]
  BY DEF Sending!Refuse, Sending!RefusedAs
<1>2. SendTypes' BY <1>1 DEF SendTypes
<1>3. made = 0 /\ made' <= 1 BY <1>1 DEF SendTypes
<1>4. (content \notin Sending!Buildable[sender])' BY <1>1
<1> QED BY <1>1, <1>2, <1>3, <1>4

\* The provider takes the message; its customer has it once when LINE knows the retry key.
LEMMA AcceptedStep == ASSUME SendInv, NEW world \in Sending!World, Sending!Accepted(world) PROVE SendInv'
<1> USE SendAssumption DEF SendInv
<1>1. /\ UNCHANGED <<sender, content, blamed>> /\ made' = made + 1 /\ seen' = seen \cup {world}
      /\ outcome = "PENDING" /\ made < Attempts /\ content \in Sending!Buildable[sender]
      /\ world \in {"fine", "lost", "noid"}
      /\ calls' = calls + (IF sender = "WEBCHAT" THEN 0 ELSE 1)
  BY DEF Sending!Accepted
<1>2. /\ copies' = IF sender = "LINE" /\ 0 \in taken THEN copies ELSE copies + 1
      /\ taken' = taken \cup (IF sender = "LINE" THEN {0} ELSE {})
  BY DEF Sending!Accepted, Sending!AlreadyTaken, Sending!RetryKey
<1>3. \/ outcome' = "SENT"
      \/ outcome' = "FAILED" /\ made' = Attempts /\ world # "fine"
      \/ outcome' = "PENDING" /\ world # "fine"
  BY FineIsAccepted DEF Sending!Accepted, SendTypes
<1>4. SendTypes'
  <2>1. calls' \in 0 .. made' /\ made' \in 0 .. Attempts BY <1>1 DEF SendTypes
  <2>2. copies' \in 0 .. made' BY <1>1, <1>2 DEF SendTypes
  <2> QED BY <1>1, <1>2, <1>3, <2>1, <2>2 DEF SendTypes
<1>5. sender' = "LINE" => copies' <= 1 /\ (copies' = 0 \/ 0 \in taken') BY <1>1, <1>2 DEF SendTypes
<1>6. {"revoked", "forbidden"} \cap seen' = {"revoked", "forbidden"} \cap seen BY <1>1
<1>7. outcome' # "SENT" => seen' \subseteq Passing BY <1>1, <1>3 DEF Passing
<1>8. seen' \subseteq Passing \cup {"fine"} BY <1>1 DEF Passing
<1>9. (content \in Sending!Buildable[sender])' BY <1>1
<1> QED BY <1>1, <1>3, <1>4, <1>5, <1>6, <1>7, <1>8, <1>9

\* The provider answers with an error.
LEMMA RejectedStep == ASSUME SendInv, NEW world \in Sending!World, Sending!Rejected(world) PROVE SendInv'
<1> USE SendAssumption DEF SendInv
<1>1. /\ UNCHANGED <<sender, content, taken, copies>> /\ made' = made + 1 /\ seen' = seen \cup {world}
      /\ outcome = "PENDING" /\ made < Attempts /\ content \in Sending!Buildable[sender]
      /\ world \in Sending!Meets[sender] \ {"fine", "lost", "noid"} /\ calls' = calls + 1
  BY DEF Sending!Rejected
<1>2. sender \in Sending!Provider BY DEF SendTypes
<1>3. blamed' = (blamed \/ world \in {"revoked", "forbidden"})
  <2>1. blamed' = (blamed \/ Sending!RequiresReconnect(Sending!Category(world))) BY DEF Sending!Rejected
  <2>2. Sending!RequiresReconnect(Sending!Category(world)) <=> world \in {"revoked", "forbidden"}
    BY <1>1, <1>2, ErrorsCategorised
  <2> QED BY <2>1, <2>2 DEF Sending!RequiresReconnect
<1>4. outcome' = IF world \in {"outage", "busy"} /\ made' < Attempts THEN "PENDING" ELSE "FAILED"
  BY <1>1, <1>2, ErrorsCategorised DEF Sending!Rejected
<1>5. SendTypes'
  <2>1. calls' \in 0 .. made' /\ made' \in 0 .. Attempts BY <1>1 DEF SendTypes
  <2>2. copies' \in 0 .. made' BY <1>1 DEF SendTypes
  <2> QED BY <1>1, <1>4, <2>1, <2>2 DEF SendTypes
<1>6. blamed' \in BOOLEAN BY <1>3, Zenon
<1>7. blamed' <=> {"revoked", "forbidden"} \cap seen' # {} BY <1>1, <1>3
<1>8. outcome' = "PENDING" => seen' \subseteq Passing BY <1>1, <1>4 DEF Passing
<1>9. outcome' = "FAILED" /\ seen' \subseteq Passing => made' = Attempts
  <2>1. seen' \subseteq Passing => world \in {"outage", "busy"} BY <1>1 DEF Passing
  <2> QED BY <1>1, <1>4, <2>1 DEF SendTypes
<1>10. outcome' # "SENT" BY <1>4
<1>11. (content \in Sending!Buildable[sender])' BY <1>1
<1> QED BY <1>1, <1>5, <1>6, <1>7, <1>8, <1>9, <1>10, <1>11

\* What the invariant says of a reply.
LEMMA SendInvImplies ==
    ASSUME SendInv
    PROVE  /\ Sending!TypeOK /\ Sending!LineSendsOnce /\ Sending!ReconnectMeansCredentials
           /\ Sending!GivenUpForAReason /\ Sending!RefusedWithoutCall
<1> USE SendAssumption DEF SendInv
<1>1. calls \in 0 .. Attempts /\ copies \in 0 .. Attempts /\ taken \subseteq 0 .. Attempts BY DEF SendTypes
<1>2. Sending!TypeOK BY <1>1, Zenon DEF Sending!TypeOK, SendTypes
<1>3. Sending!LineSendsOnce BY DEF Sending!LineSendsOnce
<1>4. Sending!ReconnectMeansCredentials BY Zenon DEF Sending!ReconnectMeansCredentials
<1>5. Sending!GivenUpForAReason BY DEF Sending!GivenUpForAReason, Passing, SendTypes
<1>6. Sending!RefusedWithoutCall BY DEF Sending!RefusedWithoutCall
<1> QED BY <1>2, <1>3, <1>4, <1>5, <1>6

(* A failure is blamed on what failed, in the words of every provider and for any number of      *)
(* attempts: a channel is to be reconnected only when its credentials are at fault, a reply is   *)
(* given up early only for a reason that a retry cannot cure, what an adapter cannot send is     *)
(* refused without a call, and LINE takes a retried reply once (provider-error.ts and the error  *)
(* mappers of the adapters).                                                                     *)
THEOREM FailuresAreBlamedRightly == Spec => []FailuresAreUnderstood
<1> DEFINE I == part = "sending" => SendInv
<1>1. Init => I BY SendInit DEF Init
<1>2. I /\ [Next]_vars => I'
  <2> SUFFICES ASSUME I, [Next]_vars PROVE I' OBVIOUS
  <2>1. part' = part BY DEF Next, vars
  <2>2. CASE part = "sending" /\ Sending!Next BY <2>1, <2>2, RefuseStep, AcceptedStep, RejectedStep DEF Sending!Next
  <2>3. CASE UNCHANGED svars BY <2>1, <2>3, Zenon DEF svars, SendInv, SendTypes
  <2> QED BY <2>2, <2>3 DEF Next, vars
<1>3. I => FailuresAreUnderstood BY SendInvImplies DEF FailuresAreUnderstood
<1> HIDE DEF I
<1> QED BY <1>1, <1>2, <1>3, PTL DEF Spec

-----------------------------------------------------------------------------
(* What webhook calls are turned into *)

\* The kinds of event that are numbered: by chat, or by visitor, in TELEGRAM and WEBCHAT.
Numbered == {"message", "group", "edited", "echo", "postback", "reaction"}
ByChat == provider \in {"TELEGRAM", "WEBCHAT"}
Scope(c) == {e \in happened : e.kind \in Numbered /\ (ByChat => e.from = c)}

\* What a provider reports, kind by kind.
EventOK(e) ==
    /\ e \in Inbound!Native
    /\ e.kind = "message" => e.what \in Inbound!Bodies[provider]
    /\ e.kind # "message" => e.kind \in Inbound!Others[provider]
    /\ Inbound!IsReceipt(e) => e.what \in Inbound!States[provider] /\ e.about \in Reply
    /\ ~Inbound!IsReceipt(e) /\ e.kind # "message" => e.what \in {"react", "unreact", "press"}
    /\ ~Inbound!IsReceipt(e) /\ provider \in {"CUSTOM", "WEBCHAT"} => e.about = 0

\* Events are told apart by their number, numbered ones by their id, reports by what they report.
EventsInv ==
    /\ provider \in Inbound!Provider
    /\ IsFiniteSet(happened) /\ Cardinality(happened) <= MaxEvents
    /\ \A e \in happened : EventOK(e) /\ e.n <= Cardinality(happened)
    /\ \A c \in Customer : \A e \in Scope(c) : e.id <= Cardinality(Scope(c))
    /\ \A e, f \in happened : e.n = f.n => e = f
    /\ \A e, f \in happened :
         e.kind \in Numbered /\ f.kind \in Numbered /\ e.id = f.id /\ (ByChat => e.from = f.from) => e = f
    /\ \A e, f \in happened :
         Inbound!IsReceipt(e) /\ e.kind = f.kind /\ e.about = f.about /\ e.what = f.what => e = f

\* An event that was delivered is journaled under its key, and what was processed has its effect.
WayInInv ==
    /\ delivered \subseteq happened
    /\ \A j \in journal : /\ j.payload \in delivered /\ Inbound!Extracted(j.payload)
                          /\ j = [key |-> Inbound!Key(j.payload), payload |-> j.payload]
    /\ \A e \in delivered : Inbound!Extracted(e) => [key |-> Inbound!Key(e), payload |-> e] \in journal
    /\ \A k \in pending : \E j \in journal : j.key = k
    /\ \A r \in stored : /\ r.of \in delivered /\ Inbound!Extracted(r.of) /\ ~Inbound!IsReceipt(r.of)
                         /\ r.id = Inbound!MessageId(r.of) /\ r.id # Inbound!NoMessage
                         /\ r.quotes = Inbound!ReplyTarget(r.of) /\ r.content = Inbound!Content(r.of)
    /\ \A r \in receipts : r.reply \in Reply /\ r.status \in {"SENT", "DELIVERED", "READ", "FAILED"}
    /\ \A j \in journal : j.key \notin pending =>
         /\ Inbound!IsReceipt(j.payload) => Inbound!Receipts(j.payload) \subseteq receipts
         /\ ~Inbound!IsReceipt(j.payload) /\ Inbound!MessageId(j.payload) # Inbound!NoMessage =>
              \E r \in stored : r.of = j.payload

\* The adapters count with the same Cardinality.
LEMMA InboundCount == \A S : Inbound!Cardinality(S) = Cardinality(S)
BY Zenon DEF Inbound!Cardinality, Cardinality, Inbound!IsFiniteSet, IsFiniteSet

\* The kinds of event each provider has.
LEMMA KindsOf ==
    ASSUME provider \in Inbound!Provider, NEW e, EventOK(e)
    PROVE  /\ provider = "WHATSAPP" => e.kind \in {"message", "reaction", "status"}
           /\ provider = "TELEGRAM" => e.kind \in {"message", "callback", "edited", "group"}
           /\ provider = "LINE" => e.kind \in {"message", "postback", "group", "follow"}
           /\ provider = "META" => e.kind \in {"message", "echo", "postback", "oldpostback", "reaction", "delivery", "read"}
           /\ provider = "CUSTOM" => e.kind \in {"message", "status"}
           /\ provider = "WEBCHAT" => e.kind = "message"
BY DEF EventOK, Inbound!Others

\* The tuples that the keys and the ids of META are.
IsMetaKey(e, k) ==
    \/ e.kind = "message" /\ k[1] = "mid" /\ k[2] = e.id
    \/ e.kind = "postback" /\ k[1] = "postback" /\ k[2] = e.id /\ 3 \notin DOMAIN k
    \/ e.kind = "oldpostback" /\ k[1] = "postback" /\ k[3] = e.n /\ 3 \in DOMAIN k
    \/ e.kind = "reaction" /\ k[1] = "reaction" /\ k[5] = e.n
    \/ e.kind \in {"delivery", "read"} /\ k[1] = e.kind /\ k[3] = e.n

IsMetaId(e, k) ==
    \/ e.kind \in {"message", "postback"} /\ k[1] = "mid" /\ k[2] = e.id
    \/ e.kind = "oldpostback" /\ k[1] = "postback" /\ k[3] = e.n
    \/ e.kind = "reaction" /\ k[1] = "reaction" /\ k[4] = e.n

\* Messenger and Instagram: the key by the kind of event.
LEMMA MetaKeys ==
    ASSUME NEW e, e.kind \in {"message", "postback", "oldpostback", "reaction", "delivery", "read"}
    PROVE  IsMetaKey(e, Inbound!metaKey(e))
<1> USE DEF IsMetaKey
<1>1. CASE e.kind = "message"
  <2>1. Inbound!metaKey(e) = <<"mid", e.id>> BY <1>1 DEF Inbound!metaKey
  <2> QED BY <1>1, <2>1
<1>2. CASE e.kind = "postback"
  <2>1. Inbound!metaKey(e) = <<"postback", e.id>> BY <1>2 DEF Inbound!metaKey
  <2> QED BY <1>2, <2>1
<1>3. CASE e.kind = "oldpostback"
  <2>1. Inbound!metaKey(e) = <<"postback", e.from, e.n>> BY <1>3 DEF Inbound!metaKey
  <2> QED BY <1>3, <2>1
<1>4. CASE e.kind = "reaction"
  <2>1. Inbound!metaKey(e) = <<"reaction", e.about, e.from, e.what, e.n>> BY <1>4 DEF Inbound!metaKey
  <2> QED BY <1>4, <2>1
<1>5. CASE e.kind \in {"delivery", "read"}
  <2>1. Inbound!metaKey(e) = <<e.kind, e.from, e.n>> BY <1>5 DEF Inbound!metaKey, Inbound!metaReceiptKey
  <2> QED BY <1>5, <2>1
<1> QED BY <1>1, <1>2, <1>3, <1>4, <1>5

\* And the message id by the kind of event.
LEMMA MetaIds ==
    ASSUME NEW e, e.kind \in {"message", "postback", "oldpostback", "reaction"}
    PROVE  IsMetaId(e, Inbound!normalizeMessagingEvent(e))
<1> USE DEF IsMetaId
<1>1. CASE e.kind \in {"message", "postback"}
  <2>1. Inbound!normalizeMessagingEvent(e) = <<"mid", e.id>> BY <1>1 DEF Inbound!normalizeMessagingEvent
  <2> QED BY <1>1, <2>1
<1>2. CASE e.kind = "oldpostback"
  <2>1. Inbound!normalizeMessagingEvent(e) = <<"postback", e.from, e.n>> BY <1>2 DEF Inbound!normalizeMessagingEvent
  <2> QED BY <1>2, <2>1
<1>3. CASE e.kind = "reaction"
  <2>1. Inbound!normalizeMessagingEvent(e) = <<"reaction", e.about, e.from, e.n>>
    BY <1>3 DEF Inbound!normalizeMessagingEvent, Inbound!metaReactionId
  <2> QED BY <1>3, <2>1
<1> QED BY <1>1, <1>2, <1>3

\* extractEvents gives two events one key only when they are one event.
LEMMA KeysTellApart ==
    ASSUME EventsInv, NEW e \in happened, NEW f \in happened, Inbound!Extracted(e), Inbound!Extracted(f),
           Inbound!Key(e) = Inbound!Key(f)
    PROVE  e = f
<1>1. provider \in Inbound!Provider /\ EventOK(e) /\ EventOK(f) BY DEF EventsInv
<1>2. e.n = f.n => e = f BY DEF EventsInv
<1>3. e.kind \in Numbered /\ f.kind \in Numbered /\ e.id = f.id /\ (ByChat => e.from = f.from) => e = f BY DEF EventsInv
<1>4. e.kind = "status" /\ f.kind = "status" /\ e.about = f.about /\ e.what = f.what => e = f
  BY DEF EventsInv, Inbound!IsReceipt
<1>5. CASE provider = "WHATSAPP"
  BY <1>1, <1>3, <1>4, <1>5, KindsOf DEF Inbound!Key, Inbound!whatsappKey, Numbered, ByChat
<1>6. CASE provider = "TELEGRAM" BY <1>2, <1>6 DEF Inbound!Key, Inbound!telegramKey
<1>7. CASE provider = "LINE" BY <1>2, <1>7 DEF Inbound!Key, Inbound!lineKey
<1>8. CASE provider = "META"
  <2>1. Inbound!Key(e) = Inbound!metaKey(e) /\ Inbound!Key(f) = Inbound!metaKey(f) BY <1>8 DEF Inbound!Key
  <2>2. e.kind \in {"message", "postback", "oldpostback", "reaction", "delivery", "read"} BY <1>1, <1>8, KindsOf DEF Inbound!Extracted
  <2>3. f.kind \in {"message", "postback", "oldpostback", "reaction", "delivery", "read"} BY <1>1, <1>8, KindsOf DEF Inbound!Extracted
  <2>4. ~ByChat BY <1>8 DEF ByChat
  <2>10. IsMetaKey(e, Inbound!Key(e)) /\ IsMetaKey(f, Inbound!Key(e))
    <3>1. IsMetaKey(e, Inbound!metaKey(e)) BY <2>2, MetaKeys
    <3>2. IsMetaKey(f, Inbound!metaKey(f)) BY <2>3, MetaKeys
    <3>3. Inbound!metaKey(f) = Inbound!Key(e) BY <2>1
    <3> QED BY <2>1, <3>1, <3>2, <3>3
  <2>5. CASE e.kind = "message"
    <3>1. f.kind = "message" /\ e.id = f.id BY <2>5, <2>10 DEF IsMetaKey
    <3> QED BY <1>3, <2>4, <2>5, <3>1 DEF Numbered
  <2>6. CASE e.kind = "postback"
    <3>1. f.kind = "postback" /\ e.id = f.id BY <2>6, <2>10 DEF IsMetaKey
    <3> QED BY <1>3, <2>4, <2>6, <3>1 DEF Numbered
  <2>7. CASE e.kind = "oldpostback" BY <1>2, <2>7, <2>10 DEF IsMetaKey
  <2>8. CASE e.kind = "reaction" BY <1>2, <2>8, <2>10 DEF IsMetaKey
  <2>9. CASE e.kind \in {"delivery", "read"} BY <1>2, <2>9, <2>10 DEF IsMetaKey
  <2> QED BY <2>2, <2>5, <2>6, <2>7, <2>8, <2>9
<1>9. CASE provider = "CUSTOM"
  BY <1>1, <1>3, <1>4, <1>9, KindsOf DEF Inbound!Key, Inbound!customKey, Numbered, ByChat
<1>10. CASE provider = "WEBCHAT"
  BY <1>1, <1>3, <1>10, KindsOf DEF Inbound!Key, Inbound!webchatKey, Numbered, ByChat
<1> QED BY <1>1, <1>5, <1>6, <1>7, <1>8, <1>9, <1>10 DEF Inbound!Provider

\* normalizeInbound names two events alike only when they are one event.
LEMMA MessageIdsTellApart ==
    ASSUME EventsInv, NEW e \in happened, NEW f \in happened, Inbound!Extracted(e), Inbound!Extracted(f),
           ~Inbound!IsReceipt(e), ~Inbound!IsReceipt(f),
           Inbound!MessageId(e) = Inbound!MessageId(f), Inbound!MessageId(e) # Inbound!NoMessage
    PROVE  e = f
<1> USE DEF Inbound!IsReceipt, Inbound!NoMessage
<1>1. provider \in Inbound!Provider /\ EventOK(e) /\ EventOK(f) BY DEF EventsInv
<1>2. e.n = f.n => e = f BY DEF EventsInv
<1>3. e.kind \in Numbered /\ f.kind \in Numbered /\ e.id = f.id /\ (ByChat => e.from = f.from) => e = f BY DEF EventsInv
<1>5. CASE provider = "WHATSAPP"
  BY <1>1, <1>3, <1>5, KindsOf DEF Inbound!MessageId, Inbound!whatsappMessageId, Numbered, ByChat
<1>6. CASE provider = "TELEGRAM"
  BY <1>1, <1>2, <1>3, <1>6, KindsOf
  DEF Inbound!MessageId, Inbound!normalizeTelegram, Inbound!telegramMessageId, Numbered, ByChat
<1>7. CASE provider = "LINE"
  BY <1>1, <1>2, <1>3, <1>7, KindsOf DEF Inbound!MessageId, Inbound!normalizeLine, Numbered, ByChat
<1>8. CASE provider = "META"
  <2>1. /\ Inbound!MessageId(e) = Inbound!normalizeMessagingEvent(e)
        /\ Inbound!MessageId(f) = Inbound!normalizeMessagingEvent(f)
    BY <1>8 DEF Inbound!MessageId
  <2>2. /\ e.kind \in {"message", "postback", "oldpostback", "reaction"}
        /\ f.kind \in {"message", "postback", "oldpostback", "reaction"}
    BY <1>1, <1>8, KindsOf DEF Inbound!Extracted
  <2>5. IsMetaId(e, Inbound!MessageId(e)) /\ IsMetaId(f, Inbound!MessageId(e))
    <3>1. IsMetaId(e, Inbound!normalizeMessagingEvent(e)) BY <2>2, MetaIds
    <3>2. IsMetaId(f, Inbound!normalizeMessagingEvent(f)) BY <2>2, MetaIds
    <3>3. Inbound!normalizeMessagingEvent(f) = Inbound!MessageId(e) BY <2>1
    <3> QED BY <2>1, <3>1, <3>2, <3>3
  <2>3. CASE e.kind \in {"message", "postback"}
    <3>1. f.kind \in {"message", "postback"} /\ e.id = f.id BY <2>3, <2>5 DEF IsMetaId
    <3> QED BY <1>3, <1>8, <2>3, <3>1 DEF Numbered, ByChat
  <2>4. CASE e.kind \in {"oldpostback", "reaction"} BY <1>2, <2>4, <2>5 DEF IsMetaId
  <2> QED BY <2>2, <2>3, <2>4
<1>9. CASE provider = "CUSTOM"
  BY <1>1, <1>3, <1>9, KindsOf DEF Inbound!MessageId, Inbound!normalizeCustom, Numbered, ByChat
<1>10. CASE provider = "WEBCHAT"
  BY <1>1, <1>3, <1>10, KindsOf DEF Inbound!MessageId, Inbound!normalizeWebchat, Numbered, ByChat
<1> QED BY <1>1, <1>5, <1>6, <1>7, <1>8, <1>9, <1>10 DEF Inbound!Provider

\* What becomes a message was done by a customer, and everything that was becomes one.
LEMMA MessagesAreByCustomers ==
    ASSUME provider \in Inbound!Provider, NEW e, EventOK(e), Inbound!Extracted(e), ~Inbound!IsReceipt(e)
    PROVE  Inbound!MessageId(e) # Inbound!NoMessage <=> Inbound!ByCustomer(e)
<1> USE DEF Inbound!IsReceipt, Inbound!NoMessage, Inbound!ByCustomer, Inbound!Extracted
<1>1. CASE provider \in {"CUSTOM", "WEBCHAT"}
  BY <1>1, KindsOf DEF Inbound!MessageId, Inbound!normalizeCustom, Inbound!normalizeWebchat
<1>2. CASE provider \notin {"CUSTOM", "WEBCHAT"}
  <2>1. e.what # "notext" BY <1>2 DEF EventOK, Inbound!Bodies, Inbound!Provider
  <2>2. CASE provider = "WHATSAPP" BY <2>1, <2>2, KindsOf DEF Inbound!MessageId, Inbound!whatsappMessageId
  <2>3. CASE provider = "TELEGRAM"
    BY <2>1, <2>3, KindsOf DEF Inbound!MessageId, Inbound!normalizeTelegram, Inbound!telegramMessageId
  <2>4. CASE provider = "LINE" BY <2>1, <2>4, KindsOf DEF Inbound!MessageId, Inbound!normalizeLine
  <2>5. CASE provider = "META"
    BY <2>1, <2>5, KindsOf DEF Inbound!MessageId, Inbound!normalizeMessagingEvent, Inbound!metaReactionId
  <2> QED BY <1>2, <2>2, <2>3, <2>4, <2>5 DEF Inbound!Provider
<1> QED BY <1>1, <1>2

\* A file is named in the way that its provider's download needs.
LEMMA MediaAreNamed ==
    ASSUME provider \in Inbound!Provider, NEW e, EventOK(e), ~Inbound!IsReceipt(e), Inbound!ByCustomer(e),
           Inbound!Content(e).ref # "none"
    PROVE  Inbound!Content(e).ref = Inbound!DownloadedBy[provider]
<1> USE DEF Inbound!Plain, Inbound!Media, Inbound!DownloadedBy
<1>1. CASE e.kind # "message" BY <1>1, KindsOf DEF Inbound!Content, Inbound!Provider, Inbound!ByCustomer
<1>2. CASE e.kind = "message"
  <2>1. e.what \in Inbound!Bodies[provider] BY <1>2 DEF EventOK
  <2>2. CASE provider = "WHATSAPP"
    BY <1>2, <2>1, <2>2 DEF Inbound!Content, Inbound!Bodies, Inbound!normalizeWhatsAppContent
  <2>3. CASE provider = "TELEGRAM"
    BY <1>2, <2>1, <2>3 DEF Inbound!Content, Inbound!Bodies, Inbound!normalizeTelegramContent
  <2>4. CASE provider = "LINE" BY <1>2, <2>1, <2>4 DEF Inbound!Content, Inbound!Bodies, Inbound!normalizeLineContent
  <2>5. CASE provider = "META"
    BY <1>2, <2>1, <2>5 DEF Inbound!Content, Inbound!Bodies, Inbound!normalizeMessagingContent
  <2>6. CASE provider \in {"CUSTOM", "WEBCHAT"} BY <1>2, <2>6 DEF Inbound!Content
  <2> QED BY <2>2, <2>3, <2>4, <2>5, <2>6 DEF Inbound!Provider
<1> QED BY <1>1, <1>2

\* A message that quotes another of its chat names it as that one is named.
LEMMA QuotesAreNamed ==
    ASSUME provider \in Inbound!Provider, NEW e, NEW f, EventOK(e), EventOK(f), ~Inbound!IsReceipt(e),
           e.about # 0, f.kind = "message", f.from = e.from, f.id = e.about
    PROVE  Inbound!ReplyTarget(e) = Inbound!MessageId(f)
<1>1. provider \notin {"CUSTOM", "WEBCHAT"} BY DEF EventOK
<1>2. CASE provider = "WHATSAPP" BY <1>2 DEF Inbound!ReplyTarget, Inbound!MessageId, Inbound!whatsappMessageId
<1>3. CASE provider = "TELEGRAM"
  BY <1>3 DEF Inbound!ReplyTarget, Inbound!telegramReplyTarget, Inbound!MessageId, Inbound!normalizeTelegram
<1>4. CASE provider = "LINE" BY <1>4 DEF Inbound!ReplyTarget, Inbound!MessageId, Inbound!normalizeLine
<1>5. CASE provider = "META" BY <1>5 DEF Inbound!ReplyTarget, Inbound!MessageId, Inbound!normalizeMessagingEvent
<1> QED BY <1>1, <1>2, <1>3, <1>4, <1>5 DEF Inbound!Provider

\* What is made of an event does not change while the provider is the same.
LEMMA SameNames ==
    ASSUME provider' = provider, NEW CONSTANT e
    PROVE  /\ Inbound!Key(e)' = Inbound!Key(e) /\ Inbound!MessageId(e)' = Inbound!MessageId(e)
           /\ Inbound!ReplyTarget(e)' = Inbound!ReplyTarget(e) /\ Inbound!Content(e)' = Inbound!Content(e)
           /\ Inbound!Receipts(e)' = Inbound!Receipts(e) /\ (EventOK(e)' <=> EventOK(e))
<1>1. Inbound!Key(e)' = Inbound!Key(e) BY DEF Inbound!Key
<1>2. Inbound!MessageId(e)' = Inbound!MessageId(e) BY DEF Inbound!MessageId
<1>3. Inbound!ReplyTarget(e)' = Inbound!ReplyTarget(e) BY DEF Inbound!ReplyTarget
<1>4. Inbound!Content(e)' = Inbound!Content(e) BY DEF Inbound!Content
<1>5. Inbound!Receipts(e)' = Inbound!Receipts(e) BY DEF Inbound!Receipts
<1>6. EventOK(e)' <=> EventOK(e) BY DEF EventOK
<1> QED BY <1>1, <1>2, <1>3, <1>4, <1>5, <1>6

\* A report names one of the business's replies, with a status that receipts have.
LEMMA ReceiptsAreTyped ==
    ASSUME provider \in Inbound!Provider, NEW e, EventOK(e), Inbound!IsReceipt(e), NEW r \in Inbound!Receipts(e)
    PROVE  r.reply \in Reply /\ r.status \in {"SENT", "DELIVERED", "READ", "FAILED"}
<1>1. e.about \in Reply /\ e.what \in Inbound!States[provider] BY DEF EventOK
<1>2. CASE provider = "META" BY <1>1, <1>2 DEF Inbound!Receipts, Inbound!MessagingReceipts
<1>3. CASE provider # "META"
  <2>1. PICK s \in Inbound!STATUS_MAP[e.what] : r = [reply |-> e.about, status |-> s] BY <1>3 DEF Inbound!Receipts
  <2>2. provider \in {"WHATSAPP", "CUSTOM"} BY <1>3, KindsOf DEF Inbound!IsReceipt, Inbound!Provider
  <2>3. e.what \in {"sent", "delivered", "read", "failed", "warning", "unknown"} BY <1>1, <2>2 DEF Inbound!States
  <2>4. s \in {"SENT", "DELIVERED", "READ", "FAILED"} BY <2>1, <2>3 DEF Inbound!STATUS_MAP
  <2> QED BY <1>1, <2>1, <2>4
<1> QED BY <1>2, <1>3

\* One more event at the provider, with the next number.
LEMMA EventAdded ==
    ASSUME EventsInv, NEW x, EventOK(x), provider' = provider, happened' = happened \cup {x},
           Cardinality(happened) < MaxEvents, x.n = Cardinality(happened) + 1,
           x.kind \in Numbered => x.id = Cardinality(Scope(x.from)) + 1,
           Inbound!IsReceipt(x) => ~\E e \in happened : e.kind = x.kind /\ e.about = x.about /\ e.what = x.what
    PROVE  EventsInv'
<1> USE InboundAssumption
<1>1. Cardinality(happened) \in Nat /\ IsFiniteSet(happened) BY FS_CardinalityType DEF EventsInv
<1>2. \A e \in happened : e.n \in Nat /\ e.id \in Nat /\ e.n <= Cardinality(happened) /\ e.from \in Customer
  BY DEF EventsInv, EventOK, Inbound!Native
<1>3. x.n \in Nat /\ x.id \in Nat /\ x.from \in Customer BY DEF EventOK, Inbound!Native
<1>4. x \notin happened BY <1>1, <1>2
<1>5. IsFiniteSet(happened') /\ Cardinality(happened') = Cardinality(happened) + 1 BY <1>1, <1>4, FS_AddElement
<1>6. provider' \in Inbound!Provider /\ Cardinality(happened') <= MaxEvents BY <1>1, <1>5 DEF EventsInv
<1>7. ASSUME NEW e \in happened' PROVE EventOK(e)' /\ e.n <= Cardinality(happened')
  <2>1. EventOK(e) /\ e.n <= Cardinality(happened) + 1 BY <1>1, <1>2 DEF EventsInv
  <2>2. EventOK(e)' BY <2>1, SameNames
  <2> QED BY <1>5, <2>1, <2>2
<1>8. \A c : Scope(c) \subseteq happened /\ IsFiniteSet(Scope(c)) /\ Cardinality(Scope(c)) \in Nat
  <2> SUFFICES ASSUME NEW c PROVE Scope(c) \subseteq happened /\ IsFiniteSet(Scope(c)) /\ Cardinality(Scope(c)) \in Nat
    OBVIOUS
  <2>1. Scope(c) \subseteq happened BY DEF Scope
  <2>2. IsFiniteSet(Scope(c)) BY <1>1, <2>1, FS_Subset
  <2> QED BY <2>1, <2>2, FS_CardinalityType
<1>9. ASSUME NEW c \in Customer, NEW e \in Scope(c)' PROVE e.id <= Cardinality(Scope(c)')
  <2>1. CASE x.kind \in Numbered /\ (ByChat => x.from = c)
    <3>1. Scope(c)' = Scope(c) \cup {x} BY <2>1 DEF Scope, ByChat
    <3>2. x \notin Scope(c) BY <1>4, <1>8
    <3>3. Cardinality(Scope(c)') = Cardinality(Scope(c)) + 1 BY <1>8, <3>1, <3>2, FS_AddElement
    <3>4. Scope(x.from) = Scope(c) BY <2>1 DEF Scope
    <3>5. x.id = Cardinality(Scope(c)) + 1 BY <2>1, <3>4
    <3>6. e \in Scope(c) => e.id \in Nat /\ e.id <= Cardinality(Scope(c)) BY <1>2, <1>8 DEF EventsInv
    <3>7. Cardinality(Scope(c)) \in Nat BY <1>8
    <3>8. e \in Scope(c) \/ e = x BY <1>9, <3>1
    <3> QED BY <3>3, <3>5, <3>6, <3>7, <3>8
  <2>2. CASE ~(x.kind \in Numbered /\ (ByChat => x.from = c))
    <3>1. Scope(c)' = Scope(c) BY <2>2 DEF Scope, ByChat
    <3> QED BY <1>9, <3>1 DEF EventsInv
  <2> QED BY <2>1, <2>2
<1>10. \A e, f \in happened' : e.n = f.n => e = f
  <2>1. \A e \in happened : e.n # x.n BY <1>1, <1>2
  <2> QED BY <2>1 DEF EventsInv
<1>11. ASSUME NEW e \in happened', NEW f \in happened', e.kind \in Numbered, f.kind \in Numbered, e.id = f.id,
              ByChat => e.from = f.from
       PROVE  e = f
  <2>1. ASSUME NEW g \in happened, g.kind \in Numbered, x.kind \in Numbered, ByChat => g.from = x.from PROVE g.id # x.id
    <3>1. g \in Scope(x.from) BY <2>1 DEF Scope
    <3>2. g.id <= Cardinality(Scope(x.from)) BY <1>3, <3>1 DEF EventsInv
    <3>3. Cardinality(Scope(x.from)) \in Nat BY <1>8
    <3>4. x.id = Cardinality(Scope(x.from)) + 1 BY <2>1
    <3> QED BY <1>2, <3>2, <3>3, <3>4
  <2>2. CASE e \in happened /\ f \in happened BY <1>11, <2>2 DEF EventsInv
  <2>3. CASE e = x /\ f \in happened BY <1>11, <2>1, <2>3
  <2>4. CASE e \in happened /\ f = x BY <1>11, <2>1, <2>4
  <2> QED BY <2>2, <2>3, <2>4
<1>12. \A e, f \in happened' :
         Inbound!IsReceipt(e) /\ e.kind = f.kind /\ e.about = f.about /\ e.what = f.what => e = f
  BY DEF EventsInv, Inbound!IsReceipt
<1>13. ByChat' = ByChat BY DEF ByChat
<1> QED BY <1>5, <1>6, <1>7, <1>9, <1>10, <1>11, <1>12, <1>13 DEF EventsInv

\* Something happens at the provider.
LEMMA HappensStep == ASSUME EventsInv, WayInInv, Inbound!Happens PROVE EventsInv' /\ WayInInv'
<1> USE InboundAssumption
<1>1. UNCHANGED <<provider, delivered, journal, pending, stored, receipts>> /\ Cardinality(happened) < MaxEvents
  BY InboundCount DEF Inbound!Happens
<1>2. provider \in Inbound!Provider /\ IsFiniteSet(happened) /\ Cardinality(happened) \in Nat
  BY FS_CardinalityType DEF EventsInv
<1>3. \A c : Inbound!LastId(c) = Cardinality(Scope(c)) BY InboundCount DEF Inbound!LastId, Scope, Numbered, ByChat
<1>4. \A c : Cardinality(Scope(c)) \in Nat /\ Cardinality(Scope(c)) <= Cardinality(happened)
  <2> SUFFICES ASSUME NEW c PROVE Cardinality(Scope(c)) \in Nat /\ Cardinality(Scope(c)) <= Cardinality(happened) OBVIOUS
  <2>1. Scope(c) \in SUBSET happened BY DEF Scope
  <2>2. IsFiniteSet(Scope(c)) /\ Cardinality(Scope(c)) <= Cardinality(happened) BY <1>2, <2>1, FS_Subset
  <2> QED BY <2>2, FS_CardinalityType
<1>5. \A e \in happened : e.id \in 0 .. MaxEvents BY DEF EventsInv, EventOK, Inbound!Native
<1> DEFINE New(x) ==
      /\ EventOK(x) /\ happened' = happened \cup {x} /\ x.n = Cardinality(happened) + 1
      /\ x.kind \in Numbered => x.id = Cardinality(Scope(x.from)) + 1
      /\ Inbound!IsReceipt(x) => ~\E e \in happened : e.kind = x.kind /\ e.about = x.about /\ e.what = x.what
<1>6. \E x : New(x)
  <2>1. PICK c \in Customer :
          \/ \E body \in Inbound!Bodies[provider], quoted \in 0 .. MaxEvents : Inbound!Writes(c, body, quoted)
          \/ \E kind \in Inbound!Others[provider] \ {"status", "delivery", "read"},
                what \in {"react", "unreact", "press"}, target \in 0 .. MaxEvents : Inbound!Acts(c, kind, what, target)
          \/ \E kind \in Inbound!Others[provider] \cap {"status", "delivery", "read"}, reply \in Reply :
               \E what \in Inbound!States[provider] : Inbound!Reports(c, kind, what, reply)
    BY DEF Inbound!Happens
  <2> DEFINE n == Cardinality(happened) + 1
             id == Cardinality(Scope(c)) + 1
  <2>2. n \in 1 .. MaxEvents /\ id \in 1 .. MaxEvents BY <1>1, <1>2, <1>4
  <2>3. CASE \E body \in Inbound!Bodies[provider], quoted \in 0 .. MaxEvents : Inbound!Writes(c, body, quoted)
    <3>1. PICK body \in Inbound!Bodies[provider], quoted \in 0 .. MaxEvents : Inbound!Writes(c, body, quoted) BY <2>3
    <3> DEFINE x == [kind |-> "message", from |-> c, n |-> n, id |-> id, what |-> body, about |-> quoted]
    <3>2. happened' = happened \cup {x} BY <1>3, <3>1, InboundCount DEF Inbound!Writes
    <3>3. body \in Inbound!Whats BY <1>2 DEF Inbound!Whats, Inbound!Written
    <3>4. quoted # 0 => provider \notin {"CUSTOM", "WEBCHAT"} BY <3>1 DEF Inbound!Writes
    <3> HIDE DEF n, id
    <3>5. x \in Inbound!Native BY <2>2, <3>3 DEF Inbound!Native, Inbound!Kinds
    <3>6. EventOK(x) BY <3>4, <3>5 DEF EventOK, Inbound!IsReceipt
    <3>7. x.n = n /\ x.id = id /\ x.from = c /\ ~Inbound!IsReceipt(x) BY DEF Inbound!IsReceipt
    <3> HIDE DEF x
    <3> QED BY <3>2, <3>6, <3>7 DEF n, id
  <2>4. CASE \E kind \in Inbound!Others[provider] \ {"status", "delivery", "read"},
               what \in {"react", "unreact", "press"}, target \in 0 .. MaxEvents : Inbound!Acts(c, kind, what, target)
    <3>1. PICK kind \in Inbound!Others[provider] \ {"status", "delivery", "read"},
               what \in {"react", "unreact", "press"}, target \in 0 .. MaxEvents : Inbound!Acts(c, kind, what, target)
      BY <2>4
    <3> DEFINE x == [kind |-> kind, from |-> c, n |-> n, id |-> id, what |-> what, about |-> target]
    <3>2. happened' = happened \cup {x} BY <1>3, <3>1, InboundCount DEF Inbound!Acts
    <3>3. what \in Inbound!Whats /\ kind \in Inbound!Kinds BY <1>2 DEF Inbound!Whats, Inbound!Kinds
    <3>4. provider \notin {"CUSTOM", "WEBCHAT"} /\ kind # "message" BY <1>2, <3>1 DEF Inbound!Others, Inbound!Provider
    <3> HIDE DEF n, id
    <3>5. x \in Inbound!Native BY <2>2, <3>3 DEF Inbound!Native
    <3>6. EventOK(x) BY <3>4, <3>5 DEF EventOK, Inbound!IsReceipt
    <3>7. x.n = n /\ x.id = id /\ x.from = c /\ ~Inbound!IsReceipt(x) BY DEF Inbound!IsReceipt
    <3> HIDE DEF x
    <3> QED BY <3>2, <3>6, <3>7 DEF n, id
  <2>5. CASE \E kind \in Inbound!Others[provider] \cap {"status", "delivery", "read"}, reply \in Reply :
               \E what \in Inbound!States[provider] : Inbound!Reports(c, kind, what, reply)
    <3>1. PICK kind \in Inbound!Others[provider] \cap {"status", "delivery", "read"}, reply \in Reply,
               what \in Inbound!States[provider] : Inbound!Reports(c, kind, what, reply)
      BY <2>5
    <3> DEFINE x == [kind |-> kind, from |-> c, n |-> n, id |-> MaxEvents, what |-> what, about |-> reply]
    <3>2. happened' = happened \cup {x} BY <3>1, InboundCount DEF Inbound!Reports
    <3>8. provider \in {"WHATSAPP", "META", "CUSTOM"} BY <1>2, <3>1 DEF Inbound!Others, Inbound!Provider
    <3>3. what \in Inbound!Whats /\ kind \in Inbound!Kinds
      <4>1. provider \in DOMAIN Inbound!States BY <3>8 DEF Inbound!States
      <4>2. Inbound!States[provider] \in {Inbound!States[p] : p \in DOMAIN Inbound!States} BY <4>1
      <4>3. what \in Inbound!Reported BY <3>1, <4>2 DEF Inbound!Reported
      <4>4. what \in Inbound!Whats BY <4>3 DEF Inbound!Whats
      <4> QED BY <1>2, <4>4 DEF Inbound!Kinds
    <3>4. MaxEvents \in 1 .. MaxEvents BY <2>2
    <3> HIDE DEF n, id
    <3>5. x \in Inbound!Native BY <2>2, <3>3, <3>4 DEF Inbound!Native
    <3>6. EventOK(x) BY <3>1, <3>5 DEF EventOK, Inbound!IsReceipt
    <3>7. x.n = n /\ x.kind \notin Numbered BY <3>1 DEF Numbered
    <3>9. ~\E e \in happened : e.kind = x.kind /\ e.about = x.about /\ e.what = x.what BY <3>1 DEF Inbound!Reports
    <3> HIDE DEF x
    <3> QED BY <3>2, <3>6, <3>7, <3>9 DEF n
  <2> QED BY <2>1, <2>3, <2>4, <2>5
<1>9. PICK x : New(x) BY <1>6
<1>7. EventsInv' BY <1>1, <1>9, EventAdded
<1>8. delivered' \subseteq happened' BY <1>1, <1>9 DEF WayInInv
<1> QED BY <1>1, <1>7, <1>8, SameNames DEF WayInInv

\* What happened does not change with what is done about it.
LEMMA EventsKept == ASSUME EventsInv, UNCHANGED <<provider, happened>> PROVE EventsInv'
<1>1. \A c : Scope(c)' = Scope(c) BY DEF Scope, ByChat
<1>2. ByChat' = ByChat BY DEF ByChat
<1> QED BY <1>1, <1>2, SameNames DEF EventsInv

\* A webhook call: the event is journaled, or is already.
LEMMA DeliverStep == ASSUME EventsInv, WayInInv, NEW e \in happened, Inbound!Deliver(e) PROVE EventsInv' /\ WayInInv'
<1> DEFINE j == [key |-> Inbound!Key(e), payload |-> e]
<1>1. UNCHANGED <<provider, happened, stored, receipts>> /\ delivered' = delivered \cup {e} BY DEF Inbound!Deliver
<1>2. EventsInv' BY <1>1, EventsKept
<1>3. delivered' \subseteq happened' BY <1>1 DEF WayInInv
<1>4. \A r \in stored' : /\ r.of \in delivered' /\ Inbound!Extracted(r.of) /\ ~Inbound!IsReceipt(r.of)
                         /\ r.id = Inbound!MessageId(r.of)' /\ r.id # Inbound!NoMessage
                         /\ r.quotes = Inbound!ReplyTarget(r.of)' /\ r.content = Inbound!Content(r.of)'
  BY <1>1, SameNames DEF WayInInv
<1>5. CASE Inbound!Extracted(e) /\ ~\E i \in journal : i.key = Inbound!Key(e)
  <2>1. journal' = journal \cup {j} /\ pending' = pending \cup {Inbound!Key(e)} BY <1>5 DEF Inbound!Deliver
  <2>2. j.key = Inbound!Key(e) /\ j.payload = e OBVIOUS
  <2> HIDE DEF j
  <2>3. ASSUME NEW i \in journal'
        PROVE  /\ i.payload \in delivered' /\ Inbound!Extracted(i.payload)
               /\ i = [key |-> Inbound!Key(i.payload), payload |-> i.payload]
    <3>1. CASE i \in journal BY <1>1, <3>1 DEF WayInInv
    <3>2. CASE i = j BY <1>1, <1>5, <2>2, <3>2 DEF j
    <3> QED BY <2>1, <3>1, <3>2
  <2>4. ASSUME NEW f \in delivered', Inbound!Extracted(f) PROVE [key |-> Inbound!Key(f), payload |-> f] \in journal'
    BY <1>1, <2>1, <2>4 DEF WayInInv, j
  <2>5. \A k \in pending' : \E i \in journal' : i.key = k BY <2>1, <2>2 DEF WayInInv
  <2>6. ASSUME NEW i \in journal', i.key \notin pending' PROVE i \in journal /\ i.key \notin pending BY <2>1, <2>2, <2>6
  <2> QED BY <1>1, <1>2, <1>3, <1>4, <2>3, <2>4, <2>5, <2>6, SameNames DEF WayInInv
<1>6. CASE ~(Inbound!Extracted(e) /\ ~\E i \in journal : i.key = Inbound!Key(e))
  <2>1. journal' = journal /\ pending' = pending BY <1>6 DEF Inbound!Deliver
  <2>2. ASSUME Inbound!Extracted(e) PROVE [key |-> Inbound!Key(e), payload |-> e] \in journal
    <3>1. PICK i \in journal : i.key = Inbound!Key(e) BY <1>6, <2>2
    <3>2. /\ i.payload \in happened /\ Inbound!Extracted(i.payload)
          /\ i = [key |-> Inbound!Key(i.payload), payload |-> i.payload]
      BY DEF WayInInv
    <3>3. Inbound!Key(i.payload) = Inbound!Key(e) BY <3>1, <3>2
    <3>4. i.payload = e BY <2>2, <3>2, <3>3, KeysTellApart
    <3> QED BY <3>2, <3>4
  <2>3. \A f \in delivered' : Inbound!Extracted(f) => [key |-> Inbound!Key(f), payload |-> f] \in journal'
    BY <1>1, <2>1, <2>2 DEF WayInInv
  <2>4. \A i \in journal' : /\ i.payload \in delivered' /\ Inbound!Extracted(i.payload)
                            /\ i = [key |-> Inbound!Key(i.payload), payload |-> i.payload]
    BY <1>1, <2>1 DEF WayInInv
  <2> QED BY <1>1, <1>2, <1>3, <1>4, <2>1, <2>3, <2>4, SameNames DEF WayInInv
<1> QED BY <1>5, <1>6

\* The worker takes an event from the journal: a message has a row of its own.
LEMMA ProcessStep ==
    ASSUME EventsInv, WayInInv, NEW j \in journal, Inbound!ProcessEvent(j) PROVE EventsInv' /\ WayInInv'
<1> DEFINE e == j.payload
           row == [id |-> Inbound!MessageId(e), of |-> e, quotes |-> Inbound!ReplyTarget(e), content |-> Inbound!Content(e)]
<1>1. UNCHANGED <<provider, happened, delivered, journal>> /\ pending' = pending \ {j.key} BY DEF Inbound!ProcessEvent
<1>2. EventsInv' BY <1>1, EventsKept
<1>3. /\ e \in delivered /\ e \in happened /\ Inbound!Extracted(e) /\ EventOK(e) /\ provider \in Inbound!Provider
      /\ j.key = Inbound!Key(e)
  BY DEF WayInInv, EventsInv
<1>4. ASSUME NEW i \in journal, i.key \notin pending' PROVE i.key \notin pending \/ i.payload = e
  <2>1. /\ i.payload \in happened /\ Inbound!Extracted(i.payload) /\ i.key = Inbound!Key(i.payload)
    BY DEF WayInInv
  <2>2. i.key = j.key => i.payload = e BY <1>3, <2>1, KeysTellApart
  <2> QED BY <1>1, <1>4, <2>2
<1>5. /\ delivered' \subseteq happened' /\ \A k \in pending' : \E i \in journal' : i.key = k
      /\ \A i \in journal' : /\ i.payload \in delivered' /\ Inbound!Extracted(i.payload)
                              /\ i = [key |-> Inbound!Key(i.payload), payload |-> i.payload]
      /\ \A f \in delivered' : Inbound!Extracted(f) => [key |-> Inbound!Key(f), payload |-> f] \in journal'
  BY <1>1 DEF WayInInv
<1> HIDE DEF e
<1>6. CASE Inbound!IsReceipt(e)
  <2>1. receipts' = receipts \cup Inbound!Receipts(e) /\ stored' = stored BY <1>6 DEF Inbound!ProcessEvent, e
  <2>2. \A r \in receipts' : r.reply \in Reply /\ r.status \in {"SENT", "DELIVERED", "READ", "FAILED"}
    BY <1>3, <1>6, <2>1, ReceiptsAreTyped DEF WayInInv
  <2>3. ASSUME NEW i \in journal', i.key \notin pending'
        PROVE  /\ Inbound!IsReceipt(i.payload) => Inbound!Receipts(i.payload) \subseteq receipts'
               /\ ~Inbound!IsReceipt(i.payload) /\ Inbound!MessageId(i.payload) # Inbound!NoMessage =>
                    \E r \in stored' : r.of = i.payload
    <3>1. CASE i.payload = e BY <1>6, <2>1, <3>1
    <3>2. CASE i.key \notin pending BY <1>1, <2>1, <3>2 DEF WayInInv
    <3> QED BY <1>1, <1>4, <2>3, <3>1, <3>2
  <2> QED BY <1>1, <1>2, <1>5, <2>1, <2>2, <2>3, SameNames DEF WayInInv
<1>7. CASE ~Inbound!IsReceipt(e)
  <2>1. /\ receipts' = receipts
        /\ stored' = IF Inbound!MessageId(e) = Inbound!NoMessage \/ \E r \in stored : r.id = Inbound!MessageId(e) THEN stored
                     ELSE stored \cup {row}
    BY <1>7 DEF Inbound!ProcessEvent, e
  <2>2. /\ row.id = Inbound!MessageId(e) /\ row.of = e /\ row.quotes = Inbound!ReplyTarget(e)
        /\ row.content = Inbound!Content(e)
    OBVIOUS
  <2> HIDE DEF row
  <2>3. ASSUME NEW r \in stored'
        PROVE  /\ r.of \in delivered' /\ Inbound!Extracted(r.of) /\ ~Inbound!IsReceipt(r.of)
               /\ r.id = Inbound!MessageId(r.of) /\ r.id # Inbound!NoMessage
               /\ r.quotes = Inbound!ReplyTarget(r.of) /\ r.content = Inbound!Content(r.of)
    <3>1. CASE r \in stored BY <1>1, <3>1 DEF WayInInv
    <3>2. CASE r \notin stored
      <4>1. r = row /\ Inbound!MessageId(e) # Inbound!NoMessage BY <2>1, <3>2
      <4> QED BY <1>1, <1>3, <1>7, <2>2, <4>1
    <3> QED BY <3>1, <3>2
  <2>4. ASSUME Inbound!MessageId(e) # Inbound!NoMessage PROVE \E r \in stored' : r.of = e
    <3>1. CASE \E r \in stored : r.id = Inbound!MessageId(e)
      <4>1. PICK r \in stored : r.id = Inbound!MessageId(e) BY <3>1
      <4>2. /\ r.of \in happened /\ Inbound!Extracted(r.of) /\ ~Inbound!IsReceipt(r.of)
            /\ Inbound!MessageId(r.of) = Inbound!MessageId(e)
        BY <4>1 DEF WayInInv
      <4>3. r.of = e BY <1>3, <1>7, <2>4, <4>2, MessageIdsTellApart
      <4> QED BY <2>1, <4>3
    <3>2. CASE ~\E r \in stored : r.id = Inbound!MessageId(e) BY <2>1, <2>2, <2>4, <3>2
    <3> QED BY <3>1, <3>2
  <2>5. ASSUME NEW i \in journal', i.key \notin pending'
        PROVE  /\ Inbound!IsReceipt(i.payload) => Inbound!Receipts(i.payload) \subseteq receipts'
               /\ ~Inbound!IsReceipt(i.payload) /\ Inbound!MessageId(i.payload) # Inbound!NoMessage =>
                    \E r \in stored' : r.of = i.payload
    <3>1. CASE i.payload = e BY <1>7, <2>4, <3>1
    <3>2. CASE i.key \notin pending
      <4>1. stored \subseteq stored' BY <2>1
      <4> QED BY <1>1, <2>1, <3>2, <4>1 DEF WayInInv
    <3> QED BY <1>1, <1>4, <2>5, <3>1, <3>2
  <2>6. \A r \in receipts' : r.reply \in Reply /\ r.status \in {"SENT", "DELIVERED", "READ", "FAILED"}
    BY <2>1 DEF WayInInv
  <2> QED BY <1>1, <1>2, <1>5, <2>3, <2>5, <2>6, SameNames DEF WayInInv
<1> QED BY <1>6, <1>7

\* What the invariant says of the rows and the receipts.
LEMMA WayInImplies ==
    ASSUME EventsInv, WayInInv
    PROVE  /\ Inbound!TypeOK
           /\ Inbound!EachActionItsOwnRow /\ Inbound!EveryReportCounts /\ Inbound!QuotesFindTheirMessage
           /\ Inbound!OnlyCustomersAreStored /\ Inbound!OfferedMediaCanBeOpened
<1>1. provider \in Inbound!Provider /\ \A e \in happened : EventOK(e) BY DEF EventsInv
<1>2. Inbound!TypeOK BY <1>1 DEF Inbound!TypeOK, WayInInv, EventOK
<1>3. ASSUME NEW e \in Inbound!Arrived
      PROVE  /\ e \in happened /\ Inbound!Extracted(e) /\ [key |-> Inbound!Key(e), payload |-> e] \in journal
             /\ Inbound!IsReceipt(e) => Inbound!Receipts(e) \subseteq receipts
             /\ ~Inbound!IsReceipt(e) /\ Inbound!MessageId(e) # Inbound!NoMessage => \E r \in stored : r.of = e
  <2>1. e \in delivered /\ Inbound!Extracted(e) /\ Inbound!Key(e) \notin pending BY <1>3 DEF Inbound!Arrived
  <2>2. [key |-> Inbound!Key(e), payload |-> e] \in journal BY <2>1 DEF WayInInv
  <2> DEFINE j == [key |-> Inbound!Key(e), payload |-> e]
  <2>3. j \in journal /\ j.key = Inbound!Key(e) /\ j.payload = e BY <2>2
  <2> HIDE DEF j
  <2>4. /\ Inbound!IsReceipt(e) => Inbound!Receipts(e) \subseteq receipts
        /\ ~Inbound!IsReceipt(e) /\ Inbound!MessageId(e) # Inbound!NoMessage => \E r \in stored : r.of = e
    BY <2>1, <2>3 DEF WayInInv
  <2> QED BY <2>1, <2>2, <2>4 DEF WayInInv
<1>4. Inbound!EachActionItsOwnRow
  <2> SUFFICES ASSUME NEW e \in Inbound!Arrived, Inbound!ByCustomer(e) PROVE \E r \in stored : r.of = e
    BY DEF Inbound!EachActionItsOwnRow
  <2>1. ~Inbound!IsReceipt(e) BY DEF Inbound!ByCustomer, Inbound!IsReceipt
  <2>2. Inbound!MessageId(e) # Inbound!NoMessage BY <1>1, <1>3, <2>1, MessagesAreByCustomers
  <2> QED BY <1>3, <2>1, <2>2
<1>5. Inbound!EveryReportCounts
  <2> SUFFICES ASSUME NEW e \in Inbound!Arrived, Inbound!IsReceipt(e), e.what # "watermark"
               PROVE  Inbound!Receipts(e) \subseteq receipts /\ (e.what = "mids" => \E r \in receipts : r.reply = e.about)
    BY <1>3 DEF Inbound!EveryReportCounts
  <2>1. Inbound!Receipts(e) \subseteq receipts BY <1>3
  <2>2. ASSUME e.what = "mids" PROVE \E r \in receipts : r.reply = e.about
    <3>1. provider = "META"
      <4>1. EventOK(e) BY <1>1, <1>3
      <4>2. provider \in {"WHATSAPP", "META", "CUSTOM"} BY <1>1, <4>1, KindsOf DEF Inbound!IsReceipt, Inbound!Provider
      <4> QED BY <2>2, <4>1, <4>2 DEF EventOK, Inbound!States
    <3> DEFINE r == [reply |-> e.about, status |-> IF e.kind = "read" THEN "READ" ELSE "DELIVERED"]
    <3>2. r \in Inbound!Receipts(e) BY <2>2, <3>1 DEF Inbound!Receipts, Inbound!MessagingReceipts
    <3>3. r.reply = e.about OBVIOUS
    <3> QED BY <2>1, <3>2, <3>3
  <2> QED BY <2>1, <2>2
<1>6. ASSUME NEW r \in stored
      PROVE  /\ EventOK(r.of) /\ Inbound!Extracted(r.of) /\ ~Inbound!IsReceipt(r.of) /\ Inbound!ByCustomer(r.of)
             /\ r.id = Inbound!MessageId(r.of) /\ r.quotes = Inbound!ReplyTarget(r.of) /\ r.content = Inbound!Content(r.of)
  <2>1. /\ EventOK(r.of) /\ Inbound!Extracted(r.of) /\ ~Inbound!IsReceipt(r.of) /\ r.id # Inbound!NoMessage
        /\ r.id = Inbound!MessageId(r.of) /\ r.quotes = Inbound!ReplyTarget(r.of) /\ r.content = Inbound!Content(r.of)
    BY <1>1 DEF WayInInv
  <2> QED BY <1>1, <2>1, MessagesAreByCustomers
<1>7. Inbound!QuotesFindTheirMessage BY <1>1, <1>6, QuotesAreNamed DEF Inbound!QuotesFindTheirMessage
<1>8. Inbound!OnlyCustomersAreStored BY <1>6 DEF Inbound!OnlyCustomersAreStored
<1>9. Inbound!OfferedMediaCanBeOpened BY <1>1, <1>6, MediaAreNamed DEF Inbound!OfferedMediaCanBeOpened
<1> QED BY <1>2, <1>4, <1>5, <1>7, <1>8, <1>9

\* Nothing has happened yet.
LEMMA InboundInit == Inbound!Init => EventsInv /\ WayInInv
<1> SUFFICES ASSUME Inbound!Init PROVE EventsInv /\ WayInInv OBVIOUS
<1> USE InboundAssumption DEF Inbound!Init
<1>1. IsFiniteSet(happened) /\ Cardinality(happened) = 0 BY FS_EmptySet
<1>2. \A c : Scope(c) = {} BY DEF Scope
<1>3. EventsInv BY <1>1, <1>2 DEF EventsInv
<1>4. WayInInv BY DEF WayInInv
<1> QED BY <1>3, <1>4

(* What customers send becomes rows as it was sent, for any number of customers and events and   *)
(* in whatever order and how often the webhooks come: two actions are never one row, no report   *)
(* is lost to another's key, quotes find their message, echoes stay out, and offered media can   *)
(* be opened (extractEvents and normalizeInbound of the adapters).                               *)
THEOREM InboundStaysFaithful == Spec => []InboundIsFaithful
<1> DEFINE I == part = "inbound" => EventsInv /\ WayInInv
<1>1. Init => I BY InboundInit DEF Init
<1>2. I /\ [Next]_vars => I'
  <2> SUFFICES ASSUME I, [Next]_vars PROVE I' OBVIOUS
  <2>1. part' = part BY DEF Next, vars
  <2>2. CASE part = "inbound" /\ Inbound!Next BY <2>1, <2>2, HappensStep, DeliverStep, ProcessStep DEF Inbound!Next
  <2>3. CASE UNCHANGED ivars
    <3>1. EventsInv => EventsInv' BY <2>3, EventsKept DEF ivars
    <3>2. WayInInv => WayInInv' BY <2>3, SameNames DEF ivars, WayInInv
    <3> QED BY <2>1, <3>1, <3>2
  <2> QED BY <2>2, <2>3 DEF Next, vars
<1>3. I => InboundIsFaithful BY WayInImplies DEF InboundIsFaithful
<1> HIDE DEF I
<1> QED BY <1>1, <1>2, <1>3, PTL DEF Spec


-----------------------------------------------------------------------------
(* The conversations of a channel *)

Ids == DOMAIN Messages

ConvRow ==
    [sender : Core!Sender, thread : {Messages[m].thread : m \in Ids}, status : {"OPEN", "PENDING", "RESOLVED"},
     assignee : Core!AgentSet \cup {""}, unread : Nat, lastInbound : Nat, last : Nat,
     times : SUBSET [of : Ids \cup {""}, time : Nat]]

CoreTypes ==
    /\ settings \in InboxSettings
    /\ conv \in Seq(ConvRow)
    /\ at \in [Ids -> {"new", "locked", "chosen", "done"}]
    /\ snap = [m \in Ids |-> snap[m]] /\ \A m \in Ids : snap[m].c \in 0 .. Len(conv)
    /\ pick \in [Ids -> Core!AgentSet \cup {""}]
    /\ user = [u \in User |-> user[u]] /\ \A u \in User : user[u].op # "none" => user[u].c \in 1 .. Len(conv)
    /\ requests \in 0 .. MaxRequests
    /\ resolves \in [Core!Sender -> Nat]
    /\ overlap \in BOOLEAN
    /\ \E b \in Nat : \A c \in DOMAIN conv : conv[c].last <= b /\ \A t \in conv[c].times : t.time <= b

\* The row of a new conversation, and of one that receives a message.
FirstRow(m) ==
    [sender |-> Messages[m].sender, thread |-> Messages[m].thread, status |-> "OPEN", assignee |-> pick[m], unread |-> 1,
     lastInbound |-> Messages[m].time, last |-> Messages[m].time, times |-> {[of |-> m, time |-> Messages[m].time]}]

NextRow(m) ==
    LET row == conv[snap[m].c]
        old == snap[m].row
        t == Messages[m].time
    IN [sender |-> row.sender, thread |-> row.thread,
        status |-> IF old.status # "OPEN" THEN "OPEN" ELSE row.status,
        assignee |-> row.assignee, unread |-> row.unread + 1,
        lastInbound |-> IF old.lastInbound <= t THEN t ELSE row.lastInbound,
        last |-> IF old.last <= t THEN t ELSE row.last,
        times |-> row.times \cup {[of |-> m, time |-> t]}]

\* What Received makes of a row.
LEMMA ReceivedRow ==
    ASSUME NEW m \in Ids, NEW row \in ConvRow, NEW old
    PROVE  Core!Received(row, old, m) =
             [sender |-> row.sender, thread |-> row.thread,
              status |-> IF old.status # "OPEN" THEN "OPEN" ELSE row.status,
              assignee |-> row.assignee, unread |-> row.unread + 1,
              lastInbound |-> IF old.lastInbound <= Messages[m].time THEN Messages[m].time ELSE row.lastInbound,
              last |-> IF old.last <= Messages[m].time THEN Messages[m].time ELSE row.last,
              times |-> row.times \cup {[of |-> m, time |-> Messages[m].time]}]
<1>1. PICK a, b, c, d, e, f, g, h :
          row = [sender |-> a, thread |-> b, status |-> c, assignee |-> d, unread |-> e, lastInbound |-> f, last |-> g,
                 times |-> h]
  BY DEF ConvRow
<1>2. ASSUME NEW v, NEW w, NEW x, NEW y, NEW z
      PROVE  [row EXCEPT !.unread = v, !.times = w, !.lastInbound = x, !.last = y, !.status = z] =
               [sender |-> a, thread |-> b, status |-> z, assignee |-> d, unread |-> v, lastInbound |-> x, last |-> y,
                times |-> w]
  <2>1. PICK r1 : r1 = [row EXCEPT !.unread = v] OBVIOUS
  <2>2. PICK r2 : r2 = [r1 EXCEPT !.times = w] OBVIOUS
  <2>3. PICK r3 : r3 = [r2 EXCEPT !.lastInbound = x] OBVIOUS
  <2>4. PICK r4 : r4 = [r3 EXCEPT !.last = y] OBVIOUS
  <2>5. r1 = [sender |-> a, thread |-> b, status |-> c, assignee |-> d, unread |-> v, lastInbound |-> f, last |-> g,
              times |-> h] BY <1>1, <2>1
  <2>6. r2 = [sender |-> a, thread |-> b, status |-> c, assignee |-> d, unread |-> v, lastInbound |-> f, last |-> g,
              times |-> w] BY <2>2, <2>5
  <2>7. r3 = [sender |-> a, thread |-> b, status |-> c, assignee |-> d, unread |-> v, lastInbound |-> x, last |-> g,
              times |-> w] BY <2>3, <2>6
  <2>8. r4 = [sender |-> a, thread |-> b, status |-> c, assignee |-> d, unread |-> v, lastInbound |-> x, last |-> y,
              times |-> w] BY <2>4, <2>7
  <2>9. [r4 EXCEPT !.status = z] =
               [sender |-> a, thread |-> b, status |-> z, assignee |-> d, unread |-> v, lastInbound |-> x, last |-> y,
                times |-> w] BY <2>8
  <2>10. [row EXCEPT !.unread = v, !.times = w, !.lastInbound = x, !.last = y, !.status = z] = [r4 EXCEPT !.status = z]
    BY <2>1, <2>2, <2>3, <2>4
  <2> QED BY <2>9, <2>10
<1>3. /\ row.sender = a /\ row.thread = b /\ row.status = c /\ row.assignee = d /\ row.unread = e
      /\ row.lastInbound = f /\ row.last = g /\ row.times = h
  BY <1>1
<1>4. PICK v, w, x, y, z :
          /\ v = row.unread + 1 /\ w = row.times \cup {[of |-> m, time |-> Messages[m].time]}
          /\ x = (IF old.lastInbound <= Messages[m].time THEN Messages[m].time ELSE row.lastInbound)
          /\ y = (IF old.last <= Messages[m].time THEN Messages[m].time ELSE row.last)
          /\ z = (IF old.status # "OPEN" THEN "OPEN" ELSE row.status)
  OBVIOUS
<1>5. Core!Received(row, old, m) =
        [row EXCEPT !.unread = v, !.times = w, !.lastInbound = x, !.last = y, !.status = z]
  BY <1>4, Zenon DEF Core!Received, Core!IsLatest
<1>6. Core!Received(row, old, m) =
        [sender |-> row.sender, thread |-> row.thread, status |-> z, assignee |-> row.assignee, unread |-> v,
         lastInbound |-> x, last |-> y, times |-> w]
  BY <1>2, <1>3, <1>5
<1> QED BY <1>4, <1>6, Zenon

\* What a commit does: a new conversation, or a row of one that exists.
LEMMA CommitIs ==
    ASSUME CoreTypes, NEW m \in Ids, Core!Commit(m)
    PROVE  /\ at[m] = "chosen" /\ at' = [at EXCEPT ![m] = "done"]
           /\ UNCHANGED <<settings, snap, pick, user, requests, resolves>>
           /\ \/ /\ snap[m].c = 0 /\ conv' = Append(conv, FirstRow(m)) /\ raced' = raced
                 /\ overlap' = (overlap \/ Core!Choosing(m))
              \/ /\ snap[m].c \in DOMAIN conv /\ conv' = [conv EXCEPT ![snap[m].c] = NextRow(m)]
                 /\ raced' = Core!Race(snap[m].c, m)
                 /\ overlap' = (overlap \/ (conv[snap[m].c].status = "RESOLVED"))
<1> DEFINE new == [Core!NoRow EXCEPT !.sender = Messages[m].sender, !.thread = Messages[m].thread,
                                     !.status = "OPEN", !.assignee = pick[m]]
           r == [sender |-> Messages[m].sender, thread |-> Messages[m].thread, status |-> "OPEN",
                 assignee |-> pick[m], unread |-> 0, lastInbound |-> 0, last |-> 0, times |-> {}]
<1>1. new = r
  <2>1. PICK a, b, c, d : a = Messages[m].sender /\ b = Messages[m].thread /\ c = "OPEN" /\ d = pick[m] OBVIOUS
  <2>2. PICK r1 : r1 = [Core!NoRow EXCEPT !.sender = a] OBVIOUS
  <2>3. PICK r2 : r2 = [r1 EXCEPT !.thread = b] OBVIOUS
  <2>4. PICK r3 : r3 = [r2 EXCEPT !.status = c] OBVIOUS
  <2>5. r1 = [sender |-> a, thread |-> "", status |-> "", assignee |-> "", unread |-> 0, lastInbound |-> 0, last |-> 0,
              times |-> {}] BY <2>2 DEF Core!NoRow
  <2>6. r2 = [sender |-> a, thread |-> b, status |-> "", assignee |-> "", unread |-> 0, lastInbound |-> 0, last |-> 0,
              times |-> {}] BY <2>3, <2>5
  <2>7. r3 = [sender |-> a, thread |-> b, status |-> c, assignee |-> "", unread |-> 0, lastInbound |-> 0, last |-> 0,
              times |-> {}] BY <2>4, <2>6
  <2>8. PICK r4 : r4 = [r3 EXCEPT !.assignee = d] OBVIOUS
  <2>10. r4 = [sender |-> a, thread |-> b, status |-> c, assignee |-> d, unread |-> 0, lastInbound |-> 0, last |-> 0,
               times |-> {}] BY <2>7, <2>8
  <2>9. new = r4 BY <2>8, <2>1, <2>2, <2>3, <2>4
  <2> QED BY <2>1, <2>10, <2>9, Zenon
<1>2. r \in ConvRow BY DEF CoreTypes, ConvRow, Core!Sender, Ids
<1>3. Messages[m].time \in Nat BY ConversationsAssumption DEF Ids
<1>4. Core!Received(new, new, m) = FirstRow(m)
  <2> HIDE DEF new
  <2>1. Core!Received(r, r, m) =
             [sender |-> r.sender, thread |-> r.thread,
              status |-> IF r.status # "OPEN" THEN "OPEN" ELSE r.status,
              assignee |-> r.assignee, unread |-> r.unread + 1,
              lastInbound |-> IF r.lastInbound <= Messages[m].time THEN Messages[m].time ELSE r.lastInbound,
              last |-> IF r.last <= Messages[m].time THEN Messages[m].time ELSE r.last,
              times |-> r.times \cup {[of |-> m, time |-> Messages[m].time]}]
    <3> HIDE DEF r
    <3> QED BY <1>2, ReceivedRow
  <2>2. Core!Received(r, r, m) = FirstRow(m) BY <1>3, <2>1 DEF FirstRow
  <2> QED BY <1>1, <2>2
<1>5. CASE snap[m].c = 0
  <2> HIDE DEF r
  <2> QED BY <1>4, <1>5 DEF Core!Commit
<1>6. CASE snap[m].c # 0
  <2>1. snap[m].c \in DOMAIN conv /\ conv[snap[m].c] \in ConvRow
    <3>1. snap[m].c \in 0 .. Len(conv) /\ conv \in Seq(ConvRow) BY DEF CoreTypes
    <3> QED BY <1>6, <3>1
  <2>2. Core!Received(conv[snap[m].c], snap[m].row, m) = NextRow(m) BY <2>1, ReceivedRow DEF NextRow
  <2>3. conv' = [conv EXCEPT ![snap[m].c] = Core!Received(conv[snap[m].c], snap[m].row, m)] BY <1>6, <2>1 DEF Core!Commit
  <2> QED BY <1>6, <2>1, <2>2, <2>3 DEF Core!Commit
<1> QED BY <1>5, <1>6


\* A set of naturals with a bound has a largest element.
LEMMA MaxOf ==
    ASSUME NEW S, S \subseteq Nat, S # {}, NEW b \in Nat, \A x \in S : x <= b
    PROVE  Core!Max(S) \in S /\ \A x \in S : x <= Core!Max(S)
<1>1. S \subseteq 0 .. b OBVIOUS
<1>2. PICK u \in S : \A x \in S : x <= u BY <1>1, LargestBelow
<1>3. \E x \in S : \A y \in S : x >= y
  <2>1. \A x \in S : u >= x BY <1>2
  <2> QED BY <2>1
<1>4. Core!Max(S) \in S /\ \A y \in S : Core!Max(S) >= y BY <1>3, Zenon DEF Core!Max
<1> QED BY <1>4

\* The largest element is the only one.
LEMMA MaxIs ==
    ASSUME NEW S, S \subseteq Nat, NEW x \in S, \A y \in S : y <= x
    PROVE  Core!Max(S) = x
<1>1. x \in Nat OBVIOUS
<1>2. PICK z : z = Core!Max(S) OBVIOUS
<1>3. z \in S /\ \A y \in S : y <= z BY <1>1, <1>2, MaxOf
<1>4. z <= x /\ x <= z /\ z \in Nat BY <1>1, <1>3
<1> QED BY <1>1, <1>2, <1>4

\* The smallest of a finite set of numbers.
LEMMA MinOf ==
    ASSUME NEW S, S \subseteq Nat, S # {}
    PROVE  Core!Min(S) \in S /\ \A x \in S : Core!Min(S) <= x
<1>1. \E x \in S : \A y \in S : x <= y BY LeastNatural
<1> QED BY <1>1, Zenon DEF Core!Min

\* Some element has the smallest key.
LEMMA LeastKey ==
    ASSUME NEW S, S # {}, NEW k, \A i \in S : k[i] \in Nat
    PROVE  \E i \in S : \A j \in S : k[i] <= k[j]
<1> DEFINE T == {k[i] : i \in S}
<1>1. T \subseteq Nat /\ T # {} OBVIOUS
<1>2. PICK x \in T : \A y \in T : x <= y
  <2> HIDE DEF T
  <2> QED BY <1>1, LeastNatural
<1> QED BY <1>2

\* And some element has the largest one, when the keys have a bound.
LEMMA MostKey ==
    ASSUME NEW S, S # {}, NEW k, NEW b \in Nat, \A i \in S : k[i] \in Nat /\ k[i] <= b
    PROVE  \E i \in S : \A j \in S : k[j] <= k[i]
<1> DEFINE T == {k[i] : i \in S}
<1>1. T \subseteq Nat /\ T # {} /\ \A x \in T : x <= b OBVIOUS
<1>2. PICK x \in T : \A y \in T : y <= x
  <2> HIDE DEF T
  <2> QED BY <1>1, MaxOf
<1> QED BY <1>2

\* The conversations are counted with the same Cardinality.
LEMMA CoreCount == \A S : Core!Cardinality(S) = Cardinality(S)
BY Zenon DEF Core!Cardinality, Cardinality, Core!IsFiniteSet, IsFiniteSet

\* A set of conversations is finite.
LEMMA ConvSets ==
    ASSUME CoreTypes, NEW S, S \subseteq DOMAIN conv
    PROVE  IsFiniteSet(S) /\ Cardinality(S) \in Nat /\ Cardinality(S) <= Len(conv)
<1>0. conv \in Seq(ConvRow) BY DEF CoreTypes
<1>1. Len(conv) \in Nat /\ DOMAIN conv = 1 .. Len(conv) BY <1>0
<1>7. PICK n : n = Len(conv) OBVIOUS
<1>2. n = Len(conv) /\ n \in Nat /\ n \in Int /\ 1 \in Int BY <1>1, <1>7
<1>3. IsFiniteSet(1 .. n) /\ Cardinality(1 .. n) = IF 1 > n THEN 0 ELSE n - 1 + 1 BY <1>2, FS_Interval, Zenon
<1>4. IsFiniteSet(1 .. n) /\ Cardinality(1 .. n) = n BY <1>1, <1>2, <1>3
<1>5. S \in SUBSET (1 .. n) BY <1>1, <1>2
<1>6. IsFiniteSet(S) /\ Cardinality(S) <= Cardinality(1 .. n) BY <1>4, <1>5, FS_Subset
<1> QED BY <1>2, <1>4, <1>6, FS_CardinalityType


\* A row after an agent's request.
Changed(c, status, assignee, unread, last, times) ==
    [sender |-> conv[c].sender, thread |-> conv[c].thread, status |-> status, assignee |-> assignee, unread |-> unread,
     lastInbound |-> conv[c].lastInbound, last |-> last, times |-> times]

\* One field of a row is replaced.
LEMMA FieldSet ==
    ASSUME CoreTypes, NEW c \in DOMAIN conv, NEW v
    PROVE  /\ [conv[c] EXCEPT !.status = v] =
                Changed(c, v, conv[c].assignee, conv[c].unread, conv[c].last, conv[c].times)
           /\ [conv[c] EXCEPT !.assignee = v] =
                Changed(c, conv[c].status, v, conv[c].unread, conv[c].last, conv[c].times)
           /\ [conv[c] EXCEPT !.unread = v] =
                Changed(c, conv[c].status, conv[c].assignee, v, conv[c].last, conv[c].times)
<1>1. conv[c] \in ConvRow
  <2>1. conv \in Seq(ConvRow) BY DEF CoreTypes
  <2> QED BY <2>1
<1>2. PICK row : row = conv[c] /\ row \in ConvRow BY <1>1
<1>3. row = [sender |-> row.sender, thread |-> row.thread, status |-> row.status, assignee |-> row.assignee,
             unread |-> row.unread, lastInbound |-> row.lastInbound, last |-> row.last, times |-> row.times]
  BY <1>2 DEF ConvRow
<1>4. PICK a, b, s, d, e, f, g, h :
          /\ row.sender = a /\ row.thread = b /\ row.status = s /\ row.assignee = d /\ row.unread = e
          /\ row.lastInbound = f /\ row.last = g /\ row.times = h
  OBVIOUS
<1>5. row = [sender |-> a, thread |-> b, status |-> s, assignee |-> d, unread |-> e, lastInbound |-> f, last |-> g,
             times |-> h]
  BY <1>3, <1>4, Zenon
<1>6. PICK r1 : r1 = [row EXCEPT !.status = v] OBVIOUS
<1>7. PICK r2 : r2 = [row EXCEPT !.assignee = v] OBVIOUS
<1>8. PICK r3 : r3 = [row EXCEPT !.unread = v] OBVIOUS
<1>9. r1 = [sender |-> a, thread |-> b, status |-> v, assignee |-> d, unread |-> e, lastInbound |-> f, last |-> g,
            times |-> h]
  BY <1>5, <1>6
<1>10. r2 = [sender |-> a, thread |-> b, status |-> s, assignee |-> v, unread |-> e, lastInbound |-> f, last |-> g,
             times |-> h]
  BY <1>5, <1>7
<1>11. r3 = [sender |-> a, thread |-> b, status |-> s, assignee |-> d, unread |-> v, lastInbound |-> f, last |-> g,
             times |-> h]
  BY <1>5, <1>8
<1>13. [conv[c] EXCEPT !.status = v] = Changed(c, v, conv[c].assignee, conv[c].unread, conv[c].last, conv[c].times)
  BY <1>2, <1>4, <1>6, <1>9, Zenon DEF Changed
<1>14. [conv[c] EXCEPT !.assignee = v] = Changed(c, conv[c].status, v, conv[c].unread, conv[c].last, conv[c].times)
  BY <1>2, <1>4, <1>7, <1>10, Zenon DEF Changed
<1>15. [conv[c] EXCEPT !.unread = v] = Changed(c, conv[c].status, conv[c].assignee, v, conv[c].last, conv[c].times)
  BY <1>2, <1>4, <1>8, <1>11, Zenon DEF Changed
<1> QED BY <1>13, <1>14, <1>15, Zenon

\* And three of them by a reply.
Replied(row, v, w, x) == [row EXCEPT !.unread = v, !.last = w, !.times = x]

\* What sendMessage makes of a row.
LEMMA ReplySet ==
    ASSUME CoreTypes, NEW c \in DOMAIN conv, NEW v, NEW w, NEW x
    PROVE  Replied(conv[c], v, w, x) = Changed(c, conv[c].status, conv[c].assignee, v, w, x)
<1>1. PICK r3 : r3 = [conv[c] EXCEPT !.unread = v] OBVIOUS
<1>2. PICK b, s, d, e, f, g, h : 
          /\ conv[c].sender = b /\ conv[c].thread = e /\ conv[c].status = s /\ conv[c].assignee = d
          /\ conv[c].lastInbound = f /\ conv[c].last = g /\ conv[c].times = h
  OBVIOUS
<1>3. r3 = [sender |-> b, thread |-> e, status |-> s, assignee |-> d, unread |-> v, lastInbound |-> f, last |-> g,
            times |-> h]
  <2>1. r3 = Changed(c, s, d, v, g, h) BY <1>1, <1>2, FieldSet
  <2> QED BY <1>2, <2>1, Zenon DEF Changed
<1>4. PICK r4 : r4 = [r3 EXCEPT !.last = w] OBVIOUS
<1>5. PICK r5 : r5 = [r4 EXCEPT !.times = x] OBVIOUS
<1>6. r4 = [sender |-> b, thread |-> e, status |-> s, assignee |-> d, unread |-> v, lastInbound |-> f, last |-> w,
            times |-> h]
  BY <1>3, <1>4
<1>7. r5 = [sender |-> b, thread |-> e, status |-> s, assignee |-> d, unread |-> v, lastInbound |-> f, last |-> w,
            times |-> x]
  BY <1>5, <1>6
<1>8. r5 = [conv[c] EXCEPT !.unread = v, !.last = w, !.times = x] BY <1>1, <1>4, <1>5
<1> QED BY <1>2, <1>7, <1>8, Zenon DEF Changed, Replied

\* The time of a reply is later than any other.
LEMMA LaterThanAll ==
    ASSUME CoreTypes
    PROVE  LET now == 1 + Core!Max({0} \cup UNION {{t.time : t \in conv[c].times} : c \in DOMAIN conv})
           IN now \in Nat /\ \A c \in DOMAIN conv : \A t \in conv[c].times : t.time \in Nat /\ t.time <= now
<1> DEFINE S == {0} \cup UNION {{t.time : t \in conv[c].times} : c \in DOMAIN conv}
<1>1. PICK b \in Nat : \A c \in DOMAIN conv : \A t \in conv[c].times : t.time <= b BY DEF CoreTypes
<1>2. ASSUME NEW c \in DOMAIN conv, NEW t \in conv[c].times PROVE t.time \in Nat
  <2>1. conv \in Seq(ConvRow) BY DEF CoreTypes
  <2>2. conv[c] \in ConvRow BY <2>1
  <2> QED BY <2>2 DEF ConvRow
<1>3. S \subseteq Nat /\ S # {} /\ \A x \in S : x <= b BY <1>1, <1>2
<1>4. \A c \in DOMAIN conv : \A t \in conv[c].times : t.time \in S OBVIOUS
<1> HIDE DEF S
<1>5. Core!Max(S) \in S /\ \A x \in S : x <= Core!Max(S) BY <1>3, MaxOf
<1>6. Core!Max(S) \in Nat BY <1>3, <1>5
<1>7. ASSUME NEW c \in DOMAIN conv, NEW t \in conv[c].times PROVE t.time \in Nat /\ t.time <= 1 + Core!Max(S)
  <2>1. t.time <= Core!Max(S) BY <1>4, <1>5
  <2> QED BY <1>2, <1>6, <2>1
<1>8. 1 + Core!Max(S) \in Nat BY <1>6
<1> QED BY <1>7, <1>8 DEF S


\* What an agent's request does to the conversation it read.
Writes(c) ==
    \/ /\ \E s \in {"OPEN", "PENDING", "RESOLVED"} :
            /\ conv' = [conv EXCEPT ![c] = Changed(c, s, conv[c].assignee, conv[c].unread, conv[c].last, conv[c].times)]
            /\ resolves' = IF s = "RESOLVED" THEN [resolves EXCEPT ![conv[c].sender] = @ + 1] ELSE resolves
            /\ overlap' = (overlap \/ s # "RESOLVED")
    \/ /\ \E a \in Core!AgentSet \cup {""} :
            conv' = [conv EXCEPT ![c] = Changed(c, conv[c].status, a, conv[c].unread, conv[c].last, conv[c].times)]
       /\ overlap' = TRUE /\ resolves' = resolves
    \/ /\ conv' = [conv EXCEPT ![c] = Changed(c, conv[c].status, conv[c].assignee, 0, conv[c].last, conv[c].times)]
       /\ UNCHANGED <<resolves, overlap>>
    \/ UNCHANGED <<conv, resolves, overlap>>
    \/ /\ \E now \in Nat :
            /\ \A d \in DOMAIN conv : \A t \in conv[d].times : t.time <= now
            /\ conv' = [conv EXCEPT ![c] = Changed(c, conv[c].status, conv[c].assignee, 0, now,
                                                   conv[c].times \cup {[of |-> "", time |-> now]})]
       /\ UNCHANGED <<resolves, overlap>>

\* An agent reads a row, or writes one.
LEMMA UserStepIs ==
    ASSUME CoreTypes, NEW u \in User, Core!UserStep(u)
    PROVE  /\ UNCHANGED <<settings, at, snap, pick>>
           /\ \/ /\ \E op \in {"status", "assign", "read", "reply"}, c \in DOMAIN conv :
                        user' = [user EXCEPT ![u] = [op |-> op, c |-> c, row |-> conv[c]]]
                 /\ requests < MaxRequests /\ requests' = requests + 1
                 /\ UNCHANGED <<conv, resolves, raced, overlap>>
              \/ /\ user[u].c \in DOMAIN conv /\ user[u].op # "none" /\ user' = [user EXCEPT ![u] = Core!Idle]
                 /\ raced' = Core!Race(user[u].c, "") /\ requests' = requests
                 /\ Writes(user[u].c)
<1> DEFINE c == user[u].c
           Done == /\ user' = [user EXCEPT ![u] = Core!Idle] /\ raced' = Core!Race(user[u].c, "")
                   /\ UNCHANGED <<settings, at, snap, pick, requests>>
<1>1. ASSUME user[u].op # "none" PROVE c \in DOMAIN conv
  <2>1. conv \in Seq(ConvRow) /\ c \in 1 .. Len(conv) BY <1>1 DEF CoreTypes
  <2> QED BY <2>1
<1>2. CASE \E op \in {"status", "assign", "read", "reply"}, d \in Core!Conversations : Core!Request(u, op, d)
  BY <1>2 DEF Core!Request, Core!Conversations, Core!history
<1>3. CASE \E s \in {"OPEN", "PENDING", "RESOLVED"} : Core!SetStatus(u, s)
  <2>1. PICK s \in {"OPEN", "PENDING", "RESOLVED"} : Core!SetStatus(u, s) BY <1>3
  <2>2. user[u].op # "none" BY <2>1 DEF Core!SetStatus
  <2>3. c \in DOMAIN conv BY <1>1, <2>2
  <2>4. Done BY <2>1, Zenon DEF Core!SetStatus, Core!Written
  <2>5. conv' = [conv EXCEPT ![c] = [conv[c] EXCEPT !.status = s]] BY <2>1, <2>3 DEF Core!SetStatus
  <2>6. conv' = [conv EXCEPT ![c] = Changed(c, s, conv[c].assignee, conv[c].unread, conv[c].last, conv[c].times)]
    BY <2>3, <2>5, FieldSet
  <2>7. /\ resolves' = IF s = "RESOLVED" THEN [resolves EXCEPT ![conv[c].sender] = @ + 1] ELSE resolves
        /\ overlap' = (overlap \/ s # "RESOLVED")
    BY <2>1, Zenon DEF Core!SetStatus
  <2>8. Writes(c)
    <3> HIDE DEF c
    <3> QED BY <2>6, <2>7, Zenon DEF Writes
  <2> QED BY <2>2, <2>3, <2>4, <2>8
<1>4. CASE \E a \in Core!AgentSet \cup {""} : Core!Assign(u, a)
  <2>1. PICK a \in Core!AgentSet \cup {""} : Core!Assign(u, a) BY <1>4
  <2>2. user[u].op # "none" BY <2>1 DEF Core!Assign
  <2>3. c \in DOMAIN conv BY <1>1, <2>2
  <2>4. Done /\ overlap' = TRUE /\ resolves' = resolves BY <2>1, Zenon DEF Core!Assign, Core!Written
  <2>5. conv' = [conv EXCEPT ![c] = [conv[c] EXCEPT !.assignee = a]] BY <2>1, <2>3 DEF Core!Assign
  <2>6. conv' = [conv EXCEPT ![c] = Changed(c, conv[c].status, a, conv[c].unread, conv[c].last, conv[c].times)]
    BY <2>3, <2>5, FieldSet
  <2>8. Writes(c)
    <3> HIDE DEF c
    <3> QED BY <2>4, <2>6, Zenon DEF Writes
  <2> QED BY <2>2, <2>3, <2>4, <2>8
<1>5. CASE Core!MarkRead(u)
  <2>2. user[u].op # "none" BY <1>5 DEF Core!MarkRead
  <2>3. c \in DOMAIN conv BY <1>1, <2>2
  <2>4. Done /\ UNCHANGED <<resolves, overlap>> BY <1>5, Zenon DEF Core!MarkRead, Core!Written
  <2>5. conv' = conv \/ conv' = [conv EXCEPT ![c] = [conv[c] EXCEPT !.unread = 0]] BY <1>5, <2>3 DEF Core!MarkRead
  <2>6. conv' = conv \/
        conv' = [conv EXCEPT ![c] = Changed(c, conv[c].status, conv[c].assignee, 0, conv[c].last, conv[c].times)]
    BY <2>3, <2>5, FieldSet
  <2>8. Writes(c)
    <3> HIDE DEF c
    <3> QED BY <2>4, <2>6, Zenon DEF Writes
  <2> QED BY <2>2, <2>3, <2>4, <2>8
<1>6. CASE Core!sendMessage(u)
  <2>2. user[u].op # "none" BY <1>6 DEF Core!sendMessage
  <2>3. c \in DOMAIN conv BY <1>1, <2>2
  <2>4. Done /\ UNCHANGED <<resolves, overlap>> BY <1>6, Zenon DEF Core!sendMessage, Core!Written
  <2>5. PICK now : now = 1 + Core!Max({0} \cup UNION {{t.time : t \in conv[d].times} : d \in DOMAIN conv}) OBVIOUS
  <2>6. now \in Nat /\ \A d \in DOMAIN conv : \A t \in conv[d].times : t.time <= now BY <2>5, LaterThanAll
  <2>7. conv' = [conv EXCEPT ![c] = Replied(conv[c], 0, now, conv[c].times \cup {[of |-> "", time |-> now]})]
    BY <1>6, <2>5, Zenon DEF Replied, Core!sendMessage, Core!Conversations
  <2>8. conv' = [conv EXCEPT ![c] = Changed(c, conv[c].status, conv[c].assignee, 0, now,
                                            conv[c].times \cup {[of |-> "", time |-> now]})]
    <3>1. PICK ts : ts = conv[c].times \cup {[of |-> "", time |-> now]} OBVIOUS
    <3>2. Replied(conv[c], 0, now, ts) =
            Changed(c, conv[c].status, conv[c].assignee, 0, now, ts)
      <4> HIDE DEF c
      <4> QED BY <2>3, ReplySet, Zenon
    <3> QED BY <2>7, <3>1, <3>2
  <2>9. Writes(c)
    <3> HIDE DEF c
    <3> QED BY <2>4, <2>6, <2>8, Zenon DEF Writes
  <2> QED BY <2>2, <2>3, <2>4, <2>9
<1> QED BY <1>2, <1>3, <1>4, <1>5, <1>6 DEF Core!UserStep


\* What the fields of a row may be.
LEMMA RowsOf ==
    ASSUME CoreTypes
    PROVE  /\ conv \in Seq(ConvRow) /\ Len(conv) \in Nat /\ DOMAIN conv = 1 .. Len(conv)
           /\ \A c \in DOMAIN conv :
                 /\ conv[c] \in ConvRow
                 /\ conv[c].sender \in Core!Sender /\ conv[c].status \in {"OPEN", "PENDING", "RESOLVED"}
                 /\ conv[c].assignee \in Core!AgentSet \cup {""} /\ conv[c].unread \in Nat
                 /\ conv[c].lastInbound \in Nat /\ conv[c].last \in Nat
                 /\ \A t \in conv[c].times : t.time \in Nat /\ t.of \in Ids \cup {""}
<1>1. conv \in Seq(ConvRow) BY DEF CoreTypes
<1>2. Len(conv) \in Nat /\ DOMAIN conv = 1 .. Len(conv) BY <1>1
<1>3. \A c \in DOMAIN conv : conv[c] \in ConvRow BY <1>1
<1> QED BY <1>1, <1>2, <1>3 DEF ConvRow

\* A message joins a conversation that exists, and a chat starts a new one only when all others of
\* its sender are resolved.
LEMMA ResolveIs ==
    ASSUME CoreTypes, NEW m \in Ids
    PROVE  /\ Core!Resolve(m) \in 0 .. Len(conv)
           /\ Core!Resolve(m) = 0 /\ Messages[m].thread = "" =>
                 \A c \in DOMAIN conv : conv[c].sender = Messages[m].sender => conv[c].status = "RESOLVED"
<1> DEFINE S == Core!Candidates(m)
<1>1. /\ Len(conv) \in Nat /\ DOMAIN conv = 1 .. Len(conv)
      /\ \A c \in DOMAIN conv : conv[c].last \in Nat /\ conv[c].status \in {"OPEN", "PENDING", "RESOLVED"}
  BY RowsOf
<1>2. S \subseteq DOMAIN conv BY DEF Core!Candidates, Core!Conversations, Core!Holding
<1>3. ASSUME Messages[m].thread = "", NEW c \in DOMAIN conv, conv[c].sender = Messages[m].sender, conv[c].status # "RESOLVED"
      PROVE  S # {}
  <2> DEFINE chats == {d \in DOMAIN conv : conv[d].sender = Messages[m].sender /\ Core!Open(d)}
             k == [d \in chats |-> conv[d].last]
  <2>1. c \in chats BY <1>1, <1>3 DEF Core!Open
  <2>2. PICK d \in chats : \A e \in chats : conv[e].last <= conv[d].last
    <3>1. PICK b \in Nat : \A d \in DOMAIN conv : conv[d].last <= b BY DEF CoreTypes
    <3>2. chats # {} /\ \A d \in chats : k[d] \in Nat /\ k[d] <= b BY <1>1, <2>1, <3>1
    <3>3. \E d \in chats : \A e \in chats : k[e] <= k[d]
      <4> HIDE DEF k, chats
      <4> QED BY <3>2, MostKey
    <3> QED BY <3>3
  <2> QED BY <1>3, <2>2 DEF Core!Candidates, Core!Conversations
<1> HIDE DEF S
<1>4. ASSUME S # {} PROVE Core!Max(S) \in S
  <2>1. S \subseteq Nat /\ \A x \in S : x <= Len(conv) BY <1>1, <1>2
  <2> QED BY <1>1, <1>4, <2>1, MaxOf
<1>5. S = {} => Core!Resolve(m) = 0 BY DEF S, Core!Resolve
<1>6. S # {} => Core!Resolve(m) \in S BY <1>4 DEF S, Core!Resolve
<1>7. Core!Resolve(m) \in 0 .. Len(conv) BY <1>1, <1>2, <1>5, <1>6
<1>8. Core!Resolve(m) = 0 => S = {} BY <1>1, <1>2, <1>6
<1> QED BY <1>3, <1>7, <1>8


\* An agent has so many open conversations.
LEMMA LoadIs == ASSUME CoreTypes, NEW a PROVE Core!Load(a) \in Nat /\ Core!Load(a) <= Len(conv)
<1> DEFINE S == {c \in DOMAIN conv : conv[c].assignee = a /\ Core!Open(c)}
<1>1. Cardinality(S) \in Nat /\ Cardinality(S) <= Len(conv) BY ConvSets
<1> QED BY <1>1, CoreCount DEF Core!Load, Core!Conversations

\* The conversation that an agent was given last.
LEMMA LastAssignedIs ==
    ASSUME CoreTypes, NEW a
    PROVE  /\ Core!LastAssigned(a) \in 0 .. Len(conv)
           /\ \A c \in DOMAIN conv : conv[c].assignee = a => c <= Core!LastAssigned(a)
           /\ Core!LastAssigned(a) # 0 => conv[Core!LastAssigned(a)].assignee = a
<1> DEFINE S == {0} \cup {c \in DOMAIN conv : conv[c].assignee = a}
<1>1. Len(conv) \in Nat /\ DOMAIN conv = 1 .. Len(conv) BY RowsOf
<1>2. S \subseteq Nat /\ S # {} /\ \A x \in S : x <= Len(conv) BY <1>1
<1>3. Core!Max(S) \in S /\ \A x \in S : x <= Core!Max(S)
  <2> HIDE DEF S
  <2> QED BY <1>1, <1>2, MaxOf
<1>4. Core!LastAssigned(a) = Core!Max(S) BY DEF Core!LastAssigned, Core!Conversations
<1>5. PICK x : x = Core!Max(S) OBVIOUS
<1>6. x \in S /\ \A y \in S : y <= x BY <1>3, <1>5
<1>7. Core!LastAssigned(a) = x BY <1>4, <1>5
<1> QED BY <1>1, <1>6, <1>7

\* Of the agents who may take more, the one with the smallest key.
LEMMA LeastAgent ==
    ASSUME NEW A, A \subseteq DOMAIN Members, A # {}, NEW k, \A i \in A : k[i] \in Nat
    PROVE  LET n == Core!Min({i \in A : \A j \in A : k[i] <= k[j]})
           IN n \in A /\ \A j \in A : k[n] <= k[j]
<1> DEFINE L == {i \in A : \A j \in A : k[i] <= k[j]}
<1>1. \E i \in A : \A j \in A : k[i] <= k[j] BY LeastKey
<1>2. L # {} BY <1>1
<1>3. L \subseteq Nat
  <2>1. PICK n : n = Len(Members) /\ n \in Nat /\ DOMAIN Members = 1 .. n BY ConversationsAssumption, Zenon
  <2>2. \A i \in A : i \in Nat BY <2>1
  <2> QED BY <2>2
<1>4. Core!Min(L) \in L
  <2> HIDE DEF L
  <2> QED BY <1>2, <1>3, MinOf
<1>5. PICK n : n = Core!Min(L) OBVIOUS
<1>6. n \in A /\ \A j \in A : k[n] <= k[j] BY <1>4, <1>5
<1> QED BY <1>5, <1>6

\* Who is chosen may take more; round robin takes the one who has waited the longest.
LEMMA ChoiceIs ==
    ASSUME CoreTypes, NEW s
    PROVE  /\ \/ Core!chooseAssignee(s) = ""
              \/ \E i \in Core!Available : Core!chooseAssignee(s) = Members[i]
           /\ settings.method = "ROUND_ROBIN" /\ ~settings.preferred /\ Core!Available # {} =>
                 \E i \in Core!Available :
                    /\ Core!chooseAssignee(s) = Members[i]
                    /\ \A j \in Core!Available : Core!LastAssigned(Members[i]) <= Core!LastAssigned(Members[j])
<1> DEFINE A == Core!Available
<1>0. A \subseteq DOMAIN Members BY DEF Core!Available
<1>1. CASE A = {} BY <1>1, Zenon DEF Core!chooseAssignee, Core!Nobody
<1>2. CASE A # {}
  <2>1. \E i \in A : /\ Core!Least(Core!Load) = Members[i]
    <3> DEFINE k == [i \in A |-> Core!Load(Members[i])]
    <3>1. \A i \in A : k[i] \in Nat BY LoadIs
    <3>2. Core!Least(Core!Load) = Members[Core!Min({i \in A : \A j \in A : k[i] <= k[j]})] BY DEF Core!Least
    <3> HIDE DEF k, A
    <3> QED BY <1>0, <1>2, <3>1, <3>2, LeastAgent
  <2>2. \E i \in A : /\ Core!Least(Core!LastAssigned) = Members[i]
                     /\ \A j \in A : Core!LastAssigned(Members[i]) <= Core!LastAssigned(Members[j])
    <3> DEFINE k == [i \in A |-> Core!LastAssigned(Members[i])]
    <3>0. Len(conv) \in Nat BY RowsOf
    <3>1. \A i \in A : k[i] \in Nat BY <3>0, LastAssignedIs
    <3>2. Core!Least(Core!LastAssigned) = Members[Core!Min({i \in A : \A j \in A : k[i] <= k[j]})] BY DEF Core!Least
    <3>3. PICK n \in A : Core!Least(Core!LastAssigned) = Members[n] /\ \A j \in A : k[n] <= k[j]
      <4> HIDE DEF k, A
      <4> QED BY <1>0, <1>2, <3>1, <3>2, LeastAgent
    <3> QED BY <3>3
  <2>3. ASSUME Core!Previous(s) # {} PROVE \E i \in A : conv[Core!Max(Core!Previous(s))].assignee = Members[i]
    <3> DEFINE P == Core!Previous(s)
    <3>1. Len(conv) \in Nat /\ DOMAIN conv = 1 .. Len(conv) BY RowsOf
    <3>2. P \subseteq DOMAIN conv /\ \A c \in P : \E i \in A : conv[c].assignee = Members[i]
      BY DEF Core!Previous, Core!Conversations
    <3>3. Core!Max(P) \in P
      <4>1. P \subseteq Nat /\ \A x \in P : x <= Len(conv) BY <3>1, <3>2
      <4> HIDE DEF P
      <4> QED BY <2>3, <3>1, <4>1, MaxOf DEF P
    <3> HIDE DEF A, P
    <3> QED BY <3>2, <3>3 DEF P
  <2> HIDE DEF A
  <2>4. Core!chooseAssignee(s) = "" \/ \E i \in A : Core!chooseAssignee(s) = Members[i]
    <3>1. \/ Core!chooseAssignee(s) = "" \/ Core!chooseAssignee(s) = Core!Least(Core!Load)
          \/ Core!chooseAssignee(s) = Core!Least(Core!LastAssigned)
          \/ Core!Previous(s) # {} /\ Core!chooseAssignee(s) = conv[Core!Max(Core!Previous(s))].assignee
      BY Zenon DEF Core!chooseAssignee, Core!Nobody
    <3> QED BY <2>1, <2>2, <2>3, <3>1
  <2>5. ASSUME settings.method = "ROUND_ROBIN", ~settings.preferred
        PROVE  Core!chooseAssignee(s) = Core!Least(Core!LastAssigned)
    <3>1. settings.method # "MANUAL" /\ settings.method # "LEAST_ASSIGNED" BY <2>5
    <3> QED BY <1>2, <2>5, <3>1, Zenon DEF Core!chooseAssignee, A
  <2> QED BY <2>2, <2>4, <2>5 DEF A
<1> QED BY <1>1, <1>2


\* The conversations after a step: one more, or one that is written.
LEMMA AppendedTo ==
    ASSUME CoreTypes, NEW row \in ConvRow, conv' = Append(conv, row)
    PROVE  /\ conv' \in Seq(ConvRow) /\ Len(conv') = Len(conv) + 1 /\ DOMAIN conv' = DOMAIN conv \cup {Len(conv) + 1}
           /\ Len(conv) + 1 \notin DOMAIN conv /\ conv'[Len(conv) + 1] = row /\ \A c \in DOMAIN conv : conv'[c] = conv[c]
<1>1. conv \in Seq(ConvRow) /\ Len(conv) \in Nat /\ DOMAIN conv = 1 .. Len(conv) BY RowsOf
<1> QED BY <1>1

\* A row is put into its place.
LEMMA PutInto ==
    ASSUME CoreTypes, NEW d \in DOMAIN conv, NEW row \in ConvRow, conv' = [conv EXCEPT ![d] = row]
    PROVE  /\ conv' \in Seq(ConvRow) /\ Len(conv') = Len(conv) /\ DOMAIN conv' = DOMAIN conv
           /\ conv'[d] = row /\ \A c \in DOMAIN conv : c # d => conv'[c] = conv[c]
<1>1. conv \in Seq(ConvRow) BY RowsOf
<1> QED BY <1>1

\* What an ingest writes is a row.
LEMMA RowsWritten ==
    ASSUME CoreTypes, NEW m \in Ids
    PROVE  /\ FirstRow(m) \in ConvRow
           /\ snap[m].c \in DOMAIN conv => NextRow(m) \in ConvRow
<1>1. /\ Messages[m].time \in Nat /\ pick[m] \in Core!AgentSet \cup {""} /\ Messages[m].sender \in Core!Sender
      /\ {[of |-> m, time |-> Messages[m].time]} \in SUBSET [of : Ids \cup {""}, time : Nat]
  <2>1. PICK t \in Nat : t = Messages[m].time BY ConversationsAssumption DEF Ids
  <2>2. [of |-> m, time |-> t] \in [of : Ids \cup {""}, time : Nat] OBVIOUS
  <2>3. pick[m] \in Core!AgentSet \cup {""} /\ Messages[m].sender \in Core!Sender BY DEF CoreTypes, Ids, Core!Sender
  <2> QED BY <2>1, <2>2, <2>3
<1>2. FirstRow(m) \in ConvRow BY <1>1 DEF FirstRow, ConvRow
<1>3. ASSUME snap[m].c \in DOMAIN conv PROVE NextRow(m) \in ConvRow
  <2>1. PICK row \in ConvRow : row = conv[snap[m].c] BY <1>3, RowsOf
  <2>5. row.unread \in Nat BY <2>1 DEF ConvRow
  <2>6. PICK k \in Nat : k = row.unread BY <2>5
  <2>9. k + 1 \in Nat OBVIOUS
  <2>2. PICK st \in {"OPEN", "PENDING", "RESOLVED"}, li \in Nat, la \in Nat :
            /\ st = (IF snap[m].row.status # "OPEN" THEN "OPEN" ELSE row.status)
            /\ li = (IF snap[m].row.lastInbound <= Messages[m].time THEN Messages[m].time ELSE row.lastInbound)
            /\ la = (IF snap[m].row.last <= Messages[m].time THEN Messages[m].time ELSE row.last)
    BY <1>1, <2>1 DEF ConvRow
  <2>3. NextRow(m) = [sender |-> row.sender, thread |-> row.thread, status |-> st, assignee |-> row.assignee,
                      unread |-> row.unread + 1, lastInbound |-> li, last |-> la,
                      times |-> row.times \cup {[of |-> m, time |-> Messages[m].time]}]
    BY <2>1, <2>2, Zenon DEF NextRow
  <2>4. PICK T \in SUBSET [of : Ids \cup {""}, time : Nat] : T = row.times \cup {[of |-> m, time |-> Messages[m].time]}
    BY <1>1, <2>1 DEF ConvRow
  <2>7. PICK x \in Core!Sender, y \in {Messages[j].thread : j \in Ids}, z \in Core!AgentSet \cup {""} :
            x = row.sender /\ y = row.thread /\ z = row.assignee
    BY <2>1 DEF ConvRow
  <2>8. NextRow(m) = [sender |-> x, thread |-> y, status |-> st, assignee |-> z,
                      unread |-> k + 1, lastInbound |-> li, last |-> la, times |-> T]
    BY <2>3, <2>4, <2>6, <2>7, Zenon
  <2>10. [sender |-> x, thread |-> y, status |-> st, assignee |-> z,
          unread |-> k + 1, lastInbound |-> li, last |-> la, times |-> T] \in ConvRow
    BY <2>9, Zenon DEF ConvRow
  <2> QED BY <2>8, <2>10, Zenon
<1> QED BY <1>2, <1>3

\* What an agent makes of a row is a row.
LEMMA RowsChanged ==
    ASSUME CoreTypes, NEW c \in DOMAIN conv, NEW s \in {"OPEN", "PENDING", "RESOLVED"},
           NEW a \in Core!AgentSet \cup {""}, NEW n \in Nat, NEW l \in Nat,
           NEW T \in SUBSET [of : Ids \cup {""}, time : Nat]
    PROVE  Changed(c, s, a, n, l, T) \in ConvRow
<1>1. conv[c] \in ConvRow BY RowsOf
<1> QED BY <1>1 DEF Changed, ConvRow

\* Writes of an agent keep what belongs to a sender.
LEMMA WritesAre ==
    ASSUME CoreTypes, NEW c \in DOMAIN conv, Writes(c)
    PROVE  /\ \E row \in ConvRow : conv' = [conv EXCEPT ![c] = row]
           /\ \E b \in Nat : \A d \in DOMAIN conv' : conv'[d].last <= b /\ \A t \in conv'[d].times : t.time <= b
           /\ resolves' \in [Core!Sender -> Nat] /\ overlap' \in BOOLEAN
<1>1. PICK b \in Nat : \A d \in DOMAIN conv : conv[d].last <= b /\ \A t \in conv[d].times : t.time <= b BY DEF CoreTypes
<1>2. PICK row \in ConvRow : conv[c] = row BY RowsOf
<1>3. /\ row.status \in {"OPEN", "PENDING", "RESOLVED"} /\ row.assignee \in Core!AgentSet \cup {""} /\ row.unread \in Nat
      /\ row.last \in Nat /\ row.times \in SUBSET [of : Ids \cup {""}, time : Nat] /\ row.sender \in Core!Sender
  BY <1>2 DEF ConvRow
<1>4. CASE \E s \in {"OPEN", "PENDING", "RESOLVED"} :
            /\ conv' = [conv EXCEPT ![c] = Changed(c, s, conv[c].assignee, conv[c].unread, conv[c].last, conv[c].times)]
            /\ resolves' = IF s = "RESOLVED" THEN [resolves EXCEPT ![conv[c].sender] = @ + 1] ELSE resolves
            /\ overlap' = (overlap \/ s # "RESOLVED")
  <2>1. PICK s \in {"OPEN", "PENDING", "RESOLVED"} :
            /\ conv' = [conv EXCEPT ![c] = Changed(c, s, row.assignee, row.unread, row.last, row.times)]
            /\ resolves' = IF s = "RESOLVED" THEN [resolves EXCEPT ![row.sender] = @ + 1] ELSE resolves
            /\ overlap' = (overlap \/ s # "RESOLVED")
    BY <1>2, <1>4
  <2>2. PICK new : new = Changed(c, s, row.assignee, row.unread, row.last, row.times) OBVIOUS
  <2>3. new \in ConvRow BY <1>3, <2>2, RowsChanged
  <2>4. new.last = row.last /\ new.times = row.times BY <2>2 DEF Changed
  <2>5. resolves \in [Core!Sender -> Nat] BY DEF CoreTypes
  <2>6. resolves' \in [Core!Sender -> Nat]
    <3>1. PICK x \in Core!Sender : x = row.sender BY <1>3
    <3>2. [resolves EXCEPT ![x] = @ + 1] \in [Core!Sender -> Nat] BY <2>5, <3>1
    <3> QED BY <2>1, <2>5, <3>1, <3>2
  <2>7. overlap' \in BOOLEAN BY <2>1, Zenon
  <2>8. \A d \in DOMAIN conv' : conv'[d].last <= b /\ \A t \in conv'[d].times : t.time <= b
    BY <1>1, <1>2, <2>1, <2>2, <2>3, <2>4, PutInto
  <2> QED BY <2>1, <2>2, <2>3, <2>6, <2>7, <2>8
<1>5. CASE /\ \E a \in Core!AgentSet \cup {""} :
                conv' = [conv EXCEPT ![c] = Changed(c, conv[c].status, a, conv[c].unread, conv[c].last, conv[c].times)]
           /\ overlap' = TRUE /\ resolves' = resolves
  <2>1. PICK a \in Core!AgentSet \cup {""} :
            conv' = [conv EXCEPT ![c] = Changed(c, row.status, a, row.unread, row.last, row.times)]
    BY <1>2, <1>5
  <2>2. PICK new : new = Changed(c, row.status, a, row.unread, row.last, row.times) OBVIOUS
  <2>3. new \in ConvRow BY <1>3, <2>2, RowsChanged
  <2>4. new.last = row.last /\ new.times = row.times BY <2>2 DEF Changed
  <2>6. resolves' \in [Core!Sender -> Nat] BY <1>5 DEF CoreTypes
  <2>7. overlap' \in BOOLEAN BY <1>5, Zenon
  <2>8. \A d \in DOMAIN conv' : conv'[d].last <= b /\ \A t \in conv'[d].times : t.time <= b
    BY <1>1, <1>2, <2>1, <2>2, <2>3, <2>4, PutInto
  <2> QED BY <2>1, <2>2, <2>3, <2>6, <2>7, <2>8
<1>6. CASE /\ conv' = [conv EXCEPT ![c] = Changed(c, conv[c].status, conv[c].assignee, 0, conv[c].last, conv[c].times)]
           /\ UNCHANGED <<resolves, overlap>>
  <2>2. PICK new : new = Changed(c, row.status, row.assignee, 0, row.last, row.times) OBVIOUS
  <2>3. new \in ConvRow BY <1>3, <2>2, RowsChanged
  <2>4. new.last = row.last /\ new.times = row.times BY <2>2 DEF Changed
  <2>5. conv' = [conv EXCEPT ![c] = new] BY <1>2, <1>6, <2>2
  <2>6. resolves' \in [Core!Sender -> Nat] BY <1>6 DEF CoreTypes
  <2>7. overlap' \in BOOLEAN BY <1>6, Zenon DEF CoreTypes
  <2>8. \A d \in DOMAIN conv' : conv'[d].last <= b /\ \A t \in conv'[d].times : t.time <= b
    BY <1>1, <1>2, <2>3, <2>4, <2>5, PutInto
  <2> QED BY <2>3, <2>5, <2>6, <2>7, <2>8
<1>7. CASE UNCHANGED <<conv, resolves, overlap>>
  <2>1. conv' = [conv EXCEPT ![c] = row]
    <3>1. conv \in Seq(ConvRow) BY RowsOf
    <3> QED BY <1>2, <1>7, <3>1
  <2>2. resolves' \in [Core!Sender -> Nat] BY <1>7 DEF CoreTypes
  <2>3. overlap' \in BOOLEAN BY <1>7, Zenon DEF CoreTypes
  <2>4. \A d \in DOMAIN conv' : conv'[d].last <= b /\ \A t \in conv'[d].times : t.time <= b BY <1>1, <1>7
  <2> QED BY <2>1, <2>2, <2>3, <2>4
<1>8. CASE /\ \E now \in Nat :
                /\ \A d \in DOMAIN conv : \A t \in conv[d].times : t.time <= now
                /\ conv' = [conv EXCEPT ![c] = Changed(c, conv[c].status, conv[c].assignee, 0, now,
                                                       conv[c].times \cup {[of |-> "", time |-> now]})]
           /\ UNCHANGED <<resolves, overlap>>
  <2>1. PICK now \in Nat : conv' = [conv EXCEPT ![c] = Changed(c, row.status, row.assignee, 0, now,
                                                               row.times \cup {[of |-> "", time |-> now]})]
    BY <1>2, <1>8
  <2>2. PICK new : new = Changed(c, row.status, row.assignee, 0, now, row.times \cup {[of |-> "", time |-> now]}) OBVIOUS
  <2>3. new \in ConvRow
    <3>0. [of |-> "", time |-> now] \in [of : Ids \cup {""}, time : Nat] OBVIOUS
    <3>1. row.times \cup {[of |-> "", time |-> now]} \in SUBSET [of : Ids \cup {""}, time : Nat] BY <1>3, <3>0
    <3> QED BY <1>3, <2>2, <3>1, RowsChanged
  <2>4. new.last = now /\ new.times = row.times \cup {[of |-> "", time |-> now]} BY <2>2 DEF Changed
  <2>5. conv' = [conv EXCEPT ![c] = new] BY <2>1, <2>2
  <2>6. resolves' \in [Core!Sender -> Nat] BY <1>8 DEF CoreTypes
  <2>7. overlap' \in BOOLEAN BY <1>8, Zenon DEF CoreTypes
  <2>8. PICK e \in Nat : b <= e /\ now <= e
    <3>1. b <= b + now /\ now <= b + now /\ b + now \in Nat OBVIOUS
    <3> QED BY <3>1
  <2>9. ASSUME NEW d \in DOMAIN conv' PROVE conv'[d].last <= e /\ \A t \in conv'[d].times : t.time <= e
    <3>0. d \in DOMAIN conv /\ conv'[c] = new /\ (d # c => conv'[d] = conv[d]) BY <2>3, <2>5, PutInto
    <3>1. CASE d = c
      <4>1. \A t \in row.times : t.time \in Nat /\ t.time <= b BY <1>1, <1>2, <1>3
      <4>2. PICK x : x = [of |-> "", time |-> now] OBVIOUS
      <4>3. x.time = now BY <4>2
      <4>4. \A t \in new.times : t \in row.times \/ t = x BY <2>4, <4>2
      <4>5. ASSUME NEW t \in new.times PROVE t.time <= e
        <5>1. CASE t = x BY <2>8, <4>3, <5>1
        <5>2. CASE t \in row.times
          <6>1. t.time \in Nat /\ t.time <= b BY <4>1, <5>2
          <6> QED BY <2>8, <6>1
        <5> QED BY <4>4, <5>1, <5>2
      <4> QED BY <2>4, <2>8, <3>0, <3>1, <4>5
    <3>2. CASE d # c
      <4>1. conv[d].last \in Nat /\ conv[d].last <= b /\ \A t \in conv[d].times : t.time \in Nat /\ t.time <= b
        BY <1>1, <3>0, RowsOf
      <4> QED BY <2>8, <3>0, <3>2, <4>1
    <3> QED BY <3>1, <3>2
  <2> QED BY <2>3, <2>5, <2>6, <2>7, <2>9
<1> QED BY <1>4, <1>5, <1>6, <1>7, <1>8 DEF Writes


\* Rows that are read, and choices, stay in their conversations' order.
KeptTypes ==
    /\ settings' = settings /\ conv' \in Seq(ConvRow) /\ Len(conv') >= Len(conv) /\ requests' \in 0 .. MaxRequests
    /\ resolves' \in [Core!Sender -> Nat] /\ overlap' \in BOOLEAN
    /\ at' \in [Ids -> {"new", "locked", "chosen", "done"}] /\ pick' \in [Ids -> Core!AgentSet \cup {""}]
    /\ snap' = snap \/ \E m \in Ids : \E x : snap' = [snap EXCEPT ![m] = x] /\ x.c \in 0 .. Len(conv)
    /\ user' = user \/ \E u \in User : \E x : user' = [user EXCEPT ![u] = x] /\ (x.op # "none" => x.c \in 1 .. Len(conv))
    /\ \E b \in Nat : \A c \in DOMAIN conv' : conv'[c].last <= b /\ \A t \in conv'[c].times : t.time <= b

\* What keeps the rows keeps the types.
LEMMA TypesKept == ASSUME CoreTypes, KeptTypes PROVE CoreTypes'
<1>0. /\ conv' \in Seq(ConvRow) /\ Len(conv') >= Len(conv)
      /\ snap' = snap \/ \E m \in Ids : \E x : snap' = [snap EXCEPT ![m] = x] /\ x.c \in 0 .. Len(conv)
      /\ user' = user \/ \E u \in User : \E x : user' = [user EXCEPT ![u] = x] /\ (x.op # "none" => x.c \in 1 .. Len(conv))
  BY Zenon DEF KeptTypes
<1>1. PICK n \in Nat, k \in Nat : n = Len(conv) /\ k = Len(conv') /\ n <= k
  <2>1. PICK n \in Nat : n = Len(conv) BY RowsOf
  <2>2. PICK k \in Nat : k = Len(conv') BY <1>0
  <2> QED BY <1>0, <2>1, <2>2
<1>2. snap' = [m \in Ids |-> snap'[m]] /\ \A m \in Ids : snap'[m].c \in 0 .. n
  <2>1. snap = [m \in Ids |-> snap[m]] /\ \A m \in Ids : snap[m].c \in 0 .. n BY <1>1 DEF CoreTypes
  <2>2. CASE snap' = snap BY <2>1, <2>2
  <2>3. ASSUME NEW m \in Ids, NEW x, snap' = [snap EXCEPT ![m] = x], x.c \in 0 .. n
        PROVE  snap' = [j \in Ids |-> snap'[j]] /\ \A j \in Ids : snap'[j].c \in 0 .. n
    BY <2>1, <2>3
  <2> QED BY <1>0, <1>1, <2>2, <2>3
<1>3. user' = [u \in User |-> user'[u]] /\ \A u \in User : user'[u].op # "none" => user'[u].c \in 1 .. n
  <2>1. user = [u \in User |-> user[u]] /\ \A u \in User : user[u].op # "none" => user[u].c \in 1 .. n
    BY <1>1 DEF CoreTypes
  <2>2. CASE user' = user BY <2>1, <2>2
  <2>3. ASSUME NEW u \in User, NEW x, user' = [user EXCEPT ![u] = x], x.op # "none" => x.c \in 1 .. n
        PROVE  user' = [j \in User |-> user'[j]] /\ \A j \in User : user'[j].op # "none" => user'[j].c \in 1 .. n
    BY <2>1, <2>3
  <2> QED BY <1>0, <1>1, <2>2, <2>3, Zenon
<1>4. /\ \A m \in Ids : snap'[m].c \in 0 .. Len(conv')
      /\ \A u \in User : user'[u].op # "none" => user'[u].c \in 1 .. Len(conv')
  <2>2. (\A x \in 0 .. n : x \in 0 .. k) /\ (\A x \in 1 .. n : x \in 1 .. k) BY <1>1
  <2> QED BY <1>1, <1>2, <1>3, <2>2, Zenon
<1>5. settings' \in InboxSettings BY Zenon DEF CoreTypes, KeptTypes
<1> QED BY <1>2, <1>3, <1>4, <1>5, Zenon DEF CoreTypes, KeptTypes, ConvRow, Ids, Core!Sender, Core!AgentSet

\* Every step keeps the types.
LEMMA TypesStep == ASSUME CoreTypes, Core!Next PROVE CoreTypes'
<1>0. /\ conv \in Seq(ConvRow) /\ Len(conv) \in Nat /\ Len(conv) >= Len(conv) /\ requests \in 0 .. MaxRequests
      /\ resolves \in [Core!Sender -> Nat]
      /\ at \in [Ids -> {"new", "locked", "chosen", "done"}] /\ pick \in [Ids -> Core!AgentSet \cup {""}]
      /\ \E b \in Nat : \A c \in DOMAIN conv : conv[c].last <= b /\ \A t \in conv[c].times : t.time <= b
  <2>1. conv \in Seq(ConvRow) /\ Len(conv) \in Nat BY RowsOf
  <2>2. Len(conv) >= Len(conv) BY <2>1
  <2> QED BY <2>1, <2>2 DEF CoreTypes
<1>00. overlap \in BOOLEAN BY Zenon DEF CoreTypes
<1>1. ASSUME NEW m \in Ids, Core!Lookup(m) PROVE CoreTypes'
  <2>1. UNCHANGED <<settings, conv, pick, user, requests, resolves, overlap>> BY <1>1 DEF Core!Lookup, Core!history
  <2>2. PICK c, x : /\ c = Core!Resolve(m) /\ x = [c |-> c, row |-> IF c = 0 THEN Core!NoRow ELSE conv[c]]
    OBVIOUS
  <2>3. snap' = [snap EXCEPT ![m] = x] BY <1>1, <2>2, Zenon DEF Core!Lookup
  <2>4. x.c = c BY <2>2
  <2>5. x.c \in 0 .. Len(conv) BY <2>2, <2>4, ResolveIs
  <2>6. at' \in [Ids -> {"new", "locked", "chosen", "done"}] BY <1>0, <1>1 DEF Core!Lookup
  <2> QED BY <1>0, <1>00, <2>1, <2>3, <2>5, <2>6, TypesKept DEF KeptTypes
<1>2. ASSUME NEW m \in Ids, Core!Choose(m) PROVE CoreTypes'
  <2>1. UNCHANGED <<settings, conv, snap, user, requests, resolves, overlap>> BY <1>2 DEF Core!Choose, Core!history
  <2>2. PICK a : a = Core!chooseAssignee(Messages[m].sender) OBVIOUS
  <2>3. a \in Core!AgentSet \cup {""}
    <3>1. a = "" \/ \E i \in Core!Available : a = Members[i] BY <2>2, ChoiceIs
    <3> QED BY <3>1 DEF Core!AgentSet, Core!Available
  <2>4. pick' = [pick EXCEPT ![m] = a] /\ at' = [at EXCEPT ![m] = "chosen"] BY <1>2, <2>2, Zenon DEF Core!Choose
  <2>5. pick' \in [Ids -> Core!AgentSet \cup {""}] BY <1>0, <2>3, <2>4
  <2>6. at' \in [Ids -> {"new", "locked", "chosen", "done"}] BY <1>0, <2>4
  <2> QED BY <1>0, <1>00, <2>1, <2>5, <2>6, TypesKept DEF KeptTypes
<1>3. ASSUME NEW m \in Ids, Core!Commit(m) PROVE CoreTypes'
  <2>1. /\ UNCHANGED <<settings, snap, pick, user, requests, resolves>>
        /\ at' = [at EXCEPT ![m] = "done"]
    BY <1>3, CommitIs
  <2>2. at' \in [Ids -> {"new", "locked", "chosen", "done"}] BY <1>0, <2>1
  <2>3. overlap' \in BOOLEAN
    <3>1. overlap' = (overlap \/ Core!Choosing(m)) \/ overlap' = (overlap \/ (conv[snap[m].c].status = "RESOLVED"))
      BY <1>3, CommitIs, Zenon
    <3> QED BY <3>1, Zenon
  <2>4. PICK b \in Nat : \A c \in DOMAIN conv : conv[c].last <= b /\ \A t \in conv[c].times : t.time <= b BY <1>0
  <2>5. PICK t \in Nat : t = Messages[m].time BY ConversationsAssumption DEF Ids
  <2>6. PICK e \in Nat : b <= e /\ t <= e
    <3>1. b <= b + t /\ t <= b + t /\ b + t \in Nat OBVIOUS
    <3> QED BY <3>1
  <2>7. ASSUME NEW c \in DOMAIN conv
        PROVE  conv[c].last <= e /\ \A x \in conv[c].times : x.time <= e
    <3>1. conv[c].last \in Nat /\ conv[c].last <= b /\ \A x \in conv[c].times : x.time \in Nat /\ x.time <= b
      BY <2>4, RowsOf
    <3> QED BY <2>6, <3>1
  <2>8. PICK x : x = [of |-> m, time |-> t] OBVIOUS
  <2>9. x.time = t BY <2>8
  <2>10. CASE conv' = Append(conv, FirstRow(m))
    <3>1. FirstRow(m) \in ConvRow BY RowsWritten
    <3>2. FirstRow(m).last = t /\ FirstRow(m).times = {x} BY <2>5, <2>8 DEF FirstRow
    <3> HIDE DEF FirstRow
    <3>3. /\ conv' \in Seq(ConvRow) /\ Len(conv') = Len(conv) + 1 /\ DOMAIN conv' = DOMAIN conv \cup {Len(conv) + 1}
          /\ conv'[Len(conv) + 1] = FirstRow(m) /\ \A c \in DOMAIN conv : conv'[c] = conv[c]
      BY <2>10, <3>1, AppendedTo
    <3>4. \A c \in DOMAIN conv' : conv'[c].last <= e /\ \A y \in conv'[c].times : y.time <= e
      BY <2>6, <2>7, <2>9, <3>2, <3>3
    <3>5. Len(conv') >= Len(conv)
      <4>1. PICK n \in Nat : n = Len(conv) BY <1>0
      <4> QED BY <3>3, <4>1
    <3> QED BY <1>0, <2>1, <2>2, <2>3, <3>3, <3>4, <3>5, TypesKept DEF KeptTypes
  <2>11. CASE snap[m].c \in DOMAIN conv /\ conv' = [conv EXCEPT ![snap[m].c] = NextRow(m)]
    <3>1. NextRow(m) \in ConvRow BY <2>11, RowsWritten
    <3>2. PICK d \in DOMAIN conv : d = snap[m].c BY <2>11
    <3>3. PICK row \in ConvRow : row = NextRow(m) BY <3>1
    <3>4. row.last \in {t, conv[d].last} /\ row.times = conv[d].times \cup {x} BY <2>5, <2>8, <3>2, <3>3 DEF NextRow
    <3>5. /\ conv' \in Seq(ConvRow) /\ Len(conv') = Len(conv) /\ DOMAIN conv' = DOMAIN conv
          /\ conv'[d] = row /\ \A c \in DOMAIN conv : c # d => conv'[c] = conv[c]
      BY <2>11, <3>2, <3>3, PutInto
    <3>6. ASSUME NEW c \in DOMAIN conv' PROVE conv'[c].last <= e /\ \A y \in conv'[c].times : y.time <= e
      <4>1. CASE c = d BY <2>6, <2>7, <2>9, <3>4, <3>5, <4>1
      <4>2. CASE c # d BY <2>7, <3>5, <4>2
      <4> QED BY <4>1, <4>2
    <3>7. Len(conv') >= Len(conv) BY <1>0, <3>5
    <3> QED BY <1>0, <2>1, <2>2, <2>3, <3>5, <3>6, <3>7, TypesKept DEF KeptTypes
  <2> QED BY <1>3, <2>10, <2>11, CommitIs
<1>4. ASSUME NEW u \in User, Core!UserStep(u) PROVE CoreTypes'
  <2>1. UNCHANGED <<settings, at, snap, pick>> BY <1>4, UserStepIs
  <2>2. CASE /\ \E op \in {"status", "assign", "read", "reply"}, c \in DOMAIN conv :
                   user' = [user EXCEPT ![u] = [op |-> op, c |-> c, row |-> conv[c]]]
             /\ requests < MaxRequests /\ requests' = requests + 1
             /\ UNCHANGED <<conv, resolves, raced, overlap>>
    <3>0. PICK op \in {"status", "assign", "read", "reply"}, c \in DOMAIN conv :
              user' = [user EXCEPT ![u] = [op |-> op, c |-> c, row |-> conv[c]]]
      BY <2>2
    <3>1. PICK x : user' = [user EXCEPT ![u] = x] /\ x = [op |-> op, c |-> c, row |-> conv[c]] BY <3>0
    <3>2. x.c \in 1 .. Len(conv)
      <4>1. DOMAIN conv = 1 .. Len(conv) BY RowsOf
      <4> QED BY <3>1, <4>1
    <3>3. requests' \in 0 .. MaxRequests
      <4>1. MaxRequests \in Nat BY ConversationsAssumption
      <4>2. requests \in 0 .. MaxRequests BY <1>0
      <4> QED BY <2>2, <4>1, <4>2
    <3> QED BY <1>0, <1>00, <2>1, <2>2, <3>1, <3>2, <3>3, TypesKept DEF KeptTypes
  <2>3. CASE /\ user[u].c \in DOMAIN conv /\ user' = [user EXCEPT ![u] = Core!Idle]
             /\ requests' = requests /\ Writes(user[u].c)
    <3>1. PICK c \in DOMAIN conv : c = user[u].c BY <2>3
    <3>2. PICK row \in ConvRow : conv' = [conv EXCEPT ![c] = row] BY <2>3, <3>1, WritesAre
    <3>3. conv' \in Seq(ConvRow) /\ Len(conv') >= Len(conv) BY <1>0, <3>2, PutInto
    <3>4. /\ \E b \in Nat : \A d \in DOMAIN conv' : conv'[d].last <= b /\ \A t \in conv'[d].times : t.time <= b
          /\ resolves' \in [Core!Sender -> Nat] /\ overlap' \in BOOLEAN
      BY <2>3, <3>1, WritesAre, Zenon
    <3>5. Core!Idle.op = "none" BY DEF Core!Idle
    <3> QED BY <1>0, <2>1, <2>3, <3>3, <3>4, <3>5, TypesKept, Zenon DEF KeptTypes
  <2> QED BY <1>4, <2>2, <2>3, UserStepIs
<1> QED BY <1>1, <1>2, <1>3, <1>4 DEF Core!Next, Ids


-----------------------------------------------------------------------------
(* One conversation at a time *)

Chats(s) == {c \in DOMAIN conv : conv[c].sender = s /\ conv[c].thread = ""}
Closed(s) == {c \in DOMAIN conv : conv[c].sender = s /\ conv[c].thread = "" /\ conv[c].status = "RESOLVED"}
Busy(m) == at[m] \in {"locked", "chosen"}

\* A chat sender has at most one conversation more than agents resolved, and none more while an
\* ingest of his, the only one that holds his lock, is about to start one.
OneInv ==
    /\ \A m, n \in Ids : Busy(m) /\ Busy(n) /\ Messages[m].sender = Messages[n].sender => m = n
    /\ \A s \in Core!Sender : Cardinality(Closed(s)) <= resolves[s] /\ Cardinality(Chats(s)) <= resolves[s] + 1
    /\ \A m \in Ids : Busy(m) /\ snap[m].c = 0 /\ Messages[m].thread = "" =>
          Cardinality(Chats(Messages[m].sender)) <= resolves[Messages[m].sender]

\* Sets of conversations can be counted.
LEMMA Countable ==
    ASSUME CoreTypes, NEW s \in Core!Sender
    PROVE  /\ IsFiniteSet(Chats(s)) /\ Cardinality(Chats(s)) \in Nat
           /\ IsFiniteSet(Closed(s)) /\ Cardinality(Closed(s)) \in Nat /\ resolves[s] \in Nat
<1>1. Chats(s) \subseteq DOMAIN conv /\ Closed(s) \subseteq DOMAIN conv BY DEF Chats, Closed
<1>2. resolves[s] \in Nat BY DEF CoreTypes
<1> QED BY <1>1, <1>2, ConvSets

\* Every message has a sender.
LEMMA SenderOf == ASSUME NEW m \in Ids PROVE Messages[m].sender \in Core!Sender
BY DEF Core!Sender, Ids

\* Looking a conversation up makes none.
LEMMA OneLookup == ASSUME CoreTypes, OneInv, NEW m \in Ids, Core!Lookup(m) PROVE OneInv'
<1>1. /\ at[m] = "new" /\ Core!LockFree(m) /\ UNCHANGED <<conv, resolves>>
      /\ \E x \in {"locked", "chosen"} : at' = [at EXCEPT ![m] = x]
  BY DEF Core!Lookup, Core!history
<1>2. at \in [Ids -> {"new", "locked", "chosen", "done"}] /\ snap = [n \in Ids |-> snap[n]] BY DEF CoreTypes
<1>3. \A n \in Ids : n # m => at'[n] = at[n] BY <1>1, <1>2
<1>4. \A n \in Ids : Busy(n) => Messages[n].sender # Messages[m].sender BY <1>1 DEF Core!LockFree, Busy, Ids
<1>5. \A s : Chats(s)' = Chats(s) /\ Closed(s)' = Closed(s) BY <1>1 DEF Chats, Closed
<1>6. \A k, n \in Ids : Busy(k)' /\ Busy(n)' /\ Messages[k].sender = Messages[n].sender => k = n
  BY <1>3, <1>4 DEF OneInv, Busy
<1>7. PICK c, x : /\ c = Core!Resolve(m) /\ x = [c |-> c, row |-> IF c = 0 THEN Core!NoRow ELSE conv[c]] OBVIOUS
<1>8. snap' = [snap EXCEPT ![m] = x] BY <1>7, Zenon DEF Core!Lookup
<1>9. snap'[m].c = c /\ \A n \in Ids : n # m => snap'[n] = snap[n]
  <2>1. x.c = c BY <1>7
  <2> QED BY <1>2, <1>8, <2>1
<1>10. ASSUME NEW n \in Ids, Busy(n)', snap'[n].c = 0, Messages[n].thread = ""
       PROVE  Cardinality(Chats(Messages[n].sender)) <= resolves[Messages[n].sender]
  <2>1. CASE n # m BY <1>3, <1>9, <1>10, <2>1 DEF OneInv, Busy
  <2>2. CASE n = m
    <3>1. \A d \in DOMAIN conv : conv[d].sender = Messages[m].sender => conv[d].status = "RESOLVED"
      BY <1>7, <1>9, <1>10, <2>2, ResolveIs
    <3>2. Chats(Messages[m].sender) = Closed(Messages[m].sender) BY <3>1 DEF Chats, Closed
    <3> QED BY <2>2, <3>2, SenderOf DEF OneInv
  <2> QED BY <2>1, <2>2
<1> QED BY <1>1, <1>5, <1>6, <1>10 DEF OneInv

\* A conversation that is written stays its sender's, and is closed only by a resolution.
LEMMA OnePut ==
    ASSUME CoreTypes, OneInv, NEW c \in DOMAIN conv, NEW row \in ConvRow, conv' = [conv EXCEPT ![c] = row], snap' = snap,
           row.sender = conv[c].sender, row.thread = conv[c].thread,
           \/ resolves' = resolves /\ (row.status = "RESOLVED" => conv[c].status = "RESOLVED")
           \/ resolves' = [resolves EXCEPT ![conv[c].sender] = @ + 1],
           \A m \in Ids : Busy(m)' => Busy(m)
    PROVE  OneInv'
<1>1. DOMAIN conv' = DOMAIN conv /\ conv'[c] = row /\ \A d \in DOMAIN conv : d # c => conv'[d] = conv[d] BY PutInto
<1>2. \A s : Chats(s)' = Chats(s)
  <2>1. \A d \in DOMAIN conv : conv'[d].sender = conv[d].sender /\ conv'[d].thread = conv[d].thread BY <1>1
  <2> QED BY <1>1, <2>1 DEF Chats
<1>3. conv[c].sender \in Core!Sender BY RowsOf
<1>4. resolves \in [Core!Sender -> Nat] BY DEF CoreTypes
<1>5. \A s \in Core!Sender : resolves'[s] \in Nat /\ resolves[s] <= resolves'[s] BY <1>3, <1>4
<1>6. ASSUME NEW s \in Core!Sender PROVE Cardinality(Closed(s)') <= resolves'[s] /\ Cardinality(Chats(s)') <= resolves'[s] + 1
  <2>1. /\ IsFiniteSet(Closed(s)) /\ Cardinality(Closed(s)) \in Nat /\ Cardinality(Chats(s)) \in Nat /\ resolves[s] \in Nat
        /\ Cardinality(Closed(s)) <= resolves[s] /\ Cardinality(Chats(s)) <= resolves[s] + 1
        /\ resolves'[s] \in Nat /\ resolves[s] <= resolves'[s]
    BY <1>5, Countable DEF OneInv
  <2>2. Cardinality(Chats(s)') <= resolves'[s] + 1 BY <1>2, <2>1
  <2>3. CASE Closed(s)' \subseteq Closed(s)
    <3>1. Cardinality(Closed(s)') <= Cardinality(Closed(s)) /\ IsFiniteSet(Closed(s)') BY <2>1, <2>3, FS_Subset
    <3>2. Cardinality(Closed(s)') \in Nat BY <3>1, FS_CardinalityType
    <3> QED BY <2>1, <2>2, <3>1, <3>2
  <2>4. CASE ~(Closed(s)' \subseteq Closed(s))
    <3>1. PICK d \in Closed(s)' : d \notin Closed(s) BY <2>4
    <3>2. d = c /\ s = row.sender /\ row.status = "RESOLVED" /\ conv[c].status # "RESOLVED" BY <1>1, <3>1 DEF Closed
    <3>3. resolves'[s] = resolves[s] + 1 BY <1>3, <1>4, <3>2
    <3>4. Closed(s)' \subseteq Closed(s) \cup {c} BY <1>1 DEF Closed
    <3>5. /\ IsFiniteSet(Closed(s) \cup {c})
          /\ Cardinality(Closed(s) \cup {c}) = IF c \in Closed(s) THEN Cardinality(Closed(s)) ELSE Cardinality(Closed(s)) + 1
      BY <2>1, FS_AddElement
    <3>6. Cardinality(Closed(s)') <= Cardinality(Closed(s) \cup {c}) /\ IsFiniteSet(Closed(s)') BY <3>4, <3>5, FS_Subset
    <3>7. Cardinality(Closed(s)') \in Nat BY <3>6, FS_CardinalityType
    <3>8. Cardinality(Closed(s) \cup {c}) \in Nat /\ Cardinality(Closed(s) \cup {c}) <= resolves[s] + 1 BY <2>1, <3>5
    <3> QED BY <2>1, <2>2, <3>3, <3>6, <3>7, <3>8
  <2> QED BY <2>3, <2>4
<1>7. ASSUME NEW m \in Ids, Busy(m)', snap[m].c = 0, Messages[m].thread = ""
      PROVE  Cardinality(Chats(Messages[m].sender)') <= resolves'[Messages[m].sender]
  <2>1. PICK s \in Core!Sender : s = Messages[m].sender BY SenderOf
  <2>2. Cardinality(Chats(s)) <= resolves[s] BY <1>7, <2>1 DEF OneInv
  <2>3. Cardinality(Chats(s)) \in Nat /\ resolves[s] \in Nat /\ resolves'[s] \in Nat /\ resolves[s] <= resolves'[s]
    BY <1>5, Countable
  <2>4. Cardinality(Chats(s)') <= resolves'[s] BY <1>2, <2>2, <2>3
  <2> QED BY <2>1, <2>4
<1>8. \A m, n \in Ids : Busy(m)' /\ Busy(n)' /\ Messages[m].sender = Messages[n].sender => m = n BY DEF OneInv
<1> QED BY <1>6, <1>7, <1>8 DEF OneInv


\* A conversation is made only where none is unresolved.
LEMMA OneNew ==
    ASSUME CoreTypes, OneInv, NEW m \in Ids, at[m] = "chosen", at' = [at EXCEPT ![m] = "done"], snap[m].c = 0,
           conv' = Append(conv, FirstRow(m)), UNCHANGED <<snap, resolves>>
    PROVE  OneInv'
<1>1. PICK c : c = Len(conv) + 1 OBVIOUS
<1>2. PICK row \in ConvRow : row = FirstRow(m) BY RowsWritten
<1>3. DOMAIN conv' = DOMAIN conv \cup {c} /\ c \notin DOMAIN conv /\ conv'[c] = row /\ \A d \in DOMAIN conv : conv'[d] = conv[d]
  BY <1>1, <1>2, AppendedTo
<1>4. row.sender = Messages[m].sender /\ row.thread = Messages[m].thread /\ row.status = "OPEN" BY <1>2 DEF FirstRow
<1>5. \A s : Closed(s)' = Closed(s) BY <1>3, <1>4 DEF Closed
<1>6. \A s : Chats(s)' = Chats(s) \/ (s = row.sender /\ row.thread = "" /\ Chats(s)' = Chats(s) \cup {c})
  BY <1>3, <1>4 DEF Chats
<1>7. at \in [Ids -> {"new", "locked", "chosen", "done"}] BY DEF CoreTypes
<1>8. \A n \in Ids : Busy(n)' => Busy(n) /\ n # m BY <1>7 DEF Busy
<1>9. Busy(m) BY DEF Busy
<1>10. ASSUME NEW s \in Core!Sender PROVE Cardinality(Closed(s)') <= resolves[s] /\ Cardinality(Chats(s)') <= resolves[s] + 1
  <2>1. /\ IsFiniteSet(Chats(s)) /\ Cardinality(Chats(s)) \in Nat /\ resolves[s] \in Nat
        /\ Cardinality(Closed(s)) <= resolves[s] /\ Cardinality(Chats(s)) <= resolves[s] + 1
    BY Countable DEF OneInv
  <2>2. CASE Chats(s)' = Chats(s) BY <1>5, <2>1, <2>2
  <2>3. CASE s = row.sender /\ row.thread = "" /\ Chats(s)' = Chats(s) \cup {c}
    <3>1. Cardinality(Chats(s)) <= resolves[s] BY <1>4, <1>9, <2>3 DEF OneInv
    <3>2. c \notin Chats(s) BY <1>3 DEF Chats
    <3>3. Cardinality(Chats(s) \cup {c}) = Cardinality(Chats(s)) + 1 BY <2>1, <3>2, FS_AddElement
    <3>4. PICK k \in Nat, r \in Nat : k = Cardinality(Chats(s)) /\ r = resolves[s] /\ k <= r BY <2>1, <3>1
    <3>5. Cardinality(Chats(s)') = k + 1 BY <2>3, <3>3, <3>4
    <3>6. k + 1 <= r + 1 BY <3>4
    <3> QED BY <1>5, <2>1, <3>4, <3>5, <3>6
  <2> QED BY <1>6, <2>2, <2>3
<1>11. ASSUME NEW n \in Ids, Busy(n)', snap[n].c = 0, Messages[n].thread = ""
       PROVE  Cardinality(Chats(Messages[n].sender)') <= resolves[Messages[n].sender]
  <2>1. Busy(n) /\ n # m BY <1>8, <1>11
  <2>2. Messages[n].sender # row.sender BY <1>4, <1>9, <2>1 DEF OneInv
  <2>3. Chats(Messages[n].sender)' = Chats(Messages[n].sender) BY <1>6, <2>2
  <2> QED BY <1>11, <2>1, <2>3 DEF OneInv
<1>12. \A k, n \in Ids : Busy(k)' /\ Busy(n)' /\ Messages[k].sender = Messages[n].sender => k = n BY <1>8 DEF OneInv
<1> QED BY <1>10, <1>11, <1>12 DEF OneInv

\* Steps that touch no conversation and start no ingest.
LEMMA OneKept ==
    ASSUME OneInv, UNCHANGED <<conv, snap, resolves>>, \A m \in Ids : Busy(m)' => Busy(m)
    PROVE  OneInv'
<1>1. \A s : Chats(s)' = Chats(s) /\ Closed(s)' = Closed(s) BY DEF Chats, Closed
<1> QED BY <1>1 DEF OneInv

\* Writes of an agent keep what a conversation belongs to.
LEMMA WritesKeep ==
    ASSUME CoreTypes, NEW c \in DOMAIN conv, Writes(c)
    PROVE  \E row \in ConvRow :
              /\ conv' = [conv EXCEPT ![c] = row]
              /\ row.sender = conv[c].sender /\ row.thread = conv[c].thread
              /\ \/ resolves' = resolves /\ row.status = conv[c].status
                 \/ row.status # "RESOLVED" /\ resolves' = resolves /\ overlap'
                 \/ row.status = "RESOLVED" /\ resolves' = [resolves EXCEPT ![conv[c].sender] = @ + 1]
              /\ overlap' \/ (overlap' = overlap /\ row.assignee = conv[c].assignee /\ row.status \in {conv[c].status, "RESOLVED"})
              /\ row.lastInbound = conv[c].lastInbound
              /\ \/ row.last = conv[c].last /\ row.times = conv[c].times
                 \/ \E now \in Nat : /\ \A t \in conv[c].times : t.time <= now
                                     /\ row.last = now /\ row.times = conv[c].times \cup {[of |-> "", time |-> now]}
<1>1. PICK row \in ConvRow : conv' = [conv EXCEPT ![c] = row] BY WritesAre
<1>2. conv'[c] = row BY <1>1, PutInto
<1>3. PICK old \in ConvRow : old = conv[c] BY RowsOf
<1>4. conv \in Seq(ConvRow) BY RowsOf
<1>5. ASSUME NEW new, conv' = [conv EXCEPT ![c] = new] PROVE row = new BY <1>2, <1>4, <1>5
<1>6. CASE \E s \in {"OPEN", "PENDING", "RESOLVED"} :
            /\ conv' = [conv EXCEPT ![c] = Changed(c, s, conv[c].assignee, conv[c].unread, conv[c].last, conv[c].times)]
            /\ resolves' = IF s = "RESOLVED" THEN [resolves EXCEPT ![conv[c].sender] = @ + 1] ELSE resolves
            /\ overlap' = (overlap \/ s # "RESOLVED")
  <2>1. PICK s \in {"OPEN", "PENDING", "RESOLVED"} :
            /\ conv' = [conv EXCEPT ![c] = Changed(c, s, old.assignee, old.unread, old.last, old.times)]
            /\ resolves' = IF s = "RESOLVED" THEN [resolves EXCEPT ![old.sender] = @ + 1] ELSE resolves
            /\ overlap' = (overlap \/ s # "RESOLVED")
    BY <1>3, <1>6
  <2>2. /\ row.sender = old.sender /\ row.thread = old.thread /\ row.lastInbound = old.lastInbound
        /\ row.status = s /\ row.assignee = old.assignee /\ row.last = old.last /\ row.times = old.times
    <3>1. row = Changed(c, s, old.assignee, old.unread, old.last, old.times) BY <1>5, <2>1
    <3> QED BY <1>3, <3>1 DEF Changed
  <2>3. s # "RESOLVED" => overlap' = TRUE BY <2>1, Zenon
  <2>4. s = "RESOLVED" => overlap' = overlap
    <3>1. overlap \in BOOLEAN BY Zenon DEF CoreTypes
    <3> QED BY <2>1, <3>1, Zenon
  <2>5. CASE s = "RESOLVED"
    <3>1. resolves' = [resolves EXCEPT ![old.sender] = @ + 1] BY <2>1, <2>5
    <3> QED BY <1>1, <1>3, <2>2, <2>4, <2>5, <3>1, Zenon
  <2>6. CASE s # "RESOLVED"
    <3>1. resolves' = resolves BY <2>1, <2>6
    <3> QED BY <1>1, <1>3, <2>2, <2>3, <2>6, <3>1, Zenon
  <2> QED BY <2>5, <2>6
<1>7. CASE /\ \E a \in Core!AgentSet \cup {""} :
                conv' = [conv EXCEPT ![c] = Changed(c, conv[c].status, a, conv[c].unread, conv[c].last, conv[c].times)]
           /\ overlap' = TRUE /\ resolves' = resolves
  <2>1. PICK a : conv' = [conv EXCEPT ![c] = Changed(c, old.status, a, old.unread, old.last, old.times)] BY <1>3, <1>7
  <2>2. /\ row.sender = old.sender /\ row.thread = old.thread /\ row.lastInbound = old.lastInbound
        /\ row.status = old.status /\ row.last = old.last /\ row.times = old.times
    <3>1. row = Changed(c, old.status, a, old.unread, old.last, old.times) BY <1>5, <2>1
    <3> QED BY <1>3, <3>1 DEF Changed
  <2> QED BY <1>1, <1>3, <1>7, <2>2, Zenon
<1>8. CASE /\ conv' = [conv EXCEPT ![c] = Changed(c, conv[c].status, conv[c].assignee, 0, conv[c].last, conv[c].times)]
           /\ UNCHANGED <<resolves, overlap>>
  <2>1. conv' = [conv EXCEPT ![c] = Changed(c, old.status, old.assignee, 0, old.last, old.times)] BY <1>3, <1>8
  <2>2. /\ row.sender = old.sender /\ row.thread = old.thread /\ row.lastInbound = old.lastInbound
        /\ row.status = old.status /\ row.assignee = old.assignee /\ row.last = old.last /\ row.times = old.times
    <3>1. row = Changed(c, old.status, old.assignee, 0, old.last, old.times) BY <1>5, <2>1
    <3> QED BY <1>3, <3>1 DEF Changed
  <2> QED BY <1>1, <1>3, <1>8, <2>2, Zenon
<1>9. CASE UNCHANGED <<conv, resolves, overlap>>
  <2>1. row = old BY <1>2, <1>3, <1>9
  <2> QED BY <1>1, <1>3, <1>9, <2>1, Zenon
<1>10. CASE /\ \E now \in Nat :
                /\ \A d \in DOMAIN conv : \A t \in conv[d].times : t.time <= now
                /\ conv' = [conv EXCEPT ![c] = Changed(c, conv[c].status, conv[c].assignee, 0, now,
                                                       conv[c].times \cup {[of |-> "", time |-> now]})]
            /\ UNCHANGED <<resolves, overlap>>
  <2>1. PICK now \in Nat :
            /\ \A t \in conv[c].times : t.time <= now
            /\ conv' = [conv EXCEPT ![c] = Changed(c, old.status, old.assignee, 0, now,
                                                   old.times \cup {[of |-> "", time |-> now]})]
    BY <1>3, <1>10
  <2>2. /\ row.sender = old.sender /\ row.thread = old.thread /\ row.lastInbound = old.lastInbound
        /\ row.status = old.status /\ row.assignee = old.assignee
        /\ row.last = now /\ row.times = old.times \cup {[of |-> "", time |-> now]}
    <3>1. PICK v, w, T : v = 0 /\ w = now /\ T = old.times \cup {[of |-> "", time |-> now]} OBVIOUS
    <3>2. conv' = [conv EXCEPT ![c] = Changed(c, old.status, old.assignee, v, w, T)] BY <2>1, <3>1
    <3>3. row = Changed(c, old.status, old.assignee, v, w, T) BY <1>5, <3>2
    <3> QED BY <1>3, <3>1, <3>3 DEF Changed
  <2>3. \E k \in Nat : /\ \A t \in conv[c].times : t.time <= k
                       /\ row.last = k /\ row.times = conv[c].times \cup {[of |-> "", time |-> k]}
    BY <1>3, <2>1, <2>2, Zenon
  <2>4. /\ row.sender = conv[c].sender /\ row.thread = conv[c].thread /\ row.lastInbound = conv[c].lastInbound
        /\ row.status = conv[c].status /\ row.assignee = conv[c].assignee /\ resolves' = resolves /\ overlap' = overlap
    BY <1>3, <1>10, <2>2, Zenon
  <2> QED BY <1>1, <2>3, <2>4, Zenon
<1> QED BY <1>6, <1>7, <1>8, <1>9, <1>10 DEF Writes

\* What a commit to a conversation that exists makes of its row.
LEMMA NextRowIs ==
    ASSUME CoreTypes, NEW m \in Ids, snap[m].c \in DOMAIN conv
    PROVE  /\ NextRow(m) \in ConvRow
           /\ NextRow(m).sender = conv[snap[m].c].sender /\ NextRow(m).thread = conv[snap[m].c].thread
           /\ NextRow(m).assignee = conv[snap[m].c].assignee
           /\ NextRow(m).status \in {"OPEN", conv[snap[m].c].status}
           /\ NextRow(m).times = conv[snap[m].c].times \cup {[of |-> m, time |-> Messages[m].time]}
           /\ NextRow(m).last = IF snap[m].row.last <= Messages[m].time THEN Messages[m].time ELSE conv[snap[m].c].last
           /\ NextRow(m).lastInbound =
                IF snap[m].row.lastInbound <= Messages[m].time THEN Messages[m].time ELSE conv[snap[m].c].lastInbound
<1>1. NextRow(m) \in ConvRow BY RowsWritten
<1> QED BY <1>1 DEF NextRow

\* Every step keeps to one conversation at a time.
LEMMA OneStep == ASSUME CoreTypes, OneInv, Core!Next PROVE OneInv'
<1>0. at \in [Ids -> {"new", "locked", "chosen", "done"}] BY DEF CoreTypes
<1>1. ASSUME NEW m \in Ids, Core!Lookup(m) PROVE OneInv' BY <1>1, OneLookup
<1>2. ASSUME NEW m \in Ids, Core!Choose(m) PROVE OneInv'
  <2>1. at[m] = "locked" /\ at' = [at EXCEPT ![m] = "chosen"] /\ UNCHANGED <<conv, snap, resolves>>
    BY <1>2 DEF Core!Choose, Core!history
  <2>2. \A n \in Ids : Busy(n)' => Busy(n) BY <1>0, <2>1 DEF Busy
  <2> QED BY <2>1, <2>2, OneKept
<1>3. ASSUME NEW m \in Ids, Core!Commit(m) PROVE OneInv'
  <2>1. at[m] = "chosen" /\ at' = [at EXCEPT ![m] = "done"] /\ UNCHANGED <<snap, resolves>> BY <1>3, CommitIs
  <2>2. \A n \in Ids : Busy(n)' => Busy(n) BY <1>0, <2>1 DEF Busy
  <2>3. CASE snap[m].c = 0 /\ conv' = Append(conv, FirstRow(m)) BY <2>1, <2>3, OneNew
  <2>4. CASE snap[m].c \in DOMAIN conv /\ conv' = [conv EXCEPT ![snap[m].c] = NextRow(m)]
    <3>1. PICK c \in DOMAIN conv : c = snap[m].c BY <2>4
    <3>2. PICK row \in ConvRow : /\ row = NextRow(m) /\ row.sender = conv[c].sender /\ row.thread = conv[c].thread
                                 /\ row.status \in {"OPEN", conv[c].status}
      BY <3>1, <2>4, NextRowIs
    <3>3. conv' = [conv EXCEPT ![c] = row] BY <2>4, <3>1, <3>2
    <3>4. row.status = "RESOLVED" => conv[c].status = "RESOLVED" BY <3>2
    <3> QED BY <2>1, <2>2, <3>2, <3>3, <3>4, OnePut
  <2> QED BY <1>3, <2>3, <2>4, CommitIs
<1>4. ASSUME NEW u \in User, Core!UserStep(u) PROVE OneInv'
  <2>1. UNCHANGED <<at, snap>> BY <1>4, UserStepIs
  <2>2. \A n \in Ids : Busy(n)' => Busy(n) BY <2>1 DEF Busy
  <2>3. CASE UNCHANGED <<conv, resolves>> BY <2>1, <2>2, <2>3, OneKept
  <2>4. CASE user[u].c \in DOMAIN conv /\ Writes(user[u].c)
    <3>1. PICK c \in DOMAIN conv : c = user[u].c BY <2>4
    <3>2. Writes(c) BY <2>4, <3>1
    <3>3. PICK row \in ConvRow :
              /\ conv' = [conv EXCEPT ![c] = row]
              /\ row.sender = conv[c].sender /\ row.thread = conv[c].thread
              /\ \/ resolves' = resolves /\ row.status = conv[c].status
                 \/ row.status # "RESOLVED" /\ resolves' = resolves /\ overlap'
                 \/ row.status = "RESOLVED" /\ resolves' = [resolves EXCEPT ![conv[c].sender] = @ + 1]
      BY <3>2, WritesKeep, Zenon
    <3>4. \/ resolves' = resolves /\ (row.status = "RESOLVED" => conv[c].status = "RESOLVED")
          \/ resolves' = [resolves EXCEPT ![conv[c].sender] = @ + 1]
      BY <3>3, Zenon
    <3> QED BY <2>1, <2>2, <3>3, <3>4, OnePut
  <2> QED BY <1>4, <2>3, <2>4, UserStepIs
<1> QED BY <1>1, <1>2, <1>3, <1>4 DEF Core!Next, Ids


-----------------------------------------------------------------------------
(* The cap, and the turns of round robin *)

Held(a) == {c \in DOMAIN conv : conv[c].assignee = a /\ conv[c].status \in {"OPEN", "PENDING"}}

\* An ingest that is about to start a conversation.
Starting(m) == at[m] = "chosen" /\ snap[m].c = 0

\* Without overlaps nobody holds more than the cap, and who was chosen has room for one more.
CapInv ==
    ~overlap => /\ \A a \in Core!AgentSet : Cardinality(Held(a)) <= settings.cap
                /\ \A m \in Ids : Starting(m) /\ pick[m] # "" => Cardinality(Held(pick[m])) < settings.cap

\* What an agent holds can be counted, and is what Load counts.
LEMMA HeldIs == ASSUME CoreTypes, NEW a
                PROVE  IsFiniteSet(Held(a)) /\ Cardinality(Held(a)) \in Nat /\ Core!Load(a) = Cardinality(Held(a))
<1>1. Held(a) \subseteq DOMAIN conv BY DEF Held
<1>2. IsFiniteSet(Held(a)) /\ Cardinality(Held(a)) \in Nat BY <1>1, ConvSets
<1> QED BY <1>2, CoreCount DEF Held, Core!Load, Core!Conversations, Core!Open

\* The limit of an agent is a number.
LEMMA CapOf == ASSUME CoreTypes PROVE settings.cap \in Nat
BY ConversationsAssumption DEF CoreTypes

\* A step that gives nobody another conversation.
LEMMA CapPut ==
    ASSUME CoreTypes, CapInv, overlap' \/ overlap' = overlap, settings' = settings,
           ~overlap' => \A a : Held(a)' \subseteq Held(a),
           \A m \in Ids : Starting(m)' => Starting(m) /\ pick'[m] = pick[m]
    PROVE  CapInv'
<1> SUFFICES ASSUME ~overlap' PROVE CapInv' BY DEF CapInv
<1>1. ~overlap BY Zenon
<1>2. ASSUME NEW a PROVE Cardinality(Held(a)') \in Nat /\ Cardinality(Held(a)') <= Cardinality(Held(a))
  <2>1. IsFiniteSet(Held(a)) /\ Held(a)' \subseteq Held(a) BY HeldIs
  <2>2. IsFiniteSet(Held(a)') /\ Cardinality(Held(a)') <= Cardinality(Held(a)) BY <2>1, FS_Subset
  <2> QED BY <2>2, FS_CardinalityType
<1>3. settings.cap \in Nat BY CapOf
<1>4. ASSUME NEW a \in Core!AgentSet PROVE Cardinality(Held(a)') <= settings.cap
  <2>1. Cardinality(Held(a)) \in Nat /\ Cardinality(Held(a)) <= settings.cap BY <1>1, HeldIs DEF CapInv
  <2> QED BY <1>2, <1>3, <2>1
<1>5. ASSUME NEW m \in Ids, Starting(m)', pick'[m] # "" PROVE Cardinality(Held(pick[m])') < settings.cap /\ pick'[m] = pick[m]
  <2>1. PICK a : a = pick[m] OBVIOUS
  <2>2. Cardinality(Held(a)) \in Nat /\ Cardinality(Held(a)) < settings.cap /\ pick'[m] = pick[m]
    BY <1>1, <1>5, <2>1, HeldIs DEF CapInv
  <2>3. Cardinality(Held(a)') < settings.cap BY <1>2, <1>3, <2>2
  <2> QED BY <2>1, <2>2, <2>3 DEF Held
<1>6. \A m \in Ids : Starting(m)' /\ pick'[m] # "" => Cardinality(Held(pick[m])') < settings' .cap /\ pick'[m] = pick[m]
  BY <1>5
<1>7. \A m \in Ids : Starting(m)' /\ pick'[m] # "" => (Cardinality(Held(pick[m])) < settings.cap)'
  BY <1>6 DEF Held
<1> QED BY <1>4, <1>7 DEF CapInv, Core!AgentSet


\* The agent who is chosen is below the limit.
LEMMA CapChoose == ASSUME CoreTypes, CapInv, NEW m \in Ids, Core!Choose(m) PROVE CapInv'
<1>1. UNCHANGED <<settings, conv, snap, overlap>> BY DEF Core!Choose, Core!history
<1>2. PICK a : a = Core!chooseAssignee(Messages[m].sender) OBVIOUS
<1>3. pick' = [pick EXCEPT ![m] = a] /\ at' = [at EXCEPT ![m] = "chosen"] BY <1>2, Zenon DEF Core!Choose
<1>4. pick \in [Ids -> Core!AgentSet \cup {""}] /\ at \in [Ids -> {"new", "locked", "chosen", "done"}] BY DEF CoreTypes
<1>5. a # "" => Cardinality(Held(a)) < settings.cap
  <2>1. a = "" \/ \E i \in Core!Available : a = Members[i] BY <1>2, ChoiceIs
  <2>2. a # "" => Core!Load(a) < settings.cap BY <2>1 DEF Core!Available
  <2> QED BY <2>2, HeldIs
<1>6. \A b : Held(b)' = Held(b) BY <1>1 DEF Held
<1>7. ASSUME ~overlap, NEW n \in Ids, Starting(n)', pick'[n] # "" PROVE Cardinality(Held(pick'[n])) < settings.cap
  <2>1. CASE n = m BY <1>3, <1>4, <1>5, <1>7, <2>1
  <2>2. CASE n # m
    <3>1. at'[n] = at[n] /\ pick'[n] = pick[n] BY <1>3, <1>4, <2>2
    <3> QED BY <1>1, <1>7, <3>1 DEF CapInv, Starting
  <2> QED BY <2>1, <2>2
<1>8. ~overlap => \A b \in Core!AgentSet : Cardinality(Held(b)) <= settings.cap BY DEF CapInv
<1>9. ~overlap' <=> ~overlap BY <1>1, Zenon
<1>10. \A n \in Ids : ~overlap /\ Starting(n)' /\ pick'[n] # "" => (Cardinality(Held(pick[n])) < settings.cap)'
  BY <1>1, <1>6, <1>7 DEF Held
<1> QED BY <1>1, <1>6, <1>8, <1>9, <1>10 DEF CapInv, Core!AgentSet

\* The conversation that is made is within the limit of its agent.
LEMMA CapNew ==
    ASSUME CoreTypes, CapInv, NEW m \in Ids, at[m] = "chosen", at' = [at EXCEPT ![m] = "done"], snap[m].c = 0,
           conv' = Append(conv, FirstRow(m)), UNCHANGED <<settings, snap, pick>>, overlap' = (overlap \/ Core!Choosing(m))
    PROVE  CapInv'
<1> SUFFICES ASSUME ~overlap' PROVE CapInv' BY DEF CapInv
<1>1. ~overlap /\ ~Core!Choosing(m) BY Zenon
<1>2. PICK c : c = Len(conv) + 1 OBVIOUS
<1>3. PICK row \in ConvRow : row = FirstRow(m) BY RowsWritten
<1>4. DOMAIN conv' = DOMAIN conv \cup {c} /\ c \notin DOMAIN conv /\ conv'[c] = row /\ \A d \in DOMAIN conv : conv'[d] = conv[d]
  BY <1>2, <1>3, AppendedTo
<1>5. row.assignee = pick[m] BY <1>3 DEF FirstRow
<1>6. at \in [Ids -> {"new", "locked", "chosen", "done"}] BY DEF CoreTypes
<1>7. \A n \in Ids : ~Starting(n)' BY <1>1, <1>6 DEF Core!Choosing, Starting, Ids
<1>8. ASSUME NEW a \in Core!AgentSet PROVE Cardinality(Held(a)') <= settings.cap
  <2>1. /\ IsFiniteSet(Held(a)) /\ Cardinality(Held(a)) \in Nat /\ settings.cap \in Nat
        /\ Cardinality(Held(a)) <= settings.cap
    BY <1>1, HeldIs, CapOf DEF CapInv
  <2>2. CASE a # pick[m]
    <3>1. Held(a)' = Held(a) BY <1>4, <1>5, <2>2 DEF Held
    <3> QED BY <2>1, <3>1
  <2>3. CASE a = pick[m]
    <3>1. a # "" BY ConversationsAssumption DEF Core!AgentSet
    <3>2. Starting(m) BY DEF Starting
    <3>3. Cardinality(Held(a)) < settings.cap BY <1>1, <2>3, <3>1, <3>2 DEF CapInv
    <3>4. Held(a)' \subseteq Held(a) \cup {c} BY <1>4 DEF Held
    <3>5. /\ IsFiniteSet(Held(a) \cup {c})
          /\ Cardinality(Held(a) \cup {c}) = IF c \in Held(a) THEN Cardinality(Held(a)) ELSE Cardinality(Held(a)) + 1
      BY <2>1, FS_AddElement
    <3>6. IsFiniteSet(Held(a)') /\ Cardinality(Held(a)') <= Cardinality(Held(a) \cup {c}) BY <3>4, <3>5, FS_Subset
    <3>7. Cardinality(Held(a)') \in Nat BY <3>6, FS_CardinalityType
    <3>8. Cardinality(Held(a) \cup {c}) \in Nat /\ Cardinality(Held(a) \cup {c}) <= settings.cap BY <2>1, <3>3, <3>5
    <3> QED BY <2>1, <3>6, <3>7, <3>8
  <2> QED BY <2>2, <2>3
<1> QED BY <1>7, <1>8 DEF CapInv, Core!AgentSet

\* Every step honours the limit.
LEMMA CapStep == ASSUME CoreTypes, CapInv, Core!Next PROVE CapInv'
<1>0. at \in [Ids -> {"new", "locked", "chosen", "done"}] /\ snap = [m \in Ids |-> snap[m]] BY DEF CoreTypes
<1>1. ASSUME NEW m \in Ids, Core!Lookup(m) PROVE CapInv'
  <2>1. UNCHANGED <<settings, conv, pick, overlap>> BY <1>1 DEF Core!Lookup, Core!history
  <2>2. PICK c, x : c = Core!Resolve(m) /\ x = [c |-> c, row |-> IF c = 0 THEN Core!NoRow ELSE conv[c]] OBVIOUS
  <2>3. snap' = [snap EXCEPT ![m] = x] /\ at' = [at EXCEPT ![m] = IF c = 0 THEN "locked" ELSE "chosen"]
    BY <1>1, <2>2, Zenon DEF Core!Lookup
  <2>4. x.c = c BY <2>2
  <2>5. \A n \in Ids : Starting(n)' => Starting(n) BY <1>0, <2>3, <2>4 DEF Starting
  <2>6. \A a : Held(a)' \subseteq Held(a) BY <2>1 DEF Held
  <2> QED BY <2>1, <2>5, <2>6, CapPut
<1>2. ASSUME NEW m \in Ids, Core!Choose(m) PROVE CapInv' BY <1>2, CapChoose
<1>3. ASSUME NEW m \in Ids, Core!Commit(m) PROVE CapInv'
  <2>1. at[m] = "chosen" /\ at' = [at EXCEPT ![m] = "done"] /\ UNCHANGED <<settings, snap, pick>> BY <1>3, CommitIs
  <2>2. CASE snap[m].c = 0 /\ conv' = Append(conv, FirstRow(m)) /\ overlap' = (overlap \/ Core!Choosing(m))
    BY <2>1, <2>2, CapNew
  <2>3. CASE /\ snap[m].c \in DOMAIN conv /\ conv' = [conv EXCEPT ![snap[m].c] = NextRow(m)]
             /\ overlap' = (overlap \/ (conv[snap[m].c].status = "RESOLVED"))
    <3>1. PICK c \in DOMAIN conv : c = snap[m].c BY <2>3
    <3>2. PICK row \in ConvRow : row = NextRow(m) /\ row.assignee = conv[c].assignee BY <2>3, <3>1, NextRowIs
    <3>3. DOMAIN conv' = DOMAIN conv /\ conv'[c] = row /\ \A d \in DOMAIN conv : d # c => conv'[d] = conv[d]
      BY <2>3, <3>1, <3>2, PutInto
    <3>4. overlap \in BOOLEAN BY Zenon DEF CoreTypes
    <3>5. overlap' \/ (overlap' = overlap /\ conv[c].status # "RESOLVED") BY <2>3, <3>1, <3>4, Zenon
    <3>6. conv[c].status \in {"OPEN", "PENDING", "RESOLVED"} BY RowsOf
    <3>7. ~overlap' => \A a : Held(a)' \subseteq Held(a) BY <3>2, <3>3, <3>5, <3>6 DEF Held
    <3>8. \A n \in Ids : Starting(n)' => Starting(n) BY <1>0, <2>1 DEF Starting
    <3> QED BY <2>1, <3>5, <3>7, <3>8, CapPut
  <2> QED BY <1>3, <2>2, <2>3, CommitIs
<1>4. ASSUME NEW u \in User, Core!UserStep(u) PROVE CapInv'
  <2>1. UNCHANGED <<settings, at, snap, pick>> BY <1>4, UserStepIs
  <2>2. \A n \in Ids : Starting(n)' => Starting(n) /\ pick'[n] = pick[n] BY <2>1 DEF Starting
  <2>3. CASE UNCHANGED <<conv, overlap>>
    <3>1. \A a : Held(a)' \subseteq Held(a) BY <2>3 DEF Held
    <3> QED BY <2>1, <2>2, <2>3, <3>1, CapPut
  <2>4. CASE user[u].c \in DOMAIN conv /\ Writes(user[u].c)
    <3>1. PICK c \in DOMAIN conv : c = user[u].c BY <2>4
    <3>2. Writes(c) BY <2>4, <3>1
    <3>3. PICK row \in ConvRow :
              /\ conv' = [conv EXCEPT ![c] = row]
              /\ overlap' \/ (overlap' = overlap /\ row.assignee = conv[c].assignee /\ row.status \in {conv[c].status, "RESOLVED"})
      BY <3>2, WritesKeep, Zenon
    <3>4. DOMAIN conv' = DOMAIN conv /\ conv'[c] = row /\ \A d \in DOMAIN conv : d # c => conv'[d] = conv[d]
      BY <3>3, PutInto
    <3>5. ~overlap' => \A a : Held(a)' \subseteq Held(a) BY <3>3, <3>4 DEF Held
    <3> QED BY <2>1, <2>2, <3>3, <3>5, CapPut
  <2> QED BY <1>4, <2>3, <2>4, UserStepIs
<1> QED BY <1>1, <1>2, <1>3, <1>4 DEF Core!Next, Ids


Given(a) == {c \in DOMAIN conv : conv[c].assignee = a}
Stored == {m \in Ids : at[m] = "done"}
Rotates == settings.method = "ROUND_ROBIN" /\ settings.cap > Cardinality(Ids) /\ ~settings.preferred

\* Without overlaps who waits the longest was given the fewest, and he is chosen.
TurnsInv ==
    /\ Len(conv) <= Cardinality(Stored)
    /\ Rotates /\ ~overlap =>
         /\ \A a, b \in Core!AgentSet : Cardinality(Given(a)) <= Cardinality(Given(b)) + 1
         /\ \A a, b \in Core!AgentSet :
               Core!LastAssigned(a) <= Core!LastAssigned(b) => Cardinality(Given(a)) <= Cardinality(Given(b))
         /\ \A m \in Ids : Starting(m) /\ Core!AgentSet # {} =>
               pick[m] \in Core!AgentSet /\ \A b \in Core!AgentSet : Core!LastAssigned(pick[m]) <= Core!LastAssigned(b)

\* What an agent was given can be counted.
LEMMA GivenIs == ASSUME CoreTypes, NEW a PROVE IsFiniteSet(Given(a)) /\ Cardinality(Given(a)) \in Nat
<1>1. Given(a) \subseteq DOMAIN conv BY DEF Given
<1> QED BY <1>1, ConvSets

\* No more messages are stored than there are.
LEMMA StoredIs ==
    IsFiniteSet(Ids) /\ IsFiniteSet(Stored) /\ Cardinality(Ids) \in Nat /\ Cardinality(Stored) \in Nat
       /\ Cardinality(Stored) <= Cardinality(Ids)
<1>1. IsFiniteSet(Ids) BY ConversationsAssumption DEF Ids
<1>2. Stored \in SUBSET Ids BY DEF Stored
<1>3. IsFiniteSet(Stored) /\ Cardinality(Stored) <= Cardinality(Ids) BY <1>1, <1>2, FS_Subset
<1> QED BY <1>1, <1>3, FS_CardinalityType

\* The last conversation that an agent was given, by its number.
LEMMA LastOf == \A a : Core!LastAssigned(a) = Core!Max({0} \cup Given(a))
BY DEF Core!LastAssigned, Given, Core!Conversations

\* A step that assigns nothing.
LEMMA TurnsPut ==
    ASSUME CoreTypes, TurnsInv, overlap' \/ overlap' = overlap, settings' = settings,
           Len(conv') = Len(conv), Stored \subseteq Stored',
           ~overlap' => \A a : Given(a)' = Given(a),
           \A m \in Ids : Starting(m)' => Starting(m) /\ pick'[m] = pick[m]
    PROVE  TurnsInv'
<1>1. Len(conv') <= Cardinality(Stored')
  <2>1. IsFiniteSet(Ids) /\ Stored' \in SUBSET Ids BY StoredIs DEF Stored
  <2>2. IsFiniteSet(Stored') BY <2>1, FS_Subset
  <2>3. Cardinality(Stored) <= Cardinality(Stored') BY <2>2, FS_Subset
  <2>4. Cardinality(Stored) \in Nat /\ Cardinality(Stored') \in Nat BY <2>2, StoredIs, FS_CardinalityType
  <2>5. Len(conv) \in Nat /\ Len(conv) <= Cardinality(Stored) BY RowsOf DEF TurnsInv
  <2> QED BY <2>3, <2>4, <2>5
<1>2. ASSUME Rotates', ~overlap'
      PROVE  /\ \A a, b \in Core!AgentSet : Cardinality(Given(a)') <= Cardinality(Given(b)') + 1
             /\ \A a, b \in Core!AgentSet :
                   Core!LastAssigned(a)' <= Core!LastAssigned(b)' => Cardinality(Given(a)') <= Cardinality(Given(b)')
             /\ \A m \in Ids : Starting(m)' /\ Core!AgentSet # {} =>
                   pick'[m] \in Core!AgentSet /\ \A b \in Core!AgentSet : (Core!LastAssigned(pick[m]) <= Core!LastAssigned(b))'
  <2>1. Rotates /\ ~overlap
    <3>1. ~overlap BY <1>2, Zenon
    <3>2. Rotates BY <1>2, Zenon DEF Rotates
    <3> QED BY <3>1, <3>2
  <2>2. \A a : Given(a)' = Given(a) BY <1>2
  <2>3. \A a : Core!Max({0} \cup Given(a))' = Core!Max({0} \cup Given(a)) BY <2>2 DEF Core!Max
  <2>4. \A a : Core!LastAssigned(a)' = Core!LastAssigned(a)
    <3>1. \A a : Core!LastAssigned(a)' = Core!Max({0} \cup Given(a)') BY DEF Core!LastAssigned, Given, Core!Conversations, Core!Max
    <3> QED BY <2>2, <3>1, LastOf
  <2>5. \A m \in Ids : Starting(m)' /\ Core!AgentSet # {} =>
          pick'[m] \in Core!AgentSet /\ \A b \in Core!AgentSet : (Core!LastAssigned(pick[m]) <= Core!LastAssigned(b))'
    <3> SUFFICES ASSUME NEW m \in Ids, Starting(m)', Core!AgentSet # {}
                 PROVE  /\ pick'[m] \in Core!AgentSet
                        /\ \A b \in Core!AgentSet : (Core!LastAssigned(pick[m]) <= Core!LastAssigned(b))'
      OBVIOUS
    <3>1. Starting(m) /\ pick'[m] = pick[m] OBVIOUS
    <3>2. pick[m] \in Core!AgentSet /\ \A b \in Core!AgentSet : Core!LastAssigned(pick[m]) <= Core!LastAssigned(b)
      BY <2>1, <3>1, Zenon DEF TurnsInv
    <3> QED BY <2>4, <3>1, <3>2
  <2> QED BY <2>1, <2>2, <2>4, <2>5 DEF TurnsInv
<1> QED BY <1>1, <1>2, Zenon DEF TurnsInv, Core!AgentSet


\* The agent who is chosen has waited longest.
LEMMA TurnsChoose == ASSUME CoreTypes, TurnsInv, NEW m \in Ids, Core!Choose(m) PROVE TurnsInv'
<1>1. UNCHANGED <<settings, conv, snap, overlap>> /\ at[m] = "locked" BY DEF Core!Choose, Core!history
<1>2. PICK a : a = Core!chooseAssignee(Messages[m].sender) OBVIOUS
<1>3. pick' = [pick EXCEPT ![m] = a] /\ at' = [at EXCEPT ![m] = "chosen"] BY <1>2, Zenon DEF Core!Choose
<1>4. pick \in [Ids -> Core!AgentSet \cup {""}] /\ at \in [Ids -> {"new", "locked", "chosen", "done"}] BY DEF CoreTypes
<1>5. Stored' = Stored BY <1>1, <1>3, <1>4 DEF Stored
<1>6. \A b : Given(b)' = Given(b) BY <1>1 DEF Given
<1>7. \A b : Core!LastAssigned(b)' = Core!LastAssigned(b) BY <1>1 DEF Core!LastAssigned, Core!Conversations, Core!Max
<1>8. ASSUME Rotates, Core!AgentSet # {}
      PROVE  a \in Core!AgentSet /\ \A b \in Core!AgentSet : Core!LastAssigned(a) <= Core!LastAssigned(b)
  <2>1. ASSUME NEW i \in DOMAIN Members PROVE i \in Core!Available
    <3>1. PICK k \in Nat : k = Core!Load(Members[i]) /\ k <= Len(conv) BY LoadIs
    <3>2. PICK l \in Nat : l = Len(conv) /\ l <= Cardinality(Stored) BY RowsOf DEF TurnsInv
    <3>3. PICK d \in Nat, n \in Nat : d = Cardinality(Stored) /\ n = Cardinality(Ids) /\ d <= n BY StoredIs
    <3>4. PICK cap \in Nat : cap = settings.cap /\ cap > n BY <1>8, <3>3, CapOf DEF Rotates
    <3>5. k < cap BY <3>1, <3>2, <3>3, <3>4
    <3> QED BY <3>1, <3>4, <3>5 DEF Core!Available
  <2>2. Core!Available = DOMAIN Members BY <2>1 DEF Core!Available
  <2>3. DOMAIN Members # {} BY <1>8 DEF Core!AgentSet
  <2>4. settings.method = "ROUND_ROBIN" /\ ~settings.preferred BY <1>8, Zenon DEF Rotates
  <2>5. PICK i \in DOMAIN Members :
            /\ a = Members[i]
            /\ \A j \in DOMAIN Members : Core!LastAssigned(Members[i]) <= Core!LastAssigned(Members[j])
    BY <1>2, <2>2, <2>3, <2>4, ChoiceIs, Zenon
  <2> QED BY <2>5 DEF Core!AgentSet
<1>9. ASSUME Rotates, ~overlap, NEW n \in Ids, Starting(n)', Core!AgentSet # {}
      PROVE  pick'[n] \in Core!AgentSet /\ \A b \in Core!AgentSet : (Core!LastAssigned(pick[n]) <= Core!LastAssigned(b))'
  <2>1. CASE n = m
    <3>1. pick'[n] = a BY <1>3, <1>4, <2>1
    <3> QED BY <1>7, <1>8, <1>9, <3>1
  <2>2. CASE n # m
    <3>1. at'[n] = at[n] /\ pick'[n] = pick[n] BY <1>3, <1>4, <2>2
    <3>2. Starting(n) BY <1>1, <1>9, <3>1 DEF Starting
    <3>3. pick[n] \in Core!AgentSet /\ \A b \in Core!AgentSet : Core!LastAssigned(pick[n]) <= Core!LastAssigned(b)
      BY <1>9, <3>2, Zenon DEF TurnsInv
    <3> QED BY <1>7, <3>1, <3>3
  <2> QED BY <2>1, <2>2
<1>10. Rotates' /\ ~overlap' => Rotates /\ ~overlap BY <1>1, Zenon DEF Rotates
<1>11. ASSUME Rotates', ~overlap'
       PROVE  /\ \A x, b \in Core!AgentSet : Cardinality(Given(x)') <= Cardinality(Given(b)') + 1
              /\ \A x, b \in Core!AgentSet :
                    Core!LastAssigned(x)' <= Core!LastAssigned(b)' => Cardinality(Given(x)') <= Cardinality(Given(b)')
  BY <1>6, <1>7, <1>10, <1>11 DEF TurnsInv
<1>12. Len(conv') <= Cardinality(Stored') BY <1>1, <1>5 DEF TurnsInv
<1> QED BY <1>9, <1>10, <1>11, <1>12, Zenon DEF TurnsInv, Core!AgentSet

\* The conversation that is made goes to the agent whose turn it is.
LEMMA TurnsNew ==
    ASSUME CoreTypes, TurnsInv, NEW m \in Ids, at[m] = "chosen", at' = [at EXCEPT ![m] = "done"], snap[m].c = 0,
           conv' = Append(conv, FirstRow(m)), UNCHANGED <<settings, snap, pick>>, overlap' = (overlap \/ Core!Choosing(m))
    PROVE  TurnsInv'
<1>1. PICK c : c = Len(conv) + 1 OBVIOUS
<1>2. PICK row \in ConvRow : row = FirstRow(m) BY RowsWritten
<1>3. /\ DOMAIN conv' = DOMAIN conv \cup {c} /\ c \notin DOMAIN conv /\ conv'[c] = row
      /\ \A d \in DOMAIN conv : conv'[d] = conv[d]
      /\ Len(conv') = c
  BY <1>1, <1>2, AppendedTo
<1>4. row.assignee = pick[m] BY <1>2 DEF FirstRow
<1>5. at \in [Ids -> {"new", "locked", "chosen", "done"}] BY DEF CoreTypes
<1>6. PICK l \in Nat : l = Len(conv) /\ c = l + 1 /\ DOMAIN conv = 1 .. l BY <1>1, RowsOf
<1>7. Len(conv') <= Cardinality(Stored')
  <2>1. Stored' = Stored \cup {m} /\ m \notin Stored BY <1>5 DEF Stored
  <2>2. Cardinality(Stored') = Cardinality(Stored) + 1 BY <2>1, StoredIs, FS_AddElement
  <2>3. PICK d \in Nat : d = Cardinality(Stored) BY StoredIs
  <2>4. l <= d BY <1>6, <2>3 DEF TurnsInv
  <2> QED BY <1>3, <1>6, <2>2, <2>3, <2>4
<1>8. ASSUME Rotates', ~overlap', Core!AgentSet # {}
      PROVE  /\ \A a, b \in Core!AgentSet : Cardinality(Given(a)') <= Cardinality(Given(b)') + 1
             /\ \A a, b \in Core!AgentSet :
                   Core!LastAssigned(a)' <= Core!LastAssigned(b)' => Cardinality(Given(a)') <= Cardinality(Given(b)')
             /\ \A n \in Ids : ~Starting(n)'
  <2>1. ~overlap /\ ~Core!Choosing(m) BY <1>8, Zenon
  <2>2. Rotates BY <1>8, Zenon DEF Rotates
  <2>3. \A n \in Ids : ~Starting(n)' BY <1>5, <2>1 DEF Core!Choosing, Starting, Ids
  <2>4. Starting(m) BY DEF Starting
  <2>5. PICK x \in Core!AgentSet : x = pick[m] /\ \A b \in Core!AgentSet : Core!LastAssigned(x) <= Core!LastAssigned(b)
    BY <1>8, <2>1, <2>2, <2>4, Zenon DEF TurnsInv
  <2>6. \A a \in Core!AgentSet : IF a = x THEN Given(a)' = Given(a) \cup {c} ELSE Given(a)' = Given(a)
    BY <1>3, <1>4, <2>5 DEF Given
  <2>7. c \notin Given(x) BY <1>3 DEF Given
  <2>8. Cardinality(Given(x)') = Cardinality(Given(x)) + 1
    <3>1. IsFiniteSet(Given(x)) BY GivenIs
    <3> QED BY <2>6, <2>7, <3>1, FS_AddElement
  <2>9. \A a : Core!LastAssigned(a)' = Core!Max({0} \cup Given(a)')
    BY DEF Core!LastAssigned, Given, Core!Conversations, Core!Max
  <2>10. Core!LastAssigned(x)' = c
    <3> DEFINE S == {0} \cup Given(x)'
    <3>1. Given(x) \subseteq 1 .. l BY <1>6 DEF Given
    <3>2. S \subseteq Nat /\ c \in S /\ \A y \in S : y <= c BY <1>6, <2>6, <3>1
    <3>3. Core!Max(S) = c
      <4> HIDE DEF S
      <4> QED BY <3>2, MaxIs
    <3> QED BY <2>9, <3>3
  <2>11. \A a \in Core!AgentSet : a # x => Core!LastAssigned(a)' = Core!LastAssigned(a) BY <2>6, <2>9, LastOf
  <2>12. \A a \in Core!AgentSet : Core!LastAssigned(a) \in Nat /\ Core!LastAssigned(a) < c
    <3>1. \A a : Core!LastAssigned(a) \in 0 .. l BY <1>6, LastAssignedIs
    <3> QED BY <1>6, <3>1
  <2>13. \A a \in Core!AgentSet : Cardinality(Given(a)) \in Nat BY GivenIs
  <2>14. \A a, b \in Core!AgentSet : Cardinality(Given(a)) <= Cardinality(Given(b)) + 1 BY <2>1, <2>2, Zenon DEF TurnsInv
  <2>15. \A a, b \in Core!AgentSet :
            Core!LastAssigned(a) <= Core!LastAssigned(b) => Cardinality(Given(a)) <= Cardinality(Given(b))
    BY <2>1, <2>2, Zenon DEF TurnsInv
  <2>16. \A b \in Core!AgentSet : Cardinality(Given(x)) <= Cardinality(Given(b)) BY <2>5, <2>15
  <2>17. \A b \in Core!AgentSet : b # x => Cardinality(Given(b)') = Cardinality(Given(b)) BY <2>6
  <2>18. ASSUME NEW a \in Core!AgentSet, NEW b \in Core!AgentSet
         PROVE  /\ Cardinality(Given(a)') <= Cardinality(Given(b)') + 1
                /\ Core!LastAssigned(a)' <= Core!LastAssigned(b)' => Cardinality(Given(a)') <= Cardinality(Given(b)')
    <3>1. PICK i \in Nat, j \in Nat, k \in Nat :
              i = Cardinality(Given(a)) /\ j = Cardinality(Given(b)) /\ k = Cardinality(Given(x))
      BY <2>13
    <3>2. i <= j + 1 /\ j <= i + 1 /\ k <= i /\ k <= j /\ j <= k + 1 /\ i <= k + 1 BY <2>14, <2>16, <3>1
    <3>3. CASE a = x /\ b = x BY <2>8, <3>1, <3>3
    <3>4. CASE a = x /\ b # x
      <4>1. Cardinality(Given(a)') = k + 1 /\ Cardinality(Given(b)') = j BY <2>8, <2>17, <3>1, <3>4
      <4>2. ~(Core!LastAssigned(a)' <= Core!LastAssigned(b)')
        <5>1. Core!LastAssigned(a)' = c /\ Core!LastAssigned(b)' = Core!LastAssigned(b) BY <2>10, <2>11, <3>4
        <5>2. PICK y \in Nat : y = Core!LastAssigned(b) /\ y < c BY <2>12
        <5> QED BY <1>6, <5>1, <5>2
      <4> QED BY <3>2, <4>1, <4>2
    <3>5. CASE a # x /\ b = x
      <4>1. Cardinality(Given(a)') = i /\ Cardinality(Given(b)') = k + 1 BY <2>8, <2>17, <3>1, <3>5
      <4> QED BY <3>2, <4>1
    <3>6. CASE a # x /\ b # x
      <4>1. Cardinality(Given(a)') = i /\ Cardinality(Given(b)') = j BY <2>17, <3>1, <3>6
      <4>2. Core!LastAssigned(a)' <= Core!LastAssigned(b)' => i <= j BY <2>11, <2>15, <3>1, <3>6
      <4> QED BY <3>2, <4>1, <4>2
    <3> QED BY <3>3, <3>4, <3>5, <3>6
  <2> QED BY <2>3, <2>18
<1>9. Core!AgentSet = {} => \A a : a \notin Core!AgentSet OBVIOUS
<1> QED BY <1>7, <1>8, <1>9, Zenon DEF TurnsInv, Core!AgentSet

\* Every step keeps the turns.
LEMMA TurnsStep == ASSUME CoreTypes, TurnsInv, Core!Next PROVE TurnsInv'
<1>0. at \in [Ids -> {"new", "locked", "chosen", "done"}] /\ snap = [m \in Ids |-> snap[m]] BY DEF CoreTypes
<1>1. ASSUME NEW m \in Ids, Core!Lookup(m) PROVE TurnsInv'
  <2>1. UNCHANGED <<settings, conv, pick, overlap>> /\ at[m] = "new" BY <1>1 DEF Core!Lookup, Core!history
  <2>2. PICK c, x : c = Core!Resolve(m) /\ x = [c |-> c, row |-> IF c = 0 THEN Core!NoRow ELSE conv[c]] OBVIOUS
  <2>3. snap' = [snap EXCEPT ![m] = x] /\ at' = [at EXCEPT ![m] = IF c = 0 THEN "locked" ELSE "chosen"]
    BY <1>1, <2>2, Zenon DEF Core!Lookup
  <2>4. x.c = c BY <2>2
  <2>5. \A n \in Ids : Starting(n)' => Starting(n) BY <1>0, <2>3, <2>4 DEF Starting
  <2>6. \A a : Given(a)' = Given(a) BY <2>1 DEF Given
  <2>7. Stored \subseteq Stored' BY <1>0, <2>1, <2>3 DEF Stored
  <2> QED BY <2>1, <2>5, <2>6, <2>7, TurnsPut
<1>2. ASSUME NEW m \in Ids, Core!Choose(m) PROVE TurnsInv' BY <1>2, TurnsChoose
<1>3. ASSUME NEW m \in Ids, Core!Commit(m) PROVE TurnsInv'
  <2>1. at[m] = "chosen" /\ at' = [at EXCEPT ![m] = "done"] /\ UNCHANGED <<settings, snap, pick>> BY <1>3, CommitIs
  <2>2. CASE snap[m].c = 0 /\ conv' = Append(conv, FirstRow(m)) /\ overlap' = (overlap \/ Core!Choosing(m))
    BY <2>1, <2>2, TurnsNew
  <2>3. CASE /\ snap[m].c \in DOMAIN conv /\ conv' = [conv EXCEPT ![snap[m].c] = NextRow(m)]
             /\ overlap' = (overlap \/ (conv[snap[m].c].status = "RESOLVED"))
    <3>1. PICK c \in DOMAIN conv : c = snap[m].c BY <2>3
    <3>2. PICK row \in ConvRow : row = NextRow(m) /\ row.assignee = conv[c].assignee BY <2>3, <3>1, NextRowIs
    <3>3. /\ DOMAIN conv' = DOMAIN conv /\ conv'[c] = row /\ \A d \in DOMAIN conv : d # c => conv'[d] = conv[d]
          /\ Len(conv') = Len(conv)
      BY <2>3, <3>1, <3>2, PutInto
    <3>4. overlap \in BOOLEAN BY Zenon DEF CoreTypes
    <3>5. overlap' \/ overlap' = overlap BY <2>3, <3>4, Zenon
    <3>6. \A a : Given(a)' = Given(a) BY <3>2, <3>3 DEF Given
    <3>7. Stored \subseteq Stored' BY <1>0, <2>1 DEF Stored
    <3>8. \A n \in Ids : Starting(n)' => Starting(n) BY <1>0, <2>1 DEF Starting
    <3> QED BY <2>1, <3>3, <3>5, <3>6, <3>7, <3>8, TurnsPut
  <2> QED BY <1>3, <2>2, <2>3, CommitIs
<1>4. ASSUME NEW u \in User, Core!UserStep(u) PROVE TurnsInv'
  <2>1. UNCHANGED <<settings, at, snap, pick>> BY <1>4, UserStepIs
  <2>2. \A n \in Ids : Starting(n)' => Starting(n) /\ pick'[n] = pick[n] BY <2>1 DEF Starting
  <2>3. Stored \subseteq Stored' BY <2>1 DEF Stored
  <2>4. CASE UNCHANGED <<conv, overlap>>
    <3>1. \A a : Given(a)' = Given(a) BY <2>4 DEF Given
    <3> QED BY <2>1, <2>2, <2>3, <2>4, <3>1, TurnsPut
  <2>5. CASE user[u].c \in DOMAIN conv /\ Writes(user[u].c)
    <3>1. PICK c \in DOMAIN conv : c = user[u].c BY <2>5
    <3>2. Writes(c) BY <2>5, <3>1
    <3>3. PICK row \in ConvRow :
              /\ conv' = [conv EXCEPT ![c] = row]
              /\ overlap' \/ (overlap' = overlap /\ row.assignee = conv[c].assignee /\ row.status \in {conv[c].status, "RESOLVED"})
      BY <3>2, WritesKeep, Zenon
    <3>4. /\ DOMAIN conv' = DOMAIN conv /\ conv'[c] = row /\ \A d \in DOMAIN conv : d # c => conv'[d] = conv[d]
          /\ Len(conv') = Len(conv)
      BY <3>3, PutInto
    <3>5. ~overlap' => \A a : Given(a)' = Given(a) BY <3>3, <3>4 DEF Given
    <3> QED BY <2>1, <2>2, <2>3, <3>3, <3>4, <3>5, TurnsPut
  <2> QED BY <1>4, <2>4, <2>5, UserStepIs
<1> QED BY <1>1, <1>2, <1>3, <1>4 DEF Core!Next, Ids


-----------------------------------------------------------------------------
(* The latest message of a conversation *)

RowLatest(row) ==
    /\ \E t \in row.times : t.time = row.last
    /\ \A t \in row.times : t.time <= row.last
    /\ \E t \in row.times : t.of # "" /\ t.time = row.lastInbound
    /\ \A t \in row.times : t.of # "" => t.time <= row.lastInbound

\* An ingest whose conversation was not written since it read it knows its times.
LatestInv ==
    /\ \A m \in Ids : at[m] = "locked" => snap[m].c = 0
    /\ \A c \in DOMAIN conv : c \notin raced =>
          /\ RowLatest(conv[c])
          /\ \A m \in Ids : at[m] = "chosen" /\ snap[m].c = c =>
                snap[m].row.last = conv[c].last /\ snap[m].row.lastInbound = conv[c].lastInbound

\* A message that is added to a row.
Adds(row, old, x) ==
    /\ row \in ConvRow /\ old \in ConvRow /\ x \in [of : Ids \cup {""}, time : Nat]
    /\ row.times = old.times \cup {x}
    /\ row.last = IF old.last <= x.time THEN x.time ELSE old.last
    /\ row.lastInbound = IF x.of # "" /\ old.lastInbound <= x.time THEN x.time ELSE old.lastInbound

\* A message that is added becomes the last one if it is later.
LEMMA RowAdded == ASSUME NEW row, NEW old, NEW x, RowLatest(old), Adds(row, old, x) PROVE RowLatest(row)
<1>1. PICK l \in Nat, i \in Nat, t \in Nat : l = old.last /\ i = old.lastInbound /\ t = x.time BY DEF ConvRow, Adds
<1>2. \A y \in old.times : y.time \in Nat BY DEF ConvRow, Adds
<1>3. row.times = old.times \cup {x} BY DEF Adds
<1>4. /\ \E y \in old.times : y.time = l
      /\ \A y \in old.times : y.time <= l
      /\ \E y \in old.times : y.of # "" /\ y.time = i
      /\ \A y \in old.times : y.of # "" => y.time <= i
  BY <1>1 DEF RowLatest
<1>5. row.last = (IF l <= t THEN t ELSE l) BY <1>1, Zenon DEF Adds
<1>6. row.lastInbound = (IF x.of # "" /\ i <= t THEN t ELSE i) BY <1>1, Zenon DEF Adds
<1>11. PICK r \in Nat : r = row.last /\ l <= r /\ t <= r
  <2>1. CASE l <= t BY <1>1, <1>5, <2>1
  <2>2. CASE ~(l <= t) BY <1>1, <1>5, <2>2
  <2> QED BY <2>1, <2>2
<1>12. \/ row.lastInbound = t /\ x.of # "" /\ i <= t
       \/ row.lastInbound = i /\ ~(x.of # "" /\ i <= t)
  BY <1>6, Zenon
<1>13. PICK s \in Nat : s = row.lastInbound /\ i <= s
  <2>1. (row.lastInbound = t /\ i <= t) \/ row.lastInbound = i BY <1>12, Zenon
  <2>2. i <= i OBVIOUS
  <2> QED BY <2>1, <2>2, Zenon
<1>14. x.of # "" => t <= s
  <2>1. CASE row.lastInbound = t
    <3>1. t <= t OBVIOUS
    <3> QED BY <1>13, <2>1, <3>1, Zenon
  <2>2. CASE row.lastInbound = i /\ ~(x.of # "" /\ i <= t)
    <3>1. x.of # "" => ~(i <= t) BY <2>2, Zenon
    <3>2. ~(i <= t) => t <= i OBVIOUS
    <3> QED BY <1>13, <2>2, <3>1, <3>2
  <2> QED BY <1>12, <2>1, <2>2
<1>7. \E y \in row.times : y.time = row.last
  <2>1. CASE l <= t BY <1>1, <1>3, <1>5, <2>1
  <2>2. CASE ~(l <= t) BY <1>3, <1>4, <1>5, <2>2
  <2> QED BY <2>1, <2>2
<1>8. ASSUME NEW y \in row.times PROVE y.time <= row.last
  <2>1. CASE y = x BY <1>1, <1>11, <2>1
  <2>2. CASE y \in old.times
    <3>1. y.time \in Nat /\ y.time <= l BY <1>2, <1>4, <2>2
    <3> QED BY <1>11, <3>1
  <2> QED BY <1>3, <2>1, <2>2
<1>9. \E y \in row.times : y.of # "" /\ y.time = row.lastInbound
  <2>1. CASE x.of # "" /\ i <= t BY <1>1, <1>3, <1>6, <2>1
  <2>2. CASE ~(x.of # "" /\ i <= t) BY <1>3, <1>4, <1>6, <2>2
  <2> QED BY <2>1, <2>2
<1>10. ASSUME NEW y \in row.times, y.of # "" PROVE y.time <= row.lastInbound
  <2>1. CASE y = x BY <1>1, <1>10, <1>13, <1>14, <2>1
  <2>2. CASE y \in old.times
    <3>1. y.time \in Nat /\ y.time <= i BY <1>2, <1>4, <1>10, <2>2
    <3> QED BY <1>13, <3>1
  <2> QED BY <1>3, <2>1, <2>2
<1> QED BY <1>7, <1>8, <1>9, <1>10 DEF RowLatest

\* A conversation that is written; an ingest that read it before is outdated.
LEMMA LatestPut ==
    ASSUME CoreTypes, LatestInv, NEW c \in DOMAIN conv, NEW row \in ConvRow, conv' = [conv EXCEPT ![c] = row],
           NEW me, raced' = Core!Race(c, me), c \notin raced => RowLatest(row), snap' = snap,
           \A m \in Ids : at'[m] = "locked" => at[m] = "locked",
           \A m \in Ids : at'[m] = "chosen" => at[m] = "chosen" /\ m # me
    PROVE  LatestInv'
<1>1. DOMAIN conv' = DOMAIN conv /\ conv'[c] = row /\ \A d \in DOMAIN conv : d # c => conv'[d] = conv[d] BY PutInto
<1>2. raced \subseteq raced' BY DEF Core!Race
<1>3. c \notin raced' => \A m \in Ids : m # me => ~(at[m] = "chosen" /\ snap[m].c = c) BY DEF Core!Race, Ids
<1>4. \A m \in Ids : at'[m] = "locked" => snap'[m].c = 0 BY DEF LatestInv
<1>5. ASSUME NEW d \in DOMAIN conv', d \notin raced'
      PROVE  /\ RowLatest(conv'[d])
             /\ \A m \in Ids : at'[m] = "chosen" /\ snap'[m].c = d =>
                   snap'[m].row.last = conv'[d].last /\ snap'[m].row.lastInbound = conv'[d].lastInbound
  <2>1. CASE d = c BY <1>1, <1>2, <1>3, <1>5, <2>1
  <2>2. CASE d # c
    <3>1. d \in DOMAIN conv /\ d \notin raced /\ conv'[d] = conv[d] BY <1>1, <1>2, <1>5, <2>2
    <3> QED BY <3>1 DEF LatestInv
  <2> QED BY <2>1, <2>2
<1> QED BY <1>4, <1>5 DEF LatestInv, RowLatest


\* A new conversation has one message.
LEMMA LatestNew ==
    ASSUME CoreTypes, LatestInv, NEW m \in Ids, at[m] = "chosen", at' = [at EXCEPT ![m] = "done"],
           conv' = Append(conv, FirstRow(m)), UNCHANGED <<snap, raced>>
    PROVE  LatestInv'
<1>1. PICK c : c = Len(conv) + 1 OBVIOUS
<1>2. PICK row \in ConvRow : row = FirstRow(m) BY RowsWritten
<1>3. DOMAIN conv' = DOMAIN conv \cup {c} /\ c \notin DOMAIN conv /\ conv'[c] = row /\ \A d \in DOMAIN conv : conv'[d] = conv[d]
  BY <1>1, <1>2, AppendedTo
<1>4. at \in [Ids -> {"new", "locked", "chosen", "done"}] BY DEF CoreTypes
<1>5. \A n \in Ids : at'[n] = at[n] \/ at'[n] = "done" BY <1>4
<1>14. PICK t \in Nat : t = Messages[m].time BY ConversationsAssumption DEF Ids
<1>6. PICK x : t = Messages[m].time /\ x = [of |-> m, time |-> t] BY <1>14
<1>7. row.times = {x} /\ row.last = t /\ row.lastInbound = t BY <1>2, <1>6 DEF FirstRow
<1>8. x.time = t /\ x.of = m BY <1>6
<1>9. m # "" BY ConversationsAssumption DEF Ids
<1>10. RowLatest(row)
  <2>1. t <= t BY <1>6
  <2> QED BY <1>7, <1>8, <1>9, <2>1, Zenon DEF RowLatest
<1>11. \A n \in Ids : snap[n].c # c
  <2>1. PICK l \in Nat : l = Len(conv) BY RowsOf
  <2>2. \A n \in Ids : snap[n].c \in 0 .. l BY <2>1 DEF CoreTypes
  <2> QED BY <1>1, <2>1, <2>2
<1>12. ASSUME NEW d \in DOMAIN conv', d \notin raced
       PROVE  /\ RowLatest(conv'[d])
              /\ \A n \in Ids : at'[n] = "chosen" /\ snap[n].c = d =>
                    snap[n].row.last = conv'[d].last /\ snap[n].row.lastInbound = conv'[d].lastInbound
  <2>1. CASE d = c BY <1>3, <1>10, <1>11, <2>1
  <2>2. CASE d \in DOMAIN conv
    <3>1. conv'[d] = conv[d] BY <1>3, <2>2
    <3> QED BY <1>5, <1>12, <2>2, <3>1 DEF LatestInv
  <2> QED BY <1>3, <2>1, <2>2
<1>13. \A n \in Ids : at'[n] = "locked" => snap'[n].c = 0 BY <1>5 DEF LatestInv
<1> QED BY <1>12, <1>13 DEF LatestInv, RowLatest

\* An ingest that was not overtaken writes the latest time.
LEMMA LatestOld ==
    ASSUME CoreTypes, LatestInv, NEW m \in Ids, at[m] = "chosen", at' = [at EXCEPT ![m] = "done"], snap[m].c \in DOMAIN conv,
           conv' = [conv EXCEPT ![snap[m].c] = NextRow(m)], raced' = Core!Race(snap[m].c, m), snap' = snap
    PROVE  LatestInv'
<1>1. PICK c \in DOMAIN conv : c = snap[m].c OBVIOUS
<1>2. PICK row \in ConvRow : row = NextRow(m) BY NextRowIs
<1>3. PICK old \in ConvRow : old = conv[c] BY RowsOf
<1>4. at \in [Ids -> {"new", "locked", "chosen", "done"}] BY DEF CoreTypes
<1>5. \A n \in Ids : (at'[n] = "locked" => at[n] = "locked") /\ (at'[n] = "chosen" => at[n] = "chosen" /\ n # m) BY <1>4
<1>14. PICK t \in Nat : t = Messages[m].time BY ConversationsAssumption DEF Ids
<1>6. PICK x : t = Messages[m].time /\ x = [of |-> m, time |-> t] BY <1>14
<1>7. x.time = t /\ x.of = m /\ x \in [of : Ids \cup {""}, time : Nat] BY <1>6
<1>8. m # "" BY ConversationsAssumption DEF Ids
<1>9. ASSUME c \notin raced PROVE RowLatest(row)
  <2>1. RowLatest(old) /\ snap[m].row.last = old.last /\ snap[m].row.lastInbound = old.lastInbound
    BY <1>1, <1>3, <1>9 DEF LatestInv
  <2>2. /\ row.times = old.times \cup {[of |-> m, time |-> Messages[m].time]}
        /\ row.last = IF snap[m].row.last <= Messages[m].time THEN Messages[m].time ELSE old.last
        /\ row.lastInbound = IF snap[m].row.lastInbound <= Messages[m].time THEN Messages[m].time ELSE old.lastInbound
    BY <1>1, <1>2, <1>3, NextRowIs, Zenon
  <2>3. row.times = old.times \cup {x} BY <1>6, <2>2, Zenon
  <2>4. row.last = IF old.last <= x.time THEN x.time ELSE old.last BY <1>6, <1>7, <2>1, <2>2, Zenon
  <2>5. row.lastInbound = IF x.of # "" /\ old.lastInbound <= x.time THEN x.time ELSE old.lastInbound
    <3>1. x.of # "" BY <1>7, <1>8
    <3> QED BY <1>6, <1>7, <2>1, <2>2, <3>1, Zenon
  <2>6. Adds(row, old, x) BY <1>7, <2>3, <2>4, <2>5, Zenon DEF Adds
  <2> QED BY <2>1, <2>6, RowAdded
<1>10. conv' = [conv EXCEPT ![c] = row] /\ raced' = Core!Race(c, m) BY <1>1, <1>2
<1>11. (\A n \in Ids : at'[n] = "locked" => at[n] = "locked") /\ (c \notin raced => RowLatest(row)) BY <1>5, <1>9
<1>12. \A n \in Ids : at'[n] = "chosen" => at[n] = "chosen" /\ n # m BY <1>5
<1>13. snap' = snap OBVIOUS
<1> QED BY ONLY CoreTypes, LatestInv, <1>1, <1>2, <1>10, <1>11, <1>12, <1>13, LatestPut

\* An agent's write keeps the latest message.
LEMMA LatestWritten ==
    ASSUME CoreTypes, LatestInv, NEW c \in DOMAIN conv, Writes(c), UNCHANGED <<at, snap>>, raced' = Core!Race(c, "")
    PROVE  LatestInv'
<1>1. PICK old \in ConvRow : old = conv[c] BY RowsOf
<1>2. PICK row \in ConvRow :
          /\ conv' = [conv EXCEPT ![c] = row]
          /\ row.lastInbound = conv[c].lastInbound
          /\ \/ row.last = conv[c].last /\ row.times = conv[c].times
             \/ \E now \in Nat : /\ \A t \in conv[c].times : t.time <= now
                                 /\ row.last = now /\ row.times = conv[c].times \cup {[of |-> "", time |-> now]}
  BY WritesKeep, Zenon
<1>3. ASSUME c \notin raced PROVE RowLatest(row)
  <2>1. RowLatest(old) BY <1>1, <1>3 DEF LatestInv
  <2>2. CASE row.last = conv[c].last /\ row.times = conv[c].times
    BY <1>1, <1>2, <2>1, <2>2, Zenon DEF RowLatest
  <2>3. CASE \E now \in Nat : /\ \A t \in conv[c].times : t.time <= now
                              /\ row.last = now /\ row.times = conv[c].times \cup {[of |-> "", time |-> now]}
    <3>1. PICK now \in Nat : /\ \A t \in old.times : t.time <= now
                             /\ row.last = now /\ row.times = old.times \cup {[of |-> "", time |-> now]}
      BY <1>1, <2>3
    <3>2. PICK x : x = [of |-> "", time |-> now] OBVIOUS
    <3>3. x.of = "" /\ x.time = now /\ x \in [of : Ids \cup {""}, time : Nat] BY <3>2
    <3>4. old.last \in Nat /\ old.last <= now
      <4>1. old.last \in Nat BY DEF ConvRow
      <4> QED BY <2>1, <3>1, <4>1 DEF RowLatest
    <3>5. row.last = IF old.last <= x.time THEN x.time ELSE old.last BY <3>1, <3>3, <3>4
    <3>6. row.lastInbound = IF x.of # "" /\ old.lastInbound <= x.time THEN x.time ELSE old.lastInbound
      BY <1>1, <1>2, <3>3, Zenon
    <3>7. row.times = old.times \cup {x} BY <3>1, <3>2, Zenon
    <3>8. Adds(row, old, x) BY <3>3, <3>5, <3>6, <3>7, Zenon DEF Adds
    <3> QED BY <2>1, <3>8, RowAdded
  <2> QED BY <1>2, <2>2, <2>3
<1>4. \A m \in Ids : m # "" BY ConversationsAssumption DEF Ids
<1>5. \A m \in Ids : (at'[m] = "locked" => at[m] = "locked") /\ (at'[m] = "chosen" => at[m] = "chosen" /\ m # "") BY <1>4
<1> QED BY <1>2, <1>3, <1>5, LatestPut

\* Every step keeps the last message the latest.
LEMMA LatestStep == ASSUME CoreTypes, LatestInv, Core!Next PROVE LatestInv'
<1>0. at \in [Ids -> {"new", "locked", "chosen", "done"}] /\ snap = [m \in Ids |-> snap[m]] BY DEF CoreTypes
<1>1. ASSUME NEW m \in Ids, Core!Lookup(m) PROVE LatestInv'
  <2>1. UNCHANGED <<conv, raced>> BY <1>1 DEF Core!Lookup, Core!history
  <2>2. PICK c, x : c = Core!Resolve(m) /\ x = [c |-> c, row |-> IF c = 0 THEN Core!NoRow ELSE conv[c]] OBVIOUS
  <2>3. snap' = [snap EXCEPT ![m] = x] /\ at' = [at EXCEPT ![m] = IF c = 0 THEN "locked" ELSE "chosen"]
    BY <1>1, <2>2, Zenon DEF Core!Lookup
  <2>4. x.c = c /\ (c # 0 => x.row = conv[c]) BY <2>2
  <2>5. \A n \in Ids : n # m => snap'[n] = snap[n] /\ at'[n] = at[n] BY <1>0, <2>3
  <2>6. snap'[m] = x /\ at'[m] = (IF c = 0 THEN "locked" ELSE "chosen") BY <1>0, <2>3
  <2>7. \A n \in Ids : at'[n] = "locked" => snap'[n].c = 0 BY <2>4, <2>5, <2>6 DEF LatestInv
  <2>8. ASSUME NEW d \in DOMAIN conv, d \notin raced, NEW n \in Ids, at'[n] = "chosen", snap'[n].c = d
        PROVE  snap'[n].row.last = conv[d].last /\ snap'[n].row.lastInbound = conv[d].lastInbound
    <3>1. CASE n = m BY <2>4, <2>6, <2>8, <3>1
    <3>2. CASE n # m BY <2>5, <2>8, <3>2 DEF LatestInv
    <3> QED BY <3>1, <3>2
  <2> QED BY <2>1, <2>7, <2>8 DEF LatestInv, RowLatest
<1>2. ASSUME NEW m \in Ids, Core!Choose(m) PROVE LatestInv'
  <2>1. UNCHANGED <<conv, snap, raced>> /\ at[m] = "locked" /\ at' = [at EXCEPT ![m] = "chosen"]
    BY <1>2 DEF Core!Choose, Core!history
  <2>2. snap[m].c = 0 BY <2>1 DEF LatestInv
  <2>3. 0 \notin DOMAIN conv
    <3>1. PICK l \in Nat : DOMAIN conv = 1 .. l BY RowsOf
    <3> QED BY <3>1
  <2>4. \A n \in Ids : at'[n] = at[n] \/ (n = m /\ at'[n] = "chosen") BY <1>0, <2>1
  <2>5. \A n \in Ids : at'[n] = "locked" => snap[n].c = 0 BY <2>4 DEF LatestInv
  <2>6. \A d \in DOMAIN conv, n \in Ids : at'[n] = "chosen" /\ snap[n].c = d => at[n] = "chosen" BY <2>2, <2>3, <2>4
  <2>7. \A d \in DOMAIN conv : d \notin raced =>
          /\ RowLatest(conv[d])
          /\ \A n \in Ids : at'[n] = "chosen" /\ snap[n].c = d =>
                snap[n].row.last = conv[d].last /\ snap[n].row.lastInbound = conv[d].lastInbound
    BY <2>6 DEF LatestInv
  <2> QED BY <2>1, <2>5, <2>7 DEF LatestInv, RowLatest
<1>3. ASSUME NEW m \in Ids, Core!Commit(m) PROVE LatestInv'
  <2>1. at[m] = "chosen" /\ at' = [at EXCEPT ![m] = "done"] /\ UNCHANGED snap BY <1>3, CommitIs
  <2>2. CASE conv' = Append(conv, FirstRow(m)) /\ raced' = raced BY <2>1, <2>2, LatestNew
  <2>3. CASE /\ snap[m].c \in DOMAIN conv /\ conv' = [conv EXCEPT ![snap[m].c] = NextRow(m)]
             /\ raced' = Core!Race(snap[m].c, m)
    BY <2>1, <2>3, LatestOld
  <2> QED BY <1>3, <2>2, <2>3, CommitIs
<1>4. ASSUME NEW u \in User, Core!UserStep(u) PROVE LatestInv'
  <2>1. UNCHANGED <<at, snap>> BY <1>4, UserStepIs
  <2>2. CASE UNCHANGED <<conv, raced>> BY <2>1, <2>2 DEF LatestInv, RowLatest
  <2>3. CASE user[u].c \in DOMAIN conv /\ Writes(user[u].c) /\ raced' = Core!Race(user[u].c, "")
    BY <2>1, <2>3, LatestWritten
  <2> QED BY <1>4, <2>2, <2>3, UserStepIs
<1> QED BY <1>1, <1>2, <1>3, <1>4 DEF Core!Next, Ids


-----------------------------------------------------------------------------
(* The conversations in order *)

CoreInv == CoreTypes /\ OneInv /\ CapInv /\ TurnsInv /\ LatestInv

\* Nothing is stored yet.
LEMMA CoreInit == ASSUME Core!Init PROVE CoreInv
<1>1. conv = <<>> /\ DOMAIN conv = {} /\ Len(conv) = 0 /\ conv \in Seq(ConvRow)
  <2>1. conv = <<>> BY DEF Core!Init
  <2>2. DOMAIN conv = {} BY <2>1
  <2>3. Len(conv) = 0 BY <2>1
  <2>4. conv \in Seq(ConvRow) BY <2>1
  <2> QED BY <2>1, <2>2, <2>3, <2>4
<1>2. CoreTypes
  <2>1. Core!Idle.op = "none" BY DEF Core!Idle
  <2>2. PICK x : x = [c |-> 0, row |-> Core!NoRow] OBVIOUS
  <2>3. x.c = 0 BY <2>2
  <2>4. snap = [m \in Ids |-> x] /\ user = [u \in User |-> Core!Idle] BY <2>2 DEF Core!Init, Ids
  <2>5. 0 \in 0 .. Len(conv) BY <1>1
  <2>6. snap = [m \in Ids |-> snap[m]] /\ \A m \in Ids : snap[m].c \in 0 .. Len(conv) BY <2>3, <2>4, <2>5
  <2>7. user = [u \in User |-> user[u]] /\ \A u \in User : user[u].op = "none" BY <2>1, <2>4
  <2>8. requests \in 0 .. MaxRequests
    <3>1. MaxRequests \in Nat BY ConversationsAssumption
    <3>2. requests = 0 BY DEF Core!Init
    <3> QED BY <3>1, <3>2
  <2>9. at \in [Ids -> {"new", "locked", "chosen", "done"}] /\ pick \in [Ids -> Core!AgentSet \cup {""}]
    BY DEF Core!Init, Ids
  <2>10. resolves \in [Core!Sender -> Nat] /\ settings \in InboxSettings BY DEF Core!Init
  <2>11. overlap \in BOOLEAN BY Zenon DEF Core!Init
  <2>12. \E b \in Nat : \A c \in DOMAIN conv : conv[c].last <= b /\ \A t \in conv[c].times : t.time <= b BY <1>1
  <2> QED BY <1>1, <2>6, <2>7, <2>8, <2>9, <2>10, <2>11, <2>12 DEF CoreTypes
<1>3. \A m \in Ids : at[m] = "new" BY DEF Core!Init, Ids
<1>4. Cardinality({}) = 0 BY FS_EmptySet
<1>5. OneInv
  <2>1. \A s : Chats(s) = {} /\ Closed(s) = {} BY <1>1 DEF Chats, Closed
  <2>2. \A s \in Core!Sender : resolves[s] = 0 BY DEF Core!Init
  <2>3. \A s \in Core!Sender : Cardinality(Closed(s)) <= resolves[s] /\ Cardinality(Chats(s)) <= resolves[s] + 1
    BY <1>4, <2>1, <2>2
  <2>4. \A m \in Ids : ~Busy(m) BY <1>3 DEF Busy
  <2> QED BY <2>3, <2>4, Zenon DEF OneInv
<1>6. CapInv
  <2>1. \A a : Held(a) = {} BY <1>1 DEF Held
  <2>2. settings.cap \in Nat BY <1>2, CapOf
  <2>3. \A a : Cardinality(Held(a)) <= settings.cap
    <3>1. PICK k \in Nat : k = settings.cap BY <2>2
    <3>2. 0 <= k OBVIOUS
    <3> QED BY <1>4, <2>1, <3>1, <3>2, Zenon
  <2>4. \A m \in Ids : ~Starting(m) BY <1>3 DEF Starting
  <2> QED BY <2>3, <2>4, Zenon DEF CapInv
<1>7. TurnsInv
  <2>1. \A a : Given(a) = {} BY <1>1 DEF Given
  <2>2. Cardinality(Stored) \in Nat BY StoredIs
  <2>3. 0 <= 0 /\ 0 <= 0 + 1 OBVIOUS
  <2>4. Len(conv) <= Cardinality(Stored) BY <1>1, <2>2
  <2>5. \A a : Cardinality(Given(a)) = 0 BY <1>4, <2>1
  <2>6. \A m \in Ids : ~Starting(m) BY <1>3 DEF Starting
  <2> QED BY <2>3, <2>4, <2>5, <2>6 DEF TurnsInv
<1>8. LatestInv BY <1>1, <1>3 DEF LatestInv
<1> QED BY <1>2, <1>5, <1>6, <1>7, <1>8 DEF CoreInv

\* Every step keeps the conversations in order.
LEMMA CoreStep == ASSUME CoreInv, Core!Next \/ UNCHANGED cvars PROVE CoreInv'
<1>1. CASE Core!Next
  BY <1>1, TypesStep, OneStep, CapStep, TurnsStep, LatestStep DEF CoreInv
<1>2. CASE UNCHANGED cvars
  <2>1. UNCHANGED <<settings, conv, at, snap, pick, user, requests, resolves, raced, overlap>> BY <1>2 DEF cvars
  <2>2. CoreTypes' BY <2>1 DEF CoreInv, CoreTypes
  <2>3. OneInv' BY <2>1 DEF CoreInv, OneInv, Busy, Chats, Closed
  <2>4. CapInv' BY <2>1 DEF CoreInv, CapInv, Held, Starting
  <2>5. TurnsInv'
    <3>1. \A a : Core!LastAssigned(a)' = Core!LastAssigned(a) BY <2>1 DEF Core!LastAssigned, Core!Conversations, Core!Max
    <3>2. \A a : Given(a)' = Given(a) BY <2>1 DEF Given
    <3>3. TurnsInv BY DEF CoreInv
    <3>4. Stored \subseteq Stored' BY <2>1 DEF Stored
    <3>5. \A m \in Ids : Starting(m)' => Starting(m) /\ pick'[m] = pick[m] BY <2>1 DEF Starting
    <3> QED BY <2>1, <3>2, <3>3, <3>4, <3>5, TurnsPut DEF CoreInv
  <2>6. LatestInv' BY <2>1 DEF CoreInv, LatestInv, RowLatest
  <2> QED BY <2>2, <2>3, <2>4, <2>5, <2>6 DEF CoreInv
<1> QED BY <1>1, <1>2

\* What the invariants are for.
LEMMA CoreImplies ==
    CoreInv => /\ Core!TypeOK /\ Core!OneConversationAtATime /\ Core!CapHonoured
               /\ Core!RoundRobinTakesTurns /\ Core!LastIsLatest
<1> SUFFICES ASSUME CoreInv
             PROVE  /\ Core!TypeOK /\ Core!OneConversationAtATime /\ Core!CapHonoured
                    /\ Core!RoundRobinTakesTurns /\ Core!LastIsLatest
  OBVIOUS
<1>1. CoreTypes /\ OneInv /\ CapInv /\ TurnsInv /\ LatestInv BY DEF CoreInv
<1>2. Core!TypeOK
  <2>1. \A c \in DOMAIN conv : /\ conv[c].sender \in Core!Sender /\ conv[c].unread \in Nat
                               /\ conv[c].status \in {"OPEN", "PENDING", "RESOLVED"}
                               /\ conv[c].assignee \in Core!AgentSet \cup {""}
    BY <1>1, RowsOf
  <2>2. /\ at \in [Ids -> {"new", "locked", "chosen", "done"}] /\ \A m \in Ids : snap[m].c \in 0 .. Len(conv)
        /\ requests \in 0 .. MaxRequests
    BY <1>1 DEF CoreTypes
  <2> QED BY <2>1, <2>2 DEF Core!TypeOK, Core!Conversations, Ids
<1>3. Core!OneConversationAtATime
  <2>1. \A s \in Core!Sender : Cardinality(Chats(s)) <= resolves[s] + 1 BY <1>1 DEF OneInv
  <2> QED BY <2>1, CoreCount DEF Core!OneConversationAtATime, Chats, Core!Conversations
<1>4. Core!CapHonoured
  <2>1. \A a : Core!Load(a) = Cardinality(Held(a)) BY <1>1, HeldIs
  <2> QED BY <1>1, <2>1 DEF CapInv, Core!CapHonoured
<1>5. Core!RoundRobinTakesTurns
  <2>1. Rotates /\ ~overlap => \A a, b \in Core!AgentSet : Cardinality(Given(a)) <= Cardinality(Given(b)) + 1
    BY <1>1, Zenon DEF TurnsInv
  <2>2. Core!Cardinality(DOMAIN Messages) = Cardinality(Ids) BY CoreCount DEF Ids
  <2>3. \A a : Core!Cardinality({c \in Core!Conversations : conv[c].assignee = a}) = Cardinality(Given(a))
    BY CoreCount DEF Given, Core!Conversations
  <2> SUFFICES ASSUME settings.method = "ROUND_ROBIN", settings.cap > Core!Cardinality(DOMAIN Messages),
                      ~settings.preferred, ~overlap, NEW a \in Core!AgentSet, NEW b \in Core!AgentSet
               PROVE  Core!Cardinality({c \in Core!Conversations : conv[c].assignee = a}) <=
                        Core!Cardinality({c \in Core!Conversations : conv[c].assignee = b}) + 1
    BY Zenon DEF Core!RoundRobinTakesTurns
  <2>4. Rotates BY <2>2, Zenon DEF Rotates
  <2> QED BY <2>1, <2>3, <2>4
<1>6. Core!LastIsLatest
  <2> SUFFICES ASSUME NEW c \in DOMAIN conv, c \notin raced
               PROVE  /\ conv[c].last = Core!Max({t.time : t \in conv[c].times})
                      /\ conv[c].lastInbound = Core!Max({t.time : t \in {x \in conv[c].times : x.of # ""}})
    BY DEF Core!LastIsLatest, Core!Conversations
  <2>1. RowLatest(conv[c]) BY <1>1 DEF LatestInv
  <2>2. \A t \in conv[c].times : t.time \in Nat BY <1>1, RowsOf
  <2>3. conv[c].last = Core!Max({t.time : t \in conv[c].times})
    <3> DEFINE S == {t.time : t \in conv[c].times}
    <3>1. S \subseteq Nat /\ conv[c].last \in S /\ \A y \in S : y <= conv[c].last BY <2>1, <2>2 DEF RowLatest
    <3> HIDE DEF S
    <3>2. Core!Max(S) = conv[c].last BY <3>1, MaxIs
    <3> QED BY <3>2 DEF S
  <2>4. conv[c].lastInbound = Core!Max({t.time : t \in {x \in conv[c].times : x.of # ""}})
    <3> DEFINE S == {t.time : t \in {x \in conv[c].times : x.of # ""}}
    <3>1. S \subseteq Nat /\ conv[c].lastInbound \in S /\ \A y \in S : y <= conv[c].lastInbound BY <2>1, <2>2 DEF RowLatest
    <3> HIDE DEF S
    <3>2. Core!Max(S) = conv[c].lastInbound BY <3>1, MaxIs
    <3> QED BY <3>2 DEF S
  <2> QED BY <2>3, <2>4
<1> QED BY <1>2, <1>3, <1>4, <1>5, <1>6

-----------------------------------------------------------------------------
(* Letters.  What the invariants say of them is written over the values of *)
(* the variables: L for letters, T for threads, F for filed, P for         *)
(* processed.                                                              *)

Far == MaxLetter + 1

LetterSet ==
    [by : {"customer", "program", "agent"}, id : Int, answers : 0 .. Far, reply : Int, sent : BOOLEAN,
     rooted : BOOLEAN, refs : Seq(1 .. Far)]

Post(L) == L \in Seq(LetterSet) /\ Len(L) \in 0 .. MaxLetter

\* The first letter that letter k lists (0: it lists none).
Fst(L, k) == IF L[k].refs = <<>> THEN 0 ELSE Head(L[k].refs)

\* The first letter that an answer to letter k lists.
Origin(L, k) ==
    IF k = Far THEN Far
    ELSE IF Fst(L, k) # 0 THEN Fst(L, k)
    ELSE IF L[k].reply > 0 THEN L[k].reply ELSE k

\* The thread that letter k is looked up by.
Top(L, k) == IF Fst(L, k) # 0 THEN Fst(L, k) ELSE IF L[k].reply # 0 THEN L[k].reply ELSE L[k].id

\* What a letter that came in says of the letter it answers.
Mailed(L, k) ==
    /\ L[k].sent = TRUE /\ L[k].reply = L[k].answers
    /\ L[k].answers \in 0 .. (k - 1) \/ L[k].answers = Far
    /\ L[k].answers \in DOMAIN L => L[L[k].answers].sent = TRUE /\ L[L[k].answers].id > 0
    /\ Fst(L, k) = 0 \/ (L[k].answers # 0 /\ Fst(L, k) = Origin(L, L[k].answers))
    /\ Fst(L, k) < k \/ Fst(L, k) = Far

LetterOK(L, F, P, k) ==
    /\ L[k].id \in {k, -k}
    /\ Fst(L, k) \in DOMAIN L \cup {0, Far}
    /\ L[k].reply > 0 => L[k].reply \in DOMAIN L \cup {Far}
    /\ L[k].by = "agent" => k \in DOMAIN F /\ L[k].answers = 0 /\ L[k].id = k
    /\ L[k].rooted = TRUE => L[k].by = "agent" /\ L[k].sent = TRUE
    /\ L[k].by # "agent" /\ k \in DOMAIN F => k \in P
    /\ L[k].by # "agent" => Mailed(L, k)

LettersOK(L, F, P) == \A k \in DOMAIN L : LetterOK(L, F, P, k)

Files(F) == F \in [DOMAIN F -> [conv : Nat, id : Int]]

FilesOK(L, T, F) ==
    /\ DOMAIN F \subseteq DOMAIN L
    /\ \A k \in DOMAIN F : F[k].conv \in DOMAIN T /\ F[k].id \in {0, k, -k}

\* A thread is never younger than its letters.
ThreadsOK(L, T, F) ==
    /\ \A c \in DOMAIN T : \A d \in DOMAIN T : T[c] = T[d] => c = d
    /\ \A c \in DOMAIN T : T[c] \in 1 .. MaxLetter =>
         T[c] \in DOMAIN L /\ \A k \in DOMAIN F : F[k].conv = c => T[c] <= k
    /\ \A k \in DOMAIN L : L[k].rooted = TRUE => Fst(L, k) # 0 /\ Fst(L, k) = T[F[k].conv]

\* A conversation holds the letter that its thread is called after, and the first letter that
\* an answer to one of its letters lists.
Rooted(L, T, F, k) ==
    \/ Origin(L, k) \in DOMAIN F /\ F[Origin(L, k)].conv = F[k].conv
    \/ Origin(L, k) = Far /\ T[F[k].conv] = Far

Joined(L, T, F) ==
    /\ \A c \in DOMAIN T : T[c] \in 1 .. MaxLetter => T[c] \in DOMAIN F /\ F[T[c]].conv = c
    /\ \A k \in DOMAIN F : L[k].sent = TRUE /\ L[k].id > 0 => Rooted(L, T, F, k)
    /\ \A k \in DOMAIN F : L[k].by = "customer" /\ L[k].answers \in DOMAIN L
                              => L[k].answers \in DOMAIN F /\ F[k].conv = F[L[k].answers].conv

\* A letter that lists a rooted reply first is stored with it.
Enough(L, T, F) ==
    \A k \in DOMAIN F :
        L[k].by = "customer" /\ L[k].answers \in DOMAIN L /\ Fst(L, k) # 0 /\ L[L[k].answers].rooted = TRUE
            => F[k].conv = F[L[k].answers].conv

ThreadTypes == Post(letters) /\ threads \in Seq(Int) /\ Files(filed) /\ processed \subseteq DOMAIN letters /\ strayed \in BOOLEAN

ThreadInv ==
    /\ ThreadTypes
    /\ LettersOK(letters, filed, processed)
    /\ FilesOK(letters, threads, filed)
    /\ ThreadsOK(letters, threads, filed)
    /\ strayed = FALSE => Joined(letters, threads, filed)
    /\ Enough(letters, threads, filed)

\* The first element of a sequence is one of its elements.
LEMMA HeadType ==
    ASSUME NEW S, NEW r \in Seq(S), r # <<>>
    PROVE  Head(r) \in S /\ Head(r) = r[1] /\ Len(r) \in Nat \ {0}
OBVIOUS

\* What the fields of a letter may be.
LEMMA PostFacts ==
    ASSUME NEW L, Post(L), MaxLetter \in Nat
    PROVE  /\ Len(L) \in 0 .. MaxLetter /\ DOMAIN L = 1 .. Len(L) /\ IsFiniteSet(DOMAIN L)
           /\ \A k \in DOMAIN L :
                /\ L[k] \in LetterSet
                /\ L[k].by \in {"customer", "program", "agent"} /\ L[k].id \in Int /\ L[k].answers \in 0 .. Far
                /\ L[k].reply \in Int /\ L[k].sent \in BOOLEAN /\ L[k].rooted \in BOOLEAN
                /\ L[k].refs \in Seq(1 .. Far)
                /\ Fst(L, k) \in 0 .. Far
<1>1. L \in Seq(LetterSet) /\ Len(L) \in 0 .. MaxLetter BY DEF Post
<1>2. DOMAIN L = 1 .. Len(L) /\ \A k \in DOMAIN L : L[k] \in LetterSet BY <1>1
<1>3. IsFiniteSet(1 .. Len(L))
  <2>1. Len(L) \in Int /\ 1 \in Int BY <1>1
  <2>2. QED BY <2>1, FS_Interval, Zenon
<1>4. SUFFICES ASSUME NEW k \in DOMAIN L
               PROVE  /\ L[k].by \in {"customer", "program", "agent"} /\ L[k].id \in Int /\ L[k].answers \in 0 .. Far
                      /\ L[k].reply \in Int /\ L[k].sent \in BOOLEAN /\ L[k].rooted \in BOOLEAN
                      /\ L[k].refs \in Seq(1 .. Far)
                      /\ Fst(L, k) \in 0 .. Far
      BY <1>1, <1>2, <1>3, Zenon
<1>5. L[k] \in LetterSet BY <1>2
<1>6. /\ L[k].by \in {"customer", "program", "agent"} /\ L[k].id \in Int /\ L[k].answers \in 0 .. Far
      /\ L[k].reply \in Int /\ L[k].sent \in BOOLEAN /\ L[k].rooted \in BOOLEAN
      /\ L[k].refs \in Seq(1 .. Far)
      BY <1>5, Zenon DEF LetterSet
<1>7. Fst(L, k) \in 0 .. Far
  <2>1. PICK r \in Seq(1 .. Far) : r = L[k].refs BY <1>6
  <2>2. r # <<>> => Head(r) \in 1 .. Far BY HeadType, Zenon
  <2>3. Far \in Nat BY DEF Far
  <2>4. QED BY <2>1, <2>2, <2>3 DEF Fst
<1>8. QED BY <1>6, <1>7, Zenon

\* Of a finite set of numbers one is the first, and only its rank is 1.
LEMMA FirstRank ==
    ASSUME NEW S \in SUBSET Nat, IsFiniteSet(S), S # {}
    PROVE  \E m \in S : /\ \A j \in S : m <= j
                        /\ Cardinality({j \in S : j <= m}) = 1
                        /\ \A k \in S : Cardinality({j \in S : j <= k}) = 1 => k = m
<1>1. PICK m \in S : \A j \in S : m <= j BY LeastNatural
<1>2. {j \in S : j <= m} = {m}
  <2>1. \A j \in S : j <= m => j = m
    <3>1. TAKE j \in S
    <3>2. j \in Nat /\ m \in Nat /\ m <= j BY <1>1, Zenon
    <3>3. QED BY <3>2
  <2>2. m <= m BY <1>1, Zenon
  <2>3. QED BY <2>1, <2>2, <1>1, Zenon
<1>3. Cardinality({j \in S : j <= m}) = 1 BY <1>2, FS_Singleton, Zenon
<1>4. ASSUME NEW k \in S, Cardinality({j \in S : j <= k}) = 1
      PROVE  k = m
  <2>1. IsFiniteSet({j \in S : j <= k}) BY FS_Subset, Zenon
  <2>2. PICK x : {j \in S : j <= k} = {x} BY <1>4, <2>1, FS_Singleton, Zenon
  <2>3. k \in {j \in S : j <= k} /\ m \in {j \in S : j <= k} BY <1>1
  <2>4. QED BY <2>2, <2>3, Zenon
<1>5. QED BY <1>1, <1>3, <1>4, Zenon

\* Every number up to the size of the set is the rank of one of its elements.
LEMMA RanksAreTaken ==
    ASSUME NEW S \in SUBSET Nat, IsFiniteSet(S), NEW i \in 1 .. Cardinality(S)
    PROVE  \E k \in S : Cardinality({j \in S : j <= k}) = i
<1> DEFINE below(k) == {j \in S : j <= k}
           rank == [k \in S |-> Cardinality(below(k))]
<1>1. PICK n \in Nat : n = Cardinality(S) BY FS_CardinalityType
<1>2. \A k \in S : IsFiniteSet(below(k)) /\ Cardinality(below(k)) \in Nat /\ Cardinality(below(k)) <= n
  <2>1. TAKE k \in S
  <2>2. below(k) \subseteq S BY Zenon
  <2>3. IsFiniteSet(below(k)) /\ Cardinality(below(k)) <= Cardinality(S) BY <2>2, FS_Subset, Zenon
  <2>4. Cardinality(below(k)) \in Nat BY <2>3, FS_CardinalityType, Zenon
  <2>5. QED BY <2>3, <2>4, <1>1, Zenon
<1>3. \A k \in S : Cardinality(below(k)) >= 1
  <2>1. TAKE k \in S
  <2>2. k \in below(k) OBVIOUS
  <2>3. Cardinality(below(k)) # 0 BY <2>2, <1>2, FS_EmptySet, Zenon
  <2>4. PICK c \in Nat : c = Cardinality(below(k)) BY <1>2, Zenon
  <2>5. c >= 1 BY <2>3, <2>4
  <2>6. QED BY <2>4, <2>5, Zenon
<1>4. \A k, l \in S : k < l => Cardinality(below(k)) < Cardinality(below(l))
  <2>1. SUFFICES ASSUME NEW k \in S, NEW l \in S, k < l PROVE Cardinality(below(k)) < Cardinality(below(l)) OBVIOUS
  <2>2. k \in Nat /\ l \in Nat /\ \A j \in S : j \in Nat BY Zenon
  <2>3. l <= l /\ ~(l <= k) /\ \A j \in S : j <= k => j <= l BY <2>1, <2>2
  <2>4. below(k) \subseteq below(l) /\ l \in below(l) /\ l \notin below(k) BY <2>3, Zenon
  <2>5. below(k) # below(l) BY <2>4, Zenon
  <2>6. /\ Cardinality(below(k)) <= Cardinality(below(l))
        /\ Cardinality(below(k)) # Cardinality(below(l))
    <3>1. IsFiniteSet(below(l)) BY <1>2, Zenon
    <3>2. QED BY <3>1, <2>4, <2>5, FS_Subset, Zenon
  <2>7. PICK a \in Nat, b \in Nat : a = Cardinality(below(k)) /\ b = Cardinality(below(l)) BY <1>2, Zenon
  <2>8. a <= b /\ a # b BY <2>6, <2>7, Zenon
  <2>9. a < b BY <2>7, <2>8
  <2>10. QED BY <2>7, <2>9, Zenon
<1>5. rank \in [S -> 1 .. n]
  <2>1. \A k \in S : Cardinality(below(k)) \in 1 .. n
    <3>1. TAKE k \in S
    <3>2. PICK c \in Nat : c = Cardinality(below(k)) /\ c <= n BY <1>2, Zenon
    <3>3. c >= 1 BY <1>3, <3>2, Zenon
    <3>4. c \in 1 .. n BY <3>2, <3>3, <1>1
    <3>5. QED BY <3>2, <3>4, Zenon
  <2>2. QED BY <2>1, Zenon
<1>6. ASSUME NEW k \in S, NEW l \in S, rank[k] = rank[l] PROVE k = l
  <2>1. PICK a \in Nat, b \in Nat : a = Cardinality(below(k)) /\ b = Cardinality(below(l)) BY <1>2, Zenon
  <2>2. a = b BY <1>6, <2>1, Zenon
  <2>3. (k < l => a < b) /\ (l < k => b < a) BY <1>4, <2>1, Zenon
  <2>4. k \in Nat /\ l \in Nat OBVIOUS
  <2>5. QED BY <2>2, <2>3, <2>4, <2>1
<1>7. rank \in Injection(S, 1 .. n) BY <1>5, <1>6 DEF Injection, IsInjective
<1>8. IsFiniteSet(1 .. n) /\ Cardinality(1 .. n) = n
  <2>1. n \in Int /\ 1 \in Int /\ n - 1 + 1 = n /\ (1 > n => n = 0) BY <1>1
  <2>2. QED BY <2>1, FS_Interval
<1>9. rank \in Surjection(S, 1 .. n) BY <1>1, <1>7, <1>8, FS_Injection
<1>10. i \in 1 .. n BY <1>1, Zenon
<1>11. PICK k \in S : rank[k] = i BY <1>9, <1>10 DEF Surjection
<1>12. QED BY <1>11, Zenon

Sorted(S) == [i \in 1 .. Cardinality(S) |-> CHOOSE k \in S : Cardinality({j \in S : j <= k}) = i]

\* A timeline begins with the earliest letter.
LEMMA SortedHead ==
    ASSUME NEW S \in SUBSET Nat, IsFiniteSet(S)
    PROVE  /\ Sorted(S) \in Seq(S)
           /\ S = {} => Sorted(S) = <<>>
           /\ S # {} => Sorted(S) # <<>> /\ Head(Sorted(S)) \in S /\ \A j \in S : Head(Sorted(S)) <= j
<1> DEFINE rank(k) == Cardinality({j \in S : j <= k})
<1>1. PICK n \in Nat : n = Cardinality(S) BY FS_CardinalityType, Zenon
<1>2. PICK t : t = [i \in 1 .. n |-> CHOOSE k \in S : rank(k) = i] BY Zenon
<1>3. t = Sorted(S) BY <1>1, <1>2, Zenon DEF Sorted
<1>4. \A i \in 1 .. n : t[i] \in S /\ rank(t[i]) = i
  <2>1. TAKE i \in 1 .. n
  <2>2. \E k \in S : rank(k) = i
    <3>1. i \in 1 .. Cardinality(S) BY <1>1, Zenon
    <3>2. QED BY <3>1, RanksAreTaken, Zenon
  <2>3. t[i] = CHOOSE k \in S : rank(k) = i BY <1>2, Zenon
  <2>4. QED BY <2>2, <2>3, Zenon
<1>5. t \in [1 .. n -> S]
  <2>1. \A i \in 1 .. n : (CHOOSE k \in S : rank(k) = i) \in S BY <1>2, <1>4, Zenon
  <2>2. QED BY <2>1, <1>2, Zenon
<1>6. t \in Seq(S) /\ Len(t) = n BY <1>1, <1>5
<1>7. S = {} => t = <<>>
  <2>1. S = {} => n = 0 BY <1>1, FS_EmptySet, Zenon
  <2>2. n = 0 => t = <<>> BY <1>6
  <2>3. QED BY <2>1, <2>2, Zenon
<1>8. ASSUME S # {} PROVE t # <<>> /\ Head(t) \in S /\ \A j \in S : Head(t) <= j
  <2>1. n # 0 BY <1>1, <1>8, FS_EmptySet, Zenon
  <2>2. t # <<>> /\ 1 \in 1 .. n BY <1>1, <1>6, <2>1
  <2>3. Head(t) = t[1] BY <1>6, <2>2, HeadType, Zenon
  <2>4. t[1] \in S /\ rank(t[1]) = 1 BY <1>4, <2>2, Zenon
  <2>5. PICK m \in S : (\A j \in S : m <= j) /\ \A k \in S : rank(k) = 1 => k = m BY <1>8, FirstRank, Zenon
  <2>6. t[1] = m BY <2>4, <2>5, Zenon
  <2>7. QED BY <2>2, <2>3, <2>5, <2>6, Zenon
<1>9. QED BY <1>3, <1>6, <1>7, <1>8, Zenon

\* However long a thread, a reply lists its first letter first.
LEMMA ReferencesHead ==
    ASSUME NEW S, NEW ids \in Seq(S), MAX_EMAIL_REFERENCES \in Nat
    PROVE  /\ Threads!References(ids) \in Seq(S)
           /\ ids = <<>> => Threads!References(ids) = <<>>
           /\ ids # <<>> => Threads!References(ids) # <<>> /\ Head(Threads!References(ids)) = Head(ids)
<1>1. PICK n \in Nat, m \in Nat : n = Len(ids) /\ m = MAX_EMAIL_REFERENCES OBVIOUS
<1>2. PICK r : r = Threads!References(ids) BY Zenon
<1>3. r = IF n > m THEN <<ids[1]>> \o SubSeq(ids, n - m + 2, n) ELSE ids BY <1>1, <1>2, Zenon DEF Threads!References
<1>4. CASE ~(n > m) BY <1>2, <1>3, <1>4, Zenon
<1>5. CASE n > m
  <2>1. r = <<ids[1]>> \o SubSeq(ids, n - m + 2, n) BY <1>3, <1>5, Zenon
  <2>2. ids # <<>> BY <1>1, <1>5
  <2>3. Head(ids) \in S /\ Head(ids) = ids[1] BY <2>2, HeadType, Zenon
  <2>4. PICK q \in Seq(S) : q = SubSeq(ids, n - m + 2, n)
    <3>1. \A i \in (n - m + 2) .. n : i \in 1 .. n BY <1>1, <1>5
    <3>2. \A i \in 1 .. n : ids[i] \in S BY <1>1
    <3>3. SubSeq(ids, n - m + 2, n) \in Seq(S) BY <3>1, <3>2, <1>1, <1>5
    <3>4. QED BY <3>3, Zenon
  <2>5. PICK o \in Seq(S) : o = <<ids[1]>> /\ Len(o) = 1 /\ o[1] = ids[1]
    <3>1. PICK x \in S : x = ids[1] BY <2>3, Zenon
    <3>2. <<x>> \in Seq(S) /\ Len(<<x>>) = 1 /\ <<x>>[1] = x BY <3>1
    <3>3. QED BY <3>1, <3>2, Zenon
  <2>6. r = o \o q BY <2>1, <2>4, <2>5, Zenon
  <2>7. r \in Seq(S) /\ r # <<>> /\ r[1] = ids[1] BY <2>4, <2>5, <2>6
  <2>8. Head(r) = r[1] BY <2>7, HeadType, Zenon
  <2>9. QED BY <1>2, <2>2, <2>3, <2>7, <2>8, Zenon
<1>6. QED BY <1>4, <1>5, Zenon

\* A letter is added, and perhaps stored.
Grows(L, M, F, G, n) ==
    /\ n \in 1 .. MaxLetter /\ DOMAIN L = 1 .. (n - 1) /\ DOMAIN M = 1 .. n
    /\ \A k \in DOMAIN L : M[k] = L[k]
    /\ DOMAIN F \subseteq DOMAIN L /\ DOMAIN F \subseteq DOMAIN G /\ DOMAIN G \subseteq DOMAIN F \cup {n}
    /\ \A k \in DOMAIN F : G[k] = F[k]
    /\ M[n].rooted = FALSE
    /\ n \in DOMAIN G => M[n].by = "agent" /\ M[n].sent = FALSE

\* The letters before it say what they said.
LEMMA GrowsKeeps ==
    ASSUME NEW L, NEW M, NEW F, NEW G, NEW n, MaxLetter \in Nat, Grows(L, M, F, G, n)
    PROVE  /\ \A k \in DOMAIN L : k \in DOMAIN M /\ M[k] = L[k] /\ Fst(M, k) = Fst(L, k) /\ k # n
           /\ \A k \in DOMAIN L \cup {Far} : Origin(M, k) = Origin(L, k)
           /\ n \in DOMAIN M /\ n \notin DOMAIN L /\ \A k \in DOMAIN M : k \in DOMAIN L \/ k = n
           /\ n # Far /\ 0 \notin DOMAIN M
<1>1. /\ n \in 1 .. MaxLetter /\ DOMAIN L = 1 .. (n - 1) /\ DOMAIN M = 1 .. n
      /\ \A k \in DOMAIN L : M[k] = L[k]
      BY Zenon DEF Grows
<1>2. \A k \in DOMAIN L : k \in DOMAIN M /\ k # n BY <1>1
<1>3. n \in DOMAIN M /\ n \notin DOMAIN L /\ \A k \in DOMAIN M : k \in DOMAIN L \/ k = n BY <1>1
<1>4. n # Far /\ 0 \notin DOMAIN M BY <1>1 DEF Far
<1>5. \A k \in DOMAIN L : Fst(M, k) = Fst(L, k) BY <1>1, Zenon DEF Fst
<1>6. \A k \in DOMAIN L \cup {Far} : Origin(M, k) = Origin(L, k)
  <2>1. TAKE k \in DOMAIN L \cup {Far}
  <2>2. CASE k = Far BY <2>2, Zenon DEF Origin
  <2>3. CASE k \in DOMAIN L
    <3>1. M[k] = L[k] /\ Fst(M, k) = Fst(L, k) BY <1>1, <1>5, <2>3, Zenon
    <3>2. QED BY <3>1, Zenon DEF Origin
  <2>4. QED BY <2>2, <2>3, Zenon
<1>7. QED BY <1>1, <1>2, <1>3, <1>4, <1>5, <1>6, Zenon

\* A letter that is added spoils no other.
LEMMA GrowsLetters ==
    ASSUME NEW L, NEW M, NEW F, NEW G, NEW P, NEW n, MaxLetter \in Nat, Grows(L, M, F, G, n),
           LettersOK(L, F, P), LetterOK(M, G, P, n)
    PROVE  LettersOK(M, G, P)
<1>1. /\ \A k \in DOMAIN L : k \in DOMAIN M /\ M[k] = L[k] /\ Fst(M, k) = Fst(L, k) /\ k # n
      /\ \A k \in DOMAIN L \cup {Far} : Origin(M, k) = Origin(L, k)
      /\ n \in DOMAIN M /\ n \notin DOMAIN L /\ \A k \in DOMAIN M : k \in DOMAIN L \/ k = n
      /\ n # Far /\ 0 \notin DOMAIN M
      BY GrowsKeeps, Zenon
<1>2. ASSUME NEW k \in DOMAIN L PROVE LetterOK(M, G, P, k)
  <2>1. LetterOK(L, F, P, k) BY Zenon DEF LettersOK
  <2>2. k \in DOMAIN G <=> k \in DOMAIN F
    <3>1. /\ DOMAIN F \subseteq DOMAIN G /\ DOMAIN G \subseteq DOMAIN F \cup {n} BY Zenon DEF Grows
    <3>2. QED BY <3>1, <1>1, Zenon
  <2>3. M[k] = L[k] /\ Fst(M, k) = Fst(L, k) BY <1>1, Zenon
  <2>4. ASSUME Mailed(L, k) PROVE Mailed(M, k)
    <3>1. PICK a : a = L[k].answers BY Zenon
    <3>2. a \in 0 .. (k - 1) \/ a = Far BY <3>1, <2>4, Zenon DEF Mailed
    <3>3. n \in Nat /\ k \in Nat /\ k < n
      <4>1. n \in 1 .. MaxLetter /\ DOMAIN L = 1 .. (n - 1) BY Zenon DEF Grows
      <4>2. QED BY <4>1
    <3>4. a # n BY <3>2, <3>3, <1>1
    <3>5. a = 0 \/ a \in DOMAIN L \cup {Far}
      <4>1. n \in 1 .. MaxLetter /\ DOMAIN L = 1 .. (n - 1) BY Zenon DEF Grows
      <4>2. QED BY <4>1, <3>2, <3>3
    <3>6. a \in DOMAIN M => a \in DOMAIN L /\ M[a] = L[a] BY <1>1, <3>4, Zenon
    <3>7. a # 0 => Origin(M, a) = Origin(L, a) BY <1>1, <3>5, Zenon
    <3>8. /\ L[k].sent = TRUE /\ L[k].reply = a
          /\ a \in DOMAIN L => L[a].sent = TRUE /\ L[a].id > 0
          /\ Fst(L, k) = 0 \/ (a # 0 /\ Fst(L, k) = Origin(L, a))
          /\ Fst(L, k) < k \/ Fst(L, k) = Far
          BY <3>1, <2>4, Zenon DEF Mailed
    <3>9. M[k].answers = a BY <3>1, <2>3, Zenon
    <3>10. QED BY <3>2, <3>6, <3>7, <3>8, <3>9, <2>3, Zenon DEF Mailed
  <2>5. DOMAIN L \subseteq DOMAIN M BY <1>1, Zenon
  <2>6. QED BY <2>1, <2>2, <2>3, <2>4, <2>5, Zenon DEF LetterOK
<1>3. QED BY <1>1, <1>2, Zenon DEF LettersOK

\* It is younger than every thread.
LEMMA GrowsThreads ==
    ASSUME NEW L, NEW M, NEW F, NEW G, NEW T, NEW n, MaxLetter \in Nat, Grows(L, M, F, G, n),
           FilesOK(L, T, F), ThreadsOK(L, T, F), \A k \in DOMAIN L : L[k].rooted = TRUE => k \in DOMAIN F,
           n \in DOMAIN G => G[n].conv \in DOMAIN T /\ G[n].id \in {0, n, -n}
    PROVE  FilesOK(M, T, G) /\ ThreadsOK(M, T, G)
<1>1. /\ \A k \in DOMAIN L : k \in DOMAIN M /\ M[k] = L[k] /\ Fst(M, k) = Fst(L, k) /\ k # n
      /\ n \in DOMAIN M /\ n \notin DOMAIN L /\ \A k \in DOMAIN M : k \in DOMAIN L \/ k = n
      BY GrowsKeeps
<1>2. /\ n \in 1 .. MaxLetter /\ DOMAIN L = 1 .. (n - 1)
      /\ DOMAIN F \subseteq DOMAIN L /\ DOMAIN F \subseteq DOMAIN G /\ DOMAIN G \subseteq DOMAIN F \cup {n}
      /\ \A k \in DOMAIN F : G[k] = F[k]
      /\ M[n].rooted = FALSE
      BY Zenon DEF Grows
<1>3. FilesOK(M, T, G) BY <1>1, <1>2, Zenon DEF FilesOK
<1>4. ASSUME NEW c \in DOMAIN T, T[c] \in 1 .. MaxLetter
      PROVE  T[c] \in DOMAIN M /\ \A k \in DOMAIN G : G[k].conv = c => T[c] <= k
  <2>1. T[c] \in DOMAIN L /\ \A k \in DOMAIN F : F[k].conv = c => T[c] <= k BY <1>4, Zenon DEF ThreadsOK
  <2>2. T[c] <= n BY <2>1, <1>2
  <2>3. QED BY <2>1, <2>2, <1>1, <1>2, Zenon
<1>5. ASSUME NEW k \in DOMAIN M, M[k].rooted = TRUE
      PROVE  Fst(M, k) # 0 /\ Fst(M, k) = T[G[k].conv]
  <2>1. k # n BY <1>2, <1>5, Zenon
  <2>2. k \in DOMAIN L /\ M[k] = L[k] /\ Fst(M, k) = Fst(L, k) BY <1>1, <2>1, Zenon
  <2>3. k \in DOMAIN F /\ G[k] = F[k] BY <1>2, <1>5, <2>2, Zenon
  <2>4. QED BY <2>2, <2>3, <1>5, Zenon DEF ThreadsOK
<1>6. QED BY <1>3, <1>4, <1>5, Zenon DEF ThreadsOK

\* Nobody has answered it, so that the others stay joined.
LEMMA GrowsJoined ==
    ASSUME NEW L, NEW M, NEW F, NEW G, NEW T, NEW P, NEW n, MaxLetter \in Nat, Grows(L, M, F, G, n),
           LettersOK(L, F, P), FilesOK(L, T, F)
    PROVE  (Joined(L, T, F) => Joined(M, T, G)) /\ (Enough(L, T, F) => Enough(M, T, G))
<1>1. /\ \A k \in DOMAIN L : k \in DOMAIN M /\ M[k] = L[k] /\ Fst(M, k) = Fst(L, k) /\ k # n
      /\ \A k \in DOMAIN L \cup {Far} : Origin(M, k) = Origin(L, k)
      /\ n \in DOMAIN M /\ n \notin DOMAIN L /\ \A k \in DOMAIN M : k \in DOMAIN L \/ k = n
      /\ n # Far
      BY GrowsKeeps, Zenon
<1>2. /\ DOMAIN F \subseteq DOMAIN L /\ DOMAIN F \subseteq DOMAIN G /\ DOMAIN G \subseteq DOMAIN F \cup {n}
      /\ \A k \in DOMAIN F : G[k] = F[k]
      /\ n \in DOMAIN G => M[n].by = "agent" /\ M[n].sent = FALSE
      BY Zenon DEF Grows
<1>3. ASSUME NEW k \in DOMAIN G, M[k].by = "customer", M[k].answers \in DOMAIN M
      PROVE  k \in DOMAIN F /\ k \in DOMAIN L /\ M[k] = L[k] /\ L[k].answers \in DOMAIN L
  <2>1. k # n BY <1>2, <1>3
  <2>2. k \in DOMAIN F /\ k \in DOMAIN L /\ M[k] = L[k] BY <2>1, <1>1, <1>2, Zenon
  <2>3. PICK a : a = L[k].answers BY Zenon
  <2>4. L[k].by # "agent" BY <2>2, <1>3
  <2>5. Mailed(L, k) BY <2>2, <2>4, Zenon DEF LettersOK, LetterOK
  <2>6. a \in 0 .. (k - 1) \/ a = Far BY <2>3, <2>5, Zenon DEF Mailed
  <2>7. a # n
    <3>1. n \in 1 .. MaxLetter /\ DOMAIN L = 1 .. (n - 1) BY Zenon DEF Grows
    <3>2. QED BY <3>1, <2>2, <2>6, <1>1
  <2>8. a \in DOMAIN L BY <1>1, <1>3, <2>2, <2>3, <2>7, Zenon
  <2>9. QED BY <2>2, <2>3, <2>8, Zenon
<1>4. ASSUME Joined(L, T, F) PROVE Joined(M, T, G)
  <2>1. \A c \in DOMAIN T : T[c] \in 1 .. MaxLetter => T[c] \in DOMAIN G /\ G[T[c]].conv = c
        BY <1>2, <1>4, Zenon DEF Joined
  <2>2. ASSUME NEW k \in DOMAIN G, M[k].sent = TRUE, M[k].id > 0 PROVE Rooted(M, T, G, k)
    <3>1. k # n BY <1>2, <2>2, Zenon
    <3>2. k \in DOMAIN F /\ k \in DOMAIN L /\ M[k] = L[k] /\ G[k] = F[k] /\ Origin(M, k) = Origin(L, k)
          BY <3>1, <1>1, <1>2, Zenon
    <3>3. Rooted(L, T, F, k) BY <2>2, <3>2, <1>4, Zenon DEF Joined
    <3>4. QED BY <3>2, <3>3, <1>2, Zenon DEF Rooted
  <2>3. ASSUME NEW k \in DOMAIN G, M[k].by = "customer", M[k].answers \in DOMAIN M
        PROVE  M[k].answers \in DOMAIN G /\ G[k].conv = G[M[k].answers].conv
    <3>1. k \in DOMAIN F /\ k \in DOMAIN L /\ M[k] = L[k] /\ L[k].answers \in DOMAIN L BY <1>3, <2>3, Zenon
    <3>2. L[k].answers \in DOMAIN F /\ F[k].conv = F[L[k].answers].conv BY <3>1, <2>3, <1>4, Zenon DEF Joined
    <3>3. QED BY <3>1, <3>2, <1>2, Zenon
  <2>4. QED BY <2>1, <2>2, <2>3, Zenon DEF Joined
<1>5. ASSUME Enough(L, T, F),
             NEW k \in DOMAIN G, M[k].by = "customer", M[k].answers \in DOMAIN M, Fst(M, k) # 0,
             M[M[k].answers].rooted = TRUE
      PROVE  G[k].conv = G[M[k].answers].conv
  <2>1. k \in DOMAIN F /\ k \in DOMAIN L /\ M[k] = L[k] /\ L[k].answers \in DOMAIN L BY <1>3, <1>5, Zenon
  <2>2. M[L[k].answers] = L[L[k].answers] /\ Fst(M, k) = Fst(L, k) BY <1>1, <2>1, Zenon
  <2>3. F[k].conv = F[L[k].answers].conv BY <1>5, <2>1, <2>2, Zenon DEF Enough
  <2>4. L[k].answers \in DOMAIN F
    <3>1. LetterOK(L, F, P, L[k].answers) BY <2>1, Zenon DEF LettersOK
    <3>2. QED BY <3>1, <1>5, <2>1, <2>2, Zenon DEF LetterOK
  <2>5. QED BY <2>1, <2>3, <2>4, <1>2, Zenon
<1>6. QED BY <1>4, <1>5, Zenon DEF Enough

\* The letters with one more.
LEMMA Appended ==
    ASSUME NEW L, NEW m \in LetterSet, Post(L), Len(L) < MaxLetter, MaxLetter \in Nat, NEW n, n = Len(L) + 1
    PROVE  /\ Post(Append(L, m)) /\ n \in 1 .. MaxLetter
           /\ DOMAIN L = 1 .. (n - 1) /\ DOMAIN Append(L, m) = 1 .. n
           /\ Append(L, m)[n] = m /\ \A k \in DOMAIN L : Append(L, m)[k] = L[k]
<1>1. PICK A : L \in Seq(A) /\ m \in A /\ A = LetterSet BY Zenon DEF Post
<1>2. PICK l \in 0 .. MaxLetter : l = Len(L) BY Zenon DEF Post
<1>3. n = l + 1 /\ l < MaxLetter BY <1>2, Zenon
<1>4. n \in 1 .. MaxLetter BY <1>2, <1>3
<1>5. /\ Append(L, m) \in Seq(A) /\ Len(Append(L, m)) = n
      /\ DOMAIN L = 1 .. (n - 1) /\ DOMAIN Append(L, m) = 1 .. n
      /\ Append(L, m)[n] = m /\ \A k \in DOMAIN L : Append(L, m)[k] = L[k]
      BY ONLY <1>1, <1>2, <1>3
<1>6. n \in 0 .. MaxLetter BY <1>4
<1>7. QED BY <1>1, <1>4, <1>5, <1>6, Zenon DEF Post

\* The first letter that an answer lists is a letter that was written, or one from elsewhere.
LEMMA OriginIn ==
    ASSUME NEW L, NEW F, NEW P, LettersOK(L, F, P), NEW k \in DOMAIN L \cup {Far}
    PROVE  Origin(L, k) \in DOMAIN L \cup {Far}
<1>1. CASE k = Far BY <1>1, Zenon DEF Origin
<1>2. CASE k \in DOMAIN L /\ k # Far
  <2>1. LetterOK(L, F, P, k) BY <1>2, Zenon DEF LettersOK
  <2>2. QED BY <1>2, <2>1, Zenon DEF LetterOK, Origin
<1>3. QED BY <1>1, <1>2, Zenon

\* What a mail program lists.
LEMMA ReferencesToHead ==
    ASSUME MaxLetter \in Nat, Post(letters), LettersOK(letters, filed, processed), NEW k \in DOMAIN letters \cup {Far}
    PROVE  /\ Threads!ReferencesTo(k) \in Seq(1 .. Far) /\ Threads!ReferencesTo(k) # <<>>
           /\ Head(Threads!ReferencesTo(k)) = Origin(letters, k)
<1>1. Far \in Nat /\ Far \in 1 .. Far /\ Threads!Elsewhere = Far BY DEF Far, Threads!Elsewhere
<1>2. PICK A : A = 1 .. Far BY Zenon
<1>3. Len(letters) \in 0 .. MaxLetter /\ DOMAIN letters = 1 .. Len(letters) BY PostFacts, Zenon
<1>4. k \in A /\ 0 \notin A /\ \A j \in DOMAIN letters : j # Far /\ j \in A BY <1>1, <1>2, <1>3 DEF Far
<1>5. CASE k = Far
  <2>1. Threads!ReferencesTo(k) = <<k>> BY <1>1, <1>5, Zenon DEF Threads!ReferencesTo
  <2>2. <<k>> \in Seq(A) /\ <<k>> # <<>> /\ Head(<<k>>) = k BY <1>4
  <2>3. QED BY <1>2, <1>5, <2>1, <2>2, Zenon DEF Origin
<1>6. CASE k \in DOMAIN letters /\ k # Far
  <2>1. PICK r \in Seq(A) : r = letters[k].refs BY <1>2, <1>6, PostFacts, Zenon
  <2>2. PICK p \in Int : p = letters[k].reply BY <1>6, PostFacts, Zenon
  <2>3. LetterOK(letters, filed, processed, k) BY <1>6, Zenon DEF LettersOK
  <2>4. p > 0 => p \in A BY <1>1, <1>2, <1>4, <2>2, <2>3, Zenon DEF LetterOK
  <2>5. PICK q : q = IF r = <<>> /\ p > 0 THEN <<p>> ELSE r BY Zenon
  <2>6. Threads!ReferencesTo(k) = Append(q, k) BY <1>1, <1>6, <2>1, <2>2, <2>5, Zenon DEF Threads!ReferencesTo
  <2>7. Origin(letters, k) = IF Fst(letters, k) # 0 THEN Fst(letters, k) ELSE IF p > 0 THEN p ELSE k
        BY <1>6, <2>2, Zenon DEF Origin
  <2>8. Fst(letters, k) = IF r = <<>> THEN 0 ELSE Head(r) BY <2>1, Zenon DEF Fst
  <2>9. CASE r = <<>> /\ p > 0
    <3>1. q = <<p>> /\ p \in A /\ Origin(letters, k) = p BY <2>4, <2>5, <2>7, <2>8, <2>9, Zenon
    <3>2. Append(<<p>>, k) \in Seq(A) /\ Append(<<p>>, k) # <<>> /\ Head(Append(<<p>>, k)) = p BY <3>1, <1>4
    <3>3. QED BY <3>1, <3>2, <2>6, <1>2, Zenon
  <2>10. CASE r = <<>> /\ ~(p > 0)
    <3>1. q = <<>> /\ Origin(letters, k) = k BY <2>5, <2>7, <2>8, <2>10, Zenon
    <3>2. Append(<<>>, k) \in Seq(A) /\ Append(<<>>, k) # <<>> /\ Head(Append(<<>>, k)) = k BY <1>4
    <3>3. QED BY <3>1, <3>2, <2>6, <1>2, Zenon
  <2>11. CASE r # <<>>
    <3>1. Head(r) \in A /\ Head(r) = r[1] /\ Len(r) \in Nat \ {0} BY <2>11, HeadType, Zenon
    <3>2. q = r /\ Origin(letters, k) = Head(r) BY <3>1, <1>4, <2>5, <2>7, <2>8, <2>11, Zenon
    <3>3. Append(r, k) \in Seq(A) /\ Append(r, k) # <<>> /\ Append(r, k)[1] = r[1] BY <3>1, <1>4
    <3>4. Head(Append(r, k)) = Append(r, k)[1] BY <3>3, HeadType, Zenon
    <3>5. QED BY <3>1, <3>2, <3>3, <3>4, <2>6, <1>2, Zenon
  <2>12. QED BY <2>9, <2>10, <2>11, Zenon
<1>7. QED BY <1>4, <1>5, <1>6, Zenon

\* What every step starts from, field by field.
LEMMA ThreadFacts ==
    ASSUME ThreadInv
    PROVE  /\ Post(letters) /\ threads \in Seq(Int) /\ Files(filed) /\ processed \subseteq DOMAIN letters
           /\ strayed \in BOOLEAN
           /\ LettersOK(letters, filed, processed) /\ FilesOK(letters, threads, filed) /\ ThreadsOK(letters, threads, filed)
           /\ strayed = FALSE => Joined(letters, threads, filed)
           /\ Enough(letters, threads, filed)
           /\ DOMAIN filed \subseteq DOMAIN letters
           /\ \A k \in DOMAIN letters : letters[k].rooted = TRUE => k \in DOMAIN filed
<1>1. \A k \in DOMAIN letters : letters[k].rooted = TRUE => k \in DOMAIN filed
  <2>1. SUFFICES ASSUME NEW k \in DOMAIN letters, letters[k].rooted = TRUE PROVE k \in DOMAIN filed OBVIOUS
  <2>2. LetterOK(letters, filed, processed, k) BY Zenon DEF ThreadInv, LettersOK
  <2>3. QED BY <2>1, <2>2, Zenon DEF LetterOK
<1>2. QED BY <1>1, Zenon DEF ThreadInv, ThreadTypes, FilesOK

\* A customer, or a program, writes.
LEMMA WriteStep ==
    ASSUME MaxLetter \in Nat, ThreadInv,
           NEW by \in {"customer", "program"}, NEW k, NEW lists \in BOOLEAN, NEW id \in BOOLEAN,
           k \in DOMAIN letters \cup {0, Far}, k = 0 => ~lists, Threads!Write(by, k, lists, id)
    PROVE  ThreadInv'
<1> USE LettersAssumption
<1>1. /\ Len(letters) < MaxLetter
      /\ k \in DOMAIN letters => letters[k].sent /\ letters[k].id > 0
      /\ UNCHANGED <<threads, filed, processed, strayed>>
      BY Zenon DEF Threads!Write, Threads!Written
<1>2. PICK n \in Int : n = Len(letters) + 1 /\ n > 0 /\ DOMAIN letters = 1 .. (n - 1) /\ n <= MaxLetter
  <2>1. PICK l \in 0 .. MaxLetter : l = Len(letters) /\ DOMAIN letters = 1 .. l BY PostFacts, ThreadFacts, Zenon
  <2>2. l < MaxLetter BY <1>1, <2>1, Zenon
  <2>3. l + 1 \in Int /\ l + 1 > 0 /\ (l + 1) - 1 = l /\ l + 1 <= MaxLetter BY <2>1, <2>2
  <2>4. QED BY <2>1, <2>3, Zenon
<1>3. PICK r : r = IF k # 0 /\ lists THEN Threads!ReferencesTo(k) ELSE <<>> BY Zenon
<1>4. PICK i : i = IF id THEN n ELSE -n BY Zenon
<1>5. PICK m : m = [by |-> by, id |-> i, answers |-> k, reply |-> k, sent |-> TRUE, rooted |-> FALSE, refs |-> r]
      BY Zenon
<1>6. letters' = Append(letters, m) BY <1>2, <1>3, <1>4, <1>5, Zenon DEF Threads!Write
<1>7. Far \in Nat /\ k \in 0 .. Far /\ k \in Int /\ (k # 0 => k \in DOMAIN letters \cup {Far})
  <2>1. \A j \in DOMAIN letters : j \in 0 .. Far /\ j \in Int BY <1>2 DEF Far
  <2>2. Far \in Nat /\ 0 \in 0 .. Far /\ Far \in 0 .. Far BY DEF Far
  <2>3. QED BY <2>1, <2>2
<1>8. i \in Int /\ i \in {n, -n} BY <1>2, <1>4
<1>9. r \in Seq(1 .. Far) /\ (r # <<>> => k # 0 /\ Head(r) = Origin(letters, k))
  <2>1. CASE k # 0 /\ lists
    <3>1. k \in DOMAIN letters \cup {Far} BY <1>7, <2>1, Zenon
    <3>2. QED BY <1>3, <2>1, <3>1, ReferencesToHead, ThreadFacts, Zenon
  <2>2. CASE ~(k # 0 /\ lists)
    <3>1. r = <<>> BY <1>3, <2>2, Zenon
    <3>2. <<>> \in Seq(1 .. Far) OBVIOUS
    <3>3. QED BY <3>1, <3>2, Zenon
  <2>3. QED BY <2>1, <2>2, Zenon
<1>10. m \in LetterSet
  <2>1. by \in {"customer", "program", "agent"} BY Zenon
  <2>2. QED BY <1>5, <1>7, <1>8, <1>9, <2>1, Zenon DEF LetterSet
<1>11. /\ m.by = by /\ m.id = i /\ m.answers = k /\ m.reply = k /\ m.sent = TRUE /\ m.rooted = FALSE /\ m.refs = r
      BY <1>5, Zenon
<1>12. /\ Post(letters') /\ n \in 1 .. MaxLetter
       /\ DOMAIN letters = 1 .. (n - 1) /\ DOMAIN letters' = 1 .. n
       /\ letters'[n] = m /\ \A j \in DOMAIN letters : letters'[j] = letters[j]
  <2>1. Post(letters) BY ThreadFacts, Zenon
  <2>2. Len(letters) < MaxLetter /\ n = Len(letters) + 1 BY <1>1, <1>2, Zenon
  <2>3. /\ Post(Append(letters, m)) /\ n \in 1 .. MaxLetter
        /\ DOMAIN letters = 1 .. (n - 1) /\ DOMAIN Append(letters, m) = 1 .. n
        /\ Append(letters, m)[n] = m /\ \A j \in DOMAIN letters : Append(letters, m)[j] = letters[j]
        BY ONLY <1>10, <2>1, <2>2, MaxLetter \in Nat, Appended
  <2>4. QED BY <1>6, <2>3, Zenon
<1>13. n \notin DOMAIN letters /\ n \notin DOMAIN filed
  <2>1. n \notin DOMAIN letters BY <1>2
  <2>2. QED BY <2>1, ThreadFacts, Zenon
<1>14. Grows(letters, letters', filed, filed, n)
  <2>1. DOMAIN filed \subseteq DOMAIN letters BY ThreadFacts, Zenon
  <2>2. QED BY <2>1, <1>11, <1>12, <1>13, Zenon DEF Grows
<1>15. /\ \A j \in DOMAIN letters \cup {Far} : Origin(letters', j) = Origin(letters, j)
       /\ n \in DOMAIN letters' /\ n # Far /\ \A j \in DOMAIN letters : j \in DOMAIN letters'
       BY <1>14, GrowsKeeps, Zenon
<1>16. Fst(letters', n) = IF r = <<>> THEN 0 ELSE Origin(letters, k) BY <1>9, <1>11, <1>12, Zenon DEF Fst
<1>17. r # <<>> => Origin(letters, k) \in DOMAIN letters \cup {Far} /\ Origin(letters', k) = Origin(letters, k)
  <2>1. r # <<>> => k \in DOMAIN letters \cup {Far} BY <1>7, <1>9, Zenon
  <2>2. LettersOK(letters, filed, processed) BY ThreadFacts, Zenon
  <2>3. QED BY <2>1, <2>2, <1>15, OriginIn, Zenon
<1>18. \A j \in DOMAIN letters : j < n /\ j \in 0 .. (n - 1) BY <1>2
<1>19. Mailed(letters', n)
  <2>1. k \in 0 .. (n - 1) \/ k = Far
    <3>1. 0 \in 0 .. (n - 1) BY <1>2
    <3>2. QED BY <3>1, <1>7, <1>18, Zenon
  <2>2. ASSUME k \in DOMAIN letters' PROVE letters'[k].sent = TRUE /\ letters'[k].id > 0
    <3>1. k \in DOMAIN letters
      <4>1. k # 0 /\ k # Far BY <1>12, <2>2 DEF Far
      <4>2. QED BY <4>1, Zenon
    <3>2. letters[k].sent \in BOOLEAN BY <3>1, ThreadFacts, PostFacts, Zenon
    <3>3. QED BY <1>1, <1>12, <3>1, <3>2, Zenon
  <2>3. Fst(letters', n) = 0 \/ (k # 0 /\ Fst(letters', n) = Origin(letters', k)) BY <1>9, <1>16, <1>17, Zenon
  <2>4. Fst(letters', n) < n \/ Fst(letters', n) = Far
    <3>1. 0 < n BY <1>2
    <3>2. QED BY <3>1, <1>16, <1>17, <1>18, Zenon
  <2>5. QED BY <1>11, <1>12, <2>1, <2>2, <2>3, <2>4, Zenon DEF Mailed
<1>20. LetterOK(letters', filed, processed, n)
  <2>1. by # "agent" OBVIOUS
  <2>2. Fst(letters', n) \in DOMAIN letters' \cup {0, Far} BY <1>15, <1>16, <1>17, Zenon
  <2>3. k > 0 => k \in DOMAIN letters' \cup {Far}
    <3>1. k = 0 => ~(k > 0) OBVIOUS
    <3>2. QED BY <3>1, <1>7, <1>15, Zenon
  <2>4. QED BY <2>1, <2>2, <2>3, <1>8, <1>11, <1>12, <1>13, <1>19, Zenon DEF LetterOK
<1>21. LettersOK(letters', filed, processed)
  <2>1. LettersOK(letters, filed, processed) BY ThreadFacts, Zenon
  <2>2. QED BY <2>1, <1>14, <1>20, GrowsLetters, Zenon
<1>22. FilesOK(letters', threads, filed) /\ ThreadsOK(letters', threads, filed)
  <2>1. /\ FilesOK(letters, threads, filed) /\ ThreadsOK(letters, threads, filed)
        /\ \A j \in DOMAIN letters : letters[j].rooted = TRUE => j \in DOMAIN filed
        BY ThreadFacts, Zenon
  <2>2. QED BY <2>1, <1>13, <1>14, GrowsThreads, Zenon
<1>23. /\ strayed = FALSE => Joined(letters', threads, filed)
       /\ Enough(letters', threads, filed)
  <2>1. /\ LettersOK(letters, filed, processed) /\ FilesOK(letters, threads, filed)
        /\ (strayed = FALSE => Joined(letters, threads, filed)) /\ Enough(letters, threads, filed)
        BY ThreadFacts, Zenon
  <2>2. QED BY <2>1, <1>14, GrowsJoined, Zenon
<1>24. /\ threads' = threads /\ filed' = filed /\ processed' = processed /\ strayed' = strayed BY <1>1, Zenon
<1>25. threads \in Seq(Int) /\ Files(filed) /\ processed \subseteq DOMAIN letters' /\ strayed \in BOOLEAN
       BY <1>15, ThreadFacts, Zenon
<1>26. QED BY <1>12, <1>21, <1>22, <1>23, <1>24, <1>25, Zenon DEF ThreadInv, ThreadTypes

\* An agent replies.
LEMMA ReplyStep ==
    ASSUME MaxLetter \in Nat, ThreadInv, NEW c \in DOMAIN threads, Threads!ReplyIn(c)
    PROVE  ThreadInv'
<1>1. /\ Len(letters) < MaxLetter /\ UNCHANGED <<threads, processed, strayed>> BY Zenon DEF Threads!ReplyIn
<1>2. PICK n \in Int : n = Len(letters) + 1 /\ n > 0 /\ DOMAIN letters = 1 .. (n - 1) /\ n <= MaxLetter
  <2>1. PICK l \in 0 .. MaxLetter : l = Len(letters) /\ DOMAIN letters = 1 .. l BY PostFacts, ThreadFacts, Zenon
  <2>2. l < MaxLetter BY <1>1, <2>1, Zenon
  <2>3. l + 1 \in Int /\ l + 1 > 0 /\ (l + 1) - 1 = l /\ l + 1 <= MaxLetter BY <2>1, <2>2
  <2>4. QED BY <2>1, <2>3, Zenon
<1>3. PICK m : m = [by |-> "agent", id |-> n, answers |-> 0, reply |-> 0, sent |-> FALSE, rooted |-> FALSE, refs |-> <<>>]
      BY Zenon
<1>4. /\ letters' = Append(letters, m)
      /\ filed' = [j \in DOMAIN filed \cup {n} |-> IF j = n THEN [conv |-> c, id |-> 0] ELSE filed[j]]
      BY <1>2, <1>3, Zenon DEF Threads!ReplyIn, Threads!Filed
<1>5. m \in LetterSet
  <2>1. 0 \in 0 .. Far /\ <<>> \in Seq(1 .. Far) /\ 0 \in Int BY DEF Far
  <2>2. QED BY <1>2, <1>3, <2>1, Zenon DEF LetterSet
<1>6. m.by = "agent" /\ m.id = n /\ m.answers = 0 /\ m.reply = 0 /\ m.sent = FALSE /\ m.rooted = FALSE /\ m.refs = <<>>
      BY <1>3, Zenon
<1>7. /\ Post(letters') /\ n \in 1 .. MaxLetter
      /\ DOMAIN letters = 1 .. (n - 1) /\ DOMAIN letters' = 1 .. n
      /\ letters'[n] = m /\ \A j \in DOMAIN letters : letters'[j] = letters[j]
  <2>1. Post(letters) BY ThreadFacts, Zenon
  <2>2. Len(letters) < MaxLetter /\ n = Len(letters) + 1 BY <1>1, <1>2, Zenon
  <2>3. /\ Post(Append(letters, m)) /\ n \in 1 .. MaxLetter
        /\ DOMAIN letters = 1 .. (n - 1) /\ DOMAIN Append(letters, m) = 1 .. n
        /\ Append(letters, m)[n] = m /\ \A j \in DOMAIN letters : Append(letters, m)[j] = letters[j]
        BY ONLY <1>5, <2>1, <2>2, MaxLetter \in Nat, Appended
  <2>4. QED BY <1>4, <2>3, Zenon
<1>8. n \notin DOMAIN letters /\ n \notin DOMAIN filed
  <2>1. n \notin DOMAIN letters BY <1>2
  <2>2. QED BY <2>1, ThreadFacts, Zenon
<1>9. PICK f : f = [conv |-> c, id |-> 0] BY Zenon
<1>10. f.conv = c /\ f.id = 0 BY <1>9, Zenon
<1>11. /\ DOMAIN filed' = DOMAIN filed \cup {n} /\ filed'[n] = f
       /\ \A j \in DOMAIN filed : filed'[j] = filed[j]
       BY <1>4, <1>8, <1>9, Zenon
<1>12. Files(filed')
  <2>1. c \in Nat
    <3>1. threads \in Seq(Int) BY ThreadFacts, Zenon
    <3>2. QED BY <3>1
  <2>2. 0 \in Int OBVIOUS
  <2>3. f \in [conv : Nat, id : Int] BY <1>9, <2>1, <2>2, Zenon
  <2>4. \A j \in DOMAIN filed : filed[j] \in [conv : Nat, id : Int] BY ThreadFacts, Zenon DEF Files
  <2>5. \A j \in DOMAIN filed \cup {n} : (IF j = n THEN f ELSE filed[j]) \in [conv : Nat, id : Int] BY <2>3, <2>4, Zenon
  <2>6. filed' \in [DOMAIN filed \cup {n} -> [conv : Nat, id : Int]] BY <1>4, <1>9, <2>5, Zenon
  <2>7. QED BY <1>11, <2>6, Zenon DEF Files
<1>13. Grows(letters, letters', filed, filed', n)
  <2>1. DOMAIN filed \subseteq DOMAIN letters BY ThreadFacts, Zenon
  <2>2. QED BY <2>1, <1>6, <1>7, <1>8, <1>11, Zenon DEF Grows
<1>14. n \in DOMAIN letters' /\ \A j \in DOMAIN letters : j \in DOMAIN letters' BY <1>13, GrowsKeeps, Zenon
<1>15. LetterOK(letters', filed', processed, n)
  <2>1. Fst(letters', n) = 0 BY <1>6, <1>7, Zenon DEF Fst
  <2>2. ~(0 > 0) OBVIOUS
  <2>3. QED BY <2>1, <2>2, <1>6, <1>7, <1>11, Zenon DEF LetterOK
<1>16. LettersOK(letters', filed', processed)
  <2>1. LettersOK(letters, filed, processed) BY ThreadFacts, Zenon
  <2>2. QED BY <2>1, <1>13, <1>15, GrowsLetters, Zenon
<1>17. FilesOK(letters', threads, filed') /\ ThreadsOK(letters', threads, filed')
  <2>1. /\ FilesOK(letters, threads, filed) /\ ThreadsOK(letters, threads, filed)
        /\ \A j \in DOMAIN letters : letters[j].rooted = TRUE => j \in DOMAIN filed
        BY ThreadFacts, Zenon
  <2>2. filed'[n].conv \in DOMAIN threads /\ filed'[n].id \in {0, n, -n} BY <1>10, <1>11, Zenon
  <2>3. QED BY <2>1, <2>2, <1>13, GrowsThreads, Zenon
<1>18. /\ strayed = FALSE => Joined(letters', threads, filed')
       /\ Enough(letters', threads, filed')
  <2>1. /\ LettersOK(letters, filed, processed) /\ FilesOK(letters, threads, filed)
        /\ (strayed = FALSE => Joined(letters, threads, filed)) /\ Enough(letters, threads, filed)
        BY ThreadFacts, Zenon
  <2>2. QED BY <2>1, <1>13, GrowsJoined, Zenon
<1>19. /\ threads' = threads /\ processed' = processed /\ strayed' = strayed BY <1>1, Zenon
<1>20. threads \in Seq(Int) /\ processed \subseteq DOMAIN letters' /\ strayed \in BOOLEAN BY <1>14, ThreadFacts, Zenon
<1>21. QED BY <1>7, <1>12, <1>16, <1>17, <1>18, <1>19, <1>20, Zenon DEF ThreadInv, ThreadTypes

\* Recording a reply leaves it where it is.
LEMMA MarkStep ==
    ASSUME MaxLetter \in Nat, ThreadInv, NEW k, Threads!MarkSent(k)
    PROVE  ThreadInv'
<1>1. /\ k \in DOMAIN filed /\ filed' = [filed EXCEPT ![k].id = k]
      /\ letters' = letters /\ threads' = threads /\ processed' = processed /\ strayed' = strayed
      BY Zenon DEF Threads!MarkSent, Threads!Filed
<1>2. PICK g : g = [filed[k] EXCEPT !.id = k] BY Zenon
<1>3. filed' = [filed EXCEPT ![k] = g] BY <1>1, <1>2
<1>4. \A j \in DOMAIN filed : filed[j] \in [conv : Nat, id : Int] BY ThreadFacts, Zenon DEF Files
<1>5. k \in Int
  <2>1. k \in DOMAIN letters BY <1>1, ThreadFacts, Zenon
  <2>2. DOMAIN letters = 1 .. Len(letters) BY ThreadFacts, PostFacts, Zenon
  <2>3. QED BY <2>1, <2>2
<1>6. g \in [conv : Nat, id : Int] /\ g.id = k /\ g.conv = filed[k].conv BY <1>1, <1>2, <1>4, <1>5
<1>7. filed = [j \in DOMAIN filed |-> filed[j]] BY ThreadFacts, Zenon DEF Files
<1>8. /\ DOMAIN filed' = DOMAIN filed /\ filed'[k] = g
      /\ \A j \in DOMAIN filed : filed'[j] = IF j = k THEN g ELSE filed[j]
      BY <1>1, <1>3, <1>7, Zenon
<1>9. \A j \in DOMAIN filed : filed'[j].conv = filed[j].conv BY <1>6, <1>8, Zenon
<1>10. Files(filed')
  <2>1. \A j \in DOMAIN filed : filed'[j] \in [conv : Nat, id : Int] BY <1>4, <1>6, <1>8, Zenon
  <2>2. filed' \in [DOMAIN filed -> [conv : Nat, id : Int]] BY <1>3, <1>4, <1>6, <1>7
  <2>3. QED BY <1>8, <2>2, Zenon DEF Files
<1>11. FilesOK(letters, threads, filed')
  <2>1. FilesOK(letters, threads, filed) BY ThreadFacts, Zenon
  <2>2. QED BY <2>1, <1>6, <1>8, <1>9, Zenon DEF FilesOK
<1>12. LettersOK(letters, filed', processed)
  <2>1. LettersOK(letters, filed, processed) BY ThreadFacts, Zenon
  <2>2. QED BY <2>1, <1>8, Zenon DEF LettersOK, LetterOK
<1>13. ThreadsOK(letters, threads, filed')
  <2>1. ThreadsOK(letters, threads, filed) BY ThreadFacts, Zenon
  <2>2. \A j \in DOMAIN letters : letters[j].rooted = TRUE => j \in DOMAIN filed BY ThreadFacts, Zenon
  <2>3. \A j \in DOMAIN letters : letters[j].rooted = TRUE => Fst(letters, j) # 0 /\ Fst(letters, j) = threads[filed'[j].conv]
        BY <2>1, <2>2, <1>9, Zenon DEF ThreadsOK
  <2>4. \A d \in DOMAIN threads : threads[d] \in 1 .. MaxLetter =>
          threads[d] \in DOMAIN letters /\ \A j \in DOMAIN filed' : filed'[j].conv = d => threads[d] <= j
        BY <2>1, <1>8, <1>9, Zenon DEF ThreadsOK
  <2>5. QED BY <2>1, <2>3, <2>4, Zenon DEF ThreadsOK
<1>14. ASSUME strayed = FALSE PROVE Joined(letters, threads, filed')
  <2>1. Joined(letters, threads, filed) BY <1>14, ThreadFacts, Zenon
  <2>2. \A d \in DOMAIN threads : threads[d] \in 1 .. MaxLetter => threads[d] \in DOMAIN filed' /\ filed'[threads[d]].conv = d
        BY <2>1, <1>8, <1>9, Zenon DEF Joined
  <2>3. ASSUME NEW j \in DOMAIN filed, letters[j].sent = TRUE, letters[j].id > 0 PROVE Rooted(letters, threads, filed', j)
    <3>1. Rooted(letters, threads, filed, j) BY <2>1, <2>3, Zenon DEF Joined
    <3>2. QED BY <3>1, <1>8, <1>9, Zenon DEF Rooted
  <2>4. \A j \in DOMAIN filed : letters[j].by = "customer" /\ letters[j].answers \in DOMAIN letters
                              => letters[j].answers \in DOMAIN filed' /\ filed'[j].conv = filed'[letters[j].answers].conv
        BY <2>1, <1>8, <1>9, Zenon DEF Joined
  <2>5. QED BY <2>2, <2>3, <2>4, <1>8, Zenon DEF Joined
<1>15. Enough(letters, threads, filed')
  <2>1. Enough(letters, threads, filed) BY ThreadFacts, Zenon
  <2>2. \A j \in DOMAIN letters : letters[j].rooted = TRUE => j \in DOMAIN filed BY ThreadFacts, Zenon
  <2>3. QED BY <2>1, <2>2, <1>8, <1>9, Zenon DEF Enough
<1>16. Post(letters) /\ threads \in Seq(Int) /\ processed \subseteq DOMAIN letters /\ strayed \in BOOLEAN
       BY ThreadFacts, Zenon
<1>17. QED BY <1>1, <1>10, <1>11, <1>12, <1>13, <1>14, <1>15, <1>16, Zenon DEF ThreadInv, ThreadTypes

\* A reply leaves: it lists letters S of its conversation, and the thread first when it is rooted.
Leaves(L, M, T, F, S, k) ==
    /\ DOMAIN M = DOMAIN L /\ k \in DOMAIN F /\ L[k].sent = FALSE
    /\ \A j \in DOMAIN L : j # k => M[j] = L[j]
    /\ M[k].by = L[k].by /\ M[k].id = L[k].id /\ M[k].answers = L[k].answers /\ M[k].sent = TRUE
    /\ \A j \in S : j \in DOMAIN F /\ F[j].conv = F[k].conv
    /\ Fst(M, k) # 0 => Fst(M, k) \in S
    /\ M[k].reply > 0 => M[k].reply \in S /\ Fst(M, k) # 0
    /\ M[k].rooted = TRUE => Fst(M, k) # 0 /\ Fst(M, k) = T[F[k].conv]

\* Nobody has answered it yet, so no other letter lists anything else than before.
LEMMA LeavesKeeps ==
    ASSUME NEW L, NEW M, NEW T, NEW F, NEW P, NEW S, NEW k, MaxLetter \in Nat, Leaves(L, M, T, F, S, k),
           LettersOK(L, F, P), FilesOK(L, T, F), NEW N \in Nat, DOMAIN L = 1 .. N, Far \notin DOMAIN L
    PROVE  /\ k \in DOMAIN L /\ L[k].by = "agent"
           /\ \A j \in DOMAIN L : j # k => M[j] = L[j] /\ Fst(M, j) = Fst(L, j) /\ Origin(M, j) = Origin(L, j)
           /\ Origin(M, Far) = Origin(L, Far)
           /\ \A j \in DOMAIN L : L[j].by # "agent" => j # k /\ M[j] = L[j] /\ L[j].answers # k /\ Mailed(M, j)
<1>1. k \in DOMAIN F /\ k \in DOMAIN L /\ L[k].sent = FALSE BY Zenon DEF Leaves, FilesOK
<1>2. L[k].by = "agent" BY <1>1, Zenon DEF LettersOK, LetterOK, Mailed
<1>3. ASSUME NEW j \in DOMAIN L, j # k PROVE M[j] = L[j] /\ Fst(M, j) = Fst(L, j) /\ Origin(M, j) = Origin(L, j)
  <2>1. M[j] = L[j] BY <1>3, Zenon DEF Leaves
  <2>2. QED BY <2>1, Zenon DEF Fst, Origin
<1>4. Origin(M, Far) = Origin(L, Far) BY Zenon DEF Origin
<1>5. ASSUME NEW j \in DOMAIN L, L[j].by # "agent" PROVE j # k /\ M[j] = L[j] /\ L[j].answers # k /\ Mailed(M, j)
  <2>1. j # k BY <1>2, <1>5, Zenon
  <2>2. M[j] = L[j] /\ Fst(M, j) = Fst(L, j) BY <1>3, <2>1, Zenon
  <2>3. Mailed(L, j) BY <1>5, Zenon DEF LettersOK, LetterOK
  <2>4. PICK a : a = L[j].answers BY Zenon
  <2>5. a \in DOMAIN L => a # k BY <1>1, <2>3, <2>4, Zenon DEF Mailed
  <2>6. a # k BY <1>1, <2>5, Zenon
  <2>7. Fst(L, j) # 0 => a \in DOMAIN L \cup {Far}
    <3>1. Fst(L, j) # 0 => a # 0 /\ Fst(L, j) = Origin(L, a) BY <2>3, <2>4, Zenon DEF Mailed
    <3>2. a \in 0 .. (j - 1) \/ a = Far BY <2>3, <2>4, Zenon DEF Mailed
    <3>3. ASSUME a \in 0 .. (j - 1), a # 0 PROVE a \in DOMAIN L
      <4>1. j \in 1 .. N BY Zenon
      <4>2. a \in 1 .. N BY <3>3, <4>1
      <4>3. QED BY <4>2, Zenon
    <3>4. QED BY <3>1, <3>2, <3>3, Zenon
  <2>8. Fst(L, j) # 0 => Origin(M, a) = Origin(L, a) BY <1>3, <1>4, <2>6, <2>7, Zenon
  <2>9. a \in DOMAIN L => M[a] = L[a] BY <1>3, <2>6, Zenon
  <2>10. M[j].answers = a BY <2>2, <2>4, Zenon
  <2>11. DOMAIN M = DOMAIN L BY Zenon DEF Leaves
  <2>12. /\ L[j].sent = TRUE /\ L[j].reply = a
         /\ a \in 0 .. (j - 1) \/ a = Far
         /\ a \in DOMAIN L => L[a].sent = TRUE /\ L[a].id > 0
         /\ Fst(L, j) = 0 \/ (a # 0 /\ Fst(L, j) = Origin(L, a))
         /\ Fst(L, j) < j \/ Fst(L, j) = Far
         BY <2>3, <2>4, Zenon DEF Mailed
  <2>13. Mailed(M, j) BY <2>2, <2>8, <2>9, <2>10, <2>11, <2>12, Zenon DEF Mailed
  <2>14. QED BY <2>1, <2>2, <2>4, <2>6, <2>13, Zenon
<1>6. QED BY <1>1, <1>2, <1>3, <1>4, <1>5, Zenon

\* A reply that leaves spoils nothing.
LEMMA LeavesInvs ==
    ASSUME NEW L, NEW M, NEW T, NEW F, NEW P, NEW S, NEW k, MaxLetter \in Nat, Leaves(L, M, T, F, S, k),
           LettersOK(L, F, P), FilesOK(L, T, F), NEW N \in Nat, DOMAIN L = 1 .. N, Far \notin DOMAIN L, ThreadsOK(L, T, F)
    PROVE  /\ LettersOK(M, F, P) /\ FilesOK(M, T, F) /\ ThreadsOK(M, T, F)
           /\ Joined(L, T, F) => Joined(M, T, F)
           /\ Enough(L, T, F) => Enough(M, T, F)
<1>1. /\ k \in DOMAIN L /\ L[k].by = "agent"
      /\ \A j \in DOMAIN L : j # k => M[j] = L[j] /\ Fst(M, j) = Fst(L, j) /\ Origin(M, j) = Origin(L, j)
      /\ \A j \in DOMAIN L : L[j].by # "agent" => j # k /\ M[j] = L[j] /\ L[j].answers # k /\ Mailed(M, j)
      BY LeavesKeeps
<1>2. /\ DOMAIN M = DOMAIN L /\ k \in DOMAIN F /\ L[k].sent = FALSE
      /\ M[k].by = L[k].by /\ M[k].id = L[k].id /\ M[k].answers = L[k].answers /\ M[k].sent = TRUE
      /\ \A j \in S : j \in DOMAIN F /\ F[j].conv = F[k].conv
      /\ Fst(M, k) # 0 => Fst(M, k) \in S
      /\ M[k].reply > 0 => M[k].reply \in S /\ Fst(M, k) # 0
      /\ M[k].rooted = TRUE => Fst(M, k) # 0 /\ Fst(M, k) = T[F[k].conv]
      BY Zenon DEF Leaves
<1>3. DOMAIN F \subseteq DOMAIN L BY Zenon DEF FilesOK
<1>4. LettersOK(M, F, P)
  <2>1. ASSUME NEW j \in DOMAIN L PROVE LetterOK(M, F, P, j)
    <3>1. LetterOK(L, F, P, j) BY Zenon DEF LettersOK
    <3>2. CASE j # k
      <4>1. M[j] = L[j] /\ Fst(M, j) = Fst(L, j) BY <1>1, <3>2, Zenon
      <4>2. L[j].by # "agent" => Mailed(M, j) BY <1>1, Zenon
      <4>3. QED BY <3>1, <4>1, <4>2, <1>2, Zenon DEF LetterOK
    <3>3. CASE j = k
      <4>1. S \subseteq DOMAIN M BY <1>2, <1>3, Zenon
      <4>2. QED BY <3>1, <3>3, <4>1, <1>1, <1>2, Zenon DEF LetterOK
    <3>4. QED BY <3>2, <3>3, Zenon
  <2>2. QED BY <2>1, <1>2, Zenon DEF LettersOK
<1>5. FilesOK(M, T, F) BY <1>2, Zenon DEF FilesOK
<1>6. ThreadsOK(M, T, F)
  <2>1. ASSUME NEW j \in DOMAIN L, M[j].rooted = TRUE PROVE Fst(M, j) # 0 /\ Fst(M, j) = T[F[j].conv]
    <3>1. CASE j = k BY <3>1, <2>1, <1>2, Zenon
    <3>2. CASE j # k
      <4>1. M[j] = L[j] /\ Fst(M, j) = Fst(L, j) BY <3>2, <1>1, Zenon
      <4>2. QED BY <4>1, <2>1, Zenon DEF ThreadsOK
    <3>3. QED BY <3>1, <3>2, Zenon
  <2>2. QED BY <2>1, <1>2, Zenon DEF ThreadsOK
<1>7. ASSUME Joined(L, T, F) PROVE Joined(M, T, F)
  <2>1. ASSUME NEW j \in DOMAIN F, M[j].sent = TRUE, M[j].id > 0 PROVE Rooted(M, T, F, j)
    <3>1. CASE j # k
      <4>1. M[j] = L[j] /\ Origin(M, j) = Origin(L, j) BY <1>1, <1>3, <3>1, Zenon
      <4>2. Rooted(L, T, F, j) BY <4>1, <2>1, <1>7, Zenon DEF Joined
      <4>3. QED BY <4>1, <4>2, Zenon DEF Rooted
    <3>2. CASE j = k
      <4>1. k # Far BY <1>1, Zenon
      <4>2. Origin(M, k) \in S \/ Origin(M, k) = k BY <4>1, <1>2, Zenon DEF Origin
      <4>3. QED BY <3>2, <4>2, <1>2, Zenon DEF Rooted
    <3>3. QED BY <3>1, <3>2, Zenon
  <2>2. ASSUME NEW j \in DOMAIN F, M[j].by = "customer", M[j].answers \in DOMAIN M
        PROVE  M[j].answers \in DOMAIN F /\ F[j].conv = F[M[j].answers].conv
    <3>1. L[j].by # "agent"
      <4>1. "customer" # "agent" OBVIOUS
      <4>2. QED BY <4>1, <2>2, <1>1, <1>2, <1>3, Zenon
    <3>2. M[j] = L[j] BY <3>1, <1>1, <1>3, Zenon
    <3>3. QED BY <3>2, <2>2, <1>2, <1>7, Zenon DEF Joined
  <2>3. QED BY <2>1, <2>2, <1>7, Zenon DEF Joined
<1>8. ASSUME Enough(L, T, F),
             NEW j \in DOMAIN F, M[j].by = "customer", M[j].answers \in DOMAIN M, Fst(M, j) # 0,
             M[M[j].answers].rooted = TRUE
      PROVE  F[j].conv = F[M[j].answers].conv
  <2>1. L[j].by # "agent"
    <3>1. "customer" # "agent" OBVIOUS
    <3>2. QED BY <3>1, <1>8, <1>1, <1>2, <1>3, Zenon
  <2>2. M[j] = L[j] /\ L[j].answers # k /\ Fst(M, j) = Fst(L, j) BY <2>1, <1>1, <1>3, Zenon
  <2>3. M[L[j].answers] = L[L[j].answers] BY <2>2, <1>1, <1>2, <1>8, Zenon
  <2>4. QED BY <2>2, <2>3, <1>2, <1>8, Zenon DEF Enough
<1>9. QED BY <1>4, <1>5, <1>6, <1>7, <1>8, Zenon DEF Enough

\* A sequence of some things is one of more things.
LEMMA SeqGrows == ASSUME NEW S, NEW A, S \subseteq A, NEW s \in Seq(S) PROVE s \in Seq(A)
<1>1. PICK n \in Nat : n = Len(s) OBVIOUS
<1>2. s \in [1 .. n -> S] BY <1>1
<1>3. s \in [1 .. n -> A] BY <1>2, Zenon
<1>4. QED BY <1>1, <1>3

LatestOf(F, X) == IF X = {} THEN 0 ELSE F[CHOOSE j \in X : \A i \in X : i <= j].id

\* A reply is sent.
LEMMA SendStep ==
    ASSUME MaxLetter \in Nat, MAX_EMAIL_REFERENCES \in Nat, ThreadInv, NEW k, Threads!Send(k)
    PROVE  ThreadInv'
<1>1. k \in DOMAIN filed /\ ~letters[k].sent /\ UNCHANGED <<threads, filed, processed, strayed>>
      BY Zenon DEF Threads!Send, Threads!Filed
<1>2. PICK N \in 0 .. MaxLetter : N = Len(letters) /\ DOMAIN letters = 1 .. N BY ThreadFacts, PostFacts, Zenon
<1>3. /\ FilesOK(letters, threads, filed) /\ LettersOK(letters, filed, processed) /\ ThreadsOK(letters, threads, filed)
      /\ Post(letters) /\ DOMAIN filed \subseteq DOMAIN letters
      BY ThreadFacts, Zenon
<1>4. k \in DOMAIN letters /\ letters[k].sent = FALSE /\ letters[k] \in LetterSet
  <2>1. k \in DOMAIN letters BY <1>1, <1>3, Zenon
  <2>2. letters[k].sent \in BOOLEAN /\ letters[k] \in LetterSet BY <2>1, <1>3, PostFacts, Zenon
  <2>3. QED BY <2>1, <2>2, <1>1, Zenon
<1>5. Far \in Nat /\ Far \notin DOMAIN letters /\ N \in Nat BY <1>2 DEF Far
<1>6. PICK c : c = filed[k].conv BY Zenon
<1>7. PICK O : O = {j \in DOMAIN filed : filed[j].conv = c} BY Zenon
<1>8. O = Threads!Of(c) BY <1>7, Zenon DEF Threads!Of, Threads!Filed
<1>9. PICK S : S = {j \in O : filed[j].id > 0} BY Zenon
<1>10. \A j \in O : j \in DOMAIN filed /\ filed[j].conv = c /\ j \in 1 .. N BY <1>2, <1>3, <1>7, Zenon
<1>11. S \in SUBSET Nat /\ IsFiniteSet(S) /\ \A j \in S : j \in 1 .. Far /\ j \in O
  <2>1. \A j \in S : j \in 1 .. N /\ j \in O BY <1>9, <1>10, Zenon
  <2>2. \A j \in 1 .. N : j \in Nat /\ j \in 1 .. Far BY <1>2 DEF Far
  <2>3. S \subseteq DOMAIN letters BY <2>1, <1>2, Zenon
  <2>4. IsFiniteSet(DOMAIN letters) BY <1>3, PostFacts, Zenon
  <2>5. QED BY <2>1, <2>2, <2>3, <2>4, FS_Subset, Zenon
<1>12. Threads!Timeline(c) = Sorted(S)
  <2>1. {j \in Threads!Of(c) : filed[j].id > 0} = S BY <1>8, <1>9, Zenon
  <2>2. Threads!Timeline(c) = Sorted({j \in Threads!Of(c) : filed[j].id > 0})
        BY Zenon DEF Threads!Timeline, Sorted, Threads!Cardinality, Cardinality
  <2>3. QED BY <2>1, <2>2, Zenon
<1>13. PICK r : r = Threads!References(Threads!Timeline(c)) BY Zenon
<1>14. r \in Seq(1 .. Far) /\ (r # <<>> => Head(r) \in S /\ \A j \in S : Head(r) <= j) /\ (S # {} => r # <<>>)
  <2>1. PICK s : s = Sorted(S) BY Zenon
  <2>2. /\ s \in Seq(S) /\ (S = {} => s = <<>>)
        /\ S # {} => s # <<>> /\ Head(s) \in S /\ \A j \in S : Head(s) <= j
        BY <1>11, <2>1, SortedHead, Zenon
  <2>3. \A j \in S : j \in 1 .. Far BY <1>11, Zenon
  <2>4. PICK A : A = 1 .. Far BY Zenon
  <2>9. S \subseteq A BY <2>3, <2>4, Zenon
  <2>5. s \in Seq(A) BY <2>2, <2>9, SeqGrows, Zenon
  <2>6. r = Threads!References(s) BY <2>1, <1>12, <1>13, Zenon
  <2>7. r \in Seq(A) /\ (s = <<>> => r = <<>>) /\ (s # <<>> => r # <<>> /\ Head(r) = Head(s))
        BY ONLY <2>5, <2>6, MAX_EMAIL_REFERENCES \in Nat, ReferencesHead
  <2>8. QED BY <2>2, <2>4, <2>7, Zenon
<1>15. PICK I : I = {j \in O : letters[j].by = "customer"} BY Zenon
<1>16. PICK p : p = LatestOf(filed, I) BY Zenon
<1>17. p \in Int /\ (p > 0 => p \in S)
  <2>1. CASE I = {}
    <3>1. p = 0 BY <1>16, <2>1, Zenon DEF LatestOf
    <3>2. QED BY <3>1
  <2>2. CASE I # {}
    <3>1. I \subseteq 0 .. N
      <4>1. \A j \in I : j \in 1 .. N BY <1>10, <1>15, Zenon
      <4>2. QED BY <4>1, <1>5
    <3>2. \E j \in I : \A i \in I : i <= j BY <1>5, <2>2, <3>1, LargestBelow, Zenon
    <3>3. PICK j \in I : p = filed[j].id BY <1>16, <2>2, <3>2, Zenon DEF LatestOf
    <3>4. j \in O /\ j \in DOMAIN filed /\ j \in 1 .. N BY <1>10, <1>15, Zenon
    <3>5. p \in {0, j, -j} BY <3>3, <3>4, <1>3, Zenon DEF FilesOK
    <3>6. p \in Int /\ (p > 0 => p = j) BY <3>4, <3>5, <1>5
    <3>7. p > 0 => j \in S BY <3>3, <3>4, <1>9, Zenon
    <3>8. QED BY <3>6, <3>7, Zenon
  <2>3. QED BY <2>1, <2>2, Zenon
<1>18. PICK R \in BOOLEAN : R = Threads!StartKnown(c)
  <2>1. Threads!StartKnown(c) \in BOOLEAN BY Zenon DEF Threads!StartKnown
  <2>2. QED BY <2>1, Zenon
<1>19. R = TRUE => r # <<>> /\ Head(r) = threads[c]
  <2>1. SUFFICES ASSUME R = TRUE PROVE r # <<>> /\ Head(r) = threads[c] OBVIOUS
  <2>2. PICK j \in O : filed[j].id = threads[c] /\ threads[c] > 0 BY <1>8, <1>18, <2>1, Zenon DEF Threads!StartKnown
  <2>3. j \in DOMAIN filed /\ j \in 1 .. N /\ filed[j].conv = c BY <1>10, Zenon
  <2>4. filed[j].id \in {0, j, -j} /\ c \in DOMAIN threads BY <2>3, <1>3, Zenon DEF FilesOK
  <2>5. PICK t : t = threads[c] BY Zenon
  <2>6. t = j /\ t \in 1 .. MaxLetter
    <3>1. t \in {0, j, -j} /\ t > 0 BY <2>2, <2>4, <2>5, Zenon
    <3>2. j \in Int /\ j >= 1 /\ j <= MaxLetter BY <2>3, <1>2
    <3>3. QED BY <3>1, <3>2
  <2>7. j \in S
    <3>1. filed[j].id > 0 BY <2>2, Zenon
    <3>2. QED BY <3>1, <1>9, Zenon
  <2>8. r # <<>> /\ Head(r) \in S /\ Head(r) <= j BY <2>7, <1>14, Zenon
  <2>9. threads[c] <= Head(r)
    <3>1. Head(r) \in DOMAIN filed /\ filed[Head(r)].conv = c BY <2>8, <1>10, <1>11, Zenon
    <3>2. threads[c] \in 1 .. MaxLetter BY <2>5, <2>6, Zenon
    <3>3. QED BY <3>1, <3>2, <2>4, <1>3, Zenon DEF ThreadsOK
  <2>10. PICK h \in Nat : h = Head(r) BY <2>8, <1>11, Zenon
  <2>11. t \in Int BY <2>6
  <2>14. h <= t /\ t <= h BY <2>5, <2>6, <2>8, <2>9, <2>10, Zenon
  <2>12. h = t BY <2>10, <2>11, <2>14
  <2>13. QED BY <2>5, <2>8, <2>10, <2>12, Zenon
<1>20. PICK old : old = letters[k] BY Zenon
<1>21. p = Threads!LatestIn(c)
  <2>1. {j \in Threads!Of(c) : letters[j].by = "customer"} = I BY <1>8, <1>15, Zenon
  <2>2. Threads!LatestIn(c) = LatestOf(filed, {j \in Threads!Of(c) : letters[j].by = "customer"})
        BY Zenon DEF Threads!LatestIn, LatestOf
  <2>3. QED BY <2>1, <2>2, <1>16, Zenon
<1>22. PICK m : m = [old EXCEPT !.sent = TRUE, !.refs = r, !.reply = p, !.rooted = R] BY Zenon
<1>23. letters' = [letters EXCEPT ![k] = m]
       BY <1>6, <1>13, <1>18, <1>20, <1>21, <1>22, Zenon DEF Threads!Send
<1>24. /\ m \in LetterSet /\ m.by = old.by /\ m.id = old.id /\ m.answers = old.answers
       /\ m.sent = TRUE /\ m.refs = r /\ m.reply = p /\ m.rooted = R
  <2>1. old \in LetterSet BY <1>4, <1>20, Zenon
  <2>2. PICK b, i, a : /\ b \in {"customer", "program", "agent"} /\ i \in Int /\ a \in 0 .. Far
                       /\ b = old.by /\ i = old.id /\ a = old.answers
        BY <2>1, Zenon DEF LetterSet
  <2>3. PICK m1 : m1 = [old EXCEPT !.sent = TRUE] BY Zenon
  <2>4. PICK m2 : m2 = [m1 EXCEPT !.refs = r] BY Zenon
  <2>5. PICK m3 : m3 = [m2 EXCEPT !.reply = p] BY Zenon
  <2>6. PICK m4 : m4 = [m3 EXCEPT !.rooted = R] BY Zenon
  <2>7. m = m4 BY <1>22, <2>3, <2>4, <2>5, <2>6, Zenon
  <2>8. old = [by |-> old.by, id |-> old.id, answers |-> old.answers, reply |-> old.reply, sent |-> old.sent,
               rooted |-> old.rooted, refs |-> old.refs]
        BY <2>1 DEF LetterSet
  <2>9. m1 = [by |-> old.by, id |-> old.id, answers |-> old.answers, reply |-> old.reply, sent |-> TRUE,
              rooted |-> old.rooted, refs |-> old.refs]
        BY <2>3, <2>8
  <2>10. m2 = [by |-> old.by, id |-> old.id, answers |-> old.answers, reply |-> old.reply, sent |-> TRUE,
               rooted |-> old.rooted, refs |-> r]
        BY <2>4, <2>9
  <2>11. m3 = [by |-> old.by, id |-> old.id, answers |-> old.answers, reply |-> p, sent |-> TRUE,
               rooted |-> old.rooted, refs |-> r]
        BY <2>5, <2>10
  <2>12. m4 = [by |-> old.by, id |-> old.id, answers |-> old.answers, reply |-> p, sent |-> TRUE,
               rooted |-> R, refs |-> r]
        BY <2>6, <2>11
  <2>13. m4 \in LetterSet BY <2>2, <2>12, <1>14, <1>17, Zenon DEF LetterSet
  <2>14. QED BY <2>7, <2>12, <2>13, Zenon
<1>25. Post(letters') /\ DOMAIN letters' = DOMAIN letters /\ letters'[k] = m
       /\ \A j \in DOMAIN letters : j # k => letters'[j] = letters[j]
  <2>1. PICK A : letters \in Seq(A) /\ m \in A /\ A = LetterSet BY <1>3, <1>24, Zenon DEF Post
  <2>2. /\ letters' \in Seq(A) /\ DOMAIN letters' = DOMAIN letters /\ letters'[k] = m /\ Len(letters') = Len(letters)
        /\ \A j \in DOMAIN letters : j # k => letters'[j] = letters[j]
    <3>1. k \in DOMAIN letters BY <1>4, Zenon
    <3>2. letters \in Seq(A) /\ m \in A BY <2>1, Zenon
    <3>3. QED BY ONLY <3>1, <3>2, <1>23
  <2>3. QED BY <2>1, <2>2, <1>3, Zenon DEF Post
<1>26. Leaves(letters, letters', threads, filed, S, k)
  <2>1. Fst(letters', k) = IF r = <<>> THEN 0 ELSE Head(r) BY <1>24, <1>25, Zenon DEF Fst
  <2>2. 0 \notin S /\ \A j \in S : j \in DOMAIN filed /\ filed[j].conv = filed[k].conv
    <3>1. 0 \notin S
      <4>1. 0 \notin 1 .. Far OBVIOUS
      <4>2. QED BY <4>1, <1>11, Zenon
    <3>2. QED BY <3>1, <1>6, <1>10, <1>11, Zenon
  <2>3. p > 0 => p \in S /\ Fst(letters', k) # 0 BY <2>1, <2>2, <1>14, <1>17, Zenon
  <2>4. R = TRUE => Fst(letters', k) # 0 /\ Fst(letters', k) = threads[filed[k].conv]
        BY <2>1, <2>2, <1>6, <1>14, <1>19, Zenon
  <2>5. Fst(letters', k) # 0 => Fst(letters', k) \in S BY <2>1, <1>14, Zenon
  <2>6. QED BY <2>2, <2>3, <2>4, <2>5, <1>1, <1>4, <1>20, <1>24, <1>25, Zenon DEF Leaves
<1>27. /\ LettersOK(letters', filed, processed) /\ FilesOK(letters', threads, filed) /\ ThreadsOK(letters', threads, filed)
       /\ Joined(letters, threads, filed) => Joined(letters', threads, filed)
       /\ Enough(letters, threads, filed) => Enough(letters', threads, filed)
       BY <1>2, <1>3, <1>5, <1>26, LeavesInvs, Zenon
<1>28. QED BY <1>1, <1>25, <1>27, ThreadFacts, Zenon DEF ThreadInv, ThreadTypes

\* Letter k is stored in conversation c: the one of its thread, the one of the letter it answers,
\* or a new one.
Stores(L, T, U, F, G, k, c) ==
    /\ k \in DOMAIN L /\ L[k].by = "customer" /\ k \notin DOMAIN F
    /\ DOMAIN G = DOMAIN F \cup {k} /\ G[k].conv = c /\ G[k].id = L[k].id
    /\ \A j \in DOMAIN F : G[j] = F[j]
    /\ c \in DOMAIN U /\ \A d \in DOMAIN T : d \in DOMAIN U /\ U[d] = T[d]
    /\ \/ DOMAIN U = DOMAIN T /\ T[c] = Top(L, k)
       \/ /\ DOMAIN U = DOMAIN T /\ \A d \in DOMAIN T : T[d] # Top(L, k)
          /\ L[k].answers \in DOMAIN F /\ c = F[L[k].answers].conv
       \/ /\ DOMAIN U = DOMAIN T \cup {c} /\ c \notin DOMAIN T /\ U[c] = Top(L, k)
          /\ \A d \in DOMAIN T : T[d] # Top(L, k)
          /\ \A j \in DOMAIN F : F[j].id = L[k].answers => L[k].answers = 0

\* What the letter says, and what it is looked up by.
ReadAs(L, F, P, k, a, N) ==
    /\ LetterOK(L, F, P, k) /\ Mailed(L, k) /\ k \in 1 .. N /\ k # Far
    /\ a = 0 \/ a = Far \/ (a \in DOMAIN L /\ a < k /\ a # 0 /\ a # Far)
    /\ L[k].reply = a
    /\ a = 0 => Top(L, k) = L[k].id /\ Origin(L, k) = k
    /\ a = Far => Top(L, k) = Far /\ Origin(L, k) = Far /\ a \notin DOMAIN L /\ a \notin DOMAIN F
    /\ a \in DOMAIN L => Top(L, k) = Origin(L, k)
    /\ a \in DOMAIN L /\ Fst(L, k) # 0 => Top(L, k) = Fst(L, k) /\ Top(L, k) = Origin(L, a)
    /\ a \in DOMAIN L /\ Fst(L, k) = 0 => Top(L, k) = a
    /\ Top(L, k) \in 1 .. MaxLetter => Top(L, k) \in DOMAIN L /\ Top(L, k) <= k

\* So every letter that is stored reads.
LEMMA StoresFacts ==
    ASSUME NEW L, NEW T, NEW U, NEW F, NEW G, NEW P, NEW k, NEW c, NEW N \in Nat, MaxLetter \in Nat,
           Stores(L, T, U, F, G, k, c), LettersOK(L, F, P), FilesOK(L, T, F),
           DOMAIN L = 1 .. N, N <= MaxLetter, Fst(L, k) \in Nat, NEW a, a = L[k].answers
    PROVE  ReadAs(L, F, P, k, a, N)
<1>1. k \in DOMAIN L /\ L[k].by # "agent"
  <2>1. "customer" # "agent" OBVIOUS
  <2>2. QED BY <2>1, Zenon DEF Stores
<1>2. LetterOK(L, F, P, k) BY <1>1, Zenon DEF LettersOK
<1>3. Mailed(L, k) BY <1>1, <1>2, Zenon DEF LetterOK
<1>4. k \in 1 .. N /\ k \in Int /\ k >= 1 /\ k <= MaxLetter /\ k # Far /\ Far \notin DOMAIN L /\ 0 \notin DOMAIN L /\ Far > 0 /\ Far # 0
      BY <1>1 DEF Far
<1>5. L[k].reply = a /\ (a \in 0 .. (k - 1) \/ a = Far) BY <1>3, Zenon DEF Mailed
<1>6. a = 0 \/ a = Far \/ (a \in DOMAIN L /\ a < k /\ a > 0 /\ a # 0 /\ a # Far) BY <1>4, <1>5 DEF Far
<1>7. PICK f \in Nat : f = Fst(L, k) BY Zenon
<1>8. f = 0 \/ (a # 0 /\ f = Origin(L, a)) BY <1>3, <1>7, Zenon DEF Mailed
<1>9. Top(L, k) = IF f # 0 THEN f ELSE IF a # 0 THEN a ELSE L[k].id BY <1>5, <1>7, Zenon DEF Top
<1>10. Origin(L, k) = IF f # 0 THEN f ELSE IF a > 0 THEN a ELSE k BY <1>4, <1>5, <1>7, Zenon DEF Origin
<1>11. a = 0 => Top(L, k) = L[k].id /\ Origin(L, k) = k
  <2>1. ~(0 > 0) OBVIOUS
  <2>2. QED BY <2>1, <1>8, <1>9, <1>10, Zenon
<1>12. a = Far => Top(L, k) = Far /\ Origin(L, k) = Far /\ a \notin DOMAIN L /\ a \notin DOMAIN F
  <2>1. SUFFICES ASSUME a = Far PROVE Top(L, k) = Far /\ Origin(L, k) = Far /\ a \notin DOMAIN L /\ a \notin DOMAIN F OBVIOUS
  <2>2. Origin(L, a) = Far BY <2>1, Zenon DEF Origin
  <2>3. DOMAIN F \subseteq DOMAIN L BY Zenon DEF FilesOK
  <2>4. QED BY <2>1, <2>2, <2>3, <1>4, <1>8, <1>9, <1>10, Zenon
<1>13. /\ a \in DOMAIN L => Top(L, k) = Origin(L, k)
       /\ a \in DOMAIN L /\ Fst(L, k) # 0 => Top(L, k) = Fst(L, k) /\ Top(L, k) = Origin(L, a)
       /\ a \in DOMAIN L /\ Fst(L, k) = 0 => Top(L, k) = a
       BY <1>4, <1>6, <1>7, <1>8, <1>9, <1>10, Zenon
<1>14. Top(L, k) \in 1 .. MaxLetter => Top(L, k) \in DOMAIN L /\ Top(L, k) <= k
  <2>1. SUFFICES ASSUME Top(L, k) \in 1 .. MaxLetter PROVE Top(L, k) \in DOMAIN L /\ Top(L, k) <= k OBVIOUS
  <2>2. PICK t \in 1 .. MaxLetter : t = Top(L, k) BY <2>1, Zenon
  <2>3. t # Far BY DEF Far
  <2>4. CASE f # 0
    <3>1. t = f BY <2>2, <2>4, <1>9, Zenon
    <3>2. f \in DOMAIN L BY <2>3, <2>4, <3>1, <1>2, <1>7, Zenon DEF LetterOK
    <3>3. f < k BY <2>3, <3>1, <1>3, <1>7, Zenon DEF Mailed
    <3>4. f <= k BY <3>3, <1>4
    <3>5. QED BY <2>2, <3>1, <3>2, <3>4, Zenon
  <2>5. CASE f = 0 /\ a # 0
    <3>1. t = a BY <2>2, <2>5, <1>9, Zenon
    <3>2. a \in DOMAIN L /\ a < k BY <2>3, <2>5, <3>1, <1>6, Zenon
    <3>3. a <= k BY <3>1, <3>2, <1>4
    <3>4. QED BY <2>2, <3>1, <3>2, <3>3, Zenon
  <2>6. CASE f = 0 /\ a = 0
    <3>1. t = L[k].id BY <2>2, <2>6, <1>9, Zenon
    <3>2. t \in {k, -k} BY <3>1, <1>2, Zenon DEF LetterOK
    <3>3. t = k /\ k <= k BY <3>2, <1>4
    <3>4. QED BY <2>2, <3>3, <1>1, Zenon
  <2>7. QED BY <2>4, <2>5, <2>6, Zenon
<1>15. QED BY <1>2, <1>3, <1>4, <1>5, <1>6, <1>11, <1>12, <1>13, <1>14, Zenon DEF ReadAs

\* What is known when a letter is stored.
Storing(L, T, U, F, G, P, k, c, N) ==
    /\ MaxLetter \in Nat /\ N \in Nat /\ DOMAIN L = 1 .. N /\ N <= MaxLetter /\ Fst(L, k) \in Nat
    /\ Stores(L, T, U, F, G, k, c) /\ LettersOK(L, F, P) /\ FilesOK(L, T, F) /\ ThreadsOK(L, T, F)

\* The same, from what is known when a letter is stored.
LEMMA StoringFacts ==
    ASSUME NEW L, NEW T, NEW U, NEW F, NEW G, NEW P, NEW k, NEW c, NEW N, Storing(L, T, U, F, G, P, k, c, N),
           NEW a, a = L[k].answers
    PROVE  ReadAs(L, F, P, k, a, N)
<1>1. /\ MaxLetter \in Nat /\ N \in Nat /\ DOMAIN L = 1 .. N /\ N <= MaxLetter /\ Fst(L, k) \in Nat
      /\ Stores(L, T, U, F, G, k, c) /\ LettersOK(L, F, P) /\ FilesOK(L, T, F)
      BY Zenon DEF Storing
<1>2. QED BY <1>1, StoresFacts, Zenon

\* A letter that is stored spoils no other.
LEMMA StoresFiles ==
    ASSUME NEW L, NEW T, NEW U, NEW F, NEW G, NEW P, NEW k, NEW c, NEW N, Storing(L, T, U, F, G, P, k, c, N)
    PROVE  LettersOK(L, G, P \cup {k}) /\ FilesOK(L, U, G)
<1>1. /\ k \in DOMAIN L /\ DOMAIN G = DOMAIN F \cup {k} /\ G[k].conv = c /\ G[k].id = L[k].id
      /\ \A j \in DOMAIN F : G[j] = F[j]
      /\ c \in DOMAIN U /\ \A d \in DOMAIN T : d \in DOMAIN U
      BY Zenon DEF Storing, Stores
<1>2. LettersOK(L, F, P) /\ FilesOK(L, T, F) BY Zenon DEF Storing
<1>3. LettersOK(L, G, P \cup {k})
  <2>1. ASSUME NEW j \in DOMAIN L PROVE LetterOK(L, G, P \cup {k}, j)
    <3>1. LetterOK(L, F, P, j) BY <1>2, Zenon DEF LettersOK
    <3>2. QED BY <3>1, <1>1, Zenon DEF LetterOK
  <2>2. QED BY <2>1, Zenon DEF LettersOK
<1>4. L[k].id \in {k, -k} BY <1>1, <1>2, Zenon DEF LettersOK, LetterOK
<1>5. FilesOK(L, U, G) BY <1>1, <1>2, <1>4, Zenon DEF FilesOK
<1>6. QED BY <1>3, <1>5, Zenon

\* Threads stay apart and older than their letters.
LEMMA StoresThreads ==
    ASSUME NEW L, NEW T, NEW U, NEW F, NEW G, NEW P, NEW k, NEW c, NEW N, Storing(L, T, U, F, G, P, k, c, N)
    PROVE  ThreadsOK(L, U, G)
<1>1. /\ k \in DOMAIN L /\ DOMAIN G = DOMAIN F \cup {k} /\ G[k].conv = c
      /\ \A j \in DOMAIN F : G[j] = F[j]
      /\ c \in DOMAIN U /\ \A d \in DOMAIN T : d \in DOMAIN U /\ U[d] = T[d]
      BY Zenon DEF Storing, Stores
<1>2. LettersOK(L, F, P) /\ FilesOK(L, T, F) /\ ThreadsOK(L, T, F) BY Zenon DEF Storing
<1>3. PICK a : a = L[k].answers BY Zenon
<1>11. N \in Nat BY Zenon DEF Storing
<1>4. /\ k \in 1 .. N /\ N \in Nat
      /\ a = 0 \/ a = Far \/ (a \in DOMAIN L /\ a < k /\ a # 0 /\ a # Far)
      /\ a = Far => a \notin DOMAIN F
      /\ Top(L, k) \in 1 .. MaxLetter => Top(L, k) \in DOMAIN L /\ Top(L, k) <= k
  <2>1. ReadAs(L, F, P, k, a, N) BY <1>3, StoringFacts, Zenon
  <2>2. QED BY <2>1, <1>11, Zenon DEF ReadAs
<1>5. \/ DOMAIN U = DOMAIN T /\ T[c] = Top(L, k)
      \/ DOMAIN U = DOMAIN T /\ a \in DOMAIN F /\ c = F[a].conv
      \/ /\ DOMAIN U = DOMAIN T \cup {c} /\ c \notin DOMAIN T /\ U[c] = Top(L, k)
         /\ \A d \in DOMAIN T : T[d] # Top(L, k)
      BY <1>3, Zenon DEF Storing, Stores
<1>6. ASSUME NEW d \in DOMAIN U, NEW e \in DOMAIN U, U[d] = U[e] PROVE d = e
  <2>1. CASE DOMAIN U = DOMAIN T BY <2>1, <1>1, <1>2, <1>6, Zenon DEF ThreadsOK
  <2>2. CASE /\ DOMAIN U = DOMAIN T \cup {c} /\ c \notin DOMAIN T /\ U[c] = Top(L, k)
             /\ \A x \in DOMAIN T : T[x] # Top(L, k)
    <3>1. \A x \in DOMAIN T : U[x] # U[c] BY <2>2, <1>1, Zenon
    <3>2. d \in DOMAIN T /\ e \in DOMAIN T => d = e BY <1>1, <1>2, <1>6, Zenon DEF ThreadsOK
    <3>3. QED BY <2>2, <3>1, <3>2, <1>6, Zenon
  <2>3. QED BY <2>1, <2>2, <1>5, Zenon
<1>7. ASSUME NEW d \in DOMAIN U, U[d] \in 1 .. MaxLetter, NEW j \in DOMAIN G, G[j].conv = d
      PROVE  U[d] <= j
  <2>1. CASE j \in DOMAIN F
    <3>1. F[j].conv = d /\ d \in DOMAIN T BY <2>1, <1>1, <1>2, <1>7, Zenon DEF FilesOK
    <3>2. U[d] = T[d] BY <3>1, <1>1, Zenon
    <3>3. QED BY <2>1, <3>1, <3>2, <1>2, <1>7, Zenon DEF ThreadsOK
  <2>2. CASE j = k
    <3>1. d = c BY <2>2, <1>1, <1>7, Zenon
    <3>2. CASE U[c] = Top(L, k) BY <2>2, <3>1, <3>2, <1>4, <1>7, Zenon
    <3>3. CASE DOMAIN U = DOMAIN T /\ a \in DOMAIN F /\ c = F[a].conv
      <4>1. a < k
        <5>1. 0 \notin DOMAIN L
          <6>1. 0 \notin 1 .. N OBVIOUS
          <6>2. DOMAIN L = 1 .. N BY Zenon DEF Storing
          <6>3. QED BY <6>1, <6>2, Zenon
        <5>2. a \in DOMAIN L BY <3>3, <1>2, Zenon DEF FilesOK
        <5>3. QED BY <5>1, <5>2, <3>3, <1>4, Zenon
      <4>2. U[c] = T[c] /\ c \in DOMAIN T BY <3>3, <1>1, Zenon
      <4>3. T[c] <= a BY <4>2, <3>1, <3>3, <1>2, <1>7, Zenon DEF ThreadsOK
      <4>4. a \in Int /\ k \in Int
        <5>1. a \in DOMAIN L /\ DOMAIN L = 1 .. N BY <3>3, <1>2, Zenon DEF FilesOK, Storing
        <5>2. QED BY <5>1, <1>4
      <4>5. PICK u \in 1 .. MaxLetter : u = U[c] BY <3>1, <1>7, Zenon
      <4>6. u <= a BY <4>2, <4>3, <4>5, Zenon
      <4>7. u <= k BY <4>1, <4>4, <4>5, <4>6
      <4>8. QED BY <2>2, <3>1, <4>5, <4>7, Zenon
    <3>4. QED BY <3>2, <3>3, <1>1, <1>5, Zenon
  <2>3. QED BY <2>1, <2>2, <1>1, Zenon
<1>8. ASSUME NEW d \in DOMAIN U, U[d] \in 1 .. MaxLetter PROVE U[d] \in DOMAIN L
  <2>1. CASE d \in DOMAIN T BY <2>1, <1>1, <1>2, <1>8, Zenon DEF ThreadsOK
  <2>2. CASE d \notin DOMAIN T BY <2>2, <1>4, <1>5, <1>8, Zenon
  <2>3. QED BY <2>1, <2>2, Zenon
<1>9. ASSUME NEW j \in DOMAIN L, L[j].rooted = TRUE PROVE Fst(L, j) # 0 /\ Fst(L, j) = U[G[j].conv]
  <2>1. j \in DOMAIN F BY <1>2, <1>9, Zenon DEF LettersOK, LetterOK
  <2>2. G[j] = F[j] /\ F[j].conv \in DOMAIN T BY <2>1, <1>1, <1>2, Zenon DEF FilesOK
  <2>3. U[F[j].conv] = T[F[j].conv] BY <2>2, <1>1, Zenon
  <2>4. Fst(L, j) # 0 /\ Fst(L, j) = T[F[j].conv] BY <1>2, <1>9, Zenon DEF ThreadsOK
  <2>5. QED BY <2>2, <2>3, <2>4, Zenon
<1>10. QED BY <1>6, <1>7, <1>8, <1>9, Zenon DEF ThreadsOK

\* A letter whose answered letter is stored joins it.
LEMMA StoresWithAnswered ==
    ASSUME NEW L, NEW T, NEW U, NEW F, NEW G, NEW P, NEW k, NEW c, NEW N, Storing(L, T, U, F, G, P, k, c, N),
           Joined(L, T, F), NEW a, a = L[k].answers, a \in DOMAIN L, \E j \in DOMAIN F : F[j].id = a
    PROVE  a \in DOMAIN F /\ c = F[a].conv /\ Rooted(L, T, F, a)
<1>1. LettersOK(L, F, P) /\ FilesOK(L, T, F) /\ ThreadsOK(L, T, F) /\ N \in Nat /\ DOMAIN L = 1 .. N /\ N <= MaxLetter
      /\ MaxLetter \in Nat
      BY Zenon DEF Storing
<1>2. PICK j \in DOMAIN F : F[j].id = a OBVIOUS
<1>3. j = a
  <2>1. a \in {0, j, -j} /\ j \in DOMAIN L BY <1>1, <1>2, Zenon DEF FilesOK
  <2>2. QED BY <2>1, <1>1
<1>4. a \in DOMAIN F /\ F[a].id = a BY <1>2, <1>3, Zenon
<1>5. /\ Mailed(L, k)
      /\ Fst(L, k) # 0 => Top(L, k) = Origin(L, a)
      /\ Fst(L, k) = 0 => Top(L, k) = a
  <2>1. ReadAs(L, F, P, k, a, N) BY StoringFacts, Zenon
  <2>2. QED BY <2>1, Zenon DEF ReadAs
<1>6. Rooted(L, T, F, a)
  <2>1. L[a].sent = TRUE /\ L[a].id > 0 BY <1>5, Zenon DEF Mailed
  <2>2. QED BY <2>1, <1>4, Zenon DEF Joined
<1>7. a # 0 BY <1>1
<1>8. \/ DOMAIN U = DOMAIN T /\ T[c] = Top(L, k)
      \/ c = F[a].conv
      \/ \A x \in DOMAIN F : F[x].id = a => a = 0
      BY Zenon DEF Storing, Stores
<1>9. CASE DOMAIN U = DOMAIN T /\ T[c] = Top(L, k)
  <2>1. c \in DOMAIN T BY <1>9, Zenon DEF Storing, Stores
  <2>2. \A x \in DOMAIN F : x \in 1 .. MaxLetter
    <3>1. \A x \in 1 .. N : x \in 1 .. MaxLetter BY <1>1
    <3>2. QED BY <3>1, <1>1, Zenon DEF FilesOK
  <2>3. \A d \in DOMAIN T : T[d] \in 1 .. MaxLetter => F[T[d]].conv = d BY Zenon DEF Joined
  <2>4. CASE Fst(L, k) = 0 BY <2>1, <2>2, <2>3, <2>4, <1>4, <1>5, <1>6, <1>9, Zenon
  <2>5. CASE Fst(L, k) # 0 /\ Origin(L, a) \in DOMAIN F /\ F[Origin(L, a)].conv = F[a].conv
        BY <2>1, <2>2, <2>3, <2>5, <1>4, <1>5, <1>6, <1>9, Zenon
  <2>6. CASE Fst(L, k) # 0 /\ Origin(L, a) = Far /\ T[F[a].conv] = Far
    <3>1. T[c] = T[F[a].conv] BY <2>6, <1>5, <1>9, Zenon
    <3>2. F[a].conv \in DOMAIN T BY <1>1, <1>4, Zenon DEF FilesOK
    <3>3. c = F[a].conv BY <2>1, <3>1, <3>2, <1>1, Zenon DEF ThreadsOK
    <3>4. QED BY <3>3, <1>4, <1>6, Zenon
  <2>7. QED BY <2>4, <2>5, <2>6, <1>6, Zenon DEF Rooted
<1>10. QED BY <1>4, <1>6, <1>7, <1>8, <1>9, Zenon

\* Unless it came too early, a letter joins the letter it answers.
LEMMA StoresJoined ==
    ASSUME NEW L, NEW T, NEW U, NEW F, NEW G, NEW P, NEW k, NEW c, NEW N, Storing(L, T, U, F, G, P, k, c, N),
           Joined(L, T, F), L[k].answers \in DOMAIN L => \E j \in DOMAIN F : F[j].id = L[k].answers
    PROVE  Joined(L, U, G)
<1>1. /\ k \in DOMAIN L /\ k \notin DOMAIN F /\ DOMAIN G = DOMAIN F \cup {k} /\ G[k].conv = c
      /\ \A j \in DOMAIN F : G[j] = F[j]
      /\ c \in DOMAIN U /\ \A d \in DOMAIN T : d \in DOMAIN U /\ U[d] = T[d]
      BY Zenon DEF Storing, Stores
<1>2. LettersOK(L, F, P) /\ FilesOK(L, T, F) /\ ThreadsOK(L, T, F) BY Zenon DEF Storing
<1>3. PICK a : a = L[k].answers BY Zenon
<1>4. ReadAs(L, F, P, k, a, N) BY <1>3, StoringFacts, Zenon
<1>5. a \in DOMAIN L => a \in DOMAIN F /\ c = F[a].conv /\ Rooted(L, T, F, a)
  <2>1. SUFFICES ASSUME a \in DOMAIN L PROVE a \in DOMAIN F /\ c = F[a].conv /\ Rooted(L, T, F, a) OBVIOUS
  <2>2. \E j \in DOMAIN F : F[j].id = a BY <2>1, <1>3, Zenon
  <2>3. QED BY <2>1, <2>2, <1>3, StoresWithAnswered
<1>6. a = 0 \/ a = Far \/ a \in DOMAIN L BY <1>4, Zenon DEF ReadAs
<1>7. \A j \in DOMAIN F : F[j].conv \in DOMAIN T BY <1>2, Zenon DEF FilesOK
<1>8. \/ DOMAIN U = DOMAIN T /\ T[c] = Top(L, k)
      \/ DOMAIN U = DOMAIN T /\ a \in DOMAIN F /\ c = F[a].conv
      \/ DOMAIN U = DOMAIN T \cup {c} /\ c \notin DOMAIN T /\ U[c] = Top(L, k)
      BY <1>3, Zenon DEF Storing, Stores
<1>9. k \in Int /\ k >= 1 /\ Far \notin 1 .. MaxLetter /\ L[k].id \in {k, -k}
  <2>1. k \in 1 .. N /\ N \in Nat /\ MaxLetter \in Nat BY <1>4, Zenon DEF ReadAs, Storing
  <2>2. k \in Int /\ k >= 1 /\ Far \notin 1 .. MaxLetter BY <2>1 DEF Far
  <2>3. L[k].id \in {k, -k} BY <1>1, <1>2, Zenon DEF LettersOK, LetterOK
  <2>4. QED BY <2>2, <2>3, Zenon
<1>10. ASSUME NEW d \in DOMAIN U, U[d] \in 1 .. MaxLetter PROVE U[d] \in DOMAIN G /\ G[U[d]].conv = d
  <2>1. CASE d \in DOMAIN T
    <3>1. U[d] = T[d] BY <2>1, <1>1, Zenon
    <3>2. T[d] \in DOMAIN F /\ F[T[d]].conv = d BY <2>1, <3>1, <1>10, Zenon DEF Joined
    <3>3. QED BY <3>1, <3>2, <1>1, Zenon
  <2>2. CASE d \notin DOMAIN T
    <3>1. d = c /\ U[c] = Top(L, k) BY <2>2, <1>8, Zenon
    <3>2. a \notin DOMAIN L BY <2>2, <3>1, <1>5, <1>7, Zenon
    <3>3. a # Far BY <3>1, <1>4, <1>9, <1>10, Zenon DEF ReadAs
    <3>4. U[c] = L[k].id BY <3>1, <3>2, <3>3, <1>4, <1>6, Zenon DEF ReadAs
    <3>5. PICK u : u = U[c] BY Zenon
    <3>6. u \in {k, -k} /\ u \in 1 .. MaxLetter BY <3>1, <3>4, <3>5, <1>9, <1>10, Zenon
    <3>7. u = k
      <4>1. u >= 1 BY <3>6
      <4>2. QED BY <3>6, <4>1, <1>9
    <3>8. QED BY <3>1, <3>5, <3>7, <1>1, Zenon
  <2>3. QED BY <2>1, <2>2, Zenon
<1>11. ASSUME NEW j \in DOMAIN F, Rooted(L, T, F, j) PROVE Rooted(L, U, G, j)
  <2>1. G[j] = F[j] /\ U[F[j].conv] = T[F[j].conv] BY <1>1, <1>7, Zenon
  <2>2. QED BY <2>1, <1>1, <1>11, Zenon DEF Rooted
<1>12. Rooted(L, U, G, k)
  <2>1. CASE a \in DOMAIN L
    <3>1. a \in DOMAIN F /\ c = F[a].conv /\ Rooted(L, T, F, a) BY <2>1, <1>5, Zenon
    <3>2. Rooted(L, U, G, a) BY <3>1, <1>11, Zenon
    <3>3. G[a].conv = G[k].conv /\ a \in DOMAIN G BY <3>1, <1>1, Zenon
    <3>4. Origin(L, k) = Origin(L, a) \/ Origin(L, k) = a BY <2>1, <1>4, Zenon DEF ReadAs
    <3>5. QED BY <3>2, <3>3, <3>4, Zenon DEF Rooted
  <2>2. CASE a = 0
    <3>1. Origin(L, k) = k BY <2>2, <1>4, Zenon DEF ReadAs
    <3>2. QED BY <3>1, <1>1, Zenon DEF Rooted
  <2>3. CASE a = Far
    <3>1. Origin(L, k) = Far /\ Top(L, k) = Far /\ a \notin DOMAIN F BY <2>3, <1>4, Zenon DEF ReadAs
    <3>2. U[c] = Far BY <3>1, <1>1, <1>8, Zenon
    <3>3. QED BY <3>1, <3>2, <1>1, Zenon DEF Rooted
  <2>4. QED BY <2>1, <2>2, <2>3, <1>6, Zenon
<1>13. ASSUME NEW j \in DOMAIN G, L[j].sent = TRUE, L[j].id > 0 PROVE Rooted(L, U, G, j)
  <2>1. CASE j = k BY <2>1, <1>12, Zenon
  <2>2. CASE j \in DOMAIN F
    <3>1. Rooted(L, T, F, j) BY <2>2, <1>13, Zenon DEF Joined
    <3>2. QED BY <2>2, <3>1, <1>11, Zenon
  <2>3. QED BY <2>1, <2>2, <1>1, Zenon
<1>14. ASSUME NEW j \in DOMAIN G, L[j].by = "customer", L[j].answers \in DOMAIN L
       PROVE  L[j].answers \in DOMAIN G /\ G[j].conv = G[L[j].answers].conv
  <2>1. CASE j = k BY <2>1, <1>1, <1>3, <1>5, <1>14, Zenon
  <2>2. CASE j \in DOMAIN F
    <3>1. L[j].answers \in DOMAIN F /\ F[j].conv = F[L[j].answers].conv BY <2>2, <1>14, Zenon DEF Joined
    <3>2. QED BY <2>2, <3>1, <1>1, Zenon
  <2>3. QED BY <2>1, <2>2, <1>1, Zenon
<1>15. QED BY <1>10, <1>13, <1>14, Zenon DEF Joined

\* A letter that lists a rooted reply first joins it, early or not.
LEMMA StoresEnough ==
    ASSUME NEW L, NEW T, NEW U, NEW F, NEW G, NEW P, NEW k, NEW c, NEW N, Storing(L, T, U, F, G, P, k, c, N),
           Enough(L, T, F)
    PROVE  Enough(L, U, G)
<1>1. /\ k \in DOMAIN L /\ k \notin DOMAIN F /\ DOMAIN G = DOMAIN F \cup {k} /\ G[k].conv = c
      /\ \A j \in DOMAIN F : G[j] = F[j]
      BY Zenon DEF Storing, Stores
<1>2. LettersOK(L, F, P) /\ FilesOK(L, T, F) /\ ThreadsOK(L, T, F) BY Zenon DEF Storing
<1>3. SUFFICES ASSUME NEW j \in DOMAIN G, L[j].by = "customer", L[j].answers \in DOMAIN L, Fst(L, j) # 0,
                      L[L[j].answers].rooted = TRUE
               PROVE  G[j].conv = G[L[j].answers].conv
      BY Zenon DEF Enough
<1>4. PICK a : a = L[j].answers BY Zenon
<1>5. a \in DOMAIN L /\ a \in DOMAIN F /\ L[a].rooted = TRUE BY <1>2, <1>3, <1>4, Zenon DEF LettersOK, LetterOK
<1>6. CASE j \in DOMAIN F
  <2>1. F[j].conv = F[a].conv BY <1>3, <1>4, <1>6, Zenon DEF Enough
  <2>2. QED BY <2>1, <1>1, <1>4, <1>5, <1>6, Zenon
<1>7. CASE j = k
  <2>1. ReadAs(L, F, P, k, a, N) BY <1>4, <1>7, StoringFacts, Zenon
  <2>2. Top(L, k) = Origin(L, a) /\ a # Far BY <2>1, <1>3, <1>5, <1>7, Zenon DEF ReadAs
  <2>3. Fst(L, a) # 0 /\ Fst(L, a) = T[F[a].conv] BY <1>2, <1>5, Zenon DEF ThreadsOK
  <2>4. Top(L, k) = T[F[a].conv] BY <2>2, <2>3, Zenon DEF Origin
  <2>5. F[a].conv \in DOMAIN T BY <1>2, <1>5, Zenon DEF FilesOK
  <2>6. DOMAIN U = DOMAIN T /\ T[c] = Top(L, k) /\ c \in DOMAIN U BY <2>4, <2>5, Zenon DEF Storing, Stores
  <2>7. c = F[a].conv BY <2>4, <2>5, <2>6, <1>2, Zenon DEF ThreadsOK
  <2>8. QED BY <2>7, <1>1, <1>4, <1>5, <1>7, Zenon
<1>8. QED BY <1>1, <1>6, <1>7, Zenon

\* threadId of normalizeInbound, in one number.
LEMMA ThreadOfIsTop ==
    ASSUME MaxLetter \in Nat, ThreadInv, NEW k \in DOMAIN letters
    PROVE  Threads!ThreadOf(letters[k]) = Top(letters, k)
<1>1. PICK r, p, i : r = letters[k].refs /\ p = letters[k].reply /\ i = letters[k].id BY Zenon
<1>2. r # <<>> => Head(r) # 0
  <2>1. r \in Seq(1 .. Far) BY <1>1, ThreadFacts, PostFacts, Zenon
  <2>2. r # <<>> => Head(r) \in 1 .. Far BY <2>1, HeadType, Zenon
  <2>3. 0 \notin 1 .. Far OBVIOUS
  <2>4. QED BY <2>2, <2>3, Zenon
<1>3. Fst(letters, k) = IF r = <<>> THEN 0 ELSE Head(r) BY <1>1, Zenon DEF Fst
<1>4. QED BY <1>1, <1>2, <1>3, Zenon DEF Threads!ThreadOf, Top

\* Where a letter is looked for, and the conversation it is put into.
LEMMA FindThread ==
    ASSUME MaxLetter \in Nat, ThreadInv, NEW k \in DOMAIN letters, letters[k].by = "customer",
           NEW a, a = letters[k].answers
    PROVE  LET byThread == {d \in DOMAIN threads : threads[d] = Top(letters, k)}
               found == Threads!findEmailThread(letters[k])
           IN /\ byThread # {} => found = byThread
              /\ byThread = {} /\ found # {} => a \in DOMAIN filed /\ found = {filed[a].conv}
              /\ found = {} => byThread = {} /\ \A j \in DOMAIN filed : filed[j].id = a => a = 0
<1> DEFINE byThread == {d \in DOMAIN threads : threads[d] = Top(letters, k)}
           found == Threads!findEmailThread(letters[k])
<1>1. Threads!ThreadOf(letters[k]) = Top(letters, k) BY ThreadOfIsTop, Zenon
<1>2. letters[k].reply = a /\ (a \in 0 .. (k - 1) \/ a = Far)
  <2>1. "customer" # "agent" OBVIOUS
  <2>2. Mailed(letters, k) BY <2>1, ThreadFacts, Zenon DEF LettersOK, LetterOK
  <2>3. QED BY <2>2, Zenon DEF Mailed
<1>3. PICK H : H = {filed[j].conv : j \in {i \in DOMAIN filed : a # 0 /\ filed[i].id = a}} BY Zenon
<1>4. found = IF byThread # {} THEN byThread ELSE H
      BY <1>1, <1>2, <1>3, Zenon DEF Threads!findEmailThread, Threads!Holding, Threads!Filed
<1>5. ASSUME NEW j \in DOMAIN filed, filed[j].id = a, a # 0 PROVE j = a
  <2>1. a \in {0, j, -j} /\ j \in DOMAIN letters BY <1>5, ThreadFacts, Zenon DEF FilesOK
  <2>2. DOMAIN letters = 1 .. Len(letters) BY ThreadFacts, PostFacts, Zenon
  <2>3. j \in Int /\ j >= 1 BY <2>1, <2>2
  <2>4. a >= 0 BY <1>2 DEF Far
  <2>5. QED BY <2>1, <2>3, <2>4, <1>5
<1>6. H # {} => a \in DOMAIN filed /\ H = {filed[a].conv}
  <2>1. SUFFICES ASSUME H # {} PROVE a \in DOMAIN filed /\ H = {filed[a].conv} OBVIOUS
  <2>2. PICK j \in DOMAIN filed : a # 0 /\ filed[j].id = a BY <2>1, <1>3, Zenon
  <2>3. a \in DOMAIN filed /\ filed[a].id = a BY <2>2, <1>5, Zenon
  <2>4. {i \in DOMAIN filed : a # 0 /\ filed[i].id = a} = {a} BY <2>2, <2>3, <1>5, Zenon
  <2>5. QED BY <2>3, <2>4, <1>3, Zenon
<1>7. H = {} => \A j \in DOMAIN filed : filed[j].id = a => a = 0 BY <1>3, Zenon
<1>8. QED BY <1>4, <1>6, <1>7, Zenon

Place(found, n) == IF found = {} THEN n ELSE CHOOSE d \in found : \A e \in found : e <= d

\* A letter is stored.
LEMMA StoreStep ==
    ASSUME MaxLetter \in Nat, ThreadInv, NEW k, Threads!Store(k)
    PROVE  ThreadInv'
<1>1. /\ k \in DOMAIN letters /\ k \notin processed /\ letters[k].by # "agent"
      /\ processed' = processed \cup {k} /\ letters' = letters
      BY Zenon DEF Threads!Store, Threads!Written
<1>2. /\ Post(letters) /\ threads \in Seq(Int) /\ Files(filed) /\ processed \subseteq DOMAIN letters /\ strayed \in BOOLEAN
      /\ LettersOK(letters, filed, processed) /\ FilesOK(letters, threads, filed) /\ ThreadsOK(letters, threads, filed)
      /\ strayed = FALSE => Joined(letters, threads, filed)
      /\ Enough(letters, threads, filed)
      BY ThreadFacts, Zenon
<1>3. letters[k].by \in {"customer", "program", "agent"} /\ Fst(letters, k) \in 0 .. Far /\ letters[k].id \in Int
      BY <1>1, <1>2, PostFacts, Zenon
<1>4. CASE letters[k].by = "program"
  <2>1. threads' = threads /\ filed' = filed /\ strayed' = strayed BY <1>4, Zenon DEF Threads!Store
  <2>2. LettersOK(letters, filed, processed \cup {k}) BY <1>2, Zenon DEF LettersOK, LetterOK
  <2>3. processed \cup {k} \subseteq DOMAIN letters BY <1>1, <1>2, Zenon
  <2>4. QED BY <1>1, <1>2, <2>1, <2>2, <2>3, Zenon DEF ThreadInv, ThreadTypes
<1>5. CASE letters[k].by = "customer"
  <2>1. letters[k].by # "program" BY <1>5
  <2>2. PICK found : found = Threads!findEmailThread(letters[k]) BY Zenon
  <2>3. PICK c : c = Place(found, Len(threads) + 1) BY Zenon
  <2>4. PICK t : t = Top(letters, k) BY Zenon
  <2>5. PICK a : a = letters[k].answers BY Zenon
  <2>6. Threads!ThreadOf(letters[k]) = t BY <1>1, <2>4, ThreadOfIsTop, Zenon
  <2>7. PICK f : f = [conv |-> c, id |-> letters[k].id] BY Zenon
  <2>8. threads' = IF found = {} THEN Append(threads, t) ELSE threads BY <2>1, <2>2, <2>6, Zenon DEF Threads!Store
  <2>9. filed' = [j \in DOMAIN filed \cup {k} |-> IF j = k THEN f ELSE filed[j]]
    <3>1. filed' = [j \in DOMAIN filed \cup {k} |->
                      IF j = k THEN [conv |-> Place(Threads!findEmailThread(letters[k]), Len(threads) + 1), id |-> letters[k].id]
                      ELSE filed[j]]
          BY <2>1, Zenon DEF Threads!Store, Threads!Filed, Place
    <3>2. QED BY <3>1, <2>2, <2>3, <2>7, Zenon
  <2>10. strayed' = (strayed \/ (a \in DOMAIN letters /\ \A j \in DOMAIN filed : filed[j].id # a))
         BY <2>1, <2>5, Zenon DEF Threads!Store, Threads!Filed, Threads!Written
  <2>11. k \notin DOMAIN filed BY <1>1, <1>2, Zenon DEF LettersOK, LetterOK
  <2>12. PICK n \in Nat : n = Len(threads) /\ DOMAIN threads = 1 .. n /\ n + 1 \notin DOMAIN threads BY <1>2
  <2>13. PICK B : B = {d \in DOMAIN threads : threads[d] = t} BY Zenon
  <2>14. /\ B # {} => found = B
         /\ B = {} /\ found # {} => a \in DOMAIN filed /\ found = {filed[a].conv}
         /\ found = {} => B = {} /\ \A j \in DOMAIN filed : filed[j].id = a => a = 0
         BY <1>1, <1>5, <2>2, <2>4, <2>5, <2>13, FindThread, Zenon
  <2>15. ASSUME NEW d \in DOMAIN threads, found = {d} PROVE c = d
    <3>1. d \in Nat BY <2>12
    <3>2. d <= d BY <3>1
    <3>3. QED BY <2>3, <2>15, <3>2, Zenon DEF Place
  <2>16. \A d, e \in B : d = e BY <1>2, <2>13, Zenon DEF ThreadsOK
  <2>17. found = {} => /\ c = n + 1 /\ threads' = Append(threads, t) /\ \A d \in DOMAIN threads : threads[d] # t
                       /\ \A j \in DOMAIN filed : filed[j].id = a => a = 0
         BY <2>3, <2>8, <2>12, <2>13, <2>14, Zenon DEF Place
  <2>18. found # {} => threads' = threads BY <2>8, Zenon
  <2>19. B # {} => c \in DOMAIN threads /\ threads[c] = t
    <3>1. SUFFICES ASSUME B # {} PROVE c \in DOMAIN threads /\ threads[c] = t OBVIOUS
    <3>2. PICK d \in B : TRUE BY <3>1, Zenon
    <3>3. d \in DOMAIN threads /\ threads[d] = t BY <2>13, <3>2, Zenon
    <3>4. found = {d} BY <2>14, <2>16, <3>1, <3>2, Zenon
    <3>5. QED BY <3>3, <3>4, <2>15, Zenon
  <2>20. B = {} /\ found # {} => /\ c \in DOMAIN threads /\ \A d \in DOMAIN threads : threads[d] # t
                                  /\ a \in DOMAIN filed /\ c = filed[a].conv
    <3>1. SUFFICES ASSUME B = {}, found # {}
                   PROVE  /\ c \in DOMAIN threads /\ \A d \in DOMAIN threads : threads[d] # t
                          /\ a \in DOMAIN filed /\ c = filed[a].conv
          OBVIOUS
    <3>2. a \in DOMAIN filed /\ found = {filed[a].conv} BY <3>1, <2>14, Zenon
    <3>3. filed[a].conv \in DOMAIN threads BY <3>2, <1>2, Zenon DEF FilesOK
    <3>4. c = filed[a].conv BY <3>2, <3>3, <2>15, Zenon
    <3>5. QED BY <3>1, <3>2, <3>3, <3>4, <2>13, Zenon
  <2>21. t \in Int
    <3>1. letters[k].reply \in Int BY <1>1, <1>2, PostFacts, Zenon
    <3>2. Fst(letters, k) \in Int BY <1>3 DEF Far
    <3>3. QED BY <3>1, <3>2, <1>3, <2>4, Zenon DEF Top
  <2>22. found = {} => /\ threads' \in Seq(Int) /\ DOMAIN threads' = DOMAIN threads \cup {c} /\ threads'[c] = t
                       /\ c \notin DOMAIN threads /\ c \in Nat
                       /\ \A d \in DOMAIN threads : threads'[d] = threads[d]
    <3>1. SUFFICES ASSUME found = {}
                   PROVE  /\ threads' \in Seq(Int) /\ DOMAIN threads' = DOMAIN threads \cup {c} /\ threads'[c] = t
                          /\ c \notin DOMAIN threads /\ c \in Nat
                          /\ \A d \in DOMAIN threads : threads'[d] = threads[d]
          OBVIOUS
    <3>2. c = n + 1 /\ threads' = Append(threads, t) BY <3>1, <2>17, Zenon
    <3>3. threads \in Seq(Int) /\ n = Len(threads) BY <1>2, <2>12, Zenon
    <3>4. QED BY ONLY <3>2, <3>3, <2>12, <2>21
  <2>23. /\ threads' \in Seq(Int) /\ c \in DOMAIN threads' /\ c \in Nat
         /\ \A d \in DOMAIN threads : d \in DOMAIN threads' /\ threads'[d] = threads[d]
    <3>1. CASE found = {} BY <3>1, <2>22, Zenon
    <3>2. CASE found # {}
      <4>1. c \in DOMAIN threads /\ threads' = threads BY <3>2, <2>18, <2>19, <2>20, Zenon
      <4>2. c \in Nat BY <4>1, <2>12
      <4>3. QED BY <4>1, <4>2, <1>2, Zenon
    <3>3. QED BY <3>1, <3>2, Zenon
  <2>24. f.conv = c /\ f.id = letters[k].id /\ f \in [conv : Nat, id : Int] BY <2>7, <2>23, <1>3, Zenon
  <2>25. DOMAIN filed' = DOMAIN filed \cup {k} /\ filed'[k] = f /\ \A j \in DOMAIN filed : filed'[j] = filed[j]
         BY <2>9, <2>11, Zenon
  <2>26. Files(filed')
    <3>1. \A j \in DOMAIN filed : filed[j] \in [conv : Nat, id : Int] BY <1>2, Zenon DEF Files
    <3>2. \A j \in DOMAIN filed \cup {k} : (IF j = k THEN f ELSE filed[j]) \in [conv : Nat, id : Int] BY <3>1, <2>24, Zenon
    <3>3. filed' \in [DOMAIN filed \cup {k} -> [conv : Nat, id : Int]] BY <3>2, <2>9, Zenon
    <3>4. QED BY <3>3, <2>25, Zenon DEF Files
  <2>27. Stores(letters, threads, threads', filed, filed', k, c)
    <3>1. \/ DOMAIN threads' = DOMAIN threads /\ threads[c] = Top(letters, k)
          \/ /\ DOMAIN threads' = DOMAIN threads /\ \A d \in DOMAIN threads : threads[d] # Top(letters, k)
             /\ letters[k].answers \in DOMAIN filed /\ c = filed[letters[k].answers].conv
          \/ /\ DOMAIN threads' = DOMAIN threads \cup {c} /\ c \notin DOMAIN threads /\ threads'[c] = Top(letters, k)
             /\ \A d \in DOMAIN threads : threads[d] # Top(letters, k)
             /\ \A j \in DOMAIN filed : filed[j].id = letters[k].answers => letters[k].answers = 0
      <4>1. CASE found = {} BY <4>1, <2>4, <2>5, <2>17, <2>22, Zenon
      <4>2. CASE B # {} BY <4>2, <2>4, <2>14, <2>18, <2>19, Zenon
      <4>3. CASE B = {} /\ found # {} BY <4>3, <2>4, <2>5, <2>18, <2>20, Zenon
      <4>4. QED BY <4>1, <4>2, <4>3, Zenon
    <3>2. QED BY <3>1, <1>1, <1>5, <2>11, <2>23, <2>24, <2>25, Zenon DEF Stores
  <2>28. PICK N \in Nat : DOMAIN letters = 1 .. N /\ N <= MaxLetter
    <3>1. Len(letters) \in 0 .. MaxLetter /\ DOMAIN letters = 1 .. Len(letters) BY <1>2, PostFacts, Zenon
    <3>2. Len(letters) \in Nat /\ Len(letters) <= MaxLetter BY <3>1
    <3>3. QED BY <3>1, <3>2, Zenon
  <2>29. Fst(letters, k) \in Nat BY <1>3
  <2>30. Storing(letters, threads, threads', filed, filed', processed, k, c, N)
         BY <1>2, <2>27, <2>28, <2>29, Zenon DEF Storing
  <2>31. LettersOK(letters, filed', processed \cup {k}) /\ FilesOK(letters, threads', filed') BY <2>30, StoresFiles, Zenon
  <2>32. ThreadsOK(letters, threads', filed') BY <2>30, StoresThreads, Zenon
  <2>33. Enough(letters, threads', filed') BY <2>30, <1>2, StoresEnough, Zenon
  <2>34. ASSUME strayed' = FALSE PROVE Joined(letters, threads', filed')
    <3>1. strayed = FALSE /\ (a \in DOMAIN letters => \E j \in DOMAIN filed : filed[j].id = a)
          BY <2>10, <2>34, <1>2, Zenon
    <3>2. letters[k].answers \in DOMAIN letters => \E j \in DOMAIN filed : filed[j].id = letters[k].answers
          BY <3>1, <2>5, Zenon
    <3>3. Joined(letters, threads, filed) BY <3>1, <1>2, Zenon
    <3>4. QED BY <3>2, <3>3, <2>30, StoresJoined, Zenon
  <2>35. strayed' \in BOOLEAN BY <2>10, Zenon
  <2>36. processed \cup {k} \subseteq DOMAIN letters BY <1>1, <1>2, Zenon
  <2>37. QED BY <1>1, <1>2, <2>23, <2>26, <2>31, <2>32, <2>33, <2>34, <2>35, <2>36, Zenon DEF ThreadInv, ThreadTypes
<1>6. QED BY <1>1, <1>3, <1>4, <1>5, Zenon

\* Nothing is written yet.
LEMMA ThreadInit == ASSUME MaxLetter \in Nat, Threads!Init PROVE ThreadInv
<1>1. letters = <<>> /\ threads = <<>> /\ filed = <<>> /\ processed = {} /\ strayed = FALSE BY Zenon DEF Threads!Init
<1>2. DOMAIN letters = {} /\ DOMAIN threads = {} /\ DOMAIN filed = {} BY <1>1
<1>3. Post(letters)
  <2>1. PICK A : A = LetterSet BY Zenon
  <2>2. letters \in Seq(A) /\ Len(letters) = 0 BY <1>1
  <2>3. 0 \in 0 .. MaxLetter OBVIOUS
  <2>4. QED BY <2>1, <2>2, <2>3, Zenon DEF Post
<1>4. threads \in Seq(Int) BY <1>1
<1>5. Files(filed)
  <2>1. PICK A : A = [conv : Nat, id : Int] BY Zenon
  <2>2. filed \in [DOMAIN filed -> A] BY <1>1, <1>2
  <2>3. QED BY <2>1, <2>2, Zenon DEF Files
<1>6. QED
      BY <1>1, <1>2, <1>3, <1>4, <1>5, Zenon
      DEF ThreadInv, ThreadTypes, LettersOK, FilesOK, ThreadsOK, Joined, Enough

\* Every step keeps the letters in order.
LEMMA ThreadStep ==
    ASSUME MaxLetter \in Nat, MAX_EMAIL_REFERENCES \in Nat, ThreadInv, Threads!Next \/ UNCHANGED tvars
    PROVE  ThreadInv'
<1>1. CASE UNCHANGED tvars
  <2>1. letters' = letters /\ threads' = threads /\ filed' = filed /\ processed' = processed /\ strayed' = strayed
        BY <1>1, Zenon DEF tvars
  <2>2. QED BY <2>1, Zenon DEF ThreadInv, ThreadTypes
<1>2. ASSUME NEW by \in {"customer", "program"}, NEW k \in 0 .. Threads!Elsewhere, NEW lists \in BOOLEAN, NEW id \in BOOLEAN,
             k \in Threads!Written \cup {0, Threads!Elsewhere}, k = 0 => ~lists, Threads!Write(by, k, lists, id)
      PROVE  ThreadInv'
  <2>1. k \in DOMAIN letters \cup {0, Far} BY <1>2, Zenon DEF Threads!Written, Threads!Elsewhere, Far
  <2>2. QED BY <1>2, <2>1, WriteStep, Zenon
<1>3. ASSUME NEW c \in DOMAIN threads, Threads!ReplyIn(c) PROVE ThreadInv' BY <1>3, ReplyStep, Zenon
<1>4. ASSUME NEW k \in Threads!Written, Threads!Store(k) \/ Threads!Send(k) \/ Threads!MarkSent(k) PROVE ThreadInv'
      BY <1>4, StoreStep, SendStep, MarkStep, Zenon
<1>5. CASE Threads!Next BY <1>2, <1>3, <1>4, <1>5, Zenon DEF Threads!Next
<1>6. QED BY <1>1, <1>5, Zenon

\* What the invariants are for.
LEMMA ThreadImplies ==
    ASSUME MaxLetter \in Nat, ThreadInv
    PROVE  Threads!TypeOK /\ Threads!AnswersJoinTheirLetter /\ Threads!FirstReferenceIsEnough
<1>1. Threads!Written = DOMAIN letters /\ Threads!Filed = DOMAIN filed /\ Threads!Elsewhere = Far
      BY Zenon DEF Threads!Written, Threads!Filed, Threads!Elsewhere, Far
<1>2. \A k \in DOMAIN letters : /\ letters[k].by \in {"customer", "program", "agent"} /\ letters[k].answers \in 0 .. Far
                                /\ letters[k].refs \in Seq(1 .. Far) /\ letters[k].rooted \in BOOLEAN
      BY ThreadFacts, PostFacts, Zenon
<1>3. \A k \in DOMAIN letters : \A i \in DOMAIN letters[k].refs : letters[k].refs[i] \in 1 .. Far
  <2>1. TAKE k \in DOMAIN letters
  <2>2. PICK A, r : A = 1 .. Far /\ r = letters[k].refs /\ r \in Seq(A) BY <1>2, Zenon
  <2>3. \A i \in DOMAIN r : r[i] \in A
    <3>1. r \in Seq(A) BY <2>2, Zenon
    <3>2. QED BY ONLY <3>1
  <2>4. QED BY <2>2, <2>3, Zenon
<1>4. Threads!TypeOK
  <2>1. /\ DOMAIN filed \subseteq DOMAIN letters /\ processed \subseteq DOMAIN letters
        /\ \A k \in DOMAIN filed : filed[k].conv \in DOMAIN threads /\ filed[k].id \in {0, k, -k}
        BY ThreadFacts, Zenon DEF FilesOK
  <2>2. QED BY <1>1, <1>2, <1>3, <2>1, Zenon DEF Threads!TypeOK
<1>5. Threads!AnswersJoinTheirLetter
  <2>1. SUFFICES ASSUME ~strayed, NEW k \in DOMAIN filed, letters[k].by = "customer", letters[k].answers \in DOMAIN letters
                 PROVE  filed[k].conv = filed[letters[k].answers].conv
        BY <1>1, Zenon DEF Threads!AnswersJoinTheirLetter
  <2>2. strayed = FALSE BY <2>1, ThreadFacts, Zenon
  <2>3. Joined(letters, threads, filed) BY <2>2, ThreadFacts, Zenon
  <2>4. QED BY <2>1, <2>3, Zenon DEF Joined
<1>6. Threads!FirstReferenceIsEnough
  <2>1. SUFFICES ASSUME NEW k \in DOMAIN filed, letters[k].by = "customer", letters[k].answers \in DOMAIN letters,
                        letters[k].refs # <<>>, letters[letters[k].answers].rooted
                 PROVE  filed[k].conv = filed[letters[k].answers].conv
        BY <1>1, Zenon DEF Threads!FirstReferenceIsEnough
  <2>2. letters[letters[k].answers].rooted = TRUE BY <2>1, <1>2, Zenon
  <2>3. Fst(letters, k) # 0
    <3>1. k \in DOMAIN letters BY ThreadFacts, Zenon
    <3>2. Head(letters[k].refs) \in 1 .. Far BY <2>1, <3>1, <1>2, HeadType, Zenon
    <3>3. 0 \notin 1 .. Far OBVIOUS
    <3>4. QED BY <2>1, <3>2, <3>3, Zenon DEF Fst
  <2>4. Enough(letters, threads, filed) BY ThreadFacts, Zenon
  <2>5. QED BY <2>1, <2>2, <2>3, <2>4, Zenon DEF Enough
<1>7. QED BY <1>4, <1>5, <1>6, Zenon

(* The conversations stay in order, for any number of messages, customers, agents and requests   *)
(* and for threads of any length, in whatever order letters are stored: a chat sender has one    *)
(* unresolved conversation, its last message is the latest, automatic assignment honours the     *)
(* limit of an agent and round robin gives every agent a turn (ingest and assign of the          *)
(* conversation ingest service); an answer by e-mail is stored with the letter it answers, even  *)
(* when that reply was never recorded (buildIntent and findEmailThread).                         *)
THEOREM ConversationsStayInOrder == Spec => []ConversationsAreInOrder
<1> USE LettersAssumption
<1>1. MaxLetter \in Nat /\ MAX_EMAIL_REFERENCES \in Nat OBVIOUS
<1>2. Init => CoreInv /\ ThreadInv
  <2>1. Init => Core!Init /\ Threads!Init BY Zenon DEF Init
  <2>2. QED BY <1>1, <2>1, CoreInit, ThreadInit, Zenon
<1>3. CoreInv /\ ThreadInv /\ [Next]_vars => CoreInv' /\ ThreadInv'
  <2>1. [Next]_vars => Core!Next \/ UNCHANGED cvars BY Zenon DEF Next, vars
  <2>2. [Next]_vars => Threads!Next \/ UNCHANGED tvars BY Zenon DEF Next, vars
  <2>3. QED BY <1>1, <2>1, <2>2, CoreStep, ThreadStep, Zenon
<1>4. CoreInv /\ ThreadInv => ConversationsAreInOrder
      BY <1>1, CoreImplies, ThreadImplies, Zenon DEF ConversationsAreInOrder
<1>5. QED BY <1>2, <1>3, <1>4, PTL DEF Spec

=============================================================================
