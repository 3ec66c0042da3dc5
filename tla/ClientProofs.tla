---------------------------- MODULE ClientProofs ----------------------------
(***************************************************************************)
(* Proofs about the web client (module MCClient), for any number of        *)
(* accounts, conversations, inboxes, tabs and faults.  Each part has its   *)
(* own inductive invariant; a step of one part leaves the others alone.    *)
(***************************************************************************)
EXTENDS MCClient, Integers, Sequences, FiniteSets, FiniteSetTheorems, WellFoundedInduction, TLAPS

-----------------------------------------------------------------------------
(* The session *)

\* Nothing but AuthProvider itself knows of dev sessions.
Told == Session!Maybe \ {"dev"}

SessTypes ==
    /\ session \in Session!Maybe /\ cookie \in Session!Maybe /\ supa \in Told
    /\ actor \in [of : Session!Maybe, kind : {"none", "api", "preview"}] /\ mode \in {"preview", "connected"}
    /\ boot \in [at : {"idle", "asked", "done", "failed"}, got : Told]
    /\ told \in Told \cup {"nothing"} /\ asks \subseteq Session!Session
    /\ call \in [op : {"none", "signIn", "signedIn", "dev", "out", "signedOut"}, got : Account \cup {"none"}]
    /\ page \in Path \cup {"/login"} /\ returnUrl \in Path

SessFlags == devActive \in BOOLEAN /\ devStored \in BOOLEAN /\ overtaken \in BOOLEAN

\* Unless a session was overtaken, only its own actor is asked for or shown.
SessOne ==
    ~overtaken => /\ asks \subseteq {session}
                  /\ asks = {} => actor.of \in {"none", session}
                  /\ boot.at = "done" => cookie \in {"none", session}

SessDev == (session = "dev" => devActive) /\ (call.op = "signedIn" => call.got \in Account)

SessInv == SessTypes /\ SessFlags /\ SessOne /\ SessDev

\* What DevSessionStays says of a step.
DevStays == session = "dev" /\ session' = "none" /\ boot.at = "done" /\ boot'.at = "done" => call.op = "signedOut"

\* Nobody is signed in at first.
LEMMA SessInit == ASSUME Session!Init PROVE SessInv
BY NamesAssumption DEF Session!Init, SessInv, SessTypes, SessFlags, SessOne, SessDev, Told, Session!Maybe, Session!Session,
   Session!NoActor, Session!Boot, Session!NoCall

\* A session is taken with its cookie, and its actor is known or asked for.
LEMMA TakeStep ==
    ASSUME SessInv, NEW s \in Session!Maybe, Session!Take(s)
    PROVE  /\ session' = s /\ cookie' = s /\ asks' \subseteq Session!Session /\ overtaken' \in BOOLEAN
           /\ actor' \in [of : Session!Maybe, kind : {"none", "api", "preview"}] /\ mode' \in {"preview", "connected"}
           /\ ~overtaken' => asks' \subseteq {s} /\ (asks' = {} => actor'.of \in {"none", s})
<1>1. session' = s /\ cookie' = s BY DEF Session!Take, Session!resolveActorFromSession, Session!syncAuthCookie
<1>2. overtaken' \in BOOLEAN BY Zenon DEF Session!Take, SessInv, SessFlags
<1>3. ~overtaken' => asks \subseteq {s} BY DEF Session!Take
<1>4. CASE s \in Account \cup {"dev"}
  <2>1. asks' = asks \cup {s} /\ UNCHANGED <<actor, mode>> BY <1>4 DEF Session!Take, Session!resolveActorFromSession
  <2>2. s \in Session!Session BY <1>4 DEF Session!Session
  <2> QED BY <1>1, <1>2, <1>3, <2>1, <2>2 DEF SessInv, SessTypes
<1>5. CASE s \notin Account \cup {"dev"}
  <2>1. asks' = asks /\ mode' = "preview" /\ actor' = Session!ActorAtOnce(s)
    BY <1>5 DEF Session!Take, Session!resolveActorFromSession
  <2>2. actor' \in [of : Session!Maybe, kind : {"none", "api", "preview"}] /\ actor'.of \in {"none", s}
    BY <2>1 DEF Session!ActorAtOnce, Session!NoActor, Session!buildPreviewActor, Session!Maybe
  <2> QED BY <1>1, <1>2, <1>3, <2>1, <2>2 DEF SessInv, SessTypes
<1> QED BY <1>4, <1>5


\* Answers of GET /auth/me.
LEMMA MeSteps ==
    ASSUME SessInv, NEW s \in Session!Session, Session!MeAnswered(s) \/ Session!MeUnreachable(s) \/ Session!MeRefused(s)
    PROVE  SessInv' /\ DevStays
<1>1. /\ s \in asks /\ asks' = asks \ {s}
      /\ UNCHANGED <<session, devActive, devStored, supa, boot, told, call, page, returnUrl, overtaken>>
      /\ cookie' \in {"none", cookie} /\ actor'.of \in {"none", s} /\ mode' \in {"preview", "connected"}
      /\ actor' \in [of : Session!Maybe, kind : {"none", "api", "preview"}]
  BY DEF Session!MeAnswered, Session!MeUnreachable, Session!MeRefused, Session!where, Session!NoActor,
         Session!buildPreviewActor, Session!syncAuthCookie, Session!Maybe
<1>2. SessTypes' BY <1>1 DEF SessInv, SessTypes, Session!Maybe
<1>3. SessFlags' BY <1>1, Zenon DEF SessInv, SessFlags
<1>4. SessOne' BY <1>1 DEF SessInv, SessOne
<1>5. SessDev' BY <1>1, Zenon DEF SessInv, SessDev
<1> QED BY <1>1, <1>2, <1>3, <1>4, <1>5 DEF SessInv, DevStays

\* Steps that leave what AuthProvider keeps in memory alone.
LEMMA OutsideSteps ==
    ASSUME SessInv, UNCHANGED <<session, actor, mode, asks, overtaken, devActive, cookie>>,
           boot' = boot \/ (boot'.at # "done" /\ boot' \in [at : {"idle", "asked", "done", "failed"}, got : Told]),
           supa' \in Told, told' \in Told \cup {"nothing"}, devStored' \in BOOLEAN,
           call' \in [op : {"none", "signIn", "signedIn", "dev", "out", "signedOut"}, got : Account \cup {"none"}],
           call'.op = "signedIn" => call'.got \in Account, page' \in Path \cup {"/login"}, returnUrl' \in Path
    PROVE  SessInv' /\ DevStays
<1>1. SessTypes' BY DEF SessInv, SessTypes
<1>2. SessFlags' BY Zenon DEF SessInv, SessFlags
<1>3. SessOne' BY DEF SessInv, SessOne
<1>4. SessDev' BY DEF SessInv, SessDev
<1>5. DevStays BY DEF DevStays
<1> QED BY <1>1, <1>2, <1>3, <1>4, <1>5 DEF SessInv

\* Steps that take a session: a dev session is taken as such, and lost only in the ways it may be.
LEMMA TakingSteps ==
    ASSUME SessInv, NEW s \in Session!Maybe, Session!Take(s),
           boot' \in [at : {"idle", "asked", "done", "failed"}, got : Told], supa' \in Told,
           told' \in Told \cup {"nothing"}, devStored' \in BOOLEAN, devActive' \in BOOLEAN,
           call' \in [op : {"none", "signIn", "signedIn", "dev", "out", "signedOut"}, got : Account \cup {"none"}],
           call'.op = "signedIn" => call'.got \in Account, page' \in Path \cup {"/login"}, returnUrl' \in Path,
           s = "dev" => devActive', s = "none" => ~devActive \/ boot.at # "done" \/ call.op = "signedOut"
    PROVE  SessInv' /\ DevStays
<1>1. SessTypes' BY TakeStep DEF SessInv, SessTypes
<1>2. SessFlags' BY TakeStep, Zenon DEF SessInv, SessFlags
<1>3. SessOne' BY TakeStep DEF SessInv, SessOne
<1>4. SessDev' BY TakeStep DEF SessInv, SessDev
<1>5. DevStays
  <2>1. session' = s BY TakeStep
  <2> QED BY <2>1 DEF DevStays, SessInv, SessDev
<1> QED BY <1>1, <1>2, <1>3, <1>4, <1>5 DEF SessInv

\* initAuth and what Supabase tells.
LEMMA BootSteps ==
    ASSUME SessInv,
           \/ Session!BootDev \/ Session!BootAsk \/ Session!BootFails
           \/ \E s \in Session!Maybe : Session!BootAnswered(s) \/ Session!AuthStateChanges(s)
    PROVE  SessInv' /\ DevStays
<1> USE NamesAssumption DEF SessInv, SessTypes, SessFlags, Session!Boot, Session!where, Session!memory, Told, Session!Maybe,
        Session!Session
<1>1. CASE Session!BootDev
  <2>1. Session!Take("dev") /\ boot' = [at |-> "done", got |-> "none"] /\ devActive' = TRUE
        /\ UNCHANGED <<devStored, supa, told, call, page, returnUrl>>
    BY <1>1 DEF Session!BootDev
  <2>2. "dev" \in Session!Maybe OBVIOUS
  <2>3. devStored' \in BOOLEAN /\ devActive' \in BOOLEAN BY <2>1, Zenon
  <2>4. devActive' BY <2>1, Zenon
  <2> QED BY <2>1, <2>2, <2>3, <2>4, TakingSteps DEF SessDev
<1>2. CASE Session!BootAsk
  <2>1. /\ UNCHANGED <<session, actor, mode, asks, overtaken, devActive, cookie, devStored, supa, told, call, page, returnUrl>>
        /\ boot' = [at |-> "asked", got |-> supa]
    BY <1>2 DEF Session!BootAsk
  <2>2. devStored' \in BOOLEAN BY <2>1, Zenon
  <2> QED BY <2>1, <2>2, OutsideSteps DEF SessDev
<1>3. CASE Session!BootFails
  <2>1. /\ UNCHANGED <<session, actor, mode, asks, overtaken, devActive, cookie, devStored, supa, told, call, page, returnUrl>>
        /\ boot' = [at |-> "failed", got |-> "none"]
    BY <1>3 DEF Session!BootFails
  <2>2. devStored' \in BOOLEAN BY <2>1, Zenon
  <2> QED BY <2>1, <2>2, OutsideSteps DEF SessDev
<1>4. ASSUME NEW s \in Session!Maybe, Session!BootAnswered(s) PROVE SessInv' /\ DevStays
  <2>1. Session!Take(s) /\ boot' = [at |-> "done", got |-> "none"] /\ boot = [at |-> "asked", got |-> s]
        /\ UNCHANGED <<devActive, devStored, supa, told, call, page, returnUrl>>
    BY <1>4 DEF Session!BootAnswered
  <2>2. s # "dev" /\ boot.at # "done" BY <2>1
  <2>3. devStored' \in BOOLEAN /\ devActive' \in BOOLEAN BY <2>1, Zenon
  <2> QED BY <2>1, <2>2, <2>3, TakingSteps DEF SessDev
<1>5. ASSUME NEW s \in Session!Maybe, Session!AuthStateChanges(s) PROVE SessInv' /\ DevStays
  <2>1. /\ told = s /\ told' = "nothing" /\ UNCHANGED <<devActive, devStored, supa, boot, call, page, returnUrl>>
        /\ IF Session!Ignored(s) THEN UNCHANGED <<session, actor, mode, asks, overtaken, cookie>> ELSE Session!Take(s)
    BY <1>5 DEF Session!AuthStateChanges
  <2>2. devStored' \in BOOLEAN /\ devActive' \in BOOLEAN BY <2>1, Zenon
  <2>3. CASE Session!Ignored(s) BY <2>1, <2>2, <2>3, OutsideSteps DEF SessDev
  <2>4. CASE ~Session!Ignored(s)
    <3>1. s # "dev" BY <2>1
    <3>2. s = "none" => ~devActive BY <2>4 DEF Session!Ignored
    <3> QED BY <2>1, <2>2, <2>4, <3>1, <3>2, TakingSteps DEF SessDev
  <2> QED BY <2>3, <2>4
<1> QED BY <1>1, <1>2, <1>3, <1>4, <1>5


\* Steps of Supabase and requests that begin or fail: AuthProvider has not heard of them.
LEMMA RequestSteps ==
    ASSUME SessInv,
           \/ Session!SupabaseRefreshes \/ Session!DevSessionExpires \/ Session!signIn \/ Session!CallFails
           \/ Session!signInDevSession \/ Session!signOut \/ Session!SupabaseSignsOut \/ Session!LoginRedirects
           \/ \E s \in Account : Session!SupabaseSignsIn(s)
           \/ \E p \in Path : Session!Follow(p)
    PROVE  SessInv' /\ DevStays
<1> USE NamesAssumption DEF SessInv, SessTypes, Session!where, Session!memory, Told, Session!Maybe, Session!Session,
        Session!NoCall
<1>1. CASE Session!SupabaseRefreshes
  <2>1. /\ UNCHANGED <<session, actor, mode, asks, overtaken, devActive, cookie, devStored, boot, call, page, returnUrl>>
        /\ supa' \in Told /\ told' \in Told
    BY <1>1 DEF Session!SupabaseRefreshes
  <2>2. devStored' \in BOOLEAN BY <2>1, Zenon DEF SessFlags
  <2> QED BY <2>1, <2>2, OutsideSteps DEF SessDev
<1>2. CASE Session!DevSessionExpires
  <2>1. /\ UNCHANGED <<session, actor, mode, asks, overtaken, devActive, cookie, supa, told, boot, call, page, returnUrl>>
        /\ devStored' = FALSE
    BY <1>2 DEF Session!DevSessionExpires
  <2>2. devStored' \in BOOLEAN BY <2>1, Zenon
  <2> QED BY <2>1, <2>2, OutsideSteps DEF SessDev
<1>3. CASE Session!signIn \/ Session!signInDevSession \/ Session!signOut \/ Session!CallFails
  <2>1. /\ UNCHANGED <<session, actor, mode, asks, overtaken, devActive, cookie, devStored, supa, told, boot, page, returnUrl>>
        /\ \E op \in {"none", "signIn", "dev", "out"} : call' = [op |-> op, got |-> "none"]
    BY <1>3 DEF Session!signIn, Session!signInDevSession, Session!signOut, Session!CallFails, Session!Asking
  <2>2. devStored' \in BOOLEAN BY <2>1, Zenon DEF SessFlags
  <2> QED BY <2>1, <2>2, OutsideSteps
<1>4. CASE Session!SupabaseSignsOut
  <2>1. /\ UNCHANGED <<session, actor, mode, asks, overtaken, devActive, cookie, devStored, boot, page, returnUrl>>
        /\ supa' \in Told /\ told' \in Told \cup {"nothing"} /\ call' = [call EXCEPT !.op = "signedOut"]
    BY <1>4 DEF Session!SupabaseSignsOut
  <2>2. devStored' \in BOOLEAN BY <2>1, Zenon DEF SessFlags
  <2> QED BY <2>1, <2>2, OutsideSteps
<1>5. CASE Session!LoginRedirects
  <2>1. /\ UNCHANGED <<session, actor, mode, asks, overtaken, devActive, cookie, devStored, supa, told, boot, call, returnUrl>>
        /\ page' = returnUrl
    BY <1>5 DEF Session!LoginRedirects
  <2>2. devStored' \in BOOLEAN BY <2>1, Zenon DEF SessFlags
  <2> QED BY <2>1, <2>2, OutsideSteps DEF SessDev
<1>6. ASSUME NEW s \in Account, Session!SupabaseSignsIn(s) PROVE SessInv' /\ DevStays
  <2>1. /\ UNCHANGED <<session, actor, mode, asks, overtaken, devActive, cookie, devStored, boot, page, returnUrl>>
        /\ supa' = s /\ told' = s /\ call' = [op |-> "signedIn", got |-> s]
    BY <1>6 DEF Session!SupabaseSignsIn
  <2>2. devStored' \in BOOLEAN BY <2>1, Zenon DEF SessFlags
  <2> QED BY <2>1, <2>2, OutsideSteps
<1>7. ASSUME NEW p \in Path, Session!Follow(p) PROVE SessInv' /\ DevStays
  <2>1. /\ UNCHANGED <<session, actor, mode, asks, overtaken, devActive, cookie, devStored, supa, told, boot, call>>
        /\ page' \in Path \cup {"/login"} /\ returnUrl' \in Path
    BY <1>7 DEF Session!Follow, Session!Navigate
  <2>2. devStored' \in BOOLEAN BY <2>1, Zenon DEF SessFlags
  <2> QED BY <2>1, <2>2, OutsideSteps DEF SessDev
<1> QED BY <1>1, <1>2, <1>3, <1>4, <1>5, <1>6, <1>7

\* AuthProvider signs in or out, or takes a session that was refreshed.
LEMMA SignSteps ==
    ASSUME SessInv,
           \/ Session!refreshSession \/ Session!SignInReturns \/ Session!signInDemo \/ Session!DevSessionIssued
           \/ Session!SignedOut
    PROVE  SessInv' /\ DevStays
<1> USE NamesAssumption DEF SessInv, SessTypes, SessFlags, Session!where, Told, Session!Maybe, Session!Session, Session!NoCall
<1>1. CASE Session!refreshSession
  <2>1. Session!Take(supa) /\ supa \in Account /\ UNCHANGED <<devActive, devStored, supa, boot, told, call, page, returnUrl>>
    BY <1>1 DEF Session!refreshSession
  <2>2. devStored' \in BOOLEAN /\ devActive' \in BOOLEAN BY <2>1, Zenon
  <2>3. supa \in Session!Maybe /\ supa # "dev" /\ supa # "none" BY <2>1
  <2> QED BY <2>1, <2>2, <2>3, TakingSteps DEF SessDev
<1>2. CASE Session!SignInReturns
  <2>1. /\ Session!Take(call.got) /\ call.op = "signedIn" /\ call' = [op |-> "none", got |-> "none"]
        /\ UNCHANGED <<devActive, devStored, supa, boot, told, page, returnUrl>>
    BY <1>2 DEF Session!SignInReturns
  <2>2. devStored' \in BOOLEAN /\ devActive' \in BOOLEAN BY <2>1, Zenon
  <2>3. call.got \in Session!Maybe /\ call.got # "dev" /\ call.got # "none" BY <2>1 DEF SessDev
  <2> QED BY <2>1, <2>2, <2>3, TakingSteps
<1>3. CASE Session!signInDemo
  <2>1. /\ Session!Take("demo") /\ supa' = "demo" /\ page' = returnUrl
        /\ UNCHANGED <<devActive, devStored, boot, told, call, returnUrl>>
    BY <1>3 DEF Session!signInDemo
  <2>2. devStored' \in BOOLEAN /\ devActive' \in BOOLEAN BY <2>1, Zenon
  <2>3. "demo" \in Session!Maybe OBVIOUS
  <2> QED BY <2>1, <2>2, <2>3, TakingSteps DEF SessDev
<1>4. CASE Session!DevSessionIssued
  <2>1. /\ Session!Take("dev") /\ call' = [op |-> "none", got |-> "none"]
        /\ UNCHANGED <<supa, boot, told, page, returnUrl>>
    BY <1>4 DEF Session!DevSessionIssued
  <2>2. devStored' \in BOOLEAN /\ devActive' \in BOOLEAN BY <1>4, Zenon DEF Session!DevSessionIssued
  <2>3. devActive' BY <1>4, Zenon DEF Session!DevSessionIssued
  <2>4. "dev" \in Session!Maybe OBVIOUS
  <2> QED BY <2>1, <2>2, <2>3, <2>4, TakingSteps
<1>5. CASE Session!SignedOut
  <2>1. /\ Session!Take("none") /\ call.op = "signedOut" /\ call' = [op |-> "none", got |-> "none"] /\ supa' = "none"
        /\ UNCHANGED <<boot, told, page, returnUrl>>
    BY <1>5 DEF Session!SignedOut
  <2>2. devStored' \in BOOLEAN /\ devActive' \in BOOLEAN BY <1>5, Zenon DEF Session!SignedOut
  <2>3. "none" \in Session!Maybe OBVIOUS
  <2> QED BY <2>1, <2>2, <2>3, TakingSteps
<1> QED BY <1>1, <1>2, <1>3, <1>4, <1>5

\* The page is loaded again, with what the browser stores.
LEMMA ReloadStep == ASSUME SessInv, NEW p \in Path, Session!Reload(p) PROVE SessInv' /\ DevStays
<1>1. /\ session' = "none" /\ actor' = [of |-> "none", kind |-> "none"] /\ mode' = "preview"
      /\ boot' = [at |-> "idle", got |-> "none"] /\ told' = "nothing" /\ asks' = {}
      /\ call' = [op |-> "none", got |-> "none"] /\ UNCHANGED <<cookie, supa>>
      /\ page' \in Path \cup {"/login"} /\ returnUrl' \in Path
  BY DEF Session!Reload, Session!Navigate, SessInv, SessTypes, Session!NoActor, Session!Boot, Session!NoCall
<1>2. SessTypes' BY <1>1 DEF SessInv, SessTypes, Told, Session!Maybe
<1>3. SessFlags' BY Zenon DEF SessInv, SessFlags, Session!Reload
<1>4. SessOne' BY <1>1 DEF SessOne
<1>5. SessDev' BY <1>1 DEF SessDev
<1>6. DevStays BY <1>1 DEF DevStays
<1> QED BY <1>2, <1>3, <1>4, <1>5, <1>6 DEF SessInv

\* Every step of the session.
LEMMA SessNext == ASSUME SessInv, Session!Next PROVE SessInv' /\ DevStays
BY MeSteps, BootSteps, RequestSteps, SignSteps, ReloadStep DEF Session!Next

\* What the invariant says about the session in use.
LEMMA SessFacts == ASSUME SessInv PROVE Session!TypeOK /\ Session!SessionIsOne
<1>1. Session!SessionIsOne BY DEF SessInv, SessOne, Session!SessionIsOne
<1>2. devActive \in BOOLEAN /\ devStored \in BOOLEAN /\ overtaken \in BOOLEAN BY Zenon DEF SessInv, SessFlags
<1>3. /\ boot \in [at : {"idle", "asked", "done", "failed"}, got : Session!Maybe]
      /\ call \in [op : {"none", "signIn", "signedIn", "dev", "out", "signedOut"}, got : Session!Maybe]
  BY DEF SessInv, SessTypes, Told, Session!Maybe, Session!Session
<1>4. Session!TypeOK BY <1>2, <1>3 DEF SessInv, SessTypes, Session!TypeOK, Told
<1> QED BY <1>1, <1>4


-----------------------------------------------------------------------------
(* The store of AI agents *)

\* Two lists of agents that are the same but for the records the schema refuses.
Agree(f, g) == DOMAIN f \ broken = DOMAIN g \ broken /\ \A a \in DOMAIN f \ broken : f[a] = g[a]

\* The shelves that tabs read and write.
InUse == IF storage = "ok" THEN {"local"} ELSE Tab

ShelvesInv ==
    /\ storage \in {"ok", "blocked"} /\ used \subseteq Agent /\ Seed \subseteq used /\ broken \subseteq used
    /\ DOMAIN shelf = Store!Shelf /\ confirmed = [s \in Store!Shelf |-> confirmed[s]]
    /\ \A s \in Store!Shelf : /\ Store!IsAgents(shelf[s].agents) /\ DOMAIN shelf[s].agents \subseteq used
                              /\ Store!IsAgents(confirmed[s]) /\ DOMAIN confirmed[s] \subseteq used
    /\ "local" \notin InUse => shelf["local"].agents = Store!Empty.agents /\ broken = {}
    /\ \A s \in InUse : /\ shelf[s].null => broken = {} /\ shelf[s].agents = Store!Empty.agents /\ confirmed[s] = Store!Seeds
                        /\ ~shelf[s].null => Agree(shelf[s].agents, confirmed[s])

NullFlags == \A s \in Store!Shelf : shelf[s].null \in BOOLEAN

File == [item : Store!Item, base : SUBSET Store!Item] \cup {Store!NoFile}

EditorInv ==
    /\ open \in [Tab -> {0} \cup Agent]
    /\ cache \in [Tab -> [there : {"unknown", "gone", "yes"}, rec : Store!Record]]
    /\ draft \in [Tab -> Store!Draft]
    /\ reading \in [Tab -> File]
    /\ edits \in 0 .. MaxEdit

StoreInv == ShelvesInv /\ NullFlags /\ EditorInv

\* What DraftKeepsItems says of a step.
ItemsKept ==
    \A t \in Tab :
        (Store!Editing(t) /\ Store!Editing(t)' /\ open'[t] = open[t]) =>
            draft[t].knowledge \subseteq draft'[t].knowledge \/ \E i \in Store!Item : Store!RemoveItem(t, i)

\* A new agent, and the examples.
LEMMA NewTypes == Store!New \in Store!Record /\ Store!IsAgents(Store!Seeds) /\ Store!DraftOf(Store!New) \in Store!Draft
<1>1. FALSE \in BOOLEAN /\ TRUE \in BOOLEAN OBVIOUS
<1>2. 0 \in 0 .. MaxEdit BY StoreAssumption
<1>3. Store!New \in Store!Record BY <1>2 DEF Store!New, Store!Record, Store!Item
<1>4. Store!DraftOf(Store!New) \in Store!Draft BY <1>2 DEF Store!New, Store!DraftOf, Store!Draft, Store!Item
<1>5. DOMAIN Store!Seeds \subseteq Agent /\ Store!Seeds \in [DOMAIN Store!Seeds -> Store!Record]
  BY <1>3, StoreAssumption DEF Store!Seeds
<1> QED BY <1>3, <1>4, <1>5 DEF Store!IsAgents

\* The storage is empty at first.
LEMMA StoreInit == ASSUME Store!Init PROVE StoreInv
<1>1. EditorInv
  BY NewTypes, StoreAssumption DEF Store!Init, EditorInv, Store!NoData, File, Store!Item
<1>2. NullFlags BY Zenon DEF Store!Init, NullFlags, Store!Empty
<1>3. \A s \in Store!Shelf : shelf[s] = Store!Empty /\ confirmed[s] = Store!Seeds BY DEF Store!Init
<1>4. /\ Store!IsAgents(Store!Empty.agents) /\ DOMAIN Store!Empty.agents = {}
  BY DEF Store!IsAgents, Store!Empty
<1>5. Store!Empty.null BY Zenon DEF Store!Empty
<1>6. InUse \subseteq Store!Shelf BY DEF InUse, Store!Shelf
<1>7. DOMAIN Store!Seeds = Seed BY DEF Store!Seeds
<1>8. \A s \in InUse : shelf[s].null BY <1>3, <1>5, <1>6
<1>9. "local" \in Store!Shelf BY DEF Store!Shelf
<1>10. /\ storage \in {"ok", "blocked"} /\ used = Seed /\ broken = {}
       /\ DOMAIN shelf = Store!Shelf /\ confirmed = [s \in Store!Shelf |-> confirmed[s]]
  BY DEF Store!Init
<1>11. ShelvesInv BY <1>3, <1>4, <1>6, <1>7, <1>8, <1>9, <1>10, NewTypes, StoreAssumption DEF ShelvesInv
<1> QED BY <1>1, <1>2, <1>11 DEF StoreInv

\* The shelf of a tab is one in use.
LEMMA ShelfOfTab == ASSUME ShelvesInv, NEW t \in Tab PROVE Store!Of(t) \in InUse /\ InUse \subseteq Store!Shelf
BY DEF Store!Of, InUse, Store!Shelf, ShelvesInv

\* What a tab reads is what its users were told, but for the records that are refused.
LEMMA ReadIsConfirmed ==
    ASSUME ShelvesInv, NullFlags, NEW t \in Tab
    PROVE  /\ Store!readAll(t) = Store!Restrict(confirmed[Store!Of(t)], DOMAIN confirmed[Store!Of(t)] \ broken)
           /\ Store!IsAgents(Store!readAll(t)) /\ DOMAIN Store!readAll(t) = DOMAIN confirmed[Store!Of(t)] \ broken
           /\ \A a \in DOMAIN Store!readAll(t) : Store!readAll(t)[a] = confirmed[Store!Of(t)][a]
<1> DEFINE s == Store!Of(t)
           f == shelf[s].agents
           g == confirmed[s]
<1>1. s \in InUse /\ s \in Store!Shelf BY ShelfOfTab
<1>2. Store!IsAgents(f) /\ Store!IsAgents(g) BY <1>1 DEF ShelvesInv
<1>3. shelf[s].null => broken = {} /\ g = Store!Seeds BY <1>1 DEF ShelvesInv
<1>4. ~shelf[s].null => Agree(f, g) BY <1>1 DEF ShelvesInv
<1>5. Store!readAll(t) = IF shelf[s].null THEN Store!Seeds ELSE [a \in DOMAIN f \ broken |-> f[a]]
  BY DEF Store!readAll, Store!Restrict
<1>6. Store!Restrict(g, DOMAIN g \ broken) = [a \in DOMAIN g \ broken |-> g[a]] BY DEF Store!Restrict
<1> HIDE DEF s
<1>7. CASE shelf[s].null
  <2>1. Store!readAll(t) = Store!Seeds BY <1>5, <1>7
  <2>2. broken = {} /\ g = Store!Seeds BY <1>3, <1>7
  <2>3. g = [a \in DOMAIN g \ broken |-> g[a]] BY <2>2 DEF Store!Seeds
  <2> HIDE DEF f, g
  <2> QED BY <1>2, <1>6, <2>1, <2>2, <2>3 DEF g, s
<1>8. CASE ~shelf[s].null
  <2> HIDE DEF f, g
  <2>1. Store!readAll(t) = [a \in DOMAIN f \ broken |-> f[a]] BY <1>5, <1>8
  <2>2. [a \in DOMAIN f \ broken |-> f[a]] = [a \in DOMAIN g \ broken |-> g[a]] BY <1>4, <1>8 DEF Agree
  <2>3. Store!IsAgents([a \in DOMAIN g \ broken |-> g[a]]) BY <1>2 DEF Store!IsAgents
  <2> QED BY <1>6, <2>1, <2>2, <2>3 DEF g, s
<1> QED BY <1>7, <1>8


\* A shelf is written together with what its users are told.
LEMMA WriteShelf ==
    ASSUME ShelvesInv, NullFlags, NEW t \in Tab, NEW f, NEW g, Store!IsAgents(f), Store!IsAgents(g),
           shelf' = [shelf EXCEPT ![Store!Of(t)] = [null |-> FALSE, agents |-> f]],
           confirmed' = [confirmed EXCEPT ![Store!Of(t)] = g],
           used \subseteq used', used' \subseteq Agent, DOMAIN f \subseteq used', DOMAIN g \subseteq used',
           UNCHANGED <<storage, broken>>, Agree(f, g)
    PROVE  ShelvesInv' /\ NullFlags'
<1> DEFINE s == Store!Of(t)
           x == [null |-> FALSE, agents |-> f]
<1>1. s \in InUse /\ s \in Store!Shelf BY ShelfOfTab
<1>2. x.agents = f OBVIOUS
<1>3. ~x.null /\ x.null \in BOOLEAN BY Zenon
<1>4. shelf' = [shelf EXCEPT ![s] = x] /\ confirmed' = [confirmed EXCEPT ![s] = g] OBVIOUS
<1> HIDE DEF x, s
<1>5. shelf'[s] = x /\ \A r \in Store!Shelf \ {s} : shelf'[r] = shelf[r] BY <1>1, <1>4 DEF ShelvesInv
<1>6. confirmed'[s] = g /\ \A r \in Store!Shelf \ {s} : confirmed'[r] = confirmed[r] BY <1>1, <1>4 DEF ShelvesInv
<1>7. DOMAIN shelf' = Store!Shelf /\ confirmed' = [r \in Store!Shelf |-> confirmed'[r]] BY <1>4 DEF ShelvesInv
<1>8. InUse' = InUse BY DEF InUse
<1>9. \A r \in Store!Shelf : /\ Store!IsAgents(shelf'[r].agents) /\ DOMAIN shelf'[r].agents \subseteq used'
                             /\ Store!IsAgents(confirmed'[r]) /\ DOMAIN confirmed'[r] \subseteq used'
  BY <1>2, <1>5, <1>6 DEF ShelvesInv
<1>10. \A r \in InUse : r # s =>
         /\ shelf'[r].null => broken' = {} /\ shelf'[r].agents = Store!Empty.agents /\ confirmed'[r] = Store!Seeds
         /\ ~shelf'[r].null => Agree(shelf[r].agents, confirmed[r])'
  <2>1. InUse \subseteq Store!Shelf BY ShelfOfTab
  <2> QED BY <1>5, <1>6, <2>1, ZenonT(60) DEF ShelvesInv, Agree
<1>11. /\ ~shelf'[s].null /\ shelf'[s].agents = f /\ confirmed'[s] = g BY <1>2, <1>3, <1>5, <1>6
<1>12. "local" \notin InUse => shelf'["local"].agents = Store!Empty.agents /\ broken' = {}
  BY <1>1, <1>5 DEF ShelvesInv, Store!Shelf
<1>13. NullFlags' BY <1>3, <1>5, Zenon DEF NullFlags
<1>14. /\ storage' \in {"ok", "blocked"} /\ Seed \subseteq used' /\ broken' \subseteq used' BY DEF ShelvesInv
<1>15. ASSUME NEW r \in InUse
       PROVE  /\ shelf'[r].null => broken' = {} /\ shelf'[r].agents = Store!Empty.agents /\ confirmed'[r] = Store!Seeds
              /\ ~shelf'[r].null => Agree(shelf[r].agents, confirmed[r])'
  <2>1. CASE r = s BY <1>11, <2>1 DEF Agree
  <2> QED BY <1>10, <2>1
<1> QED BY <1>7, <1>8, <1>9, <1>12, <1>13, <1>14, <1>15 DEF ShelvesInv

\* Steps that leave the shelves alone.
LEMMA ShelvesKept ==
    ASSUME ShelvesInv, NullFlags, UNCHANGED <<storage, shelf, used, broken, confirmed>> PROVE ShelvesInv' /\ NullFlags'
BY DEF ShelvesInv, NullFlags, InUse, Agree

\* A list of agents with one record replaced or added.
LEMMA WithAgents ==
    ASSUME NEW f, Store!IsAgents(f), NEW a \in Agent, NEW rec \in Store!Record
    PROVE  /\ Store!IsAgents(Store!With(f, a, rec)) /\ DOMAIN Store!With(f, a, rec) = DOMAIN f \cup {a}
           /\ Store!With(f, a, rec)[a] = rec /\ \A b \in DOMAIN f \ {a} : Store!With(f, a, rec)[b] = f[b]
BY DEF Store!IsAgents, Store!With

\* update: the shelf and what was told get the same record of an agent that is there.
LEMMA UpdateWrites ==
    ASSUME StoreInv, NEW t \in Tab, NEW rec \in Store!Record, Store!update(t, rec), UNCHANGED <<storage, used, broken>>,
           Store!Confirm(t, open[t], rec)
    PROVE  /\ ShelvesInv' /\ NullFlags'
           /\ cache' = [cache EXCEPT ![t] = [there |-> "yes", rec |-> rec]]
<1> DEFINE a == open[t]
           f == Store!With(Store!readAll(t), a, rec)
           g == Store!With(confirmed[Store!Of(t)], a, rec)
<1>1. /\ a \in DOMAIN Store!readAll(t) /\ shelf' = [shelf EXCEPT ![Store!Of(t)] = [null |-> FALSE, agents |-> f]]
      /\ cache' = [cache EXCEPT ![t] = IF open[t] = 0 THEN Store!NoData ELSE Store!Data(f, open[t])]
      /\ confirmed' = [confirmed EXCEPT ![Store!Of(t)] = g]
  BY DEF Store!update, Store!writeAll, Store!Refreshed, Store!Confirm
<1>2. /\ Store!IsAgents(Store!readAll(t)) /\ DOMAIN Store!readAll(t) = DOMAIN confirmed[Store!Of(t)] \ broken
      /\ \A b \in DOMAIN Store!readAll(t) : Store!readAll(t)[b] = confirmed[Store!Of(t)][b]
  BY ReadIsConfirmed DEF StoreInv
<1>3. Store!Of(t) \in Store!Shelf BY ShelfOfTab DEF StoreInv
<1>4. Store!IsAgents(confirmed[Store!Of(t)]) /\ DOMAIN confirmed[Store!Of(t)] \subseteq used /\ used \subseteq Agent
  BY <1>3 DEF StoreInv, ShelvesInv
<1>5. a \in Agent /\ a # 0 BY <1>1, <1>2, <1>4, StoreAssumption
<1>6. /\ Store!IsAgents(f) /\ DOMAIN f = DOMAIN Store!readAll(t) \cup {a}
      /\ f[a] = rec /\ \A b \in DOMAIN Store!readAll(t) \ {a} : f[b] = Store!readAll(t)[b]
  BY <1>2, <1>5, WithAgents
<1>7. /\ Store!IsAgents(g) /\ DOMAIN g = DOMAIN confirmed[Store!Of(t)] \cup {a}
      /\ g[a] = rec /\ \A b \in DOMAIN confirmed[Store!Of(t)] \ {a} : g[b] = confirmed[Store!Of(t)][b]
  BY <1>4, <1>5, WithAgents, ZenonT(60)
<1> HIDE DEF f, g, a
<1>8. Agree(f, g) BY <1>1, <1>2, <1>6, <1>7 DEF Agree
<1>9. DOMAIN f \subseteq used' /\ DOMAIN g \subseteq used' BY <1>1, <1>2, <1>4, <1>6, <1>7
<1>10. used \subseteq used' /\ used' \subseteq Agent BY <1>4
<1>11. ShelvesInv' /\ NullFlags' BY <1>1, <1>6, <1>7, <1>8, <1>9, <1>10, WriteShelf DEF StoreInv
<1>12. Store!Data(f, a) = [there |-> "yes", rec |-> rec] BY <1>6 DEF Store!Data
<1> QED BY <1>1, <1>5, <1>11, <1>12 DEF a


\* The three changes of an open agent that are saved.
LEMMA SaveSteps ==
    ASSUME StoreInv, NEW t \in Tab, Store!saveGeneral(t) \/ Store!saveKnowledge(t) \/ Store!toggleStatus(t)
    PROVE  StoreInv' /\ ItemsKept
<1> DEFINE a == open[t]
           old == Store!readAll(t)[a]
<1>1. a \in DOMAIN Store!readAll(t)
  BY DEF Store!saveGeneral, Store!saveKnowledge, Store!toggleStatus, Store!update
<1>2. old \in Store!Record /\ old = confirmed[Store!Of(t)][a]
  BY <1>1, ReadIsConfirmed DEF StoreInv, Store!IsAgents
<1>3. /\ draft[t] \in Store!Draft /\ cache[t] \in [there : {"unknown", "gone", "yes"}, rec : Store!Record]
  BY DEF StoreInv, EditorInv
<1>4. PICK rec \in Store!Record : Store!update(t, rec) /\ Store!Confirm(t, open[t], rec)
  <2>1. CASE Store!saveGeneral(t)
    <3>1. [old EXCEPT !.general = draft[t].general] \in Store!Record BY <1>2, <1>3 DEF Store!Record, Store!Draft
    <3> QED BY <1>2, <2>1, <3>1 DEF Store!saveGeneral, Store!Current
  <2>2. CASE Store!saveKnowledge(t)
    <3>1. [old EXCEPT !.knowledge = draft[t].knowledge] \in Store!Record BY <1>2, <1>3 DEF Store!Record, Store!Draft
    <3> QED BY <1>2, <2>2, <3>1 DEF Store!saveKnowledge, Store!Current
  <2>3. CASE Store!toggleStatus(t)
    <3>1. (~Store!Shown(t).active) \in BOOLEAN OBVIOUS
    <3>2. [old EXCEPT !.active = ~Store!Shown(t).active] \in Store!Record BY <1>2, <3>1, Zenon DEF Store!Record
    <3> QED BY <1>2, <2>3, <3>2 DEF Store!toggleStatus, Store!Current
  <2> QED BY <2>1, <2>2, <2>3
<1>5. UNCHANGED <<storage, used, broken, open, draft, reading>> /\ edits' \in 0 .. MaxEdit
  BY StoreAssumption DEF Store!saveGeneral, Store!saveKnowledge, Store!toggleStatus, Store!Changes, StoreInv, EditorInv
<1>6. ShelvesInv' /\ NullFlags' /\ cache' = [cache EXCEPT ![t] = [there |-> "yes", rec |-> rec]]
  BY <1>4, <1>5, UpdateWrites
<1>7. EditorInv' BY <1>5, <1>6 DEF StoreInv, EditorInv
<1>8. ItemsKept BY <1>5 DEF ItemsKept
<1> QED BY <1>6, <1>7, <1>8 DEF StoreInv

\* Edits of the draft, and files that are read into it.
LEMMA DraftSteps ==
    ASSUME StoreInv, NEW t \in Tab,
           \/ Store!EditGeneral(t) \/ Store!AddItem(t) \/ Store!FileChosen(t) \/ Store!FileRead(t) \/ Store!FileUnreadable(t)
           \/ \E i \in Store!Item : Store!RemoveItem(t, i)
    PROVE  StoreInv' /\ ItemsKept
<1> DEFINE d == draft[t]
<1>0. /\ d \in Store!Draft /\ reading[t] \in File
      /\ edits \in Nat /\ draft \in [Tab -> Store!Draft]
  BY StoreAssumption DEF StoreInv, EditorInv
<1>1. UNCHANGED <<storage, shelf, used, broken, open, cache, confirmed>>
  BY DEF Store!EditGeneral, Store!AddItem, Store!FileChosen, Store!FileRead, Store!FileUnreadable, Store!RemoveItem
<1>2. ShelvesInv' /\ NullFlags' BY <1>1, ShelvesKept DEF StoreInv
<1>3. edits' \in 0 .. MaxEdit
  BY StoreAssumption
  DEF Store!EditGeneral, Store!AddItem, Store!FileChosen, Store!FileRead, Store!FileUnreadable, Store!RemoveItem,
      Store!Changes, StoreInv, EditorInv
<1>4. CASE Store!EditGeneral(t)
  <2> DEFINE x == [d EXCEPT !.general = edits']
  <2>1. draft' = [draft EXCEPT ![t] = x] /\ UNCHANGED reading BY <1>4 DEF Store!EditGeneral
  <2>2. x \in Store!Draft /\ x.knowledge = d.knowledge BY <1>0, <1>3 DEF Store!Draft
  <2> HIDE DEF x, d
  <2>3. EditorInv' BY <1>1, <1>3, <2>1, <2>2 DEF StoreInv, EditorInv
  <2>4. ItemsKept BY <1>0, <2>1, <2>2 DEF ItemsKept, d
  <2> QED BY <1>2, <2>3, <2>4 DEF StoreInv
<1>5. CASE Store!AddItem(t)
  <2> DEFINE x == [d EXCEPT !.knowledge = @ \cup {edits'}]
  <2>1. draft' = [draft EXCEPT ![t] = x] /\ UNCHANGED reading /\ edits' = edits + 1
    BY <1>5 DEF Store!AddItem, Store!Changes
  <2>2. edits' \in Store!Item BY <1>0, <1>3, <2>1 DEF Store!Item
  <2>3. x \in Store!Draft /\ d.knowledge \subseteq x.knowledge BY <1>0, <2>2 DEF Store!Draft
  <2> HIDE DEF x, d
  <2>4. EditorInv' BY <1>1, <1>3, <2>1, <2>3 DEF StoreInv, EditorInv
  <2>5. ItemsKept BY <1>0, <2>1, <2>3 DEF ItemsKept, d
  <2> QED BY <1>2, <2>4, <2>5 DEF StoreInv
<1>6. CASE Store!FileChosen(t)
  <2> DEFINE x == [item |-> edits', base |-> d.knowledge]
  <2>1. reading' = [reading EXCEPT ![t] = x] /\ UNCHANGED draft /\ edits' = edits + 1
    BY <1>6 DEF Store!FileChosen, Store!Changes
  <2>2. edits' \in Store!Item BY <1>0, <1>3, <2>1 DEF Store!Item
  <2>3. x \in File BY <1>0, <2>2 DEF Store!Draft, File
  <2> HIDE DEF x, d
  <2>4. EditorInv' BY <1>1, <1>3, <2>1, <2>3 DEF StoreInv, EditorInv
  <2> QED BY <1>2, <2>1, <2>4 DEF StoreInv, ItemsKept
<1>7. CASE Store!FileRead(t)
  <2> DEFINE x == [d EXCEPT !.knowledge = d.knowledge \cup {reading[t].item}]
  <2>1. /\ draft' = [draft EXCEPT ![t] = x] /\ reading' = [reading EXCEPT ![t] = Store!NoFile]
        /\ reading[t] # Store!NoFile
    BY <1>7 DEF Store!FileRead, Store!WhenRead
  <2>2. x.knowledge = d.knowledge \cup {reading[t].item} /\ d.knowledge \subseteq x.knowledge BY <1>0 DEF Store!Draft
  <2> HIDE DEF x
  <2>4. ItemsKept BY <1>0, <2>1, <2>2 DEF ItemsKept
  <2>5. reading[t].item \in Store!Item => x \in Store!Draft BY <1>0 DEF Store!Draft, x
  <2>6. Store!NoFile \in File BY DEF File
  <2>7. reading[t].item \in Store!Item BY <1>0, <2>1 DEF File
  <2>8. EditorInv' BY <1>1, <1>3, <2>1, <2>5, <2>6, <2>7 DEF StoreInv, EditorInv
  <2> QED BY <1>2, <2>4, <2>8 DEF StoreInv
<1>8. CASE Store!FileUnreadable(t)
  <2>1. reading' = [reading EXCEPT ![t] = Store!NoFile] /\ UNCHANGED draft BY <1>8 DEF Store!FileUnreadable
  <2>2. Store!NoFile \in File BY DEF File
  <2>3. EditorInv' BY <1>1, <1>3, <2>1, <2>2 DEF StoreInv, EditorInv
  <2> QED BY <1>2, <2>1, <2>3 DEF StoreInv, ItemsKept
<1>9. ASSUME NEW i \in Store!Item, Store!RemoveItem(t, i) PROVE StoreInv' /\ ItemsKept
  <2> DEFINE x == [d EXCEPT !.knowledge = @ \ {i}]
  <2>1. draft' = [draft EXCEPT ![t] = x] /\ UNCHANGED reading BY <1>9 DEF Store!RemoveItem
  <2>2. x \in Store!Draft BY <1>0 DEF Store!Draft
  <2> HIDE DEF x, d
  <2>3. EditorInv' BY <1>1, <1>3, <2>1, <2>2 DEF StoreInv, EditorInv
  <2>4. \A u \in Tab \ {t} : draft'[u] = draft[u] BY <1>0, <2>1
  <2>5. ItemsKept BY <1>9, <2>4 DEF ItemsKept
  <2> QED BY <1>2, <2>3, <2>5 DEF StoreInv
<1> QED BY <1>4, <1>5, <1>6, <1>7, <1>8, <1>9


\* What a page without data starts from.
LEMMA BlankTypes ==
    /\ Store!NoData \in [there : {"unknown", "gone", "yes"}, rec : Store!Record]
    /\ Store!NoData.there = "unknown" /\ Store!DraftOf(Store!New) \in Store!Draft /\ Store!NoFile \in File
BY NewTypes DEF Store!NoData, File

\* What the repository returns for one agent.
LEMMA DataTypes ==
    ASSUME NEW f, Store!IsAgents(f), NEW a
    PROVE  /\ Store!Data(f, a) \in [there : {"unknown", "gone", "yes"}, rec : Store!Record]
           /\ Store!Data(f, a).there = IF a \in DOMAIN f THEN "yes" ELSE "gone"
           /\ Store!DraftOf(Store!Data(f, a).rec) \in Store!Draft
<1>1. CASE a \in DOMAIN f
  <2>1. Store!Data(f, a) = [there |-> "yes", rec |-> f[a]] /\ f[a] \in Store!Record
    BY <1>1 DEF Store!Data, Store!IsAgents
  <2>2. Store!DraftOf(f[a]) \in Store!Draft BY <2>1 DEF Store!DraftOf, Store!Draft, Store!Record
  <2> HIDE DEF Store!Record
  <2> QED BY <1>1, <2>1, <2>2
<1>2. CASE a \notin DOMAIN f
  <2>1. Store!Data(f, a) = [there |-> "gone", rec |-> Store!New] BY <1>2 DEF Store!Data, Store!NoData
  <2> QED BY <1>2, <2>1, NewTypes
<1> QED BY <1>1, <1>2

\* A tab goes to a page without data.
LEMMA BlankStep ==
    ASSUME EditorInv, NEW t \in Tab, Store!Blank(t), open' \in [Tab -> {0} \cup Agent], edits' \in 0 .. MaxEdit
    PROVE  EditorInv' /\ ItemsKept
<1>1. /\ cache' = [cache EXCEPT ![t] = Store!NoData] /\ draft' = [draft EXCEPT ![t] = Store!DraftOf(Store!New)]
      /\ reading' = [reading EXCEPT ![t] = Store!NoFile]
  BY DEF Store!Blank
<1>2. EditorInv' BY <1>1, BlankTypes DEF EditorInv
<1>3. cache'[t] = Store!NoData /\ \A u \in Tab \ {t} : draft'[u] = draft[u] BY <1>1 DEF EditorInv
<1>4. ~Store!Editing(t)' BY <1>3, BlankTypes DEF Store!Editing
<1>5. ItemsKept BY <1>3, <1>4 DEF ItemsKept
<1> QED BY <1>2, <1>5

\* A tab opens an agent or goes back to the list.
LEMMA PageSteps ==
    ASSUME StoreInv, NEW t \in Tab, Store!goBack(t) \/ \E a \in Agent : Store!OpenAgent(t, a)
    PROVE  StoreInv' /\ ItemsKept
<1>1. CASE Store!goBack(t)
  <2>1. UNCHANGED <<storage, shelf, used, broken, confirmed, edits>> /\ Store!Blank(t) /\ open' = [open EXCEPT ![t] = 0]
    BY <1>1 DEF Store!goBack
  <2>2. open' \in [Tab -> {0} \cup Agent] /\ edits' \in 0 .. MaxEdit BY <2>1 DEF StoreInv, EditorInv
  <2> QED BY <2>1, <2>2, BlankStep, ShelvesKept DEF StoreInv
<1>2. ASSUME NEW a \in Agent, Store!OpenAgent(t, a) PROVE StoreInv' /\ ItemsKept
  <2>1. /\ UNCHANGED <<storage, shelf, used, broken, cache, draft, reading, confirmed, edits>>
        /\ open' = [open EXCEPT ![t] = a]
    BY <1>2 DEF Store!OpenAgent
  <2>2. EditorInv' BY <2>1 DEF StoreInv, EditorInv
  <2>3. ItemsKept BY <2>1 DEF ItemsKept
  <2> QED BY <2>1, <2>2, <2>3, ShelvesKept DEF StoreInv
<1> QED BY <1>1, <1>2

\* The list or the agent is read, for the first time with the examples.
LEMMA FetchedStep == ASSUME StoreInv, NEW t \in Tab, Store!Fetched(t) PROVE StoreInv' /\ ItemsKept
<1> DEFINE f == Store!readAll(t)
           a == open[t]
<1>1. /\ a # 0 /\ UNCHANGED <<storage, used, broken, open, confirmed, edits>>
      /\ cache' = [cache EXCEPT ![t] = IF a = 0 THEN Store!NoData ELSE Store!Data(f, a)]
      /\ draft' = IF Store!Editing(t) /\ a \in DOMAIN f THEN draft
                  ELSE [draft EXCEPT ![t] = Store!DraftOf(Store!Data(f, a).rec)]
      /\ reading' = [reading EXCEPT ![t] = IF a \in DOMAIN f THEN @ ELSE Store!NoFile]
      /\ IF shelf[Store!Of(t)].null
         THEN shelf' = [shelf EXCEPT ![Store!Of(t)] = [null |-> FALSE, agents |-> Store!Seeds]]
         ELSE UNCHANGED shelf
  BY DEF Store!Fetched, Store!Refreshed, Store!writeAll
<1>2. Store!IsAgents(f) BY ReadIsConfirmed DEF StoreInv
<1>3. ShelvesInv' /\ NullFlags'
  <2>1. CASE ~shelf[Store!Of(t)].null BY <1>1, <2>1, ShelvesKept DEF StoreInv
  <2>2. CASE shelf[Store!Of(t)].null
    <3>1. Store!Of(t) \in InUse /\ Store!Of(t) \in Store!Shelf BY ShelfOfTab DEF StoreInv
    <3>2. confirmed[Store!Of(t)] = Store!Seeds /\ broken = {} BY <2>2, <3>1 DEF StoreInv, ShelvesInv
    <3>3. confirmed' = [confirmed EXCEPT ![Store!Of(t)] = Store!Seeds] BY <1>1, <3>1, <3>2 DEF StoreInv, ShelvesInv
    <3>4. Agree(Store!Seeds, Store!Seeds) BY DEF Agree
    <3>5. DOMAIN Store!Seeds \subseteq used /\ used \subseteq Agent BY DEF Store!Seeds, StoreInv, ShelvesInv
    <3> QED BY <1>1, <2>2, <3>3, <3>4, <3>5, NewTypes, WriteShelf DEF StoreInv
  <2> QED BY <2>1, <2>2
<1> HIDE DEF f
<1>4. EditorInv' BY <1>1, <1>2, DataTypes, BlankTypes DEF StoreInv, EditorInv
<1>5. \A u \in Tab \ {t} : draft'[u] = draft[u] BY <1>1 DEF StoreInv, EditorInv
<1>6. Store!Editing(t) /\ Store!Editing(t)' => draft'[t] = draft[t]
  <2>1. cache'[t] = Store!Data(f, a) BY <1>1 DEF StoreInv, EditorInv
  <2>2. Store!Editing(t)' => a \in DOMAIN f BY <1>2, <2>1, DataTypes DEF Store!Editing
  <2> QED BY <1>1, <2>2
<1>7. ItemsKept BY <1>5, <1>6 DEF ItemsKept
<1> QED BY <1>3, <1>4, <1>7 DEF StoreInv


\* An agent is added under an id that was not given before.
LEMMA AddAgent ==
    ASSUME StoreInv, NEW t \in Tab, NEW a \in Agent \ used, NEW rec \in Store!Record, UNCHANGED <<storage, broken>>,
           Store!writeAll(t, Store!With(Store!readAll(t), a, rec)), Store!Confirm(t, a, rec), used' = used \cup {a}
    PROVE  ShelvesInv' /\ NullFlags'
<1> DEFINE f == Store!With(Store!readAll(t), a, rec)
           g == Store!With(confirmed[Store!Of(t)], a, rec)
<1>1. /\ shelf' = [shelf EXCEPT ![Store!Of(t)] = [null |-> FALSE, agents |-> f]]
      /\ confirmed' = [confirmed EXCEPT ![Store!Of(t)] = g]
  BY DEF Store!writeAll, Store!Confirm
<1>2. /\ Store!IsAgents(Store!readAll(t)) /\ DOMAIN Store!readAll(t) = DOMAIN confirmed[Store!Of(t)] \ broken
      /\ \A b \in DOMAIN Store!readAll(t) : Store!readAll(t)[b] = confirmed[Store!Of(t)][b]
  BY ReadIsConfirmed DEF StoreInv
<1>3. Store!Of(t) \in Store!Shelf BY ShelfOfTab DEF StoreInv
<1>4. Store!IsAgents(confirmed[Store!Of(t)]) /\ DOMAIN confirmed[Store!Of(t)] \subseteq used /\ used \subseteq Agent
  BY <1>3 DEF StoreInv, ShelvesInv
<1>5. a \notin broken BY DEF StoreInv, ShelvesInv
<1>6. /\ Store!IsAgents(f) /\ DOMAIN f = DOMAIN Store!readAll(t) \cup {a}
      /\ f[a] = rec /\ \A b \in DOMAIN Store!readAll(t) \ {a} : f[b] = Store!readAll(t)[b]
  BY <1>2, WithAgents
<1>7. /\ Store!IsAgents(g) /\ DOMAIN g = DOMAIN confirmed[Store!Of(t)] \cup {a}
      /\ g[a] = rec /\ \A b \in DOMAIN confirmed[Store!Of(t)] \ {a} : g[b] = confirmed[Store!Of(t)][b]
  BY <1>4, WithAgents
<1> HIDE DEF f, g
<1>8. Agree(f, g) BY <1>2, <1>5, <1>6, <1>7 DEF Agree
<1>9. DOMAIN f \subseteq used' /\ DOMAIN g \subseteq used' BY <1>2, <1>4, <1>6, <1>7
<1>10. used \subseteq used' /\ used' \subseteq Agent BY <1>4
<1> QED BY <1>1, <1>6, <1>7, <1>8, <1>9, <1>10, WriteShelf DEF StoreInv

\* An agent is created, or copied from what is stored.
LEMMA CreateSteps ==
    ASSUME StoreInv, NEW t \in Tab, Store!create(t) \/ \E a \in Agent : Store!duplicate(t, a)
    PROVE  StoreInv' /\ ItemsKept
<1>1. CASE Store!create(t)
  <2>1. PICK a \in Agent \ used :
          /\ Store!writeAll(t, Store!With(Store!readAll(t), a, Store!New)) /\ Store!Confirm(t, a, Store!New)
          /\ used' = used \cup {a} /\ open' = [open EXCEPT ![t] = a]
    BY <1>1 DEF Store!create
  <2>2. UNCHANGED <<storage, broken, cache, draft, reading, edits>> BY <1>1 DEF Store!create
  <2>3. ShelvesInv' /\ NullFlags' BY <2>1, <2>2, NewTypes, AddAgent
  <2>4. EditorInv' BY <2>1, <2>2 DEF StoreInv, EditorInv
  <2>5. ItemsKept BY <2>2 DEF ItemsKept
  <2> QED BY <2>3, <2>4, <2>5 DEF StoreInv
<1>2. ASSUME NEW a \in Agent, Store!duplicate(t, a) PROVE StoreInv' /\ ItemsKept
  <2> DEFINE f == Store!readAll(t)
  <2>1. /\ UNCHANGED <<storage, broken, open, draft, reading, edits>> /\ a \in DOMAIN f
        /\ cache' = [cache EXCEPT ![t] = IF open[t] = 0 THEN Store!NoData ELSE Store!Data(f, open[t])]
    BY <1>2 DEF Store!duplicate, Store!Refreshed
  <2>2. Store!IsAgents(f) /\ f[a] = confirmed[Store!Of(t)][a] BY <2>1, ReadIsConfirmed DEF StoreInv
  <2>3. f[a] \in Store!Record BY <2>1, <2>2 DEF Store!IsAgents
  <2>4. PICK b \in Agent \ used :
          /\ Store!writeAll(t, Store!With(f, b, f[a])) /\ Store!Confirm(t, b, f[a]) /\ used' = used \cup {b}
    BY <1>2, <2>2 DEF Store!duplicate
  <2>5. ShelvesInv' /\ NullFlags' BY <2>1, <2>3, <2>4, AddAgent
  <2> HIDE DEF f
  <2>6. EditorInv' BY <2>1, <2>2, DataTypes, BlankTypes DEF StoreInv, EditorInv
  <2>7. ItemsKept BY <2>1 DEF ItemsKept
  <2> QED BY <2>5, <2>6, <2>7 DEF StoreInv
<1> QED BY <1>1, <1>2

\* An agent is removed, from the shelf and from what was told.
LEMMA RemoveStep == ASSUME StoreInv, NEW t \in Tab, NEW a \in Agent, Store!remove(t, a) PROVE StoreInv' /\ ItemsKept
<1> DEFINE f == Store!Restrict(Store!readAll(t), DOMAIN Store!readAll(t) \ {a})
           g == Store!Restrict(confirmed[Store!Of(t)], DOMAIN confirmed[Store!Of(t)] \ {a})
<1>1. /\ shelf' = [shelf EXCEPT ![Store!Of(t)] = [null |-> FALSE, agents |-> f]]
      /\ confirmed' = [confirmed EXCEPT ![Store!Of(t)] = g]
      /\ open' = [open EXCEPT ![t] = 0] /\ Store!Blank(t) /\ UNCHANGED <<storage, used, broken>> /\ Store!Changes
  BY DEF Store!remove, Store!writeAll
<1>2. /\ Store!IsAgents(Store!readAll(t)) /\ DOMAIN Store!readAll(t) = DOMAIN confirmed[Store!Of(t)] \ broken
      /\ \A b \in DOMAIN Store!readAll(t) : Store!readAll(t)[b] = confirmed[Store!Of(t)][b]
  BY ReadIsConfirmed DEF StoreInv
<1>3. Store!Of(t) \in Store!Shelf BY ShelfOfTab DEF StoreInv
<1>4. Store!IsAgents(confirmed[Store!Of(t)]) /\ DOMAIN confirmed[Store!Of(t)] \subseteq used /\ used \subseteq Agent
  BY <1>3 DEF StoreInv, ShelvesInv
<1>5. /\ Store!IsAgents(f) /\ DOMAIN f = DOMAIN Store!readAll(t) \ {a} /\ \A b \in DOMAIN f : f[b] = Store!readAll(t)[b]
  BY <1>2 DEF Store!Restrict, Store!IsAgents
<1>6. /\ Store!IsAgents(g) /\ DOMAIN g = DOMAIN confirmed[Store!Of(t)] \ {a}
      /\ \A b \in DOMAIN g : g[b] = confirmed[Store!Of(t)][b]
  BY <1>4 DEF Store!Restrict, Store!IsAgents
<1> HIDE DEF f, g
<1>7. Agree(f, g) BY <1>2, <1>5, <1>6 DEF Agree
<1>8. DOMAIN f \subseteq used' /\ DOMAIN g \subseteq used' /\ used \subseteq used' /\ used' \subseteq Agent
  BY <1>1, <1>2, <1>4, <1>5, <1>6
<1>9. ShelvesInv' /\ NullFlags' BY <1>1, <1>5, <1>6, <1>7, <1>8, WriteShelf DEF StoreInv
<1>10. open' \in [Tab -> {0} \cup Agent] /\ edits' \in 0 .. MaxEdit
  BY <1>1, StoreAssumption DEF StoreInv, EditorInv, Store!Changes
<1> QED BY <1>1, <1>9, <1>10, BlankStep DEF StoreInv

\* A page is loaded again: the memory of its tab is empty.
LEMMA TabReloads == ASSUME StoreInv, NEW t \in Tab, Store!Reload(t) PROVE StoreInv' /\ ItemsKept
<1>1. /\ Store!Blank(t) /\ shelf' = [shelf EXCEPT ![t] = Store!Empty] /\ confirmed' = [confirmed EXCEPT ![t] = Store!Seeds]
      /\ UNCHANGED <<storage, used, broken, open, edits>>
  BY DEF Store!Reload
<1>2. open' \in [Tab -> {0} \cup Agent] /\ edits' \in 0 .. MaxEdit BY <1>1 DEF StoreInv, EditorInv
<1>3. t \in Store!Shelf /\ t # "local" BY NamesAssumption DEF Store!Shelf
<1>4. /\ shelf'[t] = Store!Empty /\ confirmed'[t] = Store!Seeds
      /\ \A s \in Store!Shelf \ {t} : shelf'[s] = shelf[s] /\ confirmed'[s] = confirmed[s]
  BY <1>1, <1>3 DEF StoreInv, ShelvesInv
<1>5. /\ Store!IsAgents(Store!Empty.agents) /\ DOMAIN Store!Empty.agents = {} BY DEF Store!IsAgents, Store!Empty
<1>6. Store!Empty.null /\ Store!Empty.null \in BOOLEAN BY Zenon DEF Store!Empty
<1> HIDE DEF Store!Empty, Store!Seeds
<1>7. NullFlags' BY <1>4, <1>6, Zenon DEF StoreInv, NullFlags
<1>8. DOMAIN Store!Seeds = Seed BY DEF Store!Seeds
<1>9. InUse' = InUse /\ InUse \subseteq Store!Shelf BY <1>1, ShelfOfTab DEF InUse, StoreInv
<1>10. t \in InUse => broken = {} BY <1>3, NamesAssumption DEF InUse, StoreInv, ShelvesInv
<1>11. "local" \in Store!Shelf BY DEF Store!Shelf
<1>12. \A s \in Store!Shelf : /\ Store!IsAgents(shelf'[s].agents) /\ DOMAIN shelf'[s].agents \subseteq used'
                              /\ Store!IsAgents(confirmed'[s]) /\ DOMAIN confirmed'[s] \subseteq used'
  BY <1>1, <1>4, <1>5, <1>8, NewTypes DEF StoreInv, ShelvesInv
<1>13. ASSUME NEW s \in InUse
       PROVE  /\ shelf'[s].null => broken' = {} /\ shelf'[s].agents = Store!Empty.agents /\ confirmed'[s] = Store!Seeds
              /\ ~shelf'[s].null => Agree(shelf[s].agents, confirmed[s])'
  <2>1. CASE s = t BY <1>1, <1>4, <1>6, <1>10, <2>1
  <2>2. CASE s # t BY <1>1, <1>4, <1>9, <2>2, ZenonT(60) DEF StoreInv, ShelvesInv, Agree
  <2> QED BY <2>1, <2>2
<1>14. "local" \notin InUse => shelf'["local"].agents = Store!Empty.agents /\ broken' = {}
  BY <1>1, <1>3, <1>4, <1>11 DEF StoreInv, ShelvesInv
<1>15. DOMAIN shelf' = Store!Shelf /\ confirmed' = [s \in Store!Shelf |-> confirmed'[s]]
  BY <1>1 DEF StoreInv, ShelvesInv
<1>16. ShelvesInv' BY <1>1, <1>9, <1>12, <1>13, <1>14, <1>15 DEF StoreInv, ShelvesInv
<1> QED BY <1>1, <1>2, <1>7, <1>16, BlankStep DEF StoreInv

\* A stricter schema refuses a stored record.
LEMMA ReleaseStep == ASSUME StoreInv, NEW a \in Agent, Store!NewRelease(a) PROVE StoreInv' /\ ItemsKept
<1>1. /\ broken = {} /\ a \in DOMAIN shelf["local"].agents /\ broken' = {a}
      /\ cache' = [t \in Tab |-> Store!NoData] /\ reading' = [t \in Tab |-> Store!NoFile]
      /\ draft' = [t \in Tab |-> Store!DraftOf(Store!New)] /\ UNCHANGED <<storage, shelf, used, open, confirmed, edits>>
  BY DEF Store!NewRelease
<1>2. EditorInv' BY <1>1, BlankTypes DEF StoreInv, EditorInv
<1>3. ItemsKept BY <1>1, BlankTypes DEF ItemsKept, Store!Editing
<1>4. "local" \in Store!Shelf BY DEF Store!Shelf
<1>5. DOMAIN Store!Empty.agents = {} BY DEF Store!Empty
<1>6. "local" \in InUse /\ a \in used BY <1>1, <1>4, <1>5 DEF StoreInv, ShelvesInv
<1>7. InUse = {"local"} /\ InUse' = InUse BY <1>1, <1>6, NamesAssumption DEF InUse
<1>8. ~shelf["local"].null BY <1>1, <1>5, <1>6 DEF StoreInv, ShelvesInv
<1>9. Agree(shelf["local"].agents, confirmed["local"])' BY <1>1, <1>6, <1>8, ZenonT(60) DEF StoreInv, ShelvesInv, Agree
<1>10. ShelvesInv' BY <1>1, <1>6, <1>7, <1>8, <1>9 DEF StoreInv, ShelvesInv
<1>11. NullFlags' BY <1>1, Zenon DEF StoreInv, NullFlags
<1> QED BY <1>2, <1>3, <1>10, <1>11 DEF StoreInv

\* Every step of the store.
LEMMA StoreNext == ASSUME StoreInv, Store!Next PROVE StoreInv' /\ ItemsKept
BY FetchedStep, DraftSteps, SaveSteps, CreateSteps, RemoveStep, PageSteps, TabReloads, ReleaseStep DEF Store!Next

\* What the invariant says about the store.
LEMMA StoreFacts == ASSUME StoreInv PROVE Store!TypeOK /\ Store!StoredIsConfirmed
<1>1. Store!StoredIsConfirmed BY ReadIsConfirmed DEF StoreInv, Store!StoredIsConfirmed
<1>2. \A s \in Store!Shelf : shelf[s].null \in BOOLEAN BY DEF StoreInv, NullFlags
<1>3. File \subseteq [item : {0} \cup Store!Item, base : SUBSET Store!Item] BY DEF File, Store!NoFile
<1>4. reading \in [Tab -> [item : {0} \cup Store!Item, base : SUBSET Store!Item]] BY <1>3 DEF StoreInv, EditorInv
<1>5. Store!TypeOK BY <1>2, <1>4 DEF StoreInv, EditorInv, ShelvesInv, Store!TypeOK
<1> QED BY <1>1, <1>5


-----------------------------------------------------------------------------
(* Changes that reach the screen *)

SyncTypes ==
    /\ version \in 0 .. MaxVersion /\ conn \in [Sync!Conn -> {"none", "connecting", "listening", "failed"}]
    /\ pgClient \in {0} \cup Sync!Conn /\ hints \in 0 .. 2 * version
    /\ status \in {"disconnected", "connecting", "connected", "reconnecting", "auth_error"}
    /\ sockToken \in 0 .. MaxToken /\ token \in 1 .. MaxToken /\ expired \in 0 .. MaxToken - 1
    /\ data \in 0 .. MaxVersion /\ fetch \in [pc : {"none", "sent", "read"}, got : 0 .. MaxVersion]
    /\ breaks \in 0 .. MaxBreak /\ (writing => version < MaxVersion)

SyncFlags ==
    /\ writing \in BOOLEAN /\ timerSet \in BOOLEAN /\ armed \in BOOLEAN /\ stopped \in BOOLEAN
    /\ lastSeen \in BOOLEAN /\ outdated \in BOOLEAN /\ gap \in BOOLEAN

\* As long as no hint was lost, the data is current or is going to be fetched.
FetchPending ==
    /\ fetch.pc = "none" => fetch = Sync!NoFetch
    /\ ~gap /\ status = "connected" /\ hints = 0 =>
         \/ outdated
         \/ fetch.pc = "sent"
         \/ fetch.pc = "read" /\ fetch.got = version
         \/ fetch.pc = "none" /\ data = version

\* The timer that is noted is one that fires.
RelayInv ==
    ~stopped => /\ timerSet => armed
                /\ armed \/ \E c \in Sync!Conn : conn[c] \in {"connecting", "listening"}

SyncInv == SyncTypes /\ SyncFlags /\ FetchPending /\ RelayInv

\* The page was just opened.
LEMMA SyncInit == ASSUME Sync!Init PROVE SyncInv
<1>1. SyncTypes BY SyncAssumption DEF Sync!Init, SyncTypes, Sync!Conn, Sync!NoFetch
<1>2. SyncFlags BY Zenon DEF Sync!Init, SyncFlags
<1>3. FetchPending BY DEF Sync!Init, FetchPending
<1>4. RelayInv BY DEF Sync!Init, RelayInv, Sync!Conn
<1> QED BY <1>1, <1>2, <1>3, <1>4 DEF SyncInv

\* How many connections publish a change.
LEMMA ListeningCount ==
    /\ Sync!Cardinality(Sync!Listening) \in 0 .. 2
    /\ Sync!Listening # {} => Sync!Cardinality(Sync!Listening) >= 1
<1>1. \A S : Sync!Cardinality(S) = Cardinality(S)
  BY Zenon DEF Sync!Cardinality, Cardinality, Sync!IsFiniteSet, IsFiniteSet
<1>2. IsFiniteSet(1 .. 2) /\ Cardinality(1 .. 2) = 2
  <2>1. PICK n \in Int : n = 2 OBVIOUS
  <2>2. IsFiniteSet(1 .. n) /\ Cardinality(1 .. n) = IF 1 > n THEN 0 ELSE n - 1 + 1 BY FS_Interval, 1 \in Int, Zenon
  <2> QED BY <2>1, <2>2
<1>3. Sync!Listening \subseteq 1 .. 2 BY DEF Sync!Listening, Sync!Conn
<1>4. IsFiniteSet(Sync!Listening) /\ Cardinality(Sync!Listening) <= 2 BY <1>2, <1>3, FS_Subset
<1>5. Cardinality(Sync!Listening) \in Nat BY <1>4, FS_CardinalityType
<1>6. Sync!Listening # {} => Cardinality(Sync!Listening) # 0 BY <1>4, FS_EmptySet
<1> QED BY <1>1, <1>4, <1>5, <1>6

\* The transaction: its notification goes out with the commit.
LEMMA WriteSteps == ASSUME SyncInv, Sync!Write \/ Sync!Commit \/ Sync!Rollback PROVE SyncInv'
<1>1. /\ UNCHANGED <<conn, pgClient, timerSet, armed, stopped, status, sockToken, lastSeen, token, expired,
                     data, fetch, outdated>>
  BY DEF Sync!Write, Sync!Commit, Sync!Rollback, Sync!relay, Sync!socket, Sync!query
<1>2. RelayInv' BY <1>1 DEF SyncInv, RelayInv
<1>3. CASE Sync!Write \/ Sync!Rollback
  <2>1. UNCHANGED <<version, hints, gap>> /\ breaks' \in 0 .. MaxBreak
    BY <1>3, SyncAssumption DEF Sync!Write, Sync!Rollback, Sync!NotifyEarly, Sync!Breaks, SyncInv, SyncTypes
  <2>2. SyncTypes'
    <3>1. writing' => version < MaxVersion BY <1>3, SyncAssumption DEF Sync!Write, Sync!Rollback, SyncInv, SyncTypes
    <3> QED BY <1>1, <2>1, <3>1 DEF SyncInv, SyncTypes
  <2>3. SyncFlags' BY <1>1, <1>3, <2>1, Zenon DEF SyncInv, SyncFlags, Sync!Write, Sync!Rollback
  <2>4. FetchPending' BY <1>1, <2>1 DEF SyncInv, FetchPending
  <2> QED BY <1>2, <2>2, <2>3, <2>4 DEF SyncInv
<1>4. CASE Sync!Commit
  <2>1. /\ writing /\ ~writing' /\ version' = version + 1 /\ UNCHANGED breaks
        /\ hints' = IF status = "connected" THEN hints + Sync!Cardinality(Sync!Listening) ELSE hints
        /\ gap' = (gap \/ Sync!Listening = {} \/ status # "connected")
    BY <1>4 DEF Sync!Commit, Sync!NotifyEarly, Sync!Published
  <2>2. SyncTypes' BY <1>1, <2>1, ListeningCount, SyncAssumption DEF SyncInv, SyncTypes
  <2>3. SyncFlags' BY <1>1, <1>4, <2>1, Zenon DEF SyncInv, SyncFlags, Sync!Commit
  <2>4. ~gap' => hints' # 0
    <3>1. ~gap' => Sync!Listening # {} /\ status = "connected" BY <2>1, Zenon
    <3> QED BY <2>1, <3>1, ListeningCount, SyncAssumption DEF SyncInv, SyncTypes
  <2>5. FetchPending' BY <1>1, <2>4 DEF SyncInv, FetchPending
  <2> QED BY <1>2, <2>2, <2>3, <2>5 DEF SyncInv
<1> QED BY <1>3, <1>4

\* The connections of the relay.
LEMMA RelaySteps ==
    ASSUME SyncInv,
           \/ Sync!TimerFires \/ Sync!Stop
           \/ \E c \in Sync!Conn :
                Sync!ConnectSucceeds(c) \/ Sync!ConnectFails(c) \/ Sync!ConnectionError(c) \/ Sync!ConnectionEnd(c)
    PROVE  SyncInv'
<1>1. /\ UNCHANGED <<writing, version, hints, status, sockToken, lastSeen, token, expired, data, fetch, outdated, gap>>
      /\ breaks' \in 0 .. MaxBreak
  <2> USE DEF Sync!TimerFires, Sync!Stop, Sync!ConnectSucceeds, Sync!ConnectFails, Sync!ConnectionError, Sync!ConnectionEnd
  <2>1. UNCHANGED <<writing, version, hints, status, sockToken, lastSeen, token, expired, data, fetch, outdated, gap>>
    BY DEF Sync!socket, Sync!query
  <2>2. breaks' = breaks \/ Sync!Breaks OBVIOUS
  <2>3. breaks' \in 0 .. MaxBreak BY <2>2, SyncAssumption DEF Sync!Breaks, SyncInv, SyncTypes
  <2> QED BY <2>1, <2>3
<1>2. FetchPending' BY <1>1 DEF SyncInv, FetchPending
<1>3. ASSUME conn' \in [Sync!Conn -> {"none", "connecting", "listening", "failed"}], pgClient' \in {0} \cup Sync!Conn
      PROVE  SyncTypes'
  BY <1>1, <1>3 DEF SyncInv, SyncTypes
<1>4. CASE Sync!TimerFires
  <2> DEFINE c == CHOOSE c \in Sync!Conn : conn[c] = "none"
  <2>1. /\ \E d \in Sync!Conn : conn[d] = "none" /\ conn' = [conn EXCEPT ![c] = "connecting"] /\ UNCHANGED <<pgClient, stopped>>
    BY <1>4 DEF Sync!TimerFires
  <2>2. c \in Sync!Conn BY <2>1
  <2>3. ~armed' /\ ~timerSet' /\ armed' \in BOOLEAN /\ timerSet' \in BOOLEAN
    BY <1>4, Zenon DEF Sync!TimerFires, Sync!TimerCleared
  <2> HIDE DEF c
  <2>4. SyncTypes' BY <1>3, <2>1, <2>2 DEF SyncInv, SyncTypes
  <2>5. SyncFlags' BY <1>1, <2>1, <2>3, Zenon DEF SyncInv, SyncFlags
  <2>6. conn'[c] = "connecting" BY <2>1, <2>2 DEF SyncInv, SyncTypes
  <2>7. RelayInv' BY <2>2, <2>3, <2>6 DEF RelayInv
  <2> QED BY <1>2, <2>4, <2>5, <2>7 DEF SyncInv
<1>5. CASE Sync!Stop
  <2>1. conn' = [c \in Sync!Conn |-> IF c = pgClient THEN "none" ELSE conn[c]] /\ pgClient' = 0
    BY <1>5 DEF Sync!Stop
  <2>2. stopped' /\ SyncFlags' BY <1>1, <1>5, Zenon DEF SyncInv, SyncFlags, Sync!Stop
  <2>3. SyncTypes' BY <1>3, <2>1 DEF SyncInv, SyncTypes
  <2>4. RelayInv' BY <2>2 DEF RelayInv
  <2> QED BY <1>2, <2>2, <2>3, <2>4 DEF SyncInv
<1>6. ASSUME NEW c \in Sync!Conn, Sync!ConnectSucceeds(c) PROVE SyncInv'
  <2>1. conn' = [conn EXCEPT ![c] = "listening"] /\ pgClient' = c /\ UNCHANGED <<timerSet, armed, stopped>>
    BY <1>6 DEF Sync!ConnectSucceeds
  <2>2. SyncTypes' BY <1>3, <2>1 DEF SyncInv, SyncTypes
  <2>3. SyncFlags' BY <1>1, <2>1, Zenon DEF SyncInv, SyncFlags
  <2>4. conn'[c] = "listening" BY <2>1 DEF SyncInv, SyncTypes
  <2>5. RelayInv' BY <2>1, <2>4 DEF SyncInv, RelayInv
  <2> QED BY <1>2, <2>2, <2>3, <2>5 DEF SyncInv
<1>7. ASSUME NEW c \in Sync!Conn, Sync!ConnectFails(c) \/ Sync!ConnectionError(c) \/ Sync!ConnectionEnd(c) PROVE SyncInv'
  <2>1. PICK w \in {"none", "failed"} : Sync!scheduleReconnect([conn EXCEPT ![c] = w])
    BY <1>7 DEF Sync!ConnectFails, Sync!ConnectionError, Sync!ConnectionEnd
  <2>2. /\ conn' = [conn EXCEPT ![c] = w] /\ UNCHANGED stopped
        /\ IF stopped \/ timerSet THEN UNCHANGED <<pgClient, timerSet, armed>> ELSE pgClient' = 0 /\ timerSet' /\ armed'
    BY <2>1 DEF Sync!scheduleReconnect
  <2>3. SyncTypes' BY <1>3, <2>2 DEF SyncInv, SyncTypes
  <2>4. SyncFlags' BY <1>1, <2>1, Zenon DEF SyncInv, SyncFlags, Sync!scheduleReconnect
  <2>5. RelayInv' BY <2>2 DEF SyncInv, RelayInv
  <2> QED BY <1>2, <2>3, <2>4, <2>5 DEF SyncInv
<1> QED BY <1>4, <1>5, <1>6, <1>7


\* The socket and its tokens.
LEMMA SocketSteps ==
    ASSUME SyncInv,
           \/ Sync!Mount \/ Sync!TokenRefreshed \/ Sync!TokenExpires \/ Sync!Handshake \/ Sync!HandshakeRejected
           \/ Sync!SocketDrops \/ Sync!HintArrives
    PROVE  SyncInv'
<1>1. UNCHANGED <<writing, version, conn, pgClient, timerSet, armed, stopped, data>>
  BY DEF Sync!Mount, Sync!TokenRefreshed, Sync!TokenExpires, Sync!Handshake, Sync!HandshakeRejected, Sync!SocketDrops,
         Sync!HintArrives, Sync!relay, Sync!query
<1>2. RelayInv' BY <1>1 DEF SyncInv, RelayInv
<1>3. CASE Sync!Mount \/ Sync!TokenRefreshed \/ Sync!TokenExpires \/ Sync!HandshakeRejected
  <2>1. UNCHANGED <<lastSeen, fetch, outdated, gap, breaks>>
    BY <1>3 DEF Sync!Mount, Sync!TokenRefreshed, Sync!TokenExpires, Sync!HandshakeRejected, Sync!Connect, Sync!query,
           Sync!socket
  <2>2. (status' = status /\ hints' = hints) \/ (status' \in {"connecting", "auth_error"} /\ hints' \in {0, hints})
    BY <1>3 DEF Sync!Mount, Sync!TokenRefreshed, Sync!TokenExpires, Sync!HandshakeRejected, Sync!Connect, Sync!socket
  <2>3. sockToken' \in 0 .. MaxToken /\ token' \in 1 .. MaxToken /\ expired' \in 0 .. MaxToken - 1
    BY <1>3, SyncAssumption
    DEF Sync!Mount, Sync!TokenRefreshed, Sync!TokenExpires, Sync!HandshakeRejected, Sync!Connect, Sync!socket,
        SyncInv, SyncTypes
  <2>4. SyncTypes' BY <1>1, <2>1, <2>2, <2>3, SyncAssumption DEF SyncInv, SyncTypes
  <2>5. SyncFlags' BY <1>1, <2>1, Zenon DEF SyncInv, SyncFlags
  <2>6. FetchPending' BY <1>1, <2>1, <2>2 DEF SyncInv, FetchPending
  <2> QED BY <1>2, <2>4, <2>5, <2>6 DEF SyncInv
<1>4. CASE Sync!Handshake \/ Sync!HintArrives
  <2>1. /\ status' = "connected" /\ fetch' = Sync!NoFetch /\ hints' \in {hints, hints - 1}
        /\ (hints' = hints - 1 => hints > 0 \/ hints' = hints) /\ UNCHANGED <<sockToken, token, expired, breaks>>
    BY <1>4 DEF Sync!Handshake, Sync!HintArrives, Sync!Invalidate, SyncInv, SyncTypes
  <2>2. outdated' /\ SyncFlags' BY <1>1, <1>4, Zenon DEF Sync!Handshake, Sync!HintArrives, Sync!Invalidate, SyncInv, SyncFlags
  <2>3. hints' \in 0 .. 2 * version BY <2>1, SyncAssumption DEF SyncInv, SyncTypes
  <2>4. SyncTypes' BY <1>1, <2>1, <2>3, SyncAssumption DEF SyncInv, SyncTypes, Sync!NoFetch
  <2>5. FetchPending' BY <2>1, <2>2 DEF FetchPending
  <2> QED BY <1>2, <2>2, <2>4, <2>5 DEF SyncInv
<1>5. CASE Sync!SocketDrops
  <2>1. /\ status' = "reconnecting" /\ hints' = 0 /\ Sync!Breaks
        /\ UNCHANGED <<sockToken, lastSeen, token, expired, fetch, outdated>>
    BY <1>5 DEF Sync!SocketDrops, Sync!query
  <2>2. SyncTypes' BY <1>1, <2>1, SyncAssumption DEF SyncInv, SyncTypes, Sync!Breaks
  <2>3. SyncFlags' BY <1>1, <1>5, <2>1, Zenon DEF SyncInv, SyncFlags, Sync!SocketDrops
  <2>4. FetchPending' BY <2>1 DEF SyncInv, FetchPending
  <2> QED BY <1>2, <2>2, <2>3, <2>4 DEF SyncInv
<1> QED BY <1>3, <1>4, <1>5

\* The query.
LEMMA FetchSteps ==
    ASSUME SyncInv, Sync!FetchSent \/ Sync!FetchRead \/ Sync!FetchAnswered \/ Sync!FetchFails
    PROVE  SyncInv'
<1>1. UNCHANGED <<writing, version, conn, pgClient, timerSet, armed, stopped, hints, status, sockToken, lastSeen, token,
                  expired, gap>>
  BY DEF Sync!FetchSent, Sync!FetchRead, Sync!FetchAnswered, Sync!FetchFails, Sync!relay, Sync!socket
<1>2. RelayInv' BY <1>1 DEF SyncInv, RelayInv
<1>3. SyncFlags'
  <2>1. outdated' \in BOOLEAN
    BY Zenon DEF Sync!FetchSent, Sync!FetchRead, Sync!FetchAnswered, Sync!FetchFails, SyncInv, SyncFlags
  <2> QED BY <1>1, <2>1, Zenon DEF SyncInv, SyncFlags
<1>4. SyncTypes'
  <2>1. breaks' \in 0 .. MaxBreak
    BY SyncAssumption
    DEF Sync!FetchSent, Sync!FetchRead, Sync!FetchAnswered, Sync!FetchFails, Sync!Breaks, SyncInv, SyncTypes
  <2>2. data' \in 0 .. MaxVersion /\ fetch' \in [pc : {"none", "sent", "read"}, got : 0 .. MaxVersion]
    BY SyncAssumption
    DEF Sync!FetchSent, Sync!FetchRead, Sync!FetchAnswered, Sync!FetchFails, Sync!NoFetch, SyncInv, SyncTypes
  <2> QED BY <1>1, <2>1, <2>2 DEF SyncInv, SyncTypes
<1>5. FetchPending'
  <2>1. CASE Sync!FetchSent
    BY <1>1, <2>1 DEF SyncInv, FetchPending, Sync!FetchSent, Sync!NoFetch
  <2>2. CASE Sync!FetchRead
    BY <1>1, <2>2 DEF SyncInv, FetchPending, Sync!FetchRead
  <2>3. CASE Sync!FetchAnswered
    BY <1>1, <2>3 DEF SyncInv, FetchPending, Sync!FetchAnswered, Sync!NoFetch
  <2>4. CASE Sync!FetchFails
    <3>1. outdated' /\ fetch' = Sync!NoFetch BY <2>4, Zenon DEF Sync!FetchFails
    <3> QED BY <3>1 DEF FetchPending
  <2> QED BY <2>1, <2>2, <2>3, <2>4
<1> QED BY <1>2, <1>3, <1>4, <1>5 DEF SyncInv

\* Every step of the way to the screen.
LEMMA SyncNext == ASSUME SyncInv, Sync!Next PROVE SyncInv'
BY WriteSteps, RelaySteps, SocketSteps, FetchSteps DEF Sync!Next

\* What the invariant says about the screen.
LEMMA SyncFacts == ASSUME SyncInv PROVE Sync!TypeOK /\ Sync!HintsSuffice /\ Sync!RelayComesBack
<1>1. Sync!HintsSuffice BY DEF SyncInv, FetchPending, Sync!HintsSuffice, Sync!NoFetch
<1>2. Sync!RelayComesBack BY DEF SyncInv, RelayInv, Sync!RelayComesBack
<1>3. hints \in 0 .. 2 * MaxVersion BY SyncAssumption DEF SyncInv, SyncTypes
<1>4. /\ writing \in BOOLEAN /\ timerSet \in BOOLEAN /\ armed \in BOOLEAN /\ stopped \in BOOLEAN
      /\ lastSeen \in BOOLEAN /\ outdated \in BOOLEAN /\ gap \in BOOLEAN
  BY Zenon DEF SyncInv, SyncFlags
<1>5. Sync!TypeOK BY <1>3, <1>4 DEF SyncInv, SyncTypes, Sync!TypeOK
<1> QED BY <1>1, <1>2, <1>5


-----------------------------------------------------------------------------
(* Channel setup *)

IsRow(r) == r = [there |-> r.there, provider |-> r.provider, name |-> r.name, agents |-> r.agents,
                 needsReconnect |-> r.needsReconnect]
IsRows(rs) == rs = [i \in Inbox |-> rs[i]] /\ \A i \in Inbox : IsRow(rs[i])

IsPanel(p) == p = [of |-> p.of, base |-> p.base, name |-> p.name, agents |-> p.agents, edited |-> p.edited,
                   saving |-> p.saving, testing |-> p.testing, result |-> p.result]
IsSave(s) == s = [of |-> s.of, name |-> s.name, agents |-> s.agents, edited |-> s.edited, base |-> s.base, orphan |-> s.orphan]

\* What was not edited is as it was when the panel was opened.
AsOpened(x) == ("name" \in x.edited \/ x.name = x.base.name) /\ ("agents" \in x.edited \/ x.agents = x.base.agents)

SetupInv ==
    /\ IsRows(srv) /\ IsPanel(panel) /\ AsOpened(panel) /\ panel.of \in {0} \cup Inbox
    /\ \A s \in saves : IsSave(s) /\ AsOpened(s) /\ s.of \in Inbox

\* What SaveWritesEdits says of a step.
EditsWritten ==
    \A s \in saves \ saves', f \in Setup!Field :
        srv'[s.of][f] # srv[s.of][f] => f \in s.edited \/ s.base[f] # srv[s.of][f]

\* A set of natural numbers has a least one.
LEMMA LeastNatural == ASSUME NEW T, T \subseteq Nat, T # {} PROVE \E x \in T : \A y \in T : x <= y
<1> DEFINE R == OpToRel(<, Nat)
<1>1. IsWellFoundedOn(R, Nat) BY NatLessThanWellFounded
<1>2. \A x, y \in Nat : y < x => <<y, x>> \in R BY DEF OpToRel
<1> HIDE DEF R
<1>3. PICK x \in T : \A y \in T : <<y, x>> \notin R BY <1>1, WFMin
<1>4. ASSUME NEW y \in T PROVE x <= y
  <2>1. x \in Nat /\ y \in Nat OBVIOUS
  <2>2. ~(y < x) BY <2>1, <1>2, <1>3
  <2> QED BY <2>1, <2>2
<1> QED BY <1>4

\* The inbox on display is one of the list, or none.
LEMMA SelectedType == ASSUME NEW rs, NEW id PROVE Setup!Selected(rs, id) \in {0} \cup Inbox
<1> DEFINE T == Setup!There(rs)
<1>1. T \subseteq Inbox /\ T \subseteq Nat BY SetupAssumption DEF Setup!There
<1>2. T # {} => \E i \in T : \A j \in T : i <= j BY <1>1, LeastNatural
<1> HIDE DEF T
<1>3. Setup!First(T) \in {0} \cup T BY <1>2 DEF Setup!First
<1> QED BY <1>1, <1>3 DEF Setup!Selected, T

\* The rows and panels that the page makes, field by field.
LEMMA NoRowIs ==
    \E d : Setup!NoRow = [there |-> "never", provider |-> d, name |-> "old", agents |-> "old", needsReconnect |-> FALSE]
BY DEF Setup!NoRow

LEMMA SomeRow ==
    ASSUME NEW p
    PROVE  Setup!Some(p) = [there |-> "yes", provider |-> p, name |-> "old", agents |-> "old", needsReconnect |-> FALSE]
<1>1. PICK d : Setup!NoRow = [there |-> "never", provider |-> d, name |-> "old", agents |-> "old", needsReconnect |-> FALSE]
  BY NoRowIs
<1>2. Setup!Some(p) = [[there |-> "never", provider |-> d, name |-> "old", agents |-> "old", needsReconnect |-> FALSE]
                         EXCEPT !.there = "yes", !.provider = p]
  BY <1>1, Zenon DEF Setup!Some
<1> QED BY <1>2

LEMMA MountedPanel ==
    ASSUME NEW rs, NEW i, i # 0
    PROVE  Setup!Mount(rs, i) = [of |-> i, base |-> rs[i], name |-> rs[i].name, agents |-> rs[i].agents, edited |-> {},
                                 saving |-> FALSE, testing |-> FALSE, result |-> 0]
BY DEF Setup!Mount, Setup!NoPanel

LEMMA Reconnected == ASSUME NEW x, IsRow(x), NEW b PROVE IsRow([x EXCEPT !.needsReconnect = b])
<1>1. [x EXCEPT !.needsReconnect = b]
         = [there |-> x.there, provider |-> x.provider, name |-> x.name, agents |-> x.agents, needsReconnect |-> b]
  BY DEF IsRow
<1> QED BY <1>1 DEF IsRow

\* A panel that is mounted starts from the row that the list shows.
LEMMA KeyedPanel ==
    ASSUME SetupInv, NEW rs, NEW id, panel' = Setup!Keyed(rs, id)
    PROVE  (IsPanel(panel) /\ AsOpened(panel) /\ panel.of \in {0} \cup Inbox)'
<1>1. CASE Setup!Selected(rs, id) = panel.of
  <2>1. panel' = panel BY <1>1 DEF Setup!Keyed
  <2> QED BY <2>1 DEF SetupInv, IsPanel, AsOpened
<1>2. CASE Setup!Selected(rs, id) # panel.of
  <2> DEFINE i == Setup!Selected(rs, id)
  <2> HIDE DEF i
  <2>0. i \in {0} \cup Inbox BY SelectedType DEF i
  <2>1. panel' = Setup!Mount(rs, i) BY <1>2 DEF Setup!Keyed, i
  <2>2. CASE i = 0 BY <2>1, <2>2 DEF Setup!Mount, Setup!NoPanel, Setup!NoRow, IsPanel, AsOpened
  <2>3. CASE i # 0
    <3>1. panel' = [of |-> i, base |-> rs[i], name |-> rs[i].name, agents |-> rs[i].agents, edited |-> {},
                    saving |-> FALSE, testing |-> FALSE, result |-> 0]
      BY <2>1, <2>3, MountedPanel
    <3> QED BY <3>1, <2>0 DEF IsPanel, AsOpened
  <2> QED BY <2>2, <2>3
<1> QED BY <1>1, <1>2

\* An unmounted panel's saves go on as they were sent.
LEMMA OrphanedSaves ==
    ASSUME SetupInv, saves' = saves \/ saves' = Setup!Orphaned(saves)
    PROVE  (\A s \in saves : IsSave(s) /\ AsOpened(s) /\ s.of \in Inbox)'
<1>1. CASE saves' = saves BY <1>1 DEF SetupInv
<1>2. CASE saves' = Setup!Orphaned(saves)
  <2>1. ASSUME NEW s \in saves' PROVE IsSave(s) /\ AsOpened(s) /\ s.of \in Inbox
    <3>1. PICK x \in saves : s = [x EXCEPT !.orphan = TRUE] BY <1>2, <2>1 DEF Setup!Orphaned
    <3>2. IsSave(x) /\ AsOpened(x) /\ x.of \in Inbox BY DEF SetupInv
    <3>3. /\ s.of = x.of /\ s.name = x.name /\ s.agents = x.agents /\ s.edited = x.edited /\ s.base = x.base
          /\ s = [of |-> s.of, name |-> s.name, agents |-> s.agents, edited |-> s.edited, base |-> s.base, orphan |-> s.orphan]
      BY <3>1, <3>2 DEF IsSave
    <3> QED BY <3>2, <3>3 DEF IsSave, AsOpened
  <2> QED BY <2>1
<1> QED BY <1>1, <1>2

\* Another presence, or a connection, leaves what a save writes alone.
LEMMA RowChanges ==
    ASSUME SetupInv, NEW i \in Inbox, NEW r, IsRow(r), srv' = [srv EXCEPT ![i] = r]
    PROVE  /\ IsRows(srv)' /\ srv'[i] = r
           /\ \A j \in Inbox \ {i} : srv'[j] = srv[j]
BY DEF SetupInv, IsRows


PanelOK == IsPanel(panel) /\ AsOpened(panel) /\ panel.of \in {0} \cup Inbox
RemovalOK == removal \in {0} \cup Inbox
SavesOK == \A s \in saves : IsSave(s) /\ AsOpened(s) /\ s.of \in Inbox

\* A step that changes no inbox writes nothing.
LEMMA NothingWritten == ASSUME SetupInv, srv' = srv, PanelOK', SavesOK' PROVE SetupInv' /\ EditsWritten
BY DEF SetupInv, PanelOK, SavesOK, EditsWritten, IsRows, IsRow

\* The page is rendered with other rows or another selection.
LEMMA ShowStep == ASSUME SetupInv, NEW rs, NEW id, Setup!Show(rs, id) PROVE PanelOK' /\ SavesOK'
<1>1. panel' = Setup!Keyed(rs, id) BY DEF Setup!Show
<1>2. saves' = saves \/ saves' = Setup!Orphaned(saves) BY DEF Setup!Show
<1> QED BY <1>1, <1>2, KeyedPanel, OrphanedSaves DEF PanelOK, SavesOK

\* A panel whose flags change is the same panel.
LEMMA PanelFlags ==
    ASSUME SetupInv, NEW x, NEW y,
           \/ panel' \in {panel, [panel EXCEPT !.saving = x]} \/ panel' = [panel EXCEPT !.testing = x, !.result = y]
    PROVE  PanelOK'
<1> DEFINE p == panel'
<1>1. /\ p.of = panel.of /\ p.base = panel.base /\ p.name = panel.name /\ p.agents = panel.agents /\ p.edited = panel.edited
      /\ IsPanel(p)
  <2>1. CASE panel' = panel BY <2>1 DEF SetupInv, IsPanel
  <2>2. CASE panel' = [panel EXCEPT !.saving = x] BY <2>2 DEF SetupInv, IsPanel
  <2>3. CASE panel' = [panel EXCEPT !.testing = x, !.result = y] BY <2>3 DEF SetupInv, IsPanel
  <2> QED BY <2>1, <2>2, <2>3
<1> QED BY <1>1 DEF SetupInv, PanelOK, AsOpened, IsPanel

\* Loading the list, and what others change.
LEMMA ListSteps ==
    ASSUME SetupInv,
           \/ Setup!ListRequested \/ Setup!ListAnswered
           \/ \E i \in Inbox : Setup!Select(i) \/ Setup!OtherEdits(i) \/ Setup!OtherDeletes(i)
    PROVE  SetupInv' /\ EditsWritten
<1>1. CASE Setup!ListRequested
  <2>1. UNCHANGED <<srv, panel, saves>> BY <1>1 DEF Setup!ListRequested, Setup!pending
  <2> QED BY <2>1, NothingWritten DEF SetupInv, PanelOK, SavesOK, IsPanel, AsOpened
<1>2. CASE Setup!ListAnswered
  <2>1. srv' = srv /\ PanelOK' /\ SavesOK' BY <1>2, ShowStep DEF Setup!ListAnswered
  <2> QED BY <2>1, NothingWritten
<1>3. CASE \E i \in Inbox : Setup!Select(i)
  <2>1. srv' = srv /\ PanelOK' /\ SavesOK' BY <1>3, ShowStep DEF Setup!Select
  <2> QED BY <2>1, NothingWritten
<1>4. CASE \E i \in Inbox : Setup!OtherEdits(i) \/ Setup!OtherDeletes(i)
  <2>1. PICK i \in Inbox : Setup!OtherEdits(i) \/ Setup!OtherDeletes(i) BY <1>4
  <2>2. IsRow(srv[i]) BY DEF SetupInv, IsRows
  <2>3. PICK r : /\ UNCHANGED <<panel, saves>> /\ srv' = [srv EXCEPT ![i] = r]
                 /\ r \in {[srv[i] EXCEPT !.agents = "new"], [srv[i] EXCEPT !.needsReconnect = TRUE],
                           [srv[i] EXCEPT !.there = "gone"]}
    BY <2>1 DEF Setup!OtherEdits, Setup!OtherDeletes, Setup!Other, Setup!listing
  <2>4. IsRow(r) BY <2>2, <2>3 DEF IsRow
  <2>5. IsRows(srv)' BY <2>3, <2>4, RowChanges
  <2> QED BY <2>3, <2>5 DEF SetupInv, EditsWritten, IsPanel, AsOpened
<1> QED BY <1>1, <1>2, <1>3, <1>4

\* Edits, tests, and the answers to them.
LEMMA PanelSteps ==
    ASSUME SetupInv,
           \/ \E f \in Setup!Field, v \in {"new", ""} : Setup!Edit(f, v)
           \/ Setup!runTest \/ Setup!RemoveFails
           \/ \E s \in saves : Setup!SaveFails(s)
           \/ \E t \in tests : Setup!TestSettles(t)
    PROVE  SetupInv' /\ EditsWritten
<1>1. CASE \E f \in Setup!Field, v \in {"new", ""} : Setup!Edit(f, v)
  <2>1. PICK f \in Setup!Field, v \in {"new", ""} : Setup!Edit(f, v) BY <1>1
  <2>2. UNCHANGED <<srv, saves>> BY <2>1 DEF Setup!Edit, Setup!pending
  <2>3. \/ panel' = [panel EXCEPT !.name = v, !.edited = @ \cup {"name"}]
        \/ panel' = [panel EXCEPT !.agents = v, !.edited = @ \cup {"agents"}]
    BY <2>1 DEF Setup!Edit, Setup!Field
  <2>4. PanelOK'
    <3>1. CASE panel' = [panel EXCEPT !.name = v, !.edited = @ \cup {"name"}]
      <4>1. panel' = [of |-> panel.of, base |-> panel.base, name |-> v, agents |-> panel.agents,
                      edited |-> panel.edited \cup {"name"}, saving |-> panel.saving, testing |-> panel.testing,
                      result |-> panel.result]
        BY <3>1 DEF SetupInv, IsPanel
      <4> QED BY <4>1 DEF SetupInv, PanelOK, IsPanel, AsOpened
    <3>2. CASE panel' = [panel EXCEPT !.agents = v, !.edited = @ \cup {"agents"}]
      <4>1. panel' = [of |-> panel.of, base |-> panel.base, name |-> panel.name, agents |-> v,
                      edited |-> panel.edited \cup {"agents"}, saving |-> panel.saving, testing |-> panel.testing,
                      result |-> panel.result]
        BY <3>2 DEF SetupInv, IsPanel
      <4> QED BY <4>1 DEF SetupInv, PanelOK, IsPanel, AsOpened
    <3> QED BY <2>3, <3>1, <3>2
  <2> QED BY <2>2, <2>4, NothingWritten DEF SetupInv, SavesOK
<1>2. CASE Setup!runTest
  <2>1. UNCHANGED <<srv, saves>> /\ panel' = [panel EXCEPT !.testing = TRUE, !.result = 0] BY <1>2 DEF Setup!runTest
  <2>2. PanelOK' BY <2>1, PanelFlags
  <2> QED BY <2>1, <2>2, NothingWritten DEF SetupInv, SavesOK
<1>3. CASE Setup!RemoveFails
  <2>1. UNCHANGED <<srv, saves, panel>> BY <1>3 DEF Setup!RemoveFails, Setup!listing
  <2> QED BY <2>1, NothingWritten DEF SetupInv, PanelOK, SavesOK, IsPanel, AsOpened
<1>4. CASE \E s \in saves : Setup!SaveFails(s)
  <2>1. srv' = srv /\ saves' \subseteq saves /\ panel' \in {panel, [panel EXCEPT !.saving = FALSE]}
    BY <1>4 DEF Setup!SaveFails, Setup!Settled
  <2>2. PanelOK' BY <2>1, PanelFlags
  <2> QED BY <2>1, <2>2, NothingWritten DEF SetupInv, SavesOK
<1>5. CASE \E t \in tests : Setup!TestSettles(t)
  <2>1. PICK t \in tests : Setup!TestSettles(t) BY <1>5
  <2>2. UNCHANGED <<srv, saves>> /\ (panel' = panel \/ panel' = [panel EXCEPT !.testing = FALSE, !.result = t.of])
    BY <2>1 DEF Setup!TestSettles
  <2>3. PanelOK' BY <2>2, PanelFlags
  <2> QED BY <2>2, <2>3, NothingWritten DEF SetupInv, SavesOK
<1> QED BY <1>1, <1>2, <1>3, <1>4, <1>5

\* An inbox that is gone keeps the fields that a save writes.
LEMMA GoneRow ==
    ASSUME SetupInv, NEW i \in Inbox, srv' = [srv EXCEPT ![i].there = "gone"], PanelOK', SavesOK'
    PROVE  SetupInv' /\ EditsWritten
<1> DEFINE r == [srv[i] EXCEPT !.there = "gone"]
<1>1. IsRow(srv[i]) BY DEF SetupInv, IsRows
<1>2. IsRow(r) /\ r.name = srv[i].name /\ r.agents = srv[i].agents BY <1>1 DEF IsRow
<1>3. srv' = [srv EXCEPT ![i] = r] OBVIOUS
<1> HIDE DEF r
<1>4. IsRows(srv)' /\ srv'[i] = r /\ \A j \in Inbox \ {i} : srv'[j] = srv[j] BY <1>2, <1>3, RowChanges
<1>5. \A j \in Inbox : srv'[j].name = srv[j].name /\ srv'[j].agents = srv[j].agents BY <1>2, <1>4
<1>6. \A s \in saves : s.of \in Inbox BY DEF SetupInv
<1>7. EditsWritten BY <1>5, <1>6 DEF EditsWritten, Setup!Field
<1> QED BY <1>4, <1>7 DEF SetupInv, PanelOK, SavesOK

\* A save writes its name and agents.
LEMMA WriteStep ==
    ASSUME SetupInv, NEW s, s.of \in Inbox, srv' = Setup!Write(srv, s)
    PROVE  /\ IsRows(srv)' /\ srv'[s.of].name = s.name /\ srv'[s.of].agents = s.agents
           /\ \A j \in Inbox \ {s.of} : srv'[j] = srv[j]
<1> DEFINE i == s.of
           r == [there |-> srv[i].there, provider |-> srv[i].provider, name |-> s.name, agents |-> s.agents,
                 needsReconnect |-> srv[i].needsReconnect]
<1>1. IsRow(srv[i]) BY DEF SetupInv, IsRows
<1>2. IsRow(r) /\ r.name = s.name /\ r.agents = s.agents BY DEF IsRow
<1>3. srv' = [srv EXCEPT ![i] = r]
  <2> DEFINE a == [srv EXCEPT ![i].name = s.name]
  <2>1. srv' = [a EXCEPT ![i].agents = s.agents] BY DEF Setup!Write
  <2>2. a = [srv EXCEPT ![i] = [srv[i] EXCEPT !.name = s.name]] /\ i \in Inbox OBVIOUS
  <2>3. srv = [j \in Inbox |-> srv[j]] BY DEF SetupInv, IsRows
  <2>4. a[i] = [srv[i] EXCEPT !.name = s.name] BY <2>2, <2>3
  <2>5. srv' = [srv EXCEPT ![i] = [a[i] EXCEPT !.agents = s.agents]] BY <2>1, <2>2, <2>3
  <2>6. [a[i] EXCEPT !.agents = s.agents] = r BY <1>1, <2>4 DEF IsRow
  <2> QED BY <2>5, <2>6
<1> HIDE DEF r
<1> QED BY <1>2, <1>3, RowChanges


\* The save button: a request in connected mode, the change itself in memory.
LEMMA SaveStep == ASSUME SetupInv, Setup!save PROVE SetupInv' /\ EditsWritten
<1> DEFINE s == [of |-> panel.of, name |-> panel.name, agents |-> panel.agents, edited |-> panel.edited,
                 base |-> panel.base, orphan |-> FALSE]
<1>1. IsSave(s) /\ AsOpened(s) /\ s.of \in Inbox BY DEF SetupInv, Setup!save, Setup!canSave, IsSave, AsOpened
<1>2. CASE Setup!Live
  <2>1. srv' = srv /\ saves' = saves \cup {s} /\ panel' \in {panel, [panel EXCEPT !.saving = TRUE]} BY <1>2 DEF Setup!save
  <2>2. PanelOK' BY <2>1, PanelFlags
  <2> HIDE DEF s
  <2>3. SavesOK' BY <1>1, <2>1 DEF SetupInv, SavesOK
  <2> QED BY <2>1, <2>2, <2>3, NothingWritten
<1>3. CASE ~Setup!Live
  <2>1. srv' = Setup!Write(srv, s) /\ UNCHANGED <<saves, panel>> BY <1>3 DEF Setup!save
  <2> HIDE DEF s
  <2>2. IsRows(srv)' BY <1>1, <2>1, WriteStep
  <2> QED BY <2>1, <2>2 DEF SetupInv, EditsWritten, IsPanel, AsOpened
<1> QED BY <1>2, <1>3

\* The server writes what the save carries: an edit, or a field as it was when the panel was opened.
LEMMA SavedStep == ASSUME SetupInv, NEW s \in saves, Setup!SaveSucceeds(s) PROVE SetupInv' /\ EditsWritten
<1>1. saves' = saves \ {s} /\ srv' = Setup!Write(srv, s) /\ panel' \in {panel, [panel EXCEPT !.saving = FALSE]}
  BY DEF Setup!SaveSucceeds, Setup!Settled
<1>2. PanelOK' BY <1>1, PanelFlags
<1>3. IsSave(s) /\ AsOpened(s) /\ s.of \in Inbox BY DEF SetupInv
<1>4. IsRows(srv)' /\ srv'[s.of].name = s.name /\ srv'[s.of].agents = s.agents BY <1>1, <1>3, WriteStep
<1>5. ASSUME NEW x \in saves \ saves', NEW f \in Setup!Field, srv'[x.of][f] # srv[x.of][f]
      PROVE  f \in x.edited \/ x.base[f] # srv[x.of][f]
  <2>1. x = s BY <1>1, <1>5
  <2>2. CASE f = "name" BY <2>1, <2>2, <1>3, <1>4, <1>5 DEF AsOpened
  <2>3. CASE f = "agents" BY <2>1, <2>3, <1>3, <1>4, <1>5 DEF AsOpened
  <2> QED BY <2>2, <2>3 DEF Setup!Field
<1>6. EditsWritten BY <1>5 DEF EditsWritten
<1> QED BY <1>1, <1>2, <1>4, <1>6 DEF SetupInv, PanelOK

\* An inbox is deleted.
LEMMA DeleteSteps == ASSUME SetupInv, Setup!onDelete \/ (Setup!RemoveSucceeds /\ RemovalOK) PROVE SetupInv' /\ EditsWritten
<1>1. CASE Setup!onDelete /\ Setup!Live
  <2>1. UNCHANGED <<srv, panel, saves>> BY <1>1 DEF Setup!onDelete
  <2> QED BY <2>1, NothingWritten DEF SetupInv, PanelOK, SavesOK, IsPanel, AsOpened
<1>2. CASE Setup!onDelete /\ ~Setup!Live
  <2> DEFINE rs == [srv EXCEPT ![panel.of].there = "gone"]
  <2>1. srv' = rs /\ Setup!Show(rs, Setup!First(Setup!There(rs))) BY <1>2 DEF Setup!onDelete
  <2>2. panel.of \in Inbox BY <1>2 DEF Setup!onDelete, SetupInv
  <2>3. PanelOK' /\ SavesOK' BY <2>1, ShowStep
  <2> QED BY <2>1, <2>2, <2>3, GoneRow
<1>3. CASE Setup!RemoveSucceeds /\ RemovalOK
  <2>1. srv' = [srv EXCEPT ![removal].there = "gone"] /\ removal \in Inbox
    BY <1>3 DEF Setup!RemoveSucceeds, RemovalOK
  <2>2. PanelOK' /\ SavesOK' BY <1>3, ShowStep DEF Setup!RemoveSucceeds
  <2> QED BY <2>1, <2>2, GoneRow
<1> QED BY <1>1, <1>2, <1>3

\* The dialog leaves the panel and its saves alone; its answers may show another inbox.
LEMMA DialogSteps ==
    ASSUME SetupInv,
           \/ Setup!openConnect \/ Setup!AllPlatforms \/ Setup!SetName \/ Setup!submit \/ Setup!onClose
           \/ \E p \in Provider : Setup!choosePlatform(p)
           \/ \E k, v : Setup!setValue(k, v)
           \/ \E r \in requests : Setup!RequestAnswered(r) \/ Setup!RequestFails(r)
    PROVE  SetupInv' /\ EditsWritten
<1>1. CASE \/ Setup!openConnect \/ Setup!AllPlatforms \/ Setup!SetName \/ Setup!submit \/ Setup!onClose
           \/ \E p \in Provider : Setup!choosePlatform(p)
           \/ \E k, v : Setup!setValue(k, v)
           \/ \E r \in requests : Setup!RequestFails(r)
  <2>1. UNCHANGED <<srv, panel, saves>>
    BY <1>1 DEF Setup!openConnect, Setup!AllPlatforms, Setup!SetName, Setup!submit, Setup!onClose, Setup!choosePlatform,
           Setup!setValue, Setup!RequestFails, Setup!pending
  <2> QED BY <2>1, NothingWritten, SMTT(60) DEF SetupInv, PanelOK, SavesOK, IsPanel, AsOpened
<1>2. CASE \E r \in requests : Setup!RequestAnswered(r)
  <2>1. PICK r \in requests : Setup!RequestAnswered(r) BY <1>2
  <2>2. srv' = srv BY <2>1 DEF Setup!RequestAnswered
  <2>3. CASE r.of # 0
    <3>1. UNCHANGED <<panel, saves>> BY <2>1, <2>3 DEF Setup!RequestAnswered
    <3> QED BY <2>2, <3>1, NothingWritten DEF SetupInv, PanelOK, SavesOK, IsPanel, AsOpened
  <2>4. CASE r.of = 0
    <3>1. panel' = Setup!Keyed(rows, r.done) /\ (saves' = saves \/ saves' = Setup!Orphaned(saves))
      BY <2>1, <2>4 DEF Setup!RequestAnswered
    <3>2. PanelOK' /\ SavesOK' BY <3>1, KeyedPanel, OrphanedSaves DEF PanelOK, SavesOK
    <3> QED BY <2>2, <3>2, NothingWritten
  <2> QED BY <2>3, <2>4
<1> QED BY <1>1, <1>2

\* An inbox is connected, or connected again.
LEMMA ConnectSteps ==
    ASSUME SetupInv, Setup!submitPreview \/ Setup!handleReconnect \/ \E r \in requests : Setup!RequestApplied(r)
    PROVE  SetupInv' /\ EditsWritten
<1>0. \A p : IsRow(Setup!Some(p)) BY SomeRow DEF IsRow
<1>1. CASE Setup!submitPreview
  <2> DEFINE i == Setup!First(Setup!NewIds)
             rs == [srv EXCEPT ![i] = Setup!Some(modal.provider)]
  <2>1. srv' = rs /\ panel' = Setup!Keyed(rs, i) /\ saves' = saves BY <1>1 DEF Setup!submitPreview, Setup!pending
  <2>2. PanelOK' BY <2>1, KeyedPanel DEF PanelOK
  <2>3. i \in Inbox
    <3>1. Setup!NewIds \subseteq Inbox /\ Setup!NewIds \subseteq Nat /\ Setup!NewIds # {}
      BY <1>1, SetupAssumption DEF Setup!NewIds, Setup!submitPreview
    <3> QED BY <3>1, LeastNatural DEF Setup!First
  <2> HIDE DEF i
  <2>4. IsRows(srv)' BY <1>0, <2>1, <2>3, RowChanges
  <2> QED BY <2>1, <2>2, <2>4 DEF SetupInv, EditsWritten, PanelOK
<1>2. CASE Setup!handleReconnect
  <2>1. UNCHANGED <<panel, saves>> BY <1>2 DEF Setup!handleReconnect, Setup!pending
  <2>2. CASE Setup!Live
    <3>1. srv' = srv BY <1>2, <2>2 DEF Setup!handleReconnect
    <3> QED BY <2>1, <3>1, NothingWritten DEF SetupInv, PanelOK, SavesOK, IsPanel, AsOpened
  <2>3. CASE ~Setup!Live
    <3>1. PICK i \in Inbox : i = panel.of BY <1>2 DEF Setup!handleReconnect, SetupInv
    <3> DEFINE r == [srv[i] EXCEPT !.needsReconnect = FALSE]
    <3>2. srv' = [srv EXCEPT ![i] = r] BY <1>2, <2>3, <3>1 DEF Setup!handleReconnect
    <3>3. IsRow(srv[i]) BY DEF SetupInv, IsRows
    <3>4. IsRow(r) BY <3>3, Reconnected
    <3> HIDE DEF r
    <3>5. IsRows(srv)' BY <3>1, <3>2, <3>4, RowChanges
    <3> QED BY <2>1, <3>5 DEF SetupInv, EditsWritten, IsPanel, AsOpened
  <2> QED BY <2>2, <2>3
<1>3. CASE \E r \in requests : Setup!RequestApplied(r)
  <2>1. PICK r \in requests : Setup!RequestApplied(r) BY <1>3
  <2>2. UNCHANGED <<panel, saves>> BY <2>1 DEF Setup!RequestApplied, Setup!pending
  <2>3. PICK i \in Inbox :
           srv' = [srv EXCEPT ![i] = IF r.of = 0 THEN Setup!Some(r.provider) ELSE [srv[i] EXCEPT !.needsReconnect = FALSE]]
    BY <2>1 DEF Setup!RequestApplied
  <2> DEFINE x == IF r.of = 0 THEN Setup!Some(r.provider) ELSE [srv[i] EXCEPT !.needsReconnect = FALSE]
  <2>4. IsRow(srv[i]) BY DEF SetupInv, IsRows
  <2>5. IsRow(x) BY <1>0, <2>4, Reconnected
  <2> HIDE DEF x
  <2>6. IsRows(srv)' BY <2>3, <2>5, RowChanges DEF x
  <2> QED BY <2>2, <2>6 DEF SetupInv, EditsWritten, IsPanel, AsOpened
<1> QED BY <1>1, <1>2, <1>3


\* The inbox to be removed is one that was shown.
LEMMA RemovalStep == ASSUME SetupInv, RemovalOK, Setup!PanelNext \/ Setup!DialogNext PROVE RemovalOK'
<1>1. removal' \in {0, removal, panel.of}
  <2>1. CASE Setup!List
    BY <2>1 DEF Setup!List, Setup!ListRequested, Setup!ListAnswered, Setup!OtherDeletes, Setup!Other, Setup!pending
  <2>2. CASE \E i \in Inbox : Setup!Select(i) \/ Setup!OtherEdits(i)
    BY <2>2 DEF Setup!Select, Setup!OtherEdits, Setup!Other
  <2>3. CASE Setup!save \/ Setup!onDelete \/ Setup!runTest \/ Setup!RemoveSucceeds \/ Setup!RemoveFails
    BY <2>3, SMTT(60) DEF Setup!save, Setup!onDelete, Setup!runTest, Setup!RemoveSucceeds, Setup!RemoveFails
  <2>4. CASE \/ \E f \in Setup!Field, v \in {"new", ""} : Setup!Edit(f, v)
             \/ \E s \in saves : Setup!SaveSucceeds(s) \/ Setup!SaveFails(s)
             \/ \E t \in tests : Setup!TestSettles(t)
    BY <2>4 DEF Setup!Edit, Setup!SaveSucceeds, Setup!SaveFails, Setup!TestSettles, Setup!pending
  <2>5. CASE \/ Setup!openConnect \/ Setup!AllPlatforms \/ Setup!SetName \/ Setup!submit \/ Setup!submitPreview
             \/ Setup!handleReconnect \/ Setup!onClose
    BY <2>5, SMTT(60) DEF Setup!openConnect, Setup!AllPlatforms, Setup!SetName, Setup!submit, Setup!submitPreview,
           Setup!handleReconnect, Setup!onClose, Setup!pending
  <2>6. CASE \/ \E p \in Provider : Setup!choosePlatform(p)
             \/ \E k, v : Setup!setValue(k, v)
             \/ \E r \in requests : Setup!RequestApplied(r) \/ Setup!RequestAnswered(r) \/ Setup!RequestFails(r)
    BY <2>6 DEF Setup!choosePlatform, Setup!setValue, Setup!RequestApplied, Setup!RequestAnswered, Setup!RequestFails,
           Setup!pending
  <2> QED BY <2>1, <2>2, <2>3, <2>4, <2>5, <2>6 DEF Setup!PanelNext, Setup!DialogNext
<1> QED BY <1>1 DEF SetupInv, RemovalOK

\* The page opens with nothing edited and no save under way.
LEMMA SetupInit == ASSUME Setup!Init PROVE SetupInv /\ RemovalOK
<1>1. saves = {} /\ removal = 0 BY DEF Setup!Init
<1>2. PICK d : Setup!NoRow = [there |-> "never", provider |-> d, name |-> "old", agents |-> "old", needsReconnect |-> FALSE]
  BY NoRowIs
<1>3. IsRows(srv)
  <2>1. PICK p \in Provider, n \in Inbox :
           srv = [i \in Inbox |-> IF i > n THEN Setup!NoRow ELSE [Setup!Some(p) EXCEPT !.needsReconnect = (i = 1)]]
    BY DEF Setup!Init
  <2>2. IsRow(Setup!NoRow) BY <1>2 DEF IsRow
  <2>3. \A b : IsRow([Setup!Some(p) EXCEPT !.needsReconnect = b])
    <3>1. IsRow(Setup!Some(p)) BY SomeRow DEF IsRow
    <3> QED BY <3>1, Reconnected
  <2>4. \A i \in Inbox : IsRow(srv[i])
    <3>1. TAKE i \in Inbox
    <3>2. srv[i] = Setup!NoRow \/ srv[i] = [Setup!Some(p) EXCEPT !.needsReconnect = (i = 1)] BY <2>1
    <3> QED BY <2>2, <2>3, <3>2
  <2>5. srv = [i \in Inbox |-> srv[i]] BY <2>1
  <2> QED BY <2>4, <2>5 DEF IsRows
<1>4. CASE source = "preview"
  <2>1. panel = Setup!Mount(srv, 1) BY <1>4 DEF Setup!Init
  <2>2. panel = [of |-> 1, base |-> srv[1], name |-> srv[1].name, agents |-> srv[1].agents, edited |-> {},
                 saving |-> FALSE, testing |-> FALSE, result |-> 0]
    BY <2>1, MountedPanel
  <2> QED BY <1>1, <1>3, <2>2, SetupAssumption DEF SetupInv, IsPanel, AsOpened, RemovalOK
<1>5. CASE source # "preview"
  <2>1. panel = Setup!NoPanel BY <1>5 DEF Setup!Init
  <2>2. panel = [of |-> 0, base |-> Setup!NoRow, name |-> "old", agents |-> "old", edited |-> {},
                 saving |-> FALSE, testing |-> FALSE, result |-> 0]
    BY <2>1 DEF Setup!NoPanel
  <2> QED BY <1>1, <1>2, <1>3, <2>2 DEF SetupInv, IsPanel, AsOpened, RemovalOK
<1> QED BY <1>4, <1>5

\* Every step of the Channels page.
LEMMA SetupNext ==
    ASSUME SetupInv, RemovalOK, Setup!PanelNext \/ Setup!DialogNext
    PROVE  SetupInv' /\ RemovalOK' /\ EditsWritten
<1>1. RemovalOK' BY RemovalStep
<1>2. CASE Setup!PanelNext
  <2>1. \/ Setup!ListRequested \/ Setup!ListAnswered
        \/ \E i \in Inbox : Setup!Select(i) \/ Setup!OtherEdits(i) \/ Setup!OtherDeletes(i)
        \/ Setup!save \/ Setup!onDelete \/ Setup!runTest \/ Setup!RemoveSucceeds \/ Setup!RemoveFails
        \/ \E f \in Setup!Field, v \in {"new", ""} : Setup!Edit(f, v)
        \/ \E s \in saves : Setup!SaveSucceeds(s) \/ Setup!SaveFails(s)
        \/ \E t \in tests : Setup!TestSettles(t)
    BY <1>2 DEF Setup!PanelNext, Setup!List
  <2> QED BY <1>1, <2>1, ListSteps, PanelSteps, SaveStep, SavedStep, DeleteSteps
<1>3. CASE Setup!DialogNext
  <2>1. \/ Setup!ListRequested \/ Setup!ListAnswered
        \/ \E i \in Inbox : Setup!Select(i) \/ Setup!OtherEdits(i) \/ Setup!OtherDeletes(i)
        \/ Setup!openConnect \/ Setup!AllPlatforms \/ Setup!SetName \/ Setup!submit \/ Setup!onClose
        \/ Setup!submitPreview \/ Setup!handleReconnect
        \/ \E p \in Provider : Setup!choosePlatform(p)
        \/ \E k, v : Setup!setValue(k, v)
        \/ \E r \in requests : Setup!RequestApplied(r) \/ Setup!RequestAnswered(r) \/ Setup!RequestFails(r)
    BY <1>3 DEF Setup!DialogNext, Setup!List
  <2> QED BY <1>1, <2>1, ListSteps, DialogSteps, ConnectSteps
<1> QED BY <1>2, <1>3

-----------------------------------------------------------------------------
(* What the dialog sends and reports *)

RowOK(r) ==
    /\ IsRow(r) /\ r.there \in {"never", "yes", "gone"} /\ r.provider \in Provider /\ r.name \in {"old", "new", ""}
    /\ r.agents \in {"old", "new"}
ListOK(rs) == rs = [i \in Inbox |-> rs[i]] /\ \A i \in Inbox : RowOK(rs[i])
FlagsOK(rs) == \A i \in Inbox : rs[i].needsReconnect \in BOOLEAN

\* An inbox keeps its platform, from the list rs to the list qs.
KnownBy(rs, qs) == \A i \in Inbox : rs[i].there # "never" => qs[i].there # "never" /\ rs[i].provider = qs[i].provider

\* The server's inboxes before and after a step.
Grows(qs, ns) == ListOK(ns) /\ FlagsOK(ns) /\ KnownBy(qs, ns)

LEMMA OneRow ==
    ASSUME NEW qs, NEW ns, ListOK(qs), FlagsOK(qs), NEW i \in Inbox, NEW r, RowOK(r), r.needsReconnect \in BOOLEAN,
           qs[i].there # "never" => r.there # "never" /\ r.provider = qs[i].provider, ns = [qs EXCEPT ![i] = r]
    PROVE  Grows(qs, ns)
<1>1. qs = [j \in Inbox |-> qs[j]] BY DEF ListOK
<1>2. ns[i] = r /\ \A j \in Inbox \ {i} : ns[j] = qs[j] BY <1>1
<1>3. ns = [j \in Inbox |-> ns[j]] BY <1>1
<1>4. \A j \in Inbox : RowOK(ns[j]) BY <1>2, Zenon DEF ListOK
<1>5. FlagsOK(ns) BY <1>2, Zenon DEF FlagsOK
<1>6. KnownBy(qs, ns) BY <1>2, Zenon DEF KnownBy
<1> QED BY <1>3, <1>4, <1>5, <1>6, Zenon DEF Grows, ListOK

LEMMA SameRows == ASSUME NEW qs, ListOK(qs), FlagsOK(qs) PROVE Grows(qs, qs)
BY Zenon DEF Grows, KnownBy

\* A row of the same inbox.
Like(d, r) == RowOK(d) /\ d.there = r.there /\ d.provider = r.provider

\* One field of a row is changed.
LEMMA AgentsSet ==
    ASSUME NEW r, RowOK(r), NEW x \in {"old", "new"}, NEW d, d = [r EXCEPT !.agents = x]
    PROVE  Like(d, r) /\ d.needsReconnect = r.needsReconnect
<1>1. d = [there |-> r.there, provider |-> r.provider, name |-> r.name, agents |-> x, needsReconnect |-> r.needsReconnect]
  BY DEF RowOK, IsRow
<1> QED BY <1>1 DEF RowOK, IsRow, Like

LEMMA NameSet ==
    ASSUME NEW r, RowOK(r), NEW x \in {"old", "new", ""}, NEW d, d = [r EXCEPT !.name = x]
    PROVE  Like(d, r) /\ d.needsReconnect = r.needsReconnect
<1>1. d = [there |-> r.there, provider |-> r.provider, name |-> x, agents |-> r.agents, needsReconnect |-> r.needsReconnect]
  BY DEF RowOK, IsRow
<1> QED BY <1>1 DEF RowOK, IsRow, Like

LEMMA ReconnectSet ==
    ASSUME NEW r, RowOK(r), NEW x, NEW d, d = [r EXCEPT !.needsReconnect = x] PROVE Like(d, r) /\ d.needsReconnect = x
<1>1. d = [there |-> r.there, provider |-> r.provider, name |-> r.name, agents |-> r.agents, needsReconnect |-> x]
  BY DEF RowOK, IsRow
<1> QED BY <1>1 DEF RowOK, IsRow, Like

LEMMA GoneSet ==
    ASSUME NEW r, RowOK(r), NEW d, d = [r EXCEPT !.there = "gone"]
    PROVE  RowOK(d) /\ d.there = "gone" /\ d.provider = r.provider /\ d.needsReconnect = r.needsReconnect
<1>1. d = [there |-> "gone", provider |-> r.provider, name |-> r.name, agents |-> r.agents, needsReconnect |-> r.needsReconnect]
  BY DEF RowOK, IsRow
<1> QED BY <1>1 DEF RowOK, IsRow

LEMMA NewRow == /\ RowOK(Setup!NoRow) /\ Setup!NoRow.there = "never" /\ Setup!NoRow.needsReconnect \in BOOLEAN
                /\ \A p \in Provider : /\ RowOK(Setup!Some(p)) /\ Setup!Some(p).there = "yes" /\ Setup!Some(p).provider = p
                                       /\ Setup!Some(p).needsReconnect \in BOOLEAN
<1> DEFINE d == CHOOSE p \in Provider : TRUE
<1>1. d \in Provider BY PlatformAssumption
<1>2. Setup!NoRow = [there |-> "never", provider |-> d, name |-> "old", agents |-> "old", needsReconnect |-> FALSE]
  BY DEF Setup!NoRow
<1> HIDE DEF d
<1>3. RowOK(Setup!NoRow) /\ Setup!NoRow.there = "never" BY <1>1, <1>2 DEF RowOK, IsRow
<1>4. Setup!NoRow.needsReconnect \in BOOLEAN
  <2>1. Setup!NoRow.needsReconnect = FALSE BY <1>2
  <2> QED BY <2>1, Zenon
<1>5. ASSUME NEW p \in Provider
      PROVE  /\ RowOK(Setup!Some(p)) /\ Setup!Some(p).there = "yes" /\ Setup!Some(p).provider = p
             /\ Setup!Some(p).needsReconnect = FALSE
  <2>1. Setup!Some(p) = [there |-> "yes", provider |-> p, name |-> "old", agents |-> "old", needsReconnect |-> FALSE] BY SomeRow
  <2> QED BY <2>1 DEF RowOK, IsRow
<1>6. \A p \in Provider : Setup!Some(p).needsReconnect \in BOOLEAN BY <1>5, Zenon
<1> QED BY <1>3, <1>4, <1>5, <1>6

LEMMA NoListOK == ListOK(Setup!NoRows) /\ FlagsOK(Setup!NoRows) /\ \A qs : KnownBy(Setup!NoRows, qs)
<1>1. Setup!NoRows = [i \in Inbox |-> Setup!NoRow] BY DEF Setup!NoRows
<1>2. \A i \in Inbox : Setup!NoRows[i] = Setup!NoRow BY <1>1
<1>3. Setup!NoRows = [i \in Inbox |-> Setup!NoRows[i]] BY <1>1
<1>4. \A i \in Inbox : RowOK(Setup!NoRows[i]) BY <1>2, NewRow, Zenon
<1>5. FlagsOK(Setup!NoRows) BY <1>2, NewRow, Zenon DEF FlagsOK
<1>6. \A qs : KnownBy(Setup!NoRows, qs) BY <1>2, NewRow DEF KnownBy
<1> QED BY <1>3, <1>4, <1>5, <1>6, Zenon DEF ListOK

\* What a save writes.
LEMMA WrittenRows ==
    ASSUME NEW qs, NEW s, ListOK(qs), FlagsOK(qs), s.of \in Inbox, s.name \in {"old", "new"}, s.agents \in {"old", "new"}
    PROVE  Grows(qs, Setup!Write(qs, s)) /\ \A i \in Inbox : Setup!Write(qs, s)[i].there = qs[i].there
<1> DEFINE i == s.of
           a == [qs[i] EXCEPT !.name = s.name]
           r == [a EXCEPT !.agents = s.agents]
           ns == Setup!Write(qs, s)
<1>0. qs = [j \in Inbox |-> qs[j]] /\ i \in Inbox BY DEF ListOK
<1>1. ns = [[qs EXCEPT ![i].name = s.name] EXCEPT ![i].agents = s.agents] BY DEF Setup!Write
<1>2. ns = [qs EXCEPT ![i] = r] BY <1>0, <1>1
<1>3. RowOK(qs[i]) /\ qs[i].needsReconnect \in BOOLEAN BY <1>0, Zenon DEF ListOK, FlagsOK
<1>4. Like(a, qs[i]) /\ a.needsReconnect = qs[i].needsReconnect
  <2>1. s.name \in {"old", "new", ""} OBVIOUS
  <2> QED BY <1>3, <2>1, NameSet, Zenon
<1> HIDE DEF a
<1>5. Like(r, a) /\ r.needsReconnect = a.needsReconnect BY <1>4, AgentsSet, Zenon DEF Like
<1> HIDE DEF r, ns
<1>6. r.needsReconnect \in BOOLEAN BY <1>3, <1>4, <1>5, Zenon
<1>9. RowOK(r) /\ r.there = qs[i].there /\ r.provider = qs[i].provider BY <1>4, <1>5, Zenon DEF Like
<1>7. Grows(qs, ns) BY <1>0, <1>2, <1>6, <1>9, OneRow, Zenon
<1>8. \A j \in Inbox : ns[j].there = qs[j].there BY <1>0, <1>2, <1>9
<1> QED BY <1>7, <1>8 DEF ns

-----------------------------------------------------------------------------
ListInv == ListOK(srv) /\ ListOK(rows) /\ ListOK(read) /\ KnownBy(rows, srv) /\ KnownBy(read, srv)
ListFlags == FlagsOK(srv) /\ FlagsOK(rows) /\ FlagsOK(read)

\* In preview mode everything is done at once.
InMemory ==
    source = "preview" => rows = srv /\ read = Setup!NoRows /\ saves = {} /\ tests = {} /\ requests = {} /\ removal = 0

TestOK(t, p) == t = [of |-> t.of, orphan |-> t.orphan] /\ t.of \in Inbox /\ (t.orphan \/ t.of = p.of)

\* The panel is of an inbox in the list, its texts are those there are, and so is the test result.
Panelled(p) ==
    /\ p.name \in {"old", "new", ""} /\ p.agents \in {"old", "new"} /\ p.edited \subseteq Setup!Field
    /\ p.result \in {0, p.of}

PanelInv ==
    /\ panel.of # 0 => rows[panel.of].there = "yes"
    /\ Panelled(panel) /\ selectedId \in {0} \cup Inbox
    /\ \A s \in saves : s.name \in {"old", "new"} /\ s.agents \in {"old", "new"}
    /\ \A t \in tests : TestOK(t, panel)

----------------------------------------------------------------------------
(* The dialog *)

IsModal(m) == m = [step |-> m.step, provider |-> m.provider, values |-> m.values, named |-> m.named,
                   submitting |-> m.submitting, connected |-> m.connected]

\* Texts of a form: a secret was typed in for its platform.
ValuesOK(p, vs) ==
    /\ \A k \in Setup!Key : vs[k] \in {"", "malformed", "default", "saved", p}
    /\ \A k \in Setup!CONNECT_FORMS(p).secrets : vs[k] \in {"", p}

\* The server knows inbox i, and its platform is p.
Has(qs, i, p) == i \in Inbox /\ qs[i].there # "never" /\ qs[i].provider = p

DialogOK(m, qs, id) ==
    /\ IsModal(m) /\ m.step \in Setup!Steps /\ m.values \in [Setup!Key -> Setup!Value]
    /\ m.step \in {"details", "done"} => m.provider \in Provider /\ ValuesOK(m.provider, m.values)
    /\ m.step = "done" => Has(qs, m.connected, m.provider)
    /\ id = 0 \/ (m.step \in {"details", "done"} /\ Has(qs, id, m.provider))

\* What SentAsTyped says of a request.
AsTyped(p, c) ==
    /\ \A k \in Setup!Key : c[k] \in {"", "default", "saved", p}
    /\ \A k \in Setup!CONNECT_FORMS(p).needs : c[k] # ""
    /\ \A k \in Setup!CONNECT_FORMS(p).secrets : c[k] = p
Sent(r) == AsTyped(r.provider, r.sent)

RequestOK(r, qs) ==
    /\ r = [of |-> r.of, provider |-> r.provider, sent |-> r.sent, done |-> r.done, orphan |-> r.orphan]
    /\ Sent(r) /\ r.provider \in Provider
    /\ r.of = 0 \/ Has(qs, r.of, r.provider)
    /\ r.done = 0 \/ Has(qs, r.done, r.provider)

\* The dialog waits for one request, for its own platform.
Awaited(R, m) ==
    /\ \A r \in R : r.orphan \/ (m.submitting /\ m.step = "details" /\ m.provider = r.provider)
    /\ \A r, q \in R : r.orphan \/ q.orphan \/ r = q

DialogInv == DialogOK(modal, srv, reconnectId) /\ (\A r \in requests : RequestOK(r, srv)) /\ Awaited(requests, modal)

\* The forms: a secret is required, and neither the user name nor the colour is one.
LEMMA Forms ==
    ASSUME NEW p \in Provider
    PROVE  /\ Setup!CONNECT_FORMS(p).secrets \subseteq Setup!CONNECT_FORMS(p).needs
           /\ Setup!CONNECT_FORMS(p).needs \subseteq Setup!FieldsOf(p) /\ Setup!FieldsOf(p) \subseteq Setup!Key
           /\ "username" \notin Setup!CONNECT_FORMS(p).secrets /\ "accentColor" \notin Setup!CONNECT_FORMS(p).secrets
<1>1. p \in Setup!Platforms BY PlatformAssumption
<1>2. Setup!CONNECT_FORMS(p).needs \subseteq Setup!FieldsOf(p) BY DEF Setup!FieldsOf
<1>3. Setup!FieldsOf(p) \subseteq Setup!Key BY <1>1, Zenon DEF Setup!Key
<1>4. /\ Setup!CONNECT_FORMS(p).secrets \subseteq Setup!CONNECT_FORMS(p).needs
      /\ "username" \notin Setup!CONNECT_FORMS(p).secrets /\ "accentColor" \notin Setup!CONNECT_FORMS(p).secrets
  BY <1>1 DEF Setup!Platforms, Setup!CONNECT_FORMS
<1> QED BY <1>2, <1>3, <1>4

\* An empty form, filled with what is saved or not.
LEMMA FirstValues ==
    ASSUME NEW p \in Provider, NEW saved \in BOOLEAN
    PROVE  /\ Setup!initialFormValues(p, saved) \in [Setup!Key -> Setup!Value]
           /\ ValuesOK(p, Setup!initialFormValues(p, saved))
<1> DEFINE vs == Setup!initialFormValues(p, saved)
<1>1. \A k \in Setup!Key : vs[k] = (IF k \notin Setup!FieldsOf(p) THEN ""
                                    ELSE IF saved /\ k \notin Setup!CONNECT_FORMS(p).secrets THEN "saved"
                                    ELSE IF k = "accentColor" THEN "default" ELSE "")
  BY DEF Setup!initialFormValues
<1>2. vs = [k \in Setup!Key |-> vs[k]] BY DEF Setup!initialFormValues
<1> HIDE DEF vs
<1>3. \A k \in Setup!Key : vs[k] \in {"", "default", "saved"} BY <1>1, Zenon
<1>4. \A k \in Setup!CONNECT_FORMS(p).secrets : k \in Setup!Key /\ k # "accentColor" BY Forms
<1>5. \A k \in Setup!CONNECT_FORMS(p).secrets : vs[k] = "" BY <1>1, <1>4, Zenon
<1>6. ValuesOK(p, vs) BY <1>3, <1>5 DEF ValuesOK
<1>7. \A k \in Setup!Key : vs[k] \in Setup!Value BY <1>3 DEF Setup!Value
<1>8. vs \in [Setup!Key -> Setup!Value] BY <1>2, <1>7
<1> QED BY <1>6, <1>8 DEF vs

\* What a form without errors sends.
WellFilled(p, vs, c) ==
    p \in Provider /\ ValuesOK(p, vs) /\ c = Setup!buildCredentials(p, vs) /\ Setup!fieldErrorsFrom(p, c) = {}

LEMMA SentForm ==
    ASSUME NEW p, NEW vs, NEW c, WellFilled(p, vs, c) PROVE AsTyped(p, c)
<1>0. p \in Provider /\ ValuesOK(p, vs) /\ c = Setup!buildCredentials(p, vs) /\ Setup!fieldErrorsFrom(p, c) = {}
  BY DEF WellFilled
<1>1. \A k \in Setup!Key : c[k] = (IF k \in Setup!FieldsOf(p) THEN vs[k] ELSE "") BY <1>0 DEF Setup!buildCredentials
<1>2. \A k \in Setup!FieldsOf(p) : c[k] # "malformed" /\ (k \in Setup!CONNECT_FORMS(p).needs => c[k] # "")
  BY <1>0 DEF Setup!fieldErrorsFrom
<1>3. \A k \in Setup!Key : vs[k] \in {"", "malformed", "default", "saved", p} BY <1>0 DEF ValuesOK
<1>4. \A k \in Setup!Key : c[k] \in {"", "default", "saved", p} BY <1>1, <1>2, <1>3
<1>5. \A k \in Setup!CONNECT_FORMS(p).needs : c[k] # "" BY <1>0, <1>2, Forms
<1>6. \A k \in Setup!CONNECT_FORMS(p).secrets : c[k] = p
  <2>1. TAKE k \in Setup!CONNECT_FORMS(p).secrets
  <2>2. k \in Setup!Key /\ k \in Setup!FieldsOf(p) /\ k \in Setup!CONNECT_FORMS(p).needs BY <1>0, Forms
  <2>3. c[k] = vs[k] /\ vs[k] \in {"", p} /\ c[k] # "" BY <1>0, <1>1, <1>5, <2>2 DEF ValuesOK
  <2> QED BY <2>3
<1> QED BY <1>4, <1>5, <1>6 DEF AsTyped

\* What is known of an inbox stays.
LEMMA StillHas == ASSUME NEW qs, NEW ns, KnownBy(qs, ns), NEW i, NEW p, Has(qs, i, p) PROVE Has(ns, i, p)
BY Zenon DEF KnownBy, Has

LEMMA StillOK ==
    ASSUME NEW qs, NEW ns, KnownBy(qs, ns)
    PROVE  /\ \A r : RequestOK(r, qs) => RequestOK(r, ns)
           /\ \A m, id : DialogOK(m, qs, id) => DialogOK(m, ns, id)
BY StillHas, Zenon DEF RequestOK, DialogOK

LEMMA ClosedOK == \A qs : DialogOK(Setup!Closed, qs, 0)
<1> DEFINE c == Setup!Closed
<1>1. c = [step |-> "closed", provider |-> "none", values |-> Setup!Blank, named |-> FALSE, submitting |-> FALSE, connected |-> 0]
  BY DEF Setup!Closed
<1>2. Setup!Blank \in [Setup!Key -> Setup!Value] BY DEF Setup!Blank, Setup!Value
<1> HIDE DEF c
<1>3. IsModal(c) /\ c.step = "closed" /\ c.values = Setup!Blank BY <1>1 DEF IsModal
<1> QED BY <1>2, <1>3 DEF DialogOK, Setup!Steps, c

\* Requests of a dialog that is gone.
LEMMA OrphanedRequests ==
    ASSUME NEW R, NEW qs, \A r \in R : RequestOK(r, qs)
    PROVE  (\A r \in Setup!Orphaned(R) : RequestOK(r, qs)) /\ \A m : Awaited(Setup!Orphaned(R), m)
<1>1. ASSUME NEW x \in Setup!Orphaned(R) PROVE RequestOK(x, qs) /\ x.orphan
  <2>1. PICK r \in R : x = [r EXCEPT !.orphan = TRUE] BY DEF Setup!Orphaned
  <2>2. r = [of |-> r.of, provider |-> r.provider, sent |-> r.sent, done |-> r.done, orphan |-> r.orphan] BY DEF RequestOK
  <2>3. x = [of |-> r.of, provider |-> r.provider, sent |-> r.sent, done |-> r.done, orphan |-> TRUE] BY <2>1, <2>2
  <2>4. /\ x.of = r.of /\ x.provider = r.provider /\ x.sent = r.sent /\ x.done = r.done /\ x.orphan = TRUE
        /\ x = [of |-> x.of, provider |-> x.provider, sent |-> x.sent, done |-> x.done, orphan |-> x.orphan]
    BY <2>3
  <2>5. RequestOK(r, qs) OBVIOUS
  <2>6. Sent(x) BY <2>4, <2>5 DEF RequestOK, Sent
  <2> QED BY <2>4, <2>5, <2>6, Zenon DEF RequestOK
<1> QED BY <1>1, Zenon DEF Awaited

SourceOK == source \in {"connected", "preview"}

\* In memory an inbox is connected again at once.
NoReconnect == source = "preview" => reconnectId = 0

\* Every request counts.
Counts ==
    /\ ops \in Nat /\ ops <= MaxOp /\ others \in Nat /\ others <= MaxOther /\ fails \in Nat /\ fails <= MaxFail

PageInv ==
    /\ SourceOK /\ NoReconnect /\ SetupInv /\ RemovalOK /\ ListInv /\ ListFlags /\ InMemory /\ PanelInv /\ DialogInv
    /\ Counts /\ connectOpen \in BOOLEAN

\* Steps that leave the server's inboxes alone.
LEMMA ServerKept ==
    ASSUME \/ Setup!ListRequested \/ Setup!ListAnswered \/ Setup!runTest \/ Setup!RemoveFails
           \/ \E i \in Inbox : Setup!Select(i)
           \/ \E f \in Setup!Field, v \in {"new", ""} : Setup!Edit(f, v)
           \/ \E s \in saves : Setup!SaveFails(s)
           \/ \E t \in tests : Setup!TestSettles(t)
           \/ Setup!openConnect \/ Setup!AllPlatforms \/ Setup!SetName \/ Setup!submit \/ Setup!onClose
           \/ \E p \in Provider : Setup!choosePlatform(p)
           \/ \E k, v : Setup!setValue(k, v)
           \/ \E r \in requests : Setup!RequestAnswered(r) \/ Setup!RequestFails(r)
    PROVE  srv' = srv
<1>1. CASE \/ Setup!ListRequested \/ Setup!ListAnswered \/ Setup!runTest \/ Setup!RemoveFails
           \/ \E i \in Inbox : Setup!Select(i)
           \/ \E f \in Setup!Field, v \in {"new", ""} : Setup!Edit(f, v)
  BY <1>1, Zenon DEF Setup!ListRequested, Setup!ListAnswered, Setup!runTest, Setup!RemoveFails, Setup!Select, Setup!Edit
<1>2. CASE \/ \E s \in saves : Setup!SaveFails(s)
           \/ \E t \in tests : Setup!TestSettles(t)
           \/ \E r \in requests : Setup!RequestAnswered(r) \/ Setup!RequestFails(r)
  BY <1>2, Zenon DEF Setup!SaveFails, Setup!TestSettles, Setup!RequestAnswered, Setup!RequestFails
<1>3. CASE \/ Setup!openConnect \/ Setup!AllPlatforms \/ Setup!SetName \/ Setup!submit \/ Setup!onClose
           \/ \E p \in Provider : Setup!choosePlatform(p)
           \/ \E k, v : Setup!setValue(k, v)
  BY <1>3, Zenon DEF Setup!openConnect, Setup!AllPlatforms, Setup!SetName, Setup!submit, Setup!onClose, Setup!choosePlatform,
     Setup!setValue
<1> QED BY <1>1, <1>2, <1>3

\* An inbox that was never there gets the first free place.
LEMMA FreePlace ==
    ASSUME NEW i \in Inbox, i = Setup!First(Setup!NewIds) PROVE srv[i].there = "never"
<1>1. Setup!NewIds \subseteq Nat BY SetupAssumption DEF Setup!NewIds
<1>2. Setup!NewIds # {} BY SetupAssumption DEF Setup!First
<1>3. \E x \in Setup!NewIds : \A y \in Setup!NewIds : x <= y BY <1>1, <1>2, LeastNatural
<1>4. i \in Setup!NewIds BY <1>2, <1>3 DEF Setup!First
<1> QED BY <1>4 DEF Setup!NewIds

LEMMA GoneFrom ==
    ASSUME NEW qs, ListOK(qs), FlagsOK(qs), NEW i \in Inbox, NEW ns, ns = [qs EXCEPT ![i].there = "gone"]
    PROVE  Grows(qs, ns)
<1> DEFINE r == [qs[i] EXCEPT !.there = "gone"]
<1>1. ns = [qs EXCEPT ![i] = r] OBVIOUS
<1>2. RowOK(qs[i]) /\ qs[i].needsReconnect \in BOOLEAN BY Zenon DEF ListOK, FlagsOK
<1>3. RowOK(r) /\ r.there = "gone" /\ r.provider = qs[i].provider /\ r.needsReconnect = qs[i].needsReconnect
  BY <1>2, GoneSet, Zenon
<1> HIDE DEF r
<1>4. r.needsReconnect \in BOOLEAN BY <1>2, <1>3, Zenon
<1>5. r.there # "never" BY <1>3
<1> QED BY <1>1, <1>3, <1>4, <1>5, OneRow, Zenon

LEMMA ReconnectedIn ==
    ASSUME NEW qs, ListOK(qs), FlagsOK(qs), NEW i \in Inbox, NEW b \in BOOLEAN, NEW ns, ns = [qs EXCEPT ![i].needsReconnect = b]
    PROVE  Grows(qs, ns) /\ \A j \in Inbox : ns[j].there = qs[j].there
<1> DEFINE r == [qs[i] EXCEPT !.needsReconnect = b]
<1>0. qs = [j \in Inbox |-> qs[j]] BY DEF ListOK
<1>1. ns = [qs EXCEPT ![i] = r] OBVIOUS
<1>2. RowOK(qs[i]) BY Zenon DEF ListOK
<1>3. Like(r, qs[i]) /\ r.needsReconnect = b BY <1>2, ReconnectSet
<1> HIDE DEF r
<1>4. r.needsReconnect \in BOOLEAN BY <1>3, Zenon
<1>5. RowOK(r) /\ r.there = qs[i].there /\ r.provider = qs[i].provider BY <1>3, Zenon DEF Like
<1>6. Grows(qs, ns) BY <1>1, <1>4, <1>5, OneRow, Zenon
<1>7. \A j \in Inbox : ns[j].there = qs[j].there BY <1>0, <1>1, <1>5
<1> QED BY <1>6, <1>7

\* What others do, and what is saved or deleted.
LEMMA ServerChanges ==
    ASSUME PageInv,
           \/ \E i \in Inbox : Setup!OtherEdits(i) \/ Setup!OtherDeletes(i)
           \/ Setup!save \/ Setup!onDelete \/ Setup!RemoveSucceeds
           \/ \E s \in saves : Setup!SaveSucceeds(s)
    PROVE  Grows(srv, srv')
<1>0. ListOK(srv) /\ FlagsOK(srv) BY Zenon DEF PageInv, ListInv, ListFlags
<1>00. Grows(srv, srv) BY <1>0, SameRows
<1>1. ASSUME NEW i \in Inbox, Setup!OtherEdits(i) \/ Setup!OtherDeletes(i) PROVE Grows(srv, srv')
  <2>1. PICK r : /\ srv' = [srv EXCEPT ![i] = r]
                 /\ r \in {[srv[i] EXCEPT !.agents = "new"], [srv[i] EXCEPT !.needsReconnect = TRUE],
                           [srv[i] EXCEPT !.there = "gone"]}
    BY <1>1, Zenon DEF Setup!OtherEdits, Setup!OtherDeletes, Setup!Other
  <2>2. RowOK(srv[i]) /\ srv[i].needsReconnect \in BOOLEAN BY <1>0, Zenon DEF ListOK, FlagsOK
  <2>3. RowOK(r) /\ (r.there = srv[i].there \/ r.there = "gone") /\ r.provider = srv[i].provider
        /\ (r.needsReconnect = srv[i].needsReconnect \/ r.needsReconnect = TRUE)
    <3>1. CASE r = [srv[i] EXCEPT !.agents = "new"]
      <4>1. "new" \in {"old", "new"} OBVIOUS
      <4> QED BY <2>2, <3>1, <4>1, AgentsSet, Zenon DEF Like
    <3>2. CASE r = [srv[i] EXCEPT !.needsReconnect = TRUE] 
      <4>1. PICK q : q = srv[i] OBVIOUS
      <4>2. RowOK(q) /\ r = [q EXCEPT !.needsReconnect = TRUE] BY <2>2, <3>2, <4>1
      <4>3. Like(r, q) /\ r.needsReconnect = TRUE BY <4>2, ReconnectSet
      <4> QED BY <4>1, <4>3, Zenon DEF Like
    <3>3. CASE r = [srv[i] EXCEPT !.there = "gone"] BY <2>2, <3>3, GoneSet, Zenon
    <3> QED BY <2>1, <3>1, <3>2, <3>3
  <2>4. r.needsReconnect \in BOOLEAN BY <2>2, <2>3, Zenon
  <2>5. srv[i].there # "never" => r.there # "never" BY <2>3
  <2> QED BY <1>0, <2>1, <2>3, <2>4, <2>5, OneRow, Zenon
<1>2. CASE Setup!save
  <2>1. panel.of \in Inbox /\ panel.name \in {"old", "new"} /\ panel.agents \in {"old", "new"}
    BY <1>2 DEF Setup!save, Setup!canSave, PageInv, SetupInv, PanelInv, Panelled
  <2>2. CASE Setup!Live
    <3>1. srv' = srv BY <1>2, <2>2, Zenon DEF Setup!save
    <3> QED BY <1>00, <3>1
  <2>3. CASE ~Setup!Live
    <3> DEFINE s == [of |-> panel.of, name |-> panel.name, agents |-> panel.agents, edited |-> panel.edited,
                     base |-> panel.base, orphan |-> FALSE]
    <3>1. srv' = Setup!Write(srv, s) BY <1>2, <2>3, Zenon DEF Setup!save
    <3>2. s.of = panel.of /\ s.name = panel.name /\ s.agents = panel.agents OBVIOUS
    <3> HIDE DEF s
    <3>3. s.of \in Inbox /\ s.name \in {"old", "new"} /\ s.agents \in {"old", "new"} BY <2>1, <3>2
    <3> QED BY <1>0, <3>1, <3>3, WrittenRows, Zenon
  <2> QED BY <2>2, <2>3
<1>3. CASE Setup!onDelete
  <2>2. CASE Setup!Live
    <3>1. srv' = srv BY <1>3, <2>2, Zenon DEF Setup!onDelete
    <3> QED BY <1>00, <3>1
  <2>3. CASE ~Setup!Live
    <3>1. srv' = [srv EXCEPT ![panel.of].there = "gone"] BY <1>3, <2>3, Zenon DEF Setup!onDelete
    <3>2. panel.of \in Inbox BY <1>3 DEF Setup!onDelete, PageInv, SetupInv
    <3> QED BY <1>0, <3>1, <3>2, GoneFrom, Zenon
  <2> QED BY <2>2, <2>3
<1>4. CASE Setup!RemoveSucceeds
  <2>1. srv' = [srv EXCEPT ![removal].there = "gone"] /\ removal \in Inbox
    BY <1>4 DEF Setup!RemoveSucceeds, PageInv, RemovalOK
  <2> QED BY <1>0, <2>1, GoneFrom, Zenon
<1>5. ASSUME NEW s \in saves, Setup!SaveSucceeds(s) PROVE Grows(srv, srv')
  <2>1. srv' = Setup!Write(srv, s) BY <1>5, Zenon DEF Setup!SaveSucceeds
  <2>2. s.of \in Inbox /\ s.name \in {"old", "new"} /\ s.agents \in {"old", "new"} BY DEF PageInv, SetupInv, PanelInv
  <2> QED BY <1>0, <2>1, <2>2, WrittenRows, Zenon
<1> QED BY <1>1, <1>2, <1>3, <1>4, <1>5

\* What the dialog connects.
LEMMA ServerConnects ==
    ASSUME PageInv, Setup!submitPreview \/ Setup!handleReconnect \/ \E r \in requests : Setup!RequestApplied(r)
    PROVE  Grows(srv, srv')
<1>0. ListOK(srv) /\ FlagsOK(srv) BY Zenon DEF PageInv, ListInv, ListFlags
<1>1. CASE Setup!submitPreview
  <2> DEFINE i == Setup!First(Setup!NewIds)
  <2>1. srv' = [srv EXCEPT ![i] = Setup!Some(modal.provider)] /\ Setup!NewIds # {} /\ modal.step = "details"
    BY <1>1, Zenon DEF Setup!submitPreview
  <2>2. i \in Inbox
    <3>1. Setup!NewIds \subseteq Inbox /\ Setup!NewIds \subseteq Nat /\ Setup!NewIds # {}
      BY <2>1, SetupAssumption DEF Setup!NewIds
    <3> QED BY <3>1, LeastNatural DEF Setup!First
  <2>3. srv[i].there = "never" BY <2>2, FreePlace
  <2>4. modal.provider \in Provider BY <2>1 DEF PageInv, DialogInv, DialogOK
  <2> HIDE DEF i
  <2> QED BY <1>0, <2>1, <2>2, <2>3, <2>4, NewRow, OneRow, Zenon
<1>2. CASE Setup!handleReconnect
  <2>1. CASE Setup!Live
    <3>1. srv' = srv BY <1>2, <2>1, Zenon DEF Setup!handleReconnect
    <3> QED BY <1>0, <3>1, SameRows
  <2>2. CASE ~Setup!Live
    <3>1. srv' = [srv EXCEPT ![panel.of].needsReconnect = FALSE] BY <1>2, <2>2, Zenon DEF Setup!handleReconnect
    <3>2. panel.of \in Inbox BY <1>2 DEF Setup!handleReconnect, PageInv, SetupInv
    <3>3. FALSE \in BOOLEAN OBVIOUS
    <3> QED BY <1>0, <3>1, <3>2, <3>3, ReconnectedIn, Zenon
  <2> QED BY <2>1, <2>2
<1>3. ASSUME NEW r \in requests, Setup!RequestApplied(r) PROVE Grows(srv, srv')
  <2>1. PICK i \in Inbox :
           /\ IF r.of = 0 THEN i = Setup!First(Setup!NewIds) ELSE i = r.of /\ srv[i].there = "yes"
           /\ srv' = [srv EXCEPT ![i] = IF r.of = 0 THEN Setup!Some(r.provider) ELSE [srv[i] EXCEPT !.needsReconnect = FALSE]]
    BY <1>3, Zenon DEF Setup!RequestApplied
  <2>2. CASE r.of = 0
    <3>1. srv' = [srv EXCEPT ![i] = Setup!Some(r.provider)] /\ i = Setup!First(Setup!NewIds) BY <2>1, <2>2, Zenon
    <3>2. srv[i].there = "never" BY <3>1, FreePlace
    <3>3. r.provider \in Provider BY Zenon DEF PageInv, DialogInv, RequestOK
    <3> QED BY <1>0, <3>1, <3>2, <3>3, NewRow, OneRow, Zenon
  <2>3. CASE r.of # 0
    <3> DEFINE x == [srv[i] EXCEPT !.needsReconnect = FALSE]
    <3>1. srv' = [srv EXCEPT ![i] = x] BY <2>1, <2>3, Zenon
    <3>2. RowOK(srv[i]) BY <1>0, Zenon DEF ListOK
    <3>3. Like(x, srv[i]) /\ x.needsReconnect = FALSE BY <3>2, ReconnectSet, Zenon
    <3> HIDE DEF x
    <3>4. x.needsReconnect \in BOOLEAN BY <3>3, Zenon
    <3>5. RowOK(x) /\ x.there = srv[i].there /\ x.provider = srv[i].provider BY <3>3, Zenon DEF Like
    <3> QED BY <1>0, <3>1, <3>4, <3>5, OneRow, Zenon
  <2> QED BY <2>2, <2>3
<1> QED BY <1>1, <1>2, <1>3

\* Where the list on display and the one being read come from.
Rendered == (rows' = rows \/ rows' = read \/ rows' = srv') /\ (read' = read \/ read' = Setup!NoRows \/ read' = srv)

LEMMA RenderSteps == ASSUME Setup!PanelNext \/ Setup!DialogNext PROVE Rendered
<1>1. CASE Setup!List
  BY <1>1, Zenon DEF Rendered, Setup!List, Setup!ListRequested, Setup!ListAnswered, Setup!Show, Setup!OtherDeletes, Setup!Other,
     Setup!listing
<1>2. CASE \E i \in Inbox : Setup!Select(i) \/ Setup!OtherEdits(i)
  BY <1>2, Zenon DEF Rendered, Setup!Select, Setup!Show, Setup!OtherEdits, Setup!Other, Setup!listing
<1>3. CASE Setup!save \/ Setup!onDelete
  BY <1>3, Zenon DEF Rendered, Setup!save, Setup!onDelete, Setup!Show
<1>4. CASE Setup!runTest \/ Setup!RemoveSucceeds \/ Setup!RemoveFails
  BY <1>4, Zenon DEF Rendered, Setup!runTest, Setup!RemoveSucceeds, Setup!RemoveFails, Setup!Show, Setup!listing
<1>5. CASE \/ \E f \in Setup!Field, v \in {"new", ""} : Setup!Edit(f, v)
           \/ \E s \in saves : Setup!SaveSucceeds(s) \/ Setup!SaveFails(s)
           \/ \E t \in tests : Setup!TestSettles(t)
  BY <1>5, Zenon DEF Rendered, Setup!Edit, Setup!SaveSucceeds, Setup!SaveFails, Setup!TestSettles
<1>6. CASE \/ Setup!openConnect \/ Setup!AllPlatforms \/ Setup!SetName \/ Setup!submit \/ Setup!onClose
           \/ \E p \in Provider : Setup!choosePlatform(p)
           \/ \E k, v : Setup!setValue(k, v)
  BY <1>6, Zenon DEF Rendered, Setup!openConnect, Setup!AllPlatforms, Setup!SetName, Setup!submit, Setup!onClose,
     Setup!choosePlatform, Setup!setValue
<1>7. CASE Setup!submitPreview \/ Setup!handleReconnect
  BY <1>7, Zenon DEF Rendered, Setup!submitPreview, Setup!handleReconnect
<1>8. CASE \E r \in requests : Setup!RequestApplied(r) \/ Setup!RequestAnswered(r) \/ Setup!RequestFails(r)
  BY <1>8, Zenon DEF Rendered, Setup!RequestApplied, Setup!RequestAnswered, Setup!RequestFails
<1> QED BY <1>1, <1>2, <1>3, <1>4, <1>5, <1>6, <1>7, <1>8 DEF Setup!PanelNext, Setup!DialogNext

LEMMA ListsKnown ==
    ASSUME ListInv, ListFlags, Grows(srv, srv'), Rendered PROVE ListInv' /\ ListFlags'
<1>1. ListOK(srv') /\ FlagsOK(srv') /\ KnownBy(srv, srv') /\ KnownBy(srv', srv') BY Zenon DEF Grows, KnownBy
<1>2. \A rs : KnownBy(rs, srv) => KnownBy(rs, srv') BY <1>1, Zenon DEF KnownBy
<1>3. ListOK(rows') /\ FlagsOK(rows') /\ KnownBy(rows', srv')
  BY <1>1, <1>2, Zenon DEF Rendered, ListInv, ListFlags
<1>4. ListOK(read') /\ FlagsOK(read') /\ KnownBy(read', srv')
  <2>1. CASE read' = read BY <1>2, <2>1, Zenon DEF ListInv, ListFlags
  <2>2. CASE read' = Setup!NoRows BY <2>2, NoListOK, Zenon
  <2>3. CASE read' = srv BY <1>1, <2>3, Zenon DEF ListInv, ListFlags
  <2> QED BY <2>1, <2>2, <2>3 DEF Rendered
<1> QED BY <1>1, <1>3, <1>4 DEF ListInv, ListFlags, ListOK, FlagsOK, KnownBy

LEMMA NoOrphans == Setup!Orphaned({}) = {}
BY DEF Setup!Orphaned

\* The page stays in its mode; in memory nothing is ever under way.
LEMMA ModeSteps == ASSUME Setup!PanelNext \/ Setup!DialogNext PROVE source' = source
<1>1. CASE Setup!List
  BY <1>1, Zenon DEF Setup!List, Setup!ListRequested, Setup!ListAnswered, Setup!OtherDeletes, Setup!Other
<1>2. CASE \E i \in Inbox : Setup!Select(i) \/ Setup!OtherEdits(i)
  BY <1>2, Zenon DEF Setup!Select, Setup!OtherEdits, Setup!Other
<1>3. CASE Setup!save \/ Setup!onDelete \/ Setup!runTest \/ Setup!RemoveSucceeds \/ Setup!RemoveFails
  BY <1>3, Zenon DEF Setup!save, Setup!onDelete, Setup!runTest, Setup!RemoveSucceeds, Setup!RemoveFails
<1>5. CASE \/ \E f \in Setup!Field, v \in {"new", ""} : Setup!Edit(f, v)
           \/ \E s \in saves : Setup!SaveSucceeds(s) \/ Setup!SaveFails(s)
           \/ \E t \in tests : Setup!TestSettles(t)
  BY <1>5, Zenon DEF Setup!Edit, Setup!SaveSucceeds, Setup!SaveFails, Setup!TestSettles
<1>6. CASE \/ Setup!openConnect \/ Setup!AllPlatforms \/ Setup!SetName \/ Setup!submit \/ Setup!onClose
           \/ \E p \in Provider : Setup!choosePlatform(p)
           \/ \E k, v : Setup!setValue(k, v)
           \/ Setup!submitPreview \/ Setup!handleReconnect
  BY <1>6, Zenon DEF Setup!openConnect, Setup!AllPlatforms, Setup!SetName, Setup!submit, Setup!onClose,
     Setup!choosePlatform, Setup!setValue, Setup!submitPreview, Setup!handleReconnect
<1>8. CASE \E r \in requests : Setup!RequestApplied(r) \/ Setup!RequestAnswered(r) \/ Setup!RequestFails(r)
  BY <1>8, Zenon DEF Setup!RequestApplied, Setup!RequestAnswered, Setup!RequestFails
<1> QED BY <1>1, <1>2, <1>3, <1>5, <1>6, <1>8 DEF Setup!PanelNext, Setup!DialogNext

LEMMA InMemorySteps == ASSUME InMemory, Setup!PanelNext \/ Setup!DialogNext PROVE InMemory'
<1>0. source' = source BY ModeSteps
<1> SUFFICES ASSUME source = "preview"
             PROVE  rows' = srv' /\ read' = Setup!NoRows /\ saves' = {} /\ tests' = {} /\ requests' = {} /\ removal' = 0
  BY <1>0 DEF InMemory, Setup!NoRows, Setup!NoRow
<1> DEFINE Goal == rows' = srv' /\ read' = Setup!NoRows /\ saves' = {} /\ tests' = {} /\ requests' = {} /\ removal' = 0
<1>00. /\ ~Setup!Live /\ rows = srv /\ read = Setup!NoRows /\ saves = {} /\ tests = {} /\ requests = {} /\ removal = 0
  BY DEF Setup!Live, InMemory
<1>1. ~Setup!List
  BY <1>00, Zenon DEF Setup!List, Setup!ListRequested, Setup!ListAnswered, Setup!OtherDeletes, Setup!Other
<1>2. CASE \E i \in Inbox : Setup!Select(i) \/ Setup!OtherEdits(i)
  BY <1>00, <1>2, NoOrphans, Zenon DEF Setup!Select, Setup!OtherEdits, Setup!Other, Setup!Show
<1>3. CASE Setup!save
  BY <1>00, <1>3, Zenon DEF Setup!save, Setup!dialog
<1>4. CASE Setup!onDelete
  BY <1>00, <1>4, NoOrphans, Zenon DEF Setup!onDelete, Setup!Show
<1>5. ~(Setup!runTest \/ Setup!RemoveSucceeds \/ Setup!RemoveFails)
  BY <1>00, Zenon DEF Setup!runTest, Setup!RemoveSucceeds, Setup!RemoveFails
<1>6. CASE \E f \in Setup!Field, v \in {"new", ""} : Setup!Edit(f, v)
  BY <1>00, <1>6, Zenon DEF Setup!Edit, Setup!pending, Setup!dialog
<1>7. CASE \/ Setup!openConnect \/ Setup!AllPlatforms \/ Setup!SetName \/ Setup!submit \/ Setup!onClose
           \/ \E p \in Provider : Setup!choosePlatform(p)
           \/ \E k, v : Setup!setValue(k, v)
  BY <1>00, <1>7, Zenon DEF Setup!openConnect, Setup!AllPlatforms, Setup!SetName, Setup!submit, Setup!onClose,
     Setup!choosePlatform, Setup!setValue, Setup!pending
<1>8. CASE Setup!submitPreview \/ Setup!handleReconnect
  BY <1>00, <1>8, Zenon DEF Setup!submitPreview, Setup!handleReconnect, Setup!pending
<1> HIDE DEF Goal
<1>9. Goal BY <1>00, <1>1, <1>2, <1>3, <1>4, <1>5, <1>6, <1>7, <1>8 DEF Setup!PanelNext, Setup!DialogNext, Goal
<1> QED BY <1>9 DEF Goal

-----------------------------------------------------------------------------
(* The panel *)

\* The inbox selected is in the list.
LEMMA SelectedThere ==
    ASSUME NEW rs, NEW id PROVE Setup!Selected(rs, id) = 0 \/ Setup!Selected(rs, id) \in Setup!There(rs)
<1> DEFINE T == Setup!There(rs)
<1>1. T \subseteq Nat BY SetupAssumption DEF Setup!There
<1>2. T # {} => \E i \in T : \A j \in T : i <= j BY <1>1, LeastNatural
<1> HIDE DEF T
<1>3. Setup!First(T) \in {0} \cup T BY <1>2 DEF Setup!First
<1> QED BY <1>3 DEF Setup!Selected, T

LEMMA KeyedIs ==
    ASSUME PanelInv, NEW rs, ListOK(rs), NEW id, NEW p, p = Setup!Keyed(rs, id)
    PROVE  /\ Panelled(p) /\ p.of = Setup!Selected(rs, id) /\ (p.of # 0 => rs[p.of].there = "yes")
           /\ Setup!Selected(rs, id) = panel.of => p = panel
<1>1. PICK i : i = Setup!Selected(rs, id) OBVIOUS
<1>2. i = 0 \/ (i \in Inbox /\ rs[i].there = "yes") BY <1>1, SelectedThere DEF Setup!There
<1>3. CASE i = panel.of
  <2>1. p = panel BY <1>1, <1>3 DEF Setup!Keyed
  <2> QED BY <1>1, <1>2, <1>3, <2>1 DEF PanelInv
<1>4. CASE i # panel.of
  <2>1. p = Setup!Mount(rs, i) BY <1>1, <1>4 DEF Setup!Keyed
  <2>2. CASE i = 0
    <3>1. PICK d : Setup!NoRow = d OBVIOUS
    <3>2. p = [of |-> 0, base |-> d, name |-> "old", agents |-> "old", edited |-> {}, saving |-> FALSE,
               testing |-> FALSE, result |-> 0]
      BY <2>1, <2>2, <3>1 DEF Setup!Mount, Setup!NoPanel
    <3>3. Panelled(p) /\ p.of = 0 BY <3>2 DEF Panelled
    <3> QED BY <1>1, <1>4, <2>2, <3>3
  <2>3. CASE i # 0
    <3>1. p = [of |-> i, base |-> rs[i], name |-> rs[i].name, agents |-> rs[i].agents, edited |-> {},
               saving |-> FALSE, testing |-> FALSE, result |-> 0]
      BY <2>1, <2>3, MountedPanel
    <3>2. RowOK(rs[i]) BY <1>2, <2>3 DEF ListOK
    <3>3. p.of = i /\ p.name = rs[i].name /\ p.agents = rs[i].agents /\ p.edited = {} /\ p.result = 0 BY <3>1
    <3>4. Panelled(p) BY <3>2, <3>3 DEF Panelled, RowOK
    <3> QED BY <1>1, <1>2, <1>4, <2>3, <3>3, <3>4
  <2> QED BY <2>2, <2>3
<1> QED BY <1>3, <1>4

\* Tests of a panel that is gone are nobody's.
LEMMA OrphanedTests ==
    ASSUME NEW T, NEW p, \A t \in T : TestOK(t, p) PROVE \A q : \A t \in Setup!Orphaned(T) : TestOK(t, q)
<1>1. ASSUME NEW x \in Setup!Orphaned(T), NEW q PROVE TestOK(x, q)
  <2>1. PICK t \in T : x = [t EXCEPT !.orphan = TRUE] BY DEF Setup!Orphaned
  <2>2. t = [of |-> t.of, orphan |-> t.orphan] /\ t.of \in Inbox BY DEF TestOK
  <2>3. x = [of |-> t.of, orphan |-> TRUE] BY <2>1, <2>2
  <2>4. x.of = t.of /\ x.orphan = TRUE /\ x = [of |-> x.of, orphan |-> x.orphan] BY <2>3
  <2> QED BY <2>2, <2>4, Zenon DEF TestOK
<1> QED BY <1>1

LEMMA OrphanedTexts ==
    ASSUME SavesOK, NEW s \in Setup!Orphaned(saves)
    PROVE  \E x \in saves : s.name = x.name /\ s.agents = x.agents
<1>1. PICK x \in saves : s = [x EXCEPT !.orphan = TRUE] BY DEF Setup!Orphaned
<1>2. IsSave(x) BY DEF SavesOK
<1>3. s.name = x.name /\ s.agents = x.agents BY <1>1, <1>2 DEF IsSave
<1> QED BY <1>3

\* Another inbox may be shown: its panel is mounted, and what the old one waits for is orphaned.
LEMMA ShownPanel ==
    ASSUME PageInv, NEW rs, ListOK(rs), NEW id, panel' = Setup!Keyed(rs, id), rows' = rs, selectedId' \in {0} \cup Inbox,
           \/ Setup!Selected(rs, id) = panel.of /\ UNCHANGED <<saves, tests>>
           \/ saves' = Setup!Orphaned(saves) /\ tests' = Setup!Orphaned(tests)
    PROVE  PanelInv'
<1>0. PanelInv /\ SavesOK BY Zenon DEF PageInv, SetupInv, SavesOK
<1>1. /\ Panelled(panel') /\ (panel'.of # 0 => rs[panel'.of].there = "yes")
      /\ Setup!Selected(rs, id) = panel.of => panel' = panel
  BY <1>0, KeyedIs
<1>2. \A s \in saves' : s.name \in {"old", "new"} /\ s.agents \in {"old", "new"} BY <1>0, OrphanedTexts DEF PanelInv
<1>3. \A t \in tests' : TestOK(t, panel')
  <2>1. \A t \in tests : TestOK(t, panel) BY <1>0 DEF PanelInv
  <2> QED BY <1>1, <2>1, OrphanedTests
<1> QED BY <1>1, <1>2, <1>3 DEF PanelInv, Panelled, TestOK

\* Steps that change no panel.
LEMMA PanelKept ==
    ASSUME PageInv, UNCHANGED <<panel, selectedId, saves, tests>>, \A i \in Inbox : rows'[i].there = rows[i].there
    PROVE  PanelInv'
<1>1. panel.of # 0 => panel.of \in Inbox BY DEF PageInv, SetupInv
<1> QED BY <1>1 DEF PageInv, PanelInv, Panelled, TestOK

\* The page is rendered again.
LEMMA ShownAgain ==
    ASSUME PageInv, NEW rs, ListOK(rs), NEW id \in {0} \cup Inbox, Setup!Show(rs, id) PROVE PanelInv'
<1>1. panel' = Setup!Keyed(rs, id) /\ rows' = rs /\ selectedId' = id BY DEF Setup!Show
<1>2. \/ Setup!Selected(rs, id) = panel.of /\ UNCHANGED <<saves, tests>>
      \/ saves' = Setup!Orphaned(saves) /\ tests' = Setup!Orphaned(tests)
  BY DEF Setup!Show
<1> QED BY <1>1, <1>2, ShownPanel

\* Steps that show other rows or another inbox.
LEMMA ShowSteps ==
    ASSUME PageInv, \/ Setup!ListAnswered \/ Setup!onDelete \/ Setup!RemoveSucceeds \/ Setup!submitPreview
                    \/ \E i \in Inbox : Setup!Select(i)
                    \/ \E r \in requests : Setup!RequestAnswered(r)
    PROVE  PanelInv'
<1>0. ListOK(rows) /\ ListOK(read) /\ ListOK(srv) /\ FlagsOK(srv) /\ selectedId \in {0} \cup Inbox
  BY Zenon DEF PageInv, ListInv, ListFlags, PanelInv
<1>1. CASE Setup!ListAnswered BY <1>0, <1>1, ShownAgain DEF Setup!ListAnswered
<1>2. CASE \E i \in Inbox : Setup!Select(i) BY <1>0, <1>2, ShownAgain DEF Setup!Select
<1>3. CASE Setup!RemoveSucceeds BY <1>0, <1>3, ShownAgain DEF Setup!RemoveSucceeds
<1>4. CASE Setup!onDelete
  <2>1. CASE Setup!Live
    <3>1. UNCHANGED <<panel, selectedId, saves, tests, rows>> BY <1>4, <2>1, Zenon DEF Setup!onDelete
    <3> QED BY <3>1, PanelKept
  <2>2. CASE ~Setup!Live
    <3>1. panel.of \in Inbox BY <1>4 DEF Setup!onDelete, PageInv, SetupInv
    <3>2. PICK rs : rs = [srv EXCEPT ![panel.of].there = "gone"] /\ Setup!Show(rs, Setup!First(Setup!There(rs)))
      BY <1>4, <2>2, Zenon DEF Setup!onDelete
    <3>3. ListOK(rs) BY <1>0, <3>1, <3>2, GoneFrom, Zenon DEF Grows
    <3>4. Setup!First(Setup!There(rs)) \in {0} \cup Inbox
      <4>1. Setup!There(rs) \subseteq Inbox /\ Setup!There(rs) \subseteq Nat BY SetupAssumption DEF Setup!There
      <4> QED BY <4>1, LeastNatural DEF Setup!First
    <3> QED BY <3>2, <3>3, <3>4, ShownAgain
  <2> QED BY <2>1, <2>2
<1>5. CASE Setup!submitPreview
  <2>1. Grows(srv, srv') BY <1>5, ServerConnects
  <2>2. ListOK(srv') BY <2>1 DEF Grows
  <2>3. PICK i : panel' = Setup!Keyed(srv', i) /\ rows' = srv' /\ selectedId' = i /\ i = Setup!First(Setup!NewIds)
                 /\ Setup!NewIds # {}
    BY <1>5, Zenon DEF Setup!submitPreview
  <2>4. i \in Inbox
    <3>1. Setup!NewIds \subseteq Inbox /\ Setup!NewIds \subseteq Nat BY SetupAssumption DEF Setup!NewIds
    <3> QED BY <2>3, <3>1, LeastNatural DEF Setup!First
  <2>5. saves = {} /\ tests = {} /\ UNCHANGED <<saves, tests>>
    BY <1>5, Zenon DEF Setup!submitPreview, Setup!pending, Setup!Live, PageInv, InMemory, SourceOK
  <2>6. saves' = Setup!Orphaned(saves) /\ tests' = Setup!Orphaned(tests) BY <2>5, NoOrphans
  <2> QED BY <2>2, <2>3, <2>4, <2>6, ShownPanel
<1>6. ASSUME NEW r \in requests, Setup!RequestAnswered(r) PROVE PanelInv'
  <2>1. rows' = rows /\ r.done # 0 BY <1>6, Zenon DEF Setup!RequestAnswered
  <2>2. CASE r.of # 0
    <3>1. UNCHANGED <<panel, selectedId, saves, tests>> BY <1>6, <2>2, Zenon DEF Setup!RequestAnswered
    <3> QED BY <2>1, <3>1, PanelKept
  <2>3. CASE r.of = 0
    <3>1. r.done \in Inbox BY <2>1, Zenon DEF PageInv, DialogInv, RequestOK, Has
    <3>2. /\ panel' = Setup!Keyed(rows, r.done) /\ selectedId' = r.done
          /\ \/ Setup!Selected(rows, r.done) = panel.of /\ UNCHANGED <<saves, tests>>
             \/ saves' = Setup!Orphaned(saves) /\ tests' = Setup!Orphaned(tests)
      BY <1>6, <2>3, Zenon DEF Setup!RequestAnswered
    <3> QED BY <1>0, <2>1, <3>1, <3>2, ShownPanel
  <2> QED BY <2>2, <2>3
<1> QED BY <1>1, <1>2, <1>3, <1>4, <1>5, <1>6

\* The texts of a panel change, a save is sent or answered, a test is run or settles.
LEMMA PanelWorks ==
    ASSUME PageInv, \/ \E f \in Setup!Field, v \in {"new", ""} : Setup!Edit(f, v)
                    \/ Setup!save \/ Setup!runTest
                    \/ \E s \in saves : Setup!SaveSucceeds(s) \/ Setup!SaveFails(s)
                    \/ \E t \in tests : Setup!TestSettles(t)
    PROVE  PanelInv'
<1>0. /\ IsPanel(panel) /\ panel.of \in {0} \cup Inbox /\ Panelled(panel) /\ selectedId \in {0} \cup Inbox
      /\ panel.of # 0 => rows[panel.of].there = "yes"
      /\ \A s \in saves : s.name \in {"old", "new"} /\ s.agents \in {"old", "new"}
      /\ \A t \in tests : TestOK(t, panel)
  BY Zenon DEF PageInv, SetupInv, PanelInv
<1>9. IsPanel(panel) BY <1>0
<1>1. ASSUME NEW f \in Setup!Field, NEW v \in {"new", ""}, Setup!Edit(f, v) PROVE PanelInv'
  <2>1. UNCHANGED <<rows, selectedId, saves, tests>> BY <1>1, Zenon DEF Setup!Edit, Setup!pending
  <2>2. PICK e : e = panel.edited \cup {f} OBVIOUS
  <2>3. e \subseteq Setup!Field BY <1>0, <2>2 DEF Panelled
  <2>4. \/ panel' = [panel EXCEPT !.name = v, !.edited = e]
        \/ panel' = [panel EXCEPT !.agents = v, !.edited = e] /\ v = "new"
    BY <1>1, <2>2, Zenon DEF Setup!Edit
  <2>5. \/ panel' = [of |-> panel.of, base |-> panel.base, name |-> v, agents |-> panel.agents, edited |-> e,
                     saving |-> panel.saving, testing |-> panel.testing, result |-> panel.result]
        \/ /\ v = "new"
           /\ panel' = [of |-> panel.of, base |-> panel.base, name |-> panel.name, agents |-> v, edited |-> e,
                        saving |-> panel.saving, testing |-> panel.testing, result |-> panel.result]
    BY <1>0, <2>4 DEF IsPanel
  <2>6. /\ panel'.of = panel.of /\ panel'.result = panel.result /\ panel'.edited = e
        /\ panel'.name \in {panel.name, v} /\ (panel'.agents = panel.agents \/ panel'.agents = "new")
    <3>1. CASE panel' = [of |-> panel.of, base |-> panel.base, name |-> v, agents |-> panel.agents, edited |-> e,
                         saving |-> panel.saving, testing |-> panel.testing, result |-> panel.result]
      BY <3>1
    <3>2. CASE /\ v = "new"
               /\ panel' = [of |-> panel.of, base |-> panel.base, name |-> panel.name, agents |-> v, edited |-> e,
                            saving |-> panel.saving, testing |-> panel.testing, result |-> panel.result]
      BY <3>2
    <3> QED BY <2>5, <3>1, <3>2
  <2>7. Panelled(panel') BY <1>0, <2>3, <2>6 DEF Panelled
  <2>8. \A t \in tests : TestOK(t, panel') BY <1>0, <2>6, Zenon DEF TestOK
  <2> QED BY <1>0, <2>1, <2>6, <2>7, <2>8 DEF PanelInv, Panelled, TestOK
\* Only flags and the result change.
<1>2. ASSUME UNCHANGED <<rows, selectedId>>, panel'.of = panel.of, panel'.name = panel.name, panel'.agents = panel.agents,
             panel'.edited = panel.edited, panel'.result \in {0, panel.of},
             \A s \in saves' : s.name \in {"old", "new"} /\ s.agents \in {"old", "new"},
             \A t \in tests' : TestOK(t, panel)
      PROVE  PanelInv'
  <2>1. Panelled(panel') BY <1>0, <1>2 DEF Panelled
  <2>2. \A t \in tests' : TestOK(t, panel') BY <1>2, Zenon DEF TestOK
  <2> QED BY <1>0, <1>2, <2>1, <2>2 DEF PanelInv, Panelled, TestOK
<1>3. CASE Setup!save
  <2>1. UNCHANGED <<selectedId, tests>> BY <1>3, Zenon DEF Setup!save
  <2>2. panel.of \in Inbox /\ panel.name \in {"old", "new"} /\ panel.agents \in {"old", "new"}
    BY <1>0, <1>3 DEF Setup!save, Setup!canSave, Panelled
  <2> DEFINE s == [of |-> panel.of, name |-> panel.name, agents |-> panel.agents, edited |-> panel.edited,
                   base |-> panel.base, orphan |-> FALSE]
  <2>3. s.of = panel.of /\ s.name = panel.name /\ s.agents = panel.agents OBVIOUS
  <2>4. CASE Setup!Live
    <3>1. saves' = saves \cup {s} /\ panel' = [panel EXCEPT !.saving = TRUE] /\ UNCHANGED rows
      BY <1>3, <2>4, Zenon DEF Setup!save
    <3> HIDE DEF s
    <3>2. panel'.of = panel.of /\ panel'.name = panel.name /\ panel'.agents = panel.agents
          /\ panel'.edited = panel.edited /\ panel'.result = panel.result
      <4>1. PICK b : panel' = [panel EXCEPT !.saving = b] BY <3>1, Zenon
      <4> QED BY <1>9, <4>1 DEF IsPanel
    <3>3. \A x \in saves' : x.name \in {"old", "new"} /\ x.agents \in {"old", "new"} BY <1>0, <2>2, <2>3, <3>1
    <3> QED BY <1>0, <1>2, <2>1, <3>1, <3>2, <3>3 DEF Panelled
  <2>5. CASE ~Setup!Live
    <3>1. srv' = Setup!Write(srv, s) /\ rows' = srv' /\ UNCHANGED <<saves, panel>> BY <1>3, <2>5, Zenon DEF Setup!save
    <3> HIDE DEF s
    <3>2. ListOK(srv) /\ FlagsOK(srv) BY Zenon DEF PageInv, ListInv, ListFlags
    <3>3. s.of \in Inbox /\ s.name \in {"old", "new"} /\ s.agents \in {"old", "new"} BY <2>2, <2>3
    <3>4. \A i \in Inbox : rows'[i].there = srv[i].there BY <3>1, <3>2, <3>3, WrittenRows, Zenon
    <3>5. rows = srv
      <4>1. source = "preview" BY <2>5 DEF Setup!Live, PageInv, SourceOK
      <4> QED BY <4>1 DEF PageInv, InMemory
    <3> QED BY <2>1, <3>1, <3>4, <3>5, PanelKept
  <2> QED BY <2>4, <2>5
<1>4. CASE Setup!runTest
  <2> DEFINE t == [of |-> panel.of, orphan |-> FALSE]
  <2>1. /\ UNCHANGED <<rows, selectedId, saves>> /\ tests' = tests \cup {t} /\ panel.of # 0
        /\ panel' = [panel EXCEPT !.testing = TRUE, !.result = 0]
    BY <1>4, Zenon DEF Setup!runTest
  <2>2. TestOK(t, panel) BY <1>0, <2>1 DEF TestOK
  <2> HIDE DEF t
  <2>3. panel'.of = panel.of /\ panel'.name = panel.name /\ panel'.agents = panel.agents
        /\ panel'.edited = panel.edited /\ panel'.result = 0
    <3>1. PICK b : panel' = [panel EXCEPT !.testing = b, !.result = 0] BY <2>1, Zenon
    <3> QED BY <1>9, <3>1 DEF IsPanel
  <2>4. panel'.result \in {0, panel.of} BY <1>0, <2>3 DEF Panelled
  <2> QED BY <1>0, <1>2, <2>1, <2>2, <2>3, <2>4
<1>5. ASSUME NEW s \in saves, Setup!SaveSucceeds(s) \/ Setup!SaveFails(s) PROVE PanelInv'
  <2>1. UNCHANGED <<rows, selectedId, tests>> /\ saves' = saves \ {s} /\ Setup!Settled(s)
    BY <1>5, Zenon DEF Setup!SaveSucceeds, Setup!SaveFails
  <2>2. panel' = panel \/ panel' = [panel EXCEPT !.saving = FALSE] BY <2>1, Zenon DEF Setup!Settled
  <2>3. panel'.of = panel.of /\ panel'.name = panel.name /\ panel'.agents = panel.agents
        /\ panel'.edited = panel.edited /\ panel'.result = panel.result
    <3>1. CASE panel' = panel BY <3>1
    <3>2. CASE panel' = [panel EXCEPT !.saving = FALSE]
      <4>1. PICK b : panel' = [panel EXCEPT !.saving = b] BY <3>2, Zenon
      <4> QED BY <1>9, <4>1 DEF IsPanel
    <3> QED BY <2>2, <3>1, <3>2
  <2> QED BY <1>0, <1>2, <2>1, <2>3 DEF Panelled
<1>6. ASSUME NEW t \in tests, Setup!TestSettles(t) PROVE PanelInv'
  <2>1. UNCHANGED <<rows, selectedId, saves>> /\ tests' = tests \ {t} BY <1>6, Zenon DEF Setup!TestSettles
  <2>2. panel' = panel \/ (~t.orphan /\ panel' = [panel EXCEPT !.testing = FALSE, !.result = t.of])
    BY <1>6, Zenon DEF Setup!TestSettles
  <2>3. t.orphan \/ t.of = panel.of BY <1>0, Zenon DEF TestOK
  <2>4. panel'.of = panel.of /\ panel'.name = panel.name /\ panel'.agents = panel.agents
        /\ panel'.edited = panel.edited /\ (panel'.result = panel.result \/ panel'.result = panel.of)
    <3>1. CASE panel' = panel BY <3>1
    <3>2. CASE panel' = [panel EXCEPT !.testing = FALSE, !.result = panel.of]
      <4>1. PICK b : panel' = [panel EXCEPT !.testing = b, !.result = panel.of] BY <3>2, Zenon
      <4> QED BY <1>9, <4>1 DEF IsPanel
    <3> QED BY <2>2, <2>3, <3>1, <3>2, Zenon
  <2> QED BY <1>0, <1>2, <2>1, <2>4 DEF Panelled
<1> QED BY <1>1, <1>3, <1>4, <1>5, <1>6

-----------------------------------------------------------------------------
(* Steps of the dialog *)

\* Steps that leave the dialog alone.
LEMMA DialogKept ==
    ASSUME PageInv, KnownBy(srv, srv'), UNCHANGED <<modal, reconnectId, requests>> PROVE DialogInv'
<1>1. DialogOK(modal, srv, reconnectId) /\ (\A r \in requests : RequestOK(r, srv)) /\ Awaited(requests, modal)
  BY Zenon DEF PageInv, DialogInv
<1>2. DialogOK(modal', srv', reconnectId') /\ (\A r \in requests' : RequestOK(r, srv')) /\ Awaited(requests', modal')
  BY <1>1, StillOK, Zenon
<1> QED BY <1>2, Zenon DEF DialogInv

\* The page is rendered: a dialog whose inbox is gone is closed.
LEMMA DialogShown == ASSUME PageInv, KnownBy(srv, srv'), NEW rs, NEW id, Setup!Show(rs, id) PROVE DialogInv'
<1>1. CASE UNCHANGED <<modal, reconnectId, requests>> BY <1>1, DialogKept
<1>2. CASE modal' = Setup!Closed /\ reconnectId' = 0 /\ requests' = Setup!Orphaned(requests)
  <2>1. \A r \in requests : RequestOK(r, srv') BY StillOK, Zenon DEF PageInv, DialogInv
  <2>2. (\A r \in requests' : RequestOK(r, srv')) /\ Awaited(requests', modal') BY <1>2, <2>1, OrphanedRequests, Zenon
  <2>3. DialogOK(modal', srv', reconnectId') BY <1>2, ClosedOK, Zenon
  <2> QED BY <2>2, <2>3, Zenon DEF DialogInv
<1> QED BY <1>1, <1>2, Zenon DEF Setup!Show

\* A dialog that waits for nothing has no requests of its own.
LEMMA NoneAwaited ==
    ASSUME NEW R, NEW m, Awaited(R, m), ~m.submitting \/ m.step # "details" PROVE \A d : Awaited(R, d)
BY Zenon DEF Awaited

LEMMA IsClosed == Setup!Closed.step = "closed" /\ Setup!Closed.submitting = FALSE /\ Setup!Closed.values = Setup!Blank
BY DEF Setup!Closed

\* Opening and closing the dialog, and choosing a platform.
LEMMA DialogMoves ==
    ASSUME PageInv, \/ Setup!openConnect \/ Setup!AllPlatforms \/ Setup!onClose \/ \E p \in Provider : Setup!choosePlatform(p)
    PROVE  DialogInv'
<1>0. /\ IsModal(modal) /\ modal.step \in Setup!Steps /\ modal.values \in [Setup!Key -> Setup!Value]
      /\ reconnectId = 0 \/ modal.step \in {"details", "done"}
      /\ (\A r \in requests : RequestOK(r, srv)) /\ Awaited(requests, modal)
  BY Zenon DEF PageInv, DialogInv, DialogOK
<1>1. srv' = srv /\ requests' = requests
  BY Zenon DEF Setup!openConnect, Setup!AllPlatforms, Setup!onClose, Setup!choosePlatform
<1>2. ASSUME DialogOK(modal', srv, reconnectId'), ~modal.submitting \/ modal.step # "details" PROVE DialogInv'
  <2>1. Awaited(requests, modal') BY <1>0, <1>2, NoneAwaited, Zenon
  <2> QED BY <1>0, <1>1, <1>2, <2>1, Zenon DEF DialogInv
<1>3. CASE Setup!openConnect
  <2>1. modal = Setup!Closed /\ modal' = [modal EXCEPT !.step = "platform"] /\ reconnectId' = reconnectId
    BY <1>3, Zenon DEF Setup!openConnect
  <2>2. modal.step = "closed" BY <2>1, IsClosed
  <2>3. reconnectId' = 0 BY <1>0, <2>1, <2>2
  <2>4. IsModal(modal') /\ modal'.step = "platform" /\ modal'.values = modal.values BY <1>0, <2>1 DEF IsModal
  <2>5. DialogOK(modal', srv, reconnectId') BY <1>0, <2>3, <2>4 DEF DialogOK, Setup!Steps
  <2> QED BY <1>2, <2>2, <2>5
<1>4. CASE Setup!AllPlatforms
  <2>1. reconnectId = 0 /\ modal' = [modal EXCEPT !.step = "platform"] /\ reconnectId' = reconnectId /\ ~modal.submitting
    BY <1>4, Zenon DEF Setup!AllPlatforms
  <2>4. IsModal(modal') /\ modal'.step = "platform" /\ modal'.values = modal.values BY <1>0, <2>1 DEF IsModal
  <2>5. DialogOK(modal', srv, reconnectId') BY <1>0, <2>1, <2>4 DEF DialogOK, Setup!Steps
  <2> QED BY <1>2, <2>1, <2>5
<1>5. CASE Setup!onClose
  <2>1. modal' = Setup!Closed /\ reconnectId' = 0 /\ ~modal.submitting BY <1>5, Zenon DEF Setup!onClose
  <2>2. DialogOK(modal', srv, reconnectId') BY <2>1, ClosedOK, Zenon
  <2> QED BY <1>2, <2>1, <2>2
<1>6. ASSUME NEW p \in Provider, Setup!choosePlatform(p) PROVE DialogInv'
  <2>1. PICK vs : vs = Setup!FreshValues(p) OBVIOUS
  <2>2. modal.step = "platform" /\ modal' = [modal EXCEPT !.provider = p, !.values = vs, !.step = "details"]
        /\ reconnectId' = reconnectId
    BY <1>6, <2>1, Zenon DEF Setup!choosePlatform
  <2>3. reconnectId' = 0 BY <1>0, <2>2
  <2>4. IsModal(modal') /\ modal'.step = "details" /\ modal'.values = vs /\ modal'.provider = p BY <1>0, <2>2 DEF IsModal
  <2>5. vs \in [Setup!Key -> Setup!Value] /\ ValuesOK(p, vs)
    <3>1. FALSE \in BOOLEAN OBVIOUS
    <3> QED BY <2>1, <3>1, FirstValues, Zenon DEF Setup!FreshValues
  <2>6. DialogOK(modal', srv, reconnectId') BY <2>3, <2>4, <2>5 DEF DialogOK, Setup!Steps
  <2>7. modal.step # "details" BY <2>2
  <2> QED BY <1>2, <2>6, <2>7
<1> QED BY <1>3, <1>4, <1>5, <1>6

\* Typing: every field may hold what was typed for this platform.
LEMMA TypedValues ==
    ASSUME NEW p \in Provider, NEW vs \in [Setup!Key -> Setup!Value], ValuesOK(p, vs), NEW k \in Setup!FieldsOf(p),
           NEW v \in {p, "malformed"}, k \in Setup!CONNECT_FORMS(p).secrets => v = p
    PROVE  [vs EXCEPT ![k] = v] \in [Setup!Key -> Setup!Value] /\ ValuesOK(p, [vs EXCEPT ![k] = v])
<1> DEFINE ws == [vs EXCEPT ![k] = v]
<1>1. k \in Setup!Key /\ v \in Setup!Value BY Forms DEF Setup!Value
<1>2. ws \in [Setup!Key -> Setup!Value] BY <1>1
<1>3. \A x \in Setup!Key : ws[x] = IF x = k THEN v ELSE vs[x] BY <1>1
<1> HIDE DEF ws
<1>4. \A x \in Setup!Key : ws[x] \in {"", "malformed", "default", "saved", p} BY <1>3 DEF ValuesOK
<1>5. \A x \in Setup!CONNECT_FORMS(p).secrets : ws[x] \in {"", p}
  <2>1. TAKE x \in Setup!CONNECT_FORMS(p).secrets
  <2>2. x \in Setup!Key BY Forms
  <2>3. x # k => ws[x] = vs[x] /\ vs[x] \in {"", p} BY <1>3, <2>2 DEF ValuesOK
  <2>4. x = k => ws[x] = p BY <1>3, <2>2
  <2> QED BY <2>3, <2>4
<1> QED BY <1>2, <1>4, <1>5, Zenon DEF ValuesOK, ws

LEMMA MailFields ==
    ASSUME NEW p \in Provider, "emailAddress" \in Setup!FieldsOf(p) PROVE "username" \in Setup!FieldsOf(p)
<1>1. p \in Setup!Platforms BY PlatformAssumption
<1> QED BY <1>1 DEF Setup!Platforms, Setup!FieldsOf, Setup!CONNECT_FORMS

\* Typing a name or a detail.
LEMMA DialogTyping ==
    ASSUME PageInv, \/ Setup!SetName
                    \/ /\ modal.step = "details"
                       /\ \E k \in Setup!FieldsOf(modal.provider) : \E v \in Setup!Typed(modal.provider, k) : Setup!setValue(k, v)
    PROVE  DialogInv'
<1>0. /\ IsModal(modal) /\ modal.step \in Setup!Steps /\ modal.values \in [Setup!Key -> Setup!Value]
      /\ modal.step \in {"details", "done"} => modal.provider \in Provider /\ ValuesOK(modal.provider, modal.values)
      /\ DialogOK(modal, srv, reconnectId)
      /\ (\A r \in requests : RequestOK(r, srv)) /\ Awaited(requests, modal)
  BY Zenon DEF PageInv, DialogInv, DialogOK
<1>1. srv' = srv /\ requests' = requests /\ reconnectId' = reconnectId /\ modal.step = "details"
  BY Zenon DEF Setup!SetName, Setup!setValue
<1>00. modal.provider \in Provider /\ ValuesOK(modal.provider, modal.values) BY <1>0, <1>1
<1>2. ASSUME IsModal(modal'), modal'.step = modal.step, modal'.provider = modal.provider, modal'.submitting = modal.submitting,
             modal'.values \in [Setup!Key -> Setup!Value], ValuesOK(modal.provider, modal'.values)
      PROVE  DialogInv'
  <2>1. Awaited(requests, modal') BY <1>0, <1>2, Zenon DEF Awaited
  <2>2. modal'.step # "done" BY <1>1, <1>2
  <2>3. DialogOK(modal', srv, reconnectId) BY <1>0, <1>2, <2>2, Zenon DEF DialogOK
  <2> QED BY <1>0, <1>1, <2>1, <2>3, Zenon DEF DialogInv
<1>3. CASE Setup!SetName
  <2>1. PICK b : modal' = [modal EXCEPT !.named = b] BY <1>3, Zenon DEF Setup!SetName
  <2>2. /\ IsModal(modal') /\ modal'.step = modal.step /\ modal'.provider = modal.provider
        /\ modal'.submitting = modal.submitting /\ modal'.values = modal.values
    BY <1>0, <2>1 DEF IsModal
  <2> QED BY <1>0, <1>00, <1>2, <2>2
<1>4. ASSUME NEW k \in Setup!FieldsOf(modal.provider), NEW v \in Setup!Typed(modal.provider, k), Setup!setValue(k, v)
      PROVE  DialogInv'
  <2>1. PICK p : p = modal.provider OBVIOUS
  <2>2. PICK vs : vs = modal.values OBVIOUS
  <2> DEFINE ws == [vs EXCEPT ![k] = v]
  <2>3. v \in {p, "malformed"} /\ (k \in Setup!CONNECT_FORMS(p).secrets => v = p) BY <2>1 DEF Setup!Typed
  <2>4. ws \in [Setup!Key -> Setup!Value] /\ ValuesOK(p, ws) BY <1>0, <1>00, <2>1, <2>2, <2>3, TypedValues
  <2>5. PICK us : /\ modal' = [modal EXCEPT !.values = us]
                  /\ us = ws \/ (us = [ws EXCEPT !["username"] = v] /\ k = "emailAddress")
    BY <1>4, <2>1, <2>2, Zenon DEF Setup!setValue
  <2> HIDE DEF ws
  <2>6. us \in [Setup!Key -> Setup!Value] /\ ValuesOK(p, us)
    <3>1. CASE us = ws BY <2>4, <3>1
    <3>2. CASE us = [ws EXCEPT !["username"] = v] /\ k = "emailAddress"
      <4>1. "username" \in Setup!FieldsOf(p) BY <1>00, <2>1, <3>2, MailFields
      <4>2. "username" \notin Setup!CONNECT_FORMS(p).secrets BY <1>00, <2>1, Forms
      <4>3. PICK u : u = "username" OBVIOUS
      <4>4. u \in Setup!FieldsOf(p) /\ u \notin Setup!CONNECT_FORMS(p).secrets /\ us = [ws EXCEPT ![u] = v]
        BY <3>2, <4>1, <4>2, <4>3
      <4> QED BY <1>00, <2>1, <2>3, <2>4, <4>4, TypedValues
    <3> QED BY <2>5, <3>1, <3>2
  <2>7. /\ IsModal(modal') /\ modal'.step = modal.step /\ modal'.provider = modal.provider
        /\ modal'.submitting = modal.submitting /\ modal'.values = us
    BY <1>0, <2>5 DEF IsModal
  <2> QED BY <1>2, <2>1, <2>6, <2>7
<1> QED BY <1>3, <1>4

\* A request is sent: it carries what was typed.
LEMMA DialogSubmits == ASSUME PageInv, Setup!submit PROVE DialogInv'
<1>0. /\ IsModal(modal) /\ modal.step \in Setup!Steps /\ modal.values \in [Setup!Key -> Setup!Value]
      /\ modal.step \in {"details", "done"} => modal.provider \in Provider /\ ValuesOK(modal.provider, modal.values)
      /\ DialogOK(modal, srv, reconnectId)
      /\ (\A r \in requests : RequestOK(r, srv)) /\ Awaited(requests, modal)
  BY Zenon DEF PageInv, DialogInv, DialogOK
<1>1. PICK p : p = modal.provider OBVIOUS
<1>2. PICK c : c = Setup!buildCredentials(p, modal.values) OBVIOUS
<1> DEFINE r == [of |-> reconnectId, provider |-> p, sent |-> c, done |-> 0, orphan |-> FALSE]
<1>3. /\ srv' = srv /\ reconnectId' = reconnectId /\ modal.step = "details" /\ ~modal.submitting
      /\ Setup!fieldErrorsFrom(p, c) = {} /\ requests' = requests \cup {r}
      /\ modal' = [modal EXCEPT !.submitting = TRUE]
  BY <1>1, <1>2, Zenon DEF Setup!submit
<1>4. p \in Provider /\ ValuesOK(p, modal.values) BY <1>0, <1>1, <1>3
<1>5. r.of = reconnectId /\ r.provider = p /\ r.sent = c /\ r.done = 0
      /\ r = [of |-> r.of, provider |-> r.provider, sent |-> r.sent, done |-> r.done, orphan |-> r.orphan]
  OBVIOUS
<1> HIDE DEF r
<1>6. Sent(r)
  <2>1. Setup!fieldErrorsFrom(p, c) = {} BY <1>3
  <2>2. WellFilled(p, modal.values, c) BY <1>2, <1>4, <2>1, Zenon DEF WellFilled
  <2>3. AsTyped(p, c) BY <2>2, SentForm, Zenon
  <2> QED BY <1>5, <2>3, Zenon DEF Sent
<1>7. reconnectId = 0 \/ Has(srv, reconnectId, p) BY <1>0, <1>1, Zenon DEF DialogOK
<1>8. RequestOK(r, srv) BY <1>4, <1>5, <1>6, <1>7, Zenon DEF RequestOK
<1>9. /\ IsModal(modal') /\ modal'.step = modal.step /\ modal'.provider = modal.provider
      /\ modal'.values = modal.values /\ modal'.connected = modal.connected
  <2>1. PICK b : modal' = [modal EXCEPT !.submitting = b] BY <1>3, Zenon
  <2> QED BY <1>0, <2>1 DEF IsModal
<1>10. modal'.submitting
  <2>1. modal'.submitting = TRUE BY <1>0, <1>3 DEF IsModal
  <2> QED BY <2>1
<1>11. DialogOK(modal', srv, reconnectId) BY <1>0, <1>9, Zenon DEF DialogOK
<1>12. Awaited(requests', modal')
  <2>1. \A x \in requests : x.orphan BY <1>0, <1>3, Zenon DEF Awaited
  <2>2. \A x \in requests' : x.orphan \/ x = r BY <1>3, <2>1, Zenon
  <2>3. modal'.step = "details" /\ modal'.provider = r.provider BY <1>1, <1>3, <1>5, <1>9
  <2> QED BY <1>10, <2>2, <2>3, Zenon DEF Awaited
<1>13. \A x \in requests' : RequestOK(x, srv) BY <1>0, <1>3, <1>8, Zenon
<1> QED BY <1>3, <1>11, <1>12, <1>13, Zenon DEF DialogInv

\* In memory the dialog closes, or is not needed; "Reconnect" opens it for the inbox shown.
LEMMA DialogOpens == ASSUME PageInv, Setup!submitPreview \/ Setup!handleReconnect PROVE DialogInv'
<1>0. KnownBy(srv, srv') BY ServerConnects, Zenon DEF Grows
<1>1. /\ IsModal(modal) /\ modal.values \in [Setup!Key -> Setup!Value]
      /\ (\A r \in requests : RequestOK(r, srv)) /\ Awaited(requests, modal)
  BY Zenon DEF PageInv, DialogInv, DialogOK
<1>2. \A r \in requests : RequestOK(r, srv') BY <1>0, <1>1, StillOK, Zenon
<1>3. CASE Setup!submitPreview
  <2>1. modal' = Setup!Closed /\ reconnectId' = reconnectId /\ requests' = requests /\ ~Setup!Live
    BY <1>3, Zenon DEF Setup!submitPreview
  <2>2. source = "preview" BY <2>1 DEF Setup!Live, PageInv, SourceOK
  <2>3. reconnectId = 0 /\ requests = {} BY <2>2, Zenon DEF PageInv, NoReconnect, InMemory
  <2>4. Awaited({}, modal') BY Zenon DEF Awaited
  <2>5. DialogOK(modal', srv', reconnectId') BY <2>1, <2>3, ClosedOK, Zenon
  <2> QED BY <1>2, <2>1, <2>3, <2>4, <2>5, Zenon DEF DialogInv
<1>4. CASE Setup!handleReconnect
  <2>0. modal = Setup!Closed /\ panel.of # 0 /\ requests' = requests BY <1>4, Zenon DEF Setup!handleReconnect
  <2>1. CASE ~Setup!Live
    <3>1. UNCHANGED <<reconnectId, modal>> BY <1>4, <2>1, Zenon DEF Setup!handleReconnect
    <3> QED BY <1>0, <2>0, <3>1, DialogKept
  <2>2. CASE Setup!Live
    <3>1. PICK p : p = rows[panel.of].provider OBVIOUS
    <3>2. PICK vs : vs = Setup!initialFormValues(p, TRUE) OBVIOUS
    <3>3. reconnectId' = panel.of /\ srv' = srv /\ modal' = [modal EXCEPT !.step = "details", !.provider = p, !.values = vs]
      BY <1>4, <2>0, <2>2, <3>1, <3>2, Zenon DEF Setup!handleReconnect
    <3>4. panel.of \in Inbox /\ rows[panel.of].there = "yes" BY <2>0 DEF PageInv, SetupInv, PanelInv
    <3>5. p \in Provider /\ Has(srv, panel.of, p)
      <4>1. rows[panel.of].there # "never" BY <3>4
      <4>2. KnownBy(rows, srv) /\ RowOK(rows[panel.of]) BY <3>4, Zenon DEF PageInv, ListInv, ListOK
      <4> QED BY <3>1, <3>4, <4>1, <4>2, Zenon DEF KnownBy, Has, RowOK
    <3>6. vs \in [Setup!Key -> Setup!Value] /\ ValuesOK(p, vs)
      <4>1. TRUE \in BOOLEAN OBVIOUS
      <4> QED BY <3>2, <3>5, <4>1, FirstValues, Zenon
    <3>7. IsModal(modal') /\ modal'.step = "details" /\ modal'.values = vs /\ modal'.provider = p BY <1>1, <3>3 DEF IsModal
    <3>8. DialogOK(modal', srv, reconnectId') BY <3>3, <3>5, <3>6, <3>7 DEF DialogOK, Setup!Steps
    <3>9. modal.step # "details" BY <2>0, IsClosed
    <3>10. Awaited(requests, modal') BY <1>1, <3>9, NoneAwaited, Zenon
    <3> QED BY <1>1, <2>0, <3>3, <3>8, <3>10, Zenon DEF DialogInv
  <2> QED BY <2>1, <2>2
<1> QED BY <1>3, <1>4

\* The API connects the inbox.
LEMMA RequestDone ==
    ASSUME PageInv, NEW r \in requests, Setup!RequestApplied(r) PROVE DialogInv'
<1>0. KnownBy(srv, srv') /\ ListOK(srv) BY ServerConnects, Zenon DEF Grows, PageInv, ListInv
<1>1. /\ DialogOK(modal, srv, reconnectId) /\ (\A q \in requests : RequestOK(q, srv)) /\ Awaited(requests, modal)
  BY Zenon DEF PageInv, DialogInv
<1>2. PICK i \in Inbox :
         /\ IF r.of = 0 THEN i = Setup!First(Setup!NewIds) ELSE i = r.of /\ srv[i].there = "yes"
         /\ srv' = [srv EXCEPT ![i] = IF r.of = 0 THEN Setup!Some(r.provider) ELSE [srv[i] EXCEPT !.needsReconnect = FALSE]]
         /\ requests' = (requests \ {r}) \cup {[r EXCEPT !.done = i]}
         /\ UNCHANGED <<modal, reconnectId>>
  BY Zenon DEF Setup!RequestApplied
<1> DEFINE d == [r EXCEPT !.done = i]
<1>3. RequestOK(r, srv) BY <1>1
<1>4. /\ d = [of |-> d.of, provider |-> d.provider, sent |-> d.sent, done |-> d.done, orphan |-> d.orphan]
      /\ d.of = r.of /\ d.provider = r.provider /\ d.sent = r.sent /\ d.done = i /\ d.orphan = r.orphan
  <2>1. r = [of |-> r.of, provider |-> r.provider, sent |-> r.sent, done |-> r.done, orphan |-> r.orphan]
    BY <1>3 DEF RequestOK
  <2>2. d = [of |-> r.of, provider |-> r.provider, sent |-> r.sent, done |-> i, orphan |-> r.orphan] BY <2>1
  <2> HIDE DEF d
  <2> QED BY <2>2
<1>5. requests' = (requests \ {r}) \cup {d} BY <1>2
<1> HIDE DEF d
<1>6. Has(srv', i, r.provider)
  <2>0. srv = [j \in Inbox |-> srv[j]] BY <1>0 DEF ListOK
  <2>1. CASE r.of = 0
    <3>1. srv' = [srv EXCEPT ![i] = Setup!Some(r.provider)] BY <1>2, <2>1, Zenon
    <3>2. srv'[i] = Setup!Some(r.provider) BY <2>0, <3>1
    <3>3. r.provider \in Provider BY <1>3, Zenon DEF RequestOK
    <3>4. srv'[i].there = "yes" /\ srv'[i].provider = r.provider BY <3>2, <3>3, NewRow, Zenon
    <3>5. srv'[i].there # "never" BY <3>4
    <3> QED BY <3>4, <3>5, Zenon DEF Has
  <2>2. CASE r.of # 0
    <3>1. i = r.of BY <1>2, <2>2, Zenon
    <3>2. Has(srv, i, r.provider) BY <1>3, <2>2, <3>1, Zenon DEF RequestOK
    <3> QED BY <1>0, <3>2, StillHas, Zenon
  <2> QED BY <2>1, <2>2
<1>7. RequestOK(d, srv')
  <2>1. RequestOK(r, srv') BY <1>0, <1>3, StillOK, Zenon
  <2>2. Sent(d) BY <1>3, <1>4, Zenon DEF RequestOK, Sent
  <2> QED BY <1>4, <1>6, <2>1, <2>2, Zenon DEF RequestOK
<1>8. \A q \in requests' : RequestOK(q, srv') BY <1>0, <1>1, <1>5, <1>7, StillOK, Zenon
<1>9. Awaited(requests', modal)
  <2>1. \A q \in requests' : q.orphan \/ (modal.submitting /\ modal.step = "details" /\ modal.provider = q.provider)
    <3>1. \A q \in requests : q.orphan \/ (modal.submitting /\ modal.step = "details" /\ modal.provider = q.provider)
      BY <1>1, Zenon DEF Awaited
    <3>2. d.orphan \/ (modal.submitting /\ modal.step = "details" /\ modal.provider = d.provider) BY <1>4, <3>1, Zenon
    <3> QED BY <1>5, <3>1, <3>2, Zenon
  <2>2. \A q, x \in requests' : q.orphan \/ x.orphan \/ q = x
    <3>1. \A q, x \in requests : q.orphan \/ x.orphan \/ q = x BY <1>1, Zenon DEF Awaited
    <3>2. ASSUME NEW x \in requests, x # r PROVE x.orphan \/ d.orphan BY <1>4, <3>1, <3>2, Zenon
    <3> QED BY <1>5, <3>1, <3>2, Zenon
  <2> QED BY <2>1, <2>2, Zenon DEF Awaited
<1>10. DialogOK(modal, srv', reconnectId) BY <1>0, <1>1, StillOK, Zenon
<1> QED BY <1>2, <1>8, <1>9, <1>10, Zenon DEF DialogInv

\* The dialog hears of its request, unless it was closed meanwhile.
LEMMA RequestHeard ==
    ASSUME PageInv, NEW r \in requests, Setup!RequestAnswered(r) \/ Setup!RequestFails(r) PROVE DialogInv'
<1>1. /\ DialogOK(modal, srv, reconnectId) /\ (\A q \in requests : RequestOK(q, srv)) /\ Awaited(requests, modal)
      /\ IsModal(modal) /\ modal.values \in [Setup!Key -> Setup!Value]
      /\ modal.step \in {"details", "done"} => modal.provider \in Provider /\ ValuesOK(modal.provider, modal.values)
      /\ reconnectId = 0 \/ Has(srv, reconnectId, modal.provider)
  BY Zenon DEF PageInv, DialogInv, DialogOK
<1>2. srv' = srv /\ requests' = requests \ {r} /\ reconnectId' = reconnectId
  BY Zenon DEF Setup!RequestAnswered, Setup!RequestFails
<1>3. \A q \in requests' : RequestOK(q, srv) BY <1>1, <1>2, Zenon
<1>4. CASE r.orphan
  <2>1. modal' = modal BY <1>4, Zenon DEF Setup!RequestAnswered, Setup!RequestFails
  <2>2. Awaited(requests', modal) BY <1>1, <1>2, Zenon DEF Awaited
  <2> QED BY <1>1, <1>2, <1>3, <2>1, <2>2, Zenon DEF DialogInv
<1>5. CASE ~r.orphan
  <2>1. modal.submitting /\ modal.step = "details" /\ modal.provider = r.provider BY <1>1, <1>5, Zenon DEF Awaited
  <2>2. \A q \in requests' : q.orphan BY <1>1, <1>2, <1>5, Zenon DEF Awaited
  <2>3. Awaited(requests', modal') BY <2>2, Zenon DEF Awaited
  <2>4. modal.provider \in Provider /\ ValuesOK(modal.provider, modal.values) BY <1>1, <2>1
  <2>5. DialogOK(modal', srv, reconnectId)
    <3>1. CASE Setup!RequestAnswered(r)
      <4>1. PICK b, i : modal' = [modal EXCEPT !.step = "done", !.connected = i, !.submitting = b] /\ i = r.done /\ i # 0
        BY <1>5, <3>1, Zenon DEF Setup!RequestAnswered
      <4>2. /\ IsModal(modal') /\ modal'.step = "done" /\ modal'.provider = modal.provider
            /\ modal'.values = modal.values /\ modal'.connected = i
        BY <1>1, <4>1 DEF IsModal
      <4>3. Has(srv, i, modal.provider) BY <1>1, <2>1, <4>1, Zenon DEF RequestOK
      <4> QED BY <1>1, <2>4, <4>2, <4>3 DEF DialogOK, Setup!Steps
    <3>2. CASE Setup!RequestFails(r)
      <4>1. PICK b : modal' = [modal EXCEPT !.submitting = b]
        BY <1>5, <3>2, Zenon DEF Setup!RequestFails, Setup!AfterError
      <4>2. /\ IsModal(modal') /\ modal'.step = modal.step /\ modal'.provider = modal.provider
            /\ modal'.values = modal.values /\ modal'.connected = modal.connected
        BY <1>1, <4>1 DEF IsModal
      <4> QED BY <1>1, <4>2, Zenon DEF DialogOK
    <3> QED BY <3>1, <3>2
  <2> QED BY <1>2, <1>3, <2>3, <2>5, Zenon DEF DialogInv
<1> QED BY <1>4, <1>5

\* What else a step changes.
Counted1(n, m, bound) == m = n \/ (n < bound /\ m = n + 1)
RestOfStep ==
    /\ Counted1(ops, ops', MaxOp) /\ Counted1(others, others', MaxOther) /\ Counted1(fails, fails', MaxFail)
    /\ connectOpen' = connectOpen \/ connectOpen' = TRUE \/ connectOpen' = FALSE
    /\ reconnectId' = reconnectId \/ reconnectId' = 0 \/ Setup!Live

LEMMA RestSteps == ASSUME Setup!PanelNext \/ Setup!DialogNext PROVE RestOfStep
<1>1. CASE Setup!List
  BY <1>1, Zenon DEF RestOfStep, Counted1, Setup!List, Setup!ListRequested, Setup!ListAnswered, Setup!Show, Setup!OtherDeletes,
     Setup!Other, Setup!dialog
<1>2. CASE \E i \in Inbox : Setup!Select(i) \/ Setup!OtherEdits(i)
  BY <1>2, Zenon DEF RestOfStep, Counted1, Setup!Select, Setup!Show, Setup!OtherEdits, Setup!Other
<1>3. CASE Setup!save \/ Setup!onDelete
  BY <1>3, Zenon DEF RestOfStep, Counted1, Setup!save, Setup!onDelete, Setup!Show, Setup!Asks, Setup!dialog
<1>4. CASE Setup!runTest \/ Setup!RemoveSucceeds \/ Setup!RemoveFails
  BY <1>4, Zenon DEF RestOfStep, Counted1, Setup!runTest, Setup!RemoveSucceeds, Setup!RemoveFails, Setup!Show, Setup!Asks,
     Setup!Fails, Setup!dialog
<1>5. CASE \/ \E f \in Setup!Field, v \in {"new", ""} : Setup!Edit(f, v)
           \/ \E s \in saves : Setup!SaveSucceeds(s) \/ Setup!SaveFails(s)
           \/ \E t \in tests : Setup!TestSettles(t)
  BY <1>5, Zenon DEF RestOfStep, Counted1, Setup!Edit, Setup!SaveSucceeds, Setup!SaveFails, Setup!TestSettles, Setup!Fails,
     Setup!dialog
<1>6. CASE \/ Setup!openConnect \/ Setup!AllPlatforms \/ Setup!SetName \/ Setup!submit \/ Setup!onClose
           \/ \E p \in Provider : Setup!choosePlatform(p)
           \/ \E k, v : Setup!setValue(k, v)
  BY <1>6, Zenon DEF RestOfStep, Counted1, Setup!openConnect, Setup!AllPlatforms, Setup!SetName, Setup!submit, Setup!onClose,
     Setup!choosePlatform, Setup!setValue, Setup!Asks
<1>7. CASE Setup!submitPreview \/ Setup!handleReconnect
  BY <1>7, Zenon DEF RestOfStep, Counted1, Setup!submitPreview, Setup!handleReconnect, Setup!Asks
<1>8. CASE \E r \in requests : Setup!RequestApplied(r) \/ Setup!RequestAnswered(r) \/ Setup!RequestFails(r)
  BY <1>8, Zenon DEF RestOfStep, Counted1, Setup!RequestApplied, Setup!RequestAnswered, Setup!RequestFails, Setup!Fails
<1> QED BY <1>1, <1>2, <1>3, <1>4, <1>5, <1>6, <1>7, <1>8 DEF Setup!PanelNext, Setup!DialogNext

LEMMA CountsStep ==
    ASSUME Counts, Counted1(ops, ops', MaxOp), Counted1(others, others', MaxOther), Counted1(fails, fails', MaxFail)
    PROVE  Counts'
BY SetupAssumption DEF Counts, Counted1

\* A step of the page is one of these.
LEMMA PageActions ==
    ASSUME Setup!PanelNext \/ Setup!DialogNext
    PROVE  \/ Setup!ListRequested \/ Setup!ListAnswered
           \/ \E i \in Inbox : Setup!Select(i) \/ Setup!OtherEdits(i) \/ Setup!OtherDeletes(i)
           \/ Setup!save \/ Setup!onDelete \/ Setup!runTest \/ Setup!RemoveSucceeds \/ Setup!RemoveFails
           \/ \E f \in Setup!Field, v \in {"new", ""} : Setup!Edit(f, v)
           \/ \E s \in saves : Setup!SaveSucceeds(s) \/ Setup!SaveFails(s)
           \/ \E t \in tests : Setup!TestSettles(t)
           \/ Setup!openConnect \/ Setup!AllPlatforms \/ Setup!SetName \/ Setup!submit \/ Setup!onClose
           \/ Setup!submitPreview \/ Setup!handleReconnect
           \/ \E p \in Provider : Setup!choosePlatform(p)
           \/ /\ modal.step = "details"
              /\ \E k \in Setup!FieldsOf(modal.provider) : \E v \in Setup!Typed(modal.provider, k) : Setup!setValue(k, v)
           \/ \E r \in requests : Setup!RequestApplied(r) \/ Setup!RequestAnswered(r) \/ Setup!RequestFails(r)
BY Zenon DEF Setup!PanelNext, Setup!DialogNext, Setup!List

\* The panel is left alone.
LEMMA PanelLeft ==
    ASSUME PageInv,
           \/ Setup!ListRequested \/ Setup!RemoveFails
           \/ \E i \in Inbox : Setup!OtherEdits(i) \/ Setup!OtherDeletes(i)
           \/ Setup!openConnect \/ Setup!AllPlatforms \/ Setup!SetName \/ Setup!submit \/ Setup!onClose \/ Setup!handleReconnect
           \/ \E p \in Provider : Setup!choosePlatform(p)
           \/ \E k, v : Setup!setValue(k, v)
           \/ \E r \in requests : Setup!RequestApplied(r) \/ Setup!RequestFails(r)
    PROVE  PanelInv'
<1>1. CASE \/ Setup!ListRequested \/ Setup!RemoveFails
           \/ \E i \in Inbox : Setup!OtherEdits(i) \/ Setup!OtherDeletes(i)
  <2>1. UNCHANGED <<panel, selectedId, saves, tests, rows>>
    BY <1>1, Zenon DEF Setup!ListRequested, Setup!RemoveFails, Setup!OtherEdits, Setup!OtherDeletes, Setup!Other, Setup!listing,
       Setup!pending
  <2> QED BY <2>1, PanelKept
<1>2. CASE \/ Setup!openConnect \/ Setup!AllPlatforms \/ Setup!SetName \/ Setup!submit \/ Setup!onClose
           \/ \E p \in Provider : Setup!choosePlatform(p)
           \/ \E k, v : Setup!setValue(k, v)
           \/ \E r \in requests : Setup!RequestApplied(r) \/ Setup!RequestFails(r)
  <2>1. UNCHANGED <<panel, selectedId, saves, tests, rows>>
    BY <1>2, Zenon DEF Setup!openConnect, Setup!AllPlatforms, Setup!SetName, Setup!submit, Setup!onClose, Setup!choosePlatform,
       Setup!setValue, Setup!RequestApplied, Setup!RequestFails, Setup!pending
  <2> QED BY <2>1, PanelKept
<1>3. CASE Setup!handleReconnect
  <2>1. UNCHANGED <<panel, selectedId, saves, tests>> /\ panel.of # 0
    BY <1>3, Zenon DEF Setup!handleReconnect, Setup!pending
  <2>2. CASE Setup!Live
    <3>1. rows' = rows BY <1>3, <2>2, Zenon DEF Setup!handleReconnect
    <3> QED BY <2>1, <3>1, PanelKept
  <2>3. CASE ~Setup!Live
    <3>1. srv' = [srv EXCEPT ![panel.of].needsReconnect = FALSE] /\ rows' = srv'
      BY <1>3, <2>3, Zenon DEF Setup!handleReconnect
    <3>2. panel.of \in Inbox BY <2>1 DEF PageInv, SetupInv
    <3>3. ListOK(srv) /\ FlagsOK(srv) BY Zenon DEF PageInv, ListInv, ListFlags
    <3>4. FALSE \in BOOLEAN OBVIOUS
    <3>9. PICK ns : \E b \in BOOLEAN : ns = rows' /\ ns = [srv EXCEPT ![panel.of].needsReconnect = b] BY <3>1, <3>4, Zenon
    <3>5. \A i \in Inbox : ns[i].there = srv[i].there BY <3>2, <3>3, <3>9, ReconnectedIn
    <3>8. SourceOK BY Zenon DEF PageInv
    <3>6. source = "preview" BY <2>3, <3>8 DEF Setup!Live, SourceOK
    <3>7. rows = srv BY <3>6, Zenon DEF PageInv, InMemory
    <3> QED BY <2>1, <3>5, <3>7, <3>9, PanelKept
  <2> QED BY <2>2, <2>3
<1> QED BY <1>1, <1>2, <1>3

\* The dialog is left alone, or closed because its inbox is gone.
LEMMA DialogLeft ==
    ASSUME PageInv, Grows(srv, srv'),
           \/ Setup!ListRequested \/ Setup!ListAnswered
           \/ \E i \in Inbox : Setup!Select(i) \/ Setup!OtherEdits(i) \/ Setup!OtherDeletes(i)
           \/ Setup!save \/ Setup!onDelete \/ Setup!runTest \/ Setup!RemoveSucceeds \/ Setup!RemoveFails
           \/ \E f \in Setup!Field, v \in {"new", ""} : Setup!Edit(f, v)
           \/ \E s \in saves : Setup!SaveSucceeds(s) \/ Setup!SaveFails(s)
           \/ \E t \in tests : Setup!TestSettles(t)
    PROVE  DialogInv'
<1>0. KnownBy(srv, srv') BY Zenon DEF Grows
<1>1. \/ UNCHANGED <<modal, reconnectId, requests>>
      \/ \E rs, id : Setup!Show(rs, id)
  <2>1. CASE \/ Setup!ListRequested \/ Setup!ListAnswered
             \/ \E i \in Inbox : Setup!Select(i) \/ Setup!OtherEdits(i) \/ Setup!OtherDeletes(i)
    BY <2>1, Zenon DEF Setup!ListRequested, Setup!ListAnswered, Setup!Select, Setup!OtherEdits, Setup!OtherDeletes, Setup!Other,
       Setup!listing, Setup!dialog
  <2>2. CASE Setup!save \/ Setup!onDelete \/ Setup!runTest \/ Setup!RemoveSucceeds \/ Setup!RemoveFails
    BY <2>2, Zenon DEF Setup!save, Setup!onDelete, Setup!runTest, Setup!RemoveSucceeds, Setup!RemoveFails, Setup!dialog,
       Setup!listing
  <2>3. CASE \/ \E f \in Setup!Field, v \in {"new", ""} : Setup!Edit(f, v)
             \/ \E s \in saves : Setup!SaveSucceeds(s) \/ Setup!SaveFails(s)
             \/ \E t \in tests : Setup!TestSettles(t)
    BY <2>3, Zenon DEF Setup!Edit, Setup!SaveSucceeds, Setup!SaveFails, Setup!TestSettles, Setup!dialog
  <2> QED BY <2>1, <2>2, <2>3
<1> QED BY <1>0, <1>1, DialogKept, DialogShown

\* Every step of the Channels page keeps to what was typed.
LEMMA PageNext == ASSUME PageInv, Setup!PanelNext \/ Setup!DialogNext PROVE PageInv'
<1>0. ListOK(srv) /\ FlagsOK(srv) /\ SetupInv /\ RemovalOK /\ ListInv /\ ListFlags /\ InMemory /\ SourceOK /\ NoReconnect /\ Counts
      /\ connectOpen \in BOOLEAN
  BY Zenon DEF PageInv, ListInv, ListFlags
<1>1. Grows(srv, srv')
  <2>1. srv' = srv => Grows(srv, srv') BY <1>0, SameRows, Zenon
  <2> QED BY <2>1, PageActions, ServerKept, ServerChanges, ServerConnects, Zenon
<1>2. ListInv' /\ ListFlags' BY <1>0, <1>1, RenderSteps, ListsKnown, Zenon
<1>3. PanelInv' BY PageActions, PanelLeft, PanelWorks, ShowSteps, Zenon
<1>4. DialogInv'
  BY <1>1, PageActions, DialogLeft, DialogMoves, DialogTyping, DialogSubmits, DialogOpens, RequestDone, RequestHeard, Zenon
<1>5. RestOfStep BY RestSteps
<1>6. source' = source BY ModeSteps
<1>7. NoReconnect' /\ SourceOK'
  BY <1>0, <1>5, <1>6 DEF RestOfStep, Setup!Live, NoReconnect, SourceOK
<1>8. Counts' BY <1>0, <1>5, CountsStep, Zenon DEF RestOfStep
<1>9. connectOpen' \in BOOLEAN BY <1>0, <1>5, Zenon DEF RestOfStep
<1>10. SetupInv' /\ RemovalOK' BY <1>0, SetupNext, Zenon
<1>11. InMemory' BY <1>0, InMemorySteps, Zenon
<1> QED BY <1>2, <1>3, <1>4, <1>7, <1>8, <1>9, <1>10, <1>11, Zenon DEF PageInv

\* The page opens.
LEMMA PageInit == ASSUME Setup!Init PROVE PageInv
<1>1. /\ rows = (IF source = "preview" THEN srv ELSE Setup!NoRows) /\ read = Setup!NoRows /\ selectedId = 0
      /\ panel = (IF source = "preview" THEN Setup!Mount(srv, 1) ELSE Setup!NoPanel)
      /\ saves = {} /\ removal = 0 /\ tests = {} /\ reconnectId = 0 /\ modal = Setup!Closed /\ requests = {}
      /\ source \in {"connected", "preview"}
  BY Zenon DEF Setup!Init
<1>2. ops = 0 /\ others = 0 /\ fails = 0 BY Zenon DEF Setup!Init
<1>3. Counts BY <1>2, SetupAssumption DEF Counts
<1>4. connectOpen \in BOOLEAN BY Zenon DEF Setup!Init
<1>5. SourceOK /\ NoReconnect /\ InMemory BY <1>1, Zenon DEF SourceOK, NoReconnect, InMemory
<1>6. ListOK(srv) /\ FlagsOK(srv) /\ srv[1].there = "yes"
  <2>1. PICK p \in Provider, n \in Inbox :
           srv = [i \in Inbox |-> IF i > n THEN Setup!NoRow ELSE [Setup!Some(p) EXCEPT !.needsReconnect = (i = 1)]]
    BY DEF Setup!Init
  <2>2. \A i \in Inbox : srv[i] = Setup!NoRow \/ srv[i] = [Setup!Some(p) EXCEPT !.needsReconnect = (i = 1)] BY <2>1
  <2>3. srv = [i \in Inbox |-> srv[i]] BY <2>1
  <2>4. ASSUME NEW i \in Inbox, NEW q, q = [Setup!Some(p) EXCEPT !.needsReconnect = (i = 1)]
        PROVE  RowOK(q) /\ q.needsReconnect \in BOOLEAN /\ q.there = "yes"
    <3>1. PICK r : r = Setup!Some(p) OBVIOUS
    <3>2. RowOK(r) /\ r.there = "yes" BY <3>1, NewRow, Zenon
    <3>3. PICK b \in BOOLEAN : q = [r EXCEPT !.needsReconnect = b]
      <4>1. (i = 1) \in BOOLEAN OBVIOUS
      <4> QED BY <2>4, <3>1, <4>1, Zenon
    <3>4. Like(q, r) /\ q.needsReconnect = b BY <3>2, <3>3, ReconnectSet
    <3> QED BY <3>2, <3>3, <3>4, Zenon DEF Like
  <2>5. \A i \in Inbox : RowOK(srv[i]) /\ srv[i].needsReconnect \in BOOLEAN BY <2>2, <2>4, NewRow, Zenon
  <2>6. srv[1].there = "yes"
    <3>1. 1 \in Inbox /\ ~(1 > n) BY SetupAssumption
    <3>2. srv[1] = [Setup!Some(p) EXCEPT !.needsReconnect = (1 = 1)] BY <2>1, <3>1, Zenon
    <3> QED BY <2>4, <3>1, <3>2, Zenon
  <2> QED BY <2>3, <2>5, <2>6, Zenon DEF ListOK, FlagsOK
<1>7. ListInv /\ ListFlags
  <2>1. KnownBy(srv, srv) BY Zenon DEF KnownBy
  <2> QED BY <1>1, <1>6, <2>1, NoListOK, Zenon DEF ListInv, ListFlags
<1>8. PanelInv
  <2>0. \A t \in tests : TestOK(t, panel) BY <1>1
  <2>1. CASE source = "preview"
    <3>1. panel = Setup!Mount(srv, 1) /\ rows = srv BY <1>1, <2>1
    <3>2. panel = [of |-> 1, base |-> srv[1], name |-> srv[1].name, agents |-> srv[1].agents, edited |-> {},
                   saving |-> FALSE, testing |-> FALSE, result |-> 0]
      BY <3>1, MountedPanel
    <3>3. panel.of = 1 /\ panel.name = srv[1].name /\ panel.agents = srv[1].agents /\ panel.edited = {} /\ panel.result = 0
      BY <3>2
    <3>4. RowOK(srv[1]) BY <1>6, SetupAssumption, Zenon DEF ListOK
    <3>5. Panelled(panel) BY <3>3, <3>4 DEF Panelled, RowOK
    <3> QED BY <1>1, <1>6, <2>0, <3>1, <3>3, <3>5 DEF PanelInv
  <2>2. CASE source # "preview"
    <3>1. panel = Setup!NoPanel BY <1>1, <2>2
    <3>2. PICK d : Setup!NoRow = d OBVIOUS
    <3>3. panel = [of |-> 0, base |-> d, name |-> "old", agents |-> "old", edited |-> {}, saving |-> FALSE,
                   testing |-> FALSE, result |-> 0]
      BY <3>1, <3>2 DEF Setup!NoPanel
    <3>4. Panelled(panel) /\ panel.of = 0 BY <3>3 DEF Panelled
    <3> QED BY <1>1, <2>0, <3>4 DEF PanelInv
  <2> QED BY <2>1, <2>2
<1>9. DialogInv
  <2>1. Awaited({}, modal) BY Zenon DEF Awaited
  <2>2. \A r \in {} : RequestOK(r, srv) OBVIOUS
  <2> QED BY <1>1, <2>1, <2>2, ClosedOK, Zenon DEF DialogInv
<1>10. SetupInv /\ RemovalOK BY SetupInit
<1> QED BY <1>3, <1>4, <1>5, <1>7, <1>8, <1>9, <1>10, Zenon DEF PageInv

\* What a list of rows is made of.
LEMMA RowsType == ASSUME NEW rs, ListOK(rs), FlagsOK(rs) PROVE rs \in [Inbox -> Setup!Row]
<1>1. ASSUME NEW i \in Inbox PROVE rs[i] \in Setup!Row
  <2>1. PICK r : r = rs[i] OBVIOUS
  <2>2. RowOK(r) /\ r.needsReconnect \in BOOLEAN BY <2>1, Zenon DEF ListOK, FlagsOK
  <2>7. PICK B : B = BOOLEAN OBVIOUS
  <2>3. PICK b \in B : r.needsReconnect = b BY <2>2, <2>7, Zenon
  <2>4. r = [there |-> r.there, provider |-> r.provider, name |-> r.name, agents |-> r.agents, needsReconnect |-> b]
    BY <2>2, <2>3, Zenon DEF RowOK, IsRow
  <2>5. /\ r.there \in {"never", "yes", "gone"} /\ r.provider \in Provider /\ r.name \in {"old", "new", ""}
        /\ r.agents \in {"old", "new"}
    BY <2>2, Zenon DEF RowOK
  <2>8. PICK t \in {"never", "yes", "gone"}, p \in Provider, n \in {"old", "new", ""}, a \in {"old", "new"} :
           r = [there |-> t, provider |-> p, name |-> n, agents |-> a, needsReconnect |-> b]
    BY <2>4, <2>5, Zenon
  <2>6. r \in [there : {"never", "yes", "gone"}, provider : Provider, name : {"old", "new", ""}, agents : {"old", "new"},
               needsReconnect : B]
    BY <2>8
  <2> QED BY <2>1, <2>6, <2>7, Zenon DEF Setup!Row
<1> QED BY <1>1 DEF ListOK

\* The platform gets what was typed for it, and what is reported is true.
LEMMA PageFacts == ASSUME PageInv PROVE Setup!TypeOK /\ Setup!SentAsTyped /\ Setup!DoneIsTrue
<1>1. Setup!SentAsTyped BY Zenon DEF PageInv, DialogInv, RequestOK, Sent, AsTyped, Setup!SentAsTyped
<1>2. Setup!DoneIsTrue
  <2>1. modal.step = "done" => Has(srv, modal.connected, modal.provider) BY Zenon DEF PageInv, DialogInv, DialogOK
  <2>2. panel.result \in {0, panel.of} BY Zenon DEF PageInv, PanelInv, Panelled
  <2>3. 0 \notin Inbox BY SetupAssumption
  <2> QED BY <2>1, <2>2, <2>3, Zenon DEF Has, Setup!DoneIsTrue
<1>3. Setup!TypeOK
  <2>1. source \in {"connected", "preview"} BY Zenon DEF PageInv, SourceOK
  <2>2. srv \in [Inbox -> Setup!Row] /\ rows \in [Inbox -> Setup!Row] /\ read \in [Inbox -> Setup!Row]
    BY RowsType, Zenon DEF PageInv, ListInv, ListFlags
  <2>3. /\ selectedId \in {0} \cup Inbox /\ panel.of \in {0} \cup Inbox /\ panel.edited \subseteq Setup!Field
        /\ removal \in {0} \cup Inbox
    BY Zenon DEF PageInv, PanelInv, Panelled, SetupInv, RemovalOK
  <2>4. \A s \in saves : s.of \in Inbox /\ s.name # ""
    <3>1. \A s \in saves : s.of \in Inbox /\ s.name \in {"old", "new"} BY Zenon DEF PageInv, PanelInv, SetupInv
    <3> QED BY <3>1
  <2>5. \A t \in tests : t.of \in Inbox BY Zenon DEF PageInv, PanelInv, TestOK
  <2>6. connectOpen \in BOOLEAN BY Zenon DEF PageInv
  <2>7. reconnectId \in {0} \cup Inbox /\ modal.step \in Setup!Steps /\ modal.values \in [Setup!Key -> Setup!Value]
    BY Zenon DEF PageInv, DialogInv, DialogOK, Has
  <2>8. \A r \in requests : r.of \in {0} \cup Inbox BY Zenon DEF PageInv, DialogInv, RequestOK, Has
  <2>9. ops <= MaxOp /\ others <= MaxOther /\ fails <= MaxFail BY Zenon DEF PageInv, Counts
  <2> QED BY <2>1, <2>2, <2>3, <2>4, <2>5, <2>6, <2>7, <2>8, <2>9, Zenon DEF Setup!TypeOK
<1> QED BY <1>1, <1>2, <1>3

-----------------------------------------------------------------------------
(* A blast: the categories of the rows of a file, and their dispatch *)

\* What a line gets, given what the lines before it got.
StatusAt(ls, f, i) ==
    IF i = 0 THEN "HEADER"
    ELSE IF ~Broadcast!validateE164(ls[i]) THEN "INVALID_SYNTAX"
    ELSE IF ls[i].phone \in Blocked THEN "BLOCKED"
    ELSE IF \E j \in 1 .. i - 1 : f[j] = "VALID" /\ Broadcast!SameNumber(ls[j], ls[i]) THEN "DUPLICATE"
    ELSE "VALID"

\* The categories of the first n lines.
Categories(ls, n, f) == f = [i \in 0 .. n |-> StatusAt(ls, f, i)]

LEMMA SameBefore ==
    ASSUME NEW ls, NEW f, NEW g, NEW i \in Nat, \A j \in 1 .. i - 1 : f[j] = g[j]
    PROVE  StatusAt(ls, f, i) = StatusAt(ls, g, i)
BY Zenon DEF StatusAt

LEMMA CategoriesExist == ASSUME NEW ls, NEW n \in Nat PROVE \E f : Categories(ls, n, f)
<1> DEFINE None == {k \in Nat : ~\E f : Categories(ls, k, f)}
<1> SUFFICES ASSUME None # {} PROVE FALSE OBVIOUS
<1>1. PICK k \in None : \A y \in None : k <= y BY LeastNatural
<1>2. CASE k = 0
  <2> DEFINE g == [i \in 0 .. 0 |-> "HEADER"]
  <2>1. g = [i \in 0 .. 0 |-> StatusAt(ls, g, i)] BY DEF StatusAt
  <2> QED BY <1>1, <1>2, <2>1 DEF Categories
<1>3. CASE k # 0
  <2>1. k - 1 \in Nat /\ k - 1 \notin None BY <1>1, <1>3
  <2>2. PICK f : Categories(ls, k - 1, f) BY <2>1
  <2> DEFINE g == [i \in 0 .. k |-> IF i < k THEN f[i] ELSE StatusAt(ls, f, k)]
  <2>3. \A i \in 0 .. k : g[i] = StatusAt(ls, g, i)
    <3> SUFFICES ASSUME NEW i \in 0 .. k PROVE g[i] = StatusAt(ls, g, i) OBVIOUS
    <3>1. \A j \in 1 .. i - 1 : f[j] = g[j] BY <1>1
    <3>2. StatusAt(ls, f, i) = StatusAt(ls, g, i) BY <3>1, SameBefore
    <3>3. CASE i < k
      <4>1. i \in 0 .. k - 1 BY <3>3, <1>1
      <4>2. f[i] = StatusAt(ls, f, i) BY <2>2, <4>1 DEF Categories
      <4> QED BY <3>2, <3>3, <4>2
    <3>4. CASE i = k
      <4>1. k \in Nat /\ ~(i < k) BY <3>4, <1>1
      <4>2. g[i] = StatusAt(ls, f, k) BY <3>4, <4>1, Zenon
      <4> QED BY <3>2, <3>4, <4>2
    <3> QED BY <3>3, <3>4, <1>1
  <2>4. g = [i \in 0 .. k |-> StatusAt(ls, g, i)]
    <3>1. g = [i \in 0 .. k |-> g[i]] OBVIOUS
    <3> HIDE DEF g
    <3> QED BY <2>3, <3>1, Zenon
  <2> HIDE DEF g
  <2> QED BY <1>1, <2>4 DEF Categories
<1> QED BY <1>2, <1>3

LEMMA Parsed ==
    ASSUME NEW ls, Len(ls) \in Nat
    PROVE  \E f : /\ Categories(ls, Len(ls), f)
                  /\ Broadcast!parseCsvContent(ls) = [i \in 1 .. Len(ls) |-> [phone |-> ls[i].phone, status |-> f[i]]]
<1> DEFINE found == CHOOSE f : Categories(ls, Len(ls), f)
<1>1. Broadcast!parseCsvContent(ls) = [i \in 1 .. Len(ls) |-> [phone |-> ls[i].phone, status |-> found[i]]]
  BY Zenon DEF Broadcast!parseCsvContent, Categories, StatusAt
<1>3. Categories(ls, Len(ls), found) BY CategoriesExist
<1> HIDE DEF found
<1> QED BY <1>1, <1>3, Zenon

\* Of each number one message, in the rows of a file.
EachOnce(rs) ==
    /\ \A i \in Broadcast!Valid(rs) : rs[i].phone \notin Blocked
    /\ \A i, j \in Broadcast!Valid(rs) : rs[i].phone = rs[j].phone => i = j
    /\ \A i \in 1 .. Len(rs) : rs[i].status = "DUPLICATE" => \E j \in Broadcast!Valid(rs) : j < i /\ rs[j].phone = rs[i].phone

RowsOK(rs) ==
    /\ Len(rs) \in 0 .. MaxRow /\ \A i \in 1 .. Len(rs) : rs[i].phone \in Phone /\ rs[i].status \in Broadcast!Category
    /\ EachOnce(rs)

LEMMA StatusAtIs ==
    ASSUME NEW ls, NEW f, NEW i \in Nat \ {0}
    PROVE  /\ StatusAt(ls, f, i) \in Broadcast!Category
           /\ StatusAt(ls, f, i) = "VALID" =>
                 ls[i].phone \notin Blocked /\ ~\E j \in 1 .. i - 1 : f[j] = "VALID" /\ ls[j].phone = ls[i].phone
           /\ StatusAt(ls, f, i) = "DUPLICATE" => \E j \in 1 .. i - 1 : f[j] = "VALID" /\ ls[j].phone = ls[i].phone
BY DEF StatusAt, Broadcast!Category, Broadcast!SameNumber

LEMMA ParsedRows == ASSUME NEW ls \in Broadcast!Content PROVE RowsOK(Broadcast!parseCsvContent(ls))
<1>1. PICK n \in 0 .. MaxRow : ls \in [1 .. n -> Broadcast!Line] BY Zenon DEF Broadcast!Content
<1>2. n \in Nat /\ Len(ls) = n BY <1>1, CampaignAssumption
<1>3. PICK f : /\ Categories(ls, n, f)
               /\ Broadcast!parseCsvContent(ls) = [i \in 1 .. n |-> [phone |-> ls[i].phone, status |-> f[i]]]
  <2>1. Len(ls) \in Nat BY <1>2
  <2>2. \E f : /\ Categories(ls, Len(ls), f)
               /\ Broadcast!parseCsvContent(ls) = [i \in 1 .. Len(ls) |-> [phone |-> ls[i].phone, status |-> f[i]]]
    BY <2>1, Parsed
  <2> QED BY <1>2, <2>2
<1> DEFINE rs == [i \in 1 .. n |-> [phone |-> ls[i].phone, status |-> f[i]]]
<1>4. Len(rs) = n /\ \A i \in 1 .. n : rs[i].phone = ls[i].phone /\ rs[i].status = f[i] BY <1>2
<1>5. \A i \in 1 .. n : ls[i].phone \in Phone BY <1>1 DEF Broadcast!Line
<1>6. \A i \in 1 .. n : f[i] = StatusAt(ls, f, i) /\ i \in Nat \ {0} BY <1>2, <1>3 DEF Categories
<1> HIDE DEF rs
<1>7. Broadcast!Valid(rs) = {i \in 1 .. n : f[i] = "VALID"} BY <1>4 DEF Broadcast!Valid
<1>8. \A i \in 1 .. n : rs[i].phone \in Phone /\ rs[i].status \in Broadcast!Category BY <1>4, <1>5, <1>6, StatusAtIs
<1>9. \A i \in Broadcast!Valid(rs) : rs[i].phone \notin Blocked BY <1>4, <1>6, <1>7, StatusAtIs
<1>10. ASSUME NEW i \in Broadcast!Valid(rs), NEW j \in Broadcast!Valid(rs), rs[i].phone = rs[j].phone PROVE i = j
  <2>1. ls[i].phone = ls[j].phone /\ f[i] = "VALID" /\ f[j] = "VALID" /\ i \in 1 .. n /\ j \in 1 .. n BY <1>4, <1>7, <1>10
  <2>2. StatusAt(ls, f, i) = "VALID" /\ StatusAt(ls, f, j) = "VALID" BY <1>6, <2>1
  <2>3. ~(i \in 1 .. j - 1) /\ ~(j \in 1 .. i - 1) BY <1>6, <2>1, <2>2, StatusAtIs
  <2> QED BY <1>2, <2>1, <2>3
<1>11. ASSUME NEW i \in 1 .. n, rs[i].status = "DUPLICATE"
       PROVE \E j \in Broadcast!Valid(rs) : j < i /\ rs[j].phone = rs[i].phone
  <2>1. StatusAt(ls, f, i) = "DUPLICATE" BY <1>4, <1>6, <1>11
  <2>2. PICK j \in 1 .. i - 1 : f[j] = "VALID" /\ ls[j].phone = ls[i].phone BY <1>6, <2>1, StatusAtIs
  <2>3. j \in 1 .. n /\ j < i BY <1>2
  <2> QED BY <1>4, <1>7, <2>2, <2>3
<1>12. EachOnce(rs) BY <1>4, <1>9, <1>10, <1>11 DEF EachOnce
<1> QED BY <1>3, <1>4, <1>8, <1>12 DEF RowsOK, rs

LEMMA ValidRows ==
    ASSUME NEW rs, RowsOK(rs)
    PROVE  Cardinality(Broadcast!Valid(rs)) \in 0 .. MaxRow /\ (Broadcast!Valid(rs) # {} => Cardinality(Broadcast!Valid(rs)) > 0)
<1>1. PICK n \in 0 .. MaxRow : n = Len(rs) BY DEF RowsOK
<1>2. n \in Nat BY CampaignAssumption
<1>3. IsFiniteSet(1 .. n) /\ Cardinality(1 .. n) = n
  <2>1. 1 \in Int /\ n \in Int BY <1>2
  <2>2. IsFiniteSet(1 .. n) /\ Cardinality(1 .. n) = IF 1 > n THEN 0 ELSE n - 1 + 1 BY <2>1, FS_Interval
  <2> QED BY <1>2, <2>2
<1>4. Broadcast!Valid(rs) \subseteq 1 .. n BY <1>1 DEF Broadcast!Valid
<1>5. IsFiniteSet(Broadcast!Valid(rs)) /\ Cardinality(Broadcast!Valid(rs)) <= n BY <1>3, <1>4, FS_Subset
<1>6. Cardinality(Broadcast!Valid(rs)) \in Nat BY <1>5, FS_CardinalityType
<1>7. Broadcast!Valid(rs) # {} => Cardinality(Broadcast!Valid(rs)) # 0 BY <1>5, FS_EmptySet
<1> QED BY <1>2, <1>5, <1>6, <1>7, CampaignAssumption

\* The rows of a file that get a message, counted.
LEMMA CountIs == ASSUME NEW S PROVE Broadcast!Cardinality(S) = Cardinality(S)
BY DEF Broadcast!Cardinality, Cardinality

IsTimer(t) == t = [of |-> t.of, count |-> t.count, total |-> t.total] /\ t.count \in Nat /\ t.total \in 0 .. MaxRow /\ t.count < t.total

\* A dispatch that nothing overlapped is of the rows on display.
OneDispatch ==
    ~overlapped => /\ \A t \in intervals : t.total = Cardinality(Broadcast!Valid(lines))
                   /\ \A t, u \in intervals : t = u
                   /\ blast = "FINISHED" => intervals = {} /\ dispatched = Cardinality(Broadcast!Valid(lines))

BlastInv ==
    /\ blast \in {"PARSING", "CATEGORIZED", "DISPATCHING", "FINISHED"} /\ RowsOK(lines)
    /\ files \in 0 .. MaxFile /\ loads \subseteq 1 .. files /\ dispatched \in 0 .. MaxRow
    /\ \A t \in intervals : IsTimer(t)

Overlap == overlapped \in BOOLEAN

LEMMA BlastInit == ASSUME Broadcast!BlastInit PROVE BlastInv /\ Overlap /\ OneDispatch
<1>1. RowsOK(lines) BY ParsedRows, Zenon DEF Broadcast!BlastInit
<1>2. BlastInv BY <1>1, CampaignAssumption DEF Broadcast!BlastInit, BlastInv
<1>3. Overlap BY Zenon DEF Broadcast!BlastInit, Overlap
<1>4. OneDispatch BY DEF Broadcast!BlastInit, OneDispatch
<1> QED BY <1>2, <1>3, <1>4

LEMMA UploadSteps ==
    ASSUME BlastInv, Overlap, OneDispatch, Broadcast!handleFileUpload \/ Broadcast!Drop
    PROVE  BlastInv' /\ Overlap' /\ OneDispatch'
<1>1. /\ files < MaxFile /\ files' = files + 1 /\ loads' = loads \cup {files'} /\ blast' \in {blast, "PARSING"}
      /\ UNCHANGED <<lines, dispatched, intervals, overlapped>>
  BY DEF Broadcast!handleFileUpload, Broadcast!Drop
<1>2. RowsOK(lines)' BY <1>1, Zenon DEF BlastInv
<1>3. BlastInv' BY <1>1, <1>2, CampaignAssumption DEF BlastInv, IsTimer
<1>4. Overlap' BY <1>1, Zenon DEF Overlap
<1>5. OneDispatch' BY <1>1 DEF OneDispatch
<1> QED BY <1>3, <1>4, <1>5

LEMMA FileReadStep ==
    ASSUME BlastInv, Overlap, OneDispatch, NEW f \in loads, NEW content \in Broadcast!Content, Broadcast!FileRead(f, content)
    PROVE  BlastInv' /\ Overlap' /\ OneDispatch'
<1>1. /\ loads' = loads \ {f} /\ lines' = Broadcast!parseCsvContent(content) /\ blast' = "CATEGORIZED"
      /\ UNCHANGED <<dispatched, intervals, files>>
  BY DEF Broadcast!FileRead
<1>0. overlapped' = (overlapped \/ intervals # {}) BY DEF Broadcast!FileRead
<1>2. RowsOK(lines') BY <1>1, ParsedRows
<1>3. BlastInv' BY <1>1, <1>2 DEF BlastInv, IsTimer
<1>4. Overlap' BY <1>0, Zenon DEF Overlap
<1>6. ~overlapped' => intervals' = {} BY <1>0, <1>1
<1>5. OneDispatch' BY <1>1, <1>6 DEF OneDispatch
<1> QED BY <1>3, <1>4, <1>5

LEMMA StartStep ==
    ASSUME BlastInv, Overlap, OneDispatch, Broadcast!handleStartDispatch
    PROVE  BlastInv' /\ Overlap' /\ OneDispatch'
<1> DEFINE t == [of |-> files, count |-> 0, total |-> Cardinality(Broadcast!Valid(lines))]
<1>1. /\ blast' = "DISPATCHING" /\ dispatched' = 0 /\ intervals' = intervals \cup {t} /\ Broadcast!Valid(lines) # {}
      /\ UNCHANGED <<lines, loads, files>>
  BY CountIs DEF Broadcast!handleStartDispatch
<1>0. overlapped' = (overlapped \/ intervals # {}) BY DEF Broadcast!handleStartDispatch
<1>2. RowsOK(lines)' BY <1>1, Zenon DEF BlastInv
<1>7. IsTimer(t) /\ t.total = Cardinality(Broadcast!Valid(lines)) BY <1>1, ValidRows DEF IsTimer, BlastInv
<1> HIDE DEF t
<1>3. BlastInv' BY <1>1, <1>2, <1>7, CampaignAssumption DEF BlastInv, IsTimer
<1>4. Overlap' BY <1>0, Zenon DEF Overlap
<1>6. ~overlapped' => intervals' = {t} BY <1>0, <1>1
<1>5. OneDispatch' BY <1>1, <1>6, <1>7 DEF OneDispatch
<1> QED BY <1>3, <1>4, <1>5

LEMMA DispatchTicks ==
    ASSUME BlastInv, Overlap, OneDispatch, NEW t \in intervals, Broadcast!DispatchTick(t)
    PROVE  BlastInv' /\ Overlap' /\ OneDispatch'
<1>1. dispatched' = t.count + 1 /\ UNCHANGED <<lines, loads, files, overlapped>> BY DEF Broadcast!DispatchTick
<1>2. RowsOK(lines)' BY <1>1, Zenon DEF BlastInv
<1>3. IsTimer(t) /\ t.count \in Nat /\ t.total \in 0 .. MaxRow /\ t.count < t.total BY DEF BlastInv, IsTimer
<1>4. dispatched' \in 0 .. MaxRow BY <1>1, <1>3, CampaignAssumption
<1>5. Overlap' BY <1>1, Zenon DEF Overlap
<1>6. CASE Broadcast!LastOfDispatch(t)
  <2>1. intervals' = intervals \ {t} /\ blast' = "FINISHED" BY <1>6, Zenon DEF Broadcast!DispatchTick
  <2>2. dispatched' = t.total BY <1>1, <1>3, <1>6 DEF Broadcast!LastOfDispatch
  <2>3. BlastInv' BY <1>1, <1>2, <1>4, <2>1 DEF BlastInv, IsTimer
  <2>4. OneDispatch' BY <1>1, <2>1, <2>2 DEF OneDispatch
  <2> QED BY <1>5, <2>3, <2>4
<1>7. CASE ~Broadcast!LastOfDispatch(t)
  <2> DEFINE u == [t EXCEPT !.count = t.count + 1]
  <2>1. intervals' = (intervals \ {t}) \cup {u} /\ blast' = blast BY <1>7, Zenon DEF Broadcast!DispatchTick
  <2>2. u = [of |-> t.of, count |-> t.count + 1, total |-> t.total] BY <1>3 DEF IsTimer
  <2> HIDE DEF u
  <2>3. IsTimer(u) /\ u.total = t.total BY <1>3, <1>7, <2>2 DEF IsTimer, Broadcast!LastOfDispatch
  <2>4. BlastInv' BY <1>1, <1>2, <1>4, <2>1, <2>3 DEF BlastInv, IsTimer
  <2>5. OneDispatch' BY <1>1, <2>1, <2>3 DEF OneDispatch
  <2> QED BY <1>5, <2>4, <2>5
<1> QED BY <1>6, <1>7

LEMMA BlastNext == ASSUME BlastInv, Overlap, OneDispatch, Broadcast!BlastNext PROVE BlastInv' /\ Overlap' /\ OneDispatch'
BY UploadSteps, FileReadStep, StartStep, DispatchTicks, Zenon DEF Broadcast!BlastNext

-----------------------------------------------------------------------------
(* Broadcasts *)

\* A telemetry record whose counts add up.
Adds(t) ==
    /\ t = [total |-> t.total, sent |-> t.sent, delivered |-> t.delivered, read |-> t.read, failed |-> t.failed]
    /\ t.total \in Segment /\ t.sent \in Nat /\ t.delivered \in Nat /\ t.read \in Nat /\ t.failed \in Nat
    /\ t.delivered + t.failed <= t.sent /\ t.sent <= t.total /\ t.read <= t.delivered

WizardTypes ==
    /\ campaigns \subseteq Name
    /\ name \in Name /\ audience \in Segment /\ template \in Broadcast!Template
    /\ throttle \in Throttle /\ schedule \in Broadcast!Schedule /\ state \in {"DRAFT", "DISPATCHING", "COMPLETED"}
    /\ typed \in Name \cup {""}

StepOK == step \in 1 .. 9

WizardFlags == wizard \in BOOLEAN /\ paused \in BOOLEAN

\* A template that is not approved is not taken past the third step; only what was authorised is dispatched.
Authorised ==
    /\ step > 3 => template = "APPROVED"
    /\ step < 9 => state = "DRAFT"
    /\ step = 9 => /\ authorised.template = template /\ authorised.audience = audience
                   /\ audience > HighVolume => authorised.name = name /\ telemetry.total = audience

Counted == Adds(telemetry) /\ (state = "COMPLETED" => telemetry.sent = telemetry.total)

WizardInv == WizardTypes /\ StepOK /\ WizardFlags /\ Authorised /\ Counted /\ (step < 9 => telemetry.sent = 0 /\ telemetry.failed = 0)

LEMMA LargestSegment == Broadcast!Max(Segment) \in Segment /\ \A s \in Segment : s <= Broadcast!Max(Segment)
<1>1. PICK m \in Segment : \A s \in Segment : m >= s BY CampaignAssumption
<1>2. Broadcast!Max(Segment) \in Segment /\ \A s \in Segment : Broadcast!Max(Segment) >= s BY <1>1 DEF Broadcast!Max
<1> QED BY <1>2, CampaignAssumption

LEMMA LesserOf == ASSUME NEW a \in Nat, NEW b \in Nat PROVE Broadcast!Min({a, b}) \in {a, b} /\ Broadcast!Min({a, b}) <= a /\ Broadcast!Min({a, b}) <= b
<1>1. \E x \in {a, b} : \A y \in {a, b} : x =< y OBVIOUS
<1>2. Broadcast!Min({a, b}) \in {a, b} /\ \A y \in {a, b} : Broadcast!Min({a, b}) =< y BY <1>1 DEF Broadcast!Min
<1> QED BY <1>2

LEMMA GreaterOf == ASSUME NEW a \in Int, NEW b \in Int PROVE Broadcast!Max({a, b}) \in {a, b} /\ Broadcast!Max({a, b}) >= a /\ Broadcast!Max({a, b}) >= b
<1>1. \E x \in {a, b} : \A y \in {a, b} : x >= y OBVIOUS
<1>2. Broadcast!Max({a, b}) \in {a, b} /\ \A y \in {a, b} : Broadcast!Max({a, b}) >= y BY <1>1 DEF Broadcast!Max
<1> QED BY <1>2

LEMMA FirstCounts == Adds(Broadcast!NoDispatch) /\ Broadcast!NoDispatch.sent = 0 /\ Broadcast!NoDispatch.failed = 0
<1>1. PICK m \in Segment : m = Broadcast!Max(Segment) BY LargestSegment
<1>2. Broadcast!NoDispatch = [total |-> m, sent |-> 0, delivered |-> 0, read |-> 0, failed |-> 0] BY <1>1 DEF Broadcast!NoDispatch
<1> QED BY <1>2, CampaignAssumption DEF Adds

LEMMA WizardInit == ASSUME Broadcast!WizardInit, wizard = FALSE, campaigns = Name PROVE WizardInv
<1>0. step = 1 /\ state = "DRAFT" /\ template = "APPROVED" /\ telemetry = Broadcast!NoDispatch BY Zenon DEF Broadcast!WizardInit
<1>1. WizardTypes BY LargestSegment, Zenon DEF Broadcast!WizardInit, WizardTypes, Broadcast!Template, Broadcast!Schedule
<1>2. WizardFlags BY Zenon DEF Broadcast!WizardInit, WizardFlags
<1>3. Authorised BY <1>0 DEF Authorised
<1>4. Counted /\ telemetry.sent = 0 /\ telemetry.failed = 0 BY <1>0, FirstCounts DEF Counted
<1>5. StepOK BY <1>0 DEF StepOK
<1> QED BY <1>1, <1>2, <1>3, <1>4, <1>5 DEF WizardInv

LEMMA OpenStep == ASSUME WizardInv, NEW n \in Name, NEW r \in Throttle, Broadcast!OpenWizard(n, r) PROVE WizardInv'
<1>0. Broadcast!WizardMounted(n, r) /\ wizard' = TRUE /\ campaigns' = campaigns BY DEF Broadcast!OpenWizard
<1>1. WizardTypes' BY <1>0, LargestSegment, Zenon DEF Broadcast!WizardMounted, WizardInv, WizardTypes, Broadcast!Template, Broadcast!Schedule
<1>2. WizardFlags' BY <1>0, Zenon DEF Broadcast!WizardMounted, WizardFlags
<1>5. step' = 1 /\ telemetry' = Broadcast!NoDispatch /\ state' = "DRAFT" BY <1>0, Zenon DEF Broadcast!WizardMounted
<1>3. Authorised' BY <1>5 DEF Authorised
<1>4. Counted' /\ telemetry'.sent = 0 /\ telemetry'.failed = 0
  <2> QED BY <1>5, FirstCounts DEF Counted, Adds
<1>6. StepOK' BY <1>5 DEF StepOK
<1> QED BY <1>1, <1>2, <1>3, <1>4, <1>6 DEF WizardInv

\* Steps that change nothing of what is dispatched.
LEMMA LeftAlone ==
    ASSUME WizardInv, WizardTypes', StepOK', WizardFlags', Authorised',
           UNCHANGED telemetry, state' = "COMPLETED" => telemetry.sent = telemetry.total, step = 9 => step' = 9
    PROVE  WizardInv'
<1>1. Counted' BY DEF WizardInv, Counted, Adds
<1>2. step' < 9 => step < 9 BY DEF WizardInv, StepOK
<1> QED BY <1>1, <1>2 DEF WizardInv

LEMMA PageStep == ASSUME WizardInv, Broadcast!CloseWizard \/ \E n \in Name : Broadcast!DeleteCampaign(n) PROVE WizardInv'
<1>1. /\ campaigns' \subseteq Name
      /\ UNCHANGED <<step, Broadcast!campaignData, state, typed, telemetry, authorised>>
  BY DEF WizardInv, WizardTypes, Broadcast!CloseWizard, Broadcast!DeleteCampaign
<1>2. WizardTypes' BY <1>1 DEF WizardInv, WizardTypes, Broadcast!campaignData
<1>3. WizardFlags' BY Zenon DEF WizardInv, WizardFlags, Broadcast!CloseWizard, Broadcast!DeleteCampaign
<1>4. Authorised' BY <1>1 DEF WizardInv, Authorised, Broadcast!campaignData
<1>5. StepOK' BY <1>1 DEF WizardInv, StepOK
<1> QED BY <1>1, <1>2, <1>3, <1>4, <1>5, LeftAlone DEF WizardInv, Counted

LEMMA EditSteps ==
    ASSUME WizardInv,
           \/ \E n \in Name : Broadcast!SetName(n) \/ Broadcast!TypeName(n)
           \/ \E s \in Segment : Broadcast!SetSegment(s)
           \/ \E t \in Broadcast!Template : Broadcast!SetTemplate(t)
           \/ \E r \in Throttle : Broadcast!SetThrottle(r)
           \/ \E s \in Broadcast!Schedule : Broadcast!SetSchedule(s)
    PROVE  WizardInv'
<1>1. UNCHANGED <<wizard, campaigns, step, state, paused, telemetry, authorised>>
  BY DEF Broadcast!SetName, Broadcast!TypeName, Broadcast!SetSegment, Broadcast!SetTemplate, Broadcast!SetThrottle,
         Broadcast!SetSchedule, Broadcast!Editing
<1>2. /\ name' \in Name /\ audience' \in Segment /\ template' \in Broadcast!Template /\ throttle' \in Throttle
      /\ schedule' \in Broadcast!Schedule /\ typed' \in Name \cup {""}
      /\ step \in {1, 2, 3, 7, 8} /\ (step # 3 => template' = template)
  BY Zenon DEF WizardInv, WizardTypes, Broadcast!SetName, Broadcast!TypeName, Broadcast!SetSegment, Broadcast!SetTemplate,
         Broadcast!SetThrottle, Broadcast!SetSchedule
<1>3. WizardTypes' BY <1>1, <1>2, Zenon DEF WizardInv, WizardTypes
<1>4. WizardFlags' BY <1>1, Zenon DEF WizardInv, WizardFlags
<1>6. StepOK' BY <1>1 DEF WizardInv, StepOK
<1>7. step < 9 /\ (step > 3 => template' = template) /\ step # 9
  <2>1. step \in {1, 2, 3, 7, 8} /\ (step # 3 => template' = template) BY <1>2, Zenon
  <2> QED BY <2>1
<1>5. Authorised' BY <1>1, <1>7 DEF WizardInv, Authorised
<1> QED BY <1>1, <1>3, <1>4, <1>5, <1>6, LeftAlone DEF WizardInv, Counted

LEMMA MoveSteps ==
    ASSUME WizardInv, step < 9, step' \in 1 .. 8, step' > 3 => template = "APPROVED",
           UNCHANGED <<wizard, campaigns, name, audience, template, throttle, schedule, state, typed, paused, telemetry, authorised>>
    PROVE  WizardInv'
<1>1. WizardTypes' BY Zenon DEF WizardInv, WizardTypes
<1>2. WizardFlags' BY Zenon DEF WizardInv, WizardFlags
<1>3. Authorised' BY DEF WizardInv, Authorised
<1>4. StepOK' BY DEF StepOK
<1> QED BY <1>1, <1>2, <1>3, <1>4, LeftAlone DEF WizardInv, Counted

LEMMA DispatchStep ==
    ASSUME WizardInv, NEW total \in Segment, step < 9, Broadcast!Dispatching(total), template = "APPROVED",
           audience > HighVolume => typed = name /\ total = audience,
           UNCHANGED <<wizard, campaigns, name, audience, template, throttle, schedule, typed, paused>>
    PROVE  WizardInv'
<1>0. /\ step' = 9 /\ state' = "DISPATCHING" /\ telemetry' = [telemetry EXCEPT !.total = total]
      /\ authorised' = [name |-> typed, audience |-> audience, template |-> template]
  BY DEF Broadcast!Dispatching
<1>1. WizardTypes' BY <1>0, Zenon DEF WizardInv, WizardTypes
<1>2. WizardFlags' BY Zenon DEF WizardInv, WizardFlags
<1>8. StepOK' BY <1>0 DEF StepOK
<1>3. Adds(telemetry) /\ telemetry.sent = 0 BY DEF WizardInv, Counted
<1>4. telemetry' = [total |-> total, sent |-> telemetry.sent, delivered |-> telemetry.delivered, read |-> telemetry.read,
                    failed |-> telemetry.failed]
  BY <1>0, <1>3 DEF Adds
<1>5. Adds(telemetry') /\ telemetry'.total = total
  <2>1. total \in Nat BY CampaignAssumption
  <2> QED BY <1>3, <1>4, <2>1 DEF Adds
<1>6. Authorised'
  <2>1. authorised'.template = template /\ authorised'.audience = audience /\ authorised'.name = typed BY <1>0
  <2> QED BY <1>0, <1>5, <2>1 DEF Authorised
<1>7. Counted' BY <1>0, <1>5 DEF Counted, Adds
<1> QED BY <1>0, <1>1, <1>2, <1>6, <1>7, <1>8 DEF WizardInv

LEMMA NextStep == ASSUME WizardInv, Broadcast!handleNext PROVE WizardInv'
<1>1. /\ step < 8 /\ Broadcast!MayAdvance
      /\ UNCHANGED <<wizard, campaigns, name, audience, template, throttle, schedule, typed, paused>>
  BY DEF Broadcast!handleNext, Broadcast!campaignData
<1>2. step \in 1 .. 9 /\ step < 9 BY <1>1 DEF WizardInv, StepOK
<1>3. step >= 3 => template = "APPROVED" BY <1>1, <1>2 DEF Broadcast!MayAdvance, WizardInv, Authorised
<1>4. CASE step = 7 /\ ~Broadcast!AsksAgain
  <2>1. Broadcast!Dispatching(telemetry.total) BY <1>4 DEF Broadcast!handleNext
  <2>2. telemetry.total \in Segment BY DEF WizardInv, Counted, Adds
  <2>3. ~(audience > HighVolume) BY <1>4 DEF Broadcast!AsksAgain
  <2>4. template = "APPROVED" BY <1>3, <1>4
  <2> QED BY <1>1, <1>2, <2>1, <2>2, <2>3, <2>4, DispatchStep
<1>5. CASE ~(step = 7 /\ ~Broadcast!AsksAgain)
  <2>1. step' = step + 1 /\ UNCHANGED <<state, telemetry, authorised>> BY <1>5 DEF Broadcast!handleNext
  <2>2. step' \in 1 .. 8 /\ (step' > 3 => template = "APPROVED") BY <1>1, <1>2, <1>3, <2>1
  <2> QED BY <1>1, <1>2, <2>1, <2>2, MoveSteps
<1> QED BY <1>4, <1>5

LEMMA BackSteps == ASSUME WizardInv, Broadcast!handlePrev \/ \E s \in 1 .. 7 : Broadcast!GoTo(s) PROVE WizardInv'
<1>1. step \in 1 .. 9 BY DEF WizardInv, StepOK
<1>2. /\ step < 9 /\ step' \in 1 .. 8 /\ step' < step
      /\ UNCHANGED <<wizard, campaigns, name, audience, template, throttle, schedule, state, typed, paused, telemetry, authorised>>
  BY <1>1 DEF Broadcast!handlePrev, Broadcast!GoTo, Broadcast!campaignData
<1>3. step' > 3 => template = "APPROVED" BY <1>1, <1>2 DEF WizardInv, Authorised
<1> QED BY <1>2, <1>3, MoveSteps

LEMMA ConfirmStep == ASSUME WizardInv, Broadcast!handleConfirmDualAuth PROVE WizardInv'
<1>1. /\ step = 8 /\ typed = name /\ Broadcast!Dispatching(audience)
      /\ UNCHANGED <<wizard, campaigns, name, audience, template, throttle, schedule, typed, paused>>
  BY DEF Broadcast!handleConfirmDualAuth, Broadcast!campaignData
<1>3. audience \in Segment BY Zenon DEF WizardInv, WizardTypes
<1>2. template = "APPROVED" /\ step < 9 BY <1>1 DEF WizardInv, Authorised
<1> QED BY <1>1, <1>2, <1>3, DispatchStep

LEMMA TickStep == ASSUME WizardInv, NEW f \in {0, 1}, Broadcast!Tick(f) PROVE WizardInv'
<1> DEFINE batch == Broadcast!BatchSize(telemetry)
           sent == telemetry.sent + batch
           failed == telemetry.failed + f
           delivered == Broadcast!Max({0, sent - failed - (batch \div 10)})
<1>1. telemetry' = [telemetry EXCEPT !.sent = sent, !.failed = failed, !.delivered = delivered,
                                     !.read = (delivered * 68) \div 100]
  BY DEF Broadcast!Tick
<1>2. /\ step = 9 /\ state = "DISPATCHING" /\ telemetry.sent < telemetry.total
      /\ UNCHANGED <<wizard, campaigns, step, name, audience, template, throttle, schedule, state, typed, paused, authorised>>
  BY DEF Broadcast!Tick, Broadcast!campaignData
<1>3. /\ Adds(telemetry) /\ telemetry.total \in Nat /\ telemetry.sent \in Nat /\ telemetry.failed \in Nat
      /\ telemetry.failed <= telemetry.sent /\ throttle \in Nat \ {0}
  <2>1. throttle \in Throttle BY Zenon DEF WizardInv, WizardTypes
  <2> QED BY <2>1, CampaignAssumption DEF WizardInv, Counted, Adds
<1>4. batch \in Nat \ {0} /\ batch <= telemetry.total - telemetry.sent
  <2>1. telemetry.total - telemetry.sent \in Nat \ {0} BY <1>2, <1>3
  <2> QED BY <1>3, <2>1, LesserOf DEF Broadcast!BatchSize
<1> HIDE DEF batch
<1>5. PICK b \in Nat \ {0} : b = batch BY <1>4
<1>6. sent \in Nat /\ failed \in Nat /\ sent <= telemetry.total /\ failed <= sent BY <1>3, <1>4
<1>7. sent - failed - (batch \div 10) \in Int /\ batch \div 10 \in Nat BY <1>5, <1>6
<1> HIDE DEF sent, failed
<1>8. delivered \in Nat /\ delivered + failed <= sent
  <2>1. PICK d \in Int : d = sent - failed - (batch \div 10) BY <1>7
  <2>2. d <= sent - failed BY <1>6, <1>7, <2>1
  <2>4. delivered = Broadcast!Max({0, d}) BY <2>1
  <2>5. 0 \in Int OBVIOUS
  <2>3. delivered \in {0, d} /\ delivered >= 0
    <3>1. Broadcast!Max({0, d}) \in {0, d} /\ Broadcast!Max({0, d}) >= 0 BY <2>5, GreaterOf
    <3> HIDE DEF delivered
    <3> QED BY <2>4, <3>1, Zenon
  <2> HIDE DEF delivered
  <2> QED BY <1>6, <2>2, <2>3
<1> HIDE DEF delivered
<1>9. PICK r \in Nat : r = (delivered * 68) \div 100 /\ r <= delivered BY <1>8
<1>10. telemetry' = [total |-> telemetry.total, sent |-> sent, delivered |-> delivered, read |-> r, failed |-> failed]
  <2>1. telemetry' = [telemetry EXCEPT !.sent = sent, !.failed = failed, !.delivered = delivered, !.read = r] BY <1>1, <1>9
  <2>2. PICK t, u, n, d : t = telemetry.total /\ u = telemetry.sent /\ n = telemetry.delivered /\ d = telemetry.read OBVIOUS
  <2>3. telemetry = [total |-> t, sent |-> u, delivered |-> n, read |-> d, failed |-> telemetry.failed] BY <1>3, <2>2 DEF Adds
  <2> QED BY <2>1, <2>2, <2>3
<1>11. Adds(telemetry') /\ telemetry'.total = telemetry.total
  <2>1. telemetry.total \in Segment BY <1>3 DEF Adds
  <2> QED BY <1>6, <1>8, <1>9, <1>10, <2>1 DEF Adds
<1>12. WizardTypes' /\ StepOK' BY <1>2, Zenon DEF WizardInv, WizardTypes, StepOK
<1>13. WizardFlags' BY <1>2, Zenon DEF WizardInv, WizardFlags
<1>14. Authorised' BY <1>2, <1>11 DEF WizardInv, Authorised
<1>15. Counted' BY <1>2, <1>11 DEF Counted, Adds
<1>16. ~(step' < 9) BY <1>2
<1> QED BY <1>12, <1>13, <1>14, <1>15, <1>16 DEF WizardInv

LEMMA LastSteps == ASSUME WizardInv, Broadcast!LastTick \/ Broadcast!TogglePause PROVE WizardInv'
<1>1. /\ step = 9 /\ UNCHANGED <<wizard, campaigns, step, name, audience, template, throttle, schedule, typed, telemetry, authorised>>
      /\ state' = state \/ (state' = "COMPLETED" /\ telemetry.sent >= telemetry.total)
  BY DEF Broadcast!LastTick, Broadcast!TogglePause, Broadcast!campaignData
<1>2. WizardTypes' /\ StepOK' BY <1>1, Zenon DEF WizardInv, WizardTypes, StepOK
<1>3. WizardFlags' BY <1>1, Zenon DEF WizardInv, WizardFlags, Broadcast!LastTick, Broadcast!TogglePause
<1>4. Authorised' BY <1>1 DEF WizardInv, Authorised
<1>5. state' = "COMPLETED" => telemetry.sent = telemetry.total
  <2>1. telemetry.sent \in Nat /\ telemetry.total \in Nat /\ telemetry.sent <= telemetry.total BY CampaignAssumption DEF WizardInv, Counted, Adds
  <2> QED BY <1>1, <2>1 DEF WizardInv, Counted
<1> QED BY <1>1, <1>2, <1>3, <1>4, <1>5, LeftAlone

LEMMA WizardNext == ASSUME WizardInv, Broadcast!WizardNext PROVE WizardInv'
BY OpenStep, PageStep, EditSteps, NextStep, BackSteps, ConfirmStep, TickStep, LastSteps, Zenon DEF Broadcast!WizardNext

\* Every broadcast is one that was authorised, and its counts add up.
LEMMA WizardFacts == ASSUME WizardInv PROVE Broadcast!BroadcastWasAuthorised /\ Broadcast!CountsAddUp
<1>1. Broadcast!BroadcastWasAuthorised BY DEF WizardInv, Authorised, Broadcast!BroadcastWasAuthorised
<1>2. Broadcast!CountsAddUp BY DEF WizardInv, Counted, Adds, Broadcast!CountsAddUp
<1> QED BY <1>1, <1>2

LEMMA TelemetryType ==
    ASSUME WizardInv
    PROVE  telemetry \in [total : Segment, sent : 0 .. Broadcast!Max(Segment), delivered : 0 .. Broadcast!Max(Segment),
                          read : 0 .. Broadcast!Max(Segment), failed : 0 .. Broadcast!Max(Segment)]
<1>1. PICK m \in Nat : m = Broadcast!Max(Segment) /\ \A s \in Segment : s <= m BY LargestSegment, CampaignAssumption
<1>2. Adds(telemetry) BY DEF WizardInv, Counted
<1>3. telemetry.total \in Nat /\ telemetry.total <= m BY <1>1, <1>2, CampaignAssumption DEF Adds
<1>4. telemetry.sent \in 0 .. m /\ telemetry.delivered \in 0 .. m /\ telemetry.read \in 0 .. m /\ telemetry.failed \in 0 .. m
  BY <1>2, <1>3 DEF Adds
<1> QED BY <1>1, <1>2, <1>4 DEF Adds

\* Each number gets one message, and what is said to be dispatched is.
LEMMA BlastFacts ==
    ASSUME BlastInv, Overlap, OneDispatch PROVE Broadcast!OneMessageEach /\ Broadcast!FinishedIsTrue
<1>1. Broadcast!OneMessageEach BY DEF BlastInv, RowsOK, EachOnce, Broadcast!OneMessageEach
<1>2. Broadcast!FinishedIsTrue BY CountIs DEF OneDispatch, Broadcast!FinishedIsTrue
<1> QED BY <1>1, <1>2

LEMMA CampaignType == ASSUME WizardInv, BlastInv, Overlap, OneDispatch PROVE Broadcast!TypeOK
<1>1. wizard \in BOOLEAN /\ paused \in BOOLEAN BY Zenon DEF WizardInv, WizardFlags
<1>2. /\ campaigns \subseteq Name /\ name \in Name /\ audience \in Segment /\ template \in Broadcast!Template
      /\ throttle \in Throttle /\ schedule \in Broadcast!Schedule /\ state \in {"DRAFT", "DISPATCHING", "COMPLETED"}
      /\ typed \in Name \cup {""} /\ step \in 1 .. 9
  BY Zenon DEF WizardInv, WizardTypes, StepOK
<1>3. telemetry \in [total : Segment, sent : 0 .. Broadcast!Max(Segment), delivered : 0 .. Broadcast!Max(Segment),
                     read : 0 .. Broadcast!Max(Segment), failed : 0 .. Broadcast!Max(Segment)]
  BY TelemetryType
<1>4. /\ blast \in {"PARSING", "CATEGORIZED", "DISPATCHING", "FINISHED"} /\ dispatched \in 0 .. MaxRow /\ files \in 0 .. MaxFile
      /\ \A i \in 1 .. Len(lines) : lines[i].phone \in Phone /\ lines[i].status \in Broadcast!Category
  BY Zenon DEF BlastInv, RowsOK
<1>5. Len(lines) <= MaxRow BY DEF BlastInv, RowsOK
<1>6. \A t \in intervals : t.count < t.total BY Zenon DEF BlastInv, IsTimer
<1>7. Broadcast!Cardinality(loads) <= MaxFile
  <2>1. files \in Nat /\ files <= MaxFile /\ loads \subseteq 1 .. files BY CampaignAssumption DEF BlastInv
  <2>2. IsFiniteSet(1 .. files) /\ Cardinality(1 .. files) = files
    <3>1. 1 \in Int /\ files \in Int BY <2>1
    <3>2. IsFiniteSet(1 .. files) /\ Cardinality(1 .. files) = IF 1 > files THEN 0 ELSE files - 1 + 1 BY <3>1, FS_Interval
    <3> QED BY <2>1, <3>2
  <2>3. IsFiniteSet(loads) /\ Cardinality(loads) <= files BY <2>1, <2>2, FS_Subset
  <2>4. Cardinality(loads) \in Nat BY <2>3, FS_CardinalityType
  <2>5. Cardinality(loads) <= MaxFile BY <2>1, <2>3, <2>4, CampaignAssumption
  <2> QED BY <2>5, CountIs
<1>8. overlapped \in BOOLEAN BY Zenon DEF Overlap
<1> QED BY <1>1, <1>2, <1>3, <1>4, <1>5, <1>6, <1>7, <1>8, Zenon DEF Broadcast!TypeOK


-----------------------------------------------------------------------------
(* The preview of an agent *)

Shaped(c) == c = [status |-> c.status, silenced |-> c.silenced, assigned |-> c.assigned, aiMessageCount |-> c.aiMessageCount,
                  welcomed |-> c.welcomed, labels |-> c.labels, pipelineStatus |-> c.pipelineStatus]

\* A chat that was handed over silently is pending.
ChatOK(c) ==
    /\ Shaped(c) /\ c.aiMessageCount \in Nat /\ c.pipelineStatus \in Nat
    /\ c.silenced => c.status = "PENDING"

Entry == [role : {"customer", "ai"}, session : Nat, n : Nat, said : Message \cup {Preview!Empty}]

PreviewInv ==
    /\ general \in Setting /\ ChatOK(chat) /\ entries \in Seq(Entry) /\ chatSession \in Nat /\ turns \in Nat

\* What AgentKeepsToSettings says of a step.
SettingsKept ==
    /\ chat.silenced /\ chat'.silenced => Len(entries') <= Len(entries) \/ turns' # turns
    /\ chatSession' = chatSession => chat'.pipelineStatus >= chat.pipelineStatus /\ chat.labels \subseteq chat'.labels
    /\ chat'.aiMessageCount > chat.aiMessageCount => chat.aiMessageCount < general.messageLimit

\* A set of numbers with a bound has a largest one.
LEMMA LargestBelow == ASSUME NEW N \in Nat, NEW T, T \subseteq 0 .. N, T # {} PROVE \E x \in T : \A y \in T : y <= x
<1> DEFINE U == {N - x : x \in T}
<1>0. \A x \in T : x \in Int /\ x <= N /\ N - x \in Nat OBVIOUS
<1>1. U \subseteq Nat /\ U # {}
  <2>1. PICK x \in T : TRUE OBVIOUS
  <2>2. N - x \in U OBVIOUS
  <2> QED BY <1>0, <2>2
<1>2. PICK u \in U : \A v \in U : u <= v BY <1>1, LeastNatural
<1>3. PICK x \in T : u = N - x BY <1>2
<1>4. ASSUME NEW y \in T PROVE y <= x
  <2>1. N - y \in U OBVIOUS
  <2>2. N - x <= N - y BY <2>1, <1>2, <1>3
  <2>3. x \in Int /\ y \in Int OBVIOUS
  <2> QED BY <2>2, <2>3
<1> QED BY <1>4

\* Labels are added and the status moves on.
LEMMA ActionsMoveOn ==
    ASSUME NEW g \in Setting, NEW c, ChatOK(c), NEW text
    PROVE  LET d == Preview!applyActions(g, c, text)
           IN  /\ ChatOK(d) /\ d.pipelineStatus >= c.pipelineStatus /\ c.labels \subseteq d.labels
               /\ d.aiMessageCount = c.aiMessageCount /\ d.silenced = c.silenced /\ d.status = c.status
<1> DEFINE ahead == Preview!Ahead(g, c, text)
           l == c.labels \cup {x \in g.labels : \E m \in text : x \in m.labels}
           p == IF ahead = {} THEN c.pipelineStatus ELSE Preview!Max(ahead)
           d == Preview!applyActions(g, c, text)
<1>1. d = [status |-> c.status, silenced |-> c.silenced, assigned |-> c.assigned, aiMessageCount |-> c.aiMessageCount,
           welcomed |-> c.welcomed, labels |-> l, pipelineStatus |-> p]
  <2> HIDE DEF ahead
  <2>1. d = [c EXCEPT !.labels = l, !.pipelineStatus = p] BY DEF Preview!applyActions, ahead
  <2> HIDE DEF d, l, p
  <2> QED BY <2>1 DEF ChatOK, Shaped
<1>2. p \in Nat /\ p >= c.pipelineStatus
  <2>1. CASE ahead = {} BY <2>1 DEF ChatOK
  <2>2. CASE ahead # {}
    <3>1. PICK n \in g.statuses \cup {0} : \A x \in g.statuses : x <= n BY SettingAssumption
    <3>2. n \in Nat /\ ahead \subseteq 0 .. n BY <3>1, SettingAssumption DEF Preview!Ahead
    <3>3. \E x \in ahead : \A y \in ahead : y <= x BY <2>2, <3>2, LargestBelow
    <3>4. \A x, y \in ahead : y <= x <=> x >= y BY <3>2
    <3>5. Preview!Max(ahead) \in ahead BY <3>3, <3>4 DEF Preview!Max
    <3>6. p \in ahead BY <2>2, <3>5
    <3>7. \A x \in ahead : x > Preview!Max({1, c.pipelineStatus}) BY DEF Preview!Ahead
    <3>8. Preview!Max({1, c.pipelineStatus}) \in Nat /\ Preview!Max({1, c.pipelineStatus}) >= c.pipelineStatus
      BY DEF Preview!Max, ChatOK
    <3> HIDE DEF p
    <3>9. p > Preview!Max({1, c.pipelineStatus}) /\ p \in Nat BY <3>2, <3>6, <3>7
    <3> QED BY <3>8, <3>9 DEF ChatOK
  <2> QED BY <2>1, <2>2
<1> HIDE DEF p, d
<1>3. l \subseteq l /\ c.labels \subseteq l OBVIOUS
<1> HIDE DEF l
<1>4. /\ Shaped(d) /\ d.aiMessageCount = c.aiMessageCount /\ d.silenced = c.silenced /\ d.status = c.status
      /\ d.labels = l /\ d.pipelineStatus = p
  BY <1>1 DEF Shaped
<1> QED BY <1>2, <1>3, <1>4 DEF ChatOK, d

\* What the engine may answer: nothing while the chat is silenced, nothing counted over the limit.
Obeys(g, c, r) ==
    /\ ChatOK(r.chat) /\ r.replies \in Nat
    /\ c.silenced => r.replies = 0
    /\ r.chat.pipelineStatus >= c.pipelineStatus /\ c.labels \subseteq r.chat.labels
    /\ r.chat.aiMessageCount > c.aiMessageCount => c.aiMessageCount < g.messageLimit

\* Chats that differ in some fields only.
LEMMA WelcomedChat ==
    ASSUME NEW c, Shaped(c), NEW b, NEW d, d = [c EXCEPT !.welcomed = b]
    PROVE  /\ Shaped(d) /\ d.status = c.status /\ d.silenced = c.silenced /\ d.aiMessageCount = c.aiMessageCount
           /\ d.labels = c.labels /\ d.pipelineStatus = c.pipelineStatus
<1>1. d = [status |-> c.status, silenced |-> c.silenced, assigned |-> c.assigned, aiMessageCount |-> c.aiMessageCount,
           welcomed |-> b, labels |-> c.labels, pipelineStatus |-> c.pipelineStatus]
  BY DEF Shaped
<1> QED BY <1>1 DEF Shaped

LEMMA CountedChat ==
    ASSUME NEW c, Shaped(c), NEW n, NEW d, d = [c EXCEPT !.aiMessageCount = n]
    PROVE  /\ Shaped(d) /\ d.status = c.status /\ d.silenced = c.silenced /\ d.aiMessageCount = n
           /\ d.labels = c.labels /\ d.pipelineStatus = c.pipelineStatus
<1>1. d = [status |-> c.status, silenced |-> c.silenced, assigned |-> c.assigned, aiMessageCount |-> n,
           welcomed |-> c.welcomed, labels |-> c.labels, pipelineStatus |-> c.pipelineStatus]
  BY DEF Shaped
<1> QED BY <1>1 DEF Shaped

LEMMA PendingChat ==
    ASSUME NEW c, Shaped(c), NEW s, NEW d, d = [c EXCEPT !.status = s]
    PROVE  /\ Shaped(d) /\ d.status = s /\ d.silenced = c.silenced /\ d.aiMessageCount = c.aiMessageCount
           /\ d.labels = c.labels /\ d.pipelineStatus = c.pipelineStatus
<1>1. d = [status |-> s, silenced |-> c.silenced, assigned |-> c.assigned, aiMessageCount |-> c.aiMessageCount,
           welcomed |-> c.welcomed, labels |-> c.labels, pipelineStatus |-> c.pipelineStatus]
  BY DEF Shaped
<1> QED BY <1>1 DEF Shaped

\* The engine obeys.
LEMMA EngineObeys ==
    ASSUME NEW g \in Setting, NEW c, ChatOK(c), NEW text, NEW history,
           NEW r \in Preview!runPreviewEngine(g, c, text, history)
    PROVE  Obeys(g, c, r)
<1> DEFINE a == Preview!applyActions(g, c, text)
<1>1. /\ ChatOK(a) /\ a.pipelineStatus >= c.pipelineStatus /\ c.labels \subseteq a.labels
      /\ a.aiMessageCount = c.aiMessageCount /\ a.silenced = c.silenced /\ a.status = c.status
  BY ActionsMoveOn
<1>2. c.aiMessageCount \in Nat /\ c.pipelineStatus \in Nat /\ g.messageLimit \in Nat BY SettingAssumption DEF ChatOK
<1>3. CASE Preview!Waits(g, c)
  <2>1. r = [chat |-> a, replies |-> IF c.silenced THEN 0 ELSE 1, about |-> "none"]
    BY <1>3 DEF Preview!runPreviewEngine, Preview!Result
  <2> HIDE DEF a
  <2>2. r.chat = a /\ r.replies = (IF c.silenced THEN 0 ELSE 1) BY <2>1
  <2> QED BY <1>1, <1>2, <2>2 DEF Obeys
<1>4. CASE ~Preview!Waits(g, c) /\ Preview!LimitReached(g, c)
  <2>1. r = [chat |-> c, replies |-> 0, about |-> "none"] BY <1>4 DEF Preview!runPreviewEngine, Preview!Result
  <2>2. r.chat = c /\ r.replies = 0 BY <2>1
  <2> QED BY <1>2, <2>2 DEF Obeys
<1>5. CASE ~Preview!Waits(g, c) /\ ~Preview!LimitReached(g, c)
  <2> DEFINE welcome == IF c.welcomed \/ ~g.welcome THEN 0 ELSE 1
             acted == [a EXCEPT !.welcomed = TRUE]
             counted == [acted EXCEPT !.aiMessageCount = @ + 1]
             silent == [acted EXCEPT !.status = "PENDING", !.silenced = TRUE]
             handed == [counted EXCEPT !.status = "PENDING"]
             results ==
                 IF c.status = "OPEN" /\ Preview!matchesConditions(text)
                 THEN IF g.silentHandoff THEN {Preview!Result(silent, welcome, "none")}
                      ELSE {Preview!Result(handed, welcome + 1, "none")}
                 ELSE IF Preview!isGreetingOnly(text)
                 THEN IF welcome = 1 THEN {Preview!Result(acted, 1, "none")} ELSE {Preview!Result(counted, 1, "none")}
                 ELSE IF Preview!isThanks(text) THEN {Preview!Result(counted, welcome + 1, "none")}
                 ELSE {Preview!Result(counted, welcome + 1, t) : t \in Preview!rankKnowledge(g, text, history)}
  <2>1. c.aiMessageCount < g.messageLimit BY <1>2, <1>5 DEF Preview!LimitReached
  <2>2. ~c.silenced BY <1>5 DEF Preview!Waits, ChatOK
  <2>0. r \in results BY <1>5, Zenon DEF Preview!runPreviewEngine
  <2>4. welcome \in Nat OBVIOUS
  <2> HIDE DEF a, welcome, acted, counted, silent, handed
  <2>3. PICK x \in {silent, handed, acted, counted}, n \in Nat : r.chat = x /\ r.replies = n
    <3>1. \E b : \E x \in {silent, handed, acted, counted}, n \in Nat : r = Preview!Result(x, n, b) BY <2>0, <2>4
    <3> QED BY <3>1 DEF Preview!Result
  <2>5. /\ Shaped(acted) /\ acted.status = a.status /\ acted.silenced = a.silenced
        /\ acted.aiMessageCount = a.aiMessageCount /\ acted.labels = a.labels /\ acted.pipelineStatus = a.pipelineStatus
    BY <1>1, WelcomedChat DEF ChatOK, acted
  <2>6. /\ Shaped(counted) /\ counted.status = a.status /\ counted.silenced = a.silenced
        /\ counted.aiMessageCount = a.aiMessageCount + 1 /\ counted.labels = a.labels
        /\ counted.pipelineStatus = a.pipelineStatus
    <3>1. counted = [acted EXCEPT !.aiMessageCount = a.aiMessageCount + 1] BY <2>5 DEF counted
    <3> QED BY <2>5, <3>1, CountedChat
  <2>7. /\ Shaped(silent) /\ silent.status = "PENDING" /\ silent.aiMessageCount = a.aiMessageCount
        /\ silent.labels = a.labels /\ silent.pipelineStatus = a.pipelineStatus
    <3>1. PICK b : silent = [acted EXCEPT !.status = "PENDING", !.silenced = b] BY Zenon DEF silent
    <3>2. Shaped(silent) /\ silent.status = "PENDING" /\ silent.aiMessageCount = acted.aiMessageCount
          /\ silent.labels = acted.labels /\ silent.pipelineStatus = acted.pipelineStatus
      <4>1. silent = [status |-> "PENDING", silenced |-> b, assigned |-> acted.assigned,
                      aiMessageCount |-> acted.aiMessageCount, welcomed |-> acted.welcomed, labels |-> acted.labels,
                      pipelineStatus |-> acted.pipelineStatus]
        BY <2>5, <3>1 DEF Shaped
      <4> QED BY <4>1 DEF Shaped
    <3> QED BY <2>5, <3>2
  <2>8. /\ Shaped(handed) /\ handed.status = "PENDING" /\ handed.aiMessageCount = a.aiMessageCount + 1
        /\ handed.labels = a.labels /\ handed.pipelineStatus = a.pipelineStatus
    BY <2>6, PendingChat DEF handed
  <2>10. /\ Shaped(x) /\ x.aiMessageCount \in Nat /\ x.pipelineStatus = a.pipelineStatus /\ x.labels = a.labels
         /\ x.status = "PENDING" \/ (x.status = a.status /\ x.silenced = a.silenced)
    <3>1. a.aiMessageCount \in Nat BY <1>1 DEF ChatOK
    <3> QED BY <2>3, <2>5, <2>6, <2>7, <2>8, <3>1
  <2>11. x.silenced => x.status = "PENDING" BY <1>1, <2>2, <2>10
  <2>9. ChatOK(r.chat) /\ r.replies \in Nat /\ r.chat.pipelineStatus = a.pipelineStatus /\ r.chat.labels = a.labels
    BY <1>1, <2>3, <2>10, <2>11 DEF ChatOK
  <2> QED BY <1>1, <2>1, <2>2, <2>9 DEF Obeys
<1> QED BY <1>3, <1>4, <1>5


\* The chat starts open and empty.
LEMMA PreviewInit == ASSUME Preview!Init PROVE PreviewInv
<1>1. ~Preview!initialConversationState.silenced /\ Shaped(Preview!initialConversationState)
      /\ Preview!initialConversationState.aiMessageCount = 0 /\ Preview!initialConversationState.pipelineStatus = 0
  BY DEF Preview!initialConversationState, Shaped
<1> QED BY <1>1 DEF Preview!Init, PreviewInv, ChatOK

\* The timer fires: the agent answers as the settings of the moment allow.
LEMMA RespondStep == ASSUME PreviewInv, Preview!respond PROVE PreviewInv' /\ SettingsKept
<1> DEFINE history == Preview!Earlier(Preview!InMemory(general, entries, chatSession), queue)
<1>1. PICK r \in Preview!runPreviewEngine(general, chat, Preview!Said(queue), history) :
         /\ chat' = r.chat
         /\ entries' = entries \o [i \in 1 .. r.replies |->
                                     [role |-> "ai", session |-> chatSession, n |-> 0, said |-> Preview!Empty]]
  BY DEF Preview!respond
<1>2. UNCHANGED <<general, chatSession, turns>> BY DEF Preview!respond
<1>3. Obeys(general, chat, r) BY EngineObeys DEF PreviewInv
<1> DEFINE e == [role |-> "ai", session |-> chatSession, n |-> 0, said |-> Preview!Empty]
           new == [i \in 1 .. r.replies |-> e]
<1>4. e \in Entry BY DEF PreviewInv, Entry
<1> HIDE DEF e
<1>5. new \in Seq(Entry) /\ Len(new) = r.replies
  <2>1. r.replies \in Nat BY <1>3 DEF Obeys
  <2> QED BY <1>4, <2>1
<1>6. entries' = entries \o new BY <1>1 DEF e
<1> HIDE DEF new
<1>7. entries' \in Seq(Entry) /\ Len(entries') = Len(entries) + r.replies
  <2>1. entries \in Seq(Entry) BY DEF PreviewInv
  <2> HIDE DEF Entry
  <2> QED BY <1>5, <1>6, <2>1
<1>8. PreviewInv' BY <1>1, <1>2, <1>3, <1>7 DEF PreviewInv, Obeys, ChatOK, Shaped
<1>9. SettingsKept BY <1>1, <1>3, <1>7 DEF PreviewInv, SettingsKept, Obeys
<1> QED BY <1>8, <1>9

\* What the customer, the tester and the settings form do.
LEMMA ChatSteps ==
    ASSUME PreviewInv,
           \/ Preview!resolve \/ Preview!ToggleAssigned
           \/ \E m \in Message : Preview!send(m)
           \/ \E g \in Setting : Preview!ChangeSetting(g)
    PROVE  PreviewInv' /\ SettingsKept
<1>0. ChatOK(chat) /\ chat.aiMessageCount \in Nat /\ chat.pipelineStatus \in Nat /\ Len(entries) \in Nat
  BY DEF PreviewInv, ChatOK
<1>1. CASE Preview!resolve
  <2>1. chatSession' = chatSession + 1 /\ entries' \in {entries, <<>>} /\ chat' = Preview!initialConversationState
        /\ UNCHANGED <<general, turns>>
    BY <1>1 DEF Preview!resolve
  <2>2. /\ ~Preview!initialConversationState.silenced /\ Shaped(Preview!initialConversationState)
        /\ Preview!initialConversationState.aiMessageCount = 0 /\ Preview!initialConversationState.pipelineStatus = 0
    BY DEF Preview!initialConversationState, Shaped
  <2>3. ChatOK(chat') BY <2>1, <2>2 DEF ChatOK
  <2>6. entries' \in Seq(Entry)
    <3>1. CASE entries' = entries BY <3>1 DEF PreviewInv
    <3>2. CASE entries' = <<>> BY <3>2
    <3> QED BY <2>1, <3>1, <3>2
  <2>4. PreviewInv' BY <2>1, <2>3, <2>6 DEF PreviewInv, ChatOK, Shaped
  <2>5. ~chat'.silenced /\ chat'.aiMessageCount = 0 /\ chatSession' # chatSession BY <2>1, <2>2 DEF PreviewInv
  <2> QED BY <1>0, <2>4, <2>5 DEF SettingsKept
<1>2. CASE Preview!ToggleAssigned
  <2>1. PICK b : chat' = [chat EXCEPT !.assigned = b] BY <1>2, Zenon DEF Preview!ToggleAssigned
  <2>2. chat' = [status |-> chat.status, silenced |-> chat.silenced, assigned |-> b, aiMessageCount |-> chat.aiMessageCount,
                 welcomed |-> chat.welcomed, labels |-> chat.labels, pipelineStatus |-> chat.pipelineStatus]
    BY <1>0, <2>1 DEF ChatOK, Shaped
  <2>3. UNCHANGED <<general, entries, chatSession, turns>> BY <1>2 DEF Preview!ToggleAssigned
  <2>4. /\ chat'.silenced = chat.silenced /\ chat'.status = chat.status /\ chat'.aiMessageCount = chat.aiMessageCount
        /\ chat'.labels = chat.labels /\ chat'.pipelineStatus = chat.pipelineStatus /\ Shaped(chat')
    BY <2>2 DEF Shaped
  <2>5. PreviewInv' BY <1>0, <2>3, <2>4 DEF PreviewInv, ChatOK, Shaped
  <2> QED BY <1>0, <2>3, <2>4, <2>5 DEF SettingsKept
<1>3. CASE \E m \in Message : Preview!send(m)
  <2>1. PICK m \in Message : Preview!send(m) BY <1>3
  <2>2. turns' = turns + 1 /\ UNCHANGED <<general, chat, chatSession>>
        /\ entries' = Append(entries, [role |-> "customer", session |-> chatSession, n |-> turns + 1, said |-> m])
    BY <2>1 DEF Preview!send
  <2>3. [role |-> "customer", session |-> chatSession, n |-> turns + 1, said |-> m] \in Entry BY DEF PreviewInv, Entry
  <2>4. entries' \in Seq(Entry) BY <2>2, <2>3 DEF PreviewInv
  <2>5. PreviewInv' BY <1>0, <2>2, <2>4 DEF PreviewInv, ChatOK, Shaped
  <2>6. turns' # turns BY <2>2 DEF PreviewInv
  <2> QED BY <1>0, <2>2, <2>5, <2>6 DEF SettingsKept
<1>4. CASE \E g \in Setting : Preview!ChangeSetting(g)
  <2>1. general' \in Setting /\ UNCHANGED <<chat, entries, chatSession, turns>> BY <1>4 DEF Preview!ChangeSetting
  <2>2. PreviewInv' BY <1>0, <2>1 DEF PreviewInv, ChatOK, Shaped
  <2> QED BY <1>0, <2>1, <2>2 DEF SettingsKept
<1> QED BY <1>1, <1>2, <1>3, <1>4

\* Every step of the preview.
LEMMA PreviewNext == ASSUME PreviewInv, Preview!Next PROVE PreviewInv' /\ SettingsKept
BY RespondStep, ChatSteps DEF Preview!Next


Flags(c) ==
    c.status \in {"OPEN", "PENDING"} /\ c.silenced \in BOOLEAN /\ c.assigned \in BOOLEAN /\ c.welcomed \in BOOLEAN

\* Messages of customers are told apart by their number.
Numbered(es, s, t) ==
    /\ es \in Seq(Entry)
    /\ \A i \in 1 .. Len(es) :
         /\ es[i].session >= 1 /\ es[i].session <= s /\ es[i].n <= t
         /\ es[i].role = "customer" => \A j \in 1 .. Len(es) : es[j] = es[i] => j = i

\* The messages that wait are the last ones, and of this session.
Waiting(q, es, s) ==
    /\ q \in Seq(Entry) /\ Len(q) <= Len(es)
    /\ \A i \in 1 .. Len(q) : /\ q[i] = es[Len(es) - Len(q) + i]
                              /\ q[i].role = "customer" /\ q[i].session = s /\ q[i].said \in Message

\* A message that waits will be counted at most once.
Pending == IF timer THEN 1 ELSE 0

MemoryInv ==
    /\ Flags(chat) /\ timer \in BOOLEAN /\ Preview!QueueIsTimed /\ chat.aiMessageCount + Pending <= turns
    /\ chatSession \in 1 .. MaxSession /\ turns \in 0 .. MaxTurn
    /\ Numbered(entries, chatSession, turns) /\ Waiting(queue, entries, chatSession)
    /\ Preview!AnswersFromMemory

\* A message is added.
LEMMA NumberedAppend ==
    ASSUME NEW es, NEW s \in Nat \ {0}, NEW t \in Nat, Numbered(es, s, t),
           NEW e \in Entry, e.session = s, e.n = t + 1
    PROVE  Numbered(Append(es, e), s, t + 1)
<1> DEFINE fs == Append(es, e)
<1>1. es \in Seq(Entry) BY DEF Numbered
<1>0. Len(es) \in Nat BY <1>1
<1>2. fs \in Seq(Entry) /\ Len(fs) = Len(es) + 1 /\ fs[Len(es) + 1] = e /\ \A i \in 1 .. Len(es) : fs[i] = es[i]
  <2> HIDE DEF Entry
  <2> QED BY <1>1
<1> HIDE DEF fs
<1>3. \A i \in 1 .. Len(es) : /\ es[i] \in Entry /\ es[i].session >= 1 /\ es[i].session <= s /\ es[i].n <= t
                              /\ es[i].role = "customer" => \A j \in 1 .. Len(es) : es[j] = es[i] => j = i
  <2>1. \A i \in 1 .. Len(es) : es[i] \in Entry
    <3> HIDE DEF Entry
    <3> QED BY <1>1
  <2> QED BY <2>1, Zenon DEF Numbered
<1>4. ASSUME NEW i \in 1 .. Len(es) PROVE es[i].n \in Nat /\ es[i].n <= t + 1 /\ es[i] # e
  <2>1. es[i].n \in Nat BY <1>3 DEF Entry
  <2>2. es[i].n <= t BY <1>3, Zenon
  <2> QED BY <2>1, <2>2
<1>5. ASSUME NEW i \in 1 .. Len(fs)
      PROVE  /\ fs[i].session >= 1 /\ fs[i].session <= s /\ fs[i].n <= t + 1
             /\ fs[i].role = "customer" => \A j \in 1 .. Len(fs) : fs[j] = fs[i] => j = i
  <2>0. \A j \in 1 .. Len(fs) : j \in 1 .. Len(es) \/ j = Len(es) + 1 BY <1>0, <1>2
  <2>1. CASE i = Len(es) + 1
    <3>1. \A j \in 1 .. Len(fs) : fs[j] = fs[i] => j = i BY <1>2, <1>4, <2>0, <2>1, Zenon
    <3>2. fs[i] = e BY <1>2, <2>1, Zenon
    <3>3. fs[i].session >= 1 /\ fs[i].session <= s /\ fs[i].n <= t + 1 BY <3>2
    <3> QED BY <3>1, <3>3
  <2>2. CASE i \in 1 .. Len(es)
    <3>1. fs[i] = es[i] BY <1>2, <2>2, Zenon
    <3>2. fs[i].session >= 1 /\ fs[i].session <= s /\ fs[i].n <= t + 1 BY <1>3, <1>4, <2>2, <3>1, Zenon
    <3>3. fs[i].role = "customer" => \A j \in 1 .. Len(fs) : fs[j] = fs[i] => j = i
      BY <1>2, <1>3, <1>4, <2>0, <2>2, <3>1, Zenon
    <3> QED BY <3>2, <3>3
  <2> QED BY <2>0, <2>1, <2>2
<1> QED BY <1>2, <1>5, Zenon DEF Numbered, fs

\* The agent's answers are added.
LEMMA NumberedAnswers ==
    ASSUME NEW es, NEW s \in Nat \ {0}, NEW t \in Nat, Numbered(es, s, t), NEW new \in Seq(Entry),
           \A i \in 1 .. Len(new) : new[i].role = "ai" /\ new[i].session = s /\ new[i].n = 0
    PROVE  Numbered(es \o new, s, t)
<1> DEFINE fs == es \o new
<1>1. es \in Seq(Entry) BY DEF Numbered
<1>0. Len(es) \in Nat /\ Len(new) \in Nat BY <1>1
<1>2. /\ fs \in Seq(Entry) /\ Len(fs) = Len(es) + Len(new) /\ \A i \in 1 .. Len(es) : fs[i] = es[i]
      /\ \A i \in 1 .. Len(fs) : i \in 1 .. Len(es) \/ (i - Len(es) \in 1 .. Len(new) /\ fs[i] = new[i - Len(es)])
  <2> HIDE DEF Entry
  <2> QED BY <1>1
<1> HIDE DEF fs
<1>3. \A i \in 1 .. Len(es) : /\ es[i].session >= 1 /\ es[i].session <= s /\ es[i].n <= t
                              /\ es[i].role = "customer" => \A j \in 1 .. Len(es) : es[j] = es[i] => j = i
  BY Zenon DEF Numbered
<1>4. ASSUME NEW i \in 1 .. Len(fs), i \notin 1 .. Len(es)
      PROVE  fs[i].role = "ai" /\ fs[i].session = s /\ fs[i].n = 0
  BY <1>2, <1>4, Zenon
<1>5. ASSUME NEW i \in 1 .. Len(fs)
      PROVE  /\ fs[i].session >= 1 /\ fs[i].session <= s /\ fs[i].n <= t
             /\ fs[i].role = "customer" => \A j \in 1 .. Len(fs) : fs[j] = fs[i] => j = i
  <2>0. "ai" # "customer" OBVIOUS
  <2>1. CASE i \notin 1 .. Len(es)
    <3>1. fs[i].role = "ai" /\ fs[i].session = s /\ fs[i].n = 0 BY <1>4, <2>1
    <3> QED BY <3>1
  <2>2. CASE i \in 1 .. Len(es)
    <3>1. fs[i] = es[i] BY <1>2, <2>2, Zenon
    <3>2. fs[i].session >= 1 /\ fs[i].session <= s /\ fs[i].n <= t BY <1>3, <2>2, <3>1, Zenon
    <3>3. fs[i].role = "customer" => \A j \in 1 .. Len(fs) : fs[j] = fs[i] => j = i
      BY <1>2, <1>3, <1>4, <2>0, <2>2, <3>1, Zenon
    <3> QED BY <3>2, <3>3
  <2> QED BY <2>1, <2>2
<1> QED BY <1>2, <1>5, Zenon DEF Numbered, fs

\* A message that is added waits behind the others.
LEMMA WaitingAppend ==
    ASSUME NEW q, NEW es \in Seq(Entry), NEW s, Waiting(q, es, s),
           NEW e \in Entry, e.role = "customer", e.session = s, e.said \in Message
    PROVE  Waiting(Append(q, e), Append(es, e), s)
<1> DEFINE p == Append(q, e)
           fs == Append(es, e)
<1>1. q \in Seq(Entry) /\ Len(q) <= Len(es) BY DEF Waiting
<1>0. Len(es) \in Nat /\ Len(q) \in Nat BY <1>1
<1>2. /\ p \in Seq(Entry) /\ Len(p) = Len(q) + 1 /\ p[Len(q) + 1] = e /\ \A i \in 1 .. Len(q) : p[i] = q[i]
      /\ fs \in Seq(Entry) /\ Len(fs) = Len(es) + 1 /\ fs[Len(es) + 1] = e /\ \A i \in 1 .. Len(es) : fs[i] = es[i]
  <2> HIDE DEF Entry
  <2> QED BY <1>1
<1> HIDE DEF p, fs
<1>3. ASSUME NEW i \in 1 .. Len(p)
      PROVE  p[i] = fs[Len(fs) - Len(p) + i] /\ p[i].role = "customer" /\ p[i].session = s /\ p[i].said \in Message
  <2>1. CASE i = Len(q) + 1
    <3>1. Len(fs) - Len(p) + i = Len(es) + 1 BY <1>0, <1>2, <2>1
    <3> QED BY <1>2, <2>1, <3>1, Zenon
  <2>2. CASE i \in 1 .. Len(q)
    <3>1. q[i] = es[Len(es) - Len(q) + i] /\ q[i].role = "customer" /\ q[i].session = s /\ q[i].said \in Message
      BY <2>2, Zenon DEF Waiting
    <3>2. PICK k : k = Len(es) - Len(q) + i OBVIOUS
    <3>3. k \in 1 .. Len(es) /\ Len(fs) - Len(p) + i = k BY <1>0, <1>1, <1>2, <2>2, <3>2
    <3> QED BY <1>2, <2>2, <3>1, <3>2, <3>3, Zenon
  <2> QED BY <1>0, <1>2, <2>1, <2>2
<1>4. Len(p) <= Len(fs) BY <1>0, <1>1, <1>2
<1> QED BY <1>2, <1>3, <1>4, Zenon DEF Waiting, p, fs

\* No message waits after an answer.
LEMMA WaitingNone == ASSUME NEW es \in Seq(Entry), NEW s PROVE Waiting(<<>>, es, s)
<1>1. <<>> \in Seq(Entry) /\ Len(<<>>) = 0 /\ Len(es) \in Nat OBVIOUS
<1> QED BY <1>1 DEF Waiting

Fields(s, b1, b2, n, b3, l, p) ==
    [status |-> s, silenced |-> b1, assigned |-> b2, aiMessageCount |-> n, welcomed |-> b3, labels |-> l,
     pipelineStatus |-> p]

\* A chat after n answers.
Answered(d, n) == Shaped(d) /\ Flags(d) /\ d.aiMessageCount = n

\* A chat is its fields.
LEMMA FlagsOf ==
    ASSUME NEW s \in {"OPEN", "PENDING"}, NEW b1 \in BOOLEAN, NEW b2 \in BOOLEAN, NEW b3 \in BOOLEAN, NEW n, NEW l, NEW p
    PROVE  Answered(Fields(s, b1, b2, n, b3, l, p), n)
<1> DEFINE d == Fields(s, b1, b2, n, b3, l, p)
<1>1. /\ d.status = s /\ d.silenced = b1 /\ d.assigned = b2 /\ d.aiMessageCount = n /\ d.welcomed = b3 /\ d.labels = l
      /\ d.pipelineStatus = p
  BY DEF Fields
<1>2. d = [status |-> s, silenced |-> b1, assigned |-> b2, aiMessageCount |-> n, welcomed |-> b3, labels |-> l,
           pipelineStatus |-> p]
  BY DEF Fields
<1> HIDE DEF d
<1>3. Shaped(d) BY <1>1, <1>2, Zenon DEF Shaped
<1>4. Flags(d) BY <1>1, Zenon DEF Flags
<1> QED BY <1>1, <1>3, <1>4, Zenon DEF Answered, d

\* What the engine changes of a chat.
LEMMA FlagsKept ==
    ASSUME NEW c, NEW k, Answered(c, k), NEW b \in BOOLEAN, NEW s \in {"OPEN", "PENDING"}, NEW n, NEW l, NEW p
    PROVE  /\ Answered([c EXCEPT !.labels = l, !.pipelineStatus = p], k)
           /\ Answered([c EXCEPT !.welcomed = b], k)
           /\ Answered([c EXCEPT !.aiMessageCount = n], n)
           /\ Answered([c EXCEPT !.status = s], k)
           /\ Answered([c EXCEPT !.assigned = b], k)
           /\ Answered([c EXCEPT !.status = s, !.silenced = b], k)
<1>1. PICK s0 \in {"OPEN", "PENDING"}, b1 \in BOOLEAN, b2 \in BOOLEAN, b3 \in BOOLEAN :
        s0 = c.status /\ b1 = c.silenced /\ b2 = c.assigned /\ b3 = c.welcomed
  BY Zenon DEF Answered, Flags
<1>2. PICK l0, p0 : l0 = c.labels /\ p0 = c.pipelineStatus OBVIOUS
<1>3. c = Fields(s0, b1, b2, k, b3, l0, p0) BY <1>1, <1>2, Zenon DEF Answered, Shaped, Fields
<1>4. [c EXCEPT !.labels = l, !.pipelineStatus = p] = Fields(s0, b1, b2, k, b3, l, p)
  <2>1. PICK e : e = [c EXCEPT !.labels = l] OBVIOUS
  <2>2. e = Fields(s0, b1, b2, k, b3, l, p0) BY <1>3, <2>1 DEF Fields
  <2>3. [e EXCEPT !.pipelineStatus = p] = Fields(s0, b1, b2, k, b3, l, p) BY <2>2 DEF Fields
  <2> QED BY <2>1, <2>3, Zenon
<1>5. [c EXCEPT !.welcomed = b] = Fields(s0, b1, b2, k, b, l0, p0) BY <1>3 DEF Fields
<1>6. [c EXCEPT !.aiMessageCount = n] = Fields(s0, b1, b2, n, b3, l0, p0) BY <1>3 DEF Fields
<1>7. [c EXCEPT !.status = s] = Fields(s, b1, b2, k, b3, l0, p0) BY <1>3 DEF Fields
<1>8. [c EXCEPT !.assigned = b] = Fields(s0, b1, b, k, b3, l0, p0) BY <1>3 DEF Fields
<1>9. [c EXCEPT !.status = s, !.silenced = b] = Fields(s, b, b2, k, b3, l0, p0)
  <2>1. PICK e : e = [c EXCEPT !.status = s] OBVIOUS
  <2>2. e = Fields(s, b1, b2, k, b3, l0, p0) BY <1>3, <2>1 DEF Fields
  <2>3. [e EXCEPT !.silenced = b] = Fields(s, b, b2, k, b3, l0, p0) BY <2>2 DEF Fields
  <2> QED BY <2>1, <2>3, Zenon
<1>10. /\ Answered(Fields(s0, b1, b2, k, b3, l, p), k) /\ Answered(Fields(s0, b1, b2, k, b, l0, p0), k)
       /\ Answered(Fields(s0, b1, b2, n, b3, l0, p0), n) /\ Answered(Fields(s, b1, b2, k, b3, l0, p0), k)
       /\ Answered(Fields(s0, b1, b, k, b3, l0, p0), k) /\ Answered(Fields(s, b, b2, k, b3, l0, p0), k)
  BY FlagsOf, Zenon
<1> QED BY <1>4, <1>5, <1>6, <1>7, <1>8, <1>9, <1>10, Zenon

\* An answer is one message more, and about what was said or is remembered.
LEMMA EngineAnswers ==
    ASSUME NEW g \in Setting, NEW c, NEW k, Answered(c, k), NEW text, NEW history,
           NEW r \in Preview!runPreviewEngine(g, c, text, history)
    PROVE  /\ Answered(r.chat, k) \/ Answered(r.chat, k + 1)
           /\ \/ r.about = "none" \/ r.about \in Preview!Topics(text)
              \/ r.about \in Preview!Topics(Preview!Remembered(g, history))
<1> DEFINE a == Preview!applyActions(g, c, text)
           acted == [a EXCEPT !.welcomed = TRUE]
           counted == [acted EXCEPT !.aiMessageCount = @ + 1]
           silent == [acted EXCEPT !.status = "PENDING", !.silenced = TRUE]
           handed == [counted EXCEPT !.status = "PENDING"]
           welcome == IF c.welcomed \/ ~g.welcome THEN 0 ELSE 1
           abouts == {"none"} \cup Preview!rankKnowledge(g, text, history)
<1>1. \E x \in {a, c, silent, handed, acted, counted}, n \in {0, 1, welcome, welcome + 1}, t \in abouts :
        r = Preview!Result(x, n, t)
  <2> HIDE DEF acted, counted, silent, handed, welcome, a
  <2>1. CASE Preview!Waits(g, c)
    <3>1. r = Preview!Result(a, IF c.silenced THEN 0 ELSE 1, "none") BY <2>1, Zenon DEF Preview!runPreviewEngine, a
    <3> QED BY <3>1, Zenon
  <2>2. CASE ~Preview!Waits(g, c) /\ Preview!LimitReached(g, c)
    <3>1. r = Preview!Result(c, 0, "none") BY <2>2, Zenon DEF Preview!runPreviewEngine
    <3> QED BY <3>1, Zenon
  <2>3. CASE ~Preview!Waits(g, c) /\ ~Preview!LimitReached(g, c)
    <3>1. \/ r = Preview!Result(silent, welcome, "none") \/ r = Preview!Result(handed, welcome + 1, "none")
          \/ r = Preview!Result(acted, 1, "none") \/ r = Preview!Result(counted, 1, "none")
          \/ r = Preview!Result(counted, welcome + 1, "none")
          \/ \E t \in Preview!rankKnowledge(g, text, history) : r = Preview!Result(counted, welcome + 1, t)
      BY <2>3, Zenon DEF Preview!runPreviewEngine, a, acted, counted, silent, handed, welcome
    <3> QED BY <3>1, Zenon
  <2> QED BY <2>1, <2>2, <2>3, Zenon
<1>2. PICK x \in {a, c, silent, handed, acted, counted}, t \in abouts : r.chat = x /\ r.about = t
  <2> HIDE DEF acted, counted, silent, handed, welcome, a, abouts
  <2>1. PICK x \in {a, c, silent, handed, acted, counted}, t \in abouts : \E n : r = Preview!Result(x, n, t) BY <1>1, Zenon
  <2>2. PICK n : r = Preview!Result(x, n, t) BY <2>1
  <2>3. r.chat = x /\ r.about = t BY <2>2 DEF Preview!Result
  <2> QED BY <2>3
<1>3. Answered(a, k)
  <2>1. PICK l, p : a = [c EXCEPT !.labels = l, !.pipelineStatus = p] BY Zenon DEF Preview!applyActions
  <2> HIDE DEF a
  <2>2. Answered([c EXCEPT !.labels = l, !.pipelineStatus = p], k) BY FlagsKept, Zenon
  <2> QED BY <2>1, <2>2, Zenon
<1> HIDE DEF a
<1>b. TRUE \in BOOLEAN /\ "PENDING" \in {"OPEN", "PENDING"} BY Zenon
<1>4. Answered(acted, k) BY <1>3, <1>b, FlagsKept, Zenon
<1>5. Answered(silent, k)
  <2> HIDE DEF acted
  <2> QED BY <1>4, <1>b, FlagsKept, Zenon
<1>6. Answered(counted, k + 1)
  <2>1. acted.aiMessageCount = k BY <1>4, Zenon DEF Answered
  <2> HIDE DEF acted
  <2>2. counted = [acted EXCEPT !.aiMessageCount = k + 1] BY <2>1, Zenon
  <2>3. Answered([acted EXCEPT !.aiMessageCount = k + 1], k + 1) BY <1>4, <1>b, FlagsKept, Zenon
  <2> QED BY <2>2, <2>3, Zenon
<1>7. Answered(handed, k + 1)
  <2> HIDE DEF counted
  <2> QED BY <1>6, <1>b, FlagsKept, Zenon
<1>8. t = "none" \/ t \in Preview!Topics(text) \/ t \in Preview!Topics(Preview!Remembered(g, history))
  BY <1>2, Zenon DEF Preview!rankKnowledge
<1> HIDE DEF acted, silent, counted, handed, abouts
<1>9. Answered(x, k) \/ Answered(x, k + 1) BY <1>2, <1>3, <1>4, <1>5, <1>6, <1>7, Zenon
<1> QED BY <1>2, <1>8, <1>9, Zenon

LEMMA PlacesCount == \A S : Preview!Cardinality(S) = Cardinality(S)
BY Zenon DEF Preview!Cardinality, Cardinality, Preview!IsFiniteSet, IsFiniteSet

\* The messages that are answered are not history: they are at the last places.
LEMMA NothingTwice ==
    ASSUME Numbered(entries, chatSession, turns), Waiting(queue, entries, chatSession), NEW g
    PROVE  LET history == Preview!Earlier(Preview!InMemory(g, entries, chatSession), queue)
           IN  {entries[i] : i \in history} \cap Preview!Range(queue) = {}
<1> DEFINE known == Preview!InMemory(g, entries, chatSession)
           history == Preview!Earlier(known, queue)
<1>1. entries \in Seq(Entry) /\ queue \in Seq(Entry) /\ Len(queue) <= Len(entries) BY DEF Numbered, Waiting
<1>2. Len(entries) \in Nat /\ Len(queue) \in Nat /\ DOMAIN entries = 1 .. Len(entries) /\ DOMAIN queue = 1 .. Len(queue)
  BY <1>1
<1>3. known \subseteq 1 .. Len(entries) BY <1>2, Zenon DEF Preview!InMemory
<1> HIDE DEF known
<1> HIDE DEF history
<1> SUFFICES ASSUME NEW x, x \in {entries[i] : i \in history}, x \in Preview!Range(queue) PROVE FALSE
  BY Zenon DEF history, known
<1>p. PICK i \in history : entries[i] = x BY Zenon
<1>q. PICK k \in 1 .. Len(queue) : queue[k] = x BY <1>2, Zenon DEF Preview!Range
<1>4. i \in known /\ ~(Preview!Cardinality({j \in known : j > i}) < Len(queue))
  BY Zenon DEF Preview!Earlier, Preview!Latest, history
<1>5. PICK m : m = Len(entries) - Len(queue) + k OBVIOUS
<1>6. m \in 1 .. Len(entries) /\ m > Len(entries) - Len(queue) BY <1>1, <1>2, <1>5
<1>7. queue[k] = entries[m] /\ queue[k].role = "customer" BY <1>5, Zenon DEF Waiting
<1>8. i = m
  <2>1. i \in 1 .. Len(entries) BY <1>3, <1>4
  <2>2. entries[m].role = "customer" /\ entries[i] = entries[m] BY <1>p, <1>q, <1>7, Zenon
  <2> QED BY <1>6, <2>1, <2>2, Zenon DEF Numbered
<1>9. Cardinality({j \in known : j > i}) < Len(queue)
  <2> DEFINE later == {j \in known : j > i}
  <2>1. i \in Int /\ i + 1 \in Int /\ Len(entries) \in Int BY <1>2, <1>6, <1>8
  <2>2. later \subseteq (i + 1) .. Len(entries)
    <3>1. \A j \in later : j \in 1 .. Len(entries) /\ j > i BY <1>3, Zenon
    <3> HIDE DEF later
    <3> QED BY <2>1, <3>1
  <2> HIDE DEF later
  <2>3. IsFiniteSet((i + 1) .. Len(entries))
        /\ Cardinality((i + 1) .. Len(entries)) = IF i + 1 > Len(entries) THEN 0 ELSE Len(entries) - (i + 1) + 1
    BY <2>1, FS_Interval, Zenon
  <2>4. IsFiniteSet(later) /\ Cardinality(later) <= Cardinality((i + 1) .. Len(entries)) BY <2>2, <2>3, FS_Subset
  <2>5. Cardinality(later) \in Nat BY <2>4, FS_CardinalityType
  <2>6. PICK n : n = Cardinality((i + 1) .. Len(entries)) OBVIOUS
  <2>7. n < Len(queue) BY <1>2, <1>6, <1>8, <2>1, <2>3, <2>6
  <2>8. n \in Int BY <1>2, <2>1, <2>3, <2>6
  <2>9. Cardinality(later) < Len(queue) BY <1>2, <2>4, <2>5, <2>6, <2>7, <2>8
  <2> QED BY <2>9 DEF later
<1> QED BY <1>4, <1>9, PlacesCount, Zenon

\* What is answered and what is remembered the agent may know of.
LEMMA AllowedTopics ==
    ASSUME Numbered(entries, chatSession, turns), Waiting(queue, entries, chatSession), NEW g, NEW t,
           \/ t \in Preview!Topics(Preview!Said(queue))
           \/ t \in Preview!Topics(Preview!Remembered(g, Preview!Earlier(Preview!InMemory(g, entries, chatSession), queue)))
    PROVE  t \in Preview!Topics({e.said : e \in {x \in Preview!Range(entries) : ~g.sessionOnlyMemory \/ x.session = chatSession}})
<1> DEFINE known == Preview!InMemory(g, entries, chatSession)
           history == Preview!Earlier(known, queue)
           may == {x \in Preview!Range(entries) : ~g.sessionOnlyMemory \/ x.session = chatSession}
<1>1. entries \in Seq(Entry) /\ queue \in Seq(Entry) /\ Len(queue) <= Len(entries) BY DEF Numbered, Waiting
<1>2. Len(entries) \in Nat /\ Len(queue) \in Nat /\ DOMAIN entries = 1 .. Len(entries) /\ DOMAIN queue = 1 .. Len(queue)
  BY <1>1
<1>3. \A i \in known : entries[i] \in may BY <1>2, Zenon DEF Preview!InMemory, Preview!Range
<1>4. ASSUME NEW k \in 1 .. Len(queue) PROVE queue[k] \in may
  <2>1. PICK m : m = Len(entries) - Len(queue) + k OBVIOUS
  <2>2. m \in 1 .. Len(entries) BY <1>1, <1>2, <2>1
  <2>3. queue[k] = entries[m] /\ queue[k].session = chatSession BY <2>1, Zenon DEF Waiting
  <2>4. queue[k] \in Preview!Range(entries) BY <1>2, <2>2, <2>3, Zenon DEF Preview!Range
  <2> QED BY <2>3, <2>4, Zenon
<1>5. history \subseteq known BY Zenon DEF Preview!Earlier
<1> HIDE DEF known, history, may
<1>6. Preview!Said(queue) \subseteq {e.said : e \in may} BY <1>2, <1>4, Zenon DEF Preview!Said, Preview!Range
<1>7. Preview!Remembered(g, history) \subseteq {e.said : e \in may}
  BY <1>3, <1>5, Zenon DEF Preview!Remembered, Preview!Latest
<1>8. t \in Preview!Topics(Preview!Said(queue)) \/ t \in Preview!Topics(Preview!Remembered(g, history))
  BY Zenon DEF known, history
<1>9. t \in Preview!Topics({e.said : e \in may}) BY <1>6, <1>7, <1>8, Zenon DEF Preview!Topics
<1> QED BY <1>9, Zenon DEF may

LEMMA MemoryInit == ASSUME Preview!Init PROVE MemoryInv
<1>0. 1 \in 1 .. MaxSession /\ 0 \in 0 .. MaxTurn BY PreviewAssumption
<1>1. /\ chat = Preview!initialConversationState /\ entries = <<>> /\ queue = <<>> /\ timer = FALSE
      /\ chatSession = 1 /\ answer = Preview!NoAnswer /\ turns = 0
  BY Zenon DEF Preview!Init
<1>2. Flags(chat) BY <1>1, Zenon DEF Flags, Preview!initialConversationState
<1>3. chat.aiMessageCount = 0 /\ Pending = 0
  <2>1. chat.aiMessageCount = 0 BY <1>1, Zenon DEF Preview!initialConversationState
  <2> QED BY <1>1, <2>1, Zenon DEF Pending
<1>4. Preview!QueueIsTimed /\ timer \in BOOLEAN BY <1>1, Zenon DEF Preview!QueueIsTimed
<1>5. Numbered(entries, chatSession, turns) BY <1>1 DEF Numbered
<1>6. Waiting(queue, entries, chatSession)
  <2>1. entries \in Seq(Entry) BY <1>5, Zenon DEF Numbered
  <2> QED BY <1>1, <2>1, WaitingNone, Zenon
<1>7. Preview!AnswersFromMemory
  <2>1. answer.own = {} /\ answer.about = "none" BY <1>1 DEF Preview!NoAnswer
  <2> QED BY <2>1, Zenon DEF Preview!AnswersFromMemory
<1>8. chat.aiMessageCount + Pending <= turns BY <1>1, <1>3
<1> QED BY <1>0, <1>1, <1>2, <1>4, <1>5, <1>6, <1>7, <1>8, Zenon DEF MemoryInv

\* The timer fires: what waits is answered, from what may be remembered.
LEMMA RespondRemembers == ASSUME PreviewInv, MemoryInv, Preview!respond PROVE MemoryInv'
<1> DEFINE history == Preview!Earlier(Preview!InMemory(general, entries, chatSession), queue)
           e == [role |-> "ai", session |-> chatSession, n |-> 0, said |-> Preview!Empty]
           allowed == Preview!Topics({x.said : x \in {y \in Preview!Range(entries) :
                                                          ~general.sessionOnlyMemory \/ y.session = chatSession}})
           own == {entries[i] : i \in history} \cap Preview!Range(queue)
<1>1. PICK r \in Preview!runPreviewEngine(general, chat, Preview!Said(queue), history) :
        /\ chat' = r.chat /\ entries' = entries \o [i \in 1 .. r.replies |-> e]
        /\ answer' = [about |-> r.about, own |-> own, allowed |-> allowed]
  BY DEF Preview!respond
<1>2. timer /\ timer' = FALSE /\ queue' = <<>> /\ UNCHANGED <<general, chatSession, turns>> BY Zenon DEF Preview!respond
<1>3. /\ Numbered(entries, chatSession, turns) /\ Waiting(queue, entries, chatSession)
      /\ chatSession \in Nat \ {0} /\ turns \in Nat /\ general \in Setting
  <2>1. chatSession \in 1 .. MaxSession /\ turns \in 0 .. MaxTurn BY Zenon DEF MemoryInv
  <2>2. chatSession \in Nat \ {0} /\ turns \in Nat BY <2>1, PreviewAssumption
  <2> QED BY <2>2, Zenon DEF MemoryInv, PreviewInv
<1>4. PICK k : k = chat.aiMessageCount OBVIOUS
<1>5. Answered(chat, k) /\ k \in Nat /\ k + 1 <= turns
  <2>1. Pending = 1 BY <1>2, Zenon DEF Pending
  <2>2. k \in Nat BY <1>4 DEF PreviewInv, ChatOK
  <2> QED BY <1>4, <2>1, <2>2, Zenon DEF Answered, PreviewInv, ChatOK, MemoryInv
<1>6. /\ Answered(r.chat, k) \/ Answered(r.chat, k + 1)
      /\ \/ r.about = "none" \/ r.about \in Preview!Topics(Preview!Said(queue))
         \/ r.about \in Preview!Topics(Preview!Remembered(general, history))
  <2> HIDE DEF history
  <2> QED BY <1>3, <1>5, EngineAnswers, Zenon
<1>7. r.replies \in Nat
  <2>1. Obeys(general, chat, r) BY EngineObeys, Zenon DEF PreviewInv
  <2> QED BY <2>1, Zenon DEF Obeys
<1>8. own = {} BY <1>3, NothingTwice, Zenon
<1>9. r.about # "none" => r.about \in allowed BY <1>3, <1>6, AllowedTopics, Zenon
<1>10. /\ e \in Entry /\ e.role = "ai" /\ e.session = chatSession /\ e.n = 0 BY <1>3 DEF Entry
<1> HIDE DEF history, e, allowed, own
<1>11. Preview!AnswersFromMemory'
  <2>1. answer'.own = own /\ answer'.about = r.about /\ answer'.allowed = allowed BY <1>1
  <2> QED BY <1>8, <1>9, <2>1, Zenon DEF Preview!AnswersFromMemory
<1>12. Numbered(entries', chatSession', turns')
  <2> DEFINE new == [i \in 1 .. r.replies |-> e]
  <2>1. new \in Seq(Entry) /\ Len(new) = r.replies /\ \A i \in 1 .. Len(new) : new[i] = e BY <1>7, <1>10
  <2>2. \A i \in 1 .. Len(new) : new[i].role = "ai" /\ new[i].session = chatSession /\ new[i].n = 0
    BY <1>10, <2>1, Zenon
  <2>3. entries' = entries \o new BY <1>1, Zenon
  <2> HIDE DEF new
  <2>4. Numbered(entries \o new, chatSession, turns) BY <1>3, <2>1, <2>2, NumberedAnswers, Zenon
  <2> QED BY <1>2, <2>3, <2>4, Zenon
<1>13. Waiting(queue', entries', chatSession')
  <2>1. entries' \in Seq(Entry) BY <1>12, Zenon DEF Numbered
  <2> QED BY <1>2, <2>1, WaitingNone, Zenon
<1>14. Flags(chat') /\ (chat'.aiMessageCount = k \/ chat'.aiMessageCount = k + 1) BY <1>1, <1>6, Zenon DEF Answered
<1>15. chat'.aiMessageCount + Pending' <= turns'
  <2>1. Pending' = 0 BY <1>2, Zenon DEF Pending
  <2> QED BY <1>2, <1>3, <1>5, <1>14, <2>1
<1>16. Preview!QueueIsTimed' /\ timer' \in BOOLEAN BY <1>2, Zenon DEF Preview!QueueIsTimed
<1>17. chatSession' \in 1 .. MaxSession /\ turns' \in 0 .. MaxTurn BY <1>2, Zenon DEF MemoryInv
<1> QED BY <1>11, <1>12, <1>13, <1>14, <1>15, <1>16, <1>17, Zenon DEF MemoryInv

\* A message is sent.
LEMMA SendRemembers == ASSUME PreviewInv, MemoryInv, NEW m \in Message, Preview!send(m) PROVE MemoryInv'
<1>1. turns < MaxTurn /\ turns' = turns + 1 /\ timer' = TRUE /\ UNCHANGED <<general, chat, chatSession, answer>>
  BY Zenon DEF Preview!send
<1>2. PICK e : e = [role |-> "customer", session |-> chatSession, n |-> turns + 1, said |-> m] OBVIOUS
<1>3. entries' = Append(entries, e) /\ queue' = Append(queue, e) BY <1>1, <1>2, Zenon DEF Preview!send
<1>4. /\ Numbered(entries, chatSession, turns) /\ Waiting(queue, entries, chatSession)
      /\ chatSession \in 1 .. MaxSession /\ turns \in 0 .. MaxTurn
  BY Zenon DEF MemoryInv
<1>5. chatSession \in Nat \ {0} /\ turns \in Nat /\ turns' \in 0 .. MaxTurn BY <1>1, <1>4, PreviewAssumption
<1>6. e \in Entry /\ e.role = "customer" /\ e.session = chatSession /\ e.n = turns + 1 /\ e.said = m BY <1>2, <1>5 DEF Entry
<1>7. Numbered(entries', chatSession', turns') BY <1>1, <1>3, <1>4, <1>5, <1>6, NumberedAppend, Zenon
<1>8. Waiting(queue', entries', chatSession')
  <2>1. entries \in Seq(Entry) BY <1>4, Zenon DEF Numbered
  <2> QED BY <1>1, <1>3, <1>4, <1>6, <2>1, WaitingAppend, Zenon
<1>9. Preview!QueueIsTimed' /\ timer' \in BOOLEAN
  <2>1. queue \in Seq(Entry) BY <1>4, Zenon DEF Waiting
  <2>2. queue' # <<>>
    <3> HIDE DEF Entry
    <3> QED BY <1>3, <2>1
  <2> QED BY <1>1, <2>2, Zenon DEF Preview!QueueIsTimed
<1>10. chat'.aiMessageCount + Pending' <= turns'
  <2>1. Pending \in {0, 1} /\ Pending' = 1 BY <1>1, Zenon DEF Pending
  <2>2. PICK k \in Nat : k = chat.aiMessageCount BY DEF PreviewInv, ChatOK
  <2>3. k + Pending <= turns BY <2>2, Zenon DEF MemoryInv
  <2> QED BY <1>1, <1>5, <2>1, <2>2, <2>3
<1>11. Flags(chat') /\ Preview!AnswersFromMemory' BY <1>1, Zenon DEF MemoryInv, Flags, Preview!AnswersFromMemory
<1> QED BY <1>1, <1>4, <1>5, <1>7, <1>8, <1>9, <1>10, <1>11, Zenon DEF MemoryInv

\* The chat is resolved, a human picks it up, a setting is changed.
LEMMA ChatRemembers ==
    ASSUME PreviewInv, MemoryInv,
           Preview!resolve \/ Preview!ToggleAssigned \/ \E g \in Setting : Preview!ChangeSetting(g)
    PROVE  MemoryInv'
<1>0. /\ Numbered(entries, chatSession, turns) /\ Waiting(queue, entries, chatSession)
      /\ chatSession \in 1 .. MaxSession /\ turns \in 0 .. MaxTurn
  BY Zenon DEF MemoryInv
<1>1. CASE Preview!resolve
  <2>1. /\ chatSession < MaxSession /\ chatSession' = chatSession + 1 /\ timer' = FALSE /\ queue' = <<>>
        /\ chat' = Preview!initialConversationState /\ answer' = Preview!NoAnswer /\ entries' \in {entries, <<>>}
        /\ UNCHANGED turns
    BY <1>1, Zenon DEF Preview!resolve
  <2>2. chatSession' \in 1 .. MaxSession BY <1>0, <2>1, PreviewAssumption
  <2>3. Numbered(entries', chatSession', turns')
    <3>1. CASE entries' = <<>> BY <3>1 DEF Numbered
    <3>2. CASE entries' = entries
      <4>1. ASSUME NEW i \in 1 .. Len(entries) PROVE entries[i].session <= chatSession + 1
        <5>1. entries \in Seq(Entry) BY <1>0, Zenon DEF Numbered
        <5>2. entries[i] \in Entry
          <6> HIDE DEF Entry
          <6> QED BY <5>1
        <5>3. entries[i].session \in Nat BY <5>2 DEF Entry
        <5>4. entries[i].session <= chatSession BY <1>0, Zenon DEF Numbered
        <5> QED BY <1>0, <5>3, <5>4
      <4> QED BY <1>0, <2>1, <3>2, <4>1, Zenon DEF Numbered
    <3> QED BY <2>1, <3>1, <3>2
  <2>4. Waiting(queue', entries', chatSession')
    <3>1. entries' \in Seq(Entry) BY <2>3, Zenon DEF Numbered
    <3> QED BY <2>1, <3>1, WaitingNone, Zenon
  <2>5. Flags(chat') BY <2>1, Zenon DEF Flags, Preview!initialConversationState
  <2>6. chat'.aiMessageCount + Pending' <= turns'
    <3>1. Pending' = 0 BY <2>1, Zenon DEF Pending
    <3>2. chat'.aiMessageCount = 0 BY <2>1, Zenon DEF Preview!initialConversationState
    <3> QED BY <1>0, <2>1, <3>1, <3>2
  <2>7. Preview!AnswersFromMemory'
    <3>1. answer'.own = {} /\ answer'.about = "none" BY <2>1 DEF Preview!NoAnswer
    <3> QED BY <3>1, Zenon DEF Preview!AnswersFromMemory
  <2>8. Preview!QueueIsTimed' /\ timer' \in BOOLEAN BY <2>1, Zenon DEF Preview!QueueIsTimed
  <2> QED BY <1>0, <2>1, <2>2, <2>3, <2>4, <2>5, <2>6, <2>7, <2>8, Zenon DEF MemoryInv
<1>2. CASE Preview!ToggleAssigned
  <2>1. PICK b \in BOOLEAN : chat' = [chat EXCEPT !.assigned = b] BY <1>2, Zenon DEF Preview!ToggleAssigned
  <2>2. UNCHANGED <<general, entries, queue, timer, chatSession, answer, turns>> BY <1>2, Zenon DEF Preview!ToggleAssigned
  <2>3. Answered(chat, chat.aiMessageCount) BY Zenon DEF Answered, PreviewInv, ChatOK, MemoryInv
  <2>4. PICK k : k = chat.aiMessageCount OBVIOUS
  <2>5. Answered(chat', k)
    <3>1. Answered([chat EXCEPT !.assigned = b], k) BY <2>3, <2>4, FlagsKept, Zenon
    <3> QED BY <2>1, <3>1, Zenon
  <2>6. Flags(chat') /\ chat'.aiMessageCount = chat.aiMessageCount BY <2>4, <2>5, Zenon DEF Answered
  <2> QED BY <2>2, <2>6, Zenon DEF MemoryInv, Pending, Preview!QueueIsTimed, Preview!AnswersFromMemory
<1>3. ASSUME NEW g \in Setting, Preview!ChangeSetting(g) PROVE MemoryInv'
  <2>1. UNCHANGED <<chat, entries, queue, timer, chatSession, answer, turns>> BY <1>3, Zenon DEF Preview!ChangeSetting
  <2> QED BY <2>1, Zenon DEF MemoryInv, Pending, Preview!QueueIsTimed, Preview!AnswersFromMemory
<1> QED BY <1>1, <1>2, <1>3

\* Every step of the preview.
LEMMA MemoryNext == ASSUME PreviewInv, MemoryInv, Preview!Next PROVE MemoryInv'
BY RespondRemembers, SendRemembers, ChatRemembers DEF Preview!Next

\* What the invariants say of the preview.
LEMMA PreviewFacts ==
    PreviewInv /\ MemoryInv => Preview!TypeOK /\ Preview!AnswersFromMemory /\ Preview!QueueIsTimed
<1> SUFFICES ASSUME PreviewInv, MemoryInv PROVE Preview!TypeOK /\ Preview!AnswersFromMemory /\ Preview!QueueIsTimed
  OBVIOUS
<1>1. /\ Numbered(entries, chatSession, turns) /\ Waiting(queue, entries, chatSession)
      /\ chatSession \in 1 .. MaxSession /\ turns \in 0 .. MaxTurn
  BY Zenon DEF MemoryInv
<1>2. chat.aiMessageCount \in 0 .. MaxTurn
  <2>1. PICK k \in Nat : k = chat.aiMessageCount BY DEF PreviewInv, ChatOK
  <2>2. k + Pending <= turns BY <2>1, Zenon DEF MemoryInv
  <2>3. Pending \in {0, 1} BY Zenon DEF Pending
  <2> QED BY <1>1, <2>1, <2>2, <2>3, PreviewAssumption
<1>3. ASSUME NEW i \in 1 .. Len(entries)
      PROVE  entries[i].role \in {"customer", "ai"} /\ entries[i].session \in 1 .. chatSession
  <2>1. entries \in Seq(Entry) BY <1>1, Zenon DEF Numbered
  <2>2. entries[i] \in Entry
    <3> HIDE DEF Entry
    <3> QED BY <2>1
  <2>3. entries[i].role \in {"customer", "ai"} /\ entries[i].session \in Nat BY <2>2 DEF Entry
  <2>4. entries[i].session >= 1 /\ entries[i].session <= chatSession BY <1>1, Zenon DEF Numbered
  <2>5. entries[i].session \in 1 .. chatSession BY <1>1, <2>3, <2>4
  <2> QED BY <2>3, <2>5
<1>4. \A i \in 1 .. Len(queue) : queue[i].said \in Message BY <1>1, Zenon DEF Waiting
<1>5. general \in Setting /\ chat.pipelineStatus \in Nat BY Zenon DEF PreviewInv, ChatOK
<1> QED BY <1>1, <1>2, <1>3, <1>4, <1>5, Zenon DEF MemoryInv, Flags, Preview!TypeOK


-----------------------------------------------------------------------------
(* The inbox page *)

Msg == [has : BOOLEAN, n : 0 .. MaxInbound + MaxSend, pending : BOOLEAN]

ViewInv ==
    /\ list = Page!NoRows \/ list \in [Conv -> Page!Summary]
    /\ listRead = Page!NoRows \/ listRead \in [Conv -> Page!Summary]
    /\ selected \in Page!Maybe /\ tab \in {"mine", "unassigned", "all"}
    /\ seen \in Page!Maybe \X (0 .. MaxInbound) /\ marking \subseteq Conv

CountInv == inbound \in 0 .. MaxInbound /\ sends \in 0 .. MaxSend /\ patches \in 0 .. MaxPatch /\ missed \in 0 .. MaxMiss

PatchInv ==
    \/ patch = Page!NoPatch
    \/ patch \in [op : {"claim", "unassign", "resolve", "reopen", "retry", "applied"}, of : Conv]

\* A reply on its way is not among the messages yet.
OnItsWay == IF send # Page!NoSend /\ ~send.stored THEN 1 ELSE 0

StoredInv ==
    /\ convs \in [Conv -> Page!Row]
    /\ \A c \in Conv : convs[c].unread <= inbound /\ convs[c].n + OnItsWay <= inbound + sends

SendInv == send = Page!NoSend \/ send \in [of : Conv, previous : Msg, stored : BOOLEAN]

MsgsInv ==
    /\ msgs \in [Conv -> Msg] /\ stale \subseteq Page!Key
    /\ msgsRead = Page!NoRead \/ msgsRead \in [of : Conv, n : 0 .. MaxInbound + MaxSend]
    /\ owed \in [Conv -> 0 .. MaxInbound + MaxSend]

Behind(c) == msgs[c].pending \/ ~(msgs[c].n >= owed[c])

\* Whatever is behind is about to be fetched, and what is read is not.
ShownInv ==
    \A c \in Conv : /\ convs[c].n >= owed[c]
                    /\ msgsRead.of = c => msgsRead.n >= owed[c]
                    /\ Behind(c) => c \in stale \/ send.of = c \/ msgsRead.of = c

InboxInv == ViewInv /\ CountInv /\ PatchInv /\ StoredInv /\ SendInv /\ MsgsInv /\ ShownInv

LEMMA InboxInit == ASSUME Page!Init, tab \in {"all", "mine"} PROVE InboxInv
<1>0. "none" \notin Conv /\ MaxInbound \in Nat /\ MaxSend \in Nat /\ MaxPatch \in Nat /\ MaxMiss \in Nat
  BY InboxAssumption
<1>1. ViewInv
  <2>1. <<"none", 0>> \in Page!Maybe \X (0 .. MaxInbound) /\ "none" \in Page!Maybe BY <1>0 DEF Page!Maybe
  <2>2. tab \in {"mine", "unassigned", "all"} BY Zenon
  <2> QED BY <2>1, <2>2, Zenon DEF Page!Init, ViewInv
<1>2. CountInv BY <1>0 DEF Page!Init, CountInv
<1>3. PatchInv /\ SendInv BY Zenon DEF Page!Init, PatchInv, SendInv
<1>4. StoredInv
  <2>1. OnItsWay = 0 BY Zenon DEF Page!Init, OnItsWay
  <2>2. convs = [c \in Conv |-> [status |-> "OPEN", assignee |-> "none", unread |-> 0, n |-> 0]] /\ inbound = 0 /\ sends = 0
    BY Zenon DEF Page!Init
  <2> QED BY <1>0, <2>1, <2>2 DEF StoredInv, Page!Row
<1>5. MsgsInv
  <2>1. 0 \in 0 .. MaxInbound + MaxSend BY <1>0
  <2>2. Page!NoMsgs \in Msg BY <2>1, Zenon DEF Page!NoMsgs, Msg
  <2>4. msgs \in [Conv -> Msg] /\ owed \in [Conv -> 0 .. MaxInbound + MaxSend] BY <2>1, <2>2, Zenon DEF Page!Init
  <2> QED BY <2>4, Zenon DEF Page!Init, MsgsInv
<1>6. ShownInv
  <2> SUFFICES ASSUME NEW c \in Conv PROVE convs[c].n >= owed[c] /\ msgsRead.of # c /\ ~Behind(c) BY Zenon DEF ShownInv
  <2>1. convs[c].n = 0 /\ owed[c] = 0 BY DEF Page!Init
  <2>2. msgs[c].n = 0 /\ ~msgs[c].pending
    <3>1. msgs[c] = Page!NoMsgs BY Zenon DEF Page!Init
    <3> QED BY <3>1 DEF Page!NoMsgs
  <2>3. msgsRead.of # c
    <3>2. c # "none" BY <1>0
    <3>1. msgsRead.of = "none" BY DEF Page!Init, Page!NoRead
    <3> QED BY <3>2, <3>1
  <2>4. convs[c].n >= owed[c] /\ msgs[c].n >= owed[c] BY <2>1, <2>2
  <2> QED BY <2>2, <2>3, <2>4, Zenon DEF Behind
<1> QED BY <1>1, <1>2, <1>3, <1>4, <1>5, <1>6, Zenon DEF InboxInv

\* A render empties at most the badge of the conversation it shows.
LEMMA RenderStep ==
    ASSUME NEW s \in Page!Maybe, NEW rs \in [Conv -> Page!Summary], marking \subseteq Conv, Page!Render(s, rs)
    PROVE  /\ list' \in [Conv -> Page!Summary] /\ selected' \in Page!Maybe
           /\ seen' \in Page!Maybe \X (0 .. MaxInbound) /\ marking' \subseteq Conv
<1> DEFINE unread == IF s = "none" \/ rs = Page!NoRows THEN 0 ELSE rs[s].unread
           reads == unread > 0 /\ Page!DepsChanged(s, unread)
<1>1. /\ selected' = s /\ seen' = <<s, IF reads THEN 0 ELSE unread>>
      /\ marking' = (IF reads THEN marking \cup {s} ELSE marking)
      /\ list' = (IF reads THEN [rs EXCEPT ![s].unread = 0] ELSE rs)
  BY Zenon DEF Page!Render
<1>2. unread \in 0 .. MaxInbound /\ (unread > 0 => s \in Conv)
  <2>1. CASE s = "none" \/ rs = Page!NoRows BY <2>1, InboxAssumption
  <2>2. CASE ~(s = "none" \/ rs = Page!NoRows)
    <3>1. s \in Conv BY <2>2 DEF Page!Maybe
    <3>2. rs[s] \in Page!Summary BY <3>1
    <3>3. rs[s].unread \in 0 .. MaxInbound BY <3>2 DEF Page!Summary
    <3> QED BY <2>2, <3>1, <3>3
  <2> QED BY <2>1, <2>2
<1>3. reads => s \in Conv BY <1>2
<1>4. PICK q : q = (IF reads THEN 0 ELSE unread) OBVIOUS
<1>5. q \in 0 .. MaxInbound BY <1>2, <1>4, InboxAssumption
<1> HIDE DEF unread, reads
<1>6. seen' \in Page!Maybe \X (0 .. MaxInbound) /\ selected' \in Page!Maybe BY <1>1, <1>4, <1>5
<1>7. marking' \subseteq Conv BY <1>1, <1>3
<1>8. list' \in [Conv -> Page!Summary]
  <2>1. CASE reads
    <3>1. PICK r \in Page!Summary : r = rs[s] BY <1>3, <2>1
    <3>2. [r EXCEPT !.unread = 0] \in Page!Summary BY InboxAssumption DEF Page!Summary
    <3>3. list' = [rs EXCEPT ![s] = [r EXCEPT !.unread = 0]] BY <1>1, <2>1, <3>1
    <3> QED BY <1>3, <2>1, <3>2, <3>3
  <2> QED BY <1>1, <2>1
<1> QED BY <1>6, <1>7, <1>8

\* The server's side of the list.
LEMMA SummariesOf == ASSUME StoredInv PROVE [c \in Conv |-> Page!SummaryOf(convs[c])] \in [Conv -> Page!Summary]
<1>1. ASSUME NEW c \in Conv PROVE Page!SummaryOf(convs[c]) \in Page!Summary
  <2>1. convs[c] \in Page!Row BY DEF StoredInv
  <2> QED BY <2>1 DEF Page!SummaryOf, Page!Summary, Page!Row
<1> QED BY <1>1

\* A dropped request is sent again.
LEMMA InvalidateStep ==
    ASSUME ViewInv, MsgsInv, NEW c \in Conv, Page!Invalidate({"list", c})
    PROVE  /\ listRead' = Page!NoRows /\ stale' = stale \cup {"list", c} /\ stale' \subseteq Page!Key
           /\ msgsRead' = Page!NoRead \/ msgsRead' = msgsRead
           /\ \A x \in Conv \ {c} : msgsRead.of = x => msgsRead' = msgsRead
           /\ msgsRead'.of # c
<1>1. listRead' = Page!NoRows /\ stale' = stale \cup {"list", c} BY Zenon DEF Page!Invalidate
<1>2. msgsRead' = (IF msgsRead.of \in {"list", c} THEN Page!NoRead ELSE msgsRead) BY Zenon DEF Page!Invalidate
<1>3. stale' \subseteq Page!Key BY <1>1, Zenon DEF MsgsInv, Page!Key
<1>4. msgsRead' = Page!NoRead \/ msgsRead' = msgsRead BY <1>2, Zenon
<1>6. ASSUME NEW x \in Conv \ {c}, msgsRead.of = x PROVE msgsRead' = msgsRead
  <2>1. x # "list" BY InboxAssumption
  <2>2. x # c OBVIOUS
  <2> QED BY <1>2, <1>6, <2>1, <2>2, Zenon
<1>7. msgsRead'.of # c
  <2>1. Page!NoRead.of = "none" BY Zenon DEF Page!NoRead
  <2>2. c # "none" BY InboxAssumption
  <2> QED BY <1>2, <2>1, <2>2, Zenon
<1> QED BY <1>1, <1>3, <1>4, <1>6, <1>7, Zenon

\* What changes neither the server nor the messages; what is fetched next may grow.
LEMMA ViewOnly ==
    ASSUME InboxInv, UNCHANGED <<convs, msgs, msgsRead, send, owed, inbound, sends>>,
           \A c \in Conv : c \in stale => c \in stale'
    PROVE  StoredInv' /\ SendInv' /\ ShownInv' /\ (stale' \subseteq Page!Key => MsgsInv')
<1>1. StoredInv' BY Zenon DEF InboxInv, StoredInv, OnItsWay
<1>2. SendInv' BY Zenon DEF InboxInv, SendInv
<1>3. ShownInv' BY Zenon DEF InboxInv, ShownInv, Behind
<1>4. stale' \subseteq Page!Key => MsgsInv' BY Zenon DEF InboxInv, MsgsInv
<1> QED BY <1>1, <1>2, <1>3, <1>4

\* Polls of the list, its answers, clicks and tabs.
LEMMA InboxListSteps ==
    ASSUME InboxInv,
           \/ Page!ListRequested \/ Page!ListAnswered \/ \E c \in Conv : Page!Select(c)
           \/ \E t \in {"mine", "unassigned", "all"} : Page!SetTab(t)
    PROVE  InboxInv'
<1>0. marking \subseteq Conv BY Zenon DEF InboxInv, ViewInv
<1>1. CASE Page!ListRequested
  <2>1. /\ listRead' = [c \in Conv |-> Page!SummaryOf(convs[c])] /\ stale' = stale \ {"list"}
        /\ UNCHANGED <<convs, list, msgs, msgsRead, selected, tab, seen, marking, patch, send, owed>>
        /\ UNCHANGED <<inbound, sends, patches, missed>>
    BY <1>1, Zenon DEF Page!ListRequested, Page!view, Page!counts
  <2>2. ViewInv' BY <2>1, SummariesOf, Zenon DEF InboxInv, ViewInv
  <2>3. CountInv' /\ PatchInv' BY <2>1, Zenon DEF InboxInv, CountInv, PatchInv
  <2>4. \A c \in Conv : c \in stale => c \in stale'
    <3>1. \A c \in Conv : c # "list" BY InboxAssumption
    <3> QED BY <2>1, <3>1, Zenon
  <2>5. stale' \subseteq Page!Key BY <2>1, Zenon DEF InboxInv, MsgsInv
  <2>6. StoredInv' /\ SendInv' /\ ShownInv' /\ MsgsInv' BY <2>1, <2>4, <2>5, ViewOnly, Zenon
  <2> QED BY <2>2, <2>3, <2>6, Zenon DEF InboxInv
<1>2. CASE Page!ListAnswered
  <2>1. /\ listRead # Page!NoRows /\ listRead' = Page!NoRows
        /\ UNCHANGED <<convs, msgs, msgsRead, stale, tab, patch, send, owed>>
        /\ UNCHANGED <<inbound, sends, patches, missed>>
    BY <1>2, Zenon DEF Page!ListAnswered, Page!counts
  <2>2. PICK s \in Page!ValidSelection(selected, listRead) : Page!Render(s, listRead)
    BY <1>2, Zenon DEF Page!ListAnswered
  <2>3. s \in Page!Maybe
    <3>1. s = selected \/ s \in Conv BY <2>2, Zenon DEF Page!ValidSelection, Page!filterQueue
    <3> QED BY <3>1, Zenon DEF InboxInv, ViewInv, Page!Maybe
  <2>4. listRead \in [Conv -> Page!Summary] BY <2>1, Zenon DEF InboxInv, ViewInv
  <2>5. /\ list' \in [Conv -> Page!Summary] /\ selected' \in Page!Maybe
        /\ seen' \in Page!Maybe \X (0 .. MaxInbound) /\ marking' \subseteq Conv
    BY <1>0, <2>2, <2>3, <2>4, RenderStep, Zenon
  <2>6. ViewInv' BY <2>1, <2>5, Zenon DEF InboxInv, ViewInv
  <2>7. CountInv' /\ PatchInv' BY <2>1, Zenon DEF InboxInv, CountInv, PatchInv
  <2>8. StoredInv' /\ SendInv' /\ ShownInv' /\ MsgsInv' BY <2>1, ViewOnly, Zenon DEF InboxInv, MsgsInv
  <2> QED BY <2>6, <2>7, <2>8, Zenon DEF InboxInv
<1>3. ASSUME NEW c \in Conv, Page!Select(c) PROVE InboxInv'
  <2>2. /\ list # Page!NoRows /\ Page!Render(c, list) /\ stale' \in {stale, stale \cup {c}}
        /\ UNCHANGED <<convs, listRead, msgs, msgsRead, tab, patch, send, owed>>
        /\ UNCHANGED <<inbound, sends, patches, missed>>
    BY <1>3, Zenon DEF Page!Select, Page!counts
  <2>3. list \in [Conv -> Page!Summary] BY <2>2, Zenon DEF InboxInv, ViewInv
  <2>4. c \in Page!Maybe BY Zenon DEF Page!Maybe
  <2>5. /\ list' \in [Conv -> Page!Summary] /\ selected' \in Page!Maybe
        /\ seen' \in Page!Maybe \X (0 .. MaxInbound) /\ marking' \subseteq Conv
    BY <1>0, <2>2, <2>3, <2>4, RenderStep, Zenon
  <2>6. ViewInv' BY <2>2, <2>5, Zenon DEF InboxInv, ViewInv
  <2>7. CountInv' /\ PatchInv' BY <2>2, Zenon DEF InboxInv, CountInv, PatchInv
  <2>8. stale' \subseteq Page!Key /\ \A x \in Conv : x \in stale => x \in stale'
    BY <2>2, Zenon DEF InboxInv, MsgsInv, Page!Key
  <2>9. StoredInv' /\ SendInv' /\ ShownInv' /\ MsgsInv' BY <2>2, <2>8, ViewOnly, Zenon
  <2> QED BY <2>6, <2>7, <2>9, Zenon DEF InboxInv
<1>4. ASSUME NEW t \in {"mine", "unassigned", "all"}, Page!SetTab(t) PROVE InboxInv'
  <2>1. /\ tab' \in {"mine", "unassigned", "all"}
        /\ UNCHANGED <<convs, list, listRead, msgs, msgsRead, stale, selected, seen, marking, patch, send, owed>>
        /\ UNCHANGED <<inbound, sends, patches, missed>>
    BY <1>4, Zenon DEF Page!SetTab, Page!queries, Page!counts
  <2>2. ViewInv' BY <2>1, Zenon DEF InboxInv, ViewInv
  <2>3. CountInv' /\ PatchInv' BY <2>1, Zenon DEF InboxInv, CountInv, PatchInv
  <2>4. StoredInv' /\ SendInv' /\ ShownInv' /\ MsgsInv' BY <2>1, ViewOnly, Zenon DEF InboxInv, MsgsInv
  <2> QED BY <2>2, <2>3, <2>4, Zenon DEF InboxInv
<1> QED BY <1>1, <1>2, <1>3, <1>4

\* What of the page a step about messages leaves alone.
LEMMA ViewLeft ==
    ASSUME ViewInv, UNCHANGED <<list, listRead, selected, tab, seen, marking>> PROVE ViewInv'
BY Zenon DEF ViewInv

\* Polls of the open conversation and their answers, and requests that fail.
LEMMA InboxReadSteps ==
    ASSUME InboxInv, Page!MsgsRequested \/ Page!MsgsAnswered \/ Page!RequestFails PROVE InboxInv'
<1>0. "none" \notin Conv /\ "list" \notin Conv BY InboxAssumption
<1>1. CASE Page!MsgsRequested
  <2>1. /\ selected # "none" /\ msgsRead = Page!NoRead /\ stale' = stale \ {selected}
        /\ msgsRead' = [of |-> selected, n |-> convs[selected].n]
        /\ UNCHANGED <<convs, list, listRead, msgs, selected, tab, seen, marking, patch, send, owed>>
        /\ UNCHANGED <<inbound, sends, patches, missed>>
    BY <1>1, Zenon DEF Page!MsgsRequested, Page!view, Page!counts
  <2>2. selected \in Conv BY <2>1, Zenon DEF InboxInv, ViewInv, Page!Maybe
  <2>3. convs[selected].n \in 0 .. MaxInbound + MaxSend
    <3>1. convs[selected] \in Page!Row BY <2>2, Zenon DEF InboxInv, StoredInv
    <3> QED BY <3>1 DEF Page!Row
  <2>4. msgsRead'.of = selected /\ msgsRead'.n = convs[selected].n BY <2>1
  <2>5. ViewInv' /\ CountInv' /\ PatchInv' /\ StoredInv' /\ SendInv'
    BY <2>1, Zenon DEF InboxInv, ViewInv, CountInv, PatchInv, StoredInv, OnItsWay, SendInv
  <2>6. MsgsInv' BY <2>1, <2>2, <2>3, Zenon DEF InboxInv, MsgsInv
  <2>7. ShownInv'
    <3> SUFFICES ASSUME NEW c \in Conv
                 PROVE  /\ convs'[c].n >= owed'[c] /\ (msgsRead'.of = c => msgsRead'.n >= owed'[c])
                        /\ Behind(c)' => c \in stale' \/ send'.of = c \/ msgsRead'.of = c
      BY Zenon DEF ShownInv
    <3>1. convs[c].n >= owed[c] BY Zenon DEF InboxInv, ShownInv
    <3>2. Behind(c) => c \in stale \/ send.of = c BY <1>0, <2>1, Zenon DEF InboxInv, ShownInv, Page!NoRead
    <3>3. Behind(c)' = Behind(c) BY <2>1, Zenon DEF Behind
    <3>4. msgsRead'.of = c => msgsRead'.n >= owed'[c] BY <2>1, <2>4, <3>1, Zenon
    <3> QED BY <2>1, <2>4, <3>1, <3>2, <3>3, <3>4, Zenon
  <2> QED BY <2>5, <2>6, <2>7, Zenon DEF InboxInv
<1>2. CASE Page!MsgsAnswered
  <2>1. /\ msgsRead # Page!NoRead /\ msgsRead' = Page!NoRead
        /\ msgs' = [msgs EXCEPT ![msgsRead.of] = [has |-> TRUE, n |-> msgsRead.n, pending |-> FALSE]]
        /\ UNCHANGED <<convs, list, listRead, stale, selected, tab, seen, marking, patch, send, owed>>
        /\ UNCHANGED <<inbound, sends, patches, missed>>
    BY <1>2, Zenon DEF Page!MsgsAnswered, Page!view, Page!counts
  <2>2. ViewInv' /\ CountInv' /\ PatchInv' /\ StoredInv' /\ SendInv'
    BY <2>1, Zenon DEF InboxInv, ViewInv, CountInv, PatchInv, StoredInv, OnItsWay, SendInv
  <2>3. PICK m : m = [has |-> TRUE, n |-> msgsRead.n, pending |-> FALSE] OBVIOUS
  <2>4. m \in Msg
    <3>1. msgsRead.n \in 0 .. MaxInbound + MaxSend BY <2>1 DEF InboxInv, MsgsInv
    <3> QED BY <2>3, <3>1, Zenon DEF Msg
  <2>5. m.n = msgsRead.n BY <2>3
  <2>6. ~m.pending BY <2>3
  <2>7. msgs' = [msgs EXCEPT ![msgsRead.of] = m] BY <2>1, <2>3, Zenon
  <2>8. msgs \in [Conv -> Msg] BY Zenon DEF InboxInv, MsgsInv
  <2>9. Page!NoRead.of = "none" BY Zenon DEF Page!NoRead
  <2>10. MsgsInv'
    <3>1. msgs' \in [Conv -> Msg] BY <2>4, <2>7, <2>8, Zenon
    <3> QED BY <2>1, <3>1, Zenon DEF InboxInv, MsgsInv
  <2>11. ShownInv'
    <3> SUFFICES ASSUME NEW c \in Conv
                 PROVE  convs'[c].n >= owed'[c] /\ msgsRead'.of # c /\ (Behind(c)' => c \in stale' \/ send'.of = c)
      BY Zenon DEF ShownInv
    <3>1. /\ convs[c].n >= owed[c] /\ (msgsRead.of = c => msgsRead.n >= owed[c])
          /\ Behind(c) => c \in stale \/ send.of = c \/ msgsRead.of = c
      BY Zenon DEF InboxInv, ShownInv
    <3>2. msgsRead'.of # c BY <1>0, <2>1, <2>9, Zenon
    <3>3. CASE msgsRead.of = c
      <4>1. msgs'[c] = m BY <2>7, <2>8, <3>3, Zenon
      <4>2. ~Behind(c)' BY <2>1, <2>5, <2>6, <3>1, <3>3, <4>1, Zenon DEF Behind
      <4> QED BY <2>1, <3>1, <3>2, <4>2, Zenon
    <3>4. CASE msgsRead.of # c
      <4>1. msgs'[c] = msgs[c] BY <2>7, <2>8, <3>4, Zenon
      <4>2. Behind(c)' = Behind(c) BY <2>1, <4>1, Zenon DEF Behind
      <4> QED BY <2>1, <3>1, <3>2, <3>4, <4>2, Zenon
    <3> QED BY <3>3, <3>4
  <2> QED BY <2>2, <2>10, <2>11, Zenon DEF InboxInv
<1>3. CASE Page!RequestFails
  <2>1. /\ Page!Miss /\ UNCHANGED <<convs, list, msgs, selected, tab, seen, marking, patch, send, owed>>
        /\ \/ listRead' = Page!NoRows /\ stale' = stale \cup {"list"} /\ UNCHANGED msgsRead
           \/ msgsRead # Page!NoRead /\ msgsRead' = Page!NoRead /\ stale' = stale \cup {msgsRead.of} /\ UNCHANGED listRead
    BY <1>3, Zenon DEF Page!RequestFails, Page!view
  <2>2. missed' = missed + 1 /\ missed < MaxMiss /\ UNCHANGED <<inbound, sends, patches>> BY <2>1, Zenon DEF Page!Miss
  <2>3. CountInv' BY <2>2, InboxAssumption DEF InboxInv, CountInv
  <2>4. ViewInv' /\ PatchInv' /\ StoredInv' /\ SendInv'
    BY <2>1, <2>2, Zenon DEF InboxInv, ViewInv, PatchInv, StoredInv, OnItsWay, SendInv
  <2>5. MsgsInv' /\ ShownInv'
    <3>1. CASE UNCHANGED msgsRead /\ stale' = stale \cup {"list"}
      <4>1. stale' \subseteq Page!Key BY <3>1, Zenon DEF InboxInv, MsgsInv, Page!Key
      <4>2. \A c \in Conv : c \in stale => c \in stale' BY <3>1, Zenon
      <4> QED BY <2>1, <2>2, <3>1, <4>1, <4>2, ViewOnly, Zenon
    <3>2. CASE msgsRead # Page!NoRead /\ msgsRead' = Page!NoRead /\ stale' = stale \cup {msgsRead.of}
      <4>1. Page!NoRead.of = "none" BY Zenon DEF Page!NoRead
      <4>2. stale' \subseteq Page!Key
        <5>1. msgsRead.of \in Conv BY <3>2 DEF InboxInv, MsgsInv
        <5> QED BY <3>2, <5>1, Zenon DEF InboxInv, MsgsInv, Page!Key
      <4>3. MsgsInv' BY <2>1, <3>2, <4>2, Zenon DEF InboxInv, MsgsInv
      <4>4. ShownInv' BY <1>0, <2>1, <3>2, <4>1, Zenon DEF InboxInv, ShownInv, Behind
      <4> QED BY <4>3, <4>4
    <3> QED BY <2>1, <3>1, <3>2
  <2> QED BY <2>3, <2>4, <2>5, Zenon DEF InboxInv
<1> QED BY <1>1, <1>2, <1>3

\* One conversation changes on the server; its messages do not get fewer.
LEMMA RowStep ==
    ASSUME InboxInv, NEW c \in Conv, NEW r \in Page!Row, convs' = [convs EXCEPT ![c] = r],
           inbound' \in Nat, sends' \in Nat, inbound' >= inbound, sends' >= sends,
           r.unread <= inbound', r.n >= convs[c].n, r.n + OnItsWay' <= inbound' + sends',
           OnItsWay' <= OnItsWay, UNCHANGED <<msgs, msgsRead, owed, stale>>, send'.of = send.of
    PROVE  StoredInv' /\ MsgsInv' /\ ShownInv'
<1>1. convs \in [Conv -> Page!Row] BY Zenon DEF InboxInv, StoredInv
<1>2. convs' \in [Conv -> Page!Row] BY <1>1
<1>3. inbound \in Nat /\ sends \in Nat BY InboxAssumption DEF InboxInv, CountInv
<1>4. OnItsWay \in {0, 1} /\ OnItsWay' \in {0, 1} BY Zenon DEF OnItsWay
<1>5. StoredInv'
  <2> SUFFICES ASSUME NEW x \in Conv
               PROVE  convs'[x].unread <= inbound' /\ convs'[x].n + OnItsWay' <= inbound' + sends'
    BY <1>2, Zenon DEF StoredInv
  <2>1. CASE x = c
    <3>1. convs'[x] = r BY <1>1, <2>1
    <3> QED BY <3>1
  <2>2. CASE x # c
    <3>1. convs'[x] = convs[x] BY <1>1, <2>2
    <3>2. convs[x] \in Page!Row BY <1>1
    <3>3. convs[x].unread \in Int /\ convs[x].n \in Int BY <3>2, InboxAssumption DEF Page!Row
    <3>4. convs[x].unread <= inbound /\ convs[x].n + OnItsWay <= inbound + sends BY Zenon DEF InboxInv, StoredInv
    <3>5. PICK o \in {0, 1}, p \in {0, 1} : o = OnItsWay /\ p = OnItsWay' BY <1>4, Zenon
    <3> QED BY <1>3, <3>1, <3>3, <3>4, <3>5
  <2> QED BY <2>1, <2>2
<1>6. MsgsInv' BY Zenon DEF InboxInv, MsgsInv
<1>7. ShownInv'
  <2> SUFFICES ASSUME NEW x \in Conv
               PROVE  /\ convs'[x].n >= owed'[x] /\ (msgsRead'.of = x => msgsRead'.n >= owed'[x])
                      /\ Behind(x)' => x \in stale' \/ send'.of = x \/ msgsRead'.of = x
    BY Zenon DEF ShownInv
  <2>1. /\ convs[x].n >= owed[x] /\ (msgsRead.of = x => msgsRead.n >= owed[x])
        /\ Behind(x) => x \in stale \/ send.of = x \/ msgsRead.of = x
    BY Zenon DEF InboxInv, ShownInv
  <2>2. Behind(x)' = Behind(x) BY Zenon DEF Behind
  <2>3. convs'[x].n >= convs[x].n
    <3>1. CASE x = c
      <4>1. convs'[x] = r BY <1>1, <3>1
      <4> QED BY <3>1, <4>1
    <3>2. CASE x # c
      <4>1. convs'[x] = convs[x] /\ convs[x] \in Page!Row BY <1>1, <3>2
      <4>2. convs[x].n \in Int BY <4>1, InboxAssumption DEF Page!Row
      <4> QED BY <4>1, <4>2
    <3> QED BY <3>1, <3>2
  <2>4. convs'[x].n >= owed[x]
    <3>1. convs[x] \in Page!Row /\ convs'[x] \in Page!Row BY <1>1, <1>2
    <3>2. convs[x].n \in Int /\ convs'[x].n \in Int BY <3>1, InboxAssumption DEF Page!Row
    <3>3. owed[x] \in 0 .. MaxInbound + MaxSend BY Zenon DEF InboxInv, MsgsInv
    <3>4. owed[x] \in Int BY <3>3
    <3> QED BY <2>1, <2>3, <3>2, <3>4
  <2> QED BY <2>1, <2>2, <2>4, Zenon
<1> QED BY <1>5, <1>6, <1>7

\* The server: customers write, what was asked for is applied, a reply is stored.
LEMMA InboxServerSteps ==
    ASSUME InboxInv,
           \/ \E c \in Conv : Page!Inbound(c) \/ Page!MarkReadApplied(c) \/ Page!MarkReadFails(c)
           \/ Page!PatchApplied \/ Page!SendStored
    PROVE  InboxInv'
<1>0. /\ convs \in [Conv -> Page!Row] /\ inbound \in 0 .. MaxInbound /\ sends \in 0 .. MaxSend
      /\ \A c \in Conv : convs[c].unread <= inbound /\ convs[c].n + OnItsWay <= inbound + sends
  BY Zenon DEF InboxInv, StoredInv, CountInv
<1>n. inbound \in Nat /\ sends \in Nat BY <1>0, InboxAssumption
<1>o. OnItsWay \in {0, 1} BY Zenon DEF OnItsWay
<1>1. ASSUME NEW c \in Conv, Page!Inbound(c) PROVE InboxInv'
  <2>1. /\ inbound < MaxInbound /\ inbound' = inbound + 1
        /\ convs' = [convs EXCEPT ![c].unread = @ + 1, ![c].n = @ + 1]
        /\ UNCHANGED <<list, listRead, msgs, msgsRead, stale, selected, tab, seen, marking, patch, send, owed>>
        /\ UNCHANGED <<sends, patches, missed>>
    BY <1>1, Zenon DEF Page!Inbound, Page!queries, Page!view
  <2>2. PICK r0 \in Page!Row : r0 = convs[c] BY <1>0
  <2>3. PICK r : r = [r0 EXCEPT !.unread = @ + 1, !.n = @ + 1] OBVIOUS
  <2>4. convs' = [convs EXCEPT ![c] = r] BY <1>0, <2>1, <2>2, <2>3
  <2>5. r0.unread \in Nat /\ r0.n \in Nat /\ r0.unread <= inbound /\ r0.n + OnItsWay <= inbound + sends
    <3>1. r0.unread \in Nat /\ r0.n \in Nat BY <2>2 DEF Page!Row
    <3> QED BY <1>0, <2>2, <3>1, Zenon
  <2>6. r.unread = r0.unread + 1 /\ r.n = r0.n + 1 BY <2>2, <2>3 DEF Page!Row
  <2>7. OnItsWay' = OnItsWay BY <2>1, Zenon DEF OnItsWay
  <2>8. PICK o \in {0, 1} : o = OnItsWay /\ o = OnItsWay' BY <1>o, <2>7, Zenon
  <2>9. r0.unread + 1 \in 0 .. MaxInbound /\ r0.n + 1 \in 0 .. MaxInbound + MaxSend
    BY <1>0, <2>1, <2>5, <2>8, InboxAssumption
  <2>10. r \in Page!Row BY <2>2, <2>3, <2>9 DEF Page!Row
  <2>11. /\ inbound' \in Nat /\ sends' \in Nat /\ inbound' >= inbound /\ sends' >= sends
         /\ r.unread <= inbound' /\ r.n >= convs[c].n /\ r.n + OnItsWay' <= inbound' + sends' /\ OnItsWay' <= OnItsWay
    BY <1>n, <2>1, <2>2, <2>5, <2>6, <2>8
  <2>12. StoredInv' /\ MsgsInv' /\ ShownInv' BY <2>1, <2>4, <2>10, <2>11, RowStep, Zenon
  <2>13. ViewInv' /\ PatchInv' /\ SendInv' BY <2>1, Zenon DEF InboxInv, ViewInv, PatchInv, SendInv
  <2>14. CountInv' BY <1>n, <2>1, InboxAssumption DEF InboxInv, CountInv
  <2> QED BY <2>12, <2>13, <2>14, Zenon DEF InboxInv
<1>2. ASSUME NEW c \in Conv, Page!MarkReadApplied(c) PROVE InboxInv'
  <2>1. /\ marking' = marking \ {c} /\ convs' = [convs EXCEPT ![c].unread = 0]
        /\ UNCHANGED <<list, listRead, msgs, msgsRead, stale, selected, tab, seen, patch, send, owed>>
        /\ UNCHANGED <<inbound, sends, patches, missed>>
    BY <1>2, Zenon DEF Page!MarkReadApplied, Page!queries, Page!view, Page!counts
  <2>2. PICK r0 \in Page!Row : r0 = convs[c] BY <1>0
  <2>3. PICK r : r = [r0 EXCEPT !.unread = 0] OBVIOUS
  <2>4. convs' = [convs EXCEPT ![c] = r] BY <1>0, <2>1, <2>2, <2>3
  <2>5. r0.n \in Nat /\ r0.n + OnItsWay <= inbound + sends
    <3>1. r0.n \in Nat BY <2>2 DEF Page!Row
    <3> QED BY <1>0, <2>2, <3>1, Zenon
  <2>6. r \in Page!Row /\ r.unread = 0 /\ r.n = r0.n BY <2>2, <2>3, InboxAssumption DEF Page!Row
  <2>7. OnItsWay' = OnItsWay BY <2>1, Zenon DEF OnItsWay
  <2>8. PICK o \in {0, 1} : o = OnItsWay /\ o = OnItsWay' BY <1>o, <2>7, Zenon
  <2>9. /\ inbound' \in Nat /\ sends' \in Nat /\ inbound' >= inbound /\ sends' >= sends
        /\ r.unread <= inbound' /\ r.n >= convs[c].n /\ r.n + OnItsWay' <= inbound' + sends' /\ OnItsWay' <= OnItsWay
    BY <1>n, <2>1, <2>2, <2>5, <2>6, <2>8
  <2>10. StoredInv' /\ MsgsInv' /\ ShownInv' BY <2>1, <2>4, <2>6, <2>9, RowStep, Zenon
  <2>11. CountInv' /\ PatchInv' /\ SendInv' BY <2>1, Zenon DEF InboxInv, CountInv, PatchInv, SendInv
  <2>12. ViewInv' BY <2>1, Zenon DEF InboxInv, ViewInv
  <2> QED BY <2>10, <2>11, <2>12, Zenon DEF InboxInv
<1>3. ASSUME NEW c \in Conv, Page!MarkReadFails(c) PROVE InboxInv'
  <2>1. /\ marking' = marking \ {c} /\ Page!Miss
        /\ UNCHANGED <<convs, list, listRead, msgs, msgsRead, stale, selected, tab, seen, patch, send, owed>>
    BY <1>3, Zenon DEF Page!MarkReadFails, Page!queries, Page!view
  <2>2. missed' = missed + 1 /\ missed < MaxMiss /\ UNCHANGED <<inbound, sends, patches>> BY <2>1, Zenon DEF Page!Miss
  <2>3. CountInv' BY <2>2, InboxAssumption DEF InboxInv, CountInv
  <2>4. ViewInv' BY <2>1, Zenon DEF InboxInv, ViewInv
  <2>5. PatchInv' BY <2>1, Zenon DEF InboxInv, PatchInv
  <2>6. StoredInv' /\ SendInv' /\ ShownInv' /\ MsgsInv' BY <2>1, <2>2, ViewOnly, Zenon DEF InboxInv, MsgsInv
  <2> QED BY <2>3, <2>4, <2>5, <2>6, Zenon DEF InboxInv
<1>4. CASE Page!PatchApplied
  <2>1. /\ patch.op # "none" /\ patch.op # "applied" /\ patch' = [patch EXCEPT !.op = "applied"]
        /\ UNCHANGED <<list, listRead, msgs, msgsRead, stale, selected, tab, seen, marking, send, owed>>
        /\ UNCHANGED <<inbound, sends, patches, missed>>
    BY <1>4, Zenon DEF Page!PatchApplied, Page!queries, Page!view, Page!counts
  <2>2. patch \in [op : {"claim", "unassign", "resolve", "reopen", "retry", "applied"}, of : Conv]
    <3>1. Page!NoPatch.op = "none" BY Zenon DEF Page!NoPatch
    <3> QED BY <2>1, <3>1, Zenon DEF InboxInv, PatchInv
  <2>3. PICK c \in Conv : c = patch.of BY <2>2
  <2>4. PICK r0 \in Page!Row : r0 = convs[c] BY <1>0
  <2>5. PICK r \in Page!Row : convs' = [convs EXCEPT ![c] = r] /\ r.unread = r0.unread /\ r.n = r0.n
    <3> DEFINE resolved == [r0 EXCEPT !.status = "RESOLVED"]
               opened == [r0 EXCEPT !.status = "OPEN"]
               claimed == [r0 EXCEPT !.assignee = Page!Me]
               released == [r0 EXCEPT !.assignee = "none"]
    <3>1. \A r \in {resolved, opened, claimed, released, r0} :
            r \in Page!Row /\ r.unread = r0.unread /\ r.n = r0.n
      BY <2>4 DEF Page!Row, Page!Me
    <3>2. \/ convs' = [convs EXCEPT ![c] = resolved] \/ convs' = [convs EXCEPT ![c] = opened]
          \/ convs' = [convs EXCEPT ![c] = claimed] \/ convs' = [convs EXCEPT ![c] = released] \/ convs' = convs
      BY <1>4, <2>1, <2>2, <2>3, <2>4 DEF Page!PatchApplied
    <3>3. convs = [convs EXCEPT ![c] = r0] BY <1>0, <2>4
    <3> HIDE DEF resolved, opened, claimed, released
    <3>4. PICK r \in {resolved, opened, claimed, released, r0} : convs' = [convs EXCEPT ![c] = r] BY <3>2, <3>3
    <3> QED BY <3>1, <3>4
  <2>6. r0.unread \in Nat /\ r0.n \in Nat /\ r0.unread <= inbound /\ r0.n + OnItsWay <= inbound + sends
    <3>1. r0.unread \in Nat /\ r0.n \in Nat BY <2>4 DEF Page!Row
    <3> QED BY <1>0, <2>4, <3>1, Zenon
  <2>7. OnItsWay' = OnItsWay BY <2>1, Zenon DEF OnItsWay
  <2>8. PICK o \in {0, 1} : o = OnItsWay /\ o = OnItsWay' BY <1>o, <2>7, Zenon
  <2>9. /\ inbound' \in Nat /\ sends' \in Nat /\ inbound' >= inbound /\ sends' >= sends
        /\ r.unread <= inbound' /\ r.n >= convs[c].n /\ r.n + OnItsWay' <= inbound' + sends' /\ OnItsWay' <= OnItsWay
    BY <1>n, <2>1, <2>4, <2>5, <2>6, <2>8
  <2>10. StoredInv' /\ MsgsInv' /\ ShownInv' BY <2>1, <2>5, <2>9, RowStep, Zenon
  <2>11. PatchInv' BY <2>1, <2>2 DEF PatchInv
  <2>12. ViewInv' /\ CountInv' /\ SendInv' BY <2>1, Zenon DEF InboxInv, ViewInv, CountInv, SendInv
  <2> QED BY <2>10, <2>11, <2>12, Zenon DEF InboxInv
<1>5. CASE Page!SendStored
  <2>1. /\ send # Page!NoSend /\ ~send.stored
        /\ convs' = [convs EXCEPT ![send.of].n = @ + 1, ![send.of].unread = 0]
        /\ UNCHANGED <<list, listRead, msgs, msgsRead, stale, selected, tab, seen, marking, patch, owed>>
        /\ UNCHANGED <<inbound, sends, patches, missed>>
    BY <1>5, Zenon DEF Page!SendStored, Page!queries, Page!view, Page!counts
  <2>2. PICK c \in Conv, p \in Msg, b \in BOOLEAN : send = [of |-> c, previous |-> p, stored |-> b]
    <3>1. send \in [of : Conv, previous : Msg, stored : BOOLEAN] BY <2>1, Zenon DEF InboxInv, SendInv
    <3> QED BY <3>1
  <2>3. send' = [send EXCEPT !.stored = TRUE] BY <1>5, Zenon DEF Page!SendStored
  <2>4. send' = [of |-> c, previous |-> p, stored |-> TRUE]
    <3>1. PICK d : d = TRUE /\ send' = [send EXCEPT !.stored = d] BY <2>3, Zenon
    <3>2. send' = [of |-> c, previous |-> p, stored |-> d] BY <2>2, <3>1
    <3> QED BY <3>1, <3>2, Zenon
  <2>5. send'.of = send.of /\ send.of = c /\ send'.stored = TRUE BY <2>2, <2>4, Zenon
  <2>6. SendInv' BY <2>4, Zenon DEF SendInv
  <2>7. OnItsWay = 1 /\ OnItsWay' = 0 BY <2>1, <2>5, Zenon DEF OnItsWay
  <2>8. PICK r0 \in Page!Row : r0 = convs[c] BY <1>0
  <2>9. PICK r : r = [r0 EXCEPT !.n = @ + 1, !.unread = 0] OBVIOUS
  <2>10. convs' = [convs EXCEPT ![c] = r] BY <1>0, <2>1, <2>5, <2>8, <2>9
  <2>11. r0.n \in Nat /\ r0.n + OnItsWay <= inbound + sends
    <3>1. r0.n \in Nat BY <2>8 DEF Page!Row
    <3> QED BY <1>0, <2>8, <3>1, Zenon
  <2>12. r0.n + 1 \in 0 .. MaxInbound + MaxSend BY <1>0, <2>7, <2>11, InboxAssumption
  <2>13. r \in Page!Row /\ r.unread = 0 /\ r.n = r0.n + 1
    <3>1. 0 \in 0 .. MaxInbound BY InboxAssumption
    <3>2. PICK k \in 0 .. MaxInbound + MaxSend : k = r0.n + 1 BY <2>12
    <3>3. r = [r0 EXCEPT !.n = k, !.unread = 0] BY <2>9, <3>2
    <3>4. r = [status |-> r0.status, assignee |-> r0.assignee, unread |-> 0, n |-> k] BY <2>8, <3>3 DEF Page!Row
    <3>5. r0.status \in {"OPEN", "RESOLVED"} /\ r0.assignee \in {"none", Page!Me} BY <2>8 DEF Page!Row
    <3> QED BY <3>1, <3>2, <3>4, <3>5 DEF Page!Row
  <2>14. /\ inbound' \in Nat /\ sends' \in Nat /\ inbound' >= inbound /\ sends' >= sends
         /\ r.unread <= inbound' /\ r.n >= convs[c].n /\ r.n + OnItsWay' <= inbound' + sends' /\ OnItsWay' <= OnItsWay
    BY <1>n, <2>1, <2>7, <2>8, <2>11, <2>13
  <2>15. StoredInv' /\ MsgsInv' /\ ShownInv' BY <2>1, <2>5, <2>10, <2>13, <2>14, RowStep, Zenon
  <2>16. ViewInv' /\ CountInv' /\ PatchInv' BY <2>1, Zenon DEF InboxInv, ViewInv, CountInv, PatchInv
  <2> QED BY <2>6, <2>15, <2>16, Zenon DEF InboxInv
<1> QED BY <1>1, <1>2, <1>3, <1>4, <1>5

\* A conversation whose queries are invalidated is shown as it is, soon.
LEMMA Refetched ==
    ASSUME InboxInv, NEW c \in Conv, Page!Invalidate({"list", c}), UNCHANGED convs, msgs' \in [Conv -> Msg],
           owed' \in [Conv -> 0 .. MaxInbound + MaxSend], convs[c].n >= owed'[c],
           \A x \in Conv : x = c \/ (msgs'[x] = msgs[x] /\ owed'[x] = owed[x] /\ (send.of = x => send'.of = x))
    PROVE  MsgsInv' /\ ShownInv'
<1>0. Page!NoRead.of = "none" BY Zenon DEF Page!NoRead
<1>1. /\ stale' = stale \cup {"list", c} /\ stale' \subseteq Page!Key
      /\ msgsRead' = Page!NoRead \/ msgsRead' = msgsRead
      /\ \A x \in Conv \ {c} : msgsRead.of = x => msgsRead' = msgsRead
      /\ msgsRead'.of # c
  BY InvalidateStep, Zenon DEF InboxInv
<1>2. MsgsInv' BY <1>1, Zenon DEF InboxInv, MsgsInv
<1>3. ShownInv'
  <2> SUFFICES ASSUME NEW x \in Conv
               PROVE  /\ convs'[x].n >= owed'[x] /\ (msgsRead'.of = x => msgsRead'.n >= owed'[x])
                      /\ Behind(x)' => x \in stale' \/ send'.of = x \/ msgsRead'.of = x
    BY Zenon DEF ShownInv
  <2>1. CASE x = c BY <1>1, <2>1, Zenon
  <2>2. CASE x # c
    <3>1. /\ convs[x].n >= owed[x] /\ (msgsRead.of = x => msgsRead.n >= owed[x])
          /\ Behind(x) => x \in stale \/ send.of = x \/ msgsRead.of = x
      BY Zenon DEF InboxInv, ShownInv
    <3>2. msgs'[x] = msgs[x] /\ owed'[x] = owed[x] /\ (send.of = x => send'.of = x) BY <2>2, Zenon
    <3>3. Behind(x)' = Behind(x) BY <3>2, Zenon DEF Behind
    <3>4. x # "none" BY InboxAssumption
    <3>5. msgsRead.of = x => msgsRead' = msgsRead BY <1>1, <2>2, Zenon
    <3>6. msgsRead'.of = x => msgsRead' = msgsRead BY <1>0, <1>1, <3>4, Zenon
    <3> QED BY <1>1, <3>1, <3>2, <3>3, <3>5, <3>6, Zenon
  <2> QED BY <2>1, <2>2
<1> QED BY <1>2, <1>3

\* A change is asked for: of what is shown.
LEMMA PatchStep ==
    ASSUME InboxInv, Page!Shown # {}, NEW op \in {"claim", "unassign", "resolve", "reopen", "retry"}, Page!Patch(op),
           UNCHANGED <<inbound, sends, missed>>
    PROVE  PatchInv' /\ CountInv' /\ selected \in Conv /\ list \in [Conv -> Page!Summary]
<1>1. selected # "none" /\ list # Page!NoRows BY Zenon DEF Page!Shown
<1>2. selected \in Conv BY <1>1, Zenon DEF InboxInv, ViewInv, Page!Maybe
<1>3. list \in [Conv -> Page!Summary] BY <1>1, Zenon DEF InboxInv, ViewInv
<1>4. patch' = [op |-> op, of |-> selected] /\ patches < MaxPatch /\ patches' = patches + 1 BY Zenon DEF Page!Patch
<1>5. PatchInv' BY <1>2, <1>4 DEF PatchInv
<1>6. CountInv' BY <1>4, InboxAssumption DEF InboxInv, CountInv
<1> QED BY <1>2, <1>3, <1>5, <1>6

\* Changes of a conversation.
LEMMA InboxChangeSteps ==
    ASSUME InboxInv,
           \/ Page!claim \/ Page!resolve \/ Page!reopen \/ Page!updateAssignee \/ Page!retryMessage \/ Page!PatchSettles
    PROVE  InboxInv'
<1>1. CASE Page!claim \/ Page!reopen \/ Page!updateAssignee \/ Page!retryMessage
  <2>1. /\ Page!Shown # {}
        /\ UNCHANGED <<convs, list, listRead, msgs, msgsRead, stale, selected, tab, seen, marking, send, owed>>
        /\ UNCHANGED <<inbound, sends, missed>>
    BY <1>1, Zenon DEF Page!claim, Page!reopen, Page!updateAssignee, Page!retryMessage, Page!queries, Page!view
  <2>2. PICK op \in {"claim", "unassign", "resolve", "reopen", "retry"} : Page!Patch(op)
    BY <1>1, Zenon DEF Page!claim, Page!reopen, Page!updateAssignee, Page!retryMessage
  <2>3. PatchInv' /\ CountInv' BY <2>1, <2>2, PatchStep, Zenon
  <2>4. ViewInv' BY <2>1, ViewLeft, Zenon DEF InboxInv
  <2>5. StoredInv' /\ SendInv' /\ ShownInv' /\ MsgsInv' BY <2>1, ViewOnly, Zenon DEF InboxInv, MsgsInv
  <2> QED BY <2>3, <2>4, <2>5, Zenon DEF InboxInv
<1>2. CASE Page!resolve
  <2>1. /\ Page!Shown # {} /\ Page!Patch("resolve")
        /\ UNCHANGED <<convs, listRead, msgs, msgsRead, stale, tab, send, owed>> /\ UNCHANGED <<inbound, sends, missed>>
    BY <1>2, Zenon DEF Page!resolve
  <2>2. PICK s \in (Page!filterQueue(list, tab) \ {selected}) \cup {selected} : Page!Render(s, list)
    BY <1>2, Zenon DEF Page!resolve
  <2>3. PatchInv' /\ CountInv' /\ selected \in Conv /\ list \in [Conv -> Page!Summary] BY <2>1, PatchStep, Zenon
  <2>4. s \in Page!Maybe BY <2>2, <2>3, Zenon DEF Page!filterQueue, Page!Maybe
  <2>5. /\ list' \in [Conv -> Page!Summary] /\ selected' \in Page!Maybe
        /\ seen' \in Page!Maybe \X (0 .. MaxInbound) /\ marking' \subseteq Conv
    BY <2>2, <2>3, <2>4, RenderStep, Zenon DEF InboxInv, ViewInv
  <2>6. ViewInv' BY <2>1, <2>5, Zenon DEF InboxInv, ViewInv
  <2>7. StoredInv' /\ SendInv' /\ ShownInv' /\ MsgsInv' BY <2>1, ViewOnly, Zenon DEF InboxInv, MsgsInv
  <2> QED BY <2>3, <2>6, <2>7, Zenon DEF InboxInv
<1>3. CASE Page!PatchSettles
  <2>1. /\ patch # Page!NoPatch /\ patch' = Page!NoPatch /\ Page!Invalidate({"list", patch.of})
        /\ UNCHANGED <<convs, list, msgs, selected, tab, seen, marking, send, owed>>
        /\ UNCHANGED <<inbound, sends, patches>> /\ (UNCHANGED missed \/ (missed < MaxMiss /\ missed' = missed + 1))
    BY <1>3, Zenon DEF Page!PatchSettles, Page!view, Page!counts, Page!Miss
  <2>2. PICK c \in Conv : c = patch.of BY <2>1 DEF InboxInv, PatchInv
  <2>3. Page!Invalidate({"list", c}) BY <2>1, <2>2, Zenon
  <2>4. listRead' = Page!NoRows BY <2>3, InvalidateStep, Zenon DEF InboxInv
  <2>5. ViewInv' BY <2>1, <2>4, Zenon DEF InboxInv, ViewInv
  <2>6. CountInv' BY <2>1, InboxAssumption DEF InboxInv, CountInv
  <2>7. PatchInv' /\ SendInv' /\ StoredInv' BY <2>1, Zenon DEF InboxInv, PatchInv, SendInv, StoredInv, OnItsWay
  <2>8. MsgsInv' /\ ShownInv'
    <3>1. msgs' \in [Conv -> Msg] /\ owed' \in [Conv -> 0 .. MaxInbound + MaxSend] BY <2>1, Zenon DEF InboxInv, MsgsInv
    <3>2. convs[c].n >= owed'[c] BY <2>1, Zenon DEF InboxInv, ShownInv
    <3> QED BY <2>1, <2>3, <3>1, <3>2, Refetched, Zenon
  <2> QED BY <2>5, <2>6, <2>7, <2>8, Zenon DEF InboxInv
<1> QED BY <1>1, <1>2, <1>3

\* A reply is sent, and its answer comes or does not.
LEMMA InboxSendSteps ==
    ASSUME InboxInv, Page!sendMessage \/ Page!SendSucceeds \/ Page!SendFails PROVE InboxInv'
<1>0. /\ convs \in [Conv -> Page!Row] /\ inbound \in Nat /\ sends \in Nat
      /\ \A c \in Conv : convs[c].unread <= inbound /\ convs[c].n + OnItsWay <= inbound + sends
  <2>1. inbound \in 0 .. MaxInbound /\ sends \in 0 .. MaxSend BY Zenon DEF InboxInv, CountInv
  <2>2. inbound \in Nat /\ sends \in Nat BY <2>1, InboxAssumption
  <2> QED BY <2>2, Zenon DEF InboxInv, StoredInv
<1>o. OnItsWay \in {0, 1} BY Zenon DEF OnItsWay
<1>r. \A c \in Conv : convs[c].n \in 0 .. MaxInbound + MaxSend
  <2> SUFFICES ASSUME NEW c \in Conv PROVE convs[c].n \in 0 .. MaxInbound + MaxSend OBVIOUS
  <2>1. convs[c] \in Page!Row BY <1>0
  <2> QED BY <2>1 DEF Page!Row
<1>m. msgs \in [Conv -> Msg] /\ owed \in [Conv -> 0 .. MaxInbound + MaxSend] BY Zenon DEF InboxInv, MsgsInv
<1>1. CASE Page!sendMessage
  <2>1. /\ Page!Shown # {} /\ send = Page!NoSend /\ sends < MaxSend /\ Page!Mutate(selected)
        /\ UNCHANGED <<convs, list, listRead, stale, selected, tab, seen, marking, patch, owed>>
        /\ UNCHANGED <<inbound, patches, missed>>
    BY <1>1, Zenon DEF Page!sendMessage, Page!view
  <2>2. PICK c \in Conv : c = selected
    <3>1. selected # "none" BY <2>1, Zenon DEF Page!Shown
    <3>2. selected \in Conv BY <3>1, Zenon DEF InboxInv, ViewInv, Page!Maybe
    <3> QED BY <3>2
  <2>3. /\ send' = [of |-> c, previous |-> msgs[c], stored |-> FALSE] /\ sends' = sends + 1
        /\ msgsRead' = (IF msgsRead.of = c THEN Page!NoRead ELSE msgsRead)
        /\ msgs' = [msgs EXCEPT ![c].has = TRUE, ![c].pending = TRUE]
    BY <2>1, <2>2, Zenon DEF Page!Mutate
  <2>4. send'.of = c /\ send'.stored = FALSE BY <2>3, Zenon
  <2>5. SendInv' BY <1>m, <2>3, Zenon DEF SendInv
  <2>6. ViewInv' /\ PatchInv' BY <2>1, Zenon DEF InboxInv, ViewInv, PatchInv
  <2>7. CountInv' BY <2>1, <2>3, InboxAssumption DEF InboxInv, CountInv
  <2>8. StoredInv'
    <3>1. OnItsWay = 0 BY <2>1, Zenon DEF OnItsWay
    <3> SUFFICES ASSUME NEW x \in Conv
                 PROVE  convs'[x].unread <= inbound' /\ convs'[x].n + OnItsWay' <= inbound' + sends'
      BY <1>0, <2>1, Zenon DEF StoredInv
    <3>2. OnItsWay' \in {0, 1} BY Zenon DEF OnItsWay
    <3>3. convs[x].n \in Nat /\ convs[x].n <= inbound + sends /\ convs[x].unread <= inbound BY <1>0, <1>r, <3>1
    <3> QED BY <1>0, <2>1, <2>3, <3>2, <3>3
  <2>9. PICK m \in Msg : m = msgs[c] BY <1>m
  <2>10. PICK k \in Msg : msgs' = [msgs EXCEPT ![c] = k]
    <3>1. msgs' = [msgs EXCEPT ![c] = [m EXCEPT !.has = TRUE, !.pending = TRUE]] BY <1>m, <2>3, <2>9
    <3>2. [m EXCEPT !.has = TRUE, !.pending = TRUE] \in Msg BY DEF Msg
    <3> QED BY <3>1, <3>2
  <2>11. msgs' \in [Conv -> Msg] /\ \A x \in Conv : x = c \/ msgs'[x] = msgs[x] BY <1>m, <2>10
  <2>12. MsgsInv' BY <2>1, <2>3, <2>11, Zenon DEF InboxInv, MsgsInv
  <2>13. ShownInv'
    <3>1. Page!NoRead.of = "none" BY Zenon DEF Page!NoRead
    <3> SUFFICES ASSUME NEW x \in Conv
                 PROVE  /\ convs'[x].n >= owed'[x] /\ (msgsRead'.of = x => msgsRead'.n >= owed'[x])
                        /\ Behind(x)' => x \in stale' \/ send'.of = x \/ msgsRead'.of = x
      BY Zenon DEF ShownInv
    <3>2. x # "none" BY InboxAssumption
    <3>3. /\ convs[x].n >= owed[x] /\ (msgsRead.of = x => msgsRead.n >= owed[x])
          /\ Behind(x) => x \in stale \/ send.of = x \/ msgsRead.of = x
      BY Zenon DEF InboxInv, ShownInv
    <3>4. msgsRead'.of = x => msgsRead' = msgsRead BY <2>3, <3>1, <3>2, Zenon
    <3>5. CASE x = c BY <2>1, <2>4, <3>3, <3>4, <3>5, Zenon
    <3>6. CASE x # c
      <4>1. Behind(x)' = Behind(x) BY <2>1, <2>11, <3>6, Zenon DEF Behind
      <4>2. send.of # x BY <2>1, <3>2 DEF Page!NoSend
      <4>3. msgsRead.of = x => msgsRead' = msgsRead BY <2>3, <3>6, Zenon
      <4> QED BY <2>1, <3>3, <3>4, <4>1, <4>2, <4>3, Zenon
    <3> QED BY <3>5, <3>6
  <2> QED BY <2>5, <2>6, <2>7, <2>8, <2>12, <2>13, Zenon DEF InboxInv
<1>s. ASSUME send # Page!NoSend PROVE send \in [of : Conv, previous : Msg, stored : BOOLEAN]
  BY <1>s, Zenon DEF InboxInv, SendInv
<1>t. ASSUME send' = Page!NoSend, UNCHANGED <<convs, inbound, sends>> PROVE SendInv' /\ StoredInv'
  <2>1. SendInv' BY <1>t, Zenon DEF SendInv
  <2>2. OnItsWay' = 0 BY <1>t, Zenon DEF OnItsWay
  <2> SUFFICES ASSUME NEW x \in Conv
               PROVE  convs'[x].unread <= inbound' /\ convs'[x].n + OnItsWay' <= inbound' + sends'
    BY <1>0, <1>t, <2>1, Zenon DEF StoredInv
  <2>3. convs[x].n \in Nat /\ convs[x].n + OnItsWay <= inbound + sends /\ convs[x].unread <= inbound BY <1>0, <1>r
  <2> QED BY <1>0, <1>o, <1>t, <2>2, <2>3
<1>2. CASE Page!SendSucceeds
  <2>1. /\ send # Page!NoSend /\ send' = Page!NoSend /\ owed' = [owed EXCEPT ![send.of] = convs[send.of].n]
        /\ Page!Invalidate({"list", send.of})
        /\ UNCHANGED <<convs, list, msgs, selected, tab, seen, marking, patch>>
        /\ UNCHANGED <<inbound, sends, patches, missed>>
    BY <1>2, Zenon DEF Page!SendSucceeds, Page!view, Page!counts
  <2>2. PICK c \in Conv : c = send.of BY <1>s, <2>1
  <2>3. Page!Invalidate({"list", c}) BY <2>1, <2>2, Zenon
  <2>4. listRead' = Page!NoRows BY <2>3, InvalidateStep, Zenon DEF InboxInv
  <2>5. ViewInv' /\ CountInv' /\ PatchInv' BY <2>1, <2>4, Zenon DEF InboxInv, ViewInv, CountInv, PatchInv
  <2>6. SendInv' /\ StoredInv' BY <1>t, <2>1, Zenon
  <2>7. MsgsInv' /\ ShownInv'
    <3>1. owed' = [owed EXCEPT ![c] = convs[c].n] BY <2>1, <2>2, Zenon
    <3>2. /\ owed' \in [Conv -> 0 .. MaxInbound + MaxSend] /\ owed'[c] = convs[c].n
          /\ \A x \in Conv : x = c \/ owed'[x] = owed[x]
      BY <1>m, <1>r, <3>1
    <3>3. convs[c].n >= owed'[c] BY <1>r, <3>2
    <3>4. msgs' \in [Conv -> Msg] BY <1>m, <2>1, Zenon
    <3>5. \A x \in Conv : x = c \/ (msgs'[x] = msgs[x] /\ owed'[x] = owed[x] /\ (send.of = x => send'.of = x))
      BY <2>1, <2>2, <3>2, Zenon
    <3> QED BY <2>1, <2>3, <3>2, <3>3, <3>4, <3>5, Refetched, Zenon
  <2> QED BY <2>5, <2>6, <2>7, Zenon DEF InboxInv
<1>3. CASE Page!SendFails
  <2>1. /\ send # Page!NoSend /\ send' = Page!NoSend /\ Page!Miss
        /\ msgs' = (IF send.previous.has THEN [msgs EXCEPT ![send.of] = send.previous] ELSE msgs)
        /\ Page!Invalidate({"list", send.of})
        /\ UNCHANGED <<convs, list, selected, tab, seen, marking, patch, owed>>
    BY <1>3, Zenon DEF Page!SendFails, Page!view
  <2>2. missed' = missed + 1 /\ missed < MaxMiss /\ UNCHANGED <<inbound, sends, patches>> BY <2>1, Zenon DEF Page!Miss
  <2>3. PICK c \in Conv : c = send.of BY <1>s, <2>1
  <2>4. Page!Invalidate({"list", c}) BY <2>1, <2>3, Zenon
  <2>5. listRead' = Page!NoRows BY <2>4, InvalidateStep, Zenon DEF InboxInv
  <2>6. ViewInv' /\ PatchInv' BY <2>1, <2>5, Zenon DEF InboxInv, ViewInv, PatchInv
  <2>7. CountInv' BY <2>2, InboxAssumption DEF InboxInv, CountInv
  <2>8. SendInv' /\ StoredInv' BY <1>t, <2>1, <2>2, Zenon
  <2>9. MsgsInv' /\ ShownInv'
    <3>1. PICK p \in Msg : p = send.previous BY <1>s, <2>1
    <3>2. msgs' = [msgs EXCEPT ![c] = p] \/ msgs' = msgs BY <2>1, <2>3, <3>1, Zenon
    <3>3. msgs' \in [Conv -> Msg] /\ \A x \in Conv : x = c \/ msgs'[x] = msgs[x] BY <1>m, <3>2
    <3>4. owed' \in [Conv -> 0 .. MaxInbound + MaxSend] BY <1>m, <2>1, Zenon
    <3>5. convs[c].n >= owed'[c] BY <2>1, Zenon DEF InboxInv, ShownInv
    <3>6. \A x \in Conv : x = c \/ (msgs'[x] = msgs[x] /\ owed'[x] = owed[x] /\ (send.of = x => send'.of = x))
      BY <2>1, <2>3, <3>3, Zenon
    <3> QED BY <2>1, <2>4, <3>3, <3>4, <3>5, <3>6, Refetched, Zenon
  <2> QED BY <2>6, <2>7, <2>8, <2>9, Zenon DEF InboxInv
<1> QED BY <1>1, <1>2, <1>3

\* Every step of the page.
LEMMA InboxNext == ASSUME InboxInv, Page!ReplyNext \/ Page!ManageNext PROVE InboxInv'
BY InboxListSteps, InboxReadSteps, InboxServerSteps, InboxChangeSteps, InboxSendSteps
   DEF Page!ReplyNext, Page!ManageNext, Page!Reading

\* What the invariant says of the page.
LEMMA InboxFacts == InboxInv => Page!TypeOK /\ Page!NoGhostMessage
<1> SUFFICES ASSUME InboxInv PROVE Page!TypeOK /\ Page!NoGhostMessage OBVIOUS
<1>0. "none" \notin Conv /\ 0 \in 0 .. MaxInbound + MaxSend BY InboxAssumption
<1>1. Page!TypeOK
  <2>1. msgsRead \in [of : Page!Maybe, n : 0 .. MaxInbound + MaxSend]
    <3>1. Page!NoRead \in [of : Page!Maybe, n : 0 .. MaxInbound + MaxSend] BY <1>0, Zenon DEF Page!NoRead, Page!Maybe
    <3>2. CASE msgsRead = Page!NoRead BY <3>1, <3>2, Zenon
    <3>3. CASE msgsRead \in [of : Conv, n : 0 .. MaxInbound + MaxSend] BY <3>3 DEF Page!Maybe
    <3> QED BY <3>2, <3>3, Zenon DEF InboxInv, MsgsInv
  <2>2. patch.of \in Page!Maybe
    <3>1. Page!NoPatch.of = "none" BY Zenon DEF Page!NoPatch
    <3>2. patch = Page!NoPatch \/ patch.of \in Conv BY DEF InboxInv, PatchInv
    <3> QED BY <3>1, <3>2, Zenon DEF Page!Maybe
  <2>3. send.of \in Page!Maybe
    <3>1. Page!NoSend.of = "none" BY Zenon DEF Page!NoSend
    <3>2. CASE send = Page!NoSend BY <3>1, <3>2, Zenon DEF Page!Maybe
    <3>3. CASE send \in [of : Conv, previous : Msg, stored : BOOLEAN] BY <3>3 DEF Page!Maybe
    <3> QED BY <3>2, <3>3, Zenon DEF InboxInv, SendInv
  <2>4. inbound <= MaxInbound /\ sends <= MaxSend /\ patches <= MaxPatch /\ missed <= MaxMiss
    BY InboxAssumption DEF InboxInv, CountInv
  <2> QED BY <2>1, <2>2, <2>3, <2>4, Zenon DEF InboxInv, ViewInv, StoredInv, MsgsInv, Msg, Page!TypeOK
<1>2. Page!NoGhostMessage
  <2> SUFFICES ASSUME selected # "none", send = Page!NoSend, msgsRead = Page!NoRead, selected \notin stale
               PROVE  ~msgs[selected].pending /\ msgs[selected].n >= owed[selected]
    BY Zenon DEF Page!NoGhostMessage
  <2>1. selected \in Conv BY Zenon DEF InboxInv, ViewInv, Page!Maybe
  <2>2. send.of = "none" /\ msgsRead.of = "none" BY Zenon DEF Page!NoSend, Page!NoRead
  <2>3. ~Behind(selected) BY <2>1, <2>2, Zenon DEF InboxInv, ShownInv
  <2> QED BY <2>3, Zenon DEF Behind
<1> QED BY <1>1, <1>2


-----------------------------------------------------------------------------
(* The client *)

CampaignInv == WizardInv /\ BlastInv /\ Overlap /\ OneDispatch

\* What the steps of each part rest on.
ClientInv ==
    /\ part = "sync" => SyncInv
    /\ part = "session" => SessInv
    /\ part \in {"panel", "dialog"} => PageInv
    /\ part \in {"wizard", "blast"} => CampaignInv
    /\ part \in {"reply", "manage"} => InboxInv
    /\ part = "preview" => PreviewInv /\ MemoryInv
    /\ part = "store" => StoreInv

\* A step of the client is one of its part, and leaves the others alone.
LEMMA OnePart ==
    ASSUME [ClientNext]_allvars
    PROVE  /\ part' = part
           /\ UNCHANGED svars \/ (part = "sync" /\ Sync!Next)
           /\ UNCHANGED nvars \/ (part = "session" /\ Session!Next)
           /\ UNCHANGED yvars \/ (part \in {"reply", "manage"} /\ (Page!ReplyNext \/ Page!ManageNext))
           /\ UNCHANGED hvars \/ (part \in {"panel", "dialog"} /\ (Setup!PanelNext \/ Setup!DialogNext))
           /\ UNCHANGED bvars \/ (part = "wizard" /\ Broadcast!WizardNext)
           /\ UNCHANGED uvars \/ (part = "blast" /\ Broadcast!BlastNext)
           /\ UNCHANGED avars \/ (part = "preview" /\ Preview!Next)
           /\ UNCHANGED evars \/ (part = "store" /\ Store!Next)
BY DEF ClientNext, allvars

\* Every part starts in its invariant.
LEMMA ClientInvInit == ClientInit => ClientInv
<1> SUFFICES ASSUME ClientInit PROVE ClientInv OBVIOUS
<1>1. CampaignInv BY WizardInit, BlastInit, Zenon DEF ClientInit, Broadcast!Init, CampaignInv
<1>2. PageInv BY PageInit, Zenon DEF ClientInit
<1>3. InboxInv
  <2>1. tab \in {"all", "mine"} BY Zenon DEF ClientInit
  <2> QED BY <2>1, InboxInit, Zenon DEF ClientInit
<1>4. PreviewInv /\ MemoryInv BY PreviewInit, MemoryInit, Zenon DEF ClientInit
<1> QED BY <1>1, <1>2, <1>3, <1>4, SyncInit, SessInit, StoreInit, Zenon DEF ClientInit, ClientInv

\* A part that is left alone stays in its invariant.
LEMMA PageLeft == ASSUME PageInv, UNCHANGED hvars PROVE PageInv'
<1>1. /\ UNCHANGED <<source, srv, rows, read, selectedId, panel, saves, removal, tests, connectOpen, reconnectId, modal>>
      /\ UNCHANGED <<requests, ops, others, fails>>
  BY DEF hvars
<1>2. SourceOK' /\ NoReconnect' /\ Counts' /\ RemovalOK' BY <1>1, Zenon DEF PageInv, SourceOK, NoReconnect, Counts, RemovalOK
<1>3. SetupInv' BY <1>1, Zenon DEF PageInv, SetupInv
<1>4. ListInv' /\ ListFlags' BY <1>1, Zenon DEF PageInv, ListInv, ListFlags
<1>5. InMemory' BY <1>1, Zenon DEF PageInv, InMemory
<1>6. PanelInv' BY <1>1, Zenon DEF PageInv, PanelInv
<1>7. DialogInv' BY <1>1, Zenon DEF PageInv, DialogInv
<1>8. connectOpen' \in BOOLEAN BY <1>1, Zenon DEF PageInv
<1> QED BY <1>2, <1>3, <1>4, <1>5, <1>6, <1>7, <1>8, Zenon DEF PageInv

LEMMA WizardLeft == ASSUME WizardInv, UNCHANGED bvars PROVE WizardInv'
<1>1. UNCHANGED <<wizard, campaigns, step, name, audience, template, throttle, schedule, state, typed, paused, telemetry,
                  authorised>>
  BY DEF bvars
<1>2. WizardTypes' /\ StepOK' /\ WizardFlags' BY <1>1, Zenon DEF WizardInv, WizardTypes, StepOK, WizardFlags
<1>3. Authorised' /\ Counted' BY <1>1, Zenon DEF WizardInv, Authorised, Counted
<1> QED BY <1>1, <1>2, <1>3, Zenon DEF WizardInv

LEMMA BlastLeft ==
    ASSUME BlastInv, Overlap, OneDispatch, UNCHANGED uvars PROVE BlastInv' /\ Overlap' /\ OneDispatch'
<1>1. UNCHANGED <<blast, lines, loads, dispatched, intervals, files, overlapped>> BY DEF uvars
<1>2. BlastInv' /\ Overlap' BY <1>1, Zenon DEF BlastInv, Overlap
<1>3. OneDispatch' BY <1>1, Zenon DEF OneDispatch
<1> QED BY <1>2, <1>3

LEMMA InboxLeft == ASSUME InboxInv, UNCHANGED yvars PROVE InboxInv'
<1>1. /\ UNCHANGED <<convs, list, listRead, msgs, msgsRead, stale, selected, tab, seen, marking, patch, send, owed>>
      /\ UNCHANGED <<inbound, sends, patches, missed>>
  BY DEF yvars
<1>2. ViewInv' /\ CountInv' /\ PatchInv' BY <1>1, Zenon DEF InboxInv, ViewInv, CountInv, PatchInv
<1>3. StoredInv' /\ SendInv' /\ ShownInv' /\ MsgsInv' BY <1>1, ViewOnly, Zenon DEF InboxInv, MsgsInv
<1> QED BY <1>2, <1>3, Zenon DEF InboxInv

LEMMA MemoryLeft == ASSUME MemoryInv, UNCHANGED avars PROVE MemoryInv'
<1>1. UNCHANGED <<general, chat, entries, queue, timer, chatSession, answer, turns>> BY DEF avars
<1> QED BY <1>1, Zenon DEF MemoryInv, Pending, Preview!QueueIsTimed, Preview!AnswersFromMemory

\* A step of one part leaves the others in theirs.
LEMMA ClientInvNext == ClientInv /\ [ClientNext]_allvars => ClientInv'
<1> SUFFICES ASSUME ClientInv, [ClientNext]_allvars PROVE ClientInv' OBVIOUS
<1>1. part = "sync" => SyncInv'
  <2>1. CASE UNCHANGED svars
    BY <2>1 DEF ClientInv, svars, SyncInv, SyncTypes, SyncFlags, FetchPending, RelayInv, Sync!NoFetch
  <2> QED BY <2>1, OnePart, SyncNext DEF ClientInv
<1>2. part = "session" => SessInv'
  <2>1. CASE UNCHANGED nvars BY <2>1 DEF ClientInv, nvars, SessInv, SessTypes, SessFlags, SessOne, SessDev
  <2> QED BY <2>1, OnePart, SessNext DEF ClientInv
<1>3. part \in {"panel", "dialog"} => PageInv' BY OnePart, PageLeft, PageNext, Zenon DEF ClientInv
<1>7. part \in {"wizard", "blast"} => CampaignInv'
  <2> SUFFICES ASSUME CampaignInv PROVE CampaignInv' BY Zenon DEF ClientInv
  <2>1. WizardInv' BY OnePart, WizardLeft, WizardNext, Zenon DEF CampaignInv
  <2>2. BlastInv' /\ Overlap' /\ OneDispatch' BY OnePart, BlastLeft, BlastNext, Zenon DEF CampaignInv
  <2> QED BY <2>1, <2>2, Zenon DEF CampaignInv
<1>8. part \in {"reply", "manage"} => InboxInv' BY OnePart, InboxLeft, InboxNext, Zenon DEF ClientInv
<1>4. part = "preview" => PreviewInv' /\ MemoryInv'
  <2> SUFFICES ASSUME PreviewInv, MemoryInv PROVE PreviewInv' /\ MemoryInv' BY Zenon DEF ClientInv
  <2>1. CASE UNCHANGED avars
    <3>1. PreviewInv' BY <2>1 DEF avars, PreviewInv, ChatOK, Shaped
    <3>2. MemoryInv' BY <2>1, MemoryLeft, Zenon
    <3> QED BY <3>1, <3>2
  <2>2. CASE Preview!Next BY <2>2, PreviewNext, MemoryNext, Zenon
  <2> QED BY <2>1, <2>2, OnePart, Zenon
<1>5. part = "store" => StoreInv'
  <2>1. CASE UNCHANGED evars /\ part = "store"
    <3>1. StoreInv BY <2>1 DEF ClientInv
    <3>2. UNCHANGED evars BY <2>1
    <3>3. ShelvesInv' BY <3>1, <3>2, ShelvesKept DEF evars, StoreInv
    <3>4. NullFlags' BY <3>1, <3>2, Zenon DEF evars, StoreInv, NullFlags
    <3>5. EditorInv' BY <3>1, <3>2 DEF evars, StoreInv, EditorInv
    <3> QED BY <3>3, <3>4, <3>5 DEF StoreInv
  <2> QED BY <2>1, OnePart, StoreNext DEF ClientInv
<1>6. part' = part BY OnePart
<1> QED BY <1>1, <1>2, <1>3, <1>4, <1>5, <1>6, <1>7, <1>8, Zenon DEF ClientInv


\* No step of the client, for every value of the constants, ends a dev session because Supabase
\* has none, saves of an inbox what was not edited, lets an agent write against its settings, or
\* drops an item of a draft that was not removed.
THEOREM ClientKeepsPromises == ClientSpec => ClientStepsKeepPromises
<1>1. ClientInv /\ [ClientNext]_allvars => [DevStays]_(Session!nvars)
  <2>1. UNCHANGED nvars => UNCHANGED Session!nvars BY DEF nvars, Session!nvars
  <2> QED BY <2>1, OnePart, SessNext DEF ClientInv
<1>2. ClientInv /\ [ClientNext]_allvars => [EditsWritten]_(Setup!hvars)
  <2>1. UNCHANGED hvars => UNCHANGED Setup!hvars BY DEF hvars, Setup!hvars
  <2>2. PageInv => SetupInv /\ RemovalOK BY Zenon DEF PageInv
  <2> QED BY <2>1, <2>2, OnePart, SetupNext DEF ClientInv
<1>3. ClientInv /\ [ClientNext]_allvars => [SettingsKept]_(Preview!avars)
  <2>1. UNCHANGED avars => UNCHANGED Preview!avars BY DEF avars, Preview!avars
  <2> QED BY <2>1, OnePart, PreviewNext DEF ClientInv
<1>4. ClientInv /\ [ClientNext]_allvars => [ItemsKept]_(Store!evars)
  <2>1. UNCHANGED evars => UNCHANGED Store!evars BY DEF evars, Store!evars
  <2> QED BY <2>1, OnePart, StoreNext DEF ClientInv
<1>5. ClientSpec => []ClientInv BY ClientInvInit, ClientInvNext, PTL DEF ClientSpec
<1>6. ClientSpec => Session!DevSessionStays BY <1>1, <1>5, PTL DEF ClientSpec, Session!DevSessionStays, DevStays
<1>7. ClientSpec => Setup!SaveWritesEdits BY <1>2, <1>5, PTL DEF ClientSpec, Setup!SaveWritesEdits, EditsWritten
<1>8. ClientSpec => Preview!AgentKeepsToSettings
  BY <1>3, <1>5, PTL DEF ClientSpec, Preview!AgentKeepsToSettings, SettingsKept
<1>9. ClientSpec => Store!DraftKeepsItems BY <1>4, <1>5, PTL DEF ClientSpec, Store!DraftKeepsItems, ItemsKept
<1> QED BY <1>6, <1>7, <1>8, <1>9 DEF ClientStepsKeepPromises

\* The screen tells the truth at every moment, for every value of the constants: while no hint was
\* lost what is on the screen is current or about to be fetched, and the relay that is down is about
\* to come back; the open conversation shows no reply that the server does not have and each that
\* was confirmed, unless it is about to be fetched; the agent's preview answers from what it may
\* remember and leaves no message waiting; and the store of agents returns what its users were told
\* is saved.
THEOREM ClientTellsTheTruth == ClientSpec => []ClientShowsTheTruth
<1>1. ClientInv => ClientShowsTheTruth
  <2> SUFFICES ASSUME ClientInv PROVE ClientShowsTheTruth OBVIOUS
  <2>1. part = "sync" => Sync!TypeOK /\ Sync!HintsSuffice /\ Sync!RelayComesBack BY SyncFacts DEF ClientInv
  <2>2. part \in {"reply", "manage"} => Page!TypeOK /\ Page!NoGhostMessage BY InboxFacts, Zenon DEF ClientInv
  <2>3. part = "preview" => Preview!TypeOK /\ Preview!AnswersFromMemory /\ Preview!QueueIsTimed
    BY PreviewFacts, Zenon DEF ClientInv
  <2>4. part = "store" => Store!TypeOK /\ Store!StoredIsConfirmed BY StoreFacts DEF ClientInv
  <2> QED BY <2>1, <2>2, <2>3, <2>4, Zenon DEF ClientShowsTheTruth
<1> QED BY <1>1, ClientInvInit, ClientInvNext, PTL DEF ClientSpec

\* What the client does, it may do, at every moment and for every value of the constants: actor
\* and cookie are those of the session in use; a platform gets what was typed for it, and "is
\* connected" is said of an inbox that is; a broadcast goes out as it was authorised and its
\* counts add up; and of each valid number in a file a blast sends one message.
THEOREM ClientIsAuthorised == ClientSpec => []ActionsAreAuthorised
<1>1. ClientInv => ActionsAreAuthorised
  <2> SUFFICES ASSUME ClientInv PROVE ActionsAreAuthorised OBVIOUS
  <2>1. part = "session" => Session!TypeOK /\ Session!SessionIsOne BY SessFacts DEF ClientInv
  <2>2. part \in {"panel", "dialog"} => Setup!TypeOK /\ Setup!SentAsTyped /\ Setup!DoneIsTrue
    BY PageFacts, Zenon DEF ClientInv
  <2>3. part \in {"wizard", "blast"} =>
          /\ Broadcast!TypeOK /\ Broadcast!BroadcastWasAuthorised /\ Broadcast!CountsAddUp
          /\ Broadcast!OneMessageEach /\ Broadcast!FinishedIsTrue
    BY WizardFacts, BlastFacts, CampaignType, Zenon DEF ClientInv, CampaignInv
  <2> QED BY <2>1, <2>2, <2>3, Zenon DEF ActionsAreAuthorised
<1> QED BY <1>1, ClientInvInit, ClientInvNext, PTL DEF ClientSpec
=============================================================================
