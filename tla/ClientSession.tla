--------------------------- MODULE ClientSession ---------------------------
(***************************************************************************)
(* Who the browser thinks is signed in: AuthProvider (auth-context.tsx)    *)
(* with its three kinds of session, the cookie that middleware.ts looks    *)
(* for, and the login page.  Supabase answers late and tells of changes    *)
(* through a callback; GET /auth/me is asked for every session.            *)
(***************************************************************************)
CONSTANTS Account,  \* Supabase sessions
          Path      \* pages that need a session

Session == Account \cup {"dev", "demo"}
Maybe == Session \cup {"none"}

VARIABLES
    session, actor, mode, devActive,  \* state and ref of AuthProvider
    cookie,     \* vynor_session
    devStored,  \* localStorage: vynor_dev_session is there and has not expired
    supa,       \* localStorage: vynor_supabase_auth
    boot,       \* initAuth: what getSession read
    told,       \* what onAuthStateChange is about to be called with
    asks,       \* sessions whose GET /auth/me is in flight
    call,       \* signIn, signInDevSession or signOut in flight
    page, returnUrl,
    overtaken   \* history: the session changed while another one's /auth/me was in flight

nvars == <<session, actor, mode, devActive, cookie, devStored, supa, boot, told, asks, call, page, returnUrl, overtaken>>
memory == <<session, actor, mode, asks, overtaken>>
where == <<page, returnUrl>>

NoActor == [of |-> "none", kind |-> "none"]
Boot(at) == [at |-> at, got |-> "none"]
NoCall == [op |-> "none", got |-> "none"]

TypeOK ==
    /\ session \in Maybe /\ cookie \in Maybe /\ supa \in Maybe \ {"dev"}
    /\ actor \in [of : Maybe, kind : {"none", "api", "preview"}] /\ mode \in {"preview", "connected"}
    /\ devActive \in BOOLEAN /\ devStored \in BOOLEAN /\ overtaken \in BOOLEAN
    /\ boot \in [at : {"idle", "asked", "done", "failed"}, got : Maybe]
    /\ told \in Maybe \cup {"nothing"} /\ asks \subseteq Session
    /\ call \in [op : {"none", "signIn", "signedIn", "dev", "out", "signedOut"}, got : Maybe]
    /\ page \in Path \cup {"/login"} /\ returnUrl \in Path

Init ==
    /\ session = "none" /\ actor = NoActor /\ mode = "preview" /\ devActive = FALSE
    /\ cookie = "none" /\ devStored = FALSE /\ supa \in {"none"} \cup Account
    /\ boot = Boot("idle") /\ told = "nothing" /\ asks = {} /\ call = NoCall
    /\ page = "/login" /\ returnUrl \in Path /\ overtaken = FALSE

----------------------------------------------------------------------------
(* resolveActorFromSession *)

syncAuthCookie(s) == cookie' = s

buildPreviewActor(s) == [of |-> s, kind |-> "preview"]

\* Mutant: the actor of the session that has ended stays.
ActorKept(s) == IF s = "none" THEN actor ELSE buildPreviewActor(s)

ActorAtOnce(s) == IF s = "none" THEN NoActor ELSE buildPreviewActor(s)

\* Up to its await: no session and a demo session need no request.
resolveActorFromSession(s) ==
    /\ syncAuthCookie(s)
    /\ IF s \in Account \cup {"dev"} THEN asks' = asks \cup {s} /\ UNCHANGED <<actor, mode>>
       ELSE actor' = ActorAtOnce(s) /\ mode' = "preview" /\ UNCHANGED asks

\* setSession(s) and then resolveActorFromSession(s).
Take(s) ==
    /\ session' = s /\ resolveActorFromSession(s)
    /\ overtaken' = (overtaken \/ asks \ {s} # {})

MeAnswered(s) ==
    /\ s \in asks /\ asks' = asks \ {s}
    /\ actor' = [of |-> s, kind |-> "api"] /\ mode' = "connected"
    /\ UNCHANGED <<session, devActive, cookie, devStored, supa, boot, told, call, where, overtaken>>

\* isApiUnreachable: the user is not locked out.
MeUnreachable(s) ==
    /\ s \in asks /\ asks' = asks \ {s}
    /\ actor' = buildPreviewActor(s) /\ mode' = "preview"
    /\ UNCHANGED <<session, devActive, cookie, devStored, supa, boot, told, call, where, overtaken>>

MeRefused(s) ==
    /\ s \in asks /\ asks' = asks \ {s}
    /\ actor' = NoActor /\ mode' = "preview" /\ syncAuthCookie("none")
    /\ UNCHANGED <<session, devActive, devStored, supa, boot, told, call, where, overtaken>>

----------------------------------------------------------------------------
(* initAuth and onAuthStateChange *)

readDevSession == devStored

BootDev ==
    /\ boot.at = "idle" /\ readDevSession
    /\ devActive' = TRUE /\ Take("dev") /\ boot' = Boot("done")
    /\ UNCHANGED <<devStored, supa, told, call, where>>

\* getSession reads the storage and answers later.
BootAsk ==
    /\ boot.at = "idle" /\ ~readDevSession
    /\ boot' = [at |-> "asked", got |-> supa]
    /\ UNCHANGED <<memory, devActive, cookie, devStored, supa, told, call, where>>

BootAnswered(s) ==
    /\ boot = [at |-> "asked", got |-> s]
    /\ Take(s) /\ boot' = Boot("done")
    /\ UNCHANGED <<devActive, devStored, supa, told, call, where>>

BootFails ==
    /\ boot.at = "asked"
    /\ boot' = Boot("failed")
    /\ UNCHANGED <<memory, devActive, cookie, devStored, supa, told, call, where>>

\* Mutant: Supabase, which knows nothing of dev sessions, is always listened to.
NeverIgnored(s) == FALSE

Ignored(s) == devActive /\ s = "none"

AuthStateChanges(s) ==
    /\ told = s /\ s \in Maybe
    /\ told' = "nothing"
    /\ IF Ignored(s) THEN UNCHANGED <<memory, cookie>> ELSE Take(s)
    /\ UNCHANGED <<devActive, devStored, supa, boot, call, where>>

\* External: autoRefreshToken replaced the token of the stored session, or could not.
SupabaseRefreshes ==
    /\ told = "nothing" /\ supa \in Account
    /\ \/ told' = supa /\ UNCHANGED supa
       \/ told' = "none" /\ supa' = "none"
    /\ UNCHANGED <<memory, devActive, cookie, devStored, boot, call, where>>

----------------------------------------------------------------------------
(* Signing in and out *)

\* isSubmitting: one at a time.
Asking(op) ==
    /\ call = NoCall /\ call' = [NoCall EXCEPT !.op = op]
    /\ UNCHANGED <<memory, devActive, cookie, devStored, supa, boot, told, where>>

signIn == page = "/login" /\ Asking("signIn")

\* External: Supabase stores the session and tells the subscriber before it answers.
SupabaseSignsIn(s) ==
    /\ call.op = "signIn" /\ told = "nothing"
    /\ supa' = s /\ told' = s /\ call' = [op |-> "signedIn", got |-> s]
    /\ UNCHANGED <<memory, devActive, cookie, devStored, boot, where>>

SignInReturns ==
    /\ call.op = "signedIn" /\ told = "nothing"
    /\ Take(call.got) /\ call' = NoCall
    /\ UNCHANGED <<devActive, devStored, supa, boot, told, where>>

\* signInWithPassword or the request for a dev session fails: only an error is shown.
CallFails ==
    /\ call.op \in {"signIn", "dev"} /\ call' = NoCall
    /\ UNCHANGED <<memory, devActive, cookie, devStored, supa, boot, told, where>>

\* It overwrites what Supabase has stored, and the page goes to returnUrl.
signInDemo ==
    /\ page = "/login" /\ call = NoCall
    /\ supa' = "demo" /\ Take("demo") /\ page' = returnUrl
    /\ UNCHANGED <<devActive, devStored, boot, told, call, returnUrl>>

signInDevSession == page = "/login" /\ Asking("dev")

DevSessionIssued ==
    /\ call.op = "dev" /\ call' = NoCall
    /\ devStored' = TRUE /\ devActive' = TRUE /\ Take("dev")
    /\ UNCHANGED <<supa, boot, told, where>>

signOut == actor # NoActor /\ page # "/login" /\ Asking("out")

\* External: supabase.auth.signOut tells the subscriber, or fails and is caught.
SupabaseSignsOut ==
    /\ call.op = "out" /\ told = "nothing" /\ call' = [call EXCEPT !.op = "signedOut"]
    /\ \/ supa' = "none" /\ told' = "none"
       \/ UNCHANGED <<supa, told>>
    /\ UNCHANGED <<memory, devActive, cookie, devStored, boot, where>>

SignedOut ==
    /\ call.op = "signedOut" /\ told = "nothing" /\ call' = NoCall
    /\ supa' = "none" /\ devStored' = FALSE /\ devActive' = FALSE
    /\ Take("none")
    /\ UNCHANGED <<boot, told, where>>

refreshSession ==
    /\ ~devActive /\ supa \in Account /\ Take(supa)
    /\ UNCHANGED <<devActive, devStored, supa, boot, told, call, where>>

DevSessionExpires ==
    /\ devStored /\ devStored' = FALSE
    /\ UNCHANGED <<memory, devActive, cookie, supa, boot, told, call, where>>

----------------------------------------------------------------------------
(* Pages *)

\* middleware: "/" and requests with a session cookie pass.
Navigate(p) ==
    /\ IF cookie # "none" \/ p = "/" THEN page' = p /\ UNCHANGED returnUrl
       ELSE page' = "/login" /\ returnUrl' = p

Follow(p) == Navigate(p) /\ UNCHANGED <<memory, devActive, cookie, devStored, supa, boot, told, call>>

\* LoginPage: whoever is signed in does not stay there.
LoginRedirects ==
    /\ page = "/login" /\ actor # NoActor /\ page' = returnUrl
    /\ UNCHANGED <<memory, devActive, cookie, devStored, supa, boot, told, call, returnUrl>>

\* The browser keeps what it has stored.
Reload(p) ==
    /\ Navigate(p)
    /\ session' = "none" /\ actor' = NoActor /\ mode' = "preview" /\ devActive' = FALSE
    /\ boot' = Boot("idle") /\ told' = "nothing" /\ asks' = {} /\ call' = NoCall /\ overtaken' = FALSE
    /\ UNCHANGED <<cookie, devStored, supa>>

Next ==
    \/ \E s \in Session : MeAnswered(s) \/ MeUnreachable(s) \/ MeRefused(s)
    \/ BootDev \/ BootAsk \/ BootFails \/ \E s \in Maybe : BootAnswered(s) \/ AuthStateChanges(s)
    \/ SupabaseRefreshes \/ refreshSession \/ DevSessionExpires
    \/ signIn \/ SignInReturns \/ CallFails \/ signInDemo \/ signInDevSession \/ DevSessionIssued
    \/ \E s \in Account : SupabaseSignsIn(s)
    \/ signOut \/ SupabaseSignsOut \/ SignedOut
    \/ LoginRedirects \/ \E p \in Path : Follow(p) \/ Reload(p)

----------------------------------------------------------------------------
(* When nothing is in flight, the actor whose name and rights the pages    *)
(* show and the cookie that opens them are those of the session whose      *)
(* token the requests carry.  Only a session that changed while /auth/me   *)
(* was asked for another one breaks this: its late answer is applied.      *)
SessionIsOne ==
    ~overtaken /\ asks = {} /\ boot.at = "done" =>
        actor.of \in {"none", session} /\ cookie \in {"none", session}

(* A dev session ends when the user signs out, and not because Supabase    *)
(* reports that it has no session.  (An answer of getSession that comes    *)
(* after the dev session began does end it.)                               *)
DevSessionStays ==
    [][session = "dev" /\ session' = "none" /\ boot.at = "done" /\ boot'.at = "done" => call.op = "signedOut"]_nvars
=============================================================================
