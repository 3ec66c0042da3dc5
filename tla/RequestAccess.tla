--------------------------- MODULE RequestAccess ---------------------------
(***************************************************************************)
(* Who may do what: the token check (jwt-verifier.service.ts), the actor   *)
(* context (actor-context.service.ts) and the guards before a request, and *)
(* the same checks before a realtime connection (realtime.gateway.ts).     *)
(* The context is put together from several queries, and an administrator  *)
(* may change the user's rights between any two of them.                   *)
(***************************************************************************)
EXTENDS Naturals, FiniteSets

CONSTANTS
    Workspace,
    DevEnabled,  \* AUTH_DEV_SESSION_ENABLED in a local or test profile
    MaxChange,   \* bound: changes of rights
    MaxRequest   \* bound: requests and handshakes

NoWorkspace == "none"
Role == {"SUPER_ADMIN", "AGENT"}
Action == {"conversation:read", "integration:manage"}
Talk == Workspace  \* one conversation in each workspace

VARIABLES
    profile,  \* user_profiles: "active", "inactive", "deleted"
    member,   \* workspace_memberships.status, "none" without one
    roles,    \* the roles of a membership
    alive,    \* workspaces that are not deleted
    token,    \* the client's access token
    req,      \* the request or handshake being checked
    held,     \* history: what the memberships allowed since the request began
    enabled,  \* history: the account was active since the request began
    socket,   \* the realtime connection
    got,      \* history: workspaces whose events the connection received
    changes, requests

rvars == <<profile, member, roles, alive, token, req, held, enabled, socket, got, changes, requests>>
rights == <<profile, member, roles, alive>>

Idle == [pc |-> "idle", kind |-> "rest", token |-> "none", header |-> NoWorkspace, need |-> {},
         ws |-> NoWorkspace, perms |-> {}, answer |-> "none", audited |-> FALSE]
Closed == [ws |-> NoWorkspace, perms |-> {}, rooms |-> {}]

TypeOK ==
    /\ profile \in {"active", "inactive", "deleted"}
    /\ member \in [Workspace -> {"none", "INVITED", "ACTIVE", "SUSPENDED"}]
    /\ roles \in [Workspace -> SUBSET Role] /\ alive \subseteq Workspace
    /\ token \in {"none", "secret", "asymmetric", "expired", "asymmetricExpired"}
    /\ req.pc \in {"idle", "verify", "profile", "workspace", "membership", "guard", "done"}
    /\ req.need \subseteq Action /\ req.perms \subseteq Action \cup {"*"}
    /\ held \in [Workspace -> SUBSET (Action \cup {"member"})] /\ enabled \in BOOLEAN
    /\ socket.ws \in Workspace \cup {NoWorkspace} /\ got \subseteq Workspace
    /\ socket.rooms \subseteq ({"workspace"} \X Workspace) \cup ({"conversation"} \X Talk)
    /\ changes \in 0 .. MaxChange /\ requests \in 0 .. MaxRequest

----------------------------------------------------------------------------
(* Permissions *)

\* role_permissions as seeded: an agent reads conversations.
Granted(role) == IF role = "AGENT" THEN {"conversation:read"} ELSE {}

\* Super admins have the wildcard and the catalogue.
PermissionsOf(rs) ==
    IF "SUPER_ADMIN" \in rs THEN {"*"} \cup Action ELSE UNION {Granted(r) : r \in rs}

hasPermission(granted, required) == "*" \in granted \/ required \in granted

hasAllPermissions(granted, required) == "*" \in granted \/ required \subseteq granted

\* What the user may do in w with the rows as they are.
AllowedNow(m, rs, w) ==
    IF m[w] = "ACTIVE" THEN {"member"} \cup {a \in Action : hasPermission(PermissionsOf(rs[w]), a)} ELSE {}

Init ==
    /\ profile = "active" /\ alive = Workspace
    /\ member \in [Workspace -> {"none", "ACTIVE"}] /\ roles = [w \in Workspace |-> {"AGENT"}]
    /\ token = "none"
    /\ req = Idle /\ held = [w \in Workspace |-> {}] /\ enabled = FALSE
    /\ socket = Closed /\ got = {} /\ changes = 0 /\ requests = 0

----------------------------------------------------------------------------
(* Administration, outside the request *)

Change ==
    /\ changes < MaxChange /\ changes' = changes + 1
    /\ \/ profile' \in {"active", "inactive", "deleted"} \ {profile} /\ UNCHANGED <<member, roles, alive>>
       \/ \E w \in Workspace, s \in {"none", "INVITED", "ACTIVE", "SUSPENDED"} :
            s # member[w] /\ member' = [member EXCEPT ![w] = s] /\ UNCHANGED <<profile, roles, alive>>
       \/ \E w \in Workspace, rs \in {{}, {"AGENT"}, {"SUPER_ADMIN"}} :
            rs # roles[w] /\ roles' = [roles EXCEPT ![w] = rs] /\ UNCHANGED <<profile, member, alive>>
       \/ \E w \in alive : alive' = alive \ {w} /\ UNCHANGED <<profile, member, roles>>
    /\ held' = [w \in Workspace |-> held[w] \cup AllowedNow(member', roles', w)]
    /\ enabled' = (enabled \/ profile' = "active")
    /\ UNCHANGED <<token, req, socket, got, requests>>

SignIn ==
    /\ token \notin {"secret", "asymmetric"}
    /\ token' \in {"secret", "asymmetric"}
    /\ UNCHANGED <<rights, req, held, enabled, socket, got, changes, requests>>

\* POST /auth/dev-session signs with the project's secret.
devSession ==
    /\ DevEnabled /\ token \notin {"secret", "asymmetric"}
    /\ profile = "active" /\ \E w \in Workspace : member[w] = "ACTIVE"
    /\ token' = "secret"
    /\ UNCHANGED <<rights, req, held, enabled, socket, got, changes, requests>>

TokenExpires ==
    /\ \/ token = "secret" /\ token' = "expired"
       \/ token = "asymmetric" /\ token' = "asymmetricExpired"
    /\ UNCHANGED <<rights, req, held, enabled, socket, got, changes, requests>>

----------------------------------------------------------------------------
(* The checks *)

\* A request to a route that needs `need', or a realtime handshake, which names its workspace.
Begin(kind, header, need) ==
    /\ req.pc \in {"idle", "done"} /\ requests < MaxRequest
    /\ kind = "socket" => header # NoWorkspace /\ need = {}
    /\ requests' = requests + 1
    /\ req' = [Idle EXCEPT !.pc = "verify", !.kind = kind, !.token = token, !.header = header, !.need = need]
    /\ held' = [w \in Workspace |-> AllowedNow(member, roles, w)]
    /\ enabled' = (profile = "active")
    /\ UNCHANGED <<rights, token, socket, got, changes>>

\* buildHttpError or rejectConnection.
Refuse(code) == req' = [req EXCEPT !.pc = "done", !.answer = IF req.kind = "socket" /\ req.pc # "verify"
                                                              THEN "WORKSPACE_ACCESS_DENIED" ELSE code]

\* Mutant: an expired token is tried against the other key.
claimsOfAnyKey(t, jwks) ==
    CASE t = "none" -> "AUTH_TOKEN_MISSING"
      [] t \in {"secret"} \cup (IF jwks THEN {"asymmetric"} ELSE {}) -> "ok"
      [] jwks /\ t = "asymmetricExpired" -> "AUTH_TOKEN_EXPIRED"
      [] OTHER -> "AUTH_TOKEN_INVALID"

\* The secret first, then the key endpoint if it answers; an expired token is final.
claimsOf(t, jwks) ==
    CASE t = "none" -> "AUTH_TOKEN_MISSING"
      [] t = "secret" -> "ok"
      [] t = "expired" -> "AUTH_TOKEN_EXPIRED"
      [] jwks /\ t = "asymmetric" -> "ok"
      [] jwks /\ t = "asymmetricExpired" -> "AUTH_TOKEN_EXPIRED"
      [] OTHER -> "AUTH_TOKEN_INVALID"

VerifyToken(up) ==
    /\ req.pc = "verify"
    /\ LET v == claimsOf(req.token, up) IN
         IF v = "ok" THEN req' = [req EXCEPT !.pc = "profile"]
         ELSE Refuse(IF req.kind = "socket" /\ v # "AUTH_TOKEN_MISSING" THEN "TOKEN_INVALID" ELSE v)
    /\ UNCHANGED <<rights, token, held, enabled, socket, got, changes, requests>>

ResolveProfile ==
    /\ req.pc = "profile"
    /\ IF profile = "active" THEN req' = [req EXCEPT !.pc = "workspace"] ELSE Refuse("USER_ACCOUNT_DISABLED")
    /\ UNCHANGED <<rights, token, held, enabled, socket, got, changes, requests>>

\* The workspace of the header, or the only one the user is active in.
ResolveWorkspace ==
    /\ req.pc = "workspace"
    /\ LET active == {w \in Workspace : member[w] = "ACTIVE"} IN
         IF req.header # NoWorkspace
         THEN IF req.header \in alive THEN req' = [req EXCEPT !.pc = "membership", !.ws = req.header]
              ELSE Refuse("WORKSPACE_ACCESS_DENIED")
         ELSE \/ active = {} /\ Refuse("MEMBERSHIP_NOT_FOUND")
              \/ \E w \in active : active = {w} /\ req' = [req EXCEPT !.pc = "membership", !.ws = w]
              \/ Cardinality(active) > 1 /\ Refuse("WORKSPACE_HEADER_MISSING")
    /\ UNCHANGED <<rights, token, held, enabled, socket, got, changes, requests>>

\* Mutant: a suspended member still belongs to the workspace.
AdmitsAnyMember(w) == member[w] # "none"

Admits(w) == member[w] = "ACTIVE"

ResolveMembership ==
    /\ req.pc = "membership"
    /\ IF member[req.ws] = "none" THEN Refuse("MEMBERSHIP_NOT_FOUND")
       ELSE IF ~Admits(req.ws) THEN Refuse("MEMBERSHIP_INACTIVE")
       ELSE req' = [req EXCEPT !.pc = "guard", !.perms = PermissionsOf(roles[req.ws])]
    /\ UNCHANGED <<rights, token, held, enabled, socket, got, changes, requests>>

\* A denial is audited if the audit row can be written.
PermissionGuard ==
    /\ req.pc = "guard" /\ req.kind = "rest"
    /\ IF hasAllPermissions(req.perms, req.need) THEN req' = [req EXCEPT !.pc = "done", !.answer = "handled"]
       ELSE \E a \in BOOLEAN : req' = [req EXCEPT !.pc = "done", !.answer = "PERMISSION_DENIED", !.audited = a]
    /\ UNCHANGED <<rights, token, held, enabled, socket, got, changes, requests>>

----------------------------------------------------------------------------
(* Realtime *)

workspaceRoom(w) == <<"workspace", w>>
conversationRoom(c) == <<"conversation", c>>

\* handleConnection: the room of the workspace; the rights are those of now.
Connected ==
    /\ req.pc = "guard" /\ req.kind = "socket"
    /\ socket' = [ws |-> req.ws, perms |-> req.perms, rooms |-> {workspaceRoom(req.ws)}]
    /\ got' = {}
    /\ req' = [req EXCEPT !.pc = "done", !.answer = "handled"]
    /\ UNCHANGED <<rights, token, held, enabled, changes, requests>>

\* Mutant: any conversation is found.
FoundAnywhere(c) == TRUE

\* Unknown conversations and those of other workspaces are not found.
FoundIn(c) == c = socket.ws

handleJoinConversation(c) ==
    /\ socket # Closed /\ hasPermission(socket.perms, "conversation:read") /\ FoundIn(c)
    /\ conversationRoom(c) \notin socket.rooms
    /\ socket' = [socket EXCEPT !.rooms = @ \cup {conversationRoom(c)}]
    /\ UNCHANGED <<rights, token, req, held, enabled, got, changes, requests>>

handleLeaveConversation(c) ==
    /\ conversationRoom(c) \in socket.rooms
    /\ socket' = [socket EXCEPT !.rooms = @ \ {conversationRoom(c)}]
    /\ UNCHANGED <<rights, token, req, held, enabled, got, changes, requests>>

\* The rooms an event about conversation c is sent to.
RoomsOf(c) == {workspaceRoom(c), conversationRoom(c)}

Publish(c) ==
    /\ socket.rooms \cap RoomsOf(c) # {} /\ c \notin got
    /\ got' = got \cup {c}
    /\ UNCHANGED <<rights, token, req, held, enabled, socket, changes, requests>>

Disconnect ==
    /\ socket # Closed
    /\ socket' = Closed /\ got' = {}
    /\ UNCHANGED <<rights, token, req, held, enabled, changes, requests>>

Next ==
    \/ Change \/ SignIn \/ devSession \/ TokenExpires
    \/ \E k \in {"rest", "socket"}, h \in Workspace \cup {NoWorkspace}, n \in SUBSET Action : Begin(k, h, n)
    \/ \E up \in BOOLEAN : VerifyToken(up)
    \/ ResolveProfile \/ ResolveWorkspace \/ ResolveMembership \/ PermissionGuard
    \/ Connected \/ Disconnect
    \/ \E c \in Talk : handleJoinConversation(c) \/ handleLeaveConversation(c) \/ Publish(c)

----------------------------------------------------------------------------
(* Whatever an administrator changes between the queries, a request is     *)
(* handled only by a member of its workspace, with permissions the         *)
(* membership had and an account that was active at some time since the    *)
(* request began: one that begins after they were taken away is refused.   *)
AuthorisedWhileItRan ==
    req.answer = "handled" => /\ req.need \cup {"member"} \subseteq held[req.ws] /\ enabled
                              /\ req.kind = "rest" /\ req.header # NoWorkspace => req.ws = req.header

(* A connection receives hints of its own workspace only, also through the *)
(* conversation rooms it joins.                                            *)
HintsStayInWorkspace == got \subseteq {socket.ws}

(* A client with an expired token of either kind is told to refresh it as  *)
(* long as its key can be looked up.                                       *)
ExpiredMeansRefresh ==
    [][VerifyToken(TRUE) /\ req.kind = "rest" /\ req.token \in {"expired", "asymmetricExpired"}
       => req'.answer = "AUTH_TOKEN_EXPIRED"]_rvars
=============================================================================
