----------------------------- MODULE MCServices -----------------------------
(***************************************************************************)
(* The services of the API that keep state of their own, each question in  *)
(* a part: idempotent requests, the web chat, who may do what, the state   *)
(* instances share, attachments, reading the inbox, channel settings.      *)
(***************************************************************************)
EXTENDS Idempotency, FiniteSets

CONSTANTS MaxMsg, MaxPost, Text, Take, MaxTrouble, Workspace, DevEnabled, MaxChange, MaxRequest,
          Instance, Identity, Limit, Window, MaxKeys, MaxHit, MaxTime,
          Attachment, MinTtl, DefaultTtl, MaxTtl, TypeLimit, SizeLimit, MaxLink,
          Conversation, PageLimit, MaxMoment, MaxMessage, Admin, Agent, MaxUpdate

\* The bounds and the lifetimes are numbers, and the clock moves; "none" stands for no text.
ASSUME BoundsAssumption ==
    /\ {MaxMsg, MaxPost, Take, MaxTrouble, MaxChange, MaxRequest, MinTtl, DefaultTtl, MaxTtl} \subseteq Nat
    /\ MaxTime \in Nat \ {0} /\ Text # {} /\ "none" \notin Text

\* A page has a row, and ids are numbers; 0 stands for no row.
ASSUME PagesAssumption ==
    /\ PageLimit \in Nat \ {0} /\ MaxMoment \in Nat /\ MaxMessage \in Nat
    /\ Conversation \subseteq Nat \ {0} /\ IsFiniteSet(Conversation)

\* A limit admits a hit, a window has a length, and there are finitely many processes and clients.
ASSUME LimitsAssumption ==
    /\ Limit \in Nat \ {0} /\ Window \in Nat \ {0} /\ MaxKeys \in Nat /\ MaxHit \in Nat
    /\ IsFiniteSet(Instance) /\ IsFiniteSet(Identity)

VARIABLES part,
    next, writing, rows, dir, text, status, overtaken, visitor, open, timer, lastSeen, shown, unread,
    bubbles, post, accepted, posts, later, polls, fresh, trouble,
    profile, member, roles, alive, token, req, held, enabled, socket, got, changes, requests,
    store, now, redisUp, dbUp, client, life, counters, memory, hit, late, counted, served, probe, report,
    today, row, objects, found, request, links, audited,
    moment, lastMessageAt, matching, cursor, listed, quiet, createdAt, before, history, known, ended,
    settings, agents, active, update, updates

Chat == INSTANCE WebChat
Access == INSTANCE RequestAccess
Shared == INSTANCE SharedState
Storage == INSTANCE ObjectStorage
Pages == INSTANCE InboxPages
Settings == INSTANCE ChannelSettings

wvars == <<next, writing, rows, dir, text, status, overtaken, visitor, open, timer, lastSeen, shown, unread,
           bubbles, post, accepted, posts, later, polls, fresh, trouble>>
rvars == <<profile, member, roles, alive, token, req, held, enabled, socket, got, changes, requests>>
lvars == <<store, now, redisUp, dbUp, client, life, counters, memory, hit, late, counted, served, probe, report>>
ovars == <<today, row, objects, found, request, links, audited>>
pvars == <<moment, lastMessageAt, matching, cursor, listed, quiet, createdAt, before, history, known, ended>>
cvars == <<settings, agents, active, update, updates>>
allvars == <<part, vars, wvars, rvars, lvars, ovars, pvars, cvars>>

\* The parts that a behaviour is not about start in one of their states.
ServicesInit ==
    /\ part \in {"idempotency", "chat", "access", "limits", "probes", "storage", "pages", "settings"}
    /\ Init /\ (part = "idempotency" \/ fingerprint \in {CHOOSE f \in [Request -> Payload] : TRUE})
    /\ Chat!Init /\ (part = "chat" \/ visitor = "none")
    /\ Access!Init /\ (part = "access" \/ member = [w \in Workspace |-> "none"])
    /\ Shared!Init /\ (part \in {"limits", "probes"} \/ store = "redis")
    /\ Storage!Init
    /\ Pages!Init /\ (part = "pages" \/ known = {})
    /\ Settings!Init /\ (part = "settings" \/ agents = {})

ServicesNext ==
    /\ UNCHANGED part
    /\ \/ part = "idempotency" /\ Next /\ UNCHANGED <<wvars, rvars, lvars, ovars, pvars, cvars>>
       \/ part = "chat" /\ Chat!Next /\ UNCHANGED <<vars, rvars, lvars, ovars, pvars, cvars>>
       \/ part = "access" /\ Access!Next /\ UNCHANGED <<vars, wvars, lvars, ovars, pvars, cvars>>
       \/ part = "limits" /\ Shared!HitNext /\ UNCHANGED <<vars, wvars, rvars, ovars, pvars, cvars>>
       \/ part = "probes" /\ Shared!ProbeNext /\ UNCHANGED <<vars, wvars, rvars, ovars, pvars, cvars>>
       \/ part = "storage" /\ Storage!Next /\ UNCHANGED <<vars, wvars, rvars, lvars, pvars, cvars>>
       \/ part = "pages" /\ Pages!Next /\ UNCHANGED <<vars, wvars, rvars, lvars, ovars, cvars>>
       \/ part = "settings" /\ Settings!Next /\ UNCHANGED <<vars, wvars, rvars, lvars, ovars, pvars>>

ServicesSpec == ServicesInit /\ [][ServicesNext]_allvars

(* A key makes one change: a replay is the answer to the same request, one handler runs at a     *)
(* time, and a second change needs a slip that the code cannot see.                              *)
RequestsTakeEffectOnce ==
    part = "idempotency" => TypeOK /\ ReplayIsGenuine /\ OneHandlerAtATime /\ SecondMutationNeedsSlip

(* The widget's cursor never passes over a reply, and badge and bubbles show each message once.  *)
ChatShowsAll ==
    part = "chat" =>
        Chat!TypeOK /\ Chat!NothingPassedOver /\ Chat!UnreadCountsOnce /\ Chat!OwnMessageOnce

(* A handler only ran with a right that the account held since the request began, a realtime     *)
(* connection receives events of its own workspace only, and links lead to objects of the        *)
(* caller's workspace and end soon after a deletion.                                             *)
RightsAreHeld ==
    /\ part = "access" => Access!TypeOK /\ Access!AuthorisedWhileItRan /\ Access!HintsStayInWorkspace
    /\ part = "storage" => /\ Storage!TypeOK
                           /\ Storage!DeletionEndsAccess /\ Storage!LinkStaysInWorkspace

(* One limit for all API instances, also when Redis fails: who is refused has made too many hits *)
(* in this window, and the in-process counters stay bounded.                                     *)
LimitsAreShared ==
    /\ part \in {"limits", "probes"} => Shared!TypeOK
    /\ part = "limits" => Shared!SharedLimitHolds /\ Shared!RefusedForCause /\ Shared!MemoryBounded

(* A walk through the conversations misses none that stayed as it was, and one through a history *)
(* shows each message once.                                                                      *)
WalksAreComplete == part = "pages" => Pages!TypeOK /\ Pages!WalkShowsTheQuiet /\ Pages!HistoryShownOnce

(* What a step of a service never does: end the idempotency record of another request, let an    *)
(* open widget stop asking, tell a client to refresh a token that has not expired, report ready  *)
(* what was not reached, link an infected file, or store other settings than were asked for.     *)
StepsKeepPromises ==
    /\ OnlyOwnerEndsRecord
    /\ Chat!PollingGoesOn
    /\ Access!ExpiredMeansRefresh
    /\ Shared!ReadyWasReachable
    /\ Storage!InfectedIsNeverLinked
    /\ Settings!AloneTakesEffect
=============================================================================
