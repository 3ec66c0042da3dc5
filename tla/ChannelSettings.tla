-------------------------- MODULE ChannelSettings --------------------------
(***************************************************************************)
(* channels.service.ts, update: administrators change the name, the inbox  *)
(* settings and the human agents of a channel. Settings are merged into a  *)
(* row that was read before the transaction; the agents are replaced       *)
(* inside it, at READ COMMITTED.                                           *)
(***************************************************************************)
EXTENDS Naturals, FiniteSets

CONSTANTS Admin, Agent, MaxUpdate

VARIABLES
    settings,   \* the inbox settings in the row
    agents,     \* provider_account_members of the channel
    active,     \* active memberships of the workspace
    update,     \* the update of each administrator
    updates     \* updates begun so far

cvars == <<settings, agents, active, update, updates>>

Field == {"greeting", "routing"}
Idle == [phase |-> "idle"]

TypeOK ==
    /\ settings \in [Field -> Admin \cup {"default"}] /\ agents \subseteq Agent /\ active \subseteq Agent
    /\ \A a \in Admin : update[a].phase \in {"idle", "checked", "replacing"}
    /\ updates \in 0..MaxUpdate

Init ==
    /\ settings = [f \in Field |-> "default"] /\ agents \in SUBSET Agent /\ active = Agent
    /\ update = [a \in Admin |-> Idle] /\ updates = 0

\* findRow, the check of the agents, and the merge: all before the transaction.
OverRequest(old, asked) == old
Merged(old, asked) == [f \in Field |-> IF asked[f] = "unset" THEN old[f] ELSE asked[f]]

\* A request may leave the agents alone.
Begin(a, asked, replaces, chosen) ==
    /\ update[a] = Idle /\ updates < MaxUpdate
    /\ chosen \subseteq active /\ (replaces \/ chosen = {})   \* otherwise 422, and nothing changes
    /\ update' = [x \in Admin |->
         IF x = a THEN [phase |-> "checked", asked |-> asked, settings |-> Merged(settings, asked),
                        replaces |-> replaces, chosen |-> chosen, before |-> {}, alone |-> \A y \in Admin : update[y] = Idle]
         ELSE IF update[x] = Idle THEN Idle ELSE [update[x] EXCEPT !.alone = FALSE]]
    /\ updates' = updates + 1
    /\ UNCHANGED <<settings, agents, active>>

\* deleteMany removes the rows that are committed when it starts.
NoRows == {}
DeletedRows == agents

DeleteMembers(a) ==
    /\ update[a].phase = "checked"
    /\ update' = [update EXCEPT ![a] = [@ EXCEPT !.phase = "replacing", !.before = IF update[a].replaces THEN DeletedRows ELSE {}]]
    /\ UNCHANGED <<settings, agents, active, updates>>

\* createMany, the row, the audit entry and the hint are committed together; a row that
\* another update has inserted meanwhile makes the whole update fail.
Commit(a) ==
    /\ update[a].phase = "replacing"
    /\ LET kept == agents \ update[a].before
       IN  IF kept \cap update[a].chosen = {}
           THEN /\ agents' = kept \cup update[a].chosen
                /\ settings' = update[a].settings
           ELSE UNCHANGED <<agents, settings>>
    /\ update' = [update EXCEPT ![a] = Idle]
    /\ UNCHANGED <<active, updates>>

\* A member leaves the workspace; its rows stay.
Leaves(g) ==
    /\ g \in active
    /\ active' = active \ {g}
    /\ UNCHANGED <<settings, agents, update, updates>>

Next ==
    \/ \E a \in Admin : \E replaces \in BOOLEAN, chosen \in SUBSET Agent, asked \in [Field -> {a, "unset"}] :
            Begin(a, asked, replaces, chosen)
    \/ \E a \in Admin : DeleteMembers(a) \/ Commit(a)
    \/ \E g \in Agent : Leaves(g)

Spec == Init /\ [][Next]_cvars

-----------------------------------------------------------------------------
(* An update that met no other leaves exactly the agents it chose, its own  *)
(* settings where it gave any, and everything else as it was. *)
AloneTakesEffect ==
    [][\A a \in Admin :
        update[a].phase = "replacing" /\ update[a].alone /\ update'[a] = Idle =>
            /\ agents' = IF update[a].replaces THEN update[a].chosen ELSE agents
            /\ \A f \in Field : settings'[f] = IF update[a].asked[f] = "unset" THEN settings[f] ELSE a]_cvars
=============================================================================
