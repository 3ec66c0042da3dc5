----------------------------- MODULE AgentStore -----------------------------
(***************************************************************************)
(* The AI agents of the browser: the repository over localStorage          *)
(* (repository.ts) that the tabs of a user share, with the fallback to     *)
(* memory when storage is blocked, and in each tab the cached agents       *)
(* (queries.ts) and the editor's drafts (AgentSettingsView.tsx).  A        *)
(* repository call runs in one task of its tab.  One that meets a full     *)
(* storage changes nothing but a message, so it is no action.              *)
(***************************************************************************)
EXTENDS Naturals, Functions

CONSTANTS
    Agent,    \* ids of agents
    Seed,     \* those of seedAgents()
    Tab,
    MaxEdit   \* bound: edits, files, removals and changes of status

VARIABLES
    storage,   \* localStorage is "ok" or "blocked"
    shelf,     \* what localStorage ("local") and each tab's memoryFallback hold
    used,      \* ids given so far
    broken,    \* ids whose stored record this release's schema refuses
    open,      \* the agent a tab has open, or 0 for the list
    cache,     \* the tab's query data of that agent
    draft,     \* the editor's state
    reading,   \* knowledge file being read in the tab, with the draft at its start
    confirmed, \* history: for each shelf what its users were told is saved
    edits

evars == <<storage, shelf, used, broken, open, cache, draft, reading, confirmed, edits>>
editor == <<open, cache, draft, reading>>

Shelf == {"local"} \cup Tab
Item == 1 .. MaxEdit
Record == [general : 0 .. MaxEdit, knowledge : SUBSET Item, active : BOOLEAN]
New == [general |-> 0, knowledge |-> {}, active |-> TRUE]
Seeds == [a \in Seed |-> New]
Empty == [null |-> TRUE, agents |-> [a \in {} |-> New]]
NoData == [there |-> "unknown", rec |-> New]
NoFile == [item |-> 0, base |-> {}]
Draft == [general : 0 .. MaxEdit, knowledge : SUBSET Item]
DraftOf(rec) == [general |-> rec.general, knowledge |-> rec.knowledge]

IsAgents(f) == DOMAIN f \subseteq Agent /\ f \in [DOMAIN f -> Record]

TypeOK ==
    /\ storage \in {"ok", "blocked"} /\ used \subseteq Agent /\ broken \subseteq Agent
    /\ \A s \in Shelf : shelf[s].null \in BOOLEAN /\ IsAgents(shelf[s].agents) /\ IsAgents(confirmed[s])
    /\ open \in [Tab -> {0} \cup Agent]
    /\ cache \in [Tab -> [there : {"unknown", "gone", "yes"}, rec : Record]]
    /\ draft \in [Tab -> Draft]
    /\ reading \in [Tab -> [item : {0} \cup Item, base : SUBSET Item]]
    /\ edits \in 0 .. MaxEdit

Init ==
    /\ storage \in {"ok", "blocked"}
    /\ shelf = [s \in Shelf |-> Empty] /\ used = Seed /\ broken = {}
    /\ open = [t \in Tab |-> 0] /\ cache = [t \in Tab |-> NoData]
    /\ draft = [t \in Tab |-> DraftOf(New)] /\ reading = [t \in Tab |-> NoFile]
    /\ confirmed = [s \in Shelf |-> Seeds] /\ edits = 0

\* A change of the user; its number tells edits apart.
Changes == edits < MaxEdit /\ edits' = edits + 1

----------------------------------------------------------------------------
(* The repository *)

Of(t) == IF storage = "ok" THEN "local" ELSE t

\* An empty list is not null: the examples come once.
readAll(t) ==
    IF shelf[Of(t)].null THEN Seeds
    ELSE LET kept == shelf[Of(t)].agents IN Restrict(kept, DOMAIN kept \ broken)

writeAll(t, agents) == shelf' = [shelf EXCEPT ![Of(t)] = [null |-> FALSE, agents |-> agents]]

\* The agents with a's record replaced or added.
With(agents, a, rec) == [b \in DOMAIN agents \cup {a} |-> IF b = a THEN rec ELSE agents[b]]

Data(agents, a) == IF a \in DOMAIN agents THEN [there |-> "yes", rec |-> agents[a]] ELSE [NoData EXCEPT !.there = "gone"]

\* Mutant: the patch is merged into what the tab shows.
FromCache(t, a) == cache[t].rec

\* update merges the patch into what is stored now.
Current(t, a) == readAll(t)[a]

\* invalidate: the agent that the tab has open is read again.
Refreshed(t, agents) == cache' = [cache EXCEPT ![t] = IF open[t] = 0 THEN NoData ELSE Data(agents, open[t])]

Confirm(t, a, rec) == confirmed' = [confirmed EXCEPT ![Of(t)] = With(@, a, rec)]

\* requireAgent throws when another tab has removed it.
update(t, rec) ==
    /\ open[t] \in DOMAIN readAll(t)
    /\ writeAll(t, With(readAll(t), open[t], rec))
    /\ Refreshed(t, With(readAll(t), open[t], rec))

----------------------------------------------------------------------------
(* A tab *)

Editing(t) == cache[t].there = "yes"
Shown(t) == cache[t].rec

\* The page has no data yet; a copy that the query cache still has is
\* as if the tab had stayed there.
Blank(t) ==
    /\ cache' = [cache EXCEPT ![t] = NoData]
    /\ draft' = [draft EXCEPT ![t] = DraftOf(New)]
    /\ reading' = [reading EXCEPT ![t] = NoFile]

OpenAgent(t, a) ==
    /\ open[t] = 0 /\ a \in used
    /\ open' = [open EXCEPT ![t] = a]
    /\ UNCHANGED <<storage, shelf, used, broken, cache, draft, reading, confirmed, edits>>

\* The first answer, or a refetch on focus; the drafts start from the first.
Fetched(t) ==
    /\ open[t] # 0
    /\ Refreshed(t, readAll(t))
    /\ IF shelf[Of(t)].null THEN writeAll(t, Seeds) ELSE UNCHANGED shelf
    /\ draft' = IF Editing(t) /\ open[t] \in DOMAIN readAll(t) THEN draft
                ELSE [draft EXCEPT ![t] = DraftOf(Data(readAll(t), open[t]).rec)]
    /\ reading' = [reading EXCEPT ![t] = IF open[t] \in DOMAIN readAll(t) THEN @ ELSE NoFile]
    /\ UNCHANGED <<storage, used, broken, open, confirmed, edits>>

EditGeneral(t) ==
    /\ Editing(t) /\ Changes
    /\ draft' = [draft EXCEPT ![t].general = edits']
    /\ UNCHANGED <<storage, shelf, used, broken, open, cache, reading, confirmed>>

\* A text, link, question or product.
AddItem(t) ==
    /\ Editing(t) /\ Changes
    /\ draft' = [draft EXCEPT ![t].knowledge = @ \cup {edits'}]
    /\ UNCHANGED <<storage, shelf, used, broken, open, cache, reading, confirmed>>

RemoveItem(t, i) ==
    /\ Editing(t) /\ i \in draft[t].knowledge /\ Changes
    /\ draft' = [draft EXCEPT ![t].knowledge = @ \ {i}]
    /\ UNCHANGED <<storage, shelf, used, broken, open, cache, reading, confirmed>>

\* addFiles, up to the await of the extracted text.
FileChosen(t) ==
    /\ Editing(t) /\ reading[t] = NoFile /\ Changes
    /\ reading' = [reading EXCEPT ![t] = [item |-> edits', base |-> draft[t].knowledge]]
    /\ UNCHANGED <<storage, shelf, used, broken, open, cache, draft, confirmed>>

\* Mutant: the list of the time the file was chosen.
AtChoice(t) == reading[t].base

\* onChange takes an update of the list as it is then.
WhenRead(t) == draft[t].knowledge

FileRead(t) ==
    /\ reading[t] # NoFile
    /\ draft' = [draft EXCEPT ![t].knowledge = WhenRead(t) \cup {reading[t].item}]
    /\ reading' = [reading EXCEPT ![t] = NoFile]
    /\ UNCHANGED <<storage, shelf, used, broken, open, cache, confirmed, edits>>

FileUnreadable(t) ==
    /\ reading[t] # NoFile
    /\ reading' = [reading EXCEPT ![t] = NoFile]
    /\ UNCHANGED <<storage, shelf, used, broken, open, cache, draft, confirmed, edits>>

saveGeneral(t) ==
    /\ Editing(t) /\ draft[t].general # Shown(t).general
    /\ update(t, [Current(t, open[t]) EXCEPT !.general = draft[t].general])
    /\ Confirm(t, open[t], [confirmed[Of(t)][open[t]] EXCEPT !.general = draft[t].general])
    /\ UNCHANGED <<storage, used, broken, open, draft, reading, edits>>

saveKnowledge(t) ==
    /\ Editing(t) /\ draft[t].knowledge # Shown(t).knowledge
    /\ update(t, [Current(t, open[t]) EXCEPT !.knowledge = draft[t].knowledge])
    /\ Confirm(t, open[t], [confirmed[Of(t)][open[t]] EXCEPT !.knowledge = draft[t].knowledge])
    /\ UNCHANGED <<storage, used, broken, open, draft, reading, edits>>

\* The opposite of what the tab shows.
toggleStatus(t) ==
    /\ Editing(t) /\ Changes
    /\ update(t, [Current(t, open[t]) EXCEPT !.active = ~Shown(t).active])
    /\ Confirm(t, open[t], [confirmed[Of(t)][open[t]] EXCEPT !.active = ~Shown(t).active])
    /\ UNCHANGED <<storage, used, broken, open, draft, reading>>

\* The new agent is opened.
create(t) ==
    /\ open[t] = 0
    /\ \E a \in Agent \ used :
         /\ writeAll(t, With(readAll(t), a, New)) /\ Confirm(t, a, New)
         /\ used' = used \cup {a} /\ open' = [open EXCEPT ![t] = a]
    /\ UNCHANGED <<storage, broken, cache, draft, reading, edits>>

\* From the editor or a card of the list: the copy is of what is stored.
duplicate(t, a) ==
    /\ open[t] \in {0, a} /\ a \in DOMAIN readAll(t)
    /\ \E b \in Agent \ used :
         /\ writeAll(t, With(readAll(t), b, readAll(t)[a]))
         /\ Confirm(t, b, confirmed[Of(t)][a]) /\ used' = used \cup {b}
    /\ Refreshed(t, readAll(t))
    /\ UNCHANGED <<storage, broken, open, draft, reading, edits>>

\* From the editor (which closes) or a card of the list.
remove(t, a) ==
    /\ open[t] \in {0, a} /\ (open[t] = a => Editing(t)) /\ a \in used /\ Changes
    /\ writeAll(t, Restrict(readAll(t), DOMAIN readAll(t) \ {a}))
    /\ confirmed' = [confirmed EXCEPT ![Of(t)] = Restrict(@, DOMAIN @ \ {a})]
    /\ open' = [open EXCEPT ![t] = 0] /\ Blank(t)
    /\ UNCHANGED <<storage, used, broken>>

\* With a question when there are unsaved changes.
goBack(t) ==
    /\ open[t] # 0
    /\ open' = [open EXCEPT ![t] = 0] /\ Blank(t)
    /\ UNCHANGED <<storage, shelf, used, broken, confirmed, edits>>

\* The memory goes with the page.
Reload(t) ==
    /\ Blank(t)
    /\ shelf' = [shelf EXCEPT ![t] = Empty] /\ confirmed' = [confirmed EXCEPT ![t] = Seeds]
    /\ UNCHANGED <<storage, used, broken, open, edits>>

\* A release with a stricter schema reaches the tabs.
NewRelease(a) ==
    /\ broken = {} /\ a \in DOMAIN shelf["local"].agents
    /\ broken' = {a}
    /\ cache' = [t \in Tab |-> NoData] /\ reading' = [t \in Tab |-> NoFile]
    /\ draft' = [t \in Tab |-> DraftOf(New)]
    /\ UNCHANGED <<storage, shelf, used, open, confirmed, edits>>

Next ==
    \/ \E t \in Tab :
         \/ Fetched(t) \/ EditGeneral(t) \/ AddItem(t) \/ FileChosen(t) \/ FileRead(t) \/ FileUnreadable(t)
         \/ saveGeneral(t) \/ saveKnowledge(t) \/ toggleStatus(t) \/ create(t) \/ goBack(t) \/ Reload(t)
         \/ \E a \in Agent : OpenAgent(t, a) \/ duplicate(t, a) \/ remove(t, a)
         \/ \E i \in Item : RemoveItem(t, i)
    \/ \E a \in Agent : NewRelease(a)

----------------------------------------------------------------------------
(* What the repository returns is what users were told is saved: a save of *)
(* one half in a stale tab keeps the other half, a removed agent stays     *)
(* removed, an empty list stays empty and a refused record harms no other. *)
StoredIsConfirmed ==
    \A t \in Tab : readAll(t) = Restrict(confirmed[Of(t)], DOMAIN confirmed[Of(t)] \ broken)

(* Only the user's removal takes an item from the draft of an open editor: *)
(* a file that is read, a refetch and a save keep what was added meanwhile.*)
DraftKeepsItems ==
    [][\A t \in Tab :
         (Editing(t) /\ Editing(t)' /\ open'[t] = open[t]) =>
             draft[t].knowledge \subseteq draft'[t].knowledge \/ \E i \in Item : RemoveItem(t, i)]_evars
=============================================================================
