---------------------------- MODULE ChannelSetup ----------------------------
(***************************************************************************)
(* The Channels page: the list of inboxes, the settings panel of the one   *)
(* shown, and the dialog that connects a platform or replaces credentials. *)
(* In preview mode the same page works on sample inboxes in memory.        *)
(***************************************************************************)
EXTENDS Naturals, FiniteSets

CONSTANTS Inbox,     \* 1 .. n
          Provider,  \* platforms
          MaxOp,     \* bound: changes this admin asks for
          MaxOther,  \* bound: changes by others
          MaxFail    \* bound: failed requests

VARIABLES
    mode,        \* "connected" or "preview"
    srv,         \* the inboxes: on the server, or in memory in preview mode
    rows, read,  \* the list on display and the request for it in flight
    selectedId, panel,       \* page: selection and settings panel
    saves, removal, tests,   \* requests of the panel in flight
    connectOpen, modal, requests,  \* the dialog and its requests
    reconnectId,  \* page: reconnectInbox; the id of an inbox that is gone from the list finds none
    ops, others, fails

hvars == <<mode, srv, rows, read, selectedId, panel, saves, removal, tests, connectOpen, reconnectId, modal, requests,
           ops, others, fails>>
listing == <<rows, read, selectedId, panel, saves, tests, modal, requests>>
dialog == <<connectOpen, reconnectId, modal, requests>>
pending == <<saves, removal, tests>>

Field == {"name", "agents"}
Platforms == {"WHATSAPP_CLOUD", "META_INSTAGRAM", "META_MESSENGER", "TELEGRAM_BOT", "LINE_MESSAGING",
              "WEBCHAT_EMBED", "EMAIL_SMTP_IMAP", "CUSTOM_WEBHOOK"}

\* The fields of a platform that must be given, those that may be left out or have a default, and its secrets.
CONNECT_FORMS(p) ==
    CASE p = "WHATSAPP_CLOUD" -> [needs |-> {"phoneNumberId", "businessAccountId", "accessToken", "appSecret"},
                                  may |-> {}, secrets |-> {"accessToken", "appSecret"}]
      [] p = "META_INSTAGRAM" -> [needs |-> {"accessToken", "appSecret"}, may |-> {}, secrets |-> {"accessToken", "appSecret"}]
      [] p = "META_MESSENGER" -> [needs |-> {"pageId", "pageAccessToken", "appSecret"},
                                  may |-> {}, secrets |-> {"pageAccessToken", "appSecret"}]
      [] p = "TELEGRAM_BOT" -> [needs |-> {"botToken"}, may |-> {}, secrets |-> {"botToken"}]
      [] p = "LINE_MESSAGING" -> [needs |-> {"channelAccessToken", "channelSecret"},
                                  may |-> {}, secrets |-> {"channelAccessToken", "channelSecret"}]
      [] p = "WEBCHAT_EMBED" -> [needs |-> {}, may |-> {"websiteUrl", "accentColor"}, secrets |-> {}]
      [] p = "EMAIL_SMTP_IMAP" -> [needs |-> {"emailAddress", "username", "password"},
                                   may |-> {"senderName"}, secrets |-> {"password"}]
      [] p = "CUSTOM_WEBHOOK" -> [needs |-> {"outboundUrl"}, may |-> {}, secrets |-> {}]

FieldsOf(p) == CONNECT_FORMS(p).needs \cup CONNECT_FORMS(p).may
Key == UNION {FieldsOf(p) : p \in Platforms}

Value == {"", "malformed", "default", "saved"} \cup Provider  \* typed in: the platform it was typed for
Blank == [k \in Key |-> ""]
Row == [there : {"never", "yes", "gone"}, provider : Provider, name : {"old", "new", ""}, agents : {"old", "new"},
        needsReconnect : BOOLEAN]
NoRow == [there |-> "never", provider |-> CHOOSE p \in Provider : TRUE, name |-> "old", agents |-> "old", needsReconnect |-> FALSE]
NoRows == [i \in Inbox |-> NoRow]
NoPanel == [of |-> 0, base |-> NoRow, name |-> "old", agents |-> "old", edited |-> {}, saving |-> FALSE, testing |-> FALSE,
            result |-> 0]
Closed == [step |-> "closed", provider |-> "none", values |-> Blank, named |-> FALSE, submitting |-> FALSE, connected |-> 0]
Steps == {"closed", "platform", "details", "done"}

TypeOK ==
    /\ mode \in {"connected", "preview"} /\ srv \in [Inbox -> Row] /\ rows \in [Inbox -> Row] /\ read \in [Inbox -> Row]
    /\ selectedId \in {0} \cup Inbox /\ panel.of \in {0} \cup Inbox /\ panel.edited \subseteq Field
    /\ \A s \in saves : s.of \in Inbox /\ s.name # ""
    /\ removal \in {0} \cup Inbox /\ \A t \in tests : t.of \in Inbox
    /\ connectOpen \in BOOLEAN /\ reconnectId \in {0} \cup Inbox
    /\ modal.step \in Steps /\ modal.values \in [Key -> Value]
    /\ \A r \in requests : r.of \in {0} \cup Inbox
    /\ ops <= MaxOp /\ others <= MaxOther /\ fails <= MaxFail

There(rs) == {i \in Inbox : rs[i].there = "yes"}
Some(p) == [NoRow EXCEPT !.there = "yes", !.provider = p]

\* toDraft: the panel of inbox i starts from what the list shows.
Mount(rs, i) == IF i = 0 THEN NoPanel
                ELSE [NoPanel EXCEPT !.of = i, !.base = rs[i], !.name = rs[i].name, !.agents = rs[i].agents]

\* "inboxes.find(id) ?? inboxes[0] ?? null"
First(is) == IF is = {} THEN 0 ELSE CHOOSE i \in is : \A j \in is : i <= j
Selected(rs, id) == IF id \in There(rs) THEN id ELSE First(There(rs))

\* Mutant: without its key the panel lives on when another inbox is shown.
Relabelled(rs, id) == [panel EXCEPT !.of = Selected(rs, id), !.base = IF Selected(rs, id) = 0 THEN NoRow ELSE rs[Selected(rs, id)]]

\* key={inbox.id}: another inbox, another panel.
Keyed(rs, id) == IF Selected(rs, id) = panel.of THEN panel ELSE Mount(rs, Selected(rs, id))

Orphaned(s) == {[x EXCEPT !.orphan = TRUE] : x \in s}

\* The page is rendered with these rows and this selection.  What is unmounted forgets its requests.
Show(rs, id) ==
    /\ rows' = rs /\ selectedId' = id /\ panel' = Keyed(rs, id)
    /\ IF Selected(rs, id) = panel.of THEN UNCHANGED <<saves, tests>>
       ELSE saves' = Orphaned(saves) /\ tests' = Orphaned(tests)
    /\ IF reconnectId # 0 /\ reconnectId \notin There(rs) THEN modal' = Closed /\ reconnectId' = 0 /\ requests' = Orphaned(requests)
       ELSE UNCHANGED <<modal, reconnectId, requests>>

Init ==
    /\ mode \in {"connected", "preview"}
    /\ \E p \in Provider, n \in Inbox :
          srv = [i \in Inbox |-> IF i > n THEN NoRow ELSE [Some(p) EXCEPT !.needsReconnect = (i = 1)]]
    /\ rows = (IF mode = "preview" THEN srv ELSE NoRows) /\ read = NoRows
    /\ selectedId = 0 /\ panel = (IF mode = "preview" THEN Mount(srv, 1) ELSE NoPanel)
    /\ saves = {} /\ removal = 0 /\ tests = {}
    /\ connectOpen = FALSE /\ reconnectId = 0 /\ modal = Closed /\ requests = {} /\ ops = 0 /\ others = 0 /\ fails = 0

Asks == ops < MaxOp /\ ops' = ops + 1
Fails == fails < MaxFail /\ fails' = fails + 1
Live == mode = "connected"

----------------------------------------------------------------------------
(* The list *)

\* First load, refetchInterval, an invalidation or the retry button.
ListRequested ==
    /\ Live /\ read = NoRows /\ read' = srv
    /\ UNCHANGED <<mode, srv, rows, selectedId, panel, pending, dialog, ops, others, fails>>

ListAnswered ==
    /\ read # NoRows /\ read' = NoRows /\ Show(read, selectedId)
    /\ UNCHANGED <<mode, srv, removal, connectOpen, ops, others, fails>>

\* Another admin, or the worker that reports the health of a channel.
Other(i, row) ==
    /\ Live /\ others < MaxOther /\ others' = others + 1 /\ srv[i].there = "yes"
    /\ srv' = [srv EXCEPT ![i] = row]
    /\ UNCHANGED <<mode, listing, removal, connectOpen, reconnectId, ops, fails>>

OtherEdits(i) == Other(i, [srv[i] EXCEPT !.agents = "new"]) \/ Other(i, [srv[i] EXCEPT !.needsReconnect = TRUE])
OtherDeletes(i) == Other(i, [srv[i] EXCEPT !.there = "gone"])

\* InboxList: only a click; the dialog covers the list.
Select(i) ==
    /\ modal = Closed /\ i \in There(rows) \ {panel.of} /\ Show(rows, i)
    /\ UNCHANGED <<mode, srv, read, removal, connectOpen, ops, others, fails>>

----------------------------------------------------------------------------
(* The settings panel *)

Edit(f, v) ==
    /\ modal = Closed /\ panel.of # 0 /\ (f = "name" \/ v # "")
    /\ panel' = IF f = "name" THEN [panel EXCEPT !.name = v, !.edited = @ \cup {f}]
                ELSE [panel EXCEPT !.agents = v, !.edited = @ \cup {f}]
    /\ UNCHANGED <<mode, srv, rows, read, selectedId, pending, dialog, ops, others, fails>>

isDirty == <<panel.name, panel.agents>> # <<rows[panel.of].name, rows[panel.of].agents>>
canSave == panel.of # 0 /\ isDirty /\ panel.name # "" /\ ~panel.saving

Write(rs, s) == [rs EXCEPT ![s.of].name = s.name, ![s.of].agents = s.agents]

\* handleSave; in memory it is done at once.
save ==
    /\ modal = Closed /\ canSave /\ Asks
    /\ LET s == [of |-> panel.of, name |-> panel.name, agents |-> panel.agents, edited |-> panel.edited,
                 base |-> panel.base, orphan |-> FALSE]
       IN  IF Live THEN saves' = saves \cup {s} /\ panel' = [panel EXCEPT !.saving = TRUE] /\ UNCHANGED <<srv, rows>>
           ELSE srv' = Write(srv, s) /\ rows' = srv' /\ UNCHANGED <<saves, panel>>
    /\ UNCHANGED <<mode, read, selectedId, removal, tests, dialog, others, fails>>

Settled(x) == panel' = IF x.orphan THEN panel ELSE [panel EXCEPT !.saving = FALSE]

\* PATCH is applied and answered: the list is invalidated.
SaveSucceeds(s) ==
    /\ s \in saves /\ srv[s.of].there = "yes" /\ saves' = saves \ {s}
    /\ srv' = Write(srv, s) /\ read' = NoRows /\ Settled(s)
    /\ UNCHANGED <<mode, rows, selectedId, removal, tests, dialog, ops, others, fails>>

SaveFails(s) ==
    /\ s \in saves /\ saves' = saves \ {s} /\ Settled(s)
    /\ (srv[s.of].there = "gone" /\ UNCHANGED fails) \/ Fails
    /\ UNCHANGED <<mode, srv, rows, read, selectedId, removal, tests, dialog, ops, others>>

\* Confirmed in the dialog; in memory the inbox is gone at once and its neighbour is selected.
onDelete ==
    /\ modal = Closed /\ panel.of # 0 /\ removal = 0 /\ Asks
    /\ IF Live THEN removal' = panel.of /\ UNCHANGED <<srv, rows, selectedId, panel, saves, tests, modal, reconnectId, requests>>
       ELSE LET rs == [srv EXCEPT ![panel.of].there = "gone"]
            IN  srv' = rs /\ Show(rs, First(There(rs))) /\ UNCHANGED removal
    /\ UNCHANGED <<mode, read, connectOpen, others, fails>>

\* DELETE: the neighbour is looked up in the list of the click, which may have changed since.
RemoveSucceeds ==
    /\ removal # 0 /\ removal' = 0 /\ srv[removal].there = "yes"
    /\ srv' = [srv EXCEPT ![removal].there = "gone"] /\ read' = NoRows
    /\ \E id \in {0} \cup (Inbox \ {removal}) : Show(rows, id)
    /\ UNCHANGED <<mode, connectOpen, ops, others, fails>>

RemoveFails ==
    /\ removal # 0 /\ removal' = 0
    /\ (srv[removal].there = "gone" /\ UNCHANGED fails) \/ Fails
    /\ UNCHANGED <<mode, srv, listing, connectOpen, reconnectId, ops, others>>

\* ConnectionSection is there in connected mode only.
runTest ==
    /\ Live /\ modal = Closed /\ panel.of # 0 /\ ~panel.testing /\ Asks
    /\ tests' = tests \cup {[of |-> panel.of, orphan |-> FALSE]}
    /\ panel' = [panel EXCEPT !.testing = TRUE, !.result = 0]
    /\ UNCHANGED <<mode, srv, rows, read, selectedId, saves, removal, dialog, others, fails>>

\* ok, not ok or an error: onSettled invalidates the list, and a panel that is still there shows the result.
TestSettles(t) ==
    /\ t \in tests /\ tests' = tests \ {t} /\ read' = NoRows
    /\ panel' = IF t.orphan THEN panel ELSE [panel EXCEPT !.testing = FALSE, !.result = t.of]
    /\ UNCHANGED <<mode, srv, rows, selectedId, saves, removal, dialog, ops, others, fails>>

----------------------------------------------------------------------------
(* The dialog *)

\* Saved details for what is not secret, else the default, else nothing.
initialFormValues(p, saved) ==
    [k \in Key |-> IF k \notin FieldsOf(p) THEN ""
                   ELSE IF saved /\ k \notin CONNECT_FORMS(p).secrets THEN "saved"
                   ELSE IF k = "accentColor" THEN "default" ELSE ""]

openConnect ==
    /\ modal = Closed /\ connectOpen' = TRUE /\ modal' = [Closed EXCEPT !.step = "platform"]
    /\ UNCHANGED <<mode, srv, rows, read, selectedId, panel, pending, reconnectId, requests, ops, others, fails>>

\* Mutant: what was typed for the platform before stays.
KeepValues(p) == modal.values

FreshValues(p) == initialFormValues(p, FALSE)

choosePlatform(p) ==
    /\ modal.step = "platform"
    /\ modal' = [modal EXCEPT !.provider = p, !.values = FreshValues(p), !.step = "details"]
    /\ UNCHANGED <<mode, srv, rows, read, selectedId, panel, pending, connectOpen, reconnectId, requests, ops, others, fails>>

AllPlatforms ==
    /\ modal.step = "details" /\ reconnectId = 0 /\ ~modal.submitting
    /\ modal' = [modal EXCEPT !.step = "platform"]
    /\ UNCHANGED <<mode, srv, rows, read, selectedId, panel, pending, connectOpen, reconnectId, requests, ops, others, fails>>

\* Clearing the name again only disables the button.
SetName ==
    /\ modal.step = "details" /\ reconnectId = 0 /\ ~modal.named /\ modal' = [modal EXCEPT !.named = TRUE]
    /\ UNCHANGED <<mode, srv, rows, read, selectedId, panel, pending, connectOpen, reconnectId, requests, ops, others, fails>>

\* Texts to type: for a required detail that is not secret also one that the form refuses.
Typed(p, k) == IF k \in CONNECT_FORMS(p).needs \ CONNECT_FORMS(p).secrets THEN {p, "malformed"} ELSE {p}

\* An address also fills a user name that is empty or that was the address.
setValue(k, v) ==
    /\ modal.step = "details" /\ Live /\ k \in FieldsOf(modal.provider)
    /\ \E follow \in BOOLEAN :
          /\ k = "emailAddress" /\ modal.values["username"] = "" => follow
          /\ LET vs == [modal.values EXCEPT ![k] = v]
             IN  modal' = [modal EXCEPT !.values = IF k = "emailAddress" /\ follow THEN [vs EXCEPT !["username"] = v] ELSE vs]
    /\ UNCHANGED <<mode, srv, rows, read, selectedId, panel, pending, connectOpen, reconnectId, requests, ops, others, fails>>

\* Only the fields of the form; a blank one is left out.
buildCredentials(p, vs) == [k \in Key |-> IF k \in FieldsOf(p) THEN vs[k] ELSE ""]

fieldErrorsFrom(p, c) == {k \in FieldsOf(p) : c[k] = "malformed" \/ (c[k] = "" /\ k \in CONNECT_FORMS(p).needs)}

\* In connected mode; a form with errors only shows them.
submit ==
    /\ Live /\ modal.step = "details" /\ ~modal.submitting
    /\ reconnectId # 0 \/ modal.named
    /\ LET c == buildCredentials(modal.provider, modal.values)
       IN  /\ fieldErrorsFrom(modal.provider, c) = {}
           /\ requests' = requests \cup {[of |-> reconnectId, provider |-> modal.provider, sent |-> c, done |-> 0, orphan |-> FALSE]}
    /\ Asks /\ modal' = [modal EXCEPT !.submitting = TRUE]
    /\ UNCHANGED <<mode, srv, rows, read, selectedId, panel, pending, connectOpen, reconnectId, others, fails>>

NewIds == {i \in Inbox : srv[i].there = "never"}

\* Preview mode: the inbox is added and shown, the dialog closes.
submitPreview ==
    /\ ~Live /\ modal.step = "details" /\ modal.named /\ NewIds # {} /\ Asks
    /\ LET i == First(NewIds) rs == [srv EXCEPT ![i] = Some(modal.provider)]
       IN  srv' = rs /\ rows' = rs /\ selectedId' = i /\ panel' = Keyed(rs, i)
    /\ connectOpen' = FALSE /\ modal' = Closed
    /\ UNCHANGED <<mode, read, pending, reconnectId, requests, others, fails>>

\* External: the API verifies the credentials with the platform and stores them.
RequestApplied(r) ==
    /\ r \in requests /\ r.done = 0
    /\ \E i \in Inbox :
          /\ IF r.of = 0 THEN i = First(NewIds) ELSE i = r.of /\ srv[i].there = "yes"
          /\ srv' = [srv EXCEPT ![i] = IF r.of = 0 THEN Some(r.provider) ELSE [@ EXCEPT !.needsReconnect = FALSE]]
          /\ requests' = (requests \ {r}) \cup {[r EXCEPT !.done = i]}
    /\ UNCHANGED <<mode, rows, read, selectedId, panel, pending, connectOpen, reconnectId, modal, ops, others, fails>>

\* Mutant: the dialog reports success whatever was answered.
SuccessAssumed(r) == [modal EXCEPT !.step = "done", !.connected = 1, !.submitting = FALSE]

AfterError(r) == [modal EXCEPT !.submitting = FALSE]

RequestAnswered(r) ==
    /\ r \in requests /\ r.done # 0 /\ requests' = requests \ {r} /\ read' = NoRows
    /\ modal' = IF r.orphan THEN modal ELSE [modal EXCEPT !.step = "done", !.connected = r.done, !.submitting = FALSE]
    /\ IF r.of # 0 THEN UNCHANGED <<selectedId, panel, saves, tests>>
       ELSE selectedId' = r.done /\ panel' = Keyed(rows, r.done)
            /\ IF Selected(rows, r.done) = panel.of THEN UNCHANGED <<saves, tests>>
               ELSE saves' = Orphaned(saves) /\ tests' = Orphaned(tests)
    /\ UNCHANGED <<mode, srv, rows, removal, connectOpen, reconnectId, ops, others, fails>>

\* Refused, unreachable, or the inbox no longer exists.
RequestFails(r) ==
    /\ r \in requests /\ requests' = requests \ {r}
    /\ IF r.of # 0 /\ srv[r.of].there = "gone" THEN UNCHANGED fails ELSE Fails
    /\ modal' = IF r.orphan THEN modal ELSE AfterError(r)
    /\ UNCHANGED <<mode, srv, rows, read, selectedId, panel, pending, connectOpen, reconnectId, ops, others>>

\* "Reconnect" and "Update credentials": in memory the inbox is connected again at once.
handleReconnect ==
    /\ modal = Closed /\ panel.of # 0 /\ (Live \/ rows[panel.of].needsReconnect)
    /\ IF Live THEN /\ reconnectId' = panel.of /\ UNCHANGED <<srv, rows>>
                    /\ modal' = [Closed EXCEPT !.step = "details", !.provider = rows[panel.of].provider,
                                               !.values = initialFormValues(rows[panel.of].provider, TRUE)]
       ELSE srv' = [srv EXCEPT ![panel.of].needsReconnect = FALSE] /\ rows' = srv' /\ UNCHANGED <<reconnectId, modal>>
    /\ UNCHANGED <<mode, read, selectedId, panel, pending, connectOpen, requests, ops, others, fails>>

\* Escape, a click beside the dialog, its close button or Done: never while a request is in flight.
onClose ==
    /\ modal # Closed /\ ~modal.submitting
    /\ modal' = Closed /\ connectOpen' = FALSE /\ reconnectId' = 0
    /\ UNCHANGED <<mode, srv, rows, read, selectedId, panel, pending, requests, ops, others, fails>>

----------------------------------------------------------------------------
List == ListRequested \/ ListAnswered \/ \E i \in Inbox : OtherDeletes(i)

PanelNext ==
    \/ List \/ \E i \in Inbox : Select(i) \/ OtherEdits(i)
    \/ save \/ onDelete \/ runTest \/ RemoveSucceeds \/ RemoveFails
    \/ \E f \in Field, v \in {"new", ""} : Edit(f, v)
    \/ \E s \in saves : SaveSucceeds(s) \/ SaveFails(s)
    \/ \E t \in tests : TestSettles(t)

DialogNext ==
    \/ List \/ openConnect \/ AllPlatforms \/ SetName \/ submit \/ submitPreview \/ handleReconnect \/ onClose
    \/ \E p \in Provider : choosePlatform(p)
    \/ modal.step = "details" /\ \E k \in FieldsOf(modal.provider) : \E v \in Typed(modal.provider, k) : setValue(k, v)
    \/ \E r \in requests : RequestApplied(r) \/ RequestAnswered(r) \/ RequestFails(r)

----------------------------------------------------------------------------
(* The platform verifies what was typed for it: a request carries every    *)
(* required field, no secret but one typed into this dialog for this       *)
(* platform, and nothing that was typed for another one.                   *)
SentAsTyped ==
    \A r \in requests :
        /\ \A k \in Key : r.sent[k] \in {"", "default", "saved", r.provider}
        /\ \A k \in CONNECT_FORMS(r.provider).needs : r.sent[k] # ""
        /\ \A k \in CONNECT_FORMS(r.provider).secrets : r.sent[k] = r.provider

(* "is connected" is only said of an inbox that the API has connected      *)
(* through this dialog; a test result is only shown at the inbox tested.   *)
DoneIsTrue ==
    /\ modal.step = "done" => /\ modal.connected # 0 /\ srv[modal.connected].there # "never"
                              /\ srv[modal.connected].provider = modal.provider
    /\ panel.result \in {0, panel.of}

(* A save changes what the admin edited.  What it takes back otherwise had *)
(* been changed since the panel was opened.                                *)
SaveWritesEdits ==
    [][\A s \in saves \ saves', f \in Field :
          srv'[s.of][f] # srv[s.of][f] => f \in s.edited \/ s.base[f] # srv[s.of][f]]_hvars
=============================================================================
