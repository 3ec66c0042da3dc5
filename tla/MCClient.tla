------------------------------ MODULE MCClient ------------------------------
(***************************************************************************)
(* The web client, each question in a part: how changes reach the screen,  *)
(* the session, the inbox page, channel setup, broadcasts and blasts, the  *)
(* preview of an AI agent and the store of AI agents.                      *)
(***************************************************************************)
EXTENDS Naturals

CONSTANTS MaxVersion, MaxToken, MaxBreak, Account, Path, Conv, MaxInbound, MaxSend, MaxPatch, MaxMiss,
          Inbox, Provider, MaxOp, MaxOther, MaxFail,
          Segment, HighVolume, Throttle, Name, Phone, Blocked, MaxRow, MaxFile,
          Message, Setting, MaxTurn, MaxSession, Agent, Seed, Tab, MaxEdit

\* Names of sessions and tabs are none of those the models use for something else.
ASSUME NamesAssumption == Account \cap {"dev", "demo", "none", "nothing"} = {} /\ "local" \notin Tab
ASSUME SyncAssumption == MaxVersion \in Nat /\ MaxToken \in Nat \ {0} /\ MaxBreak \in Nat
ASSUME InboxAssumption ==
    Conv \cap {"none", "list"} = {} /\ MaxInbound \in Nat /\ MaxSend \in Nat /\ MaxPatch \in Nat /\ MaxMiss \in Nat
ASSUME PreviewAssumption == MaxTurn \in Nat /\ MaxSession \in Nat \ {0}
ASSUME SetupAssumption == Inbox \subseteq Nat \ {0} /\ 1 \in Inbox /\ MaxOp \in Nat /\ MaxOther \in Nat /\ MaxFail \in Nat
ASSUME CampaignAssumption ==
    /\ Segment \subseteq Nat /\ (\E m \in Segment : \A s \in Segment : m >= s) /\ Throttle \subseteq Nat \ {0}
    /\ HighVolume \in Nat /\ MaxRow \in Nat /\ MaxFile \in Nat
ASSUME StoreAssumption == Seed \subseteq Agent /\ 0 \notin Agent /\ MaxEdit \in Nat
\* The statuses of a pipeline are its places; there is a last one.
ASSUME SettingAssumption ==
    \A g \in Setting : /\ g.messageLimit \in Nat /\ g.statuses \subseteq Nat
                       /\ \E n \in g.statuses \cup {0} : \A p \in g.statuses : p <= n

VARIABLES part,
    writing, version, conn, pgClient, timerSet, armed, stopped, hints, status, sockToken, token, expired,
    lastSeen, data, fetch, outdated, gap, breaks,
    session, actor, mode, devActive, cookie, devStored, supa, boot, told, asks, call, page, returnUrl, overtaken,
    convs, list, listRead, msgs, msgsRead, stale, selected, tab, seen, marking, patch, send, owed,
    inbound, sends, patches, missed,
    source, srv, rows, read, selectedId, panel, saves, removal, tests, connectOpen, reconnectId, modal,
    requests, ops, others, fails,
    wizard, campaigns, step, name, audience, template, throttle, schedule, state, typed, paused, telemetry,
    authorised, blast, lines, loads, dispatched, intervals, files, overlapped,
    general, chat, entries, queue, timer, chatSession, answer, turns,
    storage, shelf, used, broken, open, cache, draft, reading, confirmed, edits

Sync == INSTANCE RealtimeSync WITH stale <- outdated
Session == INSTANCE ClientSession
Page == INSTANCE InboxClient WITH srv <- convs
Setup == INSTANCE ChannelSetup WITH mode <- source
Broadcast == INSTANCE Campaigns WITH rows <- lines, confirmed <- authorised
Preview == INSTANCE AgentPreview WITH session <- chatSession
Store == INSTANCE AgentStore

\* The platforms are some of those there is a form for.
ASSUME PlatformAssumption == Provider \subseteq Setup!Platforms /\ Provider # {}

svars == <<writing, version, conn, pgClient, timerSet, armed, stopped, hints, status, sockToken, token, expired,
           lastSeen, data, fetch, outdated, gap, breaks>>
nvars == <<session, actor, mode, devActive, cookie, devStored, supa, boot, told, asks, call, page, returnUrl, overtaken>>
yvars == <<convs, list, listRead, msgs, msgsRead, stale, selected, tab, seen, marking, patch, send, owed,
           inbound, sends, patches, missed>>
hvars == <<source, srv, rows, read, selectedId, panel, saves, removal, tests, connectOpen, reconnectId, modal,
           requests, ops, others, fails>>
bvars == <<wizard, campaigns, step, name, audience, template, throttle, schedule, state, typed, paused, telemetry,
           authorised>>
uvars == <<blast, lines, loads, dispatched, intervals, files, overlapped>>
avars == <<general, chat, entries, queue, timer, chatSession, answer, turns>>
evars == <<storage, shelf, used, broken, open, cache, draft, reading, confirmed, edits>>
allvars == <<part, svars, nvars, yvars, hvars, bvars, uvars, avars, evars>>

----------------------------------------------------------------------------
(* What customers write to the agent, and its settings *)

M(intent, topic, labels, stages) == [intent |-> intent, topic |-> topic, labels |-> labels, stages |-> stages]

MCMessage ==
    {M("transfer", "none", {}, {}), M("greeting", "none", {}, {}), M("thanks", "none", {}, {}),
     M("ask", "t1", {"vip"}, {3}), M("ask", "t2", {}, {2}), M("ask", "none", {}, {})}

Usual == [stopAfterHandoff |-> TRUE, silentHandoff |-> FALSE, messageLimit |-> 2, welcome |-> TRUE,
          sessionOnlyMemory |-> TRUE, labels |-> {"vip"}, statuses |-> {2, 3}, historyLimit |-> 2]

MCSetting ==
    {Usual,
     [Usual EXCEPT !.sessionOnlyMemory = FALSE, !.stopAfterHandoff = FALSE],
     [Usual EXCEPT !.silentHandoff = TRUE, !.messageLimit = 1, !.sessionOnlyMemory = FALSE]}

----------------------------------------------------------------------------
\* The parts that a behaviour is not about start in one of their states.
ClientInit ==
    /\ part \in {"sync", "session", "reply", "manage", "panel", "dialog", "wizard", "blast", "preview", "store"}
    /\ Sync!Init
    /\ Session!Init /\ (part = "session" \/ (supa = "none" /\ returnUrl = "/inbox"))
    /\ Page!Init /\ tab = (IF part = "reply" THEN "all" ELSE "mine")
    /\ Setup!Init /\ srv[1].provider = "EMAIL_SMTP_IMAP" /\ (part = "panel") = (srv[2].there = "yes")
    /\ (part \in {"panel", "dialog"} \/ source = "connected")
    /\ Broadcast!Init /\ (part = "wizard" \/ (name = "a" /\ throttle = 10)) /\ (part = "blast" \/ lines = <<>>)
    /\ Preview!Init /\ (part = "preview" \/ general = Usual)
    /\ Store!Init /\ (part = "store" \/ storage = "ok")

ClientNext ==
    /\ UNCHANGED part
    /\ \/ part = "sync" /\ Sync!Next /\ UNCHANGED <<nvars, yvars, hvars, bvars, uvars, avars, evars>>
       \/ part = "session" /\ Session!Next /\ UNCHANGED <<svars, yvars, hvars, bvars, uvars, avars, evars>>
       \/ part = "reply" /\ Page!ReplyNext /\ UNCHANGED <<svars, nvars, hvars, bvars, uvars, avars, evars>>
       \/ part = "manage" /\ Page!ManageNext /\ UNCHANGED <<svars, nvars, hvars, bvars, uvars, avars, evars>>
       \/ part = "panel" /\ Setup!PanelNext /\ UNCHANGED <<svars, nvars, yvars, bvars, uvars, avars, evars>>
       \/ part = "dialog" /\ Setup!DialogNext /\ UNCHANGED <<svars, nvars, yvars, bvars, uvars, avars, evars>>
       \/ part = "wizard" /\ Broadcast!WizardNext /\ UNCHANGED <<svars, nvars, yvars, hvars, uvars, avars, evars>>
       \/ part = "blast" /\ Broadcast!BlastNext /\ UNCHANGED <<svars, nvars, yvars, hvars, bvars, avars, evars>>
       \/ part = "preview" /\ Preview!Next /\ UNCHANGED <<svars, nvars, yvars, hvars, bvars, uvars, evars>>
       \/ part = "store" /\ Store!Next /\ UNCHANGED <<svars, nvars, yvars, hvars, bvars, uvars, avars>>

\* Steps of a part as steps of the whole.
InSync(A) == part = "sync" /\ A /\ UNCHANGED <<part, nvars, yvars, hvars, bvars, uvars, avars, evars>>
OnPage(A) == part = "manage" /\ A /\ UNCHANGED <<part, svars, nvars, hvars, bvars, uvars, avars, evars>>
InWizard(A) == part = "wizard" /\ A /\ UNCHANGED <<part, svars, nvars, yvars, hvars, uvars, avars, evars>>

\* Polls are sent at each interval and answered, the wizard's timer ticks.
Recurring ==
    \/ InSync(Sync!FetchSent \/ Sync!FetchRead \/ Sync!FetchAnswered)
    \/ OnPage(Page!ListRequested \/ Page!ListAnswered)
    \/ InWizard(Broadcast!LastTick \/ \E f \in {0, 1} : Broadcast!Tick(f))

\* A request that says a conversation is read gets there.
ReadReported == OnPage(\E c \in Conv : Page!MarkReadApplied(c))

Fairness == WF_allvars(Recurring) /\ WF_allvars(ReadReported)

ClientSpec == ClientInit /\ [][ClientNext]_allvars /\ Fairness

----------------------------------------------------------------------------
(* The screen tells the truth: hints alone keep an inbox up to date while none is lost and the   *)
(* relay never stays down; no reply is shown that the server does not have; the agent's preview  *)
(* answers from what it may remember and leaves no message waiting; and the repository of agents *)
(* returns what its users were told is saved.                                                    *)
ClientShowsTheTruth ==
    /\ part = "sync" => Sync!TypeOK /\ Sync!HintsSuffice /\ Sync!RelayComesBack
    /\ part \in {"reply", "manage"} => Page!TypeOK /\ Page!NoGhostMessage
    /\ part = "preview" => Preview!TypeOK /\ Preview!AnswersFromMemory /\ Preview!QueueIsTimed
    /\ part = "store" => Store!TypeOK /\ Store!StoredIsConfirmed

(* What the client does, it may do: actor and cookie are those of the session in use; a channel  *)
(* is connected with what was typed for its platform; a broadcast goes out as it was authorised, *)
(* its counts add up, and a blast reaches each valid number once.                                *)
ActionsAreAuthorised ==
    /\ part = "session" => Session!TypeOK /\ Session!SessionIsOne
    /\ part \in {"panel", "dialog"} => Setup!TypeOK /\ Setup!SentAsTyped /\ Setup!DoneIsTrue
    /\ part \in {"wizard", "blast"} =>
         /\ Broadcast!TypeOK /\ Broadcast!BroadcastWasAuthorised /\ Broadcast!CountsAddUp
         /\ Broadcast!OneMessageEach /\ Broadcast!FinishedIsTrue

(* What a step of the client never does: end a dev session because Supabase has none, save more  *)
(* of an inbox than was edited, let an agent write when its settings forbid it, or drop an item  *)
(* of a knowledge draft that the user did not remove.                                            *)
ClientStepsKeepPromises ==
    /\ Session!DevSessionStays
    /\ Setup!SaveWritesEdits
    /\ Preview!AgentKeepsToSettings
    /\ Store!DraftKeepsItems

(* Again and again every change is shown, the open conversation is read and each broadcast that  *)
(* was not paused or closed is completed, whatever was lost before.                              *)
ChangesAreShown ==
    []<>(/\ part = "sync" => Sync!Shown
         /\ part = "manage" => Page!OpenIsRead
         /\ part = "wizard" => Broadcast!NoneUnderWay)
=============================================================================
