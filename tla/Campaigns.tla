----------------------------- MODULE Campaigns -----------------------------
(***************************************************************************)
(* Messages to many: the nine steps of a broadcast (BroadcastWizard.tsx)   *)
(* with its dispatch monitor, and the CSV blast (BlastDispatcher.tsx).     *)
(* Both run in the browser and dispatch by timers; nothing is sent yet.    *)
(***************************************************************************)
EXTENDS Integers, Sequences, FiniteSets, FiniteSetsExt

CONSTANTS Segment,     \* numbers of recipients to choose from
          HighVolume,  \* above it a broadcast is to be confirmed
          Throttle,    \* messages in a second
          Name,        \* campaign names
          Phone, Blocked,  \* numbers, those that have opted out
          MaxRow, MaxFile  \* bounds: rows of a file, files

VARIABLES
    wizard,     \* page: isWizardOpen
    campaigns,  \* page: campaigns listed
    step, name, audience, template, throttle, schedule, state,  \* wizard: step and campaignData
    typed,      \* wizard: typedConfirmationName
    paused, telemetry,
    confirmed,  \* history: the name, audience and template that were authorised
    blast,      \* blast: BlastDispatcherState
    rows,       \* blast: the rows with their categories
    loads,      \* blast: files being read
    dispatched, \* blast: dispatchedCount
    intervals,  \* blast: timers of dispatches
    files, overlapped  \* history: a file was loaded or a dispatch started while another ran

bvars == <<wizard, campaigns, step, name, audience, template, throttle, schedule, state, typed, paused, telemetry, confirmed>>
uvars == <<blast, rows, loads, dispatched, intervals, files, overlapped>>
campaignData == <<name, audience, template, throttle, schedule>>

Template == {"APPROVED", "PENDING", "REJECTED"}  \* a template is what Meta says of it
Schedule == {"IMMEDIATE", "SCHEDULED"}
NoDispatch == [total |-> Max(Segment), sent |-> 0, delivered |-> 0, read |-> 0, failed |-> 0]
NotConfirmed == [name |-> "none", audience |-> 0, template |-> "none"]
Category == {"VALID", "INVALID_SYNTAX", "DUPLICATE", "BLOCKED"}

\* A line of a file: digits with or without a plus, or something else.
Line == [phone : Phone, plus : BOOLEAN, wellFormed : BOOLEAN]

TypeOK ==
    /\ wizard \in BOOLEAN /\ campaigns \subseteq Name
    /\ step \in 1 .. 9 /\ name \in Name /\ audience \in Segment /\ template \in Template
    /\ throttle \in Throttle /\ schedule \in Schedule /\ state \in {"DRAFT", "DISPATCHING", "COMPLETED"}
    /\ typed \in Name \cup {""} /\ paused \in BOOLEAN
    /\ telemetry \in [total : Segment, sent : 0 .. Max(Segment), delivered : 0 .. Max(Segment),
                      read : 0 .. Max(Segment), failed : 0 .. Max(Segment)]
    /\ blast \in {"PARSING", "CATEGORIZED", "DISPATCHING", "FINISHED"}
    /\ Len(rows) <= MaxRow /\ \A i \in 1 .. Len(rows) : rows[i].phone \in Phone /\ rows[i].status \in Category
    /\ Cardinality(loads) <= MaxFile /\ dispatched \in 0 .. MaxRow /\ files \in 0 .. MaxFile /\ overlapped \in BOOLEAN
    /\ \A t \in intervals : t.count < t.total

WizardInit ==
    /\ step = 1 /\ name \in Name /\ audience = Max(Segment) /\ template = "APPROVED" /\ throttle \in Throttle
    /\ schedule = "IMMEDIATE" /\ state = "DRAFT" /\ typed = "" /\ paused = FALSE /\ telemetry = NoDispatch
    /\ confirmed = NotConfirmed

\* A wizard that is opened is a new one.
WizardMounted(n, r) ==
    /\ step' = 1 /\ name' = n /\ audience' = Max(Segment) /\ template' = "APPROVED" /\ throttle' = r
    /\ schedule' = "IMMEDIATE" /\ state' = "DRAFT" /\ typed' = "" /\ paused' = FALSE /\ telemetry' = NoDispatch
    /\ confirmed' = NotConfirmed

----------------------------------------------------------------------------
(* CampaignsPage *)

\* "New broadcast" and the edit button of every campaign open an empty wizard.
OpenWizard(n, r) ==
    /\ ~wizard /\ wizard' = TRUE /\ WizardMounted(n, r) /\ UNCHANGED campaigns

\* The arrow of the page at any step, or "Done & Exit": the wizard is unmounted and its timer cleared.
CloseWizard ==
    /\ wizard /\ wizard' = FALSE
    /\ UNCHANGED <<campaigns, step, campaignData, state, typed, paused, telemetry, confirmed>>

DeleteCampaign(n) ==
    /\ ~wizard /\ n \in campaigns /\ campaigns' = campaigns \ {n}
    /\ UNCHANGED <<wizard, step, campaignData, state, typed, paused, telemetry, confirmed>>

----------------------------------------------------------------------------
(* The wizard *)

Editing == wizard /\ UNCHANGED <<wizard, campaigns, step, state, paused, telemetry, confirmed>>

SetName(n) == step = 1 /\ name' = n /\ Editing /\ UNCHANGED <<audience, template, throttle, schedule, typed>>
SetSegment(s) == step = 2 /\ audience' = s /\ Editing /\ UNCHANGED <<name, template, throttle, schedule, typed>>
SetTemplate(t) == step = 3 /\ template' = t /\ Editing /\ UNCHANGED <<name, audience, throttle, schedule, typed>>
SetThrottle(r) == step = 7 /\ throttle' = r /\ Editing /\ UNCHANGED <<name, audience, template, schedule, typed>>
SetSchedule(s) == step = 7 /\ schedule' = s /\ Editing /\ UNCHANGED <<name, audience, template, throttle, typed>>
TypeName(n) == step = 8 /\ typed' = n /\ Editing /\ UNCHANGED <<name, audience, template, throttle, schedule>>

\* Only the template can fail a check; the others are fixed or warn.
hasPreflightBlocker == template # "APPROVED"

MayAdvance == ~(step = 3 /\ template # "APPROVED") /\ ~(step = 6 /\ hasPreflightBlocker)

\* Mutant: large audiences are not asked for again.
NeverAsks == FALSE

AsksAgain == audience > HighVolume

Dispatching(total) ==
    /\ step' = 9 /\ state' = "DISPATCHING" /\ telemetry' = [telemetry EXCEPT !.total = total]
    /\ confirmed' = [name |-> typed, audience |-> audience, template |-> template]

\* A small broadcast starts at once.  Its total stays the one the wizard began with.
handleNext ==
    /\ wizard /\ step < 8 /\ MayAdvance
    /\ IF step = 7 /\ ~AsksAgain THEN Dispatching(telemetry.total)
       ELSE step' = step + 1 /\ UNCHANGED <<state, telemetry, confirmed>>
    /\ UNCHANGED <<wizard, campaigns, campaignData, typed, paused>>

handlePrev ==
    /\ wizard /\ step \in 2 .. 7 /\ step' = step - 1
    /\ UNCHANGED <<wizard, campaigns, campaignData, state, typed, paused, telemetry, confirmed>>

\* The rail leads back to any step before, also from the confirmation.
GoTo(s) ==
    /\ wizard /\ step < 9 /\ s < step /\ step' = s
    /\ UNCHANGED <<wizard, campaigns, campaignData, state, typed, paused, telemetry, confirmed>>

handleConfirmDualAuth ==
    /\ wizard /\ step = 8 /\ typed = name /\ Dispatching(audience)
    /\ UNCHANGED <<wizard, campaigns, campaignData, typed, paused>>

\* Mutant: a last batch of full size.
FullBatch(t) == throttle

BatchSize(t) == Min({throttle, t.total - t.sent})

\* The interval of a second: a batch is sent, and maybe one of it fails.
Tick(fail) ==
    /\ wizard /\ step = 9 /\ ~paused /\ state = "DISPATCHING" /\ telemetry.sent < telemetry.total
    /\ LET batch == BatchSize(telemetry)
           sent == telemetry.sent + batch
           failed == telemetry.failed + fail
           delivered == Max({0, sent - failed - (batch \div 10)})
       IN  telemetry' = [telemetry EXCEPT !.sent = sent, !.failed = failed, !.delivered = delivered,
                                          !.read = (delivered * 68) \div 100]
    /\ UNCHANGED <<wizard, campaigns, step, campaignData, state, typed, paused, confirmed>>

LastTick ==
    /\ wizard /\ step = 9 /\ ~paused /\ state = "DISPATCHING" /\ telemetry.sent >= telemetry.total
    /\ state' = "COMPLETED"
    /\ UNCHANGED <<wizard, campaigns, step, campaignData, typed, paused, telemetry, confirmed>>

TogglePause ==
    /\ wizard /\ step = 9 /\ state # "COMPLETED" /\ paused' = ~paused
    /\ UNCHANGED <<wizard, campaigns, step, campaignData, state, typed, telemetry, confirmed>>

WizardNext ==
    \/ \E n \in Name, r \in Throttle : OpenWizard(n, r)
    \/ \E n \in Name : SetName(n) \/ TypeName(n) \/ DeleteCampaign(n)
    \/ \E s \in Segment : SetSegment(s)
    \/ \E t \in Template : SetTemplate(t)
    \/ \E r \in Throttle : SetThrottle(r)
    \/ \E s \in Schedule : SetSchedule(s)
    \/ CloseWizard \/ handleNext \/ handlePrev \/ handleConfirmDualAuth \/ LastTick \/ TogglePause
    \/ \E s \in 1 .. 7 : GoTo(s)
    \/ \E f \in {0, 1} : Tick(f)

----------------------------------------------------------------------------
(* The blast *)

validateE164(line) == line.wellFormed

\* Mutant: numbers are compared as they are written.
SameText(a, b) == a = b

\* Both are written with a plus.
SameNumber(a, b) == a.phone = b.phone

\* The categories of the lines, in the order of the file.
parseCsvContent(lines) ==
    LET status[i \in 0 .. Len(lines)] ==
            IF i = 0 THEN "HEADER"
            ELSE IF ~validateE164(lines[i]) THEN "INVALID_SYNTAX"
            ELSE IF lines[i].phone \in Blocked THEN "BLOCKED"
            ELSE IF \E j \in 1 .. i - 1 : status[j] = "VALID" /\ SameNumber(lines[j], lines[i]) THEN "DUPLICATE"
            ELSE "VALID"
    IN  [i \in 1 .. Len(lines) |-> [phone |-> lines[i].phone, status |-> status[i]]]

Content == UNION {[1 .. n -> Line] : n \in 0 .. MaxRow}
Valid(rs) == {i \in 1 .. Len(rs) : rs[i].status = "VALID"}

BlastInit ==
    /\ blast = "CATEGORIZED" /\ \E content \in Content : rows = parseCsvContent(content)
    /\ loads = {} /\ dispatched = 0 /\ intervals = {} /\ files = 0 /\ overlapped = FALSE

\* A file that is chosen, or the sample: it is read, and categorized later.
handleFileUpload ==
    /\ files < MaxFile /\ files' = files + 1 /\ blast' = "PARSING" /\ loads' = loads \cup {files'}
    /\ UNCHANGED <<rows, dispatched, intervals, overlapped>>

\* A file that is dropped: the state does not say that it is being read.
Drop ==
    /\ files < MaxFile /\ files' = files + 1 /\ loads' = loads \cup {files'}
    /\ UNCHANGED <<blast, rows, dispatched, intervals, overlapped>>

FileRead(f, content) ==
    /\ f \in loads /\ loads' = loads \ {f}
    /\ rows' = parseCsvContent(content) /\ blast' = "CATEGORIZED"
    /\ overlapped' = (overlapped \/ intervals # {})
    /\ UNCHANGED <<dispatched, intervals, files>>

\* The timer of an earlier dispatch is not cleared.
handleStartDispatch ==
    /\ blast \notin {"DISPATCHING", "FINISHED"} /\ Valid(rows) # {}
    /\ blast' = "DISPATCHING" /\ dispatched' = 0
    /\ intervals' = intervals \cup {[of |-> files, count |-> 0, total |-> Cardinality(Valid(rows))]}
    /\ overlapped' = (overlapped \/ intervals # {})
    /\ UNCHANGED <<rows, loads, files>>

\* Mutant: the dispatch is finished with one row to go.
LastOneLeft(t) == t.count + 1 >= t.total - 1

LastOfDispatch(t) == t.count + 1 >= t.total

DispatchTick(t) ==
    /\ t \in intervals /\ dispatched' = t.count + 1
    /\ IF LastOfDispatch(t) THEN intervals' = intervals \ {t} /\ blast' = "FINISHED"
       ELSE intervals' = (intervals \ {t}) \cup {[t EXCEPT !.count = @ + 1]} /\ UNCHANGED blast
    /\ UNCHANGED <<rows, loads, files, overlapped>>

BlastNext ==
    \/ handleFileUpload \/ Drop \/ handleStartDispatch
    \/ \E f \in loads, content \in Content : FileRead(f, content)
    \/ \E t \in intervals : DispatchTick(t)

Init == wizard = FALSE /\ campaigns = Name /\ WizardInit /\ BlastInit

----------------------------------------------------------------------------
(* However a user goes back and forth in the wizard, what is dispatched is *)
(* an approved template, and a large audience was confirmed by the name    *)
(* the campaign has now, for exactly that audience.                        *)
BroadcastWasAuthorised ==
    step = 9 => /\ template = "APPROVED" /\ confirmed.template = template /\ confirmed.audience = audience
                /\ audience > HighVolume => confirmed.name = name /\ telemetry.total = audience

(* The counts of the monitor add up at every tick, also after pauses and   *)
(* in a last batch that is not full, and a broadcast is complete when all  *)
(* of it was sent.                                                         *)
CountsAddUp ==
    /\ telemetry.delivered + telemetry.failed <= telemetry.sent /\ telemetry.sent <= telemetry.total
    /\ telemetry.read <= telemetry.delivered
    /\ state = "COMPLETED" => telemetry.sent = telemetry.total

(* Of each number that is well formed and has not opted out a file gets    *)
(* one message, however the number is written and repeated; nobody else    *)
(* gets one.                                                               *)
OneMessageEach ==
    /\ \A i \in Valid(rows) : rows[i].phone \notin Blocked
    /\ \A i, j \in Valid(rows) : rows[i].phone = rows[j].phone => i = j
    /\ \A i \in 1 .. Len(rows) : rows[i].status = "DUPLICATE" => \E j \in Valid(rows) : j < i /\ rows[j].phone = rows[i].phone

(* "All Valid Rows Dispatched!" is true, unless a file was loaded or a     *)
(* dispatch started while one was running: its timer goes on.              *)
FinishedIsTrue == blast = "FINISHED" /\ ~overlapped => dispatched = Cardinality(Valid(rows)) /\ intervals = {}

(* No broadcast is under way that is neither paused nor closed.  This      *)
(* comes about again and again: what goes on is completed.                 *)
NoneUnderWay == step = 9 /\ wizard /\ ~paused => state = "COMPLETED"
=============================================================================
