---------------------- MODULE InboundProcessingProofs ----------------------
(***************************************************************************)
(* Proofs about the way in, for any number of events, webhook calls,       *)
(* workers, attempts and faults.                                           *)
(***************************************************************************)
EXTENDS InboundProcessing, TLAPS

-----------------------------------------------------------------------------
(* The inductive invariant *)

JobType == [at : {"none", "outbox", "waiting", "active", "finished", "failed"},
            owner : Runner \cup {NoRunner}, made : Nat, stalls : Nat]
RunType == [pc : PC, event : Event \cup {""}, seen : Nat, next : Nat, handled : Nat, ignored : Nat]

\* The types in full; history included.
FullType ==
    /\ status \in [Event -> {"NONE", "RECEIVED", "PROCESSING"} \cup Terminal]
    /\ attempts \in [Event -> Nat]
    /\ job \in [Event -> JobType]
    /\ call \in [Request -> [todo : SUBSET Event, batch : SUBSET Event]]
    /\ acked \subseteq Event
    /\ run \in [Runner -> RunType]
    /\ rows \in [MessageId -> Nat]
    /\ sent \subseteq OutboundId /\ applied \subseteq OutboundId /\ gaveUp \subseteq OutboundId
    /\ faults \in 0 .. MaxFaults

\* A job is there for every row of the journal, is locked while it is active, and has counted
\* no more attempts and stalls than the limit when it can run again.
JobInv ==
    \A e \in Event :
        /\ job[e].at = "none" <=> status[e] = "NONE"
        /\ job[e].at = "active" <=> job[e].owner \in Runner
        /\ job[e].made <= RetryLimit + 1 /\ job[e].stalls <= RetryLimit + 1
        /\ job[e].at \notin {"finished", "failed"} =>
              job[e].made <= RetryLimit /\ job[e].stalls <= RetryLimit

\* Of what a call brought, each event of a connected channel is journaled or still to do.
CallInv ==
    \A q \in Request : \A e \in call[q].batch :
        ChannelOf[e] \in Connected \ deleted => e \in call[q].todo \/ status[e] # "NONE"

Busy(r) == run[r].pc # "idle"
Working(r) == run[r].pc \in {"next", "insert", "retry", "permanent"}

\* What the position of a run says about its event, and about the attempts it has read.
RunInv ==
    \A r \in Runner :
        /\ Busy(r) => run[r].event \in Event /\ status[run[r].event] # "NONE"
        /\ run[r].next >= 1
        /\ run[r].pc \in {"read", "claim"} => run[r].next = 1
        /\ run[r].pc = "claim" => run[r].seen <= attempts[run[r].event]
        /\ Working(r) => run[r].seen + 1 <= attempts[run[r].event]
        /\ run[r].pc = "insert" =>
              /\ run[r].next <= Len(Results[run[r].event])
              /\ Results[run[r].event][run[r].next].type = "MESSAGE"

\* The i-th result of an event has been dealt with.
ResultDone(e, i) ==
    /\ Results[e][i].type = "MESSAGE" => rows[Results[e][i].id] > 0
    /\ Results[e][i].type = "DELIVERY_RECEIPT" => Results[e][i].id \in applied \cup gaveUp

\* A run has dealt with the results before the one it is at, and a PROCESSED event with all.
DoneInv ==
    /\ \A r \in Runner : run[r].pc \in {"next", "insert"} =>
          \A i \in 1 .. Len(Results[run[r].event]) : i < run[r].next => ResultDone(run[r].event, i)
    /\ \A e \in Event : status[e] = "PROCESSED" =>
          \A i \in 1 .. Len(Results[e]) : ResultDone(e, i)

\* As long as no run lost its lock, the run of an event is the one that holds the job, ...
OwnerInv ==
    \A r \in Runner : Busy(r) /\ run[r].event \notin overlapped => job[run[r].event].owner = r

\* ... it goes on only with an event that is open, ...
OpenInv ==
    \A r \in Runner :
        Busy(r) /\ run[r].pc # "read" /\ run[r].event \notin overlapped \cup replayed =>
            ~AlreadyDone(run[r].event)

\* ... and a job is finished only when its event is.
LossInv ==
    \A e \in Event : job[e].at = "finished" /\ e \notin overlapped \cup replayed =>
        status[e] \in Terminal

IndInv ==
    /\ FullType /\ JobInv /\ CallInv /\ RunInv /\ DoneInv /\ OwnerInv /\ OpenInv /\ LossInv
    /\ AckedIsJournaled /\ OneRowPerMessage /\ GaveUpLate

-----------------------------------------------------------------------------
(* Results *)

\* What normalizeInbound returns.
LEMMA ResultTypes ==
    ASSUME NEW e \in Event, NEW i \in 1 .. Len(Results[e])
    PROVE  /\ Results[e][i] \in [type : {"MESSAGE", "DELIVERY_RECEIPT", "IGNORED"}, id : STRING]
           /\ Results[e][i].type = "MESSAGE" => Results[e][i].id \in MessageId
           /\ Results[e][i].type = "DELIVERY_RECEIPT" =>
                 Results[e][i].id \in OutboundId /\ Results[e][i].id \in Carries(e, "DELIVERY_RECEIPT")
<1> DEFINE R == [type : {"MESSAGE", "DELIVERY_RECEIPT", "IGNORED"}, id : STRING]
<1>1. Results[e] \in Seq(R) BY EventsAssumption
<1>2. i \in DOMAIN Results[e] /\ Results[e][i] \in R
  <2> HIDE DEF R
  <2> QED BY <1>1
<1>3. Results[e][i] \in UNION {{Results[x][j] : j \in DOMAIN Results[x]} : x \in Event} BY <1>2
<1>4. Results[e][i] \in ResultsOf(Results[e][i].type) BY <1>3 DEF ResultsOf
<1>5. Results[e][i].id \in Carries(e, Results[e][i].type) BY <1>2 DEF Carries
<1> QED BY <1>2, <1>4, <1>5 DEF MessageId, OutboundId

\* What an event carries is among its results.
LEMMA CarriedIsResult ==
    ASSUME NEW e \in Event, NEW type, NEW o \in Carries(e, type)
    PROVE  \E i \in 1 .. Len(Results[e]) : Results[e][i].type = type /\ Results[e][i].id = o
<1>1. Results[e] \in Seq([type : {"MESSAGE", "DELIVERY_RECEIPT", "IGNORED"}, id : STRING])
  BY EventsAssumption
<1> QED BY <1>1 DEF Carries

-----------------------------------------------------------------------------
(* What a step does to the runs and to the jobs *)

OnlyRun(r) == run' \in [Runner -> RunType] /\ \A x \in Runner : x # r => run'[x] = run[x]
OnlyJob(e) == job' \in [Event -> JobType] /\ \A x \in Event : x # e => job'[x] = job[x]

\* The results that were dealt with stay dealt with.
Grows == /\ rows' \in [MessageId -> Nat] /\ \A m \in MessageId : rows[m] <= rows'[m] /\ rows'[m] <= 1
         /\ applied' \subseteq OutboundId /\ gaveUp' \subseteq OutboundId
         /\ applied \subseteq applied' /\ gaveUp \subseteq gaveUp'

\* A run is in a new position.
LEMMA RunMoves ==
    ASSUME NEW r \in Runner, FullType, NEW x \in RunType, run' = [run EXCEPT ![r] = x]
    PROVE  OnlyRun(r) /\ run'[r] = x
BY DEF OnlyRun, FullType

\* A run that goes on to the next result is still a run.
LEMMA NextRunTypes ==
    ASSUME NEW x \in RunType
    PROVE  /\ [x EXCEPT !.pc = "next", !.next = @ + 1, !.handled = @ + 1] \in RunType
           /\ [x EXCEPT !.next = @ + 1, !.ignored = @ + 1] \in RunType
<1>0. x.next \in Nat /\ x.handled \in Nat /\ x.ignored \in Nat BY DEF RunType
<1>1. x.next + 1 \in Nat /\ x.handled + 1 \in Nat /\ x.ignored + 1 \in Nat BY <1>0
<1>2. [x EXCEPT !.pc = "next", !.next = @ + 1, !.handled = @ + 1] \in RunType
  <2> DEFINE n == x.next + 1
             h == x.handled + 1
  <2>1. [x EXCEPT !.pc = "next", !.next = n, !.handled = h] \in RunType
    <3>1. n \in Nat /\ h \in Nat BY <1>1
    <3> HIDE DEF n, h
    <3> QED BY <3>1 DEF RunType, PC
  <2> QED BY <2>1
<1>3. [x EXCEPT !.next = @ + 1, !.ignored = @ + 1] \in RunType
  <2> DEFINE n == x.next + 1
             h == x.ignored + 1
  <2>1. [x EXCEPT !.next = n, !.ignored = h] \in RunType
    <3>1. n \in Nat /\ h \in Nat BY <1>1
    <3> HIDE DEF n, h
    <3> QED BY <3>1 DEF RunType
  <2> QED BY <2>1
<1> QED BY <1>2, <1>3

\* A run ends: its slot is idle again.
LEMMA RunEnds ==
    ASSUME NEW r \in Runner, FullType, run' = [run EXCEPT ![r] = IdleRun]
    PROVE  OnlyRun(r) /\ run'[r].pc = "idle" /\ run'[r].next = 1
<1>1. IdleRun \in RunType BY DEF IdleRun, RunType, PC
<1>2. run'[r] = IdleRun BY DEF FullType
<1> QED BY <1>1, <1>2 DEF OnlyRun, FullType, IdleRun

\* process() returned: the owner's job is finished.
LEMMA ReturnedEffect ==
    ASSUME NEW r \in Runner, FullType, NEW e \in Event, e = run[r].event, JobReturned(r)
    PROVE  /\ OnlyRun(r) /\ run'[r].pc = "idle" /\ run'[r].next = 1 /\ OnlyJob(e) /\ UNCHANGED overlapped
           /\ job[e].owner # r => job'[e] = job[e]
           /\ job[e].owner = r => /\ job'[e].at = "finished" /\ job'[e].owner = NoRunner
                                  /\ job'[e].made = job[e].made /\ job'[e].stalls = job[e].stalls
<1>1. OnlyRun(r) /\ run'[r].pc = "idle" /\ run'[r].next = 1 BY RunEnds DEF JobReturned
<1>2. OnlyJob(e)
  <2>0. job \in [Event -> JobType] BY DEF FullType
  <2> DEFINE left == [job[e] EXCEPT !.at = "finished", !.owner = NoRunner]
  <2>a. left \in JobType BY <2>0 DEF JobType
  <2>b. job' = job \/ job' = [job EXCEPT ![e] = left] BY DEF JobReturned
  <2> HIDE DEF left
  <2>1. job' \in [Event -> JobType] BY <2>0, <2>a, <2>b
  <2>2. \A x \in Event : x # e => job'[x] = job[x] BY DEF JobReturned, FullType
  <2> QED BY <2>1, <2>2 DEF OnlyJob
<1>3. job[e].owner = r => /\ job'[e].at = "finished" /\ job'[e].owner = NoRunner
                          /\ job'[e].made = job[e].made /\ job'[e].stalls = job[e].stalls
  BY SMTT(60) DEF JobReturned, JobType, FullType
<1> QED BY <1>1, <1>2, <1>3 DEF JobReturned

\* process() threw: the owner's job waits for another attempt or is given up.
LEMMA ThrewEffect ==
    ASSUME NEW r \in Runner, FullType, NEW e \in Event, e = run[r].event, JobThrew(r)
    PROVE  /\ OnlyRun(r) /\ run'[r].pc = "idle" /\ run'[r].next = 1 /\ OnlyJob(e) /\ UNCHANGED overlapped
           /\ job[e].owner # r => job'[e] = job[e]
           /\ job[e].owner = r => /\ job[e].made < RetryLimit => job'[e].at = "waiting"
                                  /\ ~(job[e].made < RetryLimit) => job'[e].at = "failed"
                                  /\ job'[e].owner = NoRunner
                                  /\ job'[e].made = job[e].made + 1 /\ job'[e].stalls = job[e].stalls
<1>1. OnlyRun(r) /\ run'[r].pc = "idle" /\ run'[r].next = 1 BY RunEnds DEF JobThrew
<1>2. job' \in [Event -> JobType] BY DEF JobThrew, JobType, FullType
<1>3. \A x \in Event : x # e => job'[x] = job[x] BY DEF JobThrew, FullType
<1>4. job[e] \in JobType BY DEF FullType
<1>5. ASSUME job[e].owner = r
      PROVE  /\ job'[e].at = (IF TriesLeft(e) THEN "waiting" ELSE "failed")
             /\ job'[e].owner = NoRunner
             /\ job'[e].made = job[e].made + 1 /\ job'[e].stalls = job[e].stalls
  <2> DEFINE at == IF TriesLeft(e) THEN "waiting" ELSE "failed"
             left == [job[e] EXCEPT !.at = at, !.owner = NoRunner, !.made = @ + 1]
  <2>1. job' = [job EXCEPT ![e] = left] BY <1>5 DEF JobThrew
  <2>2. job'[e] = left BY <2>1 DEF FullType
  <2> HIDE DEF at
  <2>3. left.at = at /\ left.owner = NoRunner /\ left.made = job[e].made + 1 /\ left.stalls = job[e].stalls
    BY <1>4 DEF JobType
  <2> QED BY <2>2, <2>3 DEF at
<1> QED BY <1>1, <1>2, <1>3, <1>5 DEF JobThrew, OnlyJob, TriesLeft

\* The lock of a job is taken from its owner.
LEMMA StalledEffect ==
    ASSUME NEW e \in Event, FullType, Stalled(e)
    PROVE  /\ OnlyJob(e) /\ job'[e].owner = NoRunner
           /\ job[e].stalls < RetryLimit => job'[e].at = "waiting"
           /\ ~(job[e].stalls < RetryLimit) => job'[e].at = "failed"
           /\ job'[e].made = job[e].made /\ job'[e].stalls = job[e].stalls + 1
<1>1. OnlyJob(e) BY DEF OnlyJob, Stalled, JobType, FullType
<1>2. /\ job'[e].owner = NoRunner
      /\ job'[e].at = (IF job[e].stalls < RetryLimit THEN "waiting" ELSE "failed")
  BY DEF Stalled, JobType, FullType
<1>3. job'[e].made = job[e].made /\ job'[e].stalls = job[e].stalls + 1 BY DEF Stalled, JobType, FullType
<1> QED BY <1>1, <1>2, <1>3

-----------------------------------------------------------------------------
(* Groups of steps *)

\* A run goes on with its event and leaves the journal and the queue alone.
LEMMA RunGoesOnStep ==
    ASSUME NEW r \in Runner, IndInv, Busy(r), Busy(r)', OnlyRun(r), Grows,
           run'[r].event = run[r].event, run'[r].pc # "read", faults' \in 0 .. MaxFaults,
           run[r].pc = "read" => ~AlreadyDone(run[r].event),
           UNCHANGED <<status, attempts, job, overlapped, call, acked, sent, deleted, replayed>>
    PROVE  /\ FullType' /\ JobInv' /\ CallInv' /\ OwnerInv' /\ OpenInv' /\ LossInv'
           /\ AckedIsJournaled' /\ OneRowPerMessage'
           /\ \A e \in Event : \A i \in 1 .. Len(Results[e]) : ResultDone(e, i) => ResultDone(e, i)'
<1> USE DEF IndInv
<1>1. FullType' BY DEF FullType, OnlyRun, Grows
<1>2. JobInv' BY DEF JobInv
<1>3. CallInv' BY DEF CallInv
<1>4. OwnerInv' BY DEF OwnerInv, OnlyRun, Busy
<1>5. OpenInv' BY DEF OpenInv, OnlyRun, Busy, AlreadyDone
<1>6. LossInv' BY DEF LossInv
<1>7. AckedIsJournaled' BY DEF AckedIsJournaled
<1>8. OneRowPerMessage' BY DEF OneRowPerMessage, Grows
<1>9. \A e \in Event : \A i \in 1 .. Len(Results[e]) : ResultDone(e, i) => ResultDone(e, i)'
  <2> SUFFICES ASSUME NEW e \in Event, NEW i \in 1 .. Len(Results[e]), ResultDone(e, i)
               PROVE  ResultDone(e, i)'
    OBVIOUS
  <2>1. Results[e][i].type = "MESSAGE" => Results[e][i].id \in MessageId BY ResultTypes
  <2> QED BY <2>1 DEF ResultDone, Grows, FullType
<1> QED BY <1>1, <1>2, <1>3, <1>4, <1>5, <1>6, <1>7, <1>8, <1>9

\* A run ends, and its job with it or not; s is the status it leaves.
LEMMA RunEndsStep ==
    ASSUME NEW r \in Runner, IndInv, Busy(r), NEW e \in Event, e = run[r].event,
           NEW s \in {"RECEIVED", "PROCESSING"} \cup Terminal,
           status' = [status EXCEPT ![e] = s], faults' \in 0 .. MaxFaults,
           s = "PROCESSED" => \A i \in 1 .. Len(Results[e]) : ResultDone(e, i),
           UNCHANGED <<attempts, call, acked, coreVars, deleted, replayed>>,
           \/ JobReturned(r) /\ s \in Terminal
           \/ JobThrew(r)
    PROVE  IndInv'
<1> USE AttemptsAssumption, EventsAssumption DEF coreVars
<1>0. FullType BY DEF IndInv
<1>1. /\ OnlyRun(r) /\ run'[r].pc = "idle" /\ run'[r].next = 1 /\ OnlyJob(e) /\ UNCHANGED overlapped
      /\ job[e].owner # r => job'[e] = job[e]
      /\ job[e].owner = r => /\ job'[e].owner = NoRunner /\ job'[e].stalls = job[e].stalls
                             /\ \/ /\ job'[e].at = "finished" /\ job'[e].made = job[e].made
                                   /\ s \in Terminal
                                \/ /\ job'[e].at = IF job[e].made < RetryLimit THEN "waiting" ELSE "failed"
                                   /\ job'[e].made = job[e].made + 1
  BY <1>0, ReturnedEffect, ThrewEffect
<1>2. status'[e] = s /\ \A x \in Event : x # e => status'[x] = status[x] BY <1>0 DEF FullType
<1>3. FullType' BY <1>0, <1>1 DEF FullType, OnlyRun, OnlyJob, Terminal
<1>4. status[e] # "NONE" BY DEF IndInv, RunInv
<1>5. JobInv' BY <1>0, <1>1, <1>2, <1>4, SMTT(60) DEF IndInv, JobInv, OnlyJob, FullType, JobType, Terminal
<1>6. CallInv' BY <1>0, <1>2 DEF IndInv, CallInv, Terminal, FullType
<1>7. RunInv' BY <1>1, <1>2 DEF IndInv, RunInv, Busy, Working, OnlyRun, Terminal
<1>8. DoneInv'
  <2>1. \A x, i : ResultDone(x, i)' <=> ResultDone(x, i) BY DEF ResultDone
  <2>2. \A x \in Runner : run'[x].pc \in {"next", "insert"} => run'[x] = run[x] BY <1>1 DEF OnlyRun
  <2> QED BY <1>2, <2>1, <2>2 DEF IndInv, DoneInv
<1>9. OwnerInv'
  BY <1>1 DEF IndInv, OwnerInv, Busy, OnlyRun, OnlyJob, RunInv
<1>10. OpenInv'
  BY <1>1, <1>2 DEF IndInv, OpenInv, OwnerInv, Busy, OnlyRun, AlreadyDone, RunInv
<1>11. LossInv' BY <1>1, <1>2 DEF IndInv, LossInv, OnlyJob, OwnerInv
<1>12. AckedIsJournaled' BY <1>0, <1>2 DEF IndInv, AckedIsJournaled, Terminal, FullType
<1>13. OneRowPerMessage' /\ GaveUpLate' BY DEF IndInv, OneRowPerMessage, GaveUpLate
<1> QED BY <1>3, <1>5, <1>6, <1>7, <1>8, <1>9, <1>10, <1>11, <1>12, <1>13 DEF IndInv

\* The other half of DoneInv: what the run r itself has dealt with.
LEMMA DoneKept ==
    ASSUME NEW r \in Runner, IndInv, OnlyRun(r), UNCHANGED status,
           \A e \in Event : \A i \in 1 .. Len(Results[e]) : ResultDone(e, i) => ResultDone(e, i)',
           run'[r].pc \in {"next", "insert"} =>
              \A i \in 1 .. Len(Results[run'[r].event]) : i < run'[r].next => ResultDone(run[r].event, i)'
    PROVE  DoneInv'
<1> USE DEF IndInv
<1>1. ASSUME NEW x \in Runner, x # r, run[x].pc \in {"next", "insert"},
             NEW i \in 1 .. Len(Results[run[x].event]), i < run[x].next
      PROVE  ResultDone(run[x].event, i)'
  <2>1. run[x].event \in Event BY <1>1 DEF RunInv, Busy
  <2>2. ResultDone(run[x].event, i) BY <1>1 DEF DoneInv
  <2>3. run'[x] = run[x] BY <1>1 DEF OnlyRun
  <2>4. PICK e \in Event : e = run[x].event BY <2>1
  <2>5. ResultDone(e, i)' BY <1>1, <2>2, <2>4
  <2> QED BY <2>3, <2>4, <2>5
<1>2. \A e \in Event : status'[e] = "PROCESSED" => \A i \in 1 .. Len(Results[e]) : ResultDone(e, i)'
  BY DEF DoneInv
<1>3. \A x \in Runner : run'[x].pc \in {"next", "insert"} =>
         \A i \in 1 .. Len(Results[run'[x].event]) : i < run'[x].next => ResultDone(run[x].event, i)'
  BY <1>1 DEF OnlyRun
<1> QED BY <1>2, <1>3 DEF DoneInv

-----------------------------------------------------------------------------
(* The steps of process() *)

\* A step of a run that neither journal nor queue notices, as the lemmas above need it.
Moves(r) ==
    /\ Busy(r) /\ Busy(r)' /\ OnlyRun(r) /\ Grows
    /\ run'[r].event = run[r].event /\ run'[r].pc # "read" /\ faults' \in 0 .. MaxFaults
    /\ run[r].pc = "read" => ~AlreadyDone(run[r].event)
    /\ UNCHANGED <<status, attempts, job, overlapped, call, acked, sent, deleted, replayed>>

\* What is left to show of such a step: the run's own results, and the receipts given up.
LEMMA MovesStep ==
    ASSUME NEW r \in Runner, IndInv, Moves(r), GaveUpLate', run'[r].next >= 1,
           run'[r].pc = "claim" => run'[r].next = 1 /\ run'[r].seen <= attempts[run[r].event],
           Working(r)' => run'[r].seen + 1 <= attempts[run[r].event],
           run'[r].pc = "insert" =>
              /\ run'[r].next <= Len(Results[run[r].event])
              /\ Results[run[r].event][run'[r].next].type = "MESSAGE",
           run'[r].pc \in {"next", "insert"} =>
              \A i \in 1 .. Len(Results[run[r].event]) : i < run'[r].next => ResultDone(run[r].event, i)'
    PROVE  IndInv'
<1>1. /\ FullType' /\ JobInv' /\ CallInv' /\ OwnerInv' /\ OpenInv' /\ LossInv'
      /\ AckedIsJournaled' /\ OneRowPerMessage'
      /\ \A e \in Event : \A i \in 1 .. Len(Results[e]) : ResultDone(e, i) => ResultDone(e, i)'
  BY RunGoesOnStep DEF Moves
<1>2. DoneInv' BY <1>1, DoneKept DEF Moves
<1>3. RunInv' BY DEF IndInv, RunInv, Busy, Working, Moves, OnlyRun
<1> QED BY <1>1, <1>2, <1>3 DEF IndInv

\* ReadEvent returns for an event that is done, or goes on with one that is not.
LEMMA ReadEventStep ==
    ASSUME NEW r \in Runner, IndInv, ReadEvent(r)
    PROVE  IndInv'
<1> USE DEF IndInv
<1>1. PICK e \in Event : e = run[r].event BY DEF ReadEvent, RunInv, Busy
<1>2. Busy(r) /\ FullType BY DEF ReadEvent, Busy
<1>3. CASE AlreadyDone(e) /\ JobReturned(r)
  <2>1. status[e] \in Terminal /\ status' = [status EXCEPT ![e] = status[e]]
    BY <1>2, <1>3 DEF AlreadyDone, Terminal, ReadEvent, rowVars, FullType
  <2>2. status[e] = "PROCESSED" => \A i \in 1 .. Len(Results[e]) : ResultDone(e, i) BY DEF DoneInv
  <2> QED BY <1>1, <1>2, <1>3, <2>1, <2>2, RunEndsStep DEF ReadEvent, rowVars, FullType
<1>4. CASE /\ ~AlreadyDone(e) /\ UNCHANGED queueVars
           /\ run' = [run EXCEPT ![r].pc = IF ChannelOf[e] \in deleted THEN "ignore" ELSE "claim",
                                 ![r].seen = attempts[e]]
  <2>0. PICK p \in {"ignore", "claim"} : run' = [run EXCEPT ![r].pc = p, ![r].seen = attempts[e]]
    BY <1>4
  <2> DEFINE x == [run[r] EXCEPT !.pc = p, !.seen = attempts[e]]
  <2>a. run' = [run EXCEPT ![r] = x] BY <2>0
  <2>b. run[r] \in RunType /\ x \in RunType BY <1>2 DEF FullType, RunType, PC
  <2>1. OnlyRun(r) /\ run'[r] = x BY <1>2, <2>a, <2>b, RunMoves
  <2>2. /\ run'[r].pc \in {"ignore", "claim"} /\ run'[r].seen = attempts[e]
        /\ run'[r].event = run[r].event /\ run'[r].next = run[r].next
    BY <2>b, <2>1 DEF RunType
  <2>3. Moves(r)
    BY <1>1, <1>2, <1>4, <2>1, <2>2
       DEF Moves, Busy, ReadEvent, Grows, rowVars, queueVars, coreVars, FullType, OneRowPerMessage
  <2>4. GaveUpLate' BY DEF GaveUpLate, ReadEvent, rowVars, coreVars
  <2>5. run'[r].next = 1 /\ run'[r].seen <= attempts[run[r].event] /\ ~Working(r)'
    BY <1>1, <1>2, <2>2 DEF RunInv, Working, FullType, ReadEvent
  <2> QED BY <2>2, <2>3, <2>4, <2>5, MovesStep
<1> QED BY <1>1, <1>3, <1>4 DEF ReadEvent

\* The event of a deleted channel is ignored.
LEMMA IgnoreDeletedStep ==
    ASSUME NEW r \in Runner, IndInv, IgnoreDeleted(r)
    PROVE  IndInv'
<1>1. PICK e \in Event : e = run[r].event BY DEF IndInv, IgnoreDeleted, RunInv, Busy
<1> QED BY <1>1, RunEndsStep DEF IndInv, IgnoreDeleted, Busy, Terminal, FullType

\* An event counts as PROCESSED only when all of its results are dealt with.
LEMMA FinishStep ==
    ASSUME NEW r \in Runner, IndInv, Finish(r)
    PROVE  IndInv'
<1>1. PICK e \in Event : e = run[r].event BY DEF IndInv, Finish, RunInv, Busy
<1>2. \A i \in 1 .. Len(Results[e]) : i < run[r].next
  <2>1. Len(Results[e]) \in Nat BY EventsAssumption
  <2>2. run[r].next \in Nat BY DEF IndInv, FullType, RunType
  <2>3. run[r].next > Len(Results[e]) BY <1>1 DEF Finish
  <2> QED BY <2>1, <2>2, <2>3
<1>3. \A i \in 1 .. Len(Results[e]) : ResultDone(e, i) BY <1>1, <1>2 DEF IndInv, Finish, DoneInv
<1>4. PICK s \in {"PROCESSED", "IGNORED"} : status' = [status EXCEPT ![e] = s] BY <1>1 DEF Finish
<1> QED BY <1>1, <1>3, <1>4, RunEndsStep DEF IndInv, Finish, Busy, Terminal, FullType

\* The catch block records the failure.
LEMMA RecordFailureStep ==
    ASSUME NEW r \in Runner, IndInv, RecordFailure(r)
    PROVE  IndInv'
<1>1. PICK e \in Event : e = run[r].event BY DEF IndInv, RecordFailure, RunInv, Busy
<1>2. Busy(r) BY DEF RecordFailure, Busy
<1>3. CASE run[r].pc = "retry"
  <2>1. JobThrew(r) /\ status' = [status EXCEPT ![e] = "RECEIVED"]
    BY <1>1, <1>3 DEF RecordFailure, Rethrown
  <2> QED BY <1>1, <1>2, <2>1, RunEndsStep DEF IndInv, RecordFailure, Terminal, FullType
<1>4. CASE run[r].pc = "permanent"
  BY <1>1, <1>2, <1>4, RunEndsStep DEF IndInv, RecordFailure, Rethrown, Terminal, FullType
<1> QED BY <1>3, <1>4 DEF RecordFailure

\* The payload cannot be normalised.
LEMMA NormalizeFailsStep ==
    ASSUME NEW r \in Runner, IndInv, NormalizeFails(r)
    PROVE  IndInv'
<1> USE AttemptsAssumption DEF IndInv
<1> DEFINE x == [run[r] EXCEPT !.pc = "permanent"]
<1>1. run[r] \in RunType /\ x \in RunType /\ run' = [run EXCEPT ![r] = x]
  BY DEF FullType, RunType, PC, NormalizeFails
<1>2. OnlyRun(r) /\ run'[r] = x BY <1>1, RunMoves
<1>3. /\ run'[r].pc = "permanent" /\ run'[r].event = run[r].event
      /\ run'[r].next = run[r].next /\ run'[r].seen = run[r].seen
  BY <1>1, <1>2 DEF RunType
<1>4. Moves(r)
  BY <1>2, <1>3 DEF Moves, Busy, NormalizeFails, Fault, Grows, rowVars, queueVars, coreVars, FullType, OneRowPerMessage
<1>5. GaveUpLate' BY DEF GaveUpLate, NormalizeFails, rowVars, coreVars
<1>6. run[r].next >= 1 /\ run[r].seen + 1 <= attempts[run[r].event] BY DEF RunInv, Working, NormalizeFails
<1> QED BY <1>3, <1>4, <1>5, <1>6, MovesStep

\* A run is at a result of its event.
LEMMA AtResultIndex ==
    ASSUME NEW r \in Runner, IndInv, run[r].pc \in {"next", "insert"},
           run[r].next <= Len(Results[run[r].event])
    PROVE  /\ run[r].event \in Event /\ run[r].next \in 1 .. Len(Results[run[r].event])
           /\ run[r].next \in Nat
           /\ \A i \in 1 .. Len(Results[run[r].event]) : i < run[r].next + 1 => i < run[r].next \/ i = run[r].next
           /\ run[r].seen + 1 <= attempts[run[r].event]
<1>1. run[r].event \in Event /\ run[r].next >= 1 /\ run[r].seen + 1 <= attempts[run[r].event]
  BY DEF IndInv, RunInv, Busy, Working
<1>2. run[r].next \in Nat BY DEF IndInv, FullType, RunType
<1>3. Len(Results[run[r].event]) \in Nat BY <1>1, EventsAssumption
<1> QED BY <1>1, <1>2, <1>3

\* The next result has been dealt with: the run goes on to the one after it.
LEMMA NextResultStep ==
    ASSUME NEW r \in Runner, IndInv, run[r].pc \in {"next", "insert"},
           NEW e \in Event, e = run[r].event, NEW n \in Nat, n = run[r].next, n <= Len(Results[e]),
           Moves(r), GaveUpLate',
           run'[r].pc = "next", run'[r].next = n + 1, run'[r].seen = run[r].seen,
           ResultDone(e, n)'
    PROVE  IndInv'
<1>1. /\ \A i \in 1 .. Len(Results[e]) : i < n + 1 => i < n \/ i = n
      /\ n >= 1 /\ run[r].seen + 1 <= attempts[e]
  BY AtResultIndex
<1>2. \A i \in 1 .. Len(Results[e]) : i < n => ResultDone(e, i) BY DEF IndInv, DoneInv
<1>3. \A i \in 1 .. Len(Results[e]) : ResultDone(e, i) => ResultDone(e, i)' BY RunGoesOnStep DEF Moves
<1>4. \A i \in 1 .. Len(Results[e]) : i < n + 1 => ResultDone(e, i)' BY <1>1, <1>2, <1>3
<1>5. run'[r].event = e BY DEF Moves
<1>6. \A i \in 1 .. Len(Results[run[r].event]) : i < run'[r].next => ResultDone(run[r].event, i)'
  BY <1>4, <1>5
<1> QED BY <1>1, <1>6, MovesStep

\* findDuplicate: the message is there already, or the run is about to insert it.
LEMMA FindDuplicateStep ==
    ASSUME NEW r \in Runner, IndInv, FindDuplicate(r)
    PROVE  IndInv'
<1>1. /\ run[r].pc = "next" /\ run[r].next <= Len(Results[run[r].event])
      /\ Results[run[r].event][run[r].next].type = "MESSAGE"
  BY DEF FindDuplicate, AtResult
<1>2. PICK e \in Event, n \in Nat :
         e = run[r].event /\ n = run[r].next /\ n \in 1 .. Len(Results[e])
  BY <1>1, AtResultIndex
<1>3. n \in Nat /\ run[r] \in RunType /\ run[r].next >= 1 /\ run[r].seen + 1 <= attempts[e]
  <2>1. run[r] \in RunType BY DEF IndInv, FullType
  <2>2. run[r].next >= 1 BY DEF IndInv, RunInv
  <2> QED BY <1>1, <1>2, <2>1, <2>2, AtResultIndex
<1>4. GaveUpLate' BY DEF GaveUpLate, FindDuplicate, rowVars, coreVars, IndInv
<1>5. CASE rows[ResultId(r)] > 0 /\ Handled(r)
  <2> DEFINE x == [run[r] EXCEPT !.pc = "next", !.next = @ + 1, !.handled = @ + 1]
  <2>a. run' = [run EXCEPT ![r] = x] BY <1>5 DEF Handled
  <2>1. x \in RunType /\ run' = [run EXCEPT ![r] = x] BY <1>3, <2>a, NextRunTypes
  <2>2. OnlyRun(r) /\ run'[r] = x BY <2>1, RunMoves DEF IndInv
  <2>3. /\ run'[r].pc = "next" /\ run'[r].event = run[r].event
        /\ run'[r].next = n + 1 /\ run'[r].seen = run[r].seen
    BY <1>2, <1>3, <2>2 DEF RunType
  <2>4. Moves(r)
    BY <1>1, <2>2, <2>3 DEF Moves, Busy, FindDuplicate, Grows, rowVars, queueVars, coreVars,
       IndInv, FullType, OneRowPerMessage
  <2>5. ResultDone(e, n)'
    BY <1>1, <1>2, <1>5 DEF ResultDone, ResultId, FindDuplicate, coreVars
  <2> QED BY <1>1, <1>2, <1>3, <1>4, <2>3, <2>4, <2>5, NextResultStep
<1>6. CASE run' = [run EXCEPT ![r].pc = "insert"]
  <2> DEFINE x == [run[r] EXCEPT !.pc = "insert"]
  <2>1. x \in RunType /\ run' = [run EXCEPT ![r] = x] BY <1>3, <1>6 DEF RunType, PC
  <2>2. OnlyRun(r) /\ run'[r] = x BY <2>1, RunMoves DEF IndInv
  <2>3. /\ run'[r].pc = "insert" /\ run'[r].event = run[r].event
        /\ run'[r].next = run[r].next /\ run'[r].seen = run[r].seen
    BY <1>3, <2>2 DEF RunType
  <2>4. Moves(r)
    BY <1>1, <2>2, <2>3 DEF Moves, Busy, FindDuplicate, Grows, rowVars, queueVars, coreVars,
       IndInv, FullType, OneRowPerMessage
  <2>5. \A i \in 1 .. Len(Results[e]) : i < run[r].next => ResultDone(e, i)
    BY <1>1, <1>2 DEF IndInv, DoneInv
  <2>6. \A i \in 1 .. Len(Results[e]) : ResultDone(e, i) => ResultDone(e, i)'
    BY <2>4, RunGoesOnStep DEF Moves
  <2>7. \A i \in 1 .. Len(Results[run[r].event]) : i < run'[r].next => ResultDone(run[r].event, i)'
    BY <1>2, <2>3, <2>5, <2>6
  <2> QED BY <1>1, <1>2, <1>3, <1>4, <2>3, <2>4, <2>7, MovesStep
<1> QED BY <1>5, <1>6 DEF FindDuplicate

\* The transaction of ingestMessage: the unique key keeps it at one row.
LEMMA IngestMessageStep ==
    ASSUME NEW r \in Runner, IndInv, IngestMessage(r)
    PROVE  IndInv'
<1>1. /\ run[r].pc = "insert" /\ run[r].next <= Len(Results[run[r].event])
      /\ Results[run[r].event][run[r].next].type = "MESSAGE"
  BY DEF IngestMessage, IndInv, RunInv
<1>2. PICK e \in Event, n \in Nat :
         e = run[r].event /\ n = run[r].next /\ n \in 1 .. Len(Results[e])
  BY <1>1, AtResultIndex
<1>3. n \in Nat /\ run[r] \in RunType /\ ResultId(r) \in MessageId
  BY <1>1, <1>2, AtResultIndex, ResultTypes DEF IndInv, FullType, ResultId
<1>4. GaveUpLate' BY DEF GaveUpLate, IngestMessage, rowVars, coreVars, IndInv
<1>5. /\ rows' \in [MessageId -> Nat] /\ rows'[ResultId(r)] > 0
      /\ \A m \in MessageId : rows[m] <= rows'[m] /\ rows'[m] <= 1
  BY <1>3 DEF IngestMessage, RowsAfterInsert, IndInv, FullType, OneRowPerMessage
<1> DEFINE x == [run[r] EXCEPT !.pc = "next", !.next = @ + 1, !.handled = @ + 1]
<1>a. run' = [run EXCEPT ![r] = x] BY DEF Handled, IngestMessage
<1>6. x \in RunType /\ run' = [run EXCEPT ![r] = x] BY <1>3, <1>a, NextRunTypes
<1>7. OnlyRun(r) /\ run'[r] = x BY <1>6, RunMoves DEF IndInv
<1>8. /\ run'[r].pc = "next" /\ run'[r].event = run[r].event
      /\ run'[r].next = n + 1 /\ run'[r].seen = run[r].seen
  BY <1>2, <1>3, <1>7 DEF RunType
<1>9. Moves(r)
  BY <1>1, <1>5, <1>7, <1>8 DEF Moves, Busy, IngestMessage, Grows, rowVars, queueVars, IndInv, FullType
<1>10. ResultDone(e, n)' BY <1>1, <1>2, <1>5 DEF ResultDone, ResultId
<1> QED BY <1>1, <1>2, <1>3, <1>4, <1>8, <1>9, <1>10, NextResultStep

\* A receipt is applied, to be retried, or given up after the configured attempts.
LEMMA ApplyReceiptStep ==
    ASSUME NEW r \in Runner, IndInv, ApplyReceipt(r)
    PROVE  IndInv'
<1>1. /\ run[r].pc = "next" /\ run[r].next <= Len(Results[run[r].event])
      /\ Results[run[r].event][run[r].next].type = "DELIVERY_RECEIPT"
  BY DEF ApplyReceipt, AtResult
<1>2. PICK e \in Event, n \in Nat :
         e = run[r].event /\ n = run[r].next /\ n \in 1 .. Len(Results[e])
  BY <1>1, AtResultIndex
<1>3. /\ run[r] \in RunType /\ run[r].next >= 1 /\ run[r].seen + 1 <= attempts[e]
      /\ run[r].seen \in Nat /\ attempts[e] \in Nat
  <2>1. run[r] \in RunType /\ attempts[e] \in Nat BY DEF IndInv, FullType
  <2>2. run[r].next >= 1 BY DEF IndInv, RunInv
  <2> QED BY <1>1, <1>2, <2>1, <2>2, AtResultIndex DEF RunType
<1>4. ResultId(r) \in OutboundId /\ ResultId(r) \in Carries(e, "DELIVERY_RECEIPT") /\ ResultId(r) = Results[e][n].id
  BY <1>1, <1>2, ResultTypes DEF ResultId
<1>5. /\ UNCHANGED <<status, attempts, job, overlapped, call, acked, rows, sent, deleted, faults, replayed>>
      /\ applied' \subseteq applied \cup {ResultId(r)} /\ applied \subseteq applied'
      /\ gaveUp' \subseteq gaveUp \cup {ResultId(r)} /\ gaveUp \subseteq gaveUp'
  BY DEF ApplyReceipt, rowVars, queueVars
<1>6. Grows BY <1>4, <1>5 DEF Grows, IndInv, FullType, OneRowPerMessage
<1>7. CASE /\ ResultId(r) \in sent /\ applied' = applied \cup {ResultId(r)}
           /\ Handled(r) /\ UNCHANGED gaveUp
  <2> DEFINE x == [run[r] EXCEPT !.pc = "next", !.next = @ + 1, !.handled = @ + 1]
  <2>1. run' = [run EXCEPT ![r] = x] BY <1>7 DEF Handled
  <2>2. x \in RunType BY <1>3, NextRunTypes
  <2>3. OnlyRun(r) /\ run'[r] = x BY <2>1, <2>2, RunMoves DEF IndInv
  <2>4. /\ run'[r].pc = "next" /\ run'[r].event = run[r].event
        /\ run'[r].next = n + 1 /\ run'[r].seen = run[r].seen
    BY <1>2, <1>3, <2>3 DEF RunType
  <2>5. Moves(r) BY <1>1, <1>5, <1>6, <2>3, <2>4 DEF Moves, Busy, IndInv, FullType
  <2>6. GaveUpLate' BY <1>5, <1>7 DEF GaveUpLate, IndInv
  <2>7. ResultDone(e, n)' BY <1>1, <1>2, <1>4, <1>7 DEF ResultDone
  <2> QED BY <1>1, <1>2, <2>4, <2>5, <2>6, <2>7, NextResultStep
<1>8. CASE run' = [run EXCEPT ![r].pc = "retry"] /\ UNCHANGED gaveUp
  <2> DEFINE x == [run[r] EXCEPT !.pc = "retry"]
  <2>1. run' = [run EXCEPT ![r] = x] BY <1>8
  <2>2. x \in RunType BY <1>3 DEF RunType, PC
  <2>3. OnlyRun(r) /\ run'[r] = x BY <2>1, <2>2, RunMoves DEF IndInv
  <2>4. /\ run'[r].pc = "retry" /\ run'[r].event = run[r].event
        /\ run'[r].next = run[r].next /\ run'[r].seen = run[r].seen
    BY <1>3, <2>3 DEF RunType
  <2>5. Moves(r) BY <1>1, <1>5, <1>6, <2>3, <2>4 DEF Moves, Busy, IndInv, FullType
  <2>6. GaveUpLate' BY <1>5, <1>8 DEF GaveUpLate, IndInv
  <2> QED BY <1>2, <1>3, <2>4, <2>5, <2>6, MovesStep
<1>9. CASE /\ ~AttemptsLeft(r) /\ gaveUp' = gaveUp \cup {ResultId(r)}
           /\ run' = [run EXCEPT ![r].next = @ + 1, ![r].ignored = @ + 1]
  <2> DEFINE x == [run[r] EXCEPT !.next = @ + 1, !.ignored = @ + 1]
  <2>1. run' = [run EXCEPT ![r] = x] BY <1>9
  <2>2. x \in RunType BY <1>3, NextRunTypes
  <2>3. OnlyRun(r) /\ run'[r] = x BY <2>1, <2>2, RunMoves DEF IndInv
  <2>4. /\ run'[r].pc = "next" /\ run'[r].event = run[r].event
        /\ run'[r].next = n + 1 /\ run'[r].seen = run[r].seen
    BY <1>1, <1>2, <1>3, <2>3 DEF RunType
  <2>5. Moves(r) BY <1>1, <1>5, <1>6, <2>3, <2>4 DEF Moves, Busy, IndInv, FullType
  <2>6. attempts[e] >= ReceiptMatchAttempts BY <1>3, <1>9, AttemptsAssumption DEF AttemptsLeft
  <2>7. GaveUpLate' BY <1>4, <1>5, <1>9, <2>6 DEF GaveUpLate, IndInv
  <2>8. ResultDone(e, n)' BY <1>1, <1>2, <1>4, <1>9 DEF ResultDone
  <2> QED BY <1>1, <1>2, <2>4, <2>5, <2>7, <2>8, NextResultStep
<1> QED BY <1>7, <1>8, <1>9 DEF ApplyReceipt

\* A result that is neither message nor receipt is skipped.
LEMMA SkipIgnoredStep ==
    ASSUME NEW r \in Runner, IndInv, SkipIgnored(r)
    PROVE  IndInv'
<1>1. /\ run[r].pc = "next" /\ run[r].next <= Len(Results[run[r].event])
      /\ Results[run[r].event][run[r].next].type = "IGNORED"
  BY DEF SkipIgnored, AtResult
<1>2. PICK e \in Event, n \in Nat :
         e = run[r].event /\ n = run[r].next /\ n \in 1 .. Len(Results[e])
  BY <1>1, AtResultIndex
<1>3. run[r] \in RunType BY DEF IndInv, FullType
<1> DEFINE x == [run[r] EXCEPT !.next = @ + 1, !.ignored = @ + 1]
<1>4. run' = [run EXCEPT ![r] = x] BY DEF SkipIgnored
<1>5. x \in RunType BY <1>3, NextRunTypes
<1>6. OnlyRun(r) /\ run'[r] = x BY <1>4, <1>5, RunMoves DEF IndInv
<1>7. /\ run'[r].pc = "next" /\ run'[r].event = run[r].event
      /\ run'[r].next = n + 1 /\ run'[r].seen = run[r].seen
  BY <1>1, <1>2, <1>3, <1>6 DEF RunType
<1>8. Moves(r)
  BY <1>1, <1>6, <1>7 DEF Moves, Busy, SkipIgnored, Grows, rowVars, queueVars, coreVars,
     IndInv, FullType, OneRowPerMessage
<1>9. GaveUpLate' BY DEF GaveUpLate, SkipIgnored, rowVars, coreVars, IndInv
<1>10. ResultDone(e, n)' BY <1>1, <1>2 DEF ResultDone
<1> QED BY <1>1, <1>2, <1>7, <1>8, <1>9, <1>10, NextResultStep

\* A statement fails, inside the try block or outside of it.
LEMMA StatementThrowsStep ==
    ASSUME NEW r \in Runner, IndInv, StatementThrows(r)
    PROVE  IndInv'
<1> USE AttemptsAssumption DEF IndInv
<1>1. PICK e \in Event : e = run[r].event BY DEF StatementThrows, RunInv, Busy
<1>2. Busy(r) /\ faults' \in 0 .. MaxFaults BY DEF StatementThrows, Busy, Fault, FullType
<1>3. CASE run[r].pc \in {"next", "insert"} /\ run' = [run EXCEPT ![r].pc = "retry"] /\ UNCHANGED queueVars
  <2> DEFINE x == [run[r] EXCEPT !.pc = "retry"]
  <2>1. run' = [run EXCEPT ![r] = x] BY <1>3
  <2>2. run[r] \in RunType /\ x \in RunType BY DEF FullType, RunType, PC
  <2>3. OnlyRun(r) /\ run'[r] = x BY <2>1, <2>2, RunMoves
  <2>4. /\ run'[r].pc = "retry" /\ run'[r].event = run[r].event
        /\ run'[r].next = run[r].next /\ run'[r].seen = run[r].seen
    BY <2>2, <2>3 DEF RunType
  <2>5. Moves(r)
    BY <1>2, <1>3, <2>3, <2>4 DEF Moves, Busy, StatementThrows, Grows, rowVars, queueVars, coreVars,
       FullType, OneRowPerMessage
  <2>6. GaveUpLate' BY DEF GaveUpLate, StatementThrows, rowVars, coreVars
  <2>7. run[r].next >= 1 /\ run[r].seen + 1 <= attempts[run[r].event] BY <1>3 DEF RunInv, Working
  <2> QED BY <2>4, <2>5, <2>6, <2>7, MovesStep
<1>4. CASE JobThrew(r)
  <2>1. status[e] \in {"RECEIVED", "PROCESSING"} \cup Terminal BY <1>1, <1>2 DEF RunInv, FullType
  <2>2. status' = [status EXCEPT ![e] = status[e]] BY DEF FullType, StatementThrows, rowVars
  <2>3. status[e] = "PROCESSED" => \A i \in 1 .. Len(Results[e]) : ResultDone(e, i) BY DEF DoneInv
  <2> QED BY <1>1, <1>2, <1>4, <2>1, <2>2, <2>3, RunEndsStep DEF StatementThrows, rowVars
<1> QED BY <1>3, <1>4 DEF StatementThrows

\* A worker dies: the job stays locked, and the run is gone.
LEMMA CrashStep ==
    ASSUME NEW r \in Runner, IndInv, Crash(r)
    PROVE  IndInv'
<1> USE DEF IndInv, Crash, rowVars, queueVars, coreVars
<1>1. OnlyRun(r) /\ run'[r].pc = "idle" /\ run'[r].next = 1 BY RunEnds
<1>2. FullType' BY <1>1, AttemptsAssumption DEF FullType, OnlyRun, Fault
<1>3. JobInv' /\ CallInv' /\ LossInv' BY DEF JobInv, CallInv, LossInv
<1>4. RunInv' BY <1>1 DEF RunInv, OnlyRun, Busy, Working
<1>5. DoneInv'
  <2>1. \A e, i : ResultDone(e, i)' <=> ResultDone(e, i) BY DEF ResultDone
  <2>2. \A x \in Runner : run'[x].pc \in {"next", "insert"} => run'[x] = run[x] BY <1>1 DEF OnlyRun
  <2> QED BY <2>1, <2>2 DEF DoneInv
<1>6. OwnerInv' /\ OpenInv' BY <1>1 DEF OwnerInv, OpenInv, OnlyRun, Busy, AlreadyDone
<1>7. AckedIsJournaled' /\ OneRowPerMessage' /\ GaveUpLate'
  BY DEF AckedIsJournaled, OneRowPerMessage, GaveUpLate
<1> QED BY <1>2, <1>3, <1>4, <1>5, <1>6, <1>7

\* A run takes the event up and counts the attempt, whatever the status has become.
LEMMA ClaimStep ==
    ASSUME NEW r \in Runner, IndInv, Claim(r)
    PROVE  IndInv'
<1> USE DEF Claim, queueVars, coreVars
<1>0. FullType /\ run[r] \in RunType BY DEF IndInv, FullType
<1>1. PICK e \in Event : e = run[r].event BY DEF IndInv, RunInv, Busy
<1> DEFINE x == [run[r] EXCEPT !.pc = "next"]
<1>2. x \in RunType /\ run' = [run EXCEPT ![r] = x] BY <1>0 DEF RunType, PC
<1>3. OnlyRun(r) /\ run'[r] = x BY <1>0, <1>2, RunMoves
<1>4. /\ run'[r].pc = "next" /\ run'[r].event = e
      /\ run'[r].next = run[r].next /\ run'[r].seen = run[r].seen
  BY <1>0, <1>1, <1>3, ZenonT(60) DEF RunType
<1>5. status'[e] = "PROCESSING" /\ \A y \in Event : y # e => status'[y] = status[y]
  BY <1>0, <1>1 DEF FullType, StatusWhenPicked
<1>6. attempts'[e] = attempts[e] + 1 /\ \A y \in Event : y # e => attempts'[y] = attempts[y]
  BY <1>0, <1>1 DEF FullType
<1>7. FullType'
  <2>1. status' \in [Event -> {"NONE", "RECEIVED", "PROCESSING"} \cup Terminal]
    BY <1>0 DEF FullType, StatusWhenPicked
  <2>2. attempts' \in [Event -> Nat]
    <3>1. attempts \in [Event -> Nat] /\ attempts[e] + 1 \in Nat BY <1>0 DEF FullType
    <3>2. attempts' = [attempts EXCEPT ![e] = attempts[e] + 1] BY <1>1
    <3> QED BY <3>1, <3>2
  <2> QED BY <1>0, <1>3, <2>1, <2>2 DEF FullType, OnlyRun
<1>8. status[e] # "NONE" BY <1>1 DEF IndInv, RunInv, Busy
<1>9. JobInv' BY <1>5, <1>8 DEF IndInv, JobInv
<1>10. CallInv' BY <1>5, <1>8, <1>0 DEF IndInv, CallInv, FullType
<1>11. RunInv'
  <2>1. run[r].next >= 1 /\ run[r].seen <= attempts[e] BY <1>1 DEF IndInv, RunInv
  <2>2. run[r].seen \in Nat /\ attempts \in [Event -> Nat] BY <1>0 DEF RunType, FullType
  <2>3. \A y \in Event : attempts[y] <= attempts'[y] BY <1>6, <2>2
  <2>4. run'[r].seen + 1 <= attempts'[e] BY <1>4, <1>6, <2>1, <2>2
  <2>5. ASSUME NEW y \in Runner, y # r
        PROVE  /\ (Busy(y) => run[y].event \in Event /\ status[run[y].event] # "NONE")'
               /\ run'[y].next >= 1 /\ (run'[y].pc \in {"read", "claim"} => run'[y].next = 1)
               /\ run'[y].pc = "claim" => run'[y].seen <= attempts'[run'[y].event]
               /\ Working(y)' => run'[y].seen + 1 <= attempts'[run'[y].event]
               /\ run'[y].pc = "insert" =>
                     /\ run'[y].next <= Len(Results[run'[y].event])
                     /\ Results[run'[y].event][run'[y].next].type = "MESSAGE"
    <3>1. run'[y] = run[y] BY <1>3, <2>5 DEF OnlyRun
    <3>a. run[y].seen \in Nat BY <1>0 DEF FullType, RunType
    <3>2. run[y].seen \in Nat /\ run[y].seen + 1 \in Nat BY <3>a
    <3>b. run[y].pc \in {"read", "claim"} => run[y].next = 1 BY DEF IndInv, RunInv
    <3>3. run[y].next >= 1 /\ (Busy(y) => run[y].event \in Event /\ status[run[y].event] # "NONE")
      BY DEF IndInv, RunInv
    <3>4. (Busy(y) => run[y].event \in Event /\ status[run[y].event] # "NONE")'
      BY <1>5, <3>1, <3>3 DEF Busy
    <3>5. run[y].pc = "claim" => run[y].seen <= attempts'[run[y].event]
      <4> HAVE run[y].pc = "claim"
      <4>1. run[y].event \in Event /\ run[y].seen <= attempts[run[y].event] BY DEF IndInv, RunInv, Busy
      <4>2. attempts[run[y].event] \in Nat /\ attempts'[run[y].event] \in Nat BY <4>1, <1>7, <2>2 DEF FullType
      <4> QED BY <2>3, <3>2, <4>1, <4>2
    <3>6. Working(y) => run[y].seen + 1 <= attempts'[run[y].event]
      <4> HAVE Working(y)
      <4>1. run[y].event \in Event /\ run[y].seen + 1 <= attempts[run[y].event]
        BY DEF IndInv, RunInv, Busy, Working
      <4>2. attempts[run[y].event] \in Nat /\ attempts'[run[y].event] \in Nat BY <4>1, <1>7, <2>2 DEF FullType
      <4> QED BY <2>3, <3>2, <4>1, <4>2
    <3>7. run[y].pc = "insert" => /\ run[y].next <= Len(Results[run[y].event])
                                 /\ Results[run[y].event][run[y].next].type = "MESSAGE"
      BY DEF IndInv, RunInv
    <3> QED BY <3>1, <3>b, <3>3, <3>4, <3>5, <3>6, <3>7 DEF Working
  <2>6. /\ (Busy(r) => run[r].event \in Event /\ status[run[r].event] # "NONE")'
        /\ run'[r].next >= 1 /\ run'[r].pc \notin {"read", "claim", "insert"}
        /\ run'[r].seen + 1 <= attempts'[run'[r].event]
    BY <1>4, <1>5, <2>1, <2>4 DEF Busy
  <2> QED BY <2>5, <2>6 DEF RunInv
<1>12. DoneInv'
  <2>1. \A y, i : ResultDone(y, i)' <=> ResultDone(y, i) BY DEF ResultDone
  <2>2. \A y \in Runner : y # r => run'[y] = run[y] BY <1>3 DEF OnlyRun
  <2>3. \A y \in Event : status'[y] = "PROCESSED" => status[y] = "PROCESSED" BY <1>5
  <2>4. run[r].next = 1
    BY DEF IndInv, RunInv
  <2> QED BY <1>4, <2>1, <2>2, <2>3, <2>4 DEF IndInv, DoneInv
<1>13. OwnerInv' BY <1>1, <1>3, <1>4 DEF IndInv, OwnerInv, OnlyRun, Busy
<1>14. OpenInv' BY <1>1, <1>3, <1>4, <1>5 DEF IndInv, OpenInv, OwnerInv, OnlyRun, Busy, AlreadyDone
<1>15. LossInv'
  <2>1. e \notin overlapped => job[e].owner = r BY <1>1 DEF IndInv, OwnerInv, Busy
  <2>2. job[e].owner = r => job[e].at # "finished" BY DEF IndInv, JobInv
  <2> QED BY <1>5, <2>1, <2>2 DEF IndInv, LossInv
<1>16. AckedIsJournaled' /\ OneRowPerMessage'
  BY <1>0, <1>5 DEF IndInv, AckedIsJournaled, OneRowPerMessage, FullType
<1>17. GaveUpLate'
  <2>1. \A y \in Event : attempts[y] \in Nat /\ attempts'[y] \in Nat /\ attempts[y] <= attempts'[y]
    BY <1>0, <1>6, <1>7 DEF FullType
  <2> QED BY <2>1, AttemptsAssumption DEF IndInv, GaveUpLate
<1> QED BY <1>7, <1>9, <1>10, <1>11, <1>12, <1>13, <1>14, <1>15, <1>16, <1>17 DEF IndInv

\* A waiting job starts a run.
LEMMA StartJobStep ==
    ASSUME NEW r \in Runner, NEW e \in Event, IndInv, StartJob(r, e)
    PROVE  IndInv'
<1> USE DEF StartJob, rowVars, coreVars
<1>0. FullType /\ job[e] \in JobType BY DEF IndInv, FullType
<1> DEFINE x == [IdleRun EXCEPT !.pc = "read", !.event = e]
           j == [job[e] EXCEPT !.at = "active", !.owner = r]
<1>1. x \in RunType /\ x.pc = "read" /\ x.event = e /\ x.next = 1 BY DEF IdleRun, RunType, PC
<1>2. OnlyRun(r) /\ run'[r] = x BY <1>0, <1>1, RunMoves
<1>3. j \in JobType /\ job' = [job EXCEPT ![e] = j] BY <1>0 DEF JobType
<1>4. OnlyJob(e) /\ job'[e] = j BY <1>0, <1>3 DEF FullType, OnlyJob
<1>5. j.at = "active" /\ j.owner = r /\ j.made = job[e].made /\ j.stalls = job[e].stalls
  BY <1>0 DEF JobType
<1>6. run'[r].pc = "read" /\ run'[r].event = e /\ run'[r].next = 1 BY <1>1, <1>2
<1>7. /\ job'[e].at = "active" /\ job'[e].owner = r
      /\ job'[e].made = job[e].made /\ job'[e].stalls = job[e].stalls
  BY <1>4, <1>5
<1>8. job[e].at = "waiting" /\ job[e].owner \notin Runner /\ status[e] # "NONE"
  BY DEF IndInv, JobInv
<1> HIDE DEF x, j
<1>9. FullType' BY <1>0, <1>2, <1>4 DEF FullType, OnlyRun, OnlyJob
<1>10. JobInv' BY <1>4, <1>7, <1>8 DEF IndInv, JobInv, OnlyJob
<1>11. CallInv' /\ LossInv' BY <1>4, <1>7 DEF IndInv, CallInv, LossInv, OnlyJob
<1>12. RunInv' BY <1>2, <1>6, <1>8 DEF IndInv, RunInv, OnlyRun, Busy, Working
<1>13. DoneInv'
  <2>1. \A y, i : ResultDone(y, i)' <=> ResultDone(y, i) BY DEF ResultDone
  <2>2. \A y \in Runner : run'[y].pc \in {"next", "insert"} => run'[y] = run[y]
    BY <1>2, <1>6 DEF OnlyRun
  <2> QED BY <2>1, <2>2 DEF IndInv, DoneInv
<1>14. OwnerInv'
  <2>1. \A y \in Runner : Busy(y) /\ run[y].event \notin overlapped => run[y].event # e
    BY <1>8 DEF IndInv, OwnerInv
  <2>2. \A y \in Runner : Busy(y) => run[y].event \in Event BY DEF IndInv, RunInv
  <2> QED BY <1>2, <1>4, <1>6, <1>7, <2>1, <2>2 DEF IndInv, OwnerInv, Busy, OnlyRun, OnlyJob
<1>15. OpenInv' BY <1>2, <1>6 DEF IndInv, OpenInv, Busy, OnlyRun, AlreadyDone
<1>16. AckedIsJournaled' /\ OneRowPerMessage' /\ GaveUpLate'
  BY DEF IndInv, AckedIsJournaled, OneRowPerMessage, GaveUpLate
<1> QED BY <1>9, <1>10, <1>11, <1>12, <1>13, <1>14, <1>15, <1>16 DEF IndInv

-----------------------------------------------------------------------------
(* The steps of everyone else *)

\* Nothing of what a run relies on changes: what is left to show of such a step.
LEMMA RunsKept ==
    ASSUME IndInv, UNCHANGED <<run, rows, applied, gaveUp>>, attempts' \in [Event -> Nat],
           \A e \in Event : /\ attempts[e] <= attempts'[e]
                            /\ status[e] # "NONE" => status'[e] # "NONE"
                            /\ status'[e] = "PROCESSED" => status[e] = "PROCESSED"
    PROVE  RunInv' /\ DoneInv' /\ OneRowPerMessage' /\ GaveUpLate'
<1> USE DEF IndInv
<1>1. RunInv'
  <2>1. ASSUME NEW y \in Runner
        PROVE  /\ run[y].pc = "claim" => run[y].seen <= attempts'[run[y].event]
               /\ Working(y) => run[y].seen + 1 <= attempts'[run[y].event]
    <3>1. run[y].seen \in Nat BY DEF FullType, RunType
    <3>2. ASSUME Busy(y)
          PROVE  /\ attempts[run[y].event] \in Nat /\ attempts'[run[y].event] \in Nat
                 /\ attempts[run[y].event] <= attempts'[run[y].event]
      BY <3>2 DEF RunInv, FullType
    <3>3. run[y].pc = "claim" => run[y].seen <= attempts'[run[y].event]
      BY <3>1, <3>2 DEF RunInv, Busy
    <3>4. Working(y) => Busy(y) /\ run[y].seen + 1 <= attempts[run[y].event]
      BY DEF RunInv, Working, Busy
    <3>5. Working(y) => run[y].seen + 1 <= attempts'[run[y].event]
      BY <3>1, <3>2, <3>4
    <3> QED BY <3>3, <3>5
  <2>2. \A y \in Runner : (Working(y)' <=> Working(y)) /\ (Busy(y)' <=> Busy(y)) BY DEF Working, Busy
  <2> QED BY <2>1, <2>2 DEF RunInv
<1>2. DoneInv'
  <2>1. \A y, i : ResultDone(y, i)' <=> ResultDone(y, i) BY DEF ResultDone
  <2> QED BY <2>1 DEF DoneInv
<1>3. OneRowPerMessage' BY DEF OneRowPerMessage
<1>4. GaveUpLate'
  <2>1. \A e \in Event : attempts[e] \in Nat /\ attempts'[e] \in Nat BY DEF FullType
  <2> QED BY <2>1, AttemptsAssumption DEF GaveUpLate
<1> QED BY <1>1, <1>2, <1>3, <1>4

\* A call arrives, is answered, or fails.
LEMMA CallsStep ==
    ASSUME NEW q \in Request, IndInv,
           (\E b \in Batches : Receive(q, b)) \/ Respond(q) \/ CallFails(q)
    PROVE  IndInv'
<1> USE DEF IndInv, rowVars, queueVars, coreVars
<1>1. /\ UNCHANGED <<status, attempts, job, overlapped, run, rows, sent, applied, gaveUp, deleted, replayed>>
      /\ faults' \in 0 .. MaxFaults
  BY AttemptsAssumption DEF Receive, Respond, CallFails, Fault, FullType
<1>2. RunInv' /\ DoneInv' /\ OneRowPerMessage' /\ GaveUpLate' BY <1>1, RunsKept DEF FullType
<1>3. JobInv' /\ OwnerInv' /\ OpenInv' /\ LossInv'
  BY <1>1 DEF JobInv, OwnerInv, OpenInv, LossInv, Busy, AlreadyDone
<1>4. /\ call' \in [Request -> [todo : SUBSET Event, batch : SUBSET Event]] /\ acked' \subseteq Event
      /\ CallInv' /\ AckedIsJournaled'
  <2>0. /\ call \in [Request -> [todo : SUBSET Event, batch : SUBSET Event]] /\ acked \subseteq Event
        /\ call[q] \in [todo : SUBSET Event, batch : SUBSET Event] /\ call[q].batch \subseteq Event
    BY DEF FullType
  <2>a. NoCall \in [todo : SUBSET Event, batch : SUBSET Event] /\ NoCall.batch = {} BY DEF NoCall
  <2>1. ASSUME NEW b \in Batches, Receive(q, b) PROVE <1>4!:
    <3> DEFINE c == [todo |-> {e \in b : ChannelOf[e] \in Connected \ deleted}, batch |-> b]
    <3>1. b \subseteq Event BY EventsAssumption
    <3>2. c \in [todo : SUBSET Event, batch : SUBSET Event] /\ call' = [call EXCEPT ![q] = c]
      BY <2>1, <3>1 DEF Receive
    <3>3. c.batch = b /\ \A e \in b : ChannelOf[e] \in Connected \ deleted => e \in c.todo OBVIOUS
    <3> HIDE DEF c
    <3>4. call'[q] = c /\ \A y \in Request : y # q => call'[y] = call[y] BY <2>0, <3>2
    <3>5. CallInv' BY <1>1, <3>3, <3>4 DEF CallInv
    <3>6. call' \in [Request -> [todo : SUBSET Event, batch : SUBSET Event]] BY <2>0, <3>2
    <3>7. acked' = acked BY <2>1 DEF Receive
    <3> QED BY <1>1, <2>0, <3>5, <3>6, <3>7 DEF AckedIsJournaled
  <2>2. ASSUME call' = [call EXCEPT ![q] = NoCall]
        PROVE  CallInv' /\ call' \in [Request -> [todo : SUBSET Event, batch : SUBSET Event]]
    <3>1. call'[q] = NoCall /\ \A y \in Request : y # q => call'[y] = call[y] BY <2>0, <2>2
    <3>2. call' \in [Request -> [todo : SUBSET Event, batch : SUBSET Event]] BY <2>0, <2>a, <2>2
    <3> QED BY <1>1, <2>a, <3>1, <3>2 DEF CallInv
  <2>3. CASE Respond(q)
    <3>1. call[q].todo = {} /\ acked' = acked \cup call[q].batch BY <2>3 DEF Respond, GroupsDone
    <3>2. \A e \in call[q].batch : ChannelOf[e] \in Connected \ deleted => status[e] # "NONE"
      BY <3>1 DEF CallInv
    <3>3. AckedIsJournaled' BY <1>1, <3>1, <3>2 DEF AckedIsJournaled
    <3> QED BY <2>0, <2>2, <2>3, <3>1, <3>3 DEF Respond
  <2>4. CASE CallFails(q)
    <3>1. AckedIsJournaled' /\ acked' = acked BY <1>1, <2>4 DEF AckedIsJournaled, CallFails
    <3> QED BY <2>0, <2>2, <2>4, <3>1 DEF CallFails
  <2> QED BY <2>1, <2>3, <2>4
<1>5. FullType' BY <1>1, <1>4 DEF FullType
<1> QED BY <1>2, <1>3, <1>4, <1>5

\* One transaction journals the events of one channel: a row and a job for each new one.
LEMMA JournalStep ==
    ASSUME NEW q \in Request, NEW c \in Connected, IndInv, Journal(q, c)
    PROVE  IndInv'
<1> USE DEF IndInv, coreVars
<1> DEFINE group == {e \in call[q].todo : ChannelOf[e] = c}
           new == NewRows(group)
           j == [NoJob EXCEPT !.at = "outbox"]
           left == [call[q] EXCEPT !.todo = @ \ group]
<1>0. /\ status' = [e \in Event |-> IF e \in new THEN "RECEIVED" ELSE status[e]]
      /\ job' = [e \in Event |-> IF e \in new THEN j ELSE job[e]]
      /\ call' = [call EXCEPT ![q] = left]
      /\ UNCHANGED <<attempts, overlapped, acked, run, rows, sent, applied, gaveUp, deleted, faults, replayed>>
  BY DEF Journal
<1>1. \A e \in Event : e \in new => status[e] = "NONE" BY DEF NewRows
<1>2. /\ j \in JobType /\ j.at = "outbox" /\ j.owner = NoRunner /\ j.made = 0 /\ j.stalls = 0
  BY DEF NoJob, JobType
<1>3. /\ call[q] \in [todo : SUBSET Event, batch : SUBSET Event]
      /\ left \in [todo : SUBSET Event, batch : SUBSET Event]
      /\ left.batch = call[q].batch /\ left.todo = call[q].todo \ group
  BY DEF FullType
<1>4. call'[q] = left /\ \A y \in Request : y # q => call'[y] = call[y] BY <1>0 DEF FullType
<1>5. \A e \in group : e \in new \/ status[e] # "NONE" BY DEF NewRows
<1> HIDE DEF new, group, j, left
<1>6. \A e \in Event : IF e \in new THEN status[e] = "NONE" /\ status'[e] = "RECEIVED" /\ job'[e] = j
                                      ELSE status'[e] = status[e] /\ job'[e] = job[e]
  BY <1>0, <1>1
<1>7. FullType'
  <2>1. status' \in [Event -> {"NONE", "RECEIVED", "PROCESSING"} \cup Terminal] BY <1>0 DEF FullType
  <2>2. job' \in [Event -> JobType] BY <1>0, <1>2 DEF FullType
  <2>3. call' \in [Request -> [todo : SUBSET Event, batch : SUBSET Event]] BY <1>0, <1>3 DEF FullType
  <2> QED BY <1>0, <2>1, <2>2, <2>3 DEF FullType
<1>8. JobInv'
  <2>1. NoRunner \notin Runner BY EventsAssumption
  <2> QED BY <1>2, <1>6, <2>1, AttemptsAssumption DEF JobInv
<1>9. CallInv'
  <2>1. \A y \in Request : call[y].batch \subseteq Event /\ call'[y].batch = call[y].batch
    BY <1>3, <1>4 DEF FullType
  <2>2. ASSUME NEW y \in Request, NEW e \in call[y].batch, ChannelOf[e] \in Connected \ deleted
        PROVE  e \in call'[y].todo \/ status'[e] # "NONE"
    <3>1. e \in Event /\ (e \in call[y].todo \/ status[e] # "NONE") BY <2>1, <2>2 DEF CallInv
    <3>2. status[e] # "NONE" => status'[e] # "NONE" BY <1>6, <3>1
    <3>3. e \in group => status'[e] # "NONE" BY <1>5, <1>6, <3>1
    <3> QED BY <1>3, <1>4, <3>1, <3>2, <3>3
  <2> QED BY <1>0, <2>1, <2>2 DEF CallInv
<1>10. RunInv' /\ DoneInv' /\ OneRowPerMessage' /\ GaveUpLate'
  <2>1. \A e \in Event : /\ attempts[e] <= attempts'[e] /\ status[e] # "NONE" => status'[e] # "NONE"
                         /\ status'[e] = "PROCESSED" => status[e] = "PROCESSED"
    BY <1>0, <1>6 DEF FullType
  <2>2. attempts' \in [Event -> Nat] BY <1>0 DEF FullType
  <2> QED BY <1>0, <2>1, <2>2, RunsKept
<1>11. OwnerInv' /\ OpenInv'
  <2>1. \A y \in Runner : Busy(y) => run[y].event \in Event /\ run[y].event \notin new
    BY <1>6 DEF RunInv
  <2>2. \A y \in Runner : Busy(y)' <=> Busy(y) BY <1>0 DEF Busy
  <2> QED BY <1>0, <1>6, <2>1, <2>2 DEF OwnerInv, OpenInv, AlreadyDone
<1>12. LossInv' BY <1>0, <1>2, <1>6 DEF LossInv
<1>13. AckedIsJournaled' BY <1>0, <1>6 DEF AckedIsJournaled, FullType
<1> QED BY <1>7, <1>8, <1>9, <1>10, <1>11, <1>12, <1>13

\* The queue moves a job that no run of its own holds, or takes the lock from one that does.
LEMMA QueueMoves ==
    ASSUME NEW e \in Event, IndInv, OnlyJob(e), faults' \in 0 .. MaxFaults,
           UNCHANGED <<status, attempts, call, acked, run, rows, sent, applied, gaveUp, deleted, replayed>>,
           job[e].at # "none", job'[e].at \in {"waiting", "failed"}, job'[e].owner = NoRunner,
           job'[e].made <= RetryLimit + 1, job'[e].stalls <= RetryLimit + 1,
           job'[e].at = "waiting" => job'[e].made <= RetryLimit /\ job'[e].stalls <= RetryLimit,
           overlapped \subseteq overlapped',
           e \notin overlapped' => \A r \in Runner : Busy(r) => run[r].event # e
    PROVE  IndInv'
<1> USE DEF IndInv
<1>1. FullType' BY DEF FullType, OnlyJob
<1>2. JobInv'
  <2>1. NoRunner \notin Runner BY EventsAssumption
  <2>2. status[e] # "NONE" BY DEF JobInv
  <2> QED BY <2>1, <2>2 DEF JobInv, OnlyJob
<1>3. RunInv' /\ DoneInv' /\ OneRowPerMessage' /\ GaveUpLate'
  <2>1. \A x \in Event : attempts[x] <= attempts'[x] BY DEF FullType
  <2> QED BY <2>1, RunsKept DEF FullType
<1>4. CallInv' /\ AckedIsJournaled' BY DEF CallInv, AckedIsJournaled
<1>5. OwnerInv'
  <2>1. \A r \in Runner : Busy(r) => run[r].event \in Event BY DEF RunInv
  <2>2. \A r \in Runner : Busy(r)' <=> Busy(r) BY DEF Busy
  <2> QED BY <2>1, <2>2 DEF OwnerInv, OnlyJob
<1>6. OpenInv' BY DEF OpenInv, Busy, AlreadyDone
<1>7. LossInv' BY DEF LossInv, OnlyJob
<1> QED BY <1>1, <1>2, <1>3, <1>4, <1>5, <1>6, <1>7

\* The outbox hands an event over.
LEMMA EnqueueStep ==
    ASSUME NEW e \in Event, IndInv, Enqueue(e)
    PROVE  IndInv'
<1> USE DEF IndInv, Enqueue, rowVars, coreVars
<1>1. job[e] \in JobType BY DEF FullType
<1> DEFINE j == [job[e] EXCEPT !.at = "waiting"]
<1>2. j \in JobType /\ job' = [job EXCEPT ![e] = j] BY <1>1 DEF JobType
<1>3. /\ j.at = "waiting" /\ j.owner = job[e].owner /\ j.made = job[e].made /\ j.stalls = job[e].stalls
  BY <1>1 DEF JobType
<1>4. OnlyJob(e) /\ job'[e] = j BY <1>2 DEF FullType, OnlyJob
<1>5. /\ job[e].owner \notin Runner /\ job[e].made <= RetryLimit /\ job[e].stalls <= RetryLimit
      /\ job[e].made <= RetryLimit + 1 /\ job[e].stalls <= RetryLimit + 1
  BY DEF JobInv
<1>6. job[e].owner = NoRunner BY <1>1, <1>5 DEF JobType
<1>7. e \notin overlapped => \A r \in Runner : Busy(r) => run[r].event # e BY <1>5 DEF OwnerInv
<1>8. faults' \in 0 .. MaxFaults BY DEF FullType
<1> HIDE DEF j
<1> QED BY <1>3, <1>4, <1>5, <1>6, <1>7, <1>8, QueueMoves

\* The event is dispatched once more.
LEMMA RedispatchStep ==
    ASSUME NEW e \in Event, IndInv, Redispatch(e)
    PROVE  IndInv'
<1> USE DEF IndInv, Redispatch, rowVars, coreVars
<1> DEFINE j == [NoJob EXCEPT !.at = "waiting"]
<1>1. j \in JobType /\ j.at = "waiting" /\ j.owner = NoRunner /\ j.made = 0 /\ j.stalls = 0
  BY DEF JobType, NoJob
<1>2. OnlyJob(e) /\ job'[e] = j BY <1>1 DEF FullType, OnlyJob
<1>3. job[e].owner \notin Runner BY DEF JobInv
<1>4. e \notin overlapped => \A r \in Runner : Busy(r) => run[r].event # e BY <1>3 DEF OwnerInv
<1>5. faults' \in 0 .. MaxFaults BY AttemptsAssumption DEF FullType, Fault
<1>6. 0 <= RetryLimit /\ 0 <= RetryLimit + 1 BY AttemptsAssumption
<1> HIDE DEF j
<1> QED BY <1>1, <1>2, <1>4, <1>5, <1>6, QueueMoves

\* The lock is taken from a worker that died, or from one that is slow.
LEMMA StallSteps ==
    ASSUME NEW e \in Event, IndInv, Stall(e) \/ LoseLock(e)
    PROVE  IndInv'
<1> USE DEF IndInv, Stall, LoseLock, rowVars, coreVars
<1>0. FullType /\ Stalled(e) OBVIOUS
<1>1. /\ OnlyJob(e) /\ job'[e].owner = NoRunner
      /\ job[e].stalls < RetryLimit => job'[e].at = "waiting"
      /\ ~(job[e].stalls < RetryLimit) => job'[e].at = "failed"
      /\ job'[e].made = job[e].made /\ job'[e].stalls = job[e].stalls + 1
  BY <1>0, StalledEffect
<1>2. job[e].made \in Nat /\ job[e].stalls \in Nat BY DEF FullType, JobType
<1>3. job[e].made <= RetryLimit /\ job[e].stalls <= RetryLimit BY DEF JobInv
<1>4. /\ job'[e].made <= RetryLimit + 1 /\ job'[e].stalls <= RetryLimit + 1
      /\ job'[e].at = "waiting" => job'[e].made <= RetryLimit /\ job'[e].stalls <= RetryLimit
  BY <1>1, <1>2, <1>3, AttemptsAssumption
<1>5. faults' \in 0 .. MaxFaults BY AttemptsAssumption DEF FullType, Fault
<1>6. e \notin overlapped' => \A r \in Runner : Busy(r) => run[r].event # e
  <2>1. CASE LoseLock(e) BY <2>1
  <2>2. CASE Stall(e)
    BY <2>2 DEF OwnerInv
  <2> QED BY <2>1, <2>2
<1>7. /\ UNCHANGED <<status, attempts, call, acked, run, rows, sent, applied, gaveUp, deleted, replayed>>
      /\ overlapped \subseteq overlapped' /\ job[e].at # "none" /\ job'[e].at \in {"waiting", "failed"}
  BY <1>1
<1> QED BY <1>1, <1>4, <1>5, <1>6, <1>7, QueueMoves

\* A send result is stored, or a channel is deleted: neither queue nor runs notice.
LEMMA OutsideSteps ==
    ASSUME IndInv, (\E o \in OutboundId : StoreSendResult(o)) \/ (\E c \in Connected : DeleteChannel(c))
    PROVE  IndInv'
<1> USE DEF IndInv, StoreSendResult, DeleteChannel, rowVars, queueVars, coreVars
<1>1. /\ UNCHANGED <<status, attempts, job, overlapped, call, acked, run, rows, applied, gaveUp, replayed>>
      /\ sent' \subseteq OutboundId /\ deleted \subseteq deleted'
  BY DEF FullType
<1>2. faults' \in 0 .. MaxFaults BY AttemptsAssumption DEF Fault, FullType
<1>3. FullType' BY <1>1, <1>2 DEF FullType
<1>4. RunInv' /\ DoneInv' /\ OneRowPerMessage' /\ GaveUpLate'
  <2>1. \A x \in Event : attempts[x] <= attempts'[x] BY <1>1 DEF FullType
  <2> QED BY <1>1, <2>1, RunsKept DEF FullType
<1>5. JobInv' /\ OwnerInv' /\ OpenInv' /\ LossInv'
  BY <1>1 DEF JobInv, OwnerInv, OpenInv, LossInv, Busy, AlreadyDone
<1>6. CallInv' /\ AckedIsJournaled' BY <1>1 DEF CallInv, AckedIsJournaled
<1> QED BY <1>3, <1>4, <1>5, <1>6

\* An operator puts a row back to RECEIVED.
LEMMA ReplayStep ==
    ASSUME NEW e \in Event, IndInv, Replay(e)
    PROVE  IndInv'
<1> USE DEF IndInv, Replay, queueVars, coreVars
<1>1. status'[e] = "RECEIVED" /\ \A x \in Event : x # e => status'[x] = status[x] BY DEF FullType
<1>2. FullType'
  <2>1. faults' \in 0 .. MaxFaults BY AttemptsAssumption DEF Fault, FullType
  <2>2. status' \in [Event -> {"NONE", "RECEIVED", "PROCESSING"} \cup Terminal] BY DEF FullType
  <2> QED BY <2>1, <2>2 DEF FullType
<1>3. RunInv' /\ DoneInv' /\ OneRowPerMessage' /\ GaveUpLate'
  <2>1. \A x \in Event : attempts[x] <= attempts'[x] BY DEF FullType
  <2> QED BY <1>1, <2>1, RunsKept DEF FullType
<1>4. JobInv' BY <1>1 DEF JobInv
<1>5. CallInv' /\ AckedIsJournaled' BY <1>1 DEF CallInv, AckedIsJournaled, FullType
<1>6. OwnerInv' BY DEF OwnerInv, Busy
<1>7. OpenInv' BY <1>1 DEF OpenInv, Busy, AlreadyDone, RunInv
<1>8. LossInv' BY <1>1 DEF LossInv
<1> QED BY <1>2, <1>3, <1>4, <1>5, <1>6, <1>7, <1>8

-----------------------------------------------------------------------------
(* The invariant holds *)

\* It holds at the start.
LEMMA InitInv == Init => IndInv
<1> SUFFICES ASSUME Init PROVE IndInv OBVIOUS
<1> USE AttemptsAssumption DEF Init
<1>1. NoJob \in JobType /\ IdleRun \in RunType /\ NoCall \in [todo : SUBSET Event, batch : SUBSET Event]
  BY DEF NoJob, IdleRun, NoCall, JobType, RunType, PC
<1>2. FullType BY <1>1 DEF FullType
<1>3. JobInv
  <2>1. NoRunner \notin Runner BY EventsAssumption
  <2> QED BY <2>1 DEF JobInv, NoJob
<1>4. CallInv BY DEF CallInv, NoCall
<1>5. RunInv
  <2>1. \A r \in Runner : run[r].pc = "idle" /\ run[r].next = 1 BY DEF IdleRun
  <2> QED BY <2>1 DEF RunInv, Busy, Working
<1>6. DoneInv BY DEF DoneInv, IdleRun
<1>7. OwnerInv /\ OpenInv BY DEF OwnerInv, OpenInv, Busy, IdleRun
<1>8. LossInv BY DEF LossInv, NoJob
<1>9. AckedIsJournaled /\ OneRowPerMessage /\ GaveUpLate BY DEF AckedIsJournaled, OneRowPerMessage, GaveUpLate
<1> QED BY <1>2, <1>3, <1>4, <1>5, <1>6, <1>7, <1>8, <1>9 DEF IndInv

\* Every step keeps it.
LEMMA StepInv == IndInv /\ [Next]_vars => IndInv'
<1> SUFFICES ASSUME IndInv, [Next]_vars PROVE IndInv' OBVIOUS
<1>1. ASSUME NEW q \in Request, CallStep(q) PROVE IndInv'
  BY <1>1, CallsStep, JournalStep DEF CallStep
<1>2. ASSUME NEW e \in Event, Enqueue(e) \/ Redispatch(e) \/ Stall(e) \/ LoseLock(e) \/ Replay(e)
      PROVE  IndInv'
  BY <1>2, EnqueueStep, RedispatchStep, StallSteps, ReplayStep
<1>3. ASSUME NEW r \in Runner, RunStep(r) PROVE IndInv'
  BY <1>3, StartJobStep, ReadEventStep, IgnoreDeletedStep, ClaimStep, NormalizeFailsStep, FindDuplicateStep,
     IngestMessageStep, ApplyReceiptStep, SkipIgnoredStep, FinishStep, RecordFailureStep,
     StatementThrowsStep, CrashStep DEF RunStep
<1>4. ASSUME (\E o \in OutboundId : StoreSendResult(o)) \/ (\E c \in Connected : DeleteChannel(c)) PROVE IndInv'
  BY <1>4, OutsideSteps
<1>5. CASE UNCHANGED vars
  <2> USE <1>5 DEF vars, IndInv
  <2>1. FullType' /\ JobInv' /\ CallInv' BY DEF FullType, JobInv, CallInv
  <2>2. RunInv' /\ DoneInv' BY DEF RunInv, DoneInv, Busy, Working, ResultDone
  <2>3. OwnerInv' /\ OpenInv' /\ LossInv' BY DEF OwnerInv, OpenInv, LossInv, Busy, AlreadyDone
  <2>4. AckedIsJournaled' /\ OneRowPerMessage' /\ GaveUpLate' BY DEF AckedIsJournaled, OneRowPerMessage, GaveUpLate
  <2> QED BY <2>1, <2>2, <2>3, <2>4
<1> QED BY <1>1, <1>2, <1>3, <1>4, <1>5 DEF Next

\* The inductive invariant holds in every reachable state of the way in.
THEOREM InboundInvariant == Spec => []IndInv
BY InitInv, StepInv, PTL DEF Spec

-----------------------------------------------------------------------------
(* What it says *)

\* However often a customer message is delivered, run, retried or replayed, the unique key of
\* ingestMessage leaves one row of it.
THEOREM MessagesAreStoredOnce == Spec => []OneRowPerMessage
<1>1. IndInv => OneRowPerMessage BY DEF IndInv
<1> QED BY <1>1, InboundInvariant, PTL

\* The parts of JournalIsTrue.
LEMMA JournalFollows == IndInv => JournalIsTrue
<1> SUFFICES ASSUME IndInv PROVE JournalIsTrue OBVIOUS
<1> USE DEF IndInv
<1>1. TypeOK
  <2>1. ASSUME NEW e \in Event
        PROVE  /\ job[e].at \in {"none", "outbox", "waiting", "active", "finished", "failed"}
               /\ IF job[e].at = "active" THEN job[e].owner \in Runner ELSE job[e].owner = NoRunner
               /\ job[e].made \in 0 .. RetryLimit + 1 /\ job[e].stalls \in 0 .. RetryLimit + 1
    <3>1. /\ job[e].at \in {"none", "outbox", "waiting", "active", "finished", "failed"}
          /\ job[e].owner \in Runner \cup {NoRunner} /\ job[e].made \in Nat /\ job[e].stalls \in Nat
      BY DEF FullType, JobType
    <3>2. /\ job[e].at = "active" <=> job[e].owner \in Runner
          /\ job[e].made <= RetryLimit + 1 /\ job[e].stalls <= RetryLimit + 1
      BY DEF JobInv
    <3> QED BY <3>1, <3>2, AttemptsAssumption
  <2>2. \A r \in Runner : run[r].pc \in PC /\ (run[r].pc # "idle" => run[r].event \in Event)
    BY DEF FullType, RunType, RunInv, Busy
  <2> QED BY <2>1, <2>2 DEF TypeOK, FullType
<1>2. ProcessedIsDone
  <2> SUFFICES ASSUME NEW e \in Event, status[e] = "PROCESSED"
               PROVE  Stored(e) /\ Carries(e, "DELIVERY_RECEIPT") \subseteq applied \cup gaveUp
    BY DEF ProcessedIsDone
  <2>1. \A i \in 1 .. Len(Results[e]) : ResultDone(e, i) BY DEF DoneInv
  <2>2. ASSUME NEW m \in Carries(e, "MESSAGE") PROVE rows[m] > 0
    BY <2>1, CarriedIsResult DEF ResultDone
  <2>3. ASSUME NEW o \in Carries(e, "DELIVERY_RECEIPT") PROVE o \in applied \cup gaveUp
    BY <2>1, CarriedIsResult DEF ResultDone
  <2> QED BY <2>2, <2>3 DEF Stored
<1>3. NoSilentLoss
  <2>1. \A e \in Event : job[e].at \in {"none", "outbox", "waiting", "active", "finished", "failed"}
    BY DEF FullType, JobType
  <2> QED BY <2>1 DEF NoSilentLoss, JobInv, LossInv, Terminal
<1> QED BY <1>1, <1>2, <1>3 DEF JournalIsTrue

\* The journal tells what became of every event, whatever webhook calls, runs that lost their
\* lock, crashes, retries and replays do: JournalIsTrue of the webhook ingest, the queue and
\* InboundProcessorService.process together.
THEOREM JournalTellsTheTruth == Spec => []JournalIsTrue
BY JournalFollows, InboundInvariant, PTL

\* The early return of process() is enough: an event that is PROCESSED or IGNORED is opened
\* again only by an operator, or by runs of which one had lost its lock.
THEOREM DoneIsNotReopened == Spec => FinishedStaysFinished
<1> DEFINE Kept == \A e \in Event : status[e] \in {"PROCESSED", "IGNORED"} /\ status'[e] # status[e] =>
                      e \in replayed' \cup overlapped
<1>1. IndInv /\ [Next]_vars => [Kept]_vars
  <2> SUFFICES ASSUME IndInv, Next, NEW e \in Event, AlreadyDone(e), status'[e] # status[e],
                      e \notin replayed', e \notin overlapped
               PROVE  FALSE
    BY DEF AlreadyDone
  <2>0. status \in [Event -> {"NONE", "RECEIVED", "PROCESSING"} \cup Terminal] BY DEF IndInv, FullType
  <2>1. \A r \in Runner : run[r].pc \in {"ignore", "claim", "next", "retry", "permanent"} /\ run[r].event = e =>
          e \in replayed
    BY DEF IndInv, OpenInv, Busy
  <2>2. ASSUME NEW q \in Request, CallStep(q) PROVE FALSE
    <3>1. CASE \E b \in Batches : Receive(q, b) BY <3>1 DEF Receive, rowVars
    <3>2. CASE \E c \in Connected : Journal(q, c)
      <4>1. PICK c \in Connected : Journal(q, c) BY <3>2
      <4>2. status'[e] = status[e] BY <4>1, <2>0 DEF Journal, NewRows, AlreadyDone
      <4> QED BY <4>2
    <3>3. CASE Respond(q) \/ CallFails(q) BY <3>3 DEF Respond, CallFails, rowVars
    <3> QED BY <2>2, <3>1, <3>2, <3>3 DEF CallStep
  <2>3. ASSUME NEW x \in Event, Enqueue(x) \/ Redispatch(x) \/ Stall(x) \/ LoseLock(x) \/ Replay(x) PROVE FALSE
    BY <2>0, <2>3 DEF Enqueue, Redispatch, Stall, LoseLock, Replay, rowVars
  <2>4. ASSUME NEW r \in Runner, RunStep(r) PROVE FALSE
    <3>1. CASE \E x \in Event : StartJob(r, x) BY <3>1 DEF StartJob, rowVars
    <3>2. CASE IgnoreDeleted(r) \/ Claim(r) \/ Finish(r) \/ RecordFailure(r)
      <4>1. run[r].pc \in {"ignore", "claim", "next", "retry", "permanent"} /\ replayed' = replayed
        BY <3>2 DEF IgnoreDeleted, Claim, Finish, RecordFailure
      <4>2. run[r].event \in Event BY <4>1 DEF IndInv, RunInv, Busy
      <4>3. run[r].event # e => status'[e] = status[e]
        BY <2>0, <3>2, <4>2 DEF IgnoreDeleted, Claim, Finish, RecordFailure
      <4> QED BY <2>1, <4>1, <4>3
    <3>3. CASE \/ ReadEvent(r) \/ NormalizeFails(r) \/ FindDuplicate(r) \/ IngestMessage(r)
               \/ ApplyReceipt(r) \/ SkipIgnored(r) \/ StatementThrows(r) \/ Crash(r)
      BY <3>3 DEF ReadEvent, NormalizeFails, FindDuplicate, IngestMessage, ApplyReceipt, SkipIgnored,
                  StatementThrows, Crash, rowVars
    <3> QED BY <2>4, <3>1, <3>2, <3>3 DEF RunStep
  <2>5. ASSUME (\E o \in OutboundId : StoreSendResult(o)) \/ (\E c \in Connected : DeleteChannel(c)) PROVE FALSE
    BY <2>5 DEF StoreSendResult, DeleteChannel, rowVars
  <2> QED BY <2>2, <2>3, <2>4, <2>5 DEF Next
<1> QED BY <1>1, InboundInvariant, PTL DEF Spec, FinishedStaysFinished
============================================================================
