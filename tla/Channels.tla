------------------------------ MODULE Channels ------------------------------
(***************************************************************************)
(* One polled mailbox and everyone who writes its provider_accounts row:   *)
(*   apps/worker/src/polling/channel-polling.service.ts (pollers),         *)
(*   packages/channel-adapters/src/providers/email/email.adapter.ts,       *)
(*   apps/worker/src/processing/outbound-dispatcher.service.ts (senders),  *)
(*   apps/worker/src/channels/channel-health.service.ts (for both),        *)
(*   apps/api/src/channels/channels.service.ts (administrators).           *)
(*                                                                         *)
(* A credential is a number: each reconnection stores the next one, and    *)
(* the provider may stop accepting any of them.  The provider's events are *)
(* numbered in the order they arrive, and the cursor is the number of the  *)
(* last one fetched.  One database statement or transaction, one provider  *)
(* call is one step; time is abstract (a lease may run out at any moment,  *)
(* because nothing bounds or renews it while a poll goes on).              *)
(***************************************************************************)
EXTENDS Integers, TLC

CONSTANTS Poller,      \* worker processes, each polls the channel at most once at a time
          Sender,      \* runs of OutboundDispatcherService.send on this channel
          Admin,       \* concurrent requests of administrators
          MaxEvents,   \* bound: events at the provider
          MaxCreds,    \* bound: credentials that are ever stored
          MaxFaults    \* bound: crashes and failed calls

ASSUME BoundsAssumption == MaxEvents \in Nat /\ MaxCreds \in Nat \ {0} /\ MaxFaults \in Nat
ASSUME ProcessAssumption == Poller \cap Sender = {}

\* Pollers are interchangeable.
Symmetry == Permutations(Poller)

VARIABLES
    status,     \* provider_accounts.status
    deleted,    \* provider_accounts.deleted_at is set
    creds,      \* provider_accounts.credentials
    lease,      \* provider_accounts.sync_lease_expires_at, relative to NOW()
    cursor,     \* provider_accounts.sync_state
    journal,    \* events in provider_events
    valid,      \* credentials the provider accepts
    arrived,    \* events the provider has
    listed,     \* the row in ChannelPollingService.channels, NoRow when not there
    pc,         \* where a poll or a send stands
    row,        \* the row it works with
    from,       \* the cursor its lease returned
    upto,       \* the cursor its poll returned
    error,      \* the error it caught
    failures,   \* schedule.failures of the poller
    admin,      \* the request of an administrator
    faults,
    skipped,    \* history: events before the channel was (re)created
    lapsed      \* history: a lease ran out or was removed with the channel

rowVars == <<status, deleted, creds, lease, cursor>>
providerVars == <<valid, arrived>>
callVars == <<pc, row, from, upto, error, failures>>
vars == <<status, deleted, creds, lease, cursor, journal, valid, arrived, listed, pc, row, from,
          upto, error, failures, admin, faults, skipped, lapsed>>

Proc == Poller \cup Sender
Status == {"ACTIVE", "ERROR", "DISCONNECTED", "INACTIVE"}
Row == [status : Status, creds : Nat]
NoRow == [status |-> "INACTIVE", creds |-> 0]
PC == {"idle", "calling", "fetched", "ok", "failed", "recording"}
Error == {"none", "retryable", "reconnect", "other"}
Outcome == {"none", "ACTIVE", "ERROR", "DISCONNECTED"}
Operation == {"reconnect", "test", "remove", "create"}
Request == [op : Operation \cup {"none"}, creds : Nat, cursor : Nat, outcome : Outcome]
NoRequest == [op |-> "none", creds |-> 0, cursor |-> 0, outcome |-> "none"]

TypeOK ==
    /\ status \in Status
    /\ deleted \in BOOLEAN
    /\ creds \in Nat
    /\ lease \in {"free", "live", "expired"}
    /\ cursor \in Nat
    /\ journal \in SUBSET (1 .. arrived)
    /\ valid \in SUBSET Nat
    /\ arrived \in Nat
    /\ listed \in [Poller -> Row]
    /\ pc \in [Proc -> PC]
    /\ row \in [Proc -> Row]
    /\ from \in [Poller -> Nat]
    /\ upto \in [Poller -> Nat]
    /\ error \in [Proc -> Error]
    /\ failures \in [Poller -> 0 .. 3]
    /\ admin \in [Admin -> Request]
    /\ faults \in Nat
    /\ skipped \in SUBSET (1 .. arrived)
    /\ lapsed \in BOOLEAN

\* A channel that was just connected with its first credentials.
Init ==
    /\ status = "ACTIVE" /\ deleted = FALSE /\ creds = 1 /\ lease = "free" /\ cursor = 0
    /\ journal = {} /\ skipped = {}
    /\ valid = {1} /\ arrived = 0
    /\ listed = [p \in Poller |-> NoRow]
    /\ pc = [p \in Proc |-> "idle"]
    /\ row = [p \in Proc |-> NoRow]
    /\ from = [p \in Poller |-> 0]
    /\ upto = [p \in Poller |-> 0]
    /\ error = [p \in Proc |-> "none"]
    /\ failures = [p \in Poller |-> 0]
    /\ admin = [a \in Admin |-> NoRequest]
    /\ faults = 0
    /\ lapsed = FALSE

-----------------------------------------------------------------------------
Fault == faults < MaxFaults /\ faults' = faults + 1

CurrentRow == [status |-> status, creds |-> creds]

\* The poll or send is over.
Finish(p) == /\ pc' = [pc EXCEPT ![p] = "idle"]
             /\ row' = [row EXCEPT ![p] = NoRow]
             /\ error' = [error EXCEPT ![p] = "none"]
             /\ from' = [q \in Poller |-> IF q = p THEN 0 ELSE from[q]]
             /\ upto' = [q \in Poller |-> IF q = p THEN 0 ELSE upto[q]]

Throw(p, e) == /\ pc' = [pc EXCEPT ![p] = "failed"]
               /\ error' = [error EXCEPT ![p] = e]
               /\ UNCHANGED <<row, from, upto>>

-----------------------------------------------------------------------------
(* The provider *)

Arrive ==
    /\ arrived < MaxEvents
    /\ arrived' = arrived + 1
    /\ UNCHANGED <<rowVars, journal, valid, listed, callVars, admin, faults, skipped, lapsed>>

\* A token expires or is revoked, a password is changed.
Revoke(c) ==
    /\ c \in valid
    /\ valid' = valid \ {c}
    /\ UNCHANGED <<rowVars, journal, arrived, listed, callVars, admin, faults, skipped, lapsed>>

-----------------------------------------------------------------------------
(* ChannelPollingService *)

\* Mutant: only channels without a warning are polled.
DiscoverActive(p) ==
    /\ LET found == IF ~deleted /\ status = "ACTIVE" THEN CurrentRow ELSE NoRow
       IN listed[p] # found /\ listed' = [listed EXCEPT ![p] = found]
    /\ UNCHANGED <<rowVars, journal, providerVars, callVars, admin, faults, skipped, lapsed>>

\* tick refreshes the list of channels to poll.
Discover(p) ==
    /\ LET found == IF ~deleted /\ status \in {"ACTIVE", "ERROR"} THEN CurrentRow ELSE NoRow
       IN listed[p] # found /\ listed' = [listed EXCEPT ![p] = found]
    /\ UNCHANGED <<rowVars, journal, providerVars, callVars, admin, faults, skipped, lapsed>>

\* Mutant: the lease is written without looking at it.
TakeAnyLease(p) ==
    /\ pc[p] = "idle" /\ listed[p] # NoRow
    /\ ~deleted
    /\ lease' = "live"
    /\ pc' = [pc EXCEPT ![p] = "calling"]
    /\ row' = [row EXCEPT ![p] = listed[p]]
    /\ from' = [from EXCEPT ![p] = cursor]
    /\ UNCHANGED <<status, deleted, creds, cursor, journal, providerVars, listed, upto, error,
                   failures, admin, faults, skipped, lapsed>>

\* tick starts a poll of a listed channel, and pollChannel takes the lease.  The
\* poll goes on with the listed row; only the cursor is fresh.
TakeLease(p) ==
    /\ pc[p] = "idle" /\ listed[p] # NoRow
    /\ ~deleted /\ lease # "live"
    /\ lease' = "live"
    /\ pc' = [pc EXCEPT ![p] = "calling"]
    /\ row' = [row EXCEPT ![p] = listed[p]]
    /\ from' = [from EXCEPT ![p] = cursor]
    /\ UNCHANGED <<status, deleted, creds, cursor, journal, providerVars, listed, upto, error,
                   failures, admin, faults, skipped, lapsed>>

\* Mutant: the cursor moves past the newest event.
FetchPastEnd(p) ==
    /\ p \in Poller /\ pc[p] = "calling" /\ row[p].creds \in valid
    /\ upto' = [upto EXCEPT ![p] = arrived + 1]
    /\ pc' = [pc EXCEPT ![p] = "fetched"]
    /\ UNCHANGED <<rowVars, journal, providerVars, listed, row, from, error, failures, admin,
                   faults, skipped, lapsed>>

\* adapter.pollInbound returns the next events, not necessarily all of them.
Fetch(p) ==
    /\ p \in Poller /\ pc[p] = "calling" /\ row[p].creds \in valid
    /\ \E n \in from[p] .. arrived :
          /\ n = from[p] => arrived = from[p]
          /\ upto' = [upto EXCEPT ![p] = n]
    /\ pc' = [pc EXCEPT ![p] = "fetched"]
    /\ UNCHANGED <<rowVars, journal, providerVars, listed, row, from, error, failures, admin,
                   faults, skipped, lapsed>>

\* Mutant: the cursor is saved although the events may not be.
WritePollCursor(p) ==
    /\ journal' \in {journal, journal \cup (from[p] + 1 .. upto[p])}
    /\ cursor' = upto[p]
    /\ lease' = "free"
    /\ UNCHANGED <<status, deleted, creds>>

\* The transaction that journals the events, saves the cursor and ends the lease.
WritePoll(p) ==
    /\ journal' = journal \cup (from[p] + 1 .. upto[p])
    /\ cursor' = upto[p]
    /\ lease' = "free"
    /\ UNCHANGED <<status, deleted, creds>>

CommitPoll(p) ==
    /\ pc[p] = "fetched"
    /\ WritePoll(p)
    /\ pc' = [pc EXCEPT ![p] = "ok"]
    /\ UNCHANGED <<providerVars, listed, row, from, upto, error, failures, admin, faults,
                   skipped, lapsed>>

CommitThrows(p) ==
    /\ pc[p] = "fetched"
    /\ Fault
    /\ WritePoll(p) \/ UNCHANGED <<rowVars, journal>>
    /\ Throw(p, "retryable")
    /\ UNCHANGED <<providerVars, listed, failures, admin, skipped, lapsed>>

\* The catch block of pollChannel ends the lease, whoever holds it by now, and
\* counts the failure; repeated or permanent failures are recorded.
ReleaseLease(p) ==
    /\ p \in Poller /\ pc[p] = "failed"
    /\ \/ lease' = "free" /\ UNCHANGED faults
       \/ Fault /\ UNCHANGED lease
    /\ LET n == IF failures[p] = 3 THEN 3 ELSE failures[p] + 1 IN
       /\ failures' = [failures EXCEPT ![p] = n]
       /\ IF error[p] # "retryable" \/ n >= 3
          THEN pc' = [pc EXCEPT ![p] = "recording"] /\ UNCHANGED <<row, from, upto, error>>
          ELSE Finish(p)
    /\ UNCHANGED <<status, deleted, creds, cursor, journal, providerVars, listed, admin,
                   skipped, lapsed>>

ExpireLease ==
    /\ lease = "live"
    /\ lease' = "expired"
    /\ lapsed' = TRUE
    /\ UNCHANGED <<status, deleted, creds, cursor, journal, providerVars, listed, callVars,
                   admin, faults, skipped>>

\* The process dies; so it does when the lease statement or recordFailure throws,
\* because nothing handles the rejection of pollChannel.
Crash(p) ==
    /\ p \in Poller
    /\ Fault
    /\ Finish(p)
    /\ failures' = [failures EXCEPT ![p] = 0]
    /\ listed' = [listed EXCEPT ![p] = NoRow]
    /\ UNCHANGED <<rowVars, journal, providerVars, admin, skipped, lapsed>>

-----------------------------------------------------------------------------
(* OutboundDispatcherService.send, as far as the channel is concerned *)

StartSend(s) ==
    /\ pc[s] = "idle" /\ ~deleted
    /\ pc' = [pc EXCEPT ![s] = "calling"]
    /\ row' = [row EXCEPT ![s] = CurrentRow]
    /\ UNCHANGED <<rowVars, journal, providerVars, listed, from, upto, error, failures, admin,
                   faults, skipped, lapsed>>

SendAccepted(s) ==
    /\ s \in Sender /\ pc[s] = "calling" /\ row[s].creds \in valid
    /\ pc' = [pc EXCEPT ![s] = "ok"]
    /\ UNCHANGED <<rowVars, journal, providerVars, listed, row, from, upto, error, failures,
                   admin, faults, skipped, lapsed>>

\* The catch block of send: rejected credentials are recorded, and of the other
\* permanent errors a wrong configuration.
EndSend(s) ==
    /\ s \in Sender /\ pc[s] = "failed"
    /\ \/ /\ error[s] # "retryable"
          /\ pc' = [pc EXCEPT ![s] = "recording"]
          /\ UNCHANGED <<row, from, upto, error>>
       \/ error[s] # "reconnect" /\ Finish(s)
    /\ UNCHANGED <<rowVars, journal, providerVars, listed, failures, admin, faults, skipped, lapsed>>

\* fail or recordFailure throws out of the catch block.
SendThrows(s) ==
    /\ s \in Sender /\ pc[s] \in {"failed", "recording"}
    /\ Fault
    /\ Finish(s)
    /\ UNCHANGED <<rowVars, journal, providerVars, listed, failures, admin, skipped, lapsed>>

-----------------------------------------------------------------------------
(* Both *)

\* The provider rejects the credentials of the row that was read.
CallRejected(p) ==
    /\ pc[p] = "calling" /\ row[p].creds \notin valid
    /\ Throw(p, "reconnect")
    /\ UNCHANGED <<rowVars, journal, providerVars, listed, failures, admin, faults, skipped, lapsed>>

\* The provider is unreachable or refuses the call for another reason.
CallFails(p) ==
    /\ pc[p] = "calling"
    /\ Fault
    /\ \E e \in {"retryable", "other"} : Throw(p, e)
    /\ UNCHANGED <<rowVars, journal, providerVars, listed, failures, admin, skipped, lapsed>>

\* Mutant: a success leaves the warning.
RecordSuccessKeeps(p) ==
    /\ pc[p] = "ok"
    /\ Finish(p)
    /\ failures' = [q \in Poller |-> IF q = p THEN 0 ELSE failures[q]]
    /\ UNCHANGED <<rowVars, journal, providerVars, listed, admin, faults, skipped, lapsed>>

\* ChannelHealthRecorder.recordSuccess.
RecordSuccess(p) ==
    /\ pc[p] = "ok"
    /\ status' = IF row[p].status = "ERROR" /\ status = "ERROR" THEN "ACTIVE" ELSE status
    /\ Finish(p)
    /\ failures' = [q \in Poller |-> IF q = p THEN 0 ELSE failures[q]]
    /\ UNCHANGED <<deleted, creds, lease, cursor, journal, providerVars, listed, admin, faults,
                   skipped, lapsed>>

\* It throws, after the events were journaled or the reply was sent.
RecordSuccessThrows(p) ==
    /\ pc[p] = "ok" /\ row[p].status = "ERROR"
    /\ Fault
    /\ Throw(p, "retryable")
    /\ UNCHANGED <<rowVars, journal, providerVars, listed, failures, admin, skipped, lapsed>>

\* ChannelHealthRecorder.recordFailure: the guard looks at the row that was read,
\* the update is by id only.
RecordFailure(p) ==
    /\ pc[p] = "recording"
    /\ LET new == IF error[p] = "reconnect" THEN "DISCONNECTED" ELSE "ERROR" IN
       status' = IF row[p].status = "DISCONNECTED" /\ new = "ERROR" THEN status ELSE new
    /\ Finish(p)
    /\ UNCHANGED <<deleted, creds, lease, cursor, journal, providerVars, listed, failures, admin,
                   faults, skipped, lapsed>>

-----------------------------------------------------------------------------
(* ChannelsService *)

\* findRow for reconnect, test and remove; for create the account is verified,
\* which returns the newest event as the initial cursor, and its row is deleted.
ReadRow(a, op) ==
    /\ admin[a] = NoRequest /\ deleted = (op = "create")
    /\ admin' = [admin EXCEPT ![a] =
          [op |-> op, creds |-> IF op = "test" THEN creds ELSE 0,
           cursor |-> IF op = "create" THEN arrived ELSE 0, outcome |-> "none"]]
    /\ UNCHANGED <<rowVars, journal, providerVars, listed, callVars, faults, skipped, lapsed>>

\* Credentials that do not verify, and every other error, end a request.
RequestFails(a) ==
    /\ admin[a] # NoRequest
    /\ admin' = [admin EXCEPT ![a] = NoRequest]
    /\ UNCHANGED <<rowVars, journal, providerVars, listed, callVars, faults, skipped, lapsed>>

\* reconnect: the new credentials were verified, the update is by id only.
Reconnect(a) ==
    /\ admin[a].op = "reconnect" /\ creds < MaxCreds
    /\ creds' = creds + 1
    /\ valid' = valid \cup {creds + 1}
    /\ status' = "ACTIVE"
    /\ admin' = [admin EXCEPT ![a] = NoRequest]
    /\ UNCHANGED <<deleted, lease, cursor, journal, arrived, listed, callVars, faults, skipped, lapsed>>

\* test: adapter.healthCheck answers ...
HealthCheck(a) ==
    /\ admin[a].op = "test" /\ admin[a].outcome = "none"
    /\ \/ /\ admin[a].creds \in valid
          /\ admin' = [admin EXCEPT ![a].outcome = "ACTIVE"]
          /\ UNCHANGED faults
       \/ /\ admin[a].creds \notin valid
          /\ admin' = [admin EXCEPT ![a].outcome = "DISCONNECTED"]
          /\ UNCHANGED faults
       \/ /\ Fault
          /\ admin' = [admin EXCEPT ![a].outcome = "ERROR"]
    /\ UNCHANGED <<rowVars, journal, providerVars, listed, callVars, skipped, lapsed>>

\* ... and the answer is written by id only.
TestWrite(a) ==
    /\ admin[a].op = "test" /\ admin[a].outcome # "none"
    /\ status' = admin[a].outcome
    /\ admin' = [admin EXCEPT ![a] = NoRequest]
    /\ UNCHANGED <<deleted, creds, lease, cursor, journal, providerVars, listed, callVars, faults,
                   skipped, lapsed>>

Remove(a) ==
    /\ admin[a].op = "remove"
    /\ deleted' = TRUE
    /\ status' = "INACTIVE"
    /\ lapsed' = (lapsed \/ lease # "free")
    /\ lease' = "free"
    /\ admin' = [admin EXCEPT ![a] = NoRequest]
    /\ UNCHANGED <<creds, cursor, journal, providerVars, listed, callVars, faults, skipped>>

\* create revives the row that was deleted when it looked, and the cursor starts
\* after the event that was then the newest.
Create(a) ==
    /\ admin[a].op = "create" /\ creds < MaxCreds
    /\ deleted' = FALSE
    /\ status' = "ACTIVE"
    /\ creds' = creds + 1
    /\ valid' = valid \cup {creds + 1}
    /\ cursor' = admin[a].cursor
    /\ skipped' = skipped \cup (cursor + 1 .. admin[a].cursor)
    /\ admin' = [admin EXCEPT ![a] = NoRequest]
    /\ UNCHANGED <<lease, journal, arrived, listed, callVars, faults, lapsed>>

-----------------------------------------------------------------------------
PollStep(p) ==
    \/ Discover(p) \/ TakeLease(p) \/ Fetch(p) \/ CommitPoll(p) \/ CommitThrows(p)
    \/ ReleaseLease(p) \/ Crash(p)

SendStep(s) == StartSend(s) \/ SendAccepted(s) \/ EndSend(s) \/ SendThrows(s)

CallStep(p) ==
    \/ CallRejected(p) \/ CallFails(p)
    \/ RecordSuccess(p) \/ RecordSuccessThrows(p) \/ RecordFailure(p)

AdminStep(a) ==
    \/ \E op \in Operation : ReadRow(a, op)
    \/ Reconnect(a) \/ HealthCheck(a) \/ TestWrite(a) \/ Remove(a) \/ Create(a)
    \/ RequestFails(a)

Next ==
    \/ Arrive \/ ExpireLease
    \/ \E c \in 1 .. MaxCreds : Revoke(c)
    \/ \E p \in Poller : PollStep(p)
    \/ \E s \in Sender : SendStep(s)
    \/ \E p \in Proc : CallStep(p)
    \/ \E a \in Admin : AdminStep(a)

\* The timers and promises of the pollers go on, and time passes.
Fairness ==
    /\ \A p \in Poller :
         /\ WF_vars(Discover(p)) /\ SF_vars(TakeLease(p))
         /\ WF_vars(Fetch(p)) /\ WF_vars(CommitPoll(p)) /\ WF_vars(ReleaseLease(p))
         /\ WF_vars(CallRejected(p)) /\ WF_vars(RecordSuccess(p)) /\ WF_vars(RecordFailure(p))
    /\ WF_vars(ExpireLease)

Spec == Init /\ [][Next]_vars
FairSpec == Spec /\ Fairness

-----------------------------------------------------------------------------
(* Properties *)

\* Every event the cursor has passed is in the journal, or is older than the
\* channel: lost commits, overlapping polls with old cursors, a removal and a
\* revival in the middle of a poll never make the channel skip an event.
CursorCovers == 1 .. cursor \subseteq journal \cup skipped

\* The cursor moves back (and events are fetched again) only after a lease ran
\* out, was removed with the channel, or a call failed (one administrator at a time).
CursorBackNeedsLapse == [][cursor' < cursor => lapsed \/ faults > 0]_vars

\* An event of a channel that stays connected reaches the journal.
InboundArrives ==
    \A n \in 1 .. MaxEvents :
        arrived >= n ~> n \in journal \cup skipped \/ deleted \/ status = "DISCONNECTED"

\* A warning does not outlive its cause ("the next success clears it",
\* channel-health.service.ts).
WarningClears == status = "ERROR" /\ ~deleted ~> status # "ERROR" \/ deleted

\* "A channel marked Reconnect has credentials the provider no longer accepts"
\* (docs/channel-setup-guide.md).
DisconnectedIsDeserved == status = "DISCONNECTED" => creds \notin valid

\* "A reconnect requirement is never downgraded to a plain warning"
\* (recordFailure).
NeverDowngraded == [][status = "DISCONNECTED" => status' # "ERROR"]_status
=============================================================================
