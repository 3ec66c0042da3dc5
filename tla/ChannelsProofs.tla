--------------------------- MODULE ChannelsProofs ---------------------------
(***************************************************************************)
(* Proofs about a polled channel (module Channels), for any number of      *)
(* pollers, senders, administrators, events, credentials and faults.       *)
(*                                                                         *)
(* CursorCovers is not inductive: a poll saves the cursor it computed from *)
(* the one its lease returned, possibly long after other polls, a removal  *)
(* or a revival moved the stored cursor.  FromCovers says the same of the  *)
(* cursor in the hands of every poll, and WithinArrived that what a poll   *)
(* or a create request brings back is not ahead of the provider.           *)
(***************************************************************************)
EXTENDS Channels, TLAPS

Covered == journal \cup skipped

FromCovers == \A p \in Poller : 1 .. from[p] \subseteq Covered

WithinArrived ==
    /\ \A p \in Poller : upto[p] <= arrived
    /\ \A a \in Admin : admin[a].cursor <= arrived

IndInv == TypeOK /\ WithinArrived /\ FromCovers /\ CursorCovers

-----------------------------------------------------------------------------
\* Consecutive intervals, in the form the saving of a cursor needs.
LEMMA IntervalSplit ==
    ASSUME NEW m \in Nat, NEW n \in Nat
    PROVE  1 .. n \subseteq (1 .. m) \cup (m + 1 .. n)
  OBVIOUS

\* An interval below a bound.
LEMMA IntervalWithin ==
    ASSUME NEW m \in Nat, NEW n \in Nat, NEW k \in Nat, n <= k
    PROVE  m + 1 .. n \subseteq 1 .. k
  OBVIOUS

\* A poll that ends leaves its variables in their types and asks for nothing.
LEMMA FinishType ==
    ASSUME TypeOK, NEW p \in Proc, Finish(p)
    PROVE  /\ pc' \in [Proc -> PC] /\ row' \in [Proc -> Row] /\ error' \in [Proc -> Error]
           /\ from' \in [Poller -> Nat] /\ upto' \in [Poller -> Nat]
           /\ \A q \in Poller : from'[q] \in {0, from[q]} /\ upto'[q] \in {0, upto[q]}
  BY DEF TypeOK, Finish, PC, Row, Status, NoRow, Error

\* A call that throws only notes the error.
LEMMA ThrowType ==
    ASSUME TypeOK, NEW p \in Proc, NEW e \in Error, Throw(p, e)
    PROVE  /\ pc' \in [Proc -> PC] /\ error' \in [Proc -> Error]
           /\ row' = row /\ from' = from /\ upto' = upto
  BY DEF TypeOK, Throw, PC, Error

\* The channel starts in the invariant.
LEMMA InitInd == Init => IndInv
  <1>1. ASSUME Init PROVE TypeOK
    <2>1. /\ NoRow \in Row /\ "idle" \in PC /\ "none" \in Error /\ NoRequest \in Request
      BY DEF NoRow, Row, Status, PC, Error, NoRequest, Request, Operation, Outcome
    <2>2. /\ listed \in [Poller -> Row] /\ pc \in [Proc -> PC] /\ row \in [Proc -> Row]
          /\ error \in [Proc -> Error] /\ admin \in [Admin -> Request]
      BY <1>1, <2>1 DEF Init
    <2>3. /\ from \in [Poller -> Nat] /\ upto \in [Poller -> Nat]
          /\ failures \in [Poller -> 0 .. 3]
      BY <1>1 DEF Init
    <2>4. deleted \in BOOLEAN /\ lapsed \in BOOLEAN
      BY <1>1 DEF Init
    <2>5. /\ creds \in Nat /\ cursor \in Nat /\ valid \in SUBSET Nat /\ arrived \in Nat
          /\ faults \in Nat
      BY <1>1 DEF Init
    <2>6. journal \in SUBSET (1 .. arrived) /\ skipped \in SUBSET (1 .. arrived)
      BY <1>1 DEF Init
    <2>7. status \in Status /\ lease \in {"free", "live", "expired"}
      BY <1>1 DEF Init, Status
    <2>8. QED BY <2>2, <2>3, <2>4, <2>5, <2>6, <2>7 DEF TypeOK
  <1>2. ASSUME Init PROVE WithinArrived /\ FromCovers /\ CursorCovers
    BY <1>2 DEF Init, WithinArrived, FromCovers, CursorCovers, Covered, NoRequest
  <1>3. QED BY <1>1, <1>2 DEF IndInv

-----------------------------------------------------------------------------
(* One lemma per action: it keeps every part of the invariant. *)

\* Arrive: a new event only raises the bound.
LEMMA ArriveInd ==
    ASSUME IndInv, Arrive
    PROVE  IndInv'
  <1>f. arrived' \in Nat /\ 1 .. arrived \subseteq 1 .. arrived'
    BY DEF IndInv, TypeOK, Arrive
  <1>g. journal' \in SUBSET (1 .. arrived') /\ skipped' \in SUBSET (1 .. arrived')
    BY <1>f DEF IndInv, TypeOK, Arrive
  <1>h. UNCHANGED <<rowVars, valid, listed, callVars, admin, faults, lapsed>>
    BY DEF Arrive
  <1>1. TypeOK'
    BY <1>f, <1>g, <1>h DEF IndInv, TypeOK, rowVars, callVars
  <1>2. WithinArrived'
    BY <1>f, <1>g DEF IndInv, TypeOK, Request, Arrive, rowVars, callVars, WithinArrived
  <1>3. FromCovers' /\ CursorCovers'
    BY <1>f, <1>g DEF IndInv, TypeOK, FromCovers, CursorCovers, Covered, Arrive,
       rowVars, callVars
  <1>4. QED BY <1>1, <1>2, <1>3 DEF IndInv

\* ExpireLease: only the lease and its history change.
LEMMA ExpireLeaseInd ==
    ASSUME IndInv, ExpireLease
    PROVE  IndInv'
  <1>1. TypeOK'
    BY DEF IndInv, TypeOK, ExpireLease, providerVars, callVars
  <1>2. WithinArrived'
    BY DEF IndInv, TypeOK, ExpireLease, providerVars, callVars, WithinArrived
  <1>3. FromCovers' /\ CursorCovers'
    BY DEF IndInv, TypeOK, FromCovers, CursorCovers, Covered, ExpireLease, providerVars,
       callVars
  <1>4. QED BY <1>1, <1>2, <1>3 DEF IndInv

\* Revoke: only the provider's view of a credential changes.
LEMMA RevokeInd ==
    ASSUME IndInv, NEW c \in 1 .. MaxCreds, Revoke(c)
    PROVE  IndInv'
  <1>1. TypeOK'
    BY DEF IndInv, TypeOK, Revoke, rowVars, callVars
  <1>2. WithinArrived'
    BY DEF IndInv, TypeOK, Revoke, rowVars, callVars, WithinArrived
  <1>3. FromCovers' /\ CursorCovers'
    BY DEF IndInv, TypeOK, FromCovers, CursorCovers, Covered, Revoke, rowVars, callVars
  <1>4. QED BY <1>1, <1>2, <1>3 DEF IndInv

\* Discover: only the list of one poller changes.
LEMMA DiscoverInd ==
    ASSUME IndInv, NEW p \in Poller, Discover(p)
    PROVE  IndInv'
  <1>a. p \in Proc BY DEF Proc
  <1>1. TypeOK'
    BY <1>a DEF IndInv, TypeOK, Row, Status, NoRow, CurrentRow, Discover, rowVars,
       providerVars, callVars
  <1>2. WithinArrived'
    BY <1>a DEF IndInv, TypeOK, Row, Status, NoRow, CurrentRow, Discover, rowVars,
       providerVars, callVars, WithinArrived
  <1>3. FromCovers' /\ CursorCovers'
    BY <1>a DEF IndInv, TypeOK, FromCovers, CursorCovers, Covered, Discover, rowVars,
       providerVars, callVars
  <1>4. QED BY <1>1, <1>2, <1>3 DEF IndInv

\* TakeLease: the poll takes the stored cursor, which is covered.
LEMMA TakeLeaseInd ==
    ASSUME IndInv, NEW p \in Poller, TakeLease(p)
    PROVE  IndInv'
  <1>a. p \in Proc BY DEF Proc
  <1>1. TypeOK'
    BY <1>a DEF IndInv, TypeOK, Row, Status, NoRow, CurrentRow, PC, TakeLease, providerVars
  <1>2. WithinArrived'
    BY <1>a DEF IndInv, TypeOK, Row, Status, NoRow, CurrentRow, PC, TakeLease,
       providerVars, WithinArrived
  <1>3. FromCovers' /\ CursorCovers'
    BY <1>a DEF IndInv, TypeOK, FromCovers, CursorCovers, Covered, TakeLease, providerVars
  <1>4. QED BY <1>1, <1>2, <1>3 DEF IndInv

\* Fetch: the provider returns a cursor no newer than its newest event.
LEMMA FetchInd ==
    ASSUME IndInv, NEW p \in Poller, Fetch(p)
    PROVE  IndInv'
  <1>a. p \in Proc BY DEF Proc
  <1>1. TypeOK'
    BY <1>a DEF IndInv, TypeOK, PC, Fetch, rowVars, providerVars
  <1>2. WithinArrived'
    BY <1>a DEF IndInv, TypeOK, PC, Fetch, rowVars, providerVars, WithinArrived
  <1>3. FromCovers' /\ CursorCovers'
    BY <1>a DEF IndInv, TypeOK, FromCovers, CursorCovers, Covered, Fetch, rowVars,
       providerVars
  <1>4. QED BY <1>1, <1>2, <1>3 DEF IndInv

\* CommitPoll: events and cursor are saved together.
LEMMA CommitPollInd ==
    ASSUME IndInv, NEW p \in Poller, CommitPoll(p)
    PROVE  IndInv'
  <1>a. p \in Proc BY DEF Proc
  <1>w. WritePoll(p)
    BY DEF CommitPoll
  <1>t. journal' \in SUBSET (1 .. arrived) /\ cursor' \in Nat /\ lease' \in {"free",
     "live", "expired"}
    <2>1. from[p] + 1 .. upto[p] \subseteq 1 .. arrived
      BY IntervalWithin DEF IndInv, TypeOK, WithinArrived
    <2>2. QED BY <1>w, <2>1 DEF IndInv, TypeOK, WritePoll, rowVars
  <1>v. /\ Covered \subseteq Covered'
        /\ 1 .. cursor' \subseteq Covered'
    <2>0. skipped' = skipped BY DEF CommitPoll
    <2>1. CASE WritePoll(p)
      <3>1. 1 .. upto[p] \subseteq (1 .. from[p]) \cup (from[p] + 1 .. upto[p])
        BY IntervalSplit DEF IndInv, TypeOK
      <3>2. QED BY <2>0, <2>1, <3>1 DEF IndInv, FromCovers, Covered, WritePoll
    <2>2. CASE UNCHANGED <<rowVars, journal>>
      BY <2>0, <2>2 DEF IndInv, CursorCovers, Covered, rowVars
    <2>3. QED BY <1>w, <2>1, <2>2
  <1>1. TypeOK'
    BY <1>a, <1>t, <1>w DEF IndInv, TypeOK, PC, CommitPoll, providerVars, WritePoll,
       WithinArrived
  <1>2. WithinArrived'
    BY <1>a, <1>t, <1>w DEF IndInv, TypeOK, PC, CommitPoll, providerVars, WithinArrived,
       WritePoll
  <1>3. FromCovers' /\ CursorCovers'
    BY <1>a, <1>t, <1>w, <1>v DEF IndInv, FromCovers, CursorCovers, Covered, CommitPoll
  <1>4. QED BY <1>1, <1>2, <1>3 DEF IndInv

\* CommitThrows: the transaction is applied as a whole or not at all.
LEMMA CommitThrowsInd ==
    ASSUME IndInv, NEW p \in Poller, CommitThrows(p)
    PROVE  IndInv'
  <1>a. p \in Proc BY DEF Proc
  <1>b. /\ pc' \in [Proc -> PC] /\ error' \in [Proc -> Error]
        /\ row' = row /\ from' = from /\ upto' = upto
    BY <1>a, ThrowType DEF IndInv, CommitThrows, Error
  <1>w. WritePoll(p) \/ UNCHANGED <<rowVars, journal>>
    BY DEF CommitThrows
  <1>t. journal' \in SUBSET (1 .. arrived) /\ cursor' \in Nat /\ lease' \in {"free",
     "live", "expired"}
    <2>1. from[p] + 1 .. upto[p] \subseteq 1 .. arrived
      BY IntervalWithin DEF IndInv, TypeOK, WithinArrived
    <2>2. QED BY <1>w, <2>1 DEF IndInv, TypeOK, WritePoll, rowVars
  <1>v. /\ Covered \subseteq Covered'
        /\ 1 .. cursor' \subseteq Covered'
    <2>0. skipped' = skipped BY DEF CommitThrows
    <2>1. CASE WritePoll(p)
      <3>1. 1 .. upto[p] \subseteq (1 .. from[p]) \cup (from[p] + 1 .. upto[p])
        BY IntervalSplit DEF IndInv, TypeOK
      <3>2. QED BY <2>0, <2>1, <3>1 DEF IndInv, FromCovers, Covered, WritePoll
    <2>2. CASE UNCHANGED <<rowVars, journal>>
      BY <2>0, <2>2 DEF IndInv, CursorCovers, Covered, rowVars
    <2>3. QED BY <1>w, <2>1, <2>2
  <1>1. TypeOK'
    BY <1>a, <1>b, <1>t, <1>w DEF IndInv, TypeOK, CommitThrows, rowVars, providerVars,
       Fault, WritePoll, WithinArrived
  <1>2. WithinArrived'
    BY <1>a, <1>b, <1>t, <1>w DEF IndInv, TypeOK, CommitThrows, rowVars, providerVars,
       Fault, WithinArrived, WritePoll
  <1>3. FromCovers' /\ CursorCovers'
    BY <1>a, <1>b, <1>t, <1>w, <1>v DEF IndInv, FromCovers, CursorCovers, Covered,
       CommitThrows
  <1>4. QED BY <1>1, <1>2, <1>3 DEF IndInv

\* ReleaseLease: the poll ends or goes on to record, the cursor stays.
LEMMA ReleaseLeaseInd ==
    ASSUME IndInv, NEW p \in Poller, ReleaseLease(p)
    PROVE  IndInv'
  <1>a. p \in Proc BY DEF Proc
  <1>b. /\ pc' \in [Proc -> PC] /\ row' \in [Proc -> Row] /\ error' \in [Proc -> Error]
        /\ from' \in [Poller -> Nat] /\ upto' \in [Poller -> Nat]
        /\ \A q \in Poller : from'[q] \in {0, from[q]} /\ upto'[q] \in {0, upto[q]}
    <2>1. CASE Finish(p)
      BY <2>1, <1>a, FinishType DEF IndInv
    <2>2. CASE pc' = [pc EXCEPT ![p] = "recording"] /\ UNCHANGED <<row, from, upto, error>>
      BY <2>2, <1>a DEF IndInv, TypeOK, PC
    <2>3. QED BY <2>1, <2>2 DEF ReleaseLease
  <1>f. /\ failures' \in [Poller -> 0 .. 3] /\ faults' \in Nat
        /\ lease' \in {"free", "live", "expired"}
    BY DEF IndInv, TypeOK, ReleaseLease, Fault
  <1>1. TypeOK'
    BY <1>a, <1>b, <1>f DEF IndInv, TypeOK, ReleaseLease, providerVars, Fault
  <1>2. WithinArrived'
    <2>1. arrived' = arrived /\ admin' = admin BY DEF ReleaseLease, providerVars, Fault
    <2>2. arrived \in Nat BY DEF IndInv, TypeOK
    <2>3. QED BY <1>b, <2>1, <2>2 DEF IndInv, WithinArrived
  <1>3. FromCovers' /\ CursorCovers'
    BY <1>a, <1>b, <1>f DEF IndInv, TypeOK, FromCovers, CursorCovers, Covered,
       ReleaseLease, providerVars, Fault
  <1>4. QED BY <1>1, <1>2, <1>3 DEF IndInv

\* Crash: the poll is forgotten, the row stays.
LEMMA CrashInd ==
    ASSUME IndInv, NEW p \in Poller, Crash(p)
    PROVE  IndInv'
  <1>a. p \in Proc BY DEF Proc
  <1>b. /\ pc' \in [Proc -> PC] /\ row' \in [Proc -> Row] /\ error' \in [Proc -> Error]
        /\ from' \in [Poller -> Nat] /\ upto' \in [Poller -> Nat]
        /\ \A q \in Poller : from'[q] \in {0, from[q]} /\ upto'[q] \in {0, upto[q]}
    BY <1>a, FinishType DEF IndInv, Crash
  <1>f. failures' \in [Poller -> 0 .. 3] /\ faults' \in Nat
    BY DEF IndInv, TypeOK, Crash, Fault
  <1>g. listed' \in [Poller -> Row]
    BY DEF IndInv, TypeOK, Crash, Row, NoRow, Status
  <1>1. TypeOK'
    BY <1>a, <1>b, <1>f, <1>g DEF IndInv, TypeOK, Crash, rowVars, providerVars, Fault
  <1>2. WithinArrived'
    <2>1. arrived' = arrived /\ admin' = admin BY DEF Crash, rowVars, providerVars, Fault
    <2>2. arrived \in Nat BY DEF IndInv, TypeOK
    <2>3. QED BY <1>b, <2>1, <2>2 DEF IndInv, WithinArrived
  <1>3. FromCovers' /\ CursorCovers'
    BY <1>a, <1>b, <1>f, <1>g DEF IndInv, TypeOK, FromCovers, CursorCovers, Covered,
       Crash, rowVars, providerVars, Fault
  <1>4. QED BY <1>1, <1>2, <1>3 DEF IndInv

\* StartSend: a send reads the row.
LEMMA StartSendInd ==
    ASSUME IndInv, NEW p \in Sender, StartSend(p)
    PROVE  IndInv'
  <1>a. p \in Proc BY DEF Proc
  <1>1. TypeOK'
    BY <1>a DEF IndInv, TypeOK, Row, Status, NoRow, CurrentRow, PC, StartSend, rowVars,
       providerVars
  <1>2. WithinArrived'
    BY <1>a DEF IndInv, TypeOK, Row, Status, NoRow, CurrentRow, PC, StartSend, rowVars,
       providerVars, WithinArrived
  <1>3. FromCovers' /\ CursorCovers'
    BY <1>a DEF IndInv, TypeOK, FromCovers, CursorCovers, Covered, StartSend, rowVars,
       providerVars
  <1>4. QED BY <1>1, <1>2, <1>3 DEF IndInv

\* SendAccepted: the provider accepts a reply.
LEMMA SendAcceptedInd ==
    ASSUME IndInv, NEW p \in Sender, SendAccepted(p)
    PROVE  IndInv'
  <1>a. p \in Proc BY DEF Proc
  <1>1. TypeOK'
    BY <1>a DEF IndInv, TypeOK, PC, SendAccepted, rowVars, providerVars
  <1>2. WithinArrived'
    BY <1>a DEF IndInv, TypeOK, PC, SendAccepted, rowVars, providerVars, WithinArrived
  <1>3. FromCovers' /\ CursorCovers'
    BY <1>a DEF IndInv, TypeOK, FromCovers, CursorCovers, Covered, SendAccepted,
       rowVars, providerVars
  <1>4. QED BY <1>1, <1>2, <1>3 DEF IndInv

\* EndSend: a failed send ends or goes on to record.
LEMMA EndSendInd ==
    ASSUME IndInv, NEW p \in Sender, EndSend(p)
    PROVE  IndInv'
  <1>a. p \in Proc BY DEF Proc
  <1>b. /\ pc' \in [Proc -> PC] /\ row' \in [Proc -> Row] /\ error' \in [Proc -> Error]
        /\ from' \in [Poller -> Nat] /\ upto' \in [Poller -> Nat]
        /\ \A q \in Poller : from'[q] \in {0, from[q]} /\ upto'[q] \in {0, upto[q]}
    <2>1. CASE Finish(p)
      BY <2>1, <1>a, FinishType DEF IndInv
    <2>2. CASE pc' = [pc EXCEPT ![p] = "recording"] /\ UNCHANGED <<row, from, upto, error>>
      BY <2>2, <1>a DEF IndInv, TypeOK, PC
    <2>3. QED BY <2>1, <2>2 DEF EndSend
  <1>1. TypeOK'
    BY <1>a, <1>b DEF IndInv, TypeOK, EndSend, rowVars, providerVars
  <1>2. WithinArrived'
    <2>1. arrived' = arrived /\ admin' = admin BY DEF EndSend, rowVars, providerVars
    <2>2. arrived \in Nat BY DEF IndInv, TypeOK
    <2>3. QED BY <1>b, <2>1, <2>2 DEF IndInv, WithinArrived
  <1>3. FromCovers' /\ CursorCovers'
    BY <1>a, <1>b DEF IndInv, TypeOK, FromCovers, CursorCovers, Covered, EndSend,
       rowVars, providerVars
  <1>4. QED BY <1>1, <1>2, <1>3 DEF IndInv

\* SendThrows: a failed send is given up.
LEMMA SendThrowsInd ==
    ASSUME IndInv, NEW p \in Sender, SendThrows(p)
    PROVE  IndInv'
  <1>a. p \in Proc BY DEF Proc
  <1>b. /\ pc' \in [Proc -> PC] /\ row' \in [Proc -> Row] /\ error' \in [Proc -> Error]
        /\ from' \in [Poller -> Nat] /\ upto' \in [Poller -> Nat]
        /\ \A q \in Poller : from'[q] \in {0, from[q]} /\ upto'[q] \in {0, upto[q]}
    BY <1>a, FinishType DEF IndInv, SendThrows
  <1>1. TypeOK'
    BY <1>a, <1>b DEF IndInv, TypeOK, SendThrows, rowVars, providerVars, Fault
  <1>2. WithinArrived'
    <2>1. arrived' = arrived /\ admin' = admin BY DEF SendThrows, rowVars, providerVars,
       Fault
    <2>2. arrived \in Nat BY DEF IndInv, TypeOK
    <2>3. QED BY <1>b, <2>1, <2>2 DEF IndInv, WithinArrived
  <1>3. FromCovers' /\ CursorCovers'
    BY <1>a, <1>b DEF IndInv, TypeOK, FromCovers, CursorCovers, Covered, SendThrows,
       rowVars, providerVars, Fault
  <1>4. QED BY <1>1, <1>2, <1>3 DEF IndInv

\* CallRejected: only the error is noted.
LEMMA CallRejectedInd ==
    ASSUME IndInv, NEW p \in Proc, CallRejected(p)
    PROVE  IndInv'
  <1>a. p \in Proc OBVIOUS
  <1>b. /\ pc' \in [Proc -> PC] /\ error' \in [Proc -> Error]
        /\ row' = row /\ from' = from /\ upto' = upto
    BY <1>a, ThrowType DEF IndInv, CallRejected, Error
  <1>1. TypeOK'
    BY <1>a, <1>b DEF IndInv, TypeOK, CallRejected, rowVars, providerVars
  <1>2. WithinArrived'
    BY <1>a, <1>b DEF IndInv, TypeOK, CallRejected, rowVars, providerVars, WithinArrived
  <1>3. FromCovers' /\ CursorCovers'
    BY <1>a, <1>b DEF IndInv, TypeOK, FromCovers, CursorCovers, Covered, CallRejected,
       rowVars, providerVars
  <1>4. QED BY <1>1, <1>2, <1>3 DEF IndInv

\* CallFails: only the error is noted.
LEMMA CallFailsInd ==
    ASSUME IndInv, NEW p \in Proc, CallFails(p)
    PROVE  IndInv'
  <1>a. p \in Proc OBVIOUS
  <1>c. PICK e \in {"retryable", "other"} : Throw(p, e) BY DEF CallFails
  <1>b. /\ pc' \in [Proc -> PC] /\ error' \in [Proc -> Error]
        /\ row' = row /\ from' = from /\ upto' = upto
    BY <1>c, <1>a, ThrowType DEF IndInv, Error
  <1>1. TypeOK'
    BY <1>a, <1>b DEF IndInv, TypeOK, CallFails, rowVars, providerVars, Fault
  <1>2. WithinArrived'
    BY <1>a, <1>b DEF IndInv, TypeOK, CallFails, rowVars, providerVars, Fault, WithinArrived
  <1>3. FromCovers' /\ CursorCovers'
    BY <1>a, <1>b DEF IndInv, TypeOK, FromCovers, CursorCovers, Covered, CallFails,
       rowVars, providerVars, Fault
  <1>4. QED BY <1>1, <1>2, <1>3 DEF IndInv

\* RecordSuccess: the status may change, the cursor does not.
LEMMA RecordSuccessInd ==
    ASSUME IndInv, NEW p \in Proc, RecordSuccess(p)
    PROVE  IndInv'
  <1>a. p \in Proc OBVIOUS
  <1>b. /\ pc' \in [Proc -> PC] /\ row' \in [Proc -> Row] /\ error' \in [Proc -> Error]
        /\ from' \in [Poller -> Nat] /\ upto' \in [Poller -> Nat]
        /\ \A q \in Poller : from'[q] \in {0, from[q]} /\ upto'[q] \in {0, upto[q]}
    BY <1>a, FinishType DEF IndInv, RecordSuccess
  <1>1. TypeOK'
    BY <1>a, <1>b DEF IndInv, TypeOK, Status, RecordSuccess, providerVars
  <1>2. WithinArrived'
    <2>1. arrived' = arrived /\ admin' = admin BY DEF RecordSuccess, providerVars
    <2>2. arrived \in Nat BY DEF IndInv, TypeOK
    <2>3. QED BY <1>b, <2>1, <2>2 DEF IndInv, WithinArrived
  <1>3. FromCovers' /\ CursorCovers'
    BY <1>a, <1>b DEF IndInv, TypeOK, FromCovers, CursorCovers, Covered, RecordSuccess,
       providerVars
  <1>4. QED BY <1>1, <1>2, <1>3 DEF IndInv

\* RecordSuccessThrows: the journaled events stay.
LEMMA RecordSuccessThrowsInd ==
    ASSUME IndInv, NEW p \in Proc, RecordSuccessThrows(p)
    PROVE  IndInv'
  <1>a. p \in Proc OBVIOUS
  <1>b. /\ pc' \in [Proc -> PC] /\ error' \in [Proc -> Error]
        /\ row' = row /\ from' = from /\ upto' = upto
    BY <1>a, ThrowType DEF IndInv, RecordSuccessThrows, Error
  <1>1. TypeOK'
    BY <1>a, <1>b DEF IndInv, TypeOK, RecordSuccessThrows, rowVars, providerVars, Fault
  <1>2. WithinArrived'
    BY <1>a, <1>b DEF IndInv, TypeOK, RecordSuccessThrows, rowVars, providerVars, Fault,
       WithinArrived
  <1>3. FromCovers' /\ CursorCovers'
    BY <1>a, <1>b DEF IndInv, TypeOK, FromCovers, CursorCovers, Covered,
       RecordSuccessThrows, rowVars, providerVars, Fault
  <1>4. QED BY <1>1, <1>2, <1>3 DEF IndInv

\* RecordFailure: the status changes, the cursor does not.
LEMMA RecordFailureInd ==
    ASSUME IndInv, NEW p \in Proc, RecordFailure(p)
    PROVE  IndInv'
  <1>a. p \in Proc OBVIOUS
  <1>b. /\ pc' \in [Proc -> PC] /\ row' \in [Proc -> Row] /\ error' \in [Proc -> Error]
        /\ from' \in [Poller -> Nat] /\ upto' \in [Poller -> Nat]
        /\ \A q \in Poller : from'[q] \in {0, from[q]} /\ upto'[q] \in {0, upto[q]}
    BY <1>a, FinishType DEF IndInv, RecordFailure
  <1>1. TypeOK'
    BY <1>a, <1>b DEF IndInv, TypeOK, Status, RecordFailure, providerVars
  <1>2. WithinArrived'
    <2>1. arrived' = arrived /\ admin' = admin BY DEF RecordFailure, providerVars
    <2>2. arrived \in Nat BY DEF IndInv, TypeOK
    <2>3. QED BY <1>b, <2>1, <2>2 DEF IndInv, WithinArrived
  <1>3. FromCovers' /\ CursorCovers'
    BY <1>a, <1>b DEF IndInv, TypeOK, FromCovers, CursorCovers, Covered, RecordFailure,
       providerVars
  <1>4. QED BY <1>1, <1>2, <1>3 DEF IndInv

\* ReadRow: a create request takes the newest event as its cursor.
LEMMA ReadRowInd ==
    ASSUME IndInv, NEW a \in Admin, NEW op \in Operation, ReadRow(a, op)
    PROVE  IndInv'
  <1>1. TypeOK'
    BY DEF IndInv, TypeOK, Request, NoRequest, Operation, Outcome, ReadRow, rowVars,
       providerVars, callVars
  <1>2. WithinArrived'
    BY DEF IndInv, TypeOK, Request, NoRequest, Operation, Outcome, ReadRow, rowVars,
       providerVars, callVars, WithinArrived
  <1>3. FromCovers' /\ CursorCovers'
    BY DEF IndInv, TypeOK, FromCovers, CursorCovers, Covered, ReadRow, rowVars,
       providerVars, callVars
  <1>4. QED BY <1>1, <1>2, <1>3 DEF IndInv

\* Reconnect: new credentials, the same cursor.
LEMMA ReconnectInd ==
    ASSUME IndInv, NEW a \in Admin, Reconnect(a)
    PROVE  IndInv'
  <1>1. TypeOK'
    BY DEF IndInv, TypeOK, Status, Request, NoRequest, Operation, Outcome, Reconnect,
       callVars
  <1>2. WithinArrived'
    BY DEF IndInv, TypeOK, Status, Request, NoRequest, Operation, Outcome, Reconnect,
       callVars, WithinArrived
  <1>3. FromCovers' /\ CursorCovers'
    BY DEF IndInv, TypeOK, FromCovers, CursorCovers, Covered, Reconnect, callVars
  <1>4. QED BY <1>1, <1>2, <1>3 DEF IndInv

\* HealthCheck: only the request notes the outcome.
LEMMA HealthCheckInd ==
    ASSUME IndInv, NEW a \in Admin, HealthCheck(a)
    PROVE  IndInv'
  <1>f. PICK o \in {"ACTIVE", "DISCONNECTED", "ERROR"} :
           admin' = [admin EXCEPT ![a].outcome = o] /\ (Fault \/ UNCHANGED faults)
    BY DEF HealthCheck
  <1>g. admin' \in [Admin -> Request] /\ \A b \in Admin : admin'[b].cursor = admin[b].cursor
    BY <1>f DEF IndInv, TypeOK, Request, Outcome
  <1>1. TypeOK'
    BY <1>f, <1>g DEF IndInv, TypeOK, HealthCheck, Fault, rowVars, providerVars,
       callVars, Fault
  <1>2. WithinArrived'
    BY <1>f, <1>g DEF IndInv, TypeOK, HealthCheck, Fault, rowVars, providerVars,
       callVars, Fault, WithinArrived
  <1>3. FromCovers' /\ CursorCovers'
    BY <1>f, <1>g DEF IndInv, TypeOK, FromCovers, CursorCovers, Covered, HealthCheck,
       rowVars, providerVars, callVars, Fault
  <1>4. QED BY <1>1, <1>2, <1>3 DEF IndInv

\* TestWrite: the outcome becomes the status.
LEMMA TestWriteInd ==
    ASSUME IndInv, NEW a \in Admin, TestWrite(a)
    PROVE  IndInv'
  <1>1. TypeOK'
    BY DEF IndInv, TypeOK, Status, Request, NoRequest, Operation, Outcome, TestWrite,
       providerVars, callVars
  <1>2. WithinArrived'
    BY DEF IndInv, TypeOK, Status, Request, NoRequest, Operation, Outcome, TestWrite,
       providerVars, callVars, WithinArrived
  <1>3. FromCovers' /\ CursorCovers'
    BY DEF IndInv, TypeOK, FromCovers, CursorCovers, Covered, TestWrite, providerVars,
       callVars
  <1>4. QED BY <1>1, <1>2, <1>3 DEF IndInv

\* Remove: the row is deleted, its cursor stays.
LEMMA RemoveInd ==
    ASSUME IndInv, NEW a \in Admin, Remove(a)
    PROVE  IndInv'
  <1>1. TypeOK'
    BY DEF IndInv, TypeOK, Status, Request, NoRequest, Operation, Outcome, Remove,
       providerVars, callVars
  <1>2. WithinArrived'
    BY DEF IndInv, TypeOK, Status, Request, NoRequest, Operation, Outcome, Remove,
       providerVars, callVars, WithinArrived
  <1>3. FromCovers' /\ CursorCovers'
    BY DEF IndInv, TypeOK, FromCovers, CursorCovers, Covered, Remove, providerVars, callVars
  <1>4. QED BY <1>1, <1>2, <1>3 DEF IndInv

\* Create: what the new cursor jumps over is skipped by intent.
LEMMA CreateInd ==
    ASSUME IndInv, NEW a \in Admin, Create(a)
    PROVE  IndInv'
  <1>t. admin[a].cursor \in Nat /\ admin[a].cursor <= arrived
    BY DEF IndInv, TypeOK, WithinArrived, Request
  <1>s. skipped' \in SUBSET (1 .. arrived)
    <2>1. cursor + 1 .. admin[a].cursor \subseteq 1 .. arrived
      BY <1>t, IntervalWithin DEF IndInv, TypeOK
    <2>2. QED BY <2>1 DEF IndInv, TypeOK, Create
  <1>u. creds' \in Nat /\ valid' \in SUBSET Nat /\ cursor' \in Nat
    BY <1>t DEF IndInv, TypeOK, Create
  <1>x. admin' \in [Admin -> Request]
    BY DEF IndInv, TypeOK, Create, Request, NoRequest, Operation, Outcome
  <1>y. deleted' \in BOOLEAN /\ status' \in Status
    BY DEF Create, Status
  <1>1. TypeOK'
    BY <1>s, <1>u, <1>x, <1>y DEF IndInv, TypeOK, Create, callVars
  <1>2. WithinArrived'
    BY <1>t, <1>s DEF IndInv, TypeOK, Status, Request, NoRequest, Operation, Outcome,
       Create, callVars, WithinArrived
  <1>3. FromCovers' /\ CursorCovers'
    <2>1. 1 .. admin[a].cursor \subseteq (1 .. cursor) \cup (cursor + 1 .. admin[a].cursor)
      BY <1>t, IntervalSplit DEF IndInv, TypeOK
    <2>2. QED BY <2>1 DEF IndInv, FromCovers, CursorCovers, Covered, Create, callVars
  <1>4. QED BY <1>1, <1>2, <1>3 DEF IndInv

\* RequestFails: only the request ends.
LEMMA RequestFailsInd ==
    ASSUME IndInv, NEW a \in Admin, RequestFails(a)
    PROVE  IndInv'
  <1>1. TypeOK'
    BY DEF IndInv, TypeOK, Request, NoRequest, Operation, Outcome, RequestFails,
       rowVars, providerVars, callVars
  <1>2. WithinArrived'
    BY DEF IndInv, TypeOK, Request, NoRequest, Operation, Outcome, RequestFails,
       rowVars, providerVars, callVars, WithinArrived
  <1>3. FromCovers' /\ CursorCovers'
    BY DEF IndInv, TypeOK, FromCovers, CursorCovers, Covered, RequestFails, rowVars,
       providerVars, callVars
  <1>4. QED BY <1>1, <1>2, <1>3 DEF IndInv

-----------------------------------------------------------------------------
\* Every step of the system, and stuttering, keeps the invariant.
LEMMA NextInd == IndInv /\ [Next]_vars => IndInv'
  <1> SUFFICES ASSUME IndInv, [Next]_vars PROVE IndInv' OBVIOUS
  <1>1. CASE UNCHANGED vars
    BY <1>1 DEF vars, IndInv, TypeOK, WithinArrived, FromCovers, Covered, CursorCovers,
       Status, Row, NoRow, PC, Error, Request, NoRequest, Operation, Outcome
  <1>2. CASE Arrive
    BY <1>2, ArriveInd
  <1>3. CASE ExpireLease
    BY <1>3, ExpireLeaseInd
  <1>4. CASE \E c \in 1 .. MaxCreds : Revoke(c)
    BY <1>4, RevokeInd
  <1>5. CASE \E p \in Poller : PollStep(p)
    <2>1. PICK p \in Poller : PollStep(p) BY <1>5
    <2>2. QED BY <2>1, DiscoverInd, TakeLeaseInd, FetchInd, CommitPollInd,
       CommitThrowsInd, ReleaseLeaseInd, CrashInd DEF PollStep
  <1>6. CASE \E p \in Sender : SendStep(p)
    <2>1. PICK p \in Sender : SendStep(p) BY <1>6
    <2>2. QED BY <2>1, StartSendInd, SendAcceptedInd, EndSendInd, SendThrowsInd DEF SendStep
  <1>7. CASE \E p \in Proc : CallStep(p)
    <2>1. PICK p \in Proc : CallStep(p) BY <1>7
    <2>2. QED BY <2>1, CallRejectedInd, CallFailsInd, RecordSuccessInd,
       RecordSuccessThrowsInd, RecordFailureInd DEF CallStep
  <1>8. CASE \E a \in Admin : AdminStep(a)
    <2>1. PICK a \in Admin : AdminStep(a) BY <1>8
    <2>2. QED BY <2>1, ReadRowInd, ReconnectInd, HealthCheckInd, TestWriteInd,
       RemoveInd, CreateInd, RequestFailsInd DEF AdminStep
  <1>9. QED BY <1>1, <1>2, <1>3, <1>4, <1>5, <1>6, <1>7, <1>8 DEF Next

-----------------------------------------------------------------------------
(* Theorems *)

\* The invariant holds in every state of the channel.
THEOREM Invariant == Spec => []IndInv
  <1>1. QED BY InitInd, NextInd, PTL DEF Spec

\* The row, the journal and every poll stay in their types: in particular no
\* poll journals an event the provider does not have.
THEOREM TypeCorrect == Spec => []TypeOK
  <1>1. IndInv => TypeOK BY DEF IndInv
  <1>2. QED BY <1>1, Invariant, PTL

\* No event is skipped: whatever the saved cursor has passed is journaled or is
\* older than the channel, however polls, removals, revivals and faults overlap.
THEOREM NoEventSkipped == Spec => []CursorCovers
  <1>1. IndInv => CursorCovers BY DEF IndInv
  <1>2. QED BY <1>1, Invariant, PTL

-----------------------------------------------------------------------------
(* The cursor moves forward *)

\* No lease has run out or was removed, and nothing has failed.
Quiet == ~lapsed /\ faults = 0

\* A poll between taking its lease and ending it.
Busy == {"calling", "fetched", "failed"}

\* Then the lease keeps polls apart, and the cursor is the one the poll started from.
LeaseHeld ==
    /\ lease # "expired"
    /\ \A p \in Poller : pc[p] \in Busy => lease = "live" /\ ~deleted
    /\ \A p, q \in Poller : pc[p] \in Busy /\ pc[q] \in Busy => p = q
    /\ \A p \in Poller : pc[p] \in {"calling", "fetched"} => from[p] = cursor
    /\ \A p \in Poller : pc[p] = "fetched" => from[p] <= upto[p]

\* A create request works on a channel that stays deleted and is not polled.
CreateWaits == \A a \in Admin : admin[a].op = "create" => deleted /\ cursor <= admin[a].cursor

BackInv == cursor <= arrived /\ (Quiet => LeaseHeld /\ CreateWaits)

\* A fault ends the quiet.
LEMMA LoudBack ==
    ASSUME IndInv, Fault, cursor' <= arrived'
    PROVE  BackInv'
  <1>1. faults' # 0 BY DEF IndInv, TypeOK, Fault
  <1>2. QED BY <1>1 DEF BackInv, Quiet

\* A step that moves neither cursor nor lease and starts no poll.
LEMMA CalmBack ==
    ASSUME IndInv, BackInv, UNCHANGED <<cursor, lease, deleted>>, arrived' \in Nat, arrived <= arrived',
           UNCHANGED <<lapsed, faults>>,
           \A a \in Admin : admin'[a].op = "create" => admin'[a] = admin[a],
           \A q \in Poller : \/ pc'[q] = pc[q] /\ from'[q] = from[q] /\ upto'[q] = upto[q]
                             \/ pc'[q] \in {"idle", "ok", "recording"}
                             \/ pc[q] \in Busy /\ pc'[q] = "failed"
    PROVE  BackInv' /\ cursor' = cursor
  <1>1. cursor' <= arrived' BY DEF IndInv, TypeOK, BackInv
  <1>2. \A q \in Poller : /\ pc'[q] \in Busy => pc[q] \in Busy
                          /\ pc'[q] \in {"calling", "fetched"} => pc'[q] = pc[q] /\ from'[q] = from[q] /\ upto'[q] = upto[q]
    BY DEF Busy
  <1>3. LeaseHeld => LeaseHeld' BY <1>2 DEF LeaseHeld
  <1>4. CreateWaits => CreateWaits' BY DEF CreateWaits
  <1>5. Quiet' => Quiet BY DEF Quiet
  <1>6. QED BY <1>1, <1>3, <1>4, <1>5 DEF BackInv

\* A lease is taken when nobody has it, with the cursor of that moment.
LEMMA TakeLeaseBack ==
    ASSUME IndInv, BackInv, NEW p \in Poller, TakeLease(p)
    PROVE  BackInv' /\ cursor' = cursor
  <1>1. UNCHANGED <<cursor, deleted, arrived, admin, lapsed, faults, upto>> /\ lease # "live" /\ lease' = "live" /\ ~deleted
    BY DEF TakeLease, providerVars
  <1>2. /\ pc'[p] = "calling" /\ from'[p] = cursor
        /\ \A q \in Poller : q # p => pc'[q] = pc[q] /\ from'[q] = from[q]
    BY DEF TakeLease, IndInv, TypeOK, Proc
  <1>3. LeaseHeld => \A q \in Poller : pc[q] \notin Busy BY <1>1 DEF LeaseHeld
  <1>4. LeaseHeld => LeaseHeld'
    <2> SUFFICES ASSUME LeaseHeld PROVE LeaseHeld' OBVIOUS
    <2>1. \A q \in Poller : pc'[q] \in Busy => q = p BY <1>2, <1>3
    <2>2. \A q \in Poller : pc'[q] \in {"calling", "fetched"} => q = p BY <2>1 DEF Busy
    <2>3. QED BY <1>1, <1>2, <2>1, <2>2 DEF LeaseHeld
  <1>5. CreateWaits => CreateWaits' BY <1>1 DEF CreateWaits
  <1>6. Quiet' => Quiet BY <1>1 DEF Quiet
  <1>7. QED BY <1>1, <1>4, <1>5, <1>6 DEF BackInv

\* A fetch returns no less than it was asked from.
LEMMA FetchBack ==
    ASSUME IndInv, BackInv, NEW p \in Poller, Fetch(p)
    PROVE  BackInv' /\ cursor' = cursor
  <1>1. UNCHANGED <<cursor, deleted, lease, arrived, admin, lapsed, faults, from>> /\ pc[p] = "calling"
    BY DEF Fetch, providerVars, rowVars
  <1>2. /\ pc'[p] = "fetched" /\ from[p] <= upto'[p]
        /\ \A q \in Poller : q # p => pc'[q] = pc[q] /\ upto'[q] = upto[q]
    BY DEF Fetch, IndInv, TypeOK, Proc
  <1>3. LeaseHeld => LeaseHeld' BY <1>1, <1>2 DEF LeaseHeld, Busy
  <1>4. CreateWaits => CreateWaits' BY <1>1 DEF CreateWaits
  <1>5. Quiet' => Quiet BY <1>1 DEF Quiet
  <1>6. QED BY <1>1, <1>3, <1>4, <1>5 DEF BackInv

\* The cursor a poll saves is not behind the one that is stored, while all is quiet.
LEMMA WritePollBack ==
    ASSUME IndInv, BackInv, NEW p \in Poller, pc[p] = "fetched", WritePoll(p)
    PROVE  cursor' <= arrived /\ (Quiet => cursor <= cursor')
  <1>1. cursor' = upto[p] BY DEF WritePoll
  <1>2. upto[p] <= arrived BY DEF IndInv, WithinArrived
  <1>3. Quiet => cursor <= upto[p] BY DEF BackInv, LeaseHeld
  <1>4. QED BY <1>1, <1>2, <1>3

\* A poll that saved its cursor ended its lease, and nobody else had one.
LEMMA CommitBack ==
    ASSUME IndInv, BackInv, NEW p \in Poller, CommitPoll(p)
    PROVE  BackInv' /\ (Quiet => cursor <= cursor')
  <1>1. /\ UNCHANGED <<deleted, arrived, admin, lapsed, faults, from, upto>> /\ lease' = "free"
        /\ WritePoll(p) /\ pc[p] = "fetched"
    BY DEF CommitPoll, providerVars, WritePoll
  <1>2. pc'[p] = "ok" /\ \A q \in Poller : q # p => pc'[q] = pc[q] BY DEF CommitPoll, IndInv, TypeOK, Proc
  <1>3. cursor' <= arrived' /\ (Quiet => cursor <= cursor') BY <1>1, WritePollBack
  <1>4. LeaseHeld => \A q \in Poller : q # p => pc[q] \notin Busy BY <1>1 DEF LeaseHeld, Busy
  <1>5. LeaseHeld => \A q \in Poller : pc'[q] \notin Busy BY <1>2, <1>4 DEF Busy
  <1>6. LeaseHeld => LeaseHeld' BY <1>1, <1>5 DEF LeaseHeld, Busy
  <1>7. LeaseHeld /\ CreateWaits => CreateWaits'
    <2>1. LeaseHeld => ~deleted BY <1>1 DEF LeaseHeld, Busy
    <2>2. QED BY <1>1, <2>1 DEF CreateWaits
  <1>8. Quiet' => Quiet BY <1>1 DEF Quiet
  <1>9. QED BY <1>3, <1>6, <1>7, <1>8 DEF BackInv

\* A poll that failed ends its own lease.
LEMMA ReleaseBack ==
    ASSUME IndInv, BackInv, NEW p \in Poller, ReleaseLease(p)
    PROVE  BackInv' /\ cursor' = cursor
  <1>1. UNCHANGED <<cursor, deleted, arrived, admin, lapsed>> /\ pc[p] = "failed"
    BY DEF ReleaseLease, providerVars
  <1>2. /\ pc'[p] \in {"idle", "recording"}
        /\ \A q \in Poller : q # p => pc'[q] = pc[q]
    BY DEF ReleaseLease, Finish, IndInv, TypeOK, Proc
  <1>3. CASE Fault BY <1>1, <1>3, LoudBack DEF BackInv
  <1>4. CASE lease' = "free" /\ UNCHANGED faults
    <2>1. LeaseHeld => \A q \in Poller : q # p => pc[q] \notin Busy BY <1>1 DEF LeaseHeld, Busy
    <2>2. LeaseHeld => \A q \in Poller : pc'[q] \notin Busy BY <1>2, <2>1 DEF Busy
    <2>3. LeaseHeld => LeaseHeld' BY <1>4, <2>2 DEF LeaseHeld, Busy
    <2>4. CreateWaits => CreateWaits' BY <1>1 DEF CreateWaits
    <2>5. Quiet' => Quiet BY <1>1, <1>4 DEF Quiet
    <2>6. QED BY <1>1, <2>3, <2>4, <2>5 DEF BackInv
  <1>5. QED BY <1>3, <1>4 DEF ReleaseLease

\* A poll or a send that ends, or throws, starts nothing.
LEMMA EndsQuietly ==
    ASSUME IndInv, NEW p \in Proc
    PROVE  /\ Finish(p) => \A q \in Poller : \/ pc'[q] = pc[q] /\ from'[q] = from[q] /\ upto'[q] = upto[q]
                                             \/ pc'[q] = "idle"
           /\ \A e : Throw(p, e) => \A q \in Poller : \/ pc'[q] = pc[q] /\ from'[q] = from[q] /\ upto'[q] = upto[q]
                                                      \/ q = p /\ pc'[q] = "failed"
BY DEF IndInv, TypeOK, Proc, Finish, Throw

\* What pollers and senders have in common.
LEMMA CallBack ==
    ASSUME IndInv, BackInv, NEW p \in Proc, CallStep(p)
    PROVE  BackInv' /\ cursor' = cursor
  <1>1. CASE CallRejected(p)
    <2>1. \A q \in Poller : \/ pc'[q] = pc[q] /\ from'[q] = from[q] /\ upto'[q] = upto[q]
                            \/ pc[q] \in Busy /\ pc'[q] = "failed"
      BY <1>1, EndsQuietly DEF CallRejected, Busy
    <2>2. QED BY <1>1, <2>1, CalmBack DEF CallRejected, rowVars, providerVars, IndInv, TypeOK
  <1>2. CASE CallFails(p) \/ RecordSuccessThrows(p)
    BY <1>2, LoudBack DEF CallFails, RecordSuccessThrows, rowVars, providerVars, BackInv
  <1>3. CASE RecordSuccess(p)
    <2>1. \A q \in Poller : \/ pc'[q] = pc[q] /\ from'[q] = from[q] /\ upto'[q] = upto[q]
                            \/ pc'[q] = "idle"
      BY <1>3, EndsQuietly DEF RecordSuccess
    <2>2. QED BY <1>3, <2>1, CalmBack DEF RecordSuccess, providerVars, IndInv, TypeOK
  <1>4. CASE RecordFailure(p)
    <2>1. \A q \in Poller : \/ pc'[q] = pc[q] /\ from'[q] = from[q] /\ upto'[q] = upto[q]
                            \/ pc'[q] = "idle"
      BY <1>4, EndsQuietly DEF RecordFailure
    <2>2. QED BY <1>4, <2>1, CalmBack DEF RecordFailure, providerVars, IndInv, TypeOK
  <1>5. QED BY <1>1, <1>2, <1>3, <1>4 DEF CallStep

\* A send does not touch a poll.
LEMMA SendBack ==
    ASSUME IndInv, BackInv, NEW s \in Sender, SendStep(s)
    PROVE  BackInv' /\ cursor' = cursor
  <1>0. s \notin Poller BY ProcessAssumption
  <1>1. CASE SendThrows(s) BY <1>1, LoudBack DEF SendThrows, rowVars, providerVars, BackInv
  <1>2. CASE StartSend(s) \/ SendAccepted(s) \/ EndSend(s)
    <2>1. \A q \in Poller : pc'[q] = pc[q] /\ from'[q] = from[q] /\ upto'[q] = upto[q]
      BY <1>0, <1>2 DEF StartSend, SendAccepted, EndSend, Finish, IndInv, TypeOK, Proc
    <2>2. UNCHANGED <<cursor, lease, deleted, arrived, lapsed, faults, admin>>
      BY <1>2 DEF StartSend, SendAccepted, EndSend, rowVars, providerVars
    <2>3. QED BY <2>1, <2>2, CalmBack DEF IndInv, TypeOK
  <1>3. QED BY <1>1, <1>2 DEF SendStep

\* The steps of a poll.
LEMMA PollBack ==
    ASSUME IndInv, BackInv, NEW p \in Poller, PollStep(p)
    PROVE  BackInv' /\ (Quiet => cursor <= cursor')
  <1>0. cursor \in Nat /\ arrived \in Nat BY DEF IndInv, TypeOK
  <1>1. CASE Discover(p) BY <1>0, <1>1, CalmBack DEF Discover, rowVars, providerVars, callVars
  <1>2. CASE TakeLease(p) BY <1>0, <1>2, TakeLeaseBack
  <1>3. CASE Fetch(p) BY <1>0, <1>3, FetchBack
  <1>4. CASE CommitPoll(p) BY <1>4, CommitBack
  <1>5. CASE CommitThrows(p)
    <2>1. arrived' = arrived /\ pc[p] = "fetched" /\ Fault BY <1>5 DEF CommitThrows, providerVars
    <2>2. cursor' <= arrived /\ (Quiet => cursor <= cursor')
      <3>1. CASE WritePoll(p) BY <2>1, <3>1, WritePollBack
      <3>2. CASE UNCHANGED <<rowVars, journal>> BY <1>0, <3>2 DEF rowVars, BackInv
      <3>3. QED BY <1>5, <3>1, <3>2 DEF CommitThrows
    <2>3. QED BY <2>1, <2>2, LoudBack
  <1>6. CASE ReleaseLease(p) BY <1>0, <1>6, ReleaseBack
  <1>7. CASE Crash(p) BY <1>0, <1>7, LoudBack DEF Crash, rowVars, providerVars, BackInv
  <1>8. QED BY <1>1, <1>2, <1>3, <1>4, <1>5, <1>6, <1>7 DEF PollStep

\* With one administrator at a time: a create request is the only one, so the channel it found
\* deleted is deleted when it writes.
LEMMA AdminBack ==
    ASSUME IndInv, BackInv, \A a, b \in Admin : a = b, NEW a \in Admin, AdminStep(a)
    PROVE  BackInv' /\ (Quiet => cursor <= cursor')
  <1>0. cursor \in Nat /\ arrived \in Nat BY DEF IndInv, TypeOK
  <1>1. ASSUME NEW op \in Operation, ReadRow(a, op) PROVE BackInv' /\ cursor' = cursor
    <2>1. UNCHANGED <<cursor, lease, deleted, arrived, lapsed, faults, pc, from, upto>>
      BY <1>1 DEF ReadRow, rowVars, providerVars, callVars
    <2>2. admin'[a].op = op /\ (op = "create" => admin'[a].cursor = arrived)
      BY <1>1 DEF ReadRow, IndInv, TypeOK
    <2>3. op = "create" => deleted BY <1>1 DEF ReadRow
    <2>4. LeaseHeld => LeaseHeld' BY <2>1 DEF LeaseHeld
    <2>5. CreateWaits' BY <2>1, <2>2, <2>3 DEF CreateWaits, BackInv
    <2>6. Quiet' => Quiet BY <2>1 DEF Quiet
    <2>7. QED BY <2>1, <2>4, <2>5, <2>6 DEF BackInv
  <1>2. ASSUME admin' = [admin EXCEPT ![a] = NoRequest] PROVE \A b \in Admin : admin'[b].op = "none"
    BY <1>2 DEF NoRequest, IndInv, TypeOK
  <1>3. CASE Reconnect(a) \/ TestWrite(a) \/ RequestFails(a)
    <2>1. UNCHANGED <<cursor, lease, deleted, arrived, lapsed, faults, pc, from, upto>>
      BY <1>3 DEF Reconnect, TestWrite, RequestFails, rowVars, providerVars, callVars
    <2>2. \A b \in Admin : admin'[b].op = "none" BY <1>2, <1>3 DEF Reconnect, TestWrite, RequestFails
    <2>3. QED BY <1>0, <2>1, <2>2, CalmBack
  <1>4. CASE HealthCheck(a)
    <2>1. UNCHANGED <<cursor, lease, deleted, arrived, lapsed, pc, from, upto>>
      BY <1>4 DEF HealthCheck, rowVars, providerVars, callVars
    <2>2. \A b \in Admin : admin'[b].op = "test"
      BY <1>4 DEF HealthCheck, IndInv, TypeOK, Request
    <2>3. CASE Fault BY <1>0, <2>1, <2>3, LoudBack DEF BackInv
    <2>4. CASE UNCHANGED faults BY <1>0, <2>1, <2>2, <2>4, CalmBack
    <2>5. QED BY <1>4, <2>3, <2>4 DEF HealthCheck
  <1>5. CASE Remove(a)
    <2>1. UNCHANGED <<cursor, arrived, faults, pc, from, upto>> /\ lease' = "free"
      BY <1>5 DEF Remove, providerVars, callVars
    <2>2. \A b \in Admin : admin'[b].op = "none" BY <1>2, <1>5 DEF Remove
    <2>3. lapsed' = (lapsed \/ lease # "free") BY <1>5 DEF Remove
    <2>4. Quiet' => Quiet /\ lease = "free" BY <2>1, <2>3, Zenon DEF Quiet
    <2>5. LeaseHeld /\ lease = "free" => LeaseHeld' BY <2>1 DEF LeaseHeld, Busy
    <2>6. CreateWaits' BY <2>2 DEF CreateWaits
    <2>7. QED BY <1>0, <2>1, <2>4, <2>5, <2>6 DEF BackInv
  <1>6. CASE Create(a)
    <2>1. UNCHANGED <<lease, arrived, faults, lapsed, pc, from, upto>> /\ cursor' = admin[a].cursor /\ admin[a].op = "create"
      BY <1>6 DEF Create, callVars
    <2>2. \A b \in Admin : admin'[b].op = "none" BY <1>2, <1>6 DEF Create
    <2>3. admin[a].cursor <= arrived BY DEF IndInv, WithinArrived
    <2>4. Quiet' => Quiet BY <2>1 DEF Quiet
    <2>5. CreateWaits => deleted /\ cursor <= cursor' BY <2>1 DEF CreateWaits
    <2>6. LeaseHeld /\ deleted => \A p \in Poller : pc[p] \notin Busy BY DEF LeaseHeld
    <2>7. LeaseHeld /\ deleted => LeaseHeld' BY <2>1, <2>6 DEF LeaseHeld, Busy
    <2>8. CreateWaits' BY <2>2 DEF CreateWaits
    <2>9. QED BY <2>1, <2>3, <2>4, <2>5, <2>7, <2>8 DEF BackInv
  <1>7. QED BY <1>0, <1>1, <1>3, <1>4, <1>5, <1>6 DEF AdminStep

\* As long as requests of administrators do not overlap, the cursor moves back, and mail is fetched
\* again, only after a lease ran out, was removed with its channel, or a call failed: any number
\* of pollers take turns.
THEOREM CursorMovesForward ==
    ASSUME \A a, b \in Admin : a = b
    PROVE  Spec => CursorBackNeedsLapse
  <1>1. Init => BackInv
    BY DEF Init, BackInv, Quiet, LeaseHeld, CreateWaits, Busy, NoRequest, Proc
  <1>2. IndInv /\ BackInv /\ [Next]_vars => BackInv' /\ (Quiet => cursor <= cursor')
    <2> SUFFICES ASSUME IndInv, BackInv, [Next]_vars PROVE BackInv' /\ (Quiet => cursor <= cursor') OBVIOUS
    <2>0. cursor \in Nat /\ arrived \in Nat BY DEF IndInv, TypeOK
    <2>1. CASE UNCHANGED vars BY <2>0, <2>1, CalmBack DEF vars
    <2>2. CASE Arrive
      <3>1. arrived' \in Nat /\ arrived <= arrived' BY <2>0, <2>2 DEF Arrive
      <3>2. QED BY <2>0, <2>2, <3>1, CalmBack DEF Arrive, rowVars, callVars
    <2>3. CASE ExpireLease
      <3>1. lapsed' /\ cursor' = cursor /\ arrived' = arrived BY <2>3 DEF ExpireLease, providerVars
      <3>2. QED BY <2>0, <3>1 DEF BackInv, Quiet
    <2>4. ASSUME NEW c \in 1 .. MaxCreds, Revoke(c) PROVE BackInv' /\ cursor' = cursor
      BY <2>0, <2>4, CalmBack DEF Revoke, rowVars, callVars
    <2>5. ASSUME NEW p \in Poller, PollStep(p) PROVE BackInv' /\ (Quiet => cursor <= cursor') BY <2>5, PollBack
    <2>6. ASSUME NEW s \in Sender, SendStep(s) PROVE BackInv' /\ cursor' = cursor BY <2>6, SendBack
    <2>7. ASSUME NEW p \in Proc, CallStep(p) PROVE BackInv' /\ cursor' = cursor BY <2>7, CallBack
    <2>8. ASSUME NEW a \in Admin, AdminStep(a) PROVE BackInv' /\ (Quiet => cursor <= cursor') BY <2>8, AdminBack
    <2>9. QED BY <2>0, <2>1, <2>2, <2>3, <2>4, <2>5, <2>6, <2>7, <2>8 DEF Next
  <1>3. IndInv /\ IndInv' /\ BackInv /\ [Next]_vars => [cursor' < cursor => lapsed \/ faults > 0]_vars
    <2>1. IndInv /\ IndInv' => cursor \in Nat /\ cursor' \in Nat /\ faults \in Nat BY DEF IndInv, TypeOK
    <2>2. IndInv /\ BackInv /\ [Next]_vars => (Quiet => cursor <= cursor') BY <1>2
    <2>3. QED BY <2>1, <2>2 DEF Quiet
  <1>4. Spec => []BackInv BY <1>1, <1>2, Invariant, PTL DEF Spec
  <1>5. QED BY <1>3, <1>4, Invariant, PTL DEF Spec, CursorBackNeedsLapse

=============================================================================
