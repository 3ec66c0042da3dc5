---------------------------- MODULE Transactions ----------------------------
(***************************************************************************)
(* withTransaction (packages/database/src/transaction.ts): callers that    *)
(* lock the same rows in different orders, PostgreSQL's deadlock detector, *)
(* and the retries with backoff.                                           *)
(***************************************************************************)
EXTENDS Naturals, FiniteSets

CONSTANTS
    Caller,
    maxRetries,  \* 3 in the code
    MaxFault     \* bound: other errors, timeouts and lost answers of COMMIT

Row == {"a", "b"}
Free == "free"

VARIABLES
    order,    \* the row a caller's function locks first
    attempt,  \* attempts begun
    pc,       \* of a caller
    err,      \* the error its attempt ended with
    lock,     \* the caller that holds a row
    dirty,    \* rows written by the open transaction of a caller
    writes,   \* committed writes of a caller to a row
    delay,    \* the backoff chosen, in units of initialDelayMs
    lost,     \* history: the caller's COMMIT was not answered
    faults

tvars == <<order, attempt, pc, err, lock, dirty, writes, delay, lost, faults>>

TypeOK ==
    /\ order \in [Caller -> Row] /\ attempt \in [Caller -> 0 .. maxRetries + 1]
    /\ pc \in [Caller -> {"start", "first", "second", "commit", "caught", "sleep", "done", "thrown"}]
    /\ err \in [Caller -> {"none", "deadlock", "other"}]
    /\ lock \in [Row -> Caller \cup {Free}] /\ dirty \in [Caller -> SUBSET Row]
    /\ writes \in [Caller -> [Row -> 0 .. maxRetries + 1]] /\ delay \in [Caller -> Nat]
    /\ lost \subseteq Caller /\ faults \in 0 .. MaxFault

Init ==
    /\ order \in [Caller -> Row] /\ attempt = [c \in Caller |-> 0]
    /\ pc = [c \in Caller |-> "start"] /\ err = [c \in Caller |-> "none"]
    /\ lock = [r \in Row |-> Free] /\ dirty = [c \in Caller |-> {}]
    /\ writes = [c \in Caller |-> [r \in Row |-> 0]]
    /\ delay = [c \in Caller |-> 0] /\ lost = {} /\ faults = 0

FirstRow(c) == order[c]
SecondRow(c) == CHOOSE r \in Row : r # order[c]
Wants(c) == IF pc[c] = "first" THEN FirstRow(c) ELSE SecondRow(c)
Waiting(c) == pc[c] \in {"first", "second"} /\ lock[Wants(c)] \notin {Free, c}

Begin(c) ==
    /\ pc[c] = "start"
    /\ attempt' = [attempt EXCEPT ![c] = @ + 1]
    /\ pc' = [pc EXCEPT ![c] = "first"]
    /\ UNCHANGED <<order, err, lock, dirty, writes, delay, lost, faults>>

LockAndWrite(c) ==
    /\ pc[c] \in {"first", "second"} /\ ~Waiting(c)
    /\ lock' = [lock EXCEPT ![Wants(c)] = c]
    /\ dirty' = [dirty EXCEPT ![c] = @ \cup {Wants(c)}]
    /\ pc' = [pc EXCEPT ![c] = IF pc[c] = "first" THEN "second" ELSE "commit"]
    /\ UNCHANGED <<order, attempt, err, writes, delay, lost, faults>>

Released(c) == [r \in Row |-> IF lock[r] = c THEN Free ELSE lock[r]]

\* The attempt ends with e: its writes and locks are gone.
Abort(c, e) ==
    /\ dirty' = [dirty EXCEPT ![c] = {}] /\ lock' = Released(c)
    /\ err' = [err EXCEPT ![c] = e] /\ pc' = [pc EXCEPT ![c] = "caught"]
    /\ UNCHANGED <<order, attempt, writes, delay>>

\* The detector ends one of the transactions that wait for each other (40P01).
Deadlock(c) ==
    /\ Waiting(c) /\ \E d \in Caller \ {c} : Waiting(d) /\ lock[Wants(c)] = d /\ lock[Wants(d)] = c
    /\ Abort(c, "deadlock")
    /\ UNCHANGED <<lost, faults>>

\* A constraint, the transaction's timeout, or no connection.
OtherError(c) ==
    /\ pc[c] \in {"first", "second", "commit"} /\ faults < MaxFault
    /\ faults' = faults + 1
    /\ Abort(c, "other")
    /\ UNCHANGED lost

Apply(c) == [writes EXCEPT ![c] = [r \in Row |-> @[r] + IF r \in dirty[c] THEN 1 ELSE 0]]

Commit(c) ==
    /\ pc[c] = "commit"
    /\ writes' = Apply(c) /\ dirty' = [dirty EXCEPT ![c] = {}] /\ lock' = Released(c)
    /\ pc' = [pc EXCEPT ![c] = "done"]
    /\ UNCHANGED <<order, attempt, err, delay, lost, faults>>

\* The connection breaks after COMMIT: the caller sees an error that is not retryable.
CommitUnanswered(c) ==
    /\ pc[c] = "commit" /\ faults < MaxFault
    /\ faults' = faults + 1 /\ lost' = lost \cup {c}
    /\ writes' = Apply(c) /\ dirty' = [dirty EXCEPT ![c] = {}] /\ lock' = Released(c)
    /\ err' = [err EXCEPT ![c] = "other"] /\ pc' = [pc EXCEPT ![c] = "caught"]
    /\ UNCHANGED <<order, attempt, delay>>

----------------------------------------------------------------------------
(* The catch block *)

\* Mutant: every error is tried again.
AnyErrorIsRetryable(e) == TRUE

\* P2034, 40001 and 40P01.
isRetryableTransactionError(e) == e = "deadlock"

\* Mutant: the limit counts retries from zero.
RetriesLeftOrMore(n) == n <= maxRetries + 1

hasRetriesLeft(n) == n <= maxRetries

\* 50 ms, doubled each time, at most 1000 ms, in units of 50 ms and without the jitter.
calculateBackoffDelay(n) == IF n <= 5 THEN <<1, 2, 4, 8, 16>>[n] ELSE 20

Catch(c) ==
    /\ pc[c] = "caught"
    /\ IF isRetryableTransactionError(err[c]) /\ hasRetriesLeft(attempt[c])
       THEN pc' = [pc EXCEPT ![c] = "sleep"] /\ delay' = [delay EXCEPT ![c] = calculateBackoffDelay(attempt[c])]
       ELSE pc' = [pc EXCEPT ![c] = "thrown"] /\ UNCHANGED delay
    /\ UNCHANGED <<order, attempt, err, lock, dirty, writes, lost, faults>>

Awake(c) ==
    /\ pc[c] = "sleep"
    /\ pc' = [pc EXCEPT ![c] = "start"] /\ err' = [err EXCEPT ![c] = "none"]
    /\ UNCHANGED <<order, attempt, lock, dirty, writes, delay, lost, faults>>

Next ==
    \E c \in Caller :
      \/ Begin(c) \/ LockAndWrite(c) \/ Deadlock(c) \/ OtherError(c)
      \/ Commit(c) \/ CommitUnanswered(c) \/ Catch(c) \/ Awake(c)

----------------------------------------------------------------------------
(* However often a function was run, it takes effect on all of its rows    *)
(* once if the caller was answered; if the caller got an error, on none,   *)
(* unless the error is the lost answer of a COMMIT.  No function takes     *)
(* effect twice.                                                           *)
AllOrNothing ==
    \A c \in Caller :
      /\ pc[c] = "done" => \A r \in Row : writes[c][r] = 1
      /\ pc[c] = "thrown" /\ c \notin lost => \A r \in Row : writes[c][r] = 0
      /\ \A r \in Row : writes[c][r] <= 1

(* A caller that gives up on a conflict has tried as often as configured;  *)
(* no caller tries more often.                                             *)
TriesAsConfigured ==
    \A c \in Caller :
      /\ attempt[c] <= maxRetries + 1
      /\ pc[c] = "thrown" /\ err[c] = "deadlock" => attempt[c] = maxRetries + 1
=============================================================================
