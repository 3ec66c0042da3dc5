---------------------------- MODULE Idempotency ----------------------------
(***************************************************************************)
(* Requests that carry the same Idempotency-Key:                           *)
(*   apps/api/src/common/interceptors/idempotency.interceptor.ts and       *)
(*   apps/api/src/redis/idempotency-store.ts (the Redis store).            *)
(*                                                                         *)
(* One record key (workspace, method, path and client key are fixed), any  *)
(* number of API instances: a request is a process of its own.  Each Lua   *)
(* script is one step.  A Redis command may fail, and one that the client  *)
(* gave up after two seconds may still be executed later.  A record's TTL  *)
(* may run out at any moment, because nothing bounds how long a handler    *)
(* runs.                                                                   *)
(***************************************************************************)
EXTENDS Integers

CONSTANTS Request,      \* requests that arrive with the key
          Payload,      \* fingerprints of query and body
          NoRequest,
          MaxFaults     \* bound: failed commands, crashes and lost records

ASSUME FaultsAssumption == MaxFaults \in Nat
ASSUME NullAssumption == NoRequest \notin Request

VARIABLES
    record,      \* the stored record; lease is the request whose claim wrote it
    fingerprint, \* requestFingerprint of each request, chosen when it is made
    pc,          \* where the request stands in intercept()
    answer,      \* what the client got
    mutated,     \* requests whose handler committed its change
    transit,     \* scripts that timed out here and may still run in Redis
    slipped,     \* history: a record ran out, or a handler failed after its commit
    faults

vars == <<record, fingerprint, pc, answer, mutated, transit, slipped, faults>>

NoRecord == [status |-> "FREE", lease |-> NoRequest]
Record == [status : {"IN_FLIGHT", "COMPLETED"}, lease : Request]
NoAnswer == [kind |-> "none", from |-> NoRequest]
Answer == [kind : {"done", "replay", "conflict", "reused", "unavailable", "error"},
           from : Request]
Script == {"claim", "complete", "release"}
PC == {"new", "handling", "done", "threw", "answered", "crashed"}

TypeOK ==
    /\ record \in Record \cup {NoRecord}
    /\ fingerprint \in [Request -> Payload]
    /\ pc \in [Request -> PC]
    /\ answer \in [Request -> Answer \cup {NoAnswer}]
    /\ mutated \in SUBSET Request
    /\ transit \in SUBSET (Script \X Request)
    /\ slipped \in BOOLEAN
    /\ faults \in Nat

Init ==
    /\ record = NoRecord
    /\ fingerprint \in [Request -> Payload]
    /\ pc = [r \in Request |-> "new"]
    /\ answer = [r \in Request |-> NoAnswer]
    /\ mutated = {}
    /\ transit = {}
    /\ slipped = FALSE
    /\ faults = 0

-----------------------------------------------------------------------------
Fault == faults < MaxFaults /\ faults' = faults + 1

Respond(r, kind, from) ==
    /\ pc' = [pc EXCEPT ![r] = "answered"]
    /\ answer' = [answer EXCEPT ![r] = [kind |-> kind, from |-> from]]

\* The exact IN_FLIGHT value of this request's claim is stored.
Owns(r) == record = [status |-> "IN_FLIGHT", lease |-> r]

\* Mutants: the completion does not look at the stored value; the release keeps
\* half of the record.
CompleteScriptBlind(r) == [status |-> "COMPLETED", lease |-> r]
ReleaseScriptHalf(r) == IF Owns(r) THEN [NoRecord EXCEPT !.lease = r] ELSE record

\* CLAIM_SCRIPT, COMPLETE_SCRIPT, RELEASE_SCRIPT: what each leaves in the store.
ClaimScript(r) == IF record = NoRecord THEN [status |-> "IN_FLIGHT", lease |-> r] ELSE record
CompleteScript(r) == IF Owns(r) THEN [status |-> "COMPLETED", lease |-> r] ELSE record
ReleaseScript(r) == IF Owns(r) THEN NoRecord ELSE record

\* The command fails here and is never executed, or is executed later.
CommandFails(script, r) ==
    /\ Fault
    /\ \/ transit' = transit \cup {<<script, r>>}
       \/ UNCHANGED transit
    /\ UNCHANGED record

\* A command that timed out reaches Redis after all.
LateCommand(script, r) ==
    /\ <<script, r>> \in transit
    /\ transit' = transit \ {<<script, r>>}
    /\ record' = CASE script = "claim" -> ClaimScript(r)
                   [] script = "complete" -> CompleteScript(r)
                   [] script = "release" -> ReleaseScript(r)
    /\ UNCHANGED <<fingerprint, pc, answer, mutated, slipped, faults>>

-----------------------------------------------------------------------------
(* intercept *)

\* Mutant: the key is written without looking whether it is free.
ClaimBlind(r) ==
    /\ pc[r] = "new"
    /\ record' = [status |-> "IN_FLIGHT", lease |-> r]
    /\ pc' = [pc EXCEPT ![r] = "handling"]
    /\ UNCHANGED <<fingerprint, answer, mutated, transit, slipped, faults>>

\* claim() takes the free key.
Claim(r) ==
    /\ pc[r] = "new" /\ record = NoRecord
    /\ record' = ClaimScript(r)
    /\ pc' = [pc EXCEPT ![r] = "handling"]
    /\ UNCHANGED <<fingerprint, answer, mutated, transit, slipped, faults>>

\* Mutant: a completed record is replayed whatever the payload.
AnswerWhateverPayload(r) ==
    /\ pc[r] = "new" /\ record # NoRecord
    /\ Respond(r, IF record.status = "IN_FLIGHT" THEN "conflict" ELSE "replay", record.lease)
    /\ UNCHANGED <<record, fingerprint, mutated, transit, slipped, faults>>

\* claim() finds a record; answerFromRecord decides.
AnswerFromRecord(r) ==
    /\ pc[r] = "new" /\ record # NoRecord
    /\ LET kind == IF fingerprint[record.lease] # fingerprint[r] THEN "reused"
                   ELSE IF record.status = "IN_FLIGHT" THEN "conflict"
                   ELSE "replay"
       IN Respond(r, kind, record.lease)
    /\ UNCHANGED <<record, fingerprint, mutated, transit, slipped, faults>>

\* claim() fails: 503 before the handler runs.
ClaimThrows(r) ==
    /\ pc[r] = "new"
    /\ CommandFails("claim", r)
    /\ Respond(r, "unavailable", r)
    /\ UNCHANGED <<fingerprint, mutated, slipped>>

\* next.handle() commits its change and returns a body.
HandlerReturns(r) ==
    /\ pc[r] = "handling"
    /\ pc' = [pc EXCEPT ![r] = "done"]
    /\ mutated' = mutated \cup {r}
    /\ UNCHANGED <<record, fingerprint, answer, transit, slipped, faults>>

\* next.handle() throws: validation, a conflict, a rolled back transaction.  A
\* fault may also hit it after its commit.
HandlerThrows(r) ==
    /\ pc[r] = "handling"
    /\ pc' = [pc EXCEPT ![r] = "threw"]
    /\ \/ UNCHANGED <<mutated, slipped, faults>>
       \/ Fault /\ mutated' = mutated \cup {r} /\ slipped' = TRUE
    /\ UNCHANGED <<record, fingerprint, answer, transit>>

\* complete() stores the response while this request still holds the key.
Complete(r) ==
    /\ pc[r] = "done"
    /\ record' = CompleteScript(r)
    /\ Respond(r, "done", r)
    /\ UNCHANGED <<fingerprint, mutated, transit, slipped, faults>>

\* Mutant: the key is given back when the response cannot be stored.
CompleteThrowsReleases(r) ==
    /\ pc[r] = "done"
    /\ Fault
    /\ record' = ReleaseScript(r)
    /\ Respond(r, "done", r)
    /\ UNCHANGED <<fingerprint, mutated, transit, slipped>>

\* The store fails after the mutation: the response is sent all the same.
CompleteThrows(r) ==
    /\ pc[r] = "done"
    /\ CommandFails("complete", r)
    /\ Respond(r, "done", r)
    /\ UNCHANGED <<fingerprint, mutated, slipped>>

\* release() frees the key of a failed request while it still holds it.
Release(r) ==
    /\ pc[r] = "threw"
    /\ record' = ReleaseScript(r)
    /\ Respond(r, "error", r)
    /\ UNCHANGED <<fingerprint, mutated, transit, slipped, faults>>

ReleaseThrows(r) ==
    /\ pc[r] = "threw"
    /\ CommandFails("release", r)
    /\ Respond(r, "error", r)
    /\ UNCHANGED <<fingerprint, mutated, slipped>>

\* The command the request is about to send, or waits for.
NextScript(r) == CASE pc[r] = "new" -> {"claim"}
                   [] pc[r] = "done" -> {"complete"}
                   [] pc[r] = "threw" -> {"release"}
                   [] OTHER -> {}

\* The API instance dies with the request; its handler may have committed, and
\* a command it had sent may still be executed.
Crash(r) ==
    /\ pc[r] \in {"new", "handling", "done", "threw"}
    /\ Fault
    /\ pc' = [pc EXCEPT ![r] = "crashed"]
    /\ \/ UNCHANGED mutated
       \/ pc[r] = "handling" /\ mutated' = mutated \cup {r}
    /\ \/ UNCHANGED transit
       \/ \E script \in NextScript(r) : transit' = transit \cup {<<script, r>>}
    /\ UNCHANGED <<record, fingerprint, answer, slipped>>

\* The TTL of the record runs out: 60 s in flight, 24 h once completed.
Expire ==
    /\ record # NoRecord
    /\ record' = NoRecord
    /\ slipped' = TRUE
    /\ UNCHANGED <<fingerprint, pc, answer, mutated, transit, faults>>

-----------------------------------------------------------------------------
RequestStep(r) ==
    \/ Claim(r) \/ AnswerFromRecord(r) \/ ClaimThrows(r)
    \/ HandlerReturns(r) \/ HandlerThrows(r)
    \/ Complete(r) \/ CompleteThrows(r) \/ Release(r) \/ ReleaseThrows(r)
    \/ Crash(r)
    \/ \E script \in Script : LateCommand(script, r)

Next == (\E r \in Request : RequestStep(r)) \/ Expire

Spec == Init /\ [][Next]_vars

-----------------------------------------------------------------------------
(* Properties *)

\* A replayed response is the response of a request with the same payload whose
\* handler committed, never that of a failed, unfinished or different request.
ReplayIsGenuine ==
    \A r \in Request : answer[r].kind = "replay" =>
        /\ answer[r].from \in mutated
        /\ answer[answer[r].from].kind # "error"
        /\ fingerprint[answer[r].from] = fingerprint[r]

\* The handlers of two requests run side by side only after a record ran out.
OneHandlerAtATime ==
    \A r, q \in Request : r # q /\ pc[r] \in {"handling", "done"} /\ pc[q] \in {"handling", "done"}
        => slipped

\* The change is made twice only if a record ran out in between or a handler
\* failed after its commit: conflicts, replays, releases, lost answers of the
\* store and crashes never let a repeat through on their own.
SecondMutationNeedsSlip ==
    \A r, q \in Request : r # q /\ r \in mutated /\ q \in mutated => slipped

\* A record is replaced or removed only by the request that wrote it or by its
\* TTL: a request that outlived its lock never touches a newer one.
OnlyOwnerEndsRecord ==
    [][record # NoRecord /\ record' # record =>
         \/ record' = NoRecord /\ slipped'
         \/ record.status = "IN_FLIGHT" /\
              \/ record' = [status |-> "COMPLETED", lease |-> record.lease]
              \/ record' = NoRecord /\ (answer'[record.lease].kind = "error"
                                        \/ pc[record.lease] = "crashed")]_vars
=============================================================================
