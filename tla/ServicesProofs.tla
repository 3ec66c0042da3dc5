--------------------------- MODULE ServicesProofs ---------------------------
(***************************************************************************)
(* Proofs about the services of the API, for any number of requests,       *)
(* faults and values.                                                      *)
(***************************************************************************)
EXTENDS Integers, MCServices, Sequences, FiniteSetTheorems, WellFoundedInduction, TLAPS

-----------------------------------------------------------------------------
(* Idempotent requests *)

Ended == {"answered", "crashed"}

\* A request that committed and was not seen to fail: its response may be replayed.
Genuine(r) == r \in mutated /\ pc[r] \in Ended /\ answer[r].kind \in {"done", "none"}

\* A request answers once, has no answer before, and has changed nothing before its handler.
ProgressInv ==
    \A r \in Request :
        /\ pc[r] # "answered" => answer[r] = NoAnswer
        /\ pc[r] = "new" => record.lease # r
        /\ pc[r] \in {"new", "handling"} => r \notin mutated
        /\ pc[r] = "done" => r \in mutated
        /\ pc[r] = "threw" /\ r \in mutated => slipped

\* A script on its way belongs to a request that is over, and fits what became of it.
TransitInv ==
    \A r \in Request :
        /\ \A script \in Script : <<script, r>> \in transit => pc[r] \in Ended
        /\ <<"complete", r>> \in transit => Genuine(r)
        /\ <<"release", r>> \in transit =>
              /\ answer[r].kind = "error" \/ pc[r] = "crashed"
              /\ r \in mutated => slipped

\* A stored response is genuine, and so is the one a replay was made from.
StoredInv ==
    /\ record.status = "COMPLETED" => Genuine(record.lease)
    /\ \A r \in Request : answer[r].kind = "replay" =>
          Genuine(answer[r].from) /\ fingerprint[answer[r].from] = fingerprint[r]

\* As long as nothing slipped, a request past its claim holds the key, and the key of one that
\* committed is not free.
HeldInv ==
    ~slipped => \A r \in Request :
        /\ pc[r] \in {"handling", "done", "threw"} => Owns(r)
        /\ r \in mutated => record.lease = r

IdempotencyInv == TypeOK /\ ProgressInv /\ TransitInv /\ StoredInv /\ HeldInv

\* The requests start in the invariant.
LEMMA IdempotencyInit == Init => IdempotencyInv
<1> SUFFICES ASSUME Init PROVE IdempotencyInv OBVIOUS
<1> USE NullAssumption DEF Init, Record, NoRecord, NoAnswer
<1>1. TypeOK BY DEF TypeOK, PC
<1>2. ProgressInv BY DEF ProgressInv
<1>3. TransitInv BY DEF TransitInv
<1>4. StoredInv BY DEF StoredInv
<1>5. HeldInv BY DEF HeldInv
<1> QED BY <1>1, <1>2, <1>3, <1>4, <1>5 DEF IdempotencyInv

\* A free key is taken.
LEMMA ClaimStep ==
    ASSUME NEW r \in Request, IdempotencyInv, Claim(r)
    PROVE  IdempotencyInv'
<1> USE NullAssumption DEF IdempotencyInv, Claim, ClaimScript, Record, NoRecord
<1>1. TypeOK' BY DEF TypeOK, PC, Script, Answer, NoAnswer
<1>2. ProgressInv' BY DEF ProgressInv, TypeOK, TransitInv, HeldInv, Answer, NoAnswer
<1>3. TransitInv' BY DEF TransitInv, TypeOK, Genuine, Ended, ProgressInv, Script, PC, NoAnswer
<1>4. StoredInv' BY DEF StoredInv, TypeOK, Genuine, Ended, TransitInv, ProgressInv, Owns, Script, NoAnswer, Answer
<1>5. HeldInv' BY DEF HeldInv, TypeOK, Owns, ProgressInv, TransitInv, Genuine
<1> QED BY <1>1, <1>2, <1>3, <1>4, <1>5

\* The answer to a request that finds a record leaves the record alone.
LEMMA AnswerFromRecordStep ==
    ASSUME NEW r \in Request, IdempotencyInv, AnswerFromRecord(r)
    PROVE  IdempotencyInv'
<1> USE NullAssumption DEF IdempotencyInv, AnswerFromRecord, Respond, Record, NoRecord
<1>1. TypeOK' BY DEF TypeOK, PC, Script, Answer, NoAnswer
<1>2. ProgressInv' BY DEF ProgressInv, TypeOK, TransitInv, HeldInv, Answer, NoAnswer
<1>3. TransitInv' BY DEF TransitInv, TypeOK, Genuine, Ended, ProgressInv, Script, PC, NoAnswer
<1>4. StoredInv' BY DEF StoredInv, TypeOK, Genuine, Ended, TransitInv, ProgressInv, Owns, Script, NoAnswer, Answer
<1>5. HeldInv' BY DEF HeldInv, TypeOK, Owns, ProgressInv, TransitInv, Genuine
<1> QED BY <1>1, <1>2, <1>3, <1>4, <1>5

\* A claim that fails, and may be executed later.
LEMMA ClaimThrowsStep ==
    ASSUME NEW r \in Request, IdempotencyInv, ClaimThrows(r)
    PROVE  IdempotencyInv'
<1> USE NullAssumption DEF IdempotencyInv, ClaimThrows, CommandFails, Fault, Respond, Record, NoRecord
<1>1. TypeOK' BY DEF TypeOK, PC, Script, Answer, NoAnswer
<1>2. ProgressInv' BY DEF ProgressInv, TypeOK, TransitInv, HeldInv, Answer, NoAnswer
<1>3. TransitInv'
  <2>1. \A s \in Script, q \in Request :
           <<s, q>> \in transit' => <<s, q>> \in transit \/ (s = "claim" /\ q = r)
    OBVIOUS
  <2>2. \A q \in Request : q # r => pc'[q] = pc[q] /\ answer'[q] = answer[q]
    BY DEF TypeOK
  <2>3. pc'[r] = "answered" /\ answer'[r].kind = "unavailable" BY DEF TypeOK
  <2> QED BY <2>1, <2>2, <2>3, ZenonT(60) DEF TransitInv, ProgressInv, Genuine, Ended, Script, TypeOK
<1>4. StoredInv' BY DEF StoredInv, TypeOK, Genuine, Ended, TransitInv, ProgressInv, Owns, Script, NoAnswer, Answer
<1>5. HeldInv' BY DEF HeldInv, TypeOK, Owns, ProgressInv, TransitInv, Genuine
<1> QED BY <1>1, <1>2, <1>3, <1>4, <1>5

\* The handler commits.
LEMMA HandlerReturnsStep ==
    ASSUME NEW r \in Request, IdempotencyInv, HandlerReturns(r)
    PROVE  IdempotencyInv'
<1> USE NullAssumption DEF IdempotencyInv, HandlerReturns, Record, NoRecord
<1>1. TypeOK' BY DEF TypeOK, PC, Script, Answer, NoAnswer
<1>2. ProgressInv' BY DEF ProgressInv, TypeOK, TransitInv, HeldInv, Answer, NoAnswer
<1>3. TransitInv' BY DEF TransitInv, TypeOK, Genuine, Ended, ProgressInv, Script, PC, NoAnswer
<1>4. StoredInv' BY DEF StoredInv, TypeOK, Genuine, Ended, TransitInv, ProgressInv, Owns, Script, NoAnswer, Answer
<1>5. HeldInv' BY DEF HeldInv, TypeOK, Owns, ProgressInv, TransitInv, Genuine
<1> QED BY <1>1, <1>2, <1>3, <1>4, <1>5

\* The handler throws, before or after its commit.
LEMMA HandlerThrowsStep ==
    ASSUME NEW r \in Request, IdempotencyInv, HandlerThrows(r)
    PROVE  IdempotencyInv'
<1> USE NullAssumption DEF IdempotencyInv, HandlerThrows, Fault, Record, NoRecord
<1>1. TypeOK'
  <2>1. slipped' \in BOOLEAN BY DEF TypeOK
  <2> QED BY <2>1 DEF TypeOK, PC
<1>2. ProgressInv'
  <2>1. CASE UNCHANGED <<mutated, slipped>>
    <3>1. \A q \in Request : q # r => pc'[q] = pc[q] BY DEF TypeOK
    <3>2. pc'[r] = "threw" BY DEF TypeOK
    <3>3. r \notin mutated BY DEF ProgressInv
    <3> QED BY <2>1, <3>1, <3>2, <3>3 DEF ProgressInv, TypeOK
  <2>2. CASE mutated' = mutated \cup {r} /\ slipped' BY <2>2 DEF ProgressInv, TypeOK
  <2> QED BY <2>1, <2>2
<1>3. TransitInv' BY DEF TransitInv, TypeOK, Genuine, Ended, ProgressInv, Script, PC, NoAnswer
<1>4. StoredInv' BY DEF StoredInv, TypeOK, Genuine, Ended, TransitInv, ProgressInv, Owns, Script, NoAnswer, Answer
<1>5. HeldInv' BY DEF HeldInv, TypeOK, Owns, ProgressInv, TransitInv, Genuine
<1> QED BY <1>1, <1>2, <1>3, <1>4, <1>5

\* The response is stored.
LEMMA CompleteStep ==
    ASSUME NEW r \in Request, IdempotencyInv, Complete(r)
    PROVE  IdempotencyInv'
<1> USE NullAssumption DEF IdempotencyInv, Complete, CompleteScript, Owns, Respond, Record, NoRecord
<1>1. TypeOK' BY DEF TypeOK, PC, Script, Answer, NoAnswer
<1>2. ProgressInv' BY DEF ProgressInv, TypeOK, TransitInv, HeldInv, Answer, NoAnswer
<1>3. TransitInv' BY DEF TransitInv, TypeOK, Genuine, Ended, ProgressInv, Script, PC, NoAnswer
<1>4. StoredInv' BY DEF StoredInv, TypeOK, Genuine, Ended, TransitInv, ProgressInv, Owns, Script, NoAnswer, Answer
<1>5. HeldInv' BY DEF HeldInv, TypeOK, Owns, ProgressInv, TransitInv, Genuine
<1> QED BY <1>1, <1>2, <1>3, <1>4, <1>5

\* The response may be stored later.
LEMMA CompleteThrowsStep ==
    ASSUME NEW r \in Request, IdempotencyInv, CompleteThrows(r)
    PROVE  IdempotencyInv'
<1> USE NullAssumption DEF IdempotencyInv, CompleteThrows, CommandFails, Fault, Respond, Record, NoRecord
<1>1. TypeOK' BY DEF TypeOK, PC, Script, Answer, NoAnswer
<1>2. ProgressInv' BY DEF ProgressInv, TypeOK, TransitInv, HeldInv, Answer, NoAnswer
<1>3. TransitInv'
  <2>1. \A s \in Script, q \in Request :
           <<s, q>> \in transit' => <<s, q>> \in transit \/ (s = "complete" /\ q = r)
    OBVIOUS
  <2>2. \A q \in Request : q # r => pc'[q] = pc[q] /\ answer'[q] = answer[q]
    BY DEF TypeOK
  <2>3. pc'[r] = "answered" /\ answer'[r].kind = "done" BY DEF TypeOK
  <2>4. Genuine(r)' /\ \A q \in Request : Genuine(q) => Genuine(q)'
    BY <2>2, <2>3 DEF Genuine, Ended, ProgressInv
  <2>5. \A s \in Script : <<s, r>> \notin transit BY DEF TransitInv, Ended
  <2> QED BY <2>1, <2>2, <2>3, <2>4, <2>5 DEF TransitInv, Ended, Script
<1>4. StoredInv' BY DEF StoredInv, TypeOK, Genuine, Ended, TransitInv, ProgressInv, Owns, Script, NoAnswer, Answer
<1>5. HeldInv' BY DEF HeldInv, TypeOK, Owns, ProgressInv, TransitInv, Genuine
<1> QED BY <1>1, <1>2, <1>3, <1>4, <1>5

\* The key of a failed request is given back.
LEMMA ReleaseStep ==
    ASSUME NEW r \in Request, IdempotencyInv, Release(r)
    PROVE  IdempotencyInv'
<1> USE NullAssumption DEF IdempotencyInv, Release, ReleaseScript, Owns, Respond, Record, NoRecord
<1>1. TypeOK' BY DEF TypeOK, PC, Script, Answer, NoAnswer
<1>2. ProgressInv' BY DEF ProgressInv, TypeOK, TransitInv, HeldInv, Answer, NoAnswer
<1>3. TransitInv' BY DEF TransitInv, TypeOK, Genuine, Ended, ProgressInv, Script, PC, NoAnswer
<1>4. StoredInv' BY DEF StoredInv, TypeOK, Genuine, Ended, TransitInv, ProgressInv, Owns, Script, NoAnswer, Answer
<1>5. HeldInv' BY DEF HeldInv, TypeOK, Owns, ProgressInv, TransitInv, Genuine
<1> QED BY <1>1, <1>2, <1>3, <1>4, <1>5

\* The key may be given back later.
LEMMA ReleaseThrowsStep ==
    ASSUME NEW r \in Request, IdempotencyInv, ReleaseThrows(r)
    PROVE  IdempotencyInv'
<1> USE NullAssumption DEF IdempotencyInv, ReleaseThrows, CommandFails, Fault, Respond, Record, NoRecord
<1>1. TypeOK' BY DEF TypeOK, PC, Script, Answer, NoAnswer
<1>2. ProgressInv' BY DEF ProgressInv, TypeOK, TransitInv, HeldInv, Answer, NoAnswer
<1>3. TransitInv'
  <2>1. \A s \in Script, q \in Request :
           <<s, q>> \in transit' => <<s, q>> \in transit \/ (s = "release" /\ q = r)
    OBVIOUS
  <2>2. \A q \in Request : q # r => pc'[q] = pc[q] /\ answer'[q] = answer[q]
    BY DEF TypeOK
  <2>3. pc'[r] = "answered" /\ answer'[r].kind = "error" BY DEF TypeOK
  <2> QED BY <2>1, <2>2, <2>3, ZenonT(60) DEF TransitInv, ProgressInv, Genuine, Ended, Script, TypeOK
<1>4. StoredInv' BY DEF StoredInv, TypeOK, Genuine, Ended, TransitInv, ProgressInv, Owns, Script, NoAnswer, Answer
<1>5. HeldInv' BY DEF HeldInv, TypeOK, Owns, ProgressInv, TransitInv, Genuine
<1> QED BY <1>1, <1>2, <1>3, <1>4, <1>5

\* The instance dies with the request.
LEMMA CrashStep ==
    ASSUME NEW r \in Request, IdempotencyInv, Crash(r)
    PROVE  IdempotencyInv'
<1> USE NullAssumption DEF IdempotencyInv, Crash, Fault, NextScript, Record, NoRecord
<1>1. TypeOK' BY DEF TypeOK, PC, Script, Answer, NoAnswer
<1>2. ProgressInv' BY DEF ProgressInv, TypeOK, TransitInv, HeldInv, Answer, NoAnswer
<1>3. TransitInv'
  <2>1. \A s \in Script, q \in Request :
           <<s, q>> \in transit' => <<s, q>> \in transit \/ (s \in NextScript(r) /\ q = r)
    OBVIOUS
  <2>2. \A q \in Request : q # r => pc'[q] = pc[q] /\ (q \in mutated' => q \in mutated)
    BY DEF TypeOK
  <2>3. pc'[r] = "crashed" /\ mutated \subseteq mutated' BY DEF TypeOK
  <2>4. answer[r].kind = "none" /\ pc[r] \notin Ended BY DEF ProgressInv, NoAnswer, Ended
  <2>5. \A s \in NextScript(r) : /\ s = "complete" => pc[r] = "done"
                                 /\ s = "release" => pc[r] = "threw"
    OBVIOUS
  <2>6. \A q \in Request : Genuine(q) => Genuine(q)' BY <2>2, <2>3, <2>4 DEF Genuine, Ended
  <2>7. pc[r] = "done" => Genuine(r)' BY <2>3, <2>4 DEF Genuine, Ended, ProgressInv
  <2>8. pc[r] = "threw" /\ r \in mutated' => slipped BY DEF ProgressInv
  <2>9. \A s \in Script : <<s, r>> \notin transit BY <2>4 DEF TransitInv
  <2> QED BY <2>1, <2>2, <2>3, <2>5, <2>6, <2>7, <2>8, <2>9 DEF TransitInv, Ended, Script
<1>4. StoredInv' BY DEF StoredInv, TypeOK, Genuine, Ended, TransitInv, ProgressInv, Owns, Script, NoAnswer, Answer
<1>5. HeldInv' BY DEF HeldInv, TypeOK, Owns, ProgressInv, TransitInv, Genuine
<1> QED BY <1>1, <1>2, <1>3, <1>4, <1>5

\* A script that timed out is executed late: it only takes a free key, and only its owner's
\* record is completed or removed.
LEMMA LateCommandStep ==
    ASSUME NEW r \in Request, NEW script \in Script, IdempotencyInv, LateCommand(script, r)
    PROVE  IdempotencyInv'
<1> USE NullAssumption DEF IdempotencyInv, Record, NoRecord
<1>1. /\ script = "claim" => record' = ClaimScript(r)
      /\ script = "complete" => record' = CompleteScript(r)
      /\ script = "release" => record' = ReleaseScript(r)
      /\ script \in {"claim", "complete", "release"}
      /\ pc[r] \in Ended
  BY DEF LateCommand, Script, TransitInv
<1>2. \/ record' = record
      \/ script = "claim" /\ record = NoRecord /\ record' = [status |-> "IN_FLIGHT", lease |-> r]
      \/ script = "complete" /\ Owns(r) /\ record' = [status |-> "COMPLETED", lease |-> r]
      \/ script = "release" /\ Owns(r) /\ record' = NoRecord
  BY <1>1 DEF ClaimScript, CompleteScript, ReleaseScript
<1>3. /\ UNCHANGED <<fingerprint, pc, answer, mutated, slipped, faults>>
      /\ transit' \subseteq transit /\ <<script, r>> \in transit
  BY DEF LateCommand
<1>4. script = "complete" => Genuine(r) BY <1>3 DEF TransitInv
<1>5. script = "release" => (r \in mutated => slipped) BY <1>3 DEF TransitInv
<1>6. TypeOK' BY <1>2, <1>3 DEF TypeOK
<1>7. ProgressInv' BY <1>1, <1>2, <1>3 DEF ProgressInv, TypeOK, Ended, Owns
<1>8. TransitInv' BY <1>3 DEF TransitInv, Genuine, Ended
<1>9. StoredInv' BY <1>2, <1>3, <1>4 DEF StoredInv, Genuine, Owns
<1>10. HeldInv' BY <1>1, <1>2, <1>3, <1>5 DEF HeldInv, Owns, Ended, TypeOK
<1> QED BY <1>6, <1>7, <1>8, <1>9, <1>10

\* A record runs out.
LEMMA ExpireStep ==
    ASSUME IdempotencyInv, Expire
    PROVE  IdempotencyInv'
<1> USE NullAssumption DEF IdempotencyInv, Expire, Record, NoRecord
<1>1. TypeOK' BY DEF TypeOK
<1>2. ProgressInv' BY DEF ProgressInv, TypeOK
<1>3. TransitInv' BY DEF TransitInv, Genuine, Ended
<1>4. StoredInv' BY DEF StoredInv, Genuine
<1>5. HeldInv' BY DEF HeldInv
<1> QED BY <1>1, <1>2, <1>3, <1>4, <1>5

\* Every step of a request preserves the invariant.
LEMMA IdempotencyNext == IdempotencyInv /\ [Next]_vars => IdempotencyInv'
<1> SUFFICES ASSUME IdempotencyInv, [Next]_vars PROVE IdempotencyInv' OBVIOUS
<1>1. CASE UNCHANGED vars
  BY <1>1 DEF vars, IdempotencyInv, TypeOK, ProgressInv, TransitInv, StoredInv, HeldInv, Genuine, Owns
<1>2. ASSUME NEW r \in Request, RequestStep(r) PROVE IdempotencyInv'
  BY <1>2, ClaimStep, AnswerFromRecordStep, ClaimThrowsStep, HandlerReturnsStep, HandlerThrowsStep,
     CompleteStep, CompleteThrowsStep, ReleaseStep, ReleaseThrowsStep, CrashStep, LateCommandStep
     DEF RequestStep
<1> QED BY <1>1, <1>2, ExpireStep DEF Next

\* What the run checks follows from it.
LEMMA IdempotencyInvImplies ==
    IdempotencyInv => TypeOK /\ ReplayIsGenuine /\ OneHandlerAtATime /\ SecondMutationNeedsSlip
<1> SUFFICES ASSUME IdempotencyInv
             PROVE  TypeOK /\ ReplayIsGenuine /\ OneHandlerAtATime /\ SecondMutationNeedsSlip
  OBVIOUS
<1> USE DEF IdempotencyInv
<1>1. ReplayIsGenuine BY DEF ReplayIsGenuine, StoredInv, Genuine
<1>2. OneHandlerAtATime BY DEF OneHandlerAtATime, HeldInv, Owns
<1>3. SecondMutationNeedsSlip BY DEF SecondMutationNeedsSlip, HeldInv
<1> QED BY <1>1, <1>2, <1>3

\* For any number of requests with one key, API instances, lost answers, late scripts and
\* crashes: a replayed response is that of a request with the same payload that committed,
\* and two handlers run together, or two changes are made, only after a record ran out or a
\* handler failed after its commit (IdempotencyInterceptor and RedisIdempotencyStore).
THEOREM OneEffectPerKey == ServicesSpec => []RequestsTakeEffectOnce
<1> DEFINE Inv == part = "idempotency" => IdempotencyInv
<1>1. ServicesInit => Inv BY IdempotencyInit DEF ServicesInit
<1>2. Inv /\ [ServicesNext]_allvars => Inv'
  BY IdempotencyNext DEF ServicesNext, allvars, vars
<1>3. Inv => RequestsTakeEffectOnce BY IdempotencyInvImplies DEF RequestsTakeEffectOnce
<1> QED BY <1>1, <1>2, <1>3, PTL DEF ServicesSpec
-----------------------------------------------------------------------------
(* Who may do what *)

Acts == {"conversation:read", "integration:manage"}
Answers == {"none", "handled", "AUTH_TOKEN_MISSING", "AUTH_TOKEN_EXPIRED", "AUTH_TOKEN_INVALID", "TOKEN_INVALID",
            "USER_ACCOUNT_DISABLED", "WORKSPACE_ACCESS_DENIED", "WORKSPACE_HEADER_MISSING",
            "MEMBERSHIP_NOT_FOUND", "MEMBERSHIP_INACTIVE", "PERMISSION_DENIED"}
SocketType == [ws : Workspace \cup {"none"}, perms : SUBSET (Acts \cup {"*"}),
               rooms : SUBSET ({"workspace", "conversation"} \X Workspace)]
ReqType == [pc : {"idle", "verify", "profile", "workspace", "membership", "guard", "done"},
            kind : {"rest", "socket"}, token : {"none", "secret", "asymmetric", "expired", "asymmetricExpired"},
            header : Workspace \cup {"none"}, need : SUBSET Acts, ws : Workspace \cup {"none"},
            perms : SUBSET (Acts \cup {"*"}), answer : Answers, audited : BOOLEAN]

\* The rights, the token, the request and the connection.
AccessTypes ==
    /\ profile \in {"active", "inactive", "deleted"}
    /\ member \in [Workspace -> {"none", "INVITED", "ACTIVE", "SUSPENDED"}]
    /\ roles \in [Workspace -> SUBSET Access!Role] /\ alive \subseteq Workspace
    /\ token \in {"none", "secret", "asymmetric", "expired", "asymmetricExpired"}
    /\ held \in [Workspace -> SUBSET (Acts \cup {"member"})]
    /\ changes \in 0 .. MaxChange /\ requests \in 0 .. MaxRequest

\* What the memberships allow now was allowed since the request began, and so was an account
\* that is active now.
SinceBegun ==
    req.pc # "idle" =>
        /\ \A w \in Workspace : Access!AllowedNow(member, roles, w) \subseteq held[w]
        /\ profile = "active" => enabled

\* What a request has established when it has come so far.
Established ==
    /\ req.kind = "socket" => req.need = {}
    /\ req.pc \in {"workspace", "membership", "guard"} => enabled
    /\ req.pc \in {"membership", "guard"} =>
          req.ws \in Workspace /\ (req.header # "none" => req.ws = req.header)
    /\ req.pc = "guard" =>
          {"member"} \cup {a \in Acts : Access!hasPermission(req.perms, a)} \subseteq held[req.ws]
    /\ req.answer = "handled" => /\ req.pc = "done" /\ enabled /\ req.ws \in Workspace
                                 /\ req.need \cup {"member"} \subseteq held[req.ws]
                                 /\ req.header # "none" => req.ws = req.header

\* A connection is in rooms of its own workspace, and has had events of no other.
OwnRooms ==
    /\ socket \in SocketType /\ got \subseteq Workspace
    /\ socket.rooms \subseteq Access!RoomsOf(socket.ws)
    /\ got \subseteq {socket.ws}

AccessInv == AccessTypes /\ req \in ReqType /\ enabled \in BOOLEAN /\ SinceBegun /\ Established /\ OwnRooms

\* Nobody has asked for anything yet.
LEMMA AccessInit == ASSUME Access!Init PROVE AccessInv
<1> USE DEF Access!Init
<1>1. AccessTypes BY BoundsAssumption DEF AccessTypes, Access!Role
<1>2. req \in ReqType BY DEF Access!Idle, Access!NoWorkspace, ReqType, Answers
<1>3. SinceBegun /\ Established BY DEF SinceBegun, Established, Access!Idle
<1>4. OwnRooms BY DEF OwnRooms, Access!Closed, Access!NoWorkspace, SocketType
<1> QED BY <1>1, <1>2, <1>3, <1>4 DEF AccessInv

\* What a membership allows is among the actions of the catalogue.
LEMMA AllowedType ==
    ASSUME NEW m, NEW rs, NEW w
    PROVE  Access!AllowedNow(m, rs, w) \subseteq Acts \cup {"member"}
BY DEF Access!AllowedNow, Access!Action, Acts

\* An administrator changes the rights while a request is checked.
LEMMA ChangeStep == ASSUME AccessInv, Access!Change PROVE AccessInv'
<1> USE BoundsAssumption DEF AccessInv
<1>1. /\ UNCHANGED <<token, req, socket, got, requests>>
      /\ held' = [w \in Workspace |-> held[w] \cup Access!AllowedNow(member', roles', w)]
      /\ enabled' = (enabled \/ profile' = "active")
  BY DEF Access!Change
<1>2. AccessTypes'
  <2>1. held' \in [Workspace -> SUBSET (Acts \cup {"member"})] BY <1>1, AllowedType DEF AccessTypes
  <2>2. changes' \in 0 .. MaxChange BY DEF Access!Change, AccessTypes
  <2>3. /\ profile' \in {"active", "inactive", "deleted"} /\ alive' \subseteq Workspace
        /\ member' \in [Workspace -> {"none", "INVITED", "ACTIVE", "SUSPENDED"}]
        /\ roles' \in [Workspace -> SUBSET Access!Role]
    BY DEF Access!Change, AccessTypes, Access!Role
  <2> QED BY <1>1, <2>1, <2>2, <2>3 DEF AccessTypes
<1>3. enabled' \in BOOLEAN /\ (enabled => enabled') /\ (profile' = "active" => enabled') BY <1>1, Zenon
<1>4. \A w \in Workspace : held[w] \subseteq held'[w] /\ Access!AllowedNow(member', roles', w) \subseteq held'[w]
  BY <1>1
<1>5. SinceBegun' BY <1>1, <1>3, <1>4 DEF SinceBegun, Access!AllowedNow
<1>6. Established' BY <1>1, <1>3, <1>4 DEF Established, ReqType
<1>7. OwnRooms' BY <1>1 DEF OwnRooms, Access!RoomsOf
<1> QED BY <1>1, <1>2, <1>3, <1>5, <1>6, <1>7

\* The steps that leave rights, request and connection alone.
LEMMA TokenSteps ==
    ASSUME AccessInv, Access!SignIn \/ Access!devSession \/ Access!TokenExpires
    PROVE  AccessInv'
<1> USE DEF AccessInv, Access!SignIn, Access!devSession, Access!TokenExpires, Access!rights
<1>1. UNCHANGED <<profile, member, roles, alive, req, held, enabled, socket, got, changes, requests>> OBVIOUS
<1>2. token' \in {"none", "secret", "asymmetric", "expired", "asymmetricExpired"} OBVIOUS
<1> HIDE DEF Access!SignIn, Access!devSession, Access!TokenExpires
<1>3. AccessTypes' BY <1>1, <1>2 DEF AccessTypes
<1>4. SinceBegun' BY <1>1 DEF SinceBegun, Access!AllowedNow
<1>5. Established' /\ OwnRooms' BY <1>1 DEF Established, OwnRooms
<1> QED BY <1>1, <1>3, <1>4, <1>5

\* A request begins: what the rows allow now is what it may rest on.
LEMMA BeginStep ==
    ASSUME NEW k \in {"rest", "socket"}, NEW h \in Workspace \cup {"none"}, NEW n \in SUBSET Access!Action,
           AccessInv, Access!Begin(k, h, n)
    PROVE  AccessInv'
<1> USE BoundsAssumption DEF AccessInv
<1>1. /\ UNCHANGED <<profile, member, roles, alive, token, socket, got, changes>>
      /\ requests < MaxRequest /\ requests' = requests + 1
      /\ k = "socket" => n = {}
      /\ held' = [w \in Workspace |-> Access!AllowedNow(member, roles, w)]
      /\ req' = [pc |-> "verify", kind |-> k, token |-> token, header |-> h, need |-> n,
                 ws |-> "none", perms |-> {}, answer |-> "none", audited |-> FALSE]
  BY DEF Access!Begin, Access!rights, Access!Idle, Access!NoWorkspace
<1>2. enabled' = (profile = "active") BY DEF Access!Begin
<1>3. enabled' \in BOOLEAN /\ (profile = "active" => enabled') BY <1>2, Zenon
<1>4. req' \in ReqType BY <1>1 DEF ReqType, Answers, AccessTypes, Access!Action, Acts
<1>5. AccessTypes'
  <2>1. requests' \in 0 .. MaxRequest BY <1>1 DEF AccessTypes
  <2> QED BY <2>1, <1>1, AllowedType DEF AccessTypes
<1>6. SinceBegun' BY <1>1, <1>3 DEF SinceBegun, Access!AllowedNow
<1>7. Established' BY <1>1 DEF Established
<1>8. OwnRooms' BY <1>1 DEF OwnRooms, Access!RoomsOf
<1> QED BY <1>3, <1>4, <1>5, <1>6, <1>7, <1>8

\* What a check leaves alone.
Checks == UNCHANGED <<profile, member, roles, alive, token, held, enabled, changes, requests>>

\* A check that ends the request with an error says nothing of its rights.
LEMMA CheckKeeps ==
    ASSUME AccessInv, Checks, req.pc # "idle" PROVE AccessTypes' /\ enabled' \in BOOLEAN /\ SinceBegun'
<1>1. AccessTypes' BY DEF AccessInv, AccessTypes, Checks
<1>2. SinceBegun' BY DEF AccessInv, SinceBegun, Access!AllowedNow, Checks
<1>3. enabled' \in BOOLEAN BY DEF AccessInv, Checks
<1> QED BY <1>1, <1>2, <1>3

\* A refused request has run no handler.
LEMMA RefusedStep ==
    ASSUME NEW c \in Answers \ {"handled"}, AccessInv, Checks, UNCHANGED <<socket, got>>, req.pc # "idle",
           Access!Refuse(c)
    PROVE  AccessInv'
<1>1. PICK d \in Answers \ {"handled"} : req' = [req EXCEPT !.pc = "done", !.answer = d]
  BY DEF Access!Refuse, Answers
<1>2. req' \in ReqType /\ req'.pc = "done" /\ req'.answer = d /\ req'.kind = req.kind /\ req'.need = req.need
  BY <1>1 DEF AccessInv, ReqType
<1>3. Established' BY <1>2 DEF Established, AccessInv
<1>4. OwnRooms' BY DEF OwnRooms, AccessInv, Access!RoomsOf
<1> QED BY <1>2, <1>3, <1>4, CheckKeeps DEF AccessInv

\* The token is checked.
LEMMA VerifyTokenStep == ASSUME NEW up \in BOOLEAN, AccessInv, Access!VerifyToken(up) PROVE AccessInv'
<1>1. Checks /\ UNCHANGED <<socket, got>> /\ req.pc = "verify" BY DEF Checks, Access!VerifyToken, Access!rights
<1>2. Access!claimsOf(req.token, up) \in {"ok", "AUTH_TOKEN_MISSING", "AUTH_TOKEN_EXPIRED", "AUTH_TOKEN_INVALID"}
  BY Zenon DEF Access!claimsOf
<1>3. CASE req' = [req EXCEPT !.pc = "profile"]
  <2>1. /\ req' \in ReqType /\ req'.pc = "profile" /\ req'.kind = req.kind /\ req'.need = req.need
        /\ req'.answer = req.answer
    BY <1>3 DEF AccessInv, ReqType
  <2>2. Established' BY <1>1, <2>1 DEF Established, AccessInv, Checks
  <2>3. OwnRooms' BY <1>1 DEF OwnRooms, AccessInv, Access!RoomsOf
  <2> QED BY <1>1, <2>1, <2>2, <2>3, CheckKeeps DEF AccessInv
<1>4. ASSUME NEW c \in {"TOKEN_INVALID", "AUTH_TOKEN_MISSING", "AUTH_TOKEN_EXPIRED", "AUTH_TOKEN_INVALID"},
             Access!Refuse(c)
      PROVE  AccessInv'
  BY <1>1, <1>4, RefusedStep DEF Answers
<1>5. \/ req' = [req EXCEPT !.pc = "profile"]
      \/ Access!claimsOf(req.token, up) # "ok" /\ Access!Refuse(Access!claimsOf(req.token, up))
      \/ Access!Refuse("TOKEN_INVALID")
  BY Zenon DEF Access!VerifyToken
<1> QED BY <1>2, <1>3, <1>4, <1>5

\* The account is looked up.
LEMMA ResolveProfileStep == ASSUME AccessInv, Access!ResolveProfile PROVE AccessInv'
<1>1. Checks /\ UNCHANGED <<socket, got>> /\ req.pc = "profile" BY DEF Checks, Access!ResolveProfile, Access!rights
<1>2. CASE profile = "active" /\ req' = [req EXCEPT !.pc = "workspace"]
  <2>1. /\ req' \in ReqType /\ req'.pc = "workspace" /\ req'.kind = req.kind /\ req'.need = req.need
        /\ req'.answer = req.answer
    BY <1>2 DEF AccessInv, ReqType
  <2>2. enabled' BY <1>1, <1>2 DEF SinceBegun, AccessInv, Checks
  <2>3. Established' BY <1>1, <2>1, <2>2 DEF Established, AccessInv, Checks
  <2>4. OwnRooms' BY <1>1 DEF OwnRooms, AccessInv, Access!RoomsOf
  <2> QED BY <1>1, <2>1, <2>3, <2>4, CheckKeeps DEF AccessInv
<1>3. CASE Access!Refuse("USER_ACCOUNT_DISABLED") BY <1>1, <1>3, RefusedStep DEF Answers
<1> QED BY <1>2, <1>3 DEF Access!ResolveProfile

\* The workspace is found.
LEMMA ResolveWorkspaceStep == ASSUME AccessInv, Access!ResolveWorkspace PROVE AccessInv'
<1>1. Checks /\ UNCHANGED <<socket, got>> /\ req.pc = "workspace"
  BY DEF Checks, Access!ResolveWorkspace, Access!rights
<1>2. ASSUME NEW w \in Workspace, req.header # "none" => w = req.header,
             req' = [req EXCEPT !.pc = "membership", !.ws = w]
      PROVE  AccessInv'
  <2>1. /\ req' \in ReqType /\ req'.pc = "membership" /\ req'.kind = req.kind /\ req'.need = req.need
        /\ req'.answer = req.answer /\ req'.ws = w /\ req'.header = req.header
    BY <1>2 DEF AccessInv, ReqType
  <2>2. Established' BY <1>1, <1>2, <2>1 DEF Established, AccessInv, Checks
  <2>3. OwnRooms' BY <1>1 DEF OwnRooms, AccessInv, Access!RoomsOf
  <2> QED BY <1>1, <2>1, <2>2, <2>3, CheckKeeps DEF AccessInv
<1>3. ASSUME NEW c \in {"WORKSPACE_ACCESS_DENIED", "MEMBERSHIP_NOT_FOUND", "WORKSPACE_HEADER_MISSING"},
             Access!Refuse(c)
      PROVE  AccessInv'
  BY <1>1, <1>3, RefusedStep DEF Answers
<1>4. alive \subseteq Workspace BY DEF AccessInv, AccessTypes
<1> QED BY <1>2, <1>3, <1>4 DEF Access!ResolveWorkspace, Access!NoWorkspace

\* The membership is looked up.
LEMMA ResolveMembershipStep == ASSUME AccessInv, Access!ResolveMembership PROVE AccessInv'
<1>1. Checks /\ UNCHANGED <<socket, got>> /\ req.pc = "membership"
  BY DEF Checks, Access!ResolveMembership, Access!rights
<1> DEFINE ps == Access!PermissionsOf(roles[req.ws])
<1>2. CASE member[req.ws] = "ACTIVE" /\ req' = [req EXCEPT !.pc = "guard", !.perms = ps]
  <2>1. ps \subseteq Acts \cup {"*"} BY DEF Access!PermissionsOf, Access!Granted, Access!Action, Acts
  <2>2. Access!AllowedNow(member, roles, req.ws) \subseteq held[req.ws]
    BY <1>1 DEF AccessInv, SinceBegun, Established
  <2>3. {"member"} \cup {a \in Acts : Access!hasPermission(ps, a)} \subseteq held[req.ws]
    BY <1>2, <2>2 DEF Access!AllowedNow, Access!Action, Acts
  <2> HIDE DEF ps
  <2>4. /\ req' \in ReqType /\ req'.pc = "guard" /\ req'.kind = req.kind /\ req'.need = req.need
        /\ req'.answer = req.answer /\ req'.ws = req.ws /\ req'.header = req.header /\ req'.perms = ps
    BY <1>2, <2>1 DEF AccessInv, ReqType
  <2>5. Established' BY <1>1, <2>3, <2>4 DEF Established, AccessInv, Checks, Access!hasPermission
  <2>6. OwnRooms' BY <1>1 DEF OwnRooms, AccessInv, Access!RoomsOf
  <2> QED BY <1>1, <2>4, <2>5, <2>6, CheckKeeps DEF AccessInv
<1>3. ASSUME NEW c \in {"MEMBERSHIP_NOT_FOUND", "MEMBERSHIP_INACTIVE"}, Access!Refuse(c) PROVE AccessInv'
  BY <1>1, <1>3, RefusedStep DEF Answers
<1>4. \/ member[req.ws] = "ACTIVE" /\ req' = [req EXCEPT !.pc = "guard", !.perms = ps]
      \/ Access!Refuse("MEMBERSHIP_NOT_FOUND") \/ Access!Refuse("MEMBERSHIP_INACTIVE")
  BY Zenon DEF Access!ResolveMembership, Access!Admits
<1> QED BY <1>2, <1>3, <1>4

\* The permissions are compared and the handler runs.
LEMMA PermissionGuardStep == ASSUME AccessInv, Access!PermissionGuard PROVE AccessInv'
<1>1. Checks /\ UNCHANGED <<socket, got>> /\ req.pc = "guard" BY DEF Checks, Access!PermissionGuard, Access!rights
<1>2. OwnRooms' BY <1>1 DEF OwnRooms, AccessInv, Access!RoomsOf
<1>3. CASE Access!hasAllPermissions(req.perms, req.need) /\ req' = [req EXCEPT !.pc = "done", !.answer = "handled"]
  <2>1. /\ req' \in ReqType /\ req'.pc = "done" /\ req'.kind = req.kind /\ req'.need = req.need
        /\ req'.answer = "handled" /\ req'.ws = req.ws /\ req'.header = req.header
    BY <1>3 DEF AccessInv, ReqType, Answers
  <2>2. req.need \subseteq Acts /\ \A a \in req.need : Access!hasPermission(req.perms, a)
    BY <1>3 DEF AccessInv, ReqType, Access!hasPermission, Access!hasAllPermissions
  <2>3. Established' BY <1>1, <2>1, <2>2 DEF Established, AccessInv, Checks
  <2> QED BY <1>1, <1>2, <2>1, <2>3, CheckKeeps DEF AccessInv
<1>4. ASSUME NEW a \in BOOLEAN, req' = [req EXCEPT !.pc = "done", !.answer = "PERMISSION_DENIED", !.audited = a]
      PROVE  AccessInv'
  <2>1. /\ req' \in ReqType /\ req'.pc = "done" /\ req'.kind = req.kind /\ req'.need = req.need
        /\ req'.answer = "PERMISSION_DENIED"
    BY <1>4 DEF AccessInv, ReqType, Answers
  <2>2. Established' BY <2>1 DEF Established, AccessInv
  <2> QED BY <1>1, <1>2, <2>1, <2>2, CheckKeeps DEF AccessInv
<1> QED BY <1>3, <1>4 DEF Access!PermissionGuard

\* The handshake ends in a connection.
LEMMA ConnectedStep == ASSUME AccessInv, Access!Connected PROVE AccessInv'
<1>1. /\ Checks /\ req.pc = "guard" /\ req.kind = "socket" /\ got' = {}
      /\ req' = [req EXCEPT !.pc = "done", !.answer = "handled"]
      /\ socket' = [ws |-> req.ws, perms |-> req.perms, rooms |-> {<<"workspace", req.ws>>}]
  BY DEF Checks, Access!Connected, Access!rights, Access!workspaceRoom
<1>2. /\ req' \in ReqType /\ req'.pc = "done" /\ req'.kind = req.kind /\ req'.need = req.need
      /\ req'.answer = "handled" /\ req'.ws = req.ws /\ req'.header = req.header
  BY <1>1 DEF AccessInv, ReqType, Answers
<1>3. req.ws \in Workspace /\ req.need = {} BY <1>1 DEF AccessInv, Established
<1>4. Established' BY <1>1, <1>2, <1>3 DEF Established, AccessInv, Checks
<1>5. socket' \in SocketType BY <1>1, <1>3 DEF SocketType, AccessInv, ReqType
<1>6. OwnRooms' BY <1>1, <1>3, <1>5 DEF OwnRooms, Access!RoomsOf, Access!workspaceRoom, Access!conversationRoom
<1> QED BY <1>1, <1>2, <1>4, <1>6, CheckKeeps DEF AccessInv

\* The rest of the connection's life.
LEMMA SocketSteps ==
    ASSUME AccessInv,
           \/ Access!Disconnect
           \/ \E c \in Access!Talk : Access!handleJoinConversation(c) \/ Access!handleLeaveConversation(c)
                                     \/ Access!Publish(c)
    PROVE  AccessInv'
<1> USE DEF Access!Talk
<1>1. Checks /\ UNCHANGED req
  BY DEF Checks, Access!rights, Access!Disconnect, Access!handleJoinConversation, Access!handleLeaveConversation,
         Access!Publish
<1>2. AccessTypes' /\ enabled' \in BOOLEAN /\ SinceBegun' /\ Established' /\ req' \in ReqType
  <2>1. AccessTypes' BY <1>1 DEF AccessInv, AccessTypes, Checks
  <2>2. SinceBegun' BY <1>1 DEF AccessInv, SinceBegun, Access!AllowedNow, Checks
  <2>3. enabled' \in BOOLEAN BY <1>1 DEF AccessInv, Checks
  <2>4. Established' /\ req' \in ReqType BY <1>1 DEF AccessInv, Established, Checks
  <2> QED BY <2>1, <2>2, <2>3, <2>4
<1>3. CASE Access!Disconnect
  BY <1>2, <1>3 DEF Access!Disconnect, OwnRooms, Access!Closed, Access!NoWorkspace, SocketType, AccessInv
<1>4. ASSUME NEW c \in Workspace, Access!handleJoinConversation(c) PROVE OwnRooms'
  <2>1. /\ got' = got /\ c = socket.ws
        /\ socket' = [socket EXCEPT !.rooms = socket.rooms \cup {<<"conversation", c>>}]
    BY <1>4 DEF Access!handleJoinConversation, Access!FoundIn, Access!conversationRoom
  <2>2. /\ socket' \in SocketType /\ socket'.ws = socket.ws
        /\ socket'.rooms = socket.rooms \cup {<<"conversation", c>>}
    BY <2>1 DEF AccessInv, OwnRooms, SocketType
  <2> QED BY <2>1, <2>2 DEF OwnRooms, AccessInv, Access!RoomsOf, Access!conversationRoom
<1>5. ASSUME NEW c \in Workspace, Access!handleLeaveConversation(c) PROVE OwnRooms'
  <2>1. got' = got /\ socket' = [socket EXCEPT !.rooms = socket.rooms \ {<<"conversation", c>>}]
    BY <1>5 DEF Access!handleLeaveConversation, Access!conversationRoom
  <2>2. socket' \in SocketType /\ socket'.ws = socket.ws /\ socket'.rooms \subseteq socket.rooms
    BY <2>1 DEF AccessInv, OwnRooms, SocketType
  <2> QED BY <2>1, <2>2 DEF OwnRooms, AccessInv, Access!RoomsOf
<1>6. ASSUME NEW c \in Workspace, Access!Publish(c) PROVE OwnRooms'
  <2>1. got' = got \cup {c} /\ socket' = socket /\ socket.rooms \cap Access!RoomsOf(c) # {}
    BY <1>6 DEF Access!Publish
  <2>2. c = socket.ws
    BY <2>1 DEF AccessInv, OwnRooms, Access!RoomsOf, Access!workspaceRoom, Access!conversationRoom
  <2> QED BY <2>1, <2>2 DEF OwnRooms, AccessInv, Access!RoomsOf
<1> QED BY <1>2, <1>3, <1>4, <1>5, <1>6 DEF AccessInv

\* Every step preserves it.
LEMMA AccessNext == AccessInv /\ [Access!Next]_rvars => AccessInv'
<1> SUFFICES ASSUME AccessInv, [Access!Next]_rvars PROVE AccessInv' OBVIOUS
<1>1. CASE UNCHANGED rvars
  <2>1. AccessTypes' /\ Established' /\ OwnRooms'
    BY <1>1 DEF rvars, AccessInv, AccessTypes, Established, OwnRooms
  <2>2. SinceBegun' BY <1>1 DEF rvars, AccessInv, SinceBegun, Access!AllowedNow
  <2> QED BY <1>1, <2>1, <2>2 DEF rvars, AccessInv
<1>2. CASE Access!Next
  BY <1>2, ChangeStep, TokenSteps, BeginStep, VerifyTokenStep, ResolveProfileStep, ResolveWorkspaceStep,
     ResolveMembershipStep, PermissionGuardStep, ConnectedStep, SocketSteps DEF Access!Next, Access!NoWorkspace
<1> QED BY <1>1, <1>2

\* What the run checks of it.
LEMMA AccessInvImplies ==
    AccessInv => Access!TypeOK /\ Access!AuthorisedWhileItRan /\ Access!HintsStayInWorkspace
<1> SUFFICES ASSUME AccessInv PROVE Access!TypeOK /\ Access!AuthorisedWhileItRan /\ Access!HintsStayInWorkspace
  OBVIOUS
<1>1. Access!TypeOK
  BY DEF AccessInv, AccessTypes, ReqType, OwnRooms, SocketType, Access!TypeOK, Access!Action, Acts,
         Access!NoWorkspace, Access!Talk
<1>2. Access!AuthorisedWhileItRan BY DEF AccessInv, Established, Access!AuthorisedWhileItRan, Access!NoWorkspace
<1>3. Access!HintsStayInWorkspace BY DEF AccessInv, OwnRooms, Access!HintsStayInWorkspace
<1> QED BY <1>1, <1>2, <1>3

-----------------------------------------------------------------------------
(* Attachments *)

Key == {Storage!buildObjectKey(w, at, a) : w \in Workspace, at \in Storage!CreatedAt, a \in Attachment}
RowType == [workspace : Workspace, key : Key, zone : {"QUARANTINE", "PRIVATE"},
            scan : {"PENDING", "SCANNING", "CLEAN", "INFECTED", "FAILED"},
            created : Storage!CreatedAt, deletedAt : -1 .. MaxTime, purgeAfter : 0 .. MaxTime]

\* A row was uploaded, and its key is that of its workspace, day and attachment.
Uploaded(a) == row[a] \in RowType /\ row[a].key = Storage!buildObjectKey(row[a].workspace, row[a].created, a)

StorageTypes ==
    /\ today \in 0 .. MaxTime /\ found \subseteq Attachment /\ audited \subseteq links
    /\ \A o \in objects : o[1] \in {"QUARANTINE", "PRIVATE"}
    /\ row = [a \in Attachment |-> row[a]]
    /\ \A a \in Attachment : row[a] = Storage!NoRow \/ Uploaded(a)
    /\ \A a \in Attachment : Uploaded(a) => row[a].deletedAt <= today

\* A verdict is final.
VerdictIsFinal == \A a \in found : Uploaded(a) /\ row[a].scan = "INFECTED"

\* How old what a request read may be.
ReadIsRecent ==
    request # Storage!NoDownload =>
        /\ request.attachment \in Attachment /\ Uploaded(request.attachment) /\ request.row \in RowType
        /\ request.workspace = row[request.attachment].workspace
        /\ request.row.key = row[request.attachment].key
        /\ request.ttl \in Int /\ request.at \in Int /\ request.at <= today /\ today <= request.at + 1
        /\ request.row.scan = "CLEAN" => row[request.attachment].scan = "CLEAN"
        /\ row[request.attachment].deletedAt # -1 =>
              request.row.deletedAt # -1 \/ row[request.attachment].deletedAt >= request.at

\* What a link leads to, and until when.
LinkIsSound(l) ==
    /\ l.attachment \in Attachment /\ Uploaded(l.attachment) /\ l.exp \in Int
    /\ l.workspace = row[l.attachment].workspace /\ l.key = row[l.attachment].key
    /\ row[l.attachment].deletedAt = -1 => l.exp <= today + MaxTtl
    /\ row[l.attachment].deletedAt # -1 => l.exp <= row[l.attachment].deletedAt + MaxTtl + 1

StorageInv == StorageTypes /\ VerdictIsFinal /\ ReadIsRecent /\ \A l \in links : LinkIsSound(l)

\* The attachments start in the invariant.
LEMMA StorageInit == ASSUME Storage!Init PROVE StorageInv
<1> USE DEF Storage!Init
<1>1. StorageTypes
  <2>1. 0 \in 0 .. MaxTime BY BoundsAssumption
  <2>2. \A a \in Attachment : row[a] = Storage!NoRow OBVIOUS
  <2>3. \A a \in Attachment : row[a] \notin RowType BY <2>2 DEF RowType, Storage!NoRow
  <2> QED BY <2>1, <2>2, <2>3 DEF StorageTypes, Uploaded
<1> QED BY <1>1 DEF StorageInv, VerdictIsFinal, ReadIsRecent

\* The key of an attachment reads back as what it was built from.
LEMMA KeyReadsBack ==
    ASSUME NEW w, NEW a, NEW at \in Storage!CreatedAt
    PROVE  /\ Len(Storage!buildObjectKey(w, at, a)) = 7
           /\ Storage!parseObjectKey(Storage!buildObjectKey(w, at, a))
                = [ok |-> TRUE, workspace |-> w, month |-> at.month + 1, id |-> a]
<1> DEFINE k == Storage!buildObjectKey(w, at, a)
<1>1. /\ k = <<"workspaces", w, "message-inbound", at.year, at.month + 1, at.day, a>>
  BY DEF Storage!buildObjectKey, Storage!UtcMonth
<1>2. (at.year = 2024 /\ at.month = 1 /\ at.day = 29) \/ (at.year = 2025 /\ at.month = 0 /\ at.day = 31)
  <2>1. \/ at = [year |-> 2024, month |-> 1, day |-> 29] \/ at = [year |-> 2025, month |-> 0, day |-> 31]
    BY DEF Storage!CreatedAt
  <2> QED BY <2>1
<1>3. Storage!DaysIn(2024, 2) = 29 /\ Storage!DaysIn(2025, 1) = 31 BY DEF Storage!DaysIn
<1> HIDE DEF k
<1>4. /\ Len(k) = 7 /\ k[1] = "workspaces" /\ k[2] = w /\ k[4] = at.year /\ k[5] = at.month + 1
      /\ k[6] = at.day /\ k[7] = a
  BY <1>1
<1>5. k[5] \in 1 .. 12 /\ k[6] \in 1 .. Storage!DaysIn(k[4], k[5])
  BY <1>2, <1>3, <1>4
<1>6. Len(k) = 7 /\ Storage!parseObjectKey(k) = [ok |-> TRUE, workspace |-> w, month |-> at.month + 1, id |-> a]
  BY <1>4, <1>5 DEF Storage!parseObjectKey
<1> QED BY <1>6 DEF k

\* A row without an upload is no uploaded one.
LEMMA NoRowIsNone == Storage!NoRow \notin RowType
BY DEF RowType, Storage!NoRow

\* A row that moves on as its writers move it: what it is about stays, a verdict stays, and
\* it is deleted once, now.
LEMMA RowMovesOn ==
    ASSUME StorageInv, NEW a \in Attachment, Uploaded(a), NEW x \in RowType,
           x.workspace = row[a].workspace, x.key = row[a].key, x.created = row[a].created,
           row[a].scan \in {"CLEAN", "INFECTED"} => x.scan = row[a].scan,
           x.deletedAt = row[a].deletedAt \/ (row[a].deletedAt = -1 /\ x.deletedAt = today),
           row' = [row EXCEPT ![a] = x], UNCHANGED <<today, request, links, audited>>,
           found' = found \/ (found' = found \cup {a} /\ x.scan = "INFECTED"),
           \A o \in objects' : o[1] \in {"QUARANTINE", "PRIVATE"}
    PROVE  StorageInv'
<1> USE DEF StorageInv
<1>1. row'[a] = x /\ \A b \in Attachment \ {a} : row'[b] = row[b] BY DEF StorageTypes
<1>2. row' = [b \in Attachment |-> row'[b]] BY DEF StorageTypes
<1>3. Uploaded(a)' BY <1>1 DEF Uploaded
<1>4. \A b \in Attachment \ {a} : Uploaded(b)' <=> Uploaded(b) BY <1>1 DEF Uploaded
<1>5. a \in found => row[a].scan = "INFECTED" BY DEF VerdictIsFinal
<1>6. x.deletedAt \in Int /\ row[a].deletedAt \in Int /\ today \in Int /\ x.deletedAt <= today
  BY BoundsAssumption DEF StorageTypes, RowType, Uploaded
<1>7. StorageTypes'
  <2>1. \A b \in Attachment : row'[b] = Storage!NoRow \/ Uploaded(b)' BY <1>1, <1>3, <1>4 DEF StorageTypes
  <2>2. \A b \in Attachment : Uploaded(b)' => row'[b].deletedAt <= today BY <1>1, <1>4, <1>6 DEF StorageTypes
  <2> QED BY <1>2, <2>1, <2>2 DEF StorageTypes
<1>8. VerdictIsFinal' BY <1>1, <1>3, <1>4, <1>5 DEF VerdictIsFinal, StorageTypes
<1>9. ReadIsRecent'
  <2> SUFFICES ASSUME request # Storage!NoDownload PROVE ReadIsRecent' BY DEF ReadIsRecent
  <2>1. CASE request.attachment = a
    BY <2>1, <1>1, <1>3, <1>6 DEF ReadIsRecent
  <2>2. CASE request.attachment # a
    BY <2>2, <1>1, <1>4 DEF ReadIsRecent
  <2> QED BY <2>1, <2>2
<1>10. \A l \in links : LinkIsSound(l)'
  <2> SUFFICES ASSUME NEW l \in links PROVE LinkIsSound(l)' OBVIOUS
  <2>1. CASE l.attachment = a BY <2>1, <1>1, <1>3, <1>6, BoundsAssumption DEF LinkIsSound
  <2>2. CASE l.attachment # a BY <2>2, <1>1, <1>4 DEF LinkIsSound
  <2> QED BY <2>1, <2>2
<1> QED BY <1>7, <1>8, <1>9, <1>10

\* A file is uploaded: there was no row, so no request and no link for it.
LEMMA UploadStep == ASSUME NEW a \in Attachment, StorageInv, Storage!Upload(a) PROVE StorageInv'
<1>1. PICK w \in Workspace, at \in Storage!CreatedAt, purge \in {1, MaxTime} :
        /\ objects' = objects \cup {<<"QUARANTINE", Storage!buildObjectKey(w, at, a)>>}
        /\ row' = [row EXCEPT ![a] =
               [workspace |-> w, key |-> Storage!buildObjectKey(w, at, a), zone |-> "QUARANTINE", scan |-> "PENDING",
                created |-> at, deletedAt |-> -1, purgeAfter |-> purge]]
  BY DEF Storage!Upload
<1> DEFINE key == Storage!buildObjectKey(w, at, a)
           x == [workspace |-> w, key |-> key, zone |-> "QUARANTINE", scan |-> "PENDING",
                 created |-> at, deletedAt |-> -1, purgeAfter |-> purge]
<1>2. UNCHANGED <<today, found, request, links, audited>> /\ row[a] = Storage!NoRow BY DEF Storage!Upload
<1>3. key \in Key BY DEF Key
<1>4. purge \in 0 .. MaxTime /\ -1 \in -1 .. MaxTime BY BoundsAssumption
<1>5. x \in RowType /\ x.deletedAt = -1 /\ x.key = Storage!buildObjectKey(x.workspace, x.created, a)
  <2> HIDE DEF key
  <2>1. x \in RowType BY <1>3, <1>4 DEF RowType
  <2>2. x.deletedAt = -1 /\ x.key = key /\ x.workspace = w /\ x.created = at OBVIOUS
  <2> QED BY <2>1, <2>2 DEF key
<1>6. row' = [row EXCEPT ![a] = x] BY <1>1
<1>7. \A o \in objects' : o[1] \in {"QUARANTINE", "PRIVATE"} BY <1>1 DEF StorageInv, StorageTypes
<1> HIDE DEF x, key
<1>8. row'[a] = x /\ \A b \in Attachment \ {a} : row'[b] = row[b] BY <1>6 DEF StorageTypes, StorageInv
<1>9. row' = [b \in Attachment |-> row'[b]] BY <1>6 DEF StorageTypes, StorageInv
<1>10. ~Uploaded(a) BY <1>2, NoRowIsNone DEF Uploaded
<1>11. Uploaded(a)' BY <1>5, <1>8 DEF Uploaded
<1>12. \A b \in Attachment \ {a} : Uploaded(b)' <=> Uploaded(b) BY <1>8 DEF Uploaded
<1>13. StorageTypes'
  <2>1. \A b \in Attachment : row'[b] = Storage!NoRow \/ Uploaded(b)' BY <1>8, <1>11, <1>12 DEF StorageTypes, StorageInv
  <2>2. today \in Nat BY BoundsAssumption DEF StorageTypes, StorageInv
  <2>3. \A b \in Attachment : Uploaded(b)' => row'[b].deletedAt <= today
    BY <1>8, <1>5, <1>12, <2>2 DEF StorageTypes, StorageInv
  <2> QED BY <1>2, <1>7, <1>9, <2>1, <2>3 DEF StorageTypes, StorageInv
<1>14. VerdictIsFinal' BY <1>2, <1>8, <1>10, <1>12 DEF VerdictIsFinal, StorageInv, StorageTypes
<1>15. ReadIsRecent' BY <1>2, <1>8, <1>10, <1>12 DEF ReadIsRecent, StorageInv
<1>16. \A l \in links' : LinkIsSound(l)'
  <2> SUFFICES ASSUME NEW l \in links PROVE LinkIsSound(l)' BY <1>2
  <2>1. l.attachment \in Attachment \ {a} BY <1>10 DEF LinkIsSound, StorageInv
  <2> QED BY <2>1, <1>2, <1>8, <1>12 DEF LinkIsSound, StorageInv
<1> QED BY <1>13, <1>14, <1>15, <1>16 DEF StorageInv

\* A scan reports: a verdict is not taken back.
LEMMA ScanStep ==
    ASSUME NEW a \in Attachment, NEW s \in Storage!ScanStatus, StorageInv, Storage!Scan(a, s)
    PROVE  StorageInv'
<1> DEFINE x == [row[a] EXCEPT !.scan = s]
<1>1. Uploaded(a) BY DEF Storage!Scan, StorageInv, StorageTypes
<1>2. Storage!ALLOWED_SCAN_TRANSITIONS("CLEAN") = {} /\ Storage!ALLOWED_SCAN_TRANSITIONS("INFECTED") = {}
  BY Zenon DEF Storage!ALLOWED_SCAN_TRANSITIONS
<1>3. row[a].scan \in {"CLEAN", "INFECTED"} => s = row[a].scan BY <1>2 DEF Storage!Scan
<1>4. /\ x \in RowType /\ x.workspace = row[a].workspace /\ x.key = row[a].key /\ x.created = row[a].created
      /\ x.scan = s /\ x.deletedAt = row[a].deletedAt
  BY <1>1 DEF Uploaded, RowType, Storage!ScanStatus
<1>5. row' = [row EXCEPT ![a] = x] BY DEF Storage!Scan
<1>6. /\ UNCHANGED <<today, request, links, audited, objects>>
      /\ found' = found \/ (found' = found \cup {a} /\ s = "INFECTED")
  BY DEF Storage!Scan
<1> HIDE DEF x
<1> QED BY <1>1, <1>3, <1>4, <1>5, <1>6, RowMovesOn DEF StorageInv, StorageTypes

\* The object is promoted, or the row deleted.
LEMMA PromoteStep == ASSUME NEW a \in Attachment, StorageInv, Storage!Promote(a) PROVE StorageInv'
<1> DEFINE x == [row[a] EXCEPT !.zone = "PRIVATE"]
<1>1. Uploaded(a) BY DEF Storage!Promote, StorageInv, StorageTypes
<1>2. /\ x \in RowType /\ x.workspace = row[a].workspace /\ x.key = row[a].key /\ x.created = row[a].created
      /\ x.scan = row[a].scan /\ x.deletedAt = row[a].deletedAt
  BY <1>1 DEF Uploaded, RowType
<1>3. row' = [row EXCEPT ![a] = x] BY DEF Storage!Promote
<1>4. UNCHANGED <<today, request, links, audited, found>> BY DEF Storage!Promote
<1>5. \A o \in objects' : o[1] \in {"QUARANTINE", "PRIVATE"} BY DEF Storage!Promote, StorageInv, StorageTypes
<1> HIDE DEF x
<1> QED BY <1>1, <1>2, <1>3, <1>4, <1>5, RowMovesOn

\* A row is marked as deleted; links that were made before run out.
LEMMA SoftDeleteStep == ASSUME NEW a \in Attachment, StorageInv, Storage!SoftDelete(a) PROVE StorageInv'
<1> DEFINE x == [row[a] EXCEPT !.deletedAt = today]
<1>1. Uploaded(a) /\ row[a].deletedAt = -1 BY DEF Storage!SoftDelete, StorageInv, StorageTypes
<1>2. today \in -1 .. MaxTime BY BoundsAssumption DEF StorageInv, StorageTypes
<1>3. /\ x \in RowType /\ x.workspace = row[a].workspace /\ x.key = row[a].key /\ x.created = row[a].created
      /\ x.scan = row[a].scan /\ x.deletedAt = today
  BY <1>1, <1>2 DEF Uploaded, RowType
<1>4. row' = [row EXCEPT ![a] = x] BY DEF Storage!SoftDelete
<1>5. UNCHANGED <<today, request, links, audited, found, objects>> BY DEF Storage!SoftDelete
<1>6. \A o \in objects' : o[1] \in {"QUARANTINE", "PRIVATE"} BY <1>5 DEF StorageInv, StorageTypes
<1> HIDE DEF x
<1> QED BY <1>1, <1>3, <1>4, <1>5, <1>6, RowMovesOn

\* Objects come and go without their rows.
LEMMA ObjectSteps ==
    ASSUME NEW a \in Attachment, StorageInv, Storage!PutAnswerLost(a) \/ Storage!DeleteObject(a)
    PROVE  StorageInv'
<1>1. /\ UNCHANGED <<today, row, found, request, links, audited>>
      /\ \A o \in objects' : o[1] \in {"QUARANTINE", "PRIVATE"}
  BY DEF Storage!PutAnswerLost, Storage!DeleteObject, StorageInv, StorageTypes
<1> QED BY <1>1 DEF StorageInv, StorageTypes, VerdictIsFinal, ReadIsRecent, LinkIsSound, Uploaded

\* Time passes, but not twice while a request is answered.
LEMMA TickStep == ASSUME StorageInv, Storage!Tick PROVE StorageInv'
<1>1. /\ UNCHANGED <<row, objects, found, request, links, audited>> /\ today' = today + 1 /\ today < MaxTime
      /\ request # Storage!NoDownload => request.at = today
  BY DEF Storage!Tick
<1>2. \A a \in Attachment : Uploaded(a)' <=> Uploaded(a) BY <1>1 DEF Uploaded
<1>3. today \in Nat /\ MaxTime \in Nat /\ MaxTtl \in Nat BY BoundsAssumption DEF StorageInv, StorageTypes
<1>4. \A a \in Attachment : Uploaded(a) => row[a].deletedAt \in Int BY BoundsAssumption DEF Uploaded, RowType
<1>5. StorageTypes'
  <2>1. today' \in 0 .. MaxTime BY <1>1, <1>3
  <2>2. \A a \in Attachment : Uploaded(a)' => row'[a].deletedAt <= today'
    BY <1>1, <1>2, <1>3, <1>4 DEF StorageInv, StorageTypes
  <2> QED BY <1>1, <1>2, <2>1, <2>2 DEF StorageInv, StorageTypes
<1>6. VerdictIsFinal' BY <1>1, <1>2 DEF StorageInv, VerdictIsFinal, StorageTypes
<1>7. ReadIsRecent' BY <1>1, <1>2, <1>3 DEF StorageInv, ReadIsRecent
<1>8. \A l \in links : LinkIsSound(l)' BY <1>1, <1>2, <1>3 DEF StorageInv, LinkIsSound
<1> QED BY <1>1, <1>5, <1>6, <1>7, <1>8 DEF StorageInv

\* A request reads its row.
LEMMA LoadStep ==
    ASSUME NEW a \in Attachment, NEW w \in Workspace, NEW ttl \in {0, MinTtl - 1, MaxTtl + 5},
           StorageInv, Storage!Load(a, w, ttl)
    PROVE  StorageInv'
<1>1. /\ UNCHANGED <<today, row, objects, found, links, audited>> /\ row[a] # Storage!NoRow /\ row[a].workspace = w
      /\ request' = [phase |-> "loaded", attachment |-> a, workspace |-> w, row |-> row[a], ttl |-> ttl, at |-> today]
  BY DEF Storage!Load, Storage!RowOf
<1>2. /\ request'.attachment = a /\ request'.workspace = w /\ request'.row = row[a] /\ request'.ttl = ttl
      /\ request'.at = today
  BY <1>1
<1>3. ttl \in Int /\ today \in Int BY BoundsAssumption DEF StorageInv, StorageTypes
<1>4. Uploaded(a) BY <1>1 DEF StorageInv, StorageTypes
<1>5. \A b : Uploaded(b)' <=> Uploaded(b) BY <1>1 DEF Uploaded
<1>6. ReadIsRecent' BY <1>1, <1>2, <1>3, <1>4, <1>5 DEF ReadIsRecent, Uploaded
<1>7. StorageTypes' /\ VerdictIsFinal' BY <1>1, <1>5 DEF StorageInv, StorageTypes, VerdictIsFinal
<1>8. \A l \in links' : LinkIsSound(l)' BY <1>1, <1>5 DEF StorageInv, LinkIsSound
<1> QED BY <1>6, <1>7, <1>8 DEF StorageInv

\* A lifetime is a number of seconds, at most the longest.
LEMMA LifetimeBounded ==
    ASSUME NEW ttl \in Int
    PROVE  Storage!expiresInSeconds(ttl) \in Int /\ Storage!expiresInSeconds(ttl) <= MaxTtl
<1>1. MinTtl \in Nat /\ MaxTtl \in Nat /\ DefaultTtl \in Nat BY BoundsAssumption
<1> QED BY <1>1 DEF Storage!expiresInSeconds

\* A link is signed for what the request read.
LEMMA SignStep == ASSUME StorageInv, Storage!Sign PROVE StorageInv'
<1> DEFINE seconds == Storage!expiresInSeconds(request.ttl)
           link == [attachment |-> request.attachment, workspace |-> request.workspace,
                    key |-> request.row.key, exp |-> today + seconds]
<1>1. /\ UNCHANGED <<today, row, objects, found>> /\ links' = links \cup {link}
      /\ audited' \in {audited, audited \cup {link}} /\ request' = Storage!NoDownload
      /\ request # Storage!NoDownload /\ request.row.deletedAt = -1
  BY DEF Storage!Sign, Storage!authorizeSignedDownload
<1>2. ReadIsRecent /\ request.ttl \in Int BY <1>1 DEF StorageInv, ReadIsRecent
<1>3. seconds \in Int /\ seconds <= MaxTtl /\ today \in Int /\ MaxTtl \in Nat
  BY <1>2, LifetimeBounded, BoundsAssumption DEF StorageInv, StorageTypes
<1> HIDE DEF seconds
<1>4. /\ link.attachment = request.attachment /\ link.workspace = request.workspace
      /\ link.key = request.row.key /\ link.exp = today + seconds
  OBVIOUS
<1> HIDE DEF link
<1>5. \A b : Uploaded(b)' <=> Uploaded(b) BY <1>1 DEF Uploaded
<1>6. row[request.attachment].deletedAt \in Int BY <1>1, <1>2, BoundsAssumption DEF ReadIsRecent, Uploaded, RowType
<1>7. ASSUME NEW l, l = link PROVE LinkIsSound(l)'
  BY <1>7, <1>1, <1>2, <1>3, <1>4, <1>5, <1>6 DEF LinkIsSound, ReadIsRecent
<1>8. \A l \in links : LinkIsSound(l)' BY <1>1, <1>5 DEF StorageInv, LinkIsSound
<1>9. StorageTypes' /\ VerdictIsFinal' BY <1>1, <1>5 DEF StorageInv, StorageTypes, VerdictIsFinal
<1>10. ReadIsRecent' BY <1>1 DEF ReadIsRecent
<1> QED BY <1>1, <1>7, <1>8, <1>9, <1>10 DEF StorageInv

\* A request is refused.
LEMMA DenyStep == ASSUME StorageInv, Storage!Deny PROVE StorageInv'
<1>1. UNCHANGED <<today, row, objects, found, links, audited>> /\ request' = Storage!NoDownload BY DEF Storage!Deny
<1>2. \A b : Uploaded(b)' <=> Uploaded(b) BY <1>1 DEF Uploaded
<1>3. StorageTypes' /\ VerdictIsFinal' BY <1>1, <1>2 DEF StorageInv, StorageTypes, VerdictIsFinal
<1>4. ReadIsRecent' /\ \A l \in links' : LinkIsSound(l)' BY <1>1, <1>2 DEF StorageInv, ReadIsRecent, LinkIsSound
<1> QED BY <1>3, <1>4 DEF StorageInv

\* Every step preserves it.
LEMMA StorageNext == StorageInv /\ [Storage!Next]_ovars => StorageInv'
<1> SUFFICES ASSUME StorageInv, [Storage!Next]_ovars PROVE StorageInv' OBVIOUS
<1>1. CASE UNCHANGED ovars
  BY <1>1 DEF ovars, StorageInv, StorageTypes, VerdictIsFinal, ReadIsRecent, LinkIsSound, Uploaded
<1>2. CASE Storage!Next
  BY <1>2, UploadStep, ScanStep, PromoteStep, SoftDeleteStep, ObjectSteps, TickStep, LoadStep, SignStep, DenyStep
     DEF Storage!Next
<1> QED BY <1>1, <1>2

\* What the run checks of it.
LEMMA StorageInvImplies ==
    StorageInv => Storage!TypeOK /\ Storage!DeletionEndsAccess /\ Storage!LinkStaysInWorkspace
<1> SUFFICES ASSUME StorageInv PROVE Storage!TypeOK /\ Storage!DeletionEndsAccess /\ Storage!LinkStaysInWorkspace
  OBVIOUS
<1>1. ASSUME NEW a \in Attachment, Uploaded(a)
      PROVE  /\ Len(row[a].key) = 7
             /\ Storage!parseObjectKey(row[a].key)
                  = [ok |-> TRUE, workspace |-> row[a].workspace, month |-> row[a].created.month + 1, id |-> a]
  <2>1. row[a].created \in Storage!CreatedAt BY <1>1 DEF Uploaded, RowType
  <2> QED BY <1>1, <2>1, KeyReadsBack DEF Uploaded
<1>2. Storage!TypeOK
  <2>1. ASSUME NEW a \in Attachment, Uploaded(a)
        PROVE  /\ row[a].workspace \in Workspace /\ row[a].scan \in Storage!ScanStatus
               /\ row[a].zone \in {"QUARANTINE", "PRIVATE"} /\ Len(row[a].key) = 7
               /\ row[a].deletedAt \in -1 .. MaxTime /\ row[a].purgeAfter \in 0 .. MaxTime
    BY <1>1, <2>1 DEF Uploaded, RowType, Storage!ScanStatus
  <2> QED BY <2>1 DEF StorageInv, StorageTypes, Storage!TypeOK
<1>3. Storage!DeletionEndsAccess BY DEF StorageInv, LinkIsSound, Storage!DeletionEndsAccess
<1>4. Storage!LinkStaysInWorkspace
  <2> SUFFICES ASSUME NEW l \in links
               PROVE  LET k == Storage!parseObjectKey(l.key)
                      IN  k.ok /\ k.workspace = l.workspace /\ k.id = l.attachment
                            /\ k.month = row[l.attachment].created.month + 1
    BY DEF Storage!LinkStaysInWorkspace
  <2>1. /\ l.attachment \in Attachment /\ Uploaded(l.attachment)
        /\ l.workspace = row[l.attachment].workspace /\ l.key = row[l.attachment].key
    BY DEF StorageInv, LinkIsSound
  <2>2. Storage!parseObjectKey(l.key)
          = [ok |-> TRUE, workspace |-> l.workspace, month |-> row[l.attachment].created.month + 1, id |-> l.attachment]
    BY <1>1, <2>1
  <2> QED BY <2>2
<1> QED BY <1>2, <1>3, <1>4

\* For every set of workspaces, rights, attachments and lifetimes, and however an administrator's
\* changes fall between the queries of a request: a handler ran only with rights that the
\* account held since its request began, a connection had events of its own workspace only, and
\* a link leads to an object of the caller's workspace and ends soon after its row is deleted
\* (ActorContextService, RealtimeGateway, StorageService).
THEOREM NoRightIsInvented == ServicesSpec => []RightsAreHeld
<1> DEFINE Inv == (part = "access" => AccessInv) /\ (part = "storage" => StorageInv)
<1>1. ServicesInit => Inv BY AccessInit, StorageInit DEF ServicesInit
<1>2. Inv /\ [ServicesNext]_allvars => Inv'
  BY AccessNext, StorageNext DEF ServicesNext, allvars, rvars, ovars
<1>3. Inv => RightsAreHeld BY AccessInvImplies, StorageInvImplies DEF RightsAreHeld
<1> QED BY <1>1, <1>2, <1>3, PTL DEF ServicesSpec

-----------------------------------------------------------------------------
(* What a step never does *)

\* How a record ends: by its time, or by the request whose lease it holds.
EndsByOwner ==
    record # NoRecord /\ record' # record =>
        \/ record' = NoRecord /\ slipped'
        \/ record.status = "IN_FLIGHT" /\
             \/ record' = [status |-> "COMPLETED", lease |-> record.lease]
             \/ record' = NoRecord /\ (answer'[record.lease].kind = "error" \/ pc[record.lease] = "crashed")

\* Only the request that holds a record, or its lifetime, ends it.
LEMMA OwnerEndsRecord == ASSUME IdempotencyInv, Next PROVE EndsByOwner
<1> USE NullAssumption DEF EndsByOwner
<1>1. CASE Expire BY <1>1 DEF Expire
<1>2. ASSUME NEW r \in Request, Claim(r) \/ AnswerFromRecord(r) \/ ClaimThrows(r) \/ HandlerReturns(r)
                                \/ HandlerThrows(r) \/ CompleteThrows(r) \/ ReleaseThrows(r) \/ Crash(r)
      PROVE  EndsByOwner
  BY <1>2 DEF Claim, AnswerFromRecord, ClaimThrows, HandlerReturns, HandlerThrows, CompleteThrows, ReleaseThrows,
              Crash, CommandFails
<1>3. ASSUME NEW r \in Request, Complete(r) PROVE EndsByOwner
  BY <1>3 DEF Complete, CompleteScript, Owns
<1>4. ASSUME NEW r \in Request, Release(r) PROVE EndsByOwner
  <2>1. answer'[r].kind = "error" BY <1>4 DEF Release, Respond, IdempotencyInv, TypeOK
  <2> QED BY <1>4, <2>1 DEF Release, ReleaseScript, Owns
<1>5. ASSUME NEW r \in Request, NEW script \in Script, LateCommand(script, r) PROVE EndsByOwner
  <2>1. /\ script = "claim" => record' = ClaimScript(r)
        /\ script = "complete" => record' = CompleteScript(r)
        /\ script = "release" => record' = ReleaseScript(r)
        /\ script \in {"claim", "complete", "release"}
    BY <1>5 DEF LateCommand, Script
  <2>2. script = "release" => answer'[r].kind = "error" \/ pc[r] = "crashed"
    BY <1>5 DEF LateCommand, IdempotencyInv, TransitInv
  <2> QED BY <2>1, <2>2 DEF ClaimScript, CompleteScript, ReleaseScript, Owns
<1> QED BY <1>1, <1>2, <1>3, <1>4, <1>5 DEF Next, RequestStep

\* An expired token is answered with its own code while its key can be looked up.
LEMMA ExpiredTokenStep ==
    ASSUME AccessInv, Access!VerifyToken(TRUE), req.kind = "rest", req.token \in {"expired", "asymmetricExpired"}
    PROVE  req'.answer = "AUTH_TOKEN_EXPIRED"
<1>1. Access!claimsOf("expired", TRUE) = "AUTH_TOKEN_EXPIRED" /\ Access!claimsOf("asymmetricExpired", TRUE) = "AUTH_TOKEN_EXPIRED"
  BY Zenon DEF Access!claimsOf
<1>2. Access!Refuse("AUTH_TOKEN_EXPIRED") BY <1>1 DEF Access!VerifyToken
<1> QED BY <1>2 DEF Access!Refuse, AccessInv, ReqType

\* A link is only signed for a file that no scan has reported.
LEMMA LinkedIsClean ==
    ASSUME StorageInv, Storage!Next, NEW l \in links' \ links
    PROVE  l.attachment \notin found
<1>1. Storage!Sign
  BY DEF Storage!Next, Storage!Upload, Storage!PutAnswerLost, Storage!Promote, Storage!SoftDelete,
         Storage!DeleteObject, Storage!Scan, Storage!Load, Storage!Deny, Storage!Tick
<1>2. request # Storage!NoDownload /\ request.row.scan = "CLEAN"
  BY <1>1 DEF Storage!Sign, Storage!authorizeSignedDownload
<1>3. l.attachment = request.attachment BY <1>1 DEF Storage!Sign
<1>4. row[request.attachment].scan = "CLEAN" BY <1>2 DEF StorageInv, ReadIsRecent
<1> QED BY <1>3, <1>4 DEF StorageInv, VerdictIsFinal

\* A probe has seen each dependency that it reports, or that was there at some time since it began.
ProbeType == [db : {"asked", "UP", "DEGRADED", "DOWN"}, redis : {"asked", "UP", "DEGRADED", "DOWN", "unchecked"},
              met : SUBSET {"db", "redis"}]
ProbeIsTrue(i) ==
    probe[i] # Shared!NoProbe =>
        /\ probe[i] \in ProbeType
        /\ dbUp \/ probe[i].db = "UP" => "db" \in probe[i].met
        /\ redisUp \/ probe[i].redis = "UP" => "redis" \in probe[i].met
        /\ probe[i].redis = "unchecked" => store = "memory"

ProbeInv ==
    /\ probe = [i \in Instance |-> probe[i]] /\ report = [i \in Instance |-> report[i]]
    /\ store \in {"redis", "memory"} /\ \A i \in Instance : ProbeIsTrue(i)

\* A report of an instance that is ready names what it reached.
ReadyIsTrue ==
    \A i \in Instance :
        report'[i] = "UP" /\ probe[i] # Shared!NoProbe /\ probe'[i] = Shared!NoProbe =>
            (IF store = "redis" THEN {"db", "redis"} ELSE {"db"}) \subseteq probe[i].met

\* No probe is under way at first.
LEMMA ProbeInit == ASSUME Shared!Init PROVE ProbeInv
BY DEF Shared!Init, ProbeInv, ProbeIsTrue

\* A dependency comes back, or goes.
LEMMA DependencySteps ==
    ASSUME ProbeInv, Shared!RedisChanges \/ Shared!DatabaseChanges PROVE ProbeInv' /\ ReadyIsTrue
<1> USE DEF ProbeInv
<1>1. CASE Shared!RedisChanges
  <2>1. UNCHANGED <<store, report, dbUp>> /\ (probe' = probe \/ probe' = Shared!Meets("redis"))
        /\ (redisUp' => probe' = Shared!Meets("redis"))
    BY <1>1 DEF Shared!RedisChanges, Shared!limitvars
  <2>2. ASSUME NEW i \in Instance PROVE ProbeIsTrue(i)' /\ (probe'[i] = Shared!NoProbe => probe[i] = Shared!NoProbe)
    <3> DEFINE x == [probe[i] EXCEPT !.met = probe[i].met \cup {"redis"}]
    <3>1. probe[i] # Shared!NoProbe =>
             /\ x \in ProbeType /\ x.db = probe[i].db /\ x.redis = probe[i].redis
             /\ x.met = probe[i].met \cup {"redis"}
      BY DEF ProbeIsTrue, ProbeType
    <3>2. x \in ProbeType => x # Shared!NoProbe BY DEF ProbeType, Shared!NoProbe
    <3>3. probe' = Shared!Meets("redis") => probe'[i] = IF probe[i] = Shared!NoProbe THEN Shared!NoProbe ELSE x
      BY DEF Shared!Meets
    <3> HIDE DEF x
    <3> QED BY <2>1, <3>1, <3>2, <3>3 DEF ProbeIsTrue
  <2>3. probe' = [i \in Instance |-> probe'[i]] BY <2>1 DEF Shared!Meets
  <2> QED BY <2>1, <2>2, <2>3 DEF ReadyIsTrue
<1>2. CASE Shared!DatabaseChanges
  <2>1. UNCHANGED <<store, report, redisUp>> /\ (probe' = probe \/ probe' = Shared!Meets("db"))
        /\ (dbUp' => probe' = Shared!Meets("db"))
    BY <1>2 DEF Shared!DatabaseChanges, Shared!limitvars
  <2>2. ASSUME NEW i \in Instance PROVE ProbeIsTrue(i)' /\ (probe'[i] = Shared!NoProbe => probe[i] = Shared!NoProbe)
    <3> DEFINE x == [probe[i] EXCEPT !.met = probe[i].met \cup {"db"}]
    <3>1. probe[i] # Shared!NoProbe =>
             /\ x \in ProbeType /\ x.db = probe[i].db /\ x.redis = probe[i].redis
             /\ x.met = probe[i].met \cup {"db"}
      BY DEF ProbeIsTrue, ProbeType
    <3>2. x \in ProbeType => x # Shared!NoProbe BY DEF ProbeType, Shared!NoProbe
    <3>3. probe' = Shared!Meets("db") => probe'[i] = IF probe[i] = Shared!NoProbe THEN Shared!NoProbe ELSE x
      BY DEF Shared!Meets
    <3> HIDE DEF x
    <3> QED BY <2>1, <3>1, <3>2, <3>3 DEF ProbeIsTrue
  <2>3. probe' = [i \in Instance |-> probe'[i]] BY <2>1 DEF Shared!Meets
  <2> QED BY <2>1, <2>2, <2>3 DEF ReadyIsTrue
<1> QED BY <1>1, <1>2

\* The steps that touch neither probes nor dependencies.
LEMMA OtherSharedSteps ==
    ASSUME ProbeInv, UNCHANGED <<store, probe, report, redisUp, dbUp>> PROVE ProbeInv' /\ ReadyIsTrue
BY DEF ProbeInv, ProbeIsTrue, ReadyIsTrue

\* A probe of one instance moves on.
LEMMA OneProbe ==
    ASSUME ProbeInv, NEW i \in Instance, NEW x, probe' = [probe EXCEPT ![i] = x], UNCHANGED <<store, redisUp, dbUp>>,
           \/ x = Shared!NoProbe
           \/ /\ x \in ProbeType /\ (dbUp \/ x.db = "UP" => "db" \in x.met)
              /\ (redisUp \/ x.redis = "UP" => "redis" \in x.met) /\ (x.redis = "unchecked" => store = "memory"),
           NEW v, report' = [report EXCEPT ![i] = v],
           v = "UP" /\ x = Shared!NoProbe /\ probe[i] # Shared!NoProbe =>
              (IF store = "redis" THEN {"db", "redis"} ELSE {"db"}) \subseteq probe[i].met
    PROVE  ProbeInv' /\ ReadyIsTrue
<1> USE DEF ProbeInv
<1>1. probe'[i] = x /\ report'[i] = v /\ \A j \in Instance \ {i} : probe'[j] = probe[j] /\ report'[j] = report[j]
  OBVIOUS
<1>2. probe' = [j \in Instance |-> probe'[j]] /\ report' = [j \in Instance |-> report'[j]] OBVIOUS
<1>3. ASSUME NEW j \in Instance PROVE ProbeIsTrue(j)' BY <1>1 DEF ProbeIsTrue
<1>4. ReadyIsTrue BY <1>1 DEF ReadyIsTrue
<1> QED BY <1>2, <1>3, <1>4

\* A probe starts, hears of a dependency, and answers.
LEMMA ProbeSteps ==
    ASSUME ProbeInv, NEW i \in Instance,
           \/ Shared!ProbeStarts(i) \/ Shared!DatabaseChecked(i) \/ Shared!RedisChecked(i) \/ Shared!ProbeAnswered(i)
           \/ Shared!Shutdown(i)
    PROVE  ProbeInv' /\ ReadyIsTrue
<1> USE DEF ProbeInv
<1>0. UNCHANGED <<store, redisUp, dbUp>>
  BY DEF Shared!ProbeStarts, Shared!DatabaseChecked, Shared!RedisChecked, Shared!ProbeAnswered, Shared!Shutdown,
         Shared!limitvars
<1>1. CASE Shared!ProbeStarts(i)
  <2> DEFINE x == [db |-> "asked", redis |-> "asked",
                   met |-> {d \in {"db", "redis"} : IF d = "db" THEN dbUp ELSE redisUp}]
  <2>1. probe' = [probe EXCEPT ![i] = x] /\ report' = [report EXCEPT ![i] = report[i]] /\ probe[i] = Shared!NoProbe
    BY <1>1 DEF Shared!ProbeStarts
  <2>2. x \in ProbeType /\ (dbUp => "db" \in x.met) /\ (redisUp => "redis" \in x.met)
        /\ x.db = "asked" /\ x.redis = "asked"
    BY DEF ProbeType
  <2> HIDE DEF x
  <2> QED BY <1>0, <2>1, <2>2, OneProbe
<1>2. CASE Shared!DatabaseChecked(i)
  <2>1. PICK v \in Shared!checkDatabaseHealth : probe' = [probe EXCEPT ![i].db = v] BY <1>2 DEF Shared!DatabaseChecked
  <2> DEFINE x == [probe[i] EXCEPT !.db = v]
  <2>2. /\ probe' = [probe EXCEPT ![i] = x] /\ report' = [report EXCEPT ![i] = report[i]]
    BY <1>2, <2>1 DEF Shared!DatabaseChecked
  <2>3. probe[i] # Shared!NoProbe BY <1>2 DEF Shared!DatabaseChecked, Shared!NoProbe
  <2>4. v \in {"UP", "DEGRADED", "DOWN"} /\ (v = "UP" => dbUp) BY DEF Shared!checkDatabaseHealth
  <2>5. x \in ProbeType /\ x.db = v /\ x.redis = probe[i].redis /\ x.met = probe[i].met
    BY <2>3, <2>4 DEF ProbeType, ProbeIsTrue
  <2>6. x # Shared!NoProbe BY <2>5 DEF ProbeType, Shared!NoProbe
  <2> HIDE DEF x
  <2>7. /\ dbUp \/ x.db = "UP" => "db" \in x.met
        /\ redisUp \/ x.redis = "UP" => "redis" \in x.met
        /\ x.redis = "unchecked" => store = "memory"
    BY <2>3, <2>4, <2>5 DEF ProbeIsTrue
  <2> QED BY <1>0, <2>2, <2>5, <2>6, <2>7, OneProbe
<1>3. CASE Shared!RedisChecked(i)
  <2>1. PICK v \in Shared!checkRedisHealth(i) : probe' = [probe EXCEPT ![i].redis = v] BY <1>3 DEF Shared!RedisChecked
  <2> DEFINE x == [probe[i] EXCEPT !.redis = v]
  <2>2. /\ probe' = [probe EXCEPT ![i] = x] /\ report' = [report EXCEPT ![i] = report[i]]
    BY <1>3, <2>1 DEF Shared!RedisChecked
  <2>3. probe[i] # Shared!NoProbe BY <1>3 DEF Shared!RedisChecked, Shared!NoProbe
  <2>4. v \in {"UP", "DEGRADED", "DOWN", "unchecked"} /\ (v = "UP" => redisUp) /\ (v = "unchecked" => store = "memory")
    BY DEF Shared!checkRedisHealth
  <2>5. x \in ProbeType /\ x.redis = v /\ x.db = probe[i].db /\ x.met = probe[i].met
    BY <2>3, <2>4 DEF ProbeType, ProbeIsTrue
  <2>6. x # Shared!NoProbe BY <2>5 DEF ProbeType, Shared!NoProbe
  <2> HIDE DEF x
  <2>7. /\ dbUp \/ x.db = "UP" => "db" \in x.met
        /\ redisUp \/ x.redis = "UP" => "redis" \in x.met
        /\ x.redis = "unchecked" => store = "memory"
    BY <2>3, <2>4, <2>5 DEF ProbeIsTrue
  <2> QED BY <1>0, <2>2, <2>5, <2>6, <2>7, OneProbe
<1>4. CASE Shared!ProbeAnswered(i)
  <2> DEFINE v == Shared!buildReadinessReport(probe[i])
  <2>1. /\ probe' = [probe EXCEPT ![i] = Shared!NoProbe] /\ report' = [report EXCEPT ![i] = v]
        /\ probe[i] # Shared!NoProbe
    BY <1>4 DEF Shared!ProbeAnswered
  <2>2. v = "UP" => probe[i].db = "UP" /\ probe[i].redis \in {"UP", "unchecked"} BY DEF Shared!buildReadinessReport
  <2>3. v = "UP" => (IF store = "redis" THEN {"db", "redis"} ELSE {"db"}) \subseteq probe[i].met
    BY <2>1, <2>2 DEF ProbeIsTrue
  <2> HIDE DEF v
  <2> QED BY <1>0, <2>1, <2>3, OneProbe
<1>5. CASE Shared!Shutdown(i)
  <2>1. probe' = [probe EXCEPT ![i] = Shared!NoProbe] /\ report' = [report EXCEPT ![i] = "none"]
    BY <1>5 DEF Shared!Shutdown
  <2> QED BY <1>0, <2>1, OneProbe, ZenonT(60)
<1> QED BY <1>1, <1>2, <1>3, <1>4, <1>5

\* Every step, of hits and of probes.
LEMMA ProbeNext == ASSUME ProbeInv, Shared!HitNext \/ Shared!ProbeNext PROVE ProbeInv' /\ ReadyIsTrue
<1>1. CASE Shared!RedisChanges \/ Shared!DatabaseChanges BY <1>1, DependencySteps
<1>2. ASSUME NEW i \in Instance, Shared!Connect(i) \/ Shared!Started(i) PROVE ProbeInv' /\ ReadyIsTrue
  BY <1>2, OtherSharedSteps DEF Shared!Connect, Shared!Started, Shared!limitvars, Shared!probevars
<1>3. ASSUME NEW i \in Instance, Shared!HitRuns(i) \/ Shared!HitEnds(i) PROVE ProbeInv' /\ ReadyIsTrue
  BY <1>3, OtherSharedSteps DEF Shared!HitRuns, Shared!HitEnds, Shared!probevars
<1>4. ASSUME NEW i \in Instance, NEW x \in Identity, Shared!HitSent(i, x) \/ Shared!MemoryHit(i, x)
      PROVE  ProbeInv' /\ ReadyIsTrue
  BY <1>4, OtherSharedSteps DEF Shared!HitSent, Shared!MemoryHit, Shared!probevars
<1>5. CASE Shared!Tick \/ Shared!LateHitRuns
  BY <1>5, OtherSharedSteps DEF Shared!Tick, Shared!LateHitRuns, Shared!probevars
<1> QED BY <1>1, <1>2, <1>3, <1>4, <1>5, ProbeSteps DEF Shared!HitNext, Shared!ProbeNext, Shared!Surroundings

\* Two settings updates: one that met no other has read what is there.
UpdateType == [phase : {"checked", "replacing"}, asked : [Settings!Field -> Admin \cup {"unset"}],
               settings : [Settings!Field -> Admin \cup {"default"}], replaces : BOOLEAN,
               chosen : SUBSET Agent, before : SUBSET Agent, alone : BOOLEAN]
UpdateIsSound(a) ==
    update[a] # Settings!Idle =>
        /\ update[a] \in UpdateType
        /\ update[a].asked \in [Settings!Field -> {a, "unset"}]
        /\ update[a].replaces \/ update[a].chosen = {}
        /\ update[a].alone =>
              /\ \A b \in Admin \ {a} : update[b] = Settings!Idle
              /\ update[a].settings = Settings!Merged(settings, update[a].asked)
              /\ update[a].phase = "replacing" => update[a].before = IF update[a].replaces THEN agents ELSE {}
SettingsInv ==
    /\ settings \in [Settings!Field -> Admin \cup {"default"}] /\ agents \subseteq Agent /\ active \subseteq Agent
    /\ update = [a \in Admin |-> update[a]]
    /\ \A a \in Admin : UpdateIsSound(a)

AloneIsTrue ==
    \A a \in Admin :
        update[a].phase = "replacing" /\ update[a].alone /\ update'[a] = Settings!Idle =>
            /\ agents' = IF update[a].replaces THEN update[a].chosen ELSE agents
            /\ \A f \in Settings!Field : settings'[f] = IF update[a].asked[f] = "unset" THEN settings[f] ELSE a

\* No update is under way at first.
LEMMA SettingsInit == ASSUME Settings!Init PROVE SettingsInv
BY DEF Settings!Init, SettingsInv, UpdateIsSound

\* An update begins with what it read.
LEMMA BeginUpdateStep ==
    ASSUME SettingsInv, NEW a \in Admin, NEW replaces \in BOOLEAN, NEW chosen \in SUBSET Agent,
           NEW asked \in [Settings!Field -> {a, "unset"}], Settings!Begin(a, asked, replaces, chosen)
    PROVE  SettingsInv' /\ AloneIsTrue
<1> DEFINE only == \A y \in Admin : update[y] = Settings!Idle
           x == [phase |-> "checked", asked |-> asked, settings |-> Settings!Merged(settings, asked),
                 replaces |-> replaces, chosen |-> chosen, before |-> {}, alone |-> only]
           Over(b) == [update[b] EXCEPT !.alone = FALSE]
<1>1. /\ UNCHANGED <<settings, agents, active>> /\ (replaces \/ chosen = {}) /\ update[a] = Settings!Idle
      /\ update' = [b \in Admin |-> IF b = a THEN x
                                   ELSE IF update[b] = Settings!Idle THEN Settings!Idle ELSE Over(b)]
  BY Zenon DEF Settings!Begin
<1>2. only \in BOOLEAN BY Zenon
<1>3. only => \A y \in Admin : update[y] = Settings!Idle BY Zenon
<1> HIDE DEF only
<1>4. Settings!Merged(settings, asked) \in [Settings!Field -> Admin \cup {"default"}]
  BY DEF Settings!Merged, SettingsInv
<1>5. /\ x \in UpdateType /\ x.asked = asked /\ x.settings = Settings!Merged(settings, asked) /\ x.phase = "checked"
      /\ x.replaces = replaces /\ x.chosen = chosen
  BY <1>2, <1>4 DEF UpdateType
<1>6. x.alone => \A y \in Admin : update[y] = Settings!Idle BY <1>3
<1> HIDE DEF x
<1>7. ASSUME NEW b \in Admin, b # a, update[b] # Settings!Idle
      PROVE  /\ Over(b) \in UpdateType /\ Over(b).asked = update[b].asked /\ Over(b).replaces = update[b].replaces
             /\ Over(b).chosen = update[b].chosen /\ ~Over(b).alone
  <2>1. update[b] \in UpdateType BY <1>7 DEF SettingsInv, UpdateIsSound
  <2>2. /\ Over(b) \in UpdateType /\ Over(b).asked = update[b].asked /\ Over(b).replaces = update[b].replaces
        /\ Over(b).chosen = update[b].chosen
    BY <2>1 DEF UpdateType
  <2>3. ~Over(b).alone
    <3>1. "alone" \in DOMAIN update[b] BY <2>1 DEF UpdateType
    <3> QED BY <3>1, Zenon
  <2> QED BY <2>2, <2>3
<1> HIDE DEF Over
<1>8. update'[a] = x /\ \A b \in Admin \ {a} : update'[b] = IF update[b] = Settings!Idle THEN Settings!Idle ELSE Over(b)
  BY <1>1
<1>9. UpdateIsSound(a)' BY <1>1, <1>5, <1>6, <1>8 DEF UpdateIsSound
<1>10. ASSUME NEW b \in Admin, b # a PROVE UpdateIsSound(b)'
  BY <1>7, <1>8, <1>10 DEF UpdateIsSound, SettingsInv
<1>11. update' = [b \in Admin |-> update'[b]] BY <1>1
<1>12. AloneIsTrue
  <2>1. \A b \in Admin : update'[b] = Settings!Idle => update[b] = Settings!Idle
    <3>1. \A y \in UpdateType : y # Settings!Idle BY DEF UpdateType, Settings!Idle
    <3> QED BY <1>5, <1>7, <1>8, <3>1
  <2> QED BY <2>1 DEF AloneIsTrue, Settings!Idle
<1> QED BY <1>1, <1>9, <1>10, <1>11, <1>12 DEF SettingsInv

\* The members are deleted inside the transaction.
LEMMA DeleteMembersStep == ASSUME SettingsInv, NEW a \in Admin, Settings!DeleteMembers(a) PROVE SettingsInv' /\ AloneIsTrue
<1> DEFINE gone == IF update[a].replaces THEN agents ELSE {}
           x == [update[a] EXCEPT !.phase = "replacing", !.before = gone]
<1>1. /\ UNCHANGED <<settings, agents, active>> /\ update' = [update EXCEPT ![a] = x] /\ update[a].phase = "checked"
  BY DEF Settings!DeleteMembers, Settings!DeletedRows
<1>2. update[a] # Settings!Idle /\ update[a] \in UpdateType BY <1>1 DEF Settings!Idle, SettingsInv, UpdateIsSound
<1>3. gone \subseteq Agent BY DEF SettingsInv
<1>4. /\ x \in UpdateType /\ x.asked = update[a].asked /\ x.settings = update[a].settings
      /\ x.replaces = update[a].replaces /\ x.chosen = update[a].chosen /\ x.alone = update[a].alone
      /\ x.before = gone
  <2> HIDE DEF gone
  <2> QED BY <1>2, <1>3 DEF UpdateType
<1> HIDE DEF x
<1>5. update'[a] = x /\ \A b \in Admin \ {a} : update'[b] = update[b] BY <1>1 DEF SettingsInv
<1>6. UpdateIsSound(a)'
  <2>1. update[a].alone => \A b \in Admin \ {a} : update'[b] = Settings!Idle
    BY <1>2, <1>5 DEF UpdateIsSound, SettingsInv
  <2>2. update[a].asked \in [Settings!Field -> {a, "unset"}] /\ (update[a].replaces \/ update[a].chosen = {})
    BY <1>2 DEF UpdateIsSound, SettingsInv
  <2>3. update[a].alone => update[a].settings = Settings!Merged(settings, update[a].asked)
    BY <1>2 DEF UpdateIsSound, SettingsInv
  <2> QED BY <1>1, <1>4, <1>5, <2>1, <2>2, <2>3 DEF UpdateIsSound
<1>7. ASSUME NEW b \in Admin, b # a PROVE UpdateIsSound(b)'
  <2>1. update[b] # Settings!Idle => ~update[b].alone BY <1>2, <1>7 DEF UpdateIsSound, SettingsInv
  <2> QED BY <1>1, <1>5, <1>7, <2>1 DEF UpdateIsSound, SettingsInv
<1>8. update' = [b \in Admin |-> update'[b]] BY <1>1 DEF SettingsInv
<1>9. AloneIsTrue
  <2>1. x # Settings!Idle BY <1>4 DEF UpdateType, Settings!Idle
  <2> QED BY <1>5, <2>1 DEF AloneIsTrue, Settings!Idle
<1> QED BY <1>1, <1>6, <1>7, <1>8, <1>9 DEF SettingsInv

\* The update is committed, or fails as a whole.
LEMMA CommitUpdateStep == ASSUME SettingsInv, NEW a \in Admin, Settings!Commit(a) PROVE SettingsInv' /\ AloneIsTrue
<1> DEFINE kept == agents \ update[a].before
<1>1. /\ update' = [update EXCEPT ![a] = Settings!Idle] /\ update[a].phase = "replacing" /\ active' = active
      /\ IF kept \cap update[a].chosen = {}
         THEN agents' = kept \cup update[a].chosen /\ settings' = update[a].settings
         ELSE UNCHANGED <<agents, settings>>
  BY DEF Settings!Commit
<1>2. update[a] # Settings!Idle /\ update[a] \in UpdateType BY <1>1 DEF Settings!Idle, SettingsInv, UpdateIsSound
<1>3. update'[a] = Settings!Idle /\ \A b \in Admin \ {a} : update'[b] = update[b] BY <1>1 DEF SettingsInv
<1>4. settings' \in [Settings!Field -> Admin \cup {"default"}] /\ agents' \subseteq Agent
  BY <1>1, <1>2 DEF SettingsInv, UpdateType
<1>5. ASSUME NEW b \in Admin PROVE UpdateIsSound(b)'
  <2>1. b # a /\ update[b] # Settings!Idle => ~update[b].alone BY <1>2 DEF UpdateIsSound, SettingsInv
  <2> QED BY <1>3, <2>1 DEF UpdateIsSound, SettingsInv
<1>6. update' = [b \in Admin |-> update'[b]] BY <1>1 DEF SettingsInv
<1>7. AloneIsTrue
  <2>1. \A b \in Admin \ {a} : update'[b] = Settings!Idle => update[b].phase # "replacing" BY <1>3 DEF Settings!Idle
  <2>2. ASSUME update[a].alone
        PROVE  /\ agents' = IF update[a].replaces THEN update[a].chosen ELSE agents
               /\ \A f \in Settings!Field : settings'[f] = IF update[a].asked[f] = "unset" THEN settings[f] ELSE a
    <3>1. /\ update[a].before = IF update[a].replaces THEN agents ELSE {}
          /\ update[a].settings = Settings!Merged(settings, update[a].asked)
      BY <1>1, <1>2, <2>2 DEF UpdateIsSound, SettingsInv
    <3>2. update[a].replaces \/ update[a].chosen = {} BY <1>2 DEF UpdateIsSound, SettingsInv
    <3>3. kept \cap update[a].chosen = {} BY <3>1, <3>2
    <3>4. agents' = kept \cup update[a].chosen /\ settings' = update[a].settings BY <1>1, <3>3
    <3>5. agents' = IF update[a].replaces THEN update[a].chosen ELSE agents BY <3>1, <3>2, <3>4
    <3>6. update[a].asked \in [Settings!Field -> {a, "unset"}] BY <1>2 DEF UpdateIsSound, SettingsInv
    <3> QED BY <3>1, <3>4, <3>5, <3>6 DEF Settings!Merged
  <2> QED BY <2>1, <2>2 DEF AloneIsTrue
<1> QED BY <1>1, <1>4, <1>5, <1>6, <1>7 DEF SettingsInv

\* Every step of the settings.
LEMMA SettingsNext == ASSUME SettingsInv, Settings!Next PROVE SettingsInv' /\ AloneIsTrue
<1>1. ASSUME NEW g \in Agent, Settings!Leaves(g) PROVE SettingsInv' /\ AloneIsTrue
  <2>1. UNCHANGED <<settings, agents, update>> /\ active' \subseteq active BY <1>1 DEF Settings!Leaves
  <2> QED BY <2>1 DEF SettingsInv, UpdateIsSound, AloneIsTrue, Settings!Idle
<1> QED BY <1>1, BeginUpdateStep, DeleteMembersStep, CommitUpdateStep DEF Settings!Next

-----------------------------------------------------------------------------
(* The web chat *)

PollType == [pc : {"none", "sent", "answered"}, after : 0 .. MaxMsg, ids : SUBSET Chat!Msg, chain : BOOLEAN]

\* The rows and what the widget shows of them.
ChatTypes ==
    /\ next \in 1 .. MaxMsg + 1 /\ writing \subseteq Chat!Msg /\ rows \subseteq Chat!Msg /\ overtaken \subseteq Chat!Msg
    /\ dir \in [Chat!Msg -> {"IN", "OUT"}] /\ text \in [Chat!Msg -> Text]
    /\ status \in [Chat!Msg -> {"PENDING", "SENT", "DELIVERED"}]
    /\ visitor \in {"none", "asking", "good", "stale"}
    /\ lastSeen \in 0 .. MaxMsg /\ shown \subseteq Chat!Msg /\ fresh \subseteq shown
    /\ polls \in [Chat!Slot -> PollType] /\ trouble \in 0 .. MaxTrouble

ChatFlags == open \in BOOLEAN /\ timer \in BOOLEAN /\ later \in BOOLEAN

\* A request that is over has left nothing behind.
PollsAreBare ==
    \A s \in Chat!Slot : /\ polls[s].pc = "none" => ~polls[s].chain
                         /\ polls[s].pc # "answered" => polls[s].ids = {}

\* What was written, shown or fetched has a created_at in the past.
InThePast ==
    /\ writing \cap rows = {} /\ lastSeen < next
    /\ \A m \in writing \cup rows \cup shown : m < next
    /\ \A s \in Chat!Slot : polls[s].after < next /\ \A m \in polls[s].ids : m < next

\* Whoever has seen S may go on from L: rows up to L are in S, and those being written will
\* have been overtaken by L.
Covered(w, r, o, L, S) ==
    /\ \A m \in w : m <= L => L \in r /\ m # L
    /\ \A m \in r \ o : m <= L => m \in S

NothingMissed ==
    /\ Covered(writing, rows, overtaken, lastSeen, shown)
    /\ \A s \in Chat!Slot :
          /\ Covered(writing, rows, overtaken, polls[s].after, shown)
          /\ \A k \in polls[s].ids : Covered(writing, rows, overtaken, k, shown \cup polls[s].ids)

\* What the visitor wrote, and where a message on display with a bubble is.
PostTypes ==
    /\ post \in Text \cup {"none"} /\ posts \in 0 .. MaxPost /\ accepted \in [Text -> Nat]
    /\ \A t \in Text : accepted[t] <= posts /\ (post # "none" /\ post = t => accepted[t] + 1 <= posts)
    /\ bubbles \subseteq (1 .. MaxPost) \X Text
Underway(t) ==
    \/ post # "none" /\ post = t
    \/ accepted[t] > 0
    \/ \E m \in (rows \cup writing) \ shown : dir[m] = "IN" /\ text[m] = t
BubblesUnderway == trouble = 0 => visitor # "stale" /\ \A b \in bubbles : Underway(b[2])

ChatInv ==
    /\ ChatTypes /\ ChatFlags /\ PollsAreBare /\ InThePast /\ NothingMissed
    /\ unread = Cardinality(fresh) /\ PostTypes /\ BubblesUnderway

\* The chat starts in the invariant.
LEMMA ChatInit == ASSUME Chat!Init PROVE ChatInv
<1> USE BoundsAssumption DEF Chat!Init
<1>1. (CHOOSE t \in Text : TRUE) \in Text OBVIOUS
<1> HIDE DEF Chat!Init
<1>2. /\ next = 1 /\ writing = {} /\ rows = {} /\ overtaken = {} /\ lastSeen = 0 /\ shown = {} /\ unread = 0
      /\ bubbles = {} /\ fresh = {} /\ post = "none" /\ posts = 0 /\ accepted = [t \in Text |-> 0] /\ trouble = 0
      /\ visitor \in {"none", "asking"}
      /\ polls = [s \in Chat!Slot |-> [pc |-> "none", after |-> 0, ids |-> {}, chain |-> FALSE]]
  BY DEF Chat!Init, Chat!NoPoll
<1>3. /\ dir \in [Chat!Msg -> {"IN", "OUT"}] /\ text \in [Chat!Msg -> Text]
      /\ status \in [Chat!Msg -> {"PENDING", "SENT", "DELIVERED"}]
  BY <1>1 DEF Chat!Init
<1>4. ChatFlags BY Zenon DEF ChatFlags, Chat!Init
<1>5. polls \in [Chat!Slot -> PollType] BY <1>2 DEF PollType
<1>6. \A s \in Chat!Slot : polls[s].pc = "none" /\ polls[s].ids = {} /\ polls[s].after = 0 /\ ~polls[s].chain BY <1>2
<1>7. ChatTypes BY <1>2, <1>3, <1>5 DEF ChatTypes
<1>8. PollsAreBare BY <1>6 DEF PollsAreBare
<1>9. InThePast BY <1>2, <1>6 DEF InThePast
<1>10. NothingMissed BY <1>2, <1>6 DEF NothingMissed, Covered
<1>11. unread = Cardinality(fresh) BY <1>2, FS_EmptySet
<1>12. PostTypes /\ BubblesUnderway BY <1>2 DEF PostTypes, BubblesUnderway
<1> QED BY <1>4, <1>7, <1>8, <1>9, <1>10, <1>11, <1>12 DEF ChatInv

\* What happens to the rows keeps what is covered: a row that is committed below L comes after L.
RowsMove ==
    /\ next' \in Int /\ next' >= next
    /\ \/ UNCHANGED <<writing, rows, overtaken>>
       \/ writing' = writing \cup {next} /\ next' > next /\ UNCHANGED <<rows, overtaken>>
       \/ \E m \in writing : /\ writing' = writing \ {m} /\ rows' = rows \cup {m}
                             /\ overtaken' = IF \E k \in rows : k > m THEN overtaken \cup {m} ELSE overtaken
       \/ writing' = {} /\ rows' = {}

\* What a cursor covers stays covered.
LEMMA CoveredStays ==
    ASSUME ChatTypes, InThePast, RowsMove, NEW L \in Int, L < next, NEW S, NEW T, S \subseteq T,
           Covered(writing, rows, overtaken, L, S)
    PROVE  Covered(writing', rows', overtaken', L, T)
<1>0. \A m \in writing \cup rows : m \in Int
  <2>1. \A m \in Chat!Msg : m \in Int BY BoundsAssumption DEF Chat!Msg
  <2>2. writing \subseteq Chat!Msg /\ rows \subseteq Chat!Msg BY DEF ChatTypes
  <2> QED BY <2>1, <2>2
<1>1. CASE UNCHANGED <<writing, rows, overtaken>> BY <1>1 DEF Covered
<1>2. CASE writing' = writing \cup {next} /\ UNCHANGED <<rows, overtaken>>
  <2>1. next \in Int /\ ~(next <= L) BY BoundsAssumption DEF ChatTypes
  <2> QED BY <1>2, <2>1 DEF Covered
<1>3. ASSUME NEW m \in writing, writing' = writing \ {m}, rows' = rows \cup {m},
             overtaken' = IF \E k \in rows : k > m THEN overtaken \cup {m} ELSE overtaken
      PROVE  Covered(writing', rows', overtaken', L, T)
  <2>1. m <= L => L \in rows /\ L > m BY <1>0 DEF Covered
  <2>2. m <= L => m \in overtaken' BY <1>3, <2>1
  <2>3. \A k \in rows' \ overtaken' : k = m \/ k \in rows \ overtaken BY <1>3
  <2> QED BY <1>3, <2>1, <2>2, <2>3 DEF Covered
<1>4. CASE writing' = {} /\ rows' = {} BY <1>4 DEF Covered
<1> QED BY <1>1, <1>2, <1>3, <1>4 DEF RowsMove

\* The widget's view is not touched: nothing is missed.
LEMMA RowsMoveStep ==
    ASSUME ChatTypes, InThePast, NothingMissed, RowsMove, UNCHANGED <<lastSeen, shown, polls>>
    PROVE  InThePast' /\ NothingMissed'
<1>0. next \in Int /\ \A m \in writing \cup rows \cup shown : m \in Int BY BoundsAssumption DEF ChatTypes, Chat!Msg
<1>1. ASSUME NEW s \in Chat!Slot PROVE polls[s].after \in Int /\ \A k \in polls[s].ids : k \in Int
  BY BoundsAssumption DEF ChatTypes, PollType, Chat!Msg
<1>2. InThePast'
  <2>1. \A m \in writing' \cup rows' : m \in writing \cup rows \/ (m = next /\ next' > next) BY DEF RowsMove
  <2>2. writing' \cap rows' = {} BY <1>0 DEF RowsMove, InThePast
  <2>3. \A m \in writing' \cup rows' \cup shown : m < next' BY <1>0, <2>1 DEF InThePast, RowsMove
  <2>4. lastSeen < next' BY <1>0, BoundsAssumption DEF InThePast, RowsMove, ChatTypes
  <2>5. \A s \in Chat!Slot : polls[s].after < next' /\ \A m \in polls[s].ids : m < next'
    BY <1>0, <1>1 DEF InThePast, RowsMove
  <2> QED BY <2>2, <2>3, <2>4, <2>5 DEF InThePast
<1>3. Covered(writing', rows', overtaken', lastSeen, shown)
  BY CoveredStays, BoundsAssumption DEF NothingMissed, InThePast, ChatTypes
<1>4. ASSUME NEW s \in Chat!Slot
      PROVE  /\ Covered(writing', rows', overtaken', polls[s].after, shown)
             /\ \A k \in polls[s].ids : Covered(writing', rows', overtaken', k, shown \cup polls[s].ids)
  BY <1>1, CoveredStays DEF NothingMissed, InThePast
<1> QED BY <1>2, <1>3, <1>4 DEF NothingMissed

\* One request of the widget moves on.
LEMMA OnePoll ==
    ASSUME ChatTypes, PollsAreBare, InThePast, NothingMissed, NEW s \in Chat!Slot, NEW x \in PollType,
           polls' = [polls EXCEPT ![s] = x], UNCHANGED <<next, writing, rows, overtaken>>,
           shown \subseteq shown', \A m \in shown' : m < next, lastSeen' < next,
           Covered(writing, rows, overtaken, lastSeen', shown'),
           x.after < next, \A m \in x.ids : m < next, x.pc = "none" => ~x.chain, x.pc # "answered" => x.ids = {},
           Covered(writing, rows, overtaken, x.after, shown'),
           \A k \in x.ids : Covered(writing, rows, overtaken, k, shown' \cup x.ids)
    PROVE  polls' \in [Chat!Slot -> PollType] /\ PollsAreBare' /\ InThePast' /\ NothingMissed'
<1>1. polls' \in [Chat!Slot -> PollType] /\ polls'[s] = x /\ \A q \in Chat!Slot \ {s} : polls'[q] = polls[q]
  BY DEF ChatTypes
<1>2. PollsAreBare' BY <1>1 DEF PollsAreBare
<1>3. InThePast' BY <1>1 DEF InThePast
<1>4. ASSUME NEW q \in Chat!Slot
      PROVE  /\ Covered(writing, rows, overtaken, polls'[q].after, shown')
             /\ \A k \in polls'[q].ids : Covered(writing, rows, overtaken, k, shown' \cup polls'[q].ids)
  <2>1. CASE q = s BY <1>1, <2>1
  <2>2. CASE q # s BY <1>1, <2>2 DEF NothingMissed, Covered
  <2> QED BY <2>1, <2>2
<1>5. NothingMissed' BY <1>4 DEF NothingMissed
<1> QED BY <1>1, <1>2, <1>3, <1>5

\* What stays true of the messages of the visitor when nothing about them changes.
LEMMA PostsStay ==
    ASSUME PostTypes, BubblesUnderway, trouble' \in Nat, trouble \in Nat,
           UNCHANGED <<post, posts, accepted, bubbles, rows, writing, shown, dir, text>>,
           \/ trouble' > trouble
           \/ trouble' = trouble /\ (visitor' = visitor \/ visitor' # "stale")
    PROVE  PostTypes' /\ BubblesUnderway'
<1>1. PostTypes' BY DEF PostTypes
<1>2. BubblesUnderway' BY DEF BubblesUnderway, Underway
<1> QED BY <1>1, <1>2

\* What the rest of the widget's state keeps.
Typed == next \in Nat /\ lastSeen \in Nat /\ trouble \in Nat /\ MaxMsg \in Nat
\* The types, field by field.
LEMMA ChatTyped == ASSUME ChatTypes PROVE Typed
BY BoundsAssumption DEF ChatTypes, Typed

\* The widget asks for what it has not seen.
LEMMA PollBegins ==
    ASSUME ChatTypes, PollsAreBare, InThePast, NothingMissed, NEW s \in Chat!Slot, NEW c \in BOOLEAN,
           polls' = Chat!Polling(s, c), UNCHANGED <<next, writing, rows, overtaken, lastSeen, shown>>
    PROVE  polls' \in [Chat!Slot -> PollType] /\ PollsAreBare' /\ InThePast' /\ NothingMissed'
<1> DEFINE x == [pc |-> "sent", after |-> lastSeen, ids |-> {}, chain |-> c]
<1>1. polls' = [polls EXCEPT ![s] = x] BY DEF Chat!Polling
<1>2. x \in PollType /\ x.after = lastSeen /\ x.ids = {} /\ x.pc = "sent" BY DEF ChatTypes, PollType
<1> HIDE DEF x
<1>3. Covered(writing, rows, overtaken, lastSeen, shown) /\ lastSeen < next /\ \A m \in shown : m < next
  BY DEF NothingMissed, InThePast
<1> QED BY <1>1, <1>2, <1>3, OnePoll

\* The request is over.
LEMMA PollEnds ==
    ASSUME ChatTypes, PollsAreBare, InThePast, NothingMissed, NEW s \in Chat!Slot,
           polls' = [polls EXCEPT ![s] = Chat!NoPoll], UNCHANGED <<next, writing, rows, overtaken>>,
           shown \subseteq shown', \A m \in shown' : m < next, lastSeen' < next,
           Covered(writing, rows, overtaken, lastSeen', shown')
    PROVE  polls' \in [Chat!Slot -> PollType] /\ PollsAreBare' /\ InThePast' /\ NothingMissed'
<1>1. /\ Chat!NoPoll \in PollType /\ Chat!NoPoll.after = 0 /\ Chat!NoPoll.ids = {} /\ Chat!NoPoll.pc = "none"
      /\ ~Chat!NoPoll.chain
  BY BoundsAssumption DEF PollType, Chat!NoPoll
<1>2. 0 < next /\ Covered(writing, rows, overtaken, 0, shown')
  BY BoundsAssumption DEF ChatTypes, Covered, Chat!Msg
<1> QED BY <1>1, <1>2, OnePoll

\* The rows a behaviour can have are finitely many.
LEMMA MsgFinite == IsFiniteSet(Chat!Msg) /\ Cardinality(Chat!Msg) = MaxMsg
<1>1. MaxMsg \in Nat /\ 1 \in Int /\ MaxMsg \in Int BY BoundsAssumption
<1>2. IsFiniteSet(1 .. MaxMsg) /\ Cardinality(1 .. MaxMsg) = IF 1 > MaxMsg THEN 0 ELSE MaxMsg - 1 + 1
  BY <1>1, FS_Interval
<1> QED BY <1>1, <1>2 DEF Chat!Msg

\* The chat counts as everyone does.
LEMMA ChatCounts == \A S : Chat!Cardinality(S) = Cardinality(S)
BY Zenon DEF Chat!Cardinality, Cardinality, Chat!IsFiniteSet, IsFiniteSet

\* The API answers: a prefix of the newer rows, in the order of their time.
LEMMA AnswerStep ==
    ASSUME ChatTypes, PollsAreBare, InThePast, NothingMissed, NEW s \in Chat!Slot, Chat!Answer(s)
    PROVE  /\ polls' \in [Chat!Slot -> PollType] /\ PollsAreBare' /\ InThePast' /\ NothingMissed'
           /\ polls'[s].chain = polls[s].chain /\ \A q \in Chat!Slot \ {s} : polls'[q] = polls[q]
<1> DEFINE after == polls[s].after
           ids == Chat!RowsAfter(after)
           x == [polls[s] EXCEPT !.pc = "answered", !.ids = ids]
<1>1. UNCHANGED <<next, writing, rows, overtaken, lastSeen, shown>> /\ polls' = [polls EXCEPT ![s] = x]
  BY DEF Chat!Answer, Chat!display, ChatTypes
<1>2. ids \subseteq {m \in rows : m > after} BY DEF Chat!RowsAfter
<1>3. after \in Int /\ next \in Int /\ \A m \in rows \cup writing : m \in Int
  BY BoundsAssumption DEF ChatTypes, PollType, Chat!Msg
<1>4. ASSUME NEW k \in ids, NEW m \in rows, m > after, m <= k PROVE m \in ids
  <2> DEFINE new == {j \in rows : j > after}
             UpTo(j) == {i \in new : i <= j}
             Many(j) == Cardinality(UpTo(j))
  <2>1. ids = {j \in new : Many(j) <= Take} BY ChatCounts, Zenon DEF Chat!RowsAfter
  <2>2. k \in new /\ m \in new BY <1>2, <1>4
  <2>3. \A j \in new : j \in Int BY <1>3
  <2>4. UpTo(m) \subseteq UpTo(k) BY <1>3, <1>4, <2>2, <2>3
  <2>5. IsFiniteSet(UpTo(k))
    <3>1. IsFiniteSet(Chat!Msg) BY MsgFinite
    <3>2. UpTo(k) \subseteq Chat!Msg BY DEF ChatTypes
    <3> QED BY <3>1, <3>2, FS_Subset
  <2> HIDE DEF UpTo, new, ids
  <2>6. Many(m) <= Many(k) /\ Many(m) \in Nat /\ Many(k) \in Nat
    BY <2>4, <2>5, FS_Subset, FS_CardinalityType
  <2> HIDE DEF Many
  <2>7. Many(k) <= Take BY <2>1
  <2>8. Many(m) <= Take BY <2>6, <2>7, BoundsAssumption
  <2> QED BY <2>1, <2>2, <2>8
<1> HIDE DEF ids
<1>5. /\ x \in PollType /\ x.pc = "answered" /\ x.after = after /\ x.ids = ids /\ x.chain = polls[s].chain
  BY <1>2 DEF ChatTypes, PollType
<1> HIDE DEF x
<1>6. Covered(writing, rows, overtaken, after, shown) BY DEF NothingMissed
<1>7. ASSUME NEW k \in ids PROVE Covered(writing, rows, overtaken, k, shown \cup ids)
  <2>1. k \in rows /\ \A m \in writing : m # k BY <1>2 DEF InThePast
  <2>2. ASSUME NEW m \in rows \ overtaken, m <= k PROVE m \in shown \cup ids
    <3>1. CASE m <= after BY <3>1, <1>6 DEF Covered
    <3>2. CASE m > after BY <1>4, <2>2, <3>2
    <3> QED BY <1>3, <3>1, <3>2
  <2> QED BY <2>1, <2>2 DEF Covered
<1>8. /\ after < next /\ lastSeen < next /\ (\A m \in shown : m < next) /\ (\A m \in ids : m < next)
      /\ Covered(writing, rows, overtaken, lastSeen, shown)
  BY <1>2 DEF InThePast, NothingMissed
<1>9. polls'[s] = x /\ \A q \in Chat!Slot \ {s} : polls'[q] = polls[q] BY <1>1 DEF ChatTypes
<1> HIDE DEF after
<1> QED BY <1>1, <1>5, <1>6, <1>7, <1>8, <1>9, OnePoll

\* A set of natural numbers has a least one, and a bounded one a largest.
LEMMA LeastNatural == ASSUME NEW T, T \subseteq Nat, T # {} PROVE \E x \in T : \A y \in T : x <= y
<1> DEFINE R == OpToRel(<, Nat)
<1>1. IsWellFoundedOn(R, Nat) BY NatLessThanWellFounded
<1>2. \A x, y \in Nat : y < x => <<y, x>> \in R BY DEF OpToRel
<1> HIDE DEF R
<1>3. PICK x \in T : \A y \in T : <<y, x>> \notin R BY <1>1, WFMin
<1>4. ASSUME NEW y \in T PROVE x <= y
  <2>1. x \in Nat /\ y \in Nat OBVIOUS
  <2>2. ~(y < x) BY <2>1, <1>2, <1>3
  <2> QED BY <2>1, <2>2
<1> QED BY <1>4

\* A set of numbers with a bound has a largest one.
LEMMA LargestBelow == ASSUME NEW N \in Nat, NEW T, T \subseteq 0 .. N, T # {} PROVE \E x \in T : \A y \in T : y <= x
<1> DEFINE U == {N - x : x \in T}
<1>0. \A x \in T : x \in Int /\ x <= N /\ N - x \in Nat OBVIOUS
<1>1. U \subseteq Nat /\ U # {}
  <2>1. PICK x \in T : TRUE OBVIOUS
  <2>2. N - x \in U OBVIOUS
  <2> QED BY <1>0, <2>2
<1>2. PICK u \in U : \A v \in U : u <= v BY <1>1, LeastNatural
<1>3. PICK x \in T : u = N - x BY <1>2
<1>4. ASSUME NEW y \in T PROVE y <= x
  <2>1. N - y \in U OBVIOUS
  <2>2. N - x <= N - y BY <2>1, <1>2, <1>3
  <2>3. x \in Int /\ y \in Int OBVIOUS
  <2> QED BY <2>2, <2>3
<1> QED BY <1>4

\* The polling goes on.
PollsOn == Chat!Scheduled /\ visitor # "none" => Chat!Scheduled'

\* A step that leaves timer and polls alone lets the widget go on asking.
LEMMA PollsOnStays == ASSUME UNCHANGED <<timer, polls>> PROVE PollsOn
BY DEF PollsOn, Chat!Scheduled

\* The steps of the worker and of agents.
LEMMA BeginReplyStep == ASSUME ChatInv, Chat!BeginReply PROVE ChatInv' /\ PollsOn
<1> USE DEF ChatInv
<1>1. /\ UNCHANGED <<rows, text, status, overtaken, accepted, lastSeen, shown, unread, bubbles, fresh, visitor, open,
                     timer, post, posts, later, polls, trouble>>
      /\ writing' = writing \cup {next} /\ next' = next + 1 /\ next <= MaxMsg
      /\ dir' = [dir EXCEPT ![next] = "OUT"]
  BY DEF Chat!BeginReply, Chat!display
<1>2. Typed BY ChatTyped
<1>3. next \in Chat!Msg BY <1>1, BoundsAssumption DEF ChatTypes, Chat!Msg
<1>4. ChatTypes'
  <2>1. next' \in 1 .. MaxMsg + 1 BY <1>1, <1>2, <1>3, BoundsAssumption DEF Chat!Msg
  <2>2. dir' \in [Chat!Msg -> {"IN", "OUT"}] BY <1>1 DEF ChatTypes
  <2> QED BY <1>1, <1>3, <2>1, <2>2 DEF ChatTypes
<1>5. RowsMove BY <1>1, <1>2 DEF RowsMove, Typed
<1>6. InThePast' /\ NothingMissed' BY <1>1, <1>5, RowsMoveStep
<1>7. ChatFlags' /\ PollsAreBare' BY <1>1 DEF ChatFlags, PollsAreBare
<1>8. PostTypes' BY <1>1 DEF PostTypes
<1>9. BubblesUnderway'
  <2>1. \A m \in (rows \cup writing) \ shown : m \in Chat!Msg /\ m # next
    BY <1>2 DEF InThePast, ChatTypes, Typed
  <2>2. \A m \in (rows \cup writing) \ shown : dir'[m] = dir[m] BY <1>1, <2>1 DEF ChatTypes
  <2> QED BY <1>1, <2>2 DEF BubblesUnderway, Underway
<1> QED BY <1>1, <1>4, <1>6, <1>7, <1>8, <1>9, PollsOnStays

\* A visitor's message gets a row, which is not committed yet.
LEMMA BeginInboundStep == ASSUME ChatInv, NEW t \in Text, Chat!BeginInbound(t) PROVE ChatInv' /\ PollsOn
<1> USE DEF ChatInv
<1>1. /\ UNCHANGED <<rows, status, overtaken, lastSeen, shown, unread, bubbles, fresh, visitor, open,
                     timer, post, posts, later, polls, trouble>>
      /\ writing' = writing \cup {next} /\ next' = next + 1 /\ next <= MaxMsg /\ accepted[t] > 0
      /\ dir' = [dir EXCEPT ![next] = "IN"] /\ text' = [text EXCEPT ![next] = t]
      /\ accepted' = [accepted EXCEPT ![t] = accepted[t] - 1]
  BY DEF Chat!BeginInbound, Chat!display
<1>2. Typed BY ChatTyped
<1>3. next \in Chat!Msg BY <1>1, BoundsAssumption DEF ChatTypes, Chat!Msg
<1>4. ChatTypes'
  <2>1. next' \in 1 .. MaxMsg + 1 BY <1>1, <1>2, <1>3, BoundsAssumption DEF Chat!Msg
  <2>2. dir' \in [Chat!Msg -> {"IN", "OUT"}] /\ text' \in [Chat!Msg -> Text] BY <1>1 DEF ChatTypes
  <2> QED BY <1>1, <1>3, <2>1, <2>2 DEF ChatTypes
<1>5. RowsMove BY <1>1, <1>2 DEF RowsMove, Typed
<1>6. InThePast' /\ NothingMissed' BY <1>1, <1>5, RowsMoveStep
<1>7. ChatFlags' /\ PollsAreBare' BY <1>1 DEF ChatFlags, PollsAreBare
<1>8. PostTypes'
  <2>1. accepted[t] \in Nat /\ accepted[t] - 1 \in Nat /\ posts \in Nat BY <1>1, BoundsAssumption DEF PostTypes
  <2>2. accepted' \in [Text -> Nat] BY <1>1, <2>1 DEF PostTypes
  <2>3. \A u \in Text : accepted'[u] <= accepted[u] BY <1>1, <2>1 DEF PostTypes
  <2>4. \A u \in Text : accepted'[u] \in Nat /\ accepted[u] \in Nat BY <2>2 DEF PostTypes
  <2> QED BY <1>1, <2>1, <2>2, <2>3, <2>4 DEF PostTypes
<1>9. BubblesUnderway'
  <2>1. \A m \in (rows \cup writing) \ shown : m \in Chat!Msg /\ m # next
    BY <1>2 DEF InThePast, ChatTypes, Typed
  <2>2. \A m \in (rows \cup writing) \ shown : dir'[m] = dir[m] /\ text'[m] = text[m] BY <1>1, <2>1 DEF ChatTypes
  <2>3. next \in writing' \ shown /\ dir'[next] = "IN" /\ text'[next] = t
    BY <1>1, <1>2, <1>3 DEF ChatTypes, InThePast, Typed
  <2>4. \A u \in Text : u # t => accepted'[u] = accepted[u] BY <1>1 DEF PostTypes
  <2>5. ASSUME NEW u \in Text, Underway(u) PROVE Underway(u)'
    BY <1>1, <2>2, <2>3, <2>4, <2>5 DEF Underway
  <2>6. \A b \in bubbles : b[2] \in Text BY DEF PostTypes
  <2> QED BY <1>1, <2>5, <2>6 DEF BubblesUnderway
<1> QED BY <1>1, <1>4, <1>6, <1>7, <1>8, <1>9, PollsOnStays

\* A row is committed, perhaps after a later one.
LEMMA CommitRowStep == ASSUME ChatInv, NEW m \in Chat!Msg, Chat!Commit(m) PROVE ChatInv' /\ PollsOn
<1> USE DEF ChatInv
<1>1. /\ UNCHANGED <<next, dir, text, status, accepted, lastSeen, shown, unread, bubbles, fresh, visitor, open,
                     timer, post, posts, later, polls, trouble>>
      /\ m \in writing /\ writing' = writing \ {m} /\ rows' = rows \cup {m}
      /\ overtaken' = IF \E k \in rows : k > m THEN overtaken \cup {m} ELSE overtaken
  BY DEF Chat!Commit, Chat!display
<1>2. Typed BY ChatTyped
<1>3. ChatTypes' BY <1>1 DEF ChatTypes
<1>4. RowsMove
  <2>1. next' \in Int /\ next' >= next BY <1>1, <1>2 DEF Typed
  <2>2. \E n \in writing : /\ writing' = writing \ {n} /\ rows' = rows \cup {n}
                          /\ overtaken' = IF \E k \in rows : k > n THEN overtaken \cup {n} ELSE overtaken
    BY <1>1, Zenon
  <2> QED BY <2>1, <2>2 DEF RowsMove
<1>5. InThePast' /\ NothingMissed' BY <1>1, <1>4, RowsMoveStep
<1>6. ChatFlags' /\ PollsAreBare' BY <1>1 DEF ChatFlags, PollsAreBare
<1>7. PostTypes' BY <1>1 DEF PostTypes
<1>8. rows' \cup writing' = rows \cup writing BY <1>1
<1>9. BubblesUnderway' BY <1>1, <1>8 DEF BubblesUnderway, Underway
<1> QED BY <1>1, <1>3, <1>5, <1>6, <1>7, <1>9, PollsOnStays

\* A reply is marked as sent.
LEMMA MarkSentStep == ASSUME ChatInv, NEW m \in Chat!Msg, Chat!MarkSent(m) PROVE ChatInv' /\ PollsOn
<1> USE DEF ChatInv
<1>1. /\ UNCHANGED <<next, writing, rows, dir, text, overtaken, accepted, lastSeen, shown, unread, bubbles, fresh,
                     visitor, open, timer, post, posts, later, polls, trouble>>
      /\ status' = [status EXCEPT ![m] = "SENT"]
  BY DEF Chat!MarkSent, Chat!display
<1>2. Typed BY ChatTyped
<1>3. ChatTypes' BY <1>1 DEF ChatTypes
<1>4. InThePast' /\ NothingMissed' BY <1>1 DEF InThePast, NothingMissed
<1>5. ChatFlags' /\ PollsAreBare' BY <1>1 DEF ChatFlags, PollsAreBare
<1>6. PostTypes' /\ BubblesUnderway' BY <1>1, <1>2, PostsStay DEF Typed
<1> QED BY <1>1, <1>3, <1>4, <1>5, <1>6, PollsOnStays

\* The panel and the session.
LEMMA SessionSteps ==
    ASSUME ChatInv, Chat!Close \/ Chat!SessionFails \/ Chat!KeyRotated PROVE ChatInv' /\ PollsOn
<1> USE DEF ChatInv
<1>1. /\ UNCHANGED <<next, writing, rows, dir, text, status, overtaken, accepted, lastSeen, shown, unread, bubbles,
                     fresh, timer, post, posts, later, polls>>
      /\ \/ trouble' = trouble /\ visitor' = visitor
         \/ trouble' = trouble + 1 /\ trouble < MaxTrouble /\ visitor' \in {"none", "stale"}
  BY DEF Chat!Close, Chat!SessionFails, Chat!KeyRotated, Chat!server, Chat!display
<1>2. Typed BY ChatTyped
<1>3. ChatTypes'
  <2>1. trouble' \in 0 .. MaxTrouble BY <1>1, <1>2, BoundsAssumption DEF ChatTypes, Typed
  <2> QED BY <1>1, <2>1 DEF ChatTypes
<1>4. InThePast' /\ NothingMissed' BY <1>1 DEF InThePast, NothingMissed
<1>5. open' \in BOOLEAN BY Zenon DEF ChatFlags, Chat!Close, Chat!SessionFails, Chat!KeyRotated
<1>6. ChatFlags' /\ PollsAreBare' BY <1>1, <1>5 DEF ChatFlags, PollsAreBare
<1>7. PostTypes' /\ BubblesUnderway' BY <1>1, <1>2, PostsStay DEF Typed
<1> QED BY <1>1, <1>3, <1>4, <1>6, <1>7, PollsOnStays

\* A poll in flight keeps the polling going.
LEMMA ChainIsScheduled == ASSUME NEW s \in Chat!Slot, polls[s].chain PROVE Chat!Scheduled
BY Zenon DEF Chat!Scheduled

\* A poll that belongs to a chain is one that goes on.
LEMMA ChainStarts ==
    ASSUME ChatTypes, NEW s \in Chat!Slot, polls' = Chat!Polling(s, TRUE) PROVE Chat!Scheduled'
<1> DEFINE x == [pc |-> "sent", after |-> lastSeen, ids |-> {}, chain |-> TRUE]
<1>1. polls'[s] = x BY DEF Chat!Polling, ChatTypes
<1>3. x.chain OBVIOUS
<1> HIDE DEF x
<1>2. polls'[s].chain BY <1>1, <1>3, Zenon
<1> QED BY <1>2, Zenon DEF Chat!Scheduled

\* The panel opens, or the session is there, or a timer fires: a poll may begin.
LEMMA OpenStep == ASSUME ChatInv, NEW s \in Chat!Slot, Chat!Open(s) PROVE ChatInv' /\ PollsOn
<1> USE DEF ChatInv
<1>1. /\ UNCHANGED <<next, writing, rows, dir, text, status, overtaken, accepted, lastSeen, shown, bubbles,
                     timer, post, posts, later, trouble>>
      /\ unread' = 0 /\ fresh' = {}
      /\ \/ polls' = Chat!Polling(s, TRUE) /\ visitor' = visitor
         \/ polls' = polls /\ visitor' = "asking"
  BY DEF Chat!Open, Chat!server
<1>2. Typed BY ChatTyped
<1>3. polls' \in [Chat!Slot -> PollType] /\ PollsAreBare' /\ InThePast' /\ NothingMissed'
  <2>1. CASE polls' = Chat!Polling(s, TRUE) BY <1>1, <2>1, PollBegins
  <2>2. CASE polls' = polls BY <1>1, <2>2 DEF PollsAreBare, InThePast, NothingMissed, ChatTypes
  <2> QED BY <1>1, <2>1, <2>2
<1>4. ChatTypes' BY <1>1, <1>3 DEF ChatTypes
<1>5. open' \in BOOLEAN BY Zenon DEF Chat!Open
<1>6. ChatFlags' BY <1>1, <1>5 DEF ChatFlags
<1>7. PostTypes' /\ BubblesUnderway' BY <1>1, <1>2, PostsStay DEF Typed
<1>8. PollsOn BY <1>1, ChainStarts, PollsOnStays DEF PollsOn
<1>9. unread' = Cardinality(fresh') BY <1>1, FS_EmptySet
<1> QED BY <1>3, <1>4, <1>6, <1>7, <1>8, <1>9

\* The session is there, and a chain of polls begins.
LEMMA SessionAnsweredStep == ASSUME ChatInv, NEW s \in Chat!Slot, Chat!SessionAnswered(s) PROVE ChatInv' /\ PollsOn
<1> USE DEF ChatInv
<1>1. /\ UNCHANGED <<next, writing, rows, dir, text, status, overtaken, accepted, lastSeen, shown, unread, fresh,
                     bubbles, open, timer, post, posts, later, trouble>>
      /\ polls' = Chat!Polling(s, TRUE) /\ visitor' = "good"
  BY DEF Chat!SessionAnswered, Chat!server, Chat!display
<1>2. Typed BY ChatTyped
<1>3. polls' \in [Chat!Slot -> PollType] /\ PollsAreBare' /\ InThePast' /\ NothingMissed' BY <1>1, PollBegins
<1>4. ChatTypes' BY <1>1, <1>3 DEF ChatTypes
<1>5. ChatFlags' BY <1>1 DEF ChatFlags
<1>6. PostTypes' /\ BubblesUnderway' BY <1>1, <1>2, PostsStay DEF Typed
<1>7. PollsOn BY <1>1, ChainStarts DEF PollsOn
<1> QED BY <1>1, <1>3, <1>4, <1>5, <1>6, <1>7

\* The timer starts the next poll.
LEMMA TimerFiresStep == ASSUME ChatInv, NEW s \in Chat!Slot, Chat!TimerFires(s) PROVE ChatInv' /\ PollsOn
<1> USE DEF ChatInv
<1>1. /\ UNCHANGED <<next, writing, rows, dir, text, status, overtaken, accepted, lastSeen, shown, unread, fresh,
                     bubbles, visitor, open, post, posts, trouble>>
      /\ polls[s].pc = "none"
  BY DEF Chat!TimerFires, Chat!server, Chat!display, Chat!Idle
<1>2. \/ visitor = "none" /\ polls' = polls
      \/ polls' = Chat!Polling(s, TRUE)
      \/ polls' = Chat!Polling(s, FALSE) /\ timer' = timer
  BY DEF Chat!TimerFires
<1>3. timer' \in BOOLEAN /\ later' \in BOOLEAN BY Zenon DEF Chat!TimerFires, ChatFlags
<1>4. Typed BY ChatTyped
<1>5. polls' \in [Chat!Slot -> PollType] /\ PollsAreBare' /\ InThePast' /\ NothingMissed'
  <2>1. CASE polls' = polls BY <1>1, <2>1 DEF PollsAreBare, InThePast, NothingMissed, ChatTypes
  <2> QED BY <1>1, <1>2, <2>1, PollBegins
<1>6. ChatTypes' BY <1>1, <1>5 DEF ChatTypes
<1>7. ChatFlags' BY <1>1, <1>3 DEF ChatFlags
<1>8. PostTypes' /\ BubblesUnderway' BY <1>1, <1>4, PostsStay DEF Typed
<1>9. PollsOn
  <2>1. CASE visitor = "none" BY <2>1 DEF PollsOn
  <2>2. CASE polls' = Chat!Polling(s, TRUE) BY <2>2, ChainStarts DEF PollsOn
  <2>3. CASE polls' = Chat!Polling(s, FALSE) /\ timer' = timer
    <3>1. ~polls[s].chain BY <1>1 DEF PollsAreBare
    <3>2. \A q \in Chat!Slot \ {s} : polls'[q] = polls[q] BY <2>3 DEF Chat!Polling, ChatTypes
    <3> QED BY <2>3, <3>1, <3>2 DEF PollsOn, Chat!Scheduled
  <2> QED BY <1>2, <2>1, <2>2, <2>3
<1> QED BY <1>1, <1>5, <1>6, <1>7, <1>8, <1>9

\* A poll is answered with rows after its cursor.
LEMMA AnswerChatStep == ASSUME ChatInv, NEW s \in Chat!Slot, Chat!Answer(s) PROVE ChatInv' /\ PollsOn
<1> USE DEF ChatInv
<1>1. UNCHANGED <<next, writing, rows, dir, text, overtaken, accepted, lastSeen, shown, unread, fresh,
                  bubbles, visitor, open, timer, post, posts, later, trouble>>
  BY DEF Chat!Answer, Chat!display
<1>2. Typed BY ChatTyped
<1>3. /\ polls' \in [Chat!Slot -> PollType] /\ PollsAreBare' /\ InThePast' /\ NothingMissed'
      /\ polls'[s].chain = polls[s].chain /\ \A q \in Chat!Slot \ {s} : polls'[q] = polls[q]
  BY AnswerStep
<1>4. status' \in [Chat!Msg -> {"PENDING", "SENT", "DELIVERED"}] BY DEF Chat!Answer, ChatTypes
<1>5. ChatTypes' BY <1>1, <1>3, <1>4 DEF ChatTypes
<1>6. ChatFlags' BY <1>1 DEF ChatFlags
<1>7. PostTypes' /\ BubblesUnderway' BY <1>1, <1>2, PostsStay DEF Typed
<1>8. PollsOn BY <1>1, <1>3 DEF PollsOn, Chat!Scheduled
<1> QED BY <1>1, <1>3, <1>5, <1>6, <1>7, <1>8

\* A poll fails, and the timer is set again.
LEMMA PollFailsStep == ASSUME ChatInv, NEW s \in Chat!Slot, Chat!PollFails(s) PROVE ChatInv' /\ PollsOn
<1> USE DEF ChatInv
<1>1. /\ UNCHANGED <<next, writing, rows, dir, text, status, overtaken, accepted, lastSeen, shown, unread, fresh,
                     bubbles, visitor, open, post, posts, later>>
      /\ polls' = [polls EXCEPT ![s] = Chat!NoPoll]
      /\ trouble' = trouble \/ (trouble' = trouble + 1 /\ trouble < MaxTrouble)
  BY DEF Chat!PollFails, Chat!server, Chat!display
<1>2. timer' = (timer \/ polls[s].chain) BY DEF Chat!PollFails, Chat!ScheduleAfterFailure
<1>3. timer' \in BOOLEAN /\ (timer => timer') /\ (polls[s].chain => timer') BY <1>2, Zenon
<1>4. Typed BY ChatTyped
<1>5. polls' \in [Chat!Slot -> PollType] /\ PollsAreBare' /\ InThePast' /\ NothingMissed'
  BY <1>1, PollEnds DEF InThePast, NothingMissed
<1>6. ChatTypes'
  <2>1. trouble' \in 0 .. MaxTrouble BY <1>1, <1>4, BoundsAssumption DEF ChatTypes, Typed
  <2> QED BY <1>1, <1>5, <2>1 DEF ChatTypes
<1>7. ChatFlags' BY <1>1, <1>3 DEF ChatFlags
<1>8. PostTypes' /\ BubblesUnderway' BY <1>1, <1>4, PostsStay DEF Typed
<1>9. PollsOn
  <2>1. \A q \in Chat!Slot \ {s} : polls'[q] = polls[q] BY <1>1 DEF ChatTypes
  <2> QED BY <1>3, <2>1 DEF PollsOn, Chat!Scheduled
<1> QED BY <1>1, <1>5, <1>6, <1>7, <1>8, <1>9

\* The widget shows an answer.
LEMMA ReceiveStep == ASSUME ChatInv, NEW s \in Chat!Slot, Chat!Receive(s) PROVE ChatInv' /\ PollsOn
<1> USE DEF ChatInv
<1> DEFINE ids == polls[s].ids
           new == {m \in ids \ shown : dir[m] = "OUT"}
<1>1. /\ UNCHANGED <<next, writing, rows, dir, text, status, overtaken, accepted, visitor, open, post, posts,
                     later, trouble>>
      /\ polls' = [polls EXCEPT ![s] = Chat!NoPoll]
  BY DEF Chat!Receive, Chat!server
<1>2. timer' = (timer \/ polls[s].chain) BY DEF Chat!Receive
<1>3. timer' \in BOOLEAN /\ (timer => timer') /\ (polls[s].chain => timer') BY <1>2, Zenon
<1>4. Typed /\ ids \subseteq Chat!Msg BY ChatTyped DEF ChatTypes, PollType
<1>5. \/ UNCHANGED <<lastSeen, shown, unread, bubbles, fresh>>
      \/ /\ ids # {} /\ bubbles' = Chat!BubblesAfter(ids) /\ shown' = shown \cup ids
         /\ lastSeen' = CHOOSE m \in ids : \A k \in ids : k <= m
         /\ \/ UNCHANGED <<unread, fresh>>
            \/ unread' = unread + Chat!Cardinality(new) /\ fresh' = fresh \cup new
  BY DEF Chat!Receive, Chat!display, Chat!Counted
<1>6. ASSUME ids # {}, lastSeen' = CHOOSE m \in ids : \A k \in ids : k <= m PROVE lastSeen' \in ids
  <2>1. ids \subseteq 0 .. MaxMsg BY <1>4, BoundsAssumption DEF Chat!Msg
  <2>2. \E m \in ids : \A k \in ids : k <= m BY <1>6, <2>1, LargestBelow, BoundsAssumption
  <2> QED BY <1>6, <2>2
<1>7. /\ shown \subseteq shown' /\ shown' \subseteq Chat!Msg /\ lastSeen' \in 0 .. MaxMsg
      /\ \A m \in shown' : m < next
      /\ lastSeen' < next /\ Covered(writing, rows, overtaken, lastSeen', shown')
  <2>1. CASE UNCHANGED <<lastSeen, shown>> BY <2>1 DEF InThePast, NothingMissed, ChatTypes
  <2>2. CASE lastSeen' \in ids /\ shown' = shown \cup ids
    <3>1. lastSeen' \in 1 .. MaxMsg /\ lastSeen' < next /\ \A m \in ids : m < next
      BY <1>4, <2>2 DEF InThePast, Chat!Msg
    <3>2. Covered(writing, rows, overtaken, lastSeen', shown \cup ids) BY <2>2 DEF NothingMissed
    <3>3. lastSeen' \in 0 .. MaxMsg BY <3>1, BoundsAssumption
    <3>4. shown \subseteq Chat!Msg /\ \A m \in shown : m < next BY DEF InThePast, ChatTypes
    <3> QED BY <1>4, <2>2, <3>1, <3>2, <3>3, <3>4
  <2> QED BY <1>5, <1>6, <2>1, <2>2
<1>8. polls' \in [Chat!Slot -> PollType] /\ PollsAreBare' /\ InThePast' /\ NothingMissed' BY <1>1, <1>7, PollEnds
<1>9. fresh' \subseteq shown' /\ unread' = Cardinality(fresh')
  <2>1. CASE UNCHANGED <<unread, fresh>> BY <2>1, <1>7 DEF ChatTypes
  <2>2. CASE unread' = unread + Chat!Cardinality(new) /\ fresh' = fresh \cup new /\ shown' = shown \cup ids
    <3>1. new \cap fresh = {} /\ new \subseteq ids /\ fresh \subseteq Chat!Msg /\ new \subseteq Chat!Msg
      BY <1>4 DEF ChatTypes
    <3>2. IsFiniteSet(Chat!Msg) BY MsgFinite
    <3>3. IsFiniteSet(new) /\ IsFiniteSet(fresh) BY <3>1, <3>2, FS_Subset
    <3>4. unread' = unread + Cardinality(new) BY <2>2, ChatCounts
    <3> HIDE DEF new
    <3>5. Cardinality(fresh \cup new) = Cardinality(fresh) + Cardinality(new) - Cardinality(fresh \cap new)
      BY <3>3, FS_Union
    <3>6. fresh \cap new = {} /\ Cardinality({}) = 0 BY <3>1, FS_EmptySet
    <3>7. Cardinality(fresh) \in Nat /\ Cardinality(new) \in Nat BY <3>3, FS_CardinalityType
    <3>8. unread' = Cardinality(fresh')
      <4>1. unread = Cardinality(fresh) /\ fresh' = fresh \cup new BY <2>2
      <4>2. Cardinality(fresh \cap new) = 0 BY <3>6
      <4>3. Cardinality(fresh \cup new) = Cardinality(fresh) + Cardinality(new) BY <3>5, <3>7, <4>2
      <4>4. Cardinality(fresh') = Cardinality(fresh \cup new) BY <4>1
      <4> QED BY <4>1, <4>3, <4>4, <3>4
    <3> QED BY <2>2, <3>1, <3>8 DEF ChatTypes
  <2> QED BY <1>5, <2>1, <2>2
<1>10. ChatTypes' BY <1>1, <1>7, <1>8, <1>9 DEF ChatTypes
<1>11. ChatFlags' BY <1>1, <1>3 DEF ChatFlags
<1>12. PostTypes' /\ BubblesUnderway'
  <2>1. CASE UNCHANGED <<shown, bubbles>> BY <1>1, <1>4, <2>1, PostsStay DEF Typed
  <2>2. CASE bubbles' = Chat!BubblesAfter(ids) /\ shown' = shown \cup ids
    <3>1. bubbles' \subseteq bubbles /\ \A b \in bubbles' : ~\E m \in ids : dir[m] = "IN" /\ text[m] = b[2]
      BY <2>2 DEF Chat!BubblesAfter
    <3>2. PostTypes' BY <1>1, <3>1 DEF PostTypes
    <3>3. ASSUME NEW b \in bubbles', Underway(b[2]) PROVE Underway(b[2])'
      BY <1>1, <2>2, <3>1, <3>3 DEF Underway
    <3>4. BubblesUnderway'
      <4>1. \A b \in bubbles' : Underway(b[2]) => Underway(b[2])' BY <3>3
      <4> QED BY <1>1, <3>1, <4>1 DEF BubblesUnderway
    <3> QED BY <3>2, <3>4
  <2> QED BY <1>5, <2>1, <2>2
<1>13. PollsOn
  <2>1. \A q \in Chat!Slot \ {s} : polls'[q] = polls[q] BY <1>1 DEF ChatTypes
  <2> QED BY <1>3, <2>1 DEF PollsOn, Chat!Scheduled
<1> QED BY <1>8, <1>9, <1>10, <1>11, <1>12, <1>13

\* The visitor writes.
LEMMA SubmitStep == ASSUME ChatInv, NEW t \in Text, Chat!Submit(t) PROVE ChatInv' /\ PollsOn
<1> USE DEF ChatInv
<1>1. /\ UNCHANGED <<next, writing, rows, dir, text, status, overtaken, accepted, lastSeen, shown, unread, fresh,
                     open, timer, later, polls, trouble>>
      /\ post = "none" /\ post' = t /\ posts < MaxPost /\ posts' = posts + 1
      /\ bubbles' = bubbles \cup {<<posts + 1, t>>}
      /\ visitor' = IF visitor = "none" THEN "good" ELSE visitor
  BY DEF Chat!Submit, Chat!server
<1>2. ChatTypes' BY <1>1 DEF ChatTypes
<1>3. ChatFlags' /\ PollsAreBare' /\ InThePast' /\ NothingMissed'
  BY <1>1 DEF ChatFlags, PollsAreBare, InThePast, NothingMissed
<1>4. posts \in Nat /\ posts + 1 \in 1 .. MaxPost /\ \A u \in Text : accepted[u] \in Nat
  BY <1>1, BoundsAssumption DEF PostTypes
<1>5. PostTypes' BY <1>1, <1>4 DEF PostTypes
<1>6. BubblesUnderway'
  <2>1. \A b \in bubbles' : b \in bubbles \/ b[2] = t BY <1>1
  <2>2. ASSUME NEW u \in Text, Underway(u) PROVE Underway(u)'
    BY <1>1, <2>2 DEF Underway
  <2>3. Underway(t)' BY <1>1, BoundsAssumption DEF Underway
  <2>4. ASSUME trouble' = 0, NEW b \in bubbles' PROVE Underway(b[2])'
    <3>1. CASE b \in bubbles
      <4>1. b[2] \in Text /\ Underway(b[2]) BY <1>1, <2>4, <3>1 DEF PostTypes, BubblesUnderway
      <4> QED BY <4>1, <2>2
    <3>2. CASE b[2] = t BY <3>2, <2>3
    <3> QED BY <2>1, <3>1, <3>2
  <2> QED BY <1>1, <2>4 DEF BubblesUnderway
<1> QED BY <1>1, <1>2, <1>3, <1>5, <1>6, PollsOnStays

\* A post is answered, and its bubble is settled.
LEMMA PostAnsweredStep == ASSUME ChatInv, Chat!PostAnswered PROVE ChatInv' /\ PollsOn
<1> USE DEF ChatInv
<1>1. /\ UNCHANGED <<next, writing, rows, dir, text, status, overtaken, lastSeen, shown, unread, fresh,
                     bubbles, visitor, open, timer, posts, polls, trouble>>
      /\ post # "none" /\ post' = "none" /\ accepted' = [accepted EXCEPT ![post] = accepted[post] + 1]
  BY DEF Chat!PostAnswered, Chat!display
<1>2. later' \in BOOLEAN BY Zenon DEF Chat!PostAnswered
<1>3. ChatTypes' BY <1>1 DEF ChatTypes
<1>4. ChatFlags' /\ PollsAreBare' /\ InThePast' /\ NothingMissed'
  BY <1>1, <1>2 DEF ChatFlags, PollsAreBare, InThePast, NothingMissed
<1>5. post \in Text /\ accepted[post] \in Nat /\ accepted[post] + 1 \in Nat BY <1>1 DEF PostTypes
<1>6. /\ accepted' \in [Text -> Nat] /\ accepted'[post] = accepted[post] + 1
      /\ \A u \in Text \ {post} : accepted'[u] = accepted[u]
  BY <1>1, <1>5 DEF PostTypes
<1>7. PostTypes' BY <1>1, <1>5, <1>6 DEF PostTypes
<1>8. BubblesUnderway'
  <2>1. ASSUME NEW u \in Text, Underway(u) PROVE Underway(u)'
    BY <1>1, <1>5, <1>6, <2>1 DEF Underway
  <2>2. \A b \in bubbles : b[2] \in Text BY DEF PostTypes
  <2> QED BY <1>1, <2>1, <2>2 DEF BubblesUnderway
<1> QED BY <1>1, <1>3, <1>4, <1>7, <1>8, PollsOnStays

\* A post fails, and its bubble says so.
LEMMA PostFailsStep == ASSUME ChatInv, Chat!PostFails PROVE ChatInv' /\ PollsOn
<1> USE DEF ChatInv
<1>1. /\ UNCHANGED <<next, dir, text, status, overtaken, lastSeen, shown, unread, fresh,
                     bubbles, open, timer, posts, later, polls>>
      /\ post' = "none"
      /\ \/ /\ visitor = "stale" /\ visitor' = "none" /\ trouble' = trouble
            /\ writing' = {} /\ rows' = {} /\ accepted' = [t \in Text |-> 0]
         \/ /\ trouble < MaxTrouble /\ trouble' = trouble + 1
            /\ UNCHANGED <<writing, rows, accepted, visitor>>
  BY DEF Chat!PostFails, Chat!display, Chat!server
<1>2. Typed BY ChatTyped
<1>3. ChatTypes'
  <2>1. trouble' \in 0 .. MaxTrouble BY <1>1, <1>2, BoundsAssumption DEF ChatTypes, Typed
  <2> QED BY <1>1, <2>1 DEF ChatTypes
<1>4. RowsMove BY <1>1, <1>2 DEF RowsMove, Typed
<1>5. InThePast' /\ NothingMissed' BY <1>1, <1>4, RowsMoveStep
<1>6. ChatFlags' /\ PollsAreBare' BY <1>1 DEF ChatFlags, PollsAreBare
<1>7. PostTypes'
  <2>1. accepted' \in [Text -> Nat] /\ \A u \in Text : accepted'[u] <= posts
    BY <1>1, BoundsAssumption DEF PostTypes
  <2> QED BY <1>1, <2>1 DEF PostTypes
<1>8. BubblesUnderway' BY <1>1, <1>2 DEF BubblesUnderway, Typed
<1> QED BY <1>1, <1>3, <1>5, <1>6, <1>7, <1>8, PollsOnStays

\* Every step of the chat.
LEMMA ChatNext == ASSUME ChatInv, Chat!Next PROVE ChatInv' /\ PollsOn
BY BeginReplyStep, BeginInboundStep, CommitRowStep, MarkSentStep, SessionSteps, OpenStep, SessionAnsweredStep,
   TimerFiresStep, AnswerChatStep, PollFailsStep, ReceiveStep, SubmitStep, PostAnsweredStep, PostFailsStep
   DEF Chat!Next

\* What the run checks of it.
LEMMA ChatInvImplies ==
    ChatInv => Chat!TypeOK /\ Chat!NothingPassedOver /\ Chat!UnreadCountsOnce /\ Chat!OwnMessageOnce
<1> SUFFICES ASSUME ChatInv
             PROVE  Chat!TypeOK /\ Chat!NothingPassedOver /\ Chat!UnreadCountsOnce /\ Chat!OwnMessageOnce
  OBVIOUS
<1> USE DEF ChatInv
<1>1. Chat!UnreadCountsOnce BY ChatCounts DEF Chat!UnreadCountsOnce
<1>2. Chat!NothingPassedOver BY DEF NothingMissed, Covered, Chat!NothingPassedOver
<1>3. Chat!OwnMessageOnce
  <2>1. \A b \in bubbles : b[2] \in Text BY DEF PostTypes
  <2>2. \A t \in Text : accepted[t] = 0 => ~(accepted[t] > 0) BY DEF PostTypes
  <2> QED BY <2>1, <2>2 DEF BubblesUnderway, Underway, Chat!OwnMessageOnce
<1>4. Chat!TypeOK
  <2>1. fresh \subseteq Chat!Msg BY DEF ChatTypes
  <2>2. IsFiniteSet(Chat!Msg) /\ Cardinality(Chat!Msg) = MaxMsg BY MsgFinite
  <2>3. unread \in 0 .. MaxMsg
    <3>1. Cardinality(fresh) <= Cardinality(Chat!Msg) /\ IsFiniteSet(fresh) BY <2>1, <2>2, FS_Subset
    <3>2. Cardinality(fresh) \in Nat BY <3>1, FS_CardinalityType
    <3> QED BY <2>2, <3>1, <3>2, BoundsAssumption
  <2>4. \A t \in Text : accepted[t] \in 0 .. MaxPost BY BoundsAssumption DEF PostTypes
  <2> QED BY <2>1, <2>3, <2>4 DEF ChatTypes, ChatFlags, PostTypes, PollType, Chat!TypeOK
<1> QED BY <1>1, <1>2, <1>3, <1>4

\* For any number of messages, polls that overlap, failures and key rotations: the widget's
\* cursor passes over no reply that was committed in order, the badge counts each reply once,
\* and a message of the visitor is not shown twice (widget-script.ts and WebchatService).
THEOREM WidgetShowsEverything == ServicesSpec => []ChatShowsAll
<1> DEFINE Inv == part = "chat" => ChatInv
<1>1. ServicesInit => Inv BY ChatInit DEF ServicesInit
<1>2. Inv /\ [ServicesNext]_allvars => Inv'
  <2> SUFFICES ASSUME Inv, [ServicesNext]_allvars, part' = "chat" PROVE ChatInv' OBVIOUS
  <2>1. part = "chat" BY DEF ServicesNext, allvars
  <2>2. CASE Chat!Next BY <2>1, <2>2, ChatNext
  <2>3. CASE UNCHANGED wvars
    BY <2>1, <2>3 DEF wvars, ChatInv, ChatTypes, ChatFlags, PollsAreBare, InThePast, NothingMissed, PostTypes,
                      BubblesUnderway, Underway
  <2> QED BY <2>1, <2>2, <2>3 DEF ServicesNext, allvars
<1>3. Inv => ChatShowsAll BY ChatInvImplies DEF ChatShowsAll
<1> QED BY <1>1, <1>2, <1>3, PTL DEF ServicesSpec

-----------------------------------------------------------------------------
(* The steps of all services *)

\* What the steps of each part rest on.
StepInv ==
    /\ part = "idempotency" => IdempotencyInv
    /\ part = "chat" => ChatInv
    /\ part = "access" => AccessInv
    /\ part \in {"limits", "probes"} => ProbeInv
    /\ part = "storage" => StorageInv
    /\ part = "settings" => SettingsInv

\* A step of the services is one of its part, and leaves the others alone.
LEMMA OnePart ==
    ASSUME [ServicesNext]_allvars
    PROVE  /\ part' = part
           /\ UNCHANGED vars \/ (part = "idempotency" /\ Next)
           /\ UNCHANGED wvars \/ (part = "chat" /\ Chat!Next)
           /\ UNCHANGED rvars \/ (part = "access" /\ Access!Next)
           /\ UNCHANGED lvars \/ (part \in {"limits", "probes"} /\ (Shared!HitNext \/ Shared!ProbeNext))
           /\ UNCHANGED ovars \/ (part = "storage" /\ Storage!Next)
           /\ UNCHANGED cvars \/ (part = "settings" /\ Settings!Next)
BY DEF ServicesNext, allvars

\* Every service starts in its invariant.
LEMMA StepInvInit == ServicesInit => StepInv
BY IdempotencyInit, ChatInit, AccessInit, ProbeInit, StorageInit, SettingsInit DEF ServicesInit, StepInv

\* A step of one service leaves the others in theirs.
LEMMA StepInvNext == StepInv /\ [ServicesNext]_allvars => StepInv'
<1> SUFFICES ASSUME StepInv, [ServicesNext]_allvars PROVE StepInv' OBVIOUS
<1>1. part = "idempotency" => IdempotencyInv' BY OnePart, IdempotencyNext DEF StepInv
<1>2. part = "chat" => ChatInv'
  <2>1. CASE UNCHANGED wvars
    BY <2>1 DEF StepInv, wvars, ChatInv, ChatTypes, ChatFlags, PollsAreBare, InThePast, NothingMissed, PostTypes,
                BubblesUnderway, Underway
  <2> QED BY <2>1, OnePart, ChatNext DEF StepInv
<1>3. part = "access" => AccessInv' BY OnePart, AccessNext DEF StepInv
<1>4. part \in {"limits", "probes"} => ProbeInv'
  <2>1. CASE UNCHANGED lvars BY <2>1, OtherSharedSteps DEF StepInv, lvars
  <2> QED BY <2>1, OnePart, ProbeNext DEF StepInv
<1>5. part = "storage" => StorageInv' BY OnePart, StorageNext DEF StepInv
<1>6. part = "settings" => SettingsInv'
  <2>1. CASE UNCHANGED cvars BY <2>1 DEF StepInv, cvars, SettingsInv, UpdateIsSound
  <2> QED BY <2>1, OnePart, SettingsNext DEF StepInv
<1>7. part' = part BY OnePart
<1> QED BY <1>1, <1>2, <1>3, <1>4, <1>5, <1>6, <1>7 DEF StepInv

\* No step of any service, for every value of the constants, ends the idempotency record of
\* another request, lets an open widget stop asking, gives a client with an expired token another
\* code, reports ready what was not reached, links a file a scan has reported, or stores other
\* settings than an update that met no other asked for.
THEOREM StepsKeepTheirPromises == ServicesSpec => StepsKeepPromises
<1>1. StepInv /\ [ServicesNext]_allvars => [EndsByOwner]_vars BY OnePart, OwnerEndsRecord DEF StepInv
<1>2. StepInv /\ [ServicesNext]_allvars => [PollsOn]_(Chat!wvars)
  <2>1. UNCHANGED wvars => UNCHANGED Chat!wvars BY DEF wvars, Chat!wvars
  <2> QED BY <2>1, OnePart, ChatNext DEF StepInv
<1>3. StepInv /\ [ServicesNext]_allvars =>
        [Access!VerifyToken(TRUE) /\ req.kind = "rest" /\ req.token \in {"expired", "asymmetricExpired"}
          => req'.answer = "AUTH_TOKEN_EXPIRED"]_(Access!rvars)
  <2>1. UNCHANGED rvars => UNCHANGED Access!rvars BY DEF rvars, Access!rvars
  <2> QED BY <2>1, OnePart, ExpiredTokenStep DEF StepInv
<1>4. StepInv /\ [ServicesNext]_allvars => [ReadyIsTrue]_(Shared!lvars)
  <2>1. UNCHANGED lvars => UNCHANGED Shared!lvars BY DEF lvars, Shared!lvars, Shared!limitvars, Shared!probevars
  <2> QED BY <2>1, OnePart, ProbeNext DEF StepInv
<1>5. StepInv /\ [ServicesNext]_allvars => [\A l \in links' \ links : l.attachment \notin found]_(Storage!ovars)
  <2>1. UNCHANGED ovars => UNCHANGED Storage!ovars BY DEF ovars, Storage!ovars
  <2> QED BY <2>1, OnePart, LinkedIsClean DEF StepInv
<1>6. StepInv /\ [ServicesNext]_allvars => [AloneIsTrue]_(Settings!cvars)
  <2>1. UNCHANGED cvars => UNCHANGED Settings!cvars BY DEF cvars, Settings!cvars
  <2> QED BY <2>1, OnePart, SettingsNext DEF StepInv
<1>7. ServicesSpec => []StepInv BY StepInvInit, StepInvNext, PTL DEF ServicesSpec
<1>8. ServicesSpec => OnlyOwnerEndsRecord BY <1>1, <1>7, PTL DEF ServicesSpec, OnlyOwnerEndsRecord, EndsByOwner
<1>9. ServicesSpec => Chat!PollingGoesOn BY <1>2, <1>7, PTL DEF ServicesSpec, Chat!PollingGoesOn, PollsOn
<1>10. ServicesSpec => Access!ExpiredMeansRefresh BY <1>3, <1>7, PTL DEF ServicesSpec, Access!ExpiredMeansRefresh
<1>11. ServicesSpec => Shared!ReadyWasReachable
  BY <1>4, <1>7, PTL DEF ServicesSpec, Shared!ReadyWasReachable, ReadyIsTrue
<1>12. ServicesSpec => Storage!InfectedIsNeverLinked BY <1>5, <1>7, PTL DEF ServicesSpec, Storage!InfectedIsNeverLinked
<1>13. ServicesSpec => Settings!AloneTakesEffect
  BY <1>6, <1>7, PTL DEF ServicesSpec, Settings!AloneTakesEffect, AloneIsTrue
<1> QED BY <1>8, <1>9, <1>10, <1>11, <1>12, <1>13 DEF StepsKeepPromises

-----------------------------------------------------------------------------
(* Walks through the inbox *)

\* The clock is not behind a row, and messages are in the order of their time.
PagesTypes ==
    /\ moment \in 0 .. MaxMoment /\ lastMessageAt \in [Conversation -> 0 .. MaxMoment]
    /\ \A c \in Conversation : lastMessageAt[c] <= moment
    /\ matching \subseteq Conversation /\ cursor \in Conversation \cup {0}
    /\ listed \subseteq Conversation /\ quiet \subseteq matching /\ ended \subseteq {"list", "history"}

\* The order of the rows, with their times given.
BelowAt(at, c, d) == at[c] < at[d] \/ (at[c] = at[d] /\ c < d)

\* What the walk has still to show is below its cursor.
ListInv ==
    /\ "list" \notin ended => \A c \in quiet \ listed : cursor = 0 \/ BelowAt(lastMessageAt, c, cursor)
    /\ "list" \in ended => quiet \subseteq listed

\* The messages, and the cursor of the history in them.
HistoryTypes ==
    /\ createdAt \in Seq(Nat) /\ Len(createdAt) <= MaxMessage
    /\ \A m \in 1 .. Len(createdAt) : createdAt[m] <= moment
    /\ \A m, n \in 1 .. Len(createdAt) : m <= n => createdAt[m] <= createdAt[n]
    /\ history \in Seq(Nat) /\ known \subseteq 1 .. Len(createdAt)
    /\ \/ before = Pages!NoMoment /\ ("history" \in ended \/ history = <<>>)
       \/ \E b \in 1 .. Len(createdAt) : before = [at |-> createdAt[b], id |-> b]

\* The history goes down to its cursor without a gap.
HistoryInv ==
    /\ \A i, j \in 1 .. Len(history) : i < j => history[i] > history[j]
    /\ "history" \notin ended /\ before # Pages!NoMoment =>
          /\ \A i \in 1 .. Len(history) : history[i] >= before.id
          /\ \A m \in known : m >= before.id => \E i \in 1 .. Len(history) : history[i] = m
    /\ "history" \in ended => \A m \in known : \E i \in 1 .. Len(history) : history[i] = m

PagesInv == PagesTypes /\ ListInv /\ HistoryTypes /\ HistoryInv

\* The walks begin with nothing shown.
LEMMA PagesInit == ASSUME Pages!Init PROVE PagesInv
<1> USE PagesAssumption DEF Pages!Init
<1>1. PagesTypes BY DEF PagesTypes
<1>2. ListInv BY DEF ListInv
<1>3. HistoryTypes /\ HistoryInv
  <2>1. PICK n \in 0 .. MaxMessage : createdAt = [m \in 1 .. n |-> 0] /\ known = 1 .. n OBVIOUS
  <2>2. n \in Nat /\ n <= MaxMessage OBVIOUS
  <2>3. createdAt \in Seq(Nat) /\ Len(createdAt) = n /\ \A m \in 1 .. n : createdAt[m] = 0 BY <2>1, <2>2
  <2>4. HistoryTypes BY <2>1, <2>2, <2>3 DEF HistoryTypes
  <2>5. HistoryInv BY DEF HistoryInv
  <2> QED BY <2>4, <2>5
<1> QED BY <1>1, <1>2, <1>3 DEF PagesInv

\* The rows are in one order.
LEMMA BelowIsTotal ==
    ASSUME PagesTypes, NEW c \in Conversation, NEW d \in Conversation, c # d, ~BelowAt(lastMessageAt, c, d)
    PROVE  BelowAt(lastMessageAt, d, c)
<1>1. c \in Nat /\ d \in Nat /\ lastMessageAt[c] \in Nat /\ lastMessageAt[d] \in Nat
  BY PagesAssumption DEF PagesTypes
<1> QED BY <1>1 DEF BelowAt

\* The instance counts as this module does.
LEMMA PagesCount == \A S : Pages!Cardinality(S) = Cardinality(S)
BY Zenon DEF Pages!Cardinality, Cardinality, Pages!IsFiniteSet, IsFiniteSet

\* The next page.
LEMMA ListStep == ASSUME PagesInv, Pages!List PROVE PagesInv'
<1> USE DEF PagesInv
<1> DEFINE R == Pages!Remaining
<1>1. PICK page \in SUBSET R :
        /\ Pages!Cardinality(page) = PageLimit \/ page = R
        /\ \A c \in page, d \in R \ page : ~BelowAt(lastMessageAt, c, d)
        /\ listed' = listed \cup page
        /\ IF Pages!Cardinality(R) > PageLimit
           THEN cursor' \in page /\ ended' = ended
           ELSE ended' = ended \cup {"list"} /\ cursor' = cursor
  BY DEF Pages!List, Pages!Below, BelowAt
<1>2. UNCHANGED <<moment, lastMessageAt, matching, quiet, createdAt, before, history, known>> /\ "list" \notin ended
  BY DEF Pages!List
<1>3. R \subseteq Conversation /\ IsFiniteSet(R)
  <2>1. R \subseteq Conversation BY DEF Pages!Remaining, PagesTypes
  <2> QED BY <2>1, FS_Subset, PagesAssumption
<1>4. quiet \ listed \subseteq R BY <1>2 DEF Pages!Remaining, Pages!Below, BelowAt, ListInv, PagesTypes
<1>5. PagesTypes' BY <1>1, <1>2, <1>3 DEF PagesTypes
<1>6. Pages!Cardinality(page) = Cardinality(page) /\ Pages!Cardinality(R) = Cardinality(R) BY PagesCount
<1> HIDE DEF R
<1>7. ListInv'
  <2>1. CASE Cardinality(R) > PageLimit
    <3>1. cursor' \in page /\ ended' = ended BY <1>1, <1>6, <2>1
    <3>2. ASSUME NEW c \in quiet \ listed' PROVE BelowAt(lastMessageAt, c, cursor')
      <4>1. c \in R \ page BY <1>1, <1>4
      <4>2. ~BelowAt(lastMessageAt, cursor', c) /\ cursor' # c BY <1>1, <3>1, <4>1
      <4> QED BY <1>3, <3>1, <4>1, <4>2, BelowIsTotal
    <3> QED BY <1>2, <3>1, <3>2 DEF ListInv
  <2>2. CASE ~(Cardinality(R) > PageLimit)
    <3>1. page = R
      <4>1. Cardinality(page) \in Nat /\ Cardinality(R) \in Nat /\ Cardinality(page) <= Cardinality(R)
            /\ (Cardinality(page) = Cardinality(R) => page = R)
        BY <1>3, FS_Subset, FS_CardinalityType
      <4> QED BY <1>1, <1>6, <2>2, <4>1, PagesAssumption
    <3>2. "list" \in ended' BY <1>1, <1>6, <2>2
    <3>3. quiet \subseteq listed' BY <1>1, <1>4, <3>1
    <3> QED BY <1>2, <3>2, <3>3 DEF ListInv
  <2> QED BY <2>1, <2>2
<1>8. "history" \in ended' <=> "history" \in ended BY <1>1
<1>9. HistoryTypes' /\ HistoryInv' BY <1>2, <1>8 DEF HistoryTypes, HistoryInv
<1> QED BY <1>5, <1>7, <1>9

\* Time passes.
LEMMA PagesTickStep == ASSUME PagesInv, Pages!Tick PROVE PagesInv'
<1> USE DEF PagesInv
<1>1. /\ UNCHANGED <<lastMessageAt, matching, cursor, listed, quiet, createdAt, before, history, known, ended>>
      /\ moment' = moment + 1 /\ moment < MaxMoment
  BY DEF Pages!Tick
<1>2. moment \in Nat /\ \A c \in Conversation : lastMessageAt[c] \in Nat BY PagesAssumption DEF PagesTypes
<1>3. PagesTypes'
  <2>1. moment' \in 0 .. MaxMoment BY <1>1, <1>2, PagesAssumption
  <2>2. \A c \in Conversation : lastMessageAt[c] <= moment' BY <1>1, <1>2 DEF PagesTypes
  <2> QED BY <1>1, <2>1, <2>2 DEF PagesTypes
<1>4. \A m \in 1 .. Len(createdAt) : createdAt[m] <= moment' BY <1>1, <1>2 DEF HistoryTypes
<1>5. HistoryTypes' BY <1>1, <1>4 DEF HistoryTypes
<1>6. ListInv' /\ HistoryInv' BY <1>1 DEF ListInv, HistoryInv
<1> QED BY <1>3, <1>5, <1>6

\* A conversation gets a message, which may be the cursor's own: what is below it stays below.
LEMMA NewMessageStep == ASSUME PagesInv, NEW c \in Conversation, Pages!NewMessage(c) PROVE PagesInv'
<1> USE DEF PagesInv
<1>1. /\ UNCHANGED <<moment, matching, cursor, listed, createdAt, before, history, known, ended>>
      /\ lastMessageAt' = [lastMessageAt EXCEPT ![c] = moment] /\ quiet' = quiet \ {c}
  BY DEF Pages!NewMessage
<1>2. /\ lastMessageAt' \in [Conversation -> 0 .. MaxMoment] /\ lastMessageAt'[c] = moment
      /\ \A d \in Conversation \ {c} : lastMessageAt'[d] = lastMessageAt[d]
  BY <1>1 DEF PagesTypes
<1>3. moment \in Nat /\ \A d \in Conversation : lastMessageAt[d] \in Nat /\ lastMessageAt[d] <= moment /\ d \in Nat
  BY PagesAssumption DEF PagesTypes
<1>4. PagesTypes' BY <1>1, <1>2, <1>3 DEF PagesTypes
<1>5. ListInv'
  <2>1. ASSUME NEW d \in quiet' \ listed, cursor # 0, BelowAt(lastMessageAt, d, cursor)
        PROVE  BelowAt(lastMessageAt', d, cursor)
    <3>1. d \in Conversation /\ d # c /\ cursor \in Conversation BY <1>1, <2>1 DEF PagesTypes
    <3>2. CASE cursor = c BY <1>2, <1>3, <2>1, <3>1, <3>2 DEF BelowAt
    <3>3. CASE cursor # c BY <1>2, <2>1, <3>1, <3>3 DEF BelowAt
    <3> QED BY <3>2, <3>3
  <2> QED BY <1>1, <2>1 DEF ListInv
<1>6. HistoryTypes' /\ HistoryInv' BY <1>1 DEF HistoryTypes, HistoryInv
<1> QED BY <1>4, <1>5, <1>6

\* A conversation enters or leaves the filter, and is no longer quiet.
LEMMA ChangedStep == ASSUME PagesInv, NEW c \in Conversation, Pages!Changed(c) PROVE PagesInv'
<1> USE DEF PagesInv
<1>1. /\ UNCHANGED <<moment, lastMessageAt, cursor, listed, createdAt, before, history, known, ended>>
      /\ quiet' = quiet \ {c} /\ matching' \subseteq Conversation /\ matching \ {c} \subseteq matching'
  BY DEF Pages!Changed, PagesTypes
<1>2. PagesTypes' BY <1>1 DEF PagesTypes
<1>3. ListInv' BY <1>1 DEF ListInv
<1>4. HistoryTypes' /\ HistoryInv' BY <1>1 DEF HistoryTypes, HistoryInv
<1> QED BY <1>2, <1>3, <1>4

\* A message arrives in the open conversation, after the others.
LEMMA ArrivesStep == ASSUME PagesInv, Pages!Arrives PROVE PagesInv'
<1> USE DEF PagesInv
<1>1. /\ UNCHANGED <<moment, lastMessageAt, matching, cursor, listed, quiet, before, history, known, ended>>
      /\ createdAt' = Append(createdAt, moment) /\ Len(createdAt) < MaxMessage
  BY DEF Pages!Arrives
<1>2. moment \in Nat BY PagesAssumption DEF PagesTypes
<1>3. /\ createdAt' \in Seq(Nat) /\ Len(createdAt') = Len(createdAt) + 1 /\ Len(createdAt) \in Nat
      /\ createdAt'[Len(createdAt) + 1] = moment
      /\ \A m \in 1 .. Len(createdAt) : createdAt'[m] = createdAt[m]
  BY <1>1, <1>2 DEF HistoryTypes
<1>4. \A m \in 1 .. Len(createdAt') : m \in 1 .. Len(createdAt) \/ m = Len(createdAt) + 1 BY <1>3
<1>5. \A m \in 1 .. Len(createdAt) : createdAt[m] \in Nat /\ createdAt[m] <= moment BY DEF HistoryTypes
<1>6. \A m \in 1 .. Len(createdAt') : createdAt'[m] <= moment BY <1>2, <1>3, <1>4, <1>5
<1>7. ASSUME NEW m \in 1 .. Len(createdAt'), NEW n \in 1 .. Len(createdAt'), m <= n
      PROVE  createdAt'[m] <= createdAt'[n]
  <2>1. CASE n = Len(createdAt) + 1 BY <1>3, <1>6, <2>1
  <2>2. CASE n \in 1 .. Len(createdAt)
    <3>1. m \in 1 .. Len(createdAt) BY <1>3, <1>7, <2>2
    <3> QED BY <1>3, <1>7, <2>2, <3>1 DEF HistoryTypes
  <2> QED BY <1>4, <2>1, <2>2
<1>8. HistoryTypes'
  <2>1. known \subseteq 1 .. Len(createdAt') BY <1>3 DEF HistoryTypes
  <2>2. \/ before = Pages!NoMoment /\ ("history" \in ended \/ history = <<>>)
        \/ \E b \in 1 .. Len(createdAt') : before = [at |-> createdAt'[b], id |-> b]
    <3>1. ASSUME NEW b \in 1 .. Len(createdAt), before = [at |-> createdAt[b], id |-> b]
          PROVE  b \in 1 .. Len(createdAt') /\ before = [at |-> createdAt'[b], id |-> b]
      BY <1>3, <3>1
    <3> QED BY <3>1 DEF HistoryTypes
  <2>3. Len(createdAt') <= MaxMessage BY <1>1, <1>3, PagesAssumption
  <2>4. Pages!NoMoment' = Pages!NoMoment BY DEF Pages!NoMoment
  <2> QED BY <1>1, <1>3, <1>6, <1>7, <2>1, <2>2, <2>3, <2>4 DEF HistoryTypes
<1>9. PagesTypes' /\ ListInv' /\ HistoryInv' BY <1>1 DEF PagesTypes, ListInv, HistoryInv, Pages!NoMoment
<1> QED BY <1>8, <1>9

\* How many of an interval are above one of its elements.
LEMMA AboveCount ==
    ASSUME NEW lo \in Nat, NEW hi \in Nat, NEW m \in lo .. hi
    PROVE  Pages!Cardinality({x \in lo .. hi : x > m}) = hi - m
<1>1. m \in Nat /\ m <= hi /\ m + 1 \in Int OBVIOUS
<1>2. {x \in lo .. hi : x > m} = (m + 1) .. hi BY <1>1
<1>3. Cardinality((m + 1) .. hi) = IF m + 1 > hi THEN 0 ELSE hi - (m + 1) + 1 BY <1>1, FS_Interval
<1>4. Cardinality((m + 1) .. hi) = hi - m BY <1>1, <1>3
<1> QED BY <1>2, <1>4, PagesCount

\* The newest page of the first messages is an interval.
LEMMA NewestOfPrefix ==
    ASSUME NEW hi \in Nat, NEW n \in Nat \ {0}
    PROVE  Pages!Newest(1 .. hi, n) = (IF hi > n THEN hi - n + 1 ELSE 1) .. hi
<1>1. Pages!Newest(1 .. hi, n) = {m \in 1 .. hi : Pages!Cardinality({k \in 1 .. hi : k > m}) < n}
  BY DEF Pages!Newest
<1>2. \A m \in 1 .. hi : Pages!Cardinality({k \in 1 .. hi : k > m}) = hi - m BY AboveCount
<1>3. Pages!Newest(1 .. hi, n) = {m \in 1 .. hi : hi - m < n} BY <1>1, <1>2
<1>4. CASE hi > n
  <2>1. \A m : (m \in 1 .. hi /\ hi - m < n) <=> m \in (hi - n + 1) .. hi BY <1>4
  <2> QED BY <1>3, <1>4, <2>1
<1>5. CASE ~(hi > n)
  <2>1. \A m \in 1 .. hi : hi - m < n BY <1>5
  <2> QED BY <1>3, <1>5, <2>1
<1> QED BY <1>4, <1>5

\* An interval in descending order.
LEMMA DescendingOfInterval ==
    ASSUME NEW lo \in Nat \ {0}, NEW hi \in Nat, lo <= hi + 1
    PROVE  Pages!Descending(lo .. hi) = [k \in 1 .. (hi - lo + 1) |-> hi - k + 1]
<1>1. Pages!Cardinality(lo .. hi) = hi - lo + 1
  <2>1. Cardinality(lo .. hi) = IF lo > hi THEN 0 ELSE hi - lo + 1 BY FS_Interval
  <2> QED BY <2>1, PagesCount
<1> DEFINE Count(m) == Pages!Cardinality({x \in lo .. hi : x > m})
<1>2. \A m \in lo .. hi : Count(m) = hi - m BY AboveCount
<1>3. Pages!Descending(lo .. hi) = [k \in 1 .. (hi - lo + 1) |-> CHOOSE m \in lo .. hi : Count(m) = k - 1]
  BY <1>1 DEF Pages!Descending
<1> HIDE DEF Count
<1>4. ASSUME NEW k \in 1 .. (hi - lo + 1)
      PROVE  (CHOOSE m \in lo .. hi : Count(m) = k - 1) = hi - k + 1
  <2>1. hi - k + 1 \in lo .. hi /\ Count(hi - k + 1) = k - 1
    <3>1. hi - k + 1 \in lo .. hi OBVIOUS
    <3> QED BY <1>2, <3>1
  <2>2. \A m \in lo .. hi : Count(m) = k - 1 => m = hi - k + 1 BY <1>2
  <2> QED BY <2>1, <2>2
<1> QED BY <1>3, <1>4

\* What is older than the cursor of the history are the first messages, also those of one instant.
LEMMA OlderIsPrefix ==
    ASSUME PagesInv
    PROVE  \E hi \in 0 .. Len(createdAt) :
              /\ {m \in DOMAIN createdAt : Pages!Older(m)} = 1 .. hi
              /\ before = Pages!NoMoment => hi = Len(createdAt)
              /\ before # Pages!NoMoment => before.id = hi + 1
<1> DEFINE n == Len(createdAt)
<1>1. /\ n \in Nat /\ DOMAIN createdAt = 1 .. n /\ moment \in Nat /\ moment <= MaxMoment /\ MaxMoment \in Nat
      /\ \A m \in 1 .. n : createdAt[m] \in Nat /\ createdAt[m] <= moment
      /\ \A m, k \in 1 .. n : m <= k => createdAt[m] <= createdAt[k]
  BY PagesAssumption DEF PagesInv, PagesTypes, HistoryTypes
<1> HIDE DEF n
<1>2. CASE before = Pages!NoMoment
  <2>1. before.at = MaxMoment + 1 BY <1>2 DEF Pages!NoMoment
  <2>2. {m \in DOMAIN createdAt : Pages!Older(m)} = 1 .. n BY <1>1, <2>1 DEF Pages!Older
  <2>3. n \in 0 .. Len(createdAt) /\ n = Len(createdAt) BY <1>1 DEF n
  <2> QED BY <1>2, <2>2, <2>3
<1>3. CASE before # Pages!NoMoment
  <2>1. PICK b \in 1 .. n : before = [at |-> createdAt[b], id |-> b] BY <1>3 DEF PagesInv, HistoryTypes, n
  <2>2. \A m \in 1 .. n : Pages!Older(m) <=> m < b
    <3>1. ASSUME NEW m \in 1 .. n, m < b PROVE Pages!Older(m) BY <1>1, <2>1, <3>1 DEF Pages!Older
    <3>2. ASSUME NEW m \in 1 .. n, ~(m < b) PROVE ~Pages!Older(m)
      <4>1. createdAt[b] <= createdAt[m] BY <1>1, <3>2
      <4> QED BY <1>1, <2>1, <3>2, <4>1 DEF Pages!Older
    <3> QED BY <3>1, <3>2
  <2>3. b - 1 \in 0 .. n /\ {m \in DOMAIN createdAt : Pages!Older(m)} = 1 .. (b - 1) BY <1>1, <2>2
  <2>4. before.id = (b - 1) + 1 BY <2>1
  <2> QED BY <1>3, <2>3, <2>4 DEF n
<1> QED BY <1>2, <1>3

\* What a concatenation consists of.
LEMMA ConcatFacts ==
    ASSUME NEW s \in Seq(Nat), NEW t \in Seq(Nat)
    PROVE  /\ s \o t \in Seq(Nat) /\ Len(s) \in Nat /\ Len(t) \in Nat /\ Len(s \o t) = Len(s) + Len(t)
           /\ \A i \in 1 .. (Len(s) + Len(t)) : (s \o t)[i] = IF i <= Len(s) THEN s[i] ELSE t[i - Len(s)]
OBVIOUS

\* The next page of the history continues it downwards.
LEMMA listMessagesStep == ASSUME PagesInv, Pages!listMessages PROVE PagesInv'
<1> USE DEF PagesInv
<1> DEFINE older == {m \in DOMAIN createdAt : Pages!Older(m)}
           page == Pages!Newest(older, PageLimit)
           n == Len(createdAt)
<1>1. PICK hi \in 0 .. n :
        /\ older = 1 .. hi
        /\ before = Pages!NoMoment => hi = n
        /\ before # Pages!NoMoment => before.id = hi + 1
  BY OlderIsPrefix
<1>2. /\ "history" \notin ended /\ history' = history \o Pages!Descending(page)
      /\ IF Pages!Cardinality(older) > PageLimit
         THEN LET last == CHOOSE m \in page : \A k \in page : m <= k
              IN  before' = [at |-> createdAt[last], id |-> last] /\ UNCHANGED ended
         ELSE ended' = ended \cup {"history"} /\ UNCHANGED before
      /\ UNCHANGED <<moment, lastMessageAt, matching, cursor, listed, quiet, createdAt, known>>
  BY DEF Pages!listMessages
<1> DEFINE lo == IF hi > PageLimit THEN hi - PageLimit + 1 ELSE 1
<1>3. n \in Nat /\ hi \in Nat /\ hi <= n BY DEF HistoryTypes
<1>4. lo \in Nat \ {0} /\ lo <= hi + 1 /\ (hi > PageLimit => lo <= hi) BY <1>3, PagesAssumption
<1>5. page = lo .. hi BY <1>1, <1>3, NewestOfPrefix, PagesAssumption
<1>6. Pages!Cardinality(older) = hi
  <2>1. Cardinality(1 .. hi) = IF 1 > hi THEN 0 ELSE hi - 1 + 1 BY <1>3, FS_Interval
  <2>2. Pages!Cardinality(1 .. hi) = Cardinality(1 .. hi) BY PagesCount
  <2>3. Cardinality(1 .. hi) = hi BY <1>3, <2>1
  <2> QED BY <1>1, <2>2, <2>3
<1> HIDE DEF older, page, n
<1>7. Pages!Descending(page) = [k \in 1 .. (hi - lo + 1) |-> hi - k + 1]
  BY <1>3, <1>4, <1>5, DescendingOfInterval
<1> DEFINE d == [k \in 1 .. (hi - lo + 1) |-> hi - k + 1]
           l == Len(history)
<1>8. d \in Seq(Nat) /\ Len(d) = hi - lo + 1 /\ (\A k \in 1 .. Len(d) : d[k] = hi - k + 1)
  <2>1. hi - lo + 1 \in Nat BY <1>3, <1>4
  <2>2. \A k \in 1 .. (hi - lo + 1) : hi - k + 1 \in Nat BY <1>3, <1>4
  <2> HIDE DEF lo
  <2> QED BY <2>1, <2>2
<1>9. history \in Seq(Nat) /\ history' = history \o d BY <1>2, <1>7 DEF HistoryTypes
<1> HIDE DEF d, lo
<1>10. /\ history' \in Seq(Nat) /\ l \in Nat /\ Len(d) \in Nat /\ Len(history') = l + Len(d)
       /\ \A i \in 1 .. l : history'[i] = history[i]
       /\ \A i \in 1 .. (l + Len(d)) : i > l => history'[i] = hi - (i - l) + 1
  <2>1. /\ history' \in Seq(Nat) /\ l \in Nat /\ Len(d) \in Nat /\ Len(history') = l + Len(d)
        /\ \A i \in 1 .. (l + Len(d)) : history'[i] = IF i <= l THEN history[i] ELSE d[i - l]
    BY <1>8, <1>9, ConcatFacts
  <2>2. ASSUME NEW i \in 1 .. (l + Len(d)), i > l PROVE history'[i] = hi - (i - l) + 1
    <3>1. i - l \in 1 .. Len(d) /\ ~(i <= l) BY <2>1, <2>2
    <3> QED BY <1>8, <2>1, <3>1
  <2> QED BY <2>1, <2>2
<1> HIDE DEF l
\* The old part stays above the new one.
<1>11. \A i \in 1 .. l : history[i] \in Nat /\ history[i] > hi
  <2>1. CASE before = Pages!NoMoment
    <3>1. before.id = 0 BY <2>1 DEF Pages!NoMoment
    <3>2. ~\E b \in 1 .. Len(createdAt) : before = [at |-> createdAt[b], id |-> b] BY <3>1
    <3>3. history = <<>> BY <1>2, <2>1, <3>2 DEF HistoryTypes
    <3> QED BY <3>3 DEF l
  <2>2. CASE before # Pages!NoMoment BY <1>1, <1>2, <1>3, <2>2 DEF HistoryInv, HistoryTypes, l
  <2> QED BY <2>1, <2>2
<1>12. \A i, j \in 1 .. Len(history') : i < j => history'[i] > history'[j]
  <2>1. ASSUME NEW i \in 1 .. Len(history'), NEW j \in 1 .. Len(history'), i < j PROVE history'[i] > history'[j]
    <3>1. CASE j <= l
      <4>1. i \in 1 .. l /\ j \in 1 .. l BY <1>10, <2>1, <3>1
      <4> QED BY <1>10, <2>1, <4>1 DEF HistoryInv, l
    <3>2. CASE i <= l /\ j > l
      <4>1. i \in 1 .. l /\ history'[j] = hi - (j - l) + 1 BY <1>10, <2>1, <3>2
      <4>2. hi - (j - l) + 1 <= hi BY <1>3, <1>10, <2>1, <3>2
      <4>3. history'[i] = history[i] /\ history[i] > hi /\ history[i] \in Nat BY <1>10, <1>11, <4>1
      <4>4. hi - (j - l) + 1 \in Int BY <1>3, <1>10, <2>1
      <4> QED BY <1>3, <4>1, <4>2, <4>3, <4>4
    <3>3. CASE i > l /\ j > l
      <4>1. history'[i] = hi - (i - l) + 1 /\ history'[j] = hi - (j - l) + 1 BY <1>10, <3>3
      <4> QED BY <1>3, <1>10, <2>1, <4>1
    <3> QED BY <1>10, <2>1, <3>1, <3>2, <3>3
  <2> QED BY <2>1
\* All that is known from the new page's end upwards is shown.
<1>13. ASSUME NEW m \in known, m >= lo PROVE \E i \in 1 .. Len(history') : history'[i] = m
  <2>1. m \in 1 .. n /\ m \in Nat BY DEF HistoryTypes, n
  <2>2. CASE m <= hi
    <3> DEFINE i == l + (hi - m + 1)
    <3>1. i \in 1 .. (l + Len(d)) /\ i > l /\ hi - (i - l) + 1 = m BY <1>3, <1>4, <1>8, <1>10, <1>13, <2>1, <2>2
    <3> QED BY <1>10, <3>1
  <2>3. CASE m > hi
    <3>1. before # Pages!NoMoment BY <1>1, <2>1, <2>3, <1>3
    <3>2. m >= before.id BY <1>1, <1>3, <2>1, <2>3, <3>1
    <3>3. PICK i \in 1 .. l : history[i] = m BY <1>2, <3>1, <3>2 DEF HistoryInv, l
    <3> QED BY <1>10, <3>3
  <2> QED BY <1>3, <2>1, <2>2, <2>3
<1>14. Pages!NoMoment' = Pages!NoMoment BY DEF Pages!NoMoment
<1>15. PagesTypes' /\ ListInv' /\ HistoryTypes' /\ HistoryInv'
  <2>1. CASE hi > PageLimit
    <3>1. (CHOOSE m \in page : \A k \in page : m <= k) = lo
      <4>1. lo \in page /\ \A k \in page : lo <= k BY <1>3, <1>4, <1>5, <2>1
      <4>2. \A m \in page : (\A k \in page : m <= k) => m = lo BY <1>3, <1>4, <1>5, <4>1
      <4> QED BY <4>1, <4>2
    <3>2. before' = [at |-> createdAt[lo], id |-> lo] /\ ended' = ended BY <1>2, <1>6, <2>1, <3>1
    <3>3. lo \in 1 .. n /\ before'.id = lo BY <1>3, <1>4, <2>1, <3>2
    <3>4. PagesTypes' /\ ListInv' BY <1>2, <3>2 DEF PagesTypes, ListInv
    <3>5. HistoryTypes' BY <1>2, <1>10, <3>2, <3>3 DEF HistoryTypes, n
    <3>6. \A i \in 1 .. Len(history') : history'[i] >= lo
      <4>1. ASSUME NEW i \in 1 .. Len(history'), i <= l PROVE history'[i] >= lo
        <5>1. i \in 1 .. l BY <1>10, <4>1
        <5> QED BY <1>3, <1>4, <1>10, <1>11, <2>1, <5>1, SMTT(60)
      <4>2. ASSUME NEW i \in 1 .. Len(history'), i > l PROVE history'[i] >= lo
        BY <1>3, <1>4, <1>8, <1>10, <4>2
      <4> QED BY <1>10, <4>1, <4>2
    <3>7. HistoryInv' BY <1>2, <1>12, <1>13, <3>2, <3>3, <3>6 DEF HistoryInv
    <3> QED BY <3>4, <3>5, <3>7
  <2>2. CASE ~(hi > PageLimit)
    <3>1. ended' = ended \cup {"history"} /\ before' = before /\ lo = 1 BY <1>2, <1>6, <2>2 DEF lo
    <3>2. PagesTypes' /\ ListInv' BY <1>2, <3>1 DEF PagesTypes, ListInv
    <3>3. HistoryTypes' BY <1>2, <1>10, <1>14, <3>1 DEF HistoryTypes
    <3>4. \A m \in known : m >= lo BY <3>1 DEF HistoryTypes
    <3>5. HistoryInv' BY <1>2, <1>12, <1>13, <3>1, <3>4 DEF HistoryInv
    <3> QED BY <3>2, <3>3, <3>5
  <2> QED BY <2>1, <2>2
<1> QED BY <1>15

\* Every step of a reader, of the clock and of a conversation.
LEMMA PagesNext == ASSUME PagesInv, Pages!Next PROVE PagesInv'
BY PagesTickStep, ListStep, ArrivesStep, listMessagesStep, NewMessageStep, ChangedStep DEF Pages!Next

\* What the invariant says of a walk that ended.
LEMMA PagesInvImplies ==
    ASSUME PagesInv
    PROVE  Pages!TypeOK /\ Pages!WalkShowsTheQuiet /\ Pages!HistoryShownOnce
<1> USE PagesAssumption DEF PagesInv
<1>1. Pages!TypeOK
  <2>1. \A m \in DOMAIN createdAt : createdAt[m] \in 0 .. MaxMoment
    <3>1. ASSUME NEW m \in 1 .. Len(createdAt) PROVE createdAt[m] \in 0 .. MaxMoment
      <4>1. createdAt[m] \in Nat /\ createdAt[m] <= moment /\ moment \in 0 .. MaxMoment
        BY DEF PagesTypes, HistoryTypes
      <4> QED BY <4>1
    <3>2. DOMAIN createdAt = 1 .. Len(createdAt) BY DEF HistoryTypes
    <3> QED BY <3>1, <3>2
  <2>2. known \subseteq 1 .. MaxMessage BY DEF HistoryTypes
  <2> QED BY <2>1, <2>2 DEF Pages!TypeOK, PagesTypes
<1>2. Pages!WalkShowsTheQuiet BY DEF Pages!WalkShowsTheQuiet, ListInv
<1>3. Pages!HistoryShownOnce
  <2>1. DOMAIN history = 1 .. Len(history) BY DEF HistoryTypes
  <2> QED BY <2>1 DEF Pages!HistoryShownOnce, HistoryInv
<1> QED BY <1>1, <1>2, <1>3

(* A reader who follows the cursors to the end has seen every conversation that stayed as it     *)
(* was, and paging back through a history shows each message once and none is left out           *)
(* (conversations.service.ts: list, listMessages), for any number of rows and any page size.     *)
THEOREM NoRowIsSkipped == ServicesSpec => []WalksAreComplete
<1> DEFINE Inv == part = "pages" => PagesInv
<1>1. ServicesInit => Inv BY PagesInit DEF ServicesInit
<1>2. Inv /\ [ServicesNext]_allvars => Inv'
  <2> SUFFICES ASSUME Inv, [ServicesNext]_allvars, part' = "pages" PROVE PagesInv' OBVIOUS
  <2>1. part = "pages" BY DEF ServicesNext, allvars
  <2>2. CASE Pages!Next BY <2>1, <2>2, PagesNext
  <2>3. CASE UNCHANGED pvars
    BY <2>1, <2>3 DEF pvars, PagesInv, PagesTypes, ListInv, HistoryTypes, HistoryInv, Pages!NoMoment
  <2> QED BY <2>1, <2>2, <2>3 DEF ServicesNext, allvars
<1>3. Inv => WalksAreComplete BY PagesInvImplies DEF WalksAreComplete
<1> QED BY <1>1, <1>2, <1>3, PTL DEF ServicesSpec


-----------------------------------------------------------------------------
(* Limits *)

HitType == {Shared!Nothing} \cup [id : Identity, answer : {"sent", "yes", "no"}, at : Nat]

CounterKey(x) == <<"shared", x>>
Open(x) == CounterKey(x) \in DOMAIN counters
Count(x) == counters[CounterKey(x)].count
Start(x) == counters[CounterKey(x)].exp - Window

CountersOK ==
    /\ counters = [k \in DOMAIN counters |-> counters[k]] /\ DOMAIN counters \subseteq {CounterKey(x) : x \in Identity}
    /\ \A k \in DOMAIN counters : /\ counters[k] \in [count : Nat \ {0}, exp : Nat]
                                  /\ now < counters[k].exp /\ counters[k].exp <= now + Window

HitsOK ==
    /\ store \in {"redis", "memory"} /\ now \in 0 .. MaxTime
    /\ hit \in [Instance -> HitType] /\ late \subseteq Instance \X Identity
    /\ counted \in [Identity -> Seq(Nat)] /\ served \in [Identity -> Seq(Nat)]
    /\ \A x \in Identity : \A k \in DOMAIN counted[x] : counted[x][k] <= now

\* The hits of an identity that were let through from time a to b, and those whose answer is on its way.
ServedIn(x, a, b) == {k \in DOMAIN served[x] : served[x][k] \in a .. b}
YesIn(x, a, b) == {i \in Instance : hit[i].answer = "yes" /\ hit[i].id = x /\ hit[i].at \in a .. b}

\* How many hits were admitted, by identity and interval.
Admitted ==
    [x \in Identity |-> [a \in Int |-> [b \in Int |-> Cardinality(ServedIn(x, a, b)) + Cardinality(YesIn(x, a, b))]]]

\* What is counted has a number.
LEMMA SetsFinite ==
    ASSUME HitsOK, NEW x \in Identity, NEW a \in Int, NEW b \in Int
    PROVE  /\ IsFiniteSet(ServedIn(x, a, b)) /\ Cardinality(ServedIn(x, a, b)) \in Nat
           /\ IsFiniteSet(YesIn(x, a, b)) /\ Cardinality(YesIn(x, a, b)) \in Nat
           /\ Admitted[x][a][b] = Cardinality(ServedIn(x, a, b)) + Cardinality(YesIn(x, a, b))
           /\ Admitted[x][a][b] \in Nat
<1>1. DOMAIN served[x] = 1 .. Len(served[x]) /\ Len(served[x]) \in Int BY DEF HitsOK
<1>2. IsFiniteSet(1 .. Len(served[x]))
  <2>1. PICK n \in Int : n = Len(served[x]) BY <1>1
  <2>2. IsFiniteSet(1 .. n) BY FS_Interval
  <2> QED BY <2>1, <2>2
<1>3. ServedIn(x, a, b) \in SUBSET (1 .. Len(served[x])) BY <1>1 DEF ServedIn
<1>4. IsFiniteSet(ServedIn(x, a, b)) BY <1>2, <1>3, FS_Subset
<1>5. YesIn(x, a, b) \in SUBSET Instance BY DEF YesIn
<1>6. IsFiniteSet(YesIn(x, a, b)) BY <1>5, FS_Subset, LimitsAssumption
<1>7. Cardinality(ServedIn(x, a, b)) \in Nat /\ Cardinality(YesIn(x, a, b)) \in Nat BY <1>4, <1>6, FS_CardinalityType
<1>8. Admitted[x][a][b] = Cardinality(ServedIn(x, a, b)) + Cardinality(YesIn(x, a, b)) BY DEF Admitted
<1> QED BY <1>4, <1>6, <1>7, <1>8

\* A longer interval has no fewer hits.
LEMMA MoreTimeMoreHits ==
    ASSUME HitsOK, NEW x \in Identity, NEW a \in Int, NEW b \in Int, NEW c \in Int, NEW d \in Int, a <= c, d <= b
    PROVE  Admitted[x][c][d] <= Admitted[x][a][b]
<1>1. ServedIn(x, c, d) \in SUBSET ServedIn(x, a, b) BY DEF ServedIn, HitsOK
<1>2. YesIn(x, c, d) \in SUBSET YesIn(x, a, b)
  <2>1. \A i \in Instance : hit[i].answer = "yes" => hit[i].at \in Int BY DEF HitsOK, HitType, Shared!Nothing
  <2> QED BY <2>1 DEF YesIn
<1>3. /\ Cardinality(ServedIn(x, c, d)) <= Cardinality(ServedIn(x, a, b))
      /\ Cardinality(YesIn(x, c, d)) <= Cardinality(YesIn(x, a, b))
  BY <1>1, <1>2, SetsFinite, FS_Subset
<1> QED BY <1>3, SetsFinite

\* The union of two sets has at most as many elements as both.
LEMMA UnionCount ==
    ASSUME NEW S, IsFiniteSet(S), NEW T, IsFiniteSet(T)
    PROVE  IsFiniteSet(S \cup T) /\ Cardinality(S \cup T) <= Cardinality(S) + Cardinality(T)
<1>1. IsFiniteSet(S \cap T) BY FS_Intersection
<1>2. Cardinality(S \cap T) \in Nat /\ Cardinality(S) \in Nat /\ Cardinality(T) \in Nat BY <1>1, FS_CardinalityType
<1>3. IsFiniteSet(S \cup T) /\ Cardinality(S \cup T) = Cardinality(S) + Cardinality(T) - Cardinality(S \cap T)
  BY FS_Union
<1> QED BY <1>2, <1>3

\* An interval is cut in two.
LEMMA CutInterval ==
    ASSUME HitsOK, NEW x \in Identity, NEW a \in Int, NEW b \in Int, NEW c \in Int
    PROVE  Admitted[x][a][b] <= Admitted[x][a][c - 1] + Admitted[x][c][b]
<1>0. c - 1 \in Int OBVIOUS
<1>1. ServedIn(x, a, b) \in SUBSET (ServedIn(x, a, c - 1) \cup ServedIn(x, c, b)) BY DEF ServedIn, HitsOK
<1>2. YesIn(x, a, b) \in SUBSET (YesIn(x, a, c - 1) \cup YesIn(x, c, b))
  <2>1. \A i \in Instance : hit[i].answer = "yes" => hit[i].at \in Int BY DEF HitsOK, HitType, Shared!Nothing
  <2> QED BY <2>1 DEF YesIn
<1>3. /\ IsFiniteSet(ServedIn(x, a, c - 1)) /\ IsFiniteSet(ServedIn(x, c, b))
      /\ IsFiniteSet(YesIn(x, a, c - 1)) /\ IsFiniteSet(YesIn(x, c, b))
  BY <1>0, SetsFinite
<1>4. /\ IsFiniteSet(ServedIn(x, a, c - 1) \cup ServedIn(x, c, b))
      /\ IsFiniteSet(YesIn(x, a, c - 1) \cup YesIn(x, c, b))
      /\ Cardinality(ServedIn(x, a, c - 1) \cup ServedIn(x, c, b))
           <= Cardinality(ServedIn(x, a, c - 1)) + Cardinality(ServedIn(x, c, b))
      /\ Cardinality(YesIn(x, a, c - 1) \cup YesIn(x, c, b))
           <= Cardinality(YesIn(x, a, c - 1)) + Cardinality(YesIn(x, c, b))
  BY <1>3, UnionCount
<1>5. /\ Cardinality(ServedIn(x, a, b)) <= Cardinality(ServedIn(x, a, c - 1) \cup ServedIn(x, c, b))
      /\ Cardinality(YesIn(x, a, b)) <= Cardinality(YesIn(x, a, c - 1) \cup YesIn(x, c, b))
  BY <1>1, <1>2, <1>4, FS_Subset
<1>6. /\ Cardinality(ServedIn(x, a, c - 1) \cup ServedIn(x, c, b)) \in Nat
      /\ Cardinality(YesIn(x, a, c - 1) \cup YesIn(x, c, b)) \in Nat
  BY <1>4, FS_CardinalityType
<1>7. /\ Admitted[x][a][b] = Cardinality(ServedIn(x, a, b)) + Cardinality(YesIn(x, a, b))
      /\ Admitted[x][a][c - 1] = Cardinality(ServedIn(x, a, c - 1)) + Cardinality(YesIn(x, a, c - 1))
      /\ Admitted[x][c][b] = Cardinality(ServedIn(x, c, b)) + Cardinality(YesIn(x, c, b))
  BY <1>0, SetsFinite
<1>8. /\ Cardinality(ServedIn(x, a, b)) \in Nat /\ Cardinality(YesIn(x, a, b)) \in Nat
      /\ Cardinality(ServedIn(x, a, c - 1)) \in Nat /\ Cardinality(YesIn(x, a, c - 1)) \in Nat
      /\ Cardinality(ServedIn(x, c, b)) \in Nat /\ Cardinality(YesIn(x, c, b)) \in Nat
  BY <1>0, SetsFinite
<1> QED BY <1>4, <1>5, <1>6, <1>7, <1>8

\* The three facts in one, to be used after a step as well.
AdmittedFacts ==
    \A x \in Identity, a, b \in Int :
        /\ Admitted[x][a][b] \in Nat
        /\ \A c, d \in Int : a <= c /\ d <= b => Admitted[x][c][d] <= Admitted[x][a][b]
        /\ \A c \in Int : Admitted[x][a][b] <= Admitted[x][a][c - 1] + Admitted[x][c][b]

LEMMA AdmittedAreNumbers == HitsOK => AdmittedFacts
BY SetsFinite, MoreTimeMoreHits, CutInterval DEF AdmittedFacts

\* A window that started at s with c hits so far: all it has admitted have a number of their own up to c, and
\* those after the first moment one above 1.  What the window before admitted since s - Window is less than the limit.
WindowInv(x, s, c) ==
    /\ \A u \in Int : /\ Admitted[x][s][u] <= c /\ Admitted[x][s][u] <= Limit
                      /\ Admitted[x][s + 1][u] <= c - 1 /\ Admitted[x][s + 1][u] <= Limit - 1
    /\ \A t \in Int : s - Window < t => Admitted[x][t][s - 1] <= Limit - 1

\* The same after the last window has ended.
BetweenInv(x) ==
    /\ \A u \in Int : Admitted[x][now][u] = 0
    /\ \A t, u \in Int : now - Window < t => Admitted[x][t][u] <= Limit - 1

AdmittedInv(x) ==
    /\ \A u \in Int : Admitted[x][now + 1][u] = 0
    /\ \A t \in Int : Admitted[x][t][t + Window - 1] <= 2 * Limit - 1
    /\ Open(x) => WindowInv(x, Start(x), Count(x))
    /\ ~Open(x) => BetweenInv(x)

\* The window of an identity.
LEMMA WindowTypes ==
    ASSUME HitsOK, CountersOK, NEW x \in Identity, Open(x)
    PROVE  Count(x) \in Nat \ {0} /\ Start(x) \in Int /\ Start(x) <= now /\ now < Start(x) + Window
BY LimitsAssumption DEF HitsOK, CountersOK, Open, Count, Start

\* Nothing is admitted, and the window stays.
LEMMA NoneAdmitted ==
    ASSUME HitsOK, HitsOK', CountersOK, NEW x \in Identity, AdmittedInv(x), now' = now,
           \A a, b \in Int : Admitted'[x][a][b] <= Admitted[x][a][b],
           Open(x)' <=> Open(x), Open(x) => Count(x)' = Count(x) /\ Start(x)' = Start(x)
    PROVE  AdmittedInv(x)'
<1>1. AdmittedFacts /\ AdmittedFacts' BY AdmittedAreNumbers, PTL
<1>2. \A a, b \in Int : Admitted[x][a][b] \in Nat /\ Admitted'[x][a][b] \in Nat BY <1>1 DEF AdmittedFacts
<1>3. now \in Int BY DEF HitsOK
<1>4. (\A u \in Int : Admitted[x][now + 1][u] = 0)'
  <2>1. ASSUME NEW u \in Int PROVE Admitted'[x][now + 1][u] = 0
    <3>1. now + 1 \in Int BY <1>3
    <3>2. Admitted'[x][now + 1][u] <= Admitted[x][now + 1][u] BY <3>1
    <3>3. Admitted[x][now + 1][u] = 0 BY DEF AdmittedInv
    <3> QED BY <1>2, <3>1, <3>2, <3>3
  <2> QED BY <2>1
<1>5. (\A t \in Int : Admitted[x][t][t + Window - 1] <= 2 * Limit - 1)' BY <1>2, LimitsAssumption DEF AdmittedInv
<1>6. ASSUME Open(x)' PROVE WindowInv(x, Start(x), Count(x))'
  <2>1. WindowInv(x, Start(x), Count(x)) /\ Start(x) \in Int /\ Count(x) \in Nat BY <1>6, WindowTypes DEF AdmittedInv
  <2>2. Start(x)' = Start(x) /\ Count(x)' = Count(x) BY <1>6
  <2>3. PICK s \in Int, c \in Nat : s = Start(x) /\ c = Count(x) BY <2>1
  <2>4. WindowInv(x, s, c) BY <2>1, <2>3
  <2>5. ASSUME NEW u \in Int
        PROVE  /\ Admitted'[x][s][u] <= c /\ Admitted'[x][s][u] <= Limit
               /\ Admitted'[x][s + 1][u] <= c - 1 /\ Admitted'[x][s + 1][u] <= Limit - 1
    <3>1. s + 1 \in Int OBVIOUS
    <3>2. /\ Admitted'[x][s][u] <= Admitted[x][s][u] /\ Admitted'[x][s + 1][u] <= Admitted[x][s + 1][u] BY <3>1
    <3>3. /\ Admitted[x][s][u] \in Nat /\ Admitted[x][s + 1][u] \in Nat
          /\ Admitted'[x][s][u] \in Nat /\ Admitted'[x][s + 1][u] \in Nat
      BY <1>2, <3>1
    <3>4. /\ Admitted[x][s][u] <= c /\ Admitted[x][s][u] <= Limit
          /\ Admitted[x][s + 1][u] <= c - 1 /\ Admitted[x][s + 1][u] <= Limit - 1
      BY <2>4 DEF WindowInv
    <3> QED BY <3>2, <3>3, <3>4, LimitsAssumption
  <2>6. ASSUME NEW t \in Int, s - Window < t PROVE Admitted'[x][t][s - 1] <= Limit - 1
    <3>1. s - 1 \in Int OBVIOUS
    <3>2. Admitted'[x][t][s - 1] <= Admitted[x][t][s - 1] BY <3>1
    <3>3. Admitted[x][t][s - 1] \in Nat /\ Admitted'[x][t][s - 1] \in Nat BY <1>2, <3>1
    <3>4. Admitted[x][t][s - 1] <= Limit - 1 BY <2>4, <2>6 DEF WindowInv
    <3> QED BY <3>2, <3>3, <3>4, LimitsAssumption
  <2>7. s = Start(x)' /\ c = Count(x)' BY <2>2, <2>3
  <2> QED BY <2>5, <2>6, <2>7 DEF WindowInv
<1>7. ASSUME ~Open(x)' PROVE BetweenInv(x)'
  <2>1. BetweenInv(x) BY <1>7 DEF AdmittedInv
  <2>2. \A u \in Int : Admitted'[x][now][u] = 0 BY <1>2, <1>3, <2>1 DEF BetweenInv
  <2>3. ASSUME NEW t \in Int, NEW u \in Int, now - Window < t PROVE Admitted'[x][t][u] <= Limit - 1
    <3>1. Admitted[x][t][u] <= Limit - 1 BY <2>1, <2>3 DEF BetweenInv
    <3> QED BY <1>2, <3>1, LimitsAssumption
  <2> QED BY <2>2, <2>3 DEF BetweenInv
<1> QED BY <1>4, <1>5, <1>6, <1>7 DEF AdmittedInv

\* Time passes; a window may end.
LEMMA TimePasses ==
    ASSUME HitsOK, HitsOK', CountersOK, NEW x \in Identity, AdmittedInv(x), now' = now + 1, Admitted' = Admitted,
           Open(x)' => Open(x) /\ Count(x)' = Count(x) /\ Start(x)' = Start(x),
           Open(x) /\ ~Open(x)' => Start(x) + Window = now'
    PROVE  AdmittedInv(x)'
<1>1. AdmittedFacts BY AdmittedAreNumbers
<1>2. \A a, b \in Int : Admitted[x][a][b] \in Nat BY <1>1 DEF AdmittedFacts
<1>3. now \in Int /\ now + 1 \in Int /\ (now + 1) + 1 \in Int BY DEF HitsOK
<1>4. (\A u \in Int : Admitted[x][now + 1][u] = 0)'
  <2>1. \A u \in Int : Admitted[x][now + 1][u] = 0 BY DEF AdmittedInv
  <2>2. \A u \in Int : Admitted[x][(now + 1) + 1][u] <= Admitted[x][now + 1][u] BY <1>1, <1>3 DEF AdmittedFacts
  <2> QED BY <1>2, <1>3, <2>1, <2>2
<1>5. (\A t \in Int : Admitted[x][t][t + Window - 1] <= 2 * Limit - 1)' BY DEF AdmittedInv
<1>6. ASSUME Open(x)' PROVE WindowInv(x, Start(x), Count(x))'
  <2>1. WindowInv(x, Start(x), Count(x)) BY <1>6 DEF AdmittedInv
  <2>2. Start(x)' = Start(x) /\ Count(x)' = Count(x) BY <1>6
  <2> QED BY <2>1, <2>2 DEF WindowInv
<1>7. ASSUME ~Open(x)' PROVE BetweenInv(x)'
  <2>1. \A u \in Int : Admitted[x][now + 1][u] = 0 BY DEF AdmittedInv
  <2>2. \A t, u \in Int : now + 1 - Window < t => Admitted[x][t][u] <= Limit - 1
    <3>1. CASE Open(x)
      <4>1. WindowInv(x, Start(x), Count(x)) /\ Start(x) \in Int BY <3>1, WindowTypes DEF AdmittedInv
      <4>2. Start(x) = now + 1 - Window BY <1>3, <1>7, <3>1, <4>1, LimitsAssumption
      <4>3. Start(x) + 1 \in Int BY <4>1
      <4>4. ASSUME NEW t \in Int, NEW u \in Int, now + 1 - Window < t PROVE Admitted[x][t][u] <= Limit - 1
        <5>1. PICK s \in Int : s = Start(x) + 1 /\ s <= t BY <4>1, <4>2, <4>3, <4>4, <1>3, LimitsAssumption
        <5>2. Admitted[x][t][u] <= Admitted[x][Start(x) + 1][u]
          <6>1. u <= u OBVIOUS
          <6>2. Admitted[x][t][u] <= Admitted[x][s][u] BY <1>1, <5>1, <6>1 DEF AdmittedFacts
          <6> QED BY <5>1, <6>2
        <5>3. Admitted[x][Start(x) + 1][u] <= Limit - 1 BY <4>1 DEF WindowInv
        <5> QED BY <1>2, <4>3, <5>2, <5>3, LimitsAssumption
      <4> QED BY <4>4
    <3>2. CASE ~Open(x)
      <4>1. BetweenInv(x) BY <3>2 DEF AdmittedInv
      <4> QED BY <1>3, <4>1, LimitsAssumption DEF BetweenInv
    <3> QED BY <3>1, <3>2
  <2>3. \A u \in Int : Admitted'[x][now'][u] = 0 BY <2>1
  <2>4. \A t, u \in Int : now' - Window < t => Admitted'[x][t][u] <= Limit - 1
    <3>1. now' - Window = now + 1 - Window BY <1>3, LimitsAssumption
    <3> QED BY <2>2, <3>1
  <2> QED BY <2>3, <2>4 DEF BetweenInv
<1> QED BY <1>4, <1>5, <1>6, <1>7 DEF AdmittedInv

\* A hit is counted, and admitted at most while its number is within the limit.
LEMMA HitCounted ==
    ASSUME HitsOK, HitsOK', CountersOK, NEW x \in Identity, AdmittedInv(x), now' = now,
           Open(x)', Open(x) => Count(x)' = Count(x) + 1 /\ Start(x)' = Start(x),
           ~Open(x) => Count(x)' = 1 /\ Start(x)' = now,
           \A a, b \in Int : \/ Admitted'[x][a][b] <= Admitted[x][a][b]
                             \/ /\ Admitted'[x][a][b] <= Admitted[x][a][b] + 1
                                /\ a <= now /\ now <= b /\ Count(x)' <= Limit
    PROVE  AdmittedInv(x)'
<1>1. AdmittedFacts /\ AdmittedFacts' BY AdmittedAreNumbers, PTL
<1>2. \A a, b \in Int : Admitted[x][a][b] \in Nat /\ Admitted'[x][a][b] \in Nat BY <1>1 DEF AdmittedFacts
<1>3. now \in Int BY DEF HitsOK
<1>4. PICK s \in Int, c \in Nat \ {0} : s = Start(x)' /\ c = Count(x)' /\ s <= now /\ now < s + Window
  BY <1>3, WindowTypes, LimitsAssumption
<1>5. Limit \in Nat /\ Limit >= 1 /\ Window \in Nat BY LimitsAssumption
<1>6. ASSUME NEW a \in Int, NEW b \in Int, now < a \/ b < now PROVE Admitted'[x][a][b] <= Admitted[x][a][b]
  BY <1>3, <1>6
<1>8. ASSUME NEW u \in Int
      PROVE  /\ Admitted'[x][s][u] <= c /\ Admitted'[x][s][u] <= Limit
             /\ Admitted'[x][s + 1][u] <= c - 1 /\ Admitted'[x][s + 1][u] <= Limit - 1
  <2>1. s + 1 \in Int OBVIOUS
  <2>2. /\ Admitted[x][s][u] \in Nat /\ Admitted'[x][s][u] \in Nat
        /\ Admitted[x][s + 1][u] \in Nat /\ Admitted'[x][s + 1][u] \in Nat
    BY <1>2, <2>1
  <2>3. \/ Admitted'[x][s][u] <= Admitted[x][s][u]
        \/ Admitted'[x][s][u] <= Admitted[x][s][u] + 1 /\ c <= Limit
    BY <1>4
  <2>4. \/ Admitted'[x][s + 1][u] <= Admitted[x][s + 1][u]
        \/ Admitted'[x][s + 1][u] <= Admitted[x][s + 1][u] + 1 /\ s + 1 <= now /\ c <= Limit
    BY <1>4, <2>1
  <2>5. CASE Open(x)
    <3>1. WindowInv(x, s, c - 1) BY <1>4, <2>5, WindowTypes DEF AdmittedInv
    <3>2. /\ Admitted[x][s][u] <= c - 1 /\ Admitted[x][s][u] <= Limit
          /\ Admitted[x][s + 1][u] <= (c - 1) - 1 /\ Admitted[x][s + 1][u] <= Limit - 1
      BY <3>1 DEF WindowInv
    <3> QED BY <1>5, <2>2, <2>3, <2>4, <3>2
  <2>6. CASE ~Open(x)
    <3>1. s = now /\ c = 1 /\ Admitted[x][s][u] = 0 BY <1>4, <2>6 DEF AdmittedInv, BetweenInv
    <3>2. Admitted[x][s + 1][u] = 0 BY <3>1 DEF AdmittedInv
    <3> QED BY <1>3, <1>5, <2>2, <2>3, <2>4, <3>1, <3>2
  <2> QED BY <2>5, <2>6
<1>9. ASSUME NEW t \in Int, s - Window < t PROVE Admitted'[x][t][s - 1] <= Limit - 1
  <2>1. s - 1 \in Int OBVIOUS
  <2>2. Admitted'[x][t][s - 1] <= Admitted[x][t][s - 1] BY <1>3, <1>4, <1>6, <2>1
  <2>3. Admitted[x][t][s - 1] <= Limit - 1
    <3>1. CASE Open(x)
      <4>1. WindowInv(x, s, Count(x)) BY <1>4, <3>1 DEF AdmittedInv
      <4> QED BY <1>9, <4>1 DEF WindowInv
    <3>2. CASE ~Open(x)
      <4>1. s = now /\ BetweenInv(x) BY <1>4, <3>2 DEF AdmittedInv
      <4> QED BY <1>9, <2>1, <4>1 DEF BetweenInv
    <3> QED BY <3>1, <3>2
  <2> QED BY <1>2, <1>5, <2>1, <2>2, <2>3
<1>10. WindowInv(x, Start(x), Count(x))' BY <1>4, <1>8, <1>9 DEF WindowInv
<1>11. \A u \in Int : Admitted'[x][now + 1][u] = 0
  <2>1. TAKE u \in Int
  <2>2. now + 1 \in Int /\ now < now + 1 BY <1>3
  <2>3. Admitted'[x][now + 1][u] <= Admitted[x][now + 1][u] BY <1>6, <2>2
  <2>4. Admitted[x][now + 1][u] = 0 BY DEF AdmittedInv
  <2> QED BY <1>2, <2>2, <2>3, <2>4
<1>12. ASSUME NEW t \in Int PROVE Admitted'[x][t][t + Window - 1] <= 2 * Limit - 1
  <2>1. PICK e \in Int : e = t + Window - 1 BY <1>5
  <2>2. Admitted[x][t][e] <= 2 * Limit - 1 BY <2>1 DEF AdmittedInv
  <2>3. CASE now < t \/ e < now
    <3>1. Admitted'[x][t][e] <= Admitted[x][t][e] BY <1>6, <2>3
    <3> QED BY <1>2, <1>5, <2>1, <2>2, <3>1
  <2>4. CASE t <= now /\ now <= e /\ t <= s
    <3>1. s - 1 \in Int /\ s - Window < t BY <1>3, <1>4, <1>5, <2>1, <2>4
    <3>2. Admitted'[x][t][e] <= Admitted'[x][t][s - 1] + Admitted'[x][s][e] BY <1>1 DEF AdmittedFacts
    <3>3. Admitted'[x][t][s - 1] <= Limit - 1 /\ Admitted'[x][s][e] <= Limit BY <1>8, <1>9, <3>1
    <3>4. Admitted'[x][t][e] \in Nat /\ Admitted'[x][t][s - 1] \in Nat /\ Admitted'[x][s][e] \in Nat BY <1>2, <3>1
    <3> QED BY <1>5, <2>1, <3>2, <3>3, <3>4
  <2>5. CASE s < t
    <3>1. s <= t /\ e <= e BY <2>5
    <3>2. Admitted'[x][t][e] <= Admitted'[x][s][e] BY <1>1, <3>1 DEF AdmittedFacts
    <3>3. Admitted'[x][s][e] <= Limit BY <1>8
    <3> QED BY <1>2, <1>5, <2>1, <3>2, <3>3
  <2> QED BY <1>3, <2>3, <2>4, <2>5
<1> QED BY <1>10, <1>11, <1>12 DEF AdmittedInv

\* The hits of an identity that were counted from time s on; all that were counted, wait, or are late.
Since(x, s) == {j \in DOMAIN counted[x] : s <= counted[x][j]}
CountedHits == {h \in Identity \X (1 .. MaxHit) : h[2] <= Len(counted[h[1]])}
Waiting == {i \in Instance : hit[i].answer = "sent"}

\* A counter counts hits of its window, and the hits under way are within the bound of the model.
CountInv == \A x \in Identity : Open(x) => Count(x) <= Cardinality(Since(x, Start(x)))
RoomInv ==
    /\ Cardinality(CountedHits) + Cardinality(Waiting) + Cardinality(late) <= MaxHit
    /\ \A x \in Identity : Len(counted[x]) <= MaxHit

MemoryInv ==
    /\ memory = [i \in Instance |-> memory[i]]
    /\ \A i \in Instance : IsFiniteSet(DOMAIN memory[i]) /\ Cardinality(DOMAIN memory[i]) <= MaxKeys

ProcessTypes ==
    /\ redisUp \in BOOLEAN /\ dbUp \in BOOLEAN
    /\ client \in [Instance -> {"connecting", "ready", "end"}]
    /\ life \in [Instance -> {"starting", "serving", "stopped"}]
    /\ report \in [Instance -> {"none", "UP", "DOWN"}]

CountsInv ==
    /\ HitsOK /\ CountersOK /\ CountInv /\ RoomInv
    /\ store = "redis" => \A x \in Identity : AdmittedInv(x)

LimitsInv == CountsInv /\ MemoryInv /\ ProcessTypes

\* The library's count, as the model names it.
LEMMA SharedCardinality == \A S : Shared!Cardinality(S) = Cardinality(S)
BY Zenon DEF Shared!Cardinality, Cardinality

\* The sets that are counted are finite.
LEMMA CountedFinite ==
    ASSUME HitsOK
    PROVE  /\ IsFiniteSet(CountedHits) /\ Cardinality(CountedHits) \in Nat
           /\ IsFiniteSet(Waiting) /\ Cardinality(Waiting) \in Nat
           /\ IsFiniteSet(late) /\ Cardinality(late) \in Nat
           /\ \A x \in Identity, s \in Int : IsFiniteSet(Since(x, s)) /\ Cardinality(Since(x, s)) \in Nat
                                             /\ Cardinality(Since(x, s)) <= Len(counted[x])
<1>1. IsFiniteSet(1 .. MaxHit) BY FS_Interval, LimitsAssumption
<1>2. IsFiniteSet(Identity \X (1 .. MaxHit)) BY <1>1, FS_Product, LimitsAssumption
<1>3. CountedHits \in SUBSET (Identity \X (1 .. MaxHit)) BY DEF CountedHits
<1>4. IsFiniteSet(CountedHits) BY <1>2, <1>3, FS_Subset
<1>5. Waiting \in SUBSET Instance BY DEF Waiting
<1>6. IsFiniteSet(Waiting) BY <1>5, FS_Subset, LimitsAssumption
<1>7. IsFiniteSet(Instance \X Identity) BY FS_Product, LimitsAssumption
<1>8. IsFiniteSet(late) BY <1>7, FS_Subset DEF HitsOK
<1>9. ASSUME NEW x \in Identity, NEW s \in Int
      PROVE  IsFiniteSet(Since(x, s)) /\ Cardinality(Since(x, s)) \in Nat /\ Cardinality(Since(x, s)) <= Len(counted[x])
  <2>1. PICK n \in Nat : n = Len(counted[x]) /\ DOMAIN counted[x] = 1 .. n BY DEF HitsOK
  <2>2. IsFiniteSet(1 .. n) /\ Cardinality(1 .. n) = n BY FS_Interval
  <2>3. Since(x, s) \in SUBSET (1 .. n) BY <2>1 DEF Since
  <2>4. IsFiniteSet(Since(x, s)) /\ Cardinality(Since(x, s)) <= n BY <2>2, <2>3, FS_Subset
  <2> QED BY <2>1, <2>4, FS_CardinalityType
<1> QED BY <1>4, <1>6, <1>8, <1>9, FS_CardinalityType

\* The invariant is what the property says.
LEMMA LimitsInvImplies ==
    ASSUME LimitsInv
    PROVE  Shared!TypeOK /\ Shared!SharedLimitHolds /\ Shared!RefusedForCause /\ Shared!MemoryBounded
<1> USE DEF LimitsInv, CountsInv
<1>1. ASSUME NEW x \in Identity, Open(x)
      PROVE  Count(x) \in Nat /\ Start(x) \in Int /\ Count(x) <= Cardinality(Since(x, Start(x)))
             /\ Cardinality(Since(x, Start(x))) \in Nat /\ Cardinality(Since(x, Start(x))) <= Len(counted[x])
  BY <1>1, WindowTypes, CountedFinite DEF CountInv
<1>2. ASSUME NEW k \in DOMAIN counters
      PROVE  \E x \in Identity : k = CounterKey(x) /\ Open(x) /\ counters[k].count = Count(x)
                                 /\ counters[k].exp = Start(x) + Window /\ now < counters[k].exp
  <2>1. PICK x \in Identity : k = CounterKey(x) BY DEF CountersOK
  <2>2. counters[k].exp \in Nat /\ now < counters[k].exp BY DEF CountersOK
  <2>3. Start(x) = counters[k].exp - Window /\ Open(x) /\ counters[k].count = Count(x) BY <2>1 DEF Start, Open, Count
  <2>4. counters[k].exp = Start(x) + Window BY <2>2, <2>3, LimitsAssumption
  <2> QED BY <2>1, <2>2, <2>3, <2>4
<1>3. ASSUME NEW k \in DOMAIN counters PROVE counters[k].count \in 1 .. MaxHit /\ counters[k].exp > now
  <2>1. PICK x \in Identity : k = CounterKey(x) /\ Open(x) /\ counters[k].count = Count(x) /\ now < counters[k].exp
    BY <1>2
  <2>2. Count(x) \in Nat \ {0} BY <2>1, WindowTypes
  <2>3. Len(counted[x]) \in Nat /\ Len(counted[x]) <= MaxHit BY DEF RoomInv, HitsOK
  <2>4. Count(x) <= MaxHit BY <1>1, <2>1, <2>2, <2>3, LimitsAssumption
  <2>5. counters[k].exp \in Nat /\ now \in Nat BY DEF CountersOK, HitsOK
  <2> QED BY <2>1, <2>2, <2>4, <2>5, LimitsAssumption
<1>4. \A i \in Instance : hit[i].answer \in {"none", "sent", "yes", "no"} BY DEF HitsOK, HitType, Shared!Nothing
<1>5. Shared!TypeOK BY <1>3, <1>4 DEF Shared!TypeOK, ProcessTypes, HitsOK
<1>6. Shared!SharedLimitHolds
  <2> SUFFICES ASSUME store = "redis", NEW x \in Identity, NEW t \in 0 .. MaxTime
               PROVE  Shared!Within(served[x], t, t + Window - 1) <= 2 * Limit - 1
    BY DEF Shared!SharedLimitHolds
  <2>1. PICK e \in Int : e = t + Window - 1 BY LimitsAssumption, BoundsAssumption
  <2>2. t \in Int BY BoundsAssumption
  <2>3. Admitted[x][t][e] <= 2 * Limit - 1 BY <2>1, <2>2 DEF AdmittedInv
  <2>4. /\ Admitted[x][t][e] = Cardinality(ServedIn(x, t, e)) + Cardinality(YesIn(x, t, e))
        /\ Cardinality(ServedIn(x, t, e)) \in Nat /\ Cardinality(YesIn(x, t, e)) \in Nat
    BY <2>2, SetsFinite
  <2>5. Shared!Within(served[x], t, e) = Cardinality(ServedIn(x, t, e)) BY SharedCardinality DEF Shared!Within, ServedIn
  <2> QED BY <2>1, <2>3, <2>4, <2>5, LimitsAssumption
<1>7. Shared!RefusedForCause
  <2> SUFFICES ASSUME NEW k \in DOMAIN counters, counters[k].count > Limit
               PROVE  Shared!Within(counted[k[2]], now - Window + 1, now) > Limit
    BY DEF Shared!RefusedForCause
  <2>1. PICK x \in Identity : k = CounterKey(x) /\ Open(x) /\ counters[k].count = Count(x) BY <1>2
  <2>2. k[2] = x BY <2>1 DEF CounterKey
  <2>3. PICK a \in Int : a = now - Window + 1 BY LimitsAssumption DEF HitsOK
  <2> DEFINE S == {j \in DOMAIN counted[x] : counted[x][j] \in a .. now}
  <2>4. a <= Start(x) BY <2>1, <2>3, WindowTypes, LimitsAssumption DEF HitsOK
  <2>5. Since(x, Start(x)) \in SUBSET S
    <3>1. ASSUME NEW j \in DOMAIN counted[x], Start(x) <= counted[x][j] PROVE counted[x][j] \in a .. now
      BY <1>1, <2>1, <2>4, <3>1 DEF HitsOK
    <3> QED BY <3>1 DEF Since
  <2>6. IsFiniteSet(S)
    <3>1. counted[x] \in Seq(Nat) BY DEF HitsOK
    <3>2. PICK n \in Nat : n = Len(counted[x]) /\ DOMAIN counted[x] = 1 .. n BY <3>1
    <3>3. IsFiniteSet(1 .. n) BY FS_Interval
    <3>4. S \in SUBSET (1 .. n) BY <3>2
    <3> QED BY <3>3, <3>4, FS_Subset
  <2>7. Cardinality(Since(x, Start(x))) <= Cardinality(S) /\ Cardinality(S) \in Nat
    BY <2>5, <2>6, FS_Subset, FS_CardinalityType
  <2>8. Shared!Within(counted[k[2]], now - Window + 1, now) = Cardinality(S)
    BY <2>2, <2>3, SharedCardinality DEF Shared!Within
  <2> HIDE DEF S
  <2> QED BY <1>1, <2>1, <2>7, <2>8, LimitsAssumption
<1>8. Shared!MemoryBounded BY SharedCardinality DEF Shared!MemoryBounded, MemoryInv
<1> QED BY <1>5, <1>6, <1>7, <1>8

\* A hit is added to those that were counted.
LEMMA HitAdded ==
    ASSUME HitsOK, NEW x \in Identity, counted' = [counted EXCEPT ![x] = Append(counted[x], now)], now' = now
    PROVE  /\ counted' \in [Identity -> Seq(Nat)]
           /\ \A y \in Identity : \A k \in DOMAIN counted'[y] : counted'[y][k] <= now'
           /\ \A y \in Identity, s \in Int : y # x => Since(y, s)' = Since(y, s)
           /\ \A s \in Int : Since(x, s) \subseteq Since(x, s)'
           /\ \A s \in Int : s <= now => /\ Since(x, s)' = Since(x, s) \cup {Len(counted[x]) + 1}
                                         /\ Len(counted[x]) + 1 \notin Since(x, s)
           /\ CountedHits' \subseteq CountedHits \cup {<<x, Len(counted[x]) + 1>>}
           /\ Len(counted'[x]) = Len(counted[x]) + 1
           /\ \A y \in Identity : y # x => counted'[y] = counted[y]
<1> DEFINE q == counted[x]
           n == Len(q)
<1>0. q \in Seq(Nat) /\ n \in Nat /\ now \in Nat /\ DOMAIN q = 1 .. n BY BoundsAssumption DEF HitsOK
<1>1. counted'[x] = Append(q, now) /\ \A y \in Identity : y # x => counted'[y] = counted[y] BY DEF HitsOK
<1>2. /\ Append(q, now) \in Seq(Nat) /\ Len(Append(q, now)) = n + 1 /\ DOMAIN Append(q, now) = 1 .. n + 1
      /\ Append(q, now)[n + 1] = now /\ \A j \in 1 .. n : Append(q, now)[j] = q[j]
  BY <1>0
<1>3. counted' \in [Identity -> Seq(Nat)] BY <1>1, <1>2 DEF HitsOK
<1>4. ASSUME NEW y \in Identity, NEW k \in DOMAIN counted'[y] PROVE counted'[y][k] <= now'
  <2>1. CASE y = x BY <1>0, <1>1, <1>2, <1>4, <2>1 DEF HitsOK
  <2>2. CASE y # x BY <1>1, <1>4, <2>2 DEF HitsOK
  <2> QED BY <2>1, <2>2
<1>5. \A y \in Identity, s \in Int : y # x => Since(y, s)' = Since(y, s) BY <1>1 DEF Since
<1>6. \A s : Since(x, s)' = {j \in 1 .. n + 1 : s <= Append(q, now)[j]} BY <1>1, <1>2 DEF Since
<1>7. \A s : Since(x, s) = {j \in 1 .. n : s <= q[j]} BY <1>0 DEF Since
<1>8. \A s \in Int : Since(x, s) \subseteq Since(x, s)' BY <1>0, <1>2, <1>6, <1>7
<1>9. ASSUME NEW s \in Int, s <= now
      PROVE  Since(x, s)' = Since(x, s) \cup {n + 1} /\ n + 1 \notin Since(x, s)
  BY <1>0, <1>2, <1>6, <1>7, <1>9
<1>10. CountedHits' \subseteq CountedHits \cup {<<x, n + 1>>}
  <2>1. ASSUME NEW h \in CountedHits', h \notin CountedHits PROVE h = <<x, n + 1>>
    <3>1. PICK y \in Identity, k \in 1 .. MaxHit : h = <<y, k>> /\ k <= Len(counted'[y]) BY <2>1 DEF CountedHits
    <3>2. ~(k <= Len(counted[y])) BY <2>1, <3>1 DEF CountedHits
    <3>3. y = x BY <1>1, <3>1, <3>2
    <3>4. k <= n + 1 /\ ~(k <= n) /\ k \in Int BY <1>1, <1>2, <3>1, <3>2, <3>3, LimitsAssumption
    <3>5. k = n + 1 BY <1>0, <3>4
    <3> QED BY <3>1, <3>3, <3>5
  <2> QED BY <2>1
<1> QED BY <1>1, <1>2, <1>3, <1>4, <1>5, <1>8, <1>9, <1>10

\* It needs room for one.
LEMMA HitHasRoom ==
    ASSUME HitsOK, HitsOK', RoomInv, Cardinality(CountedHits) < MaxHit, NEW x \in Identity,
           counted' = [counted EXCEPT ![x] = Append(counted[x], now)], now' = now
    PROVE  /\ Cardinality(CountedHits)' <= Cardinality(CountedHits) + 1
           /\ \A y \in Identity : Len(counted'[y]) <= MaxHit
<1>1. IsFiniteSet(CountedHits) /\ Cardinality(CountedHits) \in Nat BY CountedFinite
<1>2. CountedHits' \in SUBSET (CountedHits \cup {<<x, Len(counted[x]) + 1>>}) BY HitAdded
<1>3. /\ IsFiniteSet(CountedHits \cup {<<x, Len(counted[x]) + 1>>})
      /\ Cardinality(CountedHits \cup {<<x, Len(counted[x]) + 1>>}) <= Cardinality(CountedHits) + 1
  <2>1. PICK p : p = <<x, Len(counted[x]) + 1>> OBVIOUS
  <2>2. /\ IsFiniteSet(CountedHits \cup {p})
        /\ Cardinality(CountedHits \cup {p}) = IF p \in CountedHits THEN Cardinality(CountedHits)
                                                                    ELSE Cardinality(CountedHits) + 1
    BY <1>1, FS_AddElement
  <2>3. Cardinality(CountedHits \cup {p}) <= Cardinality(CountedHits) + 1 BY <1>1, <2>2
  <2> QED BY <2>1, <2>2, <2>3
<1>4. /\ Cardinality(CountedHits') <= Cardinality(CountedHits \cup {<<x, Len(counted[x]) + 1>>})
      /\ IsFiniteSet(CountedHits')
  BY <1>2, <1>3, FS_Subset
<1>5. Cardinality(CountedHits') \in Nat /\ Cardinality(CountedHits \cup {<<x, Len(counted[x]) + 1>>}) \in Nat
  BY <1>3, <1>4, FS_CardinalityType
<1>6. Cardinality(CountedHits') <= Cardinality(CountedHits) + 1 BY <1>1, <1>3, <1>4, <1>5
<1>7. Len(counted[x]) \in Nat /\ Len(counted[x]) <= MaxHit BY DEF HitsOK, RoomInv
<1>8. ASSUME Len(counted[x]) = MaxHit PROVE FALSE
  <2>1. \A h \in {x} \X (1 .. MaxHit) : h \in CountedHits BY <1>8, LimitsAssumption DEF CountedHits
  <2>2. ({x} \X (1 .. MaxHit)) \in SUBSET CountedHits BY <2>1
  <2>3. IsFiniteSet({x}) /\ Cardinality({x}) = 1 BY FS_Singleton
  <2>4. IsFiniteSet(1 .. MaxHit) /\ Cardinality(1 .. MaxHit) = MaxHit BY FS_Interval, LimitsAssumption
  <2>5. Cardinality({x} \X (1 .. MaxHit)) = Cardinality({x}) * Cardinality(1 .. MaxHit) BY <2>3, <2>4, FS_Product
  <2>6. Cardinality({x} \X (1 .. MaxHit)) = MaxHit BY <2>3, <2>4, <2>5, LimitsAssumption
  <2>7. MaxHit <= Cardinality(CountedHits) BY <1>1, <2>2, <2>6, FS_Subset
  <2> QED BY <1>1, <2>7, LimitsAssumption
<1>9. Len(counted'[x]) <= MaxHit BY <1>7, <1>8, HitAdded, LimitsAssumption
<1>10. \A y \in Identity : y # x => Len(counted'[y]) <= MaxHit BY HitAdded DEF RoomInv
<1> QED BY <1>6, <1>9, <1>10

\* HIT_SCRIPT counts the hit, in a window that is open or starts now.
LEMMA ScriptRuns ==
    ASSUME HitsOK, HitsOK', CountersOK, CountInv, NEW i, NEW x \in Identity, Shared!RunScript(i, x), now' = now
    PROVE  /\ CountersOK' /\ CountInv' /\ Open(x)' /\ Count(x)' = Shared!CountAfter(CounterKey(x))
           /\ Open(x) => Count(x)' = Count(x) + 1 /\ Start(x)' = Start(x)
           /\ ~Open(x) => Count(x)' = 1 /\ Start(x)' = now
           /\ \A y \in Identity : y # x => /\ Open(y)' <=> Open(y)
                                           /\ Open(y) => Count(y)' = Count(y) /\ Start(y)' = Start(y)
<1> DEFINE c == Shared!CountAfter(CounterKey(x))
           e == Shared!ExpiryAfter(CounterKey(x))
           v == [count |-> c, exp |-> e]
<1>1. /\ counters' = [k \in DOMAIN counters \cup {CounterKey(x)} |-> IF k = CounterKey(x) THEN v ELSE counters[k]]
      /\ counted' = [counted EXCEPT ![x] = Append(counted[x], now)]
  BY DEF Shared!RunScript, Shared!Put, Shared!rateLimitKey, CounterKey
<1>2. Open(x) => c = Count(x) + 1 /\ e = counters[CounterKey(x)].exp
                /\ e \in Nat /\ now < e /\ e <= now + Window /\ c \in Nat \ {0}
  BY DEF Shared!CountAfter, Shared!ExpiryAfter, Open, Count, CountersOK
<1>3. now \in Nat /\ Window \in Nat /\ Window > 0 BY LimitsAssumption, BoundsAssumption DEF HitsOK
<1>4. ~Open(x) => c = 1 /\ e = now + Window BY DEF Shared!CountAfter, Shared!ExpiryAfter, Open
<1>5. c \in Nat \ {0} /\ e \in Nat /\ now < e /\ e <= now + Window BY <1>2, <1>3, <1>4
<1> HIDE DEF c, e
<1>6. v \in [count : Nat \ {0}, exp : Nat] /\ v.exp = e /\ v.count = c BY <1>5
<1> HIDE DEF v
<1>7. DOMAIN counters' = DOMAIN counters \cup {CounterKey(x)} /\ counters'[CounterKey(x)] = v
      /\ \A k \in DOMAIN counters : k # CounterKey(x) => counters'[k] = counters[k]
  BY <1>1
<1>8. CountersOK'
  <2>1. counters' = [k \in DOMAIN counters' |-> counters'[k]] BY <1>1
  <2>2. DOMAIN counters' \subseteq {CounterKey(y) : y \in Identity} BY <1>7 DEF CountersOK
  <2>3. ASSUME NEW k \in DOMAIN counters'
        PROVE  /\ counters'[k] \in [count : Nat \ {0}, exp : Nat]
               /\ now' < counters'[k].exp /\ counters'[k].exp <= now' + Window
    <3>1. CASE k = CounterKey(x) BY <1>5, <1>6, <1>7, <3>1
    <3>2. CASE k # CounterKey(x) BY <1>7, <3>2 DEF CountersOK
    <3> QED BY <3>1, <3>2
  <2> QED BY <2>1, <2>2, <2>3 DEF CountersOK, CounterKey
<1>9. Open(x)' /\ Count(x)' = c /\ Start(x)' = e - Window BY <1>6, <1>7 DEF Open, Count, Start, CounterKey
<1>10. Open(x) => Count(x)' = Count(x) + 1 /\ Start(x)' = Start(x) BY <1>2, <1>9 DEF Start
<1>11. ~Open(x) => Count(x)' = 1 /\ Start(x)' = now BY <1>3, <1>4, <1>9
<1>12. ASSUME NEW y \in Identity, y # x
       PROVE  (Open(y)' <=> Open(y)) /\ (Open(y) => Count(y)' = Count(y) /\ Start(y)' = Start(y))
  <2>1. CounterKey(y) # CounterKey(x) BY <1>12 DEF CounterKey
  <2>2. CounterKey(y) \in DOMAIN counters' <=> CounterKey(y) \in DOMAIN counters BY <1>7, <2>1
  <2>3. CounterKey(y) \in DOMAIN counters => counters'[CounterKey(y)] = counters[CounterKey(y)] BY <1>7, <2>1
  <2> QED BY <2>2, <2>3 DEF Open, Count, Start, CounterKey
<1>13. CountInv'
  <2>1. ASSUME NEW y \in Identity, y # x, Open(y)' PROVE (Count(y) <= Cardinality(Since(y, Start(y))))'
    <3>1. Open(y) /\ Count(y)' = Count(y) /\ Start(y)' = Start(y) BY <1>12, <2>1
    <3>2. Start(y) \in Int BY <3>1, WindowTypes
    <3>3. Since(y, Start(y))' = Since(y, Start(y)) BY <1>1, <2>1, <3>1, HitAdded DEF Since
    <3>4. Count(y) <= Cardinality(Since(y, Start(y))) BY <3>1 DEF CountInv
    <3> QED BY <3>1, <3>3, <3>4
  <2>2. (Count(x) <= Cardinality(Since(x, Start(x))))'
    <3>1. PICK s \in Int : s = Start(x)' /\ s <= now BY <1>3, <1>5, <1>9
    <3>2. Since(x, s)' = Since(x, s) \cup {Len(counted[x]) + 1} /\ Len(counted[x]) + 1 \notin Since(x, s)
      BY <1>1, <3>1, HitAdded
    <3>3. IsFiniteSet(Since(x, s)) /\ Cardinality(Since(x, s)) \in Nat BY CountedFinite
    <3>4. Cardinality(Since(x, s)') = Cardinality(Since(x, s)) + 1 BY <3>2, <3>3, FS_AddElement
    <3>5. c <= Cardinality(Since(x, s)) + 1
      <4>1. CASE Open(x)
        <5>1. c = Count(x) + 1 /\ s = Start(x) BY <1>2, <1>10, <3>1, <4>1
        <5>2. Count(x) \in Nat BY <4>1, WindowTypes
        <5>3. Count(x) <= Cardinality(Since(x, s)) BY <4>1, <5>1 DEF CountInv
        <5> QED BY <3>3, <5>1, <5>2, <5>3
      <4>2. CASE ~Open(x) BY <1>4, <3>3, <4>2
      <4> QED BY <4>1, <4>2
    <3>6. Since(x, Start(x))' = Since(x, s)' BY <3>1 DEF Since
    <3> QED BY <1>9, <3>4, <3>5, <3>6
  <2> QED BY <2>1, <2>2 DEF CountInv
<1> QED BY <1>8, <1>9, <1>10, <1>11, <1>12, <1>13 DEF c

\* What is admitted, as a sum, before and after a step.
AdmittedSums ==
    \A x \in Identity, a, b \in Int :
        /\ IsFiniteSet(ServedIn(x, a, b)) /\ Cardinality(ServedIn(x, a, b)) \in Nat
        /\ IsFiniteSet(YesIn(x, a, b)) /\ Cardinality(YesIn(x, a, b)) \in Nat
        /\ Admitted[x][a][b] = Cardinality(ServedIn(x, a, b)) + Cardinality(YesIn(x, a, b))

LEMMA AdmittedAreSums == HitsOK => AdmittedSums
BY SetsFinite DEF AdmittedSums

\* The counts before any hit.
LEMMA CountsInit == ASSUME Shared!Init PROVE CountsInv
<1>1. HitsOK
  <2>1. hit \in [Instance -> HitType] BY DEF Shared!Init, HitType
  <2>2. counted \in [Identity -> Seq(Nat)] /\ served \in [Identity -> Seq(Nat)]
        /\ \A x \in Identity : counted[x] = <<>> /\ served[x] = <<>>
    BY DEF Shared!Init
  <2>3. now \in 0 .. MaxTime BY BoundsAssumption DEF Shared!Init
  <2>4. \A x \in Identity : DOMAIN counted[x] = {} BY <2>2
  <2> QED BY <2>1, <2>2, <2>3, <2>4 DEF Shared!Init, HitsOK
<1>2. DOMAIN counters = {} /\ counters = [k \in DOMAIN counters |-> counters[k]] BY DEF Shared!Init
<1>3. CountersOK /\ \A x \in Identity : ~Open(x) BY <1>2 DEF CountersOK, Open
<1>4. RoomInv
  <2>1. \A x \in Identity : Len(counted[x]) = 0 BY DEF Shared!Init
  <2>2. CountedHits = {} BY <2>1, LimitsAssumption DEF CountedHits
  <2>3. Waiting = {} BY DEF Waiting, Shared!Init, Shared!Nothing
  <2>4. late = {} BY DEF Shared!Init
  <2> QED BY <2>1, <2>2, <2>3, <2>4, FS_EmptySet, LimitsAssumption DEF RoomInv
<1>5. ASSUME NEW x \in Identity PROVE AdmittedInv(x)
  <2>1. \A a, b \in Int : ServedIn(x, a, b) = {} BY DEF ServedIn, Shared!Init
  <2>2. \A a, b \in Int : YesIn(x, a, b) = {} BY DEF YesIn, Shared!Init, Shared!Nothing
  <2>3. ASSUME NEW a \in Int, NEW b \in Int PROVE Admitted[x][a][b] = 0
    <3>1. Admitted[x][a][b] = Cardinality(ServedIn(x, a, b)) + Cardinality(YesIn(x, a, b))
      BY <1>1, AdmittedAreSums DEF AdmittedSums
    <3>2. Cardinality(ServedIn(x, a, b)) = 0 /\ Cardinality(YesIn(x, a, b)) = 0 BY <2>1, <2>2, FS_EmptySet
    <3> QED BY <3>1, <3>2
  <2>4. now \in Int /\ now + 1 \in Int BY <1>1 DEF HitsOK
  <2>5. \A t \in Int : t + Window - 1 \in Int BY LimitsAssumption
  <2>6. BetweenInv(x) BY <2>3, <2>4, LimitsAssumption DEF BetweenInv
  <2> QED BY <1>3, <2>3, <2>4, <2>5, <2>6, LimitsAssumption DEF AdmittedInv
<1> QED BY <1>1, <1>3, <1>4, <1>5 DEF CountsInv, CountInv

\* Steps that are not about hits.
LEMMA CountsStay ==
    ASSUME CountsInv, UNCHANGED <<store, now, counters, hit, late, counted, served>> PROVE CountsInv'
<1>1. HitsOK' BY DEF CountsInv, HitsOK
<1>2. CountersOK' BY DEF CountsInv, CountersOK, CounterKey
<1>3. CountInv' BY DEF CountsInv, CountInv, Since, Open, Count, Start, CounterKey
<1>4. RoomInv' BY DEF CountsInv, RoomInv, CountedHits, Waiting
<1>5. Admitted' = Admitted BY DEF Admitted, ServedIn, YesIn
<1>6. store' = "redis" => \A x \in Identity : AdmittedInv(x)'
  BY <1>5 DEF CountsInv, AdmittedInv, WindowInv, BetweenInv, Open, Count, Start, CounterKey
<1> QED BY <1>1, <1>2, <1>3, <1>4, <1>6 DEF CountsInv

\* Redis drops the windows that have ended.
LEMMA CountsTick == ASSUME CountsInv, Shared!Tick PROVE CountsInv'
<1> USE DEF CountsInv
<1>1. /\ now' = now + 1 /\ now < MaxTime /\ UNCHANGED <<store, hit, late, counted, served>>
      /\ counters' = [k \in {k \in DOMAIN counters : counters[k].exp > now'} |-> counters[k]]
  BY DEF Shared!Tick, Shared!Restricted
<1>2. now \in Int /\ now' \in 0 .. MaxTime BY <1>1, BoundsAssumption DEF HitsOK
<1>3. HitsOK'
  <2>1. ASSUME NEW x \in Identity, NEW k \in DOMAIN counted'[x] PROVE counted'[x][k] <= now'
    <3>1. counted[x][k] <= now /\ counted[x][k] \in Nat BY <1>1, <2>1 DEF HitsOK
    <3> QED BY <1>1, <1>2, <3>1
  <2> QED BY <1>1, <1>2, <2>1 DEF HitsOK
<1>4. DOMAIN counters' = {k \in DOMAIN counters : counters[k].exp > now'}
      /\ \A k \in DOMAIN counters' : k \in DOMAIN counters /\ counters'[k] = counters[k] /\ counters[k].exp > now'
  BY <1>1
<1>5. CountersOK'
  <2>1. ASSUME NEW k \in DOMAIN counters'
        PROVE  /\ counters'[k] \in [count : Nat \ {0}, exp : Nat]
               /\ now' < counters'[k].exp /\ counters'[k].exp <= now' + Window
    <3>1. counters[k] \in [count : Nat \ {0}, exp : Nat] /\ counters[k].exp \in Nat
          /\ counters[k].exp <= now + Window /\ counters[k].exp > now' /\ counters'[k] = counters[k]
      BY <1>4, <2>1 DEF CountersOK
    <3> QED BY <1>1, <1>2, <3>1, LimitsAssumption
  <2>2. counters' = [k \in DOMAIN counters' |-> counters'[k]] BY <1>1
  <2>3. DOMAIN counters' \subseteq {CounterKey(x) : x \in Identity} BY <1>4 DEF CountersOK
  <2> QED BY <2>1, <2>2, <2>3 DEF CountersOK, CounterKey
<1>6. \A x \in Identity : Open(x)' => Open(x) /\ Count(x)' = Count(x) /\ Start(x)' = Start(x)
  BY <1>4 DEF Open, Count, Start, CounterKey
<1>7. ASSUME NEW x \in Identity, Open(x), ~Open(x)' PROVE Start(x) + Window = now'
  <2>1. Start(x) \in Int /\ now < Start(x) + Window BY <1>7, WindowTypes
  <2>2. counters[CounterKey(x)].exp = Start(x) + Window
    <3>1. counters[CounterKey(x)].exp \in Nat BY <1>7 DEF CountersOK, Open
    <3> QED BY <3>1, LimitsAssumption DEF Start
  <2>3. ~(counters[CounterKey(x)].exp > now') BY <1>4, <1>7 DEF Open, CounterKey
  <2> QED BY <1>1, <1>2, <2>1, <2>2, <2>3, LimitsAssumption
<1>8. CountInv'
  <2>1. ASSUME NEW x \in Identity, Open(x)' PROVE (Count(x) <= Cardinality(Since(x, Start(x))))'
    <3>1. Open(x) /\ Count(x)' = Count(x) /\ Start(x)' = Start(x) BY <1>6, <2>1
    <3>2. Since(x, Start(x))' = Since(x, Start(x)) BY <1>1, <3>1 DEF Since
    <3> QED BY <3>1, <3>2 DEF CountInv
  <2> QED BY <2>1 DEF CountInv
<1>9. RoomInv' BY <1>1 DEF RoomInv, CountedHits, Waiting
<1>10. Admitted' = Admitted BY <1>1 DEF Admitted, ServedIn, YesIn
<1>11. ASSUME store = "redis", NEW x \in Identity PROVE AdmittedInv(x)'
  BY <1>1, <1>3, <1>6, <1>7, <1>10, <1>11, TimePasses
<1> QED BY <1>1, <1>3, <1>5, <1>8, <1>9, <1>11

\* A hit is on its way; nothing is counted yet.
LEMMA CountsSent == ASSUME CountsInv, NEW i \in Instance, NEW x \in Identity, Shared!HitSent(i, x) PROVE CountsInv'
<1> USE DEF CountsInv
<1> DEFINE v == [id |-> x, answer |-> "sent", at |-> now]
<1>1. /\ UNCHANGED <<store, counters, late, counted, served, now>> /\ hit[i] = Shared!Nothing /\ Shared!Room
      /\ hit' = [hit EXCEPT ![i] = v]
  BY DEF Shared!HitSent
<1>2. v \in HitType /\ v.answer = "sent" BY BoundsAssumption DEF HitsOK, HitType
<1> HIDE DEF v
<1>3. HitsOK' BY <1>1, <1>2 DEF HitsOK
<1>4. hit'[i] = v /\ \A j \in Instance : j # i => hit'[j] = hit[j] BY <1>1 DEF HitsOK
<1>5. hit[i].answer = "none" BY <1>1 DEF Shared!Nothing
<1>6. Admitted' = Admitted
  <2>1. \A y \in Identity, a, b \in Int : ServedIn(y, a, b)' = ServedIn(y, a, b) BY <1>1 DEF ServedIn
  <2>2. \A y \in Identity, a, b \in Int : YesIn(y, a, b)' = YesIn(y, a, b) BY <1>2, <1>4, <1>5 DEF YesIn
  <2> QED BY <2>1, <2>2 DEF Admitted
<1>7. CountersOK' /\ CountInv' BY <1>1 DEF CountersOK, CountInv, Open, Count, Start, CounterKey, Since
<1>8. RoomInv'
  <2>1. Waiting' = Waiting \cup {i} /\ i \notin Waiting BY <1>2, <1>4, <1>5 DEF Waiting
  <2>2. Cardinality(Waiting') = Cardinality(Waiting) + 1 BY <2>1, CountedFinite, FS_AddElement
  <2>3. Cardinality(CountedHits) + Cardinality(Waiting) + Cardinality(late) < MaxHit
    BY <1>1, SharedCardinality DEF Shared!Room, CountedHits, Waiting
  <2>4. CountedHits' = CountedHits /\ late' = late BY <1>1 DEF CountedHits
  <2>5. Cardinality(CountedHits) \in Nat /\ Cardinality(Waiting) \in Nat /\ Cardinality(late) \in Nat BY CountedFinite
  <2>6. Cardinality(CountedHits') + Cardinality(Waiting') + Cardinality(late') <= MaxHit
    BY <2>2, <2>3, <2>4, <2>5, LimitsAssumption
  <2> QED BY <1>1, <2>6 DEF RoomInv
<1>9. ASSUME store = "redis", NEW y \in Identity PROVE AdmittedInv(y)'
  BY <1>1, <1>6, <1>9 DEF AdmittedInv, WindowInv, BetweenInv, Open, Count, Start, CounterKey
<1> QED BY <1>1, <1>3, <1>7, <1>8, <1>9

\* Redis runs the script for a hit whose caller waits.
LEMMA CountsRun == ASSUME CountsInv, NEW i \in Instance, Shared!HitRuns(i) PROVE CountsInv'
<1> USE DEF CountsInv
<1>1. hit[i].answer = "sent" /\ hit[i] \in [id : Identity, answer : {"sent", "yes", "no"}, at : Nat]
  BY DEF Shared!HitRuns, HitsOK, HitType, Shared!Nothing
<1>2. PICK x \in Identity : x = hit[i].id BY <1>1
<1>3. PICK w \in {"yes", "no"} : /\ w = "yes" => Shared!CountAfter(CounterKey(x)) <= Limit
                                 /\ hit' = [hit EXCEPT ![i].at = now, ![i].answer = w]
  BY <1>2 DEF Shared!HitRuns, Shared!rateLimitKey, CounterKey
<1> DEFINE v == [id |-> x, answer |-> w, at |-> now]
<1>4. hit' = [hit EXCEPT ![i] = v]
  <2>1. hit'[i] = [[hit[i] EXCEPT !.at = now] EXCEPT !.answer = w] BY <1>3 DEF HitsOK
  <2>2. PICK t \in Nat : hit[i] = [id |-> x, answer |-> "sent", at |-> t] BY <1>1, <1>2
  <2>3. [hit[i] EXCEPT !.at = now] = [id |-> x, answer |-> "sent", at |-> now] BY <2>2
  <2>4. hit'[i] = v BY <2>1, <2>3
  <2>5. hit' = [j \in Instance |-> hit'[j]] /\ \A j \in Instance : j # i => hit'[j] = hit[j] BY <1>3 DEF HitsOK
  <2> QED BY <2>4, <2>5 DEF HitsOK
<1>5. v \in HitType /\ v.answer = w /\ v.id = x /\ v.at = now BY BoundsAssumption DEF HitsOK, HitType
<1> HIDE DEF v
<1>6. UNCHANGED <<store, late, served, now>> /\ Shared!RunScript(i, x) BY <1>2 DEF Shared!HitRuns
<1>7. counted' = [counted EXCEPT ![x] = Append(counted[x], now)] BY <1>6 DEF Shared!RunScript
<1>8. HitsOK' BY <1>4, <1>5, <1>6, <1>7, HitAdded DEF HitsOK
<1>9. hit'[i] = v /\ \A j \in Instance : j # i => hit'[j] = hit[j] BY <1>4 DEF HitsOK
<1>10. /\ CountersOK' /\ CountInv' /\ Open(x)' /\ Count(x)' = Shared!CountAfter(CounterKey(x))
       /\ Open(x) => Count(x)' = Count(x) + 1 /\ Start(x)' = Start(x)
       /\ ~Open(x) => Count(x)' = 1 /\ Start(x)' = now
       /\ \A y \in Identity : y # x => /\ Open(y)' <=> Open(y)
                                       /\ Open(y) => Count(y)' = Count(y) /\ Start(y)' = Start(y)
  BY <1>6, <1>8, ScriptRuns
<1>11. RoomInv'
  <2>1. Waiting' = Waiting \ {i} /\ i \in Waiting BY <1>1, <1>5, <1>9 DEF Waiting
  <2>2. Cardinality(CountedHits) \in Nat /\ Cardinality(Waiting) \in Nat /\ Cardinality(late) \in Nat BY CountedFinite
  <2>3. Cardinality(Waiting') = Cardinality(Waiting) - 1 BY <2>1, CountedFinite, FS_RemoveElement
  <2>4. Cardinality(Waiting') \in Nat BY <2>1, CountedFinite, FS_RemoveElement, FS_CardinalityType
  <2>5. Cardinality(CountedHits) < MaxHit BY <2>2, <2>3, <2>4, LimitsAssumption DEF RoomInv
  <2>6. Cardinality(CountedHits') <= Cardinality(CountedHits) + 1 /\ \A y \in Identity : Len(counted'[y]) <= MaxHit
    BY <1>6, <1>7, <1>8, <2>5, HitHasRoom
  <2>7. Cardinality(CountedHits') \in Nat
    <3>1. (HitsOK => IsFiniteSet(CountedHits) /\ Cardinality(CountedHits) \in Nat)' BY CountedFinite, PTL
    <3> QED BY <1>8, <3>1
  <2>8. Cardinality(CountedHits) + Cardinality(Waiting) + Cardinality(late) <= MaxHit BY DEF RoomInv
  <2>9. Cardinality(CountedHits') + Cardinality(Waiting') + Cardinality(late') <= MaxHit
    BY <1>6, <2>2, <2>3, <2>4, <2>6, <2>7, <2>8, LimitsAssumption
  <2> QED BY <2>6, <2>9 DEF RoomInv
<1>12. AdmittedSums /\ AdmittedSums' BY <1>8, AdmittedAreSums, PTL
<1>13. \A y \in Identity, a, b \in Int : ServedIn(y, a, b)' = ServedIn(y, a, b) BY <1>6 DEF ServedIn
<1>14. ASSUME store = "redis", NEW y \in Identity PROVE AdmittedInv(y)'
  <2>1. CASE y # x
    <3>1. \A a, b \in Int : YesIn(y, a, b)' = YesIn(y, a, b) BY <1>1, <1>5, <1>9, <2>1 DEF YesIn
    <3>2. ASSUME NEW a \in Int, NEW b \in Int PROVE Admitted'[y][a][b] <= Admitted[y][a][b]
      <4>1. ServedIn(y, a, b)' = ServedIn(y, a, b) /\ YesIn(y, a, b)' = YesIn(y, a, b) BY <1>13, <3>1
      <4>2. Admitted'[y][a][b] = Cardinality(ServedIn(y, a, b)') + Cardinality(YesIn(y, a, b)')
        BY <1>12 DEF AdmittedSums
      <4>3. Admitted[y][a][b] = Cardinality(ServedIn(y, a, b)) + Cardinality(YesIn(y, a, b)) BY <1>12 DEF AdmittedSums
      <4>4. Admitted'[y][a][b] = Admitted[y][a][b] BY <4>1, <4>2, <4>3
      <4>5. Admitted[y][a][b] \in Nat BY SetsFinite
      <4> QED BY <4>4, <4>5
    <3> QED BY <1>6, <1>8, <1>10, <1>14, <2>1, <3>2, NoneAdmitted
  <2>2. CASE y = x
    <3>1. ASSUME NEW a \in Int, NEW b \in Int
          PROVE  \/ Admitted'[x][a][b] <= Admitted[x][a][b]
                 \/ /\ Admitted'[x][a][b] <= Admitted[x][a][b] + 1
                    /\ a <= now /\ now <= b /\ Count(x)' <= Limit
      <4>1. now \in Int BY DEF HitsOK
      <4>2. i \notin YesIn(x, a, b) BY <1>1 DEF YesIn
      <4>3. CASE w = "yes" /\ now \in a .. b
        <5>1. YesIn(x, a, b)' = YesIn(x, a, b) \cup {i} BY <1>5, <1>9, <4>3 DEF YesIn
        <5>2. IsFiniteSet(YesIn(x, a, b)) BY <1>12 DEF AdmittedSums
        <5>3. Cardinality(YesIn(x, a, b)') = Cardinality(YesIn(x, a, b)) + 1 BY <4>2, <5>1, <5>2, FS_AddElement
        <5>4. Admitted'[x][a][b] <= Admitted[x][a][b] + 1 BY <1>12, <1>13, <5>3 DEF AdmittedSums
        <5>5. Count(x)' <= Limit BY <1>3, <1>10, <4>3
        <5> QED BY <4>1, <4>3, <5>4, <5>5
      <4>4. CASE ~(w = "yes" /\ now \in a .. b)
        <5>1. YesIn(x, a, b)' = YesIn(x, a, b) BY <1>5, <1>9, <4>2, <4>4 DEF YesIn
        <5>2. Admitted'[x][a][b] <= Admitted[x][a][b] BY <1>12, <1>13, <5>1 DEF AdmittedSums
        <5> QED BY <5>2
      <4> QED BY <4>3, <4>4
    <3>2. AdmittedInv(x) BY <1>14
    <3>3. AdmittedInv(x)' BY <1>6, <1>8, <1>10, <3>1, <3>2, HitCounted
    <3> QED BY <2>2, <3>3
  <2> QED BY <2>1, <2>2
<1> QED BY <1>6, <1>8, <1>10, <1>11, <1>14

\* Redis runs the script for a hit whose caller has gone.
LEMMA CountsRunLate == ASSUME CountsInv, Shared!LateHitRuns PROVE CountsInv'
<1> USE DEF CountsInv
<1>1. PICK l \in late : /\ Shared!RunScript(l[1], l[2]) /\ late' = late \ {l}
                        /\ UNCHANGED <<store, hit, served, now>>
  BY DEF Shared!LateHitRuns
<1>2. PICK x \in Identity : x = l[2] BY DEF HitsOK
<1>3. Shared!RunScript(l[1], x) BY <1>1, <1>2
<1>4. counted' = [counted EXCEPT ![x] = Append(counted[x], now)] BY <1>3 DEF Shared!RunScript
<1>5. HitsOK' BY <1>1, <1>4, HitAdded DEF HitsOK
<1>6. /\ CountersOK' /\ CountInv' /\ Open(x)'
      /\ Open(x) => Count(x)' = Count(x) + 1 /\ Start(x)' = Start(x)
      /\ ~Open(x) => Count(x)' = 1 /\ Start(x)' = now
      /\ \A y \in Identity : y # x => /\ Open(y)' <=> Open(y)
                                      /\ Open(y) => Count(y)' = Count(y) /\ Start(y)' = Start(y)
  BY <1>1, <1>3, <1>5, ScriptRuns
<1>7. RoomInv'
  <2>1. Waiting' = Waiting BY <1>1 DEF Waiting
  <2>2. Cardinality(CountedHits) \in Nat /\ Cardinality(Waiting) \in Nat /\ Cardinality(late) \in Nat BY CountedFinite
  <2>3. Cardinality(late') = Cardinality(late) - 1 BY <1>1, CountedFinite, FS_RemoveElement
  <2>4. Cardinality(late') \in Nat BY <1>1, CountedFinite, FS_RemoveElement, FS_CardinalityType
  <2>5. Cardinality(CountedHits) < MaxHit BY <2>2, <2>3, <2>4, LimitsAssumption DEF RoomInv
  <2>6. Cardinality(CountedHits') <= Cardinality(CountedHits) + 1 /\ \A y \in Identity : Len(counted'[y]) <= MaxHit
    BY <1>1, <1>4, <1>5, <2>5, HitHasRoom
  <2>7. Cardinality(CountedHits') \in Nat
    <3>1. (HitsOK => IsFiniteSet(CountedHits) /\ Cardinality(CountedHits) \in Nat)' BY CountedFinite, PTL
    <3> QED BY <1>5, <3>1
  <2>8. Cardinality(CountedHits) + Cardinality(Waiting) + Cardinality(late) <= MaxHit BY DEF RoomInv
  <2>9. Cardinality(CountedHits') + Cardinality(Waiting') + Cardinality(late') <= MaxHit
    BY <2>1, <2>2, <2>3, <2>4, <2>6, <2>7, <2>8, LimitsAssumption
  <2> QED BY <2>6, <2>9 DEF RoomInv
<1>8. Admitted' = Admitted BY <1>1 DEF Admitted, ServedIn, YesIn
<1>9. ASSUME store = "redis", NEW y \in Identity PROVE AdmittedInv(y)'
  <2>1. AdmittedFacts BY AdmittedAreNumbers
  <2>2. \A a, b \in Int : Admitted'[y][a][b] <= Admitted[y][a][b] BY <1>8, <2>1 DEF AdmittedFacts
  <2>3. AdmittedInv(y) BY <1>9
  <2>4. CASE y # x BY <1>1, <1>5, <1>6, <2>2, <2>3, <2>4, NoneAdmitted
  <2>5. CASE y = x BY <1>1, <1>5, <1>6, <2>2, <2>3, <2>5, HitCounted
  <2> QED BY <2>4, <2>5
<1> QED BY <1>1, <1>5, <1>6, <1>7, <1>9

\* A hit that is let through was admitted before, and is then no longer on its way.
LEMMA AnswerIsServed ==
    ASSUME HitsOK, HitsOK', NEW i \in Instance, NEW x \in Identity, NEW t \in Nat,
           hit[i].answer = "yes", hit[i].id = x, hit[i].at = t,
           hit' = [hit EXCEPT ![i] = Shared!Nothing], served' = [served EXCEPT ![x] = Append(served[x], t)],
           NEW y \in Identity, NEW a \in Int, NEW b \in Int
    PROVE  Admitted'[y][a][b] <= Admitted[y][a][b]
<1> DEFINE q == served[x]
           n == Len(q)
<1>1. q \in Seq(Nat) /\ n \in Nat /\ DOMAIN q = 1 .. n BY DEF HitsOK
<1>2. served'[x] = Append(q, t) /\ \A z \in Identity : z # x => served'[z] = served[z] BY DEF HitsOK
<1>3. /\ DOMAIN Append(q, t) = 1 .. n + 1 /\ Append(q, t)[n + 1] = t /\ \A j \in 1 .. n : Append(q, t)[j] = q[j] BY <1>1
<1>4. hit'[i].answer = "none" /\ \A j \in Instance : j # i => hit'[j] = hit[j] BY DEF HitsOK, Shared!Nothing
<1>5. YesIn(y, a, b)' = YesIn(y, a, b) \ {i} BY <1>4 DEF YesIn
<1>6. ServedIn(x, a, b) = {j \in 1 .. n : q[j] \in a .. b} BY <1>1 DEF ServedIn
<1>7. ServedIn(x, a, b)' = {j \in 1 .. n + 1 : Append(q, t)[j] \in a .. b} BY <1>2, <1>3 DEF ServedIn
<1>8. AdmittedSums /\ AdmittedSums' BY AdmittedAreSums, PTL
<1>9. /\ IsFiniteSet(ServedIn(y, a, b)) /\ Cardinality(ServedIn(y, a, b)) \in Nat
      /\ IsFiniteSet(YesIn(y, a, b)) /\ Cardinality(YesIn(y, a, b)) \in Nat /\ Cardinality(YesIn(y, a, b)') \in Nat
      /\ Admitted[y][a][b] = Cardinality(ServedIn(y, a, b)) + Cardinality(YesIn(y, a, b))
      /\ Admitted'[y][a][b] = Cardinality(ServedIn(y, a, b)') + Cardinality(YesIn(y, a, b)')
  BY <1>8 DEF AdmittedSums
<1>10. CASE y = x /\ t \in a .. b
  <2>1. ServedIn(x, a, b)' = ServedIn(x, a, b) \cup {n + 1} BY <1>1, <1>3, <1>6, <1>7, <1>10
  <2>2. n + 1 \notin ServedIn(x, a, b) BY <1>1, <1>6
  <2>3. Cardinality(ServedIn(y, a, b)') = Cardinality(ServedIn(y, a, b)) + 1
    <3>1. PICK m : m = n + 1 OBVIOUS
    <3>2. Cardinality(ServedIn(x, a, b) \cup {m}) = Cardinality(ServedIn(x, a, b)) + 1
      BY <1>9, <1>10, <2>2, <3>1, FS_AddElement
    <3> QED BY <1>10, <2>1, <3>1, <3>2
  <2>4. i \in YesIn(y, a, b) BY <1>10 DEF YesIn
  <2>5. Cardinality(YesIn(y, a, b)') = Cardinality(YesIn(y, a, b)) - 1
    BY <1>5, <1>9, <2>4, FS_RemoveElement, ZenonT(60)
  <2> HIDE DEF n, q
  <2> QED BY <1>9, <2>3, <2>5
<1>11. CASE ~(y = x /\ t \in a .. b)
  <2>1. ServedIn(y, a, b)' = ServedIn(y, a, b)
    <3>1. CASE y = x
      <4>1. \A j : j \in 1 .. n + 1 <=> j \in 1 .. n \/ j = n + 1 BY <1>1
      <4>2. t \notin a .. b BY <1>11, <3>1
      <4>3. ServedIn(x, a, b)' = ServedIn(x, a, b) BY <1>3, <1>6, <1>7, <4>1, <4>2
      <4> QED BY <3>1, <4>3
    <3>2. CASE y # x BY <1>2, <3>2 DEF ServedIn
    <3> QED BY <3>1, <3>2
  <2>2. YesIn(y, a, b)' \in SUBSET YesIn(y, a, b) BY <1>5
  <2>3. Cardinality(YesIn(y, a, b)') <= Cardinality(YesIn(y, a, b)) BY <1>9, <2>2, FS_Subset
  <2> QED BY <1>9, <2>1, <2>3
<1> QED BY <1>10, <1>11

\* The caller has its answer, or gives up.
LEMMA CountsEnd == ASSUME CountsInv, NEW i \in Instance, Shared!HitEnds(i) PROVE CountsInv'
<1> USE DEF CountsInv
<1>1. hit[i] \in [id : Identity, answer : {"sent", "yes", "no"}, at : Nat] BY DEF Shared!HitEnds, HitsOK, HitType
<1>2. PICK x \in Identity, t \in Nat : x = hit[i].id /\ t = hit[i].at BY <1>1
<1>3. /\ hit' = [hit EXCEPT ![i] = Shared!Nothing] /\ UNCHANGED <<store, counters, counted, now>>
      /\ \/ served' = served
         \/ hit[i].answer = "yes" /\ served' = [served EXCEPT ![x] = Append(served[x], t)]
      /\ late' = IF hit[i].answer = "sent" THEN late \cup {<<i, x>>} ELSE late
  BY <1>2 DEF Shared!HitEnds, Shared!LetThrough
<1>4. hit'[i] = Shared!Nothing /\ hit'[i].answer = "none" /\ \A j \in Instance : j # i => hit'[j] = hit[j]
  BY <1>3 DEF HitsOK, Shared!Nothing
<1>5. HitsOK'
  <2>1. hit' \in [Instance -> HitType] BY <1>3 DEF HitsOK, HitType
  <2>2. served' \in [Identity -> Seq(Nat)]
    <3>1. Append(served[x], t) \in Seq(Nat) BY DEF HitsOK
    <3> QED BY <1>3, <3>1 DEF HitsOK
  <2>3. late' \subseteq Instance \X Identity BY <1>3 DEF HitsOK
  <2> QED BY <1>3, <2>1, <2>2, <2>3 DEF HitsOK
<1>6. CountersOK' /\ CountInv' BY <1>3 DEF CountersOK, CountInv, Open, Count, Start, CounterKey, Since
<1>7. RoomInv'
  <2>1. Waiting' = Waiting \ {i} BY <1>4 DEF Waiting
  <2>2. /\ Cardinality(CountedHits) \in Nat /\ Cardinality(Waiting) \in Nat /\ Cardinality(late) \in Nat
        /\ IsFiniteSet(Waiting) /\ IsFiniteSet(late)
    BY CountedFinite
  <2>3. CountedHits' = CountedHits BY <1>3 DEF CountedHits
  <2>4. Cardinality(CountedHits) + Cardinality(Waiting) + Cardinality(late) <= MaxHit BY DEF RoomInv
  <2>5. CASE hit[i].answer = "sent"
    <3>1. i \in Waiting BY <2>5 DEF Waiting
    <3>2. Cardinality(Waiting') = Cardinality(Waiting) - 1 BY <2>1, <2>2, <3>1, FS_RemoveElement
    <3>3. PICK l : l = <<i, x>> OBVIOUS
    <3>4. late' = late \cup {l} BY <1>3, <2>5, <3>3
    <3>5. Cardinality(late') = IF l \in late THEN Cardinality(late) ELSE Cardinality(late) + 1
      BY <2>2, <3>4, FS_AddElement
    <3>6. Cardinality(CountedHits') + Cardinality(Waiting') + Cardinality(late') <= MaxHit
      BY <2>2, <2>3, <2>4, <3>2, <3>5, LimitsAssumption
    <3> QED BY <1>3, <3>6 DEF RoomInv
  <2>6. CASE hit[i].answer # "sent"
    <3>1. Waiting' = Waiting BY <2>1, <2>6 DEF Waiting
    <3> QED BY <1>3, <2>3, <2>6, <3>1 DEF RoomInv
  <2> QED BY <2>5, <2>6
<1>8. AdmittedSums /\ AdmittedSums' BY <1>5, AdmittedAreSums, PTL
<1>9. ASSUME NEW y \in Identity, NEW a \in Int, NEW b \in Int PROVE Admitted'[y][a][b] <= Admitted[y][a][b]
  <2>1. CASE served' = served
    <3>1. ServedIn(y, a, b)' = ServedIn(y, a, b) BY <2>1 DEF ServedIn
    <3>2. YesIn(y, a, b)' \in SUBSET YesIn(y, a, b) BY <1>4 DEF YesIn
    <3>3. /\ IsFiniteSet(YesIn(y, a, b)) /\ Cardinality(YesIn(y, a, b)) \in Nat /\ Cardinality(YesIn(y, a, b)') \in Nat
          /\ Cardinality(ServedIn(y, a, b)) \in Nat
          /\ Admitted[y][a][b] = Cardinality(ServedIn(y, a, b)) + Cardinality(YesIn(y, a, b))
          /\ Admitted'[y][a][b] = Cardinality(ServedIn(y, a, b)') + Cardinality(YesIn(y, a, b)')
      BY <1>8 DEF AdmittedSums
    <3>4. Cardinality(YesIn(y, a, b)') <= Cardinality(YesIn(y, a, b)) BY <3>2, <3>3, FS_Subset
    <3> QED BY <3>1, <3>3, <3>4
  <2>2. CASE hit[i].answer = "yes" /\ served' = [served EXCEPT ![x] = Append(served[x], t)]
    BY <1>2, <1>3, <1>5, <2>2, AnswerIsServed
  <2> QED BY <1>3, <2>1, <2>2
<1>10. \A y \in Identity : /\ Open(y)' <=> Open(y)
                           /\ Count(y)' = Count(y) /\ Start(y)' = Start(y)
  BY <1>3 DEF Open, Count, Start, CounterKey
<1>11. ASSUME store = "redis", NEW y \in Identity PROVE AdmittedInv(y)'
  BY <1>3, <1>5, <1>9, <1>10, <1>11, NoneAdmitted
<1> QED BY <1>3, <1>5, <1>6, <1>7, <1>11

\* How many were counted is a number, before and after a step.
SinceNumbers == \A x \in Identity, s \in Int : IsFiniteSet(Since(x, s)) /\ Cardinality(Since(x, s)) \in Nat

LEMMA SinceAreNumbers == HitsOK => SinceNumbers
BY CountedFinite DEF SinceNumbers

\* A hit that is counted in the memory of a process.
LEMMA CountsInMemory ==
    ASSUME CountsInv, NEW i \in Instance, NEW x \in Identity, Shared!MemoryHit(i, x) PROVE CountsInv'
<1> USE DEF CountsInv
<1>1. /\ store = "memory" /\ UNCHANGED <<store, counters, hit, late, now>> /\ Shared!Room
      /\ counted' = [counted EXCEPT ![x] = Append(counted[x], now)]
      /\ served' = served \/ served' = [served EXCEPT ![x] = Append(served[x], now)]
  BY DEF Shared!MemoryHit
<1>2. HitsOK'
  <2>1. now \in Nat BY BoundsAssumption DEF HitsOK
  <2>2. served' \in [Identity -> Seq(Nat)]
    <3>1. Append(served[x], now) \in Seq(Nat) BY <2>1 DEF HitsOK
    <3> QED BY <1>1, <3>1 DEF HitsOK
  <2>3. counted' \in [Identity -> Seq(Nat)] /\ \A y \in Identity : \A k \in DOMAIN counted'[y] : counted'[y][k] <= now'
    BY <1>1, HitAdded
  <2> QED BY <1>1, <2>2, <2>3 DEF HitsOK
<1>3. CountersOK' BY <1>1 DEF CountersOK, CounterKey
<1>4. CountInv'
  <2>1. ASSUME NEW y \in Identity, Open(y)' PROVE (Count(y) <= Cardinality(Since(y, Start(y))))'
    <3>1. Open(y) /\ Count(y)' = Count(y) /\ Start(y)' = Start(y) BY <1>1, <2>1 DEF Open, Count, Start, CounterKey
    <3>2. PICK s \in Int : s = Start(y) /\ Count(y) \in Nat BY <3>1, WindowTypes
    <3>3. Since(y, s) \in SUBSET (Since(y, s)')
      <4>1. CASE y = x BY <1>1, <4>1, HitAdded
      <4>2. CASE y # x
        <5>1. Since(y, s)' = Since(y, s) BY <1>1, <4>2, HitAdded
        <5> QED BY <5>1
      <4> QED BY <4>1, <4>2
    <3>4. SinceNumbers' BY <1>2, SinceAreNumbers, PTL
    <3>5. Cardinality(Since(y, s)) <= Cardinality(Since(y, s)') /\ Cardinality(Since(y, s)') \in Nat
      BY <3>3, <3>4, FS_Subset DEF SinceNumbers
    <3>6. Count(y) <= Cardinality(Since(y, s)) /\ Cardinality(Since(y, s)) \in Nat
      BY <3>1, <3>2, CountedFinite DEF CountInv
    <3>7. Since(y, Start(y))' = Since(y, s)' BY <3>1, <3>2 DEF Since
    <3> QED BY <3>1, <3>2, <3>5, <3>6, <3>7
  <2> QED BY <2>1 DEF CountInv
<1>5. RoomInv'
  <2>1. Waiting' = Waiting /\ late' = late BY <1>1 DEF Waiting
  <2>2. Cardinality(CountedHits) \in Nat /\ Cardinality(Waiting) \in Nat /\ Cardinality(late) \in Nat BY CountedFinite
  <2>3. Cardinality(CountedHits) + Cardinality(Waiting) + Cardinality(late) < MaxHit
    BY <1>1, SharedCardinality DEF Shared!Room, CountedHits, Waiting
  <2>4. Cardinality(CountedHits) < MaxHit BY <2>2, <2>3, LimitsAssumption
  <2>5. Cardinality(CountedHits') <= Cardinality(CountedHits) + 1 /\ \A y \in Identity : Len(counted'[y]) <= MaxHit
    BY <1>1, <1>2, <2>4, HitHasRoom
  <2>6. (HitsOK => Cardinality(CountedHits) \in Nat)' BY CountedFinite, PTL
  <2>7. Cardinality(CountedHits') + Cardinality(Waiting') + Cardinality(late') <= MaxHit
    BY <1>2, <2>1, <2>2, <2>3, <2>5, <2>6, LimitsAssumption
  <2> QED BY <2>5, <2>7 DEF RoomInv
<1> QED BY <1>1, <1>2, <1>3, <1>4, <1>5

\* A step of a process, of a dependency or of a probe.
LEMMA ProcessSteps ==
    ASSUME LimitsInv,
           \/ Shared!RedisChanges \/ Shared!DatabaseChanges
           \/ \E i \in Instance : \/ Shared!Connect(i) \/ Shared!Started(i) \/ Shared!Shutdown(i)
                                  \/ Shared!ProbeStarts(i)
                                  \/ Shared!DatabaseChecked(i) \/ Shared!RedisChecked(i) \/ Shared!ProbeAnswered(i)
    PROVE  LimitsInv'
<1> USE DEF LimitsInv
<1>1. UNCHANGED <<store, now, counters, hit, late, counted, served>>
  BY DEF Shared!RedisChanges, Shared!DatabaseChanges, Shared!Connect, Shared!Started, Shared!Shutdown,
         Shared!ProbeStarts,
         Shared!DatabaseChecked, Shared!RedisChecked, Shared!ProbeAnswered, Shared!limitvars
<1>2. CountsInv' BY <1>1, CountsStay
<1>3. MemoryInv'
  <2>1. \/ memory' = memory \/ \E i \in Instance : memory' = [memory EXCEPT ![i] = <<>>]
    BY DEF Shared!RedisChanges, Shared!DatabaseChanges, Shared!Connect, Shared!Started, Shared!Shutdown,
           Shared!ProbeStarts,
           Shared!DatabaseChecked, Shared!RedisChecked, Shared!ProbeAnswered, Shared!limitvars
  <2>2. CASE memory' = memory BY <2>2 DEF MemoryInv
  <2>3. ASSUME NEW i \in Instance, memory' = [memory EXCEPT ![i] = <<>>] PROVE MemoryInv'
    <3>1. memory' = [j \in Instance |-> memory'[j]] BY <2>3 DEF MemoryInv
    <3>2. memory'[i] = <<>> /\ \A j \in Instance : j # i => memory'[j] = memory[j] BY <2>3 DEF MemoryInv
    <3>3. DOMAIN memory'[i] = {} BY <3>2
    <3>4. IsFiniteSet(DOMAIN memory'[i]) /\ Cardinality(DOMAIN memory'[i]) <= MaxKeys
      BY <3>3, FS_EmptySet, LimitsAssumption
    <3> QED BY <3>1, <3>2, <3>4 DEF MemoryInv
  <2> QED BY <2>1, <2>2, <2>3
<1>4. redisUp' \in BOOLEAN /\ dbUp' \in BOOLEAN
  BY Zenon DEF ProcessTypes, Shared!RedisChanges, Shared!DatabaseChanges, Shared!Connect, Shared!Started,
         Shared!Shutdown,
         Shared!ProbeStarts, Shared!DatabaseChecked, Shared!RedisChecked, Shared!ProbeAnswered, Shared!limitvars
<1>5. client' \in [Instance -> {"connecting", "ready", "end"}]
      /\ life' \in [Instance -> {"starting", "serving", "stopped"}]
  <2>1. CASE Shared!RedisChanges BY <2>1 DEF ProcessTypes, Shared!RedisChanges
  <2>2. CASE Shared!DatabaseChanges BY <2>2 DEF ProcessTypes, Shared!DatabaseChanges
  <2>3. ASSUME NEW i \in Instance,
               \/ Shared!Connect(i) \/ Shared!Started(i) \/ Shared!Shutdown(i) \/ Shared!ProbeStarts(i)
               \/ Shared!DatabaseChecked(i) \/ Shared!RedisChecked(i) \/ Shared!ProbeAnswered(i)
        PROVE  client' \in [Instance -> {"connecting", "ready", "end"}]
               /\ life' \in [Instance -> {"starting", "serving", "stopped"}]
    BY <2>3 DEF ProcessTypes, Shared!Connect, Shared!Started, Shared!Shutdown,
         Shared!ProbeStarts, Shared!DatabaseChecked, Shared!RedisChecked, Shared!ProbeAnswered
  <2> QED BY <2>1, <2>2, <2>3
<1>6. report' \in [Instance -> {"none", "UP", "DOWN"}]
  <2>1. \/ report' = report
        \/ \E i \in Instance : report' = [report EXCEPT ![i] = "none"]
        \/ \E i \in Instance : report' = [report EXCEPT ![i] = Shared!buildReadinessReport(probe[i])]
    BY DEF Shared!RedisChanges, Shared!DatabaseChanges, Shared!Connect, Shared!Started, Shared!Shutdown,
           Shared!ProbeStarts,
           Shared!DatabaseChecked, Shared!RedisChecked, Shared!ProbeAnswered, Shared!limitvars, Shared!probevars
  <2>2. \A p : Shared!buildReadinessReport(p) \in {"none", "UP", "DOWN"} BY DEF Shared!buildReadinessReport
  <2> QED BY <2>1, <2>2 DEF ProcessTypes
<1> QED BY <1>2, <1>3, <1>4, <1>5, <1>6 DEF ProcessTypes

\* The entries of a process after a hit.
LEMMA MemoryAfterHit ==
    ASSUME MemoryInv, NEW i \in Instance, NEW x \in Identity, Shared!MemoryHit(i, x) PROVE MemoryInv'
<1> DEFINE entries == memory[i]
           put == Shared!Put(entries, x, [count |-> 1, resetAt |-> now + Window])
<1>1. PICK e : /\ memory' = [memory EXCEPT ![i] = e]
               /\ \/ e = Shared!WithinMemory(put)
                  \/ e = [entries EXCEPT ![x].count = @ + 1]
  BY DEF Shared!MemoryHit
<1>2. IsFiniteSet(DOMAIN entries) /\ Cardinality(DOMAIN entries) <= MaxKeys BY DEF MemoryInv
<1>3. DOMAIN put = DOMAIN entries \cup {x} BY DEF Shared!Put
<1>4. IsFiniteSet(DOMAIN put) /\ Cardinality(DOMAIN put) \in Nat BY <1>2, <1>3, FS_AddElement, FS_CardinalityType
<1> HIDE DEF put, entries
<1>5. IsFiniteSet(DOMAIN e) /\ Cardinality(DOMAIN e) <= MaxKeys
  <2>1. CASE e = Shared!WithinMemory(put)
    <3>1. e = <<>> \/ (e = put /\ ~(Cardinality(DOMAIN put) > MaxKeys))
      BY <2>1, SharedCardinality DEF Shared!WithinMemory
    <3>2. DOMAIN <<>> = {} OBVIOUS
    <3>3. Cardinality({}) = 0 /\ IsFiniteSet({}) BY FS_EmptySet
    <3> QED BY <1>4, <3>1, <3>2, <3>3, LimitsAssumption
  <2>2. CASE e = [entries EXCEPT ![x].count = @ + 1]
    <3>1. DOMAIN e = DOMAIN entries BY <2>2
    <3> QED BY <1>2, <3>1
  <2> QED BY <1>1, <2>1, <2>2
<1>6. memory' = [j \in Instance |-> memory'[j]] /\ memory'[i] = e /\ \A j \in Instance : j # i => memory'[j] = memory[j]
  BY <1>1 DEF MemoryInv
<1> QED BY <1>5, <1>6 DEF MemoryInv

\* Every step keeps the invariant.
LEMMA LimitsNext == ASSUME LimitsInv, Shared!HitNext \/ Shared!ProbeNext PROVE LimitsInv'
<1> USE DEF LimitsInv
<1>1. CASE Shared!Surroundings \/ Shared!ProbeNext BY <1>1, ProcessSteps DEF Shared!Surroundings, Shared!ProbeNext
<1>2. CASE \/ Shared!Tick \/ Shared!LateHitRuns
           \/ \E i \in Instance : Shared!HitRuns(i) \/ Shared!HitEnds(i)
           \/ \E i \in Instance, x \in Identity : Shared!HitSent(i, x)
  <2>1. CountsInv' BY <1>2, CountsTick, CountsRunLate, CountsRun, CountsEnd, CountsSent
  <2>2. UNCHANGED <<memory, redisUp, dbUp, client, life, report>>
    BY <1>2 DEF Shared!Tick, Shared!LateHitRuns, Shared!HitRuns, Shared!HitEnds, Shared!HitSent, Shared!probevars
  <2>3. MemoryInv' BY <2>2 DEF MemoryInv
  <2>4. ProcessTypes' BY <2>2 DEF ProcessTypes
  <2> QED BY <2>1, <2>3, <2>4
<1>3. ASSUME NEW i \in Instance, NEW x \in Identity, Shared!MemoryHit(i, x) PROVE LimitsInv'
  <2>1. CountsInv' /\ MemoryInv' BY <1>3, CountsInMemory, MemoryAfterHit
  <2>2. UNCHANGED <<redisUp, dbUp, client, life, report>> BY <1>3 DEF Shared!MemoryHit, Shared!probevars
  <2>3. ProcessTypes' BY <2>2 DEF ProcessTypes
  <2> QED BY <2>1, <2>3
<1> QED BY <1>1, <1>2, <1>3 DEF Shared!HitNext

\* The start of the shared state.
LEMMA LimitsInit == ASSUME Shared!Init PROVE LimitsInv
<1>1. CountsInv BY CountsInit
<1>2. MemoryInv
  <2>1. memory = [i \in Instance |-> memory[i]] /\ \A i \in Instance : memory[i] = <<>> BY DEF Shared!Init
  <2>2. \A i \in Instance : DOMAIN memory[i] = {} BY <2>1
  <2>3. Cardinality({}) = 0 /\ IsFiniteSet({}) BY FS_EmptySet
  <2> QED BY <2>1, <2>2, <2>3, LimitsAssumption DEF MemoryInv
<1>3. redisUp \in BOOLEAN /\ dbUp \in BOOLEAN BY Zenon DEF Shared!Init
<1>4. ProcessTypes BY <1>3 DEF ProcessTypes, Shared!Init
<1> QED BY <1>1, <1>2, <1>4 DEF LimitsInv

\* For any number of API instances and clients, any limit and any window length, two neighbouring
\* windows together admit fewer than twice the limit, however answers are lost and commands come
\* late; who is refused has made more than the limit's hits in the last window; and the memory
\* store never holds more than its number of entries (rate-limit-store.ts).
THEOREM LimitsHoldAcrossInstances == ServicesSpec => []LimitsAreShared
<1> DEFINE Inv == part \in {"limits", "probes"} => LimitsInv
<1>1. ServicesInit => Inv BY LimitsInit DEF ServicesInit
<1>2. Inv /\ [ServicesNext]_allvars => Inv'
  <2> SUFFICES ASSUME Inv, [ServicesNext]_allvars, part \in {"limits", "probes"} PROVE LimitsInv' /\ part' = part
    BY OnePart
  <2>1. CASE UNCHANGED lvars
    <3>1. CountsInv' BY <2>1, CountsStay DEF LimitsInv, lvars
    <3>2. MemoryInv' BY <2>1 DEF LimitsInv, MemoryInv, lvars
    <3>3. ProcessTypes' BY <2>1 DEF LimitsInv, ProcessTypes, lvars
    <3> QED BY <3>1, <3>2, <3>3, OnePart DEF LimitsInv
  <2> QED BY <2>1, OnePart, LimitsNext
<1>3. Inv => LimitsAreShared BY LimitsInvImplies DEF LimitsAreShared
<1> QED BY <1>1, <1>2, <1>3, PTL DEF ServicesSpec
=============================================================================
