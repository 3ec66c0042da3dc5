---------------------------- MODULE KeyRotation ----------------------------
(***************************************************************************)
(* Sealed channel credentials while their encryption key is rotated:       *)
(* packages/shared/src/crypto/credential-cipher.ts, the credential store   *)
(* of the channel adapters and the connect and reconnect operations of     *)
(* the API.  A process takes its keys from the environment when it starts, *)
(* so during a rolling restart the processes hold different rings.  The    *)
(* operator follows docs/secret-management-and-rotation.md, section 2.5.   *)
(***************************************************************************)
EXTENDS Naturals, FiniteSets

CONSTANTS Process, Account, MaxKey, MaxSecret

VARIABLES
    env,      \* the deployed settings: active key and previous keys
    ring,     \* ring[p]: the settings process p started with
    sealed,   \* sealed[a]: the stored envelope, None before the account is connected
    opened,   \* opened[p]: what p read last: "none", "fine", or "failed"
    secrets   \* generated secrets so far

vars == <<env, ring, sealed, opened, secrets>>

Key == 1 .. MaxKey
None == [key |-> 0, owner |-> 0, secret |-> 0]
Env == [active : Key, previous : SUBSET Key]

TypeOK ==
    /\ env \in Env /\ ring \in [Process -> Env]
    /\ DOMAIN sealed = Account
    /\ \A a \in Account : \/ sealed[a] = None
                          \/ /\ sealed[a].key \in Key /\ sealed[a].owner = a
                             /\ sealed[a].secret \in 1 .. secrets
    /\ opened \in [Process -> {"none", "fine", "failed"}]
    /\ secrets \in 0 .. MaxSecret

Init ==
    /\ env = [active |-> 1, previous |-> {}]
    /\ ring = [p \in Process |-> env]
    /\ sealed = [a \in Account |-> None]
    /\ opened = [p \in Process |-> "none"]
    /\ secrets = 0

----------------------------------------------------------------------------
(* The cipher *)

\* Mutant: only the last of the listed keys is kept.
parseLastPreviousKey(e) == {k \in e.previous : \A j \in e.previous : j <= k}

parsePreviousKeys(e) == e.previous

\* fromEnv: the previous keys and the active one.
Keys(p) == parsePreviousKeys(ring[p]) \cup {ring[p].active}

\* sealChannelSecrets: the envelope names its key and its account.
Seal(p, a, secret) == [key |-> ring[p].active, owner |-> a, secret |-> secret]

\* openChannelSecrets: throws for another account's envelope and for a key the ring lacks.
CanOpen(p, a) == sealed[a].owner = a /\ sealed[a].key \in Keys(p)

\* buildAdapterAccount: whoever acts for a channel opens its credentials first.
Act(p, a) ==
    /\ sealed[a] # None
    /\ opened' = [opened EXCEPT ![p] = IF CanOpen(p, a) THEN "fine" ELSE "failed"]
    /\ UNCHANGED <<env, ring, sealed, secrets>>

----------------------------------------------------------------------------
(* Channel administration *)

Connect(p, a) ==
    /\ sealed[a] = None /\ secrets < MaxSecret
    /\ secrets' = secrets + 1
    /\ sealed' = [sealed EXCEPT ![a] = Seal(p, a, secrets + 1)]
    /\ UNCHANGED <<env, ring, opened>>

\* Mutant: fresh secrets win over the stored ones.
SecretFresh(p, a) == secrets + 1

\* Stored secrets win over fresh ones; an envelope that does not open has none.
SecretAfter(p, a) == IF CanOpen(p, a) THEN sealed[a].secret ELSE secrets + 1

Reconnect(p, a) ==
    /\ sealed[a] # None /\ secrets < MaxSecret
    /\ sealed' = [sealed EXCEPT ![a] = Seal(p, a, SecretAfter(p, a))]
    /\ secrets' = secrets + 1
    /\ UNCHANGED <<env, ring, opened>>

----------------------------------------------------------------------------
(* The operator *)

Rolled == \A p \in Process : ring[p] = env

Rotate ==
    /\ Rolled /\ env.active < MaxKey
    /\ env' = [active |-> env.active + 1, previous |-> env.previous \cup {env.active}]
    /\ UNCHANGED <<ring, sealed, opened, secrets>>

Restart(p) ==
    /\ ring[p] # env
    /\ ring' = [ring EXCEPT ![p] = env]
    /\ opened' = [opened EXCEPT ![p] = "none"]
    /\ UNCHANGED <<env, sealed, secrets>>

\* The query of step 5 finds no row that needs the old keys.
RemoveOldKeys ==
    /\ Rolled /\ env.previous # {}
    /\ \A a \in Account : sealed[a].key \notin env.previous
    /\ env' = [env EXCEPT !.previous = {}]
    /\ UNCHANGED <<ring, sealed, opened, secrets>>

Next ==
    \/ Rotate \/ RemoveOldKeys
    \/ \E p \in Process :
         \/ Restart(p)
         \/ \E a \in Account : Act(p, a) \/ Connect(p, a) \/ Reconnect(p, a)

Spec == Init /\ [][Next]_vars

----------------------------------------------------------------------------
(* A process that runs with the deployed settings opens every stored       *)
(* envelope, whichever process sealed it and at whatever point of a        *)
(* rotation.                                                               *)
CurrentRingOpensAll ==
    \A p \in Process : ring[p] = env =>
        \A a \in Account : sealed[a] # None => CanOpen(p, a)

(* The generated secrets, which the provider's side is configured with,    *)
(* survive every reconnect, except one served by a process that a rolling  *)
(* restart has not reached yet.                                            *)
SecretsSurviveReconnect ==
    [][\A a \in Account :
         sealed[a] # None /\ sealed'[a].secret # sealed[a].secret => ~Rolled]_vars
=============================================================================
