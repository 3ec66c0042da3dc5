---------------------------- MODULE SharedState ----------------------------
(***************************************************************************)
(* What API instances share through Redis: the fixed-window rate limits of *)
(* the web chat (rate-limit-store.ts), the client they are kept through    *)
(* (redis-client.ts, redis.module.ts), and the probes that report whether  *)
(* an instance can reach its dependencies (health-check.ts).               *)
(***************************************************************************)
EXTENDS Integers, Sequences, FiniteSets

CONSTANTS
    Instance,   \* API processes
    Identity,   \* hashed client address and widget key
    Limit,      \* hits a window admits
    Window,     \* its length in ticks
    MaxKeys,    \* entries MemoryRateLimitStore keeps (10_000)
    MaxTime,    \* bound on the clock
    MaxHit      \* bound on the hits

VARIABLES
    store,      \* sharedStateStore(env): "redis" or "memory"
    now,        \* the clock
    redisUp,    \* Redis answers
    dbUp,       \* PostgreSQL answers
    client,     \* ioredis client of each instance: "connecting", "ready" or "end"
    life,       \* "starting", "serving" or "stopped"
    counters,   \* Redis: key -> [count, exp], expired keys removed
    memory,     \* MemoryRateLimitStore.hits of each instance
    hit,        \* the hit an instance waits for: [id, answer, at]
    late,       \* hits Redis has yet to run although their caller gave up
    counted,    \* identity -> times of the hits that were counted
    served,     \* identity -> times of the hits that were let through
    probe,      \* the readiness probe an instance is answering
    report      \* its last report

limitvars == <<store, counters, memory, hit, late, counted, served>>
probevars == <<probe, report>>
lvars == <<limitvars, probevars, now, redisUp, dbUp, client, life>>

Nothing == [id |-> "none", answer |-> "none", at |-> 0]
NoProbe == [db |-> "none", redis |-> "none", met |-> {}]
Restricted(f, S) == [k \in S |-> f[k]]
Put(f, k, v) == [x \in DOMAIN f \cup {k} |-> IF x = k THEN v ELSE f[x]]

TypeOK ==
    /\ store \in {"redis", "memory"} /\ now \in 0..MaxTime
    /\ redisUp \in BOOLEAN /\ dbUp \in BOOLEAN
    /\ client \in [Instance -> {"connecting", "ready", "end"}]
    /\ life \in [Instance -> {"starting", "serving", "stopped"}]
    /\ \A k \in DOMAIN counters : counters[k].count \in 1..MaxHit /\ counters[k].exp > now
    /\ \A i \in Instance : hit[i].answer \in {"none", "sent", "yes", "no"}
    /\ report \in [Instance -> {"none", "UP", "DOWN"}]

Init ==
    /\ store \in {"redis", "memory"} /\ now = 0 /\ redisUp = TRUE /\ dbUp = TRUE
    /\ client = [i \in Instance |-> "connecting"]
    /\ life = [i \in Instance |-> "starting"]
    /\ counters = <<>> /\ memory = [i \in Instance |-> <<>>]
    /\ hit = [i \in Instance |-> Nothing] /\ late = {}
    /\ counted = [x \in Identity |-> <<>>] /\ served = [x \in Identity |-> <<>>]
    /\ probe = [i \in Instance |-> NoProbe] /\ report = [i \in Instance |-> "none"]

-----------------------------------------------------------------------------
(* The client and the process. *)

\* createRedisClient: connects, and after a loss reconnects for ever.
Connect(i) ==
    /\ store = "redis" /\ redisUp /\ client[i] = "connecting" /\ life[i] # "stopped"
    /\ client' = [client EXCEPT ![i] = "ready"]
    /\ UNCHANGED <<limitvars, probevars, now, redisUp, dbUp, life>>

\* onModuleInit: the first connection, or five seconds without one; serving starts either way.
Started(i) ==
    /\ life[i] = "starting"
    /\ life' = [life EXCEPT ![i] = "serving"]
    /\ UNCHANGED <<limitvars, probevars, now, redisUp, dbUp, client>>

\* onApplicationShutdown: quit, or disconnect when that fails. Process memory goes with it.
Shutdown(i) ==
    /\ life[i] = "serving" /\ hit[i] = Nothing
    /\ life' = [life EXCEPT ![i] = "stopped"]
    /\ client' = [client EXCEPT ![i] = "end"]
    /\ memory' = [memory EXCEPT ![i] = <<>>]
    /\ probe' = [probe EXCEPT ![i] = NoProbe] /\ report' = [report EXCEPT ![i] = "none"]
    /\ UNCHANGED <<store, counters, hit, late, counted, served, now, redisUp, dbUp>>

\* A probe that is under way might meet dependency d from now on.
Meets(d) == [i \in Instance |-> IF probe[i] = NoProbe THEN NoProbe ELSE [probe[i] EXCEPT !.met = @ \cup {d}]]

\* A dependency goes away or comes back. Redis keeps its keys.
RedisChanges ==
    /\ store = "redis"
    /\ redisUp' = ~redisUp
    /\ client' = [i \in Instance |-> IF client[i] = "ready" THEN "connecting" ELSE client[i]]
    /\ probe' = IF redisUp' THEN Meets("redis") ELSE probe
    /\ UNCHANGED <<limitvars, report, now, dbUp, life>>

DatabaseChanges ==
    /\ dbUp' = ~dbUp
    /\ probe' = IF dbUp' THEN Meets("db") ELSE probe
    /\ UNCHANGED <<limitvars, report, now, redisUp, client, life>>

Tick ==
    /\ now < MaxTime
    /\ now' = now + 1
    /\ counters' = Restricted(counters, {k \in DOMAIN counters : counters[k].exp > now'})
    /\ UNCHANGED <<store, memory, hit, late, counted, served, probevars, redisUp, dbUp, client, life>>

-----------------------------------------------------------------------------
(* Rate limits. *)

\* rateLimitKey: one key for an identity, whichever instance is asked.
KeyPerInstance(i, x) == <<i, x>>
rateLimitKey(i, x) == <<"shared", x>>

\* HIT_SCRIPT: count, and start the window with the first hit.
RenewedExpiry(k) == now + Window
ExpiryAfter(k) == IF k \in DOMAIN counters THEN counters[k].exp ELSE now + Window
CountAfter(k) == IF k \in DOMAIN counters THEN counters[k].count + 1 ELSE 1

RunScript(i, x) ==
    LET k == rateLimitKey(i, x)
    IN  /\ counters' = Put(counters, k, [count |-> CountAfter(k), exp |-> ExpiryAfter(k)])
        /\ counted' = [counted EXCEPT ![x] = Append(@, now)]

Room ==
    Cardinality({h \in Identity \X (1..MaxHit) : h[2] <= Len(counted[h[1]])})
      + Cardinality({i \in Instance : hit[i].answer = "sent"}) + Cardinality(late) < MaxHit

\* RedisRateLimitStore.hit: a client that is not connected rejects at once, and nothing changes.
HitSent(i, x) ==
    /\ store = "redis" /\ life[i] = "serving" /\ hit[i] = Nothing /\ Room
    /\ client[i] = "ready"
    /\ hit' = [hit EXCEPT ![i] = [id |-> x, answer |-> "sent", at |-> now]]
    /\ UNCHANGED <<store, counters, memory, late, counted, served, probevars, now, redisUp, dbUp, client, life>>

HitRuns(i) ==
    /\ hit[i].answer = "sent" /\ redisUp
    /\ RunScript(i, hit[i].id)
    /\ hit' = [hit EXCEPT ![i].at = now, ![i].answer =
                 IF CountAfter(rateLimitKey(i, hit[i].id)) <= Limit THEN "yes" ELSE "no"]
    /\ UNCHANGED <<store, memory, late, served, probevars, now, redisUp, dbUp, client, life>>

\* A command that outlives the two seconds, or its connection, may still be run.
LateHitRuns ==
    \E l \in late :
        /\ redisUp
        /\ RunScript(l[1], l[2])
        /\ late' = late \ {l}
        /\ UNCHANGED <<store, memory, hit, served, probevars, now, redisUp, dbUp, client, life>>

\* withinLimit: the answer decides; without one the caller answers 503.
LetThroughUnanswered(answer) == answer # "no"
LetThrough(answer) == answer = "yes"

HitEnds(i) ==
    /\ hit[i] # Nothing
    /\ \E answer \in {hit[i].answer, "lost"} \ {"sent"} :
        served' = IF LetThrough(answer) THEN [served EXCEPT ![hit[i].id] = Append(@, hit[i].at)] ELSE served
    /\ late' = IF hit[i].answer = "sent" THEN late \cup {<<i, hit[i].id>>} ELSE late
    /\ hit' = [hit EXCEPT ![i] = Nothing]
    /\ UNCHANGED <<store, counters, memory, counted, probevars, now, redisUp, dbUp, client, life>>

\* MemoryRateLimitStore.hit: every entry is dropped when a new one is one too many.
KeptForever(entries) == entries
WithinMemory(entries) == IF Cardinality(DOMAIN entries) > MaxKeys THEN <<>> ELSE entries

MemoryHit(i, x) ==
    /\ store = "memory" /\ life[i] = "serving" /\ Room
    /\ LET entries == memory[i]
           fresh == x \notin DOMAIN entries \/ (x \in DOMAIN entries /\ entries[x].resetAt < now)
       IN  /\ memory' = [memory EXCEPT ![i] =
                 IF fresh THEN WithinMemory(Put(entries, x, [count |-> 1, resetAt |-> now + Window]))
                          ELSE [entries EXCEPT ![x].count = @ + 1]]
           /\ served' = IF fresh \/ (~fresh /\ entries[x].count + 1 <= Limit)
                        THEN [served EXCEPT ![x] = Append(@, now)] ELSE served
    /\ counted' = [counted EXCEPT ![x] = Append(@, now)]
    /\ UNCHANGED <<store, counters, hit, late, probevars, now, redisUp, dbUp, client, life>>

-----------------------------------------------------------------------------
(* Probes. *)

\* getReadiness: both checks are started together.
ProbeStarts(i) ==
    /\ life[i] = "serving" /\ probe[i] = NoProbe
    /\ probe' = [probe EXCEPT ![i] = [db |-> "asked", redis |-> "asked",
                    met |-> {d \in {"db", "redis"} : IF d = "db" THEN dbUp ELSE redisUp}]]
    /\ UNCHANGED <<limitvars, report, now, redisUp, dbUp, client, life>>

\* checkDatabaseHealth: an answer, which may have been slow, or an error.
checkDatabaseHealth == IF dbUp THEN {"UP", "DEGRADED"} ELSE {"DOWN"}

DatabaseChecked(i) ==
    /\ probe[i].db = "asked"
    /\ \E s \in checkDatabaseHealth : probe' = [probe EXCEPT ![i].db = s]
    /\ UNCHANGED <<limitvars, report, now, redisUp, dbUp, client, life>>

\* checkRedisHealth behind RedisHealthIndicator: not asked for with the memory store.
RedisHealthOfConnected(i) ==
    IF client[i] = "ready" THEN {"UP", "DEGRADED"} ELSE {"unchecked"}
checkRedisHealth(i) ==
    IF store = "memory" THEN {"unchecked"}
    ELSE IF client[i] = "ready" /\ redisUp THEN {"UP", "DEGRADED"} ELSE {"DOWN"}

RedisChecked(i) ==
    /\ probe[i].redis = "asked"
    /\ \E s \in checkRedisHealth(i) : probe' = [probe EXCEPT ![i].redis = s]
    /\ UNCHANGED <<limitvars, report, now, redisUp, dbUp, client, life>>

\* buildReadinessReport: ready when every check that was made is UP.
buildReadinessReport(p) == IF p.db = "UP" /\ p.redis \in {"UP", "unchecked"} THEN "UP" ELSE "DOWN"

ProbeAnswered(i) ==
    /\ probe[i] # NoProbe /\ probe[i].db # "asked" /\ probe[i].redis # "asked"
    /\ report' = [report EXCEPT ![i] = buildReadinessReport(probe[i])]
    /\ probe' = [probe EXCEPT ![i] = NoProbe]
    /\ UNCHANGED <<limitvars, now, redisUp, dbUp, client, life>>

\* Hits and probes do not read each other's state: a run may take them apart.
Surroundings == RedisChanges \/ \E i \in Instance : Connect(i) \/ Started(i) \/ Shutdown(i)

HitNext ==
    \/ Surroundings \/ Tick \/ LateHitRuns
    \/ \E i \in Instance, x \in Identity : HitSent(i, x) \/ MemoryHit(i, x)
    \/ \E i \in Instance : HitRuns(i) \/ HitEnds(i)

ProbeNext ==
    \/ Surroundings \/ DatabaseChanges
    \/ \E i \in Instance : ProbeStarts(i) \/ DatabaseChecked(i) \/ RedisChecked(i) \/ ProbeAnswered(i)

Next == HitNext \/ ProbeNext

Spec == Init /\ [][Next]_lvars

-----------------------------------------------------------------------------
Within(times, from, to) == Cardinality({k \in DOMAIN times : times[k] \in from..to})

(* Across all instances, lost answers and late commands, two neighbouring   *)
(* windows admit fewer than twice the limit: a window starts with a hit, so *)
(* the span that straddles two has at least one hit of the first behind it. *)
SharedLimitHolds ==
    store = "redis" =>
        \A x \in Identity, t \in 0..MaxTime :
            Within(served[x], t, t + Window - 1) <= 2 * Limit - 1

(* A counter never outlives the window of its first hit: an identity that is *)
(* refused has made more than the limit's hits in the last window. *)
RefusedForCause ==
    \A k \in DOMAIN counters :
        counters[k].count > Limit => Within(counted[k[2]], now - Window + 1, now) > Limit

(* The memory store never holds more than its number of entries. *)
MemoryBounded == \A i \in Instance : Cardinality(DOMAIN memory[i]) <= MaxKeys

(* An instance reported as ready has reached what its requests need since   *)
(* the probe began. *)
ReadyWasReachable ==
    [][\A i \in Instance :
        report'[i] = "UP" /\ probe[i] # NoProbe /\ probe'[i] = NoProbe =>
            (IF store = "redis" THEN {"db", "redis"} ELSE {"db"}) \subseteq probe[i].met]_lvars
=============================================================================
