---------------------------- MODULE RateLimiter ----------------------------
(***************************************************************************)
(* The tiered sliding-window rate limiter of                               *)
(* internal/core/middleware/rate_limiter.go, for one rate-limit key        *)
(* "rate_limit:<tier>:<ip>", served by several service instances.          *)
(*                                                                         *)
(* Each instance decided at startup (main.go) whether it holds a Redis     *)
(* client: rdb[i].  A request handled by worker w of instance Home[w]      *)
(*   1. reads time.Now() into now[w]                  (Arrive),            *)
(*   2. with a Redis client, runs the Lua script against the shared        *)
(*      sorted set (RedisAdmit) or gets an error or a timeout (RedisFail); *)
(*      without one, runs localCheck under localMu (LocalAdmit).           *)
(* The script and the localMu critical section are atomic, so each is one  *)
(* step; the read of the clock is not inside them, so it is its own step.  *)
(*                                                                         *)
(* Time is counted in ticks.  Window is the 60 seconds localCheck uses.    *)
(* ScriptWindowArg is the window the script receives: the handler passes   *)
(* int64(60) while the scores are time.Now().UnixNano(), so the script's   *)
(* window is 60 ns, less than one tick: ScriptWindowArg = 0 in the MC      *)
(* modules.  Script members are tostring(now); two requests of one tick    *)
(* share a member, so the sorted set is a set of ticks.                    *)
(***************************************************************************)
EXTENDS Integers, Sequences, FiniteSets

CONSTANTS
    Instances,         \* service processes sharing one Redis
    Workers,           \* request goroutines
    Home,              \* Home[w]: the instance worker w runs in
    Limit,             \* tierLimits[tier] of the key
    Window,            \* the 60 s window of localCheck, in ticks
    ScriptWindowArg,   \* the window the Lua script is given, in ticks
    RedisConfigured,   \* goredis.ParseURL(cfg.RedisURL) succeeded
    MaxTime,           \* bound on the clock
    MaxRequests        \* bound on the number of requests

ASSUME Home \in [Workers -> Instances]
ASSUME Limit \in Nat \ {0} /\ Window \in Nat \ {0}
ASSUME ScriptWindowArg \in Nat /\ RedisConfigured \in BOOLEAN
ASSUME MaxTime \in Nat /\ MaxRequests \in Nat

VARIABLES
    clock,          \* time.Now()
    rdb,            \* rdb[i]: instance i holds a Redis client
    zset,           \* the Redis sorted set of the key: its members (ticks)
    localWindows,   \* localWindows[i]: the slice of the key at instance i
    pc,             \* pc[w] \in {"idle", "stamped"}
    now,            \* now[w]: the time the worker read
    log             \* history: every decision, in the order made

vars == <<clock, rdb, zset, localWindows, pc, now, log>>

Via == {"redis", "local", "open"}

Decision == [inst : Instances, stamp : Int, at : Int, via : Via,
             allowed : BOOLEAN]

TypeOK ==
    /\ clock \in 0..MaxTime
    /\ rdb \in [Instances -> BOOLEAN]
    /\ zset \subseteq 0..MaxTime
    /\ localWindows \in [Instances -> Seq(0..MaxTime)]
    /\ \A i \in Instances : Len(localWindows[i]) <= Limit
    /\ pc \in [Workers -> {"idle", "stamped"}]
    /\ now \in [Workers -> 0..MaxTime]
    /\ log \in Seq(Decision)

Record(w, via, allowed) ==
    log' = Append(log, [inst |-> Home[w], stamp |-> now[w], at |-> clock,
                        via |-> via, allowed |-> allowed])

(***************************************************************************)
(* main.go: a Redis client is kept only when the URL parses and the        *)
(* startup Ping succeeds; each instance pings on its own.                  *)
(***************************************************************************)
Init ==
    /\ clock = 0
    /\ rdb \in IF RedisConfigured THEN [Instances -> BOOLEAN]
                                  ELSE {[i \in Instances |-> FALSE]}
    /\ zset = {}
    /\ localWindows = [i \in Instances |-> <<>>]
    /\ pc = [w \in Workers |-> "idle"]
    /\ now = [w \in Workers |-> 0]
    /\ log = <<>>

Tick ==
    /\ clock < MaxTime
    /\ clock' = clock + 1
    /\ UNCHANGED <<rdb, zset, localWindows, pc, now, log>>

\* RateLimit handler up to the backend call: now := time.Now().UnixNano()
\* (localCheck reads the clock again, before taking localMu).
Arrive(w) ==
    /\ pc[w] = "idle"
    /\ Len(log) + Cardinality({v \in Workers : pc[v] = "stamped"}) < MaxRequests
    /\ pc' = [pc EXCEPT ![w] = "stamped"]
    /\ now' = [now EXCEPT ![w] = clock]
    /\ UNCHANGED <<clock, rdb, zset, localWindows, log>>

\* luaScript: ZREMRANGEBYSCORE 0..now-window, ZCARD, conditional ZADD.
ScriptKept(t) == {m \in zset : m > t - ScriptWindowArg}

ScriptAdmits(t) == Cardinality(ScriptKept(t)) < Limit

\* The script ran; the reply reaches the handler, or the 300 ms context
\* expires first and err /= nil leaves allowed = true.
RedisAdmit(w) ==
    /\ pc[w] = "stamped"
    /\ rdb[Home[w]]
    /\ zset' = IF ScriptAdmits(now[w]) THEN ScriptKept(now[w]) \cup {now[w]}
                                       ELSE ScriptKept(now[w])
    /\ \E replied \in BOOLEAN :
           Record(w, "redis", ~replied \/ ScriptAdmits(now[w]))
    /\ pc' = [pc EXCEPT ![w] = "idle"]
    /\ UNCHANGED <<clock, rdb, localWindows, now>>

\* The call fails before the script runs (Redis down, timeout): allowed stays
\* true, and localCheck is skipped because rdb /= nil.
RedisFail(w) ==
    /\ pc[w] = "stamped"
    /\ rdb[Home[w]]
    /\ Record(w, "open", TRUE)
    /\ pc' = [pc EXCEPT ![w] = "idle"]
    /\ UNCHANGED <<clock, rdb, zset, localWindows, now>>

\* Mutant: the prune keeps an entry exactly at the cutoff (t >= cutoff).
LocalKeptInclusive(i, t) == SelectSeq(localWindows[i], LAMBDA e : e >= t - Window)

\* Mutant: the cutoff is one tick late (now - window + 1).
LocalKeptShortWindow(i, t) == SelectSeq(localWindows[i], LAMBDA e : e > t - Window + 1)

\* localCheck: keep the entries newer than the cutoff, admit below the limit.
LocalKept(i, t) == SelectSeq(localWindows[i], LAMBDA e : e > t - Window)

\* Mutant: the limit test is off by one (len(filtered) > limit).
LocalAdmitOffByOne(w) ==
    LET i == Home[w]  kept == LocalKept(i, now[w])
    IN  /\ pc[w] = "stamped" /\ ~rdb[i]
        /\ IF Len(kept) > Limit
              THEN localWindows' = [localWindows EXCEPT ![i] = kept] /\ Record(w, "local", FALSE)
              ELSE /\ localWindows' = [localWindows EXCEPT ![i] = Append(kept, now[w])]
                   /\ Record(w, "local", TRUE)
        /\ pc' = [pc EXCEPT ![w] = "idle"]
        /\ UNCHANGED <<clock, rdb, zset, now>>

LocalAdmit(w) ==
    LET i    == Home[w]
        kept == LocalKept(i, now[w])
    IN  /\ pc[w] = "stamped"
        /\ ~rdb[i]
        /\ IF Len(kept) >= Limit
              THEN /\ localWindows' = [localWindows EXCEPT ![i] = kept]
                   /\ Record(w, "local", FALSE)
              ELSE /\ localWindows' = [localWindows EXCEPT ![i] = Append(kept, now[w])]
                   /\ Record(w, "local", TRUE)
        /\ pc' = [pc EXCEPT ![w] = "idle"]
        /\ UNCHANGED <<clock, rdb, zset, now>>

Next ==
    \/ Tick
    \/ \E w \in Workers : Arrive(w) \/ RedisAdmit(w) \/ RedisFail(w)
                          \/ LocalAdmit(w)

\* Goroutines are preempted by the Go scheduler: a worker that can step does.
Fairness ==
    \A w \in Workers : WF_vars(RedisAdmit(w) \/ RedisFail(w) \/ LocalAdmit(w))

Spec == Init /\ [][Next]_vars /\ Fairness

-----------------------------------------------------------------------------
(* Views of the history used by the properties.                            *)

Admitted(k) == log[k].allowed

\* Indices of admissions at instance i via one of the paths in vs.
AdmissionsAt(i, vs) ==
    {k \in DOMAIN log : Admitted(k) /\ log[k].inst = i /\ log[k].via \in vs}

InWindow(x, t) == t - Window < x /\ x <= t

WindowOf(via) == IF via = "local" THEN Window ELSE ScriptWindowArg

(***************************************************************************)
(* Every admission whose time stamp is still inside the window ending now  *)
(* is one of at most Limit: localCheck prunes only entries older than its  *)
(* own stamp's cutoff, so every admission of the current window is still   *)
(* in localWindows, and it appends only below the limit.  This is the      *)
(* at-most-quota invariant of spec section 3 for the in-process path.      *)
(***************************************************************************)
LiveWindowBound ==
    \A i \in Instances :
        Cardinality({k \in AdmissionsAt(i, {"local"}) :
                        InWindow(log[k].stamp, clock)}) <= Limit

(***************************************************************************)
(* A request is denied only when Limit earlier admissions of the same      *)
(* backend lie inside the window that backend applies to its stamp: the    *)
(* prune of localCheck (t > cutoff) and of the script (score > now -       *)
(* window) never make a stale entry count against a client.                *)
(***************************************************************************)
NoFalseDenial ==
    \A k \in DOMAIN log :
        log[k].via \in {"local", "redis"} /\ ~log[k].allowed =>
            Cardinality({j \in 1..(k - 1) :
                /\ Admitted(j)
                /\ log[j].via = log[k].via
                /\ log[k].via = "local" => log[j].inst = log[k].inst
                /\ log[j].stamp > log[k].stamp - WindowOf(log[k].via)}) >= Limit

(***************************************************************************)
(* Spec 4.1 / 8: within any window of real time, the admissions of the key *)
(* through the shared store never exceed the quota.                        *)
(***************************************************************************)
StoreQuotaPerWindow ==
    \A t \in 0..clock :
        Cardinality({k \in DOMAIN log : Admitted(k) /\ log[k].via = "redis"
                                        /\ InWindow(log[k].at, t)}) <= Limit

(***************************************************************************)
(* Spec 4.1 and the comment "On Redis error fall through to in-process":   *)
(* when the store call fails, the instance still limits the key with its   *)
(* own accounting, so per instance the admissions made without the store   *)
(* stay within the quota in every window.                                  *)
(***************************************************************************)
FallbackQuotaPerWindow ==
    \A i \in Instances, t \in 0..clock :
        Cardinality({k \in AdmissionsAt(i, {"local", "open"}) :
                        InWindow(log[k].stamp, t)}) <= Limit

(***************************************************************************)
(* Spec 5: the in-process path never admits beyond the quota in any window *)
(* of real time, whatever the interleaving of concurrent requests.         *)
(***************************************************************************)
RealWindowBound ==
    \A i \in Instances, t \in 0..clock :
        Cardinality({k \in AdmissionsAt(i, {"local"}) :
                        InWindow(log[k].at, t)}) <= Limit
=============================================================================
