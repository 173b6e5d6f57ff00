----------------------------- MODULE BruteForce -----------------------------
(***************************************************************************)
(* The login lockout guard of internal/core/middleware/brute_force.go,     *)
(* driven by the Login handler of internal/api/v1/auth.go.                 *)
(*                                                                         *)
(* A login of identifier id by worker w of instance Home[w]:               *)
(*   Check         h.bf.Check: isLocked; 429 when locked;                  *)
(*   then the password is wrong (RecordFailure, 401) or right (Clear).     *)
(* Without Redis (rdb[i] = FALSE) each guard operation runs under g.mu and *)
(* is one step on the instance's map mem[i].  With Redis, every command is *)
(* its own network call and its own step: RecordFailure is INCR, EXPIRE,   *)
(* and at the threshold SET of the lock key and DEL of the counter; Clear  *)
(* is one DEL of both keys; isLocked is one GET.  Any call may fail (300   *)
(* ms timeout, Redis down): errors are ignored, INCR then yields 0.        *)
(*                                                                         *)
(* A deleted map entry and a fresh one behave alike (count 0, zero         *)
(* lockedUntil), so mem keeps an entry per identifier.  Redis keys carry   *)
(* an expiry time; NoExpiry marks a key without TTL, Absent a missing key. *)
(***************************************************************************)
EXTENDS Integers, FiniteSets

CONSTANTS
    Instances, Workers, Home,
    Ids,            \* account identifiers (emails)
    MaxAttempts,    \* bruteMaxAttempts
    LockTTL,        \* bruteLockoutTTL, in ticks
    RedisConfigured,
    MaxTime,        \* bound on the clock
    MaxLogins       \* bound on the number of login attempts

ASSUME Home \in [Workers -> Instances]
ASSUME MaxAttempts \in Nat \ {0} /\ LockTTL \in Nat \ {0}

Absent == -1
NoExpiry == -1

\* The scope of a guard's state: Redis, shared, or one instance's map.
Store == "redis"
Scopes == Instances \cup {Store}

VARIABLES
    clock,
    rdb,            \* rdb[i]: instance i holds a Redis client
    mem,            \* mem[i][id]: [count, until] of the in-process map
    rcount,         \* rcount[id]: [val, exp] of key brute_force:<id>:count
    rlock,          \* rlock[id]: [val, exp] of key brute_force:<id>:locked_until
    pc,             \* pc[w]: step of the login in progress
    who,            \* who[w]: identifier of the login in progress
    got,            \* got[w]: count returned by INCR
    logins,         \* number of login attempts started
    fails,          \* fails[s][id]: RecordFailure calls since the last Clear in scope s
    lockSets,       \* lockSets[s][id]: lock writes since the last Clear in scope s
    lockedGuesses,  \* lockedGuesses[i][id]: wrong passwords recorded in the map of
                    \* instance i while id was locked there, since the lock was set
    writeFailed,    \* history: some INCR, EXPIRE, SET or DEL has failed
    storeGuesses,   \* storeGuesses[id]: wrong passwords INCRed while Redis held
                    \* the lock of id, since the lock was last written
    getFailed       \* history: some GET of isLocked has failed

vars == <<clock, rdb, mem, rcount, rlock, pc, who, got, logins, fails, lockSets,
          lockedGuesses, writeFailed, storeGuesses, getFailed>>

Steps == {"idle", "verify", "expire", "set", "del"}

Key == [val : Int, exp : Int]

TypeOK ==
    /\ clock \in 0..MaxTime
    /\ rdb \in [Instances -> BOOLEAN]
    /\ mem \in [Instances -> [Ids -> [count : 0..(MaxAttempts - 1), until : Int]]]
    /\ rcount \in [Ids -> Key] /\ rlock \in [Ids -> Key]
    /\ pc \in [Workers -> Steps] /\ who \in [Workers -> Ids]
    /\ got \in [Workers -> Nat] /\ logins \in 0..MaxLogins
    /\ fails \in [Scopes -> [Ids -> Nat]] /\ lockSets \in [Scopes -> [Ids -> Nat]]
    /\ lockedGuesses \in [Instances -> [Ids -> Nat]]
    /\ writeFailed \in BOOLEAN /\ getFailed \in BOOLEAN
    /\ storeGuesses \in [Ids -> Nat]

NoKey == [val |-> Absent, exp |-> NoExpiry]

\* A Redis key is gone once its expiry time is reached.
Live(k) == k.val /= Absent /\ (k.exp = NoExpiry \/ clock < k.exp)

ValueOf(k) == IF Live(k) THEN k.val ELSE Absent

ScopeOf(w) == IF rdb[Home[w]] THEN Store ELSE Home[w]

Init ==
    /\ clock = 0
    /\ rdb \in IF RedisConfigured THEN [Instances -> BOOLEAN]
                                  ELSE {[i \in Instances |-> FALSE]}
    /\ mem = [i \in Instances |-> [id \in Ids |-> [count |-> 0, until |-> Absent]]]
    /\ rcount = [id \in Ids |-> NoKey]
    /\ rlock = [id \in Ids |-> NoKey]
    /\ pc = [w \in Workers |-> "idle"]
    /\ who \in [Workers -> Ids]
    /\ got = [w \in Workers |-> 0]
    /\ logins = 0
    /\ fails = [s \in Scopes |-> [id \in Ids |-> 0]]
    /\ lockSets = [s \in Scopes |-> [id \in Ids |-> 0]]
    /\ lockedGuesses = [i \in Instances |-> [id \in Ids |-> 0]]
    /\ writeFailed = FALSE /\ getFailed = FALSE
    /\ storeGuesses = [id \in Ids |-> 0]

Tick ==
    /\ clock < MaxTime
    /\ clock' = clock + 1
    /\ UNCHANGED <<rdb, mem, rcount, rlock, pc, who, got, logins, fails, lockSets, lockedGuesses, writeFailed, storeGuesses, getFailed>>

-----------------------------------------------------------------------------
(* isLocked: GET of the lock key (any error, redis.Nil included, is "not    *)
(* locked"), or the map entry under g.mu.                                   *)

RedisLocked(id) == ValueOf(rlock[id]) /= Absent /\ clock < ValueOf(rlock[id])

MemLocked(i, id) == clock < mem[i][id].until

\* Mutant: Check consults only Redis; the in-process map is not read.
CheckSkipsMem(w, id) ==
    /\ pc[w] = "idle"
    /\ logins < MaxLogins
    /\ logins' = logins + 1
    /\ who' = [who EXCEPT ![w] = id]
    /\ \E getOk \in BOOLEAN :
        /\ getFailed' = (getFailed \/ (rdb[Home[w]] /\ ~getOk))
        /\ LET locked == rdb[Home[w]] /\ getOk /\ RedisLocked(id)
           IN  pc' = [pc EXCEPT ![w] = IF locked THEN "idle" ELSE "verify"]
    /\ UNCHANGED <<clock, rdb, mem, rcount, rlock, got, fails, lockSets, lockedGuesses, writeFailed, storeGuesses>>

\* Mutant: isLocked compares the stored time the wrong way (now > ts).
CheckLockInverted(w, id) ==
    /\ pc[w] = "idle"
    /\ logins < MaxLogins
    /\ logins' = logins + 1
    /\ who' = [who EXCEPT ![w] = id]
    /\ \E getOk \in BOOLEAN :
        /\ getFailed' = (getFailed \/ (rdb[Home[w]] /\ ~getOk))
        /\ LET ts == ValueOf(rlock[id])
               locked == IF rdb[Home[w]] THEN getOk /\ ts /= Absent /\ clock > ts
                                         ELSE MemLocked(Home[w], id)
           IN  pc' = [pc EXCEPT ![w] = IF locked THEN "idle" ELSE "verify"]
    /\ UNCHANGED <<clock, rdb, mem, rcount, rlock, got, fails, lockSets, lockedGuesses, writeFailed, storeGuesses>>

\* Check of Login: the GET may fail, which reads as not locked.
Check(w, id) ==
    /\ pc[w] = "idle"
    /\ logins < MaxLogins
    /\ logins' = logins + 1
    /\ who' = [who EXCEPT ![w] = id]
    /\ \E getOk \in BOOLEAN :
        /\ getFailed' = (getFailed \/ (rdb[Home[w]] /\ ~getOk))
        /\ LET locked == IF rdb[Home[w]] THEN getOk /\ RedisLocked(id)
                                            ELSE MemLocked(Home[w], id)
           IN  pc' = [pc EXCEPT ![w] = IF locked THEN "idle" ELSE "verify"]
    /\ UNCHANGED <<clock, rdb, mem, rcount, rlock, got, fails, lockSets, lockedGuesses, writeFailed, storeGuesses>>

-----------------------------------------------------------------------------
(* Wrong password: h.bf.RecordFailure(req.Email).                          *)

\* The wrong password of a login that passed Check before the lock was set
\* is counted; setting a new lock starts the count again.
GuessesAfter(i, id, reached) ==
    [lockedGuesses EXCEPT ![i][id] = IF reached THEN 0
                                     ELSE IF MemLocked(i, id) THEN @ + 1 ELSE @]

\* Mutant: the threshold branch locks but forgets e.count = 0.
MemRecordFailureNoReset(w) ==
    LET i == Home[w]  id == who[w]  e == mem[i][id]
        reached == e.count + 1 >= MaxAttempts
    IN  /\ pc[w] = "verify"
        /\ ~rdb[i]
        /\ mem' = [mem EXCEPT ![i][id] =
                      [count |-> e.count + 1,
                       until |-> IF reached THEN clock + LockTTL ELSE e.until]]
        /\ fails' = [fails EXCEPT ![i][id] = @ + 1]
        /\ lockSets' = [lockSets EXCEPT ![i][id] = @ + IF reached THEN 1 ELSE 0]
        /\ lockedGuesses' = GuessesAfter(i, id, reached)
        /\ pc' = [pc EXCEPT ![w] = "idle"]
        /\ UNCHANGED <<clock, rdb, rcount, rlock, who, got, logins, writeFailed, storeGuesses, getFailed>>

\* Mutant: the threshold test compares before the increment (count >= max).
MemRecordFailureLate(w) ==
    LET i == Home[w]  id == who[w]  e == mem[i][id]
        reached == e.count >= MaxAttempts
    IN  /\ pc[w] = "verify"
        /\ ~rdb[i]
        /\ mem' = [mem EXCEPT ![i][id] =
                      IF reached THEN [count |-> 0, until |-> clock + LockTTL]
                                 ELSE [count |-> e.count + 1, until |-> e.until]]
        /\ fails' = [fails EXCEPT ![i][id] = @ + 1]
        /\ lockSets' = [lockSets EXCEPT ![i][id] = @ + IF reached THEN 1 ELSE 0]
        /\ lockedGuesses' = GuessesAfter(i, id, reached)
        /\ pc' = [pc EXCEPT ![w] = "idle"]
        /\ UNCHANGED <<clock, rdb, rcount, rlock, who, got, logins, writeFailed, storeGuesses, getFailed>>

\* In-process path: count++, and at the threshold lock and reset, under g.mu.
MemRecordFailure(w) ==
    LET i == Home[w]  id == who[w]  e == mem[i][id]
        reached == e.count + 1 >= MaxAttempts
    IN  /\ pc[w] = "verify"
        /\ ~rdb[i]
        /\ mem' = [mem EXCEPT ![i][id] =
                      IF reached THEN [count |-> 0, until |-> clock + LockTTL]
                                 ELSE [count |-> e.count + 1, until |-> e.until]]
        /\ fails' = [fails EXCEPT ![i][id] = @ + 1]
        /\ lockSets' = [lockSets EXCEPT ![i][id] = @ + IF reached THEN 1 ELSE 0]
        /\ lockedGuesses' = GuessesAfter(i, id, reached)
        /\ pc' = [pc EXCEPT ![w] = "idle"]
        /\ UNCHANGED <<clock, rdb, rcount, rlock, who, got, logins, writeFailed, storeGuesses, getFailed>>

\* INCR keyCount; on error the count is 0 (the error is discarded).
RedisIncr(w) ==
    LET id == who[w]  old == ValueOf(rcount[id])
        n == IF old = Absent THEN 1 ELSE old + 1
        keepExp == IF Live(rcount[id]) THEN rcount[id].exp ELSE NoExpiry
    IN  /\ pc[w] = "verify"
        /\ rdb[Home[w]]
        /\ \E ok \in BOOLEAN :
              /\ writeFailed' = (writeFailed \/ ~ok)
              /\ rcount' = IF ok THEN [rcount EXCEPT ![id] = [val |-> n, exp |-> keepExp]]
                                 ELSE rcount
              /\ got' = [got EXCEPT ![w] = IF ok THEN n ELSE 0]
        /\ fails' = [fails EXCEPT ![Store][id] = @ + 1]
        /\ storeGuesses' = [storeGuesses EXCEPT ![id] = IF RedisLocked(id) THEN @ + 1 ELSE @]
        /\ pc' = [pc EXCEPT ![w] = "expire"]
        /\ UNCHANGED <<clock, rdb, mem, rlock, who, logins, lockSets, lockedGuesses, getFailed>>

\* Mutant: the threshold test is off by one (count > bruteMaxAttempts).
RedisExpireOffByOne(w) ==
    LET id == who[w]
    IN  /\ pc[w] = "expire"
        /\ \E ok \in BOOLEAN :
              /\ rcount' = IF ok /\ Live(rcount[id])
                              THEN [rcount EXCEPT ![id].exp = clock + LockTTL]
                              ELSE rcount
              /\ writeFailed' = (writeFailed \/ ~ok)
        /\ pc' = [pc EXCEPT ![w] = IF got[w] > MaxAttempts THEN "set" ELSE "idle"]
        /\ UNCHANGED <<clock, rdb, mem, rlock, who, got, logins, fails, lockSets, lockedGuesses, storeGuesses, getFailed>>

\* EXPIRE keyCount bruteLockoutTTL; then, below the threshold, return.
RedisExpire(w) ==
    LET id == who[w]
    IN  /\ pc[w] = "expire"
        /\ \E ok \in BOOLEAN :
              /\ rcount' = IF ok /\ Live(rcount[id])
                              THEN [rcount EXCEPT ![id].exp = clock + LockTTL]
                              ELSE rcount
              /\ writeFailed' = (writeFailed \/ ~ok)
        /\ pc' = [pc EXCEPT ![w] = IF got[w] >= MaxAttempts THEN "set" ELSE "idle"]
        /\ UNCHANGED <<clock, rdb, mem, rlock, who, got, logins, fails, lockSets, lockedGuesses, storeGuesses, getFailed>>

\* SET keyLock (now + TTL) with TTL.
RedisSetLock(w) ==
    LET id == who[w]
    IN  /\ pc[w] = "set"
        /\ \E ok \in BOOLEAN :
              /\ writeFailed' = (writeFailed \/ ~ok)
              /\ rlock' = IF ok THEN [rlock EXCEPT ![id] =
                                        [val |-> clock + LockTTL, exp |-> clock + LockTTL]]
                                ELSE rlock
              /\ lockSets' = IF ok THEN [lockSets EXCEPT ![Store][id] = @ + 1]
                                   ELSE lockSets
              /\ storeGuesses' = IF ok THEN [storeGuesses EXCEPT ![id] = 0]
                                       ELSE storeGuesses
        /\ pc' = [pc EXCEPT ![w] = "del"]
        /\ UNCHANGED <<clock, rdb, mem, rcount, who, got, logins, fails, lockedGuesses, getFailed>>

\* DEL keyCount.
RedisDelCount(w) ==
    LET id == who[w]
    IN  /\ pc[w] = "del"
        /\ \E ok \in BOOLEAN :
              /\ rcount' = IF ok THEN [rcount EXCEPT ![id] = NoKey] ELSE rcount
              /\ writeFailed' = (writeFailed \/ ~ok)
        /\ pc' = [pc EXCEPT ![w] = "idle"]
        /\ UNCHANGED <<clock, rdb, mem, rlock, who, got, logins, fails, lockSets, lockedGuesses, storeGuesses, getFailed>>

-----------------------------------------------------------------------------
(* Right password (active user): h.bf.Clear(req.Email), then the tokens.  *)

\* Mutant: Clear resets the failure count but leaves the lock in place.
ClearKeepsLock(w) ==
    LET i == Home[w]  id == who[w]  s == ScopeOf(w)
    IN  /\ pc[w] = "verify"
        /\ \E ok \in BOOLEAN :
              /\ writeFailed' = (writeFailed \/ ~ok)
              /\ rdb[i] \/ ok
              /\ IF rdb[i]
                    THEN /\ rcount' = IF ok THEN [rcount EXCEPT ![id] = NoKey] ELSE rcount
                         /\ UNCHANGED <<mem, rlock>>
                    ELSE /\ mem' = [mem EXCEPT ![i][id].count = 0]
                         /\ UNCHANGED <<rcount, rlock>>
              /\ fails' = IF ok THEN [fails EXCEPT ![s][id] = 0] ELSE fails
              /\ lockSets' = IF ok THEN [lockSets EXCEPT ![s][id] = 0] ELSE lockSets
        /\ pc' = [pc EXCEPT ![w] = "idle"]
        /\ UNCHANGED <<clock, rdb, who, got, logins, lockedGuesses, storeGuesses, getFailed>>

Clear(w) ==
    LET i == Home[w]  id == who[w]  s == ScopeOf(w)
    IN  /\ pc[w] = "verify"
        /\ \E ok \in BOOLEAN :
              /\ writeFailed' = (writeFailed \/ ~ok)
              \* the in-process delete cannot fail
              /\ rdb[i] \/ ok
              /\ IF rdb[i]
                    THEN /\ rcount' = IF ok THEN [rcount EXCEPT ![id] = NoKey] ELSE rcount
                         /\ rlock' = IF ok THEN [rlock EXCEPT ![id] = NoKey] ELSE rlock
                         /\ UNCHANGED mem
                    ELSE /\ mem' = [mem EXCEPT ![i][id] = [count |-> 0, until |-> Absent]]
                         /\ UNCHANGED <<rcount, rlock>>
              /\ fails' = IF ok THEN [fails EXCEPT ![s][id] = 0] ELSE fails
              /\ lockSets' = IF ok THEN [lockSets EXCEPT ![s][id] = 0] ELSE lockSets
        /\ pc' = [pc EXCEPT ![w] = "idle"]
        /\ UNCHANGED <<clock, rdb, who, got, logins, lockedGuesses, storeGuesses, getFailed>>

Next ==
    \/ Tick
    \/ \E w \in Workers, id \in Ids : Check(w, id)
    \/ \E w \in Workers :
          \/ MemRecordFailure(w) \/ RedisIncr(w) \/ RedisExpire(w)
          \/ RedisSetLock(w) \/ RedisDelCount(w) \/ Clear(w)

\* A login in progress is a goroutine the scheduler keeps running.
Fairness ==
    \A w \in Workers :
        WF_vars(MemRecordFailure(w) \/ RedisIncr(w) \/ RedisExpire(w)
                \/ RedisSetLock(w) \/ RedisDelCount(w) \/ Clear(w))

Spec == Init /\ [][Next]_vars /\ Fairness

-----------------------------------------------------------------------------
\* What isLocked would answer now in scope s, with no failing call.
LockedIn(s, id) ==
    IF s = Store THEN RedisLocked(id) ELSE MemLocked(s, id)

\* Locked in scope s only after MaxAttempts failures since the last Clear.
LockEarnedIn(s) ==
    \A id \in Ids : LockedIn(s, id) => fails[s][id] >= MaxAttempts

(***************************************************************************)
(* A lock is earned: whenever an identifier reads as locked in an          *)
(* instance's map, at least MaxAttempts failures were recorded there since *)
(* the last Clear.  A successful login must leave the account unlocked     *)
(* (spec 4.2, 8), whatever logins of other goroutines are in flight.       *)
(***************************************************************************)
LockJustified == \A i \in Instances : ~rdb[i] => LockEarnedIn(i)

(***************************************************************************)
(* The same for the keys in Redis, shared by the instances holding a      *)
(* client: a Clear must not be undone by a RecordFailure in flight.        *)
(***************************************************************************)
StoreLockJustified == LockEarnedIn(Store)

(***************************************************************************)
(* In-process path: concurrent RecordFailure calls serialize, so the       *)
(* counter is the number of failures since the last lock or Clear, and the *)
(* threshold is crossed exactly once per MaxAttempts failures (spec 4.2).  *)
(***************************************************************************)
ThresholdExact ==
    \A i \in Instances, id \in Ids :
        ~rdb[i] =>
            /\ mem[i][id].count = fails[i][id] % MaxAttempts
            /\ lockSets[i][id] = fails[i][id] \div MaxAttempts

(***************************************************************************)
(* Redis path: a counter at the threshold is always one a failing login   *)
(* still has to lock and DEL, so once the lock is out no identifier keeps  *)
(* a full counter ("a freshly-unlocked identifier starts from zero", spec  *)
(* 4.2).  The DEL of brute_force.go:73 also deletes the increments of      *)
(* concurrent failures made since the threshold INCR; each of those INCRs  *)
(* returned a count at or above the threshold, so its login sets the lock  *)
(* and DELs the counter itself.  This holds while every write to Redis     *)
(* succeeds: a failed DEL (or EXPIRE) leaves the full counter behind.      *)
(***************************************************************************)
StoreCountResets ==
    ~writeFailed =>
        \A id \in Ids :
            ValueOf(rcount[id]) >= MaxAttempts =>
                \E w \in Workers :
                    /\ who[w] = id /\ got[w] >= MaxAttempts
                    /\ pc[w] \in {"expire", "set", "del"}

\* The map of instance i seen as the guard state of spec 4.2.
MemGuard(i) == INSTANCE LockoutGuard
                   WITH now <- clock,
                        failures <- [id \in Ids |-> mem[i][id].count],
                        lockedUntil <- [id \in Ids |-> mem[i][id].until]

(***************************************************************************)
(* The in-process guard implements the contract of spec 4.2: every change *)
(* of an instance's map made by RecordFailure and Clear of concurrent      *)
(* logins, each under g.mu, is one recordFailure or clear of the abstract  *)
(* guard (counter reset at the threshold, lock for LockTTL, clear removes  *)
(* both), and Check never changes it.  This is the conjunction of         *)
(* MemGuard(i)!Spec over the instances, written as one [][...]_vars.       *)
(***************************************************************************)
MemGuardRefinesSpec ==
    /\ \A i \in Instances : MemGuard(i)!Init
    /\ [][\A i \in Instances : MemGuard(i)!Next \/ UNCHANGED MemGuard(i)!vars]_vars

(***************************************************************************)
(* A lock stops the guessing (spec 4.2: check blocks a locked identifier  *)
(* before the password is tried).  Check and RecordFailure are separate   *)
(* calls of Login, so a login that passed Check before the lock was set    *)
(* still has its password tried: on the in-process path at most one wrong  *)
(* password per other concurrent login is recorded while the lock holds,  *)
(* and no new login gets past Check.                                      *)
(***************************************************************************)
LockStopsGuesses ==
    \A i \in Instances, id \in Ids :
        ~rdb[i] => lockedGuesses[i][id] <= Cardinality(Workers) - 1

(***************************************************************************)
(* The same on the Redis path, where isLocked is one GET: while every GET  *)
(* answers, the wrong passwords INCRed while Redis holds the lock are those *)
(* of logins that passed Check before the SET, at most one per other       *)
(* concurrent login.  A GET error or timeout reads as "not locked"         *)
(* (brute_force.go:108, the fail-open of spec 4.2) and is the only way a   *)
(* new login gets its password tried on a locked account.                  *)
(***************************************************************************)
StoreLockStopsGuesses ==
    ~getFailed => \A id \in Ids : storeGuesses[id] <= Cardinality(Workers) - 1
=============================================================================
