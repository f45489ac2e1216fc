------------------------------- MODULE Cache ----------------------------------
(* app/core/cache.py: values kept in Redis for some time, and in the memory   *)
(* of the process when Redis does not answer. A call that fails may still     *)
(* have been carried out. Nothing moves a value from the one to the other.    *)
EXTENDS Integers, FiniteSets, Sequences, TLC

CONSTANTS
    None,
    Process,        \* the processes that serve requests
    SessionToken,   \* of the guests: the keys of carts
    MenuTTL,        \* MENU_CACHE_TTL, in ticks
    CartTTL,        \* CART_TTL_SECONDS, in ticks
    MaxTime,        \* bound on the clock
    MaxFaults       \* bound on the calls Redis does not answer

ASSUME CacheAssumption ==
    /\ None \notin Process \cup SessionToken
    /\ {"menu:categories", "menu:public"} \cap SessionToken = {}
    /\ MenuTTL \in Nat \ {0} /\ CartTTL \in Nat \ {0}
    /\ MaxTime \in Nat /\ MaxFaults \in Nat

VARIABLES
    redis,    \* what Redis keeps: a value and the time it ends, or None
    memory,   \* _in_memory_cache of each process
    faults,   \* how many calls Redis did not answer
    now

cacheVars == <<redis, memory, faults, now>>

(* The keys of one merchant's listings, and a key for each cart.              *)
Key == {"menu:categories", "menu:public"} \cup SessionToken

CacheInit ==
    /\ redis = [k \in Key |-> None]
    /\ memory = [p \in Process |-> [k \in Key |-> None]]
    /\ faults = 0
    /\ now = 0

(* How a call to Redis ends: "done", or it raises an exception, before        *)
(* ("lost") or after Redis did what it was asked ("late").                    *)
Outcome == {"done"} \cup (IF faults < MaxFaults THEN {"lost", "late"} ELSE {})
Counted(how) == faults' = IF how = "done" THEN faults ELSE faults + 1

Kept == [k \in Key |-> IF redis[k] # None /\ now < redis[k].until THEN redis[k].value ELSE None]
Remembered(p) ==
    [k \in Key |-> IF memory[p][k] # None /\ now <= memory[p][k].until
                     THEN memory[p][k].value ELSE None]

(* What cache_get returns in process p.                                       *)
Found(p, key, how) == IF how = "done" THEN Kept[key] ELSE Remembered(p)[key]

CacheGet(how) == Counted(how) /\ UNCHANGED <<redis, memory, now>>

(* Mutant: the value is set without the time it is kept.                      *)
Timed(value, ttl) == [value |-> value, until |-> now + ttl]

SetForever(p, key, value, ttl, how) ==
    /\ redis' = IF how = "lost" THEN redis ELSE [redis EXCEPT ![key] = Timed(value, MaxTime + ttl)]
    /\ memory' = IF how = "done" THEN memory
                 ELSE [memory EXCEPT ![p][key] = Timed(value, ttl)]
    /\ Counted(how)
    /\ UNCHANGED now

CacheSet(p, key, value, ttl, how) ==
    /\ redis' = IF how = "lost" THEN redis ELSE [redis EXCEPT ![key] = Timed(value, ttl)]
    /\ memory' = IF how = "done" THEN memory
                 ELSE [memory EXCEPT ![p][key] = Timed(value, ttl)]
    /\ Counted(how)
    /\ UNCHANGED now

CacheDelete(p, key, how) ==
    /\ redis' = IF how = "lost" THEN redis ELSE [redis EXCEPT ![key] = None]
    /\ memory' = IF how = "done" THEN memory ELSE [memory EXCEPT ![p][key] = None]
    /\ Counted(how)
    /\ UNCHANGED now

(* The pattern "menu:*:<merchant>" names the listing of categories and not    *)
(* the public menu, whose key ends with the slug; in memory it is compared    *)
(* as it is written and names no key at all.                                  *)
CacheDeletePattern(how) ==
    /\ redis' = IF how = "lost" THEN redis ELSE [redis EXCEPT !["menu:categories"] = None]
    /\ Counted(how)
    /\ UNCHANGED <<memory, now>>

(* Time passes; what has ended is forgotten.                                  *)
Elapse ==
    /\ now < MaxTime
    /\ now' = now + 1
    /\ redis' = [k \in Key |-> IF redis[k] # None /\ now + 1 < redis[k].until THEN redis[k] ELSE None]
    /\ memory' = [p \in Process |->
                    [k \in Key |-> IF memory[p][k] # None /\ now + 1 <= memory[p][k].until
                                     THEN memory[p][k] ELSE None]]
    /\ UNCHANGED faults
================================================================================
