---------------------------- MODULE RateLimiter ----------------------------
(***************************************************************************)
(* The rate limiter of the ingestion handlers: a map from client address   *)
(* to token bucket under a read-write lock, buckets with a lock of their   *)
(* own, and a goroutine that deletes the buckets nobody uses.              *)
(*                                                                         *)
(* Allow gives the lock of the map back between looking a bucket up and    *)
(* using it, so a call may be left with a bucket that is no longer in the  *)
(* map; and cleanup gives the lock of a bucket back between finding it     *)
(* stale and deleting it.                                                  *)
(*                                                                         *)
(* Tokens are counted in the units that one Tick refills, a token being    *)
(* Cost units, so that fractions of tokens accumulate as they do in the    *)
(* code.  There is no clock: a bucket has an age, the time since its       *)
(* lastRefill, which stops counting when it is stale.                      *)
(***************************************************************************)
EXTENDS Integers, FiniteSets

CONSTANTS Keys,        \* client addresses
          Slots,       \* calls of Allow in progress
          Objects,     \* token buckets, used again when nothing refers to them
          Capacity,    \* of a bucket in tokens; 200 in the code
          Cost,        \* units of a token; the code refills 100 tokens a second
          StaleAfter,  \* ticks; 10 minutes in the code
          Null

ASSUME SizesAssumption == {Capacity, Cost, StaleAfter} \subseteq Nat \ {0}
ASSUME NullAssumption == Null \notin Keys \cup Objects

\* There is memory for one more bucket when a call needs it: a bucket is in the
\* map or held by a call, and the call that needs one accounts for neither.
ASSUME ObjectsAssumption ==
  /\ IsFiniteSet(Keys) /\ IsFiniteSet(Slots) /\ IsFiniteSet(Objects)
  /\ Cardinality(Objects) >= Cardinality(Keys) + Cardinality(Slots) - 1

Full == Capacity * Cost

\* By the time a bucket is stale it has refilled, and also what the calls in
\* progress may have taken beyond it: 60000 tokens refill in 10 minutes.
ASSUME StaleAssumption == StaleAfter >= Full + 2 * Cost * Cardinality(Slots)

VARIABLES
  buckets,   \* the map
  object,    \* the token buckets
  call,      \* the calls of Allow
  cleaner,   \* cleanup: where it is, the keys it has yet to visit, the key it
             \* is about to delete, the buckets its cutoff condemns
  budget,    \* history: a bucket of each key that is never deleted
  strays     \* history: the tokens each key got from buckets that were being
             \* deleted, since its budget was last full

vars == <<buckets, object, call, cleaner, budget, strays>>

AtMostFull(n) == IF n < Full THEN n ELSE Full

\* newTokenBucket.
NewTokenBucket == [tokens |-> Full, age |-> 0]

\* The garbage collector keeps what is referred to; what is not is used again.
Unused == [tokens |-> 0, age |-> 0]
InUse(o, map, calls) == (\E k \in Keys : map[k] = o) \/ (\E s \in Slots : calls[s].bucket = o)
Referenced(o) == InUse(o, buckets, call)

-----------------------------------------------------------------------------
(* RateLimiter.Allow.                                                      *)

IdleCall == [pc |-> "idle", key |-> Null, bucket |-> Null]
MapUnlocked == cleaner.pc # "locked"

Begin(s, k) ==
  /\ call[s].pc = "idle"
  /\ call' = [call EXCEPT ![s] = [pc |-> "Find", key |-> k, bucket |-> Null]]
  /\ UNCHANGED <<buckets, object, cleaner, budget, strays>>

\* The lookup under the read lock.
Find(s) ==
  LET o == buckets[call[s].key] IN
  /\ call[s].pc = "Find"
  /\ MapUnlocked
  /\ call' = [call EXCEPT ![s].pc = IF o = Null THEN "Create" ELSE "Take", ![s].bucket = o]
  /\ UNCHANGED <<buckets, object, cleaner, budget, strays>>

\* A new bucket is put into the map.
Insert(s) ==
  LET o == CHOOSE unused \in Objects : ~Referenced(unused) IN
  /\ buckets' = [buckets EXCEPT ![call[s].key] = o]
  /\ object' = [object EXCEPT ![o] = NewTokenBucket]
  /\ call' = [call EXCEPT ![s].pc = "Take", ![s].bucket = o]

\* No second look at the map.
CreateUnchecked(s) ==
  /\ call[s].pc = "Create"
  /\ MapUnlocked
  /\ Insert(s)
  /\ UNCHANGED <<cleaner, budget, strays>>

\* Under the write lock the map is looked at again.
Create(s) ==
  LET k == call[s].key IN
  /\ call[s].pc = "Create"
  /\ MapUnlocked
  /\ \/ buckets[k] = Null /\ Insert(s)
     \/ /\ buckets[k] # Null
        /\ call' = [call EXCEPT ![s].pc = "Take", ![s].bucket = buckets[k]]
        /\ UNCHANGED <<buckets, object>>
  /\ UNCHANGED <<cleaner, budget, strays>>

\* A bucket that refills beyond its capacity, and one that forgets what it had.
AvailableUncapped(o) == object[o].tokens + object[o].age
AvailableReset(o) == AtMostFull(object[o].age)

\* The tokens of o now.
Available(o) == AtMostFull(object[o].tokens + object[o].age)

\* The bucket a call works on is deleted or about to be.
Stray(s) == LET k == call[s].key IN buckets[k] # call[s].bucket \/ cleaner.doomed = k

\* tokenBucket.allow, under the lock of the bucket; then Allow returns.
Take(s) ==
  LET k == call[s].key
      o == call[s].bucket
      allowed == Available(o) >= Cost IN
  /\ call[s].pc = "Take"
  /\ call' = [call EXCEPT ![s] = IdleCall]
  /\ UNCHANGED buckets
  /\ object' = [object EXCEPT ![o] =
       IF ~InUse(o, buckets', call') THEN Unused
       ELSE [tokens |-> Available(o) - (IF allowed THEN Cost ELSE 0), age |-> 0]]
  /\ cleaner' = [cleaner EXCEPT !.condemned = @ \ {o}]
  /\ budget' = IF allowed THEN [budget EXCEPT ![k] = @ - Cost] ELSE budget
  /\ strays' = IF allowed /\ Stray(s) THEN [strays EXCEPT ![k] = @ + 1] ELSE strays

-----------------------------------------------------------------------------
(* RateLimiter.cleanup.  A bucket is older than the cutoff if it was stale *)
(* when the cutoff was computed and has not been used since.               *)

Resting == [pc |-> "rest", todo |-> {}, doomed |-> Null, condemned |-> {}]
InMap == {k \in Keys : buckets[k] # Null}

\* A cutoff that was computed when the process started: nothing is as old.
CleanupStartOnce ==
  /\ cleaner.pc = "rest"
  /\ InMap # {}
  /\ cleaner' = [cleaner EXCEPT !.pc = "wait"]
  /\ UNCHANGED <<buckets, object, call, budget, strays>>

\* The ticker fires and the cutoff is computed, outside the lock.  (With an
\* empty map nothing would come of it.)
CleanupStart ==
  /\ cleaner.pc = "rest"
  /\ InMap # {}
  /\ cleaner' = [cleaner EXCEPT !.pc = "wait",
                   !.condemned = {o \in Objects : Referenced(o) /\ object[o].age > StaleAfter}]
  /\ UNCHANGED <<buckets, object, call, budget, strays>>

CleanupLock ==
  /\ cleaner.pc = "wait"
  /\ cleaner' = [cleaner EXCEPT !.pc = "locked", !.todo = InMap]
  /\ UNCHANGED <<buckets, object, call, budget, strays>>

\* A bucket is looked at under its own lock.
CleanupCheck(k) ==
  /\ cleaner.doomed = Null
  /\ k \in cleaner.todo
  /\ cleaner' = [cleaner EXCEPT !.todo = @ \ {k},
                   !.doomed = IF buckets[k] \in cleaner.condemned THEN k ELSE Null]
  /\ UNCHANGED <<buckets, object, call, budget, strays>>

CleanupDelete ==
  /\ cleaner.doomed # Null
  /\ buckets' = [buckets EXCEPT ![cleaner.doomed] = Null]
  /\ UNCHANGED <<call, budget, strays>>
  /\ LET o == buckets[cleaner.doomed] IN
     /\ object' = IF InUse(o, buckets', call') THEN object ELSE [object EXCEPT ![o] = Unused]
     /\ cleaner' = [cleaner EXCEPT !.doomed = Null, !.condemned = @ \ {o}]

\* A way round the Unlock.
CleanupUnlockMissed ==
  /\ cleaner.pc = "locked" /\ cleaner.todo = {} /\ cleaner.doomed = Null
  /\ UNCHANGED vars

CleanupUnlock ==
  /\ cleaner.pc = "locked" /\ cleaner.todo = {} /\ cleaner.doomed = Null
  /\ cleaner' = Resting
  /\ UNCHANGED <<buckets, object, call, budget, strays>>

Cleanup == \/ CleanupStart \/ CleanupLock \/ CleanupDelete \/ CleanupUnlock
           \/ \E k \in Keys : CleanupCheck(k)

-----------------------------------------------------------------------------
\* Time passes.
Tick ==
  /\ object' = [o \in Objects |->
                  [object[o] EXCEPT !.age = IF Referenced(o) /\ @ <= StaleAfter THEN @ + 1 ELSE @]]
  /\ budget' = [k \in Keys |-> AtMostFull(budget[k] + 1)]
  /\ strays' = [k \in Keys |-> IF budget'[k] = Full THEN 0 ELSE strays[k]]
  /\ UNCHANGED <<buckets, call, cleaner>>

Init ==
  /\ buckets = [k \in Keys |-> Null]
  /\ object = [o \in Objects |-> Unused]
  /\ call = [s \in Slots |-> IdleCall]
  /\ cleaner = Resting
  /\ budget = [k \in Keys |-> Full]
  /\ strays = [k \in Keys |-> 0]

Allow(s) == Find(s) \/ Create(s) \/ Take(s)

Next ==
  \/ \E s \in Slots : Allow(s) \/ \E k \in Keys : Begin(s, k)
  \/ Cleanup
  \/ Tick

Spec == Init /\ [][Next]_vars

\* Locks are granted in the end, time passes and the ticker fires.  Nothing
\* forces a client to call.
FairSpec ==
  /\ Spec
  /\ \A s \in Slots : SF_vars(Allow(s))
  /\ WF_vars(Cleanup)
  /\ WF_vars(Tick)

-----------------------------------------------------------------------------
(* Properties.                                                             *)

\* The variables have their types; a bucket never holds more than its capacity
\* and never less than nothing.
TypeOK ==
  /\ buckets \in [Keys -> Objects \cup {Null}]
  /\ object \in [Objects -> [tokens : 0 .. Full, age : 0 .. StaleAfter + 1]]
  /\ call \in [Slots -> [pc : {"idle", "Find", "Create", "Take"},
                         key : Keys \cup {Null}, bucket : Objects \cup {Null}]]
  /\ cleaner \in [pc : {"rest", "wait", "locked"}, todo : SUBSET Keys,
                  doomed : Keys \cup {Null}, condemned : SUBSET Objects]
  /\ budget \in [Keys -> Int]
  /\ strays \in [Keys -> Nat]

\* "max burst" and "sustained requests/second per key": a key never gets more
\* than its capacity and what has refilled since, although its bucket is
\* deleted and created anew; only the calls that cleanup caught between looking
\* their bucket up and using it come on top, with one token each; two deletions
\* at most count before the budget is full again.
RateBounded ==
  \A k \in Keys :
    /\ budget[k] + Cost * strays[k] >= 0
    /\ strays[k] <= 2 * Cardinality(Slots)

\* Nobody is refused who has a token coming, whatever became of his bucket.
RefusalJustified ==
  [][\A s \in Slots : Take(s) /\ budget' = budget => budget[call[s].key] < Cost]_vars

\* "preventing unbounded memory growth": the bucket of a client that does not
\* come back is deleted.
IdleBucketDeleted ==
  \A k \in Keys :
    <>[](\A s \in Slots : call[s].key # k) => <>[](buckets[k] = Null)

\* Calls and cleanup do not block each other for good.
EveryCallReturns == \A s \in Slots : call[s].pc = "Find" ~> call[s].pc = "idle"
=============================================================================
