------------------------- MODULE RateLimiterProofs -------------------------
(***************************************************************************)
(* Proofs about module RateLimiter, for any clients, calls in progress,    *)
(* capacity and rate.                                                      *)
(*                                                                         *)
(* The buckets of a client are compared with a budget that is never        *)
(* deleted.  None of them has less than the budget (Generous), so a        *)
(* refusal is justified; the one in the map has at most the credit, which  *)
(* is the budget with every stray token given back (Covered).  That few    *)
(* tokens go astray is a matter of time: a bucket that is stale has been   *)
(* idle longer than the budget needs to fill up, so at most one deletion   *)
(* is counted when the next one comes (Counted).                           *)
(***************************************************************************)
EXTENDS RateLimiter, FiniteSetTheorems, TLAPS

N == Cardinality(Slots)

-----------------------------------------------------------------------------
(* The inductive invariant.                                                *)

Buckets == [tokens : 0 .. Full, age : 0 .. StaleAfter + 1]
PCs == {"idle", "Find", "Create", "Take"}
CallRecords == [pc : PCs, key : Keys \cup {Null}, bucket : Objects \cup {Null}]
CleanerRecords == [pc : {"rest", "wait", "locked"}, todo : SUBSET Keys,
                   doomed : Keys \cup {Null}, condemned : SUBSET Objects]

Types ==
  /\ buckets \in [Keys -> Objects \cup {Null}]
  /\ object \in [Objects -> Buckets]
  /\ call \in [Slots -> CallRecords]
  /\ cleaner \in CleanerRecords
  /\ budget \in [Keys -> Int]
  /\ strays \in [Keys -> Nat]

\* What a call refers to depends on how far it is.
CallOK(s) ==
  /\ call[s].pc # "idle" => call[s].key \in Keys
  /\ call[s].pc = "Take" <=> call[s].bucket # Null

Calls == \A s \in Slots : CallOK(s)

\* Cleanup has keys to visit or a key to delete only while it has the lock of
\* the map, and the key it is about to delete is in the map.
Locked ==
  /\ cleaner.todo # {} \/ cleaner.doomed # Null => cleaner.pc = "locked"
  /\ cleaner.doomed # Null => buckets[cleaner.doomed] # Null

\* A condemned bucket is still in use and has not been used since.
Condemned == \A o \in cleaner.condemned : Referenced(o) /\ object[o].age > StaleAfter

\* k has o in the map or in the hands of a call.
Holds(k, o) == buckets[k] = o \/ \E s \in Slots : call[s].key = k /\ call[s].bucket = o

\* A bucket serves one client.
OneOwner == \A o \in Objects, k, l \in Keys : Holds(k, o) /\ Holds(l, o) => k = l

\* No bucket of a client has less for him than the one that is never deleted.
Generous == \A k \in Keys, o \in Objects : Holds(k, o) => budget[k] <= Available(o)

\* What k may still get if each stray token is counted as a gift.
Credit(k) == budget[k] + Cost * strays[k]

\* The calls of k that will take from a bucket that is deleted or about to be.
StrayCalls(k) == {s \in Slots : call[s].pc = "Take" /\ call[s].key = k /\ Stray(s)}
Gifts(k) == strays[k] + Cardinality(StrayCalls(k))

\* The bucket of k that cleanup is going to leave alone for now.
Settled(k) == buckets[k] # Null /\ cleaner.doomed # k

\* What the bucket of k has is covered by his credit, and so is a full bucket
\* when a new one may be created.
Covered(k) ==
  /\ budget[k] <= Full
  /\ buckets[k] # Null => Available(buckets[k]) <= Credit(k)
  /\ ~Settled(k) => Full <= Credit(k)

\* Two deletions at most: as long as more than one has been counted, the credit
\* of k has grown at least as long as his bucket was idle; when the bucket is
\* stale the budget has been full since.
Counted(k) ==
  /\ Gifts(k) <= 2 * N
  /\ Settled(k) => Gifts(k) <= N \/ object[buckets[k]].age <= Credit(k)

Accounts == \A k \in Keys : Covered(k) /\ Counted(k)

IInv == Types /\ Calls /\ Locked /\ Condemned /\ OneOwner /\ Generous /\ Accounts

-----------------------------------------------------------------------------
(* Numbers.                                                                *)

LEMMA Sizes ==
  /\ Cost \in Nat \ {0} /\ StaleAfter \in Nat /\ Full \in Nat /\ N \in Nat
  /\ StaleAfter >= Full + Cost * (2 * N)
<1>1. Cost \in Nat \ {0} /\ StaleAfter \in Nat /\ Capacity \in Nat
  BY SizesAssumption
<1>2. Full \in Nat
  BY <1>1 DEF Full
<1>3. N \in Nat
  BY ObjectsAssumption, FS_CardinalityType DEF N
<1>4. 2 * Cost * N = Cost * (2 * N)
  BY <1>1, <1>3
<1> QED
  BY <1>1, <1>2, <1>3, <1>4, StaleAssumption DEF N

LEMMA NextMultiple == ASSUME NEW n \in Nat PROVE Cost * (n + 1) = Cost * n + Cost
  BY Sizes

LEMMA MultipleAtMost ==
  ASSUME NEW m \in Nat, NEW n \in Nat, m <= n
  PROVE  Cost * m \in Nat /\ Cost * n \in Nat /\ Cost * m <= Cost * n
<1>1. PICK d \in Nat : n = m + d
  <2>1. n - m \in Nat /\ n = m + (n - m)
    OBVIOUS
  <2> QED
    BY <2>1
<1>2. Cost * n = Cost * m + Cost * d /\ Cost * d \in Nat /\ Cost * m \in Nat
  BY <1>1, Sizes
<1> QED
  BY <1>2

\* A bucket has between nothing and its capacity, and is full when it is stale.
LEMMA AvailableRange ==
  ASSUME object \in [Objects -> Buckets], NEW o \in Objects
  PROVE  /\ Available(o) \in 0 .. Full
         /\ object[o].age > StaleAfter => Available(o) = Full
<1>1. object[o].tokens \in 0 .. Full /\ object[o].age \in 0 .. StaleAfter + 1
  BY DEF Buckets
<1>2. StaleAfter >= Full
  BY Sizes, MultipleAtMost
<1> QED
  BY <1>1, <1>2, Sizes DEF Available, AtMostFull

LEMMA CreditType ==
  ASSUME Types, NEW k \in Keys
  PROVE  budget[k] \in Int /\ strays[k] \in Nat /\ Credit(k) \in Int
  BY Sizes DEF Types, Credit

LEMMA StrayCallsFinite ==
  ASSUME NEW k
  PROVE  /\ IsFiniteSet(StrayCalls(k)) /\ Cardinality(StrayCalls(k)) \in Nat
         /\ Cardinality(StrayCalls(k)) <= N
<1>1. StrayCalls(k) \subseteq Slots
  BY DEF StrayCalls
<1> QED
  BY <1>1, ObjectsAssumption, FS_Subset, FS_CardinalityType DEF N

-----------------------------------------------------------------------------
(* Steps that leave the buckets alone.                                     *)

\* Fewer stray calls, the same account.
LEMMA AccountKept ==
  ASSUME IInv, NEW k \in Keys, buckets'[k] = buckets[k], budget'[k] = budget[k],
         strays'[k] = strays[k], buckets[k] # Null => object'[buckets[k]] = object[buckets[k]],
         cleaner'.doomed = k <=> cleaner.doomed = k,
         StrayCalls(k)' \subseteq StrayCalls(k)
  PROVE  Covered(k)' /\ Counted(k)'
<1>1. Covered(k) /\ Counted(k) /\ strays[k] \in Nat
  BY DEF IInv, Accounts, Types
<1>2. Covered(k)'
  BY <1>1 DEF Covered, Settled, Credit, Available
<1>3. Cardinality(StrayCalls(k)') <= Cardinality(StrayCalls(k)) /\ Cardinality(StrayCalls(k)') \in Nat
  BY StrayCallsFinite, FS_Subset, FS_CardinalityType
<1>4. Gifts(k)' <= Gifts(k) /\ Gifts(k)' \in Nat /\ Gifts(k) \in Nat
  BY <1>1, <1>3, StrayCallsFinite DEF Gifts
<1>5. Credit(k)' = Credit(k) /\ (Settled(k)' <=> Settled(k))
  BY DEF Credit, Settled
<1>6. Counted(k)'
  BY <1>1, <1>4, <1>5, Sizes DEF Counted, Settled
<1> QED
  BY <1>2, <1>6

LEMMA AccountsKept ==
  ASSUME IInv, UNCHANGED <<buckets, object, budget, strays>>, cleaner'.doomed = cleaner.doomed,
         \A k \in Keys : StrayCalls(k)' \subseteq StrayCalls(k)
  PROVE  Accounts'
  BY AccountKept DEF Accounts

\* Nobody gets hold of a bucket, and the ones that are held stay as they are.
LEMMA HoldersKept ==
  ASSUME IInv, UNCHANGED budget,
         \A k \in Keys, o \in Objects : Holds(k, o)' => Holds(k, o) /\ object'[o] = object[o]
  PROVE  OneOwner' /\ Generous'
<1>1. OneOwner'
  BY DEF IInv, OneOwner
<1>2. Generous'
  BY DEF IInv, Generous, Available
<1> QED
  BY <1>1, <1>2

\* A call comes to have a bucket from the map, or none.
LEMMA CallStep ==
  ASSUME IInv, NEW s \in Slots, NEW c \in CallRecords,
         call' = [call EXCEPT ![s] = c], call[s].bucket = Null,
         c.key \in Keys, c.pc # "idle", c.pc = "Take" <=> c.bucket # Null,
         c.bucket \in {Null, buckets[c.key]},
         c.pc = "Take" => MapUnlocked,
         UNCHANGED <<buckets, object, cleaner, budget, strays>>
  PROVE  IInv'
<1>1. call'[s] = c /\ \A t \in Slots \ {s} : call'[t] = call[t]
  BY DEF IInv, Types
<1>2. Types'
  BY DEF IInv, Types
<1>3. Calls'
  BY <1>1 DEF IInv, Calls, CallOK
<1>4. Locked'
  BY DEF IInv, Locked
<1>5. Condemned'
  <2>1. ASSUME NEW o \in Objects, Referenced(o) PROVE Referenced(o)'
    BY <1>1, <2>1, NullAssumption DEF Referenced, InUse
  <2>2. cleaner.condemned \subseteq Objects
    BY DEF IInv, Types, CleanerRecords
  <2> QED
    BY <2>1, <2>2 DEF IInv, Condemned
<1>6. ASSUME NEW k \in Keys, NEW o \in Objects, Holds(k, o)' PROVE Holds(k, o)
  BY <1>1, <1>6, NullAssumption DEF Holds
<1>7. ASSUME NEW k \in Keys PROVE StrayCalls(k)' \subseteq StrayCalls(k)
  <2>1. ASSUME NEW t \in Slots, t # s, t \in StrayCalls(k)' PROVE t \in StrayCalls(k)
    BY <1>1, <2>1 DEF StrayCalls, Stray
  <2>2. ASSUME s \in StrayCalls(k)' PROVE FALSE
    <3>1. c.pc = "Take" /\ (buckets[c.key] # c.bucket \/ cleaner.doomed = c.key)
      BY <1>1, <2>2 DEF StrayCalls, Stray
    <3>2. cleaner.doomed = Null
      BY <3>1 DEF MapUnlocked, IInv, Locked
    <3> QED
      BY <3>1, <3>2, NullAssumption
  <2>3. StrayCalls(k)' \subseteq Slots
    BY DEF StrayCalls
  <2> QED
    BY <2>1, <2>2, <2>3
<1>8. Accounts'
  BY <1>7, AccountsKept
<1> QED
  BY <1>2, <1>3, <1>4, <1>5, <1>6, <1>8, HoldersKept DEF IInv

LEMMA BeginStep == ASSUME IInv, NEW s \in Slots, NEW k \in Keys, Begin(s, k) PROVE IInv'
<1>1. PICK c : c = [pc |-> "Find", key |-> k, bucket |-> Null]
  OBVIOUS
<1>2. c \in CallRecords
  BY <1>1 DEF CallRecords, PCs
<1>3. call[s].bucket = Null
  BY DEF Begin, IInv, Calls, CallOK
<1>4. /\ call' = [call EXCEPT ![s] = c]
      /\ UNCHANGED <<buckets, object, cleaner, budget, strays>>
  BY <1>1 DEF Begin
<1> QED
  BY <1>1, <1>2, <1>3, <1>4, CallStep

\* Where a call is and the bucket it has change together.
Moved(q, pc, o) == [q EXCEPT !.pc = pc, !.bucket = o]

LEMMA MovedFields ==
  ASSUME NEW q \in CallRecords, NEW pc \in PCs, NEW o \in Objects \cup {Null}
  PROVE  /\ Moved(q, pc, o) \in CallRecords /\ Moved(q, pc, o).pc = pc
         /\ Moved(q, pc, o).key = q.key /\ Moved(q, pc, o).bucket = o
<1> DEFINE p == [q EXCEPT !.pc = pc]
           m == [p EXCEPT !.bucket = o]
<1>1. p \in CallRecords /\ p.pc = pc /\ p.key = q.key
  BY DEF CallRecords
<1> HIDE DEF p
<1>2. m \in CallRecords /\ m.pc = p.pc /\ m.key = p.key /\ m.bucket = o
  BY <1>1 DEF CallRecords
<1>3. m = Moved(q, pc, o)
  BY DEF p, Moved
<1> HIDE DEF m
<1> QED
  BY <1>1, <1>2, <1>3

\* The bucket that is in the map is found, or that there is none.
LEMMA LookupStep ==
  ASSUME IInv, NEW s \in Slots, NEW o, o = buckets[call[s].key],
         call[s].pc \in {"Find", "Create"}, MapUnlocked,
         call' = [call EXCEPT ![s].pc = IF o = Null THEN "Create" ELSE "Take", ![s].bucket = o],
         UNCHANGED <<buckets, object, cleaner, budget, strays>>
  PROVE  IInv'
<1>1. call[s] \in CallRecords /\ call[s].key \in Keys /\ call[s].bucket = Null
  BY DEF IInv, Types, Calls, CallOK
<1>2. o \in Objects \cup {Null}
  BY <1>1 DEF IInv, Types
<1>p. PICK pc \in {"Create", "Take"} : pc = IF o = Null THEN "Create" ELSE "Take"
  OBVIOUS
<1>3. call' = [call EXCEPT ![s] = Moved(call[s], pc, o)]
  BY <1>p DEF Moved, IInv, Types
<1>4. PICK c : c = Moved(call[s], pc, o)
  OBVIOUS
<1>5. c \in CallRecords /\ c.pc = pc /\ c.key = call[s].key /\ c.bucket = o
  <2>1. pc \in PCs
    BY DEF PCs
  <2> QED
    BY <1>1, <1>2, <1>4, <2>1, MovedFields
<1> QED
  BY <1>1, <1>p, <1>3, <1>4, <1>5, CallStep

LEMMA FindStep == ASSUME IInv, NEW s \in Slots, Find(s) PROVE IInv'
  BY LookupStep DEF Find

-----------------------------------------------------------------------------
(* A new bucket.                                                           *)

\* A function has at most as many values as arguments.
LEMMA Image ==
  ASSUME NEW S, IsFiniteSet(S), NEW f
  PROVE  IsFiniteSet({f[x] : x \in S}) /\ Cardinality({f[x] : x \in S}) <= Cardinality(S)
<1> DEFINE T == {f[x] : x \in S}
<1>1. [x \in S |-> f[x]] \in Surjection(S, T)
  BY DEF Surjection
<1> HIDE DEF T
<1>2. IsFiniteSet(T) /\ Cardinality(T) <= Cardinality(S)
  BY <1>1, FS_Surjection
<1> QED
  BY <1>2 DEF T

\* There is one nobody refers to: fewer are referred to than there are.
LEMMA SomeUnused ==
  ASSUME IInv, NEW s \in Slots, NEW k \in Keys, call[s].bucket = Null, buckets[k] = Null
  PROVE  \E o \in Objects : ~Referenced(o)
<1> DEFINE K == Keys \ {k}
           S == Slots \ {s}
           held == [t \in Slots |-> call[t].bucket]
           inMap == {buckets[l] : l \in K}
           inCalls == {held[t] : t \in S}
<1>1. /\ IsFiniteSet(K) /\ Cardinality(K) = Cardinality(Keys) - 1
      /\ IsFiniteSet(S) /\ Cardinality(S) = Cardinality(Slots) - 1
  BY ObjectsAssumption, FS_RemoveElement
<1> HIDE DEF K, S, held
<1>2. IsFiniteSet(inMap) /\ Cardinality(inMap) <= Cardinality(K)
  BY <1>1, Image
<1>3. IsFiniteSet(inCalls) /\ Cardinality(inCalls) <= Cardinality(S)
  BY <1>1, Image
<1>4. Objects \ (inMap \cup inCalls) # {}
  <2> HIDE DEF inMap, inCalls
  <2>1. /\ IsFiniteSet(inMap \cup inCalls)
        /\ Cardinality(inMap \cup inCalls)
             = Cardinality(inMap) + Cardinality(inCalls) - Cardinality(inMap \cap inCalls)
    BY <1>2, <1>3, FS_Union
  <2>2. Cardinality(inMap \cap inCalls) \in Nat
    BY <1>2, FS_Intersection, FS_CardinalityType
  <2>3. /\ Cardinality(inMap) \in Nat /\ Cardinality(inCalls) \in Nat
        /\ Cardinality(inMap \cup inCalls) \in Nat
        /\ Cardinality(Keys) \in Nat /\ Cardinality(Slots) \in Nat
        /\ Cardinality(Objects) \in Nat
    BY <1>2, <1>3, <2>1, ObjectsAssumption, FS_CardinalityType
  <2>4. Cardinality(inMap \cup inCalls) < Cardinality(Objects)
    BY <1>1, <1>2, <1>3, <2>1, <2>2, <2>3, ObjectsAssumption
  <2>5. ~(Objects \subseteq inMap \cup inCalls)
    BY <2>1, <2>3, <2>4, FS_Subset
  <2> QED
    BY <2>5
<1>5. PICK o \in Objects : o \notin inMap /\ o \notin inCalls
  BY <1>4
<1>6. ASSUME NEW l \in Keys, buckets[l] = o PROVE FALSE
  BY <1>5, <1>6, NullAssumption DEF K
<1>7. ASSUME NEW t \in Slots, call[t].bucket = o PROVE FALSE
  BY <1>5, <1>7, NullAssumption DEF S, held
<1> QED
  BY <1>6, <1>7 DEF Referenced, InUse

\* The facts of an insertion, the CHOOSE resolved.
LEMMA InsertFacts ==
  ASSUME IInv, NEW s \in Slots, call[s].pc = "Create", buckets[call[s].key] = Null, Insert(s)
  PROVE  \E o \in Objects :
           /\ ~Referenced(o)
           /\ buckets' = [buckets EXCEPT ![call[s].key] = o]
           /\ object' = [object EXCEPT ![o] = NewTokenBucket]
           /\ call' = [call EXCEPT ![s] = Moved(call[s], "Take", o)]
<1>1. call[s].key \in Keys /\ call[s].bucket = Null
  BY DEF IInv, Calls, CallOK
<1>2. PICK o : o = CHOOSE unused \in Objects : ~Referenced(unused)
  OBVIOUS
<1>3. o \in Objects /\ ~Referenced(o)
  BY <1>1, <1>2, SomeUnused
<1>4. /\ buckets' = [buckets EXCEPT ![call[s].key] = o]
      /\ object' = [object EXCEPT ![o] = NewTokenBucket]
      /\ call' = [call EXCEPT ![s].pc = "Take", ![s].bucket = o]
  BY <1>2 DEF Insert
<1>5. call' = [call EXCEPT ![s] = Moved(call[s], "Take", o)]
  BY <1>4 DEF Moved, IInv, Types
<1> QED
  BY <1>3, <1>4, <1>5

LEMMA InsertStep ==
  ASSUME IInv, NEW s \in Slots, call[s].pc = "Create", MapUnlocked,
         buckets[call[s].key] = Null, Insert(s), UNCHANGED <<cleaner, budget, strays>>
  PROVE  IInv'
<1>k. PICK k \in Keys : k = call[s].key
  BY DEF IInv, Calls, CallOK
<1>o. PICK o \in Objects :
        /\ ~Referenced(o)
        /\ buckets' = [buckets EXCEPT ![k] = o]
        /\ object' = [object EXCEPT ![o] = NewTokenBucket]
        /\ call' = [call EXCEPT ![s] = Moved(call[s], "Take", o)]
  BY <1>k, InsertFacts
<1>c. PICK c : c = Moved(call[s], "Take", o)
  OBVIOUS
<1>1. c \in CallRecords /\ c.pc = "Take" /\ c.key = k /\ c.bucket = o
  <2>1. call[s] \in CallRecords /\ "Take" \in PCs
    BY DEF IInv, Types, PCs
  <2> QED
    BY <1>k, <1>c, <2>1, MovedFields
<1>2. /\ buckets'[k] = o /\ \A l \in Keys \ {k} : buckets'[l] = buckets[l]
      /\ object'[o] = NewTokenBucket /\ \A u \in Objects \ {o} : object'[u] = object[u]
      /\ call'[s] = c /\ \A t \in Slots \ {s} : call'[t] = call[t]
  BY <1>o, <1>c DEF IInv, Types
<1>3. /\ buckets[k] = Null /\ call[s].bucket = Null /\ o # Null
      /\ \A l \in Keys : buckets[l] # o
      /\ \A t \in Slots : call[t].bucket # o
  BY <1>k, <1>o, NullAssumption DEF Referenced, InUse, IInv, Calls, CallOK
<1>4. cleaner.doomed = Null /\ cleaner'.doomed = Null
  BY DEF IInv, Locked, MapUnlocked
<1>5. Types'
  <2>1. NewTokenBucket \in Buckets
    BY Sizes DEF NewTokenBucket, Buckets
  <2> QED
    BY <1>o, <1>c, <1>1, <2>1 DEF IInv, Types
<1>6. Calls'
  BY <1>1, <1>2, <1>3 DEF IInv, Calls, CallOK
<1>7. Locked'
  BY <1>4 DEF IInv, Locked
<1>8. Condemned'
  <2>1. ASSUME NEW u \in Objects, Referenced(u) PROVE u # o /\ Referenced(u)'
    BY <1>o, <1>2, <1>3, <2>1, NullAssumption DEF Referenced, InUse
  <2>2. cleaner.condemned \subseteq Objects
    BY DEF IInv, Types, CleanerRecords
  <2> QED
    BY <1>2, <2>1, <2>2 DEF IInv, Condemned
<1>9. ASSUME NEW l \in Keys, NEW u \in Objects, Holds(l, u)'
      PROVE  IF u = o THEN l = k ELSE Holds(l, u)
  BY <1>1, <1>2, <1>3, <1>9 DEF Holds
<1>10. OneOwner'
  BY <1>9 DEF IInv, OneOwner
<1>11. Available(o)' = Full /\ \A u \in Objects \ {o} : Available(u)' = Available(u)
  BY <1>2, Sizes DEF Available, AtMostFull, NewTokenBucket
<1>12. Generous'
  <2>1. budget[k] <= Full
    BY DEF IInv, Accounts, Covered
  <2> QED
    BY <1>9, <1>11, <2>1 DEF IInv, Generous
<1>13. ASSUME NEW l \in Keys PROVE StrayCalls(l)' \subseteq StrayCalls(l)
  <2>1. ASSUME NEW t \in Slots, t # s, t \in StrayCalls(l)' PROVE t \in StrayCalls(l)
    <3>1. call[t].pc = "Take" /\ call[t].key = l /\ call[t].bucket # Null
      BY <1>2, <2>1 DEF StrayCalls, IInv, Calls, CallOK
    <3>2. buckets'[l] # call[t].bucket
      BY <1>2, <1>4, <2>1, <3>1, NullAssumption DEF StrayCalls, Stray
    <3>3. buckets[l] # call[t].bucket
      BY <1>2, <1>3, <3>1, <3>2
    <3> QED
      BY <3>1, <3>3 DEF StrayCalls, Stray
  <2>2. s \notin StrayCalls(l)'
    BY <1>1, <1>2, <1>4, NullAssumption DEF StrayCalls, Stray
  <2>3. StrayCalls(l)' \subseteq Slots
    BY DEF StrayCalls
  <2> QED
    BY <2>1, <2>2, <2>3
<1>14. ASSUME NEW l \in Keys, l # k PROVE Covered(l)' /\ Counted(l)'
  <2>1. buckets[l] # Null => object'[buckets[l]] = object[buckets[l]]
    BY <1>2, <1>3 DEF IInv, Types
  <2> QED
    BY <1>2, <1>13, <1>14, <2>1, AccountKept
<1>15. Covered(k)' /\ Counted(k)'
  <2>1. Full <= Credit(k) /\ budget[k] <= Full /\ Gifts(k) <= 2 * N
    BY <1>3 DEF IInv, Accounts, Covered, Counted, Settled
  <2>2. Credit(k)' = Credit(k) /\ Credit(k) \in Int /\ strays[k] \in Nat
    BY CreditType DEF IInv, Credit
  <2>3. Covered(k)'
    BY <1>2, <1>3, <1>4, <1>11, <2>1, <2>2 DEF Covered
  <2>4. Cardinality(StrayCalls(k)') <= Cardinality(StrayCalls(k)) /\ Cardinality(StrayCalls(k)') \in Nat
    BY <1>13, StrayCallsFinite, FS_Subset, FS_CardinalityType
  <2>5. Gifts(k)' <= 2 * N
    BY <2>1, <2>2, <2>4, StrayCallsFinite, Sizes DEF Gifts
  <2>6. object'[buckets'[k]].age <= Credit(k)'
    BY <1>2, <2>1, <2>2, Sizes DEF NewTokenBucket
  <2> QED
    BY <2>3, <2>5, <2>6 DEF Counted
<1> QED
  BY <1>5, <1>6, <1>7, <1>8, <1>10, <1>12, <1>14, <1>15 DEF IInv, Accounts

LEMMA CreateStep == ASSUME IInv, NEW s \in Slots, Create(s) PROVE IInv'
<1>o. PICK o : o = buckets[call[s].key]
  OBVIOUS
<1>1. CASE o = Null
  BY <1>o, <1>1, InsertStep DEF Create
<1>2. CASE o # Null
  <2>1. call' = [call EXCEPT ![s].pc = IF o = Null THEN "Create" ELSE "Take", ![s].bucket = o]
    BY <1>o, <1>2 DEF Create
  <2> QED
    BY <1>o, <1>2, <2>1, LookupStep DEF Create
<1> QED
  BY <1>1, <1>2

-----------------------------------------------------------------------------
(* A bucket is used.                                                       *)

\* What Take does, with the price n that was paid: a token or nothing.
LEMMA TakeFacts ==
  ASSUME IInv, NEW s \in Slots, Take(s)
  PROVE  \E k \in Keys, o \in Objects, n \in {0, Cost} :
           /\ call[s].pc = "Take" /\ call[s].key = k /\ call[s].bucket = o
           /\ Available(o) \in 0 .. Full /\ n <= Available(o)
           /\ n = 0 => Available(o) < Cost
           /\ call' = [call EXCEPT ![s] = IdleCall]
           /\ UNCHANGED buckets
           /\ object' = [object EXCEPT ![o] =
                           IF ~Referenced(o)' THEN Unused
                           ELSE [tokens |-> Available(o) - n, age |-> 0]]
           /\ cleaner' = [cleaner EXCEPT !.condemned = @ \ {o}]
           /\ budget' = [budget EXCEPT ![k] = @ - n]
           /\ strays' = IF n = Cost /\ Stray(s) THEN [strays EXCEPT ![k] = @ + 1] ELSE strays
<1>k. PICK k \in Keys : k = call[s].key
  BY DEF Take, IInv, Calls, CallOK
<1>o. PICK o \in Objects : o = call[s].bucket
  <2>1. call[s] \in CallRecords /\ call[s].bucket # Null
    BY DEF Take, IInv, Types, Calls, CallOK
  <2> QED
    BY <2>1 DEF CallRecords
<1>a. Available(o) \in 0 .. Full /\ Full \in Nat /\ Cost \in Nat \ {0}
  BY AvailableRange, Sizes DEF IInv, Types
<1>n. PICK n \in {0, Cost} : n = IF Available(o) >= Cost THEN Cost ELSE 0
  OBVIOUS
<1>1. n <= Available(o) /\ (n = 0 => Available(o) < Cost) /\ (n = Cost <=> Available(o) >= Cost)
  BY <1>a, <1>n
<1>2. object' = [object EXCEPT ![o] = IF ~Referenced(o)' THEN Unused
                                      ELSE [tokens |-> Available(o) - n, age |-> 0]]
  BY <1>o, <1>n DEF Take, Referenced
<1>3. budget' = [budget EXCEPT ![k] = @ - n]
  <2>1. CASE Available(o) >= Cost
    BY <1>k, <1>o, <1>n, <2>1 DEF Take
  <2>2. CASE ~(Available(o) >= Cost)
    <3>1. budget' = budget /\ n = 0
      BY <1>k, <1>o, <1>n, <2>2 DEF Take
    <3>2. budget[k] \in Int /\ budget \in [Keys -> Int]
      BY DEF IInv, Types
    <3> QED
      BY <3>1, <3>2
  <2> QED
    BY <2>1, <2>2
<1>4. strays' = IF n = Cost /\ Stray(s) THEN [strays EXCEPT ![k] = @ + 1] ELSE strays
  BY <1>k, <1>o, <1>1 DEF Take
<1>5. /\ call[s].pc = "Take" /\ call' = [call EXCEPT ![s] = IdleCall] /\ UNCHANGED buckets
      /\ cleaner' = [cleaner EXCEPT !.condemned = @ \ {o}]
  BY <1>o DEF Take
<1> QED
  BY <1>k, <1>o, <1>a, <1>1, <1>2, <1>3, <1>4, <1>5

LEMMA TakeStep == ASSUME IInv, NEW s \in Slots, Take(s) PROVE IInv'
<1>f. PICK k \in Keys, o \in Objects, n \in {0, Cost} :
        /\ call[s].pc = "Take" /\ call[s].key = k /\ call[s].bucket = o
        /\ Available(o) \in 0 .. Full /\ n <= Available(o)
        /\ n = 0 => Available(o) < Cost
        /\ call' = [call EXCEPT ![s] = IdleCall]
        /\ UNCHANGED buckets
        /\ object' = [object EXCEPT ![o] =
                        IF ~Referenced(o)' THEN Unused
                        ELSE [tokens |-> Available(o) - n, age |-> 0]]
        /\ cleaner' = [cleaner EXCEPT !.condemned = @ \ {o}]
        /\ budget' = [budget EXCEPT ![k] = @ - n]
        /\ strays' = IF n = Cost /\ Stray(s) THEN [strays EXCEPT ![k] = @ + 1] ELSE strays
  BY TakeFacts
<1>n. n \in Nat /\ Available(o) \in Nat /\ Full \in Nat /\ Cost \in Nat \ {0}
  BY <1>f, Sizes
<1>1. /\ call'[s] = IdleCall /\ \A t \in Slots \ {s} : call'[t] = call[t]
      /\ \A u \in Objects \ {o} : object'[u] = object[u]
      /\ Referenced(o)' => object'[o] = [tokens |-> Available(o) - n, age |-> 0]
  BY <1>f DEF IInv, Types
<1>2. /\ budget'[k] = budget[k] - n /\ \A l \in Keys \ {k} : budget'[l] = budget[l]
      /\ strays'[k] = IF n = Cost /\ Stray(s) THEN strays[k] + 1 ELSE strays[k]
      /\ \A l \in Keys \ {k} : strays'[l] = strays[l]
  BY <1>f DEF IInv, Types
<1>3. /\ cleaner' \in CleanerRecords /\ cleaner'.pc = cleaner.pc /\ cleaner'.todo = cleaner.todo
      /\ cleaner'.doomed = cleaner.doomed /\ cleaner'.condemned = cleaner.condemned \ {o}
  BY <1>f DEF IInv, Types, CleanerRecords
<1>4. Types'
  <2>1. Unused \in Buckets /\ [tokens |-> Available(o) - n, age |-> 0] \in Buckets
    BY <1>f, <1>n, Sizes DEF Unused, Buckets
  <2>2. object' \in [Objects -> Buckets]
    BY <1>f, <2>1 DEF IInv, Types
  <2>3. IdleCall \in CallRecords
    BY DEF IdleCall, CallRecords, PCs
  <2>4. budget' \in [Keys -> Int] /\ strays' \in [Keys -> Nat]
    BY <1>f, <1>n DEF IInv, Types
  <2> QED
    BY <1>f, <1>3, <2>2, <2>3, <2>4 DEF IInv, Types
<1>5. Calls'
  BY <1>1 DEF IInv, Calls, CallOK, IdleCall
<1>6. Locked'
  BY <1>f, <1>3 DEF IInv, Locked
<1>7. Condemned'
  <2>1. ASSUME NEW u \in Objects, u # o, Referenced(u) PROVE Referenced(u)'
    BY <1>f, <1>1, <2>1 DEF Referenced, InUse
  <2>2. cleaner.condemned \subseteq Objects
    BY DEF IInv, Types, CleanerRecords
  <2> QED
    BY <1>1, <1>3, <2>1, <2>2 DEF IInv, Condemned
<1>8. ASSUME NEW l \in Keys, NEW u \in Objects, Holds(l, u)' PROVE Holds(l, u)
  BY <1>f, <1>1, <1>8, NullAssumption DEF Holds, IdleCall
<1>9. OneOwner'
  BY <1>8 DEF IInv, OneOwner
<1>10. Holds(k, o)
  BY <1>f DEF Holds
<1>11. ASSUME NEW l \in Keys, Holds(l, o) PROVE l = k
  BY <1>10, <1>11 DEF IInv, OneOwner
<1>12. Referenced(o)' => Available(o)' = Available(o) - n
  <2>1. Available(o) - n <= Full
    BY <1>f, <1>n
  <2> QED
    BY <1>1, <1>n, <2>1 DEF Available, AtMostFull
<1>13. \A u \in Objects \ {o} : Available(u)' = Available(u)
  BY <1>1 DEF Available
<1>14. Generous'
  <2> SUFFICES ASSUME NEW l \in Keys, NEW u \in Objects, Holds(l, u)'
               PROVE  budget'[l] <= Available(u)'
    BY DEF Generous
  <2>1. /\ budget[l] <= Available(u) /\ budget[l] \in Int /\ Available(u) \in Int
    BY <1>8, AvailableRange DEF IInv, Generous, Types
  <2>2. CASE u = o
    <3>1. l = k /\ Referenced(o)'
      BY <1>8, <1>11, <2>2 DEF Holds, Referenced, InUse
    <3> QED
      BY <1>2, <1>12, <1>n, <2>1, <2>2, <3>1
  <2>3. CASE u # o
    BY <1>2, <1>13, <1>n, <2>1, <2>3
  <2> QED
    BY <2>2, <2>3
<1>15. ASSUME NEW l \in Keys PROVE StrayCalls(l)' = StrayCalls(l) \ {s}
  <2>1. s \notin StrayCalls(l)'
    BY <1>1 DEF StrayCalls, IdleCall
  <2>2. ASSUME NEW t \in Slots, t # s PROVE t \in StrayCalls(l)' <=> t \in StrayCalls(l)
    BY <1>f, <1>1, <1>3, <2>2 DEF StrayCalls, Stray
  <2>3. StrayCalls(l)' \subseteq Slots /\ StrayCalls(l) \subseteq Slots
    BY DEF StrayCalls
  <2> QED
    BY <2>1, <2>2, <2>3
<1>16. ASSUME NEW l \in Keys, l # k PROVE Covered(l)' /\ Counted(l)'
  <2>1. buckets[l] # o
    BY <1>11, <1>16 DEF Holds
  <2>2. buckets[l] # Null => object'[buckets[l]] = object[buckets[l]]
    BY <1>1, <2>1 DEF IInv, Types
  <2> QED
    BY <1>f, <1>2, <1>3, <1>15, <1>16, <2>2, AccountKept
<1>17. Covered(k)' /\ Counted(k)'
  <2>1. Covered(k) /\ Counted(k) /\ (Settled(k)' <=> Settled(k))
    BY <1>f, <1>3 DEF IInv, Accounts, Settled
  <2>2. /\ budget[k] \in Int /\ strays[k] \in Nat /\ Credit(k) \in Int
        /\ budget'[k] <= Full
    <3>1. budget[k] \in Int /\ strays[k] \in Nat /\ Credit(k) \in Int
      BY CreditType DEF IInv
    <3> QED
      BY <1>2, <1>n, <2>1, <3>1 DEF Covered
  <2>3. CASE Stray(s)
    <3>1. s \in StrayCalls(k)
      BY <1>f, <2>3 DEF StrayCalls
    <3>2. /\ Cardinality(StrayCalls(k)') = Cardinality(StrayCalls(k)) - 1
          /\ Cardinality(StrayCalls(k)) \in Nat
      BY <1>15, <3>1, StrayCallsFinite, FS_RemoveElement
    <3>3. Credit(k)' = Credit(k) /\ Gifts(k)' <= Gifts(k) /\ Gifts(k) \in Int /\ Gifts(k)' \in Int
      <4>1. CASE n = Cost
        <5>1. Cost * (strays[k] + 1) = Cost * strays[k] + Cost /\ Cost * strays[k] \in Nat
          BY <1>n, <2>2, NextMultiple
        <5> QED
          BY <1>2, <1>n, <2>2, <2>3, <3>2, <4>1, <5>1 DEF Credit, Gifts
      <4>2. CASE n # Cost
        BY <1>2, <1>n, <2>2, <3>2, <4>2 DEF Credit, Gifts
      <4> QED
        BY <4>1, <4>2
    <3>4. ASSUME NEW b \in Objects, b = buckets[k] PROVE Available(b)' <= Credit(k)'
      <4>1. Available(b) <= Credit(k) /\ Available(b) \in Int
        BY <2>1, <3>4, NullAssumption, AvailableRange DEF Covered, IInv, Types
      <4>2. CASE b = o
        <5>1. Referenced(o)'
          BY <1>f, <3>4, <4>2 DEF Referenced, InUse
        <5> QED
          BY <1>n, <1>12, <2>2, <3>3, <4>1, <4>2, <5>1
      <4>3. CASE b # o
        BY <1>13, <3>3, <4>1, <4>3
      <4> QED
        BY <4>2, <4>3
    <3>5. buckets'[k] # Null => Available(buckets[k])' <= Credit(k)'
      BY <1>f, <3>4 DEF IInv, Types
    <3>6. Covered(k)'
      BY <1>f, <2>1, <2>2, <3>3, <3>5 DEF Covered
    <3>7. ASSUME Settled(k) PROVE object'[buckets'[k]] = object[buckets[k]]
      BY <1>f, <1>1, <2>3, <3>7 DEF Settled, Stray, IInv, Types
    <3>8. Counted(k)'
      BY <2>1, <2>2, <3>3, <3>7, Sizes DEF Counted
    <3> QED
      BY <3>6, <3>8
  <2>4. CASE ~Stray(s)
    <3>1. Settled(k) /\ buckets[k] = o /\ Referenced(o)'
      BY <1>f, <2>4, NullAssumption DEF Stray, Settled, Referenced, InUse
    <3>2. Credit(k)' = Credit(k) - n
      <4>1. Cost * strays[k] \in Nat /\ strays'[k] = strays[k]
        BY <1>2, <1>n, <2>2, <2>4
      <4> QED
        BY <1>2, <1>n, <2>2, <4>1 DEF Credit
    <3>3. Available(o) <= Credit(k) /\ Available(o)' = Available(o) - n
      BY <1>12, <2>1, <3>1 DEF Covered, Settled
    <3>4. Available(o)' <= Credit(k)' /\ 0 <= Credit(k)'
      BY <1>f, <1>n, <2>2, <3>2, <3>3
    <3>5. Covered(k)'
      BY <1>f, <2>1, <2>2, <3>1, <3>4 DEF Covered
    <3>6. Gifts(k)' <= 2 * N
      <4>1. StrayCalls(k)' = StrayCalls(k)
        BY <1>15, <2>4 DEF StrayCalls
      <4> QED
        BY <1>2, <2>1, <2>4, <4>1 DEF Counted, Gifts
    <3>7. object'[buckets'[k]].age = 0
      BY <1>f, <1>1, <3>1
    <3> QED
      BY <3>4, <3>5, <3>6, <3>7 DEF Counted
  <2> QED
    BY <2>3, <2>4
<1> QED
  BY <1>4, <1>5, <1>6, <1>7, <1>9, <1>14, <1>16, <1>17 DEF IInv, Accounts

-----------------------------------------------------------------------------
(* Cleanup.                                                                *)

\* Cleanup moves on; the key it is about to delete, if any, stays.
LEMMA CleanerStep ==
  ASSUME IInv, cleaner' \in CleanerRecords, cleaner'.doomed = cleaner.doomed,
         cleaner'.todo # {} \/ cleaner.doomed # Null => cleaner'.pc = "locked",
         \A o \in cleaner'.condemned : Referenced(o) /\ object[o].age > StaleAfter,
         UNCHANGED <<buckets, object, call, budget, strays>>
  PROVE  IInv'
<1>1. Types' /\ Calls' /\ Locked'
  BY DEF IInv, Types, Calls, CallOK, Locked
<1>2. Condemned'
  BY DEF Condemned, Referenced, InUse
<1>3. \A k \in Keys, o \in Objects : Holds(k, o)' => Holds(k, o) /\ object'[o] = object[o]
  BY DEF Holds
<1>4. ASSUME NEW k \in Keys PROVE StrayCalls(k)' \subseteq StrayCalls(k)
  BY DEF StrayCalls, Stray
<1>5. Accounts'
  BY <1>4, AccountsKept
<1> QED
  BY <1>1, <1>2, <1>3, <1>5, HoldersKept DEF IInv

LEMMA CleanupStartStep == ASSUME IInv, CleanupStart PROVE IInv'
<1>c. PICK c : c = {o \in Objects : Referenced(o) /\ object[o].age > StaleAfter}
  OBVIOUS
<1>1. /\ cleaner.pc = "rest" /\ cleaner' = [cleaner EXCEPT !.pc = "wait", !.condemned = c]
      /\ UNCHANGED <<buckets, object, call, budget, strays>>
  BY <1>c DEF CleanupStart
<1>2. cleaner.todo = {} /\ cleaner.doomed = Null /\ c \subseteq Objects
  BY <1>c, <1>1 DEF IInv, Locked
<1>3. /\ cleaner' \in CleanerRecords /\ cleaner'.doomed = cleaner.doomed
      /\ cleaner'.todo = cleaner.todo /\ cleaner'.condemned = c
  BY <1>1, <1>2 DEF IInv, Types, CleanerRecords
<1> QED
  BY <1>c, <1>1, <1>2, <1>3, CleanerStep

LEMMA CleanupLockStep == ASSUME IInv, CleanupLock PROVE IInv'
<1>k. PICK k : k = InMap /\ k \subseteq Keys
  BY DEF InMap
<1>1. /\ cleaner' = [cleaner EXCEPT !.pc = "locked", !.todo = k]
      /\ UNCHANGED <<buckets, object, call, budget, strays>>
  BY <1>k DEF CleanupLock
<1>2. /\ cleaner' \in CleanerRecords /\ cleaner'.doomed = cleaner.doomed
      /\ cleaner'.pc = "locked" /\ cleaner'.condemned = cleaner.condemned
  BY <1>k, <1>1 DEF IInv, Types, CleanerRecords
<1> QED
  BY <1>1, <1>2, CleanerStep DEF IInv, Condemned

LEMMA CleanupUnlockStep == ASSUME IInv, CleanupUnlock PROVE IInv'
<1>1. /\ cleaner' \in CleanerRecords /\ cleaner'.doomed = cleaner.doomed
      /\ cleaner'.todo = {} /\ cleaner'.condemned = {} /\ cleaner.doomed = Null
  BY DEF CleanupUnlock, Resting, CleanerRecords
<1> QED
  BY <1>1, CleanerStep DEF CleanupUnlock

\* A key is found to be condemned.  The bucket has been idle so long that more
\* than one deletion cannot have been counted since the budget was full.
LEMMA CondemnedAccount ==
  ASSUME IInv, NEW k \in Keys, buckets[k] \in cleaner.condemned, cleaner.doomed = Null
  PROVE  strays[k] <= N /\ Full <= Credit(k)
<1>b. PICK b \in Objects : b = buckets[k]
  BY DEF IInv, Types, CleanerRecords
<1>1. object[b].age > StaleAfter /\ object[b].age \in Nat
  BY <1>b DEF IInv, Condemned, Types, Buckets
<1>2. Covered(k) /\ Counted(k) /\ Settled(k)
  BY <1>b, NullAssumption DEF IInv, Accounts, Settled
<1>3. Full <= Credit(k) /\ budget[k] <= Full
  BY <1>b, <1>1, <1>2, AvailableRange DEF Covered, Settled, IInv, Types
<1>4. budget[k] \in Int /\ strays[k] \in Nat /\ Credit(k) \in Int
  BY CreditType DEF IInv
<1>5. strays[k] <= Gifts(k) /\ Gifts(k) \in Nat /\ Gifts(k) <= 2 * N
  BY <1>2, <1>4, StrayCallsFinite DEF Gifts, Counted
<1>6. ASSUME object[b].age <= Credit(k) PROVE FALSE
  <2>1. strays[k] <= 2 * N /\ 2 * N \in Nat
    BY <1>4, <1>5, Sizes
  <2>2. PICK x \in Nat, y \in Nat : x = Cost * strays[k] /\ y = Cost * (2 * N) /\ x <= y
    BY <1>4, <2>1, MultipleAtMost
  <2>3. StaleAfter >= Full + y /\ Credit(k) = budget[k] + x
    BY <2>2, Sizes DEF Credit
  <2> QED
    BY <1>1, <1>3, <1>4, <1>6, <2>2, <2>3, Sizes
<1>7. Gifts(k) <= N
  BY <1>b, <1>2, <1>6 DEF Counted
<1> QED
  BY <1>3, <1>4, <1>5, <1>7, Sizes

LEMMA CleanupCheckStep == ASSUME IInv, NEW k \in Keys, CleanupCheck(k) PROVE IInv'
<1>1. /\ cleaner.doomed = Null /\ cleaner.pc = "locked"
      /\ UNCHANGED <<buckets, object, call, budget, strays>>
  BY DEF CleanupCheck, IInv, Locked
<1>d. PICK d \in Keys \cup {Null} : d = IF buckets[k] \in cleaner.condemned THEN k ELSE Null
  OBVIOUS
<1>2. cleaner' = [cleaner EXCEPT !.todo = @ \ {k}, !.doomed = d]
  BY <1>d DEF CleanupCheck
<1>3. /\ cleaner' \in CleanerRecords /\ cleaner'.pc = "locked" /\ cleaner'.doomed = d
      /\ cleaner'.condemned = cleaner.condemned
  BY <1>1, <1>2 DEF IInv, Types, CleanerRecords
<1>4. CASE buckets[k] \notin cleaner.condemned
  BY <1>1, <1>d, <1>3, <1>4, CleanerStep DEF IInv, Condemned
<1>5. CASE buckets[k] \in cleaner.condemned
  <2>1. d = k /\ k # Null /\ buckets[k] # Null
    BY <1>d, <1>5, NullAssumption DEF IInv, Types, CleanerRecords
  <2>2. Types' /\ Calls' /\ Locked'
    BY <1>1, <1>3, <2>1 DEF IInv, Types, Calls, CallOK, Locked
  <2>3. Condemned'
    BY <1>1, <1>3 DEF IInv, Condemned, Referenced, InUse
  <2>4. \A l \in Keys, o \in Objects : Holds(l, o)' => Holds(l, o) /\ object'[o] = object[o]
    BY <1>1 DEF Holds
  <2>5. ASSUME NEW l \in Keys, l # k PROVE Covered(l)' /\ Counted(l)'
    <3>1. cleaner'.doomed # l /\ cleaner.doomed # l
      BY <1>1, <1>3, <2>1, <2>5, NullAssumption
    <3>2. StrayCalls(l)' \subseteq StrayCalls(l)
      BY <1>1, <3>1 DEF StrayCalls, Stray
    <3> QED
      BY <1>1, <3>1, <3>2, AccountKept
  <2>6. Covered(k)' /\ Counted(k)'
    <3>1. strays[k] <= N /\ Full <= Credit(k) /\ Covered(k) /\ strays[k] \in Nat
      BY <1>1, <1>5, CondemnedAccount DEF IInv, Accounts, Types
    <3>2. ~Settled(k)'
      BY <1>3, <2>1 DEF Settled
    <3>3. Credit(k)' = Credit(k)
      BY <1>1 DEF Credit
    <3>4. Covered(k)'
      BY <1>1, <3>1, <3>3 DEF Covered, Available
    <3>5. Gifts(k)' <= 2 * N
      <4>1. StrayCalls(k)' \subseteq Slots
        BY DEF StrayCalls
      <4>2. Cardinality(StrayCalls(k)') <= N /\ Cardinality(StrayCalls(k)') \in Nat
        BY <4>1, ObjectsAssumption, FS_Subset, FS_CardinalityType DEF N
      <4> QED
        BY <1>1, <3>1, <4>2, Sizes DEF Gifts
    <3> QED
      BY <3>2, <3>4, <3>5 DEF Counted
  <2> QED
    BY <1>1, <2>2, <2>3, <2>4, <2>5, <2>6, HoldersKept DEF IInv, Accounts
<1> QED
  BY <1>4, <1>5

LEMMA CleanupDeleteStep == ASSUME IInv, CleanupDelete PROVE IInv'
<1>k. PICK k \in Keys : k = cleaner.doomed
  BY DEF CleanupDelete, IInv, Types, CleanerRecords
<1>o. PICK o \in Objects : o = buckets[k]
  BY <1>k DEF CleanupDelete, IInv, Types, Locked
<1>1. /\ buckets' = [buckets EXCEPT ![k] = Null]
      /\ UNCHANGED <<call, budget, strays>>
      /\ object' = IF Referenced(o)' THEN object ELSE [object EXCEPT ![o] = Unused]
      /\ cleaner' = [cleaner EXCEPT !.doomed = Null, !.condemned = @ \ {o}]
  BY <1>k, <1>o DEF CleanupDelete, Referenced
<1>2. /\ buckets'[k] = Null /\ \A l \in Keys \ {k} : buckets'[l] = buckets[l]
      /\ \A u \in Objects : u # o \/ Referenced(u)' => object'[u] = object[u]
  BY <1>1 DEF IInv, Types
<1>3. /\ cleaner' \in CleanerRecords /\ cleaner'.pc = cleaner.pc /\ cleaner'.todo = cleaner.todo
      /\ cleaner'.doomed = Null /\ cleaner'.condemned = cleaner.condemned \ {o}
  BY <1>1 DEF IInv, Types, CleanerRecords
<1>4. Types'
  <2>1. Unused \in Buckets
    BY Sizes DEF Unused, Buckets
  <2>2. object' \in [Objects -> Buckets]
    BY <1>1, <2>1 DEF IInv, Types
  <2> QED
    BY <1>1, <1>3, <2>2 DEF IInv, Types
<1>5. Calls' /\ Locked'
  BY <1>1, <1>3 DEF IInv, Calls, CallOK, Locked
<1>6. Condemned'
  <2>1. ASSUME NEW u \in Objects, u # o, Referenced(u) PROVE Referenced(u)'
    BY <1>o, <1>1, <1>2, <2>1 DEF Referenced, InUse
  <2>2. cleaner.condemned \subseteq Objects
    BY DEF IInv, Types, CleanerRecords
  <2> QED
    BY <1>2, <1>3, <2>1, <2>2 DEF IInv, Condemned
<1>7. ASSUME NEW l \in Keys, NEW u \in Objects, Holds(l, u)'
      PROVE  Holds(l, u) /\ object'[u] = object[u]
  <2>1. Referenced(u)'
    BY <1>7 DEF Holds, Referenced, InUse
  <2>2. Holds(l, u)
    BY <1>1, <1>2, <1>7, NullAssumption DEF Holds
  <2> QED
    BY <1>2, <2>1, <2>2
<1>8. ASSUME NEW l \in Keys, l # k PROVE Covered(l)' /\ Counted(l)'
  <2>1. ASSUME buckets[l] # Null PROVE object'[buckets[l]] = object[buckets[l]]
    <3>b. PICK b \in Objects : b = buckets[l]
      BY <2>1 DEF IInv, Types
    <3>1. Referenced(b)'
      BY <1>2, <1>8, <3>b DEF Referenced, InUse
    <3> QED
      BY <1>2, <3>b, <3>1
  <2>2. cleaner'.doomed # l /\ cleaner.doomed # l
    BY <1>k, <1>3, <1>8, NullAssumption
  <2>3. StrayCalls(l)' \subseteq StrayCalls(l)
    BY <1>1, <1>2, <1>8, <2>2 DEF StrayCalls, Stray
  <2> QED
    BY <1>1, <1>2, <1>8, <2>1, <2>2, <2>3, AccountKept
<1>9. Covered(k)' /\ Counted(k)'
  <2>1. Covered(k) /\ Counted(k) /\ ~Settled(k) /\ strays[k] \in Nat
    BY <1>k DEF IInv, Accounts, Settled, Types
  <2>2. ~Settled(k)' /\ Credit(k)' = Credit(k)
    BY <1>1, <1>2 DEF Settled, Credit
  <2>3. Covered(k)'
    BY <1>1, <1>2, <2>1, <2>2 DEF Covered
  <2>4. StrayCalls(k)' \subseteq StrayCalls(k)
    BY <1>k, <1>1 DEF StrayCalls, Stray
  <2>5. Cardinality(StrayCalls(k)') <= Cardinality(StrayCalls(k)) /\ Cardinality(StrayCalls(k)') \in Nat
    BY <2>4, StrayCallsFinite, FS_Subset, FS_CardinalityType
  <2>6. Gifts(k)' <= 2 * N
    BY <1>1, <2>1, <2>5, StrayCallsFinite, Sizes DEF Counted, Gifts
  <2> QED
    BY <2>2, <2>3, <2>6 DEF Counted
<1> QED
  BY <1>1, <1>4, <1>5, <1>6, <1>7, <1>8, <1>9, HoldersKept DEF IInv, Accounts

-----------------------------------------------------------------------------
(* Time.                                                                   *)

LEMMA TickStep == ASSUME IInv, Tick PROVE IInv'
<1>n. StaleAfter \in Nat /\ Full \in Nat /\ Cost \in Nat
  BY Sizes
<1>1. ASSUME NEW o \in Objects
      PROVE  /\ object[o] \in Buckets /\ object'[o] \in Buckets
             /\ object'[o].tokens = object[o].tokens
             /\ object'[o].age =
                  IF Referenced(o) /\ object[o].age <= StaleAfter THEN object[o].age + 1
                  ELSE object[o].age
  <2>1. object[o] \in Buckets
    BY DEF IInv, Types
  <2>a. PICK a : a = IF Referenced(o) /\ object[o].age <= StaleAfter THEN object[o].age + 1
                     ELSE object[o].age
    OBVIOUS
  <2>2. a \in 0 .. StaleAfter + 1
    BY <1>n, <2>1, <2>a DEF Buckets
  <2>3. object'[o] = [object[o] EXCEPT !.age = a]
    BY <2>a DEF Tick
  <2>4. /\ object'[o] \in Buckets /\ object'[o].tokens = object[o].tokens
        /\ object'[o].age = a
    BY <2>1, <2>2, <2>3 DEF Buckets
  <2> QED
    BY <2>1, <2>a, <2>4
<1>2. /\ UNCHANGED <<buckets, call, cleaner>>
      /\ \A k \in Keys : budget'[k] = AtMostFull(budget[k] + 1)
      /\ \A k \in Keys : strays'[k] = IF budget'[k] = Full THEN 0 ELSE strays[k]
  BY DEF Tick
<1>3. Types'
  <2>1. object' \in [Objects -> Buckets]
    <3>1. object' = [o \in Objects |-> object'[o]]
      BY DEF Tick
    <3> QED
      BY <1>1, <3>1
  <2>2. budget' \in [Keys -> Int] /\ strays' \in [Keys -> Nat]
    <3>1. ASSUME NEW k \in Keys
          PROVE  AtMostFull(budget[k] + 1) \in Int /\ strays[k] \in Nat
      BY <1>n DEF IInv, Types, AtMostFull
    <3>2. /\ budget' = [k \in Keys |-> AtMostFull(budget[k] + 1)]
          /\ strays' = [k \in Keys |-> IF budget'[k] = Full THEN 0 ELSE strays[k]]
      BY DEF Tick
    <3>3. budget' \in [Keys -> Int]
      BY <3>1, <3>2
    <3>4. strays' \in [Keys -> Nat]
      <4>1. ASSUME NEW k \in Keys
            PROVE  (IF budget'[k] = Full THEN 0 ELSE strays[k]) \in Nat
        BY <3>1
      <4> QED
        BY <3>2, <4>1
    <3> QED
      BY <3>3, <3>4
  <2> QED
    BY <1>2, <2>1, <2>2 DEF IInv, Types
<1>4. Calls' /\ Locked'
  BY <1>2 DEF IInv, Calls, CallOK, Locked
<1>5. Condemned'
  <2>1. cleaner.condemned \subseteq Objects
    BY DEF IInv, Types, CleanerRecords
  <2>2. ASSUME NEW o \in Objects, object[o].age > StaleAfter PROVE object'[o].age > StaleAfter
    <3>1. object[o].age \in Nat
      BY <1>1 DEF Buckets
    <3> QED
      BY <1>1, <1>n, <2>2, <3>1
  <2>3. ASSUME NEW o, Referenced(o) PROVE Referenced(o)'
    BY <1>2, <2>3 DEF Referenced, InUse
  <2> QED
    BY <1>2, <2>1, <2>2, <2>3 DEF IInv, Condemned
<1>6. \A k \in Keys, o \in Objects : Holds(k, o)' => Holds(k, o)
  BY <1>2 DEF Holds
<1>7. OneOwner'
  BY <1>6 DEF IInv, OneOwner
<1>8. ASSUME NEW o \in Objects
      PROVE  /\ Available(o) \in 0 .. Full /\ Available(o)' \in 0 .. Full
             /\ Available(o)' <= Available(o) + 1
             /\ Referenced(o) => Available(o)' = AtMostFull(Available(o) + 1)
  <2>1. /\ object[o].tokens \in 0 .. Full /\ object[o].age \in 0 .. StaleAfter + 1
        /\ object'[o].tokens = object[o].tokens
        /\ object'[o].age \in {object[o].age, object[o].age + 1}
    BY <1>1 DEF Buckets
  <2>2. StaleAfter >= Full
    BY Sizes, MultipleAtMost
  <2>3. /\ Available(o) \in 0 .. Full /\ Available(o)' \in 0 .. Full
        /\ Available(o)' <= Available(o) + 1
    BY <1>n, <2>1 DEF Available, AtMostFull
  <2>4. CASE Referenced(o) /\ object[o].age <= StaleAfter
    <3>1. object'[o].age = object[o].age + 1
      BY <1>1, <2>4
    <3>2. Available(o)' = AtMostFull(Available(o) + 1)
      BY <1>n, <2>1, <3>1 DEF Available, AtMostFull
    <3> QED
      BY <2>3, <3>2
  <2>5. CASE ~(object[o].age <= StaleAfter)
    <3>1. object'[o].age = object[o].age
      BY <1>1, <2>5
    <3>2. Available(o)' = AtMostFull(Available(o) + 1)
      BY <1>n, <2>1, <2>2, <2>5, <3>1 DEF Available, AtMostFull
    <3> QED
      BY <2>3, <3>2
  <2> QED
    BY <2>3, <2>4, <2>5
<1>9. Generous'
  <2> SUFFICES ASSUME NEW k \in Keys, NEW o \in Objects, Holds(k, o)'
               PROVE  budget'[k] <= Available(o)'
    BY DEF Generous
  <2>1. Holds(k, o) /\ Referenced(o)
    BY <1>6 DEF Holds, Referenced, InUse
  <2>2. budget[k] <= Available(o) /\ budget[k] \in Int
    BY <2>1 DEF IInv, Generous, Types
  <2>3. Available(o)' = AtMostFull(Available(o) + 1) /\ Available(o) \in 0 .. Full
    BY <1>8, <2>1
  <2> QED
    BY <1>n, <1>2, <2>2, <2>3 DEF AtMostFull
<1>10. ASSUME NEW k \in Keys PROVE Covered(k)' /\ Counted(k)'
  <2>1. /\ Covered(k) /\ Counted(k) /\ (Settled(k)' <=> Settled(k))
        /\ StrayCalls(k)' = StrayCalls(k)
    BY <1>2 DEF IInv, Accounts, Settled, StrayCalls, Stray
  <2>2. /\ budget[k] \in Int /\ strays[k] \in Nat /\ Credit(k) \in Int
        /\ Cardinality(StrayCalls(k)) \in Nat /\ Cardinality(StrayCalls(k)) <= N
    BY CreditType, StrayCallsFinite DEF IInv
  <2>3. budget'[k] <= Full
    BY <1>2, <1>n, <2>2 DEF AtMostFull
  <2>4. CASE budget'[k] = Full
    <3>1. strays'[k] = 0 /\ Credit(k)' = Full
      <4>1. strays'[k] = 0
        BY <1>2, <2>4
      <4>2. Cost * 0 = 0
        BY <1>n
      <4> QED
        BY <1>n, <2>4, <4>1, <4>2 DEF Credit
    <3>2. buckets'[k] # Null => Available(buckets[k])' <= Full
      BY <1>2, <1>8 DEF IInv, Types
    <3>3. Covered(k)'
      BY <1>n, <2>3, <3>1, <3>2 DEF Covered
    <3>4. Gifts(k)' <= N /\ Gifts(k)' <= 2 * N
      BY <2>1, <2>2, <3>1, Sizes DEF Gifts
    <3> QED
      BY <3>3, <3>4 DEF Counted
  <2>5. CASE budget'[k] # Full
    <3>1. strays'[k] = strays[k] /\ Credit(k)' = Credit(k) + 1
      <4>1. strays'[k] = strays[k] /\ budget'[k] = budget[k] + 1
        BY <1>2, <1>n, <2>2, <2>5 DEF AtMostFull
      <4>2. Cost * strays[k] \in Nat
        BY <1>n, <2>2
      <4> QED
        BY <2>2, <4>1, <4>2 DEF Credit
    <3>2. ASSUME NEW b \in Objects, b = buckets[k] PROVE Available(b)' <= Credit(k)'
      <4>1. Available(b) <= Credit(k)
        BY <2>1, <3>2, NullAssumption DEF Covered
      <4> QED
        BY <1>8, <1>n, <2>2, <3>1, <4>1
    <3>3. buckets'[k] # Null => Available(buckets[k])' <= Credit(k)'
      BY <1>2, <3>2 DEF IInv, Types
    <3>4. Covered(k)'
      BY <1>n, <2>1, <2>2, <2>3, <3>1, <3>3 DEF Covered
    <3>5. Gifts(k)' = Gifts(k)
      BY <2>1, <3>1 DEF Gifts
    <3>6. ASSUME Settled(k), object[buckets[k]].age <= Credit(k)
          PROVE  object'[buckets'[k]].age <= Credit(k)'
      <4>b. PICK b \in Objects : b = buckets[k]
        BY <3>6 DEF IInv, Types, Settled
      <4>1. object'[b].age <= object[b].age + 1 /\ object[b].age \in Int /\ object'[b].age \in Int
        BY <1>1, <1>n DEF Buckets
      <4> QED
        BY <1>2, <2>2, <3>1, <3>6, <4>b, <4>1
    <3>7. Counted(k)'
      BY <2>1, <3>5, <3>6 DEF Counted
    <3> QED
      BY <3>4, <3>7
  <2> QED
    BY <2>4, <2>5
<1> QED
  BY <1>3, <1>4, <1>5, <1>7, <1>9, <1>10 DEF IInv, Accounts

-----------------------------------------------------------------------------
(* The theorems.                                                           *)

LEMMA InitIInv == Init => IInv
<1> SUFFICES ASSUME Init PROVE IInv
  OBVIOUS
<1>n. StaleAfter \in Nat /\ Full \in Nat /\ Cost \in Nat /\ N \in Nat
  BY Sizes
<1>1. Unused \in Buckets /\ IdleCall \in CallRecords /\ Resting \in CleanerRecords
  BY <1>n DEF Unused, Buckets, IdleCall, CallRecords, PCs, Resting, CleanerRecords
<1>2. Types
  BY <1>n, <1>1 DEF Init, Types
<1>3. /\ \A k \in Keys : buckets[k] = Null /\ budget[k] = Full /\ strays[k] = 0
      /\ \A s \in Slots : call[s] = IdleCall
      /\ cleaner = Resting
  BY DEF Init
<1>4. Calls /\ Locked /\ Condemned
  BY <1>3 DEF Calls, CallOK, IdleCall, Locked, Condemned, Resting
<1>5. ASSUME NEW k \in Keys, NEW o \in Objects PROVE ~Holds(k, o)
  BY <1>3, NullAssumption DEF Holds, IdleCall
<1>6. OneOwner /\ Generous
  BY <1>5 DEF OneOwner, Generous
<1>7. ASSUME NEW k \in Keys PROVE Covered(k) /\ Counted(k)
  <2>1. ~Settled(k) /\ buckets[k] = Null
    BY <1>3 DEF Settled
  <2>2. Credit(k) = Full
    <3>1. Cost * 0 = 0
      BY <1>n
    <3> QED
      BY <1>n, <1>3, <3>1 DEF Credit
  <2>3. Gifts(k) <= 2 * N
    BY <1>n, <1>3, StrayCallsFinite DEF Gifts
  <2> QED
    BY <1>n, <1>3, <2>1, <2>2, <2>3 DEF Covered, Counted
<1> QED
  BY <1>2, <1>4, <1>6, <1>7 DEF IInv, Accounts

LEMMA NextIInv == IInv /\ [Next]_vars => IInv'
<1> SUFFICES ASSUME IInv, [Next]_vars PROVE IInv'
  OBVIOUS
<1>1. ASSUME NEW s \in Slots, Allow(s) PROVE IInv'
  BY <1>1, FindStep, CreateStep, TakeStep DEF Allow
<1>2. ASSUME NEW s \in Slots, NEW k \in Keys, Begin(s, k) PROVE IInv'
  BY <1>2, BeginStep
<1>3. CASE Cleanup
  BY <1>3, CleanupStartStep, CleanupLockStep, CleanupCheckStep, CleanupDeleteStep,
     CleanupUnlockStep DEF Cleanup
<1>4. CASE Tick
  BY <1>4, TickStep
<1>5. CASE UNCHANGED vars
  <2>1. UNCHANGED <<buckets, object, call, cleaner, budget, strays>>
    BY <1>5 DEF vars
  <2> QED
    BY <2>1, CleanerStep DEF IInv, Types, Locked, Condemned
<1> QED
  BY <1>1, <1>2, <1>3, <1>4, <1>5 DEF Next

\* The accounts of the clients are in order in every reachable state, wherever
\* cleanup and the calls of Allow are.
THEOREM Invariance == Spec => []IInv
  BY InitIInv, NextIInv, PTL DEF Spec

\* The variables have their types; tokenBucket.allow keeps the tokens between
\* nothing and the capacity.
THEOREM TypeCorrect == Spec => []TypeOK
<1>1. IInv => TypeOK
  BY DEF IInv, Types, TypeOK, Buckets, CallRecords, PCs, CleanerRecords
<1> QED
  BY <1>1, Invariance, PTL

\* However the map's lock and the buckets' locks interleave, a client gets no
\* more than its burst, what has refilled since, and one token for each call
\* that cleanup caught with a bucket in its hands; those are two per call at
\* most until the budget is full again.
THEOREM RateAlwaysBounded == Spec => []RateBounded
<1>1. ASSUME IInv, NEW k \in Keys
      PROVE  budget[k] + Cost * strays[k] >= 0 /\ strays[k] <= 2 * N
  <2>1. Covered(k) /\ Counted(k) /\ strays[k] \in Nat /\ Credit(k) \in Int
    BY <1>1, CreditType DEF IInv, Accounts
  <2>2. 0 <= Credit(k)
    <3>1. CASE buckets[k] = Null
      BY <2>1, <3>1, Sizes DEF Covered, Settled
    <3>2. CASE buckets[k] # Null
      <4>b. PICK b \in Objects : b = buckets[k]
        BY <1>1, <3>2 DEF IInv, Types
      <4>1. Available(b) <= Credit(k) /\ Available(b) \in 0 .. Full
        BY <1>1, <2>1, <3>2, <4>b, AvailableRange DEF Covered, IInv, Types
      <4> QED
        BY <2>1, <4>1, Sizes
    <3> QED
      BY <3>1, <3>2
  <2>3. strays[k] <= 2 * N
    BY <2>1, StrayCallsFinite, Sizes DEF Counted, Gifts
  <2> QED
    BY <2>1, <2>2, <2>3 DEF Credit
<1>2. IInv => RateBounded
  BY <1>1 DEF RateBounded, N
<1> QED
  BY <1>2, Invariance, PTL

\* Nobody whose budget has a token is refused by tokenBucket.allow, also when
\* the bucket that he found was deleted since.
THEOREM RefusalsJustified == Spec => RefusalJustified
<1>1. ASSUME IInv, NEW s \in Slots, Take(s), budget' = budget
      PROVE  budget[call[s].key] < Cost
  <2>f. PICK k \in Keys, o \in Objects, n \in {0, Cost} :
          /\ call[s].key = k /\ call[s].bucket = o
          /\ Available(o) \in 0 .. Full
          /\ n = 0 => Available(o) < Cost
          /\ budget' = [budget EXCEPT ![k] = @ - n]
    BY <1>1, TakeFacts
  <2>1. budget \in [Keys -> Int] /\ budget[k] \in Int /\ Cost \in Nat \ {0} /\ Full \in Nat
    BY <1>1, Sizes DEF IInv, Types
  <2>2. n = 0
    BY <1>1, <2>f, <2>1
  <2>3. budget[k] <= Available(o)
    BY <1>1, <2>f DEF Holds, IInv, Generous
  <2> QED
    BY <2>f, <2>1, <2>2, <2>3
<1>2. IInv => [\A s \in Slots : Take(s) /\ budget' = budget => budget[call[s].key] < Cost]_vars
  BY <1>1
<1> QED
  BY <1>2, Invariance, PTL DEF RefusalJustified
=============================================================================
