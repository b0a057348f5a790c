---------------------------- MODULE ServerProofs ----------------------------
(***************************************************************************)
(* Proofs about module Server, for any workers, requests, loops, number of *)
(* attempts and threshold of the probes.                                   *)
(*                                                                         *)
(* The argument follows main: what it has connected, started and closed    *)
(* is determined by where it is.  The goroutines can disturb only what     *)
(* main relies on while it closes the stores, and there they are held off  *)
(* by two facts: a goroutine that has stopped stays so, and nobody takes a *)
(* connection to a store whose closing has begun.                          *)
(***************************************************************************)
EXTENDS Server, TLAPS

USE ServerAssumption

-----------------------------------------------------------------------------
(* The inductive invariant.                                                *)

\* The stores main is done with when it has come to the n-th.
Before(n) == {StoreOrder[m] : m \in 1 .. n - 1}

\* Nothing was started yet, or everything ended with the process.
NotStarted == main.pc \in {"connect", "migrate", "start", "ended"}

Started == NotStarted => user = AllOff /\ http = "off"

Connected ==
  /\ main.pc = "ended" => connected = {}
  /\ main.pc = "connect" => connected = Before(main.store)
  /\ main.pc \notin {"ended", "connect"} => connected = Stores

\* While main is at the migration, a steady database is there; after it, its
\* tables are.
Migrated ==
  /\ main.pc = "migrate" /\ steady => Database \subseteq up /\ ~cancelled
  /\ main.pc \notin {"ended", "connect", "migrate"} => (steady => schema)

Closing ==
  /\ main.pc \notin {"connect", "close"} => main.store = 1
  /\ main.pc # "close" => closed = {}
  /\ main.pc = "close" => /\ Before(main.store) \subseteq closed
                          /\ \A w \in Workers : user[w].pc = "stopped"
                          /\ \A u \in Users : user[u].conns \cap Before(main.store) = {}

Probed == ~cancelled => strikes < Threshold

IInv == TypeOK /\ Started /\ Connected /\ Migrated /\ Closing /\ Probed

-----------------------------------------------------------------------------
(* Records and the order of the stores.                                    *)

MainRecords == [pc : {"connect", "migrate", "start", "select", "shutdown", "wait",
                      "close", "ended"},
                store : 1 .. 3, tries : 0 .. Attempts - 1]
UserRecords == [pc : {"off", "idle", "stopped"}, conns : SUBSET Waited]

\* The type invariant with the types of the records named.
Types ==
  /\ up \subseteq Resources /\ schema \in BOOLEAN
  /\ main \in MainRecords
  /\ cancelled \in BOOLEAN
  /\ connected \subseteq Stores /\ closed \subseteq connected
  /\ http \in {"off", "starting", "serving", "down", "failed"}
  /\ user \in [Users -> UserRecords]
  /\ strikes \in 0 .. Threshold
  /\ late \in BOOLEAN /\ steady \in BOOLEAN

LEMMA TypeParts == (TypeOK <=> Types) /\ (TypeOK' <=> Types')
<1>1. DOMAIN StoreOrder = 1 .. 3
  BY DEF StoreOrder
<1> QED
  BY <1>1 DEF TypeOK, Types, MainRecords, UserRecords

\* The stores one after the other.
LEMMA Order ==
  /\ Len(StoreOrder) = 3
  /\ Before(1) = {}
  /\ \A n \in 1 .. 3 : StoreOrder[n] \in Stores
  /\ \A n \in 1 .. 2 : Before(n + 1) = Before(n) \cup {StoreOrder[n]}
  /\ Before(3) \cup {StoreOrder[3]} = Stores
<1>1. /\ Len(StoreOrder) = 3
      /\ StoreOrder[1] = "postgres" /\ StoreOrder[2] = "mongo" /\ StoreOrder[3] = "redis"
  BY DEF StoreOrder
<1>2. Before(1) = {}
  BY DEF Before
<1>3. \A n \in 1 .. 2 : 1 .. n = (1 .. n - 1) \cup {n} /\ (n + 1) - 1 = n
  OBVIOUS
<1>4. \A n \in 1 .. 2 : Before(n + 1) = Before(n) \cup {StoreOrder[n]}
  BY <1>3 DEF Before
<1>5. Before(2) = {StoreOrder[1]}
  BY <1>2, <1>4
<1>6. Before(3) = {StoreOrder[1], StoreOrder[2]}
  BY <1>4, <1>5
<1>7. \A n \in 1 .. 3 : n = 1 \/ n = 2 \/ n = 3
  OBVIOUS
<1> QED
  BY <1>1, <1>2, <1>4, <1>6, <1>7 DEF Stores

\* What the goroutines start from.
LEMMA Goroutines ==
  /\ Off \in UserRecords /\ Idle \in UserRecords /\ Idle # Off
  /\ AllOff \in [Users -> UserRecords]
  /\ \A u \in Users : AllOff[u] = Off
  /\ Off.pc = "off" /\ Off.conns = {} /\ Idle.pc = "idle" /\ Idle.conns = {}
<1>1. /\ Off.pc = "off" /\ Off.conns = {} /\ Idle.pc = "idle" /\ Idle.conns = {}
      /\ Off \in UserRecords /\ Idle \in UserRecords
  BY DEF Off, Idle, UserRecords
<1>2. Idle # Off
  BY <1>1
<1> QED
  BY <1>1, <1>2 DEF AllOff

\* Takes offers sets of stores that are waited for.
LEMMA TakesWaited == \A u \in Users : \A conns \in Takes(u) : conns \subseteq Waited
  BY DEF Takes, Waited

\* Bounds of the constants.
LEMMA Bounds == Attempts \in Nat \ {0} /\ Threshold \in Nat \ {0}
  OBVIOUS

\* Wherever main is, the end of the process leaves nothing behind.
LEMMA EndStep ==
  ASSUME IInv, End, up' \subseteq Resources, schema' \in BOOLEAN
  PROVE  IInv'
<1>1. main' = [pc |-> "ended", store |-> 1, tries |-> 0]
  BY DEF End, AtConnect
<1>2. main'.pc = "ended" /\ main'.store = 1 /\ main' \in MainRecords
  BY <1>1 DEF MainRecords
<1>3. Types'
  <2>1. (user \in [Users -> UserRecords])' /\ (strikes \in 0 .. Threshold)'
    BY Goroutines DEF End
  <2>2. /\ cancelled' = FALSE /\ late' = FALSE /\ steady' = FALSE
        /\ connected' = {} /\ closed' = {} /\ http' = "off"
    BY DEF End
  <2> QED
    BY <1>2, <2>1, <2>2 DEF Types
<1>4. (Started /\ Connected /\ Migrated)'
  BY <1>2 DEF End, Started, Connected, Migrated
<1>5. (Closing /\ Probed)'
  BY <1>2 DEF End, Closing, Probed
<1> QED
  BY <1>3, <1>4, <1>5, TypeParts DEF IInv

-----------------------------------------------------------------------------
(* main.                                                                   *)

\* An attempt to connect reaches a store, waits for the next attempt or is the
\* last one.
LEMMA ConnectStep == ASSUME IInv, Connect PROVE IInv'
<1>1. CASE End
  BY <1>1, EndStep, TypeParts DEF IInv, Types, Connect
<1>2. CASE Retry /\ main.tries + 1 < Attempts
  <2>1. /\ main' = [main EXCEPT !.tries = @ + 1] /\ main.pc = "connect"
        /\ main \in MainRecords
    BY <1>2, TypeParts DEF Connect, Retry, IInv, Types
  <2>2. /\ main' \in MainRecords
        /\ main'.pc = "connect" /\ main'.store = main.store
    BY <1>2, <2>1, Bounds DEF MainRecords
  <2>3. /\ late' = TRUE
        /\ UNCHANGED <<up, schema, cancelled, connected, closed, http, user, strikes, steady>>
    BY <1>2 DEF Connect, Retry
  <2>4. Types'
    BY <2>2, <2>3, TypeParts DEF IInv, Types
  <2>5. (Started /\ Connected /\ Migrated)'
    BY <2>1, <2>2, <2>3 DEF IInv, Started, NotStarted, Connected, Migrated
  <2>6. (Closing /\ Probed)'
    BY <2>1, <2>2, <2>3 DEF IInv, Closing, Probed
  <2> QED
    BY <2>4, <2>5, <2>6, TypeParts DEF IInv
<1>3. CASE Reached
  <2>1. /\ main.pc = "connect" /\ main \in MainRecords /\ main.store \in 1 .. 3
        /\ connected = Before(main.store)
        /\ connected' = connected \cup {StoreOrder[main.store]}
        /\ connected \subseteq Stores /\ closed = {} /\ ~cancelled
        /\ steady' = (Database \subseteq up)
        /\ UNCHANGED <<up, schema, cancelled, closed, http, user, strikes, late>>
    BY <1>3, TypeParts DEF Connect, Reached, Current, IInv, Types, MainRecords, Connected, Closing
  <2>2. connected' \subseteq Stores
    BY <2>1, Order
  <2>3. CASE main.store < 3
    <3>1. main' = [main EXCEPT !.store = @ + 1, !.tries = 0]
      BY <1>3, <2>3, Order DEF Reached
    <3>2. /\ main' \in MainRecords
          /\ main'.pc = "connect" /\ main'.store = main.store + 1
      <4>1. main' = [pc |-> "connect", store |-> main.store + 1, tries |-> 0]
        BY <2>1, <3>1 DEF MainRecords
      <4>2. main.store + 1 \in 1 .. 3 /\ 0 \in 0 .. Attempts - 1
        BY <2>1, <2>3, Bounds
      <4> QED
        BY <4>1, <4>2 DEF MainRecords
    <3>3. connected' = Before(main'.store)
      <4>1. main.store \in 1 .. 2
        BY <2>1, <2>3
      <4> QED
        BY <2>1, <3>2, <4>1, Order
    <3>4. Types'
      BY <2>1, <2>2, <3>2, TypeParts DEF IInv, Types
    <3>5. (Started /\ Connected /\ Migrated)'
      BY <2>1, <3>2, <3>3 DEF IInv, Started, NotStarted, Connected, Migrated
    <3>6. (Closing /\ Probed)'
      BY <2>1, <3>2 DEF IInv, Closing, Probed
    <3> QED
      BY <3>4, <3>5, <3>6, TypeParts DEF IInv
  <2>4. CASE main.store = 3
    <3>1. main' = [main EXCEPT !.pc = "migrate", !.store = 1, !.tries = 0]
      BY <1>3, <2>4, Order DEF Reached
    <3>2. /\ main' \in MainRecords
          /\ main'.pc = "migrate" /\ main'.store = 1
      <4>1. main' = [pc |-> "migrate", store |-> 1, tries |-> 0]
        BY <2>1, <3>1 DEF MainRecords
      <4> QED
        BY <4>1, Bounds DEF MainRecords
    <3>3. connected' = Stores
      BY <2>1, <2>4, Order
    <3>4. Types'
      BY <2>1, <2>2, <3>2, TypeParts DEF IInv, Types
    <3>5. (Started /\ Connected /\ Migrated)'
      BY <2>1, <3>2, <3>3 DEF IInv, Started, NotStarted, Connected, Migrated
    <3>6. (Closing /\ Probed)'
      BY <2>1, <3>2 DEF IInv, Closing, Probed
    <3> QED
      BY <3>4, <3>5, <3>6, TypeParts DEF IInv
  <2> QED
    BY <2>1, <2>3, <2>4
<1> QED
  BY <1>1, <1>2, <1>3 DEF Connect

\* main goes from one place to another, none of them "connect" or "ended".
LEMMA GotoStep ==
  ASSUME main \in MainRecords, NEW pc, Goto(pc),
         pc \in {"start", "select", "shutdown", "wait", "close"}
  PROVE  main' \in MainRecords /\ main'.pc = pc /\ main'.store = main.store
  BY DEF Goto, MainRecords

LEMMA MigrateStep == ASSUME IInv, Migrate PROVE IInv'
<1>1. CASE "host" \notin up /\ End /\ UNCHANGED schema
  BY <1>1, EndStep, TypeParts DEF IInv, Types, Migrate
<1>2. CASE Applied \/ Ignored
  <2>1. /\ main.pc = "migrate" /\ main \in MainRecords
        /\ Goto("start")
        /\ UNCHANGED <<up, cancelled, connected, closed, http, user, strikes, late, steady>>
    BY <1>2, TypeParts DEF Migrate, Applied, Ignored, IInv, Types
  <2>2. main' \in MainRecords /\ main'.pc = "start" /\ main'.store = main.store
    BY <2>1, GotoStep
  <2>3. schema' \in BOOLEAN /\ (steady => schema')
    <3>1. schema \in BOOLEAN /\ (steady => Database \subseteq up /\ ~cancelled)
      BY <2>1, TypeParts DEF IInv, Types, Migrated
    <3>2. CASE Applied
      BY <3>2 DEF Applied
    <3>3. CASE /\ "postgres" \notin up \/ cancelled
               /\ schema' \in {schema, schema \/ "timescaledb" \in up}
      BY <3>1, <3>3 DEF Database
    <3>4. CASE "timescaledb" \notin up /\ ~schema /\ UNCHANGED schema
      BY <3>1, <3>4 DEF Database
    <3>5. CASE schema' = TRUE
      BY <3>5
    <3> QED
      BY <1>2, <3>2, <3>3, <3>4, <3>5 DEF Ignored
  <2>4. Types'
    BY <2>1, <2>2, <2>3, TypeParts DEF IInv, Types
  <2>5. (Started /\ Connected /\ Migrated)'
    BY <2>1, <2>2, <2>3 DEF IInv, Started, NotStarted, Connected, Migrated
  <2>6. (Closing /\ Probed)'
    BY <2>1, <2>2 DEF IInv, Closing, Probed
  <2> QED
    BY <2>4, <2>5, <2>6, TypeParts DEF IInv
<1> QED
  BY <1>1, <1>2 DEF Migrate

LEMMA StartStep == ASSUME IInv, Start PROVE IInv'
<1>1. /\ main.pc = "start" /\ main \in MainRecords /\ Goto("select")
      /\ user' = [u \in Users |-> IF u \in Requests THEN Off ELSE Idle]
      /\ http' = "starting"
      /\ UNCHANGED <<up, schema, cancelled, connected, closed, strikes, late, steady>>
  BY TypeParts DEF Start, IInv, Types
<1>2. main' \in MainRecords /\ main'.pc = "select" /\ main'.store = main.store
  BY <1>1, GotoStep
<1>3. user' \in [Users -> UserRecords]
  BY <1>1, Goroutines
<1>4. Types'
  BY <1>1, <1>2, <1>3, TypeParts DEF IInv, Types
<1>5. (Started /\ Connected /\ Migrated)'
  BY <1>1, <1>2 DEF IInv, Started, NotStarted, Connected, Migrated
<1>6. (Closing /\ Probed)'
  BY <1>1, <1>2 DEF IInv, Closing, Probed
<1> QED
  BY <1>4, <1>5, <1>6, TypeParts DEF IInv

\* The steps of main between the start and the closing of the stores.
LEMMA ShutdownStep ==
  ASSUME IInv, Select \/ ShutdownServer \/ Wait
  PROVE  IInv'
<1>1. CASE Select /\ End
  BY <1>1, EndStep, TypeParts DEF IInv, Types, Select
<1>2. CASE ~End
  <2>1. PICK pc \in {"shutdown", "wait", "close"} :
          /\ Goto(pc)
          /\ main.pc \in {"select", "shutdown", "wait"}
          /\ pc = "close" => \A w \in Workers : user[w].pc = "stopped"
          /\ http' = http \/ http' = "down"
          /\ UNCHANGED <<up, schema, cancelled, connected, closed, user, strikes, late, steady>>
    <3>1. CASE Select
      BY <1>2, <3>1 DEF Select
    <3>2. CASE ShutdownServer
      BY <3>2 DEF ShutdownServer
    <3>3. CASE Wait
      BY <3>3 DEF Wait
    <3> QED
      BY <3>1, <3>2, <3>3
  <2>2. main' \in MainRecords /\ main'.pc = pc /\ main'.store = main.store
    BY <2>1, GotoStep, TypeParts DEF IInv, Types
  <2>3. Types'
    BY <2>1, <2>2, TypeParts DEF IInv, Types
  <2>4. (Started /\ Connected /\ Migrated)'
    BY <2>1, <2>2 DEF IInv, Started, NotStarted, Connected, Migrated
  <2>5. main.store = 1 /\ closed = {}
    BY <2>1 DEF IInv, Closing
  <2>6. (Closing /\ Probed)'
    BY <2>1, <2>2, <2>5, Order DEF IInv, Closing, Probed
  <2> QED
    BY <2>3, <2>4, <2>6, TypeParts DEF IInv
<1> QED
  BY <1>1, <1>2 DEF ShutdownServer, Wait, Goto, End, AtConnect

LEMMA CloseBeginStep == ASSUME IInv, CloseBegin PROVE IInv'
<1>1. /\ main.pc = "close" /\ main.store \in 1 .. 3
      /\ closed' = closed \cup {StoreOrder[main.store]}
      /\ connected = Stores
      /\ UNCHANGED <<up, schema, main, cancelled, connected, http, user, strikes, late, steady>>
  BY TypeParts DEF CloseBegin, Current, IInv, Types, MainRecords, Connected
<1>2. closed' \subseteq connected
  BY <1>1, Order, TypeParts DEF IInv, Types
<1>3. Types'
  BY <1>1, <1>2, TypeParts DEF IInv, Types
<1>4. (Started /\ Connected /\ Migrated)'
  BY <1>1 DEF IInv, Started, NotStarted, Connected, Migrated
<1>5. (Closing /\ Probed)'
  BY <1>1 DEF IInv, Closing, Probed
<1> QED
  BY <1>3, <1>4, <1>5, TypeParts DEF IInv

LEMMA CloseEndStep == ASSUME IInv, CloseEnd PROVE IInv'
<1>1. CASE End
  BY <1>1, EndStep, TypeParts DEF IInv, Types, CloseEnd
<1>2. CASE /\ main.store < Len(StoreOrder)
           /\ main' = [main EXCEPT !.store = @ + 1]
           /\ UNCHANGED <<cancelled, connected, closed, http, user, strikes, late, steady>>
  <2>1. /\ main.pc = "close" /\ main \in MainRecords /\ main.store \in 1 .. 2
        /\ StoreOrder[main.store] \in closed
        /\ \A u \in Users : StoreOrder[main.store] \notin user[u].conns
        /\ UNCHANGED <<up, schema>>
    BY <1>2, TypeParts, Order DEF CloseEnd, Current, IInv, Types, MainRecords
  <2>2. /\ main' \in MainRecords
        /\ main'.pc = "close" /\ main'.store = main.store + 1
    BY <1>2, <2>1 DEF MainRecords
  <2>3. Before(main'.store) = Before(main.store) \cup {StoreOrder[main.store]}
    BY <2>1, <2>2, Order
  <2>4. Types'
    BY <1>2, <2>1, <2>2, TypeParts DEF IInv, Types
  <2>5. (Started /\ Connected /\ Migrated)'
    BY <1>2, <2>1, <2>2 DEF IInv, Started, NotStarted, Connected, Migrated
  <2>6. (Closing /\ Probed)'
    BY <1>2, <2>1, <2>2, <2>3 DEF IInv, Closing, Probed
  <2> QED
    BY <2>4, <2>5, <2>6, TypeParts DEF IInv
<1> QED
  BY <1>1, <1>2 DEF CloseEnd

-----------------------------------------------------------------------------
(* The goroutines.                                                         *)

\* A goroutine may change its record as long as it does not come back from
\* having stopped and takes no connection to a store that is being closed.
LEMMA UserStep ==
  ASSUME IInv, ~NotStarted, NEW u \in Users, NEW r \in UserRecords,
         user' = [user EXCEPT ![u] = r],
         user[u].pc = "stopped" => r.pc = "stopped",
         r.conns \cap closed \subseteq user[u].conns,
         UNCHANGED <<up, schema, main, cancelled, connected, closed, http, strikes, late, steady>>
  PROVE  IInv'
<1>1. /\ user \in [Users -> UserRecords] /\ user' \in [Users -> UserRecords]
      /\ user'[u] = r /\ \A v \in Users \ {u} : user'[v] = user[v]
  BY TypeParts DEF IInv, Types
<1>2. Types'
  BY <1>1, TypeParts DEF IInv, Types
<1>3. (Started /\ Connected /\ Migrated)'
  BY DEF IInv, Started, NotStarted, Connected, Migrated
<1>4. Closing'
  <2>1. ASSUME main.pc = "close" 
        PROVE  /\ \A w \in Workers : user'[w].pc = "stopped"
               /\ \A v \in Users : user'[v].conns \cap Before(main.store) = {}
    BY <1>1, <2>1 DEF IInv, Closing, Users
  <2> QED
    BY <2>1 DEF IInv, Closing
<1>5. Probed'
  BY DEF IInv, Probed
<1> QED
  BY <1>2, <1>3, <1>4, <1>5, TypeParts DEF IInv

\* A goroutine that is not off was started.
LEMMA NotOff ==
  ASSUME IInv, NEW u \in Users, user[u] # Off \/ http # "off"
  PROVE  ~NotStarted
  BY Goroutines DEF IInv, Started

LEMMA RequestStep ==
  ASSUME IInv, NEW r \in Requests, Arrive(r) \/ Answer(r)
  PROVE  IInv'
<1>1. r \in Users /\ (user[r] = Off \/ user[r] = Idle) /\ (user[r] # Off \/ http # "off")
  BY Goroutines DEF Arrive, Answer, Users
<1>2. ~NotStarted
  BY <1>1, NotOff
<1>3. PICK x \in {Off, Idle} : user' = [user EXCEPT ![r] = x]
  BY DEF Arrive, Answer
<1>4. x \in UserRecords /\ x.conns = {} /\ user[r].pc # "stopped"
  BY <1>1, <1>3, Goroutines
<1> QED
  BY <1>1, <1>2, <1>3, <1>4, UserStep DEF Arrive, Answer

LEMMA AcquireStep == ASSUME IInv, NEW u \in Users, Acquire(u) PROVE IInv'
<1>1. user[u] = Idle /\ user[u] # Off /\ user \in [Users -> UserRecords]
  BY Goroutines, TypeParts DEF Acquire, IInv, Types
<1>2. PICK conns \in Takes(u) : /\ conns \cap closed = {}
                               /\ user' = [user EXCEPT ![u].conns = conns]
  BY DEF Acquire
<1> DEFINE r == [user[u] EXCEPT !.conns = conns]
<1>3. conns \in SUBSET Waited
  BY <1>2, TakesWaited
<1>4. r \in UserRecords /\ r.conns = conns /\ r.pc = "idle"
  BY <1>1, <1>3, Goroutines DEF UserRecords
<1>5. user' = [user EXCEPT ![u] = r]
  BY <1>1, <1>2
<1>6. user[u].pc = "idle"
  BY <1>1, Goroutines
<1>7. ~NotStarted
  BY <1>1, NotOff
<1> HIDE DEF r
<1> QED
  BY <1>2, <1>4, <1>5, <1>6, <1>7, UserStep DEF Acquire

LEMMA ReleaseStep ==
  ASSUME IInv, NEW u \in Users, NEW d \in Waited, Release(u, d)
  PROVE  IInv'
<1> DEFINE r == [user[u] EXCEPT !.conns = @ \ {d}]
<1>1. user \in [Users -> UserRecords] /\ d \in user[u].conns
  BY TypeParts DEF Release, IInv, Types
<1>2. user[u] # Off
  BY <1>1, Goroutines
<1>3. r \in UserRecords /\ r.conns = user[u].conns \ {d} /\ r.pc = user[u].pc
  BY <1>1 DEF UserRecords
<1>4. user' = [user EXCEPT ![u] = r]
  BY <1>1 DEF Release
<1>5. ~NotStarted
  BY <1>2, NotOff
<1> HIDE DEF r
<1> QED
  BY <1>3, <1>4, <1>5, UserStep DEF Release

LEMMA StopStep == ASSUME IInv, NEW u \in Users, Stop(u) PROVE IInv'
<1> DEFINE r == [user[u] EXCEPT !.pc = "stopped"]
<1>1. user[u] = Idle /\ user[u] # Off /\ user \in [Users -> UserRecords]
  BY Goroutines, TypeParts DEF Stop, IInv, Types
<1>2. r \in UserRecords /\ r.conns = user[u].conns /\ r.pc = "stopped"
  BY <1>1 DEF UserRecords
<1>3. user' = [user EXCEPT ![u] = r]
  BY <1>1 DEF Stop
<1>4. ~NotStarted
  BY <1>1, NotOff
<1> HIDE DEF r
<1> QED
  BY <1>2, <1>3, <1>4, UserStep DEF Stop

LEMMA ListenStep == ASSUME IInv, Listen PROVE IInv'
<1>1. /\ http = "starting" /\ http' \in {"serving", "failed"} /\ late' = FALSE
      /\ UNCHANGED <<up, schema, main, cancelled, connected, closed, user, strikes, steady>>
  BY DEF Listen
<1>2. ~NotStarted
  BY <1>1 DEF IInv, Started
<1>3. Types'
  BY <1>1, TypeParts DEF IInv, Types
<1>4. (Started /\ Connected /\ Migrated)'
  BY <1>1, <1>2 DEF IInv, Started, NotStarted, Connected, Migrated
<1>5. (Closing /\ Probed)'
  BY <1>1 DEF IInv, Closing, Probed
<1> QED
  BY <1>3, <1>4, <1>5, TypeParts DEF IInv

-----------------------------------------------------------------------------
(* The environment.                                                        *)

\* A step that changes nothing of the process but cancels or probes it.
LEMMA OutsideStep ==
  ASSUME IInv,
         UNCHANGED <<main, connected, closed, http, user, late>>,
         steady' \in BOOLEAN, steady' => steady,
         main.pc = "migrate" /\ steady' => Database \subseteq up' /\ ~cancelled',
         up' \subseteq Resources, schema' \in BOOLEAN, schema => schema',
         cancelled' \in BOOLEAN, strikes' \in 0 .. Threshold, Probed'
  PROVE  IInv'
<1>1. Types'
  BY TypeParts DEF IInv, Types
<1>2. (Started /\ Connected /\ Migrated)'
  BY DEF IInv, Started, NotStarted, Connected, Migrated
<1>3. Closing'
  BY DEF IInv, Closing
<1> QED
  BY <1>1, <1>2, <1>3, TypeParts DEF IInv

LEMMA EnvironmentStep == ASSUME IInv, Environment PROVE IInv'
<1>1. /\ up \subseteq Resources /\ schema \in BOOLEAN /\ cancelled \in BOOLEAN
      /\ strikes \in 0 .. Threshold /\ main \in MainRecords /\ steady \in BOOLEAN
  BY TypeParts DEF IInv, Types
<1>2. Probed /\ (main.pc = "migrate" /\ steady => Database \subseteq up /\ ~cancelled)
  BY DEF IInv, Migrated
<1>3. ASSUME NEW r \in Resources, Change(r)
      PROVE  IInv'
  <2>1. up' \subseteq Resources
    BY <1>1, <1>3 DEF Change
  <2>2. Probed'
    BY <1>2, <1>3 DEF Change, Probed
  <2>3. steady' \in BOOLEAN /\ (steady' <=> steady /\ (main.pc = "migrate" => Database \subseteq up'))
    BY <1>3, Zenon DEF Change
  <2> QED
    BY <1>1, <1>2, <1>3, <2>1, <2>2, <2>3, OutsideStep DEF Change
<1>4. CASE OtherReplicaMigrates
  <2>1. Probed'
    BY <1>2, <1>4 DEF OtherReplicaMigrates, process, Probed
  <2> QED
    BY <1>1, <1>2, <1>4, <2>1, OutsideStep DEF OtherReplicaMigrates, process
<1>5. CASE Sigterm
  <2>1. Probed'
    BY <1>5 DEF Sigterm, Probed
  <2>2. steady' \in BOOLEAN /\ (steady' <=> steady /\ main.pc # "migrate")
    BY <1>5, Zenon DEF Sigterm
  <2> QED
    BY <1>1, <1>5, <2>1, <2>2, OutsideStep DEF Sigterm
<1>6. CASE Probe
  <2>1. strikes < Threshold
    BY <1>2, <1>6 DEF Probe, Probed
  <2>2. strikes' \in 0 .. Threshold /\ cancelled' = (strikes' = Threshold)
    <3>1. /\ strikes' = 0 \/ strikes' = strikes + 1
          /\ cancelled' = (strikes' = Threshold)
      BY <1>6 DEF Probe
    <3>2. strikes' \in 0 .. Threshold
      BY <1>1, <2>1, <3>1, Bounds
    <3> QED
      BY <3>1, <3>2
  <2>3. Probed' /\ cancelled' \in BOOLEAN
    <3>1. cancelled' \in BOOLEAN
      <4>1. (strikes' = Threshold) \in BOOLEAN
        OBVIOUS
      <4> QED
        BY <2>2, <4>1, Zenon
    <3>2. ~cancelled' => strikes' # Threshold
      BY <2>2, Zenon
    <3>3. ~cancelled' => strikes' < Threshold
      BY <2>2, <3>2, Bounds
    <3> QED
      BY <3>1, <3>3 DEF Probed
  <2>4. steady' \in BOOLEAN /\ (steady' <=> steady /\ (main.pc = "migrate" => ~cancelled'))
    BY <1>6, Zenon DEF Probe
  <2> QED
    BY <1>1, <1>2, <1>6, <2>2, <2>3, <2>4, OutsideStep DEF Probe
<1>7. CASE Kill
  BY <1>1, <1>7, EndStep DEF Kill
<1>8. CASE Restart
  <2>1. /\ main.pc = "ended" /\ main' = [pc |-> "connect", store |-> 1, tries |-> 0]
        /\ UNCHANGED <<up, schema, cancelled, connected, closed, http, user, strikes, late, steady>>
    BY <1>8 DEF Restart, AtConnect, Running
  <2>2. main' \in MainRecords /\ main'.pc = "connect" /\ main'.store = 1
    BY <2>1, Bounds DEF MainRecords
  <2>3. Types'
    BY <2>1, <2>2, TypeParts DEF IInv, Types
  <2>4. (Started /\ Connected /\ Migrated)'
    BY <2>1, <2>2, Order DEF IInv, Started, NotStarted, Connected, Migrated
  <2>5. (Closing /\ Probed)'
    BY <2>1, <2>2 DEF IInv, Closing, Probed
  <2> QED
    BY <2>3, <2>4, <2>5, TypeParts DEF IInv
<1> QED
  BY <1>3, <1>4, <1>5, <1>6, <1>7, <1>8 DEF Environment

-----------------------------------------------------------------------------
(* The theorems.                                                           *)

LEMMA InitIInv == Init => IInv
<1> SUFFICES ASSUME Init PROVE IInv
  OBVIOUS
<1>1. main = [pc |-> "connect", store |-> 1, tries |-> 0]
  BY DEF Init, AtConnect
<1>2. main \in MainRecords /\ main.pc = "connect" /\ main.store = 1
  BY <1>1, Bounds DEF MainRecords
<1>3. Types
  <2>1. user \in [Users -> UserRecords] /\ strikes \in 0 .. Threshold
    BY Goroutines, Bounds DEF Init
  <2> QED
    BY <1>2, <2>1 DEF Init, Types
<1>4. Started /\ Connected /\ Migrated
  BY <1>2, Order DEF Init, Started, Connected, Migrated
<1>5. Closing /\ Probed
  BY <1>2, Bounds DEF Init, Closing, Probed
<1> QED
  BY <1>3, <1>4, <1>5, TypeParts DEF IInv

LEMMA NextIInv == IInv /\ [Next]_vars => IInv'
<1> SUFFICES ASSUME IInv, [Next]_vars PROVE IInv'
  OBVIOUS
<1>1. CASE Main
  BY <1>1, ConnectStep, MigrateStep, StartStep, ShutdownStep, CloseBeginStep, CloseEndStep
     DEF Main
<1>2. CASE Listen
  BY <1>2, ListenStep
<1>3. CASE Environment
  BY <1>3, EnvironmentStep
<1>4. ASSUME NEW r \in Requests, Arrive(r) \/ Answer(r)
      PROVE  IInv'
  BY <1>4, RequestStep
<1>5. ASSUME NEW u \in Users, Acquire(u) \/ Stop(u) \/ \E d \in Waited : Release(u, d)
      PROVE  IInv'
  BY <1>5, AcquireStep, StopStep, ReleaseStep
<1>6. CASE UNCHANGED vars
  <2>1. Types' /\ Probed'
    BY <1>6, TypeParts DEF IInv, Types, Probed, vars, process
  <2>2. main.pc = "migrate" /\ steady => Database \subseteq up /\ ~cancelled
    BY DEF IInv, Migrated
  <2> QED
    BY <1>6, <2>1, <2>2, OutsideStep DEF Types, vars, process
<1> QED
  BY <1>1, <1>2, <1>3, <1>4, <1>5, <1>6 DEF Next

\* What main has connected, started and closed is determined by where it is,
\* in every reachable state.
THEOREM Invariance == Spec => []IInv
  BY InitIInv, NextIInv, PTL DEF Spec

\* No store is tried more often than the code's attempts allow, no probe is
\* counted beyond the threshold, and the stores, connections and goroutines
\* have their types, for any number of each.
THEOREM TypeCorrect == Spec => []TypeOK
<1>1. IInv => TypeOK
  BY DEF IInv
<1> QED
  BY <1>1, Invariance, PTL

\* main closes the stores only when every worker has returned, and leaves a
\* store behind only when nobody holds a connection to it: the requests and
\* loops that Pool.Wait does not wait for included, whenever the signal came.
THEOREM WorkersOutlived == Spec => []StoresOutliveWorkers
<1>1. IInv => StoresOutliveWorkers
  <2> SUFFICES ASSUME IInv PROVE StoresOutliveWorkers
    OBVIOUS
  <2>1. ASSUME main.pc = "close", NEW n \in 1 .. main.store - 1, NEW u \in Users
        PROVE  StoreOrder[n] \notin user[u].conns
    BY <2>1 DEF IInv, Closing, Before
  <2>2. closed # {} => main.pc = "close"
    BY DEF IInv, Closing
  <2> QED
    BY <2>1, <2>2 DEF IInv, Closing, StoresOutliveWorkers
<1> QED
  BY <1>1, Invariance, PTL

\* A process that takes requests has connected to all three stores, and has its
\* tables if the database, with its extension, was there and nobody stopped the
\* process while it was migrated, whatever other replicas migrate meanwhile.
THEOREM ServesReady == Spec => []ServingIsReady
<1>1. IInv => ServingIsReady
  BY DEF IInv, Started, NotStarted, Connected, Migrated, ServingIsReady
<1> QED
  BY <1>1, Invariance, PTL
=============================================================================
