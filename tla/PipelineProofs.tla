--------------------------- MODULE PipelineProofs ---------------------------
(***************************************************************************)
(* Proofs about module Pipeline, for any signals, workers, capacity of the *)
(* channel and number of attempts.                                         *)
(*                                                                         *)
(* The argument has three layers.  Placed says where a signal is, without  *)
(* counting: what the queue took is in the channel, with a worker or       *)
(* settled, and never in two of these.  On top of it Persisted ties the    *)
(* goroutines of a worker to the stores, and Counted bounds signal_count   *)
(* from both sides by the cardinality of sets that grow by one element     *)
(* with every UPDATE.                                                      *)
(***************************************************************************)
EXTENDS Pipeline, FiniteSetTheorems, SequenceTheorems, TLAPS

USE CapacityAssumption, AttemptsAssumption, SignalsAssumption, WorkersAssumption

-----------------------------------------------------------------------------
(* The inductive invariant.                                                *)

\* The queue took s.
TookIn(s) == handler[s] \in {"Count", "202"}

Busy(w) == worker[w].pc = "busy"
Waiting(s) == \E n \in 1 .. Len(ch) : ch[n] = s
Held(s) == \E w \in Workers : worker[w].signal = s
Done == processed \cup errors

\* Where a signal is: in at most one place, and in one exactly when the queue
\* took it.  A worker that is not busy holds nothing.
Placed ==
  /\ \A w \in Workers : Busy(w) <=> worker[w].signal # Null
  /\ \A s \in Signals : TookIn(s) <=> Waiting(s) \/ Held(s) \/ s \in Done
  /\ \A m, n \in 1 .. Len(ch) : ch[m] = ch[n] => m = n
  /\ \A v, w \in Workers : worker[v].signal = worker[w].signal /\ Busy(v) => v = w
  /\ \A s \in Signals : Waiting(s) => ~Held(s) /\ s \notin Done
  /\ \A s \in Signals : Held(s) => s \notin Done
  /\ processed \cap errors = {}

\* What the goroutines of a worker have done: nothing but what a worker took is
\* in MongoDB, and the signal is there when its branch has succeeded.
Persisted ==
  /\ processed \subseteq mongo
  /\ \A w \in Workers :
       Busy(w) /\ worker[w].branch["mongo"].st = "ok" => worker[w].signal \in mongo
  /\ \A s \in mongo : Held(s) \/ s \in Done

\* The signals whose UPDATE is known to be committed.
Credited(i) ==
  {s \in Signals : /\ ItemOf[s] = i
                   /\ \/ s \in processed
                      \/ \E w \in Workers : /\ worker[w].signal = s
                                            /\ worker[w].branch["pg"].st = "ok"}

\* The attempts a worker may have made at the UPDATE.
Used(w) == IF worker[w].branch["pg"].st = "run" THEN worker[w].branch["pg"].tries
                                                ELSE Attempts

\* The attempts that may have counted for item i.
Tickets(i) ==
  {t \in Signals \X (1 .. Attempts) :
     /\ ItemOf[t[1]] = i
     /\ \/ t[1] \in Done
        \/ \E w \in Workers : worker[w].signal = t[1] /\ t[2] <= Used(w)}

Counted ==
  \A i \in Items : /\ count[i] >= 1 + Cardinality(Credited(i))
                   /\ count[i] <= 1 + Cardinality(Tickets(i))

IInv == TypeOK /\ Placed /\ Persisted /\ Counted

-----------------------------------------------------------------------------
(* Types.                                                                  *)

BranchRecords == [st : {"run", "ok", "failed"}, tries : 0 .. Attempts - 1]
WorkerRecords == [pc : {"idle", "busy", "stopped"}, signal : Signals \cup {Null},
                  live : BOOLEAN, branch : [Branches -> BranchRecords]]

\* The records a worker starts from.
LEMMA WorkerTypes == /\ Ready \in [Branches -> BranchRecords]
                     /\ IdleWorker \in WorkerRecords
<1>1. [st |-> "run", tries |-> 0] \in BranchRecords
  BY DEF BranchRecords
<1>2. Ready \in [Branches -> BranchRecords]
  BY <1>1 DEF Ready
<1> QED
  BY <1>2 DEF IdleWorker, WorkerRecords

\* A step that gives one worker a new record, and only shortens or keeps what
\* the type invariant bounds, preserves it.
LEMMA WorkerUpdate ==
  ASSUME worker \in [Workers -> WorkerRecords], NEW w \in Workers,
         NEW r \in WorkerRecords, worker' = [worker EXCEPT ![w] = r]
  PROVE  /\ worker' \in [Workers -> WorkerRecords]
         /\ worker'[w] = r
         /\ \A v \in Workers \ {w} : worker'[v] = worker[v]
  OBVIOUS

\* A branch is settled: its record changes and nothing else of the worker.
LEMMA SettleStep ==
  ASSUME worker \in [Workers -> WorkerRecords], NEW w \in Workers, NEW b \in Branches,
         NEW st \in {"ok", "failed"}, Settle(w, b, st)
  PROVE  /\ worker' \in [Workers -> WorkerRecords]
         /\ \A v \in Workers \ {w} : worker'[v] = worker[v]
         /\ worker'[w].pc = worker[w].pc /\ worker'[w].signal = worker[w].signal
         /\ worker'[w].live = worker[w].live
         /\ worker'[w].branch[b] = [st |-> st, tries |-> 0]
         /\ \A c \in Branches \ {b} : worker'[w].branch[c] = worker[w].branch[c]
<1> DEFINE x == [st |-> st, tries |-> 0]
           r == [worker[w] EXCEPT !.branch[b] = x]
<1>1. x \in BranchRecords
  BY DEF BranchRecords
<1> HIDE DEF x
<1>2. /\ r \in WorkerRecords
      /\ r.pc = worker[w].pc /\ r.signal = worker[w].signal /\ r.live = worker[w].live
      /\ r.branch[b] = x
      /\ \A c \in Branches \ {b} : r.branch[c] = worker[w].branch[c]
  BY <1>1 DEF WorkerRecords
<1>3. worker' = [worker EXCEPT ![w] = r]
  BY DEF Settle, x
<1> HIDE DEF r
<1> QED
  BY <1>2, <1>3, WorkerUpdate DEF x

\* A repeated attempt counts one more try, or the branch fails.
LEMMA RetryStep ==
  ASSUME worker \in [Workers -> WorkerRecords], NEW w \in Workers, NEW b \in Branches,
         Runs(w, b), RetryOrFail(w, b)
  PROVE  /\ worker' \in [Workers -> WorkerRecords]
         /\ \A v \in Workers \ {w} : worker'[v] = worker[v]
         /\ worker'[w].pc = worker[w].pc /\ worker'[w].signal = worker[w].signal
         /\ worker'[w].live = worker[w].live
         /\ \/ worker'[w].branch[b] = [st |-> "failed", tries |-> 0]
            \/ worker'[w].branch[b] = [st |-> "run", tries |-> worker[w].branch[b].tries + 1]
         /\ \A c \in Branches \ {b} : worker'[w].branch[c] = worker[w].branch[c]
<1>1. CASE Settle(w, b, "failed")
  BY <1>1, SettleStep
<1>2. CASE /\ worker[w].branch[b].tries < Attempts - 1
           /\ worker' = [worker EXCEPT ![w].branch[b].tries = @ + 1]
  <2> DEFINE x == [worker[w].branch[b] EXCEPT !.tries = @ + 1]
             r == [worker[w] EXCEPT !.branch[b] = x]
  <2>1. worker[w] \in WorkerRecords /\ worker[w].branch[b] \in BranchRecords
    BY DEF WorkerRecords
  <2>2. x \in BranchRecords /\ x = [st |-> "run", tries |-> worker[w].branch[b].tries + 1]
    BY <1>2, <2>1 DEF BranchRecords, Runs
  <2>3. worker' = [worker EXCEPT ![w] = r]
    BY <1>2
  <2> HIDE DEF x
  <2>4. /\ r \in WorkerRecords
        /\ r.pc = worker[w].pc /\ r.signal = worker[w].signal /\ r.live = worker[w].live
        /\ r.branch[b] = x
        /\ \A c \in Branches \ {b} : r.branch[c] = worker[w].branch[c]
    BY <2>1, <2>2 DEF WorkerRecords
  <2> HIDE DEF r
  <2> QED
    BY <2>2, <2>3, <2>4, WorkerUpdate
<1> QED
  BY <1>1, <1>2 DEF RetryOrFail

\* The type invariant, one variable at a time.
Types ==
  /\ phase \in Phases
  /\ handler \in [Signals -> {"new", "Count", "202", "429"}]
  /\ ch \in Seq(Signals) /\ Len(ch) <= Capacity
  /\ enqueued \subseteq Signals /\ dropped \subseteq Signals
  /\ processed \subseteq Signals /\ errors \subseteq Signals
  /\ mongo \subseteq Signals
  /\ worker \in [Workers -> WorkerRecords]
  /\ count \in [Items -> Nat]

\* It says the same as TypeOK, in both states of a step.
LEMMA TypeParts == (TypeOK <=> Types) /\ (TypeOK' <=> Types')
  BY DEF TypeOK, Types, WorkerRecords, BranchRecords

\* A busy worker has a signal.
LEMMA BusySignal ==
  ASSUME TypeOK, Placed, NEW w \in Workers, Busy(w)
  PROVE  worker[w].signal \in Signals /\ Held(worker[w].signal)
<1>1. worker[w] \in WorkerRecords
  BY TypeParts DEF Types
<1> QED
  BY <1>1 DEF WorkerRecords, Placed, Held

-----------------------------------------------------------------------------
(* Frame conditions.                                                       *)

\* No worker takes, gives up or finishes a signal.
SameHolders ==
  \A w \in Workers : worker'[w].signal = worker[w].signal /\ (Busy(w)' <=> Busy(w))

\* Where the signals are does not change when nobody moves one.
LEMMA KeepPlaced ==
  ASSUME Placed, UNCHANGED <<ch, processed, errors>>, SameHolders,
         \A s \in Signals : TookIn(s)' <=> TookIn(s)
  PROVE  Placed'
<1>1. \A s \in Signals : /\ Waiting(s)' <=> Waiting(s)
                         /\ Held(s)' <=> Held(s)
  BY DEF Waiting, Held, SameHolders
<1>2. Done' = Done
  BY DEF Done
<1> QED
  BY <1>1, <1>2 DEF Placed, SameHolders

\* Nothing is written to MongoDB and no branch for it succeeds.
LEMMA KeepPersisted ==
  ASSUME Persisted, UNCHANGED <<mongo, processed, errors>>, SameHolders,
         \A w \in Workers : worker'[w].branch["mongo"].st = "ok"
                              => worker[w].branch["mongo"].st = "ok"
  PROVE  Persisted'
<1>1. \A s : Held(s)' <=> Held(s)
  BY DEF Held, SameHolders
<1>2. Done' = Done
  BY DEF Done
<1> QED
  BY <1>1, <1>2 DEF Persisted, SameHolders

\* Nothing is counted and the branches for PostgreSQL stay as they are.
LEMMA KeepCounted ==
  ASSUME Counted, UNCHANGED <<count, processed, errors>>, SameHolders,
         \A w \in Workers : worker'[w].branch["pg"] = worker[w].branch["pg"]
  PROVE  Counted'
<1>1. \A w \in Workers : Used(w)' = Used(w)
  BY DEF Used
<1>2. \A i \in Items : Credited(i)' = Credited(i)
  BY DEF Credited, SameHolders
<1>3. \A i \in Items : Tickets(i)' = Tickets(i)
  BY <1>1 DEF Tickets, SameHolders, Done
<1> QED
  BY <1>2, <1>3 DEF Counted

\* What no step of main or of a handler touches.
LEMMA KeepWork ==
  ASSUME IInv, UNCHANGED <<worker, processed, errors, stores>>
  PROVE  SameHolders /\ Persisted' /\ Counted'
<1>1. SameHolders
  BY DEF SameHolders, Busy
<1> QED
  BY <1>1, KeepPersisted, KeepCounted DEF IInv, stores

-----------------------------------------------------------------------------
(* One lemma per action.                                                   *)

\* The invariant holds initially.
LEMMA InitIInv == Init => IInv
<1> SUFFICES ASSUME Init PROVE IInv
  OBVIOUS
<1>1. TypeOK
  BY WorkerTypes, TypeParts, EmptySeq DEF Init, Types, Phases, Items
<1>2. \A w \in Workers : worker[w] = IdleWorker
  BY DEF Init
<1>3. \A s \in Signals : ~Held(s) /\ ~Waiting(s) /\ ~TookIn(s)
  BY <1>2 DEF Init, Held, Waiting, TookIn, IdleWorker
<1>4. Placed
  BY <1>2, <1>3 DEF Init, Placed, Done, Busy, IdleWorker
<1>5. Persisted
  BY <1>2 DEF Init, Persisted, Busy, IdleWorker
<1>6. \A i \in Items : Credited(i) = {} /\ Tickets(i) = {}
  BY <1>2 DEF Init, Credited, Tickets, Done, IdleWorker
<1>7. Cardinality({}) = 0
  BY FS_EmptySet
<1>8. \A i \in Items : count[i] = 1
  BY DEF Init
<1>9. Counted
  BY <1>6, <1>7, <1>8 DEF Counted
<1> QED
  BY <1>1, <1>4, <1>5, <1>9 DEF IInv

\* main touches neither signals nor workers.
LEMMA MainStep ==
  ASSUME IInv, Cancel \/ ShutdownServer \/ Exit
  PROVE  IInv'
<1>1. UNCHANGED <<handler, ch, counters, worker, stores>> /\ phase' \in Phases
  BY DEF Cancel, ShutdownServer, Exit, Phases
<1>2. TypeOK'
  BY <1>1, TypeParts DEF IInv, Types, counters, stores
<1>3. SameHolders /\ Persisted' /\ Counted'
  BY <1>1, KeepWork DEF counters
<1>4. Placed'
  BY <1>1, <1>3, KeepPlaced DEF IInv, counters, TookIn
<1> QED
  BY <1>2, <1>3, <1>4 DEF IInv

\* A signal is put at the end of the channel, or refused.
LEMMA TryEnqueueStep ==
  ASSUME IInv, NEW s \in Signals, TryEnqueue(s)
  PROVE  IInv'
<1>1. /\ handler \in [Signals -> {"new", "Count", "202", "429"}]
      /\ ch \in Seq(Signals) /\ Len(ch) \in Nat
  BY TypeParts, LenProperties DEF IInv, Types
<1>2. UNCHANGED <<phase, enqueued, processed, errors, worker, stores>>
  BY DEF TryEnqueue
<1>3. SameHolders /\ Persisted' /\ Counted'
  BY <1>2, KeepWork
<1>4. ~TookIn(s)
  BY DEF TryEnqueue, TookIn
<1>5. CASE Len(ch) < Capacity
  <2>1. /\ ch' = Append(ch, s) /\ UNCHANGED dropped
        /\ handler' = [handler EXCEPT ![s] = "Count"]
    BY <1>5 DEF TryEnqueue
  <2>2. /\ ch' \in Seq(Signals) /\ Len(ch') = Len(ch) + 1
        /\ \A n \in 1 .. Len(ch) : ch'[n] = ch[n]
        /\ ch'[Len(ch) + 1] = s
    BY <1>1, <2>1, AppendProperties
  <2>3. TypeOK'
    BY <1>1, <1>2, <1>5, <2>1, <2>2, TypeParts DEF IInv, Types, stores
  <2>4. \A t \in Signals : Waiting(t)' <=> Waiting(t) \/ t = s
    BY <1>1, <2>2 DEF Waiting
  <2>5. \A t \in Signals : TookIn(t)' <=> TookIn(t) \/ t = s
    BY <1>1, <2>1 DEF TookIn
  <2>6. /\ \A t \in Signals : Held(t)' <=> Held(t)
        /\ Done' = Done
    BY <1>2, <1>3 DEF Held, SameHolders, Done
  <2>7. ~Waiting(s) /\ ~Held(s) /\ s \notin Done
    BY <1>4 DEF IInv, Placed
  <2>8. \A m, n \in 1 .. Len(ch)' : ch'[m] = ch'[n] => m = n
    BY <1>1, <2>2, <2>7 DEF IInv, Placed, Waiting
  <2>9. Placed'
    BY <1>2, <1>3, <2>4, <2>5, <2>6, <2>7, <2>8 DEF IInv, Placed, SameHolders
  <2> QED
    BY <1>3, <2>3, <2>9 DEF IInv
<1>6. CASE ~(Len(ch) < Capacity)
  <2>1. /\ dropped' = dropped \cup {s} /\ UNCHANGED ch
        /\ handler' = [handler EXCEPT ![s] = "429"]
    BY <1>6 DEF TryEnqueue
  <2>2. TypeOK'
    BY <1>1, <1>2, <2>1, TypeParts DEF IInv, Types, stores
  <2>3. \A t \in Signals : TookIn(t)' <=> TookIn(t)
    BY <1>1, <1>4, <2>1 DEF TookIn
  <2>4. Placed'
    BY <1>2, <1>3, <2>1, <2>3, KeepPlaced DEF IInv
  <2> QED
    BY <1>3, <2>2, <2>4 DEF IInv
<1> QED
  BY <1>5, <1>6

\* Counting an enqueued signal and answering its client move nothing.
LEMMA CountEnqueuedStep ==
  ASSUME IInv, NEW s \in Signals, CountEnqueued(s)
  PROVE  IInv'
<1>1. UNCHANGED <<phase, ch, dropped, processed, errors, worker, stores>>
  BY DEF CountEnqueued
<1>2. SameHolders /\ Persisted' /\ Counted'
  BY <1>1, KeepWork
<1>3. handler \in [Signals -> {"new", "Count", "202", "429"}]
  BY TypeParts DEF IInv, Types
<1>4. TypeOK'
  BY <1>1, <1>3, TypeParts DEF IInv, Types, CountEnqueued, stores
<1>5. \A t \in Signals : TookIn(t)' <=> TookIn(t)
  BY <1>3 DEF CountEnqueued, TookIn
<1>6. Placed'
  BY <1>1, <1>2, <1>5, KeepPlaced DEF IInv
<1> QED
  BY <1>2, <1>4, <1>6 DEF IInv

\* The oldest signal of the channel moves to an idle worker.
LEMMA TakeStep ==
  ASSUME IInv, NEW w \in Workers, Take(w)
  PROVE  IInv'
<1> DEFINE s == Head(ch)
           r == [pc |-> "busy", signal |-> s, live |-> ~Cancelled, branch |-> Ready]
<1>1. /\ ch \in Seq(Signals) /\ Len(ch) \in Nat /\ ch # <<>> /\ Len(ch) <= Capacity
      /\ worker \in [Workers -> WorkerRecords]
  BY TypeParts, LenProperties DEF IInv, Types, Take
<1>2. /\ s \in Signals /\ ch' \in Seq(Signals) /\ Len(ch') = Len(ch) - 1
      /\ \A n \in 1 .. Len(ch') : ch'[n] = ch[n + 1]
      /\ s = ch[1]
  BY <1>1, HeadTailProperties DEF Take
<1>3. r \in WorkerRecords
  BY <1>2, WorkerTypes DEF WorkerRecords
<1>4. worker' = [worker EXCEPT ![w] = r]
  BY DEF Take
<1>5. /\ r.pc = "busy" /\ r.signal = s
      /\ \A b \in Branches : r.branch[b].st = "run" /\ r.branch[b].tries = 0
  BY DEF Ready
<1>6. UNCHANGED <<phase, handler, counters, stores>>
  BY DEF Take
<1> HIDE DEF s, r
<1>7. /\ worker' \in [Workers -> WorkerRecords]
      /\ worker'[w] = r
      /\ \A v \in Workers \ {w} : worker'[v] = worker[v]
  BY <1>1, <1>3, <1>4, WorkerUpdate
<1>8. TypeOK'
  BY <1>1, <1>2, <1>6, <1>7, TypeParts DEF IInv, Types, counters, stores
<1>9. worker[w].signal = Null
  BY DEF IInv, Placed, Take, Busy
<1>10. \A t \in Signals : Held(t)' <=> Held(t) \/ t = s
  BY <1>5, <1>7, <1>9 DEF Held
<1>11. \A t \in Signals : Waiting(t)' <=> Waiting(t) /\ t # s
  <2> SUFFICES ASSUME NEW t \in Signals
               PROVE  Waiting(t)' <=> Waiting(t) /\ t # s
    OBVIOUS
  <2>1. ASSUME Waiting(t), t # s
        PROVE  Waiting(t)'
    <3>1. PICK n \in 1 .. Len(ch) : ch[n] = t
      BY <2>1 DEF Waiting
    <3>2. n - 1 \in 1 .. Len(ch') /\ ch'[n - 1] = t
      BY <1>1, <1>2, <2>1, <3>1
    <3> QED
      BY <3>2 DEF Waiting
  <2>2. ASSUME Waiting(t)'
        PROVE  Waiting(t) /\ t # s
    <3>1. PICK n \in 1 .. Len(ch') : ch'[n] = t
      BY <2>2 DEF Waiting
    <3>2. n + 1 \in 1 .. Len(ch) /\ ch[n + 1] = t
      BY <1>1, <1>2, <3>1
    <3>3. 1 \in 1 .. Len(ch) /\ n + 1 # 1
      BY <1>1, <1>2, <3>1
    <3> QED
      BY <1>2, <3>2, <3>3 DEF Waiting, IInv, Placed
  <2> QED
    BY <2>1, <2>2
<1>12. Waiting(s) /\ ~Held(s) /\ s \notin Done
  <2>1. Waiting(s)
    BY <1>1, <1>2 DEF Waiting
  <2> QED
    BY <1>2, <2>1 DEF IInv, Placed
<1>13. Done' = Done /\ \A t \in Signals : TookIn(t)' <=> TookIn(t)
  BY <1>6 DEF Done, TookIn, counters
<1>14. \A m, n \in 1 .. Len(ch)' : ch'[m] = ch'[n] => m = n
  <2> SUFFICES ASSUME NEW m \in 1 .. Len(ch'), NEW n \in 1 .. Len(ch'), ch'[m] = ch'[n]
               PROVE  m = n
    OBVIOUS
  <2>1. m + 1 \in 1 .. Len(ch) /\ n + 1 \in 1 .. Len(ch) /\ ch[m + 1] = ch[n + 1]
    BY <1>1, <1>2
  <2>2. m + 1 = n + 1
    BY <2>1 DEF IInv, Placed
  <2> QED
    BY <2>2
<1>15. Placed'
  <2>1. \A v \in Workers : Busy(v)' <=> worker'[v].signal # Null
    BY <1>2, <1>5, <1>7 DEF IInv, Placed, Busy
  <2>2. \A u, v \in Workers :
          worker'[u].signal = worker'[v].signal /\ Busy(u)' => u = v
    BY <1>2, <1>5, <1>7, <1>9, <1>12 DEF IInv, Placed, Busy, Held
  <2> QED
    BY <1>6, <1>10, <1>11, <1>12, <1>13, <1>14, <2>1, <2>2 DEF IInv, Placed, counters
<1>16. Persisted'
  <2>1. \A v \in Workers : Busy(v)' /\ worker'[v].branch["mongo"].st = "ok"
                            => worker'[v].signal \in mongo'
    BY <1>5, <1>6, <1>7 DEF IInv, Persisted, Busy, stores, Branches
  <2>2. mongo' = mongo /\ mongo \subseteq Signals
    BY <1>6, TypeParts DEF IInv, Types, stores
  <2> QED
    BY <1>6, <1>10, <1>13, <2>1, <2>2 DEF IInv, Persisted, counters
<1>17. Counted'
  <2>1. \A i \in Items : Credited(i)' = Credited(i)
    BY <1>5, <1>6, <1>7, <1>9 DEF Credited, Branches, counters
  <2>2. \A v \in Workers \ {w} : Used(v)' = Used(v)
    BY <1>7 DEF Used
  <2>3. Used(w)' = 0
    BY <1>5, <1>7 DEF Used, Branches
  <2>4. ASSUME NEW i \in Items
        PROVE  Tickets(i)' = Tickets(i)
    BY <1>7, <1>9, <1>13, <2>2, <2>3 DEF Tickets
  <2> QED
    BY <1>6, <2>1, <2>4 DEF IInv, Counted, stores
<1> QED
  BY <1>8, <1>15, <1>16, <1>17 DEF IInv

\* An idle worker stops.
LEMMA StopStep ==
  ASSUME IInv, NEW w \in Workers, Stop(w)
  PROVE  IInv'
<1> DEFINE r == [worker[w] EXCEPT !.pc = "stopped"]
<1>1. worker \in [Workers -> WorkerRecords]
  BY TypeParts DEF IInv, Types
<1>2. /\ r \in WorkerRecords /\ r.pc = "stopped" /\ r.signal = worker[w].signal
      /\ r.branch = worker[w].branch
  BY <1>1 DEF WorkerRecords
<1>3. worker' = [worker EXCEPT ![w] = r] /\ worker[w].pc = "idle"
  BY DEF Stop
<1>4. UNCHANGED <<phase, handler, ch, counters, stores>>
  BY DEF Stop
<1> HIDE DEF r
<1>5. /\ worker' \in [Workers -> WorkerRecords] /\ worker'[w] = r
      /\ \A v \in Workers \ {w} : worker'[v] = worker[v]
  BY <1>1, <1>2, <1>3, WorkerUpdate
<1>6. SameHolders /\ \A v \in Workers : worker'[v].branch = worker[v].branch
  BY <1>2, <1>3, <1>5 DEF SameHolders, Busy
<1>7. TypeOK'
  BY <1>4, <1>5, TypeParts DEF IInv, Types, counters, stores
<1>8. Placed'
  BY <1>4, <1>6, KeepPlaced DEF IInv, counters, TookIn
<1>9. Persisted' /\ Counted'
  BY <1>4, <1>6, KeepPersisted, KeepCounted DEF IInv, counters, stores
<1> QED
  BY <1>7, <1>8, <1>9 DEF IInv

\* What the steps of a branch of a busy worker have in common: they change
\* only the record of that branch.
LEMMA BranchStep ==
  ASSUME IInv, NEW w \in Workers, NEW b \in Branches, Runs(w, b),
         (\E st \in {"ok", "failed"} : Settle(w, b, st)) \/ RetryOrFail(w, b),
         UNCHANGED <<phase, handler, ch, counters>>
  PROVE  /\ worker' \in [Workers -> WorkerRecords]
         /\ SameHolders
         /\ \A v \in Workers, c \in Branches :
              v # w \/ c # b => worker'[v].branch[c] = worker[v].branch[c]
         /\ Placed'
<1>1. worker \in [Workers -> WorkerRecords]
  BY TypeParts DEF IInv, Types
<1>2. /\ worker' \in [Workers -> WorkerRecords]
      /\ \A v \in Workers \ {w} : worker'[v] = worker[v]
      /\ worker'[w].pc = worker[w].pc /\ worker'[w].signal = worker[w].signal
      /\ \A c \in Branches \ {b} : worker'[w].branch[c] = worker[w].branch[c]
  <2>1. CASE \E st \in {"ok", "failed"} : Settle(w, b, st)
    BY <1>1, <2>1, SettleStep
  <2>2. CASE RetryOrFail(w, b)
    BY <1>1, <2>2, RetryStep
  <2> QED
    BY <2>1, <2>2
<1>3. SameHolders
  BY <1>2 DEF SameHolders, Busy
<1>4. Placed'
  BY <1>3, KeepPlaced DEF IInv, counters, TookIn
<1> QED
  BY <1>2, <1>3, <1>4

\* An attempt to insert the signal into MongoDB.
LEMMA InsertSignalStep ==
  ASSUME IInv, NEW w \in Workers, InsertSignal(w)
  PROVE  IInv'
<1> DEFINE s == worker[w].signal
<1>1. /\ Runs(w, "mongo") /\ "mongo" \in Branches /\ "pg" \in Branches
      /\ UNCHANGED <<phase, handler, ch, counters, count>>
  BY DEF InsertSignal, Branches
<1>2. /\ Settle(w, "mongo", "ok") \/ RetryOrFail(w, "mongo")
      /\ mongo' = mongo \/ mongo' = mongo \cup {s}
      /\ (Settle(w, "mongo", "ok") /\ mongo' = mongo \cup {s}) \/ RetryOrFail(w, "mongo")
  BY DEF InsertSignal
<1>3. worker \in [Workers -> WorkerRecords] /\ mongo \subseteq Signals
  BY TypeParts DEF IInv, Types
<1>4. /\ worker' \in [Workers -> WorkerRecords] /\ SameHolders /\ Placed'
      /\ \A v \in Workers, c \in Branches :
            v # w \/ c # "mongo" => worker'[v].branch[c] = worker[v].branch[c]
  BY <1>1, <1>2, BranchStep
<1>5. Busy(w) /\ s \in Signals /\ Held(s)
  BY <1>1, BusySignal DEF IInv, Runs, Busy
<1>6. TypeOK'
  BY <1>1, <1>2, <1>3, <1>4, <1>5, TypeParts DEF IInv, Types, counters
<1>7. Counted'
  BY <1>1, <1>4, KeepCounted DEF IInv, counters
<1>8. worker'[w].branch["mongo"].st = "ok" => s \in mongo'
  <2>1. CASE mongo' = mongo \cup {s}
    BY <2>1
  <2>2. CASE RetryOrFail(w, "mongo")
    <3>1. \/ worker'[w].branch["mongo"] = [st |-> "failed", tries |-> 0]
          \/ worker'[w].branch["mongo"]
               = [st |-> "run", tries |-> worker[w].branch["mongo"].tries + 1]
      BY <1>1, <1>3, <2>2, RetryStep
    <3> QED
      BY <3>1
  <2> QED
    BY <1>2, <2>1, <2>2
<1>9. Persisted'
  <2>1. \A t : Held(t)' <=> Held(t)
    BY <1>4 DEF Held, SameHolders
  <2>2. Done' = Done /\ processed' = processed
    BY <1>1 DEF Done, counters
  <2>3. \A t \in mongo' : Held(t)' \/ t \in Done'
    BY <1>2, <1>5, <2>1, <2>2 DEF IInv, Persisted
  <2>4. \A v \in Workers : Busy(v)' /\ worker'[v].branch["mongo"].st = "ok"
                            => worker'[v].signal \in mongo'
    BY <1>1, <1>2, <1>4, <1>8 DEF IInv, Persisted, SameHolders
  <2> QED
    BY <1>2, <2>2, <2>3, <2>4 DEF IInv, Persisted
<1> QED
  BY <1>4, <1>6, <1>7, <1>9 DEF IInv

\* The write of the time series touches no store of the model.
LEMMA WriteTimeseriesStep ==
  ASSUME IInv, NEW w \in Workers, WriteTimeseries(w)
  PROVE  IInv'
<1>1. /\ Runs(w, "ts") /\ Branches = {"mongo", "pg", "ts"}
      /\ UNCHANGED <<phase, handler, ch, counters, stores>>
      /\ Settle(w, "ts", "ok")
  BY DEF WriteTimeseries, Branches
<1>2. /\ worker' \in [Workers -> WorkerRecords] /\ SameHolders /\ Placed'
      /\ \A v \in Workers, c \in Branches :
            v # w \/ c # "ts" => worker'[v].branch[c] = worker[v].branch[c]
  BY <1>1, BranchStep
<1>3. TypeOK'
  BY <1>1, <1>2, TypeParts DEF IInv, Types, counters, stores
<1>4. Persisted' /\ Counted'
  BY <1>1, <1>2, KeepPersisted, KeepCounted DEF IInv, counters, stores
<1> QED
  BY <1>2, <1>3, <1>4 DEF IInv

\* The sets that bound signal_count are finite.
LEMMA FiniteBounds ==
  ASSUME NEW i
  PROVE  /\ IsFiniteSet(Credited(i)) /\ IsFiniteSet(Tickets(i))
         /\ IsFiniteSet(Credited(i)') /\ IsFiniteSet(Tickets(i)')
<1>1. IsFiniteSet(Signals \X (1 .. Attempts))
  <2>1. IsFiniteSet(1 .. Attempts)
    BY FS_Interval
  <2> QED
    BY <2>1, FS_Product
<1>2. Credited(i) \in SUBSET Signals /\ Credited(i)' \in SUBSET Signals
  BY DEF Credited
<1>3. /\ Tickets(i) \in SUBSET (Signals \X (1 .. Attempts))
      /\ Tickets(i)' \in SUBSET (Signals \X (1 .. Attempts))
  BY DEF Tickets
<1> QED
  BY <1>1, <1>2, <1>3, FS_Subset

\* An attempt at the UPDATE of signal_count.  It raises the count by at most
\* one.  The attempt itself is a new ticket; and when it is confirmed, the
\* signal is newly credited and the count has been raised.
LEMMA IncrementSignalCountStep ==
  ASSUME IInv, NEW w \in Workers, IncrementSignalCount(w)
  PROVE  IInv'
<1>s. PICK s : s = worker[w].signal
  OBVIOUS
<1>n. PICK n : n = worker[w].branch["pg"].tries + 1
  OBVIOUS
<1> DEFINE i == ItemOf[s]
<1>1. /\ Runs(w, "pg") /\ "mongo" \in Branches /\ "pg" \in Branches
      /\ UNCHANGED <<phase, handler, ch, counters, mongo>>
  BY DEF IncrementSignalCount, Branches
<1>2. /\ Settle(w, "pg", "ok") \/ RetryOrFail(w, "pg")
      /\ count' = count \/ count' = [count EXCEPT ![i] = @ + 1]
      /\ \/ Settle(w, "pg", "ok") /\ count' = [count EXCEPT ![i] = @ + 1]
         \/ RetryOrFail(w, "pg")
  BY <1>s DEF IncrementSignalCount
<1>3. worker \in [Workers -> WorkerRecords] /\ count \in [Items -> Nat]
  BY TypeParts DEF IInv, Types
<1>4. /\ worker' \in [Workers -> WorkerRecords] /\ SameHolders /\ Placed'
      /\ \A v \in Workers, c \in Branches :
            v # w \/ c # "pg" => worker'[v].branch[c] = worker[v].branch[c]
  BY <1>1, <1>2, BranchStep
<1>5. Busy(w) /\ s \in Signals /\ Held(s) /\ s \notin Done /\ i \in Items
  <2>1. Busy(w) /\ s \in Signals /\ Held(s)
    BY <1>s, <1>1, BusySignal DEF IInv, Runs, Busy
  <2> QED
    BY <2>1 DEF IInv, Placed, Items
<1>6. TypeOK'
  <2>1. count' \in [Items -> Nat]
    BY <1>2, <1>3, <1>5
  <2> QED
    BY <1>1, <1>4, <2>1, TypeParts DEF IInv, Types, counters
<1>7. Persisted'
  BY <1>1, <1>4, KeepPersisted DEF IInv, counters
<1>8. /\ worker'[w].signal = s /\ worker[w].branch["pg"].st = "run"
      /\ worker[w].branch["pg"].tries \in 0 .. Attempts - 1
  <2>1. worker[w] \in WorkerRecords
    BY <1>3
  <2> QED
    BY <1>s, <1>1, <1>4, <2>1 DEF Runs, SameHolders, WorkerRecords, BranchRecords
<1>9. Used(w) = n - 1 /\ n \in 1 .. Attempts /\ Used(w)' \in n .. Attempts
  <2>1. \/ worker'[w].branch["pg"].st \in {"ok", "failed"}
        \/ worker'[w].branch["pg"] = [st |-> "run", tries |-> n]
    <3>1. CASE Settle(w, "pg", "ok")
      BY <1>1, <1>3, <3>1, SettleStep
    <3>2. CASE RetryOrFail(w, "pg")
      BY <1>n, <1>1, <1>3, <3>2, RetryStep
    <3> QED
      BY <1>2, <3>1, <3>2
  <2> QED
    BY <1>n, <1>8, <2>1 DEF Used
<1>10. \A v \in Workers \ {w} : /\ Used(v)' = Used(v)
                               /\ worker'[v].signal = worker[v].signal
                               /\ worker'[v].branch["pg"] = worker[v].branch["pg"]
                               /\ worker[v].signal # s
  <2>1. \A v \in Workers \ {w} : worker[v].signal # s
    BY <1>s, <1>5 DEF IInv, Placed
  <2> QED
    BY <1>1, <1>4, <2>1 DEF Used, SameHolders
<1> HIDE DEF i
<1>11. processed' = processed /\ Done' = Done
  BY <1>1 DEF counters, Done
<1>12. ASSUME NEW j \in Items, j # i
       PROVE  count'[j] = count[j] /\ Credited(j)' = Credited(j) /\ Tickets(j)' = Tickets(j)
  <2>1. count'[j] = count[j]
    BY <1>2, <1>3, <1>12
  <2>2. Credited(j)' = Credited(j)
    BY <1>s, <1>8, <1>10, <1>11, <1>12 DEF Credited, i
  <2>3. Tickets(j)' = Tickets(j)
    BY <1>s, <1>8, <1>10, <1>11, <1>12 DEF Tickets, i
  <2> QED
    BY <2>1, <2>2, <2>3
<1>13. count'[i] \in {count[i], count[i] + 1} /\ count[i] \in Nat
  BY <1>2, <1>3, <1>5
<1>14. Cardinality(Tickets(i)') >= Cardinality(Tickets(i)) + 1
  <2> DEFINE more == Tickets(i) \cup {<<s, n>>}
  <2>1. <<s, n>> \notin Tickets(i)
    BY <1>s, <1>5, <1>8, <1>9, <1>10 DEF Tickets
  <2>2. more \subseteq Tickets(i)'
    <3>1. <<s, n>> \in Tickets(i)'
      BY <1>5, <1>8, <1>9 DEF Tickets, i
    <3>2. ASSUME NEW t \in Tickets(i)
          PROVE  t \in Tickets(i)'
      BY <1>s, <1>8, <1>9, <1>10, <1>11 DEF Tickets
    <3> QED
      BY <3>1, <3>2
  <2>3. IsFiniteSet(Tickets(i)) /\ IsFiniteSet(Tickets(i)')
    BY FiniteBounds
  <2>4. Cardinality(more) = Cardinality(Tickets(i)) + 1
    BY <2>1, <2>3, FS_AddElement
  <2>5. Cardinality(more) <= Cardinality(Tickets(i)')
    BY <2>2, <2>3, FS_Subset
  <2>6. Cardinality(Tickets(i)) \in Nat /\ Cardinality(Tickets(i)') \in Nat
    BY <2>3, FS_CardinalityType
  <2> QED
    BY <2>4, <2>5, <2>6
<1>15. \/ count'[i] = count[i] + 1 /\ Cardinality(Credited(i)') <= Cardinality(Credited(i)) + 1
       \/ Credited(i)' = Credited(i)
  <2>1. CASE Settle(w, "pg", "ok") /\ count' = [count EXCEPT ![i] = @ + 1]
    <3> DEFINE more == Credited(i) \cup {s}
    <3>1. count'[i] = count[i] + 1
      BY <1>3, <1>5, <2>1
    <3>2. Credited(i)' \in SUBSET more
      BY <1>s, <1>8, <1>10, <1>11 DEF Credited
    <3>3. /\ IsFiniteSet(more)
          /\ Cardinality(more) \in {Cardinality(Credited(i)), Cardinality(Credited(i)) + 1}
      BY FiniteBounds, FS_AddElement
    <3>4. Cardinality(Credited(i)') <= Cardinality(more)
      BY <3>2, <3>3, FS_Subset
    <3>5. Cardinality(Credited(i)) \in Nat /\ Cardinality(Credited(i)') \in Nat
      BY FiniteBounds, FS_CardinalityType
    <3> QED
      BY <3>1, <3>3, <3>4, <3>5
  <2>2. CASE RetryOrFail(w, "pg")
    <3>1. worker'[w].branch["pg"].st # "ok"
      <4>1. \/ worker'[w].branch["pg"] = [st |-> "failed", tries |-> 0]
            \/ worker'[w].branch["pg"] = [st |-> "run", tries |-> worker[w].branch["pg"].tries + 1]
        BY <1>1, <1>3, <2>2, RetryStep
      <4> QED
        BY <4>1
    <3>2. Credited(i)' = Credited(i)
      BY <1>s, <1>8, <1>10, <1>11, <3>1 DEF Credited
    <3> QED
      BY <3>2
  <2> QED
    BY <1>2, <2>1, <2>2 DEF i
<1>16. Counted'
  <2>1. /\ count[i] >= 1 + Cardinality(Credited(i))
        /\ count[i] <= 1 + Cardinality(Tickets(i))
    BY <1>5 DEF IInv, Counted
  <2>2. /\ Cardinality(Credited(i)) \in Nat /\ Cardinality(Credited(i)') \in Nat
        /\ Cardinality(Tickets(i)) \in Nat /\ Cardinality(Tickets(i)') \in Nat
    BY FiniteBounds, FS_CardinalityType
  <2>3. /\ count'[i] >= 1 + Cardinality(Credited(i)')
        /\ count'[i] <= 1 + Cardinality(Tickets(i)')
    BY <1>13, <1>14, <1>15, <2>1, <2>2
  <2>4. ASSUME NEW j \in Items
        PROVE  /\ count'[j] >= 1 + Cardinality(Credited(j)')
               /\ count'[j] <= 1 + Cardinality(Tickets(j)')
    BY <1>12, <2>3 DEF IInv, Counted
  <2> QED
    BY <2>4 DEF Counted
<1> QED
  BY <1>4, <1>6, <1>7, <1>16 DEF IInv

\* A worker is through with its signal: the signal moves to one of the
\* counters.  It counts as processed when both branches have succeeded.
LEMMA FinishStep ==
  ASSUME IInv, NEW w \in Workers, Finish(w)
  PROVE  IInv'
<1>s. PICK s : s = worker[w].signal
  OBVIOUS
<1>1. /\ worker \in [Workers -> WorkerRecords] /\ worker[w] \in WorkerRecords
      /\ processed \subseteq Signals /\ errors \subseteq Signals
  BY TypeParts DEF IInv, Types
<1>2. /\ Busy(w) /\ worker[w].branch["pg"].st # "run" /\ worker[w].branch["mongo"].st # "run"
      /\ worker' = [worker EXCEPT ![w] = IdleWorker]
      /\ UNCHANGED <<phase, handler, ch, enqueued, dropped, stores>>
  BY DEF Finish, Joined, Busy, Branches
<1>3. \/ processed' = processed /\ errors' = errors \cup {s}
      \/ /\ processed' = processed \cup {s} /\ errors' = errors
         /\ worker[w].branch["pg"].st # "failed" /\ worker[w].branch["mongo"].st # "failed"
  BY <1>s DEF Finish
<1>4. /\ worker' \in [Workers -> WorkerRecords] /\ worker'[w] = IdleWorker
      /\ \A v \in Workers \ {w} : worker'[v] = worker[v]
  BY <1>1, <1>2, WorkerTypes, WorkerUpdate
<1>5. s \in Signals /\ s # Null /\ Held(s) /\ s \notin Done /\ ~Waiting(s)
  <2>1. s \in Signals /\ Held(s)
    BY <1>s, <1>2, BusySignal DEF IInv
  <2> QED
    BY <2>1 DEF IInv, Placed
<1>6. /\ \A v \in Workers \ {w} : worker[v].signal # s
      /\ worker'[w].signal = Null /\ ~Busy(w)'
  BY <1>s, <1>2, <1>4 DEF IInv, Placed, IdleWorker, Busy
<1>7. TypeOK'
  BY <1>2, <1>3, <1>4, <1>5, TypeParts DEF IInv, Types, stores
<1>8. Done' = Done \cup {s}
  BY <1>3 DEF Done
<1>9. \A t \in Signals : Held(t)' <=> Held(t) /\ t # s
  BY <1>s, <1>4, <1>6 DEF Held
<1>10. /\ \A t \in Signals : Waiting(t)' <=> Waiting(t)
       /\ \A t \in Signals : TookIn(t)' <=> TookIn(t)
  BY <1>2 DEF Waiting, TookIn
<1>11. Placed'
  <2>1. /\ \A v \in Workers : Busy(v)' <=> worker'[v].signal # Null
        /\ \A u, v \in Workers :
             worker'[u].signal = worker'[v].signal /\ Busy(u)' => u = v
    BY <1>4, <1>6 DEF IInv, Placed, Busy
  <2>2. (processed \cap errors)' = {}
    BY <1>3, <1>5 DEF IInv, Placed, Done
  <2>3. \A t \in Signals : TookIn(t)' <=> Waiting(t)' \/ Held(t)' \/ t \in Done'
    BY <1>5, <1>8, <1>9, <1>10 DEF IInv, Placed
  <2>4. /\ \A t \in Signals : Waiting(t)' => ~Held(t)' /\ t \notin Done'
        /\ \A t \in Signals : Held(t)' => t \notin Done'
    BY <1>5, <1>8, <1>9, <1>10 DEF IInv, Placed
  <2> QED
    BY <1>2, <2>1, <2>2, <2>3, <2>4 DEF IInv, Placed
<1>12. Persisted'
  <2>1. mongo' = mongo /\ mongo \subseteq Signals
    BY <1>2, TypeParts DEF IInv, Types, stores
  <2>2. processed' \subseteq mongo
    <3>1. CASE processed' = processed
      BY <3>1 DEF IInv, Persisted
    <3>2. CASE processed' = processed \cup {s} /\ worker[w].branch["mongo"].st # "failed"
      <4>1. worker[w].branch["mongo"].st = "ok"
        BY <1>1, <1>2, <3>2 DEF WorkerRecords, BranchRecords, Branches
      <4> QED
        BY <1>s, <1>2, <3>2, <4>1 DEF IInv, Persisted
    <3> QED
      BY <1>3, <3>1, <3>2
  <2>3. \A v \in Workers : Busy(v)' /\ worker'[v].branch["mongo"].st = "ok"
                            => worker'[v].signal \in mongo
    BY <1>4, <1>6 DEF IInv, Persisted, Busy
  <2>4. \A t \in mongo : Held(t)' \/ t \in Done'
    BY <1>8, <1>9, <2>1 DEF IInv, Persisted
  <2> QED
    BY <2>1, <2>2, <2>3, <2>4 DEF Persisted
<1>13. Counted'
  <2>1. \A v \in Workers \ {w} : Used(v)' = Used(v) /\ worker'[v].signal = worker[v].signal
    BY <1>4 DEF Used
  <2>2. Used(w) = Attempts
    BY <1>2 DEF Used
  <2>3. \A i \in Items : Tickets(i)' = Tickets(i)
    BY <1>s, <1>6, <1>8, <2>1, <2>2 DEF Tickets
  <2>4. \A i \in Items : Credited(i)' \in SUBSET Credited(i)
    <3> SUFFICES ASSUME NEW i \in Items, NEW t \in Credited(i)'
                 PROVE  t \in Credited(i)
      OBVIOUS
    <3>1. CASE t \in processed
      BY <3>1 DEF Credited
    <3>2. CASE t = s /\ t \notin processed
      <4>1. t \in processed' \/ \E v \in Workers : worker'[v].signal = t
        BY DEF Credited
      <4>2. t \in processed'
        BY <1>4, <1>5, <1>6, <3>2, <4>1
      <4>3. worker[w].branch["pg"].st # "failed"
        BY <1>3, <3>2, <4>2
      <4>4. worker[w].branch["pg"].st = "ok"
        BY <1>1, <1>2, <4>3 DEF WorkerRecords, BranchRecords, Branches
      <4> QED
        BY <1>s, <3>2, <4>4 DEF Credited
    <3>3. CASE t # s /\ t \notin processed
      BY <1>3, <1>4, <1>6, <3>3 DEF Credited
    <3> QED
      BY <3>1, <3>2, <3>3
  <2>5. \A i \in Items : /\ Cardinality(Credited(i)') <= Cardinality(Credited(i))
                         /\ Cardinality(Credited(i)') \in Nat
                         /\ Cardinality(Credited(i)) \in Nat
    BY <2>4, FiniteBounds, FS_Subset, FS_CardinalityType
  <2>6. count' = count /\ count \in [Items -> Nat]
    BY <1>2, TypeParts DEF IInv, Types, stores
  <2> QED
    BY <2>3, <2>5, <2>6 DEF IInv, Counted
<1> QED
  BY <1>7, <1>11, <1>12, <1>13 DEF IInv

-----------------------------------------------------------------------------
(* The theorems.                                                           *)

\* Every step preserves the invariant.
LEMMA NextIInv == IInv /\ [Next]_vars => IInv'
<1> SUFFICES ASSUME IInv, [Next]_vars PROVE IInv'
  OBVIOUS
<1>1. CASE UNCHANGED vars
  <2>1. UNCHANGED <<phase, handler, ch, counters, worker, stores>>
    BY <1>1 DEF vars
  <2>2. TypeOK'
    BY <2>1, TypeParts DEF IInv, Types, counters, stores
  <2>3. SameHolders /\ Persisted' /\ Counted'
    BY <2>1, KeepWork DEF counters
  <2>4. Placed'
    BY <2>1, <2>3, KeepPlaced DEF IInv, counters, TookIn
  <2> QED
    BY <2>2, <2>3, <2>4 DEF IInv
<1>2. CASE Cancel \/ ShutdownServer \/ Exit
  BY <1>2, MainStep
<1>3. CASE \E s \in Signals : TryEnqueue(s) \/ CountEnqueued(s)
  BY <1>3, TryEnqueueStep, CountEnqueuedStep
<1>4. CASE \E w \in Workers : Step(w)
  BY <1>4, TakeStep, StopStep, InsertSignalStep, IncrementSignalCountStep,
     WriteTimeseriesStep, FinishStep DEF Step
<1> QED
  BY <1>1, <1>2, <1>3, <1>4 DEF Next

\* The inductive invariant holds of every behaviour.
THEOREM Invariance == Spec => []IInv
  BY InitIInv, NextIInv, PTL DEF Spec

\* The variables have their types: the channel never holds more than its
\* capacity and withRetry never makes more than its attempts.
THEOREM TypeCorrect == Spec => []TypeOK
<1>1. IInv => TypeOK
  BY DEF IInv
<1> QED
  BY <1>1, Invariance, PTL

\* A set of two tagged counters holds a signal once if one counter has it.
LEMMA SettledOnce ==
  ASSUME NEW P, NEW E, NEW s, P \cap E = {}
  PROVE  LET C == {c \in {<<"p", P>>, <<"e", E>>} : s \in c[2]}
         IN  Cardinality(C) = IF s \in P \cup E THEN 1 ELSE 0
<1> DEFINE C == {c \in {<<"p", P>>, <<"e", E>>} : s \in c[2]}
<1>1. CASE s \in P
  <2>1. C = {<<"p", P>>}
    BY <1>1
  <2> QED
    BY <1>1, <2>1, FS_Singleton
<1>2. CASE s \in E
  <2>1. C = {<<"e", E>>}
    BY <1>2
  <2> QED
    BY <1>2, <2>1, FS_Singleton
<1>3. CASE s \notin P \cup E
  <2>1. C = {}
    BY <1>3
  <2> QED
    BY <1>3, <2>1, FS_EmptySet
<1> QED
  BY <1>1, <1>2, <1>3

\* Placed counts the places of a signal without Cardinality; this is the
\* same with it.
LEMMA PlacedOnce == TypeOK /\ Placed => EachSignalOnce
<1> SUFFICES ASSUME TypeOK, Placed, NEW s \in Signals
             PROVE  Places(s) = IF TookIn(s) THEN 1 ELSE 0
  BY DEF EachSignalOnce, TookIn
<1>1. Cardinality(InChannel(s)) = IF Waiting(s) THEN 1 ELSE 0
  <2>1. CASE Waiting(s)
    <3>1. PICK n \in 1 .. Len(ch) : ch[n] = s
      BY <2>1 DEF Waiting
    <3>2. InChannel(s) = {n}
      BY <3>1 DEF InChannel, Placed
    <3> QED
      BY <2>1, <3>2, FS_Singleton
  <2>2. CASE ~Waiting(s)
    <3>1. InChannel(s) = {}
      BY <2>2 DEF InChannel, Waiting
    <3> QED
      BY <2>2, <3>1, FS_EmptySet
  <2> QED
    BY <2>1, <2>2
<1>2. Cardinality(HeldBy(s)) = IF Held(s) THEN 1 ELSE 0
  <2>1. CASE Held(s)
    <3>1. PICK w \in Workers : worker[w].signal = s
      BY <2>1 DEF Held
    <3>2. HeldBy(s) = {w}
      BY <3>1 DEF HeldBy, Placed
    <3> QED
      BY <2>1, <3>2, FS_Singleton
  <2>2. CASE ~Held(s)
    <3>1. HeldBy(s) = {}
      BY <2>2 DEF HeldBy, Held
    <3> QED
      BY <2>2, <3>1, FS_EmptySet
  <2> QED
    BY <2>1, <2>2
<1>3. Cardinality({c \in {<<"p", processed>>, <<"e", errors>>} : s \in c[2]})
        = IF s \in Done THEN 1 ELSE 0
  BY SettledOnce DEF Placed, Done
<1>4. /\ TookIn(s) <=> Waiting(s) \/ Held(s) \/ s \in Done
      /\ Waiting(s) => ~Held(s) /\ s \notin Done
      /\ Held(s) => s \notin Done
  BY DEF Placed
<1> QED
  BY <1>1, <1>2, <1>3, <1>4 DEF Places

\* No signal is lost or repeated between the queue and the statistics,
\* whatever the stores do and whenever the process is told to stop.
THEOREM EachSignalIsInOnePlace == Spec => []EachSignalOnce
<1>1. IInv => EachSignalOnce
  BY PlacedOnce DEF IInv
<1> QED
  BY <1>1, Invariance, PTL

\* A signal that counts as processed is in MongoDB and in the count of its item.
THEOREM ProcessedPersisted == Spec => []ProcessedIsPersisted
<1>1. IInv => ProcessedIsPersisted
  <2> SUFFICES ASSUME IInv, NEW i \in Items
               PROVE  count[i] >= 1 + Cardinality(OfItem(processed, i))
    BY DEF IInv, Persisted, ProcessedIsPersisted
  <2>1. OfItem(processed, i) \in SUBSET Credited(i)
    BY TypeParts DEF IInv, Types, OfItem, Credited
  <2>2. /\ Cardinality(OfItem(processed, i)) <= Cardinality(Credited(i))
        /\ Cardinality(OfItem(processed, i)) \in Nat /\ Cardinality(Credited(i)) \in Nat
    BY <2>1, FiniteBounds, FS_Subset, FS_CardinalityType
  <2>3. count[i] \in Nat /\ count[i] >= 1 + Cardinality(Credited(i))
    BY TypeParts DEF IInv, Types, Counted
  <2> QED
    BY <2>2, <2>3
<1> QED
  BY <1>1, Invariance, PTL

\* Retries over-count by no more than the attempts of withRetry, and MongoDB
\* holds only what a worker took.
THEOREM OverCountBounded == Spec => []CountsBounded
<1>1. IInv => CountsBounded
  <2> SUFFICES ASSUME IInv
               PROVE  CountsBounded
    OBVIOUS
  <2>1. \A s \in Signals : Held(s) \/ s \in Done <=> s \in Taken
    BY DEF Held, Done, Taken
  <2>2. Taken \subseteq Signals /\ mongo \subseteq Signals
    <3>1. \A w \in Workers : worker[w].signal \in Signals \cup {Null}
      BY TypeParts DEF IInv, Types, WorkerRecords
    <3> QED
      BY <3>1, TypeParts DEF IInv, Types, Taken
  <2>3. mongo \subseteq Taken
    BY <2>1, <2>2 DEF IInv, Persisted
  <2>4. ASSUME NEW i \in Items
        PROVE  count[i] <= 1 + Attempts * Cardinality(OfItem(Taken, i))
    <3> DEFINE O == OfItem(Taken, i)
    <3>1. O \in SUBSET Signals
      BY <2>2 DEF OfItem
    <3>2. IsFiniteSet(O) /\ Cardinality(O) \in Nat
      BY <3>1, FS_Subset, FS_CardinalityType
    <3>3. IsFiniteSet(1 .. Attempts) /\ Cardinality(1 .. Attempts) = Attempts
      BY FS_Interval
    <3>4. /\ IsFiniteSet(O \X (1 .. Attempts))
          /\ Cardinality(O \X (1 .. Attempts)) = Cardinality(O) * Cardinality(1 .. Attempts)
      BY <3>2, <3>3, FS_Product
    <3>5. Tickets(i) \in SUBSET (O \X (1 .. Attempts))
      BY <2>1 DEF Tickets, OfItem, Held
    <3>6. Cardinality(Tickets(i)) <= Cardinality(O \X (1 .. Attempts))
      BY <3>4, <3>5, FS_Subset
    <3>7. count[i] \in Nat /\ count[i] <= 1 + Cardinality(Tickets(i))
      BY TypeParts DEF IInv, Types, Counted
    <3>8. Cardinality(Tickets(i)) \in Nat
      BY FiniteBounds, FS_CardinalityType
    <3> HIDE DEF O
    <3>9. Cardinality(O) * Attempts = Attempts * Cardinality(O)
      BY <3>2
    <3>10. Cardinality(Tickets(i)) <= Attempts * Cardinality(O)
      BY <3>3, <3>4, <3>6, <3>9
    <3>11. Attempts * Cardinality(O) \in Nat
      BY <3>2
    <3>12. count[i] <= 1 + Attempts * Cardinality(O)
      BY <3>7, <3>8, <3>10, <3>11
    <3> QED
      BY <3>12 DEF O
  <2> QED
    BY <2>3, <2>4 DEF CountsBounded
<1> QED
  BY <1>1, Invariance, PTL

-----------------------------------------------------------------------------
(* Pipeline implements SignalLog: the safety part.  (Its fairness needs    *)
(* ENABLED, and is left to TLC.)                                           *)

LogSafety == Log!Init /\ [][Log!Next]_(Log!vars)

\* The status of a signal as cases that exclude each other.
LEMMA StatusCases ==
  ASSUME IInv, NEW s \in Signals
  PROVE  /\ Status(s) = "stored" <=> s \in processed
         /\ Status(s) = "error" <=> s \in errors
         /\ Status(s) = "refused" <=> handler[s] = "429"
         /\ Status(s) = "new" <=> handler[s] = "new"
         /\ Status(s) = "accepted" <=> Waiting(s) \/ Held(s)
         /\ Status(s) \in {"stored", "error", "refused", "new", "accepted"}
<1>1. handler[s] \in {"new", "Count", "202", "429"}
  BY TypeParts DEF IInv, Types
<1>2. /\ TookIn(s) <=> Waiting(s) \/ Held(s) \/ s \in processed \/ s \in errors
      /\ Waiting(s) \/ Held(s) => s \notin processed /\ s \notin errors
      /\ ~(s \in processed /\ s \in errors)
  BY DEF IInv, Placed, Done
<1> QED
  BY <1>1, <1>2 DEF Status, TookIn

\* The accepted signals are those in the channel and those of the workers: at
\* least as many as the channel holds, and at most one more for each worker.
LEMMA WaitingBounds ==
  ASSUME IInv
  PROVE  /\ IsFiniteSet(Log!Waiting)
         /\ Cardinality(Log!Waiting) \in Nat
         /\ Len(ch) <= Cardinality(Log!Waiting)
         /\ Cardinality(Log!Waiting) <= Len(ch) + Cardinality(Workers)
<1> DEFINE C == {s \in Signals : Waiting(s)}
           H == {s \in Signals : Held(s)}
           N == 1 .. Len(ch)
<1>1. Log!Waiting = C \cup H
  BY StatusCases DEF Log!Waiting
<1>2. ch \in Seq(Signals) /\ Len(ch) \in Nat /\ \A n \in N : ch[n] \in Signals
  BY TypeParts, LenProperties, ElementOfSeq DEF IInv, Types
<1>3. IsFiniteSet(N) /\ Cardinality(N) = Len(ch)
  <2>1. PICK l \in Nat : l = Len(ch)
    BY <1>2
  <2>2. IsFiniteSet(1 .. l) /\ Cardinality(1 .. l) = l
    <3>1. 1 \in Int /\ l \in Int
      OBVIOUS
    <3> HIDE DEF C, H, N
    <3> QED
      BY <3>1, FS_Interval
  <2> QED
    BY <2>1, <2>2
<1>4. IsFiniteSet(C) /\ IsFiniteSet(H)
  <2>1. C \in SUBSET Signals /\ H \in SUBSET Signals
    OBVIOUS
  <2> QED
    BY <2>1, FS_Subset
<1>5. Cardinality(C) = Len(ch)
  <2> DEFINE f == [n \in N |-> ch[n]]
  <2>1. f \in [N -> C]
    BY <1>2 DEF Waiting
  <2>2. \A m, n \in N : f[m] = f[n] => m = n
    BY DEF IInv, Placed
  <2>3. \A s \in C : \E n \in N : f[n] = s
    BY DEF Waiting
  <2> HIDE DEF f, C, N
  <2>4. f \in Injection(N, C) /\ f \in Surjection(N, C)
    BY <2>1, <2>2, <2>3 DEF Injection, Surjection, IsInjective
  <2> QED
    BY <1>3, <2>4, FS_Surjection
<1>6. Cardinality(H) <= Cardinality(Workers)
  <2> DEFINE f == [s \in H |-> CHOOSE w \in Workers : worker[w].signal = s]
  <2>1. \A s \in H : f[s] \in Workers /\ worker[f[s]].signal = s
    BY DEF Held
  <2> HIDE DEF f
  <2>2. f \in [H -> Workers]
    BY <2>1 DEF f
  <2>3. \A s, t \in H : f[s] = f[t] => s = t
    BY <2>1
  <2> HIDE DEF H
  <2>4. f \in Injection(H, Workers)
    BY <2>2, <2>3 DEF Injection, IsInjective
  <2> QED
    BY <2>4, FS_Injection
<1>7. /\ IsFiniteSet(C \cup H)
      /\ Cardinality(C \cup H) = Cardinality(C) + Cardinality(H) - Cardinality(C \cap H)
  BY <1>4, FS_Union
<1>8. C \cap H = {}
  BY DEF IInv, Placed
<1>9. Cardinality(C \cap H) = 0
  BY <1>8, FS_EmptySet
<1>10. Cardinality(H) \in Nat /\ Cardinality(Workers) \in Nat /\ Cardinality(C \cup H) \in Nat
  BY <1>4, <1>7, FS_CardinalityType
<1> QED
  BY <1>1, <1>2, <1>5, <1>6, <1>7, <1>9, <1>10

\* What SignalLog sees as the status of all signals.
Statuses == [s \in Signals |-> Status(s)]

\* A step that touches neither the counters, the handlers, MongoDB nor the
\* context is not seen by SignalLog.
LEMMA Unseen ==
  ASSUME UNCHANGED <<processed, errors, handler, mongo>>, Cancelled' <=> Cancelled
  PROVE  UNCHANGED Log!vars
<1>1. \A s \in Signals : Status(s)' = Status(s)
  BY DEF Status
<1>2. Cancelled' = Cancelled
  BY DEF Cancelled
<1> QED
  BY <1>1, <1>2 DEF Log!vars

\* A step after which one signal has another status.
LEMMA OneStatus ==
  ASSUME NEW s \in Signals, NEW st, Status(s)' = st,
         \A t \in Signals \ {s} : Status(t)' = Status(t)
  PROVE  Statuses' = [Statuses EXCEPT ![s] = st]
  BY DEF Statuses

\* SignalLog counts as this module does.
LEMMA LogCardinality == \A S : Log!Cardinality(S) = Cardinality(S)
  BY Zenon DEF Log!Cardinality, Cardinality

\* TryEnqueue accepts or refuses.
LEMMA TryEnqueueLog ==
  ASSUME IInv, NEW s \in Signals, TryEnqueue(s)
  PROVE  Log!Accept(s) \/ Log!Refuse(s)
<1>1. /\ handler \in [Signals -> {"new", "Count", "202", "429"}]
      /\ handler[s] = "new" /\ s \notin processed /\ s \notin errors
      /\ UNCHANGED <<phase, processed, errors, mongo>>
  <2>1. /\ handler \in [Signals -> {"new", "Count", "202", "429"}]
        /\ handler[s] = "new" /\ UNCHANGED <<phase, processed, errors, mongo>>
    BY TypeParts DEF IInv, Types, TryEnqueue, stores
  <2> QED
    BY <2>1 DEF IInv, Placed, TookIn, Done
<1>2. Status(s) = "new" /\ Statuses[s] = "new"
  BY <1>1, StatusCases DEF Statuses
<1>3. Cancelled' = Cancelled
  BY <1>1 DEF Cancelled
<1>4. CASE Len(ch) < Capacity
  <2>1. handler' = [handler EXCEPT ![s] = "Count"]
    BY <1>4 DEF TryEnqueue
  <2>2. Status(s)' = "accepted" /\ \A t \in Signals \ {s} : Status(t)' = Status(t)
    BY <1>1, <2>1 DEF Status
  <2>3. Statuses' = [Statuses EXCEPT ![s] = "accepted"]
    BY <2>2, OneStatus
  <2>4. Cardinality(Log!Waiting) < Capacity + Cardinality(Workers)
    <3>1. Len(ch) \in Nat
      BY TypeParts, LenProperties DEF IInv, Types
    <3>2. Cardinality(Workers) \in Nat
      BY FS_CardinalityType
    <3> QED
      BY <1>4, <3>1, <3>2, WaitingBounds
  <2> QED
    BY <1>1, <1>2, <1>3, <2>3, <2>4, LogCardinality DEF Log!Accept, Statuses
<1>5. CASE ~(Len(ch) < Capacity)
  <2>1. handler' = [handler EXCEPT ![s] = "429"]
    BY <1>5 DEF TryEnqueue
  <2>2. Status(s)' = "refused" /\ \A t \in Signals \ {s} : Status(t)' = Status(t)
    BY <1>1, <2>1 DEF Status
  <2>3. Statuses' = [Statuses EXCEPT ![s] = "refused"]
    BY <2>2, OneStatus
  <2>4. Cardinality(Log!Waiting) >= Capacity
    <3>1. Len(ch) \in Nat
      BY TypeParts, LenProperties DEF IInv, Types
    <3> QED
      BY <1>5, <3>1, WaitingBounds
  <2> QED
    BY <1>1, <1>2, <1>3, <2>3, <2>4, LogCardinality DEF Log!Refuse, Statuses
<1> QED
  BY <1>4, <1>5

\* An attempt at the insertion adds the signal to the log or does nothing.
LEMMA InsertSignalLog ==
  ASSUME IInv, NEW w \in Workers, InsertSignal(w)
  PROVE  (\E s \in Signals : Log!Record(s)) \/ UNCHANGED Log!vars
<1>s. PICK s : s = worker[w].signal
  OBVIOUS
<1>1. /\ UNCHANGED <<phase, handler, processed, errors>>
      /\ mongo' = mongo \/ (s \notin mongo /\ mongo' = mongo \cup {s})
  BY <1>s DEF InsertSignal, counters
<1>2. s \in Signals /\ Status(s) = "accepted"
  <2>1. Busy(w)
    BY DEF InsertSignal, Runs, Busy
  <2>2. s \in Signals /\ Held(s)
    BY <1>s, <2>1, BusySignal DEF IInv
  <2> QED
    BY <2>2, StatusCases
<1>3. Statuses' = Statuses /\ Cancelled' = Cancelled
  BY <1>1 DEF Statuses, Status, Cancelled
<1>4. CASE mongo' = mongo
  BY <1>1, <1>3, <1>4, Unseen
<1>5. CASE s \notin mongo /\ mongo' = mongo \cup {s}
  <2>1. Log!Record(s)
    BY <1>2, <1>3, <1>5 DEF Log!Record, Statuses
  <2> QED
    BY <1>2, <2>1
<1> QED
  BY <1>1, <1>4, <1>5

\* Finishing a signal settles it, as stored only when MongoDB has it.
LEMMA FinishLog ==
  ASSUME IInv, NEW w \in Workers, Finish(w)
  PROVE  \E s \in Signals, outcome \in {"stored", "error"} : Log!Settle(s, outcome)
<1>s. PICK s : s = worker[w].signal
  OBVIOUS
<1>1. Busy(w) /\ UNCHANGED <<phase, handler, mongo>>
  BY DEF Finish, Joined, Busy, stores
<1>2. s \in Signals /\ Held(s) /\ s \notin processed /\ s \notin errors
  <2>1. s \in Signals /\ Held(s)
    BY <1>s, <1>1, BusySignal DEF IInv
  <2> QED
    BY <2>1 DEF IInv, Placed, Done
<1>3. Status(s) = "accepted" /\ Statuses[s] = "accepted"
  BY <1>2, StatusCases DEF Statuses
<1>4. Cancelled' = Cancelled
  BY <1>1 DEF Cancelled
<1>5. IInv'
  BY FinishStep
<1>6. CASE processed' = processed /\ errors' = errors \cup {s}
  <2>1. Status(s)' = "error" /\ \A t \in Signals \ {s} : Status(t)' = Status(t)
    <3>1. Status(s)' = "error"
      <4>1. /\ s \notin processed' /\ s \in errors'
            /\ handler'[s] # "429" /\ handler'[s] # "new"
        BY <1>1, <1>2, <1>6, <1>3, StatusCases
      <4> QED
        BY <4>1 DEF Status
    <3>2. ASSUME NEW t \in Signals \ {s}
          PROVE  Status(t)' = Status(t)
      <4>1. /\ t \in processed' <=> t \in processed
            /\ t \in errors' <=> t \in errors
            /\ handler' = handler
        BY <1>1, <1>6
      <4> QED
        BY <4>1 DEF Status
    <3> QED
      BY <3>1, <3>2
  <2>2. Statuses' = [Statuses EXCEPT ![s] = "error"]
    BY <1>2, <2>1, OneStatus
  <2>3. Log!Settle(s, "error")
    BY <1>1, <1>3, <1>4, <2>2 DEF Log!Settle, Statuses
  <2> QED
    BY <1>2, <2>3
<1>7. CASE processed' = processed \cup {s} /\ errors' = errors
  <2>1. Status(s)' = "stored" /\ \A t \in Signals \ {s} : Status(t)' = Status(t)
    <3>1. Status(s)' = "stored"
      <4>1. /\ s \in processed' /\ s \notin errors'
            /\ handler'[s] # "429" /\ handler'[s] # "new"
        BY <1>1, <1>2, <1>7, <1>3, StatusCases
      <4> QED
        BY <4>1 DEF Status
    <3>2. ASSUME NEW t \in Signals \ {s}
          PROVE  Status(t)' = Status(t)
      <4>1. /\ t \in processed' <=> t \in processed
            /\ t \in errors' <=> t \in errors
            /\ handler' = handler
        BY <1>1, <1>7
      <4> QED
        BY <4>1 DEF Status
    <3> QED
      BY <3>1, <3>2
  <2>2. Statuses' = [Statuses EXCEPT ![s] = "stored"]
    BY <1>2, <2>1, OneStatus
  <2>3. s \in mongo
    BY <1>1, <1>5, <1>7 DEF IInv, Persisted
  <2>4. Log!Settle(s, "stored")
    BY <1>1, <1>3, <1>4, <2>2, <2>3 DEF Log!Settle, Statuses
  <2> QED
    BY <1>2, <2>4
<1> QED
  BY <1>s, <1>6, <1>7 DEF Finish

\* Every step of the pipeline is a step of SignalLog or not seen by it.
LEMMA NextLog == IInv /\ [Next]_vars => [Log!Next]_(Log!vars)
<1> SUFFICES ASSUME IInv, [Next]_vars PROVE [Log!Next]_(Log!vars)
  OBVIOUS
<1>1. CASE Cancel
  <2>1. Cancelled = FALSE /\ Cancelled' = TRUE
    BY <1>1 DEF Cancel, Cancelled
  <2>2. Statuses' = Statuses /\ mongo' = mongo
    BY <1>1 DEF Cancel, counters, stores, Statuses, Status
  <2>3. Log!Stop
    BY <2>1, <2>2 DEF Log!Stop, Statuses
  <2> QED
    BY <2>3 DEF Log!Next
<1>2. CASE ShutdownServer \/ Exit
  BY <1>2, Unseen DEF ShutdownServer, Exit, Cancelled, counters, stores
<1>3. ASSUME NEW s \in Signals, TryEnqueue(s)
      PROVE  Log!Next
  BY <1>3, TryEnqueueLog DEF Log!Next
<1>4. ASSUME NEW s \in Signals, CountEnqueued(s)
      PROVE  UNCHANGED Log!vars
  <2>1. /\ handler \in [Signals -> {"new", "Count", "202", "429"}]
        /\ handler[s] = "Count" /\ handler' = [handler EXCEPT ![s] = "202"]
        /\ UNCHANGED <<phase, processed, errors, mongo>>
    BY <1>4, TypeParts DEF IInv, Types, CountEnqueued, stores
  <2>2. \A t \in Signals : Status(t)' = Status(t)
    BY <2>1 DEF Status
  <2>3. Cancelled' = Cancelled
    BY <2>1 DEF Cancelled
  <2> QED
    BY <2>1, <2>2, <2>3 DEF Log!vars
<1>5. ASSUME NEW w \in Workers, Take(w) \/ Stop(w) \/ IncrementSignalCount(w)
                                \/ WriteTimeseries(w)
      PROVE  UNCHANGED Log!vars
  <2>1. UNCHANGED <<phase, processed, errors, handler, mongo>>
    BY <1>5 DEF Take, Stop, IncrementSignalCount, WriteTimeseries, counters, stores
  <2> QED
    BY <2>1, Unseen DEF Cancelled
<1>6. ASSUME NEW w \in Workers, InsertSignal(w)
      PROVE  [Log!Next]_(Log!vars)
  BY <1>6, InsertSignalLog DEF Log!Next
<1>7. ASSUME NEW w \in Workers, Finish(w)
      PROVE  Log!Next
  BY <1>7, FinishLog DEF Log!Next
<1>8. CASE UNCHANGED vars
  BY <1>8, Unseen DEF vars, counters, stores, Cancelled
<1> QED
  BY <1>1, <1>2, <1>3, <1>4, <1>5, <1>6, <1>7, <1>8 DEF Next, Step

\* Seen from outside, a signal is refused only when as many are waiting as the
\* channel holds, or it is accepted and then settled at most once, and what is
\* settled as stored is in MongoDB: every step of the pipeline is a step of
\* SignalLog or a stutter.
THEOREM RefinesSignalLog == Spec => LogSafety
<1>1. Init => Log!Init
  <2> SUFFICES ASSUME Init PROVE Log!Init
    OBVIOUS
  <2>1. \A s \in Signals : Status(s) = "new"
    BY DEF Init, Status
  <2>2. Cancelled = FALSE /\ mongo = {}
    BY DEF Init, Cancelled
  <2> QED
    BY <2>1, <2>2 DEF Log!Init
<1> QED
  BY <1>1, Invariance, NextLog, PTL DEF Spec, LogSafety
=============================================================================
