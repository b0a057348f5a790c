------------------------------ MODULE Pipeline ------------------------------
(***************************************************************************)
(* One process from TryEnqueue to the stores: the bounded SignalQueue, the *)
(* worker Pool that makes three writes for every signal concurrently,      *)
(* and the shutdown sequence of main.                                      *)
(*                                                                         *)
(* The context that stops the workers is the one SIGTERM cancels, and all  *)
(* the writes of a worker run under a child of it, so a shutdown reaches   *)
(* into signals that are being processed.                                  *)
(*                                                                         *)
(* Debounce models how a signal gets its work item; here it has one        *)
(* (AcceptedIsLinked).  The throughput counter in Redis is left out: its   *)
(* goroutine touches nothing else and no part of the pipeline reads it.    *)
(* A crash has no action either: it cuts a behaviour off, and what it      *)
(* leaves in the stores is what the last state of the behaviour shows.     *)
(***************************************************************************)
EXTENDS Integers, Sequences, FiniteSets

CONSTANTS Signals,    \* the signals handlers enqueue, each once
          ItemOf,     \* the work item each signal was linked to
          Workers,    \* the goroutines of the pool
          Capacity,   \* of the channel
          Attempts,   \* of withRetry; 3 in both stores
          Null

ASSUME CapacityAssumption == Capacity \in Nat \ {0}
ASSUME AttemptsAssumption == Attempts \in Nat \ {0}
ASSUME SignalsAssumption == IsFiniteSet(Signals) /\ Null \notin Signals
ASSUME WorkersAssumption == IsFiniteSet(Workers)

Items == {ItemOf[s] : s \in Signals}

VARIABLES
  phase,       \* where main is
  handler,     \* how far the handler of each signal has come
  ch,          \* the channel
  enqueued, dropped, processed, errors,   \* the signals each counter counted
  worker,      \* the worker goroutines
  mongo,       \* the ids in the signals collection
  count        \* signal_count of the work items

counters == <<enqueued, dropped, processed, errors>>
stores == <<mongo, count>>
vars == <<phase, handler, ch, counters, worker, stores>>

-----------------------------------------------------------------------------
(* main: up, then the context is cancelled (stopping), the HTTP server is  *)
(* shut down (closed) and, when the workers are gone, the process exits.   *)

Phases == {"up", "stopping", "closed", "exited"}
Running == phase # "exited"
Cancelled == phase # "up"

\* SIGINT or SIGTERM.
Cancel ==
  /\ phase = "up"
  /\ phase' = "stopping"
  /\ UNCHANGED <<handler, ch, counters, worker, stores>>

\* ShutdownWithContext returns: the requests in flight are through, or its
\* 10 s have passed and it leaves them running.
ShutdownServer ==
  /\ phase = "stopping"
  /\ phase' = "closed"
  /\ UNCHANGED <<handler, ch, counters, worker, stores>>

\* Pool.Wait returns and main ends.
Exit ==
  /\ phase = "closed"
  /\ \A w \in Workers : worker[w].pc = "stopped"
  /\ phase' = "exited"
  /\ UNCHANGED <<handler, ch, counters, worker, stores>>

-----------------------------------------------------------------------------
(* SignalQueue.TryEnqueue, in the handler of a signal.  Handlers that are  *)
(* in flight go on during a shutdown.                                      *)

\* A full queue that makes room by forgetting its oldest signal.
TryEnqueueDropOldest(s) ==
  /\ Running
  /\ handler[s] = "new"
  /\ ch' = Append(IF Len(ch) < Capacity THEN ch ELSE Tail(ch), s)
  /\ handler' = [handler EXCEPT ![s] = "Count"]
  /\ UNCHANGED <<phase, counters, worker, stores>>

\* A queue that is full one signal too early.
TryEnqueueEarly(s) ==
  /\ Running
  /\ handler[s] = "new"
  /\ IF Len(ch) + 1 < Capacity
       THEN /\ ch' = Append(ch, s)
            /\ handler' = [handler EXCEPT ![s] = "Count"]
            /\ UNCHANGED dropped
       ELSE /\ dropped' = dropped \cup {s}
            /\ handler' = [handler EXCEPT ![s] = "429"]
            /\ UNCHANGED ch
  /\ UNCHANGED <<phase, enqueued, processed, errors, worker, stores>>

\* The non-blocking send; a full queue is answered with 429.
TryEnqueue(s) ==
  /\ Running
  /\ handler[s] = "new"
  /\ IF Len(ch) < Capacity
       THEN /\ ch' = Append(ch, s)
            /\ handler' = [handler EXCEPT ![s] = "Count"]
            /\ UNCHANGED dropped
       ELSE /\ dropped' = dropped \cup {s}
            /\ handler' = [handler EXCEPT ![s] = "429"]
            /\ UNCHANGED ch
  /\ UNCHANGED <<phase, enqueued, processed, errors, worker, stores>>

\* The counter is bumped after the send, when a worker may have the signal
\* already; then the client is answered.
CountEnqueued(s) ==
  /\ Running
  /\ handler[s] = "Count"
  /\ enqueued' = enqueued \cup {s}
  /\ handler' = [handler EXCEPT ![s] = "202"]
  /\ UNCHANGED <<phase, ch, dropped, processed, errors, worker, stores>>

-----------------------------------------------------------------------------
(* Pool.runWorker.                                                         *)

Branches == {"mongo", "pg", "ts"}

Ready == [b \in Branches |-> [st |-> "run", tries |-> 0]]
IdleWorker == [pc |-> "idle", signal |-> Null, live |-> FALSE, branch |-> Ready]

\* A select with two ready cases picks either, so an idle worker may take a
\* signal although the context is cancelled.  live says whether it was not.
Take(w) ==
  /\ Running
  /\ worker[w].pc = "idle"
  /\ ch # <<>>
  /\ ch' = Tail(ch)
  /\ worker' = [worker EXCEPT ![w] = [pc |-> "busy", signal |-> Head(ch),
                                      live |-> ~Cancelled, branch |-> Ready]]
  /\ UNCHANGED <<phase, handler, counters, stores>>

Stop(w) ==
  /\ Running
  /\ Cancelled
  /\ worker[w].pc = "idle"
  /\ worker' = [worker EXCEPT ![w].pc = "stopped"]
  /\ UNCHANGED <<phase, handler, ch, counters, stores>>

-----------------------------------------------------------------------------
(* Pool.processSignal: three goroutines, then the counters.                *)

Runs(w, b) == Running /\ worker[w].pc = "busy" /\ worker[w].branch[b].st = "run"

Settle(w, b, st) ==
  worker' = [worker EXCEPT ![w].branch[b] = [st |-> st, tries |-> 0]]

\* A retry loop that does not count its attempts.
RetryForever(w, b) == UNCHANGED worker \/ Settle(w, b, "failed")

\* A retry loop that makes one attempt too many.
RetryOneMore(w, b) ==
  \/ /\ ~Cancelled
     /\ worker[w].branch[b].tries < Attempts
     /\ worker' = [worker EXCEPT ![w].branch[b].tries = @ + 1]
  \/ Settle(w, b, "failed")

\* withRetry after a failed attempt; a cancelled context or the 5 s of the
\* write context end it early.
RetryOrFail(w, b) ==
  \/ /\ ~Cancelled
     /\ worker[w].branch[b].tries < Attempts - 1
     /\ worker' = [worker EXCEPT ![w].branch[b].tries = @ + 1]
  \/ Settle(w, b, "failed")

\* One attempt of MongoStore.InsertSignal.  The id is the _id of the document:
\* the repeat of an insert that went through unconfirmed is refused.  Nothing
\* is sent under a context that was cancelled before.
InsertSignal(w) ==
  LET s == worker[w].signal
      Insert == worker[w].live /\ s \notin mongo /\ mongo' = mongo \cup {s} IN
  /\ Runs(w, "mongo")
  /\ \/ Insert /\ Settle(w, "mongo", "ok")
     \/ (Insert \/ UNCHANGED mongo) /\ RetryOrFail(w, "mongo")
  /\ UNCHANGED <<phase, handler, ch, counters, count>>

\* One attempt of PostgresStore.IncrementSignalCount.  The statement is atomic
\* but not idempotent: an attempt that went through unconfirmed counts again
\* when it is repeated.
IncrementSignalCount(w) ==
  LET i == ItemOf[worker[w].signal]
      Update == worker[w].live /\ count' = [count EXCEPT ![i] = @ + 1] IN
  /\ Runs(w, "pg")
  /\ \/ Update /\ Settle(w, "pg", "ok")
     \/ (Update \/ UNCHANGED count) /\ RetryOrFail(w, "pg")
  /\ UNCHANGED <<phase, handler, ch, counters, mongo>>

\* writeTimeseries: one attempt, whose error is ignored.  What it leaves in
\* signal_timeseries no part of the program reads, and it is not modelled.
WriteTimeseries(w) ==
  /\ Runs(w, "ts")
  /\ Settle(w, "ts", "ok")
  /\ UNCHANGED <<phase, handler, ch, counters, stores>>

\* A wait group whose Done is only reached on success.
JoinedOnSuccess(w) == /\ Running
                      /\ worker[w].pc = "busy"
                      /\ \A b \in Branches : worker[w].branch[b].st = "ok"

\* The three goroutines are through.
Joined(w) == /\ Running
             /\ worker[w].pc = "busy"
             /\ \A b \in Branches : worker[w].branch[b].st # "run"

\* The outcome is taken from PostgreSQL alone.
FinishNoMongo(w) ==
  LET s == worker[w].signal IN
  /\ Joined(w)
  /\ IF worker[w].branch["pg"].st = "failed"
       THEN errors' = errors \cup {s} /\ UNCHANGED processed
       ELSE processed' = processed \cup {s} /\ UNCHANGED errors
  /\ worker' = [worker EXCEPT ![w] = IdleWorker]
  /\ UNCHANGED <<phase, handler, ch, enqueued, dropped, stores>>

\* After wg.Wait: the signal counts as an error when either store failed.
Finish(w) ==
  LET s == worker[w].signal
      failed == \E b \in {"mongo", "pg"} : worker[w].branch[b].st = "failed" IN
  /\ Joined(w)
  /\ IF failed THEN errors' = errors \cup {s} /\ UNCHANGED processed
               ELSE processed' = processed \cup {s} /\ UNCHANGED errors
  /\ worker' = [worker EXCEPT ![w] = IdleWorker]
  /\ UNCHANGED <<phase, handler, ch, enqueued, dropped, stores>>

-----------------------------------------------------------------------------
Init ==
  /\ phase = "up"
  /\ handler = [s \in Signals |-> "new"]
  /\ ch = <<>>
  /\ enqueued = {} /\ dropped = {} /\ processed = {} /\ errors = {}
  /\ worker = [w \in Workers |-> IdleWorker]
  /\ mongo = {}
  /\ count = [i \in Items |-> 1]        \* NewWorkItem starts at 1

\* What a worker goroutine, with the goroutines it waits for, does next.
Step(w) == \/ Take(w) \/ Stop(w)
           \/ InsertSignal(w) \/ IncrementSignalCount(w) \/ WriteTimeseries(w)
           \/ Finish(w)

Next ==
  \/ Cancel \/ ShutdownServer \/ Exit
  \/ \E s \in Signals : TryEnqueue(s) \/ CountEnqueued(s)
  \/ \E w \in Workers : Step(w)

Spec == Init /\ [][Next]_vars

\* A worker that can do something does it in the end: its writes end with the
\* write context (5 s) at the latest.  main gets on once it was told to stop.
FairSpec ==
  /\ Spec
  /\ WF_vars(ShutdownServer \/ Exit)
  /\ \A w \in Workers : WF_vars(Step(w))

-----------------------------------------------------------------------------
(* Properties.                                                             *)

\* The variables have their types.
TypeOK ==
  /\ phase \in Phases
  /\ handler \in [Signals -> {"new", "Count", "202", "429"}]
  /\ ch \in Seq(Signals) /\ Len(ch) <= Capacity
  /\ \A c \in {enqueued, dropped, processed, errors, mongo} : c \subseteq Signals
  /\ worker \in [Workers ->
        [pc : {"idle", "busy", "stopped"}, signal : Signals \cup {Null},
         live : BOOLEAN,
         branch : [Branches -> [st : {"run", "ok", "failed"},
                                tries : 0 .. Attempts - 1]]]]
  /\ count \in [Items -> Nat]

\* The places a signal can be in, from the channel to the counters.
InChannel(s) == {n \in 1 .. Len(ch) : ch[n] = s}
HeldBy(s) == {w \in Workers : worker[w].signal = s}
Places(s) == Cardinality(InChannel(s)) + Cardinality(HeldBy(s))
               + Cardinality({c \in {<<"p", processed>>, <<"e", errors>>} : s \in c[2]})

\* A signal the queue took is in exactly one place, the channel, one worker or
\* one of the two counters, and a signal refused with 429 is in none: the pool
\* neither loses nor repeats a signal, and its statistics add up.
EachSignalOnce ==
  \A s \in Signals : Places(s) = IF handler[s] \in {"Count", "202"} THEN 1 ELSE 0

OfItem(S, i) == {s \in S : ItemOf[s] = i}

\* A signal that counts as processed is in the audit log and in the signal
\* count of its item, although the two stores fail independently, and retries
\* of one overlap with those of the other.
ProcessedIsPersisted ==
  /\ processed \subseteq mongo
  /\ \A i \in Items : count[i] >= 1 + Cardinality(OfItem(processed, i))

\* The signals a worker has begun to persist.
Taken == processed \cup errors \cup ({worker[w].signal : w \in Workers} \ {Null})

\* Retries over-count, but by no more than withRetry's attempts, and the audit
\* log holds no signal that no worker took.
CountsBounded ==
  /\ mongo \subseteq Taken
  /\ \A i \in Items : count[i] <= 1 + Attempts * Cardinality(OfItem(Taken, i))

\* A shutdown ends, whatever the stores and the queue are doing: no worker
\* waits for a store or for a signal that will not come.
ShutdownEnds == phase = "stopping" ~> ~Running

\* What became of a signal, as a client and the statistics see it.
Status(s) == CASE s \in processed   -> "stored"
               [] s \in errors      -> "error"
               [] handler[s] = "429" -> "refused"
               [] handler[s] = "new" -> "new"
               [] OTHER              -> "accepted"

Log == INSTANCE SignalLog
         WITH InHand <- Cardinality(Workers),
              status <- [s \in Signals |-> Status(s)], log <- mongo, stopping <- Cancelled

\* The queue, the workers and the shutdown implement SignalLog: seen from
\* outside a signal is refused, when at least as many are waiting as the channel
\* holds, or accepted and settled once, and no more are waiting than fit into
\* the channel and the workers.  While the process is up every accepted signal
\* is settled: a store that fails for ever blocks neither workers nor queue.
ImplementsSignalLog == Log!Spec

\* "Wait for all workers to drain the queue" (main).
QueueDrainedAtExit == phase = "exited" => ch = <<>>
=============================================================================
