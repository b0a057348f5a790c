------------------------------- MODULE Server -------------------------------
(***************************************************************************)
(* The life of one backend process: main connects to the three stores,     *)
(* migrates the schema, starts the workers, the loops and the HTTP server, *)
(* and on SIGTERM shuts the server down, waits for the workers and closes  *)
(* the stores.  The process may be told to stop at any moment, while it is *)
(* still starting too, and whoever runs it starts it again when it ends.   *)
(*                                                                         *)
(* The workers and the loops run under the context that SIGTERM cancels;   *)
(* requests and the metrics collector do not.  Pipeline has what a worker  *)
(* does; here it only holds connections.                                   *)
(***************************************************************************)
EXTENDS Integers, Sequences, FiniteSets

CONSTANTS Workers,    \* of the pool
          Requests,   \* HTTP requests at one time
          Loops,      \* the escalator and the throughput logger
          MaxDown,    \* bound on the resources that are missing at one time
          Attempts,   \* to connect to a store; 5 in the code
          Threshold   \* failed probes that make the kubelet stop the process

ASSUME ServerAssumption == {Attempts, Threshold} \subseteq Nat \ {0}

\* In the order InitAll connects to them and Close closes them.
StoreOrder == <<"postgres", "mongo", "redis">>
Stores == {"postgres", "mongo", "redis"}

\* Closing them waits for the connections in use; closing Redis does not.
Waited == {"postgres", "mongo"}

\* "host": the port is free and the migration file is there.  "timescaledb": the
\* database server has the extension the migration begins with; PostgreSQL as
\* such does not come with it.
Resources == Stores \cup {"timescaledb", "host"}
Database == {"postgres", "timescaledb"}

Users == Workers \cup Requests \cup Loops \cup {"collector"}

VARIABLES
  up,         \* the resources that are there
  schema,     \* whether the migration has been applied to the database
  main,       \* where main is, with the store and the attempt it is at
  cancelled,  \* whether the root context is
  connected,  \* the stores InitAll has reached
  closed,     \* the stores Close has closed
  http,       \* the HTTP server
  user,       \* the goroutines that use stores, with the connections they hold
  strikes,    \* probes that failed in a row
  late,       \* history: the start waited for a store
  steady      \* history: the database, with the extension, was there all the time
              \* main was at the migration, and nobody told it to stop

process == <<main, cancelled, connected, closed, http, user, strikes, late, steady>>
vars == <<up, schema, process>>

Running == main.pc # "ended"
Goto(pc) == main' = [main EXCEPT !.pc = pc]

Off == [pc |-> "off", conns |-> {}]
Idle == [pc |-> "idle", conns |-> {}]

AtConnect == [pc |-> "connect", store |-> 1, tries |-> 0]
AllOff == [u \in Users |-> Off]

\* The process ends, and with it everything it held; log.Fatal does no more.
End ==
  /\ main' = [AtConnect EXCEPT !.pc = "ended"] /\ cancelled' = FALSE
  /\ connected' = {} /\ closed' = {}
  /\ http' = "off" /\ user' = AllOff
  /\ strikes' = 0 /\ late' = FALSE /\ steady' = FALSE

-----------------------------------------------------------------------------
(* InitAll with NewPostgresStore, NewMongoStore and NewRedisStore, which    *)
(* repeat one loop for three stores.                                       *)

Current == StoreOrder[main.store]

Reached ==
  /\ Current \in up /\ ~cancelled
  /\ connected' = connected \cup {Current}
  /\ main' = IF main.store < Len(StoreOrder)
               THEN [main EXCEPT !.store = @ + 1, !.tries = 0]
               ELSE [main EXCEPT !.pc = "migrate", !.store = 1, !.tries = 0]
  /\ steady' = (Database \subseteq up)
  /\ UNCHANGED <<cancelled, closed, http, user, strikes, late>>

Retry ==
  /\ main' = [main EXCEPT !.tries = @ + 1]
  /\ late' = TRUE
  /\ UNCHANGED <<cancelled, connected, closed, http, user, strikes, steady>>

\* A loop that makes one attempt too many.
ConnectOneMore ==
  /\ main.pc = "connect"
  /\ \/ Reached
     \/ (Current \notin up \/ cancelled) /\ main.tries < Attempts /\ Retry
     \/ (Current \notin up \/ cancelled) /\ main.tries = Attempts /\ End
  /\ UNCHANGED <<up, schema>>

\* One attempt.  The ping runs under the root context and fails once that is
\* cancelled; the sleep after a failure does not, so a process that is told to
\* stop goes through its remaining attempts.  The last failure is fatal.
Connect ==
  /\ main.pc = "connect"
  /\ \/ Reached
     \/ (Current \notin up \/ cancelled) /\ main.tries + 1 < Attempts /\ Retry
     \/ (Current \notin up \/ cancelled) /\ main.tries + 1 = Attempts /\ End
  /\ UNCHANGED <<up, schema>>

-----------------------------------------------------------------------------
(* runMigrations: one file, which PostgreSQL executes as one transaction.  *)

\* Every statement says IF NOT EXISTS: on a database that has the tables, and so
\* the extension, it succeeds as well.
Applied ==
  /\ "postgres" \in up /\ ~cancelled
  /\ schema \/ "timescaledb" \in up
  /\ schema' = TRUE
  /\ Goto("start")
  /\ UNCHANGED <<cancelled, connected, closed, http, user, strikes, late, steady>>

\* Whatever the Exec reports is logged and main goes on: the database or the
\* context is gone, with or without the transaction having been committed; the
\* extension cannot be created; or another replica commits its first migration
\* while this one is creating the same tables.
Ignored ==
  /\ \/ /\ "postgres" \notin up \/ cancelled
        /\ schema' \in {schema, schema \/ "timescaledb" \in up}
     \/ "timescaledb" \notin up /\ ~schema /\ UNCHANGED schema
     \/ Database \subseteq up /\ ~schema /\ schema' = TRUE
  /\ Goto("start")
  /\ UNCHANGED <<cancelled, connected, closed, http, user, strikes, late, steady>>

\* A missing file is logged as well.
MigrateLenient ==
  /\ main.pc = "migrate"
  /\ \/ Applied \/ Ignored
     \/ /\ "host" \notin up
        /\ Goto("start")
        /\ UNCHANGED <<schema, cancelled, connected, closed, http, user, strikes, late, steady>>
  /\ UNCHANGED up

\* A missing file is fatal.
Migrate ==
  /\ main.pc = "migrate"
  /\ \/ Applied \/ Ignored
     \/ "host" \notin up /\ End /\ UNCHANGED schema
  /\ UNCHANGED up

\* Another replica migrates the database they share.
OtherReplicaMigrates ==
  /\ Database \subseteq up /\ ~schema
  /\ schema' = TRUE
  /\ UNCHANGED <<up, process>>

-----------------------------------------------------------------------------
(* The goroutines main starts and the stores they use.                     *)

\* Pool.Start, Escalator.Start, SetupRoutes, which starts the collector, and
\* the goroutine that listens.
Start ==
  /\ main.pc = "start"
  /\ Goto("select")
  /\ user' = [u \in Users |-> IF u \in Requests THEN Off ELSE Idle]
  /\ http' = "starting"
  /\ UNCHANGED <<up, schema, cancelled, connected, closed, strikes, late, steady>>

\* app.Listen.  It may come so late that the server was shut down before.
Listen ==
  /\ Running
  /\ http = "starting"
  /\ late' = FALSE
  /\ \/ "host" \in up /\ http' = "serving"
     \/ "host" \notin up /\ http' = "failed"
  /\ UNCHANGED <<up, schema, main, cancelled, connected, closed, user, strikes, steady>>

Arrive(r) ==
  /\ Running
  /\ http = "serving"
  /\ user[r] = Off
  /\ user' = [user EXCEPT ![r] = Idle]
  /\ UNCHANGED <<up, schema, main, cancelled, connected, closed, http, strikes, late, steady>>

Answer(r) ==
  /\ Running
  /\ user[r] = Idle
  /\ user' = [user EXCEPT ![r] = Off]
  /\ UNCHANGED <<up, schema, main, cancelled, connected, closed, http, strikes, late, steady>>

\* The connections a goroutine takes at a time, those to Redis left out.  A
\* worker writes to two stores concurrently.
Takes(u) ==
  CASE u \in Workers            -> {{"postgres", "mongo"}}
    [] u \in Requests           -> {{d} : d \in Waited}
    [] OTHER                    -> {{"postgres"}}

\* Nothing is sent under a cancelled context or to a closed store.
Acquire(u) ==
  /\ Running
  /\ user[u] = Idle
  /\ cancelled => u \in Requests \cup {"collector"}
  /\ \E conns \in Takes(u) : /\ conns \cap closed = {}
                             /\ user' = [user EXCEPT ![u].conns = conns]
  /\ UNCHANGED <<up, schema, main, cancelled, connected, closed, http, strikes, late, steady>>

Release(u, d) ==
  /\ Running
  /\ d \in user[u].conns
  /\ user' = [user EXCEPT ![u].conns = @ \ {d}]
  /\ UNCHANGED <<up, schema, main, cancelled, connected, closed, http, strikes, late, steady>>

\* Workers that were started with a context of their own.
StopLoopsOnly(u) ==
  /\ Running /\ cancelled
  /\ u \in Loops
  /\ user[u] = Idle
  /\ user' = [user EXCEPT ![u].pc = "stopped"]
  /\ UNCHANGED <<up, schema, main, cancelled, connected, closed, http, strikes, late, steady>>

\* runWorker and the loops return when the context is done.  (A worker may
\* take a few more signals before select picks that case; their writes fail
\* without taking a connection.)
Stop(u) ==
  /\ Running /\ cancelled
  /\ u \in Workers \cup Loops
  /\ user[u] = Idle
  /\ user' = [user EXCEPT ![u].pc = "stopped"]
  /\ UNCHANGED <<up, schema, main, cancelled, connected, closed, http, strikes, late, steady>>

-----------------------------------------------------------------------------
(* The end of main.                                                        *)

\* A server error is only logged.
SelectLogsError ==
  /\ main.pc = "select"
  /\ cancelled
  /\ Goto("shutdown")
  /\ UNCHANGED <<up, schema, cancelled, connected, closed, http, user, strikes, late, steady>>

\* The select: a server error is fatal, and no deferred call is made.
Select ==
  /\ main.pc = "select"
  /\ \/ /\ cancelled
        /\ Goto("shutdown")
        /\ UNCHANGED <<cancelled, connected, closed, http, user, strikes, late, steady>>
     \/ http = "failed" /\ End
  /\ UNCHANGED <<up, schema>>

\* ShutdownWithContext: no more requests are taken; the ones in flight end or
\* are left running after 10 s.
ShutdownServer ==
  /\ main.pc = "shutdown"
  /\ http' = IF http = "serving" THEN "down" ELSE http
  /\ Goto("wait")
  /\ UNCHANGED <<up, schema, cancelled, connected, closed, user, strikes, late, steady>>

\* A shutdown that does not wait for the pool.
WaitSkipped ==
  /\ main.pc = "wait"
  /\ Goto("close")
  /\ UNCHANGED <<up, schema, cancelled, connected, closed, http, user, strikes, late, steady>>

\* Pool.Wait.
Wait ==
  /\ main.pc = "wait"
  /\ \A w \in Workers : user[w].pc = "stopped"
  /\ Goto("close")
  /\ UNCHANGED <<up, schema, cancelled, connected, closed, http, user, strikes, late, steady>>

\* The deferred Stores.Close: a store takes no more queries, ...
CloseBegin ==
  /\ main.pc = "close"
  /\ Current \notin closed
  /\ closed' = closed \cup {Current}
  /\ UNCHANGED <<up, schema, main, cancelled, connected, http, user, strikes, late, steady>>

\* ... and the clients of PostgreSQL and MongoDB wait until every connection
\* is given back.
CloseEnd ==
  /\ main.pc = "close"
  /\ Current \in closed
  /\ \A u \in Users : Current \notin user[u].conns
  /\ \/ /\ main.store < Len(StoreOrder)
        /\ main' = [main EXCEPT !.store = @ + 1]
        /\ UNCHANGED <<cancelled, connected, closed, http, user, strikes, late, steady>>
     \/ main.store = Len(StoreOrder) /\ End
  /\ UNCHANGED <<up, schema>>

-----------------------------------------------------------------------------
(* The environment: resources come and go, somebody stops the process, the *)
(* kubelet probes /health, stops what does not answer and starts it again. *)

Change(r) ==
  /\ up' = IF r \in up THEN up \ {r} ELSE up \cup {r}
  /\ Cardinality(Resources \ up') <= MaxDown
  /\ steady' = (steady /\ (main.pc = "migrate" => Database \subseteq up'))
  /\ UNCHANGED <<schema, main, cancelled, connected, closed, http, user, strikes, late>>

Sigterm ==
  /\ Running /\ ~cancelled
  /\ cancelled' = TRUE
  /\ steady' = (steady /\ main.pc # "migrate")
  /\ UNCHANGED <<up, schema, main, connected, closed, http, user, strikes, late>>

\* HealthHandler.Health: MongoDB is not asked.
Healthy == http = "serving" /\ {"postgres", "redis"} \subseteq up

\* The liveness probe.  It waits 30 s before it begins, which is enough for a
\* start that does not have to wait for a store.
Probe ==
  /\ Running /\ ~cancelled
  /\ http = "serving" \/ late
  /\ strikes' = IF Healthy THEN 0 ELSE strikes + 1
  /\ cancelled' = (strikes' = Threshold)
  /\ steady' = (steady /\ (main.pc = "migrate" => ~cancelled'))
  /\ UNCHANGED <<up, schema, main, connected, closed, http, user, late>>

\* SIGKILL, when the process does not end in time.
Kill ==
  /\ Running /\ cancelled
  /\ End
  /\ UNCHANGED <<up, schema>>

\* A new process; the database keeps its tables.
Restart ==
  /\ ~Running
  /\ main' = AtConnect
  /\ UNCHANGED <<up, schema, cancelled, connected, closed, http, user, strikes, late, steady>>

-----------------------------------------------------------------------------
Init ==
  /\ up = Resources /\ schema = FALSE
  /\ main = AtConnect /\ cancelled = FALSE
  /\ connected = {} /\ closed = {}
  /\ http = "off" /\ user = AllOff
  /\ strikes = 0 /\ late = FALSE /\ steady = FALSE

Main == \/ Connect \/ Migrate \/ Start
        \/ Select \/ ShutdownServer \/ Wait \/ CloseBegin \/ CloseEnd

Environment == \/ \E r \in Resources : Change(r)
               \/ OtherReplicaMigrates \/ Sigterm \/ Probe \/ Kill \/ Restart

Next ==
  \/ Main \/ Listen \/ Environment
  \/ \E r \in Requests : Arrive(r) \/ Answer(r)
  \/ \E u \in Users : Acquire(u) \/ Stop(u) \/ \E d \in Waited : Release(u, d)

Spec == Init /\ [][Next]_vars

\* main gets on, a query ends (by its own timeout or the context, except that
\* of the collector, which has neither and relies on the store), goroutines see
\* that their context is done, and a process that ended is started again.
FairSpec ==
  /\ Spec
  /\ WF_vars(Main) /\ WF_vars(Listen) /\ WF_vars(Restart)
  /\ \A u \in Users : WF_vars(\E d \in Waited : Release(u, d)) /\ WF_vars(Stop(u))

-----------------------------------------------------------------------------
(* Properties.                                                             *)

\* The variables have their types; no store is tried more often than Attempts
\* says.
TypeOK ==
  /\ up \subseteq Resources /\ schema \in BOOLEAN
  /\ main \in [pc : {"connect", "migrate", "start", "select", "shutdown", "wait",
                     "close", "ended"},
               store : DOMAIN StoreOrder, tries : 0 .. Attempts - 1]
  /\ cancelled \in BOOLEAN
  /\ connected \subseteq Stores /\ closed \subseteq connected
  /\ http \in {"off", "starting", "serving", "down", "failed"}
  /\ user \in [Users -> [pc : {"off", "idle", "stopped"}, conns : SUBSET Waited]]
  /\ strikes \in 0 .. Threshold
  /\ late \in BOOLEAN /\ steady \in BOOLEAN

\* The stores are closed when the workers have ended, wherever the shutdown
\* caught the process; and main goes on from PostgreSQL and MongoDB when the
\* requests and loops it did not wait for have given back what they held.
StoresOutliveWorkers ==
  /\ closed # {} => \A w \in Workers : user[w].pc = "stopped"
  /\ main.pc = "close" =>
       \A n \in 1 .. main.store - 1, u \in Users : StoreOrder[n] \notin user[u].conns

\* Requests are only taken by a process that has reached all its stores, and
\* whose tables are there if the database, with the extension, was there while it
\* was migrated and nobody stopped the process at that moment: no race with
\* another replica, no missing file and no restart leads to a server without
\* tables.  If the database was not there, or has no timescaledb, there may be no
\* tables, and the process serves all the same: runMigrations ignores every error
\* of the Exec, on the ground that the "migration may already be applied"
\* (main.go:130).
ServingIsReady == http = "serving" => connected = Stores /\ (steady => schema)

\* A process that is told to stop ends without being killed, at whatever point
\* of its start, its work or an outage it is told.
ShutdownEnds == cancelled ~> ~Running

\* "Retry with exponential backoff": when outages are over and nobody stops the
\* process, it comes to serve and stays, although attempts to connect run out, the
\* port is taken and probes stop it.  A process whose migration failed counts: it
\* serves, answers the probes, and is not started again, though it may have no
\* tables (ServingIsReady).
ComesUp ==
  <>[](up = Resources) /\ <>[][~Sigterm]_vars => <>[](http = "serving")
=============================================================================
