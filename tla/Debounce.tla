------------------------------ MODULE Debounce ------------------------------
(***************************************************************************)
(* The ingestion handlers up to the queue: IngestSignal and IngestBatch,   *)
(* Debouncer.Resolve with its two-level window (a map in each process, a   *)
(* key with a time to live in Redis), the creation of work items and the   *)
(* dispatch of alerts.                                                     *)
(*                                                                         *)
(* Nothing locks the window between the lookup and the registration of a   *)
(* new item, neither among the goroutines of a process nor among replicas. *)
(*                                                                         *)
(* The queue is open here: TryEnqueue succeeds or not (module Pipeline).   *)
(* InvalidateDashboard, called after an item is created, only touches the  *)
(* cache of module Dashboard.                                              *)
(***************************************************************************)
EXTENDS Integers, Sequences, FiniteSets

CONSTANTS Replicas,     \* the processes
          Reqs,         \* HTTP requests; each is made once
          Components,   \* component ids
          TypeOf,       \* the component type each component reports
          Payloads,     \* the bodies requests can have
          MaxInFlight,  \* bound on requests in progress at one time
          Faults,       \* what the environment may do
          Attempts,     \* of withRetry; 3 in the code
          Null

Severities == {"P0", "P1", "P2"}
ComponentTypes == {"RDBMS", "QUEUE", "API", "NOSQL", "MCP_HOST", "CACHE"}
AllFaults == {"postgres", "redis", "expire", "crash"}

\* One signal of a body; component Null stands for one that fails validation.
Elements == [component : Components \cup {Null}, severity : Severities]

ASSUME TypesAssumption == TypeOf \in [Components -> ComponentTypes]
ASSUME AttemptsAssumption == Attempts \in Nat \ {0}
ASSUME FaultsAssumption == Faults \subseteq AllFaults
ASSUME PayloadsAssumption ==
  \A p \in Payloads : /\ p.kind \in {"single", "batch"}
                      /\ p.elements \in Seq(Elements)
                      /\ p.kind = "single" => Len(p.elements) = 1

VARIABLES
  local,        \* Debouncer.local of each replica: component -> item
  entry,        \* the Redis keys ims:debounce:<component>
  workItems,    \* the rows of work_items
  req,          \* the requests
  dispatching,  \* goroutines that are about to send an alert
  alerts        \* the alerts sent, or lost with a process

vars == <<local, entry, workItems, req, dispatching, alerts>>

-----------------------------------------------------------------------------
(* Severity and alerts.                                                    *)

\* componentSeverityMap.  Every type validation lets through is in it.
SeverityForComponent(type) ==
  CASE type \in {"RDBMS", "QUEUE"}           -> "P0"
    [] type \in {"API", "NOSQL", "MCP_HOST"} -> "P1"
    [] type = "CACHE"                        -> "P2"

\* strategyRegistry and the channel of each strategy.
Channel(severity) ==
  CASE severity = "P0" -> "pagerduty"
    [] severity = "P1" -> "slack"
    [] severity = "P2" -> "email"

-----------------------------------------------------------------------------
(* Requests.                                                               *)

BatchLimit == 100

Fresh == [pc |-> "new", replica |-> Null, kind |-> "single", elements |-> <<>>,
          k |-> 0, item |-> Null, isNew |-> FALSE, tries |-> 0, results |-> <<>>]

\* The signal r is working on, and the id its new work item would get (a uuid
\* in the code: no other signal can draw it).
Element(r) == req[r].elements[req[r].k]
NewId(r) == <<r, req[r].k>>

\* The result of a signal, and of one that was not accepted and why: it is
\* malformed, its item could not be had, or the queue is full.
Result(item, isNew, error) == [item |-> item, isNew |-> isNew, error |-> error]
Failed(why) == Result(Null, FALSE, why)

Finished(r) == req[r].pc \in {"done", "lost"}
InFlight == {r \in Reqs : req[r].pc # "new" /\ ~Finished(r)}

Goto(r, pc) == req' = [req EXCEPT ![r].pc = pc]

\* The handler is through with a signal: it goes on with the next of the
\* batch or answers.
Advance(r, result) ==
  LET q == req[r]
      last == q.k = Len(q.elements) IN
  req' = [req EXCEPT ![r] =
            [q EXCEPT !.pc = IF last THEN "done" ELSE "Load",
                      !.k = IF last THEN q.k ELSE q.k + 1,
                      !.item = Null, !.isNew = FALSE, !.tries = 0,
                      !.results = Append(@, result)]]

-----------------------------------------------------------------------------
(* A request arrives.  The rate limiter, the body parser or the size of a  *)
(* batch may turn it away; then no signal has a result.                    *)

Begin(r, p, payload) ==
  /\ req[r].pc = "new"
  /\ Cardinality(InFlight) < MaxInFlight
  /\ LET pc == IF Len(payload.elements) \in 1 .. BatchLimit THEN "Load" ELSE "done"
     IN req' = [req EXCEPT ![r] =
                  [Fresh EXCEPT !.pc = pc, !.replica = p, !.kind = payload.kind,
                                !.elements = payload.elements, !.k = 1]]
  /\ UNCHANGED <<local, entry, workItems, dispatching, alerts>>

TurnAway(r) ==
  /\ req[r].pc = "new"
  /\ Goto(r, "done")
  /\ UNCHANGED <<local, entry, workItems, dispatching, alerts>>

-----------------------------------------------------------------------------
(* Debouncer.Resolve.                                                      *)

\* Validation, then the fast path: the map of this process.
Load(r) ==
  LET c == Element(r).component
      hit == local[req[r].replica][c] IN
  /\ req[r].pc = "Load"
  /\ \/ c = Null /\ Advance(r, Failed("invalid"))
     \/ /\ c # Null
        /\ IF hit # Null
             THEN req' = [req EXCEPT ![r].pc = "Enqueue", ![r].item = hit]
             ELSE Goto(r, "GetEntry")
  /\ UNCHANGED <<local, entry, workItems, dispatching, alerts>>

\* The slow path: Redis.  An error counts as a miss.
GetEntry(r) ==
  LET found == entry[Element(r).component] IN
  /\ req[r].pc = "GetEntry"
  /\ \/ /\ found # Null
        /\ req' = [req EXCEPT ![r].pc = "StoreLocal", ![r].item = found]
     \/ /\ found = Null \/ "redis" \in Faults
        /\ Goto(r, "Create")
  /\ UNCHANGED <<local, entry, workItems, dispatching, alerts>>

\* A retry loop that makes an attempt too many.
RetryOneMore(r) ==
  \/ /\ req[r].tries <= Attempts - 1
     /\ req' = [req EXCEPT ![r].tries = @ + 1]
  \/ Advance(r, Failed("unresolved"))

\* An attempt has failed: withRetry repeats it or gives up, which ends the
\* resolution of this signal with an error.
RetryOrFail(r) ==
  \/ /\ req[r].tries < Attempts - 1
     /\ req' = [req EXCEPT ![r].tries = @ + 1]
  \/ Advance(r, Failed("unresolved"))

\* The row a signal creates.  Only IngestSignal takes the severity from the
\* type of the component; in a batch it is the signal's own.
NewWorkItem(r) ==
  [id |-> NewId(r),
   component |-> Element(r).component,
   severity |-> IF req[r].kind = "single"
                  THEN SeverityForComponent(TypeOf[Element(r).component])
                  ELSE Element(r).severity]

Ids == {w.id : w \in workItems}

\* The handler goes on after CreateWorkItem; the alert of a single signal is
\* left to a goroutine.
Created(r, w) ==
  /\ req' = [req EXCEPT ![r].pc = "SetEntry", ![r].item = w.id, ![r].isNew = TRUE]
  /\ dispatching' = IF req[r].kind = "single"
                      THEN dispatching \cup {[by |-> req[r].replica, item |-> w]}
                      ELSE dispatching

\* The goroutine that sends the alert is not started.
CreateNoDispatch(r) ==
  LET w == NewWorkItem(r) IN
  /\ req[r].pc = "Create"
  /\ workItems' = workItems \cup {w}
  /\ req' = [req EXCEPT ![r].pc = "SetEntry", ![r].item = w.id, ![r].isNew = TRUE]
  /\ UNCHANGED <<local, entry, dispatching, alerts>>

\* The new item is announced whether or not the insert went through.
CreateUnconfirmed(r) ==
  LET w == NewWorkItem(r) IN
  /\ req[r].pc = "Create"
  /\ \/ workItems' = workItems \cup {w}
     \/ "postgres" \in Faults /\ UNCHANGED workItems
  /\ Created(r, w)
  /\ UNCHANGED <<local, entry, alerts>>

\* newWorkItemFn: one attempt of CreateWorkItem.  A repeat of an insert that
\* was committed without confirmation violates the primary key.
Create(r) ==
  LET w == NewWorkItem(r)
      Insert == w.id \notin Ids /\ workItems' = workItems \cup {w} IN
  /\ req[r].pc = "Create"
  /\ \/ Insert /\ Created(r, w)
     \/ /\ "postgres" \in Faults
        /\ Insert \/ UNCHANGED workItems
        /\ RetryOrFail(r)
        /\ UNCHANGED dispatching
  /\ UNCHANGED <<local, entry, alerts>>

\* Registration in Redis; an error is logged and ignored.
SetEntry(r) ==
  /\ req[r].pc = "SetEntry"
  /\ \/ entry' = [entry EXCEPT ![Element(r).component] = req[r].item]
     \/ "redis" \in Faults /\ UNCHANGED entry
  /\ Goto(r, "StoreLocal")
  /\ UNCHANGED <<local, workItems, dispatching, alerts>>

\* Registration in the map of this process, after a hit in Redis too.
StoreLocal(r) ==
  /\ req[r].pc = "StoreLocal"
  /\ local' = [local EXCEPT ![req[r].replica][Element(r).component] = req[r].item]
  /\ Goto(r, "Enqueue")
  /\ UNCHANGED <<entry, workItems, dispatching, alerts>>

\* TryEnqueue: the signal is accepted with its item, or the queue is full.
Enqueue(r) ==
  /\ req[r].pc = "Enqueue"
  /\ \/ Advance(r, Result(req[r].item, req[r].isNew, "none"))
     \/ Advance(r, Failed("full"))
  /\ UNCHANGED <<local, entry, workItems, dispatching, alerts>>

-----------------------------------------------------------------------------
(* The rest of the system.                                                 *)

\* Dispatcher.Dispatch: the strategy for the severity of the item.
Dispatch(d) ==
  /\ d \in dispatching
  /\ dispatching' = dispatching \ {d}
  /\ alerts' = alerts \cup {[item |-> d.item.id, channel |-> Channel(d.item.severity)]}
  /\ UNCHANGED <<local, entry, workItems, req>>

\* The time to live of a key has passed.
ExpireEntry(c) ==
  /\ "expire" \in Faults
  /\ entry[c] # Null
  /\ entry' = [entry EXCEPT ![c] = Null]
  /\ UNCHANGED <<local, workItems, req, dispatching, alerts>>

\* A replica dies and is started again with an empty map.  An alert that dies
\* with it is marked as lost.
Restart(p) ==
  /\ "crash" \in Faults
  /\ local' = [local EXCEPT ![p] = [c \in Components |-> Null]]
  /\ req' = [r \in Reqs |-> IF r \in InFlight /\ req[r].replica = p
                              THEN [req[r] EXCEPT !.pc = "lost"] ELSE req[r]]
  /\ dispatching' = {d \in dispatching : d.by # p}
  /\ alerts' = alerts \cup {[item |-> d.item.id, channel |-> "lost"] :
                              d \in {x \in dispatching : x.by = p}}
  /\ <<local', req'>> # <<local, req>> \/ dispatching' # dispatching
  /\ UNCHANGED <<entry, workItems>>

-----------------------------------------------------------------------------
Init ==
  /\ local = [p \in Replicas |-> [c \in Components |-> Null]]
  /\ entry = [c \in Components |-> Null]
  /\ workItems = {}
  /\ req = [r \in Reqs |-> Fresh]
  /\ dispatching = {}
  /\ alerts = {}

Step(r) == \/ Load(r) \/ GetEntry(r) \/ Create(r)
           \/ SetEntry(r) \/ StoreLocal(r) \/ Enqueue(r)

Next ==
  \/ \E r \in Reqs : \/ \E p \in Replicas, b \in Payloads : Begin(r, p, b)
                     \/ TurnAway(r)
                     \/ Step(r)
  \/ \E d \in dispatching : Dispatch(d)
  \/ \E c \in Components : ExpireEntry(c)
  \/ \E p \in Replicas : Restart(p)

Spec == Init /\ [][Next]_vars

\* The goroutine of an alert runs, and so does a handler: its calls to the stores
\* end with its context, after 3 seconds (5 for a batch) at the latest.
FairSpec ==
  /\ Spec
  /\ WF_vars(\E d \in dispatching : Dispatch(d))
  /\ \A r \in Reqs : WF_vars(Step(r))

-----------------------------------------------------------------------------
(* Properties.                                                             *)

ItemIds == Reqs \X (1 .. BatchLimit)
Rows == [id : ItemIds, component : Components, severity : Severities]
Errors == {"none", "invalid", "unresolved", "full"}
Results == [item : ItemIds \cup {Null}, isNew : BOOLEAN, error : Errors]
PCs == {"new", "Load", "GetEntry", "Create", "SetEntry", "StoreLocal", "Enqueue",
        "done", "lost"}

\* The variables have their types.
TypeOK ==
  /\ local \in [Replicas -> [Components -> ItemIds \cup {Null}]]
  /\ entry \in [Components -> ItemIds \cup {Null}]
  /\ workItems \subseteq Rows
  /\ req \in [Reqs -> [pc : PCs, replica : Replicas \cup {Null},
                       kind : {"single", "batch"}, elements : Seq(Elements),
                       k : Nat, item : ItemIds \cup {Null}, isNew : BOOLEAN,
                       tries : 0 .. Attempts - 1, results : Seq(Results)]]
  /\ dispatching \subseteq [by : Replicas, item : Rows]
  /\ alerts \subseteq [item : ItemIds, channel : {"pagerduty", "slack", "email", "lost"}]

\* id is the id of a stored work item of component c.
IsItemOf(id, c) == \E w \in workItems : w.id = id /\ w.component = c

\* The window, in a process or in Redis, never names an item that is not
\* stored or is another component's, whatever failed on the way.
WindowBacked ==
  \A c \in Components :
    /\ entry[c] # Null => IsItemOf(entry[c], c)
    /\ \A p \in Replicas : local[p][c] # Null => IsItemOf(local[p][c], c)

\* Every accepted signal is answered with a stored work item of its own
\* component, so the audit log never refers to an item that does not exist.
AcceptedIsLinked ==
  \A r \in Reqs : \A k \in 1 .. Len(req[r].results) :
    req[r].results[k].item # Null =>
      IsItemOf(req[r].results[k].item, req[r].elements[k].component)

\* No responder is called out for an incident that is not stored.
AlertsBacked == \A a \in alerts : a.item \in Ids

\* "only 1 WorkItem is created": no component has two items, apart from items
\* whose creator died before it could register them.
OneItemPerComponent ==
  \A v, w \in workItems :
    v.component = w.component /\ v # w =>
      \E x \in {v, w} : req[x.id[1]].pc = "lost"

\* An item that is stored for a single signal does not stay unnoticed: it is
\* announced on the channel for the type of its component, whatever becomes of
\* the registrations that follow, or its client is told that the signal could
\* not be processed (as happens when the INSERT was committed but not confirmed:
\* then no alert is ever sent), or its process died.
NewItemAlerted ==
  \A r \in Reqs :
    req[r].kind = "single" /\ <<r, 1>> \in Ids ~>
      \/ \E w \in workItems, a \in alerts :
           /\ w.id = <<r, 1>>
           /\ a.item = w.id
           /\ a.channel \in {Channel(SeverityForComponent(TypeOf[w.component])), "lost"}
      \/ req[r].pc = "done" /\ req[r].results = <<Failed("unresolved")>>
      \/ req[r].pc = "lost"
=============================================================================
