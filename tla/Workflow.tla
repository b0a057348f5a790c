------------------------------ MODULE Workflow ------------------------------
(***************************************************************************)
(* The workflow engine: Machine.Transition and Machine.SubmitRCA, the HTTP *)
(* handlers that call them and the PostgreSQL statements they issue.       *)
(*                                                                         *)
(* A handler is not one transaction.  It reads the work item, then (for a  *)
(* close) the RCA, and then writes with a statement whose only condition   *)
(* is the row's id, so the requests of several users, on several replicas, *)
(* interleave between any two statements.  The writes go through           *)
(* PostgresStore.withRetry: an attempt that reports an error may have been *)
(* committed all the same, and is then repeated.                           *)
(*                                                                         *)
(* The machine keeps no state in memory, so a request slot (a member of    *)
(* Reqs) may be served by any replica.  What Invalidate does to the Redis  *)
(* cache is the subject of module Dashboard, which composes this one.      *)
(***************************************************************************)
EXTENDS Integers

CONSTANTS Items,    \* the ids work items can have
          Reqs,     \* the requests that can be in progress at one time
          Times,    \* the instants an RCA body can carry, in nanoseconds
          Null      \* Go's nil, SQL's NULL, a row that does not exist

\* Microsecond is the resolution of TIMESTAMPTZ.  0 is Go's zero time.Time
\* (a field missing from the body); instants within a microsecond of year 1
\* are not considered.
Microsecond == 1000

ASSUME TimesAssumption == /\ Times \subseteq Nat
                          /\ \A t \in Times : t = 0 \/ t >= Microsecond

VARIABLES
  row,    \* table work_items: the row of an item, Null before it is created
  rcas,   \* table rcas: the row with that work_item_id, or Null
  req     \* the requests in progress

vars == <<row, rcas, req>>

-----------------------------------------------------------------------------
(* Data.                                                                   *)

States == {"OPEN", "INVESTIGATING", "RESOLVED", "CLOSED"}

\* A close that is offered from INVESTIGATING too.
ValidTransitionsSkip(s) ==
  CASE s = "OPEN"          -> {"INVESTIGATING"}
    [] s = "INVESTIGATING" -> {"RESOLVED", "CLOSED"}
    [] s = "RESOLVED"      -> {"CLOSED"}
    [] s = "CLOSED"        -> {}

\* A reopening of closed items.
ValidTransitionsReopen(s) ==
  CASE s = "OPEN"          -> {"INVESTIGATING"}
    [] s = "INVESTIGATING" -> {"RESOLVED"}
    [] s = "RESOLVED"      -> {"CLOSED"}
    [] s = "CLOSED"        -> {"INVESTIGATING"}

\* The State objects of state.go: where each state may go.
ValidTransitions(s) ==
  CASE s = "OPEN"          -> {"INVESTIGATING"}
    [] s = "INVESTIGATING" -> {"RESOLVED"}
    [] s = "RESOLVED"      -> {"CLOSED"}
    [] s = "CLOSED"        -> {}

CanTransitionTo(s, next) == next \in ValidTransitions(s)

\* to_state is any string: "" is rejected by the handler, a name that is not
\* a state by CanTransitionTo.
ToStates == States \cup {"", "UNKNOWN"}

\* The body of POST /rca.  complete stands for the four text fields: the
\* category is set and the three texts reach their minimal lengths.
Bodies == [start : Times, end : Times, complete : BOOLEAN]

\* The columns of the two tables the workflow reads and writes.  A timestamp
\* of a work item is abstracted to whether it is set.
Rows == [state : States, resolvedAt : BOOLEAN, closedAt : BOOLEAN,
         mttr : Int \cup {Null}]

RcaRows == [start : Nat, end : Nat, complete : BOOLEAN, by : Reqs]

ASSUME NullAssumption == Null \notin Int \cup Rows \cup RcaRows \cup Bodies

Validate(b) ==
  /\ b.start # 0
  /\ b.end # 0
  /\ b.end > b.start
  /\ b.complete

\* In units of the instants' own resolution.
MTTRMinutes(b) == b.end - b.start

\* What PostgreSQL keeps of an RCA: the driver cuts an instant down to whole
\* microseconds.  by is the request it came from; it stands for the uuid.
StoredRCA(b, r) == [start |-> b.start \div Microsecond,
                    end |-> b.end \div Microsecond,
                    complete |-> b.complete,
                    by |-> r]

NewWorkItem == [state |-> "OPEN", resolvedAt |-> FALSE, closedAt |-> FALSE,
                mttr |-> Null]

\* UPDATE work_items SET state = ..., resolved_at is lost on a close.
SetStateClears(w, to, mttr) ==
  CASE to = "RESOLVED" -> [w EXCEPT !.state = to, !.resolvedAt = TRUE]
    [] to = "CLOSED"   -> [w EXCEPT !.state = to, !.closedAt = TRUE,
                                    !.resolvedAt = FALSE, !.mttr = mttr]
    [] OTHER           -> [w EXCEPT !.state = to]

\* The three UPDATEs of UpdateWorkItemState.
SetState(w, to, mttr) ==
  CASE to = "RESOLVED" -> [w EXCEPT !.state = to, !.resolvedAt = TRUE]
    [] to = "CLOSED"   -> [w EXCEPT !.state = to, !.closedAt = TRUE,
                                    !.mttr = mttr]
    [] OTHER           -> [w EXCEPT !.state = to]

-----------------------------------------------------------------------------
(* Requests.  pc names the statement the handler is about to issue; a slot *)
(* is idle before its first request and after an answer, whose HTTP status *)
(* stays in code until the slot is used again.                             *)

IdlePC == "idle"
TransitionPCs == {"GetWorkItem", "GetRCA", "UpdateState", "Invalidate", "Reread"}
SubmitPCs == {"SubmitGetWorkItem", "SubmitGetRCA", "CreateRCA"}

\* The answers: statuses of the two handlers, and 0 for a request whose
\* process died.
Codes == {0, 200, 201, 400, 404, 409, 422, 500}

Idle == [pc |-> IdlePC, item |-> Null, to |-> "", body |-> Null, mttr |-> Null,
         tries |-> 0, code |-> 0]

\* withRetry makes three attempts.
Attempts == 3

Goto(r, pc) == req' = [req EXCEPT ![r].pc = pc]

\* The handler answers; the slot keeps nothing but the status.
Answer(r, code) == req' = [req EXCEPT ![r] = [Idle EXCEPT !.code = code]]

\* 201 is answered with the RCA that was submitted.
AnswerCreated(r) ==
  req' = [req EXCEPT ![r] = [Idle EXCEPT !.item = req[r].item,
                                         !.body = req[r].body,
                                         !.code = 201]]

\* A retry loop that makes an attempt too many.
RetryOneMore(r, code) ==
  \/ /\ req[r].tries <= Attempts - 1
     /\ req' = [req EXCEPT ![r].tries = @ + 1]
  \/ Answer(r, code)

\* A retry loop that does not count its attempts.
RetryForever(r, code) == UNCHANGED req \/ Answer(r, code)

\* An attempt has reported an error: withRetry tries again, or gives up
\* because it was the last one or because the request's 5 s have passed.
RetryOrFail(r, code) ==
  \/ /\ req[r].tries < Attempts - 1
     /\ req' = [req EXCEPT ![r].tries = @ + 1]
  \/ Answer(r, code)

-----------------------------------------------------------------------------
(* Machine.Transition.                                                     *)

\* PATCH /workitems/:id/transition arrives.
BeginTransition(r, i, to) ==
  /\ req[r].pc = IdlePC
  /\ IF to = ""
       THEN Answer(r, 400)
       ELSE req' = [req EXCEPT ![r] = [Idle EXCEPT !.pc = "GetWorkItem",
                                                   !.item = i, !.to = to]]
  /\ UNCHANGED <<row, rcas>>

\* Steps 1 and 2: fetch the item and ask its state object.
GetWorkItem(r) ==
  LET w == row[req[r].item] IN
  /\ req[r].pc = "GetWorkItem"
  /\ \/ Answer(r, 500)
     \/ w = Null /\ Answer(r, 404)
     \/ w # Null /\ ~CanTransitionTo(w.state, req[r].to) /\ Answer(r, 409)
     \/ /\ w # Null
        /\ CanTransitionTo(w.state, req[r].to)
        /\ Goto(r, IF req[r].to = "CLOSED" THEN "GetRCA" ELSE "UpdateState")
  /\ UNCHANGED <<row, rcas>>

\* Step 3 that lets a close through when there is no RCA.
GetRCAUnchecked(r) ==
  LET rca == rcas[req[r].item] IN
  /\ req[r].pc = "GetRCA"
  /\ \/ Answer(r, 500)
     \/ req' = [req EXCEPT ![r].pc = "UpdateState",
                  ![r].mttr = IF rca = Null THEN Null ELSE MTTRMinutes(rca)]
  /\ UNCHANGED <<row, rcas>>

\* Step 3: a close needs a valid RCA, whose duration becomes the MTTR.  The
\* answer is 500 when the query fails and also when the RCA is not valid: that
\* error is wrapped, and the handler's switch compares with ==.
GetRCA(r) ==
  LET rca == rcas[req[r].item] IN
  /\ req[r].pc = "GetRCA"
  /\ \/ Answer(r, 500)
     \/ rca = Null /\ Answer(r, 422)
     \/ /\ rca # Null
        /\ Validate(rca)
        /\ req' = [req EXCEPT ![r].pc = "UpdateState",
                              ![r].mttr = MTTRMinutes(rca)]
  /\ UNCHANGED <<row, rcas>>

\* Step 4: one attempt of UpdateWorkItemState.  It is committed and
\* confirmed, or it is committed and the confirmation is lost, or it fails.
UpdateState(r) ==
  LET i == req[r].item
      Write == row' = [row EXCEPT ![i] = SetState(@, req[r].to, req[r].mttr)] IN
  /\ req[r].pc = "UpdateState"
  /\ \/ Write /\ Goto(r, "Invalidate")
     \/ Write /\ RetryOrFail(r, 500)
     \/ UNCHANGED row /\ RetryOrFail(r, 500)
  /\ UNCHANGED rcas

\* Step 5: whether Redis deletes the key or not, the handler goes on.
Invalidate(r) ==
  /\ req[r].pc = "Invalidate"
  /\ Goto(r, "Reread")
  /\ UNCHANGED <<row, rcas>>

\* Step 6: the row is read again for the answer.
Reread(r) ==
  /\ req[r].pc = "Reread"
  /\ Answer(r, 200) \/ Answer(r, 500)
  /\ UNCHANGED <<row, rcas>>

-----------------------------------------------------------------------------
(* Machine.SubmitRCA.  The handler answers 422 to every error.             *)

\* POST /workitems/:id/rca arrives; its body is validated first.  (A body that
\* does not parse is answered 400 and leaves no trace; it is left out.)
BeginSubmit(r, i, b) ==
  /\ req[r].pc = IdlePC
  /\ IF Validate(b)
       THEN req' = [req EXCEPT ![r] = [Idle EXCEPT !.pc = "SubmitGetWorkItem",
                                                   !.item = i, !.body = b]]
       ELSE Answer(r, 422)
  /\ UNCHANGED <<row, rcas>>

\* A submission that is taken in every state.
SubmitGetWorkItemAny(r) ==
  /\ req[r].pc = "SubmitGetWorkItem"
  /\ \/ Answer(r, 422)
     \/ row[req[r].item] # Null /\ Goto(r, "SubmitGetRCA")
  /\ UNCHANGED <<row, rcas>>

\* The item must exist and be INVESTIGATING or RESOLVED.
SubmitGetWorkItem(r) ==
  LET w == row[req[r].item] IN
  /\ req[r].pc = "SubmitGetWorkItem"
  /\ \/ Answer(r, 422)
     \/ /\ w # Null
        /\ w.state \notin {"OPEN", "CLOSED"}
        /\ Goto(r, "SubmitGetRCA")
  /\ UNCHANGED <<row, rcas>>

\* No RCA may be there yet.
SubmitGetRCA(r) ==
  /\ req[r].pc = "SubmitGetRCA"
  /\ \/ Answer(r, 422)
     \/ rcas[req[r].item] = Null /\ Goto(r, "CreateRCA")
  /\ UNCHANGED <<row, rcas>>

\* The constraints of table rcas without UNIQUE (the new row hides the old).
ConstraintsNotUnique(i, rca) == rca.end > rca.start

\* The constraints of table rcas without rca_end_after_start.
ConstraintsNoCheck(i, rca) == rcas[i] = Null

\* The constraints of table rcas: UNIQUE on work_item_id, and
\* rca_end_after_start, which sees the instants as they are stored.
RcaConstraints(i, rca) ==
  /\ rcas[i] = Null
  /\ rca.end > rca.start

\* An insert whose duplicate-key error is taken for success.
CreateRCAUpsert(r) ==
  LET i == req[r].item
      rca == StoredRCA(req[r].body, r)
      Insert == RcaConstraints(i, rca) /\ rcas' = [rcas EXCEPT ![i] = rca] IN
  /\ req[r].pc = "CreateRCA"
  /\ \/ Insert /\ AnswerCreated(r)
     \/ Insert /\ RetryOrFail(r, 422)
     \/ UNCHANGED rcas /\ RetryOrFail(r, 422)
     \/ rcas[i] # Null /\ UNCHANGED rcas /\ AnswerCreated(r)
  /\ UNCHANGED row

\* One attempt of CreateRCA.  A violated constraint is an error like any
\* other to withRetry, so a repeat of a committed insert fails for good.
CreateRCA(r) ==
  LET i == req[r].item
      rca == StoredRCA(req[r].body, r)
      Insert == RcaConstraints(i, rca) /\ rcas' = [rcas EXCEPT ![i] = rca] IN
  /\ req[r].pc = "CreateRCA"
  /\ \/ Insert /\ AnswerCreated(r)
     \/ Insert /\ RetryOrFail(r, 422)
     \/ UNCHANGED rcas /\ RetryOrFail(r, 422)
  /\ UNCHANGED row

-----------------------------------------------------------------------------
(* The environment.                                                        *)

\* The ingestion handler inserts the row of a new incident.
CreateWorkItem(i) ==
  /\ row[i] = Null
  /\ row' = [row EXCEPT ![i] = NewWorkItem]
  /\ UNCHANGED <<rcas, req>>

\* The process that serves r dies: the request is gone, what it wrote stays.
Crash(r) ==
  /\ req[r].pc # IdlePC
  /\ req' = [req EXCEPT ![r] = Idle]
  /\ UNCHANGED <<row, rcas>>

-----------------------------------------------------------------------------
Init ==
  /\ row = [i \in Items |-> Null]
  /\ rcas = [i \in Items |-> Null]
  /\ req = [r \in Reqs |-> Idle]

\* What the handler of r does next.
Step(r) ==
  \/ GetWorkItem(r)
  \/ GetRCA(r)
  \/ UpdateState(r)
  \/ Invalidate(r)
  \/ Reread(r)
  \/ SubmitGetWorkItem(r)
  \/ SubmitGetRCA(r)
  \/ CreateRCA(r)

Next ==
  \/ \E i \in Items : CreateWorkItem(i)
  \/ \E r \in Reqs :
       \/ \E i \in Items, to \in ToStates : BeginTransition(r, i, to)
       \/ \E i \in Items, b \in Bodies : BeginSubmit(r, i, b)
       \/ Step(r)
       \/ Crash(r)

Spec == Init /\ [][Next]_vars

\* Every statement runs under the request's 5 s context, so a handler that
\* is running takes its next step.  New requests and crashes are not forced.
FairSpec == Spec /\ \A r \in Reqs : WF_vars(Step(r))

-----------------------------------------------------------------------------
(* Types.                                                                  *)

Requests == [pc : {IdlePC} \cup TransitionPCs \cup SubmitPCs,
             item : Items \cup {Null}, to : ToStates,
             body : Bodies \cup {Null}, mttr : Int \cup {Null},
             tries : 0 .. Attempts - 1, code : Codes]

\* The variables have their types, and a request in progress has an item and,
\* when it is a submission, a body.
TypeOK ==
  /\ row \in [Items -> Rows \cup {Null}]
  /\ rcas \in [Items -> RcaRows \cup {Null}]
  /\ req \in [Reqs -> Requests]
  /\ \A r \in Reqs :
       /\ req[r].pc # IdlePC => req[r].item \in Items
       /\ req[r].pc \in SubmitPCs => req[r].body \in Bodies

-----------------------------------------------------------------------------
(* Properties.                                                             *)

Exists(i) == row[i] # Null

\* An item is CLOSED only with an RCA that passes Validate, with the duration
\* of that very RCA as its MTTR, and after it was resolved: the check at step
\* 3 of Transition is still good when step 4 writes, whatever ran in between.
ClosedIsDocumented ==
  \A i \in Items : Exists(i) /\ row[i].state = "CLOSED" =>
    /\ rcas[i] # Null
    /\ Validate(rcas[i])
    /\ row[i].mttr = MTTRMinutes(rcas[i])
    /\ row[i].resolvedAt /\ row[i].closedAt

\* What is stored passes Validate again, although the instants lost their
\* nanoseconds on the way: Transition never meets an RCA it must refuse, and
\* an MTTR is never zero.
StoredRcaValid == \A i \in Items : rcas[i] # Null => Validate(rcas[i])

\* An RCA, once filed, is neither replaced nor removed by a later submission
\* or by a retry of an earlier one.
RcaIsFinal ==
  [][\A i \in Items : rcas[i] # Null => rcas'[i] = rcas[i]]_vars

\* No RCA is filed for an item that is OPEN or CLOSED, although SubmitRCA looks
\* at the state two statements before it inserts.
RcaFiledWhileActive ==
  [][\A i \in Items : rcas[i] = Null /\ rcas'[i] # Null =>
       Exists(i) /\ row[i].state \in {"INVESTIGATING", "RESOLVED"}]_vars

\* A client told 201 finds its own RCA in the table, not that of a colleague
\* who submitted at the same time.
AcknowledgedRcaStored ==
  \A r \in Reqs : req[r].code = 201 =>
    rcas[req[r].item] = StoredRCA(req[r].body, r)

\* A closed item that no pending update is about to take elsewhere.
Settled(i) ==
  /\ Exists(i)
  /\ row[i].state = "CLOSED"
  /\ \A r \in Reqs : req[r].item = i /\ req[r].pc = "UpdateState" =>
                      req[r].to = "CLOSED"

\* CLOSED is terminal once the transitions that overlapped with the close are
\* through: no later request of any kind takes the item out of it.
SettledIsTerminal == [][\A i \in Items : Settled(i) => Settled(i)']_vars

\* CLOSED is terminal ("No further transitions allowed", state.go).
ClosedIsTerminal ==
  [][\A i \in Items : Exists(i) /\ row[i].state = "CLOSED" =>
       row'[i].state = "CLOSED"]_vars

\* Every request is answered, or its process dies, however often PostgreSQL
\* fails: withRetry ends.
EveryRequestAnswered ==
  \A r \in Reqs : req[r].pc # IdlePC ~> req[r].pc = IdlePC

-----------------------------------------------------------------------------
(* The inductive invariant: what the tables say of an item, and what a     *)
(* request has learnt from the tables that no other request can undo.      *)

\* Timestamps, MTTR and RCA of an item fit together.
RowConsistent(i) ==
  Exists(i) =>
    /\ row[i].state \in {"RESOLVED", "CLOSED"} => row[i].resolvedAt
    /\ row[i].state = "CLOSED" => row[i].closedAt
    /\ row[i].closedAt => row[i].resolvedAt /\ row[i].mttr # Null
    /\ row[i].resolvedAt => row[i].state # "OPEN"
    /\ row[i].mttr # Null => /\ row[i].closedAt
                             /\ rcas[i] # Null
                             /\ row[i].mttr = MTTRMinutes(rcas[i])

\* An RCA is valid and belongs to an item that someone has acknowledged.
RcaConsistent(i) ==
  rcas[i] # Null =>
    /\ Exists(i)
    /\ row[i].state # "OPEN"
    /\ Validate(rcas[i])

\* What stays true of the item of a request after the request has read it.
RequestConsistent(r) ==
  LET q == req[r]
      i == q.item IN
  /\ q.pc = "GetRCA" => q.to = "CLOSED" /\ Exists(i) /\ row[i].resolvedAt
  /\ q.pc = "UpdateState" =>
       /\ Exists(i)
       /\ q.to \in {"INVESTIGATING", "RESOLVED", "CLOSED"}
       /\ q.to = "RESOLVED" => row[i].state # "OPEN"
       /\ q.to = "CLOSED" => /\ row[i].resolvedAt
                             /\ rcas[i] # Null
                             /\ q.mttr = MTTRMinutes(rcas[i])
  /\ q.pc \in {"SubmitGetRCA", "CreateRCA"} => Exists(i) /\ row[i].state # "OPEN"
  /\ q.pc \in SubmitPCs => Validate(q.body)
  /\ q.code = 201 => /\ q.pc = IdlePC
                     /\ q.item \in Items
                     /\ q.body \in Bodies
                     /\ rcas[i] # Null
                     /\ rcas[i] = StoredRCA(q.body, r)

Consistent ==
  /\ \A i \in Items : RowConsistent(i) /\ RcaConsistent(i)
  /\ \A r \in Reqs : RequestConsistent(r)

IInv == TypeOK /\ Consistent

-----------------------------------------------------------------------------
(* Refinement of Lifecycle.  The states an item has been in can be read    *)
(* off its row: the two timestamps are never cleared.                      *)

Phase(i) == IF Exists(i) THEN row[i].state ELSE "NONE"

Reached(i) ==
  IF ~Exists(i) THEN {}
  ELSE {"OPEN"} \cup (IF row[i].state # "OPEN" THEN {"INVESTIGATING"} ELSE {})
                \cup (IF row[i].resolvedAt THEN {"RESOLVED"} ELSE {})
                \cup (IF row[i].closedAt THEN {"CLOSED"} ELSE {})

L == INSTANCE Lifecycle
       WITH phase <- [i \in Items |-> Phase(i)],
            reached <- [i \in Items |-> Reached(i)],
            documented <- [i \in Items |-> rcas[i] # Null]

\* Whatever the number of concurrent requests, retries and crashes, every
\* state change is a move that was legal from a state the item had been in,
\* and no item is closed undocumented.
ImplementsLifecycle == L!Spec

\* When requests do not overlap, the item goes OPEN, INVESTIGATING, RESOLVED,
\* CLOSED and stays there, although an update is repeated by withRetry after
\* it was committed and a handler may die between any two of its statements.
ImplementsSerialLifecycle == L!SerialSpec
=============================================================================
