--------------------------- MODULE WorkflowProofs ---------------------------
(***************************************************************************)
(* Proofs about module Workflow, for any sets of work items, requests and  *)
(* instants.                                                               *)
(*                                                                         *)
(* The argument.  A request decides on what it has read and writes later,  *)
(* so the state it has read may be gone.  But some facts about an item     *)
(* cannot be undone by any request (Grows): it exists, it has left OPEN,   *)
(* it has been resolved, and its RCA, once filed, is the one it keeps.     *)
(* IInv says which of these facts each request relies on.                  *)
(***************************************************************************)
EXTENDS Workflow, TLAPS

USE TimesAssumption, NullAssumption

\* The facts about items that no step takes back.
Grows ==
  \A i \in Items :
    /\ Exists(i) => /\ Exists(i)'
                    /\ row[i].resolvedAt => row[i].resolvedAt'
                    /\ row[i].state # "OPEN" => row[i].state' # "OPEN"
    /\ rcas[i] # Null => rcas[i]' = rcas[i]

\* Step r touches no request but r.
Others(r) == \A q \in Reqs \ {r} : req'[q] = req[q]

-----------------------------------------------------------------------------
(* Records.                                                                *)

\* The record of a free slot is a request record.
LEMMA IdleType == Idle \in Requests
  BY DEF Idle, Requests, IdlePC, Codes, ToStates, States, Attempts

\* The cases of ValidTransitions as implications.
LEMMA Transitions ==
  ASSUME NEW s \in States, NEW to, CanTransitionTo(s, to)
  PROVE  \/ s = "OPEN" /\ to = "INVESTIGATING"
         \/ s = "INVESTIGATING" /\ to = "RESOLVED"
         \/ s = "RESOLVED" /\ to = "CLOSED"
  BY DEF CanTransitionTo, ValidTransitions, States

\* What the UPDATE statements leave in a row.
LEMMA SetStateType ==
  ASSUME NEW w, w \in Rows, NEW to, to \in {"INVESTIGATING", "RESOLVED", "CLOSED"},
         NEW m, m \in Int \cup {Null}
  PROVE  /\ SetState(w, to, m) \in Rows
         /\ SetState(w, to, m).state = to
         /\ SetState(w, to, m).resolvedAt = (w.resolvedAt \/ to = "RESOLVED")
         /\ SetState(w, to, m).closedAt = (w.closedAt \/ to = "CLOSED")
         /\ SetState(w, to, m).mttr = IF to = "CLOSED" THEN m ELSE w.mttr
<1>1. CASE to = "INVESTIGATING"
  BY <1>1 DEF SetState, Rows, States
<1>2. CASE to = "RESOLVED"
  BY <1>2 DEF SetState, Rows, States
<1>3. CASE to = "CLOSED"
  BY <1>3 DEF SetState, Rows, States
<1> QED
  BY <1>1, <1>2, <1>3

\* A clock time that is not Go's zero is at least a microsecond.
LEMMA PositiveTime ==
  ASSUME NEW t \in Times, t # 0
  PROVE  t \in Nat /\ t >= 1000
  BY DEF Microsecond

\* A valid body that also passes the table's constraints is stored as a valid
\* RCA: Validate survives the loss of the nanoseconds.
LEMMA StoredValid ==
  ASSUME NEW b \in Bodies, NEW r \in Reqs, Validate(b),
         StoredRCA(b, r).end > StoredRCA(b, r).start
  PROVE  Validate(StoredRCA(b, r))
<1>1. b.start \in Times /\ b.end \in Times /\ b.complete
  BY DEF Bodies, Validate
<1>2. b.start >= 1000 /\ b.end >= 1000 /\ b.start \in Nat /\ b.end \in Nat
  <2>s. PICK s : s = b.start
    OBVIOUS
  <2>e. PICK e : e = b.end
    OBVIOUS
  <2>1. s \in Times /\ s # 0 /\ e \in Times /\ e # 0
    BY <1>1, <2>s, <2>e DEF Validate
  <2>2. s \in Nat /\ s >= 1000
    BY <2>1, PositiveTime
  <2>3. e \in Nat /\ e >= 1000
    BY <2>1, PositiveTime
  <2> QED
    BY <2>s, <2>e, <2>2, <2>3
<1>3. b.start \div 1000 > 0 /\ b.end \div 1000 > 0
  BY <1>2
<1> QED
  BY <1>1, <1>3 DEF Validate, StoredRCA, Microsecond

\* A stored RCA is a row of table rcas.
LEMMA StoredType ==
  ASSUME NEW b \in Bodies, NEW r \in Reqs
  PROVE  StoredRCA(b, r) \in RcaRows
<1>1. b.start \in Nat /\ b.end \in Nat /\ b.complete \in BOOLEAN
  BY DEF Bodies
<1>2. b.start \div 1000 \in Nat /\ b.end \div 1000 \in Nat
  BY <1>1
<1> QED
  BY <1>1, <1>2 DEF StoredRCA, RcaRows, Microsecond

-----------------------------------------------------------------------------
(* Frame conditions.                                                       *)

\* What the other requests have learnt stays true.
LEMMA OthersConsistent ==
  ASSUME IInv, NEW r \in Reqs, Others(r), Grows
  PROVE  \A q \in Reqs \ {r} : RequestConsistent(q)'
<1> SUFFICES ASSUME NEW q \in Reqs \ {r}
             PROVE  RequestConsistent(q)'
  OBVIOUS
<1>1. req'[q] = req[q]
  BY DEF Others
<1>2. RequestConsistent(q)
  BY DEF IInv, Consistent
<1>3. req[q].pc # IdlePC => req[q].item \in Items
  BY DEF IInv, TypeOK
<1>4. req[q] \in Requests
  BY DEF IInv, TypeOK
<1>5. ASSUME req[q].item \in Items
      PROVE  RequestConsistent(q)'
  BY <1>1, <1>2, <1>5
  DEF RequestConsistent, IdlePC, Grows, Exists, SubmitPCs, Validate, MTTRMinutes,
      StoredRCA, Microsecond, Bodies
<1>6. ASSUME req[q].item \notin Items
      PROVE  RequestConsistent(q)'
  BY <1>1, <1>2, <1>3, <1>6 DEF RequestConsistent, SubmitPCs, IdlePC, Validate
<1> QED
  BY <1>5, <1>6

\* The two tables are well-formed and consistent.
TablesOK ==
  /\ row \in [Items -> Rows \cup {Null}]
  /\ rcas \in [Items -> RcaRows \cup {Null}]
  /\ \A i \in Items : RowConsistent(i) /\ RcaConsistent(i)

\* Request r is well-formed and consistent with the tables.
RequestOK(r) ==
  /\ req[r] \in Requests
  /\ req[r].pc # IdlePC => req[r].item \in Items
  /\ req[r].pc \in SubmitPCs => req[r].body \in Bodies
  /\ RequestConsistent(r)

\* The invariant, taken apart by table and by request.
LEMMA IInvParts == IInv <=> /\ TablesOK
                            /\ req \in [Reqs -> Requests]
                            /\ \A r \in Reqs : RequestOK(r)
  BY DEF IInv, TypeOK, Consistent, TablesOK, RequestOK

\* Reading leaves the tables as they are.
LEMMA UnchangedTables ==
  ASSUME TablesOK, UNCHANGED <<row, rcas>>
  PROVE  TablesOK' /\ Grows
  BY DEF TablesOK, RowConsistent, RcaConsistent, Exists, Grows, Validate,
         MTTRMinutes, Rows, RcaRows, States

\* To preserve the invariant, a step of r has to leave the tables consistent,
\* take nothing back, and leave r consistent.
LEMMA Assemble ==
  ASSUME IInv, NEW r \in Reqs, NEW q \in Requests, req' = [req EXCEPT ![r] = q],
         Grows, TablesOK', RequestOK(r)'
  PROVE  IInv'
<1>1. req' \in [Reqs -> Requests]
  BY DEF IInv, TypeOK
<1>2. Others(r)
  BY DEF Others, IInv, TypeOK
<1>3. \A p \in Reqs \ {r} : RequestConsistent(p)'
  BY <1>2, OthersConsistent
<1>4. \A p \in Reqs \ {r} : req'[p] = req[p]
  BY <1>2 DEF Others
<1>5. TypeOK'
  BY <1>1, <1>4 DEF IInv, TypeOK, TablesOK, RequestOK, Bodies, SubmitPCs, IdlePC
<1>6. Consistent'
  BY <1>3 DEF Consistent, TablesOK, RequestOK
<1> QED
  BY <1>5, <1>6 DEF IInv

\* A step that only answers preserves the invariant if the tables allow it.
LEMMA AnswerStep ==
  ASSUME IInv, NEW r \in Reqs, NEW code \in Codes \ {201}, Answer(r, code),
         Grows, TablesOK'
  PROVE  IInv'
<1> DEFINE q == [Idle EXCEPT !.code = code]
<1>1. q \in Requests /\ q.pc = IdlePC /\ q.code = code
  BY IdleType DEF Requests, Idle
<1>2. req' = [req EXCEPT ![r] = q]
  BY DEF Answer
<1>3. req'[r] = q
  BY <1>2 DEF IInv, TypeOK
<1> HIDE DEF q
<1>4. RequestOK(r)'
  BY <1>1, <1>3 DEF RequestOK, RequestConsistent, IdlePC, SubmitPCs
<1> QED
  BY <1>1, <1>2, <1>4, Assemble

\* The same when a retry is the alternative to the answer: r stands where it
\* stood, so what it has learnt must still be true.
LEMMA RetryStep ==
  ASSUME IInv, NEW r \in Reqs, NEW code \in Codes \ {201}, RetryOrFail(r, code),
         req[r].pc # IdlePC, Grows, TablesOK'
  PROVE  IInv'
<1>1. CASE Answer(r, code)
  BY <1>1, AnswerStep
<1>2. CASE req[r].tries < Attempts - 1 /\ req' = [req EXCEPT ![r].tries = @ + 1]
  <2> DEFINE q == [req[r] EXCEPT !.tries = @ + 1]
  <2>1. req[r] \in Requests /\ RequestOK(r)
    BY IInvParts
  <2>2. /\ q \in Requests
        /\ q.pc = req[r].pc /\ q.item = req[r].item /\ q.to = req[r].to
        /\ q.body = req[r].body /\ q.mttr = req[r].mttr /\ q.code = req[r].code
    BY <1>2, <2>1 DEF Requests, Attempts
  <2>3. req' = [req EXCEPT ![r] = q] /\ req'[r] = q
    BY <1>2 DEF IInv, TypeOK
  <2> HIDE DEF q
  <2>4. RequestOK(r)'
    BY <2>1, <2>2, <2>3
    DEF RequestOK, RequestConsistent, Grows, Exists, SubmitPCs, IdlePC, Validate,
        MTTRMinutes, Bodies
  <2> QED
    BY <2>2, <2>3, <2>4, Assemble
<1> QED
  BY <1>1, <1>2 DEF RetryOrFail

-----------------------------------------------------------------------------
(* Machine.Transition.                                                     *)

\* The steps of Transition, one lemma for each statement: a request arrives.
LEMMA BeginTransitionStep ==
  ASSUME IInv, NEW r \in Reqs, NEW i \in Items, NEW to \in ToStates,
         BeginTransition(r, i, to)
  PROVE  IInv'
<1>1. TablesOK' /\ Grows
  BY IInvParts, UnchangedTables DEF BeginTransition
<1>2. CASE to = ""
  <2>1. Answer(r, 400)
    BY <1>2 DEF BeginTransition
  <2> QED
    BY <1>1, <2>1, AnswerStep DEF Codes
<1>3. CASE to # ""
  <2> DEFINE q == [Idle EXCEPT !.pc = "GetWorkItem", !.item = i, !.to = to]
  <2>1. /\ q \in Requests
        /\ q.pc = "GetWorkItem" /\ q.item = i /\ q.code = 0
    BY IdleType DEF Requests, Idle, TransitionPCs
  <2>2. req' = [req EXCEPT ![r] = q] /\ req'[r] = q
    BY <1>3 DEF BeginTransition, IInv, TypeOK
  <2> HIDE DEF q
  <2>3. RequestOK(r)'
    BY <2>1, <2>2 DEF RequestOK, RequestConsistent, IdlePC, SubmitPCs
  <2> QED
    BY <1>1, <2>1, <2>2, <2>3, Assemble
<1> QED
  BY <1>2, <1>3

\* The item is read; what its state allows then is what the request knows.
LEMMA GetWorkItemStep ==
  ASSUME IInv, NEW r \in Reqs, GetWorkItem(r)
  PROVE  IInv'
<1>1. TablesOK' /\ Grows /\ TablesOK /\ RequestOK(r)
  BY IInvParts, UnchangedTables DEF GetWorkItem
<1> DEFINE w == row[req[r].item]
           pc == IF req[r].to = "CLOSED" THEN "GetRCA" ELSE "UpdateState"
<1>2. CASE \E code \in Codes \ {201} : Answer(r, code)
  BY <1>1, <1>2, AnswerStep
<1>3. CASE w # Null /\ CanTransitionTo(w.state, req[r].to) /\ Goto(r, pc)
  <2> DEFINE q == [req[r] EXCEPT !.pc = pc]
  <2>1. req[r] \in Requests /\ req[r].item \in Items /\ req[r].code # 201
    BY <1>1 DEF RequestOK, RequestConsistent, GetWorkItem, IdlePC
  <2>2. w \in Rows
    BY <1>1, <1>3, <2>1 DEF TablesOK
  <2>3. \/ w.state = "OPEN" /\ req[r].to = "INVESTIGATING"
        \/ w.state = "INVESTIGATING" /\ req[r].to = "RESOLVED"
        \/ w.state = "RESOLVED" /\ req[r].to = "CLOSED"
    BY <1>3, <2>2, Transitions DEF Rows
  <2>4. w.state = "RESOLVED" => w.resolvedAt
    BY <1>1, <1>3, <2>1 DEF TablesOK, RowConsistent, Exists
  <2>5. /\ q \in Requests /\ q.pc = pc
        /\ q.item = req[r].item /\ q.to = req[r].to /\ q.code = req[r].code
    BY <2>1 DEF Requests, TransitionPCs
  <2>6. req' = [req EXCEPT ![r] = q] /\ req'[r] = q
    BY <1>3 DEF Goto, IInv, TypeOK
  <2>7. row' = row /\ rcas' = rcas
    BY DEF GetWorkItem
  <2> HIDE DEF q
  <2>8. RequestConsistent(r)'
    BY <1>1, <1>3, <2>1, <2>2, <2>3, <2>4, <2>5, <2>6, <2>7
    DEF RequestOK, RequestConsistent, Exists, SubmitPCs, IdlePC
  <2>9. RequestOK(r)'
    BY <2>1, <2>5, <2>6, <2>8 DEF RequestOK, SubmitPCs
  <2> QED
    BY <1>1, <2>5, <2>6, <2>9, Assemble
<1> QED
  BY <1>2, <1>3 DEF GetWorkItem, Codes

\* The RCA is read; no other request can take it back.
LEMMA GetRCAStep ==
  ASSUME IInv, NEW r \in Reqs, GetRCA(r)
  PROVE  IInv'
<1>1. TablesOK' /\ Grows /\ TablesOK /\ RequestOK(r)
  BY IInvParts, UnchangedTables DEF GetRCA
<1> DEFINE rca == rcas[req[r].item]
           q == [req[r] EXCEPT !.pc = "UpdateState", !.mttr = MTTRMinutes(rca)]
<1>2. CASE \E code \in Codes \ {201} : Answer(r, code)
  BY <1>1, <1>2, AnswerStep
<1>3. CASE rca # Null /\ req' = [req EXCEPT ![r] = q]
  <2>1. /\ req[r] \in Requests /\ req[r].item \in Items /\ req[r].code # 201
        /\ req[r].to = "CLOSED"
    BY <1>1 DEF RequestOK, RequestConsistent, GetRCA, IdlePC
  <2>2. rca \in RcaRows
    BY <1>1, <1>3, <2>1 DEF TablesOK
  <2>3. MTTRMinutes(rca) \in Int
    BY <2>2 DEF RcaRows, MTTRMinutes
  <2>4. /\ q \in Requests /\ q.pc = "UpdateState" /\ q.mttr = MTTRMinutes(rca)
        /\ q.item = req[r].item /\ q.to = "CLOSED" /\ q.code = req[r].code
    BY <2>1, <2>3 DEF Requests, TransitionPCs
  <2>5. req'[r] = q
    BY <1>3 DEF IInv, TypeOK
  <2>6. row' = row /\ rcas' = rcas
    BY DEF GetRCA
  <2>7. Exists(req[r].item) /\ row[req[r].item].resolvedAt
    BY <1>1 DEF RequestOK, RequestConsistent, GetRCA
  <2> HIDE DEF q
  <2>8. RequestConsistent(r)'
    BY <1>3, <2>1, <2>4, <2>5, <2>6, <2>7
    DEF RequestConsistent, Exists, SubmitPCs, IdlePC, MTTRMinutes
  <2>9. RequestOK(r)'
    BY <2>1, <2>4, <2>5, <2>8 DEF RequestOK, SubmitPCs
  <2> QED
    BY <1>1, <1>3, <2>4, <2>9, Assemble
<1>4. rca # Null /\ req' = [req EXCEPT ![r].pc = "UpdateState",
                                       ![r].mttr = MTTRMinutes(rca)]
      => req' = [req EXCEPT ![r] = q]
  BY DEF IInv, TypeOK, Requests
<1> QED
  BY <1>2, <1>3, <1>4 DEF GetRCA, Codes

\* The UPDATE of a request that has done its checks keeps the tables
\* consistent and takes nothing back.
LEMMA WriteState ==
  ASSUME IInv, NEW r \in Reqs, req[r].pc = "UpdateState", UNCHANGED rcas,
         row' = [row EXCEPT ![req[r].item] =
                   SetState(@, req[r].to, req[r].mttr)]
  PROVE  TablesOK' /\ Grows
<1>1. TablesOK /\ RequestOK(r)
  BY IInvParts
<1>0. PICK i \in Items, to \in ToStates, m \in Int \cup {Null} :
        i = req[r].item /\ to = req[r].to /\ m = req[r].mttr
  BY <1>1 DEF RequestOK, Requests, IdlePC
<1>2. /\ row[i] # Null
      /\ to \in {"INVESTIGATING", "RESOLVED", "CLOSED"}
      /\ to = "RESOLVED" => row[i].state # "OPEN"
      /\ to = "CLOSED" => /\ row[i].resolvedAt
                          /\ rcas[i] # Null
                          /\ m = MTTRMinutes(rcas[i])
  BY <1>0, <1>1 DEF RequestOK, RequestConsistent, Exists
<1>3. row[i] \in Rows
  BY <1>1, <1>2 DEF TablesOK
<1> DEFINE w == SetState(row[i], to, m)
<1>4. /\ w \in Rows
      /\ w.state = to
      /\ w.resolvedAt = (row[i].resolvedAt \/ to = "RESOLVED")
      /\ w.closedAt = (row[i].closedAt \/ to = "CLOSED")
      /\ w.mttr = IF to = "CLOSED" THEN m ELSE row[i].mttr
  BY <1>2, <1>3, SetStateType
<1> HIDE DEF w
<1>5. row' = [row EXCEPT ![i] = w]
  BY <1>0 DEF w
<1>6. row'[i] = w /\ \A j \in Items \ {i} : row'[j] = row[j]
  BY <1>1, <1>2, <1>5 DEF TablesOK
<1>7. w # Null
  BY <1>4
<1>8. Grows
  BY <1>2, <1>4, <1>6, <1>7 DEF Grows, Exists
<1>9. RowConsistent(i)'
  <2>1. RowConsistent(i)
    BY <1>1, <1>2 DEF TablesOK
  <2>2. to = "CLOSED" => m # Null
    <3> SUFFICES ASSUME to = "CLOSED" PROVE m \in Int
      BY NullAssumption
    <3>1. rcas[i] \in RcaRows
      BY <1>1, <1>2 DEF TablesOK
    <3> QED
      BY <1>2, <3>1 DEF RcaRows, MTTRMinutes
  <2> QED
    BY <1>2, <1>4, <1>6, <2>1, <2>2 DEF RowConsistent, Exists, MTTRMinutes
<1>10. RcaConsistent(i)'
  <2>1. RcaConsistent(i)
    BY <1>1, <1>2 DEF TablesOK
  <2> QED
    BY <1>2, <1>4, <1>6, <1>7, <2>1 DEF RcaConsistent, Exists, Validate
<1>11. \A j \in Items \ {i} : RowConsistent(j)' /\ RcaConsistent(j)'
  BY <1>1, <1>6
  DEF TablesOK, RowConsistent, RcaConsistent, Exists, Validate, MTTRMinutes
<1>12. row' \in [Items -> Rows \cup {Null}]
  BY <1>1, <1>4, <1>5 DEF TablesOK
<1>13. rcas' \in [Items -> RcaRows \cup {Null}]
  BY <1>1 DEF TablesOK
<1> QED
  BY <1>8, <1>9, <1>10, <1>11, <1>12, <1>13 DEF TablesOK, Rows, RcaRows, States

\* A step of r to another statement that needs no new knowledge.
LEMMA GotoStep ==
  ASSUME IInv, NEW r \in Reqs, req[r].pc # IdlePC,
         NEW pc \in TransitionPCs \cup SubmitPCs, Goto(r, pc), Grows, TablesOK',
         pc \notin {"GetRCA", "UpdateState"},
         pc \in SubmitPCs => req[r].pc \in SubmitPCs,
         pc \in {"SubmitGetRCA", "CreateRCA"} =>
           row[req[r].item] # Null /\ row[req[r].item].state # "OPEN"
  PROVE  IInv'
<1> DEFINE q == [req[r] EXCEPT !.pc = pc]
<1>1. req[r] \in Requests /\ RequestOK(r)
  BY IInvParts
<1>2. req[r].item \in Items /\ req[r].code # 201
  BY <1>1 DEF RequestOK, RequestConsistent
<1>3. /\ q \in Requests /\ q.pc = pc /\ q.item = req[r].item
      /\ q.body = req[r].body /\ q.code = req[r].code
  BY <1>1 DEF Requests
<1>4. req' = [req EXCEPT ![r] = q] /\ req'[r] = q
  BY DEF Goto, IInv, TypeOK
<1> HIDE DEF q
<1>5. RequestOK(r)'
  BY <1>1, <1>2, <1>3, <1>4
  DEF RequestOK, RequestConsistent, Grows, Exists, SubmitPCs, Validate, Bodies
<1> QED
  BY <1>3, <1>4, <1>5, Assemble

\* The UPDATE, confirmed, unconfirmed or failed.
LEMMA UpdateStateStep ==
  ASSUME IInv, NEW r \in Reqs, UpdateState(r)
  PROVE  IInv'
<1>1. TablesOK' /\ Grows
  <2>1. CASE UNCHANGED row
    BY <2>1, IInvParts, UnchangedTables DEF UpdateState
  <2>2. CASE row' = [row EXCEPT ![req[r].item] =
                       SetState(@, req[r].to, req[r].mttr)]
    BY <2>2, WriteState DEF UpdateState
  <2> QED
    BY <2>1, <2>2 DEF UpdateState
<1>2. req[r].pc = "UpdateState"
  BY DEF UpdateState
<1>3. CASE Goto(r, "Invalidate")
  BY <1>1, <1>2, <1>3, GotoStep DEF TransitionPCs, SubmitPCs, IdlePC
<1>4. CASE RetryOrFail(r, 500)
  BY <1>1, <1>2, <1>4, RetryStep DEF IdlePC, Codes
<1> QED
  BY <1>3, <1>4 DEF UpdateState

\* The cache is invalidated.
LEMMA InvalidateStep ==
  ASSUME IInv, NEW r \in Reqs, Invalidate(r)
  PROVE  IInv'
<1>1. TablesOK' /\ Grows
  BY IInvParts, UnchangedTables DEF Invalidate
<1> QED
  BY <1>1, GotoStep DEF Invalidate, TransitionPCs, SubmitPCs, IdlePC

\* The item is read again and answered.
LEMMA RereadStep ==
  ASSUME IInv, NEW r \in Reqs, Reread(r)
  PROVE  IInv'
<1>1. TablesOK' /\ Grows
  BY IInvParts, UnchangedTables DEF Reread
<1>2. \E code \in Codes \ {201} : Answer(r, code)
  BY DEF Reread, Codes
<1> QED
  BY <1>1, <1>2, AnswerStep

-----------------------------------------------------------------------------
(* Machine.SubmitRCA.                                                      *)

\* A submission arrives: only valid bodies get further.
LEMMA BeginSubmitStep ==
  ASSUME IInv, NEW r \in Reqs, NEW i \in Items, NEW b \in Bodies,
         BeginSubmit(r, i, b)
  PROVE  IInv'
<1>1. TablesOK' /\ Grows
  BY IInvParts, UnchangedTables DEF BeginSubmit
<1>2. CASE ~Validate(b)
  <2>1. Answer(r, 422)
    BY <1>2 DEF BeginSubmit
  <2> QED
    BY <1>1, <2>1, AnswerStep DEF Codes
<1>3. CASE Validate(b)
  <2> DEFINE q == [Idle EXCEPT !.pc = "SubmitGetWorkItem", !.item = i, !.body = b]
  <2>1. /\ q \in Requests
        /\ q.pc = "SubmitGetWorkItem" /\ q.item = i /\ q.body = b /\ q.code = 0
    BY IdleType DEF Requests, Idle, SubmitPCs
  <2>2. req' = [req EXCEPT ![r] = q] /\ req'[r] = q
    BY <1>3 DEF BeginSubmit, IInv, TypeOK
  <2> HIDE DEF q
  <2>3. RequestOK(r)'
    BY <1>3, <2>1, <2>2 DEF RequestOK, RequestConsistent, SubmitPCs, Validate
  <2> QED
    BY <1>1, <2>1, <2>2, <2>3, Assemble
<1> QED
  BY <1>2, <1>3

\* The item is read; it is not OPEN and never will be again.
LEMMA SubmitGetWorkItemStep ==
  ASSUME IInv, NEW r \in Reqs, SubmitGetWorkItem(r)
  PROVE  IInv'
<1>1. TablesOK' /\ Grows
  BY IInvParts, UnchangedTables DEF SubmitGetWorkItem
<1>2. CASE Answer(r, 422)
  BY <1>1, <1>2, AnswerStep DEF Codes
<1>3. CASE ~Answer(r, 422)
  <2>1. /\ req[r].pc = "SubmitGetWorkItem" /\ Goto(r, "SubmitGetRCA")
        /\ row[req[r].item] # Null /\ row[req[r].item].state # "OPEN"
    BY <1>3 DEF SubmitGetWorkItem
  <2> QED
    BY <1>1, <2>1, GotoStep DEF TransitionPCs, SubmitPCs, IdlePC
<1> QED
  BY <1>2, <1>3

\* The RCA is looked up.
LEMMA SubmitGetRCAStep ==
  ASSUME IInv, NEW r \in Reqs, SubmitGetRCA(r)
  PROVE  IInv'
<1>1. TablesOK' /\ Grows
  BY IInvParts, UnchangedTables DEF SubmitGetRCA
<1>2. CASE Answer(r, 422)
  BY <1>1, <1>2, AnswerStep DEF Codes
<1>3. CASE Goto(r, "CreateRCA")
  <2>1. req[r].pc = "SubmitGetRCA"
    BY DEF SubmitGetRCA
  <2>2. row[req[r].item] # Null /\ row[req[r].item].state # "OPEN"
    BY <2>1, IInvParts DEF RequestOK, RequestConsistent, Exists
  <2> QED
    BY <1>1, <1>3, <2>1, <2>2, GotoStep DEF TransitionPCs, SubmitPCs, IdlePC
<1> QED
  BY <1>2, <1>3 DEF SubmitGetRCA

\* The INSERT of a valid body keeps the tables consistent.
LEMMA InsertRCA ==
  ASSUME IInv, NEW r \in Reqs, req[r].pc = "CreateRCA", UNCHANGED row,
         NEW i \in Items, i = req[r].item,
         NEW b \in Bodies, b = req[r].body,
         RcaConstraints(i, StoredRCA(b, r)),
         rcas' = [rcas EXCEPT ![i] = StoredRCA(b, r)]
  PROVE  TablesOK' /\ Grows /\ rcas'[i] = StoredRCA(b, r) /\ rcas'[i] # Null
<1>1. TablesOK /\ RequestOK(r)
  BY IInvParts
<1>2. Validate(b) /\ Exists(i) /\ row[i].state # "OPEN"
  BY <1>1 DEF RequestOK, RequestConsistent, SubmitPCs
<1> DEFINE rca == StoredRCA(b, r)
<1>3. rca \in RcaRows /\ rca # Null /\ Validate(rca)
  BY <1>2, StoredType, StoredValid DEF RcaConstraints
<1> HIDE DEF rca
<1>4. rcas[i] = Null
  BY DEF RcaConstraints
<1>5. rcas' = [rcas EXCEPT ![i] = rca]
  BY DEF rca
<1>6. rcas'[i] = rca /\ \A j \in Items \ {i} : rcas'[j] = rcas[j]
  BY <1>1, <1>5 DEF TablesOK
<1>7. Grows
  BY <1>4, <1>6 DEF Grows, Exists
<1>8. rcas' \in [Items -> RcaRows \cup {Null}]
  BY <1>1, <1>3, <1>5 DEF TablesOK
<1>9. RowConsistent(i)' /\ RcaConsistent(i)'
  BY <1>1, <1>2, <1>3, <1>4, <1>6
  DEF TablesOK, RowConsistent, RcaConsistent, Exists, Validate, MTTRMinutes
<1>10. \A j \in Items \ {i} : RowConsistent(j)' /\ RcaConsistent(j)'
  BY <1>1, <1>6
  DEF TablesOK, RowConsistent, RcaConsistent, Exists, Validate, MTTRMinutes
<1>11. row' \in [Items -> Rows \cup {Null}]
  BY <1>1 DEF TablesOK
<1>12. TablesOK'
  BY <1>8, <1>9, <1>10, <1>11 DEF TablesOK, Rows, RcaRows, States
<1> QED
  BY <1>3, <1>6, <1>7, <1>12 DEF rca

\* The INSERT, confirmed, unconfirmed or refused.
LEMMA CreateRCAStep ==
  ASSUME IInv, NEW r \in Reqs, CreateRCA(r)
  PROVE  IInv'
<1>1. req[r].pc = "CreateRCA" /\ RequestOK(r) /\ UNCHANGED row
  BY IInvParts DEF CreateRCA
<1>2. PICK i \in Items, b \in Bodies : i = req[r].item /\ b = req[r].body
  BY <1>1 DEF RequestOK, IdlePC, SubmitPCs
<1> DEFINE Insert == /\ RcaConstraints(i, StoredRCA(b, r))
                     /\ rcas' = [rcas EXCEPT ![i] = StoredRCA(b, r)]
<1>3. Insert => /\ TablesOK' /\ Grows
                /\ rcas'[i] = StoredRCA(b, r) /\ rcas'[i] # Null
  BY <1>1, <1>2, InsertRCA
<1>4. UNCHANGED rcas => TablesOK' /\ Grows
  BY <1>1, IInvParts, UnchangedTables
<1>5. \/ Insert /\ AnswerCreated(r)
      \/ (Insert \/ UNCHANGED rcas) /\ RetryOrFail(r, 422)
  BY <1>2 DEF CreateRCA
<1> HIDE DEF Insert
<1>6. CASE Insert /\ AnswerCreated(r)
  <2> DEFINE q == [Idle EXCEPT !.item = i, !.body = b, !.code = 201]
  <2>0. 201 \in Codes
    BY DEF Codes
  <2>1. /\ q \in Requests
        /\ q.pc = IdlePC /\ q.item = i /\ q.body = b /\ q.code = 201
    BY <2>0, IdleType DEF Requests, Idle
  <2>2. req' = [req EXCEPT ![r] = q] /\ req'[r] = q
    BY <1>2, <1>6 DEF AnswerCreated, IInv, TypeOK
  <2> HIDE DEF q
  <2>3. RequestConsistent(r)'
    <3>1. rcas'[i] = StoredRCA(req'[r].body, r) /\ rcas'[i] # Null
      BY <1>3, <1>6, <2>1, <2>2
    <3>2. (StoredRCA(req[r].body, r))' = StoredRCA(req'[r].body, r)
      BY DEF StoredRCA, Microsecond
    <3> QED
      BY <2>1, <2>2, <3>1, <3>2
      DEF RequestConsistent, SubmitPCs, IdlePC, Bodies
  <2>4. RequestOK(r)'
    BY <2>1, <2>2, <2>3 DEF RequestOK, SubmitPCs, IdlePC
  <2> QED
    BY <1>3, <1>6, <2>1, <2>2, <2>4, Assemble
<1>7. CASE (Insert \/ UNCHANGED rcas) /\ RetryOrFail(r, 422)
  BY <1>1, <1>3, <1>4, <1>7, RetryStep DEF IdlePC, Codes
<1> QED
  BY <1>5, <1>6, <1>7

-----------------------------------------------------------------------------
(* The environment.                                                        *)

\* A request that does not move stays consistent while the tables grow.
LEMMA RequestStable ==
  ASSUME NEW r \in Reqs, RequestOK(r), req' = req, Grows
  PROVE  RequestOK(r)'
<1>1. CASE req[r].item \in Items
  BY <1>1
  DEF RequestOK, RequestConsistent, Grows, Exists, SubmitPCs, IdlePC, Validate,
      MTTRMinutes, StoredRCA, Microsecond, Bodies
<1>2. CASE req[r].item \notin Items
  BY <1>2 DEF RequestOK, RequestConsistent, SubmitPCs, IdlePC, Validate
<1> QED
  BY <1>1, <1>2

\* A new item has no past that a request could know of.
LEMMA CreateWorkItemStep ==
  ASSUME IInv, NEW i \in Items, CreateWorkItem(i)
  PROVE  IInv'
<1>1. TablesOK /\ (\A r \in Reqs : RequestOK(r)) /\ req \in [Reqs -> Requests]
  BY IInvParts
<1>2. NewWorkItem \in Rows
  BY DEF NewWorkItem, Rows, States
<1>3. row[i] = Null /\ rcas' = rcas /\ req' = req
  BY DEF CreateWorkItem
<1>4. row'[i] = NewWorkItem /\ \A j \in Items \ {i} : row'[j] = row[j]
  BY <1>1 DEF CreateWorkItem, TablesOK
<1>5. row' \in [Items -> Rows \cup {Null}]
  BY <1>1, <1>2 DEF CreateWorkItem, TablesOK
<1>6. rcas[i] = Null
  BY <1>1, <1>3 DEF TablesOK, RcaConsistent, Exists
<1>7. RowConsistent(i)' /\ RcaConsistent(i)'
  BY <1>3, <1>4, <1>6 DEF RowConsistent, RcaConsistent, Exists, NewWorkItem
<1>8. \A j \in Items \ {i} : RowConsistent(j)' /\ RcaConsistent(j)'
  BY <1>1, <1>3, <1>4
  DEF TablesOK, RowConsistent, RcaConsistent, Exists, Validate, MTTRMinutes
<1>9. TablesOK'
  BY <1>1, <1>3, <1>5, <1>7, <1>8 DEF TablesOK, Rows, RcaRows, States
<1>10. Grows
  BY <1>3, <1>4 DEF Grows, Exists
<1>11. \A r \in Reqs : RequestOK(r)'
  BY <1>1, <1>3, <1>10, RequestStable
<1>12. req' \in [Reqs -> Requests]
  BY <1>1, <1>3
<1> QED
  BY <1>9, <1>11, <1>12 DEF IInv, TypeOK, Consistent, TablesOK, RequestOK

\* A process dies.
LEMMA CrashStep ==
  ASSUME IInv, NEW r \in Reqs, Crash(r)
  PROVE  IInv'
<1>1. TablesOK' /\ Grows
  BY IInvParts, UnchangedTables DEF Crash
<1>2. Answer(r, 0)
  BY DEF Crash, Answer, Idle
<1> QED
  BY <1>1, <1>2, AnswerStep DEF Codes

-----------------------------------------------------------------------------
(* The inductive invariant.                                                *)

\* The invariant holds before the first request.
LEMMA IInvInit == Init => IInv
<1> SUFFICES ASSUME Init PROVE IInv
  OBVIOUS
<1>1. TablesOK
  BY DEF Init, TablesOK, RowConsistent, RcaConsistent, Exists
<1>2. req \in [Reqs -> Requests]
  BY IdleType DEF Init
<1>3. \A r \in Reqs : RequestOK(r)
  <2>1. Idle.pc = IdlePC /\ Idle.code = 0
    BY DEF Idle
  <2>2. \A r \in Reqs : req[r] = Idle
    BY DEF Init
  <2> QED
    BY <2>1, <2>2, IdleType DEF RequestOK, RequestConsistent, SubmitPCs, IdlePC
<1> QED
  BY <1>1, <1>2, <1>3, IInvParts

\* Every step preserves the invariant.
LEMMA IInvNext == IInv /\ [Next]_vars => IInv'
<1> SUFFICES ASSUME IInv, [Next]_vars PROVE IInv'
  OBVIOUS
<1>1. ASSUME NEW i \in Items, CreateWorkItem(i) PROVE IInv'
  BY <1>1, CreateWorkItemStep
<1>2. ASSUME NEW r \in Reqs, NEW i \in Items, NEW to \in ToStates,
             BeginTransition(r, i, to)
      PROVE  IInv'
  BY <1>2, BeginTransitionStep
<1>3. ASSUME NEW r \in Reqs, NEW i \in Items, NEW b \in Bodies,
             BeginSubmit(r, i, b)
      PROVE  IInv'
  BY <1>3, BeginSubmitStep
<1>4. ASSUME NEW r \in Reqs, Step(r) PROVE IInv'
  BY <1>4, GetWorkItemStep, GetRCAStep, UpdateStateStep, InvalidateStep,
     RereadStep, SubmitGetWorkItemStep, SubmitGetRCAStep, CreateRCAStep
  DEF Step
<1>5. ASSUME NEW r \in Reqs, Crash(r) PROVE IInv'
  BY <1>5, CrashStep
<1>6. ASSUME UNCHANGED vars PROVE IInv'
  <2>1. /\ TablesOK /\ req \in [Reqs -> Requests]
        /\ \A r \in Reqs : RequestOK(r)
    BY IInvParts
  <2>2. TablesOK' /\ Grows
    BY <1>6, <2>1, UnchangedTables DEF vars
  <2>3. req' \in [Reqs -> Requests] /\ \A r \in Reqs : RequestOK(r)'
    BY <1>6, <2>1, <2>2, RequestStable DEF vars
  <2> QED
    BY <2>2, <2>3 DEF IInv, TypeOK, Consistent, TablesOK, RequestOK
<1> QED
  BY <1>1, <1>2, <1>3, <1>4, <1>5, <1>6 DEF Next

\* The inductive invariant holds for any number of items and requests.
THEOREM Invariance == Spec => []IInv
  BY IInvInit, IInvNext, PTL DEF Spec

-----------------------------------------------------------------------------
(* What follows: the invariants the runs check.                            *)

\* Every variable keeps its type, and a request in progress knows its item.
THEOREM TypeCorrect == Spec => []TypeOK
  BY Invariance, PTL DEF IInv

\* Mandatory RCA: no interleaving of transitions, submissions, retries and
\* crashes leaves a closed item without a valid RCA and its MTTR.
THEOREM ClosedDocumented == Spec => []ClosedIsDocumented
<1>1. IInv => ClosedIsDocumented
  BY DEF IInv, Consistent, RowConsistent, RcaConsistent, ClosedIsDocumented,
         Exists
<1> QED
  BY <1>1, Invariance, PTL

\* An RCA read back from the table always passes Validate, so Transition's
\* branch for an invalid one is never taken.
THEOREM RcaReadBackValid == Spec => []StoredRcaValid
<1>1. IInv => StoredRcaValid
  BY DEF IInv, Consistent, RcaConsistent, StoredRcaValid
<1> QED
  BY <1>1, Invariance, PTL

\* 201 is never answered for an RCA that is not the stored one.
THEOREM RcaAcknowledged == Spec => []AcknowledgedRcaStored
<1>1. IInv => AcknowledgedRcaStored
  BY DEF IInv, Consistent, RequestConsistent, AcknowledgedRcaStored
<1> QED
  BY <1>1, Invariance, PTL

-----------------------------------------------------------------------------
(* The action properties.                                                  *)

\* Which steps write which table.
LEMMA StepKinds ==
  ASSUME [Next]_vars
  PROVE  \/ UNCHANGED <<row, rcas>>
         \/ \E i \in Items : CreateWorkItem(i)
         \/ \E r \in Reqs : UpdateState(r) \/ CreateRCA(r)
<1>1. CASE UNCHANGED vars
  BY <1>1 DEF vars
<1>2. ASSUME NEW r \in Reqs,
             \/ \E i \in Items, to \in ToStates : BeginTransition(r, i, to)
             \/ \E i \in Items, b \in Bodies : BeginSubmit(r, i, b)
             \/ Crash(r)
      PROVE  UNCHANGED <<row, rcas>>
  BY <1>2 DEF BeginTransition, BeginSubmit, Crash
<1>3. ASSUME NEW r \in Reqs, GetWorkItem(r) \/ GetRCA(r) \/ Invalidate(r)
      PROVE  UNCHANGED <<row, rcas>>
  BY <1>3 DEF GetWorkItem, GetRCA, Invalidate
<1>4. ASSUME NEW r \in Reqs,
             Reread(r) \/ SubmitGetWorkItem(r) \/ SubmitGetRCA(r)
      PROVE  UNCHANGED <<row, rcas>>
  BY <1>4 DEF Reread, SubmitGetWorkItem, SubmitGetRCA
<1> QED
  BY <1>1, <1>2, <1>3, <1>4 DEF Next, Step

\* No step takes a permanent fact back.
LEMMA GrowsNext == IInv /\ [Next]_vars => Grows
<1> SUFFICES ASSUME IInv, [Next]_vars PROVE Grows
  OBVIOUS
<1>1. CASE UNCHANGED <<row, rcas>>
  BY <1>1, IInvParts, UnchangedTables
<1>2. ASSUME NEW i \in Items, CreateWorkItem(i) PROVE Grows
  BY <1>2 DEF CreateWorkItem, Grows, Exists, IInv, TypeOK
<1>3. ASSUME NEW r \in Reqs, UpdateState(r) PROVE Grows
  <2>1. CASE UNCHANGED row
    BY <1>3, <2>1, IInvParts, UnchangedTables DEF UpdateState
  <2>2. CASE row' = [row EXCEPT ![req[r].item] =
                       SetState(@, req[r].to, req[r].mttr)]
    BY <1>3, <2>2, WriteState DEF UpdateState
  <2> QED
    BY <1>3, <2>1, <2>2 DEF UpdateState
<1>4. ASSUME NEW r \in Reqs, CreateRCA(r) PROVE Grows
  <2>1. row' = row
    BY <1>4 DEF CreateRCA
  <2>2. CASE UNCHANGED rcas
    BY <2>1, <2>2, IInvParts, UnchangedTables
  <2>3. CASE /\ rcas[req[r].item] = Null
             /\ \E rca : rcas' = [rcas EXCEPT ![req[r].item] = rca]
    BY <2>1, <2>3 DEF Grows, Exists, IInv, TypeOK
  <2> QED
    BY <1>4, <2>2, <2>3 DEF CreateRCA, RcaConstraints
<1> QED
  BY <1>1, <1>2, <1>3, <1>4, StepKinds

\* An RCA is filed once and for all.
THEOREM RcaFinal == Spec => RcaIsFinal
<1>1. IInv /\ [Next]_vars =>
        \A i \in Items : rcas[i] # Null => rcas'[i] = rcas[i]
  BY GrowsNext DEF Grows
<1> QED
  BY <1>1, Invariance, PTL DEF Spec, RcaIsFinal

\* An RCA is filed only while its item is INVESTIGATING or RESOLVED at the very
\* moment of the INSERT: a closed item has one, so UNIQUE refuses a second.
THEOREM RcaFiledActive == Spec => RcaFiledWhileActive
<1>1. ASSUME IInv, [Next]_vars, NEW i \in Items, rcas[i] = Null, rcas'[i] # Null
      PROVE  Exists(i) /\ row[i].state \in {"INVESTIGATING", "RESOLVED"}
  <2>1. PICK r \in Reqs : CreateRCA(r)
    BY <1>1, StepKinds DEF CreateWorkItem, UpdateState
  <2>2. req[r].item = i
    BY <1>1, <2>1 DEF CreateRCA, IInv, TypeOK
  <2>3. Exists(i) /\ row[i].state # "OPEN"
    BY <1>1, <2>1, <2>2 DEF CreateRCA, IInv, Consistent, RequestConsistent
  <2>4. row[i] \in Rows /\ row[i].state # "CLOSED"
    BY <1>1, <2>3 DEF IInv, TypeOK, Consistent, RowConsistent, Exists
  <2> QED
    BY <2>3, <2>4 DEF Rows, States
<1>2. IInv /\ [Next]_vars =>
        \A i \in Items : rcas[i] = Null /\ rcas'[i] # Null =>
          Exists(i) /\ row[i].state \in {"INVESTIGATING", "RESOLVED"}
  BY <1>1
<1> QED
  BY <1>2, Invariance, PTL DEF Spec, RcaFiledWhileActive

\* A request comes to GetRCA only from GetWorkItem, and to UpdateState only from
\* one of the two, with the target it had; otherwise it was there before.
LEMMA ToUpdateState ==
  ASSUME IInv, [Next]_vars, NEW q \in Reqs, req'[q].pc \in {"GetRCA", "UpdateState"}
  PROVE  /\ req'[q].item = req[q].item /\ req'[q].to = req[q].to
         /\ \/ req[q].pc = req'[q].pc
            \/ req[q].pc = "GetRCA" /\ req'[q].pc = "UpdateState"
            \/ /\ req[q].pc = "GetWorkItem"
               /\ req'[q].pc = "GetRCA" => req[q].to = "CLOSED"
               /\ row[req[q].item] # Null
               /\ CanTransitionTo(row[req[q].item].state, req[q].to)
<1>1. req \in [Reqs -> Requests]
  BY DEF IInv, TypeOK
<1>2. Idle.pc = "idle"
  BY DEF Idle, IdlePC
<1>3. CASE req'[q] = req[q]
  BY <1>3
<1>4. ASSUME NEW r \in Reqs, NEW code, Answer(r, code) PROVE req'[q] = req[q]
  <2>1. req' = [req EXCEPT ![r] = [Idle EXCEPT !.code = code]]
    BY <1>4 DEF Answer
  <2>2. [Idle EXCEPT !.code = code].pc = "idle"
    BY DEF Idle, IdlePC
  <2> QED
    BY <1>1, <2>1, <2>2
<1>5. ASSUME NEW r \in Reqs, NEW pc, pc \notin {"GetRCA", "UpdateState"}, Goto(r, pc)
      PROVE  req'[q] = req[q]
  BY <1>1, <1>5 DEF Goto, Requests
<1>6. ASSUME NEW r \in Reqs, NEW code, RetryOrFail(r, code)
      PROVE  /\ req'[q].item = req[q].item /\ req'[q].to = req[q].to
             /\ req[q].pc = req'[q].pc
  <2>1. CASE Answer(r, code)
    BY <1>4, <2>1
  <2>2. CASE req' = [req EXCEPT ![r].tries = @ + 1]
    BY <1>1, <2>2 DEF Requests
  <2> QED
    BY <1>6, <2>1, <2>2 DEF RetryOrFail
<1>7. ASSUME NEW i \in Items, CreateWorkItem(i) PROVE req'[q] = req[q]
  BY <1>7 DEF CreateWorkItem
<1>8. ASSUME NEW r \in Reqs, NEW i \in Items, NEW to \in ToStates,
             BeginTransition(r, i, to)
      PROVE  req'[q] = req[q]
  <2>1. CASE to = ""
    BY <1>4, <1>8, <2>1 DEF BeginTransition
  <2>2. CASE to # ""
    BY <1>1, <1>8, <2>2 DEF BeginTransition, Idle
  <2> QED
    BY <2>1, <2>2
<1>9. ASSUME NEW r \in Reqs, NEW i \in Items, NEW b \in Bodies,
             BeginSubmit(r, i, b)
      PROVE  req'[q] = req[q]
  <2>1. CASE ~Validate(b)
    BY <1>4, <1>9, <2>1 DEF BeginSubmit
  <2>2. CASE Validate(b)
    BY <1>1, <1>9, <2>2 DEF BeginSubmit, Idle
  <2> QED
    BY <2>1, <2>2
<1>10. ASSUME NEW r \in Reqs, Crash(r) PROVE req'[q] = req[q]
  BY <1>1, <1>2, <1>10 DEF Crash
<1>11. ASSUME NEW r \in Reqs,
              \/ Invalidate(r) \/ Reread(r)
              \/ SubmitGetWorkItem(r) \/ SubmitGetRCA(r)
       PROVE  req'[q] = req[q]
  BY <1>4, <1>5, <1>11 DEF Invalidate, Reread, SubmitGetWorkItem, SubmitGetRCA
<1>12. ASSUME NEW r \in Reqs, UpdateState(r)
       PROVE  /\ req'[q].item = req[q].item /\ req'[q].to = req[q].to
              /\ req[q].pc = req'[q].pc
  BY <1>5, <1>6, <1>12 DEF UpdateState
<1>13. ASSUME NEW r \in Reqs, CreateRCA(r)
       PROVE  /\ req'[q].item = req[q].item /\ req'[q].to = req[q].to
              /\ req[q].pc = req'[q].pc
  <2>1. CASE AnswerCreated(r)
    BY <1>1, <2>1 DEF AnswerCreated, Idle, IdlePC
  <2> QED
    BY <1>6, <1>13, <2>1 DEF CreateRCA
<1>14. ASSUME NEW r \in Reqs, GetRCA(r)
       PROVE  \/ req'[q] = req[q]
              \/ /\ req'[q].item = req[q].item /\ req'[q].to = req[q].to
                 /\ req[q].pc = "GetRCA" /\ req'[q].pc = "UpdateState"
  BY <1>1, <1>4, <1>14 DEF GetRCA, Requests
<1>15. ASSUME NEW r \in Reqs, GetWorkItem(r)
       PROVE  \/ req'[q] = req[q]
              \/ /\ req'[q].item = req[q].item /\ req'[q].to = req[q].to
                 /\ req[q].pc = "GetWorkItem"
                 /\ req'[q].pc = "GetRCA" => req[q].to = "CLOSED"
                 /\ row[req[q].item] # Null
                 /\ CanTransitionTo(row[req[q].item].state, req[q].to)
  BY <1>1, <1>4, <1>15 DEF GetWorkItem, Goto, Requests
<1>16. CASE UNCHANGED vars
  BY <1>16 DEF vars
<1> QED
  BY <1>3, <1>7, <1>8, <1>9, <1>10, <1>11, <1>12, <1>13, <1>14, <1>15, <1>16
  DEF Next, Step

\* Once the transitions that were under way at the close are through, the item
\* is closed for good, for any number of later requests.
THEOREM SettledTerminal == Spec => SettledIsTerminal
<1>1. ASSUME IInv, [Next]_vars, NEW i \in Items, Settled(i)
      PROVE  Settled(i)'
  <2>1. Exists(i) /\ row[i].state = "CLOSED"
    BY <1>1 DEF Settled
  <2>2. Exists(i)' /\ row'[i].state = "CLOSED"
    <3>1. CASE UNCHANGED <<row, rcas>>
      BY <2>1, <3>1 DEF Exists
    <3>2. ASSUME NEW j \in Items, CreateWorkItem(j)
          PROVE  row'[i] = row[i]
      BY <1>1, <2>1, <3>2 DEF CreateWorkItem, Exists, IInv, TypeOK
    <3>3. ASSUME NEW r \in Reqs, CreateRCA(r) PROVE row'[i] = row[i]
      BY <3>3 DEF CreateRCA
    <3>4. ASSUME NEW r \in Reqs, UpdateState(r), row'[i] # row[i]
          PROVE  row'[i] # Null /\ row'[i].state = "CLOSED"
      <4>1. /\ row' = [row EXCEPT ![req[r].item] =
                          SetState(@, req[r].to, req[r].mttr)]
            /\ req[r].item = i
        BY <1>1, <3>4 DEF UpdateState, IInv, TypeOK
      <4>2. req[r].to = "CLOSED"
        BY <1>1, <3>4, <4>1 DEF Settled, UpdateState
      <4>3. row[i] \in Rows /\ req[r].mttr \in Int \cup {Null}
        BY <1>1, <2>1 DEF Exists, IInv, TypeOK, Requests
      <4>4. row'[i] = SetState(row[i], "CLOSED", req[r].mttr)
        BY <1>1, <4>1, <4>2 DEF IInv, TypeOK
      <4> QED
        BY <4>3, <4>4, SetStateType
    <3> QED
      BY <1>1, <2>1, <3>1, <3>2, <3>3, <3>4, StepKinds DEF Exists
  <2>3. ASSUME NEW q \in Reqs, req'[q].item = i, req'[q].pc = "UpdateState"
        PROVE  req'[q].to = "CLOSED"
    <3>1. /\ req[q].item = i /\ req'[q].to = req[q].to
          /\ \/ req[q].pc = "UpdateState"
             \/ req[q].pc = "GetRCA"
             \/ CanTransitionTo(row[i].state, req[q].to)
      BY <1>1, <2>3, ToUpdateState
    <3>2. ~CanTransitionTo(row[i].state, req[q].to)
      BY <2>1, Transitions DEF States
    <3>3. CASE req[q].pc = "UpdateState"
      BY <1>1, <3>1, <3>3 DEF Settled
    <3>4. CASE req[q].pc = "GetRCA"
      BY <1>1, <3>1, <3>4 DEF IInv, Consistent, RequestConsistent
    <3> QED
      BY <3>1, <3>2, <3>3, <3>4
  <2> QED
    BY <2>2, <2>3 DEF Settled, Exists
<1>2. IInv /\ [Next]_vars => \A i \in Items : Settled(i) => Settled(i)'
  BY <1>1
<1> QED
  BY <1>2, Invariance, PTL DEF Spec, SettledIsTerminal

-----------------------------------------------------------------------------
(* Refinement of the abstract lifecycle.                                   *)

\* Only the item of a step changes its phase, its history or its document.
LEMMA MapFrame ==
  ASSUME NEW i \in Items, row'[i] = row[i], rcas'[i] = rcas[i]
  PROVE  /\ Phase(i)' = Phase(i) /\ Reached(i)' = Reached(i)
         /\ (rcas[i] # Null)' = (rcas[i] # Null)
  BY DEF Phase, Reached, Exists

\* A committed update is the move that was due in a state the item had
\* reached, even if it is no longer there.
LEMMA UpdateAdvances ==
  ASSUME IInv, NEW r \in Reqs, req[r].pc = "UpdateState", UNCHANGED rcas,
         row' = [row EXCEPT ![req[r].item] =
                   SetState(@, req[r].to, req[r].mttr)]
  PROVE  \E i \in Items, from \in Reached(req[r].item) :
           /\ i = req[r].item /\ Exists(i) /\ L!Advance(i, from)
           /\ from \in DOMAIN L!Successor /\ req[r].to = L!Successor[from]
<1>1. TablesOK /\ RequestOK(r)
  BY IInvParts
<1>2. PICK i \in Items, to \in ToStates, m \in Int \cup {Null} :
        i = req[r].item /\ to = req[r].to /\ m = req[r].mttr
  BY <1>1 DEF RequestOK, Requests, IdlePC
<1>3. /\ row[i] # Null
      /\ to \in {"INVESTIGATING", "RESOLVED", "CLOSED"}
      /\ to = "RESOLVED" => row[i].state # "OPEN"
      /\ to = "CLOSED" => row[i].resolvedAt /\ rcas[i] # Null
  BY <1>1, <1>2 DEF RequestOK, RequestConsistent, Exists
<1>4. row[i] \in Rows
  BY <1>1, <1>3 DEF TablesOK
<1> DEFINE w == SetState(row[i], to, m)
<1>5. /\ w \in Rows
      /\ w.state = to
      /\ w.resolvedAt = (row[i].resolvedAt \/ to = "RESOLVED")
      /\ w.closedAt = (row[i].closedAt \/ to = "CLOSED")
  BY <1>3, <1>4, SetStateType
<1>6. row' = [row EXCEPT ![i] = w]
  BY <1>2
<1> HIDE DEF w
<1>7. row'[i] = w /\ w # Null /\ \A j \in Items \ {i} : row'[j] = row[j]
  BY <1>1, <1>5, <1>6 DEF TablesOK
<1> DEFINE from == CASE to = "INVESTIGATING" -> "OPEN"
                     [] to = "RESOLVED"      -> "INVESTIGATING"
                     [] to = "CLOSED"        -> "RESOLVED"
<1>8. from \in Reached(i)
  BY <1>3, <1>4 DEF Reached, Exists, Rows, States
<1>9. /\ from \in DOMAIN L!Successor
      /\ L!Successor[from] = to
      /\ from = "RESOLVED" => rcas[i] # Null
  BY <1>3 DEF L!Successor
<1>10. Phase(i)' = to
  BY <1>5, <1>7 DEF Phase, Exists
<1>11. Reached(i)' = Reached(i) \cup {to}
  <2>1. RowConsistent(i)
    BY <1>1 DEF TablesOK
  <2>2. /\ row'[i] # Null /\ row[i] # Null /\ row'[i].state = to
        /\ row[i].resolvedAt \in BOOLEAN /\ row[i].closedAt \in BOOLEAN
        /\ row'[i].resolvedAt = (row[i].resolvedAt \/ to = "RESOLVED")
        /\ row'[i].closedAt = (row[i].closedAt \/ to = "CLOSED")
    BY <1>3, <1>4, <1>5, <1>7 DEF Rows
  <2>3. /\ to = "RESOLVED" => row[i].state # "OPEN"
        /\ to = "CLOSED" => row[i].state # "OPEN"
        /\ row[i].resolvedAt => row[i].state # "OPEN"
    BY <1>3, <2>1 DEF RowConsistent, Exists
  <2>4. CASE to = "INVESTIGATING"
    BY <2>2, <2>3, <2>4 DEF Reached, Exists
  <2>5. CASE to = "RESOLVED"
    BY <2>2, <2>3, <2>5 DEF Reached, Exists
  <2>6. CASE to = "CLOSED"
    BY <2>2, <2>3, <2>6 DEF Reached, Exists
  <2> QED
    BY <1>3, <2>4, <2>5, <2>6
<1> HIDE DEF from
<1>12. \A j \in Items \ {i} : Phase(j)' = Phase(j) /\ Reached(j)' = Reached(j)
  BY <1>7, MapFrame
<1>13. L!Advance(i, from)
  <2>1. [j \in Items |-> Phase(j)]' =
          [[j \in Items |-> Phase(j)] EXCEPT ![i] = to]
    BY <1>10, <1>12
  <2>2. [j \in Items |-> Reached(j)]' =
          [[j \in Items |-> Reached(j)] EXCEPT ![i] = @ \cup {to}]
    BY <1>11, <1>12
  <2>3. UNCHANGED [j \in Items |-> rcas[j] # Null]
    OBVIOUS
  <2> QED
    BY <1>9, <2>1, <2>2, <2>3 DEF L!Advance
<1>14. Exists(i)
  BY <1>3 DEF Exists
<1> QED
  BY <1>2, <1>8, <1>9, <1>13, <1>14

\* A committed insert documents an item that is under way.
LEMMA InsertDocuments ==
  ASSUME IInv, NEW r \in Reqs, CreateRCA(r), rcas' # rcas
  PROVE  \E i \in Items : L!Document(i)
<1>1. TablesOK /\ RequestOK(r) /\ req[r].pc = "CreateRCA" /\ row' = row
  BY IInvParts DEF CreateRCA
<1>2. PICK i \in Items, b \in Bodies : i = req[r].item /\ b = req[r].body
  BY <1>1 DEF RequestOK, IdlePC, SubmitPCs
<1>3. /\ RcaConstraints(i, StoredRCA(b, r))
      /\ rcas' = [rcas EXCEPT ![i] = StoredRCA(b, r)]
  BY <1>2 DEF CreateRCA
<1>4. rcas'[i] # Null
  BY <1>1, <1>2, <1>3, InsertRCA
<1>5. rcas[i] = Null /\ \A j \in Items \ {i} : rcas'[j] = rcas[j]
  BY <1>1, <1>3 DEF RcaConstraints, TablesOK
<1>6. Exists(i) /\ row[i].state # "OPEN" /\ row[i].state # "CLOSED"
  BY <1>1, <1>2, <1>5
  DEF TablesOK, RowConsistent, RequestOK, RequestConsistent, Exists
<1>7. Phase(i) \in {"INVESTIGATING", "RESOLVED"}
  BY <1>1, <1>6 DEF Phase, TablesOK, Exists, Rows, States
<1>8. /\ [j \in Items |-> Phase(j)]' = [j \in Items |-> Phase(j)]
      /\ [j \in Items |-> Reached(j)]' = [j \in Items |-> Reached(j)]
  BY <1>1 DEF Phase, Reached, Exists
<1>9. [j \in Items |-> rcas[j] # Null]' =
        [[j \in Items |-> rcas[j] # Null] EXCEPT ![i] = TRUE]
  BY <1>4, <1>5
<1>10. L!Document(i)
  BY <1>5, <1>7, <1>8, <1>9 DEF L!Document
<1> QED
  BY <1>10

\* A new row is a new item.
LEMMA CreateOpens ==
  ASSUME IInv, NEW i \in Items, CreateWorkItem(i)
  PROVE  L!Open(i)
<1>1. TablesOK
  BY IInvParts
<1>2. row[i] = Null /\ rcas' = rcas
  BY DEF CreateWorkItem
<1>3. row'[i] = NewWorkItem /\ \A j \in Items \ {i} : row'[j] = row[j]
  BY <1>1 DEF CreateWorkItem, TablesOK
<1>4. NewWorkItem # Null
  <2>1. NewWorkItem \in Rows
    BY DEF NewWorkItem, Rows, States
  <2> QED
    BY <2>1
<1>5. Phase(i) = "NONE" /\ Phase(i)' = "OPEN" /\ Reached(i)' = {"OPEN"}
  BY <1>2, <1>3, <1>4 DEF Phase, Reached, Exists, NewWorkItem
<1>6. \A j \in Items \ {i} : Phase(j)' = Phase(j) /\ Reached(j)' = Reached(j)
  BY <1>2, <1>3, MapFrame
<1>7. [j \in Items |-> Phase(j)]' =
        [[j \in Items |-> Phase(j)] EXCEPT ![i] = "OPEN"]
  BY <1>5, <1>6
<1>8. [j \in Items |-> Reached(j)]' =
        [[j \in Items |-> Reached(j)] EXCEPT ![i] = {"OPEN"}]
  BY <1>5, <1>6
<1>9. UNCHANGED [j \in Items |-> rcas[j] # Null]
  BY <1>2
<1> QED
  BY <1>5, <1>7, <1>8, <1>9 DEF L!Open

\* The workflow engine implements the abstract lifecycle, for any number of
\* concurrent requests: what a stale read can cause is a move that was legal
\* earlier, never one that was not, and never an undocumented close.
THEOREM RefinesLifecycle == Spec => ImplementsLifecycle
<1>1. Init => L!Init
  BY DEF Init, L!Init, Phase, Reached, Exists
<1>2. IInv /\ [Next]_vars => [L!Next]_(L!lifecycleVars)
  <2> SUFFICES ASSUME IInv, [Next]_vars
               PROVE  L!Next \/ UNCHANGED L!lifecycleVars
    OBVIOUS
  <2>1. CASE UNCHANGED <<row, rcas>>
    BY <2>1 DEF L!lifecycleVars, Phase, Reached, Exists
  <2>2. ASSUME NEW i \in Items, CreateWorkItem(i) PROVE L!Next
    BY <2>2, CreateOpens DEF L!Next
  <2>3. ASSUME NEW r \in Reqs, UpdateState(r), row' # row PROVE L!Next
    BY <2>3, UpdateAdvances DEF UpdateState, L!Next
  <2>4. ASSUME NEW r \in Reqs, CreateRCA(r), rcas' # rcas PROVE L!Next
    BY <2>4, InsertDocuments DEF L!Next
  <2>5. ASSUME NEW r \in Reqs, UpdateState(r), row' = row
        PROVE  UNCHANGED <<row, rcas>>
    BY <2>5 DEF UpdateState
  <2>6. ASSUME NEW r \in Reqs, CreateRCA(r), rcas' = rcas
        PROVE  UNCHANGED <<row, rcas>>
    BY <2>6 DEF CreateRCA
  <2> QED
    BY <2>1, <2>2, <2>3, <2>4, <2>5, <2>6, StepKinds
<1> QED
  BY <1>1, <1>2, Invariance, PTL DEF Spec, ImplementsLifecycle, L!Spec

-----------------------------------------------------------------------------
(* Requests that take turns.                                               *)

\* No two requests are in progress at a time.
TakingTurns == \A q, r \in Reqs : req[q].pc # IdlePC /\ req[r].pc # IdlePC => q = r

\* A request that is about to write finds the item in the state it read, or in
\* the one its own unconfirmed attempt has left.
StillDue(r) ==
  LET w == row[req[r].item] IN
  /\ req[r].pc = "GetRCA" => w.state = "RESOLVED"
  /\ req[r].pc = "UpdateState" => CanTransitionTo(w.state, req[r].to) \/ w.state = req[r].to

AllDue == \A r \in Reqs : StillDue(r)

LEMMA AllDueNext ==
  ASSUME IInv, TakingTurns, AllDue, [Next]_vars
  PROVE  AllDue'
<1> SUFFICES ASSUME NEW q \in Reqs, req'[q].pc \in {"GetRCA", "UpdateState"}
             PROVE  StillDue(q)'
  BY DEF AllDue, StillDue
<1>1. /\ req'[q].item = req[q].item /\ req'[q].to = req[q].to
      /\ \/ req[q].pc = req'[q].pc
         \/ req[q].pc = "GetRCA" /\ req'[q].pc = "UpdateState"
         \/ /\ req[q].pc = "GetWorkItem"
            /\ req'[q].pc = "GetRCA" => req[q].to = "CLOSED"
            /\ row[req[q].item] # Null
            /\ CanTransitionTo(row[req[q].item].state, req[q].to)
  BY ToUpdateState
<1>2. req[q].pc # IdlePC /\ req[q].pc \in {"GetWorkItem", "GetRCA", "UpdateState"}
  BY <1>1 DEF IdlePC
<1>3. PICK i \in Items : i = req[q].item
  BY <1>2 DEF IInv, TypeOK
<1>4. row[i] # Null /\ row[i] \in Rows
  BY <1>1, <1>3 DEF IInv, TypeOK, Consistent, RequestConsistent, Exists
<1>5. /\ req'[q].pc = "GetRCA" => row[i].state = "RESOLVED"
      /\ req'[q].pc = "UpdateState" =>
           CanTransitionTo(row[i].state, req[q].to) \/ row[i].state = req[q].to
  <2>1. CASE req[q].pc = req'[q].pc
    BY <1>3, <2>1 DEF AllDue, StillDue
  <2>2. CASE req[q].pc = "GetRCA" /\ req'[q].pc = "UpdateState"
    <3>1. row[i].state = "RESOLVED" /\ req[q].to = "CLOSED"
      BY <1>3, <2>2 DEF AllDue, StillDue, IInv, Consistent, RequestConsistent
    <3> QED
      BY <2>2, <3>1 DEF CanTransitionTo, ValidTransitions
  <2>3. CASE /\ req'[q].pc = "GetRCA" => req[q].to = "CLOSED"
             /\ CanTransitionTo(row[i].state, req[q].to)
    BY <1>4, <2>3, Transitions DEF Rows
  <2> QED
    BY <1>1, <1>3, <2>1, <2>2, <2>3
<1>6. CASE row'[i] = row[i]
  BY <1>1, <1>3, <1>5, <1>6 DEF StillDue
<1>7. ASSUME NEW r \in Reqs, UpdateState(r), row'[i] # row[i]
      PROVE  StillDue(q)'
  <2>1. r = q /\ req[q].pc = "UpdateState"
    BY <1>2, <1>7 DEF TakingTurns, UpdateState, IdlePC
  <2>2. row' = [row EXCEPT ![i] = SetState(@, req[q].to, req[q].mttr)]
    BY <1>3, <1>7, <2>1 DEF UpdateState
  <2>3. /\ req[q].to \in {"INVESTIGATING", "RESOLVED", "CLOSED"}
        /\ req[q].mttr \in Int \cup {Null}
    BY <2>1 DEF IInv, TypeOK, Requests, Consistent, RequestConsistent
  <2>4. row'[i] = SetState(row[i], req[q].to, req[q].mttr)
    BY <2>2 DEF IInv, TypeOK
  <2>5. row'[i].state = req[q].to
    BY <1>4, <2>3, <2>4, SetStateType
  <2>6. req'[q].pc = "UpdateState"
    BY <1>1, <2>1
  <2> QED
    BY <1>1, <1>3, <2>5, <2>6 DEF StillDue
<1>8. ASSUME NEW j \in Items, CreateWorkItem(j) PROVE row'[i] = row[i]
  BY <1>4, <1>8 DEF CreateWorkItem, IInv, TypeOK
<1>9. ASSUME NEW r \in Reqs, CreateRCA(r) PROVE row'[i] = row[i]
  BY <1>9 DEF CreateRCA
<1> QED
  BY <1>6, <1>7, <1>8, <1>9, StepKinds

\* A committed update is the move that is due in the state the item is in; a
\* repeated one changes nothing that can be seen.
LEMMA UpdateIsDue ==
  ASSUME IInv, AllDue, NEW r \in Reqs, UpdateState(r), row' # row
  PROVE  (\E i \in Items : L!Advance(i, Phase(i))) \/ UNCHANGED L!lifecycleVars
<1>1. PICK i \in Items, from \in Reached(req[r].item) :
        /\ i = req[r].item /\ Exists(i) /\ L!Advance(i, from)
        /\ from \in DOMAIN L!Successor /\ req[r].to = L!Successor[from]
  BY UpdateAdvances DEF UpdateState
<1>2. row[i] # Null /\ row[i] \in Rows /\ RowConsistent(i) /\ Phase(i) = row[i].state
  BY <1>1 DEF Exists, IInv, TypeOK, Consistent, Phase
<1>3. CanTransitionTo(row[i].state, req[r].to) \/ row[i].state = req[r].to
  BY <1>1 DEF AllDue, StillDue, UpdateState
<1>4. CASE CanTransitionTo(row[i].state, req[r].to)
  <2>1. from = Phase(i)
    BY <1>1, <1>2, <1>4, Transitions DEF L!Successor, Rows
  <2> QED
    BY <1>1, <2>1
<1>5. CASE row[i].state = req[r].to
  <2>p. PICK p : p = [j \in Items |-> Phase(j)]
    OBVIOUS
  <2>h. PICK h : h = [j \in Items |-> Reached(j)]
    OBVIOUS
  <2>1. /\ [j \in Items |-> Phase(j)]' = [p EXCEPT ![i] = req[r].to]
        /\ [j \in Items |-> Reached(j)]' = [h EXCEPT ![i] = @ \cup {req[r].to}]
        /\ UNCHANGED [j \in Items |-> rcas[j] # Null]
    BY <1>1, <2>p, <2>h DEF L!Advance
  <2>2. req[r].to \in {"INVESTIGATING", "RESOLVED", "CLOSED"}
    BY <1>1 DEF L!Successor
  <2>3. p[i] = req[r].to /\ h[i] = Reached(i)
    BY <1>2, <1>5, <2>p, <2>h
  <2>4. req[r].to \in Reached(i)
    BY <1>1, <1>2, <1>5, <2>2 DEF Reached, RowConsistent
  <2>5. [p EXCEPT ![i] = req[r].to] = p /\ [h EXCEPT ![i] = @ \cup {req[r].to}] = h
    <3>1. h[i] \cup {req[r].to} = h[i]
      BY <2>3, <2>4
    <3> QED
      BY <2>p, <2>h, <2>3, <3>1
  <2> QED
    BY <2>1, <2>5, <2>p, <2>h DEF L!lifecycleVars
<1> QED
  BY <1>3, <1>4, <1>5

\* Users who take turns see the strict life cycle of the state machine, each
\* move from the state the item is in, although withRetry repeats committed
\* updates and a handler may die between any two of its statements.
THEOREM RefinesSerialLifecycle == Spec /\ []TakingTurns => ImplementsSerialLifecycle
<1>1. Init => L!Init
  BY DEF Init, L!Init, Phase, Reached, Exists
<1>2. Init => AllDue
  <2>1. ASSUME Init, NEW r \in Reqs PROVE req[r].pc = "idle"
    BY <2>1 DEF Init, Idle, IdlePC
  <2> QED
    BY <2>1 DEF AllDue, StillDue
<1>3. IInv /\ TakingTurns /\ AllDue /\ [Next]_vars => AllDue'
  BY AllDueNext
<1>4. IInv /\ AllDue /\ [Next]_vars => [L!SerialNext]_(L!lifecycleVars)
  <2> SUFFICES ASSUME IInv, AllDue, [Next]_vars
               PROVE  L!SerialNext \/ UNCHANGED L!lifecycleVars
    OBVIOUS
  <2>1. CASE UNCHANGED <<row, rcas>>
    BY <2>1 DEF L!lifecycleVars, Phase, Reached, Exists
  <2>2. ASSUME NEW i \in Items, CreateWorkItem(i) PROVE L!SerialNext
    BY <2>2, CreateOpens DEF L!SerialNext
  <2>3. ASSUME NEW r \in Reqs, UpdateState(r), row' # row
        PROVE  L!SerialNext \/ UNCHANGED L!lifecycleVars
    BY <2>3, UpdateIsDue DEF L!SerialNext
  <2>4. ASSUME NEW r \in Reqs, CreateRCA(r), rcas' # rcas PROVE L!SerialNext
    BY <2>4, InsertDocuments DEF L!SerialNext
  <2>5. ASSUME NEW r \in Reqs, UpdateState(r), row' = row
        PROVE  UNCHANGED <<row, rcas>>
    BY <2>5 DEF UpdateState
  <2>6. ASSUME NEW r \in Reqs, CreateRCA(r), rcas' = rcas
        PROVE  UNCHANGED <<row, rcas>>
    BY <2>6 DEF CreateRCA
  <2> QED
    BY <2>1, <2>2, <2>3, <2>4, <2>5, <2>6, StepKinds
<1> QED
  BY <1>1, <1>2, <1>3, <1>4, Invariance, PTL DEF Spec, ImplementsSerialLifecycle, L!SerialSpec
=============================================================================
