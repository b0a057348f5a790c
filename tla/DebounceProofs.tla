--------------------------- MODULE DebounceProofs ---------------------------
(***************************************************************************)
(* Proofs about module Debounce, for any replicas, requests, bodies and    *)
(* faults, and any number of requests in flight.                           *)
(*                                                                         *)
(* The handlers share the window without a lock, so what one of them read  *)
(* is never current for long.  What makes their answers right is that work *)
(* items are only added: a reference that was good when it was read stays  *)
(* good, through the handler, the two levels of the window, and the batch  *)
(* the handler is working through.                                         *)
(***************************************************************************)
EXTENDS Debounce, SequenceTheorems, TLAPS

USE TypesAssumption, AttemptsAssumption

-----------------------------------------------------------------------------
(* The inductive invariant.  The operators on the first lines are about a  *)
(* request q and a set W of rows, not about a state.                       *)

\* Where a handler is working on a signal.
Working == {"Load", "GetEntry", "Create", "SetEntry", "StoreLocal", "Enqueue"}

Linked(id, c, W) == \E w \in W : w.id = id /\ w.component = c

\* The component of the signal a handler is working on.
ComponentOf(q) == q.elements[q.k].component

\* A handler that is working has one result for every earlier signal of its
\* body, and once it has found or created an item that is one of the component.
ReqOK(q, W) ==
  /\ q.pc \in Working => /\ q.replica \in Replicas
                         /\ q.k \in 1 .. Len(q.elements)
                         /\ Len(q.elements) <= BatchLimit
                         /\ Len(q.results) = q.k - 1
  /\ q.pc \in Working \ {"Load"} => ComponentOf(q) \in Components
  /\ q.pc \in {"SetEntry", "StoreLocal", "Enqueue"} => Linked(q.item, ComponentOf(q), W)
  /\ \A k \in 1 .. Len(q.results) :
       q.results[k].item # Null => Linked(q.results[k].item, q.elements[k].component, W)

RequestsOK == \A r \in Reqs : ReqOK(req[r], workItems)

\* An alert that is about to be sent is for a row that is there.
DispatchBacked == \A d \in dispatching : d.item \in workItems

IInv == TypeOK /\ RequestsOK /\ WindowBacked /\ DispatchBacked /\ AlertsBacked

-----------------------------------------------------------------------------
(* Records.                                                                *)

ReqRecords == [pc : PCs, replica : Replicas \cup {Null},
               kind : {"single", "batch"}, elements : Seq(Elements),
               k : Nat, item : ItemIds \cup {Null}, isNew : BOOLEAN,
               tries : 0 .. Attempts - 1, results : Seq(Results)]
Dispatches == [by : Replicas, item : Rows]
Alerts == [item : ItemIds, channel : {"pagerduty", "slack", "email", "lost"}]

\* The type invariant with the types of the records named.
Types ==
  /\ local \in [Replicas -> [Components -> ItemIds \cup {Null}]]
  /\ entry \in [Components -> ItemIds \cup {Null}]
  /\ workItems \subseteq Rows
  /\ req \in [Reqs -> ReqRecords]
  /\ dispatching \subseteq Dispatches
  /\ alerts \subseteq Alerts

LEMMA TypeParts == (TypeOK <=> Types) /\ (TypeOK' <=> Types')
  BY DEF TypeOK, Types, ReqRecords, Dispatches, Alerts

\* A reference stays good when rows are added.
LEMMA LinkedGrows ==
  ASSUME NEW W, NEW V, W \subseteq V, NEW id, NEW c, Linked(id, c, W)
  PROVE  Linked(id, c, V)
  BY DEF Linked

LEMMA ReqOKGrows ==
  ASSUME NEW W, NEW V, W \subseteq V, NEW q, ReqOK(q, W)
  PROVE  ReqOK(q, V)
  BY LinkedGrows DEF ReqOK

LEMMA IsLinked == \A id, c : IsItemOf(id, c) <=> Linked(id, c, workItems)
  BY DEF IsItemOf, Linked

LEMMA IsLinkedNext == \A id, c : IsItemOf(id, c)' <=> Linked(id, c, workItems')
  BY DEF IsItemOf, Linked

\* A linked id is the id of a row.
LEMMA LinkedId ==
  ASSUME NEW W, W \subseteq Rows, NEW id, NEW c, Linked(id, c, W)
  PROVE  id \in ItemIds
  BY DEF Linked, Rows

\* The severities and the channels are those of the tables.
LEMMA Tables ==
  /\ \A c \in Components : SeverityForComponent(TypeOf[c]) \in Severities
  /\ \A s \in Severities : Channel(s) \in {"pagerduty", "slack", "email"}
<1>1. ASSUME NEW c \in Components
      PROVE  SeverityForComponent(TypeOf[c]) \in Severities
  <2>1. TypeOf[c] \in ComponentTypes
    OBVIOUS
  <2> QED
    BY <2>1 DEF SeverityForComponent, ComponentTypes, Severities
<1>2. ASSUME NEW s \in Severities
      PROVE  Channel(s) \in {"pagerduty", "slack", "email"}
  BY DEF Channel, Severities
<1> QED
  BY <1>1, <1>2

\* The record of a handler that is through with a signal.
Advanced(q, result) ==
  [q EXCEPT !.pc = IF q.k = Len(q.elements) THEN "done" ELSE "Load",
            !.k = IF q.k = Len(q.elements) THEN q.k ELSE q.k + 1,
            !.item = Null, !.isNew = FALSE, !.tries = 0,
            !.results = Append(@, result)]

LEMMA AdvanceIs ==
  ASSUME NEW r, NEW result, Advance(r, result)
  PROVE  req' = [req EXCEPT ![r] = Advanced(req[r], result)]
  BY DEF Advance, Advanced

\* The fields of that record.
AdvancedFields(a, q, result) ==
  /\ a.pc = IF q.k = Len(q.elements) THEN "done" ELSE "Load"
  /\ a.k = IF q.k = Len(q.elements) THEN q.k ELSE q.k + 1
  /\ a.item = Null /\ a.isNew = FALSE /\ a.tries = 0
  /\ a.results = Append(q.results, result)
  /\ a.replica = q.replica /\ a.kind = q.kind /\ a.elements = q.elements
  /\ a = [pc |-> a.pc, replica |-> a.replica, kind |-> a.kind,
          elements |-> a.elements, k |-> a.k, item |-> a.item,
          isNew |-> a.isNew, tries |-> a.tries, results |-> a.results]

LEMMA AdvancedIs ==
  ASSUME NEW q \in ReqRecords, NEW result, NEW a, a = Advanced(q, result)
  PROVE  AdvancedFields(a, q, result)
  BY DEF Advanced, AdvancedFields, ReqRecords

\* A handler may go on after a signal with an error, or with an item of the
\* component the signal was about.
LEMMA AdvancedOK ==
  ASSUME NEW W, NEW q \in ReqRecords, ReqOK(q, W), q.pc \in Working,
         NEW result \in Results,
         result.item # Null => Linked(result.item, ComponentOf(q), W)
  PROVE  Advanced(q, result) \in ReqRecords /\ ReqOK(Advanced(q, result), W)
<1>a. PICK a : a = Advanced(q, result)
  OBVIOUS
<1>0. AdvancedFields(a, q, result)
  BY <1>a, AdvancedIs
<1>1. /\ a.pc = IF q.k = Len(q.elements) THEN "done" ELSE "Load"
      /\ a.k = IF q.k = Len(q.elements) THEN q.k ELSE q.k + 1
      /\ a.item = Null /\ a.isNew = FALSE /\ a.tries = 0
      /\ a.results = Append(q.results, result)
      /\ a.replica = q.replica /\ a.kind = q.kind /\ a.elements = q.elements
  BY <1>0 DEF AdvancedFields
<1>2. /\ q.results \in Seq(Results) /\ q.elements \in Seq(Elements) /\ q.k \in Nat
      /\ q.replica \in Replicas /\ q.kind \in {"single", "batch"}
      /\ q.k \in 1 .. Len(q.elements) /\ Len(q.elements) <= BatchLimit
      /\ Len(q.results) = q.k - 1 /\ Len(q.elements) \in Nat
  <2>1. /\ q.results \in Seq(Results) /\ q.elements \in Seq(Elements) /\ q.k \in Nat
        /\ q.kind \in {"single", "batch"}
    BY DEF ReqRecords
  <2>2. Len(q.elements) \in Nat
    BY <2>1, LenProperties
  <2> QED
    BY <2>1, <2>2 DEF ReqOK
<1>3. /\ a.results \in Seq(Results) /\ Len(a.results) = Len(q.results) + 1
      /\ a.results[q.k] = result
      /\ \A k \in 1 .. Len(q.results) : a.results[k] = q.results[k]
  <2>1. Len(q.results) \in Nat /\ Len(q.results) + 1 = q.k
    BY <1>2
  <2>2. /\ Append(q.results, result) \in Seq(Results)
        /\ Len(Append(q.results, result)) = Len(q.results) + 1
        /\ \A i \in 1 .. Len(q.results) : Append(q.results, result)[i] = q.results[i]
        /\ Append(q.results, result)[Len(q.results) + 1] = result
    BY <1>2, AppendProperties
  <2> QED
    BY <1>1, <2>1, <2>2
<1>4. a \in ReqRecords
  <2>1. a.pc \in PCs /\ a.k \in Nat /\ a.tries \in 0 .. Attempts - 1
    BY <1>1, <1>2 DEF PCs
  <2> QED
    BY <1>0, <1>1, <1>2, <1>3, <2>1 DEF ReqRecords, AdvancedFields
<1>5. ReqOK(a, W)
  <2>1. ASSUME a.pc \in Working
        PROVE  /\ a.pc = "Load" /\ a.replica \in Replicas
               /\ a.k \in 1 .. Len(a.elements)
               /\ Len(a.elements) <= BatchLimit
               /\ Len(a.results) = a.k - 1
    <3>1. q.k # Len(q.elements)
      BY <1>1, <2>1 DEF Working
    <3> QED
      BY <1>1, <1>2, <1>3, <3>1
  <2>2. ASSUME NEW k \in 1 .. Len(a.results), a.results[k].item # Null
        PROVE  Linked(a.results[k].item, a.elements[k].component, W)
    <3>1. k \in 1 .. Len(q.results) \/ k = q.k
      BY <1>2, <1>3
    <3>2. CASE k = q.k
      BY <1>1, <1>3, <2>2, <3>2 DEF ComponentOf
    <3>3. CASE k \in 1 .. Len(q.results)
      BY <1>1, <1>3, <2>2, <3>3 DEF ReqOK
    <3> QED
      BY <3>1, <3>2, <3>3
  <2>3. a.pc \in {"done", "Load"}
    BY <1>1
  <2> QED
    BY <2>1, <2>2, <2>3 DEF ReqOK
<1> QED
  BY <1>a, <1>4, <1>5

-----------------------------------------------------------------------------
(* Steps.                                                                  *)

\* A handler may change its record to one that is good for the rows there are.
LEMMA RequestStep ==
  ASSUME IInv, NEW r \in Reqs, NEW q \in ReqRecords, req' = [req EXCEPT ![r] = q],
         workItems \subseteq workItems', ReqOK(q, workItems')
  PROVE  req' \in [Reqs -> ReqRecords] /\ RequestsOK'
<1>1. /\ req' \in [Reqs -> ReqRecords]
      /\ req'[r] = q /\ \A s \in Reqs \ {r} : req'[s] = req[s]
  BY TypeParts DEF IInv, Types
<1>2. ASSUME NEW s \in Reqs PROVE ReqOK(req'[s], workItems')
  <2>1. CASE s = r
    BY <1>1, <2>1
  <2>2. CASE s # r
    <3>1. ReqOK(req[s], workItems)
      BY DEF IInv, RequestsOK
    <3> QED
      BY <1>1, <2>2, <3>1, ReqOKGrows
  <2> QED
    BY <2>1, <2>2
<1> QED
  BY <1>1, <1>2 DEF RequestsOK

\* Rows that are added leave the window, the pending and the sent alerts good.
LEMMA RowsGrow ==
  ASSUME IInv, workItems \subseteq workItems', UNCHANGED <<local, entry, alerts>>
  PROVE  WindowBacked' /\ AlertsBacked'
<1>1. \A id, c : IsItemOf(id, c) => IsItemOf(id, c)'
  BY DEF IsItemOf
<1>2. WindowBacked'
  BY <1>1 DEF IInv, WindowBacked
<1>3. Ids \subseteq Ids'
  BY DEF Ids
<1>4. AlertsBacked'
  BY <1>3 DEF IInv, AlertsBacked
<1> QED
  BY <1>2, <1>4

\* A step that changes nothing but the record of one request.
LEMMA OnlyRequest ==
  ASSUME IInv, NEW r \in Reqs, NEW q \in ReqRecords, req' = [req EXCEPT ![r] = q],
         ReqOK(q, workItems),
         UNCHANGED <<local, entry, workItems, dispatching, alerts>>
  PROVE  IInv'
<1>1. req' \in [Reqs -> ReqRecords] /\ RequestsOK'
  BY RequestStep
<1>2. WindowBacked' /\ AlertsBacked'
  BY RowsGrow
<1>3. Types'
  BY <1>1, TypeParts DEF IInv, Types
<1>4. DispatchBacked'
  BY DEF IInv, DispatchBacked
<1> QED
  BY <1>1, <1>2, <1>3, <1>4, TypeParts DEF IInv

\* What is known of the request a step is about.
LEMMA Current ==
  ASSUME IInv, NEW r \in Reqs
  PROVE  req[r] \in ReqRecords /\ ReqOK(req[r], workItems)
  BY TypeParts DEF IInv, Types, RequestsOK

\* The error results are results.
LEMMA FailedResult ==
  ASSUME NEW why \in Errors
  PROVE  Failed(why) \in Results /\ Failed(why).item = Null
  BY DEF Failed, Result, Results

\* A handler that goes on with an error.
LEMMA AdvanceFailed ==
  ASSUME IInv, NEW r \in Reqs, req[r].pc \in Working,
         NEW why \in Errors, Advance(r, Failed(why)),
         UNCHANGED <<local, entry, workItems, dispatching, alerts>>
  PROVE  IInv'
<1>1. /\ Advanced(req[r], Failed(why)) \in ReqRecords
      /\ ReqOK(Advanced(req[r], Failed(why)), workItems)
  BY Current, FailedResult, AdvancedOK
<1> QED
  BY <1>1, AdvanceIs, OnlyRequest

\* A request that was not made yet.
LEMMA FreshRecord == Fresh \in ReqRecords /\ Fresh.results = <<>>
<1>1. /\ <<>> \in Seq(Elements) /\ <<>> \in Seq(Results)
      /\ 0 \in 0 .. Attempts - 1 /\ "new" \in PCs
  BY DEF PCs
<1> QED
  BY <1>1 DEF Fresh, ReqRecords

\* The record of a request that begins.
Begun(f, pc, p, kind, elements) ==
  [f EXCEPT !.pc = pc, !.replica = p, !.kind = kind, !.elements = elements, !.k = 1]

LEMMA BegunFields ==
  ASSUME NEW f \in ReqRecords, NEW pc \in PCs, NEW p \in Replicas,
         NEW kind \in {"single", "batch"}, NEW elements \in Seq(Elements), NEW q,
         q = Begun(f, pc, p, kind, elements)
  PROVE  /\ q \in ReqRecords
         /\ q.pc = pc /\ q.replica = p /\ q.elements = elements /\ q.k = 1
         /\ q.results = f.results
  BY DEF Begun, ReqRecords

LEMMA BeginStep ==
  ASSUME IInv, NEW r \in Reqs, NEW p \in Replicas, NEW b \in Payloads, Begin(r, p, b)
  PROVE  IInv'
<1>p. PICK pc \in {"Load", "done"} :
        /\ pc = "Load" => Len(b.elements) \in 1 .. BatchLimit
        /\ req' = [req EXCEPT ![r] = Begun(Fresh, pc, p, b.kind, b.elements)]
  BY Zenon DEF Begin, Begun
<1>q. PICK q : q = Begun(Fresh, pc, p, b.kind, b.elements)
  OBVIOUS
<1>1. /\ pc = "Load" => Len(b.elements) \in 1 .. BatchLimit
      /\ q = Begun(Fresh, pc, p, b.kind, b.elements)
      /\ req' = [req EXCEPT ![r] = q]
  BY <1>p, <1>q
<1>2. /\ q \in ReqRecords
      /\ q.pc = pc /\ q.replica = p /\ q.elements = b.elements /\ q.k = 1
      /\ q.results = <<>>
  <2>1. /\ b.kind \in {"single", "batch"} /\ b.elements \in Seq(Elements)
        /\ pc \in PCs
    BY PayloadsAssumption DEF PCs
  <2> QED
    BY <1>1, <2>1, FreshRecord, BegunFields
<1>3. ReqOK(q, workItems)
  <2>1. Len(q.results) = 0 /\ q.pc \in {"Load", "done"}
    BY <1>2
  <2>2. ASSUME q.pc \in Working
        PROVE  /\ q.pc = "Load" /\ q.replica \in Replicas
               /\ q.k \in 1 .. Len(q.elements)
               /\ Len(q.elements) <= BatchLimit
               /\ Len(q.results) = q.k - 1
    <3>1. q.pc = "Load"
      BY <2>1, <2>2 DEF Working
    <3>2. Len(q.elements) \in 1 .. BatchLimit
      <4>1. pc = "Load" => Len(b.elements) \in 1 .. BatchLimit
        BY <1>1
      <4> QED
        BY <1>2, <3>1, <4>1
    <3>3. BatchLimit \in Nat
      BY DEF BatchLimit
    <3> QED
      BY <1>2, <2>1, <3>1, <3>2, <3>3
  <2>3. 1 .. Len(q.results) = {}
    BY <2>1
  <2> QED
    BY <2>1, <2>2, <2>3 DEF ReqOK
<1> QED
  BY <1>1, <1>2, <1>3, OnlyRequest DEF Begin

\* A step of a handler that changes where it is and the item it has.
Moved(q, pc, item) == [q EXCEPT !.pc = pc, !.item = item]

LEMMA MovedFields ==
  ASSUME NEW q \in ReqRecords, NEW pc \in PCs, NEW item \in ItemIds \cup {Null},
         NEW a, a = Moved(q, pc, item)
  PROVE  /\ a \in ReqRecords
         /\ a.pc = pc /\ a.item = item /\ a.replica = q.replica /\ a.kind = q.kind
         /\ a.elements = q.elements /\ a.k = q.k /\ a.results = q.results
  BY DEF Moved, ReqRecords

\* A handler may go on once the component is known to be valid, to the steps
\* that need an item with one of that component.
LEMMA MoveStep ==
  ASSUME IInv, NEW r \in Reqs, req[r].pc \in Working,
         NEW pc \in Working \ {"Load"}, NEW item \in ItemIds \cup {Null},
         req' = [req EXCEPT ![r] = Moved(req[r], pc, item)],
         ComponentOf(req[r]) \in Components,
         pc \in {"SetEntry", "StoreLocal", "Enqueue"} =>
           Linked(item, ComponentOf(req[r]), workItems),
         workItems' = workItems
  PROVE  req' \in [Reqs -> ReqRecords] /\ RequestsOK'
<1>a. PICK a : a = Moved(req[r], pc, item)
  OBVIOUS
<1>1. /\ a \in ReqRecords
      /\ a.pc = pc /\ a.item = item /\ a.replica = req[r].replica
      /\ a.elements = req[r].elements /\ a.k = req[r].k /\ a.results = req[r].results
  <2>1. pc \in PCs
    BY DEF Working, PCs
  <2> QED
    BY <1>a, <2>1, MovedFields, Current
<1>2. ReqOK(a, workItems)
  BY <1>1, Current DEF ReqOK, ComponentOf
<1> QED
  BY <1>a, <1>1, <1>2, RequestStep

LEMMA TurnAwayStep == ASSUME IInv, NEW r \in Reqs, TurnAway(r) PROVE IInv'
<1> DEFINE q == [req[r] EXCEPT !.pc = "done"]
<1>1. /\ q \in ReqRecords /\ q.pc = "done"
      /\ q.results = req[r].results /\ q.elements = req[r].elements
  BY Current DEF ReqRecords, PCs
<1>2. req' = [req EXCEPT ![r] = q]
  BY DEF TurnAway, Goto
<1> HIDE DEF q
<1>3. ReqOK(q, workItems)
  BY <1>1, Current DEF ReqOK, Working
<1> QED
  BY <1>1, <1>2, <1>3, OnlyRequest DEF TurnAway

\* Only where a handler is changes.
LEMMA GotoMoves ==
  ASSUME IInv, NEW r \in Reqs, NEW pc, Goto(r, pc)
  PROVE  req' = [req EXCEPT ![r] = Moved(req[r], pc, req[r].item)]
  BY Current DEF Goto, Moved, ReqRecords

\* Steps that only change where one handler is and the item it has.
LEMMA OnlyMove ==
  ASSUME IInv, NEW r \in Reqs, req[r].pc \in Working,
         NEW pc \in Working \ {"Load"}, NEW item \in ItemIds \cup {Null},
         req' = [req EXCEPT ![r] = Moved(req[r], pc, item)],
         ComponentOf(req[r]) \in Components,
         pc \in {"SetEntry", "StoreLocal", "Enqueue"} =>
           Linked(item, ComponentOf(req[r]), workItems),
         UNCHANGED <<local, entry, workItems, dispatching, alerts>>
  PROVE  IInv'
<1>1. req' \in [Reqs -> ReqRecords] /\ RequestsOK'
  BY MoveStep
<1>2. WindowBacked' /\ AlertsBacked'
  BY RowsGrow
<1>3. Types'
  BY <1>1, TypeParts DEF IInv, Types
<1>4. DispatchBacked'
  BY DEF IInv, DispatchBacked
<1> QED
  BY <1>1, <1>2, <1>3, <1>4, TypeParts DEF IInv

LEMMA LoadStep == ASSUME IInv, NEW r \in Reqs, Load(r) PROVE IInv'
<1>c. PICK c : c = ComponentOf(req[r])
  OBVIOUS
<1>1. /\ req[r].pc = "Load" /\ req[r].pc \in Working
      /\ UNCHANGED <<local, entry, workItems, dispatching, alerts>>
  BY DEF Load, Working
<1>2. c \in Components \cup {Null} /\ req[r].replica \in Replicas
  <2>1. /\ req[r].elements \in Seq(Elements) /\ req[r].k \in 1 .. Len(req[r].elements)
        /\ req[r].replica \in Replicas
    BY <1>1, Current DEF ReqOK, ReqRecords
  <2>2. req[r].elements[req[r].k] \in Elements
    BY <2>1, ElementOfSeq
  <2> QED
    BY <1>c, <2>1, <2>2 DEF ComponentOf, Elements
<1>3. CASE c = Null /\ Advance(r, Failed("invalid"))
  BY <1>1, <1>3, AdvanceFailed DEF Errors
<1>4. CASE c # Null
  <2>1. c \in Components
    BY <1>2, <1>4
  <2>h. PICK hit : hit = local[req[r].replica][c]
    OBVIOUS
  <2>2. hit \in ItemIds \cup {Null} /\ (hit # Null => Linked(hit, c, workItems))
    BY <1>2, <2>1, <2>h, TypeParts, IsLinked DEF IInv, Types, WindowBacked
  <2>3. CASE hit # Null
    <3>1. req' = [req EXCEPT ![r].pc = "Enqueue", ![r].item = hit]
      BY <1>c, <1>4, <2>h, <2>3 DEF Load, Element, ComponentOf
    <3>2. req' = [req EXCEPT ![r] = Moved(req[r], "Enqueue", hit)]
      BY <3>1, TypeParts DEF Moved, IInv, Types
    <3> QED
      BY <1>c, <1>1, <2>1, <2>2, <2>3, <3>2, OnlyMove DEF Working
  <2>4. CASE hit = Null
    <3>1. Goto(r, "GetEntry")
      BY <1>c, <1>4, <2>h, <2>4 DEF Load, Element, ComponentOf
    <3>2. req[r].item \in ItemIds \cup {Null}
      BY Current DEF ReqRecords
    <3> QED
      BY <1>c, <1>1, <2>1, <3>1, <3>2, GotoMoves, OnlyMove DEF Working
  <2> QED
    BY <2>3, <2>4
<1> QED
  BY <1>c, <1>3, <1>4 DEF Load, Element, ComponentOf

LEMMA GetEntryStep == ASSUME IInv, NEW r \in Reqs, GetEntry(r) PROVE IInv'
<1>c. PICK c : c = ComponentOf(req[r])
  OBVIOUS
<1>1. /\ req[r].pc = "GetEntry" /\ req[r].pc \in Working
      /\ UNCHANGED <<local, entry, workItems, dispatching, alerts>>
  BY DEF GetEntry, Working
<1>2. c \in Components
  BY <1>c, <1>1, Current DEF ReqOK
<1>f. PICK found : found = entry[c]
  OBVIOUS
<1>3. found \in ItemIds \cup {Null} /\ (found # Null => Linked(found, c, workItems))
  BY <1>2, <1>f, TypeParts, IsLinked DEF IInv, Types, WindowBacked
<1>4. CASE found # Null /\ req' = [req EXCEPT ![r].pc = "StoreLocal", ![r].item = found]
  <2>1. req' = [req EXCEPT ![r] = Moved(req[r], "StoreLocal", found)]
    BY <1>4, TypeParts DEF Moved, IInv, Types
  <2> QED
    BY <1>c, <1>1, <1>2, <1>3, <1>4, <2>1, OnlyMove DEF Working
<1>5. CASE Goto(r, "Create")
  <2>1. req[r].item \in ItemIds \cup {Null}
    BY Current DEF ReqRecords
  <2> QED
    BY <1>c, <1>1, <1>2, <1>5, <2>1, GotoMoves, OnlyMove DEF Working
<1> QED
  BY <1>c, <1>f, <1>4, <1>5 DEF GetEntry, Element, ComponentOf

\* A new row is one of the component of the signal.
LEMMA NewRow ==
  ASSUME IInv, NEW r \in Reqs, req[r].pc = "Create", NEW w, w = NewWorkItem(r)
  PROVE  /\ w \in Rows /\ w.id \in ItemIds /\ w.component = ComponentOf(req[r])
         /\ ComponentOf(req[r]) \in Components /\ req[r].replica \in Replicas
<1>1. /\ req[r].k \in 1 .. Len(req[r].elements) /\ Len(req[r].elements) <= BatchLimit
      /\ ComponentOf(req[r]) \in Components /\ req[r].replica \in Replicas
      /\ req[r].elements \in Seq(Elements)
  BY Current DEF ReqOK, ReqRecords, Working
<1>2. Len(req[r].elements) \in Nat /\ BatchLimit \in Nat
  BY <1>1, LenProperties DEF BatchLimit
<1>3. req[r].k \in 1 .. BatchLimit
  BY <1>1, <1>2
<1>4. req[r].elements[req[r].k] \in Elements
  BY <1>1, ElementOfSeq
<1>5. Element(r).severity \in Severities /\ Element(r).component = ComponentOf(req[r])
  BY <1>4 DEF Element, Elements, ComponentOf
<1>6. NewId(r) \in ItemIds
  BY <1>3 DEF NewId, ItemIds
<1>s. PICK s : s = IF req[r].kind = "single"
                     THEN SeverityForComponent(TypeOf[Element(r).component])
                     ELSE Element(r).severity
  OBVIOUS
<1>7. s \in Severities
  BY <1>s, <1>1, <1>5, Tables
<1>8. w = [id |-> NewId(r), component |-> ComponentOf(req[r]), severity |-> s]
  BY <1>s, <1>5 DEF NewWorkItem
<1> QED
  BY <1>1, <1>6, <1>7, <1>8 DEF Rows

\* A step that may add a row and change one request.
LEMMA RowStep ==
  ASSUME IInv, NEW r \in Reqs, NEW q \in ReqRecords, req' = [req EXCEPT ![r] = q],
         workItems \subseteq workItems', workItems' \subseteq Rows, ReqOK(q, workItems'),
         dispatching' \subseteq Dispatches, DispatchBacked',
         UNCHANGED <<local, entry, alerts>>
  PROVE  IInv'
<1>1. req' \in [Reqs -> ReqRecords] /\ RequestsOK'
  BY RequestStep
<1>2. WindowBacked' /\ AlertsBacked'
  BY RowsGrow
<1>3. Types'
  BY <1>1, TypeParts DEF IInv, Types
<1> QED
  BY <1>1, <1>2, <1>3, TypeParts DEF IInv

\* A failed attempt is repeated, or the handler goes on with an error.
LEMMA RetryOrFailRecord ==
  ASSUME IInv, NEW r \in Reqs, req[r].pc = "Create", RetryOrFail(r)
  PROVE  \E q \in ReqRecords : req' = [req EXCEPT ![r] = q] /\ ReqOK(q, workItems)
<1>1. CASE Advance(r, Failed("unresolved"))
  <2>1. req[r].pc \in Working /\ "unresolved" \in Errors
    BY DEF Working, Errors
  <2>2. /\ Advanced(req[r], Failed("unresolved")) \in ReqRecords
        /\ ReqOK(Advanced(req[r], Failed("unresolved")), workItems)
    BY <2>1, Current, FailedResult, AdvancedOK
  <2> QED
    BY <1>1, <2>2, AdvanceIs
<1>2. CASE /\ req[r].tries < Attempts - 1
           /\ req' = [req EXCEPT ![r].tries = @ + 1]
  <2> DEFINE q == [req[r] EXCEPT !.tries = @ + 1]
  <2>1. req[r].tries + 1 \in 0 .. Attempts - 1
    BY <1>2, Current DEF ReqRecords
  <2>2. /\ q \in ReqRecords
        /\ q.pc = req[r].pc /\ q.replica = req[r].replica /\ q.k = req[r].k
        /\ q.elements = req[r].elements /\ q.results = req[r].results
        /\ q.item = req[r].item
    BY <2>1, Current DEF ReqRecords
  <2>3. req' = [req EXCEPT ![r] = q]
    BY <1>2
  <2> HIDE DEF q
  <2>4. ReqOK(q, workItems)
    BY <2>2, Current DEF ReqOK, ComponentOf
  <2> QED
    BY <2>2, <2>3, <2>4
<1> QED
  BY <1>1, <1>2 DEF RetryOrFail

LEMMA CreateStep == ASSUME IInv, NEW r \in Reqs, Create(r) PROVE IInv'
<1>w. PICK w : w = NewWorkItem(r)
  OBVIOUS
<1>1. /\ req[r].pc = "Create"
      /\ workItems' = workItems \cup {w} \/ workItems' = workItems
      /\ UNCHANGED <<local, entry, alerts>>
  BY <1>w DEF Create
<1>2. /\ w \in Rows /\ w.id \in ItemIds /\ w.component = ComponentOf(req[r])
      /\ ComponentOf(req[r]) \in Components /\ req[r].replica \in Replicas
  BY <1>w, <1>1, NewRow
<1>3. /\ workItems \subseteq workItems' /\ workItems' \subseteq Rows
      /\ dispatching \subseteq Dispatches
  BY <1>1, <1>2, TypeParts DEF IInv, Types
<1>4. CASE workItems' = workItems \cup {w} /\ Created(r, w)
  <2> DEFINE q == [req[r] EXCEPT !.pc = "SetEntry", !.item = w.id, !.isNew = TRUE]
  <2>1. /\ q \in ReqRecords
        /\ q.pc = "SetEntry" /\ q.item = w.id /\ q.replica = req[r].replica
        /\ q.k = req[r].k /\ q.elements = req[r].elements /\ q.results = req[r].results
    BY <1>2, Current DEF ReqRecords, PCs
  <2>2. req' = [req EXCEPT ![r] = q]
    BY <1>4, TypeParts DEF Created, IInv, Types
  <2> HIDE DEF q
  <2>3. Linked(w.id, ComponentOf(req[r]), workItems')
    BY <1>2, <1>4 DEF Linked
  <2>4. ReqOK(req[r], workItems')
    BY <1>3, Current, ReqOKGrows
  <2>5. ReqOK(q, workItems')
    BY <1>1, <1>2, <2>1, <2>3, <2>4 DEF ReqOK, ComponentOf, Working
  <2>6. /\ dispatching' \subseteq dispatching \cup {[by |-> req[r].replica, item |-> w]}
        /\ [by |-> req[r].replica, item |-> w] \in Dispatches
    BY <1>2, <1>4 DEF Created, Dispatches
  <2>7. dispatching' \subseteq Dispatches
    BY <1>3, <2>6
  <2>8. DispatchBacked'
    BY <1>4, <2>6 DEF IInv, DispatchBacked
  <2> QED
    BY <1>1, <1>3, <2>1, <2>2, <2>5, <2>7, <2>8, RowStep
<1>5. CASE RetryOrFail(r) /\ UNCHANGED dispatching
  <2>1. PICK q \in ReqRecords : req' = [req EXCEPT ![r] = q] /\ ReqOK(q, workItems)
    BY <1>1, <1>5, RetryOrFailRecord
  <2>2. ReqOK(q, workItems')
    BY <1>3, <2>1, ReqOKGrows
  <2>3. DispatchBacked'
    BY <1>3, <1>5 DEF IInv, DispatchBacked
  <2> QED
    BY <1>1, <1>3, <1>5, <2>1, <2>2, <2>3, RowStep
<1> QED
  BY <1>w, <1>4, <1>5 DEF Create

\* A handler past the lookup has an item of its component.
LEMMA HasItem ==
  ASSUME IInv, NEW r \in Reqs, req[r].pc \in {"SetEntry", "StoreLocal", "Enqueue"}
  PROVE  /\ ComponentOf(req[r]) \in Components /\ req[r].replica \in Replicas
         /\ req[r].pc \in Working /\ req[r].item \in ItemIds
         /\ Linked(req[r].item, ComponentOf(req[r]), workItems)
<1>1. workItems \subseteq Rows
  BY TypeParts DEF IInv, Types
<1>2. req[r].pc \in Working \ {"Load"}
  BY DEF Working
<1>3. /\ ComponentOf(req[r]) \in Components /\ req[r].replica \in Replicas
      /\ Linked(req[r].item, ComponentOf(req[r]), workItems)
  BY <1>2, Current DEF ReqOK
<1> QED
  BY <1>1, <1>2, <1>3, LinkedId

LEMMA SetEntryStep == ASSUME IInv, NEW r \in Reqs, SetEntry(r) PROVE IInv'
<1>c. PICK c, i : c = ComponentOf(req[r]) /\ i = req[r].item
  OBVIOUS
<1>1. /\ req[r].pc = "SetEntry" /\ Goto(r, "StoreLocal")
      /\ UNCHANGED <<local, workItems, dispatching, alerts>>
      /\ entry' = [entry EXCEPT ![c] = i] \/ entry' = entry
  BY <1>c DEF SetEntry, Element, ComponentOf
<1>2. /\ c \in Components /\ req[r].pc \in Working /\ i \in ItemIds
      /\ Linked(i, c, workItems)
  BY <1>c, <1>1, HasItem
<1>3. req' \in [Reqs -> ReqRecords] /\ RequestsOK'
  BY <1>c, <1>1, <1>2, GotoMoves, MoveStep DEF Working
<1>4. /\ entry' \in [Components -> ItemIds \cup {Null}]
      /\ \A d \in Components : entry'[d] = entry[d] \/ (d = c /\ entry'[d] = i)
  BY <1>1, <1>2, TypeParts DEF IInv, Types
<1>5. WindowBacked'
  <2>1. \A d \in Components : entry'[d] # Null => Linked(entry'[d], d, workItems)
    BY <1>2, <1>4, IsLinked DEF IInv, WindowBacked
  <2> QED
    BY <1>1, <2>1, IsLinked, IsLinkedNext DEF IInv, WindowBacked
<1>6. Types'
  BY <1>1, <1>3, <1>4, TypeParts DEF IInv, Types
<1>7. DispatchBacked' /\ AlertsBacked'
  BY <1>1 DEF IInv, DispatchBacked, AlertsBacked, Ids
<1> QED
  BY <1>3, <1>5, <1>6, <1>7, TypeParts DEF IInv

LEMMA StoreLocalStep == ASSUME IInv, NEW r \in Reqs, StoreLocal(r) PROVE IInv'
<1>c. PICK c, i, p : c = ComponentOf(req[r]) /\ i = req[r].item /\ p = req[r].replica
  OBVIOUS
<1>1. /\ req[r].pc = "StoreLocal" /\ Goto(r, "Enqueue")
      /\ UNCHANGED <<entry, workItems, dispatching, alerts>>
      /\ local' = [local EXCEPT ![p][c] = i]
  BY <1>c DEF StoreLocal, Element, ComponentOf
<1>2. /\ c \in Components /\ p \in Replicas /\ req[r].pc \in Working /\ i \in ItemIds
      /\ Linked(i, c, workItems)
  BY <1>c, <1>1, HasItem
<1>3. req' \in [Reqs -> ReqRecords] /\ RequestsOK'
  BY <1>c, <1>1, <1>2, GotoMoves, MoveStep DEF Working
<1>4. /\ local' \in [Replicas -> [Components -> ItemIds \cup {Null}]]
      /\ \A o \in Replicas, d \in Components :
           local'[o][d] = local[o][d] \/ (d = c /\ local'[o][d] = i)
  BY <1>1, <1>2, TypeParts DEF IInv, Types
<1>5. WindowBacked'
  <2>1. \A o \in Replicas, d \in Components :
          local'[o][d] # Null => Linked(local'[o][d], d, workItems)
    BY <1>2, <1>4, IsLinked DEF IInv, WindowBacked
  <2> QED
    BY <1>1, <2>1, IsLinked, IsLinkedNext DEF IInv, WindowBacked
<1>6. Types'
  BY <1>1, <1>3, <1>4, TypeParts DEF IInv, Types
<1>7. DispatchBacked' /\ AlertsBacked'
  BY <1>1 DEF IInv, DispatchBacked, AlertsBacked, Ids
<1> QED
  BY <1>3, <1>5, <1>6, <1>7, TypeParts DEF IInv

LEMMA EnqueueStep == ASSUME IInv, NEW r \in Reqs, Enqueue(r) PROVE IInv'
<1>1. /\ req[r].pc = "Enqueue"
      /\ UNCHANGED <<local, entry, workItems, dispatching, alerts>>
  BY DEF Enqueue
<1>2. req[r].pc \in Working /\ Linked(req[r].item, ComponentOf(req[r]), workItems)
  BY <1>1, HasItem
<1>3. CASE Advance(r, Failed("full"))
  BY <1>1, <1>2, <1>3, AdvanceFailed DEF Errors
<1>4. CASE Advance(r, Result(req[r].item, req[r].isNew, "none"))
  <2>x. PICK x : x = Result(req[r].item, req[r].isNew, "none")
    OBVIOUS
  <2>1. x \in Results /\ x.item = req[r].item
    BY <2>x, Current DEF Result, Results, Errors, ReqRecords
  <2>2. Advanced(req[r], x) \in ReqRecords /\ ReqOK(Advanced(req[r], x), workItems)
    BY <1>2, <2>1, Current, AdvancedOK
  <2>3. Advance(r, x)
    BY <1>4, <2>x
  <2> QED
    BY <1>1, <2>2, <2>3, AdvanceIs, OnlyRequest
<1> QED
  BY <1>3, <1>4 DEF Enqueue

-----------------------------------------------------------------------------
(* The rest of the system.                                                 *)

LEMMA DispatchStep == ASSUME IInv, NEW d \in dispatching, Dispatch(d) PROVE IInv'
<1>a. PICK a : a = [item |-> d.item.id, channel |-> Channel(d.item.severity)]
  OBVIOUS
<1>1. /\ dispatching' = dispatching \ {d} /\ alerts' = alerts \cup {a}
      /\ UNCHANGED <<local, entry, workItems, req>>
  BY <1>a DEF Dispatch
<1>2. d.item \in workItems /\ d.item \in Rows
  BY TypeParts DEF IInv, Types, DispatchBacked
<1>3. d.item.id \in Ids /\ d.item.id \in ItemIds /\ d.item.severity \in Severities
  BY <1>2 DEF Ids, Rows
<1>4. a \in Alerts /\ a.item \in Ids
  BY <1>a, <1>3, Tables DEF Alerts
<1>5. Types'
  BY <1>1, <1>4, TypeParts DEF IInv, Types
<1>6. AlertsBacked'
  BY <1>1, <1>4 DEF IInv, AlertsBacked, Ids
<1>7. (RequestsOK /\ DispatchBacked)'
  BY <1>1 DEF IInv, RequestsOK, DispatchBacked
<1>8. WindowBacked'
  BY <1>1 DEF IInv, WindowBacked, IsItemOf
<1> QED
  BY <1>5, <1>6, <1>7, <1>8, TypeParts DEF IInv

LEMMA ExpireEntryStep == ASSUME IInv, NEW c \in Components, ExpireEntry(c) PROVE IInv'
<1>1. /\ entry' = [entry EXCEPT ![c] = Null]
      /\ UNCHANGED <<local, workItems, req, dispatching, alerts>>
  BY DEF ExpireEntry
<1>2. /\ entry' \in [Components -> ItemIds \cup {Null}]
      /\ \A d \in Components : entry'[d] = entry[d] \/ entry'[d] = Null
  BY <1>1, TypeParts DEF IInv, Types
<1>3. Types'
  BY <1>1, <1>2, TypeParts DEF IInv, Types
<1>4. WindowBacked'
  BY <1>1, <1>2 DEF IInv, WindowBacked, IsItemOf
<1>5. (RequestsOK /\ DispatchBacked /\ AlertsBacked)'
  BY <1>1 DEF IInv, RequestsOK, DispatchBacked, AlertsBacked, Ids
<1> QED
  BY <1>3, <1>4, <1>5, TypeParts DEF IInv

\* What a crash leaves of a request.
LEMMA LostRecord ==
  ASSUME NEW q \in ReqRecords, NEW W, ReqOK(q, W), NEW a, a = [q EXCEPT !.pc = "lost"]
  PROVE  a \in ReqRecords /\ ReqOK(a, W)
<1>1. /\ a \in ReqRecords /\ a.pc = "lost"
      /\ a.results = q.results /\ a.elements = q.elements
  BY DEF ReqRecords, PCs
<1> QED
  BY <1>1 DEF ReqOK, Working

LEMMA RestartStep == ASSUME IInv, NEW p \in Replicas, Restart(p) PROVE IInv'
<1> DEFINE L == {[item |-> d.item.id, channel |-> "lost"] :
                   d \in {x \in dispatching : x.by = p}}
           E == [c \in Components |-> Null]
<1>1. /\ local' = [local EXCEPT ![p] = E]
      /\ req' = [r \in Reqs |-> IF r \in InFlight /\ req[r].replica = p
                                  THEN [req[r] EXCEPT !.pc = "lost"] ELSE req[r]]
      /\ dispatching' \subseteq dispatching
      /\ alerts' = alerts \cup L
      /\ UNCHANGED <<entry, workItems>>
  BY DEF Restart
<1>2. req' \in [Reqs -> ReqRecords] /\ RequestsOK'
  <2>1. ASSUME NEW r \in Reqs
        PROVE  req'[r] \in ReqRecords /\ ReqOK(req'[r], workItems)
    <3>1. req'[r] = req[r] \/ req'[r] = [req[r] EXCEPT !.pc = "lost"]
      BY <1>1
    <3> QED
      BY <3>1, Current, LostRecord
  <2> QED
    BY <1>1, <2>1 DEF RequestsOK
<1>3. L \subseteq Alerts /\ \A a \in L : a.item \in Ids
  <2> SUFFICES ASSUME NEW d \in dispatching, NEW a,
                      a = [item |-> d.item.id, channel |-> "lost"]
               PROVE  a \in Alerts /\ a.item \in Ids
    OBVIOUS
  <2>1. d.item \in workItems /\ d.item \in Rows
    BY TypeParts DEF IInv, Types, DispatchBacked
  <2>2. d.item.id \in Ids /\ d.item.id \in ItemIds
    BY <2>1 DEF Ids, Rows
  <2> QED
    BY <2>2 DEF Alerts
<1>4. /\ local' \in [Replicas -> [Components -> ItemIds \cup {Null}]]
      /\ \A o \in Replicas, d \in Components : local'[o][d] \in {local[o][d], Null}
  <2>1. E \in [Components -> ItemIds \cup {Null}] /\ \A d \in Components : E[d] = Null
    OBVIOUS
  <2> HIDE DEF E
  <2> QED
    BY <1>1, <2>1, TypeParts DEF IInv, Types
<1> HIDE DEF L, E
<1>5. Types'
  BY <1>1, <1>2, <1>3, <1>4, TypeParts DEF IInv, Types
<1>6. WindowBacked'
  BY <1>1, <1>4 DEF IInv, WindowBacked, IsItemOf
<1>7. (DispatchBacked /\ AlertsBacked)'
  BY <1>1, <1>3 DEF IInv, DispatchBacked, AlertsBacked, Ids
<1> QED
  BY <1>2, <1>5, <1>6, <1>7, TypeParts DEF IInv

-----------------------------------------------------------------------------
(* The theorems.                                                           *)

LEMMA InitIInv == Init => IInv
<1> SUFFICES ASSUME Init PROVE IInv
  OBVIOUS
<1>1. Types
  BY FreshRecord DEF Init, Types
<1>2. RequestsOK
  <2>1. Fresh.pc = "new"
    BY DEF Fresh
  <2>2. 1 .. Len(Fresh.results) = {}
    BY FreshRecord
  <2>3. ReqOK(Fresh, workItems)
    BY <2>1, <2>2 DEF ReqOK, Working
  <2> QED
    BY <2>3 DEF Init, RequestsOK
<1>3. WindowBacked /\ DispatchBacked /\ AlertsBacked
  BY DEF Init, WindowBacked, DispatchBacked, AlertsBacked
<1> QED
  BY <1>1, <1>2, <1>3, TypeParts DEF IInv

LEMMA NextIInv == IInv /\ [Next]_vars => IInv'
<1> SUFFICES ASSUME IInv, [Next]_vars PROVE IInv'
  OBVIOUS
<1>1. ASSUME NEW r \in Reqs, NEW p \in Replicas, NEW b \in Payloads, Begin(r, p, b)
      PROVE  IInv'
  BY <1>1, BeginStep
<1>2. ASSUME NEW r \in Reqs, TurnAway(r) \/ Step(r)
      PROVE  IInv'
  BY <1>2, TurnAwayStep, LoadStep, GetEntryStep, CreateStep, SetEntryStep, StoreLocalStep,
     EnqueueStep DEF Step
<1>3. ASSUME NEW d \in dispatching, Dispatch(d)
      PROVE  IInv'
  BY <1>3, DispatchStep
<1>4. ASSUME NEW c \in Components, ExpireEntry(c)
      PROVE  IInv'
  BY <1>4, ExpireEntryStep
<1>5. ASSUME NEW p \in Replicas, Restart(p)
      PROVE  IInv'
  BY <1>5, RestartStep
<1>6. CASE UNCHANGED vars
  <2>1. WindowBacked' /\ AlertsBacked'
    BY <1>6, RowsGrow DEF vars
  <2>2. Types'
    BY <1>6, TypeParts DEF vars, IInv, Types
  <2>3. RequestsOK' /\ DispatchBacked'
    BY <1>6 DEF vars, IInv, RequestsOK, DispatchBacked
  <2> QED
    BY <2>1, <2>2, <2>3, TypeParts DEF IInv
<1> QED
  BY <1>1, <1>2, <1>3, <1>4, <1>5, <1>6 DEF Next

\* Every reference to a work item, in a handler, in the window and in an alert,
\* is good in every reachable state.
THEOREM Invariance == Spec => []IInv
  BY InitIInv, NextIInv, PTL DEF Spec

\* The variables have their types, and CreateWorkItem is attempted no more often
\* than withRetry allows.
THEOREM TypeCorrect == Spec => []TypeOK
<1>1. IInv => TypeOK
  BY DEF IInv
<1> QED
  BY <1>1, Invariance, PTL

\* Neither the map of a process nor Redis names an item that is not stored or
\* is another component's, whatever fails, expires or crashes on the way.
THEOREM WindowAlwaysBacked == Spec => []WindowBacked
<1>1. IInv => WindowBacked
  BY DEF IInv
<1> QED
  BY <1>1, Invariance, PTL

\* Every signal the handlers accept, alone or at its place in a batch, is
\* answered with a stored item of its own component.
THEOREM AcceptedAlwaysLinked == Spec => []AcceptedIsLinked
<1>1. IInv => AcceptedIsLinked
  BY IsLinked DEF IInv, RequestsOK, ReqOK, AcceptedIsLinked
<1> QED
  BY <1>1, Invariance, PTL

\* No alert is sent, or lost with a process, for an item that is not stored.
THEOREM AlertsAlwaysBacked == Spec => []AlertsBacked
<1>1. IInv => AlertsBacked
  BY DEF IInv
<1> QED
  BY <1>1, Invariance, PTL
=============================================================================
