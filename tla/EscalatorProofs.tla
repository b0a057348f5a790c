-------------------------- MODULE EscalatorProofs --------------------------
(***************************************************************************)
(* Proofs about module Escalator, for any items, replicas and length of    *)
(* time.                                                                   *)
(*                                                                         *)
(* A pass acts on a listing that is no longer current.  What its UPDATE    *)
(* may do rests on what cannot be undone between the two: an item does not *)
(* go away or get younger, one that has been P1 never becomes P2 again,    *)
(* whatever order the replicas write in, and one that became P0 in the     *)
(* meantime became so by the pass of another replica, at an age for it.    *)
(***************************************************************************)
EXTENDS Escalator, TLAPS

-----------------------------------------------------------------------------
(* The inductive invariant.                                                *)

Updates == [item : Items, from : {"P1", "P2"}, to : {"P0", "P1"}]
Passes == [todo : SUBSET Updates, at : Updates \cup {Null}, tries : 0 .. Attempts - 1]

Types ==
  /\ phase \in [Items -> {"NONE", "OPEN", "INVESTIGATING", "RESOLVED", "CLOSED"}]
  /\ reached \in [Items -> SUBSET {"OPEN", "INVESTIGATING", "RESOLVED", "CLOSED"}]
  /\ now \in Nat
  /\ createdAt \in [Items -> Nat]
  /\ severity \in [Items -> Severities]
  /\ pass \in [Replicas -> Passes]

\* There is another replica than p.
Company(p) == \E q \in Replicas : q # p

\* What the escalator of replica p knows of an item whose update is pending, and
\* what stays so until it is made.
Earned(p, u) ==
  /\ Exists(u.item)
  /\ "INVESTIGATING" \in reached[u.item]
  /\ u.from = "P2" => /\ u.to = "P1"
                      /\ Age(u.item) >= p1EscalationAfter
                      /\ severity[u.item] = "P0" =>
                           Age(u.item) >= p0EscalationAfter /\ Company(p)
  /\ u.from = "P1" => /\ u.to = "P0"
                      /\ Age(u.item) >= p0EscalationAfter
                      /\ severity[u.item] # "P2"

\* The updates the pass of a replica has yet to make.
Pending(q) == q.todo \cup ({q.at} \ {Null})

\* An item that exists has been in the state it is in.
Histories == \A i \in Items : IF Exists(i) THEN phase[i] \in reached[i] ELSE reached[i] = {}

\* A pass makes one update of an item.
Single(q) == \A u, v \in Pending(q) : u.item = v.item => u = v

IInv ==
  /\ Types
  /\ Histories
  /\ \A p \in Replicas : Single(pass[p])
  /\ \A p \in Replicas : \A u \in Pending(pass[p]) : Earned(p, u)

-----------------------------------------------------------------------------
(* What items do.                                                          *)

\* A listed item gets the level above its own, and has the age for it.
LEMMA Escalation ==
  ASSUME NEW current \in Severities, NEW age \in Int,
         ComputeEscalation(current, age) # current
  PROVE  \/ /\ current = "P2" /\ ComputeEscalation(current, age) = "P1"
            /\ age >= p1EscalationAfter
         \/ /\ current = "P1" /\ ComputeEscalation(current, age) = "P0"
            /\ age >= p0EscalationAfter
  BY DEF ComputeEscalation, Severities

\* An item that exists goes on existing, and keeps its history.
Kept ==
  /\ phase' \in [Items -> {"NONE", "OPEN", "INVESTIGATING", "RESOLVED", "CLOSED"}]
  /\ reached' \in [Items -> SUBSET {"OPEN", "INVESTIGATING", "RESOLVED", "CLOSED"}]
  /\ \A j \in Items : Exists(j)' <=> Exists(j)
  /\ \A j \in Items : reached[j] \subseteq reached'[j]
  /\ Histories'

LEMMA WorkItems == ASSUME IInv, NEW i \in Items, Work(i) PROVE Kept
<1>1. CASE L!Document(i)
  BY <1>1 DEF L!Document, IInv, Types, Histories, Exists, Kept
<1>2. ASSUME NEW from \in reached[i], L!Advance(i, from)
      PROVE  Kept
  <2>s. PICK s : s = L!Successor[from]
    OBVIOUS
  <2>1. s \in {"INVESTIGATING", "RESOLVED", "CLOSED"}
    BY <1>2, <2>s DEF L!Advance, L!Successor
  <2>2. /\ phase' = [phase EXCEPT ![i] = s]
        /\ reached' = [reached EXCEPT ![i] = @ \cup {s}]
    BY <1>2, <2>s DEF L!Advance
  <2>3. Exists(i)
    BY DEF IInv, Histories
  <2> QED
    BY <2>1, <2>2, <2>3 DEF IInv, Types, Histories, Exists, Kept
<1> QED
  BY <1>1, <1>2 DEF Work

\* An item that is there stays there and keeps its birthday and its history, and
\* its severity does not become P2 again.
Stays(j) ==
  /\ Exists(j)'
  /\ reached[j] \subseteq reached'[j]
  /\ createdAt'[j] = createdAt[j]
  /\ severity[j] # "P2" => severity'[j] # "P2"

\* If its severity becomes P0, then at an age for it, and not by a replica that
\* has listed it as P2.
Raised(p, j) ==
  severity'[j] = "P0" /\ severity[j] # "P0" => Age(j) >= p0EscalationAfter /\ Company(p)

\* What was earned stays so as long as the items stay and time does not run
\* backwards.
LEMMA EarnedStays ==
  ASSUME Types, Types', NEW p \in Replicas, NEW u \in Updates, Earned(p, u),
         Stays(u.item), u.from = "P2" => Raised(p, u.item), now' >= now
  PROVE  Earned(p, u)'
<1>i. PICK i \in Items : i = u.item
  BY DEF Updates
<1>1. /\ Exists(i)' /\ createdAt'[i] = createdAt[i] /\ (severity[i] # "P2" => severity'[i] # "P2")
      /\ reached[i] \subseteq reached'[i]
  BY <1>i DEF Stays
<1>2. now \in Nat /\ now' \in Nat /\ createdAt[i] \in Nat
  BY DEF Types
<1>3. Age(i)' >= Age(i) /\ Age(i) \in Int /\ Age(i)' \in Int
  BY <1>1, <1>2 DEF Age
<1>4. Company(p)' <=> Company(p)
  BY DEF Company
<1>5. CASE u.from = "P2"
  BY <1>i, <1>1, <1>3, <1>4, <1>5 DEF Earned, Raised, p1EscalationAfter, p0EscalationAfter
<1>6. CASE u.from = "P1"
  BY <1>i, <1>1, <1>3, <1>6 DEF Earned, p0EscalationAfter
<1> QED
  BY <1>5, <1>6 DEF Updates

\* The pending updates are updates.
LEMMA PendingTypes ==
  ASSUME NEW q \in Passes, NEW u \in Pending(q)
  PROVE  u \in Updates
  BY DEF Passes, Pending

\* A step after which no pass has more to do than before.
LEMMA NothingNew ==
  ASSUME IInv, Types', Histories',
         \A j \in Items : Exists(j) => Stays(j),
         \A p \in Replicas : \A u \in Pending(pass[p]) :
           u.from = "P2" => Raised(p, u.item),
         now' >= now,
         \A p \in Replicas : Pending(pass'[p]) \subseteq Pending(pass[p])
  PROVE  IInv'
<1>1. ASSUME NEW p \in Replicas, NEW u \in Pending(pass'[p])
      PROVE  Earned(p, u)'
  <2>1. u \in Pending(pass[p]) /\ Earned(p, u)
    BY <1>1 DEF IInv
  <2>2. u \in Updates
    BY <2>1, PendingTypes DEF IInv, Types
  <2>3. Stays(u.item) /\ (u.from = "P2" => Raised(p, u.item))
    BY <2>1, <2>2 DEF Earned, Updates
  <2> QED
    BY <2>1, <2>2, <2>3, EarnedStays DEF IInv
<1>2. \A p \in Replicas : Single(pass'[p])
  BY DEF IInv, Single
<1> QED
  BY <1>1, <1>2 DEF IInv

LEMMA OpenStep ==
  ASSUME IInv, NEW i \in Items, NEW sev \in Severities, Open(i, sev)
  PROVE  IInv'
<1>1. /\ ~Exists(i)
      /\ phase' = [phase EXCEPT ![i] = "OPEN"]
      /\ reached' = [reached EXCEPT ![i] = {"OPEN"}]
      /\ createdAt' = [createdAt EXCEPT ![i] = now]
      /\ severity' = [severity EXCEPT ![i] = sev]
      /\ UNCHANGED <<now, pass>>
  BY DEF Open, L!Open, Exists
<1>2. Types'
  BY <1>1 DEF IInv, Types
<1>3. \A j \in Items : j # i => /\ phase'[j] = phase[j] /\ reached'[j] = reached[j]
                                /\ createdAt'[j] = createdAt[j] /\ severity'[j] = severity[j]
  BY <1>1 DEF IInv, Types
<1>4. phase'[i] = "OPEN" /\ reached'[i] = {"OPEN"}
  BY <1>1 DEF IInv, Types
<1>5. Histories'
  BY <1>3, <1>4 DEF IInv, Histories, Exists
<1>6. \A j \in Items : Exists(j) => Stays(j) /\ severity'[j] = severity[j]
  BY <1>1, <1>3 DEF Exists, Stays
<1>7. now' >= now
  BY <1>1 DEF IInv, Types
<1>8. ASSUME NEW p \in Replicas, NEW u \in Pending(pass[p]) PROVE Raised(p, u.item)
  <2>1. Exists(u.item) /\ u.item \in Items
    BY PendingTypes DEF IInv, Types, Earned, Updates
  <2> QED
    BY <1>6, <2>1 DEF Raised
<1> QED
  BY <1>1, <1>2, <1>5, <1>6, <1>7, <1>8, NothingNew

LEMMA WorkStep == ASSUME IInv, NEW i \in Items, Work(i) PROVE IInv'
<1>1. UNCHANGED <<now, createdAt, severity, pass>>
  BY DEF Work
<1>2. Types'
  BY <1>1, WorkItems DEF IInv, Types, Kept
<1>3. now' >= now
  BY <1>1 DEF IInv, Types
<1>4. \A j \in Items : Exists(j) => Stays(j)
  BY <1>1, WorkItems DEF Stays, Kept
<1>5. \A p \in Replicas : \A u \in Pending(pass[p]) : Raised(p, u.item)
  BY <1>1 DEF Raised
<1> QED
  BY <1>1, <1>2, <1>3, <1>4, <1>5, WorkItems, NothingNew DEF Kept

LEMMA TickStep == ASSUME IInv, Tick PROVE IInv'
<1>1. now' = now + 1 /\ now \in Nat /\ UNCHANGED <<items, createdAt, severity, pass>>
  BY DEF Tick, IInv, Types
<1>2. Types' /\ now' >= now
  BY <1>1 DEF IInv, Types, items
<1>3. \A j \in Items : Exists(j) => Stays(j)
  BY <1>1 DEF items, Exists, Stays
<1>4. Histories'
  BY <1>1 DEF items, IInv, Histories, Exists
<1>5. \A p \in Replicas : \A u \in Pending(pass[p]) : Raised(p, u.item)
  BY <1>1 DEF Raised
<1> QED
  BY <1>1, <1>2, <1>3, <1>4, <1>5, NothingNew

-----------------------------------------------------------------------------
(* Passes.                                                                 *)

\* A replica changes its pass, and nothing happens to the items.
LEMMA PassStep ==
  ASSUME IInv, NEW p \in Replicas, NEW q \in Passes, pass' = [pass EXCEPT ![p] = q],
         \A u \in Pending(q) : Earned(p, u),
         Single(q),
         UNCHANGED <<items, now, createdAt, severity>>
  PROVE  IInv'
<1>1. /\ pass' \in [Replicas -> Passes] /\ pass'[p] = q
      /\ \A o \in Replicas \ {p} : pass'[o] = pass[o]
  BY DEF IInv, Types
<1>2. Types'
  BY <1>1 DEF IInv, Types, items
<1>3. \A o, u : Earned(o, u) => Earned(o, u)'
  BY DEF Earned, Exists, items, Age, Company
<1>4. ASSUME NEW o \in Replicas, NEW u \in Pending(pass'[o])
      PROVE  Earned(o, u)'
  BY <1>1, <1>3 DEF IInv
<1>5. Histories'
  BY DEF IInv, Histories, Exists, items
<1>6. \A o \in Replicas : Single(pass'[o])
  BY <1>1 DEF IInv
<1>7. \A o \in Replicas : Single(pass[o])'
  BY <1>6 DEF Single
<1> QED
  BY <1>2, <1>4, <1>5, <1>7 DEF IInv

LEMMA RestingPass == Resting \in Passes /\ Pending(Resting) = {} /\ Single(Resting)
<1>1. Resting.todo = {} /\ Resting.at = Null
  BY DEF Resting
<1> QED
  BY <1>1 DEF Resting, Passes, Attempts, Pending, Single

LEMMA ListStep == ASSUME IInv, NEW p \in Replicas, List(p) PROVE IInv'
<1> DEFINE to(i) == ComputeEscalation(severity[i], now - createdAt[i])
           due == {i \in Items : phase[i] = "INVESTIGATING" /\ to(i) # severity[i]}
           todo == {[item |-> i, from |-> severity[i], to |-> to(i)] : i \in due}
           q == [pass[p] EXCEPT !.todo = todo]
<1>1. /\ pass[p] = Resting /\ pass \in [Replicas -> Passes]
      /\ pass' = [pass EXCEPT ![p].todo = todo]
      /\ UNCHANGED <<items, now, createdAt, severity>>
  BY DEF List, IInv, Types
<1>2. ASSUME NEW i \in due, NEW u, u = [item |-> i, from |-> severity[i], to |-> to(i)]
      PROVE  u \in Updates /\ Earned(p, u)
  <2>1. severity[i] \in Severities /\ now - createdAt[i] \in Int
    BY DEF IInv, Types
  <2>2. \/ severity[i] = "P2" /\ to(i) = "P1" /\ now - createdAt[i] >= p1EscalationAfter
        \/ severity[i] = "P1" /\ to(i) = "P0" /\ now - createdAt[i] >= p0EscalationAfter
    BY <2>1, Escalation
  <2> HIDE DEF to
  <2>3. u.item = i /\ u.from = severity[i] /\ u.to = to(i) /\ u \in Updates
    BY <1>2, <2>2 DEF Updates
  <2>4. Exists(i) /\ "INVESTIGATING" \in reached[i]
    BY DEF Exists, IInv, Histories
  <2> QED
    BY <2>2, <2>3, <2>4 DEF Earned, Age
<1> HIDE DEF to
<1>3. todo \subseteq Updates /\ \A u \in todo : Earned(p, u)
  BY <1>2
<1>s. \A u, v \in todo : u.item = v.item => u = v
  OBVIOUS
<1> HIDE DEF todo
<1>4. q \in Passes /\ q.todo = todo /\ q.at = pass[p].at
  BY <1>1, <1>3 DEF Passes
<1>5. pass' = [pass EXCEPT ![p] = q] /\ pass[p].at = Null
  BY <1>1 DEF Resting
<1> HIDE DEF q
<1>6. Pending(q) = todo
  BY <1>4, <1>5 DEF Pending
<1>7. Single(q) /\ \A u \in Pending(q) : Earned(p, u)
  BY <1>3, <1>6, <1>s DEF Single
<1> QED
  BY <1>1, <1>4, <1>5, <1>7, PassStep

LEMMA PickStep ==
  ASSUME IInv, NEW p \in Replicas, NEW u \in pass[p].todo, Pick(p, u)
  PROVE  IInv'
<1> DEFINE q == [todo |-> pass[p].todo \ {u}, at |-> u, tries |-> 0]
<1>1. pass[p] \in Passes /\ u \in Updates
  BY DEF IInv, Types, Passes
<1>2. pass' = [pass EXCEPT ![p] = q] /\ UNCHANGED <<items, now, createdAt, severity>>
  BY DEF Pick
<1>3. q \in Passes /\ q.todo = pass[p].todo \ {u} /\ q.at = u
  BY <1>1 DEF Passes, Attempts
<1> HIDE DEF q
<1>4. Pending(q) \subseteq Pending(pass[p])
  BY <1>3 DEF Pending
<1>5. Single(q) /\ \A v \in Pending(q) : Earned(p, v)
  BY <1>4 DEF IInv, Single
<1> QED
  BY <1>2, <1>3, <1>5, PassStep

LEMMA RestartStep == ASSUME IInv, NEW p \in Replicas, Restart(p) PROVE IInv'
  BY RestingPass, PassStep DEF Restart

\* Replica p writes the update it is at.
Written(p) ==
  LET u == pass[p].at IN
  /\ u \in Updates /\ u # Null /\ Earned(p, u)
  /\ severity' = [severity EXCEPT ![u.item] = u.to]

\* An attempt at an update, whether or not it is repeated.
LEMMA UpdateStep ==
  ASSUME IInv, NEW p \in Replicas, Update(p) \/ UpdateFails(p)
  PROVE  IInv' /\ (UNCHANGED severity \/ Written(p))
<1>u. PICK u : u = pass[p].at
  OBVIOUS
<1>1. pass \in [Replicas -> Passes] /\ pass[p] \in Passes /\ u # Null
  BY <1>u DEF IInv, Types, Update, UpdateFails
<1>2. u \in Updates /\ u \in Pending(pass[p]) /\ Earned(p, u)
  BY <1>u, <1>1 DEF Passes, Pending, IInv
<1>3. /\ UNCHANGED <<items, now, createdAt>>
      /\ severity' = [severity EXCEPT ![u.item] = u.to] \/ severity' = severity
  BY <1>u DEF Update, UpdateFails
<1>4. PICK q : /\ q \in Passes /\ pass' = [pass EXCEPT ![p] = q]
              /\ q.todo = pass[p].todo /\ q.at \in {pass[p].at, Null}
  <2>1. CASE Continue(p)
    <3> DEFINE a == [pass[p] EXCEPT !.at = Null]
               q == [a EXCEPT !.tries = 0]
    <3>1. q \in Passes /\ q.todo = pass[p].todo /\ q.at = Null
      <4>1. a \in Passes /\ a.todo = pass[p].todo /\ a.at = Null
        BY <1>1 DEF Passes
      <4> HIDE DEF a
      <4> QED
        BY <4>1 DEF Passes, Attempts
    <3>2. pass' = [pass EXCEPT ![p] = q]
      BY <1>1, <2>1 DEF Continue
    <3> QED
      BY <3>1, <3>2
  <2>2. CASE /\ pass[p].tries < Attempts - 1
             /\ pass' = [pass EXCEPT ![p].tries = @ + 1]
    <3> DEFINE q == [pass[p] EXCEPT !.tries = @ + 1]
    <3>1. pass[p].tries + 1 \in 0 .. Attempts - 1
      BY <1>1, <2>2 DEF Passes, Attempts
    <3>2. q \in Passes /\ q.todo = pass[p].todo /\ q.at = pass[p].at
      BY <1>1, <3>1 DEF Passes
    <3>3. pass' = [pass EXCEPT ![p] = q]
      BY <1>1, <2>2
    <3> QED
      BY <3>2, <3>3
  <2> QED
    BY <2>1, <2>2 DEF Update, UpdateFails
<1>5. \A o \in Replicas : Pending(pass'[o]) \subseteq Pending(pass[o])
  BY <1>1, <1>4 DEF Pending
<1>6. /\ severity' \in [Items -> Severities]
      /\ \A j \in Items : severity[j] # "P2" => severity'[j] # "P2"
  BY <1>2, <1>3 DEF IInv, Types, Updates, Severities
<1>7. Types' /\ now' >= now
  BY <1>1, <1>3, <1>4, <1>6 DEF IInv, Types, items
<1>8. \A j \in Items : Exists(j) => Stays(j)
  BY <1>3, <1>6 DEF items, Exists, Stays
<1>9. Histories'
  BY <1>3 DEF items, IInv, Histories, Exists
<1>10. ASSUME NEW o \in Replicas, NEW v \in Pending(pass[o]), v.from = "P2"
       PROVE  Raised(o, v.item)
  <2> SUFFICES ASSUME severity'[v.item] = "P0", severity[v.item] # "P0"
               PROVE  Age(v.item) >= p0EscalationAfter /\ Company(o)
    BY DEF Raised
  <2>1. v.item \in Items /\ severity \in [Items -> Severities]
    BY <1>1, PendingTypes DEF IInv, Types, Updates
  <2>2. severity' = [severity EXCEPT ![u.item] = u.to] /\ u.item = v.item /\ u.to = "P0"
    BY <1>3, <2>1
  <2>3. u.from = "P1" /\ Age(u.item) >= p0EscalationAfter
    BY <1>2, <2>2 DEF Updates, Earned
  <2>4. o # p
    BY <1>2, <1>10, <2>2, <2>3 DEF IInv, Single
  <2> QED
    BY <2>2, <2>3, <2>4 DEF Company
<1>11. IInv'
  BY <1>5, <1>7, <1>8, <1>9, <1>10, NothingNew
<1> QED
  BY <1>u, <1>1, <1>2, <1>3, <1>11 DEF Written

-----------------------------------------------------------------------------
(* The theorems.                                                           *)

LEMMA InitIInv == Init => IInv
<1> SUFFICES ASSUME Init PROVE IInv
  OBVIOUS
<1>1. Types
  BY RestingPass DEF Init, L!Init, Types, Severities
<1>2. \A p \in Replicas : Pending(pass[p]) = {}
  BY RestingPass DEF Init
<1> QED
  BY <1>1, <1>2 DEF Init, L!Init, IInv, Histories, Exists, Single

\* The steps of the system, and those that change the severity of an item.
LEMMA NextStep ==
  ASSUME IInv, [Next]_vars
  PROVE  /\ IInv'
         /\ \/ UNCHANGED severity
            \/ \E i \in Items, sev \in Severities : Open(i, sev)
            \/ \E p \in Replicas : Written(p)
<1>1. CASE Tick
  BY <1>1, TickStep DEF Tick
<1>2. ASSUME NEW i \in Items, Work(i)
      PROVE  IInv' /\ UNCHANGED severity
  BY <1>2, WorkStep DEF Work
<1>3. ASSUME NEW i \in Items, NEW sev \in Severities, Open(i, sev)
      PROVE  IInv'
  BY <1>3, OpenStep
<1>4. ASSUME NEW p \in Replicas, \/ List(p) \/ Restart(p)
                                 \/ \E u \in pass[p].todo : Pick(p, u)
      PROVE  IInv' /\ UNCHANGED severity
  BY <1>4, ListStep, RestartStep, PickStep DEF List, Restart, Pick
<1>5. ASSUME NEW p \in Replicas, Update(p) \/ UpdateFails(p)
      PROVE  IInv' /\ (UNCHANGED severity \/ Written(p))
  BY <1>5, UpdateStep
<1>6. CASE UNCHANGED vars
  <2>1. Types' /\ Histories' /\ now' >= now
    BY <1>6 DEF vars, items, IInv, Types, Histories, Exists
  <2>2. \A j \in Items : Exists(j) => Stays(j)
    BY <1>6 DEF vars, items, Exists, Stays
  <2>3. \A p \in Replicas : \A u \in Pending(pass[p]) : Raised(p, u.item)
    BY <1>6 DEF vars, Raised
  <2> QED
    BY <1>6, <2>1, <2>2, <2>3, NothingNew DEF vars
<1> QED
  BY <1>1, <1>2, <1>3, <1>4, <1>5, <1>6 DEF Next

\* What a pass is about to write was earned when it was listed, and still is,
\* unless another replica has raised the item further in the meantime, in every
\* reachable state.
THEOREM Invariance == Spec => []IInv
<1>1. IInv /\ [Next]_vars => IInv'
  BY NextStep
<1> QED
  BY <1>1, InitIInv, PTL DEF Spec

\* However many replicas escalate at a time, whatever listings their updates
\* rest on and however often these are repeated, an item goes up one level at a
\* time, at the age for it, and comes down only from P0 to P1, by the update of a
\* replica that listed it as P2 before others raised it.
THEOREM AlwaysEarned == Spec => EscalationEarned
<1> DEFINE Step(i) ==
      /\ "INVESTIGATING" \in reached[i]
      /\ \/ severity[i] = "P2" /\ severity'[i] = "P1" /\ Age(i) >= p1EscalationAfter
         \/ severity[i] = "P1" /\ severity'[i] = "P0" /\ Age(i) >= p0EscalationAfter
         \/ severity[i] = "P0" /\ severity'[i] = "P1" /\ Age(i) >= p0EscalationAfter
            /\ Overtaken(i)
<1>1. ASSUME IInv, [Next]_vars, NEW i \in Items, severity'[i] # severity[i], Exists(i)
      PROVE  Step(i)
  <2>1. ASSUME NEW j \in Items, NEW sev \in Severities, Open(j, sev)
        PROVE  FALSE
    <3>1. ~Exists(j) /\ severity' = [severity EXCEPT ![j] = sev]
      BY <2>1 DEF Open, L!Open, Exists
    <3> QED
      BY <1>1, <3>1 DEF IInv, Types
  <2>2. PICK p \in Replicas : Written(p)
    BY <1>1, <2>1, NextStep
  <2>u. PICK u : u = pass[p].at
    OBVIOUS
  <2>3. /\ u \in Updates /\ u # Null /\ Earned(p, u)
        /\ severity' = [severity EXCEPT ![u.item] = u.to]
    BY <2>2, <2>u DEF Written
  <2>4. u.item = i /\ severity'[i] = u.to /\ severity[i] \in {"P0", "P1", "P2"}
    BY <1>1, <2>3 DEF IInv, Types, Updates, Severities
  <2>5. CASE u.from = "P1"
    BY <1>1, <2>3, <2>4, <2>5 DEF Earned
  <2>6. CASE u.from = "P2" /\ severity[i] # "P0"
    BY <1>1, <2>3, <2>4, <2>6 DEF Earned
  <2>7. CASE u.from = "P2" /\ severity[i] = "P0"
    <3>1. Overtaken(i)
      BY <2>u, <2>3, <2>4, <2>7 DEF Earned, Company, Overtaken
    <3> QED
      BY <2>3, <2>4, <2>7, <3>1 DEF Earned
  <2> QED
    BY <2>3, <2>5, <2>6, <2>7 DEF Updates
<1>2. IInv /\ [Next]_vars =>
        \A i \in Items : severity'[i] # severity[i] /\ Exists(i) => Step(i)
  BY <1>1
<1> QED
  BY <1>2, Invariance, PTL DEF Spec, EscalationEarned
=============================================================================
