----------------------------- MODULE Escalator -----------------------------
(***************************************************************************)
(* The auto-escalation loop, one in every replica: each minute it lists    *)
(* the active work items and raises the severity of those that are old     *)
(* enough, one UPDATE after the other, on the strength of the listing.     *)
(*                                                                         *)
(* The items live as Lifecycle says they do, which Workflow is proved to   *)
(* implement.  A pass runs under the root context, without a timeout, so   *)
(* it may take as long as PostgreSQL lets it.                              *)
(***************************************************************************)
EXTENDS Integers

CONSTANTS Items, Replicas,
          MaxTime,   \* bound on the clock
          Null

ASSUME MaxTimeAssumption == MaxTime \in Nat

VARIABLES
  phase, reached, documented,   \* of Lifecycle
  now,        \* the time, in units of 30 minutes
  createdAt,  \* of each item
  severity,   \* of each item
  pass        \* of the escalator of each replica

items == <<phase, reached, documented>>
vars == <<items, now, createdAt, severity, pass>>

L == INSTANCE Lifecycle

Severities == {"P0", "P1", "P2"}

p1EscalationAfter == 1
p0EscalationAfter == 2

\* P2 jumps to P0 when it is old enough for it.
ComputeEscalationJump(current, age) ==
  CASE current # "P0" /\ age >= p0EscalationAfter -> "P0"
    [] current = "P2" /\ age >= p1EscalationAfter -> "P1"
    [] OTHER -> current

\* Thresholds that have to be exceeded.
ComputeEscalationLate(current, age) ==
  CASE current = "P2" /\ age > p1EscalationAfter -> "P1"
    [] current = "P1" /\ age > p0EscalationAfter -> "P0"
    [] OTHER -> current

\* computeEscalation.
ComputeEscalation(current, age) ==
  CASE current = "P2" /\ age >= p1EscalationAfter -> "P1"
    [] current = "P1" /\ age >= p0EscalationAfter -> "P0"
    [] OTHER -> current

-----------------------------------------------------------------------------
(* The items.                                                              *)

\* A signal opens an item.
Open(i, sev) ==
  /\ L!Open(i)
  /\ createdAt' = [createdAt EXCEPT ![i] = now]
  /\ severity' = [severity EXCEPT ![i] = sev]
  /\ UNCHANGED <<now, pass>>

\* Users work on it.
Work(i) ==
  /\ L!Document(i) \/ \E from \in reached[i] : L!Advance(i, from)
  /\ UNCHANGED <<now, createdAt, severity, pass>>

Tick ==
  /\ now < MaxTime
  /\ now' = now + 1
  /\ UNCHANGED <<items, createdAt, severity, pass>>

-----------------------------------------------------------------------------
(* runEscalationCheck.  A pass is the set of updates it has yet to make,   *)
(* and the number of attempts it has made at the one it is at.             *)

Attempts == 3
Resting == [todo |-> {}, at |-> Null, tries |-> 0]

\* ListActiveWorkItems and the decisions of the loop: what an item needs is
\* decided on the row as it was listed.  RESOLVED items and younger ones are
\* passed over.  A listing that fails ends the pass.
List(p) ==
  LET due == {i \in Items :
                /\ phase[i] = "INVESTIGATING"
                /\ ComputeEscalation(severity[i], now - createdAt[i]) # severity[i]} IN
  /\ pass[p] = Resting
  /\ due # {}
  /\ pass' = [pass EXCEPT ![p].todo =
       {[item |-> i, from |-> severity[i],
         to |-> ComputeEscalation(severity[i], now - createdAt[i])] : i \in due}]
  /\ UNCHANGED <<items, now, createdAt, severity>>

\* The loop comes to its next item.
Pick(p, u) ==
  /\ pass[p].at = Null
  /\ u \in pass[p].todo
  /\ pass' = [pass EXCEPT ![p] = [todo |-> @.todo \ {u}, at |-> u, tries |-> 0]]
  /\ UNCHANGED <<items, now, createdAt, severity>>

Continue(p) == pass' = [pass EXCEPT ![p].at = Null, ![p].tries = 0]

\* One attempt of UpdateWorkItemSeverity succeeds; the cache is invalidated
\* (module Dashboard) and the loop goes on.
Update(p) ==
  LET u == pass[p].at IN
  /\ u # Null
  /\ severity' = [severity EXCEPT ![u.item] = u.to]
  /\ Continue(p)
  /\ UNCHANGED <<items, now, createdAt>>

\* An attempt fails, committed or not: withRetry repeats it, or the loop goes
\* on with the next item.
UpdateFails(p) ==
  LET u == pass[p].at IN
  /\ u # Null
  /\ \/ severity' = [severity EXCEPT ![u.item] = u.to]
     \/ UNCHANGED severity
  /\ \/ /\ pass[p].tries < Attempts - 1
        /\ pass' = [pass EXCEPT ![p].tries = @ + 1]
     \/ Continue(p)
  /\ UNCHANGED <<items, now, createdAt>>

\* The replica is stopped or dies in the middle of a pass.
Restart(p) ==
  /\ pass[p] # Resting
  /\ pass' = [pass EXCEPT ![p] = Resting]
  /\ UNCHANGED <<items, now, createdAt, severity>>

-----------------------------------------------------------------------------
Init ==
  /\ L!Init
  /\ now = 0
  /\ createdAt = [i \in Items |-> 0]
  /\ severity = [i \in Items |-> "P2"]
  /\ pass = [p \in Replicas |-> Resting]

Next ==
  \/ Tick
  \/ \E i \in Items : Work(i) \/ \E sev \in Severities : Open(i, sev)
  \/ \E p \in Replicas :
       \/ List(p)
       \/ \E u \in pass[p].todo : Pick(p, u)
       \/ Update(p) \/ UpdateFails(p)
       \/ Restart(p)

Spec == Init /\ [][Next]_vars

\* The ticker fires again and again, the loop runs through, and an update that
\* is tried again and again goes through at last.
FairSpec ==
  /\ Spec
  /\ \A p \in Replicas :
       /\ SF_vars(List(p))
       /\ SF_vars(\E u \in pass[p].todo : Pick(p, u))
       /\ SF_vars(Update(p))

-----------------------------------------------------------------------------
(* Properties.                                                             *)

Exists(i) == phase[i] # "NONE"
Age(i) == now - createdAt[i]

\* The UPDATE names no severity it expects to find, so a pass that listed an
\* item as P2 may write P1 over the P0 that others have reached since.
Overtaken(i) ==
  \E p, q \in Replicas :
    /\ p # q
    /\ pass[p].at # Null /\ pass[p].at.item = i /\ pass[p].at.from = "P2"

\* Only an item that has been under investigation changes its severity, one
\* level at a time: up, at an age that warrants the new level, or, in one case
\* only, down.  The comment on Escalator (escalator.go:18-23) has severities
\* rise; the code lowers P0 to P1 when the UPDATE of a pass that listed the item
\* as P2 comes after two passes have raised it, which takes two replicas and an
\* item that is old enough to be P0 again at the next pass (EventuallyP0).  The
\* item may be RESOLVED or CLOSED by then: the UPDATE does not ask.
EscalationEarned ==
  [][\A i \in Items : severity'[i] # severity[i] /\ Exists(i) =>
       /\ "INVESTIGATING" \in reached[i]
       /\ \/ severity[i] = "P2" /\ severity'[i] = "P1" /\ Age(i) >= p1EscalationAfter
          \/ severity[i] = "P1" /\ severity'[i] = "P0" /\ Age(i) >= p0EscalationAfter
          \/ severity[i] = "P0" /\ severity'[i] = "P1" /\ Age(i) >= p0EscalationAfter
             /\ Overtaken(i)]_vars

\* An item that stays INVESTIGATING long enough ends up as P0, whatever
\* fails in single passes, and whatever stale passes of other replicas undo.
EventuallyP0 ==
  \A i \in Items :
    phase[i] = "INVESTIGATING" /\ Age(i) >= p0EscalationAfter ~>
      severity[i] = "P0" \/ phase[i] # "INVESTIGATING"
=============================================================================
