----------------------------- MODULE Lifecycle -----------------------------
(***************************************************************************)
(* What the workflow engine promises about the life of a work item,        *)
(* without requests, statements or retries.                                *)
(*                                                                         *)
(* Spec is the promise to concurrent users: every move was legal from a    *)
(* state the item has been in, though perhaps is in no longer, and a close *)
(* is always documented.  SerialSpec is the promise to users who take      *)
(* turns: every move is legal from the state the item is in.               *)
(***************************************************************************)
CONSTANT Items

VARIABLES
  phase,       \* the state of an item, "NONE" before it exists
  reached,     \* the states it has been in
  documented   \* whether its RCA is filed

lifecycleVars == <<phase, reached, documented>>

Successor == [OPEN |-> "INVESTIGATING", INVESTIGATING |-> "RESOLVED",
              RESOLVED |-> "CLOSED"]

Init ==
  /\ phase = [i \in Items |-> "NONE"]
  /\ reached = [i \in Items |-> {}]
  /\ documented = [i \in Items |-> FALSE]

Open(i) ==
  /\ phase[i] = "NONE"
  /\ phase' = [phase EXCEPT ![i] = "OPEN"]
  /\ reached' = [reached EXCEPT ![i] = {"OPEN"}]
  /\ UNCHANGED documented

\* The item takes the step that was due in state from.
Advance(i, from) ==
  /\ from \in DOMAIN Successor
  /\ from = "RESOLVED" => documented[i]
  /\ phase' = [phase EXCEPT ![i] = Successor[from]]
  /\ reached' = [reached EXCEPT ![i] = @ \cup {Successor[from]}]
  /\ UNCHANGED documented

Document(i) ==
  /\ phase[i] \in {"INVESTIGATING", "RESOLVED"}
  /\ ~documented[i]
  /\ documented' = [documented EXCEPT ![i] = TRUE]
  /\ UNCHANGED <<phase, reached>>

Next == \E i \in Items : \/ Open(i)
                         \/ \E from \in reached[i] : Advance(i, from)
                         \/ Document(i)

SerialNext == \E i \in Items : \/ Open(i)
                               \/ Advance(i, phase[i])
                               \/ Document(i)

Spec == Init /\ [][Next]_lifecycleVars

SerialSpec == Init /\ [][SerialNext]_lifecycleVars
=============================================================================
