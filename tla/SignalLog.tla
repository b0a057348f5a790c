----------------------------- MODULE SignalLog -----------------------------
(***************************************************************************)
(* What the ingestion pipeline promises of a signal: it is refused at once *)
(* or accepted; an accepted signal is settled once, as stored or as an     *)
(* error, and what is settled as stored is in the audit log.  Nothing      *)
(* leaves the audit log.  A process that was told to stop may keep         *)
(* accepted signals for ever.                                              *)
(***************************************************************************)
EXTENDS Naturals, FiniteSets

CONSTANTS Signals,
          Capacity,   \* accepted signals that can always wait
          InHand      \* accepted signals that can be in work besides

VARIABLES
  status,     \* of each signal
  log,        \* the audit log
  stopping    \* whether the process was told to stop

vars == <<status, log, stopping>>

Waiting == {s \in Signals : status[s] = "accepted"}

Init ==
  /\ status = [s \in Signals |-> "new"]
  /\ log = {}
  /\ stopping = FALSE

Accept(s) ==
  /\ status[s] = "new"
  /\ Cardinality(Waiting) < Capacity + InHand
  /\ status' = [status EXCEPT ![s] = "accepted"]
  /\ UNCHANGED <<log, stopping>>

Refuse(s) ==
  /\ status[s] = "new"
  /\ Cardinality(Waiting) >= Capacity
  /\ status' = [status EXCEPT ![s] = "refused"]
  /\ UNCHANGED <<log, stopping>>

\* The log may have a signal some time before it is settled.
Record(s) ==
  /\ status[s] = "accepted"
  /\ s \notin log
  /\ log' = log \cup {s}
  /\ UNCHANGED <<status, stopping>>

Settle(s, outcome) ==
  /\ status[s] = "accepted"
  /\ outcome = "stored" => s \in log
  /\ status' = [status EXCEPT ![s] = outcome]
  /\ UNCHANGED <<log, stopping>>

Stop ==
  /\ ~stopping
  /\ stopping' = TRUE
  /\ UNCHANGED <<status, log>>

Next ==
  \/ \E s \in Signals : \/ Accept(s) \/ Refuse(s) \/ Record(s)
                        \/ \E outcome \in {"stored", "error"} : Settle(s, outcome)
  \/ Stop

\* While the process is up it settles what it accepted.
Spec ==
  /\ Init /\ [][Next]_vars
  /\ \A s \in Signals :
       WF_vars(~stopping /\ \E outcome \in {"stored", "error"} : Settle(s, outcome))
=============================================================================
