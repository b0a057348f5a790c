----------------------------- MODULE Dashboard -----------------------------
(***************************************************************************)
(* The dashboard and its cache: one Redis key with a time to live, filled  *)
(* by whoever misses it (GetDashboard) or has just listed the work items   *)
(* (ListWorkItems), and deleted by whoever has changed the state or the    *)
(* severity of an item (Transition, the ingestion handlers, the            *)
(* escalator), once the database has confirmed the change.  The workers,   *)
(* which count the signals of an item, do not delete it.                   *)
(*                                                                         *)
(* Filling takes two queries and a SET, and nothing ties the SET to a      *)
(* deletion that came in between.  The items live as Lifecycle says.       *)
(***************************************************************************)
EXTENDS Integers, FiniteSets

CONSTANTS Items,
          Severities,   \* the levels an item can have
          Writers,      \* requests that change items, and the escalators
          Readers,      \* requests for the dashboard or the list
          MaxInFlight,  \* bound on requests in progress at one time
          MaxSignals,   \* bound on the signals counted for an item
          Faults,       \* what may fail
          Null

ASSUME FaultsAssumption == Faults \subseteq {"redis", "postgres", "crash"}
ASSUME MaxSignalsAssumption == MaxSignals \in Nat \ {0}

VARIABLES
  phase, reached, documented,   \* of Lifecycle
  severity,   \* of each item
  signals,    \* signal_count of each item
  cache,      \* the key ims:dashboard:state
  writer,     \* what the requests that change items are at
  reader,     \* the requests that read
  excused     \* history: the cache was stored by a refresh that a change had
              \* overtaken, or a change that it does not show did not delete it

items == <<phase, reached, documented, severity, signals>>
vars == <<items, cache, writer, reader, excused>>

L == INSTANCE Lifecycle

States == {"OPEN", "INVESTIGATING", "RESOLVED", "CLOSED"}

\* A row of work_items, as far as it changes.
Row(i) ==
  [item |-> i, state |-> phase[i], severity |-> severity[i], signals |-> signals[i]]

\* ListActiveWorkItems.
Active == {Row(i) : i \in {j \in Items : phase[j] \in {"OPEN", "INVESTIGATING"}}}

\* GetDashboardCounts.
Counts == [s \in States |-> Cardinality({i \in Items : phase[i] = s})]

\* A DashboardState.
View(active, counts) == [active |-> active, counts |-> counts]

IdleReader == [pc |-> "idle", active |-> {}, counts |-> Null, overtaken |-> FALSE]

InFlight == {w \in Writers : writer[w] # "idle"}
              \cup {r \in Readers : reader[r].pc # "idle"}
Admit == Cardinality(InFlight) < MaxInFlight

-----------------------------------------------------------------------------
(* Changes.                                                                *)

Exists(i) == phase[i] # "NONE"

\* A signal opens an item (CreateWorkItem), users move it on
\* (UpdateWorkItemState), an escalator writes its severity, whatever it is by
\* then (UpdateWorkItemSeverity).
Change(i) ==
  \/ /\ L!Open(i)
     /\ \E sev \in Severities : severity' = [severity EXCEPT ![i] = sev]
     /\ signals' = [signals EXCEPT ![i] = 1]
  \/ /\ \E from \in reached[i] : L!Advance(i, from)
     /\ UNCHANGED <<severity, signals>>
  \/ /\ Exists(i)
     /\ \E sev \in Severities \ {severity[i]} : severity' = [severity EXCEPT ![i] = sev]
     /\ UNCHANGED <<phase, reached, documented, signals>>

\* A change is committed.  If the database confirms it, the invalidation is next.
\* If it does not, the caller returns with an error and leaves the cache alone
\* (or tries again, which is another change).
Commit(w, i) ==
  /\ writer[w] = "idle"
  /\ Admit
  /\ Change(i)
  /\ \/ writer' = [writer EXCEPT ![w] = "Invalidate"] /\ UNCHANGED excused
     \/ "postgres" \in Faults /\ excused' = (cache # Null) /\ UNCHANGED writer
  /\ reader' = [r \in Readers |->
       [reader[r] EXCEPT !.overtaken = @ \/ reader[r].pc \in {"Counts", "Set"}]]
  /\ UNCHANGED cache

\* IncrementSignalCount of a worker: nothing is invalidated.
Count(i) ==
  /\ Exists(i)
  /\ signals[i] < MaxSignals
  /\ signals' = [signals EXCEPT ![i] = @ + 1]
  /\ UNCHANGED <<phase, reached, documented, severity, cache, writer, reader, excused>>

\* A submitted RCA does not show on the dashboard; nothing is invalidated.
Document(i) ==
  /\ L!Document(i)
  /\ UNCHANGED <<severity, signals, cache, writer, reader, excused>>

\* A key is never deleted.
InvalidateNothing(w) ==
  /\ writer[w] = "Invalidate"
  /\ writer' = [writer EXCEPT ![w] = "idle"]
  /\ UNCHANGED <<items, cache, reader, excused>>

\* InvalidateDashboard, whose error is ignored.  The process may also die
\* before it gets there.
Invalidate(w) ==
  /\ writer[w] = "Invalidate"
  /\ \/ cache' = Null /\ excused' = FALSE
     \/ /\ Faults \cap {"redis", "crash"} # {}
        /\ UNCHANGED cache /\ excused' = (cache # Null)
  /\ writer' = [writer EXCEPT ![w] = "idle"]
  /\ UNCHANGED <<items, reader>>

-----------------------------------------------------------------------------
(* Readers.  overtaken, for the property, says that the state or severity  *)
(* of an item changed after the first query.                               *)

\* A request for the dashboard that is answered from the cache changes nothing.
Hit(r) ==
  /\ reader[r].pc = "idle"
  /\ Admit
  /\ cache # Null
  /\ UNCHANGED vars

\* The key is missing or Redis fails.
Miss(r) ==
  /\ reader[r].pc = "idle"
  /\ Admit
  /\ cache = Null \/ "redis" \in Faults
  /\ reader' = [reader EXCEPT ![r].pc = "List"]
  /\ UNCHANGED <<items, cache, writer, excused>>

\* ListActiveWorkItems; an error is answered at once.
ListActive(r) ==
  /\ reader[r].pc = "List"
  /\ \/ reader' = [reader EXCEPT ![r].pc = "Counts", ![r].active = Active]
     \/ reader' = [reader EXCEPT ![r] = IdleReader]
  /\ UNCHANGED <<items, cache, writer, excused>>

\* ListWorkItems: all items are listed and answered; rebuildDashboardCache goes
\* on in the background with the active ones among them.
ListAll(r) ==
  /\ reader[r].pc = "idle"
  /\ Admit
  /\ reader' = [reader EXCEPT ![r] = [IdleReader EXCEPT !.pc = "Counts", !.active = Active]]
  /\ UNCHANGED <<items, cache, writer, excused>>

\* GetDashboardCounts, the second query.
GetCounts(r) ==
  /\ reader[r].pc = "Counts"
  /\ \/ reader' = [reader EXCEPT ![r].pc = "Set", ![r].counts = Counts]
     \/ reader' = [reader EXCEPT ![r] = IdleReader]
  /\ UNCHANGED <<items, cache, writer, excused>>

\* SetDashboardState, whose error is ignored; then the client is answered.
Set(r) ==
  /\ reader[r].pc = "Set"
  /\ \/ /\ cache' = View(reader[r].active, reader[r].counts)
        /\ excused' = reader[r].overtaken
     \/ "redis" \in Faults /\ UNCHANGED <<cache, excused>>
  /\ reader' = [reader EXCEPT ![r] = IdleReader]
  /\ UNCHANGED <<items, writer>>

\* A key that was written without a time to live.
ExpireNever == cache # Null /\ UNCHANGED vars

\* dashboardTTL has passed.
Expire ==
  /\ cache # Null
  /\ cache' = Null /\ excused' = FALSE
  /\ UNCHANGED <<items, writer, reader>>

-----------------------------------------------------------------------------
Init ==
  /\ L!Init
  /\ severity \in [Items -> Severities]
  /\ signals = [i \in Items |-> 0]
  /\ cache = Null
  /\ writer = [w \in Writers |-> "idle"]
  /\ reader = [r \in Readers |-> IdleReader]
  /\ excused = FALSE

Refresh(r) == ListActive(r) \/ GetCounts(r) \/ Set(r)

Next ==
  \/ \E w \in Writers : Invalidate(w) \/ \E i \in Items : Commit(w, i)
  \/ \E i \in Items : Count(i) \/ Document(i)
  \/ \E r \in Readers : Hit(r) \/ Miss(r) \/ ListAll(r) \/ Refresh(r)
  \/ Expire

Spec == Init /\ [][Next]_vars

\* Requests in progress get on (they have 5 s), and Redis expires keys.
FairSpec ==
  /\ Spec
  /\ \A w \in Writers : WF_vars(Invalidate(w))
  /\ \A r \in Readers : WF_vars(Refresh(r))
  /\ WF_vars(Expire)

-----------------------------------------------------------------------------
(* Properties.                                                             *)

\* What the rows say apart from the signals counted.
Shown(rows) == {[item |-> x.item, state |-> x.state, severity |-> x.severity] : x \in rows}

\* The cache shows which incidents are active, their states and severities, and
\* how many there are of each state.
UpToDate ==
  cache # Null => Shown(cache.active) = Shown(Active) /\ cache.counts = Counts

\* It shows how many signals they have as well.
Fresh == cache = Null \/ cache = View(Active, Counts)

\* "so next UI refresh shows the new incident" (handler.go:123), "so the UI
\* reflects the escalation" (escalator.go:87): the cache shows the incidents,
\* their states and severities as they are, its list in agreement with its
\* counts although they come from two queries, unless a change is about to delete
\* it; could not, because Redis failed or its process died; did not, because the
\* database committed it without confirming it, so that the caller returned
\* before the deletion; or overtook the refresh that stored it.  Signal counts
\* are not part of it: nobody invalidates them, and they may lag by the time to
\* live.
StaleHasReason ==
  UpToDate \/ excused \/ \E w \in Writers : writer[w] = "Invalidate"

\* When the incidents stop changing, the cache comes to show them as they are,
\* signal counts included: neither a refresh that was overtaken by a change, nor
\* an invalidation that failed or was never made, leaves a stale view behind for
\* good.
CacheConverges == <>[][FALSE]_<<phase, severity, signals>> => <>[]Fresh
=============================================================================
