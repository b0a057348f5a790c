-------------------------- MODULE DashboardProofs --------------------------
(***************************************************************************)
(* Proofs about module Dashboard, for any items and any number of          *)
(* overlapping changes and refreshes, with and without failures of Redis   *)
(* and PostgreSQL.                                                         *)
(*                                                                         *)
(* The invariant follows a refresh through its two queries: until a change *)
(* of a state or a severity overtakes it, what it has read is what the     *)
(* items are, signal counts aside.  So the SET of a refresh that nothing   *)
(* overtook leaves an up-to-date cache, and every confirmed change after   *)
(* it has an invalidation to come.                                         *)
(***************************************************************************)
EXTENDS Dashboard, TLAPS

-----------------------------------------------------------------------------
(* The inductive invariant.                                                *)

Rows == [item : Items, state : States \cup {"NONE"}, severity : Severities, signals : Nat]
CountRecords == [States -> {Cardinality(S) : S \in SUBSET Items}]
ReaderRecords == [pc : {"idle", "List", "Counts", "Set"}, active : SUBSET Rows,
                  counts : CountRecords \cup {Null}, overtaken : BOOLEAN]

\* The items, the requests and the history variable have their types.
Types ==
  /\ phase \in [Items -> States \cup {"NONE"}]
  /\ severity \in [Items -> Severities]
  /\ signals \in [Items -> Nat]
  /\ writer \in [Writers -> {"idle", "Invalidate"}]
  /\ reader \in [Readers -> ReaderRecords]
  /\ excused \in BOOLEAN

\* What a refresh that nothing overtook has read of the items so far.
ReadIsCurrent(q) ==
  ~q.overtaken => /\ q.pc \in {"Counts", "Set"} => Shown(q.active) = Shown(Active)
                  /\ q.pc = "Set" => q.counts = Counts

IInv ==
  /\ Types
  /\ \A r \in Readers : ReadIsCurrent(reader[r])
  /\ StaleHasReason

-----------------------------------------------------------------------------
(* Steps.                                                                  *)

LEMMA IdleRecords == IdleReader \in ReaderRecords /\ IdleReader.pc = "idle"
  BY DEF IdleReader, ReaderRecords

\* What the two queries return.
LEMMA QueryTypes == ASSUME Types PROVE Active \subseteq Rows /\ Counts \in CountRecords
<1>1. \A i \in Items : Row(i) \in Rows
  BY DEF Types, Row, Rows
<1>2. Active \subseteq Rows
  BY <1>1 DEF Active
<1>3. Counts \in CountRecords
  BY DEF Counts, CountRecords
<1> QED
  BY <1>2, <1>3

\* As long as no state or severity changes, what was read stays current: what the
\* dashboard shows of a row does not depend on its signals.
LEMMA SameItems ==
  ASSUME UNCHANGED <<phase, severity>>
  PROVE  /\ Shown(Active)' = Shown(Active) /\ Counts' = Counts
         /\ \A q : ReadIsCurrent(q) => ReadIsCurrent(q)'
<1>1. Shown(Active)' = Shown(Active)
  <2> DEFINE S == {j \in Items : phase[j] \in {"OPEN", "INVESTIGATING"}}
             old(i) == Row(i)
             new(i) == [item |-> i, state |-> phase[i], severity |-> severity[i],
                        signals |-> signals'[i]]
             short(x) == [item |-> x.item, state |-> x.state, severity |-> x.severity]
  <2>1. \A i : short(new(i)) = short(old(i))
    BY DEF Row
  <2>2. Active = {old(i) : i \in S}
    BY DEF Active
  <2>3. Active' = {new(i) : i \in S}
    BY DEF Active, Row
  <2>4. Shown(Active) = {short(x) : x \in Active}
    BY DEF Shown
  <2>5. Shown(Active)' = {short(x) : x \in Active'}
    BY DEF Shown
  <2> HIDE DEF old, new, short, S
  <2>6. \A y : y \in Shown(Active) <=> \E i \in S : y = short(old(i))
    BY <2>2, <2>4
  <2>7. \A y : y \in Shown(Active)' <=> \E i \in S : y = short(new(i))
    BY <2>3, <2>5
  <2>8. \A y : y \in Shown(Active) <=> y \in Shown(Active)'
    BY <2>1, <2>6, <2>7
  <2> QED
    BY <2>4, <2>5, <2>8
<1>2. Counts' = Counts
  BY DEF Counts
<1>3. \A q : Shown(q.active)' = Shown(q.active)
  BY DEF Shown
<1> QED
  BY <1>1, <1>2, <1>3 DEF ReadIsCurrent

\* A step of one reader that leaves the items and the cache alone.
LEMMA ReaderStep ==
  ASSUME IInv, NEW r \in Readers, NEW q \in ReaderRecords, reader' = [reader EXCEPT ![r] = q],
         ReadIsCurrent(q), UNCHANGED <<phase, severity>>
  PROVE  reader' \in [Readers -> ReaderRecords] /\ \A s \in Readers : ReadIsCurrent(reader[s])'
<1>1. /\ reader' \in [Readers -> ReaderRecords] /\ reader'[r] = q
      /\ \A s \in Readers \ {r} : reader'[s] = reader[s]
  BY DEF IInv, Types
<1>2. ASSUME NEW s \in Readers, NEW x, x = reader'[s] PROVE ReadIsCurrent(x)'
  BY <1>1, <1>2, SameItems DEF IInv
<1>3. ASSUME NEW s \in Readers PROVE ReadIsCurrent(reader[s])'
  BY <1>2 DEF ReadIsCurrent
<1> QED
  BY <1>1, <1>3

\* No reader moves.
LEMMA SameReaders ==
  ASSUME IInv, UNCHANGED <<phase, severity, reader>>
  PROVE  \A r \in Readers : ReadIsCurrent(reader[r])'
<1>1. ASSUME NEW r \in Readers, NEW x, x = reader[r] PROVE ReadIsCurrent(x)'
  BY <1>1, SameItems DEF IInv
<1> QED
  BY <1>1 DEF ReadIsCurrent

\* A step after which the cache is what it was and no invalidation is over.
LEMMA SameCache ==
  ASSUME IInv, UNCHANGED <<phase, severity, cache, writer, excused>>
  PROVE  StaleHasReason'
<1>1. Shown(cache.active)' = Shown(cache.active)
  BY DEF Shown
<1> QED
  BY <1>1, SameItems DEF IInv, StaleHasReason, UpToDate

\* Only a reader moves.
LEMMA OnlyReader ==
  ASSUME IInv, NEW r \in Readers, NEW q \in ReaderRecords, reader' = [reader EXCEPT ![r] = q],
         ReadIsCurrent(q), UNCHANGED <<items, cache, writer, excused>>
  PROVE  IInv'
<1>1. reader' \in [Readers -> ReaderRecords] /\ \A s \in Readers : ReadIsCurrent(reader[s])'
  BY ReaderStep DEF items
<1>2. StaleHasReason'
  BY SameCache DEF items
<1> QED
  BY <1>1, <1>2 DEF IInv, Types, items

\* The items after a change.
LEMMA ChangeTypes ==
  ASSUME Types, NEW i \in Items, Change(i)
  PROVE  /\ phase' \in [Items -> States \cup {"NONE"}]
         /\ severity' \in [Items -> Severities]
         /\ signals' \in [Items -> Nat]
<1>1. CASE /\ L!Open(i)
           /\ \E sev \in Severities : severity' = [severity EXCEPT ![i] = sev]
           /\ signals' = [signals EXCEPT ![i] = 1]
  BY <1>1 DEF L!Open, Types, States
<1>2. ASSUME NEW from \in reached[i], L!Advance(i, from), UNCHANGED <<severity, signals>>
      PROVE  phase' \in [Items -> States \cup {"NONE"}]
  <2>s. PICK s : s = L!Successor[from]
    OBVIOUS
  <2>1. s \in States
    BY <1>2, <2>s DEF L!Advance, L!Successor, States
  <2>2. phase' = [phase EXCEPT ![i] = s]
    BY <1>2, <2>s DEF L!Advance
  <2> QED
    BY <2>1, <2>2 DEF Types
<1>3. CASE /\ \E sev \in Severities \ {severity[i]} : severity' = [severity EXCEPT ![i] = sev]
           /\ UNCHANGED <<phase, reached, documented, signals>>
  BY <1>3 DEF Types
<1> QED
  BY <1>1, <1>2, <1>3 DEF Change, Types

LEMMA CommitStep ==
  ASSUME IInv, NEW w \in Writers, NEW i \in Items, Commit(w, i)
  PROVE  IInv'
<1>1. /\ \/ writer' = [writer EXCEPT ![w] = "Invalidate"] /\ excused' = excused
         \/ excused' = (cache # Null) /\ writer' = writer
      /\ reader' = [r \in Readers |->
           [reader[r] EXCEPT !.overtaken = @ \/ reader[r].pc \in {"Counts", "Set"}]]
      /\ cache' = cache
  BY DEF Commit
<1>2. /\ writer' \in [Writers -> {"idle", "Invalidate"}] /\ excused' \in BOOLEAN
      /\ writer'[w] = "Invalidate" \/ excused' \/ cache' = Null
  BY <1>1 DEF IInv, Types
<1>3. ASSUME NEW r \in Readers
      PROVE  /\ reader'[r] \in ReaderRecords /\ reader'[r].pc = reader[r].pc
             /\ reader'[r].pc \in {"Counts", "Set"} => reader'[r].overtaken
  <2>b. PICK b \in BOOLEAN : b <=> reader[r].overtaken \/ reader[r].pc \in {"Counts", "Set"}
    OBVIOUS
  <2>1. reader[r] \in ReaderRecords
    BY DEF IInv, Types
  <2>2. reader'[r] = [reader[r] EXCEPT !.overtaken = b]
    BY <1>1, <2>b, <2>1 DEF ReaderRecords
  <2> QED
    BY <2>b, <2>1, <2>2 DEF ReaderRecords
<1>4. reader' \in [Readers -> ReaderRecords]
  BY <1>1, <1>3
<1>5. Types'
  BY <1>2, <1>4, ChangeTypes DEF IInv, Types, Commit
<1>6. \A r \in Readers : ReadIsCurrent(reader[r])'
  BY <1>3 DEF ReadIsCurrent
<1>7. StaleHasReason'
  BY <1>2 DEF StaleHasReason, UpToDate
<1> QED
  BY <1>5, <1>6, <1>7 DEF IInv

\* Signals are counted, or an RCA is filed.
LEMMA UnseenStep ==
  ASSUME IInv, NEW i \in Items, Count(i) \/ Document(i)
  PROVE  IInv'
<1>1. UNCHANGED <<phase, severity, cache, writer, reader, excused>>
  BY DEF Count, Document, L!Document
<1>2. signals' \in [Items -> Nat]
  BY DEF Count, Document, IInv, Types
<1>3. \A r \in Readers : ReadIsCurrent(reader[r])'
  BY <1>1, SameReaders DEF items
<1>4. StaleHasReason'
  BY <1>1, SameCache
<1> QED
  BY <1>1, <1>2, <1>3, <1>4 DEF IInv, Types

LEMMA InvalidateStep == ASSUME IInv, NEW w \in Writers, Invalidate(w) PROVE IInv'
<1>1. /\ UNCHANGED <<items, reader>>
      /\ writer' = [writer EXCEPT ![w] = "idle"]
      /\ \/ cache' = Null /\ excused' = FALSE
         \/ cache' = cache /\ excused' = (cache # Null)
  BY DEF Invalidate
<1>2. excused' \in BOOLEAN /\ (excused' \/ cache' = Null)
  BY <1>1
<1>3. writer' \in [Writers -> {"idle", "Invalidate"}]
  BY <1>1 DEF IInv, Types
<1>4. \A r \in Readers : ReadIsCurrent(reader[r])'
  BY <1>1, SameReaders DEF items
<1>5. StaleHasReason'
  BY <1>2 DEF StaleHasReason, UpToDate
<1> QED
  BY <1>1, <1>2, <1>3, <1>4, <1>5 DEF IInv, Types, items

\* The first query of a refresh, or its end.
LEMMA MissStep == ASSUME IInv, NEW r \in Readers, Miss(r) PROVE IInv'
<1> DEFINE q == [reader[r] EXCEPT !.pc = "List"]
<1>1. q \in ReaderRecords /\ q.pc = "List"
  BY DEF IInv, Types, ReaderRecords
<1>2. reader' = [reader EXCEPT ![r] = q]
  BY DEF Miss
<1> HIDE DEF q
<1>3. ReadIsCurrent(q)
  BY <1>1 DEF ReadIsCurrent
<1> QED
  BY <1>1, <1>2, <1>3, OnlyReader DEF Miss

LEMMA IdleIsCurrent == ReadIsCurrent(IdleReader)
  BY IdleRecords DEF ReadIsCurrent

LEMMA ListActiveStep == ASSUME IInv, NEW r \in Readers, ListActive(r) PROVE IInv'
<1>1. CASE reader' = [reader EXCEPT ![r] = IdleReader]
  BY <1>1, IdleRecords, IdleIsCurrent, OnlyReader DEF ListActive
<1>2. CASE reader' = [reader EXCEPT ![r].pc = "Counts", ![r].active = Active]
  <2>a. PICK a \in SUBSET Rows : a = Active
    BY QueryTypes DEF IInv
  <2> DEFINE q == [reader[r] EXCEPT !.pc = "Counts", !.active = a]
  <2>1. q \in ReaderRecords /\ q.pc = "Counts" /\ q.active = a
    BY DEF IInv, Types, ReaderRecords
  <2>2. reader' = [reader EXCEPT ![r] = q]
    BY <1>2, <2>a DEF IInv, Types
  <2> HIDE DEF q
  <2>3. ReadIsCurrent(q)
    BY <2>a, <2>1 DEF ReadIsCurrent
  <2> QED
    BY <2>1, <2>2, <2>3, OnlyReader DEF ListActive
<1> QED
  BY <1>1, <1>2 DEF ListActive

LEMMA ListAllStep == ASSUME IInv, NEW r \in Readers, ListAll(r) PROVE IInv'
<1>a. PICK a \in SUBSET Rows : a = Active
  BY QueryTypes DEF IInv
<1> DEFINE q == [IdleReader EXCEPT !.pc = "Counts", !.active = a]
<1>1. q \in ReaderRecords /\ q.pc = "Counts" /\ q.active = a
  BY DEF IdleReader, ReaderRecords
<1>2. reader' = [reader EXCEPT ![r] = q]
  BY <1>a DEF ListAll
<1> HIDE DEF q
<1>3. ReadIsCurrent(q)
  BY <1>a, <1>1 DEF ReadIsCurrent
<1> QED
  BY <1>1, <1>2, <1>3, OnlyReader DEF ListAll

LEMMA GetCountsStep == ASSUME IInv, NEW r \in Readers, GetCounts(r) PROVE IInv'
<1>1. CASE reader' = [reader EXCEPT ![r] = IdleReader]
  BY <1>1, IdleRecords, IdleIsCurrent, OnlyReader DEF GetCounts
<1>2. CASE reader' = [reader EXCEPT ![r].pc = "Set", ![r].counts = Counts]
  <2>c. PICK c \in CountRecords : c = Counts
    BY QueryTypes DEF IInv
  <2> DEFINE q == [reader[r] EXCEPT !.pc = "Set", !.counts = c]
  <2>1. /\ q \in ReaderRecords /\ q.pc = "Set" /\ q.counts = c
        /\ q.active = reader[r].active /\ q.overtaken = reader[r].overtaken
    BY DEF IInv, Types, ReaderRecords
  <2>2. reader' = [reader EXCEPT ![r] = q]
    BY <1>2, <2>c DEF IInv, Types
  <2> HIDE DEF q
  <2>3. reader[r].pc = "Counts" /\ ReadIsCurrent(reader[r])
    BY DEF GetCounts, IInv
  <2>4. ReadIsCurrent(q)
    BY <2>c, <2>1, <2>3 DEF ReadIsCurrent
  <2> QED
    BY <2>1, <2>2, <2>4, OnlyReader DEF GetCounts
<1> QED
  BY <1>1, <1>2 DEF GetCounts

LEMMA SetStep == ASSUME IInv, NEW r \in Readers, Set(r) PROVE IInv'
<1>1. /\ reader' = [reader EXCEPT ![r] = IdleReader] /\ UNCHANGED <<items, writer>>
      /\ reader[r].pc = "Set" /\ reader[r] \in ReaderRecords /\ ReadIsCurrent(reader[r])
  BY DEF Set, IInv, Types
<1>2. reader' \in [Readers -> ReaderRecords] /\ \A s \in Readers : ReadIsCurrent(reader[s])'
  BY <1>1, IdleRecords, IdleIsCurrent, ReaderStep DEF items
<1>3. CASE UNCHANGED <<cache, excused>>
  BY <1>1, <1>2, <1>3, SameCache DEF IInv, Types, items
<1>4. CASE /\ cache' = View(reader[r].active, reader[r].counts)
           /\ excused' = reader[r].overtaken
  <2>1. excused' \in BOOLEAN
    BY <1>1, <1>4 DEF ReaderRecords
  <2>2. cache'.active = reader[r].active /\ cache'.counts = reader[r].counts
    BY <1>4 DEF View
  <2>3. ~excused' => Shown(cache'.active) = Shown(Active) /\ cache'.counts = Counts
    BY <1>1, <1>4, <2>2 DEF ReadIsCurrent
  <2>4. Shown(cache.active)' = Shown(cache'.active)
    BY DEF Shown
  <2>5. StaleHasReason'
    BY <1>1, <2>3, <2>4, SameItems DEF StaleHasReason, UpToDate, items
  <2> QED
    BY <1>1, <1>2, <2>1, <2>5 DEF IInv, Types, items
<1> QED
  BY <1>3, <1>4 DEF Set

LEMMA ExpireStep == ASSUME IInv, Expire PROVE IInv'
<1>1. UNCHANGED <<items, writer, reader>> /\ cache' = Null /\ excused' = FALSE
  BY DEF Expire
<1>2. \A r \in Readers : ReadIsCurrent(reader[r])'
  BY <1>1, SameReaders DEF items
<1>3. StaleHasReason'
  BY <1>1 DEF StaleHasReason, UpToDate
<1> QED
  BY <1>1, <1>2, <1>3 DEF IInv, Types, items

-----------------------------------------------------------------------------
(* The theorems.                                                           *)

LEMMA InitIInv == Init => IInv
<1> SUFFICES ASSUME Init PROVE IInv
  OBVIOUS
<1>1. Types /\ \A r \in Readers : reader[r] = IdleReader
  BY IdleRecords DEF Init, L!Init, Types
<1>2. StaleHasReason
  BY DEF Init, StaleHasReason, UpToDate
<1> QED
  BY <1>1, <1>2, IdleIsCurrent DEF IInv

LEMMA NextIInv == IInv /\ [Next]_vars => IInv'
<1> SUFFICES ASSUME IInv, [Next]_vars PROVE IInv'
  OBVIOUS
<1>1. ASSUME UNCHANGED vars PROVE IInv'
  <2>1. \A r \in Readers : ReadIsCurrent(reader[r])'
    BY <1>1, SameReaders DEF vars, items
  <2> QED
    BY <1>1, <2>1, SameCache DEF IInv, Types, vars, items
<1>2. ASSUME NEW w \in Writers, Invalidate(w) \/ \E i \in Items : Commit(w, i)
      PROVE  IInv'
  BY <1>2, InvalidateStep, CommitStep
<1>3. ASSUME NEW i \in Items, Count(i) \/ Document(i) PROVE IInv'
  BY <1>3, UnseenStep
<1>4. ASSUME NEW r \in Readers, Hit(r) \/ Miss(r) \/ ListAll(r) \/ Refresh(r)
      PROVE  IInv'
  BY <1>1, <1>4, MissStep, ListAllStep, ListActiveStep, GetCountsStep, SetStep
     DEF Hit, Refresh
<1>5. CASE Expire
  BY <1>5, ExpireStep
<1> QED
  BY <1>1, <1>2, <1>3, <1>4, <1>5 DEF Next

\* Until a change of a state or a severity overtakes it, a refresh has read the
\* items as they are, signal counts aside, in every reachable state.
THEOREM Invariance == Spec => []IInv
  BY InitIInv, NextIInv, PTL DEF Spec

\* A dashboard that shows a wrong state or severity has one of four reasons: a
\* deletion that is about to come, one that failed, a change that was committed
\* without confirmation and so not followed by a deletion, or a change that
\* overtook the refresh between its queries and its SET, however many requests
\* overlap.
THEOREM StaleOnlyWithReason == Spec => []StaleHasReason
<1>1. IInv => StaleHasReason
  BY DEF IInv
<1> QED
  BY <1>1, Invariance, PTL
=============================================================================
