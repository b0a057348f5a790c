----------------------------- MODULE MCDebounce -----------------------------
(* Instances of Debounce for TLC. *)
EXTENDS Debounce

CONSTANTS db, cache

MCTypeOf == [c \in Components |-> IF c = cache THEN "CACHE" ELSE "RDBMS"]

Signal(c, sev) == [component |-> c, severity |-> sev]
Single(c) == [kind |-> "single", elements |-> <<Signal(c, "P1")>>]

\* A signal, a malformed one and a batch with two components.
MCPayloads ==
  {Single(db), Single(Null),
   [kind |-> "batch", elements |-> <<Signal(cache, "P2"), Signal(db, "P2")>>]}

\* Signals of one component, alone and in a batch.
MCStorm ==
  {Single(db),
   [kind |-> "batch", elements |-> <<Signal(db, "P2"), Signal(db, "P2")>>]}

\* Single signals of one component.
MCSingles == {Single(db)}
=============================================================================
