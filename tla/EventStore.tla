------------------------------ MODULE EventStore ------------------------------
(***************************************************************************)
(* The vocabulary of the event store, shared by every command handler      *)
(* (internal/eventstore/types.go, orisun_embedded.go).  A log is the        *)
(* sequence of all events in commit order; the position of an event is its  *)
(* index, and NoEventPosition is smaller than every position.  Only the     *)
(* order of two positions is ever used by the program.                      *)
(*                                                                         *)
(* An event is a record of the fields its tags can name; a criterion is a   *)
(* record of the fields it asks for, and a query is a set of criteria.      *)
(***************************************************************************)
EXTENDS Integers, Sequences, FiniteSets

NoEventPosition == 0

After(p, q) == p > q

\* A criterion is a conjunction of tags ...
Matches(event, criterion) ==
    \A tag \in DOMAIN criterion :
        tag \in DOMAIN event /\ event[tag] = criterion[tag]

\* ... and a query a disjunction of criteria.
InQuery(event, query) == \E criterion \in query : Matches(event, criterion)

\* Faulty variant: the first event after the position is overlooked.
ConflictsLate(log, expected, query) ==
    \E i \in DOMAIN log : After(i, expected + 1) /\ InQuery(log[i], query)

\* The save is rejected when an event of the subset query was committed after
\* the position the caller read at: optimistic concurrency on a "consistency
\* boundary" that the query draws, not on a stream.
Conflicts(log, expected, query) ==
    \E i \in DOMAIN log : After(i, expected) /\ InQuery(log[i], query)

\* GetLatestByCriteria answers from one snapshot.  Its ContextPosition is the
\* position of the last event any criterion matched.
IsContextPosition(p, log, query) ==
    /\ p = NoEventPosition \/ (p \in DOMAIN log /\ InQuery(log[p], query))
    /\ ~ Conflicts(log, p, query)

\* The positions of the answer: for each criterion the last event it matches.
LatestByCriteria(log, query) ==
    {i \in DOMAIN log : \E criterion \in query :
        /\ Matches(log[i], criterion)
        /\ \A j \in DOMAIN log : After(j, i) => ~ Matches(log[j], criterion)}

===============================================================================
