--------------------------- MODULE MCOrchestration --------------------------
(* Small instances of Orchestration for TLC. *)
EXTENDS Orchestration

\* One run of a memo with a summary that consumes the two other sections and is
\* displayed first.
MemoRuns    == {"run"}
MemoCodes   == {"summary", "risk", "terms"}
MemoOwner   == [r \in MemoRuns |-> "ana"]
MemoOrder   == [summary |-> 1, risk |-> 2, terms |-> 3]
MemoDepends == [summary |-> {"risk", "terms"}, risk |-> {}, terms |-> {}]

\* Two sections, the second grounded on the first.
PairCodes   == {"risk", "summary"}
PairOrder   == [risk |-> 2, summary |-> 1]
PairDepends == [risk |-> {}, summary |-> {"risk"}]

\* A burst of one-section runs by three analysts.
BurstRuns    == {"a1", "a2", "b1", "c1"}
BurstOwner   == [a1 |-> "ana", a2 |-> "ana", b1 |-> "ben", c1 |-> "cat"]
BurstCodes   == {"note"}
BurstOrder   == [note |-> 1]
BurstDepends == [note |-> {}]
=============================================================================
