------------------------------ MODULE MCWatch ------------------------------
(* Instances of WatchMonitor for TLC: one evidence kind with two values.     *)
EXTENDS WatchMonitor

Item(v) == [kind |-> "k", value |-> v]
Answer(E) == [ev |-> {Item(v) : v \in E}, prov |-> "p"]

\* x alone, y alone (a modification) and nothing (a removal).
OneValued == {Answer({1}), Answer({2})}
\* The provenance moves with the value, or on its own (no change is reported).
Silent == OneValued \cup {[Answer({2}) EXCEPT !.prov = "q"]}
\* Two values at once: a batch of two records.
Batches == {Answer({}), Answer({1, 2})}
=============================================================================
