--------------------------- MODULE AbstractSearch ---------------------------
(***************************************************************************)
(* What a search promises its caller: the consumer is called with one row  *)
(* at a time, source after source in registry order, the rows of a source  *)
(* in the order it produced them and none twice; after the consumer has    *)
(* refused a row it is not called again, and its refusal is what the       *)
(* search returns.  A panic takes precedence over everything.              *)
(***************************************************************************)
EXTENDS Integers, Sequences, FiniteSets

CONSTANTS NSources      \* sources that support the target, in registry order

VARIABLES
    out,      \* rows the consumer accepted: <<source, number>>
    outcome   \* "running", "refused", then how the search ended

avars == <<out, outcome>>

AInit == out = <<>> /\ outcome = "running"

\* The numbers of the rows accepted of a source.
Given(i) == {out[n][2] : n \in {m \in DOMAIN out : out[m][1] = i}}

\* The next row of a source, while no later source has given one.
Accept(i) ==
    /\ outcome = "running"
    /\ \A n \in DOMAIN out : out[n][1] <= i
    /\ out' = Append(out, <<i, 1 + Cardinality(Given(i))>>)
    /\ UNCHANGED outcome

Refuse ==
    /\ outcome = "running"
    /\ outcome' = "refused"
    /\ UNCHANGED out

Return(o) ==
    /\ outcome \in {"running", "refused"}
    /\ o \in IF outcome = "refused" THEN {"consumer", "panic"} ELSE {"nil", "failed", "panic"}
    /\ outcome' = o
    /\ UNCHANGED out

ANext ==
    \/ \E i \in 1 .. NSources : Accept(i)
    \/ Refuse
    \/ \E o \in {"nil", "failed", "consumer", "panic"} : Return(o)

ASpec == AInit /\ [][ANext]_avars
=============================================================================
