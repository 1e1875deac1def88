----------------------------- MODULE MCProviders -----------------------------
(* ProviderSearch with history pages of up to two transactions, and the evidence of  *)
(* transactions with up to two inputs and outputs: an answer is parsed once, apart    *)
(* from the searches' interleavings.                                                 *)
EXTENDS ProviderSearch, BitcoinEvidence

T(i) == [id |-> i, time |-> i]
Refused == [id |-> 5, time |-> 0]
Altered == [id |-> 2, time |-> 4]

MCPages ==
    {<<>>, <<T(1)>>, <<T(1), T(2)>>, <<T(2), T(1)>>, <<T(3), T(4)>>, <<Altered, T(3)>>,
     <<T(2), Altered>>, <<T(3), Refused>>, <<T(1), T(2), T(3)>>}

Out(a, v) == [address |-> a, value |-> v]
In(c, o, r) == [coinbase |-> c, prevout |-> o, reference |-> r]

MCOutputs == {Out("t", 1), Out("t", 2), Out("a", 0), Out("a", 1), Out("b", 1), Out("", 1),
              Out("a", Absent), Out("malformed", 1)}
MCInputs == {In("yes", NoOutput, 0), In("no", NoOutput, 1), In("absent", NoOutput, 1),
             In("no", Out("t", 1), 1), In("no", Out("t", 2), 2), In("no", Out("a", 2), 1),
             In("no", Out("a", 3), 3), In("no", Out("b", 1), 4), In("no", Out("", 1), 5),
             In("no", Out("t", Absent), 6)}
MCFees == {Absent, 0, 1}

\* Every range of up to two lines.
MCRanges == UNION {[1 .. n -> RangeLines] : n \in 0 .. 2}

NoWire == [confirmed |-> "absent", inputs |-> <<>>, outputs |-> <<>>, fee |-> Absent]

MCInit ==
    \/ Init /\ wire = NoWire
    \/ Answering /\ EvidenceInit

MCNext == Next /\ EvidenceNext

MCSpec == MCInit /\ [][MCNext]_<<vars, wire>> /\ Fairness

=============================================================================
