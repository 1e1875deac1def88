--------------------------- MODULE BitcoinEvidence ---------------------------
(***************************************************************************)
(* The arithmetic of the Bitcoin evidence: normalizeTransaction and the    *)
(* counterparties of project (the address history), parseTransaction (one  *)
(* transaction).  Both read the same wire transactions, whose fields may   *)
(* be absent.                                                              *)
(***************************************************************************)
EXTENDS Integers, Sequences, FiniteSetsExt, Functions, SequencesExt

CONSTANTS
    Target,       \* the address searched for
    MaxMoney,     \* 21000000 bitcoin in the code
    WireOutputs,  \* outputs, with an address or "" and a value or Absent
    WireInputs,   \* inputs: their previous output, or NoOutput, and its reference
    MaxIO,        \* bound of inputs and of outputs, 1000 in the code
    Fees          \* fees the provider may state, or Absent

VARIABLE wire  \* the transaction that the provider answered with

Absent == -1
NoOutput == [address |-> "none", value |-> Absent]

ASSUME EvidenceAssumption ==
    /\ MaxMoney \in Nat /\ MaxIO \in Nat \ {0} /\ Fees \subseteq Int
    /\ \A o \in WireOutputs : o.value \in Int
    /\ \A in \in WireInputs : in.coinbase \in {"yes", "no", "absent"} /\ in.prevout.value \in Int

Lists(S) == UNION {[1 .. n -> S] : n \in 0 .. MaxIO}
Wires ==
    [confirmed : {"yes", "no", "absent"}, inputs : Lists(WireInputs),
     outputs : Lists(WireOutputs), fee : Fees]

Rejected == [kind |-> "rejected"]

\* The provider answers, once.
EvidenceInit == wire \in Wires
EvidenceNext == UNCHANGED wire
EvidenceSpec == EvidenceInit /\ [][EvidenceNext]_wire

-----------------------------------------------------------------------------
(* Sums *)

\* The running sums of a sequence of numbers, and the last one.
Sums(values) ==
    LET sum[n \in 0 .. Len(values)] == IF n = 0 THEN 0 ELSE sum[n - 1] + values[n] IN sum
SumOf(values) == Sums(values)[Len(values)]

\* What a list of outputs pays to some addresses, as far as the values are known.
Payments(outputs, S) ==
    [i \in DOMAIN outputs |->
        IF outputs[i].address \in S /\ outputs[i].value # Absent THEN outputs[i].value ELSE 0]
Paid(outputs, S) == SumOf(Payments(outputs, S))

AddressesOf(outputs) == {o.address : o \in ToSet(outputs) \ {NoOutput}}
Total(outputs) == Paid(outputs, AddressesOf(outputs))
KnownOf(outputs) == AddressesOf(outputs) \ {""}

Coinbase(w) == \E in \in ToSet(w.inputs) : in.coinbase = "yes"

\* The previous outputs of the inputs; NoOutput stands for a missing one.
Spent(w) == [i \in DOMAIN w.inputs |-> w.inputs[i].prevout]

\* normalizeOutput and checkedValue: a value that may exist.
Payable(o) == o.value \in 0 .. MaxMoney /\ o.address # "malformed"

-----------------------------------------------------------------------------
(* The address history *)

\* What normalizeTransaction requires; the running sums never exceed their limit if
\* the totals do not.
Acceptable(w) ==
    /\ w.confirmed = "yes" /\ Len(w.inputs) \in 1 .. MaxIO /\ Len(w.outputs) \in 1 .. MaxIO
    /\ \A in \in ToSet(w.inputs) :
          \/ in.coinbase = "yes" /\ Len(w.inputs) = 1 /\ in.prevout = NoOutput
          \/ in.coinbase = "no" /\ in.prevout # NoOutput /\ Payable(in.prevout)
    /\ \A o \in ToSet(w.outputs) : Payable(o)
    /\ Total(Spent(w)) <= MaxMoney /\ Total(w.outputs) <= MaxMoney
    /\ Coinbase(w) \/ Total(w.outputs) <= Total(Spent(w))
    /\ Target \in AddressesOf(Spent(w)) \cup AddressesOf(w.outputs)

Edge(address, direction, value) == [address |-> address, direction |-> direction, value |-> value]

\* Faulty variant: one known funding address is enough, an unknown one beside it
\* or not.
EdgesOfKnownFunder(w) ==
    LET in == KnownOf(Spent(w)) out == KnownOf(w.outputs) IN
    CASE Coinbase(w) -> {}
      [] in = {Target} -> {Edge(a, "outbound", Paid(w.outputs, {a})) : a \in out \ {Target}}
      [] OTHER ->
            {Edge(a, "cooccurrence", Absent) : a \in (in \cup out) \ {Target}}

\* Only a single known funding address gets values; otherwise those who funded an
\* output to the target, or were paid beside its input, occur with it.
Edges(w) ==
    LET in == KnownOf(Spent(w)) out == KnownOf(w.outputs)
        sole == Cardinality(in) = 1 /\ "" \notin AddressesOf(Spent(w)) IN
    CASE Coinbase(w) -> {}
      [] sole /\ in = {Target} ->
            {Edge(a, "outbound", Paid(w.outputs, {a})) : a \in out \ {Target}}
      [] sole /\ in # {Target} -> {Edge(a, "inbound", Paid(w.outputs, {Target})) : a \in in}
      [] OTHER ->
            {Edge(a, "cooccurrence", Absent) :
                a \in ((IF Target \in out THEN in ELSE {}) \cup (IF Target \in in THEN out ELSE {}))
                      \ {Target}}

\* The observation of one transaction of the history: the net change of the target.
NormalizeTransaction(w) ==
    LET delta == Paid(w.outputs, {Target}) - Paid(Spent(w), {Target}) IN
    IF ~Acceptable(w) THEN Rejected
    ELSE [kind |-> "observed",
          direction |-> IF delta > 0 THEN "inbound" ELSE IF delta < 0 THEN "outbound" ELSE "self",
          value |-> IF delta < 0 THEN -delta ELSE delta,
          edges |-> Edges(w)]

\* project: the counterparty after one more transaction with it.
WithEdge(peer, e) ==
    [count |-> peer.count + 1,
     direction |-> IF peer.count = 0 \/ peer.direction = e.direction THEN e.direction ELSE "mixed",
     value |-> IF e.value = Absent \/ peer.value = Absent THEN Absent ELSE peer.value + e.value]

NoPeer == [count |-> 0, direction |-> "none", value |-> 0]

\* project: what a transaction adds to a counterparty, if it has an edge with it.
Seen(peer, edges) == IF edges = {} THEN peer ELSE WithEdge(peer, CHOOSE e \in edges : TRUE)

\* project: the counterparty's record over the transactions, in their order.
Peers(observed, address) ==
    LET peer[i \in 0 .. Len(observed)] ==
            IF i = 0 THEN NoPeer
            ELSE Seen(peer[i - 1], {e \in observed[i].edges : e.address = address}) IN
    peer
Counterparty(observed, address) == Peers(observed, address)[Len(observed)]

-----------------------------------------------------------------------------
(* One transaction *)

References(w) == [i \in DOMAIN w.inputs |-> w.inputs[i].reference]

\* Every input spends an output whose value is known.
ValuesComplete(w) == ~Coinbase(w) /\ \A in \in ToSet(w.inputs) : in.prevout.value # Absent

\* What parseTransaction requires before it compares the totals with the fee.
WellFormed(w) ==
    /\ w.confirmed # "absent" /\ Len(w.inputs) \in 1 .. MaxIO /\ Len(w.outputs) \in 1 .. MaxIO
    /\ w.fee \in {Absent} \cup 0 .. MaxMoney
    /\ \A in \in ToSet(w.inputs) :
          \/ in.coinbase = "yes" /\ Len(w.inputs) = 1 /\ in.prevout = NoOutput /\ w.fee \in {Absent, 0}
          \/ /\ in.coinbase = "no"
             /\ in.prevout = NoOutput \/ in.prevout.value = Absent \/ Payable(in.prevout)
             /\ in.prevout.address # "malformed"
    /\ ~Coinbase(w) => IsInjective(References(w))
    /\ \A o \in ToSet(w.outputs) : Payable(o)
    /\ Total(w.outputs) <= MaxMoney
    /\ Total(Spent(w)) <= MaxMoney
    /\ ValuesComplete(w) => Total(w.outputs) <= Total(Spent(w))

\* The evidence of one transaction: its totals, as far as they are known, the fee's
\* verdict and the addresses on either side.
ParseTransaction(w) ==
    IF ~WellFormed(w) THEN Rejected
    ELSE IF ValuesComplete(w) /\ w.fee # Absent /\ Total(Spent(w)) - Total(w.outputs) # w.fee
    THEN [kind |-> "inconsistent_fee"]
    ELSE [kind |-> "observed",
          complete |-> ValuesComplete(w),
          input |-> IF ValuesComplete(w) THEN Total(Spent(w)) ELSE Absent,
          output |-> Total(w.outputs),
          fee |-> IF Coinbase(w) THEN "not_applicable"
                  ELSE IF ValuesComplete(w) /\ w.fee # Absent THEN "consistent" ELSE "unavailable",
          senders |-> KnownOf(Spent(w)), receivers |-> KnownOf(w.outputs)]

-----------------------------------------------------------------------------
(* Properties *)

\* No value appears or disappears in an observation: what left a target that funded
\* a transaction alone is what its counterparties got, what went to no known address
\* and the fee; what it got from a sole funder is that edge's value.
Conserved(w, n) ==
    LET valued == {e \in n.edges : e.value # Absent}
        given == MapThenSumSet(LAMBDA e : e.value, {e \in valued : e.direction = "outbound"}) IN
    /\ n.value \in 0 .. MaxMoney /\ (n.direction = "self" <=> n.value = 0)
    /\ \A e, f \in n.edges : e.address = f.address => e = f
    /\ \A e \in n.edges : e.address \notin {Target, ""}
    /\ KnownOf(Spent(w)) = {Target} /\ valued # {} =>
          n.value = given + Paid(w.outputs, {""}) + Total(Spent(w)) - Total(w.outputs)
    /\ \A e \in valued : e.direction = "inbound" => e.value = n.value

\* Both parsers read a confirmed transaction with known values the same way: a
\* transaction of the history is one that the transaction search accepts, unless it
\* names an output twice or its stated fee is wrong, and conversely.
Agreeing(w) ==
    LET n == NormalizeTransaction(w) p == ParseTransaction(w) IN
    /\ n # Rejected /\ w.fee = Absent /\ (Coinbase(w) \/ IsInjective(References(w))) =>
          /\ p.kind = "observed" /\ p.complete = ~Coinbase(w)
          /\ {e.address : e \in n.edges} \subseteq (p.senders \cup p.receivers)
    /\ p.kind = "observed" /\ w.confirmed = "yes" /\ (Coinbase(w) \/ p.complete)
          /\ Target \in p.senders \cup p.receivers => n # Rejected

\* What normalizeTransaction may observe.
Observations ==
    {NormalizeTransaction(w) : w \in {v \in Wires : v.fee = Absent /\ Acceptable(v)}}

\* The evidence of the transaction conserves value and agrees between the two parsers,
\* and a counterparty's record does not depend on the order in which its transactions
\* are projected.
EvidenceSound ==
    LET n == NormalizeTransaction(wire) IN
    /\ Agreeing(wire)
    /\ n # Rejected =>
          /\ Conserved(wire, n)
          /\ \A m \in Observations : \A e \in n.edges :
                Counterparty(<<n, m, n>>, e.address) = Counterparty(<<m, n, n>>, e.address)

=============================================================================
