------------------------------ MODULE ReportModel ------------------------------
(***************************************************************************)
(* The canonical report of one search (report.New): what each row of a     *)
(* source is taken to say, how the rows are ordered and named, and the     *)
(* status and summary of the whole.  A row's "order" is its place among    *)
(* all rows by source, type and content; "meta" is what its metadata says  *)
(* of its coverage.  Strings, redaction and sizes are abstracted, except   *)
(* for the number of rows.                                                 *)
(***************************************************************************)
EXTENDS Integers, Sequences, FiniteSets, SequencesExt, TLC

CONSTANT MaxResults   \* rows of a report

Contract(source, type, target, kind) ==
    [source |-> source, type |-> type, target |-> target, kind |-> kind]

\* What is known of a source's rows, by its declared provenance.
Contracts ==
    {Contract("bitcoin-tx", "api", "bitcoin-tx", "bitcoin_transaction"),
     Contract("bitcoin-labels", "api", "bitcoin", "bitcoin_labels"),
     Contract("bitcoin", "api", "bitcoin", "bitcoin"),
     Contract("ipinfo", "api", "ip", "ip"),
     Contract("hibp", "api", "email", "breach"),
     Contract("securitytrails", "api", "domain", "domain"),
     Contract("pwned-passwords", "api", "password", "password"),
     Contract("pwned-passwords-local", "local", "password", "password")}

\* EvidenceSemantics: the kind of observation of a row, and its meaning.
Kind(row) ==
    LET known == {c \in Contracts : c.source = row.source /\ c.type = row.type /\ c.target = row.target} IN
    CASE known # {} -> (CHOOSE c \in known : TRUE).kind
      [] known = {} /\ row.type = "website" /\ row.target \in {"username", "email"} -> "website"
      [] OTHER -> "unknown"

Meaning(row) ==
    CASE row.status = "error" -> "error"
      [] row.status = "found" -> "observation"
      [] row.status = "not_found" /\ Kind(row) \in {"breach", "password", "bitcoin_transaction"} -> "absence"
      [] row.status = "not_found" /\ Kind(row) \in {"bitcoin_labels", "website"} -> "observation"
      [] OTHER -> "unknown"

BaseClass(row) ==
    CASE row.type = "website" -> "inferred"
      [] row.type # "website" /\ Kind(row) # "unknown" /\ Meaning(row) \in {"observation", "absence"} -> "observed"
      [] OTHER -> "unknown"

Truncated(row) == row.meta = "truncated"
Partial(row) == row.status \in {"error", "blocked"} \/ row.meta # "none"

EvidenceClass(row, evidence) ==
    IF Kind(row) = "bitcoin" /\ evidence.kind = "crypto_counterparty" THEN "correlated" ELSE BaseClass(row)

\* The place of the i-th of these keys when they are sorted, equal ones as they came.
Place(keys, i) ==
    Cardinality({j \in DOMAIN keys : keys[j] < keys[i] \/ (keys[j] = keys[i] /\ j <= i)})

\* A sequence sorted by the keys of its elements (sort.SliceStable).
Sorted(seq, keys) ==
    [n \in 1 .. Len(seq) |-> seq[CHOOSE i \in DOMAIN seq : Place(keys, i) = n]]

\* A row of the report; its evidence is sorted as the rows are.
Observation(row) ==
    LET sorted == Sorted(row.evidence, [i \in DOMAIN row.evidence |-> row.evidence[i].order]) IN
    [row |-> [row EXCEPT !.evidence = sorted], class |-> BaseClass(row), meaning |-> Meaning(row),
     partial |-> Partial(row), truncated |-> Truncated(row),
     classes |-> [i \in DOMAIN sorted |-> EvidenceClass(row, sorted[i])]]

\* A row with its name.
WithId(o, id) ==
    [id |-> id, row |-> o.row, class |-> o.class, meaning |-> o.meaning, partial |-> o.partial,
     truncated |-> o.truncated, classes |-> o.classes]

\* The digest of a row, with an ordinal after the first of equal rows.
Id(sorted, i) ==
    <<sorted[i].row.order, Cardinality({j \in 1 .. i : sorted[j].row.order = sorted[i].row.order})>>

Success == {"found", "not_found"}
Failure == {"error", "blocked"}

\* Faulty variant: the last row of a source decides.
SourceBitsOfLast(observations, source) ==
    LET own == {i \in DOMAIN observations : <<observations[i].row.type, observations[i].row.source>> = source}
        last == CHOOSE i \in own : \A j \in own : j <= i IN
    IF observations[last].row.status \notin Success \/ observations[last].partial THEN 2 ELSE 1

\* What the rows of one source add to its state, as bits: 1 for a success, 2 for the rest.
SourceBits(observations, source) ==
    LET own == {i \in DOMAIN observations : <<observations[i].row.type, observations[i].row.source>> = source} IN
    (IF \E i \in own : observations[i].row.status \in Success THEN 1 ELSE 0)
    + (IF \E i \in own : observations[i].row.status \notin Success \/ observations[i].partial THEN 2 ELSE 0)

Summary(observations) ==
    LET sources == {<<observations[i].row.type, observations[i].row.source>> : i \in DOMAIN observations}
        inState(bits) == Cardinality({s \in sources : SourceBits(observations, s) = bits}) IN
    [results |-> Len(observations), sources |-> Cardinality(sources),
     successful |-> inState(1), failed |-> inState(2), partial |-> inState(3)]

\* References to correlated evidence: a row's name and an index.
Correlations(observations) ==
    UNION {{<<o.id, k>> : k \in {i \in DOMAIN o.classes : o.classes[i] = "correlated"}}
           : o \in ToSet(observations)}

\* report.New for the rows of a search, which failed or not and whose collection stopped
\* at its limit or not.
NewReport(rows, failed, truncated) ==
    LET all == ToSet(rows)
        sorted == Sorted([i \in DOMAIN rows |-> Observation(rows[i])], [i \in DOMAIN rows |-> rows[i].order])
        observations == [i \in DOMAIN sorted |-> WithId(sorted[i], Id(sorted, i))]
        cut == truncated \/ \E row \in all : Truncated(row)
        partial == failed \/ cut \/ \E row \in all : row.status \notin Success \/ Partial(row)
        fruitless == /\ \A row \in all : row.status \notin Success
                     /\ failed \/ \E row \in all : row.status \in Failure IN
    [observations |-> observations, partial |-> partial, truncated |-> cut,
     status |-> IF all = {} /\ ~partial THEN "empty"
                ELSE IF fruitless THEN "failed" ELSE IF partial THEN "partial" ELSE "complete",
     summary |-> Summary(observations),
     correlations |-> Correlations(observations)]

=============================================================================
