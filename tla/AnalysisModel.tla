----------------------------- MODULE AnalysisModel -----------------------------
(***************************************************************************)
(* The optional analysis of a finished report by an external model: which  *)
(* records are sent (analysis.Prepare), what the model's answer may cite   *)
(* (analysis.Parse) and how an answer becomes an analysis                  *)
(* (Service.Analyze).  A claim has a title, the records it refers to, a    *)
(* class and a text, which is a record's value or prose of its own.        *)
(***************************************************************************)
EXTENDS ReportModel

CONSTANTS
    MaxSources,    \* rows described to the model
    MaxRecords,    \* evidence records sent to it
    MaxClaims,     \* claims of an answer
    MaxRefs,       \* references of a claim
    MaxTotalRefs,  \* references of an answer
    Titles,        \* titles a claim may have
    Prose          \* a text that is no record's value

Classes == {"observed", "correlated", "inferred", "hypothesis", "unknown"}

\* The records of one row: its evidence, unless the target is sensitive, and its metadata,
\* of which a sensitive target keeps only the corpus's verdict.  "oversized" values are
\* beyond what a record may hold.
RecordsOf(o, sensitive) ==
    LET evidence == [i \in DOMAIN o.row.evidence |->
                        [id |-> <<o.id, "e", i>>, value |-> o.row.evidence[i], class |-> o.classes[i]]]
        metadata == IF o.row.meta = "none" THEN <<>>
                    ELSE <<[id |-> <<o.id, "m", 1>>, value |-> [kind |-> "meta", order |-> 0], class |-> o.class]>>
        verdict == <<[id |-> <<o.id, "m", 0>>, value |-> [kind |-> "pwned", order |-> 0], class |-> o.class]>> IN
    IF sensitive THEN IF o.row.status \in Success THEN verdict ELSE <<>> ELSE evidence \o metadata

\* Prepare: an ordered prefix of the records, of a prefix of the rows, up to the first
\* value that is too large.
Prepare(report, sensitive) ==
    LET rows == Len(report.observations)
        described == SubSeq(report.observations, 1, IF rows < MaxSources THEN rows ELSE MaxSources)
        all == FlattenSeq([i \in DOMAIN described |-> RecordsOf(described[i], sensitive)])
        fits(n) == n <= MaxRecords /\ \A i \in 1 .. n : all[i].value.kind # "oversized" IN
    SubSeq(all, 1, CHOOSE n \in 0 .. Len(all) : fits(n) /\ \A m \in 0 .. Len(all) : fits(m) => m <= n)

\* The claims a model may make of the records it got, and of one it did not get; answers
\* of one claim, and of two that differ in little.
Claims(records) ==
    LET ids == {records[i].id : i \in DOMAIN records} \cup {<<"unknown">>}
        texts == {records[i].value : i \in DOMAIN records} \cup {Prose} IN
    [title : {CHOOSE t \in Titles : TRUE}, refs : {<<>>} \cup {<<a>> : a \in ids} \cup {<<a, b>> : a, b \in ids},
     class : Classes, text : texts, hypothesis : BOOLEAN]

Reworded(claim, title, text) == [claim EXCEPT !.title = title, !.text = text]
Answers(records) ==
    {<<>>} \cup {<<c>> : c \in Claims(records)}
    \cup UNION {{<<c, Reworded(c, t, x)>> : t \in Titles, x \in {c.text, Prose}} : c \in Claims(records)}

\* Faulty variant: the quotation may be of any record sent.
ClassifiedByText(claim, records) ==
    LET quoted == \E i \in DOMAIN records : claim.text = records[i].value /\ claim.class = records[i].class IN
    [claim EXCEPT !.class = IF claim.hypothesis THEN "hypothesis"
                            ELSE IF @ \in {"observed", "correlated"} /\ ~quoted THEN "inferred" ELSE @]

\* Only an exact quotation of one record keeps a class of evidence, and only that record's.
Classified(claim, records) ==
    LET quoted == \E i \in DOMAIN records :
            claim.refs = <<records[i].id>> /\ claim.text = records[i].value /\ claim.class = records[i].class IN
    [claim EXCEPT !.class = IF claim.hypothesis THEN "hypothesis"
                            ELSE IF @ \in {"observed", "correlated"} /\ ~quoted THEN "inferred" ELSE @,
                  !.title = IF @ \in Titles /\ claim.class \in {"observed", "correlated"} /\ quoted
                            THEN "Quotation" ELSE @]

\* The references of a claim exist, once each; titles and the pairs of text and references
\* are not repeated.
WellFormedAnswer(claims, records) ==
    LET ids == {records[i].id : i \in DOMAIN records} IN
    /\ Len(claims) <= MaxClaims
    /\ \A i \in DOMAIN claims :
          /\ Len(claims[i].refs) \in 1 .. MaxRefs
          /\ ToSet(claims[i].refs) \subseteq ids
          /\ \A a, b \in DOMAIN claims[i].refs : claims[i].refs[a] = claims[i].refs[b] => a = b
    /\ FoldLeft(LAMBDA n, c : n + Len(c.refs), 0, claims) <= MaxTotalRefs
    /\ \A i, j \in DOMAIN claims :
          i # j => /\ claims[i].title # claims[j].title
                   /\ <<claims[i].text, ToSet(claims[i].refs)>> # <<claims[j].text, ToSet(claims[j].refs)>>

Failed(reason) == [status |-> "failed", reason |-> reason, claims |-> {}]

\* Parse: a malformed answer is refused whole.
Parse(claims, records) ==
    IF WellFormedAnswer(claims, records)
    THEN [status |-> "completed", reason |-> "none", claims |-> {Classified(c, records) : c \in ToSet(claims)}]
    ELSE Failed("malformed_analysis")

=============================================================================
