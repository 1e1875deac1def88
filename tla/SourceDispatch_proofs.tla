------------------------- MODULE SourceDispatch_proofs -------------------------
(* Theorems about the parallel search, for any number of sources, any size of a *)
(* batch and any number of rows.                                                *)
EXTENDS SourceDispatch, FiniteSetTheorems, TLAPS

-----------------------------------------------------------------------------
(* The parts of the inductive invariant *)

\* What the consumer has accepted of a source, by where its goroutine is: every row
\* but the one that is being handed over.
RowInv ==
    \A i \in Sources :
        /\ src[i] \in {"unborn", "check"} =>
              rows[i] = 0 /\ ~refusal[i] /\ ~err[i] /\ ~panicked[i] /\ Accepted(i) = {}
        /\ src[i] = "run" /\ ~refusal[i] => Accepted(i) = 1 .. rows[i]
        /\ src[i] \in {"send", "wait"} => ~refusal[i] /\ rows[i] >= 1
        /\ src[i] = "send" => Accepted(i) = 1 .. rows[i] - 1
        /\ src[i] = "wait" /\ cur = i =>
              /\ caller \in {"received", "emit"} => Accepted(i) = 1 .. rows[i] - 1
              /\ caller = "ack" /\ answer = "nil" => Accepted(i) = 1 .. rows[i]
        /\ src[i] = "done" /\ ~err[i] /\ ~panicked[i] =>
              ~refusal[i] /\ Accepted(i) = 1 .. rows[i]

\* The source of the row that the caller holds waits for the answer, or has given up.
HandInv ==
    caller \in {"received", "emit", "ack"} =>
        rows[cur] >= 1 /\ (src[cur] = "wait" \/ refusal[cur])

\* The batches before the current one are over, those after it have not begun; and
\* where the caller is, it knows the consumer's answer.
CallerInv ==
    /\ \A i \in Sources : i < first => src[i] = "done" /\ ~panicked[i]
    /\ caller = "batch" => \A i \in Sources : i >= first => src[i] = "unborn"
    /\ caller \notin {"batch", "returned"} =>
          first <= NSources /\ \A i \in Sources : i > Last => src[i] = "unborn"
    /\ answer # "nil" => caller \in {"ack", "leave", "returned"}
    /\ answer = "panic" => caller \in {"leave", "returned"}
    /\ outcome = "nil" => caller = "returned"

DispatchInv == TypeOK /\ RowInv /\ HandInv /\ CallerInv /\ NilMeansComplete

-----------------------------------------------------------------------------
\* The last source of a batch is one of the sources.
LEMMA LastInRange ==
    ASSUME first \in 1 .. NSources PROVE Last \in first .. NSources
BY DispatchAssumption DEF Last

\* One more accepted row is accepted of its source, and nothing else is.
LEMMA AcceptedAppend ==
    ASSUME TypeOK, NEW r \in 1 .. MaxRows, out' = Append(out, <<cur, r>>),
           NEW i \in Sources
    PROVE  Accepted(i)' = IF i = cur THEN Accepted(i) \cup {r} ELSE Accepted(i)
<1> USE DispatchAssumption
<1>1. out \in Seq(Sources \X (1 .. MaxRows)) /\ cur \in Sources
  BY DEF TypeOK
<1>2. /\ Len(out') = Len(out) + 1
      /\ \A n \in 1 .. Len(out) : out'[n] = out[n]
      /\ out'[Len(out) + 1] = <<cur, r>>
      /\ DOMAIN out' = 1 .. Len(out) + 1 /\ DOMAIN out = 1 .. Len(out) /\ Len(out) \in Nat
  BY <1>1
<1>3. ASSUME NEW k \in 1 .. MaxRows
      PROVE  (\E n \in DOMAIN out' : out'[n] = <<i, k>>)
             <=> ((\E n \in DOMAIN out : out[n] = <<i, k>>) \/ (i = cur /\ k = r))
  <2>1. (\E n \in DOMAIN out' : out'[n] = <<i, k>>)
        <=> ((\E n \in DOMAIN out : out[n] = <<i, k>>) \/ <<cur, r>> = <<i, k>>)
    BY <1>2
  <2>2. QED
    BY <2>1
<1>4. QED
  BY <1>3 DEF Accepted

\* Where no row is accepted, the accepted rows stay.
LEMMA AcceptedSame ==
    ASSUME UNCHANGED out, NEW i \in Sources PROVE Accepted(i)' = Accepted(i)
BY DEF Accepted

-----------------------------------------------------------------------------
\* The invariant holds in the initial states.
LEMMA InitialDispatch == ASSUME Init PROVE DispatchInv
<1> USE DispatchAssumption DEF Init, Sources
<1>1. TypeOK
  <2>1. out \in Seq(Sources \X (1 .. MaxRows))
    OBVIOUS
  <2>2. src \in [Sources -> SourcePcs] /\ caller \in CallerPcs
    BY DEF SourcePcs, CallerPcs
  <2>3. rows \in [Sources -> 0 .. MaxRows]
    OBVIOUS
  <2>4. first \in 1 .. NSources + 1 /\ cur \in Sources
    OBVIOUS
  <2>5. QED
    BY <2>1, <2>2, <2>3, <2>4 DEF TypeOK
<1>2. \A i \in Sources : Accepted(i) = {}
  BY DEF Accepted
<1>3. RowInv
  BY <1>2 DEF RowInv
<1>4. HandInv /\ CallerInv /\ NilMeansComplete
  BY DEF HandInv, CallerInv, NilMeansComplete
<1>5. QED
  BY <1>1, <1>3, <1>4 DEF DispatchInv

\* A step of a source's goroutine keeps the invariant.
LEMMA SourceKeeps ==
    ASSUME DispatchInv, NEW i \in Sources, SourceNext(i) PROVE DispatchInv'
<1> USE DispatchAssumption DEF DispatchInv, SourceStep, To
<1>1. \A j \in Sources : Accepted(j)' = Accepted(j)
  <2>1. UNCHANGED out
    BY DEF SourceNext, SourceReturns, Begin, Produce, Abandon, Panic, Finish
  <2>2. QED
    BY <2>1, AcceptedSame
<1>2. outcome # "nil"
  BY DEF NilMeansComplete, SourceNext, SourceReturns, Begin, Produce, Abandon, Panic, Finish
<1>3. CASE Begin(i)
  <2>1. TypeOK'
    BY <1>3 DEF Begin, TypeOK, SourcePcs
  <2>2. RowInv'
    <3>1. 1 .. 0 = {}
      OBVIOUS
    <3>2. QED
      BY <1>1, <1>3, <3>1 DEF Begin, TypeOK, RowInv
  <2>3. HandInv'
    BY <1>3 DEF Begin, TypeOK, HandInv, RowInv
  <2>4. CallerInv' /\ NilMeansComplete'
    BY <1>2, <1>3 DEF Begin, TypeOK, CallerInv, NilMeansComplete, Last, Batch
  <2>5. QED
    BY <2>1, <2>2, <2>3, <2>4
<1>4. CASE Produce(i)
  <2>1. TypeOK'
    BY <1>4 DEF Produce, TypeOK, SourcePcs
  <2>2. RowInv'
    BY <1>1, <1>4 DEF Produce, TypeOK, RowInv
  <2>3. HandInv'
    BY <1>4 DEF Produce, TypeOK, HandInv, RowInv
  <2>4. CallerInv' /\ NilMeansComplete'
    BY <1>2, <1>4 DEF Produce, TypeOK, CallerInv, NilMeansComplete, Last, Batch
  <2>5. QED
    BY <2>1, <2>2, <2>3, <2>4
<1>5. CASE Abandon(i)
  <2>1. TypeOK'
    BY <1>5 DEF Abandon, TypeOK, SourcePcs
  <2>2. RowInv'
    BY <1>1, <1>5 DEF Abandon, TypeOK, RowInv
  <2>3. HandInv'
    BY <1>5 DEF Abandon, TypeOK, HandInv, RowInv
  <2>4. CallerInv' /\ NilMeansComplete'
    BY <1>2, <1>5 DEF Abandon, TypeOK, CallerInv, NilMeansComplete, Last, Batch
  <2>5. QED
    BY <2>1, <2>2, <2>3, <2>4
<1>6. CASE Panic(i)
  <2>1. TypeOK'
    BY <1>6 DEF Panic, TypeOK, SourcePcs
  <2>2. RowInv'
    BY <1>1, <1>6 DEF Panic, TypeOK, RowInv
  <2>3. HandInv'
    BY <1>6 DEF Panic, TypeOK, HandInv, RowInv
  <2>4. CallerInv' /\ NilMeansComplete'
    BY <1>2, <1>6 DEF Panic, TypeOK, CallerInv, NilMeansComplete, Last, Batch
  <2>5. QED
    BY <2>1, <2>2, <2>3, <2>4
<1>7. ASSUME NEW failed \in BOOLEAN, Finish(i, failed) PROVE DispatchInv'
  <2>1. TypeOK'
    BY <1>7 DEF Finish, TypeOK, SourcePcs
  <2>2. RowInv'
    BY <1>1, <1>7 DEF Finish, TypeOK, RowInv
  <2>3. HandInv'
    BY <1>7 DEF Finish, TypeOK, HandInv, RowInv
  <2>4. CallerInv' /\ NilMeansComplete'
    BY <1>2, <1>7 DEF Finish, TypeOK, CallerInv, NilMeansComplete, Last, Batch
  <2>5. QED
    BY <2>1, <2>2, <2>3, <2>4
<1>8. QED
  BY <1>3, <1>4, <1>5, <1>6, <1>7 DEF SourceNext, SourceReturns

\* The caller begins a batch, or ends the search.
LEMMA BatchKeeps == ASSUME DispatchInv, StartBatch \/ EndSearch PROVE DispatchInv'
<1> USE DispatchAssumption DEF DispatchInv
<1>1. \A j \in Sources : Accepted(j)' = Accepted(j)
  BY AcceptedSame DEF StartBatch, EndSearch
<1>2. CASE StartBatch
  <2>1. first \in 1 .. NSources /\ Last \in first .. NSources /\ Last' = Last
    BY <1>2, LastInRange DEF StartBatch, TypeOK, Last
  <2>2. TypeOK'
    BY <1>2, <2>1 DEF StartBatch, TypeOK, SourcePcs, CallerPcs, Sources
  <2>3. RowInv'
    BY <1>1, <1>2, <2>1 DEF StartBatch, TypeOK, RowInv, CallerInv, Batch, Sources
  <2>4. HandInv'
    BY <1>2 DEF StartBatch, HandInv
  <2>5. CallerInv'
    BY <1>2, <2>1 DEF StartBatch, TypeOK, CallerInv, Batch, Sources
  <2>6. NilMeansComplete'
    BY <1>2 DEF StartBatch, CallerInv, NilMeansComplete
  <2>7. QED
    BY <2>2, <2>3, <2>4, <2>5, <2>6
<1>3. CASE EndSearch
  <2>1. TypeOK'
    BY <1>3 DEF EndSearch, streams, TypeOK, CallerPcs
  <2>2. RowInv'
    BY <1>1, <1>3 DEF EndSearch, streams, RowInv
  <2>3. HandInv' /\ CallerInv'
    BY <1>3 DEF EndSearch, streams, HandInv, CallerInv
  <2>4. NilMeansComplete'
    <3>1. SUFFICES ASSUME outcome' = "nil", NEW i \in Sources
                   PROVE  src[i] = "done" /\ ~err[i] /\ ~panicked[i] /\ Accepted(i) = 1 .. rows[i]
      BY <1>1, <1>3 DEF NilMeansComplete, EndSearch, streams
    <3>2. ~parent /\ ~err[i] /\ first > NSources
      BY <1>3, <3>1 DEF EndSearch
    <3>3. src[i] = "done" /\ ~panicked[i]
      BY <3>2 DEF CallerInv, TypeOK, Sources
    <3>4. QED
      BY <3>2, <3>3 DEF RowInv
  <2>5. QED
    BY <2>1, <2>2, <2>3, <2>4
<1>4. QED
  BY <1>2, <1>3

\* The consumer's answer to a row.
LEMMA EmitKeeps ==
    ASSUME DispatchInv, NEW a \in {"nil", "error", "panic"}, Emit(a) PROVE DispatchInv'
<1> USE DispatchAssumption DEF DispatchInv, CallerStep
<1>1. cur \in Sources /\ rows[cur] \in 1 .. MaxRows
  BY DEF Emit, HandInv, TypeOK
<1>2. TypeOK'
  <2>1. out' \in Seq(Sources \X (1 .. MaxRows))
    <3>1. <<cur, rows[cur]>> \in Sources \X (1 .. MaxRows)
      BY <1>1
    <3>2. out \in Seq(Sources \X (1 .. MaxRows))
      BY DEF TypeOK
    <3>3. Append(out, <<cur, rows[cur]>>) \in Seq(Sources \X (1 .. MaxRows))
      <4> DEFINE R == Sources \X (1 .. MaxRows)
      <4>1. \A q \in Seq(R), e \in R : Append(q, e) \in Seq(R)
        <5> HIDE DEF R
        <5> QED
          OBVIOUS
      <4>2. QED
        BY <3>1, <3>2, <4>1
    <3>4. QED
      BY <3>2, <3>3 DEF Emit
  <2>2. QED
    BY <2>1 DEF Emit, TypeOK, CallerPcs
<1>3. ASSUME NEW i \in Sources
      PROVE  Accepted(i)' = IF i = cur /\ a = "nil" THEN Accepted(i) \cup {rows[cur]} ELSE Accepted(i)
  BY <1>1, AcceptedAppend, AcceptedSame DEF Emit
<1>4. RowInv'
  <2>1. SUFFICES ASSUME NEW i \in Sources PROVE RowInv!(i)'
    BY DEF RowInv
  <2>2. CASE i # cur \/ a # "nil"
    BY <1>3, <2>2 DEF Emit, RowInv
  <2>3. CASE i = cur /\ a = "nil" /\ src[i] = "wait"
    <3>1. Accepted(i) = 1 .. rows[i] - 1 /\ rows[i] \in 1 .. MaxRows
      BY <1>1, <2>3 DEF Emit, RowInv
    <3>2. Accepted(i)' = 1 .. rows[i]
      <4>1. \A n \in Nat \ {0} : (1 .. n - 1) \cup {n} = 1 .. n
        OBVIOUS
      <4>2. rows[i] \in Nat \ {0}
        BY <3>1
      <4>3. Accepted(i)' = Accepted(i) \cup {rows[i]}
        BY <1>3, <2>3
      <4>4. QED
        BY <3>1, <4>1, <4>2, <4>3
    <3>3. QED
      BY <2>3, <3>2 DEF Emit, RowInv
  <2>4. CASE i = cur /\ a = "nil" /\ src[i] # "wait"
    BY <2>4 DEF Emit, RowInv, HandInv
  <2>5. QED
    BY <2>2, <2>3, <2>4
<1>5. HandInv'
  BY DEF Emit, HandInv
<1>6. CallerInv'
  BY DEF Emit, CallerInv, Last
<1>7. NilMeansComplete'
  BY DEF Emit, CallerInv, NilMeansComplete
<1>8. QED
  BY <1>2, <1>4, <1>5, <1>6, <1>7

\* The steps of the caller within a batch that accept no row.
Draining ==
    Receive \/ Closed \/ GiveUp \/ CallEmit \/ Acknowledge \/ AckAbandoned \/ Leave

LEMMA DrainingKeeps == ASSUME DispatchInv, Draining PROVE DispatchInv'
<1> USE DispatchAssumption DEF DispatchInv, CallerStep, To, AfterAck
<1>1. UNCHANGED <<out, outcome, answer, first, rows, err, panicked>> /\ caller # "returned" /\ caller # "batch"
  BY DEF Draining, Receive, Closed, GiveUp, CallEmit, Acknowledge, AckAbandoned, Leave
<1>2. \A j \in Sources : Accepted(j)' = Accepted(j)
  BY <1>1, AcceptedSame
<1>3. first \in 1 .. NSources /\ Last \in first .. NSources /\ Last' = Last
  BY <1>1, LastInRange DEF CallerInv, TypeOK, Last
<1>4. TypeOK'
  <2>1. caller' \in CallerPcs /\ cancelled' \in BOOLEAN /\ parent' \in BOOLEAN
    BY DEF Draining, Receive, Closed, GiveUp, CallEmit, Acknowledge, AckAbandoned, Leave,
           TypeOK, CallerPcs
  <2>2. cur' \in Sources
    BY <1>3 DEF Draining, Receive, Closed, GiveUp, CallEmit, Acknowledge, AckAbandoned, Leave,
                TypeOK, Sources
  <2>3. src' \in [Sources -> SourcePcs] /\ refusal' \in [Sources -> BOOLEAN]
    BY DEF Draining, Receive, Closed, GiveUp, CallEmit, Acknowledge, AckAbandoned, Leave,
           TypeOK, SourcePcs
  <2>4. QED
    BY <1>1, <2>1, <2>2, <2>3 DEF TypeOK
<1>5. RowInv'
  <2>1. CASE Receive
    BY <1>1, <1>2, <2>1 DEF Receive, TypeOK, RowInv
  <2>2. CASE Acknowledge
    BY <1>1, <1>2, <2>2 DEF Acknowledge, TypeOK, RowInv, CallerInv
  <2>3. CASE CallEmit
    BY <1>1, <1>2, <2>3 DEF CallEmit, RowInv
  <2>4. CASE Closed \/ GiveUp \/ AckAbandoned \/ Leave
    BY <1>1, <1>2, <2>4 DEF Closed, GiveUp, AckAbandoned, Leave, RowInv
  <2>5. QED
    BY <2>1, <2>2, <2>3, <2>4 DEF Draining
<1>6. HandInv'
  BY <1>1 DEF Draining, Receive, Closed, GiveUp, CallEmit, Acknowledge, AckAbandoned, Leave,
        TypeOK, HandInv, RowInv
<1>7. CallerInv'
  BY <1>1, <1>3 DEF Draining, Receive, Closed, GiveUp, CallEmit, Acknowledge, AckAbandoned, Leave,
        TypeOK, CallerInv
<1>8. NilMeansComplete'
  BY <1>1 DEF CallerInv, NilMeansComplete
<1>9. QED
  BY <1>4, <1>5, <1>6, <1>7, <1>8

\* The caller has joined the sources of its batch.
LEMMA JoinKeeps == ASSUME DispatchInv, Join PROVE DispatchInv'
<1> USE DispatchAssumption DEF DispatchInv, streams
<1>1. first \in 1 .. NSources /\ Last \in first .. NSources
  BY LastInRange DEF Join, CallerInv, TypeOK
<1>2. \A j \in Sources : Accepted(j)' = Accepted(j)
  BY AcceptedSame DEF Join
<1>3. TypeOK'
  BY <1>1 DEF Join, TypeOK, CallerPcs
<1>4. RowInv'
  BY <1>2 DEF Join, RowInv
<1>5. HandInv'
  BY DEF Join, HandInv
<1>6. CallerInv'
  <2>1. \A i \in Sources : i < first' => src[i] = "done" /\ ~panicked[i]
    BY <1>1 DEF Join, CallerInv, TypeOK, Batch, Sources
  <2>2. QED
    BY <1>1, <2>1 DEF Join, CallerInv, TypeOK, Sources
<1>7. NilMeansComplete'
  BY DEF Join, CallerInv, NilMeansComplete
<1>8. QED
  BY <1>3, <1>4, <1>5, <1>6, <1>7

\* Nothing else changes what the invariant speaks of.
LEMMA ElseKeeps == ASSUME DispatchInv, CancelParent \/ UNCHANGED vars PROVE DispatchInv'
<1> USE DEF DispatchInv, CancelParent, vars, streams
<1>1. \A j \in Sources : Accepted(j)' = Accepted(j)
  BY AcceptedSame
<1>2. TypeOK'
  BY DEF TypeOK
<1>3. RowInv'
  BY <1>1 DEF RowInv
<1>4. HandInv' /\ CallerInv'
  BY DEF HandInv, CallerInv, Last
<1>5. NilMeansComplete'
  BY <1>1 DEF NilMeansComplete
<1>6. QED
  BY <1>2, <1>3, <1>4, <1>5

LEMMA DispatchInvHolds == Spec => []DispatchInv
<1>1. Init => DispatchInv
  BY InitialDispatch
<1>2. DispatchInv /\ [Next]_vars => DispatchInv'
  BY SourceKeeps, BatchKeeps, EmitKeeps, DrainingKeeps, JoinKeeps, ElseKeeps
     DEF Next, CallerNext, Draining, Returned
<1>3. QED
  BY <1>1, <1>2, PTL DEF Spec

\* Type correctness of the parallel search: its batches stay within the sources, its
\* rows within their numbers.
THEOREM DispatchTypeCorrect == Spec => []TypeOK
BY DispatchInvHolds, PTL DEF DispatchInv

\* A source whose Emit has not failed has had every row of its own accepted by the
\* consumer, however its acknowledgements race with cancellation.
THEOREM EmitIsAcceptance == Spec => []EmitMeansAccepted
<1>1. DispatchInv => EmitMeansAccepted
  BY DEF DispatchInv, RowInv, EmitMeansAccepted
<1>2. QED
  BY <1>1, DispatchInvHolds, PTL

\* A search that returns nil ran every source to its end and had every row accepted.
THEOREM NilIsComplete == Spec => []NilMeansComplete
BY DispatchInvHolds, PTL DEF DispatchInv

-----------------------------------------------------------------------------
(* The search implements one that runs a source at a time *)

\* No row of a later source is accepted than of the one being drained; that one is of the
\* current batch; the abstract search runs exactly while the consumer has refused nothing;
\* and the row the caller holds is the next of its source, which may have given up on it.
OrderInv ==
    /\ \A n \in DOMAIN out : out[n][1] <= cur
    /\ caller = "batch" => cur <= first
    /\ caller \notin {"batch", "returned"} => cur \in Batch
    /\ caller # "returned" => outcome = IF answer = "nil" THEN "running" ELSE "refused"
    /\ caller \in {"received", "emit"} => Accepted(cur) = 1 .. rows[cur] - 1

\* Nothing accepted, no change of hands: the order stays.
LEMMA OrderSame ==
    ASSUME TypeOK, OrderInv, UNCHANGED <<first, cur, answer, out, outcome>>,
           \/ caller' = caller
           \/ caller \in {"drain", "received", "ack"} /\ caller' \in {"drain", "leave"}
           \/ caller = "received" /\ caller' = "emit",
           caller' \in {"received", "emit"} => rows'[cur] = rows[cur]
    PROVE  OrderInv'
<1>1. Accepted(cur)' = Accepted(cur)
  BY AcceptedSame DEF TypeOK
<1>2. Batch' = Batch
  BY DEF Batch, Last
<1> QED BY <1>1, <1>2 DEF OrderInv

\* A source's goroutine does not disturb the order: the one that the caller holds a row
\* of cannot produce another.
LEMMA OrderOfSource ==
    ASSUME DispatchInv, OrderInv, NEW i \in Sources, SourceNext(i) PROVE OrderInv'
<1> USE DEF SourceNext, SourceReturns, SourceStep, Begin, Produce, Abandon, Panic, Finish
<1>1. UNCHANGED <<first, cur, answer, out, outcome, caller>>
  OBVIOUS
<1>2. caller \in {"received", "emit"} => rows'[cur] = rows[cur]
  <2>1. CASE Produce(i)
    <3>1. caller \in {"received", "emit"} => cur # i
      BY <2>1 DEF DispatchInv, HandInv
    <3> QED BY <2>1, <3>1 DEF DispatchInv, TypeOK
  <2>2. CASE ~Produce(i)
    BY <2>2
  <2> QED BY <2>1, <2>2
<1> QED BY <1>1, <1>2, OrderSame DEF DispatchInv

\* Nor does the caller, from batch to batch and from source to source.
LEMMA OrderOfCaller ==
    ASSUME DispatchInv, OrderInv, CallerNext, \A a \in {"nil", "error", "panic"} : ~Emit(a)
    PROVE  OrderInv'
<1> USE DispatchAssumption DEF CallerStep, streams
<1>1. TypeOK /\ cur \in Nat /\ first \in Nat
  BY DEF DispatchInv, TypeOK, Sources
<1>2. \A n \in DOMAIN out : out[n][1] \in Nat
  BY <1>1 DEF TypeOK, Sources
<1>3. CASE StartBatch
  <2>1. /\ caller = "batch" /\ cur' = first /\ caller' = "drain" /\ first <= NSources
        /\ UNCHANGED <<first, answer, out, outcome>>
    BY <1>3 DEF StartBatch
  <2>2. cur' \in Batch'
    BY <2>1, LastInRange, <1>1 DEF TypeOK, Batch, Last
  <2>3. \A n \in DOMAIN out' : out'[n][1] <= cur'
    BY <1>1, <1>2, <2>1 DEF OrderInv
  <2> QED BY <2>1, <2>2, <2>3 DEF OrderInv
<1>4. CASE EndSearch
  BY <1>4 DEF EndSearch, OrderInv
<1>5. CASE Receive
  <2>1. /\ caller' = "received" /\ caller = "drain" /\ src[cur] = "send"
        /\ UNCHANGED <<first, cur, answer, out, outcome, rows>>
    BY <1>5 DEF Receive
  <2>2. Accepted(cur)' = 1 .. rows[cur] - 1
    BY <1>1, <2>1, AcceptedSame DEF DispatchInv, RowInv, TypeOK
  <2>3. Batch' = Batch
    BY <2>1 DEF Batch, Last
  <2> QED BY <2>1, <2>2, <2>3 DEF OrderInv
<1>6. CASE Closed
  <2>1. /\ caller = "drain" /\ UNCHANGED <<first, answer, out, outcome>>
        /\ \/ cur < Last /\ cur' = cur + 1 /\ caller' = "drain"
           \/ caller' = "leave" /\ cur' = cur
    BY <1>6 DEF Closed
  <2>2. cur \in first .. Last /\ Last \in Nat /\ Last' = Last
    <3>1. first \in 1 .. NSources
      BY <1>1, <2>1 DEF DispatchInv, CallerInv, TypeOK
    <3>2. Last \in Nat
      BY <3>1, LastInRange
    <3> QED BY <2>1, <3>2 DEF OrderInv, Batch, Last
  <2>3. cur' \in Batch' /\ cur <= cur' /\ cur' \in Nat
    BY <1>1, <2>1, <2>2 DEF Batch
  <2>4. \A n \in DOMAIN out' : out'[n][1] <= cur'
    BY <1>1, <1>2, <2>1, <2>3 DEF OrderInv
  <2> QED BY <2>1, <2>3, <2>4 DEF OrderInv
<1>7. CASE GiveUp \/ CallEmit \/ Acknowledge \/ AckAbandoned
  <2>1. /\ UNCHANGED <<first, cur, answer, out, outcome, rows>>
        /\ \/ caller \in {"drain", "received", "ack"} /\ caller' \in {"drain", "leave"}
           \/ caller = "received" /\ caller' = "emit"
    BY <1>7 DEF GiveUp, CallEmit, Acknowledge, AckAbandoned, AfterAck
  <2> QED BY <1>1, <2>1, OrderSame
<1>8. CASE Leave
  BY <1>1, <1>8, OrderSame DEF Leave
<1>9. CASE Join
  <2>1. CASE caller' = "returned"
    BY <1>9, <2>1 DEF Join, OrderInv
  <2>2. CASE caller' # "returned"
    <3>1. /\ caller' = "batch" /\ first' = Last + 1 /\ answer = "nil" /\ caller = "leave"
          /\ UNCHANGED <<cur, answer, out, outcome>>
      BY <1>9, <2>2 DEF Join, DispatchInv, TypeOK
    <3>2. first \in 1 .. NSources
      BY <1>1, <3>1 DEF DispatchInv, CallerInv, TypeOK
    <3>3. cur <= first'
      BY <3>1, <3>2, LastInRange DEF OrderInv, Batch
    <3> QED BY <3>1, <3>3 DEF OrderInv
  <2> QED BY <2>1, <2>2
<1> QED BY <1>3, <1>4, <1>5, <1>6, <1>7, <1>8, <1>9 DEF CallerNext

\* The abstract search counts the rows of a source as they are accepted.
LEMMA GivenCounts ==
    ASSUME TypeOK, NEW i \in Sources, NEW n \in Nat, Accepted(i) = 1 .. n
    PROVE  Abstract!Cardinality(Abstract!Given(i)) = n
<1>1. \A m \in DOMAIN out : /\ out[m] \in Sources \X (1 .. MaxRows)
                            /\ out[m] = <<out[m][1], out[m][2]>>
  BY DEF TypeOK
<1>2. ASSUME NEW k PROVE k \in Abstract!Given(i) <=> k \in Accepted(i)
  <2>1. k \in Abstract!Given(i) <=> \E m \in DOMAIN out : out[m][1] = i /\ k = out[m][2]
    BY DEF Abstract!Given
  <2>2. k \in Accepted(i) <=> k \in 1 .. MaxRows /\ \E m \in DOMAIN out : out[m] = <<i, k>>
    BY DEF Accepted
  <2> QED BY <1>1, <2>1, <2>2
<1>3. Abstract!Given(i) = 1 .. n
  BY <1>2
<1>4. Cardinality(1 .. n) = IF 1 > n THEN 0 ELSE n - 1 + 1
  BY FS_Interval
<1>5. \A S : Abstract!Cardinality(S) = Cardinality(S)
  BY DEF Abstract!Cardinality, Cardinality
<1> QED BY <1>3, <1>4, <1>5

\* A sequence grows at its end.
LEMMA AppendedOnly ==
    ASSUME NEW T, NEW q \in Seq(T), NEW e
    PROVE  \A n \in DOMAIN Append(q, e) :
              Append(q, e)[n] = e \/ (n \in DOMAIN q /\ Append(q, e)[n] = q[n])
  OBVIOUS

\* The consumer's answer: the order is kept, and the abstract search does the same.
LEMMA EmitImplements ==
    ASSUME DispatchInv, OrderInv, NEW a \in {"nil", "error", "panic"}, Emit(a)
    PROVE  OrderInv' /\ Abstract!ANext
<1> USE DispatchAssumption DEF CallerStep
<1>1. /\ caller = "emit" /\ answer' = a /\ caller' \in {"leave", "ack"}
      /\ UNCHANGED <<first, cur, rows>>
      /\ out' = (IF a = "nil" THEN Append(out, <<cur, rows[cur]>>) ELSE out)
      /\ outcome' = (IF a = "nil" THEN outcome ELSE "refused")
  BY DEF Emit
<1>2. /\ TypeOK /\ cur \in Sources /\ cur \in Nat /\ rows[cur] \in Nat /\ rows[cur] >= 1
      /\ answer = "nil"
  BY <1>1 DEF DispatchInv, TypeOK, HandInv, CallerInv, Sources
<1>3. outcome = "running" /\ cur \in Batch /\ Accepted(cur) = 1 .. rows[cur] - 1
      /\ \A n \in DOMAIN out : out[n][1] <= cur
  BY <1>1, <1>2 DEF OrderInv
<1>4. \A n \in DOMAIN out' : out'[n][1] <= cur
  <2>1. out \in Seq(Sources \X (1 .. MaxRows))
    BY <1>2 DEF TypeOK
  <2>2. \A n \in DOMAIN Append(out, <<cur, rows[cur]>>) :
          \/ Append(out, <<cur, rows[cur]>>)[n] = <<cur, rows[cur]>>
          \/ n \in DOMAIN out /\ Append(out, <<cur, rows[cur]>>)[n] = out[n]
    BY <2>1, AppendedOnly
  <2> QED BY <1>1, <1>2, <1>3, <2>2
<1>5. OrderInv'
  <2>1. Batch' = Batch
    BY <1>1 DEF Batch, Last
  <2>2. outcome' = IF answer' = "nil" THEN "running" ELSE "refused"
    BY <1>1, <1>3
  <2> QED BY <1>1, <1>3, <1>4, <2>1, <2>2 DEF OrderInv
<1>6. CASE a = "nil"
  <2>1. Abstract!Cardinality(Abstract!Given(cur)) = rows[cur] - 1
    <3>1. rows[cur] - 1 \in Nat
      BY <1>2
    <3> QED BY <1>2, <1>3, <3>1, GivenCounts
  <2>2. out' = Append(out, <<cur, 1 + Abstract!Cardinality(Abstract!Given(cur))>>)
    <3>1. 1 + (rows[cur] - 1) = rows[cur]
      BY <1>2
    <3> QED BY <1>1, <1>6, <2>1, <3>1
  <2>3. outcome = "running" /\ UNCHANGED outcome
    BY <1>1, <1>3, <1>6
  <2>4. Abstract!Accept(cur)
    BY <1>3, <2>2, <2>3 DEF Abstract!Accept
  <2> QED BY <1>2, <1>5, <2>4 DEF Abstract!ANext, Sources
<1>7. CASE a # "nil"
  BY <1>1, <1>3, <1>5, <1>7 DEF Abstract!ANext, Abstract!Refuse
<1> QED BY <1>5, <1>6, <1>7

\* Every step keeps the order and is a step of the abstract search, or none.
LEMMA StepImplements ==
    ASSUME DispatchInv, OrderInv, [Next]_vars
    PROVE  OrderInv' /\ [Abstract!ANext]_(Abstract!avars)
<1> USE DEF Abstract!avars
<1>1. CASE \E i \in Sources : SourceNext(i)
  BY <1>1, OrderOfSource DEF SourceNext, SourceReturns, SourceStep, Begin, Produce, Abandon,
     Panic, Finish
<1>2. CASE CancelParent \/ UNCHANGED vars
  BY <1>2, OrderSame DEF CancelParent, vars, streams, DispatchInv
<1>3. CASE \E a \in {"nil", "error", "panic"} : Emit(a)
  BY <1>3, EmitImplements
<1>4. CASE CallerNext /\ \A a \in {"nil", "error", "panic"} : ~Emit(a)
  <2>1. OrderInv'
    BY <1>4, OrderOfCaller
  <2>2. CASE EndSearch
    <3>1. outcome = "running" /\ outcome' \in {"nil", "failed"} /\ out' = out
      BY <2>2 DEF EndSearch, OrderInv, DispatchInv, CallerInv
    <3> QED BY <2>1, <3>1 DEF Abstract!ANext, Abstract!Return
  <2>3. CASE Join
    <3>1. out' = out /\ outcome = IF answer = "nil" THEN "running" ELSE "refused"
      BY <2>3 DEF Join, OrderInv
    <3>2. \/ outcome' = outcome
          \/ outcome' = "panic"
          \/ outcome' = "consumer" /\ answer = "error"
      BY <2>3 DEF Join
    <3> QED BY <2>1, <3>1, <3>2 DEF Abstract!ANext, Abstract!Return
  <2>4. CASE ~EndSearch /\ ~Join
    BY <1>4, <2>1, <2>4 DEF CallerNext, CallerStep, StartBatch, Receive, Closed, GiveUp,
       CallEmit, Acknowledge, AckAbandoned, Leave
  <2> QED BY <2>2, <2>3, <2>4
<1> QED BY <1>1, <1>2, <1>3, <1>4 DEF Next, Returned, CallerNext

\* To its consumer the parallel search is one that runs a source at a time, in registry
\* order: each row once, none after a refusal, and the refusal or a panic is what it
\* returns (searchParallel, searchBatch).
THEOREM DispatchImplements == Spec => ImplementsAbstract
<1>1. Init => OrderInv /\ Abstract!AInit
  <2>1. Init => out = <<>> /\ cur = 1 /\ first = 1 /\ caller = "batch" /\ answer = "nil"
                /\ outcome = "running"
    BY DEF Init
  <2> QED BY <2>1 DEF OrderInv, Abstract!AInit
<1>2. DispatchInv /\ OrderInv /\ [Next]_vars =>
        OrderInv' /\ [Abstract!ANext]_(Abstract!avars)
  BY StepImplements
<1> QED BY <1>1, <1>2, DispatchInvHolds, PTL DEF Spec, ImplementsAbstract, Abstract!ASpec
=============================================================================
