--------------------------- MODULE SourceDispatch ---------------------------
(***************************************************************************)
(* The parallel search of internal/sources (orchestration.go,              *)
(* searchParallel and searchBatch): sources run in batches, one goroutine  *)
(* each, and hand every row over an unbuffered channel to the goroutine    *)
(* that called Search, which alone calls the consumer and acknowledges the *)
(* row over a second unbuffered channel.  The batch's context is cancelled *)
(* by the caller, by a panicking source, and when the batch is left.       *)
(***************************************************************************)
EXTENDS Integers, Sequences, FiniteSets

CONSTANTS
    NSources,   \* sources that support the target, numbered in registry order
    BatchSize,  \* maxParallelSources
    MaxRows     \* bound: rows a source produces

ASSUME DispatchAssumption ==
    /\ NSources \in Nat /\ NSources > 1 /\ BatchSize \in Nat \ {0} /\ MaxRows \in Nat

Sources == 1 .. NSources
SourcePcs == {"unborn", "check", "run", "send", "wait", "done"}
CallerPcs == {"batch", "drain", "received", "emit", "ack", "leave", "returned"}

VARIABLES
    parent,     \* the caller's context is done
    cancelled,  \* the batch's cancel function has been called
    first,      \* first source of the current batch
    src,        \* [Sources -> SourcePcs]
    rows,       \* [Sources -> Nat]: rows the source passed to its Emit
    refusal,    \* [Sources -> BOOLEAN]: its Emit has failed (sticky in invoke)
    err,        \* [Sources -> BOOLEAN]: stream.err is set
    panicked,   \* [Sources -> BOOLEAN]: stream.panicked
    caller,     \* CallerPcs
    cur,        \* the stream being drained
    answer,     \* what the consumer said of the row: "nil", "error" or "panic"
    out,        \* rows the consumer accepted: <<source, number>>
    outcome     \* "running", "refused", then how the search ended

streams == <<src, rows, refusal, err, panicked>>
vars == <<parent, cancelled, first, streams, caller, cur, answer, out, outcome>>

Done == parent \/ cancelled

\* Faulty variant: the last batch is taken to be full.
LastUnclipped == first + BatchSize - 1

\* The last source of the batch: min(first + maxParallelSources, len(selected)).
Last == IF first + BatchSize - 1 < NSources THEN first + BatchSize - 1 ELSE NSources
Batch == first .. Last

Init ==
    /\ parent = FALSE /\ cancelled = FALSE /\ first = 1
    /\ src = [i \in Sources |-> "unborn"] /\ rows = [i \in Sources |-> 0]
    /\ refusal = [i \in Sources |-> FALSE] /\ err = [i \in Sources |-> FALSE]
    /\ panicked = [i \in Sources |-> FALSE]
    /\ caller = "batch" /\ cur = 1 /\ answer = "nil"
    /\ out = <<>> /\ outcome = "running"

-----------------------------------------------------------------------------
(* A source's goroutine *)

To(i, pc) == src' = [src EXCEPT ![i] = pc]
SourceStep == UNCHANGED <<parent, first, caller, cur, answer, out, outcome>>

\* The goroutine looks at the context before it calls the source.
Begin(i) ==
    /\ src[i] = "check" /\ SourceStep
    /\ IF Done
       THEN To(i, "done") /\ err' = [err EXCEPT ![i] = TRUE]
       ELSE To(i, "run") /\ UNCHANGED err
    /\ UNCHANGED <<cancelled, rows, refusal, panicked>>

\* The source passes a row to Emit; after a refusal Emit fails at once.
Produce(i) ==
    /\ src[i] = "run" /\ ~refusal[i] /\ rows[i] < MaxRows
    /\ To(i, "send") /\ rows' = [rows EXCEPT ![i] = @ + 1]
    /\ SourceStep /\ UNCHANGED <<cancelled, refusal, err, panicked>>

\* The source returns: its own error, or the one Emit gave it.
Finish(i, failed) ==
    /\ src[i] = "run"
    /\ To(i, "done") /\ err' = [err EXCEPT ![i] = failed \/ refusal[i]]
    /\ SourceStep /\ UNCHANGED <<cancelled, rows, refusal, panicked>>

\* The source panics: the batch is cancelled and the channel closed.
Panic(i) ==
    /\ src[i] = "run"
    /\ To(i, "done") /\ panicked' = [panicked EXCEPT ![i] = TRUE] /\ cancelled' = TRUE
    /\ SourceStep /\ UNCHANGED <<rows, refusal, err>>

\* Faulty variant: a source only gives up on a row before it was handed over.
AbandonUnsent(i) ==
    /\ src[i] = "send" /\ Done
    /\ To(i, "run") /\ refusal' = [refusal EXCEPT ![i] = TRUE]
    /\ SourceStep /\ UNCHANGED <<cancelled, rows, err, panicked>>

\* Emit returns the context's error, before or after the row was handed over.
Abandon(i) ==
    /\ src[i] \in {"send", "wait"} /\ Done
    /\ To(i, "run") /\ refusal' = [refusal EXCEPT ![i] = TRUE]
    /\ SourceStep /\ UNCHANGED <<cancelled, rows, err, panicked>>

-----------------------------------------------------------------------------
(* The goroutine that called Search *)

\* searchParallel: the next batch, or the end when there is none or the caller's
\* context is done (which is then one more failure).
StartBatch ==
    /\ caller = "batch" /\ first <= NSources /\ ~parent
    /\ src' = [i \in Sources |-> IF i \in Batch THEN "check" ELSE src[i]]
    /\ cancelled' = FALSE /\ cur' = first /\ caller' = "drain"
    /\ UNCHANGED <<parent, first, rows, refusal, err, panicked, answer, out, outcome>>

\* Faulty variant: a cancelled search that stopped early reports success.
EndSearchIgnoresContext ==
    /\ caller = "batch" /\ (first > NSources \/ parent)
    /\ caller' = "returned"
    /\ outcome' = IF \E i \in Sources : err[i] THEN "failed" ELSE "nil"
    /\ UNCHANGED <<parent, cancelled, first, streams, cur, answer, out>>

EndSearch ==
    /\ caller = "batch" /\ (first > NSources \/ parent)
    /\ caller' = "returned"
    /\ outcome' = IF parent \/ \E i \in Sources : err[i] THEN "failed" ELSE "nil"
    /\ UNCHANGED <<parent, cancelled, first, streams, cur, answer, out>>

CallerStep == UNCHANGED <<parent, first, rows, err, panicked>>

\* Faulty variant: rows are taken from whichever source has one.
ReceiveAny ==
    /\ caller = "drain"
    /\ \E i \in Batch : src[i] = "send" /\ To(i, "wait") /\ cur' = i
    /\ caller' = "received" /\ CallerStep
    /\ UNCHANGED <<cancelled, refusal, answer, out, outcome>>

\* Faulty variant: handing the row over is taken for its acceptance.
ReceiveAsAccepted ==
    /\ caller = "drain" /\ src[cur] = "send"
    /\ To(cur, "run") /\ caller' = "received"
    /\ CallerStep /\ UNCHANGED <<cancelled, refusal, cur, answer, out, outcome>>

\* A row changes hands: both ends were ready.
Receive ==
    /\ caller = "drain" /\ src[cur] = "send"
    /\ To(cur, "wait") /\ caller' = "received"
    /\ CallerStep /\ UNCHANGED <<cancelled, refusal, cur, answer, out, outcome>>

\* The stream is closed: the next one, or the batch is drained.
Closed ==
    /\ caller = "drain" /\ src[cur] = "done"
    /\ IF cur < Last THEN cur' = cur + 1 /\ UNCHANGED caller
                     ELSE caller' = "leave" /\ UNCHANGED cur
    /\ CallerStep /\ UNCHANGED <<cancelled, src, refusal, answer, out, outcome>>

\* The context is done, seen while waiting or after a row was received.
GiveUp ==
    /\ caller \in {"drain", "received"} /\ Done
    /\ caller' = "leave"
    /\ CallerStep /\ UNCHANGED <<cancelled, src, refusal, cur, answer, out, outcome>>

CallEmit ==
    /\ caller = "received" /\ ~Done
    /\ caller' = "emit"
    /\ CallerStep /\ UNCHANGED <<cancelled, src, refusal, cur, answer, out, outcome>>

\* The consumer accepts the row, refuses it, or panics.
Emit(a) ==
    /\ caller = "emit" /\ answer' = a
    /\ IF a = "nil" THEN out' = Append(out, <<cur, rows[cur]>>) ELSE UNCHANGED out
    /\ outcome' = IF a = "nil" THEN outcome ELSE "refused"
    /\ caller' = IF a = "panic" THEN "leave" ELSE "ack"
    /\ CallerStep /\ UNCHANGED <<cancelled, src, refusal, cur>>

AfterAck == caller' = IF answer = "error" THEN "leave" ELSE "drain"

\* The acknowledgement changes hands: the source's Emit returns the answer.
Acknowledge ==
    /\ caller = "ack" /\ src[cur] = "wait"
    /\ To(cur, "run") /\ refusal' = [refusal EXCEPT ![cur] = answer = "error"]
    /\ AfterAck /\ CallerStep /\ UNCHANGED <<cancelled, cur, answer, out, outcome>>

\* The context is done: the source may have given up waiting.
AckAbandoned ==
    /\ caller = "ack" /\ Done
    /\ AfterAck /\ CallerStep /\ UNCHANGED <<cancelled, src, refusal, cur, answer, out, outcome>>

\* The deferred function: cancel at once ...
Leave ==
    /\ caller = "leave" /\ ~cancelled
    /\ cancelled' = TRUE
    /\ CallerStep /\ UNCHANGED <<src, refusal, caller, cur, answer, out, outcome>>

\* ... and wait for every source of the batch; a panic of a source goes on in the
\* caller, else a consumer's panic or error ends the search, else the next batch.
Join ==
    /\ caller = "leave" /\ cancelled /\ \A i \in Batch : src[i] = "done"
    /\ IF (\E i \in Batch : panicked[i]) \/ answer = "panic"
       THEN caller' = "returned" /\ outcome' = "panic" /\ UNCHANGED first
       ELSE IF answer = "error"
            THEN caller' = "returned" /\ outcome' = "consumer" /\ UNCHANGED first
            ELSE caller' = "batch" /\ first' = Last + 1 /\ UNCHANGED outcome
    /\ UNCHANGED <<parent, cancelled, streams, cur, answer, out>>

CancelParent ==
    /\ ~parent /\ caller # "returned"
    /\ parent' = TRUE
    /\ UNCHANGED <<cancelled, first, streams, caller, cur, answer, out, outcome>>

Returned == caller = "returned" /\ (\A i \in Sources : src[i] \in {"unborn", "done"})
            /\ UNCHANGED vars

CallerNext ==
    \/ StartBatch \/ EndSearch \/ Receive \/ Closed \/ GiveUp \/ CallEmit
    \/ (\E a \in {"nil", "error", "panic"} : Emit(a))
    \/ Acknowledge \/ AckAbandoned \/ Leave \/ Join
SourceReturns(i) == Panic(i) \/ \E failed \in BOOLEAN : Finish(i, failed)
SourceNext(i) == Begin(i) \/ Produce(i) \/ Abandon(i) \/ SourceReturns(i)

Next == CallerNext \/ (\E i \in Sources : SourceNext(i)) \/ CancelParent \/ Returned

Spec == Init /\ [][Next]_vars

\* Goroutines are scheduled, the consumer returns, and a source does not produce
\* for ever; nothing is assumed about the caller's context.
Fairness == WF_vars(CallerNext) /\ \A i \in Sources : WF_vars(SourceNext(i))

FairSpec == Spec /\ Fairness

-----------------------------------------------------------------------------
(* Properties *)

Accepted(i) == {k \in 1 .. MaxRows : \E n \in DOMAIN out : out[n] = <<i, k>>}

\* Every variable has its type (the channels' two ends and the locals of Search).
TypeOK ==
    /\ parent \in BOOLEAN /\ cancelled \in BOOLEAN
    /\ first \in 1 .. NSources + 1 /\ cur \in Sources
    /\ src \in [Sources -> SourcePcs] /\ rows \in [Sources -> 0 .. MaxRows]
    /\ refusal \in [Sources -> BOOLEAN] /\ err \in [Sources -> BOOLEAN]
    /\ panicked \in [Sources -> BOOLEAN]
    /\ caller \in CallerPcs /\ answer \in {"nil", "error", "panic"}
    /\ out \in Seq(Sources \X (1 .. MaxRows))
    /\ outcome \in {"running", "refused", "nil", "failed", "consumer", "panic"}

\* A source whose Emit has not failed knows its latest row accepted, never merely
\* handed over (orchestration.go: "A source's Emit succeeds only after the real
\* consumer accepts its row").
EmitMeansAccepted ==
    \A i \in Sources : src[i] = "run" /\ ~refusal[i] => Accepted(i) = 1 .. rows[i]

\* Success means that every source ran to its end, without an error, and that
\* the consumer accepted every row any of them produced (Search returning nil).
NilMeansComplete ==
    outcome = "nil" =>
        \A i \in Sources : src[i] = "done" /\ ~err[i] /\ ~panicked[i] /\ Accepted(i) = 1 .. rows[i]

\* The consumer cannot tell the search from one that runs a source at a time.
Abstract == INSTANCE AbstractSearch
ImplementsAbstract == Abstract!ASpec

\* Whatever the consumer, a source or the caller's context does, in whatever
\* order, nobody waits for ever: the search returns and its sources have ended.
SearchReturns ==
    <>(caller = "returned" /\ \A i \in Sources : src[i] \in {"unborn", "done"})
=============================================================================
