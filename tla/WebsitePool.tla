----------------------------- MODULE WebsitePool -----------------------------
(***************************************************************************)
(* The website source (internal/sources/websites/source.go, search) on its *)
(* worker pool (internal/worker/pool.go): a submitter hands one job per    *)
(* enabled site to the workers, the workers hand their results to the      *)
(* goroutine that called search, which calls the consumer.  Both channels  *)
(* are unbuffered; whoever submits closes jobs, and a goroutine of its own *)
(* closes results when the last worker is gone.                            *)
(***************************************************************************)
EXTENDS Integers, FiniteSets

CONSTANTS
    NSites,     \* enabled sites, in configuration order
    Workers     \* the pool's workers

ASSUME PoolAssumption == NSites \in Nat /\ Workers # {} /\ IsFiniteSet(Workers)

Sites == 1 .. NSites
NoSite == 0

VARIABLES
    parent,     \* the caller's context is done
    cancelled,  \* search's own cancel function has been called
    offered,    \* the site the submitter is at; NSites + 1 when it is through
    submitter,  \* "check", "send", "closed" (jobs and submitted are closed)
    worker,     \* [Workers -> {"idle", "busy", "send", "gone"}]
    job,        \* [Workers -> site]: the job a worker holds
    closed,     \* the results channel is closed
    caller,     \* "range", "emit", "await", "unwind", "drain", "returned"
    result,     \* the result the caller holds
    verdict,    \* "nil", "error" or "panic": what the consumer last said
    emitted,    \* [Sites -> Nat]: how often the consumer accepted the site
    outcome     \* "running", then "nil", "cancelled", "consumer" or "panic"

vars == <<parent, cancelled, offered, submitter, worker, job, closed, caller,
          result, verdict, emitted, outcome>>

Done == parent \/ cancelled

Init ==
    /\ parent = FALSE /\ cancelled = FALSE
    /\ offered = 1 /\ submitter = "check"
    /\ worker = [w \in Workers |-> "idle"] /\ job = [w \in Workers |-> NoSite]
    /\ closed = FALSE
    /\ caller = "range" /\ result = NoSite /\ verdict = "nil"
    /\ emitted = [i \in Sites |-> 0] /\ outcome = "running"

-----------------------------------------------------------------------------
(* Submitter *)

SubmitterStep == UNCHANGED <<parent, cancelled, closed, caller, result, verdict, emitted, outcome>>

\* Faulty variant: one site too many.
OfferPastLast ==
    /\ submitter = "check" /\ offered <= NSites + 1 /\ ~Done
    /\ submitter' = "send"
    /\ SubmitterStep /\ UNCHANGED <<offered, worker, job>>

\* SubmitContext looks at the context first; the loop ends when it fails.
Offer ==
    /\ submitter = "check" /\ offered \in Sites /\ ~Done
    /\ submitter' = "send"
    /\ SubmitterStep /\ UNCHANGED <<offered, worker, job>>

\* Faulty variant: a job that is waiting for a worker ignores the context (Submit).
EndSubmissionUnlessWaiting ==
    /\ submitter = "check" /\ (offered \notin Sites \/ Done)
    /\ submitter' = "closed"
    /\ SubmitterStep /\ UNCHANGED <<offered, worker, job>>

\* Every site is submitted, or the context is done: jobs is closed.
EndSubmission ==
    /\ \/ submitter = "check" /\ (offered \notin Sites \/ Done)
       \/ submitter = "send" /\ Done
    /\ submitter' = "closed"
    /\ SubmitterStep /\ UNCHANGED <<offered, worker, job>>

-----------------------------------------------------------------------------
(* Workers *)

\* The job changes hands.
Take(w) ==
    /\ submitter = "send" /\ worker[w] = "idle"
    /\ worker' = [worker EXCEPT ![w] = "busy"] /\ job' = [job EXCEPT ![w] = offered]
    /\ submitter' = "check" /\ offered' = offered + 1
    /\ SubmitterStep

\* Process comes back with a result; a cancelled request is one too.
Process(w) ==
    /\ worker[w] = "busy"
    /\ worker' = [worker EXCEPT ![w] = "send"]
    /\ UNCHANGED <<parent, cancelled, offered, submitter, job, closed, caller, result, verdict,
                   emitted, outcome>>

\* No more jobs, or the context is done while waiting for one or for the caller.
Quit(w) ==
    /\ \/ worker[w] = "idle" /\ (submitter = "closed" \/ Done)
       \/ worker[w] = "send" /\ Done
    /\ worker' = [worker EXCEPT ![w] = "gone"] /\ job' = [job EXCEPT ![w] = NoSite]
    /\ UNCHANGED <<parent, cancelled, offered, submitter, closed, caller, result, verdict,
                   emitted, outcome>>

\* Faulty variant: results is closed by the first worker that leaves.
CloseResultsEarly ==
    /\ ~closed /\ \E w \in Workers : worker[w] = "gone"
    /\ closed' = TRUE
    /\ UNCHANGED <<parent, cancelled, offered, submitter, worker, job, caller, result, verdict,
                   emitted, outcome>>

CloseResults ==
    /\ ~closed /\ \A w \in Workers : worker[w] = "gone"
    /\ closed' = TRUE
    /\ UNCHANGED <<parent, cancelled, offered, submitter, worker, job, caller, result, verdict,
                   emitted, outcome>>

-----------------------------------------------------------------------------
(* The goroutine that called search *)

CallerStep == UNCHANGED <<parent, offered, submitter, closed>>

\* Faulty variant: the consumer is shown what is left after its refusal.
ReceiveRegardless(w) ==
    /\ worker[w] = "send" /\ caller \in {"range", "drain"}
    /\ worker' = [worker EXCEPT ![w] = "idle"] /\ job' = [job EXCEPT ![w] = NoSite]
    /\ IF caller = "range"
       THEN caller' = "emit" /\ result' = job[w]
       ELSE UNCHANGED <<caller, result>>
    /\ CallerStep /\ UNCHANGED <<cancelled, verdict, emitted, outcome>>

\* A result changes hands.  It goes to the consumer unless that already failed;
\* the deferred drain throws it away.
Receive(w) ==
    /\ worker[w] = "send" /\ caller \in {"range", "drain"}
    /\ worker' = [worker EXCEPT ![w] = "idle"] /\ job' = [job EXCEPT ![w] = NoSite]
    /\ IF caller = "range" /\ verdict = "nil"
       THEN caller' = "emit" /\ result' = job[w]
       ELSE UNCHANGED <<caller, result>>
    /\ CallerStep /\ UNCHANGED <<cancelled, verdict, emitted, outcome>>

\* The consumer accepts, refuses (the search is cancelled), or panics.
Emit(a) ==
    /\ caller = "emit" /\ verdict' = a
    /\ emitted' = IF a = "nil" THEN [emitted EXCEPT ![result] = @ + 1] ELSE emitted
    /\ cancelled' = (cancelled \/ a = "error")
    /\ caller' = IF a = "panic" THEN "unwind" ELSE "range"
    /\ result' = NoSite
    /\ CallerStep /\ UNCHANGED <<worker, job, outcome>>

\* results is closed: wait for the submitter, then decide what to return ...
Drained ==
    /\ caller = "range" /\ closed
    /\ caller' = "await"
    /\ CallerStep /\ UNCHANGED <<cancelled, worker, job, result, verdict, emitted, outcome>>

Decide ==
    /\ caller = "await" /\ submitter = "closed"
    /\ outcome' = IF verdict = "error" THEN "consumer" ELSE IF Done THEN "cancelled" ELSE "nil"
    /\ caller' = "unwind"
    /\ CallerStep /\ UNCHANGED <<cancelled, worker, job, result, verdict, emitted>>

\* ... and the deferred function, on a panic too: cancel, drain, join.
Unwind ==
    /\ caller = "unwind"
    /\ cancelled' = TRUE /\ caller' = "drain"
    /\ CallerStep /\ UNCHANGED <<worker, job, result, verdict, emitted, outcome>>

Return ==
    /\ caller = "drain" /\ closed /\ submitter = "closed"
    /\ caller' = "returned"
    /\ outcome' = IF verdict = "panic" THEN "panic" ELSE outcome
    /\ CallerStep /\ UNCHANGED <<cancelled, worker, job, result, verdict, emitted>>

CancelParent ==
    /\ ~parent /\ caller # "returned"
    /\ parent' = TRUE
    /\ UNCHANGED <<cancelled, offered, submitter, worker, job, closed, caller, result, verdict,
                   emitted, outcome>>

Returned == caller = "returned" /\ UNCHANGED vars

CallerNext ==
    \/ (\E a \in {"nil", "error", "panic"} : Emit(a))
    \/ Drained \/ Decide \/ Unwind \/ Return
WorkerNext(w) == Process(w) \/ Quit(w)

Next ==
    \/ Offer \/ EndSubmission \/ CloseResults
    \/ \E w \in Workers : Take(w) \/ WorkerNext(w) \/ Receive(w)
    \/ CallerNext \/ CancelParent \/ Returned

Spec == Init /\ [][Next]_vars

\* Goroutines are scheduled, a request ends, the consumer returns; channel
\* operations happen once both ends stay ready.  The caller need not cancel.
Fairness ==
    /\ WF_vars(Offer) /\ WF_vars(EndSubmission) /\ WF_vars(CloseResults) /\ WF_vars(CallerNext)
    /\ WF_vars(\E w \in Workers : Take(w)) /\ WF_vars(\E w \in Workers : Receive(w))
    /\ \A w \in Workers : WF_vars(WorkerNext(w))

FairSpec == Spec /\ Fairness

-----------------------------------------------------------------------------
(* Properties *)

\* Every variable has its type (the locals of search and the pool's channels).
TypeOK ==
    /\ parent \in BOOLEAN /\ cancelled \in BOOLEAN /\ closed \in BOOLEAN
    /\ offered \in 1 .. NSites + 1 /\ submitter \in {"check", "send", "closed"}
    /\ worker \in [Workers -> {"idle", "busy", "send", "gone"}]
    /\ job \in [Workers -> Sites \cup {NoSite}]
    /\ \A w \in Workers : (job[w] # NoSite) = (worker[w] \in {"busy", "send"})
    /\ caller \in {"range", "emit", "await", "unwind", "drain", "returned"}
    /\ result \in Sites \cup {NoSite} /\ (result # NoSite) = (caller = "emit")
    /\ verdict \in {"nil", "error", "panic"}
    /\ emitted \in [Sites -> 0 .. 1]
    /\ outcome \in {"running", "nil", "cancelled", "consumer", "panic"}

\* A search that returns nil has shown its consumer every enabled site, once,
\* whichever worker was last and whenever the context was cancelled.
NilMeansEverySite == outcome = "nil" => \A i \in Sites : emitted[i] = 1

\* The consumer that refused a result is shown no other, though the workers'
\* results are still drained.
SilentAfterRefusal == [][verdict # "nil" => emitted' = emitted /\ verdict' = verdict]_vars

\* The search returns with its workers, its submitter and its closer ended: no
\* order of refusals, panics, cancellation and last jobs strands one of them.
SearchReturns ==
    <>(caller = "returned" /\ closed /\ submitter = "closed"
       /\ \A w \in Workers : worker[w] = "gone")
=============================================================================
