------------------------------ MODULE ApiServer ------------------------------
(***************************************************************************)
(* The HTTP API program: agentsearch-server's run, httpapi.Serve and       *)
(* Handler, app.SearchService, the dispatcher's sequential path with its   *)
(* one source, the local password source and Snapshot.Lookup and Close.    *)
(* Each request is a goroutine that unwinds its deferred calls; the main   *)
(* goroutine opens the applications, serves, drains or abandons the        *)
(* requests, and closes what it opened.  A provider's source may ignore    *)
(* its context for ever.                                                   *)
(***************************************************************************)
EXTENDS Integers, Sequences, FiniteSets

CONSTANTS
    Requests,       \* requests the clients may send, one each
    MaxConcurrent,  \* bound: the largest capacity configured for the admission channel
    Permits,        \* lookups one snapshot reads at a time
    MaxRows,        \* rows a search may collect (10000 in the code)
    ProviderRows    \* rows a provider's source may deliver

ASSUME ApiAssumption ==
    /\ IsFiniteSet(Requests)
    /\ MaxConcurrent \in Nat \ {0} /\ Permits \in Nat \ {0} /\ MaxRows \in Nat \ {0}
    /\ ProviderRows \subseteq {"ok", "rate_limited", "timeout", "cancelled", "unavailable", "other"}

\* "public" is searched by a provider, "password" in the local snapshot, and
\* "unconfigured" stands for a target type whose service is not enabled.
Targets == {"public", "password", "unconfigured"}
AppOrder == <<"public", "password">>

ErrorKinds == {"rate_limited", "timeout", "cancelled", "unavailable", "other"}
Row == {"ok"} \cup ErrorKinds
Errors == {"failed", "deadline", "cancelled", "unavailable", "limit"}
Statuses == {0, 200, 400, 408, 429, 502, 503, 504}

MainPcs == {"starting", "listen", "serving", "draining", "forced", "closing",
            "exited"}
Searching == {"provider", "consume", "permit", "reading"}
Admitted == Searching \cup {"body", "lock", "answer", "unwind"}
Pcs == Admitted \cup {"absent", "route", "admit", "done"}

VARIABLES
    main,     \* MainPcs: the main goroutine
    code,     \* its exit code, 0 or 1
    stop,     \* SIGINT or SIGTERM: the context of run is done
    apps,     \* SearchService.apps: the applications that are open
    closed,   \* SearchService.closed
    safe,     \* safeToClose: run may close the service when it returns
    capacity, \* capacity of the admission channel, from the configuration
    slots,    \* length of the admission channel
    pc,       \* [Requests -> Pcs]
    ctx,      \* [Requests -> {"live", "deadline", "cancelled"}]
    target,   \* [Requests -> Targets \cup {"none"}]
    secret,   \* [Requests -> {"none", "held", "cleared"}]: the target's buffer
    rows,     \* [Requests -> Seq(Row)]: rows the search delivered
    err,      \* [Requests -> SUBSET Errors]: what Search returned, {} is nil
    ran,      \* [Requests -> BOOLEAN]: the source came to its end without error
    status,   \* [Requests -> Statuses]: the running handler's writer.status, 0 before
    answers   \* [Requests -> 0 .. 1]: status lines that went out

mainVars == <<main, code, stop, apps, closed, safe>>
admission == <<capacity, slots>>
search == <<target, rows, err, ran>>
vars == <<mainVars, admission, pc, ctx, secret, search, status, answers>>

Init ==
    /\ main = "starting" /\ code = 0 /\ stop = FALSE /\ apps = {} /\ closed = FALSE
    /\ safe = TRUE
    /\ capacity \in 1 .. MaxConcurrent /\ slots = 0
    /\ pc = [r \in Requests |-> "absent"] /\ ctx = [r \in Requests |-> "live"]
    /\ target = [r \in Requests |-> "none"] /\ secret = [r \in Requests |-> "none"]
    /\ rows = [r \in Requests |-> <<>>] /\ err = [r \in Requests |-> {}]
    /\ ran = [r \in Requests |-> FALSE]
    /\ status = [r \in Requests |-> 0] /\ answers = [r \in Requests |-> 0]

To(r, next) == pc' = [pc EXCEPT ![r] = next]
Live(r) == ctx[r] = "live"
Running == main # "exited"

\* ctx.Err() as an error.
Ended(r) == IF Live(r) THEN {} ELSE {ctx[r]}

-----------------------------------------------------------------------------
(* Answers *)

\* writer.WriteHeader: only the first status goes out.
Write(r, s) ==
    IF status[r] = 0
    THEN status' = [status EXCEPT ![r] = s] /\ answers' = [answers EXCEPT ![r] = @ + 1]
    ELSE UNCHANGED <<status, answers>>

Silent == UNCHANGED <<status, answers>>

\* The status that the error rows of a search lead to, 200 if there is none: a rate
\* limit outranks a context's end, of which the last one counts, and that a service
\* that is not available.  A local source, whose search has one row, is a service
\* of ours.
RowsStatus(result, local) ==
    LET failed == {i \in DOMAIN result : result[i] # "ok"}
        ended == {i \in failed : result[i] \in {"timeout", "cancelled"}}
        says(kind) == \E i \in failed : result[i] = kind IN
    CASE failed = {} -> 200
      [] failed # {} /\ says("rate_limited") -> 429
      [] ~says("rate_limited") /\ ended # {} ->
            IF \E i \in ended : result[i] = "timeout" /\ \A j \in ended : j <= i THEN 504 ELSE 408
      [] ~says("rate_limited") /\ ended = {} /\ says("unavailable") -> 503
      [] OTHER -> IF local THEN 503 ELSE 502

\* Faulty variant: a search that failed without an error row counts as complete.
ClassifyRowsOnly(c, errors, result, local) ==
    CASE c = "deadline" \/ "deadline" \in errors -> 504
      [] c = "cancelled" \/ "cancelled" \in errors -> 408
      [] "unavailable" \in errors -> 503
      [] OTHER -> RowsStatus(result, local)

\* The status of a finished search.  The dispatcher strips provider errors down to
\* the context's, so that a direct runner's provider error does not occur here.
Classify(c, errors, result, local) ==
    CASE c = "deadline" \/ "deadline" \in errors -> 504
      [] c = "cancelled" \/ "cancelled" \in errors -> 408
      [] "unavailable" \in errors -> 503
      [] OTHER -> IF RowsStatus(result, local) = 200 /\ errors # {} THEN 502
                  ELSE RowsStatus(result, local)

-----------------------------------------------------------------------------
(* A request's goroutine *)

\* Faulty variant: the buffer of a secret that no source consumed stays.
NotCleared(r) == UNCHANGED secret

\* Secret.Destroy, deferred by the handler, SearchService.Search, Manager.Search and
\* the source.
Cleared(r) == secret' = [secret EXCEPT ![r] = IF @ = "held" THEN "cleared" ELSE @]

\* The server accepts a connection and starts the handler.
Arrive(r) ==
    /\ main = "serving" /\ pc[r] = "absent"
    /\ To(r, "route")
    /\ UNCHANGED <<mainVars, admission, ctx, secret, search>> /\ Silent

HandlerOnly == UNCHANGED <<mainVars, ctx>>

\* The handler writes its only status line and returns.
EndAtOnce(r) ==
    /\ To(r, "done") /\ answers' = [answers EXCEPT ![r] = @ + 1]
    /\ ctx' = [ctx EXCEPT ![r] = "live"]

\* ServeHTTP: an answer without a search (health, and 404, 405, 401 and 400 as one
\* refusal), a failing random source, or the search handler.
Route(r) ==
    /\ pc[r] = "route" /\ Running
    /\ \/ EndAtOnce(r)
       \/ To(r, "admit") /\ UNCHANGED <<ctx, answers>>
    /\ UNCHANGED <<mainVars, admission, secret, search, status>>

\* Faulty variant: a request waits for a free slot.
AdmitWhenFree(r) ==
    /\ pc[r] = "admit" /\ Running /\ slots < capacity
    /\ To(r, "body") /\ slots' = slots + 1
    /\ UNCHANGED <<mainVars, capacity, ctx, secret, search, status, answers>>

\* search: a request whose context ended already is refused (504 or 408), and so is
\* one more than the admission channel holds (429).
Admit(r) ==
    /\ pc[r] = "admit" /\ Running
    /\ IF Live(r) /\ slots < capacity
       THEN To(r, "body") /\ slots' = slots + 1 /\ UNCHANGED <<ctx, answers>>
       ELSE EndAtOnce(r) /\ UNCHANGED slots
    /\ UNCHANGED <<mainVars, capacity, secret, search, status>>

\* The body cannot be had (415, 413, 400 as one refusal; the read's own deadline
\* and the request's context as 408), or is no valid request: decodeRequest has
\* cleared it, with the password, before the answer.
RefuseBody(r) ==
    /\ pc[r] = "body" /\ Running
    /\ \/ Write(r, 400)
       \/ Write(r, 408)
    /\ To(r, "unwind")
    /\ HandlerOnly /\ UNCHANGED <<admission, secret, search>>

\* decodeRequest and NewSearchTarget: a password becomes a secret that this
\* handler owns.
AcceptBody(r, t) ==
    /\ pc[r] = "body" /\ Running
    /\ target' = [target EXCEPT ![r] = t]
    /\ secret' = [secret EXCEPT ![r] = IF t = "password" THEN "held" ELSE "none"]
    /\ To(r, "lock")
    /\ HandlerOnly /\ UNCHANGED <<admission, rows, err, ran>> /\ Silent

\* SearchService.Search takes the read lock, not while Close waits for it, and the
\* dispatcher invokes the application's one source unless the context has ended.
\* What keeps the search from the source ends it: the deferred calls clear the
\* secret and give the lock back.
Lock(r) ==
    /\ pc[r] = "lock" /\ Running /\ main # "closing"
    /\ LET refusal == IF closed \/ target[r] \notin apps THEN {"unavailable"} ELSE Ended(r) IN
       IF refusal = {}
       THEN /\ To(r, IF target[r] = "password" THEN "consume" ELSE "provider")
            /\ UNCHANGED <<secret, err>>
       ELSE To(r, "answer") /\ Cleared(r) /\ err' = [err EXCEPT ![r] = refusal]
    /\ HandlerOnly /\ UNCHANGED <<admission, target, rows, ran>> /\ Silent

\* Faulty variant: one row too many.
CollectedPastLimit(r, row) ==
    IF Len(rows[r]) > MaxRows \/ "limit" \in err[r]
    THEN err' = [err EXCEPT ![r] = {"limit"}] /\ UNCHANGED rows
    ELSE rows' = [rows EXCEPT ![r] = Append(@, row)] /\ UNCHANGED err

\* invoke's deliver and the handler's consumer: past the limit the row is refused,
\* and every later one.
Collected(r, row) ==
    IF Len(rows[r]) >= MaxRows \/ "limit" \in err[r]
    THEN err' = [err EXCEPT ![r] = {"limit"}] /\ UNCHANGED rows
    ELSE rows' = [rows EXCEPT ![r] = Append(@, row)] /\ UNCHANGED err

\* A provider's source delivers a row.
Deliver(r, row) ==
    /\ pc[r] = "provider" /\ Running
    /\ Collected(r, row)
    /\ HandlerOnly /\ UNCHANGED <<admission, pc, secret, target, ran>> /\ Silent

\* A provider's source returns: without error, or with one of which invoke keeps
\* the text and the context's sentinels.  A refused row outranks it.
Return(r, e) ==
    /\ pc[r] = "provider" /\ Running
    /\ To(r, "answer") /\ Cleared(r)
    /\ err' = [err EXCEPT ![r] = IF "limit" \in @ THEN @ ELSE e \cup Ended(r)]
    /\ ran' = [ran EXCEPT ![r] = e = {} /\ "limit" \notin err[r]]
    /\ HandlerOnly /\ UNCHANGED <<admission, target, rows>> /\ Silent

\* The local source delivers its one row and returns; e is {} or the context's end.
\* Snapshot.Lookup's and Search's read locks are given back.
LocalReturn(r, row, e) ==
    /\ To(r, "answer")
    /\ rows' = [rows EXCEPT ![r] = Append(@, row)]
    /\ err' = [err EXCEPT ![r] = e \cup (IF row = "ok" THEN {} ELSE {"failed"}) \cup Ended(r)]
    /\ ran' = [ran EXCEPT ![r] = row = "ok"]

EndedRow(r) == IF ctx[r] = "deadline" THEN "timeout" ELSE "cancelled"

\* LocalPasswordSource.SearchPassword clears the secret as it hashes it, before it
\* looks at the context.
Consume(r) ==
    /\ pc[r] = "consume" /\ Running
    /\ secret' = [secret EXCEPT ![r] = "cleared"]
    /\ \/ Live(r) /\ To(r, "permit") /\ UNCHANGED <<rows, err, ran>>
       \/ ~Live(r) /\ LocalReturn(r, EndedRow(r), Ended(r))
    /\ HandlerOnly /\ UNCHANGED <<admission, target>> /\ Silent

\* Snapshot.Lookup under its read lock: one of the permits, or the context's end;
\* a closed snapshot is refused.
TakePermit(r) ==
    /\ pc[r] = "permit" /\ Running
    /\ \/ /\ "password" \notin apps
          /\ LocalReturn(r, "other", {})
       \/ /\ "password" \in apps /\ ~Live(r)
          /\ LocalReturn(r, EndedRow(r), Ended(r))
       \/ /\ "password" \in apps
          /\ Cardinality({q \in Requests : pc[q] = "reading"}) < Permits
          /\ To(r, "reading") /\ UNCHANGED <<rows, err, ran>>
    /\ HandlerOnly /\ UNCHANGED <<admission, secret, target>> /\ Silent

\* The range is read and searched, or found truncated or corrupt; a context that
\* ended meanwhile outranks the answer.
Read(r) ==
    /\ pc[r] = "reading" /\ Running
    /\ \/ Live(r) /\ LocalReturn(r, "ok", {})
       \/ LocalReturn(r, "other", {})
       \/ ~Live(r) /\ LocalReturn(r, EndedRow(r), Ended(r))
    /\ HandlerOnly /\ UNCHANGED <<admission, secret, target>> /\ Silent

\* A provider's source panics: the same deferred calls run.
Panic(r) ==
    /\ pc[r] = "provider" /\ Running
    /\ To(r, "unwind") /\ Cleared(r)
    /\ HandlerOnly /\ UNCHANGED <<admission, search>> /\ Silent

\* The answer to a search, by the context and the errors of this moment.
Answer(r) ==
    /\ pc[r] = "answer" /\ Running
    /\ Write(r, IF "limit" \in err[r] THEN 503
                ELSE Classify(ctx[r], err[r], rows[r], target[r] = "password"))
    /\ To(r, "unwind")
    /\ HandlerOnly /\ UNCHANGED <<admission, secret, search>>

\* recover: a panic is answered with 500 unless a status went out before.
AnswerPanic(r) == answers' = [answers EXCEPT ![r] = IF status[r] = 0 THEN @ + 1 ELSE @]

\* The handler's variables are gone.
Forget(r) ==
    /\ target' = [target EXCEPT ![r] = "none"] /\ rows' = [rows EXCEPT ![r] = <<>>]
    /\ err' = [err EXCEPT ![r] = {}] /\ ran' = [ran EXCEPT ![r] = FALSE]
    /\ ctx' = [ctx EXCEPT ![r] = "live"] /\ status' = [status EXCEPT ![r] = 0]

\* Faulty variant: the slot is given back at the end of the function only, which a
\* panic skips.
UnwindKeepsSlot(r) ==
    /\ pc[r] = "unwind" /\ Running
    /\ To(r, "done") /\ Cleared(r) /\ AnswerPanic(r)
    /\ slots' = IF status[r] = 0 THEN slots ELSE slots - 1
    /\ UNCHANGED <<mainVars, capacity>> /\ Forget(r)

\* The deferred calls of search and ServeHTTP: the slot is free again, and a panic
\* is answered if nothing was.
Unwind(r) ==
    /\ pc[r] = "unwind" /\ Running
    /\ To(r, "done") /\ Cleared(r) /\ AnswerPanic(r)
    /\ slots' = slots - 1
    /\ UNCHANGED <<mainVars, capacity>> /\ Forget(r)

-----------------------------------------------------------------------------
(* What ends a request's context *)

Underway(r) == pc[r] \notin {"absent", "done"}

\* The client disconnects.
ClientGone(r) ==
    /\ Running /\ Underway(r) /\ Live(r)
    /\ ctx' = [ctx EXCEPT ![r] = "cancelled"]
    /\ UNCHANGED <<mainVars, admission, pc, secret, search>> /\ Silent

\* The search's timeout.
Deadline(r) ==
    /\ Running /\ pc[r] \in Admitted \cup {"admit"} /\ Live(r)
    /\ ctx' = [ctx EXCEPT ![r] = "deadline"]
    /\ UNCHANGED <<mainVars, admission, pc, secret, search>> /\ Silent

-----------------------------------------------------------------------------
(* The main goroutine *)

RequestsIdle == UNCHANGED <<admission, pc, ctx, secret, search>> /\ Silent

Exit(c) == main' = "exited" /\ code' = c

\* The signal.
Stop == ~stop /\ Running /\ stop' = TRUE /\ UNCHANGED <<main, code, apps, closed, safe>> /\ RequestsIdle

\* SearchService.Close: the write lock, then every application.
CloseApps == closed' = TRUE /\ apps' = {}

\* NewSearchService builds the next application; the local password application
\* holds an open snapshot.
OpenApp ==
    /\ main = "starting" /\ Cardinality(apps) < Len(AppOrder)
    /\ apps' = apps \cup {AppOrder[Cardinality(apps) + 1]}
    /\ UNCHANGED <<main, code, stop, closed, safe>> /\ RequestsIdle

\* One of them fails: NewSearchService closes the others.
OpenFails ==
    /\ main = "starting" /\ Cardinality(apps) < Len(AppOrder)
    /\ Exit(1) /\ CloseApps /\ UNCHANGED <<stop, safe>> /\ RequestsIdle

\* All are built; a signal meanwhile undoes it.
Opened ==
    /\ main = "starting" /\ Cardinality(apps) = Len(AppOrder)
    /\ IF stop THEN Exit(1) /\ CloseApps
               ELSE main' = "listen" /\ UNCHANGED <<code, apps, closed>>
    /\ UNCHANGED <<stop, safe>> /\ RequestsIdle

\* Without a token or a listener run returns 1 and closes the service on the way;
\* Serve under a finished context returns at once.
Listen ==
    /\ main = "listen"
    /\ \/ main' = "closing" /\ code' = 1
       \/ main' = "closing" /\ stop /\ UNCHANGED code
       \/ main' = "serving" /\ ~stop /\ UNCHANGED code
    /\ UNCHANGED <<stop, apps, closed, safe>> /\ RequestsIdle

\* server.Serve returns on its own: run leaves the service as it is.
ServeFails ==
    /\ main = "serving"
    /\ safe' = FALSE /\ Exit(1) /\ UNCHANGED <<stop, apps, closed>> /\ RequestsIdle

\* Serve sees the signal: Shutdown closes the listener and waits.
BeginShutdown ==
    /\ main = "serving" /\ stop
    /\ main' = "draining" /\ UNCHANGED <<code, stop, apps, closed, safe>> /\ RequestsIdle

\* Shutdown found every connection idle: run closes the service.
Drained ==
    /\ main = "draining" /\ \A r \in Requests : ~Underway(r)
    /\ main' = "closing" /\ UNCHANGED <<code, stop, apps, closed, safe>> /\ RequestsIdle

\* Faulty variant: the service is closed after a forced stop, too.
GraceExpiresCloses ==
    /\ main = "draining"
    /\ main' = "closing" /\ code' = 1
    /\ ctx' = [r \in Requests |-> IF Underway(r) /\ Live(r) THEN "cancelled" ELSE ctx[r]]
    /\ UNCHANGED <<stop, apps, closed, safe, admission, pc, secret, search>> /\ Silent

\* The grace period ends: the requests are cancelled and their connections closed,
\* and Serve does not wait for the handlers.
GraceExpires ==
    /\ main = "draining"
    /\ main' = "forced" /\ safe' = FALSE
    /\ ctx' = [r \in Requests |-> IF Underway(r) /\ Live(r) THEN "cancelled" ELSE ctx[r]]
    /\ UNCHANGED <<code, stop, apps, closed, admission, pc, secret, search>> /\ Silent

\* Faulty variant: a forced stop waits for the handlers.
AbandonJoined ==
    /\ main = "forced" /\ \A r \in Requests : ~Underway(r)
    /\ Exit(1) /\ UNCHANGED <<stop, apps, closed, safe>> /\ RequestsIdle

\* Serve has failed: run leaves the service to the operating system.
Abandon ==
    /\ main = "forced"
    /\ Exit(1) /\ UNCHANGED <<stop, apps, closed, safe>> /\ RequestsIdle

\* SearchService.Close waits for the searches that hold the read lock.
CloseService ==
    /\ main = "closing" /\ \A r \in Requests : pc[r] \notin Searching
    /\ Exit(code) /\ CloseApps /\ UNCHANGED <<stop, safe>> /\ RequestsIdle

Terminated == main = "exited" /\ UNCHANGED vars

-----------------------------------------------------------------------------
MainStep ==
    \/ OpenApp \/ OpenFails \/ Opened \/ Listen \/ BeginShutdown
    \/ Drained \/ GraceExpires \/ Abandon \/ CloseService

\* What a handler does by itself; a provider's source is not among it.
HandlerStep(r) ==
    \/ Route(r) \/ Admit(r) \/ RefuseBody(r) \/ (\E t \in Targets : AcceptBody(r, t))
    \/ Lock(r) \/ Consume(r) \/ TakePermit(r) \/ Read(r)
    \/ Answer(r) \/ Unwind(r)

SourceStep(r) ==
    \/ \E row \in ProviderRows : Deliver(r, row)
    \/ \E e \in {{}, {"failed"}, {"failed", "deadline"}} : Return(r, e)
    \/ Panic(r)

Next ==
    \/ MainStep \/ ServeFails \/ Stop \/ Terminated
    \/ \E r \in Requests :
          Arrive(r) \/ HandlerStep(r) \/ SourceStep(r) \/ ClientGone(r) \/ Deadline(r)

Spec == Init /\ [][Next]_vars

\* The main goroutine and the handlers run; clients, signals, timeouts, a failing
\* listener and the providers' sources need not do anything.
FairSpec ==
    /\ Spec
    /\ WF_vars(MainStep)
    /\ \A r \in Requests : WF_vars(HandlerStep(r))

-----------------------------------------------------------------------------
(* Properties *)

\* Every variable keeps its type: the rows stay below the consumer's limit.
TypeOK ==
    /\ main \in MainPcs /\ code \in {0, 1} /\ stop \in BOOLEAN
    /\ apps \subseteq Targets /\ closed \in BOOLEAN /\ safe \in BOOLEAN
    /\ capacity \in 1 .. MaxConcurrent /\ slots \in 0 .. capacity
    /\ pc \in [Requests -> Pcs] /\ ctx \in [Requests -> {"live", "deadline", "cancelled"}]
    /\ target \in [Requests -> Targets \cup {"none"}]
    /\ secret \in [Requests -> {"none", "held", "cleared"}]
    /\ rows \in [Requests -> Seq(Row)] /\ \A r \in Requests : Len(rows[r]) <= MaxRows
    /\ err \in [Requests -> SUBSET Errors] /\ ran \in [Requests -> BOOLEAN]
    /\ status \in [Requests -> Statuses] /\ answers \in [Requests -> 0 .. 1]

\* The admission channel holds one token per admitted request: none is lost to a
\* panic, a refused body or a timeout, and none is given back twice.
SlotsMatch == slots = Cardinality({r \in Requests : pc[r] \in Admitted})

\* A handler that has returned has answered once, and no copy of a password is
\* left in the buffer its request brought, whichever way the handler ended.
EndedClean ==
    \A r \in Requests : pc[r] = "done" =>
        answers[r] = 1 /\ secret[r] # "held"

\* A search is answered with 200 only if its source ran to its end without error,
\* every row it delivered is in the answer and none of them is an error.
OkMeansComplete ==
    \A r \in Requests : pc[r] = "unwind" /\ status[r] = 200 =>
        ran[r] /\ \A i \in DOMAIN rows[r] : rows[r][i] = "ok"

\* No search and no lookup runs on an application that is closed.  When run comes
\* to close the service no search is left, so that Close never waits; and an exit
\* that is not a forced one leaves no application open.
CloseAfterSearches ==
    /\ \A r \in Requests : pc[r] \in Searching =>
          target[r] \in apps
    /\ main = "closing" => \A r \in Requests : ~Underway(r)
    /\ main = "exited" /\ safe => apps = {}

\* After a signal the program ends, though a provider's source never returns.
Stops == stop ~> main = "exited"

\* A handler is never stuck in the program's own code: it comes to its end, or
\* waits for a provider, or the program is over.
HandlersFinish ==
    \A r \in Requests :
        pc[r] = "route" ~> (pc[r] \in {"done", "provider"} \/ main = "exited")

=============================================================================
