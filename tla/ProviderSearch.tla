---------------------------- MODULE ProviderSearch ----------------------------
(***************************************************************************)
(* The API sources: the searches that share one source's client, its       *)
(* pacing of requests (ratelimit.HostLimiter, securitytrails.Client.wait), *)
(* the requests with their deadlines, the Bitcoin history's pages and the  *)
(* rows a search emits.  Time is kept as what is left until each instant,  *)
(* so that a clock tick shortens every delay and nothing bounds the clock. *)
(***************************************************************************)
EXTENDS Integers, Sequences, FiniteSets, FiniteSetsExt, SequencesExt

CONSTANTS
    Searches,        \* searches of the one source, possibly at the same time
    Providers,       \* sources considered, one of them per behaviour
    Interval,        \* pacing interval, in ticks
    RequestTimeout,  \* deadline of one request, in ticks
    Investigation,   \* deadline of an address or transaction search, in ticks
    RetryDelays,     \* what a Retry-After header, or its absence, may ask for, in ticks
    PageSize, MaxPages, MaxTransactions,  \* 25, 5 and 100 in the code
    Pages,           \* history pages the provider may send
    MaxBreaches,     \* bound: breaches an account may have
    Ranges           \* lines the provider may answer a password's prefix with

\* A transaction of a page: its time orders it, 0 marks one that normalizeTransaction
\* refuses.
Transactions == [id : Nat, time : Nat]

\* A line of a password range: a suffix, "own" the one searched for, and its count, -1
\* where the line is malformed or its count overflows.
RangeLines == [suffix : {"own", "other"}, count : {-1, 0, 1}]

ASSUME ProviderAssumption ==
    /\ IsFiniteSet(Searches)
    /\ Providers \subseteq {"bitcoin", "bitcoin-tx", "bitcoin-labels", "securitytrails",
                            "ipinfo", "hibp", "pwned-passwords"}
    /\ {Interval, RequestTimeout, Investigation, PageSize, MaxPages, MaxTransactions}
           \subseteq Nat \ {0}
    /\ RetryDelays \subseteq Nat /\ MaxBreaches \in Nat
    /\ \E longest \in RetryDelays \cup {1} : \A d \in RetryDelays \cup {1} : d <= longest
    /\ Pages \subseteq Seq(Transactions)
    /\ \A lines \in Ranges : \A i \in DOMAIN lines : lines[i] \in RangeLines

None == -1
Pcs == {"absent", "get", "wait", "sleep", "sent", "emit", "done"}

\* "failed" stands for the errors that are no context's: of the network, the status,
\* the body and the pages.
Errors == {"none", "timeout", "cancelled", "failed", "budget", "consumer"}

VARIABLES
    provider,  \* the source these searches use
    next,      \* ticks until the client's next request may start
    spacing,   \* history: ticks until Interval has passed since the last start
    cooldown,  \* history: ticks until every Retry-After of the client has passed
    pc,        \* [Searches -> Pcs]
    gone,      \* [Searches -> BOOLEAN]: the caller cancelled the search
    left,      \* [Searches -> Nat \cup {None}]: ticks until the search's own deadline
    due,       \* [Searches -> Nat \cup {None}]: ticks until the request's deadline
    wake,      \* [Searches -> Nat]: ticks until the pacing timer fires
    requests,  \* [Searches -> Nat]
    count,     \* [Searches -> {"none", "zero", "some"}]: the address's statistics
    pages,     \* [Searches -> Seq(Pages)]: the pages committed, in order
    txs,       \* [Searches -> SUBSET Transactions]: the transactions retained
    queue,     \* [Searches -> Seq({"found", "not_found", "error"})]: rows still to emit
    told,      \* [Searches -> the last row the consumer took, or "none"]
    err        \* [Searches -> Errors]: the error SearchX returns

pacing == <<next, spacing, cooldown>>
request == <<left, due, wake, requests>>
history == <<count, pages, txs>>
answer == <<queue, told, err>>
vars == <<provider, pacing, pc, gone, request, history, answer>>

Idle(at) ==
    /\ next = 0 /\ spacing = 0 /\ cooldown = 0
    /\ pc = [s \in Searches |-> at] /\ gone = [s \in Searches |-> FALSE]
    /\ left = [s \in Searches |-> None] /\ due = [s \in Searches |-> None]
    /\ wake = [s \in Searches |-> 0] /\ requests = [s \in Searches |-> 0]
    /\ count = [s \in Searches |-> "none"] /\ pages = [s \in Searches |-> <<>>]
    /\ txs = [s \in Searches |-> {}]
    /\ queue = [s \in Searches |-> <<>>] /\ told = [s \in Searches |-> "none"]
    /\ err = [s \in Searches |-> "none"]

Init == provider \in Providers /\ Idle("absent")

\* No search is left: where only the parsing of an answer is considered.
Answering == provider = "bitcoin-tx" /\ Idle("done")

Esplora == {"bitcoin", "bitcoin-tx"}
Limited == Esplora \cup {"bitcoin-labels"}
Paced == Limited \cup {"securitytrails"}

\* Faulty variant: the address's own request is forgotten.
BudgetOfPages == IF provider = "bitcoin" THEN MaxPages ELSE 1

\* MaxRequests and TransactionMaxRequests: an address search may send the address's
\* request and one per page.
Budget == IF provider = "bitcoin" THEN MaxPages + 1 ELSE 1

To(s, next_pc) == pc' = [pc EXCEPT ![s] = next_pc]
Set(f, s, value) == [f EXCEPT ![s] = value]

\* The context of the search, or of the request under way, is done.
SearchEnded(s) == gone[s] \/ left[s] = 0
RequestEnded(s) == SearchEnded(s) \/ due[s] = 0
ContextError(s) == IF gone[s] THEN "cancelled" ELSE "timeout"

-----------------------------------------------------------------------------
(* Rows *)

\* The search comes to its rows: an address search emits what it observed first,
\* whatever happened, and an error row after it.  Only HIBP looks at the context again.
Conclude(s, row, e) ==
    /\ To(s, "emit")
    /\ due' = Set(due, s, None) /\ left' = Set(left, s, None) /\ wake' = Set(wake, s, 0)
    /\ gone' = Set(gone, s, provider = "hibp" /\ gone[s])
    /\ err' = Set(err, s, e)
    /\ queue' = Set(queue, s,
           IF provider = "bitcoin"
           THEN IF e = "none" THEN <<"found">> ELSE <<"found", "error">>
           ELSE IF e = "none" THEN row ELSE <<"error">>)
    /\ UNCHANGED told

\* An address search ends with what history returned.
EndHistory(s, retained, e) ==
    /\ txs' = Set(txs, s, retained)
    /\ Conclude(s, <<>>, e)

\* A request fails, and the search with it.
Fail(s, e) == Conclude(s, <<>>, e) /\ UNCHANGED history

\* The consumer takes the next row, or refuses it and the search returns its error.
\* The breaches of an account come one row each, while the context lasts.
Emit(s) ==
    /\ pc[s] = "emit" /\ queue[s] # <<>>
    /\ count' = Set(count, s, "none") /\ pages' = Set(pages, s, <<>>) /\ txs' = Set(txs, s, {})
    /\ IF provider = "hibp" /\ Head(queue[s]) = "found" /\ SearchEnded(s)
       THEN /\ err' = Set(err, s, ContextError(s)) /\ queue' = Set(queue, s, <<>>)
            /\ UNCHANGED told
       ELSE \/ /\ queue' = Set(queue, s, Tail(queue[s])) /\ told' = Set(told, s, Head(queue[s]))
               /\ UNCHANGED err
            \/ /\ err' = Set(err, s, "consumer") /\ queue' = Set(queue, s, <<>>)
               /\ UNCHANGED told
    /\ UNCHANGED <<provider, pacing, pc, gone, request>>

\* The search returns; its variables are gone.
Return(s) ==
    /\ pc[s] = "emit" /\ queue[s] = <<>>
    /\ To(s, "done")
    /\ gone' = Set(gone, s, FALSE) /\ requests' = Set(requests, s, 0)
    /\ told' = Set(told, s, "none") /\ err' = Set(err, s, "none")
    /\ UNCHANGED <<provider, pacing, left, due, wake, queue, history>>

-----------------------------------------------------------------------------
(* Requests *)

\* The search begins: the Bitcoin sources set a deadline of their own, and a label
\* lookup has one for its only request.
Start(s) ==
    /\ pc[s] = "absent" /\ To(s, "get")
    /\ left' = Set(left, s, IF provider \in Esplora THEN Investigation
                            ELSE IF provider = "bitcoin-labels" THEN RequestTimeout ELSE None)
    /\ UNCHANGED <<provider, pacing, gone, due, wake, requests, history, answer>>

\* getBounded: a budget, and a deadline that includes the pacing.
Get(s) ==
    /\ pc[s] = "get"
    /\ IF requests[s] >= Budget
       THEN Fail(s, "budget")
       ELSE /\ To(s, "wait")
            /\ due' = Set(due, s, IF provider \in Esplora THEN RequestTimeout ELSE None)
            /\ UNCHANGED <<gone, left, wake, history, answer>>
    /\ UNCHANGED <<provider, pacing, requests>>

\* The request starts.  Outside Bitcoin its deadline, the HTTP client's, begins here.
Send(s) ==
    /\ To(s, "sent") /\ requests' = Set(requests, s, requests[s] + 1)
    /\ due' = Set(due, s, IF provider \in Esplora THEN due[s] ELSE RequestTimeout)
    /\ IF provider \in Paced
       THEN next' = Interval /\ spacing' = Interval
       ELSE UNCHANGED <<next, spacing>>
    /\ UNCHANGED cooldown

\* HostLimiter.WaitContext and Client.wait under their mutex: the context's end, a
\* start, or a timer over what is left.  A client without pacing starts at once.
Check(s) ==
    /\ pc[s] = "wait"
    /\ \/ /\ RequestEnded(s) /\ Fail(s, ContextError(s))
          /\ UNCHANGED <<pacing, requests>>
       \/ /\ ~RequestEnded(s) /\ (provider \in Paced => next = 0) /\ Send(s)
          /\ UNCHANGED <<wake, gone, left, history, answer>>
       \/ /\ ~RequestEnded(s) /\ provider \in Paced /\ next > 0
          /\ To(s, "sleep") /\ wake' = Set(wake, s, next)
          /\ UNCHANGED <<pacing, gone, left, due, requests, history, answer>>
    /\ UNCHANGED provider

\* The timer fires, and the delay is checked again; or the context ends.
Wake(s) ==
    /\ pc[s] = "sleep"
    /\ \/ wake[s] = 0 /\ To(s, "wait") /\ UNCHANGED <<gone, left, due, wake, history, answer>>
       \/ RequestEnded(s) /\ Fail(s, ContextError(s))
    /\ UNCHANGED <<provider, pacing, requests>>

\* A request that is under way fails: at its deadline or cancelled, or on the
\* network.
NetworkFails(s) ==
    /\ pc[s] = "sent"
    /\ Fail(s, IF RequestEnded(s) THEN ContextError(s) ELSE "failed")
    /\ UNCHANGED <<provider, pacing, requests>>

\* Faulty variant: only a cancelled request is given up.
TimesOutCancelled(s) == gone[s] /\ NetworkFails(s)

\* The part of it that does not depend on the provider or the network.
TimesOut(s) == RequestEnded(s) /\ NetworkFails(s)

\* Faulty variant: a shorter Retry-After replaces a longer one.
DeferShortens(d) == next' = d

\* HostLimiter.Defer and Client.deferRequests only ever postpone.
Defer(d) == next' = Max({next, d})

\* What an answer's Retry-After, or its absence, postpones the client's requests by:
\* SecurityTrails waits at least a tick, IPinfo and HIBP not at all.
StatusDelays ==
    CASE provider = "securitytrails" -> {Max({d, 1}) : d \in RetryDelays}
      [] provider \in Limited -> RetryDelays
      [] OTHER -> {}

\* Any status but 200 and the answers below; that of a 429, and except for
\* SecurityTrails of a 503, postpones the client's next request.
StatusError(s) ==
    /\ pc[s] = "sent" /\ Fail(s, "failed")
    /\ \/ UNCHANGED pacing
       \/ \E d \in StatusDelays :
             Defer(d) /\ cooldown' = Max({cooldown, d}) /\ UNCHANGED spacing
    /\ UNCHANGED <<provider, requests>>

\* A response of 200 is lost with its context, invalid or too large.
BadBody(s) ==
    /\ pc[s] = "sent" /\ Fail(s, IF SearchEnded(s) THEN ContextError(s) ELSE "failed")
    /\ UNCHANGED <<provider, pacing, requests>>

-----------------------------------------------------------------------------
(* Answers *)

Answered(s, rows) ==
    /\ pc[s] = "sent" /\ Conclude(s, rows, "none")
    /\ UNCHANGED <<provider, pacing, requests, history>>

\* The lookups: one request, whose answer of 200 counts if its context lasted until it
\* was read.
InTime(s, p) == provider = p /\ ~RequestEnded(s)
LookupProfile(s) == InTime(s, "ipinfo")
LookupDomain(s) == InTime(s, "securitytrails")
LookupLabel(s) == InTime(s, "bitcoin-labels")

\* SearchIP: the provider's profile of the address.
Profile(s) == LookupProfile(s) /\ Answered(s, <<"found">>)

\* SearchDomain: the provider's records of the domain.  404 is an error.
Domain(s) == LookupDomain(s) /\ Answered(s, <<"found">>)

\* An address has at most one label at the provider.
Label(s) == LookupLabel(s) /\ \E row \in {"found", "not_found"} : Answered(s, <<row>>)

\* SearchBitcoinTransaction: the transaction, or a 404 with the provider's own words.
Transaction(s) ==
    InTime(s, "bitcoin-tx") /\ \E row \in {"found", "not_found"} : Answered(s, <<row>>)

\* The breaches of an account: none for a 404 or an empty list.
LookupBreaches(s, n) == provider = "hibp" /\ n \in 0 .. MaxBreaches

\* SearchEmail: no breach, or one row for each.
Breaches(s) ==
    \E n \in 0 .. MaxBreaches :
        /\ LookupBreaches(s, n)
        /\ Answered(s, IF n = 0 THEN <<"not_found">> ELSE [i \in 1 .. n |-> "found"])

\* matchRange: the count of a suffix in lines that are all valid and name each suffix
\* once; None if they are not.
MatchRange(lines, suffix) ==
    IF \/ lines = <<>> \/ ~IsInjective([i \in DOMAIN lines |-> lines[i].suffix])
       \/ \E line \in ToSet(lines) : line.count = None
    THEN None
    ELSE MapThenSumSet(LAMBDA line : line.count, {line \in ToSet(lines) : line.suffix = suffix})

\* The answer to the prefix: the context is not looked at again.
LookupRange(s, occurrences) ==
    provider = "pwned-passwords" /\ \E lines \in Ranges : occurrences = MatchRange(lines, "own")

\* SearchPassword: a count of zero is padding.
PasswordRange(s) ==
    \E occurrences \in {None, 0, 1} :
        /\ LookupRange(s, occurrences)
        /\ IF occurrences = None
           THEN pc[s] = "sent" /\ Fail(s, "failed") /\ UNCHANGED <<provider, pacing, requests>>
           ELSE Answered(s, IF occurrences > 0 THEN <<"found">> ELSE <<"not_found">>)

\* The address's statistics are valid: the history begins.
Statistics(s) ==
    /\ pc[s] = "sent" /\ provider = "bitcoin" /\ count[s] = "none" /\ ~RequestEnded(s)
    /\ \E c \in {"zero", "some"} : count' = Set(count, s, c)
    /\ To(s, "get") /\ due' = Set(due, s, None)
    /\ UNCHANGED <<provider, pacing, gone, left, wake, requests, pages, txs, answer>>

Committed(s) == UNION {ToSet(pages[s][i]) : i \in DOMAIN pages[s]}

\* Two of these transactions have one ID and differ (sameTransaction).
Conflict(set) == \E t, u \in set : t.id = u.id /\ t # u

\* Faulty variant: the IDs decide.
LowestIds(set) ==
    {t \in set : Cardinality({u \in set : u.id < t.id}) < MaxTransactions}

\* Of these the newest, and of one time those with the lower IDs, as many as are
\* retained at most.
Newest(set) ==
    {t \in set :
        Cardinality({u \in set : u.time > t.time \/ (u.time = t.time /\ u.id < t.id)}) < MaxTransactions}

LastId(page) == Last(page).id
Cursors(s) == {LastId(pages[s][i]) : i \in DOMAIN pages[s]}

\* SearchBitcoin compares the statistics with the history it got without error.
Checked(s, retained) ==
    EndHistory(s, retained, IF (retained = {}) = (count[s] = "zero") THEN "none" ELSE "failed")

\* One page of history: refused as a whole, or committed; then the limit of
\* transactions, the last page, a cursor seen before, the limit of pages, or the
\* next page.
Page(s, page) ==
    LET seen == txs[s] \cup ToSet(page)
        valid == Len(page) <= PageSize /\ (\A t \in ToSet(page) : t.time # 0) /\ ~Conflict(seen)
        more == Len(page) = PageSize /\ Cardinality(seen) < MaxTransactions IN
    /\ pc[s] = "sent" /\ provider = "bitcoin" /\ count[s] # "none" /\ ~RequestEnded(s)
    /\ \/ ~valid /\ EndHistory(s, txs[s], "failed") /\ UNCHANGED pages
       \/ /\ valid /\ pages' = Set(pages, s, Append(pages[s], page))
          /\ \/ Cardinality(seen) >= MaxTransactions /\ Checked(s, Newest(seen))
             \/ Cardinality(seen) < MaxTransactions /\ Len(page) < PageSize /\ Checked(s, seen)
             \/ more /\ LastId(page) \in Cursors(s) /\ EndHistory(s, seen, "failed")
             \/ /\ more /\ LastId(page) \notin Cursors(s) /\ Len(pages[s]) + 1 = MaxPages
                /\ Checked(s, seen)
             \/ /\ more /\ LastId(page) \notin Cursors(s) /\ Len(pages[s]) + 1 < MaxPages
                /\ txs' = Set(txs, s, seen) /\ To(s, "get") /\ due' = Set(due, s, None)
                /\ UNCHANGED <<gone, left, wake, answer>>
    /\ UNCHANGED <<provider, pacing, requests, count>>

-----------------------------------------------------------------------------
(* Time and the caller *)

Less(n) == IF n > 0 THEN n - 1 ELSE n

Tick ==
    /\ next' = Less(next) /\ spacing' = Less(spacing) /\ cooldown' = Less(cooldown)
    /\ left' = [s \in Searches |-> Less(left[s])] /\ due' = [s \in Searches |-> Less(due[s])]
    /\ wake' = [s \in Searches |-> Less(wake[s])]
    /\ UNCHANGED <<provider, pc, gone, requests, history, answer>>

\* The caller's context is cancelled, before the search's own deadline.
Cancel(s) ==
    /\ pc[s] \in {"get", "wait", "sleep", "sent"} \/ (pc[s] = "emit" /\ provider = "hibp")
    /\ ~SearchEnded(s)
    /\ gone' = Set(gone, s, TRUE)
    /\ UNCHANGED <<provider, pacing, pc, request, history, answer>>

\* What a search does by itself.
SearchStep(s) == Get(s) \/ Check(s) \/ Wake(s) \/ Emit(s) \/ Return(s) \/ TimesOut(s)

\* What the provider and the network do.
Respond(s) ==
    \/ NetworkFails(s) \/ StatusError(s) \/ BadBody(s) \/ Profile(s) \/ Domain(s)
    \/ Label(s) \/ Transaction(s) \/ Breaches(s) \/ PasswordRange(s) \/ Statistics(s)
    \/ \E page \in Pages : Page(s, page)

Terminated == (\A s \in Searches : pc[s] = "done") /\ UNCHANGED vars

Next ==
    \/ Tick \/ Terminated
    \/ \E s \in Searches : Start(s) \/ SearchStep(s) \/ Respond(s) \/ Cancel(s)

Spec == Init /\ [][Next]_vars

\* Time passes and searches run; the provider, the network and the callers need
\* not do anything.
Fairness == WF_vars(Tick) /\ \A s \in Searches : WF_vars(SearchStep(s))

-----------------------------------------------------------------------------
(* Properties *)

\* Every variable keeps its type; no search asks for more requests than its budget,
\* so that the budget's own failure never occurs.
TypeOK ==
    /\ provider \in Providers
    /\ next \in Nat /\ spacing \in 0 .. Interval /\ cooldown \in 0 .. Max(RetryDelays \cup {1})
    /\ pc \in [Searches -> Pcs] /\ gone \in [Searches -> BOOLEAN]
    /\ left \in [Searches -> {None} \cup 0 .. Max({Investigation, RequestTimeout})]
    /\ due \in [Searches -> {None} \cup 0 .. RequestTimeout]
    /\ wake \in [Searches -> Nat]
    /\ requests \in [Searches -> 0 .. MaxPages + 1]
    /\ count \in [Searches -> {"none", "zero", "some"}]
    /\ \A s \in Searches :
          /\ pages[s] \in Seq(Pages) /\ Len(pages[s]) <= MaxPages
          /\ txs[s] \subseteq Transactions /\ Cardinality(txs[s]) <= MaxTransactions
          /\ queue[s] \in Seq({"found", "not_found", "error"})
    /\ told \in [Searches -> {"none", "found", "not_found", "error"}]
    /\ err \in [Searches -> Errors \ {"budget"}]

\* No request of a paced client starts less than Interval after the one before, or
\* before the end of a Retry-After that any of its searches was answered with; and a
\* client is held back no longer than that.
PacingKept ==
    [][/\ next' <= Max({spacing', cooldown'})
       /\ \A s \in Searches : provider \in Paced /\ requests'[s] > requests[s] =>
             spacing = 0 /\ cooldown = 0]_vars

\* What is emitted of a history is what the provider sent: each transaction of the
\* committed pages once, unless there are too many, and then the newest; nothing of
\* a page that was refused; and it is reported without an error only if it ended on a
\* short page or at a limit, and agrees with the statistics.  A returned error was told
\* in a row, except where HIBP's breaches are cut off by the context's end.
HistoryHonest(s) ==
    pc[s] = "emit" /\ count[s] # "none" =>
        /\ ~Conflict(txs[s]) /\ txs[s] \subseteq Committed(s)
        /\ \/ txs[s] = Committed(s)
           \/ /\ Cardinality(txs[s]) = MaxTransactions
              /\ \A t \in txs[s], u \in Committed(s) \ txs[s] : u.time <= t.time
        /\ err[s] = "none" =>
              /\ \/ Len(pages[s]) = MaxPages \/ Cardinality(txs[s]) = MaxTransactions
                 \/ Len(Last(pages[s])) < PageSize
              /\ (txs[s] = {}) = (count[s] = "zero")
RowsHonest(s) ==
    pc[s] = "emit" /\ queue[s] = <<>> =>
        CASE err[s] = "none" -> told[s] \in {"found", "not_found"}
          [] err[s] = "consumer" -> TRUE
          [] OTHER -> told[s] = "error" \/ (provider = "hibp" /\ told[s] # "not_found")
AnswersHonest == \A s \in Searches : HistoryHonest(s) /\ RowsHonest(s)

\* Every search returns, though the provider never answers and postpones the client
\* again and again.
SearchesReturn == \A s \in Searches : pc[s] = "get" ~> pc[s] = "done"

-----------------------------------------------------------------------------
(* Parts of the inductive invariant *)

\* What is kept is kept of each search.
OfSearches == DOMAIN pages = Searches /\ DOMAIN txs = Searches /\ DOMAIN queue = Searches

\* While a search asks, it retains exactly what the pages it committed hold, below
\* either limit, and has asked for what it got and what it waits for.
Answers(s) == IF count[s] = "none" THEN 0 ELSE 1 + Len(pages[s])
Asking(s) ==
    pc[s] \in {"absent", "get", "wait", "sleep", "sent"} =>
        /\ txs[s] = Committed(s) /\ ~Conflict(txs[s]) /\ IsFiniteSet(txs[s])
        /\ Cardinality(txs[s]) < MaxTransactions /\ Len(pages[s]) < MaxPages
        /\ count[s] = "none" => pages[s] = <<>>
        /\ pc[s] = "absent" \/ provider # "bitcoin" => count[s] = "none"
        /\ requests[s] = Answers(s) + (IF pc[s] = "sent" THEN 1 ELSE 0)

\* Rows are told in their order: any before the last is a found one, and the last is
\* the error, if there is one.
Emitting(s) ==
    IF pc[s] # "emit" THEN queue[s] = <<>> /\ told[s] = "none" /\ err[s] = "none"
    ELSE queue[s] # <<>> =>
            /\ told[s] \in {"none", "found"} /\ err[s] # "consumer"
            /\ \A i \in DOMAIN queue[s] :
                 IF i < Len(queue[s]) THEN queue[s][i] = "found"
                 ELSE (queue[s][i] = "error") = (err[s] # "none")

SearchInv ==
    /\ TypeOK /\ OfSearches
    /\ \A s \in Searches : Asking(s) /\ Emitting(s) /\ HistoryHonest(s) /\ RowsHonest(s)

=============================================================================
