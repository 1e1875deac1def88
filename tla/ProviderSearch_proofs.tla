------------------------ MODULE ProviderSearch_proofs ------------------------
(* The API sources, for any number of searches that share a client: the      *)
(* pacing of its requests, for any interval and any Retry-After, and what a   *)
(* search tells of the history it got, for any pages and limits.  At the end  *)
(* the arithmetic of the evidence, for transactions of any number of inputs   *)
(* and outputs.                                                               *)
EXTENDS ProviderSearch, BitcoinEvidence, FiniteSetTheorems, NaturalsInduction,
        WellFoundedInduction, TLAPS

\* The later of two instants.
Later(a, b) == IF a >= b THEN a ELSE b

\* The client is held back until the interval since its last start and every
\* Retry-After it was answered with have passed, and no longer.
PacingInv ==
    /\ next \in Nat /\ spacing \in Nat /\ cooldown \in Nat
    /\ next = Later(spacing, cooldown)
    /\ requests \in [Searches -> Nat]

\* What a search's step may do to the client: nothing, start a request, or postpone
\* the next one.
Quiet(s) == UNCHANGED pacing /\ (requests' = requests \/ requests' = Set(requests, s, 0))
Starts(s) == Send(s) /\ (provider \in Paced => next = 0)
LongestDelay == Max(RetryDelays \cup {1})
Postpones ==
    \E d \in 0 .. LongestDelay :
        Defer(d) /\ cooldown' = Max({cooldown, d}) /\ UNCHANGED <<spacing, requests>>

\* Max, of the community modules, for two numbers.
LEMMA MaxOfTwo ==
    ASSUME NEW a \in Nat, NEW b \in Nat
    PROVE  Max({a, b}) = Later(a, b)
<1>1. ASSUME NEW c \in {a, b}, \A y \in {a, b} : c >= y
      PROVE  Max({a, b}) = c
  BY <1>1 DEF Max
<1>2. QED
  BY <1>1 DEF Later

\* No Retry-After is longer than the longest.
LEMMA LongestIsLongest ==
    /\ LongestDelay \in Nat /\ LongestDelay >= 1
    /\ \A d \in RetryDelays : d <= LongestDelay
<1>1. PICK longest \in RetryDelays \cup {1} : \A d \in RetryDelays \cup {1} : d <= longest
  BY ProviderAssumption
<1>2. /\ LongestDelay \in RetryDelays \cup {1}
      /\ \A d \in RetryDelays \cup {1} : LongestDelay >= d
  <2>1. \A d \in RetryDelays \cup {1} : longest >= d
    BY <1>1, ProviderAssumption
  <2>2. \E x \in RetryDelays \cup {1} : \A d \in RetryDelays \cup {1} : x >= d
    BY <2>1
  <2> QED BY <2>2 DEF LongestDelay, Max
<1> QED BY <1>2, ProviderAssumption

\* A Retry-After is a number of ticks, as much as SecurityTrails makes of it.
LEMMA DelaysAreNumbers == StatusDelays \subseteq 0 .. LongestDelay
<1>1. \A d \in RetryDelays : Max({d, 1}) \in 0 .. LongestDelay
  BY ProviderAssumption, MaxOfTwo, LongestIsLongest DEF Later
<1>2. \A d \in RetryDelays : d \in 0 .. LongestDelay
  BY ProviderAssumption, LongestIsLongest
<1>3. CASE provider = "securitytrails"
  <2>1. ASSUME NEW x \in StatusDelays PROVE \E d \in RetryDelays : x = Max({d, 1})
    <3>1. provider \notin Limited
      BY <1>3 DEF Limited, Esplora
    <3>2. StatusDelays = {Max({d, 1}) : d \in RetryDelays}
      BY <1>3, <3>1 DEF StatusDelays
    <3> QED BY <2>1, <3>2
  <2> QED BY <1>1, <2>1
<1>4. CASE provider # "securitytrails"
  BY <1>2, <1>4 DEF StatusDelays
<1>5. QED
  BY <1>3, <1>4

\* A step of a search does one of the three.
LEMMA SearchSteps ==
    ASSUME NEW s \in Searches, Start(s) \/ SearchStep(s) \/ Respond(s) \/ Cancel(s)
    PROVE  provider' = provider /\ (Quiet(s) \/ Starts(s) \/ Postpones)
<1> USE DEF Quiet, pacing
<1>1. CASE Start(s) \/ Cancel(s)
  BY <1>1 DEF Start, Cancel, request
<1>2. CASE SearchStep(s)
  <2>1. CASE Get(s) \/ Wake(s) \/ TimesOut(s)
    BY <2>1 DEF Get, Wake, TimesOut, NetworkFails
  <2>2. CASE Emit(s) \/ Return(s)
    BY <2>2 DEF Emit, Return, request
  <2>3. CASE Check(s)
    BY <2>3 DEF Check, Starts
  <2>4. QED
    BY <1>2, <2>1, <2>2, <2>3 DEF SearchStep
<1>3. CASE Respond(s)
  <2>1. CASE NetworkFails(s) \/ BadBody(s) \/ Statistics(s)
    BY <2>1 DEF NetworkFails, BadBody, Statistics
  <2>2. CASE StatusError(s)
    BY <2>2, DelaysAreNumbers DEF StatusError, Postpones
  <2>3. CASE Profile(s) \/ Domain(s) \/ Label(s) \/ Transaction(s) \/ Breaches(s)
    BY <2>3 DEF Profile, Domain, Label, Transaction, Breaches, Answered
  <2>4. CASE PasswordRange(s)
    BY <2>4 DEF PasswordRange, Answered
  <2>5. CASE \E page \in Pages : Page(s, page)
    BY <2>5 DEF Page
  <2>6. QED
    BY <1>3, <2>1, <2>2, <2>3, <2>4, <2>5 DEF Respond
<1>4. QED
  BY <1>1, <1>2, <1>3

\* What PacingKept says of a step.
PacedStep ==
    /\ next' <= Max({spacing', cooldown'})
    /\ \A s \in Searches : provider \in Paced /\ requests'[s] > requests[s] =>
          spacing = 0 /\ cooldown = 0

\* Each of the three keeps the invariant and the pacing.
LEMMA StepKeepsPace ==
    ASSUME PacingInv, NEW s \in Searches, Quiet(s) \/ Starts(s) \/ Postpones
    PROVE  PacingInv' /\ PacedStep
<1> USE DEF PacingInv, Later
<1>1. CASE Quiet(s)
  <2>1. next' <= Max({spacing', cooldown'})
    BY <1>1, MaxOfTwo DEF Quiet, pacing
  <2>2. \A t \in Searches : ~(requests'[t] > requests[t])
    BY <1>1 DEF Quiet, Set
  <2>3. PacingInv'
    BY <1>1 DEF Quiet, pacing, Set
  <2>4. QED
    BY <2>1, <2>2, <2>3 DEF PacedStep
<1>2. CASE Starts(s)
  <2>1. /\ IF provider \in Paced THEN next = 0 /\ next' = Interval /\ spacing' = Interval
           ELSE UNCHANGED <<next, spacing>>
        /\ cooldown' = cooldown
        /\ requests' = Set(requests, s, requests[s] + 1)
    BY <1>2 DEF Starts, Send
  <2>2. provider \in Paced => spacing = 0 /\ cooldown = 0
    BY <2>1
  <2>3. Interval \in Nat
    BY ProviderAssumption
  <2>4. PacingInv'
    BY <2>1, <2>2, <2>3 DEF Set
  <2>5. next' <= Max({spacing', cooldown'})
    BY <2>4, MaxOfTwo
  <2>6. QED
    BY <2>2, <2>4, <2>5 DEF PacedStep
<1>3. CASE Postpones
  <2>1. PICK d \in 0 .. LongestDelay :
          /\ next' = Max({next, d}) /\ cooldown' = Max({cooldown, d})
          /\ spacing' = spacing /\ requests' = requests
    BY <1>3 DEF Postpones, Defer
  <2>2. d \in Nat /\ next' = Later(next, d) /\ cooldown' = Later(cooldown, d)
    BY <2>1, MaxOfTwo, LongestIsLongest
  <2>3. PacingInv'
    BY <2>1, <2>2
  <2>4. next' <= Max({spacing', cooldown'})
    BY <2>3, MaxOfTwo
  <2>5. \A t \in Searches : ~(requests'[t] > requests[t])
    BY <2>1
  <2>6. QED
    BY <2>3, <2>4, <2>5 DEF PacedStep
<1>4. QED
  BY <1>1, <1>2, <1>3

\* So does the passing of time.
LEMMA TickKeepsPace == ASSUME PacingInv, Tick PROVE PacingInv' /\ PacedStep
<1> USE DEF PacingInv, Later
<1>1. PacingInv'
  BY DEF Tick, Less
<1>2. next' <= Max({spacing', cooldown'})
  BY <1>1, MaxOfTwo
<1>3. \A t \in Searches : ~(requests'[t] > requests[t])
  BY DEF Tick
<1>4. QED
  BY <1>1, <1>2, <1>3 DEF PacedStep

\* Every step does.
LEMMA NextKeepsPace == ASSUME PacingInv, [Next]_vars PROVE PacingInv' /\ [PacedStep]_vars
<1>1. CASE Tick
  BY <1>1, TickKeepsPace
<1>2. CASE UNCHANGED vars
  BY <1>2 DEF vars, pacing, request, PacingInv, Later
<1>3. ASSUME NEW s \in Searches, Start(s) \/ SearchStep(s) \/ Respond(s) \/ Cancel(s)
      PROVE  PacingInv' /\ PacedStep
  BY <1>3, SearchSteps, StepKeepsPace
<1>4. QED
  BY <1>1, <1>2, <1>3 DEF Next, Terminated

\* However many searches share a client, whatever Retry-After they are answered with,
\* in any order, no request starts before the interval and every cooldown have passed,
\* and the client is held back no longer (HostLimiter.WaitContext and Defer,
\* securitytrails.Client.wait).
THEOREM RequestsArePaced == Spec => PacingKept
<1>1. Init => PacingInv
  BY DEF Init, Idle, PacingInv, Later
<1>2. PacingInv /\ [Next]_vars => PacingInv' /\ [PacedStep]_vars
  BY NextKeepsPace
<1>3. Spec => [][PacedStep]_vars
  BY <1>1, <1>2, PTL DEF Spec
<1>4. QED
  BY <1>3 DEF PacingKept, PacedStep

-----------------------------------------------------------------------------
(* The newest transactions *)

\* The transactions that come before t in the order results are given in.
Before(set, t) == {u \in set : u.time > t.time \/ (u.time = t.time /\ u.id < t.id)}

\* Its order is total on transactions without a conflict, and transitive: what comes
\* before an earlier one comes before a later one, and so does the earlier one itself.
LEMMA Ordered ==
    ASSUME NEW set \in SUBSET Transactions, ~Conflict(set), NEW t \in set, NEW u \in set
    PROVE  /\ t = u \/ t \in Before(set, u) \/ u \in Before(set, t)
           /\ t \in Before(set, u) =>
                Before(set, t) \subseteq Before(set, u) /\ t \notin Before(set, t)
<1>1. \A x \in set : x.id \in Nat /\ x.time \in Nat
  BY DEF Transactions
<1>2. t # u => t.id # u.id
  BY DEF Conflict
<1>3. t = u \/ t \in Before(set, u) \/ u \in Before(set, t)
  BY <1>1, <1>2 DEF Before
<1>4. t \notin Before(set, t)
  BY <1>1 DEF Before
<1>5. ASSUME t \in Before(set, u), NEW x \in Before(set, t)
      PROVE  x \in Before(set, u)
  <2>1. /\ x \in set
        /\ x.time > t.time \/ (x.time = t.time /\ x.id < t.id)
        /\ t.time > u.time \/ (t.time = u.time /\ t.id < u.id)
    BY <1>5 DEF Before
  <2>2. x.time > u.time \/ (x.time = u.time /\ x.id < u.id)
    BY <1>1, <2>1
  <2> QED BY <2>1, <2>2 DEF Before
<1> QED BY <1>3, <1>4, <1>5

\* The place of a transaction in that order.
Place(set, t) == Cardinality(Before(set, t))

\* Every transaction has a place of its own, and one that comes before has a lower one.
LEMMA Places ==
    ASSUME NEW set \in SUBSET Transactions, IsFiniteSet(set), ~Conflict(set)
    PROVE  /\ \A t \in set : Place(set, t) \in 0 .. Cardinality(set) - 1
           /\ \A t, u \in set : t \in Before(set, u) => Place(set, t) < Place(set, u)
           /\ \A t, u \in set : Place(set, t) = Place(set, u) => t = u
<1>1. ASSUME NEW t \in set
      PROVE  /\ IsFiniteSet(Before(set, t)) /\ Place(set, t) \in Nat
             /\ Place(set, t) \in 0 .. Cardinality(set) - 1
  <2>1. Before(set, t) \subseteq set /\ t \notin Before(set, t)
    <3>1. t.id \in Nat /\ t.time \in Nat
      BY DEF Transactions
    <3> QED BY <3>1 DEF Before
  <2>2. IsFiniteSet(Before(set, t)) /\ Cardinality(Before(set, t)) <= Cardinality(set)
    BY <2>1, FS_Subset
  <2>3. Cardinality(Before(set, t)) # Cardinality(set)
    BY <2>1, FS_Subset
  <2>4. Cardinality(Before(set, t)) \in Nat /\ Cardinality(set) \in Nat
    BY <2>2, FS_CardinalityType
  <2> QED BY <2>2, <2>3, <2>4 DEF Place
<1>2. ASSUME NEW t \in set, NEW u \in set, t \in Before(set, u)
      PROVE  Place(set, t) < Place(set, u)
  <2>1. /\ Before(set, t) \subseteq Before(set, u)
        /\ t \in Before(set, u) /\ t \notin Before(set, t)
    BY <1>2, Ordered
  <2>2. Cardinality(Before(set, t)) <= Cardinality(Before(set, u))
    BY <1>1, <2>1, FS_Subset
  <2>3. Cardinality(Before(set, t)) # Cardinality(Before(set, u))
    BY <1>1, <2>1, FS_Subset
  <2> QED BY <1>1, <2>2, <2>3 DEF Place
<1>3. ASSUME NEW t \in set, NEW u \in set, Place(set, t) = Place(set, u)
      PROVE  t = u
  <2>1. Place(set, t) \in Nat /\ Place(set, u) \in Nat
    BY <1>1
  <2>2. t \notin Before(set, u) /\ u \notin Before(set, t)
    BY <1>2, <1>3, <2>1
  <2> QED BY <2>2, Ordered
<1> QED BY <1>1, <1>2, <1>3

\* As many numbers are below n.
LEMMA NumbersBelow ==
    ASSUME NEW n \in Nat
    PROVE  IsFiniteSet(0 .. n - 1) /\ Cardinality(0 .. n - 1) = n
<1>1. n - 1 \in Int /\ 0 \in Int
  OBVIOUS
<1>2. IsFiniteSet(0 .. n - 1)
  BY <1>1, FS_Interval
<1>3. Cardinality(0 .. n - 1) = IF 0 > n - 1 THEN 0 ELSE (n - 1) - 0 + 1
  BY <1>1, FS_Interval
<1>4. (IF 0 > n - 1 THEN 0 ELSE (n - 1) - 0 + 1) = n
  OBVIOUS
<1> QED BY <1>2, <1>3, <1>4

\* What is retained of too many transactions is as many as allowed, and none that is
\* left out is newer (history's sort and truncation).
THEOREM NewestKept ==
    ASSUME NEW set \in SUBSET Transactions, IsFiniteSet(set), ~Conflict(set)
    PROVE  /\ Newest(set) \subseteq set
           /\ IsFiniteSet(Newest(set)) /\ Cardinality(Newest(set)) <= MaxTransactions
           /\ Cardinality(set) >= MaxTransactions =>
                Cardinality(Newest(set)) = MaxTransactions
           /\ \A t \in Newest(set), u \in set \ Newest(set) : u.time <= t.time
<1>1. Newest(set) = {t \in set : Place(set, t) < MaxTransactions}
  BY DEF Newest, Place, Before
<1>2. Newest(set) \subseteq set /\ IsFiniteSet(Newest(set))
  BY <1>1, FS_Subset
<1>3. /\ MaxTransactions \in Nat /\ MaxTransactions > 0
      /\ Cardinality(set) \in Nat /\ Cardinality(Newest(set)) \in Nat
  BY <1>2, FS_CardinalityType, ProviderAssumption
<1> DEFINE low == 0 .. MaxTransactions - 1
           place == [t \in Newest(set) |-> Place(set, t)]
<1>4. IsFiniteSet(low) /\ Cardinality(low) = MaxTransactions
  BY <1>3, NumbersBelow
<1>5. place \in Injection(Newest(set), low)
  <2>1. \A t \in Newest(set) : Place(set, t) \in low
    BY <1>1, <1>3, Places
  <2>2. \A t, u \in Newest(set) : Place(set, t) = Place(set, u) => t = u
    BY <1>2, Places
  <2> QED BY <2>1, <2>2 DEF Injection, IsInjective
<1>6. Cardinality(Newest(set)) <= MaxTransactions
  BY <1>4, <1>5, FS_Injection
<1>7. ASSUME Cardinality(set) >= MaxTransactions
      PROVE  Cardinality(Newest(set)) = MaxTransactions
  <2> DEFINE all == 0 .. Cardinality(set) - 1
             places == [t \in set |-> Place(set, t)]
  <2>1. places \in Injection(set, all)
    BY Places DEF Injection, IsInjective
  <2>2. IsFiniteSet(all) /\ Cardinality(all) = Cardinality(set)
    BY <1>3, NumbersBelow
  <2>3. places \in Surjection(set, all)
    <3> HIDE DEF places, all
    <3> QED BY <2>1, <2>2, FS_Injection
  <2>4. place \in Surjection(Newest(set), low)
    <3>1. ASSUME NEW n \in low PROVE \E t \in Newest(set) : place[t] = n
      <4>1. n \in all /\ n < MaxTransactions
        BY <1>3, <1>7
      <4>2. PICK t \in set : Place(set, t) = n
        BY <2>3, <4>1 DEF Surjection
      <4> QED BY <1>1, <4>1, <4>2
    <3> QED BY <1>5, <3>1 DEF Injection, Surjection
  <2>5. Cardinality(low) <= Cardinality(Newest(set))
    <3> HIDE DEF place, low
    <3> QED BY <1>2, <2>4, FS_Surjection
  <2> QED BY <1>3, <1>4, <1>6, <2>5
<1>8. ASSUME NEW t \in Newest(set), NEW u \in set \ Newest(set)
      PROVE  u.time <= t.time
  <2>1. Place(set, t) < MaxTransactions /\ ~(Place(set, u) < MaxTransactions)
    BY <1>1, <1>8
  <2>2. Place(set, t) \in Nat /\ Place(set, u) \in Nat
    BY <1>2, <1>8, Places
  <2>3. u \notin Before(set, t)
    BY <1>2, <1>3, <1>8, <2>1, <2>2, Places
  <2>4. u.time \in Nat /\ t.time \in Nat
    BY <1>2, <1>8 DEF Transactions
  <2> QED BY <1>8, <2>3, <2>4 DEF Before
<1> QED BY <1>2, <1>6, <1>7, <1>8

-----------------------------------------------------------------------------
(* The searches' state *)

\* The invariant in three parts: what time shortens, what paces the client, the rest.
Ticking ==
    /\ gone \in [Searches -> BOOLEAN]
    /\ left \in [Searches -> {None} \cup 0 .. Max({Investigation, RequestTimeout})]
    /\ due \in [Searches -> {None} \cup 0 .. RequestTimeout]
    /\ wake \in [Searches -> Nat]
Pacing == next \in Nat /\ spacing \in 0 .. Interval /\ cooldown \in 0 .. LongestDelay
Kinds ==
    /\ provider \in Providers /\ pc \in [Searches -> Pcs]
    /\ requests \in [Searches -> 0 .. MaxPages + 1]
    /\ count \in [Searches -> {"none", "zero", "some"}]
    /\ told \in [Searches -> {"none", "found", "not_found", "error"}]
    /\ err \in [Searches -> Errors \ {"budget"}]
    /\ OfSearches
KeptOf(s) ==
    /\ pages[s] \in Seq(Pages) /\ Len(pages[s]) <= MaxPages
    /\ txs[s] \subseteq Transactions /\ Cardinality(txs[s]) <= MaxTransactions
    /\ queue[s] \in Seq({"found", "not_found", "error"})
Search(s) == KeptOf(s) /\ Asking(s) /\ Emitting(s) /\ HistoryHonest(s) /\ RowsHonest(s)
Rest == Kinds /\ \A s \in Searches : Search(s)

\* The inductive invariant is these three.
LEMMA PartsOfInvariant == SearchInv <=> Ticking /\ Pacing /\ Rest
  BY DEF SearchInv, TypeOK, Ticking, Pacing, Rest, Kinds, Search, KeptOf, LongestDelay

\* Nothing that a search's part of the invariant speaks of changes.
Same(s) ==
    /\ pc'[s] = pc[s] /\ requests'[s] = requests[s] /\ count'[s] = count[s]
    /\ pages'[s] = pages[s] /\ txs'[s] = txs[s]
    /\ queue'[s] = queue[s] /\ told'[s] = told[s] /\ err'[s] = err[s]

\* Then the search's part of the invariant stays true.
LEMMA SameSearch ==
    ASSUME NEW s \in Searches, Search(s), provider' = provider, Same(s)
    PROVE  Search(s)'
<1>1. Committed(s)' = Committed(s)
  BY DEF Same, Committed
<1>2. KeptOf(s)' /\ Emitting(s)'
  BY DEF Same, Search, KeptOf, Emitting
<1>5. Asking(s)'
  <2>1. Answers(s)' = Answers(s)
    BY DEF Same, Answers
  <2> QED BY <1>1, <2>1 DEF Same, Search, Asking
<1>3. HistoryHonest(s)'
  BY <1>1 DEF Same, Search, HistoryHonest
<1>4. RowsHonest(s)'
  BY DEF Same, Search, RowsHonest
<1> QED
  BY <1>2, <1>3, <1>4, <1>5 DEF Search

\* A step of one search leaves the others' alone.
LEMMA OneSearch ==
    ASSUME Rest, NEW s \in Searches, Kinds', provider' = provider,
           \A u \in Searches \ {s} : Same(u), Search(s)'
    PROVE  Rest'
  BY SameSearch DEF Rest

\* The pacing stays within its bounds.
LEMMA PacingStep == ASSUME Pacing, [Next]_vars PROVE Pacing'
<1> USE DEF Pacing
<1>1. Interval \in Nat /\ LongestDelay \in Nat
  BY ProviderAssumption, LongestIsLongest
<1>2. CASE Tick
  BY <1>1, <1>2 DEF Tick, Less
<1>3. CASE UNCHANGED vars
  BY <1>3 DEF vars, pacing
<1>4. ASSUME NEW s \in Searches, Start(s) \/ SearchStep(s) \/ Respond(s) \/ Cancel(s)
      PROVE  Pacing'
  <2>1. CASE Quiet(s)
    BY <2>1 DEF Quiet, pacing
  <2>2. CASE Starts(s)
    BY <1>1, <2>2 DEF Starts, Send
  <2>3. CASE Postpones
    <3>1. PICK d \in 0 .. LongestDelay :
            /\ next' = Max({next, d}) /\ cooldown' = Max({cooldown, d})
            /\ spacing' = spacing
      BY <2>3 DEF Postpones, Defer
    <3>2. d \in Nat /\ next' = Later(next, d) /\ cooldown' = Later(cooldown, d)
      BY <1>1, <3>1, MaxOfTwo
    <3> QED BY <1>1, <3>1, <3>2 DEF Later
  <2> QED BY <1>4, <2>1, <2>2, <2>3, SearchSteps
<1> QED BY <1>2, <1>3, <1>4 DEF Next, Terminated

\* So do the deadlines: a conclusion or a request of one search sets them anew.
LEMMA TickingStep == ASSUME Ticking, Pacing, [Next]_vars PROVE Ticking'
<1>1. /\ RequestTimeout \in Nat /\ Investigation \in Nat
      /\ Max({Investigation, RequestTimeout}) = Later(Investigation, RequestTimeout)
  BY ProviderAssumption, MaxOfTwo
<1> DEFINE L == Max({Investigation, RequestTimeout})
<1>2. L \in Nat /\ Investigation \in 0 .. L /\ RequestTimeout \in 0 .. L
  BY <1>1 DEF Later
<1> HIDE DEF L
<1>3. Ticking <=> /\ gone \in [Searches -> BOOLEAN]
                  /\ left \in [Searches -> {None} \cup 0 .. L]
                  /\ due \in [Searches -> {None} \cup 0 .. RequestTimeout]
                  /\ wake \in [Searches -> Nat]
  BY DEF Ticking, L
<1>4. Ticking' <=> /\ gone' \in [Searches -> BOOLEAN]
                   /\ left' \in [Searches -> {None} \cup 0 .. L]
                   /\ due' \in [Searches -> {None} \cup 0 .. RequestTimeout]
                   /\ wake' \in [Searches -> Nat]
  BY DEF Ticking, L
<1>5. CASE Tick
  <2>1. \A n \in Nat : Less(None) = None /\ \A m \in 0 .. n : Less(m) \in 0 .. n
    BY DEF Less, None
  <2>2. \A n \in Nat : Less(n) \in Nat
    BY DEF Less
  <2>3. \A s \in Searches : Less(left[s]) \in {None} \cup 0 .. L
    BY <1>2, <1>3, <2>1
  <2>4. \A s \in Searches : Less(due[s]) \in {None} \cup 0 .. RequestTimeout
    BY <1>1, <1>3, <2>1
  <2> QED BY <1>3, <1>4, <1>5, <2>2, <2>3, <2>4 DEF Tick
<1>6. CASE UNCHANGED vars
  BY <1>3, <1>4, <1>6 DEF vars, request
<1>7. ASSUME NEW s \in Searches, Start(s) \/ SearchStep(s) \/ Respond(s) \/ Cancel(s)
      PROVE  Ticking'
  <2>1. ASSUME NEW row, NEW e, Conclude(s, row, e) PROVE Ticking'
    BY <1>3, <1>4, <2>1 DEF Conclude, Set
  <2>2. CASE Start(s) \/ Cancel(s)
    BY <1>2, <1>3, <1>4, <2>2 DEF Start, Cancel, Set, request
  <2>3. CASE Get(s)
    BY <1>1, <1>3, <1>4, <2>1, <2>3 DEF Get, Fail, Set
  <2>4. CASE Check(s)
    <3>1. CASE Fail(s, ContextError(s))
      BY <2>1, <3>1 DEF Fail
    <3>2. CASE Send(s) /\ UNCHANGED <<wake, gone, left>>
      BY <1>1, <1>3, <1>4, <3>2 DEF Send, Set
    <3>3. CASE wake' = Set(wake, s, next) /\ UNCHANGED <<gone, left, due>>
      BY <1>3, <1>4, <3>3 DEF Set, Pacing
    <3> QED BY <2>4, <3>1, <3>2, <3>3 DEF Check
  <2>5. CASE Wake(s) \/ TimesOut(s) \/ NetworkFails(s) \/ StatusError(s) \/ BadBody(s)
    BY <1>3, <1>4, <2>1, <2>5 DEF Wake, TimesOut, NetworkFails, StatusError, BadBody, Fail
  <2>6. CASE Emit(s) \/ Return(s)
    BY <1>3, <1>4, <2>6 DEF Emit, Return, request, Set
  <2>7. CASE Profile(s) \/ Domain(s) \/ Label(s) \/ Transaction(s) \/ Breaches(s)
               \/ PasswordRange(s)
    BY <2>1, <2>7 DEF Profile, Domain, Label, Transaction, Breaches, PasswordRange, Answered,
       Fail
  <2>8. CASE Statistics(s)
    BY <1>3, <1>4, <2>8 DEF Statistics, Set
  <2>9. CASE \E page \in Pages : Page(s, page)
    BY <1>3, <1>4, <2>1, <2>9 DEF Page, EndHistory, Checked, Set
  <2> QED BY <1>7, <2>2, <2>3, <2>4, <2>5, <2>6, <2>7, <2>8, <2>9 DEF SearchStep, Respond
<1> QED BY <1>5, <1>6, <1>7 DEF Next, Terminated

\* A search comes one step closer to an answer; what it has got stays.
LEMMA AskStep ==
    ASSUME Rest, NEW s \in Searches, NEW to \in {"get", "wait", "sleep", "sent"},
           pc[s] \in {"absent", "get", "wait", "sleep"}, pc' = Set(pc, s, to),
           requests' = IF to = "sent" THEN Set(requests, s, requests[s] + 1) ELSE requests,
           UNCHANGED <<provider, history, answer>>
    PROVE  Rest'
<1>1. Search(s) /\ Kinds
  BY DEF Rest
<1>2. /\ pc'[s] = to /\ count'[s] = count[s] /\ pages'[s] = pages[s] /\ txs'[s] = txs[s]
      /\ queue'[s] = queue[s] /\ told'[s] = told[s] /\ err'[s] = err[s]
      /\ Committed(s)' = Committed(s) /\ Answers(s)' = Answers(s)
  BY <1>1 DEF Kinds, Set, history, answer, Committed, Answers
<1>3. Answers(s) \in Nat /\ Answers(s) <= MaxPages /\ requests[s] = Answers(s)
  <2>1. MaxPages \in Nat /\ MaxPages > 0
    BY ProviderAssumption
  <2>2. Len(pages[s]) \in Nat /\ Len(pages[s]) < MaxPages /\ requests[s] = Answers(s)
    <3>1. requests[s] = Answers(s) + 0 /\ Len(pages[s]) < MaxPages
      BY <1>1 DEF Search, Asking
    <3>2. Len(pages[s]) \in Nat
      BY <1>1 DEF Search, KeptOf
    <3>3. Answers(s) \in Nat
      BY <3>2 DEF Answers
    <3> QED BY <3>1, <3>2, <3>3
  <2> QED BY <2>1, <2>2 DEF Answers
<1>4. requests'[s] = Answers(s) + (IF to = "sent" THEN 1 ELSE 0)
  BY <1>1, <1>3 DEF Kinds, Set
<1>5. Kinds'
  <2>1. requests' \in [Searches -> 0 .. MaxPages + 1]
    BY <1>1, <1>3, ProviderAssumption DEF Kinds, Set
  <2>2. pc' \in [Searches -> Pcs]
    BY <1>1 DEF Kinds, Set, Pcs
  <2> QED BY <1>1, <2>1, <2>2 DEF Kinds, OfSearches, history, answer
<1>6. Search(s)'
  <2>1. KeptOf(s)'
    BY <1>1, <1>2 DEF Search, KeptOf
  <2>2. Asking(s)'
    BY <1>1, <1>2, <1>4 DEF Search, Asking
  <2>3. Emitting(s)'
    BY <1>1, <1>2 DEF Search, Emitting
  <2>4. HistoryHonest(s)' /\ RowsHonest(s)'
    BY <1>2 DEF HistoryHonest, RowsHonest
  <2> QED BY <2>1, <2>2, <2>3, <2>4 DEF Search
<1>7. \A u \in Searches \ {s} : Same(u)
  BY <1>1 DEF Same, Set, Kinds, history, answer
<1> QED BY <1>5, <1>6, <1>7, OneSearch

\* Rows of an answer: found ones up to the last.
Rows(row) ==
    /\ row \in Seq({"found", "not_found"}) /\ row # <<>>
    /\ \A i \in DOMAIN row : i < Len(row) => row[i] = "found"

\* A search that concludes has rows to tell: its answer's, or an error row last.
LEMMA ConcludeStep ==
    ASSUME Rest, NEW s \in Searches, NEW row, NEW e \in {"none", "timeout", "cancelled", "failed"},
           pc[s] \in {"get", "wait", "sleep", "sent"}, Conclude(s, row, e),
           e = "none" => provider = "bitcoin" \/ Rows(row),
           UNCHANGED <<provider, requests, count>>,
           DOMAIN pages' = Searches, DOMAIN txs' = Searches,
           \A u \in Searches \ {s} : pages'[u] = pages[u] /\ txs'[u] = txs[u],
           pages'[s] \in Seq(Pages), Len(pages'[s]) <= MaxPages,
           txs'[s] \subseteq Transactions, Cardinality(txs'[s]) <= MaxTransactions,
           HistoryHonest(s)'
    PROVE  Rest'
<1>1. Search(s) /\ Kinds
  BY DEF Rest
<1>2. PICK q : /\ queue' = Set(queue, s, q)
               /\ q = IF provider = "bitcoin"
                      THEN IF e = "none" THEN <<"found">> ELSE <<"found", "error">>
                      ELSE IF e = "none" THEN row ELSE <<"error">>
  BY DEF Conclude
<1>3. /\ pc' = Set(pc, s, "emit") /\ err' = Set(err, s, e) /\ told' = told
      /\ pc'[s] = "emit" /\ err'[s] = e /\ told'[s] = "none" /\ queue'[s] = q
  BY <1>1, <1>2 DEF Conclude, To, Set, Kinds, OfSearches, Search, Emitting
<1>4. /\ q \in Seq({"found", "not_found", "error"}) /\ q # <<>>
      /\ \A i \in DOMAIN q : IF i < Len(q) THEN q[i] = "found"
                             ELSE (q[i] = "error") = (e # "none")
  <2>1. CASE q = <<"found">> /\ e = "none"
    BY <2>1
  <2>2. CASE q = <<"found", "error">> /\ e # "none"
    BY <2>2
  <2>3. CASE q = <<"error">> /\ e # "none"
    BY <2>3
  <2>4. CASE q = row /\ e = "none" /\ Rows(row)
    <3>1. row \in Seq({"found", "not_found", "error"}) /\ row # <<>>
      BY <2>4 DEF Rows
    <3>2. \A i \in DOMAIN row : row[i] \in {"found", "not_found"}
      BY <2>4 DEF Rows
    <3> QED BY <2>4, <3>1, <3>2 DEF Rows
  <2> QED BY <1>2, <2>1, <2>2, <2>3, <2>4
<1>5. Kinds'
  BY <1>1, <1>2, <1>3 DEF Kinds, OfSearches, Set, Pcs, Errors
<1>6. Search(s)'
  <2>1. KeptOf(s)'
    BY <1>3, <1>4 DEF KeptOf
  <2>2. Asking(s)'
    BY <1>3 DEF Asking
  <2>3. Emitting(s)'
    BY <1>3, <1>4 DEF Emitting
  <2>4. RowsHonest(s)'
    BY <1>3, <1>4 DEF RowsHonest
  <2> QED BY <2>1, <2>2, <2>3, <2>4 DEF Search
<1>7. \A u \in Searches \ {s} : Same(u)
  BY <1>1, <1>2, <1>3 DEF Same, Set, Kinds, OfSearches
<1> QED BY <1>5, <1>6, <1>7, OneSearch

\* A failed request leaves the history as far as it got, and tells so.
LEMMA FailStep ==
    ASSUME Rest, NEW s \in Searches, NEW e \in {"timeout", "cancelled", "failed"},
           pc[s] \in {"get", "wait", "sleep", "sent"}, Fail(s, e),
           UNCHANGED <<provider, requests>>
    PROVE  Rest'
<1>1. Search(s) /\ Kinds
  BY DEF Rest
<1>2. Conclude(s, <<>>, e) /\ UNCHANGED <<count, pages, txs>>
  BY DEF Fail, history
<1>3. err'[s] = e
  BY <1>1, <1>2 DEF Conclude, Set, Kinds
<1>4. HistoryHonest(s)'
  <2>1. Committed(s)' = Committed(s)
    BY <1>2 DEF Committed
  <2> QED BY <1>1, <1>2, <1>3, <2>1 DEF Search, Asking, HistoryHonest
<1> QED BY <1>1, <1>2, <1>4, ConcludeStep DEF Kinds, OfSearches, Search, KeptOf

\* A lookup's answer has no history.
LEMMA AnsweredStep ==
    ASSUME Rest, NEW s \in Searches, NEW row, Rows(row), provider # "bitcoin",
           Answered(s, row)
    PROVE  Rest'
<1>1. Search(s) /\ Kinds
  BY DEF Rest
<1>2. /\ Conclude(s, row, "none") /\ pc[s] = "sent"
      /\ UNCHANGED <<provider, requests, count, pages, txs>>
  BY DEF Answered, history
<1>3. HistoryHonest(s)'
  <2>1. count'[s] = "none"
    BY <1>1, <1>2 DEF Search, Asking
  <2> QED BY <2>1 DEF HistoryHonest
<1> QED BY <1>1, <1>2, <1>3, ConcludeStep DEF Kinds, OfSearches, Search, KeptOf

\* A row is taken, refused or cut off; the last one taken tells how it ended.
LEMMA EmitStep == ASSUME Rest, NEW s \in Searches, Emit(s) PROVE Rest'
<1>1. Search(s) /\ Kinds /\ pc[s] = "emit" /\ queue[s] # <<>>
  BY DEF Rest, Emit
<1>2. /\ UNCHANGED <<provider, pc, requests>>
      /\ count' = Set(count, s, "none") /\ pages' = Set(pages, s, <<>>)
      /\ txs' = Set(txs, s, {})
  BY DEF Emit, request
<1>3. /\ queue[s] \in Seq({"found", "not_found", "error"}) /\ Len(queue[s]) \in Nat
      /\ Len(queue[s]) >= 1 /\ told[s] \in {"none", "found"} /\ err[s] # "consumer"
      /\ \A i \in DOMAIN queue[s] :
           IF i < Len(queue[s]) THEN queue[s][i] = "found"
           ELSE (queue[s][i] = "error") = (err[s] # "none")
  BY <1>1 DEF Search, KeptOf, Emitting
<1>4. PICK q, t, e : /\ queue' = Set(queue, s, q) /\ told' = Set(told, s, t)
                     /\ err' = Set(err, s, e)
                     /\ \/ /\ q = <<>> /\ t = told[s]
                           /\ \/ e \in {"cancelled", "timeout"} /\ provider = "hibp"
                              \/ e = "consumer"
                        \/ q = Tail(queue[s]) /\ t = Head(queue[s]) /\ e = err[s]
  <2>1. told = Set(told, s, told[s]) /\ err = Set(err, s, err[s])
    BY <1>1 DEF Kinds, Set
  <2>2. ContextError(s) \in {"cancelled", "timeout"}
    BY DEF ContextError
  <2> QED BY <2>1, <2>2 DEF Emit
<1>5. /\ pc'[s] = "emit" /\ count'[s] = "none" /\ pages'[s] = <<>> /\ txs'[s] = {}
      /\ queue'[s] = q /\ told'[s] = t /\ err'[s] = e
  BY <1>1, <1>2, <1>4 DEF Kinds, OfSearches, Set
<1>6. q = Tail(queue[s]) =>
        /\ q \in Seq({"found", "not_found", "error"}) /\ Len(q) = Len(queue[s]) - 1
        /\ \A i \in DOMAIN q : i + 1 \in DOMAIN queue[s] /\ q[i] = queue[s][i + 1]
        /\ Head(queue[s]) = queue[s][1] /\ 1 \in DOMAIN queue[s]
  BY <1>3
<1>7. /\ q \in Seq({"found", "not_found", "error"})
      /\ t \in {"none", "found", "not_found", "error"} /\ e \in Errors \ {"budget"}
  <2>1. CASE q = <<>> /\ t = told[s] /\ e \in {"cancelled", "timeout", "consumer"}
    BY <1>3, <2>1 DEF Errors
  <2>2. CASE q = Tail(queue[s]) /\ t = Head(queue[s]) /\ e = err[s]
    BY <1>1, <1>3, <1>6, <2>2 DEF Kinds
  <2> QED BY <1>4, <2>1, <2>2
<1>8. Kinds'
  BY <1>1, <1>2, <1>4, <1>7 DEF Kinds, OfSearches, Set
<1>9. Search(s)'
  <2>1. KeptOf(s)'
    <3>1. Cardinality({}) = 0 /\ Len(<<>>) = 0 /\ <<>> \in Seq(Pages)
      BY FS_EmptySet
    <3> QED BY <1>5, <1>7, <3>1, ProviderAssumption DEF KeptOf
  <2>2. Asking(s)' /\ HistoryHonest(s)'
    BY <1>5 DEF Asking, HistoryHonest
  <2>3. Emitting(s)' /\ RowsHonest(s)'
    <3>1. CASE /\ q = <<>> /\ t = told[s]
               /\ \/ e \in {"cancelled", "timeout"} /\ provider = "hibp"
                  \/ e = "consumer"
      BY <1>2, <1>3, <1>5, <3>1 DEF Emitting, RowsHonest
    <3>2. CASE q = Tail(queue[s]) /\ t = Head(queue[s]) /\ e = err[s]
      <4>1. CASE Len(queue[s]) = 1
        <5>1. q = <<>>
          BY <1>6, <3>2, <4>1
        <5>2. (t = "error") = (err[s] # "none") /\ t \in {"found", "not_found", "error"}
          BY <1>3, <1>6, <3>2, <4>1
        <5> QED BY <1>3, <1>5, <3>2, <5>1, <5>2 DEF Emitting, RowsHonest
      <4>2. CASE Len(queue[s]) > 1
        <5>1. q # <<>> /\ t = "found"
          <6>1. Len(q) = Len(queue[s]) - 1 /\ t = queue[s][1] /\ 1 \in DOMAIN queue[s]
            BY <1>6, <3>2
          <6>2. Len(q) > 0
            BY <1>3, <4>2, <6>1
          <6>3. t = "found"
            BY <1>3, <4>2, <6>1
          <6>4. Len(<<>>) = 0
            OBVIOUS
          <6> QED BY <6>2, <6>3, <6>4
        <5>2. \A i \in DOMAIN q : IF i < Len(q) THEN q[i] = "found"
                                  ELSE (q[i] = "error") = (err[s] # "none")
          <6>1. ASSUME NEW i \in DOMAIN q
                PROVE  /\ i + 1 \in DOMAIN queue[s] /\ q[i] = queue[s][i + 1]
                       /\ i < Len(q) <=> i + 1 < Len(queue[s])
            BY <1>3, <1>6, <3>2
          <6> QED BY <1>3, <6>1
        <5> QED BY <1>3, <1>5, <3>2, <5>1, <5>2 DEF Emitting, RowsHonest
      <4>3. Len(queue[s]) = 1 \/ Len(queue[s]) > 1
        <5>1. \A n \in Nat : n >= 1 => n = 1 \/ n > 1
          OBVIOUS
        <5> QED BY <1>3, <5>1
      <4> QED BY <4>1, <4>2, <4>3
    <3> QED BY <1>4, <3>1, <3>2
  <2> QED BY <2>1, <2>2, <2>3 DEF Search
<1>10. \A u \in Searches \ {s} : Same(u)
  BY <1>1, <1>2, <1>4 DEF Same, Set, Kinds, OfSearches
<1> QED BY <1>2, <1>8, <1>9, <1>10, OneSearch

\* A search that returned asks and tells nothing.
LEMMA ReturnStep == ASSUME Rest, NEW s \in Searches, Return(s) PROVE Rest'
<1>1. Search(s) /\ Kinds
  BY DEF Rest
<1>2. /\ UNCHANGED <<provider, count, pages, txs, queue>> /\ queue[s] = <<>>
      /\ pc' = Set(pc, s, "done") /\ requests' = Set(requests, s, 0)
      /\ told' = Set(told, s, "none") /\ err' = Set(err, s, "none")
  BY DEF Return, To, Set, history
<1>3. Kinds'
  BY <1>1, <1>2, ProviderAssumption DEF Kinds, OfSearches, Set, Pcs, Errors
<1>4. Search(s)'
  BY <1>1, <1>2 DEF Search, KeptOf, Asking, Emitting, HistoryHonest, RowsHonest, Kinds, Set
<1>5. \A u \in Searches \ {s} : Same(u)
  BY <1>1, <1>2 DEF Same, Set, Kinds
<1> QED BY <1>2, <1>3, <1>4, <1>5, OneSearch

\* With the statistics the history begins, empty.
LEMMA StatisticsStep == ASSUME Rest, NEW s \in Searches, Statistics(s) PROVE Rest'
<1>1. Search(s) /\ Kinds
  BY DEF Rest
<1>2. PICK c \in {"zero", "some"} :
        /\ UNCHANGED <<provider, requests, pages, txs, queue, told, err>>
        /\ pc[s] = "sent" /\ provider = "bitcoin" /\ count[s] = "none"
        /\ pc' = Set(pc, s, "get") /\ count' = Set(count, s, c)
  BY DEF Statistics, To, Set, answer
<1>3. /\ pc'[s] = "get" /\ count'[s] = c /\ Committed(s)' = Committed(s)
      /\ Answers(s) = 0 /\ Answers(s)' = 1 + Len(pages[s]) /\ Len(pages[s]) = 0
  BY <1>1, <1>2 DEF Kinds, Set, Committed, Answers, Search, Asking
<1>4. Kinds'
  BY <1>1, <1>2 DEF Kinds, OfSearches, Set, Pcs
<1>5. requests[s] = 1
  BY <1>1, <1>2, <1>3 DEF Search, Asking
<1>6. Search(s)'
  <2>1. KeptOf(s)' /\ Emitting(s)'
    BY <1>1, <1>2, <1>3 DEF Search, KeptOf, Emitting
  <2>2. Asking(s)'
    BY <1>1, <1>2, <1>3, <1>5 DEF Search, Asking
  <2>3. HistoryHonest(s)' /\ RowsHonest(s)'
    BY <1>3 DEF HistoryHonest, RowsHonest
  <2> QED BY <2>1, <2>2, <2>3 DEF Search
<1>7. \A u \in Searches \ {s} : Same(u)
  BY <1>1, <1>2 DEF Same, Set, Kinds
<1> QED BY <1>2, <1>4, <1>6, <1>7, OneSearch

\* A history that ends with what it may retain is told as such.
LEMMA EndStep ==
    ASSUME Rest, NEW s \in Searches, NEW kept, NEW e \in {"none", "failed"},
           pc[s] = "sent", provider = "bitcoin", EndHistory(s, kept, e),
           UNCHANGED <<provider, requests, count>>, DOMAIN pages' = Searches,
           \A u \in Searches \ {s} : pages'[u] = pages[u],
           pages'[s] \in Seq(Pages), Len(pages'[s]) <= MaxPages,
           kept \subseteq Transactions, Cardinality(kept) <= MaxTransactions,
           ~Conflict(kept), kept \subseteq Committed(s)',
           \/ kept = Committed(s)'
           \/ /\ Cardinality(kept) = MaxTransactions
              /\ \A t \in kept, u \in Committed(s)' \ kept : u.time <= t.time,
           e = "none" =>
               /\ \/ Len(pages'[s]) = MaxPages \/ Cardinality(kept) = MaxTransactions
                  \/ Len(Last(pages'[s])) < PageSize
               /\ (kept = {}) = (count[s] = "zero")
    PROVE  Rest'
<1>1. Search(s) /\ Kinds
  BY DEF Rest
<1>2. /\ Conclude(s, <<>>, e) /\ txs' = Set(txs, s, kept)
      /\ DOMAIN txs' = Searches /\ txs'[s] = kept
      /\ \A u \in Searches \ {s} : txs'[u] = txs[u]
  BY <1>1 DEF EndHistory, Set, Kinds, OfSearches
<1>3. err'[s] = e /\ count'[s] = count[s]
  BY <1>1, <1>2 DEF Conclude, Set, Kinds
<1>4. HistoryHonest(s)'
  BY <1>2, <1>3 DEF HistoryHonest
<1> QED BY <1>2, <1>4, ConcludeStep

\* The transactions of a page are finitely many.
LEMMA PageFinite ==
    ASSUME NEW page \in Seq(Transactions)
    PROVE  IsFiniteSet(ToSet(page)) /\ ToSet(page) \subseteq Transactions
<1>1. IsFiniteSet(1 .. Len(page))
  BY FS_Interval
<1>2. page \in Surjection(1 .. Len(page), ToSet(page))
  BY DEF Surjection, ToSet
<1> QED BY <1>1, <1>2, FS_Surjection DEF ToSet

\* A committed page adds its transactions to those committed.
LEMMA Commit ==
    ASSUME NEW s \in Searches, NEW page \in Pages, pages[s] \in Seq(Pages),
           pages'[s] = Append(pages[s], page)
    PROVE  /\ Committed(s)' = Committed(s) \cup ToSet(page)
           /\ pages'[s] \in Seq(Pages) /\ Len(pages'[s]) = Len(pages[s]) + 1
           /\ Last(pages'[s]) = page
<1>1. /\ pages'[s] \in Seq(Pages) /\ Len(pages'[s]) = Len(pages[s]) + 1
      /\ pages'[s][Len(pages[s]) + 1] = page
      /\ \A i \in DOMAIN pages[s] : i \in DOMAIN pages'[s] /\ pages'[s][i] = pages[s][i]
      /\ \A i \in DOMAIN pages'[s] : i \in DOMAIN pages[s] \/ i = Len(pages[s]) + 1
      /\ Len(pages[s]) + 1 \in DOMAIN pages'[s]
  OBVIOUS
<1>2. ASSUME NEW t PROVE t \in Committed(s)' <=> t \in Committed(s) \/ t \in ToSet(page)
  <2>1. t \in Committed(s)' <=> \E i \in DOMAIN pages'[s] : t \in ToSet(pages'[s][i])
    BY DEF Committed
  <2>2. t \in Committed(s) <=> \E i \in DOMAIN pages[s] : t \in ToSet(pages[s][i])
    BY DEF Committed
  <2> QED BY <1>1, <2>1, <2>2
<1>3. Committed(s)' = Committed(s) \cup ToSet(page)
  BY <1>2
<1> QED BY <1>1, <1>3 DEF Last

\* A page of history is refused, ends the history or lets it go on.
LEMMA PageStep == ASSUME Rest, NEW s \in Searches, NEW page \in Pages, Page(s, page) PROVE Rest'
<1> DEFINE seen == txs[s] \cup ToSet(page)
           valid == Len(page) <= PageSize /\ (\A t \in ToSet(page) : t.time # 0) /\ ~Conflict(seen)
           more == Len(page) = PageSize /\ Cardinality(seen) < MaxTransactions
<1>1. Search(s) /\ Kinds /\ pc[s] = "sent" /\ provider = "bitcoin" /\ count[s] # "none"
  BY DEF Rest, Page
<1>2. UNCHANGED <<provider, requests, count>>
  BY DEF Page
<1>3. /\ page \in Seq(Transactions) /\ Len(page) \in Nat /\ PageSize \in Nat
      /\ MaxPages \in Nat /\ MaxTransactions \in Nat
  BY ProviderAssumption
<1>4. /\ pages[s] \in Seq(Pages) /\ Len(pages[s]) \in Nat /\ Len(pages[s]) < MaxPages
      /\ txs[s] = Committed(s) /\ ~Conflict(txs[s]) /\ IsFiniteSet(txs[s])
      /\ txs[s] \subseteq Transactions /\ Cardinality(txs[s]) < MaxTransactions
      /\ Cardinality(txs[s]) <= MaxTransactions /\ Len(pages[s]) <= MaxPages
      /\ requests[s] = Answers(s) + 1 /\ Answers(s) = 1 + Len(pages[s])
  BY <1>1 DEF Search, KeptOf, Asking, Answers
<1>5. seen \subseteq Transactions /\ IsFiniteSet(seen) /\ Cardinality(seen) \in Nat
  BY <1>3, <1>4, PageFinite, FS_Union, FS_CardinalityType
<1>6. CASE ~valid /\ EndHistory(s, txs[s], "failed") /\ UNCHANGED pages
  <2>1. Committed(s)' = txs[s]
    BY <1>4, <1>6 DEF Committed
  <2> QED BY <1>1, <1>2, <1>4, <1>6, <2>1, EndStep DEF Kinds, OfSearches
<1>7. ASSUME valid, pages' = Set(pages, s, Append(pages[s], page)),
             \/ Cardinality(seen) >= MaxTransactions /\ Checked(s, Newest(seen))
             \/ Cardinality(seen) < MaxTransactions /\ Len(page) < PageSize /\ Checked(s, seen)
             \/ more /\ LastId(page) \in Cursors(s) /\ EndHistory(s, seen, "failed")
             \/ /\ more /\ LastId(page) \notin Cursors(s) /\ Len(pages[s]) + 1 = MaxPages
                /\ Checked(s, seen)
             \/ /\ more /\ LastId(page) \notin Cursors(s) /\ Len(pages[s]) + 1 < MaxPages
                /\ txs' = Set(txs, s, seen) /\ To(s, "get") /\ due' = Set(due, s, None)
                /\ UNCHANGED <<gone, left, wake, answer>>
      PROVE  Rest'
  <2> HIDE DEF seen, valid, more
  <2>1. /\ pages'[s] = Append(pages[s], page) /\ DOMAIN pages' = Searches
        /\ \A u \in Searches \ {s} : pages'[u] = pages[u]
    BY <1>1, <1>7 DEF Kinds, OfSearches, Set
  <2>2. /\ Committed(s)' = seen /\ pages'[s] \in Seq(Pages)
        /\ Len(pages'[s]) = Len(pages[s]) + 1 /\ Last(pages'[s]) = page
        /\ Len(pages'[s]) <= MaxPages
    <3>1. Committed(s)' = Committed(s) \cup ToSet(page)
      BY <1>4, <2>1, Commit
    <3>2. Committed(s)' = seen
      <4>1. txs[s] = Committed(s)
        BY <1>4
      <4> QED BY ONLY <3>1, <4>1 DEF seen
    <3>3. /\ pages'[s] \in Seq(Pages) /\ Len(pages'[s]) = Len(pages[s]) + 1
          /\ Last(pages'[s]) = page
      BY <1>4, <2>1, Commit
    <3>4. \A n, k \in Nat : n < k => n + 1 <= k
      OBVIOUS
    <3>5. Len(pages[s]) + 1 <= MaxPages
      BY <1>3, <1>4, <3>4
    <3> QED BY <3>2, <3>3, <3>5
  <2>3. ~Conflict(seen) /\ \A set \in SUBSET seen : ~Conflict(set)
    <3>1. ~Conflict(seen)
      BY <1>7 DEF valid
    <3> QED BY <3>1 DEF Conflict
  <2>4. ASSUME NEW kept, Checked(s, kept), kept \subseteq seen,
               Cardinality(kept) <= MaxTransactions,
               \/ kept = seen
               \/ /\ Cardinality(kept) = MaxTransactions
                  /\ \A t \in kept, u \in seen \ kept : u.time <= t.time,
               \/ Len(pages'[s]) = MaxPages \/ Cardinality(kept) = MaxTransactions
               \/ Len(Last(pages'[s])) < PageSize
        PROVE  Rest'
    <3>1. PICK e \in {"none", "failed"} :
            EndHistory(s, kept, e) /\ (e = "none" => (kept = {}) = (count[s] = "zero"))
      BY <2>4 DEF Checked
    <3>2. ~Conflict(kept) /\ kept \subseteq Transactions
      BY <1>5, <2>3, <2>4
    <3> QED BY <1>1, <1>2, <2>1, <2>2, <2>4, <3>1, <3>2, EndStep
  <2>5. CASE Cardinality(seen) >= MaxTransactions /\ Checked(s, Newest(seen))
    <3>1. /\ Newest(seen) \subseteq seen
          /\ Cardinality(Newest(seen)) = MaxTransactions
          /\ Cardinality(Newest(seen)) <= MaxTransactions
          /\ \A t \in Newest(seen), u \in seen \ Newest(seen) : u.time <= t.time
      BY <1>5, <2>3, <2>5, NewestKept
    <3> QED BY <2>4, <2>5, <3>1
  <2>6. CASE Cardinality(seen) < MaxTransactions /\ Len(page) < PageSize /\ Checked(s, seen)
    <3>1. Cardinality(seen) <= MaxTransactions
      BY <1>3, <1>5, <2>6
    <3> QED BY <2>2, <2>4, <2>6, <3>1
  <2>7. CASE more /\ EndHistory(s, seen, "failed")
    <3>1. Cardinality(seen) <= MaxTransactions
      BY <1>3, <1>5, <2>7 DEF more
    <3> QED BY <1>1, <1>2, <1>5, <2>1, <2>2, <2>3, <2>7, <3>1, EndStep
  <2>8. CASE more /\ Len(pages[s]) + 1 = MaxPages /\ Checked(s, seen)
    <3>1. Cardinality(seen) <= MaxTransactions
      BY <1>3, <1>5, <2>8 DEF more
    <3> QED BY <2>2, <2>4, <2>8, <3>1
  <2>9. CASE /\ more /\ Len(pages[s]) + 1 < MaxPages
             /\ txs' = Set(txs, s, seen) /\ To(s, "get") /\ UNCHANGED answer
    <3>1. /\ pc' = Set(pc, s, "get") /\ pc'[s] = "get" /\ txs'[s] = seen
          /\ DOMAIN txs' = Searches /\ \A u \in Searches \ {s} : txs'[u] = txs[u]
          /\ queue' = queue /\ told' = told /\ err' = err
          /\ count'[s] = count[s] /\ requests'[s] = requests[s]
      BY <1>1, <1>2, <2>9 DEF To, Set, Kinds, OfSearches, answer
    <3>2. Kinds'
      BY <1>1, <1>2, <2>1, <3>1 DEF Kinds, OfSearches, Set, Pcs
    <3>3. Cardinality(seen) < MaxTransactions /\ Cardinality(seen) <= MaxTransactions
      BY <1>3, <1>5, <2>9 DEF more
    <3>4. requests'[s] = Answers(s)'
      <4>1. Answers(s)' = 1 + Len(pages'[s])
        BY <1>1, <3>1 DEF Answers
      <4> QED BY <1>4, <2>2, <3>1, <4>1
    <3>5. Search(s)'
      <4>1. KeptOf(s)'
        BY <1>1, <1>5, <2>2, <3>1, <3>3 DEF KeptOf, Search
      <4>2. Asking(s)'
        <5>1. Answers(s)' \in Nat
          BY <1>4, <2>2, <3>1 DEF Answers
        <5>2. requests'[s] = Answers(s)' + 0
          BY <3>4, <5>1
        <5> QED BY <1>1, <1>2, <1>5, <2>2, <2>3, <2>9, <3>1, <3>3, <5>2 DEF Asking
      <4>3. Emitting(s)' /\ HistoryHonest(s)' /\ RowsHonest(s)'
        BY <1>1, <3>1 DEF Search, Emitting, HistoryHonest, RowsHonest
      <4> QED BY <4>1, <4>2, <4>3 DEF Search
    <3>6. \A u \in Searches \ {s} : Same(u)
      BY <1>1, <1>2, <2>1, <3>1 DEF Same, Set, Kinds
    <3> QED BY <1>2, <3>2, <3>5, <3>6, OneSearch
  <2> QED BY <1>7, <2>5, <2>6, <2>7, <2>8, <2>9
<1> QED BY <1>6, <1>7 DEF Page

\* Every step of a search keeps the rest of the invariant.
LEMMA SearchStepKept ==
    ASSUME Rest, NEW s \in Searches, Start(s) \/ SearchStep(s) \/ Respond(s)
    PROVE  Rest'
<1>1. Search(s) /\ Kinds
  BY DEF Rest
<1>2. \A e \in {"timeout", "cancelled", "failed"} :
        Fail(s, e) /\ UNCHANGED <<provider, requests>>
        /\ pc[s] \in {"get", "wait", "sleep", "sent"} => Rest'
  BY FailStep
<1>3. ContextError(s) \in {"timeout", "cancelled", "failed"}
  BY DEF ContextError
<1>4. CASE Start(s)
  BY <1>4, AskStep DEF Start, To, Set
<1>5. CASE Get(s)
  <2>1. requests[s] < Budget
    <3>1. pc[s] = "get"
      BY <1>5 DEF Get
    <3>2. Len(pages[s]) \in Nat /\ Len(pages[s]) < MaxPages
      BY <1>1, <3>1 DEF Search, KeptOf, Asking
    <3>3. requests[s] = Answers(s) + 0
      BY <1>1, <3>1 DEF Search, Asking
    <3>4. provider # "bitcoin" => Answers(s) = 0
      BY <1>1, <3>1 DEF Search, Asking, Answers
    <3>5. Answers(s) = 0 \/ Answers(s) = 1 + Len(pages[s])
      BY DEF Answers
    <3>6. CASE provider = "bitcoin"
      BY <3>2, <3>3, <3>5, <3>6, ProviderAssumption DEF Budget
    <3>7. CASE provider # "bitcoin"
      BY <3>3, <3>4, <3>7 DEF Budget
    <3> QED BY <3>6, <3>7
  <2>2. requests[s] \in Nat /\ Budget \in Nat
    BY <1>1, ProviderAssumption DEF Kinds, Budget
  <2>3. pc[s] = "get" /\ pc' = Set(pc, s, "wait") /\ UNCHANGED <<provider, requests, history, answer>>
    BY <1>5, <2>1, <2>2 DEF Get, To, Set
  <2> QED BY <2>3, AskStep
<1>6. CASE Check(s)
  <2>1. pc[s] = "wait" /\ provider' = provider
    BY <1>6 DEF Check
  <2>2. CASE Fail(s, ContextError(s)) /\ UNCHANGED requests
    BY <1>2, <1>3, <2>1, <2>2
  <2>3. CASE Send(s) /\ UNCHANGED <<history, answer>>
    BY <2>1, <2>3, AskStep DEF Send, To, Set
  <2>4. CASE To(s, "sleep") /\ UNCHANGED <<requests, history, answer>>
    BY <2>1, <2>4, AskStep DEF To, Set
  <2> QED BY <1>6, <2>2, <2>3, <2>4 DEF Check
<1>7. CASE Wake(s)
  <2>1. pc[s] = "sleep" /\ UNCHANGED <<provider, requests>>
    BY <1>7 DEF Wake
  <2>2. CASE To(s, "wait") /\ UNCHANGED <<history, answer>>
    BY <2>1, <2>2, AskStep DEF To, Set
  <2>3. CASE Fail(s, ContextError(s))
    BY <1>2, <1>3, <2>1, <2>3
  <2> QED BY <1>7, <2>2, <2>3 DEF Wake
<1>8. CASE TimesOut(s) \/ NetworkFails(s) \/ StatusError(s) \/ BadBody(s)
  BY <1>2, <1>3, <1>8 DEF TimesOut, NetworkFails, StatusError, BadBody
<1>9. CASE Profile(s) \/ Domain(s) \/ Label(s) \/ Transaction(s) \/ Breaches(s)
             \/ PasswordRange(s)
  <2>1. \A row \in {"found", "not_found"} : Rows(<<row>>)
    BY DEF Rows
  <2>2. \A n \in Nat : n # 0 => Rows([i \in 1 .. n |-> "found"])
    BY DEF Rows
  <2>3. \A row : Rows(row) /\ provider # "bitcoin" /\ Answered(s, row) => Rest'
    BY AnsweredStep
  <2>4. CASE Profile(s) \/ Domain(s) \/ Label(s) \/ Transaction(s)
    BY <2>1, <2>3, <2>4 DEF Profile, Domain, Label, Transaction, InTime, LookupProfile,
       LookupDomain, LookupLabel
  <2>5. CASE Breaches(s)
    <3>1. PICK n \in 0 .. MaxBreaches :
            /\ provider = "hibp"
            /\ Answered(s, IF n = 0 THEN <<"not_found">> ELSE [i \in 1 .. n |-> "found"])
      BY <2>5 DEF Breaches, LookupBreaches
    <3>2. n \in Nat
      BY ProviderAssumption
    <3>3. CASE n = 0
      BY <2>1, <2>3, <3>1, <3>3
    <3>4. CASE n # 0
      BY <2>2, <2>3, <3>1, <3>2, <3>4
    <3> QED BY <3>3, <3>4
  <2>6. CASE PasswordRange(s)
    <3>1. provider # "bitcoin"
      BY <2>6 DEF PasswordRange, LookupRange
    <3>2. \/ pc[s] = "sent" /\ Fail(s, "failed") /\ UNCHANGED <<provider, requests>>
          \/ \E row \in {"found", "not_found"} : Answered(s, <<row>>)
      BY <2>6 DEF PasswordRange
    <3> QED BY <1>2, <2>1, <2>3, <3>1, <3>2
  <2> QED BY <1>9, <2>4, <2>5, <2>6
<1> QED BY <1>4, <1>5, <1>6, <1>7, <1>8, <1>9, EmitStep, ReturnStep, StatisticsStep, PageStep
        DEF SearchStep, Respond

\* So does every other step: time, the callers and the end change nothing of it.
LEMMA RestStep == ASSUME Rest, [Next]_vars PROVE Rest'
<1>1. ASSUME UNCHANGED <<provider, pc, requests, count, pages, txs, queue, told, err>>
      PROVE  Rest'
  <2>1. \A s \in Searches : Same(s)
    BY <1>1 DEF Same
  <2>2. Kinds'
    BY <1>1 DEF Rest, Kinds, OfSearches
  <2> QED BY <1>1, <2>1, <2>2, SameSearch DEF Rest
<1>2. CASE Tick
  BY <1>1, <1>2 DEF Tick, history, answer
<1>3. CASE UNCHANGED vars
  BY <1>1, <1>3 DEF vars, request, history, answer
<1>4. CASE \E s \in Searches : Cancel(s)
  BY <1>1, <1>4 DEF Cancel, request, history, answer
<1>5. CASE \E s \in Searches : Start(s) \/ SearchStep(s) \/ Respond(s)
  BY <1>5, SearchStepKept
<1> QED BY <1>2, <1>3, <1>4, <1>5 DEF Next, Terminated

\* The searches begin with nothing.
LEMMA InvariantInit == Init => SearchInv
<1> SUFFICES ASSUME Init PROVE Ticking /\ Pacing /\ Rest
  BY PartsOfInvariant
<1>1. /\ Interval \in Nat /\ RequestTimeout \in Nat /\ MaxPages \in Nat /\ MaxPages > 0
      /\ MaxTransactions \in Nat /\ MaxTransactions > 0 /\ LongestDelay \in Nat
  BY ProviderAssumption, LongestIsLongest
<1>2. Ticking /\ Pacing /\ Kinds
  BY <1>1 DEF Init, Idle, Ticking, Pacing, Kinds, OfSearches, Pcs, Errors
<1>3. ASSUME NEW s \in Searches PROVE Search(s)
  <2>1. /\ pc[s] = "absent" /\ requests[s] = 0 /\ count[s] = "none" /\ pages[s] = <<>>
        /\ txs[s] = {} /\ queue[s] = <<>> /\ told[s] = "none" /\ err[s] = "none"
    BY DEF Init, Idle
  <2>2. Committed(s) = {}
    BY <2>1 DEF Committed
  <2>3. IsFiniteSet({}) /\ Cardinality({}) = 0 /\ Len(<<>>) = 0
    BY FS_EmptySet
  <2>4. KeptOf(s)
    BY <1>1, <2>1, <2>3 DEF KeptOf
  <2>5. Asking(s)
    <3>1. Answers(s) = 0 /\ ~Conflict({})
      BY <2>1 DEF Answers, Conflict
    <3> QED BY <1>1, <2>1, <2>2, <2>3, <3>1 DEF Asking
  <2>6. Emitting(s) /\ HistoryHonest(s) /\ RowsHonest(s)
    BY <2>1 DEF Emitting, HistoryHonest, RowsHonest
  <2> QED BY <2>4, <2>5, <2>6 DEF Search
<1> QED BY <1>2, <1>3 DEF Rest

\* The invariant of the searches: what a search retains, asks and tells fits together in
\* every state.
LEMMA InvariantKept == Spec => []SearchInv
<1>1. SearchInv /\ [Next]_vars => SearchInv'
  <2> SUFFICES ASSUME SearchInv, [Next]_vars PROVE SearchInv'
    OBVIOUS
  <2>1. Ticking /\ Pacing /\ Rest
    BY PartsOfInvariant
  <2>2. Ticking' /\ Pacing' /\ Rest'
    BY <2>1, TickingStep, PacingStep, RestStep
  <2>3. SearchInv' <=> Ticking' /\ Pacing' /\ Rest'
    BY PartsOfInvariant, PTL
  <2> QED BY <2>2, <2>3
<1> QED BY <1>1, InvariantInit, PTL DEF Spec

\* Every variable keeps its type, whatever the sources answer: no search asks for more
\* requests than its budget, and none retains more pages or transactions than allowed
\* (getBounded, history).
THEOREM ProviderTypes == Spec => []TypeOK
<1>1. SearchInv => TypeOK
  BY DEF SearchInv
<1> QED BY <1>1, InvariantKept, PTL

\* What a search emits of a history is what the provider sent, the newest where that is
\* too much, and without an error only if it is complete or at a limit; and an error it
\* returns was told in a row (SearchBitcoin, history, and each source's emit).
THEOREM AnswersStayHonest == Spec => []AnswersHonest
<1>1. SearchInv => AnswersHonest
  BY DEF SearchInv, AnswersHonest
<1> QED BY <1>1, InvariantKept, PTL

-----------------------------------------------------------------------------
(* The Bitcoin evidence: sums *)

\* A set of numbers has a least one.
LEMMA LeastNumber ==
    ASSUME NEW S \in SUBSET Nat, S # {}
    PROVE  \E m \in S : \A n \in S : m <= n
<1>1. PICK m \in S : \A n \in S : <<n, m>> \notin OpToRel(<, Nat)
  BY NatLessThanWellFounded, WFMin
<1>2. \A n \in S : ~(n < m)
  BY <1>1 DEF OpToRel
<1> QED BY <1>2

\* What holds of 0 and passes on from each number to the next holds up to m.
LEMMA CountingUp ==
    ASSUME NEW m \in Nat, NEW S, 0 \in S, \A n \in 1 .. m : n - 1 \in S => n \in S
    PROVE  0 .. m \subseteq S
<1> DEFINE Missed == (0 .. m) \ S
<1>1. SUFFICES ASSUME Missed # {} PROVE FALSE
  OBVIOUS
<1>2. PICK k \in Missed : \A n \in Missed : k <= n
  <2>1. Missed \in SUBSET Nat
    OBVIOUS
  <2> HIDE DEF Missed
  <2> QED BY <1>1, <2>1, LeastNumber
<1>3. k \in 1 .. m
  BY <1>2
<1>4. k - 1 \in Missed
  BY <1>2, <1>3
<1> QED BY <1>2, <1>3, <1>4

\* The running sums start from nothing and add one number after another.
LEMMA SumsDefined ==
    ASSUME NEW values \in Seq(Int)
    PROVE  /\ Sums(values) \in [0 .. Len(values) -> Int]
           /\ Sums(values)[0] = 0
           /\ \A n \in 1 .. Len(values) : Sums(values)[n] = Sums(values)[n - 1] + values[n]
<1> DEFINE Adds(g, m) ==
             /\ g \in [0 .. m -> Int] /\ g[0] = 0
             /\ \A n \in 1 .. m : g[n] = g[n - 1] + values[n]
           Reached == {m \in 0 .. Len(values) : \E g : Adds(g, m)}
           Rule(g) == [n \in 0 .. Len(values) |-> IF n = 0 THEN 0 ELSE g[n - 1] + values[n]]
<1>1. Len(values) \in Nat /\ \A n \in 1 .. Len(values) : values[n] \in Int
  OBVIOUS
<1>2. 0 \in Reached
  <2>1. Adds([i \in 0 .. 0 |-> 0], 0)
    OBVIOUS
  <2>2. \E g : Adds(g, 0)
    BY <2>1
  <2> QED BY <1>1, <2>2
<1>3. ASSUME NEW m \in 1 .. Len(values), m - 1 \in Reached
      PROVE  m \in Reached
  <2>1. PICK g : Adds(g, m - 1)
    BY <1>3
  <2> DEFINE h == [i \in 0 .. m |-> IF i = m THEN g[m - 1] + values[m] ELSE g[i]]
  <2>2. m \in Nat /\ m # 0 /\ m - 1 \in 0 .. m - 1 /\ 0 \in 0 .. m /\ values[m] \in Int
    BY <1>1
  <2>3. h \in [0 .. m -> Int]
    <3>1. \A i \in 0 .. m : i # m => i \in 0 .. m - 1
      BY <2>2
    <3> QED BY <2>1, <2>2, <3>1
  <2>4. h[0] = 0
    BY <2>1, <2>2
  <2>5. ASSUME NEW n \in 1 .. m PROVE h[n] = h[n - 1] + values[n]
    <3>1. n \in 0 .. m /\ n - 1 \in 0 .. m /\ n - 1 # m
      BY <2>2
    <3>2. h[n - 1] = g[n - 1]
      BY <3>1
    <3>3. CASE n = m
      BY <3>1, <3>2, <3>3
    <3>4. CASE n # m
      <4>1. n \in 1 .. m - 1 /\ h[n] = g[n]
        BY <2>2, <3>1, <3>4
      <4> QED BY <2>1, <3>2, <4>1
    <3> QED BY <3>3, <3>4
  <2>6. Adds(h, m)
    BY <2>3, <2>4, <2>5
  <2> HIDE DEF h
  <2>7. \E f : Adds(f, m)
    BY <2>6
  <2>8. m \in 0 .. Len(values)
    BY <1>1
  <2> QED BY <2>7, <2>8
<1>4. PICK g : Adds(g, Len(values))
  <2>1. \A m \in 1 .. Len(values) : m - 1 \in Reached => m \in Reached
    BY <1>3
  <2>2. Len(values) \in 0 .. Len(values)
    BY <1>1
  <2>3. 0 .. Len(values) \subseteq Reached
    <3> HIDE DEF Reached
    <3> QED BY <1>1, <1>2, <2>1, CountingUp
  <2> QED BY <2>2, <2>3
<1>5. g = Rule(g)
  <2>1. \A n \in 0 .. Len(values) : n # 0 => n \in 1 .. Len(values)
    BY <1>1
  <2> QED BY <1>4, <2>1
<1>6. Sums(values) = CHOOSE sum : sum = Rule(sum)
  BY DEF Sums
<1>7. Sums(values) = Rule(Sums(values))
  <2> DEFINE f == CHOOSE sum : sum = Rule(sum)
  <2>1. \E sum : sum = Rule(sum)
    BY <1>5
  <2>2. f = Rule(f)
    <3> HIDE DEF Rule
    <3> QED BY <2>1
  <2> QED BY <1>6, <2>2
<1> DEFINE f == Sums(values)
<1> HIDE DEF f
<1>8. f = Rule(f)
  BY <1>7 DEF f
<1>9. f[0] = 0
  BY <1>1, <1>8
<1>10. \A n \in 1 .. Len(values) : f[n] = f[n - 1] + values[n]
  <2>1. \A n \in 1 .. Len(values) : n \in 0 .. Len(values) /\ n # 0
    BY <1>1
  <2> QED BY <1>8, <2>1
<1>11. \A n \in 0 .. Len(values) : f[n] \in Int
  <2> DEFINE Sound == {n \in 0 .. Len(values) : f[n] \in Int}
  <2>1. 0 \in Sound
    BY <1>1, <1>9
  <2>2. \A n \in 1 .. Len(values) : n - 1 \in Sound => n \in Sound
    <3>1. \A n \in 1 .. Len(values) : n \in 0 .. Len(values)
      BY <1>1
    <3> QED BY <1>1, <1>10, <3>1
  <2> HIDE DEF Sound
  <2>3. 0 .. Len(values) \subseteq Sound
    BY <1>1, <2>1, <2>2, CountingUp
  <2> QED BY <2>3 DEF Sound
<1>12. DOMAIN f = 0 .. Len(values) /\ f = [n \in DOMAIN f |-> f[n]]
  BY <1>8
<1>13. f \in [0 .. Len(values) -> Int]
  BY <1>11, <1>12
<1> QED BY <1>9, <1>10, <1>13 DEF f

\* A sum of numbers is a number.
LEMMA SumIsInt ==
    ASSUME NEW values \in Seq(Int)
    PROVE  SumOf(values) \in Int
<1>1. Len(values) \in 0 .. Len(values)
  OBVIOUS
<1> QED BY <1>1, SumsDefined DEF SumOf

\* Sums of sums, number by number.
LEMMA SumLinear ==
    ASSUME NEW u \in Seq(Int), NEW v \in Seq(Int), NEW w \in Seq(Int),
           Len(u) = Len(w), Len(v) = Len(w), \A i \in 1 .. Len(w) : w[i] = u[i] + v[i]
    PROVE  SumOf(w) = SumOf(u) + SumOf(v)
<1> DEFINE Alike == {n \in 0 .. Len(w) : Sums(w)[n] = Sums(u)[n] + Sums(v)[n]}
<1>1. Len(w) \in Nat
  OBVIOUS
<1>2. 0 \in Alike
  BY <1>1, SumsDefined
<1>3. ASSUME NEW n \in 1 .. Len(w), n - 1 \in Alike PROVE n \in Alike
  <2>1. n \in 0 .. Len(w) /\ n - 1 \in 0 .. Len(w)
    BY <1>1
  <2>2. /\ Sums(u)[n] = Sums(u)[n - 1] + u[n] /\ Sums(v)[n] = Sums(v)[n - 1] + v[n]
        /\ Sums(w)[n] = Sums(w)[n - 1] + w[n]
        /\ Sums(u)[n - 1] \in Int /\ Sums(v)[n - 1] \in Int
    BY <2>1, SumsDefined
  <2>3. u[n] \in Int /\ v[n] \in Int /\ w[n] = u[n] + v[n]
    OBVIOUS
  <2>4. Sums(w)[n - 1] = Sums(u)[n - 1] + Sums(v)[n - 1]
    BY <1>3
  <2> QED BY <2>1, <2>2, <2>3, <2>4
<1>4. 0 .. Len(w) \subseteq Alike
  <2>1. \A n \in 1 .. Len(w) : n - 1 \in Alike => n \in Alike
    BY <1>3
  <2> HIDE DEF Alike
  <2> QED BY <1>1, <1>2, <2>1, CountingUp
<1>5. Len(w) \in Alike
  BY <1>1, <1>4
<1> QED BY <1>5 DEF SumOf

\* A sum of numbers that are none below zero is none below zero.
LEMMA SumIsNat ==
    ASSUME NEW values \in Seq(Nat)
    PROVE  SumOf(values) \in Nat
<1> DEFINE Sound == {n \in 0 .. Len(values) : Sums(values)[n] \in Nat}
<1>1. Len(values) \in Nat /\ values \in Seq(Int) /\ \A i \in 1 .. Len(values) : values[i] \in Nat
  OBVIOUS
<1>2. 0 \in Sound
  BY <1>1, SumsDefined
<1>3. \A n \in 1 .. Len(values) : n - 1 \in Sound => n \in Sound
  <2>1. \A n \in 1 .. Len(values) : n \in 0 .. Len(values)
    BY <1>1
  <2>2. \A n \in 1 .. Len(values) : Sums(values)[n] = Sums(values)[n - 1] + values[n]
    BY <1>1, SumsDefined
  <2> QED BY <1>1, <2>1, <2>2
<1>4. 0 .. Len(values) \subseteq Sound
  <2> HIDE DEF Sound
  <2> QED BY <1>1, <1>2, <1>3, CountingUp
<1>5. Len(values) \in Sound
  BY <1>1, <1>4
<1> QED BY <1>5 DEF SumOf

-----------------------------------------------------------------------------
(* The Bitcoin evidence: payments *)

\* What a transaction spends or pays.
Outputs == WireOutputs \cup {in.prevout : in \in WireInputs}

\* No value of the list is below zero, where there is one.
ValuesKnown(outputs) == \A i \in DOMAIN outputs : outputs[i].value = Absent \/ outputs[i].value \in Nat

\* The payments of a list are as many numbers as it has outputs.
LEMMA PaymentsListed ==
    ASSUME NEW outputs \in Seq(Outputs), NEW S
    PROVE  /\ Payments(outputs, S) \in Seq(Int)
           /\ Len(Payments(outputs, S)) = Len(outputs)
           /\ Paid(outputs, S) \in Int
           /\ ValuesKnown(outputs) => Payments(outputs, S) \in Seq(Nat) /\ Paid(outputs, S) \in Nat
<1>1. \A o \in Outputs : o.value \in Int
  BY EvidenceAssumption DEF Outputs
<1>2. \A i \in 1 .. Len(outputs) : outputs[i].value \in Int
  BY <1>1
<1>3. Len(outputs) \in Nat /\ DOMAIN outputs = 1 .. Len(outputs)
  OBVIOUS
<1>4. Payments(outputs, S) \in [1 .. Len(outputs) -> Int]
  BY <1>2, <1>3 DEF Payments
<1>5. Payments(outputs, S) \in Seq(Int) /\ Len(Payments(outputs, S)) = Len(outputs)
  BY <1>3, <1>4
<1>6. ASSUME ValuesKnown(outputs) PROVE Payments(outputs, S) \in Seq(Nat)
  <2>1. Payments(outputs, S) \in [1 .. Len(outputs) -> Nat]
    BY <1>3, <1>6 DEF Payments, ValuesKnown
  <2> QED BY <1>3, <2>1
<1>7. Paid(outputs, S) \in Int
  BY <1>5, SumIsInt DEF Paid
<1>8. ValuesKnown(outputs) => Paid(outputs, S) \in Nat
  BY <1>6, SumIsNat DEF Paid
<1> QED BY <1>5, <1>6, <1>7, <1>8

\* Only addresses of the list are paid.
LEMMA PaidToListed ==
    ASSUME NEW outputs \in Seq(Outputs), NEW S, NEW T,
           S \cap AddressesOf(outputs) = T \cap AddressesOf(outputs)
    PROVE  Paid(outputs, S) = Paid(outputs, T)
<1>1. ASSUME NEW i \in DOMAIN outputs, outputs[i].value # Absent
      PROVE  outputs[i].address \in AddressesOf(outputs)
  <2>1. outputs[i] # NoOutput
    BY <1>1 DEF NoOutput
  <2>2. outputs[i] \in ToSet(outputs)
    BY DEF ToSet
  <2> QED BY <2>1, <2>2 DEF AddressesOf
<1>2. \A i \in DOMAIN outputs :
        outputs[i].value # Absent => (outputs[i].address \in S <=> outputs[i].address \in T)
  BY <1>1
<1>3. Payments(outputs, S) = Payments(outputs, T)
  BY <1>2 DEF Payments
<1> QED BY <1>3 DEF Paid

\* What is paid to two groups of addresses is what each of them is paid.
LEMMA PaidSplit ==
    ASSUME NEW outputs \in Seq(Outputs), NEW S, NEW T, S \cap T = {}
    PROVE  Paid(outputs, S \cup T) = Paid(outputs, S) + Paid(outputs, T)
<1> DEFINE u == Payments(outputs, S) v == Payments(outputs, T) w == Payments(outputs, S \cup T)
<1>1. /\ u \in Seq(Int) /\ v \in Seq(Int) /\ w \in Seq(Int)
      /\ Len(u) = Len(w) /\ Len(v) = Len(w) /\ Len(w) = Len(outputs)
  BY PaymentsListed
<1>2. \A o \in Outputs : o.value \in Int
  BY EvidenceAssumption DEF Outputs
<1>3. \A i \in 1 .. Len(outputs) : i \in DOMAIN outputs /\ outputs[i].value \in Int
  BY <1>2
<1>4. \A i \in 1 .. Len(outputs) : w[i] = u[i] + v[i]
  <2>1. ASSUME NEW i \in 1 .. Len(outputs) PROVE w[i] = u[i] + v[i]
    <3>1. /\ u[i] = IF outputs[i].address \in S /\ outputs[i].value # Absent THEN outputs[i].value ELSE 0
          /\ v[i] = IF outputs[i].address \in T /\ outputs[i].value # Absent THEN outputs[i].value ELSE 0
          /\ w[i] = IF outputs[i].address \in S \cup T /\ outputs[i].value # Absent
                    THEN outputs[i].value ELSE 0
      BY <1>3 DEF Payments
    <3>2. outputs[i].address \notin S \/ outputs[i].address \notin T
      OBVIOUS
    <3>3. outputs[i].value \in Int
      BY <1>3
    <3> HIDE DEF u, v, w
    <3> QED BY <3>1, <3>2, <3>3
  <2> QED BY <2>1
<1> HIDE DEF u, v, w
<1>5. SumOf(w) = SumOf(u) + SumOf(v)
  BY <1>1, <1>4, SumLinear
<1> QED BY <1>5 DEF u, v, w, Paid

\* What some of the addresses are paid is part of the total.
LEMMA PaidWithin ==
    ASSUME NEW outputs \in Seq(Outputs), ValuesKnown(outputs), NEW S
    PROVE  Paid(outputs, S) <= Total(outputs) /\ Paid(outputs, S) \in Nat /\ Total(outputs) \in Nat
<1> DEFINE all == AddressesOf(outputs) part == S \cap all rest == all \ S
<1>1. Paid(outputs, S) = Paid(outputs, part)
  BY PaidToListed
<1>2. part \cap rest = {} /\ part \cup rest = all
  OBVIOUS
<1>3. Total(outputs) = Paid(outputs, all)
  BY DEF Total
<1> HIDE DEF all, part, rest
<1>4. Paid(outputs, all) = Paid(outputs, part) + Paid(outputs, rest)
  BY <1>2, PaidSplit
<1>5. Paid(outputs, part) \in Nat /\ Paid(outputs, rest) \in Nat
  BY PaymentsListed
<1> QED BY <1>1, <1>3, <1>4, <1>5

\* Nobody is paid nothing.
LEMMA NobodyPaid ==
    ASSUME NEW outputs \in Seq(Outputs), NEW S, S \cap AddressesOf(outputs) = {}
    PROVE  Paid(outputs, S) = 0
<1>1. Paid(outputs, S) = Paid(outputs, {}) /\ Paid(outputs, {} \cup {}) = Paid(outputs, {}) + Paid(outputs, {})
  BY PaidToListed, PaidSplit
<1>2. {} \cup {} = {} /\ Paid(outputs, {}) \in Int
  BY PaymentsListed
<1> QED BY <1>1, <1>2

\* The sum over a set of records is known if taking any one of them away takes its value.
LEMMA SumOverSet ==
    ASSUME NEW E, IsFiniteSet(E), NEW f, f[{}] = 0,
           \A s \in SUBSET E : \A e \in s : f[s] = e.value + f[s \ {e}]
    PROVE  MapThenSumSet(LAMBDA e : e.value, E) = f[E]
<1> DEFINE Rule(g) == [s \in SUBSET E |->
                         IF s = {} THEN 0
                         ELSE (CHOOSE e \in s : TRUE).value + g[s \ {CHOOSE e \in s : TRUE}]]
           iter == CHOOSE g : g = Rule(g)
<1>1. MapThenSumSet(LAMBDA e : e.value, E) = iter[E]
  BY DEF MapThenSumSet, MapThenFoldSet
<1>2. iter = Rule(iter)
  <2> DEFINE h == [s \in SUBSET E |-> f[s]]
  <2>1. h = Rule(h)
    <3>1. ASSUME NEW s \in SUBSET E, s # {}
          PROVE  h[s] = (CHOOSE e \in s : TRUE).value + h[s \ {CHOOSE e \in s : TRUE}]
      <4>1. PICK e : e = CHOOSE x \in s : TRUE
        OBVIOUS
      <4>2. e \in s
        BY <3>1, <4>1
      <4>3. f[s] = e.value + f[s \ {e}] /\ s \ {e} \in SUBSET E
        BY <4>2
      <4> QED BY <4>1, <4>3
    <3>2. h[{}] = 0
      OBVIOUS
    <3> QED BY <3>1, <3>2
  <2>2. \E g : g = Rule(g)
    <3> HIDE DEF h, Rule
    <3> QED BY <2>1
  <2> HIDE DEF Rule
  <2> QED BY <2>2
<1> HIDE DEF iter
<1>3. Cardinality(E) \in Nat
  BY FS_CardinalityType
<1> DEFINE Agreed == {n \in 0 .. Cardinality(E) : \A s \in SUBSET E : Cardinality(s) = n => iter[s] = f[s]}
<1>4. 0 \in Agreed
  <2>1. ASSUME NEW s \in SUBSET E, Cardinality(s) = 0 PROVE iter[s] = f[s]
    <3>1. s = {}
      BY <2>1, FS_Subset, FS_EmptySet
    <3> QED BY <1>2, <3>1
  <2> QED BY <1>3, <2>1
<1>5. ASSUME NEW n \in 1 .. Cardinality(E), n - 1 \in Agreed PROVE n \in Agreed
  <2>1. ASSUME NEW s \in SUBSET E, Cardinality(s) = n PROVE iter[s] = f[s]
    <3>1. IsFiniteSet(s)
      BY FS_Subset
    <3>2. s # {}
      <4>1. n # 0
        BY <1>3
      <4> QED BY <2>1, <3>1, <4>1, FS_EmptySet
    <3>3. PICK e : e = CHOOSE x \in s : TRUE
      OBVIOUS
    <3>4. e \in s
      BY <3>2, <3>3
    <3>5. Cardinality(s \ {e}) = n - 1
      BY <2>1, <3>1, <3>4, FS_RemoveElement
    <3>6. iter[s \ {e}] = f[s \ {e}]
      BY <1>5, <3>5
    <3>7. iter[s] = e.value + iter[s \ {e}]
      BY <1>2, <3>2, <3>3
    <3> QED BY <3>4, <3>6, <3>7
  <2>2. n \in 0 .. Cardinality(E)
    BY <1>3
  <2> QED BY <2>1, <2>2
<1>6. 0 .. Cardinality(E) \subseteq Agreed
  <2>1. \A n \in 1 .. Cardinality(E) : n - 1 \in Agreed => n \in Agreed
    BY <1>5
  <2> HIDE DEF Agreed
  <2> QED BY <1>3, <1>4, <2>1, CountingUp
<1>7. Cardinality(E) \in Agreed /\ E \in SUBSET E
  BY <1>3, <1>6
<1>8. iter[E] = f[E]
  BY <1>7
<1> QED BY <1>1, <1>8

\* What the counterparties of a sole funder got is what their addresses were paid.
LEMMA GivenIsPaid ==
    ASSUME NEW outputs \in Seq(Outputs), NEW A, IsFiniteSet(A)
    PROVE  LET E == {Edge(a, "outbound", Paid(outputs, {a})) : a \in A} IN
           MapThenSumSet(LAMBDA e : e.value, E) = Paid(outputs, A)
<1> DEFINE E == {Edge(a, "outbound", Paid(outputs, {a})) : a \in A}
           f == [s \in SUBSET E |-> Paid(outputs, {e.address : e \in s})]
<1>1. IsFiniteSet(E)
  <2> DEFINE edge == [a \in A |-> Edge(a, "outbound", Paid(outputs, {a}))]
  <2>1. edge \in Surjection(A, E)
    BY DEF Surjection
  <2> QED BY <2>1, FS_Surjection
<1>2. f[{}] = 0
  <2>1. {e.address : e \in {}} = {} /\ {} \in SUBSET E
    OBVIOUS
  <2>2. Paid(outputs, {}) = 0
    BY NobodyPaid
  <2> QED BY <2>1, <2>2
<1>3. ASSUME NEW s \in SUBSET E, NEW e \in s PROVE f[s] = e.value + f[s \ {e}]
  <2>1. PICK a \in A : e = Edge(a, "outbound", Paid(outputs, {a}))
    OBVIOUS
  <2>2. e.address = a /\ e.value = Paid(outputs, {a})
    BY <2>1 DEF Edge
  <2> DEFINE rest == {d.address : d \in s \ {e}}
  <2>3. a \notin rest
    <3>1. ASSUME NEW d \in s, d.address = a PROVE d = e
      <4>1. PICK b \in A : d = Edge(b, "outbound", Paid(outputs, {b}))
        OBVIOUS
      <4>2. b = a
        BY <3>1, <4>1 DEF Edge
      <4> QED BY <2>1, <4>1, <4>2
    <3> QED BY <3>1
  <2>4. {d.address : d \in s} = {a} \cup rest
    BY <2>2
  <2> HIDE DEF rest
  <2>5. Paid(outputs, {a} \cup rest) = Paid(outputs, {a}) + Paid(outputs, rest)
    <3>1. {a} \cap rest = {}
      BY <2>3
    <3> QED BY <3>1, PaidSplit
  <2>6. f[s] = Paid(outputs, {a} \cup rest)
    BY <2>4
  <2>7. f[s \ {e}] = Paid(outputs, rest)
    <3>1. s \ {e} \in SUBSET E
      OBVIOUS
    <3> QED BY <3>1 DEF rest
  <2> QED BY <2>2, <2>5, <2>6, <2>7
<1>4. f[E] = Paid(outputs, A)
  <2>1. {e.address : e \in E} = A
    <3>1. \A a \in A : Edge(a, "outbound", Paid(outputs, {a})) \in E
                       /\ Edge(a, "outbound", Paid(outputs, {a})).address = a
      BY DEF Edge
    <3>2. ASSUME NEW e \in E PROVE e.address \in A
      <4>1. PICK a \in A : e = Edge(a, "outbound", Paid(outputs, {a}))
        OBVIOUS
      <4> QED BY <4>1 DEF Edge
    <3> HIDE DEF E
    <3> QED BY <3>1, <3>2
  <2>2. E \in SUBSET E
    OBVIOUS
  <2> HIDE DEF E
  <2> QED BY <2>1, <2>2
<1>5. \A s \in SUBSET E : \A e \in s : f[s] = e.value + f[s \ {e}]
  BY <1>3
<1> HIDE DEF E, f
<1>6. MapThenSumSet(LAMBDA e : e.value, E) = f[E]
  BY <1>1, <1>2, <1>5, SumOverSet
<1> QED BY <1>4, <1>6 DEF E

-----------------------------------------------------------------------------
(* The Bitcoin evidence: one transaction *)

\* A transaction has lists of outputs on either side.
LEMMA SidesListed ==
    ASSUME NEW w \in Wires
    PROVE  /\ Spent(w) \in Seq(Outputs) /\ w.outputs \in Seq(Outputs)
           /\ w.inputs \in Seq(WireInputs) /\ Len(Spent(w)) = Len(w.inputs)
           /\ \A i \in DOMAIN Spent(w) : i \in DOMAIN w.inputs /\ Spent(w)[i] = w.inputs[i].prevout
           /\ \A in \in ToSet(w.inputs) : in.prevout \in ToSet(Spent(w))
           /\ w.confirmed \in {"yes", "no", "absent"} /\ w.fee \in Fees
<1>1. w.inputs \in Lists(WireInputs) /\ w.outputs \in Lists(WireOutputs)
  BY DEF Wires
<1>2. PICK m \in 0 .. MaxIO : w.inputs \in [1 .. m -> WireInputs]
  BY <1>1 DEF Lists
<1>3. PICK n \in 0 .. MaxIO : w.outputs \in [1 .. n -> WireOutputs]
  BY <1>1 DEF Lists
<1>4. m \in Nat /\ n \in Nat
  BY EvidenceAssumption
<1>5. w.inputs \in Seq(WireInputs) /\ w.outputs \in Seq(WireOutputs) /\ Len(w.inputs) = m
  BY <1>2, <1>3, <1>4
<1>6. Spent(w) \in [1 .. m -> Outputs]
  <2>1. DOMAIN w.inputs = 1 .. m /\ \A i \in 1 .. m : w.inputs[i].prevout \in Outputs
    BY <1>2 DEF Outputs
  <2> QED BY <2>1 DEF Spent
<1>7. Spent(w) \in Seq(Outputs) /\ Len(Spent(w)) = m
  BY <1>4, <1>6
<1>8. w.outputs \in Seq(Outputs)
  BY <1>5 DEF Outputs
<1>9. \A i \in DOMAIN w.inputs : Spent(w)[i] = w.inputs[i].prevout
  BY DEF Spent
<1>10. DOMAIN Spent(w) = DOMAIN w.inputs
  BY DEF Spent
<1>11. \A in \in ToSet(w.inputs) : in.prevout \in ToSet(Spent(w))
  BY <1>9, <1>10 DEF ToSet
<1> QED BY <1>5, <1>7, <1>8, <1>9, <1>10, <1>11 DEF Wires

\* What an acceptable transaction says of itself: its values are known, and its totals
\* are in order.
LEMMA AcceptableFacts ==
    ASSUME NEW w \in Wires, Acceptable(w)
    PROVE  /\ ValuesKnown(Spent(w)) /\ ValuesKnown(w.outputs)
           /\ Total(Spent(w)) \in 0 .. MaxMoney /\ Total(w.outputs) \in 0 .. MaxMoney
           /\ Coinbase(w) => /\ Len(w.inputs) = 1
                             /\ \A in \in ToSet(w.inputs) : in.coinbase = "yes" /\ in.prevout = NoOutput
                             /\ AddressesOf(Spent(w)) = {}
           /\ ~Coinbase(w) => /\ Total(w.outputs) <= Total(Spent(w))
                              /\ \A in \in ToSet(w.inputs) :
                                    in.coinbase = "no" /\ in.prevout # NoOutput /\ Payable(in.prevout)
<1>1. MaxMoney \in Nat
  BY EvidenceAssumption
<1>2. \A in \in ToSet(w.inputs) : in.prevout.value = Absent \/ in.prevout.value \in Nat
  BY <1>1 DEF Acceptable, Payable, NoOutput
<1>3. ValuesKnown(Spent(w))
  <2>1. \A i \in DOMAIN Spent(w) : Spent(w)[i] = w.inputs[i].prevout /\ w.inputs[i] \in ToSet(w.inputs)
    BY SidesListed DEF ToSet
  <2> QED BY <1>2, <2>1 DEF ValuesKnown
<1>4. ValuesKnown(w.outputs)
  <2>1. \A i \in DOMAIN w.outputs : w.outputs[i] \in ToSet(w.outputs)
    BY DEF ToSet
  <2> QED BY <1>1, <2>1 DEF ValuesKnown, Acceptable, Payable
<1>5. Total(Spent(w)) \in 0 .. MaxMoney /\ Total(w.outputs) \in 0 .. MaxMoney
  <2>1. Total(Spent(w)) \in Nat /\ Total(w.outputs) \in Nat
    BY <1>3, <1>4, SidesListed, PaidWithin
  <2> QED BY <1>1, <2>1 DEF Acceptable
<1>6. ASSUME Coinbase(w)
      PROVE  /\ Len(w.inputs) = 1
             /\ \A in \in ToSet(w.inputs) : in.coinbase = "yes" /\ in.prevout = NoOutput
             /\ AddressesOf(Spent(w)) = {}
  <2>1. PICK in \in ToSet(w.inputs) : in.coinbase = "yes"
    BY <1>6 DEF Coinbase
  <2>2. Len(w.inputs) = 1 /\ in.prevout = NoOutput
    BY <2>1 DEF Acceptable
  <2>3. \A i \in DOMAIN w.inputs : i = 1
    BY <2>2, SidesListed
  <2>4. \A x \in ToSet(w.inputs) : x = in
    BY <2>3 DEF ToSet
  <2>5. \A o \in ToSet(Spent(w)) : o = NoOutput
    <3>1. \A i \in DOMAIN Spent(w) : Spent(w)[i] = NoOutput
      <4>1. \A i \in DOMAIN Spent(w) : Spent(w)[i] = w.inputs[i].prevout /\ w.inputs[i] \in ToSet(w.inputs)
        BY SidesListed DEF ToSet
      <4> QED BY <2>2, <2>4, <4>1
    <3> QED BY <3>1 DEF ToSet
  <2>6. AddressesOf(Spent(w)) = {}
    BY <2>5 DEF AddressesOf
  <2> QED BY <2>1, <2>2, <2>4, <2>6
<1>7. ASSUME ~Coinbase(w)
      PROVE  /\ Total(w.outputs) <= Total(Spent(w))
             /\ \A in \in ToSet(w.inputs) :
                   in.coinbase = "no" /\ in.prevout # NoOutput /\ Payable(in.prevout)
  BY <1>7 DEF Acceptable, Coinbase
<1> QED BY <1>3, <1>4, <1>5, <1>6, <1>7

\* A list names finitely many addresses.
LEMMA AddressesFinite ==
    ASSUME NEW outputs \in Seq(Outputs)
    PROVE  IsFiniteSet(AddressesOf(outputs)) /\ IsFiniteSet(KnownOf(outputs))
<1> DEFINE named == [i \in 1 .. Len(outputs) |-> outputs[i].address]
           all == {outputs[i].address : i \in 1 .. Len(outputs)}
<1>1. Len(outputs) \in Nat /\ DOMAIN outputs = 1 .. Len(outputs)
  OBVIOUS
<1>2. named \in Surjection(1 .. Len(outputs), all)
  BY DEF Surjection
<1>3. IsFiniteSet(1 .. Len(outputs))
  BY <1>1, FS_Interval
<1>4. IsFiniteSet(all)
  <2> HIDE DEF named, all
  <2> QED BY <1>2, <1>3, FS_Surjection
<1>5. AddressesOf(outputs) \subseteq all
  BY <1>1 DEF AddressesOf, ToSet
<1>6. KnownOf(outputs) \subseteq AddressesOf(outputs)
  BY DEF KnownOf
<1> HIDE DEF all
<1>7. IsFiniteSet(AddressesOf(outputs))
  BY <1>4, <1>5, FS_Subset
<1> QED BY <1>6, <1>7, FS_Subset

\* The edges of a transaction are of one kind.
LEMMA EdgesOfAKind ==
    ASSUME NEW w \in Wires, Acceptable(w)
    PROVE  LET in == KnownOf(Spent(w)) out == KnownOf(w.outputs) IN
           \/ Coinbase(w) /\ Edges(w) = {}
           \/ /\ ~Coinbase(w) /\ in = {Target} /\ "" \notin AddressesOf(Spent(w))
              /\ Edges(w) = {Edge(a, "outbound", Paid(w.outputs, {a})) : a \in out \ {Target}}
           \/ \E from \in in : /\ ~Coinbase(w) /\ in = {from} /\ from # Target
                             /\ "" \notin AddressesOf(Spent(w))
                             /\ Edges(w) = {Edge(from, "inbound", Paid(w.outputs, {Target}))}
           \/ \E A \in SUBSET ((in \cup out) \ {Target}) :
                 ~Coinbase(w) /\ Edges(w) = {Edge(a, "cooccurrence", Absent) : a \in A}
<1> DEFINE in == KnownOf(Spent(w)) out == KnownOf(w.outputs)
           sole == Cardinality(in) = 1 /\ "" \notin AddressesOf(Spent(w))
           both == ((IF Target \in out THEN in ELSE {}) \cup (IF Target \in in THEN out ELSE {})) \ {Target}
           outbound == {Edge(a, "outbound", Paid(w.outputs, {a})) : a \in out \ {Target}}
           inbound == {Edge(a, "inbound", Paid(w.outputs, {Target})) : a \in in}
           together == {Edge(a, "cooccurrence", Absent) : a \in both}
<1>1. Edges(w) = CASE Coinbase(w) -> {}
                   [] sole /\ in = {Target} -> outbound
                   [] sole /\ in # {Target} -> inbound
                   [] OTHER -> together
  BY Zenon DEF Edges
<1>2. both \in SUBSET ((in \cup out) \ {Target})
  OBVIOUS
<1>3. ASSUME sole PROVE \E from \in in : in = {from}
  <2>1. IsFiniteSet(in)
    BY SidesListed, AddressesFinite
  <2> HIDE DEF in
  <2>2. PICK from : in = {from}
    BY <1>3, <2>1, FS_Singleton
  <2> QED BY <2>2
<1>4. \A from : in = {from} => inbound = {Edge(from, "inbound", Paid(w.outputs, {Target}))}
  <2> HIDE DEF in
  <2> QED OBVIOUS
<1>5. CASE Coinbase(w)
  <2>1. AddressesOf(Spent(w)) = {}
    BY <1>5, AcceptableFacts
  <2>2. in = {}
    BY <2>1 DEF KnownOf
  <2>3. ~sole
    <3>1. Cardinality(in) = 0
      BY <2>2, FS_EmptySet
    <3> HIDE DEF in
    <3> QED BY <3>1
  <2>4. Edges(w) = {}
    <3> HIDE DEF outbound, inbound, together, in, sole
    <3> QED BY <1>1, <1>5, <2>3
  <2> QED BY <1>5, <2>4
<1>6. CASE ~Coinbase(w) /\ sole /\ in = {Target}
  <2>1. Edges(w) = outbound
    <3> HIDE DEF outbound, inbound, together, in
    <3> QED BY <1>1, <1>6
  <2> QED BY <1>6, <2>1
<1>7. CASE ~Coinbase(w) /\ sole /\ in # {Target}
  <2>1. Edges(w) = inbound
    <3> HIDE DEF outbound, inbound, together, in
    <3> QED BY <1>1, <1>7
  <2>2. PICK from \in in : in = {from}
    BY <1>3, <1>7
  <2> HIDE DEF inbound
  <2>3. Edges(w) = {Edge(from, "inbound", Paid(w.outputs, {Target}))}
    BY <1>4, <2>1, <2>2
  <2> QED BY <1>7, <2>2, <2>3
<1>8. CASE ~Coinbase(w) /\ ~sole
  <2>1. Edges(w) = together
    <3> HIDE DEF outbound, inbound, together, in, sole
    <3> QED BY <1>1, <1>8
  <2> QED BY <1>2, <1>8, <2>1
<1> HIDE DEF sole
<1> QED BY <1>5, <1>6, <1>7, <1>8

\* What an observation says of the target is its net change.
LEMMA ObservedChange ==
    ASSUME NEW w \in Wires, Acceptable(w)
    PROVE  LET n == NormalizeTransaction(w) got == Paid(w.outputs, {Target}) gave == Paid(Spent(w), {Target}) IN
           /\ got \in 0 .. MaxMoney /\ gave \in 0 .. MaxMoney
           /\ n.kind = "observed" /\ n # Rejected /\ n.edges = Edges(w)
           /\ n.value = IF got < gave THEN gave - got ELSE got - gave
           /\ n.direction = IF got > gave THEN "inbound" ELSE IF got < gave THEN "outbound" ELSE "self"
<1> DEFINE n == NormalizeTransaction(w) got == Paid(w.outputs, {Target}) gave == Paid(Spent(w), {Target})
           delta == got - gave
<1>1. got \in 0 .. MaxMoney /\ gave \in 0 .. MaxMoney
  <2>1. /\ got \in Nat /\ got <= Total(w.outputs) /\ gave \in Nat /\ gave <= Total(Spent(w))
    BY AcceptableFacts, SidesListed, PaidWithin
  <2>2. Total(Spent(w)) \in 0 .. MaxMoney /\ Total(w.outputs) \in 0 .. MaxMoney /\ MaxMoney \in Nat
    BY AcceptableFacts, EvidenceAssumption
  <2> HIDE DEF got, gave
  <2> QED BY <2>1, <2>2
<1>2. n = [kind |-> "observed",
           direction |-> IF delta > 0 THEN "inbound" ELSE IF delta < 0 THEN "outbound" ELSE "self",
           value |-> IF delta < 0 THEN -delta ELSE delta,
           edges |-> Edges(w)]
  BY DEF NormalizeTransaction
<1>3. n # Rejected
  <2>1. n.kind = "observed" /\ Rejected.kind = "rejected"
    BY <1>2 DEF Rejected
  <2> HIDE DEF n
  <2> QED BY <2>1
<1> HIDE DEF got, gave, n
<1>4. /\ n.kind = "observed" /\ n.edges = Edges(w)
      /\ n.value = IF delta < 0 THEN -delta ELSE delta
      /\ n.direction = IF delta > 0 THEN "inbound" ELSE IF delta < 0 THEN "outbound" ELSE "self"
  BY <1>2
<1>5. /\ (delta < 0 <=> got < gave) /\ (delta > 0 <=> got > gave) /\ -delta = gave - got
      /\ got \in Int /\ gave \in Int
  BY <1>1, EvidenceAssumption
<1> HIDE DEF delta
<1>6. /\ n.value = IF got < gave THEN gave - got ELSE got - gave
      /\ n.direction = IF got > gave THEN "inbound" ELSE IF got < gave THEN "outbound" ELSE "self"
  BY <1>4, <1>5 DEF delta
<1> QED BY <1>1, <1>3, <1>4, <1>6 DEF n, got, gave

\* What a sole funder's transaction pays besides its change goes to known addresses, to
\* unknown ones and to the fee.
LEMMA SoleFunder ==
    ASSUME NEW w \in Wires, Acceptable(w), KnownOf(Spent(w)) = {Target}, "" \notin AddressesOf(Spent(w))
    PROVE  LET others == KnownOf(w.outputs) \ {Target} IN
           /\ Total(Spent(w)) = Paid(Spent(w), {Target})
           /\ Total(w.outputs)
                = Paid(w.outputs, {Target}) + Paid(w.outputs, {""}) + Paid(w.outputs, others)
<1> DEFINE all == AddressesOf(w.outputs) others == KnownOf(w.outputs) \ {Target}
<1>1. Spent(w) \in Seq(Outputs) /\ w.outputs \in Seq(Outputs)
  BY SidesListed
<1>2. AddressesOf(Spent(w)) = {Target} /\ Target # ""
  BY DEF KnownOf
<1>3. Total(Spent(w)) = Paid(Spent(w), {Target})
  BY <1>2 DEF Total
<1>4. (({Target} \cup {""}) \cup others) \cap all = all \cap all
  BY DEF KnownOf
<1>5. Total(w.outputs) = Paid(w.outputs, all)
  BY DEF Total
<1>6. {Target} \cap {""} = {} /\ ({Target} \cup {""}) \cap others = {}
  BY <1>2 DEF KnownOf
<1> HIDE DEF others
<1>7. Paid(w.outputs, all) = Paid(w.outputs, ({Target} \cup {""}) \cup others)
  BY <1>1, <1>4, PaidToListed
<1>8. Paid(w.outputs, ({Target} \cup {""}) \cup others)
        = Paid(w.outputs, {Target} \cup {""}) + Paid(w.outputs, others)
  BY <1>1, <1>6, PaidSplit
<1>9. Paid(w.outputs, {Target} \cup {""}) = Paid(w.outputs, {Target}) + Paid(w.outputs, {""})
  BY <1>1, <1>6, PaidSplit
<1> QED BY <1>3, <1>5, <1>7, <1>8, <1>9 DEF others

\* The valued edges of a transaction: what a sole funder's counterparties got, or the
\* one edge of what the target got from a sole funder.
LEMMA ValuesConserved ==
    ASSUME NEW w \in Wires, Acceptable(w)
    PROVE  Conserved(w, NormalizeTransaction(w))
<1> DEFINE n == NormalizeTransaction(w) got == Paid(w.outputs, {Target}) gave == Paid(Spent(w), {Target})
           in == KnownOf(Spent(w)) out == KnownOf(w.outputs)
           valued == {e \in n.edges : e.value # Absent}
           sent == {e \in valued : e.direction = "outbound"}
           given == MapThenSumSet(LAMBDA e : e.value, sent)
           Unique == \A e, f \in n.edges : e.address = f.address => e = f
           Others == \A e \in n.edges : e.address \notin {Target, ""}
           Spends == in = {Target} /\ valued # {} =>
                         n.value = given + Paid(w.outputs, {""}) + Total(Spent(w)) - Total(w.outputs)
           Receives == \A e \in valued : e.direction = "inbound" => e.value = n.value
           Sound == Unique /\ Others /\ Spends /\ Receives
<1>1. /\ got \in 0 .. MaxMoney /\ gave \in 0 .. MaxMoney
      /\ n.kind = "observed" /\ n # Rejected /\ n.edges = Edges(w)
      /\ n.value = IF got < gave THEN gave - got ELSE got - gave
      /\ n.direction = IF got > gave THEN "inbound" ELSE IF got < gave THEN "outbound" ELSE "self"
  BY ObservedChange
<1>2. Spent(w) \in Seq(Outputs) /\ w.outputs \in Seq(Outputs)
  BY SidesListed
<1>3. ValuesKnown(Spent(w)) /\ ValuesKnown(w.outputs) /\ (~Coinbase(w) => Total(w.outputs) <= Total(Spent(w)))
  BY AcceptableFacts
<1>4. n.value \in 0 .. MaxMoney /\ (n.direction = "self" <=> n.value = 0)
  <2> HIDE DEF n, got, gave
  <2> QED BY <1>1, EvidenceAssumption
<1>5. "" \notin in /\ "" \notin out /\ in \subseteq AddressesOf(Spent(w))
  BY DEF KnownOf
<1>6. ASSUME n.edges = {} PROVE Sound
  <2> HIDE DEF n, given, in
  <2> QED BY <1>6
<1>7. ASSUME ~Coinbase(w), in = {Target}, "" \notin AddressesOf(Spent(w)),
             n.edges = {Edge(a, "outbound", Paid(w.outputs, {a})) : a \in out \ {Target}}
      PROVE  Sound
  <2> DEFINE others == out \ {Target} E == {Edge(a, "outbound", Paid(w.outputs, {a})) : a \in others}
  <2>1. \A a : Paid(w.outputs, {a}) \in Nat
    BY <1>2, <1>3, PaidWithin
  <2>2. \A e \in E : \E a \in others : e.address = a /\ e.direction = "outbound"
                                    /\ e.value = Paid(w.outputs, {a}) /\ e = Edge(a, "outbound", e.value)
    <3>1. ASSUME NEW e \in E
          PROVE  \E a \in others : e.address = a /\ e.direction = "outbound"
                                /\ e.value = Paid(w.outputs, {a}) /\ e = Edge(a, "outbound", e.value)
      <4>1. PICK a \in others : e = Edge(a, "outbound", Paid(w.outputs, {a}))
        OBVIOUS
      <4> HIDE DEF others
      <4> QED BY <4>1 DEF Edge
    <3> QED BY <3>1
  <2>3. n.edges = E
    BY <1>7
  <2> HIDE DEF E
  <2>4. valued = E /\ sent = E
    <3>1. \A e \in E : e.value # Absent /\ e.direction = "outbound"
      <4>1. \A k \in Nat : k # Absent
        BY DEF Absent
      <4> HIDE DEF n, others
      <4> QED BY <2>1, <2>2, <4>1
    <3> HIDE DEF n
    <3> QED BY <2>3, <3>1
  <2>5. Unique /\ Others
    <3> HIDE DEF n, others
    <3>1. Unique
      <4>1. ASSUME NEW e \in E, NEW f \in E, e.address = f.address PROVE e = f
        BY <2>2, <4>1
      <4> QED BY <2>3, <4>1
    <3>2. "" \notin others /\ Target \notin others
      BY <1>5 DEF others
    <3> QED BY <2>2, <2>3, <3>1, <3>2
  <2>6. given = Paid(w.outputs, others)
    <3>1. IsFiniteSet(others)
      <4>1. IsFiniteSet(out)
        BY <1>2, AddressesFinite
      <4> HIDE DEF out
      <4> QED BY <4>1, FS_Subset
    <3> HIDE DEF others
    <3>2. MapThenSumSet(LAMBDA e : e.value, E) = Paid(w.outputs, others)
      BY <1>2, <3>1, GivenIsPaid DEF E
    <3> HIDE DEF n
    <3> QED BY <2>4, <3>2
  <2>7. PICK spent, paid, lost, kept :
            /\ spent = Total(Spent(w)) /\ paid = Total(w.outputs)
            /\ lost = Paid(w.outputs, {""}) /\ kept = Paid(w.outputs, others)
    OBVIOUS
  <2>8. spent = gave /\ paid = got + lost + kept
    BY <1>7, <2>7, SoleFunder
  <2>9. lost \in Nat /\ kept \in Nat /\ got \in Nat /\ gave \in Nat
    BY <1>2, <1>3, <2>7, PaidWithin
  <2>10. got <= gave /\ gave - got = kept + lost + spent - paid
    <3>1. paid <= spent
      BY <1>3, <1>7, <2>7
    <3> HIDE DEF got, gave
    <3> QED BY <2>8, <2>9, <3>1
  <2>11. Spends
    <3>1. n.value = gave - got
      <4> HIDE DEF n, got, gave
      <4> QED BY <1>1, <2>9, <2>10
    <3>2. n.value = given + Paid(w.outputs, {""}) + Total(Spent(w)) - Total(w.outputs)
      <4> HIDE DEF n, got, gave, given, others
      <4> QED BY Zenon, <2>6, <2>7, <2>10, <3>1
    <3> HIDE DEF n, given
    <3> QED BY <3>2
  <2>12. Receives
    <3> HIDE DEF n, E, others, valued
    <3>1. \A e \in E : e.direction # "inbound"
      BY <2>2
    <3> QED BY <2>4, <3>1
  <2> QED BY <2>5, <2>11, <2>12
<1>8. ASSUME NEW from \in in, in = {from}, from # Target, "" \notin AddressesOf(Spent(w)),
             n.edges = {Edge(from, "inbound", got)}
      PROVE  Sound
  <2>2. AddressesOf(Spent(w)) = {from}
    BY <1>8 DEF KnownOf
  <2>3. gave = 0
    <3>1. {Target} \cap AddressesOf(Spent(w)) = {}
      BY <1>8, <2>2
    <3> QED BY <1>2, <3>1, NobodyPaid
  <2>4. n.value = got
    <3> HIDE DEF n, got, gave
    <3> QED BY <1>1, <2>3, EvidenceAssumption
  <2> HIDE DEF n, in, got
  <2>5. ASSUME NEW e \in n.edges
        PROVE  e = Edge(from, "inbound", got) /\ e.address = from /\ e.direction = "inbound" /\ e.value = got
    <3>1. e = Edge(from, "inbound", got)
      BY <1>8
    <3> QED BY <3>1 DEF Edge
  <2>6. Unique /\ Others
    BY <1>5, <1>8, <2>5
  <2>7. Spends
    <3>1. in # {Target}
      BY <1>8
    <3> QED BY <3>1
  <2>8. Receives
    BY <2>4, <2>5
  <2> QED BY <2>6, <2>7, <2>8
<1>9. ASSUME NEW A \in SUBSET ((in \cup out) \ {Target}),
             n.edges = {Edge(a, "cooccurrence", Absent) : a \in A}
      PROVE  Sound
  <2> HIDE DEF n, in, out
  <2>2. ASSUME NEW e \in n.edges
        PROVE  e.address \in A /\ e.value = Absent /\ e = Edge(e.address, "cooccurrence", Absent)
    <3>1. PICK a \in A : e = Edge(a, "cooccurrence", Absent)
      BY <1>9
    <3> QED BY <3>1 DEF Edge
  <2>3. valued = {}
    BY <2>2
  <2>4. Unique /\ Others
    BY <1>5, <2>2
  <2> QED BY <2>3, <2>4
<1>10. Sound
  <2>1. \/ n.edges = {}
        \/ /\ ~Coinbase(w) /\ in = {Target} /\ "" \notin AddressesOf(Spent(w))
           /\ n.edges = {Edge(a, "outbound", Paid(w.outputs, {a})) : a \in out \ {Target}}
        \/ \E from \in in : /\ ~Coinbase(w) /\ in = {from} /\ from # Target
                          /\ "" \notin AddressesOf(Spent(w))
                          /\ n.edges = {Edge(from, "inbound", got)}
        \/ \E A \in SUBSET ((in \cup out) \ {Target}) :
             ~Coinbase(w) /\ n.edges = {Edge(a, "cooccurrence", Absent) : a \in A}
    <3> HIDE DEF n
    <3> QED BY Zenon, <1>1, EdgesOfAKind
  <2> HIDE DEF n, in, out, got, Sound
  <2> QED BY <1>6, <1>7, <1>8, <1>9, <2>1
<1> QED BY <1>4, <1>10, Zenon DEF Conserved

\* What parseTransaction says of a transaction that it takes.
LEMMA ParsedFacts ==
    ASSUME NEW w
    PROVE  LET p == ParseTransaction(w) IN
           /\ p.kind = "observed" =>
                 /\ WellFormed(w) /\ p.complete = ValuesComplete(w)
                 /\ p.senders = KnownOf(Spent(w)) /\ p.receivers = KnownOf(w.outputs)
           /\ WellFormed(w) /\ w.fee = Absent => p.kind = "observed"
<1> DEFINE p == ParseTransaction(w)
           wrong == ValuesComplete(w) /\ w.fee # Absent /\ Total(Spent(w)) - Total(w.outputs) # w.fee
           fee == IF Coinbase(w) THEN "not_applicable"
                  ELSE IF ValuesComplete(w) /\ w.fee # Absent THEN "consistent" ELSE "unavailable"
           input == IF ValuesComplete(w) THEN Total(Spent(w)) ELSE Absent
           parsed == [kind |-> "observed", complete |-> ValuesComplete(w), input |-> input,
                      output |-> Total(w.outputs), fee |-> fee,
                      senders |-> KnownOf(Spent(w)), receivers |-> KnownOf(w.outputs)]
<1>1. p = IF ~WellFormed(w) THEN Rejected
          ELSE IF wrong THEN [kind |-> "inconsistent_fee"]
          ELSE parsed
  BY Zenon DEF ParseTransaction
<1>2. Rejected.kind # "observed" /\ [kind |-> "inconsistent_fee"].kind # "observed"
  BY DEF Rejected
<1>3. /\ parsed.kind = "observed" /\ parsed.complete = ValuesComplete(w)
      /\ parsed.senders = KnownOf(Spent(w)) /\ parsed.receivers = KnownOf(w.outputs)
  <2> HIDE DEF fee, input
  <2> QED OBVIOUS
<1>4. w.fee = Absent => ~wrong
  OBVIOUS
<1> HIDE DEF p, parsed, wrong
<1>5. p.kind = "observed" => WellFormed(w) /\ p = parsed
  BY <1>1, <1>2
<1>6. WellFormed(w) /\ w.fee = Absent => p = parsed
  BY <1>1, <1>4
<1> QED BY <1>3, <1>5, <1>6 DEF p

\* A transaction of the history that names no output twice and states no fee is one that
\* the transaction search takes.
LEMMA HistoryIsWellFormed ==
    ASSUME NEW w \in Wires, Acceptable(w), w.fee = Absent, Coinbase(w) \/ IsInjective(References(w))
    PROVE  WellFormed(w) /\ (ValuesComplete(w) <=> ~Coinbase(w))
<1>1. /\ w.confirmed # "absent" /\ Len(w.inputs) \in 1 .. MaxIO /\ Len(w.outputs) \in 1 .. MaxIO
      /\ \A o \in ToSet(w.outputs) : Payable(o)
      /\ Total(w.outputs) <= MaxMoney /\ Total(Spent(w)) <= MaxMoney
  BY DEF Acceptable
<1>2. \A in \in ToSet(w.inputs) :
          \/ in.coinbase = "yes" /\ Len(w.inputs) = 1 /\ in.prevout = NoOutput /\ w.fee \in {Absent, 0}
          \/ /\ in.coinbase = "no"
             /\ in.prevout = NoOutput \/ in.prevout.value = Absent \/ Payable(in.prevout)
             /\ in.prevout.address # "malformed"
  BY DEF Acceptable, Payable
<1>3. ~Coinbase(w) => IsInjective(References(w))
  OBVIOUS
<1>4. ValuesComplete(w) => Total(w.outputs) <= Total(Spent(w))
  BY AcceptableFacts DEF ValuesComplete
<1>5. w.fee \in {Absent} \cup 0 .. MaxMoney
  OBVIOUS
<1>6. WellFormed(w)
  BY <1>1, <1>2, <1>3, <1>4, <1>5 DEF WellFormed
<1>7. \A o : Payable(o) => o.value # Absent
  BY EvidenceAssumption DEF Payable, Absent
<1>8. ValuesComplete(w) <=> ~Coinbase(w)
  BY <1>7, AcceptableFacts DEF ValuesComplete
<1> QED BY <1>6, <1>8

\* A confirmed transaction that the transaction search takes, its values known, is one of
\* the history of its addresses.
LEMMA WellFormedIsHistory ==
    ASSUME NEW w \in Wires, WellFormed(w), w.confirmed = "yes", Coinbase(w) \/ ValuesComplete(w),
           Target \in KnownOf(Spent(w)) \cup KnownOf(w.outputs)
    PROVE  Acceptable(w)
<1>1. /\ Len(w.inputs) \in 1 .. MaxIO /\ Len(w.outputs) \in 1 .. MaxIO
      /\ \A o \in ToSet(w.outputs) : Payable(o)
      /\ Total(w.outputs) <= MaxMoney /\ Total(Spent(w)) <= MaxMoney
      /\ ValuesComplete(w) => Total(w.outputs) <= Total(Spent(w))
  BY DEF WellFormed
<1>2. \A in \in ToSet(w.inputs) :
          \/ in.coinbase = "yes" /\ Len(w.inputs) = 1 /\ in.prevout = NoOutput
          \/ in.coinbase = "no" /\ in.prevout # NoOutput /\ Payable(in.prevout)
  <2>1. ASSUME NEW in \in ToSet(w.inputs), in.coinbase # "yes"
        PROVE  in.coinbase = "no" /\ in.prevout # NoOutput /\ Payable(in.prevout)
    <3>1. in.coinbase = "no" /\ (in.prevout = NoOutput \/ in.prevout.value = Absent \/ Payable(in.prevout))
      BY <2>1 DEF WellFormed
    <3>2. ~Coinbase(w)
      <4>1. SUFFICES ASSUME Coinbase(w) PROVE FALSE
        OBVIOUS
      <4>2. PICK first \in ToSet(w.inputs) : first.coinbase = "yes"
        BY <4>1 DEF Coinbase
      <4>3. Len(w.inputs) = 1
        BY <4>2 DEF WellFormed
      <4>4. \A i \in DOMAIN w.inputs : i = 1
        BY <4>3, SidesListed
      <4>5. in = first
        BY <4>4 DEF ToSet
      <4> QED BY <2>1, <4>2, <4>5
    <3>3. in.prevout.value # Absent
      BY <3>2 DEF ValuesComplete
    <3>4. in.prevout # NoOutput
      BY <3>3 DEF NoOutput
    <3> QED BY <3>1, <3>3, <3>4
  <2>2. ASSUME NEW in \in ToSet(w.inputs), in.coinbase = "yes"
        PROVE  Len(w.inputs) = 1 /\ in.prevout = NoOutput
    BY <2>2 DEF WellFormed
  <2> QED BY <2>1, <2>2
<1>3. Target \in AddressesOf(Spent(w)) \cup AddressesOf(w.outputs)
  BY DEF KnownOf
<1>4. Coinbase(w) \/ Total(w.outputs) <= Total(Spent(w))
  BY <1>1
<1> QED BY <1>1, <1>2, <1>3, <1>4 DEF Acceptable

\* An edge leads from or to an address of the transaction, with what was paid or without
\* a value.
LEMMA EdgeForms ==
    ASSUME NEW w \in Wires, Acceptable(w), NEW e \in Edges(w)
    PROVE  \/ \E a \in KnownOf(w.outputs) : e = Edge(a, "outbound", Paid(w.outputs, {a}))
           \/ \E a \in KnownOf(Spent(w)) : e = Edge(a, "inbound", Paid(w.outputs, {Target}))
           \/ \E a \in KnownOf(Spent(w)) \cup KnownOf(w.outputs) : e = Edge(a, "cooccurrence", Absent)
<1> DEFINE in == KnownOf(Spent(w)) out == KnownOf(w.outputs)
<1>1. \/ Edges(w) = {}
      \/ Edges(w) = {Edge(a, "outbound", Paid(w.outputs, {a})) : a \in out \ {Target}}
      \/ \E from \in in : Edges(w) = {Edge(from, "inbound", Paid(w.outputs, {Target}))}
      \/ \E A \in SUBSET ((in \cup out) \ {Target}) : Edges(w) = {Edge(a, "cooccurrence", Absent) : a \in A}
  BY Zenon, EdgesOfAKind
<1> HIDE DEF in, out
<1>2. ASSUME Edges(w) = {Edge(a, "outbound", Paid(w.outputs, {a})) : a \in out \ {Target}}
      PROVE  \E a \in out : e = Edge(a, "outbound", Paid(w.outputs, {a}))
  BY <1>2
<1>3. ASSUME NEW from \in in, Edges(w) = {Edge(from, "inbound", Paid(w.outputs, {Target}))}
      PROVE  \E a \in in : e = Edge(a, "inbound", Paid(w.outputs, {Target}))
  BY <1>3
<1>4. ASSUME NEW A \in SUBSET ((in \cup out) \ {Target}), Edges(w) = {Edge(a, "cooccurrence", Absent) : a \in A}
      PROVE  \E a \in in \cup out : e = Edge(a, "cooccurrence", Absent)
  BY <1>4
<1>5. Edges(w) # {}
  OBVIOUS
<1> QED BY <1>1, <1>2, <1>3, <1>4, <1>5, Zenon DEF in, out

\* The addresses of the edges are those of the transaction.
LEMMA EdgesNamed ==
    ASSUME NEW w \in Wires, Acceptable(w)
    PROVE  {e.address : e \in Edges(w)} \subseteq (KnownOf(Spent(w)) \cup KnownOf(w.outputs))
<1>1. SUFFICES ASSUME NEW e \in Edges(w)
               PROVE  e.address \in KnownOf(Spent(w)) \cup KnownOf(w.outputs)
  OBVIOUS
<1>2. \/ \E a \in KnownOf(w.outputs) : e = Edge(a, "outbound", Paid(w.outputs, {a}))
      \/ \E a \in KnownOf(Spent(w)) : e = Edge(a, "inbound", Paid(w.outputs, {Target}))
      \/ \E a \in KnownOf(Spent(w)) \cup KnownOf(w.outputs) : e = Edge(a, "cooccurrence", Absent)
  BY <1>1, EdgeForms
<1>3. \E a \in KnownOf(Spent(w)) \cup KnownOf(w.outputs) : \E d, v : e = Edge(a, d, v)
  BY <1>2, Zenon
<1> QED BY <1>3 DEF Edge

\* Both parsers read the transaction the same way.
LEMMA ParsersAgree ==
    ASSUME NEW w \in Wires
    PROVE  Agreeing(w)
<1> DEFINE n == NormalizeTransaction(w) p == ParseTransaction(w)
<1>1. n # Rejected <=> Acceptable(w)
  BY ObservedChange DEF NormalizeTransaction
<1>2. ASSUME n # Rejected, w.fee = Absent, Coinbase(w) \/ IsInjective(References(w))
      PROVE  /\ p.kind = "observed" /\ p.complete = ~Coinbase(w)
             /\ {e.address : e \in n.edges} \subseteq (p.senders \cup p.receivers)
  <2>1. Acceptable(w)
    BY <1>1, <1>2
  <2>2. WellFormed(w) /\ (ValuesComplete(w) <=> ~Coinbase(w))
    BY <1>2, <2>1, HistoryIsWellFormed
  <2>3. /\ p.kind = "observed" /\ p.complete = ValuesComplete(w)
        /\ p.senders = KnownOf(Spent(w)) /\ p.receivers = KnownOf(w.outputs)
    BY <1>2, <2>2, ParsedFacts
  <2>4. n.edges = Edges(w)
    BY <2>1, ObservedChange
  <2>5. ValuesComplete(w) = ~Coinbase(w)
    BY <2>2 DEF ValuesComplete, Coinbase
  <2> HIDE DEF n, p
  <2> QED BY <2>1, <2>3, <2>4, <2>5, EdgesNamed
<1>3. ASSUME p.kind = "observed", w.confirmed = "yes", Coinbase(w) \/ p.complete,
             Target \in p.senders \cup p.receivers
      PROVE  n # Rejected
  <2>1. /\ WellFormed(w) /\ p.complete = ValuesComplete(w)
        /\ p.senders = KnownOf(Spent(w)) /\ p.receivers = KnownOf(w.outputs)
    BY <1>3, ParsedFacts
  <2> HIDE DEF n, p
  <2>2. Acceptable(w)
    BY <1>3, <2>1, WellFormedIsHistory
  <2> QED BY <1>1, <2>2
<1> HIDE DEF n, p
<1> QED BY <1>2, <1>3 DEF Agreeing, n, p

-----------------------------------------------------------------------------
(* The Bitcoin evidence: counterparties *)

\* An edge's value is known to be a number, or absent.
EdgeOk(e) == e.value = Absent \/ e.value \in Nat

\* The edges of an observation are such edges.
LEMMA EdgesOk ==
    ASSUME NEW w \in Wires, Acceptable(w)
    PROVE  \A e \in Edges(w) : EdgeOk(e)
<1>1. \A S : Paid(w.outputs, S) \in Nat
  BY AcceptableFacts, SidesListed, PaidWithin
<1>2. SUFFICES ASSUME NEW e \in Edges(w) PROVE EdgeOk(e)
  OBVIOUS
<1>3. \/ \E a : e = Edge(a, "outbound", Paid(w.outputs, {a}))
      \/ \E a : e = Edge(a, "inbound", Paid(w.outputs, {Target}))
      \/ \E a : e = Edge(a, "cooccurrence", Absent)
  BY <1>2, EdgeForms
<1>4. \E a, d, v : e = Edge(a, d, v) /\ (v = Absent \/ v \in Nat)
  BY <1>1, <1>3, Zenon
<1> QED BY <1>4 DEF Edge, EdgeOk

\* So is a counterparty's record.
PeerOk(peer) == peer.count \in Nat /\ EdgeOk(peer)

\* Edges add up.
LEMMA EdgesAdd ==
    ASSUME NEW peer, PeerOk(peer), NEW e, EdgeOk(e)
    PROVE  PeerOk(WithEdge(peer, e))
<1> DEFINE value == IF e.value = Absent \/ peer.value = Absent THEN Absent ELSE peer.value + e.value
<1>1. value = Absent \/ value \in Nat
  BY DEF PeerOk, EdgeOk
<1>2. peer.count + 1 \in Nat
  BY DEF PeerOk
<1>3. WithEdge(peer, e).count = peer.count + 1 /\ WithEdge(peer, e).value = value
  BY DEF WithEdge
<1> QED BY <1>1, <1>2, <1>3 DEF PeerOk, EdgeOk

\* Two edges may be added in either order.
LEMMA EdgesCommute ==
    ASSUME NEW peer, PeerOk(peer), NEW d, EdgeOk(d), NEW e, EdgeOk(e)
    PROVE  WithEdge(WithEdge(peer, d), e) = WithEdge(WithEdge(peer, e), d)
<1> DEFINE With(value, x) == IF x = Absent \/ value = Absent THEN Absent ELSE value + x
           Turn(times, direction, x) == IF times = 0 \/ direction = x THEN x ELSE "mixed"
<1>1. With(With(peer.value, d.value), e.value) = With(With(peer.value, e.value), d.value)
  BY DEF PeerOk, EdgeOk, Absent
<1>2. /\ peer.count \in Nat /\ peer.count + 1 # 0
  BY DEF PeerOk
<1>3. Turn(peer.count + 1, Turn(peer.count, peer.direction, d.direction), e.direction)
        = Turn(peer.count + 1, Turn(peer.count, peer.direction, e.direction), d.direction)
  BY <1>2
<1>4. \A p, x : WithEdge(p, x) = [count |-> p.count + 1, direction |-> Turn(p.count, p.direction, x.direction),
                                value |-> With(p.value, x.value)]
  BY DEF WithEdge
<1> HIDE DEF With, Turn
<1>5. \A x : /\ WithEdge(peer, x).count = peer.count + 1
             /\ WithEdge(peer, x).direction = Turn(peer.count, peer.direction, x.direction)
             /\ WithEdge(peer, x).value = With(peer.value, x.value)
  BY <1>4
<1>6. PICK first : first = WithEdge(peer, d)
  OBVIOUS
<1>7. PICK other : other = WithEdge(peer, e)
  OBVIOUS
<1>8. /\ first.count = peer.count + 1 /\ other.count = peer.count + 1
      /\ first.direction = Turn(peer.count, peer.direction, d.direction)
      /\ other.direction = Turn(peer.count, peer.direction, e.direction)
      /\ first.value = With(peer.value, d.value) /\ other.value = With(peer.value, e.value)
  BY <1>5, <1>6, <1>7
<1>9. WithEdge(first, e) = WithEdge(other, d)
  <2>1. /\ Turn(first.count, first.direction, e.direction) = Turn(other.count, other.direction, d.direction)
        /\ With(first.value, e.value) = With(other.value, d.value)
        /\ first.count + 1 = other.count + 1
    BY <1>1, <1>3, <1>8
  <2>2. WithEdge(first, e) = [count |-> first.count + 1, direction |-> Turn(first.count, first.direction, e.direction),
                              value |-> With(first.value, e.value)]
    BY <1>4
  <2>3. WithEdge(other, d) = [count |-> other.count + 1, direction |-> Turn(other.count, other.direction, d.direction),
                              value |-> With(other.value, d.value)]
    BY <1>4
  <2> QED BY <2>1, <2>2, <2>3
<1> QED BY <1>6, <1>7, <1>9

\* The same for the edges of two transactions, of which either may have none.
LEMMA SeenCommutes ==
    ASSUME NEW peer, PeerOk(peer), NEW N, \A e \in N : EdgeOk(e), NEW M, \A e \in M : EdgeOk(e)
    PROVE  Seen(Seen(peer, N), M) = Seen(Seen(peer, M), N)
<1>1. CASE N = {} \/ M = {}
  BY <1>1 DEF Seen
<1>2. CASE N # {} /\ M # {}
  <2>1. PICK d : d = CHOOSE x \in N : TRUE
    OBVIOUS
  <2>2. PICK e : e = CHOOSE x \in M : TRUE
    OBVIOUS
  <2>3. EdgeOk(d) /\ EdgeOk(e)
    BY <1>2, <2>1, <2>2
  <2>4. \A p : Seen(p, N) = WithEdge(p, d) /\ Seen(p, M) = WithEdge(p, e)
    BY <1>2, <2>1, <2>2, Zenon DEF Seen
  <2> QED BY <2>3, <2>4, EdgesCommute
<1> QED BY <1>1, <1>2

\* What normalizeTransaction makes of the transactions that it takes.
Normalized == {NormalizeTransaction(w) : w \in {v \in Wires : Acceptable(v)}}

\* The records start from nothing and see one transaction after another.
LEMMA PeersDefined ==
    ASSUME NEW observed \in Seq(Normalized), NEW a
    PROVE  /\ Peers(observed, a)[0] = NoPeer
           /\ \A n \in 1 .. Len(observed) :
                Peers(observed, a)[n]
                  = Seen(Peers(observed, a)[n - 1], {e \in observed[n].edges : e.address = a})
<1> DEFINE edges(n) == {e \in observed[n].edges : e.address = a}
           Adds(g, m) ==
             g = [n \in 0 .. m |-> IF n = 0 THEN NoPeer ELSE Seen(g[n - 1], edges(n))]
           Reached == {m \in 0 .. Len(observed) : \E g : Adds(g, m)}
<1>1. Len(observed) \in Nat
  OBVIOUS
<1> HIDE DEF edges
<1>2. 0 \in Reached
  <2> DEFINE g == [n \in 0 .. 0 |-> NoPeer]
  <2>1. \A n \in 0 .. 0 : n = 0
    OBVIOUS
  <2>2. Adds(g, 0)
    BY <2>1
  <2> HIDE DEF g
  <2>3. \E f : Adds(f, 0)
    BY <2>2
  <2> QED BY <1>1, <2>3
<1>3. ASSUME NEW m \in 1 .. Len(observed), m - 1 \in Reached
      PROVE  m \in Reached
  <2>1. PICK g : Adds(g, m - 1)
    BY <1>3
  <2> DEFINE h == [n \in 0 .. m |-> IF n = m THEN Seen(g[m - 1], edges(m)) ELSE g[n]]
  <2>2. m \in Nat /\ m # 0
    BY <1>1
  <2>3. ASSUME NEW n \in 0 .. m PROVE h[n] = IF n = 0 THEN NoPeer ELSE Seen(h[n - 1], edges(n))
    <3>1. n # 0 => n - 1 \in 0 .. m /\ n - 1 # m
      BY <2>2
    <3>2. n # 0 => h[n - 1] = g[n - 1]
      BY <3>1
    <3>3. CASE n = m
      BY <2>2, <3>2, <3>3
    <3>4. CASE n # m
      <4>1. n \in 0 .. m - 1 /\ h[n] = g[n]
        BY <2>2, <3>4
      <4> HIDE DEF h
      <4> QED BY <2>1, <3>2, <4>1
    <3> QED BY <3>3, <3>4
  <2>4. Adds(h, m)
    <3>1. h = [n \in 0 .. m |-> h[n]]
      OBVIOUS
    <3> HIDE DEF h
    <3> QED BY <2>3, <3>1
  <2> HIDE DEF h
  <2>5. \E f : Adds(f, m)
    BY <2>4
  <2>6. m \in 0 .. Len(observed)
    BY <1>1
  <2> QED BY <2>5, <2>6
<1>4. \E g : Adds(g, Len(observed))
  <2>1. \A m \in 1 .. Len(observed) : m - 1 \in Reached => m \in Reached
    BY <1>3
  <2>2. Len(observed) \in 0 .. Len(observed)
    BY <1>1
  <2>3. 0 .. Len(observed) \subseteq Reached
    <3> HIDE DEF Reached
    <3> QED BY <1>1, <1>2, <2>1, CountingUp
  <2> QED BY <2>2, <2>3
<1> DEFINE f == Peers(observed, a)
<1>5. f = CHOOSE g : Adds(g, Len(observed))
  BY DEF Peers, edges
<1> HIDE DEF f
<1>6. Adds(f, Len(observed))
  <2> HIDE DEF Adds
  <2> QED BY <1>4, <1>5
<1>7. f[0] = NoPeer /\ \A n \in 1 .. Len(observed) : f[n] = Seen(f[n - 1], edges(n))
  <2>1. 0 \in 0 .. Len(observed) /\ \A n \in 1 .. Len(observed) : n \in 0 .. Len(observed) /\ n # 0
    BY <1>1
  <2> QED BY <1>6, <2>1
<1> QED BY <1>7 DEF f, edges

\* A history with two neighbours exchanged.
Swapped(s, i) == [j \in DOMAIN s |-> IF j = i THEN s[i + 1] ELSE IF j = i + 1 THEN s[i] ELSE s[j]]

\* The record of a counterparty over a history of any length does not depend on the order
\* in which project takes two neighbours, and so on no other order either: every order is
\* a series of such exchanges.
THEOREM ProjectionOrderless ==
    ASSUME NEW observed \in Seq(Normalized), NEW i \in 1 .. Len(observed) - 1, NEW a
    PROVE  Counterparty(Swapped(observed, i), a) = Counterparty(observed, a)
<1> DEFINE other == Swapped(observed, i)
           f == Peers(observed, a) g == Peers(other, a)
           edges(s, n) == {e \in s[n].edges : e.address = a}
<1>1. Len(observed) \in Nat /\ i \in 1 .. Len(observed) /\ i + 1 \in 1 .. Len(observed)
      /\ i - 1 \in 0 .. Len(observed) /\ DOMAIN observed = 1 .. Len(observed)
  OBVIOUS
<1>2. other \in Seq(Normalized) /\ Len(other) = Len(observed)
  <2>1. other \in [1 .. Len(observed) -> Normalized]
    BY <1>1 DEF Swapped
  <2> QED BY <1>1, <2>1
<1>3. /\ other[i] = observed[i + 1] /\ other[i + 1] = observed[i]
      /\ \A n \in 1 .. Len(observed) : n # i /\ n # i + 1 => other[n] = observed[n]
  BY <1>1 DEF Swapped
<1> HIDE DEF other
<1>4. ASSUME NEW n \in 1 .. Len(observed)
      PROVE  \A e \in edges(observed, n) : EdgeOk(e)
  <2>1. PICK w \in Wires : Acceptable(w) /\ observed[n] = NormalizeTransaction(w)
    <3>1. observed[n] \in Normalized
      BY <1>1
    <3> QED BY <3>1 DEF Normalized
  <2>2. observed[n].edges = Edges(w)
    BY <2>1, ObservedChange
  <2> QED BY <2>1, <2>2, EdgesOk
<1> HIDE DEF edges, f, g
<1>5. f[0] = NoPeer /\ \A n \in 1 .. Len(observed) : f[n] = Seen(f[n - 1], edges(observed, n))
  <2>1. /\ Peers(observed, a)[0] = NoPeer
        /\ \A n \in 1 .. Len(observed) :
             Peers(observed, a)[n] = Seen(Peers(observed, a)[n - 1], {e \in observed[n].edges : e.address = a})
    BY PeersDefined
  <2> QED BY <2>1, Zenon DEF f, edges
<1>6. g[0] = NoPeer /\ \A n \in 1 .. Len(observed) : g[n] = Seen(g[n - 1], edges(other, n))
  <2>1. /\ Peers(other, a)[0] = NoPeer
        /\ \A n \in 1 .. Len(other) :
             Peers(other, a)[n] = Seen(Peers(other, a)[n - 1], {e \in other[n].edges : e.address = a})
    BY <1>2, PeersDefined
  <2> QED BY <1>2, <2>1, Zenon DEF g, edges
<1>7. \A n \in 0 .. Len(observed) : PeerOk(f[n])
  <2> DEFINE Sound == {n \in 0 .. Len(observed) : PeerOk(f[n])}
  <2>1. 0 \in Sound
    BY <1>1, <1>5 DEF PeerOk, EdgeOk, NoPeer
  <2>2. ASSUME NEW n \in 1 .. Len(observed), n - 1 \in Sound PROVE n \in Sound
    <3>1. PeerOk(f[n - 1]) /\ f[n] = Seen(f[n - 1], edges(observed, n))
      BY <1>5, <2>2
    <3>2. CASE edges(observed, n) = {}
      BY <3>1, <3>2 DEF Seen
    <3>3. CASE edges(observed, n) # {}
      <4>1. PICK e \in edges(observed, n) : f[n] = WithEdge(f[n - 1], e)
        BY <3>1, <3>3 DEF Seen
      <4> QED BY <1>4, <3>1, <4>1, EdgesAdd
    <3> QED BY <1>1, <3>2, <3>3
  <2>3. \A n \in 1 .. Len(observed) : n - 1 \in Sound => n \in Sound
    BY <2>2
  <2> HIDE DEF Sound
  <2>4. 0 .. Len(observed) \subseteq Sound
    BY <1>1, <2>1, <2>3, CountingUp
  <2> QED BY <2>4 DEF Sound
<1> DEFINE Alike == {n \in 0 .. Len(observed) : IF n = i THEN g[i - 1] = f[i - 1] ELSE g[n] = f[n]}
<1>8. 0 \in Alike
  BY <1>1, <1>5, <1>6
<1>9. ASSUME NEW n \in 1 .. Len(observed), n - 1 \in Alike PROVE n \in Alike
  <2>1. n \in 0 .. Len(observed)
    BY <1>1
  <2>2. CASE n = i
    BY <1>1, <1>9, <2>1, <2>2
  <2>3. CASE n = i + 1
    <3>1. n - 1 = i
      BY <1>1, <2>3
    <3>2. g[i - 1] = f[i - 1]
      BY <1>9, <3>1
    <3>3. edges(other, i) = edges(observed, n) /\ edges(other, n) = edges(observed, i)
      BY <1>3, <2>3 DEF edges
    <3>4. /\ f[n] = Seen(f[i], edges(observed, n)) /\ f[i] = Seen(f[i - 1], edges(observed, i))
          /\ g[n] = Seen(g[i], edges(other, n)) /\ g[i] = Seen(g[i - 1], edges(other, i))
      BY <1>1, <1>5, <1>6, <3>1
    <3>5. PeerOk(f[i - 1]) /\ (\A e \in edges(observed, i) : EdgeOk(e)) /\ (\A e \in edges(observed, n) : EdgeOk(e))
      BY <1>1, <1>4, <1>7
    <3>6. Seen(Seen(f[i - 1], edges(observed, i)), edges(observed, n))
            = Seen(Seen(f[i - 1], edges(observed, n)), edges(observed, i))
      BY <3>5, SeenCommutes
    <3>7. g[n] = f[n]
      BY <3>2, <3>3, <3>4, <3>6
    <3> QED BY <2>1, <2>3, <3>7, <1>1
  <2>4. CASE n # i /\ n # i + 1
    <3>1. n - 1 # i
      BY <1>1, <2>4
    <3>2. g[n - 1] = f[n - 1]
      BY <1>9, <3>1
    <3>3. edges(other, n) = edges(observed, n)
      BY <1>3, <2>4 DEF edges
    <3> QED BY <1>5, <1>6, <2>1, <2>4, <3>2, <3>3
  <2> QED BY <2>2, <2>3, <2>4
<1>10. Len(observed) \in Alike /\ Len(observed) # i
  <2>1. \A n \in 1 .. Len(observed) : n - 1 \in Alike => n \in Alike
    BY <1>9
  <2> HIDE DEF Alike
  <2>2. 0 .. Len(observed) \subseteq Alike
    BY <1>1, <1>8, <2>1, CountingUp
  <2>3. PICK n : n = Len(observed)
    OBVIOUS
  <2>4. n \in Nat /\ i \in 1 .. n - 1
    BY <1>1, <2>3
  <2>5. n \in 0 .. n /\ n # i
    BY <2>4
  <2> QED BY <2>2, <2>3, <2>5
<1>11. g[Len(observed)] = f[Len(observed)]
  BY <1>10
<1> QED BY <1>2, <1>11 DEF Counterparty, f, g, other

\* The record of a counterparty does not depend on which of two transactions comes first.
LEMMA OrderIndifferent ==
    ASSUME NEW n \in Normalized, NEW m \in Normalized, NEW a
    PROVE  Counterparty(<<n, m, n>>, a) = Counterparty(<<m, n, n>>, a)
<1> DEFINE observed == <<n, m, n>>
<1>1. observed \in Seq(Normalized) /\ Len(observed) = 3 /\ 1 \in 1 .. Len(observed) - 1
  OBVIOUS
<1>2. Swapped(observed, 1) = <<m, n, n>>
  BY DEF Swapped
<1> HIDE DEF observed
<1>3. Counterparty(Swapped(observed, 1), a) = Counterparty(observed, a)
  BY <1>1, ProjectionOrderless
<1> QED BY <1>2, <1>3 DEF observed

\* Whatever the provider answers with, the evidence is sound: the values of an observed
\* transaction are conserved, both parsers agree on it, and the counterparties' records do
\* not depend on the order of the transactions.
THEOREM EvidenceIsSound == EvidenceSpec => []EvidenceSound
<1>1. \A w \in Wires : Agreeing(w)
  BY ParsersAgree
<1>2. ASSUME NEW w \in Wires, NormalizeTransaction(w) # Rejected
      PROVE  /\ Conserved(w, NormalizeTransaction(w))
             /\ \A m \in Observations : \A e \in NormalizeTransaction(w).edges :
                   Counterparty(<<NormalizeTransaction(w), m, NormalizeTransaction(w)>>, e.address)
                     = Counterparty(<<m, NormalizeTransaction(w), NormalizeTransaction(w)>>, e.address)
  <2>1. Acceptable(w)
    BY <1>2 DEF NormalizeTransaction
  <2>2. ASSUME NEW m \in Observations, NEW a
        PROVE  Counterparty(<<NormalizeTransaction(w), m, NormalizeTransaction(w)>>, a)
                 = Counterparty(<<m, NormalizeTransaction(w), NormalizeTransaction(w)>>, a)
    <3>1. PICK v \in Wires : Acceptable(v) /\ m = NormalizeTransaction(v)
      BY DEF Observations
    <3>2. m \in Normalized /\ NormalizeTransaction(w) \in Normalized
      BY <2>1, <3>1 DEF Normalized
    <3> QED BY <3>2, OrderIndifferent
  <2> QED BY <2>1, <2>2, ValuesConserved
<1>3. wire \in Wires => EvidenceSound
  BY <1>1, <1>2, Zenon DEF EvidenceSound
<1>4. EvidenceInit => wire \in Wires
  BY DEF EvidenceInit
<1>5. wire \in Wires /\ [EvidenceNext]_wire => (wire \in Wires)'
  BY DEF EvidenceNext
<1> QED BY <1>3, <1>4, <1>5, PTL DEF EvidenceSpec

=============================================================================
