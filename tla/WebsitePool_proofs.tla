-------------------------- MODULE WebsitePool_proofs --------------------------
(* Theorems about the website source's pool, for any number of sites and     *)
(* workers.                                                                   *)
EXTENDS WebsitePool, TLAPS

-----------------------------------------------------------------------------
(* The parts of the inductive invariant *)

\* A site is in one place: not yet submitted, with one worker, with the caller, or
\* accepted.
OnePlace ==
    /\ \A v, w \in Workers : job[v] = job[w] /\ job[v] # NoSite => v = w
    /\ \A w \in Workers : job[w] # NoSite =>
          job[w] < offered /\ job[w] # result /\ emitted[job[w]] = 0
    /\ result # NoSite => result < offered /\ emitted[result] = 0
    /\ \A i \in Sites : i >= offered => emitted[i] = 0
    /\ submitter = "send" => offered \in Sites

\* Before the context is done or the consumer panics, no submitted site is lost, and
\* the submitter and the workers leave only when they are through.
NothingLost ==
    ~Done /\ verdict # "panic" =>
        /\ \A i \in Sites : i < offered =>
              (\E w \in Workers : job[w] = i) \/ result = i \/ emitted[i] = 1
        /\ submitter = "closed" => offered = NSites + 1
        /\ \A w \in Workers : worker[w] = "gone" => submitter = "closed"

\* Where the caller is, and what it knows there.
CallerInv ==
    /\ verdict = "error" => cancelled
    /\ verdict = "panic" => caller \in {"unwind", "drain", "returned"}
    /\ verdict # "nil" => caller # "emit"
    /\ caller \in {"drain", "returned"} => cancelled
    /\ caller \in {"range", "emit", "await"} => outcome = "running"
    /\ closed => \A w \in Workers : worker[w] = "gone"
    /\ caller = "await" => closed

PoolInv == TypeOK /\ OnePlace /\ NothingLost /\ CallerInv /\ NilMeansEverySite

-----------------------------------------------------------------------------
\* The invariant holds in the initial states.
LEMMA InitialPool == ASSUME Init PROVE PoolInv
<1> USE PoolAssumption DEF Init, PoolInv
<1>1. emitted \in [Sites -> 0 .. 1]
  OBVIOUS
<1>2. offered \in 1 .. NSites + 1
  OBVIOUS
<1>3. TypeOK
  <2>1. \A w \in Workers : job[w] = NoSite /\ worker[w] = "idle"
    OBVIOUS
  <2>2. \A w \in Workers : (job[w] # NoSite) = (worker[w] \in {"busy", "send"})
    BY <2>1
  <2>3. (result # NoSite) = (caller = "emit")
    OBVIOUS
  <2>4. QED
    BY <1>1, <1>2, <2>2, <2>3 DEF TypeOK
<1>4. OnePlace /\ NothingLost /\ CallerInv /\ NilMeansEverySite
  BY DEF OnePlace, NothingLost, CallerInv, NilMeansEverySite, Sites, Done
<1>5. QED
  BY <1>3, <1>4

\* The submitter offers the next site.
LEMMA OfferKeeps == ASSUME PoolInv, Offer PROVE PoolInv'
<1> USE PoolAssumption DEF PoolInv, Offer, SubmitterStep, Sites, NoSite
<1>1. TypeOK'
  BY DEF TypeOK, OnePlace
<1>2. OnePlace'
  BY DEF OnePlace, TypeOK
<1>3. NothingLost'
  BY DEF NothingLost, OnePlace, CallerInv, TypeOK, Done
<1>4. CallerInv'
  BY DEF CallerInv, TypeOK
<1>5. NilMeansEverySite'
  BY DEF NilMeansEverySite, CallerInv, NothingLost, TypeOK, Done
<1>6. QED
  BY <1>1, <1>2, <1>3, <1>4, <1>5

\* The submitter is through, or gives up.
LEMMA EndSubmissionKeeps == ASSUME PoolInv, EndSubmission PROVE PoolInv'
<1> USE PoolAssumption DEF PoolInv, EndSubmission, SubmitterStep, Sites, NoSite
<1>1. TypeOK'
  BY DEF TypeOK, OnePlace
<1>2. OnePlace'
  BY DEF OnePlace, TypeOK
<1>3. NothingLost'
  BY DEF NothingLost, OnePlace, CallerInv, TypeOK, Done
<1>4. CallerInv'
  BY DEF CallerInv, TypeOK
<1>5. NilMeansEverySite'
  BY DEF NilMeansEverySite, CallerInv, NothingLost, TypeOK, Done
<1>6. QED
  BY <1>1, <1>2, <1>3, <1>4, <1>5

\* A worker takes the offered job.
LEMMA TakeKeeps == ASSUME PoolInv, NEW w \in Workers, Take(w) PROVE PoolInv'
<1> USE PoolAssumption DEF PoolInv, Take, SubmitterStep, Sites, NoSite
<1>1. TypeOK'
  BY DEF TypeOK, OnePlace
<1>2. OnePlace'
  BY DEF OnePlace, TypeOK
<1>3. NothingLost'
  BY DEF NothingLost, OnePlace, CallerInv, TypeOK, Done
<1>4. CallerInv'
  BY DEF CallerInv, TypeOK
<1>5. NilMeansEverySite'
  BY DEF NilMeansEverySite, CallerInv, NothingLost, TypeOK, Done
<1>6. QED
  BY <1>1, <1>2, <1>3, <1>4, <1>5

\* A worker has its result.
LEMMA ProcessKeeps == ASSUME PoolInv, NEW w \in Workers, Process(w) PROVE PoolInv'
<1> USE PoolAssumption DEF PoolInv, Process, Sites, NoSite
<1>1. TypeOK'
  BY DEF TypeOK, OnePlace
<1>2. OnePlace'
  BY DEF OnePlace, TypeOK
<1>3. NothingLost'
  BY DEF NothingLost, OnePlace, CallerInv, TypeOK, Done
<1>4. CallerInv'
  BY DEF CallerInv, TypeOK
<1>5. NilMeansEverySite'
  BY DEF NilMeansEverySite, CallerInv, NothingLost, TypeOK, Done
<1>6. QED
  BY <1>1, <1>2, <1>3, <1>4, <1>5

\* A worker leaves.
LEMMA QuitKeeps == ASSUME PoolInv, NEW w \in Workers, Quit(w) PROVE PoolInv'
<1> USE PoolAssumption DEF PoolInv, Quit, Sites, NoSite
<1>1. TypeOK'
  BY DEF TypeOK, OnePlace
<1>2. OnePlace'
  BY DEF OnePlace, TypeOK
<1>3. NothingLost'
  BY DEF NothingLost, OnePlace, CallerInv, TypeOK, Done
<1>4. CallerInv'
  BY DEF CallerInv, TypeOK
<1>5. NilMeansEverySite'
  BY DEF NilMeansEverySite, CallerInv, NothingLost, TypeOK, Done
<1>6. QED
  BY <1>1, <1>2, <1>3, <1>4, <1>5

\* The last worker is gone.
LEMMA CloseResultsKeeps == ASSUME PoolInv, CloseResults PROVE PoolInv'
<1> USE PoolAssumption DEF PoolInv, CloseResults, Sites, NoSite
<1>1. TypeOK'
  BY DEF TypeOK, OnePlace
<1>2. OnePlace'
  BY DEF OnePlace, TypeOK
<1>3. NothingLost'
  BY DEF NothingLost, OnePlace, CallerInv, TypeOK, Done
<1>4. CallerInv'
  BY DEF CallerInv, TypeOK
<1>5. NilMeansEverySite'
  BY DEF NilMeansEverySite, CallerInv, NothingLost, TypeOK, Done
<1>6. QED
  BY <1>1, <1>2, <1>3, <1>4, <1>5

\* The caller takes a result.
LEMMA ReceiveKeeps == ASSUME PoolInv, NEW w \in Workers, Receive(w) PROVE PoolInv'
<1> USE PoolAssumption DEF PoolInv, Receive, CallerStep, Sites, NoSite
<1>1. TypeOK'
  BY DEF TypeOK, OnePlace
<1>2. OnePlace'
  BY DEF OnePlace, TypeOK
<1>3. NothingLost'
  BY DEF NothingLost, OnePlace, CallerInv, TypeOK, Done
<1>4. CallerInv'
  BY DEF CallerInv, TypeOK
<1>5. NilMeansEverySite'
  BY DEF NilMeansEverySite, CallerInv, NothingLost, TypeOK, Done
<1>6. QED
  BY <1>1, <1>2, <1>3, <1>4, <1>5

\* The consumer's verdict.
LEMMA EmitKeeps == ASSUME PoolInv, NEW a \in {"nil", "error", "panic"}, Emit(a) PROVE PoolInv'
<1> USE PoolAssumption DEF PoolInv, Emit, CallerStep, Sites, NoSite
<1>1. TypeOK'
  BY DEF TypeOK, OnePlace
<1>2. OnePlace'
  BY DEF OnePlace, TypeOK
<1>3. NothingLost'
  <2>1. CASE a = "nil"
    <3>1. emitted' = [emitted EXCEPT ![result] = 1]
      <4>1. result # NoSite /\ emitted[result] = 0
        BY DEF OnePlace, TypeOK
      <4>2. emitted[result] + 1 = 1
        BY <4>1
      <4>3. emitted' = [emitted EXCEPT ![result] = emitted[result] + 1]
        BY <2>1
      <4>4. QED
        BY <4>2, <4>3, Zenon
    <3>2. QED
      BY <2>1, <3>1 DEF NothingLost, CallerInv, TypeOK, Done
  <2>2. CASE a # "nil"
    BY <2>2 DEF NothingLost, Done
  <2>3. QED
    BY <2>1, <2>2
<1>4. CallerInv'
  BY DEF CallerInv, TypeOK
<1>5. NilMeansEverySite'
  BY DEF NilMeansEverySite, CallerInv, NothingLost, TypeOK, Done
<1>6. QED
  BY <1>1, <1>2, <1>3, <1>4, <1>5

\* The results are drained.
LEMMA DrainedKeeps == ASSUME PoolInv, Drained PROVE PoolInv'
<1> USE PoolAssumption DEF PoolInv, Drained, CallerStep, Sites, NoSite
<1>1. TypeOK'
  BY DEF TypeOK, OnePlace
<1>2. OnePlace'
  BY DEF OnePlace, TypeOK
<1>3. NothingLost'
  BY DEF NothingLost, OnePlace, CallerInv, TypeOK, Done
<1>4. CallerInv'
  BY DEF CallerInv, TypeOK
<1>5. NilMeansEverySite'
  BY DEF NilMeansEverySite, CallerInv, NothingLost, TypeOK, Done
<1>6. QED
  BY <1>1, <1>2, <1>3, <1>4, <1>5

\* What the search returns.
LEMMA DecideKeeps == ASSUME PoolInv, Decide PROVE PoolInv'
<1> USE PoolAssumption DEF PoolInv, Decide, CallerStep, Sites, NoSite
<1>1. TypeOK'
  BY DEF TypeOK, OnePlace
<1>2. OnePlace'
  BY DEF OnePlace, TypeOK
<1>3. NothingLost'
  BY DEF NothingLost, OnePlace, CallerInv, TypeOK, Done
<1>4. CallerInv'
  BY DEF CallerInv, TypeOK
<1>5. NilMeansEverySite'
  BY DEF NilMeansEverySite, CallerInv, NothingLost, TypeOK, Done
<1>6. QED
  BY <1>1, <1>2, <1>3, <1>4, <1>5

\* The deferred cancellation.
LEMMA UnwindKeeps == ASSUME PoolInv, Unwind PROVE PoolInv'
<1> USE PoolAssumption DEF PoolInv, Unwind, CallerStep, Sites, NoSite
<1>1. TypeOK'
  BY DEF TypeOK, OnePlace
<1>2. OnePlace'
  BY DEF OnePlace, TypeOK
<1>3. NothingLost'
  BY DEF NothingLost, OnePlace, CallerInv, TypeOK, Done
<1>4. CallerInv'
  BY DEF CallerInv, TypeOK
<1>5. NilMeansEverySite'
  BY DEF NilMeansEverySite, CallerInv, NothingLost, TypeOK, Done
<1>6. QED
  BY <1>1, <1>2, <1>3, <1>4, <1>5

\* The deferred join.
LEMMA ReturnKeeps == ASSUME PoolInv, Return PROVE PoolInv'
<1> USE PoolAssumption DEF PoolInv, Return, CallerStep, Sites, NoSite
<1>1. TypeOK'
  BY DEF TypeOK, OnePlace
<1>2. OnePlace'
  BY DEF OnePlace, TypeOK
<1>3. NothingLost'
  BY DEF NothingLost, OnePlace, CallerInv, TypeOK, Done
<1>4. CallerInv'
  BY DEF CallerInv, TypeOK
<1>5. NilMeansEverySite'
  BY DEF NilMeansEverySite, CallerInv, NothingLost, TypeOK, Done
<1>6. QED
  BY <1>1, <1>2, <1>3, <1>4, <1>5

\* The caller's context ends.
LEMMA CancelParentKeeps == ASSUME PoolInv, CancelParent PROVE PoolInv'
<1> USE PoolAssumption DEF PoolInv, CancelParent, Sites, NoSite
<1>1. TypeOK'
  BY DEF TypeOK, OnePlace
<1>2. OnePlace'
  BY DEF OnePlace, TypeOK
<1>3. NothingLost'
  BY DEF NothingLost, OnePlace, CallerInv, TypeOK, Done
<1>4. CallerInv'
  BY DEF CallerInv, TypeOK
<1>5. NilMeansEverySite'
  BY DEF NilMeansEverySite, CallerInv, NothingLost, TypeOK, Done
<1>6. QED
  BY <1>1, <1>2, <1>3, <1>4, <1>5

-----------------------------------------------------------------------------
\* Every step keeps the invariant.
LEMMA PoolKeeps == ASSUME PoolInv, [Next]_vars PROVE PoolInv'
<1>1. CASE Offer \/ EndSubmission \/ CloseResults \/ CancelParent
  BY <1>1, OfferKeeps, EndSubmissionKeeps, CloseResultsKeeps, CancelParentKeeps
<1>2. ASSUME NEW w \in Workers, Take(w) \/ WorkerNext(w) \/ Receive(w)
      PROVE  PoolInv'
  BY <1>2, TakeKeeps, ProcessKeeps, QuitKeeps, ReceiveKeeps DEF WorkerNext
<1>3. CASE CallerNext
  BY <1>3, EmitKeeps, DrainedKeeps, DecideKeeps, UnwindKeeps, ReturnKeeps DEF CallerNext
<1>4. CASE UNCHANGED vars
  BY <1>4 DEF vars, PoolInv, TypeOK, OnePlace, NothingLost, CallerInv, NilMeansEverySite, Done
<1>5. QED
  BY <1>1, <1>2, <1>3, <1>4 DEF Next, Returned

\* The invariant holds throughout.
LEMMA PoolInvariance == Spec => []PoolInv
BY InitialPool, PoolKeeps, PTL DEF Spec

\* Every variable of the pool keeps its type; no site is accepted twice.
THEOREM PoolTypeCorrect == Spec => []TypeOK
BY PoolInvariance, PTL DEF PoolInv

\* A search that returns nil has shown its consumer every enabled site, once, whichever
\* worker was last and whenever the context was cancelled (search, worker.Pool).
THEOREM EverySiteOnce == Spec => []NilMeansEverySite
BY PoolInvariance, PTL DEF PoolInv

\* The consumer that refused a result, or panicked, is shown no other (search's consumerErr).
THEOREM NothingAfterRefusal == Spec => SilentAfterRefusal
<1>1. PoolInv /\ [Next]_vars
         => [verdict # "nil" => emitted' = emitted /\ verdict' = verdict]_vars
  <2>1. ASSUME PoolInv, Next, verdict # "nil"
        PROVE  emitted' = emitted /\ verdict' = verdict
    <3>1. caller # "emit"
      BY <2>1 DEF PoolInv, CallerInv
    <3>2. QED
      BY <2>1, <3>1 DEF Next, Offer, EndSubmission, SubmitterStep, CloseResults, Take,
         WorkerNext, Process, Quit, Receive, CallerStep, CallerNext, Emit, Drained, Decide,
         Unwind, Return, CancelParent, Returned, vars
  <2>2. QED
    BY <2>1
<1>2. QED
  BY <1>1, PoolInvariance, PTL DEF Spec, SilentAfterRefusal

=============================================================================
