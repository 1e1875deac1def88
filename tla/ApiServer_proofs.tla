--------------------------- MODULE ApiServer_proofs ---------------------------
(* Theorems about the HTTP API program, for any set of requests, any capacity *)
(* of the admission channel, any number of permits and any limit of rows.     *)
EXTENDS ApiServer, FiniteSetTheorems, TLAPS

AdmittedRequests == {r \in Requests : pc[r] \in Admitted}

-----------------------------------------------------------------------------
(* The parts of the inductive invariant *)

\* The buffer of a password is only held on the way to the source that consumes it.
SecretInv ==
    \A r \in Requests :
        secret[r] = "held" => pc[r] \in {"lock", "consume"} /\ target[r] = "password"

\* Rows come from sources only, and the handler keeps them until it has answered.
RowsInv ==
    \A r \in Requests : pc[r] \notin {"provider", "answer", "unwind"} => rows[r] = <<>>

\* A status goes out once, when the handler comes to its end.
AnswerInv ==
    \A r \in Requests :
        /\ pc[r] \notin {"unwind", "done"} => answers[r] = 0 /\ status[r] = 0
        /\ pc[r] = "unwind" => answers[r] = IF status[r] = 0 THEN 0 ELSE 1
        /\ pc[r] = "done" => answers[r] = 1

\* A search that returned nil ran its source to the end.
NilInv == \A r \in Requests : pc[r] = "answer" /\ err[r] = {} => ran[r]

\* Where the main goroutine is not serving or waiting, no handler runs, unless the
\* program has given up its applications.
MainInv ==
    /\ main \in {"starting", "listen"} => \A r \in Requests : ~Underway(r)
    /\ main = "forced" => ~safe

ApiInv ==
    /\ TypeOK /\ SlotsMatch /\ SecretInv /\ RowsInv /\ AnswerInv /\ NilInv
    /\ OkMeansComplete /\ MainInv /\ CloseAfterSearches

-----------------------------------------------------------------------------
(* Lemmas about the status and the admission channel *)

\* The status of an answer is one of those a handler writes, and 200 only for a live
\* context, no error and no error row.
LEMMA ClassifyShape ==
    ASSUME NEW c \in {"live", "deadline", "cancelled"}, NEW errors \in SUBSET Errors,
           NEW result \in Seq(Row), NEW local
    PROVE  /\ Classify(c, errors, result, local) \in Statuses \ {0}
           /\ Classify(c, errors, result, local) = 200 =>
                 errors = {} /\ \A i \in DOMAIN result : result[i] = "ok"
<1> DEFINE s == RowsStatus(result, local)
<1>1. s \in {200, 429, 504, 408, 503, 502}
  BY DEF RowsStatus
<1>2. s = 200 => \A i \in DOMAIN result : result[i] = "ok"
  BY DEF RowsStatus
<1>3. Classify(c, errors, result, local) \in {504, 408, 503, 502, s}
  BY DEF Classify
<1>4. Classify(c, errors, result, local) = 200 => s = 200 /\ errors = {}
  BY DEF Classify
<1>5. QED
  BY <1>1, <1>2, <1>3, <1>4 DEF Statuses

\* A handler that stays within, or outside of, the admitted ones keeps the balance.
LEMMA SameSlots ==
    ASSUME TypeOK, SlotsMatch, NEW r \in Requests, NEW p \in Pcs,
           To(r, p), slots' = slots, (p \in Admitted) <=> (pc[r] \in Admitted)
    PROVE  SlotsMatch'
<1>1. AdmittedRequests' = AdmittedRequests
  BY DEF AdmittedRequests, TypeOK, To
<1>2. QED
  BY <1>1 DEF SlotsMatch, AdmittedRequests

\* The admitted handlers are finitely many.
LEMMA FinitelyAdmitted == IsFiniteSet(AdmittedRequests)
BY FS_Subset, ApiAssumption DEF AdmittedRequests

\* One more token for one more admitted handler.
LEMMA SlotTaken ==
    ASSUME TypeOK, SlotsMatch, NEW r \in Requests, NEW p \in Admitted,
           To(r, p), slots' = slots + 1, pc[r] \notin Admitted
    PROVE  SlotsMatch'
<1>1. AdmittedRequests' = AdmittedRequests \cup {r}
  BY DEF AdmittedRequests, TypeOK, To
<1>2. r \notin AdmittedRequests
  BY DEF AdmittedRequests
<1>3. Cardinality(AdmittedRequests \cup {r}) = Cardinality(AdmittedRequests) + 1
  BY <1>2, FinitelyAdmitted, FS_AddElement
<1>4. QED
  BY <1>1, <1>3 DEF SlotsMatch, AdmittedRequests

\* One token back for an admitted handler that ends, and there is one.
LEMMA SlotGivenBack ==
    ASSUME TypeOK, SlotsMatch, NEW r \in Requests,
           To(r, "done"), slots' = slots - 1, pc[r] \in Admitted
    PROVE  SlotsMatch' /\ slots > 0
<1>1. AdmittedRequests' = AdmittedRequests \ {r}
  BY DEF AdmittedRequests, TypeOK, To, Admitted, Searching
<1>2. r \in AdmittedRequests
  BY DEF AdmittedRequests
<1>3. IsFiniteSet(AdmittedRequests \ {r})
      /\ Cardinality(AdmittedRequests \ {r}) = Cardinality(AdmittedRequests) - 1
  BY <1>2, FinitelyAdmitted, FS_RemoveElement
<1>4. Cardinality(AdmittedRequests \ {r}) \in Nat /\ Cardinality(AdmittedRequests) \in Nat
  BY <1>3, FinitelyAdmitted, FS_CardinalityType
<1>5. QED
  BY <1>1, <1>3, <1>4 DEF SlotsMatch, AdmittedRequests

-----------------------------------------------------------------------------
(* A handler's steps *)

\* What a handler's step leaves of the main goroutine's invariant: a handler runs
\* only where it may, and searches only an open application.
LEMMA MainKept ==
    ASSUME MainInv, CloseAfterSearches, TypeOK, NEW r \in Requests, NEW p \in Pcs,
           UNCHANGED mainVars, To(r, p),
           \A q \in Requests \ {r} : target'[q] = target[q],
           Underway(r) \/ main = "serving" \/ p = "done",
           p \in Searching => target'[r] \in apps
    PROVE  MainInv' /\ CloseAfterSearches'
<1>1. \A q \in Requests : pc'[q] = IF q = r THEN p ELSE pc[q]
  BY DEF To, TypeOK
<1>2. QED
  BY <1>1 DEF MainInv, CloseAfterSearches, mainVars, Underway

\* The first status of a handler goes out.
LEMMA WriteOnce ==
    ASSUME ApiInv, NEW r \in Requests, NEW s, Write(r, s),
           pc[r] \notin {"unwind", "done"}
    PROVE  /\ status' = [status EXCEPT ![r] = s]
           /\ answers' = [answers EXCEPT ![r] = 1]
<1>1. status[r] = 0 /\ answers[r] = 0
  BY DEF ApiInv, AnswerInv
<1>2. answers[r] + 1 = 1
  BY <1>1
<1>3. QED
  BY <1>1, <1>2, Zenon DEF Write

\* A connection's handler starts.
LEMMA ArriveStep ==
    ASSUME ApiInv, NEW r \in Requests, Arrive(r)
    PROVE  ApiInv'
<1> USE DEF ApiInv, Arrive, To, Silent
<1>1. TypeOK'
  BY ApiAssumption DEF TypeOK, mainVars, admission, search, Pcs, Admitted, Searching,
     HandlerOnly, Statuses
<1>2. SlotsMatch'
  BY SameSlots DEF Admitted, Searching, admission, Pcs, HandlerOnly, mainVars
<1>3. SecretInv' /\ RowsInv' /\ AnswerInv' /\ NilInv' /\ OkMeansComplete'
  BY ApiAssumption DEF SecretInv, RowsInv, AnswerInv, NilInv, OkMeansComplete, search,
     TypeOK, Admitted, Searching, HandlerOnly
<1>4. MainInv' /\ CloseAfterSearches'
  BY MainKept DEF search, Searching, Admitted, Pcs, Underway, HandlerOnly, mainVars, TypeOK
<1>5. QED
  BY <1>1, <1>2, <1>3, <1>4

\* An answer without a search, or the search handler.
LEMMA RouteStep ==
    ASSUME ApiInv, NEW r \in Requests, Route(r)
    PROVE  ApiInv'
<1> USE DEF ApiInv, Route, To, Silent, EndAtOnce
<1>1. answers[r] + 1 \in 0 .. 1
  BY DEF AnswerInv
<1>2. TypeOK'
  <2>1. pc' \in [Requests -> Pcs]
    <3>1. {"admit", "body", "done"} \subseteq Pcs
      BY DEF Pcs, Admitted
    <3>2. \E p \in {"admit", "body", "done"} : To(r, p)
      OBVIOUS
    <3>3. QED
      BY <3>1, <3>2 DEF TypeOK
  <2>2. answers' \in [Requests -> 0 .. 1]
    BY <1>1 DEF TypeOK
  <2>3. ctx' \in [Requests -> {"live", "deadline", "cancelled"}]
    BY DEF TypeOK
  <2>4. slots' \in 0 .. capacity'
    BY DEF TypeOK, admission
  <2>5. QED
    BY <2>1, <2>2, <2>3, <2>4 DEF TypeOK, mainVars, admission, search
<1>3. SlotsMatch'
  BY SameSlots DEF Admitted, Searching, admission, Pcs, HandlerOnly, mainVars
<1>4. SecretInv' /\ RowsInv' /\ AnswerInv' /\ NilInv' /\ OkMeansComplete'
  <2>1. SecretInv'
    BY DEF SecretInv, search, TypeOK, Admitted, Searching, HandlerOnly
  <2>2. RowsInv'
    BY DEF RowsInv, search, TypeOK, Admitted, Searching, HandlerOnly
  <2>3. AnswerInv'
    BY DEF AnswerInv, search, TypeOK, Admitted, Searching, HandlerOnly
  <2>4. NilInv'
    BY DEF NilInv, search, TypeOK, Admitted, Searching, HandlerOnly
  <2>5. OkMeansComplete'
    BY DEF OkMeansComplete, search, TypeOK, Admitted, Searching, HandlerOnly, AnswerInv,
       RowsInv
  <2>6. QED
    BY <2>1, <2>2, <2>3, <2>4, <2>5
<1>5. MainInv' /\ CloseAfterSearches'
  BY MainKept DEF search, Searching, Admitted, Pcs, Underway, HandlerOnly, mainVars, TypeOK
<1>6. QED
  BY <1>2, <1>3, <1>4, <1>5

\* A slot, or a refusal.
LEMMA AdmitStep ==
    ASSUME ApiInv, NEW r \in Requests, Admit(r)
    PROVE  ApiInv'
<1> USE DEF ApiInv, Admit, To, Silent, EndAtOnce
<1>1. answers[r] + 1 \in 0 .. 1
  BY DEF AnswerInv
<1>2. TypeOK'
  <2>1. pc' \in [Requests -> Pcs]
    <3>1. {"admit", "body", "done"} \subseteq Pcs
      BY DEF Pcs, Admitted
    <3>2. \E p \in {"admit", "body", "done"} : To(r, p)
      OBVIOUS
    <3>3. QED
      BY <3>1, <3>2 DEF TypeOK
  <2>2. answers' \in [Requests -> 0 .. 1]
    BY <1>1 DEF TypeOK
  <2>3. ctx' \in [Requests -> {"live", "deadline", "cancelled"}]
    BY DEF TypeOK
  <2>4. slots' \in 0 .. capacity'
    BY DEF TypeOK, admission
  <2>5. QED
    BY <2>1, <2>2, <2>3, <2>4 DEF TypeOK, mainVars, admission, search
<1>3. SlotsMatch'
  BY SameSlots, SlotTaken DEF Admitted, Searching, admission, Pcs, HandlerOnly, mainVars
<1>4. SecretInv' /\ RowsInv' /\ AnswerInv' /\ NilInv' /\ OkMeansComplete'
  <2>1. SecretInv'
    BY DEF SecretInv, search, TypeOK, Admitted, Searching, HandlerOnly
  <2>2. RowsInv'
    BY DEF RowsInv, search, TypeOK, Admitted, Searching, HandlerOnly
  <2>3. AnswerInv'
    BY DEF AnswerInv, search, TypeOK, Admitted, Searching, HandlerOnly
  <2>4. NilInv'
    BY DEF NilInv, search, TypeOK, Admitted, Searching, HandlerOnly
  <2>5. OkMeansComplete'
    BY DEF OkMeansComplete, search, TypeOK, Admitted, Searching, HandlerOnly, AnswerInv,
       RowsInv
  <2>6. QED
    BY <2>1, <2>2, <2>3, <2>4, <2>5
<1>5. MainInv' /\ CloseAfterSearches'
  BY MainKept DEF search, Searching, Admitted, Pcs, Underway, HandlerOnly, mainVars, TypeOK
<1>6. QED
  BY <1>2, <1>3, <1>4, <1>5

\* A refused body.
LEMMA RefuseBodyStep ==
    ASSUME ApiInv, NEW r \in Requests, RefuseBody(r)
    PROVE  ApiInv'
<1> USE DEF ApiInv, RefuseBody, To, Silent
<1>1. \E s \in {400, 408} :
        status' = [status EXCEPT ![r] = s] /\ answers' = [answers EXCEPT ![r] = 1]
  BY WriteOnce
<1>2. TypeOK'
  BY <1>1, ApiAssumption DEF TypeOK, mainVars, admission, search, Pcs, Admitted, Searching,
     HandlerOnly, Statuses
<1>3. SlotsMatch'
  BY SameSlots DEF Admitted, Searching, admission, Pcs, HandlerOnly, mainVars
<1>4. SecretInv' /\ RowsInv' /\ AnswerInv' /\ NilInv' /\ OkMeansComplete'
  BY <1>1, ApiAssumption DEF SecretInv, RowsInv, AnswerInv, NilInv, OkMeansComplete, search,
     TypeOK, Admitted, Searching, HandlerOnly
<1>5. MainInv' /\ CloseAfterSearches'
  BY MainKept DEF search, Searching, Admitted, Pcs, Underway, HandlerOnly, mainVars, TypeOK
<1>6. QED
  BY <1>2, <1>3, <1>4, <1>5

\* A decoded request.
LEMMA AcceptBodyStep ==
    ASSUME ApiInv, NEW r \in Requests, NEW t \in Targets, AcceptBody(r, t)
    PROVE  ApiInv'
<1> USE DEF ApiInv, AcceptBody, To, Silent
<1>1. TypeOK'
  BY ApiAssumption DEF TypeOK, mainVars, admission, search, Pcs, Admitted, Searching,
     HandlerOnly, Statuses
<1>2. SlotsMatch'
  BY SameSlots DEF Admitted, Searching, admission, Pcs, HandlerOnly, mainVars
<1>3. SecretInv' /\ RowsInv' /\ AnswerInv' /\ NilInv' /\ OkMeansComplete'
  BY ApiAssumption DEF SecretInv, RowsInv, AnswerInv, NilInv, OkMeansComplete, search,
     TypeOK, Admitted, Searching, HandlerOnly
<1>4. MainInv' /\ CloseAfterSearches'
  BY MainKept DEF search, Searching, Admitted, Pcs, Underway, HandlerOnly, mainVars, TypeOK
<1>5. QED
  BY <1>1, <1>2, <1>3, <1>4

\* The read lock and the application, or a refusal.
LEMMA LockStep ==
    ASSUME ApiInv, NEW r \in Requests, Lock(r)
    PROVE  ApiInv'
<1> USE DEF ApiInv, To, Silent, Cleared, Ended, Live
<1>1. PICK refusal \in SUBSET Errors :
        IF refusal = {}
        THEN /\ To(r, IF target[r] = "password" THEN "consume" ELSE "provider")
             /\ target[r] \in apps /\ UNCHANGED <<secret, err>>
        ELSE To(r, "answer") /\ Cleared(r) /\ err' = [err EXCEPT ![r] = refusal]
  BY DEF Lock, TypeOK, Errors
<1>2. HandlerOnly /\ UNCHANGED <<admission, target, rows, ran>> /\ Silent /\ pc[r] = "lock"
  BY DEF Lock
<1>3. TypeOK'
  <2>1. pc' \in [Requests -> Pcs]
    <3>1. {"consume", "provider", "answer"} \subseteq Pcs
      BY DEF Pcs, Admitted, Searching
    <3>2. \E p \in {"consume", "provider", "answer"} : To(r, p)
      BY <1>1
    <3>3. QED
      BY <3>1, <3>2 DEF TypeOK
  <2>2. secret' \in [Requests -> {"none", "held", "cleared"}] /\ err' \in [Requests -> SUBSET Errors]
    BY <1>1, <1>2 DEF TypeOK
  <2>3. QED
    BY <1>2, <2>1, <2>2 DEF TypeOK, HandlerOnly, mainVars, admission
<1>4. SlotsMatch'
  BY <1>1, <1>2, SameSlots DEF Admitted, Searching, admission, Pcs, HandlerOnly, mainVars
<1>5. SecretInv' /\ RowsInv' /\ AnswerInv' /\ NilInv' /\ OkMeansComplete'
  <2>1. SecretInv'
    BY <1>1, <1>2 DEF SecretInv, search, TypeOK, Admitted, Searching, HandlerOnly
  <2>2. RowsInv'
    BY <1>1, <1>2 DEF RowsInv, search, TypeOK, Admitted, Searching, HandlerOnly
  <2>3. AnswerInv'
    BY <1>1, <1>2 DEF AnswerInv, search, TypeOK, Admitted, Searching, HandlerOnly
  <2>4. NilInv'
    BY <1>1, <1>2 DEF NilInv, search, TypeOK, Admitted, Searching, HandlerOnly
  <2>5. OkMeansComplete'
    BY <1>1, <1>2 DEF OkMeansComplete, search, TypeOK, Admitted, Searching, HandlerOnly,
       AnswerInv, RowsInv
  <2>6. QED
    BY <2>1, <2>2, <2>3, <2>4, <2>5
<1>6. MainInv' /\ CloseAfterSearches'
  BY <1>1, <1>2, MainKept DEF search, Searching, Admitted, Pcs, Underway, HandlerOnly,
     mainVars, TypeOK
<1>7. QED
  BY <1>3, <1>4, <1>5, <1>6

\* A provider's source returns.
LEMMA ReturnStep ==
    ASSUME ApiInv, NEW r \in Requests, NEW e \in {{}, {"failed"}, {"failed", "deadline"}}, Return(r, e)
    PROVE  ApiInv'
<1> USE DEF ApiInv, Return, To, Silent, Cleared, Ended, Live
<1>1. TypeOK'
  BY ApiAssumption DEF TypeOK, mainVars, admission, search, Pcs, Admitted, Searching,
     HandlerOnly, Statuses, Errors
<1>2. SlotsMatch'
  BY SameSlots DEF Admitted, Searching, admission, Pcs, HandlerOnly, mainVars
<1>3. SecretInv' /\ RowsInv' /\ AnswerInv' /\ NilInv' /\ OkMeansComplete'
  <2>1. SecretInv'
    BY DEF SecretInv, search, TypeOK, Admitted, Searching, HandlerOnly
  <2>2. RowsInv'
    BY DEF RowsInv, search, TypeOK, Admitted, Searching, HandlerOnly
  <2>3. AnswerInv'
    BY DEF AnswerInv, search, TypeOK, Admitted, Searching, HandlerOnly
  <2>4. NilInv'
    BY DEF NilInv, search, TypeOK, Admitted, Searching, HandlerOnly
  <2>5. OkMeansComplete'
    BY DEF OkMeansComplete, search, TypeOK, Admitted, Searching, HandlerOnly, AnswerInv,
       RowsInv
  <2>6. QED
    BY <2>1, <2>2, <2>3, <2>4, <2>5
<1>4. MainInv' /\ CloseAfterSearches'
  BY MainKept DEF search, Searching, Admitted, Pcs, Underway, HandlerOnly, mainVars, TypeOK
<1>5. QED
  BY <1>1, <1>2, <1>3, <1>4

\* A source panics.
LEMMA PanicStep ==
    ASSUME ApiInv, NEW r \in Requests, Panic(r)
    PROVE  ApiInv'
<1> USE DEF ApiInv, Panic, To, Silent, Cleared
<1>1. TypeOK'
  BY ApiAssumption DEF TypeOK, mainVars, admission, search, Pcs, Admitted, Searching,
     HandlerOnly, Statuses
<1>2. SlotsMatch'
  BY SameSlots DEF Admitted, Searching, admission, Pcs, HandlerOnly, mainVars
<1>3. SecretInv' /\ RowsInv' /\ AnswerInv' /\ NilInv' /\ OkMeansComplete'
  BY ApiAssumption DEF SecretInv, RowsInv, AnswerInv, NilInv, OkMeansComplete, search,
     TypeOK, Admitted, Searching, HandlerOnly
<1>4. MainInv' /\ CloseAfterSearches'
  BY MainKept DEF search, Searching, Admitted, Pcs, Underway, HandlerOnly, mainVars, TypeOK
<1>5. QED
  BY <1>1, <1>2, <1>3, <1>4

\* The answer to a search.
LEMMA AnswerStep ==
    ASSUME ApiInv, NEW r \in Requests, Answer(r)
    PROVE  ApiInv'
<1> USE DEF ApiInv, Answer, To, Silent
<1>1. PICK s \in Statuses \ {0} :
        /\ Write(r, s)
        /\ s = 200 => err[r] = {} /\ \A i \in DOMAIN rows[r] : rows[r][i] = "ok"
  <2>1. rows[r] \in Seq(Row) /\ ctx[r] \in {"live", "deadline", "cancelled"} /\ err[r] \in SUBSET Errors
    BY DEF RowsInv, TypeOK
  <2> DEFINE local == target[r] = "password"
  <2> DEFINE c == Classify(ctx[r], err[r], rows[r], local)
  <2> HIDE DEF local
  <2>2. /\ c \in Statuses \ {0}
        /\ c = 200 => err[r] = {} /\ \A i \in DOMAIN rows[r] : rows[r][i] = "ok"
    BY <2>1, ClassifyShape
  <2> HIDE DEF c
  <2>3. Write(r, IF "limit" \in err[r] THEN 503 ELSE c)
    BY DEF c, local
  <2>4. 503 \in Statuses \ {0}
    BY DEF Statuses
  <2>5. QED
    BY <2>2, <2>3, <2>4
<1>2. status' = [status EXCEPT ![r] = s] /\ answers' = [answers EXCEPT ![r] = 1]
  BY <1>1, WriteOnce
<1>3. TypeOK'
  BY <1>2, ApiAssumption DEF TypeOK, mainVars, admission, search, Pcs, Admitted, Searching,
     HandlerOnly, Statuses
<1>4. SlotsMatch'
  BY SameSlots DEF Admitted, Searching, admission, Pcs, HandlerOnly, mainVars
<1>5. SecretInv' /\ RowsInv' /\ AnswerInv' /\ NilInv' /\ OkMeansComplete'
  BY <1>1, <1>2, ApiAssumption DEF SecretInv, RowsInv, AnswerInv, NilInv, OkMeansComplete,
     search, TypeOK, Admitted, Searching, HandlerOnly
<1>6. MainInv' /\ CloseAfterSearches'
  BY MainKept DEF search, Searching, Admitted, Pcs, Underway, HandlerOnly, mainVars, TypeOK
<1>7. QED
  BY <1>3, <1>4, <1>5, <1>6

\* The deferred calls.
LEMMA UnwindStep ==
    ASSUME ApiInv, NEW r \in Requests, Unwind(r)
    PROVE  ApiInv'
<1> USE DEF ApiInv, Unwind, To, Silent, Cleared, AnswerPanic, Forget
<1>1. slots > 0 /\ <<>> \in Seq(Row)
  <2>1. slots > 0
    BY SlotGivenBack DEF Admitted
  <2>2. <<>> \in Seq(Row)
    OBVIOUS
  <2>3. QED
    BY <2>1, <2>2
<1>2. TypeOK'
  BY <1>1, ApiAssumption DEF TypeOK, mainVars, admission, search, Pcs, Admitted, Searching,
     HandlerOnly, Statuses, AnswerInv
<1>3. SlotsMatch'
  BY SlotGivenBack DEF Admitted, Searching, admission, Pcs, HandlerOnly, mainVars
<1>4. SecretInv' /\ RowsInv' /\ AnswerInv' /\ NilInv' /\ OkMeansComplete'
  <2>1. SecretInv'
    BY DEF SecretInv, search, TypeOK, Admitted, Searching, HandlerOnly
  <2>2. RowsInv'
    BY <1>1 DEF RowsInv, search, TypeOK, Admitted, Searching, HandlerOnly
  <2>3. AnswerInv'
    BY DEF AnswerInv, search, TypeOK, Admitted, Searching, HandlerOnly
  <2>4. NilInv'
    BY DEF NilInv, search, TypeOK, Admitted, Searching, HandlerOnly
  <2>5. OkMeansComplete'
    BY DEF OkMeansComplete, search, TypeOK, Admitted, Searching, HandlerOnly, AnswerInv,
       RowsInv
  <2>6. QED
    BY <2>1, <2>2, <2>3, <2>4, <2>5
<1>5. MainInv' /\ CloseAfterSearches'
  BY MainKept DEF search, Searching, Admitted, Pcs, Underway, HandlerOnly, mainVars, TypeOK
<1>6. QED
  BY <1>2, <1>3, <1>4, <1>5

\* A provider's row.
LEMMA DeliverStep ==
    ASSUME ApiInv, NEW r \in Requests, NEW row \in ProviderRows, Deliver(r, row)
    PROVE  ApiInv'
<1> USE DEF ApiInv, Silent
<1>1. /\ pc[r] = "provider" /\ UNCHANGED <<mainVars, admission, pc, ctx, secret, target, ran, status, answers>>
      /\ Collected(r, row)
  BY DEF Deliver, HandlerOnly
<1>2. row \in Row
  BY ApiAssumption DEF Row, ErrorKinds
<1>3. /\ rows' \in [Requests -> Seq(Row)] /\ err' \in [Requests -> SUBSET Errors]
      /\ \A q \in Requests : Len(rows'[q]) <= MaxRows
      /\ \A q \in Requests \ {r} : rows'[q] = rows[q] /\ err'[q] = err[q]
  <2>1. CASE Len(rows[r]) >= MaxRows \/ "limit" \in err[r]
    <3>1. rows' = rows /\ err' = [err EXCEPT ![r] = {"limit"}]
      BY <1>1, <2>1 DEF Collected
    <3>2. {"limit"} \in SUBSET Errors
      BY DEF Errors
    <3>3. QED
      BY <3>1, <3>2 DEF TypeOK
  <2>2. CASE ~(Len(rows[r]) >= MaxRows \/ "limit" \in err[r])
    <3>1. rows' = [rows EXCEPT ![r] = Append(@, row)] /\ err' = err
      BY <1>1, <2>2 DEF Collected
    <3>2. /\ Append(rows[r], row) \in Seq(Row)
          /\ Len(Append(rows[r], row)) = Len(rows[r]) + 1
          /\ Len(rows[r]) \in Nat /\ Len(rows[r]) < MaxRows
      BY <1>2, <2>2, ApiAssumption DEF TypeOK
    <3>3. QED
      BY <3>1, <3>2, ApiAssumption DEF TypeOK
  <2>3. QED
    BY <2>1, <2>2
<1>4. TypeOK'
  BY <1>1, <1>3 DEF TypeOK, mainVars, admission
<1>5. SlotsMatch'
  BY <1>1 DEF SlotsMatch, admission
<1>6. SecretInv' /\ RowsInv' /\ AnswerInv' /\ NilInv' /\ OkMeansComplete'
  BY <1>1, <1>3 DEF SecretInv, RowsInv, AnswerInv, NilInv, OkMeansComplete
<1>7. MainInv' /\ CloseAfterSearches'
  BY <1>1 DEF MainInv, CloseAfterSearches, mainVars, Underway
<1>8. QED
  BY <1>4, <1>5, <1>6, <1>7

\* Where the local source's row ends the search: the first row is the only one.
LEMMA LocalReturnStep ==
    ASSUME ApiInv, NEW r \in Requests, pc[r] \in {"consume", "permit", "reading"},
           NEW row \in Row, NEW e \in SUBSET Errors, LocalReturn(r, row, e),
           secret' \in [Requests -> {"none", "held", "cleared"}],
           secret'[r] # "held", \A q \in Requests \ {r} : secret'[q] = secret[q],
           UNCHANGED <<mainVars, admission, ctx, target, status, answers>>
    PROVE  ApiInv'
<1> USE DEF ApiInv
<1>1. rows[r] = <<>> /\ rows' = [rows EXCEPT ![r] = Append(@, row)]
  BY DEF RowsInv, LocalReturn
<1>2. Append(<<>>, row) \in Seq(Row) /\ Len(Append(<<>>, row)) = 1
  OBVIOUS
<1>3. rows' \in [Requests -> Seq(Row)] /\ \A q \in Requests : Len(rows'[q]) <= MaxRows
  BY <1>1, <1>2, ApiAssumption DEF TypeOK
<1>4. To(r, "answer")
  BY DEF LocalReturn
<1>5. /\ err' \in [Requests -> SUBSET Errors]
      /\ err'[r] = {} => row = "ok"
      /\ \A q \in Requests \ {r} : err'[q] = err[q]
  <2> DEFINE x == e \cup (IF row = "ok" THEN {} ELSE {"failed"}) \cup Ended(r)
  <2>1. x \in SUBSET Errors
    BY DEF Ended, Live, TypeOK, Errors
  <2>2. x = {} => row = "ok"
    OBVIOUS
  <2>3. err' = [err EXCEPT ![r] = x]
    BY DEF LocalReturn
  <2> HIDE DEF x
  <2>4. QED
    BY <2>1, <2>2, <2>3 DEF TypeOK
<1>6. ran' = [ran EXCEPT ![r] = row = "ok"]
  BY DEF LocalReturn
<1>7. TypeOK'
  <2>1. ran' \in [Requests -> BOOLEAN]
    BY <1>6 DEF TypeOK
  <2>2. pc' \in [Requests -> Pcs]
    BY <1>4 DEF TypeOK, To, Pcs, Admitted
  <2>3. QED
    BY <1>3, <1>5, <2>1, <2>2 DEF TypeOK, mainVars, admission
<1>8. SlotsMatch'
  BY <1>4, SameSlots DEF Admitted, Searching, admission, Pcs
<1>9. SecretInv' /\ RowsInv' /\ AnswerInv' /\ NilInv' /\ OkMeansComplete'
  <2>1. SecretInv'
    BY <1>4 DEF SecretInv, To, TypeOK
  <2>2. RowsInv'
    BY <1>1, <1>4 DEF RowsInv, To, TypeOK
  <2>3. AnswerInv'
    BY <1>4 DEF AnswerInv, To, TypeOK
  <2>4. NilInv'
    BY <1>4, <1>5, <1>6 DEF NilInv, To, TypeOK
  <2>5. OkMeansComplete'
    BY <1>1, <1>4, <1>6 DEF OkMeansComplete, To, TypeOK
  <2>6. QED
    BY <2>1, <2>2, <2>3, <2>4, <2>5
<1>10. MainInv' /\ CloseAfterSearches'
  BY <1>4, MainKept DEF Searching, Admitted, Pcs, Underway
<1>11. QED
  BY <1>7, <1>8, <1>9, <1>10

\* The row and the error of a context that has ended.
LEMMA EndedShape ==
    ASSUME TypeOK, NEW r \in Requests
    PROVE  EndedRow(r) \in Row /\ Ended(r) \in SUBSET Errors
<1>1. ctx[r] \in {"live", "deadline", "cancelled"}
  BY DEF TypeOK
<1>2. QED
  BY <1>1 DEF EndedRow, Ended, Live, Row, ErrorKinds, Errors

\* A local search that goes on: nothing but its program counter, and the secret it
\* has consumed, changes.
LEMMA LocalStep ==
    ASSUME ApiInv, NEW r \in Requests, pc[r] \in {"consume", "permit"},
           NEW p \in {"permit", "reading"}, To(r, p),
           secret' \in [Requests -> {"none", "held", "cleared"}],
           secret'[r] # "held", \A q \in Requests \ {r} : secret'[q] = secret[q],
           UNCHANGED <<mainVars, admission, ctx, search, status, answers>>
    PROVE  ApiInv'
<1> USE DEF ApiInv, search
<1>1. TypeOK'
  BY DEF TypeOK, mainVars, admission, To, Pcs, Admitted, Searching
<1>2. SlotsMatch'
  BY SameSlots DEF Admitted, Searching, admission, Pcs
<1>3. SecretInv' /\ RowsInv' /\ AnswerInv' /\ NilInv' /\ OkMeansComplete'
  BY DEF SecretInv, RowsInv, AnswerInv, NilInv, OkMeansComplete, To, TypeOK
<1>4. MainInv' /\ CloseAfterSearches'
  <2>1. target[r] \in apps
    BY DEF CloseAfterSearches, Searching
  <2>2. QED
    BY <2>1, MainKept DEF Searching, Admitted, Pcs, Underway, mainVars
<1>5. QED
  BY <1>1, <1>2, <1>3, <1>4

\* The password is hashed and cleared.
LEMMA ConsumeStep ==
    ASSUME ApiInv, NEW r \in Requests, Consume(r)
    PROVE  ApiInv'
<1>1. /\ pc[r] = "consume" /\ secret' = [secret EXCEPT ![r] = "cleared"]
      /\ UNCHANGED <<mainVars, admission, ctx, target, status, answers>>
      /\ \/ To(r, "permit") /\ UNCHANGED <<rows, err, ran>>
         \/ LocalReturn(r, EndedRow(r), Ended(r))
  BY DEF Consume, HandlerOnly, Silent
<1>2. /\ secret' \in [Requests -> {"none", "held", "cleared"}] /\ secret'[r] # "held"
      /\ \A q \in Requests \ {r} : secret'[q] = secret[q]
  BY <1>1 DEF ApiInv, TypeOK
<1>3. QED
  BY <1>1, <1>2, LocalStep, LocalReturnStep, EndedShape DEF ApiInv, search

\* A permit, a closed snapshot, or the context's end.
LEMMA TakePermitStep ==
    ASSUME ApiInv, NEW r \in Requests, TakePermit(r)
    PROVE  ApiInv'
<1>1. /\ pc[r] = "permit" /\ UNCHANGED <<mainVars, admission, ctx, secret, target, status, answers>>
      /\ \/ LocalReturn(r, "other", {})
         \/ LocalReturn(r, EndedRow(r), Ended(r))
         \/ To(r, "reading") /\ UNCHANGED <<rows, err, ran>>
  BY DEF TakePermit, HandlerOnly, Silent
<1>2. secret' \in [Requests -> {"none", "held", "cleared"}] /\ secret'[r] # "held"
  BY <1>1 DEF ApiInv, TypeOK, SecretInv
<1>3. "other" \in Row /\ {} \in SUBSET Errors
  BY DEF Row, ErrorKinds
<1>4. QED
  BY <1>1, <1>2, <1>3, LocalStep, LocalReturnStep, EndedShape DEF ApiInv, search

\* The range has been read.
LEMMA ReadStep ==
    ASSUME ApiInv, NEW r \in Requests, Read(r)
    PROVE  ApiInv'
<1>1. /\ pc[r] = "reading" /\ UNCHANGED <<mainVars, admission, ctx, secret, target, status, answers>>
      /\ \/ LocalReturn(r, "ok", {})
         \/ LocalReturn(r, "other", {})
         \/ LocalReturn(r, EndedRow(r), Ended(r))
  BY DEF Read, HandlerOnly, Silent
<1>2. secret' \in [Requests -> {"none", "held", "cleared"}] /\ secret'[r] # "held"
  BY <1>1 DEF ApiInv, TypeOK, SecretInv
<1>3. {"ok", "other"} \subseteq Row /\ {} \in SUBSET Errors
  BY DEF Row, ErrorKinds
<1>4. QED
  BY <1>1, <1>2, <1>3, LocalReturnStep, EndedShape DEF ApiInv

-----------------------------------------------------------------------------
(* The ends of contexts, and the main goroutine *)

\* A context's end changes nothing else: a disconnect, a deadline, a forced stop.
LEMMA ContextStep ==
    ASSUME ApiInv, ctx' \in [Requests -> {"live", "deadline", "cancelled"}],
           UNCHANGED <<mainVars, admission, pc, secret, search, status, answers>>
    PROVE  ApiInv'
<1> USE DEF ApiInv, mainVars, admission, search
<1>1. TypeOK' /\ SlotsMatch' /\ SecretInv'
  BY DEF TypeOK, SlotsMatch, SecretInv
<1>2. RowsInv' /\ AnswerInv' /\ NilInv' /\ OkMeansComplete'
  BY DEF RowsInv, AnswerInv, NilInv, OkMeansComplete
<1>3. MainInv' /\ CloseAfterSearches'
  BY DEF MainInv, CloseAfterSearches, Underway
<1>4. QED
  BY <1>1, <1>2, <1>3

\* The requests are as they were, except for their contexts.
RequestsAsBefore ==
    /\ ctx' \in [Requests -> {"live", "deadline", "cancelled"}]
    /\ UNCHANGED <<admission, pc, secret, search, status, answers>>

\* A step of the main goroutine keeps what is said of the requests.
LEMMA RequestsKept ==
    ASSUME ApiInv, RequestsAsBefore,
           main' \in MainPcs, code' \in {0, 1}, stop' \in BOOLEAN,
           apps' \subseteq Targets, closed' \in BOOLEAN, safe' \in BOOLEAN
    PROVE  /\ TypeOK' /\ SlotsMatch' /\ SecretInv' /\ RowsInv' /\ AnswerInv' /\ NilInv'
           /\ OkMeansComplete'
<1> USE DEF ApiInv, RequestsAsBefore, admission, search
<1>1. TypeOK' /\ SlotsMatch' /\ SecretInv'
  BY DEF TypeOK, SlotsMatch, SecretInv
<1>2. RowsInv' /\ AnswerInv' /\ NilInv' /\ OkMeansComplete'
  BY DEF RowsInv, AnswerInv, NilInv, OkMeansComplete
<1>3. QED
  BY <1>1, <1>2

\* The next application has a place in AppOrder.
LEMMA NextApp ==
    ASSUME TypeOK, Cardinality(apps) < Len(AppOrder)
    PROVE  AppOrder[Cardinality(apps) + 1] \in Targets
<1>1. IsFiniteSet(Targets)
  <2>1. Targets = (({} \cup {"public"}) \cup {"password"}) \cup {"unconfigured"}
    BY DEF Targets
  <2>2. QED
    BY <2>1, FS_EmptySet, FS_AddElement
<1>2. IsFiniteSet(apps)
  BY <1>1, FS_Subset DEF TypeOK
<1>3. Cardinality(apps) \in Nat
  BY <1>2, FS_CardinalityType
<1>4. Cardinality(apps) \in {0, 1}
  BY <1>3 DEF AppOrder
<1>5. QED
  BY <1>4 DEF AppOrder, Targets

\* Every step of the main goroutine, a failing listener and the signal included.
LEMMA MainStepKeeps ==
    ASSUME ApiInv, MainStep \/ ServeFails \/ Stop
    PROVE  ApiInv'
<1> USE DEF ApiInv
<1>1. \A r \in Requests : pc[r] \in Searching => Underway(r)
  BY DEF Searching, Underway
<1>2. CASE OpenApp
  <2>1. RequestsAsBefore /\ stop' \in BOOLEAN /\ safe' \in BOOLEAN /\ closed' \in BOOLEAN
    BY <1>2 DEF OpenApp, RequestsIdle, Silent, RequestsAsBefore, TypeOK, Exit, CloseApps
  <2>2. main' \in MainPcs /\ code' \in {0, 1} /\ apps' \subseteq Targets
    BY <1>2, NextApp DEF OpenApp, TypeOK, MainPcs, Exit, CloseApps
  <2>3. MainInv' /\ CloseAfterSearches'
    BY <1>2, <1>1, <2>1 DEF OpenApp, MainInv, CloseAfterSearches, RequestsAsBefore, Exit,
       CloseApps, Underway, search
  <2>4. QED
    BY <2>1, <2>2, <2>3, RequestsKept
<1>3. CASE OpenFails
  <2>1. RequestsAsBefore /\ stop' \in BOOLEAN /\ safe' \in BOOLEAN /\ closed' \in BOOLEAN
    BY <1>3 DEF OpenFails, RequestsIdle, Silent, RequestsAsBefore, TypeOK, Exit, CloseApps
  <2>2. main' \in MainPcs /\ code' \in {0, 1} /\ apps' \subseteq Targets
    BY <1>3 DEF OpenFails, TypeOK, MainPcs, Exit, CloseApps
  <2>3. MainInv' /\ CloseAfterSearches'
    BY <1>3, <1>1, <2>1 DEF OpenFails, MainInv, CloseAfterSearches, RequestsAsBefore, Exit,
       CloseApps, Underway, search
  <2>4. QED
    BY <2>1, <2>2, <2>3, RequestsKept
<1>4. CASE Opened
  <2>1. RequestsAsBefore /\ stop' \in BOOLEAN /\ safe' \in BOOLEAN /\ closed' \in BOOLEAN
    BY <1>4 DEF Opened, RequestsIdle, Silent, RequestsAsBefore, TypeOK, Exit, CloseApps
  <2>2. main' \in MainPcs /\ code' \in {0, 1} /\ apps' \subseteq Targets
    BY <1>4 DEF Opened, TypeOK, MainPcs, Exit, CloseApps
  <2>3. MainInv' /\ CloseAfterSearches'
    BY <1>4, <1>1, <2>1 DEF Opened, MainInv, CloseAfterSearches, RequestsAsBefore, Exit,
       CloseApps, Underway, search
  <2>4. QED
    BY <2>1, <2>2, <2>3, RequestsKept
<1>5. CASE Listen
  <2>1. RequestsAsBefore /\ stop' \in BOOLEAN /\ safe' \in BOOLEAN /\ closed' \in BOOLEAN
    BY <1>5 DEF Listen, RequestsIdle, Silent, RequestsAsBefore, TypeOK, Exit, CloseApps
  <2>2. main' \in MainPcs /\ code' \in {0, 1} /\ apps' \subseteq Targets
    BY <1>5 DEF Listen, TypeOK, MainPcs, Exit, CloseApps
  <2>3. MainInv' /\ CloseAfterSearches'
    BY <1>5, <1>1, <2>1 DEF Listen, MainInv, CloseAfterSearches, RequestsAsBefore, Exit,
       CloseApps, Underway, search
  <2>4. QED
    BY <2>1, <2>2, <2>3, RequestsKept
<1>6. CASE BeginShutdown
  <2>1. RequestsAsBefore /\ stop' \in BOOLEAN /\ safe' \in BOOLEAN /\ closed' \in BOOLEAN
    BY <1>6 DEF BeginShutdown, RequestsIdle, Silent, RequestsAsBefore, TypeOK, Exit, CloseApps
  <2>2. main' \in MainPcs /\ code' \in {0, 1} /\ apps' \subseteq Targets
    BY <1>6 DEF BeginShutdown, TypeOK, MainPcs, Exit, CloseApps
  <2>3. MainInv' /\ CloseAfterSearches'
    BY <1>6, <1>1, <2>1 DEF BeginShutdown, MainInv, CloseAfterSearches, RequestsAsBefore,
       Exit, CloseApps, Underway, search
  <2>4. QED
    BY <2>1, <2>2, <2>3, RequestsKept
<1>7. CASE Drained
  <2>1. RequestsAsBefore /\ stop' \in BOOLEAN /\ safe' \in BOOLEAN /\ closed' \in BOOLEAN
    BY <1>7 DEF Drained, RequestsIdle, Silent, RequestsAsBefore, TypeOK, Exit, CloseApps
  <2>2. main' \in MainPcs /\ code' \in {0, 1} /\ apps' \subseteq Targets
    BY <1>7 DEF Drained, TypeOK, MainPcs, Exit, CloseApps
  <2>3. MainInv' /\ CloseAfterSearches'
    BY <1>7, <1>1, <2>1 DEF Drained, MainInv, CloseAfterSearches, RequestsAsBefore, Exit,
       CloseApps, Underway, search
  <2>4. QED
    BY <2>1, <2>2, <2>3, RequestsKept
<1>8. CASE GraceExpires
  <2>1. RequestsAsBefore /\ stop' \in BOOLEAN /\ safe' \in BOOLEAN /\ closed' \in BOOLEAN
    BY <1>8 DEF GraceExpires, RequestsIdle, Silent, RequestsAsBefore, TypeOK, Exit, CloseApps
  <2>2. main' \in MainPcs /\ code' \in {0, 1} /\ apps' \subseteq Targets
    BY <1>8 DEF GraceExpires, TypeOK, MainPcs, Exit, CloseApps
  <2>3. MainInv' /\ CloseAfterSearches'
    BY <1>8, <1>1, <2>1 DEF GraceExpires, MainInv, CloseAfterSearches, RequestsAsBefore,
       Exit, CloseApps, Underway, search
  <2>4. QED
    BY <2>1, <2>2, <2>3, RequestsKept
<1>9. CASE Abandon
  <2>1. RequestsAsBefore /\ stop' \in BOOLEAN /\ safe' \in BOOLEAN /\ closed' \in BOOLEAN
    BY <1>9 DEF Abandon, RequestsIdle, Silent, RequestsAsBefore, TypeOK, Exit, CloseApps
  <2>2. main' \in MainPcs /\ code' \in {0, 1} /\ apps' \subseteq Targets
    BY <1>9 DEF Abandon, TypeOK, MainPcs, Exit, CloseApps
  <2>3. MainInv' /\ CloseAfterSearches'
    BY <1>9, <1>1, <2>1 DEF Abandon, MainInv, CloseAfterSearches, RequestsAsBefore, Exit,
       CloseApps, Underway, search
  <2>4. QED
    BY <2>1, <2>2, <2>3, RequestsKept
<1>10. CASE CloseService
  <2>1. RequestsAsBefore /\ stop' \in BOOLEAN /\ safe' \in BOOLEAN /\ closed' \in BOOLEAN
    BY <1>10 DEF CloseService, RequestsIdle, Silent, RequestsAsBefore, TypeOK, Exit, CloseApps
  <2>2. main' \in MainPcs /\ code' \in {0, 1} /\ apps' \subseteq Targets
    BY <1>10 DEF CloseService, TypeOK, MainPcs, Exit, CloseApps
  <2>3. MainInv' /\ CloseAfterSearches'
    BY <1>10, <1>1, <2>1 DEF CloseService, MainInv, CloseAfterSearches, RequestsAsBefore,
       Exit, CloseApps, Underway, search
  <2>4. QED
    BY <2>1, <2>2, <2>3, RequestsKept
<1>11. CASE ServeFails
  <2>1. RequestsAsBefore /\ stop' \in BOOLEAN /\ safe' \in BOOLEAN /\ closed' \in BOOLEAN
    BY <1>11 DEF ServeFails, RequestsIdle, Silent, RequestsAsBefore, TypeOK, Exit, CloseApps
  <2>2. main' \in MainPcs /\ code' \in {0, 1} /\ apps' \subseteq Targets
    BY <1>11 DEF ServeFails, TypeOK, MainPcs, Exit, CloseApps
  <2>3. MainInv' /\ CloseAfterSearches'
    BY <1>11, <1>1, <2>1 DEF ServeFails, MainInv, CloseAfterSearches, RequestsAsBefore,
       Exit, CloseApps, Underway, search
  <2>4. QED
    BY <2>1, <2>2, <2>3, RequestsKept
<1>12. CASE Stop
  <2>1. RequestsAsBefore /\ stop' \in BOOLEAN /\ safe' \in BOOLEAN /\ closed' \in BOOLEAN
    BY <1>12 DEF Stop, RequestsIdle, Silent, RequestsAsBefore, TypeOK, Exit, CloseApps
  <2>2. main' \in MainPcs /\ code' \in {0, 1} /\ apps' \subseteq Targets
    BY <1>12 DEF Stop, TypeOK, MainPcs, Exit, CloseApps
  <2>3. MainInv' /\ CloseAfterSearches'
    BY <1>12, <1>1, <2>1 DEF Stop, MainInv, CloseAfterSearches, RequestsAsBefore, Exit,
       CloseApps, Underway, search
  <2>4. QED
    BY <2>1, <2>2, <2>3, RequestsKept
<1>13. QED
  BY <1>2, <1>3, <1>4, <1>5, <1>6, <1>7, <1>8, <1>9, <1>10, <1>11, <1>12 DEF MainStep

-----------------------------------------------------------------------------
(* Theorems *)

\* The invariant holds in the initial states.
LEMMA InitialInv == ASSUME Init PROVE ApiInv
<1> USE DEF Init, ApiInv
<1>1. TypeOK
  <2>1. rows \in [Requests -> Seq(Row)] /\ \A r \in Requests : Len(rows[r]) <= MaxRows
    BY ApiAssumption
  <2>2. slots \in 0 .. capacity /\ capacity \in 1 .. MaxConcurrent
    BY ApiAssumption
  <2>3. pc \in [Requests -> Pcs] /\ answers \in [Requests -> 0 .. 1]
    BY DEF Pcs
  <2>4. status \in [Requests -> Statuses] /\ err \in [Requests -> SUBSET Errors]
    BY DEF Statuses
  <2>5. main \in MainPcs /\ code \in {0, 1} /\ apps \subseteq Targets
    BY DEF MainPcs
  <2>6. QED
    BY <2>1, <2>2, <2>3, <2>4, <2>5 DEF TypeOK
<1>2. SlotsMatch
  <2>1. AdmittedRequests = {}
    BY DEF AdmittedRequests, Admitted, Searching
  <2>2. Cardinality(AdmittedRequests) = 0
    BY <2>1, FS_EmptySet
  <2>3. QED
    BY <2>2 DEF SlotsMatch, AdmittedRequests
<1>3. SecretInv /\ RowsInv /\ AnswerInv /\ NilInv /\ OkMeansComplete
  BY DEF SecretInv, RowsInv, AnswerInv, NilInv, OkMeansComplete
<1>4. MainInv /\ CloseAfterSearches
  BY DEF MainInv, CloseAfterSearches, Underway, Searching
<1>5. QED
  BY <1>1, <1>2, <1>3, <1>4

\* A handler's and a source's steps keep it.
LEMMA RequestStepKeeps ==
    ASSUME ApiInv, NEW r \in Requests, Arrive(r) \/ HandlerStep(r) \/ SourceStep(r)
    PROVE  ApiInv'
<1>1. CASE Arrive(r)
  BY <1>1, ArriveStep
<1>2. CASE HandlerStep(r)
  BY <1>2, RouteStep, AdmitStep, RefuseBodyStep, AcceptBodyStep, LockStep, ConsumeStep,
     TakePermitStep, ReadStep, AnswerStep, UnwindStep DEF HandlerStep
<1>3. CASE SourceStep(r)
  BY <1>3, DeliverStep, ReturnStep, PanicStep DEF SourceStep
<1>4. QED
  BY <1>1, <1>2, <1>3

\* Every step keeps it.
LEMMA NextKeeps == ASSUME ApiInv, [Next]_vars PROVE ApiInv'
<1>1. CASE MainStep \/ ServeFails \/ Stop
  BY <1>1, MainStepKeeps
<1>2. ASSUME NEW r \in Requests, Arrive(r) \/ HandlerStep(r) \/ SourceStep(r)
      PROVE  ApiInv'
  BY <1>2, RequestStepKeeps
<1>3. ASSUME NEW r \in Requests, ClientGone(r) \/ Deadline(r)
      PROVE  ApiInv'
  <2>1. ctx' \in [Requests -> {"live", "deadline", "cancelled"}]
    BY <1>3 DEF ClientGone, Deadline, ApiInv, TypeOK
  <2>2. UNCHANGED <<mainVars, admission, pc, secret, search, status, answers>>
    BY <1>3 DEF ClientGone, Deadline, Silent
  <2>3. QED
    BY <2>1, <2>2, ContextStep
<1>4. CASE UNCHANGED vars
  BY <1>4, ContextStep DEF vars, ApiInv, TypeOK
<1>5. QED
  BY <1>1, <1>2, <1>3, <1>4 DEF Next, Terminated

\* The invariant holds throughout.
LEMMA Invariance == Spec => []ApiInv
<1>1. Init => ApiInv
  BY InitialInv
<1>2. ApiInv /\ [Next]_vars => ApiInv'
  BY NextKeeps
<1>3. QED
  BY <1>1, <1>2, PTL DEF Spec

\* Every variable of the API program keeps its type; slots never exceed the capacity
\* of the admission channel and rows never their limit.
THEOREM ApiTypeCorrect == Spec => []TypeOK
BY Invariance, PTL DEF ApiInv

\* Admission slots and admitted handlers balance, whatever panics, times out, is
\* refused or disconnects (search's deferred release).
THEOREM SlotsBalance == Spec => []SlotsMatch
BY Invariance, PTL DEF ApiInv

\* A handler that has returned has answered once and left no password in its buffer.
THEOREM HandlersEndClean == Spec => []EndedClean
<1>1. ApiInv => EndedClean
  BY DEF ApiInv, AnswerInv, SecretInv, EndedClean
<1>2. QED
  BY <1>1, Invariance, PTL

\* An answer of 200 is a search that ran to its end without an error row (classify).
THEOREM OkIsComplete == Spec => []OkMeansComplete
BY Invariance, PTL DEF ApiInv

\* Applications outlive the searches on them; Close never waits, and what is closed is
\* closed by every exit that was not forced (SearchService.Close, run).
THEOREM ClosedAfterSearches == Spec => []CloseAfterSearches
BY Invariance, PTL DEF ApiInv

=============================================================================
