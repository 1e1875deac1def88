------------------------ MODULE WatchMonitor_proofs ------------------------
(***************************************************************************)
(* Proofs about the watch monitor: what the changes of one source say,     *)
(* that a change is logged at most once and before its baseline, that the  *)
(* log stays readable, and what a reader may derive from it.               *)
(***************************************************************************)
EXTENDS WatchMonitor, SequenceTheorems, FiniteSetTheorems, TLAPS

-----------------------------------------------------------------------------
(* The comparison of two answers *)

\* Each item that disappeared is the old item of a change, and only those are.
LEMMA OldItems ==
    ASSUME NEW old, NEW now, NoEvidence \notin old.ev, NoEvidence \notin now.ev
    PROVE  {c.old : c \in Diff(old, now)} \ {NoEvidence} = Removed(old, now)
<1>1. ASSUME NEW a \in Removed(old, now)
      PROVE  \E c \in Diff(old, now) : c.old = a
  <2>1. CASE Paired(old, now, a.kind)
    <3>1. PICK b \in Added(old, now) : b.kind = a.kind
      BY <2>1 DEF Paired, Single, OfKind
    <3>2. <<a, b>> \in {q \in Removed(old, now) \X Added(old, now) :
                          q[1].kind = q[2].kind /\ Paired(old, now, q[1].kind)}
      BY <2>1, <3>1
    <3>3. Reported(old, now, "MODIFIED", <<a, b>>[1], <<a, b>>[2]) \in Modifications(old, now)
      BY <3>2 DEF Modifications
    <3> QED BY <3>3 DEF Reported, Diff
  <2>2. CASE ~Paired(old, now, a.kind)
    <3>1. Reported(old, now, "REMOVED", a, NoEvidence) \in Removals(old, now)
      BY <2>2 DEF Removals
    <3> QED BY <3>1 DEF Reported, Diff
  <2> QED BY <2>1, <2>2
<1>2. ASSUME NEW c \in Diff(old, now)
      PROVE  c.old = NoEvidence \/ c.old \in Removed(old, now)
  BY DEF Diff, Modifications, Additions, Removals, Reported
<1>3. NoEvidence \notin Removed(old, now)
  BY DEF Removed
<1> QED BY <1>1, <1>2, <1>3

\* Each item that appeared is the new item of a change, and only those are.
LEMMA NewItems ==
    ASSUME NEW old, NEW now, NoEvidence \notin old.ev, NoEvidence \notin now.ev
    PROVE  {c.new : c \in Diff(old, now)} \ {NoEvidence} = Added(old, now)
<1>1. ASSUME NEW b \in Added(old, now)
      PROVE  \E c \in Diff(old, now) : c.new = b
  <2>1. CASE Paired(old, now, b.kind)
    <3>1. PICK a \in Removed(old, now) : a.kind = b.kind
      BY <2>1 DEF Paired, Single, OfKind
    <3>2. <<a, b>> \in {q \in Removed(old, now) \X Added(old, now) :
                          q[1].kind = q[2].kind /\ Paired(old, now, q[1].kind)}
      BY <2>1, <3>1
    <3>3. Reported(old, now, "MODIFIED", <<a, b>>[1], <<a, b>>[2]) \in Modifications(old, now)
      BY <3>2 DEF Modifications
    <3> QED BY <3>3 DEF Reported, Diff
  <2>2. CASE ~Paired(old, now, b.kind)
    <3>1. Reported(old, now, "ADDED", NoEvidence, b) \in Additions(old, now)
      BY <2>2 DEF Additions
    <3> QED BY <3>1 DEF Reported, Diff
  <2> QED BY <2>1, <2>2
<1>2. ASSUME NEW c \in Diff(old, now)
      PROVE  c.new = NoEvidence \/ c.new \in Added(old, now)
  BY DEF Diff, Modifications, Additions, Removals, Reported
<1>3. NoEvidence \notin Added(old, now)
  BY DEF Added
<1> QED BY <1>1, <1>2, <1>3

\* Replaying the changes diff reports turns the old evidence into the new: no
\* change is forgotten and none is invented.
THEOREM DiffIsExact ==
    ASSUME NEW old, NEW now, NoEvidence \notin old.ev, NoEvidence \notin now.ev
    PROVE  Replay(Diff(old, now), old.ev) = now.ev
<1>1. old.ev \ {c.old : c \in Diff(old, now)} = old.ev \ Removed(old, now)
  BY OldItems DEF Removed
<1>2. {c.new : c \in Diff(old, now)} \ {NoEvidence} = Added(old, now)
  BY NewItems
<1>3. (old.ev \ Removed(old, now)) \cup Added(old, now) = now.ev
  BY DEF Removed, Added
<1> QED BY <1>1, <1>2, <1>3 DEF Replay

-----------------------------------------------------------------------------
(* Sequences of records *)

\* Appending a record to a sequence adds just that record.
LEMMA RecordsAppend ==
    ASSUME NEW q, IsSequence(q), NEW e
    PROVE  /\ IsSequence(Append(q, e))
           /\ RecordsOf(Append(q, e)) = RecordsOf(q) \cup {e}
           /\ Distinct(q) /\ e \notin RecordsOf(q) => Distinct(Append(q, e))
<1>1. PICK S : q \in Seq(S)
  BY DEF IsSequence
<1>2. q \in Seq(S \cup {e}) /\ e \in S \cup {e}
  BY <1>1
<1>3. /\ Append(q, e) \in Seq(S \cup {e})
      /\ DOMAIN q = 1 .. Len(q) /\ Len(q) \in Nat
      /\ DOMAIN Append(q, e) = 1 .. (Len(q) + 1)
      /\ \A i \in 1 .. Len(q) : Append(q, e)[i] = q[i]
      /\ Append(q, e)[Len(q) + 1] = e
  BY <1>2
<1>4. RecordsOf(Append(q, e)) = RecordsOf(q) \cup {e}
  <2>1. ASSUME NEW i \in 1 .. (Len(q) + 1)
        PROVE  i \in 1 .. Len(q) \/ i = Len(q) + 1
    BY <1>3
  <2>2. 1 .. Len(q) \subseteq 1 .. (Len(q) + 1) /\ Len(q) + 1 \in 1 .. (Len(q) + 1)
    BY <1>3
  <2> QED BY <1>3, <2>1, <2>2 DEF RecordsOf
<1>5. Distinct(q) /\ e \notin RecordsOf(q) => Distinct(Append(q, e))
  BY <1>3 DEF Distinct, RecordsOf
<1> QED BY <1>3, <1>4, <1>5 DEF IsSequence

\* A prefix of a sequence of distinct records is one, and has no other records.
LEMMA RecordsPrefix ==
    ASSUME NEW q, IsSequence(q), NEW n \in 0 .. Len(q)
    PROVE  /\ IsSequence(SubSeq(q, 1, n))
           /\ RecordsOf(SubSeq(q, 1, n)) \subseteq RecordsOf(q)
           /\ Distinct(q) => Distinct(SubSeq(q, 1, n))
<1>1. PICK S : q \in Seq(S)
  BY DEF IsSequence
<1>2. /\ SubSeq(q, 1, n) \in Seq(S)
      /\ DOMAIN q = 1 .. Len(q) /\ Len(q) \in Nat
      /\ DOMAIN SubSeq(q, 1, n) = 1 .. n
      /\ \A i \in 1 .. n : SubSeq(q, 1, n)[i] = q[i]
  BY <1>1
<1>3. 1 .. n \subseteq 1 .. Len(q)
  BY <1>2
<1> QED BY <1>2, <1>3 DEF IsSequence, RecordsOf, Distinct

\* The empty file is a sequence without records.
LEMMA RecordsEmpty == IsSequence(<<>>) /\ RecordsOf(<<>>) = {} /\ Distinct(<<>>)
<1>1. <<>> \in Seq({})
  OBVIOUS
<1> QED BY <1>1 DEF IsSequence, RecordsOf, Distinct

-----------------------------------------------------------------------------
(* A change is retained once *)

\* Empty logs hold nothing twice.
LEMMA DistinctInit == Init => DistinctInv
  BY RecordsEmpty DEF Init, DistinctInv, LogsDistinct, MemoryMatchesLog, Generations

\* Start-up reads exactly what the files hold and repairs their tails.
LEMMA DistinctOpen == ASSUME DistinctInv, Open PROVE DistinctInv'
  BY DEF DistinctInv, LogsDistinct, MemoryMatchesLog, Open, Retained, Reread, Repaired,
     Generations

\* Rotation moves the current generation into the archive and forgets the
\* replaced one in the file and in memory alike.
LEMMA DistinctAppendBegin == ASSUME DistinctInv, AppendBegin PROVE DistinctInv'
<1>1. CASE UNCHANGED <<log, tail, synced, seen, size, dropped>>
  BY <1>1 DEF DistinctInv, LogsDistinct, MemoryMatchesLog, AppendBegin, Retained
<1>2. CASE /\ log' = [arch |-> log["cur"], cur |-> <<>>]
           /\ tail' = [arch |-> tail["cur"], cur |-> FALSE]
           /\ seen' = RecordsOf(log["cur"])
  <2>1. log'["arch"] = log["cur"] /\ log'["cur"] = <<>> /\ tail'["cur"] = FALSE
    BY <1>2
  <2>2. Retained' = RecordsOf(log["cur"])
    BY <2>1, RecordsEmpty DEF Retained
  <2>3. LogsDistinct'
    BY <2>1, RecordsEmpty DEF DistinctInv, LogsDistinct
  <2>4. DOMAIN log' = Generations /\ DOMAIN tail' = Generations
    BY <1>2 DEF Generations
  <2> QED BY <1>2, <2>1, <2>2, <2>3, <2>4 DEF DistinctInv, MemoryMatchesLog
<1> QED BY <1>1, <1>2 DEF AppendBegin

\* A record is appended only when neither generation holds it; no earlier write
\* of this process was cut short, so the record stays a line of its own.
LEMMA DistinctWriteChange == ASSUME DistinctInv, WriteChange PROVE DistinctInv'
<1> DEFINE e == CHOOSE c \in batch : TRUE
<1>1. CASE e \in seen
  BY <1>1 DEF DistinctInv, LogsDistinct, MemoryMatchesLog, WriteChange, Retained
<1>2. CASE e \notin seen
  <2>1. pc # "down" /\ pc' = pc
    BY DEF WriteChange
  <2>2. seen = Retained /\ tail["cur"] = FALSE
    BY <2>1 DEF DistinctInv, MemoryMatchesLog
  <2>3. /\ log' = [log EXCEPT !["cur"] = Append(log["cur"], e)]
        /\ tail' = [tail EXCEPT !["cur"] = FALSE]
        /\ seen' = seen \cup {e}
    BY <1>2, <2>2 DEF WriteChange
  <2>4. /\ DOMAIN log' = Generations /\ DOMAIN tail' = Generations
        /\ log'["arch"] = log["arch"] /\ log'["cur"] = Append(log["cur"], e)
        /\ ~tail'["cur"]
    BY <2>3 DEF DistinctInv, MemoryMatchesLog, Generations
  <2>5. e \notin RecordsOf(log["arch"]) /\ e \notin RecordsOf(log["cur"])
    BY <1>2, <2>2 DEF Retained
  <2>6. /\ IsSequence(log'["cur"]) /\ Distinct(log'["cur"])
        /\ RecordsOf(log'["cur"]) = RecordsOf(log["cur"]) \cup {e}
    <3>1. IsSequence(log["cur"]) /\ Distinct(log["cur"])
      BY DEF DistinctInv, LogsDistinct
    <3> HIDE DEF e
    <3>2. /\ IsSequence(Append(log["cur"], e)) /\ Distinct(Append(log["cur"], e))
          /\ RecordsOf(Append(log["cur"], e)) = RecordsOf(log["cur"]) \cup {e}
      BY <2>5, <3>1, RecordsAppend
    <3> QED BY <2>4, <3>2
  <2>7. LogsDistinct'
    BY <2>4, <2>5, <2>6 DEF DistinctInv, LogsDistinct
  <2>8. seen' = Retained'
    BY <2>2, <2>3, <2>4, <2>6 DEF Retained
  <2> QED BY <2>4, <2>7, <2>8 DEF DistinctInv, MemoryMatchesLog
<1> QED BY <1>1, <1>2

\* A power failure leaves prefixes, and no process.
LEMMA DistinctPowerLoss == ASSUME DistinctInv, PowerLoss PROVE DistinctInv'
<1>1. PICK n : /\ \A f \in Generations : n[f] \in synced[f] .. Len(log[f])
               /\ n \in [Generations -> 0 .. LogCap]
               /\ log' = [f \in Generations |-> SubSeq(log[f], 1, n[f])]
               /\ tail' \in [Generations -> BOOLEAN]
  BY DEF PowerLoss
<1>2. \A f \in Generations : IsSequence(log[f]) /\ Distinct(log[f])
  BY DEF DistinctInv, LogsDistinct, Generations
<1>3. ASSUME NEW f \in Generations
      PROVE  /\ IsSequence(log'[f]) /\ Distinct(log'[f])
             /\ RecordsOf(log'[f]) \subseteq RecordsOf(log[f])
  <2>1. Len(log[f]) \in Nat
    BY <1>2 DEF IsSequence
  <2>2. n[f] \in 0 .. Len(log[f])
    <3>1. n[f] \in 0 .. LogCap
      BY <1>1
    <3>2. n[f] \in Nat /\ n[f] <= Len(log[f])
      BY <1>1, <2>1, <3>1
    <3> QED BY <2>1, <3>2
  <2> QED BY <1>1, <1>2, <2>2, RecordsPrefix
<1>4. LogsDistinct'
  BY <1>3 DEF DistinctInv, LogsDistinct, Generations
<1>5. DOMAIN log' = Generations /\ DOMAIN tail' = Generations
  BY <1>1
<1> QED BY <1>4, <1>5 DEF DistinctInv, MemoryMatchesLog, PowerLoss, Down

\* A stop may cut a record short, and leaves no process.
LEMMA DistinctStop == ASSUME DistinctInv, Stop PROVE DistinctInv'
  BY DEF DistinctInv, LogsDistinct, MemoryMatchesLog, Stop, Down, Generations, Retained

\* Every step preserves the invariant; those not named touch neither the logs
\* nor the memory of them.
LEMMA DistinctStep == DistinctInv /\ [Next]_vars => DistinctInv'
<1> SUFFICES ASSUME DistinctInv, [Next]_vars PROVE DistinctInv'
  OBVIOUS
<1> USE DEF DistinctInv, LogsDistinct, MemoryMatchesLog, Retained
<1>1. ASSUME NEW t \in Targets, NEW s \in Sources, NEW good \in BOOLEAN, Inspect(t, s, good)
      PROVE  DistinctInv'
  BY <1>1 DEF Inspect, files
<1>2. CASE Gathered
  BY <1>2 DEF Gathered, files
<1>3. CASE Record
  BY <1>3 DEF Record, NextTarget, files
<1>4. CASE SyncLog
  BY <1>4 DEF SyncLog
<1>5. CASE SaveRename
  BY <1>5 DEF SaveRename
<1>6. CASE SaveSync
  BY <1>6 DEF SaveSync, NextTarget
<1>7. ASSUME NEW t \in Targets, NEW s \in Sources, NEW a \in Answers, Move(t, s, a)
      PROVE  DistinctInv'
  BY <1>7 DEF Move, files, memory
<1>8. ASSUME NEW t \in Targets, Clear(t) PROVE DistinctInv'
  BY <1>8 DEF Clear, memory
<1>9. CASE UNCHANGED vars
  BY <1>9 DEF vars, files, memory
<1> QED
  BY <1>1, <1>2, <1>3, <1>4, <1>5, <1>6, <1>7, <1>8, <1>9, DistinctOpen, DistinctAppendBegin,
     DistinctWriteChange, DistinctPowerLoss, DistinctStop DEF Next

\* Distinct records without a common one stay distinct when read in a row.
LEMMA DistinctRow == LogsDistinct => NoDuplicateChange
<1> SUFFICES ASSUME LogsDistinct PROVE NoDuplicateChange
  OBVIOUS
<1> DEFINE a == log["arch"]
           c == log["cur"]
<1>1. PICK S : a \in Seq(S)
  BY DEF LogsDistinct, IsSequence
<1>2. PICK T : c \in Seq(T)
  BY DEF LogsDistinct, IsSequence
<1>3. a \in Seq(S \cup T) /\ c \in Seq(S \cup T)
  BY <1>1, <1>2
<1> HIDE DEF a, c
<1>4. /\ Len(a) \in Nat /\ Len(c) \in Nat
      /\ DOMAIN a = 1 .. Len(a) /\ DOMAIN c = 1 .. Len(c)
      /\ DOMAIN (a \o c) = 1 .. (Len(a) + Len(c))
      /\ \A i \in 1 .. (Len(a) + Len(c)) :
            (a \o c)[i] = IF i <= Len(a) THEN a[i] ELSE c[i - Len(a)]
  <2>1. /\ a \o c \in Seq(S \cup T)
        /\ Len(a \o c) = Len(a) + Len(c)
        /\ \A i \in 1 .. (Len(a) + Len(c)) :
              (a \o c)[i] = IF i <= Len(a) THEN a[i] ELSE c[i - Len(a)]
    BY <1>3, ConcatProperties
  <2>2. /\ Len(a) \in Nat /\ DOMAIN a = 1 .. Len(a)
        /\ Len(c) \in Nat /\ DOMAIN c = 1 .. Len(c)
        /\ DOMAIN (a \o c) = 1 .. Len(a \o c)
    BY <1>3, <2>1
  <2> QED BY <2>1, <2>2
<1>5. /\ \A i, j \in DOMAIN a : i # j => a[i] # a[j]
      /\ \A i, j \in DOMAIN c : i # j => c[i] # c[j]
      /\ \A i \in DOMAIN a, j \in DOMAIN c : a[i] # c[j]
  BY DEF a, c, LogsDistinct, Distinct, RecordsOf
<1>6. ASSUME NEW i \in DOMAIN (a \o c), NEW j \in DOMAIN (a \o c), i # j
      PROVE  (a \o c)[i] # (a \o c)[j]
  <2>1. CASE i <= Len(a) /\ j <= Len(a)
    BY <1>4, <1>6, <1>5, <2>1
  <2>2. CASE i > Len(a) /\ j > Len(a)
    <3>1. i - Len(a) \in DOMAIN c /\ j - Len(a) \in DOMAIN c /\ i - Len(a) # j - Len(a)
      BY <1>4, <1>6, <1>5, <2>2
    <3> QED BY <1>4, <1>6, <1>5, <2>2, <3>1
  <2>3. CASE i <= Len(a) /\ j > Len(a)
    <3>1. i \in DOMAIN a /\ j - Len(a) \in DOMAIN c
      BY <1>4, <1>6, <1>5, <2>3
    <3>2. a[i] # c[j - Len(a)]
      BY <1>5, <3>1
    <3> QED BY <1>4, <1>6, <1>5, <2>3, <3>2
  <2>4. CASE i > Len(a) /\ j <= Len(a)
    <3>1. j \in DOMAIN a /\ i - Len(a) \in DOMAIN c
      BY <1>4, <1>6, <1>5, <2>4
    <3>2. a[j] # c[i - Len(a)]
      BY <1>5, <3>1
    <3> QED BY <1>4, <1>6, <1>5, <2>4, <3>2
  <2> QED BY <1>4, <2>1, <2>2, <2>3, <2>4
<1> QED BY <1>6 DEF NoDuplicateChange, a, c

\* A change ID is retained at most once, through stops, power failures, removed
\* baselines and rotations (appendLog and loadLog).
THEOREM ChangesLoggedOnce == Spec => []NoDuplicateChange
<1>1. DistinctInv => NoDuplicateChange
  BY DistinctRow DEF DistinctInv
<1> QED BY DistinctInit, DistinctStep, <1>1, PTL DEF Spec

-----------------------------------------------------------------------------
(* Log first, then baseline *)

FirstInv == DistinctInv /\ FirstLogged

\* No baseline, no change it could depend on.
LEMMA FirstInit == Init => FirstInv
<1> SUFFICES ASSUME Init PROVE FirstLogged
  BY DistinctInit DEF FirstInv
<1> QED BY DEF Init, FirstLogged, LogBeforeBaseline, PendingLogged, NewSnapshot

\* Rotation keeps the union of what is retained and what has left.
LEMMA FirstAppendBegin ==
    ASSUME FirstInv, AppendBegin PROVE FirstLogged'
<1>1. (Retained \cup dropped)' = Retained \cup dropped
  <2>1. CASE UNCHANGED <<log, dropped>>
    BY <2>1 DEF Retained
  <2>2. CASE /\ log' = [arch |-> log["cur"], cur |-> <<>>]
             /\ dropped' = dropped \cup RecordsOf(log["arch"])
    <3>1. log'["arch"] = log["cur"] /\ log'["cur"] = <<>>
      BY <2>2
    <3> QED BY <2>2, <3>1, RecordsEmpty DEF Retained
  <2> QED BY <2>1, <2>2 DEF AppendBegin
<1>2. pc = "append" /\ pc' \in {"write", "down"} /\ UNCHANGED <<base, next, batch>>
  BY DEF AppendBegin
<1> QED BY <1>1, <1>2 DEF FirstInv, FirstLogged, LogBeforeBaseline, PendingLogged

\* The record taken off the batch is in the log afterwards, if it was not before.
LEMMA FirstWriteChange ==
    ASSUME FirstInv, WriteChange PROVE FirstLogged'
<1> DEFINE e == CHOOSE c \in batch : TRUE
<1>1. pc = "write" /\ pc' = pc /\ UNCHANGED <<base, next, dropped>> /\ batch' = batch \ {e}
  BY DEF WriteChange
<1>2. seen = Retained /\ tail["cur"] = FALSE
  BY <1>1 DEF FirstInv, DistinctInv, MemoryMatchesLog
<1>3. Retained' = Retained \cup {e}
  <2>1. CASE e \in seen
    BY <1>2, <2>1 DEF WriteChange, Retained
  <2>2. CASE e \notin seen
    <3>1. log' = [log EXCEPT !["cur"] = Append(log["cur"], e)]
      BY <1>2, <2>2 DEF WriteChange
    <3>2. log'["arch"] = log["arch"] /\ log'["cur"] = Append(log["cur"], e)
      BY <3>1 DEF FirstInv, DistinctInv, MemoryMatchesLog, Generations
    <3>3. IsSequence(log["cur"])
      BY DEF FirstInv, DistinctInv, LogsDistinct
    <3> HIDE DEF e
    <3>4. RecordsOf(Append(log["cur"], e)) = RecordsOf(log["cur"]) \cup {e}
      BY <3>3, RecordsAppend
    <3> QED BY <3>2, <3>4 DEF Retained
  <2> QED BY <2>1, <2>2
<1> HIDE DEF e
<1>4. LogBeforeBaseline'
  BY <1>1, <1>3 DEF FirstInv, FirstLogged, LogBeforeBaseline
<1>5. PendingLogged'
  BY <1>1, <1>3 DEF FirstInv, FirstLogged, PendingLogged
<1> QED BY <1>1, <1>4, <1>5 DEF FirstInv, FirstLogged

\* Every step but a power failure preserves it; only SaveRename makes a baseline
\* depend on further records, those PendingLogged speaks of.
LEMMA FirstStep ==
    ASSUME "power" \notin Failures
    PROVE  FirstInv /\ [Next]_vars => FirstInv'
<1> SUFFICES ASSUME FirstInv, [Next]_vars PROVE FirstLogged'
  BY DistinctStep DEF FirstInv
<1> USE DEF FirstInv, FirstLogged, LogBeforeBaseline, PendingLogged, Retained
<1>1. CASE Open
  BY <1>1 DEF Open, history
<1>2. ASSUME NEW t \in Targets, NEW s \in Sources, NEW good \in BOOLEAN, Inspect(t, s, good)
      PROVE  FirstLogged'
  BY <1>2 DEF Inspect, files, history
<1>3. CASE Gathered
  BY <1>3 DEF Gathered, files, history
<1>4. CASE Record
  <2>1. UNCHANGED <<log, dropped, base>>
    BY <1>4 DEF Record, files, history
  <2>2. CASE NextTarget /\ UNCHANGED <<next, batch>>
    BY <2>1, <2>2 DEF NextTarget
  <2>3. CASE /\ batch' = next'.why
             /\ pc' = IF next'.why = {} THEN "save" ELSE "append"
    BY <2>1, <2>3
  <2> QED BY <1>4, <2>2, <2>3 DEF Record
<1>5. CASE SyncLog
  BY <1>5 DEF SyncLog, history
<1>6. CASE SaveRename
  <2>1. /\ pc = "save" /\ pc' = "saveSync" /\ batch = {}
        /\ base' = [base EXCEPT ![at] = next] /\ UNCHANGED <<log, dropped>>
    BY <1>6 DEF SaveRename
  <2>2. next.why \subseteq Retained \cup dropped
    BY <2>1
  <2> QED BY <2>1, <2>2
<1>7. CASE SaveSync
  BY <1>7 DEF SaveSync, NextTarget, history
<1>8. ASSUME NEW t \in Targets, NEW s \in Sources, NEW a \in Answers, Move(t, s, a)
      PROVE  FirstLogged'
  BY <1>8 DEF Move, files, memory, history
<1>9. CASE Stop
  BY <1>9 DEF Stop, Fault, Down, history
<1>10. ~PowerLoss
  BY DEF PowerLoss, Fault
<1>11. ASSUME NEW t \in Targets, Clear(t) PROVE FirstLogged'
  BY <1>11 DEF Clear, Fault, memory, history, NewSnapshot
<1>12. CASE UNCHANGED vars
  BY <1>12 DEF vars, files, memory, history
<1> QED
  BY <1>1, <1>2, <1>3, <1>4, <1>5, <1>6, <1>7, <1>8, <1>9, <1>10, <1>11, <1>12,
     FirstAppendBegin, FirstWriteChange DEF Next

\* Whatever stops the monitor, a baseline on file was preceded by the changes
\* that lead to it (record: Changes before Save); power failures excepted, as
\* the run watch_synced explains.
THEOREM ChangesLoggedFirst ==
    ASSUME "power" \notin Failures
    PROVE  Spec => []LogBeforeBaseline
<1>1. FirstInv => LogBeforeBaseline
  BY DEF FirstInv, FirstLogged
<1> QED BY FirstInit, FirstStep, <1>1, PTL DEF Spec

-----------------------------------------------------------------------------
(* What the changes of a target are *)

\* The image of a finite set is finite.
LEMMA ImageFinite ==
    ASSUME NEW S, IsFiniteSet(S), NEW f, f = [x \in S |-> f[x]]
    PROVE  IsFiniteSet({f[x] : x \in S})
<1>1. f \in Surjection(S, {f[x] : x \in S})
  BY DEF Surjection
<1> QED BY <1>1, FS_Surjection

\* A change names items of the two answers it compares.
LEMMA DiffItems ==
    ASSUME NEW old, NEW now, NEW c \in Diff(old, now)
    PROVE  /\ c.old \in Removed(old, now) \cup {NoEvidence}
           /\ c.new \in Added(old, now) \cup {NoEvidence}
  BY DEF Diff, Modifications, Additions, Removals, Reported

\* Two finite answers differ in finitely many changes.
LEMMA DiffFinite ==
    ASSUME NEW old, NEW now, IsFiniteSet(old.ev), IsFiniteSet(now.ev)
    PROVE  IsFiniteSet(Diff(old, now))
<1>1. IsFiniteSet(Removed(old, now)) /\ IsFiniteSet(Added(old, now))
  BY FS_Subset DEF Removed, Added
<1>2. IsFiniteSet(Modifications(old, now))
  <2> DEFINE P == {q \in Removed(old, now) \X Added(old, now) :
                     q[1].kind = q[2].kind /\ Paired(old, now, q[1].kind)}
             f == [p \in P |-> Reported(old, now, "MODIFIED", p[1], p[2])]
  <2>1. IsFiniteSet(P)
    <3>1. IsFiniteSet(Removed(old, now) \X Added(old, now))
      BY <1>1, FS_Product
    <3> QED BY <3>1, FS_Subset
  <2>2. IsFiniteSet({f[p] : p \in P})
    <3>1. f = [p \in P |-> f[p]]
      OBVIOUS
    <3> HIDE DEF f, P
    <3> QED BY <2>1, <3>1, ImageFinite
  <2>3. {f[p] : p \in P} = Modifications(old, now)
    BY DEF Modifications
  <2> QED BY <2>2, <2>3
<1>3. IsFiniteSet(Additions(old, now))
  <2> DEFINE P == {x \in Added(old, now) : ~Paired(old, now, x.kind)}
             f == [b \in P |-> Reported(old, now, "ADDED", NoEvidence, b)]
  <2>1. IsFiniteSet(P)
    BY <1>1, FS_Subset
  <2>2. IsFiniteSet({f[p] : p \in P})
    <3>1. f = [p \in P |-> f[p]]
      OBVIOUS
    <3> HIDE DEF f, P
    <3> QED BY <2>1, <3>1, ImageFinite
  <2>3. {f[p] : p \in P} = Additions(old, now)
    BY DEF Additions
  <2> QED BY <2>2, <2>3
<1>4. IsFiniteSet(Removals(old, now))
  <2> DEFINE P == {x \in Removed(old, now) : ~Paired(old, now, x.kind)}
             f == [a \in P |-> Reported(old, now, "REMOVED", a, NoEvidence)]
  <2>1. IsFiniteSet(P)
    BY <1>1, FS_Subset
  <2>2. IsFiniteSet({f[p] : p \in P})
    <3>1. f = [p \in P |-> f[p]]
      OBVIOUS
    <3> HIDE DEF f, P
    <3> QED BY <2>1, <3>1, ImageFinite
  <2>3. {f[p] : p \in P} = Removals(old, now)
    BY DEF Removals
  <2> QED BY <2>2, <2>3
<1> QED BY <1>2, <1>3, <1>4, FS_Union DEF Diff

\* Each change of a target is of the baseline's revision and of a source that was
\* compared, and is not two records run together.
LEMMA ChangesShape ==
    ASSUME NEW t, NEW old, NEW good, NEW e \in Changes(t, old, good)
    PROVE  /\ e = ChangeId(t, old.rev, e.source, e.change)
           /\ e.target = t /\ e.rev = old.rev /\ e.source \in Compared(old, good)
           /\ e.change \in Diff(old.src[e.source], good[e.source])
           /\ e # Corrupt
<1>1. PICK s \in Compared(old, good) :
        \E c \in Diff(old.src[s], good[s]) : e = ChangeId(t, old.rev, s, c)
  BY DEF Changes
<1>2. PICK c \in Diff(old.src[s], good[s]) : e = ChangeId(t, old.rev, s, c)
  BY <1>1
<1>3. e.target = t /\ e.rev = old.rev /\ e.source = s /\ e.change = c
  BY <1>2 DEF ChangeId
<1>4. e # Corrupt
  <2>1. "source" \in DOMAIN e
    BY <1>2 DEF ChangeId
  <2>2. "source" \notin DOMAIN Corrupt
    BY DEF Corrupt
  <2> QED BY <2>1, <2>2
<1> QED BY <1>1, <1>2, <1>3, <1>4

\* A target has finitely many changes.
LEMMA ChangesFinite ==
    ASSUME NEW t, NEW old, NEW good, IsFiniteSet(DOMAIN old.src),
           \A s \in Compared(old, good) :
              IsFiniteSet(old.src[s].ev) /\ IsFiniteSet(good[s].ev)
    PROVE  IsFiniteSet(Changes(t, old, good))
<1> DEFINE of(s) == {ChangeId(t, old.rev, s, c) : c \in Diff(old.src[s], good[s])}
           all == [s \in Compared(old, good) |-> of(s)]
<1>1. IsFiniteSet(Compared(old, good))
  BY FS_Subset DEF Compared
<1>2. ASSUME NEW s \in Compared(old, good) PROVE IsFiniteSet(of(s))
  <2> DEFINE D == Diff(old.src[s], good[s])
             f == [c \in D |-> ChangeId(t, old.rev, s, c)]
  <2>1. IsFiniteSet(D)
    BY DiffFinite
  <2>2. IsFiniteSet({f[c] : c \in D})
    <3>1. f = [c \in D |-> f[c]]
      OBVIOUS
    <3> HIDE DEF f, D
    <3> QED BY <2>1, <3>1, ImageFinite
  <2>3. {f[c] : c \in D} = of(s)
    OBVIOUS
  <2> QED BY <2>2, <2>3
<1>3. IsFiniteSet({all[s] : s \in Compared(old, good)})
  <2>1. all = [s \in Compared(old, good) |-> all[s]]
    OBVIOUS
  <2> HIDE DEF all
  <2> QED BY <1>1, <2>1, ImageFinite
<1>4. \A T \in {all[s] : s \in Compared(old, good)} : IsFiniteSet(T)
  BY <1>2
<1>5. UNION {all[s] : s \in Compared(old, good)} = Changes(t, old, good)
  BY DEF Changes
<1> QED BY <1>3, <1>4, <1>5, FS_UNION

-----------------------------------------------------------------------------
(* Types, sizes and readable logs *)

\* The merge of good answers into a baseline is a snapshot again; it reports the
\* changes of the sources that were compared, finitely many.
LEMMA MergedOK ==
    ASSUME WatchAssumption, NEW t \in Targets, NEW old, SnapshotOK(old),
           NEW good \in [Sources -> Answers \cup {NoAnswer}]
    PROVE  /\ SnapshotOK(Merged(t, old, good))
           /\ IsFiniteSet(Merged(t, old, good).why)
<1>1. DOMAIN old.src = Sources
  BY DEF SnapshotOK
<1>2. MergedSources(old, good) \in [Sources -> Answers \cup {NoAnswer}]
  BY <1>1 DEF MergedSources, SnapshotOK
<1>3. MergedRevision(old, good) \in Nat
  BY DEF MergedRevision, SnapshotOK
<1>4. IsFiniteSet(Changes(t, old, good))
  <2>1. \A s \in Compared(old, good) : old.src[s] \in Answers /\ good[s] \in Answers
    BY <1>1 DEF Compared, SnapshotOK
  <2>2. \A s \in Compared(old, good) : IsFiniteSet(old.src[s].ev) /\ IsFiniteSet(good[s].ev)
    BY <2>1 DEF WatchAssumption
  <2>3. IsFiniteSet(DOMAIN old.src)
    BY <1>1 DEF WatchAssumption
  <2> QED BY <2>2, <2>3, ChangesFinite
<1> QED BY <1>2, <1>3, <1>4 DEF Merged, SnapshotOK

\* A change still to be written is of the target and the baseline at hand, of a
\* source with a baseline and a good answer, and names items of these two.
LEMMA BatchShape ==
    ASSUME WatchAssumption, WatchInv, pc \in PendingPcs
    PROVE  /\ IsFiniteSet(batch) /\ Cardinality(batch) \in Nat
           /\ IsFiniteSet(next.why)
           /\ \A e \in next.why :
                /\ e.target = at /\ e.rev = base[at].rev
                /\ e.source \in Sources /\ e # Corrupt
                /\ base[at].src[e.source] \in Answers
                /\ found[at][e.source] \in Answers
                /\ e.change \in Diff(base[at].src[e.source], found[at][e.source])
<1>1. /\ next.why = Changes(at, base[at], found[at]) /\ batch \subseteq next.why
      /\ next = Merged(at, base[at], found[at])
  BY DEF WatchInv, PendingInv, Merged
<1>2. /\ at \in Targets /\ SnapshotOK(base[at])
      /\ found[at] \in [Sources -> Answers \cup {NoAnswer}]
  BY DEF WatchInv, TypeOK
<1>3. IsFiniteSet(next.why)
  BY <1>1, <1>2, MergedOK
<1>4. IsFiniteSet(batch) /\ Cardinality(batch) \in Nat
  BY <1>1, <1>3, FS_Subset, FS_CardinalityType
<1>5. ASSUME NEW e \in next.why
      PROVE  /\ e.target = at /\ e.rev = base[at].rev
             /\ e.source \in Sources /\ e # Corrupt
             /\ base[at].src[e.source] \in Answers
             /\ found[at][e.source] \in Answers
             /\ e.change \in Diff(base[at].src[e.source], found[at][e.source])
  <2>1. /\ e.target = at /\ e.rev = base[at].rev /\ e.source \in Compared(base[at], found[at])
        /\ e.change \in Diff(base[at].src[e.source], found[at][e.source])
        /\ e # Corrupt
    BY <1>1, <1>5, ChangesShape
  <2>2. DOMAIN base[at].src = Sources
    BY <1>2 DEF SnapshotOK
  <2> QED BY <1>2, <2>1, <2>2 DEF Compared, SnapshotOK
<1> QED BY <1>3, <1>4, <1>5

\* A generation fits when it does with the record that follows it.
LEMMA Fits ==
    ASSUME LogCap \in Nat, NEW n \in Nat, NEW b \in BOOLEAN
    PROVE  n + (IF b THEN 1 ELSE 0) <= LogCap <=> n <= LogCap /\ (b => n < LogCap)
<1>1. CASE b
  BY <1>1
<1>2. CASE ~b
  BY <1>2
<1> QED BY <1>1, <1>2

\* What the invariant says of each generation.
LEMMA LogFits ==
    ASSUME WatchAssumption, WatchInv, NEW f \in Generations
    PROVE  /\ Len(log[f]) \in Nat /\ Len(log[f]) <= LogCap
           /\ tail[f] \in BOOLEAN /\ (tail[f] => Len(log[f]) < LogCap)
<1>1. Len(log[f]) \in Nat
  BY DEF WatchInv, DistinctInv, LogsDistinct, IsSequence, Generations
<1>2. tail[f] \in BOOLEAN
  BY DEF WatchInv, TypeOK
<1>3. Len(log[f]) + (IF tail[f] THEN 1 ELSE 0) <= LogCap
  BY DEF WatchInv, LogReadable
<1>4. LogCap \in Nat
  BY DEF WatchAssumption
<1> QED BY <1>1, <1>2, <1>3, <1>4, Fits

\* No files and no process at first.
LEMMA WatchInit == ASSUME WatchAssumption, Init PROVE WatchInv
<1>1. SnapshotOK(NewSnapshot)
  BY DEF NewSnapshot, NoSources, SnapshotOK
<1>2. Len(<<>>) = 0
  OBVIOUS
<1>3. TypeOK
  <2>1. /\ DOMAIN base = Targets /\ DOMAIN baseDisk = Targets
        /\ \A t \in Targets : SnapshotOK(base[t]) /\ SnapshotOK(baseDisk[t])
        /\ SnapshotOK(next)
    BY <1>1 DEF Init
  <2>2. /\ DOMAIN log = Generations /\ tail \in [Generations -> BOOLEAN]
        /\ DOMAIN synced = Generations
        /\ \A f \in Generations : synced[f] \in 0 .. Len(log[f])
    BY <1>2 DEF Init
  <2>3. size \in 0 .. LogCap /\ pc \in Steps /\ at \in Targets
    BY DEF Init, Steps, Targets, WatchAssumption
  <2>4. /\ world \in [Targets -> [Sources -> Answers]]
        /\ asked \subseteq Targets \X Sources
        /\ found \in [Targets -> [Sources -> Answers \cup {NoAnswer}]]
        /\ told \in [Targets -> [Sources -> SUBSET Evidences]]
    BY DEF Init, NoSources
  <2>5. moves \in 0 .. MaxMoves /\ failures \in 0 .. MaxFailures
    BY DEF Init, WatchAssumption
  <2> QED BY <2>1, <2>2, <2>3, <2>4, <2>5 DEF TypeOK
<1>4. PendingInv /\ SizeInv
  BY DEF Init, PendingInv, SizeInv, PendingPcs
<1>5. LogReadable
  <2>1. \A f \in Generations : log[f] = <<>> /\ tail[f] = FALSE
    BY DEF Init
  <2>2. Retained = {}
    BY <2>1, RecordsEmpty DEF Retained, Generations
  <2>3. ASSUME NEW f \in Generations
        PROVE  Len(log[f]) + (IF tail[f] THEN 1 ELSE 0) <= LogCap
    <3>1. Len(log[f]) = 0 /\ tail[f] = FALSE
      BY <1>2, <2>1
    <3>2. LogCap \in Nat
      BY DEF WatchAssumption
    <3> QED BY <3>1, <3>2
  <2> QED BY <2>2, <2>3 DEF LogReadable
<1> QED BY <1>3, <1>4, <1>5, DistinctInit DEF WatchInv

\* Start-up trims the logs it reads and forgets everything else.
LEMMA WatchOpen == ASSUME WatchAssumption, WatchInv, Open PROVE WatchInv'
<1>1. SnapshotOK(NewSnapshot)
  BY DEF NewSnapshot, NoSources, SnapshotOK
<1>2. \A f \in Generations : Len(log[f]) \in Nat /\ Len(log[f]) <= LogCap
  BY LogFits
<1>3. TypeOK'
  <2>1. /\ UNCHANGED <<world, base, baseDisk, log, moves, failures, told>>
        /\ tail' \in [Generations -> BOOLEAN] /\ next' = NewSnapshot
        /\ asked' = {} /\ found' \in [Targets -> [Sources -> Answers \cup {NoAnswer}]]
    BY DEF Open, Repaired, NoSources, environment, history
  <2>2. DOMAIN synced' = Generations /\ \A f \in Generations : synced'[f] \in 0 .. Len(log[f])
    BY <1>2 DEF Open, WatchInv, TypeOK
  <2>3. size' \in 0 .. LogCap /\ pc' \in Steps /\ at' \in Targets
    BY <1>2 DEF Open, Steps, Targets, Generations, WatchAssumption
  <2> QED BY <1>1, <2>1, <2>2, <2>3 DEF TypeOK, WatchInv
<1>4. PendingInv' /\ SizeInv'
  BY DEF Open, PendingInv, SizeInv, PendingPcs
<1>5. LogReadable'
  BY <1>2 DEF Open, LogReadable, Repaired, Retained, WatchAssumption
<1> QED BY <1>3, <1>4, <1>5, DistinctOpen DEF WatchInv

\* An inspection or a change of mind of a provider touches no file.
LEMMA WatchInspect ==
    ASSUME WatchAssumption, WatchInv, NEW t \in Targets, NEW s \in Sources,
           NEW good \in BOOLEAN, Inspect(t, s, good), DistinctInv'
    PROVE  WatchInv'
<1>1. /\ UNCHANGED <<world, base, baseDisk, log, tail, synced, size, at, next, batch, told,
                     moves, failures, pc>>
      /\ pc = "inspect"
      /\ asked' = asked \cup {<<t, s>>}
      /\ found' = [found EXCEPT ![t][s] = IF good THEN world[t][s] ELSE NoAnswer]
  BY DEF Inspect, files, environment, history
<1>2. world[t][s] \in Answers
  BY DEF WatchInv, TypeOK
<1>3. TypeOK'
  <2>1. found' \in [Targets -> [Sources -> Answers \cup {NoAnswer}]]
    BY <1>1, <1>2 DEF WatchInv, TypeOK
  <2>2. asked' \subseteq Targets \X Sources
    BY <1>1 DEF WatchInv, TypeOK
  <2> QED BY <1>1, <2>1, <2>2 DEF WatchInv, TypeOK
<1>4. PendingInv' /\ SizeInv' /\ LogReadable'
  BY <1>1 DEF WatchInv, PendingInv, SizeInv, LogReadable, Retained, PendingPcs
<1> QED BY <1>3, <1>4 DEF WatchInv

LEMMA WatchMove ==
    ASSUME WatchAssumption, WatchInv, NEW t \in Targets, NEW s \in Sources,
           NEW a \in Answers, Move(t, s, a), DistinctInv'
    PROVE  WatchInv'
<1>1. /\ UNCHANGED <<base, baseDisk, log, tail, synced, seen, size, at, next, batch, told,
                     failures, pc, asked, found>>
      /\ moves < MaxMoves /\ moves' = moves + 1
      /\ world' = [world EXCEPT ![t][s] = a]
  BY DEF Move, files, memory, history
<1>2. TypeOK'
  <2>1. moves' \in 0 .. MaxMoves
    BY <1>1 DEF WatchInv, TypeOK, WatchAssumption
  <2>2. world' \in [Targets -> [Sources -> Answers]]
    BY <1>1 DEF WatchInv, TypeOK
  <2> QED BY <1>1, <2>1, <2>2 DEF WatchInv, TypeOK
<1>3. PendingInv' /\ SizeInv' /\ LogReadable'
  BY <1>1 DEF WatchInv, PendingInv, SizeInv, LogReadable, Retained, PendingPcs
<1> QED BY <1>2, <1>3 DEF WatchInv

\* A target without changes to record is done; else the merge is pending.
LEMMA WatchRecord ==
    ASSUME WatchAssumption, WatchInv, Record \/ Gathered, DistinctInv'
    PROVE  WatchInv'
<1>1. /\ UNCHANGED <<world, base, baseDisk, log, tail, synced, seen, size, told, moves, failures>>
      /\ pc \in {"inspect", "record"}
  BY DEF Record, Gathered, files, environment, history
<1>2. /\ at' \in Targets /\ pc' \in Steps /\ pc' # "write" /\ pc' # "down"
      /\ asked' \subseteq Targets \X Sources
      /\ found' \in [Targets -> [Sources -> Answers \cup {NoAnswer}]]
  BY DEF Record, Gathered, NextTarget, WatchInv, TypeOK, Targets, Steps, NoSources,
     WatchAssumption
<1>3. SnapshotOK(next)' /\ PendingInv'
  <2>1. CASE Gathered \/ (NextTarget /\ UNCHANGED <<next, batch>>)
    <3>1. pc' \notin PendingPcs /\ next' = next
      BY <2>1 DEF Gathered, NextTarget, PendingPcs
    <3> QED BY <3>1 DEF PendingInv, PendingPcs, WatchInv, TypeOK
  <2> DEFINE m == Merged(at, base[at], found[at])
  <2>2. CASE /\ m.src # base[at].src
             /\ next' = m /\ batch' = m.why
             /\ pc' = IF m.why = {} THEN "save" ELSE "append"
             /\ UNCHANGED <<asked, found, at>>
    <3>1. /\ at \in Targets /\ SnapshotOK(base[at])
          /\ found[at] \in [Sources -> Answers \cup {NoAnswer}]
      BY DEF WatchInv, TypeOK
    <3>2. SnapshotOK(m)
      BY <3>1, MergedOK
    <3>3. PendingInv'
      BY <1>1, <2>2 DEF PendingInv
    <3> QED BY <2>2, <3>2, <3>3
  <2> QED BY <2>1, <2>2 DEF Record
<1>4. TypeOK'
  BY <1>1, <1>2, <1>3 DEF WatchInv, TypeOK
<1>5. SizeInv' /\ LogReadable'
  BY <1>1, <1>2 DEF WatchInv, SizeInv, LogReadable, Retained
<1> QED BY <1>3, <1>4, <1>5 DEF WatchInv

\* A batch that is begun fits into what is left of the current generation, after
\* the rotation if there was none before.
LEMMA WatchAppendBegin ==
    ASSUME WatchAssumption, WatchInv, AppendBegin PROVE WatchInv'
<1>1. /\ UNCHANGED <<world, base, baseDisk, asked, found, at, next, batch, told, moves, failures>>
      /\ pc = "append" /\ pc' \in {"write", "down"}
  BY DEF AppendBegin, environment
<1>2. /\ Cardinality(batch) \in Nat /\ LogCap \in Nat /\ LogCap >= 2
      /\ BatchCap <= LogCap /\ BatchCap \in Nat
  BY <1>1, BatchShape DEF PendingPcs, WatchAssumption, BatchCap
<1>3. pc' = "write" => Cardinality(batch) <= BatchCap
  BY <1>2 DEF AppendBegin
<1>4. PendingInv'
  BY <1>1 DEF WatchInv, PendingInv, PendingPcs
<1>5. CASE \/ UNCHANGED <<log, tail, synced, seen, size, dropped>> /\ ~MustRotate
           \/ pc' = "down"
  <2>1. UNCHANGED <<log, tail, synced, seen, size>>
    BY <1>5 DEF AppendBegin
  <2>2. TypeOK'
    BY <1>1, <2>1 DEF WatchInv, TypeOK, Steps
  <2>3. LogReadable'
    BY <2>1 DEF WatchInv, LogReadable, Retained
  <2>4. SizeInv'
    <3>1. size \in Nat /\ size = Len(log["cur"])
      BY <1>1 DEF WatchInv, SizeInv, TypeOK
    <3>2. pc' = "write" => size + Cardinality(batch) <= LogCap
      BY <1>2, <1>5, <3>1 DEF MustRotate
    <3> QED BY <1>1, <2>1, <3>1, <3>2 DEF SizeInv
  <2> QED BY <1>4, <2>2, <2>3, <2>4, DistinctAppendBegin DEF WatchInv
<1>6. CASE /\ log' = [arch |-> log["cur"], cur |-> <<>>]
           /\ tail' = [arch |-> tail["cur"], cur |-> FALSE]
           /\ synced' = [arch |-> synced["cur"], cur |-> 0]
           /\ size' = 0 /\ pc' = "write"
  <2>1. /\ log'["arch"] = log["cur"] /\ log'["cur"] = <<>> /\ DOMAIN log' = Generations
        /\ tail'["arch"] = tail["cur"] /\ tail'["cur"] = FALSE /\ DOMAIN tail' = Generations
        /\ synced'["arch"] = synced["cur"] /\ synced'["cur"] = 0
        /\ DOMAIN synced' = Generations
    BY <1>6 DEF Generations
  <2>2. Len(<<>>) = 0 /\ Retained' \subseteq Retained
    BY <2>1, RecordsEmpty DEF Retained
  <2>3. /\ Len(log["cur"]) \in Nat /\ Len(log["cur"]) <= LogCap
        /\ tail["cur"] = FALSE /\ synced["cur"] \in 0 .. Len(log["cur"])
    <3>1. tail["cur"] = FALSE
      BY <1>1 DEF WatchInv, DistinctInv, MemoryMatchesLog, TypeOK, Generations
    <3> QED BY <3>1, LogFits DEF Generations, WatchInv, TypeOK
  <2>4. TypeOK'
    <3>1. \A f \in Generations : synced'[f] \in 0 .. Len(log'[f])
      BY <2>1, <2>2, <2>3 DEF Generations
    <3>2. tail' \in [Generations -> BOOLEAN]
      <4>1. tail' = [f \in DOMAIN tail' |-> tail'[f]]
        BY <1>6
      <4>2. \A f \in Generations : tail'[f] \in BOOLEAN
        BY <2>1, <2>3 DEF Generations
      <4> QED BY <2>1, <4>1, <4>2
    <3>3. size' \in 0 .. LogCap /\ pc' \in Steps
      BY <1>2, <1>6 DEF Steps
    <3> QED BY <1>1, <2>1, <3>1, <3>2, <3>3 DEF WatchInv, TypeOK
  <2>5. LogReadable'
    <3>1. \A f \in Generations : tail'[f] = FALSE /\ Len(log'[f]) \in Nat /\ Len(log'[f]) <= LogCap
      BY <1>2, <2>1, <2>2, <2>3 DEF Generations
    <3>2. ASSUME NEW f \in Generations
          PROVE  Len(log'[f]) + (IF tail'[f] THEN 1 ELSE 0) <= LogCap
      <4>1. tail'[f] = FALSE /\ Len(log'[f]) \in Nat /\ Len(log'[f]) <= LogCap
        BY <3>1
      <4> QED BY <1>2, <4>1, Fits
    <3> QED BY <2>2, <3>2 DEF WatchInv, LogReadable
  <2>6. SizeInv'
    BY <1>1, <1>2, <1>3, <1>6, <2>1, <2>2 DEF SizeInv
  <2> QED BY <1>4, <2>4, <2>5, <2>6, DistinctAppendBegin DEF WatchInv
<1> QED BY <1>5, <1>6 DEF AppendBegin

\* Each record written is one the batch was counted for, and is whole.
LEMMA WatchWriteChange ==
    ASSUME WatchAssumption, WatchInv, WriteChange PROVE WatchInv'
<1>1. PICK e \in batch :
        /\ batch' = batch \ {e}
        /\ IF e \in seen
           THEN UNCHANGED <<log, tail, seen, size, told>>
           ELSE /\ log' = [log EXCEPT !["cur"] = Append(log["cur"], IF tail["cur"] THEN Corrupt ELSE e)]
                /\ tail' = [tail EXCEPT !["cur"] = FALSE]
                /\ size' = size + 1
                /\ told' = [told EXCEPT ![e.target][e.source] =
                              Replay({e.change}, told[e.target][e.source])]
  BY DEF WriteChange
<1>2. /\ UNCHANGED <<world, base, baseDisk, synced, pc, asked, found, at, next, moves, failures>>
      /\ pc = "write"
  BY DEF WriteChange, environment
<1>3. pc \in PendingPcs
  BY <1>2 DEF PendingPcs
<1>4. /\ IsFiniteSet(batch) /\ Cardinality(batch) \in Nat
      /\ e.target = at /\ e.source \in Sources /\ e # Corrupt
      /\ base[at].src[e.source] \in Answers /\ found[at][e.source] \in Answers
      /\ e.change \in Diff(base[at].src[e.source], found[at][e.source])
  <2>1. e \in next.why
    BY <1>3 DEF WatchInv, PendingInv
  <2> QED BY <1>3, <2>1, BatchShape
<1>5. Cardinality(batch') = Cardinality(batch) - 1 /\ Cardinality(batch) > 0
  <2>1. Cardinality(batch) # 0
    BY <1>4, FS_EmptySet
  <2>2. Cardinality(batch \ {e}) = Cardinality(batch) - 1
    BY <1>4, FS_RemoveElement
  <2>3. \A n \in Nat : n # 0 => n > 0
    OBVIOUS
  <2>4. Cardinality(batch) > 0
    BY <1>4, <2>1, <2>3
  <2> QED BY <1>1, <2>2, <2>4
<1>6. /\ Len(log["cur"]) \in Nat /\ LogCap \in Nat
      /\ size = Len(log["cur"]) /\ size + Cardinality(batch) <= LogCap
      /\ tail["cur"] = FALSE
  BY <1>2, LogFits DEF WatchInv, SizeInv, DistinctInv, MemoryMatchesLog, TypeOK, Generations,
     WatchAssumption
<1>7. PendingInv'
  BY <1>1, <1>2 DEF WatchInv, PendingInv, PendingPcs
<1>8. CASE UNCHANGED <<log, tail, seen, size, told>>
  <2>1. TypeOK' /\ LogReadable'
    BY <1>2, <1>8 DEF WatchInv, TypeOK, LogReadable, Retained
  <2>2. SizeInv'
    BY <1>2, <1>4, <1>5, <1>6, <1>8 DEF SizeInv
  <2> QED BY <1>7, <2>1, <2>2, DistinctWriteChange DEF WatchInv
<1>9. CASE /\ log' = [log EXCEPT !["cur"] = Append(log["cur"], e)]
           /\ tail' = [tail EXCEPT !["cur"] = FALSE]
           /\ size' = size + 1
           /\ told' = [told EXCEPT ![e.target][e.source] =
                         Replay({e.change}, told[e.target][e.source])]
  <2>1. /\ log'["arch"] = log["arch"] /\ log'["cur"] = Append(log["cur"], e)
        /\ DOMAIN log' = Generations /\ tail'["cur"] = FALSE /\ tail'["arch"] = tail["arch"]
        /\ tail' \in [Generations -> BOOLEAN]
    BY <1>9 DEF WatchInv, TypeOK, Generations
  <2>2. IsSequence(log["cur"])
    BY DEF WatchInv, DistinctInv, LogsDistinct
  <2>3. /\ Len(Append(log["cur"], e)) = Len(log["cur"]) + 1
        /\ RecordsOf(Append(log["cur"], e)) = RecordsOf(log["cur"]) \cup {e}
    <3>1. PICK S : log["cur"] \in Seq(S)
      BY <2>2 DEF IsSequence
    <3>2. log["cur"] \in Seq(S \cup {e})
      BY <3>1
    <3> QED BY <2>2, <3>2, RecordsAppend
  <2>4. told' \in [Targets -> [Sources -> SUBSET Evidences]]
    <3>1. e.change.new \in found[at][e.source].ev \cup {NoEvidence}
      BY <1>4, DiffItems DEF Added
    <3>2. found[at][e.source].ev \subseteq Evidences
      BY <1>4 DEF Evidences
    <3>3. /\ told \in [Targets -> [Sources -> SUBSET Evidences]]
          /\ at \in Targets
      BY DEF WatchInv, TypeOK
    <3>4. Replay({e.change}, told[e.target][e.source]) \subseteq Evidences
      BY <1>4, <3>1, <3>2, <3>3 DEF Replay
    <3> QED BY <1>4, <1>9, <3>3, <3>4
  <2>5. TypeOK'
    <3>1. \A f \in Generations : synced'[f] \in 0 .. Len(log'[f])
      <4>1. synced["cur"] \in 0 .. Len(log["cur"])
        BY DEF WatchInv, TypeOK, Generations
      <4>2. synced["cur"] \in 0 .. (Len(log["cur"]) + 1)
        BY <1>6, <4>1
      <4>3. synced["arch"] \in 0 .. Len(log["arch"])
        BY DEF WatchInv, TypeOK, Generations
      <4> QED BY <1>2, <2>1, <2>3, <4>2, <4>3 DEF Generations
    <3>2. size' \in 0 .. LogCap
      BY <1>4, <1>5, <1>6, <1>9
    <3> QED BY <1>2, <2>1, <2>4, <3>1, <3>2 DEF WatchInv, TypeOK
  <2>6. LogReadable'
    <3>1. Corrupt \notin Retained'
      BY <1>4, <2>1, <2>3 DEF WatchInv, LogReadable, Retained
    <3>2. ASSUME NEW f \in Generations
          PROVE  Len(log'[f]) + (IF tail'[f] THEN 1 ELSE 0) <= LogCap
      <4>1. CASE f = "cur"
        <5>1. Len(log'[f]) \in Nat /\ Len(log'[f]) <= LogCap
          BY <1>4, <1>5, <1>6, <2>1, <2>3, <4>1
        <5> QED BY <1>6, <2>1, <4>1, <5>1, Fits
      <4>2. CASE f = "arch"
        BY <2>1, <4>2 DEF WatchInv, LogReadable, Generations
      <4> QED BY <4>1, <4>2 DEF Generations
    <3> QED BY <3>1, <3>2 DEF LogReadable
  <2>7. SizeInv'
    BY <1>2, <1>4, <1>5, <1>6, <1>9, <2>1, <2>3 DEF SizeInv
  <2> QED BY <1>7, <2>5, <2>6, <2>7, DistinctWriteChange DEF WatchInv
<1> QED BY <1>1, <1>6, <1>8, <1>9

\* Syncing the log, renaming the baseline and syncing its directory keep the logs.
LEMMA WatchSyncLog ==
    ASSUME WatchAssumption, WatchInv, SyncLog, DistinctInv' PROVE WatchInv'
<1>1. /\ UNCHANGED <<world, base, baseDisk, log, tail, seen, size, asked, found, at, next, batch,
                     told, moves, failures>>
      /\ pc = "write" /\ pc' = "save" /\ batch = {}
      /\ synced' = [synced EXCEPT !["cur"] = Len(log["cur"])]
  BY DEF SyncLog, environment, history
<1>2. Len(log["cur"]) \in Nat
  BY LogFits DEF Generations
<1>3. TypeOK'
  <2>1. DOMAIN synced' = Generations /\ \A f \in Generations : synced'[f] \in 0 .. Len(log'[f])
    BY <1>1, <1>2 DEF WatchInv, TypeOK, Generations
  <2> QED BY <1>1, <2>1 DEF WatchInv, TypeOK, Steps
<1>4. PendingInv' /\ SizeInv' /\ LogReadable'
  BY <1>1 DEF WatchInv, PendingInv, SizeInv, LogReadable, Retained, PendingPcs
<1> QED BY <1>3, <1>4 DEF WatchInv

LEMMA WatchSaveRename ==
    ASSUME WatchAssumption, WatchInv, SaveRename, DistinctInv' PROVE WatchInv'
<1>1. /\ UNCHANGED <<world, baseDisk, log, tail, synced, seen, size, asked, found, at, next,
                     batch, moves, failures>>
      /\ pc = "save" /\ pc' = "saveSync"
      /\ base' = [base EXCEPT ![at] = next]
      /\ told' = [told EXCEPT ![at] =
                   [s \in Sources |-> IF base[at].src[s] = NoAnswer /\ next.src[s] # NoAnswer
                                      THEN next.src[s].ev ELSE told[at][s]]]
  BY DEF SaveRename, environment
<1>2. told' \in [Targets -> [Sources -> SUBSET Evidences]]
  <2>1. told \in [Targets -> [Sources -> SUBSET Evidences]] /\ at \in Targets
    BY DEF WatchInv, TypeOK
  <2>2. \A s \in Sources : next.src[s] # NoAnswer => next.src[s].ev \subseteq Evidences
    BY DEF WatchInv, TypeOK, SnapshotOK, Evidences
  <2> QED BY <1>1, <2>1, <2>2
<1>3. TypeOK'
  BY <1>1, <1>2 DEF WatchInv, TypeOK, Steps
<1>4. PendingInv' /\ SizeInv' /\ LogReadable'
  BY <1>1 DEF WatchInv, PendingInv, SizeInv, LogReadable, Retained, PendingPcs
<1> QED BY <1>3, <1>4 DEF WatchInv

LEMMA WatchSaveSync ==
    ASSUME WatchAssumption, WatchInv, SaveSync, DistinctInv' PROVE WatchInv'
<1>1. /\ UNCHANGED <<world, base, log, tail, synced, seen, size, batch, told, moves, failures>>
      /\ pc = "saveSync" /\ next' = NewSnapshot
      /\ baseDisk' = [baseDisk EXCEPT ![at] = base[at]]
  BY DEF SaveSync, environment, history
<1>2. /\ at' \in Targets /\ pc' \in {"record", "inspect"}
      /\ asked' \subseteq Targets \X Sources
      /\ found' \in [Targets -> [Sources -> Answers \cup {NoAnswer}]]
  BY DEF SaveSync, NextTarget, WatchInv, TypeOK, Targets, NoSources, WatchAssumption
<1>3. SnapshotOK(NewSnapshot)
  BY DEF NewSnapshot, NoSources, SnapshotOK
<1>4. TypeOK'
  BY <1>1, <1>2, <1>3 DEF WatchInv, TypeOK, Steps
<1>5. PendingInv' /\ SizeInv' /\ LogReadable'
  BY <1>1, <1>2 DEF WatchInv, PendingInv, SizeInv, LogReadable, Retained, PendingPcs
<1> QED BY <1>4, <1>5 DEF WatchInv

\* While a record is being written there is room for it.
LEMMA WritingFits ==
    ASSUME WatchAssumption, WatchInv, Writing
    PROVE  /\ Len(log["cur"]) \in Nat /\ LogCap \in Nat
           /\ Len(log["cur"]) < LogCap
<1>1. pc = "write" /\ batch # {} /\ pc \in PendingPcs
  BY DEF Writing, PendingPcs
<1>2. IsFiniteSet(batch) /\ Cardinality(batch) \in Nat
  BY <1>1, BatchShape
<1>3. Cardinality(batch) # 0
  BY <1>1, <1>2, FS_EmptySet
<1>4. size = Len(log["cur"]) /\ size + Cardinality(batch) <= LogCap
  BY <1>1 DEF WatchInv, SizeInv
<1>5. Len(log["cur"]) \in Nat /\ LogCap \in Nat
  BY LogFits DEF Generations, WatchAssumption
<1>6. \A n, c, l \in Nat : c # 0 /\ n + c <= l => n < l
  OBVIOUS
<1> QED BY <1>2, <1>3, <1>4, <1>5, <1>6

\* A stop forgets the memory; the record it may cut short was counted.
LEMMA WatchStop == ASSUME WatchAssumption, WatchInv, Stop, DistinctInv' PROVE WatchInv'
<1>1. /\ UNCHANGED <<world, base, baseDisk, log, synced, told, moves>>
      /\ failures < MaxFailures /\ failures' = failures + 1 /\ Down
      /\ \/ UNCHANGED tail
         \/ Writing /\ tail' = [tail EXCEPT !["cur"] = TRUE]
  BY DEF Stop, Fault, history
<1>2. SnapshotOK(NewSnapshot)
  BY DEF NewSnapshot, NoSources, SnapshotOK
<1>3. TypeOK'
  <2>1. failures' \in 0 .. MaxFailures
    BY <1>1 DEF WatchInv, TypeOK, WatchAssumption
  <2>2. tail' \in [Generations -> BOOLEAN]
    BY <1>1 DEF WatchInv, TypeOK
  <2>3. /\ size' \in 0 .. LogCap /\ at' \in Targets /\ pc' \in Steps /\ SnapshotOK(next')
        /\ asked' \subseteq Targets \X Sources
        /\ found' \in [Targets -> [Sources -> Answers \cup {NoAnswer}]]
    BY <1>1, <1>2 DEF Down, Steps, Targets, NoSources, WatchAssumption
  <2> QED BY <1>1, <2>1, <2>2, <2>3 DEF WatchInv, TypeOK
<1>4. LogReadable'
  <2>1. CASE UNCHANGED tail
    BY <1>1, <2>1 DEF WatchInv, LogReadable, Retained
  <2>2. CASE Writing /\ tail' = [tail EXCEPT !["cur"] = TRUE]
    <3>1. Len(log["cur"]) \in Nat /\ Len(log["cur"]) < LogCap /\ LogCap \in Nat
      BY <2>2, WritingFits
    <3>2. Len(log'["cur"]) + (IF tail'["cur"] THEN 1 ELSE 0) <= LogCap
      <4>1. tail'["cur"] = TRUE /\ log' = log
        BY <1>1, <2>2 DEF WatchInv, TypeOK, Generations
      <4>2. Len(log["cur"]) + 1 <= LogCap
        BY <3>1
      <4> QED BY <4>1, <4>2
    <3>3. Len(log'["arch"]) + (IF tail'["arch"] THEN 1 ELSE 0) <= LogCap
      BY <1>1, <2>2 DEF WatchInv, LogReadable, TypeOK, Generations
    <3> QED BY <1>1, <3>2, <3>3 DEF WatchInv, LogReadable, Retained, Generations
  <2> QED BY <1>1, <2>1, <2>2
<1>5. PendingInv' /\ SizeInv'
  BY <1>1 DEF Down, PendingInv, SizeInv, PendingPcs
<1> QED BY <1>3, <1>4, <1>5 DEF WatchInv

\* A power failure leaves prefixes, each with at most one incomplete record more.
LEMMA WatchPowerLoss ==
    ASSUME WatchAssumption, WatchInv, PowerLoss, DistinctInv' PROVE WatchInv'
<1>1. /\ UNCHANGED <<world, told, moves>>
      /\ failures < MaxFailures /\ failures' = failures + 1 /\ Down
      /\ DOMAIN base' = Targets
      /\ \A t \in Targets : base'[t] \in {base[t], baseDisk[t]}
      /\ baseDisk' = base'
  BY DEF PowerLoss, Fault, history
<1>2. PICK n \in [Generations -> 0 .. LogCap] :
        /\ \A f \in Generations : n[f] \in synced[f] .. Len(log[f])
        /\ log' = [f \in Generations |-> SubSeq(log[f], 1, n[f])]
        /\ synced' = n
        /\ tail' \in [Generations -> BOOLEAN]
        /\ \A f \in Generations :
             tail'[f] => tail[f] \/ n[f] < Len(log[f]) \/ (f = "cur" /\ Writing)
  BY DEF PowerLoss
<1>3. SnapshotOK(NewSnapshot)
  BY DEF NewSnapshot, NoSources, SnapshotOK
<1>4. ASSUME NEW f \in Generations
      PROVE  /\ n[f] \in Nat /\ n[f] <= Len(log[f])
             /\ Len(log'[f]) = n[f] /\ RecordsOf(log'[f]) \subseteq RecordsOf(log[f])
  <2>1. IsSequence(log[f]) /\ Len(log[f]) \in Nat
    BY LogFits DEF WatchInv, DistinctInv, LogsDistinct, Generations
  <2>2. n[f] \in Nat /\ synced[f] \in Int
    BY <1>2 DEF WatchInv, TypeOK, WatchAssumption
  <2>3. n[f] <= Len(log[f]) /\ n[f] \in 0 .. Len(log[f])
    BY <1>2, <2>1, <2>2
  <2>4. Len(SubSeq(log[f], 1, n[f])) = n[f]
    <3>1. PICK S : log[f] \in Seq(S)
      BY <2>1 DEF IsSequence
    <3> QED BY <2>1, <2>3, <3>1
  <2> QED BY <1>2, <2>1, <2>2, <2>3, <2>4, RecordsPrefix
<1>5. TypeOK'
  <2>1. failures' \in 0 .. MaxFailures
    BY <1>1 DEF WatchInv, TypeOK, WatchAssumption
  <2>2. /\ size' \in 0 .. LogCap /\ at' \in Targets /\ pc' \in Steps /\ SnapshotOK(next')
        /\ asked' \subseteq Targets \X Sources
        /\ found' \in [Targets -> [Sources -> Answers \cup {NoAnswer}]]
    BY <1>1, <1>3 DEF Down, Steps, Targets, NoSources, WatchAssumption
  <2>3. \A t \in Targets : SnapshotOK(base'[t]) /\ SnapshotOK(baseDisk'[t])
    BY <1>1 DEF WatchInv, TypeOK
  <2>4. DOMAIN log' = Generations /\ DOMAIN synced' = Generations
    BY <1>2
  <2>5. \A f \in Generations : synced'[f] \in 0 .. Len(log'[f])
    BY <1>2, <1>4
  <2> QED BY <1>1, <1>2, <2>1, <2>2, <2>3, <2>4, <2>5 DEF WatchInv, TypeOK
<1>6. LogReadable'
  <2>1. ASSUME NEW f \in Generations
        PROVE  Len(log'[f]) + (IF tail'[f] THEN 1 ELSE 0) <= LogCap
    <3>1. /\ Len(log[f]) \in Nat /\ Len(log[f]) <= LogCap /\ LogCap \in Nat
          /\ (tail[f] => Len(log[f]) < LogCap)
      BY LogFits DEF WatchAssumption
    <3>2. f = "cur" /\ Writing => Len(log[f]) < LogCap
      BY WritingFits
    <3>3. n[f] <= LogCap /\ (tail'[f] => n[f] < LogCap)
      BY <1>2, <1>4, <3>1, <3>2
    <3>4. tail'[f] \in BOOLEAN
      BY <1>2
    <3> QED BY <1>4, <3>1, <3>3, <3>4, Fits
  <2>2. Corrupt \notin Retained'
    BY <1>4 DEF WatchInv, LogReadable, Retained, Generations
  <2> QED BY <2>1, <2>2 DEF LogReadable
<1>7. PendingInv' /\ SizeInv'
  BY <1>1 DEF Down, PendingInv, SizeInv, PendingPcs
<1> QED BY <1>5, <1>6, <1>7 DEF WatchInv

\* Removing a baseline while nothing runs leaves a new snapshot.
LEMMA WatchClear ==
    ASSUME WatchAssumption, WatchInv, NEW t \in Targets, Clear(t), DistinctInv'
    PROVE  WatchInv'
<1>1. /\ UNCHANGED <<world, log, tail, synced, seen, size, pc, asked, found, at, next, batch,
                     told, moves>>
      /\ pc = "down"
      /\ failures < MaxFailures /\ failures' = failures + 1
      /\ base' = [base EXCEPT ![t] = NewSnapshot]
      /\ baseDisk' = [baseDisk EXCEPT ![t] = NewSnapshot]
  BY DEF Clear, Fault, memory, history
<1>2. SnapshotOK(NewSnapshot)
  BY DEF NewSnapshot, NoSources, SnapshotOK
<1>3. TypeOK'
  <2>1. failures' \in 0 .. MaxFailures
    BY <1>1 DEF WatchInv, TypeOK, WatchAssumption
  <2> QED BY <1>1, <1>2, <2>1 DEF WatchInv, TypeOK
<1>4. PendingInv' /\ SizeInv' /\ LogReadable'
  BY <1>1 DEF WatchInv, PendingInv, SizeInv, LogReadable, Retained, PendingPcs
<1> QED BY <1>3, <1>4 DEF WatchInv

\* Every step preserves the invariant.
LEMMA WatchStep == ASSUME WatchAssumption PROVE WatchInv /\ [Next]_vars => WatchInv'
<1> SUFFICES ASSUME WatchInv, [Next]_vars PROVE WatchInv'
  OBVIOUS
<1>1. DistinctInv'
  BY DistinctStep DEF WatchInv
<1>2. CASE UNCHANGED vars
  BY <1>2 DEF vars, files, memory, environment, history, WatchInv, TypeOK, DistinctInv,
     LogsDistinct, MemoryMatchesLog, PendingInv, SizeInv, LogReadable, Retained
<1> QED
  BY <1>1, <1>2, WatchOpen, WatchInspect, WatchMove, WatchRecord, WatchAppendBegin,
     WatchWriteChange, WatchSyncLog, WatchSaveRename, WatchSaveSync, WatchStop, WatchPowerLoss,
     WatchClear DEF Next

LEMMA WatchAlways == Spec => []WatchInv
<1>1. Init => WatchInv
  BY WatchInit, WatchAssumption
<1>2. WatchInv /\ [Next]_vars => WatchInv'
  BY WatchStep, WatchAssumption
<1> QED BY <1>1, <1>2, PTL DEF Spec

\* Store, engine and files keep their shapes, the size in memory its limit.
THEOREM WatchTypes == Spec => []TypeOK
<1>1. WatchInv => TypeOK
  BY DEF WatchInv
<1>2. Spec => []WatchInv
  BY WatchAlways
<1> QED BY <1>1, <1>2, PTL

\* Whatever stops the monitor or the machine, the next start-up can read both
\* generations: neither exceeds the limit it reads with, nor holds a line that two
\* writes ran into (appendLog's rotation and loadLog's repair).
THEOREM LogsStayReadable == Spec => []LogReadable
<1>1. WatchInv => LogReadable
  BY DEF WatchInv
<1>2. Spec => []WatchInv
  BY WatchAlways
<1> QED BY <1>1, <1>2, PTL

-----------------------------------------------------------------------------
(* Synced before replaced *)

\* A record is durable when it is among the synced ones of its generation.
LEMMA DurableRecords ==
    ASSUME NEW e
    PROVE  e \in Durable <=> \E f \in Generations : \E i \in 1 .. synced[f] : e = log[f][i]
  BY DEF Durable

\* What is synced to the last record is durable as a whole.
LEMMA SyncedIsDurable ==
    ASSUME WatchInv, NEW f \in Generations, synced[f] = Len(log[f])
    PROVE  RecordsOf(log[f]) \subseteq Durable
<1>1. DOMAIN log[f] = 1 .. Len(log[f])
  BY DEF WatchInv, DistinctInv, LogsDistinct, IsSequence, Generations
<1> QED BY <1>1, DurableRecords DEF RecordsOf

\* Durable records are retained.
LEMMA DurableIsRetained == ASSUME WatchInv PROVE Durable \subseteq Retained
<1>1. ASSUME NEW f \in Generations, NEW i \in 1 .. synced[f]
      PROVE  log[f][i] \in RecordsOf(log[f])
  <2>1. DOMAIN log[f] = 1 .. Len(log[f]) /\ Len(log[f]) \in Nat
    BY DEF WatchInv, DistinctInv, LogsDistinct, IsSequence, Generations
  <2>2. synced[f] \in 0 .. Len(log[f])
    BY DEF WatchInv, TypeOK
  <2>3. i \in 1 .. Len(log[f])
    BY <2>1, <2>2
  <2> QED BY <2>1, <2>3 DEF RecordsOf
<1> QED BY <1>1, DurableRecords DEF Retained, Generations

\* Nothing is logged, nothing depends on it.
LEMMA SyncedInit == ASSUME Init PROVE SyncedFirst
<1>1. BatchUnsynced
  <2>1. Len(<<>>) = 0
    OBVIOUS
  <2> QED BY <2>1 DEF Init, BatchUnsynced, Generations
<1> QED BY <1>1 DEF Init, SyncedFirst, NewSnapshot, PendingPcs

\* A rotation replaces an archive that was synced by a log that is.
LEMMA SyncedAppendBegin ==
    ASSUME WatchInv, SyncedFirst, AppendBegin PROVE SyncedFirst'
<1>1. /\ UNCHANGED <<base, baseDisk, next, batch>>
      /\ pc = "append" /\ pc' \in {"write", "down"}
  BY DEF AppendBegin
<1>2. CASE UNCHANGED <<log, synced, dropped>>
  BY <1>1, <1>2 DEF SyncedFirst, BatchUnsynced, Durable, Retained, PendingPcs
<1>3. CASE /\ log' = [arch |-> log["cur"], cur |-> <<>>]
           /\ synced' = [arch |-> synced["cur"], cur |-> 0]
           /\ dropped' = dropped \cup RecordsOf(log["arch"])
  <2>1. /\ log'["arch"] = log["cur"] /\ log'["cur"] = <<>>
        /\ synced'["arch"] = synced["cur"] /\ synced'["cur"] = 0 /\ Len(<<>>) = 0
    BY <1>3
  <2>2. synced["cur"] = Len(log["cur"])
    BY <1>1 DEF SyncedFirst, BatchUnsynced
  <2>3. BatchUnsynced'
    BY <2>1, <2>2 DEF BatchUnsynced
  <2>4. Durable \subseteq Durable' \cup RecordsOf(log["arch"])
    <3>1. ASSUME NEW f \in Generations, NEW i \in 1 .. synced[f]
          PROVE  log[f][i] \in Durable' \cup RecordsOf(log["arch"])
      <4>1. CASE f = "cur"
        <5>1. i \in 1 .. synced'["arch"] /\ log[f][i] = log'["arch"][i]
          BY <2>1, <3>1, <4>1
        <5> QED BY <5>1 DEF Durable, Generations
      <4>2. CASE f = "arch"
        <5>1. DOMAIN log["arch"] = 1 .. Len(log["arch"])
          BY DEF WatchInv, DistinctInv, LogsDistinct, IsSequence
        <5>2. i \in 1 .. Len(log["arch"])
          BY <3>1, <4>2 DEF SyncedFirst, BatchUnsynced
        <5> QED BY <4>2, <5>1, <5>2 DEF RecordsOf
      <4> QED BY <4>1, <4>2 DEF Generations
    <3> QED BY <3>1, DurableRecords
  <2>5. Retained' \cup dropped' = Retained \cup dropped
    BY <1>3, <2>1, RecordsEmpty DEF Retained
  <2> QED BY <1>1, <1>3, <2>3, <2>4, <2>5 DEF SyncedFirst, PendingPcs
<1> QED BY <1>2, <1>3 DEF AppendBegin

\* Appending leaves what is synced in place; the record taken off the batch is in
\* the log afterwards.
LEMMA SyncedWriteChange ==
    ASSUME WatchInv, SyncedFirst, WriteChange PROVE SyncedFirst'
<1>1. PICK e \in batch :
        /\ batch' = batch \ {e}
        /\ \/ e \in seen /\ UNCHANGED log
           \/ log' = [log EXCEPT !["cur"] = Append(log["cur"], IF tail["cur"] THEN Corrupt ELSE e)]
  BY DEF WriteChange
<1>2. /\ UNCHANGED <<base, baseDisk, synced, next, dropped, pc>>
      /\ pc = "write"
  BY DEF WriteChange
<1>3. seen = Retained /\ tail["cur"] = FALSE
  BY <1>2 DEF WatchInv, DistinctInv, MemoryMatchesLog, TypeOK, Generations
<1>4. CASE e \in seen /\ UNCHANGED log
  BY <1>1, <1>2, <1>3, <1>4 DEF SyncedFirst, BatchUnsynced, Durable, Retained
<1>5. CASE log' = [log EXCEPT !["cur"] = Append(log["cur"], e)]
  <2>1. log'["arch"] = log["arch"] /\ log'["cur"] = Append(log["cur"], e)
    BY <1>5 DEF WatchInv, TypeOK, Generations
  <2>2. IsSequence(log["cur"])
    BY DEF WatchInv, DistinctInv, LogsDistinct
  <2>3. PICK S : log["cur"] \in Seq(S)
    BY <2>2 DEF IsSequence
  <2>4. /\ RecordsOf(log'["cur"]) = RecordsOf(log["cur"]) \cup {e}
        /\ \A i \in 1 .. Len(log["cur"]) : log'["cur"][i] = log["cur"][i]
    <3>1. log["cur"] \in Seq(S \cup {e})
      BY <2>3
    <3> QED BY <2>1, <2>2, <3>1, RecordsAppend
  <2>5. Durable \subseteq Durable'
    <3>1. ASSUME NEW f \in Generations, NEW i \in 1 .. synced[f]
          PROVE  log[f][i] \in Durable'
      <4>1. log'[f][i] = log[f][i]
        <5>1. CASE f = "cur"
          <6>1. synced["cur"] \in 0 .. Len(log["cur"]) /\ Len(log["cur"]) \in Nat
            BY <2>3 DEF WatchInv, TypeOK, Generations
          <6>2. i \in 1 .. Len(log["cur"])
            BY <3>1, <5>1, <6>1
          <6> QED BY <2>4, <5>1, <6>2
        <5>2. CASE f = "arch"
          BY <2>1, <5>2
        <5> QED BY <5>1, <5>2 DEF Generations
      <4> QED BY <1>2, <4>1 DEF Durable
    <3> QED BY <3>1, DurableRecords
  <2>6. Retained' = Retained \cup {e}
    BY <2>1, <2>4 DEF Retained
  <2>7. BatchUnsynced'
    BY <1>2, <2>1 DEF SyncedFirst, BatchUnsynced
  <2> QED BY <1>1, <1>2, <2>5, <2>6, <2>7 DEF SyncedFirst, PendingPcs
<1> QED BY <1>1, <1>3, <1>4, <1>5

\* What was synced survives a power failure, and what survives is synced.
LEMMA SyncedPowerLoss ==
    ASSUME WatchAssumption, WatchInv, SyncedFirst, PowerLoss PROVE SyncedFirst'
<1>1. /\ UNCHANGED dropped /\ pc' = "down" /\ baseDisk' = base'
      /\ \A t \in Targets : base'[t] \in {base[t], baseDisk[t]}
  BY DEF PowerLoss, Fault, Down, history
<1>2. PICK n \in [Generations -> 0 .. LogCap] :
        /\ \A f \in Generations : n[f] \in synced[f] .. Len(log[f])
        /\ log' = [f \in Generations |-> SubSeq(log[f], 1, n[f])]
        /\ synced' = n
  BY DEF PowerLoss
<1>3. ASSUME NEW f \in Generations
      PROVE  /\ Len(log'[f]) = n[f] /\ synced[f] <= n[f] /\ n[f] \in Nat /\ synced[f] \in Nat
             /\ \A i \in 1 .. n[f] : log'[f][i] = log[f][i]
  <2>1. IsSequence(log[f]) /\ Len(log[f]) \in Nat
    BY LogFits DEF WatchInv, DistinctInv, LogsDistinct, Generations
  <2>2. n[f] \in Nat /\ synced[f] \in Nat
    BY <1>2, <2>1 DEF WatchInv, TypeOK, WatchAssumption
  <2>3. n[f] \in 0 .. Len(log[f]) /\ synced[f] <= n[f]
    BY <1>2, <2>1, <2>2
  <2>4. PICK S : log[f] \in Seq(S)
    BY <2>1 DEF IsSequence
  <2>5. /\ Len(SubSeq(log[f], 1, n[f])) = n[f]
        /\ \A i \in 1 .. n[f] : SubSeq(log[f], 1, n[f])[i] = log[f][i]
    BY <2>1, <2>3, <2>4
  <2> QED BY <1>2, <2>2, <2>3, <2>5
<1>4. Durable \subseteq Durable'
  <2>1. ASSUME NEW f \in Generations, NEW i \in 1 .. synced[f]
        PROVE  log[f][i] \in Durable'
    <3>1. i \in 1 .. synced'[f]
      BY <1>2, <1>3
    <3>2. log'[f][i] = log[f][i]
      BY <1>2, <1>3, <3>1
    <3> QED BY <3>1, <3>2 DEF Durable
  <2> QED BY <2>1, DurableRecords
<1>5. BatchUnsynced'
  BY <1>2, <1>3 DEF BatchUnsynced, Generations
<1> QED BY <1>1, <1>4, <1>5 DEF SyncedFirst, PendingPcs

\* Without kills, every step preserves it: the log is synced before the rename,
\* and only a write leaves records to be synced.
LEMMA SyncedStep ==
    ASSUME WatchAssumption, "stop" \notin Failures, WatchInv, SyncedFirst, [Next]_vars
    PROVE  SyncedFirst'
<1>1. ASSUME UNCHANGED <<log, synced, base, baseDisk, dropped>>,
             pc = "write" <=> pc' = "write",
             \/ pc' \notin PendingPcs
             \/ pc \in PendingPcs /\ UNCHANGED <<next, batch>>
             \/ batch' = next'.why
      PROVE  SyncedFirst'
  BY <1>1 DEF SyncedFirst, BatchUnsynced, Durable, Retained
<1>2. CASE Open
  <2>1. /\ UNCHANGED <<log, base, baseDisk, dropped>> /\ pc = "down" /\ pc' = "inspect"
        /\ synced' = [f \in Generations |-> IF tail[f] THEN Len(log[f]) ELSE synced[f]]
    BY <1>2 DEF Open, history
  <2>2. \A f \in Generations : synced[f] = Len(log[f]) /\ synced'[f] = synced[f]
    BY <2>1 DEF SyncedFirst, BatchUnsynced, Generations
  <2>3. Durable' = Durable /\ BatchUnsynced'
    BY <2>1, <2>2 DEF Durable, BatchUnsynced, Generations
  <2> QED BY <2>1, <2>3 DEF SyncedFirst, PendingPcs
<1>3. ASSUME NEW t \in Targets, NEW s \in Sources, NEW good \in BOOLEAN, Inspect(t, s, good)
      PROVE  SyncedFirst'
  BY <1>1, <1>3 DEF Inspect, files, history, PendingPcs
<1>4. CASE Gathered
  BY <1>1, <1>4 DEF Gathered, files, history, PendingPcs
<1>5. CASE Record
  <2>1. UNCHANGED <<log, synced, base, baseDisk, dropped>> /\ pc = "record"
    BY <1>5 DEF Record, files, history
  <2>2. CASE NextTarget /\ UNCHANGED <<next, batch>>
    BY <1>1, <2>1, <2>2 DEF NextTarget, PendingPcs
  <2> DEFINE m == Merged(at, base[at], found[at])
  <2>3. CASE /\ next' = m /\ batch' = m.why
             /\ pc' = IF m.why = {} THEN "save" ELSE "append"
    <3>1. pc' # "write" /\ batch' = next'.why
      BY <2>3
    <3> QED BY <1>1, <2>1, <3>1
  <2> QED BY <1>5, <2>2, <2>3 DEF Record
<1>6. CASE SyncLog
  <2>1. /\ UNCHANGED <<log, base, baseDisk, dropped, next, batch>>
        /\ pc = "write" /\ pc' = "save"
        /\ synced' = [synced EXCEPT !["cur"] = Len(log["cur"])]
    BY <1>6 DEF SyncLog, history
  <2>2. \A f \in Generations : synced'[f] = Len(log[f])
    BY <2>1 DEF SyncedFirst, BatchUnsynced, WatchInv, TypeOK, Generations
  <2>3. BatchUnsynced'
    BY <2>1, <2>2 DEF BatchUnsynced, Generations
  <2>4. Durable \subseteq Durable'
    <3>1. ASSUME NEW f \in Generations, NEW i \in 1 .. synced[f]
          PROVE  log[f][i] \in Durable'
      <4>1. i \in 1 .. synced'[f]
        BY <2>2, LogFits DEF WatchInv, TypeOK
      <4> QED BY <2>1, <4>1 DEF Durable
    <3> QED BY <3>1, DurableRecords
  <2> QED BY <2>1, <2>3, <2>4 DEF SyncedFirst, PendingPcs, Retained
<1>7. CASE SaveRename
  <2>1. /\ UNCHANGED <<log, synced, baseDisk, dropped>> /\ batch = {}
        /\ pc = "save" /\ pc' = "saveSync"
        /\ base' = [base EXCEPT ![at] = next]
    BY <1>7 DEF SaveRename, WatchInv, PendingInv
  <2>2. next.why \subseteq Durable \cup dropped
    <3>1. Retained \subseteq Durable
      BY <2>1, SyncedIsDurable DEF Retained, SyncedFirst, BatchUnsynced, Generations
    <3>2. next.why \subseteq Retained \cup dropped
      BY <2>1 DEF SyncedFirst, PendingPcs
    <3> QED BY <3>1, <3>2
  <2>3. Durable' = Durable /\ BatchUnsynced'
    BY <2>1 DEF Durable, SyncedFirst, BatchUnsynced
  <2>4. \A t \in Targets : base'[t].why \subseteq Durable \cup dropped
    BY <2>1, <2>2 DEF SyncedFirst, WatchInv, TypeOK
  <2> QED BY <2>1, <2>3, <2>4 DEF SyncedFirst, PendingPcs
<1>8. CASE SaveSync
  <2>1. /\ UNCHANGED <<log, synced, base, dropped>>
        /\ pc = "saveSync" /\ pc' \in {"record", "inspect"}
        /\ baseDisk' = [baseDisk EXCEPT ![at] = base[at]]
    BY <1>8 DEF SaveSync, NextTarget, history
  <2>2. Durable' = Durable /\ BatchUnsynced'
    BY <2>1 DEF Durable, SyncedFirst, BatchUnsynced
  <2>3. \A t \in Targets : baseDisk'[t].why \subseteq Durable \cup dropped
    BY <2>1 DEF SyncedFirst, WatchInv, TypeOK
  <2> QED BY <2>1, <2>2, <2>3 DEF SyncedFirst, PendingPcs
<1>9. ASSUME NEW t \in Targets, NEW s \in Sources, NEW a \in Answers, Move(t, s, a)
      PROVE  SyncedFirst'
  BY <1>1, <1>9 DEF Move, files, memory, history
<1>10. ~Stop
  BY DEF Stop, Fault
<1>11. ASSUME NEW t \in Targets, Clear(t) PROVE SyncedFirst'
  <2>1. /\ UNCHANGED <<log, synced, dropped, pc>> /\ pc = "down"
        /\ base' = [base EXCEPT ![t] = NewSnapshot]
        /\ baseDisk' = [baseDisk EXCEPT ![t] = NewSnapshot]
    BY <1>11 DEF Clear, Fault, memory, history
  <2>2. Durable' = Durable /\ BatchUnsynced'
    BY <2>1 DEF Durable, SyncedFirst, BatchUnsynced
  <2>3. \A u \in Targets : base'[u].why \cup baseDisk'[u].why \subseteq Durable \cup dropped
    BY <2>1 DEF SyncedFirst, WatchInv, TypeOK, NewSnapshot
  <2> QED BY <2>1, <2>2, <2>3 DEF SyncedFirst, PendingPcs
<1>12. CASE UNCHANGED vars
  BY <1>1, <1>12 DEF vars, files, memory, history
<1> QED
  BY <1>2, <1>3, <1>4, <1>5, <1>6, <1>7, <1>8, <1>9, <1>10, <1>11, <1>12, SyncedAppendBegin,
     SyncedWriteChange, SyncedPowerLoss DEF Next

\* When only the power fails or an operator removes baselines, the changes a
\* baseline rests on were synced before it was replaced, and outlive every power
\* failure.  A kill voids this, as the run watch_synced shows: the records it left
\* in the page cache are skipped as known, and nothing syncs them.
THEOREM ChangesSyncedFirst ==
    ASSUME "stop" \notin Failures
    PROVE  Spec => []SyncedBeforeReplaced
<1> DEFINE I == WatchInv /\ SyncedFirst
<1>1. Init => I
  BY WatchInit, SyncedInit, WatchAssumption
<1>2. I /\ [Next]_vars => I'
  BY WatchStep, SyncedStep, WatchAssumption
<1>3. I => SyncedBeforeReplaced
  BY DEF SyncedFirst, SyncedBeforeReplaced
<1> HIDE DEF I
<1> QED BY <1>1, <1>2, <1>3, PTL DEF Spec

-----------------------------------------------------------------------------
(* The record agrees as long as nothing fails *)

\* No changes, nothing to apply; and nothing logged.
LEMMA ReplayNothing == ASSUME NEW E PROVE Replay({}, E) = E
  BY DEF Replay

\* No change of a comparison removes an item another one adds ...
LEMMA DiffApart ==
    ASSUME NEW old, NEW now, NEW c \in Diff(old, now), NEW d \in Diff(old, now),
           d.new # NoEvidence
    PROVE  d.new # c.old
  BY DiffItems DEF Removed, Added

\* ... and such changes may be applied one by one.
LEMMA ReplayOneMore ==
    ASSUME NEW C, NEW c, NEW E, \A d \in C : d.new # NoEvidence => d.new # c.old,
           NEW one, one = {c}, NEW more, more = C \cup {c}
    PROVE  Replay(one, Replay(C, E)) = Replay(more, E)
<1>1. ASSUME NEW x
      PROVE  x \in Replay(one, Replay(C, E)) <=> x \in Replay(more, E)
  <2>1. x \in Replay(C, E) <=>
          \/ x \in E /\ \A d \in C : d.old # x
          \/ x # NoEvidence /\ \E d \in C : d.new = x
    BY DEF Replay
  <2>2. x \in Replay(one, Replay(C, E)) <=>
          \/ x \in Replay(C, E) /\ c.old # x
          \/ x # NoEvidence /\ c.new = x
    BY DEF Replay
  <2>3. x \in Replay(more, E) <=>
          \/ x \in E /\ (\A d \in C : d.old # x) /\ c.old # x
          \/ x # NoEvidence /\ ((\E d \in C : d.new = x) \/ c.new = x)
    BY DEF Replay
  <2> QED BY <2>1, <2>2, <2>3
<1> QED BY <1>1

\* The changes of a target that are of one source are those of its comparison.
LEMMA ChangesOfSource ==
    ASSUME NEW t, NEW old, NEW good, NEW s
    PROVE  OfSource(Changes(t, old, good), s)
             = IF s \in Compared(old, good) THEN Diff(old.src[s], good[s]) ELSE {}
<1> DEFINE D == OfSource(Changes(t, old, good), s)
<1>1. ASSUME NEW x \in D
      PROVE  s \in Compared(old, good) /\ x \in Diff(old.src[s], good[s])
  <2>1. PICK e \in Changes(t, old, good) : e.source = s /\ x = e.change
    BY DEF OfSource
  <2> QED BY <2>1, ChangesShape
<1>2. ASSUME s \in Compared(old, good), NEW x \in Diff(old.src[s], good[s])
      PROVE  x \in D
  <2>1. ChangeId(t, old.rev, s, x) \in Changes(t, old, good)
    BY <1>2 DEF Changes
  <2>2. ChangeId(t, old.rev, s, x).source = s /\ ChangeId(t, old.rev, s, x).change = x
    BY DEF ChangeId
  <2> QED BY <2>1, <2>2 DEF OfSource
<1>3. D = IF s \in Compared(old, good) THEN Diff(old.src[s], good[s]) ELSE {}
  <2> HIDE DEF D
  <2>1. CASE s \in Compared(old, good)
    BY <1>1, <1>2, <2>1
  <2>2. CASE s \notin Compared(old, good)
    BY <1>1, <2>2
  <2> QED BY <2>1, <2>2
<1> QED BY <1>3

\* What a reader has applied does not change when the pending batch does not.
LEMMA RecordSame ==
    ASSUME RecordInv, UNCHANGED <<log, base, told, failures>>,
           \/ pc \notin PendingPcs /\ pc' \notin PendingPcs
           \/ pc \in PendingPcs /\ pc' \in PendingPcs /\ UNCHANGED <<at, next, batch>>
    PROVE  RecordInv'
  BY DEF RecordInv, RecordFollows, RevisionsPassed, Applied, Retained

\* A merge that becomes pending has not been applied yet.
LEMMA RecordMerged ==
    ASSUME WatchInv, RecordInv, UNCHANGED <<log, base, told, failures>>, pc \notin PendingPcs,
           batch' = next'.why
    PROVE  RecordInv'
<1> SUFFICES ASSUME failures = 0 PROVE RecordFollows' /\ RevisionsPassed'
  BY DEF RecordInv
<1>1. RecordFollows /\ RevisionsPassed
  BY DEF RecordInv
<1>2. \A s : OfSource(next'.why \ batch', s) = {}
  BY DEF OfSource
<1>3. ASSUME NEW t \in Targets, NEW s \in Sources PROVE Applied(t, s)' = Applied(t, s)
  BY <1>2, ReplayNothing DEF Applied
<1>4. RecordFollows'
  BY <1>1, <1>3 DEF RecordFollows
<1>5. RevisionsPassed'
  BY <1>1 DEF RevisionsPassed, Retained
<1> QED BY <1>4, <1>5

\* A batch too large to be written stops the monitor before anything is; a rotation
\* retains nothing more.
LEMMA RecordAppendBegin ==
    ASSUME WatchInv, RecordInv, AppendBegin PROVE RecordInv'
<1>1. /\ UNCHANGED <<base, told, at, next, batch, failures>>
      /\ pc = "append" /\ pc' \in {"write", "down"} /\ batch = next.why
  BY DEF AppendBegin, environment, WatchInv, PendingInv
<1> SUFFICES ASSUME failures = 0 PROVE RecordFollows' /\ RevisionsPassed'
  BY <1>1 DEF RecordInv
<1>2. RecordFollows /\ RevisionsPassed
  BY DEF RecordInv
<1>3. Retained' \subseteq Retained
  <2>1. CASE UNCHANGED log
    BY <2>1 DEF Retained
  <2>2. CASE log' = [arch |-> log["cur"], cur |-> <<>>]
    <3>1. log'["arch"] = log["cur"] /\ log'["cur"] = <<>>
      BY <2>2
    <3> QED BY <3>1, RecordsEmpty DEF Retained
  <2> QED BY <2>1, <2>2 DEF AppendBegin
<1>4. \A s : OfSource(next.why \ batch, s) = {}
  BY <1>1 DEF OfSource
<1>5. ASSUME NEW t \in Targets, NEW s \in Sources PROVE Applied(t, s)' = Applied(t, s)
  BY <1>1, <1>4, ReplayNothing DEF Applied, PendingPcs
<1>6. RecordFollows'
  BY <1>1, <1>2, <1>5 DEF RecordFollows
<1>7. RevisionsPassed'
  BY <1>1, <1>2, <1>3 DEF RevisionsPassed, PendingPcs
<1> QED BY <1>6, <1>7

\* A pending change is new to the log, so it is written and applied.
LEMMA RecordWriteChange ==
    ASSUME WatchAssumption, WatchInv, RecordInv, WriteChange PROVE RecordInv'
<1>1. /\ UNCHANGED <<base, pc, at, next, failures>>
      /\ pc = "write" /\ pc \in PendingPcs
  BY DEF WriteChange, environment, PendingPcs
<1> SUFFICES ASSUME failures = 0 PROVE RecordFollows' /\ RevisionsPassed'
  BY <1>1 DEF RecordInv
<1>2. RecordFollows /\ RevisionsPassed
  BY DEF RecordInv
<1>3. seen = Retained /\ tail["cur"] = FALSE
  BY <1>1 DEF WatchInv, DistinctInv, MemoryMatchesLog, TypeOK, Generations
<1>4. PICK e \in batch :
        /\ batch' = batch \ {e}
        /\ e \notin seen =>
             /\ log' = [log EXCEPT !["cur"] = Append(log["cur"], IF tail["cur"] THEN Corrupt ELSE e)]
             /\ told' = [told EXCEPT ![e.target][e.source] =
                           Replay({e.change}, told[e.target][e.source])]
  BY DEF WriteChange
<1>5. batch \subseteq next.why /\ e \in next.why
  BY <1>1, <1>4 DEF WatchInv, PendingInv
<1>6. \A d \in next.why :
        /\ d.target = at /\ d.rev = base[at].rev /\ d.source \in Sources
        /\ base[at].src[d.source] \in Answers
        /\ d.change \in Diff(base[at].src[d.source], found[at][d.source])
  BY <1>1, BatchShape
<1>7. base[at].rev \in Nat /\ at \in Targets
  BY DEF WatchInv, TypeOK, SnapshotOK
<1>8. e \notin Retained
  <2>1. ASSUME e \in Retained PROVE FALSE
    <3>1. e.rev < base[at].rev \/ e \in next.why \ batch
      BY <1>2, <1>5, <1>6, <2>1 DEF RevisionsPassed
    <3> QED BY <1>4, <1>5, <1>6, <1>7, <3>1
  <2> QED BY <2>1
<1>9. /\ log' = [log EXCEPT !["cur"] = Append(log["cur"], e)]
      /\ told' = [told EXCEPT ![at][e.source] = Replay({e.change}, told[at][e.source])]
  BY <1>3, <1>4, <1>5, <1>6, <1>8
<1>10. Retained' = Retained \cup {e}
  <2>1. log'["arch"] = log["arch"] /\ log'["cur"] = Append(log["cur"], e)
    BY <1>9 DEF WatchInv, TypeOK, Generations
  <2>2. IsSequence(log["cur"])
    BY DEF WatchInv, DistinctInv, LogsDistinct
  <2> QED BY <2>1, <2>2, RecordsAppend DEF Retained
<1>11. RevisionsPassed'
  BY <1>1, <1>2, <1>4, <1>5, <1>6, <1>7, <1>10 DEF RevisionsPassed
<1>12. ASSUME NEW t \in Targets, NEW s \in Sources, base[t].src[s] # NoAnswer
       PROVE  told'[t][s] = Applied(t, s)'
  <2>1. told[t][s] = Applied(t, s)
    BY <1>2, <1>12 DEF RecordFollows
  <2>2. told \in [Targets -> [Sources -> SUBSET Evidences]]
    BY DEF WatchInv, TypeOK
  <2>3. CASE t # at
    <3>1. told'[t][s] = told[t][s]
      BY <1>7, <1>9, <2>2, <2>3
    <3>2. Applied(t, s) = base[t].src[s].ev /\ Applied(t, s)' = base[t].src[s].ev
      BY <1>1, <2>3 DEF Applied
    <3> QED BY <2>1, <3>1, <3>2
  <2>4. CASE t = at /\ s # e.source
    <3>1. told'[t][s] = told[t][s]
      BY <1>6, <1>5, <1>7, <1>9, <2>2, <2>4
    <3>2. OfSource(next.why \ batch', s) = OfSource(next.why \ batch, s)
      <4>1. {d \in next.why \ batch' : d.source = s} = {d \in next.why \ batch : d.source = s}
        BY <1>4, <2>4
      <4> QED BY <4>1 DEF OfSource
    <3>3. Applied(t, s)' = Applied(t, s)
      BY <1>1, <3>2 DEF Applied
    <3> QED BY <2>1, <3>1, <3>3
  <2>5. CASE t = at /\ s = e.source
    <3> DEFINE old == base[at].src[s]
               now == found[at][s]
    <3>1. told'[t][s] = Replay({e.change}, told[t][s])
      BY <1>7, <1>9, <2>2, <2>5
    <3>2. told[t][s] = Replay(OfSource(next.why \ batch, s), old.ev)
      BY <1>1, <2>1, <2>5 DEF Applied
    <3>3. OfSource(next.why \ batch', s) = OfSource(next.why \ batch, s) \cup {e.change}
      <4>1. {d \in next.why \ batch' : d.source = s}
              = {d \in next.why \ batch : d.source = s} \cup {e}
        BY <1>4, <1>5, <2>5
      <4> QED BY <4>1 DEF OfSource
    <3>4. Applied(t, s)' = Replay(OfSource(next.why \ batch', s), old.ev)
      BY <1>1, <2>5 DEF Applied
    <3>5. OfSource(next.why \ batch, s) \in SUBSET Diff(old, now)
      BY <1>6, <2>5 DEF OfSource
    <3>6. e.change \in Diff(old, now)
      BY <1>5, <1>6, <2>5
    <3>7. \A d \in OfSource(next.why \ batch, s) : d.new # NoEvidence => d.new # e.change.old
      BY <3>5, <3>6, DiffApart
    <3>8. Replay({e.change}, Replay(OfSource(next.why \ batch, s), old.ev))
            = Replay(OfSource(next.why \ batch', s), old.ev)
      <4>1. PICK c, one, C, more, E : /\ c = e.change /\ one = {c} /\ E = old.ev
                                      /\ C = OfSource(next.why \ batch, s)
                                      /\ more = OfSource(next.why \ batch', s)
        OBVIOUS
      <4>2. /\ one = {c} /\ more = C \cup {c}
            /\ \A d \in C : d.new # NoEvidence => d.new # c.old
        BY <3>3, <3>7, <4>1
      <4>3. Replay(one, Replay(C, E)) = Replay(more, E)
        BY ONLY <4>2, ReplayOneMore
      <4> QED BY <4>1, <4>3
    <3> QED BY <3>1, <3>2, <3>4, <3>8
  <2> QED BY <2>3, <2>4, <2>5
<1>13. RecordFollows'
  BY <1>1, <1>12 DEF RecordFollows
<1> QED BY <1>11, <1>13

\* Applied as a whole, the changes turn the replaced baseline into the new one,
\* whose revision all records have passed.
LEMMA RecordSaveRename ==
    ASSUME WatchAssumption, WatchInv, RecordInv, SaveRename PROVE RecordInv'
<1>1. /\ UNCHANGED <<log, at, next, failures>>
      /\ pc = "save" /\ pc' = "saveSync" /\ pc \in PendingPcs /\ pc' \notin PendingPcs
      /\ base' = [base EXCEPT ![at] = next]
      /\ told' = [told EXCEPT ![at] =
                   [s \in Sources |-> IF base[at].src[s] = NoAnswer /\ next.src[s] # NoAnswer
                                      THEN next.src[s].ev ELSE told[at][s]]]
  BY DEF SaveRename, environment, PendingPcs
<1> SUFFICES ASSUME failures = 0 PROVE RecordFollows' /\ RevisionsPassed'
  BY <1>1 DEF RecordInv
<1>2. RecordFollows /\ RevisionsPassed
  BY DEF RecordInv
<1>3. /\ next = Merged(at, base[at], found[at]) /\ next.src # base[at].src /\ batch = {}
      /\ next.why = Changes(at, base[at], found[at])
      /\ next.src = MergedSources(base[at], found[at])
      /\ next.rev = base[at].rev + 1 /\ base[at].rev \in Nat
  BY <1>1 DEF WatchInv, PendingInv, Merged, MergedRevision, TypeOK, SnapshotOK
<1>4. /\ at \in Targets /\ DOMAIN base[at].src = Sources /\ DOMAIN base = Targets
      /\ base[at].src \in [Sources -> Answers \cup {NoAnswer}]
      /\ found[at] \in [Sources -> Answers \cup {NoAnswer}]
      /\ told \in [Targets -> [Sources -> SUBSET Evidences]]
  BY DEF WatchInv, TypeOK, SnapshotOK
<1>5. base'[at] = next /\ \A t \in Targets \ {at} : base'[t] = base[t]
  BY <1>1, <1>4
<1>6. RevisionsPassed'
  <2>0. \A r, n \in Nat : r < n => r < n + 1
    OBVIOUS
  <2>1. \A e \in next.why : e.target = at /\ e.rev = base[at].rev
    BY <1>1, BatchShape
  <2>2. \A e \in Retained :
           e.target \in Targets /\ e.rev \in Nat /\ e.rev < base'[e.target].rev
    <3>1. ASSUME NEW e \in Retained, e.rev < base[e.target].rev, e.target \in Targets
          PROVE  e.rev < base'[e.target].rev
      <4>1. CASE e.target = at
        <5>1. /\ e.rev < base[at].rev /\ base'[e.target].rev = base[at].rev + 1
              /\ e.rev \in Nat
          BY <1>2, <1>3, <1>5, <3>1, <4>1 DEF RevisionsPassed
        <5> QED BY <1>3, <2>0, <5>1
      <4>2. CASE e.target # at
        BY <1>5, <3>1, <4>2
      <4> QED BY <4>1, <4>2
    <3>2. ASSUME NEW e \in Retained, e \in next.why \ batch
          PROVE  e.rev < base'[e.target].rev
      BY <1>3, <1>5, <2>1, <3>2
    <3> QED BY <1>2, <3>1, <3>2 DEF RevisionsPassed
  <2> QED BY <1>1, <2>2 DEF RevisionsPassed, Retained
<1>7. ASSUME NEW t \in Targets, NEW s \in Sources, base'[t].src[s] # NoAnswer
      PROVE  told'[t][s] = base'[t].src[s].ev
  <2>1. CASE t # at
    <3>1. told'[t][s] = told[t][s] /\ base'[t] = base[t]
      BY <1>1, <1>4, <1>5, <2>1
    <3> QED BY <1>2, <1>7, <2>1, <3>1 DEF RecordFollows, Applied
  <2>2. CASE t = at
    <3>1. /\ next.src[s] # NoAnswer
          /\ next.src[s] = IF found[at][s] = NoAnswer THEN base[at].src[s] ELSE found[at][s]
      BY <1>3, <1>4, <1>5, <1>7, <2>2 DEF MergedSources
    <3>2. CASE base[at].src[s] = NoAnswer
      BY <1>1, <1>4, <1>5, <2>2, <3>1, <3>2
    <3>3. CASE base[at].src[s] # NoAnswer
      <4>1. told'[t][s] = told[t][s]
        BY <1>1, <1>4, <2>2, <3>3
      <4>2. told[t][s]
              = Replay(OfSource(next.why, s), base[at].src[s].ev)
        <5>1. next.why \ batch = next.why
          BY <1>3
        <5> QED BY <1>1, <1>2, <2>2, <3>3, <5>1 DEF RecordFollows, Applied
      <4>3. OfSource(next.why, s) = IF s \in Compared(base[at], found[at])
                                    THEN Diff(base[at].src[s], found[at][s]) ELSE {}
        BY <1>3, ChangesOfSource
      <4>4. CASE found[at][s] = NoAnswer
        <5>1. s \notin Compared(base[at], found[at])
          BY <4>4 DEF Compared
        <5> QED BY <1>5, <2>2, <3>1, <4>1, <4>2, <4>3, <4>4, <5>1, ReplayNothing
      <4>5. CASE found[at][s] # NoAnswer
        <5>1. s \in Compared(base[at], found[at])
          BY <1>4, <3>3, <4>5 DEF Compared
        <5>2. NoEvidence \notin base[at].src[s].ev /\ NoEvidence \notin found[at][s].ev
          BY <1>4, <3>3, <4>5 DEF WatchAssumption
        <5>3. Replay(Diff(base[at].src[s], found[at][s]), base[at].src[s].ev) = found[at][s].ev
          BY <5>2, DiffIsExact
        <5> QED BY <1>5, <2>2, <3>1, <4>1, <4>2, <4>3, <4>5, <5>1, <5>3
      <4> QED BY <4>4, <4>5
    <3> QED BY <3>2, <3>3
  <2> QED BY <2>1, <2>2
<1>8. RecordFollows'
  BY <1>1, <1>7 DEF RecordFollows, Applied
<1> QED BY <1>6, <1>8

\* No step without a fault makes the record disagree.
LEMMA RecordStep ==
    ASSUME WatchAssumption, WatchInv, RecordInv, [Next]_vars PROVE RecordInv'
<1>1. ASSUME NEW kind, Fault(kind) PROVE RecordInv'
  <2>1. failures \in Nat /\ failures' = failures + 1
    BY <1>1 DEF Fault, WatchInv, TypeOK
  <2> QED BY <2>1 DEF RecordInv
<1>2. CASE Open
  BY <1>2, RecordSame DEF Open, environment, history, PendingPcs
<1>3. ASSUME NEW t \in Targets, NEW s \in Sources, NEW good \in BOOLEAN, Inspect(t, s, good)
      PROVE  RecordInv'
  BY <1>3, RecordSame DEF Inspect, files, environment, history, PendingPcs
<1>4. CASE Gathered
  BY <1>4, RecordSame DEF Gathered, files, environment, history, PendingPcs
<1>5. CASE Record
  <2>1. UNCHANGED <<log, base, told, failures>> /\ pc \notin PendingPcs
    BY <1>5 DEF Record, files, environment, history, PendingPcs
  <2>2. CASE NextTarget
    BY <2>1, <2>2, RecordSame DEF NextTarget, PendingPcs
  <2>3. CASE batch' = next'.why
    BY <2>1, <2>3, RecordMerged
  <2> QED BY <1>5, <2>2, <2>3 DEF Record
<1>6. CASE SyncLog
  BY <1>6, RecordSame DEF SyncLog, environment, history, PendingPcs
<1>7. CASE SaveSync
  BY <1>7, RecordSame DEF SaveSync, NextTarget, environment, history, PendingPcs
<1>8. ASSUME NEW t \in Targets, NEW s \in Sources, NEW a \in Answers, Move(t, s, a)
      PROVE  RecordInv'
  BY <1>8, RecordSame DEF Move, files, memory, history
<1>9. CASE Stop \/ PowerLoss \/ \E t \in Targets : Clear(t)
  BY <1>1, <1>9 DEF Stop, PowerLoss, Clear
<1>10. CASE UNCHANGED vars
  BY <1>10, RecordSame DEF vars, files, memory, environment, history
<1> QED
  BY <1>2, <1>3, <1>4, <1>5, <1>6, <1>7, <1>8, <1>9, <1>10, RecordAppendBegin,
     RecordWriteChange, RecordSaveRename DEF Next

\* As long as nothing fails, a reader who applies the change records in their order
\* to the first answers arrives at the baselines, between any two cycles: across
\* rotations, failing sources and values that return.
THEOREM RecordIsExact == Spec => []UninterruptedRecord
<1> DEFINE I == WatchInv /\ RecordInv
<1>1. Init => I
  <2>1. Init => WatchInv
    BY WatchInit, WatchAssumption
  <2>2. Init => RecordFollows
    BY DEF Init, RecordFollows, NewSnapshot, NoSources
  <2>3. Init => RevisionsPassed
    BY RecordsEmpty DEF Init, RevisionsPassed, Retained, Generations
  <2> QED BY <2>1, <2>2, <2>3 DEF RecordInv
<1>2. I /\ [Next]_vars => I'
  BY WatchStep, RecordStep, WatchAssumption
<1>3. I => UninterruptedRecord
  BY DEF RecordInv, RecordFollows, Applied, PendingPcs, UninterruptedRecord, RecordAgrees
<1> HIDE DEF I
<1> QED BY <1>1, <1>2, <1>3, PTL DEF Spec
=============================================================================
