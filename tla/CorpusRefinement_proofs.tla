----------------------- MODULE CorpusRefinement_proofs -----------------------
(* The password database keeps what AbstractCorpus promises: no step but a    *)
(* power failure takes the selection back, an acknowledged activation         *)
(* survives one, and without them every step is one of the abstract corpus.   *)
EXTENDS CorpusActivation_proofs

-----------------------------------------------------------------------------
(* What a write of a slot does to the selection *)

\* No valid slot is newer than the selection.
LEMMA BestSeqBounds ==
    ASSUME NEW s \in [Slots -> SlotValue]
    PROVE  /\ BestSeq(s) \in Nat
           /\ \A i \in Slots : Valid(s[i]) => s[i].seq <= BestSeq(s)
<1>1. s[0] \in SlotValue /\ s[1] \in SlotValue
  BY DEF Slots
<1>2. s[0].seq \in Nat /\ s[1].seq \in Nat
  BY <1>1, SlotValueShape DEF Seqs
<1>3. CASE Best(s) = -1
  BY <1>3 DEF Best, BestSeq, Slots
<1>4. CASE Best(s) = 0
  BY <1>2, <1>4 DEF Best, BestSeq, Slots
<1>5. CASE Best(s) = 1
  BY <1>2, <1>5 DEF Best, BestSeq, Slots
<1>6. QED
  BY <1>3, <1>4, <1>5, BestIsValid

\* A complete write of the planned record selects it, one sequence further.
LEMMA PublishSelects ==
    ASSUME NEW s \in [Slots -> SlotValue], NEW g \in Gens, NextPlan(s).seq # 0,
           NEW t, t = [s EXCEPT ![NextPlan(s).slot] = Record(NextPlan(s).seq, g)]
    PROVE  /\ Selected(t) = g
           /\ BestSeq(t) = NextPlan(s).seq
           /\ NextPlan(s).seq = BestSeq(s) + 1
<1>1. s[0] \in SlotValue /\ s[1] \in SlotValue
  BY DEF Slots
<1>2. s[0].seq \in Seqs /\ s[1].seq \in Seqs
  BY <1>1, SlotValueShape
<1>3. Seqs \subseteq Nat
  BY DEF Seqs
<1>9. \A n, k : n \in Nat /\ k = n + 1 => k > n /\ ~(n > k)
  OBVIOUS
<1> DEFINE v == Record(NextPlan(s).seq, g)
<1>4. Valid(v) /\ v.seq = NextPlan(s).seq /\ v.gen = g
  BY DEF Valid, Record
<1>5. CASE Best(s) = -1
  <2>1. NextPlan(s).slot = 0 /\ NextPlan(s).seq = 1 /\ ~Valid(s[1]) /\ BestSeq(s) = 0
    BY <1>5 DEF NextPlan, Best, BestSeq
  <2>2. t[0] = v /\ t[1] = s[1]
    BY <2>1 DEF Slots
  <2> HIDE DEF v
  <2>3. Best(t) = 0
    BY <1>4, <2>1, <2>2 DEF Best
  <2>4. QED
    BY <1>4, <2>1, <2>2, <2>3 DEF Selected, BestSeq
<1>6. CASE Best(s) = 0
  <2>1. NextPlan(s).slot = 1 /\ NextPlan(s).seq = (s[0].seq + 1) % SeqMod /\ BestSeq(s) = s[0].seq
    BY <1>6 DEF NextPlan, BestSeq
  <2>2. NextPlan(s).seq = s[0].seq + 1
    BY <1>2, <2>1, WrappedSuccessor
  <2>3. t[1] = v /\ t[0] = s[0]
    BY <2>1 DEF Slots
  <2> HIDE DEF v
  <2>4. Best(t) = 1
    <3>1. v.seq > s[0].seq
      BY <1>2, <1>3, <1>4, <1>9, <2>2
    <3>2. QED
      BY <1>4, <2>3, <3>1 DEF Best
  <2>5. QED
    BY <1>4, <2>1, <2>2, <2>3, <2>4 DEF Selected, BestSeq
<1>7. CASE Best(s) = 1
  <2>1. NextPlan(s).slot = 0 /\ NextPlan(s).seq = (s[1].seq + 1) % SeqMod /\ BestSeq(s) = s[1].seq
    BY <1>7 DEF NextPlan, BestSeq
  <2>2. NextPlan(s).seq = s[1].seq + 1
    BY <1>2, <2>1, WrappedSuccessor
  <2>3. t[0] = v /\ t[1] = s[1]
    BY <2>1 DEF Slots
  <2> HIDE DEF v
  <2>4. Best(t) = 0
    <3>1. ~(s[1].seq > v.seq)
      BY <1>2, <1>3, <1>4, <1>9, <2>2
    <3>2. QED
      BY <1>4, <2>3, <3>1 DEF Best
  <2>5. QED
    BY <1>4, <2>1, <2>2, <2>3, <2>4 DEF Selected, BestSeq
<1>8. QED
  BY <1>5, <1>6, <1>7, BestIsValid

\* A write that stops half way leaves the selection where it was.
LEMMA TearKeeps ==
    ASSUME NEW s \in [Slots -> SlotValue], NEW t, t = [s EXCEPT ![NextPlan(s).slot] = Torn]
    PROVE  Selected(t) = Selected(s) /\ BestSeq(t) = BestSeq(s)
<1>1. ~Valid(Torn)
  BY DEF Valid, Torn
<1>2. CASE Best(s) = -1
  <2>1. NextPlan(s).slot = 0 /\ ~Valid(s[1])
    BY <1>2 DEF NextPlan, Best
  <2>2. t[0] = Torn /\ t[1] = s[1]
    BY <2>1 DEF Slots
  <2>3. Best(t) = -1
    BY <1>1, <2>1, <2>2 DEF Best
  <2>4. QED
    BY <1>2, <2>3 DEF Selected, BestSeq
<1>3. CASE Best(s) = 0
  <2>1. NextPlan(s).slot = 1 /\ Valid(s[0])
    BY <1>3 DEF NextPlan, Best
  <2>2. t[1] = Torn /\ t[0] = s[0]
    BY <2>1 DEF Slots
  <2>3. Best(t) = 0
    BY <1>1, <2>1, <2>2 DEF Best
  <2>4. QED
    BY <1>3, <2>2, <2>3 DEF Selected, BestSeq
<1>4. CASE Best(s) = 1
  <2>1. NextPlan(s).slot = 0 /\ Valid(s[1])
    BY <1>4 DEF NextPlan, Best
  <2>2. t[0] = Torn /\ t[1] = s[1]
    BY <2>1 DEF Slots
  <2>3. Best(t) = 1
    BY <1>1, <2>1, <2>2 DEF Best
  <2>4. QED
    BY <1>4, <2>2, <2>3 DEF Selected, BestSeq
<1>5. QED
  BY <1>2, <1>3, <1>4, BestIsValid

-----------------------------------------------------------------------------
(* The gate keeps the slots still *)

\* Only an activation, by its write or its sync, and a power failure change the
\* slots, what is synced of them or what is acknowledged.
LEMMA SlotWriters ==
    ASSUME [Next]_vars
    PROVE  \/ UNCHANGED <<slot, disk, acked>>
           \/ PowerLoss
           \/ \E m \in Maintainers :
                ActivateWrite(m) \/ ActivateTear(m) \/ (ActivateSync(m) /\ UNCHANGED slot)
<1>1. CASE UNCHANGED vars
  BY <1>1 DEF vars
<1>2. ASSUME NEW m \in Maintainers, ImportStep(m)
      PROVE  UNCHANGED <<slot, disk, acked>>
  BY <1>2 DEF ImportStep, ImportBegin, ImportLease, ImportPayload, ImportSeal, ImportAbort
<1>3. ASSUME NEW m \in Maintainers, VerifyStep(m)
      PROVE  UNCHANGED <<slot, disk, acked>>
  BY <1>3 DEF VerifyStep, VerifyBegin, VerifyGate, VerifyLease, VerifyScrub, store
<1>4. ASSUME NEW m \in Maintainers, ActivateStep(m)
      PROVE  \/ UNCHANGED <<slot, disk, acked>>
             \/ ActivateWrite(m) \/ ActivateTear(m) \/ (ActivateSync(m) /\ UNCHANGED slot)
  <2>1. CASE ActivateBegin(m) \/ ActivateGate(m) \/ ActivateRead(m)
    BY <2>1 DEF ActivateBegin, ActivateGate, ActivateRead, store
  <2>2. CASE ActivateSync(m)
    <3>1. UNCHANGED slot
      BY <2>2 DEF ActivateSync
    <3>2. QED
      BY <2>2, <3>1
  <2>3. QED
    BY <1>4, <2>1, <2>2 DEF ActivateStep
<1>5. ASSUME NEW m \in Maintainers, PruneStep(m)
      PROVE  UNCHANGED <<slot, disk, acked>>
  BY <1>5 DEF PruneStep, PruneBegin, PruneGate, PruneRead, PruneSkip, PruneSelect, PruneUnlink,
              PruneRmdir, PruneDone, store
<1>6. ASSUME NEW r \in Readers, OpenStep(r)
      PROVE  UNCHANGED <<slot, disk, acked>>
  BY <1>6 DEF OpenStep, OpenGate, OpenRead, OpenLease, OpenLoad, Close, store
<1>7. QED
  BY <1>1, <1>2, <1>3, <1>4, <1>5, <1>6, StepCases DEF store

\* How a process comes to a step that relies on its reading of the slots.
CameCurrent(q) ==
    /\ pc'[q] = "activateWrite" =>
         \/ pc[q] = "activateWrite" /\ plan'[q] = plan[q]
         \/ plan'[q] = NextPlan(slot) /\ UNCHANGED slot
    /\ pc'[q] = "activateSync" =>
         \/ pc[q] = "activateSync" /\ plan'[q] = plan[q]
         \/ ActivateWrite(q)
    /\ pc'[q] = "openLease" =>
         \/ pc[q] = "openLease" /\ gen'[q] = gen[q]
         \/ gen'[q] = Selected(slot) /\ UNCHANGED slot

\* Plans are made by ActivateRead, written by ActivateWrite; OpenRead selects.
LEMMA StepCurrent ==
    ASSUME TypeOK, [Next]_vars
    PROVE  \A q \in Procs : CameCurrent(q)
<1>0. /\ Maintainers \subseteq Procs /\ Readers \subseteq Procs
      /\ pc \in [Procs -> PcValue] /\ gen \in [Procs -> Gens \cup {NoGen}]
      /\ plan \in [Procs -> Plan]
  BY DEF TypeOK, Procs
<1>2. ASSUME NEW p \in Procs, NEW to, pc' = [pc EXCEPT ![p] = to],
             to \notin {"activateWrite", "activateSync", "openLease"},
             \A q \in Procs : q # p => gen'[q] = gen[q] /\ plan'[q] = plan[q]
      PROVE  \A q \in Procs : CameCurrent(q)
  BY <1>0, <1>2 DEF CameCurrent
<1>3. ASSUME NEW p \in Procs, Drop(p)
      PROVE  \A q \in Procs : CameCurrent(q)
  BY <1>0, <1>2, <1>3 DEF Drop
<1>4. ASSUME NEW m \in Maintainers, ImportStep(m)
      PROVE  \A q \in Procs : CameCurrent(q)
  <2>1. CASE ImportBegin(m) \/ ImportLease(m) \/ ImportPayload(m)
    BY <1>0, <1>2, <2>1 DEF ImportBegin, ImportLease, ImportPayload, Goto
  <2>2. CASE ImportSeal(m) \/ ImportAbort(m)
    BY <1>0, <1>3, <2>2 DEF ImportSeal, ImportAbort
  <2>3. QED
    BY <1>4, <2>1, <2>2 DEF ImportStep
<1>5. ASSUME NEW m \in Maintainers, VerifyStep(m)
      PROVE  \A q \in Procs : CameCurrent(q)
  <2>1. CASE VerifyBegin(m) \/ VerifyGate(m) \/ VerifyLease(m)
    BY <1>0, <1>2, <2>1 DEF VerifyBegin, VerifyGate, VerifyLease, Goto
  <2>2. CASE VerifyScrub(m)
    BY <1>0, <1>3, <2>2 DEF VerifyScrub
  <2>3. QED
    BY <1>5, <2>1, <2>2 DEF VerifyStep
<1>6. ASSUME NEW m \in Maintainers, ActivateStep(m)
      PROVE  \A q \in Procs : CameCurrent(q)
  <2>1. CASE ActivateBegin(m) \/ ActivateGate(m)
    BY <1>0, <1>2, <2>1 DEF ActivateBegin, ActivateGate, Goto
  <2>2. CASE ActivateRead(m)
    <3>1. \A q \in Procs : q # m => pc'[q] = pc[q] /\ gen'[q] = gen[q] /\ plan'[q] = plan[q]
      BY <1>0, <2>2 DEF ActivateRead, Goto
    <3>2. pc'[m] = "activateWrite" /\ plan'[m] = NextPlan(slot) /\ UNCHANGED slot
      BY <1>0, <2>2 DEF ActivateRead, Goto, store
    <3>3. QED
      BY <3>1, <3>2 DEF CameCurrent
  <2>3. CASE ActivateWrite(m)
    <3>1. \A q \in Procs : q # m => pc'[q] = pc[q] /\ gen'[q] = gen[q] /\ plan'[q] = plan[q]
      BY <1>0, <2>3 DEF ActivateWrite, Goto
    <3>2. pc'[m] = "activateSync"
      BY <1>0, <2>3 DEF ActivateWrite, Goto
    <3>3. QED
      BY <2>3, <3>1, <3>2 DEF CameCurrent
  <2>4. CASE ActivateTear(m) \/ ActivateSync(m)
    BY <1>0, <1>3, <2>4 DEF ActivateTear, ActivateSync
  <2>5. QED
    BY <1>6, <2>1, <2>2, <2>3, <2>4 DEF ActivateStep
<1>7. ASSUME NEW m \in Maintainers, PruneStep(m)
      PROVE  \A q \in Procs : CameCurrent(q)
  <2>1. CASE PruneBegin(m) \/ PruneGate(m) \/ PruneRead(m) \/ PruneSelect(m) \/ PruneRmdir(m)
    BY <1>0, <1>2, <2>1 DEF PruneBegin, PruneGate, PruneRead, PruneSelect, PruneRmdir, Goto
  <2>2. CASE PruneSkip(m) \/ PruneUnlink(m)
    BY <2>2 DEF PruneSkip, PruneUnlink, locals, CameCurrent
  <2>3. CASE PruneDone(m)
    BY <1>0, <1>3, <2>3 DEF PruneDone
  <2>4. QED
    BY <1>7, <2>1, <2>2, <2>3 DEF PruneStep
<1>8. ASSUME NEW r \in Readers, OpenStep(r)
      PROVE  \A q \in Procs : CameCurrent(q)
  <2>1. CASE OpenGate(r) \/ OpenLease(r) \/ OpenLoad(r)
    BY <1>0, <1>2, <2>1 DEF OpenGate, OpenLease, OpenLoad, Goto
  <2>2. CASE OpenRead(r)
    <3>1. \A q \in Procs : q # r => pc'[q] = pc[q] /\ gen'[q] = gen[q] /\ plan'[q] = plan[q]
      BY <1>0, <2>2 DEF OpenRead, Goto
    <3>2. pc'[r] = "openLease" /\ gen'[r] = Selected(slot) /\ UNCHANGED slot
      BY <1>0, <2>2 DEF OpenRead, Goto, store
    <3>3. QED
      BY <3>1, <3>2 DEF CameCurrent
  <2>3. CASE Close(r)
    BY <1>0, <1>3, <2>3 DEF Close
  <2>4. QED
    BY <1>8, <2>1, <2>2, <2>3 DEF OpenStep
<1>9. CASE PowerLoss
  BY <1>9 DEF PowerLoss, CameCurrent
<1>10. CASE UNCHANGED vars
  BY <1>10 DEF vars, CameCurrent
<1>11. QED
  BY <1>3, <1>4, <1>5, <1>6, <1>7, <1>8, <1>9, <1>10, StepCases

\* What was read of the slots under the gate is still so when it is used.
LEMMA CurrentStep ==
    ASSUME TypeOK, WorkInv, GateInv, CurrentInv, [Next]_vars
    PROVE  CurrentInv'
<1>0. /\ \A q \in Procs : CameCurrent(q)
      /\ Maintainers \subseteq Procs /\ pc \in [Procs -> PcValue]
  BY StepCurrent DEF TypeOK, Procs
<1>1. ASSUME NEW m \in Maintainers, ActivateWrite(m) \/ ActivateTear(m)
      PROVE  /\ m \in Procs /\ pc[m] = "activateWrite" /\ pc'[m] # "activateWrite"
             /\ \A q \in Procs : pc[q] \in {"activateWrite", "activateSync"} => q = m
             /\ \A q \in Procs : pc[q] # "openLease"
  <2>1. m \in Procs /\ pc[m] = "activateWrite" /\ pc'[m] # "activateWrite"
    BY <1>0, <1>1 DEF ActivateWrite, ActivateTear, Goto, Drop
  <2>2. QED
    BY <2>1 DEF GateInv, GateExPcs, GateShPcs
<1>2. ASSUME NEW q \in Procs, pc'[q] # "idle"
      PROVE  ~PowerLoss
  BY <1>2 DEF PowerLoss
<1>3. ASSUME NEW q \in Procs, pc'[q] = "activateWrite"
      PROVE  plan'[q] = NextPlan(slot')
  <2>1. CASE pc[q] = "activateWrite" /\ plan'[q] = plan[q]
    <3>1. UNCHANGED slot
      BY <1>1, <1>2, <1>3, <2>1, SlotWriters
    <3>2. QED
      BY <2>1, <3>1 DEF CurrentInv, PlanCurrent
  <2>2. QED
    BY <1>0, <1>3, <2>1 DEF CameCurrent
<1>4. ASSUME NEW q \in Procs, pc'[q] = "activateSync"
      PROVE  Valid(slot'[plan'[q].slot]) /\ slot'[plan'[q].slot].seq = plan'[q].seq
  <2>1. CASE pc[q] = "activateSync" /\ plan'[q] = plan[q]
    <3>1. UNCHANGED slot
      BY <1>1, <1>2, <1>4, <2>1, SlotWriters
    <3>2. QED
      BY <2>1, <3>1 DEF CurrentInv, WriteCurrent
  <2>2. CASE ActivateWrite(q)
    <3>1. slot'[plan[q].slot] = Record(plan[q].seq, gen[q]) /\ UNCHANGED plan
      BY <2>2 DEF ActivateWrite, TypeOK, Plan
    <3>2. QED
      BY <3>1 DEF Record, Valid
  <2>3. QED
    BY <1>0, <1>4, <2>1, <2>2 DEF CameCurrent
<1>5. ASSUME NEW q \in Procs, pc'[q] = "openLease"
      PROVE  gen'[q] = Selected(slot')
  <2>1. CASE pc[q] = "openLease" /\ gen'[q] = gen[q]
    <3>1. UNCHANGED slot
      BY <1>1, <1>2, <1>5, <2>1, SlotWriters
    <3>2. QED
      BY <2>1, <3>1 DEF CurrentInv, PinCurrent
  <2>2. QED
    BY <1>0, <1>5, <2>1 DEF CameCurrent
<1>6. QED
  BY <1>3, <1>4, <1>5 DEF CurrentInv, PlanCurrent, WriteCurrent, PinCurrent

\* A step changes the selection only by publishing the next record.
LEMMA StepSelection ==
    ASSUME TypeOK, WorkInv, PlanParity, CurrentInv, [Next]_vars
    PROVE  \/ PowerLoss
           \/ Selected(slot') = Selected(slot) /\ BestSeq(slot') = BestSeq(slot)
           \/ \E m \in Maintainers :
                /\ ActivateWrite(m) /\ Selected(slot') = gen[m]
                /\ BestSeq(slot') = BestSeq(slot) + 1
<1>0. Maintainers \subseteq Procs /\ slot \in [Slots -> SlotValue]
  BY DEF TypeOK, Procs
<1>1. ASSUME NEW m \in Maintainers, pc[m] = "activateWrite"
      PROVE  gen[m] \in Gens /\ plan[m] = NextPlan(slot) /\ NextPlan(slot).seq # 0
  BY <1>0, <1>1 DEF WorkInv, WorkPcs, ActivatePcs, CurrentInv, PlanCurrent, PlanParity
<1>2. ASSUME NEW m \in Maintainers, ActivateWrite(m)
      PROVE  Selected(slot') = gen[m] /\ BestSeq(slot') = BestSeq(slot) + 1
  <2>1. gen[m] \in Gens /\ plan[m] = NextPlan(slot) /\ NextPlan(slot).seq # 0
    BY <1>1, <1>2 DEF ActivateWrite, Goto
  <2>2. slot' = [slot EXCEPT ![NextPlan(slot).slot] = Record(NextPlan(slot).seq, gen[m])]
    BY <1>2, <2>1 DEF ActivateWrite
  <2>3. QED
    BY <1>0, <2>1, <2>2, PublishSelects
<1>3. ASSUME NEW m \in Maintainers, ActivateTear(m)
      PROVE  Selected(slot') = Selected(slot) /\ BestSeq(slot') = BestSeq(slot)
  <2>1. slot' = [slot EXCEPT ![NextPlan(slot).slot] = Torn]
    BY <1>1, <1>3 DEF ActivateTear
  <2>2. QED
    BY <1>0, <2>1, TearKeeps
<1>4. QED
  BY <1>2, <1>3, SlotWriters

-----------------------------------------------------------------------------
(* Durability *)

\* A slot is written where it is not selected, so while one slot is uncut the
\* acknowledged record, or a later one, is in an uncut slot.
LEMMA DurableStep ==
    ASSUME TypeOK, WorkInv, PlanParity, CurrentInv, DurableInv, [Next]_vars
    PROVE  DurableInv'
<1>0. /\ Maintainers \subseteq Procs
      /\ slot \in [Slots -> SlotValue] /\ disk \in [Slots -> SlotValue] /\ acked \in Nat
  BY DEF TypeOK, Procs, Seqs
<1>1. BestSeq(slot) \in Nat /\ \A i \in Slots : disk[i].seq \in Nat /\ slot[i].seq \in Nat
  BY <1>0, BestSeqBounds, SlotValueShape DEF Seqs
<1>2. CASE UNCHANGED <<slot, disk, acked>>
  BY <1>2 DEF DurableInv, SyncedInv, AckedInv, Cut
<1>3. ASSUME NEW m \in Maintainers, NEW v, NEW k, k = plan[m].slot,
             pc[m] = "activateWrite", slot' = [slot EXCEPT ![k] = v],
             v = Torn \/ v = Record(plan[m].seq, gen[m]), UNCHANGED <<disk, acked>>,
             BestSeq(slot') = BestSeq(slot) \/ BestSeq(slot') = BestSeq(slot) + 1
      PROVE  DurableInv'
  <2>1. plan[m] = NextPlan(slot) /\ NextPlan(slot).seq # 0 /\ k \in Slots /\ gen[m] \in Gens
    BY <1>0, <1>3, NextPlanType DEF CurrentInv, PlanCurrent, PlanParity, Plan,
                                   WorkInv, WorkPcs, ActivatePcs
  <2>2. NextPlan(slot).seq = BestSeq(slot) + 1
    BY <1>0, <2>1, PublishSelects
  <2>3. Valid(disk[k]) => disk[k].seq <= BestSeq(slot)
    BY <2>1 DEF DurableInv, SyncedInv
  <2>4. v = Torn \/ v # disk[k]
    <3>1. SUFFICES ASSUME v = Record(plan[m].seq, gen[m])
                   PROVE  v # disk[k]
      BY <1>3
    <3>2. Valid(v) /\ v.seq = BestSeq(slot) + 1
      BY <2>1, <2>2, <3>1 DEF Valid, Record
    <3>3. QED
      BY <1>1, <2>1, <2>3, <3>2
  <2>5. slot'[k] = v /\ \A i \in Slots : i # k => slot'[i] = slot[i]
    BY <1>0, <1>3, <2>1
  <2>6. Cut(k)' /\ \A i \in Slots : i # k => (Cut(i)' <=> Cut(i))
    BY <1>3, <2>1, <2>4, <2>5 DEF Cut
  <2>7. SyncedInv'
    BY <1>1, <1>3 DEF DurableInv, SyncedInv
  <2>8. AckedInv'
    <3>1. SUFFICES ASSUME acked # 0, NEW j \in Slots, j # k, ~Cut(j)
                   PROVE  \E i \in Slots : ~Cut(i)' /\ Valid(slot'[i]) /\ slot'[i].seq >= acked'
      BY <1>3, <2>6 DEF AckedInv
    <3>2. PICK i \in Slots : ~Cut(i) /\ Valid(slot[i]) /\ slot[i].seq >= acked
      BY <3>1 DEF DurableInv, AckedInv
    <3>3. CASE i # k
      BY <1>3, <2>5, <2>6, <3>2, <3>3
    <3>4. CASE i = k
      \* k is not selected, so the other slot holds a later record.
      <4>1. Valid(slot[k]) /\ slot[k].seq <= BestSeq(slot)
        BY <1>0, <3>2, <3>4, BestSeqBounds
      <4>2. Best(slot) # -1
        BY <4>1, <2>1 DEF Best, Slots
      <4>3. Best(slot) \in Slots /\ Valid(slot[Best(slot)]) /\ k = 1 - Best(slot)
        BY <1>0, <1>3, <2>1, <4>2, BestIsValid DEF NextPlan
      <4>4. Best(slot) = j
        BY <2>1, <3>1, <4>3 DEF Slots
      <4>5. slot[j].seq = BestSeq(slot)
        BY <4>2, <4>4 DEF BestSeq
      <4>6. slot[j].seq >= acked
        BY <1>0, <1>1, <2>1, <3>2, <3>4, <4>1, <4>5
      <4>7. QED
        BY <1>3, <2>5, <2>6, <3>1, <4>3, <4>4, <4>6
    <3>5. QED
      BY <3>3, <3>4
  <2>9. QED
    BY <2>7, <2>8 DEF DurableInv
<1>4. ASSUME NEW m \in Maintainers, ActivateWrite(m)
      PROVE  DurableInv'
  <2>1. pc[m] = "activateWrite" /\ UNCHANGED <<disk, acked>>
    BY <1>4 DEF ActivateWrite, Goto
  <2>2. gen[m] \in Gens /\ plan[m] = NextPlan(slot) /\ NextPlan(slot).seq # 0
    BY <1>0, <2>1 DEF WorkInv, WorkPcs, ActivatePcs, CurrentInv, PlanCurrent, PlanParity
  <2>3. slot' = [slot EXCEPT ![plan[m].slot] = Record(plan[m].seq, gen[m])]
    BY <1>4 DEF ActivateWrite
  <2>4. BestSeq(slot') = BestSeq(slot) + 1
    BY <1>0, <2>2, <2>3, PublishSelects
  <2>5. QED
    BY <1>3, <2>1, <2>3, <2>4
<1>5. ASSUME NEW m \in Maintainers, ActivateTear(m)
      PROVE  DurableInv'
  <2>1. pc[m] = "activateWrite" /\ UNCHANGED <<disk, acked>>
    BY <1>5 DEF ActivateTear
  <2>2. slot' = [slot EXCEPT ![plan[m].slot] = Torn] /\ plan[m] = NextPlan(slot)
    BY <1>0, <1>5, <2>1 DEF ActivateTear, CurrentInv, PlanCurrent
  <2>3. BestSeq(slot') = BestSeq(slot)
    BY <1>0, <2>2, TearKeeps
  <2>4. QED
    BY <1>3, <2>1, <2>2, <2>3
<1>6. ASSUME NEW m \in Maintainers, ActivateSync(m)
      PROVE  DurableInv'
  <2>1. PICK k \in Slots : k = plan[m].slot
    BY <1>0 DEF TypeOK, Plan
  <2>2. /\ pc[m] = "activateSync" /\ UNCHANGED slot /\ acked' = plan[m].seq
        /\ \A i \in Slots : disk'[i] = IF i = k THEN slot[k] ELSE disk[i]
    BY <1>0, <1>6, <2>1 DEF ActivateSync
  <2>3. Valid(slot[k]) /\ slot[k].seq = plan[m].seq
    BY <1>0, <2>1, <2>2 DEF CurrentInv, WriteCurrent
  <2>4. SyncedInv'
    BY <1>0, <2>2, BestSeqBounds DEF DurableInv, SyncedInv
  <2>5. ~Cut(k)'
    BY <2>1, <2>2, <2>3 DEF Cut, Valid, Torn
  <2>6. slot'[k].seq >= acked'
    BY <1>1, <2>1, <2>2, <2>3
  <2>7. QED
    BY <2>1, <2>2, <2>3, <2>4, <2>5, <2>6 DEF DurableInv, AckedInv
<1>7. CASE PowerLoss
  <2>1. slot' = disk' /\ acked' = BestSeq(slot')
    BY <1>7 DEF PowerLoss
  <2>2. slot' \in [Slots -> SlotValue]
    BY <1>7, PowerLossType DEF TypeOK
  <2>3. SyncedInv'
    BY <2>1, <2>2, BestSeqBounds DEF SyncedInv
  <2>4. AckedInv'
    <3>1. SUFFICES ASSUME acked' # 0
                   PROVE  \E i \in Slots : ~Cut(i)' /\ Valid(slot'[i]) /\ slot'[i].seq >= acked'
      BY DEF AckedInv
    <3>2. Best(slot') # -1
      BY <2>1, <3>1 DEF BestSeq
    <3>3. PICK i \in Slots : i = Best(slot') /\ Valid(slot'[i])
      BY <2>2, <3>2, BestIsValid
    <3>4. slot'[i].seq = acked' /\ acked' \in Nat
      BY <2>1, <2>2, <3>2, <3>3, BestSeqBounds DEF BestSeq
    <3>5. ~Cut(i)'
      BY <2>1, <3>3 DEF Cut, Valid, Torn
    <3>6. QED
      BY <3>3, <3>4, <3>5
  <2>5. QED
    BY <2>3, <2>4 DEF DurableInv
<1>8. QED
  BY <1>2, <1>4, <1>5, <1>6, <1>7, SlotWriters

-----------------------------------------------------------------------------
(* Theorems about the selection *)

\* The invariants of this module hold in every reachable state.
LEMMA SelectionInvariant == Spec => [](CorpusInv /\ CurrentInv /\ DurableInv)
<1>1. Init => CurrentInv /\ DurableInv
  BY DEF Init, CurrentInv, PlanCurrent, WriteCurrent, PinCurrent, DurableInv, SyncedInv, AckedInv,
         Valid, Blank
<1>2. CorpusInv /\ CurrentInv /\ DurableInv /\ [Next]_vars => CurrentInv' /\ DurableInv'
  BY CurrentStep, DurableStep DEF CorpusInv, LockInv, ParityInv
<1>3. QED
  BY <1>1, <1>2, CorpusInvariant, PTL DEF Spec

\* Activations, torn writes, prunes, failures and kills, in any order, never take
\* the selected sequence back: only a power failure may.
THEOREM SelectionKept == Spec => SelectionNeverLost
<1>1. CorpusInv /\ CurrentInv /\ [Next]_vars => PowerLoss \/ BestSeq(slot') >= BestSeq(slot)
  <2>1. SUFFICES ASSUME CorpusInv, CurrentInv, [Next]_vars, ~PowerLoss
                 PROVE  BestSeq(slot') >= BestSeq(slot)
    OBVIOUS
  <2>2. BestSeq(slot) \in Nat
    BY <2>1, BestSeqBounds DEF CorpusInv, TypeOK
  <2>3. BestSeq(slot') = BestSeq(slot) \/ BestSeq(slot') = BestSeq(slot) + 1
    BY <2>1, StepSelection DEF CorpusInv, ParityInv
  <2>4. QED
    BY <2>2, <2>3
<1>2. QED
  BY <1>1, SelectionInvariant, PTL DEF Spec, SelectionNeverLost

\* A power failure that finds one slot uncut leaves the acknowledged activation,
\* or a later one, selected: the slots are never both at risk while one of them
\* holds the only synced copy of what Activate has reported.
THEOREM AcknowledgedSurvives == Spec => ActivationDurable
<1>1. CorpusInv /\ DurableInv /\ PowerLoss /\ (\E i \in Slots : ~Cut(i)) => BestSeq(slot') >= acked
  <2>1. SUFFICES ASSUME CorpusInv, DurableInv, PowerLoss, NEW j \in Slots, ~Cut(j)
                 PROVE  BestSeq(slot') >= acked
    OBVIOUS
  <2>2. slot' \in [Slots -> SlotValue] /\ acked \in Nat
    BY <2>1, PowerLossType DEF CorpusInv, TypeOK, Seqs
  <2>3. BestSeq(slot') \in Nat
    BY <2>2, BestSeqBounds
  <2>4. CASE acked = 0
    BY <2>3, <2>4
  <2>5. CASE acked # 0
    <3>1. PICK i \in Slots : ~Cut(i) /\ Valid(slot[i]) /\ slot[i].seq >= acked
      BY <2>1, <2>5 DEF DurableInv, AckedInv
    <3>2. slot'[i] = slot[i]
      BY <2>1, <3>1 DEF PowerLoss, AfterLoss, Cut, Slots
    <3>3. slot'[i].seq <= BestSeq(slot') /\ slot'[i].seq \in Nat
      BY <2>2, <3>1, <3>2, BestSeqBounds, SlotValueShape DEF Seqs
    <3>4. QED
      BY <2>2, <2>3, <3>1, <3>2, <3>3
  <2>6. QED
    BY <2>4, <2>5
<1>2. QED
  BY <1>1, SelectionInvariant, PTL DEF Spec, ActivationDurable

-----------------------------------------------------------------------------
(* Refinement *)

\* The abstract state, point by point: what is stored, and whom a reader pins.
Stored(g) == "payload" \in files[g]
PinnedBy(r) == IF pc[r] \in {"openLoad", "open"} THEN gen[r] ELSE NoGen
Pinned == [r \in Readers |-> PinnedBy(r)]

\* A generation nobody leases is not pinned.
LEMMA PinnedIsLeased ==
    ASSUME LeaseInv, NEW r \in Readers, NEW g, lease[g] = {}, g # NoGen
    PROVE  PinnedBy(r) # g
BY DEF LeaseInv, PinnedPcs, PinnedBy, Procs

\* Readers come to pin by OpenLease and cease to by returning or dying.
LEMMA StepPinned ==
    ASSUME TypeOK, [Next]_vars
    PROVE  \/ PowerLoss
           \/ \A r \in Readers : PinnedBy(r)' = PinnedBy(r)
           \/ \E r \in Readers :
                /\ PinnedBy(r)' = NoGen /\ UNCHANGED store
                /\ \A q \in Readers : q # r => PinnedBy(q)' = PinnedBy(q)
           \/ \E r \in Readers :
                /\ pc[r] = "openLease" /\ PinnedBy(r) = NoGen /\ PinnedBy(r)' = gen[r]
                /\ UNCHANGED store
                /\ \A q \in Readers : q # r => PinnedBy(q)' = PinnedBy(q)
<1>0. /\ Maintainers \subseteq Procs /\ Readers \subseteq Procs /\ Maintainers \cap Readers = {}
      /\ pc \in [Procs -> PcValue] /\ gen \in [Procs -> Gens \cup {NoGen}]
  BY CorpusAssumption DEF TypeOK, Procs
<1>1. CASE UNCHANGED <<pc, gen>>
  BY <1>1 DEF PinnedBy
<1>2. ASSUME NEW p \in Procs,
             \A q \in Procs : q # p => pc'[q] = pc[q] /\ gen'[q] = gen[q]
      PROVE  \A q \in Readers : q # p => PinnedBy(q)' = PinnedBy(q)
  BY <1>0, <1>2 DEF PinnedBy
<1>3. ASSUME NEW p \in Procs, Drop(p)
      PROVE  /\ p \in Readers => PinnedBy(p)' = NoGen
             /\ \A q \in Readers : q # p => PinnedBy(q)' = PinnedBy(q)
  <2>1. pc'[p] = "idle" /\ \A q \in Procs : q # p => pc'[q] = pc[q] /\ gen'[q] = gen[q]
    BY <1>0, <1>3 DEF Drop
  <2>2. QED
    BY <1>2, <2>1 DEF PinnedBy
<1>4. ASSUME NEW m \in Maintainers, ImportStep(m) \/ VerifyStep(m) \/ ActivateStep(m) \/ PruneStep(m)
      PROVE  \A r \in Readers : PinnedBy(r)' = PinnedBy(r)
  <2>1. ASSUME NEW to, pc' = [pc EXCEPT ![m] = to] \/ UNCHANGED pc,
               \A q \in Procs : q # m => gen'[q] = gen[q]
        PROVE  \A r \in Readers : PinnedBy(r)' = PinnedBy(r)
    BY <1>0, <1>2, <2>1
  <2>2. CASE Drop(m)
    BY <1>0, <1>3, <2>2
  <2>3. CASE ImportStep(m)
    BY <1>0, <2>1, <2>2, <2>3 DEF ImportStep, ImportBegin, ImportLease, ImportPayload, ImportSeal,
                                  ImportAbort, Goto
  <2>4. CASE VerifyStep(m)
    BY <1>0, <2>1, <2>2, <2>4 DEF VerifyStep, VerifyBegin, VerifyGate, VerifyLease, VerifyScrub, Goto
  <2>5. CASE ActivateStep(m)
    BY <1>0, <2>1, <2>2, <2>5 DEF ActivateStep, ActivateBegin, ActivateGate, ActivateRead,
                                  ActivateWrite, ActivateTear, ActivateSync, Goto
  <2>6. CASE PruneStep(m)
    BY <1>0, <2>1, <2>2, <2>6 DEF PruneStep, PruneBegin, PruneGate, PruneRead, PruneSkip, PruneSelect,
                                  PruneUnlink, PruneRmdir, PruneDone, Goto, locals
  <2>7. QED
    BY <1>4, <2>3, <2>4, <2>5, <2>6
<1>5. ASSUME NEW r \in Readers, OpenStep(r)
      PROVE  \/ \A q \in Readers : PinnedBy(q)' = PinnedBy(q)
             \/ /\ PinnedBy(r)' = NoGen /\ UNCHANGED store
                /\ \A q \in Readers : q # r => PinnedBy(q)' = PinnedBy(q)
             \/ /\ pc[r] = "openLease" /\ PinnedBy(r) = NoGen /\ PinnedBy(r)' = gen[r]
                /\ UNCHANGED store
                /\ \A q \in Readers : q # r => PinnedBy(q)' = PinnedBy(q)
  <2>1. CASE OpenGate(r) \/ OpenRead(r) \/ OpenLoad(r)
    <3>1. \A q \in Procs : q # r => pc'[q] = pc[q] /\ gen'[q] = gen[q]
      BY <1>0, <2>1 DEF OpenGate, OpenRead, OpenLoad, Goto
    <3>2. PinnedBy(r)' = PinnedBy(r)
      BY <1>0, <2>1 DEF OpenGate, OpenRead, OpenLoad, Goto, PinnedBy
    <3>3. QED
      BY <1>0, <1>2, <3>1, <3>2
  <2>2. CASE OpenLease(r)
    <3>1. \A q \in Procs : q # r => pc'[q] = pc[q] /\ gen'[q] = gen[q]
      BY <1>0, <2>2 DEF OpenLease, Goto
    <3>2. /\ pc[r] = "openLease" /\ PinnedBy(r) = NoGen /\ PinnedBy(r)' = gen[r] /\ UNCHANGED store
      BY <1>0, <2>2 DEF OpenLease, Goto, PinnedBy
    <3>3. QED
      BY <1>0, <1>2, <3>1, <3>2
  <2>3. CASE Close(r)
    BY <1>0, <1>3, <2>3 DEF Close
  <2>4. QED
    BY <1>5, <2>1, <2>2, <2>3 DEF OpenStep
<1>6. ASSUME NEW p \in Procs, Drop(p), UNCHANGED store
      PROVE  \/ \A r \in Readers : PinnedBy(r)' = PinnedBy(r)
             \/ \E r \in Readers :
                /\ PinnedBy(r)' = NoGen /\ UNCHANGED store
                /\ \A q \in Readers : q # r => PinnedBy(q)' = PinnedBy(q)
  <2>1. CASE p \in Readers
    BY <1>3, <1>6, <2>1
  <2>2. CASE p \notin Readers
    BY <1>3, <1>6, <2>2
  <2>3. QED
    BY <2>1, <2>2
<1>7. QED
  BY <1>1, <1>4, <1>5, <1>6, StepCases DEF vars

\* At most one generation gains or loses its data in a step: an import's own
\* or one that is removed, which nothing selects and nobody pins.
LEMMA StepStored ==
    ASSUME CorpusInv, RetainInv, [Next]_vars, ~PowerLoss, NEW g \in Gens, ~(Stored(g)' <=> Stored(g))
    PROVE  /\ UNCHANGED slot
           /\ \A h \in Gens : h # g => (Stored(h)' <=> Stored(h))
           /\ g # Selected(slot)
           /\ \A r \in Readers : PinnedBy(r) # g
<1>0. /\ TypeOK /\ WorkInv /\ UpdateInv /\ LeaseInv /\ ImportInv /\ RemovalInv /\ IssuedInv
      /\ slot \in [Slots -> SlotValue]
  BY DEF CorpusInv, LockInv, PinInv, TypeOK
<1> DEFINE Busy(h) == \E m \in Procs : pc[m] \in ImportPcs \cup {"pruneRemove"} /\ gen[m] = h
<1>1. ASSUME NEW h \in Gens, ~(Stored(h)' <=> Stored(h))
      PROVE  Busy(h) /\ UNCHANGED slot
  <2>1. files'[h] # files[h]
    BY <1>1 DEF Stored
  <2>2. ~(h \notin issued /\ files'[h] = {"dir"})
    BY <1>0, <1>1 DEF Stored, IssuedInv, StoredIssued
  <2>3. QED
    BY <1>0, <2>1, <2>2, StepFiles
<1>2. ASSUME NEW h \in Gens, Busy(h), Busy(g)
      PROVE  h = g
  BY <1>0, <1>2 DEF UpdateInv, MaintainPcs, PrunePcs
<1>3. Busy(g) /\ UNCHANGED slot
  BY <1>1
<1>4. PICK m \in Procs : pc[m] \in ImportPcs \cup {"pruneRemove"} /\ gen[m] = g
  BY <1>3
<1>5. lease[g] = {} /\ g \notin Referenced(slot)
  BY <1>0, <1>4 DEF ImportInv, RemovalInv, RetainInv
<1>6. g # NoGen
  BY CorpusAssumption
<1>7. g # Selected(slot)
  BY <1>0, <1>5, <1>6, SelectedReferenced DEF Selected
<1> HIDE DEF Busy
<1>8. \A h \in Gens : h # g => (Stored(h)' <=> Stored(h))
  BY <1>1, <1>2, <1>3
<1>9. QED
  BY <1>0, <1>3, <1>5, <1>6, <1>7, <1>8, PinnedIsLeased

\* Every step without a power failure is a step of the abstract corpus, or none.
LEMMA AbstractStep ==
    ASSUME CorpusInv, RetainInv, CurrentInv, ~PowerFails, [Next]_vars
    PROVE  [Abstract!ANext]_(Abstract!avars)
<1> DEFINE stored == {g \in Gens : Stored(g)}
<1>0. /\ TypeOK /\ WorkInv /\ PlanParity /\ ~PowerLoss
      /\ Maintainers \subseteq Procs /\ Readers \subseteq Procs
  BY DEF CorpusInv, ParityInv, PowerLoss, Procs
<1>1. /\ Abstract!avars = <<stored, Selected(slot), Pinned>>
      /\ (Abstract!avars)' = <<stored', Selected(slot'), Pinned'>>
  BY DEF Abstract!avars, Stored, Pinned, PinnedBy
<1>2. CASE \A r \in Readers : PinnedBy(r)' = PinnedBy(r)
  <2>1. Pinned' = Pinned
    BY <1>2 DEF Pinned
  <2>2. CASE \A g \in Gens : Stored(g)' <=> Stored(g)
    <3>1. stored' = stored
      BY <2>2
    <3>2. CASE Selected(slot') = Selected(slot)
      BY <1>1, <2>1, <3>1, <3>2
    <3>3. CASE Selected(slot') # Selected(slot)
      <4>1. PICK m \in Maintainers : pc[m] = "activateWrite" /\ Selected(slot') = gen[m]
        BY <1>0, <3>3, StepSelection DEF ActivateWrite, Goto
      <4>2. gen[m] \in Gens /\ "payload" \in files[gen[m]]
        BY <1>0, <4>1 DEF WorkInv, WorkPcs, ActivatePcs, RetainInv
      <4>3. Abstract!Publish(gen[m])
        BY <2>1, <3>1, <4>1, <4>2 DEF Abstract!Publish, Stored, Pinned, PinnedBy
      <4>4. QED
        BY <4>2, <4>3 DEF Abstract!ANext
    <3>4. QED
      BY <3>2, <3>3
  <2>3. ASSUME NEW g \in Gens, ~(Stored(g)' <=> Stored(g))
        PROVE  Abstract!Store(g) \/ Abstract!Reclaim(g)
    <3>1. /\ UNCHANGED slot
          /\ \A h \in Gens : h # g => (Stored(h)' <=> Stored(h))
          /\ g # Selected(slot)
          /\ \A r \in Readers : PinnedBy(r) # g
      BY <1>0, <2>3, StepStored
    <3>2. CASE Stored(g)'
      <4>1. stored' = stored \cup {g}
        BY <3>1, <3>2
      <4>2. QED
        BY <2>1, <3>1, <4>1 DEF Abstract!Store, Stored, Pinned, PinnedBy
    <3>3. CASE ~Stored(g)'
      <4>1. stored' = stored \ {g}
        BY <3>1, <3>3
      <4>2. \A r \in Readers : Pinned[r] # g
        BY <3>1 DEF Pinned
      <4>3. QED
        BY <2>1, <3>1, <4>1, <4>2 DEF Abstract!Reclaim, Stored, Pinned, PinnedBy
    <3>4. QED
      BY <3>2, <3>3
  <2>4. QED
    BY <2>2, <2>3 DEF Abstract!ANext
<1>3. ASSUME NEW r \in Readers, UNCHANGED store,
             \A q \in Readers : q # r => PinnedBy(q)' = PinnedBy(q)
      PROVE  /\ stored' = stored /\ Selected(slot') = Selected(slot)
             /\ Pinned' = [Pinned EXCEPT ![r] = PinnedBy(r)']
  BY <1>3 DEF store, Stored, Pinned
<1>4. ASSUME NEW r \in Readers, UNCHANGED store, PinnedBy(r)' = NoGen,
             \A q \in Readers : q # r => PinnedBy(q)' = PinnedBy(q)
      PROVE  Abstract!Unpin(r)
  BY <1>3, <1>4 DEF Abstract!Unpin, Stored, Pinned, PinnedBy
<1>5. ASSUME NEW r \in Readers, UNCHANGED store, pc[r] = "openLease", PinnedBy(r) = NoGen,
             PinnedBy(r)' = gen[r],
             \A q \in Readers : q # r => PinnedBy(q)' = PinnedBy(q)
      PROVE  Abstract!Pin(r)
  <2>1. gen[r] = Selected(slot) /\ gen[r] # NoGen
    BY <1>0, <1>5, CorpusAssumption DEF CurrentInv, PinCurrent, WorkInv, WorkPcs
  <2>2. Pinned[r] = NoGen
    BY <1>5 DEF Pinned
  <2>3. QED
    BY <1>3, <1>5, <2>1, <2>2 DEF Abstract!Pin, Stored, Pinned, PinnedBy
<1>6. QED
  BY <1>0, <1>2, <1>4, <1>5, StepPinned DEF Abstract!ANext

\* Where the machine does not lose power, the corpus is the abstract one: a
\* reader pins exactly what is selected, and no prune, failed import, torn
\* activation or kill takes away what is selected or pinned.
THEOREM CorpusRefines ==
    ASSUME ~PowerFails
    PROVE  Spec => ImplementsAbstract
<1>1. Init => Abstract!AInit
  BY DEF Init, Abstract!AInit, Selected, Best, Valid, Blank, Slots, Procs
<1>2. Init => RetainInv
  BY DEF Init, RetainInv, Valid, Blank, ActivatePcs
<1>3. CorpusInv /\ RetainInv /\ [Next]_vars => RetainInv'
  BY RetainStep
<1>4. CorpusInv /\ RetainInv /\ CurrentInv /\ [Next]_vars => [Abstract!ANext]_(Abstract!avars)
  BY AbstractStep
<1>5. QED
  BY <1>1, <1>2, <1>3, <1>4, SelectionInvariant, PTL DEF Spec, ImplementsAbstract, Abstract!ASpec
=============================================================================
