----------------------- MODULE CorpusActivation_proofs -----------------------
(* Theorems about the managed root of the password database, for any sets of *)
(* generations and processes and any sequence width: its slots never         *)
(* conflict, its locks keep apart who must not meet, and an open snapshot    *)
(* stays complete.                                                           *)
EXTENDS CorpusActivation, TLAPS

-----------------------------------------------------------------------------
(* Lemmas about the slots *)

\* The uint64 addition in Activate: one more, or 0 after the highest value.
LEMMA WrappedSuccessor ==
    ASSUME NEW q \in Seqs
    PROVE  /\ (q + 1) % SeqMod \in Seqs
           /\ (q + 1) % SeqMod # 0 => (q + 1) % SeqMod = q + 1
<1>1. SeqMod \in Nat /\ SeqMod > 1
  BY CorpusAssumption
<1>2. CASE q + 1 = SeqMod
  BY <1>1, <1>2 DEF Seqs
<1>3. CASE q + 1 < SeqMod
  BY <1>1, <1>3 DEF Seqs
<1>4. QED
  BY <1>1, <1>2, <1>3 DEF Seqs

\* A slot holds a record, or neither a sequence nor a generation.
LEMMA SlotValueShape ==
    ASSUME NEW v \in SlotValue
    PROVE  /\ v.seq \in Seqs
           /\ v.gen \in Gens \cup {NoGen}
           /\ Valid(v) => v.seq # 0 /\ v.gen \in Gens /\ v = Record(v.seq, v.gen)
BY CorpusAssumption DEF SlotValue, Blank, Torn, Record, Valid, Seqs

\* readSelection returns one of the two slots, a valid one, or -1.
LEMMA BestIsValid ==
    ASSUME NEW s \in [Slots -> SlotValue]
    PROVE  /\ Best(s) \in {-1, 0, 1}
           /\ Best(s) # -1 => Best(s) \in Slots /\ Valid(s[Best(s)])
BY DEF Best, Slots

\* What Activate computes is a plan for the slot that is not selected.
LEMMA NextPlanType ==
    ASSUME NEW s \in [Slots -> SlotValue]
    PROVE  /\ NextPlan(s) \in Plan
           /\ Selected(s) \in Gens \cup {NoGen}
           /\ BestSeq(s) \in Seqs
<1>1. SeqMod \in Nat /\ SeqMod > 1
  BY CorpusAssumption
<1>2. CASE Best(s) = -1
  BY <1>1, <1>2 DEF NextPlan, Selected, BestSeq, Plan, Seqs, Slots
<1>3. CASE Best(s) # -1
  <2>1. Best(s) \in Slots
    BY <1>3, BestIsValid
  <2>2. s[Best(s)] \in SlotValue
    BY <2>1
  <2>3. s[Best(s)].seq \in Seqs /\ s[Best(s)].gen \in Gens \cup {NoGen}
    BY <2>2, SlotValueShape
  <2>4. (s[Best(s)].seq + 1) % SeqMod \in Seqs
    BY <2>3, WrappedSuccessor
  <2>5. 1 - Best(s) \in Slots
    BY <2>1 DEF Slots
  <2>6. QED
    BY <1>3, <2>3, <2>4, <2>5 DEF NextPlan, Selected, BestSeq, Plan
<1>4. QED
  BY <1>2, <1>3

-----------------------------------------------------------------------------
(* Type correctness *)

\* Releasing everything a process holds keeps the types.
LEMMA DropType ==
    ASSUME TypeOK, NEW p \in Procs, Drop(p)
    PROVE  /\ update' \subseteq Maintainers /\ gateEx' \subseteq Maintainers
           /\ gateSh' \subseteq Procs /\ lease' \in [Gens -> SUBSET Procs]
           /\ pc' \in [Procs -> PcValue] /\ gen' \in [Procs -> Gens \cup {NoGen}]
           /\ plan' \in [Procs -> Plan] /\ todo' \in [Procs -> SUBSET Gens]
<1>1. NoPlan \in Plan
  BY CorpusAssumption DEF NoPlan, Plan, Slots, Seqs
<1>2. "idle" \in PcValue
  BY DEF PcValue
<1>3. QED
  BY <1>1, <1>2 DEF TypeOK, Drop

\* The steps of Import keep every variable's type.
LEMMA ImportType ==
    ASSUME TypeOK, WorkInv, NEW m \in Maintainers, ImportStep(m)
    PROVE  TypeOK'
<1> USE DEF TypeOK
<1>0. m \in Procs
  BY DEF Procs
<1>1. CASE ImportBegin(m)
  BY <1>0, <1>1 DEF ImportBegin, Goto, TakeUpdate, PcValue, ImportPcs, Files
<1>2. CASE ImportLease(m)
  BY <1>0, <1>2 DEF ImportLease, Goto, PcValue, ImportPcs, Files, locks
<1>3. CASE ImportPayload(m)
  BY <1>0, <1>3 DEF ImportPayload, Goto, PcValue, ImportPcs, Files, locks
<1>4. CASE ImportSeal(m)
  <2>1. Drop(m) /\ UNCHANGED <<slot, disk, files, issued, acked>>
    BY <1>4 DEF ImportSeal
  <2>2. diskFiles' \in [Gens -> SUBSET Files]
    BY <1>0, <1>4 DEF ImportSeal
  <2>3. QED
    BY <1>0, <2>1, <2>2, DropType
<1>5. CASE ImportAbort(m)
  <2>1. Drop(m) /\ UNCHANGED <<slot, disk, diskFiles, issued, acked>>
    BY <1>5 DEF ImportAbort
  <2>2. files' \in [Gens -> SUBSET Files]
    <3>1. gen[m] \in Gens
      BY <1>0, <1>5 DEF ImportAbort, WorkInv, WorkPcs
    <3>2. PICK left \in SUBSET files[gen[m]] : files' = [files EXCEPT ![gen[m]] = left]
      BY <1>5 DEF ImportAbort
    <3>3. left \in SUBSET Files
      BY <3>1
    <3>4. QED
      BY <3>2, <3>3
  <2>3. QED
    BY <1>0, <2>1, <2>2, DropType
<1>6. QED
  BY <1>1, <1>2, <1>3, <1>4, <1>5 DEF ImportStep

\* So do those of Verify.
LEMMA VerifyType ==
    ASSUME TypeOK, NEW m \in Maintainers, VerifyStep(m)
    PROVE  TypeOK'
<1> USE DEF TypeOK
<1>0. m \in Procs
  BY DEF Procs
<1>1. CASE VerifyBegin(m)
  BY <1>0, <1>1 DEF VerifyBegin, Goto, TakeUpdate, PcValue, VerifyPcs, store
<1>2. CASE VerifyGate(m)
  BY <1>0, <1>2 DEF VerifyGate, Goto, TakeGateSh, PcValue, VerifyPcs, store
<1>3. CASE VerifyLease(m)
  BY <1>0, <1>3 DEF VerifyLease, Goto, LeaseAndOpenGate, PcValue, VerifyPcs, store
<1>4. CASE VerifyScrub(m)
  BY <1>0, <1>4, DropType DEF VerifyScrub, store
<1>5. QED
  BY <1>1, <1>2, <1>3, <1>4 DEF VerifyStep

\* A publication is a slot value: the plan's sequence is not 0 when it is made.
LEMMA ActivateType ==
    ASSUME TypeOK, WorkInv, PlanParity, NEW m \in Maintainers, ActivateStep(m)
    PROVE  TypeOK'
<1> USE DEF TypeOK
<1>0. m \in Procs
  BY DEF Procs
<1>1. CASE ActivateBegin(m)
  BY <1>0, <1>1 DEF ActivateBegin, Goto, TakeUpdate, PcValue, ActivatePcs, store
<1>2. CASE ActivateGate(m)
  BY <1>0, <1>2 DEF ActivateGate, Goto, TakeGateEx, PcValue, ActivatePcs, store
<1>3. CASE ActivateRead(m)
  BY <1>0, <1>3, NextPlanType DEF ActivateRead, Goto, PcValue, ActivatePcs, store, locks
<1>4. CASE ActivateWrite(m)
  <2>1. UNCHANGED <<disk, files, diskFiles, issued, acked, locks, gen, plan, todo>>
    BY <1>4 DEF ActivateWrite
  <2>2. pc' \in [Procs -> PcValue]
    BY <1>0, <1>4 DEF ActivateWrite, Goto, PcValue, ActivatePcs
  <2>3. plan[m] \in Plan /\ plan[m].seq # 0 /\ gen[m] \in Gens
    BY <1>0, <1>4 DEF PlanParity, ActivateWrite, Goto, WorkInv, WorkPcs, ActivatePcs
  <2>4. Record(plan[m].seq, gen[m]) \in SlotValue
    BY <2>3 DEF SlotValue, Plan
  <2>5. slot' = [slot EXCEPT ![plan[m].slot] = Record(plan[m].seq, gen[m])]
    BY <1>4 DEF ActivateWrite
  <2>6. slot' \in [Slots -> SlotValue]
    BY <2>4, <2>5
  <2>7. QED
    BY <2>1, <2>2, <2>6 DEF locks
<1>5. CASE ActivateTear(m)
  <2>1. Torn \in SlotValue
    BY DEF SlotValue
  <2>2. slot' \in [Slots -> SlotValue]
    BY <2>1, <1>5 DEF ActivateTear
  <2>3. QED
    BY <1>0, <1>5, <2>2, DropType DEF ActivateTear
<1>6. CASE ActivateSync(m)
  <2>1. plan[m] \in Plan
    BY <1>0
  <2>2. disk' \in [Slots -> SlotValue] /\ acked' \in Seqs
    BY <1>6, <2>1 DEF ActivateSync, Plan
  <2>3. QED
    BY <1>0, <1>6, <2>2, DropType DEF ActivateSync
<1>7. QED
  BY <1>1, <1>2, <1>3, <1>4, <1>5, <1>6 DEF ActivateStep

\* Prune: what it visits and removes are generations.
LEMMA PruneType ==
    ASSUME TypeOK, NEW m \in Maintainers, PruneStep(m)
    PROVE  TypeOK'
<1> USE DEF TypeOK
<1>0. m \in Procs /\ "pruneNext" \in PcValue /\ "pruneRemove" \in PcValue
      /\ "pruneGate" \in PcValue /\ "pruneRead" \in PcValue
  BY DEF Procs, PcValue, PrunePcs
<1>1. CASE PruneBegin(m)
  BY <1>0, <1>1 DEF PruneBegin, Goto, TakeUpdate, store
<1>2. CASE PruneGate(m)
  BY <1>0, <1>2 DEF PruneGate, Goto, TakeGateEx, store
<1>3. CASE PruneRead(m)
  BY <1>0, <1>3 DEF PruneRead, Goto, store, locks
<1>4. CASE PruneSkip(m)
  <2>1. todo' \in [Procs -> SUBSET Gens]
    BY <1>0, <1>4 DEF PruneSkip
  <2>2. UNCHANGED <<store, locks, pc, gen, plan>>
    BY <1>4 DEF PruneSkip
  <2>3. QED
    BY <2>1, <2>2 DEF store, locks
<1>5. CASE PruneSelect(m)
  BY <1>0, <1>5 DEF PruneSelect, Goto, store, locks
<1>6. CASE PruneUnlink(m)
  <2>1. files' \in [Gens -> SUBSET Files]
    <3>1. PICK f : files' = [files EXCEPT ![gen[m]] = @ \ {f}]
      BY <1>6 DEF PruneUnlink
    <3>2. QED
      BY <3>1
  <2>2. QED
    BY <1>6, <2>1 DEF PruneUnlink, locks, locals
<1>7. CASE PruneRmdir(m)
  BY <1>0, <1>7 DEF PruneRmdir, Goto, locks
<1>8. CASE PruneDone(m)
  <2>1. diskFiles' \in [Gens -> SUBSET Files]
    BY <1>8 DEF PruneDone
  <2>2. QED
    BY <1>0, <1>8, <2>1, DropType DEF PruneDone
<1>9. QED
  BY <1>1, <1>2, <1>3, <1>4, <1>5, <1>6, <1>7, <1>8 DEF PruneStep

\* Open and Close.
LEMMA OpenType ==
    ASSUME TypeOK, NEW r \in Readers, OpenStep(r)
    PROVE  TypeOK'
<1> USE DEF TypeOK
<1>0. r \in Procs /\ OpenPcs \subseteq PcValue
  BY DEF Procs, PcValue
<1>1. CASE OpenGate(r)
  BY <1>0, <1>1 DEF OpenGate, Goto, TakeGateSh, OpenPcs, store
<1>2. CASE OpenRead(r)
  BY <1>0, <1>2, NextPlanType DEF OpenRead, Goto, OpenPcs, store, locks
<1>3. CASE OpenLease(r)
  BY <1>0, <1>3 DEF OpenLease, Goto, LeaseAndOpenGate, OpenPcs, store
<1>4. CASE OpenLoad(r)
  BY <1>0, <1>4 DEF OpenLoad, Goto, OpenPcs, store, locks
<1>5. CASE Close(r)
  BY <1>0, <1>5, DropType DEF Close, store
<1>6. QED
  BY <1>1, <1>2, <1>3, <1>4, <1>5 DEF OpenStep

\* A power failure leaves values the disk held or the files showed.
LEMMA PowerLossType ==
    ASSUME TypeOK, PowerLoss
    PROVE  TypeOK'
<1> USE DEF TypeOK
<1>1. \A i \in Slots : AfterLoss(i) \subseteq SlotValue
  BY DEF AfterLoss, SlotValue
<1>2. slot' \in [Slots -> SlotValue]
  <2>1. PICK a \in AfterLoss(0), b \in AfterLoss(1) : slot' = [i \in Slots |-> IF i = 0 THEN a ELSE b]
    BY DEF PowerLoss
  <2>2. a \in SlotValue /\ b \in SlotValue
    BY <1>1 DEF Slots
  <2>3. QED
    BY <2>1, <2>2
<1>3. BestSeq(slot') \in Seqs
  BY <1>2, NextPlanType
<1>4. NoPlan \in Plan /\ "idle" \in PcValue
  BY CorpusAssumption DEF NoPlan, Plan, Slots, Seqs, PcValue
<1>5. QED
  BY <1>2, <1>3, <1>4 DEF PowerLoss

\* A fact about the shape of Next: a step is a maintainer's, a reader's, the
\* end of a process or a power failure.
LEMMA StepCases ==
    ASSUME Next
    PROVE  \/ \E m \in Maintainers : ImportStep(m)
           \/ \E m \in Maintainers : VerifyStep(m)
           \/ \E m \in Maintainers : ActivateStep(m)
           \/ \E m \in Maintainers : PruneStep(m)
           \/ \E r \in Readers : OpenStep(r)
           \/ \E p \in Procs : Drop(p) /\ UNCHANGED store
           \/ PowerLoss
BY DEF Next, Fail, Kill

\* The empty root is well typed.
LEMMA TypeInit == Init => TypeOK
<1>1. NoPlan \in Plan /\ "idle" \in PcValue /\ 0 \in Seqs /\ Blank \in SlotValue
  BY CorpusAssumption DEF NoPlan, Plan, Slots, Seqs, PcValue, SlotValue
<1>2. QED
  BY <1>1 DEF Init, TypeOK

\* Every step keeps the types, operation by operation.
LEMMA TypeStep ==
    ASSUME TypeOK, WorkInv, PlanParity, [Next]_vars
    PROVE  TypeOK'
<1>1. CASE UNCHANGED vars
  BY <1>1 DEF TypeOK, vars
<1>2. ASSUME NEW p \in Procs, Drop(p), UNCHANGED store
      PROVE  TypeOK'
  <2>1. /\ slot' \in [Slots -> SlotValue] /\ disk' \in [Slots -> SlotValue]
        /\ files' \in [Gens -> SUBSET Files] /\ diskFiles' \in [Gens -> SUBSET Files]
        /\ issued' \subseteq Gens /\ acked' \in Seqs
    BY <1>2 DEF TypeOK, store
  <2>2. QED
    BY <1>2, <2>1, DropType DEF TypeOK
<1>3. CASE Next
  BY <1>2, <1>3, StepCases, ImportType, VerifyType, ActivateType, PruneType, OpenType, PowerLossType
<1>4. QED
  BY <1>1, <1>3

-----------------------------------------------------------------------------
(* Work, parity *)

\* Releasing everything a process holds leaves the others' work and plans.
LEMMA DropWork ==
    ASSUME TypeOK, WorkInv, PlanParity, NEW p \in Procs, Drop(p)
    PROVE  WorkInv' /\ PlanParity'
<1>1. \A q \in Procs : q # p => pc'[q] = pc[q] /\ gen'[q] = gen[q] /\ plan'[q] = plan[q]
  BY DEF Drop, TypeOK
<1>2. pc'[p] = "idle"
  BY DEF Drop, TypeOK
<1>3. "idle" \notin WorkPcs
  BY DEF WorkPcs, ImportPcs, VerifyPcs, ActivatePcs, PinnedPcs
<1>4. WorkInv'
  BY <1>1, <1>2, <1>3 DEF WorkInv
<1>5. PlanParity'
  BY <1>1, <1>2 DEF PlanParity
<1>6. QED
  BY <1>4, <1>5

\* Whatever a process starts to work on is a generation, and it is forgotten
\* only when the work ends.
LEMMA WorkStep ==
    ASSUME TypeOK, WorkInv, [Next]_vars, PlanParity
    PROVE  WorkInv'
<1> USE DEF WorkPcs, ImportPcs, VerifyPcs, ActivatePcs, PinnedPcs
<1>1. CASE UNCHANGED vars
  BY <1>1 DEF WorkInv, vars
<1>2. ASSUME NEW m \in Maintainers, ImportStep(m)
      PROVE  WorkInv'
  <2>0. m \in Procs
    BY DEF Procs
  <2>1. CASE ImportBegin(m)
    BY <2>0, <2>1 DEF ImportBegin, Goto, WorkInv, TypeOK
  <2>2. CASE ImportLease(m)
    BY <2>0, <2>2 DEF ImportLease, Goto, WorkInv, TypeOK
  <2>3. CASE ImportPayload(m)
    BY <2>0, <2>3 DEF ImportPayload, Goto, WorkInv, TypeOK
  <2>4. CASE ImportSeal(m) \/ ImportAbort(m)
    BY <2>0, <2>4, DropWork DEF ImportSeal, ImportAbort
  <2>5. QED
    BY <1>2, <2>1, <2>2, <2>3, <2>4 DEF ImportStep
<1>3. ASSUME NEW m \in Maintainers, VerifyStep(m)
      PROVE  WorkInv'
  <2>0. m \in Procs
    BY DEF Procs
  <2>1. CASE VerifyBegin(m)
    BY <2>0, <2>1 DEF VerifyBegin, Goto, WorkInv, TypeOK
  <2>2. CASE VerifyGate(m)
    BY <2>0, <2>2 DEF VerifyGate, Goto, WorkInv, TypeOK
  <2>3. CASE VerifyLease(m)
    BY <2>0, <2>3 DEF VerifyLease, Goto, WorkInv, TypeOK
  <2>4. CASE VerifyScrub(m)
    BY <2>0, <2>4, DropWork DEF VerifyScrub
  <2>5. QED
    BY <1>3, <2>1, <2>2, <2>3, <2>4 DEF VerifyStep
<1>4. ASSUME NEW m \in Maintainers, ActivateStep(m)
      PROVE  WorkInv'
  <2>0. m \in Procs
    BY DEF Procs
  <2>1. CASE ActivateBegin(m)
    BY <2>0, <2>1 DEF ActivateBegin, Goto, WorkInv, TypeOK
  <2>2. CASE ActivateGate(m)
    BY <2>0, <2>2 DEF ActivateGate, Goto, WorkInv, TypeOK
  <2>3. CASE ActivateRead(m)
    BY <2>0, <2>3 DEF ActivateRead, Goto, WorkInv, TypeOK
  <2>4. CASE ActivateWrite(m)
    BY <2>0, <2>4 DEF ActivateWrite, Goto, WorkInv, TypeOK
  <2>5. CASE ActivateTear(m) \/ ActivateSync(m)
    BY <2>0, <2>5, DropWork DEF ActivateTear, ActivateSync
  <2>6. QED
    BY <1>4, <2>1, <2>2, <2>3, <2>4, <2>5 DEF ActivateStep
<1>5. ASSUME NEW m \in Maintainers, PruneStep(m)
      PROVE  WorkInv'
  <2>0. m \in Procs
    BY DEF Procs
  <2>1. CASE PruneBegin(m) \/ PruneGate(m) \/ PruneRead(m)
    BY <2>0, <2>1 DEF PruneBegin, PruneGate, PruneRead, Goto, WorkInv, TypeOK
  <2>2. CASE PruneSkip(m) \/ PruneUnlink(m)
    BY <2>0, <2>2 DEF PruneSkip, PruneUnlink, WorkInv, TypeOK, locals
  <2>3. CASE PruneSelect(m)
    BY <2>0, <2>3 DEF PruneSelect, Goto, WorkInv, TypeOK
  <2>4. CASE PruneRmdir(m)
    BY <2>0, <2>4 DEF PruneRmdir, Goto, WorkInv, TypeOK
  <2>5. CASE PruneDone(m)
    BY <2>0, <2>5, DropWork DEF PruneDone
  <2>6. QED
    BY <1>5, <2>1, <2>2, <2>3, <2>4, <2>5 DEF PruneStep
<1>6. ASSUME NEW r \in Readers, OpenStep(r)
      PROVE  WorkInv'
  <2>0. r \in Procs
    BY DEF Procs
  <2>1. CASE OpenGate(r)
    BY <2>0, <2>1 DEF OpenGate, Goto, WorkInv, TypeOK
  <2>2. CASE OpenRead(r)
    <3>1. Selected(slot) \in Gens
      BY <2>2, BestIsValid, SlotValueShape DEF OpenRead, Selected, TypeOK
    <3>2. QED
      BY <2>0, <2>2, <3>1 DEF OpenRead, Goto, WorkInv, TypeOK
  <2>3. CASE OpenLease(r) \/ OpenLoad(r)
    BY <2>0, <2>3 DEF OpenLease, OpenLoad, Goto, WorkInv, TypeOK
  <2>4. CASE Close(r)
    BY <2>0, <2>4, DropWork DEF Close
  <2>5. QED
    BY <1>6, <2>1, <2>2, <2>3, <2>4 DEF OpenStep
<1>7. CASE PowerLoss
  BY <1>7 DEF PowerLoss, WorkInv
<1>8. QED
  BY <1>1, <1>2, <1>3, <1>4, <1>5, <1>6, <1>7, StepCases, DropWork

\* The plan made from slots of the right parity goes to the slot of its parity.
LEMMA NextPlanParity ==
    ASSUME NEW s \in [Slots -> SlotValue], SlotParity(s), NextPlan(s).seq # 0
    PROVE  NextPlan(s).seq % 2 = 1 - NextPlan(s).slot
<1>1. CASE Best(s) = -1
  BY <1>1 DEF NextPlan
<1>2. CASE Best(s) # -1
  <2>1. Best(s) \in Slots /\ Valid(s[Best(s)])
    BY <1>2, BestIsValid
  <2>2. s[Best(s)].seq \in Seqs
    BY <2>1, SlotValueShape
  <2>3. s[Best(s)].seq % 2 = 1 - Best(s)
    BY <2>1 DEF SlotParity
  <2>4. NextPlan(s).slot = 1 - Best(s) /\ NextPlan(s).seq = (s[Best(s)].seq + 1) % SeqMod
    BY <1>2 DEF NextPlan
  <2>5. NextPlan(s).seq = s[Best(s)].seq + 1
    BY <2>2, <2>4, WrappedSuccessor
  <2>6. s[Best(s)].seq \in Nat
    BY <2>2 DEF Seqs
  <2>7. QED
    BY <2>1, <2>3, <2>4, <2>5, <2>6 DEF Slots
<1>3. QED
  BY <1>1, <1>2

\* Every step keeps the parities; only Activate's steps touch slots or plans.
LEMMA ParityStep ==
    ASSUME TypeOK, WorkInv, ParityInv, [Next]_vars
    PROVE  ParityInv'
<1> USE DEF ParityInv
<1>1. CASE UNCHANGED vars
  BY <1>1 DEF SlotParity, PlanParity, vars
<1>2. ASSUME NEW p \in Procs, Drop(p), UNCHANGED <<slot, disk>>
      PROVE  ParityInv'
  BY <1>2, DropWork DEF SlotParity
<1>3. ASSUME UNCHANGED <<slot, disk, plan>>,
             NEW p \in Procs, NEW to \in PcValue \ {"activateWrite", "activateSync"},
             pc' = [pc EXCEPT ![p] = to]
      PROVE  ParityInv'
  BY <1>3 DEF SlotParity, PlanParity, TypeOK
<1>4. ASSUME NEW m \in Maintainers, ImportStep(m)
      PROVE  ParityInv'
  <2>0. m \in Procs /\ {"importLease", "importPayload", "importSync"} \subseteq PcValue
    BY DEF Procs, PcValue, ImportPcs
  <2>1. CASE ImportBegin(m) \/ ImportLease(m) \/ ImportPayload(m)
    BY <1>3, <2>0, <2>1 DEF ImportBegin, ImportLease, ImportPayload, Goto
  <2>2. CASE ImportSeal(m) \/ ImportAbort(m)
    BY <1>2, <2>0, <2>2 DEF ImportSeal, ImportAbort
  <2>3. QED
    BY <1>4, <2>1, <2>2 DEF ImportStep
<1>5. ASSUME NEW m \in Maintainers, VerifyStep(m)
      PROVE  ParityInv'
  <2>0. m \in Procs /\ {"verifyGate", "verifyLease", "verifyScrub"} \subseteq PcValue
    BY DEF Procs, PcValue, VerifyPcs
  <2>1. CASE VerifyBegin(m) \/ VerifyGate(m) \/ VerifyLease(m)
    BY <1>3, <2>0, <2>1 DEF VerifyBegin, VerifyGate, VerifyLease, Goto, store
  <2>2. CASE VerifyScrub(m)
    BY <1>2, <2>0, <2>2 DEF VerifyScrub, store
  <2>3. QED
    BY <1>5, <2>1, <2>2 DEF VerifyStep
<1>6. ASSUME NEW m \in Maintainers, ActivateStep(m)
      PROVE  ParityInv'
  <2>0. m \in Procs /\ {"activateGate", "activateRead"} \subseteq PcValue
    BY DEF Procs, PcValue, ActivatePcs
  <2>1. CASE ActivateBegin(m) \/ ActivateGate(m)
    BY <1>3, <2>0, <2>1 DEF ActivateBegin, ActivateGate, Goto, store
  <2>2. CASE ActivateRead(m)
    <3>1. NextPlan(slot).seq # 0 /\ NextPlan(slot).seq % 2 = 1 - NextPlan(slot).slot
      BY <2>2, NextPlanParity DEF ActivateRead, TypeOK
    <3>2. PlanParity'
      BY <2>0, <2>2, <3>1 DEF ActivateRead, Goto, PlanParity, TypeOK
    <3>3. QED
      BY <2>2, <3>2 DEF ActivateRead, store, SlotParity
  <2>3. CASE ActivateWrite(m)
    <3>1. plan[m] \in Plan /\ plan[m].seq % 2 = 1 - plan[m].slot
      BY <2>0, <2>3 DEF ActivateWrite, Goto, PlanParity, TypeOK
    <3>2. SlotParity(slot')
      <4> SUFFICES ASSUME NEW i \in Slots, Valid(slot'[i])
                   PROVE  slot'[i].seq % 2 = 1 - i
        BY DEF SlotParity
      <4>1. CASE i = plan[m].slot
        <5>1. slot'[i] = Record(plan[m].seq, gen[m])
          BY <2>3, <4>1 DEF ActivateWrite, TypeOK
        <5>2. QED
          BY <3>1, <4>1, <5>1 DEF Record
      <4>2. CASE i # plan[m].slot
        <5>1. slot'[i] = slot[i]
          BY <2>3, <4>2 DEF ActivateWrite, TypeOK
        <5>2. QED
          BY <5>1 DEF SlotParity
      <4>3. QED
        BY <4>1, <4>2
    <3>3. PlanParity'
      BY <2>0, <2>3 DEF ActivateWrite, Goto, PlanParity, TypeOK
    <3>4. QED
      BY <2>3, <3>2, <3>3 DEF ActivateWrite, SlotParity
  <2>4. CASE ActivateTear(m)
    <3>1. \A i \in Slots : slot'[i] = slot[i] \/ slot'[i] = Torn
      BY <2>4 DEF ActivateTear, TypeOK
    <3>2. SlotParity(slot')
      BY <3>1 DEF SlotParity, Valid, Torn
    <3>3. QED
      BY <2>0, <2>4, <3>2, DropWork DEF ActivateTear, SlotParity
  <2>5. CASE ActivateSync(m)
    <3>1. \A i \in Slots : disk'[i] = disk[i] \/ disk'[i] = slot[i]
      BY <2>5 DEF ActivateSync, TypeOK
    <3>2. SlotParity(disk')
      BY <3>1 DEF SlotParity
    <3>3. QED
      BY <2>0, <2>5, <3>2, DropWork DEF ActivateSync, SlotParity
  <2>6. QED
    BY <1>6, <2>1, <2>2, <2>3, <2>4, <2>5 DEF ActivateStep
<1>7. ASSUME NEW m \in Maintainers, PruneStep(m)
      PROVE  ParityInv'
  <2>0. m \in Procs /\ {"pruneGate", "pruneRead", "pruneNext", "pruneRemove"} \subseteq PcValue
    BY DEF Procs, PcValue, PrunePcs
  <2>1. CASE PruneBegin(m) \/ PruneGate(m) \/ PruneRead(m) \/ PruneSelect(m) \/ PruneRmdir(m)
    BY <1>3, <2>0, <2>1 DEF PruneBegin, PruneGate, PruneRead, PruneSelect, PruneRmdir, Goto, store
  <2>2. CASE PruneSkip(m) \/ PruneUnlink(m)
    BY <2>2 DEF PruneSkip, PruneUnlink, store, locals, SlotParity, PlanParity
  <2>3. CASE PruneDone(m)
    BY <1>2, <2>0, <2>3 DEF PruneDone
  <2>4. QED
    BY <1>7, <2>1, <2>2, <2>3 DEF PruneStep
<1>8. ASSUME NEW r \in Readers, OpenStep(r)
      PROVE  ParityInv'
  <2>0. r \in Procs /\ {"openRead", "openLease", "openLoad", "open"} \subseteq PcValue
    BY DEF Procs, PcValue, OpenPcs
  <2>1. CASE OpenGate(r) \/ OpenRead(r) \/ OpenLease(r) \/ OpenLoad(r)
    BY <1>3, <2>0, <2>1 DEF OpenGate, OpenRead, OpenLease, OpenLoad, Goto, store
  <2>2. CASE Close(r)
    BY <1>2, <2>0, <2>2 DEF Close, store
  <2>3. QED
    BY <1>8, <2>1, <2>2 DEF OpenStep
<1>9. CASE PowerLoss
  <2>1. \A i \in Slots : slot'[i] \in {slot[i], disk[i], Torn}
    BY <1>9 DEF PowerLoss, AfterLoss, Slots
  <2>2. SlotParity(slot')
    BY <2>1 DEF SlotParity, Valid, Torn
  <2>3. QED
    BY <1>9, <2>2 DEF PowerLoss, PlanParity, SlotParity
<1>10. QED
  BY <1>1, <1>2, <1>4, <1>5, <1>6, <1>7, <1>8, <1>9, StepCases DEF store

-----------------------------------------------------------------------------
(* Theorems *)

\* The part of the invariant that needs no lock.
SlotInv == TypeOK /\ WorkInv /\ ParityInv

\* The inductive invariant of the slots holds in every reachable state.
LEMMA SlotInvariant == Spec => []SlotInv
<1>1. Init => SlotInv
  BY TypeInit DEF Init, SlotInv, WorkInv, WorkPcs, ImportPcs, VerifyPcs, ActivatePcs, PinnedPcs,
                  ParityInv, SlotParity, PlanParity, Valid, Blank
<1>2. SlotInv /\ [Next]_vars => SlotInv'
  BY TypeStep, WorkStep, ParityStep DEF SlotInv, ParityInv
<1>3. QED
  BY <1>1, <1>2, PTL DEF Spec

\* The state keeps its shape: in particular a slot never holds sequence 0 and a
\* published record always names a generation.
THEOREM TypeCorrect == Spec => []TypeOK
<1>1. SlotInv => TypeOK
  BY DEF SlotInv
<1>2. QED
  BY <1>1, SlotInvariant, PTL

\* readSelection never finds equal sequences with different content, for any
\* number of generations, processes, kills, torn writes and power failures.
THEOREM ActivationsNeverConflict == Spec => []NoActivationConflict
<1>1. ASSUME NEW s \in [Slots -> SlotValue], SlotParity(s), Valid(s[0]), Valid(s[1])
      PROVE  s[0].seq # s[1].seq
  BY <1>1 DEF SlotParity, Slots
<1>2. SlotInv => NoActivationConflict
  BY <1>1 DEF SlotInv, ParityInv, TypeOK, NoActivationConflict
<1>3. QED
  BY <1>2, SlotInvariant, PTL


-----------------------------------------------------------------------------
(* update.lock *)

\* A process that returns or dies holds no update.lock and does no maintenance.
LEMMA DropUpdate ==
    ASSUME TypeOK, UpdateInv, NEW p \in Procs, Drop(p)
    PROVE  UpdateInv'
<1>1. \A q \in Procs : q # p => pc'[q] = pc[q]
  BY DEF Drop, TypeOK
<1>2. pc'[p] = "idle" /\ update' = update \ {p}
  BY DEF Drop, TypeOK
<1>3. "idle" \notin MaintainPcs
  BY DEF MaintainPcs, ImportPcs, VerifyPcs, ActivatePcs, PrunePcs
<1>4. QED
  BY <1>1, <1>2, <1>3 DEF UpdateInv

\* One maintenance command at a time: every one starts by taking update.lock.
LEMMA UpdateStep ==
    ASSUME TypeOK, UpdateInv, [Next]_vars
    PROVE  UpdateInv'
<1> USE DEF MaintainPcs, ImportPcs, VerifyPcs, ActivatePcs, PrunePcs
<1>1. CASE UNCHANGED vars
  BY <1>1 DEF UpdateInv, vars
<1>2. ASSUME NEW p \in Procs, NEW to, pc' = [pc EXCEPT ![p] = to], UNCHANGED update,
             to \in MaintainPcs => pc[p] \in MaintainPcs
      PROVE  UpdateInv'
  <2>1. \A q \in Procs : pc'[q] = IF q = p THEN to ELSE pc[q]
    BY <1>2 DEF TypeOK
  <2> HIDE DEF MaintainPcs
  <2>2. QED
    BY <1>2, <2>1 DEF UpdateInv
<1>3. ASSUME NEW p \in Procs, NEW to, pc' = [pc EXCEPT ![p] = to], TakeUpdate(p)
      PROVE  UpdateInv'
  <2>1. \A q \in Procs : q # p => pc'[q] = pc[q]
    BY <1>3 DEF TypeOK
  <2> HIDE DEF MaintainPcs
  <2>2. QED
    BY <1>3, <2>1 DEF UpdateInv, TakeUpdate
<1>4. ASSUME NEW m \in Maintainers, ImportStep(m)
      PROVE  UpdateInv'
  <2>0. m \in Procs
    BY DEF Procs
  <2>1. CASE ImportBegin(m)
    BY <1>3, <2>0, <2>1 DEF ImportBegin, Goto
  <2>2. CASE ImportLease(m) \/ ImportPayload(m)
    BY <1>2, <2>0, <2>2 DEF ImportLease, ImportPayload, Goto, locks
  <2>3. CASE ImportSeal(m) \/ ImportAbort(m)
    BY <2>0, <2>3, DropUpdate DEF ImportSeal, ImportAbort
  <2>4. QED
    BY <1>4, <2>1, <2>2, <2>3 DEF ImportStep
<1>5. ASSUME NEW m \in Maintainers, VerifyStep(m)
      PROVE  UpdateInv'
  <2>0. m \in Procs
    BY DEF Procs
  <2>1. CASE VerifyBegin(m)
    BY <1>3, <2>0, <2>1 DEF VerifyBegin, Goto
  <2>2. CASE VerifyGate(m) \/ VerifyLease(m)
    BY <1>2, <2>0, <2>2 DEF VerifyGate, VerifyLease, Goto, TakeGateSh, LeaseAndOpenGate
  <2>3. CASE VerifyScrub(m)
    BY <2>0, <2>3, DropUpdate DEF VerifyScrub
  <2>4. QED
    BY <1>5, <2>1, <2>2, <2>3 DEF VerifyStep
<1>6. ASSUME NEW m \in Maintainers, ActivateStep(m)
      PROVE  UpdateInv'
  <2>0. m \in Procs
    BY DEF Procs
  <2>1. CASE ActivateBegin(m)
    BY <1>3, <2>0, <2>1 DEF ActivateBegin, Goto
  <2>2. CASE ActivateGate(m) \/ ActivateRead(m) \/ ActivateWrite(m)
    BY <1>2, <2>0, <2>2 DEF ActivateGate, ActivateRead, ActivateWrite, Goto, TakeGateEx, locks
  <2>3. CASE ActivateTear(m) \/ ActivateSync(m)
    BY <2>0, <2>3, DropUpdate DEF ActivateTear, ActivateSync
  <2>4. QED
    BY <1>6, <2>1, <2>2, <2>3 DEF ActivateStep
<1>7. ASSUME NEW m \in Maintainers, PruneStep(m)
      PROVE  UpdateInv'
  <2>0. m \in Procs
    BY DEF Procs
  <2>1. CASE PruneBegin(m)
    BY <1>3, <2>0, <2>1 DEF PruneBegin, Goto
  <2>2. CASE PruneGate(m) \/ PruneRead(m) \/ PruneSelect(m) \/ PruneRmdir(m)
    BY <1>2, <2>0, <2>2 DEF PruneGate, PruneRead, PruneSelect, PruneRmdir, Goto, TakeGateEx, locks
  <2>3. CASE PruneSkip(m) \/ PruneUnlink(m)
    BY <2>3 DEF PruneSkip, PruneUnlink, locks, locals, UpdateInv
  <2>4. CASE PruneDone(m)
    BY <2>0, <2>4, DropUpdate DEF PruneDone
  <2>5. QED
    BY <1>7, <2>1, <2>2, <2>3, <2>4 DEF PruneStep
<1>8. ASSUME NEW r \in Readers, OpenStep(r)
      PROVE  UpdateInv'
  <2>0. r \in Procs
    BY DEF Procs
  <2>1. CASE OpenGate(r) \/ OpenRead(r) \/ OpenLease(r) \/ OpenLoad(r)
    BY <1>2, <2>0, <2>1 DEF OpenGate, OpenRead, OpenLease, OpenLoad, Goto, TakeGateSh,
                            LeaseAndOpenGate, locks
  <2>2. CASE Close(r)
    BY <2>0, <2>2, DropUpdate DEF Close
  <2>3. QED
    BY <1>8, <2>1, <2>2 DEF OpenStep
<1>9. CASE PowerLoss
  BY <1>9 DEF PowerLoss, UpdateInv
<1>10. QED
  BY <1>1, <1>4, <1>5, <1>6, <1>7, <1>8, <1>9, StepCases, DropUpdate

-----------------------------------------------------------------------------
(* control.lock *)

\* A process that returns or dies leaves the gate.
LEMMA DropGate ==
    ASSUME TypeOK, GateInv, NEW p \in Procs, Drop(p)
    PROVE  GateInv'
<1>1. \A q \in Procs : q # p => pc'[q] = pc[q]
  BY DEF Drop, TypeOK
<1>2. pc'[p] = "idle" /\ gateEx' = gateEx \ {p} /\ gateSh' = gateSh \ {p}
  BY DEF Drop, TypeOK
<1>3. "idle" \notin GateExPcs /\ "idle" \notin GateShPcs
  BY DEF GateExPcs, GateShPcs
<1>4. QED
  BY <1>1, <1>2, <1>3 DEF GateInv

\* The gate is a readers-writer lock, held where the code relies on it.
LEMMA GateStep ==
    ASSUME TypeOK, GateInv, [Next]_vars
    PROVE  GateInv'
<1> USE DEF GateExPcs, GateShPcs
<1>1. CASE UNCHANGED vars
  BY <1>1 DEF GateInv, vars
<1>2. ASSUME NEW p \in Procs, NEW to, pc' = [pc EXCEPT ![p] = to], UNCHANGED <<gateEx, gateSh>>,
             to \in GateExPcs => pc[p] \in GateExPcs, to \in GateShPcs => pc[p] \in GateShPcs
      PROVE  GateInv'
  <2>1. \A q \in Procs : pc'[q] = IF q = p THEN to ELSE pc[q]
    BY <1>2 DEF TypeOK
  <2> HIDE DEF GateExPcs, GateShPcs
  <2>2. QED
    BY <1>2, <2>1 DEF GateInv
<1>3. ASSUME NEW p \in Procs, NEW to, pc' = [pc EXCEPT ![p] = to], TakeGateEx(p), to \notin GateShPcs
      PROVE  GateInv'
  <2>1. \A q \in Procs : pc'[q] = IF q = p THEN to ELSE pc[q]
    BY <1>3 DEF TypeOK
  <2> HIDE DEF GateExPcs, GateShPcs
  <2>2. QED
    BY <1>3, <2>1 DEF GateInv, TakeGateEx
<1>4. ASSUME NEW p \in Procs, NEW to, pc' = [pc EXCEPT ![p] = to], TakeGateSh(p), to \notin GateExPcs
      PROVE  GateInv'
  <2>1. \A q \in Procs : pc'[q] = IF q = p THEN to ELSE pc[q]
    BY <1>4 DEF TypeOK
  <2> HIDE DEF GateExPcs, GateShPcs
  <2>2. QED
    BY <1>4, <2>1 DEF GateInv, TakeGateSh
<1>5. ASSUME NEW p \in Procs, NEW g, NEW to, pc' = [pc EXCEPT ![p] = to],
             LeaseAndOpenGate(p, g), to \notin GateExPcs, to \notin GateShPcs
      PROVE  GateInv'
  <2>1. \A q \in Procs : pc'[q] = IF q = p THEN to ELSE pc[q]
    BY <1>5 DEF TypeOK
  <2> HIDE DEF GateExPcs, GateShPcs
  <2>2. QED
    BY <1>5, <2>1 DEF GateInv, LeaseAndOpenGate
<1>6. ASSUME NEW m \in Maintainers, ImportStep(m)
      PROVE  GateInv'
  <2>0. m \in Procs
    BY DEF Procs
  <2>1. CASE ImportBegin(m) \/ ImportLease(m) \/ ImportPayload(m)
    BY <1>2, <2>0, <2>1 DEF ImportBegin, ImportLease, ImportPayload, Goto, locks
  <2>2. CASE ImportSeal(m) \/ ImportAbort(m)
    BY <2>0, <2>2, DropGate DEF ImportSeal, ImportAbort
  <2>3. QED
    BY <1>6, <2>1, <2>2 DEF ImportStep
<1>7. ASSUME NEW m \in Maintainers, VerifyStep(m)
      PROVE  GateInv'
  <2>0. m \in Procs
    BY DEF Procs
  <2>1. CASE VerifyBegin(m)
    BY <1>2, <2>0, <2>1 DEF VerifyBegin, Goto
  <2>2. CASE VerifyGate(m)
    BY <1>4, <2>0, <2>2 DEF VerifyGate, Goto
  <2>3. CASE VerifyLease(m)
    <3>1. \E g : LeaseAndOpenGate(m, g) /\ pc' = [pc EXCEPT ![m] = "verifyScrub"]
      BY <2>3 DEF VerifyLease, Goto
    <3>2. QED
      BY <1>5, <2>0, <3>1
  <2>4. CASE VerifyScrub(m)
    BY <2>0, <2>4, DropGate DEF VerifyScrub
  <2>5. QED
    BY <1>7, <2>1, <2>2, <2>3, <2>4 DEF VerifyStep
<1>8. ASSUME NEW m \in Maintainers, ActivateStep(m)
      PROVE  GateInv'
  <2>0. m \in Procs
    BY DEF Procs
  <2>1. CASE ActivateGate(m)
    BY <1>3, <2>0, <2>1 DEF ActivateGate, Goto
  <2>2. CASE ActivateBegin(m) \/ ActivateRead(m) \/ ActivateWrite(m)
    BY <1>2, <2>0, <2>2 DEF ActivateBegin, ActivateRead, ActivateWrite, Goto, locks
  <2>3. CASE ActivateTear(m) \/ ActivateSync(m)
    BY <2>0, <2>3, DropGate DEF ActivateTear, ActivateSync
  <2>4. QED
    BY <1>8, <2>1, <2>2, <2>3 DEF ActivateStep
<1>9. ASSUME NEW m \in Maintainers, PruneStep(m)
      PROVE  GateInv'
  <2>0. m \in Procs
    BY DEF Procs
  <2>1. CASE PruneGate(m)
    BY <1>3, <2>0, <2>1 DEF PruneGate, Goto
  <2>2. CASE PruneBegin(m) \/ PruneRead(m) \/ PruneSelect(m) \/ PruneRmdir(m)
    BY <1>2, <2>0, <2>2 DEF PruneBegin, PruneRead, PruneSelect, PruneRmdir, Goto, locks
  <2>3. CASE PruneSkip(m) \/ PruneUnlink(m)
    BY <2>3 DEF PruneSkip, PruneUnlink, locks, locals, GateInv
  <2>4. CASE PruneDone(m)
    BY <2>0, <2>4, DropGate DEF PruneDone
  <2>5. QED
    BY <1>9, <2>1, <2>2, <2>3, <2>4 DEF PruneStep
<1>10. ASSUME NEW r \in Readers, OpenStep(r)
      PROVE  GateInv'
  <2>0. r \in Procs
    BY DEF Procs
  <2>1. CASE OpenGate(r)
    BY <1>4, <2>0, <2>1 DEF OpenGate, Goto
  <2>2. CASE OpenRead(r) \/ OpenLoad(r)
    BY <1>2, <2>0, <2>2 DEF OpenRead, OpenLoad, Goto, locks
  <2>3. CASE OpenLease(r)
    <3>1. \E g : LeaseAndOpenGate(r, g) /\ pc' = [pc EXCEPT ![r] = "openLoad"]
      BY <2>3 DEF OpenLease, Goto
    <3>2. QED
      BY <1>5, <2>0, <3>1
  <2>4. CASE Close(r)
    BY <2>0, <2>4, DropGate DEF Close
  <2>5. QED
    BY <1>10, <2>1, <2>2, <2>3, <2>4 DEF OpenStep
<1>11. CASE PowerLoss
  BY <1>11 DEF PowerLoss, GateInv
<1>12. QED
  BY <1>1, <1>6, <1>7, <1>8, <1>9, <1>10, <1>11, StepCases, DropGate

-----------------------------------------------------------------------------
(* lease.lock *)

\* A process that returns or dies gives up its own lease and no other.
LEMMA DropLease ==
    ASSUME TypeOK, WorkInv, LeaseInv, NEW p \in Procs, Drop(p)
    PROVE  LeaseInv'
<1>1. \A q \in Procs : q # p => pc'[q] = pc[q] /\ gen'[q] = gen[q]
  BY DEF Drop, TypeOK
<1>2. pc'[p] = "idle" /\ \A g \in Gens : lease'[g] = lease[g] \ {p}
  BY DEF Drop, TypeOK
<1>3. "idle" \notin PinnedPcs /\ PinnedPcs \subseteq WorkPcs
  BY DEF PinnedPcs, WorkPcs
<1>4. \A q \in Procs : pc[q] \in PinnedPcs => gen[q] \in Gens
  BY <1>3 DEF WorkInv
<1>5. QED
  BY <1>1, <1>2, <1>3, <1>4 DEF LeaseInv

\* Whoever works on a pinned generation holds its lease.
LEMMA LeaseStep ==
    ASSUME TypeOK, WorkInv, LeaseInv, [Next]_vars
    PROVE  LeaseInv'
<1> USE DEF PinnedPcs
<1>1. CASE UNCHANGED vars
  BY <1>1 DEF LeaseInv, vars
<1>2. ASSUME NEW p \in Procs, NEW to, pc' = [pc EXCEPT ![p] = to], UNCHANGED lease,
             \A q \in Procs : q # p => gen'[q] = gen[q],
             to \in PinnedPcs => pc[p] \in PinnedPcs /\ gen'[p] = gen[p]
      PROVE  LeaseInv'
  <2>1. \A q \in Procs : pc'[q] = IF q = p THEN to ELSE pc[q]
    BY <1>2 DEF TypeOK
  <2> HIDE DEF PinnedPcs
  <2>2. QED
    BY <1>2, <2>1 DEF LeaseInv
<1>3. ASSUME NEW p \in Procs, NEW to, pc' = [pc EXCEPT ![p] = to], UNCHANGED gen,
             gen[p] \in Gens, LeaseAndOpenGate(p, gen[p])
      PROVE  LeaseInv'
  <2>1. \A q \in Procs : pc'[q] = IF q = p THEN to ELSE pc[q]
    BY <1>3 DEF TypeOK
  <2>2. \A g \in Gens : lease[g] \subseteq lease'[g]
    BY <1>3 DEF TypeOK, LeaseAndOpenGate
  <2>3. p \in lease'[gen[p]]
    BY <1>3 DEF TypeOK, LeaseAndOpenGate
  <2>4. \A q \in Procs : pc[q] \in PinnedPcs => gen[q] \in Gens
    BY DEF WorkInv, WorkPcs
  <2> HIDE DEF PinnedPcs
  <2>5. QED
    BY <1>3, <2>1, <2>2, <2>3, <2>4 DEF LeaseInv
<1>4. ASSUME NEW m \in Maintainers, ImportStep(m)
      PROVE  LeaseInv'
  <2>0. m \in Procs
    BY DEF Procs
  <2>1. CASE ImportBegin(m) \/ ImportLease(m) \/ ImportPayload(m)
    BY <1>2, <2>0, <2>1 DEF ImportBegin, ImportLease, ImportPayload, Goto, locks, TypeOK
  <2>2. CASE ImportSeal(m) \/ ImportAbort(m)
    BY <2>0, <2>2, DropLease DEF ImportSeal, ImportAbort
  <2>3. QED
    BY <1>4, <2>1, <2>2 DEF ImportStep
<1>5. ASSUME NEW m \in Maintainers, VerifyStep(m)
      PROVE  LeaseInv'
  <2>0. m \in Procs
    BY DEF Procs
  <2>1. CASE VerifyBegin(m) \/ VerifyGate(m)
    BY <1>2, <2>0, <2>1 DEF VerifyBegin, VerifyGate, TakeGateSh, Goto, locks, TypeOK
  <2>2. CASE VerifyLease(m)
    <3>1. gen[m] \in Gens
      BY <2>0, <2>2 DEF VerifyLease, Goto, WorkInv, WorkPcs, VerifyPcs
    <3>2. QED
      BY <1>3, <2>0, <2>2, <3>1 DEF VerifyLease, Goto
  <2>3. CASE VerifyScrub(m)
    BY <2>0, <2>3, DropLease DEF VerifyScrub
  <2>4. QED
    BY <1>5, <2>1, <2>2, <2>3 DEF VerifyStep
<1>6. ASSUME NEW m \in Maintainers, ActivateStep(m)
      PROVE  LeaseInv'
  <2>0. m \in Procs
    BY DEF Procs
  <2>1. CASE ActivateBegin(m) \/ ActivateGate(m) \/ ActivateRead(m) \/ ActivateWrite(m)
    BY <1>2, <2>0, <2>1 DEF ActivateBegin, ActivateGate, ActivateRead, ActivateWrite, TakeGateEx,
                            Goto, locks, TypeOK
  <2>2. CASE ActivateTear(m) \/ ActivateSync(m)
    BY <2>0, <2>2, DropLease DEF ActivateTear, ActivateSync
  <2>3. QED
    BY <1>6, <2>1, <2>2 DEF ActivateStep
<1>7. ASSUME NEW m \in Maintainers, PruneStep(m)
      PROVE  LeaseInv'
  <2>0. m \in Procs
    BY DEF Procs
  <2>1. CASE PruneBegin(m) \/ PruneGate(m) \/ PruneRead(m) \/ PruneSelect(m) \/ PruneRmdir(m)
    BY <1>2, <2>0, <2>1 DEF PruneBegin, PruneGate, PruneRead, PruneSelect, PruneRmdir, TakeGateEx,
                            Goto, locks, TypeOK
  <2>2. CASE PruneSkip(m) \/ PruneUnlink(m)
    BY <2>2 DEF PruneSkip, PruneUnlink, locks, locals, LeaseInv
  <2>3. CASE PruneDone(m)
    BY <2>0, <2>3, DropLease DEF PruneDone
  <2>4. QED
    BY <1>7, <2>1, <2>2, <2>3 DEF PruneStep
<1>8. ASSUME NEW r \in Readers, OpenStep(r)
      PROVE  LeaseInv'
  <2>0. r \in Procs
    BY DEF Procs
  <2>1. CASE OpenGate(r) \/ OpenRead(r)
    BY <1>2, <2>0, <2>1 DEF OpenGate, OpenRead, TakeGateSh, Goto, locks, TypeOK
  <2>2. CASE OpenLease(r)
    <3>1. gen[r] \in Gens
      BY <2>0, <2>2 DEF OpenLease, Goto, WorkInv, WorkPcs
    <3>2. QED
      BY <1>3, <2>0, <2>2, <3>1 DEF OpenLease, Goto
  <2>3. CASE OpenLoad(r)
    BY <1>2, <2>0, <2>3 DEF OpenLoad, Goto, locks
  <2>4. CASE Close(r)
    BY <2>0, <2>4, DropLease DEF Close
  <2>5. QED
    BY <1>8, <2>1, <2>2, <2>3, <2>4 DEF OpenStep
<1>9. CASE PowerLoss
  BY <1>9 DEF PowerLoss, LeaseInv
<1>10. QED
  BY <1>1, <1>4, <1>5, <1>6, <1>7, <1>8, <1>9, StepCases, DropLease

-----------------------------------------------------------------------------
(* What a step does to slots, files and leases, and how a process gets where *)
(* it is: the invariants below need no other knowledge of the actions.       *)

\* A selection is one of the slot targets.
LEMMA SelectedReferenced ==
    ASSUME NEW s \in [Slots -> SlotValue], Best(s) # -1
    PROVE  Selected(s) \in Referenced(s)
BY BestIsValid DEF Selected, Referenced

\* Putting a value into a slot adds at most that value's generation.
LEMMA WrittenReferenced ==
    ASSUME NEW s \in [Slots -> SlotValue], NEW i \in Slots, NEW v,
           NEW t, t = [s EXCEPT ![i] = v]
    PROVE  Referenced(t) \subseteq Referenced(s) \cup (IF Valid(v) THEN {v.gen} ELSE {})
<1>1. \A j \in Slots : t[j] = IF j = i THEN v ELSE s[j]
  OBVIOUS
<1>2. SUFFICES ASSUME NEW j \in Slots, Valid(t[j])
               PROVE  t[j].gen \in Referenced(s) \cup (IF Valid(v) THEN {v.gen} ELSE {})
  BY DEF Referenced
<1>3. CASE j = i
  BY <1>1, <1>2, <1>3
<1>4. CASE j # i
  BY <1>1, <1>2, <1>4 DEF Referenced
<1>5. QED
  BY <1>3, <1>4

\* A step that does not write a slot leaves the targets; a publication adds its
\* own; a torn write, a sync and a power failure add none.
LEMMA StepSlots ==
    ASSUME TypeOK, WorkInv, [Next]_vars
    PROVE  \/ UNCHANGED <<slot, disk>>
           \/ /\ Referenced(disk') \subseteq Referenced(slot) \cup Referenced(disk)
              /\ Referenced(slot') \subseteq Referenced(slot)
           \/ \E m \in Maintainers :
                /\ pc[m] = "activateWrite" /\ UNCHANGED <<disk, files, lease, gen>>
                /\ Referenced(slot') \subseteq Referenced(slot) \cup {gen[m]}
           \/ /\ PowerLoss /\ slot' = disk'
              /\ Referenced(slot') \subseteq Referenced(slot) \cup Referenced(disk)
<1>1. CASE UNCHANGED vars
  BY <1>1 DEF vars
<1>2. ASSUME NEW m \in Maintainers, ImportStep(m)
      PROVE  UNCHANGED <<slot, disk>>
  BY <1>2 DEF ImportStep, ImportBegin, ImportLease, ImportPayload, ImportSeal, ImportAbort
<1>3. ASSUME NEW m \in Maintainers, VerifyStep(m)
      PROVE  UNCHANGED <<slot, disk>>
  BY <1>3 DEF VerifyStep, VerifyBegin, VerifyGate, VerifyLease, VerifyScrub, store
<1>4. ASSUME NEW m \in Maintainers, PruneStep(m)
      PROVE  UNCHANGED <<slot, disk>>
  BY <1>4 DEF PruneStep, PruneBegin, PruneGate, PruneRead, PruneSkip, PruneSelect, PruneUnlink,
              PruneRmdir, PruneDone, store
<1>5. ASSUME NEW r \in Readers, OpenStep(r)
      PROVE  UNCHANGED <<slot, disk>>
  BY <1>5 DEF OpenStep, OpenGate, OpenRead, OpenLease, OpenLoad, Close, store
<1>6. ASSUME NEW m \in Maintainers, ActivateBegin(m) \/ ActivateGate(m) \/ ActivateRead(m)
      PROVE  UNCHANGED <<slot, disk>>
  BY <1>6 DEF ActivateBegin, ActivateGate, ActivateRead, store
<1>7. ASSUME NEW m \in Maintainers, ActivateWrite(m)
      PROVE  /\ pc[m] = "activateWrite" /\ UNCHANGED <<disk, files, lease, gen>>
             /\ Referenced(slot') \subseteq Referenced(slot) \cup {gen[m]}
  <2>1. slot' = [slot EXCEPT ![plan[m].slot] = Record(plan[m].seq, gen[m])]
    BY <1>7 DEF ActivateWrite
  <2>2. plan[m].slot \in Slots /\ slot \in [Slots -> SlotValue]
    BY DEF TypeOK, Plan, Procs
  <2>3. Referenced(slot') \subseteq Referenced(slot) \cup {Record(plan[m].seq, gen[m]).gen}
    BY <2>1, <2>2, WrittenReferenced
  <2>4. QED
    BY <1>7, <2>3 DEF ActivateWrite, Goto, locks, Record
<1>8. ASSUME NEW m \in Maintainers, ActivateTear(m)
      PROVE  Referenced(slot') \subseteq Referenced(slot) /\ UNCHANGED disk
  <2>1. slot' = [slot EXCEPT ![plan[m].slot] = Torn]
    BY <1>8 DEF ActivateTear
  <2>2. plan[m].slot \in Slots /\ slot \in [Slots -> SlotValue]
    BY DEF TypeOK, Plan, Procs
  <2>3. ~Valid(Torn)
    BY DEF Valid, Torn
  <2>4. Referenced(slot') \subseteq Referenced(slot)
    BY <2>1, <2>2, <2>3, WrittenReferenced
  <2>5. QED
    BY <1>8, <2>4 DEF ActivateTear
<1>9. ASSUME NEW m \in Maintainers, ActivateSync(m)
      PROVE  Referenced(disk') \subseteq Referenced(slot) \cup Referenced(disk) /\ UNCHANGED slot
  <2>1. disk' = [disk EXCEPT ![plan[m].slot] = slot[plan[m].slot]]
    BY <1>9 DEF ActivateSync
  <2>2. plan[m].slot \in Slots /\ disk \in [Slots -> SlotValue]
    BY DEF TypeOK, Plan, Procs
  <2>3. \A j \in Slots : disk'[j] = disk[j] \/ disk'[j] = slot[j]
    BY <2>1, <2>2
  <2>4. Referenced(disk') \subseteq Referenced(slot) \cup Referenced(disk)
    BY <2>3 DEF Referenced
  <2>5. QED
    BY <1>9, <2>4 DEF ActivateSync
<1>10. CASE PowerLoss
  <2>1. \A i \in Slots : slot'[i] \in {slot[i], disk[i], Torn}
    BY <1>10 DEF PowerLoss, AfterLoss, Slots
  <2>2. ~Valid(Torn)
    BY DEF Valid, Torn
  <2>3. Referenced(slot') \subseteq Referenced(slot) \cup Referenced(disk)
    BY <2>1, <2>2 DEF Referenced
  <2>4. QED
    BY <1>10, <2>3 DEF PowerLoss
<1>11. QED
  BY <1>1, <1>2, <1>3, <1>4, <1>5, <1>6, <1>7, <1>8, <1>9, <1>10, StepCases DEF ActivateStep, store

\* Directories change only where an import builds its own generation or takes it
\* back, and where a prune removes one.
LEMMA StepFiles ==
    ASSUME TypeOK, WorkInv, [Next]_vars, NEW g \in Gens
    PROVE  \/ PowerLoss /\ (files'[g] # {} => "dir" \in files'[g])
           \/ files'[g] = files[g]
           \/ g \notin issued /\ g \in issued' /\ files'[g] = {"dir"} /\ UNCHANGED <<slot, lease>>
           \/ \E m \in Procs :
                /\ pc[m] \in ImportPcs /\ gen[m] = g /\ files[g] \subseteq files'[g]
                /\ UNCHANGED <<slot, gen>>
           \/ \E m \in Procs :
                /\ pc[m] \in ImportPcs /\ gen[m] = g /\ pc'[m] = "idle"
                /\ files'[g] # {} => "dir" \in files'[g]
                /\ UNCHANGED slot
           \/ \E m \in Procs :
                /\ pc[m] = "pruneRemove" /\ gen[m] = g /\ files'[g] \subseteq files[g]
                /\ files'[g] # {} /\ "dir" \in files[g] => "dir" \in files'[g]
                /\ UNCHANGED <<slot, lease>>
<1>1. CASE UNCHANGED vars
  BY <1>1 DEF vars
<1>2. ASSUME NEW m \in Maintainers, ImportStep(m)
      PROVE  \/ files'[g] = files[g]
             \/ g \notin issued /\ g \in issued' /\ files'[g] = {"dir"} /\ UNCHANGED <<slot, lease>>
             \/ /\ pc[m] \in ImportPcs /\ gen[m] = g /\ files[g] \subseteq files'[g]
                /\ UNCHANGED <<slot, gen>>
             \/ /\ pc[m] \in ImportPcs /\ gen[m] = g /\ pc'[m] = "idle"
                /\ files'[g] # {} => "dir" \in files'[g]
                /\ UNCHANGED slot
  <2>0. m \in Procs /\ files \in [Gens -> SUBSET Files]
    BY DEF Procs, TypeOK
  <2>1. CASE ImportBegin(m)
    BY <2>0, <2>1 DEF ImportBegin
  <2>2. CASE ImportLease(m)
    BY <2>0, <2>2 DEF ImportLease, Goto, ImportPcs
  <2>3. CASE ImportPayload(m)
    BY <2>0, <2>3 DEF ImportPayload, Goto, ImportPcs
  <2>4. CASE ImportSeal(m)
    BY <2>4 DEF ImportSeal
  <2>5. CASE ImportAbort(m)
    <3>1. PICK left \in SUBSET files[gen[m]] : /\ left # {} => "dir" \in left
                                               /\ files' = [files EXCEPT ![gen[m]] = left]
      BY <2>5 DEF ImportAbort
    <3>2. pc'[m] = "idle" /\ pc[m] \in ImportPcs /\ UNCHANGED slot
      BY <2>0, <2>5 DEF ImportAbort, Drop, TypeOK
    <3>3. QED
      BY <2>0, <3>1, <3>2
  <2>6. QED
    BY <1>2, <2>1, <2>2, <2>3, <2>4, <2>5 DEF ImportStep
<1>3. ASSUME NEW m \in Maintainers, VerifyStep(m)
      PROVE  UNCHANGED files
  BY <1>3 DEF VerifyStep, VerifyBegin, VerifyGate, VerifyLease, VerifyScrub, store
<1>4. ASSUME NEW m \in Maintainers, ActivateStep(m)
      PROVE  UNCHANGED files
  BY <1>4 DEF ActivateStep, ActivateBegin, ActivateGate, ActivateRead, ActivateWrite, ActivateTear,
              ActivateSync, store
<1>5. ASSUME NEW r \in Readers, OpenStep(r)
      PROVE  UNCHANGED files
  BY <1>5 DEF OpenStep, OpenGate, OpenRead, OpenLease, OpenLoad, Close, store
<1>6. ASSUME NEW m \in Maintainers, PruneStep(m)
      PROVE  \/ files'[g] = files[g]
             \/ /\ pc[m] = "pruneRemove" /\ gen[m] = g /\ files'[g] \subseteq files[g]
                /\ files'[g] # {} /\ "dir" \in files[g] => "dir" \in files'[g]
                /\ UNCHANGED <<slot, lease>>
  <2>0. files \in [Gens -> SUBSET Files]
    BY DEF TypeOK
  <2>1. CASE PruneUnlink(m)
    <3>1. PICK f \in files[gen[m]] \ {"dir"} : files' = [files EXCEPT ![gen[m]] = @ \ {f}]
      BY <2>1 DEF PruneUnlink
    <3>2. pc[m] = "pruneRemove" /\ UNCHANGED <<slot, lease>>
      BY <2>1 DEF PruneUnlink, locks
    <3>3. QED
      BY <2>0, <3>1, <3>2
  <2>2. CASE PruneRmdir(m)
    BY <2>0, <2>2 DEF PruneRmdir, Goto, locks
  <2>3. CASE ~PruneUnlink(m) /\ ~PruneRmdir(m)
    BY <1>6, <2>3 DEF PruneStep, PruneBegin, PruneGate, PruneRead, PruneSkip, PruneSelect, PruneDone,
                      store
  <2>4. QED
    BY <2>1, <2>2, <2>3
<1>7. CASE PowerLoss
  BY <1>7 DEF PowerLoss
<1>8. QED
  <2>1. Maintainers \subseteq Procs
    BY DEF Procs
  <2>2. QED
    BY <1>1, <1>2, <1>3, <1>4, <1>5, <1>6, <1>7, <2>1, StepCases DEF store

\* A lease is taken by Open and Verify only, under the shared gate and where
\* lease.lock exists.
LEMMA StepLease ==
    ASSUME TypeOK, WorkInv, [Next]_vars, NEW g \in Gens
    PROVE  \/ lease'[g] \subseteq lease[g]
           \/ \E p \in Procs :
                /\ pc[p] \in {"openLease", "verifyLease"} /\ gen[p] = g
                /\ "lease" \in files[g] /\ UNCHANGED <<store, gen>>
                /\ pc' = [pc EXCEPT ![p] = IF pc[p] = "openLease" THEN "openLoad" ELSE "verifyScrub"]
<1>0. lease \in [Gens -> SUBSET Procs] /\ Maintainers \subseteq Procs /\ Readers \subseteq Procs
  BY DEF TypeOK, Procs
<1>1. CASE UNCHANGED vars
  BY <1>1 DEF vars
<1>2. ASSUME NEW p \in Procs, Drop(p)
      PROVE  lease'[g] \subseteq lease[g]
  BY <1>2 DEF Drop
<1>3. ASSUME NEW m \in Maintainers, ImportStep(m)
      PROVE  lease'[g] \subseteq lease[g]
  BY <1>0, <1>2, <1>3 DEF ImportStep, ImportBegin, ImportLease, ImportPayload, ImportSeal, ImportAbort, locks
<1>4. ASSUME NEW m \in Maintainers, VerifyStep(m)
      PROVE  \/ lease'[g] \subseteq lease[g]
             \/ /\ pc[m] = "verifyLease" /\ gen[m] = g
                /\ "lease" \in files[g] /\ UNCHANGED <<store, gen>>
                /\ pc' = [pc EXCEPT ![m] = "verifyScrub"]
  <2>1. CASE VerifyLease(m)
    BY <1>0, <2>1 DEF VerifyLease, Goto, LeaseAndOpenGate
  <2>2. CASE VerifyBegin(m) \/ VerifyGate(m) \/ VerifyScrub(m)
    BY <1>0, <1>2, <2>2 DEF VerifyBegin, VerifyGate, VerifyScrub, TakeGateSh
  <2>3. QED
    BY <1>4, <2>1, <2>2 DEF VerifyStep
<1>5. ASSUME NEW m \in Maintainers, ActivateStep(m)
      PROVE  lease'[g] \subseteq lease[g]
  BY <1>0, <1>2, <1>5 DEF ActivateStep, ActivateBegin, ActivateGate, ActivateRead, ActivateWrite,
                         ActivateTear, ActivateSync, TakeGateEx, locks
<1>6. ASSUME NEW m \in Maintainers, PruneStep(m)
      PROVE  lease'[g] \subseteq lease[g]
  BY <1>0, <1>2, <1>6 DEF PruneStep, PruneBegin, PruneGate, PruneRead, PruneSkip, PruneSelect,
                         PruneUnlink, PruneRmdir, PruneDone, TakeGateEx, locks
<1>7. ASSUME NEW r \in Readers, OpenStep(r)
      PROVE  \/ lease'[g] \subseteq lease[g]
             \/ /\ pc[r] = "openLease" /\ gen[r] = g
                /\ "lease" \in files[g] /\ UNCHANGED <<store, gen>>
                /\ pc' = [pc EXCEPT ![r] = "openLoad"]
  <2>1. CASE OpenLease(r)
    BY <1>0, <2>1 DEF OpenLease, Goto, LeaseAndOpenGate
  <2>2. CASE OpenGate(r) \/ OpenRead(r) \/ OpenLoad(r) \/ Close(r)
    BY <1>0, <1>2, <2>2 DEF OpenGate, OpenRead, OpenLoad, Close, TakeGateSh, locks
  <2>3. QED
    BY <1>7, <2>1, <2>2 DEF OpenStep
<1>8. CASE PowerLoss
  BY <1>8 DEF PowerLoss
<1>9. QED
  BY <1>0, <1>1, <1>2, <1>3, <1>4, <1>5, <1>6, <1>7, <1>8, StepCases

\* Where a process is after a step, it was before or it has just come there:
\* with what it then found.
Came(q) ==
    /\ pc'[q] \in ImportPcs =>
         \/ pc[q] \in ImportPcs /\ gen'[q] = gen[q]
         \/ /\ update = {} /\ gen'[q] \in Gens \ issued /\ gen'[q] \in issued'
            /\ files'[gen'[q]] = {"dir"} /\ UNCHANGED <<slot, lease>>
            /\ \A p \in Procs : p # q => pc'[p] = pc[p] /\ gen'[p] = gen[p]
    /\ pc'[q] \in ActivatePcs =>
         \/ pc[q] \in ActivatePcs /\ gen'[q] = gen[q]
         \/ update = {} /\ gen'[q] \in Gens /\ "payload" \in files[gen'[q]] /\ UNCHANGED files
    /\ pc'[q] = "openLease" =>
         \/ pc[q] = "openLease" /\ gen'[q] = gen[q]
         \/ /\ gen'[q] \in Referenced(slot) /\ UNCHANGED <<store, lease>>
            /\ \A p \in Procs : p # q => pc'[p] = pc[p] /\ gen'[p] = gen[p]
    /\ pc'[q] = "open" =>
         \/ pc[q] = "open" /\ gen'[q] = gen[q]
         \/ pc[q] = "openLoad" /\ gen'[q] = gen[q] /\ "payload" \in files[gen[q]] /\ UNCHANGED files
    /\ pc'[q] = "pruneRemove" =>
         \/ pc[q] = "pruneRemove" /\ gen'[q] = gen[q] /\ todo'[q] = todo[q]
         \/ /\ pc[q] = "pruneNext" /\ gen'[q] \in todo[q]
            /\ "lease" \in files[gen'[q]] => lease[gen'[q]] = {}
            /\ todo'[q] \subseteq todo[q] /\ UNCHANGED <<store, lease>>
    /\ pc'[q] = "pruneNext" =>
         \/ pc[q] \in {"pruneNext", "pruneRemove"} /\ todo'[q] \subseteq todo[q]
         \/ todo'[q] \cap Referenced(slot) = {} /\ UNCHANGED slot

\* A step moves one process, in one of these ways.
LEMMA StepWork ==
    ASSUME TypeOK, WorkInv, [Next]_vars
    PROVE  (\A q \in Procs : Came(q)) /\ issued \subseteq issued'
<1> USE DEF ImportPcs, ActivatePcs
<1>0. /\ Maintainers \subseteq Procs /\ Readers \subseteq Procs
      /\ pc \in [Procs -> PcValue] /\ gen \in [Procs -> Gens \cup {NoGen}]
      /\ todo \in [Procs -> SUBSET Gens]
  BY DEF TypeOK, Procs
<1>1. CASE UNCHANGED vars
  BY <1>1 DEF vars, Came
<1>2. ASSUME NEW q \in Procs, pc'[q] = pc[q], gen'[q] = gen[q], todo'[q] = todo[q]
      PROVE  Came(q)
  BY <1>2 DEF Came
<1>3. ASSUME NEW q \in Procs,
             pc'[q] \notin ImportPcs \cup ActivatePcs
                           \cup {"openLease", "open", "pruneRemove", "pruneNext"}
      PROVE  Came(q)
  BY <1>3 DEF Came
<1>4. ASSUME NEW p \in Procs, Drop(p)
      PROVE  \A q \in Procs : Came(q)
  <2>1. pc'[p] = "idle"
    BY <1>0, <1>4 DEF Drop
  <2>2. \A q \in Procs : q # p => pc'[q] = pc[q] /\ gen'[q] = gen[q] /\ todo'[q] = todo[q]
    BY <1>0, <1>4 DEF Drop
  <2>3. QED
    BY <1>2, <1>3, <2>1, <2>2
<1>5. ASSUME NEW p \in Procs, Came(p),
             \A q \in Procs : q # p => pc'[q] = pc[q] /\ gen'[q] = gen[q] /\ todo'[q] = todo[q]
      PROVE  \A q \in Procs : Came(q)
  BY <1>2, <1>5
<1>6. ASSUME NEW m \in Maintainers, ImportStep(m)
      PROVE  (\A q \in Procs : Came(q)) /\ issued \subseteq issued'
  <2>1. CASE ImportBegin(m)
    <3>1. \A q \in Procs : q # m => pc'[q] = pc[q] /\ gen'[q] = gen[q] /\ todo'[q] = todo[q]
      BY <1>0, <2>1 DEF ImportBegin, Goto
    <3>2. Came(m) /\ issued \subseteq issued'
      BY <1>0, <2>1, <3>1 DEF ImportBegin, Goto, TakeUpdate, Came, TypeOK
    <3>3. QED
      BY <1>0, <1>5, <3>1, <3>2
  <2>2. CASE ImportLease(m) \/ ImportPayload(m)
    <3>1. \A q \in Procs : q # m => pc'[q] = pc[q] /\ gen'[q] = gen[q] /\ todo'[q] = todo[q]
      BY <1>0, <2>2 DEF ImportLease, ImportPayload, Goto
    <3>2. Came(m) /\ issued \subseteq issued'
      BY <1>0, <2>2 DEF ImportLease, ImportPayload, Goto, Came
    <3>3. QED
      BY <1>0, <1>5, <3>1, <3>2
  <2>3. CASE ImportSeal(m) \/ ImportAbort(m)
    BY <1>0, <1>4, <2>3 DEF ImportSeal, ImportAbort
  <2>4. QED
    BY <1>6, <2>1, <2>2, <2>3 DEF ImportStep
<1>7. ASSUME NEW m \in Maintainers, VerifyStep(m)
      PROVE  (\A q \in Procs : Came(q)) /\ issued \subseteq issued'
  <2>1. CASE VerifyBegin(m) \/ VerifyGate(m) \/ VerifyLease(m)
    <3>1. \A q \in Procs : q # m => pc'[q] = pc[q] /\ gen'[q] = gen[q] /\ todo'[q] = todo[q]
      BY <1>0, <2>1 DEF VerifyBegin, VerifyGate, VerifyLease, Goto
    <3>2. pc'[m] \in {"verifyGate", "verifyLease", "verifyScrub"} /\ issued \subseteq issued'
      BY <1>0, <2>1 DEF VerifyBegin, VerifyGate, VerifyLease, Goto, store
    <3>3. QED
      BY <1>0, <1>3, <1>5, <3>1, <3>2
  <2>2. CASE VerifyScrub(m)
    BY <1>0, <1>4, <2>2 DEF VerifyScrub, store
  <2>3. QED
    BY <1>7, <2>1, <2>2 DEF VerifyStep
<1>8. ASSUME NEW m \in Maintainers, ActivateStep(m)
      PROVE  (\A q \in Procs : Came(q)) /\ issued \subseteq issued'
  <2>1. CASE ActivateBegin(m) \/ ActivateGate(m) \/ ActivateRead(m) \/ ActivateWrite(m)
    <3>1. \A q \in Procs : q # m => pc'[q] = pc[q] /\ gen'[q] = gen[q] /\ todo'[q] = todo[q]
      BY <1>0, <2>1 DEF ActivateBegin, ActivateGate, ActivateRead, ActivateWrite, Goto
    <3>2. CASE ActivateBegin(m)
      BY <1>0, <1>5, <3>1, <3>2 DEF ActivateBegin, Goto, TakeUpdate, store, Came
    <3>3. CASE ActivateGate(m) \/ ActivateRead(m) \/ ActivateWrite(m)
      <4>1. Came(m) /\ issued \subseteq issued'
        BY <1>0, <3>3 DEF ActivateGate, ActivateRead, ActivateWrite, Goto, store, Came
      <4>2. QED
        BY <1>0, <1>5, <3>1, <4>1
    <3>4. QED
      BY <2>1, <3>2, <3>3
  <2>2. CASE ActivateTear(m) \/ ActivateSync(m)
    BY <1>0, <1>4, <2>2 DEF ActivateTear, ActivateSync
  <2>3. QED
    BY <1>8, <2>1, <2>2 DEF ActivateStep
<1>9. ASSUME NEW m \in Maintainers, PruneStep(m)
      PROVE  (\A q \in Procs : Came(q)) /\ issued \subseteq issued'
  <2>1. CASE PruneBegin(m) \/ PruneGate(m)
    <3>1. \A q \in Procs : q # m => pc'[q] = pc[q] /\ gen'[q] = gen[q] /\ todo'[q] = todo[q]
      BY <1>0, <2>1 DEF PruneBegin, PruneGate, Goto
    <3>2. pc'[m] \in {"pruneGate", "pruneRead"} /\ issued \subseteq issued'
      BY <1>0, <2>1 DEF PruneBegin, PruneGate, Goto, store
    <3>3. QED
      BY <1>0, <1>3, <1>5, <3>1, <3>2
  <2>2. CASE PruneRead(m) \/ PruneSelect(m) \/ PruneRmdir(m)
    <3>1. \A q \in Procs : q # m => pc'[q] = pc[q] /\ gen'[q] = gen[q] /\ todo'[q] = todo[q]
      BY <1>0, <2>2 DEF PruneRead, PruneSelect, PruneRmdir, Goto
    <3>2. CASE PruneRead(m)
      BY <1>0, <1>5, <3>1, <3>2 DEF PruneRead, Goto, store, Came
    <3>3. CASE PruneSelect(m)
      BY <1>0, <1>5, <3>1, <3>3 DEF PruneSelect, Goto, store, locks, Came
    <3>4. CASE PruneRmdir(m)
      BY <1>0, <1>5, <3>1, <3>4 DEF PruneRmdir, Goto, Came
    <3>5. QED
      BY <2>2, <3>2, <3>3, <3>4
  <2>3. CASE PruneSkip(m)
    <3>1. \A q \in Procs : q # m => pc'[q] = pc[q] /\ gen'[q] = gen[q] /\ todo'[q] = todo[q]
      BY <1>0, <2>3 DEF PruneSkip
    <3>2. Came(m) /\ issued \subseteq issued'
      BY <1>0, <2>3 DEF PruneSkip, store, Came
    <3>3. QED
      BY <1>0, <1>5, <3>1, <3>2
  <2>4. CASE PruneUnlink(m)
    BY <1>2, <2>4 DEF PruneUnlink, locals
  <2>5. CASE PruneDone(m)
    BY <1>0, <1>4, <2>5 DEF PruneDone
  <2>6. QED
    BY <1>9, <2>1, <2>2, <2>3, <2>4, <2>5 DEF PruneStep
<1>10. ASSUME NEW r \in Readers, OpenStep(r)
      PROVE  (\A q \in Procs : Came(q)) /\ issued \subseteq issued'
  <2>1. CASE OpenGate(r) \/ OpenLease(r)
    <3>1. \A q \in Procs : q # r => pc'[q] = pc[q] /\ gen'[q] = gen[q] /\ todo'[q] = todo[q]
      BY <1>0, <2>1 DEF OpenGate, OpenLease, Goto
    <3>2. pc'[r] \in {"openRead", "openLoad"} /\ issued \subseteq issued'
      BY <1>0, <2>1 DEF OpenGate, OpenLease, Goto, store
    <3>3. QED
      BY <1>0, <1>3, <1>5, <3>1, <3>2
  <2>2. CASE OpenRead(r) \/ OpenLoad(r)
    <3>1. \A q \in Procs : q # r => pc'[q] = pc[q] /\ gen'[q] = gen[q] /\ todo'[q] = todo[q]
      BY <1>0, <2>2 DEF OpenRead, OpenLoad, Goto
    <3>2. CASE OpenRead(r)
      <4>1. Selected(slot) \in Referenced(slot)
        BY <3>2, SelectedReferenced DEF OpenRead, TypeOK
      <4>2. QED
        BY <1>0, <1>5, <3>1, <3>2, <4>1 DEF OpenRead, Goto, store, locks, Came
    <3>3. CASE OpenLoad(r)
      BY <1>0, <1>5, <3>1, <3>3 DEF OpenLoad, Goto, store, Came
    <3>4. QED
      BY <2>2, <3>2, <3>3
  <2>3. CASE Close(r)
    BY <1>0, <1>4, <2>3 DEF Close, store
  <2>4. QED
    BY <1>10, <2>1, <2>2, <2>3 DEF OpenStep
<1>11. CASE PowerLoss
  BY <1>3, <1>11 DEF PowerLoss
<1>12. QED
  BY <1>1, <1>4, <1>6, <1>7, <1>8, <1>9, <1>10, <1>11, StepCases DEF store

\* What is synced of a directory was in it.
LEMMA StepDiskFiles ==
    ASSUME TypeOK, WorkInv, [Next]_vars, NEW g \in Gens
    PROVE  diskFiles'[g] \subseteq files[g] \cup diskFiles[g]
<1>0. diskFiles \in [Gens -> SUBSET Files] /\ Maintainers \subseteq Procs
  BY DEF TypeOK, Procs
<1>1. CASE UNCHANGED vars
  BY <1>1 DEF vars
<1>2. ASSUME NEW m \in Maintainers, ImportStep(m)
      PROVE  diskFiles'[g] \subseteq files[g] \cup diskFiles[g]
  BY <1>0, <1>2 DEF ImportStep, ImportBegin, ImportLease, ImportPayload, ImportSeal, ImportAbort
<1>3. ASSUME NEW m \in Maintainers, VerifyStep(m)
      PROVE  UNCHANGED diskFiles
  BY <1>3 DEF VerifyStep, VerifyBegin, VerifyGate, VerifyLease, VerifyScrub, store
<1>4. ASSUME NEW m \in Maintainers, ActivateStep(m)
      PROVE  UNCHANGED diskFiles
  BY <1>4 DEF ActivateStep, ActivateBegin, ActivateGate, ActivateRead, ActivateWrite, ActivateTear,
              ActivateSync, store
<1>5. ASSUME NEW m \in Maintainers, PruneStep(m)
      PROVE  diskFiles'[g] \subseteq files[g] \cup diskFiles[g]
  BY <1>5 DEF PruneStep, PruneBegin, PruneGate, PruneRead, PruneSkip, PruneSelect, PruneUnlink,
              PruneRmdir, PruneDone, store
<1>6. ASSUME NEW r \in Readers, OpenStep(r)
      PROVE  UNCHANGED diskFiles
  BY <1>6 DEF OpenStep, OpenGate, OpenRead, OpenLease, OpenLoad, Close, store
<1>7. CASE PowerLoss
  BY <1>7 DEF PowerLoss
<1>8. QED
  BY <1>1, <1>2, <1>3, <1>4, <1>5, <1>6, <1>7, StepCases DEF store

-----------------------------------------------------------------------------
(* The invariants that follow *)

\* Slots, directories, leases and running commands name issued generations only.
LEMMA IssuedStep ==
    ASSUME TypeOK, WorkInv, IssuedInv, [Next]_vars
    PROVE  IssuedInv'
<1>1. issued \subseteq issued' /\ \A q \in Procs : Came(q)
  BY StepWork
<1>2. SlotsIssued'
  <2>1. \A m \in Maintainers : pc[m] = "activateWrite" => gen[m] \in issued
    BY DEF IssuedInv, WorkIssued, ActivatePcs, Procs
  <2>2. QED
    BY <1>1, <2>1, StepSlots DEF IssuedInv, SlotsIssued
<1>3. StoredIssued'
  <2>1. SUFFICES ASSUME NEW g \in Gens
                 PROVE  (files'[g] # {} \/ diskFiles'[g] # {} \/ lease'[g] # {}) => g \in issued'
    BY DEF StoredIssued
  <2>2. files[g] # {} \/ diskFiles[g] # {} \/ lease[g] # {} => g \in issued'
    BY <1>1 DEF IssuedInv, StoredIssued
  <2>3. \A m \in Procs : pc[m] \in ImportPcs => gen[m] \in issued'
    BY <1>1 DEF IssuedInv, WorkIssued
  <2>4. PowerLoss => files'[g] \subseteq files[g] \cup diskFiles[g]
    BY DEF PowerLoss
  <2>5. files'[g] # {} => g \in issued'
    BY <2>2, <2>3, <2>4, StepFiles
  <2>6. diskFiles'[g] # {} => g \in issued'
    BY <2>2, StepDiskFiles
  <2>7. lease'[g] # {} => g \in issued'
    BY <2>2, StepLease
  <2>8. QED
    BY <2>5, <2>6, <2>7
<1>4. WorkIssued'
  <2>1. SUFFICES ASSUME NEW q \in Procs, pc'[q] \in ImportPcs \cup ActivatePcs \cup {"openLease"}
                 PROVE  gen'[q] \in issued'
    BY DEF WorkIssued
  <2>2. pc[q] \in ImportPcs \cup ActivatePcs \cup {"openLease"} => gen[q] \in issued
    BY DEF IssuedInv, WorkIssued
  <2>3. Came(q)
    BY <1>1
  <2>4. CASE pc'[q] \in ImportPcs
    BY <1>1, <2>2, <2>3, <2>4 DEF Came
  <2>5. CASE pc'[q] \in ActivatePcs
    BY <1>1, <2>2, <2>3, <2>5 DEF Came, IssuedInv, StoredIssued
  <2>6. CASE pc'[q] = "openLease"
    BY <1>1, <2>2, <2>3, <2>6 DEF Came, IssuedInv, SlotsIssued
  <2>7. QED
    BY <2>1, <2>4, <2>5, <2>6
<1>5. QED
  BY <1>2, <1>3, <1>4 DEF IssuedInv

\* Nobody selects or pins a generation before its import has finished: it is
\* new, and while update.lock is held nothing else is published or verified.
LEMMA ImportStepInv ==
    ASSUME TypeOK, WorkInv, UpdateInv, IssuedInv, ImportInv, [Next]_vars
    PROVE  ImportInv'
<1>1. \A q \in Procs : Came(q)
  BY StepWork
<1>2. SUFFICES ASSUME NEW m \in Procs, pc'[m] \in ImportPcs
               PROVE  /\ gen'[m] \notin Referenced(slot')
                      /\ lease'[gen'[m]] = {}
                      /\ "dir" \in files'[gen'[m]]
                      /\ \A p \in Procs : pc'[p] = "openLease" => gen'[p] # gen'[m]
  BY DEF ImportInv
<1>3. "openLease" \notin ImportPcs /\ "idle" \notin ImportPcs
  BY DEF ImportPcs
<1>4. CASE ~(pc[m] \in ImportPcs /\ gen'[m] = gen[m])
  <2>1. /\ gen'[m] \in Gens \ issued /\ files'[gen'[m]] = {"dir"} /\ UNCHANGED <<slot, lease>>
        /\ \A p \in Procs : p # m => pc'[p] = pc[p] /\ gen'[p] = gen[p]
    BY <1>1, <1>2, <1>4 DEF Came
  <2>2. gen'[m] \notin Referenced(slot) /\ lease[gen'[m]] = {}
    BY <2>1 DEF IssuedInv, SlotsIssued, StoredIssued
  <2>3. ASSUME NEW p \in Procs, pc'[p] = "openLease"
        PROVE  gen'[p] # gen'[m]
    <3>1. p # m
      BY <1>2, <1>3, <2>3
    <3>2. pc[p] = "openLease" /\ gen'[p] = gen[p]
      BY <2>1, <2>3, <3>1
    <3>3. gen[p] \in issued
      BY <3>2 DEF IssuedInv, WorkIssued
    <3>4. QED
      BY <2>1, <3>2, <3>3
  <2>4. QED
    BY <2>1, <2>2, <2>3
<1>5. CASE pc[m] \in ImportPcs /\ gen'[m] = gen[m]
  <2> DEFINE g == gen[m]
  <2>1. /\ g \in Gens /\ g \in issued /\ g \notin Referenced(slot) /\ lease[g] = {}
        /\ "dir" \in files[g] /\ \A p \in Procs : pc[p] = "openLease" => gen[p] # g
    BY <1>5 DEF WorkInv, WorkPcs, IssuedInv, WorkIssued, ImportInv
  <2>2. \A p \in Procs : pc[p] \in MaintainPcs => p = m
    BY <1>5 DEF UpdateInv, MaintainPcs
  <2>3. ~PowerLoss
    BY <1>2, <1>3 DEF PowerLoss
  <2>4. g \notin Referenced(slot')
    <3>1. \A p \in Maintainers : pc[p] # "activateWrite"
      BY <1>5, <2>2 DEF MaintainPcs, ActivatePcs, ImportPcs, Procs
    <3>2. QED
      BY <2>1, <2>3, <3>1, StepSlots
  <2>5. lease'[g] = {}
    <3>1. \A p \in Procs : pc[p] # "verifyLease"
      BY <1>5, <2>2 DEF MaintainPcs, VerifyPcs, ImportPcs
    <3>2. QED
      BY <2>1, <3>1, StepLease
  <2>6. "dir" \in files'[g]
    <3>1. \A p \in Procs : pc[p] # "pruneRemove"
      BY <1>5, <2>2 DEF MaintainPcs, PrunePcs, ImportPcs
    <3>2. \A p \in Procs : pc[p] \in ImportPcs => pc'[p] # "idle"
      BY <1>2, <1>3, <2>2 DEF MaintainPcs
    <3>3. QED
      BY <2>1, <2>3, <3>1, <3>2, StepFiles
  <2>7. \A p \in Procs : pc'[p] = "openLease" => gen'[p] # g
    BY <1>1, <2>1 DEF Came
  <2>8. QED
    BY <1>5, <2>4, <2>5, <2>6, <2>7
<1>6. QED
  BY <1>4, <1>5

\* Nothing is taken out of a generation somebody holds the lease of.
LEMMA PinnedFiles ==
    ASSUME TypeOK, WorkInv, IssuedInv, ImportInv, RemovalInv, [Next]_vars,
           NEW g \in Gens, lease[g] # {}, ~PowerLoss
    PROVE  files[g] \subseteq files'[g]
<1>1. g \in issued
  BY DEF IssuedInv, StoredIssued
<1>2. \A m \in Procs : pc[m] \in ImportPcs \cup {"pruneRemove"} => gen[m] # g
  BY DEF ImportInv, RemovalInv
<1>3. QED
  BY <1>1, <1>2, StepFiles

\* Directories surround their files, leases are on existing lease files.
LEMMA DirectoryStep ==
    ASSUME TypeOK, WorkInv, IssuedInv, ImportInv, RemovalInv, DirectoryInv, [Next]_vars
    PROVE  DirectoryInv'
<1>1. SUFFICES ASSUME NEW g \in Gens
               PROVE  /\ files'[g] # {} => "dir" \in files'[g]
                      /\ lease'[g] # {} => "lease" \in files'[g]
  BY DEF DirectoryInv
<1>2. files[g] # {} => "dir" \in files[g]
  BY DEF DirectoryInv
<1>3. lease[g] # {} => "lease" \in files[g]
  BY DEF DirectoryInv
<1>4. files'[g] # {} => "dir" \in files'[g]
  <2>1. \A m \in Procs : pc[m] \in ImportPcs /\ gen[m] = g => "dir" \in files[g]
    BY DEF ImportInv
  <2>2. QED
    BY <1>2, <2>1, StepFiles
<1>5. ASSUME lease'[g] # {}
      PROVE  "lease" \in files'[g]
  <2>1. ~PowerLoss
    BY <1>5 DEF PowerLoss
  <2>2. CASE lease'[g] \subseteq lease[g]
    BY <1>3, <1>5, <2>1, <2>2, PinnedFiles
  <2>3. CASE ~(lease'[g] \subseteq lease[g])
    BY <2>3, StepLease DEF store
  <2>4. QED
    BY <2>2, <2>3
<1>6. QED
  BY <1>4, <1>5

\* An open snapshot stays complete.
LEMMA OpenStepInv ==
    ASSUME TypeOK, TypeOK', WorkInv, LeaseInv, IssuedInv, ImportInv, PinInv, [Next]_vars
    PROVE  OpenInv'
<1>1. SUFFICES ASSUME NEW q \in Procs, pc'[q] = "open"
               PROVE  files'[gen'[q]] = Files
  BY DEF OpenInv
<1>2. Came(q)
  BY StepWork
<1>3. gen'[q] = gen[q] /\ pc[q] \in {"open", "openLoad"}
  BY <1>1, <1>2 DEF Came
<1>4. gen[q] \in Gens
  BY <1>3 DEF WorkInv, WorkPcs, PinnedPcs
<1>5. lease[gen[q]] # {}
  BY <1>3 DEF LeaseInv, PinnedPcs
<1>6. files[gen[q]] = Files
  <2>1. "lease" \in files[gen[q]] /\ "dir" \in files[gen[q]]
    BY <1>4, <1>5 DEF PinInv, DirectoryInv
  <2>2. files[gen[q]] \subseteq Files
    BY <1>4 DEF TypeOK
  <2>3. CASE pc[q] = "open"
    BY <2>3 DEF PinInv, OpenInv
  <2>4. CASE pc[q] = "openLoad"
    BY <1>1, <1>2, <2>1, <2>2, <2>4 DEF Came, Files
  <2>5. QED
    BY <1>3, <2>3, <2>4
<1>7. ~PowerLoss
  BY <1>1 DEF PowerLoss
<1>8. files[gen[q]] \subseteq files'[gen[q]]
  BY <1>4, <1>5, <1>7, PinnedFiles DEF PinInv
<1>9. files'[gen[q]] \subseteq Files
  BY <1>4 DEF TypeOK
<1>10. QED
  BY <1>3, <1>6, <1>8, <1>9

\* A generation that a prune removes is not leased meanwhile: whoever would
\* lease it needs the gate that the prune holds.
LEMMA RemovalStep ==
    ASSUME TypeOK, WorkInv, GateInv, DirectoryInv, RemovalInv, [Next]_vars
    PROVE  RemovalInv'
<1>1. SUFFICES ASSUME NEW q \in Procs, pc'[q] = "pruneRemove"
               PROVE  lease'[gen'[q]] = {}
  BY DEF RemovalInv
<1>2. Came(q)
  BY StepWork
<1>3. CASE pc[q] = "pruneRemove" /\ gen'[q] = gen[q]
  <2>1. gen[q] \in Gens /\ lease[gen[q]] = {}
    BY <1>3 DEF WorkInv, WorkPcs, RemovalInv
  <2>2. q \in gateEx
    BY <1>3 DEF GateInv, GateExPcs
  <2>3. \A p \in Procs : pc[p] \notin {"openLease", "verifyLease"}
    BY <2>2 DEF GateInv, GateShPcs
  <2>4. QED
    BY <1>3, <2>1, <2>3, StepLease
<1>4. CASE ~(pc[q] = "pruneRemove" /\ gen'[q] = gen[q])
  <2>1. /\ gen'[q] \in todo[q] /\ UNCHANGED lease
        /\ "lease" \in files[gen'[q]] => lease[gen'[q]] = {}
    BY <1>1, <1>2, <1>4 DEF Came
  <2>2. gen'[q] \in Gens
    BY <2>1 DEF TypeOK
  <2>3. QED
    BY <2>1, <2>2 DEF DirectoryInv
<1>5. QED
  BY <1>3, <1>4

-----------------------------------------------------------------------------
(* Theorems *)

\* The inductive invariant of the corpus holds in every reachable state.
LEMMA CorpusInvariant == Spec => []CorpusInv
<1>1. Init => CorpusInv
  <2>1. Init => TypeOK /\ WorkInv /\ ParityInv
    BY TypeInit DEF Init, WorkInv, WorkPcs, ImportPcs, VerifyPcs, ActivatePcs, PinnedPcs,
                    ParityInv, SlotParity, PlanParity, Valid, Blank
  <2>2. Init => LockInv
    BY DEF Init, LockInv, UpdateInv, GateInv, LeaseInv, MaintainPcs, ImportPcs, VerifyPcs,
           ActivatePcs, PrunePcs, GateExPcs, GateShPcs, PinnedPcs
  <2>3. Init => IssuedInv
    BY DEF Init, IssuedInv, SlotsIssued, StoredIssued, WorkIssued, Referenced, Valid, Blank,
           ImportPcs, ActivatePcs
  <2>4. Init => ImportInv /\ PinInv
    BY DEF Init, ImportInv, PinInv, DirectoryInv, OpenInv, RemovalInv, ImportPcs
  <2>5. QED
    BY <2>1, <2>2, <2>3, <2>4 DEF CorpusInv
<1>2. CorpusInv /\ [Next]_vars => CorpusInv'
  <2>1. SUFFICES ASSUME CorpusInv, [Next]_vars
                 PROVE  CorpusInv'
    OBVIOUS
  <2>2. TypeOK' /\ WorkInv' /\ ParityInv'
    BY <2>1, TypeStep, WorkStep, ParityStep DEF CorpusInv, ParityInv
  <2>3. LockInv'
    BY <2>1, UpdateStep, GateStep, LeaseStep DEF CorpusInv, LockInv
  <2>4. IssuedInv' /\ ImportInv'
    BY <2>1, IssuedStep, ImportStepInv DEF CorpusInv, LockInv
  <2>5. PinInv'
    BY <2>1, <2>2, DirectoryStep, OpenStepInv, RemovalStep DEF CorpusInv, LockInv, PinInv
  <2>6. QED
    BY <2>2, <2>3, <2>4, <2>5 DEF CorpusInv
<1>3. QED
  BY <1>1, <1>2, PTL DEF Spec

\* Whatever is imported, activated, rolled back, pruned or killed meanwhile, and
\* whatever a power failure takes, a snapshot between Open and Close has its
\* directory, its lease file and its data.
THEOREM SnapshotsStayIntact == Spec => []OpenSnapshotIntact
<1>1. CorpusInv => OpenSnapshotIntact
  BY DEF CorpusInv, PinInv, OpenInv, OpenSnapshotIntact, Procs
<1>2. QED
  BY <1>1, CorpusInvariant, PTL

\* Without power failures, no step loses what a slot refers to: a prune keeps
\* both targets, and no other maintenance runs while it removes.
LEMMA RetainStep ==
    ASSUME CorpusInv, RetainInv, ~PowerFails, [Next]_vars
    PROVE  RetainInv'
<1>0. /\ TypeOK /\ WorkInv /\ UpdateInv /\ GateInv /\ IssuedInv /\ ImportInv
      /\ \A q \in Procs : Came(q)
      /\ ~PowerLoss
  BY StepWork DEF CorpusInv, LockInv, PowerLoss
<1>1. \A h \in Referenced(slot) : h \in Gens /\ h \in issued /\ "payload" \in files[h]
  <2>1. \A i \in Slots : Valid(slot[i]) => slot[i].gen \in Gens
    BY <1>0, SlotValueShape DEF TypeOK
  <2>2. QED
    BY <1>0, <2>1 DEF Referenced, RetainInv, IssuedInv, SlotsIssued
<1>2. ASSUME NEW q \in Procs, pc[q] \in {"pruneNext", "pruneRemove"}
      PROVE  Referenced(slot') \subseteq Referenced(slot)
  <2>1. \A m \in Procs : pc[m] # "activateWrite"
    BY <1>0, <1>2 DEF GateInv, GateExPcs
  <2>2. QED
    BY <1>0, <2>1, StepSlots DEF Procs
<1>3. ASSUME NEW h \in Referenced(slot')
      PROVE  "payload" \in files'[h]
  <2>1. CASE h \in Referenced(slot)
    <3>1. \A m \in Procs : pc[m] \in ImportPcs \cup {"pruneRemove"} => gen[m] # h
      BY <1>0, <2>1 DEF ImportInv, RetainInv
    <3>2. QED
      BY <1>0, <1>1, <2>1, <3>1, StepFiles
  <2>2. CASE h \notin Referenced(slot)
    <3>1. PICK m \in Maintainers : pc[m] = "activateWrite" /\ UNCHANGED files /\ h = gen[m]
      BY <1>0, <1>3, <2>2, StepSlots
    <3>2. m \in Procs /\ pc[m] \in ActivatePcs
      BY <3>1 DEF Procs, ActivatePcs
    <3>3. QED
      BY <3>1, <3>2 DEF RetainInv
  <2>3. QED
    BY <2>1, <2>2
<1>4. ASSUME NEW q \in Procs, pc'[q] \in ActivatePcs
      PROVE  "payload" \in files'[gen'[q]]
  <2>1. CASE pc[q] \in ActivatePcs /\ gen'[q] = gen[q]
    <3>1. gen[q] \in Gens /\ gen[q] \in issued /\ "payload" \in files[gen[q]]
      BY <1>0, <2>1 DEF WorkInv, WorkPcs, IssuedInv, WorkIssued, RetainInv
    <3>2. \A m \in Procs : pc[m] \in MaintainPcs => m = q
      BY <1>0, <2>1 DEF UpdateInv, MaintainPcs
    <3>3. \A m \in Procs : pc[m] \notin ImportPcs \cup {"pruneRemove"}
      BY <2>1, <3>2 DEF MaintainPcs, ImportPcs, ActivatePcs, PrunePcs
    <3>4. QED
      BY <1>0, <2>1, <3>1, <3>3, StepFiles
  <2>2. CASE ~(pc[q] \in ActivatePcs /\ gen'[q] = gen[q])
    BY <1>0, <1>4, <2>2 DEF Came
  <2>3. QED
    BY <2>1, <2>2
<1>5. ASSUME NEW q \in Procs, pc'[q] \in {"pruneNext", "pruneRemove"}
      PROVE  todo'[q] \cap Referenced(slot') = {}
  <2>1. CASE pc[q] \in {"pruneNext", "pruneRemove"} /\ todo'[q] \subseteq todo[q]
    BY <1>2, <2>1 DEF RetainInv
  <2>2. CASE ~(pc[q] \in {"pruneNext", "pruneRemove"} /\ todo'[q] \subseteq todo[q])
    BY <1>0, <1>5, <2>2 DEF Came
  <2>3. QED
    BY <2>1, <2>2
<1>6. ASSUME NEW q \in Procs, pc'[q] = "pruneRemove"
      PROVE  gen'[q] \notin Referenced(slot')
  <2>1. CASE pc[q] = "pruneRemove" /\ gen'[q] = gen[q]
    BY <1>2, <2>1 DEF RetainInv
  <2>2. CASE pc[q] = "pruneNext" /\ gen'[q] \in todo[q]
    BY <1>2, <2>2 DEF RetainInv
  <2>3. QED
    BY <1>0, <1>6, <2>1, <2>2 DEF Came
<1>7. \A i \in Slots : Valid(slot'[i]) => slot'[i].gen \in Referenced(slot')
  BY DEF Referenced
<1>8. QED
  BY <1>3, <1>4, <1>5, <1>6, <1>7 DEF RetainInv

\* Where the machine does not lose power, no sequence of imports, activations,
\* prunes, failures and kills takes the data of either slot's target away.
THEOREM TargetsRetained ==
    ASSUME ~PowerFails
    PROVE  Spec => []SlotTargetsRetained
<1>1. Init => RetainInv
  BY DEF Init, RetainInv, Valid, Blank, ActivatePcs
<1>2. CorpusInv /\ RetainInv /\ [Next]_vars => RetainInv'
  BY RetainStep
<1>3. RetainInv => SlotTargetsRetained
  BY DEF RetainInv, SlotTargetsRetained
<1>4. QED
  BY <1>1, <1>2, <1>3, CorpusInvariant, PTL DEF Spec
=============================================================================
