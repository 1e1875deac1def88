-------------------------- MODULE CorpusActivation --------------------------
(***************************************************************************)
(* The managed root of the offline password database                       *)
(* (internal/passworddb): two activation slots, generation directories,    *)
(* the three kinds of flock, and the processes that run Import, Verify,    *)
(* Activate, Prune and Open/Close against them.  A process may be killed   *)
(* between any two steps (the kernel then drops its locks), a slot write   *)
(* may stop half way, and, where PowerFails says so, the machine may lose  *)
(* what was not yet synced.                                                *)
(***************************************************************************)
EXTENDS Integers, FiniteSets

CONSTANTS
    Gens,         \* dataset IDs, each drawn at most once (16 random bytes)
    NoGen,        \* no generation
    Maintainers,  \* agentsearch-corpus processes
    Readers,      \* processes that open a snapshot for lookups
    SeqMod,       \* the sequence number is an unsigned integer mod SeqMod
    PowerFails    \* whether power failures are part of the environment

ASSUME CorpusAssumption ==
    /\ NoGen \notin Gens
    /\ Maintainers \cap Readers = {}
    /\ SeqMod \in Nat /\ SeqMod > 1
    /\ PowerFails \in BOOLEAN

Procs == Maintainers \cup Readers
Slots == {0, 1}                           \* active-a and active-b
Files == {"dir", "lease", "payload"}      \* versions/<id>, lease.lock, the data

VARIABLES
    slot,       \* [Slots -> SlotValue]: what a read of each slot file returns
    disk,       \* [Slots -> SlotValue]: what of it has been synced
    files,      \* [Gens -> SUBSET Files]: the directory of each generation
    diskFiles,  \* [Gens -> SUBSET Files]: what of it has been synced
    issued,     \* dataset IDs already drawn by an import
    update,     \* holders of update.lock (always exclusive)
    gateEx,     \* exclusive holders of control.lock
    gateSh,     \* shared holders of control.lock
    lease,      \* [Gens -> SUBSET Procs]: shared holders of lease.lock
    pc,         \* [Procs -> PcValue]
    gen,        \* [Procs -> Gens \cup {NoGen}]: the generation worked on
    plan,       \* [Procs -> Plan]: slot and sequence an activation computed
    todo,       \* [Procs -> SUBSET Gens]: generations a prune has yet to visit
    acked       \* history: highest sequence an Activate has reported success for

locks == <<update, gateEx, gateSh, lease>>
store == <<slot, disk, files, diskFiles, issued, acked>>
locals == <<pc, gen, plan, todo>>
vars == <<slot, disk, files, diskFiles, issued, update, gateEx, gateSh, lease,
          pc, gen, plan, todo, acked>>

-----------------------------------------------------------------------------
(* Activation slots *)

Seqs == 0 .. SeqMod - 1
Blank == [kind |-> "blank", seq |-> 0, gen |-> NoGen]   \* missing or empty
Torn == [kind |-> "torn", seq |-> 0, gen |-> NoGen]     \* fails its checksum
Record(q, g) == [kind |-> "valid", seq |-> q, gen |-> g]
SlotValue == {Blank, Torn} \cup {Record(q, g) : q \in Seqs \ {0}, g \in Gens}

Valid(v) == v.kind = "valid"

\* readSelection: the valid slot with the highest sequence, active-a on a tie.
Best(s) ==
    IF ~Valid(s[0]) /\ ~Valid(s[1]) THEN -1
    ELSE IF Valid(s[1]) /\ (Valid(s[0]) => s[1].seq > s[0].seq) THEN 1 ELSE 0

Conflict(s) == Valid(s[0]) /\ Valid(s[1]) /\ s[0].seq = s[1].seq /\ s[0] # s[1]
Recovered(s) == \E i \in Slots : s[i] = Torn
Selected(s) == IF Best(s) = -1 THEN NoGen ELSE s[Best(s)].gen
BestSeq(s) == IF Best(s) = -1 THEN 0 ELSE s[Best(s)].seq
\* Faulty variant: only the selection is kept, not both slot targets.
ReferencedBestOnly(s) == {Selected(s)}

Referenced(s) == {s[i].gen : i \in {j \in Slots : Valid(s[j])}}

\* The slot and the sequence Activate writes; seq = 0 is sequence_exhausted.
Plan == [slot : Slots, seq : Seqs]
NoPlan == [slot |-> 0, seq |-> 0]

\* Faulty variants: no wrap check; the sequence of the slot being replaced; the
\* slot that is currently selected.
NextPlanUnwrapped(s) ==
    IF Best(s) = -1 THEN [slot |-> 0, seq |-> 1]
    ELSE [slot |-> 1 - Best(s), seq |-> s[Best(s)].seq + 1]
NextPlanFromOldSlot(s) ==
    IF Best(s) = -1 THEN [slot |-> 0, seq |-> 1]
    ELSE [slot |-> 1 - Best(s), seq |-> (s[1 - Best(s)].seq + 1) % SeqMod]
NextPlanInPlace(s) ==
    IF Best(s) = -1 THEN [slot |-> 0, seq |-> 1]
    ELSE [slot |-> Best(s), seq |-> (s[Best(s)].seq + 1) % SeqMod]

NextPlan(s) ==
    IF Best(s) = -1
    THEN [slot |-> 0, seq |-> 1]
    ELSE [slot |-> 1 - Best(s), seq |-> (s[Best(s)].seq + 1) % SeqMod]

-----------------------------------------------------------------------------
(* Processes *)

ImportPcs == {"importLease", "importPayload", "importSync"}
VerifyPcs == {"verifyGate", "verifyLease", "verifyScrub"}
ActivatePcs == {"activateGate", "activateRead", "activateWrite", "activateSync"}
PrunePcs == {"pruneGate", "pruneRead", "pruneNext", "pruneRemove"}
OpenPcs == {"openRead", "openLease", "openLoad", "open"}
PcValue == {"idle"} \cup ImportPcs \cup VerifyPcs \cup ActivatePcs \cup PrunePcs \cup OpenPcs

Init ==
    /\ slot = [i \in Slots |-> Blank]
    /\ disk = slot
    /\ files = [g \in Gens |-> {}]
    /\ diskFiles = files
    /\ issued = {}
    /\ update = {} /\ gateEx = {} /\ gateSh = {}
    /\ lease = [g \in Gens |-> {}]
    /\ pc = [p \in Procs |-> "idle"]
    /\ gen = [p \in Procs |-> NoGen]
    /\ plan = [p \in Procs |-> NoPlan]
    /\ todo = [p \in Procs |-> {}]
    /\ acked = 0

\* A process returns or dies: every lock it holds is released.
Drop(p) ==
    /\ update' = update \ {p}
    /\ gateEx' = gateEx \ {p}
    /\ gateSh' = gateSh \ {p}
    /\ lease' = [g \in Gens |-> lease[g] \ {p}]
    /\ pc' = [pc EXCEPT ![p] = "idle"]
    /\ gen' = [gen EXCEPT ![p] = NoGen]
    /\ plan' = [plan EXCEPT ![p] = NoPlan]
    /\ todo' = [todo EXCEPT ![p] = {}]

Goto(p, from, to) == pc[p] = from /\ pc' = [pc EXCEPT ![p] = to]

\* update.lock is taken without waiting: a second maintainer gets "busy".
TakeUpdate(m) == update = {} /\ update' = {m}

\* control.lock is polled until it is free.
TakeGateEx(p) == gateEx = {} /\ gateSh = {} /\ gateEx' = {p} /\ UNCHANGED <<update, gateSh, lease>>
TakeGateSh(p) == gateEx = {} /\ gateSh' = gateSh \cup {p} /\ UNCHANGED <<update, gateEx, lease>>


\* The lease is taken before the gate is released.
LeaseAndOpenGate(p, g) ==
    /\ "lease" \in files[g]
    /\ lease' = [lease EXCEPT ![g] = @ \cup {p}]
    /\ gateSh' = gateSh \ {p}
    /\ UNCHANGED <<update, gateEx>>

-----------------------------------------------------------------------------
(* Import *)

ImportBegin(m) == \E g \in Gens \ issued :
    /\ Goto(m, "idle", "importLease")
    /\ TakeUpdate(m)
    /\ issued' = issued \cup {g}
    /\ files' = [files EXCEPT ![g] = {"dir"}]
    /\ gen' = [gen EXCEPT ![m] = g]
    /\ UNCHANGED <<slot, disk, diskFiles, acked, gateEx, gateSh, lease, plan, todo>>

ImportLease(m) ==
    /\ Goto(m, "importLease", "importPayload")
    /\ files' = [files EXCEPT ![gen[m]] = @ \cup {"lease"}]
    /\ UNCHANGED <<slot, disk, diskFiles, issued, acked, locks, gen, plan, todo>>

\* Data, index and manifest are written, synced, reopened and verified.
ImportPayload(m) ==
    /\ Goto(m, "importPayload", "importSync")
    /\ files' = [files EXCEPT ![gen[m]] = @ \cup {"payload"}]
    /\ UNCHANGED <<slot, disk, diskFiles, issued, acked, locks, gen, plan, todo>>

\* The generation's directory and versions/ are synced: the import is sealed.
ImportSeal(m) ==
    /\ pc[m] = "importSync"
    /\ diskFiles' = [diskFiles EXCEPT ![gen[m]] = files[gen[m]]]
    /\ Drop(m)
    /\ UNCHANGED <<slot, disk, files, issued, acked>>

\* Any failure before sealing: RemoveAll, whose own error is ignored, and only
\* then the release of update.lock.
ImportAbort(m) ==
    /\ pc[m] \in ImportPcs
    /\ \E left \in SUBSET files[gen[m]] :
        /\ left # {} => "dir" \in left
        /\ files' = [files EXCEPT ![gen[m]] = left]
    /\ Drop(m)
    /\ UNCHANGED <<slot, disk, diskFiles, issued, acked>>

-----------------------------------------------------------------------------
(* Verify *)

VerifyBegin(m) == \E g \in Gens :
    /\ Goto(m, "idle", "verifyGate")
    /\ TakeUpdate(m)
    /\ gen' = [gen EXCEPT ![m] = g]
    /\ UNCHANGED <<store, gateEx, gateSh, lease, plan, todo>>

VerifyGate(m) ==
    /\ Goto(m, "verifyGate", "verifyLease")
    /\ TakeGateSh(m)
    /\ UNCHANGED <<store, gen, plan, todo>>

VerifyLease(m) ==
    /\ Goto(m, "verifyLease", "verifyScrub")
    /\ LeaseAndOpenGate(m, gen[m])
    /\ UNCHANGED <<store, gen, plan, todo>>

VerifyScrub(m) ==
    /\ pc[m] = "verifyScrub"
    /\ Drop(m)
    /\ UNCHANGED store

-----------------------------------------------------------------------------
(* Activate, also the rollback command *)

\* The full verification reads the payload only; lease.lock is not looked at.
ActivateBegin(m) == \E g \in Gens :
    /\ Goto(m, "idle", "activateGate")
    /\ TakeUpdate(m)
    /\ "payload" \in files[g]
    /\ gen' = [gen EXCEPT ![m] = g]
    /\ UNCHANGED <<store, gateEx, gateSh, lease, plan, todo>>

ActivateGate(m) ==
    /\ Goto(m, "activateGate", "activateRead")
    /\ TakeGateEx(m)
    /\ UNCHANGED <<store, gen, plan, todo>>

ActivateRead(m) ==
    /\ Goto(m, "activateRead", "activateWrite")
    /\ ~Conflict(slot)
    /\ NextPlan(slot).seq # 0
    /\ plan' = [plan EXCEPT ![m] = NextPlan(slot)]
    /\ UNCHANGED <<store, locks, gen, todo>>

ActivateWrite(m) ==
    /\ Goto(m, "activateWrite", "activateSync")
    /\ slot' = [slot EXCEPT ![plan[m].slot] = Record(plan[m].seq, gen[m])]
    /\ UNCHANGED <<disk, files, diskFiles, issued, acked, locks, gen, plan, todo>>

\* WriteAt stops half way: activation_outcome_uncertain.
ActivateTear(m) ==
    /\ pc[m] = "activateWrite"
    /\ slot' = [slot EXCEPT ![plan[m].slot] = Torn]
    /\ Drop(m)
    /\ UNCHANGED <<disk, files, diskFiles, issued, acked>>

\* Faulty variant: success is reported without f.Sync.
ActivateWithoutSync(m) ==
    /\ pc[m] = "activateSync"
    /\ acked' = plan[m].seq
    /\ Drop(m)
    /\ UNCHANGED <<slot, disk, files, diskFiles, issued>>

\* f.Sync and syncDirectory succeed and Activate returns nil.
ActivateSync(m) ==
    /\ pc[m] = "activateSync"
    /\ disk' = [disk EXCEPT ![plan[m].slot] = slot[plan[m].slot]]
    /\ acked' = plan[m].seq
    /\ Drop(m)
    /\ UNCHANGED <<slot, files, diskFiles, issued>>

-----------------------------------------------------------------------------
(* Prune *)

PruneBegin(m) ==
    /\ Goto(m, "idle", "pruneGate")
    /\ TakeUpdate(m)
    /\ UNCHANGED <<store, gateEx, gateSh, lease, gen, plan, todo>>

PruneGate(m) ==
    /\ Goto(m, "pruneGate", "pruneRead")
    /\ TakeGateEx(m)
    /\ UNCHANGED <<store, gen, plan, todo>>

\* Damaged or missing selections are refused; both slot targets are kept.
PruneRead(m) ==
    /\ Goto(m, "pruneRead", "pruneNext")
    /\ ~Conflict(slot)
    /\ Best(slot) # -1 /\ ~Recovered(slot)
    /\ todo' = [todo EXCEPT ![m] = {g \in Gens : "dir" \in files[g]} \ Referenced(slot)]
    /\ UNCHANGED <<store, locks, gen, plan>>

\* A generation with a live lease is busy and stays.
PruneSkip(m) == \E g \in todo[m] :
    /\ pc[m] = "pruneNext"
    /\ "lease" \in files[g] /\ lease[g] # {}
    /\ todo' = [todo EXCEPT ![m] = @ \ {g}]
    /\ UNCHANGED <<store, locks, pc, gen, plan>>

\* Faulty variant: the lease is not probed.
PruneSelectUnprobed(m) == \E g \in todo[m] :
    /\ Goto(m, "pruneNext", "pruneRemove")
    /\ gen' = [gen EXCEPT ![m] = g]
    /\ todo' = [todo EXCEPT ![m] = @ \ {g}]
    /\ UNCHANGED <<store, locks, plan>>

\* The exclusive lease was free, or lease.lock is missing after an interrupted
\* import; the probe is released before the removal, the gate is not.
PruneSelect(m) == \E g \in todo[m] :
    /\ Goto(m, "pruneNext", "pruneRemove")
    /\ "lease" \in files[g] => lease[g] = {}
    /\ gen' = [gen EXCEPT ![m] = g]
    /\ todo' = [todo EXCEPT ![m] = @ \ {g}]
    /\ UNCHANGED <<store, locks, plan>>

\* RemoveAll unlinks the directory's entries in no particular order ...
PruneUnlink(m) ==
    /\ pc[m] = "pruneRemove"
    /\ \E f \in files[gen[m]] \ {"dir"} : files' = [files EXCEPT ![gen[m]] = @ \ {f}]
    /\ UNCHANGED <<slot, disk, diskFiles, issued, acked, locks, locals>>

\* ... and then the directory.
PruneRmdir(m) ==
    /\ Goto(m, "pruneRemove", "pruneNext")
    /\ files[gen[m]] = {"dir"}
    /\ files' = [files EXCEPT ![gen[m]] = {}]
    /\ gen' = [gen EXCEPT ![m] = NoGen]
    /\ UNCHANGED <<slot, disk, diskFiles, issued, acked, locks, plan, todo>>

\* versions/ is synced.
PruneDone(m) ==
    /\ pc[m] = "pruneNext"
    /\ todo[m] = {}
    /\ diskFiles' = [g \in Gens |-> IF files[g] = {} THEN {} ELSE diskFiles[g]]
    /\ Drop(m)
    /\ UNCHANGED <<slot, disk, files, issued, acked>>

-----------------------------------------------------------------------------
(* Open and Close *)

OpenGate(r) ==
    /\ Goto(r, "idle", "openRead")
    /\ TakeGateSh(r)
    /\ UNCHANGED <<store, gen, plan, todo>>

\* Faulty variant: the gate is released before the lease is taken.
OpenReadThenOpenGate(r) ==
    /\ Goto(r, "openRead", "openLease")
    /\ ~Conflict(slot)
    /\ Best(slot) # -1
    /\ gen' = [gen EXCEPT ![r] = Selected(slot)]
    /\ gateSh' = gateSh \ {r}
    /\ UNCHANGED <<store, update, gateEx, lease, plan, todo>>

OpenRead(r) ==
    /\ Goto(r, "openRead", "openLease")
    /\ ~Conflict(slot)
    /\ Best(slot) # -1
    /\ gen' = [gen EXCEPT ![r] = Selected(slot)]
    /\ UNCHANGED <<store, locks, plan, todo>>

OpenLease(r) ==
    /\ Goto(r, "openLease", "openLoad")
    /\ LeaseAndOpenGate(r, gen[r])
    /\ UNCHANGED <<store, gen, plan, todo>>

\* loadVersion; the 40 MB index is read outside the gate.
OpenLoad(r) ==
    /\ Goto(r, "openLoad", "open")
    /\ "payload" \in files[gen[r]]
    /\ UNCHANGED <<store, locks, gen, plan, todo>>

Close(r) ==
    /\ pc[r] = "open"
    /\ Drop(r)
    /\ UNCHANGED store

-----------------------------------------------------------------------------
(* Failure *)

\* An error or a cancelled context: the deferred unlocks run.  Import has its
\* own path (ImportAbort); after a slot write the outcome is "uncertain".
Fail(p) ==
    /\ pc[p] \in PcValue \ (ImportPcs \cup {"idle", "open"})
    /\ Drop(p)
    /\ UNCHANGED store

\* The process is killed: no deferred call runs, the kernel drops its locks.
Kill(p) ==
    /\ pc[p] # "idle"
    /\ Drop(p)
    /\ UNCHANGED store

\* Power fails: nothing runs, and each slot and directory entry comes back as
\* it was last synced, as it was last written, or in between.
AfterLoss(i) == {slot[i], disk[i]} \cup (IF slot[i] = disk[i] THEN {} ELSE {Torn})

PowerLoss ==
    /\ PowerFails
    /\ \E a \in AfterLoss(0), b \in AfterLoss(1) : slot' = [i \in Slots |-> IF i = 0 THEN a ELSE b]
    /\ disk' = slot'
    /\ files' \in [Gens -> SUBSET Files]
    /\ \A g \in Gens :
        /\ files[g] \cap diskFiles[g] \subseteq files'[g]
        /\ files'[g] \subseteq files[g] \cup diskFiles[g]
        /\ files'[g] # {} => "dir" \in files'[g]
    /\ diskFiles' = files'
    /\ update' = {} /\ gateEx' = {} /\ gateSh' = {}
    /\ lease' = [g \in Gens |-> {}]
    /\ pc' = [p \in Procs |-> "idle"]
    /\ gen' = [p \in Procs |-> NoGen]
    /\ plan' = [p \in Procs |-> NoPlan]
    /\ todo' = [p \in Procs |-> {}]
    /\ acked' = BestSeq(slot')
    /\ UNCHANGED issued

-----------------------------------------------------------------------------

ImportStep(m) == ImportBegin(m) \/ ImportLease(m) \/ ImportPayload(m) \/ ImportSeal(m) \/ ImportAbort(m)
VerifyStep(m) == VerifyBegin(m) \/ VerifyGate(m) \/ VerifyLease(m) \/ VerifyScrub(m)
ActivateStep(m) == ActivateBegin(m) \/ ActivateGate(m) \/ ActivateRead(m) \/ ActivateWrite(m)
                   \/ ActivateTear(m) \/ ActivateSync(m)
PruneStep(m) == PruneBegin(m) \/ PruneGate(m) \/ PruneRead(m) \/ PruneSkip(m) \/ PruneSelect(m)
                \/ PruneUnlink(m) \/ PruneRmdir(m) \/ PruneDone(m)
OpenStep(r) == OpenGate(r) \/ OpenRead(r) \/ OpenLease(r) \/ OpenLoad(r) \/ Close(r)

Next ==
    \/ \E m \in Maintainers : ImportStep(m) \/ VerifyStep(m) \/ ActivateStep(m) \/ PruneStep(m)
    \/ \E r \in Readers : OpenStep(r)
    \/ \E p \in Procs : Fail(p) \/ Kill(p)
    \/ PowerLoss

Spec == Init /\ [][Next]_vars

\* A command that is running takes its next step or fails with an error; one
\* that waits for control.lock polls it every 20 ms, so it gets it if the lock
\* is free again and again.  Nobody has to start a command, to be killed, or
\* to close an open snapshot.
GateWait == {"verifyGate", "activateGate", "pruneGate"}
Maintain(m) == ImportStep(m) \/ VerifyStep(m) \/ ActivateStep(m) \/ PruneStep(m)
Fairness ==
    /\ \A m \in Maintainers :
        /\ WF_vars(pc[m] \notin GateWait \cup {"idle"} /\ (Maintain(m) \/ Fail(m)))
        /\ SF_vars(pc[m] \in GateWait /\ Maintain(m))
    /\ \A r \in Readers :
        WF_vars(pc[r] \notin {"idle", "open"} /\ (OpenStep(r) \/ Fail(r)))

FairSpec == Spec /\ Fairness

-----------------------------------------------------------------------------
(* Properties *)

\* The state's shape.
TypeOK ==
    /\ slot \in [Slots -> SlotValue] /\ disk \in [Slots -> SlotValue]
    /\ files \in [Gens -> SUBSET Files] /\ diskFiles \in [Gens -> SUBSET Files]
    /\ issued \subseteq Gens
    /\ update \subseteq Maintainers /\ gateEx \subseteq Maintainers /\ gateSh \subseteq Procs
    /\ lease \in [Gens -> SUBSET Procs]
    /\ pc \in [Procs -> PcValue]
    /\ gen \in [Procs -> Gens \cup {NoGen}]
    /\ plan \in [Procs -> Plan]
    /\ todo \in [Procs -> SUBSET Gens]
    /\ acked \in Seqs

\* The two slots never hold the same sequence number, on the running system or
\* on what a power failure would leave of it, so readSelection's
\* "activation_conflict", which needs an administrator, is never reached by
\* any sequence of activations, torn writes, kills and restarts.
NoActivationConflict ==
    \A s \in {slot, disk} : Valid(s[0]) /\ Valid(s[1]) => s[0].seq # s[1].seq

\* Both slot targets keep their payload: no prune, import cleanup or crash in
\* the middle of one takes data away that either slot would select.
SlotTargetsRetained ==
    \A i \in Slots : Valid(slot[i]) => "payload" \in files[slot[i].gen]

\* An open snapshot's generation stays complete until Close: the lease, taken
\* under the gate and released by Prune's probe before the removal, is enough.
OpenSnapshotIntact ==
    \A r \in Readers : pc[r] = "open" => files[gen[r]] = Files

\* No step but a power failure takes the selection back to an older sequence,
\* a torn slot write included.
SelectionNeverLost ==
    [][PowerLoss \/ BestSeq(slot') >= BestSeq(slot)]_vars

\* An activation reported as successful survives a power failure, unless later
\* writes were cut in both slots, before their sync or by an earlier failure: a
\* torn slot that reads as it was synced is still a slot that lost its record.
Cut(i) == slot[i] # disk[i] \/ slot[i] = Torn
ActivationDurable ==
    [][PowerLoss /\ (\E i \in Slots : ~Cut(i)) => BestSeq(slot') >= acked]_vars

\* The corpus behaves as AbstractCorpus says: a torn or failed activation
\* changes nothing a reader sees, and what is selected or pinned stays stored.
Abstract == INSTANCE AbstractCorpus WITH
    stored <- {g \in Gens : "payload" \in files[g]},
    selected <- Selected(slot),
    pinned <- [r \in Readers |-> IF pc[r] \in {"openLoad", "open"} THEN gen[r] ELSE NoGen]
ImplementsAbstract == Abstract!ASpec


\* docs/offline-passwords.md: "New readers see the newly selected version."
\* After a successful Activate a new reader can take the selected lease.
NewReadersSeeSelection ==
    acked # 0 /\ acked = BestSeq(slot) => "lease" \in files[Selected(slot)]

-----------------------------------------------------------------------------
(* The inductive invariant: what makes the properties above hold *)

\* A process past its first step works on a generation that was issued.
MaintainPcs == ImportPcs \cup VerifyPcs \cup ActivatePcs \cup PrunePcs
PinnedPcs == {"verifyScrub", "openLoad", "open"}
WorkPcs == ImportPcs \cup VerifyPcs \cup ActivatePcs \cup {"pruneRemove", "openLease"} \cup PinnedPcs
WorkInv == \A p \in Procs : pc[p] \in WorkPcs => gen[p] \in Gens

\* Why NoActivationConflict holds: active-a only ever gets odd sequences and
\* active-b even ones, because each publication goes to the other slot.
SlotParity(s) == \A i \in Slots : Valid(s[i]) => s[i].seq % 2 = 1 - i
PlanParity ==
    \A p \in Procs : pc[p] \in {"activateWrite", "activateSync"} =>
        plan[p].seq # 0 /\ plan[p].seq % 2 = 1 - plan[p].slot
ParityInv == SlotParity(slot) /\ SlotParity(disk) /\ PlanParity

\* Who holds which lock, read off the program counters.
UpdateInv ==
    /\ \A p \in Procs : pc[p] \in MaintainPcs => p \in update
    /\ \A p, q \in update : p = q
GateExPcs == {"activateRead", "activateWrite", "activateSync", "pruneRead", "pruneNext", "pruneRemove"}
GateShPcs == {"verifyLease", "openRead", "openLease"}
GateInv ==
    /\ \A p \in Procs : pc[p] \in GateExPcs => p \in gateEx
    /\ \A p \in Procs : pc[p] \in GateShPcs => p \in gateSh
    /\ \A p, q \in gateEx : p = q
    /\ gateEx = {} \/ gateSh = {}
LeaseInv == \A p \in Procs : pc[p] \in PinnedPcs => p \in lease[gen[p]]
LockInv == UpdateInv /\ GateInv /\ LeaseInv

\* Nothing refers to a generation that was never issued.
SlotsIssued == Referenced(slot) \cup Referenced(disk) \subseteq issued
StoredIssued ==
    \A g \in Gens : files[g] # {} \/ diskFiles[g] # {} \/ lease[g] # {} => g \in issued
WorkIssued ==
    \A p \in Procs : pc[p] \in ImportPcs \cup ActivatePcs \cup {"openLease"} => gen[p] \in issued
IssuedInv == SlotsIssued /\ StoredIssued /\ WorkIssued

\* A generation under construction cannot be selected or pinned.
ImportInv ==
    \A m \in Procs : pc[m] \in ImportPcs =>
        /\ gen[m] \notin Referenced(slot)
        /\ lease[gen[m]] = {}
        /\ "dir" \in files[gen[m]]
        /\ \A p \in Procs : pc[p] = "openLease" => gen[p] # gen[m]

\* A generation has a directory around its files, a pinned one also its lease
\* file, an open one everything; one that is being removed is not pinned.
DirectoryInv ==
    \A g \in Gens : /\ files[g] # {} => "dir" \in files[g]
                    /\ lease[g] # {} => "lease" \in files[g]
OpenInv == \A p \in Procs : pc[p] = "open" => files[gen[p]] = Files
RemovalInv == \A p \in Procs : pc[p] = "pruneRemove" => lease[gen[p]] = {}
PinInv == DirectoryInv /\ OpenInv /\ RemovalInv

\* The gate keeps the slots still between a reading of them and the step that
\* relies on it: the write of an activation, and the lease of an open.
PlanCurrent == \A p \in Procs : pc[p] = "activateWrite" => plan[p] = NextPlan(slot)
WriteCurrent ==
    \A p \in Procs : pc[p] = "activateSync" =>
        Valid(slot[plan[p].slot]) /\ slot[plan[p].slot].seq = plan[p].seq
PinCurrent == \A p \in Procs : pc[p] = "openLease" => gen[p] = Selected(slot)
CurrentInv == PlanCurrent /\ WriteCurrent /\ PinCurrent

\* Where a slot is uncut, an uncut slot holds the acknowledged activation or a
\* later one, and no synced record is newer than the selection.
SyncedInv == \A i \in Slots : Valid(disk[i]) => disk[i].seq <= BestSeq(slot)
AckedInv ==
    acked = 0 \/ (\A i \in Slots : Cut(i))
    \/ \E i \in Slots : ~Cut(i) /\ Valid(slot[i]) /\ slot[i].seq >= acked
DurableInv == SyncedInv /\ AckedInv

CorpusInv == TypeOK /\ WorkInv /\ ParityInv /\ LockInv /\ IssuedInv /\ ImportInv /\ PinInv

\* Without power failures also: the generations a prune removes are not those
\* the slots refer to, and an activation's candidate keeps its payload.
RetainInv ==
    /\ \A i \in Slots : Valid(slot[i]) => "payload" \in files[slot[i].gen]
    /\ \A p \in Procs : pc[p] \in ActivatePcs => "payload" \in files[gen[p]]
    /\ \A p \in Procs : pc[p] \in {"pruneNext", "pruneRemove"} => todo[p] \cap Referenced(slot) = {}
    /\ \A p \in Procs : pc[p] = "pruneRemove" => gen[p] \notin Referenced(slot)
=============================================================================
