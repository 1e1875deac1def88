---------------------------- MODULE WatchMonitor ----------------------------
(***************************************************************************)
(* Watch mode (internal/monitor: engine.go, store.go): a single process    *)
(* inspects every target, then records the targets one after another: the  *)
(* changes are appended to a bounded two-generation log, the log is        *)
(* synced, and only then the target's baseline file is replaced.  The      *)
(* process may stop between any two steps (kill, or the exit that follows  *)
(* every storage error); the machine may lose power; a stopped operator    *)
(* may remove a baseline.  Providers change their answers at any time.     *)
(*                                                                         *)
(* Log sizes are counted in records.  A change is its own ID: the code     *)
(* hashes exactly the fields kept here (SHA-256, assumed collision free).  *)
(* observations.jsonl goes through the same appendLog with a fresh random  *)
(* ID each time; only its failure, a stop, matters to the changes.         *)
(***************************************************************************)
EXTENDS SnapshotDiff, Sequences

CONSTANTS
    NTargets,    \* targets are numbered in their sorted order
    Sources,     \* sources that answer for a target
    Answers,     \* the complete answers a provider may give
    LogCap,      \* MaxLogBytes, in records; a batch may hold half of it
    Failures,    \* the faults of the environment: "stop", "power", "clear"
    MaxMoves,    \* bound: how often providers change their answer
    MaxFailures  \* bound: how many faults happen

ASSUME WatchAssumption ==
    /\ NTargets \in Nat \ {0}
    /\ LogCap \in Nat /\ LogCap >= 2
    /\ NoAnswer \notin Answers
    /\ IsFiniteSet(Sources)
    /\ \A a \in Answers : IsFiniteSet(a.ev) /\ NoEvidence \notin a.ev
    /\ Failures \subseteq {"stop", "power", "clear"}
    /\ MaxMoves \in Nat /\ MaxFailures \in Nat

Targets == 1 .. NTargets
BatchCap == LogCap \div 2
Generations == {"arch", "cur"}       \* changes.1.jsonl and changes.jsonl
Steps == {"down", "inspect", "record", "append", "write", "save", "saveSync"}

VARIABLES
    world,     \* [Targets -> [Sources -> Answers]]: what the providers hold
    base,      \* [Targets -> Snapshot]: the baseline files as a read sees them
    baseDisk,  \* the baseline files as synced
    log,       \* [Generations -> Seq(record)]: complete records of each file
    tail,      \* [Generations -> BOOLEAN]: an incomplete record follows them
    synced,    \* [Generations -> Nat]: leading records known to be synced
    seen,      \* logState.seen, in memory
    size,      \* logState.size, in memory
    pc,        \* where the process is; "down" when there is none
    asked,     \* <<target, source>> pairs inspected in this cycle
    found,     \* [Targets -> [Sources -> answer]]: good answers of this cycle
    at,        \* the target being recorded
    next,      \* the merged snapshot of that target
    batch,     \* its changes not yet appended
    moves, failures,   \* counters of the two bounds
    dropped,   \* history: records that left with a replaced archive
    told       \* history: evidence a reader derives from the records in order

files == <<base, baseDisk, log, tail, synced>>
memory == <<seen, size, pc, asked, found, at, next, batch>>
environment == <<world, moves, failures>>
history == <<dropped, told>>
vars == <<files, memory, environment, history>>

-----------------------------------------------------------------------------
(* Records *)

Corrupt == [kind |-> "corrupt"]   \* two writes run together in one line

NoSources == [s \in Sources |-> NoAnswer]
\* newSnapshot; why is history: the changes this snapshot was replaced with.
NewSnapshot == [rev |-> 0, src |-> NoSources, why |-> {}]

\* Faulty variant: the revision is not part of the identity.
ChangeIdWithoutRevision(t, rev, s, c) == [target |-> t, rev |-> 0, source |-> s, change |-> c]

\* The identity hashes target, revision of the old baseline and the event.
ChangeId(t, rev, s, c) == [target |-> t, rev |-> rev, source |-> s, change |-> c]

Changes(t, old, good) ==
    UNION {{ChangeId(t, old.rev, s, c) : c \in Diff(old.src[s], good[s])}
            : s \in Compared(old, good)}

Merged(t, old, good) ==
    [rev |-> MergedRevision(old, good), src |-> MergedSources(old, good),
     why |-> Changes(t, old, good)]

RecordsOf(seq) == {seq[i] : i \in DOMAIN seq}
Retained == RecordsOf(log["arch"]) \cup RecordsOf(log["cur"])

\* Faulty variant: only the current generation is read at start-up.
RereadCurrentOnly == RecordsOf(log["cur"])

\* loadLog: the IDs of both generations.
Reread == Retained

\* The records a power failure cannot take away.
Durable ==
    UNION {{log[f][i] : i \in 1 .. synced[f]} : f \in Generations}

Init ==
    /\ world \in [Targets -> [Sources -> Answers]]
    /\ base = [t \in Targets |-> NewSnapshot]
    /\ baseDisk = base
    /\ log = [f \in Generations |-> <<>>]
    /\ tail = [f \in Generations |-> FALSE]
    /\ synced = [f \in Generations |-> 0]
    /\ seen = {} /\ size = 0
    /\ pc = "down"
    /\ asked = {} /\ found = [t \in Targets |-> NoSources]
    /\ at = 1 /\ next = NewSnapshot /\ batch = {}
    /\ moves = 0 /\ failures = 0
    /\ dropped = {} /\ told = [t \in Targets |-> [s \in Sources |-> {}]]

-----------------------------------------------------------------------------
(* Start-up: OpenStore *)

\* Faulty variant: an incomplete trailing record is left in place.
RepairedUntrimmed == tail

\* loadLog cuts an incomplete trailing record off either generation.
Repaired == [f \in Generations |-> FALSE]

\* Both generations are read; a repaired file is synced, an intact one is not.
Open ==
    /\ pc = "down"
    /\ Corrupt \notin Retained      \* otherwise start-up fails for good
    /\ tail' = Repaired
    /\ synced' = [f \in Generations |-> IF tail[f] THEN Len(log[f]) ELSE synced[f]]
    /\ seen' = Reread
    /\ size' = Len(log["cur"])
    /\ pc' = "inspect" /\ asked' = {} /\ found' = [t \in Targets |-> NoSources]
    /\ at' = 1 /\ next' = NewSnapshot /\ batch' = {}
    /\ UNCHANGED <<base, baseDisk, log, environment, history>>

-----------------------------------------------------------------------------
(* One cycle: inspect concurrently, then record in target order *)

\* A source answers completely, or it fails, is cut off, or answers partially.
\* Only a complete answer is kept.
Inspect(t, s, good) ==
    /\ pc = "inspect" /\ <<t, s>> \notin asked
    /\ asked' = asked \cup {<<t, s>>}
    /\ found' = [found EXCEPT ![t][s] = IF good THEN world[t][s] ELSE NoAnswer]
    /\ UNCHANGED <<files, seen, size, pc, at, next, batch, environment, history>>

Gathered ==
    /\ pc = "inspect" /\ asked = Targets \X Sources
    /\ pc' = "record" /\ at' = 1
    /\ UNCHANGED <<files, seen, size, asked, found, next, batch, environment, history>>

\* The target is done; after the last one the next cycle begins.
NextTarget ==
    IF at < NTargets
    THEN /\ pc' = "record" /\ at' = at + 1
         /\ UNCHANGED <<asked, found>>
    ELSE /\ pc' = "inspect" /\ at' = 1
         /\ asked' = {} /\ found' = [t \in Targets |-> NoSources]

\* Faulty variant: the baseline is saved without logging its changes first.
RecordSaves ==
    /\ pc = "record"
    /\ LET m == Merged(at, base[at], found[at]) IN
       IF m.src = base[at].src
       THEN NextTarget /\ UNCHANGED <<next, batch>>
       ELSE /\ next' = m /\ batch' = {} /\ pc' = "save"
            /\ UNCHANGED <<asked, found, at>>
    /\ UNCHANGED <<files, seen, size, environment, history>>

\* record up to the logs: load the baseline, merge the good answers into it.
\* Nothing is written when no answer changes the snapshot.
Record ==
    /\ pc = "record"
    /\ LET m == Merged(at, base[at], found[at]) IN
       IF m.src = base[at].src
       THEN /\ NextTarget
            /\ UNCHANGED <<next, batch>>
       ELSE /\ next' = m /\ batch' = m.why
            /\ pc' = IF m.why = {} THEN "save" ELSE "append"
            /\ UNCHANGED <<asked, found, at>>
    /\ UNCHANGED <<files, seen, size, environment, history>>

\* Faulty variant: the log rotates one batch too late.
MustRotateLate == size >= LogCap

\* The whole batch is counted, records already in the log included.
MustRotate == size + Cardinality(batch) > LogCap

\* appendLog before its loop: an oversized batch stops the monitor; a full log
\* is renamed over the archive and both generations are read again.
AppendBegin ==
    /\ pc = "append"
    /\ IF Cardinality(batch) > BatchCap
       THEN /\ pc' = "down"
            /\ UNCHANGED <<log, tail, synced, seen, size, dropped>>
       ELSE /\ pc' = "write"
            /\ IF MustRotate
               THEN /\ log' = [arch |-> log["cur"], cur |-> <<>>]
                    /\ tail' = [arch |-> tail["cur"], cur |-> FALSE]
                    /\ synced' = [arch |-> synced["cur"], cur |-> 0]
                    /\ seen' = RecordsOf(log["cur"]) /\ size' = 0
                    /\ dropped' = dropped \cup RecordsOf(log["arch"])
               ELSE UNCHANGED <<log, tail, synced, seen, size, dropped>>
    /\ UNCHANGED <<base, baseDisk, asked, found, at, next, batch, environment, told>>

\* One record of the batch; a record already in the log is skipped.  A write
\* that follows an incomplete record would run into it.
WriteChange ==
    /\ pc = "write" /\ batch # {}
    /\ LET e == CHOOSE c \in batch : TRUE IN
       /\ batch' = batch \ {e}
       /\ IF e \in seen
          THEN UNCHANGED <<log, tail, seen, size, told>>
          ELSE /\ log' = [log EXCEPT !["cur"] =
                            Append(@, IF tail["cur"] THEN Corrupt ELSE e)]
               /\ tail' = [tail EXCEPT !["cur"] = FALSE]
               /\ seen' = seen \cup {e} /\ size' = size + 1
               /\ told' = [told EXCEPT ![e.target][e.source] = Replay({e.change}, @)]
    /\ UNCHANGED <<base, baseDisk, synced, pc, asked, found, at, next, environment, dropped>>

\* Faulty variant: the log is left to the page cache.
SyncLogSkipped ==
    /\ pc = "write" /\ batch = {}
    /\ pc' = "save"
    /\ UNCHANGED <<files, seen, size, asked, found, at, next, batch, environment, history>>

SyncLog ==
    /\ pc = "write" /\ batch = {}
    /\ synced' = [synced EXCEPT !["cur"] = Len(log["cur"])]
    /\ pc' = "save"
    /\ UNCHANGED <<base, baseDisk, log, tail, seen, size, asked, found, at, next, batch,
                   environment, history>>

\* atomicFile: a synced temporary file is renamed over the baseline ...
SaveRename ==
    /\ pc = "save"
    /\ base' = [base EXCEPT ![at] = next]
    /\ told' = [told EXCEPT ![at] =
                 [s \in Sources |-> IF base[at].src[s] = NoAnswer /\ next.src[s] # NoAnswer
                                    THEN next.src[s].ev ELSE @[s]]]
    /\ pc' = "saveSync"
    /\ UNCHANGED <<baseDisk, log, tail, synced, seen, size, asked, found, at, next, batch,
                   environment, dropped>>

\* ... and the directory is synced.
SaveSync ==
    /\ pc = "saveSync"
    /\ baseDisk' = [baseDisk EXCEPT ![at] = base[at]]
    /\ NextTarget
    /\ next' = NewSnapshot
    /\ UNCHANGED <<base, log, tail, synced, seen, size, batch, environment, history>>

-----------------------------------------------------------------------------
(* Environment *)

Move(t, s, a) ==
    /\ moves < MaxMoves /\ world[t][s] # a
    /\ moves' = moves + 1
    /\ world' = [world EXCEPT ![t][s] = a]
    /\ UNCHANGED <<files, memory, failures, history>>

Fault(kind) ==
    /\ kind \in Failures /\ failures < MaxFailures
    /\ failures' = failures + 1
    /\ UNCHANGED <<world, moves, history>>

Down ==
    /\ pc' = "down" /\ seen' = {} /\ size' = 0 /\ at' = 1
    /\ asked' = {} /\ found' = [t \in Targets |-> NoSources]
    /\ next' = NewSnapshot /\ batch' = {}

Writing == pc = "write" /\ ~(batch \subseteq seen)

\* The process is killed, is told to stop, or exits on a storage error; a record
\* may be half written.
Stop ==
    /\ pc # "down" /\ Fault("stop") /\ Down
    /\ \/ UNCHANGED tail
       \/ Writing /\ tail' = [tail EXCEPT !["cur"] = TRUE]
    /\ UNCHANGED <<base, baseDisk, log, synced>>

\* Unsynced appends survive as a prefix, perhaps with part of one more record;
\* an unsynced rename survives or not.
PowerLoss ==
    /\ Fault("power") /\ Down
    /\ \E n \in [Generations -> 0 .. LogCap] :
         /\ \A f \in Generations : n[f] \in synced[f] .. Len(log[f])
         /\ log' = [f \in Generations |-> SubSeq(log[f], 1, n[f])]
         /\ synced' = n
         /\ tail' \in [Generations -> BOOLEAN]
         /\ \A f \in Generations :
              tail'[f] => tail[f] \/ n[f] < Len(log[f]) \/ (f = "cur" /\ Writing)
    /\ base' \in [Targets -> {base[t] : t \in Targets} \cup {baseDisk[t] : t \in Targets}]
    /\ \A t \in Targets : base'[t] \in {base[t], baseDisk[t]}
    /\ baseDisk' = base'

\* While stopped, the operator removes a baseline (or it no longer parses, which
\* Load treats alike).
Clear(t) ==
    /\ pc = "down" /\ base[t] # NewSnapshot /\ Fault("clear")
    /\ base' = [base EXCEPT ![t] = NewSnapshot]
    /\ baseDisk' = [baseDisk EXCEPT ![t] = NewSnapshot]
    /\ UNCHANGED <<log, tail, synced, memory>>

-----------------------------------------------------------------------------
(* Specification *)

Next ==
    \/ Open
    \/ \E t \in Targets, s \in Sources, good \in BOOLEAN : Inspect(t, s, good)
    \/ Gathered \/ Record \/ AppendBegin \/ WriteChange \/ SyncLog \/ SaveRename \/ SaveSync
    \/ \E t \in Targets, s \in Sources, a \in Answers : Move(t, s, a)
    \/ Stop \/ PowerLoss \/ (\E t \in Targets : Clear(t))

Spec == Init /\ [][Next]_vars

\* The process keeps going and is restarted; a source that is asked again and
\* again some time answers completely.
Fairness ==
    /\ WF_vars(Open) /\ WF_vars(Gathered) /\ WF_vars(Record) /\ WF_vars(AppendBegin)
    /\ WF_vars(WriteChange) /\ WF_vars(SyncLog) /\ WF_vars(SaveRename) /\ WF_vars(SaveSync)
    /\ \A t \in Targets, s \in Sources :
         /\ WF_vars(\E good \in BOOLEAN : Inspect(t, s, good))
         /\ SF_vars(Inspect(t, s, TRUE))

FairSpec == Spec /\ Fairness

-----------------------------------------------------------------------------
(* Properties *)

Evidences == UNION {a.ev : a \in Answers}
SnapshotOK(b) ==
    /\ DOMAIN b = {"rev", "src", "why"}
    /\ b.rev \in Nat
    /\ b.src \in [Sources -> Answers \cup {NoAnswer}]

\* Every variable has its type (the shapes of Store, Engine and the files).
TypeOK ==
    /\ world \in [Targets -> [Sources -> Answers]]
    /\ DOMAIN base = Targets /\ DOMAIN baseDisk = Targets
    /\ \A t \in Targets : SnapshotOK(base[t]) /\ SnapshotOK(baseDisk[t])
    /\ DOMAIN log = Generations /\ tail \in [Generations -> BOOLEAN]
    /\ DOMAIN synced = Generations
    /\ \A f \in Generations : synced[f] \in 0 .. Len(log[f])
    /\ size \in 0 .. LogCap /\ pc \in Steps /\ at \in Targets
    /\ asked \subseteq Targets \X Sources
    /\ found \in [Targets -> [Sources -> Answers \cup {NoAnswer}]]
    /\ SnapshotOK(next)
    /\ moves \in 0 .. MaxMoves /\ failures \in 0 .. MaxFailures
    /\ told \in [Targets -> [Sources -> SUBSET Evidences]]

\* A change ID occurs once in the retained generations, whatever is replayed
\* after a stop (the seen check of appendLog, rebuilt by loadLog).
NoDuplicateChange ==
    LET all == log["arch"] \o log["cur"]
    IN  \A i, j \in DOMAIN all : i # j => all[i] # all[j]

\* Every store the monitor leaves behind can be opened again: no generation
\* outgrows the limit the next start-up reads with, incomplete record included,
\* and no complete line is the concatenation of a record cut short by a stop and
\* a later one. Start-up would refuse either for good (readBounded, loadLog).
LogReadable ==
    /\ \A f \in Generations : Len(log[f]) + (IF tail[f] THEN 1 ELSE 0) <= LogCap
    /\ Corrupt \notin Retained

\* Log first, then baseline: the changes that separate a baseline from the one
\* it replaced have been appended (they may since have left with an archive).
LogBeforeBaseline == \A t \in Targets : base[t].why \subseteq Retained \cup dropped

\* The changes are synced to the log before the baseline is replaced
\* (docs/watch.md: "Changes are synced to the bounded log before the baseline is
\* replaced").
SyncedBeforeReplaced == \A t \in Targets : base[t].why \subseteq Durable \cup dropped

\* What a reader derives who applies the change records in order to the first
\* baselines agrees with the current ones.
RecordAgrees ==
    \A t \in Targets, s \in Sources :
        base[t].src[s] # NoAnswer => told[t][s] = base[t].src[s].ev

\* Without a fault the record agrees between cycles, across rotations, failing
\* sources and values that return (the revision in the change ID).
UninterruptedRecord == failures = 0 /\ pc = "inspect" /\ asked = {} => RecordAgrees

\* After a stop, too, a cycle in which every source answered completely leaves a
\* record that agrees (docs/watch.md: "A->B->A records both real transitions",
\* "Consult changes.jsonl as the persistent notification record").
CompleteCycleRecord ==
    [][ pc # "down" /\ pc # "inspect" /\ pc' = "inspect"
        /\ (\A t \in Targets, s \in Sources : found[t][s] # NoAnswer)
        => RecordAgrees' ]_vars

\* Once providers stop changing, every baseline comes to hold what they answer.
Converges ==
    \A t \in Targets, s \in Sources : <>[](base[t].src[s] = world[t][s])

-----------------------------------------------------------------------------
(* Parts of the inductive invariants *)

IsSequence(q) == \E S : q \in Seq(S)
Distinct(q) == \A i, j \in DOMAIN q : i # j => q[i] # q[j]

\* The two generations hold distinct records, none of them in both.
LogsDistinct ==
    /\ IsSequence(log["arch"]) /\ IsSequence(log["cur"])
    /\ Distinct(log["arch"]) /\ Distinct(log["cur"])
    /\ RecordsOf(log["arch"]) \cap RecordsOf(log["cur"]) = {}

\* A running process knows what the files retain and left no record cut short.
MemoryMatchesLog ==
    /\ DOMAIN log = Generations /\ DOMAIN tail = Generations
    /\ pc # "down" => seen = Retained /\ ~tail["cur"]

DistinctInv == LogsDistinct /\ MemoryMatchesLog

\* What has to be in the log before the pending baseline may be renamed.
PendingLogged ==
    /\ pc = "save" => batch = {}
    /\ pc \in {"append", "write", "save"} => next.why \ batch \subseteq Retained \cup dropped

FirstLogged ==
    /\ DOMAIN base = Targets
    /\ LogBeforeBaseline /\ PendingLogged

\* Between the merge and the rename the process works on what it merged.
PendingPcs == {"append", "write", "save"}
PendingInv ==
    /\ pc \in PendingPcs =>
         /\ next = Merged(at, base[at], found[at]) /\ next.src # base[at].src
         /\ batch \subseteq next.why
    /\ pc = "append" => batch = next.why
    /\ pc = "save" => batch = {}

\* A running process knows the size of its log, and a batch it has begun fits.
SizeInv ==
    /\ pc # "down" => size = Len(log["cur"])
    /\ pc = "write" => size + Cardinality(batch) <= LogCap

WatchInv == TypeOK /\ DistinctInv /\ PendingInv /\ SizeInv /\ LogReadable

\* What a reader derives from the record while a target's changes are written.
OfSource(records, s) == {e.change : e \in {d \in records : d.source = s}}
Applied(t, s) ==
    IF pc \in PendingPcs /\ t = at
    THEN Replay(OfSource(next.why \ batch, s), base[t].src[s].ev)
    ELSE base[t].src[s].ev
RecordFollows ==
    \A t \in Targets, s \in Sources : base[t].src[s] # NoAnswer => told[t][s] = Applied(t, s)

\* A record is of an earlier revision of its target than the baseline, unless it
\* was written for the one that is pending: so no pending change is skipped.
RevisionsPassed ==
    \A e \in Retained :
        /\ e.target \in Targets /\ e.rev \in Nat
        /\ \/ e.rev < base[e.target].rev
           \/ pc \in PendingPcs /\ e \in next.why \ batch
RecordInv == failures = 0 => RecordFollows /\ RevisionsPassed

\* Without kills only the batch that is being written is not yet synced, and both
\* the baseline in place and the synced one report synced changes.
BatchUnsynced ==
    /\ synced["arch"] = Len(log["arch"])
    /\ pc # "write" => synced["cur"] = Len(log["cur"])
SyncedFirst ==
    /\ BatchUnsynced
    /\ \A t \in Targets : base[t].why \cup baseDisk[t].why \subseteq Durable \cup dropped
    /\ pc \in PendingPcs => next.why \ batch \subseteq Retained \cup dropped
=============================================================================
