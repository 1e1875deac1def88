---------------------------- MODULE SnapshotDiff ----------------------------
(***************************************************************************)
(* The pure part of the watch monitor (internal/monitor/snapshot.go): the  *)
(* comparison of two complete answers of one source and the merge of a     *)
(* round of answers into a target's baseline.                              *)
(*                                                                         *)
(* Evidence is a set of [kind, value] items; an answer is [ev, prov], the  *)
(* canonical evidence set with the provenance of the rows it came from.    *)
(* A snapshot is [rev, src]: the revision counter and, per source, the     *)
(* last complete answer or NoAnswer.                                       *)
(***************************************************************************)
EXTENDS Integers, FiniteSets

CONSTANTS NoEvidence,   \* the nil evidence pointer of an ADDED/REMOVED change
          NoAnswer      \* a source without a baseline, or without a good answer

OfKind(E, k) == {e \in E : e.kind = k}
Single(E) == \E e \in E : E = {e}

Removed(old, now) == old.ev \ now.ev
Added(old, now) == now.ev \ old.ev

\* A kind with one unmatched old and one unmatched new item.
Paired(old, now, k) ==
    Single(OfKind(Removed(old, now), k)) /\ Single(OfKind(Added(old, now), k))

Reported(old, now, kind, o, n) ==
    [kind |-> kind, old |-> o, new |-> n, oldProv |-> old.prov, prov |-> now.prov]

Modifications(old, now) ==
    {Reported(old, now, "MODIFIED", p[1], p[2]) :
        p \in {q \in Removed(old, now) \X Added(old, now) :
                  q[1].kind = q[2].kind /\ Paired(old, now, q[1].kind)}}
Additions(old, now) ==
    {Reported(old, now, "ADDED", NoEvidence, b) :
        b \in {x \in Added(old, now) : ~Paired(old, now, x.kind)}}
Removals(old, now) ==
    {Reported(old, now, "REMOVED", a, NoEvidence) :
        a \in {x \in Removed(old, now) : ~Paired(old, now, x.kind)}}

\* diff: identical items cancel out; a paired kind is a modification, anything
\* else is added or removed without guessing what corresponds to what.
Diff(old, now) == Modifications(old, now) \cup Additions(old, now) \cup Removals(old, now)

\* What a reader of the change log does with a set of changes of one source.
Replay(changes, E) ==
    (E \ {c.old : c \in changes}) \cup ({c.new : c \in changes} \ {NoEvidence})

\* merge: complete answers replace the source's baseline, sources without one
\* keep theirs, and the revision counts snapshots whose content changed.
MergedSources(old, good) ==
    [s \in DOMAIN old.src |-> IF good[s] = NoAnswer THEN old.src[s] ELSE good[s]]
MergedRevision(old, good) ==
    IF MergedSources(old, good) = old.src THEN old.rev ELSE old.rev + 1
Compared(old, good) ==
    {s \in DOMAIN old.src : old.src[s] # NoAnswer /\ good[s] # NoAnswer}
=============================================================================
