CONSTANTS
    NoGen = NoGen
    Gens = {g1, g2}
    Maintainers = {m1, m2}
    Readers = {r1}
    SeqMod = 4
    PowerFails = FALSE
SPECIFICATION FairSpec
INVARIANT TypeOK
INVARIANT NoActivationConflict
INVARIANT SlotTargetsRetained
INVARIANT OpenSnapshotIntact
PROPERTY SelectionNeverLost
PROPERTY ImplementsAbstract
 
