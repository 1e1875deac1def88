CONSTANTS
    NoGen = NoGen
    Gens = {g1, g2}
    Maintainers = {m1}
    Readers = {r1}
    SeqMod = 4
    PowerFails = FALSE
SPECIFICATION Spec
INVARIANT NewReadersSeeSelection
