CONSTANTS
    NoGen = NoGen
    Gens = {g1, g2}
    Maintainers = {m1}
    Readers = {r1}
    SeqMod = 5
    PowerFails = TRUE
SPECIFICATION Spec
PROPERTY ActivationDurable
SYMMETRY CorpusSymmetry
