SPECIFICATION Spec
CONSTANTS
    Ends = 1
    Samples = {3, 77, 101, 250, 40302}
    MaxFactorial = 12
    Jobs = {3, 4}
    Bins = {2, 3}
    Steps = 3
    Places = {north, south}
    Running = running
    None = None
SYMMETRY Symmetry
INVARIANTS
    FactoryTypeOK
    KeyAnswers
    KeyUnique
    BooksNotNegative
