SPECIFICATION Spec
CONSTANTS
    MaxInodes = 5
    MaxVersion = 2
    MaxKeys = 2
INVARIANTS WholeAndKept OrderSurvives ModesAsAsked
PROPERTY ImplementsAtomicFile
