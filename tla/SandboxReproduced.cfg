CONSTANTS
    ExitCodes = {0, 1}
SPECIFICATION Spec
INVARIANT
    PassMeansReproduced
