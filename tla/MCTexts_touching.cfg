CONSTANTS
    Letter = {a, b, c}
SPECIFICATION MCSpec
INVARIANT IndependentCombine
