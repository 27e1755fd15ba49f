CONSTANTS
    Letter = {a, b, c}
SPECIFICATION MCSpec
INVARIANTS ScriptsShortest PatchesApply MergeSound PairingCheapest
