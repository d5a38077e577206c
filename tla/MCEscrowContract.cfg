SPECIFICATION Spec
CONSTANTS
    Apps = {a1, a2}
    Sessions = {s1, s2}
    NoSession = NoSession
    Amounts <- MCAmounts
INVARIANTS
    Solvent
PROPERTIES
    FrozenHoldsMoney
    ImplementsCustody
