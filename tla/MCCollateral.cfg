SPECIFICATION Spec
CONSTANT Calls <- CollateralCalls
INVARIANTS
    AnchoredInTrustedRoot
    PckRevokedByItsIssuer
PROPERTY ImplementsTrust
CHECK_DEADLOCK FALSE
