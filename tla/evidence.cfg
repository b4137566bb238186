SPECIFICATION Spec
CONSTANTS
    Shell = {s1, s2}
    Absent = Absent
    Torn = Torn
    MaxCommands = 4
    MaxRots = 1
SYMMETRY Symmetry
INVARIANTS
    ProvenanceNamesEvidence
    EvidenceIsFaithful
    ManifestsVerify
PROPERTIES
    EvidenceIsImmutable
CHECK_DEADLOCK FALSE
