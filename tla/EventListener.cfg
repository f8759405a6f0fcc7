\* Every tree of up to five blocks and two payments.
SPECIFICATION ListenerSpec
CHECK_DEADLOCK FALSE
SYMMETRY Symmetry
CONSTANTS
    Tx = {t1, t2}
    MaxBlocks = 5
INVARIANTS
    NoRepeatedProcessing
