SPECIFICATION Spec
CONSTANTS
    MAX_PACKAGE_COUNT = 2
    MAX_PACKAGE_SIZE = 1
    Placeholders = {ph1, ph2, ph3}
    large_ptx = large_ptx
    giant_ptx = giant_ptx
    tx_parent = tx_parent
    tx_child = tx_child
    vsize <- MCvsize
    Packages <- MCPackages
    Callers = {c1, c2}
    NoCaller = NoCaller
SYMMETRY Symmetry
INVARIANTS
    TypeOK
    PoolHoldsExactlyTheAcceptedMembers
    TestExpectationsHold
PROPERTY
    ImplementsPackageAdmission
