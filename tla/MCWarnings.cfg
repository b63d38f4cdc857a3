SPECIFICATION Spec
CONSTANTS
    Threads = {t1, t2}
    Messages = {m1}
    EmptyString = EmptyString
    NoThread = NoThread
    CLIENT_VERSION_IS_RELEASE = FALSE
SYMMETRY Symmetry
INVARIANTS
    TypeOK
    ReturnDescribesStore
PROPERTIES
    WritesHoldMutex
    ImplementsWarningStore
