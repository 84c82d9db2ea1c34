\* Everyday mutations, one session.
SPECIFICATION FairSpec
CONSTANTS
    a = a
    b = b
    items = items
    parts = parts
    meta = meta
    size = size
    key = key
    s1 = s1
    s2 = s2
    c1 = c1
    c2 = c2
    Atoms = {a, b}
    Objs = {1, 2, 3, 4, 5, 6, 7, 8, 9, 10, 11, 12, 13, 14, 15, 16}
    Keys = {key}
    Dash = Dash
    None = None
    States = {s1, s2}
    Apply <- ApplyPatch
    PatchError <- Unapplicable
    InitialHeap <- FreshStates
    ShrinkStates <- PlainStates
    ShrinkValue <- Plain
    Outcomes <- OutcomesOf
    Root <- MCRoot
    Initial <- MCInitial
    Literals <- MCLiterals
    Uses = {}
    Tasks = {t1}
    SnapshotInterval = 2
    MaxMutations = 2
    NoPatch = NoPatch
    Clients = {c1, c2}
    Subscribed <- MCSubscribed
    MaxStarts = 1
INVARIANTS LogInOrder Converged ClientFollows RetrievedIsTrue RetrieversAgree FlushedIsOut
PROPERTIES AllPublished
CHECK_DEADLOCK FALSE
