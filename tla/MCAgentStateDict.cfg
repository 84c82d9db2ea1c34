\* User code also sets items of a dict.
SPECIFICATION Spec
CONSTANTS
    a = a
    b = b
    items = items
    parts = parts
    meta = meta
    size = size
    key = key
    s1 = s1
    s2 = s2
    c1 = c1
    c2 = c2
    Atoms = {a, b}
    Objs = {1, 2, 3, 4, 5, 6, 7, 8, 9, 10, 11, 12, 13, 14, 15, 16}
    Keys = {key}
    Dash = Dash
    None = None
    States = {s1, s2}
    Apply <- ApplyPatch
    PatchError <- Unapplicable
    InitialHeap <- FreshStates
    ShrinkStates <- PlainStates
    ShrinkValue <- Plain
    Outcomes <- OutcomesOf
    Root <- MCRoot
    Initial <- MCInitial
    Literals <- MCLiterals
    Uses = {"dict set"}
    Tasks = {t1}
    SnapshotInterval = 2
    MaxMutations = 1
    NoPatch = NoPatch
    Clients = {c1}
    Subscribed <- MCSubscribed
    MaxStarts = 1
INVARIANTS Converged
CHECK_DEADLOCK FALSE
