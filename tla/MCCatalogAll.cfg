SPECIFICATION Spec
CONSTANTS
    r1 = r1
    r2 = r2
    x = x
    y = y
    z = z
    l1 = l1
    l2 = l2
    Request = {r1, r2}
    Row = {i1, i2, i3, i4}
    Key = {x, y, z}
    List = {l1, l2}
    ListOf <- KeysOfLists
    Defaults <- DefaultAccounts
    May <- TwoOfEverything
    MaxAsked = 2
    Null = Null
SYMMETRY KeySymmetry
CONSTRAINT OneTable
INVARIANTS
    TypeOK
    KeysUnique
    StartedIsSeeded
PROPERTIES
    NothingElseVanishes
    ReplacementHolds
    ErrorHasReason
    UndoneLeavesNoTrace
