SPECIFICATION CISpec
CONSTANTS
    s1 = s1
    s2 = s2
    u1 = u1
    f1 = f1
    None = None
    Texts <- MCTexts
    Files = {f1}
    Shas = {s1, s2}
    Umbrellas = {u1}
    Gitlink <- MCGitlink
    Trees <- MCTrees
    Histories <- AllHistories
    PageSize = 1
    MaxRuns = 3
    MaxClock = 1
INVARIANTS
    PromotionIsFounded
    AcceptedWasGated
CHECK_DEADLOCK FALSE
