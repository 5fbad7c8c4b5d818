SPECIFICATION Spec
CONSTANTS
    MaxText = 7
    MaxSize = 5
    Hit = {h1, h2, h3, h4}
    Document = {d1, d2}
    MaxCandidates = 4
    MaxShare = 3
    Parent = {p1, p2}
    HitLength = {1, 2, 3, 4, 5}
    ParentLength = {3, 6}
    Blanks = {0, 2}
    MaxHits = 3
    MaxTokens = 6
SYMMETRY MCSymmetry
INVARIANTS
    SplitLosesNothing
    CandidatesAreDiverse
    ContextFitsBudget
PROPERTY
    LoopsAdvance
