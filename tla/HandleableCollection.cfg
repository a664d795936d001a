SPECIFICATION Spec
CONSTANTS
    w3 = w3
    Items = {x1, x2}
    Waiters = {w1, w2, w3}
    Clearers = {c1}
    Disposers = {d1}
    Answers <- MixedAnswers
    Nobody = Nobody
    NoItem = NoItem
INVARIANTS
    DisposeIsSafe
    NobodyIsMissed
    ItemsAreConserved
PROPERTIES
    NoOvertaking
    DisposeReleasesWaiters
