\* Two of three standbys, of which one may be lost before the promotion.
SPECIFICATION Spec
CONSTANTS
    a = a b = b c1 = c1 c2 = c2 s1 = s1 s2 = s2 s3 = s3
    Keys <- TwoKeys
    Calls <- TwoCalls
    Standbys <- ThreeStandbys
    RequiredStandbys = 2
    MaxEpoch = 2
SYMMETRY Symmetry
INVARIANTS ConfirmedSurvives OneOwner
