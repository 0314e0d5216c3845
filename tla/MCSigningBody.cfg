CONSTANTS
    Shells <- MCShells
    Openings <- MCOpenings
    Signings <- MCSignings
    Followings <- MCFollowings
    MaxFollowing <- MCMaxFollowing
SPECIFICATION Spec
INVARIANTS
    AcceptedMeansSigned
    RefusedForCause
CHECK_DEADLOCK FALSE
