SPECIFICATION Spec
CONSTANTS
    k1 = k1
    k2 = k2
    Keys = {k1, k2}
    SelfKeys = {k2}
    Tribunal <- MCTribunal
    Envelopes <- MCEnvelopes
    Proposals <- MCProposals
    Admins = {a1, a2}
    NoPolicy = nopolicy
INVARIANTS QuorumExact UnsafeNeverValid
PROPERTY NoSilentOverwrite
