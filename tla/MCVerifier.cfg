CONSTANTS
    Nonces = {n1, n2}
    Goroutines = {g1, g2}
    Skew = 3
    MaxNonces = 1
    EvictEvery = 2
    Offset = 1
    MaxLag = 1
    MaxEnvelopes = 3
    MaxTime = 7
SPECIFICATION VerifierSpec
SYMMETRY Symmetric
INVARIANTS
    AcceptedAtMostOnce
    RecordedMeansAccepted
