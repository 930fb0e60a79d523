SPECIFICATION Spec
CONSTANTS
    Edges = 2
    Abouts = {"case"}
    Length = 4
    Manifest = 5
    Workers = {w1, w2, w3}
    ChunkSize = 2
    Failing = {c1, c2}
    Semantic = {match}
    Invariants = {bound}
    Declined = {c2}
    MaxRuns = 2
    MaxKills = 2
INVARIANTS DeclinesAreNoFindings
CHECK_DEADLOCK FALSE
