SPECIFICATION Spec
CONSTANTS
    AppIds = {a1, a2}
    Groups = {g1}
    Applicants = {q1}
    IPs = {ip1}
    FakeLimit = 2
    PyThreads = {p1, p2}
    GoThreads = {n1}
    Kinds = {"create", "status", "note", "delete", "block", "unblock", "bot", "repeat"}
    MaxRequests = 4
    MaxCrashes = 1
SYMMETRY Symmetry
INVARIANTS
    TypeOK
    FakeCountExact
PROPERTIES
    NoLostUpdate
    DecisionsAreFinal
    SecondOnlyByReopening
