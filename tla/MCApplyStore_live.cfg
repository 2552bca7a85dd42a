SPECIFICATION FairSpec
CONSTANTS
    AppIds = {a1}
    Groups = {g1}
    Applicants = {q1}
    IPs = {ip1}
    FakeLimit = 2
    PyThreads = {p1}
    GoThreads = {n1, n2}
    Kinds = {"create", "status", "delete", "block", "bot", "repeat"}
    MaxRequests = 3
    MaxCrashes = 1
PROPERTIES
    
    WhitelistConverges
