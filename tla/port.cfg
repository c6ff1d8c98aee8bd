CONSTANTS
    EC_MAXBUF = 4
    Segments = 2
    Calls = {"FPRD", "LRD"}
    MaxRequests = 5
    MaxTries = 2
    MaxLate = 1
SPECIFICATION Spec
INVARIANTS PortTypeOK NoSharing LeaksAreLate OwnAnswers
\* The requests are bounded.
CHECK_DEADLOCK FALSE
