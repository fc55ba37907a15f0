SPECIFICATION FairSpec
CONSTANTS
    Conns = {c1, c2}
    Nos = {1, 2}
    Counts = {1}
    MaxRtx = 1
    Hurry = 1
    Scan = Scan
    Foreign = Foreign
    Nothing = Nothing
INVARIANTS TypeOK FirstIsOwn QuietAtRest
PROPERTIES Settles TimerNearsEnd ImplementsAnswerStream
