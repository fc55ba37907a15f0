SPECIFICATION Spec
CONSTANTS
    Conns = {c1, c2}
    Nos = {1, 2}
    Counts = {1}
    MaxRtx = 1
    Hurry = 0
    Scan = Scan
    Foreign = Foreign
    Nothing = Nothing
INVARIANT ResendsSame
