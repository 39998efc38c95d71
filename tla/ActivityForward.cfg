\* Two visitors, nothing failing.
SPECIFICATION ScanSpec
SYMMETRY AlikeVisitors
CONSTANTS
    Visitors = {ann, bob}
    From = 1
    Lag = 0
    MaxHead = 3
    MaxFailures = 0
PROPERTY ForwardOnly
