\* Two visitors, three blocks, two calls that fail.
SPECIFICATION FairScanSpec
CONSTANTS
    Visitors = {ann, bob}
    From = 1
    Lag = 1
    MaxHead = 3
    MaxFailures = 2
INVARIANTS ScanTypeOK NothingSkipped
PROPERTIES KeepsRecord EventsAreFound
