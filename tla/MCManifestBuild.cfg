SPECIFICATION FairSpec
CONSTANTS
    p1 = p1  p2 = p2
    Proc = {p1, p2}
    Host = Host
    None = None
    Unhashed = Unhashed
    Manifests <- AllManifests
    Exports <- AllExports
    MayFail = TRUE
INVARIANTS ContentById NothingMissing
PROPERTIES NoRebuild AllEnd
CHECK_DEADLOCK TRUE
