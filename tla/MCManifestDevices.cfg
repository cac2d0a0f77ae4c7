SPECIFICATION Spec
CONSTANTS
    p1 = p1  p2 = p2
    Proc = {p1, p2}
    Host = Host
    None = None
    Unhashed = Unhashed
    Manifests <- DiskManifests
    Exports <- DiskExports
    MayFail = FALSE
INVARIANTS ContentById
CHECK_DEADLOCK TRUE
