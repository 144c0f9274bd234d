CONSTANTS
    logs = logs
    metrics = metrics
    traces = traces
    k1 = k1
    k2 = k2
    Pipeline = {logs, metrics, traces}
    Config = {k1, k2}
    ConfigOf <- MCConfigOf
    Creator = {c1, c2, c3, c4, c5, c6, c7, c8, c9}
    None = None
    MaxBuilds = 3
SPECIFICATION FairSharedSpec
INVARIANT SharedTypeOK
INVARIANT OneCreatorPerConfig
INVARIANT AttachedIsCached
INVARIANT StartedIsRunning
INVARIANT CachedIsFresh
PROPERTY ClosingReleases
