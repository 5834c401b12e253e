SPECIFICATION Spec
CONSTANTS
    Modes = {"off", "auto-safe", "emergency-stop"}
    MaxDeaths = 1
    MaxRequests = 2
    MaxKills = 1
    Hour = 4
    Cooldown = 1
    MaxRestarts = 2
    Tools = {"git", "jq", "tesseract"}
    Core = {"git"}
    Provisioned = {"git", "jq"}
    MaxOutside = 1
    Names = {"a", "b"}
    MaxUpsets = 2
    k1 = k1  k2 = k2  r1 = r1  r2 = r2  o1 = o1
    Keys = {k1, k2}
    Requests = {r1, r2}
    Carried = {{"variant", "parts"}}
    MaxSpent = 1
    Owners = {o1}
    Catalogs <- TwoCatalogs
    Default = 1
    PinDefault = FALSE
    MaxEvents = 2
    Workers = 2
    Hosts <- SomeHosts
    Recovery = 2
    Window = 3
    MinSamples = 2
    MinAgreement = 60
    MaxMean = 40
    MaxDelta = 1
    MaxAggressive = 0
    Stable = 2
    PersistEvery = 1
    MaxAge = 1
    MaxEnds = 1
    Releases = {1, 2}
    MaxWrites = 2
    MaxTries = 2
    MaxAborts = 1
    MaxMade = 3
    Retention = 1
    MaxStops = 1
    MaxRots = 1
    Nobody = Nobody
    NaN = NaN
SYMMETRY Alike
INVARIANTS
    RebootAsSaid RestartsBounded ActivatedOrReported ReloadNotLost
    KeysServe TurnOnPin OutcomeTrue
PROPERTIES PolicyKept EarnedByTime TwoRemain
CHECK_DEADLOCK FALSE
