CONSTANTS
  Requests = {r1, r2}  Ingest = ing  Keeps = {k1, k2}  AllUnits = k1
  Decisions = {f0, f1}  NoDecision = f0  Nothing = nothing  Torn = torn  MaxFaults = 1
  Works = {w}  Nobody = nobody
  Projects = {"p", "q"}  Files = {"f", "g"}  HomeOf <- MCHomeOf  Wanted <- MCWanted  RegisterMayFail = FALSE  CleanupFaults = 2
  Order <- MCOrder  Contents = {"bytes"}  Wrong = "?"  Runtimes = {"x", "y"}  Pieces = 2  Capacity = 7  MediaFaults = 1
SPECIFICATION SafeSpec
INVARIANTS SavedTogether ScreenMatchesPlan OthersKeepTheirFiles DeletedIsGivenUp MediaIsWhole PromisesFit NothingIsLost
PROPERTY CanceledStaysOut
SYMMETRY Alike
CHECK_DEADLOCK FALSE
