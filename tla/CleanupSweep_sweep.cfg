SPECIFICATION FairSweep
CONSTANTS
    Name <- ThreeNames
    Handler = {h1, h2}
    PageSize = 1
    MaxPages = 2
INVARIANTS SweepIndInv
PROPERTIES TokenPassesVictims SweepReachesEveryPage
