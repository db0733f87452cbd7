SPECIFICATION FairSpec
CONSTANTS
    MaxJobs = 1
    MaxSize = 1
    MaxBatch = 1
    Clients = {c1}
    MaxCrashes = 1
    MaxLostWrites = 0
PROPERTY
    RestartResumesQueue
