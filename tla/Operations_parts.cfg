CONSTANTS
    Components = {"opencode", "akm-cli"}
    Restartable = {"opencode"}
    MaxUpsets = 1
    Checks = {"check"}
    Versions = {"v1", "v2"}
    Installed = "v0"
    MaxCrashes = 1
    Collectors = {"timer", "hand"}
    Timer = "timer"
SPECIFICATION OperationsSpec
INVARIANTS
    
    ActiveCanaryBuilt 
    SourcesAddUp
PROPERTIES
    GivesUp DeadLockGoes
