\* The runbook and its rollbacks with restarts: .env says dual_write, or the phase
\* entered last when the check at start-up fails.
CONSTANTS
    None = None  Blank = Blank
    ada = ada  mary = mary  alan = alan
    Name = {ada, mary, alan}
    Seed = {1}
    Req = {3, 5}
    Stored <- MCStored
    Plan <- NoRenames
    Script <- Rollback
    Patient = TRUE
    Env <- AlwaysDual
    Unchecked <- LastEntered
    BatchSize = 1
    MaxPasses = 5
    MaxRestarts = 1
    MaxTimeouts = 0
SPECIFICATION FairSpec
PROPERTIES
    FailsOnlyAcrossTheSwitch
    ClientsCannotTell
    MigrationCompletes
CHECK_DEADLOCK FALSE
