\* 0004 gives up once while an edit holds the table, and is run again.
CONSTANTS
    None = None  Blank = Blank
    ada = ada  mary = mary  alan = alan
    Name = {ada, mary, alan}
    Seed = {1}
    Req = {5}
    Stored <- MCStored
    Plan <- Touches
    Script <- Forward
    Patient = TRUE
    Env <- Nothing
    Unchecked <- Nothing
    BatchSize = 1
    MaxPasses = 5
    MaxRestarts = 0
    MaxTimeouts = 1
SPECIFICATION FairSpec
PROPERTY
    MigrationCompletes
CHECK_DEADLOCK FALSE
