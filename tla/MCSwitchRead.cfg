\* A request in flight while the reads are switched.
CONSTANTS
    None = None  Blank = Blank
    ada = ada  mary = mary  alan = alan
    Name = {ada, mary, alan}
    Seed = {1}
    Req = {5}
    Stored <- MCStored
    Plan <- Mixed
    Script <- ToSwitch
    Patient = TRUE
    Env <- Nothing
    Unchecked <- Nothing
    BatchSize = 1
    MaxPasses = 5
    MaxRestarts = 0
    MaxTimeouts = 0
SPECIFICATION Spec
INVARIANT
    NoRequestFails
CHECK_DEADLOCK FALSE
