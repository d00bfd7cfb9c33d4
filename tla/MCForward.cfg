\* The runbook, with a detour, by an operator who waits for each step's proof.
CONSTANTS
    None = None  Blank = Blank
    ada = ada  mary = mary  alan = alan
    Name = {ada, mary, alan}
    Seed = {1, 2}
    Req = {3, 4, 5}
    Stored <- MCStored
    Plan <- Mixed
    Script <- Detour
    Patient = TRUE
    Env <- Nothing
    Unchecked <- Nothing
    BatchSize = 1
    MaxPasses = 1
    MaxRestarts = 0
    MaxTimeouts = 1
SPECIFICATION Spec
INVARIANT
    Inductive
PROPERTIES
    FailsOnlyAcrossTheSwitch
    ClientsCannotTell
CHECK_DEADLOCK FALSE
