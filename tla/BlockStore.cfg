\* The store alone, events in any order, with resets.
CONSTANTS
    ls = ls
    vim = vim
    None = None
    FreshGrid = 0
    Commands <- MCCommands
    Codes = {ok, failed}
    Lines = {top}
    Grids <- MCGrids
    MaxId = 4
SPECIFICATION Spec
INVARIANTS StoreInv DurationsOwn
PROPERTIES SealedForGood IsBlockLog
