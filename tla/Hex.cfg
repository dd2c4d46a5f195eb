SPECIFICATION Spec
CONSTANT nrows = 3
INVARIANTS WinnerIsConnected WinnerPathIsChain
