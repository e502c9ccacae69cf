SPECIFICATION Spec
CONSTANTS
    Programs <- AllPrograms
    MaxDepth = 6
INVARIANT AddressesResolve
INVARIANT ListingTrue
INVARIANT BranchesSelected
INVARIANT SymbolsReadBack
PROPERTY BuildEnds
