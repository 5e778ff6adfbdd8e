SPECIFICATION Spec
CONSTANTS
    leader1 = leader1
    kid1 = kid1
    kid2 = kid2
    Leader = leader1
    Kids <- MCKids
    Symbols <- MCSymbols
    Asks <- MCAsks
INVARIANTS
    Contained
    OutputFaithful
PROPERTY
    Returns
