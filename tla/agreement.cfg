SPECIFICATION Spec
CONSTANTS
    ana = ana  beto = beto
    Annotators = {ana, beto}
    Headers <- MCHeaders
    Pseudonyms = {"s01"}
    RawMarks <- MCRawMarks
    WordTiers <- MCWordTiers
    Punctuated = {"pues,"}
    MaxMarks <- MCMaxMarks
    Horizon = 4
    Scale = 12
    IouThreshold = 6
    Tolerance = 2
INVARIANTS
    MatchingIsOptimal
    EveryEventIsCounted
    CoefficientsAreSound
    OverlapsAreFound
