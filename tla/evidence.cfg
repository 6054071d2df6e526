SPECIFICATION Spec
CONSTANTS
    Requests = {s1, s2}
    Builds = {"v1", "v2"}
    DefaultOf <- MCDefaultOf
    Publishable <- MCPublishable
    None = None
    Curves <- MCCurves
    Bucket = 2
    DigestOf <- MCDigestOf
    VisualResults <- MCVisualResults
    SpeechResults <- MCSpeechResults
    Horizon = 10
SYMMETRY MCSymmetry
ACTION_CONSTRAINT MCAdministeredFirst
INVARIANTS
    FrozenSnapshotsResolve
    CooccurrencesAreComplete
    HypothesesAreAccounted
    ReasonsMatchUsability
    DocumentsReadBack
\* A completed run, or one an error ended, takes no more chunks.
CHECK_DEADLOCK FALSE
