SPECIFICATION Spec
SYMMETRY Symmetry
CONSTANTS
    older = older
    newer = newer
    edited = edited
    Null = Null
    Processes = {p1, p2, p3}
    Builds <- TheBuilds
    Embedded <- TheEmbedded
    Down <- TheDown
INVARIANTS
    NoGaps
    InfoAgreesWithReadiness
    RevertSparesWhatItRead
PROPERTIES
    MigratedMeansReady
