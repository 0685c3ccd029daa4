\* A wave of one model over two trees; a marker stands until the poll has seen it.
SPECIFICATION FanoutSpec
CONSTANTS
    Jobs = {1, 2, 3}
    ModelOf <- MCOneModel
    TreeOf <- MCTrees
    WriteCapable = {1, 3}
    MaxReaders = 2
    MaxPrompts = 1
    MaxProvider = 1
    MaxMarkers = 2
    MarkersOutliveAPoll = TRUE
PROPERTIES HeldJobsAreReleased
\* A wave that ended leaves nothing to do.
CHECK_DEADLOCK FALSE
