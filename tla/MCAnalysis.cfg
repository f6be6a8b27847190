SPECIFICATION FairAnalysisSpec
CONSTANTS
    Snapshots <- AllSnapshots
    PageSize = 4
INVARIANTS AnalysisTypeOK Framed StacksSent GlobalsSent LeaksReported GroupsConnected
PROPERTIES AnalysisEnds
CHECK_DEADLOCK FALSE
