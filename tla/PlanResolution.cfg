\* Every graph of three environments, settings along two of them, and faulty
\* lists and entries.
SPECIFICATION FairSpec
CONSTANTS
    Names <- MCNames
    ForwardNames <- MCForwardNames
    Fields <- MCFields
    Values <- MCValues
    NoName = NoName
    Empty = Empty
    Unset = Unset
    NoNameHere = NoName
    EmptyHere = Empty
    UnsetHere = Unset
    Documents <- AllFiles
INVARIANTS
    ConfigTypeOK
    AcceptedAcyclic
    CycleErrorsReal
    PlanTypeOK
    LoaderSuffices
    ProductionDetached
    InheritanceCorrect
    PortsDistinctPostMerge
PROPERTIES
    PlanEnds
\* A command ends.
CHECK_DEADLOCK FALSE
