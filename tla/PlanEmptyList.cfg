\* An environment that extends another one and gives an empty list of forwards.
SPECIFICATION Spec
CONSTANTS
    Names <- MCNames
    ForwardNames <- MCForwardNames
    Fields <- MCFields
    Values <- MCValues
    NoName = NoName
    Empty = Empty
    Unset = Unset
    NoNameHere = NoName
    EmptyHere = Empty
    UnsetHere = Unset
    Documents <- OverridingFiles
INVARIANTS
    InheritanceCorrect
\* A command ends.
CHECK_DEADLOCK FALSE
