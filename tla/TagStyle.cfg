SPECIFICATION Spec
CONSTANTS
    a = a
    b = b
    red = red
    Tags <- MCTags
    Colors <- MCColors
    Shapes <- MCShapes
    Orderings <- MCOrderings
    Commands <- MCCommands
    Scenarios <- MCScenarios
    Others <- MCOthers
INVARIANTS
    TypeOK
    SuccessIsEffective
PROPERTIES
    UnrelatedSurvives
CHECK_DEADLOCK FALSE
