SPECIFICATION Spec
CONSTANTS
    Capitalized <- MCCapitalized
    Workspaces <- MCWorkspaces
INVARIANTS
    TypeOK
    PlainTypesLinked
    PlainCallsLinked
    MethodCallsFindOwner
    EveryNodeInOneView
