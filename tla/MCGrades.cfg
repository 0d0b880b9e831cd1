SPECIFICATION RetriedSpec
CONSTANTS
    Policy <- MCPolicy
    Profile <- MCProfile
    Pair <- MCPair
    Sub <- MCSub
    Wants <- MCWants
    Class <- MCClass
    Source <- MCSource
    Root <- MCRoot
    Ref <- MCRef
    Key <- MCKey
    Path <- MCPath
    RootOf <- MCRootOf
    SourceOf <- MCSourceOf
    Reports <- MCReports
    Evidences <- MCEvidences
    Scopes <- MCScopes
    MaxInst = 3
PROPERTIES
    GradesKept
    RetryChangesNothing
