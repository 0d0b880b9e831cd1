SPECIFICATION Spec
CONSTANTS
    Policy <- MCPolicy
    Profile <- MCProfile
    Pair <- MCPair
    Sub <- MCSub
    Wants <- MCWants
    Class <- MCClass
    Source <- MCSource
    Root <- MCRoot
    Ref <- MCRef
    Key <- MCKey
    Path <- MCPath
    RootOf <- MCRootOf
    SourceOf <- MCSourceOf
    Reports <- MCReports
    Evidences = {}
    Scopes <- MCScopes
    MaxInst = 2
INVARIANTS
    NothingDangles
    OwnedIsReported
PROPERTIES
    PinnedKept
    ClaimsKept
