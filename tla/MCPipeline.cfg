SPECIFICATION PipelineSpec
CONSTANTS
    Policy <- MCPolicy
    Profile <- MCProfile
    Pair <- MCPair
    Sub <- MCSub
    Wants <- MCWants
    Class <- MCClass
    Inst <- MCInst
    Name <- MCName
    Key <- MCKey
    Holds <- MCHolds
    LangOf <- MCLangOf
    Content <- MCContent
    SubOf <- MCSubOf
    Run <- MCRun
    Plan <- MCPlan
    Listings = {}
    Probes = {}
    MaxGen = 2
INVARIANTS
    FilesRecorded
PROPERTIES
    ImplementsLibrary
