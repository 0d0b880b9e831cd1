SPECIFICATION Spec
CONSTANTS
    Text <- TextDef
    Tag <- TagDef
    NoTag = "none"
    Unread = "Unread"
    Reads <- ReadsDef
    Spelling <- SpellingDef
    Lower <- LowerDef
    Meaning <- MeaningDef
    FileForm <- FileFormDef
    Chinese = "zh"
    Tier <- TierDef
    CoversScript <- CoversScriptDef
    CoversRegion <- CoversRegionDef
    OrdinalText <- OrdinalTextDef
    HIWords = {"hi", "sdh", "cc"}
    ForcedWords = {"forced", "foreign"}
    DiskExts = {"srt", "ass", "ssa", "sub"}
    WriterExts = {"srt", "ass", "ssa"}
    MaxListTargets = 2
    MaxRules = 1
    MaxDistinctTags = 2
INVARIANTS
    ConfigurationHolds
    ViewsAgree
    RightEpisode
    SearchesHeard
    SyncHolds
    KeysHold
    SubtitlesKept
    NamesMatched
CHECK_DEADLOCK FALSE
