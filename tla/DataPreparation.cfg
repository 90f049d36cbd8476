CONSTANTS
    Contents <- MCContents
    Verdict <- MCVerdict
    Oversize = {"o"}
    Authorities = {"host"}
    SourceCases <- MCSourceCases
    Similar <- MCSimilar
    Banded <- MCBanded
    Protected = {"p"}
    QualityOf <- MCQuality
    MaximumCandidatePairs = 4
    BytesOf <- MCBytesOf
    SampleRanks <- MCSampleRanks
    Bytes = 2
    MergeCount = 2
    MinMergeFrequency = 2
    RepositoryByteCap = 12
    GlobalByteCap = 16
    MaxDocuments = 4
    MaxLength = 7
    ShardMaximumIds = 3
    MaximumStoredIds = 14
    TrainingPrefixIds = 7
    SequenceTargets = 2
SPECIFICATION PrepareSpec
INVARIANTS
    CorpusReadsBack
    SplitsKeptApart PublishedAsDeclared
    ArtifactEncodes OrderCoversIndex
\* The commands have ended.
CHECK_DEADLOCK FALSE
