SPECIFICATION OneSpec
CONSTANTS
    Width <- CharWidth
    MinWithContext = 2
    MinWithoutContext = 3
    ContextWindow = 1
    PassportMin = 2
    Entities <- EntityKinds
    Lengths <- TextLengths
    Findings <- SampleFindings
    Policies <- SamplePolicies
    Inputs <- SampleInputs
    Documents <- SampleDocuments
    Chunkers <- SampleChunkers
INVARIANTS
    MapIsValid SourceIsOrigin ComposeAssociates OutsideUntouched NothingLeaks RoundTrip
    ChunksCover LimitsKept PathsTrue
