SPECIFICATION Spec
CONSTANTS
    Documents <- SampleDocuments
    Chunkers <- SampleChunkers
INVARIANT CarriesAncestorPath
