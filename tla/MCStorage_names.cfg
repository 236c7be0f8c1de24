\* The S3 backend, with a file name that has a '#' or '?' in it.
CONSTANTS
    Docs = {"d1"}
    Stems = {"report"}
    Rests = {"2.pdf"}
    NoRest = NoRest
    Backend = "s3"
    NoUri = NoUri
SPECIFICATION StorageSpec
INVARIANTS
    SavedIsReadable
CHECK_DEADLOCK FALSE
