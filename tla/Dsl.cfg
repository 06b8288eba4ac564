SPECIFICATION Spec
CONSTANTS
    Files <- MCFiles
    Channel <- MCChannel
    Requests <- MCRequests
    Answers <- MCAnswers
    Streams <- MCStreams
    Listings <- MCListings
    MaxTalk = 5
    FieldLimit = 2
INVARIANTS
    ConversationSurvives
    StreamMetersLikeAnswer
    LoadedFilesEvaluate
    UploadsAgree
    AssetsAreKept
