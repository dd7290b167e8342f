SPECIFICATION FairSpec
CONSTANTS
    r1 = r1
    r2 = r2
    None = None
    Request <- TwoRequests
    Url <- Urls
    FormUrl <- FormUrls
    EnvServer <- EnvServers
    BlockKind <- Kinds
    EnvModel <- EnvModels
    ModelName <- Names
    Gpt <- GptNames
    ListReply <- Listings
    ChatError <- Errors
    ChatReply <- Replies
INVARIANTS
    SessionsSound
    ServersKeptApart
    RetriesSound
PROPERTIES
    RequestsEnd
CHECK_DEADLOCK FALSE
