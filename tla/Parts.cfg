SPECIFICATION PartsSpec
CONSTANTS
    Env = Env
    AgentsMd = AgentsMd
    Skills = Skills
    Unavailable = Unavailable
    Empty = Empty
    None = None
    Other = Other
    Absent = Absent
    All = All
    SameRepo = SameRepo
    Agents = {a1, a2}
    Patchers = {a1}
    MaxLines = 3
    MaxSection = 3
    Clients = 3
    InboxCap = 1
    MaxMessages = 2
    Leavers = {1}
    Senders = {1, 2}
    MaxSymbols = 8
    MaxEntries = 4
    Limits = {1, 2, 9}
    ChunkSize = 4
    MaxLineLength = 2
    Suffix = 1
    MaxReadBytes = 6
    NL = NL
    CR = CR
    EOL = EOL
    Keys <- MCKeys
    Values <- MCValues
    Fails <- MCFails
    MayBeEmpty <- MCMayBeEmpty
    EditTexts <- MCEditTexts
    EditOlds <- MCEditOlds
    EditNews <- MCEditNews
    PatchTexts <- MCPatchTexts
    PatchLines <- MCPatchLines
    Paths <- MCPaths
    Symbols <- MCSymbols
    Texts <- MCTexts
    Edits <- MCEdits
    Contents <- MCContents
    Patches <- MCPatches
    Chunks <- MCChunks
    Repos <- MCRepos
    RepoOf <- MCRepoOf
    MaxBytes = 5
    Widths = {1, 2, 3}
    HistoryCap = 2
    MaxTurns = 3
    MaxEvents = 5
    MaxNotes = 2
    MaxRows = 5
    Heights = {2, 3}
    Wheel = 1
    End = 99
    MaxFrames = 4
    Chunk = 3
    Cap = 3
    MaxTicks = 4
    SessionClients = {1, 2}
    Starts = {3}
    NoPid = 0
    Savers = {s1, s2}
    MaxSaves = 4
    NoFile = NoFile
    NoKey = NoKey
    Recalled <- MCRecalled
    RowsOf <- MCRowsOf
INVARIANTS
    TypeOK
    ContextInStep
    TextsAsAsked
    PagesCoverFile
    EditSeesNewest
    
    CallsAsSent
    MembersAreClients
    MessagesInOrder
    ClientTypeOK
    PlacesInRange
    TurnUndisturbed
    TranscriptIntact
    LoopKeepsFrames
    PidfileKept
    CredentialsSurvive
CHECK_DEADLOCK FALSE
