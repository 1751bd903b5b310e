\* Three creations of tasks; one request over four tasks and two over three, in two
\* projects; two writers of one row with two sessions; three projects, one of each class;
\* two projects, one of them perhaps a legacy one, and two folders; a list of three nodes;
\* two users and two requests about the members of an organization; two pairing codes,
\* two chats and two messages; two clients and two refresh tokens; one MCP key and three
\* calls about it; two agents; two days and two changes of status of two tasks.
CONSTANTS
    t2 = t2
    t3 = t3
    t4 = t4
    pb = pb
    b1 = "b1"
    p2 = p2
    f2 = f2
    l1 = "l1"
    l2 = "l2"
    l3 = "l3"
    Creations = {c1, c2, c3}
    NoCreation = NoCreation
    Tasks = {t1, t2, t3, t4}
    Phases = {t1}
    Projects = {pa, pb}
    NoTask = NoTask
    NoProject = NoProject
    TreeRequests = {r1, r2}
    MaxDepth = 2
    Statuses = {"INBOX", "DONE", "VALIDATED"}
    Validated = "VALIDATED"
    FirstStatus = "INBOX"
    Sessions = {"s1", "s2"}
    NoSession = "none"
    NoStatus = NoStatus
    Writers = {r1, r2}
    Boards = {"b1", "b2", "b3"}
    Spaces = {"b2"}
    Folders = {"b3"}
    NoBoard = NoBoard
    Teams = {"ta"}
    NoTeam = NoTeam
    TeamLinks = {"l1", "l2", "l3"}
    NoLinkRow = NoLinkRow
    Requests = {r1, r2}
    HandleProjects = {p1, p2}
    LegacyProjects = {p1}
    FolderIds = {f1, f2}
    NoFolder = NoFolder
    NoMirror = NoMirror
    MaxMirrors = 2
    HandleReqs = {r1, r2}
    MaxNodes = 3
    Users = {"u1", "u2"}
    Founder = "u1"
    NoUser = NoUser
    Links = {"l1", "l2", "l3"}
    FirstLink = "l1"
    NoLink = NoLink
    MemberCalls = {r1, r2}
    h1 = h1
    h2 = h2
    n2 = "n2"
    ch1 = "ch1"
    k1 = "k1"
    k2 = "k2"
    a1 = "a1"
    o1 = "o1"
    o2 = "o2"
    Codes = {"k1", "k2"}
    NoCode = NoCode
    Owners = {"o1", "o2"}
    NoOwner = NoOwner
    OwnerOf <- CodeOwners
    Chats = {"ch1", "ch2"}
    Updates = {"n1", "n2"}
    NoUpdate = NoUpdate
    Handlers = {h1, h2}
    LinkCalls = {r1, r2}
    Tokens = {"t1", "t2"}
    NoToken = NoToken
    McpKeys = {"k1"}
    NoKey = NoKey
    Devices = {"d1", "d2"}
    SessionCalls = {r1, r2}
    KeyCalls = {c1, c2, c3}
    LinkedAgents = {"a1", "a2"}
    NoAgent = NoAgent
    LinkIds = {"l1", "l2"}
    NoLinkId = NoLinkId
    LinkOps = {r1, r2}
    FlowTasks = {"x1", "x2"}
    FlowStatuses = {"INBOX", "EXECUTING", "VALIDATED"}
    InboxStatus = "INBOX"
    FinalStatus = "VALIDATED"
    LastDay = 1
    MaxFlowChanges = 2
SYMMETRY RequestSymmetry
SPECIFICATION TaskBoardSpec
INVARIANTS
    BoardTypeOK
    NumberingSound
    TreesSound
    HandlesSound
    CopySound
    MembersSound
    PairingSound
    AccountsSound
    LinksSound
    FlowSound
PROPERTY
    DadosSound
CHECK_DEADLOCK FALSE
