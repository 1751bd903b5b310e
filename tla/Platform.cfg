\* Two requests at a time everywhere; two tasks of a phase and two movers; two
\* ticks over three projects; a tunnel whose circuit opens at two crashes; two old
\* projects and one row of either table; three teams of one name, two persons, and a
\* search for suffixes that ends at 2.
CONSTANTS
    TeamIds = {g1, g2, g3}
    DefaultTeam = g1
    NoTeamId = NoTeamId
    TeamRows = {r1, r2, r3}
    DefaultRow = r1
    NoTeamRow = NoTeamRow
    Persons = {u1, u2}
    OrgCreator = u1
    NoPerson = NoPerson
    TeamCalls = {c1, c2}
    LastSuffix = 2
    g1 = g1
    g2 = g2
    g3 = g3
    r1 = r1
    r2 = r2
    r3 = r3
    ph = ph
    l1 = l1
    l2 = l2
    InviteRows = {"i1", "i2"}
    NoInvite = NoInvite
    Acceptors = {"a1", "a2"}
    Cancellers = {"x1"}
    Leaves = {l1, l2}
    Trees <- BothTrees
    ThePhase = ph
    FirstLeaf = l1
    Movers = {m1, m2}
    Beats = {"h1", "h2"}
    Sweeps = {"s1", "s2"}
    MaxStops = 1
    InstallTokens = {"t1", "t2", "t3"}
    NoInstallToken = NoInstallToken
    MinPort = 1
    MaxPort = 2
    NoPort = 0
    Installs = {"i1", "i2", "i3"}
    Ticks = {"w1", "w2"}
    Projects = 3
    DailyCap = 2
    MaxCost = 1
    MaxDay = 1
    CrashThreshold = 2
    MaxChanges = 3
    Olds = {1, 2}
    MaxKey = 3
    NoEntity = NoEntity
    ScopeRows = {"w1", "w2"}
    FamilyOf <- Tables
    NoRow = NoRow
    Scripts = {"tabela", "vinculo"}
SPECIFICATION PlatformSpec
INVARIANTS
    PlatformTypeOK
    CompletedTruthful
    StatusSound
    InstalledApart
    LoopsSound
PROPERTIES
    JoiningSound
    BackfillSound
    StatusFollows
    TunnelReturns
    CompletionAnnounced
CHECK_DEADLOCK FALSE
