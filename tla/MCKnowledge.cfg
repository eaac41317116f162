\* Three facts that change once during a build; two ingests at once, three in
\* all; a tree of four budgets; texts of four lines; two runs of a skill, two
\* finishes at once.  Two writers of one note and one person, four events, two
\* days; two tasks with three spans; two threads and a histogram of two samples.
SPECIFICATION KnowledgeSpec
CONSTANTS
    FactIds = {1, 2, 3}
    Kinds <- MCKinds
    Needs <- MCNeeds
    Profiles = {0, 3}
    PlannerCap = 4
    WorkerDefault = 2
    Limit = 2
    MaxChanges = 1
    Plans <- MCPlans
    Rules <- MCRules
    MaxPolicyEvents = 2
    Ingests = {1, 2}
    Spellings = {"ann", "ANN", "anna"}
    Fold <- MCFold
    Resembles <- MCResembles
    RowIds = {1, 2}
    Store = "sqlite"
    MaxIngests = 3
    RootTokens = 4
    Quota <- MCQuota
    MaxDepth = 1
    MaxBudgets = 4
    Lines = {"", "a", "**a**", "---", "long"}
    Blank = ""
    Length <- MCLength
    Reduced <- MCReduced
    Marker = 3
    MaxChars = 15
    Estimate <- MCEstimate
    MaxLines = 4
    Traces = {1, 2}
    Correlations = {"c", "d"}
    SkillNames = {"s"}
    Finishers = {"f", "g"}
    MaxDay = 1
    VaultWriters = {v1, v2}
    BeliefSections = {"state", "risks"}
    Beliefs = {"b"}
    HumanLines = {"h"}
    TaskDomain <- MCTaskDomain
    WindowDays = 0
    MaxEdits = 1
    MaxWrites = 3
    MaxWeeks = 2
    MaxDeaths = 1
    MaxHistory = 4
    LastDay = 1
    TraceTasks = {k1, k2}
    FirstTask = k1
    MaxRetainedSpans = 2
    Threads = {x1, x2}
    Metrics = {"span_duration_ms"}
    HistogramCapacity = 2
    Values = {1, 3}
    FloatLimit = 7
    MaxSpans = 3
    MaxUpdates = 4
CHECK_DEADLOCK FALSE
INVARIANTS
    PacketIsGreedy
    
    NeverOverspent
    CompactedFits

    
    
