SPECIFICATION Spec
CONSTANTS
    p1 = p1
    p2 = p2
    NoProxy = NoProxy
    Pool <- MCPool
    ChangeLinks <- MCChangeLinks
    Pins <- MCPins
    Requests <- MCRequests
    Whys = {"ok", "captcha", "transient", "selector", "transport", "deadline"}
    Budgets <- MCBudgets
    Slack = 2
    MinAttempt = 1
    Dwell = 1
    ExcessMax = 3
INVARIANTS
    BudgetKept
    EvidenceKept
    BurnedExitsStayOut
    GenuinePageParsed
PROPERTY
    ExitsAreNotWasted
CHECK_DEADLOCK FALSE
