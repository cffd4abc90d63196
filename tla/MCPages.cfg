CONSTANTS
    Texts <- MCTexts
    FormCases <- MCFormCases
    FormRule <- MCFormRule
    Entries <- MCFormEntries
    FirstValues <- MCFirst
    OtherValues <- MCOthers
    MaxIntents = 2
    MaxRequests = 3
    MaxVersions = 2
    Templates <- MCTemplates
    Views <- MCViews
    MaxRenders = 2
    Inner <- MCInner
    Updating = {"order", "inbox"}
    Registered = {"order", "inbox", "line"}
    Contents <- MCContents
    MaxLoads = 2
    Urls = {"home", "orders", "order"}
    Home = "home"
    Slots = {"sidebar", "content"}
    Behaviors = {"menu", "shortcut"}
    Matching <- MCMatching
    Callers = {"link", "signal", "error", "apply"}
    MaxNavigations = 6
    Companies <- MCCompanies
    Branches <- MCCompanies
    ModelDefs <- MCModelDefs
    Ids <- MCIds
    ModelOf <- MCModelOf
    NameOf <- MCNameOf
    Fns <- MCFns
    Requests <- MCRequests
    NoOne = NoOne
    Erased = Erased
    MaxWork = 4
    MaxOps <- MCMaxOps
    KeptRows <- MCKeptRows
    here = here
    there = there
    auditRow = auditRow
    customerRow = customerRow
    customerAgain = customerAgain
    orderRow = orderRow
SPECIFICATION MCSpec
INVARIANTS TypesOK NormalIsStable FormKept RendersAsFresh TopIslandsKept PageIsSettled ScopeHolds AccountIsTrue
PROPERTIES FewestMoves InstanceIsKept OvertakenIsMute
CHECK_DEADLOCK FALSE
