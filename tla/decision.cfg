SPECIFICATION FairSpec
CONSTANTS
    NoRecommendation = NoRecommendation
    NoCount = NoCount
    Unparseable = Unparseable
    NoRequest = NoRequest
    NoOutcome = NoOutcome
    Events = {e1}
    Invoices <- MCInvoices
    Recommendations <- MCRecommendations
    DefaultThresholds <- MCDefaults
    Configurations <- MCConfigurations
    MaxConcurrency = 1
    Handlers = {h1, h2}
    MaxFaults = 1
    SectionIds = {a, b}
    MaxSections = 3
    Titles <- MCTitles
INVARIANTS
    TypeOK
    AutonomyIsEarned
    AgentFailureEscalates
    SlotsAreConserved
PROPERTIES
    EveryEventIsDecided
    PromptHoldsTheRules
