SPECIFICATION Spec
CONSTANTS
    NoRecommendation = NoRecommendation
    NoCount = NoCount
    Unparseable = Unparseable
    NoRequest = NoRequest
    NoOutcome = NoOutcome
    Events = {e1}
    Invoices <- MCInvoices
    Recommendations <- MCRecommendations
    DefaultThresholds <- MCDefaults
    Configurations <- MCConfigurations
    MaxConcurrency = 1
    Handlers = {h1}
    MaxFaults = 0
    SectionIds = {}
    MaxSections = 0
    Titles = {}
INVARIANT MealsWithinCap
