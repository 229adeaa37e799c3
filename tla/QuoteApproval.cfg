\* Two people approve, renders fail, pricing replaces the quote, one call dies.
SPECIFICATION FairSpec
CONSTANTS
    Approvers = {a1, a2}
    Senders = {s1}
    SafeRetryWindow = 2
    ProviderWindow = 3
    MaxFlight = 1
    MaxQuotes = 2
    MaxTime = 2
    MaxCrashes = 1
INVARIANTS
    OneClaimant
    SendableHasPdf
PROPERTIES
    KeepsQuotePromise
    ClaimResolved
