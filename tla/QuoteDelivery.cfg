\* Two people send one quote, an answer is lost, hours pass, a re-map replaces
\* the quote under them, one call dies.
SPECIFICATION Spec
CONSTANTS
    Approvers = {a1}
    Senders = {s1, s2}
    SafeRetryWindow = 2
    ProviderWindow = 3
    MaxFlight = 1
    MaxQuotes = 2
    MaxTime = 4
    MaxCrashes = 1
SYMMETRY CallSymmetry
INVARIANTS
    MailedOncePerQuote
    SentMeansMailed
