SPECIFICATION IntakeSpec
CONSTANTS
    MaxJobs = 2
    ImportRequests = {r1, r2}
    Uploads = {"mixed", "single", "faulty", "unmapped", "long", "broken", "empty", "infected"}
    Content <- MCContent
    Offers <- MCOffers
    FeinOf <- Spellings
    StateOf <- States
    Emails = {"e@x"}
    LongText = {}
    AvFailClosed = TRUE
    AvBackend = "clamd"
    Letters = {"hook", "copy", "junk", "large"}
    Letter <- MCLetter
    Mailbox <- MCMailbox
    Tenant <- MCTenant
    RuleDef <- MCRuleDef
    FirstRules <- MCFirstRules
    Priorities = {10, 20}
    Patches <- MCPatches
    PortalSeeded = TRUE
    PostmarkSecret = "s"
    InDevelopment = FALSE
    MaxEmailSize = 3
    MaxAttachmentSize = 2
    Hooks = {h1}
    Pollers = {p1, p2}
    MaxEdits = 3
    MaxRetries = 1
    MaxMailFaults = 1
    ChunkSize = 2
    MaxRows = 5
    MaxImportCalls = 4
    MaxImportFaults = 1
INVARIANT ImportsSound
INVARIANT MailSound
PROPERTY ImportsSettle
CHECK_DEADLOCK FALSE
