\* Up to three runs of `migrate sql`, with no dsn, an unparseable one or a
\* valid one, against one database; the connection and any single migration
\* may fail.  The command stops when the operator
\* stops running it, so a final state without successors is expected.
CONSTANTS
    client = client  oauth2 = oauth2  jwk = jwk  consent = consent
    Schemas = {client, oauth2, jwk, consent}
    MaxVersion = 2
    ConnectFaults = TRUE
    SchemaFaults = TRUE
    MaxAttempts = 3
    MaxRuns = 3
    Dsns = {"none", "unparseable", "valid"}
CHECK_DEADLOCK FALSE
SPECIFICATION Spec
INVARIANTS TypeOK ExitZeroMeansMigrated
PROPERTY RunTerminates
