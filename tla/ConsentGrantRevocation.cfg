\* One attempt by a subject who remembered a consent for the client at time 0
\* (remember_for 1), with the consent sessions API available and a clock
\* that reaches 1: the question is whether a flow whose consent was skipped
\* still obtains an outcome after that consent was revoked or expired.
CONSTANTS
    f1 = f1  f2 = f2  b1 = b1  b2 = b2  u1 = u1  u2 = u2
    cl1 = cl1  cl2 = cl2  s1 = s1  s2 = s2
    NoValue = NoValue
    Flows = {f1}
    Browsers = {b1}
    Subjects = {u1}
    Clients = {cl1}
    PublicNonHttps = {}
    Scopes = {s1}
    Prompts <- NoPrompt
    MaxAges <- NoMaxAge
    IdTokenHints = {NoValue}
    Remembers = {FALSE}
    RememberFors = {1}
    MaxTime = 1
    MaxId = 2
    MaxSessions = 1
    PriorSubjects = {u1}
    Logouts = FALSE
SPECIFICATION Spec
PROPERTY SkippedConsentNeedsLiveGrant
