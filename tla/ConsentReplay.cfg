\* One attempt in one browser, no remembered state: the question is whether a
\* login verifier that has already been redeemed can be redeemed again after
\* the login UI accepts the same challenge a second time.
CONSTANTS
    f1 = f1  f2 = f2  b1 = b1  b2 = b2  u1 = u1  u2 = u2
    cl1 = cl1  cl2 = cl2  s1 = s1  s2 = s2
    NoValue = NoValue
    Flows = {f1}
    Browsers = {b1}
    Subjects = {u1}
    Clients = {cl1}
    PublicNonHttps = {}
    Scopes = {s1}
    Prompts <- NoPrompt
    MaxAges <- NoMaxAge
    IdTokenHints = {NoValue}
    Remembers = {FALSE}
    RememberFors = {0}
    MaxTime = 0
    MaxId = 3
    MaxSessions = 1
    PriorSubjects = {}
    Logouts = FALSE
SPECIFICATION Spec
INVARIANT LoginVerifierSingleUse
