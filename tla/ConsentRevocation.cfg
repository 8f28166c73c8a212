\* One attempt in a browser that holds a remembered session of u1, with the
\* session API available to an administrator: the question is whether a
\* flow that skipped login can still go on after the session it skipped on
\* was revoked.
CONSTANTS
    f1 = f1  f2 = f2  b1 = b1  b2 = b2  u1 = u1  u2 = u2
    cl1 = cl1  cl2 = cl2  s1 = s1  s2 = s2
    NoValue = NoValue
    Flows = {f1}
    Browsers = {b1}
    Subjects = {u1}
    Clients = {cl1}
    PublicNonHttps = {}
    Scopes = {s1}
    Prompts <- NoPrompt
    MaxAges <- NoMaxAge
    IdTokenHints = {NoValue}
    Remembers = {FALSE}
    RememberFors = {0}
    MaxTime = 0
    MaxId = 2
    MaxSessions = 1
    PriorSubjects = {u1}
    Logouts = FALSE
SPECIFICATION Spec
PROPERTY SkippedLoginNeedsLiveSession
