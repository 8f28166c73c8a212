\* Two authorization attempts from two browsers, two subjects; any browser may
\* present any verifier, and any session may be deleted (logout).  No prompt,
\* no max_age, three challenges (two login requests and one consent
\* request): the question is whether every outcome
\* reaches the browser that made the request, for a subject who logged in there.
CONSTANTS
    f1 = f1  f2 = f2  b1 = b1  b2 = b2  u1 = u1  u2 = u2
    cl1 = cl1  cl2 = cl2  s1 = s1  s2 = s2
    NoValue = NoValue
    Flows = {f1, f2}
    Browsers = {b1, b2}
    Subjects = {u1, u2}
    Clients = {cl1}
    PublicNonHttps = {}
    Scopes = {s1}
    Prompts <- NoPrompt
    MaxAges <- NoMaxAge
    IdTokenHints = {NoValue}
    Remembers = {FALSE, TRUE}
    RememberFors = {0}
    MaxTime = 0
    MaxId = 3
    MaxSessions = 2
    PriorSubjects = {}
    Logouts = TRUE
SYMMETRY BindingSymmetry
SPECIFICATION Spec
PROPERTY ImplementsAuthorizationFlow
