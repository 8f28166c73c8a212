\* One attempt, by a confidential client or by a public client redirecting
\* to a non-https URI, in a browser that may hold a remembered session of u1
\* from time 0, with or without remembered consents; every prompt, max_age 0,
\* an id_token_hint of u1 or none, a login UI that may assert u1 or u2,
\* remember_for 1 and a clock that advances to 1: the question is whether
\* every outcome is one AuthorizationFlow allows (prompt, max_age, the hint,
\* the subject of a skipped login, the public-client rule) and whether
\* sessions stay tied to real logins.
CONSTANTS
    f1 = f1  f2 = f2  b1 = b1  b2 = b2  u1 = u1  u2 = u2
    cl1 = cl1  cl2 = cl2  s1 = s1  s2 = s2
    NoValue = NoValue
    Flows = {f1}
    Browsers = {b1}
    Subjects = {u1, u2}
    Clients = {cl1, cl2}
    PublicNonHttps = {cl2}
    Scopes = {s1}
    Prompts <- AllPrompts
    MaxAges <- MaxAgeZero
    IdTokenHints = {NoValue, u1}
    Remembers = {FALSE, TRUE}
    RememberFors = {1}
    MaxTime = 1
    MaxId = 2
    MaxSessions = 1
    PriorSubjects = {u1}
    Logouts = FALSE
SPECIFICATION Spec
INVARIANTS TypeOK SessionAgeIsReal
PROPERTY ImplementsAuthorizationFlow
