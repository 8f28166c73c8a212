\* The admin API creates a key from a body with a field that does not
\* decode, and uploads a key set in which one entry does not unmarshal: the
\* question is whether a call answered with an error can still write keys.
CONSTANTS
    s1 = s1  s2 = s2  idt = idt  other = other
    k1 = k1  k2 = k2  k3 = k3  k4 = k4  m9 = m9
    Malformed = Malformed  NoValue = NoValue
    Servers = {}
    Sets = {other}
    IdTokenSet = other
    Algs = {"HS256"}
    UserKids <- PlainKids
    ImportedKeys = {}
    CreateDecodeErrors = {TRUE}
    Bodies <- MalformedBodies
    AdminSets = {other}
    DeletableSets = {}
    StoreFaults = FALSE
    MaxPairs = 1
SPECIFICATION Spec
PROPERTY ErrorReplyWritesNothing
