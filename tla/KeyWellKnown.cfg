\* The admin API creates HS256 keys in the ID-token set under kids of its
\* choice: the question is whether secret key material can be served by the
\* well-known endpoint.
CONSTANTS
    s1 = s1  s2 = s2  idt = idt  other = other
    k1 = k1  k2 = k2  k3 = k3  k4 = k4  m9 = m9
    Malformed = Malformed  NoValue = NoValue
    Servers = {}
    Sets = {idt}
    IdTokenSet = idt
    Algs = {"HS256"}
    UserKids <- MimicKids
    ImportedKeys = {}
    CreateDecodeErrors = {FALSE}
    Bodies = {}
    AdminSets = {idt}
    DeletableSets = {}
    StoreFaults = FALSE
    MaxPairs = 1
SPECIFICATION Spec
INVARIANT WellKnownOnlyPublicHalves
