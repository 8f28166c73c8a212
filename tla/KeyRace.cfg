\* Two server processes start against an empty store, with no admin calls:
\* the question is whether they provision one signing key pair between them.
CONSTANTS
    s1 = s1  s2 = s2  idt = idt  other = other
    k1 = k1  k2 = k2  k3 = k3  k4 = k4  m9 = m9
    Malformed = Malformed  NoValue = NoValue
    Servers = {s1, s2}
    Sets = {idt}
    IdTokenSet = idt
    Algs = {}
    UserKids = {}
    ImportedKeys = {}
    CreateDecodeErrors = {FALSE}
    Bodies = {}
    AdminSets = {}
    DeletableSets = {}
    StoreFaults = FALSE
    MaxPairs = 2
SPECIFICATION Spec
INVARIANT ProvisionedOnce
