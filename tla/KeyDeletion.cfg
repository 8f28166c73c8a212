\* One server, the admin API deleting keys of the ID-token set: the question
\* is whether ID tokens keep verifying under the well-known keys, also after
\* the server restarts and provisions its signing key again.
CONSTANTS
    s1 = s1  s2 = s2  idt = idt  other = other
    k1 = k1  k2 = k2  k3 = k3  k4 = k4  m9 = m9
    Malformed = Malformed  NoValue = NoValue
    Servers = {s1}
    Sets = {idt}
    IdTokenSet = idt
    Algs = {"RS256"}
    UserKids <- PlainKids
    ImportedKeys = {}
    CreateDecodeErrors = {FALSE}
    Bodies = {}
    AdminSets = {}
    DeletableSets = {idt}
    StoreFaults = FALSE
    MaxPairs = 2
SPECIFICATION Spec
PROPERTY ProvisioningYieldsVerifiableKey
