\* Two server processes start, fail and restart against one store while the
\* admin API creates keys (RS256, HS256, an unknown alg), uploads a public
\* key to either set, and deletes keys of a user set: the question is whether
\* every reachable store, startup state and reply is well formed (every
\* generated key carries a kid and material), and the run fires every
\* action of the key store.
CONSTANTS
    s1 = s1  s2 = s2  idt = idt  other = other
    k1 = k1  k2 = k2  k3 = k3  k4 = k4  m9 = m9
    Malformed = Malformed  NoValue = NoValue
    Servers = {s1, s2}
    Sets = {idt, other}
    IdTokenSet = idt
    Algs = {"RS256", "HS256", "bogus"}
    UserKids <- PlainKids
    ImportedKeys <- PublicImport
    CreateDecodeErrors = {FALSE, TRUE}
    Bodies <- ValidBodies
    AdminSets = {idt, other}
    DeletableSets = {other}
    StoreFaults = TRUE
    MaxPairs = 4
SYMMETRY ServerSymmetry
SPECIFICATION Spec
INVARIANT TypeOK
