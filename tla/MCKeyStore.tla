----------------------------- MODULE MCKeyStore -----------------------------
EXTENDS KeyStore, TLC

CONSTANTS s1, s2, idt, other, k1, k2, k3, k4, m9

\* A kid that starts with neither "public" nor "private".
PlainKids == {[prefix |-> "none", id |-> k1]}
\* Kids an admin may choose that start with "public" or "private".
MimicKids == {[prefix |-> "public", id |-> k2], [prefix |-> "private", id |-> k3]}
\* A public key with foreign material, uploaded under a "public" kid.
PublicImport == {[kid |-> [prefix |-> "public", id |-> k4], half |-> "public", mat |-> m9]}
\* A key set body: that public key and a symmetric key.
ImportedSet == PublicImport \cup {[kid |-> [prefix |-> "none", id |-> k1], half |-> "symmetric", mat |-> m9]}
ValidBodies == {ImportedSet, Malformed}
MalformedBodies == {PublicImport \cup {Malformed}}

ServerSymmetry == Permutations({s1, s2})
=============================================================================
