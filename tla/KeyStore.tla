------------------------------ MODULE KeyStore ------------------------------
(***************************************************************************)
(* The JSON Web Key store, the admin handlers of /keys that write it, and  *)
(* the provisioning of the ID-token signing key that every server process  *)
(* runs at startup (createOrGetJWK).  Several server processes share one   *)
(* persistent store; each caches the private key it found or generated and *)
(* signs ID tokens with it until it restarts.  Relying parties verify ID   *)
(* tokens against the keys served by /.well-known/jwks.json.               *)
(*                                                                         *)
(* A key is abstracted to its kid, the half it holds and its material: the *)
(* two halves of one generated pair share a material; a token signed with  *)
(* a private key verifies under a public key of the same material.  A kid  *)
(* is a prefix (what the kid string starts with, "public", "private" or    *)
(* neither) and an id (the uuid or the rest of the string).                *)
(***************************************************************************)
EXTENDS Naturals, FiniteSets

CONSTANTS
    Servers,        \* server processes sharing the store
    Sets,           \* key set names
    IdTokenSet,     \* "hydra.openid.id-token"
    Algs,           \* alg values an admin may send to POST /keys/{set}
    UserKids,       \* kids an admin may send, as [prefix, id] records
    ImportedKeys,   \* keys an admin may upload (PUT), with foreign material
    CreateDecodeErrors, \* whether a POST /keys/{set} body may fail to decode
    Bodies,         \* PUT /keys/{set} bodies: Malformed, or sets of keys and Malformed entries
    AdminSets,      \* sets the admin API writes to
    DeletableSets,  \* sets the admin API deletes from
    StoreFaults,    \* whether a store call at startup may fail
    MaxPairs,       \* bound on generated key material
    Malformed,      \* a key entry that does not unmarshal
    NoValue

ASSUME IdTokenSet \in Sets /\ AdminSets \subseteq Sets /\ DeletableSets \subseteq Sets
ASSUME StoreFaults \in BOOLEAN /\ MaxPairs \in Nat /\ CreateDecodeErrors \subseteq BOOLEAN

VARIABLES
    store,          \* store[set]: the keys persisted in set (none: NotFound)
    nextMat,        \* next fresh key material / uuid
    pc,             \* pc[s]: where server s is in its startup
    signer,         \* signer[s]: the private key server s signs ID tokens with
    reply           \* status of the /keys call this step answered (NoValue: no call)

vars == <<store, nextMat, pc, signer, reply>>

Prefixes == {"public", "private", "none"}
Mats == 1..MaxPairs
Kid == [prefix: Prefixes, id: Mats \cup {u.id : u \in UserKids} \cup {k.kid.id : k \in ImportedKeys}]
Key == [kid: Kid, half: {"public", "private", "symmetric"},
        mat: Mats \cup {k.mat : k \in ImportedKeys}]

\* What UnmarshalJSON leaves in a key it failed to decode: kid "", no material.
ZeroKey == [kid |-> [prefix |-> "none", id |-> NoValue], half |-> "none", mat |-> NoValue]

-----------------------------------------------------------------------------
(* Key generators (RS256, ES512: a public:/private: pair; HS256, HS512: one *)
(* symmetric key under the given kid).                                     *)

\* Mutant: the generator keeps the empty kid instead of minting a uuid.
GenerateMutant(alg, kid, m) ==
    IF alg \in {"RS256", "ES512"}
      THEN {[kid |-> [prefix |-> "public", id |-> NoValue], half |-> "public", mat |-> m],
            [kid |-> [prefix |-> "private", id |-> NoValue], half |-> "private", mat |-> m]}
      ELSE {[kid |-> kid, half |-> "symmetric", mat |-> m]}

Generate(alg, kid, m) ==
    IF alg \in {"RS256", "ES512"}
      THEN {[kid |-> [prefix |-> "public", id |-> kid.id], half |-> "public", mat |-> m],
            [kid |-> [prefix |-> "private", id |-> kid.id], half |-> "private", mat |-> m]}
      ELSE {[kid |-> kid, half |-> "symmetric", mat |-> m]}

\* The generators map of the handler (GetGenerators).
Generators == {"RS256", "ES512", "HS256", "HS512"}

\* FindKeysByPrefix / FindKeyByPrefix: keys whose kid starts with prefix.
FindKeysByPrefix(keys, prefix) == {k \in keys : k.kid.prefix = prefix}

\* (set, kid) is the primary key: AddKeySet / AddKey fail on a kid the set has.
AddKeySetFails(st, set, keys) == \E k \in keys, k2 \in st[set] : k.kid = k2.kid

\* AddKeySet / AddKey: inserts the keys in one transaction; a failing call
\* writes nothing.
AddKeySet(st, set, keys) ==
    IF AddKeySetFails(st, set, keys) THEN st ELSE [st EXCEPT ![set] = st[set] \cup keys]

\* The status a handler answers with: the first one it writes, since a
\* later WriteHeader on the same response is ignored.
Status(errors) == IF errors THEN "error" ELSE "ok"

\* GET /.well-known/jwks.json: the "public" keys of the ID-token set.
WellKnownKeys == FindKeysByPrefix(store[IdTokenSet], "public")

-----------------------------------------------------------------------------
Init ==
    /\ store = [set \in Sets |-> {}]
    /\ nextMat = 1
    /\ pc = [s \in Servers |-> "boot"]
    /\ signer = [s \in Servers |-> NoValue]
    /\ reply = NoValue

(***************************************************************************)
(* createOrGetJWK(IdTokenSet, "private"), up to its first write: the set is *)
(* read; if it is NotFound or holds no "private" key the server goes on to  *)
(* generate a pair, otherwise it adopts one of the private keys.            *)
(***************************************************************************)
GetSigningKey(s) ==
    LET found == FindKeysByPrefix(store[IdTokenSet], "private")
    IN /\ pc[s] = "boot"
       /\ IF found = {}
            THEN /\ pc' = [pc EXCEPT ![s] = "generate"]
                 /\ UNCHANGED signer
            ELSE /\ \E k \in found : signer' = [signer EXCEPT ![s] = k]
                 /\ pc' = [pc EXCEPT ![s] = "running"]
       /\ reply' = NoValue
       /\ UNCHANGED <<store, nextMat>>

(* createJWKS: a fresh RS256 pair (Use "sig") persisted with AddKeySet; the *)
(* lookup that follows finds its private key.                              *)
CreateJWKS(s) ==
    LET pair == Generate("RS256", [prefix |-> "none", id |-> nextMat], nextMat)
        store1 == AddKeySet(store, IdTokenSet, pair)
    IN /\ pc[s] = "generate"
       /\ nextMat <= MaxPairs
       /\ store' = store1
       /\ nextMat' = nextMat + 1
       /\ IF store1 = store
            THEN /\ pc' = [pc EXCEPT ![s] = "failed"]   \* could not persist
                 /\ UNCHANGED signer
            ELSE /\ signer' = [signer EXCEPT ![s] =
                                 CHOOSE k \in FindKeysByPrefix(pair, "private") : TRUE]
                 /\ pc' = [pc EXCEPT ![s] = "running"]
       /\ reply' = NoValue

\* GetKeySet or AddKeySet returns a storage error: startup fails.
StoreError(s) ==
    /\ StoreFaults
    /\ pc[s] \in {"boot", "generate"}
    /\ pc' = [pc EXCEPT ![s] = "failed"]
    /\ reply' = NoValue
    /\ UNCHANGED <<store, nextMat, signer>>

\* The process exits and starts again; the cached signer is lost.
Restart(s) ==
    /\ pc[s] \in {"running", "failed"}
    /\ pc' = [pc EXCEPT ![s] = "boot"]
    /\ signer' = [signer EXCEPT ![s] = NoValue]
    /\ reply' = NoValue
    /\ UNCHANGED <<store, nextMat>>

(***************************************************************************)
(* POST /keys/{set}.  A body that fails to decode is reported, but there   *)
(* is no return: encoding/json keeps the fields it could decode (decodeErr *)
(* with an alg and a kid: a type error elsewhere in the body), so the      *)
(* handler goes on.  An unknown alg (also what a syntax error leaves) is a *)
(* 400; otherwise the keys are generated and AddKeySet persists them.     *)
(***************************************************************************)
Create(set, alg, kid, decodeErr) ==
    LET keys == Generate(alg, kid, nextMat)
    IN /\ \/ /\ alg \notin Generators
             /\ reply' = "error"
             /\ UNCHANGED <<store, nextMat>>
          \/ /\ alg \in Generators
             /\ nextMat <= MaxPairs
             /\ store' = AddKeySet(store, set, keys)
             /\ nextMat' = nextMat + 1
             /\ reply' = Status(decodeErr \/ AddKeySetFails(store, set, keys))
       /\ UNCHANGED <<pc, signer>>

(* PUT /keys/{set}: a body that does not decode is a 400.  Otherwise every  *)
(* entry is unmarshalled; an entry that fails is reported but there is no  *)
(* return, so its zero key is appended and the set is persisted.           *)
UpdateKeySet(set, body) ==
    /\ IF body = Malformed
         THEN /\ reply' = "error"
              /\ UNCHANGED store
         ELSE LET keys == {IF e = Malformed THEN ZeroKey ELSE e : e \in body}
              IN /\ store' = AddKeySet(store, set, keys)
                 /\ reply' = Status(Malformed \in body \/ AddKeySetFails(store, set, keys))
    /\ UNCHANGED <<nextMat, pc, signer>>

(* PUT /keys/{set}/{kid}: a body that does not decode is a 400; otherwise   *)
(* AddKey.                                                                 *)
UpdateKey(set, key) ==
    /\ IF key = Malformed
         THEN /\ reply' = "error"
              /\ UNCHANGED store
         ELSE /\ store' = AddKeySet(store, set, {key})
              /\ reply' = Status(AddKeySetFails(store, set, {key}))
    /\ UNCHANGED <<nextMat, pc, signer>>

(* GET /keys/{set}: the manager answers NotFound for a set without keys.   *)
GetKeySet(set) ==
    /\ reply' = Status(store[set] = {})
    /\ UNCHANGED <<store, nextMat, pc, signer>>

(* GET /keys/{set}/{kid}: NotFound unless the set has a key with that kid. *)
GetKey(set, kid) ==
    /\ reply' = Status(~\E k \in store[set] : k.kid = kid)
    /\ UNCHANGED <<store, nextMat, pc, signer>>

(* DELETE /keys/{set}                                                      *)
DeleteKeySet(set) ==
    /\ store' = [store EXCEPT ![set] = {}]
    /\ reply' = "ok"
    /\ UNCHANGED <<nextMat, pc, signer>>

(* DELETE /keys/{set}/{kid}                                                *)
DeleteKey(set, kid) ==
    /\ \E k \in store[set] : k.kid = kid
    /\ store' = [store EXCEPT ![set] = {k \in @ : k.kid # kid}]
    /\ reply' = "ok"
    /\ UNCHANGED <<nextMat, pc, signer>>

Next ==
    \/ \E s \in Servers : GetSigningKey(s) \/ CreateJWKS(s) \/ StoreError(s) \/ Restart(s)
    \/ \E set \in AdminSets, alg \in Algs, kid \in UserKids, e \in CreateDecodeErrors :
          Create(set, alg, kid, e)
    \/ \E set \in AdminSets, body \in Bodies : UpdateKeySet(set, body)
    \/ \E set \in AdminSets, key \in ImportedKeys \cup {Malformed} : UpdateKey(set, key)
    \/ \E set \in AdminSets : GetKeySet(set)
    \/ \E set \in AdminSets, kid \in UserKids : GetKey(set, kid)
    \/ \E set \in DeletableSets : DeleteKeySet(set)
    \/ \E set \in DeletableSets : \E k \in store[set] : DeleteKey(set, k.kid)

Spec == Init /\ [][Next]_vars

-----------------------------------------------------------------------------
(* Properties                                                              *)

TypeOK ==
    /\ store \in [Sets -> SUBSET (Key \cup {ZeroKey})]
    /\ nextMat \in 1..MaxPairs + 1
    /\ pc \in [Servers -> {"boot", "generate", "running", "failed"}]
    /\ signer \in [Servers -> Key \cup {NoValue}]
    /\ reply \in {NoValue, "ok", "error"}

(* Startup provisioning (createOrGetJWK) only ever leaves a server running *)
(* with a signing key whose public half the well-known endpoint serves:    *)
(* a restart recovers from whatever the admin API did to the ID-token set. *)
ProvisioningYieldsVerifiableKey ==
    [][\A s \in Servers :
         pc[s] # "running" /\ pc'[s] = "running" =>
            \E k \in WellKnownKeys' : k.half = "public" /\ k.mat = signer'[s].mat]_vars

(* The well-known endpoint publishes only public halves: no private or    *)
(* symmetric key material of the ID-token set is served.                  *)
WellKnownOnlyPublicHalves ==
    \A k \in WellKnownKeys : k.half = "public"

(* A /keys call that answers with an error leaves the store as it was:   *)
(* the administrator who is told a create or an upload failed does not   *)
(* find keys of it persisted (and served, or used to sign) afterwards.    *)
ErrorReplyWritesNothing ==
    [][reply' = "error" => store' = store]_vars

(* createOrGetJWK is idempotent: servers that start against the same store *)
(* provision at most one signing key pair between them.                   *)
ProvisionedOnce ==
    Cardinality({k \in store[IdTokenSet] : k.half = "private" /\ k.kid.id \in Mats}) <= 1

=============================================================================
