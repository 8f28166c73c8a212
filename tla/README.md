# TLA+ models of Hydra's login & consent flow, key store, plugin backend and migrations

This directory holds TLA+ specifications of the parts of this repository
(`src/`) that have state changing over time. It also holds the TLC
configurations that check them. `PROJECT.json` lists the components, the
runs, the mutants used to check that each property can fail, the mapping
from each definition to the source lines it models, the findings and the
hazards.

## The system

Hydra is an OAuth 2.0 / OpenID Connect server. Its parts, and how they
interact:

* **OIDC strategy** (`/oauth2/auth`). A browser arrives without a verifier.
  The strategy reads the session cookie and applies `prompt`, `max_age` and
  `id_token_hint`. It then persists a login request (challenge, verifier,
  CSRF value), sets a CSRF cookie and redirects to the login UI.
  - The browser comes back with the login verifier. The strategy verifies it
    once, checks the CSRF cookie, the handled request, the skip rules and the
    hint. It then writes or revokes the authentication session.
  - Next it decides whether consent may be skipped. That is the case when
    previously granted, unexpired consents cover the scopes and
    `prompt=consent` is absent. `prompt=none` with a public non-https client
    is an error.
  - Finally it persists a consent request. The consent verifier is handled
    the same way, and a remembered grant is recorded.
* **Consent store and management API.** The login and consent UIs are not
  trusted. They call accept/reject on a challenge, which inserts or replaces
  the handled row. Admins revoke a subject's sessions and consents.
* **JWK store and `/keys` API.** Admins create, upload and delete keys.
  `/.well-known/jwks.json` serves the keys of the `hydra.openid.id-token` set
  whose kid starts with `public`.
* **ID-token key provisioning** (`createOrGetJWK`, `helper_keys.go`). Every
  server process runs it at startup against the shared store. It finds a
  `private` key or generates and persists an RS256 pair, then signs ID tokens
  with that key until it restarts.
* **Plugin backend** (`config/backend_plugin.go`). It loads a Go plugin,
  connects to the database once, and builds the four managers over that
  connection.
* **`hydra migrate sql`** (`helper_keys.go`). It connects with retries, then
  runs each store's schema migrations in Go-map order and stops at the first
  error.

The strategy and the store implementations (`strategy_default.go`,
`manager_sql.go`) are not under `src/`. Their behaviour is known from
`spec.md` and from the tests in `src/consent/`.
- The actions of `ConsentFlow` are therefore modelled from the spec
  (`spec_modelled` in the map).
- Each rule they apply is a separate operator, mapped to the test cases that
  pin that rule down.

## Modules

| Module | Models | State | Actions |
|---|---|---|---|
| `ConsentFlow` | OIDC strategy, consent store, management API, CSRF and session cookies | clock, authorization requests, login/consent request and handled rows, sessions, cookies per browser, remembered grants, issued outcomes | `Authorize`, `AcceptLogin`, `RejectLogin`, `LoginReturn`, `AcceptConsent`, `RejectConsent`, `ConsentReturn`, `RevokeAuthenticationSessions`, `DeleteAuthenticationSession` (logout, enabled by `Logouts`), `RevokeConsentSessions`, `Tick` |
| `AuthorizationFlow` | what the flow promises (spec §8–9), with no challenges, cookies or UIs | clock, request parameters per flow, authentications performed (browser, subject, time), issued outcomes | `Request`, `Authenticate`, `Issue`, `ATick` |
| `KeyStore` | JWK store, `/keys` handlers, well-known endpoint, `createOrGetJWK` on several servers | keys per set, per-server startup pc and cached signer, the status the `/keys` call of the last step answered with | `GetSigningKey`, `CreateJWKS`, `StoreError`, `Restart`, `Create`, `UpdateKeySet`, `UpdateKey`, `GetKeySet`, `GetKey`, `DeleteKeySet`, `DeleteKey` |
| `PluginConnection` | `PluginConnection.load/Connect/NewXManager` | plugin loaded, `didConnect`, `c.db`, managers built | `Connect`, `NewManager` |
| `Migrate` | `MigrateSQL`, `connectToSql`, `runMigrateSQL` | applied versions per store (persistent), run pc, the run's argument, attempts, exit code, database up | `Start` (no dsn, unparseable dsn, valid dsn), `ConnectAttempt`, `ApplySchemas`, `DatabaseAvailability` |

Each `MC*` module declares the model values that the cfgs assign. It also
defines the small sets used as constants (prompts, bodies, kids) and the
symmetry sets.

How the models abstract the code:

* **One identifier per request.** In `ConsentFlow` a challenge, its verifier
  and its CSRF value are one identifier. Any browser may present any
  verifier, which models a leaked verifier, so only the CSRF cookie binds a
  flow to its browser.
* **Keys as kid, half and material.** A key is its kid (prefix and id), the
  half it holds (public, private or symmetric) and its material. Two halves
  of one pair share material. A token verifies when a public key of the same
  material is served.
* **HTTP status as state.** `reply` is the status the client of a `/keys`
  call sees. That is the first status the handler writes; a later
  `WriteHeader` on the same response is ignored (`Status`). A handler that
  writes an error and goes on therefore answers "error" whatever it does
  next. Server steps set `reply` to `NoValue`.
* **Faults.** Every call that can return an error has a branch for it. That
  holds for `Connect`, `NewXManager`, the store calls at startup and each
  migration.

## Abstract specification and refinement

`AuthorizationFlow` says what a client may receive. An outcome for request
`f` names a subject `u` who authenticated in the browser that made `f`. The
authentication is recent enough for `f`'s `max_age`. `u` is the subject of
`f`'s `id_token_hint`, if it has one. The scopes are a subset of those
requested. A request with `prompt=none` from a public client redirecting to
a non-https URI never gets an outcome (spec §4.5, §8, §9).

`ConsentFlow` instantiates it as `AF` and checks `ImplementsAuthorizationFlow
== AF!ASpec`. The refinement mapping:
- `authenticated` is `realAuth`: the logins a user really performed in a
  browser, with the time (`LoginReturn` of a non-skipped login).
- An issued outcome maps its consent request to the flow and subject the
  request carries.
- `now` and `flow` map to themselves.

Every `ConsentFlow` step is then an abstract step or a stutter. This one
property covers what separate checks would otherwise state:
- the outcome reaches only the starting browser;
- the hint binds the subject;
- `max_age` forces a real re-authentication;
- a skipped login cannot continue with another subject;
- the public-client rule of `prompt=none` holds.

Each of these has a mutant that breaks the refinement. The mutants are: the
CSRF check only compares presence; the hint check is dropped;
`MustReauthenticate` ignores `max_age`; the login UI's subject is accepted on
a skipped login; `prompt=none` fails only when consent cannot be skipped.

## Runs

| Run | Checks | Result |
|---|---|---|
| `consent_binding` | `ImplementsAuthorizationFlow` with 2 flows, 2 browsers and 2 subjects, leaked verifiers and logouts: outcomes reach only the starting browser | pass |
| `consent_policy` | `TypeOK`, `SessionAgeIsReal` (every live session records a real login) and `ImplementsAuthorizationFlow`, for every prompt, `max_age` 0, an `id_token_hint`, a login UI asserting either subject, `remember_for` 1, and a confidential and a public non-https client | pass |
| `consent_replay` | `LoginVerifierSingleUse` | violation: accept, redeem, accept again, redeem again yields a second consent request |
| `consent_grant_revocation` | `SkippedConsentNeedsLiveGrant` | violation: the remembered consent a skip rests on is revoked before the browser returns from the consent UI, and the flow still obtains an outcome |
| `consent_revocation` | `SkippedLoginNeedsLiveSession` | violation: the session a login skipped on is revoked before the browser returns from the login UI, and the flow still goes on to consent |
| `key_provisioning` | `TypeOK` with two servers, faults, restarts and every admin call; the run fires every `KeyStore` action | pass |
| `key_deletion` | `ProvisioningYieldsVerifiableKey` | violation: a restart adopts a private key whose public half was deleted |
| `key_import` | `ErrorReplyWritesNothing` | violation: POST `/keys/{set}` with an undecodable field, or PUT `/keys/{set}` with an entry that does not unmarshal, is answered with an error and still persists keys |
| `key_wellknown` | `WellKnownOnlyPublicHalves` | violation: a symmetric key with a `public...` kid is served |
| `key_race` | `ProvisionedOnce` | violation: two servers starting together both generate a pair |
| `plugin_reconnect` | `ConnectIsIdempotent` | violation: `didConnect` is never set, so a second `Connect` replaces `c.db` |
| `migrate_runs` | `TypeOK`, `ExitZeroMeansMigrated` (for runs given a dsn), `RunTerminates` over three runs, each without a dsn, with an unparseable one or a valid one, with connection and migration faults | pass |

The violations are listed as findings in `PROJECT.json`:
- three are code bugs: the missing `return` after a decode error in
  `Create` and in `UpdateKeySet`, and `didConnect`;
- one is a divergence from the spec: provisioning is not idempotent;
- five are gaps in the spec: handle re-arms a verifier, a skipped login
  survives revocation of its session, a skipped consent survives
  revocation of the grants it rested on, deleting a public key is not
  recovered, and the well-known filter goes by kid.
- The `key_import` trace for PUT `/keys/{set}` persists keys only with the
  in-memory manager. With the SQL manager the undecodable key fails
  `json.Marshal` and the transaction rolls back, so there only the POST half
  of the finding applies.

Every property of a passing run has a mutant in `PROJECT.json`. The mutant
is a plausible bug in the definition the property depends on, and TLC finds
it violates the property. Examples:
- the CSRF check compares only presence;
- the public-client condition is dropped from the `prompt=none` policy;
- `pkg.Retry` never gives up, or allows one attempt too many;
- a failed store is not reported.

## Bounds

The bounds are chosen so that each property's interesting case happens in
the run. For each group of runs, the bounds and why they are enough:

* **Consent runs.**
  - **Bounds:** 1–2 flows and browsers; 2 subjects where identity matters;
    challenge ids 2–4, which is enough for a login, a consent and one replay
    or a second flow (3 in `consent_binding`, 2 elsewhere); time 0..1 with `max_age` 0, so a session is either
    fresh or expired; `remember_for` 1, so a grant from time 0 is
    live at 0 and expired at 1.
  - **Why they are enough:** every prompt combination and every rule
    branch is reached (TLC coverage shows every action firing). Binding
    explores 280k states (about 1 minute, with flow/browser and subject
    symmetry), with logouts enabled. Policy explores 1.85M states in about 3 minutes: u1 may hold
    the prior session and be the hint, and the login UI may assert u1 or
    u2, which is what a subject swap on a skipped login and a hint
    mismatch need. Logouts are disabled there: they would add a way to
    lose a session that revocation by subject already gives, and push the
    run past 3 minutes.
  - `consent_revocation` needs one browser holding a session of u1 and two
    challenges; the race is four steps deep. `consent_grant_revocation`
    needs one flow, a login and a consent challenge and one remembered
    grant; its race is six steps deep.
* **Key runs.**
  - **Bounds:** two servers, the ID-token set and one other set, at most 4
    generated pairs.
  - **Why they are enough:** two servers are what a race and a
    restart-after-delete need. The kids include `public`/`private`-prefixed
    user kids where a run needs them.
* **Plugin runs.**
  - **Bounds:** four managers, every fault, and 3 pools.
  - **Why they are enough:** more than one pool is needed to observe
    reconnection. Whether a manager can be built before `Connect` depends
    on the order in which the caller (outside `src/`) calls `Connect` and
    the constructors. The model lets `NewManager` run before `Connect`, and
    the manager records `NoValue`. No property claims either order.
* **Migrate runs.**
  - **Bounds:** four stores, 2 migrations each, 3 attempts and 3 runs,
    each given no dsn, an unparseable dsn or a valid one (16k states).
  - **Why they are enough:** this allows a run to fail part-way and a later
    run to finish the job.

Symmetry is used only over model values that the properties treat alike:
subjects, flow/browser pairs and servers.

## Fairness

Only `Migrate` has a liveness property. Weak fairness is assumed for the
command's own steps (`ConnectAttempt`, `ApplySchemas`): a running process
keeps executing.
- Starting the command again and the database's availability belong to the
  operator and the environment, so they are not fair.
- `RunTerminates` therefore holds because `pkg.Retry` gives up, not because
  the database eventually comes up.

The other modules state safety only. HTTP requests, UI calls and admin calls
happen at the discretion of their users, so there is no fairness to assume.

## Not modelled

* **The Go SDK constructor** (`sdk.go`). It builds two API clients and an
  OAuth 2.0 client configuration from a `Configuration`, once, with no state
  that changes afterwards; there is nothing for a model checker to explore.
  `TrimLeft` where `TrimRight` is meant gives `//oauth2/token` for an
  endpoint URL with a trailing slash; a unit test of `NewSDK` shows that
  directly.
* **The default HTML handlers in the Dockerfile, the container build and
  the documentation.** They have no state over time. The HTML error page
  reflects query parameters unescaped, a question of output encoding.
* **The exit code of the usage path of `hydra migrate sql`.** The path is
  modelled (`Start` without a dsn exits 0, as the code does) and fires in
  `migrate_runs`; that spec §6 asks for exit code 2 there is a one-step
  difference a unit test reaches, so `ExitZeroMeansMigrated` is stated for
  runs given a dsn.
* **The OAuth 2.0 token endpoints.** They are in an external library, not in
  this repository; the model ends at `issued`.
* **The TTL expiry of handled requests** (spec §5). Expiry only makes a
  verifier fail `NotFound`: it removes behaviours, so no safety property of
  `ConsentFlow` can fail because of it, and since no liveness is assumed of
  the users who drive a flow there is nothing for it to break either.
* **The `response_type` condition on skipping consent.** Every flow is a
  code flow; a second response type would double the flow parameters of
  `consent_policy`, which is at its time budget.
* **`publicKey`, `GetGenerators`' unlocked lazy initialisation, and a `Ping`
  that never returns.** `publicKey` is a pure type switch. The lazy
  initialisation writes equal maps whichever writer wins. `UpdateKey`
  ignores the `{kid}` of its URL; the model does too, since the key's own
  kid is all the code stores.
