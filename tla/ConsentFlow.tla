----------------------------- MODULE ConsentFlow -----------------------------
(***************************************************************************)
(* The login & consent orchestration of the authorization server: the     *)
(* OIDC strategy invoked at /oauth2/auth, the consent store it shares with *)
(* the management API, and the untrusted login and consent UIs that call   *)
(* that API.  Every browser request, UI call and admin call is one atomic  *)
(* step; steps of different flows and browsers interleave freely.         *)
(*                                                                         *)
(* Challenges, verifiers and CSRF values of one request are represented by *)
(* one identifier from Ids: the three are minted together and the model    *)
(* lets any browser present any verifier (a leaked verifier), so only the  *)
(* CSRF cookie binds a verifier to a browser.                             *)
(***************************************************************************)
EXTENDS Integers, FiniteSets

CONSTANTS
    Flows,          \* authorization attempts (one /oauth2/auth request each)
    Browsers,       \* user agents, each with its own cookie jar
    Subjects,       \* end-user identifiers the login UI may assert
    Clients,        \* OAuth 2.0 clients
    PublicNonHttps, \* clients that are public and redirect to a non-https URI
    Scopes,         \* scope names
    Prompts,        \* the values of the prompt parameter, as sets of words
    MaxAges,        \* max_age values (NoValue: not given)
    IdTokenHints,   \* id_token_hint subjects (NoValue: not given)
    Remembers,      \* remember values the UIs may send
    RememberFors,   \* remember_for values the consent UI may send
    MaxTime,        \* bound of the clock, in seconds
    MaxId,          \* bound on minted challenges
    MaxSessions,    \* bound on created authentication sessions
    PriorSubjects,  \* subjects that may hold a remembered session initially
    Logouts,        \* whether single sessions are deleted (logout) in this run
    NoValue         \* absent value (no cookie, no record, no parameter)

ASSUME PublicNonHttps \subseteq Clients
ASSUME Remembers \subseteq BOOLEAN
ASSUME PriorSubjects \subseteq Subjects /\ Logouts \in BOOLEAN
ASSUME IdTokenHints \subseteq Subjects \cup {NoValue}
ASSUME \A p \in Prompts : p \subseteq {"none", "login", "consent"}
ASSUME MaxTime \in Nat /\ MaxId \in Nat /\ MaxSessions \in Nat

VARIABLES
    now,            \* the server clock
    flow,           \* flow[f]: the parameters of authorization request f
    nextId,         \* next fresh challenge (uuid)
    loginReq,       \* AuthenticationRequest rows, by challenge
    handledLogin,   \* HandledAuthenticationRequest rows, by challenge
    consentReq,     \* ConsentRequest rows, by challenge
    handledConsent, \* HandledConsentRequest rows, by challenge
    sessions,       \* AuthenticationSession rows, by id
    nextSid,        \* next fresh session id
    cookie,         \* cookie[b]: session id and the two CSRF cookies of b
    grants,         \* remembered consents (client, subject, scopes, expiry)
    issued,         \* consent outcomes handed to the OAuth 2.0 framework
    realAuth        \* history: non-skipped logins, as [browser, subject, authAt]

vars == <<now, flow, nextId, loginReq, handledLogin, consentReq,
          handledConsent, sessions, nextSid, cookie, grants, issued, realAuth>>

Ids == 1..MaxId
\* Session ids: the prior session of a browser is keyed by the browser.
Sids == Browsers \cup (1..MaxSessions)
Time == 0..MaxTime

\* A handled row once VerifyAndInvalidate has set was_used: nothing reads its
\* other columns any more, so they are dropped.
UsedLogin == [subject |-> NoValue, remember |-> FALSE, error |-> FALSE, wasUsed |-> TRUE]
UsedConsent == [granted |-> {}, remember |-> FALSE, rememberFor |-> 0,
                error |-> FALSE, wasUsed |-> TRUE]

-----------------------------------------------------------------------------
(* Rules the strategy and the management API share.                        *)

\* Mutant: the subject is only required to be present, not to be the same.
LoginSubjectAllowedMutant(req, subject) == req.skip => subject # NoValue

\* On a skipped login the UI must confirm the subject the server knows
\* (checked by the accept endpoint and again after verification).
LoginSubjectAllowed(req, subject) == req.skip => subject = req.subject

\* Mutant: the skip => !remember rule is not enforced.
RememberAllowedMutant(skip, remember) == TRUE

\* A skipped login or consent may not be remembered (accept and verify).
RememberAllowed(skip, remember) == skip => ~remember

\* Mutant: only the presence of the CSRF cookie is checked.
CsrfValidMutant(cookieValue, csrf) == cookieValue # NoValue

\* The browser's signed CSRF cookie must equal the value stored in the request.
CsrfValid(cookieValue, csrf) == cookieValue = csrf

\* Mutant: the subject asserted by the login UI is not compared with the hint.
HintSatisfiedMutant(P, subject) == TRUE

\* id_token_hint binds the authenticated subject.
HintSatisfied(P, subject) == P.hint # NoValue => subject = P.hint

\* Mutant: max_age is ignored when a session exists.
MustReauthenticateMutant(P, hasSession, s) ==
    \/ ~hasSession
    \/ P.hint # NoValue /\ s.subject # P.hint

\* The remembered session does not satisfy the request: none exists, it is
\* older than max_age, or it belongs to another subject than id_token_hint.
MustReauthenticate(P, hasSession, s) ==
    \/ ~hasSession
    \/ P.maxAge # NoValue /\ now - s.authAt > P.maxAge
    \/ P.hint # NoValue /\ s.subject # P.hint

\* FindPreviouslyGrantedConsentRequests: remembered, unexpired consents.
PreviouslyGranted(client, subject) ==
    {g \in grants : /\ g.client = client /\ g.subject = subject
                    /\ (g.rememberFor = 0 \/ g.grantedAt + g.rememberFor > now)}

\* Mutant: prompt=none fails only when consent cannot be skipped.
ConsentPolicyFailsNoPublicCheck(P, skipConsent) ==
    "none" \in P.prompt /\ ~skipConsent

\* prompt=none must end in consent_required when the UI would have to act.
ConsentPolicyFails(P, skipConsent) ==
    "none" \in P.prompt /\ (~skipConsent \/ P.client \in PublicNonHttps)

\* Mutant: the expiry time is stored in granted_at.
RememberedGrantMutant(P, req, h) ==
    [client |-> P.client, subject |-> req.subject, scopes |-> h.granted,
     rememberFor |-> h.rememberFor, grantedAt |-> now + h.rememberFor]

\* The consent a remembered ConsentReturn persists for later skip decisions.
RememberedGrant(P, req, h) ==
    [client |-> P.client, subject |-> req.subject, scopes |-> h.granted,
     rememberFor |-> h.rememberFor, grantedAt |-> now]

-----------------------------------------------------------------------------
\* Consents a subject remembered before the model starts (at time 0).
PriorGrant == [client: Clients, subject: PriorSubjects, scopes: SUBSET Scopes \ {{}},
               rememberFor: RememberFors, grantedAt: {0}]

(***************************************************************************)
(* The store and the browsers as an earlier, completed login left them:    *)
(* each browser may hold the cookie of a remembered session of a subject   *)
(* in PriorSubjects (its row keyed by the browser, authenticated at 0),    *)
(* and such subjects may have remembered consents.                         *)
(***************************************************************************)
Init ==
    /\ now = 0
    /\ flow = [f \in Flows |-> NoValue]
    /\ nextId = 1
    /\ loginReq = [c \in Ids |-> NoValue]
    /\ handledLogin = [c \in Ids |-> NoValue]
    /\ consentReq = [c \in Ids |-> NoValue]
    /\ handledConsent = [c \in Ids |-> NoValue]
    /\ nextSid = 1
    /\ \E pre \in [Browsers -> PriorSubjects \cup {NoValue}] :
        LET holders == {b \in Browsers : pre[b] # NoValue}
        IN /\ sessions = [s \in Sids |->
                            IF s \in holders THEN [subject |-> pre[s], authAt |-> 0]
                            ELSE NoValue]
           /\ cookie = [b \in Browsers |->
                           [session |-> IF b \in holders THEN b ELSE NoValue,
                            loginCsrf |-> NoValue, consentCsrf |-> NoValue]]
           /\ realAuth = {[browser |-> b, subject |-> pre[b], authAt |-> 0] : b \in holders}
    /\ grants \in SUBSET PriorGrant
    /\ issued = {}

(***************************************************************************)
(* /oauth2/auth without verifiers: requireAuthentication.  The session     *)
(* cookie is resolved against the store; prompt, max_age and id_token_hint *)
(* decide whether the login UI may skip; a login request is persisted, the *)
(* CSRF cookie written and the browser redirected to the login UI.         *)
(***************************************************************************)
Authorize(f) ==
    /\ flow[f] = NoValue
    /\ nextId <= MaxId
    /\ \E b \in Browsers, cl \in Clients, sc \in SUBSET Scopes \ {{}},
          p \in Prompts, h \in IdTokenHints, m \in MaxAges :
        LET P == [browser |-> b, client |-> cl, scopes |-> sc, prompt |-> p,
                  hint |-> h, maxAge |-> m, startedAt |-> now]
            sid == cookie[b].session
            hasSession == sid # NoValue /\ sessions[sid] # NoValue
            s == IF hasSession THEN sessions[sid] ELSE NoValue
            reauth == MustReauthenticate(P, hasSession, s)
            skip == ~reauth /\ "login" \notin p
        IN /\ flow' = [flow EXCEPT ![f] = P]
           /\ IF "none" \in p /\ reauth
                THEN UNCHANGED <<nextId, loginReq, cookie>>  \* login_required
                ELSE /\ loginReq' = [loginReq EXCEPT ![nextId] =
                          [flow |-> f, skip |-> skip,
                           subject |-> IF skip THEN s.subject ELSE NoValue,
                           authAt |-> IF skip THEN s.authAt ELSE NoValue]]
                     /\ cookie' = [cookie EXCEPT ![b].loginCsrf = nextId]
                     /\ nextId' = nextId + 1
    /\ UNCHANGED <<now, handledLogin, consentReq, handledConsent, sessions,
                   nextSid, grants, issued, realAuth>>

(* PUT .../login/{challenge}/accept: inserts or replaces the handled row.   *)
AcceptLogin(c, subject, remember) ==
    /\ loginReq[c] # NoValue
    /\ LoginSubjectAllowed(loginReq[c], subject)
    /\ RememberAllowed(loginReq[c].skip, remember)
    /\ handledLogin' = [handledLogin EXCEPT ![c] =
          [subject |-> subject, remember |-> remember, error |-> FALSE,
           wasUsed |-> FALSE]]
    /\ UNCHANGED <<now, flow, nextId, loginReq, consentReq, handledConsent,
                   sessions, nextSid, cookie, grants, issued, realAuth>>

(* PUT .../login/{challenge}/reject                                         *)
RejectLogin(c) ==
    /\ loginReq[c] # NoValue
    /\ handledLogin' = [handledLogin EXCEPT ![c] =
          [subject |-> NoValue, remember |-> FALSE, error |-> TRUE,
           wasUsed |-> FALSE]]
    /\ UNCHANGED <<now, flow, nextId, loginReq, consentReq, handledConsent,
                   sessions, nextSid, cookie, grants, issued, realAuth>>

(***************************************************************************)
(* /oauth2/auth?login_verifier=c from browser b: verifyAuthentication then *)
(* requireConsent.  VerifyAndInvalidate marks the row used before any other *)
(* check, so a failing request still burns the verifier.  On success the   *)
(* session is written (remember) or revoked (no remember, no skip) before  *)
(* the consent policy runs, so a consent_required error keeps that effect.  *)
(***************************************************************************)
LoginReturn(b, c) ==
    LET req == loginReq[c]
        h == handledLogin[c]
        P == flow[req.flow]
        ok == /\ CsrfValid(cookie[b].loginCsrf, c)
              /\ ~h.error
              /\ LoginSubjectAllowed(req, h.subject)
              /\ RememberAllowed(req.skip, h.remember)
              /\ HintSatisfied(P, h.subject)
        old == cookie[b].session
        sessions1 == IF h.remember
                       THEN [sessions EXCEPT ![nextSid] =
                               [subject |-> h.subject, authAt |-> now]]
                     ELSE IF ~req.skip /\ old # NoValue
                       THEN [sessions EXCEPT ![old] = NoValue]
                     ELSE sessions
        session1 == IF h.remember THEN nextSid
                    ELSE IF ~req.skip THEN NoValue ELSE old
        skipConsent ==
            /\ P.scopes \subseteq UNION {g.scopes : g \in PreviouslyGranted(P.client, h.subject)}
            /\ "consent" \notin P.prompt
    IN
    /\ h # NoValue /\ ~h.wasUsed
    /\ nextId <= MaxId /\ nextSid <= MaxSessions
    /\ handledLogin' = [handledLogin EXCEPT ![c] = UsedLogin]
    /\ IF ~ok
         THEN UNCHANGED <<nextId, consentReq, sessions, nextSid, cookie, realAuth>>
         ELSE /\ sessions' = sessions1
                 \* only a remembered login mints a session id
              /\ nextSid' = IF h.remember THEN nextSid + 1 ELSE nextSid
              /\ realAuth' = IF req.skip THEN realAuth
                             ELSE realAuth \cup {[browser |-> b, subject |-> h.subject, authAt |-> now]}
              /\ IF ConsentPolicyFails(P, skipConsent)
                   THEN /\ cookie' = [cookie EXCEPT ![b].session = session1]
                        /\ UNCHANGED <<nextId, consentReq>>
                   ELSE /\ consentReq' = [consentReq EXCEPT ![nextId] =
                              [flow |-> req.flow, login |-> c,
                               subject |-> h.subject, skip |-> skipConsent,
                               authAt |-> IF req.skip THEN req.authAt ELSE now]]
                        /\ cookie' = [cookie EXCEPT ![b].session = session1,
                                                    ![b].consentCsrf = nextId]
                        /\ nextId' = nextId + 1
    /\ UNCHANGED <<now, flow, loginReq, handledConsent, grants, issued>>

(* PUT .../consent/{challenge}/accept: inserts or replaces the handled row. *)
AcceptConsent(c, granted, remember, rememberFor) ==
    /\ consentReq[c] # NoValue
    /\ RememberAllowed(consentReq[c].skip, remember)
    /\ handledConsent' = [handledConsent EXCEPT ![c] =
          [granted |-> granted, remember |-> remember,
           rememberFor |-> rememberFor, error |-> FALSE, wasUsed |-> FALSE]]
    /\ UNCHANGED <<now, flow, nextId, loginReq, handledLogin, consentReq,
                   sessions, nextSid, cookie, grants, issued, realAuth>>

(* PUT .../consent/{challenge}/reject                                       *)
RejectConsent(c) ==
    /\ consentReq[c] # NoValue
    /\ handledConsent' = [handledConsent EXCEPT ![c] =
          [granted |-> {}, remember |-> FALSE, rememberFor |-> 0,
           error |-> TRUE, wasUsed |-> FALSE]]
    /\ UNCHANGED <<now, flow, nextId, loginReq, handledLogin, consentReq,
                   sessions, nextSid, cookie, grants, issued, realAuth>>

(***************************************************************************)
(* /oauth2/auth?consent_verifier=c from browser b: verifyConsent.  The     *)
(* verified consent is remembered for later skip decisions and handed to   *)
(* the OAuth 2.0 framework, which issues the tokens.                      *)
(***************************************************************************)
ConsentReturn(b, c) ==
    LET req == consentReq[c]
        h == handledConsent[c]
        P == flow[req.flow]
        ok == /\ CsrfValid(cookie[b].consentCsrf, c)
              /\ ~h.error
              /\ h.granted \subseteq P.scopes
              /\ RememberAllowed(req.skip, h.remember)
    IN
    /\ h # NoValue /\ ~h.wasUsed
    /\ handledConsent' = [handledConsent EXCEPT ![c] = UsedConsent]
    /\ IF ~ok
         THEN UNCHANGED <<grants, issued>>
         ELSE /\ grants' = IF h.remember /\ ~req.skip
                             THEN grants \cup {RememberedGrant(P, req, h)}
                             ELSE grants
              /\ issued' = issued \cup {[consent |-> c, browser |-> b, scopes |-> h.granted]}
    /\ UNCHANGED <<now, flow, nextId, loginReq, handledLogin, consentReq,
                   sessions, nextSid, cookie, realAuth>>

(* DELETE /oauth2/auth/sessions/login/{subject}                             *)
RevokeAuthenticationSessions(u) ==
    /\ \E s \in Sids : sessions[s] # NoValue /\ sessions[s].subject = u
    /\ sessions' = [s \in Sids |->
                      IF sessions[s] # NoValue /\ sessions[s].subject = u
                        THEN NoValue ELSE sessions[s]]
    /\ UNCHANGED <<now, flow, nextId, loginReq, handledLogin, consentReq,
                   handledConsent, nextSid, cookie, grants, issued, realAuth>>

(* DeleteAuthenticationSession(id): one session row is removed (a logout); *)
(* cookies that point at it are left as they are.                         *)
DeleteAuthenticationSession(s) ==
    /\ Logouts
    /\ sessions[s] # NoValue
    /\ sessions' = [sessions EXCEPT ![s] = NoValue]
    /\ UNCHANGED <<now, flow, nextId, loginReq, handledLogin, consentReq,
                   handledConsent, nextSid, cookie, grants, issued, realAuth>>

(* DELETE /oauth2/auth/sessions/consent/{subject}[/{client}]                *)
RevokeConsentSessions(u, clients) ==
    /\ \E g \in grants : g.subject = u /\ g.client \in clients
    /\ grants' = {g \in grants : ~(g.subject = u /\ g.client \in clients)}
    /\ UNCHANGED <<now, flow, nextId, loginReq, handledLogin, consentReq,
                   handledConsent, sessions, nextSid, cookie, issued, realAuth>>

Tick ==
    /\ now < MaxTime
    /\ now' = now + 1
    /\ UNCHANGED <<flow, nextId, loginReq, handledLogin, consentReq,
                   handledConsent, sessions, nextSid, cookie, grants, issued,
                   realAuth>>

\* Every authorization attempt was made and the clock is at its bound.
Finished ==
    /\ \A f \in Flows : flow[f] # NoValue
    /\ now = MaxTime
    /\ UNCHANGED vars

Next ==
    \/ \E f \in Flows : Authorize(f)
    \/ \E c \in Ids, u \in Subjects, r \in Remembers : AcceptLogin(c, u, r)
    \/ \E c \in Ids : RejectLogin(c)
    \/ \E b \in Browsers, c \in Ids : LoginReturn(b, c)
    \/ \E c \in Ids, g \in SUBSET Scopes, r \in Remembers, rf \in RememberFors :
          AcceptConsent(c, g, r, rf)
    \/ \E c \in Ids : RejectConsent(c)
    \/ \E b \in Browsers, c \in Ids : ConsentReturn(b, c)
    \/ \E u \in Subjects : RevokeAuthenticationSessions(u)
    \/ \E s \in Sids : DeleteAuthenticationSession(s)
    \/ \E u \in Subjects : RevokeConsentSessions(u, Clients)
    \/ \E u \in Subjects, cl \in Clients : RevokeConsentSessions(u, {cl})
    \/ Tick
    \/ Finished

Spec == Init /\ [][Next]_vars

-----------------------------------------------------------------------------
(* Properties                                                              *)

LoginRow == [flow: Flows, skip: BOOLEAN, subject: Subjects \cup {NoValue},
             authAt: Time \cup {NoValue}]
ConsentRow == [flow: Flows, login: Ids, subject: Subjects,
               skip: BOOLEAN, authAt: Time]
Grant == [client: Clients, subject: Subjects, scopes: SUBSET Scopes,
          rememberFor: RememberFors, grantedAt: Time]

TypeOK ==
    /\ now \in Time
    /\ flow \in [Flows -> {NoValue} \cup
                 [browser: Browsers, client: Clients, scopes: SUBSET Scopes,
                  prompt: Prompts, hint: IdTokenHints, maxAge: MaxAges, startedAt: Time]]
    /\ nextId \in 1..MaxId + 1 /\ nextSid \in 1..MaxSessions + 1
    /\ loginReq \in [Ids -> LoginRow \cup {NoValue}]
    /\ handledLogin \in [Ids -> {NoValue} \cup
          [subject: Subjects \cup {NoValue}, remember: BOOLEAN, error: BOOLEAN,
           wasUsed: BOOLEAN]]
    /\ consentReq \in [Ids -> ConsentRow \cup {NoValue}]
    /\ handledConsent \in [Ids -> {NoValue} \cup
          [granted: SUBSET Scopes, remember: BOOLEAN,
           rememberFor: RememberFors \cup {0}, error: BOOLEAN, wasUsed: BOOLEAN]]
    /\ sessions \in [Sids -> {NoValue} \cup [subject: Subjects, authAt: Time]]
    /\ cookie \in [Browsers -> [session: Sids \cup {NoValue},
                               loginCsrf: Ids \cup {NoValue},
                               consentCsrf: Ids \cup {NoValue}]]
    /\ grants \subseteq Grant
    /\ issued \subseteq [consent: Ids, browser: Browsers, scopes: SUBSET Scopes]
    /\ realAuth \subseteq [browser: Browsers, subject: Subjects, authAt: Time]

\* The parameters of the flow a consent request was created for.
FlowOf(c) == flow[consentReq[c].flow]

(***************************************************************************)
(* The refinement mapping to AuthorizationFlow: the users' authentications *)
(* are the non-skipped logins (with the browser that returned from the     *)
(* login UI), and an outcome is the flow, browser, subject and granted      *)
(* scopes of the consent verifyConsent handed to the framework.           *)
(***************************************************************************)
AF == INSTANCE AuthorizationFlow WITH
        authenticated <- realAuth,
        issued <- {[flow |-> consentReq[i.consent].flow, browser |-> i.browser,
                    subject |-> consentReq[i.consent].subject, scopes |-> i.scopes] :
                   i \in issued}

(* The strategy implements what it promises: every outcome handed to the    *)
(* OAuth 2.0 framework reaches the browser that started the request (a      *)
(* leaked verifier is refused by the CSRF check), names a subject who        *)
(* really logged in in that browser within max_age of the request (on a     *)
(* skipped login, through the session it remembered), honours id_token_hint *)
(* and grants no scope beyond the requested ones.                           *)
ImplementsAuthorizationFlow == AF!ASpec

(* Every live authentication session records a real, non-skipped login of *)
(* its subject at its authenticated_at: a skipped login cannot refresh a   *)
(* session and so extend it past max_age without the user logging in.     *)
SessionAgeIsReal ==
    \A s \in Sids : sessions[s] # NoValue =>
        \E a \in realAuth : a.subject = sessions[s].subject /\ a.authAt = sessions[s].authAt

(* A consent the strategy skipped is handed to the framework only while    *)
(* the consents it was skipped on are still remembered: when verifyConsent  *)
(* issues the outcome of a consent request marked skip, the requested      *)
(* scopes are still covered by FindPreviouslyGrantedConsentRequests for    *)
(* that client and subject.  Revoking the consent sessions                  *)
(* (DELETE /oauth2/auth/sessions/consent/{subject}[/{client}]) or reaching *)
(* granted_at + remember_for between the skip decision in requireConsent   *)
(* and the return from the consent UI would otherwise still yield tokens.  *)
SkippedConsentNeedsLiveGrant ==
    [][\A c \in Ids :
         /\ consentReq[c] # NoValue /\ consentReq[c].skip
         /\ \E i \in issued' \ issued : i.consent = c
         => FlowOf(c).scopes \subseteq
               UNION {g.scopes : g \in PreviouslyGranted(FlowOf(c).client, consentReq[c].subject)}]_vars

(* A login the strategy skipped continues only on a session that is still  *)
(* live: when verifyAuthentication turns a skipped login into a consent     *)
(* request, the store still holds an authentication session of that        *)
(* subject from that authenticated_at.  Revoking a subject's sessions       *)
(* (DELETE /oauth2/auth/sessions/login/{subject}) or a login without        *)
(* remember in the same browser between the skip decision and the return   *)
(* from the login UI would otherwise leave the flow running on a session    *)
(* that no longer exists.                                                   *)
SkippedLoginNeedsLiveSession ==
    [][\A c \in Ids :
         /\ consentReq[c] = NoValue /\ consentReq'[c] # NoValue
         /\ loginReq[consentReq'[c].login].skip
         => \E s \in Sids : /\ sessions[s] # NoValue
                           /\ sessions[s].subject = consentReq'[c].subject
                           /\ sessions[s].authAt = consentReq'[c].authAt]_vars

(* Each login verifier yields at most one consent request: the single-use  *)
(* promise of VerifyAndInvalidateAuthenticationRequest.                    *)
LoginVerifierSingleUse ==
    \A c1, c2 \in Ids :
        /\ consentReq[c1] # NoValue /\ consentReq[c2] # NoValue
        /\ consentReq[c1].login = consentReq[c2].login
        => c1 = c2


=============================================================================
