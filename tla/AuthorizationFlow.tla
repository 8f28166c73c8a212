-------------------------- MODULE AuthorizationFlow --------------------------
(***************************************************************************)
(* What the login & consent orchestration promises, with no challenges,    *)
(* verifiers, cookies or UIs: authorization requests are made from a       *)
(* browser; users authenticate in a browser; and the outcome handed to the *)
(* OAuth 2.0 framework for a request names a subject who authenticated in  *)
(* the browser that made the request, recently enough for its max_age,     *)
(* the subject of its id_token_hint if it has one, and no scope beyond the *)
(* ones requested; a prompt=none request of a public client redirecting to *)
(* a non-https URI gets no outcome at all (spec sections 4.5, 8 and 9).    *)
(***************************************************************************)
EXTENDS Integers

CONSTANTS Flows, Browsers, Subjects, Clients, PublicNonHttps, Scopes, Prompts,
          IdTokenHints, MaxAges, MaxTime, NoValue

VARIABLES
    now,            \* the clock
    flow,           \* flow[f]: the parameters of authorization request f
    authenticated,  \* the authentications users performed: browser, subject, time
    issued          \* the outcomes handed to the framework

avars == <<now, flow, authenticated, issued>>

\* The parameters of a request made at time t.
Params(t) == [browser: Browsers, client: Clients, scopes: SUBSET Scopes \ {{}},
              prompt: Prompts, hint: IdTokenHints, maxAge: MaxAges, startedAt: {t}]

\* An authentication of u in browser b that satisfies the max_age of P.
Satisfies(P, a, u) ==
    /\ a.browser = P.browser /\ a.subject = u
    /\ P.maxAge # NoValue => P.startedAt - a.authAt <= P.maxAge

AInit ==
    /\ now = 0
    /\ flow = [f \in Flows |-> NoValue]
    /\ authenticated \subseteq [browser: Browsers, subject: Subjects, authAt: {0}]
    /\ issued = {}

\* A browser makes authorization request f.
Request(f) ==
    /\ flow[f] = NoValue
    /\ \E P \in Params(now) : flow' = [flow EXCEPT ![f] = P]
    /\ UNCHANGED <<now, authenticated, issued>>

\* A user authenticates in browser b.
Authenticate(b, u) ==
    /\ authenticated' = authenticated \cup {[browser |-> b, subject |-> u, authAt |-> now]}
    /\ UNCHANGED <<now, flow, issued>>

\* The outcome of request f for subject u with scopes sc reaches its browser.
Issue(f, u, sc) ==
    LET P == flow[f]
    IN /\ P # NoValue
       /\ \E a \in authenticated : Satisfies(P, a, u)
       /\ P.hint # NoValue => u = P.hint
       /\ ~("none" \in P.prompt /\ P.client \in PublicNonHttps)
       /\ sc \subseteq P.scopes
       /\ issued' = issued \cup {[flow |-> f, browser |-> P.browser, subject |-> u, scopes |-> sc]}
       /\ UNCHANGED <<now, flow, authenticated>>

ATick ==
    /\ now < MaxTime
    /\ now' = now + 1
    /\ UNCHANGED <<flow, authenticated, issued>>

ANext ==
    \/ \E f \in Flows : Request(f)
    \/ \E b \in Browsers, u \in Subjects : Authenticate(b, u)
    \/ \E f \in Flows, u \in Subjects, sc \in SUBSET Scopes : Issue(f, u, sc)
    \/ ATick

ASpec == AInit /\ [][ANext]_avars

=============================================================================
