---------------------------- MODULE MCConsentFlow ----------------------------
EXTENDS ConsentFlow, TLC

CONSTANTS f1, f2, b1, b2, u1, u2, cl1, cl2, s1, s2

\* Every prompt value the OIDC request validator lets through to the strategy.
AllPrompts == {{}, {"none"}, {"login"}, {"consent"}, {"login", "consent"}}
NoPrompt == {{}}
LoginPrompt == {{}, {"login"}}

MaxAgeZero == {NoValue, 0}
NoMaxAge == {NoValue}

SubjectSymmetry == Permutations({u1, u2})
FlowBrowserSymmetry == Permutations({f1, f2}) \cup Permutations({b1, b2})
BindingSymmetry == FlowBrowserSymmetry \cup SubjectSymmetry
=============================================================================
