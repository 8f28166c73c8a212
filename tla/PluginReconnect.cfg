\* Connect called again after it succeeded, no faults: the question is
\* whether the didConnect guard keeps the established connection.
CONSTANTS
    client = client  jwk = jwk  oauth2 = oauth2  consent = consent
    NoValue = NoValue
    Managers = {client}
    Faults = {}
    MaxPools = 2
SPECIFICATION Spec
PROPERTY ConnectIsIdempotent
