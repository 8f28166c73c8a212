-------------------------- MODULE PluginConnection --------------------------
(***************************************************************************)
(* The database backend loaded from a Go plugin (config.PluginConnection): *)
(* load opens the plugin once, Connect looks up the plugin's Connect       *)
(* symbol, dials the database and pings it, and each NewXManager looks up  *)
(* its constructor and builds a manager over the connection's current db.  *)
(* Every call may fail at any of its steps; a failed ping is fatal.        *)
(***************************************************************************)
EXTENDS Naturals

CONSTANTS
    Managers,   \* the managers built from the plugin (client, jwk, oauth2, consent)
    Faults,     \* the steps that may fail: "open", "lookup", "dial", "ping"
    MaxPools,   \* bound on database pools dialled
    NoValue

ASSUME Faults \subseteq {"open", "lookup", "dial", "ping"}

VARIABLES
    plugin,     \* c.plugin: whether plugin.Open succeeded
    didConnect, \* c.didConnect
    db,         \* c.db: the current pool (NoValue: nil)
    nextPool,   \* next fresh pool
    connected,  \* history: some Connect has returned nil
    alive,      \* the process has not exited (logger Fatal)
    managers    \* managers[m]: the pool manager m was built over (NoValue: not built)

vars == <<plugin, didConnect, db, nextPool, connected, alive, managers>>

Pools == 1..MaxPools

\* A step of a call fails, if the run lets it.
Fails(step) == step \in Faults

\* load: plugin.Open once; the outcome is whether the plugin is now loaded.
LoadOutcomes == IF plugin THEN {TRUE} ELSE {TRUE} \cup (IF Fails("open") THEN {FALSE} ELSE {})

Init ==
    /\ plugin = FALSE
    /\ didConnect = FALSE
    /\ db = NoValue
    /\ nextPool = 1
    /\ connected = FALSE
    /\ alive = TRUE
    /\ managers = [m \in Managers |-> NoValue]

\* Connect returns nil: the plugin loaded, the symbol was found and the dial
\* succeeded (a failed ping never returns).
ConnectReturnsNil(loaded, fail) == loaded /\ fail \in {"ok", "ping"}

(***************************************************************************)
(* Connect: returns at once if didConnect; otherwise load, look up and type *)
(* assert Connect, dial (replacing c.db) and ping; a failed ping is fatal.  *)
(* fail is the step that fails, or "ok".                                   *)
(***************************************************************************)
Connect ==
    /\ alive
    /\ IF didConnect
         THEN UNCHANGED vars
         ELSE \E loaded \in LoadOutcomes,
                 fail \in {f \in {"lookup", "dial", "ping"} : Fails(f)} \cup {"ok"} :
                LET dialled == loaded /\ fail \in {"ok", "ping"}
                IN /\ ~dialled \/ nextPool <= MaxPools
                   /\ plugin' = loaded
                   /\ db' = IF dialled THEN nextPool ELSE db
                   /\ nextPool' = IF dialled THEN nextPool + 1 ELSE nextPool
                   /\ alive' = ~(dialled /\ fail = "ping")
                   /\ connected' = (connected \/ (ConnectReturnsNil(loaded, fail) /\ fail # "ping"))
                   /\ UNCHANGED <<didConnect, managers>>

(* NewClientManager, NewJWKManager, NewOAuth2Manager, NewConsentManager:   *)
(* load, look up and type assert the constructor, build over c.db.          *)
NewManager(m) ==
    /\ alive
    /\ \E loaded \in LoadOutcomes, fail \in {f \in {"lookup"} : Fails(f)} \cup {"ok"} :
         /\ plugin' = loaded
         /\ IF loaded /\ fail = "ok"
              THEN managers' = [managers EXCEPT ![m] = [db |-> db]]
              ELSE UNCHANGED managers
    /\ UNCHANGED <<didConnect, db, nextPool, connected, alive>>

Next == Connect \/ \E m \in Managers : NewManager(m)

Spec == Init /\ [][Next]_vars

-----------------------------------------------------------------------------
(* Properties                                                              *)

(* Once Connect has returned nil, the connection is established for good:  *)
(* a later Connect (didConnect) returns without dialling, so every manager *)
(* built afterwards shares the pool of the ones built before.              *)
ConnectIsIdempotent ==
    [][connected => db' = db]_vars

=============================================================================
