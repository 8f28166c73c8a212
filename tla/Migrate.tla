------------------------------- MODULE Migrate -------------------------------
(***************************************************************************)
(* `hydra migrate sql <dsn>` (MigrateHandler.MigrateSQL): connect with     *)
(* retries (connectToSql), then run CreateSchemas of every store in the    *)
(* random order of a Go map iteration (runMigrateSQL), exiting 1 on the    *)
(* first error and 0 after the last store.  The schema versions applied    *)
(* persist in the database across runs; an operator may run the command   *)
(* again after it exits.                                                   *)
(***************************************************************************)
EXTENDS Integers

CONSTANTS
    Schemas,        \* the stores migrated: client, oauth2, jwk, consent
    MaxVersion,     \* migrations per store
    ConnectFaults,  \* whether sqlx.Open / Ping may fail
    SchemaFaults,   \* whether a migration of CreateSchemas may fail
    MaxAttempts,    \* attempts pkg.Retry makes within its 2 minute budget
    MaxRuns,        \* bound on runs of the command
    Dsns            \* the argument a run is given: "none", "unparseable" or "valid"

ASSUME ConnectFaults \in BOOLEAN /\ SchemaFaults \in BOOLEAN
ASSUME MaxAttempts \in Nat \ {0} /\ MaxRuns \in Nat
ASSUME Dsns \subseteq {"none", "unparseable", "valid"}

VARIABLES
    applied,        \* applied[k]: migrations of store k recorded in the database
    pc,             \* "idle", "connect", "migrate" or "exited"
    attempts,       \* connection attempts of the current run
    pending,        \* stores the current run has not migrated yet
    exitCode,       \* exit status of the last run that exited
    runs,           \* runs started
    dsn,            \* the argument of the current (or last) run
    dbUp            \* whether the database currently accepts connections

vars == <<applied, pc, attempts, pending, exitCode, runs, dsn, dbUp>>

\* Not an exit status: the run goes on (or no run has exited yet).
NoExit == -1

\* Mutants: Retry never gives up; Retry allows one attempt too many.
RetryExhaustedMutant(n) == FALSE
RetryExhaustedOffByOne(n) == n > MaxAttempts

\* pkg.Retry(15s, 2m): gives up once its time budget is spent.
RetryExhausted(n) == n >= MaxAttempts

\* Mutant: an error of CreateSchemas is reported but the loop goes on.
RunResultMutant(failed, left) == IF left = {} THEN 0 ELSE NoExit

\* runMigrateSQL: the first error ends the run (exit 1); after the last store
\* the run succeeds (exit 0).
RunResult(failed, left) ==
    IF failed THEN 1 ELSE IF left = {} THEN 0 ELSE NoExit

Init ==
    /\ applied = [k \in Schemas |-> 0]
    /\ pc = "idle"
    /\ attempts = 0
    /\ pending = {}
    /\ exitCode = NoExit
    /\ runs = 0
    /\ dsn = "none"
    /\ dbUp = TRUE

(***************************************************************************)
(* MigrateSQL: without an argument it prints its usage and returns, so the *)
(* process exits 0; a dsn url.Parse rejects fails connectToSql before any  *)
(* attempt (exit 1); otherwise the connection attempts begin.              *)
(***************************************************************************)
Start(d) ==
    /\ pc \in {"idle", "exited"}
    /\ runs < MaxRuns
    /\ runs' = runs + 1
    /\ dsn' = d
    /\ attempts' = 0
    /\ CASE d = "none"        -> pc' = "exited" /\ exitCode' = 0
          [] d = "unparseable" -> pc' = "exited" /\ exitCode' = 1
          [] d = "valid"       -> pc' = "connect" /\ UNCHANGED exitCode
    /\ UNCHANGED <<applied, pending, dbUp>>

(* One attempt of the function connectToSql passes to pkg.Retry: open and  *)
(* ping; a failure is retried until the budget is spent, then exit 1.      *)
ConnectAttempt ==
    /\ pc = "connect"
    /\ IF dbUp
         THEN /\ pc' = "migrate"
                /\ pending' = Schemas
                /\ UNCHANGED <<attempts, exitCode>>
         ELSE IF RetryExhausted(attempts + 1)
           THEN /\ pc' = "exited"
                /\ exitCode' = 1
                /\ attempts' = attempts + 1
                /\ UNCHANGED pending
           ELSE /\ attempts' = IF attempts < MaxAttempts THEN attempts + 1 ELSE attempts
                /\ UNCHANGED <<pc, pending, exitCode>>
    /\ UNCHANGED <<applied, runs, dsn, dbUp>>

(* CreateSchemas of store k (the next key of the map iteration): applies  *)
(* its missing migrations in order; a failing one stops it with an error. *)
ApplySchemas(k) ==
    /\ pc = "migrate"
    /\ k \in pending
    /\ \E reached \in applied[k]..MaxVersion :
         LET failed == reached < MaxVersion
             result == RunResult(failed, pending \ {k})
         IN /\ failed => SchemaFaults
            /\ applied' = [applied EXCEPT ![k] = reached]
            /\ pending' = pending \ {k}
            /\ IF result = NoExit
                 THEN UNCHANGED <<pc, exitCode>>
                 ELSE /\ pc' = "exited"
                      /\ exitCode' = result
    /\ UNCHANGED <<attempts, runs, dsn, dbUp>>

\* The database goes down or comes back, independently of the command.
DatabaseAvailability ==
    /\ ConnectFaults
    /\ dbUp' = ~dbUp
    /\ UNCHANGED <<applied, pc, attempts, pending, exitCode, runs, dsn>>

Next ==
    \/ \E d \in Dsns : Start(d)
    \/ ConnectAttempt
    \/ \E k \in Schemas : ApplySchemas(k)
    \/ DatabaseAvailability

\* The process makes progress by itself; whether it is run again is up to
\* the operator, and whether the database is up is up to the environment,
\* so neither Start nor DatabaseAvailability is fair.
Spec == Init /\ [][Next]_vars /\ WF_vars(ConnectAttempt \/ \E k \in Schemas : ApplySchemas(k))

-----------------------------------------------------------------------------
(* Properties                                                              *)

TypeOK ==
    /\ applied \in [Schemas -> 0..MaxVersion]
    /\ pc \in {"idle", "connect", "migrate", "exited"}
    /\ attempts \in 0..MaxAttempts
    /\ pending \subseteq Schemas
    /\ exitCode \in {NoExit, 0, 1}
    /\ runs \in 0..MaxRuns
    /\ dsn \in Dsns \cup {"none"}
    /\ dbUp \in BOOLEAN

(* "Migration successful!" (exit 0) after a run given a dsn is only       *)
(* reported when every store's schema is at its latest version, even after *)
(* earlier runs that failed part-way left some stores migrated and others  *)
(* not.  (A run without a dsn also exits 0, having printed its usage.)     *)
ExitZeroMeansMigrated ==
    pc = "exited" /\ exitCode = 0 /\ dsn # "none" =>
        \A k \in Schemas : applied[k] = MaxVersion

(* Every run of the command ends: the connection retries are bounded and  *)
(* each store is visited once.                                             *)
RunTerminates ==
    pc \in {"connect", "migrate"} ~> pc = "exited"

=============================================================================
