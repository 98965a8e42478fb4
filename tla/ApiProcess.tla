----------------------------- MODULE ApiProcess -----------------------------
(***************************************************************************)
(* One life of the API process, src/cmd/transaction-api/main.go: it loads  *)
(* its configuration, opens the store, registers the readiness check,      *)
(* serves, drains on SIGTERM for up to SHUTDOWN_TIMEOUT, closes the pool   *)
(* and exits.  Pushes and readiness probes are in flight meanwhile and     *)
(* share the connections of the pool.                                      *)
(*                                                                         *)
(* net/http's Server and pgxpool's Pool are modelled from how main.go uses *)
(* them.  A push is followed through its handler only as far as the pool   *)
(* and the shutdown see it: IngestHandler and PostgresStore have the rest. *)
(***************************************************************************)
EXTENDS Configuration, HealthChecker

CONSTANTS
  Requests,       \* pushes
  Environments,   \* environments the process is started in
  NotLoaded       \* the settings before Load returns

Database == "database"

ASSUME DatabaseAssumption == Database \in Names
ASSUME EnvironmentsAssumption ==
  \A env \in Environments :
    /\ DOMAIN env = ConfigKeys
    /\ \A k \in NumberKeys : env[k] \in Number

VARIABLES
  environment,
  settings,    \* what run was given by config.Load
  phase,       \* the place of run
  code,        \* what the process exits with
  signalled,   \* SIGTERM has cancelled the context of run
  listener,    \* the listening socket
  grace,       \* ticks since srv.Shutdown was called
  pool,        \* the connection pool
  reachable,   \* whether the database answers
  request,     \* the place of a push
  failure,     \* why a push is answered with a 500: "none", "database", "pool"
  pinging      \* probes whose Ping holds a connection

processVars == <<environment, settings, phase, code, signalled, listener, grace>>
requestVars == <<request, failure>>
vars == <<processVars, pool, reachable, requestVars, pinging, healthVars>>

Phases == {"load", "open", "serve", "drain", "close", "exited"}
Codes == {"none", "ok", "error", "killed"}
Places == {"unsent", "handling", "storing", "writing", "answered", "unanswered", "cut"}

Init ==
  /\ environment \in Environments
  /\ settings = NotLoaded
  /\ phase = "load"
  /\ code = "none"
  /\ signalled = FALSE
  /\ listener = "none"
  /\ grace = 0
  /\ pool = "none"
  /\ reachable \in BOOLEAN
  /\ request = [r \in Requests |-> "unsent"]
  /\ failure = [r \in Requests |-> "none"]
  /\ pinging = {}
  /\ HealthInit

ShutdownTimeout == settings.number["SHUTDOWN_TIMEOUT"]
Capacity == PoolSize(settings.number["DATABASE_MAX_CONNS"])

Handling(r) == request[r] \in {"handling", "storing", "writing"}
InFlight == {r \in Requests : Handling(r)} \cup running

Connections == {r \in Requests : request[r] = "storing"} \cup pinging
Free == pool = "open" /\ Cardinality(Connections) < Capacity

Running == phase # "exited"
Goto(r, place) == request' = [request EXCEPT ![r] = place]

-----------------------------------------------------------------------------
(* The steps of run                                                        *)

\* The process is over; what is in flight ends with it.
Exit(how) ==
  /\ phase' = "exited"
  /\ code' = how
  /\ listener' = IF listener = "listening" THEN "closed" ELSE listener
  /\ pool' = IF pool = "open" THEN "closed" ELSE pool
  /\ request' = [r \in Requests |-> IF Handling(r) THEN "cut" ELSE request[r]]
  /\ running' = {}
  /\ pinging' = {}
  /\ UNCHANGED <<registered, todo, result, status, left, age>>

LoadConfiguration ==
  /\ phase = "load"
  /\ settings' = Settings(environment)
  /\ IF Problems(environment) = {}
       THEN /\ phase' = "open"
            /\ UNCHANGED <<code, listener, pool, requestVars, pinging, healthVars>>
       ELSE Exit("error") /\ UNCHANGED failure
  /\ UNCHANGED <<environment, signalled, grace, reachable>>

\* openStore without a database, then the router, the server and the goroutine
\* that is to listen.
OpenMemory ==
  /\ phase = "open" /\ ~settings.database
  /\ phase' = "serve"
  /\ UNCHANGED <<environment, settings, code, signalled, listener, grace, pool, reachable,
                 requestVars, pinging, healthVars>>

\* openStore: Connect's Ping is answered and the readiness check is registered.
OpenDatabase ==
  /\ phase = "open" /\ settings.database /\ reachable
  /\ pool' = "open"
  /\ Register(Database)
  /\ phase' = "serve"
  /\ UNCHANGED <<environment, settings, code, signalled, listener, grace, reachable,
                 requestVars, pinging>>

OpenFails ==
  /\ phase = "open" /\ settings.database /\ ~reachable
  /\ Exit("error")
  /\ UNCHANGED <<environment, settings, signalled, grace, reachable, failure>>

Listen ==
  /\ phase = "serve" /\ listener = "none"
  /\ listener' \in {"listening", "failed"}
  /\ UNCHANGED <<environment, settings, phase, code, signalled, grace, pool, reachable,
                 requestVars, pinging, healthVars>>

\* Accept fails for good: ListenAndServe is about to return its error.
AcceptFails ==
  /\ phase = "serve" /\ listener = "listening"
  /\ listener' = "failed"
  /\ UNCHANGED <<environment, settings, phase, code, signalled, grace, pool, reachable,
                 requestVars, pinging, healthVars>>

\* The deferred cancel, stop and closeStore: a later signal kills, and the pool
\* hands out nothing any more.
Return(how) ==
  /\ phase' = "close"
  /\ code' = how
  /\ pool' = IF pool = "open" THEN "closed" ELSE pool

\* The select may see the error although a signal has come as well.
ServeFails ==
  /\ phase = "serve" /\ listener = "failed"
  /\ Return("error")
  /\ UNCHANGED <<environment, settings, signalled, listener, grace, reachable,
                 requestVars, pinging, healthVars>>

\* srv.Shutdown closes the listener, or keeps ListenAndServe from opening it.
BeginShutdown ==
  /\ phase = "serve" /\ signalled
  /\ phase' = "drain"
  /\ listener' = IF listener = "failed" THEN "failed" ELSE "closed"
  /\ UNCHANGED <<environment, settings, code, signalled, grace, pool, reachable,
                 requestVars, pinging, healthVars>>

ShutdownCompletes ==
  /\ phase = "drain" /\ InFlight = {}
  /\ Return("ok")
  /\ UNCHANGED <<environment, settings, signalled, listener, grace, reachable,
                 requestVars, pinging, healthVars>>

\* Mutated forms of ShutdownTimesOut: the context of Shutdown is derived from
\* the signal's, which is cancelled; and Shutdown is given no deadline.
ShutdownCancelledAtOnce ==
  /\ phase = "drain"
  /\ Return("error")
  /\ UNCHANGED <<environment, settings, signalled, listener, grace, reachable,
                 requestVars, pinging, healthVars>>

ShutdownWithoutDeadline ==
  /\ phase = "drain" /\ grace > ShutdownTimeout
  /\ Return("error")
  /\ UNCHANGED <<environment, settings, signalled, listener, grace, reachable,
                 requestVars, pinging, healthVars>>

\* The context of Shutdown is a fresh one with a timeout of its own.  Shutdown
\* polls, so it may run out although the last handler has just returned.
ShutdownTimesOut ==
  /\ phase = "drain" /\ grace = ShutdownTimeout
  /\ Return("error")
  /\ UNCHANGED <<environment, settings, signalled, listener, grace, reachable,
                 requestVars, pinging, healthVars>>

\* pool.Close returns when every connection has been given back; then main
\* exits under the handlers that are left.
CloseReturns ==
  /\ phase = "close" /\ Connections = {}
  /\ Exit(code)
  /\ UNCHANGED <<environment, settings, signalled, grace, reachable, failure>>

-----------------------------------------------------------------------------
(* Signals, the database, time                                             *)

\* Before NotifyContext and after stop, SIGTERM has its default effect; between
\* them it cancels a context, and a second one does nothing.
Sigterm ==
  /\ IF phase \in {"load", "open", "close"}
       THEN Exit("killed") /\ UNCHANGED signalled
       ELSE /\ phase \in {"serve", "drain"} /\ ~signalled
            /\ signalled' = TRUE
            /\ UNCHANGED <<phase, code, listener, pool, request, pinging, healthVars>>
  /\ UNCHANGED <<environment, settings, grace, reachable, failure>>

DatabaseFlips ==
  /\ Running
  /\ reachable' = ~reachable
  /\ UNCHANGED <<processVars, pool, requestVars, pinging, healthVars>>

\* Time passes for the drain and for the evaluations of readiness.
Tick ==
  /\ Running
  /\ phase = "drain" => grace < ShutdownTimeout
  /\ phase = "drain" \/ running # {}
  /\ grace' = IF phase = "drain" THEN grace + 1 ELSE grace
  /\ HealthTick
  /\ UNCHANGED <<environment, settings, phase, code, signalled, listener, pool, reachable,
                 requestVars, pinging>>

-----------------------------------------------------------------------------
(* A push                                                                  *)

Receive(r) ==
  /\ phase = "serve" /\ listener = "listening"
  /\ request[r] = "unsent"
  /\ Goto(r, "handling")
  /\ UNCHANGED <<processVars, pool, reachable, failure, pinging, healthVars>>

\* The rules reject the push, or the memory store records it.
AnswerWithoutDatabase(r) ==
  /\ Running /\ request[r] = "handling"
  /\ Goto(r, "writing")
  /\ UNCHANGED <<processVars, pool, reachable, failure, pinging, healthVars>>

\* pool.Begin is given a connection.
Acquire(r) ==
  /\ Running /\ request[r] = "handling"
  /\ Free
  /\ Goto(r, "storing")
  /\ UNCHANGED <<processVars, pool, reachable, failure, pinging, healthVars>>

\* A closed pool turns its waiters away; a connection cannot be made.
AcquireFails(r) ==
  /\ Running /\ request[r] = "handling" /\ settings.database
  /\ \/ /\ pool = "closed"
        /\ failure' = [failure EXCEPT ![r] = "pool"]
     \/ /\ pool = "open" /\ ~reachable
        /\ failure' = [failure EXCEPT ![r] = "database"]
  /\ Goto(r, "writing")
  /\ UNCHANGED <<processVars, pool, reachable, pinging, healthVars>>

\* Ingest returns and gives its connection back.
StoreReturns(r) ==
  /\ Running /\ request[r] = "storing"
  /\ reachable
  /\ Goto(r, "writing")
  /\ UNCHANGED <<processVars, pool, reachable, failure, pinging, healthVars>>

\* A statement fails.  It may as well hang: nothing obliges it to end.
StoreFails(r) ==
  /\ Running /\ request[r] = "storing"
  /\ ~reachable
  /\ Goto(r, "writing")
  /\ failure' = [failure EXCEPT ![r] = "database"]
  /\ UNCHANGED <<processVars, pool, reachable, pinging, healthVars>>

\* The response is written, or is later than WriteTimeout.
Write(r) ==
  /\ Running /\ request[r] = "writing"
  /\ \E place \in {"answered", "unanswered"} : Goto(r, place)
  /\ UNCHANGED <<processVars, pool, reachable, failure, pinging, healthVars>>

\* The producer disconnects and the request's context is cancelled.
ClientLeaves(r) ==
  /\ Running /\ request[r] \in {"handling", "storing"}
  /\ Goto(r, "unanswered")
  /\ UNCHANGED <<processVars, pool, reachable, failure, pinging, healthVars>>

-----------------------------------------------------------------------------
(* A readiness probe                                                       *)

Probe(p) ==
  /\ phase = "serve" /\ listener = "listening"
  /\ StartReady(p)
  /\ UNCHANGED <<processVars, pool, reachable, requestVars, pinging>>

\* store.Ping is given a connection.
PingAcquires(p) ==
  /\ Running /\ Database \in Active(p) /\ p \notin pinging
  /\ Free
  /\ pinging' = pinging \cup {p}
  /\ UNCHANGED <<processVars, pool, reachable, requestVars, healthVars>>

PingAnswered(p) ==
  /\ Running /\ p \in pinging
  /\ reachable /\ ~Expired(p, Database)
  /\ pinging' = pinging \ {p}
  /\ CheckReports(p, Database, "up")
  /\ UNCHANGED <<processVars, pool, reachable, requestVars>>

\* Mutated form of PingFails: the connection is not given back.
PingFailsLeaking(p) ==
  /\ Running /\ Database \in Active(p)
  /\ ~reachable \/ Expired(p, Database) \/ (pool = "closed" /\ p \notin pinging)
  /\ CheckReports(p, Database, "down")
  /\ UNCHANGED <<processVars, pool, reachable, requestVars, pinging>>

\* The database cannot be reached, the pool is closed, or the check has waited
\* for its whole timeout, for a connection or for an answer.
PingFails(p) ==
  /\ Running /\ Database \in Active(p)
  /\ ~reachable \/ Expired(p, Database) \/ (pool = "closed" /\ p \notin pinging)
  /\ pinging' = pinging \ {p}
  /\ CheckReports(p, Database, "down")
  /\ UNCHANGED <<processVars, pool, reachable, requestVars>>

\* Any other check: run registers none, and Register says that it may be called
\* while probes are under way.
RegisterOther(n) ==
  /\ phase = "serve" /\ n # Database
  /\ n \notin registered
  /\ Register(n)
  /\ UNCHANGED <<processVars, pool, reachable, requestVars, pinging>>

OtherReports(p, n) ==
  /\ Running /\ n # Database
  /\ \/ ~Expired(p, n) /\ CheckReports(p, n, "up")
     \/ CheckReports(p, n, "down")
  /\ UNCHANGED <<processVars, pool, reachable, requestVars, pinging>>

ReadyAnswers(p) ==
  /\ Running
  /\ FinishReady(p)
  /\ UNCHANGED <<processVars, pool, reachable, requestVars, pinging>>

-----------------------------------------------------------------------------

Run ==
  \/ LoadConfiguration \/ OpenMemory \/ OpenDatabase \/ OpenFails \/ Listen \/ AcceptFails
  \/ ServeFails \/ BeginShutdown \/ ShutdownCompletes \/ ShutdownTimesOut \/ CloseReturns

Push(r) ==
  \/ Receive(r) \/ AnswerWithoutDatabase(r) \/ Acquire(r) \/ AcquireFails(r)
  \/ StoreReturns(r) \/ StoreFails(r) \/ Write(r) \/ ClientLeaves(r)

Ready(p) ==
  \/ Probe(p) \/ PingAcquires(p) \/ PingAnswered(p) \/ PingFails(p) \/ ReadyAnswers(p)
  \/ \E n \in Names : OtherReports(p, n)

Exited == phase = "exited" /\ UNCHANGED vars

Next ==
  \/ Run \/ Sigterm \/ DatabaseFlips \/ Tick
  \/ \E r \in Requests : Push(r)
  \/ \E p \in Probes : Ready(p)
  \/ \E n \in Names : RegisterOther(n)
  \/ Exited

Spec == Init /\ [][Next]_vars

\* run goes on and time passes; a check that respects its context reports once
\* that has expired.  Nothing is assumed of the database or of the handlers.
Fairness ==
  /\ WF_vars(ServeFails \/ BeginShutdown \/ ShutdownCompletes \/ ShutdownTimesOut)
  /\ WF_vars(Tick)
  /\ \A p \in Probes : WF_vars(PingFails(p)) /\ \A n \in Names : WF_vars(OtherReports(p, n))

FairSpec == Spec /\ Fairness

-----------------------------------------------------------------------------
(* Properties                                                              *)

\* The environment with some keys unset.
Without(env, keys) == [k \in ConfigKeys |-> IF k \in keys THEN Unset ELSE env[k]]

\* A push that its handler was not left to answer.
Harmed(r) == request[r] = "cut" \/ failure[r] = "pool"

\* An evaluation whose report stands.
Finished(p) == status[p] # "none" /\ p \notin running /\ todo[p] = {}

\* The variables keep to their types: a drain lasts no longer than its timeout,
\* and only an evaluation under way has a Ping that holds a connection.
TypeOK ==
  /\ environment \in Environments
  /\ settings \in {NotLoaded, Settings(environment)}
  /\ phase \in Phases /\ code \in Codes
  /\ signalled \in BOOLEAN /\ reachable \in BOOLEAN
  /\ listener \in {"none", "listening", "failed", "closed"}
  /\ pool \in {"none", "open", "closed"}
  /\ phase \notin {"load", "exited"} => settings = Settings(environment)
  /\ grace \in Nat /\ (grace > 0 => grace <= ShutdownTimeout)
  /\ request \in [Requests -> Places]
  /\ failure \in [Requests -> {"none", "database", "pool"}]
  /\ pinging \subseteq running
  /\ HealthTypeOK

\* "A misconfigured deployment should tell you everything that is wrong on the
\* first try": unsetting what was reported is enough for Load and no part of it
\* is.  A process that gets past Load runs with every number that was set, all
\* of them positive, with types to accept, and with a pool within
\* DATABASE_MAX_CONNS although that is narrowed to 32 bits.
StartsAsConfigured ==
  LET reported == Problems(environment)
  IN  /\ settings # NotLoaded /\ phase # "exited" => reported = {}
      /\ Problems(Without(environment, reported)) = {}
      /\ \A k \in reported : Problems(Without(environment, reported \ {k})) = {k}
      /\ phase \notin {"load", "exited"} =>
           /\ \A k \in NumberKeys :
                /\ settings.number[k] > 0
                /\ environment[k] # Unset => settings.number[k] = environment[k]
           /\ settings.types # <<>>
           /\ pool = "open" => Capacity \in 1..settings.number["DATABASE_MAX_CONNS"]

\* A rolling deploy is lossless: the process leaves a push without an answer, or
\* takes the pool away from its handler, only after the whole grace period or
\* when it could not go on serving, and never when it exits with success.
GraceIsHonoured ==
  \A r \in Requests : Harmed(r) =>
    /\ listener = "failed" \/ (signalled /\ grace = ShutdownTimeout)
    /\ code # "ok"

\* An instance that says it is ready has heard from every dependency it knew
\* of when it was asked, and from the database if it has one.
ReadinessIsHonest ==
  /\ ReportIsAggregate
  /\ \A p \in Probes :
       Finished(p) /\ status[p] = "up" /\ settings.database => result[p][Database] = "up"

\* After SIGTERM the drain comes to an end, whatever hangs.
DrainEnds == signalled ~> phase \in {"close", "exited"}

-----------------------------------------------------------------------------
(* The inductive invariant behind the safety properties                    *)

Starting == phase \in {"load", "open"}

\* A process that got past Load has settings without a problem.
ConfigOK ==
  /\ phase = "load" => settings = NotLoaded
  /\ phase \notin {"load", "exited"} => Problems(environment) = {}

\* Nothing is in flight before the process serves, and the pool is whole while
\* it does.
PhaseOK ==
  /\ Starting =>
       /\ code = "none" /\ ~signalled /\ listener = "none" /\ grace = 0 /\ pool = "none"
       /\ \A r \in Requests : request[r] = "unsent"
       /\ \A p \in Probes : status[p] = "none"
  /\ phase = "drain" => signalled
  /\ pool = "closed" => phase \in {"close", "exited"}
  /\ phase = "exited" => \A r \in Requests : ~Handling(r)

\* What run returns says whether handlers may still be at work: after success
\* there are none, after an error they have had the grace period.
RequestOK ==
  /\ \A r \in Requests : Harmed(r) => phase \in {"close", "exited"}
  /\ phase = "close" =>
       \/ code = "ok" /\ \A r \in Requests : ~Handling(r)
       \/ code = "error" /\ (listener = "failed" \/ (signalled /\ grace = ShutdownTimeout))
  /\ GraceIsHonoured

\* The database check is registered before the first probe, so each evaluation
\* has it, and a Ping that holds a connection has not reported.
PingOK ==
  /\ phase = "serve" /\ settings.database => Database \in registered
  /\ \A p \in pinging : Database \in todo[p]
  /\ \A p \in Probes : status[p] # "none" /\ settings.database =>
       Database \in todo[p] \/ result[p][Database] # "none"

ApiOK == TypeOK /\ HealthOK /\ ConfigOK /\ PhaseOK /\ RequestOK /\ PingOK
=============================================================================
