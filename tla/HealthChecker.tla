--------------------------- MODULE HealthChecker ---------------------------
(***************************************************************************)
(* health.Checker (src/internal/platform/health/health.go): the registered *)
(* checks, and the readiness evaluations that run them concurrently, each  *)
(* under a timeout of its own.  An evaluation goes by the name of the      *)
(* probe it answers.  What a check does is the business of the module that *)
(* registers it; here it reports in time, or reports that its time is up.  *)
(***************************************************************************)
EXTENDS Integers, FiniteSets

CONSTANTS
  Probes,         \* evaluations of readiness
  Names,          \* names of dependencies
  CheckTimeout    \* ticks a check is given, healthCheckTimeout

ASSUME CheckTimeoutAssumption == CheckTimeout \in Nat \ {0}

VARIABLES
  registered,   \* Checker.checks, by name
  running,      \* evaluations under way
  todo,         \* checks of an evaluation that have not reported
  result,       \* the report's Checks
  status,       \* the report's Status
  left,         \* ticks until the context of a running check expires
  age           \* ticks since the evaluation began

healthVars == <<registered, running, todo, result, status, left, age>>

Verdicts == {"none", "up", "down"}

HealthInit ==
  /\ registered = {}
  /\ running = {}
  /\ todo = [p \in Probes |-> {}]
  /\ result = [p \in Probes |-> [n \in Names |-> "none"]]
  /\ status = [p \in Probes |-> "none"]
  /\ left = [p \in Probes |-> [n \in Names |-> CheckTimeout]]
  /\ age = [p \in Probes |-> 0]

\* Mutated form of Active: the checks run one after the other.
ActiveInTurn(p) ==
  IF p \in running /\ todo[p] # {} THEN {CHOOSE n \in todo[p] : TRUE} ELSE {}

\* Every check that has not reported is running.
Active(p) == {n \in todo[p] : p \in running}

Expired(p, n) == n \in Active(p) /\ left[p][n] = 0

Register(n) ==
  /\ registered' = registered \cup {n}
  /\ UNCHANGED <<running, todo, result, status, left, age>>

\* Ready clones the checks under the lock and starts them all; with none, the
\* report is up.
StartReady(p) ==
  /\ status[p] = "none"
  /\ running' = running \cup {p}
  /\ todo' = [todo EXCEPT ![p] = registered]
  /\ status' = [status EXCEPT ![p] = "up"]
  /\ UNCHANGED <<registered, result, left, age>>

\* Mutated form of Aggregate: the last check to report decides.
AggregateLast(old, verdict) == verdict

\* One failure makes the report down, and nothing makes it up again.
Aggregate(old, verdict) == IF verdict = "down" THEN "down" ELSE old

\* A check has returned and its goroutine writes under the mutex of the report.
CheckReports(p, n, verdict) ==
  /\ n \in Active(p)
  /\ todo' = [todo EXCEPT ![p] = @ \ {n}]
  /\ result' = [result EXCEPT ![p][n] = verdict]
  /\ status' = [status EXCEPT ![p] = Aggregate(@, verdict)]
  /\ UNCHANGED <<registered, running, left, age>>

\* wg.Wait returns: Ready hands over its report.
FinishReady(p) ==
  /\ p \in running /\ todo[p] = {}
  /\ running' = running \ {p}
  /\ UNCHANGED <<registered, todo, result, status, left, age>>

\* Time passes for the evaluations.  A check is demanded to "respect ctx and
\* return promptly", so no time passes between its timeout and its report.
HealthTick ==
  /\ \A p \in Probes : \A n \in Names : ~Expired(p, n)
  /\ left' = [p \in Probes |->
                [n \in Names |-> IF n \in Active(p) THEN left[p][n] - 1 ELSE left[p][n]]]
  /\ age' = [p \in Probes |-> IF p \in running /\ todo[p] # {} THEN age[p] + 1 ELSE age[p]]
  /\ UNCHANGED <<registered, running, todo, result, status>>

-----------------------------------------------------------------------------
(* Properties                                                              *)

\* The variables keep to their types; a check is run for its timeout at most.
HealthTypeOK ==
  /\ registered \subseteq Names
  /\ running \subseteq Probes
  /\ todo \in [Probes -> SUBSET Names]
  /\ result \in [Probes -> [Names -> Verdicts]]
  /\ status \in [Probes -> Verdicts]
  /\ left \in [Probes -> [Names -> 0..CheckTimeout]]
  /\ age \in [Probes -> Nat]

\* "One stuck connection pool" must not take an instance out of rotation
\* slowly: an evaluation is over within the timeout of a single check, however
\* many checks hang.
ProbeIsBounded == \A p \in Probes : age[p] <= CheckTimeout

\* The report is down exactly when one of its checks failed.
ReportIsAggregate ==
  \A p \in Probes : status[p] # "none" =>
    (status[p] = "down" <=> \E n \in Names : result[p][n] = "down")

-----------------------------------------------------------------------------
(* The inductive invariant behind them                                     *)

\* A running check has the time that its evaluation has not used.
TimeOK ==
  \A p \in Probes :
    /\ age[p] <= CheckTimeout
    /\ p \in running => \A n \in todo[p] : age[p] + left[p][n] = CheckTimeout

\* A check of an evaluation has not reported, or is part of the report.
ReportOK ==
  /\ ReportIsAggregate
  /\ \A p \in Probes :
       /\ \A n \in todo[p] : result[p][n] = "none"
       /\ status[p] = "none" =>
            /\ p \notin running /\ todo[p] = {} /\ age[p] = 0
            /\ \A n \in Names : result[p][n] = "none" /\ left[p][n] = CheckTimeout

HealthOK == HealthTypeOK /\ TimeOK /\ ReportOK
=============================================================================
