-------------------------- MODULE ApiProcessProofs --------------------------
(***************************************************************************)
(* Theorems about ApiProcess and the two modules it composes, for every    *)
(* set of environments, pushes, probes and checks.  The inductive          *)
(* invariant is ApiOK; what it says of the evaluations of readiness        *)
(* (HealthOK) depends on no variable but theirs and is dealt with first.   *)
(***************************************************************************)
EXTENDS ApiProcess, TLAPS

-----------------------------------------------------------------------------
(* The configuration                                                       *)

\* int32 and "if maxConns > 0" never make the pool larger than what was asked
\* for, and never empty.
LEMMA PoolIsCapped ==
  ASSUME NEW n \in Nat \ {0}
  PROVE  PoolSize(n) \in 1..n
<1>. DEFINE low == n % (2 * Half)
<1>1. Half \in Nat \ {0} /\ DriverConns \in 1..(Half - 1)
  BY WidthAssumption
<1>2. low \in 0..(2 * Half - 1) /\ low <= n
  BY <1>1
<1>3. n < Half => low = n
  BY <1>1
<1>. QED
  BY <1>1, <1>2, <1>3 DEF PoolSize, Int32

\* A number in force is positive, and is the one that was set if one was set
\* and not reported.
LEMMA NumbersInForce ==
  ASSUME NEW env \in Environments, NEW k \in NumberKeys
  PROVE  /\ NumberOf(env, k) \in Nat \ {0}
         /\ env[k] # Unset /\ ~BadNumber(env[k]) => NumberOf(env, k) = env[k]
<1>1. env[k] \in Int \cup {Unset, Junk}
  BY EnvironmentsAssumption DEF Number
<1>2. Fallback[k] \in Nat \ {0}
  BY FallbackAssumption
<1>. QED
  BY <1>1, <1>2 DEF NumberOf, BadNumber

\* envInt and the others look at their own key only: unsetting keys removes
\* their problems and no other.
LEMMA ProblemsAreSeparate ==
  ASSUME NEW env, NEW keys
  PROVE  Problems(Without(env, keys)) = Problems(env) \ keys
<1>. DEFINE other == Without(env, keys)
<1>1. \A k \in ConfigKeys : other[k] = IF k \in keys THEN Unset ELSE env[k]
  BY DEF Without
<1>2. {"TRANSACTION_TYPES", "DEFAULT_CURRENCY", "LOG_LEVEL", "LOG_FORMAT"} \cup NumberKeys
        \subseteq ConfigKeys
  BY DEF ConfigKeys, NameKeys
<1>3. ~BadNumber(Unset)
  BY DEF BadNumber
<1>4. TypesOf(Unset) # <<>>
  BY DefaultsAssumption DEF TypesOf, Empty
<1>5. Known(CurrencyOf(Named(Unset, FallbackCurrency)))
  BY DefaultsAssumption DEF Named
<1>6. LevelKnown(Named(Unset, Name("info")))
  BY DEF Named, LevelKnown, Name
<1>7. FormatKnown(Named(Unset, Name("json")))
  BY DEF Named, FormatKnown, Name
<1>8. ASSUME NEW k PROVE k \in Problems(other) <=> k \in Problems(env) /\ k \notin keys
  <2>. HIDE DEF other
  <2>1. CASE k \in NumberKeys
    BY <2>1, <1>1, <1>2, <1>3 DEF Problems, NumberKeys, DurationKeys, IntKeys
  <2>2. CASE k = "TRANSACTION_TYPES"
    BY <2>2, <1>1, <1>2, <1>4 DEF Problems, NumberKeys, DurationKeys, IntKeys
  <2>3. CASE k = "DEFAULT_CURRENCY"
    BY <2>3, <1>1, <1>2, <1>5 DEF Problems, NumberKeys, DurationKeys, IntKeys
  <2>4. CASE k = "LOG_LEVEL"
    BY <2>4, <1>1, <1>2, <1>6 DEF Problems, NumberKeys, DurationKeys, IntKeys
  <2>5. CASE k = "LOG_FORMAT"
    BY <2>5, <1>1, <1>2, <1>7 DEF Problems, NumberKeys, DurationKeys, IntKeys
  <2>6. CASE k \notin NumberKeys \cup {"TRANSACTION_TYPES", "DEFAULT_CURRENCY", "LOG_LEVEL",
                                       "LOG_FORMAT"}
    BY <2>6 DEF Problems
  <2>. QED
    BY <2>1, <2>2, <2>3, <2>4, <2>5, <2>6
<1>. QED
  BY <1>8

-----------------------------------------------------------------------------
(* The evaluations of readiness                                            *)

LEMMA RegisterKeepsHealth ==
  ASSUME HealthOK, NEW n \in Names, Register(n)
  PROVE  HealthOK'
BY DEF HealthOK, HealthTypeOK, TimeOK, ReportOK, ReportIsAggregate, Register

LEMMA StartReadyKeepsHealth ==
  ASSUME HealthOK, NEW p \in Probes, StartReady(p)
  PROVE  HealthOK'
BY DEF HealthOK, HealthTypeOK, TimeOK, ReportOK, ReportIsAggregate, StartReady, Verdicts

LEMMA CheckReportsKeepsHealth ==
  ASSUME HealthOK, NEW p \in Probes, NEW n \in Names, NEW verdict \in {"up", "down"},
         CheckReports(p, n, verdict)
  PROVE  HealthOK'
BY DEF HealthOK, HealthTypeOK, TimeOK, ReportOK, ReportIsAggregate, CheckReports, Active,
       Aggregate, Verdicts

LEMMA FinishReadyKeepsHealth ==
  ASSUME HealthOK, NEW p \in Probes, FinishReady(p)
  PROVE  HealthOK'
BY DEF HealthOK, HealthTypeOK, TimeOK, ReportOK, ReportIsAggregate, FinishReady

LEMMA HealthTickKeepsHealth ==
  ASSUME HealthOK, HealthTick
  PROVE  HealthOK'
BY CheckTimeoutAssumption
   DEF HealthOK, HealthTypeOK, TimeOK, ReportOK, ReportIsAggregate, HealthTick, Expired, Active

\* The process ends under its evaluations.
LEMMA ExitKeepsHealth ==
  ASSUME HealthOK, running' = {}, UNCHANGED <<registered, todo, result, status, left, age>>
  PROVE  HealthOK'
BY DEF HealthOK, HealthTypeOK, TimeOK, ReportOK, ReportIsAggregate

LEMMA StutterKeepsHealth ==
  ASSUME HealthOK, UNCHANGED healthVars
  PROVE  HealthOK'
BY DEF healthVars, HealthOK, HealthTypeOK, TimeOK, ReportOK, ReportIsAggregate

\* Every step of the process is, for the evaluations, one of theirs, their end
\* with the process, or nothing.
LEMMA HealthStep ==
  ASSUME HealthOK, [Next]_vars
  PROVE  HealthOK'
<1>1. CASE UNCHANGED healthVars
  BY <1>1, StutterKeepsHealth
<1>2. CASE running' = {} /\ UNCHANGED <<registered, todo, result, status, left, age>>
  BY <1>2, ExitKeepsHealth
<1>3. CASE Run
  BY <1>1, <1>2, <1>3, RegisterKeepsHealth, DatabaseAssumption
     DEF Run, LoadConfiguration, OpenMemory, OpenDatabase, OpenFails, Listen, AcceptFails,
         ServeFails, BeginShutdown, ShutdownCompletes, ShutdownTimesOut, CloseReturns, Exit
<1>4. CASE Sigterm
  BY <1>1, <1>2, <1>4 DEF Sigterm, Exit
<1>5. CASE DatabaseFlips
  BY <1>1, <1>5 DEF DatabaseFlips
<1>6. CASE Tick
  BY <1>6, HealthTickKeepsHealth DEF Tick
<1>7. ASSUME NEW r \in Requests, Push(r) PROVE HealthOK'
  BY <1>1, <1>7
     DEF Push, Receive, AnswerWithoutDatabase, Acquire, AcquireFails, StoreReturns, StoreFails,
         Write, ClientLeaves
<1>8. ASSUME NEW p \in Probes, Ready(p) PROVE HealthOK'
  <2>1. CASE Probe(p)
    BY <2>1, StartReadyKeepsHealth DEF Probe
  <2>2. CASE PingAcquires(p)
    BY <2>2, <1>1 DEF PingAcquires
  <2>3. CASE PingAnswered(p) \/ PingFails(p)
    BY <2>3, CheckReportsKeepsHealth, DatabaseAssumption DEF PingAnswered, PingFails
  <2>4. CASE ReadyAnswers(p)
    BY <2>4, FinishReadyKeepsHealth DEF ReadyAnswers
  <2>5. ASSUME NEW n \in Names, OtherReports(p, n) PROVE HealthOK'
    BY <2>5, CheckReportsKeepsHealth DEF OtherReports
  <2>. QED
    BY <1>8, <2>1, <2>2, <2>3, <2>4, <2>5 DEF Ready
<1>9. ASSUME NEW n \in Names, RegisterOther(n) PROVE HealthOK'
  BY <1>9, RegisterKeepsHealth DEF RegisterOther
<1>10. CASE Exited \/ UNCHANGED vars
  BY <1>1, <1>10 DEF Exited, vars
<1>. QED
  BY <1>3, <1>4, <1>5, <1>6, <1>7, <1>8, <1>9, <1>10 DEF Next

-----------------------------------------------------------------------------
(* The process                                                             *)

\* What the steps of a push, of a probe and of the surroundings leave alone.
LEMMA PushFrame ==
  ASSUME NEW r \in Requests, Push(r)
  PROVE  UNCHANGED <<processVars, pool, reachable, pinging, healthVars>>
BY DEF Push, Receive, AnswerWithoutDatabase, Acquire, AcquireFails, StoreReturns, StoreFails,
       Write, ClientLeaves

LEMMA ReadyFrame ==
  ASSUME NEW p \in Probes, Ready(p)
  PROVE  UNCHANGED <<processVars, pool, reachable, requestVars, registered>>
BY DEF Ready, Probe, PingAcquires, PingAnswered, PingFails, ReadyAnswers, OtherReports,
       StartReady, CheckReports, FinishReady, healthVars

\* The settings a process runs with.
LEMMA SettingsTyped ==
  ASSUME NEW env \in Environments, NEW k \in NumberKeys
  PROVE  Settings(env).number[k] \in Nat \ {0}
BY NumbersInForce DEF Settings

LEMMA TimeoutTyped ==
  ASSUME TypeOK, phase \notin {"load", "exited"}
  PROVE  ShutdownTimeout \in Nat \ {0}
BY SettingsTyped DEF TypeOK, ShutdownTimeout, NumberKeys, DurationKeys

LEMMA ConfigStep ==
  ASSUME ApiOK, [Next]_vars
  PROVE  ConfigOK'
<1>. USE DEF ApiOK, ConfigOK
<1>1. CASE Run
  BY <1>1
  DEF Run, LoadConfiguration, OpenMemory, OpenDatabase, OpenFails, Listen, AcceptFails,
      ServeFails, BeginShutdown, ShutdownCompletes, ShutdownTimesOut, CloseReturns, Exit, Return
<1>2. CASE Sigterm
  BY <1>2 DEF Sigterm, Exit
<1>3. CASE DatabaseFlips \/ Tick
  BY <1>3 DEF DatabaseFlips, Tick, processVars
<1>4. ASSUME NEW r \in Requests, Push(r) PROVE ConfigOK'
  BY <1>4, PushFrame DEF processVars
<1>5. ASSUME NEW p \in Probes, Ready(p) PROVE ConfigOK'
  BY <1>5, ReadyFrame DEF processVars
<1>6. ASSUME NEW n \in Names, RegisterOther(n) PROVE ConfigOK'
  BY <1>6 DEF RegisterOther, processVars
<1>7. CASE Exited \/ UNCHANGED vars
  BY <1>7 DEF Exited, vars, processVars
<1>. QED
  BY <1>1, <1>2, <1>3, <1>4, <1>5, <1>6, <1>7 DEF Next

LEMMA TypeStep ==
  ASSUME ApiOK, [Next]_vars
  PROVE  TypeOK'
<1>1. HealthTypeOK'
  BY HealthStep DEF ApiOK, HealthOK
<1>. USE <1>1 DEF ApiOK, TypeOK
<1>2. CASE Run
  <2>1. CASE LoadConfiguration
    BY <2>1 DEF LoadConfiguration, Exit, PhaseOK, Starting, Phases, Codes, requestVars, Handling, Places, healthVars
  <2>2. CASE OpenMemory
    BY <2>2 DEF OpenMemory, Phases, requestVars, healthVars, ShutdownTimeout
  <2>3. CASE OpenDatabase
    BY <2>3 DEF OpenDatabase, Register, Phases, requestVars, ShutdownTimeout
  <2>4. CASE OpenFails
    BY <2>4 DEF OpenFails, Exit, Phases, Codes, Handling, Places, ShutdownTimeout
  <2>5. CASE Listen \/ AcceptFails
    BY <2>5 DEF Listen, AcceptFails, requestVars, healthVars, ShutdownTimeout
  <2>6. CASE ServeFails \/ ShutdownCompletes \/ ShutdownTimesOut
    BY <2>6 DEF ServeFails, ShutdownCompletes, ShutdownTimesOut, Return, Phases, Codes,
                requestVars, healthVars, ShutdownTimeout
  <2>7. CASE BeginShutdown
    BY <2>7 DEF BeginShutdown, Phases, requestVars, healthVars, ShutdownTimeout
  <2>8. CASE CloseReturns
    BY <2>8 DEF CloseReturns, Exit, Phases, Codes, Handling, Places, ShutdownTimeout
  <2>. QED
    BY <1>2, <2>1, <2>2, <2>3, <2>4, <2>5, <2>6, <2>7, <2>8 DEF Run
<1>3. CASE Sigterm
  BY <1>3 DEF Sigterm, Exit, Phases, Codes, Handling, Places, ShutdownTimeout, healthVars
<1>4. CASE DatabaseFlips
  BY <1>4 DEF DatabaseFlips, processVars, requestVars, healthVars, ShutdownTimeout
<1>5. CASE Tick
  BY <1>5, TimeoutTyped DEF Tick, HealthTick, processVars, requestVars, healthVars, ShutdownTimeout, Running
<1>6. ASSUME NEW r \in Requests, Push(r) PROVE TypeOK'
  <2>1. request' \in [Requests -> Places] /\ failure' \in [Requests -> {"none", "database", "pool"}]
    BY <1>6 DEF Push, Receive, AnswerWithoutDatabase, Acquire, AcquireFails, StoreReturns,
                StoreFails, Write, ClientLeaves, Goto, Places
  <2>. QED
    BY <1>6, <2>1, PushFrame DEF processVars, healthVars, ShutdownTimeout
<1>7. ASSUME NEW p \in Probes, Ready(p) PROVE TypeOK'
  <2>1. pinging' \subseteq running'
    BY <1>7, DatabaseAssumption
    DEF PingOK, Ready, Probe, PingAcquires, PingAnswered, PingFails, ReadyAnswers, OtherReports,
        StartReady, CheckReports, FinishReady, Active, healthVars
  <2>. QED
    BY <1>7, <2>1, ReadyFrame DEF processVars, requestVars, ShutdownTimeout
<1>8. ASSUME NEW n \in Names, RegisterOther(n) PROVE TypeOK'
  BY <1>8 DEF RegisterOther, Register, processVars, requestVars, ShutdownTimeout
<1>9. CASE Exited \/ UNCHANGED vars
  BY <1>9 DEF Exited, vars, processVars, requestVars, healthVars, ShutdownTimeout
<1>. QED
  BY <1>2, <1>3, <1>4, <1>5, <1>6, <1>7, <1>8, <1>9 DEF Next

LEMMA PhaseStep ==
  ASSUME ApiOK, [Next]_vars
  PROVE  PhaseOK'
<1>. USE DEF ApiOK, PhaseOK, Starting
<1>1. CASE Run
  <2>1. CASE LoadConfiguration \/ OpenFails \/ CloseReturns
    BY <2>1 DEF LoadConfiguration, OpenFails, CloseReturns, Exit, Handling, TypeOK, Places,
                requestVars, healthVars
  <2>2. CASE OpenMemory \/ OpenDatabase
    BY <2>2 DEF OpenMemory, OpenDatabase
  <2>3. CASE Listen \/ AcceptFails
    BY <2>3 DEF Listen, AcceptFails
  <2>4. CASE ServeFails \/ ShutdownCompletes \/ ShutdownTimesOut
    BY <2>4 DEF ServeFails, ShutdownCompletes, ShutdownTimesOut, Return
  <2>5. CASE BeginShutdown
    BY <2>5 DEF BeginShutdown
  <2>. QED
    BY <1>1, <2>1, <2>2, <2>3, <2>4, <2>5 DEF Run
<1>2. CASE Sigterm
  BY <1>2 DEF Sigterm, Exit, Handling, TypeOK, Places
<1>3. CASE DatabaseFlips \/ Tick
  BY <1>3 DEF DatabaseFlips, Tick, HealthTick, TypeOK, HealthTypeOK, processVars, requestVars,
              healthVars, Handling
<1>4. ASSUME NEW r \in Requests, Push(r) PROVE PhaseOK'
  <2>1. phase \notin {"load", "open", "exited"}
    BY <1>4 DEF Push, Receive, AnswerWithoutDatabase, Acquire, AcquireFails, StoreReturns,
                StoreFails, Write, ClientLeaves, Running, Handling
  <2>. QED
    BY <1>4, <2>1, PushFrame DEF processVars
<1>5. ASSUME NEW p \in Probes, Ready(p) PROVE PhaseOK'
  <2>1. phase \notin {"load", "open"}
    BY <1>5 DEF Ready, Probe, PingAcquires, PingAnswered, PingFails, ReadyAnswers, OtherReports,
                CheckReports, FinishReady, Active, HealthOK, ReportOK, PingOK
  <2>. QED
    BY <1>5, <2>1, ReadyFrame DEF processVars, requestVars, Handling
<1>6. ASSUME NEW n \in Names, RegisterOther(n) PROVE PhaseOK'
  BY <1>6 DEF RegisterOther, Register, processVars, requestVars, Handling
<1>7. CASE Exited \/ UNCHANGED vars
  BY <1>7 DEF Exited, vars, processVars, requestVars, healthVars, Handling
<1>. QED
  BY <1>1, <1>2, <1>3, <1>4, <1>5, <1>6, <1>7 DEF Next

LEMMA RequestStep ==
  ASSUME ApiOK, [Next]_vars
  PROVE  RequestOK'
<1>. USE DEF ApiOK, RequestOK, GraceIsHonoured, Harmed, Handling, ShutdownTimeout
<1>1. CASE Run
  <2>1. CASE LoadConfiguration \/ OpenFails
    BY <2>1 DEF LoadConfiguration, OpenFails, Exit, PhaseOK, Starting, TypeOK, requestVars
  <2>2. CASE OpenMemory \/ OpenDatabase \/ Listen \/ AcceptFails
    BY <2>2 DEF OpenMemory, OpenDatabase, Listen, AcceptFails, requestVars
  <2>3. CASE ServeFails \/ ShutdownTimesOut
    BY <2>3 DEF ServeFails, ShutdownTimesOut, Return, requestVars, PhaseOK
  <2>4. CASE ShutdownCompletes
    BY <2>4 DEF ShutdownCompletes, Return, requestVars, InFlight
  <2>5. CASE BeginShutdown
    BY <2>5 DEF BeginShutdown, requestVars
  <2>6. CASE CloseReturns
    BY <2>6 DEF CloseReturns, Exit, TypeOK
  <2>. QED
    BY <1>1, <2>1, <2>2, <2>3, <2>4, <2>5, <2>6 DEF Run
<1>2. CASE Sigterm
  BY <1>2 DEF Sigterm, Exit, PhaseOK, Starting, TypeOK
<1>3. CASE DatabaseFlips
  BY <1>3 DEF DatabaseFlips, processVars, requestVars
<1>4. CASE Tick
  BY <1>4 DEF Tick, requestVars, Running
<1>5. ASSUME NEW r \in Requests, Push(r) PROVE RequestOK'
  <2>1. CASE Receive(r)
    BY <2>1 DEF Receive, Goto, processVars, TypeOK
  <2>2. CASE AcquireFails(r)
    BY <2>2 DEF AcquireFails, Goto, processVars, TypeOK, PhaseOK, Running
  <2>3. CASE AnswerWithoutDatabase(r) \/ Acquire(r) \/ StoreReturns(r) \/ Write(r) \/ ClientLeaves(r)
    BY <2>3 DEF AnswerWithoutDatabase, Acquire, StoreReturns, Write, ClientLeaves, Goto,
                processVars, TypeOK
  <2>4. CASE StoreFails(r)
    BY <2>4 DEF StoreFails, Goto, processVars, TypeOK
  <2>. QED
    BY <1>5, <2>1, <2>2, <2>3, <2>4 DEF Push
<1>6. ASSUME NEW p \in Probes, Ready(p) PROVE RequestOK'
  BY <1>6, ReadyFrame DEF processVars, requestVars
<1>7. ASSUME NEW n \in Names, RegisterOther(n) PROVE RequestOK'
  BY <1>7 DEF RegisterOther, processVars, requestVars
<1>8. CASE Exited \/ UNCHANGED vars
  BY <1>8 DEF Exited, vars, processVars, requestVars
<1>. QED
  BY <1>1, <1>2, <1>3, <1>4, <1>5, <1>6, <1>7, <1>8 DEF Next

LEMMA PingStep ==
  ASSUME ApiOK, [Next]_vars
  PROVE  PingOK'
<1>. USE DEF ApiOK, PingOK
<1>1. CASE Run
  <2>1. CASE LoadConfiguration \/ OpenFails
    BY <2>1 DEF LoadConfiguration, OpenFails, Exit, PhaseOK, Starting, TypeOK, healthVars
  <2>2. CASE OpenMemory
    BY <2>2 DEF OpenMemory, healthVars
  <2>3. CASE OpenDatabase
    BY <2>3 DEF OpenDatabase, Register
  <2>4. CASE Listen \/ AcceptFails \/ ServeFails \/ BeginShutdown \/ ShutdownCompletes \/ ShutdownTimesOut
    BY <2>4 DEF Listen, AcceptFails, ServeFails, BeginShutdown, ShutdownCompletes,
                ShutdownTimesOut, Return, healthVars
  <2>5. CASE CloseReturns
    BY <2>5 DEF CloseReturns, Exit
  <2>. QED
    BY <1>1, <2>1, <2>2, <2>3, <2>4, <2>5 DEF Run
<1>2. CASE Sigterm
  BY <1>2 DEF Sigterm, Exit, healthVars
<1>3. CASE DatabaseFlips
  BY <1>3 DEF DatabaseFlips, processVars, healthVars
<1>4. CASE Tick
  BY <1>4 DEF Tick, HealthTick
<1>5. ASSUME NEW r \in Requests, Push(r) PROVE PingOK'
  BY <1>5, PushFrame DEF processVars, healthVars
<1>6. ASSUME NEW p \in Probes, Ready(p) PROVE PingOK'
  <2>. USE DEF HealthOK, HealthTypeOK, ReportOK
  <2>1. CASE Probe(p)
    BY <2>1, <1>6, ReadyFrame DEF Probe, StartReady, processVars, TypeOK
  <2>2. CASE PingAcquires(p)
    BY <2>2 DEF PingAcquires, Active, processVars, healthVars
  <2>3. ASSUME NEW verdict \in {"up", "down"}, CheckReports(p, Database, verdict),
               pinging' = pinging \ {p}, UNCHANGED processVars
        PROVE  PingOK'
    <3>1. /\ todo' = [todo EXCEPT ![p] = @ \ {Database}]
          /\ result' = [result EXCEPT ![p][Database] = verdict]
          /\ status' = [status EXCEPT ![p] = Aggregate(@, verdict)]
          /\ registered' = registered /\ phase' = phase /\ settings' = settings
          /\ Database \in todo[p]
      BY <2>3 DEF CheckReports, Active, processVars
    <3>2. result'[p][Database] = verdict
      BY <3>1, DatabaseAssumption
    <3>3. \A q \in Probes \ {p} :
            todo'[q] = todo[q] /\ result'[q] = result[q] /\ status'[q] = status[q]
      BY <3>1
    <3>. QED
      BY <2>3, <3>1, <3>2, <3>3 DEF TypeOK
  <2>4. CASE ReadyAnswers(p)
    BY <2>4 DEF ReadyAnswers, FinishReady, processVars
  <2>5. ASSUME NEW n \in Names, OtherReports(p, n) PROVE PingOK'
    <3>1. PICK verdict \in {"up", "down"} : CheckReports(p, n, verdict)
      BY <2>5 DEF OtherReports
    <3>2. /\ n # Database /\ n \in todo[p]
          /\ todo' = [todo EXCEPT ![p] = @ \ {n}]
          /\ result' = [result EXCEPT ![p][n] = verdict]
          /\ status' = [status EXCEPT ![p] = Aggregate(@, verdict)]
          /\ registered' = registered /\ phase' = phase /\ settings' = settings
          /\ pinging' = pinging
      BY <2>5, <3>1 DEF OtherReports, CheckReports, Active, processVars
    <3>3. \A q \in Probes : /\ result'[q][Database] = result[q][Database]
                            /\ Database \in todo[q] => Database \in todo'[q]
      BY <3>2
    <3>4. \A q \in Probes : status'[q] # "none" => status[q] # "none"
      BY <3>2
    <3>. QED
      BY <3>2, <3>3, <3>4 DEF TypeOK
  <2>6. CASE PingAnswered(p)
    BY <2>3, <2>6 DEF PingAnswered
  <2>7. CASE PingFails(p)
    BY <2>3, <2>7 DEF PingFails
  <2>. QED
    BY <1>6, <2>1, <2>2, <2>4, <2>5, <2>6, <2>7 DEF Ready
<1>7. ASSUME NEW n \in Names, RegisterOther(n) PROVE PingOK'
  BY <1>7 DEF RegisterOther, Register, processVars
<1>8. CASE Exited \/ UNCHANGED vars
  BY <1>8 DEF Exited, vars, processVars, healthVars
<1>. QED
  BY <1>1, <1>2, <1>3, <1>4, <1>5, <1>6, <1>7, <1>8 DEF Next

LEMMA ApiInit == Init => ApiOK
<1>. SUFFICES ASSUME Init PROVE ApiOK
  OBVIOUS
<1>1. HealthOK
  <2>1. HealthTypeOK /\ TimeOK
    BY CheckTimeoutAssumption DEF Init, HealthInit, HealthTypeOK, TimeOK, Verdicts
  <2>2. ReportOK
    BY DEF Init, HealthInit, ReportOK, ReportIsAggregate
  <2>. QED
    BY <2>1, <2>2 DEF HealthOK
<1>2. TypeOK
  <2>1. HealthTypeOK /\ pinging \subseteq running
    BY <1>1 DEF Init, HealthOK
  <2>2. request \in [Requests -> Places] /\ failure \in [Requests -> {"none", "database", "pool"}]
    BY DEF Init, Places
  <2>3. signalled \in BOOLEAN /\ reachable \in BOOLEAN
    BY DEF Init
  <2>4. /\ environment \in Environments
        /\ settings \in {NotLoaded, Settings(environment)}
        /\ phase \notin {"load", "exited"} => settings = Settings(environment)
        /\ grace \in Nat /\ ~(grace > 0)
    BY DEF Init
  <2>5. /\ phase \in Phases /\ code \in Codes
        /\ listener \in {"none", "listening", "failed", "closed"}
        /\ pool \in {"none", "open", "closed"}
    BY DEF Init, Phases, Codes
  <2>. QED
    BY <2>1, <2>2, <2>3, <2>4, <2>5 DEF TypeOK
<1>3. ConfigOK /\ PhaseOK /\ RequestOK /\ PingOK
  BY DEF Init, HealthInit, ConfigOK, PhaseOK, Starting, RequestOK, GraceIsHonoured, Harmed,
         Handling, PingOK
<1>. QED
  BY <1>1, <1>2, <1>3 DEF ApiOK

-----------------------------------------------------------------------------
(* The theorems                                                            *)

\* The inductive invariant holds in every life of the process.
THEOREM ProcessCorrect == Spec => []ApiOK
<1>1. ApiOK /\ [Next]_vars => ApiOK'
  BY HealthStep, ConfigStep, TypeStep, PhaseStep, RequestStep, PingStep DEF ApiOK
<1>. QED
  BY ApiInit, <1>1, PTL DEF Spec

\* The variables keep to their types: no timer runs past its end and no probe
\* keeps a connection when its evaluation is over.
THEOREM TypeCorrect == Spec => []TypeOK
<1>1. ApiOK => TypeOK
  BY DEF ApiOK
<1>. QED
  BY ProcessCorrect, <1>1, PTL

\* main.go's shutdown, lossless within the grace period, whatever the requests,
\* their number, the database and the signals do.
THEOREM DeploysAreLossless == Spec => []GraceIsHonoured
<1>1. ApiOK => GraceIsHonoured
  BY DEF ApiOK, RequestOK
<1>. QED
  BY ProcessCorrect, <1>1, PTL

\* health.Checker.Ready and handleReady: what is reported ready has been heard
\* from.
THEOREM ReadyMeansHeard == Spec => []ReadinessIsHonest
<1>1. ApiOK => ReadinessIsHonest
  <2>. SUFFICES ASSUME ApiOK, NEW p \in Probes, Finished(p), status[p] = "up", settings.database
                PROVE  result[p][Database] = "up"
    BY DEF ReadinessIsHonest, ApiOK, HealthOK, ReportOK
  <2>1. result[p][Database] \in {"up", "down"}
    BY DatabaseAssumption DEF ApiOK, PingOK, Finished, HealthOK, HealthTypeOK, Verdicts
  <2>. QED
    BY <2>1, DatabaseAssumption DEF ApiOK, HealthOK, ReportOK, ReportIsAggregate
<1>. QED
  BY ProcessCorrect, <1>1, PTL

\* Ready's latency is that of the slowest check, for any number of checks.
THEOREM ProbesAreBounded == Spec => []ProbeIsBounded
<1>1. ApiOK => ProbeIsBounded
  BY DEF ApiOK, HealthOK, TimeOK, ProbeIsBounded
<1>. QED
  BY ProcessCorrect, <1>1, PTL

\* config.Load's report is complete and has nothing in it that could stay, and
\* what runs is what was configured, for every environment.
THEOREM ConfigurationInForce == Spec => []StartsAsConfigured
<1>1. ApiOK => StartsAsConfigured
  <2>. SUFFICES ASSUME ApiOK PROVE StartsAsConfigured
    OBVIOUS
  <2>. DEFINE reported == Problems(environment)
  <2>1. Problems(Without(environment, reported)) = {}
    BY ProblemsAreSeparate
  <2>2. \A k \in reported : Problems(Without(environment, reported \ {k})) = {k}
    BY ProblemsAreSeparate
  <2>3. settings # NotLoaded /\ phase # "exited" => reported = {}
    BY DEF ApiOK, ConfigOK
  <2>4. ASSUME phase \notin {"load", "exited"}
        PROVE  /\ \A k \in NumberKeys :
                     /\ settings.number[k] > 0
                     /\ environment[k] # Unset => settings.number[k] = environment[k]
               /\ settings.types # <<>>
               /\ pool = "open" => Capacity \in 1..settings.number["DATABASE_MAX_CONNS"]
    <3>1. environment \in Environments /\ settings = Settings(environment) /\ reported = {}
      BY <2>4 DEF ApiOK, TypeOK, ConfigOK
    <3>2. \A k \in NumberKeys : settings.number[k] \in Nat \ {0}
      BY <3>1, SettingsTyped
    <3>3. \A k \in NumberKeys : environment[k] # Unset => settings.number[k] = environment[k]
      BY <3>1, NumbersInForce DEF Problems, Settings
    <3>4. settings.types # <<>>
      BY <3>1 DEF Problems, Settings
    <3>5. Capacity \in 1..settings.number["DATABASE_MAX_CONNS"]
      BY <3>2, PoolIsCapped DEF Capacity, NumberKeys, IntKeys
    <3>. QED
      BY <3>2, <3>3, <3>4, <3>5
  <2>. QED
    BY <2>1, <2>2, <2>3, <2>4 DEF StartsAsConfigured
<1>. QED
  BY ProcessCorrect, <1>1, PTL
=============================================================================
