--------------------------- MODULE Configuration ---------------------------
(***************************************************************************)
(* config.Load (src/internal/config/config.go): what becomes of the        *)
(* environment of a process, and what Connect (src/internal/store/postgres *)
(* /postgres.go) makes of DATABASE_MAX_CONNS.  Nothing here has state: the *)
(* environment is read once.                                               *)
(*                                                                         *)
(* An environment gives each key a value or Unset, which stands for a      *)
(* variable that is empty as well.  A number (an integer or a duration) is *)
(* an Int, or Junk when it cannot be parsed.  A name is a word with its    *)
(* case and padding, as in TransactionRules.  Free texts that Load passes  *)
(* on unread (SERVICE_NAME, HTTP_ADDR and such) are left out.              *)
(***************************************************************************)
EXTENDS Integers, Sequences, FiniteSets

CONSTANTS
  Unset, Junk,
  Fallback,          \* [NumberKeys -> Nat \ {0}], the defaults of Load
  FallbackTypes,     \* the default of TRANSACTION_TYPES
  FallbackCurrency,  \* the default of DEFAULT_CURRENCY, a name
  Currencies,        \* the codes of money.Lookup
  DriverConns,       \* pgxpool's own size: of the URL, or four, or the CPUs
  Half               \* 2^31

DurationKeys == {"HTTP_READ_TIMEOUT", "HTTP_WRITE_TIMEOUT", "HTTP_IDLE_TIMEOUT",
                 "SHUTDOWN_TIMEOUT", "MAX_CLOCK_SKEW", "OUTBOX_POLL_INTERVAL"}
IntKeys == {"DATABASE_MAX_CONNS", "OUTBOX_BATCH_SIZE"}
NumberKeys == DurationKeys \cup IntKeys
NameKeys == {"DEFAULT_CURRENCY", "LOG_LEVEL", "LOG_FORMAT"}
ConfigKeys == NumberKeys \cup NameKeys \cup {"TRANSACTION_TYPES", "DATABASE_URL"}

ASSUME FallbackAssumption == Fallback \in [NumberKeys -> Nat \ {0}]
ASSUME JunkAssumption == Unset \notin Int /\ Junk \notin Int
ASSUME WidthAssumption == Half \in Nat \ {0} /\ DriverConns \in 1..(Half - 1)

Number == Int \cup {Unset, Junk}
Name(word) == [word |-> word, upper |-> FALSE, padded |-> FALSE]

-----------------------------------------------------------------------------
(* One key                                                                 *)

\* Mutated form of BadNumber: zero passes for positive.
NegativeNumber(v) == v # Unset /\ (v = Junk \/ v < 0)

\* envInt and envDuration: what is set must parse and be positive.
BadNumber(v) == v # Unset /\ (v = Junk \/ v <= 0)

NumberOf(env, k) == IF env[k] = Unset \/ BadNumber(env[k]) THEN Fallback[k] ELSE env[k]

Named(value, fallback) == IF value = Unset THEN fallback ELSE value

\* strings.TrimSpace(raw) == "": a single blank entry.
Empty(raw) == raw = Unset \/ (Len(raw) = 1 /\ raw[1].word = "")

\* envStringSlice: entries are trimmed and blank ones dropped.
TypesOf(raw) ==
  IF Empty(raw) THEN FallbackTypes
  ELSE LET kept == SelectSeq(raw, LAMBDA name : name.word # "")
       IN  [i \in DOMAIN kept |-> [kept[i] EXCEPT !.padded = FALSE]]

\* Load upper-cases the code; money.Lookup trims and upper-cases what it is asked.
CurrencyOf(name) == [name EXCEPT !.upper = TRUE]
Known(name) == name.word \in Currencies

\* parseLogLevel lower-cases, and trims nothing.
LevelKnown(name) ==
  name.word \in {"debug", "info", "warn", "warning", "error"} /\ ~name.padded

\* LOG_FORMAT is compared as it is.
FormatKnown(name) ==
  name.word \in {"json", "text"} /\ ~name.padded /\ ~name.upper

\* The defaults of Load pass its own checks.
ASSUME DefaultsAssumption ==
  /\ FallbackTypes # <<>>
  /\ Known(CurrencyOf(FallbackCurrency))

-----------------------------------------------------------------------------
(* Load                                                                    *)

\* Every problem is collected; the caller gets them joined, or the settings.
Problems(env) ==
  {k \in NumberKeys : BadNumber(env[k])}
  \cup {k \in {"TRANSACTION_TYPES"} : TypesOf(env[k]) = <<>>}
  \cup {k \in {"DEFAULT_CURRENCY"} : ~Known(CurrencyOf(Named(env[k], FallbackCurrency)))}
  \cup {k \in {"LOG_LEVEL"} : ~LevelKnown(Named(env[k], Name("info")))}
  \cup {k \in {"LOG_FORMAT"} : ~FormatKnown(Named(env[k], Name("json")))}

Settings(env) ==
  [number |-> [k \in NumberKeys |-> NumberOf(env, k)],
   types |-> TypesOf(env["TRANSACTION_TYPES"]),
   currency |-> CurrencyOf(Named(env["DEFAULT_CURRENCY"], FallbackCurrency)),
   database |-> env["DATABASE_URL"] # Unset]

-----------------------------------------------------------------------------
(* The size of the connection pool                                         *)

\* int32(cfg.DatabaseMaxConns), which keeps the low 32 bits.
Int32(n) ==
  LET low == n % (2 * Half)
  IN  IF low < Half THEN low ELSE low - 2 * Half

\* Mutated form of PoolSize: the driver's check of MaxConns is left to fail.
PoolSizeUnchecked(n) == Int32(n)

\* Connect: "if maxConns > 0".
PoolSize(n) == IF Int32(n) > 0 THEN Int32(n) ELSE DriverConns
=============================================================================
