------------------------------- MODULE Config -------------------------------
(***************************************************************************)
(* internal/config/config.go: what Load makes of a TOML file and the       *)
(* environment, from text to the values the other components run with.     *)
(*                                                                         *)
(* A numeric knob belongs to one of four kinds, and its value is an        *)
(* integer, or for a rate also NaN or an infinity. Unset is an absent key  *)
(* or an empty variable, Garbage a variable that does not parse.           *)
(***************************************************************************)
EXTENDS Integers

CONSTANTS CeilingKnobs,    \* ttl, max_envelope_bytes
          PositiveKnobs,   \* the deadlines, intervals, quotas and counts
          ZeroKnobs,       \* max_connections: 0 means no limit
          FloatKnobs,      \* push_rate_per_second
          Default, Ceiling, \* per knob
          NaN, Inf, NegInf,
          Unset, Garbage,
          Inputs            \* what Load is given: two reads of the file, the environment

Knobs == CeilingKnobs \cup PositiveKnobs \cup ZeroKnobs \cup FloatKnobs

NonFinite == {NaN, Inf, NegInf}
TextKnobs == {"keypair_path", "store_type", "sqlite_path", "postgres_dsn"}

\* What a file may hold for a knob.
Setting(k) == Int \cup {Unset} \cup (IF k \in FloatKnobs THEN NonFinite ELSE {})
IsRead(f) == /\ f.state \in {"ok", "missing", "garbled"}
             /\ DOMAIN f.num = Knobs /\ \A k \in Knobs : f.num[k] \in Setting(k)
             /\ f.text \in [TextKnobs -> STRING]
IsEnv(e) == /\ DOMAIN e.num = Knobs
            /\ \A k \in Knobs : e.num[k] \in Setting(k) \cup {Garbage}
            /\ e.text \in [TextKnobs -> STRING]

ASSUME ConfigAssumption ==
    /\ \A k \in Knobs : Default[k] \in Nat \ {0}
    /\ \A k \in CeilingKnobs : Ceiling[k] \in Nat /\ Default[k] <= Ceiling[k]
    /\ CeilingKnobs \cap (ZeroKnobs \cup FloatKnobs) = {} /\ ZeroKnobs \cap FloatKnobs = {}
    /\ PositiveKnobs \cap (ZeroKnobs \cup FloatKnobs \cup CeilingKnobs) = {}
    /\ \A v \in NonFinite \cup {Unset, Garbage} : v \notin Int
    /\ {Unset, Garbage} \cap NonFinite = {} /\ Unset # Garbage
    /\ NegInf \notin {NaN, Inf}
    /\ \A i \in Inputs : IsRead(i.first) /\ IsRead(i.second) /\ IsEnv(i.env)

\* Go's v <= 0: false of NaN.
NotPositive(v) == v = NegInf \/ (v \in Int /\ v <= 0)

Refused == [ok |-> FALSE]

\* envDuration, envInt, envInt64, envFloat, and the two ceiling variables, which
\* refuse what does not parse where the others ignore it.
Ignored(k, v) == v = Garbage \/ (k \in FloatKnobs /\ v \in NonFinite)
EnvRefused(env) == \E k \in CeilingKnobs : env.num[k] = Garbage

\* applyEnvOverrides on the overlay: a variable that parses wins over the file.
Explicit(k, file, env) ==
    IF env.num[k] = Unset \/ Ignored(k, env.num[k]) THEN file.num[k] ELSE env.num[k]

\* The pick functions: the values resolve refuses when they are explicit.
\* Mutant: a rate is only compared with zero.
Bug_OutOfRange(k, v) == IF k \in ZeroKnobs THEN v < 0 ELSE NotPositive(v)
OutOfRange(k, v) ==
    CASE k \in ZeroKnobs -> v < 0
      [] k \in FloatKnobs -> v \in NonFinite \/ NotPositive(v)
      [] OTHER -> NotPositive(v)

\* resolve.
Resolved(k, v) == IF v = Unset THEN Default[k] ELSE v

\* Text knobs: a variable that is not empty wins, setDefaults fills the store type
\* (and the listen addresses, which nothing refuses).
Text(t, file, env) ==
    LET v == IF env.text[t] # "" THEN env.text[t] ELSE file.text[t]
    IN  IF t = "store_type" /\ v = "" THEN "sqlite" ELSE v

\* validate, on the resolved configuration.
Validate(num, text) ==
    /\ text["keypair_path"] # ""
    /\ \A k \in CeilingKnobs : num[k] <= Ceiling[k]
    /\ \/ text["store_type"] = "sqlite" /\ text["sqlite_path"] # ""
       \/ text["store_type"] = "postgres" /\ text["postgres_dsn"] # ""

\* No file: nothing is set. A file is read twice, the text knobs into the Config
\* and the numeric ones into the overlay; it may be rewritten in between.
NoFile == [state |-> "missing", num |-> [k \in Knobs |-> Unset],
           text |-> [t \in TextKnobs |-> ""]]

Load(first, second, env) ==
    LET overlay == IF first.state = "missing" THEN NoFile ELSE second
        num == [k \in Knobs |-> Explicit(k, overlay, env)]
        resolved == [k \in Knobs |-> Resolved(k, num[k])]
        text == [t \in TextKnobs |-> Text(t, first, env)]
        dev == env.dev = "true"
    IN  IF \/ first.state = "garbled"
           \/ first.state = "ok" /\ second.state # "ok"
           \/ EnvRefused(env)
           \/ \E k \in Knobs : num[k] # Unset /\ OutOfRange(k, num[k])
           \/ ~Validate(resolved, text)
        THEN Refused
        ELSE [ok |-> TRUE, num |-> resolved, text |-> text, dev |-> dev]

-----------------------------------------------------------------------------
\* The ranges the other components are built for: finite, positive, within the
\* protocol's ceilings, and only max_connections may be zero.
InRange(k, v) ==
    /\ v \notin NonFinite
    /\ v > 0 \/ (k \in ZeroKnobs /\ v = 0)
    /\ k \in CeilingKnobs => v <= Ceiling[k]

\* What the operator asked for: a variable that parses, else the file, else nothing.
Asked(k, i) ==
    IF i.env.num[k] \notin {Unset, Garbage} \cup NonFinite THEN i.env.num[k]
    ELSE IF i.first.state = "ok" /\ i.second.num[k] # Unset THEN i.second.num[k]
    ELSE Default[k]

\* A start that is not refused runs within the ranges, on a store that is fully
\* named, with what the operator asked for: an explicit value is not replaced by a
\* default, a variable with a typo leaves the file's value in force, and a file that
\* changes between its two reads gets nothing past these rules.
LoadSound ==
    \A i \in Inputs :
        LET c == Load(i.first, i.second, i.env)
        IN  c.ok => /\ \A k \in Knobs : InRange(k, c.num[k]) /\ c.num[k] = Asked(k, i)
                    /\ c.text["store_type"] = "sqlite" => c.text["sqlite_path"] # ""
                    /\ c.text["store_type"] = "postgres" => c.text["postgres_dsn"] # ""
                    /\ c.dev => i.env.dev = "true"
=============================================================================
