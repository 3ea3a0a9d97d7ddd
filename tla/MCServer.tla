------------------------------ MODULE MCServer ------------------------------
(* Three connections of either kind against a cap of one: refusals, a      *)
(* connection held while its listener closes, stalled sessions; and the    *)
(* configurations such a server can have been started with.                *)
EXTENDS Server, TLC
CONSTANTS c1, c2, c3   \* connections

Defaults == [ttl |-> 2, reap_interval |-> 1, max_connections |-> 2, push_rate |-> 1]
Ceilings == [ttl |-> 2]

\* Per knob, what the file and the variable may hold.
InFile == [ttl |-> {Unset, 0, 1, 3}, reap_interval |-> {Unset, 0, 3},
           max_connections |-> {Unset, -1, 0, 1}, push_rate |-> {Unset, 0, 2, NaN, Inf}]
InEnv == [ttl |-> {Unset, Garbage, -1, 1, 3}, reap_interval |-> {Unset, Garbage, 0, 2},
          max_connections |-> {Unset, Garbage, -1, 0}, push_rate |-> {Unset, Garbage, 3, NaN, NegInf}]
Settings(of) == {n \in [Knobs -> UNION {of[k] : k \in Knobs}] : \A k \in Knobs : n[k] \in of[k]}

Texts(values) == [keypair_path : {"", "key"}, store_type : values,
                  sqlite_path : {"", "db"}, postgres_dsn : {"", "dsn"}]
Named == [keypair_path |-> "key", store_type |-> "sqlite", sqlite_path |-> "db", postgres_dsn |-> ""]
Empty == [k \in Knobs |-> Unset]
Read(s, n, t) == [state |-> s, num |-> n, text |-> t]

\* Every mix of numbers, one file rewritten between its reads; and every mix of names.
Failed == {[NoFile EXCEPT !.state = s] : s \in {"missing", "garbled"}}
NumInputs ==
    [first : {Read("ok", Empty, Named)},
     second : {Read("ok", n, NoFile.text) : n \in Settings(InFile)},
     env : [num : Settings(InEnv), text : {NoFile.text}, dev : {""}]]
TextInputs ==
    [first : Failed \cup {Read("ok", Empty, t) : t \in Texts({"", "postgres", "other"})},
     second : Failed \cup {Read("ok", Empty, NoFile.text)},
     env : [num : {Empty}, text : Texts({"", "sqlite"}), dev : {"", "true", "typo"}]]
AllInputs == NumInputs \cup TextInputs
=============================================================================
