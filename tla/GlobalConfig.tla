---------------------------- MODULE GlobalConfig ----------------------------
(***************************************************************************)
(* The configuration of the command line tool (config.c, cmd_config.c):    *)
(* built-in defaults, config.toml in /etc, config.toml in the home         *)
(* directory, a --config file; `config set`, which saves all of it into    *)
(* the home directory, and `config migrate`.                               *)
(*                                                                         *)
(* A parsed file gives each key a value, of the right type or not, or does *)
(* not give it.  A command loads, changes and saves within milliseconds    *)
(* and is one action, but it writes the file where it is: a write that     *)
(* fails, or whose process is killed, leaves the beginning of the file.    *)
(***************************************************************************)
EXTENDS Integers, Sequences

CONSTANTS
    StrKeys, NumKeys,    \* the keys of the table
    KeyOrder,            \* the order in which they are written
    Strings, Numbers,    \* the values they may have
    Automatic,                \* the empty string, NULL in struct config
    NotFinite,           \* nan and inf, which strtod reads
    NotGiven,            \* the key is not in the file
    NoFile, Garbled,     \* no such file; one that does not parse
    Sys, Homes,          \* where the files are: /etc, and the home directories
    Defaults,            \* set_defaults
    Offered              \* the values a person gives

CfgKeys == StrKeys \cup NumKeys

TypeOf(k) == IF k \in StrKeys THEN Strings \cup {Automatic} ELSE Numbers \cup {NotFinite}

\* What a file that parses holds.
Contents == [CfgKeys -> Strings \cup Numbers \cup {Automatic, NotGiven}]
Files == Contents \cup {NoFile, Garbled}

ASSUME GlobalConfigAssumption ==
    /\ StrKeys \cap NumKeys = {}
    /\ KeyOrder \in Seq(CfgKeys)
    /\ Defaults \in [CfgKeys -> Strings \cup Numbers \cup {Automatic}]
    /\ \A k \in CfgKeys : Defaults[k] \in TypeOf(k)
    /\ Sys \notin Homes
    /\ NotFinite \notin Strings \cup Numbers \cup {Automatic, NotGiven}
    /\ NoFile # Garbled /\ {NoFile, Garbled} \cap Contents = {}
    /\ {NoFile, Garbled, NotGiven} \cap Offered = {}

VARIABLES
    toml,       \* config.toml in each place
    v1,         \* config.json in each place
    saved       \* history: the configuration last reported as saved in each home

configVars == <<toml, v1, saved>>

----------------------------------------------------------------------------
(* Loading. *)

\* merge_file: what is missing, does not parse or has another type is passed over.
MergeFile(cfg, f) ==
    IF f \in {NoFile, Garbled} THEN cfg
    ELSE [k \in CfgKeys |-> IF f[k] \in TypeOf(k) THEN f[k] ELSE cfg[k]]

\* config_load; extra is what --config names.
LoadCfg(home, extra) == MergeFile(MergeFile(MergeFile(Defaults, toml[Sys]), toml[home]), extra)

----------------------------------------------------------------------------
(* Saving. *)

\* Faulty: a string that is not set is left out.
OnlySetStrings(cfg) == [k \in CfgKeys |-> IF cfg[k] = Automatic THEN NotGiven ELSE cfg[k]]
Unwritable(cfg) == \E k \in CfgKeys : cfg[k] = NotFinite
\* Every key is written, in a fixed order; nan and inf are no TOML numbers here.
Written(cfg) == IF Unwritable(cfg) THEN Garbled ELSE cfg

\* What a write that stops early may leave.
FirstKeys(cfg, n) ==
    [k \in CfgKeys |-> IF \E i \in 1..n : KeyOrder[i] = k THEN cfg[k] ELSE NotGiven]
CutShort(cfg) == {Garbled} \cup {Written(FirstKeys(cfg, n)) : n \in 0..Len(KeyOrder)}

\* config_save_user
SaveUser(home, cfg) ==
    /\ toml' = [toml EXCEPT ![home] = Written(cfg)]
    /\ saved' = [saved EXCEPT ![home] = cfg]
    /\ UNCHANGED v1

\* The directory or the file cannot be opened, or the write stops early.
SaveFails(home, cfg) ==
    /\ \E f \in CutShort(cfg) \cup {toml[home]} :
          /\ toml' = [toml EXCEPT ![home] = f]
          /\ saved' = [saved EXCEPT ![home] = IF f = toml[home] THEN @ ELSE NotGiven]
    /\ UNCHANGED v1

\* lg-magic [--config FILE] config set KEY VALUE
ConfigSet(home, extra, k, v) ==
    /\ v \in TypeOf(k)
    /\ LET cfg == [LoadCfg(home, extra) EXCEPT ![k] = v]
       IN  SaveUser(home, cfg) \/ SaveFails(home, cfg)

----------------------------------------------------------------------------
(* lg-magic config migrate *)

\* Nothing to convert, or it has been converted.
Skips(place) == v1[place] = NoFile \/ toml[place] # NoFile

\* Strings and numbers are taken over under any key, whatever its type.
Converted(f) == [k \in CfgKeys |-> IF f[k] \in Strings \cup Numbers \cup {Automatic} THEN f[k]
                                   ELSE NotGiven]

\* migrate_one: the file it leaves and whether it succeeds.
MigrateOne(place) ==
    IF Skips(place) THEN {[file |-> toml[place], ok |-> TRUE]}
    ELSE IF v1[place] = Garbled THEN {[file |-> toml[place], ok |-> FALSE]}
    ELSE {[file |-> Converted(v1[place]), ok |-> TRUE]}
            \cup {[file |-> f, ok |-> FALSE] : f \in CutShort(Converted(v1[place])) \cup {toml[place]}}

\* /etc first; the home directory is not looked at when that failed.
Migrate(home) ==
    /\ \E s \in MigrateOne(Sys) :
          IF s.ok
          THEN \E u \in MigrateOne(home) :
                  toml' = [toml EXCEPT ![Sys] = s.file, ![home] = u.file]
          ELSE toml' = [toml EXCEPT ![Sys] = s.file]
    /\ UNCHANGED <<v1, saved>>

----------------------------------------------------------------------------

\* What is last reported as saved is what the next command finds, down to the keys
\* that were left to be found automatically: whatever /etc says, whichever writes
\* failed before, and through migrations.  When a nan is among it, all of it is lost, and
\* what /etc says remains: nothing of it, and nothing that was saved earlier, is half there.
SavedIsEffective ==
    \A home \in Homes : saved[home] # NotGiven =>
        LoadCfg(home, NoFile) = IF Unwritable(saved[home]) THEN MergeFile(Defaults, toml[Sys])
                                ELSE saved[home]

=============================================================================
