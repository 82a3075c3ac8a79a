---------------------------- MODULE ConfigStore ----------------------------
(***************************************************************************)
(* What lg-magicd keeps about each remote, in memory and on disk: the bus  *)
(* methods that change it (daemon_bus.c), the files they write             *)
(* (daemon_config.c, profiles.c), reloading, and restarting.               *)
(*                                                                         *)
(* Two files matter: one per device (devices.d/<identity>.toml) and        *)
(* state.toml, which names each device's active profile and overrides the  *)
(* device file.  Every write goes through a temporary file and a rename,   *)
(* so a call is two steps, with a failure or a crash possible between      *)
(* them.  A call that polkit or the argument checks refuse changes nothing *)
(* and is not an action.  A parsed file is the DeviceConfig it holds: what *)
(* the serializer leaves out are the fields that are not set, which the    *)
(* parser leaves unset.                                                    *)
(***************************************************************************)
EXTENDS Profiles, Sequences

CONSTANTS
    Ids,         \* device identities
    Missing,     \* no such file
    Broken,      \* a file that is not TOML
    NaN,         \* a speed that is not a number
    NoName,      \* no entry for the device in state.toml
    NoJob,       \* no bus call in progress
    FileOrder,   \* the profile names in the order files list them
    MaxScroll,   \* the highest scroll speed the bus and the loader accept
    MaxSens,     \* the highest sensitivity
    Remaps,      \* the (from, to) pairs MapButton is called with
    FirstFiles,  \* the device files an administrator may have written beforehand
    Editable,    \* the devices whose files a person edits
    Edits,       \* what a person may leave in a device file
    StateEdits   \* what a person may leave in state.toml

StateTable == [Ids -> Names \cup {NoName}]
Jobs == [what : {"device"}, id : Ids] \cup [what : {"state"}, id : Ids, name : Names]

ASSUME ConfigStoreAssumption ==
    /\ FileOrder \in Seq(Names)
    /\ \A n \in Names : \E i \in DOMAIN FileOrder : FileOrder[i] = n
    /\ Scrolls \cup Senses \subseteq Int \cup {NaN}
    /\ NaN \notin Int \cup {Unset}
    /\ MaxScroll \in Nat /\ MaxSens \in Nat
    /\ Remaps \subseteq Keys \X Keys
    /\ NoName \notin Names
    /\ NoJob \notin Jobs
    /\ Absent \notin Profile
    /\ FirstFiles \subseteq DeviceConfig
    /\ Editable \subseteq Ids
    /\ Edits \subseteq DeviceConfig \cup {Missing, Broken}
    /\ StateEdits \subseteq StateTable \cup {Missing, Broken}
    /\ Missing # Broken /\ {Missing, Broken} \cap DeviceConfig = {}
    /\ {Missing, Broken} \cap StateTable = {}

VARIABLES
    file,       \* the device files
    stateFile,  \* state.toml
    up,         \* the daemon is running
    dc,         \* r->dc of each remote
    running,    \* what each pipeline was last configured with
    job,        \* the bus call waiting for its write
    edited,     \* history: remotes whose files a person has edited
    spoiled     \* history: remotes whose file was once saved with a speed it cannot hold

vars == <<file, stateFile, up, dc, running, job, edited, spoiled>>

----------------------------------------------------------------------------
(* Loading. *)

\* device_config_init
DeviceInit ==
    [profile |-> Default, airmouse |-> TRUE, calib |-> Unset,
     profiles |-> [n \in Names |-> Absent]]

\* profile_validate, for the fields a profile has here; a NaN passes any comparison.
Valid(p) ==
    /\ p.scroll \notin {Unset, NaN} => 0 < p.scroll /\ p.scroll <= MaxScroll
    /\ p.sens \notin {Unset, NaN} => 0 < p.sens /\ p.sens <= MaxSens

Defined(c, name) == c.profiles[name] # Absent
Invalid(c) == {i \in DOMAIN FileOrder :
                  Defined(c, FileOrder[i]) /\ ~Valid(c.profiles[FileOrder[i]])}

HasSpeed(c, v) ==
    \E n \in Names : Defined(c, n) /\ v \in {c.profiles[n].scroll, c.profiles[n].sens}

\* The serializer writes a NaN as nan, which the parser does not read.
Parses(f) == f # Broken /\ (f # Missing => ~HasSpeed(f, NaN))

\* Parsed, and device_config_validate: every profile valid, the active one defined or
\* "default".
Loads(c) ==
    Parses(c) /\ Invalid(c) = {} /\ (c.profile = Default \/ Defined(c, c.profile))

\* A profile has one of the two speeds the bus takes (method_set_number) and that do not
\* load again.
Spoils(c) == HasSpeed(c, 0) \/ HasSpeed(c, NaN)

\* What is left in the record when parsing stops at the first invalid profile.
Partial(c) ==
    [c EXCEPT !.profiles =
        [n \in Names |-> IF \E i \in DOMAIN FileOrder :
                               FileOrder[i] = n /\ \A j \in Invalid(c) : i < j
                         THEN c.profiles[n] ELSE Absent]]

\* device_config_load_file: whether it succeeds, and the record it leaves.
LoadFile(f) ==
    CASE f = Missing -> [ok |-> TRUE, dc |-> DeviceInit]
      [] ~Parses(f)  -> [ok |-> FALSE, dc |-> DeviceInit]
      [] OTHER       -> [ok |-> Loads(f), dc |-> IF Loads(f) THEN f ELSE Partial(f)]

NamedIn(s, id) == IF s \in {Missing, Broken} THEN NoName ELSE s[id]

\* daemon_config_load_remote: the device file, then the active profile's name out
\* of state.toml, which is not checked against the profiles the file defines.
LoadRemote(f, s, id) ==
    LET l == LoadFile(f)
    IN  IF l.ok /\ NamedIn(s, id) # NoName
        THEN [l EXCEPT !.dc.profile = NamedIn(s, id)]
        ELSE l

Loaded(id) == LoadRemote(file[id], stateFile, id)

\* What a configuration makes of the pipeline: the resolved profile, and where
\* its calibration is (daemon_config_calib_path).
Effective(c) == [profile |-> Resolve(c), calib |-> c.calib]

----------------------------------------------------------------------------
(* The bus methods.  A call first changes the record in memory and writes   *)
(* the temporary file, then renames it; job says what is being written.     *)

\* device_config_profile_ensure
Ensured(c) == IF Defined(c, c.profile) THEN c.profiles[c.profile] ELSE ProfileInit

\* Faulty: the file is truncated and written where it is.
WriteInPlace(id) == file' = [file EXCEPT ![id] = Broken]
WriteTmp(id) == UNCHANGED file

\* mutate_and_save, up to the rename.
Mutate(id, c) ==
    /\ up /\ job = NoJob
    /\ dc' = [dc EXCEPT ![id] = c]
    /\ job' = [what |-> "device", id |-> id]
    /\ WriteTmp(id)
    /\ UNCHANGED <<stateFile, up, running, edited, spoiled>>

\* The record with its active profile replaced.
WithActive(c, p) == [c EXCEPT !.profiles[c.profile] = p]

MapButton(id, m) ==
    Mutate(id, WithActive(dc[id], [Ensured(dc[id]) EXCEPT !.map[m[1]] = m[2]]))

\* Faulty: any speed is taken.
AnySpeed(v) == TRUE
\* The range check, which a NaN passes.
MayScroll(v) == v # NaN => 0 <= v /\ v <= MaxScroll

SetScrollSpeed(id, v) ==
    /\ MayScroll(v)
    /\ Mutate(id, WithActive(dc[id], [Ensured(dc[id]) EXCEPT !.scroll = v]))

MaySense(v) == v # NaN => 0 <= v /\ v <= MaxSens

SetSensitivity(id, v) ==
    /\ MaySense(v)
    /\ Mutate(id, WithActive(dc[id], [Ensured(dc[id]) EXCEPT !.sens = v]))

\* An empty path stands for the default file; the path is not looked at.
SetCalibPath(id, path) == Mutate(id, [dc[id] EXCEPT !.calib = path])

\* A profile that is not in the file has nothing to reset; the file is written anyway.
ResetButtons(id) ==
    Mutate(id, IF Defined(dc[id], dc[id].profile)
               THEN WithActive(dc[id], [Ensured(dc[id]) EXCEPT !.map = NoMap])
               ELSE dc[id])

\* Faulty: any name is taken.
AnyName(c, name) == TRUE
MaySelect(c, name) == name = Default \/ Defined(c, name)

\* SetProfile writes state.toml; memory changes only after the rename.
SetProfile(id, name) ==
    /\ up /\ job = NoJob
    /\ MaySelect(dc[id], name)
    /\ job' = [what |-> "state", id |-> id, name |-> name]
    /\ UNCHANGED <<file, stateFile, up, dc, running, edited, spoiled>>

\* Faulty: the pipeline is left as it was.
NoApply(id, c) == UNCHANGED running
\* remote_apply, after the record has become c
Apply(id, c) == running' = [running EXCEPT ![id] = Effective(c)]

\* Faulty: the table is started afresh.
FreshState(id, name) == [i \in Ids |-> IF i = id THEN name ELSE NoName]
\* The entries of the other devices are kept, when the file could be read.
NewState(id, name) ==
    [i \in Ids |-> IF i = id THEN name ELSE NamedIn(stateFile, i)]

\* The rename of a device file, and the reply.
CommitDevice ==
    /\ job # NoJob /\ job.what = "device"
    /\ file' = [file EXCEPT ![job.id] = dc[job.id]]
    /\ Apply(job.id, dc[job.id])
    /\ job' = NoJob
    /\ spoiled' = IF Spoils(dc[job.id]) THEN spoiled \cup {job.id} ELSE spoiled
    /\ UNCHANGED <<stateFile, up, dc, edited>>

\* The rename of state.toml; the record is read back from disk, whatever it holds.
CommitState ==
    /\ job # NoJob /\ job.what = "state"
    /\ stateFile' = NewState(job.id, job.name)
    /\ LET c == LoadRemote(file[job.id], NewState(job.id, job.name), job.id).dc
       IN  dc' = [dc EXCEPT ![job.id] = c] /\ Apply(job.id, c)
    /\ job' = NoJob
    /\ UNCHANGED <<file, up, edited, spoiled>>

\* Faulty: memory keeps what could not be written.
KeepMutated(id) == dc[id]
\* remote_rollback: back to what is on disk, or what is left of it.
Rollback(id) == Loaded(id).dc

\* The write fails: a device call rolls back and re-applies, SetProfile just fails.
WriteFails ==
    /\ job # NoJob
    /\ IF job.what = "device"
       THEN /\ dc' = [dc EXCEPT ![job.id] = Rollback(job.id)]
            /\ Apply(job.id, Rollback(job.id))
       ELSE UNCHANGED <<dc, running>>
    /\ job' = NoJob
    /\ UNCHANGED <<file, stateFile, up, edited, spoiled>>

----------------------------------------------------------------------------
(* Reload, restart, and the person with an editor. *)

\* Reload() and SIGHUP: a file that does not load leaves its remote as it was.
Reload ==
    /\ up /\ job = NoJob
    /\ dc' = [id \in Ids |-> IF Loaded(id).ok THEN Loaded(id).dc ELSE dc[id]]
    /\ running' = [id \in Ids |-> IF Loaded(id).ok THEN Effective(Loaded(id).dc) ELSE running[id]]
    /\ UNCHANGED <<file, stateFile, up, job, edited, spoiled>>

Stop ==
    /\ up
    /\ up' = FALSE
    /\ job' = NoJob
    /\ UNCHANGED <<file, stateFile, dc, running, edited, spoiled>>

\* The remotes are opened again: what loads, or what is left of what does not.
Restart ==
    /\ ~up
    /\ up' = TRUE
    /\ dc' = [id \in Ids |-> Loaded(id).dc]
    /\ running' = [id \in Ids |-> Effective(Loaded(id).dc)]
    /\ UNCHANGED <<file, stateFile, job, edited, spoiled>>

\* A remote that was gone is opened again while the daemon runs.
Reopen(id) ==
    /\ up /\ job = NoJob
    /\ dc' = [dc EXCEPT ![id] = Loaded(id).dc]
    /\ Apply(id, Loaded(id).dc)
    /\ UNCHANGED <<file, stateFile, up, job, edited, spoiled>>

EditFile(id, f) ==
    /\ file' = [file EXCEPT ![id] = f]
    /\ edited' = edited \cup {id}
    /\ UNCHANGED <<stateFile, up, dc, running, job, spoiled>>

EditState(s) ==
    /\ stateFile' = s
    /\ edited' = Ids
    /\ UNCHANGED <<file, up, dc, running, job, spoiled>>

Init ==
    /\ file \in [Ids -> FirstFiles \cup {Missing}]
    /\ stateFile = Missing
    /\ up = FALSE
    /\ dc = [id \in Ids |-> DeviceInit]
    /\ running = [id \in Ids |-> Effective(DeviceInit)]
    /\ job = NoJob
    /\ edited = {} /\ spoiled = {}

Call(id) ==
    \/ \E m \in Remaps : MapButton(id, m)
    \/ \E v \in Scrolls : SetScrollSpeed(id, v)
    \/ \E v \in Senses : SetSensitivity(id, v)
    \/ \E path \in Paths \cup {Unset} : SetCalibPath(id, path)
    \/ ResetButtons(id)
    \/ \E name \in Names : SetProfile(id, name)

Next ==
    \/ \E id \in Ids : Call(id)
    \/ CommitDevice \/ CommitState \/ WriteFails
    \/ Reload \/ Stop \/ Restart
    \/ \E id \in Ids : Reopen(id)
    \/ \E id \in Editable, f \in Edits : EditFile(id, f)
    \/ \E s \in StateEdits : EditState(s)

Spec == Init /\ [][Next]_vars

----------------------------------------------------------------------------
(* Properties. *)

\* Types, and no speed beyond the limits in memory.
TypeOK ==
    /\ file \in [Ids -> DeviceConfig \cup {Missing, Broken}]
    /\ stateFile \in StateTable \cup {Missing, Broken}
    /\ up \in BOOLEAN
    /\ dc \in [Ids -> DeviceConfig]
    /\ \A id \in Ids, n \in Names :
          Defined(dc[id], n) =>
              /\ dc[id].profiles[n].scroll \in (0..MaxScroll) \cup {Unset, NaN}
              /\ dc[id].profiles[n].sens \in (0..MaxSens) \cup {Unset, NaN}
    /\ running \in [Ids -> [profile : Resolved, calib : Paths \cup {Unset}]]
    /\ job \in Jobs \cup {NoJob}
    /\ edited \subseteq Ids /\ spoiled \subseteq Ids

\* Between calls, as long as nobody edits a remote's files: every acknowledged call is
\* on disk and every failed one undone, so that memory is the file, or what loading the
\* file gives; and the file loads, as what is in memory, unless a client has once saved
\* a speed of 0 or a NaN.  After that a restart refuses the file and keeps what comes
\* before the 0, or nothing, and even a better speed saved later need not bring the two
\* together again.
\* Through write failures, crashes, reloads and restarts at any point.
MemoryMatchesDisk ==
    up /\ job = NoJob =>
        \A id \in Ids \ edited :
            /\ dc[id] \in {file[id], Loaded(id).dc}
            /\ id \notin spoiled => Loaded(id) = [ok |-> TRUE, dc |-> dc[id]]

\* Between calls, the pipeline runs the profile the configuration selects, also
\* after a rollback, a reload, and a reload that found a broken file.
PipelineFollowsConfig ==
    up /\ job = NoJob => \A id \in Ids : running[id] = Effective(dc[id])

\* No step about one device changes what another runs after the next restart
\* ("other device entries are preserved", daemon_config.h).
OthersUntouched ==
    [][job # NoJob /\ job' = NoJob =>
          \A id \in Ids \ {job.id} : Loaded(id)' = Loaded(id)]_vars

\* A device file that parses stops doing so only by an editor's hand or by a save, done
\* in full, of a record with a NaN a client asked for: not when the daemon is stopped or
\* a write fails.
FilesStayParseable ==
    [][\A id \in Ids : Parses(file[id]) /\ ~Parses(file'[id]) =>
          \/ \E f \in Edits : EditFile(id, f)
          \/ file'[id] = dc[id] /\ HasSpeed(dc[id], NaN) /\ CommitDevice]_vars

=============================================================================
