---------------------------- MODULE SetupProofs ----------------------------
(***************************************************************************)
(* Proofs about the wizard and about the configuration it shares with      *)
(* `lg-magic config`, for any files, any number of runs and any events.    *)
(***************************************************************************)
EXTENDS Setup, ConfigStoreProofs, TLAPS

----------------------------------------------------------------------------
(* Saving and loading (GlobalConfig).                                       *)

\* A configuration in memory that can be written and read back.
Sound == {kv \in [CfgKeys -> Strings \cup Numbers \cup {Automatic}] :
             \A k \in CfgKeys : kv[k] \in TypeOf(k) \ {NotFinite}}

\* One that a command may want to save.
Typed == {kv \in [CfgKeys -> Strings \cup Numbers \cup {Automatic, NotFinite}] :
             \A k \in CfgKeys : kv[k] \in TypeOf(k)}

LEMMA SoundOrUnwritable ==
    ASSUME NEW kv \in Typed
    PROVE  Unwritable(kv) \/ kv \in Sound
<1> SUFFICES ASSUME ~Unwritable(kv) PROVE kv \in Sound
  OBVIOUS
<1>1. \A k \in CfgKeys : kv[k] # NotFinite /\ kv[k] \in TypeOf(k)
                       /\ kv[k] \in Strings \cup Numbers \cup {Automatic}
  BY DEF Typed, Unwritable
<1>2. kv = [k \in CfgKeys |-> kv[k]]
  BY DEF Typed
<1> QED BY <1>1, <1>2 DEF Sound

\* A sound configuration with a value of the right type for one key.
LEMMA SetOneKey ==
    ASSUME NEW kv \in Sound, NEW k \in CfgKeys, NEW v \in TypeOf(k)
    PROVE  [kv EXCEPT ![k] = v] \in Typed
<1>1. TypeOf(k) \subseteq Strings \cup Numbers \cup {Automatic, NotFinite}
  BY DEF TypeOf
<1> QED BY <1>1 DEF Sound, Typed

LEMMA MergeIsSound ==
    ASSUME NEW kv \in Sound, NEW f \in Files
    PROVE  MergeFile(kv, f) \in Sound
<1>1. CASE f \in {NoFile, Garbled}
  BY <1>1 DEF MergeFile
<1>2. CASE f \notin {NoFile, Garbled}
  <2>1. f \in Contents /\ MergeFile(kv, f) = [k \in CfgKeys |-> IF f[k] \in TypeOf(k) THEN f[k] ELSE kv[k]]
    BY <1>2 DEF MergeFile, Files
  <2>2. ASSUME NEW k \in CfgKeys
        PROVE  /\ MergeFile(kv, f)[k] \in TypeOf(k) \ {NotFinite}
               /\ MergeFile(kv, f)[k] \in Strings \cup Numbers \cup {Automatic}
    <3>1. f[k] \in Strings \cup Numbers \cup {Automatic, NotGiven} /\ f[k] # NotFinite
      BY <2>1, GlobalConfigAssumption DEF Contents
    <3>2. kv[k] \in TypeOf(k) \ {NotFinite} /\ kv[k] \in Strings \cup Numbers \cup {Automatic}
      BY DEF Sound
    <3>3. TypeOf(k) \ {NotFinite} \subseteq Strings \cup Numbers \cup {Automatic}
      BY DEF TypeOf
    <3> QED BY <2>1, <3>1, <3>2, <3>3
  <2> QED BY <2>1, <2>2 DEF Sound
<1> QED BY <1>1, <1>2

LEMMA DefaultsAreSound == Defaults \in Sound
<1>1. \A k \in CfgKeys : Defaults[k] # NotFinite
  BY GlobalConfigAssumption
<1> QED BY <1>1, GlobalConfigAssumption DEF Sound

(* What is written of a sound configuration is itself, and reading it back  *)
(* gives it, whatever it is read over.                                      *)
LEMMA WrittenIsItself ==
    ASSUME NEW kv \in Sound
    PROVE  /\ Written(kv) = kv /\ kv \in Contents /\ kv \notin {NoFile, Garbled}
           /\ \A over : MergeFile(over, kv) = kv
<1>1. \A k \in CfgKeys : kv[k] # NotFinite /\ kv[k] \in TypeOf(k)
  BY DEF Sound
<1>2. kv \in Contents
  BY DEF Sound, Contents
<1>3. kv \notin {NoFile, Garbled}
  BY <1>2, GlobalConfigAssumption
<1>4. kv = [k \in CfgKeys |-> kv[k]]
  BY <1>2 DEF Contents
<1> QED
  BY <1>1, <1>2, <1>3, <1>4 DEF Written, Unwritable, MergeFile

\* Every file holds what a file can hold; what was reported as saved is in its file, as
\* far as a file can hold it.
InFile(kv, f) == f = Written(kv) /\ (Unwritable(kv) \/ kv \in Sound)
ConfigInv ==
    /\ toml \in [{Sys} \cup Homes -> Files]
    /\ DOMAIN saved = Homes
    /\ \A home \in Homes : saved[home] # NotGiven => InFile(saved[home], toml[home])

LEMMA LoadIsSound ==
    ASSUME ConfigInv, NEW home \in Homes
    PROVE  LoadCfg(home, NoFile) \in Sound
<1>1. toml[Sys] \in Files /\ toml[home] \in Files /\ NoFile \in Files
  BY DEF ConfigInv, Files
<1> QED
  BY <1>1, DefaultsAreSound, MergeIsSound DEF LoadCfg

LEMMA CutShortIsAFile ==
    ASSUME NEW kv \in Contents \cup Typed, NEW f \in CutShort(kv)
    PROVE  f \in Files
<1>1. CASE f = Garbled
  BY <1>1 DEF Files
<1>2. ASSUME NEW n \in 0..Len(KeyOrder), f = Written(FirstKeys(kv, n)), f # Garbled
      PROVE  f \in Files
  <2>1. \A k \in CfgKeys : kv[k] \in Strings \cup Numbers \cup {Automatic, NotGiven, NotFinite}
    BY DEF Contents, Typed
  <2>2. f = FirstKeys(kv, n) /\ ~Unwritable(f)
    BY <1>2 DEF Written
  <2>3. \A k \in CfgKeys : f[k] \in Strings \cup Numbers \cup {Automatic, NotGiven}
    BY <2>1, <2>2 DEF FirstKeys, Unwritable
  <2>4. f = [k \in CfgKeys |-> f[k]]
    BY <2>2 DEF FirstKeys
  <2> QED BY <2>3, <2>4 DEF Files, Contents
<1> QED BY <1>1, <1>2 DEF CutShort

LEMMA SaveUserKeeps ==
    ASSUME ConfigInv, NEW home \in Homes, NEW kv \in Typed,
           SaveUser(home, kv) \/ SaveFails(home, kv)
    PROVE  ConfigInv'
<1>1. Written(kv) \in Files /\ InFile(kv, Written(kv))
  BY SoundOrUnwritable, WrittenIsItself DEF Written, Files, InFile
<1>2. home # Sys /\ home \in {Sys} \cup Homes
  BY GlobalConfigAssumption
<1>3. CASE SaveUser(home, kv)
  <2>1. toml' = [toml EXCEPT ![home] = Written(kv)] /\ saved' = [saved EXCEPT ![home] = kv]
    BY <1>3 DEF SaveUser
  <2>2. toml' \in [{Sys} \cup Homes -> Files] /\ DOMAIN saved' = Homes
    BY <1>1, <1>2, <2>1 DEF ConfigInv
  <2>3. ASSUME NEW h \in Homes, saved'[h] # NotGiven
        PROVE  InFile(saved'[h], toml'[h])
    BY <1>1, <1>2, <2>1, <2>3 DEF ConfigInv
  <2> QED BY <2>2, <2>3 DEF ConfigInv
<1>4. CASE SaveFails(home, kv)
  <2>1. PICK f \in CutShort(kv) \cup {toml[home]} :
            /\ toml' = [toml EXCEPT ![home] = f]
            /\ saved' = [saved EXCEPT ![home] = IF f = toml[home] THEN saved[home] ELSE NotGiven]
    BY <1>4 DEF SaveFails
  <2>2. f \in Files
    BY <1>2, <2>1, CutShortIsAFile DEF ConfigInv
  <2>3. toml' \in [{Sys} \cup Homes -> Files] /\ DOMAIN saved' = Homes
    BY <1>2, <2>1, <2>2 DEF ConfigInv
  <2>4. ASSUME NEW h \in Homes, saved'[h] # NotGiven
        PROVE  InFile(saved'[h], toml'[h])
    BY <1>2, <2>1, <2>4 DEF ConfigInv
  <2> QED BY <2>3, <2>4 DEF ConfigInv
<1> QED BY <1>3, <1>4

LEMMA MigrateOneIsAFile ==
    ASSUME ConfigInv, NEW place \in {Sys} \cup Homes, NEW m \in MigrateOne(place)
    PROVE  m.file \in Files /\ (toml[place] # NoFile => m.file = toml[place])
<1>1. toml[place] \in Files
  BY DEF ConfigInv
<1>2. Converted(v1[place]) \in Contents
  BY DEF Converted, Contents
<1>3. CASE Skips(place)
  BY <1>1, <1>3 DEF MigrateOne
<1>4. CASE ~Skips(place) /\ v1[place] = Garbled
  BY <1>1, <1>4 DEF MigrateOne
<1>5. CASE ~Skips(place) /\ v1[place] # Garbled
  <2>1. toml[place] = NoFile
    BY <1>5 DEF Skips
  <2>2. \/ m = [file |-> Converted(v1[place]), ok |-> TRUE]
        \/ \E f \in CutShort(Converted(v1[place])) \cup {toml[place]} : m = [file |-> f, ok |-> FALSE]
    BY <1>5 DEF MigrateOne
  <2>3. \A f \in CutShort(Converted(v1[place])) : f \in Files
    BY <1>2, CutShortIsAFile
  <2> QED BY <1>1, <1>2, <2>1, <2>2, <2>3 DEF Files
<1> QED BY <1>3, <1>4, <1>5

LEMMA MigrateKeeps ==
    ASSUME ConfigInv, NEW home \in Homes, Migrate(home)
    PROVE  ConfigInv'
<1>1. home # Sys /\ home \in {Sys} \cup Homes /\ Sys \in {Sys} \cup Homes /\ Sys \notin Homes
  BY GlobalConfigAssumption
<1>2. ASSUME NEW h \in Homes, saved[h] # NotGiven PROVE toml[h] # NoFile
  BY <1>2, WrittenIsItself, GlobalConfigAssumption DEF ConfigInv, InFile, Written
<1>3. PICK s \in MigrateOne(Sys) :
          \/ \E u \in MigrateOne(home) : toml' = [toml EXCEPT ![Sys] = s.file, ![home] = u.file]
          \/ toml' = [toml EXCEPT ![Sys] = s.file]
  BY DEF Migrate
<1>4. s.file \in Files
  BY <1>1, MigrateOneIsAFile
<1>5. saved' = saved
  BY DEF Migrate
<1>6. CASE toml' = [toml EXCEPT ![Sys] = s.file]
  BY <1>1, <1>4, <1>5, <1>6 DEF ConfigInv
<1>7. ASSUME NEW u \in MigrateOne(home), toml' = [toml EXCEPT ![Sys] = s.file, ![home] = u.file]
      PROVE  ConfigInv'
  <2>1. u.file \in Files /\ (toml[home] # NoFile => u.file = toml[home])
    BY <1>1, MigrateOneIsAFile
  <2>2. toml' \in [{Sys} \cup Homes -> Files]
    BY <1>1, <1>4, <1>7, <2>1 DEF ConfigInv
  <2>3. ASSUME NEW h \in Homes, saved[h] # NotGiven PROVE toml'[h] = toml[h]
    <3>1. toml'[h] = IF h = home THEN u.file ELSE toml[h]
      BY <1>1, <1>7 DEF ConfigInv
    <3> QED BY <1>2, <2>1, <2>3, <3>1
  <2> QED BY <1>5, <2>2, <2>3 DEF ConfigInv
<1> QED BY <1>3, <1>6, <1>7

LEMMA ConfigSetKeeps ==
    ASSUME ConfigInv, NEW home \in Homes, NEW k \in CfgKeys, NEW v, ConfigSet(home, NoFile, k, v)
    PROVE  ConfigInv'
<1> DEFINE kv == [LoadCfg(home, NoFile) EXCEPT ![k] = v]
<1>1. LoadCfg(home, NoFile) \in Sound
  BY LoadIsSound
<1>2. v \in TypeOf(k)
  BY DEF ConfigSet
<1>3. kv \in Typed
  BY <1>1, <1>2, SetOneKey
<1>5. SaveUser(home, kv) \/ SaveFails(home, kv)
  BY DEF ConfigSet
<1> HIDE DEF kv
<1> QED BY <1>3, <1>5, SaveUserKeeps

----------------------------------------------------------------------------
(* The wizard's steps.                                                      *)

LEMMA AfterIs ==
    /\ After("unload") = "reload" /\ After("reload") = "enable"
    /\ After("unload9") = "reload9" /\ After("reload9") = "save"
  BY DEF After

LEMMA StateStepsAre ==
    StateSteps[1] = "json" /\ NextState("json") = "device" /\ NextState("device") = "ask"
<1>1. StateSteps[1] = "json" /\ StateSteps[2] = "device" /\ StateSteps[3] = "ask"
  BY DEF StateSteps
<1>2. \A i \in 2..3 : i = 2 \/ i = 3
  OBVIOUS
<1>3. \A i \in 2..3 : (StateSteps[i - 1] = "json" <=> i = 2) /\ (StateSteps[i - 1] = "device" <=> i = 3)
  BY <1>1, <1>2
<1>4. (CHOOSE i \in 2..3 : StateSteps[i - 1] = "json") = 2
  BY <1>3
<1>5. (CHOOSE i \in 2..3 : StateSteps[i - 1] = "device") = 3
  BY <1>3
<1> QED BY <1>1, <1>4, <1>5 DEF NextState

\* Before the module has been reloaded, and before the daemon has been asked to reload.
BeforeReload == {"load", "find", "mode", "conf", "unload", "reload"}
BeforeAsk ==
    BeforeReload \cup {"enable", "open", "record", "blob", "generic", "json", "device", "ask"}

----------------------------------------------------------------------------
(* The driver runs with the parameters of the mode chosen: they are in the  *)
(* file from step 3 on, and nobody writes the file afterwards.              *)

ModeInv ==
    /\ mode \in Modes
    /\ pc \in {"unload", "reload"} => conf = mode
    /\ pc \in BeforeReload => "parameters" \notin said
    /\ "parameters" \in said => conf = mode /\ driver \in {"absent", mode}

LEMMA ModeStep == ModeInv /\ [SetupNext]_setupVars => ModeInv'
<1> SUFFICES ASSUME ModeInv, [SetupNext]_setupVars PROVE ModeInv'
  OBVIOUS
<1> USE DEF ModeInv, BeforeReload, Modes
<1>1. CASE Start
  BY <1>1 DEF Start, Ended, remoteVars, driverVars
<1>2. CASE LoadModule
  BY <1>2 DEF LoadModule, At, Then, Quiet, wizardRest, LoadDriver, driverVars
<1>3. CASE FindDevices
  <2>1. pc' \in {"mode", "failed"} /\ (said' = said \/ said' = said \cup {"no IMU"})
    BY <1>3 DEF FindDevices, Says, Quiet
  <2>2. pc = "find" /\ UNCHANGED <<mode, conf, driver>>
    BY <1>3 DEF FindDevices, At, driverVars
  <2> QED BY <2>1, <2>2
<1>4. CASE AskMode
  BY <1>4 DEF AskMode, At, driverVars
<1>5. CASE WriteConf
  BY <1>5 DEF WriteConf, At, Then, Quiet, wizardRest, SkipsReload
<1>6. ASSUME NEW step \in {"unload", "unload9"}, Unload(step) PROVE ModeInv'
  BY <1>6, AfterIs DEF Unload, At, Then, Quiet, wizardRest, Unloads
<1>7. ASSUME NEW step \in {"reload", "reload9"}, Modprobe(step) PROVE ModeInv'
  <2>1. pc = step /\ pc' = After(step) /\ UNCHANGED <<mode, conf>>
    BY <1>7 DEF Modprobe, At, Then, wizardRest, LoadDriver, driverVars
  <2>2. CASE LoadDriver(Params) /\ (IF step = "reload" THEN Says("parameters") ELSE Quiet)
    BY <2>1, <2>2, AfterIs DEF LoadDriver, Params, Says, Quiet
  <2>3. CASE UNCHANGED <<remoteVars, driverVars>> /\ Quiet
    BY <2>1, <2>3, AfterIs DEF driverVars, Quiet
  <2> QED BY <1>7, <2>2, <2>3 DEF Modprobe
<1>8. CASE Enable
  BY <1>8 DEF Enable, At, Then, Quiet, wizardRest, driverVars
<1>9. CASE ReopenDevices
  BY <1>9 DEF ReopenDevices, At, driverVars
<1>10. CASE Record
  BY <1>10, StateStepsAre DEF Record, At, Then, Fails, Quiet, FirstFile, wizardRest, driverVars
<1>11. CASE OwnBlob \/ GenericBlob
  BY <1>11, StateStepsAre DEF OwnBlob, GenericBlob, WriteBlob, Warns, Says, At, Then, Fails, Quiet,
                              wizardRest, driverVars
<1>12. CASE SaveCalibration
  BY <1>12, StateStepsAre DEF SaveCalibration, At, Then, Fails, Quiet, wizardRest, driverVars
<1>13. CASE WriteDeviceFile
  BY <1>13, StateStepsAre DEF WriteDeviceFile, At, Then, Fails, Quiet, wizardRest, driverVars
<1>14. CASE AskReload
  BY <1>14 DEF AskReload, At, Then, Says, Quiet, wizardRest, driverVars
<1>15. CASE SaveConfig
  <2>1. pc' = "finished" /\ (said' = said \/ said' = said \cup {"saved"})
        /\ UNCHANGED <<mode, conf, driver>>
    BY <1>15 DEF SaveConfig, Then, Says, Quiet, wizardRest, driverVars
  <2> QED BY <2>1
<1>16. CASE Kill
  BY <1>16 DEF Kill, driverVars, wizardVars
<1>17. CASE Replug
  BY <1>17 DEF Replug, LoadDriver, Params, wizardVars
<1>18. CASE \/ RemoteLeaves \/ RemoteComes \/ DaemonOpens \/ DaemonSaves \/ DaemonStops
            \/ DaemonStarts \/ ClientCalls \/ OthersReload \/ OthersConfigure
  BY <1>18 DEF RemoteLeaves, RemoteComes, DaemonOpens, DaemonSaves, DaemonStops, DaemonStarts,
               ClientCalls, OthersReload, OthersConfigure, driverVars, wizardVars
<1>19. CASE UNCHANGED setupVars
  BY <1>19 DEF setupVars, driverVars, wizardVars
<1> QED
  BY <1>1, <1>2, <1>3, <1>4, <1>5, <1>6, <1>7, <1>8, <1>9, <1>10, <1>11, <1>12, <1>13, <1>14,
     <1>15, <1>16, <1>17, <1>18, <1>19 DEF SetupNext, WizardStep, Others

\* After "Module reloaded with the new parameters." the driver is never seen with others,
\* through the reload of step 9, its failures, and reloads by hand.
THEOREM ModuleRunsModeAlways == SetupSpec => []ModuleRunsMode
<1>1. SetupInit => ModeInv
  BY DEF SetupInit, ModeInv, Modes, BeforeReload
<1>2. ModeInv => ModuleRunsMode
  BY DEF ModeInv, ModuleRunsMode
<1> QED
  BY <1>1, <1>2, ModeStep, PTL DEF SetupSpec

----------------------------------------------------------------------------
(* What was reported as saved is what the next command loads: `config set`, *)
(* migrations and the wizard start from what they can load.                 *)

EffectiveInv == ConfigInv /\ cfg \in Sound

LEMMA EffectiveStep == EffectiveInv /\ [SetupNext]_setupVars => EffectiveInv'
<1> SUFFICES ASSUME EffectiveInv, [SetupNext]_setupVars PROVE EffectiveInv'
  OBVIOUS
<1>0. ConfigInv /\ cfg \in Sound /\ Root \in Homes /\ User \in Homes
  BY SetupAssumption DEF EffectiveInv
<1> DEFINE Same == UNCHANGED <<toml, saved, cfg>>
<1>1. Same => EffectiveInv'
  BY <1>0 DEF EffectiveInv, ConfigInv
<1>2. CASE Start
  <2>1. UNCHANGED <<toml, saved>> /\ cfg' = LoadCfg(Root, NoFile)
    BY <1>2 DEF Start, configVars
  <2>2. LoadCfg(Root, NoFile) \in Sound
    BY <1>0, LoadIsSound
  <2> QED BY <1>0, <2>1, <2>2 DEF EffectiveInv, ConfigInv
<1>3. CASE SaveConfig
  <2>1. PICK v \in Tunings :
            \/ SaveUser(User, [cfg EXCEPT ![CalibKey] = Place, ![TuningKey] = v])
            \/ SaveFails(User, [cfg EXCEPT ![CalibKey] = Place, ![TuningKey] = v])
    BY <1>3 DEF SaveConfig
  <2>2. [cfg EXCEPT ![CalibKey] = Place, ![TuningKey] = v] \in Typed
    <3>2. Place \in Strings /\ v \in Numbers \cup {NotFinite} /\ CalibKey \in StrKeys
          /\ TuningKey \in NumKeys /\ TuningKey \notin StrKeys
      BY SetupAssumption, GlobalConfigAssumption DEF Place
    <3>3. Place \in TypeOf(CalibKey) \ {NotFinite} /\ v \in TypeOf(TuningKey)
      BY <3>2, GlobalConfigAssumption DEF TypeOf
    <3>4. CalibKey \in CfgKeys /\ TuningKey \in CfgKeys
      BY <3>2 DEF CfgKeys
    <3> HIDE DEF Place
    <3>5. [cfg EXCEPT ![CalibKey] = Place] \in Sound
      BY <1>0, <3>2, <3>3, <3>4 DEF Sound
    <3> QED BY <3>3, <3>4, <3>5, SetOneKey
  <2>3. ConfigInv'
    BY <1>0, <2>1, <2>2, SaveUserKeeps
  <2>4. cfg' = cfg
    BY <1>3 DEF SaveConfig, Then, wizardRest
  <2> QED BY <1>0, <2>3, <2>4 DEF EffectiveInv
<1>4. CASE OthersConfigure
  <2>1. cfg' = cfg
    BY <1>4 DEF OthersConfigure, wizardVars
  <2>2. CASE \E home \in Homes, k \in CfgKeys, v \in Offered : ConfigSet(home, NoFile, k, v)
    BY <1>0, <2>1, <2>2, ConfigSetKeeps DEF EffectiveInv
  <2>3. CASE \E home \in Homes : Migrate(home)
    BY <1>0, <2>1, <2>3, MigrateKeeps DEF EffectiveInv
  <2> QED BY <1>4, <2>2, <2>3 DEF OthersConfigure
<1>5. CASE LoadModule \/ FindDevices \/ AskMode \/ WriteConf
  BY <1>1, <1>5 DEF LoadModule, FindDevices, AskMode, WriteConf, Then, wizardRest, configVars
<1>6. ASSUME NEW step \in {"unload", "unload9"}, Unload(step) PROVE EffectiveInv'
  BY <1>1, <1>6 DEF Unload, Then, wizardRest, configVars
<1>7. ASSUME NEW step \in {"reload", "reload9"}, Modprobe(step) PROVE EffectiveInv'
  BY <1>1, <1>7 DEF Modprobe, Then, wizardRest, configVars
<1>8. CASE Enable \/ ReopenDevices \/ Record \/ SaveCalibration
  BY <1>1, <1>8 DEF Enable, ReopenDevices, Record, SaveCalibration, Then, Fails, wizardRest,
                    configVars
<1>9. CASE OwnBlob \/ GenericBlob
  BY <1>1, <1>9 DEF OwnBlob, GenericBlob, WriteBlob, Then, Fails, wizardRest, configVars
<1>10. CASE WriteDeviceFile
  BY <1>1, <1>10 DEF WriteDeviceFile, Then, Fails, wizardRest, configVars
<1>11. CASE AskReload
  BY <1>1, <1>11 DEF AskReload, Then, wizardRest, configVars
<1>12. CASE Kill \/ RemoteLeaves \/ RemoteComes \/ Replug \/ DaemonOpens
  BY <1>1, <1>12 DEF Kill, RemoteLeaves, RemoteComes, Replug, DaemonOpens, wizardVars, configVars
<1>13. CASE DaemonSaves \/ DaemonStops \/ DaemonStarts \/ ClientCalls \/ OthersReload
  BY <1>1, <1>13 DEF DaemonSaves, DaemonStops, DaemonStarts, ClientCalls, OthersReload,
                     wizardVars, configVars
<1>14. CASE UNCHANGED setupVars
  BY <1>1, <1>14 DEF setupVars, wizardVars, configVars
<1> QED
  BY <1>2, <1>3, <1>4, <1>5, <1>6, <1>7, <1>8, <1>9, <1>10, <1>11, <1>12, <1>13, <1>14
     DEF SetupNext, WizardStep, Others

\* What is last reported as saved is what the next command finds, through failed and
\* torn writes, migrations and other keys set meanwhile; with a nan among it, which is a
\* number to strtod and no TOML number, all of it is lost.
THEOREM SavedIsEffectiveAlways == SetupSpec => []SavedIsEffective
<1>1. SetupInit => EffectiveInv
  <2> SUFFICES ASSUME SetupInit PROVE EffectiveInv
    OBVIOUS
  <2>1. PICK first \in FirstConfigs : toml = first[1]
    BY DEF SetupInit
  <2>2. toml \in [{Sys} \cup Homes -> Files]
    BY <2>1, SetupAssumption
  <2>3. saved = [home \in Homes |-> NotGiven] /\ cfg = Defaults
    BY DEF SetupInit
  <2> QED BY <2>2, <2>3, DefaultsAreSound DEF EffectiveInv, ConfigInv
<1>2. EffectiveInv => SavedIsEffective
  <2> SUFFICES ASSUME EffectiveInv, NEW home \in Homes, saved[home] # NotGiven
               PROVE  LoadCfg(home, NoFile) =
                          IF Unwritable(saved[home]) THEN MergeFile(Defaults, toml[Sys])
                          ELSE saved[home]
    BY DEF SavedIsEffective
  <2> DEFINE below == MergeFile(Defaults, toml[Sys])
  <2>1. InFile(saved[home], toml[home])
    BY DEF EffectiveInv, ConfigInv
  <2>2. MergeFile(below, toml[home]) = IF Unwritable(saved[home]) THEN below ELSE saved[home]
    <3>1. CASE Unwritable(saved[home])
      BY <2>1, <3>1 DEF InFile, Written, MergeFile
    <3>2. CASE ~Unwritable(saved[home])
      BY <2>1, <3>2, WrittenIsItself DEF InFile
    <3> QED BY <3>1, <3>2
  <2>3. \A kv : MergeFile(kv, NoFile) = kv
    BY DEF MergeFile
  <2> HIDE DEF below
  <2>4. LoadCfg(home, NoFile) = MergeFile(MergeFile(below, toml[home]), NoFile)
    BY DEF LoadCfg, below
  <2> QED BY <2>2, <2>3, <2>4 DEF below
<1>3. EffectiveInv /\ [SetupNext]_setupVars => EffectiveInv'
  BY EffectiveStep
<1> QED
  BY <1>1, <1>2, <1>3, PTL DEF SetupSpec

----------------------------------------------------------------------------
(* Which steps write what.  The invariants below are about a few variables  *)
(* each, and most steps leave those alone.                                  *)

\* Between the last file and the end: the calibration and the device file are in place.
Told == {"ask", "unload9", "reload9", "save", "finished"}

WizardWrites ==
    /\ Start \/ (run' = run /\ (upsets' = upsets \/ Upset))
    /\ mac' = mac \/ ReopenDevices
    /\ mode' = mode \/ AskMode
    /\ "reloaded" \in said' => "reloaded" \in said \/ AskReload
    /\ Start \/ (said \subseteq said' /\ ("refused" \in said' => "refused" \in said \/ Warns))
    /\ pc' \in BeforeAsk => pc \in BeforeAsk \/ Start
    /\ pc' = "generic" => pc = "generic" \/ Record \/ OwnBlob
    /\ pc' = "json" => pc = "json" \/ Record \/ GenericBlob
    /\ pc' = "device" => pc = "device" \/ SaveCalibration
    /\ pc' \in Told => pc \in Told \/ WriteDeviceFile

MachineWrites ==
    /\ uniq' = uniq
    /\ json' = json \/ SaveCalibration
    /\ blob' = blob \/ OwnBlob \/ GenericBlob
    /\ opened' /\ live' # live => AskReload \/ DaemonOpens \/ DaemonSaves \/ OthersReload
    /\ opened' => opened \/ DaemonOpens
    /\ opened' /\ job # NoJob => job' = job \/ DaemonSaves
    /\ ~clobbered' => WriteDeviceFile \/ (~clobbered /\ file' = file)

StoreWrites ==
    \/ UNCHANGED vars \/ WriteDeviceFile
    \/ Reload \/ Restart \/ Stop \/ Reopen(Dev)
    \/ CommitDevice \/ WriteFails
    \/ ResetButtons(Dev) \/ \E p \in Paths \ {OwnPath} : SetCalibPath(Dev, p)

LEMMA Writers == [SetupNext]_setupVars => WizardWrites /\ MachineWrites /\ StoreWrites
<1> SUFFICES ASSUME [SetupNext]_setupVars PROVE WizardWrites /\ MachineWrites /\ StoreWrites
  OBVIOUS
<1> USE DEF WizardWrites, MachineWrites, StoreWrites, BeforeAsk, BeforeReload, Told
<1>1. CASE Start
  BY <1>1 DEF Start, Ended, remoteVars, calibVars, daemonVars, vars
<1>2. CASE LoadModule
  BY <1>2 DEF LoadModule, LoadDriver, At, Then, Quiet, wizardRest, remoteVars, calibVars, daemonVars,
              vars
<1>3. CASE FindDevices
  <2>1. /\ pc' \in {"mode", "failed"} /\ pc = "find"
        /\ said' = said \/ said' = said \cup {"no IMU"}
    BY <1>3 DEF FindDevices, At, Says, Quiet
  <2>2. UNCHANGED <<run, mode, mac, upsets, uniq, json, blob, opened, live, clobbered, vars>>
    BY <1>3 DEF FindDevices, remoteVars, calibVars, daemonVars
  <2> QED BY <2>1, <2>2 DEF vars
<1>4. CASE AskMode
  BY <1>4 DEF AskMode, At, remoteVars, calibVars, daemonVars, vars
<1>5. CASE WriteConf
  BY <1>5 DEF WriteConf, At, Then, Quiet, SkipsReload, wizardRest, remoteVars, calibVars, daemonVars, vars
<1>6. ASSUME NEW step \in {"unload", "unload9"}, Unload(step)
      PROVE  WizardWrites /\ MachineWrites /\ StoreWrites
  <2>1. pc' \in {After(step), After(After(step))} /\ pc = step
    BY <1>6 DEF Unload, At, Then
  <2>2. UNCHANGED <<run, mode, mac, upsets, said, uniq, json, blob, clobbered, vars>>
    BY <1>6 DEF Unload, Unloads, Then, Quiet, wizardRest, remoteVars, calibVars
  <2>3. opened' => opened /\ live' = live
    BY <1>6 DEF Unload, Unloads, DaemonDrops
  <2> QED BY <2>1, <2>2, <2>3, AfterIs DEF vars
<1>7. ASSUME NEW step \in {"reload", "reload9"}, Modprobe(step)
      PROVE  WizardWrites /\ MachineWrites /\ StoreWrites
  <2>1. pc' = After(step) /\ pc = step
    BY <1>7 DEF Modprobe, At, Then
  <2>2. said' = said \/ said' = said \cup {"parameters"}
    BY <1>7 DEF Modprobe, Says, Quiet
  <2>3. UNCHANGED <<run, mode, mac, upsets, uniq, json, blob, opened, live, clobbered, vars>>
    BY <1>7 DEF Modprobe, LoadDriver, Then, wizardRest, remoteVars, calibVars, daemonVars
  <2> QED BY <2>1, <2>2, <2>3, AfterIs DEF vars
<1>8. CASE Enable
  BY <1>8 DEF Enable, At, Then, Quiet, wizardRest, remoteVars, calibVars, Restart, vars
<1>9. CASE ReopenDevices
  BY <1>9 DEF ReopenDevices, At, remoteVars, calibVars, daemonVars, vars
<1>10. CASE Record
  BY <1>10, StateStepsAre DEF Record, At, Then, Fails, Quiet, FirstFile, wizardRest, remoteVars,
                              calibVars, daemonVars, vars
<1>11. CASE OwnBlob
  BY <1>11, StateStepsAre DEF OwnBlob, WriteBlob, Warns, Says, At, Then, Fails, Quiet,
                              wizardRest, remoteVars, daemonVars, vars
<1>12. CASE GenericBlob
  BY <1>12, StateStepsAre DEF GenericBlob, WriteBlob, Warns, Says, At, Then, Fails, Quiet,
                              wizardRest, remoteVars, daemonVars, vars
<1>13. CASE SaveCalibration
  BY <1>13, StateStepsAre DEF SaveCalibration, At, Then, Fails, Quiet, wizardRest, remoteVars,
                              daemonVars, vars
<1>14. CASE WriteDeviceFile
  BY <1>14, StateStepsAre DEF WriteDeviceFile, At, Then, Fails, Quiet, wizardRest, remoteVars,
                              calibVars
<1>15. CASE AskReload
  BY <1>15 DEF AskReload, At, Then, Says, Quiet, wizardRest, remoteVars, calibVars, Reload, vars
<1>16. CASE SaveConfig
  <2>1. pc' = "finished" /\ pc = "save" /\ (said' = said \/ said' = said \cup {"saved"})
    BY <1>16 DEF SaveConfig, At, Then, Says, Quiet
  <2>2. UNCHANGED <<run, mode, mac, upsets, uniq, json, blob, opened, live, clobbered, vars>>
    BY <1>16 DEF SaveConfig, Then, wizardRest, remoteVars, calibVars, daemonVars
  <2> QED BY <2>1, <2>2 DEF vars
<1>17. CASE Kill
  BY <1>17 DEF Kill, wizardVars, remoteVars, calibVars, daemonVars, vars
<1>18. CASE RemoteLeaves \/ RemoteComes \/ Replug
  BY <1>18 DEF RemoteLeaves, RemoteComes, Replug, LoadDriver, DaemonDrops, wizardVars, remoteVars,
               calibVars, daemonVars, vars
<1>19. CASE DaemonOpens
  BY <1>19 DEF DaemonOpens, Reopen, wizardVars, remoteVars, calibVars, vars
<1>20. CASE DaemonSaves
  <2>1. UNCHANGED <<wizardVars, pc, upsets, uniq, json, blob, opened>>
    BY <1>20 DEF DaemonSaves, remoteVars, calibVars
  <2>2. \/ CommitDevice /\ clobbered' = TRUE
        \/ WriteFails /\ clobbered' = clobbered /\ file' = file
    BY <1>20 DEF DaemonSaves, WriteFails
  <2> QED BY <1>20, <2>1, <2>2 DEF wizardVars
<1>21. CASE DaemonStops
  BY <1>21 DEF DaemonStops, DaemonDrops, Stop, wizardVars, remoteVars, calibVars
<1>22. CASE DaemonStarts
  BY <1>22 DEF DaemonStarts, Restart, wizardVars, remoteVars, calibVars
<1>23. CASE ClientCalls
  <2>1. UNCHANGED <<wizardVars, pc, uniq, json, blob, opened, live, clobbered>> /\ Upset
    BY <1>23 DEF ClientCalls, remoteVars, calibVars
  <2>2. ResetButtons(Dev) \/ \E p \in Paths \ {OwnPath} : SetCalibPath(Dev, p)
    BY <1>23 DEF ClientCalls
  <2>3. file' = file /\ job = NoJob
    BY <2>2 DEF ResetButtons, SetCalibPath, Mutate, WriteTmp
  <2> QED BY <2>1, <2>2, <2>3 DEF wizardVars
<1>24. CASE OthersReload
  BY <1>24 DEF OthersReload, Reload, wizardVars, remoteVars, calibVars
<1>25. CASE OthersConfigure
  BY <1>25 DEF OthersConfigure, wizardVars, remoteVars, calibVars, daemonVars, vars
<1>26. CASE UNCHANGED setupVars
  BY <1>26 DEF setupVars, wizardVars, remoteVars, calibVars, daemonVars, vars
<1> QED
  BY <1>1, <1>2, <1>3, <1>4, <1>5, <1>6, <1>7, <1>8, <1>9, <1>10, <1>11, <1>12, <1>13, <1>14,
     <1>15, <1>16, <1>17, <1>18, <1>19, <1>20, <1>21, <1>22, <1>23, <1>24, <1>25, <1>26
     DEF SetupNext, WizardStep, Others

----------------------------------------------------------------------------
(* The daemon's store, as the wizard uses it.                               *)

\* Nobody selects a profile here: there is no state.toml, and every bus call is about
\* the remote's device file.
StoreInv ==
    /\ TypeInv /\ stateFile = Missing
    /\ job = NoJob \/ BeingWritten(Dev)

\* The run in progress and what it has found out about the remote.
WizardInv ==
    /\ run \in Nat /\ upsets \in Nat /\ run + upsets <= MaxEvents
    /\ uniq \in {"mac", "none"} /\ (mac => uniq = "mac")
    /\ mode \in Modes
    /\ DOMAIN json = Paths \cup {UnknownPath, EtcPath}
    /\ DOMAIN blob = {"own", "generic"}

LEMMA WizardStepKeeps == WizardInv /\ [SetupNext]_setupVars => WizardInv'
<1> SUFFICES ASSUME WizardInv, [SetupNext]_setupVars PROVE WizardInv'
  OBVIOUS
<1>1. WizardWrites /\ MachineWrites
  BY Writers
<1>2. run' \in Nat /\ upsets' \in Nat /\ run' + upsets' <= MaxEvents
  BY <1>1, SetupAssumption DEF WizardInv, WizardWrites, Start, Upset, MoreMayHappen
<1>3. uniq' = uniq /\ (mac' => uniq' = "mac")
  <2>1. uniq' = uniq
    BY <1>1 DEF MachineWrites
  <2>2. ReopenDevices => mac' = (node = path /\ uniq = "mac") \/ mac' = mac
    BY DEF ReopenDevices
  <2>3. ReopenDevices /\ mac' => uniq = "mac" \/ mac
    BY <2>2, Zenon
  <2>4. mac' => uniq = "mac" \/ mac
    BY <1>1, <2>3 DEF WizardWrites
  <2> QED BY <2>1, <2>4 DEF WizardInv
<1>4. mode' \in Modes
  BY <1>1 DEF WizardInv, WizardWrites, AskMode
<1>5. DOMAIN json' = DOMAIN json
  BY <1>1 DEF MachineWrites, SaveCalibration
<1>6. DOMAIN blob' = DOMAIN blob
  BY <1>1 DEF MachineWrites, OwnBlob, GenericBlob, WriteBlob
<1> QED BY <1>2, <1>3, <1>4, <1>5, <1>6 DEF WizardInv

LEMMA WizardInit == SetupInit => WizardInv
<1> SUFFICES ASSUME SetupInit PROVE WizardInv
  OBVIOUS
<1>1. run = 0 /\ upsets = 0 /\ uniq \in Uniqs /\ mac = FALSE /\ mode = "daemon"
  BY DEF SetupInit
<1>2. DOMAIN json = Paths \cup {UnknownPath, EtcPath}
  BY DEF SetupInit
<1>3. DOMAIN blob = {"own", "generic"}
  BY DEF SetupInit
<1> QED BY <1>1, <1>2, <1>3, SetupAssumption DEF WizardInv, Modes

(* The device file a run writes loads, and names its calibration. *)
LEMMA DeviceFileIs ==
    ASSUME WizardInv, mac
    PROVE  /\ DeviceFile \in DeviceConfig /\ Loads(DeviceFile)
           /\ DeviceFile.calib = OwnPath /\ DeviceFile.airmouse = (mode = "daemon")
<1>1. Place = OwnPath /\ OwnPath \in Paths /\ Default \in Names
  BY SetupAssumption, ProfilesAssumption DEF Place
<1> DEFINE mouse == (mode = "daemon")
<1>a. mouse \in BOOLEAN /\ DeviceFile = [DeviceInit EXCEPT !.airmouse = mouse, !.calib = Place]
  BY DEF DeviceFile
<1> HIDE DEF mouse
<1>2. DeviceFile = [profile |-> Default, airmouse |-> mouse, calib |-> OwnPath,
                    profiles |-> [n \in Names |-> Absent]]
  BY <1>1, <1>a DEF DeviceInit
<1>3. DeviceFile \in DeviceConfig
  BY <1>1, <1>2, <1>a DEF DeviceConfig
<1>4. \A n \in Names : ~Defined(DeviceFile, n)
  BY <1>2 DEF Defined
<1>5. Loads(DeviceFile)
  BY <1>2, <1>3, <1>4, ValidMeansLoads
<1> QED BY <1>2, <1>3, <1>5 DEF mouse

\* Without state.toml a load is a load of the device file.
LEMMA LoadedIs ==
    ASSUME StoreInv
    PROVE  /\ Loaded(Dev) = LoadFile(file[Dev])
           /\ file[Dev] \in {Missing, Broken} => Loaded(Dev).dc.calib = Unset
           /\ file[Dev] \notin {Missing, Broken} => Loaded(Dev).dc.calib \in {Unset, file[Dev].calib}
           /\ file[Dev] \notin {Missing, Broken} /\ Loads(file[Dev]) =>
                 Loaded(Dev).ok /\ Loaded(Dev).dc = file[Dev]
           /\ file[Dev] = Missing => Loaded(Dev).ok /\ Loaded(Dev).dc = DeviceInit
<1>1. NamedIn(stateFile, Dev) = NoName
  BY DEF StoreInv, NamedIn
<1>2. Loaded(Dev) = LoadFile(file[Dev])
  BY <1>1 DEF Loaded, LoadRemote
<1>3. Dev \in Ids /\ file[Dev] \in DeviceConfig \cup {Missing, Broken} /\ Missing # Broken
  BY SetupAssumption, ConfigStoreAssumption DEF StoreInv, TypeInv
<1>4. CASE file[Dev] = Missing
  <2>1. LoadFile(Missing) = [ok |-> TRUE, dc |-> DeviceInit] /\ DeviceInit.calib = Unset
    BY <1>3 DEF LoadFile, DeviceInit, Parses
  <2> QED BY <1>2, <1>4, <2>1
<1>5. CASE file[Dev] # Missing /\ ~Parses(file[Dev])
  <2>1. LoadFile(file[Dev]) = [ok |-> FALSE, dc |-> DeviceInit] /\ DeviceInit.calib = Unset
    BY <1>5 DEF LoadFile, DeviceInit
  <2> QED BY <1>2, <1>5, <2>1 DEF Loads
<1>6. CASE file[Dev] # Missing /\ Parses(file[Dev])
  <2>1. LoadFile(file[Dev]) = [ok |-> Loads(file[Dev]),
                               dc |-> IF Loads(file[Dev]) THEN file[Dev] ELSE Partial(file[Dev])]
    BY <1>6 DEF LoadFile
  <2>2. file[Dev] \in DeviceConfig /\ file[Dev] \notin {Missing, Broken}
    BY <1>3, <1>6 DEF Parses
  <2>3. Partial(file[Dev]).calib = file[Dev].calib
    BY <2>2, ConfigFields DEF Partial
  <2>4. Loads(file[Dev]) \in BOOLEAN
    BY DEF Loads
  <2>5. CASE Loads(file[Dev])
    <3>1. Loaded(Dev).ok /\ Loaded(Dev).dc = file[Dev]
      BY <1>2, <2>1, <2>5
    <3> QED BY <1>2, <1>6, <2>2, <2>5, <3>1
  <2>6. CASE ~Loads(file[Dev])
    <3>1. Loaded(Dev).dc = Partial(file[Dev])
      BY <1>2, <2>1, <2>6
    <3> QED BY <1>2, <1>6, <2>2, <2>3, <2>6, <3>1
  <2> QED BY <2>5, <2>6
<1> QED BY <1>4, <1>5, <1>6

LEMMA StoreStepKeeps ==
    ASSUME StoreInv, WizardInv, StoreWrites
    PROVE  StoreInv'
<1>0. Dev \in Ids
  BY SetupAssumption
<1>1. CASE UNCHANGED vars
  BY <1>1, TypeStep DEF StoreInv, BeingWritten, vars
<1>2. CASE Reload \/ Restart \/ Stop \/ Reopen(Dev) \/ CommitDevice \/ WriteFails
  <2>1. TypeInv'
    BY <1>0, <1>2, TypeStep DEF StoreInv, Next
  <2>2. stateFile' = stateFile /\ (job' = job \/ job' = NoJob)
    BY <1>2 DEF Reload, Restart, Stop, Reopen, CommitDevice, WriteFails
  <2> QED BY <2>1, <2>2 DEF StoreInv, BeingWritten
<1>3. CASE ResetButtons(Dev) \/ \E p \in Paths \ {OwnPath} : SetCalibPath(Dev, p)
  <2>1. TypeInv'
    BY <1>0, <1>3, TypeStep DEF StoreInv, Next, Call
  <2>2. stateFile' = stateFile /\ job' = [what |-> "device", id |-> Dev]
    BY <1>3 DEF ResetButtons, SetCalibPath, Mutate
  <2> QED BY <2>1, <2>2 DEF StoreInv, BeingWritten
<1>4. CASE WriteDeviceFile
  <2>1. UNCHANGED <<stateFile, up, dc, running, job, edited, spoiled>>
    BY <1>4 DEF WriteDeviceFile
  <2>2. file' = file \/ \E f \in DeviceConfig \cup {Missing, Broken} : file' = [file EXCEPT ![Dev] = f]
    <3>1. file[Dev] \in DeviceConfig \cup {Missing, Broken}
      BY <1>0 DEF StoreInv, TypeInv
    <3>2. DeviceInit \in DeviceConfig /\ (mac => DeviceFile \in DeviceConfig)
      BY DeviceInitType, DeviceFileIs
    <3> QED BY <1>4, <3>1, <3>2 DEF WriteDeviceFile, HasDeviceFile, Spoilt
  <2>3. file' \in [Ids -> DeviceConfig \cup {Missing, Broken}]
    BY <1>0, <2>2 DEF StoreInv, TypeInv
  <2> QED BY <2>1, <2>3 DEF StoreInv, TypeInv, BeingWritten
<1> QED BY <1>1, <1>2, <1>3, <1>4 DEF StoreWrites

LEMMA StoreInit == SetupInit => StoreInv
  BY TypeInit DEF SetupInit, Init, StoreInv

----------------------------------------------------------------------------
(* The device file never names a calibration that was not written before    *)
(* it; nor does the record in memory, which a bus call may write out.       *)

NamesOwn(c) == c.calib = OwnPath => json[OwnPath] # Missing

CalibInv ==
    /\ file[Dev] \notin {Missing, Broken} => NamesOwn(file[Dev])
    /\ NamesOwn(dc[Dev])
    /\ pc = "device" /\ mac => json[OwnPath] # Missing

\* What becomes of the remote's device file and of the calibration its record names.
LEMMA RecordsChange ==
    ASSUME StoreInv, WizardInv, StoreWrites
    PROVE  /\ \/ file'[Dev] \in {file[Dev], dc[Dev], Broken, DeviceInit}
              \/ pc = "device" /\ mac /\ file'[Dev] = DeviceFile
           /\ dc'[Dev].calib \in {dc[Dev].calib, Loaded(Dev).dc.calib} \cup (Paths \ {OwnPath})
<1>0. Dev \in Ids /\ dc \in [Ids -> DeviceConfig] /\ DOMAIN file = Ids /\ DOMAIN dc = Ids
  BY SetupAssumption DEF StoreInv, TypeInv
<1>1. CASE UNCHANGED vars
  BY <1>1 DEF vars
<1>2. CASE Reload \/ Restart \/ Stop \/ Reopen(Dev)
  BY <1>0, <1>2 DEF Reload, Restart, Stop, Reopen
<1>3. CASE CommitDevice
  <2>1. job.id = Dev
    BY <1>3 DEF StoreInv, BeingWritten, CommitDevice
  <2> QED BY <1>0, <1>3, <2>1 DEF CommitDevice
<1>4. CASE WriteFails
  <2>1. job.id = Dev /\ job.what = "device"
    BY <1>4 DEF StoreInv, BeingWritten, WriteFails
  <2> QED BY <1>0, <1>4, <2>1 DEF WriteFails, Rollback
<1>5. CASE ResetButtons(Dev)
  <2>1. dc[Dev] \in DeviceConfig
    BY <1>0
  <2>2. \A p : WithActive(dc[Dev], p).calib = dc[Dev].calib
    BY <2>1, ConfigFields DEF WithActive
  <2>3. PICK c : Mutate(Dev, c) /\ c.calib = dc[Dev].calib
    BY <1>5, <2>2 DEF ResetButtons
  <2> QED BY <1>0, <2>3 DEF Mutate, WriteTmp
<1>6. ASSUME NEW p \in Paths \ {OwnPath}, SetCalibPath(Dev, p)
      PROVE  file' = file /\ dc'[Dev].calib = p
  <2>1. dc' = [dc EXCEPT ![Dev] = [dc[Dev] EXCEPT !.calib = p]] /\ file' = file
    BY <1>6 DEF SetCalibPath, Mutate, WriteTmp
  <2>2. [dc[Dev] EXCEPT !.calib = p].calib = p
    BY <1>0, ConfigFields
  <2> QED BY <1>0, <2>1, <2>2
<1>7. CASE WriteDeviceFile
  BY <1>0, <1>7 DEF WriteDeviceFile, At, HasDeviceFile, Spoilt
<1> QED BY <1>1, <1>2, <1>3, <1>4, <1>5, <1>6, <1>7 DEF StoreWrites

LEMMA CalibStep ==
    StoreInv /\ WizardInv /\ CalibInv /\ [SetupNext]_setupVars => CalibInv'
<1> SUFFICES ASSUME StoreInv, WizardInv, CalibInv, [SetupNext]_setupVars PROVE CalibInv'
  OBVIOUS
<1>1. WizardWrites /\ MachineWrites /\ StoreWrites
  BY Writers
<1>2. OwnPath \in Paths /\ OwnPath # Unset /\ OwnPath \in DOMAIN json
  BY SetupAssumption, ProfilesAssumption DEF WizardInv
<1>3. ASSUME json[OwnPath] # Missing PROVE json'[OwnPath] # Missing
  <2>1. run # Missing /\ Broken # Missing
    BY SetupAssumption, ConfigStoreAssumption DEF WizardInv
  <2> QED BY <1>1, <1>2, <1>3, <2>1 DEF MachineWrites, SaveCalibration, Spoilt
<1>4. NamesOwn(Loaded(Dev).dc)
  BY <1>2, LoadedIs DEF NamesOwn, CalibInv
<1>5. NamesOwn(dc[Dev])'
  BY <1>1, <1>3, <1>4, RecordsChange DEF NamesOwn, CalibInv
<1>6. (file[Dev] \notin {Missing, Broken} => NamesOwn(file[Dev]))'
  <2>1. CASE file'[Dev] \in {file[Dev], dc[Dev], Broken, DeviceInit}
    BY <1>2, <1>3, <2>1 DEF NamesOwn, CalibInv, DeviceInit
  <2>2. CASE pc = "device" /\ mac
    BY <1>3, <2>2 DEF NamesOwn, CalibInv
  <2> QED BY <1>1, <2>1, <2>2, RecordsChange
<1>7. (pc = "device" /\ mac => json[OwnPath] # Missing)'
  <2> SUFFICES ASSUME pc' = "device", mac' PROVE json'[OwnPath] # Missing
    OBVIOUS
  <2>1. mac
    <3>1. ReopenDevices => pc' \in {"record", "failed"}
      BY DEF ReopenDevices
    <3> QED BY <1>1, <3>1 DEF WizardWrites
  <2>2. CASE pc = "device"
    BY <1>3, <2>1, <2>2 DEF CalibInv
  <2>3. CASE SaveCalibration
    <3>1. json' = [json EXCEPT ![Place] = run] /\ Place = OwnPath
      BY <2>1, <2>3 DEF SaveCalibration, Then, Fails, Place
    <3>2. run # Missing
      BY SetupAssumption DEF WizardInv
    <3> QED BY <1>2, <3>1, <3>2
  <2> QED BY <1>1, <2>2, <2>3 DEF WizardWrites
<1> QED BY <1>5, <1>6, <1>7 DEF CalibInv

\* No file found at first names the calibration the wizard is about to make.
NoneNamesOwn == \A f \in FirstFiles : f.calib # OwnPath

\* Wherever a run fails or is killed, and whatever the daemon writes meanwhile, the
\* remote's device file names the remote's calibration only when there is one.
THEOREM DeviceFileNamesCalibrationAlways ==
    ASSUME NoneNamesOwn
    PROVE  SetupSpec => []DeviceFileNamesCalibration
<1>1. SetupInit => CalibInv
  <2> SUFFICES ASSUME SetupInit PROVE CalibInv
    OBVIOUS
  <2>1. Dev \in Ids /\ OwnPath # Unset
    BY SetupAssumption, ProfilesAssumption
  <2>2. dc[Dev].calib # OwnPath
    BY <2>1 DEF SetupInit, Init, DeviceInit
  <2>3. file[Dev] \in FirstFiles \cup {Missing} /\ pc = "idle"
    BY <2>1 DEF SetupInit, Init
  <2> QED BY <2>2, <2>3 DEF CalibInv, NamesOwn, NoneNamesOwn
<1>2. CalibInv => DeviceFileNamesCalibration
  BY DEF CalibInv, NamesOwn, DeviceFileNamesCalibration
<1>3. StoreInv /\ WizardInv /\ [SetupNext]_setupVars => (StoreInv /\ WizardInv)'
  BY Writers, StoreStepKeeps, WizardStepKeeps
<1> QED
  BY <1>1, <1>2, <1>3, StoreInit, WizardInit, CalibStep, PTL DEF SetupSpec

----------------------------------------------------------------------------
(* In kernel mode: what the driver will find at its next probe.             *)

BlobInv ==
    /\ "refused" \in said => run \in OutOfRange
    /\ mode = "kernel" =>
          /\ pc \in {"generic", "json", "device"} \cup Told /\ mac => blob.own = run
          /\ pc \in {"json", "device"} \cup Told =>
                blob.generic = run /\ (run \in OutOfRange => "refused" \in said)

(* The steps from the first file on leave the run, its mode and its address *)
(* alone.                                                                   *)
LEMMA SameRun ==
    ASSUME [SetupNext]_setupVars, pc' \in {"generic", "json", "device"} \cup Told
    PROVE  UNCHANGED <<run, mode, mac, uniq>>
<1>1. WizardWrites /\ MachineWrites
  BY Writers
<1>2. Start => pc' \in {"load", "find"}
  BY DEF Start
<1>3. ReopenDevices => pc' \in {"record", "failed"}
  BY DEF ReopenDevices
<1>4. AskMode => pc' = "conf"
  BY DEF AskMode
<1> QED BY <1>1, <1>2, <1>3, <1>4 DEF WizardWrites, MachineWrites, Told

LEMMA BlobStep == WizardInv /\ BlobInv /\ [SetupNext]_setupVars => BlobInv'
<1>0. WizardInv /\ BlobInv /\ [SetupNext]_setupVars => WizardWrites /\ MachineWrites
  BY Writers
<1>00. WizardInv /\ BlobInv /\ [SetupNext]_setupVars => ("refused" \in said => run \in OutOfRange)'
  <2>1. Start => said' = {}
    BY DEF Start
  <2>2. Warns /\ "refused" \in said' => "refused" \in said \/ run \in OutOfRange
    BY DEF Warns, Quiet
  <2> QED BY <1>0, <2>1, <2>2 DEF WizardWrites, BlobInv
<1> SUFFICES ASSUME WizardInv, BlobInv, [SetupNext]_setupVars, mode' = "kernel",
                    pc' \in {"generic", "json", "device"} \cup Told
             PROVE  /\ mac' => blob'.own = run'
                    /\ pc' # "generic" =>
                          blob'.generic = run' /\ (run' \in OutOfRange => "refused" \in said')
  BY <1>00 DEF BlobInv, Told
<1>1. WizardWrites /\ MachineWrites
  BY Writers
<1>2. run' = run /\ mode = "kernel" /\ mac' = mac
  BY SameRun
<1>3. DOMAIN blob = {"own", "generic"}
  BY DEF WizardInv
<1>4. CASE OwnBlob
  <2>1. pc' = "generic" /\ blob' = [blob EXCEPT !["own"] = run]
    BY <1>4 DEF OwnBlob, WriteBlob, Then, Fails, Told
  <2> QED BY <1>2, <1>3, <2>1
<1>5. CASE GenericBlob
  <2>1. pc = "generic" /\ blob' = [blob EXCEPT !["generic"] = run]
    BY <1>5 DEF GenericBlob, WriteBlob, At, Then, Fails, Told
  <2>2. run \in OutOfRange => "refused" \in said'
    BY <1>5 DEF GenericBlob, WriteBlob, Warns, Says
  <2> QED BY <1>2, <1>3, <2>1, <2>2 DEF BlobInv
<1>6. CASE ~OwnBlob /\ ~GenericBlob
  <2>1. blob' = blob
    BY <1>1, <1>6 DEF MachineWrites
  <2>2. CASE Record
    <3>1. pc' = "generic" /\ ~mac
      BY <1>2, <2>2 DEF Record, Then, Fails, FirstFile, Told
    <3> QED BY <1>2, <3>1
  <2>3. CASE SaveCalibration
    BY <1>2, <2>1, <2>3 DEF SaveCalibration, At, Quiet, BlobInv
  <2>4. CASE WriteDeviceFile
    BY <1>2, <2>1, <2>4 DEF WriteDeviceFile, At, Quiet, BlobInv
  <2>5. CASE ~Record /\ ~SaveCalibration /\ ~WriteDeviceFile
    <3>1. /\ pc \in {"generic", "json", "device"} \cup Told
          /\ pc' # "generic" => pc # "generic"
      BY <1>1, <1>6, <2>5 DEF WizardWrites, Told
    <3>2. said \subseteq said'
      <4>1. Start => pc' \in {"load", "find"}
        BY DEF Start
      <4> QED BY <1>1, <4>1 DEF WizardWrites, Told
    <3> QED BY <1>2, <2>1, <3>1, <3>2 DEF BlobInv
  <2> QED BY <2>2, <2>3, <2>4, <2>5
<1> QED BY <1>4, <1>5, <1>6

LEMMA BlobMeansInstalled ==
    ASSUME WizardInv, BlobInv, pc = "finished", mode = "kernel", Addressed
    PROVE  NextTable = IF "refused" \in said THEN Missing ELSE run
<1>1. blob.generic = run /\ (mac => blob.own = run)
  BY DEF BlobInv, Told
<1>2. run # Missing /\ (Refused(run) <=> "refused" \in said)
  BY SetupAssumption DEF WizardInv, BlobInv, Told, Refused
<1>3. CASE mac
  BY <1>1, <1>2, <1>3 DEF NextTable, TableOf, WizardInv
<1>4. CASE ~mac
  <2>1. uniq = "none"
    BY <1>4 DEF Addressed
  <2> QED BY <1>1, <1>2, <2>1 DEF NextTable, TableOf
<1> QED BY <1>3, <1>4

----------------------------------------------------------------------------
(* In daemon mode: what the daemon loads, and what its pipeline runs.       *)

\* An opening or a reload of the remote makes its pipeline work with this run's
\* calibration.
LoadsWorking ==
    Loaded(Dev).ok /\ Loaded(Dev).dc.airmouse /\ json[PathOf(Loaded(Dev).dc)] = run

UsedInv ==
    /\ pc \in BeforeAsk => "reloaded" \notin said
    /\ "reloaded" \in said => mode = "daemon"
    /\ pc = "device" => json[Place] = run
    /\ uniq = "none" /\ ~clobbered =>
          Loaded(Dev).ok /\ Loaded(Dev).dc.airmouse /\ Loaded(Dev).dc.calib = Unset
    /\ (pc \in Told \/ "reloaded" \in said) /\ mode = "daemon" /\ Addressed /\ ~clobbered =>
          LoadsWorking
    /\ "reloaded" \in said /\ Addressed /\ Undisturbed /\ opened => live = Working

\* A remote without an address gets no device file of the wizard's: a file it already
\* has, if any, loads, names no calibration and leaves the air mouse on.
AsInstalled ==
    "none" \in Uniqs => \A f \in FirstFiles : Loads(f) /\ f.airmouse /\ f.calib = Unset

LEMMA WorkingIs ==
    ASSUME WizardInv, LoadsWorking, NEW l
    PROVE  Configured(l, Loaded(Dev).dc) = Working
<1> DEFINE c == Loaded(Dev).dc
<1>1. run \in Runs
  BY SetupAssumption DEF WizardInv, Runs
<1>2. json[PathOf(c)] = run /\ Configured(l, c) = [cal |-> run, mouse |-> c.airmouse]
  BY <1>1 DEF LoadsWorking, Configured
<1>3. c.airmouse
  BY DEF LoadsWorking
<1> QED BY <1>2, <1>3 DEF Working

LEMMA UsedStep ==
    StoreInv /\ WizardInv /\ UsedInv /\ [SetupNext]_setupVars => UsedInv'
<1> SUFFICES ASSUME StoreInv, WizardInv, UsedInv, [SetupNext]_setupVars PROVE UsedInv'
  OBVIOUS
<1>1. WizardWrites /\ MachineWrites /\ StoreWrites /\ StoreInv' /\ WizardInv'
  BY Writers, StoreStepKeeps, WizardStepKeeps
<1>2. Start => pc' \in {"load", "find"} /\ said' = {}
  BY DEF Start
<1>3. AskReload => pc = "ask" /\ pc' = "unload9"
  BY DEF AskReload, At, Then
<1>4. (pc \in BeforeAsk => "reloaded" \notin said)'
  BY <1>1, <1>2, <1>3 DEF UsedInv, WizardWrites, BeforeAsk, BeforeReload
<1>5. "reloaded" \in said' => UNCHANGED <<run, mode, mac, uniq>>
  <2>1. ReopenDevices => pc' \in {"record", "failed"} /\ pc = "open" /\ said' = said
    BY DEF ReopenDevices, At
  <2>2. AskMode => pc' = "conf"
    BY DEF AskMode
  <2>3. ReopenDevices => "reloaded" \notin said'
    BY <2>1 DEF UsedInv, BeforeAsk
  <2>4. AskMode => "reloaded" \notin said'
    BY <1>4, <2>2 DEF BeforeAsk, BeforeReload
  <2> QED BY <1>1, <1>2, <2>3, <2>4 DEF WizardWrites, MachineWrites
<1>6. "reloaded" \in said' => mode' = "daemon"
  <2>1. AskReload /\ "reloaded" \in said' => "reloaded" \in said \/ mode = "daemon"
    BY DEF AskReload, Quiet
  <2> QED BY <1>1, <1>5, <2>1 DEF UsedInv, WizardWrites
<1>7. (pc = "device" => json[Place] = run)'
  <2> SUFFICES ASSUME pc' = "device" PROVE json'[Place'] = run'
    OBVIOUS
  <2>1. UNCHANGED <<run, mode, mac, uniq>>
    BY SameRun
  <2>2. Place' = Place /\ Place \in DOMAIN json
    BY <2>1, SetupAssumption DEF Place, WizardInv
  <2>3. CASE SaveCalibration
    <3>1. json' = [json EXCEPT ![Place] = run]
      BY <2>3 DEF SaveCalibration, Then, Fails
    <3> QED BY <2>1, <2>2, <3>1
  <2>4. CASE ~SaveCalibration
    BY <1>1, <2>1, <2>2, <2>4 DEF WizardWrites, MachineWrites, UsedInv
  <2> QED BY <2>3, <2>4
<1>8. stateFile' = stateFile
  BY <1>1 DEF StoreInv
<1>9. file' = file => Loaded(Dev)' = Loaded(Dev)
  BY <1>8 DEF Loaded
<1>10. (uniq = "none" /\ ~clobbered =>
          Loaded(Dev).ok /\ Loaded(Dev).dc.airmouse /\ Loaded(Dev).dc.calib = Unset)'
  <2> SUFFICES ASSUME uniq' = "none", ~clobbered'
               PROVE  (Loaded(Dev).ok /\ Loaded(Dev).dc.airmouse /\ Loaded(Dev).dc.calib = Unset)'
    OBVIOUS
  <2>1. uniq = "none" /\ ~mac
    BY <1>1 DEF MachineWrites, WizardInv
  <2>2. ~clobbered /\ file' = file
    BY <1>1, <2>1 DEF MachineWrites, WriteDeviceFile, HasDeviceFile
  <2> QED BY <1>9, <2>1, <2>2 DEF UsedInv
<1>11. ((pc \in Told \/ "reloaded" \in said) /\ mode = "daemon" /\ Addressed /\ ~clobbered =>
           LoadsWorking)'
  <2> SUFFICES ASSUME pc' \in Told \/ "reloaded" \in said', mode' = "daemon", Addressed',
                      ~clobbered'
               PROVE  LoadsWorking'
    OBVIOUS
  <2>1. UNCHANGED <<run, mode, mac, uniq>>
    BY <1>5, SameRun
  <2>2. mode = "daemon" /\ Addressed
    BY <2>1 DEF Addressed
  <2>3. CASE WriteDeviceFile
    <3>1. pc = "device" /\ json' = json /\ json[Place] = run /\ said' = said
      BY <2>3 DEF WriteDeviceFile, At, Quiet, calibVars, UsedInv
    <3>2. pc' \in Told
      BY <3>1 DEF UsedInv, BeforeAsk
    <3>3. CASE mac
      <4>1. file' = [file EXCEPT ![Dev] = DeviceFile]
        BY <2>3, <3>2, <3>3 DEF WriteDeviceFile, HasDeviceFile, Then, Fails, Told
      <4>2. file'[Dev] = DeviceFile
        BY <4>1, SetupAssumption DEF StoreInv, TypeInv
      <4>3. /\ DeviceFile \in DeviceConfig /\ Loads(DeviceFile) /\ DeviceFile.calib = OwnPath
            /\ DeviceFile.airmouse
        BY <2>2, <3>3, DeviceFileIs
      <4>4. StoreInv' => (file[Dev] \notin {Missing, Broken} /\ Loads(file[Dev]) =>
                            Loaded(Dev).ok /\ Loaded(Dev).dc = file[Dev])'
        BY LoadedIs, PTL
      <4>5. DeviceFile \notin {Missing, Broken}
        BY <4>3, ConfigStoreAssumption
      <4>6. Loads(DeviceFile) => Loads(file[Dev])'
        BY <4>2 DEF Loads, Invalid, Defined, Valid, Parses, HasSpeed
      <4>7. Loaded(Dev)'.ok /\ Loaded(Dev)'.dc = DeviceFile
        BY <1>1, <4>2, <4>3, <4>4, <4>5, <4>6
      <4>8. PathOf(Loaded(Dev).dc)' = OwnPath
        <5>1. OwnPath # Unset
          BY SetupAssumption, ProfilesAssumption
        <5> QED BY <4>3, <4>7, <5>1 DEF PathOf, OrElse
      <4>9. Place = OwnPath
        BY <3>3 DEF Place
      <4> QED BY <2>1, <3>1, <4>3, <4>7, <4>8, <4>9 DEF LoadsWorking
    <3>4. CASE ~mac
      <4>1. file' = file /\ clobbered' = clobbered /\ uniq = "none"
        BY <2>2, <2>3, <3>4 DEF WriteDeviceFile, HasDeviceFile, Addressed
      <4>2. Loaded(Dev).ok /\ Loaded(Dev).dc.airmouse /\ Loaded(Dev).dc.calib = Unset
        BY <4>1 DEF UsedInv
      <4>3. PathOf(Loaded(Dev).dc)' = UnknownPath
        BY <1>9, <2>1, <4>1, <4>2 DEF PathOf, OrElse, DefaultPath
      <4>4. Place = UnknownPath
        BY <2>2, <3>4 DEF Place
      <4> QED BY <1>9, <2>1, <3>1, <4>1, <4>2, <4>3, <4>4 DEF LoadsWorking
    <3> QED BY <3>3, <3>4
  <2>4. CASE ~WriteDeviceFile
    <3>1. ~clobbered /\ file' = file
      BY <1>1, <2>4 DEF MachineWrites
    <3>2. pc \in Told \/ "reloaded" \in said
      BY <1>1, <1>3, <2>4 DEF WizardWrites, Told
    <3>3. LoadsWorking
      BY <2>2, <3>1, <3>2 DEF UsedInv
    <3>4. json' = json
      <4>1. SaveCalibration => pc = "json" /\ said' = said
        BY DEF SaveCalibration, At, Quiet
      <4>2. ~SaveCalibration
        BY <3>2, <4>1 DEF UsedInv, BeforeAsk, Told
      <4> QED BY <1>1, <4>2 DEF MachineWrites
    <3>5. PathOf(Loaded(Dev).dc)' = PathOf(Loaded(Dev).dc)
      BY <1>9, <2>1, <3>1 DEF PathOf, DefaultPath
    <3> QED BY <1>9, <2>1, <3>1, <3>3, <3>4, <3>5 DEF LoadsWorking
  <2> QED BY <2>3, <2>4
<1>12. ("reloaded" \in said /\ Addressed /\ Undisturbed /\ opened => live = Working)'
  <2> SUFFICES ASSUME "reloaded" \in said', Addressed', Undisturbed', opened'
               PROVE  live' = Working'
    OBVIOUS
  <2>1. UNCHANGED <<run, mode, mac, uniq>> /\ ~clobbered' /\ job' = NoJob
    BY <1>5 DEF Undisturbed
  <2>2. ~WriteDeviceFile /\ ~SaveCalibration
    <3>1. WriteDeviceFile \/ SaveCalibration => pc \in {"device", "json"} /\ said' = said
      BY DEF WriteDeviceFile, SaveCalibration, At, Quiet
    <3> QED BY <3>1 DEF UsedInv, BeforeAsk
  <2>3. ~clobbered /\ file' = file /\ json' = json
    BY <1>1, <2>1, <2>2 DEF MachineWrites
  <2>4. LoadsWorking
    <3>1. LoadsWorking'
      BY <1>6, <1>11, <2>1
    <3>2. PathOf(Loaded(Dev).dc)' = PathOf(Loaded(Dev).dc)
      BY <1>9, <2>1, <2>3 DEF PathOf, DefaultPath
    <3> QED BY <1>9, <2>1, <2>3, <3>1, <3>2 DEF LoadsWorking
  <2>5. Working' = Working /\ Loaded(Dev).ok
    BY <2>1, <2>4 DEF Working, LoadsWorking
  <2>6. \A l : Configured(l, Loaded(Dev).dc) = Working
    BY <2>4, WorkingIs
  <2>7. CASE AskReload
    <3>1. "reloaded" \notin said
      BY <1>3, <2>7 DEF UsedInv, BeforeAsk
    <3>2. live' = Reconfigured /\ opened' = opened
      BY <2>7, <3>1 DEF AskReload, Quiet
    <3> QED BY <2>5, <2>6, <3>2 DEF Reconfigured
  <2>8. CASE DaemonOpens
    BY <2>5, <2>6, <2>8 DEF DaemonOpens
  <2>9. CASE DaemonSaves
    <3>1. live' = Configured(live, Rollback(Dev))
      BY <2>1, <2>9 DEF DaemonSaves
    <3> QED BY <2>5, <2>6, <3>1 DEF Rollback
  <2>10. CASE OthersReload
    <3>1. live' = Reconfigured /\ opened' = opened
      BY <2>10 DEF OthersReload
    <3> QED BY <2>5, <2>6, <3>1 DEF Reconfigured
  <2>11. CASE ~AskReload /\ ~DaemonOpens /\ ~DaemonSaves /\ ~OthersReload
    <3>1. live' = live /\ opened /\ job = NoJob
      BY <1>1, <2>1, <2>11 DEF MachineWrites
    <3>2. "reloaded" \in said /\ Addressed
      BY <1>1, <2>1, <2>11 DEF WizardWrites, Addressed
    <3> QED BY <2>3, <2>5, <3>1, <3>2 DEF UsedInv, Undisturbed
  <2> QED BY <2>7, <2>8, <2>9, <2>10, <2>11
<1> QED
  BY <1>4, <1>6, <1>7, <1>10, <1>11, <1>12 DEF UsedInv

LEMMA UsedInit ==
    ASSUME AsInstalled
    PROVE  SetupInit => StoreInv /\ WizardInv /\ BlobInv /\ UsedInv
<1> SUFFICES ASSUME SetupInit PROVE StoreInv /\ WizardInv /\ BlobInv /\ UsedInv
  OBVIOUS
<1>1. StoreInv /\ WizardInv
  BY StoreInit, WizardInit
<1>2. pc = "idle" /\ said = {} /\ mode = "daemon" /\ opened = FALSE
  BY DEF SetupInit
<1>3. BlobInv
  BY <1>2 DEF BlobInv
<1>4. file[Dev] \in FirstFiles \cup {Missing} /\ Missing \notin FirstFiles /\ Broken \notin FirstFiles
  BY SetupAssumption, ConfigStoreAssumption DEF SetupInit, Init
<1>5. uniq = "none" => Loaded(Dev).ok /\ Loaded(Dev).dc.airmouse /\ Loaded(Dev).dc.calib = Unset
  <2> SUFFICES ASSUME uniq = "none"
               PROVE  Loaded(Dev).ok /\ Loaded(Dev).dc.airmouse /\ Loaded(Dev).dc.calib = Unset
    OBVIOUS
  <2>0. "none" \in Uniqs
    BY DEF SetupInit
  <2>1. CASE file[Dev] = Missing
    BY <1>1, <2>1, LoadedIs DEF DeviceInit
  <2>2. CASE file[Dev] \in FirstFiles
    BY <1>1, <1>4, <2>0, <2>2, LoadedIs DEF AsInstalled
  <2> QED BY <1>4, <2>1, <2>2
<1>6. UsedInv
  BY <1>2, <1>5 DEF UsedInv, BeforeAsk, BeforeReload, Told
<1> QED BY <1>1, <1>3, <1>6

LEMMA UsedInvariant ==
    ASSUME AsInstalled
    PROVE  SetupSpec => [](StoreInv /\ WizardInv /\ BlobInv /\ UsedInv)
<1>1. SetupInit => StoreInv /\ WizardInv /\ BlobInv /\ UsedInv
  BY UsedInit
<1>2. StoreInv /\ WizardInv /\ BlobInv /\ UsedInv /\ [SetupNext]_setupVars =>
        (StoreInv /\ WizardInv /\ BlobInv /\ UsedInv)'
  BY Writers, StoreStepKeeps, WizardStepKeeps, BlobStep, UsedStep
<1> QED BY <1>1, <1>2, PTL DEF SetupSpec

\* After "The daemon reloaded the state." the remote works with this run's calibration
\* whenever the daemon has it open, through the second reload of the module, restarts of
\* the daemon, failed saves and other people's reloads.
THEOREM ReloadedMeansUsedAlways ==
    ASSUME AsInstalled
    PROVE  SetupSpec => []ReloadedMeansUsed
<1>1. UsedInv => ReloadedMeansUsed
  BY DEF UsedInv, ReloadedMeansUsed
<1> QED BY <1>1, UsedInvariant, PTL

\* A run that finishes has installed this run's calibration where the next probe of the
\* driver, or the next opening by the daemon, finds it, whatever was there before and
\* whatever happened meanwhile; the driver takes it unless the run has warned that it is
\* out of range, and then has no table.
THEOREM FinishedMeansInstalledAlways ==
    ASSUME AsInstalled
    PROVE  SetupSpec => []FinishedMeansInstalled
<1>1. WizardInv /\ BlobInv /\ UsedInv => FinishedMeansInstalled
  <2> SUFFICES ASSUME WizardInv, BlobInv, UsedInv, pc = "finished", Addressed, Undisturbed
               PROVE  IF mode = "kernel"
                      THEN NextTable = IF "refused" \in said THEN Missing ELSE run
                      ELSE Configured(Fresh, Loaded(Dev).dc) = Working
    BY DEF FinishedMeansInstalled
  <2>1. CASE mode = "kernel"
    BY <2>1, BlobMeansInstalled
  <2>2. CASE mode # "kernel"
    <3>1. mode = "daemon"
      BY <2>2 DEF WizardInv, Modes
    <3>2. LoadsWorking
      BY <3>1 DEF UsedInv, Undisturbed, Told
    <3> QED BY <2>2, <3>2, WorkingIs
  <2> QED BY <2>1, <2>2
<1> QED BY <1>1, UsedInvariant, PTL

=============================================================================
