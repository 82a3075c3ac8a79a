------------------------------- MODULE Setup -------------------------------
(***************************************************************************)
(* `lg-magic setup` (cmd_setup.c, modprobe_helpers.c), the wizard that     *)
(* makes a remote work end to end, composed with what it sets up: the      *)
(* module parameters and the driver, the kernel's calibration blobs, the   *)
(* calibration file and device file of the daemon, the daemon itself       *)
(* (ConfigStore) and the user's configuration (GlobalConfig).              *)
(*                                                                         *)
(* A run takes minutes.  Meanwhile the remote goes away and comes back,    *)
(* the daemon is stopped and started, other commands change the same       *)
(* files, and the wizard is interrupted or killed between any two steps.   *)
(* A calibration is the number of the run that made it; the recording and  *)
(* the fit only succeed or fail.  In some runs they give a calibration the *)
(* driver refuses, such as a remote that was moved: the wizard writes it   *)
(* all the same.  There is one remote.                                     *)
(***************************************************************************)
EXTENDS ConfigStore, GlobalConfig

CONSTANTS
    Dev,            \* the identity under which the daemon knows the remote
    Uniqs,          \* what the kernel reports as its address: "mac", "none"
    Nodes,          \* hidraw nodes
    OwnPath, UnknownPath, EtcPath,   \* the calibration paths the wizard uses
    Root, User,     \* HOME of the wizard, and of the person who ran sudo
    CalibKey, TuningKey,             \* the keys the wizard saves
    Tunings,        \* the answers to its questions
    OutOfRange,     \* the runs whose calibration the driver's range checks refuse
    FirstConfigs,   \* the configuration files there may be at first
    MaxEvents       \* bound: runs of the wizard and things others do meanwhile

ASSUME SetupAssumption ==
    /\ Dev \in Ids
    /\ Uniqs \subseteq {"mac", "none"}
    /\ {Missing, Broken} \cap Nat = {}
    /\ OwnPath \in Paths /\ {Root, User} \subseteq Homes
    /\ CalibKey \in StrKeys /\ {OwnPath, UnknownPath, EtcPath} \subseteq Strings
    /\ TuningKey \in NumKeys /\ Tunings \subseteq Numbers \cup {NotFinite}
    /\ OutOfRange \subseteq Nat
    /\ \A first \in FirstConfigs : first[1] \in [{Sys} \cup Homes -> Files]
    /\ MaxEvents \in Nat

VARIABLES
    uniq, on, node,     \* the remote: its address, whether it is connected, and where
    conf,               \* /etc/modprobe.d/lg-magic.conf
    driver,             \* "absent", or the parameters the module was loaded with
    table,              \* the calibration the driver read at its last probe
    blob,               \* the blobs in /lib/firmware
    json,               \* the calibration files
    opened,             \* the daemon has opened the remote
    live,               \* calibration and air mouse of its pipeline
    clobbered,          \* history: the daemon has written the device file since the wizard
    pc, run, mode,      \* the wizard: its step, the number of the run, the mode chosen
    path, mac,          \* the hidraw node it found, and whether it read an address there
    cfg,                \* g_cfg
    said,               \* what it has told the user in this run
    upsets              \* how much others have done

remoteVars == <<uniq, on, node>>
driverVars == <<conf, driver, table>>
calibVars == <<blob, json>>
daemonVars == <<vars, opened, live, clobbered>>
wizardVars == <<run, mode, path, mac, cfg, said>>
setupVars == <<remoteVars, driverVars, calibVars, daemonVars, configVars, wizardVars, pc, upsets>>

Modes == {"daemon", "kernel"}
Ended == {"idle", "finished", "failed", "killed"}
Runs == 0..MaxEvents
MoreMayHappen == run + upsets < MaxEvents

Fresh == [cal |-> Missing, mouse |-> FALSE]
DaemonDrops == opened' = FALSE /\ live' = Fresh

----------------------------------------------------------------------------
(* The driver. *)

Params == IF conf \in Modes THEN conf ELSE "default"

\* Both modes ask for the IMU's event device; the defaults do not.
ImuNode == on /\ driver \in Modes

\* lgmagic_load_fw: a blob that is too short or fails the range checks leaves the table
\* empty, and is not an error.
Refused(b) == b = Broken \/ b \in OutOfRange
TableOf(b) == IF Refused(b) THEN Missing ELSE b

\* lgmagic_probe: the blob of the remote's own address if there is one, whatever it holds.
NextTable == IF uniq = "mac" /\ blob.own # Missing THEN TableOf(blob.own) ELSE TableOf(blob.generic)

\* modprobe, which probes a connected remote and makes its nodes anew.
LoadDriver(m) ==
    /\ driver' = m
    /\ table' = IF on THEN NextTable ELSE Missing
    /\ IF on THEN node' \in Nodes ELSE UNCHANGED node
    /\ UNCHANGED <<uniq, on, conf>>

\* rmmod: the remote's nodes go away and the daemon drops it.
Unloads ==
    /\ driver' = "absent" /\ table' = Missing
    /\ DaemonDrops
    /\ UNCHANGED <<remoteVars, conf>>

----------------------------------------------------------------------------
(* The daemon. *)

DefaultPath == IF uniq = "mac" THEN OwnPath ELSE UnknownPath
PathOf(c) == OrElse(c.calib, DefaultPath)

\* pipeline_configure: without a readable calibration the rest stays as it is.
Configured(l, c) ==
    IF json[PathOf(c)] \in Runs THEN [cal |-> json[PathOf(c)], mouse |-> c.airmouse] ELSE l

Reconfigured == IF opened /\ Loaded(Dev).ok THEN Configured(live, Loaded(Dev).dc) ELSE live

DaemonOpens ==
    /\ ~opened /\ on /\ driver # "absent"
    /\ Reopen(Dev)
    /\ opened' = TRUE
    /\ live' = Configured(Fresh, Loaded(Dev).dc)
    /\ UNCHANGED <<remoteVars, driverVars, calibVars, clobbered, configVars, wizardVars, pc, upsets>>

\* The rename of a bus call, or its failure.
DaemonSaves ==
    /\ \/ CommitDevice /\ live' = Configured(live, dc[Dev]) /\ clobbered' = TRUE
       \/ WriteFails /\ live' = Configured(live, Rollback(Dev)) /\ UNCHANGED clobbered
    /\ UNCHANGED <<remoteVars, driverVars, calibVars, opened, configVars, wizardVars, pc, upsets>>

----------------------------------------------------------------------------
(* The wizard.  Each step names the next one; a step that fails ends the run. *)

wizardRest == <<run, mode, path, mac, cfg>>

At(step) == pc = step
Then(step) == pc' = step /\ UNCHANGED <<upsets, wizardRest>>
Quiet == UNCHANGED said
Says(what) == said' = said \cup {what}
Fails == Then("failed")

\* main: the configuration of root's HOME is loaded, once for the whole run.
Start ==
    /\ pc \in Ended /\ MoreMayHappen
    /\ run' = run + 1
    /\ cfg' = LoadCfg(Root, NoFile)
    /\ said' = {}
    /\ pc' = IF driver = "absent" THEN "load" ELSE "find"
    /\ UNCHANGED <<mode, path, mac, upsets, remoteVars, driverVars, calibVars, daemonVars, configVars>>

\* Step 1: the module is loaded if it is not; a failure is only a warning.
LoadModule ==
    /\ At("load")
    /\ LoadDriver(Params) \/ UNCHANGED <<remoteVars, driverVars>>
    /\ Then("find") /\ Quiet
    /\ UNCHANGED <<calibVars, daemonVars, configVars>>

\* The IMU's event device, then the first hidraw node that is a remote.
FindDevices ==
    /\ At("find")
    /\ IF ImuNode
       THEN path' = node /\ pc' = "mode" /\ Quiet
       ELSE UNCHANGED path /\ pc' = "failed" /\ (IF on THEN Says("no IMU") ELSE Quiet)
    /\ UNCHANGED <<run, mode, mac, cfg, upsets, remoteVars, driverVars, calibVars, daemonVars, configVars>>

\* Step 2.
AskMode ==
    /\ At("mode")
    /\ mode' \in Modes
    /\ pc' = "conf"
    /\ UNCHANGED <<run, path, mac, cfg, said, upsets>>
    /\ UNCHANGED <<remoteVars, driverVars, calibVars, daemonVars, configVars>>

\* Faulty: the module is reloaded with whatever is there.
OnToReload == "unload"
\* Without the parameter file nothing is reloaded and no daemon enabled.
SkipsReload == "open"

\* Step 3.
WriteConf ==
    /\ At("conf")
    /\ \/ conf' = mode /\ Then("unload")
       \/ conf' \in {conf, "torn"} /\ Then(SkipsReload)
    /\ Quiet
    /\ UNCHANGED <<remoteVars, driver, table, calibVars, daemonVars, configVars>>

\* module_reload in steps 3 and 9 is rmmod, then modprobe.
After(step) == CASE step = "unload" -> "reload" [] step = "reload" -> "enable"
                 [] step = "unload9" -> "reload9" [] step = "reload9" -> "save"

\* rmmod fails when something holds the module, or it is not loaded.
Unload(step) ==
    /\ At(step)
    /\ \/ driver # "absent" /\ Unloads /\ Then(After(step))
       \/ UNCHANGED <<driver, table, opened, live, remoteVars, conf>> /\ Then(After(After(step)))
    /\ Quiet
    /\ UNCHANGED <<calibVars, vars, clobbered, configVars>>

Modprobe(step) ==
    /\ At(step)
    /\ \/ LoadDriver(Params) /\ (IF step = "reload" THEN Says("parameters") ELSE Quiet)
       \/ UNCHANGED <<remoteVars, driverVars>> /\ Quiet
    /\ Then(After(step))
    /\ UNCHANGED <<calibVars, daemonVars, configVars>>

\* systemctl enable --now, in daemon mode.
Enable ==
    /\ At("enable")
    /\ \/ mode = "daemon" /\ Restart
       \/ UNCHANGED vars
    /\ Then("open") /\ Quiet
    /\ UNCHANGED <<remoteVars, driverVars, calibVars, opened, live, clobbered, configVars>>

\* The nodes may be new: the IMU is looked for again, the hidraw node is not.  The
\* run also fails here when a directory cannot be made.
ReopenDevices ==
    /\ At("open")
    /\ \/ ImuNode /\ mac' = (node = path /\ uniq = "mac") /\ pc' = "record"
       \/ pc' = "failed" /\ UNCHANGED mac
    /\ UNCHANGED <<run, mode, path, cfg, said, upsets>>
    /\ UNCHANGED <<remoteVars, driverVars, calibVars, daemonVars, configVars>>

\* Where this run's calibration goes.
Place == IF mac THEN OwnPath ELSE IF mode = "daemon" THEN UnknownPath ELSE EtcPath

\* Faulty: the device file comes first.
DeviceFileFirst == <<"device", "json", "ask">>
\* Step 8: the calibration, then the device file that names it, then Reload.
StateSteps == <<"json", "device", "ask">>
NextState(step) == StateSteps[CHOOSE i \in 2..3 : StateSteps[i - 1] = step]

\* Steps 4 to 6: the recordings, the fit, the questions.
FirstFile == IF mode = "daemon" THEN StateSteps[1] ELSE IF mac THEN "blob" ELSE "generic"
Record ==
    /\ At("record")
    /\ Fails \/ (ImuNode /\ Then(FirstFile))
    /\ Quiet
    /\ UNCHANGED <<remoteVars, driverVars, calibVars, daemonVars, configVars>>

\* What a file holds when its writing fails: as before, or what fopen and a short
\* write have left of it.
Spoilt(old) == {old, Broken}

\* A calibration that calib_validate_blob refuses, with the driver's checks, is announced
\* ("writing it anyway") and written.
Warns == IF run \in OutOfRange THEN Says("refused") ELSE Quiet

\* Step 7, in kernel mode: the remote's own blob when its address is known, then the
\* generic one.
WriteBlob(step, name, next) ==
    /\ At(step)
    /\ \/ blob' = [blob EXCEPT ![name] = run] /\ Then(next)
       \/ \E b \in Spoilt(blob[name]) : blob' = [blob EXCEPT ![name] = b] /\ Fails
    /\ Warns
    /\ UNCHANGED <<remoteVars, driverVars, json, daemonVars, configVars>>

\* Faulty: only the blob that every remote falls back to is written.
GenericTwice == WriteBlob("blob", "generic", "generic")
OwnBlob == WriteBlob("blob", "own", "generic")
GenericBlob == WriteBlob("generic", "generic", StateSteps[1])

SaveCalibration ==
    /\ At("json")
    /\ \/ json' = [json EXCEPT ![Place] = run] /\ Then(NextState("json"))
       \/ \E j \in Spoilt(json[Place]) : json' = [json EXCEPT ![Place] = j] /\ Fails
    /\ Quiet
    /\ UNCHANGED <<remoteVars, driverVars, blob, daemonVars, configVars>>

\* The device file of a run, which has no profiles of its own.
DeviceFile == [DeviceInit EXCEPT !.airmouse = (mode = "daemon"), !.calib = Place]

\* Faulty: a device file that is there is kept.
KeepsDeviceFile == mac /\ file[Dev] = Missing
\* One is written when the address is known.
HasDeviceFile == mac

\* Written where it is.  An empty file loads as the defaults.
WriteDeviceFile ==
    /\ At("device")
    /\ \/ ~HasDeviceFile /\ UNCHANGED <<file, clobbered>> /\ Then(NextState("device"))
       \/ /\ HasDeviceFile /\ clobbered' = FALSE
          /\ \/ file' = [file EXCEPT ![Dev] = DeviceFile] /\ Then(NextState("device"))
             \/ \E f \in Spoilt(file[Dev]) \cup {DeviceInit} :
                   file' = [file EXCEPT ![Dev] = f] /\ Fails
    /\ Quiet
    /\ UNCHANGED <<stateFile, up, dc, running, job, edited, spoiled, opened, live>>
    /\ UNCHANGED <<remoteVars, driverVars, calibVars, configVars>>

\* The Reload call to the daemon, in daemon mode: done and acknowledged; done but the
\* answer is lost; or not done.
AskReload ==
    /\ At("ask")
    /\ \/ /\ mode = "daemon" /\ Reload
          /\ live' = Reconfigured
          /\ Says("reloaded") \/ Quiet
       \/ UNCHANGED <<vars, live>> /\ Quiet
    /\ Then("unload9")
    /\ UNCHANGED <<remoteVars, driverVars, calibVars, opened, clobbered, configVars>>

\* Step 11: what was loaded at the start, with this run's values, into the home of
\* the person who ran sudo; a failure is only a warning.
SaveConfig ==
    /\ At("save")
    /\ \E v \in Tunings :
          LET c == [cfg EXCEPT ![CalibKey] = Place, ![TuningKey] = v]
          IN  \/ SaveUser(User, c) /\ Says("saved")
              \/ SaveFails(User, c) /\ Quiet
    /\ Then("finished")
    /\ UNCHANGED <<remoteVars, driverVars, calibVars, daemonVars>>

WizardStep ==
    \/ LoadModule \/ FindDevices \/ AskMode \/ WriteConf
    \/ \E step \in {"unload", "unload9"} : Unload(step)
    \/ \E step \in {"reload", "reload9"} : Modprobe(step)
    \/ Enable \/ ReopenDevices \/ Record \/ OwnBlob \/ GenericBlob
    \/ SaveCalibration \/ WriteDeviceFile \/ AskReload \/ SaveConfig

----------------------------------------------------------------------------
(* What others do meanwhile. *)

Upset == MoreMayHappen /\ upsets' = upsets + 1

\* ^C where the wizard looks at it, or SIGKILL.
Kill ==
    /\ pc \notin Ended
    /\ Upset
    /\ pc' = "killed"
    /\ UNCHANGED <<remoteVars, driverVars, calibVars, daemonVars, configVars, wizardVars>>

RemoteLeaves ==
    /\ on /\ Upset
    /\ on' = FALSE /\ table' = Missing /\ DaemonDrops
    /\ UNCHANGED <<uniq, node, conf, driver, calibVars, vars, clobbered, configVars, wizardVars, pc>>

RemoteComes ==
    /\ ~on
    /\ on' = TRUE /\ node' \in Nodes
    /\ table' = IF driver = "absent" THEN Missing ELSE NextTable
    /\ UNCHANGED <<uniq, conf, driver, calibVars, daemonVars, configVars, wizardVars, pc, upsets>>

\* rmmod and modprobe by hand, or a reboot: as the wizard advises.
Replug ==
    /\ Upset
    /\ LoadDriver(Params)
    /\ DaemonDrops
    /\ UNCHANGED <<calibVars, vars, clobbered, configVars, wizardVars, pc>>

DaemonStops ==
    /\ Stop /\ Upset
    /\ DaemonDrops
    /\ UNCHANGED <<remoteVars, driverVars, calibVars, clobbered, configVars, wizardVars, pc>>

DaemonStarts ==
    /\ Restart
    /\ UNCHANGED <<remoteVars, driverVars, calibVars, opened, live, clobbered, configVars, wizardVars, pc, upsets>>

\* Another client of the daemon: any write method saves the record in memory.
ClientCalls ==
    /\ opened /\ Upset
    /\ ResetButtons(Dev) \/ \E p \in Paths \ {OwnPath} : SetCalibPath(Dev, p)
    /\ UNCHANGED <<remoteVars, driverVars, calibVars, opened, live, clobbered, configVars, wizardVars, pc>>

\* SIGHUP, or somebody else's Reload.
OthersReload ==
    /\ Reload /\ Upset
    /\ live' = Reconfigured
    /\ UNCHANGED <<remoteVars, driverVars, calibVars, opened, clobbered, configVars, wizardVars, pc>>

\* lg-magic config, in another terminal.
OthersConfigure ==
    /\ Upset
    /\ \/ \E home \in Homes, k \in CfgKeys, v \in Offered : ConfigSet(home, NoFile, k, v)
       \/ \E home \in Homes : Migrate(home)
    /\ UNCHANGED <<remoteVars, driverVars, calibVars, daemonVars, wizardVars, pc>>

Others ==
    \/ Kill \/ RemoteLeaves \/ RemoteComes \/ Replug
    \/ DaemonOpens \/ DaemonSaves \/ DaemonStops \/ DaemonStarts
    \/ ClientCalls \/ OthersReload \/ OthersConfigure

----------------------------------------------------------------------------

\* A machine as it may be found: the parameters set by hand or not at all; blobs of
\* an earlier release (calibration 0) or none.
SetupInit ==
    /\ Init
    /\ uniq \in Uniqs /\ on = TRUE /\ node = CHOOSE n \in Nodes : TRUE
    /\ conf \in {"daemon", "none"} /\ driver \in {"absent", Params}
    /\ \E b \in {Missing, 0} : blob = [own |-> b, generic |-> b]
    /\ table = IF driver = "absent" THEN Missing ELSE NextTable
    /\ json = [p \in Paths \cup {UnknownPath, EtcPath} |-> Missing]
    /\ opened = FALSE /\ live = Fresh /\ clobbered = FALSE
    /\ \E first \in FirstConfigs : toml = first[1] /\ v1 = first[2]
    /\ saved = [home \in Homes |-> NotGiven]
    /\ pc = "idle" /\ run = 0 /\ mode = "daemon" /\ path = node /\ mac = FALSE
    /\ cfg = Defaults /\ said = {} /\ upsets = 0

SetupNext == Start \/ WizardStep \/ Others

SetupSpec == SetupInit /\ [][SetupNext]_setupVars

----------------------------------------------------------------------------
(* Properties. *)

\* The wizard knows which remote it is calibrating, or the remote has no address.
\* It does not when the nodes were renumbered by the reload in step 3.
Addressed == mac \/ uniq = "none"

\* Nobody's bus call has replaced, or is replacing, the device file.
Undisturbed == ~clobbered /\ job = NoJob

Working == [cal |-> run, mouse |-> TRUE]

\* After "The daemon reloaded the state." the daemon drives the remote with this
\* run's calibration whenever it has it open, although the module is reloaded and
\* the remote dropped afterwards, and through restarts of the daemon.
ReloadedMeansUsed ==
    "reloaded" \in said /\ Addressed /\ Undisturbed /\ opened => live = Working

\* A run that ends with 0 has left this run's calibration where the next probe of
\* the driver, or the next opening by the daemon, finds it, whatever was installed
\* before it ("After it finishes, the remote works end to end", cmd_setup.c).  In kernel
\* mode, unless it has warned: then it is this run's calibration that the driver finds
\* and refuses, and neither an older one nor the generic one takes its place ("the kernel
\* disables the airmouse if it rejects it").
FinishedMeansInstalled ==
    pc = "finished" /\ Addressed /\ Undisturbed =>
        IF mode = "kernel"
        THEN NextTable = IF "refused" \in said THEN Missing ELSE run
        ELSE Configured(Fresh, Loaded(Dev).dc) = Working

\* After "Module reloaded with the new parameters." the driver is never seen with
\* others: in step 9, and when somebody reloads it, it comes back in the mode chosen
\* or does not come back.
ModuleRunsMode == "parameters" \in said => driver \in {"absent", mode}

\* Wherever a run fails or is killed, the device file never names a calibration that
\* was not written before it.
DeviceFileNamesCalibration ==
    file[Dev] \notin {Missing, Broken} /\ file[Dev].calib = OwnPath => json[OwnPath] # Missing

\* "Step 2 fixes the parameters if it is missing" (cmd_setup.c): a run that misses
\* the IMU has at least set the parameters that make it appear.
MissingImuIsFixed == "no IMU" \in said => conf \in Modes

=============================================================================
