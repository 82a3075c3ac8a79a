---------------------------- MODULE KernelDriver ----------------------------
(***************************************************************************)
(* The HID driver (kernel/lg_magic_main.c): probing one remote, and the    *)
(* reports it sends until it is switched off.                              *)
(*                                                                         *)
(* The module parameters are plain ints that a root shell may write at any *)
(* moment, between two of the handler's reads of them as well: raw_event   *)
(* is one action for each stretch that reads a parameter.  HID keeps       *)
(* reports out of probe and remove.  A report is the state of the button,  *)
(* the wheel's step, and whether the filtered gyro passes the threshold.   *)
(* The input core ignores a key that is reported in the state it is in.    *)
(***************************************************************************)
EXTENDS Integers

CONSTANTS
    Buttons,     \* the button codes a remote sends, 0 excepted
    Keys,        \* keycodes
    NoButton,    \* btn_code 0
    NoKey,       \* keycode 0
    KeyOf,       \* lg_btn_map: the first keycode of each code, or NoKey
    WheelButton, \* LGMAGIC_CODE_WHEEL
    BtnLeft, KeyUp, KeyDown

ASSUME KernelDriverAssumption ==
    /\ KeyOf \in [Buttons -> Keys \cup {NoKey}]
    /\ NoButton \notin Buttons
    /\ NoKey \notin Keys
    /\ WheelButton \in Buttons
    /\ {BtnLeft, KeyUp, KeyDown} \subseteq Keys

VARIABLES
    rawOnly, airmouse, imuEvdev,   \* the module parameters
    bound,      \* "no", "keyboard" (registered, IMU not yet), or "yes"
    imuNode,    \* the IMU is registered
    calib,      \* the table in drvdata: "none" (zeroed), "own", "generic", "bad"
    lastBtn,    \* drvdata->last_btncode
    lastKey,    \* drvdata->last_keycode
    mode,       \* drvdata->mode
    kdown,      \* the keys that are down on "LG Magic Remote"
    pc,         \* where raw_event is: "idle", "wheel", "pointer", "gyro" or "imu"
    rep,        \* the rest of the report it is handling
    rawSince    \* history: raw_only has been set since the held button was pressed

params == <<rawOnly, airmouse, imuEvdev>>
probeVars == <<bound, imuNode, calib>>
vars == <<params, probeVars, lastBtn, lastKey, mode, kdown, pc, rep, rawSince>>

Blobs == {"absent", "short", "invalid", "good"}
Calibs == {"none", "own", "generic", "bad"}
Report == [wheel : {-1, 0, 1}, big : BOOLEAN]
NoReport == [wheel |-> 0, big |-> FALSE]

----------------------------------------------------------------------------
(* Probe and remove. *)

\* Faulty: the table is used as it was read.
Unchecked(blob, name) == IF blob \in {"good", "invalid"} THEN
                             (IF blob = "good" THEN name ELSE "bad") ELSE "none"
\* lgmagic_load_fw: a table that does not validate is zeroed.
Checked(blob, name) == IF blob = "good" THEN name ELSE "none"

\* The remote's own blob, or the generic one when there is no such file; a file that
\* is too short or invalid also counts as loaded.
LoadCalib(mac, own, generic) ==
    IF mac /\ own # "absent" THEN Checked(own, "own") ELSE Checked(generic, "generic")

\* Up to the keyboard's registration; mac says whether hdev->uniq has 17 characters.
Probe(mac, own, generic) ==
    /\ bound = "no"
    /\ bound' = "keyboard"
    /\ calib' = LoadCalib(mac, own, generic)
    /\ imuNode' = FALSE
    /\ lastBtn' = NoButton /\ lastKey' = NoKey /\ mode' = FALSE /\ kdown' = {}
    /\ UNCHANGED <<params, pc, rep, rawSince>>

\* The IMU is allocated, and registered if something wants it now.
ProbeImu ==
    /\ bound = "keyboard"
    /\ bound' = "yes"
    /\ imuNode' = (imuEvdev \/ rawOnly)
    /\ UNCHANGED <<params, calib, lastBtn, lastKey, mode, kdown, pc, rep, rawSince>>

\* The remote is switched off; the input core releases what is down.
Remove ==
    /\ bound = "yes" /\ pc = "idle"
    /\ bound' = "no"
    /\ imuNode' = FALSE
    /\ kdown' = {}
    /\ UNCHANGED <<params, calib, lastBtn, lastKey, mode, pc, rep, rawSince>>

\* A write to /sys/module/lg_magic/parameters.
SetParam ==
    /\ \/ rawOnly' = ~rawOnly /\ UNCHANGED <<airmouse, imuEvdev>>
       \/ airmouse' = ~airmouse /\ UNCHANGED <<rawOnly, imuEvdev>>
       \/ imuEvdev' = ~imuEvdev /\ UNCHANGED <<rawOnly, airmouse>>
    /\ rawSince' = (rawSince /\ rawOnly')
    /\ UNCHANGED <<probeVars, lastBtn, lastKey, mode, kdown, pc, rep>>

----------------------------------------------------------------------------
(* lgmagic_raw_event. *)

\* Faulty: the scan runs past the end of the table.
LookupPastEnd(b) == IF b = NoButton THEN NoKey ELSE IF KeyOf[b] = NoKey THEN b ELSE KeyOf[b]
Lookup(b) == IF b = NoButton THEN NoKey ELSE KeyOf[b]

\* The wheel button is the mouse button while the air mouse is on.
Clicks(b) == b = WheelButton /\ mode /\ ~rawOnly
KeyFor(b) == IF Clicks(b) THEN BtnLeft ELSE Lookup(b)

\* Faulty: what is released is what the button would be reported as now.
LookedUpAgain == KeyFor(lastBtn)
ReleasedKey == lastKey

\* A new button code releases the last key and presses its own, if it has one; any
\* button but a click ends air-mouse mode.
ButtonChange(b, r) ==
    /\ bound = "yes" /\ pc = "idle"
    /\ IF b = lastBtn
       THEN UNCHANGED <<lastBtn, lastKey, mode, kdown, rawSince>>
       ELSE LET key == IF Lookup(b) = NoKey THEN NoKey ELSE KeyFor(b)
            IN  /\ lastBtn' = b
                /\ lastKey' = key
                /\ mode' = (mode /\ (key = NoKey \/ Clicks(b)))
                /\ kdown' = (kdown \ {ReleasedKey}) \cup ({key} \ {NoKey})
                /\ rawSince' = rawOnly
    /\ rep' = r
    /\ pc' = "wheel"
    /\ UNCHANGED <<params, probeVars>>

\* Faulty: raw_only is forgotten.
ModeScrolls == mode
WheelScrolls == rawOnly \/ mode

\* The wheel is scrolled, or emulates KEY_UP and KEY_DOWN: pressed, and released.
Wheel ==
    /\ pc = "wheel"
    /\ kdown' = IF rep.wheel = 0 \/ WheelScrolls THEN kdown
                ELSE kdown \ {IF rep.wheel > 0 THEN KeyUp ELSE KeyDown}
    /\ pc' = "pointer"
    /\ UNCHANGED <<params, probeVars, lastBtn, lastKey, mode, rep, rawSince>>

\* The gyro is looked at if airmouse is set and, read a moment later, raw_only is not.
Pointer ==
    /\ pc = "pointer"
    /\ pc' = IF airmouse THEN "gyro" ELSE "imu"
    /\ UNCHANGED <<params, probeVars, lastBtn, lastKey, mode, kdown, rep, rawSince>>

\* A big move switches air-mouse mode on.  With a zeroed table the filter stays at
\* zero and no move is big.
Gyro ==
    /\ pc = "gyro"
    /\ mode' = (mode \/ (~rawOnly /\ rep.big /\ calib # "none"))
    /\ pc' = "imu"
    /\ UNCHANGED <<params, probeVars, lastBtn, lastKey, kdown, rep, rawSince>>

\* The IMU's axes, when anybody wants them: no state of the driver changes.
Imu ==
    /\ pc = "imu"
    /\ pc' = "idle"
    /\ rep' = NoReport
    /\ UNCHANGED <<params, probeVars, lastBtn, lastKey, mode, kdown, rawSince>>

----------------------------------------------------------------------------

Init ==
    /\ rawOnly = TRUE /\ airmouse = TRUE /\ imuEvdev = FALSE
    /\ bound = "no" /\ imuNode = FALSE /\ calib = "none"
    /\ lastBtn = NoButton /\ lastKey = NoKey /\ mode = FALSE
    /\ kdown = {}
    /\ pc = "idle" /\ rep = NoReport /\ rawSince = TRUE

RawEvent ==
    \/ \E b \in Buttons \cup {NoButton}, r \in Report : ButtonChange(b, r)
    \/ Wheel \/ Pointer \/ Gyro \/ Imu

Next ==
    \/ \E mac \in BOOLEAN, own, generic \in Blobs : Probe(mac, own, generic)
    \/ ProbeImu \/ Remove \/ SetParam
    \/ RawEvent

Spec == Init /\ [][Next]_vars

----------------------------------------------------------------------------
(* Properties. *)

TypeOK ==
    /\ rawOnly \in BOOLEAN /\ airmouse \in BOOLEAN /\ imuEvdev \in BOOLEAN
    /\ bound \in {"no", "keyboard", "yes"} /\ imuNode \in BOOLEAN /\ calib \in Calibs
    /\ lastBtn \in Buttons \cup {NoButton} /\ lastKey \in Keys \cup {NoKey}
    /\ mode \in BOOLEAN
    /\ kdown \subseteq Keys
    /\ pc \in {"idle", "wheel", "pointer", "gyro", "imu"}
    /\ rep \in Report
    /\ rawSince \in BOOLEAN

\* The keycodes a button may be reported as.
Reported(b) ==
    ({Lookup(b)} \cup (IF b = WheelButton THEN {BtnLeft} ELSE {})) \ {NoKey}

\* A key that is down is the one the button held now was pressed as, whatever became
\* of the mode and the parameters since: nothing stays down behind a release, and a
\* wheel button pressed as a click is released as one.
OnlyHeldKeyDown == kdown \subseteq {lastKey} \cap Reported(lastBtn)

\* And the key of the held button is down, until the button changes.  Outside raw mode
\* the wheel may have released an UP or a DOWN that is held, by emulating it; in raw
\* mode it is "never key emulation" (comment in raw_event), so if raw_only has been set
\* since the press they are down too.
HeldKeyIsDown ==
    bound # "no" /\ lastKey # NoKey /\ (rawSince \/ lastKey \notin {KeyUp, KeyDown})
        => lastKey \in kdown

\* Air-mouse mode, and with it clicks and pointer motion, is entered only on the
\* strength of a validated table ("Calibration table isn't valid. Airmouse disabled").
ModeNeedsCalibration == mode => calib \in {"own", "generic"}

=============================================================================
