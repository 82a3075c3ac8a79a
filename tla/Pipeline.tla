------------------------------ MODULE Pipeline ------------------------------
(***************************************************************************)
(* The frame pipeline of one remote (tools/src/daemon_pipeline.c): key     *)
(* events through the button map with the table of held keys, wheel        *)
(* notches through the fractional accumulator, IMU frames through the      *)
(* calibration and the air mouse, and pipeline_configure, which replaces   *)
(* the configuration while keys are down.                                  *)
(*                                                                         *)
(* One action is one key event, one wheel value, one IMU frame or one call *)
(* of pipeline_configure; the daemon has a single thread, so no two of     *)
(* them overlap.  The environment is the person holding the remote, the    *)
(* evdev buffer, which may drop events when the daemon does not read in    *)
(* time (SYN_DROPPED is not handled by evdev_read_frame_ext), and whoever  *)
(* replaces the calibration file.  The virtual keyboard is the kernel's    *)
(* input core: it keeps the set of keys that are down, and an autorepeat   *)
(* does not change it.                                                     *)
(***************************************************************************)
EXTENDS Profiles, Sequences, FiniteSets

CONSTANTS
    Configs,      \* the device configurations the daemon may load or be given
    Calibs,       \* the calibrations a readable calibration file may hold
    Unreadable,   \* a calibration file that is missing or does not parse
    Identity,     \* calib_init_identity
    GlobalAlphas, \* lpf_alpha of the global configuration
    MaxHeld,      \* size of the held-key table (32)
    MaxDown,      \* how many keys the person may hold at once
    Notches,      \* wheel values a frame may carry
    Repeats       \* whether the keyboard node sends autorepeat events

ASSUME PipelineAssumption ==
    /\ Scrolls \cup Senses \subseteq Int
    /\ Configs \subseteq DeviceConfig
    /\ Unreadable \notin Calibs /\ Identity \notin Calibs
    /\ GlobalAlphas \subseteq Alphas
    /\ MaxHeld \in Nat
    /\ MaxDown \in Nat
    /\ Notches \subseteq Int
    /\ Repeats \in BOOLEAN
    /\ Absent \notin Keys /\ IsFiniteSet(Keys)

VARIABLES
    phys,       \* the keys that are down on the remote
    held,       \* p->held[0 .. nheld-1]
    vdown,      \* the keys that are down on the virtual keyboard
    active,     \* p->active, the resolved profile
    want,       \* r->dc, the configuration the remote is meant to run
    accum,      \* p->wheel_accum, in 1/Unit click
    clicks,     \* the clicks the last wheel frame emitted
    calfile,    \* what the calibration file holds now
    cal,        \* p->cal and p->have_cal
    am,         \* p->am
    airmouseOn, \* p->airmouse_on
    galpha,     \* lpf_alpha of the global configuration last configured with
    motion,     \* what the last pointer motion was computed with
    lost,       \* history: keys with an undelivered event since their last one
    spilled     \* history: virtual keys pressed while the table was full

keyVars == <<phys, held, vdown, lost, spilled>>
wheelVars == <<accum, clicks>>
imuVars == <<cal, am, airmouseOn, motion>>
confVars == <<active, want, galpha>>
vars == <<keyVars, wheelVars, imuVars, confVars, calfile>>

Pin == [phys : Keys, virt : Keys]
Scales == Senses \cup {DefaultSens, 0}
NoMotion == [cal |-> Identity, scale |-> 0]

----------------------------------------------------------------------------
(* The held-key table. *)

HeldAtShort(k) == {i \in 1..(Len(held) - 1) : held[i].phys = k}   \* faulty: misses the last
HeldAt(k) == {i \in 1..Len(held) : held[i].phys = k}

\* The scan keeps the last entry that matches.
HeldIndex(k) == CHOOSE i \in HeldAt(k) : \A j \in HeldAt(k) : j <= i

\* held[i] = held[nheld - 1]; nheld--
DropLast(i) == [j \in 1..(Len(held) - 1) |-> held[j]]   \* faulty: the wrong entry goes
SwapRemove(i) ==
    [j \in 1..(Len(held) - 1) |-> IF j = i THEN held[Len(held)] ELSE held[j]]

HeldVirts == {held[i].virt : i \in 1..Len(held)}

\* Room for one more pinned key.
FitsLate == Len(held) <= MaxHeld   \* faulty: off by one
Fits == Len(held) < MaxHeld

\* What one event does to the keys that are down on the virtual keyboard.
VirtualKeys(code, value) ==
    CASE value = 0 -> vdown \ {code}
      [] value = 1 -> vdown \cup {code}
      [] OTHER -> vdown

\* pipeline_keyboard for one event of the frame: a key in the table keeps the
\* code it was pressed as; any other key is mapped now, and entered in the table
\* unless this is a release or the table is full.
KeyEvent(k, value) ==
    LET tracked == HeldAt(k) # {}
        to == IF tracked THEN held[HeldIndex(k)].virt ELSE active.map[k]
    IN  /\ held' = IF tracked
                   THEN IF value = 0 THEN SwapRemove(HeldIndex(k)) ELSE held
                   ELSE IF value # 0 /\ Fits
                        THEN Append(held, [phys |-> k, virt |-> to])
                        ELSE held
        /\ vdown' = VirtualKeys(to, value)
        /\ spilled' = IF value = 0 THEN spilled \ {to}
                      ELSE IF tracked \/ Fits THEN spilled ELSE spilled \cup {to}
        /\ lost' = lost \ {k}
        /\ UNCHANGED <<wheelVars, imuVars, confVars, calfile>>

Press(k) ==
    /\ k \notin phys
    /\ Cardinality(phys) < MaxDown
    /\ phys' = phys \cup {k}
    /\ KeyEvent(k, 1)

Release(k) ==
    /\ k \in phys
    /\ phys' = phys \ {k}
    /\ KeyEvent(k, 0)

Repeat(k) ==
    /\ Repeats
    /\ k \in phys
    /\ KeyEvent(k, 2)
    /\ UNCHANGED phys

\* The evdev buffer overran: the key moved but the event never arrives.
LoseEvent(k) ==
    /\ \/ k \in phys /\ phys' = phys \ {k}
       \/ k \notin phys /\ Cardinality(phys) < MaxDown /\ phys' = phys \cup {k}
    /\ lost' = lost \cup {k}
    /\ UNCHANGED <<held, vdown, spilled, wheelVars, imuVars, confVars, calfile>>

----------------------------------------------------------------------------
(* The wheel. *)

\* The C cast of a double to int: towards zero.
WholeClicks(x) == IF x >= 0 THEN x \div Unit ELSE -((-x) \div Unit)

KeepSum(x) == x   \* faulty: emitted clicks are not taken off
Remainder(x) == x - Unit * WholeClicks(x)

Wheel(n) ==
    /\ n # 0
    /\ clicks' = WholeClicks(accum + n * active.scroll)
    /\ accum' = Remainder(accum + n * active.scroll)
    /\ UNCHANGED <<keyVars, imuVars, confVars, calfile>>

----------------------------------------------------------------------------
(* The air mouse. *)

\* pipeline_imu: nothing while the air mouse is off, else one motion computed
\* with the calibration (identity readings when none was loaded) and the scale.
ImuFrame ==
    /\ airmouseOn
    /\ motion' = [cal |-> cal, scale |-> am.scale]
    /\ UNCHANGED <<keyVars, wheelVars, cal, am, airmouseOn, confVars, calfile>>

----------------------------------------------------------------------------
(* Configuration. *)

FilterAlpha(a, global) == IF a.hasLpf THEN a.lpf ELSE global

\* A configure first releases every held key and empties the table.
KeepHeld == UNCHANGED <<held, vdown, spilled>>   \* faulty: no release loop
ForgetHeld == held' = <<>> /\ UNCHANGED <<vdown, spilled>>   \* faulty: emptied, not released
ReleaseOnly == vdown' = vdown \ HeldVirts /\ UNCHANGED <<held, spilled>>   \* faulty: nheld stays
ReleaseHeld ==
    /\ held' = <<>>
    /\ vdown' = vdown \ HeldVirts
    /\ spilled' = spilled \ HeldVirts

\* The calibration in use after a configure: calib_load works on a copy.
LoadInPlace == IF calfile = Unreadable THEN Identity ELSE calfile   \* faulty: no copy
LoadedCal == IF calfile = Unreadable THEN cal ELSE calfile

\* pipeline_configure(dc): release what is held, resolve the profile, then load
\* the calibration; an unreadable one returns before the air mouse is set up.
Configure(dc, global) ==
    /\ ReleaseHeld
    /\ active' = Resolve(dc)
    /\ cal' = LoadedCal
    /\ IF calfile = Unreadable
       THEN UNCHANGED <<am, airmouseOn>>
       ELSE /\ am' = [alpha |-> FilterAlpha(Resolve(dc), global),
                      scale |-> Resolve(dc).sens]
            /\ airmouseOn' = dc.airmouse
    /\ want' = dc
    /\ galpha' = global
    /\ UNCHANGED <<phys, lost, wheelVars, motion, calfile>>

\* The wizard, or a person, replaces or removes the calibration file.
WriteCalibration(c) ==
    /\ c # calfile
    /\ calfile' = c
    /\ UNCHANGED <<keyVars, wheelVars, imuVars, confVars>>

----------------------------------------------------------------------------

\* A remote just opened: pipeline_init and the first pipeline_configure, with
\* whatever keys the person was already holding.
Init ==
    /\ phys \in {S \in SUBSET Keys : Cardinality(S) <= MaxDown}
    /\ held = <<>>
    /\ vdown = {}
    /\ lost = {}
    /\ spilled = {}
    /\ accum = 0
    /\ clicks = 0
    /\ motion = NoMotion
    /\ calfile \in Calibs \cup {Unreadable}
    /\ want \in Configs
    /\ galpha \in GlobalAlphas
    /\ active = Resolve(want)
    /\ cal = IF calfile = Unreadable THEN Identity ELSE calfile
    /\ am = IF calfile = Unreadable THEN [alpha |-> 0, scale |-> 0]
            ELSE [alpha |-> FilterAlpha(Resolve(want), galpha),
                  scale |-> Resolve(want).sens]
    /\ airmouseOn = (calfile # Unreadable /\ want.airmouse)

KeyNext ==
    \E k \in Keys : Press(k) \/ Release(k) \/ Repeat(k) \/ LoseEvent(k)

Next ==
    \/ KeyNext
    \/ \E n \in Notches : Wheel(n)
    \/ ImuFrame
    \/ \E dc \in Configs, global \in GlobalAlphas : Configure(dc, global)
    \/ \E c \in Calibs \cup {Unreadable} : WriteCalibration(c)

Spec == Init /\ [][Next]_vars

----------------------------------------------------------------------------
(* Properties. *)

TypeOK ==
    /\ phys \subseteq Keys
    /\ held \in Seq(Pin) /\ Len(held) <= MaxHeld
    /\ vdown \subseteq Keys
    /\ lost \subseteq Keys
    /\ spilled \subseteq Keys
    /\ active \in Resolved
    /\ want \in Configs
    /\ accum \in Int /\ clicks \in Int
    /\ calfile \in Calibs \cup {Unreadable}
    /\ cal \in Calibs \cup {Identity}
    /\ am \in [alpha : Alphas \cup {0}, scale : Scales]
    /\ motion \in [cal : Calibs \cup {Identity}, scale : Scales]
    /\ airmouseOn \in BOOLEAN
    /\ galpha \in GlobalAlphas

\* A physical key has at most one entry in the held table, whatever order keys
\* are pressed, released and swap-removed in: two entries would leave one of
\* them behind after the release.
HeldOnce ==
    \A i, j \in 1..Len(held) : held[i].phys = held[j].phys => i = j

\* Every virtual key that is down is owed by an entry of the table, so that some
\* later release or configure lets it go (keys that did not fit excepted).
NoOrphanKey == vdown \subseteq HeldVirts \cup spilled

\* An entry of the table never disagrees with the current map: a changed map
\* cannot be outlived by a key pressed under the old one.
PinsFollowMap == \A i \in 1..Len(held) : held[i].virt = active.map[held[i].phys]

\* With every key up and every event delivered, nothing is down on the virtual
\* keyboard, whatever was remapped or reloaded while the keys were held.
NoStuckKey == phys = {} /\ lost = {} /\ spilled = {} => vdown = {}

\* Changing the map releases every virtual key in the same step ("a remap must
\* not leave the old virtual key stuck", daemon_pipeline.h).
RemapReleasesAll ==
    [][active'.map # active.map /\ spilled = {} => vdown' = {}]_vars

\* While the remote reports one button at a time and no event is lost, the key
\* the person holds since the last configure is down on the virtual keyboard.
HeldKeyIsDown ==
    lost = {} => \A i \in 1..Len(held) : held[i].virt \in vdown

\* Less than one click is ever carried over, in either direction, through
\* reversals of the wheel and changes of the scroll speed.
LessThanAClickPending == -Unit < accum /\ accum < Unit

\* A notch never scrolls against its own direction, whatever fraction earlier
\* notches or an earlier scroll speed left in the accumulator.
NoBackwardScroll == [][\A n \in Notches : Wheel(n) => clicks' * n >= 0]_vars

\* Once a calibration has been loaded, a file that is missing or broken at a
\* later configure leaves it in use: motion is never computed from raw readings
\* again ("the PREVIOUS calibration stays live", daemon_pipeline.c).
CalibrationSurvives ==
    [][cal # Identity /\ calfile = Unreadable => cal' = cal]_vars

----------------------------------------------------------------------------
(* The held table implements the abstract pins. *)

PinOf == [k \in Keys |-> IF HeldAt(k) = {} THEN Absent ELSE held[HeldIndex(k)].virt]

Pins == INSTANCE KeyPins WITH Free <- Absent, pin <- PinOf

\* The array with swap-removal behaves as a partial function from physical to
\* virtual keys: what is pinned stays pinned until its own release or a configure.
ImplementsPins == Pins!PinSpec

=============================================================================
