------------------------------ MODULE Profiles ------------------------------
(***************************************************************************)
(* Per-device profiles (tools/src/profiles.c): what a profile holds, how   *)
(* the active one is found and resolved, and which device configurations  *)
(* the loader accepts.                                                     *)
(*                                                                         *)
(* A profile's optional number is Unset when its has_* flag is 0.  Scroll  *)
(* speeds are integers in units of 1/Unit click, so the default speed 1.0  *)
(* is Unit.  A button map is a total function on keycodes: an unmapped key *)
(* is mapped to itself, which is how pipeline_keyboard treats it.          *)
(***************************************************************************)
EXTENDS Integers

CONSTANTS
    Keys,        \* the keycodes a remote and a button map can name
    Names,       \* profile names
    Default,     \* the name "default", always usable
    Absent,      \* "no such profile"
    Unset,       \* an optional field that is not in the file
    Scrolls,     \* the scroll speeds a profile may carry, in 1/Unit click
    Senses,      \* the sensitivities a profile may carry
    Alphas,      \* low-pass filter coefficients
    Paths,       \* calibration files a device may name
    Unit         \* sub-steps of one wheel click

ASSUME ProfilesAssumption ==
    /\ Default \in Names
    /\ Unit \in Nat \ {0}
    /\ Unset \notin Int \cup Alphas \cup Paths

DefaultSens == 30

Profile ==
    [scroll : Scrolls \cup {Unset}, sens : Senses \cup {Unset},
     lpf : Alphas \cup {Unset}, map : [Keys -> Keys]]

\* struct device_config; Unset is the calibration file named after the device.
DeviceConfig ==
    [profile : Names, airmouse : BOOLEAN, calib : Paths \cup {Unset},
     profiles : [Names -> Profile \cup {Absent}]]

\* The resolved profile the pipeline runs with (struct profile "resolved").
Resolved ==
    [scroll : Scrolls \cup {Unit}, sens : Senses \cup {DefaultSens},
     lpf : Alphas \cup {Unset}, hasLpf : BOOLEAN, map : [Keys -> Keys]]

NoMap == [k \in Keys |-> k]

\* profile_init: no optional field set, no button mapped.
ProfileInit == [scroll |-> Unset, sens |-> Unset, lpf |-> Unset, map |-> NoMap]

OrElse(v, default) == IF v = Unset THEN default ELSE v

\* profile_merge of src onto a freshly initialised profile.  The has_* flags of
\* the destination are not among the fields it copies.
Merge(src) ==
    [scroll |-> OrElse(src.scroll, Unit), sens |-> OrElse(src.sens, DefaultSens),
     lpf |-> src.lpf, hasLpf |-> FALSE, map |-> src.map]

\* The profile a device runs: the one it names, else "default", else built-ins.
ActiveSource(dc) ==
    IF dc.profiles[dc.profile] # Absent
    THEN dc.profiles[dc.profile]
    ELSE IF dc.profiles[Default] # Absent THEN dc.profiles[Default] ELSE ProfileInit

Resolve(dc) == Merge(ActiveSource(dc))

=============================================================================
