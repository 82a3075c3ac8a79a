------------------------- MODULE KernelDriverProofs -------------------------
(***************************************************************************)
(* KernelDriver, for every set of buttons and every key table.             *)
(***************************************************************************)
EXTENDS KernelDriver, TLAPS

\* A table that failed validation is not left in the driver's data.
CalibChecked == calib # "bad"

\* raw_only cannot have been set since the press and not be set.
RawSinceIsRaw == rawSince => rawOnly

Calibration == ModeNeedsCalibration /\ CalibChecked
KeysOK == OnlyHeldKeyDown /\ HeldKeyIsDown /\ RawSinceIsRaw
IInv == TypeOK /\ KeysOK /\ Calibration

\* LoadCalib returns a validated table or none, whatever the files are.
LEMMA LoadCalibChecked ==
    ASSUME NEW mac \in BOOLEAN, NEW own \in Blobs, NEW generic \in Blobs
    PROVE  LoadCalib(mac, own, generic) \in {"none", "own", "generic"}
BY DEF LoadCalib, Checked

\* The key chosen for a button is a key, and one the button may be reported as.
LEMMA KeyForButton ==
    ASSUME TypeOK, NEW b \in Buttons \cup {NoButton}
    PROVE  /\ Lookup(b) \in Keys \cup {NoKey}
           /\ Lookup(b) # NoKey => KeyFor(b) \in Keys \cap Reported(b)
<1>1. Lookup(b) \in Keys \cup {NoKey}
  BY KernelDriverAssumption DEF Lookup
<1>2. ASSUME Lookup(b) # NoKey PROVE KeyFor(b) \in Keys \cap Reported(b)
  <2>1. CASE Clicks(b)
    <3>1. b = WheelButton BY <2>1 DEF Clicks
    <3>2. KeyFor(b) = BtnLeft BY <2>1 DEF KeyFor
    <3>3. BtnLeft \in Keys /\ BtnLeft # NoKey BY KernelDriverAssumption
    <3> QED BY <3>1, <3>2, <3>3 DEF Reported
  <2>2. CASE ~Clicks(b)
    <3>1. KeyFor(b) = Lookup(b) BY <2>2 DEF KeyFor
    <3> QED BY <3>1, <1>1, <1>2 DEF Reported
  <2> QED BY <2>1, <2>2
<1> QED BY <1>1, <1>2

\* One report's change of button: the whole invariant in one step, as the new state
\* of the key depends on nothing but the new button.
LEMMA ButtonChangeKeeps ==
    ASSUME IInv, NEW b \in Buttons \cup {NoButton}, NEW r \in Report, ButtonChange(b, r)
    PROVE  IInv'
<1> DEFINE key == IF Lookup(b) = NoKey THEN NoKey ELSE KeyFor(b)
<1>1. key \in Keys \cup {NoKey} /\ {key} \ {NoKey} \subseteq Reported(b)
  BY KeyForButton DEF IInv
<1>2. kdown \ {lastKey} = {}
  BY DEF IInv, KeysOK, OnlyHeldKeyDown
<1>3. CASE b = lastBtn
  <2>1. UNCHANGED <<lastBtn, lastKey, mode, kdown, rawSince, params, probeVars>>
        /\ pc' = "wheel" /\ rep' = r
    BY <1>3 DEF ButtonChange
  <2>2. TypeOK' BY <2>1 DEF IInv, TypeOK, params, probeVars
  <2>3. KeysOK'
    BY <2>1 DEF IInv, KeysOK, OnlyHeldKeyDown, HeldKeyIsDown, RawSinceIsRaw, Reported,
                Lookup, params, probeVars
  <2>4. Calibration'
    BY <2>1 DEF IInv, Calibration, ModeNeedsCalibration, CalibChecked, probeVars
  <2> QED BY <2>2, <2>3, <2>4 DEF IInv
<1>4. CASE b # lastBtn
  <2>1. lastBtn' = b /\ lastKey' = key /\ pc' = "wheel" /\ rep' = r
        /\ UNCHANGED <<params, probeVars>>
    BY <1>4 DEF ButtonChange
  <2>2. mode' = (mode /\ (key = NoKey \/ Clicks(b)))
    BY <1>4 DEF ButtonChange
  <2>3. kdown' = {key} \ {NoKey}
    BY <1>2, <1>4 DEF ButtonChange, ReleasedKey
  <2>4. mode' \in BOOLEAN /\ (mode' => mode)
    BY <2>2, Zenon
  <2>5. rawSince' = rawOnly /\ rawOnly' = rawOnly /\ rawSince' \in BOOLEAN
    BY <1>4 DEF ButtonChange, params, IInv, TypeOK
  <2>6. TypeOK'
    BY <1>1, <2>1, <2>3, <2>4, <2>5 DEF IInv, TypeOK, params, probeVars
  <2>7. OnlyHeldKeyDown'
    <3>1. Reported(lastBtn)' = Reported(b) BY <2>1 DEF Reported, Lookup
    <3> QED BY <1>1, <2>1, <2>3, <3>1 DEF OnlyHeldKeyDown
  <2>8. (HeldKeyIsDown /\ RawSinceIsRaw)'
    BY <2>1, <2>3, <2>5 DEF HeldKeyIsDown, RawSinceIsRaw
  <2>9. Calibration'
    BY <2>1, <2>4 DEF IInv, Calibration, ModeNeedsCalibration, CalibChecked, probeVars
  <2> QED BY <2>6, <2>7, <2>8, <2>9 DEF IInv, KeysOK
<1> QED BY <1>3, <1>4

\* The strengthened invariant holds of every state: no key outlives its button or is
\* released before it, the air mouse needs a validated table, and the types are kept.
THEOREM DriverInductive == Spec => []IInv
<1>1. Init => IInv
  <2> SUFFICES ASSUME Init PROVE IInv
    OBVIOUS
  <2>1. NoReport \in Report BY DEF NoReport, Report
  <2>2. TypeOK BY <2>1 DEF Init, TypeOK, Calibs
  <2>3. mode = FALSE BY DEF Init
  <2>4. Calibration BY <2>3 DEF Init, Calibration, ModeNeedsCalibration, CalibChecked
  <2>5. KeysOK BY DEF Init, KeysOK, OnlyHeldKeyDown, HeldKeyIsDown, RawSinceIsRaw
  <2> QED BY <2>2, <2>4, <2>5 DEF IInv
<1>2. IInv /\ [Next]_vars => IInv'
  <2> SUFFICES ASSUME IInv, [Next]_vars PROVE IInv'
    OBVIOUS
  <2> USE DEF IInv, KeysOK, Calibration
  <2>1. ASSUME NEW mac \in BOOLEAN, NEW own \in Blobs, NEW generic \in Blobs,
               Probe(mac, own, generic)
        PROVE  IInv'
    <3>1. calib' \in {"none", "own", "generic"}
      BY <2>1, LoadCalibChecked DEF Probe
    <3>2. TypeOK' BY <2>1, <3>1 DEF Probe, TypeOK, params, Calibs
    <3>3. KeysOK'
      BY <2>1 DEF Probe, OnlyHeldKeyDown, HeldKeyIsDown, RawSinceIsRaw, params
    <3>4. Calibration'
      BY <2>1, <3>1 DEF Probe, ModeNeedsCalibration, CalibChecked
    <3> QED BY <3>2, <3>3, <3>4
  <2>2. CASE ProbeImu
    <3>1. TypeOK'
      <4>1. imuNode' \in BOOLEAN BY <2>2, Zenon DEF ProbeImu
      <4> QED BY <2>2, <4>1 DEF ProbeImu, TypeOK, params
    <3>2. KeysOK'
      BY <2>2 DEF ProbeImu, OnlyHeldKeyDown, HeldKeyIsDown, RawSinceIsRaw, Reported,
                  Lookup, params
    <3>3. Calibration' BY <2>2 DEF ProbeImu, ModeNeedsCalibration, CalibChecked
    <3> QED BY <3>1, <3>2, <3>3
  <2>3. CASE Remove
    <3>1. TypeOK' BY <2>3 DEF Remove, TypeOK, params
    <3>2. KeysOK'
      BY <2>3 DEF Remove, OnlyHeldKeyDown, HeldKeyIsDown, RawSinceIsRaw, params
    <3>3. Calibration' BY <2>3 DEF Remove, ModeNeedsCalibration, CalibChecked
    <3> QED BY <3>1, <3>2, <3>3
  <2>4. CASE SetParam
    <3>1. rawOnly' \in BOOLEAN /\ airmouse' \in BOOLEAN /\ imuEvdev' \in BOOLEAN
      BY <2>4, Zenon DEF SetParam, TypeOK
    <3>2. rawSince' \in BOOLEAN /\ (rawSince' => rawSince /\ rawOnly')
      BY <2>4, Zenon DEF SetParam
    <3>3. TypeOK' BY <2>4, <3>1, <3>2 DEF SetParam, TypeOK, probeVars
    <3>4. KeysOK'
      BY <2>4, <3>2 DEF SetParam, probeVars, OnlyHeldKeyDown, HeldKeyIsDown,
                        RawSinceIsRaw, Reported, Lookup
    <3>5. Calibration' BY <2>4 DEF SetParam, probeVars, ModeNeedsCalibration, CalibChecked
    <3> QED BY <3>3, <3>4, <3>5
  <2>5. ASSUME NEW b \in Buttons \cup {NoButton}, NEW r \in Report, ButtonChange(b, r)
        PROVE  IInv'
    BY <2>5, ButtonChangeKeeps
  <2>6. CASE Wheel
    <3>1. kdown' \subseteq kdown /\ kdown \ {KeyUp, KeyDown} \subseteq kdown'
      BY <2>6 DEF Wheel
    <3>2. rawOnly => kdown' = kdown
      <4>1. rawOnly => WheelScrolls BY Zenon DEF WheelScrolls
      <4> QED BY <2>6, <4>1 DEF Wheel
    <3>3. TypeOK' BY <2>6, <3>1 DEF Wheel, TypeOK, params, probeVars
    <3>4. KeysOK'
      <4>1. OnlyHeldKeyDown'
        BY <2>6, <3>1 DEF Wheel, OnlyHeldKeyDown, Reported, Lookup
      <4>2. RawSinceIsRaw' BY <2>6 DEF Wheel, RawSinceIsRaw, params
      <4>3. HeldKeyIsDown'
        BY <2>6, <3>1, <3>2 DEF Wheel, HeldKeyIsDown, RawSinceIsRaw, probeVars
      <4> QED BY <4>1, <4>2, <4>3
    <3>5. Calibration' BY <2>6 DEF Wheel, probeVars, ModeNeedsCalibration, CalibChecked
    <3> QED BY <3>3, <3>4, <3>5
  <2>7. CASE Gyro
    <3>1. mode' \in BOOLEAN /\ (mode' => mode \/ calib # "none")
      BY <2>7, Zenon DEF Gyro
    <3>2. TypeOK' BY <2>7, <3>1 DEF Gyro, TypeOK, params, probeVars
    <3>3. KeysOK'
      BY <2>7 DEF Gyro, params, probeVars, OnlyHeldKeyDown, HeldKeyIsDown, RawSinceIsRaw,
                  Reported, Lookup
    <3>4. Calibration'
      BY <2>7, <3>1 DEF Gyro, probeVars, ModeNeedsCalibration, CalibChecked, TypeOK, Calibs
    <3> QED BY <3>2, <3>3, <3>4
  <2>8. CASE Pointer \/ Imu
    <3>1. TypeOK'
      <4>1. UNCHANGED <<params, probeVars, lastBtn, lastKey, mode, kdown, rawSince>>
        BY <2>8 DEF Pointer, Imu
      <4>2. pc' \in {"gyro", "imu", "idle"}
        BY <2>8, Zenon DEF Pointer, Imu
      <4>3. rep' \in Report
        <5>1. NoReport \in Report BY DEF NoReport, Report
        <5> QED BY <2>8, <5>1, Zenon DEF Pointer, Imu, TypeOK
      <4> QED BY <4>1, <4>2, <4>3 DEF TypeOK, params, probeVars
    <3>2. KeysOK'
      BY <2>8 DEF Pointer, Imu, params, probeVars, OnlyHeldKeyDown, HeldKeyIsDown,
                  RawSinceIsRaw, Reported, Lookup
    <3>3. Calibration'
      BY <2>8 DEF Pointer, Imu, probeVars, ModeNeedsCalibration, CalibChecked
    <3> QED BY <3>1, <3>2, <3>3
  <2>9. CASE UNCHANGED vars
    BY <2>9 DEF vars, params, probeVars, TypeOK, OnlyHeldKeyDown, HeldKeyIsDown,
                RawSinceIsRaw, Reported, Lookup, ModeNeedsCalibration, CalibChecked
  <2> QED BY <2>1, <2>2, <2>3, <2>4, <2>5, <2>6, <2>7, <2>8, <2>9 DEF Next, RawEvent
<1> QED BY <1>1, <1>2, PTL DEF Spec

\* The driver's state and parameters keep their types, whatever is written when.
THEOREM TypeOKAlways == Spec => []TypeOK
BY DriverInductive, PTL DEF IInv

\* No key is down but the one the held button was pressed as, for every key table and
\* every write to the parameters.
THEOREM OnlyHeldKeyDownAlways == Spec => []OnlyHeldKeyDown
BY DriverInductive, PTL DEF IInv, KeysOK

\* The key of the held button stays down, in raw mode whatever the wheel does.
THEOREM HeldKeyIsDownAlways == Spec => []HeldKeyIsDown
BY DriverInductive, PTL DEF IInv, KeysOK

\* Air-mouse mode is only ever entered with a validated table.
THEOREM ModeNeedsCalibrationAlways == Spec => []ModeNeedsCalibration
BY DriverInductive, PTL DEF IInv, Calibration

=============================================================================
