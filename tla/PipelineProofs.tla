--------------------------- MODULE PipelineProofs ---------------------------
(***************************************************************************)
(* Proofs about Pipeline for every set of keys, every configuration and    *)
(* every size of the held-key table.                                       *)
(***************************************************************************)
EXTENDS MCPipeline, FiniteSetTheorems, TLAPS

(* Profiles. *)

LEMMA ProfileInitType == ProfileInit \in Profile
  BY DEF ProfileInit, Profile, NoMap

(* ActiveSource and Merge only ever produce well-formed resolved profiles. *)
LEMMA ResolveType ==
    ASSUME NEW dc \in DeviceConfig
    PROVE  Resolve(dc) \in Resolved
<1>1. ActiveSource(dc) \in Profile
  <2>1. dc.profiles \in [Names -> Profile \cup {Absent}] /\ dc.profile \in Names
    BY DEF DeviceConfig
  <2>2. Default \in Names
    BY ProfilesAssumption
  <2>3. QED
    BY <2>1, <2>2, ProfileInitType DEF ActiveSource
<1>2. QED
  BY <1>1 DEF Resolve, Merge, Resolved, Profile, OrElse

(* The C cast keeps integers integers. *)
LEMMA WholeClicksInt ==
    ASSUME NEW x \in Int
    PROVE  WholeClicks(x) \in Int
<1>1. Unit \in Nat \ {0}
  BY ProfilesAssumption
<1>2. x \div Unit \in Int /\ (-x) \div Unit \in Int
  BY <1>1
<1>3. QED
  BY <1>2 DEF WholeClicks


(***************************************************************************)
(* The inductive invariant.  HeldWasPressed is what NoStuckKey needs: an   *)
(* entry of the table stands for a key that is still down, or for one      *)
(* whose last event was lost.                                              *)
(***************************************************************************)
HeldWasPressed == \A i \in 1..Len(held) : held[i].phys \in phys \cup lost

IInv ==
    /\ TypeOK
    /\ HeldOnce
    /\ NoOrphanKey
    /\ PinsFollowMap
    /\ HeldWasPressed

(* The scan of the table finds the only entry of a key. *)
LEMMA HeldIndexFound ==
    ASSUME TypeOK, HeldOnce, NEW k \in Keys, HeldAt(k) # {}
    PROVE  /\ HeldIndex(k) \in 1..Len(held)
           /\ held[HeldIndex(k)].phys = k
           /\ HeldAt(k) = {HeldIndex(k)}
<1>1. PICK i \in 1..Len(held) : held[i].phys = k
  BY DEF HeldAt
<1>2. HeldAt(k) = {i}
  BY <1>1 DEF HeldAt, HeldOnce
<1>3. i \in HeldAt(k) /\ \A j \in HeldAt(k) : j <= i
  BY <1>1, <1>2
<1>4. HeldIndex(k) \in HeldAt(k)
  BY <1>3 DEF HeldIndex
<1>5. QED
  BY <1>2, <1>4 DEF HeldAt

(* Swap-removal drops exactly one entry and keeps every other, once. *)
LEMMA SwapRemoveKeeps ==
    ASSUME TypeOK, NEW i \in 1..Len(held)
    PROVE  /\ SwapRemove(i) \in Seq(Pin)
           /\ Len(SwapRemove(i)) = Len(held) - 1
           /\ \A j \in 1..(Len(held) - 1) :
                 SwapRemove(i)[j] = IF j = i THEN held[Len(held)] ELSE held[j]
           /\ \A j \in 1..Len(held) : j # i =>
                 \E m \in 1..(Len(held) - 1) : SwapRemove(i)[m] = held[j]
<1> DEFINE n == Len(held)
           r == SwapRemove(i)
<1>1. held \in Seq(Pin) /\ n \in Nat /\ n > 0
  BY DEF TypeOK
<1>2. r = [j \in 1..(n - 1) |-> IF j = i THEN held[n] ELSE held[j]]
  BY DEF SwapRemove
<1>3. \A j \in 1..n : held[j] \in Pin
  BY <1>1
<1>4. n - 1 \in Nat /\ \A j \in 1..(n - 1) : r[j] \in Pin
  BY <1>1, <1>2, <1>3
<1>5. r \in Seq(Pin) /\ Len(r) = n - 1
  BY <1>2, <1>4
<1>6. ASSUME NEW j \in 1..n, j # i
      PROVE  \E m \in 1..(n - 1) : r[m] = held[j]
  <2>1. CASE j = n
    BY <2>1, <1>6, <1>2, <1>1
  <2>2. CASE j # n
    BY <2>2, <1>6, <1>2, <1>1
  <2>3. QED
    BY <2>1, <2>2
<1>7. QED
  BY <1>2, <1>5, <1>6

(***************************************************************************)
(* One key event preserves the invariant.  The four cases are the branches *)
(* of pipeline_keyboard.                                                   *)
(***************************************************************************)
LEMMA KeyEventInv ==
    ASSUME IInv, NEW k \in Keys, NEW value \in {0, 1, 2}, KeyEvent(k, value),
           phys' = IF value = 0 THEN phys \ {k} ELSE phys \cup {k}
    PROVE  IInv'
<1> DEFINE n == Len(held)
           i == HeldIndex(k)
           pinned == [phys |-> k, virt |-> active.map[k]]
<1>1. TypeOK /\ HeldOnce /\ held \in Seq(Pin) /\ n \in Nat
  BY DEF IInv, TypeOK
<1>2. active.map \in [Keys -> Keys] /\ active.map[k] \in Keys
  BY <1>1 DEF TypeOK, Resolved
<1>3. \A j \in 1..n : held[j].phys \in Keys /\ held[j].virt \in Keys
  <2>1. \A j \in 1..n : held[j] \in Pin
    BY <1>1
  <2>2. QED
    BY <2>1 DEF Pin
<1>4. UNCHANGED <<wheelVars, imuVars, confVars, calfile>> /\ lost' = lost \ {k}
  BY DEF KeyEvent
<1>5. /\ phys' \subseteq Keys /\ lost' \subseteq Keys
      /\ active' = active
  BY <1>1, <1>4 DEF TypeOK, confVars
<1>6. CASE HeldAt(k) # {} /\ value = 0
  <2>1. i \in 1..n /\ held[i].phys = k /\ HeldAt(k) = {i}
    BY <1>1, <1>6, HeldIndexFound
  <2>2. /\ held' = SwapRemove(i)
        /\ vdown' = vdown \ {held[i].virt}
        /\ spilled' = spilled \ {held[i].virt}
    BY <1>6 DEF KeyEvent, VirtualKeys
  <2>3. /\ held' \in Seq(Pin) /\ Len(held') = n - 1
        /\ \A j \in 1..(n - 1) : held'[j] = IF j = i THEN held[n] ELSE held[j]
        /\ \A j \in 1..n : j # i => \E m \in 1..(n - 1) : held'[m] = held[j]
    <3>1. /\ SwapRemove(i) \in Seq(Pin)
          /\ Len(SwapRemove(i)) = Len(held) - 1
          /\ \A j \in 1..(Len(held) - 1) :
                SwapRemove(i)[j] = IF j = i THEN held[Len(held)] ELSE held[j]
          /\ \A j \in 1..Len(held) : j # i =>
                \E m \in 1..(Len(held) - 1) : SwapRemove(i)[m] = held[j]
      <4> HIDE DEF i
      <4>1. QED
        BY <1>1, <2>1, SwapRemoveKeeps
    <3>2. held' = SwapRemove(i)
      BY <2>2
    <3> HIDE DEF i
    <3>3. QED
      BY <3>1, <3>2
  <2>4. TypeOK'
    <3>1. Len(held') <= MaxHeld
      BY <1>1, <2>3, PipelineAssumption DEF TypeOK
    <3>2. vdown' \subseteq Keys /\ spilled' \subseteq Keys
      BY <1>1, <2>2 DEF TypeOK
    <3>3. QED
      BY <1>1, <1>4, <1>5, <2>3, <3>1, <3>2
         DEF TypeOK, wheelVars, imuVars, confVars
  <2>5. \A j \in 1..(n - 1) : held'[j].phys # k
    BY <1>1, <2>1, <2>3 DEF HeldOnce
  <2>6. HeldOnce'
    <3>1. SUFFICES ASSUME NEW a \in 1..(n - 1), NEW b \in 1..(n - 1),
                          held'[a].phys = held'[b].phys
                   PROVE  a = b
      BY <2>3 DEF HeldOnce
    <3> DEFINE old(j) == IF j = i THEN n ELSE j
    <3>2. held'[a] = held[old(a)] /\ held'[b] = held[old(b)]
      BY <2>3
    <3>3. old(a) \in 1..n /\ old(b) \in 1..n
      BY <1>1
    <3>4. old(a) = old(b)
      <4> HIDE DEF old
      <4>1. QED
        BY <1>1, <3>1, <3>2, <3>3 DEF HeldOnce
    <3>5. QED
      BY <1>1, <3>4
  <2>7. NoOrphanKey'
    <3>1. ASSUME NEW v \in vdown, v # held[i].virt, v \notin spilled
          PROVE  v \in HeldVirts'
      <4>1. PICK j \in 1..n : held[j].virt = v
        BY <3>1 DEF IInv, NoOrphanKey, HeldVirts
      <4>2. PICK m \in 1..(n - 1) : held'[m] = held[j]
        BY <2>3, <3>1, <4>1
      <4>3. QED
        BY <4>1, <4>2, <2>3 DEF HeldVirts
    <3>2. QED
      BY <2>2, <3>1 DEF NoOrphanKey
  <2>8. PinsFollowMap'
    BY <1>1, <1>5, <2>1, <2>3 DEF IInv, PinsFollowMap
  <2>9. HeldWasPressed'
    <3>1. \A j \in 1..(n - 1) : held'[j].phys \in phys \cup lost
      BY <1>1, <2>1, <2>3 DEF IInv, HeldWasPressed
    <3>2. QED
      BY <1>4, <1>6, <2>3, <2>5, <3>1 DEF HeldWasPressed
  <2>10. QED
    BY <2>4, <2>6, <2>7, <2>8, <2>9 DEF IInv
<1>7. CASE HeldAt(k) # {} /\ value # 0
  <2>1. i \in 1..n /\ held[i].phys = k
    BY <1>1, <1>7, HeldIndexFound
  <2>2. /\ held' = held /\ spilled' = spilled
        /\ vdown' \in {vdown, vdown \cup {held[i].virt}}
    BY <1>7 DEF KeyEvent, VirtualKeys
  <2>3. TypeOK'
    BY <1>1, <1>3, <1>4, <1>5, <2>1, <2>2
       DEF TypeOK, wheelVars, imuVars, confVars
  <2>4. NoOrphanKey'
    BY <2>1, <2>2 DEF IInv, NoOrphanKey, HeldVirts
  <2>5. HeldOnce' /\ PinsFollowMap' /\ HeldWasPressed'
    BY <1>4, <1>5, <1>7, <2>2 DEF IInv, HeldOnce, PinsFollowMap, HeldWasPressed
  <2>6. QED
    BY <2>3, <2>4, <2>5 DEF IInv
<1>8. CASE HeldAt(k) = {} /\ value # 0 /\ Fits
  <2>1. /\ held' = Append(held, pinned) /\ spilled' = spilled
        /\ vdown' \in {vdown, vdown \cup {active.map[k]}}
    BY <1>8 DEF KeyEvent, VirtualKeys
  <2>2. pinned \in Pin
    BY <1>2 DEF Pin
  <2>3. /\ held' \in Seq(Pin) /\ Len(held') = n + 1
        /\ \A j \in 1..n : held'[j] = held[j]
        /\ held'[n + 1] = pinned
    BY <1>1, <2>1, <2>2
  <2>4. n + 1 <= MaxHeld
    BY <1>1, <1>8, PipelineAssumption DEF Fits
  <2>5. TypeOK'
    BY <1>1, <1>2, <1>4, <1>5, <2>1, <2>3, <2>4
       DEF TypeOK, wheelVars, imuVars, confVars
  <2>6. \A j \in 1..n : held[j].phys # k
    BY <1>8 DEF HeldAt
  <2>7. HeldOnce'
    BY <1>1, <2>3, <2>6 DEF HeldOnce
  <2>8. NoOrphanKey'
    <3>1. HeldVirts' = HeldVirts \cup {active.map[k]}
      BY <1>1, <2>3 DEF HeldVirts
    <3>2. QED
      BY <2>1, <3>1 DEF IInv, NoOrphanKey
  <2>9. PinsFollowMap'
    BY <1>1, <1>5, <2>3 DEF IInv, PinsFollowMap
  <2>10. HeldWasPressed'
    BY <1>1, <1>4, <1>8, <2>3, <2>6 DEF IInv, HeldWasPressed
  <2>11. QED
    BY <2>5, <2>7, <2>8, <2>9, <2>10 DEF IInv
<1>9. CASE HeldAt(k) = {} /\ (value = 0 \/ ~Fits)
  <2>1. /\ held' = held
        /\ value = 0 => /\ vdown' = vdown \ {active.map[k]}
                        /\ spilled' = spilled \ {active.map[k]}
        /\ value # 0 => /\ vdown' \in {vdown, vdown \cup {active.map[k]}}
                        /\ spilled' = spilled \cup {active.map[k]}
    BY <1>9 DEF KeyEvent, VirtualKeys
  <2>2. TypeOK'
    BY <1>1, <1>2, <1>4, <1>5, <2>1
       DEF TypeOK, wheelVars, imuVars, confVars
  <2>3. NoOrphanKey'
    BY <2>1 DEF IInv, NoOrphanKey, HeldVirts
  <2>4. \A j \in 1..n : held[j].phys # k
    BY <1>9 DEF HeldAt
  <2>5. HeldOnce' /\ PinsFollowMap' /\ HeldWasPressed'
    BY <1>4, <1>5, <2>1, <2>4 DEF IInv, HeldOnce, PinsFollowMap, HeldWasPressed
  <2>6. QED
    BY <2>2, <2>3, <2>5 DEF IInv
<1>10. QED
  BY <1>6, <1>7, <1>8, <1>9


(***************************************************************************)
(* The other actions.                                                      *)
(***************************************************************************)

(* pipeline_init followed by a first configure establishes the invariant. *)
LEMMA InitInv == Init => IInv
<1>1. SUFFICES ASSUME Init PROVE IInv
  OBVIOUS
<1>2. want \in DeviceConfig /\ Len(held) = 0 /\ MaxHeld \in Nat
  BY <1>1, PipelineAssumption DEF Init
<1>3. Resolve(want) \in Resolved
  BY <1>2, ResolveType
<1>4. Resolve(want).sens \in Scales /\ FilterAlpha(Resolve(want), galpha) \in Alphas
  <2>1. galpha \in Alphas /\ Resolve(want).sens \in Scales
    BY <1>1, <1>3, PipelineAssumption DEF Init, Resolved, Scales
  <2>2. Resolve(want).hasLpf = FALSE
    BY DEF Resolve, Merge
  <2>3. QED
    BY <2>1, <2>2 DEF FilterAlpha
<1>5. TypeOK
  <2>1. /\ phys \subseteq Keys /\ held \in Seq(Pin) /\ Len(held) <= MaxHeld
        /\ vdown \subseteq Keys /\ lost \subseteq Keys /\ spilled \subseteq Keys
    BY <1>1, <1>2 DEF Init
  <2>2. /\ active \in Resolved /\ want \in Configs /\ accum \in Int /\ clicks \in Int
        /\ calfile \in Calibs \cup {Unreadable} /\ galpha \in GlobalAlphas
        /\ airmouseOn \in BOOLEAN
    <3>1. want.airmouse \in BOOLEAN
      BY <1>2 DEF DeviceConfig
    <3>2. QED
      BY <1>1, <1>3, <3>1 DEF Init
  <2>3. cal \in Calibs \cup {Identity}
    BY <1>1 DEF Init
  <2>4. am \in [alpha : Alphas \cup {0}, scale : Scales]
    BY <1>1, <1>4 DEF Init, Scales
  <2>5. motion \in [cal : Calibs \cup {Identity}, scale : Scales]
    BY <1>1 DEF Init, NoMotion, Scales
  <2>6. QED
    BY <2>1, <2>2, <2>3, <2>4, <2>5 DEF TypeOK
<1>6. HeldOnce /\ NoOrphanKey /\ PinsFollowMap /\ HeldWasPressed
  BY <1>1, <1>2 DEF Init, HeldOnce, NoOrphanKey, PinsFollowMap, HeldWasPressed
<1>7. QED
  BY <1>5, <1>6 DEF IInv

(* A lost event changes what is physically down, and remembers it did. *)
LEMMA LoseEventInv ==
    ASSUME IInv, NEW k \in Keys, LoseEvent(k)
    PROVE  IInv'
<1>1. TypeOK'
  BY DEF IInv, TypeOK, LoseEvent, wheelVars, imuVars, confVars
<1>2. HeldOnce' /\ NoOrphanKey' /\ PinsFollowMap'
  BY DEF IInv, LoseEvent, confVars, HeldOnce, NoOrphanKey, HeldVirts, PinsFollowMap
<1>3. HeldWasPressed'
  BY DEF IInv, LoseEvent, HeldWasPressed
<1>4. QED
  BY <1>1, <1>2, <1>3 DEF IInv

(* What the wheel adds up stays an integer. *)
LEMMA SumIsInt ==
    ASSUME TypeOK, NEW d \in Notches
    PROVE  accum + d * active.scroll \in Int
<1>1. active.scroll \in Scrolls \cup {Unit} /\ accum \in Int
  BY DEF TypeOK, Resolved
<1>2. Scrolls \subseteq Int /\ Unit \in Int
  BY ProfilesAssumption, PipelineAssumption
<1>3. d \in Int
  BY PipelineAssumption
<1>4. active.scroll \in Int
  BY <1>1, <1>2
<1>5. \A x, y \in Int : x * y \in Int
  OBVIOUS
<1> QED BY <1>1, <1>3, <1>4, <1>5

(* A wheel value only moves the accumulator. *)
LEMMA WheelInv ==
    ASSUME IInv, NEW d \in Notches, Wheel(d)
    PROVE  IInv'
<1>1. accum + d * active.scroll \in Int /\ Unit \in Int
  BY SumIsInt, ProfilesAssumption DEF IInv
<1>2. WholeClicks(accum + d * active.scroll) \in Int
  BY <1>1, WholeClicksInt
<1>3. accum' \in Int /\ clicks' \in Int
  BY <1>1, <1>2 DEF Wheel, Remainder
<1>4. TypeOK'
  BY <1>3 DEF IInv, TypeOK, Wheel, keyVars, imuVars, confVars
<1>5. HeldOnce' /\ NoOrphanKey' /\ PinsFollowMap' /\ HeldWasPressed'
  BY DEF IInv, Wheel, keyVars, confVars, HeldOnce, NoOrphanKey, HeldVirts,
         PinsFollowMap, HeldWasPressed
<1>6. QED
  BY <1>4, <1>5 DEF IInv

(* An IMU frame only records the motion it caused. *)
LEMMA ImuFrameInv ==
    ASSUME IInv, ImuFrame
    PROVE  IInv'
<1>1. motion' \in [cal : Calibs \cup {Identity}, scale : Scales]
  BY DEF IInv, TypeOK, ImuFrame
<1>2. TypeOK'
  BY <1>1 DEF IInv, TypeOK, ImuFrame, keyVars, wheelVars, confVars
<1>3. HeldOnce' /\ NoOrphanKey' /\ PinsFollowMap' /\ HeldWasPressed'
  BY DEF IInv, ImuFrame, keyVars, confVars, HeldOnce, NoOrphanKey, HeldVirts,
         PinsFollowMap, HeldWasPressed
<1>4. QED
  BY <1>2, <1>3 DEF IInv

(* A configure empties the table, so nothing pressed before it survives it. *)
LEMMA ConfigureInv ==
    ASSUME IInv, NEW dc \in Configs, NEW global \in GlobalAlphas, Configure(dc, global)
    PROVE  IInv'
<1>1. dc \in DeviceConfig /\ global \in Alphas /\ MaxHeld \in Nat
  BY PipelineAssumption
<1>2. Resolve(dc) \in Resolved
  BY <1>1, ResolveType
<1>3. active' = Resolve(dc) /\ held' = <<>> /\ Len(held') = 0
  BY DEF Configure, ReleaseHeld
<1>4. am' \in [alpha : Alphas \cup {0}, scale : Scales] /\ airmouseOn' \in BOOLEAN
  <2>1. Resolve(dc).sens \in Scales /\ dc.airmouse \in BOOLEAN
    BY <1>1, <1>2 DEF Resolved, Scales, DeviceConfig
  <2>2. FilterAlpha(Resolve(dc), global) \in Alphas
    BY <1>1 DEF FilterAlpha, Resolve, Merge
  <2>3. QED
    BY <2>1, <2>2 DEF IInv, TypeOK, Configure
<1>5. cal' \in Calibs \cup {Identity}
  BY DEF IInv, TypeOK, Configure, LoadedCal
<1>6. vdown' \subseteq Keys /\ spilled' \subseteq Keys
  BY DEF IInv, TypeOK, Configure, ReleaseHeld
<1>7. TypeOK'
  BY <1>1, <1>2, <1>3, <1>4, <1>5, <1>6 DEF IInv, TypeOK, Configure, wheelVars
<1>8. vdown' \subseteq spilled'
  BY DEF IInv, NoOrphanKey, Configure, ReleaseHeld
<1>9. HeldOnce' /\ NoOrphanKey' /\ PinsFollowMap' /\ HeldWasPressed'
  BY <1>3, <1>8 DEF HeldOnce, NoOrphanKey, PinsFollowMap, HeldWasPressed
<1>10. QED
  BY <1>7, <1>9 DEF IInv

(* Replacing the calibration file changes nothing the daemon holds. *)
LEMMA WriteCalibrationInv ==
    ASSUME IInv, NEW c \in Calibs \cup {Unreadable}, WriteCalibration(c)
    PROVE  IInv'
  BY DEF IInv, TypeOK, WriteCalibration, keyVars, wheelVars, imuVars, confVars,
         HeldOnce, NoOrphanKey, HeldVirts, PinsFollowMap, HeldWasPressed

(* Every step of the pipeline preserves the invariant. *)
LEMMA NextInv == IInv /\ [Next]_vars => IInv'
<1>1. SUFFICES ASSUME IInv, [Next]_vars PROVE IInv'
  OBVIOUS
<1>2. ASSUME NEW k \in Keys, Press(k) PROVE IInv'
  BY <1>1, <1>2, KeyEventInv DEF Press
<1>3. ASSUME NEW k \in Keys, Release(k) PROVE IInv'
  BY <1>1, <1>3, KeyEventInv DEF Release
<1>4. ASSUME NEW k \in Keys, Repeat(k) PROVE IInv'
  <2>1. phys' = phys \cup {k} /\ KeyEvent(k, 2)
    BY <1>4 DEF Repeat
  <2>2. QED
    BY <1>1, <2>1, KeyEventInv
<1>5. ASSUME NEW k \in Keys, LoseEvent(k) PROVE IInv'
  BY <1>1, <1>5, LoseEventInv
<1>6. ASSUME NEW d \in Notches, Wheel(d) PROVE IInv'
  BY <1>1, <1>6, WheelInv
<1>7. CASE ImuFrame
  BY <1>1, <1>7, ImuFrameInv
<1>8. ASSUME NEW dc \in Configs, NEW global \in GlobalAlphas, Configure(dc, global)
      PROVE  IInv'
  BY <1>1, <1>8, ConfigureInv
<1>9. ASSUME NEW c \in Calibs \cup {Unreadable}, WriteCalibration(c) PROVE IInv'
  BY <1>1, <1>9, WriteCalibrationInv
<1>10. CASE UNCHANGED vars
  BY <1>1, <1>10 DEF vars, keyVars, wheelVars, imuVars, confVars, IInv, TypeOK,
     HeldOnce, NoOrphanKey, HeldVirts, PinsFollowMap, HeldWasPressed
<1>11. QED
  BY <1>1, <1>2, <1>3, <1>4, <1>5, <1>6, <1>7, <1>8, <1>9, <1>10 DEF Next, KeyNext

(***************************************************************************)
(* The theorems.                                                           *)
(***************************************************************************)

(* Every reachable state satisfies the inductive invariant. *)
THEOREM Inductive == Spec => []IInv
  BY InitInv, NextInv, PTL DEF Spec

(* Every reachable state is well-typed; in particular the held table never     *)
(* holds more entries than the array has room for.                             *)
THEOREM TypeCorrect == Spec => []TypeOK
<1>1. IInv => TypeOK
  BY DEF IInv
<1>2. QED
  BY <1>1, Inductive, PTL

(* A physical key never has two entries in the held table.                     *)
THEOREM HeldOnceAlways == Spec => []HeldOnce
<1>1. IInv => HeldOnce
  BY DEF IInv
<1>2. QED
  BY <1>1, Inductive, PTL

(* Every virtual key that is down is owed by an entry of the table, or was     *)
(* pressed while the table was full.                                           *)
THEOREM NoOrphanKeyAlways == Spec => []NoOrphanKey
<1>1. IInv => NoOrphanKey
  BY DEF IInv
<1>2. QED
  BY <1>1, Inductive, PTL

(* No entry of the table ever disagrees with the map in force.                 *)
THEOREM PinsFollowMapAlways == Spec => []PinsFollowMap
<1>1. IInv => PinsFollowMap
  BY DEF IInv
<1>2. QED
  BY <1>1, Inductive, PTL

(* With every physical key up, every event delivered and the table never       *)
(* overfilled, no virtual key is down.                                         *)
THEOREM NoStuckKeyAlways == Spec => []NoStuckKey
<1>1. IInv => NoStuckKey
  <2>1. SUFFICES ASSUME IInv, phys = {}, lost = {}, spilled = {}, NEW v \in vdown
                 PROVE  FALSE
    BY DEF NoStuckKey
  <2>2. PICK i \in 1..Len(held) : held[i].virt = v
    BY <2>1 DEF IInv, NoOrphanKey, HeldVirts
  <2>3. QED
    BY <2>1, <2>2 DEF IInv, HeldWasPressed
<1>2. QED
  BY <1>1, Inductive, PTL

(* Only a configure changes the map, and it releases every key it finds down.  *)
THEOREM RemapReleases == Spec => RemapReleasesAll
<1>1. ASSUME IInv, [Next]_vars
      PROVE  [active'.map # active.map /\ spilled = {} => vdown' = {}]_vars
  <2>1. SUFFICES ASSUME active' # active, spilled = {}
                 PROVE  vdown' = {}
    OBVIOUS
  <2>2. PICK dc \in Configs, global \in GlobalAlphas : Configure(dc, global)
    BY <1>1, <2>1 DEF Next, KeyNext, Press, Release, Repeat, LoseEvent, KeyEvent,
       Wheel, ImuFrame, WriteCalibration, vars, confVars
  <2>3. QED
    BY <1>1, <2>1, <2>2 DEF Configure, ReleaseHeld, IInv, NoOrphanKey
<1>2. QED
  BY <1>1, Inductive, PTL DEF Spec, RemapReleasesAll

(* A calibration that was once loaded is only ever replaced by another one.    *)
THEOREM CalibrationKept == Spec => CalibrationSurvives
<1>1. ASSUME [Next]_vars
      PROVE  [cal # Identity /\ calfile = Unreadable => cal' = cal]_vars
  BY <1>1 DEF Next, KeyNext, Press, Release, Repeat, LoseEvent, KeyEvent, Wheel,
     ImuFrame, Configure, LoadedCal, WriteCalibration, vars, imuVars
<1>2. QED
  BY <1>1, PTL DEF Spec, CalibrationSurvives

(***************************************************************************)
(* The wheel.                                                              *)
(***************************************************************************)

(* The cast drops less than a click, towards zero.                         *)
LEMMA CastDrops ==
    ASSUME NEW x \in Int
    PROVE  /\ WholeClicks(x) \in Int
           /\ -Unit < Remainder(x) /\ Remainder(x) < Unit
           /\ -Unit < x => WholeClicks(x) >= 0
           /\ x < Unit => WholeClicks(x) <= 0
<1> DEFINE q(y) == y \div Unit
           r(y) == y % Unit
<1>1. Unit \in Nat \ {0}
  BY ProfilesAssumption
<1>2. ASSUME NEW y \in Int
      PROVE  q(y) \in Int /\ r(y) \in 0..(Unit - 1) /\ y = Unit * q(y) + r(y)
  BY <1>1
<1>3. ASSUME NEW y \in Int, y >= 0 PROVE q(y) >= 0 /\ (y < Unit => q(y) = 0)
  BY <1>1, <1>3
<1> HIDE DEF q, r
<1>4. CASE x >= 0
  <2>1. WholeClicks(x) = q(x)
    BY <1>4 DEF WholeClicks, q
  <2>2. q(x) \in Int /\ r(x) \in 0..(Unit - 1) /\ x = Unit * q(x) + r(x)
    BY <1>2
  <2>3. q(x) >= 0 /\ (x < Unit => q(x) = 0)
    BY <1>3, <1>4
  <2>4. Remainder(x) = r(x)
    BY <1>1, <2>1, <2>2 DEF Remainder
  <2>5. -Unit < Remainder(x) /\ Remainder(x) < Unit
    BY <1>1, <2>2, <2>4
  <2>6. /\ WholeClicks(x) \in Int
        /\ -Unit < x => WholeClicks(x) >= 0
        /\ x < Unit => WholeClicks(x) <= 0
    BY <2>1, <2>2, <2>3
  <2> QED BY <2>5, <2>6
<1>5. CASE ~(x >= 0)
  <2>1. PICK y \in Int : y = -x /\ x = -y /\ y >= 0
    BY <1>5
  <2>2. WholeClicks(x) = -q(y)
    BY <1>5, <2>1 DEF WholeClicks, q
  <2>3. q(y) \in Int /\ r(y) \in 0..(Unit - 1) /\ y = Unit * q(y) + r(y)
    BY <1>2
  <2>4. Remainder(x) = -r(y)
    <3>1. Unit * (-q(y)) = -(Unit * q(y))
      BY <1>1, <2>3
    <3> QED BY <1>1, <2>1, <2>2, <2>3, <3>1 DEF Remainder
  <2>5. q(y) >= 0 /\ (y < Unit => q(y) = 0)
    BY <1>3, <2>1
  <2>6. -Unit < Remainder(x) /\ Remainder(x) < Unit
    BY <1>1, <2>3, <2>4
  <2>7. /\ WholeClicks(x) \in Int
        /\ -Unit < x => WholeClicks(x) >= 0
        /\ x < Unit => WholeClicks(x) <= 0
    BY <1>1, <2>1, <2>2, <2>3, <2>5
  <2> QED BY <2>6, <2>7
<1> QED BY <1>4, <1>5

(* Less than one click is carried over, whatever speeds and reversals came. *)
THEOREM LessThanAClickAlways == Spec => []LessThanAClickPending
<1>1. Unit \in Nat \ {0}
  BY ProfilesAssumption
<1>2. Init => LessThanAClickPending
  BY <1>1 DEF Init, LessThanAClickPending
<1>3. ASSUME LessThanAClickPending, IInv, [Next]_vars PROVE LessThanAClickPending'
  <2>1. ASSUME NEW d \in Notches, Wheel(d) PROVE LessThanAClickPending'
    <3>1. accum' = Remainder(accum + d * active.scroll)
      BY <2>1 DEF Wheel
    <3>2. accum + d * active.scroll \in Int
      BY <1>3, SumIsInt DEF IInv
    <3>3. -Unit < accum' /\ accum' < Unit
      BY <3>1, <3>2, CastDrops
    <3> QED BY <3>3 DEF LessThanAClickPending
  <2>2. (\A d \in Notches : ~Wheel(d)) => accum' = accum
    BY <1>3 DEF Next, KeyNext, Press, Release, Repeat, LoseEvent, KeyEvent, ImuFrame,
       Configure, WriteCalibration, vars, wheelVars
  <2> QED BY <1>1, <1>3, <2>1, <2>2 DEF LessThanAClickPending
<1> QED BY <1>2, <1>3, Inductive, PTL DEF Spec

(* A notch never scrolls against its own direction: what is carried over is   *)
(* less than a click, and no profile scrolls backwards (profile_validate      *)
(* refuses speeds that are not positive).                                     *)
THEOREM NoBackwardScrollAlways ==
    ASSUME Scrolls \subseteq Nat PROVE Spec => NoBackwardScroll
<1>1. ASSUME IInv, LessThanAClickPending, NEW d \in Notches, Wheel(d)
      PROVE  clicks' * d >= 0
  <2> DEFINE s == active.scroll
             x == accum + d * s
  <2>1. Unit \in Nat \ {0} /\ d \in Int /\ accum \in Int
    BY <1>1, ProfilesAssumption, PipelineAssumption DEF IInv, TypeOK
  <2>2. s \in Nat
    BY <1>1, <2>1 DEF IInv, TypeOK, Resolved
  <2>3. -Unit < accum /\ accum < Unit /\ clicks' = WholeClicks(x)
    BY <1>1 DEF LessThanAClickPending, Wheel
  <2> HIDE DEF s
  <2>4. d * s \in Int /\ (d >= 0 => d * s >= 0) /\ (d <= 0 => d * s <= 0)
    BY <2>1, <2>2
  <2>5. x \in Int /\ (d >= 0 => -Unit < x) /\ (d <= 0 => x < Unit)
    BY <2>1, <2>3, <2>4
  <2> HIDE DEF x
  <2>6. clicks' \in Int /\ (d >= 0 => clicks' >= 0) /\ (d <= 0 => clicks' <= 0)
    BY <2>3, <2>5, CastDrops
  <2>7. \A a, b \in Int : (a >= 0 /\ b >= 0) \/ (a <= 0 /\ b <= 0) => a * b >= 0
    OBVIOUS
  <2>8. (d >= 0 \/ d <= 0) /\ 0 \in Int
    BY <2>1
  <2> QED BY <2>1, <2>6, <2>7, <2>8, Zenon
<1>2. IInv /\ LessThanAClickPending =>
        [\A n \in Notches : Wheel(n) => clicks' * n >= 0]_vars
  BY <1>1
<1> QED BY <1>2, Inductive, LessThanAClickAlways, PTL DEF NoBackwardScroll

(***************************************************************************)
(* The held table implements KeyPins.  The mapped variable is described by *)
(* what the table says of a pair of keys; then each action is one of the   *)
(* abstract ones.                                                          *)
(***************************************************************************)
Pinned(k, v) == \E j \in 1..Len(held) : held[j].phys = k /\ held[j].virt = v

PinFacts ==
    /\ PinOf \in [Keys -> Keys \cup {Absent}]
    /\ \A k, v \in Keys : PinOf[k] = v <=> Pinned(k, v)
    /\ \A k \in Keys : PinOf[k] = Absent <=> HeldAt(k) = {}

LEMMA PinsAreEntries == IInv => PinFacts
<1> SUFFICES ASSUME IInv PROVE PinFacts
  OBVIOUS
<1>1. TypeOK /\ HeldOnce /\ held \in Seq(Pin) /\ Absent \notin Keys
  BY PipelineAssumption DEF IInv, TypeOK
<1>2. \A j \in 1..Len(held) : held[j].phys \in Keys /\ held[j].virt \in Keys
  <2>1. \A j \in 1..Len(held) : held[j] \in Pin
    BY <1>1
  <2> QED BY <2>1 DEF Pin
<1>3. ASSUME NEW k \in Keys
      PROVE  /\ HeldAt(k) = {} => PinOf[k] = Absent
             /\ HeldAt(k) # {} => /\ HeldIndex(k) \in 1..Len(held)
                                  /\ held[HeldIndex(k)].phys = k
                                  /\ PinOf[k] = held[HeldIndex(k)].virt
  <2>1. PinOf[k] = IF HeldAt(k) = {} THEN Absent ELSE held[HeldIndex(k)].virt
    BY DEF PinOf
  <2>2. HeldAt(k) # {} => HeldIndex(k) \in 1..Len(held) /\ held[HeldIndex(k)].phys = k
    BY <1>1, HeldIndexFound
  <2> QED BY <2>1, <2>2
<1>4. \A k \in Keys : PinOf[k] \in Keys \cup {Absent}
  BY <1>2, <1>3
<1>5. PinOf \in [Keys -> Keys \cup {Absent}]
  <2>1. PinOf = [k \in Keys |-> PinOf[k]]
    BY DEF PinOf
  <2> QED BY <1>4, <2>1
<1>6. ASSUME NEW k \in Keys, NEW v \in Keys PROVE PinOf[k] = v <=> Pinned(k, v)
  <2>1. ASSUME PinOf[k] = v PROVE Pinned(k, v)
    BY <1>1, <1>3, <2>1 DEF Pinned
  <2>2. ASSUME Pinned(k, v) PROVE PinOf[k] = v
    <3>1. PICK j \in 1..Len(held) : held[j].phys = k /\ held[j].virt = v
      BY <2>2 DEF Pinned
    <3>2. HeldAt(k) # {}
      BY <3>1 DEF HeldAt
    <3>3. HeldIndex(k) = j
      BY <1>1, <1>3, <3>1, <3>2 DEF HeldOnce
    <3> QED BY <1>3, <3>1, <3>2, <3>3
  <2> QED BY <2>1, <2>2
<1>7. ASSUME NEW k \in Keys PROVE PinOf[k] = Absent <=> HeldAt(k) = {}
  <2>1. CASE HeldAt(k) = {}
    BY <1>3, <2>1
  <2>2. CASE HeldAt(k) # {}
    <3>1. PinOf[k] \in Keys
      BY <1>2, <1>3, <2>2
    <3> QED BY <1>1, <2>2, <3>1
  <2> QED BY <2>1, <2>2
<1> QED BY <1>5, <1>6, <1>7 DEF PinFacts

(* The mapped variable after a step, from what the step does to the entries. *)
LEMMA PinsAfter ==
    ASSUME PinFacts, PinFacts', NEW new \in [Keys -> Keys \cup {Absent}],
           \A k, v \in Keys : Pinned(k, v)' <=> new[k] = v
    PROVE  PinOf' = new
<1>1. PinOf' \in [Keys -> Keys \cup {Absent}]
  BY DEF PinFacts
<1>2. \A k, v \in Keys : PinOf'[k] = v <=> new[k] = v
  BY DEF PinFacts
<1>3. ASSUME NEW k \in Keys PROVE PinOf'[k] = new[k]
  BY <1>1, <1>2
<1> QED BY <1>1, <1>3

LEMMA KeyEventPins ==
    ASSUME IInv, IInv', PinFacts, PinFacts', NEW k \in Keys, NEW value \in {0, 1, 2},
           KeyEvent(k, value)
    PROVE  Pins!PinNext
<1> DEFINE n == Len(held)
           i == HeldIndex(k)
<1>1. /\ TypeOK /\ HeldOnce /\ held \in Seq(Pin) /\ n \in Nat
      /\ active.map \in [Keys -> Keys] /\ active.map[k] \in Keys /\ Absent \notin Keys
  BY PipelineAssumption DEF IInv, TypeOK, Resolved
<1>2. /\ PinOf \in [Keys -> Keys \cup {Absent}]
      /\ \A a, v \in Keys : PinOf[a] = v <=> Pinned(a, v)
      /\ \A a \in Keys : PinOf[a] = Absent <=> HeldAt(a) = {}
  BY DEF PinFacts
<1>3. ASSUME HeldAt(k) # {}
      PROVE  /\ i \in 1..n /\ held[i].phys = k /\ held[i].virt \in Keys
             /\ PinOf[k] = held[i].virt
  <2>1. i \in 1..n /\ held[i].phys = k
    BY <1>1, <1>3, HeldIndexFound
  <2>2. held[i] \in Pin
    BY <1>1, <2>1
  <2>3. held[i].virt \in Keys
    BY <2>2 DEF Pin
  <2>4. Pinned(k, held[i].virt)
    BY <2>1 DEF Pinned
  <2> QED BY <1>2, <2>1, <2>3, <2>4
<1>4. CASE HeldAt(k) # {} /\ value = 0
  <2>1. /\ held' = SwapRemove(i) /\ vdown' = vdown \ {held[i].virt}
    BY <1>4 DEF KeyEvent, VirtualKeys
  <2>2. /\ Len(held') = n - 1
        /\ \A j \in 1..(n - 1) : held'[j] = IF j = i THEN held[n] ELSE held[j]
        /\ \A j \in 1..n : j # i => \E m \in 1..(n - 1) : held'[m] = held[j]
    <3>1. i \in 1..n
      BY <1>3, <1>4
    <3> HIDE DEF i
    <3>2. /\ Len(SwapRemove(i)) = Len(held) - 1
          /\ \A j \in 1..(Len(held) - 1) :
                SwapRemove(i)[j] = IF j = i THEN held[Len(held)] ELSE held[j]
          /\ \A j \in 1..Len(held) : j # i =>
                \E m \in 1..(Len(held) - 1) : SwapRemove(i)[m] = held[j]
      BY <1>1, <3>1, SwapRemoveKeeps
    <3> QED BY <2>1, <3>2
  <2>3. \A a, v \in Keys : Pinned(a, v)' <=> a # k /\ Pinned(a, v)
    <3>1. ASSUME NEW a \in Keys, NEW v \in Keys, Pinned(a, v)' PROVE a # k /\ Pinned(a, v)
      <4>1. PICK j \in 1..(n - 1) : held'[j].phys = a /\ held'[j].virt = v
        BY <2>2, <3>1 DEF Pinned
      <4>2. PICK o \in 1..n : o # i /\ held'[j] = held[o]
        <5>1. i \in 1..n
          BY <1>3, <1>4
        <5> HIDE DEF i
        <5>2. j \in 1..n /\ j # n /\ n \in 1..n
          BY <1>1
        <5>3. CASE j = i
          <6>1. held'[j] = held[n]
            BY <2>2, <5>3
          <6> QED BY <5>2, <5>3, <6>1
        <5>4. CASE j # i
          <6>1. held'[j] = held[j]
            BY <2>2, <5>4
          <6> QED BY <5>2, <5>4, <6>1
        <5> QED BY <5>3, <5>4
      <4>3. held[o].phys = a /\ held[o].virt = v
        BY <4>1, <4>2
      <4> HIDE DEF i
      <4>4. a # k
        BY <1>1, <1>3, <1>4, <4>2, <4>3 DEF HeldOnce
      <4> QED BY <4>2, <4>3, <4>4 DEF Pinned
    <3>2. ASSUME NEW a \in Keys, NEW v \in Keys, a # k, Pinned(a, v) PROVE Pinned(a, v)'
      <4>1. PICK j \in 1..n : held[j].phys = a /\ held[j].virt = v
        BY <3>2 DEF Pinned
      <4>2. j # i
        BY <1>3, <1>4, <3>2, <4>1
      <4>3. PICK m \in 1..(n - 1) : held'[m] = held[j]
        BY <2>2, <4>2
      <4> QED BY <2>2, <4>1, <4>3 DEF Pinned
    <3> QED BY <3>1, <3>2
  <2>4. PinOf' = [PinOf EXCEPT ![k] = Absent]
    <3>1. \A a, v \in Keys : Pinned(a, v)' <=> [PinOf EXCEPT ![k] = Absent][a] = v
      BY <1>1, <1>2, <2>3
    <3> QED BY <1>2, <3>1, PinsAfter
  <2>5. Pins!PinUp(k)
    BY <1>1, <1>3, <1>4, <2>1, <2>4 DEF Pins!PinUp
  <2> QED BY <2>5 DEF Pins!PinNext
<1>5. CASE HeldAt(k) # {} /\ value # 0
  <2>1. held' = held /\ vdown' \in {vdown, vdown \cup {held[i].virt}}
    BY <1>5 DEF KeyEvent, VirtualKeys
  <2>2. PinOf' = PinOf
    BY <2>1 DEF PinOf, HeldAt, HeldIndex
  <2>3. Pins!PinAgain(k)
    BY <1>1, <1>3, <1>5, <2>1, <2>2 DEF Pins!PinAgain
  <2> QED BY <2>3 DEF Pins!PinNext
<1>6. CASE HeldAt(k) = {} /\ value # 0 /\ Fits
  <2> DEFINE to == active.map[k]
             entry == [phys |-> k, virt |-> to]
  <2>1. held' = Append(held, entry) /\ vdown' \in {vdown, vdown \cup {to}}
    BY <1>6 DEF KeyEvent, VirtualKeys
  <2>2. entry \in Pin /\ to \in Keys
    BY <1>1 DEF Pin
  <2>3. /\ Len(held') = n + 1 /\ held'[n + 1] = entry
        /\ \A j \in 1..n : held'[j] = held[j]
    BY <1>1, <2>1, <2>2
  <2>4. \A a, v \in Keys : Pinned(a, v)' <=> Pinned(a, v) \/ (a = k /\ v = to)
    BY <1>1, <2>3 DEF Pinned
  <2>5. PinOf[k] = Absent
    BY <1>2, <1>6
  <2> HIDE DEF to
  <2>6. PinOf' = [PinOf EXCEPT ![k] = to]
    <3>1. \A a, v \in Keys : Pinned(a, v)' <=> [PinOf EXCEPT ![k] = to][a] = v
      BY <1>1, <1>2, <2>2, <2>4, <2>5
    <3> QED BY <1>2, <2>2, <3>1, PinsAfter
  <2>7. Pins!PinDown(k, to)
    BY <2>1, <2>5, <2>6 DEF Pins!PinDown
  <2> QED BY <2>2, <2>7 DEF Pins!PinNext
<1>7. CASE HeldAt(k) = {} /\ (value = 0 \/ ~Fits)
  <2> DEFINE to == active.map[k]
  <2>1. /\ held' = held
        /\ vdown' \in {vdown, vdown \cup {to}, vdown \ {to}}
        /\ value = 0 => vdown' = vdown \ {to}
        /\ value = 1 => vdown' = vdown \cup {to}
        /\ value = 2 => vdown' = vdown
    BY <1>7 DEF KeyEvent, VirtualKeys
  <2>2. PinOf' = PinOf
    BY <2>1 DEF PinOf, HeldAt, HeldIndex
  <2>3. CASE value \in {0, 1}
    <3>1. Pins!PassThrough(to)
      BY <2>1, <2>2, <2>3 DEF Pins!PassThrough
    <3> QED BY <1>1, <3>1 DEF Pins!PinNext
  <2>4. CASE value = 2
    <3>1. Pins!PassThrough(to)
      BY <2>1, <2>2, <2>4 DEF Pins!PassThrough
    <3> QED BY <1>1, <3>1 DEF Pins!PinNext
  <2> QED BY <2>3, <2>4
<1> QED BY <1>4, <1>5, <1>6, <1>7

(* Pinned keys that are down are all a configure lets go of.                *)
LEMMA ConfigurePins ==
    ASSUME IInv, PinFacts, PinFacts', ReleaseHeld
    PROVE  Pins!PinNext
<1>1. held' = <<>> /\ vdown' = vdown \ HeldVirts
  BY DEF ReleaseHeld
<1>2. /\ vdown \subseteq Keys /\ Absent \notin Keys /\ held \in Seq(Pin)
      /\ PinOf \in [Keys -> Keys \cup {Absent}]
      /\ \A a, v \in Keys : PinOf[a] = v <=> Pinned(a, v)
  BY PipelineAssumption DEF IInv, TypeOK, PinFacts
<1>3. PinOf' = [k \in Keys |-> Absent]
  <2>1. Len(held') = 0
    BY <1>1
  <2>2. \A k, v \in Keys : Pinned(k, v)' <=> [a \in Keys |-> Absent][k] = v
    BY <1>2, <2>1 DEF Pinned
  <2> QED BY <2>2, PinsAfter
<1>4. ASSUME NEW v \in Keys PROVE v \in HeldVirts <=> v \in {PinOf[k] : k \in Keys}
  <2>1. \A j \in 1..Len(held) : held[j].phys \in Keys
    <3>1. \A j \in 1..Len(held) : held[j] \in Pin
      BY <1>2
    <3> QED BY <3>1 DEF Pin
  <2>2. v \in HeldVirts <=> \E a \in Keys : Pinned(a, v)
    BY <2>1 DEF HeldVirts, Pinned
  <2> QED BY <1>2, <2>2
<1>5. vdown' = vdown \ {PinOf[k] : k \in Keys}
  BY <1>1, <1>2, <1>4
<1> QED BY <1>3, <1>5 DEF Pins!PinNext, Pins!LetGo

LEMMA StepImplementsPins ==
    ASSUME IInv, IInv', PinFacts, PinFacts', [Next]_vars
    PROVE  [Pins!PinNext]_(Pins!pinVars)
<1>1. ASSUME held' = held, vdown' = vdown PROVE UNCHANGED Pins!pinVars
  BY <1>1 DEF Pins!pinVars, PinOf, HeldAt, HeldIndex
<1>2. ASSUME NEW k \in Keys, Press(k) \/ Release(k) \/ Repeat(k) PROVE Pins!PinNext
  <2>1. KeyEvent(k, 0) \/ KeyEvent(k, 1) \/ KeyEvent(k, 2)
    BY <1>2 DEF Press, Release, Repeat
  <2> QED BY <2>1, KeyEventPins
<1>3. ASSUME NEW dc \in Configs, NEW global \in GlobalAlphas, Configure(dc, global)
      PROVE  Pins!PinNext
  BY <1>3, ConfigurePins DEF Configure
<1>4. ASSUME NEW k \in Keys, LoseEvent(k) PROVE UNCHANGED Pins!pinVars
  BY <1>1, <1>4 DEF LoseEvent
<1>5. ASSUME NEW d \in Notches, Wheel(d) PROVE UNCHANGED Pins!pinVars
  BY <1>1, <1>5 DEF Wheel, keyVars
<1>6. CASE ImuFrame
  BY <1>1, <1>6 DEF ImuFrame, keyVars
<1>7. ASSUME NEW c \in Calibs \cup {Unreadable}, WriteCalibration(c)
      PROVE  UNCHANGED Pins!pinVars
  BY <1>1, <1>7 DEF WriteCalibration, keyVars
<1>8. CASE UNCHANGED vars
  BY <1>1, <1>8 DEF vars, keyVars
<1> QED BY <1>2, <1>3, <1>4, <1>5, <1>6, <1>7, <1>8 DEF Next, KeyNext

(* The array with its limit and its swap-removal behaves as the pins of         *)
(* KeyPins: a key goes up as the virtual key it went down as, and a configure   *)
(* lets go of every pin.                                                        *)
THEOREM TableImplementsPins == Spec => ImplementsPins
<1>1. ASSUME Init PROVE Pins!PinInit
  <2>1. held = <<>> /\ vdown = {} /\ Len(held) = 0
    BY <1>1 DEF Init
  <2>2. \A k \in Keys : HeldAt(k) = {}
    BY <2>1 DEF HeldAt
  <2>3. PinOf = [k \in Keys |-> Absent]
    BY <2>2 DEF PinOf
  <2> QED BY <2>1, <2>3 DEF Pins!PinInit
<1>2. IInv /\ IInv' /\ [Next]_vars => [Pins!PinNext]_(Pins!pinVars)
  <2>1. IInv => PinFacts
    BY PinsAreEntries
  <2>2. IInv' => PinFacts'
    BY PinsAreEntries, PTL
  <2> QED BY <2>1, <2>2, StepImplementsPins
<1> QED BY <1>1, <1>2, Inductive, PTL DEF Spec, ImplementsPins, Pins!PinSpec

(***************************************************************************)
(* A remote that reports one button at a time.  An entry may stay behind   *)
(* when a release is lost, and its virtual key may have been released      *)
(* since as another key's: HeldKeyIsDown alone is not inductive, KeyDown   *)
(* leaves such entries out.                                                *)
(***************************************************************************)
KeyDown == \A i \in 1..Len(held) : held[i].phys \notin lost => held[i].virt \in vdown
OneButton == \A j, k \in phys : j = k

LEMMA KeyDownStep ==
    ASSUME IInv, IInv', [Next]_vars, KeyDown, OneButton, OneButton',
           \A k \in Keys : ~Repeat(k)
    PROVE  KeyDown'
<1>1. TypeOK /\ HeldOnce /\ held \in Seq(Pin) /\ HeldWasPressed /\ HeldWasPressed'
  BY DEF IInv, TypeOK
<1>2. ASSUME NEW k \in Keys, Press(k) PROVE KeyDown'
  <2>1. phys = {} /\ KeyEvent(k, 1) /\ lost' = lost \ {k}
    BY <1>2 DEF Press, OneButton, KeyEvent
  <2>2. \A j \in 1..Len(held) : held[j].phys \in lost
    BY <1>1, <2>1 DEF HeldWasPressed
  <2>3. CASE HeldAt(k) # {}
    <3>1. HeldIndex(k) \in 1..Len(held) /\ HeldAt(k) = {HeldIndex(k)}
      BY <1>1, <2>3, HeldIndexFound
    <3>2. held' = held /\ vdown' = vdown \cup {held[HeldIndex(k)].virt}
      BY <2>1, <2>3 DEF KeyEvent, VirtualKeys
    <3>3. \A j \in 1..Len(held) : held[j].phys = k => j = HeldIndex(k)
      BY <3>1 DEF HeldAt
    <3> QED BY <2>1, <2>2, <3>2, <3>3 DEF KeyDown
  <2>4. CASE HeldAt(k) = {}
    <3>1. \A j \in 1..Len(held) : held[j].phys # k
      BY <2>4 DEF HeldAt
    <3>2. CASE held' = held
      BY <2>1, <2>2, <3>1, <3>2 DEF KeyDown
    <3>3. CASE Fits
      <4> DEFINE pinned == [phys |-> k, virt |-> active.map[k]]
      <4>1. held' = Append(held, pinned) /\ vdown' = vdown \cup {active.map[k]}
        BY <2>1, <2>4, <3>3 DEF KeyEvent, VirtualKeys
      <4>2. pinned \in Pin
        BY <1>1 DEF TypeOK, Resolved, Pin
      <4>3. /\ Len(held') = Len(held) + 1 /\ held'[Len(held) + 1] = pinned
            /\ \A j \in 1..Len(held) : held'[j] = held[j]
        BY <1>1, <4>1, <4>2
      <4>4. ASSUME NEW j \in 1..Len(held'), held'[j].phys \notin lost'
            PROVE  held'[j].virt \in vdown'
        <5>1. j \in 1..Len(held) \/ j = Len(held) + 1
          BY <1>1, <4>3
        <5>2. CASE j \in 1..Len(held)
          BY <2>1, <2>2, <3>1, <4>3, <4>4, <5>2
        <5>3. CASE j = Len(held) + 1
          BY <4>1, <4>3, <5>3
        <5> QED BY <5>1, <5>2, <5>3
      <4> QED BY <4>4 DEF KeyDown
    <3> QED BY <2>1, <2>4, <3>2, <3>3 DEF KeyEvent
  <2> QED BY <2>3, <2>4
<1>3. ASSUME NEW k \in Keys, Release(k) PROVE KeyDown'
  <2>1. phys' = {}
    BY <1>3 DEF Release, OneButton
  <2> QED BY <1>1, <2>1 DEF HeldWasPressed, KeyDown
<1>4. ASSUME NEW k \in Keys, LoseEvent(k) PROVE KeyDown'
  BY <1>4 DEF LoseEvent, KeyDown
<1>5. ASSUME NEW dc \in Configs, NEW global \in GlobalAlphas, Configure(dc, global)
      PROVE  KeyDown'
  <2>1. Len(held') = 0
    BY <1>5 DEF Configure, ReleaseHeld
  <2> QED BY <2>1 DEF KeyDown
<1>6. ASSUME held' = held, vdown' = vdown, lost' = lost PROVE KeyDown'
  BY <1>6 DEF KeyDown
<1>7. ASSUME NEW d \in Notches, Wheel(d) PROVE KeyDown'
  BY <1>6, <1>7 DEF Wheel, keyVars
<1>8. CASE ImuFrame
  BY <1>6, <1>8 DEF ImuFrame, keyVars
<1>9. ASSUME NEW c \in Calibs \cup {Unreadable}, WriteCalibration(c) PROVE KeyDown'
  BY <1>6, <1>9 DEF WriteCalibration, keyVars
<1>10. CASE UNCHANGED vars
  BY <1>6, <1>10 DEF vars, keyVars
<1> QED BY <1>2, <1>3, <1>4, <1>5, <1>7, <1>8, <1>9, <1>10 DEF Next, KeyNext

LEMMA AtMostOne ==
    ASSUME NEW S \in SUBSET Keys, Cardinality(S) <= 1
    PROVE  \A j, k \in S : j = k
<1>1. IsFiniteSet(S) /\ Cardinality(S) \in Nat
  BY PipelineAssumption, FS_Subset, FS_CardinalityType
<1>2. Cardinality(S) = 0 \/ Cardinality(S) = 1
  BY <1>1
<1>3. CASE Cardinality(S) = 0
  BY <1>1, <1>3, FS_EmptySet
<1>4. CASE Cardinality(S) = 1
  BY <1>1, <1>4, FS_Singleton
<1> QED BY <1>2, <1>3, <1>4

LEMMA NothingHeldDown == Init => KeyDown
<1> SUFFICES ASSUME Init PROVE KeyDown
  OBVIOUS
<1>1. Len(held) = 0
  BY DEF Init
<1> QED BY <1>1 DEF KeyDown

(* On a remote that reports one button at a time and no autorepeat, the key     *)
(* held since the last configure is down on the virtual keyboard, unless an     *)
(* event was lost.                                                              *)
THEOREM OneButtonKeyIsDown ==
    ASSUME MaxDown = 1, Repeats = FALSE PROVE Spec => []HeldKeyIsDown
<1>1. Init => OneButton /\ KeyDown
  BY AtMostOne, NothingHeldDown DEF Init, OneButton
<1>2. ASSUME IInv, OneButton, [Next]_vars PROVE OneButton'
  <2>1. ASSUME NEW k \in Keys, k \notin phys, Cardinality(phys) < MaxDown, phys' = phys \cup {k}
        PROVE  OneButton'
    <3>1. phys \in SUBSET Keys
      BY <1>2 DEF IInv, TypeOK
    <3>2. IsFiniteSet(phys) /\ Cardinality(phys) \in Nat
      BY <3>1, PipelineAssumption, FS_Subset, FS_CardinalityType
    <3>3. phys = {}
      BY <2>1, <3>2, FS_EmptySet
    <3> QED BY <2>1, <3>3 DEF OneButton
  <2>2. ASSUME phys' \subseteq phys PROVE OneButton'
    BY <1>2, <2>2 DEF OneButton
  <2> QED BY <1>2, <2>1, <2>2 DEF Next, KeyNext, Press, Release, Repeat, LoseEvent, Wheel,
          ImuFrame, Configure, WriteCalibration, vars, keyVars
<1>3. \A k \in Keys : ~Repeat(k)
  BY DEF Repeat
<1>4. IInv /\ IInv' /\ OneButton /\ KeyDown /\ [Next]_vars => OneButton' /\ KeyDown'
  BY <1>2, <1>3, KeyDownStep
<1>5. KeyDown => HeldKeyIsDown
  BY DEF KeyDown, HeldKeyIsDown
<1> QED BY <1>1, <1>4, <1>5, Inductive, PTL DEF Spec

(* The same of the remote of the run, whose other use is a keyboard.             *)
THEOREM RemoteKeyIsDownAlways == UseSpec => []RemoteKeyIsDown
<1> DEFINE Down == use = "remote" => OneButton /\ KeyDown
<1>1. ASSUME TypeOK, InUse PROVE use = "remote" => OneButton
  BY <1>1, AtMostOne DEF TypeOK, InUse, OneButton
<1>2. UseInit => Init /\ Down /\ InUse
  <2> SUFFICES ASSUME UseInit PROVE Init /\ Down /\ InUse
    OBVIOUS
  <2>1. Init /\ InUse
    BY DEF UseInit
  <2>2. TypeOK
    BY <2>1, InitInv DEF IInv
  <2> QED BY <1>1, <2>1, <2>2, NothingHeldDown
<1>3. [UseNext]_<<vars, use>> => [Next]_vars
  BY DEF UseNext
<1>4. UseSpec => Spec
  BY <1>2, <1>3, PTL DEF UseSpec, Spec
<1>5. ASSUME IInv, IInv', Down, [UseNext]_<<vars, use>> PROVE Down'
  <2>1. CASE UNCHANGED <<vars, use>>
    BY <1>5, <2>1 DEF vars, keyVars, OneButton, KeyDown
  <2>2. ASSUME UseNext, use' = "remote" PROVE OneButton' /\ KeyDown'
    <3>1. use = "remote" /\ [Next]_vars /\ \A k \in Keys : ~Repeat(k)
      BY <2>2 DEF UseNext
    <3>2. OneButton'
      <4>1. phys' \in SUBSET Keys /\ Cardinality(phys') <= 1
        BY <1>5, <2>2 DEF UseNext, InUse, IInv, TypeOK
      <4> QED BY <4>1, AtMostOne DEF OneButton
    <3>3. OneButton /\ KeyDown
      BY <1>5, <3>1
    <3> QED BY <1>5, <3>1, <3>2, <3>3, KeyDownStep
  <2> QED BY <1>5, <2>1, <2>2
<1>6. Down => RemoteKeyIsDown
  BY DEF KeyDown, HeldKeyIsDown, RemoteKeyIsDown
<1>7. UseSpec => []IInv
  BY <1>4, Inductive, PTL
<1> QED BY <1>2, <1>5, <1>6, <1>7, PTL DEF UseSpec
=============================================================================
