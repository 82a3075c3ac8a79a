------------------------- MODULE ConfigStoreProofs -------------------------
(***************************************************************************)
(* Proofs about ConfigStore for any devices, profiles and speeds, any      *)
(* files an administrator starts from and any edits.                       *)
(***************************************************************************)
EXTENDS ConfigStore, TLAPS

----------------------------------------------------------------------------
(* Profiles. *)

LEMMA ProfileInitType == ProfileInit \in Profile
  BY DEF ProfileInit, Profile, NoMap

(* ActiveSource and Merge only ever produce well-formed resolved profiles. *)
LEMMA ResolveType ==
    ASSUME NEW c \in DeviceConfig
    PROVE  Resolve(c) \in Resolved
<1>1. ActiveSource(c) \in Profile
  <2>1. c.profiles \in [Names -> Profile \cup {Absent}] /\ c.profile \in Names
    BY DEF DeviceConfig
  <2>2. Default \in Names
    BY ProfilesAssumption
  <2>3. QED
    BY <2>1, <2>2, ProfileInitType DEF ActiveSource
<1>2. QED
  BY <1>1 DEF Resolve, Merge, Resolved, Profile, OrElse

----------------------------------------------------------------------------
(* Records and files. *)

\* The speeds a record may hold in memory.
InRange(p) ==
    /\ p.scroll \in (0..MaxScroll) \cup {Unset, NaN}
    /\ p.sens \in (0..MaxSens) \cup {Unset, NaN}
SpeedsInRange(c) == \A n \in Names : Defined(c, n) => InRange(c.profiles[n])

LEMMA ConfigFields ==
    ASSUME NEW c \in DeviceConfig
    PROVE  /\ c.profile \in Names /\ c.airmouse \in BOOLEAN /\ c.calib \in Paths \cup {Unset}
           /\ c.profiles \in [Names -> Profile \cup {Absent}]
           /\ c = [profile |-> c.profile, airmouse |-> c.airmouse, calib |-> c.calib,
                   profiles |-> c.profiles]
  BY DEF DeviceConfig

LEMMA DeviceInitType ==
    DeviceInit \in DeviceConfig /\ Loads(DeviceInit) /\ SpeedsInRange(DeviceInit)
<1>1. Default \in Names
  BY ProfilesAssumption
<1>2. DeviceInit \in DeviceConfig
  BY <1>1 DEF DeviceInit, DeviceConfig
<1>3. \A n \in Names : ~Defined(DeviceInit, n)
  BY DEF Defined, DeviceInit
<1>4. \A i \in DOMAIN FileOrder : FileOrder[i] \in Names
  BY ConfigStoreAssumption
<1>5. Invalid(DeviceInit) = {}
  BY <1>3, <1>4 DEF Invalid
<1>6. DeviceInit.profile = Default
  BY DEF DeviceInit
<1>7. Parses(DeviceInit)
  BY <1>2, <1>3, ConfigStoreAssumption DEF Parses, HasSpeed
<1> QED
  BY <1>2, <1>3, <1>5, <1>6, <1>7 DEF Loads, SpeedsInRange

LEMMA ValidInRange ==
    ASSUME NEW p \in Profile, Valid(p)
    PROVE  InRange(p)
<1>1. p.scroll \in Scrolls \cup {Unset} /\ p.sens \in Senses \cup {Unset}
  BY DEF Profile
<1>2. /\ Scrolls \subseteq Int \cup {NaN} /\ Senses \subseteq Int \cup {NaN}
      /\ MaxScroll \in Nat /\ MaxSens \in Nat
  BY ConfigStoreAssumption
<1>3. ASSUME p.scroll \notin {Unset, NaN} PROVE p.scroll \in 0..MaxScroll
  <2>1. p.scroll \in Int /\ 0 < p.scroll /\ p.scroll <= MaxScroll
    BY <1>1, <1>2, <1>3 DEF Valid
  <2> QED BY <2>1, <1>2
<1>4. ASSUME p.sens \notin {Unset, NaN} PROVE p.sens \in 0..MaxSens
  <2>1. p.sens \in Int /\ 0 < p.sens /\ p.sens <= MaxSens
    BY <1>1, <1>2, <1>4 DEF Valid
  <2> QED BY <2>1, <1>2
<1> QED
  BY <1>3, <1>4 DEF InRange

SpoiltByNaN(p) == NaN \in {p.scroll, p.sens}
SpoiltBy(p) == 0 \in {p.scroll, p.sens} \/ SpoiltByNaN(p)

(* A file that loads has no profile the loader would refuse: every profile  *)
(* it defines is listed in it.                                              *)
LEMMA LoadsMeansValid ==
    ASSUME NEW c \in DeviceConfig, Loads(c), NEW n \in Names, Defined(c, n)
    PROVE  Valid(c.profiles[n]) /\ ~SpoiltByNaN(c.profiles[n])
<1>0. Invalid(c) = {} /\ c # Missing /\ ~HasSpeed(c, NaN)
  BY ConfigStoreAssumption DEF Loads, Parses
<1>1. PICK i \in DOMAIN FileOrder : FileOrder[i] = n
  BY ConfigStoreAssumption
<1> QED
  BY <1>0, <1>1 DEF Invalid, HasSpeed, SpoiltByNaN

LEMMA ValidMeansLoads ==
    ASSUME NEW c \in DeviceConfig,
           \A n \in Names : Defined(c, n) => Valid(c.profiles[n]) /\ ~SpoiltByNaN(c.profiles[n]),
           c.profile = Default \/ Defined(c, c.profile)
    PROVE  Loads(c)
<1>1. \A i \in DOMAIN FileOrder : FileOrder[i] \in Names
  BY ConfigStoreAssumption
<1>2. Parses(c)
  BY ConfigStoreAssumption DEF Parses, HasSpeed, SpoiltByNaN
<1> QED
  BY <1>1, <1>2 DEF Loads, Invalid

(* What parsing leaves behind when it stops at a profile it refuses. *)
LEMMA PartialType ==
    ASSUME NEW c \in DeviceConfig
    PROVE  Partial(c) \in DeviceConfig /\ SpeedsInRange(Partial(c))
<1> DEFINE Kept(n) == \E i \in DOMAIN FileOrder :
                          FileOrder[i] = n /\ \A j \in Invalid(c) : i < j
           profiles == [n \in Names |-> IF Kept(n) THEN c.profiles[n] ELSE Absent]
<1>1. Partial(c) = [profile |-> c.profile, airmouse |-> c.airmouse, calib |-> c.calib,
                    profiles |-> profiles]
  BY ConfigFields DEF Partial
<1>2. profiles \in [Names -> Profile \cup {Absent}]
  BY ConfigFields
<1>3. Partial(c) \in DeviceConfig
  BY <1>1, <1>2, ConfigFields DEF DeviceConfig
<1>4. ASSUME NEW n \in Names, Defined(Partial(c), n) PROVE InRange(Partial(c).profiles[n])
  <2>1. Kept(n) /\ Partial(c).profiles[n] = c.profiles[n] /\ c.profiles[n] # Absent
    BY <1>1, <1>4 DEF Defined
  <2>2. PICK i \in DOMAIN FileOrder : FileOrder[i] = n /\ \A j \in Invalid(c) : i < j
    BY <2>1
  <2>3. i \in Nat
    BY <2>2, ConfigStoreAssumption
  <2>4. i \notin Invalid(c)
    BY <2>2, <2>3
  <2>5. Valid(c.profiles[n])
    BY <2>1, <2>2, <2>4 DEF Invalid, Defined
  <2>6. c.profiles[n] \in Profile
    BY <2>1, ConfigFields
  <2> QED
    BY <2>1, <2>5, <2>6, ValidInRange
<1> QED
  BY <1>3, <1>4 DEF SpeedsInRange

(* Whatever a file holds, loading it leaves a record of the right type. *)
LEMMA LoadFileType ==
    ASSUME NEW f \in DeviceConfig \cup {Missing, Broken}
    PROVE  /\ LoadFile(f) = [ok |-> LoadFile(f).ok, dc |-> LoadFile(f).dc]
           /\ LoadFile(f).dc \in DeviceConfig
           /\ SpeedsInRange(LoadFile(f).dc)
           /\ LoadFile(f).ok \in BOOLEAN
           /\ LoadFile(f).ok => Loads(LoadFile(f).dc)
<1>0. {Missing, Broken} \cap DeviceConfig = {}
  BY ConfigStoreAssumption
<1>1. CASE f = Missing
  BY <1>1, DeviceInitType DEF LoadFile
<1>2. CASE f = Broken /\ f # Missing
  BY <1>2, DeviceInitType DEF LoadFile, Parses
<1>3. CASE f \in DeviceConfig /\ ~Parses(f)
  <2>1. LoadFile(f) = [ok |-> FALSE, dc |-> DeviceInit]
    BY <1>0, <1>3 DEF LoadFile
  <2> QED BY <2>1, DeviceInitType
<1>4. CASE f \in DeviceConfig /\ Parses(f)
  <2>1. LoadFile(f) = [ok |-> Loads(f), dc |-> IF Loads(f) THEN f ELSE Partial(f)]
    BY <1>0, <1>4 DEF LoadFile
  <2>2. CASE Loads(f)
    <3>1. LoadFile(f) = [ok |-> TRUE, dc |-> f]
      BY <2>1, <2>2
    <3>2. SpeedsInRange(f)
      <4>1. ASSUME NEW n \in Names, Defined(f, n) PROVE InRange(f.profiles[n])
        <5>1. Valid(f.profiles[n])
          BY <1>4, <2>2, <4>1, LoadsMeansValid
        <5>2. f.profiles[n] \in Profile
          BY <1>4, <4>1, ConfigFields DEF Defined
        <5> QED BY <5>1, <5>2, ValidInRange
      <4> QED BY <4>1 DEF SpeedsInRange
    <3> QED BY <1>4, <2>2, <3>1, <3>2
  <2>3. CASE ~Loads(f)
    <3>1. LoadFile(f) = [ok |-> FALSE, dc |-> Partial(f)]
      BY <2>1, <2>3 DEF Loads
    <3> QED BY <1>4, <3>1, PartialType
  <2> QED BY <2>2, <2>3
<1> QED
  BY <1>1, <1>2, <1>3, <1>4

LEMMA NamedInType ==
    ASSUME NEW s \in StateTable \cup {Missing, Broken}, NEW id \in Ids
    PROVE  NamedIn(s, id) \in Names \cup {NoName}
  BY DEF NamedIn, StateTable

(* The name in state.toml replaces the one in the file, and nothing else. *)
LEMMA LoadRemoteIs ==
    ASSUME NEW f \in DeviceConfig \cup {Missing, Broken},
           NEW s \in StateTable \cup {Missing, Broken}, NEW id \in Ids
    PROVE  /\ LoadRemote(f, s, id).ok = LoadFile(f).ok
           /\ LoadRemote(f, s, id).dc \in DeviceConfig
           /\ LoadRemote(f, s, id) = [ok |-> LoadFile(f).ok, dc |-> LoadRemote(f, s, id).dc]
           /\ LoadRemote(f, s, id).dc.profiles = LoadFile(f).dc.profiles
           /\ LoadRemote(f, s, id).dc.profile =
                 IF LoadFile(f).ok /\ NamedIn(s, id) # NoName THEN NamedIn(s, id)
                 ELSE LoadFile(f).dc.profile
           /\ LoadRemote(f, s, id).dc = [LoadFile(f).dc EXCEPT !.profile =
                 IF LoadFile(f).ok /\ NamedIn(s, id) # NoName THEN NamedIn(s, id) ELSE @]
<1> DEFINE l == LoadFile(f)
<1>1. l = [ok |-> l.ok, dc |-> l.dc] /\ l.dc \in DeviceConfig
  BY LoadFileType
<1>2. /\ l.dc.profile \in Names /\ l.dc.airmouse \in BOOLEAN /\ l.dc.calib \in Paths \cup {Unset}
      /\ l.dc.profiles \in [Names -> Profile \cup {Absent}]
      /\ l.dc = [profile |-> l.dc.profile, airmouse |-> l.dc.airmouse, calib |-> l.dc.calib,
                 profiles |-> l.dc.profiles]
  BY <1>1, ConfigFields
<1>3. LoadRemote(f, s, id) = IF l.ok /\ NamedIn(s, id) # NoName
                             THEN [l EXCEPT !.dc.profile = NamedIn(s, id)] ELSE l
  BY DEF LoadRemote
<1>4. NamedIn(s, id) \in Names \cup {NoName}
  BY NamedInType
<1> HIDE DEF l
<1>5. CASE l.ok /\ NamedIn(s, id) # NoName
  <2> DEFINE c == [profile |-> NamedIn(s, id), airmouse |-> l.dc.airmouse,
                   calib |-> l.dc.calib, profiles |-> l.dc.profiles]
  <2>1. LoadRemote(f, s, id) = [ok |-> l.ok, dc |-> c]
    BY <1>1, <1>2, <1>3, <1>5
  <2>2. c \in DeviceConfig
    BY <1>2, <1>4, <1>5 DEF DeviceConfig
  <2>3. c = [l.dc EXCEPT !.profile = NamedIn(s, id)]
    BY <1>2
  <2> QED BY <2>1, <2>2, <2>3, <1>5 DEF l
<1>6. CASE ~(l.ok /\ NamedIn(s, id) # NoName)
  <2>1. LoadRemote(f, s, id) = l
    BY <1>3, <1>6
  <2>2. l.dc = [l.dc EXCEPT !.profile = @]
    BY <1>2
  <2> QED BY <1>1, <1>2, <2>1, <2>2, <1>6 DEF l
<1> QED BY <1>5, <1>6

LEMMA LoadRemoteType ==
    ASSUME NEW f \in DeviceConfig \cup {Missing, Broken},
           NEW s \in StateTable \cup {Missing, Broken}, NEW id \in Ids
    PROVE  LoadRemote(f, s, id).dc \in DeviceConfig /\ SpeedsInRange(LoadRemote(f, s, id).dc)
<1> DEFINE c == LoadRemote(f, s, id).dc
<1>1. c \in DeviceConfig /\ c.profiles = LoadFile(f).dc.profiles
  BY LoadRemoteIs
<1>2. SpeedsInRange(LoadFile(f).dc)
  BY LoadFileType
<1> HIDE DEF c
<1>3. SpeedsInRange(c)
  BY <1>1, <1>2 DEF SpeedsInRange, Defined
<1> QED
  BY <1>1, <1>3 DEF c

LEMMA EffectiveType ==
    ASSUME NEW c \in DeviceConfig
    PROVE  Effective(c) \in [profile : Resolved, calib : Paths \cup {Unset}]
  BY ResolveType, ConfigFields DEF Effective

----------------------------------------------------------------------------
(* What a bus method does to a record.                                      *)

LEMMA EnsuredType ==
    ASSUME NEW c \in DeviceConfig
    PROVE  /\ Ensured(c) \in Profile
           /\ SpeedsInRange(c) => InRange(Ensured(c))
           /\ Loads(c) => Valid(Ensured(c))
<1>1. c.profile \in Names /\ c.profiles \in [Names -> Profile \cup {Absent}]
  BY ConfigFields
<1>2. CASE Defined(c, c.profile)
  <2>1. Ensured(c) = c.profiles[c.profile] /\ c.profiles[c.profile] # Absent
    BY <1>2 DEF Ensured, Defined
  <2>2. Loads(c) => Valid(c.profiles[c.profile])
    BY <1>1, <1>2, LoadsMeansValid
  <2> QED BY <1>1, <1>2, <2>1, <2>2 DEF SpeedsInRange
<1>3. CASE ~Defined(c, c.profile)
  <2>1. Ensured(c) = ProfileInit
    BY <1>3 DEF Ensured
  <2>2. InRange(ProfileInit) /\ Valid(ProfileInit)
    BY DEF InRange, Valid, ProfileInit
  <2> QED BY <2>1, <2>2, ProfileInitType
<1> QED BY <1>2, <1>3

\* What a method may make of a record: the active profile or the calibration is
\* another, within the limits; a speed of 0 and a NaN are the ways to a record that does not load.
Mutation(c, d) ==
    /\ d \in DeviceConfig /\ d.profile = c.profile
    /\ \A n \in Names : Defined(c, n) => Defined(d, n)
    /\ SpeedsInRange(c) => SpeedsInRange(d)
    /\ Loads(c) => Loads(d) \/ Spoils(d)

LEMMA WithActiveIs ==
    ASSUME NEW c \in DeviceConfig, NEW p \in Profile,
           SpeedsInRange(c) => InRange(p), Loads(c) => Valid(p) \/ SpoiltBy(p)
    PROVE  Mutation(c, WithActive(c, p))
<1> DEFINE d == WithActive(c, p)
           profiles == [c.profiles EXCEPT ![c.profile] = p]
<1>1. /\ c.profile \in Names /\ c.airmouse \in BOOLEAN /\ c.calib \in Paths \cup {Unset}
      /\ c.profiles \in [Names -> Profile \cup {Absent}]
      /\ c = [profile |-> c.profile, airmouse |-> c.airmouse, calib |-> c.calib,
              profiles |-> c.profiles]
  BY ConfigFields
<1>2. d = [profile |-> c.profile, airmouse |-> c.airmouse, calib |-> c.calib,
           profiles |-> profiles]
  BY <1>1 DEF WithActive
<1>3. profiles \in [Names -> Profile \cup {Absent}]
  BY <1>1
<1>4. d \in DeviceConfig /\ d.profile = c.profile /\ d.profiles = profiles
  BY <1>1, <1>2, <1>3 DEF DeviceConfig
<1>5. \A n \in Names : profiles[n] = IF n = c.profile THEN p ELSE c.profiles[n]
  BY <1>1
<1>6. p # Absent
  BY ConfigStoreAssumption
<1> HIDE DEF d, profiles
<1>7. \A n \in Names : Defined(c, n) => Defined(d, n)
  BY <1>4, <1>5, <1>6 DEF Defined
<1>8. SpeedsInRange(c) => SpeedsInRange(d)
  BY <1>4, <1>5 DEF SpeedsInRange, Defined
<1>9. ASSUME Loads(c) PROVE Loads(d) \/ Spoils(d)
  <2>1. Defined(d, d.profile) /\ d.profiles[d.profile] = p /\ d.profile \in Names
    BY <1>1, <1>4, <1>5, <1>6 DEF Defined
  <2>2. CASE Valid(p) /\ ~SpoiltBy(p)
    <3>1. \A n \in Names : Defined(d, n) =>
              Valid(d.profiles[n]) /\ ~SpoiltByNaN(d.profiles[n])
      BY <1>4, <1>5, <1>9, <2>2, LoadsMeansValid DEF Defined, SpoiltBy
    <3> QED BY <1>4, <2>1, <3>1, ValidMeansLoads
  <2>3. CASE SpoiltBy(p)
    BY <2>1, <2>3 DEF SpoiltBy, SpoiltByNaN, Spoils, HasSpeed
  <2> QED BY <1>9, <2>2, <2>3
<1> QED
  BY <1>4, <1>7, <1>8, <1>9 DEF Mutation, d

LEMMA MapIsMutation ==
    ASSUME NEW c \in DeviceConfig, NEW k \in Keys, NEW l \in Keys
    PROVE  Mutation(c, WithActive(c, [Ensured(c) EXCEPT !.map[k] = l]))
<1> DEFINE e == Ensured(c)
           p == [e EXCEPT !.map[k] = l]
<1>1. e \in Profile /\ (SpeedsInRange(c) => InRange(e)) /\ (Loads(c) => Valid(e))
  BY EnsuredType
<1> HIDE DEF e
<1>2. p \in Profile /\ p.scroll = e.scroll /\ p.sens = e.sens
  BY <1>1 DEF Profile
<1>3. (InRange(e) => InRange(p)) /\ (Valid(e) => Valid(p))
  BY <1>2 DEF InRange, Valid
<1> HIDE DEF p
<1>4. Mutation(c, WithActive(c, p))
  BY <1>1, <1>2, <1>3, WithActiveIs
<1> QED BY <1>4 DEF p, e

LEMMA ScrollIsMutation ==
    ASSUME NEW c \in DeviceConfig, NEW v \in Scrolls, MayScroll(v)
    PROVE  Mutation(c, WithActive(c, [Ensured(c) EXCEPT !.scroll = v]))
<1> DEFINE e == Ensured(c)
           p == [e EXCEPT !.scroll = v]
<1>1. e \in Profile /\ (SpeedsInRange(c) => InRange(e)) /\ (Loads(c) => Valid(e))
  BY EnsuredType
<1> HIDE DEF e
<1>2. p \in Profile /\ p.scroll = v /\ p.sens = e.sens
  BY <1>1 DEF Profile
<1>3. v \in Int \cup {NaN} /\ MaxScroll \in Nat
  BY ConfigStoreAssumption
<1>4. v \in (0..MaxScroll) \cup {NaN}
  BY <1>3 DEF MayScroll
<1>5. v \notin {0, NaN} => 0 < v /\ v <= MaxScroll
  BY <1>3, <1>4
<1>6. (InRange(e) => InRange(p)) /\ (Valid(e) => Valid(p) \/ SpoiltBy(p))
  BY <1>2, <1>4, <1>5 DEF InRange, Valid, SpoiltBy, SpoiltByNaN
<1> HIDE DEF p
<1>7. Mutation(c, WithActive(c, p))
  BY <1>1, <1>2, <1>6, WithActiveIs
<1> QED BY <1>7 DEF p, e

LEMMA SensIsMutation ==
    ASSUME NEW c \in DeviceConfig, NEW v \in Senses, MaySense(v)
    PROVE  Mutation(c, WithActive(c, [Ensured(c) EXCEPT !.sens = v]))
<1> DEFINE e == Ensured(c)
           p == [e EXCEPT !.sens = v]
<1>1. e \in Profile /\ (SpeedsInRange(c) => InRange(e)) /\ (Loads(c) => Valid(e))
  BY EnsuredType
<1> HIDE DEF e
<1>2. p \in Profile /\ p.sens = v /\ p.scroll = e.scroll
  BY <1>1 DEF Profile
<1>3. v \in Int \cup {NaN} /\ MaxSens \in Nat
  BY ConfigStoreAssumption
<1>4. v \in (0..MaxSens) \cup {NaN}
  BY <1>3 DEF MaySense
<1>5. v \notin {0, NaN} => 0 < v /\ v <= MaxSens
  BY <1>3, <1>4
<1>6. (InRange(e) => InRange(p)) /\ (Valid(e) => Valid(p) \/ SpoiltBy(p))
  BY <1>2, <1>4, <1>5 DEF InRange, Valid, SpoiltBy, SpoiltByNaN
<1> HIDE DEF p
<1>7. Mutation(c, WithActive(c, p))
  BY <1>1, <1>2, <1>6, WithActiveIs
<1> QED BY <1>7 DEF p, e

LEMMA ResetIsMutation ==
    ASSUME NEW c \in DeviceConfig
    PROVE  Mutation(c, IF Defined(c, c.profile)
                       THEN WithActive(c, [Ensured(c) EXCEPT !.map = NoMap]) ELSE c)
<1> DEFINE e == Ensured(c)
           p == [e EXCEPT !.map = NoMap]
<1>1. e \in Profile /\ (SpeedsInRange(c) => InRange(e)) /\ (Loads(c) => Valid(e))
  BY EnsuredType
<1> HIDE DEF e
<1>2. p \in Profile /\ p.scroll = e.scroll /\ p.sens = e.sens
  BY <1>1 DEF Profile, NoMap
<1>3. (InRange(e) => InRange(p)) /\ (Valid(e) => Valid(p))
  BY <1>2 DEF InRange, Valid
<1> HIDE DEF p
<1>4. Mutation(c, WithActive(c, p))
  BY <1>1, <1>2, <1>3, WithActiveIs
<1>5. Mutation(c, c)
  BY DEF Mutation
<1> QED BY <1>4, <1>5 DEF p, e

LEMMA CalibIsMutation ==
    ASSUME NEW c \in DeviceConfig, NEW path \in Paths \cup {Unset}
    PROVE  Mutation(c, [c EXCEPT !.calib = path])
<1> DEFINE d == [c EXCEPT !.calib = path]
<1>1. d = [profile |-> c.profile, airmouse |-> c.airmouse, calib |-> path,
           profiles |-> c.profiles]
  BY ConfigFields
<1>2. d \in DeviceConfig /\ d.profile = c.profile /\ d.profiles = c.profiles
  BY <1>1, ConfigFields DEF DeviceConfig
<1> HIDE DEF d
<1>3. \A n : Defined(d, n) = Defined(c, n)
  BY <1>2 DEF Defined
<1>4. SpeedsInRange(c) => SpeedsInRange(d)
  BY <1>2, <1>3 DEF SpeedsInRange
<1>5. Loads(c) => Loads(d)
  BY <1>2, <1>3, ConfigStoreAssumption DEF Loads, Invalid, Parses, HasSpeed
<1> QED BY <1>2, <1>3, <1>4, <1>5 DEF Mutation, d

(* A call that passes its checks changes one record within the limits, or   *)
(* asks for a profile the record defines.                                   *)
LEMMA CallMutates ==
    ASSUME dc \in [Ids -> DeviceConfig], NEW id \in Ids, Call(id)
    PROVE  \/ \E d : Mutation(dc[id], d) /\ Mutate(id, d)
           \/ \E name \in Names : SetProfile(id, name)
<1>1. dc[id] \in DeviceConfig
  OBVIOUS
<1>2. ASSUME NEW m \in Remaps, MapButton(id, m) PROVE \E d : Mutation(dc[id], d) /\ Mutate(id, d)
  <2>1. m[1] \in Keys /\ m[2] \in Keys
    BY ConfigStoreAssumption
  <2> QED BY <1>1, <1>2, <2>1, MapIsMutation DEF MapButton
<1>3. ASSUME NEW v \in Scrolls, SetScrollSpeed(id, v)
      PROVE  \E d : Mutation(dc[id], d) /\ Mutate(id, d)
  BY <1>1, <1>3, ScrollIsMutation DEF SetScrollSpeed
<1>4. ASSUME NEW v \in Senses, SetSensitivity(id, v)
      PROVE  \E d : Mutation(dc[id], d) /\ Mutate(id, d)
  BY <1>1, <1>4, SensIsMutation DEF SetSensitivity
<1>5. ASSUME NEW path \in Paths \cup {Unset}, SetCalibPath(id, path)
      PROVE  \E d : Mutation(dc[id], d) /\ Mutate(id, d)
  BY <1>1, <1>5, CalibIsMutation DEF SetCalibPath
<1>6. ASSUME ResetButtons(id) PROVE \E d : Mutation(dc[id], d) /\ Mutate(id, d)
  BY <1>1, <1>6, ResetIsMutation DEF ResetButtons
<1> QED
  BY <1>2, <1>3, <1>4, <1>5, <1>6 DEF Call

----------------------------------------------------------------------------
(* Type correctness.                                                        *)

Running == [profile : Resolved, calib : Paths \cup {Unset}]

TypeInv ==
    /\ file \in [Ids -> DeviceConfig \cup {Missing, Broken}]
    /\ stateFile \in StateTable \cup {Missing, Broken}
    /\ up \in BOOLEAN
    /\ dc \in [Ids -> DeviceConfig]
    /\ \A id \in Ids : SpeedsInRange(dc[id])
    /\ running \in [Ids -> Running]
    /\ job \in Jobs \cup {NoJob}
    /\ edited \subseteq Ids /\ spoiled \subseteq Ids

LEMMA TypeInvIsTypeOK == TypeInv => TypeOK
  BY DEF TypeInv, TypeOK, SpeedsInRange, InRange, Running

LEMMA LoadedType ==
    ASSUME TypeInv, NEW id \in Ids
    PROVE  Loaded(id).dc \in DeviceConfig /\ SpeedsInRange(Loaded(id).dc)
<1>1. file[id] \in DeviceConfig \cup {Missing, Broken} /\ stateFile \in StateTable \cup {Missing, Broken}
  BY DEF TypeInv
<1> QED BY <1>1, LoadRemoteType DEF Loaded

\* One remote gets another record, and perhaps its pipeline too.
LEMMA RecordChanges ==
    ASSUME TypeInv, NEW id \in Ids, NEW c \in DeviceConfig, SpeedsInRange(c),
           dc' = [dc EXCEPT ![id] = c],
           running' = running \/ running' = [running EXCEPT ![id] = Effective(c)]
    PROVE  /\ dc' \in [Ids -> DeviceConfig]
           /\ \A i \in Ids : SpeedsInRange(dc'[i])
           /\ running' \in [Ids -> Running]
<1>1. Effective(c) \in Running
  BY EffectiveType DEF Running
<1>2. \A i \in Ids : dc'[i] = IF i = id THEN c ELSE dc[i]
  BY DEF TypeInv
<1>3. \A i \in Ids : SpeedsInRange(dc'[i])
  BY <1>2 DEF TypeInv
<1>4. dc' \in [Ids -> DeviceConfig]
  BY DEF TypeInv
<1>5. running' \in [Ids -> Running]
  BY <1>1 DEF TypeInv
<1> QED BY <1>3, <1>4, <1>5

LEMMA StateJobFields ==
    ASSUME TypeInv, job # NoJob, job.what = "state"
    PROVE  /\ job = [what |-> "state", id |-> job.id, name |-> job.name]
           /\ job.id \in Ids /\ job.name \in Names
  BY DEF TypeInv, Jobs

LEMMA DeviceJobFields ==
    ASSUME TypeInv, job # NoJob, job.what = "device"
    PROVE  job = [what |-> "device", id |-> job.id] /\ job.id \in Ids
  BY DEF TypeInv, Jobs

LEMMA NewStateType ==
    ASSUME TypeInv, NEW id \in Ids, NEW name \in Names
    PROVE  /\ NewState(id, name) \in StateTable
           /\ NamedIn(NewState(id, name), id) = name
           /\ \A i \in Ids \ {id} : NamedIn(NewState(id, name), i) = NamedIn(stateFile, i)
<1>1. \A i \in Ids : NamedIn(stateFile, i) \in Names \cup {NoName}
  BY NamedInType DEF TypeInv
<1>2. NewState(id, name) \in StateTable
  BY <1>1 DEF NewState, StateTable
<1>3. NewState(id, name) \notin {Missing, Broken}
  BY <1>2, ConfigStoreAssumption
<1> QED
  BY <1>2, <1>3 DEF NamedIn, NewState

LEMMA MutateType ==
    ASSUME TypeInv, NEW id \in Ids, NEW c, Mutation(dc[id], c), Mutate(id, c)
    PROVE  TypeInv'
<1>1. c \in DeviceConfig /\ SpeedsInRange(c)
  BY DEF Mutation, TypeInv
<1>2. dc' = [dc EXCEPT ![id] = c] /\ job' = [what |-> "device", id |-> id]
  BY DEF Mutate
<1>3. UNCHANGED <<file, stateFile, up, running, edited, spoiled>>
  BY DEF Mutate, WriteTmp
<1>4. job' \in Jobs
  BY <1>2 DEF Jobs
<1> QED BY <1>1, <1>2, <1>3, <1>4, RecordChanges DEF TypeInv

LEMMA TypeStep == TypeInv /\ [Next]_vars => TypeInv'
<1> SUFFICES ASSUME TypeInv, [Next]_vars PROVE TypeInv'
  OBVIOUS
<1>1. ASSUME NEW id \in Ids, Call(id) PROVE TypeInv'
  <2>1. dc \in [Ids -> DeviceConfig]
    BY DEF TypeInv
  <2>2. CASE \E d : Mutation(dc[id], d) /\ Mutate(id, d)
    BY <2>2, MutateType
  <2>3. ASSUME NEW name \in Names, SetProfile(id, name) PROVE TypeInv'
    BY <2>3 DEF SetProfile, TypeInv, Jobs
  <2> QED BY <2>1, <2>2, <2>3, <1>1, CallMutates
<1>2. CASE CommitDevice
  <2>1. job.id \in Ids
    BY <1>2, DeviceJobFields DEF CommitDevice
  <2>2. dc[job.id] \in DeviceConfig
    BY <2>1 DEF TypeInv
  <2>3. Effective(dc[job.id]) \in Running
    BY <2>2, EffectiveType DEF Running
  <2>4. /\ file' = [file EXCEPT ![job.id] = dc[job.id]]
        /\ running' = [running EXCEPT ![job.id] = Effective(dc[job.id])]
        /\ job' = NoJob /\ UNCHANGED <<stateFile, up, dc, edited>>
        /\ spoiled' \in {spoiled, spoiled \cup {job.id}}
    BY <1>2 DEF CommitDevice, Apply
  <2> QED BY <2>1, <2>2, <2>3, <2>4 DEF TypeInv
<1>3. CASE CommitState
  <2> DEFINE s == NewState(job.id, job.name)
             c == LoadRemote(file[job.id], s, job.id).dc
  <2>1. job.id \in Ids /\ job.name \in Names
    BY <1>3, StateJobFields DEF CommitState
  <2>2. s \in StateTable
    BY <2>1, NewStateType
  <2>3. c \in DeviceConfig /\ SpeedsInRange(c)
    BY <2>1, <2>2, LoadRemoteType DEF TypeInv
  <2>4. /\ stateFile' = s /\ dc' = [dc EXCEPT ![job.id] = c]
        /\ running' = [running EXCEPT ![job.id] = Effective(c)]
        /\ job' = NoJob /\ UNCHANGED <<file, up, edited, spoiled>>
    BY <1>3 DEF CommitState, Apply
  <2> HIDE DEF s, c
  <2> QED BY <2>1, <2>2, <2>3, <2>4, RecordChanges DEF TypeInv
<1>4. CASE WriteFails
  <2>1. CASE job.what = "device"
    <3>1. job.id \in Ids
      BY <1>4, <2>1, DeviceJobFields DEF WriteFails
    <3> DEFINE c == Loaded(job.id).dc
    <3>2. c \in DeviceConfig /\ SpeedsInRange(c)
      BY <3>1, LoadedType
    <3>3. /\ dc' = [dc EXCEPT ![job.id] = c]
          /\ running' = [running EXCEPT ![job.id] = Effective(c)]
          /\ job' = NoJob /\ UNCHANGED <<file, stateFile, up, edited, spoiled>>
      BY <1>4, <2>1 DEF WriteFails, Apply, Rollback
    <3> HIDE DEF c
    <3> QED BY <3>1, <3>2, <3>3, RecordChanges DEF TypeInv
  <2>2. CASE job.what # "device"
    BY <1>4, <2>2 DEF WriteFails, TypeInv
  <2> QED BY <2>1, <2>2
<1>5. CASE Reload
  <2>1. \A id \in Ids : /\ Loaded(id).dc \in DeviceConfig /\ SpeedsInRange(Loaded(id).dc)
                        /\ Effective(Loaded(id).dc) \in Running
    BY LoadedType, EffectiveType DEF Running
  <2> QED BY <1>5, <2>1 DEF Reload, TypeInv
<1>6. CASE Stop
  BY <1>6 DEF Stop, TypeInv
<1>7. CASE Restart
  <2>1. \A id \in Ids : /\ Loaded(id).dc \in DeviceConfig /\ SpeedsInRange(Loaded(id).dc)
                        /\ Effective(Loaded(id).dc) \in Running
    BY LoadedType, EffectiveType DEF Running
  <2> QED BY <1>7, <2>1 DEF Restart, TypeInv
<1>8. ASSUME NEW id \in Ids, Reopen(id) PROVE TypeInv'
  <2> DEFINE c == Loaded(id).dc
  <2>1. c \in DeviceConfig /\ SpeedsInRange(c)
    BY LoadedType
  <2>2. /\ dc' = [dc EXCEPT ![id] = c] /\ running' = [running EXCEPT ![id] = Effective(c)]
        /\ UNCHANGED <<file, stateFile, up, job, edited, spoiled>>
    BY <1>8 DEF Reopen, Apply
  <2> HIDE DEF c
  <2> QED BY <2>1, <2>2, RecordChanges DEF TypeInv
<1>9. ASSUME NEW id \in Editable, NEW f \in Edits, EditFile(id, f) PROVE TypeInv'
  <2>1. id \in Ids /\ f \in DeviceConfig \cup {Missing, Broken}
    BY ConfigStoreAssumption
  <2> QED BY <1>9, <2>1 DEF EditFile, TypeInv
<1>10. ASSUME NEW s \in StateEdits, EditState(s) PROVE TypeInv'
  <2>1. s \in StateTable \cup {Missing, Broken}
    BY ConfigStoreAssumption
  <2> QED BY <1>10, <2>1 DEF EditState, TypeInv
<1>11. CASE UNCHANGED vars
  BY <1>11 DEF vars, TypeInv
<1> QED
  BY <1>1, <1>2, <1>3, <1>4, <1>5, <1>6, <1>7, <1>8, <1>9, <1>10, <1>11 DEF Next

LEMMA TypeInit == Init => TypeInv
<1> SUFFICES ASSUME Init PROVE TypeInv
  OBVIOUS
<1>1. DeviceInit \in DeviceConfig /\ SpeedsInRange(DeviceInit) /\ Effective(DeviceInit) \in Running
  BY DeviceInitType, EffectiveType DEF Running
<1>2. file \in [Ids -> DeviceConfig \cup {Missing, Broken}]
  BY ConfigStoreAssumption DEF Init
<1> QED BY <1>1, <1>2 DEF Init, TypeInv

\* Whatever the files hold and the clients ask, every record in memory is a record the
\* loader or a method with its range checks made: no speed beyond the limits reaches
\* the pipeline.
THEOREM ConfigTypeOK == Spec => []TypeOK
<1>1. Spec => []TypeInv
  BY TypeInit, TypeStep, PTL DEF Spec
<1> QED
  BY <1>1, TypeInvIsTypeOK, PTL

----------------------------------------------------------------------------
(* The pipeline follows the configuration: it is behind only for the remote *)
(* whose device file is being written.                                      *)

BeingWritten(id) == job = [what |-> "device", id |-> id]

PipelineInv == up => \A id \in Ids : BeingWritten(id) \/ running[id] = Effective(dc[id])

LEMMA PipelineStep == TypeInv /\ PipelineInv /\ [Next]_vars => PipelineInv'
<1> SUFFICES ASSUME TypeInv, PipelineInv, [Next]_vars PROVE PipelineInv'
  OBVIOUS
<1>0. dc \in [Ids -> DeviceConfig] /\ running \in [Ids -> Running]
  BY DEF TypeInv
<1>00. \A i \in Ids : job # NoJob => (BeingWritten(i) => i = job.id)
  BY DEF BeingWritten
<1>01. \A i \in Ids : ~(job = NoJob /\ BeingWritten(i))
  BY ConfigStoreAssumption DEF BeingWritten, Jobs
<1>1. ASSUME NEW id \in Ids, Call(id) PROVE PipelineInv'
  <2>1. ASSUME NEW c, Mutate(id, c) PROVE PipelineInv'
    BY <1>0, <1>01, <2>1 DEF Mutate, PipelineInv, BeingWritten
  <2>2. ASSUME NEW name \in Names, SetProfile(id, name) PROVE PipelineInv'
    BY <1>0, <1>01, <2>2 DEF SetProfile, PipelineInv
  <2> QED BY <1>0, <1>1, <2>1, <2>2, CallMutates
<1>2. CASE CommitDevice
  <2>1. job.id \in Ids
    BY <1>2, DeviceJobFields DEF CommitDevice
  <2> QED BY <1>0, <1>00, <1>2, <2>1 DEF CommitDevice, Apply, PipelineInv
<1>3. CASE CommitState
  <2> DEFINE c == LoadRemote(file[job.id], NewState(job.id, job.name), job.id).dc
  <2>1. job.id \in Ids
    BY <1>3, StateJobFields DEF CommitState
  <2>2. /\ dc' = [dc EXCEPT ![job.id] = c]
        /\ running' = [running EXCEPT ![job.id] = Effective(c)] /\ up' = up
    BY <1>3 DEF CommitState, Apply
  <2>3. \A i \in Ids : ~BeingWritten(i)
    BY <1>3 DEF CommitState, BeingWritten
  <2> HIDE DEF c
  <2> QED BY <1>0, <2>1, <2>2, <2>3 DEF PipelineInv
<1>4. CASE WriteFails
  <2>1. CASE job.what = "device"
    <3>1. job.id \in Ids
      BY <1>4, <2>1, DeviceJobFields DEF WriteFails
    <3>2. /\ dc' = [dc EXCEPT ![job.id] = Rollback(job.id)] /\ up' = up
          /\ running' = [running EXCEPT ![job.id] = Effective(Rollback(job.id))]
      BY <1>4, <2>1 DEF WriteFails, Apply
    <3> QED BY <1>0, <1>00, <1>4, <3>1, <3>2 DEF PipelineInv, WriteFails
  <2>2. CASE job.what # "device"
    <3>1. \A i \in Ids : ~BeingWritten(i)
      BY <2>2 DEF BeingWritten
    <3> QED BY <1>4, <2>2, <3>1 DEF WriteFails, PipelineInv
  <2> QED BY <2>1, <2>2
<1>5. CASE Reload
  BY <1>0, <1>01, <1>5 DEF Reload, PipelineInv
<1>6. CASE Stop
  BY <1>6 DEF Stop, PipelineInv
<1>7. CASE Restart
  BY <1>7 DEF Restart, PipelineInv
<1>8. ASSUME NEW id \in Ids, Reopen(id) PROVE PipelineInv'
  <2>1. /\ dc' = [dc EXCEPT ![id] = Loaded(id).dc] /\ UNCHANGED <<up, job>> /\ job = NoJob
        /\ running' = [running EXCEPT ![id] = Effective(Loaded(id).dc)]
    BY <1>8 DEF Reopen, Apply
  <2> QED BY <1>0, <1>01, <2>1 DEF PipelineInv
<1>9. CASE \/ \E id \in Editable, f \in Edits : EditFile(id, f)
           \/ \E s \in StateEdits : EditState(s)
           \/ UNCHANGED vars
  BY <1>9 DEF EditFile, EditState, vars, PipelineInv, BeingWritten
<1> QED
  BY <1>1, <1>2, <1>3, <1>4, <1>5, <1>6, <1>7, <1>8, <1>9 DEF Next

\* Whenever no call is being written, each pipeline runs what its remote's record says,
\* through rollbacks, reloads of broken files, restarts and remotes that come back.
THEOREM PipelineFollowsConfigAlways == Spec => []PipelineFollowsConfig
<1>1. Init => PipelineInv
  BY DEF Init, PipelineInv
<1>2. TypeInv /\ PipelineInv => PipelineFollowsConfig
  BY ConfigStoreAssumption DEF PipelineInv, PipelineFollowsConfig, BeingWritten, Jobs
<1> QED
  BY <1>1, <1>2, TypeInit, TypeStep, PipelineStep, PTL DEF Spec

----------------------------------------------------------------------------
(* Memory and disk agree, remote by remote, until somebody edits a file.    *)

\* What survives even a speed of 0 or a NaN: memory is the file, or what loading it gives.
KeptOK(id) == up => BeingWritten(id) \/ dc[id] \in {file[id], Loaded(id).dc}
KeptInv == \A id \in Ids \ edited : KeptOK(id)

\* Until a speed of 0 or a NaN has been saved:
\*  - the files load, and what they load as would load again;
\*  - the record in memory loads, or is being written with one; it names the profile
\*    state.toml names, and is the one on disk, unless it is being written;
\*  - the profile being selected is one the record defines.
MemoryOK(id) ==
    /\ LoadFile(file[id]).ok /\ Loads(Loaded(id).dc)
    /\ up => /\ Loads(dc[id]) \/ (BeingWritten(id) /\ Spoils(dc[id]))
             /\ NamedIn(stateFile, id) \in {NoName, dc[id].profile}
             /\ BeingWritten(id) \/ dc[id] = Loaded(id).dc
             /\ job # NoJob /\ job.what = "state" /\ job.id = id => MaySelect(dc[id], job.name)

MemoryInv ==
    /\ job # NoJob => up
    /\ \A id \in Ids \ (edited \cup spoiled) : MemoryOK(id)

\* What the daemon starts from: files that load.
FirstFilesLoad == \A f \in FirstFiles : Loads(f)

(* A record that loads, written to its file, is read back as it is.         *)
LEMMA WrittenIsRead ==
    ASSUME NEW c \in DeviceConfig, Loads(c), NEW s \in StateTable \cup {Missing, Broken},
           NEW id \in Ids, NamedIn(s, id) \in {NoName, c.profile}
    PROVE  LoadFile(c).ok /\ LoadRemote(c, s, id).dc = c
<1>1. c \notin {Missing, Broken}
  BY ConfigStoreAssumption
<1>2. LoadFile(c) = [ok |-> TRUE, dc |-> c]
  BY <1>1 DEF LoadFile, Loads
<1>3. CASE NamedIn(s, id) = NoName
  BY <1>2, <1>3 DEF LoadRemote
<1>4. CASE NamedIn(s, id) # NoName
  <2>1. /\ LoadFile(c).ok /\ LoadFile(c).dc = c /\ NamedIn(s, id) = c.profile
        /\ c \in DeviceConfig \cup {Missing, Broken}
    BY <1>2, <1>4
  <2>4. LoadRemote(c, s, id).dc = [LoadFile(c).dc EXCEPT !.profile =
            IF LoadFile(c).ok /\ NamedIn(s, id) # NoName THEN NamedIn(s, id) ELSE @]
    BY <2>1, LoadRemoteIs
  <2>2. c = [profile |-> c.profile, airmouse |-> c.airmouse, calib |-> c.calib,
             profiles |-> c.profiles]
    BY ConfigFields
  <2>3. [c EXCEPT !.profile = c.profile] = c
    BY <2>2
  <2> QED BY <1>4, <2>1, <2>3, <2>4
<1> QED BY <1>2, <1>3, <1>4

(* Loading depends on state.toml only through the name it has for the       *)
(* remote.                                                                  *)
LEMMA NameIsEnough ==
    ASSUME NEW f, NEW s, NEW t, NEW id, NamedIn(s, id) = NamedIn(t, id)
    PROVE  LoadRemote(f, s, id) = LoadRemote(f, t, id)
  BY DEF LoadRemote

(* Selecting a profile that the loaded record defines leaves one that loads. *)
LEMMA SelectedLoads ==
    ASSUME NEW f \in DeviceConfig \cup {Missing, Broken}, LoadFile(f).ok,
           NEW s \in StateTable \cup {Missing, Broken}, NEW t \in StateTable,
           NEW id \in Ids, NEW name \in Names,
           MaySelect(LoadRemote(f, s, id).dc, name), NamedIn(t, id) = name
    PROVE  Loads(LoadRemote(f, t, id).dc) /\ LoadRemote(f, t, id).dc.profile = name
<1> DEFINE c == LoadRemote(f, s, id).dc
           d == LoadRemote(f, t, id).dc
<1>1. c.profiles = LoadFile(f).dc.profiles
  BY LoadRemoteIs
<1>2. name # NoName
  BY ConfigStoreAssumption
<1>3. d.profiles = LoadFile(f).dc.profiles /\ d.profile = name
  <2>1. t \in StateTable \cup {Missing, Broken}
    OBVIOUS
  <2>2. /\ d.profiles = LoadFile(f).dc.profiles
        /\ d.profile = IF LoadFile(f).ok /\ NamedIn(t, id) # NoName THEN NamedIn(t, id)
                       ELSE LoadFile(f).dc.profile
    BY <2>1, LoadRemoteIs
  <2> QED BY <1>2, <2>2
<1>4. Loads(LoadFile(f).dc)
  BY LoadFileType
<1> HIDE DEF c, d
<1>5. \A n : Defined(d, n) = Defined(c, n) /\ Defined(d, n) = Defined(LoadFile(f).dc, n)
  BY <1>1, <1>3 DEF Defined
<1>6. Invalid(d) = {} /\ Parses(d)
  <2>1. d \in DeviceConfig /\ LoadFile(f).dc \in DeviceConfig
    BY LoadRemoteIs, LoadFileType, t \in StateTable \cup {Missing, Broken} DEF d
  <2> QED BY <1>3, <1>4, <1>5, <2>1, ConfigStoreAssumption DEF Loads, Invalid, Parses, HasSpeed
<1>7. name = Default \/ Defined(d, name)
  BY <1>5 DEF MaySelect, c
<1>8. Loads(d)
  BY <1>3, <1>6, <1>7 DEF Loads
<1> QED
  BY <1>3, <1>8 DEF d

\* A remote whose record is what the disk holds.
LEMMA ReadBack ==
    ASSUME TypeInv, NEW id \in Ids, MemoryOK(id), UNCHANGED <<file, stateFile>>,
           dc'[id] = Loaded(id).dc, job' = NoJob
    PROVE  MemoryOK(id)'
<1> DEFINE c == Loaded(id).dc
<1>1. file[id] \in DeviceConfig \cup {Missing, Broken} /\ stateFile \in StateTable \cup {Missing, Broken}
  BY DEF TypeInv
<1>2. LoadFile(file[id]).ok /\ Loads(c)
  BY DEF MemoryOK
<1>3. NamedIn(stateFile, id) \in {NoName, c.profile}
  <2>1. c.profile = IF LoadFile(file[id]).ok /\ NamedIn(stateFile, id) # NoName
                    THEN NamedIn(stateFile, id) ELSE LoadFile(file[id]).dc.profile
    BY <1>1, LoadRemoteIs DEF Loaded
  <2> HIDE DEF c
  <2> QED BY <1>2, <2>1
<1>4. Loaded(id)' = Loaded(id)
  BY DEF Loaded
<1>5. /\ LoadFile(file'[id]).ok /\ Loads(Loaded(id)'.dc) /\ Loads(dc'[id])
      /\ NamedIn(stateFile', id) \in {NoName, dc'[id].profile} /\ dc'[id] = Loaded(id)'.dc
  BY <1>2, <1>3, <1>4
<1> QED
  BY <1>5 DEF MemoryOK

\* A remote that the step is not about.
LEMMA KeptUnchanged ==
    ASSUME NEW id \in Ids, KeptOK(id), up' = up, file'[id] = file[id],
           NamedIn(stateFile', id) = NamedIn(stateFile, id), dc'[id] = dc[id], ~BeingWritten(id)
    PROVE  KeptOK(id)'
<1>1. Loaded(id)' = Loaded(id)
  BY NameIsEnough DEF Loaded
<1> QED
  BY <1>1 DEF KeptOK

LEMMA KeptStep == TypeInv /\ KeptInv /\ [Next]_vars => KeptInv'
<1> SUFFICES ASSUME TypeInv, KeptInv, [Next]_vars, NEW i \in Ids \ edited' PROVE KeptOK(i)'
  BY DEF KeptInv
<1>0. /\ dc \in [Ids -> DeviceConfig] /\ file \in [Ids -> DeviceConfig \cup {Missing, Broken}]
      /\ edited \subseteq Ids
  BY DEF TypeInv
<1>00. ASSUME job = NoJob PROVE ~BeingWritten(i)
  BY <1>00, ConfigStoreAssumption DEF BeingWritten, Jobs
<1>1. ASSUME NEW id \in Ids, Call(id) PROVE KeptOK(i)'
  <2>1. ASSUME NEW c, Mutate(id, c) PROVE KeptOK(i)'
    <3>1. /\ job = NoJob /\ dc' = [dc EXCEPT ![id] = c] /\ job' = [what |-> "device", id |-> id]
          /\ UNCHANGED <<file, stateFile, up, edited>>
      BY <2>1 DEF Mutate, WriteTmp
    <3>2. CASE i = id
      BY <3>1, <3>2 DEF KeptOK, BeingWritten
    <3>3. CASE i # id
      BY <1>0, <1>00, <3>1, <3>3, KeptUnchanged DEF KeptInv
    <3> QED BY <3>2, <3>3
  <2>2. ASSUME NEW name \in Names, SetProfile(id, name) PROVE KeptOK(i)'
    BY <1>00, <2>2, KeptUnchanged DEF SetProfile, KeptInv
  <2> QED BY <1>0, <1>1, <2>1, <2>2, CallMutates
<1>2. CASE CommitDevice
  <2>1. PICK id \in Ids : job = [what |-> "device", id |-> id]
    BY <1>2, DeviceJobFields DEF CommitDevice
  <2>2. /\ file' = [file EXCEPT ![id] = dc[id]]
        /\ UNCHANGED <<stateFile, up, dc, edited>>
    BY <1>2, <2>1 DEF CommitDevice
  <2>3. CASE i = id
    <3>1. file'[i] = dc'[i]
      BY <1>0, <2>2, <2>3
    <3> QED BY <3>1 DEF KeptOK
  <2>4. CASE i # id
    <3>1. ~BeingWritten(i)
      BY <2>1, <2>4 DEF BeingWritten
    <3> QED BY <1>0, <2>2, <2>4, <3>1, KeptUnchanged DEF KeptInv
  <2> QED BY <2>3, <2>4
<1>3. CASE CommitState
  <2>1. PICK id \in Ids, name \in Names : job = [what |-> "state", id |-> id, name |-> name]
    BY <1>3, StateJobFields DEF CommitState
  <2>2. /\ stateFile' = NewState(id, name) /\ UNCHANGED <<file, up, edited>>
        /\ dc' = [dc EXCEPT ![id] = LoadRemote(file[id], stateFile', id).dc]
    BY <1>3, <2>1 DEF CommitState
  <2>3. ~BeingWritten(i)
    BY <2>1 DEF BeingWritten
  <2>4. CASE i = id
    <3>1. dc'[i] = Loaded(i)'.dc
      BY <1>0, <2>2, <2>4 DEF Loaded
    <3> QED BY <3>1 DEF KeptOK
  <2>5. CASE i # id
    <3>1. NamedIn(stateFile', i) = NamedIn(stateFile, i)
      BY <2>2, <2>5, NewStateType
    <3> QED BY <1>0, <2>2, <2>3, <2>5, <3>1, KeptUnchanged DEF KeptInv
  <2> QED BY <2>4, <2>5
<1>4. CASE WriteFails
  <2>1. CASE job.what = "device"
    <3>1. PICK id \in Ids : job = [what |-> "device", id |-> id]
      BY <1>4, <2>1, DeviceJobFields DEF WriteFails
    <3>2. dc' = [dc EXCEPT ![id] = Loaded(id).dc] /\ UNCHANGED <<file, stateFile, up, edited>>
      BY <1>4, <3>1 DEF WriteFails, Rollback
    <3>3. CASE i = id
      BY <1>0, <3>2, <3>3 DEF KeptOK, Loaded
    <3>4. CASE i # id
      <4>1. ~BeingWritten(i)
        BY <3>1, <3>4 DEF BeingWritten
      <4> QED BY <1>0, <3>2, <3>4, <4>1, KeptUnchanged DEF KeptInv
    <3> QED BY <3>3, <3>4
  <2>2. CASE job.what # "device"
    <3>1. ~BeingWritten(i) /\ UNCHANGED <<file, stateFile, up, edited, dc>>
      BY <1>4, <2>2 DEF WriteFails, BeingWritten
    <3> QED BY <3>1, KeptUnchanged DEF KeptInv
  <2> QED BY <2>1, <2>2
<1>5. CASE Reload
  <2>1. /\ job = NoJob /\ UNCHANGED <<file, stateFile, up, edited>>
        /\ dc' = [id \in Ids |-> IF Loaded(id).ok THEN Loaded(id).dc ELSE dc[id]]
    BY <1>5 DEF Reload
  <2>2. CASE Loaded(i).ok
    BY <2>1, <2>2 DEF KeptOK, Loaded
  <2>3. CASE ~Loaded(i).ok
    BY <1>00, <2>1, <2>3, KeptUnchanged DEF KeptInv
  <2> QED BY <2>2, <2>3
<1>6. CASE Stop
  BY <1>6 DEF Stop, KeptOK
<1>7. CASE Restart
  BY <1>7 DEF Restart, KeptOK, Loaded
<1>8. ASSUME NEW id \in Ids, Reopen(id) PROVE KeptOK(i)'
  <2>1. /\ dc' = [dc EXCEPT ![id] = Loaded(id).dc] /\ job = NoJob
        /\ UNCHANGED <<file, stateFile, up, edited>>
    BY <1>8 DEF Reopen
  <2>2. CASE i = id
    BY <1>0, <2>1, <2>2 DEF KeptOK, Loaded
  <2>3. CASE i # id
    BY <1>0, <1>00, <2>1, <2>3, KeptUnchanged DEF KeptInv
  <2> QED BY <2>2, <2>3
<1>9. ASSUME NEW id \in Editable, NEW f \in Edits, EditFile(id, f) PROVE KeptOK(i)'
  <2>1. i # id /\ i \notin edited /\ file'[i] = file[i]
    BY <1>0, <1>9 DEF EditFile
  <2> QED BY <1>9, <2>1 DEF EditFile, KeptInv, KeptOK, Loaded, BeingWritten
<1>10. ASSUME NEW s \in StateEdits, EditState(s) PROVE KeptOK(i)'
  BY <1>10 DEF EditState
<1>11. CASE UNCHANGED vars
  BY <1>11 DEF vars, KeptInv, KeptOK, Loaded, BeingWritten
<1> QED
  BY <1>1, <1>2, <1>3, <1>4, <1>5, <1>6, <1>7, <1>8, <1>9, <1>10, <1>11 DEF Next

\* The same for the stronger part.
LEMMA OtherUnchanged ==
    ASSUME TypeInv, NEW id \in Ids, MemoryOK(id), up' = up,
           file'[id] = file[id], NamedIn(stateFile', id) = NamedIn(stateFile, id),
           dc'[id] = dc[id], ~BeingWritten(id), job' = NoJob \/ job'.id # id
    PROVE  MemoryOK(id)'
<1>1. Loaded(id)' = Loaded(id)
  BY NameIsEnough DEF Loaded
<1> QED
  BY <1>1 DEF MemoryOK

LEMMA MemoryStep == TypeInv /\ MemoryInv /\ [Next]_vars => MemoryInv'
<1> SUFFICES ASSUME TypeInv, MemoryInv, [Next]_vars PROVE MemoryInv'
  OBVIOUS
<1>0. dc \in [Ids -> DeviceConfig] /\ file \in [Ids -> DeviceConfig \cup {Missing, Broken}]
      /\ stateFile \in StateTable \cup {Missing, Broken}
  BY DEF TypeInv
<1>00. ASSUME job = NoJob PROVE \A i \in Ids : ~BeingWritten(i)
  BY <1>00, ConfigStoreAssumption DEF BeingWritten, Jobs
<1>1. ASSUME NEW id \in Ids, Call(id) PROVE MemoryInv'
  <2>1. ASSUME NEW c, Mutation(dc[id], c), Mutate(id, c) PROVE MemoryInv'
    <3>1. /\ up /\ job = NoJob /\ dc' = [dc EXCEPT ![id] = c]
          /\ job' = [what |-> "device", id |-> id]
          /\ UNCHANGED <<file, stateFile, up, running, edited, spoiled>>
      BY <2>1 DEF Mutate, WriteTmp
    <3>2. ASSUME NEW i \in Ids \ (edited \cup spoiled), i # id PROVE MemoryOK(i)'
      BY <1>0, <1>00, <3>1, <3>2, OtherUnchanged DEF MemoryInv
    <3>3. ASSUME id \notin edited \cup spoiled PROVE MemoryOK(id)'
      <4>1. MemoryOK(id)
        BY <3>3 DEF MemoryInv
      <4>2. (Loads(c) \/ Spoils(c)) /\ c.profile = dc[id].profile
        BY <1>00, <2>1, <3>1, <4>1 DEF Mutation, MemoryOK
      <4>3. Loaded(id)' = Loaded(id) /\ dc'[id] = c /\ job'.what # "state" /\ BeingWritten(id)'
        BY <1>0, <3>1 DEF Loaded, BeingWritten
      <4>4. LoadFile(file'[id]).ok /\ Loads(Loaded(id)'.dc)
        BY <3>1, <4>1, <4>3 DEF MemoryOK
      <4>5. NamedIn(stateFile', id) \in {NoName, c.profile}
        BY <3>1, <4>1, <4>2 DEF MemoryOK
      <4> QED BY <4>2, <4>3, <4>4, <4>5 DEF MemoryOK
    <3> QED BY <3>1, <3>2, <3>3 DEF MemoryInv
  <2>2. ASSUME NEW name \in Names, SetProfile(id, name) PROVE MemoryInv'
    <3>1. /\ up /\ job = NoJob /\ MaySelect(dc[id], name)
          /\ job' = [what |-> "state", id |-> id, name |-> name]
          /\ UNCHANGED <<file, stateFile, up, dc, running, edited, spoiled>>
      BY <2>2 DEF SetProfile
    <3>2. ASSUME NEW i \in Ids \ (edited \cup spoiled), i # id PROVE MemoryOK(i)'
      BY <1>00, <3>1, <3>2, OtherUnchanged DEF MemoryInv
    <3>3. ASSUME id \notin edited \cup spoiled PROVE MemoryOK(id)'
      BY <1>00, <3>1, <3>3 DEF MemoryInv, MemoryOK, Loaded
    <3> QED BY <3>1, <3>2, <3>3 DEF MemoryInv
  <2> QED BY <1>0, <1>1, <2>1, <2>2, CallMutates
<1>2. CASE CommitDevice
  <2>1. PICK id \in Ids : job = [what |-> "device", id |-> id]
    BY <1>2, DeviceJobFields DEF CommitDevice
  <2>2. /\ file' = [file EXCEPT ![id] = dc[id]] /\ job' = NoJob
        /\ UNCHANGED <<stateFile, up, dc, edited>> /\ up
        /\ spoiled' = IF Spoils(dc[id]) THEN spoiled \cup {id} ELSE spoiled
    BY <1>2, <2>1 DEF CommitDevice, MemoryInv
  <2>3. ASSUME NEW i \in Ids \ (edited \cup spoiled), i # id PROVE MemoryOK(i)'
    <3>1. ~BeingWritten(i)
      BY <2>1, <2>3 DEF BeingWritten
    <3> QED BY <1>0, <2>2, <2>3, <3>1, OtherUnchanged DEF MemoryInv
  <2>4. ASSUME id \notin edited' \cup spoiled' PROVE MemoryOK(id)'
    <3>1. MemoryOK(id) /\ ~Spoils(dc[id])
      BY <2>1, <2>2, <2>4 DEF MemoryInv
    <3>2. Loads(dc[id]) /\ NamedIn(stateFile, id) \in {NoName, dc[id].profile}
      BY <2>2, <3>1 DEF MemoryOK
    <3>3. LoadFile(dc[id]).ok /\ LoadRemote(dc[id], stateFile, id).dc = dc[id]
      BY <1>0, <2>1, <3>2, WrittenIsRead
    <3>4. file'[id] = dc[id] /\ Loaded(id)' = LoadRemote(file'[id], stateFile, id)
      BY <1>0, <2>1, <2>2 DEF Loaded
    <3>5. /\ LoadFile(file'[id]).ok /\ Loads(Loaded(id)'.dc) /\ Loads(dc'[id])
          /\ NamedIn(stateFile', id) \in {NoName, dc'[id].profile} /\ dc'[id] = Loaded(id)'.dc
      BY <2>2, <3>2, <3>3, <3>4
    <3> QED BY <2>2, <3>5 DEF MemoryOK
  <2> QED BY <2>1, <2>2, <2>3, <2>4 DEF MemoryInv
<1>3. CASE CommitState
  <2>1. PICK id \in Ids, name \in Names : job = [what |-> "state", id |-> id, name |-> name]
    BY <1>3, StateJobFields DEF CommitState
  <2> DEFINE s == NewState(id, name)
             c == LoadRemote(file[id], s, id).dc
  <2>2. /\ stateFile' = s /\ dc' = [dc EXCEPT ![id] = c] /\ job' = NoJob
        /\ job # NoJob /\ job.what = "state"
        /\ UNCHANGED <<file, up, edited, spoiled>> /\ up
    BY <1>3, <2>1 DEF CommitState, MemoryInv
  <2>3. /\ s \in StateTable /\ NamedIn(s, id) = name
        /\ \A i \in Ids \ {id} : NamedIn(s, i) = NamedIn(stateFile, i)
    BY <2>1, NewStateType
  <2>4. \A i \in Ids : ~BeingWritten(i)
    BY <2>2 DEF BeingWritten
  <2>5. ASSUME NEW i \in Ids \ (edited \cup spoiled), i # id PROVE MemoryOK(i)'
    <3> HIDE DEF s, c
    <3> QED BY <1>0, <2>2, <2>3, <2>4, <2>5, OtherUnchanged DEF MemoryInv
  <2>6. ASSUME id \notin edited \cup spoiled PROVE MemoryOK(id)'
    <3>1. MemoryOK(id)
      BY <2>1, <2>6 DEF MemoryInv
    <3>2. LoadFile(file[id]).ok /\ dc[id] = LoadRemote(file[id], stateFile, id).dc
          /\ MaySelect(dc[id], name)
      BY <2>1, <2>2, <2>4, <3>1 DEF MemoryOK, Loaded
    <3>3. file[id] \in DeviceConfig \cup {Missing, Broken}
      BY <1>0, <2>1
    <3>4. MaySelect(LoadRemote(file[id], stateFile, id).dc, name)
      BY <3>2
    <3>5. Loads(c) /\ c.profile = name
      <4>1. ASSUME NEW t \in StateTable, NamedIn(t, id) = name
            PROVE  /\ Loads(LoadRemote(file[id], t, id).dc)
                   /\ LoadRemote(file[id], t, id).dc.profile = name
        <5>1. LoadFile(file[id]).ok
          BY <3>2
        <5>2. stateFile \in StateTable \cup {Missing, Broken}
          BY <1>0
        <5> QED BY ONLY <5>1, <5>2, <3>3, <3>4, <4>1, SelectedLoads, id \in Ids, name \in Names
      <4> HIDE DEF s
      <4> QED BY <2>3, <4>1
    <3> HIDE DEF s
    <3>6. Loaded(id)' = LoadRemote(file[id], s, id)
      BY <2>2 DEF Loaded
    <3> HIDE DEF c
    <3>7. dc'[id] = c
      BY <1>0, <2>1, <2>2
    <3>8. /\ LoadFile(file'[id]).ok /\ Loads(Loaded(id)'.dc) /\ Loads(dc'[id])
          /\ NamedIn(stateFile', id) \in {NoName, dc'[id].profile} /\ dc'[id] = Loaded(id)'.dc
      BY <2>2, <2>3, <3>2, <3>5, <3>6, <3>7 DEF c
    <3> QED BY <2>2, <3>8 DEF MemoryOK
  <2> HIDE DEF s, c
  <2> QED BY <2>1, <2>2, <2>5, <2>6 DEF MemoryInv
<1>4. CASE WriteFails
  <2>1. CASE job.what = "device"
    <3>1. PICK id \in Ids : job = [what |-> "device", id |-> id]
      BY <1>4, <2>1, DeviceJobFields DEF WriteFails
    <3>2. /\ dc' = [dc EXCEPT ![id] = Loaded(id).dc] /\ job' = NoJob
          /\ UNCHANGED <<file, stateFile, up, edited, spoiled>>
      BY <1>4, <3>1 DEF WriteFails, Rollback
    <3>3. ASSUME NEW i \in Ids \ (edited \cup spoiled), i # id PROVE MemoryOK(i)'
      <4>1. ~BeingWritten(i)
        BY <3>1, <3>3 DEF BeingWritten
      <4> QED BY <1>0, <3>2, <3>3, <4>1, OtherUnchanged DEF MemoryInv
    <3>4. ASSUME id \notin edited \cup spoiled PROVE MemoryOK(id)'
      <4>1. MemoryOK(id) /\ dc'[id] = Loaded(id).dc
        BY <1>0, <3>1, <3>2, <3>4 DEF MemoryInv
      <4> QED BY <3>2, <4>1, ReadBack
    <3> QED BY <3>2, <3>3, <3>4 DEF MemoryInv
  <2>2. CASE job.what # "device"
    <3>1. \A i \in Ids : ~BeingWritten(i)
      BY <2>2 DEF BeingWritten
    <3>2. job' = NoJob /\ UNCHANGED <<file, stateFile, up, edited, spoiled, dc>>
      BY <1>4, <2>2 DEF WriteFails
    <3> QED BY <3>1, <3>2, OtherUnchanged DEF MemoryInv
  <2> QED BY <2>1, <2>2
<1>5. CASE Reload
  <2>1. job' = NoJob /\ UNCHANGED <<file, stateFile, edited, spoiled>>
        /\ dc' = [id \in Ids |-> IF Loaded(id).ok THEN Loaded(id).dc ELSE dc[id]]
    BY <1>5 DEF Reload
  <2>2. ASSUME NEW i \in Ids \ (edited \cup spoiled) PROVE MemoryOK(i)'
    <3>1. MemoryOK(i) /\ Loaded(i).ok
      BY <1>0, LoadRemoteIs DEF MemoryInv, MemoryOK, Loaded
    <3> QED BY <2>1, <3>1, ReadBack
  <2> QED BY <2>1, <2>2 DEF MemoryInv
<1>6. CASE Stop
  BY <1>6 DEF Stop, MemoryInv, MemoryOK, Loaded
<1>7. CASE Restart
  <2>1. job' = NoJob /\ UNCHANGED <<file, stateFile, edited, spoiled>>
        /\ dc' = [id \in Ids |-> Loaded(id).dc]
    BY <1>7 DEF Restart, MemoryInv
  <2> QED BY <2>1, ReadBack DEF MemoryInv
<1>8. ASSUME NEW id \in Ids, Reopen(id) PROVE MemoryInv'
  <2>1. /\ dc' = [dc EXCEPT ![id] = Loaded(id).dc] /\ job = NoJob /\ job' = NoJob
        /\ UNCHANGED <<file, stateFile, up, edited, spoiled>>
    BY <1>8 DEF Reopen
  <2>2. ASSUME NEW i \in Ids \ (edited \cup spoiled), i # id PROVE MemoryOK(i)'
    BY <1>0, <1>00, <2>1, <2>2, OtherUnchanged DEF MemoryInv
  <2>3. ASSUME id \notin edited \cup spoiled PROVE MemoryOK(id)'
    BY <1>0, <2>1, <2>3, ReadBack DEF MemoryInv
  <2> QED BY <2>1, <2>2, <2>3 DEF MemoryInv
<1>9. ASSUME NEW id \in Editable, NEW f \in Edits, EditFile(id, f) PROVE MemoryInv'
  <2>1. /\ file' = [file EXCEPT ![id] = f] /\ edited' = edited \cup {id}
        /\ UNCHANGED <<stateFile, up, dc, running, job, spoiled>>
    BY <1>9 DEF EditFile
  <2>2. ASSUME NEW i \in Ids \ (edited' \cup spoiled') PROVE MemoryOK(i)'
    <3>1. i \notin edited \cup spoiled /\ i # id /\ file'[i] = file[i]
      BY <1>0, <2>1, <2>2
    <3> QED BY <2>1, <3>1 DEF MemoryInv, MemoryOK, Loaded, BeingWritten
  <2> QED BY <2>1, <2>2 DEF MemoryInv
<1>10. ASSUME NEW s \in StateEdits, EditState(s) PROVE MemoryInv'
  BY <1>10 DEF EditState, MemoryInv
<1>11. CASE UNCHANGED vars
  BY <1>11 DEF vars, MemoryInv, MemoryOK, Loaded, BeingWritten
<1> QED
  BY <1>1, <1>2, <1>3, <1>4, <1>5, <1>6, <1>7, <1>8, <1>9, <1>10, <1>11 DEF Next

LEMMA MemoryInit ==
    ASSUME FirstFilesLoad PROVE Init => MemoryInv
<1> SUFFICES ASSUME Init PROVE MemoryInv
  OBVIOUS
<1>1. job = NoJob /\ ~up /\ stateFile = Missing /\ file \in [Ids -> FirstFiles \cup {Missing}]
  BY DEF Init
<1>2. ASSUME NEW id \in Ids PROVE MemoryOK(id)
  <2>1. NamedIn(Missing, id) = NoName
    BY DEF NamedIn
  <2>2. Loaded(id) = LoadFile(file[id])
    BY <1>1, <2>1 DEF Loaded, LoadRemote
  <2>3. CASE file[id] = Missing
    <3>1. LoadFile(Missing) = [ok |-> TRUE, dc |-> DeviceInit]
      BY ConfigStoreAssumption DEF LoadFile, Parses
    <3> QED BY <1>1, <2>2, <2>3, <3>1, DeviceInitType DEF MemoryOK
  <2>4. CASE file[id] \in FirstFiles
    <3>1. file[id] \in DeviceConfig /\ Loads(file[id]) /\ file[id] \notin {Missing, Broken}
      BY <2>4, ConfigStoreAssumption DEF FirstFilesLoad
    <3>2. LoadFile(file[id]) = [ok |-> TRUE, dc |-> file[id]]
      BY <3>1 DEF LoadFile, Loads
    <3> QED BY <1>1, <2>2, <3>1, <3>2 DEF MemoryOK
  <2> QED BY <1>1, <2>3, <2>4
<1> QED BY <1>1, <1>2 DEF MemoryInv

\* Between calls, memory is the file or what loading it gives, whatever clients call,
\* failed, crashed or was reloaded, as long as nobody edits the remote's files; and the
\* file loads as what is in memory, until a speed of 0 or a NaN has been saved, provided the files
\* load at first.
THEOREM MemoryMatchesDiskAlways ==
    ASSUME FirstFilesLoad PROVE Spec => []MemoryMatchesDisk
<1>1. TypeInv /\ KeptInv /\ MemoryInv => MemoryMatchesDisk
  <2> SUFFICES ASSUME TypeInv, KeptInv, MemoryInv, up, job = NoJob, NEW id \in Ids \ edited
               PROVE  /\ dc[id] \in {file[id], Loaded(id).dc}
                      /\ id \notin spoiled => Loaded(id) = [ok |-> TRUE, dc |-> dc[id]]
    BY DEF MemoryMatchesDisk
  <2>0. ~BeingWritten(id)
    BY ConfigStoreAssumption DEF BeingWritten, Jobs
  <2>1. dc[id] \in {file[id], Loaded(id).dc}
    BY <2>0 DEF KeptInv, KeptOK
  <2>2. ASSUME id \notin spoiled PROVE Loaded(id) = [ok |-> TRUE, dc |-> dc[id]]
    <3>1. LoadFile(file[id]).ok /\ dc[id] = Loaded(id).dc
      BY <2>0, <2>2 DEF MemoryInv, MemoryOK
    <3>2. /\ file[id] \in DeviceConfig \cup {Missing, Broken}
          /\ stateFile \in StateTable \cup {Missing, Broken}
      BY DEF TypeInv
    <3>3. LoadFile(file[id]).ok = TRUE
      BY <3>1, <3>2, LoadFileType
    <3>4. Loaded(id) = [ok |-> LoadFile(file[id]).ok, dc |-> Loaded(id).dc]
      BY <3>2, LoadRemoteIs DEF Loaded
    <3> QED BY <3>1, <3>3, <3>4
  <2> QED BY <2>1, <2>2
<1>2. Init => KeptInv
  BY DEF Init, KeptInv, KeptOK
<1> QED
  BY <1>1, <1>2, KeptStep, MemoryInit, MemoryStep, TypeInit, TypeStep, PTL DEF Spec

----------------------------------------------------------------------------
(* What a step may never do.                                                *)

\* The call that ends, done or failed, is about one remote: what every other one would
\* load at the next restart stays as it was.
THEOREM OthersUntouchedAlways == Spec => OthersUntouched
<1>1. ASSUME TypeInv, Next, job # NoJob, job' = NoJob, NEW id \in Ids \ {job.id}
      PROVE  Loaded(id)' = Loaded(id)
  <2>0. file \in [Ids -> DeviceConfig \cup {Missing, Broken}]
    BY <1>1 DEF TypeInv
  <2>1. CASE CommitDevice
    <3>1. file'[id] = file[id] /\ stateFile' = stateFile
      BY <1>1, <2>0, <2>1 DEF CommitDevice
    <3> QED BY <3>1 DEF Loaded
  <2>2. CASE CommitState
    <3>1. job.id \in Ids /\ job.name \in Names
      BY <2>2, StateJobFields, <1>1 DEF CommitState
    <3>2. NamedIn(stateFile', id) = NamedIn(stateFile, id) /\ file' = file
      BY <1>1, <2>2, <3>1, NewStateType DEF CommitState
    <3> QED BY <3>2, NameIsEnough DEF Loaded
  <2>3. CASE WriteFails \/ Stop
    BY <2>3 DEF WriteFails, Stop, Loaded
  <2>4. ASSUME NEW i \in Ids, Call(i) PROVE FALSE
    BY <1>1, <2>4 DEF Call, MapButton, SetScrollSpeed, SetSensitivity, SetCalibPath,
         ResetButtons, SetProfile, Mutate
  <2>5. CASE Reload \/ Restart \/ \E i \in Ids : Reopen(i)
    BY <1>1, <2>5 DEF Reload, Restart, Reopen
  <2>6. CASE \/ \E i \in Editable, f \in Edits : EditFile(i, f)
             \/ \E t \in StateEdits : EditState(t)
    BY <1>1, <2>6 DEF EditFile, EditState
  <2> QED BY <1>1, <2>1, <2>2, <2>3, <2>4, <2>5, <2>6 DEF Next
<1>2. TypeInv /\ [Next]_vars =>
        [job # NoJob /\ job' = NoJob => \A id \in Ids \ {job.id} : Loaded(id)' = Loaded(id)]_vars
  BY <1>1
<1> QED
  BY <1>2, TypeInit, TypeStep, PTL DEF Spec, OthersUntouched

\* No step of the daemon, a failed write and a stop between the two steps of a write
\* among them, leaves a device file that cannot be parsed, but the save of a NaN.
THEOREM FilesStayParseableAlways == Spec => FilesStayParseable
<1> DEFINE Allowed(id) == \/ \E f \in Edits : EditFile(id, f)
                          \/ file'[id] = dc[id] /\ HasSpeed(dc[id], NaN) /\ CommitDevice
<1>1. ASSUME TypeInv, Next, NEW id \in Ids, Parses(file[id]), ~Parses(file'[id])
      PROVE  Allowed(id)
  <2>0. file \in [Ids -> DeviceConfig \cup {Missing, Broken}] /\ dc \in [Ids -> DeviceConfig]
    BY <1>1 DEF TypeInv
  <2>1. file'[id] # file[id]
    BY <1>1
  <2>2. CASE CommitDevice
    <3>1. /\ job.id \in Ids /\ dc[job.id] \in DeviceConfig
          /\ file' = [file EXCEPT ![job.id] = dc[job.id]]
      BY <1>1, <2>0, <2>2, DeviceJobFields DEF CommitDevice
    <3>2. job.id = id /\ file'[id] = dc[id]
      BY <2>0, <2>1, <3>1
    <3>3. HasSpeed(dc[id], NaN)
      BY <1>1, <3>1, <3>2, ConfigStoreAssumption DEF Parses
    <3> QED BY <2>2, <3>2, <3>3
  <2>3. ASSUME NEW i \in Editable, NEW f \in Edits, EditFile(i, f) PROVE Allowed(id)
    <3>1. i \in Ids /\ file' = [file EXCEPT ![i] = f]
      BY <2>3, ConfigStoreAssumption DEF EditFile
    <3>2. i = id
      BY <2>0, <2>1, <3>1
    <3> QED BY <2>3, <3>2
  <2>4. ASSUME NEW i \in Ids, Call(i) PROVE FALSE
    BY <2>1, <2>4 DEF Call, MapButton, SetScrollSpeed, SetSensitivity, SetCalibPath,
         ResetButtons, SetProfile, Mutate, WriteTmp
  <2>5. CASE \/ CommitState \/ WriteFails \/ Reload \/ Stop \/ Restart
             \/ \E i \in Ids : Reopen(i)
             \/ \E t \in StateEdits : EditState(t)
    BY <2>1, <2>5 DEF CommitState, WriteFails, Reload, Stop, Restart, Reopen, EditState
  <2> QED BY <1>1, <2>2, <2>3, <2>4, <2>5 DEF Next
<1>2. TypeInv /\ [Next]_vars =>
        [\A id \in Ids : Parses(file[id]) /\ ~Parses(file'[id]) => Allowed(id)]_vars
  BY <1>1
<1> QED
  BY <1>2, TypeInit, TypeStep, PTL DEF Spec, FilesStayParseable

=============================================================================
