----------------------------- MODULE MCPipeline -----------------------------
(* Small instances of Pipeline for TLC. *)
EXTENDS Pipeline

CONSTANTS k1, k2, k3, tv, alphaLow, alphaHigh, calA

MCProfile(scroll, sens, lpf, map) ==
    [scroll |-> scroll, sens |-> sens, lpf |-> lpf, map |-> map]

\* k1 remapped onto a key that also exists on the remote, as in the tests
\* (KEY_UP -> KEY_VOLUMEUP).
OntoK2 == [NoMap EXCEPT ![k1] = k2]
OntoK3 == [NoMap EXCEPT ![k1] = k3]

MCDevice(name, mouse, default, other) ==
    [profile |-> name, airmouse |-> mouse, calib |-> Unset,
     profiles |-> [n \in Names |-> IF n = Default THEN default ELSE other]]

\* No file; the default profile with a map; a named profile; a named profile that
\* is not defined, which falls back to "default".
MCConfigs ==
    { MCDevice(Default, TRUE, Absent, Absent),
      MCDevice(Default, TRUE, MCProfile(1, 15, Unset, OntoK2), Absent),
      MCDevice(tv, FALSE, Absent, MCProfile(3, Unset, Unset, OntoK3)),
      MCDevice(tv, TRUE, MCProfile(1, 15, Unset, OntoK2), Absent) }

\* A profile that sets its own filter coefficient.
MCFilterConfigs ==
    MCConfigs \cup {MCDevice(Default, TRUE, MCProfile(1, 15, alphaLow, NoMap), Absent)}

MCKeyConfigs == {MCDevice(Default, TRUE, MCProfile(Unset, 15, Unset, m), Absent)
                    : m \in {NoMap, OntoK2, OntoK3}}
MCNotches == {-2, -1, 1, 2}
MCAllConfigs == MCConfigs \cup MCKeyConfigs

----------------------------------------------------------------------------
(* Two uses of the pipeline.  A keyboard: any number of keys held at once,  *)
(* autorepeat, remaps; no wheel and no calibration.  The remote: one button *)
(* at a time and at most one with a lost event, no autorepeat; wheel, air   *)
(* mouse, profiles and calibration files.                                   *)

VARIABLE use

InUse ==
    \/ /\ use = "keyboard"
       /\ want \in MCKeyConfigs
       /\ clicks = 0 /\ accum = 0
       /\ calfile = Unreadable /\ motion = NoMotion
    \/ /\ use = "remote"
       /\ want \in MCConfigs
       /\ Cardinality(phys) <= 1 /\ Cardinality(lost) <= 1

UseInit == Init /\ use \in {"keyboard", "remote"} /\ InUse
UseNext ==
    /\ Next
    /\ UNCHANGED use
    /\ InUse'
    /\ use = "remote" => \A k \in Keys : ~Repeat(k)
UseSpec == UseInit /\ [][UseNext]_<<vars, use>>

\* While the remote reports one button at a time and no event is lost, the key
\* the person holds since the last configure is down on the virtual keyboard.
RemoteKeyIsDown == use = "remote" => HeldKeyIsDown

=============================================================================
