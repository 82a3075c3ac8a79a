------------------------------- MODULE MCBus -------------------------------
(* A small instance of Bus for TLC. *)
EXTENDS Bus

CONSTANTS a, k1, k2, tv, cal, root, user, NoKey

\* The commands of lg-magic that talk to the daemon (what is left out is part of
\* another), the Reload of the wizard, and the SetCalibPath the tests send.
MCPrograms ==
    { ButtonMap(a, <<k1, k2>>), ButtonMap(a, <<k1, NoKey>>), ButtonReset(a), ButtonList(TheOnly),
      ScrollSet("SetScrollSpeed", a, MaxScroll + 1), ScrollReset(a, Unit, DefaultSens),
      ProfileSet(a, tv), DeviceStatus(TheOnly),
      <<Ask("SetCalibPath", a, cal)>>, <<Ask("Reload", NoDevice, 0)>> }

MCOrder == <<Default, tv>>
MCRemaps == {<<k1, k2>>}
MCGoodFile ==
    [profile |-> Default, airmouse |-> TRUE, calib |-> Unset,
     profiles |-> [n \in Names |-> IF n = Default THEN Absent ELSE ProfileInit]]
MCFirstFiles == {MCGoodFile}
=============================================================================
