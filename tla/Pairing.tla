------------------------------ MODULE Pairing ------------------------------
(***************************************************************************)
(* Pairing keyboards with their IMUs (tools/src/pairing.c).                *)
(*                                                                         *)
(* The input is a sequence of input devices in discovery order, each a     *)
(* record [kind, uniq]: kind is what the name and id classify it as        *)
(* (pairing_is_keyboard, pairing_is_imu, or neither), uniq the MAC address *)
(* sysfs gives for it, NoMac for the empty string.  MACs that differ only  *)
(* in case are one value.  The result pairs each keyboard's index with the *)
(* index of its IMU, 0 for none.                                           *)
(***************************************************************************)
EXTENDS Integers, Sequences, FiniteSets, SequencesExt

CONSTANT Macs, NoMac

ASSUME PairingAssumption == NoMac \notin Macs

Kinds == {"keyboard", "imu", "other"}
Device == [kind : Kinds, uniq : Macs \cup {NoMac}]

Keyboards(devs) == {i \in DOMAIN devs : devs[i].kind = "keyboard"}

\* uniq_eq, which an IMU is only asked for when its own uniq is not empty.
SameMac(imu, kbd) == imu.uniq # NoMac /\ imu.uniq = kbd.uniq

\* The state of the loop: still unambiguous, and each keyboard's IMU so far.
FreeKeyboards(devs, st) == {k \in Keyboards(devs) : st.imu[k] = 0}
Matching(devs, st, i) == {k \in FreeKeyboards(devs, st) : SameMac(devs[i], devs[k])}
Give(st, k, i) == [st EXCEPT !.imu[k] = i]

\* Faulty: keyboards are taken in discovery order.
PairInOrder(devs, st, i) ==
    LET free == FreeKeyboards(devs, st)
    IN  IF free = {} THEN st ELSE Give(st, CHOOSE k \in free : \A j \in free : k <= j, i)

\* Faulty: several candidates and no MAC match is resolved by a guess.
PairGuessing(devs, st, i) ==
    IF Matching(devs, st, i) # {}
    THEN Give(st, CHOOSE k \in Matching(devs, st, i) : TRUE, i)
    ELSE PairInOrder(devs, st, i)

\* One IMU: by MAC among the keyboards still free, else the sole free keyboard,
\* else nothing when none is free; anything else is ambiguous.
PairImu(devs, st, i) ==
    LET free == FreeKeyboards(devs, st)
        match == Matching(devs, st, i)
    IN  CASE Cardinality(match) = 1 -> Give(st, CHOOSE k \in match : TRUE, i)
          [] match = {} /\ Cardinality(free) = 1 -> Give(st, CHOOSE k \in free : TRUE, i)
          [] free = {} -> st
          [] OTHER -> [st EXCEPT !.ok = FALSE]

\* One device; an ambiguity stops the loop.
PairDev(devs, st, i) == IF st.ok /\ devs[i].kind = "imu" THEN PairImu(devs, st, i) ELSE st

NonePaired(devs) == [ok |-> TRUE, imu |-> [k \in Keyboards(devs) |-> 0]]

\* The state after each device.
PairLoop(devs) ==
    LET st[n \in 0..Len(devs)] == IF n = 0 THEN NonePaired(devs) ELSE PairDev(devs, st[n - 1], n)
    IN  st

Pairs(devs) == PairLoop(devs)[Len(devs)]

\* The identity a pair goes by: the keyboard's MAC, else its IMU's.
Identity(devs, k, i) ==
    IF devs[k].uniq = NoMac /\ i # 0 THEN devs[i].uniq ELSE devs[k].uniq

\* The remote of one keyboard.
RemoteOf(devs, k) ==
    LET i == Pairs(devs).imu[k]
    IN  [uniq |-> Identity(devs, k, i), kbd |-> k, imu |-> i]

\* The numbers in S, the smallest first.
InOrder(S) == {s \in SetToSeqs(S) : \A i, j \in DOMAIN s : i < j => s[i] < s[j]}

=============================================================================
