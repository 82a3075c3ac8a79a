----------------------------- MODULE MCPairing -----------------------------
(***************************************************************************)
(* pairing_match over every sequence of up to MaxDevs devices, discovered  *)
(* one at a time, compared with what pairing.h says of it.                 *)
(***************************************************************************)
EXTENDS Pairing

CONSTANTS MaxDevs, m1, m2, m3

VARIABLE devs   \* the devices in discovery order

Init == devs = <<>>

\* readdir returns one more node; only keyboards and IMUs carry a MAC that counts.
Discover ==
    /\ Len(devs) < MaxDevs
    /\ \E d \in Device :
          /\ d.kind = "other" => d.uniq = NoMac
          /\ devs' = Append(devs, d)

Next == Discover
Spec == Init /\ [][Next]_devs

----------------------------------------------------------------------------

Imus == {i \in DOMAIN devs : devs[i].kind = "imu"}
MacsDiffer(S) == \A i, j \in S : i # j => devs[i].uniq # devs[j].uniq \/ devs[i].uniq = NoMac

\* Every keyboard and every IMU has a MAC of its own, and each IMU's keyboard is there.
CompleteSet ==
    /\ MacsDiffer(Keyboards(devs)) /\ MacsDiffer(Imus)
    /\ \A k \in Keyboards(devs) : devs[k].uniq # NoMac
    /\ \A i \in Imus : \E k \in Keyboards(devs) : SameMac(devs[i], devs[k])

\* A set in which every MAC is known pairs by MAC alone, whatever order readdir
\* returned the nodes in.
CompleteSetsPairByMac ==
    CompleteSet =>
        /\ Pairs(devs).ok
        /\ \A k \in Keyboards(devs), i \in Imus :
              Pairs(devs).imu[k] = i <=> SameMac(devs[i], devs[k])

\* Two remotes never go by one identity, which names their files and is how the
\* bus finds them, unless two devices of a kind report the same MAC.
IdentitiesDistinct ==
    Pairs(devs).ok /\ MacsDiffer(Keyboards(devs)) /\ MacsDiffer(Imus) =>
        \A a, b \in Keyboards(devs) :
            a # b /\ RemoteOf(devs, a).uniq # NoMac =>
                RemoteOf(devs, a).uniq # RemoteOf(devs, b).uniq

=============================================================================
