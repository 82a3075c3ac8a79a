--------------------------- MODULE DevicesProofs ---------------------------
(***************************************************************************)
(* What holds of the daemon's remotes and descriptors for any number of    *)
(* remotes, event nodes and descriptors.                                   *)
(***************************************************************************)
EXTENDS Devices, PairingProofs

(***************************************************************************)
(* Descriptor numbers.                                                     *)
(***************************************************************************)

\* The lowest free number is one of the free ones.
LEMMA LowestIsOne ==
    ASSUME NEW S \in SUBSET Fds, S # {} PROVE Lowest(S) \in S
<1>1. S \in SUBSET Nat
  BY DevicesAssumption
<1>2. \E f \in S : \A g \in S : f <= g
  BY <1>1, LeastNumber
<1> QED BY <1>2 DEF Lowest

\* Taking the lowest of so many numbers leaves one fewer.
LEMMA TakeLowest ==
    ASSUME NEW S \in SUBSET Fds, NEW c \in Nat, Cardinality(S) >= c + 1
    PROVE  /\ Lowest(S) \in S
           /\ Cardinality(S \ {Lowest(S)}) >= c
<1>1. IsFiniteSet(S) /\ Cardinality(S) \in Nat
  BY DevicesAssumption, FS_Subset, FS_CardinalityType
<1>2. S # {}
  BY <1>1, FS_EmptySet
<1>3. Lowest(S) \in S
  BY <1>2, LowestIsOne
<1>4. Cardinality(S \ {Lowest(S)}) = Cardinality(S) - 1
  BY <1>1, <1>3, FS_RemoveElement
<1> QED BY <1>1, <1>3, <1>4

\* The next four opens get four different numbers that were free.
LEMMA FourFree ==
    ASSUME Cardinality(Fds \ OpenFds) >= 4
    PROVE  /\ {Fd1, Fd2, Fd3, Fd4} \subseteq Fds \ OpenFds
           /\ Fd1 # Fd2 /\ Fd1 # Fd3 /\ Fd1 # Fd4 /\ Fd2 # Fd3 /\ Fd2 # Fd4 /\ Fd3 # Fd4
<1> DEFINE S1 == Fds \ OpenFds
           S2 == S1 \ {Fd1}
           S3 == S2 \ {Fd2}
           S4 == S3 \ {Fd3}
<1>1. Fd1 = Lowest(S1) /\ Fd2 = Lowest(S2) /\ Fd3 = Lowest(S3) /\ Fd4 = Lowest(S4)
  <2>1. Fds \ (OpenFds \cup {Fd1}) = S2
    OBVIOUS
  <2>2. Fds \ (OpenFds \cup {Fd1, Fd2}) = S3
    OBVIOUS
  <2>3. Fds \ (OpenFds \cup {Fd1, Fd2, Fd3}) = S4
    OBVIOUS
  <2> HIDE DEF S2, S3, S4
  <2>4. Fd1 = Lowest(S1)
    BY Zenon DEF Fd1
  <2>5. Fd2 = Lowest(S2)
    BY <2>1, Zenon DEF Fd2
  <2>6. Fd3 = Lowest(S3)
    BY <2>2, Zenon DEF Fd3
  <2>7. Fd4 = Lowest(S4)
    BY <2>3, Zenon DEF Fd4
  <2> QED BY <2>4, <2>5, <2>6, <2>7, Zenon
<1>2. /\ S1 \in SUBSET Fds /\ S2 \in SUBSET Fds /\ S3 \in SUBSET Fds /\ S4 \in SUBSET Fds
      /\ S2 = S1 \ {Fd1} /\ S3 = S2 \ {Fd2} /\ S4 = S3 \ {Fd3}
  OBVIOUS
<1>3. Cardinality(S1) >= 3 + 1
  OBVIOUS
<1> HIDE DEF S1, S2, S3, S4
<1>4. Fd1 \in S1 /\ Cardinality(S2) >= 2 + 1
  BY <1>1, <1>2, <1>3, TakeLowest
<1>5. Fd2 \in S2 /\ Cardinality(S3) >= 1 + 1
  BY <1>1, <1>2, <1>4, TakeLowest
<1>6. Fd3 \in S3 /\ Cardinality(S4) >= 0 + 1
  BY <1>1, <1>2, <1>5, TakeLowest
<1>7. Fd4 \in S4
  BY <1>1, <1>2, <1>6, TakeLowest
<1> QED BY <1>2, <1>4, <1>5, <1>6, <1>7 DEF S1

(***************************************************************************)
(* What a scan finds.                                                      *)
(***************************************************************************)

\* The event nodes of two remotes, 0 for none, have nothing in common.
Apart(r, t) == {r.kbdPath, r.imuPath} \cap {t.kbdPath, t.imuPath} \subseteq {NoPath}
AllApart(rs, ts) == \A i \in DOMAIN rs, j \in DOMAIN ts : Apart(rs[i], ts[j])
EachApart(rs) == \A i, j \in DOMAIN rs : i # j => Apart(rs[i], rs[j])

\* A scan lists remotes with paths of their own, whatever order it reads the nodes
\* in.
LEMMA FoundRight ==
    ASSUME node \in [Paths -> Node \cup {NoNode}],
           NEW order \in SetToSeqs({p \in Paths : node[p] # NoNode}),
           NEW found \in Found(order, [i \in DOMAIN order |-> DevOf(order[i])])
    PROVE  found \in Seq(FoundRemote) /\ EachApart(found)
<1> DEFINE S == {p \in Paths : node[p] # NoNode}
           N == Cardinality(S)
           devs == [i \in DOMAIN order |-> DevOf(order[i])]
           K == Keyboards(devs)
<1>1. IsFiniteSet(S) /\ N \in Nat /\ S \subseteq Paths
  BY DevicesAssumption, FS_Subset, FS_CardinalityType
<1>2. /\ order \in [1..N -> S]
      /\ \A i, j \in 1..N : i # j => order[i] # order[j]
  BY DEF SetToSeqs
<1>3. \A p \in S : DevOf(p) \in Device
  BY DevicesAssumption DEF DevOf, Device, Node
<1> HIDE DEF S, N
<1>4. devs \in [1..N -> Device] /\ DOMAIN devs = 1..N
  BY <1>2, <1>3
<1>5. Len(devs) = N
  <2> HIDE DEF devs
  <2> QED BY <1>1, <1>4
<1>6. PICK kbds \in InOrder(K) :
        found = [n \in DOMAIN kbds |-> FoundOne(order, RemoteOf(devs, kbds[n]))]
  BY DEF Found
<1> HIDE DEF devs
<1>7. K \subseteq 1..N /\ IsFiniteSet(K) /\ Cardinality(K) \in Nat
  <2>1. K \subseteq 1..N /\ IsFiniteSet(1..N)
    BY <1>1, <1>4, FS_Interval DEF Keyboards
  <2> QED BY <2>1, FS_Subset, FS_CardinalityType
<1>8. /\ kbds \in [1..Cardinality(K) -> K]
      /\ \A i, j \in 1..Cardinality(K) : i # j => kbds[i] # kbds[j]
  BY DEF InOrder, SetToSeqs
<1>9. Pairs(devs) \in Assignments(devs, N)
  BY <1>1, <1>4, <1>5, PairsSound
<1> DEFINE imu == Pairs(devs).imu
<1>10. /\ \A k \in K : imu[k] \in 0..N
       /\ \A k \in K : imu[k] # 0 =>
             imu[k] \in ImusOf(devs) /\ \A j \in K : imu[j] = imu[k] => j = k
  BY <1>9 DEF Assignments
<1>11. /\ \A k \in K, i \in ImusOf(devs) : i # k
       /\ ImusOf(devs) \subseteq 1..N
  BY <1>4 DEF Keyboards, ImusOf
<1>12. \A k \in K : RemoteOf(devs, k) =
                      [uniq |-> Identity(devs, k, imu[k]), kbd |-> k, imu |-> imu[k]]
  BY DEF RemoteOf
<1> HIDE DEF imu, K
<1>13. \A k \in K : Identity(devs, k, imu[k]) \in Macs \cup {NoMac}
  <2> TAKE k \in K
  <2>1. devs[k] \in Device
    BY <1>4, <1>7
  <2>2. imu[k] # 0 => devs[imu[k]] \in Device
    BY <1>4, <1>10, <1>11
  <2> QED BY <2>1, <2>2 DEF Identity, Device
<1> DEFINE M == Cardinality(K)
           k(n) == kbds[n]
<1>14. /\ DOMAIN found = 1..M
       /\ \A n \in 1..M : found[n] =
             [id |-> Identity(devs, k(n), imu[k(n)]), kbdPath |-> order[k(n)],
              imuPath |-> IF imu[k(n)] = 0 THEN NoPath ELSE order[imu[k(n)]]]
  BY <1>6, <1>8, <1>12 DEF FoundOne
<1>15. \A i \in 1..N : order[i] \in Paths /\ order[i] # NoPath
  BY <1>1, <1>2, DevicesAssumption DEF NoPath
<1>16. \A n \in 1..M : k(n) \in K /\ k(n) \in 1..N
  BY <1>7, <1>8
<1> HIDE DEF M, k
<1>17. \A n \in 1..M : found[n] \in FoundRemote
  <2> TAKE n \in 1..M
  <2>1. k(n) \in K /\ order[k(n)] \in Paths
    BY <1>15, <1>16
  <2>2. imu[k(n)] # 0 => order[imu[k(n)]] \in Paths
    BY <2>1, <1>10, <1>11, <1>15
  <2>3. Identity(devs, k(n), imu[k(n)]) \in Macs \cup {NoMac}
    BY <2>1, <1>13
  <2> QED BY <2>1, <2>2, <2>3, <1>14 DEF FoundRemote
<1>18. found \in Seq(FoundRemote)
  <2>1. M \in Nat
    BY <1>7 DEF M
  <2>2. found = [n \in 1..M |-> found[n]]
    BY <1>6, <1>14
  <2> QED BY <2>1, <2>2, <1>17
<1>19. ASSUME NEW a \in 1..M, NEW b \in 1..M, a # b
       PROVE  Apart(found[a], found[b])
  <2>1. /\ k(a) \in K /\ k(b) \in K /\ k(a) \in 1..N /\ k(b) \in 1..N /\ k(a) # k(b)
    BY <1>16, <1>8, <1>19 DEF k, M
  <2>2. /\ found[a].kbdPath = order[k(a)] /\ found[b].kbdPath = order[k(b)]
        /\ found[a].imuPath = IF imu[k(a)] = 0 THEN NoPath ELSE order[imu[k(a)]]
        /\ found[b].imuPath = IF imu[k(b)] = 0 THEN NoPath ELSE order[imu[k(b)]]
    BY <1>14
  <2>3. order[k(a)] # order[k(b)]
    BY <2>1, <1>2
  <2>4. imu[k(a)] # 0 => imu[k(a)] \in 1..N /\ order[imu[k(a)]] # order[k(b)]
    BY <2>1, <1>2, <1>10, <1>11
  <2>5. imu[k(b)] # 0 => imu[k(b)] \in 1..N /\ order[imu[k(b)]] # order[k(a)]
    BY <2>1, <1>2, <1>10, <1>11
  <2>6. imu[k(a)] # 0 /\ imu[k(b)] # 0 => order[imu[k(a)]] # order[imu[k(b)]]
    BY <2>1, <2>4, <2>5, <1>2, <1>10
  <2> QED BY <2>2, <2>3, <2>4, <2>5, <2>6 DEF Apart
<1> QED BY <1>14, <1>18, <1>19 DEF EachApart

(***************************************************************************)
(* Types.                                                                  *)
(***************************************************************************)

Table == [Fds -> Descriptor \cup {Closed}]

LEMMA NumbersDiffer ==
    /\ \A f \in Fds : f # NoFd /\ f \in Nat
    /\ \A p \in Paths : p # NoPath
  BY DevicesAssumption DEF NoFd, NoPath

LEMMA EmptiedIsRemote == Emptied \in Remote
  BY DEF Emptied, Remote

LEMMA FdsHeld == ASSUME NEW r \in Remote PROVE FdsOf(r) \subseteq Fds
  BY DEF FdsOf, Remote

LEMMA SeqFacts ==
    ASSUME NEW S, NEW s \in Seq(S), NEW e \in S
    PROVE  /\ Append(s, e) \in Seq(S)
           /\ DOMAIN s = 1..Len(s) /\ Len(s) \in Nat
           /\ \A i \in DOMAIN s : s[i] \in S /\ [s EXCEPT ![i] = e] \in Seq(S)
           /\ s # <<>> => Head(s) \in S /\ Tail(s) \in Seq(S)
  OBVIOUS

LEMMA FreeType ==
    ASSUME NEW tab \in Table, NEW r PROVE Free(tab, r) \in Table
  BY DEF Free, Table

LEMMA FdInRange ==
    ASSUME TypeOK, NEW n \in Entries
    PROVE  /\ n \in Nat /\ Slot(n) \in DOMAIN remotes /\ FieldOf(n) \in {"kbd", "imu"}
           /\ FdAt(n) \in Fds /\ FdAt(n) = remotes[Slot(n)][FieldOf(n)]
<1>1. n \in 1..(2 * Len(remotes)) /\ FdAt(n) # NoFd /\ Len(remotes) \in Nat
  BY DEF Entries, TypeOK
<1>2. Slot(n) \in 1..Len(remotes)
  BY <1>1 DEF Slot
<1>3. Slot(n) \in DOMAIN remotes /\ remotes[Slot(n)] \in Remote
  BY <1>2 DEF TypeOK
<1>4. FieldOf(n) \in {"kbd", "imu"}
  BY DEF FieldOf
<1>5. remotes[Slot(n)].kbd \in Fds \cup {NoFd} /\ remotes[Slot(n)].imu \in Fds \cup {NoFd}
  BY <1>3 DEF Remote
<1>6. FdAt(n) = remotes[Slot(n)][FieldOf(n)]
  BY DEF FdAt
<1>7. FdAt(n) \in Fds \cup {NoFd}
  BY <1>4, <1>5, <1>6
<1> QED BY <1>1, <1>3, <1>4, <1>6, <1>7

\* Giving up one descriptor leaves a record a record.
LEMMA DropType ==
    ASSUME NEW r \in Remote, NEW x \in {"kbd", "imu"}
    PROVE  [r EXCEPT ![x] = NoFd] \in Remote
<1>1. CASE x = "kbd"
  <2>1. [r EXCEPT !.kbd = NoFd] \in Remote
    BY DEF Remote
  <2> QED BY <1>1, <2>1
<1>2. CASE x = "imu"
  <2>1. [r EXCEPT !.imu = NoFd] \in Remote
    BY DEF Remote
  <2> QED BY <1>2, <2>1
<1> QED BY <1>1, <1>2

\* What OpenOne adds to the new array, and the table it leaves.
Opened(t, r, tab) ==
    /\ r.id = t.id /\ r.kbdPath = t.kbdPath /\ r.imuPath \in {t.imuPath, NoPath}
    /\ r.vkbd = Fd1 /\ r.vmouse = Fd2 /\ r.kbd = Fd3 /\ r.imu \in {Fd4, NoFd}
    /\ \A f \in Fds \ {Fd1, Fd2, Fd3, r.imu} : tab[f] = fdTab[f]
    /\ tab[Fd1] = Virtual("vkbd") /\ tab[Fd2] = Virtual("vmouse")
    /\ \E g \in BOOLEAN : tab[Fd3] = Evdev("kbd", t.kbdPath, g)
    /\ r.imu = Fd4 => tab[Fd4] = Evdev("imu", t.imuPath, FALSE) /\ t.imuPath \in Paths

LEMMA NewDescriptors ==
    ASSUME NEW p \in Paths, NEW g \in BOOLEAN
    PROVE  /\ Virtual("vkbd") \in Descriptor /\ Virtual("vmouse") \in Descriptor
           /\ Evdev("kbd", p, g) \in Descriptor /\ Evdev("imu", p, FALSE) \in Descriptor
  BY DEF Virtual, Evdev, Descriptor, Roles

LEMMA OpenOutcome ==
    ASSUME TypeOK, OpenOne
    PROVE  /\ Head(todo) \in FoundRemote /\ Tail(todo) \in Seq(FoundRemote)
           /\ todo # <<>> /\ todo' = Tail(todo) /\ pc = "rescan"
           /\ Cardinality(Fds \ OpenFds) >= 4
           /\ UNCHANGED <<node, pc, remotes, batch>>
           /\ \/ fdTab' = fdTab /\ newr' = newr
              \/ \E r \in Remote :
                    newr' = Append(newr, r) /\ fdTab' \in Table /\ Opened(Head(todo), r, fdTab')
<1> DEFINE t == Head(todo)
           hasImu == t.imuPath # NoPath /\ node[t.imuPath] # NoNode
           pair == [id |-> t.id, kbdPath |-> t.kbdPath, imuPath |-> t.imuPath,
                    kbd |-> NoFd, imu |-> NoFd, vkbd |-> Fd1, vmouse |-> Fd2]
           whole == IF hasImu THEN [pair EXCEPT !.kbd = Fd3, !.imu = Fd4]
                    ELSE [pair EXCEPT !.kbd = Fd3, !.imuPath = NoPath]
           withPair == [fdTab EXCEPT ![Fd1] = Virtual("vkbd"), ![Fd2] = Virtual("vmouse")]
           g == Grabbers(t.kbdPath) = {}
           withKbd == [withPair EXCEPT ![Fd3] = Evdev("kbd", t.kbdPath, g)]
           withImu == [withKbd EXCEPT ![Fd4] = Evdev("imu", t.imuPath, FALSE)]
<1>1. /\ pc = "rescan" /\ todo # <<>> /\ Cardinality(Fds \ OpenFds) >= 4
      /\ todo' = Tail(todo) /\ UNCHANGED <<node, pc, remotes, batch>>
      /\ \/ UNCHANGED <<fdTab, newr>>
         \/ fdTab' = Free(Free(withPair, pair), pair) /\ UNCHANGED newr
         \/ fdTab' = (IF hasImu THEN withImu ELSE withKbd) /\ newr' = Append(newr, whole)
  BY Zenon DEF OpenOne
<1>2. t \in FoundRemote /\ Tail(todo) \in Seq(FoundRemote)
  BY <1>1 DEF TypeOK
<1>3. /\ {Fd1, Fd2, Fd3, Fd4} \subseteq Fds /\ {Fd1, Fd2, Fd3, Fd4} \cap OpenFds = {}
      /\ Fd1 # Fd2 /\ Fd1 # Fd3 /\ Fd1 # Fd4 /\ Fd2 # Fd3 /\ Fd2 # Fd4 /\ Fd3 # Fd4
  BY <1>1, FourFree
<1>4. fdTab \in Table
  BY DEF TypeOK, Table
<1>5. /\ t.id \in Macs \cup {NoMac} /\ t.kbdPath \in Paths /\ t.imuPath \in Paths \cup {NoPath}
  BY <1>2 DEF FoundRemote
<1> HIDE DEF t
<1>6. pair = [id |-> t.id, kbdPath |-> t.kbdPath, imuPath |-> t.imuPath,
              kbd |-> NoFd, imu |-> NoFd, vkbd |-> Fd1, vmouse |-> Fd2]
  OBVIOUS
<1>7. fdTab[Fd1] = Closed /\ fdTab[Fd2] = Closed
  BY <1>3 DEF OpenFds
<1>8. Free(Free(withPair, pair), pair) = fdTab
  <2>1. FdsOf(pair) = {Fd1, Fd2}
    BY <1>3, <1>6, NumbersDiffer DEF FdsOf
  <2> HIDE DEF pair
  <2>2. \A f \in Fds : Free(Free(withPair, pair), pair)[f] =
                         IF f \in {Fd1, Fd2} THEN Closed ELSE withPair[f]
    BY <2>1 DEF Free
  <2>3. \A f \in Fds : f \notin {Fd1, Fd2} => withPair[f] = fdTab[f]
    BY <1>3, <1>4 DEF Table
  <2> HIDE DEF withPair
  <2>4. \A f \in Fds : Free(Free(withPair, pair), pair)[f] = fdTab[f]
    BY <2>2, <2>3, <1>7
  <2>5. DOMAIN Free(Free(withPair, pair), pair) = Fds /\ DOMAIN fdTab = Fds
    BY <1>4 DEF Free, Table
  <2> QED BY <2>4, <2>5, <1>4 DEF Free, Table
<1>9. ASSUME fdTab' = (IF hasImu THEN withImu ELSE withKbd)
      PROVE  /\ whole \in Remote /\ fdTab' \in Table /\ Opened(t, whole, fdTab')
  <2> HIDE DEF hasImu
  <2>1. g \in BOOLEAN
    OBVIOUS
  <2> HIDE DEF g
  <2>2. /\ withPair \in Table /\ withPair[Fd1] = Virtual("vkbd")
        /\ withPair[Fd2] = Virtual("vmouse")
        /\ \A f \in Fds \ {Fd1, Fd2} : withPair[f] = fdTab[f]
    BY <1>3, <1>4, <1>5, NewDescriptors DEF Table
  <2> HIDE DEF withPair
  <2>3. /\ withKbd \in Table /\ withKbd[Fd3] = Evdev("kbd", t.kbdPath, g)
        /\ \A f \in Fds \ {Fd3} : withKbd[f] = withPair[f]
    BY <1>3, <1>5, <2>1, <2>2, NewDescriptors DEF Table
  <2> HIDE DEF withKbd
  <2>4. CASE hasImu
    <3>1. t.imuPath \in Paths
      BY <2>4, <1>5 DEF hasImu
    <3>2. /\ withImu \in Table /\ withImu[Fd4] = Evdev("imu", t.imuPath, FALSE)
          /\ \A f \in Fds \ {Fd4} : withImu[f] = withKbd[f]
      BY <1>3, <2>3, <3>1, NewDescriptors DEF Table
    <3> HIDE DEF withImu
    <3>3. fdTab' = withImu
      BY <1>9, <2>4
    <3>4. whole = [id |-> t.id, kbdPath |-> t.kbdPath, imuPath |-> t.imuPath,
                   kbd |-> Fd3, imu |-> Fd4, vkbd |-> Fd1, vmouse |-> Fd2]
      BY <1>6, <2>4
    <3> HIDE DEF whole
    <3>5. whole \in Remote
      BY <1>3, <1>5, <3>4 DEF Remote
    <3>6. /\ \A f \in Fds \ {Fd1, Fd2, Fd3, Fd4} : withImu[f] = fdTab[f]
          /\ withImu[Fd1] = Virtual("vkbd") /\ withImu[Fd2] = Virtual("vmouse")
          /\ withImu[Fd3] = Evdev("kbd", t.kbdPath, g)
      BY <1>3, <2>2, <2>3, <3>2
    <3>7. /\ whole.id = t.id /\ whole.kbdPath = t.kbdPath /\ whole.imuPath = t.imuPath
          /\ whole.vkbd = Fd1 /\ whole.vmouse = Fd2 /\ whole.kbd = Fd3 /\ whole.imu = Fd4
      BY <3>4
    <3>8. Opened(t, whole, withImu)
      BY <2>1, <3>1, <3>2, <3>6, <3>7 DEF Opened
    <3> QED BY <3>2, <3>3, <3>5, <3>8
  <2>5. CASE ~hasImu
    <3>3. fdTab' = withKbd
      BY <1>9, <2>5
    <3>4. whole = [id |-> t.id, kbdPath |-> t.kbdPath, imuPath |-> NoPath,
                   kbd |-> Fd3, imu |-> NoFd, vkbd |-> Fd1, vmouse |-> Fd2]
      BY <1>6, <2>5
    <3> HIDE DEF whole
    <3>5. whole \in Remote
      BY <1>3, <1>5, <3>4 DEF Remote
    <3>6. /\ \A f \in Fds \ {Fd1, Fd2, Fd3} : withKbd[f] = fdTab[f]
          /\ withKbd[Fd1] = Virtual("vkbd") /\ withKbd[Fd2] = Virtual("vmouse")
          /\ withKbd[Fd3] = Evdev("kbd", t.kbdPath, g)
      BY <1>3, <2>2, <2>3
    <3>7. /\ whole.id = t.id /\ whole.kbdPath = t.kbdPath /\ whole.imuPath = NoPath
          /\ whole.vkbd = Fd1 /\ whole.vmouse = Fd2 /\ whole.kbd = Fd3 /\ whole.imu = NoFd
          /\ NoFd # Fd4
      BY <3>4, <1>3, NumbersDiffer
    <3>8. Opened(t, whole, withKbd)
      BY <2>1, <3>6, <3>7 DEF Opened
    <3> QED BY <2>3, <3>3, <3>5, <3>8
  <2> QED BY <2>4, <2>5
<1> HIDE DEF whole, withImu, withKbd, hasImu
<1> QED BY <1>1, <1>2, <1>8, <1>9, Zenon DEF t

LEMMA StealOutcome ==
    ASSUME TypeOK, StealOne
    PROVE  \E j \in DOMAIN remotes :
              /\ Unchanged(remotes[j], Head(todo)) /\ Head(todo) \in FoundRemote
              /\ newr' = Append(newr, remotes[j])
              /\ remotes' = [remotes EXCEPT ![j] = Emptied]
              /\ todo # <<>> /\ todo' = Tail(todo) /\ pc = "rescan"
              /\ UNCHANGED <<node, fdTab, pc, batch>>
<1> DEFINE S == Stealable(Head(todo))
           j == CHOOSE i \in S : \A k \in S : i <= k
<1>1. /\ pc = "rescan" /\ todo # <<>> /\ S # {} /\ Steal(j) /\ todo' = Tail(todo)
      /\ UNCHANGED <<node, fdTab, pc, batch>>
  BY DEF StealOne, kernelVars
<1>2. S \subseteq DOMAIN remotes /\ DOMAIN remotes \subseteq Nat
  BY DEF Stealable, TypeOK
<1>3. \E i \in S : \A k \in S : i <= k
  BY <1>1, <1>2, LeastNumber
<1>4. j \in S
  BY <1>3
<1>5. j \in DOMAIN remotes /\ Unchanged(remotes[j], Head(todo))
  BY <1>4 DEF Stealable
<1>6. newr' = Append(newr, remotes[j]) /\ remotes' = [remotes EXCEPT ![j] = Emptied]
  BY <1>1 DEF Steal
<1>7. Head(todo) \in FoundRemote
  BY <1>1 DEF TypeOK
<1> HIDE DEF j
<1> QED BY <1>1, <1>5, <1>6, <1>7

\* Steps that read or lose input leave every descriptor open and of its role.
SameRoles(old, new) ==
    \A f \in Fds : /\ new[f] = Closed <=> old[f] = Closed
                   /\ old[f] # Closed => new[f].role = old[f].role /\ new[f].grab = old[f].grab

LEMMA Flagged ==
    ASSUME NEW d \in Descriptor, NEW b \in BOOLEAN
    PROVE  /\ [d EXCEPT !.alive = b] \in Descriptor
           /\ [d EXCEPT !.alive = b].role = d.role /\ [d EXCEPT !.alive = b].grab = d.grab
           /\ [d EXCEPT !.queued = b] \in Descriptor
           /\ [d EXCEPT !.queued = b].role = d.role /\ [d EXCEPT !.queued = b].grab = d.grab
           /\ d # Closed /\ [d EXCEPT !.alive = b] # Closed /\ [d EXCEPT !.queued = b] # Closed
<1>1. /\ [d EXCEPT !.alive = b] \in Descriptor
      /\ [d EXCEPT !.alive = b].role = d.role /\ [d EXCEPT !.alive = b].grab = d.grab
      /\ [d EXCEPT !.queued = b] \in Descriptor
      /\ [d EXCEPT !.queued = b].role = d.role /\ [d EXCEPT !.queued = b].grab = d.grab
  BY DEF Descriptor
<1>2. Closed \notin Descriptor
  BY DevicesAssumption
<1> QED BY <1>1, <1>2

LEMMA EnvironmentOutcome ==
    ASSUME TypeOK, Environment
    PROVE  /\ node' \in [Paths -> Node \cup {NoNode}] /\ fdTab' \in Table
           /\ SameRoles(fdTab, fdTab')
           /\ UNCHANGED <<pc, remotes, newr, todo, batch>>
<1> USE DEF daemonVars, Table
<1>1. /\ node \in [Paths -> Node \cup {NoNode}] /\ fdTab \in Table
      /\ \A f \in Fds : fdTab[f] # Closed => fdTab[f] \in Descriptor
  BY DEF TypeOK
<1>2. TRUE \in BOOLEAN /\ FALSE \in BOOLEAN
  OBVIOUS
<1>3. ASSUME NEW h \in Hw, NEW kind \in {"keyboard", "imu"}, NEW p \in Paths, Attach(h, kind, p)
      PROVE  /\ node' \in [Paths -> Node \cup {NoNode}] /\ fdTab' \in Table
             /\ SameRoles(fdTab, fdTab') /\ UNCHANGED <<pc, remotes, newr, todo, batch>>
  BY <1>1, <1>3 DEF Attach, Node, Kinds, SameRoles
<1>4. ASSUME NEW h \in Hw, Detach(h)
      PROVE  /\ node' \in [Paths -> Node \cup {NoNode}] /\ fdTab' \in Table
             /\ SameRoles(fdTab, fdTab') /\ UNCHANGED <<pc, remotes, newr, todo, batch>>
  <2>1. /\ node' = [p \in Paths |-> IF p \in NodesOf(h) THEN NoNode ELSE node[p]]
        /\ UNCHANGED <<pc, remotes, newr, todo, batch>>
    BY <1>4 DEF Detach
  <2>2. fdTab' = [f \in Fds |-> IF fdTab[f] # Closed /\ fdTab[f].path \in NodesOf(h)
                                THEN [fdTab[f] EXCEPT !.alive = FALSE] ELSE fdTab[f]]
    BY <1>4 DEF Detach
  <2>3. node' \in [Paths -> Node \cup {NoNode}]
    BY <1>1, <2>1
  <2>4. ASSUME NEW f \in Fds
        PROVE  /\ fdTab'[f] \in Descriptor \cup {Closed}
               /\ fdTab'[f] = Closed <=> fdTab[f] = Closed
               /\ fdTab[f] # Closed =>
                     fdTab'[f].role = fdTab[f].role /\ fdTab'[f].grab = fdTab[f].grab
    <3>1. CASE fdTab[f] # Closed /\ fdTab[f].path \in NodesOf(h)
      <4>1. fdTab'[f] = [fdTab[f] EXCEPT !.alive = FALSE] /\ fdTab[f] \in Descriptor
        BY <1>1, <2>2, <3>1
      <4> QED BY <1>2, <3>1, <4>1, Flagged
    <3>2. CASE ~(fdTab[f] # Closed /\ fdTab[f].path \in NodesOf(h))
      <4>1. fdTab'[f] = fdTab[f]
        BY <2>2, <3>2
      <4> QED BY <1>1, <4>1
    <3> QED BY <3>1, <3>2
  <2>5. fdTab' \in Table /\ SameRoles(fdTab, fdTab')
    BY <2>2, <2>4 DEF SameRoles
  <2> QED BY <2>1, <2>3, <2>5
<1>5. ASSUME NEW p \in Paths, UserInput(p)
      PROVE  /\ node' \in [Paths -> Node \cup {NoNode}] /\ fdTab' \in Table
             /\ SameRoles(fdTab, fdTab') /\ UNCHANGED <<pc, remotes, newr, todo, batch>>
  <2> DEFINE to == IF Grabbers(p) # {} THEN Grabbers(p) ELSE Listeners(p)
  <2>1. /\ fdTab' = [f \in Fds |-> IF f \in to THEN [fdTab[f] EXCEPT !.queued = TRUE]
                                   ELSE fdTab[f]]
        /\ UNCHANGED <<node, pc, remotes, newr, todo, batch>>
    BY <1>5 DEF UserInput
  <2>2. \A f \in to : fdTab[f] # Closed
    BY DEF Grabbers, Listeners, OpenFds
  <2> HIDE DEF to
  <2>3. ASSUME NEW f \in Fds
        PROVE  /\ fdTab'[f] \in Descriptor \cup {Closed}
               /\ fdTab'[f] = Closed <=> fdTab[f] = Closed
               /\ fdTab[f] # Closed =>
                     fdTab'[f].role = fdTab[f].role /\ fdTab'[f].grab = fdTab[f].grab
    <3>1. CASE f \in to
      <4>1. fdTab'[f] = [fdTab[f] EXCEPT !.queued = TRUE] /\ fdTab[f] \in Descriptor
        BY <1>1, <2>1, <2>2, <3>1
      <4> QED BY <1>2, <2>2, <3>1, <4>1, Flagged
    <3>2. CASE f \notin to
      <4>1. fdTab'[f] = fdTab[f]
        BY <2>1, <3>2
      <4> QED BY <1>1, <4>1
    <3> QED BY <3>1, <3>2
  <2>4. fdTab' \in Table /\ SameRoles(fdTab, fdTab')
    BY <2>1, <2>3 DEF SameRoles
  <2> QED BY <1>1, <2>1, <2>4
<1> QED BY <1>3, <1>4, <1>5 DEF Environment

\* The numbers that records rs keep are open in tab, each of its role.
Holds(tab, rs) ==
    \A i \in DOMAIN rs, x \in Roles :
        rs[i][x] # NoFd => tab[rs[i][x]] # Closed /\ tab[rs[i][x]].role = x

\* A frame is read, a dead descriptor is given up, or there is nothing to do.
LEMMA HandleOutcome ==
    ASSUME TypeOK, Handle, Holds(fdTab, remotes)
    PROVE  /\ batch # <<>> /\ batch' = Tail(batch) /\ UNCHANGED <<node, pc, newr, todo>>
           /\ \/ remotes' = remotes /\ fdTab' \in Table /\ SameRoles(fdTab, fdTab')
              \/ \E i \in DOMAIN remotes, x \in {"kbd", "imu"} :
                    /\ remotes[i][x] \in Fds
                    /\ fdTab' = [fdTab EXCEPT ![remotes[i][x]] = Closed]
                    /\ remotes' = [remotes EXCEPT ![i] = [remotes[i] EXCEPT ![x] = NoFd]]
<1>1. /\ batch # <<>> /\ batch' = Tail(batch) /\ UNCHANGED <<node, pc, newr, todo>>
      /\ \/ \E n \in Target : Frame(n) \/ Gone(n)
         \/ UNCHANGED <<fdTab, remotes>>
  BY DEF Handle
<1>2. fdTab \in Table
  BY DEF TypeOK, Table
<1>3. CASE UNCHANGED <<fdTab, remotes>>
  BY <1>1, <1>2, <1>3 DEF SameRoles
<1>4. ASSUME NEW n \in Target, Frame(n)
      PROVE  remotes' = remotes /\ fdTab' \in Table /\ SameRoles(fdTab, fdTab')
  <2> DEFINE f == FdAt(n)
  <2>1. n \in Entries
    BY DEF Target
  <2>2. f \in Fds
    BY <2>1, FdInRange
  <2>3. /\ fdTab' = [fdTab EXCEPT ![f] = [fdTab[f] EXCEPT !.queued = FALSE]]
        /\ remotes' = remotes /\ fdTab[f].alive
    BY <1>4 DEF Frame
  <2> HIDE DEF f
  <2>4. fdTab[f] \in Descriptor /\ FALSE \in BOOLEAN
    <3>1. Slot(n) \in DOMAIN remotes /\ FieldOf(n) \in Roles /\ f = remotes[Slot(n)][FieldOf(n)]
      BY <2>1, FdInRange DEF f, Roles
    <3>2. fdTab[f] # Closed
      BY <2>2, <3>1, NumbersDiffer DEF Holds
    <3> QED BY <1>2, <2>2, <3>2 DEF Table
  <2> DEFINE d == [fdTab[f] EXCEPT !.queued = FALSE]
  <2>5. /\ d \in Descriptor /\ d # Closed /\ fdTab[f] # Closed
        /\ d.role = fdTab[f].role /\ d.grab = fdTab[f].grab
    BY <2>4, Flagged
  <2>6. fdTab' = [fdTab EXCEPT ![f] = d]
    BY <2>3
  <2> HIDE DEF d
  <2> QED BY <1>2, <2>2, <2>3, <2>5, <2>6 DEF Table, SameRoles
<1>5. ASSUME NEW n \in Target, Gone(n)
      PROVE  \E i \in DOMAIN remotes, x \in {"kbd", "imu"} :
                /\ remotes[i][x] \in Fds
                /\ fdTab' = [fdTab EXCEPT ![remotes[i][x]] = Closed]
                /\ remotes' = [remotes EXCEPT ![i] = [remotes[i] EXCEPT ![x] = NoFd]]
  <2>1. n \in Entries
    BY DEF Target
  <2>2. /\ Slot(n) \in DOMAIN remotes /\ FieldOf(n) \in {"kbd", "imu"}
        /\ FdAt(n) \in Fds /\ FdAt(n) = remotes[Slot(n)][FieldOf(n)]
    BY <2>1, FdInRange
  <2>3. /\ fdTab' = [fdTab EXCEPT ![FdAt(n)] = Closed]
        /\ remotes' = [remotes EXCEPT ![Slot(n)] = [remotes[Slot(n)] EXCEPT ![FieldOf(n)] = NoFd]]
    BY <1>5 DEF Gone
  <2> QED BY <2>2, <2>3, Zenon
<1> QED BY <1>1, <1>3, <1>4, <1>5

(***************************************************************************)
(* Who keeps which descriptor: rs are the old records, ns the new ones.    *)
(***************************************************************************)

Once(rs) ==
    \A i, j \in DOMAIN rs, x \in Roles : rs[i][x] # NoFd /\ rs[i][x] = rs[j][x] => i = j
Separate(rs, ns) ==
    \A i \in DOMAIN rs, j \in DOMAIN ns, x \in Roles : rs[i][x] # NoFd => rs[i][x] # ns[j][x]
Kept(tab, rs, ns) ==
    \A f \in Fds : tab[f] # Closed =>
        \/ \E i \in DOMAIN rs : rs[i][tab[f].role] = f
        \/ \E i \in DOMAIN ns : ns[i][tab[f].role] = f

\* Every open descriptor is kept once and in one array.
Owned(tab, rs, ns) ==
    /\ Holds(tab, rs) /\ Holds(tab, ns)
    /\ Once(rs) /\ Once(ns) /\ Separate(rs, ns)
    /\ Kept(tab, rs, ns)

\* A record holds nothing, or at least the virtual pair.
Equipped(rs) ==
    \A i \in DOMAIN rs :
        \/ rs[i] = Emptied
        \/ rs[i].id # Closed /\ rs[i].vkbd # NoFd /\ rs[i].vmouse # NoFd
GrabIsKeyboard(tab) == \A f \in Fds : tab[f] # Closed /\ tab[f].grab => tab[f].role = "kbd"

LEMMA RoleFields ==
    ASSUME NEW r \in Remote, NEW x \in Roles
    PROVE  r[x] \in Fds \cup {NoFd} /\ Emptied[x] = NoFd
  BY DEF Remote, Roles, Emptied

LEMMA DropFields ==
    ASSUME NEW r \in Remote, NEW x \in {"kbd", "imu"}
    PROVE  /\ \A y \in Roles : [r EXCEPT ![x] = NoFd][y] = IF y = x THEN NoFd ELSE r[y]
           /\ [r EXCEPT ![x] = NoFd].id = r.id
           /\ [r EXCEPT ![x] = NoFd].kbdPath = r.kbdPath
           /\ [r EXCEPT ![x] = NoFd].imuPath = r.imuPath
<1> DEFINE d == [r EXCEPT ![x] = NoFd]
           k == [r EXCEPT !.kbd = NoFd]
           i == [r EXCEPT !.imu = NoFd]
<1>1. /\ \A y \in Roles : k[y] = IF y = "kbd" THEN NoFd ELSE r[y]
      /\ k.id = r.id /\ k.kbdPath = r.kbdPath /\ k.imuPath = r.imuPath
  BY DEF Remote, Roles
<1>2. /\ \A y \in Roles : i[y] = IF y = "imu" THEN NoFd ELSE r[y]
      /\ i.id = r.id /\ i.kbdPath = r.kbdPath /\ i.imuPath = r.imuPath
  BY DEF Remote, Roles
<1>3. (x = "kbd" => d = k) /\ (x = "imu" => d = i)
  OBVIOUS
<1> HIDE DEF d, k, i
<1>4. /\ \A y \in Roles : d[y] = IF y = x THEN NoFd ELSE r[y]
      /\ d.id = r.id /\ d.kbdPath = r.kbdPath /\ d.imuPath = r.imuPath
  BY <1>1, <1>2, <1>3
<1> QED BY <1>4 DEF d

LEMMA AppendAt ==
    ASSUME NEW S, NEW s \in Seq(S), NEW e \in S
    PROVE  \E k : /\ DOMAIN Append(s, e) = DOMAIN s \cup {k} /\ k \notin DOMAIN s
                  /\ Append(s, e)[k] = e
                  /\ \A i \in DOMAIN s : Append(s, e)[i] = s[i]
<1>1. Len(s) + 1 \notin DOMAIN s /\ DOMAIN Append(s, e) = DOMAIN s \cup {Len(s) + 1}
  OBVIOUS
<1>2. Append(s, e)[Len(s) + 1] = e /\ \A i \in DOMAIN s : Append(s, e)[i] = s[i]
  OBVIOUS
<1> QED BY <1>1, <1>2, Zenon

\* Reading and losing input changes no owner.
LEMMA SameOwners ==
    ASSUME NEW rs \in Seq(Remote), NEW ns \in Seq(Remote), NEW tab, NEW tab2,
           SameRoles(tab, tab2), Owned(tab, rs, ns), GrabIsKeyboard(tab)
    PROVE  Owned(tab2, rs, ns) /\ GrabIsKeyboard(tab2)
<1>1. /\ \A i \in DOMAIN rs, x \in Roles : rs[i][x] \in Fds \cup {NoFd}
      /\ \A i \in DOMAIN ns, x \in Roles : ns[i][x] \in Fds \cup {NoFd}
  BY RoleFields
<1>2. Holds(tab2, rs) /\ Holds(tab2, ns)
  BY <1>1 DEF Holds, SameRoles, Owned
<1>3. Kept(tab2, rs, ns)
  BY DEF Kept, SameRoles, Owned
<1>4. GrabIsKeyboard(tab2)
  BY DEF GrabIsKeyboard, SameRoles
<1> QED BY <1>2, <1>3, <1>4 DEF Owned

\* Moving a record to the new array moves what it keeps.
LEMMA MoveOwners ==
    ASSUME NEW rs \in Seq(Remote), NEW ns \in Seq(Remote), NEW tab,
           Owned(tab, rs, ns), NEW j \in DOMAIN rs
    PROVE  Owned(tab, [rs EXCEPT ![j] = Emptied], Append(ns, rs[j]))
<1> DEFINE rs2 == [rs EXCEPT ![j] = Emptied]
           ns2 == Append(ns, rs[j])
<1>1. rs[j] \in Remote
  OBVIOUS
<1>2. PICK k : /\ DOMAIN ns2 = DOMAIN ns \cup {k} /\ k \notin DOMAIN ns
               /\ ns2[k] = rs[j] /\ \A i \in DOMAIN ns : ns2[i] = ns[i]
  BY <1>1, AppendAt
<1>3. /\ DOMAIN rs2 = DOMAIN rs
      /\ \A i \in DOMAIN rs : rs2[i] = IF i = j THEN Emptied ELSE rs[i]
  OBVIOUS
<1>4. \A x \in Roles : Emptied[x] = NoFd
  BY <1>1, RoleFields
<1> HIDE DEF rs2, ns2
<1>5. Holds(tab, rs2) /\ Holds(tab, ns2)
  BY <1>2, <1>3, <1>4 DEF Owned, Holds
<1>6. Once(rs2)
  BY <1>3, <1>4 DEF Owned, Once
<1>7. Once(ns2)
  BY <1>2 DEF Owned, Once, Separate
<1>8. Separate(rs2, ns2)
  <2> SUFFICES ASSUME NEW a \in DOMAIN rs2, NEW b \in DOMAIN ns2, NEW x \in Roles,
                      rs2[a][x] # NoFd
               PROVE  rs2[a][x] # ns2[b][x]
    BY DEF Separate
  <2>1. a # j /\ rs2[a] = rs[a] /\ a \in DOMAIN rs
    BY <1>3, <1>4
  <2>2. CASE b \in DOMAIN ns
    BY <1>2, <2>1, <2>2 DEF Owned, Separate
  <2>3. CASE b = k
    BY <1>2, <2>1, <2>3 DEF Owned, Once
  <2> QED BY <1>2, <2>2, <2>3
<1>9. Kept(tab, rs2, ns2)
  <2> SUFFICES ASSUME NEW f \in Fds, tab[f] # Closed
               PROVE  \/ \E i \in DOMAIN rs2 : rs2[i][tab[f].role] = f
                      \/ \E i \in DOMAIN ns2 : ns2[i][tab[f].role] = f
    BY DEF Kept
  <2>1. CASE \E i \in DOMAIN ns : ns[i][tab[f].role] = f
    BY <1>2, <2>1
  <2>2. ASSUME NEW i \in DOMAIN rs, rs[i][tab[f].role] = f
        PROVE  \/ \E a \in DOMAIN rs2 : rs2[a][tab[f].role] = f
               \/ \E a \in DOMAIN ns2 : ns2[a][tab[f].role] = f
    <3>1. CASE i = j
      BY <1>2, <2>2, <3>1
    <3>2. CASE i # j
      BY <1>3, <2>2, <3>2
    <3> QED BY <3>1, <3>2
  <2> QED BY <2>1, <2>2 DEF Owned, Kept
<1> QED BY <1>5, <1>6, <1>7, <1>8, <1>9 DEF Owned, rs2, ns2

\* Giving up one descriptor closes it and nothing else.
LEMMA DropOwner ==
    ASSUME NEW rs \in Seq(Remote), NEW ns \in Seq(Remote), NEW tab \in Table,
           Owned(tab, rs, ns), GrabIsKeyboard(tab),
           NEW j \in DOMAIN rs, NEW y \in {"kbd", "imu"}, rs[j][y] \in Fds
    PROVE  /\ Owned([tab EXCEPT ![rs[j][y]] = Closed],
                    [rs EXCEPT ![j] = [rs[j] EXCEPT ![y] = NoFd]], ns)
           /\ GrabIsKeyboard([tab EXCEPT ![rs[j][y]] = Closed])
<1> DEFINE g == rs[j][y]
           r == [rs[j] EXCEPT ![y] = NoFd]
           tab2 == [tab EXCEPT ![g] = Closed]
           rs2 == [rs EXCEPT ![j] = r]
<1>1. rs[j] \in Remote /\ y \in Roles /\ g # NoFd
  BY NumbersDiffer DEF Roles
<1>2. \A x \in Roles : r[x] = IF x = y THEN NoFd ELSE rs[j][x]
  BY <1>1, DropFields
<1> HIDE DEF r
<1>3. /\ DOMAIN rs2 = DOMAIN rs
      /\ \A i \in DOMAIN rs : rs2[i] = IF i = j THEN r ELSE rs[i]
  OBVIOUS
<1>4. \A f \in Fds : tab2[f] = IF f = g THEN Closed ELSE tab[f]
  BY DEF Table
<1>5. \A i \in DOMAIN rs, x \in Roles : rs[i][x] \in Fds \cup {NoFd}
  BY RoleFields
<1>6. \A i \in DOMAIN ns, x \in Roles : ns[i][x] \in Fds \cup {NoFd}
  BY RoleFields
<1>7. g \in Fds /\ tab[g] # Closed /\ tab[g].role = y
  BY <1>1 DEF Owned, Holds
<1>8. g = rs[j][y]
  OBVIOUS
<1> HIDE DEF g, rs2, tab2
<1>9. \A i \in DOMAIN rs2, x \in Roles :
        rs2[i][x] # NoFd => rs2[i][x] = rs[i][x] /\ rs2[i][x] # g /\ rs2[i][x] \in Fds
  <2> SUFFICES ASSUME NEW i \in DOMAIN rs2, NEW x \in Roles, rs2[i][x] # NoFd
               PROVE  rs2[i][x] = rs[i][x] /\ rs2[i][x] # g /\ rs2[i][x] \in Fds
    OBVIOUS
  <2>1. rs2[i][x] = rs[i][x] /\ i \in DOMAIN rs /\ ~(i = j /\ x = y)
    BY <1>2, <1>3
  <2>2. ASSUME rs[i][x] = g PROVE FALSE
    <3>1. tab[g].role = x
      BY <1>1, <2>1, <2>2 DEF Owned, Holds
    <3>2. x = y
      BY <1>7, <3>1
    <3>3. i = j
      BY <1>1, <1>8, <2>1, <2>2, <3>2 DEF Owned, Once
    <3> QED BY <2>1, <3>2, <3>3
  <2> QED BY <1>5, <2>1, <2>2
<1>10. \A i \in DOMAIN ns, x \in Roles : ns[i][x] # NoFd => ns[i][x] # g /\ ns[i][x] \in Fds
  <2> SUFFICES ASSUME NEW i \in DOMAIN ns, NEW x \in Roles, ns[i][x] # NoFd, ns[i][x] = g
               PROVE  FALSE
    BY <1>6
  <2>1. tab[g].role = x
    BY DEF Owned, Holds
  <2>2. rs[j][x] = ns[i][x]
    BY <1>7, <1>8, <2>1
  <2> QED BY <2>2, <1>1 DEF Owned, Separate
<1>11. Holds(tab2, rs2)
  BY <1>3, <1>4, <1>9 DEF Owned, Holds
<1>12. Holds(tab2, ns)
  BY <1>4, <1>10 DEF Owned, Holds
<1>13. Once(rs2)
  <2> SUFFICES ASSUME NEW a \in DOMAIN rs2, NEW b \in DOMAIN rs2, NEW x \in Roles,
                      rs2[a][x] # NoFd, rs2[a][x] = rs2[b][x]
               PROVE  a = b
    BY DEF Once
  <2>1. rs2[a][x] = rs[a][x] /\ rs2[b][x] = rs[b][x]
    BY <1>9
  <2>2. /\ rs[a][x] # NoFd /\ rs[a][x] = rs[b][x]
        /\ a \in DOMAIN rs /\ b \in DOMAIN rs
    BY <2>1, <1>3
  <2>3. Once(rs)
    BY DEF Owned
  <2> QED BY <2>2, <2>3, Zenon DEF Once
<1>14. Separate(rs2, ns)
  BY <1>3, <1>9 DEF Owned, Separate
<1>15. Kept(tab2, rs2, ns)
  <2> SUFFICES ASSUME NEW f \in Fds, tab2[f] # Closed
               PROVE  \/ \E i \in DOMAIN rs2 : rs2[i][tab2[f].role] = f
                      \/ \E i \in DOMAIN ns : ns[i][tab2[f].role] = f
    BY DEF Kept
  <2>1. f # g /\ tab2[f] = tab[f] /\ tab[f] # Closed
    BY <1>4
  <2>2. tab[f].role \in Roles
    BY <2>1 DEF Table, Descriptor
  <2>3. ASSUME NEW i \in DOMAIN rs, rs[i][tab[f].role] = f
        PROVE  rs2[i][tab[f].role] = f /\ i \in DOMAIN rs2
    BY <1>2, <1>3, <1>8, <2>1, <2>2, <2>3
  <2> QED BY <2>1, <2>3 DEF Owned, Kept
<1>16. GrabIsKeyboard(tab2)
  BY <1>4 DEF GrabIsKeyboard
<1>17. Owned(tab2, rs2, ns)
  BY <1>11, <1>12, <1>13, <1>14, <1>15 DEF Owned
<1> QED BY <1>16, <1>17 DEF tab2, rs2, g, r

LEMMA FdsOfRoles ==
    ASSUME NEW r \in Remote, NEW f \in Fds
    PROVE  f \in FdsOf(r) <=> \E x \in Roles : r[x] = f
<1>1. f \in FdsOf(r) <=> r.kbd = f \/ r.imu = f \/ r.vkbd = f \/ r.vmouse = f
  BY NumbersDiffer DEF FdsOf
<1> QED BY <1>1 DEF Roles

\* A remote just opened keeps what was opened for it, numbers nobody had.
LEMMA AddOwners ==
    ASSUME fdTab \in Table, Cardinality(Fds \ OpenFds) >= 4,
           NEW rs \in Seq(Remote), NEW ns \in Seq(Remote), Owned(fdTab, rs, ns),
           GrabIsKeyboard(fdTab),
           NEW t \in FoundRemote, NEW r \in Remote, NEW tab \in Table, Opened(t, r, tab)
    PROVE  Owned(tab, rs, Append(ns, r)) /\ GrabIsKeyboard(tab)
<1> DEFINE ns2 == Append(ns, r)
<1>1. /\ {Fd1, Fd2, Fd3, Fd4} \subseteq Fds /\ {Fd1, Fd2, Fd3, Fd4} \cap OpenFds = {}
      /\ Fd1 # Fd2 /\ Fd1 # Fd3 /\ Fd1 # Fd4 /\ Fd2 # Fd3 /\ Fd2 # Fd4 /\ Fd3 # Fd4
  BY FourFree
<1>2. /\ fdTab[Fd1] = Closed /\ fdTab[Fd2] = Closed /\ fdTab[Fd3] = Closed
      /\ fdTab[Fd4] = Closed
  BY <1>1 DEF OpenFds
<1>3. t.kbdPath \in Paths
  BY DEF FoundRemote
<1>4. /\ r.vkbd = Fd1 /\ r.vmouse = Fd2 /\ r.kbd = Fd3 /\ r.imu \in {Fd4, NoFd}
      /\ \A f \in Fds \ {Fd1, Fd2, Fd3, r.imu} : tab[f] = fdTab[f]
  BY DEF Opened
<1>5. \A d \in Descriptor : d # Closed
  BY DevicesAssumption
<1>6. /\ tab[Fd1] # Closed /\ tab[Fd1].role = "vkbd" /\ ~tab[Fd1].grab
      /\ tab[Fd2] # Closed /\ tab[Fd2].role = "vmouse" /\ ~tab[Fd2].grab
  <2>1. TRUE \in BOOLEAN
    OBVIOUS
  <2>2. tab[Fd1] \in Descriptor /\ tab[Fd2] \in Descriptor
    BY <1>3, <2>1, NewDescriptors DEF Opened
  <2>3. tab[Fd1] = Virtual("vkbd") /\ tab[Fd2] = Virtual("vmouse")
    BY DEF Opened
  <2>4. tab[Fd1].role = "vkbd" /\ ~tab[Fd1].grab /\ tab[Fd2].role = "vmouse" /\ ~tab[Fd2].grab
    BY <2>3 DEF Virtual
  <2> QED BY <1>5, <2>2, <2>4
<1>7. tab[Fd3] # Closed /\ tab[Fd3].role = "kbd"
  <2>1. PICK g \in BOOLEAN : tab[Fd3] = Evdev("kbd", t.kbdPath, g)
    BY DEF Opened
  <2>2. tab[Fd3] \in Descriptor
    BY <1>3, <2>1, NewDescriptors
  <2>3. tab[Fd3].role = "kbd"
    BY <2>1 DEF Evdev
  <2> QED BY <1>5, <2>2, <2>3
<1>8. r.imu = Fd4 => tab[Fd4] # Closed /\ tab[Fd4].role = "imu" /\ tab[Fd4].grab = FALSE
  <2> SUFFICES ASSUME r.imu = Fd4
               PROVE  tab[Fd4] # Closed /\ tab[Fd4].role = "imu" /\ tab[Fd4].grab = FALSE
    OBVIOUS
  <2>1. TRUE \in BOOLEAN /\ t.imuPath \in Paths /\ tab[Fd4] = Evdev("imu", t.imuPath, FALSE)
    BY DEF Opened
  <2>2. tab[Fd4] \in Descriptor
    BY <2>1, NewDescriptors
  <2>3. tab[Fd4].role = "imu" /\ tab[Fd4].grab = FALSE
    BY <2>1 DEF Evdev
  <2> QED BY <1>5, <2>2, <2>3
<1>9. \A x \in Roles : r[x] # NoFd =>
        /\ r[x] \in Fds /\ fdTab[r[x]] = Closed
        /\ tab[r[x]] # Closed /\ tab[r[x]].role = x
  <2>1. r.imu # NoFd => r.imu = Fd4
    BY <1>4
  <2> QED BY <1>1, <1>2, <1>4, <1>6, <1>7, <1>8, <2>1 DEF Roles
<1>10. \A f \in Fds : (\A x \in Roles : r[x] # f) => tab[f] = fdTab[f]
  <2> SUFFICES ASSUME NEW f \in Fds, \A x \in Roles : r[x] # f PROVE tab[f] = fdTab[f]
    OBVIOUS
  <2>1. r.vkbd # f /\ r.vmouse # f /\ r.kbd # f /\ r.imu # f
    BY DEF Roles
  <2> QED BY <2>1, <1>4
<1>11. PICK k : /\ DOMAIN ns2 = DOMAIN ns \cup {k} /\ k \notin DOMAIN ns
                /\ ns2[k] = r /\ \A i \in DOMAIN ns : ns2[i] = ns[i]
  BY AppendAt
<1> HIDE DEF ns2
<1>12. /\ \A i \in DOMAIN rs, x \in Roles : rs[i][x] \in Fds \cup {NoFd}
       /\ \A i \in DOMAIN ns, x \in Roles : ns[i][x] \in Fds \cup {NoFd}
  BY RoleFields
<1>13. \A i \in DOMAIN rs, x \in Roles : rs[i][x] # NoFd =>
          tab[rs[i][x]] = fdTab[rs[i][x]] /\ \A y \in Roles : r[y] # rs[i][x]
  <2> SUFFICES ASSUME NEW i \in DOMAIN rs, NEW x \in Roles, rs[i][x] # NoFd
               PROVE  tab[rs[i][x]] = fdTab[rs[i][x]] /\ \A y \in Roles : r[y] # rs[i][x]
    OBVIOUS
  <2>1. rs[i][x] \in Fds /\ fdTab[rs[i][x]] # Closed
    BY <1>12 DEF Owned, Holds
  <2>2. \A y \in Roles : r[y] # rs[i][x]
    BY <1>9, <2>1
  <2> QED BY <1>10, <2>1, <2>2
<1>14. \A i \in DOMAIN ns, x \in Roles : ns[i][x] # NoFd =>
          tab[ns[i][x]] = fdTab[ns[i][x]] /\ \A y \in Roles : r[y] # ns[i][x]
  <2> SUFFICES ASSUME NEW i \in DOMAIN ns, NEW x \in Roles, ns[i][x] # NoFd
               PROVE  tab[ns[i][x]] = fdTab[ns[i][x]] /\ \A y \in Roles : r[y] # ns[i][x]
    OBVIOUS
  <2>1. ns[i][x] \in Fds /\ fdTab[ns[i][x]] # Closed
    BY <1>12 DEF Owned, Holds
  <2>2. \A y \in Roles : r[y] # ns[i][x]
    BY <1>9, <2>1
  <2> QED BY <1>10, <2>1, <2>2
<1>15. Holds(tab, rs)
  BY <1>13 DEF Owned, Holds
<1>16. Holds(tab, ns2)
  <2> SUFFICES ASSUME NEW i \in DOMAIN ns2, NEW x \in Roles, ns2[i][x] # NoFd
               PROVE  tab[ns2[i][x]] # Closed /\ tab[ns2[i][x]].role = x
    BY DEF Holds
  <2>1. CASE i = k
    BY <1>9, <1>11, <2>1
  <2>2. CASE i # k
    BY <1>11, <1>14, <2>2 DEF Owned, Holds
  <2> QED BY <2>1, <2>2
<1>17. Once(ns2)
  <2> SUFFICES ASSUME NEW a \in DOMAIN ns2, NEW b \in DOMAIN ns2, NEW x \in Roles,
                      ns2[a][x] # NoFd, ns2[a][x] = ns2[b][x]
               PROVE  a = b
    BY DEF Once
  <2>1. CASE a \in DOMAIN ns /\ b \in DOMAIN ns
    BY <1>11, <2>1 DEF Owned, Once
  <2>2. CASE a = k /\ b \in DOMAIN ns
    BY <1>11, <1>14, <2>2
  <2>3. CASE b = k /\ a \in DOMAIN ns
    BY <1>11, <1>14, <2>3
  <2> QED BY <1>11, <2>1, <2>2, <2>3
<1>18. Separate(rs, ns2)
  BY <1>11, <1>13 DEF Owned, Separate
<1>19. Kept(tab, rs, ns2)
  <2> SUFFICES ASSUME NEW f \in Fds, tab[f] # Closed
               PROVE  \/ \E i \in DOMAIN rs : rs[i][tab[f].role] = f
                      \/ \E i \in DOMAIN ns2 : ns2[i][tab[f].role] = f
    BY DEF Kept
  <2>1. ASSUME NEW x \in Roles, r[x] = f PROVE ns2[k][tab[f].role] = f /\ k \in DOMAIN ns2
    BY <1>9, <1>11, <2>1, NumbersDiffer
  <2>2. CASE \A x \in Roles : r[x] # f
    <3>1. tab[f] = fdTab[f]
      BY <1>10, <2>2
    <3>2. \/ \E i \in DOMAIN rs : rs[i][tab[f].role] = f
          \/ \E i \in DOMAIN ns : ns[i][tab[f].role] = f
      BY <3>1 DEF Owned, Kept
    <3> QED BY <1>11, <3>2
  <2> QED BY <2>1, <2>2
<1>20. GrabIsKeyboard(tab)
  <2> SUFFICES ASSUME NEW f \in Fds, tab[f] # Closed, tab[f].grab
               PROVE  tab[f].role = "kbd"
    BY DEF GrabIsKeyboard
  <2>1. CASE f \in {Fd1, Fd2, Fd3, r.imu}
    BY <1>4, <1>6, <1>7, <1>8, <2>1, NumbersDiffer
  <2>2. CASE f \notin {Fd1, Fd2, Fd3, r.imu}
    <3>1. tab[f] = fdTab[f]
      BY <1>4, <2>2
    <3> QED BY <3>1 DEF GrabIsKeyboard
  <2> QED BY <2>1, <2>2
<1>21. Once(rs)
  BY DEF Owned
<1> QED BY <1>15, <1>16, <1>17, <1>18, <1>19, <1>20, <1>21 DEF Owned, ns2

\* Freeing what was not moved leaves the new records' descriptors open and nothing
\* else.
LEMMA FinishOwners ==
    ASSUME NEW rs \in Seq(Remote), NEW ns \in Seq(Remote), NEW tab \in Table,
           Owned(tab, rs, ns), GrabIsKeyboard(tab), Equipped(rs), NEW tab2,
           tab2 = [f \in Fds |-> IF \E j \in DOMAIN rs : rs[j].id # Closed /\ f \in FdsOf(rs[j])
                                 THEN Closed ELSE tab[f]]
    PROVE  Owned(tab2, ns, <<>>) /\ GrabIsKeyboard(tab2) /\ tab2 \in Table
<1>1. tab2 \in Table
  BY DEF Table
<1>2. \A f \in Fds : tab2[f] # Closed => tab2[f] = tab[f]
  OBVIOUS
<1>3. \A j \in DOMAIN rs, f \in Fds : f \in FdsOf(rs[j]) <=> \E x \in Roles : rs[j][x] = f
  BY FdsOfRoles
<1>4. \A i \in DOMAIN ns, x \in Roles : ns[i][x] \in Fds \cup {NoFd}
  BY RoleFields
<1>5. ASSUME NEW i \in DOMAIN ns, NEW x \in Roles, ns[i][x] # NoFd
      PROVE  tab2[ns[i][x]] = tab[ns[i][x]] /\ tab[ns[i][x]] # Closed /\ tab[ns[i][x]].role = x
  <2> DEFINE f == ns[i][x]
  <2>1. f \in Fds /\ tab[f] # Closed /\ tab[f].role = x
    BY <1>4, <1>5 DEF Owned, Holds
  <2>2. ASSUME NEW j \in DOMAIN rs, NEW y \in Roles, rs[j][y] = f PROVE FALSE
    <3>1. rs[j][y] # NoFd
      BY <1>5, <2>2
    <3>2. tab[rs[j][y]].role = y
      BY <3>1 DEF Owned, Holds
    <3>3. x = y
      BY <2>1, <2>2, <3>2
    <3> QED BY <2>2, <3>1, <3>3 DEF Owned, Separate
  <2> HIDE DEF f
  <2>3. ~\E j \in DOMAIN rs : rs[j].id # Closed /\ f \in FdsOf(rs[j])
    BY <1>3, <2>1, <2>2
  <2>4. tab2[f] = tab[f]
    BY <2>1, <2>3
  <2> QED BY <2>1, <2>4 DEF f
<1>6. Holds(tab2, ns)
  BY <1>5 DEF Holds
<1>7. Kept(tab2, ns, <<>>)
  <2> SUFFICES ASSUME NEW f \in Fds, tab2[f] # Closed
               PROVE  \E i \in DOMAIN ns : ns[i][tab2[f].role] = f
    BY DEF Kept
  <2>1. tab2[f] = tab[f] /\ tab[f] # Closed /\ tab[f].role \in Roles
    BY <1>2 DEF Table, Descriptor
  <2>2. ASSUME NEW i \in DOMAIN rs, rs[i][tab[f].role] = f PROVE FALSE
    <3>1. rs[i] # Emptied
      BY <2>1, <2>2, NumbersDiffer, RoleFields
    <3>2. rs[i].id # Closed
      BY <3>1 DEF Equipped
    <3>3. f \in FdsOf(rs[i])
      BY <1>3, <2>1, <2>2
    <3> QED BY <2>1, <3>2, <3>3
  <2> QED BY <2>1, <2>2 DEF Owned, Kept
<1>8. GrabIsKeyboard(tab2)
  BY <1>2 DEF GrabIsKeyboard
<1>9. Holds(tab2, <<>>) /\ Once(<<>>) /\ Separate(ns, <<>>) /\ Once(ns)
  BY DEF Holds, Once, Separate, Owned
<1> QED BY <1>1, <1>6, <1>7, <1>8, <1>9 DEF Owned

(***************************************************************************)
(* Whose nodes: the remotes still to be dealt with, and those that have    *)
(* been, are apart from each other.                                        *)
(***************************************************************************)

LEMMA HeadAndTail ==
    ASSUME NEW S, NEW s \in Seq(S), s # <<>>
    PROVE  /\ \E h \in DOMAIN s : s[h] = Head(s) /\ \A i \in DOMAIN Tail(s) : i + 1 # h
           /\ \A i \in DOMAIN Tail(s) : i + 1 \in DOMAIN s /\ Tail(s)[i] = s[i + 1] /\ i \in Nat
<1>1. 1 \in DOMAIN s /\ s[1] = Head(s)
  OBVIOUS
<1>2. \A i \in DOMAIN Tail(s) : i + 1 \in DOMAIN s /\ Tail(s)[i] = s[i + 1] /\ i \in Nat /\ i + 1 # 1
  OBVIOUS
<1> QED BY <1>1, <1>2, Zenon

LEMMA MovePaths ==
    ASSUME NEW ns \in Seq(Remote), NEW td \in Seq(FoundRemote), td # <<>>,
           EachApart(ns), EachApart(td), AllApart(ns, td), NEW r \in Remote,
           {r.kbdPath, r.imuPath} \subseteq {Head(td).kbdPath, Head(td).imuPath, NoPath}
    PROVE  /\ EachApart(Append(ns, r)) /\ EachApart(Tail(td))
           /\ AllApart(Append(ns, r), Tail(td))
           /\ EachApart(ns) /\ AllApart(ns, Tail(td))
<1> DEFINE ns2 == Append(ns, r)
           tl == Tail(td)
<1>1. PICK k : /\ DOMAIN ns2 = DOMAIN ns \cup {k} /\ k \notin DOMAIN ns
               /\ ns2[k] = r /\ \A i \in DOMAIN ns : ns2[i] = ns[i]
  BY AppendAt
<1>2. /\ \E h \in DOMAIN td : td[h] = Head(td) /\ \A i \in DOMAIN tl : i + 1 # h
      /\ \A i \in DOMAIN tl : i + 1 \in DOMAIN td /\ tl[i] = td[i + 1] /\ i \in Nat
  BY HeadAndTail
<1>3. PICK h \in DOMAIN td : td[h] = Head(td) /\ \A i \in DOMAIN tl : i + 1 # h
  BY <1>2
<1>4. \A a, b : Apart(a, b) => Apart(b, a)
  BY DEF Apart
<1>5. \A b : Apart(Head(td), b) => Apart(r, b)
  BY DEF Apart
<1> HIDE DEF ns2, tl
<1>6. \A i \in DOMAIN ns : Apart(r, ns[i]) /\ Apart(ns[i], r)
  BY <1>3, <1>4, <1>5 DEF AllApart
<1>7. \A i \in DOMAIN tl : Apart(r, tl[i])
  BY <1>2, <1>3, <1>5 DEF EachApart
<1>8. EachApart(ns2)
  BY <1>1, <1>6 DEF EachApart
<1>9. EachApart(tl)
  <2> SUFFICES ASSUME NEW i \in DOMAIN tl, NEW j \in DOMAIN tl, i # j
               PROVE  Apart(tl[i], tl[j])
    BY DEF EachApart
  <2>1. i + 1 # j + 1 /\ i + 1 \in DOMAIN td /\ j + 1 \in DOMAIN td
    BY <1>2
  <2> QED BY <1>2, <2>1 DEF EachApart
<1>10. AllApart(ns, tl)
  BY <1>2 DEF AllApart
<1>11. AllApart(ns2, tl)
  BY <1>1, <1>7, <1>10 DEF AllApart
<1> QED BY <1>8, <1>9, <1>10, <1>11 DEF ns2, tl

(***************************************************************************)
(* The inductive invariant.                                                *)
(***************************************************************************)

Idle == pc # "rescan" => newr = <<>> /\ todo = <<>>
NodesApart ==
    EachApart(remotes) /\ EachApart(newr) /\ EachApart(todo) /\ AllApart(newr, todo)

DevicesInv ==
    /\ TypeOK
    /\ Owned(fdTab, remotes, newr) /\ GrabIsKeyboard(fdTab)
    /\ Equipped(remotes) /\ Equipped(newr)
    /\ NodesApart /\ Idle

LEMMA NothingHeld ==
    ASSUME NEW tab, \A f \in Fds : tab[f] = Closed
    PROVE  /\ Owned(tab, <<>>, <<>>) /\ GrabIsKeyboard(tab) /\ Equipped(<<>>)
           /\ EachApart(<<>>) /\ AllApart(<<>>, <<>>)
<1>1. Kept(tab, <<>>, <<>>) /\ GrabIsKeyboard(tab)
  BY DEF Kept, GrabIsKeyboard
<1>2. Holds(tab, <<>>) /\ Once(<<>>) /\ Separate(<<>>, <<>>) /\ Equipped(<<>>)
  BY DEF Holds, Once, Separate, Equipped
<1>3. EachApart(<<>>) /\ AllApart(<<>>, <<>>)
  BY DEF EachApart, AllApart
<1> QED BY <1>1, <1>2, <1>3 DEF Owned

LEMMA DevicesInit == Init => DevicesInv
<1> SUFFICES ASSUME Init PROVE DevicesInv
  OBVIOUS
<1>1. TypeOK
  BY DEF Init, TypeOK
<1>2. \A f \in Fds : fdTab[f] = Closed
  BY DEF Init
<1>3. remotes = <<>> /\ newr = <<>> /\ todo = <<>>
  BY DEF Init
<1> QED BY <1>1, <1>2, <1>3, NothingHeld DEF DevicesInv, NodesApart, Idle

LEMMA StartKeeps == ASSUME DevicesInv, StartRescan PROVE DevicesInv'
<1>1. /\ pc = "loop" /\ newr' = <<>> /\ UNCHANGED <<node, fdTab, remotes, batch>>
      /\ \/ UNCHANGED <<todo, pc>>
         \/ /\ pc' = "rescan"
            /\ \E order \in SetToSeqs({p \in Paths : node[p] # NoNode}) :
                  todo' \in Found(order, [i \in DOMAIN order |-> DevOf(order[i])])
  BY Zenon DEF StartRescan, kernelVars
<1>2. newr = <<>> /\ todo = <<>> /\ TypeOK
  BY <1>1 DEF DevicesInv, Idle
<1>3. todo' \in Seq(FoundRemote) /\ EachApart(todo')
  <2>1. CASE UNCHANGED todo
    BY <2>1 DEF DevicesInv, TypeOK, NodesApart
  <2>2. node \in [Paths -> Node \cup {NoNode}]
    BY DEF DevicesInv, TypeOK
  <2> QED BY <1>1, <2>1, <2>2, FoundRight
<1>4. pc' \in {"loop", "rescan"}
  BY <1>1
<1>5. TypeOK'
  BY <1>1, <1>3, <1>4 DEF DevicesInv, TypeOK
<1>6. Idle' /\ newr' = newr
  BY <1>1, <1>2 DEF Idle
<1>7. AllApart(newr', todo') /\ EachApart(newr')
  BY <1>1 DEF AllApart, EachApart
<1> QED BY <1>1, <1>3, <1>5, <1>6, <1>7 DEF DevicesInv, NodesApart

LEMMA StealKeeps == ASSUME DevicesInv, StealOne PROVE DevicesInv'
<1>1. TypeOK /\ remotes \in Seq(Remote) /\ newr \in Seq(Remote) /\ todo \in Seq(FoundRemote)
  BY DEF DevicesInv, TypeOK
<1>2. PICK j \in DOMAIN remotes :
        /\ Unchanged(remotes[j], Head(todo)) /\ Head(todo) \in FoundRemote
        /\ newr' = Append(newr, remotes[j])
        /\ remotes' = [remotes EXCEPT ![j] = Emptied]
        /\ todo # <<>> /\ todo' = Tail(todo) /\ pc = "rescan"
        /\ UNCHANGED <<node, fdTab, pc, batch>>
  BY <1>1, StealOutcome
<1>3. remotes[j] \in Remote
  BY <1>1
<1>4. /\ newr' \in Seq(Remote) /\ remotes' \in Seq(Remote) /\ todo' \in Seq(FoundRemote)
  <2>1. newr' \in Seq(Remote) /\ todo' \in Seq(FoundRemote)
    BY <1>1, <1>2, <1>3
  <2>2. remotes' \in Seq(Remote)
    BY <1>1, <1>2, EmptiedIsRemote, SeqFacts
  <2> QED BY <2>1, <2>2
<1>5. TypeOK'
  BY <1>1, <1>2, <1>4 DEF TypeOK
<1>6. Owned(fdTab', remotes', newr') /\ GrabIsKeyboard(fdTab')
  BY <1>1, <1>2, MoveOwners DEF DevicesInv
<1>7. /\ DOMAIN remotes' = DOMAIN remotes
      /\ \A i \in DOMAIN remotes : remotes'[i] = IF i = j THEN Emptied ELSE remotes[i]
  BY <1>1, <1>2
<1>8. PICK k : /\ DOMAIN newr' = DOMAIN newr \cup {k} /\ k \notin DOMAIN newr
               /\ newr'[k] = remotes[j] /\ \A i \in DOMAIN newr : newr'[i] = newr[i]
  <2>1. \E k : /\ DOMAIN Append(newr, remotes[j]) = DOMAIN newr \cup {k}
               /\ k \notin DOMAIN newr
               /\ Append(newr, remotes[j])[k] = remotes[j]
               /\ \A i \in DOMAIN newr : Append(newr, remotes[j])[i] = newr[i]
    BY <1>1, <1>3, AppendAt
  <2> QED BY <1>2, <2>1, Zenon
<1>9. Equipped(remotes') /\ Equipped(newr')
  <2>1. Equipped(remotes) /\ Equipped(newr)
    BY DEF DevicesInv
  <2>2. Equipped(remotes')
    BY <1>7, <2>1 DEF Equipped
  <2>3. Equipped(newr')
    BY <1>8, <2>1 DEF Equipped
  <2> QED BY <2>2, <2>3
<1>10. EachApart(remotes')
  <2>1. \A r : Apart(Emptied, r) /\ Apart(r, Emptied)
    BY DEF Apart, Emptied
  <2>2. EachApart(remotes)
    BY DEF DevicesInv, NodesApart
  <2> QED BY <1>7, <2>1, <2>2 DEF EachApart
<1>11. EachApart(newr') /\ EachApart(todo') /\ AllApart(newr', todo')
  <2>1. {remotes[j].kbdPath, remotes[j].imuPath}
          \subseteq {Head(todo).kbdPath, Head(todo).imuPath, NoPath}
    BY <1>2 DEF Unchanged
  <2>2. EachApart(newr) /\ EachApart(todo) /\ AllApart(newr, todo)
    BY DEF DevicesInv, NodesApart
  <2> QED BY <1>1, <1>2, <1>3, <2>1, <2>2, MovePaths
<1>12. Idle'
  BY <1>2 DEF Idle
<1> QED BY <1>5, <1>6, <1>9, <1>10, <1>11, <1>12 DEF DevicesInv, NodesApart

LEMMA OpenKeeps == ASSUME DevicesInv, OpenOne PROVE DevicesInv'
<1>1. /\ TypeOK /\ remotes \in Seq(Remote) /\ newr \in Seq(Remote)
      /\ todo \in Seq(FoundRemote) /\ fdTab \in Table
  BY DEF DevicesInv, TypeOK, Table
<1>2. /\ Head(todo) \in FoundRemote /\ Tail(todo) \in Seq(FoundRemote)
      /\ todo # <<>> /\ todo' = Tail(todo) /\ pc = "rescan"
      /\ Cardinality(Fds \ OpenFds) >= 4
      /\ UNCHANGED <<node, pc, remotes, batch>>
      /\ \/ fdTab' = fdTab /\ newr' = newr
         \/ \E r \in Remote :
               newr' = Append(newr, r) /\ fdTab' \in Table /\ Opened(Head(todo), r, fdTab')
  BY <1>1, OpenOutcome, Zenon
<1>3. Idle'
  BY <1>2 DEF Idle
<1>4. EachApart(newr) /\ EachApart(todo) /\ AllApart(newr, todo) /\ EachApart(remotes)
  BY DEF DevicesInv, NodesApart
<1>5. CASE fdTab' = fdTab /\ newr' = newr
  <2>1. TypeOK'
    BY <1>1, <1>2, <1>5 DEF TypeOK
  <2>2. EachApart(todo') /\ AllApart(newr', todo')
    <3>1. Emptied \in Remote
      BY EmptiedIsRemote
    <3> QED BY <1>1, <1>2, <1>4, <1>5, <3>1, MovePaths DEF Emptied
  <2> QED BY <1>2, <1>3, <1>4, <1>5, <2>1, <2>2 DEF DevicesInv, NodesApart
<1>6. ASSUME NEW r \in Remote, newr' = Append(newr, r), fdTab' \in Table,
             Opened(Head(todo), r, fdTab')
      PROVE  DevicesInv'
  <2>1. newr' \in Seq(Remote)
    BY <1>1, <1>6
  <2>2. TypeOK'
    BY <1>1, <1>2, <1>6, <2>1 DEF TypeOK, Table
  <2>3. Owned(fdTab', remotes, newr') /\ GrabIsKeyboard(fdTab')
    BY <1>1, <1>2, <1>6, AddOwners DEF DevicesInv
  <2>4. Equipped(newr')
    <3>1. PICK k : /\ DOMAIN newr' = DOMAIN newr \cup {k} /\ k \notin DOMAIN newr
                   /\ newr'[k] = r /\ \A i \in DOMAIN newr : newr'[i] = newr[i]
      BY <1>1, <1>6, AppendAt
    <3>2. r.id # Closed
      BY <1>2, <1>6, DevicesAssumption DEF Opened, FoundRemote
    <3>3. r.vkbd # NoFd /\ r.vmouse # NoFd
      BY <1>2, <1>6, FourFree, NumbersDiffer DEF Opened
    <3> QED BY <3>1, <3>2, <3>3 DEF DevicesInv, Equipped
  <2>5. EachApart(newr') /\ EachApart(todo') /\ AllApart(newr', todo')
    <3>1. {r.kbdPath, r.imuPath} \subseteq {Head(todo).kbdPath, Head(todo).imuPath, NoPath}
      BY <1>6 DEF Opened
    <3> QED BY <1>1, <1>2, <1>4, <1>6, <3>1, MovePaths
  <2> QED BY <1>2, <1>3, <1>4, <2>2, <2>3, <2>4, <2>5 DEF DevicesInv, NodesApart
<1> QED BY <1>2, <1>5, <1>6

LEMMA FinishKeeps == ASSUME DevicesInv, FinishRescan PROVE DevicesInv'
<1>1. /\ TypeOK /\ remotes \in Seq(Remote) /\ newr \in Seq(Remote)
      /\ todo = <<>> /\ fdTab \in Table
  BY DEF DevicesInv, TypeOK, Table, FinishRescan
<1>2. /\ fdTab' = [f \in Fds |->
                      IF \E j \in DOMAIN remotes :
                            remotes[j].id # Closed /\ f \in FdsOf(remotes[j])
                      THEN Closed ELSE fdTab[f]]
      /\ remotes' = newr /\ newr' = <<>> /\ pc' = "loop" /\ UNCHANGED <<node, todo, batch>>
  BY DEF FinishRescan, Rebuilt
<1>3. Owned(fdTab, remotes, newr) /\ GrabIsKeyboard(fdTab) /\ Equipped(remotes) /\ Equipped(newr)
  BY DEF DevicesInv
<1>4. Owned(fdTab', newr, <<>>) /\ GrabIsKeyboard(fdTab') /\ fdTab' \in Table
  BY <1>1, <1>2, <1>3, FinishOwners
<1>5. TypeOK'
  BY <1>1, <1>2, <1>4 DEF TypeOK, Table
<1>6. Equipped(<<>>) /\ EachApart(<<>>) /\ AllApart(<<>>, <<>>)
  BY DEF Equipped, EachApart, AllApart
<1>7. EachApart(newr)
  BY DEF DevicesInv, NodesApart
<1>8. NodesApart'
  BY <1>1, <1>2, <1>6, <1>7, Zenon DEF NodesApart
<1>9. Idle'
  BY <1>1, <1>2 DEF Idle
<1>10. Owned(fdTab', remotes', newr') /\ Equipped(remotes') /\ Equipped(newr')
  BY <1>2, <1>3, <1>4, <1>6, Zenon
<1> QED BY <1>4, <1>5, <1>8, <1>9, <1>10, Zenon DEF DevicesInv

\* The positions poll reports are numbers, and there are finitely many.
LEMMA BatchType ==
    ASSUME TypeOK, NEW S \in SUBSET Entries, NEW b \in InOrder({Index(n) : n \in S})
    PROVE  b \in Seq(Nat)
<1> DEFINE T == {Index(n) : n \in S}
           c == Cardinality(Entries)
<1>1. IsFiniteSet(Entries) /\ c \in Nat
  <2>1. IsFiniteSet(1..(2 * Len(remotes)))
    BY FS_Interval DEF TypeOK
  <2>2. Entries \subseteq 1..(2 * Len(remotes))
    BY DEF Entries
  <2> QED BY <2>1, <2>2, FS_Subset, FS_CardinalityType
<1>2. ASSUME NEW n \in Entries PROVE Index(n) \in Nat /\ Index(n) <= c
  <2> DEFINE U == {m \in Entries : m <= n}
  <2>1. U \in SUBSET Entries
    OBVIOUS
  <2> HIDE DEF U
  <2>2. Cardinality(U) \in Nat /\ Cardinality(U) <= c
    BY <1>1, <2>1, FS_Subset, FS_CardinalityType
  <2> QED BY <2>2 DEF Index, U
<1>3. T \in SUBSET Nat /\ \A t \in T : t <= c
  BY <1>2
<1> HIDE DEF T, c
<1>4. IsFiniteSet(T) /\ Cardinality(T) \in Nat
  BY <1>1, <1>3, FS_BoundedSetOfNaturals, FS_CardinalityType
<1>5. b \in [1..Cardinality(T) -> T]
  BY DEF InOrder, SetToSeqs, T
<1> DEFINE M == Cardinality(T)
<1>6. M \in Nat /\ b = [i \in 1..M |-> b[i]] /\ \A i \in 1..M : b[i] \in Nat
  BY <1>3, <1>4, <1>5
<1> HIDE DEF M
<1> QED BY <1>6

LEMMA PollKeeps == ASSUME DevicesInv, Poll PROVE DevicesInv'
<1>1. TypeOK
  BY DEF DevicesInv
<1> DEFINE ready == {n \in Entries : Readable(FdAt(n))}
<1>2. /\ pc = "loop" /\ pc' = "dispatch" /\ UNCHANGED <<node, fdTab, remotes, newr, todo>>
      /\ batch' \in InOrder({Index(n) : n \in ready})
  BY DEF Poll, kernelVars
<1>3. batch' \in Seq(Nat)
  <2>1. ready \in SUBSET Entries
    OBVIOUS
  <2> HIDE DEF ready
  <2> QED BY <1>1, <1>2, <2>1, BatchType
<1>4. TypeOK'
  BY <1>1, <1>2, <1>3 DEF TypeOK
<1>5. Idle'
  BY <1>2 DEF DevicesInv, Idle
<1> QED BY <1>2, <1>4, <1>5, Zenon DEF DevicesInv, NodesApart

\* A step that changes no record and opens or closes nothing.
LEMMA QuietKeeps ==
    ASSUME DevicesInv, SameRoles(fdTab, fdTab'), TypeOK',
           UNCHANGED <<remotes, newr, todo>>, pc' = "rescan" => pc = "rescan",
           pc' # "rescan" => pc # "rescan"
    PROVE  DevicesInv'
<1>1. /\ remotes \in Seq(Remote) /\ newr \in Seq(Remote)
      /\ Owned(fdTab, remotes, newr) /\ GrabIsKeyboard(fdTab)
  BY DEF DevicesInv, TypeOK
<1>2. Owned(fdTab', remotes, newr) /\ GrabIsKeyboard(fdTab')
  BY <1>1, SameOwners
<1>3. Idle'
  BY DEF DevicesInv, Idle
<1> QED BY <1>2, <1>3, Zenon DEF DevicesInv, NodesApart

LEMMA HandleKeeps == ASSUME DevicesInv, Handle PROVE DevicesInv'
<1>1. /\ TypeOK /\ remotes \in Seq(Remote) /\ newr \in Seq(Remote) /\ fdTab \in Table
      /\ batch \in Seq(Nat)
      /\ Owned(fdTab, remotes, newr) /\ GrabIsKeyboard(fdTab) /\ Holds(fdTab, remotes)
      /\ Equipped(remotes) /\ Equipped(newr)
  BY DEF DevicesInv, TypeOK, Table, Owned
<1>2. /\ batch # <<>> /\ batch' = Tail(batch) /\ UNCHANGED <<node, pc, newr, todo>>
      /\ \/ remotes' = remotes /\ fdTab' \in Table /\ SameRoles(fdTab, fdTab')
         \/ \E i \in DOMAIN remotes, x \in {"kbd", "imu"} :
               /\ remotes[i][x] \in Fds
               /\ fdTab' = [fdTab EXCEPT ![remotes[i][x]] = Closed]
               /\ remotes' = [remotes EXCEPT ![i] = [remotes[i] EXCEPT ![x] = NoFd]]
  BY <1>1, HandleOutcome, Zenon
<1>3. batch' \in Seq(Nat)
  BY <1>1, <1>2
<1>4. CASE remotes' = remotes /\ fdTab' \in Table /\ SameRoles(fdTab, fdTab')
  <2>1. TypeOK'
    BY <1>1, <1>2, <1>3, <1>4 DEF TypeOK, Table
  <2> QED BY <1>2, <1>4, <2>1, QuietKeeps
<1>5. ASSUME NEW i \in DOMAIN remotes, NEW x \in {"kbd", "imu"}, remotes[i][x] \in Fds,
             fdTab' = [fdTab EXCEPT ![remotes[i][x]] = Closed],
             remotes' = [remotes EXCEPT ![i] = [remotes[i] EXCEPT ![x] = NoFd]]
      PROVE  DevicesInv'
  <2> DEFINE r == remotes[i]
             d == [r EXCEPT ![x] = NoFd]
  <2>1. r \in Remote /\ x \in Roles
    BY <1>1 DEF Roles
  <2>2. d \in Remote
    BY <2>1, DropType
  <2>3. /\ \A y \in Roles : d[y] = IF y = x THEN NoFd ELSE r[y]
        /\ d.id = r.id /\ d.kbdPath = r.kbdPath /\ d.imuPath = r.imuPath
    BY <2>1, DropFields
  <2>4. Owned(fdTab', remotes', newr) /\ GrabIsKeyboard(fdTab')
    BY <1>1, <1>5, DropOwner
  <2>5. r # Emptied
    BY <1>5, <2>1, RoleFields, NumbersDiffer
  <2>6. d.vkbd = r.vkbd /\ d.vmouse = r.vmouse
    BY <2>3 DEF Roles
  <2>7. remotes' = [remotes EXCEPT ![i] = d]
    BY <1>5
  <2> HIDE DEF d, r
  <2>8. remotes' \in Seq(Remote)
    BY <1>1, <2>2, <2>7, SeqFacts
  <2>9. fdTab' \in Table
    BY <1>1, <1>5 DEF Table
  <2>10. TypeOK'
    BY <1>1, <1>2, <1>3, <2>8, <2>9 DEF TypeOK, Table
  <2>11. /\ DOMAIN remotes' = DOMAIN remotes
         /\ \A j \in DOMAIN remotes : remotes'[j] = IF j = i THEN d ELSE remotes[j]
    BY <1>1, <2>7
  <2>12. Equipped(remotes')
    BY <1>1, <2>3, <2>5, <2>6, <2>11 DEF Equipped, r
  <2>13. EachApart(remotes')
    <3>1. EachApart(remotes)
      BY DEF DevicesInv, NodesApart
    <3>2. \A j \in DOMAIN remotes : /\ remotes'[j].kbdPath = remotes[j].kbdPath
                                    /\ remotes'[j].imuPath = remotes[j].imuPath
      BY <2>3, <2>11 DEF r
    <3> QED BY <2>11, <3>1, <3>2 DEF EachApart, Apart
  <2>14. EachApart(newr) /\ EachApart(todo) /\ AllApart(newr, todo) /\ Idle
    BY DEF DevicesInv, NodesApart
  <2>15. NodesApart' /\ Idle'
    BY <1>2, <2>13, <2>14 DEF NodesApart, Idle
  <2> QED BY <1>1, <1>2, <2>4, <2>10, <2>12, <2>15, Zenon DEF DevicesInv
<1> QED BY <1>2, <1>4, <1>5

LEMMA ExitKeeps == ASSUME DevicesInv, Exit PROVE DevicesInv'
<1>1. /\ pc' = "down" /\ fdTab' = [f \in Fds |-> Closed]
      /\ remotes' = <<>> /\ newr' = <<>> /\ todo' = <<>> /\ batch' = <<>> /\ node' = node
  BY DEF Exit
<1>2. TypeOK'
  BY <1>1 DEF DevicesInv, TypeOK
<1>3. \A f \in Fds : fdTab'[f] = Closed
  BY <1>1
<1>4. /\ Owned(fdTab', <<>>, <<>>) /\ GrabIsKeyboard(fdTab') /\ Equipped(<<>>)
      /\ EachApart(<<>>) /\ AllApart(<<>>, <<>>)
  BY <1>3, NothingHeld
<1>5. Idle'
  BY <1>1 DEF Idle
<1>6. NodesApart'
  BY <1>1, <1>4, Zenon DEF NodesApart
<1>7. Owned(fdTab', remotes', newr') /\ Equipped(remotes') /\ Equipped(newr')
  BY <1>1, <1>4, Zenon
<1> QED BY <1>2, <1>4, <1>5, <1>6, <1>7, Zenon DEF DevicesInv

LEMMA DevicesStep == ASSUME DevicesInv, [Next]_vars PROVE DevicesInv'
<1>1. TypeOK
  BY DEF DevicesInv
<1>2. SameRoles(fdTab, fdTab)
  BY DEF SameRoles
<1>3. CASE Environment
  <2>1. /\ node' \in [Paths -> Node \cup {NoNode}] /\ fdTab' \in Table
        /\ SameRoles(fdTab, fdTab')
        /\ UNCHANGED <<pc, remotes, newr, todo, batch>>
    BY <1>1, <1>3, EnvironmentOutcome
  <2>2. TypeOK'
    BY <1>1, <2>1 DEF TypeOK, Table
  <2> QED BY <2>1, <2>2, QuietKeeps
<1>4. CASE DispatchDone
  <2>1. pc = "dispatch" /\ pc' = "loop" /\ UNCHANGED <<node, fdTab, remotes, newr, todo, batch>>
    BY <1>4 DEF DispatchDone, kernelVars
  <2>2. TypeOK'
    BY <1>1, <2>1 DEF TypeOK
  <2> QED BY <1>2, <2>1, <2>2, QuietKeeps
<1>5. CASE Start
  <2>1. pc = "down" /\ pc' = "loop" /\ UNCHANGED <<node, fdTab, remotes, newr, todo, batch>>
    BY <1>5 DEF Start, kernelVars
  <2>2. TypeOK'
    BY <1>1, <2>1 DEF TypeOK
  <2> QED BY <1>2, <2>1, <2>2, QuietKeeps
<1>6. CASE UNCHANGED vars
  <2>1. UNCHANGED <<node, fdTab, pc, remotes, newr, todo, batch>>
    BY <1>6 DEF vars, kernelVars, daemonVars
  <2>2. TypeOK'
    BY <1>1, <2>1 DEF TypeOK
  <2> QED BY <1>2, <2>1, <2>2, QuietKeeps
<1>7. CASE StartRescan
  BY <1>7, StartKeeps
<1>8. CASE StealOne
  BY <1>8, StealKeeps
<1>9. CASE OpenOne
  BY <1>9, OpenKeeps
<1>10. CASE FinishRescan
  BY <1>10, FinishKeeps
<1>11. CASE Poll
  BY <1>11, PollKeeps
<1>12. CASE Handle
  BY <1>12, HandleKeeps
<1>13. CASE Exit
  BY <1>13, ExitKeeps
<1> QED BY <1>3, <1>4, <1>5, <1>6, <1>7, <1>8, <1>9, <1>10, <1>11, <1>12, <1>13
        DEF Next, Daemon, Rescan

LEMMA DevicesAlways == Spec => []DevicesInv
  BY DevicesInit, DevicesStep, PTL DEF Spec

(***************************************************************************)
(* What the invariant says of every reachable state.                       *)
(***************************************************************************)

\* A holder names a record of one of the two arrays and one of its four fields.
LEMMA HolderParts ==
    ASSUME NEW h \in Holders
    PROVE  /\ h[3] \in Roles /\ Held(h) # NoFd /\ Held(h) = RecordOf(h)[h[3]]
           /\ \/ h[1] = "old" /\ h[2] \in DOMAIN remotes /\ RecordOf(h) = remotes[h[2]]
              \/ h[1] = "new" /\ h[2] \in DOMAIN newr /\ RecordOf(h) = newr[h[2]]
           /\ h = <<h[1], h[2], h[3]>>
  BY DEF Holders, Held, RecordOf

LEMMA OldHolder ==
    ASSUME NEW i \in DOMAIN remotes, NEW x \in Roles, remotes[i][x] # NoFd
    PROVE  /\ <<"old", i, x>> \in Holders /\ Held(<<"old", i, x>>) = remotes[i][x]
           /\ RecordOf(<<"old", i, x>>) = remotes[i]
  BY DEF Holders, Held, RecordOf

LEMMA NewHolder ==
    ASSUME NEW i \in DOMAIN newr, NEW x \in Roles, newr[i][x] # NoFd
    PROVE  /\ <<"new", i, x>> \in Holders /\ Held(<<"new", i, x>>) = newr[i][x]
           /\ RecordOf(<<"new", i, x>>) = newr[i]
  BY DEF Holders, Held, RecordOf

LEMMA OwnedOnce == ASSUME DevicesInv PROVE DescriptorsOwned
<1>1. /\ remotes \in Seq(Remote) /\ newr \in Seq(Remote) /\ fdTab \in Table
      /\ Holds(fdTab, remotes) /\ Holds(fdTab, newr) /\ Once(remotes) /\ Once(newr)
      /\ Separate(remotes, newr) /\ Kept(fdTab, remotes, newr)
  BY DEF DevicesInv, TypeOK, Table, Owned
<1>2. /\ \A i \in DOMAIN remotes, x \in Roles : remotes[i][x] \in Fds \cup {NoFd}
      /\ \A i \in DOMAIN newr, x \in Roles : newr[i][x] \in Fds \cup {NoFd}
  BY <1>1, RoleFields
<1>3. \A f \in Fds : fdTab[f] # Closed => fdTab[f].role \in Roles
  BY <1>1 DEF Table, Descriptor
<1>4. ASSUME NEW h \in Holders
      PROVE  Held(h) \in Fds /\ fdTab[Held(h)] # Closed /\ fdTab[Held(h)].role = h[3]
  <2>1. /\ h[3] \in Roles /\ Held(h) # NoFd /\ Held(h) = RecordOf(h)[h[3]]
        /\ \/ h[1] = "old" /\ h[2] \in DOMAIN remotes /\ RecordOf(h) = remotes[h[2]]
           \/ h[1] = "new" /\ h[2] \in DOMAIN newr /\ RecordOf(h) = newr[h[2]]
    BY HolderParts
  <2> QED BY <1>1, <1>2, <2>1 DEF Holds
<1>5. ASSUME NEW g \in Holders, NEW h \in Holders, Held(g) = Held(h)
      PROVE  g = h
  <2>1. /\ g[3] \in Roles /\ Held(g) # NoFd /\ Held(g) = RecordOf(g)[g[3]]
        /\ \/ g[1] = "old" /\ g[2] \in DOMAIN remotes /\ RecordOf(g) = remotes[g[2]]
           \/ g[1] = "new" /\ g[2] \in DOMAIN newr /\ RecordOf(g) = newr[g[2]]
        /\ g = <<g[1], g[2], g[3]>>
    BY HolderParts
  <2>2. /\ h[3] \in Roles /\ Held(h) # NoFd /\ Held(h) = RecordOf(h)[h[3]]
        /\ \/ h[1] = "old" /\ h[2] \in DOMAIN remotes /\ RecordOf(h) = remotes[h[2]]
           \/ h[1] = "new" /\ h[2] \in DOMAIN newr /\ RecordOf(h) = newr[h[2]]
        /\ h = <<h[1], h[2], h[3]>>
    BY HolderParts
  <2>3. g[3] = h[3]
    BY <1>4, <1>5
  <2>4. g[1] = h[1] /\ g[2] = h[2]
    <3> DEFINE x == g[3]
               a == g[2]
               b == h[2]
    <3>1. x \in Roles /\ RecordOf(g)[x] # NoFd /\ RecordOf(g)[x] = RecordOf(h)[x]
      BY <1>5, <2>1, <2>2, <2>3
    <3>2. \/ g[1] = "old" /\ a \in DOMAIN remotes /\ RecordOf(g) = remotes[a]
          \/ g[1] = "new" /\ a \in DOMAIN newr /\ RecordOf(g) = newr[a]
      BY <2>1
    <3>3. \/ h[1] = "old" /\ b \in DOMAIN remotes /\ RecordOf(h) = remotes[b]
          \/ h[1] = "new" /\ b \in DOMAIN newr /\ RecordOf(h) = newr[b]
      BY <2>2
    <3> HIDE DEF x, a, b
    <3>4. g[1] = "old" /\ h[1] = "old" => a = b
      BY <1>1, <3>1, <3>2, <3>3 DEF Once
    <3>5. g[1] = "new" /\ h[1] = "new" => a = b
      BY <1>1, <3>1, <3>2, <3>3 DEF Once
    <3>6. ~(g[1] = "old" /\ h[1] = "new") /\ ~(g[1] = "new" /\ h[1] = "old")
      BY <1>1, <3>1, <3>2, <3>3 DEF Separate
    <3> QED BY <3>2, <3>3, <3>4, <3>5, <3>6 DEF a, b
  <2>5. <<g[1], g[2], g[3]>> = <<h[1], h[2], h[3]>>
    BY <2>3, <2>4, Zenon
  <2>6. g = <<g[1], g[2], g[3]>> /\ h = <<h[1], h[2], h[3]>>
    BY <2>1, <2>2, Zenon
  <2> QED BY <2>5, <2>6, Zenon
<1>6. ASSUME NEW f \in OpenFds PROVE \E h \in Holders : Held(h) = f
  <2>1. f \in Fds /\ fdTab[f] # Closed /\ f # NoFd
    BY NumbersDiffer DEF OpenFds
  <2>2. fdTab[f].role \in Roles
    BY <1>3, <2>1
  <2>3. CASE \E i \in DOMAIN remotes : remotes[i][fdTab[f].role] = f
    BY <2>1, <2>2, <2>3, OldHolder
  <2>4. CASE \E i \in DOMAIN newr : newr[i][fdTab[f].role] = f
    BY <2>1, <2>2, <2>4, NewHolder
  <2> QED BY <1>1, <2>1, <2>3, <2>4 DEF Kept
<1> QED BY <1>4, <1>5, <1>6 DEF DescriptorsOwned, OpenFds

LEMMA GrabbedHasPair == ASSUME DevicesInv PROVE GrabHasTarget
<1>1. /\ remotes \in Seq(Remote) /\ newr \in Seq(Remote) /\ fdTab \in Table
      /\ Kept(fdTab, remotes, newr) /\ GrabIsKeyboard(fdTab)
      /\ Equipped(remotes) /\ Equipped(newr)
  BY DEF DevicesInv, TypeOK, Table, Owned
<1> SUFFICES ASSUME NEW f \in OpenFds, fdTab[f].grab
             PROVE  \E h \in Holders : /\ RecordOf(h).kbd = f
                                       /\ RecordOf(h).vkbd # NoFd /\ RecordOf(h).vmouse # NoFd
  BY DEF GrabHasTarget
<1>2. f \in Fds /\ fdTab[f] # Closed /\ f # NoFd
  BY NumbersDiffer DEF OpenFds
<1>3. fdTab[f].role = "kbd" /\ "kbd" \in Roles /\ Emptied.kbd = NoFd
  BY <1>1, <1>2 DEF GrabIsKeyboard, Roles, Emptied
<1>4. CASE \E i \in DOMAIN remotes : remotes[i].kbd = f
  <2>1. PICK i \in DOMAIN remotes : remotes[i].kbd = f
    BY <1>4
  <2>2. remotes[i].vkbd # NoFd /\ remotes[i].vmouse # NoFd
    BY <1>1, <1>2, <1>3, <2>1 DEF Equipped
  <2>3. /\ <<"old", i, "kbd">> \in Holders
        /\ RecordOf(<<"old", i, "kbd">>) = remotes[i]
    BY <1>2, <1>3, <2>1, OldHolder
  <2> QED BY <2>1, <2>2, <2>3, Zenon
<1>5. CASE \E i \in DOMAIN newr : newr[i].kbd = f
  <2>1. PICK i \in DOMAIN newr : newr[i].kbd = f
    BY <1>5
  <2>2. newr[i].vkbd # NoFd /\ newr[i].vmouse # NoFd
    BY <1>1, <1>2, <1>3, <2>1 DEF Equipped
  <2>3. /\ <<"new", i, "kbd">> \in Holders
        /\ RecordOf(<<"new", i, "kbd">>) = newr[i]
    BY <1>2, <1>3, <2>1, NewHolder
  <2> QED BY <2>1, <2>2, <2>3, Zenon
<1> QED BY <1>1, <1>2, <1>3, <1>4, <1>5 DEF Kept

\* Types, with the descriptor table and the records that name its entries, hold for
\* any number of remotes, nodes and descriptors.
THEOREM DevicesTypeOK == Spec => []TypeOK
<1>1. DevicesInv => TypeOK
  BY DEF DevicesInv
<1> QED BY <1>1, DevicesAlways, PTL

\* Each open descriptor is kept in exactly one place of its own role and no record
\* keeps a closed number, whatever rescans, failed opens, steals, reconnects and
\* errors on a dead node come between.
THEOREM DescriptorsOwnedAlways == Spec => []DescriptorsOwned
<1>1. DevicesInv => DescriptorsOwned
  BY OwnedOnce
<1> QED BY <1>1, DevicesAlways, PTL

\* A grabbed keyboard always belongs to a record that has both virtual devices.
THEOREM GrabHasTargetAlways == Spec => []GrabHasTarget
<1>1. DevicesInv => GrabHasTarget
  BY GrabbedHasPair
<1> QED BY <1>1, DevicesAlways, PTL

\* Two remotes the daemon lists between rescans never share an event node.
THEOREM NodesNotSharedAlways == Spec => []NodesNotShared
<1>1. DevicesInv => NodesNotShared
  BY DEF DevicesInv, NodesApart, EachApart, Apart, NodesNotShared
<1> QED BY <1>1, DevicesAlways, PTL
=============================================================================
