--------------------------- MODULE PairingProofs ---------------------------
(***************************************************************************)
(* What pairing_match returns for every list of devices, however long.     *)
(* PairLoop is a recursive function; what it computes is proved without an *)
(* induction scheme: a property that fails somewhere fails first at a      *)
(* least number of devices, and that one has a predecessor.                *)
(***************************************************************************)
EXTENDS Pairing, FiniteSetTheorems, WellFoundedInduction, TLAPS

(***************************************************************************)
(* The least-number principle.                                             *)
(***************************************************************************)

\* Every set of numbers that is not empty has a least one.
LEMMA LeastNumber ==
    ASSUME NEW T \in SUBSET Nat, T # {}
    PROVE  \E n \in T : \A m \in T : n <= m
<1> DEFINE Below(n) == 0..n
           U == {Below(n) : n \in T}
           R == StrictSubsetOrdering(Nat)
           F == FiniteSubsetsOf(Nat)
<1>1. IsWellFoundedOn(R, F)
  BY FS_StrictSubsetOrderingWellFounded
<1>2. U \subseteq F /\ U # {}
  <2>1. \A n \in Nat : Below(n) \subseteq Nat /\ IsFiniteSet(Below(n))
    BY FS_Interval
  <2>2. \A n \in Nat : Below(n) \in F
    BY <2>1 DEF FiniteSubsetsOf
  <2> HIDE DEF Below, F
  <2> QED BY <2>2
<1> HIDE DEF F, R, U
<1>3. PICK x \in U : \A y \in U : <<y, x>> \notin R
  BY <1>1, <1>2, WFMin
<1>4. PICK n \in T : x = Below(n)
  BY DEF U
<1>5. ASSUME NEW m \in T, m < n PROVE FALSE
  <2>1. Below(m) \in U
    BY DEF U
  <2>2. Below(m) \in SUBSET Nat /\ Below(n) \in SUBSET Nat /\ Below(m) \subseteq Below(n)
    BY <1>5
  <2>3. n \in Below(n) /\ n \notin Below(m)
    BY <1>5
  <2> HIDE DEF Below
  <2>4. <<Below(m), Below(n)>> \in R
    BY <2>2, <2>3 DEF R, StrictSubsetOrdering
  <2> QED BY <1>3, <1>4, <2>1, <2>4
<1> QED BY <1>5

\* The same, of the numbers up to N at which something goes wrong: if it is not
\* wrong at 0, some step makes it so.
LEMMA FirstFailure ==
    ASSUME NEW N \in Nat, NEW Bad \in SUBSET (0..N), Bad # {}, 0 \notin Bad
    PROVE  \E n \in 1..N : n \in Bad /\ n - 1 \in (0..N) \ Bad
<1>1. PICK n \in Bad : \A m \in Bad : n <= m
  <2>1. Bad \in SUBSET Nat
    OBVIOUS
  <2> QED BY <2>1, LeastNumber
<1>2. n \in 1..N /\ n - 1 \in 0..N /\ n - 1 \notin Bad
  <2>1. n \in 0..N /\ n # 0
    OBVIOUS
  <2>2. n \in 1..N /\ n - 1 \in 0..N /\ ~(n <= n - 1)
    BY <2>1
  <2> QED BY <2>2, <1>1
<1> QED BY <1>2

(***************************************************************************)
(* The loop's equations.                                                   *)
(***************************************************************************)

Step(devs, f, n) == IF n = 0 THEN NonePaired(devs) ELSE PairDev(devs, f[n - 1], n)

\* The loop has a state after every number of devices.
LEMMA LoopExists ==
    ASSUME NEW devs, NEW N \in Nat
    PROVE  \E f : f = [n \in 0..N |-> Step(devs, f, n)]
<1> DEFINE Ok(k) == \E f : f = [n \in 0..k |-> Step(devs, f, n)]
           Bad == {k \in 0..N : ~Ok(k)}
<1>1. Ok(0)
  <2> DEFINE f == [n \in 0..0 |-> NonePaired(devs)]
  <2>1. f = [n \in 0..0 |-> Step(devs, f, n)]
    BY DEF Step
  <2> QED BY <2>1
<1>2. ASSUME NEW k \in 1..N, Ok(k - 1) PROVE Ok(k)
  <2>1. PICK f : f = [n \in 0..(k - 1) |-> Step(devs, f, n)]
    BY <1>2
  <2> DEFINE g == [n \in 0..k |-> IF n = k THEN PairDev(devs, f[k - 1], k) ELSE f[n]]
  <2>2. ASSUME NEW n \in 0..k PROVE g[n] = Step(devs, g, n)
    <3>1. CASE n = 0
      <4>1. 0 \in 0..(k - 1) /\ 0 # k
        OBVIOUS
      <4>2. f[0] = Step(devs, f, 0)
        BY <2>1, <4>1
      <4> QED BY <3>1, <4>1, <4>2 DEF Step
    <3>2. CASE n = k
      <4>1. k # 0 /\ k - 1 \in 0..k /\ k - 1 # k
        OBVIOUS
      <4>2. g[k - 1] = f[k - 1] /\ g[k] = PairDev(devs, f[k - 1], k)
        BY <4>1
      <4> HIDE DEF g
      <4> QED BY <3>2, <4>1, <4>2 DEF Step
    <3>3. CASE n # 0 /\ n # k
      <4>1. n \in 0..(k - 1) /\ n - 1 \in 0..k /\ n - 1 # k /\ n \in 0..k
        BY <3>3
      <4>2. f[n] = Step(devs, f, n)
        BY <2>1, <4>1
      <4>3. g[n] = f[n] /\ g[n - 1] = f[n - 1]
        BY <4>1, <3>3
      <4> HIDE DEF g
      <4> QED BY <3>3, <4>2, <4>3 DEF Step
    <3> QED BY <3>1, <3>2, <3>3
  <2>3. g = [n \in 0..k |-> g[n]]
    OBVIOUS
  <2> HIDE DEF g
  <2>4. g = [n \in 0..k |-> Step(devs, g, n)]
    BY <2>2, <2>3
  <2> QED BY <2>4
<1> HIDE DEF Ok
<1>3. Bad = {}
  <2> SUFFICES ASSUME Bad # {} PROVE FALSE
    OBVIOUS
  <2>1. Bad \in SUBSET (0..N) /\ 0 \notin Bad
    BY <1>1
  <2>2. PICK n \in 1..N : n \in Bad /\ n - 1 \in (0..N) \ Bad
    <3> HIDE DEF Bad
    <3> QED BY <2>1, FirstFailure
  <2> QED BY <2>2, <1>2
<1>4. Ok(N)
  BY <1>3
<1> QED BY <1>4 DEF Ok

\* The state after no device, and after one more.
LEMMA LoopStep ==
    ASSUME NEW devs, NEW N \in Nat, N = Len(devs)
    PROVE  /\ Pairs(devs) = PairLoop(devs)[N]
           /\ PairLoop(devs)[0] = NonePaired(devs)
           /\ \A n \in 1..N : PairLoop(devs)[n] = PairDev(devs, PairLoop(devs)[n - 1], n)
<1> DEFINE L == PairLoop(devs)
<1>1. L = CHOOSE f : f = [n \in 0..N |-> Step(devs, f, n)]
  BY Zenon DEF PairLoop, Step
<1>2. \E f : f = [n \in 0..N |-> Step(devs, f, n)]
  BY LoopExists, Zenon
<1>3. L = [n \in 0..N |-> Step(devs, L, n)]
  <2> HIDE DEF L
  <2> QED BY <1>1, <1>2, Zenon
<1> HIDE DEF L
<1>4. \A n \in 0..N : L[n] = Step(devs, L, n)
  BY <1>3, Zenon
<1>5. L[0] = NonePaired(devs)
  <2>1. 0 \in 0..N
    OBVIOUS
  <2> QED BY <2>1, <1>4, Zenon DEF Step
<1>6. ASSUME NEW n \in 1..N PROVE L[n] = PairDev(devs, L[n - 1], n)
  <2>1. n \in 0..N /\ n # 0
    OBVIOUS
  <2> QED BY <2>1, <1>4, Zenon DEF Step
<1>7. Pairs(devs) = L[N]
  BY Zenon DEF Pairs, L
<1> QED BY <1>5, <1>6, <1>7, Zenon DEF L

(***************************************************************************)
(* One IMU.  N is the number of devices, kept apart from Len(devs).        *)
(***************************************************************************)

ImusOf(devs) == {i \in DOMAIN devs : devs[i].kind = "imu"}

\* The states the loop can be in when it has seen n devices: an IMU is given to
\* one keyboard only.
Assignments(devs, n) ==
    {st \in [ok : BOOLEAN, imu : [Keyboards(devs) -> 0..n]] :
        \A k \in Keyboards(devs) : st.imu[k] # 0 =>
            /\ st.imu[k] \in ImusOf(devs)
            /\ \A j \in Keyboards(devs) : st.imu[j] = st.imu[k] => j = k}

LEMMA FreeIsFinite ==
    ASSUME NEW N \in Nat, NEW devs, DOMAIN devs = 1..N, NEW st, NEW i
    PROVE  /\ IsFiniteSet(FreeKeyboards(devs, st)) /\ IsFiniteSet(Matching(devs, st, i))
           /\ FreeKeyboards(devs, st) \subseteq Keyboards(devs)
           /\ Matching(devs, st, i) \subseteq FreeKeyboards(devs, st)
<1>1. Keyboards(devs) \subseteq 1..N
  BY DEF Keyboards
<1>2. FreeKeyboards(devs, st) \subseteq 1..N /\ Matching(devs, st, i) \subseteq 1..N
  BY <1>1 DEF FreeKeyboards, Matching
<1>3. IsFiniteSet(1..N)
  BY FS_Interval
<1> QED BY <1>2, <1>3, FS_Subset DEF FreeKeyboards, Matching

\* An IMU goes to the one free keyboard of its MAC, or without one to the last
\* free keyboard; else nobody gets it.
LEMMA ImuOutcome ==
    ASSUME NEW N \in Nat, NEW devs, DOMAIN devs = 1..N, NEW st, NEW i
    PROVE  \/ \E k \in FreeKeyboards(devs, st) :
                 /\ Matching(devs, st, i) = {k} \/ FreeKeyboards(devs, st) = {k}
                 /\ PairImu(devs, st, i) = Give(st, k, i)
           \/ /\ FreeKeyboards(devs, st) = {} /\ PairImu(devs, st, i) = st
           \/ /\ FreeKeyboards(devs, st) # {}
              /\ \A k : Matching(devs, st, i) # {k}
              /\ PairImu(devs, st, i) = [st EXCEPT !.ok = FALSE]
<1> DEFINE free == FreeKeyboards(devs, st)
           match == Matching(devs, st, i)
<1>1. IsFiniteSet(free) /\ IsFiniteSet(match) /\ match \subseteq free
  BY FreeIsFinite
<1>2. /\ Cardinality(match) = 1 <=> \E x : match = {x}
      /\ Cardinality(free) = 1 <=> \E x : free = {x}
  BY <1>1, FS_Singleton
<1>3. PairImu(devs, st, i) =
        CASE Cardinality(match) = 1 -> Give(st, CHOOSE k \in match : TRUE, i)
          [] match = {} /\ Cardinality(free) = 1 -> Give(st, CHOOSE k \in free : TRUE, i)
          [] free = {} -> st
          [] OTHER -> [st EXCEPT !.ok = FALSE]
  BY DEF PairImu
<1>4. CASE \E x : match = {x}
  <2>1. PICK x : match = {x}
    BY <1>4
  <2>2. (CHOOSE k \in match : TRUE) = x
    BY <2>1
  <2> HIDE DEF free, match
  <2>3. free # {} /\ match # {} /\ x \in free
    BY <2>1, <1>1
  <2>4. PairImu(devs, st, i) = Give(st, x, i)
    BY <1>2, <1>3, <1>4, <2>2, <2>3
  <2> QED BY <2>1, <2>3, <2>4 DEF free, match
<1>5. CASE match = {} /\ \E x : free = {x}
  <2>1. PICK x : free = {x}
    BY <1>5
  <2>2. (CHOOSE k \in free : TRUE) = x
    BY <2>1
  <2> HIDE DEF free, match
  <2>3. ~(Cardinality(match) = 1) /\ Cardinality(free) = 1 /\ free # {}
    BY <1>5, <1>2
  <2>4. PairImu(devs, st, i) = Give(st, x, i)
    BY <1>3, <1>5, <2>2, <2>3
  <2> QED BY <2>1, <2>4 DEF free, match
<1>6. CASE free = {}
  <2> HIDE DEF free, match
  <2>1. match = {} /\ ~(Cardinality(match) = 1) /\ ~(Cardinality(free) = 1)
    BY <1>6, <1>1, <1>2
  <2>2. PairImu(devs, st, i) = st
    BY <1>3, <1>6, <2>1
  <2> QED BY <1>6, <2>2 DEF free, match
<1>7. CASE /\ free # {}
           /\ \A x : match # {x}
           /\ ~(match = {} /\ \E x : free = {x})
  <2> HIDE DEF free, match
  <2>1. ~(Cardinality(match) = 1) /\ ~(match = {} /\ Cardinality(free) = 1)
    BY <1>7, <1>2
  <2>2. PairImu(devs, st, i) = [st EXCEPT !.ok = FALSE]
    BY <1>3, <1>7, <2>1
  <2> QED BY <1>7, <2>2 DEF free, match
<1> QED BY <1>4, <1>5, <1>6, <1>7

(***************************************************************************)
(* What holds of the loop after any number of devices.                     *)
(***************************************************************************)

LEMMA Fields ==
    ASSUME NEW B, NEW T, NEW st \in [ok : B, imu : T], NEW b \in B, NEW t \in T
    PROVE  /\ st.ok \in B /\ st.imu \in T
           /\ [st EXCEPT !.ok = b] \in [ok : B, imu : T]
           /\ [st EXCEPT !.ok = b].ok = b /\ [st EXCEPT !.ok = b].imu = st.imu
           /\ [st EXCEPT !.imu = t] \in [ok : B, imu : T]
           /\ [st EXCEPT !.imu = t].ok = st.ok /\ [st EXCEPT !.imu = t].imu = t
  OBVIOUS

\* An assignment may stay as it is when one more device has been seen.
LEMMA LaterAssignments ==
    ASSUME NEW N \in Nat, NEW devs, NEW n \in 1..N, NEW st \in Assignments(devs, n - 1)
    PROVE  /\ st \in Assignments(devs, n) /\ st.ok \in BOOLEAN
           /\ [st EXCEPT !.ok = FALSE] \in Assignments(devs, n)
           /\ [st EXCEPT !.ok = FALSE].ok = FALSE
<1> DEFINE T(m) == [Keyboards(devs) -> 0..m]
           Rec(m) == [ok : BOOLEAN, imu : T(m)]
           Own(a) == \A k \in Keyboards(devs) : a[k] # 0 =>
                        /\ a[k] \in ImusOf(devs)
                        /\ \A j \in Keyboards(devs) : a[j] = a[k] => j = k
           lost == [st EXCEPT !.ok = FALSE]
<1>1. \A m, x : x \in Assignments(devs, m) <=> x \in Rec(m) /\ Own(x.imu)
  BY DEF Assignments
<1>2. T(n - 1) \subseteq T(n)
  OBVIOUS
<1> HIDE DEF T
<1>3. Rec(n - 1) \subseteq Rec(n)
  BY <1>2
<1> HIDE DEF Own
<1>4. st \in Rec(n) /\ Own(st.imu)
  BY <1>1, <1>3
<1>5. FALSE \in BOOLEAN /\ st.imu \in T(n) /\ st.ok \in BOOLEAN
  BY <1>4
<1>6. lost \in Rec(n) /\ lost.ok = FALSE /\ lost.imu = st.imu
  BY <1>4, <1>5, Fields, Zenon
<1> HIDE DEF Rec, lost
<1>7. lost \in Assignments(devs, n) /\ st \in Assignments(devs, n)
  BY <1>1, <1>4, <1>6, Zenon
<1> QED BY <1>5, <1>6, <1>7, Zenon DEF lost

\* Handing the device just seen to a free keyboard keeps the assignment sound.
LEMMA GiveAssigns ==
    ASSUME NEW N \in Nat, NEW devs, DOMAIN devs = 1..N,
           NEW n \in 1..N, NEW st \in Assignments(devs, n - 1),
           devs[n].kind = "imu", NEW k \in FreeKeyboards(devs, st)
    PROVE  /\ Give(st, k, n) \in Assignments(devs, n)
           /\ Give(st, k, n).ok = st.ok
           /\ \A j \in Keyboards(devs) :
                 Give(st, k, n).imu[j] = IF j = k THEN n ELSE st.imu[j]
<1> DEFINE T == [Keyboards(devs) -> 0..n]
           given == [st.imu EXCEPT ![k] = n]
           new == Give(st, k, n)
<1>1. st \in Assignments(devs, n) /\ st.ok \in BOOLEAN
  BY LaterAssignments
<1>2. st \in [ok : BOOLEAN, imu : T] /\ st.imu \in T
  BY <1>1 DEF Assignments
<1>3. k \in Keyboards(devs) /\ st.imu[k] = 0
  BY DEF FreeKeyboards
<1>4. /\ st.imu \in [Keyboards(devs) -> 0..(n - 1)]
      /\ \A a \in Keyboards(devs) : st.imu[a] # 0 =>
            /\ st.imu[a] \in ImusOf(devs)
            /\ \A j \in Keyboards(devs) : st.imu[j] = st.imu[a] => j = a
  BY DEF Assignments
<1>5. \A j \in Keyboards(devs) : st.imu[j] # n
  BY <1>4
<1>6. given \in T
  BY <1>2, <1>3
<1>7. \A j \in Keyboards(devs) : given[j] = IF j = k THEN n ELSE st.imu[j]
  BY <1>2, <1>3
<1>8. n \in ImusOf(devs)
  BY DEF ImusOf
<1> HIDE DEF given
<1>9. \A a \in Keyboards(devs) : given[a] # 0 =>
        /\ given[a] \in ImusOf(devs)
        /\ \A j \in Keyboards(devs) : given[j] = given[a] => j = a
  BY <1>4, <1>5, <1>7, <1>8
<1> HIDE DEF T
<1>10. new \in [ok : BOOLEAN, imu : T] /\ new.ok = st.ok /\ new.imu = given
  <2>1. new = [st EXCEPT !.imu = given]
    BY DEF Give, given
  <2>2. st.ok \in BOOLEAN /\ given \in T
    BY <1>1, <1>6
  <2>3. /\ [st EXCEPT !.imu = given] \in [ok : BOOLEAN, imu : T]
        /\ [st EXCEPT !.imu = given].ok = st.ok
        /\ [st EXCEPT !.imu = given].imu = given
    BY <1>2, <2>2, Fields
  <2> QED BY <2>1, <2>3, Zenon
<1> HIDE DEF new
<1>11. new \in Assignments(devs, n)
  BY <1>9, <1>10, Zenon DEF Assignments, T
<1> QED BY <1>7, <1>10, <1>11, Zenon DEF new

\* One device keeps the assignment sound.
LEMMA DevAssigns ==
    ASSUME NEW N \in Nat, NEW devs, DOMAIN devs = 1..N,
           NEW n \in 1..N, NEW st \in Assignments(devs, n - 1)
    PROVE  PairDev(devs, st, n) \in Assignments(devs, n)
<1> DEFINE imu == st.ok /\ devs[n].kind = "imu"
<1>1. CASE imu
  <2>1. PairDev(devs, st, n) = PairImu(devs, st, n)
    BY <1>1 DEF PairDev
  <2>2. \/ \E k \in FreeKeyboards(devs, st) : PairImu(devs, st, n) = Give(st, k, n)
        \/ PairImu(devs, st, n) = st
        \/ PairImu(devs, st, n) = [st EXCEPT !.ok = FALSE]
    BY ImuOutcome
  <2>3. \A k \in FreeKeyboards(devs, st) : Give(st, k, n) \in Assignments(devs, n)
    BY <1>1, GiveAssigns
  <2>4. st \in Assignments(devs, n) /\ [st EXCEPT !.ok = FALSE] \in Assignments(devs, n)
    BY LaterAssignments
  <2> QED BY <2>1, <2>2, <2>3, <2>4, Zenon
<1>2. CASE ~imu
  <2>1. PairDev(devs, st, n) = st
    BY <1>2 DEF PairDev
  <2>2. st \in Assignments(devs, n)
    BY LaterAssignments
  <2> QED BY <2>1, <2>2, Zenon
<1> HIDE DEF imu
<1> QED BY <1>1, <1>2

LEMMA NoneAssigned == ASSUME NEW devs PROVE NonePaired(devs) \in Assignments(devs, 0)
  BY DEF NonePaired, Assignments

\* However many devices have been seen, the assignment is sound.
LEMMA LoopAssigns ==
    ASSUME NEW devs, NEW N \in Nat, N = Len(devs), DOMAIN devs = 1..N
    PROVE  \A n \in 0..N : PairLoop(devs)[n] \in Assignments(devs, n)
<1> DEFINE L == PairLoop(devs)
           Bad == {n \in 0..N : L[n] \notin Assignments(devs, n)}
<1>1. L[0] = NonePaired(devs) /\ \A n \in 1..N : L[n] = PairDev(devs, L[n - 1], n)
  BY LoopStep, Zenon
<1> HIDE DEF L
<1>2. 0 \notin Bad
  BY <1>1, NoneAssigned, Zenon
<1>3. ASSUME NEW n \in 1..N, n \in Bad, n - 1 \in (0..N) \ Bad PROVE FALSE
  <2>1. n - 1 \in 0..N /\ L[n - 1] \in Assignments(devs, n - 1)
    BY <1>3, Zenon
  <2>2. L[n] \in Assignments(devs, n)
    BY <1>1, <2>1, DevAssigns, Zenon
  <2> QED BY <1>3, <2>2, Zenon
<1>4. Bad \in SUBSET (0..N)
  BY Zenon
<1> HIDE DEF Bad
<1>5. Bad = {}
  BY <1>2, <1>3, <1>4, FirstFailure, Zenon
<1> QED BY <1>5, Zenon DEF Bad, L

\* What pairing_match returns for a list of N devices: every keyboard has no IMU or
\* one of its own, whether the set was ambiguous or not.
THEOREM PairsSound ==
    ASSUME NEW devs, NEW N \in Nat, N = Len(devs), DOMAIN devs = 1..N
    PROVE  Pairs(devs) \in Assignments(devs, N)
<1>1. N \in 0..N
  OBVIOUS
<1> QED BY <1>1, LoopStep, LoopAssigns, Zenon

(***************************************************************************)
(* Who gets an IMU without its MAC.                                        *)
(***************************************************************************)

\* An IMU of another MAC only goes to a keyboard when every other keyboard has
\* had its own already.
LastResort(devs, st) ==
    \A k, j \in Keyboards(devs) :
        j # k /\ st.imu[k] # 0 /\ ~SameMac(devs[st.imu[k]], devs[k]) =>
            st.imu[j] # 0 /\ st.imu[j] < st.imu[k]

LEMMA DevLastResort ==
    ASSUME NEW N \in Nat, NEW devs, DOMAIN devs = 1..N,
           NEW n \in 1..N, NEW st \in Assignments(devs, n - 1), LastResort(devs, st)
    PROVE  LastResort(devs, PairDev(devs, st, n))
<1> DEFINE imu == st.ok /\ devs[n].kind = "imu"
           free == FreeKeyboards(devs, st)
           match == Matching(devs, st, n)
           new == PairDev(devs, st, n)
<1>1. ASSUME new.imu = st.imu PROVE LastResort(devs, new)
  BY <1>1 DEF LastResort
<1>2. CASE ~imu
  <2>1. new = st
    BY <1>2 DEF PairDev
  <2> QED BY <1>1, <2>1, Zenon
<1>3. ASSUME imu, NEW k \in free, match = {k} \/ free = {k}, new = Give(st, k, n)
      PROVE  LastResort(devs, new)
  <2>1. /\ \A j \in Keyboards(devs) : new.imu[j] = IF j = k THEN n ELSE st.imu[j]
    BY <1>3, GiveAssigns
  <2>2. /\ st.imu \in [Keyboards(devs) -> 0..(n - 1)]
    BY DEF Assignments
  <2>3. \A j \in Keyboards(devs) : st.imu[j] \in 0..(n - 1)
    BY <2>2
  <2>4. CASE match = {k}
    <3>1. SameMac(devs[n], devs[k])
      BY <2>4 DEF Matching
    <3>2. k \in Keyboards(devs) /\ st.imu[k] = 0
      BY DEF FreeKeyboards
    <3> HIDE DEF new
    <3>3. ASSUME NEW a \in Keyboards(devs), NEW b \in Keyboards(devs), b # a,
                 new.imu[a] # 0, ~SameMac(devs[new.imu[a]], devs[a])
          PROVE  new.imu[b] # 0 /\ new.imu[b] < new.imu[a]
      <4>1. a # k
        BY <2>1, <3>1, <3>3
      <4>2. new.imu[a] = st.imu[a]
        BY <2>1, <4>1
      <4>3. st.imu[b] # 0 /\ st.imu[b] < st.imu[a]
        BY <3>3, <4>2 DEF LastResort
      <4>4. b # k
        BY <4>3, <3>2
      <4> QED BY <2>1, <4>2, <4>3, <4>4
    <3> QED BY <3>3 DEF LastResort
  <2>5. CASE free = {k}
    <3>1. \A j \in Keyboards(devs) : j # k => st.imu[j] # 0
      BY <2>5 DEF FreeKeyboards
    <3>2. k \in Keyboards(devs) /\ st.imu[k] = 0
      BY DEF FreeKeyboards
    <3> HIDE DEF new
    <3>3. ASSUME NEW a \in Keyboards(devs), NEW b \in Keyboards(devs), b # a,
                 new.imu[a] # 0, ~SameMac(devs[new.imu[a]], devs[a])
          PROVE  new.imu[b] # 0 /\ new.imu[b] < new.imu[a]
      <4>1. CASE a = k
        <5>1. new.imu[a] = n /\ new.imu[b] = st.imu[b] /\ st.imu[b] # 0
          BY <4>1, <2>1, <3>1, <3>3
        <5>2. st.imu[b] \in 0..(n - 1)
          BY <2>3
        <5> QED BY <5>1, <5>2
      <4>2. CASE a # k
        <5>1. new.imu[a] = st.imu[a]
          BY <2>1, <4>2
        <5>2. st.imu[b] # 0 /\ st.imu[b] < st.imu[a]
          BY <3>3, <5>1 DEF LastResort
        <5>3. b # k
          BY <5>2, <3>2
        <5> QED BY <2>1, <5>1, <5>2, <5>3
      <4> QED BY <4>1, <4>2
    <3> QED BY <3>3 DEF LastResort
  <2> QED BY <1>3, <2>4, <2>5
<1>4. CASE imu
  <2>1. new = PairImu(devs, st, n)
    BY <1>4 DEF PairDev
  <2>2. \/ \E k \in free : (match = {k} \/ free = {k}) /\ new = Give(st, k, n)
        \/ new = st
        \/ new = [st EXCEPT !.ok = FALSE]
    BY <2>1, ImuOutcome
  <2>3. [st EXCEPT !.ok = FALSE].imu = st.imu
    <3>1. st \in [ok : BOOLEAN, imu : [Keyboards(devs) -> 0..(n - 1)]]
      BY DEF Assignments
    <3>2. FALSE \in BOOLEAN /\ st.imu \in [Keyboards(devs) -> 0..(n - 1)]
      BY <3>1
    <3> QED BY <3>1, <3>2, Fields
  <2> HIDE DEF new, free, match, imu
  <2>4. ASSUME NEW k \in free, match = {k} \/ free = {k}, new = Give(st, k, n)
        PROVE  LastResort(devs, new)
    BY <1>3, <1>4, <2>4
  <2>5. CASE new.imu = st.imu
    BY <1>1, <2>5 DEF new
  <2>6. CASE \E k \in free : (match = {k} \/ free = {k}) /\ new = Give(st, k, n)
    BY <2>4, <2>6, Zenon DEF new
  <2> QED BY <2>2, <2>3, <2>5, <2>6, Zenon
<1> HIDE DEF imu
<1> QED BY <1>2, <1>4, Zenon

\* Elimination is the last resort: a keyboard gets an IMU without a MAC in common
\* only when every other keyboard already had one from earlier in the list.
THEOREM PairsLastResort ==
    ASSUME NEW devs, NEW N \in Nat, N = Len(devs), DOMAIN devs = 1..N
    PROVE  LastResort(devs, Pairs(devs))
<1> DEFINE L == PairLoop(devs)
           Bad == {n \in 0..N : ~LastResort(devs, L[n])}
<1>1. /\ Pairs(devs) = L[N]
      /\ L[0] = NonePaired(devs)
      /\ \A n \in 1..N : L[n] = PairDev(devs, L[n - 1], n)
  BY LoopStep, Zenon
<1>2. \A n \in 0..N : L[n] \in Assignments(devs, n)
  BY LoopAssigns, Zenon
<1> HIDE DEF L
<1>3. 0 \notin Bad
  <2>1. LastResort(devs, NonePaired(devs))
    BY DEF LastResort, NonePaired
  <2> QED BY <1>1, <2>1, Zenon
<1>4. ASSUME NEW n \in 1..N, n \in Bad, n - 1 \in (0..N) \ Bad PROVE FALSE
  <2>1. n - 1 \in 0..N /\ L[n - 1] \in Assignments(devs, n - 1) /\ LastResort(devs, L[n - 1])
    BY <1>2, <1>4, Zenon
  <2>2. LastResort(devs, L[n])
    BY <1>1, <2>1, DevLastResort, Zenon
  <2> QED BY <1>4, <2>2, Zenon
<1>5. Bad \in SUBSET (0..N)
  BY Zenon
<1> HIDE DEF Bad
<1>6. Bad = {}
  BY <1>3, <1>4, <1>5, FirstFailure, Zenon
<1>7. N \in 0..N
  OBVIOUS
<1> QED BY <1>1, <1>6, <1>7, Zenon DEF Bad

(***************************************************************************)
(* A set in which every MAC is known.                                      *)
(***************************************************************************)

MacsKnown(devs) ==
    /\ \A k, j \in Keyboards(devs) : devs[k].uniq = devs[j].uniq => k = j
    /\ \A i, j \in ImusOf(devs) : devs[i].uniq = devs[j].uniq => i = j
    /\ \A i \in ImusOf(devs) : \E k \in Keyboards(devs) : SameMac(devs[i], devs[k])

\* Of the first n devices, each keyboard has the IMU of its MAC.
ByMac(devs, st, n) ==
    /\ st.ok = TRUE
    /\ \A k \in Keyboards(devs), i \in ImusOf(devs) :
          i <= n => (st.imu[k] = i <=> SameMac(devs[i], devs[k]))

LEMMA DevByMac ==
    ASSUME NEW N \in Nat, NEW devs, DOMAIN devs = 1..N, MacsKnown(devs),
           NEW n \in 1..N, NEW st \in Assignments(devs, n - 1), ByMac(devs, st, n - 1)
    PROVE  ByMac(devs, PairDev(devs, st, n), n)
<1>0. ImusOf(devs) \subseteq 1..N
  BY DEF ImusOf
<1>1. CASE devs[n].kind # "imu"
  <2>1. PairDev(devs, st, n) = st
    BY <1>1 DEF PairDev
  <2>2. \A i \in ImusOf(devs) : i <= n => i <= n - 1
    BY <1>0, <1>1 DEF ImusOf
  <2>3. ByMac(devs, st, n)
    BY <2>2 DEF ByMac
  <2> QED BY <2>1, <2>3, Zenon
<1>2. CASE devs[n].kind = "imu"
  <2> DEFINE new == PairDev(devs, st, n)
  <2>1. st.ok = TRUE /\ n \in ImusOf(devs)
    BY <1>2 DEF ByMac, ImusOf
  <2>2. new = PairImu(devs, st, n)
    BY <1>2, <2>1 DEF PairDev
  <2>3. PICK k \in Keyboards(devs) : SameMac(devs[n], devs[k])
    BY <2>1 DEF MacsKnown
  <2>4. st.imu[k] = 0
    <3> SUFFICES ASSUME st.imu[k] # 0 PROVE FALSE
      OBVIOUS
    <3> DEFINE i == st.imu[k]
    <3>1. i \in ImusOf(devs) /\ i \in 0..(n - 1)
      BY DEF Assignments
    <3>2. SameMac(devs[i], devs[k])
      BY <3>1 DEF ByMac
    <3> HIDE DEF i
    <3>3. devs[i].uniq = devs[n].uniq
      BY <3>2, <2>3 DEF SameMac
    <3> QED BY <3>1, <3>3, <2>1 DEF MacsKnown
  <2>5. Matching(devs, st, n) = {k}
    <3>1. k \in Matching(devs, st, n)
      BY <2>3, <2>4 DEF Matching, FreeKeyboards
    <3>2. ASSUME NEW j \in Matching(devs, st, n) PROVE j = k
      <4>1. j \in Keyboards(devs) /\ SameMac(devs[n], devs[j])
        BY DEF Matching, FreeKeyboards
      <4>2. devs[j].uniq = devs[k].uniq
        BY <4>1, <2>3 DEF SameMac
      <4> QED BY <4>1, <4>2 DEF MacsKnown
    <3> QED BY <3>1, <3>2
  <2>6. k \in FreeKeyboards(devs, st) /\ new = Give(st, k, n)
    <3>1. k \in FreeKeyboards(devs, st)
      BY <2>4 DEF FreeKeyboards
    <3>2. PairImu(devs, st, n) = Give(st, k, n)
      <4>1. \A x : Matching(devs, st, n) = {x} => x = k
        BY <2>5
      <4>2. \A x \in FreeKeyboards(devs, st) : FreeKeyboards(devs, st) = {x} => x = k
        BY <3>1
      <4> QED BY <2>5, <3>1, <4>1, <4>2, ImuOutcome
    <3> QED BY <2>2, <3>1, <3>2, Zenon
  <2>7. /\ new.ok = TRUE
        /\ \A j \in Keyboards(devs) : new.imu[j] = IF j = k THEN n ELSE st.imu[j]
    BY <1>2, <2>1, <2>6, GiveAssigns
  <2> HIDE DEF new
  <2>8. \A j \in Keyboards(devs) : st.imu[j] \in 0..(n - 1)
    BY DEF Assignments
  <2>9. ASSUME NEW j \in Keyboards(devs), NEW i \in ImusOf(devs), i <= n
        PROVE  new.imu[j] = i <=> SameMac(devs[i], devs[j])
    <3>1. CASE i = n
      <4>1. new.imu[j] = n <=> j = k
        BY <2>7, <2>8
      <4>2. SameMac(devs[n], devs[j]) <=> j = k
        BY <2>3 DEF MacsKnown, SameMac
      <4> QED BY <3>1, <4>1, <4>2
    <3>2. CASE i # n
      <4>1. i \in 1..N /\ i <= n - 1 /\ i # 0
        BY <1>0, <2>9, <3>2
      <4>2. st.imu[j] = i <=> SameMac(devs[i], devs[j])
        BY <4>1 DEF ByMac
      <4>3. CASE j = k
        <5>1. new.imu[j] # i /\ st.imu[j] # i
          BY <4>3, <2>7, <2>4, <3>2, <4>1
        <5> QED BY <5>1, <4>2
      <4>4. CASE j # k
        BY <4>4, <2>7, <4>2
      <4> QED BY <4>3, <4>4
    <3> QED BY <3>1, <3>2
  <2>10. ByMac(devs, new, n)
    BY <2>7, <2>9 DEF ByMac
  <2> QED BY <2>10 DEF new
<1> QED BY <1>1, <1>2

\* When every MAC is known and no two devices of a kind share one, and every IMU has
\* its keyboard, the set is not ambiguous and MACs alone decide.
THEOREM PairsByMac ==
    ASSUME NEW devs, NEW N \in Nat, N = Len(devs), DOMAIN devs = 1..N, MacsKnown(devs)
    PROVE  ByMac(devs, Pairs(devs), N)
<1> DEFINE L == PairLoop(devs)
           Bad == {n \in 0..N : ~ByMac(devs, L[n], n)}
<1>1. /\ Pairs(devs) = L[N]
      /\ L[0] = NonePaired(devs)
      /\ \A n \in 1..N : L[n] = PairDev(devs, L[n - 1], n)
  BY LoopStep, Zenon
<1>2. \A n \in 0..N : L[n] \in Assignments(devs, n)
  BY LoopAssigns, Zenon
<1> HIDE DEF L
<1>3. 0 \notin Bad
  <2>1. ByMac(devs, NonePaired(devs), 0)
    <3>1. \A i \in ImusOf(devs) : ~(i <= 0)
      BY DEF ImusOf
    <3> QED BY <3>1 DEF ByMac, NonePaired
  <2> QED BY <1>1, <2>1, Zenon
<1>4. ASSUME NEW n \in 1..N, n \in Bad, n - 1 \in (0..N) \ Bad PROVE FALSE
  <2>1. n - 1 \in 0..N /\ L[n - 1] \in Assignments(devs, n - 1) /\ ByMac(devs, L[n - 1], n - 1)
    BY <1>2, <1>4, Zenon
  <2>2. ByMac(devs, L[n], n)
    BY <1>1, <2>1, DevByMac, Zenon
  <2> QED BY <1>4, <2>2, Zenon
<1>5. Bad \in SUBSET (0..N)
  BY Zenon
<1> HIDE DEF Bad
<1>6. Bad = {}
  BY <1>3, <1>4, <1>5, FirstFailure, Zenon
<1>7. N \in 0..N
  OBVIOUS
<1> QED BY <1>1, <1>6, <1>7, Zenon DEF Bad
=============================================================================
