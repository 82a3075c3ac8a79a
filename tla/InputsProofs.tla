----------------------------- MODULE InputsProofs -----------------------------
(***************************************************************************)
(* The calls dbus_client.c writes, the replies it reads and the remotes    *)
(* pairing.c finds are what they should be, for every number of arguments, *)
(* fields, strings and devices.                                            *)
(***************************************************************************)
EXTENDS MCInputs, PairingProofs, SequenceTheorems

(***************************************************************************)
(* Loops.                                                                  *)
(***************************************************************************)

\* Round n of a loop: where it starts, or what the round makes of the one before.
Round(start, step, f, n) == IF n = 0 THEN start ELSE step[n][f[n - 1]]

\* A loop whose rounds stay in a set has a state after each of them.
LEMMA Iterated ==
    ASSUME NEW N \in Nat, NEW S, NEW start \in S, NEW step \in [1..N -> [S -> S]]
    PROVE  \E f \in [0..N -> S] : \A n \in 0..N : f[n] = Round(start, step, f, n)
<1> DEFINE Ok(k) == \E f \in [0..k -> S] : \A n \in 0..k : f[n] = Round(start, step, f, n)
           Stuck == {k \in 0..N : ~Ok(k)}
<1>1. Ok(0)
  <2> DEFINE f == [n \in 0..0 |-> start]
  <2>1. f \in [0..0 -> S] /\ \A n \in 0..0 : f[n] = Round(start, step, f, n)
    BY DEF Round
  <2> QED BY <2>1
<1>2. ASSUME NEW k \in 1..N, Ok(k - 1) PROVE Ok(k)
  <2>1. PICK f \in [0..(k - 1) -> S] : \A n \in 0..(k - 1) : f[n] = Round(start, step, f, n)
    BY <1>2
  <2> DEFINE g == [n \in 0..k |-> IF n = k THEN step[k][f[k - 1]] ELSE f[n]]
  <2>2. k \in Nat /\ k # 0 /\ k - 1 \in 0..(k - 1) /\ \A n \in 0..k : n # k => n \in 0..(k - 1)
    OBVIOUS
  <2>3. step[k][f[k - 1]] \in S
    <3>1. f[k - 1] \in S /\ step[k] \in [S -> S]
      BY <2>2
    <3> QED BY <3>1
  <2>4. g \in [0..k -> S]
    BY <2>2, <2>3
  <2>5. ASSUME NEW n \in 0..k PROVE g[n] = Round(start, step, g, n)
    <3>1. CASE n = k
      <4>1. g[k] = step[k][f[k - 1]] /\ g[k - 1] = f[k - 1]
        BY <2>2
      <4> HIDE DEF g
      <4> QED BY <2>2, <3>1, <4>1 DEF Round
    <3>2. CASE n # k
      <4>1. n \in 0..(k - 1) /\ (n # 0 => n - 1 \in 0..(k - 1) /\ n - 1 # k /\ n - 1 \in 0..k)
        BY <2>2, <3>2
      <4>2. g[n] = f[n] /\ (n # 0 => g[n - 1] = f[n - 1])
        BY <3>2, <4>1
      <4>3. f[n] = Round(start, step, f, n)
        BY <2>1, <4>1
      <4> HIDE DEF g
      <4> QED BY <4>2, <4>3 DEF Round
    <3> QED BY <3>1, <3>2
  <2> HIDE DEF g
  <2> QED BY <2>4, <2>5
<1> HIDE DEF Ok
<1>3. Stuck = {}
  <2> SUFFICES ASSUME Stuck # {} PROVE FALSE
    OBVIOUS
  <2>1. Stuck \in SUBSET (0..N) /\ 0 \notin Stuck
    BY <1>1
  <2>2. PICK n \in 1..N : n \in Stuck /\ n - 1 \in (0..N) \ Stuck
    <3> HIDE DEF Stuck
    <3> QED BY <2>1, FirstFailure
  <2> QED BY <2>2, <1>2
<1>4. Ok(N)
  BY <1>3
<1> QED BY <1>4 DEF Ok

(***************************************************************************)
(* Bytes.                                                                  *)
(***************************************************************************)

Byte == 0..255
Bytes == Seq(Byte)

\* Padding is zero bytes.
LEMMA FillIs ==
    ASSUME NEW n \in Nat
    PROVE  Fill(n) \in Bytes /\ Len(Fill(n)) = n /\ \A i \in 1..n : Fill(n)[i] = 0
<1>1. 0 \in Byte
  BY DEF Byte
<1> QED BY <1>1 DEF Fill, Bytes

\* Padding after padding is padding.
LEMMA FillFill ==
    ASSUME NEW g \in Nat, NEW h \in Nat
    PROVE  Fill(g) \o Fill(h) = Fill(g + h)
<1>1. Fill(g) \in Seq(Byte) /\ Fill(h) \in Seq(Byte) /\ Len(Fill(g)) = g /\ Len(Fill(h)) = h
  BY FillIs DEF Bytes
<1>2. Fill(g + h) \in Seq(Byte) /\ Len(Fill(g + h)) = g + h /\ \A i \in 1..(g + h) : Fill(g + h)[i] = 0
  <2>1. g + h \in Nat
    OBVIOUS
  <2> QED BY <2>1, FillIs DEF Bytes
<1>3. /\ \A i \in 1..g : Fill(g)[i] = 0
      /\ \A i \in 1..h : Fill(h)[i] = 0
  BY FillIs
<1> DEFINE c == Fill(g) \o Fill(h)
<1>4. /\ c \in Seq(Byte) /\ Len(c) = Len(Fill(g)) + Len(Fill(h))
      /\ \A i \in 1..(Len(Fill(g)) + Len(Fill(h))) :
            c[i] = IF i <= Len(Fill(g)) THEN Fill(g)[i] ELSE Fill(h)[i - Len(Fill(g))]
  BY <1>1, ConcatProperties
<1>5. /\ c \in Seq(Byte) /\ Len(c) = g + h
      /\ \A i \in 1..(g + h) : c[i] = IF i <= g THEN Fill(g)[i] ELSE Fill(h)[i - g]
  BY <1>1, <1>4
<1> HIDE DEF c
<1>6. ASSUME NEW i \in 1..(g + h) PROVE c[i] = Fill(g + h)[i]
  <2>1. i <= g => i \in 1..g
    OBVIOUS
  <2>2. ~(i <= g) => i - g \in 1..h
    OBVIOUS
  <2> QED BY <1>2, <1>3, <1>5, <2>1, <2>2
<1>7. c = Fill(g + h)
  BY <1>2, <1>5, <1>6, SeqEqual
<1> QED BY <1>7 DEF c

\* A gap is shorter than the alignment, and none is left behind it; a gap to four bytes and
\* the one to eight after it are the gap to eight.
LEMMA GapIs ==
    ASSUME NEW n \in Nat
    PROVE  /\ Gap(n, 4) \in 0..3 /\ Gap(n, 8) \in 0..7
           /\ Gap(n + Gap(n, 4), 4) = 0
           /\ Gap(n, 4) + Gap(n + Gap(n, 4), 8) = Gap(n, 8)
           /\ (n % 4 = 0 => Gap(n, 4) = 0) /\ (n % 8 = 0 => Gap(n, 8) = 0)
           /\ (n + Gap(n, 8)) % 8 = 0
  BY Z3 DEF Gap

\* Bytes after bytes: their number, and which stand where.
LEMMA ConcatIs ==
    ASSUME NEW s \in Bytes, NEW t \in Bytes
    PROVE  /\ s \o t \in Bytes /\ Len(s \o t) = Len(s) + Len(t)
           /\ Len(s) \in Nat /\ Len(t) \in Nat
           /\ \A i \in 1..Len(s) : (s \o t)[i] = s[i]
           /\ \A i \in 1..Len(t) : (s \o t)[Len(s) + i] = t[i]
<1>1. /\ s \o t \in Seq(Byte) /\ Len(s \o t) = Len(s) + Len(t)
      /\ \A i \in 1..(Len(s) + Len(t)) : (s \o t)[i] = IF i <= Len(s) THEN s[i] ELSE t[i - Len(s)]
  BY ConcatProperties DEF Bytes
<1>2. Len(s) \in Nat /\ Len(t) \in Nat
  BY LenProperties DEF Bytes
<1>3. ASSUME NEW i \in 1..Len(s) PROVE (s \o t)[i] = s[i]
  BY <1>1, <1>2
<1>4. ASSUME NEW i \in 1..Len(t) PROVE (s \o t)[Len(s) + i] = t[i]
  <2>1. Len(s) + i \in 1..(Len(s) + Len(t)) /\ ~(Len(s) + i <= Len(s)) /\ Len(s) + i - Len(s) = i
    BY <1>2
  <2> QED BY <1>1, <2>1
<1> QED BY <1>1, <1>2, <1>3, <1>4 DEF Bytes

\* Padded bytes: their number, and that they begin as before.
LEMMA PadIs ==
    ASSUME NEW P \in Bytes, NEW a \in {4, 8}
    PROVE  /\ SpecPad(P, a) \in Bytes /\ Len(SpecPad(P, a)) = Len(P) + Gap(Len(P), a)
           /\ Gap(Len(P), a) \in Nat /\ Len(P) \in Nat
           /\ \A i \in 1..Len(P) : SpecPad(P, a)[i] = P[i]
<1>1. Len(P) \in Nat
  BY LenProperties DEF Bytes
<1>2. Gap(Len(P), a) \in Nat
  <2>1. Gap(Len(P), 4) \in 0..3 /\ Gap(Len(P), 8) \in 0..7
    BY <1>1, GapIs
  <2> QED BY <2>1
<1> QED BY <1>1, <1>2, FillIs, ConcatIs DEF SpecPad

\* Padding to four bytes first does not change the padding to four or eight.
LEMMA PadPad ==
    ASSUME NEW P \in Bytes, NEW a \in {4, 8}
    PROVE  SpecPad(SpecPad(P, 4), a) = SpecPad(P, a)
<1> DEFINE g == Gap(Len(P), 4)
           h == Gap(Len(P) + g, a)
<1>1. Len(P) \in Nat /\ g \in Nat /\ h \in Nat /\ g + h = Gap(Len(P), a)
  <2>1. Len(P) \in Nat
    BY PadIs
  <2>2. g \in 0..3 /\ Len(P) + g \in Nat
    BY <2>1, GapIs
  <2>3. g \in Nat /\ h \in Nat
    <3>1. Gap(Len(P) + g, 4) \in 0..3 /\ Gap(Len(P) + g, 8) \in 0..7
      BY <2>2, GapIs
    <3> HIDE DEF g
    <3> QED BY <2>2, <3>1
  <2>4. g + h = Gap(Len(P), a)
    <3>1. /\ Gap(Len(P) + Gap(Len(P), 4), 4) = 0
          /\ Gap(Len(P), 4) + Gap(Len(P) + Gap(Len(P), 4), 8) = Gap(Len(P), 8)
      BY <2>1, GapIs
    <3>2. CASE a = 4
      BY <2>3, <3>1, <3>2
    <3>3. CASE a = 8
      BY <3>1, <3>3
    <3> QED BY <3>2, <3>3
  <2> QED BY <2>1, <2>2, <2>3, <2>4
<1>2. SpecPad(SpecPad(P, 4), a) = (P \o Fill(g)) \o Fill(h)
  BY PadIs DEF SpecPad
<1> HIDE DEF g, h
<1>3. Fill(g) \o Fill(h) = Fill(g + h)
  BY <1>1, FillFill
<1>4. Fill(g) \in Seq(Byte) /\ Fill(h) \in Seq(Byte) /\ P \in Seq(Byte)
  BY <1>1, FillIs DEF Bytes
<1>5. (P \o Fill(g)) \o Fill(h) = P \o (Fill(g) \o Fill(h))
  BY <1>4, ConcatAssociative
<1> QED BY <1>1, <1>2, <1>3, <1>5 DEF SpecPad

Word == {v \in Nat : v < 4294967296}

\* A number of 32 bits is read back from its four bytes.
LEMMA NumberIs ==
    ASSUME NEW v \in Nat
    PROVE  /\ U32(v) \in Bytes /\ Len(U32(v)) = 4
           /\ v \in Word => U32At(U32(v), 0) = v
<1>1. /\ v % 256 \in Byte /\ (v \div 256) % 256 \in Byte
      /\ (v \div 65536) % 256 \in Byte /\ (v \div 16777216) % 256 \in Byte
  BY Z3 DEF Byte
<1>2. U32(v) \in Bytes /\ Len(U32(v)) = 4
  BY <1>1 DEF U32, Bytes
<1>3. v \in Word =>
        (v % 256) + 256 * ((v \div 256) % 256) + 65536 * ((v \div 65536) % 256)
          + 16777216 * ((v \div 16777216) % 256) = v
  BY DEF Word
<1>4. U32At(U32(v), 0) =
        (v % 256) + 256 * ((v \div 256) % 256) + 65536 * ((v \div 65536) % 256)
          + 16777216 * ((v \div 16777216) % 256)
  BY DEF U32At, U32
<1> QED BY <1>2, <1>3, <1>4

\* The numbers that fit in four bytes are natural.
LEMMA WordIs == Word \subseteq Nat
  BY DEF Word

\* The bytes c stand in m from a position on.
Stands(m, at, c) == \A i \in 1..Len(c) : m[at + i] = c[i]

\* Bytes that stand together stand apart.
LEMMA StandsTwo ==
    ASSUME NEW m, NEW at \in Nat, NEW c \in Bytes, NEW d \in Bytes
    PROVE  Stands(m, at, c \o d) <=> Stands(m, at, c) /\ Stands(m, at + Len(c), d)
<1>1. /\ Len(c \o d) = Len(c) + Len(d) /\ Len(c) \in Nat /\ Len(d) \in Nat
      /\ \A i \in 1..Len(c) : (c \o d)[i] = c[i]
      /\ \A i \in 1..Len(d) : (c \o d)[Len(c) + i] = d[i]
  BY ConcatIs
<1>2. ASSUME Stands(m, at, c \o d) PROVE Stands(m, at, c) /\ Stands(m, at + Len(c), d)
  <2>1. ASSUME NEW i \in 1..Len(c) PROVE m[at + i] = c[i]
    BY <1>1, <1>2 DEF Stands
  <2>2. ASSUME NEW i \in 1..Len(d) PROVE m[at + Len(c) + i] = d[i]
    <3>1. Len(c) + i \in 1..Len(c \o d) /\ at + (Len(c) + i) = at + Len(c) + i
      BY <1>1
    <3> QED BY <1>1, <1>2, <3>1 DEF Stands
  <2> QED BY <2>1, <2>2 DEF Stands
<1>3. ASSUME Stands(m, at, c), Stands(m, at + Len(c), d) PROVE Stands(m, at, c \o d)
  <2> SUFFICES ASSUME NEW i \in 1..Len(c \o d) PROVE m[at + i] = (c \o d)[i]
    BY DEF Stands
  <2>1. CASE i <= Len(c)
    BY <1>1, <1>3, <2>1 DEF Stands
  <2>2. CASE i > Len(c)
    <3>1. i - Len(c) \in 1..Len(d) /\ Len(c) + (i - Len(c)) = i
          /\ at + Len(c) + (i - Len(c)) = at + i
      BY <1>1, <2>2
    <3>2. m[at + Len(c) + (i - Len(c))] = d[i - Len(c)]
      BY <1>3, <3>1 DEF Stands
    <3>3. (c \o d)[Len(c) + (i - Len(c))] = d[i - Len(c)]
      BY <1>1, <3>1
    <3> QED BY <3>1, <3>2, <3>3
  <2> QED BY <1>1, <2>1, <2>2
<1> QED BY <1>2, <1>3

\* A number that stands in a message is read as itself.
LEMMA NumberReads ==
    ASSUME NEW m, NEW at \in Nat, NEW v \in Word, Stands(m, at, U32(v))
    PROVE  U32At(m, at) = v
<1>1. Len(U32(v)) = 4 /\ U32At(U32(v), 0) = v
  BY WordIs, NumberIs
<1>2. /\ m[at + 1] = U32(v)[1] /\ m[at + 2] = U32(v)[2]
      /\ m[at + 3] = U32(v)[3] /\ m[at + 4] = U32(v)[4]
  BY <1>1 DEF Stands
<1> QED BY <1>1, <1>2 DEF U32At

(***************************************************************************)
(* The writer.  What it has written is what the specification asks for,    *)
(* with or without the padding after a string; nodepad tells which.        *)
(***************************************************************************)

Writer == [out : Bytes, nodepad : Nat]

\* A value that can be written: its bytes, or a number of 32 bits.
IsValue(a) ==
    \/ a.type \in {Type.s, Type.o} /\ a.val \in Bytes
    \/ a.type = Type.g /\ a.val \in Bytes /\ Len(a.val) <= MaxSignature
    \/ a.type = Type.u /\ a.val[1] \in Word
    \/ a.type = Type.d /\ a.val \in Bytes /\ Len(a.val) = 8

Wrote(w, S) ==
    w \in Writer /\ S \in Bytes /\ w.nodepad = Len(S) /\ (w.out = S \/ w.out = SpecPad(S, 4))

\* The bytes of a string, and of a signature.
StrBytes(s) == U32(Len(s)) \o s \o <<0>>
SigBytes(s) == <<Len(s)>> \o s \o <<0>>

\* What the writer puts for a string.
LEMMA StrIs ==
    ASSUME NEW s \in Bytes
    PROVE  /\ StrBytes(s) \in Bytes /\ Len(StrBytes(s)) = 5 + Len(s)
           /\ StrBytes(s) = (U32(Len(s)) \o s) \o <<0>>
           /\ U32(Len(s)) \in Bytes /\ Len(U32(Len(s))) = 4 /\ Len(s) \in Nat
           /\ U32(Len(s)) \o s \in Bytes /\ Len(U32(Len(s)) \o s) = 4 + Len(s)
           /\ <<0>> \in Bytes /\ Len(<<0>>) = 1
<1>1. Len(s) \in Nat
  BY LenProperties DEF Bytes
<1>2. U32(Len(s)) \in Bytes /\ Len(U32(Len(s))) = 4
  BY <1>1, NumberIs
<1>3. <<0>> \in Bytes /\ Len(<<0>>) = 1
  BY DEF Bytes, Byte
<1> DEFINE c == U32(Len(s)) \o s
<1>4. c \in Bytes /\ Len(c) = 4 + Len(s)
  <2> DEFINE h == U32(Len(s))
  <2> HIDE DEF h, c
  <2>1. h \in Bytes /\ Len(h) = 4
    BY <1>2 DEF h
  <2>2. h \o s \in Bytes /\ Len(h \o s) = Len(h) + Len(s)
    BY <2>1, ConcatIs
  <2> QED BY <2>1, <2>2 DEF h, c
<1> HIDE DEF c
<1>5. c \o <<0>> \in Bytes /\ Len(c \o <<0>>) = Len(c) + 1
  BY Zenon, <1>3, <1>4, ConcatIs
<1>6. StrBytes(s) = c \o <<0>>
  BY DEF StrBytes, c
<1> QED BY <1>1, <1>2, <1>3, <1>4, <1>5, <1>6 DEF c

\* What the writer puts for a signature.
LEMMA SigIs ==
    ASSUME NEW s \in Bytes, Len(s) <= MaxSignature
    PROVE  /\ SigBytes(s) \in Bytes /\ Len(SigBytes(s)) = 2 + Len(s)
           /\ SigBytes(s) = (<<Len(s)>> \o s) \o <<0>>
           /\ <<Len(s)>> \in Bytes /\ Len(<<Len(s)>>) = 1 /\ Len(s) \in Nat
           /\ <<Len(s)>> \o s \in Bytes /\ Len(<<Len(s)>> \o s) = 1 + Len(s)
           /\ <<0>> \in Bytes /\ Len(<<0>>) = 1
<1>1. Len(s) \in Nat
  BY LenProperties DEF Bytes
<1>2. <<Len(s)>> \in Bytes /\ Len(<<Len(s)>>) = 1
  <2> DEFINE n == Len(s)
  <2>1. n \in Nat /\ n <= MaxSignature
    BY <1>1
  <2> HIDE DEF n
  <2>2. n \in Byte
    BY <2>1 DEF Byte, MaxSignature
  <2>3. <<n>> \in Bytes /\ Len(<<n>>) = 1
    BY <2>2 DEF Bytes
  <2> QED BY <2>3 DEF n
<1>3. <<0>> \in Bytes /\ Len(<<0>>) = 1
  BY DEF Bytes, Byte
<1> DEFINE c == <<Len(s)>> \o s
<1>4. c \in Bytes /\ Len(c) = 1 + Len(s)
  BY <1>2, ConcatIs
<1> HIDE DEF c
<1>5. c \o <<0>> \in Bytes /\ Len(c \o <<0>>) = Len(c) + 1
  BY Zenon, <1>3, <1>4, ConcatIs
<1>6. SigBytes(s) = c \o <<0>>
  BY DEF SigBytes, c
<1> QED BY <1>1, <1>2, <1>3, <1>4, <1>5, <1>6 DEF c

\* A writer that has written something.
LEMMA WroteIs ==
    ASSUME NEW S \in Bytes, NEW x \in Bytes, x = S \/ x = SpecPad(S, 4)
    PROVE  Wrote([out |-> x, nodepad |-> Len(S)], S)
<1> DEFINE n == Len(S)
           w == [out |-> x, nodepad |-> n]
<1>1. n \in Nat
  BY Zenon, ConcatIs
<1> HIDE DEF n
<1>2. w.out = x /\ w.nodepad = n /\ w \in [out : Bytes, nodepad : Nat]
  BY <1>1
<1> HIDE DEF w
<1>3. Wrote(w, S)
  BY Zenon, <1>2 DEF Wrote, Writer, n
<1> QED BY Zenon, <1>3 DEF w, n

\* Putting bytes after padding that may have begun before.
LEMMA PutIs ==
    ASSUME NEW w, NEW S, Wrote(w, S), NEW c \in Bytes, NEW a \in {4, 8}
    PROVE  /\ Pad(w, a).out = SpecPad(S, a) /\ Pad(w, a) \in Writer
           /\ Put(Pad(w, a), c).out = SpecPad(S, a) \o c
           /\ Wrote(Put(Pad(w, a), c), SpecPad(S, a) \o c)
<1>1. S \in Bytes /\ w \in Writer /\ (w.out = S \/ w.out = SpecPad(S, 4))
  BY DEF Wrote
<1>2. SpecPad(w.out, a) = SpecPad(S, a)
  BY <1>1, PadPad
<1>3. SpecPad(S, a) \in Bytes /\ w.out \in Bytes
  BY <1>1, PadIs DEF Writer
<1>4. Pad(w, a) = [out |-> SpecPad(S, a), nodepad |-> Len(w.out)]
  BY <1>2 DEF Pad, SpecPad
<1>5. Len(w.out) \in Nat
  BY <1>3, PadIs
<1> DEFINE T == SpecPad(S, a) \o c
<1>6. T \in Bytes /\ Len(T) \in Nat
  <2>1. T \in Bytes
    BY <1>3, ConcatIs
  <2> QED BY <2>1, LenProperties DEF Bytes
<1>7. Put(Pad(w, a), c) = [out |-> T, nodepad |-> Len(T)]
  BY <1>4 DEF Put
<1> HIDE DEF T
<1>8. Wrote([out |-> T, nodepad |-> Len(T)], T)
  BY Zenon, <1>6, WroteIs
<1> QED BY <1>3, <1>4, <1>5, <1>7, <1>8 DEF T, Writer

\* Bytes that begin a body or header, or are put without padding.
LEMMA PutAsIs ==
    ASSUME NEW S \in Bytes, NEW c \in Bytes
    PROVE  LET w == [out |-> S, nodepad |-> Len(S)]
           IN  /\ Wrote(w, S)
               /\ Put(w, c) = [out |-> S \o c, nodepad |-> Len(S \o c)]
               /\ Wrote(Put(w, c), S \o c) /\ Wrote(Pad(Put(w, c), 4), S \o c)
<1> DEFINE w == [out |-> S, nodepad |-> Len(S)]
           T == S \o c
<1>1. T \in Bytes /\ Len(T) \in Nat /\ Len(S) \in Nat
  BY ConcatIs
<1>2. Put(w, c) = [out |-> T, nodepad |-> Len(T)]
  BY DEF Put
<1>3. Wrote(w, S)
  BY Zenon, WroteIs
<1> HIDE DEF T
<1>4. SpecPad(T, 4) \in Bytes
  BY <1>1, PadIs
<1>5. Pad([out |-> T, nodepad |-> Len(T)], 4) = [out |-> SpecPad(T, 4), nodepad |-> Len(T)]
  BY DEF Pad, SpecPad
<1>6. /\ Wrote([out |-> T, nodepad |-> Len(T)], T)
      /\ Wrote([out |-> SpecPad(T, 4), nodepad |-> Len(T)], T)
  BY Zenon, <1>1, <1>4, WroteIs
<1> QED BY <1>2, <1>3, <1>5, <1>6 DEF T

\* A string after padding, and its own padding to come.
LEMMA StrWritten ==
    ASSUME NEW w, NEW S, Wrote(w, S), NEW s \in Bytes
    PROVE  Wrote(PutStr(Pad(w, 4), s), SpecString(S, s))
<1>1. StrBytes(s) \in Bytes
  BY StrIs
<1> DEFINE c == StrBytes(s)
           P == SpecPad(S, 4)
           T == P \o c
<1>2. P \in Bytes
  BY PadIs DEF Wrote
<1>3. Put(Pad(w, 4), c) = [out |-> T, nodepad |-> Len(T)]
  <2>1. Pad(w, 4).out = P
    BY <1>1, PutIs
  <2> QED BY <2>1 DEF Put
<1>4. T \in Bytes /\ <<>> \in Bytes
  <2> HIDE DEF P, c
  <2> QED BY <1>1, <1>2, ConcatIs DEF c, Bytes
<1>5. Wrote(Pad([out |-> T, nodepad |-> Len(T)], 4), T)
  <2> HIDE DEF P, c
  <2>1. Wrote(Pad(Put([out |-> P, nodepad |-> Len(P)], c), 4), P \o c)
    BY <1>1, <1>2, PutAsIs DEF c
  <2>2. Put([out |-> P, nodepad |-> Len(P)], c) = [out |-> P \o c, nodepad |-> Len(P \o c)]
    BY DEF Put
  <2> QED BY <2>1, <2>2
<1>6. PutStr(Pad(w, 4), s) = Pad([out |-> T, nodepad |-> Len(T)], 4)
  BY <1>3 DEF PutStr, StrBytes
<1>7. SpecString(S, s) = T
  BY DEF SpecString, StrBytes
<1> HIDE DEF T
<1> QED BY <1>5, <1>6, <1>7

\* The types are different bytes.
LEMMA TypesDiffer ==
    /\ Type.s = 115 /\ Type.o = 111 /\ Type.u = 117 /\ Type.g = 103
    /\ Type.d = 100 /\ Type.a = 97 /\ Type.v = 118
  BY DEF Type

\* The value of each type.
LEMMA ValueOf ==
    ASSUME NEW a, IsValue(a)
    PROVE  /\ a.type \in {Type.s, Type.o} => a.val \in Bytes
           /\ a.type = Type.g => a.val \in Bytes /\ Len(a.val) <= MaxSignature
           /\ a.type = Type.u => a.val[1] \in Word /\ U32(a.val[1]) \in Bytes
           /\ a.type = Type.d => a.val \in Bytes
           /\ a.type \in {Type.s, Type.o, Type.g, Type.u, Type.d}
<1> DEFINE s == a.type \in {Type.s, Type.o}
           g == a.type = Type.g
           u == a.type = Type.u
           d == a.type = Type.d
<1>1. /\ s => ~g /\ ~u /\ ~d
      /\ g => ~u /\ ~d
      /\ u => ~d
  BY TypesDiffer
<1>2. \/ s /\ a.val \in Bytes
      \/ g /\ a.val \in Bytes /\ Len(a.val) <= MaxSignature
      \/ u /\ a.val[1] \in Word
      \/ d /\ a.val \in Bytes /\ Len(a.val) = 8
  BY Zenon DEF IsValue
<1>3. a.type \in {Type.s, Type.o, Type.g, Type.u, Type.d} <=> s \/ g \/ u \/ d
  BY Zenon
<1> HIDE DEF s, g, u, d
<1>4. u => a.val[1] \in Nat /\ a.val[1] \in Word
  BY Zenon, <1>1, <1>2, WordIs
<1>5. u => U32(a.val[1]) \in Bytes
  BY Zenon, <1>4, NumberIs
<1>6. /\ s => a.val \in Bytes
      /\ g => a.val \in Bytes /\ Len(a.val) <= MaxSignature
      /\ d => a.val \in Bytes
  BY Zenon, <1>1, <1>2
<1> QED BY Zenon, <1>2, <1>3, <1>4, <1>5, <1>6 DEF s, g, u, d

\* A value of each type, to the D-Bus specification.
LEMMA SpecValueOf ==
    ASSUME NEW S, NEW a
    PROVE  /\ a.type \in {Type.s, Type.o} => SpecValue(S, a) = SpecString(S, a.val)
           /\ a.type = Type.g => SpecValue(S, a) = SpecSignature(S, a.val)
           /\ a.type = Type.u => SpecValue(S, a) = SpecPad(S, 4) \o U32(a.val[1])
           /\ a.type = Type.d => SpecValue(S, a) = SpecPad(S, 8) \o a.val
  BY TypesDiffer DEF SpecValue

\* One argument.
LEMMA ArgWritten ==
    ASSUME NEW w, NEW S, Wrote(w, S), NEW a, IsValue(a), a.type \in {Type.s, Type.d, Type.u}
    PROVE  Wrote(AddArg(w, a), SpecValue(S, a))
<1> USE TypesDiffer
<1>1. CASE a.type = Type.s
  <2>1. a.val \in Bytes
    BY <1>1, ValueOf
  <2>2. AddArg(w, a) = PutStr(Pad(w, 4), a.val) /\ SpecValue(S, a) = SpecString(S, a.val)
    BY <1>1, SpecValueOf DEF AddArg
  <2> QED BY <2>1, <2>2, StrWritten
<1>2. CASE a.type = Type.d
  <2>1. a.val \in Bytes
    BY <1>2, ValueOf
  <2>2. AddArg(w, a) = Put(Pad(w, 8), a.val) /\ SpecValue(S, a) = SpecPad(S, 8) \o a.val
    BY <1>2, SpecValueOf DEF AddArg
  <2> QED BY <2>1, <2>2, PutIs
<1>3. CASE a.type = Type.u
  <2>1. U32(a.val[1]) \in Bytes
    BY <1>3, ValueOf
  <2>2. AddArg(w, a) = Put(Pad(w, 4), U32(a.val[1])) /\ SpecValue(S, a) = SpecPad(S, 4) \o U32(a.val[1])
    BY <1>3, SpecValueOf DEF AddArg
  <2> QED BY <2>1, <2>2, PutIs
<1> QED BY <1>1, <1>2, <1>3

\* One header field.
LEMMA FieldWritten ==
    ASSUME NEW w, NEW S, Wrote(w, S), NEW f, IsValue(f), f.code \in Byte,
           f.type \in {Type.s, Type.o, Type.g}
    PROVE  Wrote(HdrField(w, f), SpecField(S, f))
<1> USE TypesDiffer
<1> DEFINE c == <<f.code, 1, f.type, 0>>
           T == SpecPad(S, 8) \o c
           start == Put(Pad(w, 8), c)
           fv == [type |-> f.type, val |-> f.val]
<1>1. c \in Bytes
  <2>1. f.type \in Byte /\ 1 \in Byte /\ 0 \in Byte
    BY DEF Byte
  <2> QED BY <2>1 DEF Bytes
<1>2. Wrote(start, T) /\ start.out = T
  <2> HIDE DEF c
  <2> QED BY <1>1, PutIs
<1>3. start = [out |-> T, nodepad |-> Len(T)]
  BY <1>2 DEF Wrote, Writer
<1>4. f.val \in Bytes /\ (f.type = Type.g => Len(f.val) <= MaxSignature)
  BY ValueOf
<1>5. SpecField(S, f) = SpecValue(T, fv) /\ fv.type = f.type /\ fv.val = f.val
  BY DEF SpecField
<1> HIDE DEF T, start, fv
<1>6. CASE f.type # Type.g
  <2>1. HdrField(w, f) = PutStr(Pad(start, 4), f.val)
    BY <1>6 DEF HdrField, start
  <2>2. SpecValue(T, fv) = SpecString(T, f.val)
    BY <1>5, <1>6, SpecValueOf
  <2> QED BY <1>2, <1>4, <1>5, <2>1, <2>2, StrWritten
<1>7. CASE f.type = Type.g
  <2>1. HdrField(w, f) = PutSig(start, f.val)
    BY <1>7 DEF HdrField, start
  <2>2. SpecValue(T, fv) = T \o SigBytes(f.val)
    <3>1. SpecValue(T, fv) = SpecSignature(T, f.val)
      BY <1>5, <1>7, SpecValueOf
    <3> QED BY <3>1 DEF SpecSignature, SigBytes
  <2>3. PutSig(start, f.val) = Put(start, SigBytes(f.val))
    BY DEF PutSig, SigBytes
  <2>4. SigBytes(f.val) \in Bytes
    BY <1>4, <1>7, SigIs
  <2>5. T \in Bytes
    BY <1>2 DEF Wrote
  <2>6. Wrote(Put([out |-> T, nodepad |-> Len(T)], SigBytes(f.val)), T \o SigBytes(f.val))
    BY <2>4, <2>5, PutAsIs
  <2> QED BY <1>3, <1>5, <2>1, <2>2, <2>3, <2>6
<1> QED BY <1>6, <1>7

\* What the writer makes of a writer, and the specification of bytes.
LEMMA WriterStays ==
    ASSUME NEW w \in Writer, NEW c \in Bytes, NEW a \in {4, 8}
    PROVE  Pad(w, a) \in Writer /\ Put(w, c) \in Writer
<1>1. w.out \in Bytes
  BY DEF Writer
<1>2. w.out \o c \in Bytes /\ SpecPad(w.out, a) \in Bytes
  BY <1>1, ConcatIs, PadIs
<1>3. Len(w.out \o c) \in Nat /\ Len(w.out) \in Nat
  BY <1>1, <1>2, LenProperties DEF Bytes
<1> QED BY <1>2, <1>3 DEF Pad, Put, SpecPad, Writer

\* The writer stays a writer when it puts a string.
LEMMA StringsStay ==
    ASSUME NEW w \in Writer, NEW s \in Bytes
    PROVE  PutStr(Pad(w, 4), s) \in Writer
<1>1. Pad(w, 4) \in Writer
  BY WriterStays, StrIs
<1>2. StrBytes(s) \in Bytes
  BY StrIs
<1>3. Put(Pad(w, 4), StrBytes(s)) \in Writer
  BY <1>1, <1>2, WriterStays
<1>4. Pad(Put(Pad(w, 4), StrBytes(s)), 4) \in Writer
  BY <1>2, <1>3, WriterStays
<1> QED BY <1>4 DEF PutStr, StrBytes

\* What is written and what is specified for a value of each type.
LEMMA AddArgOf ==
    ASSUME NEW w, NEW a
    PROVE  /\ a.type = Type.s => AddArg(w, a) = PutStr(Pad(w, 4), a.val)
           /\ a.type = Type.d => AddArg(w, a) = Put(Pad(w, 8), a.val)
           /\ a.type = Type.u => AddArg(w, a) = Put(Pad(w, 4), U32(a.val[1]))
  BY TypesDiffer DEF AddArg

\* A value of each type, to the D-Bus specification, with the bytes of its text.
LEMMA SpecBytesOf ==
    ASSUME NEW S, NEW a
    PROVE  /\ a.type \in {Type.s, Type.o} => SpecValue(S, a) = SpecPad(S, 4) \o StrBytes(a.val)
           /\ a.type = Type.g => SpecValue(S, a) = S \o SigBytes(a.val)
           /\ a.type = Type.u => SpecValue(S, a) = SpecPad(S, 4) \o U32(a.val[1])
           /\ a.type = Type.d => SpecValue(S, a) = SpecPad(S, 8) \o a.val
<1>1. SpecString(S, a.val) = SpecPad(S, 4) \o StrBytes(a.val)
  BY Zenon DEF SpecString, StrBytes
<1>2. SpecSignature(S, a.val) = S \o SigBytes(a.val)
  BY Zenon DEF SpecSignature, SigBytes
<1> QED BY Zenon, <1>1, <1>2, SpecValueOf

\* The writer stays a writer when it puts an argument.
LEMMA ArgStays ==
    ASSUME NEW w \in Writer, NEW a, IsValue(a), a.type \in {Type.s, Type.d, Type.u}
    PROVE  AddArg(w, a) \in Writer
<1>1. CASE a.type = Type.s
  <2>1. PutStr(Pad(w, 4), a.val) \in Writer
    BY <1>1, ValueOf, StringsStay
  <2> QED BY Zenon, <1>1, <2>1, AddArgOf
<1>2. CASE a.type = Type.d
  <2>1. a.val \in Bytes /\ Pad(w, 8) \in Writer
    BY <1>2, ValueOf, WriterStays
  <2>2. Put(Pad(w, 8), a.val) \in Writer
    BY <2>1, WriterStays
  <2> QED BY Zenon, <1>2, <2>2, AddArgOf
<1>3. CASE a.type = Type.u
  <2> DEFINE c == U32(a.val[1])
  <2>1. c \in Bytes
    BY <1>3, ValueOf
  <2> HIDE DEF c
  <2>2. Pad(w, 4) \in Writer
    BY <2>1, WriterStays
  <2>3. Put(Pad(w, 4), c) \in Writer
    BY <2>1, <2>2, WriterStays
  <2> QED BY Zenon, <1>3, <2>3, AddArgOf DEF c
<1> QED BY <1>1, <1>2, <1>3

\* The writer stays a writer when it puts a header field.
LEMMA FieldStays ==
    ASSUME NEW w \in Writer, NEW f, IsValue(f), f.code \in Byte, f.type \in {Type.s, Type.o, Type.g}
    PROVE  HdrField(w, f) \in Writer
<1> USE TypesDiffer
<1> DEFINE start == Put(Pad(w, 8), <<f.code, 1, f.type, 0>>)
<1>1. start \in Writer
  <2> DEFINE c == <<f.code, 1, f.type, 0>>
  <2>1. c \in Bytes
    <3>1. f.type \in Byte /\ 1 \in Byte /\ 0 \in Byte
      BY DEF Byte
    <3> QED BY <3>1 DEF Bytes
  <2> HIDE DEF c
  <2> QED BY <2>1, WriterStays DEF c
<1>2. f.val \in Bytes /\ (f.type = Type.g => Len(f.val) <= MaxSignature)
  BY ValueOf
<1> HIDE DEF start
<1>3. CASE f.type # Type.g
  <2>1. HdrField(w, f) = PutStr(Pad(start, 4), f.val)
    BY <1>3 DEF HdrField, start
  <2> QED BY <1>1, <1>2, <2>1, StringsStay
<1>4. CASE f.type = Type.g
  <2>1. HdrField(w, f) = PutSig(start, f.val)
    BY <1>4 DEF HdrField, start
  <2>2. SigBytes(f.val) \in Bytes
    BY <1>2, <1>4, SigIs
  <2> QED BY <1>1, <2>1, <2>2, WriterStays DEF PutSig, SigBytes
<1> QED BY <1>3, <1>4

\* The specification of one value, and of one header field.
LEMMA ValueIs ==
    ASSUME NEW S \in Bytes, NEW a, IsValue(a)
    PROVE  /\ SpecValue(S, a) \in Bytes /\ Len(SpecValue(S, a)) >= Len(S)
           /\ Len(S) \in Nat /\ Len(SpecValue(S, a)) \in Nat
           /\ \A i \in 1..Len(S) : SpecValue(S, a)[i] = S[i]
<1> DEFINE Longer(T) == /\ T \in Bytes /\ Len(T) >= Len(S) /\ Len(S) \in Nat /\ Len(T) \in Nat
                        /\ \A i \in 1..Len(S) : T[i] = S[i]
<1>1. ASSUME NEW g \in {4, 8}, NEW c \in Bytes PROVE Longer(SpecPad(S, g) \o c)
  <2>1. /\ SpecPad(S, g) \in Bytes /\ Len(SpecPad(S, g)) >= Len(S) /\ Len(S) \in Nat
        /\ \A i \in 1..Len(S) : SpecPad(S, g)[i] = S[i]
    <3>1. /\ SpecPad(S, g) \in Bytes /\ Len(SpecPad(S, g)) = Len(S) + Gap(Len(S), g)
          /\ Gap(Len(S), g) \in Nat /\ Len(S) \in Nat
          /\ \A i \in 1..Len(S) : SpecPad(S, g)[i] = S[i]
      BY Zenon, PadIs
    <3> QED BY <3>1
  <2> DEFINE P == SpecPad(S, g)
  <2> HIDE DEF P
  <2>2. /\ P \o c \in Bytes /\ Len(P \o c) = Len(P) + Len(c) /\ Len(P) \in Nat /\ Len(c) \in Nat
        /\ \A i \in 1..Len(P) : (P \o c)[i] = P[i]
    BY <2>1, ConcatIs DEF P
  <2>3. Longer(P \o c)
    BY <2>1, <2>2 DEF P
  <2> QED BY <2>3 DEF P
<1>2. ASSUME NEW c \in Bytes PROVE Longer(S \o c)
  <2>1. /\ S \o c \in Bytes /\ Len(S \o c) = Len(S) + Len(c) /\ Len(S) \in Nat /\ Len(c) \in Nat
        /\ \A i \in 1..Len(S) : (S \o c)[i] = S[i]
    BY ConcatIs
  <2> QED BY <2>1
<1> HIDE DEF Longer
<1>3. CASE a.type \in {Type.s, Type.o}
  <2>1. SpecValue(S, a) = SpecPad(S, 4) \o StrBytes(a.val)
    BY Zenon, <1>3, SpecBytesOf
  <2>2. StrBytes(a.val) \in Bytes
    BY <1>3, ValueOf, StrIs
  <2>3. Longer(SpecValue(S, a))
    BY <1>1, <2>1, <2>2
  <2> QED BY <2>3 DEF Longer
<1>4. CASE a.type = Type.g
  <2>1. SpecValue(S, a) = S \o SigBytes(a.val)
    BY Zenon, <1>4, SpecBytesOf
  <2>2. SigBytes(a.val) \in Bytes
    BY <1>4, ValueOf, SigIs
  <2>3. Longer(SpecValue(S, a))
    BY <1>2, <2>1, <2>2
  <2> QED BY <2>3 DEF Longer
<1>5. CASE a.type = Type.u
  <2>1. SpecValue(S, a) = SpecPad(S, 4) \o U32(a.val[1])
    BY Zenon, <1>5, SpecBytesOf
  <2>2. U32(a.val[1]) \in Bytes
    BY <1>5, ValueOf
  <2>3. Longer(SpecValue(S, a))
    BY <1>1, <2>1, <2>2
  <2> QED BY <2>3 DEF Longer
<1>6. CASE a.type = Type.d
  <2>1. SpecValue(S, a) = SpecPad(S, 8) \o a.val
    BY Zenon, <1>6, SpecBytesOf
  <2>2. a.val \in Bytes
    BY <1>6, ValueOf
  <2>3. Longer(SpecValue(S, a))
    BY <1>1, <2>1, <2>2
  <2> QED BY <2>3 DEF Longer
<1>7. a.type \in {Type.s, Type.o} \/ a.type = Type.g \/ a.type = Type.u \/ a.type = Type.d
  BY ValueOf
<1> QED BY <1>3, <1>4, <1>5, <1>6, <1>7

\* A header field: its code and its type, then its value.
IsField(f) == IsValue(f) /\ f.code \in Byte /\ f.type \in {Type.s, Type.o, Type.u, Type.g}

FieldStart(f) == <<f.code, 1, f.type, 0>>

\* A header field of the D-Bus specification: its bytes, and that they come after the others.
LEMMA FieldIs ==
    ASSUME NEW S \in Bytes, NEW f, IsField(f)
    PROVE  /\ SpecField(S, f) \in Bytes /\ Len(S) \in Nat /\ Len(SpecField(S, f)) \in Nat
           /\ FieldStart(f) \in Bytes /\ Len(FieldStart(f)) = 4
           /\ Len(SpecField(S, f)) >= Len(SpecPad(S, 8)) + 4 /\ Len(SpecPad(S, 8)) >= Len(S)
           /\ SpecPad(S, 8) \o FieldStart(f) \in Bytes
           /\ Len(SpecPad(S, 8) \o FieldStart(f)) = Len(SpecPad(S, 8)) + 4
           /\ SpecField(S, f) = SpecValue(SpecPad(S, 8) \o FieldStart(f), [type |-> f.type, val |-> f.val])
           /\ \A i \in 1..Len(S) : SpecField(S, f)[i] = S[i]
<1>1. FieldStart(f) \in Bytes /\ Len(FieldStart(f)) = 4
  <2>1. f.type \in Byte /\ 1 \in Byte /\ 0 \in Byte /\ f.code \in Byte
    BY TypesDiffer DEF Byte, IsField
  <2> QED BY <2>1 DEF Bytes, FieldStart
<1>2. /\ SpecPad(S, 8) \in Bytes /\ Len(SpecPad(S, 8)) >= Len(S) /\ Len(S) \in Nat
      /\ \A i \in 1..Len(S) : SpecPad(S, 8)[i] = S[i]
  <2> DEFINE p == Len(SpecPad(S, 8))
             l == Len(S)
             g == Gap(l, 8)
  <2>1. SpecPad(S, 8) \in Bytes /\ p = l + g /\ g \in Nat /\ l \in Nat
        /\ \A i \in 1..l : SpecPad(S, 8)[i] = S[i]
    BY Zenon, PadIs
  <2> HIDE DEF p, l, g
  <2>2. p >= l
    BY <2>1
  <2> QED BY Zenon, <2>1, <2>2 DEF p, l
<1> DEFINE P == SpecPad(S, 8)
           T == P \o FieldStart(f)
           fv == [type |-> f.type, val |-> f.val]
<1>3. /\ T \in Bytes /\ Len(T) = Len(P) + 4 /\ Len(P) \in Nat
      /\ \A i \in 1..Len(P) : T[i] = P[i]
  <2> DEFINE c == FieldStart(f)
  <2>1. P \in Bytes /\ c \in Bytes /\ Len(c) = 4
    BY <1>1, <1>2
  <2> HIDE DEF P, c
  <2>2. /\ P \o c \in Bytes /\ Len(P \o c) = Len(P) + Len(c) /\ Len(P) \in Nat
        /\ \A i \in 1..Len(P) : (P \o c)[i] = P[i]
    BY Zenon, <2>1, ConcatIs
  <2> QED BY <2>1, <2>2 DEF c
<1>4. IsValue(fv)
  <2>1. fv.type = f.type /\ fv.val = f.val
    OBVIOUS
  <2> HIDE DEF fv
  <2> QED BY <2>1 DEF IsField, IsValue
<1>5. SpecField(S, f) = SpecValue(T, fv)
  BY DEF SpecField, FieldStart
<1> HIDE DEF P, T, fv
<1>6. /\ SpecValue(T, fv) \in Bytes /\ Len(SpecValue(T, fv)) >= Len(T)
      /\ Len(T) \in Nat /\ Len(SpecValue(T, fv)) \in Nat
      /\ \A i \in 1..Len(T) : SpecValue(T, fv)[i] = T[i]
  BY <1>3, <1>4, ValueIs
<1>7. ASSUME NEW i \in 1..Len(S) PROVE SpecField(S, f)[i] = S[i]
  <2>1. i \in 1..Len(P) /\ i \in 1..Len(T)
    BY <1>2, <1>3 DEF P
  <2> QED BY <1>2, <1>3, <1>5, <1>6, <2>1 DEF P
<1>8. Len(SpecField(S, f)) >= Len(P) + 4 /\ Len(P) >= Len(S)
  BY <1>2, <1>3, <1>5, <1>6 DEF P
<1>9. /\ P \o FieldStart(f) = T
      /\ SpecField(S, f) = SpecValue(T, [type |-> f.type, val |-> f.val])
  BY <1>5 DEF T, fv
<1> QED BY <1>1, <1>2, <1>3, <1>5, <1>6, <1>7, <1>8, <1>9 DEF P

\* What holds at first and is kept by each round holds after every round.
LEMMA EveryRound ==
    ASSUME NEW N \in Nat, NEW G \in SUBSET (0..N), 0 \in G, \A n \in 1..N : n - 1 \in G => n \in G
    PROVE  G = 0..N
<1> DEFINE B == (0..N) \ G
<1>1. B \in SUBSET (0..N) /\ 0 \notin B /\ \A n \in 1..N : n \in B => n - 1 \notin (0..N) \ B
  OBVIOUS
<1>2. CASE B = {}
  BY <1>2
<1>3. CASE B # {}
  <2> HIDE DEF B
  <2>1. PICK n \in 1..N : n \in B /\ n - 1 \in (0..N) \ B
    BY <1>1, <1>3, FirstFailure
  <2> QED BY <1>1, <2>1
<1> QED BY <1>2, <1>3

(***************************************************************************)
(* The body.                                                               *)
(***************************************************************************)

\* The arguments the command line passes.
IsArg(a) == IsValue(a) /\ a.type \in {Type.s, Type.d, Type.u}
IsArgs(args, N) == N = Len(args) /\ \A i \in 1..N : IsArg(args[i])
IsValues(args, N) == N = Len(args) /\ \A i \in 1..N : IsValue(args[i])

BodyRound(args, w, n) == IF n = 0 THEN Empty ELSE AddArg(w[n - 1], args[n])
ValueRound(args, b, n) == IF n = 0 THEN <<>> ELSE SpecValue(b[n - 1], args[n])

\* The writer begins with nothing.
LEMMA EmptyIs == Empty \in Writer /\ <<>> \in Bytes /\ Wrote(Empty, <<>>)
<1>1. <<>> \in Bytes /\ Len(<<>>) = 0
  BY DEF Bytes
<1> QED BY <1>1 DEF Empty, Writer, Wrote

\* The rounds of body_add_arg.
LEMMA BodyRounds ==
    ASSUME NEW N \in Nat, NEW args, IsArgs(args, N)
    PROVE  /\ BodyLoop(args)[0] = Empty
           /\ \A n \in 1..N : BodyLoop(args)[n] = AddArg(BodyLoop(args)[n - 1], args[n])
<1> DEFINE L == BodyLoop(args)
           step == [n \in 1..N |-> [x \in Writer |-> AddArg(x, args[n])]]
<1>1. L = CHOOSE f : f = [n \in 0..N |-> BodyRound(args, f, n)]
  BY Zenon DEF BodyLoop, BodyRound, IsArgs
<1>2. step \in [1..N -> [Writer -> Writer]]
  <2>1. ASSUME NEW n \in 1..N, NEW x \in Writer PROVE AddArg(x, args[n]) \in Writer
    BY ArgStays DEF IsArg, IsArgs
  <2> QED BY <2>1
<1>3. PICK f \in [0..N -> Writer] : \A n \in 0..N : f[n] = Round(Empty, step, f, n)
  <2> HIDE DEF step
  <2>1. Empty \in Writer
    BY EmptyIs
  <2> QED BY <1>2, <2>1, Iterated
<1>4. ASSUME NEW n \in 0..N PROVE f[n] = BodyRound(args, f, n)
  <2>1. n # 0 => n \in 1..N /\ n - 1 \in 0..N /\ f[n - 1] \in Writer
    OBVIOUS
  <2>2. n # 0 => step[n][f[n - 1]] = AddArg(f[n - 1], args[n])
    BY <2>1
  <2> HIDE DEF step
  <2> QED BY <1>3, <2>2 DEF Round, BodyRound
<1>5. f = [n \in 0..N |-> BodyRound(args, f, n)]
  BY <1>4
<1>6. L = [n \in 0..N |-> BodyRound(args, L, n)]
  <2> HIDE DEF L
  <2> QED BY <1>1, <1>5, Zenon
<1> HIDE DEF L
<1>7. \A n \in 0..N : L[n] = BodyRound(args, L, n)
  BY <1>6, Zenon
<1>8. L[0] = Empty
  <2>1. 0 \in 0..N
    OBVIOUS
  <2> QED BY <1>7, <2>1, Zenon DEF BodyRound
<1>9. ASSUME NEW n \in 1..N PROVE L[n] = AddArg(L[n - 1], args[n])
  <2>1. n \in 0..N /\ n # 0
    OBVIOUS
  <2> QED BY <1>7, <2>1, Zenon DEF BodyRound
<1> QED BY <1>8, <1>9, Zenon DEF L

\* The rounds of the D-Bus specification of a body.
LEMMA ValueRounds ==
    ASSUME NEW N \in Nat, NEW args, IsValues(args, N)
    PROVE  /\ SpecValues(args)[0] = <<>>
           /\ \A n \in 1..N : SpecValues(args)[n] = SpecValue(SpecValues(args)[n - 1], args[n])
<1> DEFINE L == SpecValues(args)
           step == [n \in 1..N |-> [x \in Bytes |-> SpecValue(x, args[n])]]
<1>1. L = CHOOSE f : f = [n \in 0..N |-> ValueRound(args, f, n)]
  BY Zenon DEF SpecValues, ValueRound, IsValues
<1>2. step \in [1..N -> [Bytes -> Bytes]]
  <2>1. ASSUME NEW n \in 1..N, NEW x \in Bytes PROVE SpecValue(x, args[n]) \in Bytes
    BY ValueIs DEF IsValues
  <2> QED BY <2>1
<1>3. PICK f \in [0..N -> Bytes] : \A n \in 0..N : f[n] = Round(<<>>, step, f, n)
  <2> DEFINE none == <<>>
  <2>1. none \in Bytes
    BY EmptyIs
  <2> HIDE DEF step, none
  <2>2. \E f \in [0..N -> Bytes] : \A n \in 0..N : f[n] = Round(none, step, f, n)
    BY <1>2, <2>1, Iterated
  <2> QED BY <2>2 DEF none
<1>4. ASSUME NEW n \in 0..N PROVE f[n] = ValueRound(args, f, n)
  <2>1. n # 0 => n \in 1..N /\ n - 1 \in 0..N /\ f[n - 1] \in Bytes
    OBVIOUS
  <2>2. n # 0 => step[n][f[n - 1]] = SpecValue(f[n - 1], args[n])
    BY <2>1
  <2> HIDE DEF step
  <2> QED BY <1>3, <2>2 DEF Round, ValueRound
<1>5. f = [n \in 0..N |-> ValueRound(args, f, n)]
  BY <1>4
<1>6. L = [n \in 0..N |-> ValueRound(args, L, n)]
  <2> HIDE DEF L
  <2> QED BY <1>1, <1>5, Zenon
<1> HIDE DEF L
<1>7. \A n \in 0..N : L[n] = ValueRound(args, L, n)
  BY <1>6, Zenon
<1>8. L[0] = <<>>
  <2>1. 0 \in 0..N
    OBVIOUS
  <2> QED BY <1>7, <2>1, Zenon DEF ValueRound
<1>9. ASSUME NEW n \in 1..N PROVE L[n] = SpecValue(L[n - 1], args[n])
  <2>1. n \in 0..N /\ n # 0
    OBVIOUS
  <2> QED BY <1>7, <2>1, Zenon DEF ValueRound
<1> QED BY <1>8, <1>9, Zenon DEF L

\* After every argument the body is what the specification asks for.
LEMMA BodyWritten ==
    ASSUME NEW N \in Nat, NEW args, IsArgs(args, N)
    PROVE  Wrote(BodyLoop(args)[N], SpecValues(args)[N])
<1> DEFINE G == {n \in 0..N : Wrote(BodyLoop(args)[n], SpecValues(args)[n])}
<1>1. G \in SUBSET (0..N)
  OBVIOUS
<1>v. IsValues(args, N) /\ \A i \in 1..N : IsArg(args[i])
  BY DEF IsValues, IsArgs, IsArg
<1>a. /\ BodyLoop(args)[0] = Empty
      /\ \A n \in 1..N : BodyLoop(args)[n] = AddArg(BodyLoop(args)[n - 1], args[n])
  BY BodyRounds
<1>b. /\ SpecValues(args)[0] = <<>>
      /\ \A n \in 1..N : SpecValues(args)[n] = SpecValue(SpecValues(args)[n - 1], args[n])
  BY <1>v, ValueRounds
<1>2. 0 \in G
  BY <1>a, <1>b, EmptyIs
<1>3. ASSUME NEW n \in 1..N, n - 1 \in G PROVE n \in G
  <2>1. /\ BodyLoop(args)[n] = AddArg(BodyLoop(args)[n - 1], args[n])
        /\ SpecValues(args)[n] = SpecValue(SpecValues(args)[n - 1], args[n])
    BY <1>a, <1>b
  <2>2. Wrote(BodyLoop(args)[n - 1], SpecValues(args)[n - 1])
    BY <1>3
  <2>3. Wrote(AddArg(BodyLoop(args)[n - 1], args[n]), SpecValue(SpecValues(args)[n - 1], args[n]))
    BY <1>v, <2>2, ArgWritten DEF IsArg
  <2> QED BY <2>1, <2>3
<1> HIDE DEF G
<1>4. G = 0..N
  BY <1>1, <1>2, <1>3, EveryRound
<1>5. N \in G
  BY <1>4
<1> QED BY <1>5 DEF G

(***************************************************************************)
(* The header.                                                             *)
(***************************************************************************)

IsFields(fields, N) == N = Len(fields) /\ \A i \in 1..N : IsField(fields[i])
\* A call has no numbers in its header.
IsCallFields(fields, N) == IsFields(fields, N) /\ \A i \in 1..N : fields[i].type # Type.u

HdrRound(fixed, fields, w, n) == IF n = 0 THEN fixed ELSE HdrField(w[n - 1], fields[n])
FieldRound(fixed, fields, b, n) == IF n = 0 THEN fixed ELSE SpecField(b[n - 1], fields[n])

\* The rounds of hdr_field.
LEMMA HdrRounds ==
    ASSUME NEW N \in Nat, NEW fields, IsCallFields(fields, N), NEW fixed \in Writer
    PROVE  /\ HdrLoop(fixed, fields)[0] = fixed
           /\ \A n \in 1..N : HdrLoop(fixed, fields)[n] = HdrField(HdrLoop(fixed, fields)[n - 1], fields[n])
<1> DEFINE L == HdrLoop(fixed, fields)
           step == [n \in 1..N |-> [x \in Writer |-> HdrField(x, fields[n])]]
<1>1. L = CHOOSE f : f = [n \in 0..N |-> HdrRound(fixed, fields, f, n)]
  BY Zenon DEF HdrLoop, HdrRound, IsCallFields, IsFields
<1>2. step \in [1..N -> [Writer -> Writer]]
  <2>1. ASSUME NEW n \in 1..N, NEW x \in Writer PROVE HdrField(x, fields[n]) \in Writer
    BY FieldStays DEF IsField, IsFields, IsCallFields
  <2> QED BY <2>1
<1>3. PICK f \in [0..N -> Writer] : \A n \in 0..N : f[n] = Round(fixed, step, f, n)
  <2> HIDE DEF step
  <2> QED BY <1>2, Iterated
<1>4. ASSUME NEW n \in 0..N PROVE f[n] = HdrRound(fixed, fields, f, n)
  <2>1. n # 0 => n \in 1..N /\ n - 1 \in 0..N /\ f[n - 1] \in Writer
    OBVIOUS
  <2>2. n # 0 => step[n][f[n - 1]] = HdrField(f[n - 1], fields[n])
    BY <2>1
  <2> HIDE DEF step
  <2> QED BY <1>3, <2>2 DEF Round, HdrRound
<1>5. f = [n \in 0..N |-> HdrRound(fixed, fields, f, n)]
  BY <1>4
<1>6. L = [n \in 0..N |-> HdrRound(fixed, fields, L, n)]
  <2> HIDE DEF L
  <2> QED BY <1>1, <1>5, Zenon
<1> HIDE DEF L
<1>7. \A n \in 0..N : L[n] = HdrRound(fixed, fields, L, n)
  BY <1>6, Zenon
<1>8. L[0] = fixed
  <2>1. 0 \in 0..N
    OBVIOUS
  <2> QED BY <1>7, <2>1, Zenon DEF HdrRound
<1>9. ASSUME NEW n \in 1..N PROVE L[n] = HdrField(L[n - 1], fields[n])
  <2>1. n \in 0..N /\ n # 0
    OBVIOUS
  <2> QED BY <1>7, <2>1, Zenon DEF HdrRound
<1> QED BY <1>8, <1>9, Zenon DEF L

\* The rounds of the D-Bus specification of a header.
LEMMA FieldRounds ==
    ASSUME NEW N \in Nat, NEW fields, IsFields(fields, N), NEW fixed \in Bytes
    PROVE  /\ SpecFields(fixed, fields)[0] = fixed
           /\ \A n \in 1..N : SpecFields(fixed, fields)[n] = SpecField(SpecFields(fixed, fields)[n - 1], fields[n])
<1> DEFINE L == SpecFields(fixed, fields)
           step == [n \in 1..N |-> [x \in Bytes |-> SpecField(x, fields[n])]]
<1>1. L = CHOOSE f : f = [n \in 0..N |-> FieldRound(fixed, fields, f, n)]
  BY Zenon DEF SpecFields, FieldRound, IsFields
<1>2. step \in [1..N -> [Bytes -> Bytes]]
  <2>1. ASSUME NEW n \in 1..N, NEW x \in Bytes PROVE SpecField(x, fields[n]) \in Bytes
    BY FieldIs DEF IsFields
  <2> QED BY <2>1
<1>3. PICK f \in [0..N -> Bytes] : \A n \in 0..N : f[n] = Round(fixed, step, f, n)
  <2> HIDE DEF step
  <2> QED BY <1>2, Iterated
<1>4. ASSUME NEW n \in 0..N PROVE f[n] = FieldRound(fixed, fields, f, n)
  <2>1. n # 0 => n \in 1..N /\ n - 1 \in 0..N /\ f[n - 1] \in Bytes
    OBVIOUS
  <2>2. n # 0 => step[n][f[n - 1]] = SpecField(f[n - 1], fields[n])
    BY <2>1
  <2> HIDE DEF step
  <2> QED BY <1>3, <2>2 DEF Round, FieldRound
<1>5. f = [n \in 0..N |-> FieldRound(fixed, fields, f, n)]
  BY <1>4
<1>6. L = [n \in 0..N |-> FieldRound(fixed, fields, L, n)]
  <2> HIDE DEF L
  <2> QED BY <1>1, <1>5, Zenon
<1> HIDE DEF L
<1>7. \A n \in 0..N : L[n] = FieldRound(fixed, fields, L, n)
  BY <1>6, Zenon
<1>8. L[0] = fixed
  <2>1. 0 \in 0..N
    OBVIOUS
  <2> QED BY <1>7, <2>1, Zenon DEF FieldRound
<1>9. ASSUME NEW n \in 1..N PROVE L[n] = SpecField(L[n - 1], fields[n])
  <2>1. n \in 0..N /\ n # 0
    OBVIOUS
  <2> QED BY <1>7, <2>1, Zenon DEF FieldRound
<1> QED BY <1>8, <1>9, Zenon DEF L

\* A header is written as the specification says, but for the padding after it.
LEMMA HdrWritten ==
    ASSUME NEW N \in Nat, NEW fields, IsCallFields(fields, N), NEW S \in Bytes
    PROVE  LET fixed == [out |-> S, nodepad |-> Len(S)]
           IN  Wrote(HdrLoop(fixed, fields)[N], SpecFields(S, fields)[N])
<1> DEFINE fixed == [out |-> S, nodepad |-> Len(S)]
           G == {n \in 0..N : Wrote(HdrLoop(fixed, fields)[n], SpecFields(S, fields)[n])}
<1>1. G \in SUBSET (0..N)
  OBVIOUS
<1>2. Wrote(fixed, S) /\ fixed \in Writer
  BY PutAsIs DEF Wrote
<1> HIDE DEF fixed
<1>v. IsFields(fields, N) /\ \A i \in 1..N : IsField(fields[i]) /\ fields[i].type # Type.u
  BY DEF IsFields, IsCallFields
<1>a. /\ HdrLoop(fixed, fields)[0] = fixed
      /\ \A n \in 1..N : HdrLoop(fixed, fields)[n] = HdrField(HdrLoop(fixed, fields)[n - 1], fields[n])
  BY <1>2, HdrRounds
<1>b. /\ SpecFields(S, fields)[0] = S
      /\ \A n \in 1..N : SpecFields(S, fields)[n] = SpecField(SpecFields(S, fields)[n - 1], fields[n])
  BY <1>v, FieldRounds
<1>3. 0 \in G
  <2>1. HdrLoop(fixed, fields)[0] = fixed /\ SpecFields(S, fields)[0] = S
    BY <1>a, <1>b
  <2> QED BY <1>2, <2>1
<1>4. ASSUME NEW n \in 1..N, n - 1 \in G PROVE n \in G
  <2>1. /\ HdrLoop(fixed, fields)[n] = HdrField(HdrLoop(fixed, fields)[n - 1], fields[n])
        /\ SpecFields(S, fields)[n] = SpecField(SpecFields(S, fields)[n - 1], fields[n])
    BY Zenon, <1>a, <1>b
  <2>2. Wrote(HdrLoop(fixed, fields)[n - 1], SpecFields(S, fields)[n - 1])
    BY <1>4
  <2>3. /\ IsValue(fields[n]) /\ fields[n].code \in Byte
        /\ fields[n].type \in {Type.s, Type.o, Type.g}
    BY <1>v DEF IsField
  <2>4. Wrote(HdrField(HdrLoop(fixed, fields)[n - 1], fields[n]), SpecField(SpecFields(S, fields)[n - 1], fields[n]))
    BY <2>2, <2>3, FieldWritten
  <2> QED BY <2>1, <2>4
<1> HIDE DEF G
<1>5. G = 0..N
  BY <1>1, <1>3, <1>4, EveryRound
<1>6. N \in G
  BY <1>5
<1> QED BY <1>6 DEF G, fixed

\* Bytes have a length, and each is a byte.
LEMMA ByteAt ==
    ASSUME NEW s \in Bytes
    PROVE  Len(s) \in Nat /\ \A i \in 1..Len(s) : s[i] \in Byte
<1>1. s \in Seq(Byte)
  BY DEF Bytes
<1> QED BY <1>1, LenProperties, ElementOfSeq

\* Bytes are told apart by their length and their elements.
LEMMA SameBytes ==
    ASSUME NEW s \in Bytes, NEW t \in Bytes, Len(s) = Len(t), \A i \in 1..Len(s) : s[i] = t[i]
    PROVE  s = t
<1>1. s \in Seq(Byte) /\ t \in Seq(Byte)
  BY DEF Bytes
<1> QED BY <1>1, SeqEqual

\* What stands in a message is cut out of it.
LEMMA SliceIs ==
    ASSUME NEW m, NEW at \in Nat, NEW c \in Bytes, Stands(m, at, c)
    PROVE  SubSeq(m, at + 1, at + Len(c)) = c
<1> DEFINE n == Len(c)
           t == SubSeq(m, at + 1, at + n)
<1>1. n \in Nat /\ \A i \in 1..n : c[i] \in Byte
  BY ByteAt
<1>2. \A i \in 1..n : m[at + i] = c[i]
  BY DEF Stands
<1> HIDE DEF n
<1>3. ASSUME NEW i \in (at + 1)..(at + n) PROVE m[i] \in Byte
  <2>1. i - at \in 1..n /\ at + (i - at) = i
    BY <1>1
  <2> QED BY <1>1, <1>2, <2>1
<1>4. at + 1 \in Int /\ at + n \in Int
  BY <1>1
<1>5. t \in Bytes /\ Len(t) = n /\ \A i \in 1..n : t[i] = m[at + i]
  <2> DEFINE lo == at + 1
             hi == at + n
  <2>1. lo \in Int /\ hi \in Int /\ \A i \in lo..hi : m[i] \in Byte
    BY <1>3, <1>4
  <2>2. hi - lo + 1 = n /\ (~(lo <= hi) => n = 0) /\ \A i \in 1..n : lo + i - 1 = at + i
    BY <1>1
  <2>3. t = SubSeq(m, lo, hi)
    BY Zenon DEF t, lo, hi
  <2> HIDE DEF lo, hi, t
  <2>4. t \in Seq(Byte)
    BY <2>1, <2>3, SubSeqProperties
  <2>5. Len(t) = IF lo <= hi THEN hi - lo + 1 ELSE 0
    <3>1. Len(SubSeq(m, lo, hi)) = IF lo <= hi THEN hi - lo + 1 ELSE 0
      BY <2>1, SubSeqProperties
    <3> QED BY <2>3, <3>1, Zenon
  <2>6. \A i \in 1..n : t[i] = m[lo + i - 1]
    <3>1. \A i \in 1..(hi - lo + 1) : SubSeq(m, lo, hi)[i] = m[lo + i - 1]
      BY <2>1, SubSeqProperties
    <3> QED BY <2>2, <2>3, <3>1, Zenon
  <2>7. Len(t) = n
    <3> DEFINE k == Len(t)
    <3>1. k = IF lo <= hi THEN hi - lo + 1 ELSE 0
      BY <2>5
    <3> HIDE DEF k
    <3>2. k = n
      BY <2>2, <3>1
    <3> QED BY <3>2 DEF k
  <2>8. \A i \in 1..n : t[i] = m[at + i]
    BY <2>2, <2>6, Zenon
  <2> QED BY <2>4, <2>7, <2>8 DEF Bytes
<1> HIDE DEF t
<1>6. \A i \in 1..n : t[i] = c[i]
  BY <1>2, <1>5
<1>7. t = c
  BY Zenon, <1>5, <1>6, SameBytes DEF n
<1> QED BY <1>7 DEF t, n

(***************************************************************************)
(* Numbers put over bytes.                                                 *)
(***************************************************************************)

\* A number put over four bytes leaves the others.
LEMMA PatchIs ==
    ASSUME NEW H \in Bytes, Len(H) >= 16, NEW v \in Nat
    PROVE  /\ WithU32(H, 12, v) \in Bytes /\ Len(WithU32(H, 12, v)) = Len(H)
           /\ \A i \in 1..Len(H) :
                 WithU32(H, 12, v)[i] = IF i \in 13..16 THEN U32(v)[i - 12] ELSE H[i]
<1> DEFINE n == Len(H)
           W == WithU32(H, 12, v)
<1>1. n \in Nat /\ DOMAIN H = 1..n /\ \A i \in 1..n : H[i] \in Byte
  BY ByteAt, LenProperties DEF Bytes
<1>2. ASSUME NEW i \in 13..16 PROVE U32(v)[i - 12] \in Byte
  <2>1. U32(v) \in Bytes /\ Len(U32(v)) = 4
    BY NumberIs
  <2>2. i - 12 \in 1..4
    OBVIOUS
  <2> QED BY <2>1, <2>2, ByteAt
<1>3. W = [i \in 1..n |-> IF i \in 13..16 THEN U32(v)[i - 12] ELSE H[i]]
  <2>1. 12 + 1 = 13 /\ 12 + 4 = 16
    OBVIOUS
  <2> HIDE DEF n
  <2> QED BY <1>1, <2>1 DEF WithU32
<1> HIDE DEF n, W
<1>4. \A i \in 1..n : W[i] \in Byte
  BY <1>1, <1>2, <1>3
<1>5. W \in [1..n -> Byte]
  BY <1>3, <1>4
<1>6. W \in Seq(Byte) /\ DOMAIN W = 1..n
  BY <1>1, <1>5
<1>7. Len(W) = n
  <2>1. Len(W) \in Nat /\ DOMAIN W = 1..Len(W)
    BY <1>6, LenProperties
  <2> DEFINE k == Len(W)
  <2> HIDE DEF k
  <2>2. k \in Nat /\ 1..k = 1..n
    BY <1>6, <2>1 DEF k
  <2>3. k = n
    BY <1>1, <2>2
  <2> QED BY <2>3 DEF k
<1>8. \A i \in 1..n : W[i] = IF i \in 13..16 THEN U32(v)[i - 12] ELSE H[i]
  BY <1>3
<1> QED BY <1>6, <1>7, <1>8 DEF n, W, Bytes

\* The number may be put in before the padding or after it.
LEMMA PatchPad ==
    ASSUME NEW H \in Bytes, Len(H) >= 16, NEW v \in Nat, NEW a \in {4, 8}
    PROVE  WithU32(SpecPad(H, a), 12, v) = SpecPad(WithU32(H, 12, v), a)
<1> DEFINE n == Len(H)
           g == Gap(n, a)
           P == SpecPad(H, a)
           W == WithU32(H, 12, v)
           X == WithU32(P, 12, v)
           Y == SpecPad(W, a)
           N(i) == IF i \in 13..16 THEN U32(v)[i - 12] ELSE H[i]
<1>1. n \in Nat /\ n >= 16 /\ g \in Nat /\ P \in Bytes /\ Len(P) = n + g
  BY PadIs
<1>2. P = H \o Fill(g) /\ Fill(g) \in Bytes /\ Len(Fill(g)) = g /\ \A i \in 1..g : Fill(g)[i] = 0
  <2> HIDE DEF g
  <2> QED BY <1>1, FillIs DEF SpecPad, g
<1>3. W \in Bytes /\ Len(W) = n /\ \A i \in 1..n : W[i] = N(i)
  BY <1>1, PatchIs
<1> HIDE DEF g
<1>4. Y = W \o Fill(g)
  BY <1>3 DEF SpecPad, g
<1>5. /\ \A i \in 1..n : P[i] = H[i]
      /\ \A i \in 1..g : P[n + i] = 0
  <2> HIDE DEF P
  <2>1. /\ \A i \in 1..Len(H) : (H \o Fill(g))[i] = H[i]
        /\ \A i \in 1..Len(Fill(g)) : (H \o Fill(g))[Len(H) + i] = Fill(g)[i]
    BY Zenon, <1>2, ConcatIs
  <2> QED BY Zenon, <1>2, <2>1
<1> HIDE DEF P, W
<1>6. X \in Bytes /\ Len(X) = n + g /\ \A i \in 1..(n + g) : X[i] = IF i \in 13..16 THEN U32(v)[i - 12] ELSE P[i]
  <2>1. P \in Bytes /\ Len(P) = n + g /\ Len(P) >= 16
    BY <1>1
  <2>2. /\ X \in Bytes /\ Len(X) = Len(P)
        /\ \A i \in 1..Len(P) : X[i] = IF i \in 13..16 THEN U32(v)[i - 12] ELSE P[i]
    BY Zenon, <2>1, PatchIs
  <2> HIDE DEF X, n
  <2> QED BY <2>1, <2>2
<1>7. /\ Y \in Bytes /\ Len(Y) = n + g
      /\ \A i \in 1..n : Y[i] = W[i]
      /\ \A i \in 1..g : Y[n + i] = Fill(g)[i]
  <2> HIDE DEF Y
  <2>1. /\ W \o Fill(g) \in Bytes /\ Len(W \o Fill(g)) = Len(W) + Len(Fill(g))
        /\ \A i \in 1..Len(W) : (W \o Fill(g))[i] = W[i]
        /\ \A i \in 1..Len(Fill(g)) : (W \o Fill(g))[Len(W) + i] = Fill(g)[i]
    BY <1>2, <1>3, ConcatIs
  <2> QED BY <1>2, <1>3, <1>4, <2>1
<1> HIDE DEF X, Y, n
<1>8. ASSUME NEW i \in 1..(n + g) PROVE X[i] = Y[i]
  <2>1. CASE i <= n
    <3>1. i \in 1..n
      BY <1>1, <2>1
    <3> QED BY <1>3, <1>5, <1>6, <1>7, <3>1
  <2>2. CASE i > n
    <3>1. i - n \in 1..g /\ n + (i - n) = i /\ i \notin 13..16
      BY <1>1, <2>2
    <3>2. P[n + (i - n)] = 0 /\ Y[n + (i - n)] = 0
      BY <1>2, <1>5, <1>7, <3>1
    <3> QED BY <1>6, <3>1, <3>2
  <2> QED BY <1>1, <2>1, <2>2
<1>9. X = Y
  BY Zenon, <1>6, <1>7, <1>8, SameBytes
<1> QED BY <1>9 DEF X, Y, P, W

(***************************************************************************)
(* The bytes of a header grow.                                             *)
(***************************************************************************)

Prefix(p, q) == p \in Bytes /\ q \in Bytes /\ Len(p) <= Len(q) /\ \A i \in 1..Len(p) : q[i] = p[i]

\* A header is bytes after each of its fields.
LEMMA FieldsAreBytes ==
    ASSUME NEW N \in Nat, NEW fields, IsFields(fields, N), NEW S \in Bytes
    PROVE  \A n \in 0..N : SpecFields(S, fields)[n] \in Bytes
<1> DEFINE F == SpecFields(S, fields)
           G == {n \in 0..N : F[n] \in Bytes}
<1>1. /\ F[0] = S
      /\ \A n \in 1..N : F[n] = SpecField(F[n - 1], fields[n])
  BY FieldRounds
<1>2. \A i \in 1..N : IsField(fields[i])
  BY DEF IsFields
<1> HIDE DEF F
<1>3. G \in SUBSET (0..N) /\ 0 \in G
  BY <1>1
<1>4. ASSUME NEW n \in 1..N, n - 1 \in G PROVE n \in G
  <2>1. F[n - 1] \in Bytes /\ IsField(fields[n])
    BY <1>2, <1>4
  <2>2. SpecField(F[n - 1], fields[n]) \in Bytes
    BY <2>1, FieldIs
  <2> QED BY <1>1, <2>2
<1>5. G = 0..N
  <2> HIDE DEF G
  <2> QED BY <1>3, <1>4, EveryRound
<1> QED BY <1>5 DEF F

\* A sequence of bytes that is lengthened round by round still begins as it did.
LEMMA Grows ==
    ASSUME NEW N \in Nat, NEW F, \A n \in 0..N : F[n] \in Bytes,
           \A n \in 1..N : Prefix(F[n - 1], F[n]), NEW k \in 0..N
    PROVE  \A n \in k..N : Prefix(F[k], F[n])
<1> DEFINE G == {n \in 0..N : n >= k => Prefix(F[k], F[n])}
<1>1. Prefix(F[k], F[k])
  <2>1. F[k] \in Bytes
    OBVIOUS
  <2>2. Len(F[k]) \in Nat
    BY <2>1, ByteAt
  <2> QED BY <2>1, <2>2 DEF Prefix
<1>2. G \in SUBSET (0..N) /\ 0 \in G
  <2>1. 0 >= k => k = 0
    OBVIOUS
  <2> QED BY <1>1, <2>1
<1>3. ASSUME NEW n \in 1..N, n - 1 \in G PROVE n \in G
  <2>1. CASE n = k
    BY <1>1, <2>1
  <2>2. CASE n > k
    <3>1. n - 1 >= k
      BY <2>2
    <3>2. Prefix(F[k], F[n - 1]) /\ Prefix(F[n - 1], F[n])
      BY <1>3, <3>1
    <3> DEFINE p == F[k]
               q == F[n - 1]
               r == F[n]
    <3>3. /\ p \in Bytes /\ q \in Bytes /\ r \in Bytes
          /\ Len(p) \in Nat /\ Len(q) \in Nat /\ Len(r) \in Nat
          /\ Len(p) <= Len(q) /\ \A i \in 1..Len(p) : q[i] = p[i]
          /\ Len(q) <= Len(r) /\ \A i \in 1..Len(q) : r[i] = q[i]
      BY <3>2, ByteAt DEF Prefix
    <3> HIDE DEF p, q, r
    <3>4. Prefix(p, r)
      <4>1. Len(p) <= Len(r)
        BY <3>3
      <4>2. ASSUME NEW i \in 1..Len(p) PROVE r[i] = p[i]
        <5>1. i \in 1..Len(q)
          BY <3>3
        <5> QED BY <3>3, <5>1
      <4> QED BY <3>3, <4>1, <4>2 DEF Prefix
    <3> QED BY <3>4 DEF p, r
  <2>3. CASE n < k
    BY <2>3
  <2> QED BY <2>1, <2>2, <2>3
<1>4. G = 0..N
  <2> HIDE DEF G
  <2> QED BY <1>2, <1>3, EveryRound
<1> QED BY <1>4

\* A header begins with what it was after fewer fields.
LEMMA FieldsGrow ==
    ASSUME NEW N \in Nat, NEW fields, IsFields(fields, N), NEW S \in Bytes, NEW k \in 0..N
    PROVE  \A n \in k..N : Prefix(SpecFields(S, fields)[k], SpecFields(S, fields)[n])
<1> DEFINE F == SpecFields(S, fields)
<1>1. \A n \in 1..N : F[n] = SpecField(F[n - 1], fields[n])
  BY FieldRounds
<1>2. \A i \in 1..N : IsField(fields[i])
  BY DEF IsFields
<1>3. \A n \in 0..N : F[n] \in Bytes
  BY FieldsAreBytes
<1> HIDE DEF F
<1>4. ASSUME NEW n \in 1..N PROVE Prefix(F[n - 1], F[n])
  <2> DEFINE q == F[n - 1]
             r == F[n]
             f == fields[n]
  <2>1. q \in Bytes /\ IsField(f) /\ r = SpecField(q, f)
    BY <1>1, <1>2, <1>3
  <2> HIDE DEF q, r, f
  <2>2. /\ SpecField(q, f) \in Bytes /\ Len(q) \in Nat /\ Len(SpecField(q, f)) \in Nat
        /\ Len(SpecField(q, f)) >= Len(SpecPad(q, 8)) + 4 /\ Len(SpecPad(q, 8)) >= Len(q)
        /\ \A i \in 1..Len(q) : SpecField(q, f)[i] = q[i]
    BY Zenon, <2>1, FieldIs
  <2>3. Len(SpecPad(q, 8)) \in Nat
    BY <2>1, PadIs, ByteAt
  <2>4. Len(q) <= Len(r)
    BY <2>1, <2>2, <2>3
  <2>5. Prefix(q, r)
    BY <2>1, <2>2, <2>4 DEF Prefix
  <2> QED BY Zenon, <2>5 DEF q, r
<1>5. \A n \in k..N : Prefix(F[k], F[n])
  BY <1>3, <1>4, Grows
<1> QED BY <1>5 DEF F

\* The sixteen bytes a header begins with, and the fields' length still to come.
FixedBytes(type, len, serial) == <<108, type, 0, 1>> \o U32(len) \o U32(serial) \o U32(0)

\* Where the numbers of a header stand.
LEMMA FixedIs ==
    ASSUME NEW type \in Byte, NEW len \in Nat, NEW serial \in Nat
    PROVE  LET X == FixedBytes(type, len, serial)
           IN  /\ X \in Bytes /\ Len(X) = 16 /\ X[1] = 108 /\ X[2] = type
               /\ Stands(X, 4, U32(len))
<1> DEFINE p == <<108, type, 0, 1>>
           a == U32(len)
           b == U32(serial)
           c == U32(0)
           X == ((p \o a) \o b) \o c
<1>1. X = FixedBytes(type, len, serial)
  BY Zenon DEF FixedBytes
<1>2. p \in Bytes /\ Len(p) = 4 /\ p[1] = 108 /\ p[2] = type
  <2>1. 108 \in Byte /\ 0 \in Byte /\ 1 \in Byte
    BY DEF Byte
  <2> QED BY <2>1 DEF Bytes
<1>3. a \in Bytes /\ Len(a) = 4 /\ b \in Bytes /\ Len(b) = 4 /\ c \in Bytes /\ Len(c) = 4
  BY NumberIs
<1> DEFINE q == p \o a
           r == q \o b
<1> HIDE DEF p, a, b, c, q, r
<1>4. /\ q \in Bytes /\ Len(q) = 4 + 4
      /\ \A i \in 1..4 : q[i] = p[i]
      /\ \A i \in 1..4 : q[4 + i] = a[i]
  <2>1. /\ q \in Bytes /\ Len(q) = Len(p) + Len(a)
        /\ \A i \in 1..Len(p) : q[i] = p[i]
        /\ \A i \in 1..Len(a) : q[Len(p) + i] = a[i]
    <3>1. p \in Bytes /\ a \in Bytes
      BY <1>2, <1>3
    <3> QED BY Zenon, <3>1, ConcatIs DEF q
  <2> QED BY <1>2, <1>3, <2>1
<1>5. q \in Bytes /\ Len(q) = 8
  BY <1>4
<1>6. /\ r \in Bytes /\ Len(r) = 8 + 4
      /\ \A i \in 1..8 : r[i] = q[i]
  <2>1. /\ r \in Bytes /\ Len(r) = Len(q) + Len(b)
        /\ \A i \in 1..Len(q) : r[i] = q[i]
        /\ \A i \in 1..Len(b) : r[Len(q) + i] = b[i]
    BY Zenon, <1>3, <1>5, ConcatIs DEF r
  <2> QED BY <1>3, <1>5, <2>1
<1>7. r \in Bytes /\ Len(r) = 12
  BY <1>6
<1>8. X = r \o c
  BY Zenon DEF X, q, r
<1> HIDE DEF X
<1>9. /\ X \in Bytes /\ Len(X) = 12 + 4
      /\ \A i \in 1..12 : X[i] = r[i]
  <2>1. /\ X \in Bytes /\ Len(X) = Len(r) + Len(c)
        /\ \A i \in 1..Len(r) : X[i] = r[i]
        /\ \A i \in 1..Len(c) : X[Len(r) + i] = c[i]
    BY Zenon, <1>3, <1>7, <1>8, ConcatIs
  <2> QED BY <1>3, <1>7, <1>8, <2>1
<1>10. X \in Bytes /\ Len(X) = 16 /\ \A i \in 1..8 : X[i] = q[i]
  BY <1>6, <1>9
<1>11. X[1] = 108 /\ X[2] = type
  BY <1>2, <1>4, <1>10
<1>12. Stands(X, 4, a)
  <2> SUFFICES ASSUME NEW i \in 1..4 PROVE X[4 + i] = a[i]
    BY <1>3 DEF Stands
  <2>1. 4 + i \in 1..8
    OBVIOUS
  <2> QED BY <1>4, <1>10, <2>1
<1> QED BY Zenon, <1>1, <1>10, <1>11, <1>12 DEF a

(***************************************************************************)
(* A call.                                                                 *)
(***************************************************************************)

\* What the command line can pass, and the calls it can make.
Argument ==
    [type : {Type.s}, val : Bytes]
    \cup [type : {Type.d}, val : {b \in Bytes : Len(b) = 8}]
    \cup [type : {Type.u}, val : [{1} -> Word]]

Call == [path : Bytes, iface : Bytes, member : Bytes, dest : Bytes, serial : Nat, args : Seq(Argument)]

\* An argument is a value that body_add_arg knows.
LEMMA ArgumentIs ==
    ASSUME NEW a \in Argument
    PROVE  IsArg(a) /\ a.type \in Byte
<1>1. CASE a \in [type : {Type.s}, val : Bytes]
  BY <1>1, TypesDiffer DEF IsArg, IsValue, Byte
<1>2. CASE a \in [type : {Type.d}, val : {b \in Bytes : Len(b) = 8}]
  BY <1>2, TypesDiffer DEF IsArg, IsValue, Byte
<1>3. CASE a \in [type : {Type.u}, val : [{1} -> Word]]
  BY <1>3, TypesDiffer DEF IsArg, IsValue, Byte
<1> QED BY <1>1, <1>2, <1>3 DEF Argument

\* The signature of a call is bytes, one for each argument.
LEMMA SignatureIs ==
    ASSUME NEW args \in Seq(Argument)
    PROVE  SignatureOf(args) \in Bytes /\ Len(SignatureOf(args)) = Len(args) /\ Len(args) \in Nat
           /\ \A i \in 1..Len(args) : IsArg(args[i])
<1> DEFINE n == Len(args)
<1>1. n \in Nat /\ DOMAIN args = 1..n /\ \A i \in 1..n : args[i] \in Argument
  BY LenProperties, ElementOfSeq
<1>2. \A i \in 1..n : IsArg(args[i]) /\ args[i].type \in Byte
  BY <1>1, ArgumentIs
<1>3. SignatureOf(args) = [i \in 1..n |-> args[i].type]
  <2> HIDE DEF n
  <2> QED BY <1>1 DEF SignatureOf
<1> HIDE DEF n
<1> DEFINE s == [i \in 1..n |-> args[i].type]
<1>4. s \in [1..n -> Byte]
  BY <1>2
<1>5. s \in Seq(Byte) /\ Len(s) = n
  BY <1>1, <1>4
<1> QED BY <1>1, <1>2, <1>3, <1>5 DEF n, Bytes

\* The fields of a call are header fields, and none is a number.
LEMMA CallFieldsAre ==
    ASSUME NEW c \in Call, Len(c.args) <= MaxSignature
    PROVE  \E K \in Nat : IsCallFields(CallFields(c), K)
<1> DEFINE f1 == [code |-> Field.path, type |-> Type.o, val |-> c.path]
           f2 == [code |-> Field.interface, type |-> Type.s, val |-> c.iface]
           f3 == [code |-> Field.member, type |-> Type.s, val |-> c.member]
           f4 == [code |-> Field.destination, type |-> Type.s, val |-> c.dest]
           f5 == [code |-> Field.signature, type |-> Type.g, val |-> SignatureOf(c.args)]
           Ok(f) == IsField(f) /\ f.type # Type.u
<1>1. Field.path \in Byte /\ Field.interface \in Byte /\ Field.member \in Byte
      /\ Field.destination \in Byte /\ Field.signature \in Byte
  BY DEF Field, Byte
<1>2. c.path \in Bytes /\ c.iface \in Bytes /\ c.member \in Bytes /\ c.dest \in Bytes
      /\ c.args \in Seq(Argument)
  BY DEF Call
<1>3. SignatureOf(c.args) \in Bytes /\ Len(SignatureOf(c.args)) <= MaxSignature
  BY <1>2, SignatureIs
<1>4. ASSUME NEW code \in Byte, NEW type \in {Type.s, Type.o}, NEW val \in Bytes
      PROVE  Ok([code |-> code, type |-> type, val |-> val])
  <2> DEFINE f == [code |-> code, type |-> type, val |-> val]
  <2>1. f.code = code /\ f.type = type /\ f.val = val /\ type # Type.u
    BY TypesDiffer
  <2> HIDE DEF f
  <2>2. Ok(f)
    BY <2>1 DEF IsField, IsValue
  <2> QED BY <2>2 DEF f
<1>5. Ok(f5)
  <2> DEFINE s == SignatureOf(c.args)
  <2>1. f5.code = Field.signature /\ f5.type = Type.g /\ f5.val = s /\ Type.g # Type.u
    BY TypesDiffer
  <2> HIDE DEF f5
  <2> QED BY <1>1, <1>3, <2>1 DEF IsField, IsValue
<1>6. Ok(f1) /\ Ok(f2) /\ Ok(f3) /\ Ok(f4)
  <2> HIDE DEF Ok
  <2> QED BY <1>1, <1>2, <1>4
<1>7. CallFields(c) = <<f1, f2, f3, f4>> \o IF c.args = <<>> THEN <<>> ELSE <<f5>>
  BY Zenon DEF CallFields
<1> HIDE DEF f1, f2, f3, f4, f5, Ok
<1>8. CASE c.args = <<>>
  <2> DEFINE l == <<f1, f2, f3, f4>>
  <2>1. CallFields(c) = l
    BY <1>7, <1>8
  <2>2. Len(l) = 4 /\ \A i \in 1..4 : Ok(l[i])
    BY <1>6
  <2> HIDE DEF l
  <2> QED BY <2>1, <2>2 DEF IsCallFields, IsFields, Ok
<1>9. CASE c.args # <<>>
  <2> DEFINE T == {f1, f2, f3, f4, f5}
             first == <<f1, f2, f3, f4>>
             last == <<f5>>
             l == first \o last
  <2>1. CallFields(c) = l
    BY Zenon, <1>7, <1>9
  <2>2. \A f \in T : Ok(f)
    BY <1>5, <1>6
  <2>3. first \in Seq(T) /\ last \in Seq(T) /\ Len(first) = 4 /\ Len(last) = 1
    OBVIOUS
  <2> HIDE DEF T, first, last
  <2>4. l \in Seq(T) /\ Len(l) = 5
    <3>1. l \in Seq(T) /\ Len(l) = Len(first) + Len(last)
      BY Zenon, <2>3, ConcatProperties
    <3> HIDE DEF l
    <3> QED BY <2>3, <3>1
  <2> HIDE DEF l
  <2>5. \A i \in 1..5 : Ok(l[i])
    BY <2>2, <2>4, ElementOfSeq
  <2> QED BY <2>1, <2>4, <2>5 DEF IsCallFields, IsFields, Ok
<1> QED BY <1>8, <1>9

\* For every call the command line can make, what build_call writes is what the
\* D-Bus specification makes of the call: each value is aligned from the start of the
\* message, the lengths in the header are right, and what is too long is not sent.
THEOREM CallsAreBuilt ==
    ASSUME NEW c \in Call
    PROVE  BuildCall(c) =
               IF Len(c.args) <= MaxSignature /\ Len(SpecCall(c)) <= MaxMessage
               THEN SpecCall(c) ELSE Unsent
<1> DEFINE A == Len(c.args)
           body == BodyLoop(c.args)[A]
           S == SpecValues(c.args)[A]
           X == FixedBytes(Message.call, Len(S), c.serial)
           fields == CallFields(c)
           K == Len(fields)
           fixed == Put(Empty, FixedBytes(Message.call, body.nodepad, c.serial))
           hdr == HdrLoop(fixed, fields)[K]
           H == SpecFields(X, fields)[K]
           patched == [hdr EXCEPT !.out = WithU32(@, 12, hdr.nodepad - 12 - 4)]
           msg == Pad(patched, 8).out \o SubSeq(body.out, 1, body.nodepad)
<1>1. BuildCall(c) = IF A > MaxSignature \/ Len(msg) > MaxMessage THEN Unsent ELSE msg
  BY Zenon DEF BuildCall, FixedBytes
<1>2. SpecCall(c) = SpecPad(WithU32(H, 12, Len(H) - 16), 8) \o S
  BY Zenon DEF SpecCall, SpecMessage, SpecHeader, FixedBytes
<1>3. c.args \in Seq(Argument) /\ c.serial \in Nat
  BY DEF Call
<1>4. A \in Nat /\ IsArgs(c.args, A)
  BY <1>3, SignatureIs DEF IsArgs
<1>5. CASE A > MaxSignature
  <2>1. ~(A <= MaxSignature)
    BY <1>4, <1>5 DEF MaxSignature
  <2> HIDE DEF A, msg
  <2> QED BY <1>1, <1>5, <2>1 DEF A
<1>6. CASE ~(A > MaxSignature)
  <2>1. A <= MaxSignature
    BY <1>4, <1>6 DEF MaxSignature
  <2>2. Wrote(body, S)
    <3> HIDE DEF A
    <3> QED BY <1>4, BodyWritten DEF A
  <2>3. body.nodepad = Len(S) /\ S \in Bytes /\ Len(S) \in Nat
    <3> HIDE DEF body, S
    <3> QED BY <2>2, ByteAt DEF Wrote
  <2>4. X \in Bytes /\ Len(X) = 16
    <3>1. Message.call \in Byte
      BY DEF Message, Byte
    <3> HIDE DEF S
    <3> QED BY <1>3, <2>3, <3>1, FixedIs
  <2>5. fixed = [out |-> X, nodepad |-> Len(X)]
    <3>1. fixed = Put(Empty, X)
      <4> HIDE DEF body, S
      <4> QED BY Zenon, <2>3
    <3>2. <<>> \o X = X
      <4> HIDE DEF X
      <4> QED BY <2>4, ConcatEmptySeq DEF Bytes
    <3> HIDE DEF X, fixed
    <3> QED BY <3>1, <3>2 DEF Put, Empty
  <2>6. K \in Nat /\ IsCallFields(fields, K)
    <3>1. PICK k \in Nat : IsCallFields(fields, k)
      BY <2>1, CallFieldsAre
    <3>2. k = K
      <4> HIDE DEF fields
      <4> QED BY <3>1 DEF IsCallFields, IsFields
    <3> QED BY Zenon, <3>1, <3>2
  <2> HIDE DEF X, fixed, fields, K, body, S, A
  <2>7. Wrote(hdr, H)
    <3>1. Wrote(HdrLoop([out |-> X, nodepad |-> Len(X)], fields)[K], SpecFields(X, fields)[K])
      BY <2>4, <2>6, HdrWritten
    <3> QED BY Zenon, <2>5, <3>1
  <2>8. H \in Bytes /\ Len(H) \in Nat /\ Len(H) >= 16
    <3>1. IsFields(fields, K)
      BY <2>6 DEF IsCallFields
    <3>2. SpecFields(X, fields)[0] = X
      BY <2>4, <2>6, <3>1, FieldRounds
    <3>3. 0 \in 0..K /\ K \in 0..K
      BY <2>6
    <3>4. Prefix(SpecFields(X, fields)[0], H)
      BY <2>4, <2>6, <3>1, <3>3, FieldsGrow
    <3> HIDE DEF H
    <3> QED BY <2>4, <3>2, <3>4, ByteAt DEF Prefix
  <2> DEFINE v == Len(H) - 16
             W == WithU32(H, 12, v)
  <2> HIDE DEF hdr, H
  <2>9. v \in Nat /\ hdr.nodepad - 12 - 4 = v
    BY <2>7, <2>8 DEF Wrote
  <2>10. patched.out = WithU32(hdr.out, 12, v)
    <3> HIDE DEF v
    <3> QED BY <2>7, <2>9 DEF Wrote, Writer
  <2>11. W \in Bytes
    <3> HIDE DEF v
    <3> QED BY <2>8, <2>9, PatchIs
  <2>12. Pad(patched, 8).out = SpecPad(patched.out, 8)
    <3> HIDE DEF patched
    <3> QED BY DEF Pad, SpecPad
  <2>13. SpecPad(patched.out, 8) = SpecPad(W, 8)
    <3> HIDE DEF patched, v
    <3>1. CASE hdr.out = H
      BY Zenon, <2>10, <3>1
    <3>2. CASE hdr.out = SpecPad(H, 4)
      <4>1. WithU32(SpecPad(H, 4), 12, v) = SpecPad(W, 4)
        BY <2>8, <2>9, PatchPad
      <4>2. SpecPad(SpecPad(W, 4), 8) = SpecPad(W, 8)
        <5> HIDE DEF W
        <5> QED BY <2>11, PadPad
      <4> QED BY Zenon, <2>10, <3>2, <4>1, <4>2
    <3> QED BY <2>7, <3>1, <3>2 DEF Wrote
  <2>14. SubSeq(body.out, 1, body.nodepad) = S
    <3>1. Stands(body.out, 0, S)
      <4>1. CASE body.out = S
        BY <2>3, <4>1 DEF Stands
      <4>2. CASE body.out = SpecPad(S, 4)
        BY <2>3, <4>2, PadIs DEF Stands
      <4> QED BY <2>2, <4>1, <4>2 DEF Wrote
    <3>2. SubSeq(body.out, 0 + 1, 0 + Len(S)) = S
      BY <2>3, <3>1, SliceIs
    <3>3. 0 + 1 = 1 /\ 0 + Len(S) = body.nodepad
      <4> DEFINE l == Len(S)
      <4>1. l \in Nat /\ body.nodepad = l
        BY Zenon, <2>3
      <4> HIDE DEF l
      <4>2. 0 + 1 = 1 /\ 0 + l = body.nodepad
        BY <4>1
      <4> QED BY Zenon, <4>2 DEF l
    <3> QED BY Zenon, <3>2, <3>3
  <2>15. msg = SpecCall(c)
    <3> HIDE DEF patched
    <3> QED BY Zenon, <1>2, <2>12, <2>13, <2>14 DEF W, v
  <2> DEFINE z == SpecCall(c)
  <2>16. z \in Bytes
    <3>1. SpecPad(W, 8) \in Bytes
      <4> HIDE DEF W
      <4> QED BY <2>11, PadIs
    <3>2. SpecPad(W, 8) \o S \in Bytes
      <4> DEFINE p == SpecPad(W, 8)
      <4> HIDE DEF p
      <4>1. p \o S \in Bytes
        BY <2>3, <3>1, ConcatIs DEF p
      <4> QED BY <4>1 DEF p
    <3> QED BY Zenon, <1>2, <3>2 DEF W, v
  <2>17. Len(z) \in Nat /\ msg = z
    <3> HIDE DEF z
    <3> QED BY <2>15, <2>16, ByteAt DEF z
  <2> HIDE DEF msg, z
  <2>18. Len(z) > MaxMessage <=> ~(Len(z) <= MaxMessage)
    BY <2>17 DEF MaxMessage
  <2>19. BuildCall(c) = IF A <= MaxSignature /\ Len(z) <= MaxMessage THEN z ELSE Unsent
    BY <1>1, <1>6, <2>1, <2>17, <2>18
  <2> QED BY Zenon, <2>19 DEF z, A
<1> QED BY <1>5, <1>6

(***************************************************************************)
(* The reader.                                                             *)
(***************************************************************************)

\* rd_pad reaches the alignment, or stays when the slice ends before.
LEMMA SkipPadIs ==
    ASSUME NEW p \in Nat, NEW base \in Nat, NEW end \in Nat, NEW a \in {4, 8}, base + p <= end
    PROVE  /\ SkipPad(base + p, base, end, a) \in Nat
           /\ base + p + Gap(p, a) <= end => SkipPad(base + p, base, end, a) = base + p + Gap(p, a)
           /\ base + p = end => SkipPad(base + p, base, end, a) = end
<1>1. base + p - base = p
  OBVIOUS
<1>2. Gap(p, a) \in Nat
  <2>1. Gap(p, 4) \in 0..3 /\ Gap(p, 8) \in 0..7
    BY GapIs
  <2> QED BY <2>1
<1>3. SkipPad(base + p, base, end, a) = IF base + p + Gap(p, a) <= end THEN base + p + Gap(p, a) ELSE end
  BY <1>1 DEF SkipPad
<1> DEFINE g == Gap(p, a)
<1> HIDE DEF g
<1>4. /\ SkipPad(base + p, base, end, a) = IF base + p + g <= end THEN base + p + g ELSE end
      /\ g \in Nat
  BY <1>2, <1>3 DEF g
<1>5. /\ SkipPad(base + p, base, end, a) \in Nat
      /\ base + p + g <= end => SkipPad(base + p, base, end, a) = base + p + g
      /\ base + p = end => SkipPad(base + p, base, end, a) = end
  BY <1>4
<1> QED BY <1>5 DEF g

\* In a header, positions are counted from the start of the message.
LEMMA SkipPadFromStart ==
    ASSUME NEW p \in Nat, NEW end \in Nat, NEW a \in {4, 8}, p <= end
    PROVE  /\ SkipPad(p, 0, end, a) \in Nat
           /\ p + Gap(p, a) <= end => SkipPad(p, 0, end, a) = p + Gap(p, a)
           /\ p = end => SkipPad(p, 0, end, a) = end
<1>1. Gap(p, a) \in Nat
  <2>1. Gap(p, 4) \in 0..3 /\ Gap(p, 8) \in 0..7
    BY GapIs
  <2> QED BY <2>1
<1>2. p - 0 = p
  OBVIOUS
<1>3. SkipPad(p, 0, end, a) = IF p + Gap(p, a) <= end THEN p + Gap(p, a) ELSE end
  BY <1>2 DEF SkipPad
<1> DEFINE g == Gap(p, a)
<1> HIDE DEF g
<1>4. g \in Nat /\ SkipPad(p, 0, end, a) = IF p + g <= end THEN p + g ELSE end
  BY <1>1, <1>3 DEF g
<1>5. /\ SkipPad(p, 0, end, a) \in Nat
      /\ p + g <= end => SkipPad(p, 0, end, a) = p + g
      /\ p = end => SkipPad(p, 0, end, a) = end
  BY <1>4
<1> QED BY <1>5 DEF g

\* A value that has been read, up to a position.
Got(at, val) == [ok |-> TRUE, at |-> at, val |-> val]

\* What a value that was read holds.
LEMMA GotIs ==
    ASSUME NEW at, NEW val
    PROVE  Got(at, val).ok /\ Got(at, val).at = at /\ Got(at, val).val = val
  BY DEF Got

\* A value that was read with another in its place.
LEMMA GotNew ==
    ASSUME NEW at, NEW val, NEW new
    PROVE  [Got(at, val) EXCEPT !.val = new] = Got(at, new)
<1>1. ASSUME NEW b
      PROVE  [[ok |-> b, at |-> at, val |-> val] EXCEPT !.val = new] = [ok |-> b, at |-> at, val |-> new]
  OBVIOUS
<1> QED BY Zenon, <1>1 DEF Got

\* A string that stands in a message is read.
LEMMA ReadStrIs ==
    ASSUME NEW m, NEW at \in Nat, NEW s \in Bytes, Len(s) \in Word, NEW base, NEW end \in Nat,
           Stands(m, at, StrBytes(s)), at + Len(StrBytes(s)) <= end
    PROVE  ReadStr(m, at, base, end) = Got(SkipPad(at + Len(StrBytes(s)), base, end, 4), s)
<1> DEFINE n == Len(s)
           h == U32(n)
           z == <<0>>
<1>1. /\ h \in Bytes /\ Len(h) = 4 /\ n \in Nat /\ h \o s \in Bytes /\ Len(h \o s) = 4 + n
      /\ z \in Bytes /\ Len(z) = 1 /\ StrBytes(s) = (h \o s) \o z /\ Len(StrBytes(s)) = 5 + n
  BY StrIs
<1>2. n \in Word
  OBVIOUS
<1> HIDE DEF n, h, z
<1>3. Stands(m, at, h \o s) /\ Stands(m, at + Len(h \o s), z)
  BY Zenon, <1>1, StandsTwo
<1>4. Stands(m, at, h) /\ Stands(m, at + Len(h), s)
  BY Zenon, <1>1, <1>3, StandsTwo
<1>5. U32At(m, at) = n
  BY <1>2, <1>4, NumberReads DEF h
<1>6. m[at + 4 + n + 1] = 0
  <2>1. Stands(m, at + (4 + n), z)
    BY Zenon, <1>1, <1>3
  <2>2. m[at + (4 + n) + 1] = z[1]
    BY <1>1, <2>1 DEF Stands
  <2>3. at + (4 + n) + 1 = at + 4 + n + 1
    BY <1>1
  <2> QED BY Zenon, <2>2, <2>3 DEF z
<1>7. SubSeq(m, at + 5, at + 4 + n) = s
  <2>1. Stands(m, at + 4, s)
    BY Zenon, <1>1, <1>4
  <2>2. at + 4 \in Nat
    OBVIOUS
  <2>3. SubSeq(m, (at + 4) + 1, (at + 4) + Len(s)) = s
    BY Zenon, <2>1, <2>2, SliceIs
  <2>4. (at + 4) + 1 = at + 5 /\ (at + 4) + Len(s) = at + 4 + n
    BY DEF n
  <2> QED BY Zenon, <2>3, <2>4
<1>8. ~(at + 4 > end) /\ ~(at + 4 + n + 1 > end) /\ at + 4 + n + 1 = at + Len(StrBytes(s))
  BY <1>1
<1>9. ReadStr(m, at, base, end) = [ok |-> TRUE, at |-> SkipPad(at + 4 + n + 1, base, end, 4),
                                   val |-> SubSeq(m, at + 5, at + 4 + n)]
  BY <1>5, <1>6, <1>8, Zenon DEF ReadStr
<1> QED BY Zenon, <1>7, <1>8, <1>9 DEF Got

\* How a header field of each type is read.
LEMMA ReadFieldOf ==
    ASSUME NEW m, NEW at, NEW end, NEW type
    PROVE  /\ type \in {Type.s, Type.o} =>
                 ReadField(m, at, end, type) = ReadStr(m, SkipPad(at, 0, end, 4), 0, end)
           /\ type = Type.u /\ SkipPad(at, 0, end, 4) + 4 <= end =>
                 ReadField(m, at, end, type) =
                    [ok |-> TRUE, at |-> SkipPad(at, 0, end, 4) + 4,
                     val |-> U32At(m, SkipPad(at, 0, end, 4))]
  BY TypesDiffer DEF ReadField

\* How a signature is read.
LEMMA ReadSigOf ==
    ASSUME NEW m, NEW at, NEW end, at + 1 <= end, at + 1 + m[at + 1] + 1 <= end
    PROVE  ReadField(m, at, end, Type.g) =
              [ok |-> TRUE, at |-> at + 1 + m[at + 1] + 1, val |-> SubSeq(m, at + 2, at + 1 + m[at + 1])]
  BY TypesDiffer DEF ReadField

\* What a field says: its bytes, or its number.
Said(f) == IF f.type = Type.u THEN f.val[1] ELSE f.val

\* Where the reader stands after a value that ends at p: after the padding, too, when
\* the value is a string.
After(f, p, end) == IF f.type \in {Type.s, Type.o} THEN SkipPad(p, 0, end, 4) ELSE p

\* Where the reader can stand after a value.
LEMMA AfterIs ==
    ASSUME NEW f, NEW p \in Nat, NEW end \in Nat, p <= end
    PROVE  /\ After(f, p, end) \in Nat
           /\ p + Gap(p, 4) <= end => After(f, p, end) \in {p, p + Gap(p, 4)}
           /\ p = end => After(f, p, end) = end
<1>1. CASE f.type \in {Type.s, Type.o}
  <2>1. After(f, p, end) = SkipPad(p, 0, end, 4)
    BY Zenon, <1>1 DEF After
  <2>2. /\ SkipPad(p, 0, end, 4) \in Nat
        /\ p + Gap(p, 4) <= end => SkipPad(p, 0, end, 4) = p + Gap(p, 4)
        /\ p = end => SkipPad(p, 0, end, 4) = end
    BY SkipPadFromStart
  <2> QED BY Zenon, <2>1, <2>2
<1>2. CASE f.type \notin {Type.s, Type.o}
  <2>1. After(f, p, end) = p
    BY Zenon, <1>2 DEF After
  <2> QED BY Zenon, <2>1
<1> QED BY <1>1, <1>2

\* The value of a header field is read.
LEMMA ReadFieldIs ==
    ASSUME NEW T \in Bytes, NEW f, IsValue(f), f.type \in {Type.s, Type.o, Type.u, Type.g},
           NEW m, NEW end \in Word, Len(SpecValue(T, f)) <= end,
           \A j \in (Len(T) + 1)..Len(SpecValue(T, f)) : m[j] = SpecValue(T, f)[j]
    PROVE  ReadField(m, Len(T), end, f.type) =
               [ok |-> TRUE, at |-> After(f, Len(SpecValue(T, f)), end), val |-> Said(f)]
<1> DEFINE R == SpecValue(T, f)
           p == Len(R)
           t == Len(T)
           P == SpecPad(T, 4)
           from == SkipPad(t, 0, end, 4)
<1>1. R \in Bytes /\ p \in Nat /\ t \in Nat /\ p >= t /\ p <= end /\ end \in Nat
      /\ \A j \in (t + 1)..p : m[j] = R[j]
  BY ValueIs, WordIs
<1>2. P \in Bytes /\ Len(P) = t + Gap(t, 4) /\ Gap(t, 4) \in Nat
  BY PadIs
<1>3. ASSUME NEW Q \in Bytes, NEW c \in Bytes, R = Q \o c, Len(Q) >= t
      PROVE  /\ Stands(m, Len(Q), c) /\ Len(Q) \in Nat /\ Len(c) \in Nat /\ p = Len(Q) + Len(c)
             /\ Len(Q) + Len(c) <= end
  <2>1. /\ Len(Q \o c) = Len(Q) + Len(c) /\ Len(Q) \in Nat /\ Len(c) \in Nat
        /\ \A i \in 1..Len(c) : (Q \o c)[Len(Q) + i] = c[i]
    BY ConcatIs
  <2>2. p = Len(Q) + Len(c)
    BY Zenon, <1>3, <2>1
  <2> HIDE DEF p, t, R
  <2>3. ASSUME NEW i \in 1..Len(c) PROVE m[Len(Q) + i] = c[i]
    <3>1. Len(Q) + i \in (t + 1)..p
      BY <1>1, <1>3, <2>1, <2>2
    <3> QED BY <1>1, <1>3, <2>1, <3>1
  <2> QED BY <1>1, <2>1, <2>2, <2>3 DEF Stands
<1>4. ASSUME NEW c \in Bytes, R = P \o c
      PROVE  from = Len(P) /\ Len(P) \in Nat /\ Stands(m, Len(P), c) /\ p = Len(P) + Len(c)
             /\ Len(P) + Len(c) <= end
  <2>1. Len(P) >= t
    <3> HIDE DEF P, t
    <3> QED BY <1>1, <1>2
  <2>2. Stands(m, Len(P), c) /\ Len(P) \in Nat /\ Len(c) \in Nat /\ p = Len(P) + Len(c)
        /\ Len(P) + Len(c) <= end
    <3> HIDE DEF P, R, t, p
    <3> QED BY <1>2, <1>3, <1>4, <2>1
  <2>3. from = t + Gap(t, 4)
    <3> HIDE DEF P, t, p
    <3>1. t <= end /\ t + Gap(t, 4) <= end
      BY <1>1, <1>2, <2>2
    <3>2. SkipPad(t, 0, end, 4) = t + Gap(t, 4)
      BY <1>1, <3>1, SkipPadFromStart
    <3> QED BY Zenon, <3>2 DEF from
  <2> HIDE DEF P, from, p, t
  <2> QED BY <1>2, <2>2, <2>3
<1>5. CASE f.type \in {Type.s, Type.o}
  <2> DEFINE c == StrBytes(f.val)
             at == SkipPad(Len(P) + Len(c), 0, end, 4)
  <2>1. f.val \in Bytes
    BY <1>5, ValueOf
  <2>2. c \in Bytes /\ R = P \o c /\ Len(c) = 5 + Len(f.val) /\ Len(f.val) \in Nat
    BY <1>5, <2>1, StrIs, SpecBytesOf
  <2> HIDE DEF P, R, from, t, p
  <2>3. from = Len(P) /\ Len(P) \in Nat /\ Stands(m, Len(P), c) /\ p = Len(P) + Len(c)
        /\ Len(P) + Len(c) <= end
    BY <1>4, <2>2
  <2>4. Len(f.val) \in Word
    <3>1. Len(f.val) <= end
      BY <1>1, <2>2, <2>3
    <3> QED BY <2>2, <3>1 DEF Word
  <2>5. ReadStr(m, Len(P), 0, end) = [ok |-> TRUE, at |-> at, val |-> f.val]
    <3> DEFINE s == f.val
               a == Len(P)
    <3>1. s \in Bytes /\ Len(s) \in Word /\ a \in Nat /\ end \in Nat
          /\ Stands(m, a, StrBytes(s)) /\ a + Len(StrBytes(s)) <= end
      BY Zenon, <1>1, <2>1, <2>3, <2>4
    <3> HIDE DEF s, a, c, at
    <3>2. ReadStr(m, a, 0, end) = Got(SkipPad(a + Len(StrBytes(s)), 0, end, 4), s)
      BY <3>1, ReadStrIs
    <3> QED BY Zenon, <3>2 DEF s, a, c, at, Got
  <2>6. ReadField(m, t, end, f.type) = ReadStr(m, from, 0, end)
    BY Zenon, <1>5, ReadFieldOf DEF from
  <2>7. Said(f) = f.val
    BY <1>5, TypesDiffer DEF Said
  <2>8. at = After(f, p, end)
    BY Zenon, <1>5, <2>3 DEF After
  <2> HIDE DEF at
  <2>9. ReadField(m, t, end, f.type) = [ok |-> TRUE, at |-> at, val |-> Said(f)]
    BY Zenon, <2>3, <2>5, <2>6, <2>7
  <2> QED BY Zenon, <2>8, <2>9 DEF p, R, t
<1>6. CASE f.type = Type.u
  <2> DEFINE c == U32(f.val[1])
  <2>1. f.val[1] \in Word /\ c \in Bytes
    BY <1>6, ValueOf
  <2>2. R = P \o c /\ Len(c) = 4
    BY <1>6, <2>1, WordIs, NumberIs, SpecBytesOf
  <2> HIDE DEF P, R, from, t, p
  <2>3. from = Len(P) /\ Len(P) \in Nat /\ Stands(m, Len(P), c) /\ p = Len(P) + Len(c)
        /\ Len(P) + Len(c) <= end
    BY <1>4, <2>1, <2>2
  <2>4. U32At(m, Len(P)) = f.val[1]
    BY <2>1, <2>3, NumberReads
  <2>5. from + 4 <= end /\ from + 4 = p
    BY <2>2, <2>3
  <2>6. f.type \notin {Type.s, Type.o}
    BY <1>6, TypesDiffer
  <2>7. ReadField(m, t, end, f.type) = [ok |-> TRUE, at |-> from + 4, val |-> U32At(m, from)]
    BY Zenon, <1>6, <2>5, ReadFieldOf DEF from
  <2>8. Said(f) = f.val[1]
    BY <1>6 DEF Said
  <2>9. ReadField(m, t, end, f.type) = [ok |-> TRUE, at |-> p, val |-> Said(f)]
    BY Zenon, <2>3, <2>4, <2>5, <2>7, <2>8
  <2>10. After(f, p, end) = p
    BY Zenon, <2>6 DEF After
  <2> QED BY Zenon, <2>9, <2>10 DEF p, R, t
<1>7. CASE f.type = Type.g
  <2> DEFINE s == f.val
             n == Len(s)
             h == <<n>>
             z == <<0>>
             c == SigBytes(s)
  <2>1. s \in Bytes /\ n <= MaxSignature
    BY <1>7, ValueOf
  <2>2. /\ c \in Bytes /\ Len(c) = 2 + n /\ c = (h \o s) \o z
        /\ h \in Bytes /\ Len(h) = 1 /\ n \in Nat /\ h \o s \in Bytes /\ Len(h \o s) = 1 + n
        /\ z \in Bytes /\ Len(z) = 1
    BY <2>1, SigIs
  <2>3. R = T \o c
    BY Zenon, <1>7, SpecBytesOf
  <2> HIDE DEF R, c, s, n, z, p
  <2>4. Stands(m, t, c) /\ p = t + Len(c) /\ t + Len(c) <= end
    <3>1. T \in Bytes /\ Len(T) >= t
      BY <1>1
    <3> QED BY Zenon, <1>3, <2>2, <2>3, <3>1
  <2> HIDE DEF t
  <2>5. h[1] = n
    OBVIOUS
  <2> HIDE DEF h
  <2>6. Stands(m, t, h \o s) /\ Stands(m, t + Len(h \o s), z)
    BY Zenon, <1>1, <2>2, <2>4, StandsTwo
  <2>7. Stands(m, t, h) /\ Stands(m, t + Len(h), s)
    BY Zenon, <1>1, <2>1, <2>2, <2>6, StandsTwo
  <2>8. m[t + 1] = n
    BY <2>2, <2>5, <2>7 DEF Stands
  <2>9. SubSeq(m, t + 2, t + 1 + n) = s
    <3>1. Stands(m, t + 1, s)
      BY Zenon, <2>2, <2>7
    <3>2. t + 1 \in Nat
      BY <1>1
    <3>3. SubSeq(m, (t + 1) + 1, (t + 1) + Len(s)) = s
      BY Zenon, <2>1, <3>1, <3>2, SliceIs
    <3>4. (t + 1) + 1 = t + 2 /\ (t + 1) + Len(s) = t + 1 + n
      BY <1>1 DEF n
    <3> QED BY Zenon, <3>3, <3>4
  <2>10. t + 1 <= end /\ t + 1 + n + 1 <= end /\ t + 1 + n + 1 = p
    <3>1. t \in Nat /\ n \in Nat /\ p = t + (2 + n) /\ p <= end /\ end \in Nat
      BY Zenon, <1>1, <2>2, <2>4
    <3> HIDE DEF h
    <3> QED BY <3>1
  <2>11. f.type \notin {Type.s, Type.o} /\ f.type # Type.u
    BY <1>7, TypesDiffer
  <2>12. ReadField(m, t, end, f.type) = [ok |-> TRUE, at |-> t + 1 + m[t + 1] + 1,
                                         val |-> SubSeq(m, t + 2, t + 1 + m[t + 1])]
    <3>1. t + 1 <= end /\ t + 1 + m[t + 1] + 1 <= end
      BY Zenon, <2>8, <2>10
    <3>2. ReadField(m, t, end, Type.g) = [ok |-> TRUE, at |-> t + 1 + m[t + 1] + 1,
                                          val |-> SubSeq(m, t + 2, t + 1 + m[t + 1])]
      BY <3>1, ReadSigOf
    <3> QED BY Zenon, <1>7, <3>2
  <2>13. Said(f) = s
    BY <2>11 DEF Said, s
  <2>14. ReadField(m, t, end, f.type) = [ok |-> TRUE, at |-> p, val |-> Said(f)]
    BY Zenon, <2>8, <2>9, <2>10, <2>12, <2>13
  <2>15. After(f, p, end) = p
    BY Zenon, <2>11 DEF After
  <2> QED BY Zenon, <2>14, <2>15 DEF p, R, t
<1> QED BY <1>5, <1>6, <1>7

(***************************************************************************)
(* The fields of a reply.                                                  *)
(***************************************************************************)

\* The fields of a reply: no two of them alike, and those that are kept of the types
\* the D-Bus specification gives them.
WellTyped(f) ==
    /\ f.code = Field.errorName => f.type = Type.s
    /\ f.code = Field.signature => f.type = Type.g
    /\ f.code = Field.replySerial => f.type = Type.u

IsReplyFields(fields, N) ==
    /\ IsFields(fields, N)
    /\ \A i, j \in 1..N : fields[i].code = fields[j].code => i = j
    /\ \A i \in 1..N : WellTyped(fields[i])

\* What the first n fields say of a code, or that they do not.
Says(fields, n, code, none) ==
    IF \E j \in 1..n : fields[j].code = code
    THEN Said(fields[CHOOSE j \in 1..n : fields[j].code = code]) ELSE none

KeptOf(fields, n) ==
    [error |-> Says(fields, n, Field.errorName, <<>>), sig |-> Says(fields, n, Field.signature, <<>>),
     serial |-> Says(fields, n, Field.replySerial, 0)]

\* What the fields say with one more of them.
LEMMA SaysNext ==
    ASSUME NEW N \in Nat, NEW fields, IsReplyFields(fields, N), NEW n \in 1..N, NEW code, NEW none
    PROVE  Says(fields, n, code, none) =
               IF fields[n].code = code THEN Said(fields[n]) ELSE Says(fields, n - 1, code, none)
<1>1. \A i, j \in 1..N : fields[i].code = fields[j].code => i = j
  BY DEF IsReplyFields
<1>2. n \in 1..n /\ (1..n) = (1..(n - 1)) \cup {n} /\ 1..n \subseteq 1..N
  OBVIOUS
<1>3. CASE fields[n].code = code
  <2>1. \A j \in 1..n : fields[j].code = code => j = n
    BY <1>1, <1>2, <1>3
  <2>2. (CHOOSE j \in 1..n : fields[j].code = code) = n
    BY Zenon, <1>2, <1>3, <2>1
  <2>3. \E j \in 1..n : fields[j].code = code
    BY Zenon, <1>2, <1>3
  <2> QED BY Zenon, <1>3, <2>2, <2>3 DEF Says
<1>4. CASE fields[n].code # code
  <2>1. \A j : (j \in 1..n /\ fields[j].code = code) <=> (j \in 1..(n - 1) /\ fields[j].code = code)
    BY Zenon, <1>2, <1>4
  <2>2. (CHOOSE j \in 1..n : fields[j].code = code) = (CHOOSE j \in 1..(n - 1) : fields[j].code = code)
    BY Zenon, <2>1
  <2>3. (\E j \in 1..n : fields[j].code = code) <=> (\E j \in 1..(n - 1) : fields[j].code = code)
    BY Zenon, <2>1
  <2> QED BY Zenon, <1>4, <2>2, <2>3 DEF Says
<1> QED BY <1>3, <1>4

\* The codes of the fields that are kept, and of two that are not.
LEMMA CodesDiffer ==
    /\ Field.errorName = 4 /\ Field.replySerial = 5 /\ Field.signature = 8
    /\ Field.destination = 6 /\ Field.sender = 7
  BY DEF Field

\* What the reader keeps follows what the fields say.
LEMMA KeptNext ==
    ASSUME NEW N \in Nat, NEW fields, IsReplyFields(fields, N), NEW n \in 1..N
    PROVE  Kept(KeptOf(fields, n - 1), fields[n].code, fields[n].type, Said(fields[n])) =
               KeptOf(fields, n)
<1> DEFINE f == fields[n]
           got == KeptOf(fields, n - 1)
           v == Said(f)
           e(k) == Says(fields, k, Field.errorName, <<>>)
           g(k) == Says(fields, k, Field.signature, <<>>)
           s(k) == Says(fields, k, Field.replySerial, 0)
<1>1. WellTyped(f)
  BY DEF IsReplyFields
<1>2. /\ e(n) = IF f.code = Field.errorName THEN v ELSE e(n - 1)
      /\ g(n) = IF f.code = Field.signature THEN v ELSE g(n - 1)
      /\ s(n) = IF f.code = Field.replySerial THEN v ELSE s(n - 1)
  BY SaysNext
<1>3. /\ got = [error |-> e(n - 1), sig |-> g(n - 1), serial |-> s(n - 1)]
      /\ KeptOf(fields, n) = [error |-> e(n), sig |-> g(n), serial |-> s(n)]
  BY DEF KeptOf
<1> HIDE DEF e, g, s, got, v, f
<1>4. Kept(got, f.code, f.type, v) =
          IF f.code = Field.errorName THEN [got EXCEPT !.error = v]
          ELSE IF f.code = Field.signature THEN [got EXCEPT !.sig = v]
          ELSE IF f.code = Field.replySerial THEN [got EXCEPT !.serial = v] ELSE got
  BY <1>1, CodesDiffer, TypesDiffer DEF Kept, WellTyped
<1>5. Kept(got, f.code, f.type, v) = [error |-> e(n), sig |-> g(n), serial |-> s(n)]
  BY <1>2, <1>3, <1>4, CodesDiffer
<1> QED BY Zenon, <1>3, <1>5 DEF got, v, f

\* A message in which a header stands, that ends at E; its first sixteen bytes aside.
Headed(m, X, fields, N, E) ==
    /\ IsReplyFields(fields, N)
    /\ X \in Bytes /\ Len(X) = 16
    /\ E \in Word /\ E = Len(SpecFields(X, fields)[N])
    /\ \A j \in 17..E : m[j] = SpecFields(X, fields)[N][j]

\* A message that begins, its first sixteen bytes aside, with a header.
Begins(m, c) == \A j \in 17..Len(c) : m[j] = c[j]

\* Where the reader is, and what it has kept, after n fields.
Reached(X, fields, E, n) ==
    [ok |-> TRUE,
     at |-> IF n = 0 THEN 16 ELSE After(fields[n], Len(SpecFields(X, fields)[n]), E),
     got |-> KeptOf(fields, n)]

\* The fields of a message stand one after the other.
LEMMA HeadersAre ==
    ASSUME NEW N \in Nat, NEW m, NEW X, NEW fields, NEW E, Headed(m, X, fields, N, E), NEW n \in 0..N
    PROVE  /\ SpecFields(X, fields)[n] \in Bytes /\ Len(SpecFields(X, fields)[n]) \in Nat
           /\ E \in Nat /\ Len(SpecFields(X, fields)[n]) >= 16 + n
           /\ Len(SpecFields(X, fields)[n]) <= E
           /\ Begins(m, SpecFields(X, fields)[n])
<1> DEFINE F(k) == SpecFields(X, fields)[k]
<1>1. IsFields(fields, N) /\ X \in Bytes /\ Len(X) = 16 /\ E \in Nat /\ E = Len(F(N))
      /\ \A j \in 17..E : m[j] = F(N)[j]
  BY WordIs DEF Headed, IsReplyFields
<1>2. F(0) = X /\ \A k \in 1..N : F(k) = SpecField(F(k - 1), fields[k])
  BY <1>1, FieldRounds
<1>3. \A k \in 0..N : F(k) \in Bytes
  BY <1>1, FieldsAreBytes
<1>4. Prefix(F(n), F(N))
  <2>1. N \in n..N
    OBVIOUS
  <2> QED BY <1>1, <2>1, FieldsGrow
<1> HIDE DEF F
<1> DEFINE G == {k \in 0..N : Len(F(k)) >= 16 + k}
<1>5. ASSUME NEW k \in 1..N, k - 1 \in G PROVE k \in G
  <2>1. IsField(fields[k]) /\ k - 1 \in 0..N /\ Len(F(k - 1)) >= 16 + (k - 1)
    BY <1>1, <1>5 DEF IsFields
  <2> DEFINE S == F(k - 1)
             f == fields[k]
  <2>2. S \in Bytes /\ F(k) = SpecField(S, f)
    BY Zenon, <1>2, <1>3, <2>1
  <2> HIDE DEF S, f
  <2>3. Len(SpecField(S, f)) >= Len(SpecPad(S, 8)) + 4 /\ Len(SpecPad(S, 8)) >= Len(S)
        /\ Len(S) \in Nat /\ Len(SpecField(S, f)) \in Nat
        /\ Len(SpecPad(S, 8)) = Len(S) + Gap(Len(S), 8) /\ Gap(Len(S), 8) \in Nat
    BY <2>1, <2>2, FieldIs, PadIs DEF f
  <2>4. Len(S) >= 16 + (k - 1)
    BY <2>1 DEF S
  <2>5. Len(SpecField(S, f)) >= 16 + k
    <3> DEFINE a == Len(SpecField(S, f))
               b == Len(SpecPad(S, 8))
               c == Len(S)
               d == Gap(Len(S), 8)
    <3>1. a >= b + 4 /\ b = c + d /\ c >= 16 + (k - 1) /\ a \in Nat /\ c \in Nat /\ d \in Nat
      BY Zenon, <2>3, <2>4
    <3> HIDE DEF a, b, c, d
    <3>2. a >= 16 + k
      BY <3>1
    <3> QED BY <3>2 DEF a
  <2>6. Len(F(k)) >= 16 + k
    BY Zenon, <2>2, <2>5
  <2> QED BY <2>6
<1>6. 0 \in G
  <2>1. Len(F(0)) = 16
    BY Zenon, <1>1, <1>2
  <2>2. Len(F(0)) >= 16 + 0
    <3> DEFINE l == Len(F(0))
    <3>1. l = 16
      BY <2>1
    <3> HIDE DEF G, l
    <3>2. l >= 16 + 0
      BY <3>1
    <3> QED BY <3>2 DEF l
  <2>3. 0 \in 0..N
    OBVIOUS
  <2> QED BY Zenon, <2>2, <2>3
<1>7. G = 0..N
  <2>1. G \in SUBSET (0..N)
    OBVIOUS
  <2> HIDE DEF G
  <2> QED BY <1>5, <1>6, <2>1, EveryRound
<1>8. Len(F(n)) >= 16 + n
  BY <1>7
<1>9. Len(F(n)) \in Nat /\ Len(F(n)) <= E /\ \A i \in 1..Len(F(n)) : F(N)[i] = F(n)[i]
  BY <1>1, <1>3, <1>4, ByteAt DEF Prefix
<1>10. ASSUME NEW j \in 17..Len(F(n)) PROVE m[j] = F(n)[j]
  <2> DEFINE l == Len(F(n))
  <2>1. l \in Nat /\ l <= E /\ E \in Nat /\ j \in 17..l
    BY Zenon, <1>1, <1>9
  <2> HIDE DEF l
  <2>2. j \in 17..E /\ j \in 1..l
    BY <2>1
  <2> QED BY Zenon, <1>1, <1>9, <2>2 DEF l
<1>11. Begins(m, F(n))
  BY Zenon, <1>10 DEF Begins
<1> QED BY <1>1, <1>3, <1>8, <1>9, <1>11 DEF F

\* The padding before a field, from wherever the one before it was left.
LEMMA AtNext ==
    ASSUME NEW p \in Nat, NEW at, NEW E \in Nat, p + Gap(p, 8) + 4 <= E,
           p + Gap(p, 4) <= E => at \in {p, p + Gap(p, 4)}
    PROVE  at \in Nat /\ ~(at >= E) /\ SkipPad(at, 0, E, 8) = p + Gap(p, 8)
<1>1. /\ Gap(p, 4) \in Nat /\ Gap(p, 8) \in Nat
      /\ Gap(p, 4) + Gap(p + Gap(p, 4), 8) = Gap(p, 8)
      /\ Gap(p + Gap(p, 4), 8) \in Nat
  <2>1. /\ Gap(p, 4) \in 0..3 /\ Gap(p, 8) \in 0..7
        /\ Gap(p, 4) + Gap(p + Gap(p, 4), 8) = Gap(p, 8)
    BY GapIs
  <2>2. p + Gap(p, 4) \in Nat /\ Gap(p, 4) \in Nat /\ Gap(p, 8) \in Nat
    BY <2>1
  <2>3. Gap(p + Gap(p, 4), 8) \in 0..7
    BY <2>2, GapIs
  <2>4. Gap(p + Gap(p, 4), 8) \in Nat
    BY <2>3
  <2> QED BY Zenon, <2>1, <2>2, <2>4
<1> DEFINE q == p + Gap(p, 4)
           a == Gap(p, 4)
           b == Gap(p, 8)
           c == Gap(q, 8)
<1>2. q = p + a /\ a + c = b /\ a \in Nat /\ b \in Nat /\ c \in Nat
  BY Zenon, <1>1
<1>3. p + b + 4 <= E /\ (q <= E => at \in {p, q})
  OBVIOUS
<1> HIDE DEF a, b, c, q
<1>4. q <= E /\ q + c = p + b /\ ~(p >= E) /\ ~(q >= E) /\ q \in Nat /\ p <= E
  BY <1>2, <1>3
<1>5. CASE at = p
  <2>1. p + Gap(p, 8) <= E
    BY <1>2, <1>3 DEF b
  <2>2. SkipPad(p, 0, E, 8) = p + Gap(p, 8)
    BY <1>4, <2>1, SkipPadFromStart
  <2> QED BY Zenon, <1>4, <1>5, <2>2
<1>6. CASE at = q
  <2>1. q + Gap(q, 8) <= E
    BY <1>2, <1>3, <1>4 DEF c
  <2>2. SkipPad(q, 0, E, 8) = q + Gap(q, 8)
    BY <1>4, <2>1, SkipPadFromStart
  <2> QED BY Zenon, <1>4, <1>6, <2>2 DEF b, c
<1> QED BY <1>3, <1>4, <1>5, <1>6

\* A round of parse_header_fields reads the next field.
LEMMA ReachedNext ==
    ASSUME NEW N \in Nat, NEW m, NEW X, NEW fields, NEW E, Headed(m, X, fields, N, E), NEW n \in 1..N
    PROVE  FieldStep(m, E, Reached(X, fields, E, n - 1)) = Reached(X, fields, E, n)
<1> DEFINE S == SpecFields(X, fields)[n - 1]
           R == SpecFields(X, fields)[n]
           f == fields[n]
           p == Len(S)
           P == SpecPad(S, 8)
           c == FieldStart(f)
           T == P \o c
           fv == [type |-> f.type, val |-> f.val]
           st == Reached(X, fields, E, n - 1)
           q == p + Gap(p, 8)
<1>1. n - 1 \in 0..N /\ n \in 0..N /\ n # 0
  OBVIOUS
<1>2. /\ IsFields(fields, N) /\ IsReplyFields(fields, N) /\ X \in Bytes /\ Len(X) = 16 /\ E \in Word
      /\ E \in Nat
  BY WordIs DEF Headed, IsReplyFields
<1>3. IsField(f) /\ fv.type = f.type /\ fv.val = f.val
  BY <1>2 DEF IsFields
<1>4. S \in Bytes /\ p \in Nat /\ p >= 16 + (n - 1) /\ p <= E
  BY Zenon, <1>1, HeadersAre
<1>5. R \in Bytes /\ Len(R) \in Nat /\ Len(R) <= E /\ \A j \in 17..Len(R) : m[j] = R[j]
  <2> HIDE DEF st, fv, T, P, c, q, p, S, f
  <2>1. R \in Bytes /\ Len(R) \in Nat /\ Len(R) <= E
    BY Zenon, <1>1, HeadersAre
  <2>2. \A j \in 17..Len(R) : m[j] = R[j]
    <3>1. Begins(m, R)
      BY Zenon, <1>1, HeadersAre
    <3> QED BY Zenon, <3>1 DEF Begins
  <2> QED BY <2>1, <2>2
<1>6. R = SpecField(S, f)
  BY <1>2, FieldRounds
<1> HIDE DEF S, R, f
<1>7. /\ c \in Bytes /\ Len(c) = 4 /\ T \in Bytes /\ Len(T) = Len(P) + 4
      /\ Len(R) >= Len(P) + 4 /\ R = SpecValue(T, fv)
  BY Zenon, <1>3, <1>4, <1>6, FieldIs
<1>8. P \in Bytes /\ Len(P) = q /\ Gap(p, 8) \in Nat
  BY <1>4, PadIs
<1> HIDE DEF P, c, T, fv, p
<1>9. IsValue(fv) /\ fv.type \in {Type.s, Type.o, Type.u, Type.g}
  BY Zenon, <1>3 DEF IsField, IsValue
<1>10. \A i \in 1..Len(T) : R[i] = T[i]
  BY Zenon, <1>7, <1>9, ValueIs
<1>11. q \in Nat /\ q >= 16 /\ q + 4 <= E /\ Len(T) = q + 4 /\ q + 4 <= Len(R) /\ p + Gap(p, 8) + 4 <= E
  <2> DEFINE g == Gap(p, 8)
             l == Len(R)
  <2>1. /\ p \in Nat /\ p >= 16 + (n - 1) /\ g \in Nat /\ Len(T) = (p + g) + 4 /\ l >= (p + g) + 4
        /\ l <= E /\ l \in Nat /\ n \in Nat /\ n >= 1 /\ E \in Nat
    BY <1>2, <1>4, <1>5, <1>7, <1>8
  <2> HIDE DEF g, l
  <2>2. /\ p + g \in Nat /\ p + g >= 16 /\ p + g + 4 <= E /\ Len(T) = p + g + 4 /\ p + g + 4 <= l
    BY <2>1
  <2> QED BY Zenon, <2>2 DEF g, l
<1>12. m[q + 1] = f.code /\ m[q + 2] = 1 /\ m[q + 3] = f.type /\ m[q + 4] = 0
  <2>1. \A i \in 1..4 : T[q + i] = c[i]
    <3> HIDE DEF q
    <3>1. \A i \in 1..Len(c) : (P \o c)[Len(P) + i] = c[i]
      BY <1>7, <1>8, ConcatIs
    <3> QED BY Zenon, <1>7, <1>8, <3>1 DEF T
  <2> HIDE DEF q
  <2>2. ASSUME NEW i \in 1..4 PROVE m[q + i] = c[i]
    <3> DEFINE l == Len(R)
               k == Len(T)
    <3>1. l \in Nat /\ k = q + 4 /\ q + 4 <= l /\ q >= 16 /\ q \in Nat
      BY Zenon, <1>5, <1>11
    <3> HIDE DEF l, k
    <3>2. q + i \in 17..l /\ q + i \in 1..k
      BY <3>1
    <3>3. m[q + i] = R[q + i] /\ R[q + i] = T[q + i]
      BY Zenon, <1>5, <1>10, <3>2 DEF l, k
    <3> QED BY Zenon, <2>1, <3>3
  <2>3. c[1] = f.code /\ c[2] = 1 /\ c[3] = f.type /\ c[4] = 0
    BY DEF c, FieldStart
  <2> HIDE DEF f
  <2> QED BY <2>2, <2>3
<1>13. ReadField(m, q + 4, E, f.type) = [ok |-> TRUE, at |-> After(f, Len(R), E), val |-> Said(f)]
  <2>1. \A j \in (Len(T) + 1)..Len(SpecValue(T, fv)) : m[j] = SpecValue(T, fv)[j]
    <3> DEFINE l == Len(R)
               k == Len(T)
    <3>1. l \in Nat /\ k = q + 4 /\ q >= 16 /\ q \in Nat
      BY Zenon, <1>5, <1>11
    <3> HIDE DEF l, k, q
    <3>2. \A j \in (k + 1)..l : j \in 17..l
      BY <3>1
    <3>3. \A j \in (k + 1)..l : m[j] = R[j]
      BY Zenon, <1>5, <3>2 DEF l
    <3> QED BY Zenon, <1>7, <3>3 DEF l, k
  <2>2. Len(SpecValue(T, fv)) <= E
    BY Zenon, <1>5, <1>7
  <2>3. ReadField(m, Len(T), E, fv.type) =
            [ok |-> TRUE, at |-> After(fv, Len(SpecValue(T, fv)), E), val |-> Said(fv)]
    BY Zenon, <1>2, <1>7, <1>9, <2>1, <2>2, ReadFieldIs
  <2>4. After(fv, Len(R), E) = After(f, Len(R), E) /\ Said(fv) = Said(f)
    BY Zenon, <1>3 DEF After, Said
  <2> QED BY Zenon, <1>3, <1>7, <1>11, <2>3, <2>4
<1>14. st.ok /\ st.got = KeptOf(fields, n - 1) /\ st.at \in Nat /\ ~(st.at >= E)
       /\ SkipPad(st.at, 0, E, 8) = q
  <2>1. st.ok /\ st.got = KeptOf(fields, n - 1)
        /\ st.at = IF n - 1 = 0 THEN 16 ELSE After(fields[n - 1], p, E)
    BY DEF Reached, p, S
  <2>2. p + Gap(p, 4) <= E => st.at \in {p, p + Gap(p, 4)}
    <3>1. CASE n - 1 = 0
      <4>1. p = 16
        <5>1. SpecFields(X, fields)[0] = X
          BY <1>2, FieldRounds
        <5> QED BY Zenon, <1>2, <3>1, <5>1 DEF p, S
      <4> QED BY <2>1, <3>1, <4>1
    <3>2. CASE n - 1 # 0
      <4>1. st.at = After(fields[n - 1], p, E)
        BY Zenon, <2>1, <3>2
      <4>2. p + Gap(p, 4) <= E => After(fields[n - 1], p, E) \in {p, p + Gap(p, 4)}
        BY <1>2, <1>4, AfterIs
      <4> QED BY Zenon, <4>1, <4>2
    <3> QED BY <3>1, <3>2
  <2> DEFINE at == st.at
  <2>3. at \in Nat /\ ~(at >= E) /\ SkipPad(at, 0, E, 8) = q
    <3> HIDE DEF at, st
    <3>1. p + Gap(p, 4) <= E => at \in {p, p + Gap(p, 4)}
      BY Zenon, <2>2 DEF at
    <3> QED BY <1>2, <1>4, <1>11, <3>1, AtNext DEF q
  <2> QED BY Zenon, <2>1, <2>3
<1> HIDE DEF st, q
<1>15. FieldStep(m, E, st) =
           [ok |-> TRUE, at |-> After(f, Len(R), E), got |-> Kept(st.got, f.code, f.type, Said(f))]
  <2> DEFINE v == ReadField(m, q + 4, E, m[q + 3])
  <2>1. v = [ok |-> TRUE, at |-> After(f, Len(R), E), val |-> Said(f)]
    BY Zenon, <1>12, <1>13
  <2>2. v.ok /\ v.at = After(f, Len(R), E) /\ v.val = Said(f)
    BY <2>1
  <2>3. ~(q + 4 > E)
    BY <1>2, <1>11
  <2>4. FieldStep(m, E, st) =
            IF q + 4 > E THEN [st EXCEPT !.ok = FALSE]
            ELSE IF m[q + 2] # 1 \/ m[q + 4] # 0 \/ ~v.ok THEN [st EXCEPT !.ok = FALSE]
            ELSE [ok |-> TRUE, at |-> v.at, got |-> Kept(st.got, m[q + 1], m[q + 3], v.val)]
    BY <1>14 DEF FieldStep
  <2> HIDE DEF v
  <2> QED BY <1>12, <2>2, <2>3, <2>4
<1>16. Kept(st.got, f.code, f.type, Said(f)) = KeptOf(fields, n)
  BY Zenon, <1>2, <1>14, KeptNext DEF f
<1>17. Reached(X, fields, E, n) = [ok |-> TRUE, at |-> After(f, Len(R), E), got |-> KeptOf(fields, n)]
  BY <1>1 DEF Reached, f, R
<1> QED BY Zenon, <1>15, <1>16, <1>17 DEF st

ReaderRound(m, E, g, n) ==
    IF n = 0 THEN [ok |-> TRUE, at |-> 16, got |-> NothingKept] ELSE FieldStep(m, E, g[n - 1])

\* Once the fields are read, the rounds that remain change nothing.
LEMMA ReachedStays ==
    ASSUME NEW N \in Nat, NEW m, NEW X, NEW fields, NEW E, Headed(m, X, fields, N, E)
    PROVE  /\ FieldStep(m, E, Reached(X, fields, E, N)) = Reached(X, fields, E, N)
           /\ Reached(X, fields, E, N) = [ok |-> TRUE, at |-> E, got |-> KeptOf(fields, N)]
           /\ Reached(X, fields, E, 0) = [ok |-> TRUE, at |-> 16, got |-> NothingKept]
<1> DEFINE st == Reached(X, fields, E, N)
           p == Len(SpecFields(X, fields)[N])
<1>1. E \in Nat /\ p = E /\ X \in Bytes /\ Len(X) = 16 /\ IsFields(fields, N)
  BY WordIs DEF Headed, IsReplyFields
<1>2. st = [ok |-> TRUE, at |-> E, got |-> KeptOf(fields, N)]
  <2>1. CASE N = 0
    <3>1. SpecFields(X, fields)[0] = X
      BY <1>1, FieldRounds
    <3>2. E = 16
      BY Zenon, <1>1, <2>1, <3>1
    <3> QED BY <2>1, <3>2 DEF Reached
  <2>2. CASE N # 0
    <3>1. st.at = After(fields[N], p, E)
      BY <2>2 DEF Reached
    <3>2. After(fields[N], E, E) = E
      BY <1>1, AfterIs
    <3>3. st = [ok |-> TRUE, at |-> After(fields[N], p, E), got |-> KeptOf(fields, N)]
      BY Zenon, <2>2 DEF Reached
    <3> QED BY Zenon, <1>1, <3>2, <3>3
  <2> QED BY <2>1, <2>2
<1>3. Reached(X, fields, E, 0) = [ok |-> TRUE, at |-> 16, got |-> NothingKept]
  <2>1. \A code, none : Says(fields, 0, code, none) = none
    <3>1. 1..0 = {}
      OBVIOUS
    <3> QED BY Zenon, <3>1 DEF Says
  <2>2. KeptOf(fields, 0) = NothingKept
    BY Zenon, <2>1 DEF KeptOf, NothingKept
  <2> QED BY <2>2 DEF Reached
<1> HIDE DEF st, p
<1>4. st.at = E /\ st.ok
  BY <1>2
<1>5. st.at >= E
  BY <1>1, <1>4
<1>6. FieldStep(m, E, st) = st
  BY Zenon, <1>5 DEF FieldStep
<1> QED BY Zenon, <1>2, <1>3, <1>6 DEF st

\* The fields are read, to the end of the header, and kept.
LEMMA FieldsAreRead ==
    ASSUME NEW N \in Nat, NEW m, NEW X, NEW fields, NEW E, Headed(m, X, fields, N, E)
    PROVE  FieldLoop(m, E)[E - 16] = [ok |-> TRUE, at |-> E, got |-> KeptOf(fields, N)]
<1> DEFINE V == E - 16
           Upto(n) == IF n < N THEN n ELSE N
           R(n) == Reached(X, fields, E, n)
           f == [n \in 0..V |-> R(Upto(n))]
           L == FieldLoop(m, E)
<1>1. V \in Nat /\ N <= V
  <2> DEFINE l == Len(SpecFields(X, fields)[N])
  <2>1. N \in 0..N
    OBVIOUS
  <2>2. l \in Nat /\ E \in Nat /\ l >= 16 + N /\ l <= E
    BY Zenon, <2>1, HeadersAre
  <2> HIDE DEF l
  <2> QED BY <2>2
<1>2. ASSUME NEW n \in 1..N PROVE FieldStep(m, E, R(n - 1)) = R(n)
  <2> HIDE DEF f, L, V
  <2> QED BY ReachedNext
<1>3. /\ FieldStep(m, E, R(N)) = R(N) /\ R(0) = [ok |-> TRUE, at |-> 16, got |-> NothingKept]
      /\ R(N) = [ok |-> TRUE, at |-> E, got |-> KeptOf(fields, N)]
  <2> HIDE DEF f, L, V
  <2> QED BY ReachedStays
<1> HIDE DEF R, V
<1>4. ASSUME NEW n \in 0..V PROVE f[n] = ReaderRound(m, E, f, n)
  <2>1. CASE n = 0
    <3>1. Upto(0) = 0
      OBVIOUS
    <3>2. f[0] = R(0)
      BY <1>1, <3>1
    <3> HIDE DEF f
    <3> QED BY Zenon, <1>3, <2>1, <3>2 DEF ReaderRound
  <2>2. CASE n \in 1..N
    <3>1. Upto(n) = n /\ Upto(n - 1) = n - 1 /\ n - 1 \in 0..V
      BY <1>1, <2>2
    <3>2. f[n] = R(n) /\ f[n - 1] = R(n - 1)
      BY Zenon, <3>1
    <3>3. n # 0
      BY <2>2
    <3> HIDE DEF f
    <3> QED BY Zenon, <1>2, <2>2, <3>2, <3>3 DEF ReaderRound
  <2>3. CASE n > N
    <3>1. Upto(n) = N /\ Upto(n - 1) = N /\ n - 1 \in 0..V /\ n # 0
      BY <1>1, <2>3
    <3>2. f[n] = R(N) /\ f[n - 1] = R(N)
      BY Zenon, <3>1
    <3> HIDE DEF f
    <3> QED BY Zenon, <1>3, <3>1, <3>2 DEF ReaderRound
  <2>4. n = 0 \/ n \in 1..N \/ n > N
    BY <1>1
  <2> QED BY Zenon, <2>1, <2>2, <2>3, <2>4
<1>5. L = CHOOSE g : g = [n \in 0..V |-> ReaderRound(m, E, g, n)]
  BY Zenon DEF FieldLoop, ReaderRound, V
<1>6. f = [n \in 0..V |-> ReaderRound(m, E, f, n)]
  <2> DEFINE h == [n \in 0..V |-> ReaderRound(m, E, f, n)]
  <2>1. \A n \in 0..V : f[n] = h[n]
    BY Zenon, <1>4
  <2>2. DOMAIN f = 0..V /\ DOMAIN h = 0..V
    BY Zenon
  <2> QED BY Zenon, <1>4
<1> HIDE DEF L, f
<1>7. L = [n \in 0..V |-> ReaderRound(m, E, L, n)]
  BY Zenon, <1>5, <1>6
<1> DEFINE G == {n \in 0..V : L[n] = f[n]}
<1>8. L[0] = f[0]
  <2>1. 0 \in 0..V
    BY <1>1
  <2>2. L[0] = ReaderRound(m, E, L, 0) /\ f[0] = ReaderRound(m, E, f, 0)
    BY Zenon, <1>4, <1>7, <2>1
  <2> QED BY Zenon, <2>2 DEF ReaderRound
<1>9. ASSUME NEW n \in 1..V, n - 1 \in G PROVE n \in G
  <2>1. n \in 0..V /\ n # 0
    BY <1>1
  <2>2. L[n] = ReaderRound(m, E, L, n) /\ f[n] = ReaderRound(m, E, f, n) /\ L[n - 1] = f[n - 1]
    BY Zenon, <1>4, <1>7, <1>9, <2>1
  <2>3. L[n] = f[n]
    BY Zenon, <2>1, <2>2 DEF ReaderRound
  <2> QED BY Zenon, <2>1, <2>3
<1>10. G = 0..V
  <2>1. G \in SUBSET (0..V) /\ 0 \in G
    BY <1>1, <1>8
  <2> HIDE DEF G
  <2> QED BY <1>1, <1>9, <2>1, EveryRound
<1>11. L[V] = f[V]
  <2>1. V \in 0..V
    BY <1>1
  <2> QED BY Zenon, <1>10, <2>1
<1>12. f[V] = R(N)
  <2>1. V \in 0..V /\ Upto(V) = N
    BY <1>1
  <2> QED BY Zenon, <2>1 DEF f
<1> QED BY Zenon, <1>3, <1>11, <1>12 DEF L, V

(***************************************************************************)
(* The body of a reply.                                                    *)
(***************************************************************************)

\* A list of strings, and its elements as values.
IsTexts(list, N) == list \in Seq(Bytes) /\ N = Len(list)
Texts(list) == [i \in DOMAIN list |-> [type |-> Type.s, val |-> list[i]]]

\* Strings are values of the D-Bus specification.
LEMMA TextsAre ==
    ASSUME NEW N \in Nat, NEW list, IsTexts(list, N)
    PROVE  /\ SpecValues(Texts(list))[0] = <<>>
           /\ \A n \in 1..N : list[n] \in Bytes
           /\ \A n \in 1..N : SpecValues(Texts(list))[n] =
                                  SpecPad(SpecValues(Texts(list))[n - 1], 4) \o StrBytes(list[n])
           /\ Len(Texts(list)) = N
<1> DEFINE t == Texts(list)
<1>1. t = [i \in 1..N |-> [type |-> Type.s, val |-> list[i]]]
  BY DEF Texts, IsTexts
<1>2. \A n \in 1..N : list[n] \in Bytes
  BY DEF IsTexts
<1> HIDE DEF t
<1>3. Len(t) = N /\ \A n \in 1..N : t[n] = [type |-> Type.s, val |-> list[n]]
  BY <1>1
<1>4. ASSUME NEW n \in 1..N
      PROVE  IsValue(t[n]) /\ t[n].type \in {Type.s, Type.o} /\ t[n].val = list[n]
  <2>1. t[n].type = Type.s /\ t[n].val = list[n] /\ list[n] \in Bytes
    BY <1>2, <1>3
  <2> QED BY Zenon, <2>1 DEF IsValue
<1>5. IsValues(t, N)
  BY Zenon, <1>3, <1>4 DEF IsValues
<1>6. /\ SpecValues(t)[0] = <<>>
      /\ \A n \in 1..N : SpecValues(t)[n] = SpecValue(SpecValues(t)[n - 1], t[n])
  BY <1>5, ValueRounds
<1>7. ASSUME NEW n \in 1..N
      PROVE  SpecValues(t)[n] = SpecPad(SpecValues(t)[n - 1], 4) \o StrBytes(list[n])
  <2> DEFINE S == SpecValues(t)[n - 1]
             a == t[n]
  <2>1. SpecValues(t)[n] = SpecValue(S, a) /\ a.type \in {Type.s, Type.o} /\ a.val = list[n]
    BY Zenon, <1>4, <1>6
  <2> HIDE DEF S, a
  <2>2. SpecValue(S, a) = SpecPad(S, 4) \o StrBytes(list[n])
    BY <2>1, SpecBytesOf
  <2> QED BY Zenon, <2>1, <2>2 DEF S
<1> QED BY <1>2, <1>3, <1>6, <1>7 DEF t

\* A string after others, aligned.
LEMMA TextIs ==
    ASSUME NEW S \in Bytes, NEW s \in Bytes
    PROVE  /\ SpecPad(S, 4) \o StrBytes(s) \in Bytes
           /\ Len(SpecPad(S, 4) \o StrBytes(s)) = Len(S) + Gap(Len(S), 4) + 5 + Len(s)
           /\ Len(S) \in Nat /\ Gap(Len(S), 4) \in Nat /\ Len(s) \in Nat
           /\ Prefix(S, SpecPad(S, 4) \o StrBytes(s))
           /\ SpecPad(S, 4) \in Bytes /\ Len(SpecPad(S, 4)) = Len(S) + Gap(Len(S), 4)
           /\ StrBytes(s) \in Bytes /\ Len(StrBytes(s)) = 5 + Len(s)
<1> DEFINE P == SpecPad(S, 4)
           c == StrBytes(s)
           R == P \o c
           g == Gap(Len(S), 4)
<1>1. P \in Bytes /\ Len(P) = Len(S) + g /\ g \in Nat /\ Len(S) \in Nat
      /\ \A i \in 1..Len(S) : P[i] = S[i]
  BY PadIs
<1>2. c \in Bytes /\ Len(c) = 5 + Len(s) /\ Len(s) \in Nat
  BY StrIs
<1> HIDE DEF P, c, g
<1>3. R \in Bytes /\ Len(R) = Len(P) + Len(c) /\ \A i \in 1..Len(P) : R[i] = P[i]
  BY <1>1, <1>2, ConcatIs
<1> HIDE DEF R
<1>4. Len(R) = Len(S) + g + 5 + Len(s)
  BY <1>1, <1>2, <1>3
<1>5. Prefix(S, R)
  <2>1. Len(S) <= Len(R)
    BY <1>1, <1>2, <1>4
  <2>2. ASSUME NEW i \in 1..Len(S) PROVE R[i] = S[i]
    <3>1. i \in 1..Len(P)
      BY <1>1
    <3> QED BY Zenon, <1>1, <1>3, <3>1
  <2> QED BY Zenon, <1>3, <2>1, <2>2 DEF Prefix
<1> QED BY Zenon, <1>1, <1>2, <1>3, <1>4, <1>5 DEF P, c, g, R

\* The bytes of the first strings of a list, and of all of them.
LEMMA TextsGrow ==
    ASSUME NEW N \in Nat, NEW list, IsTexts(list, N), NEW k \in 0..N
    PROVE  /\ SpecValues(Texts(list))[k] \in Bytes /\ Len(SpecValues(Texts(list))[k]) \in Nat
           /\ Len(SpecValues(Texts(list))[k]) >= k
           /\ Prefix(SpecValues(Texts(list))[k], SpecValues(Texts(list))[N])
<1> DEFINE F == SpecValues(Texts(list))
           G == {n \in 0..N : F[n] \in Bytes /\ Len(F[n]) \in Nat /\ Len(F[n]) >= n}
<1>1. /\ F[0] = <<>>
      /\ \A n \in 1..N : list[n] \in Bytes
      /\ \A n \in 1..N : F[n] = SpecPad(F[n - 1], 4) \o StrBytes(list[n])
  BY TextsAre
<1> HIDE DEF F
<1>2. 0 \in G
  <2>1. <<>> \in Bytes /\ Len(<<>>) = 0
    BY DEF Bytes
  <2> QED BY <1>1, <2>1
<1>3. ASSUME NEW n \in 1..N, n - 1 \in G PROVE n \in G
  <2> DEFINE S == F[n - 1]
             s == list[n]
             R == F[n]
  <2>1. S \in Bytes /\ s \in Bytes /\ R = SpecPad(S, 4) \o StrBytes(s) /\ Len(S) >= n - 1
    BY <1>1, <1>3
  <2> HIDE DEF S, s, R
  <2>2. R \in Bytes /\ Len(R) = Len(S) + Gap(Len(S), 4) + 5 + Len(s)
        /\ Len(S) \in Nat /\ Gap(Len(S), 4) \in Nat /\ Len(s) \in Nat
    BY <2>1, TextIs
  <2>3. Len(R) \in Nat /\ Len(R) >= n
    <3> DEFINE a == Len(R)
               b == Len(S)
               c == Gap(b, 4)
               d == Len(s)
    <3>1. a = b + c + 5 + d /\ b \in Nat /\ c \in Nat /\ d \in Nat /\ b >= n - 1
      BY Zenon, <2>1, <2>2
    <3> HIDE DEF a, b, c, d
    <3>2. a \in Nat /\ a >= n
      BY <3>1
    <3> QED BY <3>2 DEF a
  <2> QED BY <2>2, <2>3 DEF R
<1>4. G = 0..N
  <2>1. G \in SUBSET (0..N)
    OBVIOUS
  <2> HIDE DEF G
  <2> QED BY <1>2, <1>3, <2>1, EveryRound
<1>5. \A n \in 0..N : F[n] \in Bytes /\ Len(F[n]) \in Nat /\ Len(F[n]) >= n
  BY Zenon, <1>4
<1>6. ASSUME NEW n \in 1..N PROVE Prefix(F[n - 1], F[n])
  <2> DEFINE S == F[n - 1]
             s == list[n]
  <2>1. S \in Bytes /\ s \in Bytes /\ F[n] = SpecPad(S, 4) \o StrBytes(s)
    BY <1>1, <1>5
  <2> HIDE DEF S, s
  <2>2. Prefix(S, SpecPad(S, 4) \o StrBytes(s))
    BY Zenon, <2>1, TextIs
  <2> QED BY Zenon, <2>1, <2>2 DEF S
<1>7. Prefix(F[k], F[N])
  <2>1. N \in k..N
    OBVIOUS
  <2>2. \A n \in k..N : Prefix(F[k], F[n])
    BY Zenon, <1>5, <1>6, Grows
  <2> QED BY Zenon, <2>1, <2>2
<1> QED BY Zenon, <1>5, <1>7 DEF F

\* The first strings of a list, with one more of them.
LEMMA FirstsNext ==
    ASSUME NEW N \in Nat, NEW list, IsTexts(list, N), NEW n \in 1..N
    PROVE  Append(SubSeq(list, 1, n - 1), list[n]) = SubSeq(list, 1, n)
<1>1. list \in Seq(Bytes) /\ N = Len(list) /\ list[n] \in Bytes
  BY DEF IsTexts
<1> DEFINE a == SubSeq(list, 1, n - 1)
           b == SubSeq(list, 1, n)
           c == Append(a, list[n])
<1>2. a \in Seq(Bytes) /\ Len(a) = n - 1 /\ \A i \in 1..(n - 1) : a[i] = list[i]
  <2>1. a = [i \in 1..(n - 1) |-> list[i]]
    BY <1>1 DEF IsTexts
  <2>2. \A i \in 1..(n - 1) : list[i] \in Bytes
    BY <1>1
  <2> HIDE DEF a
  <2> QED BY <2>1, <2>2
<1>3. b \in Seq(Bytes) /\ Len(b) = n /\ \A i \in 1..n : b[i] = list[i]
  <2>1. b = [i \in 1..n |-> list[i]]
    BY <1>1 DEF IsTexts
  <2>2. \A i \in 1..n : list[i] \in Bytes
    BY <1>1
  <2> HIDE DEF b
  <2> QED BY <2>1, <2>2
<1> HIDE DEF a, b
<1>4. c \in Seq(Bytes) /\ Len(c) = n
  BY <1>1, <1>2
<1>5. ASSUME NEW i \in 1..n PROVE c[i] = b[i]
  BY <1>1, <1>2, <1>3
<1>6. c = b
  <2> HIDE DEF c
  <2> QED BY <1>3, <1>4, <1>5, SeqEqual
<1> QED BY <1>6 DEF a, b, c

\* A slice of a message in which a list of strings stands.
Listed(m, list, N, base, end) ==
    /\ IsTexts(list, N) /\ base \in Nat /\ end \in Word
    /\ end = base + Len(SpecValues(Texts(list))[N])
    /\ Stands(m, base, SpecValues(Texts(list))[N])

\* Where the reader is, and what it has, after n strings.
TextsReached(list, base, end, n) ==
    Got(SkipPad(base + Len(SpecValues(Texts(list))[n]), base, end, 4), SubSeq(list, 1, n))

\* A round of rd_value reads the next string.
LEMMA TextsNext ==
    ASSUME NEW N \in Nat, NEW m, NEW list, NEW base, NEW end, Listed(m, list, N, base, end),
           NEW n \in 1..N
    PROVE  StrStep(m, base, end, TextsReached(list, base, end, n - 1)) =
               TextsReached(list, base, end, n)
<1> DEFINE F == SpecValues(Texts(list))
           S == F[n - 1]
           R == F[n]
           Z == F[N]
           s == list[n]
           c == StrBytes(s)
           p == Len(S)
           g == Gap(p, 4)
           st == TextsReached(list, base, end, n - 1)
           at == base + (p + g)
<1>1. IsTexts(list, N) /\ base \in Nat /\ end \in Word /\ end = base + Len(Z) /\ Stands(m, base, Z)
  BY Zenon DEF Listed
<1>2. n - 1 \in 0..N /\ n \in 0..N /\ n \in Nat
  OBVIOUS
<1>3. S \in Bytes /\ s \in Bytes /\ R = SpecPad(S, 4) \o c
  <2>1. s \in Bytes /\ R = SpecPad(S, 4) \o c
    BY <1>1, TextsAre
  <2>2. S \in Bytes
    BY Zenon, <1>1, <1>2, TextsGrow
  <2> QED BY Zenon, <2>1, <2>2
<1>4. Prefix(R, Z)
  BY Zenon, <1>1, <1>2, TextsGrow
<1>5. Append(SubSeq(list, 1, n - 1), s) = SubSeq(list, 1, n)
  BY <1>1, FirstsNext
<1>6. st.ok /\ st.at = SkipPad(base + p, base, end, 4) /\ st.val = SubSeq(list, 1, n - 1)
  <2> DEFINE x == SkipPad(base + p, base, end, 4)
             y == SubSeq(list, 1, n - 1)
  <2>1. st = Got(x, y)
    BY Zenon DEF TextsReached
  <2> HIDE DEF st, x, y
  <2>2. st.ok /\ st.at = x /\ st.val = y
    BY <2>1, GotIs
  <2> QED BY Zenon, <2>2 DEF x, y
<1> HIDE DEF F, S, R, Z, s, st
<1>7. R \in Bytes /\ Len(R) = p + g + 5 + Len(s) /\ p \in Nat /\ g \in Nat /\ Len(s) \in Nat
      /\ SpecPad(S, 4) \in Bytes /\ Len(SpecPad(S, 4)) = p + g /\ c \in Bytes /\ Len(c) = 5 + Len(s)
  BY <1>3, TextIs
<1> HIDE DEF p, c, g
<1>8. Len(Z) \in Nat /\ Len(R) <= Len(Z) /\ (\A i \in 1..Len(R) : Z[i] = R[i]) /\ end \in Nat
  BY <1>1, <1>4, ByteAt, WordIs DEF Prefix
<1>9. /\ at \in Nat /\ at + Len(c) = base + Len(R) /\ base + Len(R) <= end /\ at + Len(c) <= end
      /\ ~(at >= end) /\ base + p + g <= end /\ base + p <= end /\ at = base + p + g
      /\ Len(s) <= end
  <2> DEFINE r == Len(R)
             z == Len(Z)
             l == Len(s)
             k == Len(c)
  <2>1. r = p + g + 5 + l /\ k = 5 + l /\ p \in Nat /\ g \in Nat /\ l \in Nat /\ z \in Nat /\ r <= z
        /\ end = base + z /\ base \in Nat
    BY Zenon, <1>1, <1>7, <1>8
  <2> HIDE DEF r, z, l, k
  <2>2. /\ at \in Nat /\ at + k = base + r /\ base + r <= end /\ at + k <= end
        /\ ~(at >= end) /\ base + p + g <= end /\ base + p <= end /\ at = base + p + g
        /\ l <= end
    BY <2>1
  <2> QED BY Zenon, <2>2 DEF r, l, k
<1>10. Len(s) \in Word
  BY <1>1, <1>7, <1>8, <1>9 DEF Word
<1>11. st.at = at
  <2>1. SkipPad(base + p, base, end, 4) = base + p + Gap(p, 4)
    BY <1>1, <1>7, <1>8, <1>9, SkipPadIs DEF g
  <2> QED BY Zenon, <1>6, <1>9, <2>1 DEF g
<1>12. Stands(m, at, c)
  <2>1. Stands(m, base, R)
    <3> DEFINE r == Len(R)
               z == Len(Z)
    <3>1. r \in Nat /\ z \in Nat /\ r <= z
      <4> HIDE DEF z, r
      <4> QED BY <1>7, <1>8, ByteAt DEF r, z
    <3> HIDE DEF r, z
    <3>2. 1..r \subseteq 1..z
      BY <3>1
    <3> QED BY Zenon, <1>1, <1>8, <3>2 DEF Stands, r, z
  <2>2. Stands(m, base + Len(SpecPad(S, 4)), c)
    BY Zenon, <1>1, <1>3, <1>7, <2>1, StandsTwo
  <2> QED BY Zenon, <1>7, <2>2
<1> HIDE DEF at
<1> DEFINE v == ReadStr(m, at, base, end)
           e == SkipPad(base + Len(R), base, end, 4)
           all == SubSeq(list, 1, n)
<1>13. v = Got(e, s)
  <2> DEFINE a == at
             r == base + Len(R)
  <2>1. s \in Bytes /\ Len(s) \in Word /\ a \in Nat /\ end \in Nat /\ Stands(m, a, StrBytes(s))
        /\ a + Len(StrBytes(s)) <= end
    BY Zenon, <1>3, <1>8, <1>9, <1>10, <1>12 DEF c
  <2>2. ReadStr(m, a, base, end) = Got(SkipPad(a + Len(StrBytes(s)), base, end, 4), s)
    <3> HIDE DEF a
    <3> QED BY <2>1, ReadStrIs
  <2> QED BY Zenon, <1>9, <2>2 DEF c
<1> HIDE DEF v, e
<1>14. v.ok /\ [v EXCEPT !.val = Append(st.val, @)] = Got(e, all)
  <2>1. v.ok /\ v.val = s /\ [v EXCEPT !.val = all] = Got(e, all)
    <3> HIDE DEF all
    <3>1. v.ok /\ v.val = s
      BY <1>13, GotIs
    <3>2. [v EXCEPT !.val = all] = Got(e, all)
      BY Zenon, <1>13, GotNew
    <3> QED BY Zenon, <3>1, <3>2
  <2>2. Append(st.val, v.val) = all
    BY Zenon, <1>5, <1>6, <2>1
  <2> QED BY Zenon, <2>1, <2>2
<1>15. StrStep(m, base, end, st) = Got(e, all)
  BY Zenon, <1>6, <1>9, <1>11, <1>14 DEF StrStep, v
<1> QED BY Zenon, <1>15 DEF TextsReached, st, R, F, e

TextRound(m, base, end, g, n) == IF n = 0 THEN Got(base, <<>>) ELSE StrStep(m, base, end, g[n - 1])

\* Rounds after the last string change nothing.
LEMMA TextsStay ==
    ASSUME NEW N \in Nat, NEW m, NEW list, NEW base, NEW end, Listed(m, list, N, base, end)
    PROVE  /\ TextsReached(list, base, end, 0) = Got(base, <<>>)
           /\ TextsReached(list, base, end, N) = Got(end, list)
           /\ StrStep(m, base, end, Got(end, list)) = Got(end, list)
<1> DEFINE F == SpecValues(Texts(list))
           z == Len(F[N])
<1>1. IsTexts(list, N) /\ base \in Nat /\ end \in Nat /\ end = base + z
  BY Zenon, WordIs DEF Listed
<1>2. z \in Nat
  <2>1. N \in 0..N
    OBVIOUS
  <2> QED BY Zenon, <1>1, <2>1, TextsGrow
<1>3. F[0] = <<>>
  BY <1>1, TextsAre
<1>4. SubSeq(list, 1, 0) = <<>> /\ SubSeq(list, 1, N) = list
  <2>1. list \in Seq(Bytes) /\ N = Len(list)
    BY <1>1 DEF IsTexts
  <2> QED BY <2>1
<1> HIDE DEF F, z
<1>5. SkipPad(base + Len(F[0]), base, end, 4) = base
  <2>1. Len(F[0]) = 0
    BY <1>3
  <2>2. Gap(0, 4) = 0
    BY DEF Gap
  <2>3. 0 \in Nat /\ base + 0 <= end /\ base + 0 + Gap(0, 4) <= end /\ base + 0 + Gap(0, 4) = base
    BY <1>1, <1>2, <2>2
  <2>4. SkipPad(base + 0, base, end, 4) = base
    BY <1>1, <2>3, SkipPadIs
  <2> QED BY Zenon, <2>1, <2>4
<1>6. SkipPad(base + z, base, end, 4) = end
  <2>1. base + z <= end /\ base + z = end
    BY <1>1, <1>2
  <2> QED BY <1>1, <1>2, <2>1, SkipPadIs
<1>7. TextsReached(list, base, end, 0) = Got(base, <<>>)
  BY Zenon, <1>4, <1>5 DEF TextsReached, F
<1>8. TextsReached(list, base, end, N) = Got(end, list)
  BY Zenon, <1>4, <1>6 DEF TextsReached, F, z
<1>9. StrStep(m, base, end, Got(end, list)) = Got(end, list)
  <2> DEFINE st == Got(end, list)
  <2>1. st.at = end
    BY GotIs
  <2>2. st.at >= end
    BY <1>1, <2>1
  <2> HIDE DEF st
  <2>3. StrStep(m, base, end, st) = st
    BY Zenon, <2>2 DEF StrStep
  <2> QED BY Zenon, <2>3 DEF st
<1> QED BY Zenon, <1>7, <1>8, <1>9

\* A list of strings is read, to its end.
LEMMA TextsAreRead ==
    ASSUME NEW N \in Nat, NEW m, NEW list, NEW base, NEW end, Listed(m, list, N, base, end)
    PROVE  StrLoop(m, base, end)[end - base] = Got(end, list)
<1> DEFINE V == end - base
           Upto(n) == IF n < N THEN n ELSE N
           R(n) == TextsReached(list, base, end, n)
           f == [n \in 0..V |-> R(Upto(n))]
           L == StrLoop(m, base, end)
<1>1. V \in Nat /\ N <= V
  <2> DEFINE l == Len(SpecValues(Texts(list))[N])
  <2>1. N \in 0..N /\ end = base + l /\ base \in Nat /\ IsTexts(list, N)
    BY DEF Listed
  <2>2. l \in Nat /\ l >= N
    BY Zenon, <2>1, TextsGrow
  <2> HIDE DEF l
  <2> QED BY <2>1, <2>2
<1>2. ASSUME NEW n \in 1..N PROVE StrStep(m, base, end, R(n - 1)) = R(n)
  <2> HIDE DEF f, L, V
  <2> QED BY TextsNext
<1>3. /\ StrStep(m, base, end, R(N)) = R(N) /\ R(0) = Got(base, <<>>)
      /\ R(N) = Got(end, list)
  <2> HIDE DEF f, L, V
  <2> QED BY TextsStay
<1> HIDE DEF R, V
<1>4. ASSUME NEW n \in 0..V PROVE f[n] = TextRound(m, base, end, f, n)
  <2>1. CASE n = 0
    <3>1. Upto(0) = 0
      OBVIOUS
    <3>2. f[0] = R(0)
      BY <1>1, <3>1
    <3> HIDE DEF f
    <3> QED BY Zenon, <1>3, <2>1, <3>2 DEF TextRound
  <2>2. CASE n \in 1..N
    <3>1. Upto(n) = n /\ Upto(n - 1) = n - 1 /\ n - 1 \in 0..V
      BY <1>1, <2>2
    <3>2. f[n] = R(n) /\ f[n - 1] = R(n - 1)
      BY Zenon, <3>1
    <3>3. n # 0
      BY <2>2
    <3> HIDE DEF f
    <3> QED BY Zenon, <1>2, <2>2, <3>2, <3>3 DEF TextRound
  <2>3. CASE n > N
    <3>1. Upto(n) = N /\ Upto(n - 1) = N /\ n - 1 \in 0..V /\ n # 0
      BY <1>1, <2>3
    <3>2. f[n] = R(N) /\ f[n - 1] = R(N)
      BY Zenon, <3>1
    <3> HIDE DEF f
    <3> QED BY Zenon, <1>3, <3>1, <3>2 DEF TextRound
  <2>4. n = 0 \/ n \in 1..N \/ n > N
    BY <1>1
  <2> QED BY Zenon, <2>1, <2>2, <2>3, <2>4
<1>5. L = CHOOSE g : g = [n \in 0..V |-> TextRound(m, base, end, g, n)]
  BY Zenon DEF StrLoop, TextRound, Got, V
<1>6. f = [n \in 0..V |-> TextRound(m, base, end, f, n)]
  BY Zenon, <1>4
<1> HIDE DEF L, f
<1>7. L = [n \in 0..V |-> TextRound(m, base, end, L, n)]
  BY Zenon, <1>5, <1>6
<1> DEFINE G == {n \in 0..V : L[n] = f[n]}
<1>8. L[0] = f[0]
  <2>1. 0 \in 0..V
    BY <1>1
  <2>2. L[0] = TextRound(m, base, end, L, 0) /\ f[0] = TextRound(m, base, end, f, 0)
    BY Zenon, <1>4, <1>7, <2>1
  <2> QED BY Zenon, <2>2 DEF TextRound
<1>9. ASSUME NEW n \in 1..V, n - 1 \in G PROVE n \in G
  <2>1. n \in 0..V /\ n # 0
    BY <1>1
  <2>2. L[n] = TextRound(m, base, end, L, n) /\ f[n] = TextRound(m, base, end, f, n)
        /\ L[n - 1] = f[n - 1]
    BY Zenon, <1>4, <1>7, <1>9, <2>1
  <2>3. L[n] = f[n]
    BY Zenon, <2>1, <2>2 DEF TextRound
  <2> QED BY Zenon, <2>1, <2>3
<1>10. G = 0..V
  <2>1. G \in SUBSET (0..V) /\ 0 \in G
    BY <1>1, <1>8
  <2> HIDE DEF G
  <2> QED BY <1>1, <1>9, <2>1, EveryRound
<1>11. L[V] = f[V]
  <2>1. V \in 0..V
    BY <1>1
  <2> QED BY Zenon, <1>10, <2>1
<1>12. f[V] = R(N)
  <2>1. V \in 0..V /\ Upto(V) = N
    BY <1>1
  <2> QED BY Zenon, <2>1 DEF f
<1> QED BY Zenon, <1>3, <1>11, <1>12 DEF L, V

\* The bodies whose replies the client reads.
IsBody(b) ==
    \/ b.sig = <<>> /\ b.val = <<>>
    \/ b.sig \in {<<Type.s>>, <<Type.v>>} /\ \E s \in Bytes : b.val = <<s>>
    \/ b.sig = <<Type.a, Type.s>> /\ b.val \in Seq(Bytes)

\* The signatures the client knows are different.
LEMMA SignaturesDiffer ==
    /\ <<Type.s>> # <<>> /\ <<Type.v>> # <<>> /\ <<Type.a, Type.s>> # <<>>
    /\ <<Type.s>> # <<Type.v>> /\ <<Type.s>> # <<Type.a, Type.s>> /\ <<Type.v>> # <<Type.a, Type.s>>
<1> DEFINE s == Type.s
           v == Type.v
           a == Type.a
<1>1. s # v
  BY TypesDiffer
<1> HIDE DEF s, v, a
<1>2. Len(<<s>>) = 1 /\ Len(<<v>>) = 1 /\ Len(<<a, s>>) = 2 /\ Len(<<>>) = 0
      /\ <<s>>[1] = s /\ <<v>>[1] = v
  OBVIOUS
<1>3. /\ <<s>> # <<>> /\ <<v>> # <<>> /\ <<a, s>> # <<>>
      /\ <<s>> # <<v>> /\ <<s>> # <<a, s>> /\ <<v>> # <<a, s>>
  BY <1>1, <1>2
<1> QED BY Zenon, <1>3 DEF s, v, a

Whole(v, end) == IF v.ok /\ v.at = end THEN v ELSE Bad
One(v) == [v EXCEPT !.val = IF v.ok THEN <<@>> ELSE @]

\* A body that is read to its end is kept.
LEMMA WholeIs ==
    ASSUME NEW end, NEW s
    PROVE  Whole(Got(end, s), end) = Got(end, s) /\ One(Got(end, s)) = Got(end, <<s>>)
<1> DEFINE v == Got(end, s)
           new == <<s>>
<1>1. v.ok /\ v.at = end /\ v.val = s
  BY GotIs
<1>2. (IF v.ok THEN <<v.val>> ELSE v.val) = new
  BY Zenon, <1>1
<1>3. [v EXCEPT !.val = new] = Got(end, new)
  BY Zenon, GotNew
<1> HIDE DEF v
<1>4. One(v) = [v EXCEPT !.val = new]
  BY Zenon, <1>2 DEF One
<1>5. Whole(v, end) = v
  BY Zenon, <1>1 DEF Whole
<1> QED BY Zenon, <1>3, <1>4, <1>5 DEF v

\* How a body of each signature is read.
LEMMA ReadBodyOf ==
    ASSUME NEW m, NEW at, NEW end
    PROVE  /\ ReadBody(m, at, end, <<>>) = [ok |-> TRUE, at |-> at, val |-> <<>>]
           /\ ReadBody(m, at, end, <<Type.s>>) = One(Whole(ReadStr(m, at, at, end), end))
           /\ ReadBody(m, at, end, <<Type.a, Type.s>>) =
                 IF at + 4 > end THEN Bad
                 ELSE IF at + 4 + U32At(m, at) > end THEN Bad
                 ELSE Whole(StrLoop(m, at + 4, at + 4 + U32At(m, at))[U32At(m, at)], end)
           /\ ReadBody(m, at, end, <<Type.v>>) =
                 IF at + 3 > end THEN Bad
                 ELSE IF m[at + 1] # 1 \/ m[at + 2] # Type.s THEN Bad
                 ELSE One(Whole(ReadStr(m, SkipPad(at + 3, at, end, 4), at, end), end))
<1> DEFINE none == <<>>
           s == <<Type.s>>
           v == <<Type.v>>
           a == <<Type.a, Type.s>>
<1>1. s # none /\ v # none /\ a # none /\ s # v /\ s # a /\ v # a
  BY Zenon, SignaturesDiffer
<1>2. ASSUME NEW sig
      PROVE  ReadBody(m, at, end, sig) =
                CASE sig = none -> [ok |-> TRUE, at |-> at, val |-> <<>>]
                  [] sig = s -> One(Whole(ReadStr(m, at, at, end), end))
                  [] sig = a ->
                        IF at + 4 > end THEN Bad
                        ELSE IF at + 4 + U32At(m, at) > end THEN Bad
                        ELSE Whole(StrLoop(m, at + 4, at + 4 + U32At(m, at))[U32At(m, at)], end)
                  [] sig = v ->
                        IF at + 3 > end THEN Bad
                        ELSE IF m[at + 1] # 1 \/ m[at + 2] # Type.s THEN Bad
                        ELSE One(Whole(ReadStr(m, SkipPad(at + 3, at, end, 4), at, end), end))
                  [] OTHER -> Bad
  BY Zenon DEF ReadBody, One, Whole
<1> DEFINE x1 == [ok |-> TRUE, at |-> at, val |-> <<>>]
           x2 == One(Whole(ReadStr(m, at, at, end), end))
           x3 == IF at + 4 > end THEN Bad
                 ELSE IF at + 4 + U32At(m, at) > end THEN Bad
                 ELSE Whole(StrLoop(m, at + 4, at + 4 + U32At(m, at))[U32At(m, at)], end)
           x4 == IF at + 3 > end THEN Bad
                 ELSE IF m[at + 1] # 1 \/ m[at + 2] # Type.s THEN Bad
                 ELSE One(Whole(ReadStr(m, SkipPad(at + 3, at, end, 4), at, end), end))
<1>3. ASSUME NEW sig
      PROVE  ReadBody(m, at, end, sig) =
                CASE sig = none -> x1 [] sig = s -> x2 [] sig = a -> x3 [] sig = v -> x4 [] OTHER -> Bad
  BY Zenon, <1>2
<1> HIDE DEF x1, x2, x3, x4, none, s, v, a
<1>4. /\ ReadBody(m, at, end, none) = x1 /\ ReadBody(m, at, end, s) = x2
      /\ ReadBody(m, at, end, a) = x3 /\ ReadBody(m, at, end, v) = x4
  BY <1>1, <1>3
<1> QED BY Zenon, <1>4 DEF x1, x2, x3, x4, none, s, v, a

\* Bytes that stand in a message, up to a position.
StandsTo(m, at, c, end) == Stands(m, at, c) /\ end = at + Len(c)

\* One string.
Alone(s) == <<s>>

\* A string that is read at some place of a slice, to its end.
LEMMA LastString ==
    ASSUME NEW m, NEW at \in Nat, NEW from \in Nat, from >= at, NEW s \in Bytes, NEW end \in Word,
           StandsTo(m, from, StrBytes(s), end)
    PROVE  One(Whole(ReadStr(m, from, at, end), end)) = Got(end, Alone(s))
<1> DEFINE c == StrBytes(s)
           k == Len(c)
           l == Len(s)
           p == from - at
<1>1. p \in Nat /\ from = at + p
  OBVIOUS
<1>2. c \in Bytes /\ k = 5 + l /\ l \in Nat /\ end \in Nat
  BY StrIs, WordIs
<1>3. Stands(m, from, c) /\ end = from + k
  BY Zenon DEF StandsTo
<1>4. l \in Word
  <2>1. l <= end
    <3> HIDE DEF k, l
    <3> QED BY <1>3, <1>2
  <2> QED BY <1>2, <2>1 DEF Word
<1>5. ReadStr(m, from, at, end) = Got(SkipPad(from + k, at, end, 4), s)
  <2>1. s \in Bytes /\ Len(s) \in Word /\ end \in Nat
    BY Zenon, <1>2, <1>4
  <2>2. from \in Nat /\ from + Len(StrBytes(s)) <= end /\ Stands(m, from, StrBytes(s))
    <3> HIDE DEF c, k
    <3>1. from \in Nat /\ from + k <= end /\ Stands(m, from, c)
      BY <1>3, <1>2
    <3> QED BY Zenon, <3>1 DEF c, k
  <2> HIDE DEF c, k, l
  <2>3. ReadStr(m, from, at, end) = Got(SkipPad(from + Len(StrBytes(s)), at, end, 4), s)
    BY <2>1, <2>2, ReadStrIs
  <2> QED BY Zenon, <2>3 DEF c, k
<1>6. SkipPad(from + k, at, end, 4) = end
  <2>1. p + k \in Nat /\ at + (p + k) = end /\ at + (p + k) <= end /\ from + k = at + (p + k)
    <3> HIDE DEF k, p
    <3> QED BY <1>3, <1>2, <1>1
  <2> DEFINE q == p + k
  <2>2. q \in Nat /\ at + q = end /\ at + q <= end
    BY Zenon, <2>1
  <2> HIDE DEF q
  <2>3. SkipPad(at + q, at, end, 4) = end
    BY <1>2, <2>2, SkipPadIs
  <2> QED BY Zenon, <2>1, <2>3 DEF q
<1> QED BY Zenon, <1>5, <1>6, WholeIs DEF Alone

\* A string by itself is read.
LEMMA StringIsRead ==
    ASSUME NEW m, NEW at \in Nat, NEW s \in Bytes, NEW end \in Word,
           StandsTo(m, at, SpecString(<<>>, s), end)
    PROVE  ReadBody(m, at, end, <<Type.s>>) = Got(end, <<s>>)
<1> DEFINE c == StrBytes(s)
           none == <<>>
<1>1. c \in Bytes /\ Len(c) \in Nat
  BY StrIs, ByteAt
<1>2. SpecString(none, s) = c
  <2>1. SpecString(none, s) = SpecPad(none, 4) \o c
    BY Zenon DEF SpecString, StrBytes
  <2>2. none \in Bytes /\ Len(none) = 0 /\ Gap(0, 4) = 0
    BY EmptyIs DEF Gap
  <2>3. Len(Fill(0)) = 0 /\ Fill(0) \in Bytes
    BY FillIs
  <2>4. Fill(0) = <<>>
    <3> DEFINE z == Fill(0)
    <3> HIDE DEF z
    <3>1. z = <<>>
      BY <2>3, EmptySeq DEF z, Bytes
    <3> QED BY Zenon, <3>1 DEF z
  <2>5. SpecPad(none, 4) = none \o Fill(0)
    BY Zenon, <2>2 DEF SpecPad
  <2>6. none \o none = none
    BY <2>2
  <2>7. none \o c = c
    <3> HIDE DEF c
    <3> QED BY <1>1, ConcatEmptySeq DEF Bytes
  <2> QED BY Zenon, <2>1, <2>4, <2>5, <2>6, <2>7
<1>3. StandsTo(m, at, c, end)
  BY Zenon, <1>2
<1> HIDE DEF c
<1>4. One(Whole(ReadStr(m, at, at, end), end)) = Got(end, Alone(s))
  <2>1. at >= at /\ StandsTo(m, at, StrBytes(s), end)
    BY <1>3 DEF c
  <2> QED BY <2>1, LastString
<1>5. ReadBody(m, at, end, <<Type.s>>) = One(Whole(ReadStr(m, at, at, end), end))
  BY Zenon, ReadBodyOf
<1> QED BY Zenon, <1>4, <1>5 DEF Alone

\* A string in a variant is read.
LEMMA VariantIsRead ==
    ASSUME NEW m, NEW at \in Nat, NEW s \in Bytes, NEW end \in Word,
           StandsTo(m, at, SpecString(<<1, Type.s, 0>>, s), end)
    PROVE  ReadBody(m, at, end, <<Type.v>>) = Got(end, <<s>>)
<1> DEFINE c == StrBytes(s)
           Q == <<1, Type.s, 0>>
           P == SpecPad(Q, 4)
           R == SpecString(Q, s)
<1>1. Q \in Bytes /\ Len(Q) = 3 /\ Q[1] = 1 /\ Q[2] = Type.s
  BY TypesDiffer DEF Bytes, Byte
<1>2. R = P \o c
  BY Zenon DEF SpecString, StrBytes
<1>3. Gap(3, 4) = 1
  BY DEF Gap
<1>4. Stands(m, at, R) /\ end = at + Len(R)
  BY Zenon DEF StandsTo
<1> HIDE DEF Q, R
<1>5. /\ R \in Bytes /\ P \in Bytes /\ Len(P) = 4 /\ c \in Bytes /\ Len(c) = 5 + Len(s) /\ Len(s) \in Nat
      /\ Prefix(Q, R)
  <2>1. /\ P \o c \in Bytes /\ P \in Bytes /\ Len(P) = Len(Q) + Gap(Len(Q), 4)
        /\ c \in Bytes /\ Len(c) = 5 + Len(s) /\ Len(s) \in Nat /\ Prefix(Q, P \o c)
    BY Zenon, <1>1, TextIs
  <2>2. Len(P) = 3 + 1
    BY Zenon, <1>1, <1>3, <2>1
  <2>3. Len(P) = 4
    BY <2>2
  <2> QED BY Zenon, <1>2, <2>1, <2>3
<1> HIDE DEF P, c
<1>6. Stands(m, at, P) /\ Stands(m, at + 4, c) /\ Len(R) = 4 + Len(c)
  <2>1. Stands(m, at, P) /\ Stands(m, at + Len(P), c)
    BY Zenon, <1>4, <1>2, <1>5, StandsTwo
  <2>2. Len(P \o c) = Len(P) + Len(c)
    BY <1>5, ConcatIs
  <2> QED BY Zenon, <1>2, <1>5, <2>1, <2>2
<1>7. m[at + 1] = 1 /\ m[at + 2] = Type.s
  <2>1. \A i \in 1..Len(R) : m[at + i] = R[i]
    BY Zenon, <1>4 DEF Stands
  <2>2. \A i \in 1..Len(Q) : R[i] = Q[i]
    BY Zenon, <1>5 DEF Prefix
  <2>3. 1 \in 1..Len(R) /\ 2 \in 1..Len(R) /\ 1 \in 1..Len(Q) /\ 2 \in 1..Len(Q)
    BY <1>1, <1>5, <1>6
  <2>4. m[at + 1] = Q[1] /\ m[at + 2] = Q[2]
    BY Zenon, <2>1, <2>2, <2>3
  <2> QED BY Zenon, <1>1, <2>4
<1>8. end = at + 4 + Len(c) /\ end \in Nat
  BY <1>4, <1>5, <1>6, WordIs
<1>9. ~(at + 3 > end) /\ at + 3 <= end /\ at + 3 + 1 <= end /\ at + 3 + 1 = at + 4
  BY <1>5, <1>8
<1>10. SkipPad(at + 3, at, end, 4) = at + 4
  <2> DEFINE q == 3
  <2>1. q \in Nat /\ at + q <= end /\ at + q + Gap(q, 4) <= end
    BY <1>3, <1>9
  <2> HIDE DEF q
  <2>2. SkipPad(at + q, at, end, 4) = at + q + Gap(q, 4)
    BY <1>8, <2>1, SkipPadIs
  <2> QED BY <1>3, <1>9, <2>2 DEF q
<1>11. One(Whole(ReadStr(m, at + 4, at, end), end)) = Got(end, Alone(s))
  <2> DEFINE f == at + 4
  <2>1. f \in Nat /\ f >= at /\ StandsTo(m, f, StrBytes(s), end)
    <3>1. f \in Nat /\ f >= at
      OBVIOUS
    <3>2. StandsTo(m, f, c, end)
      BY Zenon, <1>6, <1>8 DEF StandsTo
    <3> QED BY Zenon, <3>1, <3>2 DEF c
  <2> HIDE DEF f
  <2>2. One(Whole(ReadStr(m, f, at, end), end)) = Got(end, Alone(s))
    BY <2>1, LastString
  <2> QED BY Zenon, <2>2 DEF f
<1>12. ReadBody(m, at, end, <<Type.v>>) =
           IF at + 3 > end THEN Bad
           ELSE IF m[at + 1] # 1 \/ m[at + 2] # Type.s THEN Bad
           ELSE One(Whole(ReadStr(m, SkipPad(at + 3, at, end, 4), at, end), end))
  BY ReadBodyOf
<1> QED BY Zenon, <1>7, <1>9, <1>10, <1>11, <1>12 DEF Alone

\* A list of strings is read.
LEMMA ListIsRead ==
    ASSUME NEW m, NEW at \in Nat, NEW list \in Seq(Bytes), NEW end \in Word,
           StandsTo(m, at, SpecStrings(list), end)
    PROVE  ReadBody(m, at, end, <<Type.a, Type.s>>) = Got(end, list) /\ SpecStrings(list) \in Bytes
<1> DEFINE N == Len(list)
           items == SpecValues(Texts(list))[N]
           z == Len(items)
           h == U32(z)
           R == SpecStrings(list)
           base == at + 4
<1>1. IsTexts(list, N) /\ N \in Nat
  BY DEF IsTexts
<1>2. Len(Texts(list)) = N
  <2> HIDE DEF N
  <2> QED BY Zenon, <1>1, TextsAre
<1>3. R = h \o items
  <2>1. SpecValues([i \in DOMAIN list |-> [type |-> Type.s, val |-> list[i]]])[Len(list)] = items
    BY Zenon DEF Texts
  <2> HIDE DEF items
  <2> QED BY Zenon, <2>1 DEF SpecStrings
<1>4. items \in Bytes /\ z \in Nat
  <2>1. N \in 0..N
    BY <1>1
  <2> HIDE DEF N
  <2> QED BY Zenon, <1>1, <2>1, TextsGrow
<1>5. Stands(m, at, R) /\ end = at + Len(R) /\ end \in Nat
  BY Zenon, WordIs DEF StandsTo
<1> HIDE DEF items, N, R
<1>6. h \in Bytes /\ Len(h) = 4
  <2> HIDE DEF z
  <2> QED BY <1>4, NumberIs
<1> HIDE DEF h
<1>7. R \in Bytes /\ Len(R) = 4 + z
  <2>1. h \o items \in Bytes /\ Len(h \o items) = Len(h) + z
    BY Zenon, <1>4, <1>6, ConcatIs
  <2> QED BY Zenon, <1>3, <1>6, <2>1
<1>8. Stands(m, at, h) /\ Stands(m, at + 4, items)
  <2>1. Stands(m, at, h) /\ Stands(m, at + Len(h), items)
    BY Zenon, <1>3, <1>4, <1>5, <1>6, StandsTwo
  <2> QED BY Zenon, <1>6, <2>1
<1> HIDE DEF z
<1>9. /\ end = base + z /\ base \in Nat /\ ~(at + 4 > end) /\ ~(base + z > end) /\ end - base = z
      /\ z <= end
  BY <1>4, <1>5, <1>7
<1>10. U32At(m, at) = z
  <2>1. z \in Word
    BY <1>4, <1>5, <1>9 DEF Word
  <2> QED BY <1>8, <2>1, NumberReads DEF h
<1> HIDE DEF base
<1>11. Listed(m, list, N, base, end)
  BY Zenon, <1>1, <1>8, <1>9 DEF Listed, items, z, base
<1>12. StrLoop(m, base, end)[end - base] = Got(end, list)
  BY <1>1, <1>11, TextsAreRead
<1>13. Whole(StrLoop(m, base, base + z)[z], end) = Got(end, list)
  BY Zenon, <1>9, <1>12, WholeIs
<1>14. ReadBody(m, at, end, <<Type.a, Type.s>>) =
           IF at + 4 > end THEN Bad
           ELSE IF at + 4 + U32At(m, at) > end THEN Bad
           ELSE Whole(StrLoop(m, at + 4, at + 4 + U32At(m, at))[U32At(m, at)], end)
  BY ReadBodyOf
<1>15. ReadBody(m, at, end, <<Type.a, Type.s>>) = Got(end, list)
  BY Zenon, <1>9, <1>10, <1>13, <1>14 DEF base
<1> QED BY Zenon, <1>7, <1>15 DEF R

\* The bytes of each body.
LEMMA BodyBytesOf ==
    ASSUME NEW b, IsBody(b)
    PROVE  /\ b.sig = <<>> => BodyBytes(b) = <<>> /\ b.val = <<>>
           /\ b.sig = <<Type.s>> => \E s \in Bytes : BodyBytes(b) = SpecString(<<>>, s) /\ b.val = <<s>>
           /\ b.sig = <<Type.v>> =>
                 \E s \in Bytes : BodyBytes(b) = SpecString(<<1, Type.s, 0>>, s) /\ b.val = <<s>>
           /\ b.sig = <<Type.a, Type.s>> => BodyBytes(b) = SpecStrings(b.val) /\ b.val \in Seq(Bytes)
           /\ b.sig \in {<<>>, <<Type.s>>, <<Type.v>>, <<Type.a, Type.s>>}
<1> DEFINE none == <<>>
           s == <<Type.s>>
           v == <<Type.v>>
           a == <<Type.a, Type.s>>
           x1 == SpecString(<<>>, b.val[1])
           x2 == SpecString(<<1, Type.s, 0>>, b.val[1])
           x3 == SpecStrings(b.val)
           one == \E t \in Bytes : b.val = <<t>>
           many == b.val \in Seq(Bytes)
<1>1. s # none /\ v # none /\ a # none /\ s # v /\ s # a /\ v # a
  BY Zenon, SignaturesDiffer
<1>2. \/ b.sig = none /\ b.val = none
      \/ b.sig \in {s, v} /\ one
      \/ b.sig = a /\ many
  BY Zenon DEF IsBody
<1>3. BodyBytes(b) = CASE b.sig = none -> none [] b.sig = s -> x1 [] b.sig = v -> x2 [] OTHER -> x3
  BY Zenon DEF BodyBytes
<1>4. ASSUME one
      PROVE  \E t \in Bytes : x1 = SpecString(<<>>, t) /\ x2 = SpecString(<<1, Type.s, 0>>, t) /\ b.val = <<t>>
  <2>1. PICK t \in Bytes : b.val = <<t>>
    BY Zenon, <1>4
  <2>2. b.val[1] = t
    BY <2>1
  <2> QED BY Zenon, <2>1, <2>2
<1> HIDE DEF none, s, v, a, x1, x2, x3, one, many
<1>5. /\ b.sig = none => BodyBytes(b) = none /\ b.val = none
      /\ b.sig = s => BodyBytes(b) = x1 /\ one
      /\ b.sig = v => BodyBytes(b) = x2 /\ one
      /\ b.sig = a => BodyBytes(b) = x3 /\ many
      /\ b.sig \in {none, s, v, a}
  BY <1>1, <1>2, <1>3
<1>6. b.sig = none => BodyBytes(b) = <<>> /\ b.val = <<>>
  BY Zenon, <1>5 DEF none
<1>7. b.sig = s => \E t \in Bytes : BodyBytes(b) = SpecString(<<>>, t) /\ b.val = <<t>>
  BY Zenon, <1>4, <1>5
<1>8. b.sig = v => \E t \in Bytes : BodyBytes(b) = SpecString(<<1, Type.s, 0>>, t) /\ b.val = <<t>>
  BY Zenon, <1>4, <1>5
<1>9. b.sig = a => BodyBytes(b) = SpecStrings(b.val) /\ b.val \in Seq(Bytes)
  BY Zenon, <1>5 DEF x3, many
<1> QED BY Zenon, <1>5, <1>6, <1>7, <1>8, <1>9 DEF none, s, v, a

\* A body that stands in a message is read for what it says.
LEMMA BodyIsRead ==
    ASSUME NEW b, IsBody(b), NEW m, NEW at \in Nat, NEW end \in Word, StandsTo(m, at, BodyBytes(b), end)
    PROVE  ReadBody(m, at, end, b.sig) = Got(end, b.val)
<1>1. CASE b.sig = <<>>
  <2>1. BodyBytes(b) = <<>> /\ b.val = <<>>
    BY Zenon, <1>1, BodyBytesOf
  <2>2. end = at + Len(<<>>)
    BY Zenon, <2>1 DEF StandsTo
  <2>3. end = at
    BY <2>2
  <2>4. ReadBody(m, at, end, <<>>) = [ok |-> TRUE, at |-> at, val |-> <<>>]
    BY Zenon, ReadBodyOf
  <2> QED BY Zenon, <1>1, <2>1, <2>3, <2>4 DEF Got
<1>2. CASE b.sig = <<Type.s>>
  <2>1. PICK s \in Bytes : BodyBytes(b) = SpecString(<<>>, s) /\ b.val = <<s>>
    BY Zenon, <1>2, BodyBytesOf
  <2> QED BY Zenon, <1>2, <2>1, StringIsRead
<1>3. CASE b.sig = <<Type.v>>
  <2>1. PICK s \in Bytes : BodyBytes(b) = SpecString(<<1, Type.s, 0>>, s) /\ b.val = <<s>>
    BY Zenon, <1>3, BodyBytesOf
  <2> QED BY Zenon, <1>3, <2>1, VariantIsRead
<1>4. CASE b.sig = <<Type.a, Type.s>>
  <2>1. BodyBytes(b) = SpecStrings(b.val) /\ b.val \in Seq(Bytes)
    BY Zenon, <1>4, BodyBytesOf
  <2> QED BY Zenon, <1>4, <2>1, ListIsRead
<1>5. b.sig \in {<<>>, <<Type.s>>, <<Type.v>>, <<Type.a, Type.s>>}
  BY Zenon, BodyBytesOf
<1> QED BY Zenon, <1>1, <1>2, <1>3, <1>4, <1>5

\* The length of a message that is not too long fits in four bytes.
LEMMA LengthIsWord == \A n \in Nat : n <= MaxMessage => n \in Word
  BY DEF MaxMessage, Word

\* Where the parts of a message stand.
LEMMA MessageIs ==
    ASSUME NEW type \in Byte, NEW n \in Nat, NEW N \in Nat, NEW fields, IsReplyFields(fields, N),
           NEW B \in Bytes, Len(SpecMessage(type, n, fields, B)) <= MaxMessage
    PROVE  LET m == SpecMessage(type, n, fields, B)
               E == 16 + U32At(m, 12)
               at == E + Gap(E, 8)
           IN  /\ m[1] = 108 /\ m[2] = type /\ U32At(m, 12) \in Nat
               /\ U32At(m, 4) = Len(B)
               /\ Headed(m, FixedBytes(type, Len(B), n), fields, N, E)
               /\ E \in Word /\ at \in Nat /\ at + Len(B) \in Word
               /\ E + Len(B) <= MaxMessage
               /\ StandsTo(m, at, B, at + Len(B))
<1> DEFINE X == FixedBytes(type, Len(B), n)
           H == SpecFields(X, fields)[N]
           E == Len(H)
           v == E - 16
           W == WithU32(H, 12, v)
           P == SpecPad(W, 8)
           m == SpecMessage(type, n, fields, B)
           b == Len(B)
           g == Gap(E, 8)
<1>1. X \in Bytes /\ Len(X) = 16 /\ X[1] = 108 /\ X[2] = type /\ Stands(X, 4, U32(b)) /\ b \in Nat
  <2>1. b \in Nat
    BY ByteAt
  <2> HIDE DEF b, m, H, E, v, W, P, g
  <2>2. LET Y == FixedBytes(type, b, n)
        IN  Y \in Bytes /\ Len(Y) = 16 /\ Y[1] = 108 /\ Y[2] = type /\ Stands(Y, 4, U32(b))
    BY <2>1, FixedIs
  <2> QED BY Zenon, <2>1, <2>2 DEF b
<1>2. IsFields(fields, N)
  BY DEF IsReplyFields
<1>3. m = P \o B
  <2>1. N = Len(fields)
    BY <1>2 DEF IsFields
  <2> QED BY Zenon, <2>1 DEF SpecMessage, SpecHeader, FixedBytes
<1> HIDE DEF X, m
<1>4. H \in Bytes /\ E \in Nat /\ E >= 16 /\ \A i \in 1..16 : H[i] = X[i]
  <2>1. SpecFields(X, fields)[0] = X
    BY <1>1, <1>2, FieldRounds
  <2>2. 0 \in 0..N /\ N \in 0..N
    OBVIOUS
  <2>3. Prefix(SpecFields(X, fields)[0], SpecFields(X, fields)[N])
    BY <1>1, <1>2, <2>2, FieldsGrow
  <2> HIDE DEF H
  <2>4. Prefix(X, H)
    BY Zenon, <2>1, <2>3 DEF H
  <2> QED BY <1>1, <2>4, ByteAt DEF Prefix
<1> HIDE DEF H
<1>5. W \in Bytes /\ Len(W) = E /\ v \in Nat
      /\ \A i \in 1..E : W[i] = IF i \in 13..16 THEN U32(v)[i - 12] ELSE H[i]
  <2>1. v \in Nat
    <3> HIDE DEF E
    <3> QED BY <1>4
  <2> HIDE DEF v
  <2> QED BY <1>4, <2>1, PatchIs
<1> HIDE DEF W, v
<1>6. P \in Bytes /\ Len(P) = E + g /\ g \in Nat /\ \A i \in 1..E : P[i] = W[i]
  <2>1. /\ P \in Bytes /\ Len(P) = Len(W) + Gap(Len(W), 8) /\ Gap(Len(W), 8) \in Nat
        /\ \A i \in 1..Len(W) : P[i] = W[i]
    BY Zenon, <1>5, PadIs
  <2> QED BY Zenon, <1>5, <2>1 DEF g
<1> HIDE DEF P, b, E, g
<1>7. m \in Bytes /\ Len(m) = E + g + b /\ (\A i \in 1..E : m[i] = W[i]) /\ Stands(m, E + g, B)
  <2>1. P \o B \in Bytes /\ Len(P \o B) = Len(P) + b /\ (\A i \in 1..Len(P) : (P \o B)[i] = P[i])
        /\ \A i \in 1..b : (P \o B)[Len(P) + i] = B[i]
    BY Zenon, <1>6, ConcatIs DEF b
  <2>2. Stands(m, E + g, B)
    BY Zenon, <1>3, <1>6, <2>1 DEF Stands, b
  <2>3. ASSUME NEW i \in 1..E PROVE m[i] = W[i]
    <3>1. i \in 1..Len(P)
      BY <1>4, <1>6
    <3> QED BY Zenon, <1>3, <1>6, <2>1, <3>1
  <2>4. m \in Bytes /\ Len(m) = E + g + b
    BY Zenon, <1>3, <1>6, <2>1
  <2> QED BY Zenon, <2>2, <2>3, <2>4
<1>8. E + g + b <= MaxMessage
  BY Zenon, <1>7 DEF m
<1>9. E \in Word /\ E + g \in Nat /\ E + g + b \in Word /\ E + b <= MaxMessage /\ b \in Word
      /\ v \in Word
  <2>1. E \in Nat /\ E + g \in Nat /\ E + g + b \in Nat /\ E <= MaxMessage /\ b <= MaxMessage
        /\ E + b <= MaxMessage
    BY <1>1, <1>4, <1>6, <1>8 DEF MaxMessage
  <2>2. v <= MaxMessage
    BY <1>4, <2>1 DEF v, MaxMessage
  <2> QED BY <1>1, <1>5, <1>8, <2>1, <2>2, LengthIsWord
<1>10. ASSUME NEW i \in 1..12 PROVE m[i] = X[i]
  <2>1. i \in 1..E /\ i \notin 13..16 /\ i \in 1..16
    BY <1>4
  <2> QED BY <1>4, <1>5, <1>7, <2>1
<1>11. m[1] = 108 /\ m[2] = type
  BY <1>1, <1>10
<1>12. U32At(m, 4) = b
  <2>1. Stands(m, 4, U32(b))
    <3>1. Len(U32(b)) = 4
      BY <1>1, NumberIs
    <3>2. ASSUME NEW i \in 1..4 PROVE m[4 + i] = U32(b)[i]
      <4>1. X[4 + i] = U32(b)[i]
        BY <1>1, <3>1 DEF Stands
      <4>2. 4 + i \in 1..12
        OBVIOUS
      <4> QED BY Zenon, <1>10, <4>1, <4>2
    <3> QED BY Zenon, <3>1, <3>2 DEF Stands
  <2> QED BY <1>9, <2>1, NumberReads
<1>13. U32At(m, 12) = v
  <2>1. Stands(m, 12, U32(v))
    <3>1. Len(U32(v)) = 4
      BY <1>5, NumberIs
    <3>2. ASSUME NEW i \in 1..4 PROVE m[12 + i] = U32(v)[i]
      <4> DEFINE j == 12 + i
      <4>1. j \in 13..16 /\ j \in 1..E /\ j - 12 = i
        BY <1>4
      <4> HIDE DEF j
      <4>2. m[j] = U32(v)[j - 12]
        BY <1>5, <1>7, <4>1
      <4> QED BY Zenon, <4>1, <4>2 DEF j
    <3> QED BY Zenon, <3>1, <3>2 DEF Stands
  <2> QED BY <1>9, <2>1, NumberReads
<1>14. 16 + U32At(m, 12) = E
  BY <1>4, <1>13 DEF v
<1>15. Headed(m, X, fields, N, E)
  <2>1. ASSUME NEW j \in 17..E PROVE m[j] = H[j]
    <3>1. j \in 1..E /\ j \notin 13..16
      BY <1>4
    <3> QED BY <1>5, <1>7, <3>1
  <2> QED BY Zenon, <1>1, <1>9, <2>1 DEF Headed, H, E
<1>16. StandsTo(m, E + g, B, E + g + b)
  BY Zenon, <1>7 DEF StandsTo, b
<1> DEFINE e == 16 + U32At(m, 12)
           at == e + Gap(e, 8)
<1>17. e = E /\ at = E + g
  BY Zenon, <1>14 DEF g
<1> HIDE DEF e, at
<1>18. /\ m[1] = 108 /\ m[2] = type /\ U32At(m, 12) \in Nat
       /\ U32At(m, 4) = b
       /\ Headed(m, X, fields, N, e)
       /\ e \in Word /\ at \in Nat /\ at + b \in Word
       /\ e + b <= MaxMessage
       /\ StandsTo(m, at, B, at + b)
  BY Zenon, <1>5, <1>9, <1>11, <1>12, <1>13, <1>15, <1>16, <1>17
<1> QED BY Zenon, <1>18 DEF e, at, b, m, X

\* A reply the D-Bus specification allows: its fields differ and have their types, the
\* body is one the client knows, and the signature field, if there is one, describes it.
\* The body of an error is a string.
IsReply(r, N) ==
    /\ r.type \in {Message.return, Message.error}
    /\ IsReplyFields(r.fields, N)
    /\ IsBody(r.body)
    /\ Says(r.fields, N, Field.signature, <<>>) = r.body.sig
    /\ r.type = Message.error => r.body.sig = <<Type.s>>

\* A body is bytes.
LEMMA BodyIsBytes ==
    ASSUME NEW b, IsBody(b)
    PROVE  BodyBytes(b) \in Bytes
<1>1. ASSUME NEW S \in Bytes, NEW s \in Bytes PROVE SpecString(S, s) \in Bytes
  BY Zenon, TextIs DEF SpecString, StrBytes
<1>2. <<>> \in Bytes /\ <<1, Type.s, 0>> \in Bytes
  BY TypesDiffer DEF Bytes, Byte
<1>3. ASSUME NEW list \in Seq(Bytes) PROVE SpecStrings(list) \in Bytes
  <2> DEFINE N == Len(list)
             items == SpecValues(Texts(list))[N]
             z == Len(items)
             h == U32(z)
  <2>1. IsTexts(list, N) /\ N \in Nat
    BY DEF IsTexts
  <2>2. N \in 0..N
    BY <2>1
  <2>3. SpecStrings(list) = h \o items
    <3>1. SpecValues([i \in DOMAIN list |-> [type |-> Type.s, val |-> list[i]]])[Len(list)] = items
      BY Zenon DEF Texts
    <3> HIDE DEF items
    <3> QED BY Zenon, <3>1 DEF SpecStrings
  <2>4. items \in Bytes /\ z \in Nat
    <3> HIDE DEF N
    <3> QED BY Zenon, <2>1, <2>2, TextsGrow
  <2> HIDE DEF z, items
  <2>5. h \in Bytes
    BY <2>4, NumberIs
  <2> HIDE DEF h
  <2>6. h \o items \in Bytes
    BY <2>4, <2>5, ConcatIs
  <2> QED BY Zenon, <2>3, <2>6
<1>4. CASE b.sig = <<>>
  BY Zenon, <1>2, <1>4, BodyBytesOf
<1>5. CASE b.sig = <<Type.s>>
  BY Zenon, <1>1, <1>2, <1>5, BodyBytesOf
<1>6. CASE b.sig = <<Type.v>>
  BY Zenon, <1>1, <1>2, <1>6, BodyBytesOf
<1>7. CASE b.sig = <<Type.a, Type.s>>
  BY Zenon, <1>3, <1>7, BodyBytesOf
<1>8. b.sig \in {<<>>, <<Type.s>>, <<Type.v>>, <<Type.a, Type.s>>}
  BY Zenon, BodyBytesOf
<1> QED BY Zenon, <1>4, <1>5, <1>6, <1>7, <1>8

\* Every reply that follows the specification, whatever its fields are and in whatever
\* order they come, is read for what it says (dbus_client.c, bus_call).
THEOREM RepliesRead ==
    ASSUME NEW N \in Nat, NEW r, IsReply(r, N), Len(MessageOf(r)) <= MaxMessage
    PROVE  ReadReply(MessageOf(r)) =
               [type |-> r.type, ok |-> TRUE, serial |-> Says(r.fields, N, Field.replySerial, 0),
                error |-> Says(r.fields, N, Field.errorName, <<>>), val |-> r.body.val]
<1> DEFINE m == MessageOf(r)
           B == BodyBytes(r.body)
           type == r.type
           fields == r.fields
           E == 16 + U32At(m, 12)
           at == E + Gap(E, 8)
           b == Len(B)
           sig == r.body.sig
           kept == KeptOf(fields, N)
<1>1. /\ type \in {Message.return, Message.error} /\ type \in Byte
      /\ IsReplyFields(fields, N) /\ IsBody(r.body) /\ Says(fields, N, Field.signature, <<>>) = sig
      /\ type = Message.error => sig = <<Type.s>>
  <2>1. type \in {Message.return, Message.error} => type \in Byte
    BY DEF Message, Byte
  <2> QED BY Zenon, <2>1 DEF IsReply
<1>2. B \in Bytes
  BY Zenon, <1>1, BodyIsBytes
<1>3. m = SpecMessage(type, 1, fields, B)
  BY Zenon DEF MessageOf
<1>4. Len(SpecMessage(type, 1, fields, B)) <= MaxMessage
  BY Zenon, <1>3
<1>5. /\ m[1] = 108 /\ m[2] = type /\ U32At(m, 12) \in Nat
      /\ U32At(m, 4) = b
      /\ \E X : Headed(m, X, fields, N, E)
      /\ E \in Word /\ at \in Nat /\ at + b \in Word
      /\ E + b <= MaxMessage
      /\ StandsTo(m, at, B, at + b)
  <2> DEFINE k == 1
  <2>1. k \in Nat
    OBVIOUS
  <2>2. Len(SpecMessage(type, k, fields, B)) <= MaxMessage
    BY Zenon, <1>4
  <2> HIDE DEF k, m, B, type, fields
  <2>3. LET x == SpecMessage(type, k, fields, B)
            e == 16 + U32At(x, 12)
            a == e + Gap(e, 8)
        IN  /\ x[1] = 108 /\ x[2] = type /\ U32At(x, 12) \in Nat
            /\ U32At(x, 4) = Len(B)
            /\ Headed(x, FixedBytes(type, Len(B), k), fields, N, e)
            /\ e \in Word /\ a \in Nat /\ a + Len(B) \in Word
            /\ e + Len(B) <= MaxMessage
            /\ StandsTo(x, a, B, a + Len(B))
    BY <1>1, <1>2, <2>1, <2>2, MessageIs
  <2>4. m = SpecMessage(type, k, fields, B)
    BY Zenon, <1>3 DEF k
  <2> QED BY Zenon, <2>3, <2>4
<1> HIDE DEF m, B, type, fields
<1>6. FieldLoop(m, E)[E - 16] = [ok |-> TRUE, at |-> E, got |-> kept]
  BY <1>1, <1>5, FieldsAreRead
<1>7. ReadBody(m, at, at + b, sig) = Got(at + b, r.body.val)
  <2> DEFINE end == at + b
  <2>1. end \in Word /\ StandsTo(m, at, BodyBytes(r.body), end) /\ at \in Nat
    BY Zenon, <1>5 DEF B
  <2> HIDE DEF end, at
  <2>2. ReadBody(m, at, end, r.body.sig) = Got(end, r.body.val)
    BY Zenon, <1>1, <2>1, BodyIsRead
  <2> QED BY Zenon, <2>2 DEF end
<1>8. kept.sig = sig /\ kept.error = Says(fields, N, Field.errorName, <<>>)
      /\ kept.serial = Says(fields, N, Field.replySerial, 0)
  BY <1>1 DEF KeptOf
<1> DEFINE f == FieldLoop(m, E)[E - 16]
           asks == IF type = Message.error THEN <<Type.s>> ELSE f.got.sig
           body == ReadBody(m, at, at + b, asks)
<1>9. f.ok /\ f.got = kept
  <2> HIDE DEF E, kept
  <2> QED BY <1>6
<1>10. asks = sig
  <2> HIDE DEF f, sig, kept
  <2> QED BY Zenon, <1>1, <1>8, <1>9
<1>11. body.ok /\ body.val = r.body.val
  <2>1. body = Got(at + b, r.body.val)
    <3> HIDE DEF asks, at, b
    <3> QED BY Zenon, <1>7, <1>10
  <2> HIDE DEF body
  <2> QED BY <2>1, GotIs
<1>12. U32At(m, 12) = E - 16 /\ E + b = 16 + U32At(m, 12) + U32At(m, 4)
  <2> DEFINE u == U32At(m, 12)
  <2>1. u \in Nat /\ U32At(m, 4) = b
    BY Zenon, <1>5
  <2>2. b \in Nat
    BY <1>2, ByteAt
  <2> HIDE DEF u, b
  <2>3. u = (16 + u) - 16 /\ (16 + u) + b = 16 + u + b
    BY <2>1, <2>2
  <2> QED BY Zenon, <2>1, <2>3 DEF u
<1> HIDE DEF f, body
<1>13. ReadReply(m) =
           IF (m[1] = 108 /\ 16 + U32At(m, 12) + U32At(m, 4) <= MaxMessage) /\ f.ok /\ body.ok
           THEN [type |-> m[2], ok |-> TRUE, serial |-> f.got.serial, error |-> f.got.error,
                 val |-> body.val]
           ELSE [type |-> m[2], ok |-> FALSE]
  BY Zenon, <1>5, <1>12 DEF ReadReply, f, body
<1> HIDE DEF E, b, kept
<1>14. ReadReply(m) = [type |-> type, ok |-> TRUE, serial |-> kept.serial, error |-> kept.error,
                       val |-> r.body.val]
  BY Zenon, <1>5, <1>9, <1>11, <1>12, <1>13
<1> QED BY Zenon, <1>8, <1>14 DEF m, type, fields, kept

(***************************************************************************)
(* What the machine of inputs can hold.                                    *)
(***************************************************************************)

\* A string that is made is bytes, of the length asked for.
LEMMA TextIsBytes ==
    ASSUME NEW kind \in 0..100, NEW n \in Nat
    PROVE  Text(kind, n) \in Bytes /\ Len(Text(kind, n)) = n
<1>1. 32 + kind \in Byte
  BY DEF Byte
<1> DEFINE k == 32 + kind
<1> HIDE DEF k
<1>2. [i \in 1..n |-> k] \in Bytes /\ Len([i \in 1..n |-> k]) = n
  BY <1>1 DEF Bytes, k
<1> QED BY Zenon, <1>2 DEF Text, k

\* The arguments that are made are ones body_add_arg knows.
LEMMA ArgsAreArguments == Args \subseteq Argument
<1>1. ASSUME NEW n \in 0..3 PROVE Text(50, n) \in Bytes
  <2>1. 50 \in 0..100 /\ n \in Nat
    OBVIOUS
  <2> QED BY Zenon, <2>1, TextIsBytes
<1>2. Text(60, 8) \in Bytes /\ Len(Text(60, 8)) = 8
  <2>1. 60 \in 0..100 /\ 8 \in Nat
    OBVIOUS
  <2> QED BY Zenon, <2>1, TextIsBytes
<1>3. <<9>> \in [{1} -> Word]
  BY DEF Word
<1> DEFINE t == Text(60, 8)
           u == <<9>>
           S == {Text(50, n) : n \in 0..3}
           D == {b \in Bytes : Len(b) = 8}
           U == [{1} -> Word]
<1>4. S \subseteq Bytes /\ t \in D /\ u \in U
  BY <1>1, <1>2, <1>3
<1> HIDE DEF t, u, S, D, U
<1>5. ASSUME NEW a \in [type : {Type.s}, val : S] \cup {[type |-> Type.d, val |-> t], [type |-> Type.u, val |-> u]}
      PROVE  a \in [type : {Type.s}, val : Bytes] \cup [type : {Type.d}, val : D] \cup [type : {Type.u}, val : U]
  BY <1>4
<1> QED BY Zenon, <1>5 DEF Args, Argument, t, u, S, D, U

\* The calls and replies that are made, and the devices.
InputsTyped ==
    /\ devs \in Seq(Device)
    /\ call # None => call \in Call
    /\ reply # None =>
          /\ reply \in [type : {Message.return, Message.error}, body : Bodies, fields : Seq(ReplyFields(reply))]
          /\ reply.type = Message.error => reply.body.sig = <<Type.s>>
          /\ \A i, j \in DOMAIN reply.fields : reply.fields[i].code = reply.fields[j].code => i = j

\* A call that is made is a call.
LEMMA CallMade ==
    ASSUME NEW p \in 1..4, NEW d \in 1..4, NEW i \in 1..2, NEW k \in 1..2
    PROVE  [path |-> Text(1, p), iface |-> Text(2, i), member |-> Text(3, k),
            dest |-> Text(4, d), serial |-> 7, args |-> <<>>] \in Call
<1>1. Text(1, p) \in Bytes /\ Text(2, i) \in Bytes /\ Text(3, k) \in Bytes /\ Text(4, d) \in Bytes
  <2>1. 1 \in 0..100 /\ 2 \in 0..100 /\ 3 \in 0..100 /\ 4 \in 0..100
        /\ p \in Nat /\ d \in Nat /\ i \in Nat /\ k \in Nat
    OBVIOUS
  <2> QED BY Zenon, <2>1, TextIsBytes
<1>2. <<>> \in Seq(Argument)
  OBVIOUS
<1> QED BY <1>1, <1>2 DEF Call

\* A call with one more argument is a call.
LEMMA CallGrows ==
    ASSUME NEW c \in Call, NEW a \in Args
    PROVE  [c EXCEPT !.args = Append(@, a)] \in Call
<1>1. a \in Argument
  BY ArgsAreArguments
<1>2. c.args \in Seq(Argument)
  BY DEF Call
<1>3. Append(c.args, a) \in Seq(Argument)
  BY <1>1, <1>2
<1> DEFINE n == Append(c.args, a)
<1> HIDE DEF n
<1>4. [c EXCEPT !.args = n] \in Call
  BY <1>3 DEF Call, n
<1> QED BY <1>4 DEF n

\* A reply with one more field keeps its body, and its fields stay different.
LEMMA ReplyGrows ==
    ASSUME NEW r,
           r \in [type : {Message.return, Message.error}, body : Bodies, fields : Seq(ReplyFields(r))],
           r.type = Message.error => r.body.sig = <<Type.s>>,
           \A i, j \in DOMAIN r.fields : r.fields[i].code = r.fields[j].code => i = j,
           NEW f \in ReplyFields(r), f.code \notin Codes(r)
    PROVE  LET q == [r EXCEPT !.fields = Append(@, f)]
           IN  /\ q \in [type : {Message.return, Message.error}, body : Bodies,
                         fields : Seq(ReplyFields(q))]
               /\ q.type = Message.error => q.body.sig = <<Type.s>>
               /\ \A i, j \in DOMAIN q.fields : q.fields[i].code = q.fields[j].code => i = j
<1> DEFINE F == ReplyFields(r)
           s == r.fields
           t == Append(s, f)
           q == [r EXCEPT !.fields = t]
<1>1. s \in Seq(F) /\ r.type \in {Message.return, Message.error} /\ r.body \in Bodies
      /\ r = [type |-> r.type, body |-> r.body, fields |-> s]
  OBVIOUS
<1> HIDE DEF F, s
<1>2. t \in Seq(F) /\ DOMAIN t = 1..(Len(s) + 1) /\ DOMAIN s = 1..Len(s) /\ Len(s) \in Nat
      /\ t[Len(s) + 1] = f /\ \A i \in 1..Len(s) : t[i] = s[i]
  BY <1>1 DEF F
<1> HIDE DEF t
<1>3. q = [type |-> r.type, body |-> r.body, fields |-> t]
  BY <1>1
<1>4. q.type = r.type /\ q.body = r.body /\ q.fields = t
  BY <1>3
<1>5. q \in [type : {Message.return, Message.error}, body : Bodies, fields : Seq(F)]
  BY <1>1, <1>2, <1>3
<1> HIDE DEF q
<1>6. ReplyFields(q) = F
  BY Zenon, <1>4 DEF ReplyFields, F
<1>7. \A i \in 1..Len(s) : s[i].code # f.code
  BY Zenon, <1>2 DEF Codes, s
<1>8. ASSUME NEW i \in DOMAIN t, NEW j \in DOMAIN t, t[i].code = t[j].code PROVE i = j
  <2>1. (i \in 1..Len(s) \/ i = Len(s) + 1) /\ (j \in 1..Len(s) \/ j = Len(s) + 1)
    BY <1>2
  <2>2. CASE i \in 1..Len(s) /\ j \in 1..Len(s)
    BY Zenon, <1>2, <1>8, <2>2 DEF s
  <2>3. CASE i \in 1..Len(s) /\ j = Len(s) + 1
    BY Zenon, <1>2, <1>7, <1>8, <2>3
  <2>4. CASE i = Len(s) + 1 /\ j \in 1..Len(s)
    BY Zenon, <1>2, <1>7, <1>8, <2>4
  <2>5. CASE i = Len(s) + 1 /\ j = Len(s) + 1
    BY Zenon, <2>5
  <2> QED BY Zenon, <2>1, <2>2, <2>3, <2>4, <2>5
<1>9. /\ q \in [type : {Message.return, Message.error}, body : Bodies, fields : Seq(ReplyFields(q))]
      /\ q.type = Message.error => q.body.sig = <<Type.s>>
      /\ \A i, j \in DOMAIN q.fields : q.fields[i].code = q.fields[j].code => i = j
  BY Zenon, <1>4, <1>5, <1>6, <1>8
<1> QED BY Zenon, <1>9 DEF q, t, s

\* The bodies that are made are ones the client knows.
LEMMA BodiesAreBodies ==
    ASSUME NEW b \in Bodies
    PROVE  IsBody(b) /\ b.sig \in Bytes /\ Len(b.sig) <= MaxSignature
<1> DEFINE A == {[sig |-> <<>>, val |-> <<>>]}
           B == {[sig |-> <<t>>, val |-> <<Text(70, n)>>] : t \in {Type.s, Type.v}, n \in 0..4}
           C == {[sig |-> <<Type.a, Type.s>>, val |-> l] :
                    l \in UNION {[1..k -> {Text(80, n) : n \in {0, 1, 3}}] : k \in 0..2}}
<1>1. /\ <<>> \in Bytes /\ <<Type.s>> \in Bytes /\ <<Type.v>> \in Bytes /\ <<Type.a, Type.s>> \in Bytes
      /\ Len(<<>>) <= MaxSignature /\ Len(<<Type.s>>) <= MaxSignature /\ Len(<<Type.v>>) <= MaxSignature
      /\ Len(<<Type.a, Type.s>>) <= MaxSignature
  <2> DEFINE s == Type.s
             v == Type.v
             a == Type.a
  <2>1. s \in Byte /\ v \in Byte /\ a \in Byte
    BY TypesDiffer DEF Byte
  <2> HIDE DEF s, v, a
  <2>2. /\ <<>> \in Bytes /\ <<s>> \in Bytes /\ <<v>> \in Bytes /\ <<a, s>> \in Bytes
        /\ Len(<<>>) <= MaxSignature /\ Len(<<s>>) <= MaxSignature /\ Len(<<v>>) <= MaxSignature
        /\ Len(<<a, s>>) <= MaxSignature
    BY <2>1 DEF Bytes, MaxSignature
  <2> QED BY Zenon, <2>2 DEF s, v, a
<1>2. ASSUME NEW n \in 0..4 PROVE Text(70, n) \in Bytes
  <2>1. 70 \in 0..100 /\ n \in Nat
    OBVIOUS
  <2> QED BY Zenon, <2>1, TextIsBytes
<1>3. ASSUME NEW n \in {0, 1, 3} PROVE Text(80, n) \in Bytes
  <2>1. 80 \in 0..100 /\ n \in Nat
    OBVIOUS
  <2> QED BY Zenon, <2>1, TextIsBytes
<1>4. CASE b \in A
  <2>1. b.sig = <<>> /\ b.val = <<>>
    BY <1>4
  <2> QED BY Zenon, <1>1, <2>1 DEF IsBody
<1>5. CASE b \in B
  <2>1. PICK t \in {Type.s, Type.v}, n \in 0..4 : b = [sig |-> <<t>>, val |-> <<Text(70, n)>>]
    BY <1>5
  <2> DEFINE x == <<t>>
             y == Text(70, n)
             z == <<y>>
  <2>2. b = [sig |-> x, val |-> z]
    BY Zenon, <2>1
  <2>3. x \in {<<Type.s>>, <<Type.v>>} /\ y \in Bytes
    BY Zenon, <1>2
  <2> HIDE DEF x, y, z
  <2>4. b.sig = x /\ b.val = z
    BY <2>2
  <2> QED BY Zenon, <1>1, <2>3, <2>4 DEF IsBody, z
<1>6. CASE b \in C
  <2> DEFINE S == {Text(80, n) : n \in {0, 1, 3}}
  <2>1. S \subseteq Bytes
    BY Zenon, <1>3
  <2>2. PICK l \in UNION {[1..k -> S] : k \in 0..2} : b = [sig |-> <<Type.a, Type.s>>, val |-> l]
    BY Zenon, <1>6 DEF C
  <2> HIDE DEF S
  <2>3. PICK k \in 0..2 : l \in [1..k -> S]
    BY Zenon
  <2>4. l \in Seq(Bytes)
    <3>1. l \in [1..k -> Bytes] /\ k \in Nat
      BY <2>1, <2>3
    <3> QED BY <3>1
  <2> DEFINE x == <<Type.a, Type.s>>
  <2>5. b = [sig |-> x, val |-> l]
    BY Zenon, <2>2
  <2> HIDE DEF x
  <2>6. b.sig = x /\ b.val = l
    BY <2>5
  <2> QED BY Zenon, <1>1, <2>4, <2>6 DEF IsBody, x
<1>7. Bodies = A \cup B \cup C
  BY DEF Bodies
<1> HIDE DEF A, B, C
<1> QED BY Zenon, <1>4, <1>5, <1>6, <1>7

\* A field that is not a number, by its type.
LEMMA TextField ==
    ASSUME NEW f, f.code \in Byte, f.type \in {Type.s, Type.g}, f.val \in Bytes,
           Len(f.val) <= MaxSignature
    PROVE  IsField(f) /\ Said(f) = f.val
<1>1. f.type \in {Type.s, Type.o} \/ f.type = Type.g
  BY Zenon
<1>2. IsValue(f)
  BY Zenon, <1>1 DEF IsValue
<1>3. f.type # Type.u
  BY TypesDiffer
<1> QED BY Zenon, <1>1, <1>2, <1>3 DEF IsField, Said

\* The fields of the replies that are made, and what they say.
LEMMA ReplyFieldIs ==
    ASSUME NEW r, r.body \in Bodies, NEW f \in ReplyFields(r)
    PROVE  /\ IsField(f) /\ WellTyped(f)
           /\ f.code = Field.replySerial => Said(f) = 7
           /\ f.code = Field.errorName => r.type = Message.error /\ Said(f) = Text(7, 2)
           /\ f.code = Field.signature => r.body.sig # <<>> /\ Said(f) = r.body.sig
<1> DEFINE sig == r.body.sig
<1>1. sig \in Bytes /\ Len(sig) <= MaxSignature
  BY BodiesAreBodies
<1>2. ASSUME NEW kind \in 0..100, NEW n \in 0..7
      PROVE  Text(kind, n) \in Bytes /\ Len(Text(kind, n)) <= MaxSignature
  <2>1. Text(kind, n) \in Bytes /\ Len(Text(kind, n)) = n
    <3>1. n \in Nat
      OBVIOUS
    <3> QED BY Zenon, <3>1, TextIsBytes
  <2>2. n <= MaxSignature
    BY DEF MaxSignature
  <2> QED BY Zenon, <2>1, <2>2
<1> HIDE DEF sig
<1>3. CASE f = FieldOf(Field.replySerial, Type.u, <<7>>)
  <2> DEFINE v == <<7>>
  <2>1. v[1] = 7 /\ 7 \in Word
    BY DEF Word
  <2> HIDE DEF v
  <2>2. f.code = Field.replySerial /\ f.type = Type.u /\ f.val = v
    BY <1>3 DEF FieldOf, v
  <2>3. f.val[1] = 7 /\ f.val[1] \in Word
    BY Zenon, <2>1, <2>2
  <2>4. f.code = 5 /\ f.code \in Byte
    BY <2>2, CodesDiffer DEF Byte
  <2>5. IsField(f)
    BY Zenon, <2>2, <2>3, <2>4 DEF IsField, IsValue
  <2>6. Said(f) = 7
    BY Zenon, <2>2, <2>3 DEF Said
  <2>7. f.code # Field.errorName /\ f.code # Field.signature
    BY <2>4, CodesDiffer
  <2> QED BY Zenon, <2>2, <2>5, <2>6, <2>7 DEF WellTyped
<1>4. ASSUME NEW code \in {Field.destination, Field.sender}, NEW kind \in {5, 6}, NEW n \in {1, 3, 7} \cup (1..4),
             f = FieldOf(code, Type.s, Text(kind, n))
      PROVE  /\ IsField(f) /\ WellTyped(f)
             /\ f.code # Field.replySerial /\ f.code # Field.errorName /\ f.code # Field.signature
  <2>1. f.code = code /\ f.type = Type.s /\ f.val = Text(kind, n)
    BY <1>4 DEF FieldOf
  <2>2. f.code \in Byte /\ f.code # Field.replySerial /\ f.code # Field.errorName /\ f.code # Field.signature
    BY <2>1, CodesDiffer DEF Byte
  <2>3. kind \in 0..100 /\ n \in 0..7
    OBVIOUS
  <2>4. f.val \in Bytes /\ Len(f.val) <= MaxSignature
    BY Zenon, <1>2, <2>1, <2>3
  <2>5. f.type \in {Type.s, Type.g}
    BY Zenon, <2>1
  <2>6. IsField(f)
    BY Zenon, <2>2, <2>4, <2>5, TextField
  <2> QED BY Zenon, <2>2, <2>6 DEF WellTyped
<1>5. CASE r.type = Message.error /\ f = FieldOf(Field.errorName, Type.s, Text(7, 2))
  <2>1. f.code = Field.errorName /\ f.type = Type.s /\ f.val = Text(7, 2)
    BY <1>5 DEF FieldOf
  <2>2. f.code \in Byte /\ f.code # Field.replySerial /\ f.code # Field.signature
    BY <2>1, CodesDiffer DEF Byte
  <2>3. 7 \in 0..100 /\ 2 \in 0..7
    OBVIOUS
  <2>4. f.val \in Bytes /\ Len(f.val) <= MaxSignature
    BY Zenon, <1>2, <2>1, <2>3
  <2>5. f.type \in {Type.s, Type.g}
    BY Zenon, <2>1
  <2>6. IsField(f) /\ Said(f) = f.val
    BY Zenon, <2>2, <2>4, <2>5, TextField
  <2> QED BY Zenon, <1>5, <2>1, <2>2, <2>6 DEF WellTyped
<1>6. CASE sig # <<>> /\ f = FieldOf(Field.signature, Type.g, sig)
  <2>1. f.code = Field.signature /\ f.type = Type.g /\ f.val = sig
    BY <1>6 DEF FieldOf
  <2>2. f.code \in Byte /\ f.code # Field.replySerial /\ f.code # Field.errorName
    BY <2>1, CodesDiffer DEF Byte
  <2>3. f.val \in Bytes /\ Len(f.val) <= MaxSignature
    BY Zenon, <1>1, <2>1
  <2>4. f.type \in {Type.s, Type.g}
    BY Zenon, <2>1
  <2>5. IsField(f) /\ Said(f) = f.val
    BY Zenon, <2>2, <2>3, <2>4, TextField
  <2> QED BY Zenon, <1>6, <2>1, <2>2, <2>5 DEF WellTyped, sig
<1>7. \/ f = FieldOf(Field.replySerial, Type.u, <<7>>)
      \/ \E n \in {1, 3, 7} : f = FieldOf(Field.destination, Type.s, Text(5, n))
      \/ \E n \in 1..4 : f = FieldOf(Field.sender, Type.s, Text(6, n))
      \/ r.type = Message.error /\ f = FieldOf(Field.errorName, Type.s, Text(7, 2))
      \/ sig # <<>> /\ f = FieldOf(Field.signature, Type.g, sig)
  BY Zenon DEF ReplyFields, sig
<1>8. CASE \E n \in {1, 3, 7} : f = FieldOf(Field.destination, Type.s, Text(5, n))
  BY Zenon, <1>4, <1>8
<1>9. CASE \E n \in 1..4 : f = FieldOf(Field.sender, Type.s, Text(6, n))
  BY Zenon, <1>4, <1>9
<1> QED BY Zenon, <1>3, <1>5, <1>6, <1>7, <1>8, <1>9

\* A reply that is made and is complete is one that RepliesRead is about.
LEMMA ReplyIs ==
    ASSUME InputsTyped, reply # None, Complete(reply)
    PROVE  \E N \in Nat :
              /\ IsReply(reply, N)
              /\ Says(reply.fields, N, Field.replySerial, 0) = 7
              /\ Says(reply.fields, N, Field.errorName, <<>>) =
                     IF reply.type = Message.error THEN Text(7, 2) ELSE <<>>
<1> DEFINE s == reply.fields
           F == ReplyFields(reply)
           sig == reply.body.sig
<1>1. /\ reply \in [type : {Message.return, Message.error}, body : Bodies, fields : Seq(F)]
      /\ reply.type = Message.error => sig = <<Type.s>>
      /\ \A i, j \in DOMAIN s : s[i].code = s[j].code => i = j
  BY Zenon DEF InputsTyped
<1> HIDE DEF F
<1>2. reply.type \in {Message.return, Message.error} /\ reply.body \in Bodies /\ s \in Seq(F)
  BY <1>1
<1> HIDE DEF s
<1>3. PICK N \in Nat : N = Len(s) /\ DOMAIN s = 1..N /\ \A i \in 1..N : s[i] \in F
  BY <1>2
<1>4. ASSUME NEW i \in 1..N
      PROVE  /\ IsField(s[i]) /\ WellTyped(s[i])
             /\ s[i].code = Field.replySerial => Said(s[i]) = 7
             /\ s[i].code = Field.errorName => reply.type = Message.error /\ Said(s[i]) = Text(7, 2)
             /\ s[i].code = Field.signature => sig # <<>> /\ Said(s[i]) = sig
  <2>1. s[i] \in ReplyFields(reply)
    BY Zenon, <1>3 DEF F
  <2> QED BY Zenon, <1>2, <2>1, ReplyFieldIs
<1>5. IsReplyFields(s, N)
  BY Zenon, <1>1, <1>3, <1>4 DEF IsReplyFields, IsFields
<1>6. /\ \E j \in 1..N : s[j].code = Field.replySerial
      /\ sig # <<>> => \E j \in 1..N : s[j].code = Field.signature
      /\ reply.type = Message.error => \E j \in 1..N : s[j].code = Field.errorName
  BY Zenon, <1>3 DEF Complete, Codes, s
<1> HIDE DEF s, sig
<1>7. Says(s, N, Field.replySerial, 0) = 7
  BY Zenon, <1>4, <1>6 DEF Says
<1>8. Says(s, N, Field.signature, <<>>) = sig
  <2>1. CASE sig # <<>>
    BY Zenon, <1>4, <1>6, <2>1 DEF Says
  <2>2. CASE sig = <<>>
    <3>1. \A j \in 1..N : s[j].code # Field.signature
      BY Zenon, <1>4, <2>2
    <3> QED BY Zenon, <2>2, <3>1 DEF Says
  <2> QED BY Zenon, <2>1, <2>2
<1>9. Says(s, N, Field.errorName, <<>>) = IF reply.type = Message.error THEN Text(7, 2) ELSE <<>>
  <2>1. CASE reply.type = Message.error
    BY Zenon, <1>4, <1>6, <2>1 DEF Says
  <2>2. CASE reply.type # Message.error
    <3>1. \A j \in 1..N : s[j].code # Field.errorName
      BY Zenon, <1>4, <2>2
    <3> QED BY Zenon, <2>2, <3>1 DEF Says
  <2> QED BY Zenon, <2>1, <2>2
<1>10. IsReply(reply, N)
  <2>1. IsBody(reply.body)
    BY Zenon, <1>2, BodiesAreBodies
  <2> QED BY Zenon, <1>1, <1>2, <1>5, <1>8, <2>1 DEF IsReply, s, sig
<1> QED BY Zenon, <1>3, <1>7, <1>9, <1>10 DEF s

\* InputsTyped is inductive.
LEMMA InputsStay == InputsSpec => []InputsTyped
<1>1. InputsInit => InputsTyped
  BY DEF InputsInit, InputsTyped, Init
<1>2. ASSUME InputsTyped, [InputsNext]_inputs PROVE InputsTyped'
  <2>1. CASE DiscoverDevice
    <3>1. devs' \in Seq(Device)
      BY <1>2, <2>1 DEF InputsTyped, DiscoverDevice, Discover
    <3>2. call' = call /\ reply' = reply /\ call = None /\ reply = None
      BY <2>1 DEF DiscoverDevice
    <3> QED BY Zenon, <3>1, <3>2 DEF InputsTyped
  <2>2. CASE NewCall
    <3>1. devs' = devs /\ reply' = reply /\ reply = None
      BY <2>2 DEF NewCall
    <3>2. PICK p \in 1..4, d \in 1..4, i \in 1..2, k \in 1..2 :
              call' = [path |-> Text(1, p), iface |-> Text(2, i), member |-> Text(3, k),
                       dest |-> Text(4, d), serial |-> 7, args |-> <<>>]
      BY <2>2 DEF NewCall
    <3>3. call' \in Call
      BY <3>2, CallMade
    <3> QED BY Zenon, <1>2, <3>1, <3>3 DEF InputsTyped
  <2>3. CASE AddCallArg
    <3>1. devs' = devs /\ reply' = reply /\ call # None
      BY <2>3 DEF AddCallArg
    <3>2. call' \in Call
      <4>1. call \in Call
        BY <1>2, <3>1 DEF InputsTyped
      <4>2. PICK a \in Args : call' = [call EXCEPT !.args = Append(@, a)]
        BY <2>3 DEF AddCallArg
      <4> QED BY <4>1, <4>2, CallGrows
    <3> QED BY Zenon, <1>2, <3>1, <3>2 DEF InputsTyped
  <2>4. CASE NewReply
    <3>1. devs' = devs /\ call' = call
      BY <2>4 DEF NewReply
    <3>2. PICK t \in {Message.return, Message.error}, b \in Bodies :
              /\ t = Message.error => b.sig = <<Type.s>>
              /\ reply' = [type |-> t, body |-> b, fields |-> <<>>]
      BY Zenon, <2>4 DEF NewReply
    <3> DEFINE r == reply'
    <3>3. r = [type |-> t, body |-> b, fields |-> <<>>]
      BY <3>2
    <3> HIDE DEF r
    <3>4. /\ r \in [type : {Message.return, Message.error}, body : Bodies, fields : Seq(ReplyFields(r))]
          /\ r.type = t /\ r.body = b /\ r.fields = <<>>
      <4> DEFINE F == ReplyFields(r)
      <4> HIDE DEF F
      <4>1. r \in [type : {Message.return, Message.error}, body : Bodies, fields : Seq(F)]
        BY <3>3
      <4> QED BY <3>3, <4>1 DEF F
    <3>5. \A i, j \in DOMAIN r.fields : r.fields[i].code = r.fields[j].code => i = j
      <4>1. DOMAIN <<>> = {}
        OBVIOUS
      <4> QED BY Zenon, <3>4, <4>1
    <3>6. r.type = Message.error => r.body.sig = <<Type.s>>
      BY Zenon, <3>2, <3>4
    <3>7. /\ reply' \in [type : {Message.return, Message.error}, body : Bodies,
                         fields : Seq(ReplyFields(reply'))]
          /\ reply'.type = Message.error => reply'.body.sig = <<Type.s>>
          /\ \A i, j \in DOMAIN reply'.fields : reply'.fields[i].code = reply'.fields[j].code => i = j
      BY Zenon, <3>4, <3>5, <3>6 DEF r
    <3> QED BY Zenon, <1>2, <3>1, <3>7 DEF InputsTyped, ReplyFields
  <2>5. CASE AddReplyField
    <3>1. devs' = devs /\ call' = call /\ reply # None
      BY <2>5 DEF AddReplyField
    <3>2. PICK f \in ReplyFields(reply) :
              f.code \notin Codes(reply) /\ reply' = [reply EXCEPT !.fields = Append(@, f)]
      BY <2>5 DEF AddReplyField
    <3>3. /\ reply \in [type : {Message.return, Message.error}, body : Bodies, fields : Seq(ReplyFields(reply))]
          /\ reply.type = Message.error => reply.body.sig = <<Type.s>>
          /\ \A i, j \in DOMAIN reply.fields : reply.fields[i].code = reply.fields[j].code => i = j
      BY Zenon, <1>2, <3>1 DEF InputsTyped
    <3> DEFINE q == [reply EXCEPT !.fields = Append(@, f)]
    <3>4. /\ q \in [type : {Message.return, Message.error}, body : Bodies, fields : Seq(ReplyFields(q))]
          /\ q.type = Message.error => q.body.sig = <<Type.s>>
          /\ \A i, j \in DOMAIN q.fields : q.fields[i].code = q.fields[j].code => i = j
      BY Zenon, <3>2, <3>3, ReplyGrows
    <3>5. reply' = q
      BY Zenon, <3>2
    <3> HIDE DEF q
    <3> QED BY Zenon, <1>2, <3>1, <3>4, <3>5 DEF InputsTyped, ReplyFields
  <2>6. CASE UNCHANGED inputs
    BY <1>2, <2>6 DEF inputs, InputsTyped, ReplyFields
  <2> QED BY <1>2, <2>1, <2>2, <2>3, <2>4, <2>5, <2>6 DEF InputsNext
<1> QED BY <1>1, <1>2, PTL DEF InputsSpec

\* After every argument that is added, the call build_call writes is byte for byte what the
\* D-Bus specification makes of it, or nothing when it is too long.
THEOREM CallsFollowSpecAlways == InputsSpec => []CallsFollowSpec
<1>1. InputsTyped => CallsFollowSpec
  BY Zenon, CallsAreBuilt DEF InputsTyped, CallsFollowSpec
<1> QED BY <1>1, InputsStay, PTL

\* After every field that is added, a reply that is complete and not too long is read by
\* bus_call for what it says, whatever order its fields came in.
THEOREM RepliesAreReadAlways == InputsSpec => []RepliesAreRead
<1>1. InputsTyped => RepliesAreRead
  <2> SUFFICES ASSUME InputsTyped, reply # None, Complete(reply), Len(MessageOf(reply)) <= MaxMessage
               PROVE  ReadReply(MessageOf(reply)) =
                          [type |-> reply.type, ok |-> TRUE, serial |-> 7,
                           error |-> IF reply.type = Message.error THEN Text(7, 2) ELSE <<>>,
                           val |-> reply.body.val]
    BY Zenon DEF RepliesAreRead
  <2>1. PICK N \in Nat :
              /\ IsReply(reply, N)
              /\ Says(reply.fields, N, Field.replySerial, 0) = 7
              /\ Says(reply.fields, N, Field.errorName, <<>>) =
                     IF reply.type = Message.error THEN Text(7, 2) ELSE <<>>
    BY Zenon, ReplyIs
  <2>2. ReadReply(MessageOf(reply)) =
            [type |-> reply.type, ok |-> TRUE, serial |-> Says(reply.fields, N, Field.replySerial, 0),
             error |-> Says(reply.fields, N, Field.errorName, <<>>), val |-> reply.body.val]
    BY Zenon, <2>1, RepliesRead
  <2> QED BY Zenon, <2>1, <2>2
<1> QED BY <1>1, InputsStay, PTL

(***************************************************************************)
(* What pairing.h promises of pairing_match, after every discovery.        *)
(***************************************************************************)

\* Listed devices have a number.
LEMMA DevicesCounted ==
    ASSUME NEW d \in Seq(Device)
    PROVE  \E N \in Nat : N = Len(d) /\ DOMAIN d = 1..N
  OBVIOUS

\* What pairing_match returns for every list of devices.
LEMMA PairedOnce ==
    ASSUME NEW d \in Seq(Device)
    PROVE  /\ \A k \in Keyboards(d) : Pairs(d).imu[k] # 0 =>
                 /\ Pairs(d).imu[k] \in ImusOf(d)
                 /\ \A j \in Keyboards(d) : Pairs(d).imu[j] = Pairs(d).imu[k] => j = k
           /\ \A k \in Keyboards(d) : Pairs(d).imu[k] \in Nat
           /\ LastResort(d, Pairs(d))
           /\ MacsKnown(d) =>
                 /\ Pairs(d).ok = TRUE
                 /\ \A k \in Keyboards(d), i \in ImusOf(d) :
                       Pairs(d).imu[k] = i <=> SameMac(d[i], d[k])
<1>1. PICK N \in Nat : N = Len(d) /\ DOMAIN d = 1..N
  BY DevicesCounted
<1>2. Pairs(d) \in Assignments(d, N) /\ LastResort(d, Pairs(d))
  BY <1>1, PairsSound, PairsLastResort
<1>3. /\ \A k \in Keyboards(d) : Pairs(d).imu[k] # 0 =>
            /\ Pairs(d).imu[k] \in ImusOf(d)
            /\ \A j \in Keyboards(d) : Pairs(d).imu[j] = Pairs(d).imu[k] => j = k
      /\ \A k \in Keyboards(d) : Pairs(d).imu[k] \in Nat
  BY <1>2 DEF Assignments
<1>4. ASSUME MacsKnown(d)
      PROVE  /\ Pairs(d).ok = TRUE
             /\ \A k \in Keyboards(d), i \in ImusOf(d) :
                   Pairs(d).imu[k] = i <=> SameMac(d[i], d[k])
  <2>1. ByMac(d, Pairs(d), N)
    BY <1>1, <1>4, PairsByMac
  <2>2. \A i \in ImusOf(d) : i <= N
    BY <1>1 DEF ImusOf
  <2> QED BY <2>1, <2>2 DEF ByMac
<1> QED BY <1>2, <1>3, <1>4

\* Only the keyboard of an IMU's own MAC, or the last one to get any, gets the IMU;
\* so the MAC a remote borrows from its IMU names no other.
LEMMA Distinct ==
    ASSUME devs \in Seq(Device) PROVE IdentitiesDistinct
<1> SUFFICES ASSUME MacsDiffer(Keyboards(devs)), MacsDiffer(Imus),
                    NEW a \in Keyboards(devs), NEW b \in Keyboards(devs), a # b,
                    RemoteOf(devs, a).uniq # NoMac,
                    RemoteOf(devs, a).uniq = RemoteOf(devs, b).uniq
             PROVE  FALSE
  BY DEF IdentitiesDistinct
<1> DEFINE imu == Pairs(devs).imu
           Id(k) == IF devs[k].uniq = NoMac /\ imu[k] # 0 THEN devs[imu[k]].uniq
                    ELSE devs[k].uniq
<1>1. /\ \A k \in Keyboards(devs) : imu[k] # 0 =>
            imu[k] \in Imus /\ \A j \in Keyboards(devs) : imu[j] = imu[k] => j = k
      /\ \A k \in Keyboards(devs) : imu[k] \in Nat
      /\ LastResort(devs, Pairs(devs))
  BY PairedOnce DEF ImusOf, Imus
<1>2. \A k, j \in Keyboards(devs) :
        j # k /\ imu[k] # 0 /\ ~SameMac(devs[imu[k]], devs[k]) =>
            imu[j] # 0 /\ imu[j] < imu[k]
  BY <1>1 DEF LastResort
<1>3. Id(a) # NoMac /\ Id(a) = Id(b)
  BY DEF RemoteOf, Identity
<1> HIDE DEF imu
<1>4. \A i, j \in Imus : i # j => devs[i].uniq # devs[j].uniq \/ devs[i].uniq = NoMac
  BY DEF MacsDiffer
<1>5. \A i, j \in Keyboards(devs) :
        i # j => devs[i].uniq # devs[j].uniq \/ devs[i].uniq = NoMac
  BY DEF MacsDiffer
<1>6. ASSUME NEW k \in Keyboards(devs), NEW j \in Keyboards(devs), k # j,
             Id(k) = Id(j), Id(k) # NoMac, devs[k].uniq = NoMac
      PROVE  FALSE
  <2>1. imu[k] # 0 /\ Id(k) = devs[imu[k]].uniq /\ imu[k] \in Imus
    BY <1>6, <1>1
  <2>2. ~SameMac(devs[imu[k]], devs[k])
    BY <1>6, <2>1 DEF SameMac
  <2>3. imu[j] # 0 /\ imu[j] < imu[k] /\ imu[j] \in Imus
    BY <1>1, <1>2, <1>6, <2>1, <2>2
  <2>4. imu[j] # imu[k] /\ imu[k] \in Nat /\ imu[j] \in Nat
    BY <1>1, <1>6, <2>1, <2>3
  <2>5. SameMac(devs[imu[j]], devs[j])
    BY <1>2, <1>6, <2>3, <2>4
  <2>6. devs[imu[j]].uniq = devs[j].uniq /\ devs[j].uniq # NoMac
    BY <2>5 DEF SameMac
  <2>7. Id(j) = devs[imu[j]].uniq
    BY <2>6
  <2> QED BY <1>4, <1>6, <2>1, <2>3, <2>4, <2>7
<1>7. devs[a].uniq # NoMac /\ devs[b].uniq # NoMac
  <2> HIDE DEF Id
  <2> QED BY <1>3, <1>6
<1> QED BY <1>3, <1>5, <1>7

\* The identity a remote goes by on the bus and in its files' names is its own,
\* unless two devices of a kind report one MAC: pairing_match never lends an IMU's
\* MAC to a keyboard while another keyboard has it, whatever order the nodes come in.
THEOREM IdentitiesDistinctAlways == InputsSpec => []IdentitiesDistinct
<1>1. devs \in Seq(Device) => IdentitiesDistinct
  BY Distinct
<1>2. InputsTyped => devs \in Seq(Device)
  BY DEF InputsTyped
<1> QED BY <1>1, <1>2, InputsStay, PTL

\* A set in which every MAC is known is paired by MAC alone, in every order of
\* discovery and for any number of remotes: pairing_match neither refuses it nor
\* falls back on elimination.
THEOREM CompleteSetsPairByMacAlways == InputsSpec => []CompleteSetsPairByMac
<1>1. devs \in Seq(Device) => CompleteSetsPairByMac
  <2> SUFFICES ASSUME devs \in Seq(Device), CompleteSet
               PROVE  /\ Pairs(devs).ok
                      /\ \A k \in Keyboards(devs), i \in Imus :
                            Pairs(devs).imu[k] = i <=> SameMac(devs[i], devs[k])
    BY DEF CompleteSetsPairByMac
  <2>1. MacsKnown(devs)
    <3>1. \A i \in Imus : devs[i].uniq # NoMac
      BY DEF CompleteSet, SameMac
    <3> QED BY <3>1 DEF CompleteSet, MacsDiffer, MacsKnown, ImusOf, Imus
  <2> QED BY <2>1, PairedOnce DEF ImusOf, Imus
<1>2. InputsTyped => devs \in Seq(Device)
  BY DEF InputsTyped
<1> QED BY <1>1, <1>2, InputsStay, PTL

=============================================================================
