----------------------------- MODULE BusProofs -----------------------------
(***************************************************************************)
(* Bus, for any clients, commands, devices and configurations.             *)
(***************************************************************************)
EXTENDS Bus, ConfigStoreProofs, SequenceTheorems, FiniteSetTheorems, TLAPS

\* A method that has passed the gate serves a caller who may.
GateHolds ==
    Busy => /\ serving = [call |-> serving.call, at |-> serving.at]
            /\ serving.at \in {"permitted", "writing"} => Key(serving.call) \in permitted

PermittedInv == OnlyPermitted /\ GateHolds

LEMMA PermittedStep == PermittedInv /\ [BusNext]_allVars => PermittedInv'
<1> SUFFICES ASSUME PermittedInv, [BusNext]_allVars PROVE PermittedInv'
  OBVIOUS
<1> USE DEF PermittedInv, OnlyPermitted, GateHolds, Busy, At, Key
<1>1. CASE UNCHANGED busVars
  BY <1>1 DEF busVars
<1>2. CASE Dispatch
  BY <1>2 DEF Dispatch
<1>3. CASE ReadAhead
  BY <1>3 DEF ReadAhead
<1>4. CASE Identified
  BY <1>4 DEF Identified, MoveTo, gateUnchanged
<1>5. CASE Authorized
  BY <1>5 DEF Authorized, Yes, Deny, Finished, MoveTo, gateUnchanged
<1>6. CASE AskFails
  BY <1>6 DEF AskFails, Deny, Finished, gateUnchanged
<1>7. CASE RefuseArguments
  BY <1>7 DEF RefuseArguments, Finished, methodUnchanged
<1>8. CASE Perform
  BY <1>8 DEF Perform, MoveTo, methodUnchanged
<1>9. CASE PerformReload \/ Persisted
  BY <1>9 DEF PerformReload, Persisted, Finished, methodUnchanged
<1>10. CASE NotPersisted
  BY <1>10 DEF NotPersisted, Finished, methodUnchanged
<1>11. CASE DaemonEnds \/ DaemonStarts
  BY <1>11 DEF DaemonEnds, DaemonStarts, Finished
<1>12. CASE \E id \in Ids : RemoteAppears(id) \/ RemoteLeaves(id)
  BY <1>12 DEF RemoteAppears, RemoteLeaves
<1>13. CASE \E c \in Clients : ClientStep(c)
  BY <1>1, <1>13 DEF ClientStep
<1>14. CASE UNCHANGED allVars
  BY <1>1, <1>14 DEF allVars
<1> QED
  BY <1>2, <1>3, <1>4, <1>5, <1>6, <1>7, <1>8, <1>9, <1>10, <1>11, <1>12, <1>13, <1>14
     DEF BusNext

\* Whatever is done, a read apart, is done for root or after polkit's yes.
THEOREM OnlyPermittedAlways == BusSpec => []OnlyPermitted
<1>1. BusInit => PermittedInv
  BY DEF BusInit, PermittedInv, OnlyPermitted, GateHolds, Busy
<1>2. PermittedInv => OnlyPermitted
  BY DEF PermittedInv
<1> QED
  BY <1>1, <1>2, PermittedStep, PTL DEF BusSpec

----------------------------------------------------------------------------
(* A call is dispatched once: no two calls of the daemon's have the same    *)
(* key, and none has the key of one that has been answered.                 *)

\* What the daemon will be given next, whoever has read it.
Queue == rqueue \o socket

Answered == done \cup refused

\* A call of a client that has given out so many serials, and had some answered.
Keyed(call, given, answered) ==
    /\ call.from \in Clients /\ call.serial \in Nat
    /\ call.serial <= given[call.from]
    /\ Key(call) \notin answered

ServingOK ==
    Busy => /\ serving = [call |-> serving.call, at |-> serving.at]
            /\ Keyed(serving.call, serial, Answered)
            /\ \A i \in 1..Len(Queue) : Key(Queue[i]) # Key(serving.call)

QueueOK ==
    /\ \E S : rqueue \in Seq(S) /\ socket \in Seq(S)
    /\ \A i \in 1..Len(Queue) : Keyed(Queue[i], serial, Answered)
    /\ \A i, j \in 1..Len(Queue) : i # j => Key(Queue[i]) # Key(Queue[j])

\* Keys that have been answered were given out by the client's counter.
AnsweredOK ==
    /\ serial \in [Clients -> Nat]
    /\ \A c \in Clients : phase[c] \in {"start", "auth"} => serial[c] = 0
    /\ DOMAIN phase = Clients
    /\ \A k \in Answered :
          k \in Clients \X Nat /\ k[2] <= serial[k[1]]

RefusedInv == RefusedIsUndone /\ ServingOK /\ QueueOK /\ AnsweredOK

LEMMA ReadingAheadKeepsQueue ==
    ASSUME NEW S, rqueue \in Seq(S), socket \in Seq(S), ReadAhead
    PROVE  /\ rqueue' \in Seq(S) /\ socket' \in Seq(S)
           /\ Len(Queue') = Len(Queue)
           /\ \A i \in 1..Len(Queue) : Queue'[i] = Queue[i]
<1>1. /\ rqueue' = Append(rqueue, Head(socket)) /\ socket' = Tail(socket)
      /\ socket # <<>>
  BY DEF ReadAhead
<1>2. /\ Head(socket) = socket[1] /\ Head(socket) \in S
      /\ socket' \in Seq(S) /\ Len(socket') = Len(socket) - 1
      /\ \A i \in 1..Len(socket') : socket'[i] = socket[i + 1]
  BY <1>1, HeadTailProperties
<1>3. /\ rqueue' \in Seq(S) /\ Len(rqueue') = Len(rqueue) + 1
      /\ \A i \in 1..Len(rqueue) : rqueue'[i] = rqueue[i]
      /\ rqueue'[Len(rqueue) + 1] = socket[1]
  BY <1>1, <1>2
<1>4. /\ Len(Queue) = Len(rqueue) + Len(socket)
      /\ \A i \in 1..Len(rqueue) + Len(socket) :
            Queue[i] = IF i <= Len(rqueue) THEN rqueue[i] ELSE socket[i - Len(rqueue)]
  BY ConcatProperties DEF Queue
<1>5. /\ Len(Queue') = Len(rqueue') + Len(socket')
      /\ \A i \in 1..Len(rqueue') + Len(socket') :
            Queue'[i] = IF i <= Len(rqueue') THEN rqueue'[i] ELSE socket'[i - Len(rqueue')]
  BY <1>2, <1>3, ConcatProperties DEF Queue
<1>6. Len(rqueue) \in Nat /\ Len(socket) \in Nat
  BY LenProperties
<1>7. Len(Queue') = Len(Queue)
  BY <1>2, <1>3, <1>4, <1>5, <1>6
<1>8. ASSUME NEW i \in 1..Len(Queue) PROVE Queue'[i] = Queue[i]
  <2>0. i \in 1..Len(rqueue) + Len(socket) /\ i \in 1..Len(rqueue') + Len(socket')
    BY <1>4, <1>5, <1>7
  <2>1. CASE i <= Len(rqueue)
    <3>1. i \in 1..Len(rqueue) /\ i <= Len(rqueue')
      BY <2>0, <2>1, <1>3, <1>6
    <3>2. Queue[i] = rqueue[i]
      BY <2>0, <2>1, <1>4
    <3>3. Queue'[i] = rqueue'[i]
      BY <2>0, <3>1, <1>5
    <3> QED BY <3>1, <3>2, <3>3, <1>3
  <2>2. CASE i = Len(rqueue) + 1
    BY <2>2, <1>2, <1>3, <1>4, <1>5, <1>6, <1>7
  <2>3. CASE i > Len(rqueue) + 1
    <3>1. i - Len(rqueue') \in 1..Len(socket') /\ i - Len(rqueue') + 1 = i - Len(rqueue)
      BY <2>3, <1>2, <1>3, <1>4, <1>6
    <3>2. Queue[i] = socket[i - Len(rqueue)]
      BY <2>0, <2>3, <1>4, <1>6
    <3>3. Queue'[i] = socket'[i - Len(rqueue')]
      BY <2>0, <2>3, <1>3, <1>5, <1>6
    <3> QED BY <3>1, <3>2, <3>3, <1>2
  <2> QED BY <2>1, <2>2, <2>3, <1>4, <1>6
<1> QED BY <1>2, <1>3, <1>7, <1>8

LEMMA TakingShortensQueue ==
    ASSUME NEW S, rqueue \in Seq(S), socket \in Seq(S), socket # <<>>, TakeNext
    PROVE  /\ rqueue' \in Seq(S) /\ socket' \in Seq(S)
           /\ Len(Queue) \in Nat \ {0} /\ NextCall = Queue[1]
           /\ Len(Queue') = Len(Queue) - 1
           /\ \A i \in 1..Len(Queue') : Queue'[i] = Queue[i + 1]
<1>1. /\ Queue \in Seq(S) /\ Len(Queue) = Len(rqueue) + Len(socket)
      /\ \A i \in 1..Len(rqueue) + Len(socket) :
            Queue[i] = IF i <= Len(rqueue) THEN rqueue[i] ELSE socket[i - Len(rqueue)]
  BY ConcatProperties DEF Queue
<1>2. Len(rqueue) \in Nat /\ Len(socket) \in Nat \ {0}
  BY LenProperties, EmptySeq
<1>3. NextCall = Queue[1]
  BY <1>1, <1>2 DEF NextCall, Queue
<1>4. CASE rqueue # <<>>
  <2>1. /\ rqueue' \in Seq(S) /\ Len(rqueue') = Len(rqueue) - 1 /\ socket' = socket
        /\ \A i \in 1..Len(rqueue') : rqueue'[i] = rqueue[i + 1]
    BY <1>4, HeadTailProperties DEF TakeNext
  <2>2. /\ Len(Queue') = Len(rqueue') + Len(socket)
        /\ \A i \in 1..Len(rqueue') + Len(socket) :
              Queue'[i] = IF i <= Len(rqueue') THEN rqueue'[i] ELSE socket[i - Len(rqueue')]
    BY <2>1, ConcatProperties DEF Queue
  <2>3. ASSUME NEW i \in 1..Len(Queue') PROVE Queue'[i] = Queue[i + 1]
    <3>1. i + 1 \in 1..Len(rqueue) + Len(socket)
      BY <2>1, <2>2, <1>2
    <3>2. CASE i <= Len(rqueue')
      <4>1. i \in 1..Len(rqueue') /\ i + 1 <= Len(rqueue)
        BY <3>2, <2>1, <2>2, <1>2
      <4>2. Queue'[i] = rqueue'[i]
        BY <3>2, <2>2
      <4>3. Queue[i + 1] = rqueue[i + 1]
        BY <3>1, <4>1, <1>1
      <4> QED BY <4>1, <4>2, <4>3, <2>1
    <3>3. CASE i > Len(rqueue')
      <4>1. i - Len(rqueue') = (i + 1) - Len(rqueue) BY <2>1, <1>2
      <4>2. Queue'[i] = socket[i - Len(rqueue')]
        BY <3>3, <2>2
      <4>3. ~(i + 1 <= Len(rqueue))
        BY <3>3, <2>1, <1>2
      <4>4. Queue[i + 1] = socket[(i + 1) - Len(rqueue)]
        BY <3>1, <4>3, <1>1
      <4> QED BY <4>1, <4>2, <4>4
    <3> QED BY <3>2, <3>3, <2>1, <1>2
  <2> QED BY <2>1, <2>2, <2>3, <1>1, <1>2, <1>3
<1>5. CASE rqueue = <<>>
  <2>1. /\ socket' \in Seq(S) /\ Len(socket') = Len(socket) - 1 /\ rqueue' = <<>>
        /\ \A i \in 1..Len(socket') : socket'[i] = socket[i + 1]
    BY <1>5, HeadTailProperties DEF TakeNext
  <2>2. Queue = socket /\ Queue' = socket'
    BY <1>5, <2>1, ConcatEmptySeq DEF Queue
  <2> QED BY <2>1, <2>2, <1>2, <1>3, <1>5
<1> QED BY <1>4, <1>5

LEMMA SendingLengthensQueue ==
    ASSUME NEW S, rqueue \in Seq(S), socket \in Seq(S), NEW m,
           rqueue' = rqueue, socket' = Append(socket, m)
    PROVE  /\ rqueue' \in Seq(S \cup {m}) /\ socket' \in Seq(S \cup {m})
           /\ Len(Queue) \in Nat /\ Len(Queue') = Len(Queue) + 1
           /\ \A i \in 1..Len(Queue) : Queue'[i] = Queue[i]
           /\ Queue'[Len(Queue) + 1] = m
<1> DEFINE T == S \cup {m}
<1>1. rqueue \in Seq(T) /\ socket \in Seq(T) /\ m \in T
  BY SeqMonotonic
<1> HIDE DEF T
<1>2. /\ Len(rqueue) \in Nat /\ Len(socket) \in Nat
  BY <1>1, LenProperties
<1>3. /\ socket' \in Seq(T) /\ Len(socket') = Len(socket) + 1
      /\ \A i \in 1..Len(socket) : socket'[i] = socket[i]
      /\ socket'[Len(socket) + 1] = m
  BY <1>1, <1>2
<1>4. /\ Len(Queue) = Len(rqueue) + Len(socket)
      /\ \A i \in 1..Len(rqueue) + Len(socket) :
            Queue[i] = IF i <= Len(rqueue) THEN rqueue[i] ELSE socket[i - Len(rqueue)]
  BY <1>1, ConcatProperties DEF Queue
<1>5. /\ Len(Queue') = Len(rqueue) + Len(socket')
      /\ \A i \in 1..Len(rqueue) + Len(socket') :
            Queue'[i] = IF i <= Len(rqueue) THEN rqueue[i] ELSE socket'[i - Len(rqueue)]
  BY <1>1, <1>3, ConcatProperties DEF Queue
<1>6. ASSUME NEW i \in 1..Len(Queue) PROVE Queue'[i] = Queue[i]
  <2>1. i \in 1..Len(rqueue) + Len(socket) /\ i \in 1..Len(rqueue) + Len(socket')
    BY <1>2, <1>3, <1>4
  <2>2. CASE i <= Len(rqueue)
    BY <2>1, <2>2, <1>4, <1>5
  <2>3. CASE i > Len(rqueue)
    <3>1. i - Len(rqueue) \in 1..Len(socket) BY <2>1, <2>3, <1>2
    <3> QED BY <3>1, <2>1, <2>3, <1>2, <1>3, <1>4, <1>5
  <2> QED BY <2>1, <2>2, <2>3, <1>2
<1>7. Queue'[Len(Queue) + 1] = m
  <2>1. /\ Len(Queue) + 1 \in 1..Len(rqueue) + Len(socket')
        /\ ~(Len(Queue) + 1 <= Len(rqueue))
        /\ (Len(Queue) + 1) - Len(rqueue) = Len(socket) + 1
    BY <1>2, <1>3, <1>4
  <2> QED BY <2>1, <1>3, <1>5
<1> QED BY <1>1, <1>2, <1>3, <1>4, <1>5, <1>6, <1>7 DEF T

\* What a step of a client does to what the invariant speaks of.
Sends(c) ==
    \E q : /\ socket' = Append(socket, [from |-> c, serial |-> serial[c] + 1, req |-> q])
           /\ serial'[c] = serial[c] + 1

SerialsGrow ==
    /\ serial' \in [Clients -> Nat]
    /\ \A c \in Clients : serial[c] <= serial'[c]
    /\ \A c \in Clients : phase'[c] \in {"start", "auth"} => serial'[c] = 0
    /\ DOMAIN phase' = Clients

LEMMA ClientEffect ==
    ASSUME AnsweredOK, NEW c \in Clients, Command(c)
    PROVE  SerialsGrow /\ (socket' = socket \/ Sends(c))
<1> USE DEF AnsweredOK, SerialsGrow
<1>1. ASSUME NEW n, Exit(c, n) PROVE SerialsGrow /\ socket' = socket
  BY <1>1 DEF Exit
<1>2. ASSUME NEW calls, NEW rest, NEW owned, Send(c, calls, rest, owned)
      PROVE  SerialsGrow /\ (socket' = socket \/ Sends(c))
  <2>1. SerialsGrow
    BY <1>2 DEF Send
  <2>2. CASE owned
    <3>1. /\ socket' = Append(socket, [from |-> c, serial |-> serial[c] + 1,
                                      req |-> Head(calls)])
          /\ serial' = [serial EXCEPT ![c] = serial[c] + 1]
      BY <1>2, <2>2 DEF Send
    <3>2. serial'[c] = serial[c] + 1
      BY <3>1
    <3> QED BY <2>1, <3>1, <3>2 DEF Sends
  <2>3. CASE ~owned
    BY <1>2, <2>3 DEF Send
  <2> QED BY <2>1, <2>2, <2>3
<1>3. ASSUME NEW calls, NEW rest, NEW owned, Proceed(c, calls, rest, owned)
      PROVE  SerialsGrow /\ (socket' = socket \/ Sends(c))
  <2>1. CASE Exit(c, 0)
    BY <1>1, <2>1
  <2>2. CASE Send(c, calls, rest, owned)
    BY <1>2, <2>2
  <2>3. CASE /\ phase' = [phase EXCEPT ![c] = "read"]
             /\ UNCHANGED <<serial, code, socket>>
    BY <2>3
  <2> QED BY <1>3, <2>1, <2>2, <2>3 DEF Proceed
<1>4. CASE Connect(c)
  <2>1. CASE Exit(c, 1)
    BY <1>1, <2>1
  <2>2. CASE phase[c] = "start" /\ phase' = [phase EXCEPT ![c] = "auth"]
             /\ UNCHANGED <<serial, socket>>
    BY <2>2
  <2> QED BY <1>4, <2>1, <2>2 DEF Connect
<1>5. CASE Authenticate(c)
  <2>1. CASE Exit(c, 1)
    BY <1>1, <2>1
  <2>2. CASE /\ phase[c] = "auth" /\ phase' = [phase EXCEPT ![c] = "hello"]
             /\ serial' = [serial EXCEPT ![c] = 1] /\ socket' = socket
    BY <2>2
  <2> QED BY <1>5, <2>1, <2>2 DEF Authenticate
<1>6. CASE Skip(c)
  BY <1>6 DEF Skip
<1>7. CASE Succeed(c, up)
  <2>1. CASE Exit(c, 1)
    BY <1>1, <2>1
  <2>2. CASE \E calls, rest : Proceed(c, calls, rest, up)
    BY <1>3, <2>2
  <2> QED BY <1>7, <2>1, <2>2 DEF Succeed
<1>8. CASE Fail(c)
  BY <1>1, <1>8 DEF Fail
<1>9. CASE TimeOut(c)
  BY <1>1, <1>9 DEF TimeOut
<1>10. ASSUME NEW ok, ReadFiles(c, ok) PROVE SerialsGrow /\ socket' = socket
  BY <1>1, <1>10 DEF ReadFiles
<1> QED
  BY <1>4, <1>5, <1>6, <1>7, <1>8, <1>9, <1>10 DEF Command

\* A method in progress goes on, or ends with its call done or refused.
Serves ==
    /\ Busy
    /\ UNCHANGED <<phase, serial, socket, rqueue>>
    /\ \/ /\ serving'.call = serving.call
          /\ serving' = [call |-> serving'.call, at |-> serving'.at]
          /\ UNCHANGED <<done, refused>>
       \/ /\ serving' = Idle
          /\ done' = done \cup {Key(serving.call)} /\ refused' = refused
       \/ /\ serving' = Idle
          /\ refused' = refused \cup {Key(serving.call)} /\ done' = done

LEMMA MethodEffect ==
    ASSUME ServingOK,
           \/ Identified \/ Authorized \/ AskFails \/ RefuseArguments
           \/ Perform \/ PerformReload \/ Persisted \/ NotPersisted
    PROVE  Serves
<1> USE DEF Serves, At, Finished, Ok, Refuse
<1>1. ASSUME NEW where, Busy, MoveTo(where)
      PROVE  /\ serving'.call = serving.call
             /\ serving' = [call |-> serving'.call, at |-> serving'.at]
  BY <1>1 DEF MoveTo, ServingOK
<1>2. CASE Identified
  BY <1>1, <1>2 DEF Identified, gateUnchanged
<1>3. CASE Authorized
  BY <1>1, <1>3 DEF Authorized, Deny, gateUnchanged
<1>4. CASE AskFails
  BY <1>4 DEF AskFails, LimitsAsking, Deny, gateUnchanged
<1>5. CASE RefuseArguments
  BY <1>5 DEF RefuseArguments, methodUnchanged
<1>6. CASE Perform
  BY <1>1, <1>6 DEF Perform, methodUnchanged
<1>7. CASE PerformReload \/ Persisted
  BY <1>7 DEF PerformReload, Persisted, methodUnchanged
<1>8. CASE NotPersisted
  BY <1>8 DEF NotPersisted, ReplyFailed, methodUnchanged
<1> QED BY <1>2, <1>3, <1>4, <1>5, <1>6, <1>7, <1>8

LEMMA ClientKeepsRefused ==
    ASSUME RefusedInv, NEW c \in Clients, ClientStep(c)
    PROVE  RefusedInv'
<1>1. SerialsGrow /\ (socket' = socket \/ Sends(c)) /\ UNCHANGED busVars
  BY ClientEffect DEF RefusedInv, ClientStep
<1>2. UNCHANGED <<rqueue, serving, done, refused>>
  BY <1>1 DEF busVars
<1>3. RefusedIsUndone' /\ AnsweredOK'
  BY <1>1, <1>2 DEF RefusedInv, RefusedIsUndone, AnsweredOK, Answered, SerialsGrow
<1>4. ASSUME NEW call, Keyed(call, serial, Answered) PROVE Keyed(call, serial', Answered')
  BY <1>1, <1>2, <1>4 DEF Keyed, Key, Answered, SerialsGrow, RefusedInv, AnsweredOK
<1>5. CASE socket' = socket
  <2>1. Queue' = Queue
    BY <1>2, <1>5 DEF Queue
  <2>2. QueueOK'
    <3>1. \E S : rqueue' \in Seq(S) /\ socket' \in Seq(S)
      BY <1>2, <1>5 DEF RefusedInv, QueueOK
    <3>2. \A i \in 1..Len(Queue) : Keyed(Queue'[i], serial', Answered')
      BY <1>4, <2>1 DEF RefusedInv, QueueOK
    <3> QED BY <3>1, <3>2, <2>1 DEF RefusedInv, QueueOK, Key
  <2>3. ServingOK'
    BY <1>2, <1>4, <2>1 DEF RefusedInv, ServingOK, Busy, Key
  <2> QED BY <1>3, <2>2, <2>3 DEF RefusedInv
<1>6. CASE Sends(c)
  <2>1. PICK q : /\ socket' = Append(socket, [from |-> c, serial |-> serial[c] + 1, req |-> q])
                 /\ serial'[c] = serial[c] + 1
    BY <1>6 DEF Sends
  <2> DEFINE m == [from |-> c, serial |-> serial[c] + 1, req |-> q]
  <2>2. PICK S : rqueue \in Seq(S) /\ socket \in Seq(S)
    BY DEF RefusedInv, QueueOK
  <2>3. /\ rqueue' \in Seq(S \cup {m}) /\ socket' \in Seq(S \cup {m})
        /\ Len(Queue) \in Nat /\ Len(Queue') = Len(Queue) + 1
        /\ \A i \in 1..Len(Queue) : Queue'[i] = Queue[i]
        /\ Queue'[Len(Queue) + 1] = m
    BY <1>2, <2>1, <2>2, SendingLengthensQueue
  <2>4. m.from = c /\ m.serial = serial[c] + 1 /\ Key(m) = <<c, serial[c] + 1>>
    BY DEF Key
  <2>5. Keyed(m, serial', Answered')
    BY <1>2, <2>1, <2>4 DEF Keyed, Answered, RefusedInv, AnsweredOK
  <2>6. ASSUME NEW call, Keyed(call, serial, Answered) PROVE Key(call) # Key(m)
    BY <2>4, <2>6 DEF Keyed, Key, RefusedInv, AnsweredOK
  <2> HIDE DEF m
  <2>7. \A i \in 1..Len(Queue) : Keyed(Queue'[i], serial', Answered')
    BY <1>4, <2>3 DEF RefusedInv, QueueOK
  <2>8. \A i \in 1..Len(Queue) : Key(Queue'[i]) # Key(m)
    BY <2>3, <2>6 DEF RefusedInv, QueueOK
  <2>9. \A i \in 1..Len(Queue') : i \in 1..Len(Queue) \/ Queue'[i] = m
    BY <2>3
  <2>10. QueueOK'
    <3>1. \A i \in 1..Len(Queue') : Keyed(Queue'[i], serial', Answered')
      BY <2>5, <2>7, <2>9
    <3>2. ASSUME NEW i \in 1..Len(Queue'), NEW j \in 1..Len(Queue'), i # j
          PROVE  Key(Queue'[i]) # Key(Queue'[j])
      <4>1. CASE i \in 1..Len(Queue) /\ j \in 1..Len(Queue)
        BY <3>2, <4>1, <2>3 DEF RefusedInv, QueueOK
      <4>2. CASE i \notin 1..Len(Queue) /\ j \in 1..Len(Queue)
        BY <4>2, <2>8, <2>9
      <4>3. CASE i \in 1..Len(Queue) /\ j \notin 1..Len(Queue)
        BY <4>3, <2>8, <2>9
      <4>4. CASE i \notin 1..Len(Queue) /\ j \notin 1..Len(Queue)
        BY <3>2, <4>4, <2>3
      <4> QED BY <4>1, <4>2, <4>3, <4>4
    <3> QED BY <3>1, <3>2, <2>3 DEF QueueOK, Key
  <2>11. ServingOK'
    <3>1. Busy => /\ Keyed(serving.call, serial', Answered') /\ Key(serving.call) # Key(m)
                  /\ \A i \in 1..Len(Queue) : Key(Queue'[i]) # Key(serving.call)
      BY <1>4, <2>3, <2>6 DEF RefusedInv, ServingOK
    <3> QED BY <3>1, <1>2, <2>9 DEF RefusedInv, ServingOK, Busy, Key
  <2> QED BY <1>3, <2>10, <2>11 DEF RefusedInv
<1> QED BY <1>1, <1>5, <1>6

LEMMA MethodKeepsRefused ==
    ASSUME RefusedInv, Serves
    PROVE  RefusedInv'
<1> USE DEF RefusedInv, Serves
<1>1. /\ Queue' = Queue /\ UNCHANGED <<phase, serial, socket, rqueue>>
      /\ Keyed(serving.call, serial, Answered)
  BY DEF Queue, ServingOK
<1>2. CASE UNCHANGED <<done, refused>>
  BY <1>1, <1>2 DEF RefusedIsUndone, ServingOK, QueueOK, AnsweredOK, Answered, Busy
<1>3. CASE ~Busy' /\ Answered' = Answered \cup {Key(serving.call)} /\ RefusedIsUndone'
  <2>1. ASSUME NEW i \in 1..Len(Queue) PROVE Keyed(Queue'[i], serial', Answered')
    BY <1>1, <1>3 DEF Keyed, QueueOK, ServingOK
  <2>2. QueueOK' /\ ServingOK'
    BY <1>1, <1>3, <2>1 DEF QueueOK, ServingOK
  <2>3. AnsweredOK'
    BY <1>1, <1>3 DEF AnsweredOK, Keyed, Key
  <2> QED BY <1>3, <2>2, <2>3
<1>4. ASSUME \/ done' = done \cup {Key(serving.call)} /\ refused' = refused
             \/ refused' = refused \cup {Key(serving.call)} /\ done' = done
      PROVE  RefusedIsUndone' /\ Answered' = Answered \cup {Key(serving.call)}
  BY <1>1, <1>4 DEF RefusedIsUndone, Answered, Keyed
<1> QED BY <1>2, <1>3, <1>4 DEF Busy

\* What the daemon makes of the call it took: in progress, done, or refused.
Takes(call) ==
    \/ /\ serving' = [call |-> call, at |-> serving'.at]
       /\ UNCHANGED <<done, refused>>
    \/ ~Busy' /\ done' = done \cup {Key(call)} /\ refused' = refused
    \/ ~Busy' /\ refused' = refused \cup {Key(call)} /\ done' = done

LEMMA DispatchKeepsRefused ==
    ASSUME RefusedInv, Dispatch
    PROVE  RefusedInv'
<1> USE DEF RefusedInv
<1>1. /\ ~Busy /\ socket # <<>> /\ TakeNext /\ UNCHANGED <<phase, serial>>
      /\ Takes(NextCall)
  BY DEF Dispatch, Takes, Busy, Refuse
<1>2. PICK S : rqueue \in Seq(S) /\ socket \in Seq(S)
  BY DEF QueueOK
<1>3. /\ rqueue' \in Seq(S) /\ socket' \in Seq(S)
      /\ Len(Queue) \in Nat \ {0} /\ NextCall = Queue[1]
      /\ Len(Queue') = Len(Queue) - 1
      /\ \A i \in 1..Len(Queue') : Queue'[i] = Queue[i + 1]
  BY <1>1, <1>2, TakingShortensQueue
<1>4. /\ 1 \in 1..Len(Queue)
      /\ \A i \in 1..Len(Queue') : i + 1 \in 1..Len(Queue) /\ i + 1 # 1
  BY <1>3
<1>5. /\ Keyed(NextCall, serial, Answered)
      /\ \A i \in 1..Len(Queue') : /\ Keyed(Queue'[i], serial, Answered)
                                   /\ Key(Queue'[i]) # Key(NextCall)
  BY <1>3, <1>4 DEF QueueOK
<1>6. \A i, j \in 1..Len(Queue') : i # j => Key(Queue'[i]) # Key(Queue'[j])
  <2> SUFFICES ASSUME NEW i \in 1..Len(Queue'), NEW j \in 1..Len(Queue'), i # j
               PROVE  Key(Queue'[i]) # Key(Queue'[j])
    OBVIOUS
  <2>1. i + 1 # j + 1
    OBVIOUS
  <2> QED BY <2>1, <1>3, <1>4 DEF QueueOK
<1>7. CASE /\ serving' = [call |-> NextCall, at |-> serving'.at]
           /\ UNCHANGED <<done, refused>>
  <2>1. serving'.call = NextCall
    BY <1>7
  <2>2. ServingOK'
    BY <1>1, <1>5, <1>7, <2>1 DEF ServingOK, Answered, Key
  <2>3. QueueOK'
    BY <1>1, <1>3, <1>5, <1>6, <1>7 DEF QueueOK, Answered, Key
  <2> QED BY <1>1, <1>7, <2>2, <2>3 DEF RefusedIsUndone, AnsweredOK, Answered
<1>8. CASE /\ ~Busy'
           /\ \/ done' = done \cup {Key(NextCall)} /\ refused' = refused
              \/ refused' = refused \cup {Key(NextCall)} /\ done' = done
  <2>1. RefusedIsUndone' /\ Answered' = Answered \cup {Key(NextCall)}
    BY <1>5, <1>8 DEF RefusedIsUndone, Answered, Keyed
  <2>2. \A i \in 1..Len(Queue') : Keyed(Queue'[i], serial', Answered')
    BY <1>1, <1>5, <2>1 DEF Keyed
  <2>3. QueueOK'
    BY <1>3, <1>6, <2>2 DEF QueueOK, Key
  <2>4. AnsweredOK'
    BY <1>1, <1>5, <2>1 DEF AnsweredOK, Keyed, Key
  <2> QED BY <1>8, <2>1, <2>3, <2>4 DEF ServingOK
<1> QED BY <1>1, <1>7, <1>8 DEF Takes

LEMMA RefusedStep == RefusedInv /\ [BusNext]_allVars => RefusedInv'
<1> SUFFICES ASSUME RefusedInv, [BusNext]_allVars PROVE RefusedInv'
  OBVIOUS
<1>1. CASE UNCHANGED <<phase, serial, socket, rqueue, serving, done, refused>>
  <2>1. Queue' = Queue /\ Answered' = Answered
    BY <1>1 DEF Queue, Answered
  <2>2. QueueOK'
    BY <1>1, <2>1 DEF RefusedInv, QueueOK, Key
  <2>3. ServingOK'
    BY <1>1, <2>1 DEF RefusedInv, ServingOK, Busy, Key
  <2> QED BY <1>1, <2>1, <2>2, <2>3 DEF RefusedInv, RefusedIsUndone, AnsweredOK
<1>2. ASSUME NEW c \in Clients, ClientStep(c) PROVE RefusedInv'
  BY <1>2, ClientKeepsRefused
<1>3. CASE Dispatch
  BY <1>3, DispatchKeepsRefused
<1>4. CASE ReadAhead
  <2>1. PICK S : rqueue \in Seq(S) /\ socket \in Seq(S)
    BY DEF RefusedInv, QueueOK
  <2>2. /\ rqueue' \in Seq(S) /\ socket' \in Seq(S)
        /\ Len(Queue') = Len(Queue)
        /\ \A i \in 1..Len(Queue) : Queue'[i] = Queue[i]
    BY <1>4, <2>1, ReadingAheadKeepsQueue
  <2>3. UNCHANGED <<phase, serial, serving, done, refused>>
    BY <1>4 DEF ReadAhead
  <2>4. QueueOK'
    BY <2>2, <2>3 DEF RefusedInv, QueueOK, Answered, Key
  <2>5. ServingOK'
    BY <2>2, <2>3 DEF RefusedInv, ServingOK, Answered, Busy, Key
  <2> QED BY <2>3, <2>4, <2>5 DEF RefusedInv, RefusedIsUndone, AnsweredOK, Answered
<1>5. CASE \/ Identified \/ Authorized \/ AskFails \/ RefuseArguments
           \/ Perform \/ PerformReload \/ Persisted \/ NotPersisted
  BY <1>5, MethodEffect, MethodKeepsRefused DEF RefusedInv
<1>6. CASE DaemonEnds
  <2>1. /\ rqueue' = <<>> /\ socket' = <<>> /\ ~Busy'
        /\ UNCHANGED <<phase, serial, done, refused>>
    BY <1>6 DEF DaemonEnds, Finished, Busy
  <2>2. Len(Queue') = 0 /\ \E S : rqueue' \in Seq(S) /\ socket' \in Seq(S)
    BY <2>1, EmptySeq, ConcatEmptySeq DEF Queue
  <2>3. QueueOK' /\ ServingOK'
    BY <2>1, <2>2 DEF QueueOK, ServingOK
  <2> QED BY <2>1, <2>3 DEF RefusedInv, RefusedIsUndone, AnsweredOK, Answered
<1>7. CASE DaemonStarts
  BY <1>1, <1>7 DEF DaemonStarts, clientVars
<1>8. ASSUME NEW id \in Ids, RemoteAppears(id) \/ RemoteLeaves(id) PROVE RefusedInv'
  BY <1>1, <1>8 DEF RemoteAppears, RemoteLeaves, clientVars
<1>9. CASE UNCHANGED allVars
  BY <1>1, <1>9 DEF allVars, clientVars, busVars
<1> QED
  BY <1>2, <1>3, <1>4, <1>5, <1>6, <1>7, <1>8, <1>9 DEF BusNext

\* A call the daemon answered with an error is never carried out, whatever has been
\* queued behind it, and one it has carried out is never refused.
THEOREM RefusedIsUndoneAlways == BusSpec => []RefusedIsUndone
<1>1. BusInit => RefusedInv
  <2> SUFFICES ASSUME BusInit PROVE RefusedInv
    OBVIOUS
  <2>1. Len(Queue) = 0 /\ \E S : rqueue \in Seq(S) /\ socket \in Seq(S)
    BY EmptySeq, ConcatEmptySeq DEF BusInit, ClientInit, Queue
  <2> QED
    BY <2>1 DEF BusInit, ClientInit, RefusedInv, RefusedIsUndone, ServingOK, QueueOK,
                AnsweredOK, Answered, Busy
<1>2. RefusedInv => RefusedIsUndone
  BY DEF RefusedInv
<1> QED
  BY <1>1, <1>2, RefusedStep, PTL DEF BusSpec

----------------------------------------------------------------------------
(* A client exits with 0 only after an answer to each of its calls, and the *)
(* daemon answers "return" only to what it has done.                        *)

Messages == [kind : {"return", "error", "signal"}, serial : Nat, devs : SUBSET Ids]

\* What may lie in the inbox of c: a return is the broker's to Hello, or of a call done.
Honest(c, finished) ==
    {m \in Messages : m.kind = "return" => m.serial = 1 \/ <<c, m.serial>> \in finished}

\* How much of its command c has had done.
DoneSoFar(c) ==
    /\ code[c] = NoCode \/ phase[c] = "done"
    /\ phase[c] \in {"start", "auth", "hello"} => serial[c] <= 1
    /\ phase[c] = "call" => \A n \in 2..serial[c] - 1 : <<c, n>> \in done
    /\ phase[c] = "read" \/ code[c] = 0 => \A n \in 2..serial[c] : <<c, n>> \in done

AckOK ==
    /\ DOMAIN phase = Clients /\ DOMAIN code = Clients /\ DOMAIN inbox = Clients
    /\ serial \in [Clients -> Nat]
    /\ present \in SUBSET Ids
    /\ \A c \in Clients : inbox[c] \in Seq(Honest(c, done))
    /\ \A c \in Clients : DoneSoFar(c)

\* What a step of the daemon does to what the invariant speaks of.
Answers ==
    /\ UNCHANGED <<phase, serial, code>>
    /\ present' \in SUBSET Ids
    /\ done \subseteq done'
    /\ DOMAIN inbox' = Clients
    /\ \A c \in Clients :
          inbox'[c] = inbox[c] \/ \E m \in Honest(c, done') : inbox'[c] = Append(inbox[c], m)

LEMMA AnswersKeepAck ==
    ASSUME AckOK, Answers
    PROVE  AckOK'
<1> USE DEF AckOK, Answers
<1>1. ASSUME NEW c \in Clients PROVE inbox'[c] \in Seq(Honest(c, done'))
  <2>1. Honest(c, done) \subseteq Honest(c, done')
    BY DEF Honest
  <2>2. inbox[c] \in Seq(Honest(c, done'))
    BY <2>1, SeqMonotonic
  <2>3. ASSUME NEW m \in Honest(c, done')
        PROVE  Append(inbox[c], m) \in Seq(Honest(c, done'))
    BY <2>2, <2>3
  <2> QED BY <2>2, <2>3
<1>2. ASSUME NEW c \in Clients PROVE DoneSoFar(c)'
  BY DEF DoneSoFar
<1> QED BY <1>1, <1>2

LEMMA DeliverIsHonest ==
    ASSUME AckOK, NEW call, call.serial \in Nat, NEW m \in Messages,
           m.kind = "return" => m.serial = call.serial /\ Key(call) \in done',
           Deliver(call, m)
    PROVE  /\ DOMAIN inbox' = Clients
           /\ \A c \in Clients : \/ inbox'[c] = inbox[c]
                                 \/ \E r \in Honest(c, done') : inbox'[c] = Append(inbox[c], r)
<1>1. DOMAIN inbox' = Clients
  BY DEF Deliver, AckOK
<1>2. ASSUME NEW c \in Clients
      PROVE  \/ inbox'[c] = inbox[c]
             \/ \E r \in Honest(c, done') : inbox'[c] = Append(inbox[c], r)
  <2>1. CASE c = call.from
    <3>1. m \in Honest(c, done')
      BY <2>1 DEF Honest, Key
    <3> QED BY <2>1, <3>1 DEF Deliver, AckOK
  <2>2. CASE c # call.from
    BY <2>2 DEF Deliver, AckOK
  <2> QED BY <2>1, <2>2
<1> QED BY <1>1, <1>2

LEMMA DaemonAnswers ==
    ASSUME AckOK, RefusedInv,
           \/ Dispatch
           \/ Identified \/ Authorized \/ AskFails \/ RefuseArguments
           \/ Perform \/ PerformReload \/ Persisted \/ NotPersisted
    PROVE  Answers
<1> DEFINE Grown == /\ DOMAIN inbox' = Clients
                    /\ \A c \in Clients :
                          \/ inbox'[c] = inbox[c]
                          \/ \E m \in Honest(c, done') : inbox'[c] = Append(inbox[c], m)
<1>1. ASSUME NEW call, call.serial \in Nat, Refuse(call) PROVE Grown
  <2>1. Error(call.serial) \in Messages /\ Error(call.serial).kind # "return"
    BY <1>1 DEF Error, Messages
  <2> QED BY <1>1, <2>1, DeliverIsHonest DEF Refuse
<1>2. ASSUME NEW call, call.serial \in Nat, NEW devs \in SUBSET Ids,
             Deliver(call, Return(call.serial, devs)), Key(call) \in done'
      PROVE  Grown
  <2>1. /\ Return(call.serial, devs) \in Messages
        /\ Return(call.serial, devs).serial = call.serial
    BY <1>2 DEF Return, Messages
  <2> QED BY <1>2, <2>1, DeliverIsHonest
<1>3. ASSUME inbox' = inbox PROVE Grown
  BY <1>3 DEF AckOK
<1>4. Busy => serving.call.serial \in Nat
  BY DEF RefusedInv, ServingOK, Keyed
<1>5. present \in SUBSET Ids
  BY DEF AckOK
<1> HIDE DEF Grown
<1>6. CASE Dispatch
  <2>1. NextCall.serial \in Nat
    <3>1. PICK S : rqueue \in Seq(S) /\ socket \in Seq(S)
      BY DEF RefusedInv, QueueOK
    <3>2. socket # <<>> /\ TakeNext
      BY <1>6 DEF Dispatch
    <3>3. Len(Queue) \in Nat \ {0} /\ NextCall = Queue[1]
      BY <3>1, <3>2, TakingShortensQueue
    <3>4. Keyed(Queue[1], serial, Answered)
      BY <3>3 DEF RefusedInv, QueueOK
    <3> QED BY <3>3, <3>4 DEF Keyed
  <2>2. UNCHANGED <<phase, serial, code, present>> /\ done \subseteq done'
    BY <1>6 DEF Dispatch
  <2>3. \/ inbox' = inbox
        \/ Refuse(NextCall)
        \/ \E devs \in SUBSET Ids : /\ Deliver(NextCall, Return(NextCall.serial, devs))
                                   /\ Key(NextCall) \in done'
    BY <1>5, <1>6 DEF Dispatch
  <2>4. Grown
    BY <1>1, <1>2, <1>3, <2>1, <2>3
  <2> QED BY <1>5, <2>2, <2>4 DEF Answers, Grown
<1>7. CASE \/ Identified \/ Authorized \/ AskFails \/ RefuseArguments
           \/ Perform \/ PerformReload \/ Persisted \/ NotPersisted
  <2>1. Busy
    BY <1>7 DEF Identified, Authorized, AskFails, LimitsAsking, RefuseArguments, Perform,
                PerformReload, Persisted, NotPersisted, At
  <2>2. UNCHANGED <<phase, serial, code, present>> /\ done \subseteq done'
    BY <1>7 DEF Identified, Authorized, AskFails, RefuseArguments, Perform,
                PerformReload, Persisted, NotPersisted, gateUnchanged, methodUnchanged
  <2>3. \/ inbox' = inbox
        \/ Refuse(serving.call)
        \/ Deliver(serving.call, Return(serving.call.serial, {})) /\ Key(serving.call) \in done'
    <3>1. CASE Identified \/ Perform
      BY <3>1 DEF Identified, Perform
    <3>2. CASE Authorized \/ AskFails \/ RefuseArguments \/ NotPersisted
      BY <3>2 DEF Authorized, Deny, AskFails, RefuseArguments, NotPersisted, ReplyFailed
    <3>3. CASE PerformReload \/ Persisted
      BY <3>3 DEF PerformReload, Persisted, Ok
    <3> QED BY <1>7, <3>1, <3>2, <3>3
  <2>4. Grown
    BY <1>1, <1>2, <1>3, <1>4, <2>1, <2>3
  <2> QED BY <1>5, <2>2, <2>4 DEF Answers, Grown
<1> QED BY <1>6, <1>7

AllDone(c) == \A n \in 2..serial[c] : <<c, n>> \in done

\* A step of c, after which c is as the invariant wants it.
Moves(c) ==
    /\ DOMAIN phase' = Clients /\ DOMAIN code' = Clients /\ DOMAIN inbox' = Clients
    /\ serial' \in [Clients -> Nat]
    /\ \A d \in Clients \ {c} : /\ phase'[d] = phase[d] /\ code'[d] = code[d]
                                /\ inbox'[d] = inbox[d] /\ serial'[d] = serial[d]
    /\ inbox'[c] \in Seq(Honest(c, done))
    /\ DoneSoFar(c)'

LEMMA ClientMoves ==
    ASSUME AckOK, UNCHANGED busVars, NEW c \in Clients, Command(c)
    PROVE  Moves(c)
<1> USE DEF AckOK, Moves
<1>1. done' = done /\ present' = present
  BY DEF busVars
<1>2. ASSUME NEW n \in {0, 1}, Exit(c, n), n = 0 => AllDone(c) PROVE Moves(c)
  <2>1. /\ phase' = [phase EXCEPT ![c] = "done"] /\ code' = [code EXCEPT ![c] = n]
        /\ inbox' = [inbox EXCEPT ![c] = <<>>] /\ serial' = serial
    BY <1>2 DEF Exit
  <2>2. phase'[c] = "done" /\ code'[c] = n /\ inbox'[c] = <<>>
    BY <2>1
  <2>3. DoneSoFar(c)'
    BY <1>1, <1>2, <2>1, <2>2 DEF DoneSoFar, AllDone
  <2>4. inbox'[c] \in Seq(Honest(c, done))
    BY <2>2, EmptySeq
  <2> QED BY <2>1, <2>2, <2>3, <2>4
<1>3. ASSUME NEW calls, NEW rest \in Seq(Honest(c, done)), NEW owned,
             Connected(c), AllDone(c), Send(c, calls, rest, owned)
      PROVE  Moves(c)
  <2>1. /\ phase' = [phase EXCEPT ![c] = "call"] /\ code' = code
        /\ serial' = [serial EXCEPT ![c] = serial[c] + 1]
        /\ inbox' = [inbox EXCEPT ![c] =
                        IF owned THEN rest ELSE Append(rest, Error(serial[c] + 1))]
    BY <1>3 DEF Send
  <2>2. phase'[c] = "call" /\ serial'[c] = serial[c] + 1 /\ serial[c] \in Nat
    BY <2>1
  <2>3. code[c] = NoCode /\ NoCode # 0
    BY <1>3, BusClientAssumption DEF DoneSoFar, Connected
  <2>4. DoneSoFar(c)'
    BY <1>1, <1>3, <2>1, <2>2, <2>3 DEF DoneSoFar, AllDone
  <2>5. Error(serial[c] + 1) \in Honest(c, done)
    BY <2>2 DEF Error, Honest, Messages
  <2>6. inbox'[c] \in Seq(Honest(c, done))
    BY <1>3, <2>1, <2>5
  <2> QED BY <2>1, <2>2, <2>4, <2>6
<1>4. ASSUME NEW calls, NEW rest \in Seq(Honest(c, done)), NEW owned,
             Connected(c), AllDone(c), Proceed(c, calls, rest, owned)
      PROVE  Moves(c)
  <2>1. CASE Exit(c, 0)
    BY <1>2, <1>4, <2>1
  <2>2. CASE Send(c, calls, rest, owned)
    BY <1>3, <1>4, <2>2
  <2>3. CASE /\ phase' = [phase EXCEPT ![c] = "read"] /\ inbox' = [inbox EXCEPT ![c] = rest]
             /\ UNCHANGED <<serial, code, socket>>
    <3>1. phase'[c] = "read" /\ inbox'[c] = rest
      BY <2>3
    <3>2. code[c] = NoCode
      BY <1>4 DEF DoneSoFar, Connected
    <3>3. DoneSoFar(c)'
      BY <1>1, <1>4, <2>3, <3>1, <3>2 DEF DoneSoFar, AllDone
    <3> QED BY <1>4, <2>3, <3>1, <3>3
  <2> QED BY <1>4, <2>1, <2>2, <2>3 DEF Proceed
<1>5. CASE Connect(c)
  <2>1. CASE Exit(c, 1)
    BY <1>2, <2>1
  <2>2. CASE /\ phase[c] = "start" /\ phase' = [phase EXCEPT ![c] = "auth"]
             /\ UNCHANGED <<serial, inbox, code, socket>>
    <3>1. DoneSoFar(c)'
      BY <1>1, <2>2, BusClientAssumption DEF DoneSoFar
    <3> QED BY <2>2, <3>1
  <2> QED BY <1>5, <2>1, <2>2 DEF Connect
<1>6. CASE Authenticate(c)
  <2>1. CASE Exit(c, 1)
    BY <1>2, <2>1
  <2>2. CASE /\ phase[c] = "auth" /\ phase' = [phase EXCEPT ![c] = "hello"]
             /\ serial' = [serial EXCEPT ![c] = 1]
             /\ inbox' = [inbox EXCEPT ![c] = <<Return(1, {}), Signal>>]
             /\ UNCHANGED <<left, code, socket>>
    <3>1. DoneSoFar(c)'
      BY <1>1, <2>2, BusClientAssumption DEF DoneSoFar
    <3>2. Return(1, {}) \in Honest(c, done) /\ Signal \in Honest(c, done)
      BY DEF Return, Signal, Honest, Messages
    <3>3. <<Return(1, {}), Signal>> \in Seq(Honest(c, done))
      BY <3>2
    <3> QED BY <2>2, <3>1, <3>3
  <2> QED BY <1>6, <2>1, <2>2 DEF Authenticate
<1>7. ASSUME Connected(c), inbox[c] # <<>>
      PROVE  Head(inbox[c]) \in Honest(c, done) /\ Tail(inbox[c]) \in Seq(Honest(c, done))
  BY <1>7, HeadTailProperties
<1>8. CASE Skip(c)
  <2>1. /\ inbox' = [inbox EXCEPT ![c] = Tail(inbox[c])]
        /\ UNCHANGED <<phase, left, serial, code, socket>>
        /\ Tail(inbox[c]) \in Seq(Honest(c, done))
    BY <1>7, <1>8 DEF Skip
  <2>2. DoneSoFar(c)'
    BY <1>1, <2>1 DEF DoneSoFar
  <2> QED BY <2>1, <2>2
<1>9. CASE Succeed(c, up)
  <2>1. /\ Connected(c) /\ inbox[c] # <<>> /\ Accepts(c, Head(inbox[c]))
        /\ \/ \E calls : Proceed(c, calls, Tail(inbox[c]), up)
           \/ Exit(c, 1)
    BY <1>9 DEF Succeed
  <2>2. serial[c] = 1 \/ <<c, serial[c]>> \in done
    BY <1>7, <2>1 DEF Accepts, Honest
  <2>3. AllDone(c)
    <3>1. serial[c] \in Nat /\ DoneSoFar(c)
      OBVIOUS
    <3>2. CASE phase[c] = "hello"
      BY <3>1, <3>2 DEF AllDone, DoneSoFar
    <3>3. CASE phase[c] = "call"
      <4>1. \A n \in 2..serial[c] : n \in 2..serial[c] - 1 \/ n = serial[c]
        BY <3>1
      <4>2. \A n \in 2..serial[c] - 1 : <<c, n>> \in done
        BY <3>1, <3>3 DEF DoneSoFar
      <4>3. serial[c] # 1 => <<c, serial[c]>> \in done
        BY <2>2
      <4>4. ASSUME NEW n \in 2..serial[c], n = serial[c] PROVE <<c, n>> \in done
        BY <3>1, <4>3, <4>4
      <4> QED BY <4>1, <4>2, <4>4 DEF AllDone
    <3> QED BY <2>1, <3>2, <3>3 DEF Connected
  <2> QED BY <1>2, <1>4, <1>7, <2>1, <2>3
<1>10. CASE Fail(c) \/ TimeOut(c)
  BY <1>2, <1>10 DEF Fail, TimeOut
<1>11. ASSUME NEW ok, ReadFiles(c, ok) PROVE Moves(c)
  <2>1. AllDone(c) /\ Exit(c, IF ok THEN 0 ELSE 1)
    BY <1>11 DEF ReadFiles, DoneSoFar, AllDone
  <2> QED BY <1>2, <2>1
<1> QED
  BY <1>5, <1>6, <1>8, <1>9, <1>10, <1>11 DEF Command

LEMMA MovesKeepAck ==
    ASSUME AckOK, UNCHANGED busVars, NEW c \in Clients, Moves(c)
    PROVE  AckOK'
<1>1. done' = done /\ present' = present
  BY DEF busVars
<1>2. ASSUME NEW d \in Clients, d # c
      PROVE  /\ phase'[d] = phase[d] /\ code'[d] = code[d]
             /\ inbox'[d] = inbox[d] /\ serial'[d] = serial[d]
  BY <1>2 DEF AckOK, Moves
<1>3. ASSUME NEW d \in Clients PROVE DoneSoFar(d)'
  <2>1. CASE d = c
    BY <2>1 DEF Moves
  <2>2. CASE d # c
    BY <1>1, <1>2, <2>2 DEF AckOK, DoneSoFar
  <2> QED BY <2>1, <2>2
<1>4. ASSUME NEW d \in Clients PROVE inbox'[d] \in Seq(Honest(d, done'))
  BY <1>1, <1>2 DEF AckOK, Moves
<1> QED BY <1>1, <1>3, <1>4 DEF AckOK, Moves

LEMMA AckStep == AckOK /\ RefusedInv /\ [BusNext]_allVars => AckOK'
<1> SUFFICES ASSUME AckOK, RefusedInv, [BusNext]_allVars PROVE AckOK'
  OBVIOUS
<1>1. ASSUME NEW c \in Clients, ClientStep(c) PROVE AckOK'
  BY <1>1, ClientMoves, MovesKeepAck DEF ClientStep
<1>2. CASE \/ Dispatch
           \/ Identified \/ Authorized \/ AskFails \/ RefuseArguments
           \/ Perform \/ PerformReload \/ Persisted \/ NotPersisted
  BY <1>2, DaemonAnswers, AnswersKeepAck
<1>3. CASE DaemonEnds
  <2>1. ASSUME NEW c \in Clients PROVE Error(serial[c]) \in Honest(c, done')
    BY DEF AckOK, Error, Honest, Messages
  <2> QED BY <1>3, <2>1, AnswersKeepAck DEF DaemonEnds, Answers, AckOK
<1>4. CASE /\ UNCHANGED <<phase, serial, code, inbox, done>> /\ present' \in SUBSET Ids
  BY <1>4, AnswersKeepAck DEF Answers, AckOK
<1>5. present \in SUBSET Ids
  BY DEF AckOK
<1>6. CASE ReadAhead
  BY <1>4, <1>5, <1>6 DEF ReadAhead
<1>7. CASE DaemonStarts
  BY <1>4, <1>7 DEF DaemonStarts, clientVars
<1>8. ASSUME NEW id \in Ids, RemoteAppears(id) \/ RemoteLeaves(id) PROVE AckOK'
  BY <1>4, <1>5, <1>8 DEF RemoteAppears, RemoteLeaves, clientVars
<1>9. CASE UNCHANGED allVars
  BY <1>4, <1>5, <1>9 DEF allVars, clientVars, busVars
<1> QED
  BY <1>1, <1>2, <1>3, <1>6, <1>7, <1>8, <1>9 DEF BusNext

LEMMA AckInit == BusInit => AckOK /\ RefusedInv
<1> SUFFICES ASSUME BusInit PROVE AckOK /\ RefusedInv
  OBVIOUS
<1>1. Len(Queue) = 0 /\ \E S : rqueue \in Seq(S) /\ socket \in Seq(S)
  BY EmptySeq, ConcatEmptySeq DEF BusInit, ClientInit, Queue
<1>2. RefusedInv
  BY <1>1 DEF BusInit, ClientInit, RefusedInv, RefusedIsUndone, ServingOK, QueueOK,
              AnsweredOK, Answered, Busy
<1>3. \A c \in Clients : DoneSoFar(c)
  BY BusClientAssumption DEF BusInit, ClientInit, DoneSoFar
<1>4. \A c \in Clients : inbox[c] \in Seq(Honest(c, done))
  BY EmptySeq DEF BusInit, ClientInit
<1> QED BY <1>2, <1>3, <1>4 DEF AckOK, BusInit, ClientInit

\* A command that exits with 0 has had every one of its calls done, whatever failed,
\* ended or timed out on the way.
THEOREM AcknowledgedIsDoneAlways == BusSpec => []AcknowledgedIsDone
<1>1. AckOK => AcknowledgedIsDone
  BY DEF AckOK, DoneSoFar, AcknowledgedIsDone
<1> QED
  BY <1>1, AckInit, AckStep, RefusedStep, PTL DEF BusSpec

----------------------------------------------------------------------------
(* The bus implements the store: whatever the clients, the broker and       *)
(* polkit do, what the daemon does to its configuration is a behaviour of   *)
(* ConfigStore, provided the commands' arguments are among those ConfigStore *)
(* is given.                                                                *)

\* The arguments of a call that the methods do not refuse.
Fits(q) ==
    /\ q.op = "MapButton" /\ q.arg \in Keys \X Keys => q.arg \in Remaps
    /\ q.op = "SetScrollSpeed" /\ MayScroll(q.arg) => q.arg \in Scrolls
    /\ q.op = "SetSensitivity" /\ MaySense(q.arg) => q.arg \in Senses
    /\ q.op = "SetProfile" => q.arg \in Names
    /\ q.op = "SetCalibPath" => q.arg \in Paths \cup {Unset}

Requests(Args) ==
    {q \in [op : STRING, id : Ids \cup {TheOnly, NoDevice}, arg : Args] : Fits(q)}
Calls(Args) == [from : Clients, serial : Nat, req : Requests(Args)]

\* Every call, planned, sent, read or served, is one of a command's.
CallsFit(Args) ==
    /\ left \in [Clients -> Seq(Requests(Args))]
    /\ \A c \in Clients : phase[c] = "call" => left[c] # <<>>
    /\ rqueue \in Seq(Calls(Args)) /\ socket \in Seq(Calls(Args))
    /\ Busy => /\ serving = [call |-> serving.call, at |-> serving.at]
               /\ serving.call \in Calls(Args) /\ KnownKeys(serving.call.req)

LEMMA BoundFits ==
    ASSUME NEW Args, NEW calls \in Seq(Requests(Args)), NEW id \in Ids
    PROVE  Bound(calls, id) \in Seq(Requests(Args))
<1>1. Len(calls) \in Nat /\ DOMAIN calls = 1..Len(calls)
  BY LenProperties
<1>2. ASSUME NEW i \in 1..Len(calls)
      PROVE  (IF calls[i].id = TheOnly THEN [calls[i] EXCEPT !.id = id] ELSE calls[i])
                \in Requests(Args)
  <2>1. calls[i] \in Requests(Args)
    OBVIOUS
  <2> DEFINE q == calls[i]
             r == [q EXCEPT !.id = id]
  <2>2. q \in [op : STRING, id : Ids \cup {TheOnly, NoDevice}, arg : Args] /\ Fits(q)
    BY <2>1 DEF Requests
  <2> HIDE DEF q
  <2>3. r \in [op : STRING, id : Ids \cup {TheOnly, NoDevice}, arg : Args]
        /\ r.op = q.op /\ r.arg = q.arg
    BY <2>2
  <2> HIDE DEF r
  <2>4. r \in Requests(Args)
    BY <2>2, <2>3 DEF Requests, Fits
  <2> QED BY <2>1, <2>4 DEF q, r
<1> QED
  BY <1>1, <1>2, SeqDef DEF Bound

LEMMA ClientCallsFit ==
    ASSUME NEW Args, Programs \subseteq Seq(Requests(Args)), CallsFit(Args), AckOK,
           NEW c \in Clients, Command(c)
    PROVE  /\ left' \in [Clients -> Seq(Requests(Args))]
           /\ \A d \in Clients : phase'[d] = "call" => left'[d] # <<>>
           /\ socket' \in Seq(Calls(Args))
<1> DEFINE Goal == /\ left' \in [Clients -> Seq(Requests(Args))]
                   /\ \A d \in Clients : phase'[d] = "call" => left'[d] # <<>>
                   /\ socket' \in Seq(Calls(Args))
<1>0. /\ left \in [Clients -> Seq(Requests(Args))] /\ socket \in Seq(Calls(Args))
      /\ \A d \in Clients : phase[d] = "call" => left[d] # <<>>
      /\ DOMAIN phase = Clients /\ serial \in [Clients -> Nat]
  BY DEF CallsFit, AckOK
<1>1. ASSUME NEW n, Exit(c, n) PROVE Goal
  BY <1>0, <1>1 DEF Exit
<1>2. ASSUME NEW calls \in Seq(Requests(Args)), calls # <<>>, NEW rest, NEW owned,
             Send(c, calls, rest, owned)
      PROVE  Goal
  <2>1. Head(calls) \in Requests(Args)
    BY <1>2, HeadTailProperties
  <2>2. [from |-> c, serial |-> serial[c] + 1, req |-> Head(calls)] \in Calls(Args)
    BY <1>0, <2>1 DEF Calls
  <2>3. socket' \in Seq(Calls(Args))
    BY <1>0, <1>2, <2>2 DEF Send
  <2>4. phase' = [phase EXCEPT ![c] = "call"] /\ left' = [left EXCEPT ![c] = calls]
    BY <1>2 DEF Send
  <2> QED BY <1>0, <1>2, <2>3, <2>4
<1>3. ASSUME NEW calls \in Seq(Requests(Args)), NEW rest, NEW owned,
             Proceed(c, calls, rest, owned)
      PROVE  Goal
  <2>1. CASE calls = <<>>
    BY <1>1, <1>3, <2>1 DEF Proceed
  <2>2. CASE calls # <<>> /\ Send(c, calls, rest, owned)
    BY <1>2, <1>3, <2>2
  <2>3. CASE /\ phase' = [phase EXCEPT ![c] = "read"] /\ left' = [left EXCEPT ![c] = calls]
             /\ UNCHANGED <<serial, code, socket>>
    BY <1>0, <2>3
  <2> QED BY <1>3, <2>1, <2>2, <2>3 DEF Proceed
<1>4. CASE Connect(c)
  <2>1. CASE Exit(c, 1)
    BY <1>1, <2>1
  <2>2. CASE /\ phase' = [phase EXCEPT ![c] = "auth"] /\ socket' = socket
             /\ \E p \in Programs : left' = [left EXCEPT ![c] = p]
    BY <1>0, <2>2
  <2> QED BY <1>4, <2>1, <2>2 DEF Connect
<1>5. CASE Authenticate(c)
  <2>1. CASE Exit(c, 1)
    BY <1>1, <2>1
  <2>2. CASE phase' = [phase EXCEPT ![c] = "hello"] /\ UNCHANGED <<left, socket>>
    BY <1>0, <2>2
  <2> QED BY <1>5, <2>1, <2>2 DEF Authenticate
<1>6. CASE Skip(c)
  BY <1>0, <1>6 DEF Skip
<1>7. CASE Succeed(c, up)
  <2> DEFINE m == Head(inbox[c])
             rest == Tail(inbox[c])
             calls == Tail(left[c])
  <2>1. Connected(c) /\ inbox[c] # <<>>
    BY <1>7 DEF Succeed
  <2>2. m.devs \in SUBSET Ids
    <3>1. m \in Honest(c, done)
      BY <2>1, HeadTailProperties DEF AckOK
    <3> QED BY <3>1 DEF Honest, Messages
  <2>3. \/ phase[c] = "hello" /\ Proceed(c, left[c], rest, up)
        \/ phase[c] # "hello" /\ Proceed(c, calls, rest, up)
        \/ /\ phase[c] # "hello" /\ Cardinality(m.devs) = 1
           /\ Proceed(c, Bound(calls, CHOOSE d \in m.devs : TRUE), rest, up)
        \/ Exit(c, 1)
    BY <1>7 DEF Succeed
  <2>4. ASSUME phase[c] # "hello" PROVE calls \in Seq(Requests(Args))
    <3>1. phase[c] = "call" /\ left[c] # <<>>
      BY <1>0, <2>1, <2>4 DEF Connected
    <3> QED BY <1>0, <3>1, HeadTailProperties
  <2> HIDE DEF calls, rest, m
  <2>5. ASSUME Cardinality(m.devs) = 1 PROVE (CHOOSE d \in m.devs : TRUE) \in Ids
    <3>1. m.devs # {}
      <4>1. Cardinality({}) = 0
        BY FS_EmptySet
      <4>2. m.devs = {} => Cardinality(m.devs) = 0
        BY <4>1
      <4> QED BY <2>5, <4>2
    <3> QED BY <2>2, <3>1
  <2>6. CASE phase[c] = "hello" /\ Proceed(c, left[c], rest, up)
    BY <1>0, <1>3, <2>6
  <2>7. CASE phase[c] # "hello" /\ Proceed(c, calls, rest, up)
    BY <1>3, <2>4, <2>7
  <2>8. CASE /\ phase[c] # "hello" /\ Cardinality(m.devs) = 1
             /\ Proceed(c, Bound(calls, CHOOSE d \in m.devs : TRUE), rest, up)
    <3>1. Bound(calls, CHOOSE d \in m.devs : TRUE) \in Seq(Requests(Args))
      BY <2>4, <2>5, <2>8, BoundFits
    <3> QED BY <1>3, <2>8, <3>1
  <2> QED BY <1>1, <2>3, <2>6, <2>7, <2>8
<1>8. CASE Fail(c) \/ TimeOut(c)
  BY <1>1, <1>8 DEF Fail, TimeOut
<1>9. ASSUME NEW ok, ReadFiles(c, ok) PROVE Goal
  BY <1>1, <1>9 DEF ReadFiles
<1> QED
  BY <1>4, <1>5, <1>6, <1>7, <1>8, <1>9 DEF Command

LEMMA CallsFitStep ==
    ASSUME NEW Args, Programs \subseteq Seq(Requests(Args)), CallsFit(Args), AckOK,
           [BusNext]_allVars
    PROVE  CallsFit(Args)'
<1>0. /\ left \in [Clients -> Seq(Requests(Args))] /\ socket \in Seq(Calls(Args))
      /\ rqueue \in Seq(Calls(Args))
      /\ \A d \in Clients : phase[d] = "call" => left[d] # <<>>
  BY DEF CallsFit
<1>1. ASSUME NEW c \in Clients, ClientStep(c) PROVE CallsFit(Args)'
  <2>1. UNCHANGED <<rqueue, serving>> /\ Command(c)
    BY <1>1 DEF ClientStep, busVars
  <2> QED BY <2>1, ClientCallsFit DEF CallsFit, Busy
<1>2. CASE Dispatch
  <2>1. socket # <<>> /\ TakeNext /\ UNCHANGED <<phase, left>>
    BY <1>2 DEF Dispatch
  <2>2. /\ rqueue' \in Seq(Calls(Args)) /\ socket' \in Seq(Calls(Args))
        /\ Len(Queue) \in Nat \ {0} /\ NextCall = Queue[1]
    BY <1>0, <2>1, TakingShortensQueue
  <2>3. Queue \in Seq(Calls(Args))
    BY <1>0, ConcatProperties DEF Queue
  <2>4. NextCall \in Calls(Args)
    BY <2>2, <2>3
  <2>5. \/ serving' = serving
        \/ KnownKeys(NextCall.req) /\ serving' = [call |-> NextCall, at |-> "credentials"]
    BY <1>2 DEF Dispatch
  <2>6. Busy' => /\ serving' = [call |-> serving'.call, at |-> serving'.at]
                 /\ serving'.call \in Calls(Args) /\ KnownKeys(serving'.call.req)
    BY <2>4, <2>5 DEF CallsFit, Busy
  <2> QED BY <1>0, <2>1, <2>2, <2>6 DEF CallsFit
<1>3. CASE ReadAhead
  <2>1. Head(socket) \in Calls(Args) /\ Tail(socket) \in Seq(Calls(Args))
    BY <1>0, <1>3, HeadTailProperties DEF ReadAhead
  <2>2. rqueue' \in Seq(Calls(Args)) /\ socket' \in Seq(Calls(Args))
    BY <1>0, <1>3, <2>1 DEF ReadAhead
  <2>3. UNCHANGED <<phase, left, serving>>
    BY <1>3 DEF ReadAhead
  <2> QED BY <1>0, <2>2, <2>3 DEF CallsFit, Busy
<1>4. CASE \/ Identified \/ Authorized \/ AskFails \/ RefuseArguments
           \/ Perform \/ PerformReload \/ Persisted \/ NotPersisted
  <2>1. UNCHANGED <<phase, left, socket, rqueue>>
    BY <1>4 DEF Identified, Authorized, AskFails, RefuseArguments, Perform,
                PerformReload, Persisted, NotPersisted, gateUnchanged, methodUnchanged
  <2>2. serving' = Idle \/ (Busy /\ \E where : MoveTo(where))
    BY <1>4 DEF Identified, Authorized, AskFails, LimitsAsking, Deny, Finished, RefuseArguments,
                Perform, PerformReload, Persisted, NotPersisted, At
  <2>3. Busy' => /\ serving' = [call |-> serving'.call, at |-> serving'.at]
                 /\ serving'.call \in Calls(Args) /\ KnownKeys(serving'.call.req)
    BY <2>2 DEF MoveTo, CallsFit, Busy
  <2> QED BY <1>0, <2>1, <2>3 DEF CallsFit
<1>5. CASE DaemonEnds
  <2>1. /\ rqueue' = <<>> /\ socket' = <<>> /\ serving' = Idle /\ UNCHANGED <<phase, left>>
    BY <1>5 DEF DaemonEnds, Finished
  <2> QED BY <1>0, <2>1, EmptySeq DEF CallsFit, Busy
<1>6. CASE UNCHANGED <<clientVars, rqueue, serving>>
  BY <1>6 DEF CallsFit, Busy, clientVars
<1>7. CASE DaemonStarts
  BY <1>6, <1>7 DEF DaemonStarts
<1>8. ASSUME NEW id \in Ids, RemoteAppears(id) \/ RemoteLeaves(id) PROVE CallsFit(Args)'
  BY <1>6, <1>8 DEF RemoteAppears, RemoteLeaves
<1>9. CASE UNCHANGED allVars
  BY <1>6, <1>9 DEF allVars, busVars
<1> QED
  BY <1>1, <1>2, <1>3, <1>4, <1>5, <1>7, <1>8, <1>9 DEF BusNext

LEMMA BusStepIsStoreStep ==
    ASSUME NEW Args, CallsFit(Args), AckOK, [BusNext]_allVars
    PROVE  [Next]_vars
<1>1. CASE Perform
  <2> DEFINE q == serving.call.req
  <2>1. Busy /\ Accepted(q) /\ Begin(q)
    BY <1>1 DEF Perform, At
  <2>2. q \in Requests(Args) /\ KnownKeys(q)
    BY <2>1 DEF CallsFit, Calls
  <2> HIDE DEF q
  <2>3. Fits(q)
    BY <2>2 DEF Requests
  <2>4. q.op # "Reload"
    BY <2>1 DEF Begin
  <2>5. q.id \in Ids
    BY <2>1, <2>4 DEF Accepted, Known, AckOK
  <2>6. Call(q.id)
    <3>1. CASE q.op = "MapButton" /\ MapButton(q.id, q.arg)
      BY <2>2, <2>3, <3>1 DEF Fits, KnownKeys, Call
    <3>2. CASE q.op = "SetScrollSpeed" /\ SetScrollSpeed(q.id, q.arg)
      BY <2>3, <3>2 DEF Fits, Call, SetScrollSpeed
    <3>3. CASE q.op = "SetSensitivity" /\ SetSensitivity(q.id, q.arg)
      BY <2>3, <3>3 DEF Fits, Call, SetSensitivity
    <3>4. CASE q.op = "SetProfile" /\ SetProfile(q.id, q.arg)
      BY <2>3, <3>4 DEF Fits, Call
    <3>5. CASE q.op = "SetCalibPath" /\ SetCalibPath(q.id, q.arg)
      BY <2>3, <3>5 DEF Fits, Call
    <3>6. CASE q.op = "ResetButtons" /\ ResetButtons(q.id)
      BY <3>6 DEF Call
    <3> QED BY <2>1, <3>1, <3>2, <3>3, <3>4, <3>5, <3>6 DEF Begin
  <2> QED BY <2>5, <2>6 DEF Next
<1>2. CASE PerformReload \/ Persisted \/ NotPersisted
  BY <1>2 DEF PerformReload, Persisted, NotPersisted, Next
<1>3. CASE DaemonEnds \/ DaemonStarts
  BY <1>3 DEF DaemonEnds, DaemonStarts, Next
<1>4. ASSUME NEW id \in Ids, RemoteAppears(id) PROVE Next
  BY <1>4 DEF RemoteAppears, Next
<1>5. CASE \/ Dispatch \/ ReadAhead \/ Identified \/ Authorized \/ AskFails
           \/ RefuseArguments \/ \E id \in Ids : RemoteLeaves(id)
           \/ \E c \in Clients : ClientStep(c)
  BY <1>5 DEF Dispatch, ReadAhead, Identified, Authorized, AskFails, RefuseArguments,
              RemoteLeaves, ClientStep, gateUnchanged, vars
<1>6. CASE UNCHANGED allVars
  BY <1>6 DEF allVars
<1> QED
  BY <1>1, <1>2, <1>3, <1>4, <1>5, <1>6 DEF BusNext

\* What the bus front end does to the configuration is what ConfigStore allows.
THEOREM BusImplementsStore ==
    ASSUME NEW Args, Programs \subseteq Seq(Requests(Args))
    PROVE  BusSpec => Spec
<1>1. BusInit => Init /\ CallsFit(Args) /\ AckOK /\ RefusedInv
  BY AckInit, EmptySeq DEF CallsFit, BusInit, ClientInit, Busy
<1>2. CallsFit(Args) /\ AckOK /\ [BusNext]_allVars => [Next]_vars /\ CallsFit(Args)'
  BY BusStepIsStoreStep, CallsFitStep
<1>3. AckOK /\ RefusedInv /\ [BusNext]_allVars => AckOK' /\ RefusedInv'
  BY AckStep, RefusedStep
<1> QED
  BY <1>1, <1>2, <1>3, PTL DEF BusSpec, Spec

\* So the promises of the store hold under the bus, whatever clients call: between calls
\* memory is the file, or what loading it gives, and the pipelines follow memory.
THEOREM BusKeepsStorePromises ==
    ASSUME NEW Args, Programs \subseteq Seq(Requests(Args)), FirstFilesLoad
    PROVE  BusSpec => [](MemoryMatchesDisk /\ PipelineFollowsConfig)
<1>1. BusSpec => Spec
  BY BusImplementsStore
<1>2. Spec => []MemoryMatchesDisk
  BY MemoryMatchesDiskAlways
<1> QED
  BY <1>1, <1>2, PipelineFollowsConfigAlways, PTL

=============================================================================
