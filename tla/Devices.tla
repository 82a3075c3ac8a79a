------------------------------ MODULE Devices ------------------------------
(***************************************************************************)
(* Discovery, hotplug and dispatch in lg-magicd (daemon_devices.c and the  *)
(* main loop of daemon_main.c), on top of the kernel's event nodes.        *)
(*                                                                         *)
(* The daemon is one thread: it is at the top of its loop, in the middle   *)
(* of a rescan, or dispatching the entries poll reported.  Remotes are     *)
(* switched on and off, and send input, between any two of its steps.      *)
(* File descriptors are numbers out of one table, the lowest free one      *)
(* first, so that a number closed twice, or kept after its close, names    *)
(* whatever has been opened under it since.                                *)
(***************************************************************************)
EXTENDS Pairing

CONSTANTS
    Hw,          \* the remotes a person may switch on
    MacOf,       \* the uniq the driver reports for each of them
    Paths,       \* event node numbers
    Fds,         \* file descriptor numbers, enough of them
    NoNode,      \* a path with no node
    Closed,      \* a descriptor that is not open
    UinputFails  \* whether creating a virtual device may fail

NoPath == 0
NoFd == -1

Roles == {"kbd", "imu", "vkbd", "vmouse"}
Node == [kind : Kinds, hw : Hw]
Descriptor ==
    [role : Roles, path : Paths \cup {NoPath}, alive : BOOLEAN, grab : BOOLEAN,
     queued : BOOLEAN]

ASSUME DevicesAssumption ==
    /\ MacOf \in [Hw -> Macs \cup {NoMac}]
    /\ Paths \subseteq Nat \ {0} /\ IsFiniteSet(Paths)
    /\ Fds \subseteq Nat /\ IsFiniteSet(Fds)
    /\ NoNode \notin Node
    /\ Closed \notin Descriptor \cup Macs \cup {NoMac}
    /\ UinputFails \in BOOLEAN

VARIABLES
    node,     \* the event nodes: [Paths -> [kind, hw] or NoNode]
    fdTab,    \* the daemon's open descriptors
    pc,       \* "down", "loop", "rescan" or "dispatch"
    remotes,  \* dd->remotes
    newr,     \* the array a rescan builds
    todo,     \* the paired remotes it has not dealt with
    batch     \* the indexes poll reported, not yet handled

kernelVars == <<node, fdTab>>
daemonVars == <<pc, remotes, newr, todo, batch>>
vars == <<kernelVars, daemonVars>>

----------------------------------------------------------------------------
(* Event nodes and descriptors. *)

Evdev(role, path, grab) ==
    [role |-> role, path |-> path, alive |-> TRUE, grab |-> grab, queued |-> FALSE]
Virtual(role) ==
    [role |-> role, path |-> NoPath, alive |-> TRUE, grab |-> FALSE, queued |-> FALSE]

OpenFds == {f \in Fds : fdTab[f] # Closed}
Lowest(S) == CHOOSE f \in S : \A g \in S : f <= g

\* The numbers the next four opens get.
Fd1 == Lowest(Fds \ OpenFds)
Fd2 == Lowest(Fds \ (OpenFds \cup {Fd1}))
Fd3 == Lowest(Fds \ (OpenFds \cup {Fd1, Fd2}))
Fd4 == Lowest(Fds \ (OpenFds \cup {Fd1, Fd2, Fd3}))

Listeners(p) == {f \in OpenFds : fdTab[f].path = p /\ fdTab[f].alive}
Grabbers(p) == {f \in Listeners(p) : fdTab[f].grab}

\* Faulty: the virtual pair is forgotten.
InputFdsOf(r) == {r.kbd, r.imu} \ {NoFd}
\* The descriptors of one remote; NoFd where there is none.
FdsOf(r) == {r.kbd, r.imu, r.vkbd, r.vmouse} \ {NoFd}

\* remote_free: close whatever numbers the record still holds.
Free(tab, r) == [f \in Fds |-> IF f \in FdsOf(r) THEN Closed ELSE tab[f]]

----------------------------------------------------------------------------
(* The remotes: the driver registers the keyboard first and the IMU after   *)
(* it; switching off takes both away and leaves their descriptors dead.     *)

NodesOf(h) == {p \in Paths : node[p] # NoNode /\ node[p].hw = h}

Attach(h, kind, p) ==
    /\ node[p] = NoNode
    /\ {node[q].kind : q \in NodesOf(h)} = (IF kind = "imu" THEN {"keyboard"} ELSE {})
    /\ node' = [node EXCEPT ![p] = [kind |-> kind, hw |-> h]]
    /\ UNCHANGED <<fdTab, daemonVars>>

Detach(h) ==
    /\ NodesOf(h) # {}
    /\ node' = [p \in Paths |-> IF p \in NodesOf(h) THEN NoNode ELSE node[p]]
    /\ fdTab' = [f \in Fds |-> IF fdTab[f] # Closed /\ fdTab[f].path \in NodesOf(h)
                               THEN [fdTab[f] EXCEPT !.alive = FALSE] ELSE fdTab[f]]
    /\ UNCHANGED daemonVars

\* The person presses, turns or moves: the frame goes to the grabber alone, or to
\* everyone who has the node open.
UserInput(p) ==
    LET to == IF Grabbers(p) # {} THEN Grabbers(p) ELSE Listeners(p)
    IN  /\ node[p] # NoNode
        /\ to # {}
        /\ fdTab' = [f \in Fds |-> IF f \in to THEN [fdTab[f] EXCEPT !.queued = TRUE]
                                   ELSE fdTab[f]]
        /\ UNCHANGED <<node, daemonVars>>

----------------------------------------------------------------------------
(* The rescan. *)

\* Faulty: zeroed like the rest of the record.
Zeroed == [id |-> Closed, kbdPath |-> NoPath, imuPath |-> NoPath,
           kbd |-> 0, imu |-> 0, vkbd |-> 0, vmouse |-> 0]
\* A record that holds nothing: its identity is empty, its descriptors are -1.
Emptied == [id |-> Closed, kbdPath |-> NoPath, imuPath |-> NoPath,
            kbd |-> NoFd, imu |-> NoFd, vkbd |-> NoFd, vmouse |-> NoFd]

DevOf(p) == [kind |-> node[p].kind, uniq |-> MacOf[node[p].hw]]

\* What the scan has found, in discovery order, the devices' nodes being order.
FoundOne(order, r) ==
    [id |-> r.uniq, kbdPath |-> order[r.kbd],
     imuPath |-> IF r.imu = 0 THEN NoPath ELSE order[r.imu]]
Found(order, devs) ==
    {[n \in DOMAIN kbds |-> FoundOne(order, RemoteOf(devs, kbds[n]))] :
        kbds \in InOrder(Keyboards(devs))}

\* The scan, the pairing and the identities; an ambiguous set changes nothing.
StartRescan ==
    /\ pc = "loop"
    /\ \E order \in SetToSeqs({p \in Paths : node[p] # NoNode}) :
          LET devs == [i \in DOMAIN order |-> DevOf(order[i])]
          IN  \/ Pairs(devs).ok /\ pc' = "rescan" /\ todo' \in Found(order, devs)
              \/ ~Pairs(devs).ok /\ UNCHANGED <<todo, pc>>
    /\ newr' = <<>>
    /\ UNCHANGED <<kernelVars, remotes, batch>>

\* Faulty: the identities are not compared.
SamePaths(r, t) == r.id # Closed /\ r.kbdPath = t.kbdPath /\ r.imuPath = t.imuPath
\* An open remote with the same identity and the same paths.
Unchanged(r, t) ==
    r.id = t.id /\ r.kbdPath = t.kbdPath /\ r.imuPath = t.imuPath
Stealable(t) == {j \in DOMAIN remotes : Unchanged(remotes[j], t)}

\* Faulty: the record it was stolen from still names the descriptors.
StealCopy(j) == newr' = Append(newr, remotes[j]) /\ UNCHANGED remotes

\* Its record moves to the new array, descriptors, pipeline and all.
Steal(j) ==
    /\ newr' = Append(newr, remotes[j])
    /\ remotes' = [remotes EXCEPT ![j] = Emptied]

StealOne ==
    /\ pc = "rescan" /\ todo # <<>>
    /\ Stealable(Head(todo)) # {}
    /\ Steal(CHOOSE j \in Stealable(Head(todo)) : \A k \in Stealable(Head(todo)) : j <= k)
    /\ todo' = Tail(todo)
    /\ UNCHANGED <<kernelVars, pc, batch>>

\* remote_open: the virtual pair, then the keyboard and its grab (best effort),
\* then the IMU without one.  Whatever has the node's path now is what is opened.
OpenOne ==
    LET t == Head(todo)
        hasImu == t.imuPath # NoPath /\ node[t.imuPath] # NoNode
        pair == [id |-> t.id, kbdPath |-> t.kbdPath, imuPath |-> t.imuPath,
                 kbd |-> NoFd, imu |-> NoFd, vkbd |-> Fd1, vmouse |-> Fd2]
        whole == IF hasImu THEN [pair EXCEPT !.kbd = Fd3, !.imu = Fd4]
                 ELSE [pair EXCEPT !.kbd = Fd3, !.imuPath = NoPath]
        withPair == [fdTab EXCEPT ![Fd1] = Virtual("vkbd"), ![Fd2] = Virtual("vmouse")]
        withKbd == [withPair EXCEPT ![Fd3] = Evdev("kbd", t.kbdPath, Grabbers(t.kbdPath) = {})]
        withImu == [withKbd EXCEPT ![Fd4] = Evdev("imu", t.imuPath, FALSE)]
    IN  /\ pc = "rescan" /\ todo # <<>>
        /\ Cardinality(Fds \ OpenFds) >= 4
        /\ Stealable(t) = {}
        /\ todo' = Tail(todo)
        /\ \/ /\ UinputFails
              /\ UNCHANGED <<fdTab, newr>>
           \/ /\ node[t.kbdPath] = NoNode
              /\ fdTab' = Free(Free(withPair, pair), pair)
              /\ UNCHANGED newr
           \/ /\ node[t.kbdPath] # NoNode
              /\ fdTab' = IF hasImu THEN withImu ELSE withKbd
              /\ newr' = Append(newr, whole)
        /\ UNCHANGED <<node, pc, remotes, batch>>

Rebuilt == newr

\* Everything that was not stolen is freed, and the new array takes over.
FinishRescan ==
    /\ pc = "rescan" /\ todo = <<>>
    /\ fdTab' = [f \in Fds |->
                    IF \E j \in DOMAIN remotes :
                          remotes[j].id # Closed /\ f \in FdsOf(remotes[j])
                    THEN Closed ELSE fdTab[f]]
    /\ remotes' = Rebuilt
    /\ newr' = <<>>
    /\ pc' = "loop"
    /\ UNCHANGED <<node, todo, batch>>

----------------------------------------------------------------------------
(* Poll and dispatch. *)

\* The entries poll sees: keyboard and IMU of each remote in turn, open ones only.
Slot(n) == (n + 1) \div 2
FieldOf(n) == IF n % 2 = 1 THEN "kbd" ELSE "imu"
FdAt(n) == remotes[Slot(n)][FieldOf(n)]
Entries == {n \in 1..(2 * Len(remotes)) : FdAt(n) # NoFd}
\* The index of an entry in the array handed to poll.
Index(n) == Cardinality({m \in Entries : m <= n})

\* A frame to read, or an error: a dead node returns ENODEV whatever was queued.
Readable(f) == fdTab[f].queued \/ ~fdTab[f].alive

Poll ==
    LET ready == {n \in Entries : Readable(FdAt(n))}
    IN  /\ pc = "loop"
        /\ ready # {}
        /\ batch' \in InOrder({Index(n) : n \in ready})
        /\ pc' = "dispatch"
        /\ UNCHANGED <<kernelVars, remotes, newr, todo>>

\* What the next index of the batch means in the layout of now.
Target == {n \in Entries : Index(n) = Head(batch)}

Frame(n) ==
    /\ fdTab[FdAt(n)].alive /\ fdTab[FdAt(n)].queued
    /\ fdTab' = [fdTab EXCEPT ![FdAt(n)].queued = FALSE]
    /\ UNCHANGED remotes

\* Faulty: the virtual device goes with its source.
GonePair(n) ==
    LET r == remotes[Slot(n)]
    IN  /\ ~fdTab[FdAt(n)].alive
        /\ fdTab' = [fdTab EXCEPT ![FdAt(n)] = Closed, ![r.vmouse] = Closed]
        /\ remotes' = [remotes EXCEPT ![Slot(n)][FieldOf(n)] = NoFd, ![Slot(n)].vmouse = NoFd]
\* The read fails: the descriptor is closed, the remote stays in the list.
Gone(n) ==
    /\ ~fdTab[FdAt(n)].alive
    /\ fdTab' = [fdTab EXCEPT ![FdAt(n)] = Closed]
    /\ remotes' = [remotes EXCEPT ![Slot(n)][FieldOf(n)] = NoFd]

Handle ==
    /\ pc = "dispatch" /\ batch # <<>>
    /\ \/ \E n \in Target : Frame(n) \/ Gone(n)
       \/ Target = {} /\ UNCHANGED <<fdTab, remotes>>
    /\ batch' = Tail(batch)
    /\ UNCHANGED <<node, pc, newr, todo>>

DispatchDone ==
    /\ pc = "dispatch" /\ batch = <<>>
    /\ pc' = "loop"
    /\ UNCHANGED <<kernelVars, remotes, newr, todo, batch>>

----------------------------------------------------------------------------
(* The process. *)

Start ==
    /\ pc = "down"
    /\ pc' = "loop"
    /\ UNCHANGED <<kernelVars, remotes, newr, todo, batch>>

\* SIGTERM, SIGKILL or a crash: the kernel closes every descriptor.
Exit ==
    /\ pc # "down"
    /\ pc' = "down"
    /\ fdTab' = [f \in Fds |-> Closed]
    /\ remotes' = <<>> /\ newr' = <<>> /\ todo' = <<>> /\ batch' = <<>>
    /\ UNCHANGED node

Init ==
    /\ node = [p \in Paths |-> NoNode]
    /\ fdTab = [f \in Fds |-> Closed]
    /\ pc = "down"
    /\ remotes = <<>> /\ newr = <<>> /\ todo = <<>> /\ batch = <<>>

Rescan == StartRescan \/ StealOne \/ OpenOne \/ FinishRescan
Daemon == Rescan \/ Poll \/ Handle \/ DispatchDone

Environment ==
    \/ \E h \in Hw, kind \in {"keyboard", "imu"}, p \in Paths : Attach(h, kind, p)
    \/ \E h \in Hw : Detach(h)
    \/ \E p \in Paths : UserInput(p)

Next == Daemon \/ Environment \/ Start \/ Exit

Spec == Init /\ [][Next]_vars

\* The daemon keeps running its loop, and the 2 s fallback makes it rescan again
\* and again however much input keeps poll busy.
Fairness == WF_vars(Daemon) /\ SF_vars(StartRescan)

FairSpec == Spec /\ Fairness

----------------------------------------------------------------------------
(* Properties. *)

Remote ==
    [id : Macs \cup {NoMac, Closed}, kbdPath : Paths \cup {NoPath},
     imuPath : Paths \cup {NoPath}, kbd : Fds \cup {NoFd}, imu : Fds \cup {NoFd},
     vkbd : Fds \cup {NoFd}, vmouse : Fds \cup {NoFd}]
FoundRemote ==
    [id : Macs \cup {NoMac}, kbdPath : Paths, imuPath : Paths \cup {NoPath}]

TypeOK ==
    /\ node \in [Paths -> Node \cup {NoNode}]
    /\ fdTab \in [Fds -> Descriptor \cup {Closed}]
    /\ pc \in {"down", "loop", "rescan", "dispatch"}
    /\ remotes \in Seq(Remote) /\ newr \in Seq(Remote)
    /\ todo \in Seq(FoundRemote)
    /\ batch \in Seq(Nat)

\* Every place a descriptor number is kept, its record, and the number.
RecordOf(h) == (IF h[1] = "old" THEN remotes ELSE newr)[h[2]]
Held(h) == RecordOf(h)[h[3]]
Holders ==
    {h \in ({"old"} \X (DOMAIN remotes) \X Roles) \cup ({"new"} \X (DOMAIN newr) \X Roles) :
        Held(h) # NoFd}

\* Each open descriptor is kept in exactly one place, of its own role, and no
\* record keeps a number that has been closed: nothing leaks, nothing is closed
\* under another owner, through any mix of steals, failed opens and dead nodes.
DescriptorsOwned ==
    /\ \A h \in Holders : Held(h) \in OpenFds /\ fdTab[Held(h)].role = h[3]
    /\ \A g, h \in Holders : Held(g) = Held(h) => g = h
    /\ \A f \in OpenFds : \E h \in Holders : Held(h) = f

\* A keyboard that is grabbed has both virtual devices to send its input to.
GrabHasTarget ==
    \A f \in OpenFds : fdTab[f].grab =>
        \E h \in Holders :
            RecordOf(h).kbd = f /\ RecordOf(h).vkbd # NoFd /\ RecordOf(h).vmouse # NoFd

\* Outside a rescan no two remotes share an event node.
NodesNotShared ==
    pc # "rescan" =>
        \A i, j \in DOMAIN remotes : i # j =>
            {remotes[i].kbdPath, remotes[i].imuPath}
                \cap {remotes[j].kbdPath, remotes[j].imuPath} \subseteq {NoPath}

\* Once every remote is off for good, so is everything the daemon made for them:
\* no virtual device outlives its remote.
AllGoneCleansUp ==
    <>[](\A p \in Paths : node[p] = NoNode) => <>[](OpenFds = {})


\* A record, in either list, has the path open as what the device behind it is not: as a
\* keyboard or an IMU when it is the other, or as another remote's keyboard.
Mistaken(h, p) ==
    /\ fdTab[Held(h)].alive /\ fdTab[Held(h)].path = p
    /\ \/ node[p].kind # IF h[3] = "kbd" THEN "keyboard" ELSE "imu"
       \/ h[3] = "kbd" /\ MacOf[node[p].hw] # RecordOf(h).id

\* A node that changes hands between the scan and the open is opened, and grabbed, under
\* the identity of the remote that was there: nothing checks it.  It does not last: a
\* later rescan opens it anew and frees the record, however often the nodes change hands
\* and however busy the loop is.
MistakesEnd ==
    \A p \in Paths :
        (\E h \in Holders : Mistaken(h, p)) ~> \A h \in Holders : ~Mistaken(h, p)

\* Every keyboard the daemon has open outside a rescan is grabbed.
OpenIsGrabbed ==
    pc = "loop" =>
        \A i \in DOMAIN remotes :
            remotes[i].kbd # NoFd /\ fdTab[remotes[i].kbd].alive => fdTab[remotes[i].kbd].grab

\* A rescan leaves every remote it lists with its keyboard open ("open/grab what
\* appeared or reconnected", daemon_devices.h).
RescanReopens ==
    [][pc = "rescan" /\ pc' = "loop" =>
          \A i \in DOMAIN newr : newr[i].kbd # NoFd]_vars

=============================================================================
