----------------------------- MODULE BusClient -----------------------------
(***************************************************************************)
(* The D-Bus client of the command line (dbus_client.c) and the commands   *)
(* that use it (cmd_bus.c, cmd_button.c, cmd_scroll.c, cmd_profile.c,      *)
(* cmd_device.c).                                                          *)
(*                                                                         *)
(* A client is one process that runs one command: it connects,             *)
(* authenticates, says Hello, makes the command's calls one after the      *)
(* other, stops at the first that fails, and exits.  Only its waiting is   *)
(* limited: it gives up when nothing has arrived for 25 seconds, and what  *)
(* it has sent stays sent.  The broker (dbus-daemon) is external: it       *)
(* forwards calls in the order they reach it and never fails.              *)
(***************************************************************************)
EXTENDS Integers, Sequences, FiniteSets

CONSTANTS
    Clients,    \* the processes
    Programs,   \* the commands that are run, each as its calls in order
    TheOnly,    \* the device argument of a command that leaves it out
    NoDevice,   \* the device argument of a call that has none
    NoCode      \* the process has not exited

ASSUME BusClientAssumption == NoCode \notin {0, 1}

VARIABLES
    phase,      \* what the process is doing
    left,       \* its calls, the one in progress first
    serial,     \* c->serial
    inbox,      \* what the broker has sent to it
    code,       \* its exit code
    socket      \* the calls the broker has sent to the daemon

clientVars == <<phase, left, serial, inbox, code, socket>>

----------------------------------------------------------------------------
(* The commands.  One that was given no device asks for the list first. *)

Ask(op, id, arg) == [op |-> op, id |-> id, arg |-> arg]
Resolving(id, calls) ==
    IF id = TheOnly THEN <<Ask("ListDevices", TheOnly, 0)>> \o calls ELSE calls

ButtonList(id) == Resolving(id, <<Ask("ReadFiles", id, 0)>>)
ButtonMap(id, m) == <<Ask("MapButton", id, m)>>
ButtonReset(id) == <<Ask("ResetButtons", id, 0)>>
ScrollSet(method, id, v) == <<Ask(method, id, v)>>
ScrollReset(id, speed, sens) ==
    ScrollSet("SetScrollSpeed", id, speed) \o ScrollSet("SetSensitivity", id, sens)
ProfileList == <<Ask("ListDevices", NoDevice, 0)>>
ProfileShow(id) == Resolving(id, <<Ask("ReadFiles", id, 0)>>)
ProfileSet(id, name) == <<Ask("SetProfile", id, name)>>
DeviceStatus(id) == Resolving(id, <<Ask("GetStatus", id, 0)>>)

----------------------------------------------------------------------------
(* The connection. *)

Return(n, devs) == [kind |-> "return", serial |-> n, devs |-> devs]
Error(n) == [kind |-> "error", serial |-> n, devs |-> {}]
Signal == [kind |-> "signal", serial |-> 0, devs |-> {}]

\* On the bus, and the broker delivers to it.
Connected(c) == phase[c] \in {"hello", "call"}

Exit(c, n) ==
    /\ phase' = [phase EXCEPT ![c] = "done"]
    /\ code' = [code EXCEPT ![c] = n]
    /\ inbox' = [inbox EXCEPT ![c] = <<>>]
    /\ UNCHANGED <<left, serial, socket>>

\* bus_call, up to the wait: the broker hands the call to the daemon, or answers
\* ServiceUnknown when nobody owns the daemon's name.
Send(c, calls, rest, owned) ==
    LET n == serial[c] + 1
    IN  /\ phase' = [phase EXCEPT ![c] = "call"]
        /\ left' = [left EXCEPT ![c] = calls]
        /\ serial' = [serial EXCEPT ![c] = n]
        /\ socket' = IF owned
                     THEN Append(socket, [from |-> c, serial |-> n, req |-> Head(calls)])
                     ELSE socket
        /\ inbox' = [inbox EXCEPT ![c] = IF owned THEN rest ELSE Append(rest, Error(n))]
        /\ UNCHANGED code

\* What is left of the command: calls, then reading the world-readable files.
Proceed(c, calls, rest, owned) ==
    IF calls = <<>> THEN Exit(c, 0)
    ELSE IF Head(calls).op = "ReadFiles"
    THEN /\ phase' = [phase EXCEPT ![c] = "read"]
         /\ left' = [left EXCEPT ![c] = calls]
         /\ inbox' = [inbox EXCEPT ![c] = rest]
         /\ UNCHANGED <<serial, code, socket>>
    ELSE Send(c, calls, rest, owned)

----------------------------------------------------------------------------

\* dbus_connect: the socket, then AUTH EXTERNAL; without a broker the command ends.
Connect(c) ==
    /\ phase[c] = "start"
    /\ \/ /\ phase' = [phase EXCEPT ![c] = "auth"]
          /\ \E p \in Programs : left' = [left EXCEPT ![c] = p]
          /\ UNCHANGED <<serial, inbox, code, socket>>
       \/ Exit(c, 1)

\* The answer to AUTH.  BEGIN has none, so Hello, the first call, follows at once;
\* the broker answers it, then signals NameAcquired.
Authenticate(c) ==
    /\ phase[c] = "auth"
    /\ \E line \in {"OK", "REJECTED", "other"} :
          IF line = "OK"
          THEN /\ phase' = [phase EXCEPT ![c] = "hello"]
               /\ serial' = [serial EXCEPT ![c] = 1]
               /\ inbox' = [inbox EXCEPT ![c] = <<Return(1, {}), Signal>>]
               /\ UNCHANGED <<left, code, socket>>
          ELSE Exit(c, 1)

\* The answer bus_call takes for success.
Accepts(c, m) == m.kind = "return" /\ m.serial = serial[c]

\* A signal is skipped.
Skip(c) ==
    /\ Connected(c) /\ inbox[c] # <<>>
    /\ Head(inbox[c]).kind = "signal"
    /\ inbox' = [inbox EXCEPT ![c] = Tail(inbox[c])]
    /\ UNCHANGED <<phase, left, serial, code, socket>>

\* cmd_bus_resolve_mac: the device a command was not given is the only one there is.
Resolves(q) == q.op = "ListDevices" /\ q.id = TheOnly
Bound(calls, id) ==
    [i \in DOMAIN calls |->
        IF calls[i].id = TheOnly THEN [calls[i] EXCEPT !.id = id] ELSE calls[i]]

\* The call in progress, Hello included, has succeeded.
Succeed(c, owned) ==
    /\ Connected(c) /\ inbox[c] # <<>>
    /\ LET m == Head(inbox[c])
           rest == Tail(inbox[c])
           calls == Tail(left[c])
       IN  /\ m.kind # "signal" /\ Accepts(c, m)
           /\ IF phase[c] = "hello" THEN Proceed(c, left[c], rest, owned)
              ELSE IF ~Resolves(Head(left[c])) THEN Proceed(c, calls, rest, owned)
              ELSE IF Cardinality(m.devs) = 1
              THEN Proceed(c, Bound(calls, CHOOSE d \in m.devs : TRUE), rest, owned)
              ELSE Exit(c, 1)

\* An error, or an answer to something else: the command ends.
Fail(c) ==
    /\ Connected(c) /\ inbox[c] # <<>>
    /\ Head(inbox[c]).kind # "signal" /\ ~Accepts(c, Head(inbox[c]))
    /\ Exit(c, 1)

\* Faulty: only the connection is set up under a time limit.
LimitsConnecting(c) == phase[c] \in {"auth", "hello"}
\* Where the client waits for 25 seconds at most: wherever it reads.
Limits(c) == phase[c] = "auth" \/ Connected(c)

TimeOut(c) ==
    /\ Limits(c) /\ inbox[c] = <<>>
    /\ Exit(c, 1)

\* button list, profile show: the files are read by the command itself.
ReadFiles(c, ok) ==
    /\ phase[c] = "read"
    /\ Exit(c, IF ok THEN 0 ELSE 1)

ClientInit ==
    /\ phase = [c \in Clients |-> "start"]
    /\ left = [c \in Clients |-> <<>>]
    /\ serial = [c \in Clients |-> 0]
    /\ inbox = [c \in Clients |-> <<>>]
    /\ code = [c \in Clients |-> NoCode]
    /\ socket = <<>>

=============================================================================
