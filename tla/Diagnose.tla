------------------------------ MODULE Diagnose ------------------------------
(***************************************************************************)
(* `lg-magic diagnose` (cmd_diagnose.c) as a client of the daemon: the     *)
(* only command that calls dbus_call itself.  It lists the devices, asks   *)
(* for the status of each, and reports whatever it finds.                  *)
(***************************************************************************)
EXTENDS Bus

CONSTANT Crashed    \* ended by a signal

\* dbus_connect fails: one line of the report.
DiagConnect(c) ==
    /\ phase[c] = "start"
    /\ \/ /\ phase' = [phase EXCEPT ![c] = "auth"]
          /\ left' = [left EXCEPT ![c] = ProfileList]
          /\ UNCHANGED <<serial, inbox, code, socket>>
       \/ Exit(c, 0)

DiagAuthenticate(c) ==
    \/ Authenticate(c) /\ phase'[c] = "hello"
    \/ phase[c] = "auth" /\ Exit(c, 0)

\* GetStatus of each device, in some order.
StatusCalls(devs) ==
    LET order == CHOOSE f \in [1..Cardinality(devs) -> devs] :
                    {f[i] : i \in DOMAIN f} = devs
    IN  [i \in DOMAIN order |-> Ask("GetStatus", order[i], 0)]

\* An answer to the call in progress.  dbus_call returns 1 for an error, which is not
\* below 0: the list of devices is read, and there is none.  An error in place of a
\* status is passed over.
DiagAnswer(c) ==
    /\ phase[c] = "call" /\ inbox[c] # <<>>
    /\ LET m == Head(inbox[c])
           rest == Tail(inbox[c])
       IN  /\ m.kind # "signal"
           /\ \/ /\ Head(left[c]).op = "ListDevices" /\ m.kind = "error"
                 /\ Exit(c, Crashed)
              \/ /\ Head(left[c]).op = "ListDevices" /\ Accepts(c, m)
                 /\ Proceed(c, StatusCalls(m.devs), rest, up)
              \/ /\ Head(left[c]).op = "ListDevices"
                 /\ m.kind = "return" /\ ~Accepts(c, m)
                 /\ Exit(c, 0)
              \/ /\ Head(left[c]).op = "GetStatus"
                 /\ Proceed(c, Tail(left[c]), rest, up)

\* No answer within the time limit: the list ends the section, a status is passed over.
DiagTimeOut(c) ==
    /\ Limits(c) /\ inbox[c] = <<>>
    /\ IF phase[c] = "call" /\ Head(left[c]).op = "GetStatus"
       THEN Proceed(c, Tail(left[c]), <<>>, up)
       ELSE Exit(c, 0)

Diagnosing(c) ==
    /\ \/ DiagConnect(c) \/ DiagAuthenticate(c)
       \/ Skip(c)
       \/ phase[c] = "hello" /\ Succeed(c, up)
       \/ DiagAnswer(c) \/ DiagTimeOut(c)
    /\ UNCHANGED <<vars, busVars>>

DiagNext ==
    \/ \E c \in Clients : Diagnosing(c)
    \/ Dispatch \/ DaemonEnds \/ DaemonStarts
    \/ \E id \in Ids : RemoteAppears(id) \/ RemoteLeaves(id)

DiagSpec == BusInit /\ [][DiagNext]_allVars

\* "lg-magic diagnose (read-only, exit 0 always)" (cmd_diagnose.c): also when there is
\* no daemon to answer.
DiagnoseExitsZero == \A c \in Clients : code[c] \in {NoCode, 0}

=============================================================================
