-------------------------------- MODULE Bus --------------------------------
(***************************************************************************)
(* The bus front end of the daemon (daemon_bus.c), composed with the       *)
(* clients that call it and with the store it changes.                     *)
(*                                                                         *)
(* A write method is one handler that stops twice in the middle: it asks   *)
(* the broker who the caller is and polkit whether they may, each with a   *)
(* blocking sd_bus_call, and only then changes anything.  While it waits,  *)
(* sd-bus reads whatever else arrives into a queue of its own, and the     *)
(* daemon, which has one thread, does nothing: no frame, no rescan, no     *)
(* signal.  daemon_bus_process takes one message for each poll that finds  *)
(* the socket readable, and sd-bus takes it from its queue first.          *)
(***************************************************************************)
EXTENDS ConfigStore, BusClient

CONSTANTS
    Root,       \* the clients with uid 0
    Idle        \* no method in progress

VARIABLES
    present,    \* the identities in dd->remotes
    rqueue,     \* calls sd-bus has read but not dispatched
    serving,    \* the call in progress and where it is
    done,       \* history: the calls that took effect, or whose answer was given
    refused,    \* history: those the daemon answered with an error
    permitted   \* history: reads, and calls of root or of whom polkit said yes to

busVars == <<present, rqueue, serving, done, refused, permitted>>
allVars == <<vars, clientVars, busVars>>

Writes == {"MapButton", "ResetButtons", "SetScrollSpeed", "SetSensitivity", "SetProfile",
           "SetCalibPath", "Reload"}

Key(call) == <<call.from, call.serial>>
Busy == serving # Idle
At(where) == Busy /\ serving.at = where

\* A reply reaches a client that is still there.
Deliver(call, m) ==
    inbox' = [inbox EXCEPT ![call.from] = IF Connected(call.from) THEN Append(@, m) ELSE @]

Finished == serving' = Idle
Ok(call) == Deliver(call, Return(call.serial, {}))
Refuse(call) ==
    /\ Deliver(call, Error(call.serial))
    /\ refused' = refused \cup {Key(call)}

----------------------------------------------------------------------------
(* Receiving. *)

NextCall == Head(rqueue \o socket)
TakeNext ==
    IF rqueue # <<>>
    THEN rqueue' = Tail(rqueue) /\ UNCHANGED socket
    ELSE socket' = Tail(socket) /\ UNCHANGED rqueue

\* MapButton looks its key names up before it asks polkit.
KnownKeys(q) == q.op = "MapButton" => q.arg \in Keys \X Keys

Known(id) == id \in present

\* One wake-up of daemon_bus_process.  Whether or not sd-bus has a call queued, what
\* poll waits for is the socket.  Reads are answered at once.
Dispatch ==
    /\ up /\ ~Busy
    /\ socket # <<>>
    /\ TakeNext
    /\ LET call == NextCall
           q == NextCall.req
       IN  \/ /\ q.op \in Writes /\ KnownKeys(q)
              /\ serving' = [call |-> call, at |-> "credentials"]
              /\ UNCHANGED <<inbox, done, refused, permitted>>
           \/ /\ q.op \notin Writes /\ (q.op = "GetStatus" => Known(q.id))
              /\ Deliver(call, Return(call.serial, IF q.op = "ListDevices" THEN present ELSE {}))
              /\ done' = done \cup {Key(call)} /\ permitted' = permitted \cup {Key(call)}
              /\ UNCHANGED <<serving, refused>>
           \/ /\ (q.op = "GetStatus" /\ ~Known(q.id)) \/ ~KnownKeys(q)
              /\ Refuse(call)
              /\ UNCHANGED <<serving, done, permitted>>
    /\ UNCHANGED <<vars, phase, left, serial, code, present>>

\* sd_bus_call reads a message that is not its answer.
ReadAhead ==
    /\ At("credentials") \/ At("polkit")
    /\ socket # <<>>
    /\ rqueue' = Append(rqueue, Head(socket))
    /\ socket' = Tail(socket)
    /\ UNCHANGED <<vars, phase, left, serial, inbox, code, present, serving, done,
                   refused, permitted>>

----------------------------------------------------------------------------
(* The gate. *)

MoveTo(where) == serving' = [serving EXCEPT !.at = where]

\* Faulty: the refusal is sent and the method goes on.
DenyAndGoOn(call) == Refuse(call) /\ MoveTo("permitted")
\* gate() replies NotAuthorized and the handler returns.
Deny(call) == Refuse(call) /\ Finished

gateUnchanged == <<vars, phase, left, serial, code, socket, present, rqueue, done>>

\* GetConnectionCredentials: root passes, anyone else is put to polkit.
Identified ==
    /\ At("credentials")
    /\ IF serving.call.from \in Root
       THEN MoveTo("permitted") /\ permitted' = permitted \cup {Key(serving.call)}
       ELSE MoveTo("polkit") /\ UNCHANGED permitted
    /\ UNCHANGED <<inbox, refused, gateUnchanged>>

\* Faulty: a challenge, which wants a password nobody is asked for, passes.
YesOrChallenge(answer) == answer # "no"
Yes(answer) == answer = "yes"

Authorized ==
    /\ At("polkit")
    /\ \E answer \in {"yes", "challenge", "no"} :
          /\ permitted' = IF answer = "yes" THEN permitted \cup {Key(serving.call)}
                          ELSE permitted
          /\ IF Yes(answer)
             THEN MoveTo("permitted") /\ UNCHANGED <<inbox, refused>>
             ELSE Deny(serving.call)
    /\ UNCHANGED gateUnchanged

\* Faulty: the question to polkit is put without a time limit.
LimitsCredentials == At("credentials")
\* Both questions are.
LimitsAsking == At("credentials") \/ At("polkit")

\* An answer that is an error, is malformed, or does not come within the time limit
\* of sd_bus_call.
AskFails ==
    /\ LimitsAsking
    /\ Deny(serving.call)
    /\ UNCHANGED <<permitted, gateUnchanged>>

----------------------------------------------------------------------------
(* The methods, once permitted. *)

\* Arguments the method itself refuses: no such device, out of range, no such profile.
Accepted(q) ==
    q.op # "Reload" =>
        /\ Known(q.id)
        /\ q.op = "SetScrollSpeed" => MayScroll(q.arg)
        /\ q.op = "SetSensitivity" => MaySense(q.arg)
        /\ q.op = "SetProfile" => MaySelect(dc[q.id], q.arg)

\* A write method begins to write: the actions of ConfigStore.
Begin(q) ==
    \/ q.op = "MapButton" /\ MapButton(q.id, q.arg)
    \/ q.op = "ResetButtons" /\ ResetButtons(q.id)
    \/ q.op = "SetScrollSpeed" /\ SetScrollSpeed(q.id, q.arg)
    \/ q.op = "SetSensitivity" /\ SetSensitivity(q.id, q.arg)
    \/ q.op = "SetProfile" /\ SetProfile(q.id, q.arg)
    \/ q.op = "SetCalibPath" /\ SetCalibPath(q.id, q.arg)

methodUnchanged == <<phase, left, serial, code, socket, present, rqueue, permitted>>

RefuseArguments ==
    /\ At("permitted") /\ ~Accepted(serving.call.req)
    /\ Refuse(serving.call)
    /\ Finished
    /\ UNCHANGED <<vars, methodUnchanged, done>>

Perform ==
    /\ At("permitted") /\ Accepted(serving.call.req)
    /\ Begin(serving.call.req)
    /\ MoveTo("writing")
    /\ UNCHANGED <<inbox, refused, done, methodUnchanged>>

PerformReload ==
    /\ At("permitted") /\ serving.call.req.op = "Reload"
    /\ Reload
    /\ Ok(serving.call)
    /\ Finished
    /\ done' = done \cup {Key(serving.call)}
    /\ UNCHANGED <<refused, methodUnchanged>>

\* The rename, and with it the reply.
Persisted ==
    /\ At("writing")
    /\ CommitDevice \/ CommitState
    /\ Ok(serving.call)
    /\ Finished
    /\ done' = done \cup {Key(serving.call)}
    /\ UNCHANGED <<refused, methodUnchanged>>

\* Faulty: the result of mutate_and_save is not looked at.
ReplyOk(call) == Ok(call) /\ UNCHANGED refused
ReplyFailed(call) == Refuse(call)

NotPersisted ==
    /\ At("writing")
    /\ WriteFails
    /\ ReplyFailed(serving.call)
    /\ Finished
    /\ UNCHANGED <<done, methodUnchanged>>

----------------------------------------------------------------------------
(* The daemon and its remotes come and go; the broker answers for the daemon. *)

Pending(c) ==
    \/ Busy /\ serving.call.from = c
    \/ \E i \in DOMAIN (rqueue \o socket) : (rqueue \o socket)[i].from = c

\* The daemon ends, in whatever it was doing: NoReply to whoever waits for it.
DaemonEnds ==
    /\ Stop
    /\ inbox' = [c \in Clients |-> IF Connected(c) /\ Pending(c)
                                   THEN Append(inbox[c], Error(serial[c])) ELSE inbox[c]]
    /\ Finished /\ rqueue' = <<>> /\ socket' = <<>>
    /\ UNCHANGED <<phase, left, serial, code, present, done, refused, permitted>>

DaemonStarts ==
    /\ Restart
    /\ present' \in SUBSET Ids
    /\ UNCHANGED <<clientVars, rqueue, serving, done, refused, permitted>>

RemoteAppears(id) ==
    /\ ~Busy /\ id \notin present
    /\ Reopen(id)
    /\ present' = present \cup {id}
    /\ UNCHANGED <<clientVars, rqueue, serving, done, refused, permitted>>

RemoteLeaves(id) ==
    /\ up /\ ~Busy /\ id \in present
    /\ present' = present \ {id}
    /\ UNCHANGED <<vars, clientVars, rqueue, serving, done, refused, permitted>>

Command(c) ==
    \/ Connect(c) \/ Authenticate(c)
    \/ Skip(c) \/ Succeed(c, up) \/ Fail(c) \/ TimeOut(c)
    \/ ReadFiles(c, \A i \in DOMAIN left[c] :
                        left[c][i].id \in Ids => Loaded(left[c][i].id).ok)

ClientStep(c) == Command(c) /\ UNCHANGED <<vars, busVars>>

BusInit ==
    /\ Init /\ ClientInit
    /\ present = {}
    /\ rqueue = <<>>
    /\ serving = Idle
    /\ done = {} /\ refused = {} /\ permitted = {}

BusNext ==
    \/ \E c \in Clients : ClientStep(c)
    \/ Dispatch \/ ReadAhead
    \/ Identified \/ Authorized \/ AskFails
    \/ RefuseArguments \/ Perform \/ PerformReload \/ Persisted \/ NotPersisted
    \/ DaemonEnds \/ DaemonStarts
    \/ \E id \in Ids : RemoteAppears(id) \/ RemoteLeaves(id)

BusSpec == BusInit /\ [][BusNext]_allVars

\* Each process runs; a question to the broker or to polkit has a time limit, and
\* so has a client's wait.
FairBusSpec ==
    /\ BusSpec
    /\ \A c \in Clients : WF_allVars(ClientStep(c))
    /\ WF_allVars(AskFails)
    /\ WF_allVars(RefuseArguments \/ Perform \/ PerformReload)
    /\ WF_allVars(Persisted \/ NotPersisted)

----------------------------------------------------------------------------
(* Properties. *)

\* A command that exits with 0 has had all it asked for done: each of its calls was
\* answered, and persisted if it is a write, whatever failed, restarted or timed out
\* in between ("scroll reset" makes two).
AcknowledgedIsDone ==
    \A c \in Clients : code[c] = 0 => \A n \in 2..serial[c] : <<c, n>> \in done

\* A call the daemon itself answered with an error has no effect, now or later.
RefusedIsUndone == done \cap refused = {}

\* Nothing is done for a caller who is neither root nor has polkit's yes: every way
\* in which asking can fail is a no ("fails closed").
OnlyPermitted == done \subseteq permitted

\* Every command ends, also when its call lies in sd-bus's queue, where nothing but
\* the next message makes the daemon look.
CommandsEnd == \A c \in Clients : phase[c] = "auth" ~> code[c] # NoCode

\* The daemon returns to its loop, where the grabbed keyboard is read, from every
\* method, whatever polkit does.
LoopComesBack == Busy ~> ~Busy

=============================================================================
