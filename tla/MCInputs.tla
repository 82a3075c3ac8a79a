------------------------------ MODULE MCInputs ------------------------------
(***************************************************************************)
(* The pure functions of the program over bounded inputs, each grown one   *)
(* piece at a time: the list of devices that is paired, the call the       *)
(* command line writes, and the reply it reads.                            *)
(***************************************************************************)
EXTENDS MCPairing, Wire

CONSTANTS MaxArgs, None

VARIABLES
    call,    \* the call that is written
    reply    \* the reply that is read

inputs == <<devs, call, reply>>

\* A string of n characters, of a kind that tells it from others.
Text(kind, n) == [i \in 1..n |-> 32 + kind]

Args == [type : {Type.s}, val : {Text(50, n) : n \in 0..3}]
        \cup {[type |-> Type.d, val |-> Text(60, 8)], [type |-> Type.u, val |-> <<9>>]}

NewCall ==
    /\ devs = <<>> /\ call = None /\ reply = None
    /\ \E p, d \in 1..4, i, m \in 1..2 :
          call' = [path |-> Text(1, p), iface |-> Text(2, i), member |-> Text(3, m),
                   dest |-> Text(4, d), serial |-> 7, args |-> <<>>]
    /\ UNCHANGED <<devs, reply>>

AddCallArg ==
    /\ call # None
    /\ Len(call.args) < MaxArgs
    /\ \E a \in Args : call' = [call EXCEPT !.args = Append(@, a)]
    /\ UNCHANGED <<devs, reply>>

\* What a body holds: nothing, a string, by itself or in a variant, or a list of strings.
Bodies ==
    {[sig |-> <<>>, val |-> <<>>]}
    \cup {[sig |-> <<t>>, val |-> <<Text(70, n)>>] : t \in {Type.s, Type.v}, n \in 0..4}
    \cup {[sig |-> <<Type.a, Type.s>>, val |-> l] :
              l \in UNION {[1..k -> {Text(80, n) : n \in {0, 1, 3}}] : k \in 0..2}}

FieldOf(code, type, val) == [code |-> code, type |-> type, val |-> val]
ReplyFields(r) ==
    {FieldOf(Field.replySerial, Type.u, <<7>>)}
    \cup {FieldOf(Field.destination, Type.s, Text(5, n)) : n \in {1, 3, 7}}
    \cup {FieldOf(Field.sender, Type.s, Text(6, n)) : n \in 1..4}
    \cup (IF r.type = Message.error THEN {FieldOf(Field.errorName, Type.s, Text(7, 2))} ELSE {})
    \cup (IF r.body.sig = <<>> THEN {} ELSE {FieldOf(Field.signature, Type.g, r.body.sig)})

\* An error carries a string, its message.
NewReply ==
    /\ devs = <<>> /\ call = None /\ reply = None
    /\ \E t \in {Message.return, Message.error}, b \in Bodies :
          /\ t = Message.error => b.sig = <<Type.s>>
          /\ reply' = [type |-> t, body |-> b, fields |-> <<>>]
    /\ UNCHANGED <<devs, call>>

Codes(r) == {r.fields[i].code : i \in DOMAIN r.fields}

AddReplyField ==
    /\ reply # None
    /\ \E f \in ReplyFields(reply) :
          /\ f.code \notin Codes(reply)
          /\ reply' = [reply EXCEPT !.fields = Append(@, f)]
    /\ UNCHANGED <<devs, call>>

DiscoverDevice == call = None /\ reply = None /\ Discover /\ UNCHANGED <<call, reply>>

InputsInit == Init /\ call = None /\ reply = None
InputsNext == DiscoverDevice \/ NewCall \/ AddCallArg \/ NewReply \/ AddReplyField
InputsSpec == InputsInit /\ [][InputsNext]_inputs

----------------------------------------------------------------------------

\* A call is, byte for byte, what the D-Bus specification makes of it: every value
\* aligned from the start of the message, and neither the header fields' length nor
\* the body's counts the padding the writer puts after a string.  A message that is
\* too long is not sent.
CallsFollowSpec ==
    call # None =>
        BuildCall(call) = IF Len(call.args) <= MaxSignature /\ Len(SpecCall(call)) <= MaxMessage
                          THEN SpecCall(call) ELSE Unsent

BodyBytes(b) ==
    CASE b.sig = <<>> -> <<>>
      [] b.sig = <<Type.s>> -> SpecString(<<>>, b.val[1])
      [] b.sig = <<Type.v>> -> SpecString(<<1, Type.s, 0>>, b.val[1])
      [] OTHER -> SpecStrings(b.val)

Complete(r) ==
    /\ Field.replySerial \in Codes(r)
    /\ r.body.sig # <<>> => Field.signature \in Codes(r)
    /\ r.type = Message.error => Field.errorName \in Codes(r)

MessageOf(r) == SpecMessage(r.type, 1, r.fields, BodyBytes(r.body))

\* Every reply that follows the specification, and is not longer than the client
\* reads, is read for what it says, whatever order its fields come in and whatever
\* padding its values need.
RepliesAreRead ==
    reply # None /\ Complete(reply) /\ Len(MessageOf(reply)) <= MaxMessage =>
        ReadReply(MessageOf(reply)) =
            [type |-> reply.type, ok |-> TRUE, serial |-> 7,
             error |-> IF reply.type = Message.error THEN Text(7, 2) ELSE <<>>,
             val |-> reply.body.val]

=============================================================================
