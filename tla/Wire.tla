-------------------------------- MODULE Wire --------------------------------
(***************************************************************************)
(* The D-Bus messages the command line writes and reads by hand            *)
(* (dbus_client.c): the little-endian writer with its record of where the  *)
(* last padding began, the header of a call, and the reader of replies.    *)
(*                                                                         *)
(* A message is a sequence of bytes.                                       *)
(*                                                                         *)
(* The operators whose names begin with Spec are the D-Bus specification:  *)
(* a value is preceded by the padding its alignment asks for, counted from *)
(* the start of the message, and nothing follows it.                       *)
(***************************************************************************)
EXTENDS Integers, Sequences

Fill(n) == [i \in 1..n |-> 0]
Gap(n, align) == (align - (n % align)) % align

\* The four bytes of a number, and the number in the four bytes after a position.
U32(v) == <<v % 256, (v \div 256) % 256, (v \div 65536) % 256, (v \div 16777216) % 256>>
U32At(m, at) == m[at + 1] + 256 * m[at + 2] + 65536 * m[at + 3] + 16777216 * m[at + 4]

\* A number put over the four bytes after a position.
WithU32(bytes, at, v) ==
    [i \in DOMAIN bytes |-> IF i \in (at + 1)..(at + 4) THEN U32(v)[i - at] ELSE bytes[i]]

\* Header fields, types and messages, by their numbers on the wire.
Field == [path |-> 1, interface |-> 2, member |-> 3, errorName |-> 4,
          replySerial |-> 5, destination |-> 6, sender |-> 7, signature |-> 8]
Type == [o |-> 111, s |-> 115, u |-> 117, g |-> 103, d |-> 100, a |-> 97,
         v |-> 118]
Message == [call |-> 1, return |-> 2, error |-> 3, signal |-> 4]

\* The longest message that is sent or read, the longest signature, and no message.
MaxMessage == 1048576
MaxSignature == 255
Unsent == <<>>

----------------------------------------------------------------------------
(* The writer: what is written, and its length before the last padding. *)

Empty == [out |-> <<>>, nodepad |-> 0]

Put(w, bytes) == [out |-> w.out \o bytes, nodepad |-> Len(w.out \o bytes)]

\* Faulty: the padding counts.
PadCounted(w, align) == Put(w, Fill(Gap(Len(w.out), align)))
Pad(w, align) == [out |-> w.out \o Fill(Gap(Len(w.out), align)), nodepad |-> Len(w.out)]

PutStr(w, s) == Pad(Put(w, U32(Len(s)) \o s \o <<0>>), 4)
PutSig(w, s) == Put(w, <<Len(s)>> \o s \o <<0>>)

\* body_add_arg: an argument is [type, val], a double or a string as its bytes, a
\* number as its only one.
AddArg(w, a) ==
    CASE a.type = Type.s -> PutStr(Pad(w, 4), a.val)
      [] a.type = Type.d -> Put(Pad(w, 8), a.val)
      [] a.type = Type.u -> Put(Pad(w, 4), U32(a.val[1]))

\* The body after each argument.
BodyLoop(args) ==
    LET w[n \in 0..Len(args)] == IF n = 0 THEN Empty ELSE AddArg(w[n - 1], args[n])
    IN  w

\* hdr_field
HdrField(w, f) ==
    LET start == Put(Pad(w, 8), <<f.code, 1, f.type, 0>>)
    IN  IF f.type = Type.g THEN PutSig(start, f.val) ELSE PutStr(Pad(start, 4), f.val)

\* The header after each field.
HdrLoop(fixed, fields) ==
    LET w[n \in 0..Len(fields)] == IF n = 0 THEN fixed ELSE HdrField(w[n - 1], fields[n])
    IN  w

SignatureOf(args) == [i \in DOMAIN args |-> args[i].type]

CallFields(call) ==
    << [code |-> Field.path, type |-> Type.o, val |-> call.path],
       [code |-> Field.interface, type |-> Type.s, val |-> call.iface],
       [code |-> Field.member, type |-> Type.s, val |-> call.member],
       [code |-> Field.destination, type |-> Type.s, val |-> call.dest] >>
    \o IF call.args = <<>> THEN <<>>
       ELSE << [code |-> Field.signature, type |-> Type.g, val |-> SignatureOf(call.args)] >>

\* build_call: the fields' length is written into the header when it is known; a
\* message that has become too long is not sent.
BuildCall(call) ==
    LET body == BodyLoop(call.args)[Len(call.args)]
        fixed == Put(Empty, <<108, Message.call, 0, 1>> \o U32(body.nodepad) \o U32(call.serial)
                            \o U32(0))
        hdr == HdrLoop(fixed, CallFields(call))[Len(CallFields(call))]
        patched == [hdr EXCEPT !.out = WithU32(@, 12, hdr.nodepad - 12 - 4)]
        msg == Pad(patched, 8).out \o SubSeq(body.out, 1, body.nodepad)
    IN  IF Len(call.args) > MaxSignature \/ Len(msg) > MaxMessage THEN Unsent ELSE msg

----------------------------------------------------------------------------
(* The reader.  A position is an offset into the message; ok is lost for good.  What is
   made of a message that breaks the rules of D-Bus is not modelled. *)

\* Faulty: padding is expected after the last value of a container, too.
SkipPadAlways(at, base, end, align) == at + Gap(at - base, align)
\* rd_pad stops at the end of the slice.
SkipPad(at, base, end, align) ==
    IF at + Gap(at - base, align) <= end THEN at + Gap(at - base, align) ELSE end

Bad == [ok |-> FALSE, at |-> 0, val |-> <<>>]

\* rd_str, for a slice that begins at base and ends before end.
ReadStr(m, at, base, end) ==
    IF at + 4 > end THEN Bad
    ELSE LET len == U32At(m, at)
         IN  IF at + 4 + len + 1 > end THEN Bad
             ELSE IF m[at + 4 + len + 1] # 0 THEN Bad
             ELSE [ok |-> TRUE, at |-> SkipPad(at + 4 + len + 1, base, end, 4),
                   val |-> SubSeq(m, at + 5, at + 4 + len)]

\* The loop of rd_value for "as", each round of which reads a string until the end.
StrStep(m, base, end, st) ==
    IF ~st.ok \/ st.at >= end THEN st
    ELSE LET s == ReadStr(m, st.at, base, end)
         IN  IF s.ok THEN [s EXCEPT !.val = Append(st.val, @)] ELSE Bad

StrLoop(m, base, end) ==
    LET st[n \in 0..(end - base)] ==
            IF n = 0 THEN [ok |-> TRUE, at |-> base, val |-> <<>>] ELSE StrStep(m, base, end, st[n - 1])
    IN  st

\* rd_value, and that the whole body has been read: the strings it holds.
ReadBody(m, at, end, sig) ==
    LET whole(v) == IF v.ok /\ v.at = end THEN v ELSE Bad
        one(v) == [v EXCEPT !.val = IF v.ok THEN <<@>> ELSE @]
    IN  CASE sig = <<>> -> [ok |-> TRUE, at |-> at, val |-> <<>>]
          [] sig = <<Type.s>> -> one(whole(ReadStr(m, at, at, end)))
          [] sig = <<Type.a, Type.s>> ->
                IF at + 4 > end THEN Bad
                ELSE IF at + 4 + U32At(m, at) > end THEN Bad
                ELSE whole(StrLoop(m, at + 4, at + 4 + U32At(m, at))[U32At(m, at)])
          [] sig = <<Type.v>> ->
                IF at + 3 > end THEN Bad
                ELSE IF m[at + 1] # 1 \/ m[at + 2] # Type.s THEN Bad
                ELSE one(whole(ReadStr(m, SkipPad(at + 3, at, end, 4), at, end)))
          [] OTHER -> Bad

\* What is kept of a header field: the name of an error, the body's signature, the
\* serial answered.
Kept(got, code, type, v) ==
    CASE code = Field.errorName /\ type \in {Type.s, Type.o} -> [got EXCEPT !.error = v]
      [] code = Field.signature /\ type \in {Type.s, Type.o, Type.g} -> [got EXCEPT !.sig = v]
      [] code = Field.replySerial /\ type = Type.u -> [got EXCEPT !.serial = v]
      [] OTHER -> got

\* The value of a header field, by its type.
ReadField(m, at, end, type) ==
    CASE type \in {Type.s, Type.o} -> ReadStr(m, SkipPad(at, 0, end, 4), 0, end)
      [] type = Type.u /\ SkipPad(at, 0, end, 4) + 4 <= end ->
            LET from == SkipPad(at, 0, end, 4)
            IN  [ok |-> TRUE, at |-> from + 4, val |-> U32At(m, from)]
      [] type = Type.g /\ at + 1 <= end /\ at + 1 + m[at + 1] + 1 <= end ->
            [ok |-> TRUE, at |-> at + 1 + m[at + 1] + 1, val |-> SubSeq(m, at + 2, at + 1 + m[at + 1])]
      [] OTHER -> Bad

\* parse_header_fields, one field in each round until the end.
FieldStep(m, end, st) ==
    IF ~st.ok \/ st.at >= end THEN st
    ELSE LET start == SkipPad(st.at, 0, end, 8)
             v == ReadField(m, start + 4, end, m[start + 3])
         IN  IF start + 4 > end THEN [st EXCEPT !.ok = FALSE]
             ELSE IF m[start + 2] # 1 \/ m[start + 4] # 0 \/ ~v.ok THEN [st EXCEPT !.ok = FALSE]
             ELSE [ok |-> TRUE, at |-> v.at, got |-> Kept(st.got, m[start + 1], m[start + 3], v.val)]

NothingKept == [error |-> <<>>, sig |-> <<>>, serial |-> 0]

FieldLoop(m, end) ==
    LET st[n \in 0..(end - 16)] ==
            IF n = 0 THEN [ok |-> TRUE, at |-> 16, got |-> NothingKept] ELSE FieldStep(m, end, st[n - 1])
    IN  st

\* bus_call, for one message that has been read whole: what the client makes of it.
ReadReply(m) ==
    LET fieldsLen == U32At(m, 12)
        bodyLen == U32At(m, 4)
        fits == m[1] = 108 /\ 16 + fieldsLen + bodyLen <= MaxMessage
        f == FieldLoop(m, 16 + fieldsLen)[fieldsLen]
        bodyAt == 16 + fieldsLen + Gap(16 + fieldsLen, 8)
        body == ReadBody(m, bodyAt, bodyAt + bodyLen,
                         IF m[2] = Message.error THEN <<Type.s>> ELSE f.got.sig)
    IN  IF fits /\ f.ok /\ body.ok
        THEN [type |-> m[2], ok |-> TRUE, serial |-> f.got.serial, error |-> f.got.error,
              val |-> body.val]
        ELSE [type |-> m[2], ok |-> FALSE]

----------------------------------------------------------------------------
(* The D-Bus specification. *)

SpecPad(bytes, align) == bytes \o Fill(Gap(Len(bytes), align))
SpecString(bytes, s) == SpecPad(bytes, 4) \o (U32(Len(s)) \o s \o <<0>>)
SpecSignature(bytes, s) == bytes \o (<<Len(s)>> \o s \o <<0>>)

SpecValue(bytes, a) ==
    CASE a.type \in {Type.s, Type.o} -> SpecString(bytes, a.val)
      [] a.type = Type.g -> SpecSignature(bytes, a.val)
      [] a.type = Type.u -> SpecPad(bytes, 4) \o U32(a.val[1])
      [] a.type = Type.d -> SpecPad(bytes, 8) \o a.val

\* The bytes after each value of a list.
SpecValues(list) ==
    LET b[n \in 0..Len(list)] == IF n = 0 THEN <<>> ELSE SpecValue(b[n - 1], list[n])
    IN  b

SpecField(bytes, f) ==
    SpecValue(SpecPad(bytes, 8) \o <<f.code, 1, f.type, 0>>, [type |-> f.type, val |-> f.val])

\* The bytes of a header after each field.
SpecFields(fixed, fields) ==
    LET b[n \in 0..Len(fields)] == IF n = 0 THEN fixed ELSE SpecField(b[n - 1], fields[n])
    IN  b

\* A message from its type, its serial, its fields and the bytes of its body.
SpecHeader(type, n, fields, body) ==
    LET fixed == <<108, type, 0, 1>> \o U32(Len(body)) \o U32(n) \o U32(0)
    IN  SpecFields(fixed, fields)[Len(fields)]

SpecMessage(type, n, fields, body) ==
    LET hdr == SpecHeader(type, n, fields, body)
    IN  SpecPad(WithU32(hdr, 12, Len(hdr) - 16), 8) \o body

SpecCall(call) ==
    SpecMessage(Message.call, call.serial, CallFields(call), SpecValues(call.args)[Len(call.args)])

SpecStrings(list) ==
    LET items == SpecValues([i \in DOMAIN list |-> [type |-> Type.s, val |-> list[i]]])[Len(list)]
    IN  U32(Len(items)) \o items

=============================================================================
