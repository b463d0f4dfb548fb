---------------------------- MODULE FramedStream ----------------------------
(***************************************************************************)
(* One direction of a stream connection: FramedWriter and FramedReader     *)
(* (src/src/protocols/framing.rs) over a TCP stream, the length codecs and *)
(* the payload codecs of src/src/serializers, and the receive limit that   *)
(* the receiving app resolves from its settings.                           *)
(*                                                                         *)
(* A byte is a digit of base Base, so that a small packet already needs    *)
(* two of them for its length and a few packets wrap the XOR position.     *)
(* The stream takes and yields bytes one at a time: TCP (external) may cut *)
(* what write_all gives it anywhere, and a task may end between two bytes. *)
(***************************************************************************)
EXTENDS Integers, Sequences

CONSTANTS
    Base,        \* values of a byte
    XorTable,    \* u8's operator ^, as a table
    Packets,     \* what the application sends
    Encoding,    \* the payload that the plain codec makes of each packet
    Limits,      \* values that the app gives to max_packet_size
    NoLimit,     \* no value is given
    MaxPackets,  \* bound: packets sent
    MaxChanges   \* bound: changes of the settings

Byte == 0..Base - 1

\* Decoding undoes encoding, and applying ^ twice undoes it.
ASSUME StreamAssumption ==
    /\ Base \in Nat \ {0}
    /\ XorTable \in [Byte -> [Byte -> Byte]]
    /\ \A a, b \in Byte : XorTable[XorTable[a][b]][b] = a
    /\ Encoding \in [Packets -> Seq(Byte)]
    /\ \A p, q \in Packets : Encoding[p] = Encoding[q] => p = q
    /\ Limits \subseteq Nat
    /\ NoLimit \notin Limits
    /\ MaxPackets \in Nat
    /\ MaxChanges \in Nat

VARIABLES
    codec,      \* SerializerAdapter: "ReadOnly" or "Mutable"
    prefix,     \* LengthSerializer
    sendPos,    \* XorPosition of the sender's engine
    recvPos,    \*   and of the receiver's
    poisoned,   \* the receiver's codec mutex is poisoned
    writer,     \* "idle", "writing", "ended"
    out,        \* bytes that write_all has still to write
    wire,       \* bytes written and not read
    reader,     \* "starting", "prefix", "payload", "ended"
    buf,        \* bytes read since the last frame or prefix ended
    need,       \* bytes that read_exact has still to read
    sent,       \* packets that send() was called with
    returned,   \* packets that receive() returned
    settings,   \* NetworkSettings.max_packet_size
    global,     \* MaxPacketSize
    limit,      \* EndpointReceiveLimits
    synced,     \* Startup ran sync_limits
    changes,    \* changes of the settings
    allowed,    \* history: limits configured since the last sync_limits
    stream,     \* history: the bytes of all frames, written or not
    marks,      \* history: where each frame begins in stream and the sender's
                \*   position there, and where the next one will
    taken       \* history: bytes read from the wire

sending == <<sendPos, writer, out, sent, stream, marks>>
receiving == <<recvPos, reader, buf, need, returned, taken>>
config == <<settings, global, limit, synced, changes, allowed>>
streamVars == <<codec, prefix, sending, poisoned, wire, receiving, config>>

Unlimited == Base * Base   \* usize::MAX: above every length

-----------------------------------------------------------------------------
(* Length codecs: LittleEndian<u8>, LittleEndian<u16>, BigEndian<u16>, and *)
(* ExtendedLength, whose decoder asks for more bytes.                      *)

LengthCodecs == {"little1", "little2", "big2", "extended"}

PrefixSize(p) == IF p \in {"little2", "big2"} THEN 2 ELSE 1

\* to_le_bytes and from_le_bytes of two bytes
Little(n) == <<n % Base, n \div Base>>
FromLittle(b) == b[1] + Base * b[2]

\* serialize_packet_length; <<>> stands for PacketTooLargeError
SerializePacketLength(p, n) ==
    IF n >= Base * Base \/ (p = "little1" /\ n >= Base)
    THEN <<>>
    ELSE CASE p = "little1"  -> <<n>>
           [] p = "little2"  -> Little(n)
           [] p = "big2"     -> <<n \div Base, n % Base>>
           [] p = "extended" -> <<Base - 1>> \o Little(n)

\* deserialize_packet_length: the length, or how many bytes are missing
DeserializePacketLength(p, b) ==
    IF Len(b) < PrefixSize(p)
    THEN [more |-> PrefixSize(p) - Len(b)]
    ELSE CASE p = "little2" -> [length |-> FromLittle(b)]
           [] p = "big2"    -> [length |-> FromLittle(<<b[2], b[1]>>)]
           [] p = "extended" /\ b = <<Base - 1>> -> [more |-> 2]
           [] p = "extended" /\ Len(b) = 3 -> [length |-> FromLittle(Tail(b))]
           [] OTHER -> [length |-> b[1]]

-----------------------------------------------------------------------------
(* Payload codecs                                                          *)

\* XorPosition::transform, whose position wraps
Transform(pos, data) ==
    [bytes |-> [i \in DOMAIN data |-> XorTable[data[i]][(pos + i - 1) % Base]],
     pos   |-> (pos + Len(data)) % Base]

\* SerializerAdapter::serialize and deserialize: what a codec makes of the
\* bytes, and its position afterwards
Code(pos, data) ==
    IF codec = "Mutable" THEN Transform(pos, data) ELSE [bytes |-> data, pos |-> pos]

\* bitcode, external: the packets whose encoding this is
Decode(bytes) == {p \in Packets : Encoding[p] = bytes}

-----------------------------------------------------------------------------
(* The receiving app: its settings and the start of its tasks              *)

Effective ==
    IF settings # NoLimit THEN settings
    ELSE IF global # NoLimit THEN global ELSE Unlimited

\* A system of the app changes a resource.
Configure ==
    /\ changes < MaxChanges
    /\ changes' = changes + 1
    /\ \/ settings' \in (Limits \cup {NoLimit}) \ {settings} /\ UNCHANGED global
       \/ global' \in (Limits \cup {NoLimit}) \ {global} /\ UNCHANGED settings
    /\ allowed' = allowed \cup {Effective'}
    /\ UNCHANGED <<codec, prefix, sending, poisoned, wire, receiving, limit, synced>>

\* sync_limits, at Startup and at every Update
SyncLimits ==
    /\ limit' = Effective
    /\ synced' = TRUE
    /\ allowed' = {Effective}
    /\ UNCHANGED <<codec, prefix, sending, poisoned, wire, receiving, settings,
                   global, changes>>

\* Mutant of Setup: SETUP is not ordered after SETTINGS.
SetupUnordered ==
    /\ reader = "starting"
    /\ reader' = "prefix"
    /\ need' = PrefixSize(prefix)
    /\ UNCHANGED <<codec, prefix, sending, poisoned, wire, recvPos, buf, returned,
                   taken, config>>

\* configure_settings: the set SETUP, which starts the tasks, is after SETTINGS.
Setup ==
    /\ synced
    /\ reader = "starting"
    /\ reader' = "prefix"
    /\ need' = PrefixSize(prefix)
    /\ UNCHANGED <<codec, prefix, sending, poisoned, wire, recvPos, buf, returned,
                   taken, config>>

-----------------------------------------------------------------------------
(* FramedWriter::send, called by send_packets                              *)

\* The payload, then its length.  An error of either ends the task, which
\* has written nothing; the codec's position has moved.
Send(p) ==
    LET payload == Code(sendPos, Encoding[p])
        length == SerializePacketLength(prefix, Len(payload.bytes))
    IN  /\ writer = "idle"
        /\ Len(sent) < MaxPackets
        /\ sent' = Append(sent, p)
        /\ sendPos' = payload.pos
        /\ IF length = <<>>
           THEN writer' = "ended" /\ UNCHANGED <<out, stream, marks>>
           ELSE /\ writer' = "writing"
                /\ out' = length \o payload.bytes
                /\ stream' = stream \o out'
                /\ marks' = Append(marks, [at |-> Len(stream'), pos |-> payload.pos])
        /\ UNCHANGED <<codec, prefix, poisoned, wire, receiving, config>>

\* write_all
WriteByte ==
    /\ writer = "writing"
    /\ wire' = Append(wire, Head(out))
    /\ out' = Tail(out)
    /\ writer' = IF out' = <<>> THEN "idle" ELSE "writing"
    /\ UNCHANGED <<codec, prefix, poisoned, sendPos, sent, stream, marks, receiving,
                   config>>

\* The write half is dropped: cancellation, an error of the socket, or a
\* codec that panics or was poisoned.
WriterEnds ==
    /\ writer # "ended"
    /\ writer' = "ended"
    /\ out' = <<>>
    /\ UNCHANGED <<codec, prefix, poisoned, wire, sendPos, sent, stream, marks,
                   receiving, config>>

-----------------------------------------------------------------------------
(* FramedReader::receive_with_timestamp, called by receive_packets         *)

\* read_exact
ReadByte ==
    /\ reader \in {"prefix", "payload"}
    /\ need > 0
    /\ wire # <<>>
    /\ buf' = Append(buf, Head(wire))
    /\ wire' = Tail(wire)
    /\ need' = need - 1
    /\ taken' = taken + 1
    /\ UNCHANGED <<codec, prefix, poisoned, sending, recvPos, reader, returned, config>>

\* Mutant of ReadMore: the buffer does not keep the bytes that were read.
ReadMoreOnly(k) ==
    /\ need' = k
    /\ buf' = <<>>
    /\ UNCHANGED reader

ReadMore(k) ==
    /\ need' = k
    /\ UNCHANGED <<reader, buf>>

\* read_length, and the limit before the payload is allocated
ReadLength ==
    LET decoded == DeserializePacketLength(prefix, buf)
    IN  /\ reader = "prefix"
        /\ need = 0
        /\ IF "more" \in DOMAIN decoded
           THEN ReadMore(decoded.more)
           ELSE /\ IF decoded.length > limit
                   THEN reader' = "ended" /\ need' = 0
                   ELSE reader' = "payload" /\ need' = decoded.length
                /\ buf' = <<>>
        /\ UNCHANGED <<codec, prefix, poisoned, sending, wire, recvPos, returned,
                       taken, config>>

\* deserialize, which panics if the codec's mutex is poisoned
Deserialize ==
    LET payload == Code(recvPos, buf)
        decoded == Decode(payload.bytes)
        panics == poisoned /\ codec = "Mutable"
    IN  /\ reader = "payload"
        /\ need = 0
        /\ recvPos' = IF panics THEN recvPos ELSE payload.pos
        /\ buf' = <<>>
        /\ IF panics \/ decoded = {}
           THEN reader' = "ended" /\ UNCHANGED <<need, returned>>
           ELSE /\ reader' = "prefix"
                /\ need' = PrefixSize(prefix)
                /\ \E p \in decoded : returned' = Append(returned, p)
        /\ UNCHANGED <<codec, prefix, poisoned, sending, wire, taken, config>>

\* An error of the socket, the end of the stream, or the end of the
\* connection, which drops the future wherever it waits
ReaderEnds ==
    /\ reader \in {"prefix", "payload"}
    /\ reader' = "ended"
    /\ buf' = <<>>
    /\ need' = 0
    /\ UNCHANGED <<codec, prefix, poisoned, sending, wire, recvPos, returned, taken,
                   config>>

\* The codec panics in the receiver's own writer task: what it had begun to
\* change stays as it is.
CodecPanics ==
    /\ codec = "Mutable"
    /\ ~poisoned
    /\ poisoned' = TRUE
    /\ recvPos' \in Byte
    /\ UNCHANGED <<codec, prefix, sending, wire, reader, buf, need, returned, taken,
                   config>>

-----------------------------------------------------------------------------
StreamTypeOK ==
    /\ codec \in {"ReadOnly", "Mutable"} /\ prefix \in LengthCodecs
    /\ sendPos \in Byte /\ recvPos \in Byte /\ poisoned \in BOOLEAN
    /\ writer \in {"idle", "writing", "ended"}
    /\ out \in Seq(Byte) /\ wire \in Seq(Byte)
    /\ reader \in {"starting", "prefix", "payload", "ended"}
    /\ buf \in Seq(Byte) /\ need \in Nat
    /\ sent \in Seq(Packets) /\ returned \in Seq(Packets)
    /\ settings \in Limits \cup {NoLimit} /\ global \in Limits \cup {NoLimit}
    /\ limit \in Limits \cup {Unlimited} /\ synced \in BOOLEAN
    /\ changes \in 0..MaxChanges
    /\ allowed \subseteq Limits \cup {Unlimited}
    /\ stream \in Seq(Byte) /\ marks \in Seq([at: Nat, pos: Byte]) /\ taken \in Nat

StreamInit ==
    /\ codec \in {"ReadOnly", "Mutable"}
    /\ prefix \in LengthCodecs
    /\ sendPos = 0 /\ recvPos = 0 /\ poisoned = FALSE
    /\ writer = "idle" /\ out = <<>> /\ wire = <<>>
    /\ reader = "starting" /\ buf = <<>> /\ need = 0
    /\ sent = <<>> /\ returned = <<>>
    /\ settings \in Limits \cup {NoLimit}
    /\ global \in Limits \cup {NoLimit}
    /\ limit = Unlimited
    /\ synced = FALSE
    /\ changes = 0
    /\ allowed = {Effective}
    /\ stream = <<>> /\ marks = <<[at |-> 0, pos |-> 0]>> /\ taken = 0

StreamNext ==
    \/ Configure \/ SyncLimits \/ Setup
    \/ \E p \in Packets : Send(p)
    \/ WriteByte \/ WriterEnds
    \/ ReadByte \/ ReadLength \/ Deserialize \/ ReaderEnds \/ CodecPanics

StreamSpec == StreamInit /\ [][StreamNext]_streamVars

-----------------------------------------------------------------------------
(* Properties                                                              *)

\* The packets that FramedReader::receive returned are those that were given
\* to FramedWriter::send, in order and with none missing before the last:
\* whatever the length codec, wherever a task stopped inside a frame, and
\* although a stateful codec on both sides has to have seen the same bytes.
ReceivedIsPrefix ==
    /\ Len(returned) <= Len(sent)
    /\ \A i \in DOMAIN returned : returned[i] = sent[i]

\* No payload is allocated that every limit configured since the last
\* sync_limits forbids: the endpoint's own setting comes before MaxPacketSize,
\* a change is in force from the next Update, and no receive task starts
\* before the first limit was set.
NoAllocationPastLimit ==
    [][reader = "prefix" /\ reader' = "payload" => \E l \in allowed : need' <= l]_streamVars

=============================================================================
