--------------------------- MODULE SunSpecHandlers ---------------------------
(***************************************************************************)
(* The register loops of the SunSpec read handler (function 3) and write   *)
(* handler (function 16) of handlers.go, byte for byte, over the codec of  *)
(* Register.  FieldDevice models when these handlers run and what they     *)
(* lock; this module models what they compute for one request against one *)
(* state of the memory.  The memory holds internal tags, outside a freeze: *)
(* an analog value (units of 10^-Decimals) or a binary status per tag.     *)
(*                                                                         *)
(* The checked state is a master's request, the memory it meets and the    *)
(* build's float-to-integer conversion; none of them changes.              *)
(***************************************************************************)
EXTENDS Register

CONSTANTS
    Registers,   \* register address -> tag, the SunSpec map
    Types,       \* tag -> SunSpec type
    Scalings,    \* register address -> scaling factor s
    Memories,    \* the memory states to try: [analog, binary]
    Requests     \* [fn, start, count, payload] as the master sends them

ASSUME /\ DOMAIN Scalings = DOMAIN Registers
       /\ \A t \in DOMAIN Types : Types[t] \in IntegerTypes
       /\ \A i \in DOMAIN Registers : Scalings[i] + Decimals >= 0

VARIABLES mem, req, build

vars == <<mem, req, build>>

Builds == {"amd64", "arm64"}

\* GetAnalogValueForTag, with GetBinaryStatusForTag as the fallback.
Readable(m, tag) == tag \in DOMAIN m.analog \cup DOMAIN m.binary
ReadValue(m, tag) ==
    IF tag \in DOMAIN m.analog THEN m.analog[tag]
    ELSE IF m.binary[tag] THEN Pow10(Decimals) ELSE 0

\* The loop of readHandler from register i to end: the response is the
\* byte(size) count and the encoded registers.  A type of Length 0 never
\* advances i, and the handler never returns.
RECURSIVE ReadLoop(_, _, _, _, _)
ReadLoop(m, i, end, size, data) ==
    IF i >= end THEN [exc |-> "Success", resp |-> <<size % 256>> \o data]
    ELSE IF i \notin DOMAIN Registers THEN [exc |-> "IllegalDataAddress", resp |-> <<>>]
    ELSE LET tag  == Registers[i]
             type == Types[tag]
         IN  IF ~Readable(m, tag) THEN [exc |-> "SlaveDeviceFailure", resp |-> <<>>]
             ELSE IF Length(type) = 0 THEN [exc |-> "NoReturn", resp |-> <<>>]
             ELSE ReadLoop(m, i + Length(type), end, size + Length(type) * 2,
                           data \o Bytes(type, ReadValue(m, tag), Scalings[i], build))

ReadResponse(m, start, count) == ReadLoop(m, start, start + count, 0, <<>>)

\* mbserver reads each TCP request into a fresh 512-byte packet and frames
\* data = packet[8:], so data has capacity 504; the payload starts at
\* data[5] (b := 5).  A slice data[b:e] within the capacity reads the
\* packet's zeros past the end of the frame; past it, it panics.
PayloadCapacity == 512 - 8 - 5

\* The payload as data[5:e] sees it: padded with the packet's zeros.
Padded(payload, e) ==
    IF e <= Len(payload) THEN payload
    ELSE payload \o [k \in 1..e - Len(payload) |-> 0]

\* The loop of writeHandler from register i to end, b bytes into the
\* payload; used is how far into the payload the loop read.
\* UpdateAnalogTag fails for a binary tag, and UpdateBinaryTag(value != 0)
\* is tried instead.
RECURSIVE WriteLoop(_, _, _, _, _)
WriteLoop(m, i, end, b, payload) ==
    IF i >= end THEN [exc |-> "Success", mem |-> m, used |-> b]
    ELSE IF i \notin DOMAIN Registers THEN [exc |-> "IllegalDataAddress", mem |-> m, used |-> b]
    ELSE LET tag  == Registers[i]
             type == Types[tag]
             e    == b + Length(type) * 2
             v    == Value(type, SubSeq(Padded(payload, e), b + 1, e), Scalings[i])
         IN  IF e > PayloadCapacity THEN [exc |-> "Panic", mem |-> m, used |-> b]
             ELSE IF v.err THEN [exc |-> "SlaveDeviceFailure", mem |-> m, used |-> b]
             ELSE IF tag \in DOMAIN m.analog
                  THEN WriteLoop([m EXCEPT !.analog[tag] = v.val],
                                 i + Length(type), end, e, payload)
             ELSE IF tag \in DOMAIN m.binary
                  THEN WriteLoop([m EXCEPT !.binary[tag] = (v.val # 0)],
                                 i + Length(type), end, e, payload)
             ELSE [exc |-> "SlaveDeviceFailure", mem |-> m, used |-> b]

WriteRequest(m, start, count, payload) ==
    WriteLoop(m, start, start + count, 0, payload)

Init == mem \in Memories /\ req \in Requests /\ build \in Builds

Next == UNCHANGED vars

Spec == Init /\ [][Next]_vars

-----------------------------------------------------------------------------
(* Properties.                                                             *)

\* The value range of a register's Go integer type, as far as TLC's
\* integers reach, from the SunSpec type table.
TypeRange(type) ==
    CASE Length(type) = 1 /\ SignedType(type) -> -32768..32767
      [] Length(type) = 1 -> 0..65535
      [] SignedType(type) -> -2147483647..2147483647
      [] OTHER -> 0..2147483647

\* A stored value that a register's scaling and type represent exactly.
Representable(x, i) ==
    LET k == IF ScaledType(Types[Registers[i]]) THEN Scalings[i] ELSE 0
        q == Pow10(k + Decimals)
    IN  x % q = 0 /\ x \div q \in TypeRange(Types[Registers[i]])

\* Spec 6, round trip: reading a mapped register range and writing the
\* bytes read back to the same registers (readHandler then writeHandler)
\* succeeds and leaves the range reading the same bytes, whatever the
\* values and whatever the build does with an out-of-range conversion.
ReadWriteRoundTrip ==
    LET r == ReadResponse(mem, req.start, req.count)
        w == WriteRequest(mem, req.start, (Len(r.resp) - 1) \div 2, Tail(r.resp))
    IN  req.fn = "read" /\ r.exc = "Success" =>
            /\ w.exc = "Success"
            /\ ReadResponse(w.mem, req.start, req.count) = r

\* Spec 6, codec: when every stored value is representable in its
\* register, writing back what readHandler returned restores the memory
\* (decode(encode(v * 10^s, s), s) = v * 10^s, sign and scaling included).
WriteBackRestoresStore ==
    LET r == ReadResponse(mem, req.start, req.count)
        w == WriteRequest(mem, req.start, (Len(r.resp) - 1) \div 2, Tail(r.resp))
        exact == \A i \in DOMAIN Registers :
                    Registers[i] \in DOMAIN mem.analog =>
                        Representable(mem.analog[Registers[i]], i)
    IN  req.fn = "read" /\ r.exc = "Success" /\ exact => w.mem = mem

\* Spec 4.4: the read response is the byte count of the payload followed
\* by the payload (readHandler's size and data).
ByteCountMatches ==
    LET r == ReadResponse(mem, req.start, req.count)
    IN  req.fn = "read" /\ r.exc = "Success" => r.resp[1] = Len(r.resp) - 1

\* A well-formed write request, two payload bytes per register counted,
\* is taken from its own bytes: when writeHandler succeeds it has decoded
\* exactly the payload the master sent, no byte past the frame.
WriteStaysInFrame ==
    LET w == WriteRequest(mem, req.start, req.count, req.payload)
    IN  req.fn = "write" /\ Len(req.payload) = 2 * req.count =>
            (w.exc = "Success" => w.used = Len(req.payload))

=============================================================================
