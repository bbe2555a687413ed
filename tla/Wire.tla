-------------------------------- MODULE Wire --------------------------------
(***************************************************************************)
(* The framing of kaigi-wire: a frame travels as a big-endian length and   *)
(* its norito payload, in a byte stream that may be cut anywhere.          *)
(*                                                                         *)
(* The real header has 4 digits of base 256 and MAX_FRAME_LEN is 2 MiB;    *)
(* here both are parameters.  norito itself is external: Payload gives the *)
(* bytes of every frame, and bytes that are nobody's payload do not        *)
(* decode.                                                                 *)
(***************************************************************************)
EXTENDS Integers, Sequences, SequencesExt

CONSTANTS
    Base,            \* the number of values of a byte
    HeaderLen,       \* the bytes of the length field
    MAX_FRAME_LEN,   \* the longest payload
    Payload          \* the payload of every frame, by norito

Byte == 0 .. Base - 1

\* What a digit of the length counts, k places from the last.
Weight[k \in 0 .. HeaderLen] == IF k = 0 THEN 1 ELSE Base * Weight[k - 1]

\* The frames that encode_framed accepts can be told apart by their payload,
\* are not empty, and the header holds their length, and lengths above the
\* limit.
ASSUME WireAssumption ==
    /\ Base \in Nat \ {0, 1} /\ HeaderLen \in Nat \ {0}
    /\ MAX_FRAME_LEN \in 1 .. Weight[HeaderLen] - 2
    /\ \A f \in DOMAIN Payload :
           /\ Payload[f] \in Seq(Byte) /\ Payload[f] # <<>>
           /\ \A g \in DOMAIN Payload : Payload[f] = Payload[g] => f = g

\* u32::to_be_bytes and u32::from_be_bytes
to_be_bytes(n) ==
    [i \in 1 .. HeaderLen |-> (n \div Weight[HeaderLen - i]) % Base]
from_be_bytes(bytes) == FoldLeft(LAMBDA n, b : n * Base + b, 0, bytes)

\* encode_framed: frames too large for the protocol are not encoded.
Encodable(f) == Len(Payload[f]) <= MAX_FRAME_LEN
encode_framed(f) == to_be_bytes(Len(Payload[f])) \o Payload[f]

\* What FrameDecoder::try_next makes of its buffer: the outcome, the frame if
\* there is one, and the buffer it leaves.
Zero == <<"zero-length", 0>>
Nothing(buf) == [outcome |-> "none", frame |-> Zero, rest |-> buf]
Failure(buf) == [outcome |-> "error", frame |-> Zero, rest |-> buf]
Decoded(f, buf) == [outcome |-> "frame", frame |-> f, rest |-> buf]

Complete(buf, len) == Len(buf) >= HeaderLen + len

Drained_NoHeader(buf, n) == SubSeq(buf, n - HeaderLen + 1, Len(buf))
Drained(buf, n) == SubSeq(buf, n + 1, Len(buf))

decode_payload(payload, rest) ==
    IF \E f \in DOMAIN Payload : Payload[f] = payload
    THEN Decoded(CHOOSE f \in DOMAIN Payload : Payload[f] = payload, rest)
    ELSE Failure(rest)

try_next(buf) ==
    IF Len(buf) < HeaderLen THEN Nothing(buf)
    ELSE LET len == from_be_bytes(SubSeq(buf, 1, HeaderLen)) IN
         CASE len = 0 -> Decoded(Zero, Drained(buf, HeaderLen))
           [] len > MAX_FRAME_LEN -> Failure(buf)
           [] len \in 1 .. MAX_FRAME_LEN /\ ~Complete(buf, len) -> Nothing(buf)
           [] OTHER -> decode_payload(
                          SubSeq(buf, HeaderLen + 1, HeaderLen + len),
                          Drained(buf, HeaderLen + len))
=============================================================================
