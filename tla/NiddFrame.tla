------------------------------- MODULE NiddFrame -------------------------------
(***************************************************************************)
(* How nidd_probe reads a frame from the platform: a type byte, two        *)
(* decimal numbers with a space between them and a newline after, for a    *)
(* SHADOW a configuration, and the tag.  Bytes are digits, the two ends of *)
(* a number, and types; the tag is as many bytes of any kind.              *)
(*                                                                         *)
(* The base, the digits, the largest number and the length of a tag are    *)
(* parameters, so that the edges of the real ones (10, 10, 2^32 - 1, 16)   *)
(* can be met on frames of a few bytes.                                    *)
(***************************************************************************)
EXTENDS Integers, Sequences

CONSTANTS
    Base, HEADER_DIGITS_MAX, UINT32_MAX, TAG_CHARS,
    Space, Newline,               \* what ends the first number, and the second
    FRAME_SHADOW, FRAME_STATUS,
    FromPlatform                  \* the type bytes with FRAME_FROM_PLATFORM set

Digit == 0..(Base - 1)

ASSUME FrameAssumption ==
    /\ Base \in Nat \ {0} /\ HEADER_DIGITS_MAX \in Nat /\ UINT32_MAX \in Nat /\ TAG_CHARS \in Nat
    /\ Space \notin Digit /\ Newline \notin Digit
    /\ {FRAME_SHADOW, FRAME_STATUS} \subseteq FromPlatform /\ FRAME_SHADOW # FRAME_STATUS

\* How many digits stand at a position, of the len bytes there and the most a number has.
Digits(frame, at, len) ==
    CHOOSE i \in 0..HEADER_DIGITS_MAX :
        /\ i <= len
        /\ \A k \in at..(at + i - 1) : frame[k] \in Digit
        /\ i = len \/ i = HEADER_DIGITS_MAX \/ frame[at + i] \notin Digit

Number(frame, at, digits) ==
    LET number[i \in 0..digits] ==
            IF i = 0 THEN 0 ELSE number[i - 1] * Base + frame[at + i - 1]
    IN  number[digits]

\* Fault: digits that go on to the tag are a number.
header_number_ToTheTag(frame, at, len, end) ==
    LET i == Digits(frame, at, len)
        number == Number(frame, at, i)
    IN  IF i = 0 \/ frame[at + i] # end \/ number > UINT32_MAX
        THEN [used |-> 0, value |-> 0]
        ELSE [used |-> i + 1, value |-> number]

header_number(frame, at, len, end) ==
    LET i == Digits(frame, at, len)
        number == Number(frame, at, i)
    IN  IF i = 0 \/ i = len \/ frame[at + i] # end \/ number > UINT32_MAX
        THEN [used |-> 0, value |-> 0]
        ELSE [used |-> i + 1, value |-> number]

\* What the console says of a frame; the tag is checked by the crypto library.
downlink_log(frame) ==
    LET body == Len(frame) - 1 - TAG_CHARS
        first == header_number(frame, 2, body, Space)
        second == header_number(frame, 2 + first.used, body - first.used, Newline)
        header == IF first.used > 0 /\ second.used > 0 THEN first.used + second.used ELSE 0
    IN  IF Len(frame) < 1 + TAG_CHARS \/ frame[1] \notin FromPlatform
        THEN <<"not a platform frame">>
        ELSE IF header = 0
        THEN <<"no header">>
        ELSE IF frame[1] = FRAME_SHADOW
        THEN <<"SHADOW", first.value, second.value, body - header>>
        ELSE IF frame[1] = FRAME_STATUS /\ header = body
        THEN <<"STATUS", first.value, second.value>>
        ELSE <<"unknown">>

-------------------------------------------------------------------------------
\* What a header is, said without reading it from left to right.

(* The digits a number is printed with: the last is its remainder, and     *)
(* the ones before it are those of the quotient.                           *)
Spells(text, n) ==
    /\ Len(text) \in 1..HEADER_DIGITS_MAX
    /\ \E rest \in [0..Len(text) -> 0..n] :
        /\ rest[0] = 0 /\ rest[Len(text)] = n
        /\ \A k \in 1..Len(text) :
            /\ text[k] = rest[k] % Base
            /\ rest[k - 1] = rest[k] \div Base

\* The first n bytes of a body are the header of x and y.
IsHeader(body, n, x, y) ==
    /\ n <= Len(body)
    /\ \E i \in 1..n :
        /\ Spells(SubSeq(body, 1, i - 1), x) /\ body[i] = Space
        /\ Spells(SubSeq(body, i + 1, n - 1), y) /\ body[n] = Newline

\* The console shows numbers for a frame exactly if it opens with their header.
ReadRight(frame) ==
    LET line == downlink_log(frame)
        body == SubSeq(frame, 2, Len(frame) - TAG_CHARS)
        Has(type) == Len(frame) > TAG_CHARS /\ frame[1] = type
    IN  \A x, y \in 0..UINT32_MAX, n \in 0..Len(frame) :
            /\ line = <<"SHADOW", x, y, Len(body) - n>>
                   <=> Has(FRAME_SHADOW) /\ IsHeader(body, n, x, y)
            /\ line = <<"STATUS", x, y>>
                   <=> Has(FRAME_STATUS) /\ IsHeader(body, Len(body), x, y)
===============================================================================
