------------------------------ MODULE MCNiddProbe ------------------------------
(***************************************************************************)
(* Instances of NiddProbe for TLC.  Numbers are binary with at most two    *)
(* digits, and the largest is 2: 3 overflows as 2^32 does in ten digits.   *)
(***************************************************************************)
EXTENDS NiddProbe

CONSTANTS OtherType, Filler

MCFromPlatform == {FRAME_SHADOW, FRAME_STATUS, OtherType}

MCByte == Digit \cup {Space, Newline, Filler} \cup MCFromPlatform

Numbers == {<<>>, <<0>>, <<1>>, <<1, 0>>, <<1, 1>>, <<1, 0, 0>>}

\* A header that is whole or lacks a part, with and without what comes after it.
Bodies ==
    { a \o b \o c \o d \o e :
        a \in Numbers, b \in {<<>>, <<Space>>}, c \in Numbers, d \in {<<>>, <<Newline>>},
        e \in {<<>>, <<0>>} }
    \cup { <<0, Newline, 1, Space>>, <<0, Space, Space, 1, Newline>>, <<Space>>, <<Newline>> }

\* A tag that would go on with a number, or end it; and frames too short to have one.
MCFrames ==
    { <<t>> \o b \o <<tag>> :
        t \in {FRAME_SHADOW, FRAME_STATUS}, b \in Bodies, tag \in {1, Newline} }
    \cup { <<t>> \o <<0, Space, 1, Newline>> \o <<1>> : t \in {OtherType, Filler} }
    \cup { <<>>, <<FRAME_SHADOW>> }
===============================================================================
