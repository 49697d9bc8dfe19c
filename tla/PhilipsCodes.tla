---------------------------- MODULE PhilipsCodes ----------------------------
(***************************************************************************)
(* The Philips codes of the vertical blanking interval, and what a pair of *)
(* fields says about the frame they make (decode_frame_number in           *)
(* decode/mod.rs).                                                         *)
(*                                                                         *)
(* A code is 24 bits on a line, here the six hexadecimal digits of it, the *)
(* leftmost first, so that a mask is a condition on digits; a line without *)
(* one has NoCode.  A field has the codes of three lines, in their order.  *)
(***************************************************************************)
EXTENDS Integers, Sequences

CONSTANT FramesPerSecond     \* clvfps: 25 on PAL, 30 on NTSC

ASSUME FpsAssumption == FramesPerSecond \in Nat \ {0}

NoCode == << >>
Code == [1 .. 6 -> 0 .. 15]
NoNumber == -1

LeadOut == <<8, 0, 14, 14, 14, 14>>
LeadIn == <<8, 8, 15, 15, 15, 15>>

\* l & 0xF0DD00 == 0xF0DD00: hours in the second digit, minutes in the last two.
IsTime(l) == l[1] = 15 /\ {l[3], l[4]} \subseteq {13, 15}

\* l & 0xF00000 == 0xF00000: a frame number in the other digits.
IsPicture(l) == l[1] = 15

\* l & 0x80F000 == 0x80E000: seconds in the second and the fourth digit, the
\* number of the frame in that second in the last two.
IsSecond(l) == l[1] >= 8 /\ l[3] = 14

\* decode_bcd: an error where a digit is none.
IsBcd(digits) == \A i \in DOMAIN digits : digits[i] <= 9
Bcd(digits) ==
    LET value[n \in 0 .. Len(digits)] == IF n = 0 THEN 0 ELSE 10 * value[n - 1] + digits[n]
    IN  value[Len(digits)]

\* The tens of the seconds count from 0xA.
IsSecondCode(l) == IsSecond(l) /\ IsBcd(<<l[4], l[5], l[6]>>) /\ l[2] >= 10
IsTimeCode(l) == IsTime(l) /\ IsBcd(<<l[2], l[5], l[6]>>)

\* Of a frame number the highest digit keeps three bits.
PictureDigits(l) == <<l[2] % 8, l[3], l[4], l[5], l[6]>>
IsPictureCode(l) == IsPicture(l) /\ ~IsTime(l) /\ IsBcd(PictureDigits(l))

\* What has been read before the first code.
Blank == [number |-> NoNumber, leadouts |-> 0, lead_in |-> FALSE, is_clv |-> FALSE,
          early_clv |-> FALSE, minutes |-> NoNumber, seconds |-> NoNumber, frame |-> 0]

\* One code; the tests are made in this order.
Seen(s, l) ==
    CASE l = LeadOut      -> [s EXCEPT !.leadouts = @ + 1]
      [] l = LeadIn       -> [s EXCEPT !.lead_in = TRUE]
      [] IsTimeCode(l)    -> [s EXCEPT !.minutes = Bcd(<<l[5], l[6]>>) + 60 * l[2],
                                       !.is_clv = TRUE]
      [] IsPictureCode(l) -> [s EXCEPT !.number = Bcd(PictureDigits(l)), !.is_clv = FALSE]
      [] l \notin {LeadOut, LeadIn} /\ l[1] # 15 /\ IsSecondCode(l)
                          -> [s EXCEPT !.seconds = l[4] + 10 * (l[2] - 10),
                                       !.frame = Bcd(<<l[5], l[6]>>), !.is_clv = TRUE]
      [] OTHER            -> s

\* As soon as the minutes are known the frame has its number; without seconds
\* it is that of an early CLV disc.
Numbered(s) ==
    IF s.number # NoNumber \/ s.minutes = NoNumber THEN s
    ELSE IF s.seconds # NoNumber
    THEN [s EXCEPT !.number = (s.minutes * 60 + s.seconds) * FramesPerSecond + s.frame]
    ELSE [s EXCEPT !.number = s.minutes * 60, !.early_clv = TRUE]

\* decode_frame_number: the codes of both fields, up to the one that gives the
\* number.
ReadFrame(f1, f2) ==
    LET codes == f1 \o f2
        after[n \in 0 .. Len(codes)] ==
            IF n = 0 THEN Blank
            ELSE LET before == after[n - 1]
                 IN  IF before.number # NoNumber \/ codes[n] = NoCode THEN before
                     ELSE Numbered(Seen(before, codes[n]))
    IN  after[Len(codes)]
=============================================================================
