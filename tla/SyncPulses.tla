----------------------------- MODULE SyncPulses -----------------------------
(***************************************************************************)
(* From the sync pulses of a read window to those that count: getpulses,   *)
(* get_timings, run_vblank_state_machine and refinepulses of               *)
(* ld-decode/src/decode/field.rs.                                          *)
(*                                                                         *)
(* A raw pulse has a start, in ticks of which LineLen make a line, and a   *)
(* kind, the class its length falls into: "h" (hsync), "e" (equalising),   *)
(* "v" (vsync), "x" (none: a dropout or noise).  The classes are disjoint: *)
(* 4.7, 2.3 and 13.5 to 28 us, half a microsecond to either side.          *)
(***************************************************************************)
EXTENDS Integers, Sequences

CONSTANTS
    LineLen,   \* spec.linelen
    Systems    \* NTSC and PAL, as records: see SystemOK

HSYNC == 0
EQPL1 == 1
VSYNC == 2
EQPL2 == 3

\* pal; num_pulses: of each of the three groups of a vertical blanking;
\* first_field_h: from the last hsync to the first of them, in half lines, on a
\* second and on a first field; field_lines: of a first and of a second field.
SystemOK(s) ==
    /\ s.pal \in BOOLEAN
    /\ s.num_pulses \in Nat \ {0}
    /\ s.first_field_h \in [BOOLEAN -> {1, 2}]
    /\ s.field_lines \in [BOOLEAN -> Nat \ {0}]

ASSUME PulseAssumption ==
    /\ LineLen \in Nat /\ LineLen % 20 = 0 /\ LineLen > 0
    /\ \A s \in Systems : SystemOK(s)

VARIABLE sys    \* spec.sys

HalfLine == LineLen \div 2
Between(x, low, high) == low <= x /\ x <= high
Least(m, n) == IF m < n THEN m ELSE n

\* The kinds of pulses a vertical blanking goes on with, and the state each leads
\* to.  An hsync ends the vsync pulses only once they have had their time.
Follows(state, kind, late) ==
    CASE state = HSYNC -> CASE kind = "h" -> HSYNC [] kind = "e" -> EQPL1
                            [] kind = "v" -> VSYNC [] OTHER -> -1
      [] state = EQPL1 -> CASE kind = "h" -> HSYNC [] kind = "e" -> EQPL1
                            [] kind = "v" -> VSYNC [] OTHER -> -1
      [] state = VSYNC -> CASE kind = "h" -> (IF late THEN HSYNC ELSE -1)
                            [] kind = "e" -> EQPL2 [] kind = "v" -> VSYNC
                            [] OTHER -> -1
      [] state = EQPL2 -> CASE kind = "h" -> HSYNC [] kind = "e" -> EQPL2
                            [] OTHER -> -1
      [] OTHER -> IF kind = "h" THEN HSYNC ELSE -1

\* The transitions that set how long the state they lead to has to last.
Timed(state, next) == <<state, next>> \in {<<HSYNC, EQPL1>>, <<EQPL1, VSYNC>>,
                                           <<VSYNC, EQPL2>>}

\* pulse_qualitycheck: a line behind another hsync, half a line behind another pulse
\* of the blanking, anything from the one to the other at its ends.
QualityCheck(valid, state, start) ==
    /\ valid # << >>
    /\ LET prev == valid[Len(valid)]
           tenths == ((start - prev.start) * 10)
       IN  IF prev.state > 0 /\ state > 0 THEN Between(tenths, 4 * LineLen, 6 * LineLen)
           ELSE IF prev.state = 0 /\ state = 0
                THEN Between(tenths, 9 * LineLen, 11 * LineLen)
                ELSE Between(tenths, 4 * LineLen, 11 * LineLen)

Push(valid, state, p) ==
    Append(valid, [state |-> state, start |-> p.start,
                   good |-> QualityCheck(valid, state, p.start)])

\* run_vblank_state_machine, on raw pulses first .. last: the valid ones, up to the
\* first hsync behind the second equalising pulses (done).  A pulse that would
\* change the state before state_end is passed over; sl says that the next change
\* sets state_end, num_pulses / 2 lines less a tenth from there.
VBlankMachine(raw, first, last) ==
    LET timeout == (sys.num_pulses * LineLen) \div 2 - LineLen \div 10
        run[k \in first - 1 .. last] ==
            IF k < first THEN [valid |-> << >>, done |-> FALSE, state_end |-> 0, sl |-> FALSE]
            ELSE LET m == run[k - 1]
                     p == raw[k]
                     state == IF m.valid = << >> THEN 255 ELSE m.valid[Len(m.valid)].state
                     next == Follows(state, p.kind, p.start > m.state_end)
                     sl == m.sl \/ Timed(state, next)
                     early == next # state /\ p.start < m.state_end
                     set == next # state /\ sl
                 IN  IF m.done \/ next = -1 THEN m
                     ELSE [valid |-> IF early THEN m.valid ELSE Push(m.valid, next, p),
                           done |-> state = EQPL2 /\ next = HSYNC,
                           state_end |-> IF set /\ ~early THEN p.start + timeout
                                                          ELSE m.state_end,
                           sl |-> sl /\ (early \/ ~set)]
    IN  run[last]

\* refinepulses: every hsync, and each vertical blanking the machine gets through,
\* from two pulses before its first, which are hsyncs and on the list already; it
\* looks at 26 pulses.  A run of hsyncs is taken at once.
ValidPulse == [state : HSYNC .. EQPL2, start : Int, good : BOOLEAN]

RefinePulses(raw) ==
    LET runEnd(i) == CHOOSE j \in i .. Len(raw) :
            /\ \A k \in i .. j : raw[k].kind = "h"
            /\ j = Len(raw) \/ raw[j + 1].kind # "h"
        run(i) == [k \in 1 .. runEnd(i) - i |->
                      [state |-> HSYNC, start |-> raw[i + k].start,
                       good |-> Between(10 * (raw[i + k].start - raw[i + k - 1].start),
                                        9 * LineLen, 11 * LineLen)]]
        refine[i \in Nat, valid \in Seq(ValidPulse)] ==
            LET inBlank == /\ i > 3 /\ raw[i].kind = "e" /\ valid # << >>
                           /\ valid[Len(valid)].state = HSYNC
                vblank == VBlankMachine(raw, i - 2, Least(i + 23, Len(raw)))
            IN  IF i > Len(raw) THEN valid
                ELSE IF raw[i].kind = "h"
                THEN refine[runEnd(i) + 1, Push(valid, HSYNC, raw[i]) \o run(i)]
                ELSE IF inBlank /\ vblank.done
                THEN refine[i + Len(vblank.valid) - 2,
                            valid \o SubSeq(vblank.valid, 3, Len(vblank.valid))]
                ELSE refine[i + 1, valid]
    IN  refine[1, << >>]

(***************************************************************************)
(* Levels.  A tape is recorded at the default levels ("set"), so far off   *)
(* that the sync level it shows is not the one expected ("off"), or so far *)
(* that no pulse crosses the threshold ("lost").                           *)
(***************************************************************************)
Indices(raw, kind) == {i \in DOMAIN raw : raw[i].kind = kind}

\* There is an equalising pulse within five of the vsyncs, for the black level.
BlackLevelShown(raw) ==
    LET v == Indices(raw, "v")
        firstV == CHOOSE i \in v : \A j \in v : i <= j
        lastV == CHOOSE i \in v : \A j \in v : j <= i
    IN  \E i \in Indices(raw, "e") : \/ Between(i, firstV - 5, firstV - 1)
                                     \/ Between(i, lastV + 1, lastV + 5)

\* getpulses, on what crosses the threshold: none of the pulses without a vsync
\* among them, nor if the sync level is not the one expected and there is no black
\* level to find a threshold between the two.
GetPulses(raw, expected) ==
    IF Indices(raw, "v") = {} THEN << >>
    ELSE IF expected \/ BlackLevelShown(raw) THEN raw
    ELSE << >>
=============================================================================
