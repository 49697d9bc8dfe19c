----------------------------- MODULE FieldSync ------------------------------
(***************************************************************************)
(* Field after field down a tape: Field::process, the next field's place   *)
(* (finish_field and decode in ld-decode/src/decode/mod.rs), what a field  *)
(* hands on to the next (PrevField), and the parity it is listed under     *)
(* (buildmetadata).                                                        *)
(*                                                                         *)
(* A tape is the sync pulses on it, in ticks.  A field is looked for in    *)
(* the blocks from its position on; the position of the next is counted    *)
(* from the first of them if none was found, and from its own if one was.  *)
(***************************************************************************)
EXTENDS FieldLines, BlockGeometry

CONSTANTS
    Tapes,      \* by what has become of them: records, see TapeOK
    BlockCut,   \* spec.blockcut
    SkipLines,  \* 200: lines skipped where no field is found
    Second      \* spec.freq_hz: ticks skipped where there is no signal at its start

\* pulses; fields: where they were recorded, and cut: the player has skipped (of
\* neither of which the code knows); level: of the recording, see LevelsFit; dark: its
\* picture is at the level of the blanking; hits: pulses lost or wrong; length: ticks.
TapeOK(t) ==
    /\ t.sys \in Systems
    /\ t.pulses \in Seq([start : Nat, kind : {"h", "e", "v", "x"}])
    /\ t.fields \in Seq([at : Nat, first : BOOLEAN])
    /\ t.level \in {"set", "off", "lost"}
    /\ {t.dark, t.cut} \subseteq BOOLEAN
    /\ {t.hits, t.length} \subseteq Nat

ASSUME SyncAssumption ==
    /\ {BlockCut, SkipLines, Second} \subseteq Nat \ {0}
    /\ \A t \in DOMAIN Tapes : TapeOK(Tapes[t])

VARIABLES
    tape,            \* which of Tapes
    levels,          \* how the levels were set: "default", "signal" (from this tape's),
                     \* "off", "lost" (from a window without a signal)
    position,        \* fdoffset
    prevfield,       \* the previous field, if it was valid
    field,           \* history: the field just decoded
    fieldinfo,       \* the entries of the fields written
    lastvalidfield,  \* the last entry by parity
    done             \* the end of the tape is reached

vars == <<sys, tape, levels, position, prevfield, field, fieldinfo, lastvalidfield, done>>

NoPrev == [known |-> FALSE, at |-> 0, first |-> FALSE, conf |-> 0, begin |-> 0,
           settled |-> FALSE]
NoField == [valid |-> FALSE, from |-> 0, at |-> 0, first |-> FALSE, skip |-> FALSE,
            lines |-> << >>]
NoEntry == [first |-> FALSE, own |-> FALSE, at |-> -1, loc |-> 0, conf |-> 0]

(***************************************************************************)
(* The window of the field at position.                                    *)
(***************************************************************************)
Readloc == IF position < BlockCut THEN 0 ELSE position - BlockCut
ReadBlock == Readloc \div BlockLen
Begin == BlockBegin(ReadBlock)
End == BlockEnd(ReadBlock) * BlockSize

WindowPulses ==
    LET inside(p) == Begin < p.start /\ p.start < End
        shown == SelectSeq(Tapes[tape].pulses, inside)
    IN  [k \in DOMAIN shown |-> [shown[k] EXCEPT !.start = @ - Begin]]

\* Python's thread is one field behind with this count, and so is the port.
Written == IF Len(fieldinfo) = 0 THEN 0 ELSE Len(fieldinfo) - 1

\* Pulses cross the threshold; the sync level is the one expected.
LevelsCross(by) == by = "signal" \/ (by # "lost" /\ Tapes[tape].level # "lost")
LevelsFit(by) == by = "signal" \/ (by = "default" /\ Tapes[tape].level = "set")

\* getpulses on the first field: where nothing crosses the threshold, the levels are
\* set anew, to what is there.
Recalibrated(raw) ==
    IF (raw = << >> \/ ~LevelsCross(levels)) /\ Written = 0
    THEN IF raw = << >> THEN {"off", "lost"} ELSE {"signal"}
    ELSE {levels}

\* Everything compute_linelocs finds out about the window, with these levels.
Scan(raw, by) ==
    LET hint == [prevfield EXCEPT !.at = @ - (Begin - prevfield.begin), !.first = ~@]
        lines(pulses, valid, mean, start, count) ==
            [levels |-> by, pulses |-> pulses, mean |-> mean, line0 |-> start.line0,
             next |-> start.next, count |-> count,
             found |-> FoundLines(valid, start.line0.at, start.next, count, mean)]
        field0(pulses, valid, mean, start) ==
            lines(pulses, valid, mean, start, sys.field_lines[start.line0.first])
        line0(pulses, valid, mean) == field0(pulses, valid, mean, Line0(valid, mean, hint))
        refined(pulses, valid) == line0(pulses, valid, LineLength(valid))
        timed(pulses) == refined(pulses, RefinePulses(pulses))
    IN  timed(IF LevelsCross(by) THEN GetPulses(raw, LevelsFit(by)) ELSE << >>)

(***************************************************************************)
(* A window without a field.                                               *)
(***************************************************************************)
Invalid(s, skip) ==
    /\ position' = position + skip
    /\ prevfield' = NoPrev
    /\ field' = [NoField EXCEPT !.from = position]
    /\ levels' = s.levels
    /\ UNCHANGED <<sys, tape, fieldinfo, lastvalidfield, done>>

NoPulses(s) ==
    /\ s.pulses = << >>
    /\ Invalid(s, IF Written > 0 THEN SkipLines * LineLen ELSE Second)

NoStart(s) ==
    /\ s.pulses # << >>
    /\ ~s.line0.known
    /\ Invalid(s, SkipLines * LineLen)

\* The pulses end before the lines do.
EndsEarly(s) == s.pulses[Len(s.pulses)].start - s.line0.at < ProcLines * s.mean

\* Mutant: back to twenty lines ahead of line 0, wherever that is.
TooShortUnbounded(s) ==
    /\ s.pulses # << >> /\ s.line0.known
    /\ EndsEarly(s)
    /\ Invalid(s, s.line0.at - 20 * s.mean)

TooShort(s) ==
    /\ s.pulses # << >> /\ s.line0.known
    /\ EndsEarly(s)
    /\ LET skip == s.line0.at - 20 * s.mean
       IN  Invalid(s, IF skip <= 0 THEN SkipLines * LineLen ELSE skip)

NoLines(s) ==
    /\ s.pulses # << >> /\ s.line0.known
    /\ ~EndsEarly(s)
    /\ NoFirstLine(s.found, s.mean)
    /\ Invalid(s, s.line0.at + OutLines * LineLen)

(***************************************************************************)
(* A field.                                                                *)
(***************************************************************************)
\* process: the lines, after hsync refinement and with the bad ones put between the
\* good.
Lines(s) ==
    LET filled == FilledLines(s.found, s.mean)
        missing == {l \in DOMAIN s.found \ {0} : s.found[l] < 0}
        bad == DerivError(filled, missing) \cup Unrefined
    IN  FixBadLines(filled, DerivError(filled, bad))

NextField(s) ==
    IF s.next.known THEN s.next.at - 8 * LineLen
                    ELSE FilledLines(s.found, s.mean)[OutLines - 7]

LineOffset(first) == IF ~sys.pal THEN 0 ELSE IF first THEN 2 ELSE 3

\* skip_check, of the eight lines behind the field: two of them vsync, or one and the
\* others for the most part at the level of the blanking.
SkipCheck(s, lines) ==
    LET behind == OutLines + LineOffset(s.line0.first) .. OutLines + LineOffset(s.line0.first) + 7
        shows(l, kind) == Cardinality({k \in DOMAIN s.pulses :
            /\ s.pulses[k].kind = kind
            /\ Between(s.pulses[k].start, lines[l] - 2, lines[l] + LineLen - 3)})
        vsync == {l \in behind : shows(l, "v") >= 2}
        blank == {l \in behind \ vsync : Tapes[tape].dark \/ shows(l, "e") + shows(l, "v") > 0}
    IN  \/ Cardinality(vsync) >= 2
        \/ Cardinality(vsync) = 1 /\ 2 * Cardinality(blank) > 7

\* compute_syncconf has its say once the field is listed.
Conf(s, lines) ==
    IF Uneven(lines, LineOffset(s.line0.first), s.count) THEN Least(s.line0.conf, 45)
                                                         ELSE s.line0.conf

\* buildmetadata: the entry of a field of the parity of the one before it is either of
\* the other parity, if it is a field's length behind, or that of a field behind a
\* gap, which is filled with the last of the other parity, if there is one.
DiskLoc(begin) == Rounded(20 * begin, (sys.field_lines[TRUE] + sys.field_lines[FALSE]) * LineLen)

Listed(s, lines) ==
    LET first == s.line0.first
        entry == [first |-> first, own |-> first, at |-> Begin + s.line0.at,
                  loc |-> DiskLoc(Begin), conf |-> Conf(s, lines)]
        last == fieldinfo[Len(fieldinfo)]
        repeated == fieldinfo # << >> /\ last.first = first
        flipped == repeated /\ entry.loc - last.loc = 10
        written == IF flipped THEN [entry EXCEPT !.first = ~first, !.conf = 10]
                   ELSE IF repeated THEN [entry EXCEPT !.conf = 0] ELSE entry
        other == lastvalidfield[~first]
    IN  /\ lastvalidfield' = [lastvalidfield EXCEPT ![first] = written]
        /\ fieldinfo' = IF ~repeated \/ flipped THEN Append(fieldinfo, written)
                        ELSE IF other = NoEntry THEN fieldinfo
                        ELSE fieldinfo \o <<other, written>>

\* What the next field gets to know of this one.
HandOn(s, lines, conf) ==
    prevfield' = [known |-> TRUE, at |-> lines[s.count], first |-> s.line0.first,
                  conf |-> conf, begin |-> Begin, settled |-> SkipCheck(s, lines)]

Found(s) ==
    /\ s.pulses # << >> /\ s.line0.known
    /\ ~EndsEarly(s) /\ ~NoFirstLine(s.found, s.mean)
    /\ \E lines \in {Lines(s)} :
           /\ field' = [valid |-> TRUE, from |-> position, at |-> Begin + s.line0.at,
                        first |-> s.line0.first, lines |-> lines,
                        skip |-> SkipDetected(s.line0.at, s.next, s.count)]
           /\ IF fieldinfo = << >> /\ ~s.line0.first
              THEN /\ HandOn(s, lines, s.line0.conf)
                   /\ UNCHANGED <<fieldinfo, lastvalidfield>>
              ELSE /\ HandOn(s, lines, Conf(s, lines))
                   /\ Listed(s, lines)
    /\ position' = position + NextField(s) - (Readloc - Begin)
    /\ levels' = s.levels
    /\ UNCHANGED <<sys, tape, done>>

Ends ==
    /\ ~done
    /\ End > Tapes[tape].length
    /\ done' = TRUE
    /\ UNCHANGED <<sys, tape, levels, position, prevfield, field, fieldinfo, lastvalidfield>>

Init ==
    /\ tape \in DOMAIN Tapes
    /\ sys = Tapes[tape].sys
    /\ levels = "default"
    /\ position = 0
    /\ prevfield = NoPrev
    /\ field = NoField
    /\ fieldinfo = << >>
    /\ lastvalidfield = [first \in BOOLEAN |-> NoEntry]
    /\ done = FALSE

DecodeField(raw, by) ==
    \E s \in {Scan(raw, by)} :
        NoPulses(s) \/ NoStart(s) \/ TooShort(s) \/ NoLines(s) \/ Found(s)

Decode ==
    /\ ~done
    /\ End <= Tapes[tape].length
    /\ \E raw \in {WindowPulses} : \E by \in Recalibrated(raw) : DecodeField(raw, by)

Next == Ends \/ Decode

Spec == Init /\ [][Next]_vars

-----------------------------------------------------------------------------
(* What finding the fields of a tape promises.                             *)

\* The state is of the types the code gives it; an entry is of the parity of its own
\* field or, flipped, of the other.
TypeOK ==
    /\ sys = Tapes[tape].sys
    /\ position \in Nat
    /\ levels \in {"default", "signal", "off", "lost"}
    /\ prevfield.at \in Int /\ prevfield.conf \in 0 .. 100
    /\ prevfield.known => prevfield.begin <= position
    /\ field.valid => DOMAIN field.lines = 0 .. ProcLines - 1
    /\ \A i \in DOMAIN fieldinfo : fieldinfo[i].conf \in 0 .. 100 /\ fieldinfo[i].at \in Int
    /\ \A first \in BOOLEAN : lastvalidfield[first] = NoEntry
                              \/ lastvalidfield[first].own = first
    /\ done \in BOOLEAN

OnTape(e) == \E k \in DOMAIN Tapes[tape].fields :
    Tapes[tape].fields[k].at = e.at /\ Tapes[tape].fields[k].first = e.first

\* To the end of the tape: but for the last, which has no blanking behind it.
ReachesEnd ==
    LET n == Len(Tapes[tape].fields)
    IN  done /\ n >= 3 =>
            /\ fieldinfo # << >>
            /\ fieldinfo[Len(fieldinfo)].at >= Tapes[tape].fields[n - 1].at

\* Dropouts misplace no field, and few lose one.  The fields written are fields of
\* the tape, of their parity and at their place, in order and to the end.  None is
\* missing between two of them if no more than three pulses in a row are lost, or one
\* misread or made up, anywhere in a vertical blanking (process_vblank, the votes of
\* get_line0), and two at most if all of a blanking is, which is then looked for in
\* the next one.
NoFieldLost ==
    ~Tapes[tape].cut =>
        /\ \A i \in DOMAIN fieldinfo : OnTape(fieldinfo[i])
        /\ \A i \in 1 .. Len(fieldinfo) - 1 :
               \E n \in 1 .. IF Tapes[tape].hits <= 3 THEN 1 ELSE 3 :
                   \E k \in 1 .. Len(Tapes[tape].fields) - n :
                       /\ Tapes[tape].fields[k].at = fieldinfo[i].at
                       /\ Tapes[tape].fields[k + n].at = fieldinfo[i + 1].at
        /\ ReachesEnd

\* Where the player skips, the fields are out of step with what the previous one
\* says, which may win the vote: it does for two fields at most, then the decode has
\* found the fields again, and has them to the end.
Relocks ==
    /\ ReachesEnd
    /\ \A i \in 1 .. Len(fieldinfo) - 2 : \E k \in i .. i + 2 :
           OnTape([at |-> fieldinfo[k].at, first |-> fieldinfo[k].own])

\* Every line of a field, found, filled in or put between its neighbours, starts
\* behind the one before it, unless a skip has shortened the field (compute_linelocs,
\* fix_badlines): the picture is resampled along them.
LinesAscend ==
    field.valid /\ ~field.skip =>
        \A l \in 0 .. ProcLines - 2 : field.lines[l] < field.lines[l + 1]

\* Whatever is found in a window, the next is looked for behind its start: the decode
\* never goes back, where it would loop forever (compute_linelocs, decode).
Advances == [][done' \/ position' > position]_vars
=============================================================================
