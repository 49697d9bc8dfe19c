---------------------------- MODULE FieldDriver ----------------------------
(***************************************************************************)
(* Decoder::decode: the loop that takes a field off the input, decides     *)
(* whether it has to be decoded once more with a better MTF level or RF    *)
(* levels, and writes what comes out.                                      *)
(*                                                                         *)
(* Positions on the disc are counted in fields.  Which fields are there,   *)
(* which of them are valid, of which parity and how far the next one is    *)
(* away, is up to the disc and may differ between two passes over the same *)
(* position.  What the luma metrics measure on a field is a small number;  *)
(* the MTF level is a function of the last few of them.                    *)
(***************************************************************************)
EXTENDS Naturals, Sequences

CONSTANTS
    Ratios,         \* black_to_white_rf_ratio of a field
    NoRatio,        \* a field without white or black to measure
    Keeps,          \* how many ratios are kept: 900 on CLV, else 30
    MtfLevel(_),    \* the level for a sequence of ratios
    InitialLevel,   \* 1.0
    NearLevels,     \* pairs of levels less than 0.05 apart
    Offsets,        \* from a field to the next one
    End             \* bound: length of the capture in fields

ASSUME DriverAssumption ==
    /\ Keeps # {} /\ Keeps \subseteq Nat \ {0}
    /\ Offsets \subseteq Nat \ {0}
    /\ End \in Nat

VARIABLES
    fdoffset,        \* position of the next field
    prevfield,       \* the previous field, if it was valid
    bw_ratios,       \* the ratios the MTF level is made of
    mtf_level,       \* the current level
    mtf_hist,        \* the levels after the last two passes, oldest first
    redo,            \* the next pass is a redo, and so is the last
    field,           \* the field the loop ended with, not yet written
    fieldinfo,       \* the entries of the fields written
    lastvalidfield,  \* the last field of either parity
    last_written,    \* a count of written fields and the field that came then
    demodulated      \* the level the last pass demodulated at

loopVars == <<fdoffset, bw_ratios, mtf_level, mtf_hist, redo, demodulated>>
vars == <<loopVars, prevfield, field, fieldinfo, lastvalidfield, last_written>>

None == [pos |-> End]
NoCount == <<0, End>>
Slots == {0, 1}     \* usize::from(is_first_field)
Slot(first) == IF first THEN 1 ELSE 0

Init ==
    /\ fdoffset = 0
    /\ prevfield = None
    /\ bw_ratios = << >>
    /\ mtf_level = InitialLevel
    /\ mtf_hist = <<InitialLevel, InitialLevel>>
    /\ redo = FALSE
    /\ field = None
    /\ fieldinfo = << >>
    /\ lastvalidfield = [idx \in Slots |-> None]
    /\ last_written = NoCount
    /\ demodulated = InitialLevel

-----------------------------------------------------------------------------
(* One pass of the loop.                                                   *)

\* A field is demodulated at the level of two passes ago; a redo at the
\* current one.
PassLevel == IF redo THEN mtf_level ELSE mtf_hist[1]

\* Mutant: the redo records its ratio as well.
RecordedTwice(ratio, keep) ==
    LET all == Append(bw_ratios, ratio)
    IN  IF ratio = NoRatio THEN bw_ratios
        ELSE IF Len(all) > keep THEN SubSeq(all, Len(all) - keep + 1, Len(all))
        ELSE all

\* The ratio of a field is recorded once, whether it is redone or not.
Recorded(ratio, keep) ==
    LET all == Append(bw_ratios, ratio)
    IN  IF redo \/ ratio = NoRatio THEN bw_ratios
        ELSE IF Len(all) > keep THEN SubSeq(all, Len(all) - keep + 1, Len(all))
        ELSE all

\* check_mtf: the new level, and whether the old one was good enough.
Checked(ratios) == IF ratios = << >> THEN mtf_level ELSE MtfLevel(ratios)
Good(ratios) == ratios = << >> \/ <<mtf_level, Checked(ratios)>> \in NearLevels

\* The level after the pass enters the history; a redo resets it.
AdvanceHistory == mtf_hist' = IF redo THEN <<mtf_level', mtf_level'>>
                                      ELSE <<mtf_hist[2], mtf_level'>>

\* An AGC correction asks for a redo as well as the MTF check does.  A redo at
\* position 0 is taken for no redo, and a redo is not redone.
WantsRedo(ratios, agc) ==
    /\ ~redo
    /\ fdoffset # 0
    /\ agc \/ ~Good(ratios)

\* Mutant: the hint stays.
InvalidPassKeepsHint(offset) ==
    /\ field = None
    /\ fdoffset < End
    /\ demodulated' = PassLevel
    /\ fdoffset' = fdoffset + offset
    /\ redo' = FALSE
    /\ UNCHANGED <<bw_ratios, mtf_level, field, fieldinfo, lastvalidfield, last_written, prevfield>>
    /\ AdvanceHistory

\* No valid field at the position: the loop goes on behind it, or ends if this
\* was a redo, with nothing to write.
InvalidPass(offset) ==
    /\ field = None
    /\ fdoffset < End
    /\ demodulated' = PassLevel
    /\ fdoffset' = fdoffset + offset
    /\ prevfield' = None
    /\ redo' = FALSE
    /\ UNCHANGED <<bw_ratios, mtf_level, field, fieldinfo, lastvalidfield, last_written>>
    /\ AdvanceHistory

\* Mutant: the driver goes back without noting that the next pass is a redo.
ValidPassForgetsRedo(first, offset, ratio, keep, agc) ==
    LET ratios == Recorded(ratio, keep)
    IN  /\ field = None
        /\ fdoffset < End
        /\ agc => first
        /\ demodulated' = PassLevel
        /\ bw_ratios' = ratios
        /\ mtf_level' = Checked(ratios)
        /\ redo' = FALSE
        /\ fdoffset' = IF WantsRedo(ratios, agc) THEN fdoffset ELSE fdoffset + offset
        /\ field' = IF WantsRedo(ratios, agc) THEN None
                    ELSE [pos |-> fdoffset, first |-> first, next |-> fdoffset + offset]
        /\ AdvanceHistory
        /\ UNCHANGED <<prevfield, fieldinfo, lastvalidfield, last_written>>

\* A valid field: the driver goes back to it, or is done with it.  AGC looks
\* at first fields only.
ValidPass(first, offset, ratio, keep, agc) ==
    LET ratios == Recorded(ratio, keep)
    IN  /\ field = None
        /\ fdoffset < End
        /\ agc => first
        /\ demodulated' = PassLevel
        /\ bw_ratios' = ratios
        /\ mtf_level' = Checked(ratios)
        /\ redo' = WantsRedo(ratios, agc)
        /\ fdoffset' = IF redo' THEN fdoffset ELSE fdoffset + offset
        /\ field' = IF redo' THEN None
                    ELSE [pos |-> fdoffset, first |-> first, next |-> fdoffset + offset]
        /\ AdvanceHistory
        /\ UNCHANGED <<prevfield, fieldinfo, lastvalidfield, last_written>>

\* Behind the last field; the driver may be asked again and again.
Eof ==
    /\ field = None
    /\ fdoffset >= End
    /\ demodulated' = PassLevel
    /\ prevfield' = None
    /\ UNCHANGED <<fdoffset, bw_ratios, mtf_level, redo, field, fieldinfo,
                   lastvalidfield, last_written>>
    /\ AdvanceHistory

-----------------------------------------------------------------------------
(* After the loop: the field is described and written.                     *)

LastEntry == fieldinfo[Len(fieldinfo)]

\* The field has the parity of the last one written, although it is the next
\* one (its parity was misjudged), or because fields are missing.
SameParity == fieldinfo # << >> /\ LastEntry.first = field.first
Misjudged == SameParity /\ field.pos - LastEntry.pos = 1
Skipped == SameParity /\ field.pos - LastEntry.pos # 1

\* Nothing is written yet, and the field is a second field.
TooEarly == fieldinfo = << >> /\ ~field.first

\* buildmetadata: what the field's entry says.  counts stands for the sample
\* counts, by the field they were taken from.
Entry ==
    [pos    |-> field.pos,
     first  |-> IF Misjudged THEN ~field.first ELSE field.first,
     seq_no |-> Len(fieldinfo) + 1,
     counts |-> field.pos]

\* writeout: the entry is recorded, and the latest one with its number, if it
\* was written before, gets its counts.
Writeout(entries, wf) ==
    LET same == {i \in 1 .. Len(entries) : entries[i].seq_no = wf.seq_no}
    IN  Append([i \in 1 .. Len(entries) |->
                    IF i \in same /\ \A j \in same : j <= i
                    THEN [entries[i] EXCEPT !.counts = wf.counts]
                    ELSE entries[i]],
               wf)

Done ==
    /\ field # None
    /\ prevfield' = field
    /\ field' = None
    /\ UNCHANGED loopVars

\* The first field written has to be a first field.
DropSecond ==
    /\ Done
    /\ TooEarly
    /\ UNCHANGED <<fieldinfo, lastvalidfield, last_written>>

Keep ==
    /\ Done
    /\ ~TooEarly
    /\ lastvalidfield' = [lastvalidfield EXCEPT ![Slot(field.first)] = Entry]

Write ==
    /\ Keep
    /\ ~Skipped
    /\ fieldinfo' = Writeout(fieldinfo, Entry)
    /\ last_written' = <<Len(fieldinfo), field.pos>>

\* Mutant: a backfill moves the audio clock.
BackfillCounts ==
    LET other == lastvalidfield[1 - Slot(field.first)]
    IN  /\ Keep
        /\ Skipped
        /\ fieldinfo' = IF other = None THEN fieldinfo
                        ELSE Writeout(Writeout(fieldinfo, other), Entry)
        /\ last_written' = <<Len(fieldinfo), field.pos>>

\* Fields are missing: the last one of the other parity is written again
\* before this one, if there is one; if not, this one is not written either.
Backfill ==
    LET other == lastvalidfield[1 - Slot(field.first)]
    IN  /\ Keep
        /\ Skipped
        /\ fieldinfo' = IF other = None THEN fieldinfo
                        ELSE Writeout(Writeout(fieldinfo, other), Entry)
        /\ UNCHANGED last_written

Next ==
    \/ \E offset \in Offsets : InvalidPass(offset)
    \/ \E first, agc \in BOOLEAN, offset \in Offsets, keep \in Keeps,
          ratio \in Ratios \union {NoRatio} :
           ValidPass(first, offset, ratio, keep, agc)
    \/ Eof
    \/ DropSecond
    \/ Write
    \/ Backfill

Spec == Init /\ [][Next]_vars

\* decode_all calls decode() again until the input has ended.
FairSpec == Spec /\ WF_vars(Next)

-----------------------------------------------------------------------------
(* What the field loop promises.                                           *)

Positions == Nat
SomeFields == [pos : Positions, first : BOOLEAN, next : Positions]
SomeEntries == [pos : Positions, first : BOOLEAN, seq_no : Positions, counts : Positions]

\* Types: positions are field numbers, no more ratios are kept than the
\* longest history allows, the MTF history has two levels.
TypeOK ==
    /\ fdoffset \in Nat
    /\ prevfield \in SomeFields \union {None}
    /\ bw_ratios \in Seq(Ratios)
    /\ \E keep \in Keeps : Len(bw_ratios) <= keep
    /\ Len(mtf_hist) = 2
    /\ redo \in BOOLEAN
    /\ field \in SomeFields \union {None}
    /\ fieldinfo \in Seq(SomeEntries)
    /\ lastvalidfield \in [Slots -> SomeEntries \union {None}]
    /\ last_written \in Nat \X Nat

\* Whenever a field is decoded with a previous-field hint, the hint is the
\* field directly before it: valid, its end the field's start; neither an
\* invalid field nor a redo nor a dropped or unwritten field leaves an older
\* hint behind.
PrevfieldIsPredecessor ==
    prevfield # None =>
        prevfield.next = IF field = None THEN fdoffset ELSE field.pos

\* The audio clock counts from a field that is in the output at that count:
\* backfilled fields, skipped ones and redone ones do not move it.
LastWrittenIsItsEntry ==
    last_written # NoCount =>
        /\ last_written[1] < Len(fieldinfo)
        /\ fieldinfo[last_written[1] + 1].pos = last_written[2]

\* Every pass demodulates at the level at which the reference, which launches
\* the thread for the next field before it checks the current one, would have.
Pipeline == INSTANCE PipelinedDriver WITH level <- mtf_level, thread <- mtf_hist[1]

ImplementsPipeline == Pipeline!PipelineSpec

\* The input is decoded to its end: no field is redone for ever.
ReachesEnd == <>(fdoffset >= End /\ field = None)
=============================================================================
