-------------------------------- MODULE Seek --------------------------------
(***************************************************************************)
(* --seek and --start (ld-decode-cli/src/main.rs): where the decode of a   *)
(* disc begins.  A seek scans fields for a frame number, homes in on the   *)
(* one wanted, and puts the decoder and the reader there; the decode then  *)
(* looks at the codes of every field (Decoder::scan_field,                 *)
(* update_frame_number and the lead-out test of decode in decode/mod.rs).  *)
(*                                                                         *)
(* A disc is a sequence of fields: where each starts, its parity, whether  *)
(* it can be decoded and the codes on it.  The decoder, wherever it is,    *)
(* meets the first field that starts there or behind, and goes on to the   *)
(* start of the next.  The window is what is between base and read_pos.    *)
(***************************************************************************)
EXTENDS SampleStream, BlockGeometry, PhilipsCodes

CONSTANTS
    Discs,        \* fields of the captures, by number, from 0
    FieldLen,     \* bytes_per_field
    BlockCut,     \* spec.blockcut
    RewindBand,   \* decode_rewind
    CapBlocks,    \* 130
    ScanFields,   \* 10: fields a scan decodes
    Tries,        \* 3: scans of a seek
    Targets,      \* --seek
    Frames,       \* --start
    Skips         \* how far an invalid field moves the decoder

ASSUME SeekAssumption ==
    /\ FieldLen \in Nat \ {0}
    /\ {BlockCut, RewindBand, CapBlocks} \subseteq Nat
    /\ {ScanFields, Tries} \subseteq Nat \ {0}
    /\ Targets \subseteq Nat /\ Frames \subseteq Nat
    /\ Skips \subseteq Nat \ {0}

\* The fields of a capture lie one behind the other, with the codes of three
\* lines each.
ASSUME DiscsAssumption ==
    \A d \in Discs :
        /\ DOMAIN d \subseteq Nat
        /\ \A k \in DOMAIN d :
              /\ 0 .. k \subseteq DOMAIN d
              /\ {d[k].start, d[k].next} \subseteq Nat
              /\ d[k].start < d[k].next
              /\ \A j \in 0 .. k - 1 : d[j].next <= d[k].start
              /\ {d[k].valid, d[k].first} \subseteq BOOLEAN
              /\ d[k].codes \in [1 .. 3 -> Code \union {NoCode}]

\* They are about bytes_per_field apart, which is much longer than a block.
ASSUME SpacingAssumption ==
    \A d \in Discs : \A k \in DOMAIN d :
        k > 0 => 2 * (d[k].start - d[k - 1].start)
                     >= FieldLen + BlockLen + BlockSize + BlockCut

VARIABLES
    disc,                 \* the capture
    position,             \* fdoffset
    scan_prev_linecode,   \* the codes of the last valid field of the scan
    firstfield_linecode,  \* the codes of the last first field of the decode
    frame_number,         \* of the last frame of the decode
    is_clv,
    lead_out,
    entry,                \* the last entry of fieldinfo: its field and parity
    slots,                \* the parities of which lastvalidfield has a field
    base, read_pos,       \* the window
    need_end,             \* how far it has to reach
    final_chunk,          \* nothing comes behind it
    target,               \* the frame wanted
    startfield,           \* the field the scan began with
    fields_seen,          \* how many fields it has decoded
    retry,                \* scans that found another frame
    pc,                   \* "scan", "failed", "decode", "done", "crashed"
    paired                \* history: the valid fields since the last jump, but for
                          \* those the decode skips

discVars == <<disc, target>>
codeVars == <<scan_prev_linecode, firstfield_linecode, frame_number, is_clv, lead_out>>
entryVars == <<entry, slots>>
windowVars == <<base, read_pos, need_end, final_chunk>>
scanVars == <<startfield, fields_seen, retry>>
vars == <<streamVars, discVars, position, codeVars, entryVars, windowVars, scanVars, pc,
          paired>>

None == NoCode
NoEntry == [field |-> -1, first |-> FALSE]
Sub(m, n) == IF m < n THEN 0 ELSE m - n
Grid(s) == (s \div BlockSize) * BlockSize

\* read_start_for.
ReadStart(p) == Grid(Sub(p, BlockCut + 2 * BlockSize))

MaxKeep == RewindBand + ReadLen + CapBlocks * BlockSize
Chunk == ReadLen + 4 * BlockSize

\* rough_seek and field_index.
PositionOf(field) == field * FieldLen
FieldIndex == position \div FieldLen

\* The first field that starts at p or behind.
FieldAt(p) ==
    LET later == {k \in DOMAIN disc : disc[k].start >= p}
    IN  CHOOSE k \in later : \A j \in later : k <= j
AnyField(p) == \E k \in DOMAIN disc : disc[k].start >= p

\* main: both count in frames.
StartField(frame) == 2 * frame

Init ==
    /\ StreamInit
    /\ disc \in Discs
    /\ target \in Targets
    /\ \E frame \in Frames \union {target} :
          startfield = IF frame = 0 THEN StartField(target) ELSE StartField(frame)
    /\ position = PositionOf(startfield)
    /\ scan_prev_linecode = None /\ firstfield_linecode = None
    /\ frame_number = NoNumber
    /\ is_clv = FALSE /\ lead_out = FALSE
    /\ entry = NoEntry
    /\ slots = {}
    /\ fields_seen = 0 /\ retry = 0
    /\ base = 0 /\ read_pos = 0 /\ need_end = 0 /\ final_chunk = FALSE
    /\ pc = "jump"
    /\ paired = << >>

-----------------------------------------------------------------------------
(* The window of a scan.                                                   *)

\* The frames any two fields make, read once.
Triples == UNION {{d[k].codes : k \in DOMAIN d} : d \in Discs}
Frame == [pair \in Triples \X Triples |-> ReadFrame(pair[1], pair[2])]

\* Mutant: the codes of the field before the jump are kept.
JumpKeepsCodes(field) ==
    /\ position' = PositionOf(field)
    /\ startfield' = field
    /\ base' = ReadStart(position')
    /\ read_pos' = base'
    /\ need_end' = base' + MaxKeep
    /\ final_chunk' = FALSE
    /\ Seek(base') \/ SeekFails(base') \/ SeekDead
    /\ frame_number' = NoNumber
    /\ paired' = << >>
    /\ UNCHANGED scan_prev_linecode

\* The decoder and an empty window at a field, and no code of another place.
Jump(field) ==
    /\ position' = PositionOf(field)
    /\ startfield' = field
    /\ base' = ReadStart(position')
    /\ read_pos' = base'
    /\ need_end' = base' + MaxKeep
    /\ final_chunk' = FALSE
    /\ Seek(base') \/ SeekFails(base') \/ SeekDead
    /\ frame_number' = NoNumber
    /\ scan_prev_linecode' = None
    /\ paired' = << >>

BeginScan ==
    /\ pc = "jump"
    /\ Jump(startfield)
    /\ fields_seen' = 0
    /\ pc' = "scan"
    /\ UNCHANGED <<discVars, firstfield_linecode, is_clv, lead_out, entryVars, retry>>

WantsData == ~final_chunk /\ read_pos < need_end

Refill ==
    /\ pc = "scan"
    /\ WantsData
    /\ Read(Chunk) \/ ReadFails \/ ReadDead
    /\ read_pos' = read_pos + Len(got')
    /\ final_chunk' = (Len(got') < Chunk)
    /\ UNCHANGED <<discVars, position, codeVars, entryVars, base, need_end, scanVars, pc,
                   paired>>

-----------------------------------------------------------------------------
(* Decoder::scan_field.                                                    *)

ReadlocBlock(p) == Sub(p, BlockCut) \div BlockLen
Window == [start |-> base, end |-> read_pos, final |-> final_chunk]

NeedsData == RunsPastWindow(ReadlocBlock(position), Window)
               \/ StartsBeforeWindow(ReadlocBlock(position), Window)
AtEof == ~NeedsData /\ ReachesEof(ReadlocBlock(position), Window)
Whole == \A b \in WindowBlocks(ReadlocBlock(position)) : InWindow(b, Window)

\* What a scan is made of goes through one call of scan_field.
Call == pc = "scan" /\ ~WantsData

\* The place a field is read from, and the field there.
Readloc == BlockBegin(ReadlocBlock(position))
Here == FieldAt(position)
Readable == Call /\ ~NeedsData /\ ~AtEof /\ Whole
Valid == AnyField(position) /\ disc[Here].valid

\* A valid field moves the decoder to its end, another one somewhere on.
Moved ==
    IF Valid THEN position' = disc[Here].next
    ELSE \E skip \in Skips : position' = position + skip

\* The codes of two valid fields, with none between them.
Pair == IF Valid /\ scan_prev_linecode # None
        THEN Frame[<<scan_prev_linecode, disc[Here].codes>>] ELSE Blank

Paired ==
    IF Valid
    THEN /\ scan_prev_linecode' = disc[Here].codes
         /\ paired' = Append(paired, Here)
         /\ lead_out' = (lead_out \/ Pair.leadouts >= 2)
         /\ is_clv' = IF scan_prev_linecode = None THEN is_clv ELSE Pair.is_clv
    ELSE UNCHANGED <<scan_prev_linecode, paired, lead_out, is_clv>>

\* Any field but the last of the ten: the scan goes on behind it.
ScanOn ==
    /\ Readable
    /\ Pair.number = NoNumber
    /\ Moved
    /\ Paired
    /\ fields_seen' = fields_seen + 1
    /\ IF fields_seen' >= ScanFields
       THEN pc' = "failed" /\ UNCHANGED need_end
       ELSE need_end' = position' + MaxKeep /\ UNCHANGED pc
    /\ UNCHANGED <<streamVars, discVars, firstfield_linecode, frame_number, entryVars, base,
                   read_pos, final_chunk, startfield, retry>>

\* Mutant: the decode starts where the scan stands, behind the field.
FoundFieldBehind == disc[Here].next \div FieldLen

\* The place the decode starts at: that of the field, in whole fields.
FoundField == Readloc \div FieldLen

\* seek_samples, and then decode_all takes the source out of its reader for one
\* of its own, which starts sound.
Rewrapped(s) ==
    IF health = "ok" /\ ~Refused(s)
    THEN \/ /\ pos' = Shorter(s, Length)
            /\ UNCHANGED <<health, forward, fault>>
         \/ fault /\ UNCHANGED <<pos, health, forward, fault>>
    ELSE health' = "ok" /\ UNCHANGED <<pos, forward, fault>>

\* The frame is found: the decoder goes back to its field.
Found ==
    /\ Readable
    /\ Pair.number = target
    /\ Paired
    /\ position' = PositionOf(FoundField)
    /\ base' = ReadStart(position')
    /\ read_pos' = base'
    /\ Rewrapped(base')
    /\ got' = << >>
    /\ final_chunk' = FALSE
    /\ pc' = "decode"
    /\ frame_number' = NoNumber
    /\ UNCHANGED <<discVars, firstfield_linecode, entryVars, need_end, scanVars>>

\* Mutant: the start may lie before the file.
HomedUnclamped(number) == startfield + (target - number) * 2 - 1

\* Two fields for a frame, from where the scan began.
Homed(number) ==
    LET field == startfield + (target - number) * 2 - 1
    IN  IF field < 0 THEN 0 ELSE field

\* Another frame: one more scan, or the last one was.
Missed ==
    /\ Readable
    /\ Pair.number \notin {NoNumber, target}
    /\ Moved
    /\ Paired
    /\ retry' = retry + 1
    /\ startfield' = Homed(Pair.number)
    /\ pc' = IF retry' < Tries THEN "jump" ELSE "failed"
    /\ UNCHANGED <<streamVars, discVars, firstfield_linecode, frame_number, entryVars,
                   windowVars, fields_seen>>

\* The window is not where the decoder is, or ends too early.
Stall ==
    /\ Call
    /\ NeedsData
    /\ IF Readloc < base
       THEN /\ base' = ReadStart(Readloc)
            /\ read_pos' = base'
            /\ need_end' = base' + MaxKeep
            /\ final_chunk' = FALSE
            /\ Seek(base') \/ SeekFails(base') \/ SeekDead
       ELSE /\ need_end' = IF Readloc + MaxKeep < read_pos THEN read_pos
                           ELSE Readloc + MaxKeep
            /\ UNCHANGED <<streamVars, base, read_pos, final_chunk>>
    /\ UNCHANGED <<discVars, position, codeVars, entryVars, scanVars, pc, paired>>

\* Mutant: the fallback can be taken again.
FallBackAgain ==
    /\ Call
    /\ AtEof
    /\ Jump(0)
    /\ UNCHANGED <<discVars, firstfield_linecode, is_clv, lead_out, entryVars, fields_seen,
                   retry, pc>>

\* Nothing can be read here: once, at the start of the file, on what is left of
\* the ten fields.
FallBack ==
    /\ Call
    /\ AtEof
    /\ startfield # 0
    /\ Jump(0)
    /\ UNCHANGED <<discVars, firstfield_linecode, is_clv, lead_out, entryVars, fields_seen,
                   retry, pc>>

\* run_seek: no frame number, no seek.
GiveUp ==
    /\ Call
    /\ AtEof
    /\ startfield = 0
    /\ pc' = "failed"
    /\ UNCHANGED <<streamVars, discVars, position, codeVars, entryVars, windowVars, scanVars,
                   paired>>

\* The end-of-input test lets a read pass whose last block is not whole.
Crash ==
    /\ Call
    /\ ~NeedsData /\ ~AtEof /\ ~Whole
    /\ pc' = "crashed"
    /\ UNCHANGED <<streamVars, discVars, position, codeVars, entryVars, windowVars, scanVars,
                   paired>>

-----------------------------------------------------------------------------
(* The decode, one field at a time.                                        *)

\* The field has the parity of the last one written and is not the next one.
Skipped(k) ==
    /\ entry # NoEntry
    /\ entry.first = disc[k].first
    /\ disc[k].start - disc[entry.field].start # FieldLen

\* The codes of a field: a first one leaves them, a second one is read with
\* them.
PairWithFirst(k) ==
    IF disc[k].first \/ firstfield_linecode = None
    THEN /\ frame_number' = NoNumber
         /\ firstfield_linecode' = IF disc[k].first THEN disc[k].codes ELSE None
         /\ UNCHANGED <<is_clv, lead_out>>
    ELSE LET frame == Frame[<<firstfield_linecode, disc[k].codes>>]
         IN  /\ frame_number' = frame.number
             /\ is_clv' = frame.is_clv
             /\ lead_out' = (lead_out \/ frame.leadouts >= 2)
             /\ UNCHANGED firstfield_linecode

\* Mutant: a field that is skipped to counts as well.
UpdateSkippedToo(k) ==
    /\ PairWithFirst(k)
    /\ paired' = IF Skipped(k) THEN paired ELSE Append(paired, k)

\* update_frame_number: but for one that is skipped to.
UpdateFrameNumber(k) ==
    IF Skipped(k)
    THEN UNCHANGED <<firstfield_linecode, frame_number, is_clv, lead_out, paired>>
    ELSE PairWithFirst(k) /\ paired' = Append(paired, k)

\* The entries: none before a first field; a second one in a row of a parity is
\* one of the other, and what is skipped to is written behind the last field of
\* the other parity, if there is one.
Record(k) ==
    IF entry = NoEntry /\ ~disc[k].first
    THEN UNCHANGED entryVars
    ELSE /\ slots' = slots \union {disc[k].first}
         /\ entry' = IF Skipped(k) /\ ~disc[k].first \notin slots THEN entry
                     ELSE [field |-> k,
                           first |-> IF entry # NoEntry /\ ~Skipped(k) THEN ~entry.first
                                     ELSE disc[k].first]

\* A call of decode that ends with a field; the lead-out ends the decode.
DecodeField ==
    /\ pc = "decode"
    /\ AnyField(position)
    /\ Valid
    /\ UpdateFrameNumber(Here)
    /\ Record(Here)
    /\ position' = disc[Here].next
    /\ pc' = IF lead_out' THEN "done" ELSE "decode"
    /\ UNCHANGED <<streamVars, discVars, scan_prev_linecode, windowVars, scanVars>>

DecodeInvalid ==
    /\ pc = "decode"
    /\ AnyField(position)
    /\ ~Valid
    /\ Moved
    /\ UNCHANGED <<streamVars, discVars, codeVars, entryVars, windowVars, scanVars, pc, paired>>

DecodeEnds ==
    /\ pc = "decode"
    /\ ~AnyField(position)
    /\ pc' = "done"
    /\ UNCHANGED <<streamVars, discVars, position, codeVars, entryVars, windowVars, scanVars,
                   paired>>

Failure ==
    /\ pc = "scan"
    /\ ~fault
    /\ Fault
    /\ UNCHANGED <<discVars, position, codeVars, entryVars, windowVars, scanVars, pc, paired>>

SeekStep ==
    \/ BeginScan \/ Refill \/ ScanOn \/ Found \/ Missed \/ Stall \/ FallBack \/ GiveUp \/ Crash

DecodeStep == DecodeField \/ DecodeInvalid \/ DecodeEnds

Next == SeekStep \/ DecodeStep \/ Failure

Spec == Init /\ [][Next]_vars

\* One thread runs the seek and never waits for another.
FairSpec == Spec /\ WF_vars(SeekStep)

-----------------------------------------------------------------------------
(* What a seek promises the user, and the frame numbers of the decode behind it. *)

\* Types of the variables.
TypeOK ==
    /\ disc \in Discs /\ target \in Targets
    /\ {position, base, read_pos, need_end, startfield} \subseteq Nat
    /\ {scan_prev_linecode, firstfield_linecode} \subseteq Seq(Code \union {NoCode})
    /\ frame_number \in Nat \union {NoNumber}
    /\ {is_clv, lead_out, final_chunk} \subseteq BOOLEAN
    /\ entry.field \in DOMAIN disc \union {NoEntry.field}
    /\ entry.first \in BOOLEAN
    /\ slots \subseteq BOOLEAN
    /\ fields_seen \in 0 .. ScanFields
    /\ retry \in 0 .. Tries
    /\ pc \in {"jump", "scan", "failed", "decode", "done", "crashed"}
    /\ paired \in Seq(DOMAIN disc)
    /\ pos \in Nat /\ got \in Seq(Nat) /\ health \in {"ok", "dead"}

\* Field k could be passed over by a step from one behind `from` that is not valid:
\* where there is no sync pulse at all, before the first field is written, the
\* decoder goes on a whole second.
SteppedOver(from, k) ==
    \E j \in from + 1 .. k - 1 :
        /\ ~disc[j].valid
        /\ \E skip \in Skips : disc[k].start < disc[j].start + skip

\* scan_field: the number is "computed from the previous valid field of this
\* scan, never from state left by an earlier scan".  What ends a scan with a
\* number are two valid fields met since the last jump, and a third valid field
\* between them has only been passed over by a step from one that is not.
HitIsOfThisScan ==
    [][(Found \/ Missed) =>
           /\ Len(paired') >= 2
           /\ LET second == paired'[Len(paired')]
                  first == paired'[Len(paired') - 1]
              IN  /\ second > first /\ disc[first].valid /\ disc[second].valid
                  /\ \A k \in first + 1 .. second - 1 :
                        disc[k].valid => SteppedOver(first, k)
                  /\ ReadFrame(disc[first].codes, disc[second].codes).number # NoNumber]_vars

\* Where a seek that succeeds puts the decode: the field it meets first is the
\* one that completed the number or one of the two in front of it, never one
\* behind.  That is less than the doc of run_seek says, "at the start of the
\* target frame" (main.rs:885): a number completed by the second field may have
\* the decode meet that field first, which is then dropped (mod.rs:1144), and the
\* target frame with it.
LandsByHit ==
    [][(Found /\ AnyField(position')) =>
           LET met == CHOOSE k \in DOMAIN disc :
                          /\ disc[k].start >= position'
                          /\ \A j \in 0 .. k - 1 : disc[j].start < position'
           IN  met \in Here - 2 .. Here]_vars

\* The number of a decoded frame is read from its second field and from the
\* last first field in front of it, both of them fields that count: not the
\* ones an early return of buildmetadata leaves out.
NumberIsOfItsPair ==
    (pc = "decode" /\ frame_number # NoNumber) =>
        LET firsts == {i \in 1 .. Len(paired) : disc[paired[i]].first}
        IN  /\ ~disc[paired[Len(paired)]].first
            /\ firsts # {}
            /\ LET i == CHOOSE i \in firsts : \A j \in firsts : j <= i
               IN  frame_number = ReadFrame(disc[paired[i]].codes,
                                            disc[paired[Len(paired)]].codes).number

\* A seek ends: it homes in or gives up, on discs without a code, with codes
\* that lead in circles and on ones that cannot be read.
SeekEnds == <>(pc \in {"failed", "decode", "crashed"})

\* The options of the program, at stdin: "--start/--seek can only skip forward
\* there".  The decode reads the input where it says it does.
DecodeReadsFromBase == (pc = "decode" /\ ~fault) => pos = Shorter(base, Length)
=============================================================================
