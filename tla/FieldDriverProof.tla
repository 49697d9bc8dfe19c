-------------------------- MODULE FieldDriverProof --------------------------
(***************************************************************************)
(* Proofs about the field loop, for every capture, every way of turning    *)
(* ratios into a level and every tolerance.                                *)
(***************************************************************************)
EXTENDS FieldDriver, TLAPS

\* What ties the loop's state together: the second level of the history is
\* the current one, the current one is that of the ratios recorded, and the
\* field the loop ended with reaches up to the position of the next.
LoopInv ==
    /\ mtf_hist = <<mtf_hist[1], mtf_level>>
    /\ bw_ratios # << >> => mtf_level = MtfLevel(bw_ratios)
    /\ field # None => field.next = fdoffset

IInv == TypeOK /\ LoopInv /\ PrevfieldIsPredecessor /\ LastWrittenIsItsEntry

\* A record of three fields is not the absent field.
LEMMA NotNone ==
  ASSUME NEW p, NEW f, NEW n
  PROVE  [pos |-> p, first |-> f, next |-> n] # None
<1>1. "first" \in DOMAIN [pos |-> p, first |-> f, next |-> n]
  OBVIOUS
<1>2. "first" \notin DOMAIN None
  BY DEF None
<1> QED BY <1>1, <1>2

\* Recording a ratio keeps a sequence of ratios of a bounded length.
LEMMA RecordedType ==
  ASSUME TypeOK, NEW ratio \in Ratios \union {NoRatio}, NEW keep \in Keeps
  PROVE  /\ Recorded(ratio, keep) \in Seq(Ratios)
         /\ \E k \in Keeps : Len(Recorded(ratio, keep)) <= k
<1> DEFINE all == Append(bw_ratios, ratio)
<1>1. CASE redo \/ ratio = NoRatio
  BY <1>1 DEF Recorded, TypeOK
<1>2. CASE ~redo /\ ratio # NoRatio /\ Len(all) > keep
  <2>1. keep \in Nat \ {0} /\ all \in Seq(Ratios)
    BY <1>2, DriverAssumption DEF TypeOK
  <2>2. Recorded(ratio, keep) = SubSeq(all, Len(all) - keep + 1, Len(all))
    BY <1>2 DEF Recorded
  <2>3. /\ SubSeq(all, Len(all) - keep + 1, Len(all)) \in Seq(Ratios)
        /\ Len(SubSeq(all, Len(all) - keep + 1, Len(all))) = keep
    BY <1>2, <2>1
  <2>4. keep <= keep
    BY <2>1
  <2> HIDE DEF all
  <2> QED BY <2>2, <2>3, <2>4
<1>3. CASE ~redo /\ ratio # NoRatio /\ ~(Len(all) > keep)
  <2>1. keep \in Nat /\ all \in Seq(Ratios) /\ Recorded(ratio, keep) = all
    BY <1>3, DriverAssumption DEF TypeOK, Recorded
  <2> QED BY <1>3, <2>1
<1> QED BY <1>1, <1>2, <1>3

\* A redo finds the ratios, and so the level, as its first pass left them.
LEMMA RedoKeepsLevel ==
  ASSUME IInv, redo, NEW ratio, NEW keep
  PROVE  Checked(Recorded(ratio, keep)) = mtf_level
BY DEF IInv, LoopInv, Checked, Recorded

\* The history after a pass.
LEMMA History ==
  ASSUME IInv, AdvanceHistory
  PROVE  /\ Len(mtf_hist') = 2
         /\ mtf_hist'[1] = IF redo THEN mtf_level' ELSE mtf_level
         /\ mtf_hist' = <<mtf_hist'[1], mtf_level'>>
<1>1. mtf_hist[2] = mtf_level
  BY DEF IInv, LoopInv
<1> QED BY <1>1 DEF AdvanceHistory

\* Writeout appends the entry and moves no field.
LEMMA WriteoutKeepsPositions ==
  ASSUME NEW entries \in Seq(SomeEntries), NEW wf \in SomeEntries
  PROVE  /\ Writeout(entries, wf) \in Seq(SomeEntries)
         /\ Len(Writeout(entries, wf)) = Len(entries) + 1
         /\ \A i \in 1 .. Len(entries) : Writeout(entries, wf)[i].pos = entries[i].pos
         /\ Writeout(entries, wf)[Len(entries) + 1] = wf
<1> DEFINE same == {i \in 1 .. Len(entries) : entries[i].seq_no = wf.seq_no}
           e(i) == IF i \in same /\ \A j \in same : j <= i
                   THEN [entries[i] EXCEPT !.counts = wf.counts]
                   ELSE entries[i]
           patched == [i \in 1 .. Len(entries) |-> e(i)]
<1>1. \A i \in 1 .. Len(entries) : entries[i] \in SomeEntries
  OBVIOUS
<1>2. \A i \in 1 .. Len(entries) : e(i) \in SomeEntries /\ e(i).pos = entries[i].pos
  BY <1>1 DEF SomeEntries
<1> HIDE DEF e
<1>3. patched \in Seq(SomeEntries) /\ Len(patched) = Len(entries)
  BY <1>2
<1>4. \A i \in 1 .. Len(entries) : patched[i].pos = entries[i].pos
  BY <1>2
<1>5. Writeout(entries, wf) = Append(patched, wf)
  BY DEF Writeout, e
<1> QED BY <1>3, <1>4, <1>5

\* The driver starts with nothing decoded.
LEMMA InitIInv == Init => IInv
<1> SUFFICES ASSUME Init PROVE IInv
  OBVIOUS
<1>1. \E keep \in Keeps : Len(bw_ratios) <= keep
  <2>1. PICK keep \in Keeps : TRUE
    BY DriverAssumption
  <2>2. keep \in Nat \ {0} /\ bw_ratios = << >>
    BY <2>1, DriverAssumption DEF Init
  <2> QED BY <2>1, <2>2
<1>2. /\ lastvalidfield \in [Slots -> SomeEntries \union {None}]
      /\ last_written \in Nat \X Nat
      /\ Len(mtf_hist) = 2
  BY DriverAssumption DEF Init, NoCount
<1>3. TypeOK
  <2>1. fdoffset \in Nat /\ redo \in BOOLEAN
    BY DEF Init
  <2>3. bw_ratios \in Seq(Ratios)
    BY DEF Init
  <2>4. fieldinfo \in Seq(SomeEntries)
    BY DEF Init
  <2>2. prevfield \in SomeFields \union {None} /\ field \in SomeFields \union {None}
    BY DEF Init
  <2> QED BY <1>1, <1>2, <2>1, <2>2, <2>3, <2>4 DEF TypeOK
<1> QED BY <1>3 DEF Init, IInv, LoopInv, PrevfieldIsPredecessor, LastWrittenIsItsEntry

\* A pass that finds no valid field clears the hint.
LEMMA InvalidPassIInv ==
  ASSUME IInv, NEW offset \in Offsets, InvalidPass(offset)
  PROVE  IInv'
<1>1. /\ field = None /\ fdoffset' = fdoffset + offset /\ prevfield' = None /\ redo' = FALSE
      /\ UNCHANGED <<bw_ratios, mtf_level, field, fieldinfo, lastvalidfield, last_written>>
      /\ AdvanceHistory
  BY DEF InvalidPass
<1>2. TypeOK'
  <2>1. fdoffset' \in Nat
    BY <1>1, DriverAssumption DEF IInv, TypeOK
  <2>3. redo' \in BOOLEAN /\ prevfield' \in SomeFields \union {None}
    BY <1>1
  <2>2. Len(mtf_hist') = 2
    BY <1>1, History
  <2> QED BY <1>1, <2>1, <2>2, <2>3 DEF IInv, TypeOK
<1>3. LoopInv'
  BY <1>1, History DEF IInv, LoopInv
<1>4. PrevfieldIsPredecessor'
  BY <1>1 DEF PrevfieldIsPredecessor
<1>5. LastWrittenIsItsEntry'
  BY <1>1 DEF IInv, LastWrittenIsItsEntry
<1> QED BY <1>2, <1>3, <1>4, <1>5 DEF IInv

\* The end of the input changes the hint and the history alone.
LEMMA EofIInv ==
  ASSUME IInv, Eof
  PROVE  IInv'
<1>1. /\ prevfield' = None /\ AdvanceHistory
      /\ UNCHANGED <<fdoffset, bw_ratios, mtf_level, redo, field, fieldinfo,
                     lastvalidfield, last_written>>
  BY DEF Eof
<1>2. TypeOK'
  BY <1>1, History DEF IInv, TypeOK
<1>3. LoopInv'
  BY <1>1, History DEF IInv, LoopInv
<1>4. PrevfieldIsPredecessor'
  BY <1>1 DEF PrevfieldIsPredecessor
<1>5. LastWrittenIsItsEntry'
  BY <1>1 DEF IInv, LastWrittenIsItsEntry
<1> QED BY <1>2, <1>3, <1>4, <1>5 DEF IInv

\* A pass that finds a valid field leaves the hint in front of it, whether the
\* field is to be redone or the loop is done with it.
LEMMA ValidPassIInv ==
  ASSUME IInv, NEW first \in BOOLEAN, NEW offset \in Offsets,
         NEW ratio \in Ratios \union {NoRatio}, NEW keep \in Keeps, NEW agc,
         ValidPass(first, offset, ratio, keep, agc)
  PROVE  IInv'
<1> DEFINE ratios == Recorded(ratio, keep)
           new == [pos |-> fdoffset, first |-> first, next |-> fdoffset + offset]
<1>1. /\ field = None /\ bw_ratios' = ratios /\ mtf_level' = Checked(ratios)
      /\ redo' = WantsRedo(ratios, agc)
      /\ fdoffset' = (IF redo' THEN fdoffset ELSE fdoffset + offset)
      /\ field' = (IF redo' THEN None ELSE new)
      /\ AdvanceHistory
      /\ UNCHANGED <<prevfield, fieldinfo, lastvalidfield, last_written>>
  BY DEF ValidPass
<1>2. /\ fdoffset \in Nat /\ fdoffset + offset \in Nat
      /\ fdoffset' \in Nat /\ new \in SomeFields /\ new # None
  BY <1>1, DriverAssumption, NotNone DEF IInv, TypeOK, SomeFields, Positions
<1>3. redo' \in BOOLEAN
  BY <1>1 DEF WantsRedo
<1>4. bw_ratios' \in Seq(Ratios) /\ \E k \in Keeps : Len(bw_ratios') <= k
  BY <1>1, RecordedType DEF IInv
<1> HIDE DEF new, ratios
<1>5. TypeOK'
  <2>1. field' \in SomeFields \union {None}
    BY <1>1, <1>2
  <2>2. Len(mtf_hist') = 2
    BY <1>1, History
  <2> QED BY <1>1, <1>2, <1>3, <1>4, <2>1, <2>2 DEF IInv, TypeOK
<1>6. LoopInv'
  <2>1. mtf_hist' = <<mtf_hist'[1], mtf_level'>>
    BY <1>1, History
  <2>2. bw_ratios' # << >> => mtf_level' = MtfLevel(bw_ratios')
    BY <1>1 DEF Checked
  <2>3. field' # None => field'.next = fdoffset'
    BY <1>1 DEF new
  <2> QED BY <2>1, <2>2, <2>3 DEF LoopInv
<1>7. PrevfieldIsPredecessor'
  <2>1. prevfield # None => prevfield.next = fdoffset
    BY <1>1 DEF IInv, PrevfieldIsPredecessor
  <2>2. CASE redo'
    BY <1>1, <2>1, <2>2 DEF PrevfieldIsPredecessor
  <2>3. CASE ~redo'
    <3>1. field' # None /\ field'.pos = fdoffset
      BY <1>1, <1>2, <2>3 DEF new
    <3> QED BY <1>1, <2>1, <3>1 DEF PrevfieldIsPredecessor
  <2> QED BY <2>2, <2>3
<1>8. LastWrittenIsItsEntry'
  BY <1>1 DEF IInv, LastWrittenIsItsEntry
<1> QED BY <1>5, <1>6, <1>7, <1>8 DEF IInv

\* Whatever becomes of the field, it is the hint for the next one.
LEMMA DoneIInv ==
  ASSUME IInv, Done
  PROVE  /\ LoopInv' /\ PrevfieldIsPredecessor'
         /\ UNCHANGED loopVars
         /\ prevfield' \in SomeFields \union {None} /\ field' = None
<1>1. /\ field # None /\ prevfield' = field /\ field' = None
      /\ UNCHANGED <<fdoffset, bw_ratios, mtf_level, mtf_hist, redo, demodulated>>
  BY DEF Done, loopVars
<1>2. LoopInv'
  BY <1>1 DEF IInv, LoopInv
<1>3. PrevfieldIsPredecessor'
  BY <1>1 DEF IInv, LoopInv, PrevfieldIsPredecessor
<1> QED BY <1>1, <1>2, <1>3 DEF IInv, TypeOK, loopVars

\* The entry of the field is an entry.
LEMMA EntryType ==
  ASSUME IInv, field # None
  PROVE  Entry \in SomeEntries /\ Entry.pos = field.pos /\ field.first \in BOOLEAN
<1>1. field \in SomeFields
  BY DEF IInv, TypeOK
<1>2. field.pos \in Nat /\ field.first \in BOOLEAN
  BY <1>1 DEF SomeFields, Positions
<1>3. (IF Misjudged THEN ~field.first ELSE field.first) \in BOOLEAN
  BY <1>2
<1>4. Len(fieldinfo) + 1 \in Nat
  BY DEF IInv, TypeOK
<1> QED BY <1>2, <1>3, <1>4 DEF Entry, SomeEntries, Positions

\* Keeping the field as the last valid one of its parity.
LEMMA KeepType ==
  ASSUME IInv, Keep
  PROVE  lastvalidfield' \in [Slots -> SomeEntries \union {None}]
<1>1. Entry \in SomeEntries /\ Slot(field.first) \in Slots
  BY EntryType DEF Keep, Done, Slot, Slots
<1> QED BY <1>1 DEF Keep, IInv, TypeOK

\* Nothing is written: the entries and the audio clock stay.
LEMMA DropSecondIInv ==
  ASSUME IInv, DropSecond
  PROVE  IInv'
<1>1. Done /\ UNCHANGED <<fieldinfo, lastvalidfield, last_written>>
  BY DEF DropSecond
<1>2. TypeOK'
  BY <1>1, DoneIInv DEF IInv, TypeOK, loopVars
<1>3. LastWrittenIsItsEntry'
  BY <1>1 DEF IInv, LastWrittenIsItsEntry
<1> QED BY <1>1, <1>2, <1>3, DoneIInv DEF IInv

\* A field is written: the clock counts from its entry.
LEMMA WriteIInv ==
  ASSUME IInv, Write
  PROVE  IInv'
<1>1. /\ Keep /\ Done /\ field # None
      /\ fieldinfo' = Writeout(fieldinfo, Entry)
      /\ last_written' = <<Len(fieldinfo), field.pos>>
  BY DEF Write, Keep, Done
<1>2. Entry \in SomeEntries /\ Entry.pos = field.pos /\ field.pos \in Nat
  BY <1>1, EntryType DEF SomeEntries, Positions
<1>3. /\ fieldinfo \in Seq(SomeEntries) /\ fieldinfo' \in Seq(SomeEntries)
      /\ Len(fieldinfo') = Len(fieldinfo) + 1
      /\ fieldinfo'[Len(fieldinfo) + 1] = Entry
  BY <1>1, <1>2, WriteoutKeepsPositions DEF IInv, TypeOK
<1>4. TypeOK'
  <2>1. last_written' \in Nat \X Nat
    BY <1>1, <1>2, <1>3
  <2> QED BY <1>1, <1>3, <2>1, DoneIInv, KeepType DEF IInv, TypeOK, loopVars
<1>5. LastWrittenIsItsEntry'
  <2>1. Len(fieldinfo) \in Nat
    BY <1>3
  <2>2. last_written'[1] = Len(fieldinfo) /\ last_written'[2] = field.pos
    BY <1>1
  <2>3. /\ last_written'[1] < Len(fieldinfo')
        /\ fieldinfo'[last_written'[1] + 1].pos = last_written'[2]
    BY <1>2, <1>3, <2>1, <2>2
  <2> QED BY <2>3 DEF LastWrittenIsItsEntry
<1> QED BY <1>1, <1>4, <1>5, DoneIInv DEF IInv

\* A gap is filled, or not: the clock's entry stays where it is.
LEMMA BackfillIInv ==
  ASSUME IInv, Backfill
  PROVE  IInv'
<1> DEFINE other == lastvalidfield[1 - Slot(field.first)]
           once == Writeout(fieldinfo, other)
<1>1. /\ Keep /\ Done /\ field # None
      /\ fieldinfo' = (IF other = None THEN fieldinfo ELSE Writeout(once, Entry))
      /\ UNCHANGED last_written
  BY DEF Backfill, Keep, Done
<1>2. Entry \in SomeEntries
  BY <1>1, EntryType
<1>3. fieldinfo \in Seq(SomeEntries) /\ other \in SomeEntries \union {None}
  BY DEF IInv, TypeOK, Slot, Slots
<1> HIDE DEF other
<1>4. /\ fieldinfo' \in Seq(SomeEntries)
      /\ Len(fieldinfo) <= Len(fieldinfo')
      /\ \A i \in 1 .. Len(fieldinfo) : fieldinfo'[i].pos = fieldinfo[i].pos
  <2>1. CASE other = None
    <3>1. fieldinfo' = fieldinfo
      BY <1>1, <2>1
    <3> QED BY <1>3, <3>1
  <2>2. CASE other # None
    <3>1. /\ once \in Seq(SomeEntries) /\ Len(once) = Len(fieldinfo) + 1
          /\ \A i \in 1 .. Len(fieldinfo) : once[i].pos = fieldinfo[i].pos
      BY <1>3, <2>2, WriteoutKeepsPositions
    <3> HIDE DEF once
    <3>2. /\ Writeout(once, Entry) \in Seq(SomeEntries)
          /\ Len(Writeout(once, Entry)) = Len(once) + 1
          /\ \A i \in 1 .. Len(once) : Writeout(once, Entry)[i].pos = once[i].pos
      BY <1>2, <3>1, WriteoutKeepsPositions
    <3>3. fieldinfo' = Writeout(once, Entry)
      BY <1>1, <2>2
    <3> QED BY <1>3, <3>1, <3>2, <3>3
  <2> QED BY <2>1, <2>2
<1>5. TypeOK'
  BY <1>1, <1>4, DoneIInv, KeepType DEF IInv, TypeOK, loopVars
<1>6. LastWrittenIsItsEntry'
  <2>1. last_written \in Nat \X Nat
    BY DEF IInv, TypeOK
  <2>2. SUFFICES ASSUME last_written # NoCount
                 PROVE  /\ last_written[1] < Len(fieldinfo')
                        /\ fieldinfo'[last_written[1] + 1].pos = last_written[2]
    BY <1>1, <2>1 DEF LastWrittenIsItsEntry
  <2>3. /\ last_written[1] < Len(fieldinfo)
        /\ fieldinfo[last_written[1] + 1].pos = last_written[2]
    BY <2>2 DEF IInv, LastWrittenIsItsEntry
  <2>4. Len(fieldinfo) \in Nat /\ Len(fieldinfo') \in Nat /\ last_written[1] \in Nat
    BY <1>3, <1>4, <2>1
  <2>5. last_written[1] + 1 \in 1 .. Len(fieldinfo)
    BY <2>3, <2>4
  <2> QED BY <1>4, <2>3, <2>4, <2>5
<1> QED BY <1>1, <1>5, <1>6, DoneIInv DEF IInv

\* Every step of the loop keeps the invariant.
LEMMA NextIInv == IInv /\ [Next]_vars => IInv'
<1> SUFFICES ASSUME IInv, [Next]_vars PROVE IInv'
  OBVIOUS
<1>1. ASSUME NEW offset \in Offsets, InvalidPass(offset) PROVE IInv'
  BY <1>1, InvalidPassIInv
<1>2. ASSUME NEW first \in BOOLEAN, NEW agc \in BOOLEAN, NEW offset \in Offsets,
             NEW keep \in Keeps, NEW ratio \in Ratios \union {NoRatio},
             ValidPass(first, offset, ratio, keep, agc)
      PROVE  IInv'
  BY <1>2, ValidPassIInv
<1>3. CASE Eof BY <1>3, EofIInv
<1>4. CASE DropSecond BY <1>4, DropSecondIInv
<1>5. CASE Write BY <1>5, WriteIInv
<1>6. CASE Backfill BY <1>6, BackfillIInv
<1>7. CASE UNCHANGED vars
  BY <1>7 DEF vars, loopVars, IInv, TypeOK, LoopInv, PrevfieldIsPredecessor,
              LastWrittenIsItsEntry
<1> QED BY <1>1, <1>2, <1>3, <1>4, <1>5, <1>6, <1>7 DEF Next

\* In every reachable state of the loop, types hold and the previous-field hint is
\* the field directly before the one to be decoded.
THEOREM DriverInvariant == Spec => [](TypeOK /\ PrevfieldIsPredecessor)
<1>1. IInv => TypeOK /\ PrevfieldIsPredecessor
  BY DEF IInv
<1> QED BY InitIInv, NextIInv, <1>1, PTL DEF Spec

\* The audio clock counts from an entry of the output, the one it was written
\* with, though fields are redone, dropped and filled in.
THEOREM ClockInvariant == Spec => []LastWrittenIsItsEntry
<1>1. IInv => LastWrittenIsItsEntry
  BY DEF IInv
<1> QED BY InitIInv, NextIInv, <1>1, PTL DEF Spec

\* A step of the loop is a step of the pipeline, or none.
LEMMA StepIsPipelineStep ==
  IInv /\ [Next]_vars => [Pipeline!Next]_(Pipeline!pipelineVars)
<1> SUFFICES ASSUME IInv, [Next]_vars
             PROVE  [Pipeline!Next]_(Pipeline!pipelineVars)
  OBVIOUS
<1> USE DEF Pipeline!Next, Pipeline!Join, Pipeline!Redo, Pipeline!pipelineVars
<1>1. ASSUME AdvanceHistory, demodulated' = PassLevel, redo => mtf_level' = mtf_level
      PROVE  Pipeline!Next
  <2>1. mtf_hist'[1] = mtf_level
    BY <1>1, History
  <2>2. CASE redo
    BY <1>1, <2>1, <2>2 DEF PassLevel
  <2>3. CASE ~redo
    BY <1>1, <2>1, <2>3 DEF PassLevel
  <2> QED BY <2>2, <2>3
<1>2. ASSUME NEW offset \in Offsets, InvalidPass(offset) PROVE Pipeline!Next
  BY <1>1, <1>2 DEF InvalidPass
<1>3. ASSUME NEW first \in BOOLEAN, NEW agc \in BOOLEAN, NEW offset \in Offsets,
             NEW keep \in Keeps, NEW ratio \in Ratios \union {NoRatio},
             ValidPass(first, offset, ratio, keep, agc)
      PROVE  Pipeline!Next
  <2>1. /\ AdvanceHistory /\ demodulated' = PassLevel
        /\ mtf_level' = Checked(Recorded(ratio, keep))
    BY <1>3 DEF ValidPass
  <2>2. redo => mtf_level' = mtf_level
    BY <2>1, RedoKeepsLevel
  <2> QED BY <1>1, <2>1, <2>2
<1>4. CASE Eof
  BY <1>1, <1>4 DEF Eof
<1>5. CASE DropSecond \/ Write \/ Backfill
  <2>1. Done
    BY <1>5 DEF DropSecond, Write, Backfill, Keep
  <2> QED BY <2>1 DEF Done, loopVars
<1>6. CASE UNCHANGED vars
  BY <1>6 DEF vars, loopVars
<1> QED BY <1>2, <1>3, <1>4, <1>5, <1>6 DEF Next

\* The serial loop with its two-level history demodulates every pass at the
\* level the pipelined reference does.
THEOREM SerialIsPipelined == Spec => ImplementsPipeline
<1>1. Init => Pipeline!Init
  BY DEF Init, Pipeline!Init
<1> QED BY InitIInv, NextIInv, StepIsPipelineStep, <1>1, PTL
        DEF Spec, ImplementsPipeline, Pipeline!PipelineSpec
=============================================================================
