----------------------------- MODULE DecodeLoop -----------------------------
(***************************************************************************)
(* decode_all (ld-decode-cli/src/main.rs): the loop that slides a window   *)
(* of samples along the input, calls Decoder::decode on it, and takes the  *)
(* answer -- how far the decoder has come, and the fields it found -- for  *)
(* the next place of the window.                                           *)
(*                                                                         *)
(* What the decoder sees is up to the disc: how far the next field is, and *)
(* whether there is one.  That it reads whole blocks of the window is not  *)
(* (BlockGeometry).  The reader is the SampleStream that PrefetchReader    *)
(* implements.                                                             *)
(***************************************************************************)
EXTENDS SampleStream, BlockGeometry

CONSTANTS
    BlockCut,     \* spec.blockcut
    RewindBand,   \* rewind_band
    CapBlocks,    \* 130: blocks of look-ahead the window may hold
    Starts,       \* decoder positions --start leads to
    Offsets,      \* from a field to the next one
    Rewinds,      \* how far back the decoder may go instead
    MaxRewinds,   \* bound: how often
    MaxFields,    \* bound: written fields are counted so far
    Limits        \* --length in fields; more than MaxFields is none

ASSUME LoopAssumption ==
    /\ BlockCut \in Nat /\ RewindBand \in Nat /\ CapBlocks \in Nat
    /\ BlockCut + BlockLen <= 2 * BlockSize    \* the cuts are a small part of a block
    /\ Starts \subseteq Nat
    /\ Offsets \subseteq Nat \ {0}
    /\ Rewinds \subseteq Nat \ {0}
    /\ MaxRewinds \in Nat /\ MaxFields \in Nat
    /\ Limits \subseteq Nat

VARIABLES
    position,        \* the decoder's fdoffset
    rewinds,         \* how often it has gone back
    window,          \* the buffer
    skip,            \* its dead prefix
    base,            \* the sample the live part starts with
    read_pos,        \* the next sample to be read
    final_chunk,     \* nothing comes behind the window
    stalled,         \* the decoder needs more than the cap allows
    last_consumed,   \* what the last call returned
    fields_written,
    lead_out,        \* the decoder has seen the end of the disc
    max_fields,
    pc,              \* "loop", "decode", "drain", "done", "error", "crashed"
    reach            \* history: how far back the decoder may still go

decoderVars == <<position, rewinds, lead_out>>
windowVars == <<window, skip, base, read_pos, final_chunk>>
loopVars == <<stalled, last_consumed, fields_written, max_fields, reach>>
vars == <<streamVars, decoderVars, windowVars, loopVars, pc>>

Sub(m, n) == IF m < n THEN 0 ELSE m - n      \* saturating_sub
Grid(s) == (s \div BlockSize) * BlockSize
Further(m, n) == IF m < n THEN n ELSE m

Chunk == ReadLen + 4 * BlockSize
MaxKeep == RewindBand + ReadLen + CapBlocks * BlockSize

Live == Len(window) - skip

\* read_start_for: two blocks ahead of what the decoder reads.
ReadStart(p) == Grid(Sub(p, BlockCut + 2 * BlockSize))

Init ==
    /\ position \in Starts
    /\ rewinds = 0
    /\ lead_out = FALSE
    /\ base = ReadStart(position)
    /\ read_pos = base
    /\ window = << >>
    /\ skip = 0
    /\ final_chunk = FALSE
    /\ stalled = FALSE
    /\ last_consumed = 0
    /\ fields_written = 0
    /\ max_fields \in Limits
    /\ reach = position
    /\ pc = "loop"
    /\ pos = Shorter(base, Length)
    /\ health = "ok"
    /\ got = << >>
    /\ forward \in BOOLEAN
    /\ fault = FALSE

-----------------------------------------------------------------------------
(* Filling the window.                                                     *)

WantsData == ~final_chunk /\ (stalled \/ Live < MaxKeep)

\* refill_take.
Take ==
    /\ Read(Chunk) \/ ReadFails \/ ReadDead
    /\ window' = window \o got'
    /\ read_pos' = read_pos + Len(got')
    /\ final_chunk' = (Len(got') < Chunk)

\* Mutant: a stall that was served still counts.
RefillKeepsStall ==
    /\ pc = "loop"
    /\ WantsData
    /\ Take
    /\ UNCHANGED <<decoderVars, skip, base, loopVars, pc>>

\* A stall is served by one read beyond the cap.
Refill ==
    /\ pc = "loop"
    /\ WantsData
    /\ Take
    /\ stalled' = FALSE
    /\ UNCHANGED <<decoderVars, skip, base, last_consumed, fields_written, max_fields,
                   reach, pc>>

Filled ==
    /\ pc = "loop"
    /\ ~WantsData
    /\ pc' = "decode"
    /\ UNCHANGED <<streamVars, decoderVars, windowVars, loopVars>>

-----------------------------------------------------------------------------
(* One call of Decoder::decode: passes over the window until there is a    *)
(* valid field, or no block to read.                                       *)

\* The block the read of the next field is named by.
ReadlocBlock == Sub(position, BlockCut) \div BlockLen

Window == [start |-> base, end |-> base + Live, final |-> final_chunk]

NeedsData == RunsPastWindow(ReadlocBlock, Window) \/ StartsBeforeWindow(ReadlocBlock, Window)
AtEof == ~NeedsData /\ ReachesEof(ReadlocBlock, Window)
Readable == ~NeedsData /\ ~AtEof
Whole == \A b \in WindowBlocks(ReadlocBlock) : InWindow(b, Window)

\* The next field is a step ahead; now and then the decoder takes the way back.
Advance ==
    \/ \E offset \in Offsets : position' = position + offset /\ UNCHANGED rewinds
    \/ /\ rewinds < MaxRewinds
       /\ rewinds' = rewinds + 1
       /\ \E back \in Rewinds : position' = Sub(position, back)

Decoding == pc \in {"decode", "drain"}

\* No valid field here: the decoder looks at the next one in the same call.
SkipField ==
    /\ Decoding
    /\ Readable /\ Whole
    /\ Advance
    /\ UNCHANGED <<streamVars, lead_out, windowVars, loopVars, pc>>

\* The end-of-input test lets a read pass whose last block is not whole.
Crash ==
    /\ Decoding
    /\ Readable /\ ~Whole
    /\ pc' = "crashed"
    /\ UNCHANGED <<streamVars, decoderVars, windowVars, loopVars>>

\* The call returns `consumed` and n fields: none if it wants data or the input
\* has ended, one for a field, two if a missing one was filled in, and none for
\* one that is dropped or turned out invalid when it was redone.
Returns(consumed, n) ==
    \/ /\ NeedsData
       /\ consumed = BlockBegin(ReadlocBlock)
       /\ n = 0
       /\ UNCHANGED decoderVars
    \/ /\ AtEof
       /\ consumed = position
       /\ n = 0
       /\ UNCHANGED decoderVars
    \/ /\ Readable /\ Whole
       /\ Advance
       /\ consumed = position'
       /\ lead_out' \in BOOLEAN
       /\ lead_out' => n > 0

-----------------------------------------------------------------------------
(* What the loop makes of the answer.                                      *)

\* A call without fields asks for data the window has dropped.
Behind(consumed, n) == ~final_chunk /\ n = 0 /\ consumed < base

\* Mutant: the buffer is not cleared.
RestartKeepsWindow(at) ==
    /\ Seek(at) \/ SeekFails(at) \/ SeekDead
    /\ UNCHANGED window
    /\ skip' = 0
    /\ base' = at
    /\ read_pos' = at

\* An empty window at another place.
Restart(at) ==
    /\ Seek(at) \/ SeekFails(at) \/ SeekDead
    /\ window' = << >>
    /\ skip' = 0
    /\ base' = at
    /\ read_pos' = at

\* The reader goes back to two blocks before it.
ReseekBack(consumed) ==
    /\ Restart(Grid(Sub(consumed, 2 * BlockSize)))
    /\ stalled' = FALSE
    /\ last_consumed' = consumed
    /\ reach' = consumed
    /\ pc' = "loop"
    /\ UNCHANGED <<final_chunk, fields_written, max_fields>>

\* The fields are written; the disc has ended, or there are enough.
Enough == lead_out' \/ fields_written' >= max_fields

Stop ==
    /\ pc' = "done"
    /\ UNCHANGED <<streamVars, windowVars, stalled, last_consumed, reach>>

\* Mutant: the margin is taken on one grid only.
HeadWithoutBlock(consumed) == Sub(Grid(Sub(consumed, BlockCut)), RewindBand)

\* The first sample still needed: what the decoder reads starts up to a block
\* before the place it has come to, and it may rewind.
HeadOf(consumed) == Grid(Sub(Grid(Sub(consumed, BlockCut + BlockLen)), RewindBand))

\* keep_window: beyond the window by a seek, inside by skipping, and not at all
\* if the head is there already.  A dead prefix as long as what is live is
\* dropped.
KeepWindow(keep) ==
    IF keep > read_pos THEN Restart(keep)
    ELSE LET gone == skip + Sub(keep, base)
             compact == gone > 0 /\ gone >= Len(window) - gone
         IN  /\ window' = IF compact THEN SubSeq(window, gone + 1, Len(window)) ELSE window
             /\ skip' = IF compact THEN 0 ELSE gone
             /\ base' = Further(keep, base)
             /\ UNCHANGED <<streamVars, read_pos>>

\* Mutant: a stall is not noticed.
SlideNeverStalls(consumed, n) ==
    /\ KeepWindow(HeadOf(consumed))
    /\ stalled' = FALSE
    /\ last_consumed' = consumed
    /\ reach' = Further(reach, Sub(consumed, RewindBand))
    /\ pc' = "loop"
    /\ UNCHANGED final_chunk

\* The window slides on; twice the same answer without a field is a stall.
Slide(consumed, n) ==
    /\ KeepWindow(HeadOf(consumed))
    /\ stalled' = (n = 0 /\ consumed = last_consumed)
    /\ last_consumed' = consumed
    /\ reach' = Further(reach, Sub(consumed, RewindBand))
    /\ pc' = "loop"
    /\ UNCHANGED final_chunk

\* The window that is left is drained of its fields.
BeginDrain ==
    /\ pc' = "drain"
    /\ UNCHANGED <<streamVars, windowVars, stalled, last_consumed, reach>>

Write(n) ==
    /\ fields_written' = Shorter(fields_written + n, MaxFields)
    /\ UNCHANGED max_fields

Called(consumed, n) == pc = "decode" /\ Returns(consumed, n)

Answer(consumed, n) ==
    /\ Called(consumed, n)
    /\ IF Behind(consumed, n) THEN ReseekBack(consumed)
       ELSE /\ Write(n)
            /\ IF Enough THEN Stop
               ELSE IF final_chunk THEN BeginDrain
               ELSE Slide(consumed, n)

\* Mutant: the drain ends with the first call that finds no field.
DrainAnswerHasty(consumed, n) ==
    /\ pc = "drain"
    /\ Returns(consumed, n)
    /\ Write(n)
    /\ IF Enough \/ n = 0 THEN Stop
       ELSE /\ last_consumed' = consumed
            /\ pc' = IF consumed >= read_pos THEN "done" ELSE "drain"
            /\ UNCHANGED <<streamVars, windowVars, stalled, reach>>

\* The drain ends where the decoder finds nothing more.
DrainAnswer(consumed, n) ==
    /\ pc = "drain"
    /\ Returns(consumed, n)
    /\ Write(n)
    /\ IF Enough \/ (n = 0 /\ consumed = last_consumed) THEN Stop
       ELSE /\ last_consumed' = consumed
            /\ pc' = IF consumed >= read_pos THEN "done" ELSE "drain"
            /\ UNCHANGED <<streamVars, windowVars, stalled, reach>>

\* What the call may return.
Consumed == {BlockBegin(ReadlocBlock), position}
              \union {position + offset : offset \in Offsets}
              \union {Sub(position, back) : back \in Rewinds}

-----------------------------------------------------------------------------
\* An I/O error, or a panic of the reader's thread, is met by the next call of
\* the reader.
Failure ==
    /\ pc = "loop"
    /\ ~fault
    /\ Fault
    /\ UNCHANGED <<decoderVars, windowVars, loopVars, pc>>

\* The reader is gone, which the next call of it returns.
ReaderError ==
    /\ pc = "loop"
    /\ WantsData
    /\ Break
    /\ pc' = "error"
    /\ UNCHANGED <<decoderVars, windowVars, loopVars>>

SeekError(consumed, n) ==
    /\ Called(consumed, n)
    /\ Write(n)
    /\ ~final_chunk /\ ~Enough
    /\ Behind(consumed, n) \/ HeadOf(consumed) > read_pos
    /\ Break
    /\ pc' = "error"
    /\ UNCHANGED <<windowVars, stalled, last_consumed, reach>>

\* The decoder or the writer returns an error.
CallError ==
    /\ Decoding
    /\ pc' = "error"
    /\ UNCHANGED <<streamVars, decoderVars, windowVars, loopVars>>

Step ==
    \/ Refill
    \/ Filled
    \/ SkipField
    \/ Crash
    \/ \E consumed \in Consumed, n \in 0 .. 2 : Answer(consumed, n)
    \/ \E consumed \in Consumed, n \in 0 .. 2 : DrainAnswer(consumed, n)
    \/ ReaderError
    \/ \E consumed \in Consumed, n \in 0 .. 2 : SeekError(consumed, n)
    \/ CallError

Next == Step \/ Failure

Spec == Init /\ [][Next]_vars

\* The process runs on.
FairSpec == Spec /\ WF_vars(Step)

-----------------------------------------------------------------------------
(* What the decode loop promises the decoder and the user.                 *)

\* Types of the variables.
TypeOK ==
    /\ {position, base, skip, read_pos, last_consumed, reach} \subseteq Nat
    /\ fields_written \in 0 .. MaxFields
    /\ window \in Seq(Nat)
    /\ skip <= Len(window)
    /\ {final_chunk, stalled, lead_out, forward, fault} \subseteq BOOLEAN
    /\ rewinds \in 0 .. MaxRewinds
    /\ max_fields \in Limits
    /\ pc \in {"loop", "decode", "drain", "done", "error", "crashed"}
    /\ pos \in Nat
    /\ got \in Seq(Nat)
    /\ health \in {"ok", "dead", "broken"}

\* However the window is filled, slid, compacted or moved, its live part is the
\* input from `base` to `read_pos`, without a gap, a repetition or a shift, and
\* the reader stands where the loop thinks it does.
WindowIsInput ==
    /\ SubSeq(window, skip + 1, Len(window)) = Samples(base, read_pos - base)
    /\ health = "ok" => pos = Shorter(read_pos, Length)

\* main.rs, at the margin: "keep an extra `blocklen` of margin below that in the
\* window so the next decode call sees every block it needs", and the rewind
\* band below it.  A decoder that goes back no further than the band (or, right
\* after the reader was positioned, not behind that place) never finds that the
\* window starts behind what it reads.
BandSuffices ==
    (Decoding /\ position >= reach) => ~StartsBeforeWindow(ReadlocBlock, Window)

\* What a call may need in front of the head, at most: the margin, the band,
\* the blocks of the read and those of the lookahead.
LookAhead == RewindBand + BlockCut + 3 * BlockLen + ReadLen + (PrefetchBlocks + 4) * BlockSize

\* The window holds no more than the cap, or what the decoder needs if that is
\* more, and the chunk the last refill ended with.  A call without a field that
\* ends where the one before ended counts as a stall, though the decoder may
\* only have gone back: every time it does may cost one chunk more.  And once
\* it has slid, the buffer is never more dead than alive.
WindowBounded ==
    /\ Live < Further(MaxKeep, LookAhead) + (1 + rewinds) * Chunk
    /\ skip = 0 \/ skip < Live

\* The end is the end: a decode that stops neither for the lead-out nor for
\* --length, over a reader that met no error and with a decoder that never went
\* back, has come so far that the next read would reach beyond the input.
EndsAtEnd ==
    (pc = "done" /\ ~lead_out /\ fields_written < max_fields /\ health = "ok" /\ rewinds = 0)
        => ReachesEof(ReadlocBlock, [start |-> base, end |-> Length, final |-> TRUE])

\* Whatever the cap, the loop ends: it never waits for data that it does not
\* read, and the drain comes to an end.
Ends == <>(pc \in {"done", "error", "crashed"})
=============================================================================
