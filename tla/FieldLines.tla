----------------------------- MODULE FieldLines -----------------------------
(***************************************************************************)
(* Where a field and its lines are among the valid pulses of its window:   *)
(* get_blank_range, process_vblank, compute_line_len, get_line0,           *)
(* compute_linelocs and fix_badlines of ld-decode/src/decode/field.rs.     *)
(*                                                                         *)
(* Times are whole ticks from the start of the window, and a fraction of   *)
(* a tick is rounded away; the lengths the code gives in samples (the 4    *)
(* of a bad line, the 7 of a field without lines) are less than a tick.    *)
(***************************************************************************)
EXTENDS SyncPulses, FiniteSets

CONSTANTS
    NextSearch,  \* 40: pulses from one vertical blanking to where the next is looked for
    SkipLimit,   \* 100: pulses within which the blanking must be behind a skip
    EndAnchored  \* 23: lines behind which a line may be counted from the field's end

ASSUME LinesAssumption == {NextSearch, SkipLimit, EndAnchored} \subseteq Nat

None == [known |-> FALSE, at |-> 0, first |-> FALSE, conf |-> 0, blank |-> 0]
NotFound == [loc |-> None, reset |-> FALSE]

Size(x) == IF x < 0 THEN -x ELSE x

\* x / n to the next whole number, halves away from zero.
Rounded(x, n) == IF x < 0 THEN -((n - 2 * x) \div (2 * n)) ELSE (n + 2 * x) \div (2 * n)

FirstOf(S) == CHOOSE i \in S : \A j \in S : i <= j
LastOf(S) == CHOOSE i \in S : \A j \in S : j <= i

\* The next pulse from n on that is in a blanking, or is in none.
NextPulse(valid, n, blanking) ==
    FirstOf({i \in n .. Len(valid) : blanking = (valid[i].state > 0)} \cup {Len(valid) + 1})

\* get_blank_range: the blanking around the first vsync from pulse start on, looked
\* for from ten to five pulses ahead of it; more than 13 pulses.
BlankRange(valid, start) ==
    LET firstvsync == FirstOf({i \in start .. Len(valid) : valid[i].state = VSYNC}
                              \cup {Len(valid) + 1})
        blanking(first) == <<first, NextPulse(valid, first, FALSE) - 1>>
        ranges == {blanking(NextPulse(valid, n, TRUE)) : n \in firstvsync - 10 .. firstvsync - 5}
        long == {r \in ranges : r[2] - r[1] > 12 /\ r[2] < Len(valid)}
    IN  IF firstvsync <= 10 \/ firstvsync > Len(valid) THEN << >>
        ELSE IF long = {} THEN << >> ELSE CHOOSE r \in long : \A q \in long : r[1] <= q[1]

\* The first group of num_pulses pulses of a state in the blanking first .. last
\* that is evenly spaced and has none more of them close behind; 0 if there is none,
\* or one with more behind it ahead of it.  Pulses of a kind have one length.
Group(valid, first, last, state) ==
    LET n == sys.num_pulses
        starts == {j \in first .. last - 1 :
                       /\ j + n + 3 <= Len(valid)
                       /\ \A k \in j .. j + n - 1 : valid[k].state = state}
        alone(j) == \A k \in j + n .. j + n + 3 : valid[k].state # state
        gap(k) == valid[k + 1].start - valid[k].start
        even(j) == \A k \in j .. j + n - 3 : gap(k + 1) - gap(k) <= 0
        fits == {j \in starts : even(j) /\ \A i \in starts : i <= j => alone(i)}
    IN  IF fits = {} THEN 0 ELSE FirstOf(fits)

\* Mutant: the groups behind the first are taken to be whole lines from it.
FromGroupOfWholeLines(valid, first, j, state) ==
    LET halfLines == (state - 1) * sys.num_pulses
        hdist == Rounded(2 * (valid[j].start - valid[first - 1].start), LineLen)
        isFirst == hdist % 2 = IF sys.first_field_h[TRUE] # 2 THEN 1 ELSE 0
    IN  [at |-> valid[j].start - (sys.first_field_h[isFirst] + halfLines) * HalfLine,
         first |-> isFirst, blank |-> first, conf |-> 100, known |-> TRUE]

\* Line 0 and the parity, from such a group and the pulse before the blanking.
FromGroup(valid, first, j, state) ==
    LET halfLines == (state - 1) * sys.num_pulses     \* the group's distance from the first
        hdist == Rounded(2 * (valid[j].start - valid[first - 1].start), LineLen)
        parity == hdist % 2 = IF sys.first_field_h[TRUE] # 2 THEN 1 ELSE 0
        isFirst == parity # (halfLines % 2 # 0)
    IN  [at |-> valid[j].start - (sys.first_field_h[isFirst] + halfLines) * HalfLine,
         first |-> isFirst, blank |-> first, conf |-> 100, known |-> TRUE]

\* The fallback: the gaps at the two ends of the blanking.  reset says that it was
\* tried for nothing, which sets sync_confidence to 0.
FromGaps(valid, first, last) ==
    LET gap1 == valid[first].start - valid[first - 1].start
        gap2 == valid[last + 1].start - valid[last].start
        found == IF sys.pal THEN gap1 = gap2
                            ELSE Between(10 * (gap1 + gap2), 14 * LineLen, 16 * LineLen)
        isFirst == IF sys.pal THEN Between(20 * gap1, 9 * LineLen, 11 * LineLen)
                              ELSE Between(20 * gap1, 19 * LineLen, 21 * LineLen)
    IN  IF found THEN [at |-> valid[first - 1].start, first |-> isFirst, blank |-> first,
                       conf |-> 50, known |-> TRUE]
        ELSE None

FallbackTried(valid, first, last) ==
    /\ last < Len(valid)
    /\ \A k \in {first - 1, first, last, last + 1} : valid[k].good

\* process_vblank, on the pulses from start on; in the blanking range.
InBlanking(valid, range) ==
    LET found(state) == Group(valid, range[1], range[2], state) # 0
        states == {s \in {VSYNC, EQPL1, EQPL2} : found(s)}
        from(state) == FromGroup(valid, range[1], Group(valid, range[1], range[2], state), state)
        unsure(loc) == [loc |-> loc, reset |-> ~loc.known]
    IN  IF states # {}
        THEN [loc |-> from(IF VSYNC \in states THEN VSYNC ELSE FirstOf(states)), reset |-> FALSE]
        ELSE IF FallbackTried(valid, range[1], range[2])
        THEN unsure(FromGaps(valid, range[1], range[2]))
        ELSE NotFound

ProcessVBlank(valid, start, limit) ==
    LET within(range) == range # << >> /\ (limit = 0 \/ range[1] <= start + limit)
        look(range) == IF within(range) THEN InBlanking(valid, range) ELSE NotFound
    IN  look(BlankRange(valid, start))

\* compute_line_len: the mean distance of the hsyncs of the longest run, but for the
\* last and those more than a twentieth off.
LineLength(valid) ==
    LET others == {i \in DOMAIN valid : valid[i].state # 0} \cup {0, Len(valid) + 1}
        end(i) == FirstOf({j \in others : j > i})
        longest == CHOOSE i \in others \ {Len(valid) + 1} :
                       \A j \in others \ {Len(valid) + 1} :
                           \/ end(j) - j < end(i) - i
                           \/ end(j) - j = end(i) - i /\ i <= j
        length(i) == valid[i].start - valid[i - 1].start
        gaps == {i \in longest + 2 .. end(longest) - 2 :
                     Between(20 * length(i), 19 * LineLen, 21 * LineLen)}
        total[i \in longest .. end(longest)] ==
            IF i = longest THEN 0 ELSE total[i - 1] + IF i \in gaps THEN length(i) ELSE 0
    IN  IF gaps = {} THEN LineLen
        ELSE Rounded(total[end(longest)], Cardinality(gaps))

Majority(a, b, c) == (a /\ b) \/ (b /\ c) \/ (a /\ c)

Median3(a, b, c) == CHOOSE m \in {a, b, c} : /\ Majority(a <= m, b <= m, c <= m)
                                             /\ Majority(a >= m, b >= m, c >= m)

\* Mutant: the previous field is believed first.
ElectPrevious(local, next, after, prev, conf) ==
    IF prev.known
    THEN [known |-> TRUE, at |-> prev.at, first |-> prev.first,
          conf |-> Least(conf, IF prev.conf > 20 THEN prev.conf - 10 ELSE 10)]
    ELSE [known |-> local.known, conf |-> Least(conf, 90), at |-> local.at,
          first |-> local.first]

\* Mutant: confidence goes down field after field, with no floor.
ElectWithoutFloor(local, next, after, prev, conf) ==
    IF prev.known
    THEN [known |-> TRUE, at |-> prev.at, first |-> prev.first, conf |-> Least(conf, prev.conf - 10)]
    ELSE [known |-> local.known, conf |-> Least(conf, 0), at |-> local.at,
          first |-> local.first]

(***************************************************************************)
(* get_line0: where the field starts by its own vertical blanking, by the  *)
(* next one and by the end of the previous field.  All three have a vote;  *)
(* else its own is taken if it was found for sure, else what the previous  *)
(* field says, else the next.  prev.at is where the previous field ended;  *)
(* if there was a blanking there (settled) the own one has to be near.     *)
(***************************************************************************)
Elect(local, next, after, prev, conf) ==
    IF local.known /\ next.known /\ prev.known
    THEN [known |-> TRUE, conf |-> conf, at |-> Median3(local.at, next.at, prev.at),
          first |-> Majority(local.first, prev.first, next.first)]
    ELSE IF local.known /\ local.conf > 50
    THEN [known |-> TRUE, conf |-> Least(conf, 90), at |-> local.at, first |-> local.first]
    ELSE IF prev.known
    THEN [known |-> TRUE, at |-> prev.at, first |-> prev.first,
          conf |-> Least(conf, IF prev.conf > 20 THEN prev.conf - 10 ELSE 10)]
    ELSE IF next.known
    THEN [known |-> TRUE, at |-> next.at, first |-> next.first, conf |-> after.conf]
    ELSE [known |-> FALSE, at |-> 0, first |-> FALSE, conf |-> conf]

Line0(valid, mean, prev) ==
    LET start(after) == [known |-> after.known, first |-> ~after.first,
                         at |-> after.at - mean * sys.field_lines[~after.first]]
        conf(next, reset) == IF next.known /\ next.at < 0 THEN 10
                             ELSE IF reset THEN 0 ELSE 100
        elect(own, behind, next) ==
            [next |-> behind.loc,
             line0 |-> Elect(own.loc, next, behind.loc, prev,
                             conf(next, own.reset \/ behind.reset))]
        both(own, behind) == elect(own, behind, start(behind.loc))
        from(own) == both(own, IF own.loc.known
                               THEN ProcessVBlank(valid, own.loc.blank + NextSearch, 0)
                               ELSE NotFound)
    IN  from(ProcessVBlank(valid, 1, IF prev.known /\ prev.settled THEN SkipLimit ELSE 0))

(***************************************************************************)
(* compute_linelocs.                                                       *)
(***************************************************************************)
OutLines == (sys.field_lines[TRUE] + sys.field_lines[FALSE]) \div 2 + 1
ProcLines == OutLines + 10 + IF sys.pal THEN 3 ELSE 0

\* The next field comes too early.
SkipDetected(at, next, count) == next.known /\ next.at - at < (count - 5) * LineLen

\* The line a pulse belongs to, and its distance from where it should be.  After a
\* skip, an hsync behind the blanking is on the line it is of from the end of the
\* field if that is closer.
Place(x, mean) == [line |-> Rounded(x, mean), dist |-> Size(x - Rounded(x, mean) * mean)]
LineOf(vp, skip, ahead, back) ==
    IF skip /\ vp.state = 0 /\ ahead.line > EndAnchored /\ back.dist < ahead.dist
    THEN back ELSE ahead

\* A pulse within 0.4 lines; behind line 0 none out of its order, unless it is an hsync
\* behind the blanking.
Fits(vp, place, mean) ==
    /\ 10 * place.dist <= 4 * mean
    /\ \/ place.line <= 0 \/ vp.good
       \/ vp.state = 0 /\ place.line >= 10

\* The pulse that starts each line: the closest, and of two as close the later.  -1
\* where there is none.
FoundLines(valid, at, next, count, mean) ==
    LET skip == SkipDetected(at, next, count)
        place == [k \in DOMAIN valid |->
                     LineOf(valid[k], skip, Place(valid[k].start - at, mean),
                            Place(count * mean - (next.at - valid[k].start), mean))]
        on(l) == {k \in DOMAIN valid : place[k].line = l /\ Fits(valid[k], place[k], mean)}
        best(S) == CHOOSE k \in S : \A j \in S :
                       \/ place[k].dist < place[j].dist
                       \/ place[k].dist = place[j].dist /\ j <= k
        start(S) == IF S = {} THEN -1 ELSE valid[best(S)].start
    IN  [l \in 0 .. ProcLines - 1 |-> start(on(l))]

\* Line 0, counted back from the first line found if need be.
FirstLine(found, mean) ==
    LET lines == {i \in 0 .. OutLines : found[i] > 0}
    IN  IF found[0] >= 0 THEN found[0]
        ELSE found[FirstOf(lines)] - FirstOf(lines) * mean

\* There is nothing to count from, or it leads out of the window.
NoFirstLine(found, mean) ==
    /\ found[0] < 0
    /\ \/ {i \in 0 .. OutLines : found[i] > 0} = {}
       \/ FirstLine(found, mean) < LineLen

\* Mutant: the step is not divided by the lines it is for.
InterpolatedUndivided(found, l, p, n) == found[p] + (found[n] - found[p]) * (l - p)

Interpolated(found, l, p, n) == found[p] + Rounded((found[n] - found[p]) * (l - p), n - p)

Fill(found, l, before, after) ==
    IF after # {} /\ before # {} THEN Interpolated(found, l, LastOf(before), FirstOf(after))
    ELSE IF after # {} THEN found[FirstOf(after)] - LineLen * (FirstOf(after) - l)
    ELSE IF before # {} THEN found[LastOf(before)] + LineLen * (l - LastOf(before))
    ELSE found[l]

\* The lines not found are spread evenly between those that are, or at the usual
\* distance from the last one.
FilledLines(found, mean) ==
    LET shown == {i \in DOMAIN found : found[i] > 0}
        fill(l) == Fill(found, l, {i \in shown : i <= l},
                                  {i \in shown : l <= i /\ i <= OutLines})
    IN  [l \in DOMAIN found |-> IF l = 0 THEN FirstLine(found, mean)
                               ELSE IF found[l] >= 0 THEN found[l] ELSE fill(l)]

\* compute_deriv_error: bad lines, and those around which the distances change by
\* more than four samples; in ticks, by more than a rounding.
Bend(lines, i) == lines[i + 1] - 2 * lines[i] + lines[i - 1]
DerivError(lines, bad) ==
    LET last == Cardinality(DOMAIN lines) - 1
    IN  bad \cup {i \in 1 .. last - 1 : Size(Bend(lines, i)) > 1}
            \cup {i \in 2 .. last : Size(Bend(lines, i - 1)) > 1}

\* refine_linelocs_hsync moves lines by less than a tick, and gives up those in the
\* vertical blanking.
Unrefined == 3 .. 6 \cup IF sys.pal THEN 1 .. 2 ELSE {}

\* fix_badlines: a bad line is put between the next good ones.
FixBadLines(lines, bad) ==
    LET good == DOMAIN lines \ bad
        first == IF sys.pal THEN 0 ELSE 1
        ahead(l) == {i \in good : i < l}
        behind(l) == {i \in good : i > l}
        fix(l, p, n) == IF p # {} /\ n # {} /\ LastOf(p) >= first
                        THEN Interpolated(lines, l, LastOf(p), FirstOf(n)) ELSE lines[l]
    IN  [l \in DOMAIN lines |-> IF l \in bad THEN fix(l, ahead(l), behind(l)) ELSE lines[l]]

\* compute_syncconf: some distance of two lines grows by more than four samples.
Uneven(lines, first, count) ==
    \E i \in first + 1 .. Least(first + count, Cardinality(DOMAIN lines)) - 2 :
        Bend(lines, i) > 1
=============================================================================
