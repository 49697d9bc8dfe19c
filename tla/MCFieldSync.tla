---------------------------- MODULE MCFieldSync -----------------------------
(***************************************************************************)
(* Tapes of a few short fields (40 and 41 lines for 262 and 263), whole    *)
(* or damaged around the second vertical blanking, at their ends, or by a  *)
(* player that skips.                                                      *)
(***************************************************************************)
EXTENDS FieldSync

NTSC == [pal |-> FALSE, num_pulses |-> 6,
         first_field_h |-> [f \in BOOLEAN |-> IF f THEN 2 ELSE 1],
         field_lines |-> [f \in BOOLEAN |-> IF f THEN 41 ELSE 40]]
PAL == [pal |-> TRUE, num_pulses |-> 5,
        first_field_h |-> [f \in BOOLEAN |-> IF f THEN 1 ELSE 2],
        field_lines |-> [f \in BOOLEAN |-> IF f THEN 40 ELSE 41]]
MCSystems == {NTSC, PAL}

P(start, kind) == [start |-> start, kind |-> kind]

\* One field as it is recorded, from tick at on.
FieldPulses(s, first, at) ==
    LET n == s.num_pulses
        h == s.first_field_h[first]
        resume == (h + 3 * n + 1) \div 2
    IN  <<P(at, "h")>>
        \o [k \in 1 .. 3 * n |-> P(at + (h + k - 1) * 10, IF n < k /\ k <= 2 * n THEN "v" ELSE "e")]
        \o [k \in 1 .. s.field_lines[first] - resume |-> P(at + (resume + k - 1) * 20, "h")]

\* Six lines, then n fields.
Recording(s, first, n) ==
    LET parity(k) == first = (k % 2 = 1)
        at[k \in 1 .. n + 1] == IF k = 1 THEN 127
                                ELSE at[k - 1] + s.field_lines[parity(k - 1)] * 20
        upto[k \in 0 .. n] == IF k = 0 THEN [i \in 1 .. 6 |-> P(7 + (i - 1) * 20, "h")]
                              ELSE upto[k - 1] \o FieldPulses(s, parity(k), at[k])
    IN  [sys |-> s, pulses |-> upto[n],
         fields |-> [k \in 1 .. n |-> [at |-> at[k], first |-> parity(k)]],
         level |-> "set", dark |-> FALSE, cut |-> FALSE, hits |-> 0, length |-> at[n + 1] + 100]

\* Damages of the pulses: k lost from i on, one misread, one made up behind i.
Lost(t, i, k) == [t EXCEPT !.hits = k, !.pulses = SubSeq(@, 1, i - 1) \o SubSeq(@, i + k, Len(@))]
Misread(t, i, kind) == [t EXCEPT !.pulses[i].kind = kind, !.hits = 1]
MadeUp(t, i, kind) ==
    [t EXCEPT !.hits = 1,
              !.pulses = SubSeq(@, 1, i) \o <<P(@[i].start + 3, kind)>> \o SubSeq(@, i + 1, Len(@))]
\* No signal outside low .. high.
Signal(t, low, high) ==
    LET inside(p) == low < p.start /\ p.start < high
        whole(f) == low < f.at /\ f.at + 840 <= high
    IN  [t EXCEPT !.pulses = SelectSeq(@, inside), !.fields = SelectSeq(@, whole)]
\* What is on the tape from at to at + d is skipped.
Skipped(t, at, d) ==
    LET moved(x) == IF x < at THEN x ELSE x - d
        keptP(p) == p.start < at \/ p.start >= at + d
        keptF(f) == f.at < at \/ f.at >= at + d
        pulses == SelectSeq(t.pulses, keptP)
        fields == SelectSeq(t.fields, keptF)
    IN  [t EXCEPT !.pulses = [k \in DOMAIN pulses |-> [pulses[k] EXCEPT !.start = moved(@)]],
                  !.fields = [k \in DOMAIN fields |-> [fields[k] EXCEPT !.at = moved(@)]],
                  !.length = @ - d, !.cut = TRUE]

\* The player goes back from at + d to at.
Repeated(t, at, d) ==
    LET upto(p) == p.start < at + d
        from(p) == p.start >= at
        again == SelectSeq(t.pulses, from)
        moved(x) == IF x < at + d THEN x ELSE x + d
    IN  [t EXCEPT !.pulses = SelectSeq(@, upto)
                             \o [k \in DOMAIN again |-> [again[k] EXCEPT !.start = @ + d]],
                  !.fields = [k \in DOMAIN @ |-> [@[k] EXCEPT !.at = moved(@)]],
                  !.length = @ + d, !.cut = TRUE]

Systems2 == [NTSC |-> NTSC, PAL |-> PAL]
Damage(how, s, first, a, b, level) ==
    [how |-> how, sys |-> s, first |-> first, a |-> a, b |-> b, level |-> level]
All(how, as, bs, ls) == {Damage(how, s, first, a, b, level) : s \in DOMAIN Systems2,
                             first \in BOOLEAN, a \in as, b \in bs, level \in ls}
Blanking == 53 .. 76    \* the pulses around the second

\* One pulse lost, misread or made up; many lost in a row; a player that skips, up to
\* more than a field, by half a line with the next blanking lost as well; a tape that
\* begins anywhere, at any level; one that begins or ends without a signal.
Damages ==
    All("lost", Blanking, {1}, {"set"}) \cup All("misread", Blanking, {"e", "v"}, {"set"})
    \cup All("made up", Blanking, {"x", "h"}, {"set"})
    \cup All("dropout", {48, 54, 57, 60, 63, 66, 70}, {3, 8, 18, 28}, {"set"})
    \cup All("dropout, dark", {57, 66}, {3, 8, 18, 28}, {"set"})
    \cup All("skipped", {600 + 130 * m : m \in 0 .. 4}, {20, 100, 170, 390, 790, 800, 820, 1200}, {"set"})
    \cup All("repeated", {700}, {150, 230, 269, 270, 271}, {"set"})
    \cup All("skipped, lost", {607}, 54 .. 57, {"set"})
    \cup All("begins", {8}, {27} \cup {100 * m : m \in 0 .. 8}, {"set", "off", "lost"})
    \cup All("quiet", {500, 1350, 2100}, {10000}, {"set", "off", "lost"})
    \cup All("ends", {0}, {300, 1150, 1250, 1330, 2050}, {"set"})

Damaged(d) ==
    LET t(n) == Recording(Systems2[d.sys], d.first, n)
    IN  CASE d.how = "lost" -> Lost(t(4), d.a, d.b)
          [] d.how = "misread" -> Misread(t(4), d.a, d.b)
          [] d.how = "made up" -> MadeUp(t(4), d.a, d.b)
          [] d.how = "dropout" -> Lost(t(6), d.a, d.b)
          [] d.how = "dropout, dark" -> [Lost(t(6), d.a, d.b) EXCEPT !.dark = TRUE]
          [] d.how = "skipped" -> Skipped(t(7), d.a, d.b)
          [] d.how = "repeated" -> Skipped(Repeated(t(5), d.a, d.b), 1500, d.b)
          [] d.how = "skipped, lost" -> Lost(Skipped(t(5), d.a, 10), d.b, 22)
          [] d.how = "begins" -> [Skipped(t(5), d.a, d.b) EXCEPT !.level = d.level, !.cut = FALSE]
          [] OTHER -> [Signal(t(6), d.a, d.b) EXCEPT !.level = d.level]

MCTapes == [d \in Damages |-> Damaged(d)]
=============================================================================
