------------------------ MODULE OutputPipelineProof ------------------------
(***************************************************************************)
(* Proofs about the way from the decode loop to the disk, for any streams, *)
(* channel, buffers, and number of fields and of failures.                 *)
(***************************************************************************)
EXTENDS OutputPipeline, FiniteSetTheorems, SequenceTheorems, WellFoundedInduction, TLAPS

-----------------------------------------------------------------------------
(* The inductive invariant.                                                *)

\* A field on its way goes with metadata that count it, from its own call of
\* decode() or, if that was the last, the ones there are now.
Counted(field, m) == field <= m.n /\ m.n <= meta.n

\* The fields waiting in the channel; a Close behind them is not one.
Waiting == IF decode = "joining" THEN Len(cmds) - 1 ELSE Len(cmds)

\* While both sides run, the entries, the channel and what is still to be sent
\* are the fields in their order, and nothing is between them.
ChannelInOrder ==
    (decode # "exited" /\ writer = "running") =>
        /\ Len(entries) + Waiting + Len(tosend) = meta.n
        /\ \A i \in 1 .. Waiting :
               /\ cmds[i].cmd = "Write"
               /\ cmds[i].field = Len(entries) + i
               /\ Counted(cmds[i].field, cmds[i].meta)
        /\ \A i \in 1 .. Len(tosend) :
               tosend[i] = Write(Len(entries) + Waiting + i, meta)
        /\ decode = "joining" => cmds # << >> /\ cmds[Len(cmds)] = Close

\* Where the two threads can be.
Threads ==
    /\ decode # "exited" => exit = "none" /\ (decode = "sending" <=> tosend # << >>)
    /\ exit = "ok" => writer = "stopped"
    /\ writer \in {"running", "finishing"} => failed = {} /\ json = Placeholder
    /\ meta # NoMeta => meta.n > 0

\* The thread is past a Close that met no error so far.
Closed == writer # "running" /\ failed = {}

\* Then everything is on disk, but for the JSON file as long as the thread
\* waits for the database.
ClosedIsComplete ==
    Closed =>
        /\ decode \in {"joining", "exited"}
        /\ Len(entries) = meta.n
        /\ \A s \in StreamSet : disk[s] = UpTo(meta.n) /\ buf[s] = << >>
        /\ writer # "finishing" =>
               /\ queue = << >>
               /\ json.whole /\ json.n = meta.n /\ json.entries = entries

\* The fields the database was given, and those it is done with.
Given == Len(entries) + (IF "write" \in failed THEN 1 ELSE 0)
Settled == Given - Len(queue)

\* The queue of the database follows on what the worker is done with.
QueueInOrder ==
    /\ Settled \in Nat
    /\ Given <= meta.n
    /\ \A i \in 1 .. Len(queue) :
           /\ queue[i].field_id = Settled + i
           /\ Counted(queue[i].field_id, queue[i].meta)

\* What the worker is done with is in a row or lost, once there is a capture.
RowsAccounted ==
    /\ \A i \in 1 .. Len(rows) - 1 : rows[i] < rows[i + 1]
    /\ \A i \in 1 .. Len(rows) : rows[i] <= Settled
    /\ lost \subseteq 1 .. Settled
    /\ capture = NoRow => rows = << >>
    /\ ~capture_id => capture = NoRow /\ lost = 1 .. Settled
    /\ capture # NoRow => {rows[i] : i \in 1 .. Len(rows)} = (1 .. Settled) \ lost

\* As long as no transaction failed, the rows are all there, and the capture row
\* counts them.
NothingLost ==
    lost = {} =>
        /\ rows = UpTo(Settled)
        /\ capture # NoRow <=> Settled > 0
        /\ capture_id => capture # NoRow
        /\ (Settled > 0 /\ Settled = meta.n) => capture.n = meta.n

IInv ==
    /\ TypeOK
    /\ Threads
    /\ ChannelInOrder
    /\ StreamsInStep
    /\ ClosedIsComplete
    /\ QueueInOrder
    /\ RowsAccounted
    /\ NothingLost

-----------------------------------------------------------------------------
(* The first numbers, and sequences one element at a time.                 *)

\* Counting one further.
LEMMA UpToNext ==
  ASSUME NEW n \in Nat
  PROVE  /\ UpTo(n) \in Seq(Nat) /\ Len(UpTo(n)) = n
         /\ Append(UpTo(n), n + 1) = UpTo(n + 1)
<1>1. UpTo(n) \in Seq(Nat) /\ Len(UpTo(n)) = n
  BY DEF UpTo
<1>2. UpTo(n + 1) \in Seq(Nat) /\ Len(UpTo(n + 1)) = n + 1
  BY DEF UpTo
<1>3. /\ Append(UpTo(n), n + 1) \in Seq(Nat)
      /\ Len(Append(UpTo(n), n + 1)) = n + 1
  BY <1>1
<1>4. \A i \in 1 .. n + 1 : Append(UpTo(n), n + 1)[i] = UpTo(n + 1)[i]
  BY <1>1 DEF UpTo
<1> QED BY <1>1, <1>2, <1>3, <1>4, SeqEqual

\* The beginning of a count is a count.
LEMMA UpToPrefix ==
  ASSUME NEW d \in Seq(Nat), NEW b \in Seq(Nat), d \o b = UpTo(Len(d \o b))
  PROVE  d = UpTo(Len(d))
<1> Len(d) \in Nat
  OBVIOUS
<1>1. UpTo(Len(d)) \in Seq(Nat) /\ Len(UpTo(Len(d))) = Len(d)
  BY UpToNext
<1>2. Len(d \o b) = Len(d) + Len(b)
  OBVIOUS
<1>3. \A i \in 1 .. Len(d) : (d \o b)[i] = d[i]
  OBVIOUS
<1>4. \A i \in 1 .. Len(d) : UpTo(Len(d \o b))[i] = UpTo(Len(d))[i]
  BY <1>2 DEF UpTo
<1>5. \A i \in 1 .. Len(d) : d[i] = UpTo(Len(d))[i]
  BY <1>3, <1>4
<1> QED BY <1>1, <1>5, SeqEqual

\* A field behind what a buffer holds, and a buffer passed on before it.
LEMMA ConcatNext ==
  ASSUME NEW S, NEW d \in Seq(S), NEW b \in Seq(S), NEW x \in S
  PROVE  /\ d \o Append(b, x) = Append(d \o b, x)
         /\ (d \o b) \o <<x>> = Append(d \o b, x)
         /\ (d \o b) \o << >> = d \o b
<1>1. d \o b \in Seq(S)
  OBVIOUS
<1>2. <<x>> \in Seq(S) /\ Append(b, x) = b \o <<x>>
  BY AppendIsConcat
<1>3. Append(d \o b, x) = (d \o b) \o <<x>>
  BY <1>1, AppendIsConcat
<1>4. (d \o b) \o <<x>> = d \o (b \o <<x>>)
  BY <1>2, ConcatAssociative
<1>5. (d \o b) \o << >> = d \o b
  BY <1>1, ConcatEmptySeq
<1> QED BY <1>2, <1>3, <1>4, <1>5

\* What is left of a channel when its head is taken.
LEMMA TailShifts ==
  ASSUME NEW S, NEW s \in Seq(S), s # << >>
  PROVE  /\ Head(s) = s[1] /\ Head(s) \in S
         /\ Tail(s) \in Seq(S) /\ Len(Tail(s)) = Len(s) - 1 /\ Len(s) \in Nat \ {0}
         /\ \A i \in 1 .. Len(s) - 1 : Tail(s)[i] = s[i + 1]
BY HeadTailProperties, EmptySeq

-----------------------------------------------------------------------------
(* The operators a step is built from.                                     *)

\* The streams are different ones.
LEMMA StreamPlaces ==
  /\ Len(Streams) \in Nat
  /\ \A i \in 1 .. Len(Streams) : Streams[i] \in StreamSet
  /\ \A s \in StreamSet : \E i \in 1 .. Len(Streams) : s = Streams[i]
  /\ \A i \in 1 .. Len(Streams), n \in 0 .. Len(Streams) :
         Streams[i] \in {Streams[k] : k \in 1 .. n} <=> i <= n
<1>1. Len(Streams) \in Nat /\ \A i, j \in 1 .. Len(Streams) : Streams[i] = Streams[j] => i = j
  BY PipelineAssumption
<1>2. ASSUME NEW i \in 1 .. Len(Streams), NEW n \in 0 .. Len(Streams)
      PROVE  Streams[i] \in {Streams[k] : k \in 1 .. n} <=> i <= n
  <2>1. ASSUME NEW k \in 1 .. n, Streams[i] = Streams[k] PROVE i <= n
    BY <1>1, <2>1
  <2>2. i <= n => i \in 1 .. n
    OBVIOUS
  <2> QED BY <2>1, <2>2
<1> QED BY <1>1, <1>2 DEF StreamSet

\* A field appended to the first n streams is behind what they hold.
LEMMA AppendStreams ==
  ASSUME NEW field \in Fields, NEW n \in 0 .. Len(Streams), NEW spills,
         buf \in [StreamSet -> Seq(Fields)], disk \in [StreamSet -> Seq(Fields)],
         Append2Streams(field, n, spills)
  PROVE  /\ buf' \in [StreamSet -> Seq(Fields)] /\ disk' \in [StreamSet -> Seq(Fields)]
         /\ \A i \in 1 .. Len(Streams) :
                Stream(i)' = IF i <= n THEN Append(Stream(i), field) ELSE Stream(i)
<1> DEFINE to == {Streams[i] : i \in 1 .. n}
<1>1. /\ disk' = [s \in StreamSet |-> IF s \in to \intersect spills THEN disk[s] \o buf[s] ELSE disk[s]]
      /\ buf' = [s \in StreamSet |->
                     IF s \notin to THEN buf[s]
                     ELSE IF s \in spills THEN <<field>> ELSE Append(buf[s], field)]
  BY DEF Append2Streams
<1>2. \A i \in 1 .. Len(Streams) : Streams[i] \in to <=> i <= n
  BY StreamPlaces
<1> HIDE DEF to
<1>3. buf' \in [StreamSet -> Seq(Fields)]
  <2>1. <<field>> \in Seq(Fields) /\ \A s \in StreamSet : Append(buf[s], field) \in Seq(Fields)
    OBVIOUS
  <2> QED BY <1>1, <2>1
<1>4. disk' \in [StreamSet -> Seq(Fields)]
  <2>1. \A s \in StreamSet : disk[s] \o buf[s] \in Seq(Fields)
    OBVIOUS
  <2> QED BY <1>1, <2>1
<1>5. ASSUME NEW i \in 1 .. Len(Streams)
      PROVE  Stream(i)' = IF i <= n THEN Append(Stream(i), field) ELSE Stream(i)
  <2> DEFINE s == Streams[i]
  <2>1. s \in StreamSet /\ (s \in to <=> i <= n)
    BY <1>2, StreamPlaces
  <2>2. Stream(i)' = disk'[s] \o buf'[s] /\ Stream(i) = disk[s] \o buf[s]
    BY DEF Stream
  <2>3. disk[s] \in Seq(Fields) /\ buf[s] \in Seq(Fields)
    BY <2>1
  <2> HIDE DEF s
  <2>4. /\ disk[s] \o Append(buf[s], field) = Append(disk[s] \o buf[s], field)
        /\ (disk[s] \o buf[s]) \o <<field>> = Append(disk[s] \o buf[s], field)
    <3>1. \A d, b \in Seq(Fields) : /\ d \o Append(b, field) = Append(d \o b, field)
                                   /\ (d \o b) \o <<field>> = Append(d \o b, field)
      BY ConcatNext
    <3> QED BY <2>3, <3>1
  <2>5. CASE s \notin to
    BY <2>1, <2>2, <2>5, <1>1
  <2>6. CASE s \in to /\ s \in spills
    BY <2>1, <2>2, <2>4, <2>6, <1>1
  <2>7. CASE s \in to /\ s \notin spills
    BY <2>1, <2>2, <2>4, <2>7, <1>1
  <2> QED BY <2>5, <2>6, <2>7
<1> QED BY <1>3, <1>4, <1>5

\* A flush moves, and changes nothing of what a stream holds.
LEMMA FlushStreams ==
  ASSUME NEW n \in 0 .. Len(Streams), Flush(n),
         buf \in [StreamSet -> Seq(Fields)], disk \in [StreamSet -> Seq(Fields)]
  PROVE  /\ buf' \in [StreamSet -> Seq(Fields)] /\ disk' \in [StreamSet -> Seq(Fields)]
         /\ \A i \in 1 .. Len(Streams) : Stream(i)' = Stream(i)
         /\ \A i \in 1 .. n : disk'[Streams[i]] = Stream(i) /\ buf'[Streams[i]] = << >>
<1> DEFINE of == {Streams[i] : i \in 1 .. n}
<1>1. /\ disk' = [s \in StreamSet |-> IF s \in of THEN disk[s] \o buf[s] ELSE disk[s]]
      /\ buf' = [s \in StreamSet |-> IF s \in of THEN << >> ELSE buf[s]]
  BY DEF Flush
<1>2. \A i \in 1 .. Len(Streams) : Streams[i] \in of <=> i <= n
  BY StreamPlaces
<1> HIDE DEF of
<1>3. buf' \in [StreamSet -> Seq(Fields)]
  BY <1>1
<1>4. disk' \in [StreamSet -> Seq(Fields)]
  <2>1. \A s \in StreamSet : disk[s] \o buf[s] \in Seq(Fields)
    OBVIOUS
  <2> QED BY <1>1, <2>1
<1>5. ASSUME NEW i \in 1 .. Len(Streams)
      PROVE  /\ Stream(i)' = Stream(i)
             /\ i <= n => disk'[Streams[i]] = Stream(i) /\ buf'[Streams[i]] = << >>
  <2> DEFINE s == Streams[i]
  <2>1. s \in StreamSet /\ (s \in of <=> i <= n)
    BY <1>2, StreamPlaces
  <2>2. Stream(i)' = disk'[s] \o buf'[s] /\ Stream(i) = disk[s] \o buf[s]
    BY DEF Stream
  <2>3. disk[s] \o buf[s] \in Seq(Fields)
    BY <2>1
  <2>4. (disk[s] \o buf[s]) \o << >> = disk[s] \o buf[s]
    BY <2>3, ConcatEmptySeq
  <2> HIDE DEF s
  <2>5. s \notin of => Stream(i)' = Stream(i)
    BY <2>1, <2>2, <1>1
  <2>6. s \in of => Stream(i)' = Stream(i)
    BY <2>1, <2>2, <2>4, <1>1
  <2>7. i <= n => disk'[s] = Stream(i) /\ buf'[s] = << >>
    BY <2>1, <2>2, <1>1
  <2>8. Stream(i)' = Stream(i)
    BY <2>5, <2>6
  <2> QED BY <2>7, <2>8 DEF s
<1> QED BY <1>2, <1>3, <1>4, <1>5, StreamPlaces

\* One entry more, for the field written; an older one may change what it shows.
LEMMA PushedNext ==
  ASSUME NEW field \in Fields, entries \in Seq(Entries)
  PROVE  /\ Pushed(field) \in Seq(Entries)
         /\ Len(Pushed(field)) = Len(entries) + 1
         /\ \A i \in 1 .. Len(entries) : Pushed(field)[i].field = entries[i].field
         /\ Pushed(field)[Len(entries) + 1].field = field
<1> DEFINE entry == [field |-> field, shows |-> field]
           pushed == Append(entries, entry)
<1>1. entry \in Entries
  BY DEF Entries
<1>2. /\ pushed \in Seq(Entries) /\ Len(pushed) = Len(entries) + 1
      /\ \A i \in 1 .. Len(entries) : pushed[i] = entries[i]
      /\ pushed[Len(entries) + 1] = entry
  BY <1>1, AppendProperties
<1>3. PICK k : Pushed(field) \in {pushed, [pushed EXCEPT ![k].shows = field]}
  <2> DEFINE same == {i \in DOMAIN entries : fieldinfo[entries[i].field].seq_no = fieldinfo[field].seq_no}
  <2>1. Pushed(field) \in {pushed, [pushed EXCEPT ![Max(same)].shows = field]}
    BY DEF Pushed
  <2> QED BY <2>1
<1> HIDE DEF pushed
<1> DEFINE other == [pushed EXCEPT ![k].shows = field]
<1>4. /\ other \in Seq(Entries) /\ Len(other) = Len(pushed)
      /\ \A i \in 1 .. Len(pushed) : other[i].field = pushed[i].field
  <2>1. CASE k \notin 1 .. Len(pushed)
    <3>1. pushed \in [1 .. Len(pushed) -> Entries]
      BY <1>2
    <3>2. other = pushed
      BY <3>1, <2>1
    <3> QED BY <3>2, <1>2
  <2>2. CASE k \in 1 .. Len(pushed)
    <3> DEFINE changed == [pushed[k] EXCEPT !.shows = field]
    <3>1. pushed[k] \in Entries
      BY <1>2, <2>2
    <3>2. changed \in Entries /\ changed.field = pushed[k].field
      BY <3>1 DEF Entries
    <3> HIDE DEF changed
    <3>3. other = [pushed EXCEPT ![k] = changed]
      BY <2>2 DEF changed
    <3> HIDE DEF other
    <3>4. /\ other \in Seq(Entries) /\ Len(other) = Len(pushed)
          /\ \A j \in 1 .. Len(pushed) : other[j] = IF j = k THEN changed ELSE pushed[j]
      BY <3>2, <3>3, <2>2, <1>2, ExceptSeq
    <3> QED BY <3>2, <3>4
  <2> QED BY <2>1, <2>2
<1> HIDE DEF other
<1>5. Pushed(field) \in {pushed, other}
  BY <1>3 DEF other
<1> HIDE DEF entry
<1>6. entry.field = field
  BY DEF entry
<1> QED BY <1>2, <1>4, <1>5, <1>6

-----------------------------------------------------------------------------
(* The initial state, and what the steps of the decode thread keep.        *)

\* The bounds are numbers, and so is what the variables count.
LEMMA Amounts ==
  ASSUME TypeOK
  PROVE  /\ MaxFields \in Nat /\ Bound \in Nat \ {0} /\ Behind \in Nat
         /\ meta.n \in 0 .. MaxFields /\ meta.n \in Nat
         /\ Len(entries) \in Nat /\ Len(cmds) \in Nat /\ Len(tosend) \in Nat
         /\ Len(queue) \in Nat /\ Len(rows) \in Nat
<1>1. MaxFields \in Nat /\ Bound \in Nat \ {0} /\ Behind \in Nat
  BY PipelineAssumption
<1>2. meta.n \in 0 .. MaxFields
  BY <1>1 DEF TypeOK, Metas, NoMeta
<1>3. /\ Len(entries) \in Nat /\ Len(cmds) \in Nat /\ Len(tosend) \in Nat
      /\ Len(queue) \in Nat /\ Len(rows) \in Nat
  BY DEF TypeOK
<1> QED BY <1>1, <1>2, <1>3

\* A Close is told from a field, whose command has its parts.
LEMMA Commands ==
  /\ Close \in Cmds /\ Close.cmd # "Write"
  /\ \A c \in Cmds : c # Close => c.cmd = "Write"
  /\ \A c \in Cmds : c.cmd = "Write" => c.field \in Fields /\ c.meta \in Metas
  /\ \A field \in Fields, m \in Metas :
         /\ Write(field, m) \in Cmds
         /\ Write(field, m).cmd = "Write"
         /\ Write(field, m).field = field
         /\ Write(field, m).meta = m
BY DEF Cmds, Close, Write

\* What a command counts is a number.
LEMMA CommandMeta ==
  ASSUME TypeOK
  PROVE  /\ \A i \in 1 .. Len(cmds) : cmds[i].cmd = "Write" => cmds[i].meta.n \in Nat
         /\ \A i \in 1 .. Len(queue) : queue[i].meta \in Metas /\ queue[i].meta.n \in Nat
<1>1. MaxFields \in Nat
  BY Amounts
<1>2. \A m \in Metas : m.n \in Nat
  BY <1>1 DEF Metas
<1>3. \A i \in 1 .. Len(cmds) : cmds[i] \in Cmds
  BY DEF TypeOK
<1>4. ASSUME NEW i \in 1 .. Len(queue) PROVE queue[i].meta \in Metas
  <2>1. queue \in Seq([field_id : Fields, meta : Metas])
    BY DEF TypeOK
  <2>2. queue[i] \in [field_id : Fields, meta : Metas]
    BY <2>1, ElementOfSeq
  <2> QED BY <2>2
<1> QED BY <1>2, <1>3, <1>4, Commands

LEMMA InitIInv == Init => IInv
<1> SUFFICES ASSUME Init PROVE IInv
  OBVIOUS
<1>1. MaxFields \in Nat
  BY PipelineAssumption
<1> USE DEF Init, DbInit
<1>2. \A i \in 1 .. Len(Streams) : Stream(i) = << >>
  <2>1. \A i \in 1 .. Len(Streams) : disk[Streams[i]] = << >> /\ buf[Streams[i]] = << >>
    BY StreamPlaces
  <2> QED BY <2>1, ConcatEmptySeq DEF Stream
<1>3. UpTo(0) = << >>
  BY DEF UpTo
<1>4. TypeOK
  <2>1. json \in [whole : BOOLEAN, n : 0 .. MaxFields, entries : Seq(Entries)]
    BY <1>1 DEF Placeholder
  <2>2. Len(fieldinfo) = meta.n /\ Len(cmds) <= Bound /\ Len(tosend) <= 2
    BY PipelineAssumption DEF NoMeta
  <2>3. buf \in [StreamSet -> Seq(Fields)] /\ disk \in [StreamSet -> Seq(Fields)]
    OBVIOUS
  <2>4. capture \in Metas \union {NoRow} /\ meta \in Metas \union {NoMeta}
    OBVIOUS
  <2>5. tosend \in Seq(Cmds) /\ cmds \in Seq(Cmds) /\ entries \in Seq(Entries)
    OBVIOUS
  <2>6. err \in BOOLEAN /\ capture_id \in BOOLEAN
    OBVIOUS
  <2>7. /\ queue \in Seq([field_id : Fields, meta : Metas]) /\ rows \in Seq(Fields)
        /\ lost \subseteq Fields /\ failed \subseteq ErrorKinds
        /\ fieldinfo \in Seq([seq_no : Fields, ends : BOOLEAN])
    OBVIOUS
  <2>8. /\ decode = "decoding" /\ exit = "none" /\ writer = "running"
    OBVIOUS
  <2> HIDE DEF Init, DbInit
  <2> QED BY <2>1, <2>2, <2>3, <2>4, <2>5, <2>6, <2>7, <2>8 DEF TypeOK
<1>5. Threads
  BY DEF Threads
<1>6. ChannelInOrder
  BY DEF ChannelInOrder, Waiting, NoMeta
<1>7. StreamsInStep
  <2>1. Listed(entries) = UpTo(Len(entries))
    BY <1>3 DEF Listed
  <2> QED BY <1>2, <1>3, <2>1 DEF StreamsInStep
<1>8. ClosedIsComplete
  BY DEF ClosedIsComplete, Closed
<1>9. Given = 0 /\ Settled = 0
  BY DEF Given, Settled
<1>10. QueueInOrder
  BY <1>9 DEF QueueInOrder, NoMeta
<1>11. RowsAccounted
  BY <1>9 DEF RowsAccounted
<1>12. NothingLost
  BY <1>3, <1>9 DEF NothingLost
<1> QED BY <1>4, <1>5, <1>6, <1>7, <1>8, <1>10, <1>11, <1>12 DEF IInv

\* What a step leaves alone as long as the writer thread and the database rest.
LEMMA WriterRests ==
  ASSUME IInv, UNCHANGED <<dbVars, writerVars>>, meta'.n \in Nat, meta'.n >= meta.n,
         meta'.n = meta.n \/ ~Closed,
         Closed => decode' \in {"joining", "exited"}
  PROVE  StreamsInStep' /\ ClosedIsComplete' /\ QueueInOrder' /\ RowsAccounted' /\ NothingLost'
<1>1. /\ UNCHANGED <<queue, capture_id, capture, rows, lost>>
      /\ UNCHANGED <<writer, buf, disk, entries, json, failed>>
  BY DEF dbVars, writerVars
<1>2. \A i \in 1 .. Len(Streams) : Stream(i)' = Stream(i)
  BY <1>1 DEF Stream
<1>3. Settled' = Settled /\ Given' = Given /\ Closed' = Closed
  BY <1>1 DEF Settled, Given, Closed
<1>4. StreamsInStep'
  BY <1>1, <1>2 DEF IInv, StreamsInStep
<1>5. ClosedIsComplete'
  BY <1>1, <1>3 DEF IInv, ClosedIsComplete
<1>6. Settled \in Nat /\ Given \in Nat /\ Settled <= Given /\ Given <= meta.n /\ meta.n \in Nat
  BY Amounts DEF IInv, QueueInOrder, Settled, Given
<1>7. QueueInOrder'
  <2>1. ASSUME NEW i \in 1 .. Len(queue)
        PROVE  /\ queue[i].field_id = Settled + i
               /\ queue[i].field_id <= queue[i].meta.n
               /\ queue[i].meta.n <= meta'.n
    <3>1. /\ queue[i].field_id = Settled + i /\ queue[i].field_id <= queue[i].meta.n
          /\ queue[i].meta.n <= meta.n
      BY DEF IInv, QueueInOrder, Counted
    <3>2. queue[i].meta.n \in Nat
      BY CommandMeta DEF IInv
    <3> QED BY <3>1, <3>2, <1>6
  <2> QED BY <2>1, <1>1, <1>3, <1>6 DEF QueueInOrder, Counted
<1>8. RowsAccounted'
  BY <1>1, <1>3 DEF IInv, RowsAccounted
<1>9. NothingLost'
  BY <1>1, <1>3, <1>6 DEF IInv, NothingLost
<1> QED BY <1>4, <1>5, <1>7, <1>8, <1>9

\* decode() returns one field or two.
LEMMA DecodeIInv ==
  ASSUME IInv, NEW levels \in Levels, NEW k \in 1 .. 2,
         NEW seqs \in Seq(Fields), Len(seqs) = k, Decode(seqs, levels)
  PROVE  IInv'
<1> DEFINE m == [n |-> meta.n + k, levels |-> levels]
           new == [i \in 1 .. k |-> [seq_no |-> seqs[i], ends |-> i = k]]
<1>1. /\ decode = "decoding" /\ m.n <= MaxFields /\ meta' = m /\ decode' = "sending"
      /\ UNCHANGED <<dbVars, exit, cmds, writerVars>>
  BY DEF Decode
<1>12. tosend' = [i \in 1 .. k |-> Write(meta.n + i, m)]
  BY DEF Decode
<1>11. fieldinfo' = fieldinfo \o new
  BY DEF Decode
<1> HIDE DEF new
<1>2. TypeOK /\ MaxFields \in Nat /\ meta.n \in Nat /\ k \in 1 .. 2 /\ meta.n + k <= MaxFields
  BY <1>1, Amounts DEF IInv
<1>3. m \in Metas /\ m.n = meta.n + k
  BY <1>2 DEF Metas
<1> HIDE DEF m
<1>13. meta' = m
  BY <1>1
<1>14. meta' \in Metas /\ meta'.n = meta.n + k /\ meta'.n > meta.n
  BY <1>13, <1>3, <1>2
<1>4. /\ UNCHANGED <<queue, capture_id, capture, rows, lost>>
      /\ UNCHANGED <<writer, err, buf, disk, entries, json, failed>>
  BY <1>1 DEF dbVars, writerVars
<1>5. \A i \in 1 .. k : Write(meta.n + i, m) \in Cmds
  <2>1. \A i \in 1 .. k : meta.n + i \in Fields
    BY <1>2 DEF Fields
  <2> QED BY <2>1, <1>3, Commands
<1>6. tosend' \in Seq(Cmds) /\ Len(tosend') = k
  BY <1>2, <1>5, <1>12
<1>7. TypeOK'
  <2>1. fieldinfo' \in Seq([seq_no : Fields, ends : BOOLEAN]) /\ Len(fieldinfo') = meta'.n
    <3>1. new \in Seq([seq_no : Fields, ends : BOOLEAN]) /\ Len(new) = k
      BY <1>2 DEF new
    <3>2. fieldinfo \in Seq([seq_no : Fields, ends : BOOLEAN]) /\ Len(fieldinfo) = meta.n
      BY <1>2 DEF TypeOK
    <3>3. fieldinfo' = fieldinfo \o new /\ meta'.n = meta.n + k
      BY <1>1, <1>3, <1>11
    <3> QED BY <3>1, <3>2, <3>3, ConcatProperties
  <2>2. decode' = "sending" /\ meta' \in Metas /\ Len(tosend') <= 2
    BY <1>1, <1>2, <1>14, <1>6
  <2>3. exit' = exit /\ cmds' = cmds
    BY <1>1
  <2> QED BY <2>1, <2>2, <2>3, <1>2, <1>4, <1>6 DEF TypeOK
<1>8. Threads'
  <2>1. decode' = "sending" /\ tosend' # << >> /\ exit' = "none" /\ meta'.n > 0
    BY <1>1, <1>2, <1>3, <1>6 DEF IInv, Threads
  <2>2. writer \in {"running", "finishing"} => failed = {} /\ json = Placeholder
    BY DEF IInv, Threads
  <2> QED BY <2>1, <2>2, <1>4 DEF Threads, Placeholder
<1>9. ChannelInOrder'
  <2> SUFFICES ASSUME writer = "running" PROVE ChannelInOrder'
    BY <1>4 DEF ChannelInOrder
  <2>1. /\ Len(tosend) = 0 /\ Waiting = Len(cmds) /\ Waiting' = Len(cmds)
        /\ Len(entries) \in Nat /\ Len(cmds) \in Nat
    BY <1>1, <1>2, Amounts DEF IInv, Threads, Waiting
  <2>2. /\ Len(entries) + Len(cmds) = meta.n
        /\ \A i \in 1 .. Len(cmds) :
               /\ cmds[i].cmd = "Write"
               /\ cmds[i].field = Len(entries) + i
    BY <2>1, <1>1, <1>2 DEF IInv, ChannelInOrder
  <2>3. \A i \in 1 .. Len(cmds) : cmds[i].field <= cmds[i].meta.n /\ cmds[i].meta.n <= meta'.n
    <3> SUFFICES ASSUME NEW i \in 1 .. Len(cmds)
                 PROVE  cmds[i].field <= cmds[i].meta.n /\ cmds[i].meta.n <= meta'.n
      OBVIOUS
    <3>1. meta'.n > meta.n /\ meta'.n \in Nat
      BY <1>2, <1>14
    <3>2. /\ cmds[i].field <= cmds[i].meta.n /\ cmds[i].meta.n <= meta.n
      BY <2>1, <2>2, <1>1 DEF IInv, ChannelInOrder, Counted
    <3>3. cmds[i].meta.n \in Nat
      BY <2>2, <1>2, CommandMeta
    <3> QED BY <3>1, <3>2, <3>3, <1>2
  <2>4. \A i \in 1 .. k : tosend'[i] = Write(Len(entries) + Len(cmds) + i, m)
    BY <2>1, <2>2, <1>12
  <2> QED BY <2>1, <2>2, <2>3, <2>4, <1>1, <1>2, <1>3, <1>4, <1>6 DEF ChannelInOrder, Counted
<1>10. ~Closed
  BY <1>1 DEF IInv, ClosedIsComplete
<1> QED BY <1>1, <1>2, <1>3, <1>7, <1>8, <1>9, <1>10, WriterRests DEF IInv

\* The two ways decode() returns fields.
LEMMA DecodesIInv ==
  ASSUME IInv, NEW levels \in Levels, DecodeOne(levels) \/ DecodeFilled(levels)
  PROVE  IInv'
<1>1. /\ TypeOK /\ MaxFields \in Nat /\ meta.n \in Nat
      /\ fieldinfo \in Seq([seq_no : Fields, ends : BOOLEAN])
  BY Amounts DEF IInv, TypeOK
<1>2. CASE DecodeOne(levels)
  <2> DEFINE seqs == <<meta.n + 1>>
  <2>1. Decode(seqs, levels) /\ Len(seqs) = 1
    BY <1>2 DEF DecodeOne
  <2>2. meta.n + 1 <= MaxFields
    BY <2>1 DEF Decode
  <2>3. seqs \in Seq(Fields)
    BY <1>1, <2>2 DEF Fields
  <2> HIDE DEF seqs
  <2> QED BY <2>1, <2>3, DecodeIInv
<1>3. CASE DecodeFilled(levels)
  <2>1. PICK n \in DOMAIN fieldinfo : Decode(<<fieldinfo[n].seq_no, meta.n + 1>>, levels)
    BY <1>3 DEF DecodeFilled
  <2> DEFINE seqs == <<fieldinfo[n].seq_no, meta.n + 1>>
  <2>2. Decode(seqs, levels) /\ Len(seqs) = 2
    BY <2>1
  <2>3. meta.n + 2 <= MaxFields
    BY <2>2 DEF Decode
  <2>4. fieldinfo[n].seq_no \in Fields
    <3>1. n \in 1 .. Len(fieldinfo)
      BY <1>1, <2>1
    <3>2. fieldinfo[n] \in [seq_no : Fields, ends : BOOLEAN]
      BY <1>1, <3>1, ElementOfSeq
    <3> QED BY <3>2
  <2>5. seqs \in Seq(Fields)
    BY <1>1, <2>3, <2>4 DEF Fields
  <2> HIDE DEF seqs
  <2> QED BY <2>2, <2>5, DecodeIInv
<1> QED BY <1>2, <1>3

\* A step of the decode thread that decodes nothing.
LEMMA QuietIInv ==
  ASSUME IInv, UNCHANGED <<dbVars, meta, fieldinfo, writerVars>>,
         Closed => decode' \in {"joining", "exited"},
         decode' \in {"decoding", "sending", "closing", "joining", "exited"},
         exit' \in {"none", "ok", "error"},
         tosend' \in Seq(Cmds), Len(tosend') <= 2,
         cmds' \in Seq(Cmds), Len(cmds') <= Bound,
         decode' # "exited" => exit' = "none" /\ (decode' = "sending" <=> tosend' # << >>),
         exit' = "ok" => writer = "stopped",
         ChannelInOrder'
  PROVE  IInv'
<1>1. /\ UNCHANGED <<queue, capture_id, capture, rows, lost, meta, fieldinfo>>
      /\ UNCHANGED <<writer, err, buf, disk, entries, json, failed>>
  BY DEF dbVars, writerVars
<1>2. TypeOK'
  BY <1>1 DEF IInv, TypeOK
<1>3. Threads'
  BY <1>1 DEF IInv, Threads, Placeholder
<1>4. meta.n \in Nat
  BY Amounts DEF IInv
<1>5. StreamsInStep' /\ ClosedIsComplete' /\ QueueInOrder' /\ RowsAccounted' /\ NothingLost'
  <2>1. meta'.n \in Nat /\ meta'.n >= meta.n /\ meta'.n = meta.n
    BY <1>1, <1>4
  <2>2. UNCHANGED <<dbVars, writerVars>>
    OBVIOUS
  <2> QED BY <2>1, <2>2, WriterRests
<1> QED BY <1>2, <1>3, <1>5 DEF IInv

\* A step that is not one of the joining thread finds the writer not closed.
LEMMA StillOpen ==
  ASSUME IInv, decode \notin {"joining", "exited"}
  PROVE  ~Closed
BY DEF IInv, ClosedIsComplete

\* The channel takes the next field behind those it holds.
LEMMA SendIInv == ASSUME IInv, Send PROVE IInv'
<1>1. /\ decode = "sending" /\ Len(cmds) < Bound
      /\ cmds' = Append(cmds, Head(tosend)) /\ tosend' = Tail(tosend)
      /\ decode' = IF Tail(tosend) = << >> THEN "decoding" ELSE "sending"
      /\ UNCHANGED <<dbVars, exit, meta, fieldinfo, writerVars>>
  BY DEF Send
<1>2. /\ TypeOK /\ tosend \in Seq(Cmds) /\ cmds \in Seq(Cmds) /\ Len(tosend) <= 2
      /\ tosend # << >> /\ Bound \in Nat /\ exit = "none" /\ Len(cmds) \in Nat
  BY <1>1, Amounts DEF IInv, TypeOK, Threads
<1>3. /\ Head(tosend) = tosend[1] /\ tosend[1] \in Cmds
      /\ Tail(tosend) \in Seq(Cmds) /\ Len(Tail(tosend)) = Len(tosend) - 1
      /\ Len(tosend) \in Nat \ {0}
      /\ \A i \in 1 .. Len(tosend) - 1 : Tail(tosend)[i] = tosend[i + 1]
  BY <1>2, TailShifts
<1>4. /\ cmds' \in Seq(Cmds) /\ Len(cmds') = Len(cmds) + 1
      /\ \A i \in 1 .. Len(cmds) : cmds'[i] = cmds[i]
      /\ cmds'[Len(cmds) + 1] = tosend[1]
  BY <1>1, <1>2, <1>3, AppendProperties
<1>5. ChannelInOrder'
  <2> SUFFICES ASSUME writer = "running" PROVE ChannelInOrder'
    BY <1>1 DEF ChannelInOrder, writerVars
  <2>1. UNCHANGED <<entries, writer, meta>> /\ decode' \in {"decoding", "sending"}
    BY <1>1 DEF writerVars
  <2>2. Waiting = Len(cmds) /\ Waiting' = Len(cmds')
    BY <1>1 DEF Waiting
  <2>3. /\ Len(entries) + Len(cmds) + Len(tosend) = meta.n
        /\ \A i \in 1 .. Len(cmds) :
               /\ cmds[i].cmd = "Write" /\ cmds[i].field = Len(entries) + i
               /\ cmds[i].field <= cmds[i].meta.n
               /\ cmds[i].meta.n <= meta.n
        /\ \A i \in 1 .. Len(tosend) : tosend[i] = Write(Len(entries) + Len(cmds) + i, meta)
    BY <2>2, <1>1 DEF IInv, ChannelInOrder, Counted
  <2>4. Len(entries) \in Nat /\ meta.n \in Nat
    BY <1>2, Amounts
  <2>5. Len(entries) + Len(cmds') + Len(tosend') = meta.n
    BY <2>3, <2>4, <1>1, <1>2, <1>3, <1>4
  <2>6. /\ tosend[1].cmd = "Write" /\ tosend[1].field = Len(entries) + Len(cmds) + 1
        /\ tosend[1].meta = meta
    BY <2>3, <1>3 DEF Write
  <2>7. ASSUME NEW i \in 1 .. Len(cmds')
        PROVE  /\ cmds'[i].cmd = "Write" /\ cmds'[i].field = Len(entries) + i
               /\ cmds'[i].field <= cmds'[i].meta.n
               /\ cmds'[i].meta.n <= meta.n
    <3>1. CASE i \in 1 .. Len(cmds)
      BY <3>1, <2>3, <1>4
    <3>2. CASE i = Len(cmds) + 1
      <4>1. Len(entries) + Len(cmds) + 1 <= meta.n
        BY <2>3, <2>4, <1>2, <1>3
      <4> QED BY <3>2, <4>1, <2>4, <2>6, <1>2, <1>4
    <3> QED BY <3>1, <3>2, <1>2, <1>4
  <2>8. ASSUME NEW i \in 1 .. Len(tosend')
        PROVE  tosend'[i] = Write(Len(entries) + Len(cmds') + i, meta)
    <3>1. tosend'[i] = tosend[i + 1] /\ i + 1 \in 1 .. Len(tosend) /\ i \in Nat
      BY <1>1, <1>3
    <3>2. Len(entries) + Len(cmds) + (i + 1) = Len(entries) + Len(cmds') + i
      BY <3>1, <2>4, <1>2, <1>4
    <3> QED BY <3>1, <3>2, <2>3
  <2> QED BY <2>1, <2>2, <2>5, <2>7, <2>8 DEF ChannelInOrder, Counted
<1>6. decode' = "sending" <=> tosend' # << >>
  BY <1>1
<1>7. ~Closed
  BY <1>1, StillOpen
<1>8. Len(cmds') <= Bound /\ Len(tosend') <= 2
  BY <1>1, <1>2, <1>3, <1>4
<1>9. /\ decode' \in {"decoding", "sending"} /\ exit' = "none"
      /\ tosend' \in Seq(Cmds) /\ UNCHANGED <<dbVars, meta, fieldinfo, writerVars>>
  BY <1>1, <1>2, <1>3
<1> QED BY <1>4, <1>5, <1>6, <1>7, <1>8, <1>9, QuietIInv

LEMMA StartCloseIInv == ASSUME IInv, StartClose PROVE IInv'
<1>1. /\ decode = "decoding" /\ decode' = "closing"
      /\ UNCHANGED <<dbVars, exit, meta, fieldinfo, tosend, cmds, writerVars>>
  BY DEF StartClose
<1>2. /\ TypeOK /\ tosend \in Seq(Cmds) /\ cmds \in Seq(Cmds) /\ Len(tosend) <= 2
      /\ tosend = << >> /\ exit = "none" /\ Len(cmds) <= Bound
  BY <1>1 DEF IInv, TypeOK, Threads
<1>3. ChannelInOrder'
  BY <1>1 DEF IInv, ChannelInOrder, Waiting, Counted, writerVars
<1>4. ~Closed
  BY <1>1, StillOpen
<1> QED BY <1>1, <1>2, <1>3, <1>4, QuietIInv

\* The Close goes behind the fields, all of which have been sent.
LEMMA SendCloseIInv == ASSUME IInv, SendClose PROVE IInv'
<1>1. /\ decode = "closing" /\ decode' = "joining" /\ Len(cmds) < Bound
      /\ cmds' = Append(cmds, Close)
      /\ UNCHANGED <<dbVars, exit, meta, fieldinfo, tosend, writerVars>>
  BY DEF SendClose
<1>2. /\ TypeOK /\ tosend \in Seq(Cmds) /\ cmds \in Seq(Cmds) /\ Len(tosend) <= 2
      /\ tosend = << >> /\ exit = "none" /\ Len(cmds) \in Nat /\ Bound \in Nat
  BY <1>1, Amounts DEF IInv, TypeOK, Threads
<1>3. /\ cmds' \in Seq(Cmds) /\ Len(cmds') = Len(cmds) + 1
      /\ \A i \in 1 .. Len(cmds) : cmds'[i] = cmds[i]
      /\ cmds'[Len(cmds) + 1] = Close
  BY <1>1, <1>2, Commands, AppendProperties
<1>4. ChannelInOrder'
  <2> SUFFICES ASSUME writer = "running" PROVE ChannelInOrder'
    BY <1>1 DEF ChannelInOrder, writerVars
  <2>1. Waiting = Len(cmds) /\ Waiting' = Len(cmds)
    BY <1>1, <1>2, <1>3 DEF Waiting
  <2>2. UNCHANGED <<entries, writer, meta, tosend>> /\ decode' = "joining"
    BY <1>1 DEF writerVars
  <2>3. /\ Len(entries) + Len(cmds) + Len(tosend) = meta.n
        /\ \A i \in 1 .. Len(cmds) :
               /\ cmds[i].cmd = "Write" /\ cmds[i].field = Len(entries) + i
               /\ cmds[i].field <= cmds[i].meta.n
               /\ cmds[i].meta.n <= meta.n
        /\ \A i \in 1 .. Len(tosend) : tosend[i] = Write(Len(entries) + Len(cmds) + i, meta)
    BY <2>1, <1>1 DEF IInv, ChannelInOrder, Counted
  <2>4. cmds' # << >> /\ cmds'[Len(cmds')] = Close
    BY <1>2, <1>3
  <2> QED BY <2>1, <2>2, <2>3, <2>4, <1>3 DEF ChannelInOrder, Counted
<1>5. ~Closed
  BY <1>1, StillOpen
<1>6. Len(cmds') <= Bound
  BY <1>1, <1>2, <1>3
<1> QED BY <1>1, <1>2, <1>3, <1>4, <1>5, <1>6, QuietIInv

\* However the decode thread ends.
LEMMA ExitIInv ==
  ASSUME IInv, NEW status \in {"ok", "error"}, Exit(status), status = "ok" => writer = "stopped"
  PROVE  IInv'
<1>1. /\ decode' = "exited" /\ exit' = status
      /\ UNCHANGED <<dbVars, meta, fieldinfo, tosend, cmds, writerVars>>
  BY DEF Exit
<1>2. /\ tosend \in Seq(Cmds) /\ cmds \in Seq(Cmds) /\ Len(tosend) <= 2 /\ Len(cmds) <= Bound
  BY DEF IInv, TypeOK
<1>3. ChannelInOrder'
  BY <1>1 DEF ChannelInOrder
<1> QED BY <1>1, <1>2, <1>3, QuietIInv

LEMMA DecodeThreadIInv == ASSUME IInv, DecodeThread PROVE IInv'
<1>1. CASE \E levels \in Levels : DecodeOne(levels) \/ DecodeFilled(levels)
  BY <1>1, DecodesIInv
<1>2. CASE Send
  BY <1>2, SendIInv
<1>3. CASE StartClose
  BY <1>3, StartCloseIInv
<1>4. CASE SendClose
  BY <1>4, SendCloseIInv
<1>5. CASE SendFails \/ DecodeFails \/ Join
  BY <1>5, ExitIInv DEF SendFails, DecodeFails, Join
<1> QED BY <1>1, <1>2, <1>3, <1>4, <1>5 DEF DecodeThread

-----------------------------------------------------------------------------
(* What the steps of the writer thread keep.                               *)

\* As long as the thread has not ended, every stream holds the fields of the
\* entries, and after a failed write maybe the one that failed.
LEMMA StreamsNow ==
  ASSUME IInv, failed = {}, writer # "stopped"
  PROVE  \A i \in 1 .. Len(Streams) : Stream(i) = UpTo(Len(entries)) /\ Len(Stream(i)) = Len(entries)
<1>1. Len(entries) \in Nat
  BY Amounts DEF IInv
<1>2. \A i \in 1 .. Len(Streams) : Stream(i) = UpTo(Len(Stream(i))) /\ Len(Stream(i)) = Len(entries)
  BY DEF IInv, StreamsInStep
<1> QED BY <1>2

\* The next field the thread takes, and what is left of the channel.
LEMMA NextField ==
  ASSUME IInv, Running("running"), cmds # << >>, Head(cmds).cmd = "Write"
  PROVE  LET c == Head(cmds) IN
         /\ c.field = Len(entries) + 1 /\ c.field \in Fields /\ c.meta \in Metas
         /\ c.field <= c.meta.n /\ (c.meta.n <= meta.n)
         /\ Tail(cmds) \in Seq(Cmds) /\ Len(Tail(cmds)) = Len(cmds) - 1
         /\ Len(cmds) \in Nat \ {0} /\ Waiting \in Nat \ {0} /\ failed = {}
         /\ \A i \in 1 .. Len(cmds) - 1 : Tail(cmds)[i] = cmds[i + 1]
<1>1. /\ cmds \in Seq(Cmds) /\ decode # "exited" /\ writer = "running"
  BY DEF IInv, TypeOK, Running
<1>2. /\ Head(cmds) = cmds[1] /\ Head(cmds) \in Cmds
      /\ Tail(cmds) \in Seq(Cmds) /\ Len(Tail(cmds)) = Len(cmds) - 1
      /\ Len(cmds) \in Nat \ {0}
      /\ \A i \in 1 .. Len(cmds) - 1 : Tail(cmds)[i] = cmds[i + 1]
  BY <1>1, TailShifts
<1>3. Waiting \in Nat \ {0}
  <2>1. CASE decode = "joining"
    <3>1. cmds[Len(cmds)] = Close
      BY <1>1, <2>1 DEF IInv, ChannelInOrder
    <3>2. cmds[1] # Close
      BY <1>2, Commands
    <3>3. Len(cmds) # 1
      BY <3>1, <3>2
    <3> QED BY <1>2, <2>1, <3>3 DEF Waiting
  <2>2. CASE decode # "joining"
    BY <1>2, <2>2 DEF Waiting
  <2> QED BY <2>1, <2>2
<1>4. 1 \in 1 .. Waiting
  BY <1>3
<1>5. /\ cmds[1].field = Len(entries) + 1 /\ cmds[1].field <= cmds[1].meta.n
      /\ cmds[1].meta.n <= meta.n
  BY <1>1, <1>4 DEF IInv, ChannelInOrder, Counted
<1>6. Head(cmds).field \in Fields /\ Head(cmds).meta \in Metas
  BY <1>2, Commands
<1>7. failed = {}
  BY <1>1 DEF IInv, Threads
<1> QED BY <1>2, <1>3, <1>5, <1>6, <1>7

\* The field is put behind those the database has been given.
LEMMA EnqueueKeeps ==
  ASSUME IInv, NEW field \in Fields, NEW m \in Metas, Enqueue(field, m),
         failed = {}, field = Len(entries) + 1, field <= m.n,
         m.n <= meta.n, meta' = meta, Given' = field
  PROVE  /\ queue' \in Seq([field_id : Fields, meta : Metas])
         /\ UNCHANGED <<capture_id, capture, rows, lost>>
         /\ Settled' = Settled
         /\ QueueInOrder' /\ RowsAccounted' /\ NothingLost'
<1> DEFINE item == [field_id |-> field, meta |-> m]
<1>1. queue' = Append(queue, item) /\ UNCHANGED <<capture_id, capture, rows, lost>>
  BY DEF Enqueue
<1>2. /\ queue \in Seq([field_id : Fields, meta : Metas]) /\ Len(queue) \in Nat
      /\ Len(entries) \in Nat /\ meta.n \in Nat
  BY Amounts DEF IInv, TypeOK
<1>3. item \in [field_id : Fields, meta : Metas] /\ item.field_id = field /\ item.meta = m
  OBVIOUS
<1> HIDE DEF item
<1>4. /\ queue' \in Seq([field_id : Fields, meta : Metas])
      /\ Len(queue') = Len(queue) + 1
      /\ \A i \in 1 .. Len(queue) : queue'[i] = queue[i]
      /\ queue'[Len(queue) + 1] = item
  BY <1>1, <1>2, <1>3, AppendProperties
<1>5. Given = Len(entries)
  BY DEF Given
<1>11. field \in Nat /\ m.n \in Nat /\ Given' <= meta'.n /\ meta' = meta
  BY <1>2, PipelineAssumption DEF Fields, Metas
<1>6. Settled' = Settled
  BY <1>2, <1>4, <1>5 DEF Settled
<1>7. Settled \in Nat /\ Settled + Len(queue) = Len(entries)
  BY <1>2, <1>5 DEF IInv, QueueInOrder, Settled
<1>8. QueueInOrder'
  <2>1. ASSUME NEW i \in 1 .. Len(queue')
        PROVE  /\ queue'[i].field_id = Settled + i
               /\ queue'[i].field_id <= queue'[i].meta.n
               /\ queue'[i].meta.n <= meta.n
    <3>1. CASE i \in 1 .. Len(queue)
      BY <3>1, <1>4 DEF IInv, QueueInOrder, Counted
    <3>2. CASE i = Len(queue) + 1
      BY <3>2, <1>2, <1>3, <1>4, <1>7
    <3> QED BY <3>1, <3>2, <1>2, <1>4
  <2>2. Given' <= meta'.n
    BY <1>11
  <2> QED BY <2>1, <2>2, <1>6, <1>7 DEF QueueInOrder, Counted
<1>9. RowsAccounted'
  BY <1>1, <1>6 DEF IInv, RowsAccounted
<1>10. NothingLost'
  BY <1>1, <1>6 DEF IInv, NothingLost
<1> QED BY <1>1, <1>4, <1>6, <1>8, <1>9, <1>10

\* A field is written: to the database's queue, all streams and the entries.
LEMMA WriteFieldIInv == ASSUME IInv, WriteField PROVE IInv'
<1> DEFINE c == Head(cmds)
           E == Len(entries)
<1>1. /\ Running("running") /\ cmds # << >> /\ c.cmd = "Write"
      /\ Enqueue(c.field, c.meta)
      /\ entries' = Pushed(c.field) /\ cmds' = Tail(cmds)
      /\ UNCHANGED <<decodeVars, writer, err, json, failed>>
  BY DEF WriteField
<1>2. PICK spills \in SUBSET Filled : Append2Streams(c.field, Len(Streams), spills)
  BY DEF WriteField
<1>3. /\ c.field = E + 1 /\ c.field \in Fields /\ c.meta \in Metas
      /\ c.field <= c.meta.n /\ (c.meta.n <= meta.n)
      /\ Tail(cmds) \in Seq(Cmds) /\ Len(Tail(cmds)) = Len(cmds) - 1
      /\ Len(cmds) \in Nat \ {0} /\ Waiting \in Nat \ {0} /\ failed = {}
      /\ \A i \in 1 .. Len(cmds) - 1 : Tail(cmds)[i] = cmds[i + 1]
  BY <1>1, NextField
<1> HIDE DEF c
<1>4. /\ entries \in Seq(Entries) /\ E \in Nat /\ Bound \in Nat /\ Len(cmds) <= Bound
      /\ buf \in [StreamSet -> Seq(Fields)] /\ disk \in [StreamSet -> Seq(Fields)]
      /\ meta.n \in Nat /\ TypeOK
  BY Amounts DEF IInv, TypeOK
<1>5. /\ entries' \in Seq(Entries) /\ Len(entries') = E + 1
      /\ \A i \in 1 .. E : entries'[i].field = entries[i].field
      /\ entries'[E + 1].field = E + 1
  BY <1>1, <1>3, <1>4, PushedNext
<1>6. UNCHANGED <<decode, exit, meta, fieldinfo, tosend, writer, err, json, failed>>
  BY <1>1 DEF decodeVars
<1>7. decode # "exited" /\ writer = "running"
  BY <1>1 DEF Running
<1>8. /\ buf' \in [StreamSet -> Seq(Fields)] /\ disk' \in [StreamSet -> Seq(Fields)]
      /\ \A i \in 1 .. Len(Streams) : Stream(i)' = Append(Stream(i), c.field)
  <2>1. Len(Streams) \in 0 .. Len(Streams)
    BY StreamPlaces
  <2>2. /\ buf' \in [StreamSet -> Seq(Fields)] /\ disk' \in [StreamSet -> Seq(Fields)]
        /\ \A i \in 1 .. Len(Streams) :
               Stream(i)' = IF i <= Len(Streams) THEN Append(Stream(i), c.field) ELSE Stream(i)
    BY <2>1, <1>2, <1>3, <1>4, AppendStreams
  <2> QED BY <2>2, StreamPlaces
<1>9. /\ queue' \in Seq([field_id : Fields, meta : Metas])
      /\ UNCHANGED <<capture_id, capture, rows, lost>>
      /\ QueueInOrder' /\ RowsAccounted' /\ NothingLost'
  <2>1. Given' = c.field
    BY <1>3, <1>4, <1>5, <1>6 DEF Given
  <2> QED BY <2>1, <1>1, <1>3, <1>6, EnqueueKeeps
<1>10. TypeOK'
  <2>1. cmds' \in Seq(Cmds) /\ Len(cmds') <= Bound
    BY <1>1, <1>3, <1>4
  <2> QED BY <2>1, <1>4, <1>5, <1>6, <1>8, <1>9 DEF TypeOK
<1>11. Threads'
  BY <1>6 DEF IInv, Threads, Placeholder
<1>12. ChannelInOrder'
  <2>1. Waiting' = Waiting - 1
    BY <1>1, <1>3, <1>6 DEF Waiting
  <2>2. /\ E + Waiting + Len(tosend) = meta.n
        /\ \A i \in 1 .. Waiting :
               /\ cmds[i].cmd = "Write" /\ cmds[i].field = E + i
               /\ cmds[i].field <= cmds[i].meta.n
               /\ cmds[i].meta.n <= meta.n
        /\ \A i \in 1 .. Len(tosend) : tosend[i] = Write(E + Waiting + i, meta)
        /\ decode = "joining" => cmds[Len(cmds)] = Close
    BY <1>7 DEF IInv, ChannelInOrder, Counted
  <2>3. Len(tosend) \in Nat /\ Waiting <= Len(cmds)
    BY <1>3, <1>4, Amounts DEF Waiting
  <2>4. Len(entries') + Waiting' + Len(tosend') = meta'.n
    BY <2>1, <2>2, <2>3, <1>3, <1>4, <1>5, <1>6
  <2>5. ASSUME NEW i \in 1 .. Waiting'
        PROVE  /\ cmds'[i].cmd = "Write" /\ cmds'[i].field = Len(entries') + i
               /\ cmds'[i].field <= cmds'[i].meta.n
               /\ cmds'[i].meta.n <= meta'.n
    <3>1. i + 1 \in 1 .. Waiting /\ i \in 1 .. Len(cmds) - 1
      BY <2>1, <2>3, <1>3
    <3>2. cmds'[i] = cmds[i + 1]
      BY <3>1, <1>1, <1>3
    <3>3. E + (i + 1) = Len(entries') + i
      BY <3>1, <1>4, <1>5
    <3> QED BY <3>1, <3>2, <3>3, <2>2, <1>6
  <2>6. ASSUME NEW i \in 1 .. Len(tosend')
        PROVE  tosend'[i] = Write(Len(entries') + Waiting' + i, meta')
    <3>1. Len(entries') + Waiting' + i = E + Waiting + i
      BY <2>1, <1>3, <1>4, <1>5
    <3> QED BY <3>1, <2>2, <1>6
  <2>7. decode' = "joining" => cmds' # << >> /\ cmds'[Len(cmds')] = Close
    <3> SUFFICES ASSUME decode = "joining" PROVE cmds' # << >> /\ cmds'[Len(cmds')] = Close
      BY <1>6
    <3>1. Waiting = Len(cmds) - 1
      BY DEF Waiting
    <3>2. Len(cmds) - 1 \in 1 .. Len(cmds) - 1 /\ Len(cmds') = Len(cmds) - 1
      BY <3>1, <1>1, <1>3
    <3>3. cmds'[Len(cmds')] = cmds[Len(cmds)]
      BY <3>2, <1>1, <1>3
    <3>4. cmds' # << >>
      BY <3>2
    <3> QED BY <3>3, <3>4, <2>2
  <2> QED BY <2>4, <2>5, <2>6, <2>7 DEF ChannelInOrder, Counted
<1>13. StreamsInStep'
  <2>1. \A i \in 1 .. Len(Streams) : Stream(i)' = UpTo(E + 1)
    BY <1>3, <1>4, <1>7, <1>8, StreamsNow, UpToNext
  <2>2. Len(UpTo(E + 1)) = E + 1
    BY <1>4, UpToNext
  <2>3. Listed(entries') = UpTo(E + 1)
    <3>1. DOMAIN entries = 1 .. E /\ DOMAIN entries' = 1 .. E + 1
      BY <1>4, <1>5
    <3>2. \A i \in 1 .. E : entries[i].field = i
      <4>1. [i \in 1 .. E |-> entries[i].field] = [i \in 1 .. E |-> i]
        BY <3>1 DEF IInv, StreamsInStep, Listed, UpTo
      <4>2. \A i \in 1 .. E : [j \in 1 .. E |-> entries[j].field][i] = [j \in 1 .. E |-> j][i]
        BY <4>1
      <4> QED BY <4>2
    <3>3. ASSUME NEW i \in 1 .. E + 1
          PROVE  entries'[i].field = i
      <4>1. E \in Nat
        BY <1>4
      <4>2. \A k \in 1 .. E : entries'[k].field = entries[k].field
        BY <1>5
      <4>3. CASE i = E + 1
        <5>1. entries'[E + 1].field = E + 1
          BY <1>5
        <5> QED BY <5>1, <4>3
      <4>4. CASE i \in 1 .. E
        BY <4>2, <4>4, <3>2
      <4>5. i = E + 1 \/ i \in 1 .. E
        BY <4>1
      <4> QED BY <4>3, <4>4, <4>5
    <3> QED BY <3>1, <3>3 DEF Listed, UpTo
  <2>4. Len(entries') = E + 1 /\ E + 1 \in Nat
    BY <1>4, <1>5
  <2>5. \A i \in 1 .. Len(Streams) : Len(Stream(i)') = E + 1
    BY <2>1, <2>2
  <2>6. ASSUME NEW i \in 1 .. Len(Streams)
        PROVE  /\ Len(Stream(i)') - Len(entries') = 0 /\ Len(Stream(i)') = Len(entries')
               /\ \A j \in i .. Len(Streams) : Len(Stream(j)') <= Len(Stream(i)')
    <3>1. \A j \in i .. Len(Streams) : j \in 1 .. Len(Streams)
      OBVIOUS
    <3> QED BY <3>1, <2>4, <2>5
  <2>7. \A i \in 1 .. Len(Streams) : Stream(i)' = UpTo(Len(Stream(i)'))
    BY <2>1, <2>2
  <2> QED BY <2>3, <2>4, <2>6, <2>7 DEF StreamsInStep
<1>14. ClosedIsComplete'
  BY <1>6, <1>7 DEF ClosedIsComplete, Closed
<1> QED BY <1>9, <1>10, <1>11, <1>12, <1>13, <1>14 DEF IInv

\* A stream cannot take the field: those before it have it, the database too,
\* the entries have not; the thread leaves.
LEMMA WriteFailsIInv ==
  ASSUME IInv, NEW n \in 0 .. Len(Streams) - 1, WriteFails(n)
  PROVE  IInv'
<1> DEFINE c == Head(cmds)
           E == Len(entries)
<1>1. /\ Running("running") /\ cmds # << >> /\ c.cmd = "Write"
      /\ Enqueue(c.field, c.meta)
      /\ err' = TRUE /\ failed' = failed \union {"write"} /\ cmds' = Tail(cmds)
      /\ writer' = "leaving"
      /\ UNCHANGED <<decodeVars, entries, json>>
  BY DEF WriteFails
<1>2. PICK spills \in SUBSET Filled : Append2Streams(c.field, n, spills)
  BY DEF WriteFails
<1>3. /\ c.field = E + 1 /\ c.field \in Fields /\ c.meta \in Metas
      /\ c.field <= c.meta.n /\ (c.meta.n <= meta.n)
      /\ Tail(cmds) \in Seq(Cmds) /\ Len(Tail(cmds)) = Len(cmds) - 1
      /\ Len(cmds) \in Nat \ {0} /\ failed = {}
  BY <1>1, NextField
<1> HIDE DEF c
<1>4. /\ entries \in Seq(Entries) /\ E \in Nat /\ Bound \in Nat /\ Len(cmds) <= Bound
      /\ buf \in [StreamSet -> Seq(Fields)] /\ disk \in [StreamSet -> Seq(Fields)]
      /\ meta.n \in Nat /\ TypeOK
  BY Amounts DEF IInv, TypeOK
<1>5. UNCHANGED <<decode, exit, meta, fieldinfo, tosend, entries, json>>
  BY <1>1 DEF decodeVars
<1>6. writer = "running" /\ failed' = {"write"}
  BY <1>1, <1>3 DEF Running
<1>7. /\ buf' \in [StreamSet -> Seq(Fields)] /\ disk' \in [StreamSet -> Seq(Fields)]
      /\ \A i \in 1 .. Len(Streams) :
             Stream(i)' = IF i <= n THEN Append(Stream(i), c.field) ELSE Stream(i)
  <2>1. n \in 0 .. Len(Streams)
    BY StreamPlaces
  <2> QED BY <2>1, <1>2, <1>3, <1>4, AppendStreams
<1>8. /\ queue' \in Seq([field_id : Fields, meta : Metas])
      /\ UNCHANGED <<capture_id, capture, rows, lost>>
      /\ QueueInOrder' /\ RowsAccounted' /\ NothingLost'
  <2>1. Given' = c.field
    BY <1>3, <1>4, <1>5, <1>6 DEF Given
  <2> QED BY <2>1, <1>1, <1>3, <1>5, EnqueueKeeps
<1>9. TypeOK'
  <2>1. cmds' \in Seq(Cmds) /\ Len(cmds') <= Bound
    BY <1>1, <1>3, <1>4
  <2>2. failed' \subseteq ErrorKinds
    BY <1>6 DEF ErrorKinds
  <2>3. err' \in BOOLEAN
    BY <1>1
  <2>4. writer' = "leaving"
    BY <1>1
  <2> QED BY <2>1, <2>2, <2>3, <2>4, <1>4, <1>5, <1>7, <1>8 DEF TypeOK
<1>10. Threads'
  <2>1. exit # "ok"
    BY <1>6 DEF IInv, Threads
  <2>2. writer' = "leaving"
    BY <1>1
  <2> QED BY <2>1, <2>2, <1>5 DEF IInv, Threads
<1>11. ChannelInOrder'
  BY <1>1 DEF ChannelInOrder
<1>12. StreamsInStep'
  <2>1. \A i \in 1 .. Len(Streams) : Stream(i) = UpTo(E) /\ Len(Stream(i)) = E
    BY <1>3, <1>6, StreamsNow
  <2>2. \A i \in 1 .. Len(Streams) :
            /\ i <= n => Stream(i)' = UpTo(E + 1)
            /\ ~(i <= n) => Stream(i)' = UpTo(E)
    BY <2>1, <1>3, <1>4, <1>7, UpToNext
  <2>3. Len(UpTo(E)) = E /\ Len(UpTo(E + 1)) = E + 1
    <3>1. E \in Nat /\ E + 1 \in Nat
      BY <1>4
    <3> HIDE DEF E
    <3> QED BY <3>1, UpToNext
  <2>4. \A i \in 1 .. Len(Streams) :
            /\ Stream(i)' = UpTo(Len(Stream(i)'))
            /\ i <= n => Len(Stream(i)') = E + 1
            /\ ~(i <= n) => Len(Stream(i)') = E
    BY <2>2, <2>3
  <2>5. \A i \in 1 .. Len(Streams) : \A j \in i .. Len(Streams) :
            Len(Stream(j)') <= Len(Stream(i)')
    <3> SUFFICES ASSUME NEW i \in 1 .. Len(Streams), NEW j \in i .. Len(Streams)
                 PROVE  Len(Stream(j)') <= Len(Stream(i)')
      OBVIOUS
    <3>1. j \in 1 .. Len(Streams) /\ (j <= n => i <= n)
      BY StreamPlaces
    <3> QED BY <3>1, <2>4, <1>4
  <2>6. "write" \in failed'
    BY <1>6
  <2>7. Listed(entries)' = UpTo(Len(entries))'
    BY <1>5 DEF IInv, StreamsInStep, Listed, UpTo
  <2>8. \A i \in 1 .. Len(Streams) : Len(Stream(i)') - E \in {0, 1}
    BY <2>4, <1>4
  <2> QED BY <2>4, <2>5, <2>6, <2>7, <2>8, <1>4, <1>5 DEF StreamsInStep
<1>13. ClosedIsComplete'
  BY <1>6 DEF ClosedIsComplete, Closed
<1> QED BY <1>8, <1>9, <1>10, <1>11, <1>12, <1>13 DEF IInv

\* What a step of the writer thread leaves alone that neither writes a field nor
\* an entry: the database's side, and as long as it is not the last step, how the
\* streams compare.
LEMMA NoFieldWritten ==
  ASSUME IInv, UNCHANGED <<dbVars, decodeVars, entries>>,
         "write" \in failed' <=> "write" \in failed,
         writer # "stopped",
         \A i \in 1 .. Len(Streams) : Stream(i)' = Stream(i)
  PROVE  StreamsInStep' /\ QueueInOrder' /\ RowsAccounted' /\ NothingLost'
<1>1. UNCHANGED <<queue, capture_id, capture, rows, lost, entries, meta>>
  BY DEF dbVars, decodeVars
<1>2. Given' = Given /\ Settled' = Settled
  BY <1>1 DEF Given, Settled
<1>3. QueueInOrder'
  BY <1>1, <1>2 DEF IInv, QueueInOrder, Counted
<1>4. RowsAccounted'
  BY <1>1, <1>2 DEF IInv, RowsAccounted
<1>5. NothingLost'
  BY <1>1, <1>2 DEF IInv, NothingLost
<1>6. StreamsInStep'
  BY <1>1 DEF IInv, StreamsInStep
<1> QED BY <1>3, <1>4, <1>5, <1>6

\* The Close is the last thing in the channel: all fields have been written.
LEMMA CloseIsLast ==
  ASSUME IInv, Running("running"), cmds # << >>, Head(cmds) = Close
  PROVE  /\ decode = "joining" /\ Len(cmds) = 1 /\ Len(entries) = meta.n
         /\ Tail(cmds) \in Seq(Cmds) /\ Len(Tail(cmds)) <= Bound /\ failed = {}
<1>1. /\ cmds \in Seq(Cmds) /\ decode # "exited" /\ writer = "running"
      /\ Len(cmds) <= Bound /\ Bound \in Nat /\ Len(entries) \in Nat
      /\ meta.n \in Nat /\ Len(tosend) \in Nat
  BY Amounts DEF IInv, TypeOK, Running
<1>2. /\ cmds[1] = Close /\ Len(cmds) \in Nat \ {0}
      /\ Tail(cmds) \in Seq(Cmds) /\ Len(Tail(cmds)) = Len(cmds) - 1
  BY <1>1, TailShifts
<1>3. cmds[1].cmd # "Write"
  BY <1>2, Commands
<1>4. 1 \notin 1 .. Waiting
  BY <1>1, <1>3 DEF IInv, ChannelInOrder
<1>5. decode = "joining" /\ Len(cmds) = 1 /\ Waiting = 0
  BY <1>2, <1>4 DEF Waiting
<1>6. tosend = << >>
  BY <1>5 DEF IInv, Threads
<1>7. Len(entries) + Waiting + Len(tosend) = meta.n
  BY <1>1 DEF IInv, ChannelInOrder
<1>8. Len(entries) = meta.n
  BY <1>1, <1>5, <1>6, <1>7
<1>9. failed = {}
  BY <1>1 DEF IInv, Threads
<1>10. Len(Tail(cmds)) <= Bound
  <2>1. Len(cmds) \in Nat \ {0} /\ Len(Tail(cmds)) = Len(cmds) - 1
    BY <1>2
  <2>2. Len(cmds) <= Bound /\ Bound \in Nat
    BY <1>1
  <2> QED BY <2>1, <2>2
<1> QED BY <1>2, <1>5, <1>8, <1>9, <1>10

\* The close flushes the buffers: every stream is on disk.
LEMMA CloseFlushIInv == ASSUME IInv, CloseFlush PROVE IInv'
<1>1. /\ Running("running") /\ cmds # << >> /\ Head(cmds) = Close
      /\ Flush(Len(Streams)) /\ cmds' = Tail(cmds) /\ writer' = "finishing"
      /\ UNCHANGED <<dbVars, decodeVars, err, entries, json, failed>>
  BY DEF CloseFlush
<1>2. /\ decode = "joining" /\ Len(entries) = meta.n
      /\ Tail(cmds) \in Seq(Cmds) /\ Len(Tail(cmds)) <= Bound /\ failed = {}
  BY <1>1, CloseIsLast
<1>3. TypeOK
  BY DEF IInv
<1>4. /\ buf' \in [StreamSet -> Seq(Fields)] /\ disk' \in [StreamSet -> Seq(Fields)]
      /\ \A i \in 1 .. Len(Streams) : Stream(i)' = Stream(i)
      /\ \A i \in 1 .. Len(Streams) : disk'[Streams[i]] = Stream(i) /\ buf'[Streams[i]] = << >>
  <2>1. Len(Streams) \in 0 .. Len(Streams)
    BY StreamPlaces
  <2>2. buf \in [StreamSet -> Seq(Fields)] /\ disk \in [StreamSet -> Seq(Fields)]
    BY DEF IInv, TypeOK
  <2> QED BY <2>1, <2>2, <1>1, FlushStreams
<1>5. /\ UNCHANGED <<queue, capture_id, capture, rows, lost>>
      /\ UNCHANGED <<decode, exit, meta, fieldinfo, tosend, err, entries, json, failed>>
  BY <1>1 DEF dbVars, decodeVars
<1>6. writer = "running"
  BY <1>1 DEF Running
<1>7. StreamsInStep' /\ QueueInOrder' /\ RowsAccounted' /\ NothingLost'
  BY <1>1, <1>4, <1>6, NoFieldWritten
<1>8. TypeOK'
  <2>1. writer' = "finishing" /\ cmds' = Tail(cmds)
    BY <1>1
  <2> QED BY <2>1, <1>2, <1>3, <1>4, <1>5 DEF TypeOK
<1>9. Threads'
  <2>1. exit # "ok" /\ json = Placeholder
    BY <1>6 DEF IInv, Threads
  <2> QED BY <2>1, <1>1, <1>2, <1>5 DEF IInv, Threads, Placeholder
<1>10. ChannelInOrder'
  BY <1>1 DEF ChannelInOrder
<1>11. ClosedIsComplete'
  <2>1. \A i \in 1 .. Len(Streams) : Stream(i) = UpTo(meta.n)
    BY <1>2, <1>6, StreamsNow
  <2>2. \A s \in StreamSet : disk'[s] = UpTo(meta.n) /\ buf'[s] = << >>
    BY <2>1, <1>4, StreamPlaces
  <2> QED BY <2>2, <1>1, <1>2, <1>5 DEF ClosedIsComplete
<1> QED BY <1>7, <1>8, <1>9, <1>10, <1>11 DEF IInv

\* A buffer cannot be flushed: what the streams hold stays the same.
LEMMA FlushFailsIInv ==
  ASSUME IInv, NEW n \in 0 .. Len(Streams) - 1, FlushFails(n)
  PROVE  IInv'
<1>1. /\ Running("running") /\ cmds # << >> /\ Head(cmds) = Close
      /\ Flush(n) /\ cmds' = Tail(cmds) /\ writer' = "leaving"
      /\ failed' = failed \union {"flush"}
      /\ UNCHANGED <<dbVars, decodeVars, err, entries, json>>
  BY DEF FlushFails
<1>2. /\ Tail(cmds) \in Seq(Cmds) /\ Len(Tail(cmds)) <= Bound /\ failed = {}
  BY <1>1, CloseIsLast
<1>3. TypeOK
  BY DEF IInv
<1>4. /\ buf' \in [StreamSet -> Seq(Fields)] /\ disk' \in [StreamSet -> Seq(Fields)]
      /\ \A i \in 1 .. Len(Streams) : Stream(i)' = Stream(i)
  <2>1. n \in 0 .. Len(Streams)
    BY StreamPlaces
  <2>2. buf \in [StreamSet -> Seq(Fields)] /\ disk \in [StreamSet -> Seq(Fields)]
    BY DEF IInv, TypeOK
  <2> QED BY <2>1, <2>2, <1>1, FlushStreams
<1>5. /\ UNCHANGED <<queue, capture_id, capture, rows, lost>>
      /\ UNCHANGED <<decode, exit, meta, fieldinfo, tosend, err, entries, json>>
  BY <1>1 DEF dbVars, decodeVars
<1>6. writer = "running" /\ failed' = {"flush"}
  BY <1>1, <1>2 DEF Running
<1>7. StreamsInStep' /\ QueueInOrder' /\ RowsAccounted' /\ NothingLost'
  <2>1. "write" \in failed' <=> "write" \in failed
    BY <1>2, <1>6
  <2> QED BY <2>1, <1>1, <1>4, <1>6, NoFieldWritten
<1>8. TypeOK'
  <2>1. writer' = "leaving" /\ cmds' = Tail(cmds)
    BY <1>1
  <2>2. failed' \subseteq ErrorKinds
    BY <1>6 DEF ErrorKinds
  <2> QED BY <2>1, <2>2, <1>2, <1>3, <1>4, <1>5 DEF TypeOK
<1>9. Threads'
  <2>1. exit # "ok"
    BY <1>6 DEF IInv, Threads
  <2> QED BY <2>1, <1>1, <1>5 DEF IInv, Threads
<1>10. ChannelInOrder'
  BY <1>1 DEF ChannelInOrder
<1>11. ClosedIsComplete'
  BY <1>6 DEF ClosedIsComplete, Closed
<1> QED BY <1>7, <1>8, <1>9, <1>10, <1>11 DEF IInv

\* The JSON document lists what was written.
LEMMA DocumentTyped ==
  ASSUME TypeOK, Len(entries) <= MaxFields
  PROVE  /\ Document \in [whole : BOOLEAN, n : 0 .. MaxFields, entries : Seq(Entries)]
         /\ Document.whole /\ Document.n = Len(entries) /\ Document.entries = entries
<1>1. entries \in Seq(Entries) /\ Len(entries) \in 0 .. MaxFields
  BY Amounts DEF TypeOK
<1> QED BY <1>1 DEF Document

\* The JSON file is written when the database has answered.
LEMMA CloseJsonIInv == ASSUME IInv, CloseJson PROVE IInv'
<1>1. /\ writer = "finishing" /\ decode # "exited" /\ queue = << >>
      /\ json' = (IF meta = NoMeta THEN json ELSE Document)
      /\ writer' = "leaving"
      /\ UNCHANGED <<dbVars, decodeVars, cmds, err, buf, disk, entries, failed>>
  BY DEF CloseJson, Running, Finished
<1>2. /\ failed = {} /\ json = Placeholder /\ exit # "ok" /\ TypeOK /\ Closed
  BY <1>1 DEF IInv, Threads, Closed
<1>3. /\ Len(entries) = meta.n /\ meta.n \in 0 .. MaxFields /\ MaxFields \in Nat
      /\ decode \in {"joining", "exited"}
      /\ \A s \in StreamSet : disk[s] = UpTo(meta.n) /\ buf[s] = << >>
  BY <1>2, Amounts DEF IInv, ClosedIsComplete
<1>4. /\ UNCHANGED <<queue, capture_id, capture, rows, lost, cmds, buf, disk>>
      /\ UNCHANGED <<decode, exit, meta, fieldinfo, tosend, err, entries, failed>>
  BY <1>1 DEF dbVars, decodeVars
<1>5. /\ json' \in [whole : BOOLEAN, n : 0 .. MaxFields, entries : Seq(Entries)]
      /\ json'.whole /\ json'.n = meta.n /\ json'.entries = entries
  <2>1. CASE meta = NoMeta
    <3>1. Len(entries) = 0 /\ meta.n = 0
      BY <1>3, <2>1 DEF NoMeta
    <3>2. entries = << >>
      BY <3>1, <1>2, EmptySeq DEF TypeOK
    <3>3. json' = Placeholder
      BY <1>1, <1>2, <2>1
    <3> QED BY <3>1, <3>2, <3>3, <1>3 DEF Placeholder
  <2>2. CASE meta # NoMeta
    BY <1>1, <1>2, <1>3, <2>2, DocumentTyped
  <2> QED BY <2>1, <2>2
<1>6. TypeOK'
  <2>1. writer' = "leaving"
    BY <1>1
  <2> QED BY <2>1, <1>2, <1>4, <1>5 DEF TypeOK
<1>7. \A i \in 1 .. Len(Streams) : Stream(i)' = Stream(i)
  BY <1>4 DEF Stream
<1>8. StreamsInStep' /\ QueueInOrder' /\ RowsAccounted' /\ NothingLost'
  BY <1>1, <1>7, NoFieldWritten
<1>9. Threads'
  BY <1>1, <1>2, <1>4 DEF IInv, Threads
<1>10. ChannelInOrder'
  BY <1>1 DEF ChannelInOrder
<1>11. ClosedIsComplete'
  BY <1>1, <1>3, <1>4, <1>5 DEF ClosedIsComplete
<1> QED BY <1>6, <1>8, <1>9, <1>10, <1>11 DEF IInv

LEMMA JsonFailsIInv == ASSUME IInv, JsonFails PROVE IInv'
<1>1. /\ writer = "finishing" /\ decode # "exited"
      /\ json' = Torn /\ failed' = failed \union {"json"} /\ writer' = "leaving"
      /\ UNCHANGED <<dbVars, decodeVars, cmds, err, buf, disk, entries>>
  BY DEF JsonFails, Running
<1>2. /\ failed = {} /\ exit # "ok" /\ TypeOK /\ MaxFields \in Nat
  BY <1>1, Amounts DEF IInv, Threads
<1>3. /\ UNCHANGED <<queue, capture_id, capture, rows, lost, cmds, buf, disk>>
      /\ UNCHANGED <<decode, exit, meta, fieldinfo, tosend, err, entries>>
  BY <1>1 DEF dbVars, decodeVars
<1>4. json' \in [whole : BOOLEAN, n : 0 .. MaxFields, entries : Seq(Entries)]
  BY <1>1, <1>2 DEF Torn
<1>5. failed' = {"json"} /\ failed' \subseteq ErrorKinds
  BY <1>1, <1>2 DEF ErrorKinds
<1>6. TypeOK'
  <2>1. writer' = "leaving"
    BY <1>1
  <2> QED BY <2>1, <1>2, <1>3, <1>4, <1>5 DEF TypeOK
<1>7. \A i \in 1 .. Len(Streams) : Stream(i)' = Stream(i)
  BY <1>3 DEF Stream
<1>8. StreamsInStep' /\ QueueInOrder' /\ RowsAccounted' /\ NothingLost'
  <2>1. "write" \in failed' <=> "write" \in failed
    BY <1>2, <1>5
  <2> QED BY <2>1, <1>1, <1>7, NoFieldWritten
<1>9. Threads'
  BY <1>1, <1>2, <1>3 DEF IInv, Threads
<1>10. ChannelInOrder'
  BY <1>1 DEF ChannelInOrder
<1>11. ClosedIsComplete'
  BY <1>5 DEF ClosedIsComplete, Closed
<1> QED BY <1>6, <1>8, <1>9, <1>10, <1>11 DEF IInv

\* The thread ends; a buffer that is thrown away leaves a beginning of its stream.
LEMMA DropIInv == ASSUME IInv, Drop PROVE IInv'
<1>1. /\ writer = "leaving" /\ decode # "exited"
      /\ cmds' = << >> /\ writer' = "stopped"
      /\ UNCHANGED <<dbVars, decodeVars, err, entries, json, failed>>
  BY DEF Drop, Running
<1>2. PICK ok \in SUBSET StreamSet :
          /\ disk' = [s \in StreamSet |-> IF s \in ok THEN disk[s] \o buf[s] ELSE disk[s]]
          /\ buf' = [s \in StreamSet |-> << >>]
  BY DEF Drop
<1>3. /\ UNCHANGED <<queue, capture_id, capture, rows, lost>>
      /\ UNCHANGED <<decode, exit, meta, fieldinfo, tosend, err, entries, json, failed>>
  BY <1>1 DEF dbVars, decodeVars
<1>4. /\ TypeOK /\ buf \in [StreamSet -> Seq(Fields)] /\ disk \in [StreamSet -> Seq(Fields)]
      /\ Bound \in Nat
  BY Amounts DEF IInv, TypeOK
<1>5. buf' \in [StreamSet -> Seq(Fields)] /\ disk' \in [StreamSet -> Seq(Fields)]
  <2>1. \A s \in StreamSet : disk[s] \o buf[s] \in Seq(Fields)
    BY <1>4
  <2> QED BY <2>1, <1>2, <1>4
<1>6. TypeOK'
  <2>1. cmds' \in Seq(Cmds) /\ Len(cmds') <= Bound /\ writer' = "stopped"
    BY <1>1, <1>4
  <2> QED BY <2>1, <1>3, <1>4, <1>5 DEF TypeOK
<1>7. Threads'
  BY <1>1, <1>3 DEF IInv, Threads
<1>8. ChannelInOrder'
  BY <1>1 DEF ChannelInOrder
<1>9. ASSUME NEW i \in 1 .. Len(Streams)
      PROVE  Stream(i)' = UpTo(Len(Stream(i)'))
  <2> DEFINE d == disk[Streams[i]]
             b == buf[Streams[i]]
  <2>1. Streams[i] \in StreamSet
    BY StreamPlaces
  <2>2. d \in Seq(Fields) /\ b \in Seq(Fields)
    BY <2>1, <1>4
  <2>3. d \in Seq(Nat) /\ b \in Seq(Nat)
    <3>1. Fields \subseteq Nat
      BY DEF Fields
    <3> HIDE DEF d, b
    <3> QED BY <2>2, <3>1, SeqMonotonic
  <2>4. disk'[Streams[i]] \in {d, d \o b} /\ buf'[Streams[i]] = << >>
    BY <2>1, <1>2
  <2>5. d \o b = UpTo(Len(d \o b))
    BY DEF IInv, StreamsInStep, Stream
  <2> HIDE DEF d, b
  <2>6. d = UpTo(Len(d))
    BY <2>3, <2>5, UpToPrefix
  <2>7. d \o b \in Seq(Nat)
    BY <2>3
  <2>8. d \o << >> = d /\ (d \o b) \o << >> = d \o b
    BY <2>3, <2>7, ConcatEmptySeq
  <2>9. Stream(i)' \in {d, d \o b}
    BY <2>4, <2>8 DEF Stream
  <2> QED BY <2>5, <2>6, <2>9
<1>10. StreamsInStep'
  <2>1. Listed(entries)' = UpTo(Len(entries))'
    BY <1>3 DEF IInv, StreamsInStep, Listed, UpTo
  <2> QED BY <2>1, <1>1, <1>9 DEF StreamsInStep
<1>11. Given' = Given /\ Settled' = Settled
  BY <1>3 DEF Given, Settled
<1>12. QueueInOrder'
  BY <1>3, <1>11 DEF IInv, QueueInOrder, Counted
<1>13. RowsAccounted' /\ NothingLost'
  BY <1>3, <1>11 DEF IInv, RowsAccounted, NothingLost
<1>14. ClosedIsComplete'
  <2> SUFFICES ASSUME failed = {} PROVE ClosedIsComplete'
    BY <1>3 DEF ClosedIsComplete, Closed
  <2>1. Closed
    BY <1>1 DEF Closed
  <2>2. /\ decode \in {"joining", "exited"} /\ Len(entries) = meta.n
        /\ \A s \in StreamSet : disk[s] = UpTo(meta.n) /\ buf[s] = << >>
        /\ queue = << >> /\ json.whole /\ json.n = meta.n /\ json.entries = entries
    BY <2>1, <1>1 DEF IInv, ClosedIsComplete
  <2>3. \A s \in StreamSet : disk'[s] = UpTo(meta.n) /\ buf'[s] = << >>
    <3>1. \A s \in StreamSet : disk[s] \o buf[s] = disk[s]
      BY <2>2, <1>4, ConcatEmptySeq
    <3> QED BY <3>1, <2>2, <1>2
  <2> QED BY <2>2, <2>3, <1>1, <1>3 DEF ClosedIsComplete
<1> QED BY <1>6, <1>7, <1>8, <1>10, <1>12, <1>13, <1>14 DEF IInv

LEMMA WriterThreadIInv == ASSUME IInv, WriterThread PROVE IInv'
BY WriteFieldIInv, WriteFailsIInv, CloseFlushIInv, FlushFailsIInv, CloseJsonIInv,
   JsonFailsIInv, DropIInv DEF WriterThread

-----------------------------------------------------------------------------
(* What the steps of the database worker keep.                             *)

\* The worker is done with the first field of its queue, whatever became of it.
LEMMA SettleNext ==
  ASSUME IInv, queue # << >>, queue' = Tail(queue),
         UNCHANGED <<decodeVars, cmds, writerVars>>
  PROVE  LET field == Head(queue).field_id
             m == Head(queue).meta
         IN  /\ field = Settled + 1 /\ Settled' = field
             /\ field \in Fields /\ m \in Metas /\ m.n \in Nat
             /\ field <= m.n /\ m.n <= meta.n
             /\ Settled \in Nat /\ meta.n \in Nat
             /\ queue' \in Seq([field_id : Fields, meta : Metas])
             /\ QueueInOrder'
<1> DEFINE first == Head(queue)
           Item == [field_id : Fields, meta : Metas]
<1>1. /\ queue \in Seq(Item) /\ Len(entries) \in Nat /\ meta.n \in Nat /\ MaxFields \in Nat
  BY Amounts DEF IInv, TypeOK
<1> HIDE DEF Item
<1>2. /\ first = queue[1] /\ first \in Item
      /\ Tail(queue) \in Seq(Item) /\ Len(Tail(queue)) = Len(queue) - 1
      /\ Len(queue) \in Nat \ {0}
      /\ \A i \in 1 .. Len(queue) - 1 : Tail(queue)[i] = queue[i + 1]
  BY <1>1, TailShifts
<1>3. UNCHANGED <<entries, failed, meta>>
  BY DEF decodeVars, writerVars
<1>4. /\ Settled \in Nat /\ Given <= meta.n
      /\ \A i \in 1 .. Len(queue) :
             /\ queue[i].field_id = Settled + i
             /\ queue[i].field_id <= queue[i].meta.n
             /\ queue[i].meta.n <= meta.n
  BY DEF IInv, QueueInOrder, Counted
<1>5. Given \in Nat /\ Given' = Given
  BY <1>1, <1>3 DEF Given
<1>6. Settled' = Settled + 1
  BY <1>2, <1>3, <1>5 DEF Settled
<1>7. /\ first.field_id = Settled + 1
      /\ first.field_id <= first.meta.n
      /\ first.meta.n <= meta.n
  BY <1>2, <1>4
<1>8. first.field_id \in Fields /\ first.meta \in Metas /\ first.meta.n \in Nat
  BY <1>1, <1>2 DEF Item, Metas
<1>9. QueueInOrder'
  <2>1. ASSUME NEW i \in 1 .. Len(queue')
        PROVE  /\ queue'[i].field_id = Settled + 1 + i
               /\ queue'[i].field_id <= queue'[i].meta.n
               /\ queue'[i].meta.n <= meta.n
    <3>1. i + 1 \in 1 .. Len(queue) /\ queue'[i] = queue[i + 1] /\ i \in Nat
      BY <1>2
    <3>2. Settled + (i + 1) = Settled + 1 + i
      BY <3>1, <1>4
    <3> QED BY <3>1, <3>2, <1>4
  <2>2. Settled + 1 \in Nat
    BY <1>4
  <2> QED BY <2>1, <2>2, <1>3, <1>4, <1>5, <1>6 DEF QueueInOrder, Counted
<1> QED BY <1>1, <1>2, <1>4, <1>6, <1>7, <1>8, <1>9 DEF Item

\* A step of the worker does not touch the other two threads.
LEMMA DbStepIInv ==
  ASSUME IInv, queue # << >>, queue' = Tail(queue),
         UNCHANGED <<decodeVars, cmds, writerVars>>,
         capture_id' \in BOOLEAN, capture' \in Metas \union {NoRow},
         rows' \in Seq(Fields), lost' \subseteq Fields,
         RowsAccounted', NothingLost'
  PROVE  IInv'
<1>1. queue' \in Seq([field_id : Fields, meta : Metas]) /\ QueueInOrder'
  BY SettleNext
<1>2. /\ UNCHANGED <<decode, exit, meta, fieldinfo, tosend, cmds>>
      /\ UNCHANGED <<writer, err, buf, disk, entries, json, failed>>
  BY DEF decodeVars, writerVars
<1>3. TypeOK'
  BY <1>1, <1>2 DEF IInv, TypeOK
<1>4. Threads'
  BY <1>2 DEF IInv, Threads, Placeholder
<1>5. ChannelInOrder'
  BY <1>2 DEF IInv, ChannelInOrder, Waiting, Counted
<1>6. StreamsInStep'
  <2>1. \A i \in 1 .. Len(Streams) : Stream(i)' = Stream(i)
    BY <1>2 DEF Stream
  <2> QED BY <2>1, <1>2 DEF IInv, StreamsInStep
<1>7. ClosedIsComplete'
  <2>1. Closed => writer = "finishing"
    BY DEF IInv, ClosedIsComplete
  <2> QED BY <2>1, <1>2 DEF IInv, ClosedIsComplete, Closed
<1> QED BY <1>1, <1>3, <1>4, <1>5, <1>6, <1>7 DEF IInv

\* The rows go on counting.
LEMMA NextRow ==
  ASSUME NEW field \in Nat, NEW list \in Seq(Nat), field > 0,
         \A i \in 1 .. Len(list) - 1 : list[i] < list[i + 1],
         \A i \in 1 .. Len(list) : list[i] <= field - 1
  PROVE  LET new == Append(list, field)
         IN  /\ \A i \in 1 .. Len(new) - 1 : new[i] < new[i + 1]
             /\ \A i \in 1 .. Len(new) : new[i] <= field
             /\ {new[i] : i \in 1 .. Len(new)} = {list[i] : i \in 1 .. Len(list)} \union {field}
<1> DEFINE new == Append(list, field)
           L == Len(list)
<1>1. /\ L \in Nat /\ Len(new) = L + 1 /\ new[L + 1] = field
      /\ \A i \in 1 .. L : new[i] = list[i] /\ list[i] \in Nat
  BY AppendProperties
<1> HIDE DEF new
<1>2. \A i \in 1 .. L + 1 : new[i] <= field
  BY <1>1
<1>3. ASSUME NEW i \in 1 .. L PROVE new[i] < new[i + 1]
  <2>1. CASE i = L
    BY <2>1, <1>1
  <2>2. CASE i # L
    <3>1. i \in 1 .. L - 1 /\ i + 1 \in 1 .. L
      BY <2>2, <1>1
    <3>2. list[i] < list[i + 1]
      BY <3>1
    <3> QED BY <3>1, <3>2, <1>1
  <2> QED BY <2>1, <2>2
<1>4. {new[i] : i \in 1 .. L + 1} = {list[i] : i \in 1 .. L} \union {field}
  <2>1. ASSUME NEW i \in 1 .. L + 1
        PROVE  new[i] \in {list[k] : k \in 1 .. L} \union {field}
    <3>1. i \in 1 .. L \/ i = L + 1
      BY <1>1
    <3> QED BY <3>1, <1>1
  <2>2. ASSUME NEW i \in 1 .. L PROVE list[i] \in {new[k] : k \in 1 .. L + 1}
    <3>1. i \in 1 .. L + 1
      BY <1>1
    <3> QED BY <3>1, <1>1
  <2>3. field \in {new[k] : k \in 1 .. L + 1}
    <3>1. L + 1 \in 1 .. L + 1
      BY <1>1
    <3> QED BY <3>1, <1>1
  <2> QED BY <2>1, <2>2, <2>3
<1>5. Len(new) - 1 = L
  BY <1>1
<1> QED BY <1>1, <1>2, <1>3, <1>4, <1>5 DEF new

\* A transaction commits: the capture row is there, and counts the field.
LEMMA CommitIInv ==
  ASSUME IInv, Commit, UNCHANGED <<decodeVars, cmds, writerVars>>
  PROVE  IInv'
<1>12. PICK field, m : field = Head(queue).field_id /\ m = Head(queue).meta
  OBVIOUS
<1>1. /\ queue # << >> /\ queue' = Tail(queue) /\ lost' = lost
      /\ capture_id => capture # NoRow
      /\ capture' = IF capture_id THEN [capture EXCEPT !.n = m.n] ELSE m
      /\ capture_id' = TRUE
      /\ rows' = Append(rows, field)
  BY <1>12 DEF Commit, ReferencesCapture
<1>2. /\ field = Settled + 1 /\ Settled' = field
      /\ field \in Fields /\ m \in Metas /\ m.n \in Nat
      /\ field <= m.n /\ m.n <= meta.n
      /\ Settled \in Nat /\ meta.n \in Nat
  BY <1>1, <1>12, SettleNext
<1>3. /\ rows \in Seq(Fields) /\ lost \subseteq Fields /\ capture \in Metas \union {NoRow}
      /\ MaxFields \in Nat /\ Fields \subseteq Nat
  BY Amounts DEF IInv, TypeOK, Fields
<1>4. meta' = meta
  BY DEF decodeVars
<1>5. /\ capture' \in Metas /\ capture'.n = m.n
  BY <1>1, <1>2, <1>3 DEF Metas
<1>6. m.n > 0
  BY <1>2
<1>7. capture' # NoRow
  BY <1>5, <1>6 DEF NoRow
<1>8. rows' \in Seq(Fields)
  BY <1>1, <1>2, <1>3
<1>9. RowsAccounted'
  <2>1. /\ \A i \in 1 .. Len(rows) - 1 : rows[i] < rows[i + 1]
        /\ \A i \in 1 .. Len(rows) : rows[i] <= field - 1
    BY <1>2 DEF IInv, RowsAccounted
  <2>2. rows \in Seq(Nat) /\ field \in Nat /\ field > 0
    <3>1. rows \in Seq(Nat)
      BY <1>3, SeqMonotonic
    <3>2. field \in Nat /\ field > 0
      BY <1>2
    <3> QED BY <3>1, <3>2
  <2>3. /\ \A i \in 1 .. Len(rows') - 1 : rows'[i] < rows'[i + 1]
        /\ \A i \in 1 .. Len(rows') : rows'[i] <= field
        /\ {rows'[i] : i \in 1 .. Len(rows')} = {rows[i] : i \in 1 .. Len(rows)} \union {field}
    BY <2>1, <2>2, <1>1, NextRow
  <2>4. lost \subseteq 1 .. Settled
    BY DEF IInv, RowsAccounted
  <2>5. lost' \subseteq 1 .. field
    BY <2>4, <1>1, <1>2
  <2>6. {rows[i] : i \in 1 .. Len(rows)} = (1 .. Settled) \ lost
    <3>1. CASE capture # NoRow
      BY <3>1 DEF IInv, RowsAccounted
    <3>2. CASE capture = NoRow
      <4>1. ~capture_id /\ rows = << >>
        BY <1>1, <3>2 DEF IInv, RowsAccounted
      <4>2. lost = 1 .. Settled
        BY <4>1 DEF IInv, RowsAccounted
      <4> QED BY <4>1, <4>2
    <3> QED BY <3>1, <3>2
  <2>7. (1 .. field) \ lost = ((1 .. Settled) \ lost) \union {field}
    BY <2>4, <1>2
  <2>8. {rows'[i] : i \in 1 .. Len(rows')} = (1 .. field) \ lost'
    BY <2>3, <2>6, <2>7, <1>1
  <2> QED BY <2>3, <2>5, <2>8, <1>1, <1>2, <1>7 DEF RowsAccounted
<1>10. NothingLost'
  <2> SUFFICES ASSUME lost = {} PROVE NothingLost'
    BY <1>1 DEF NothingLost
  <2>1. rows = UpTo(Settled)
    BY DEF IInv, NothingLost
  <2>2. rows' = UpTo(field)
    BY <2>1, <1>1, <1>2, UpToNext
  <2>3. field = meta.n => capture'.n = meta.n
    BY <1>2, <1>5
  <2>4. rows' = UpTo(Settled')
    BY <2>2, <1>2
  <2>5. Settled' = meta'.n => capture'.n = meta'.n
    BY <2>3, <1>2, <1>4
  <2>6. Settled' > 0
    BY <1>2
  <2> QED BY <2>4, <2>5, <2>6, <1>7 DEF NothingLost
<1>11. capture_id' \in BOOLEAN /\ lost' \subseteq Fields
  BY <1>1, <1>3
<1> QED BY <1>1, <1>5, <1>8, <1>9, <1>10, <1>11, DbStepIInv

\* A statement fails: the field is lost, and maybe the capture row for good.
LEMMA StatementFailsIInv ==
  ASSUME IInv, NEW before \in BOOLEAN, StatementFails(before),
         UNCHANGED <<decodeVars, cmds, writerVars>>
  PROVE  IInv'
<1>9. PICK field : field = Head(queue).field_id
  OBVIOUS
<1>1. /\ queue # << >> /\ queue' = Tail(queue)
      /\ lost' = lost \union {field}
      /\ UNCHANGED <<capture, rows>>
  BY <1>9 DEF StatementFails
<1>2. capture_id' = IF before THEN capture_id ELSE TRUE
  BY DEF StatementFails
<1>3. /\ field = Settled + 1 /\ Settled' = field /\ field \in Fields /\ Settled \in Nat
  BY <1>1, <1>9, SettleNext
<1>4. /\ rows \in Seq(Fields) /\ lost \subseteq Fields /\ capture \in Metas \union {NoRow}
      /\ MaxFields \in Nat /\ Fields \subseteq Nat
  BY Amounts DEF IInv, TypeOK, Fields
<1>5. capture_id' \in BOOLEAN /\ (~capture_id' => ~capture_id)
  <2>1. capture_id \in BOOLEAN
    BY DEF IInv, TypeOK
  <2> QED BY <2>1, <1>2
<1>6. RowsAccounted'
  <2>1. /\ \A i \in 1 .. Len(rows) - 1 : rows[i] < rows[i + 1]
        /\ \A i \in 1 .. Len(rows) : rows[i] <= Settled
        /\ lost \subseteq 1 .. Settled
        /\ capture = NoRow => rows = << >>
        /\ ~capture_id => capture = NoRow /\ lost = 1 .. Settled
        /\ capture # NoRow => {rows[i] : i \in 1 .. Len(rows)} = (1 .. Settled) \ lost
    BY DEF IInv, RowsAccounted
  <2>2. \A i \in 1 .. Len(rows) : rows[i] <= field
    <3>1. \A i \in 1 .. Len(rows) : rows[i] \in Nat
      BY <1>4, ElementOfSeq
    <3> QED BY <3>1, <2>1, <1>3
  <2>3. lost' \subseteq 1 .. field
    BY <2>1, <1>1, <1>3
  <2>4. lost = 1 .. Settled => lost' = 1 .. field
    BY <1>1, <1>3
  <2>5. (1 .. field) \ lost' = (1 .. Settled) \ lost
    BY <2>1, <1>1, <1>3
  <2> QED BY <2>1, <2>2, <2>3, <2>4, <2>5, <1>1, <1>3, <1>5 DEF RowsAccounted
<1>7. NothingLost'
  BY <1>1 DEF NothingLost
<1>8. rows' \in Seq(Fields) /\ lost' \subseteq Fields /\ capture' \in Metas \union {NoRow}
  BY <1>1, <1>3, <1>4
<1> QED BY <1>1, <1>5, <1>6, <1>7, <1>8, DbStepIInv

\* There is no capture row to refer to, because a transaction that should have
\* written it failed.
LEMMA ReferenceFailsIInv ==
  ASSUME IInv, ReferenceFails, UNCHANGED <<decodeVars, cmds, writerVars>>
  PROVE  IInv'
<1>1. /\ queue # << >> /\ queue' = Tail(queue)
      /\ capture_id /\ capture = NoRow
      /\ UNCHANGED <<capture_id, capture, rows, lost>>
  BY DEF ReferenceFails, ReferencesCapture
<1>2. /\ Settled' = Settled + 1 /\ Settled \in Nat
  BY <1>1, SettleNext
<1>3. /\ rows \in Seq(Fields) /\ lost \subseteq Fields /\ capture \in Metas \union {NoRow}
      /\ capture_id \in BOOLEAN
  BY DEF IInv, TypeOK
<1>4. rows = << >> /\ lost \subseteq 1 .. Settled
  BY <1>1 DEF IInv, RowsAccounted
<1>5. lost' \subseteq 1 .. Settled'
  BY <1>1, <1>2, <1>4
<1>6. RowsAccounted'
  BY <1>1, <1>4, <1>5 DEF RowsAccounted
<1>7. lost # {}
  BY <1>1 DEF IInv, NothingLost
<1>8. NothingLost'
  BY <1>1, <1>7 DEF NothingLost
<1>9. /\ rows' \in Seq(Fields) /\ lost' \subseteq Fields
      /\ capture' \in Metas \union {NoRow} /\ capture_id' \in BOOLEAN
  BY <1>1, <1>3
<1> QED BY <1>1, <1>6, <1>8, <1>9, DbStepIInv

LEMMA DbThreadIInv == ASSUME IInv, DbThread PROVE IInv'
BY CommitIInv, StatementFailsIInv, ReferenceFailsIInv DEF DbThread, DbNext

-----------------------------------------------------------------------------
(* The theorems.                                                           *)

LEMMA NextIInv == IInv /\ [Next]_vars => IInv'
<1> SUFFICES ASSUME IInv, [Next]_vars PROVE IInv'
  OBVIOUS
<1>1. CASE UNCHANGED vars
  <2>1. UNCHANGED <<dbVars, decodeVars, cmds, writerVars>>
    BY <1>1 DEF vars
  <2>2. UNCHANGED <<decode, exit, meta, fieldinfo, tosend, cmds>>
    BY <2>1 DEF decodeVars
  <2>3. /\ tosend \in Seq(Cmds) /\ cmds \in Seq(Cmds) /\ Len(tosend) <= 2 /\ Len(cmds) <= Bound
        /\ decode \in {"decoding", "sending", "closing", "joining", "exited"}
        /\ exit \in {"none", "ok", "error"}
    BY DEF IInv, TypeOK
  <2>4. ChannelInOrder'
    BY <2>1, <2>2 DEF IInv, ChannelInOrder, Waiting, Counted, writerVars
  <2>5. /\ decode # "exited" => exit = "none" /\ (decode = "sending" <=> tosend # << >>)
        /\ exit = "ok" => writer = "stopped"
        /\ Closed => decode \in {"joining", "exited"}
    BY DEF IInv, Threads, ClosedIsComplete
  <2> QED BY <2>1, <2>2, <2>3, <2>4, <2>5, QuietIInv
<1>2. CASE Next
  BY <1>2, DecodeThreadIInv, WriterThreadIInv, DbThreadIInv DEF Next
<1> QED BY <1>1, <1>2

\* A decode that has ended well has joined the thread, which met no error.
LEMMA ExitIsComplete == ASSUME IInv PROVE CleanExitIsComplete
<1> SUFFICES ASSUME exit = "ok", failed = {} PROVE CleanExitIsComplete
  BY DEF CleanExitIsComplete
<1>1. writer = "stopped" /\ Closed
  BY DEF IInv, Threads, Closed
<1>2. /\ Len(entries) = meta.n /\ queue = << >>
      /\ \A s \in StreamSet : disk[s] = UpTo(meta.n)
      /\ json.whole /\ json.n = meta.n /\ json.entries = entries
  BY <1>1 DEF IInv, ClosedIsComplete
<1>3. Listed(json.entries) = UpTo(meta.n)
  BY <1>2 DEF IInv, StreamsInStep
<1>4. Len(entries) \in Nat /\ meta.n \in Nat
  BY Amounts DEF IInv
<1>5. Settled = meta.n
  BY <1>2, <1>4 DEF Settled, Given
<1>6. lost = {} => rows = UpTo(meta.n) /\ (meta # NoMeta => capture.n = meta.n)
  BY <1>5 DEF IInv, NothingLost, Threads
<1> QED BY <1>2, <1>3, <1>6 DEF CleanExitIsComplete

\* What the worker is done with is what was written, once its queue is empty.
LEMMA RowsAreLocal == ASSUME IInv PROVE LossIsLocal
<1>1. /\ \A i \in 1 .. Len(rows) - 1 : rows[i] < rows[i + 1]
      /\ capture = NoRow => rows = << >>
      /\ capture # NoRow => {rows[i] : i \in 1 .. Len(rows)} = (1 .. Settled) \ lost
  BY DEF IInv, RowsAccounted
<1>2. queue = << >> /\ writer = "running" => Settled = Len(entries)
  BY Amounts DEF IInv, Threads, Settled, Given
<1> QED BY <1>1, <1>2 DEF LossIsLocal

\* The types hold, and the channel holds no more than its bound, for any streams
\* and any bounds.
THEOREM PipelineTyped == Spec => []TypeOK
BY InitIInv, NextIInv, PTL DEF Spec, IInv

\* The streams never get out of step, whichever of them fails and whatever of
\* their buffers is thrown away.
THEOREM PipelineInStep == Spec => []StreamsInStep
BY InitIInv, NextIInv, PTL DEF Spec, IInv

\* A decode that ends well and met no error has every field in every output.
THEOREM PipelineComplete == Spec => []CleanExitIsComplete
BY InitIInv, NextIInv, ExitIsComplete, PTL DEF Spec

\* A transaction that fails loses its own field, for any number of failures.
THEOREM PipelineLossLocal == Spec => []LossIsLocal
BY InitIInv, NextIInv, RowsAreLocal, PTL DEF Spec

-----------------------------------------------------------------------------
(* What a JSON entry shows.                                                *)

\* The largest and the smallest of some numbers.
LEMMA MaxIs ==
  ASSUME NEW S \in SUBSET Nat, NEW x \in S, \A y \in S : y <= x
  PROVE  Max(S) = x
<1>1. \A y \in S : x >= y
  OBVIOUS
<1>2. \A z \in S : (\A y \in S : z >= y) => z = x
  OBVIOUS
<1> QED BY <1>1, <1>2 DEF Max

LEMMA MinIs ==
  ASSUME NEW S \in SUBSET Nat, NEW x \in S, \A y \in S : x <= y
  PROVE  Min(S) = x
<1>1. \A y \in S : x =< y
  OBVIOUS
<1>2. \A z \in S : (\A y \in S : z =< y) => z = x
  OBVIOUS
<1> QED BY <1>1, <1>2 DEF Min

\* Some numbers have a smallest.
LEMMA MinAmong ==
  ASSUME NEW S \in SUBSET Nat, S # {}
  PROVE  Min(S) \in S
<1> DEFINE less == {ss \in Nat \X Nat : ss[1] < ss[2]}
<1>1. IsWellFoundedOn(less, Nat)
  BY NatLessThanWellFounded DEF OpToRel
<1> HIDE DEF less
<1>2. PICK x \in S : \A y \in S : <<y, x>> \notin less
  BY <1>1, WFMin
<1>3. \A y \in S : x <= y
  <2>1. \A y \in S : ~(y < x)
    BY <1>2 DEF less
  <2> QED BY <2>1
<1> QED BY <1>3, MinIs

\* Three do not go into two.
LEMMA NotThree ==
  ASSUME NEW S, IsFiniteSet(S), Cardinality(S) <= 2,
         NEW a \in S, NEW b \in S, NEW c \in S, a # b, a # c, b # c
  PROVE  FALSE
<1>1. IsFiniteSet({a}) /\ Cardinality({a}) = 1
  BY FS_Singleton
<1>2. IsFiniteSet({a} \cup {b}) /\ Cardinality({a} \cup {b}) = 2
  <2>1. Cardinality({a} \cup {b}) = Cardinality({a}) + 1
    BY <1>1, FS_AddElement
  <2> QED BY <2>1, <1>1, FS_AddElement
<1>3. Cardinality(({a} \cup {b}) \cup {c}) = 3
  <2>1. c \notin {a} \cup {b}
    OBVIOUS
  <2>2. Cardinality(({a} \cup {b}) \cup {c}) = Cardinality({a} \cup {b}) + 1
    BY <2>1, <1>2, FS_AddElement
  <2> QED BY <2>2, <1>2
<1>4. ({a} \cup {b}) \cup {c} \in SUBSET S
  OBVIOUS
<1>5. Cardinality(({a} \cup {b}) \cup {c}) <= Cardinality(S)
  BY <1>4, FS_Subset
<1>6. Cardinality(S) \in Nat
  BY FS_CardinalityType
<1> QED BY <1>3, <1>5, <1>6

\* The next place of a grid.
NextPlace(k, g, r) ==
    /\ r \in Nat /\ r >= k /\ r % g = 0
    /\ \A n \in Nat : n >= k /\ n % g = 0 => n >= r

\* A number is rounded up to it.
LEMMA RoundedUp ==
  ASSUME NEW k \in Nat, NEW g \in Nat \ {0}, NEW r, r = ((k + g - 1) \div g) * g
  PROVE  NextPlace(k, g, r)
<1>1. PICK q \in Nat : q = (k + g - 1) \div g
  <2>1. k + g - 1 \in Nat
    OBVIOUS
  <2> QED BY <2>1
<1>2. PICK m \in 0 .. g - 1 : k + g - 1 = q * g + m
  <2>1. k + g - 1 \in Nat
    OBVIOUS
  <2>2. k + g - 1 = g * ((k + g - 1) \div g) + ((k + g - 1) % g) /\ (k + g - 1) % g \in 0 .. g - 1
    BY <2>1
  <2> QED BY <2>2, <1>1
<1>3. q * g \in Nat /\ q * g >= k /\ q * g <= k + g - 1
  <2>1. q * g \in Nat
    OBVIOUS
  <2> QED BY <2>1, <1>2
<1>4. (q * g) % g = 0
  OBVIOUS
<1>5. ASSUME NEW n \in Nat, n >= k, n % g = 0
      PROVE  n >= q * g
  <2>1. PICK p \in Nat : n = p * g
    <3>1. PICK p \in Nat : p = n \div g
      OBVIOUS
    <3>2. n = g * p + (n % g)
      BY <3>1
    <3>3. g * p = p * g /\ p * g \in Nat
      OBVIOUS
    <3>4. n = p * g
      BY <3>2, <3>3, <1>5
    <3> QED BY <3>4
  <2>2. ASSUME p < q PROVE FALSE
    <3>1. p + 1 <= q
      BY <2>2
    <3>2. (p + 1) * g <= q * g
      BY <3>1
    <3>3. (p + 1) * g = p * g + g /\ p * g \in Nat
      OBVIOUS
    <3> QED BY <3>2, <3>3, <2>1, <1>3, <1>5
  <2>3. q * g <= p * g
    BY <2>2
  <2> QED BY <2>1, <2>3
<1> QED BY <1>1, <1>3, <1>4, <1>5 DEF NextPlace

\* What goes with the entries: a field that does not end its call repeats an
\* earlier one,
Repeats == \A k \in DOMAIN fieldinfo : ~fieldinfo[k].ends => \E o \in SameAs(k) : o < k

\* and an entry shows the field that repeats its own, if that was written and
\* reaches it.
Reaching(k, p, n) == p \in SameAs(k) /\ k < p /\ p <= n /\ AliasReaches(k, p)
ShownIn(list) ==
    \A k \in 1 .. Len(list) :
        /\ list[k].shows = k \/ Reaching(k, list[k].shows, Len(list))
        /\ \A p \in SameAs(k) : Reaching(k, p, Len(list)) => list[k].shows = p

JInv == Repeats /\ (Plain => ShownIn(entries))

\* The fields decoded are those that are counted, and the entries are of the
\* first of them.
LEMMA FieldsKnown ==
  ASSUME IInv
  PROVE  /\ fieldinfo \in Seq([seq_no : Fields, ends : BOOLEAN])
         /\ Len(fieldinfo) = meta.n /\ meta.n \in Nat /\ DOMAIN fieldinfo = 1 .. meta.n
         /\ entries \in Seq(Entries) /\ DOMAIN entries = 1 .. Len(entries)
         /\ Len(entries) \in Nat /\ Len(entries) <= meta.n
         /\ \A i \in 1 .. Len(entries) : entries[i].field = i
         /\ \A k : IsFiniteSet(SameAs(k)) /\ SameAs(k) \subseteq 1 .. meta.n
<1>1. /\ fieldinfo \in Seq([seq_no : Fields, ends : BOOLEAN]) /\ Len(fieldinfo) = meta.n
      /\ entries \in Seq(Entries)
  BY DEF IInv, TypeOK
<1>2. meta.n \in Nat /\ Len(entries) \in Nat
  BY Amounts DEF IInv
<1>3. DOMAIN fieldinfo = 1 .. meta.n /\ DOMAIN entries = 1 .. Len(entries)
  BY <1>1
<1>4. Len(entries) <= meta.n
  BY <1>2 DEF IInv, QueueInOrder, Given
<1>5. ASSUME NEW i \in 1 .. Len(entries)
      PROVE  entries[i].field = i
  <2>1. Listed(entries) = UpTo(Len(entries))
    BY DEF IInv, StreamsInStep
  <2>2. Listed(entries)[i] = entries[i].field /\ UpTo(Len(entries))[i] = i
    BY <1>3 DEF Listed, UpTo
  <2> QED BY <2>1, <2>2
<1>6. ASSUME NEW k
      PROVE  IsFiniteSet(SameAs(k)) /\ SameAs(k) \subseteq 1 .. meta.n
  <2>1. SameAs(k) \in SUBSET (1 .. meta.n)
    BY <1>3 DEF SameAs
  <2>2. IsFiniteSet(1 .. meta.n)
    BY <1>2, FS_Interval
  <2> QED BY <2>1, <2>2, FS_Subset
<1> QED BY <1>1, <1>2, <1>3, <1>4, <1>5, <1>6

\* A field is written again once at most.
LEMMA OneOther ==
  ASSUME IInv, Plain, NEW k \in 1 .. meta.n, NEW p \in SameAs(k), NEW q \in SameAs(k),
         p # k, q # k
  PROVE  p = q
<1>1. k \in SameAs(k) /\ Cardinality(SameAs(k)) <= 2 /\ IsFiniteSet(SameAs(k))
  BY FieldsKnown DEF SameAs, Plain
<1> QED BY <1>1, NotThree

\* Nothing is shown anew, and no field decoded, by the other steps.
LEMMA ShownRests ==
  ASSUME JInv, UNCHANGED <<fieldinfo, meta, entries>>
  PROVE  JInv'
BY DEF JInv, Repeats, Plain, ShownIn, Reaching, SameAs, AliasReaches

\* The entry of the field written is pushed, and the one it reaches shows it.
LEMMA PushShows ==
  ASSUME IInv, Plain, ShownIn(entries), NEW w \in 1 .. meta.n, w = Len(entries) + 1, w \in Fields
  PROVE  ShownIn(Pushed(w))
<1> DEFINE same == {i \in DOMAIN entries : fieldinfo[entries[i].field].seq_no = fieldinfo[w].seq_no}
<1>1. PICK E \in Nat : E = Len(entries)
  BY FieldsKnown
<1>2. /\ w = E + 1 /\ E <= meta.n /\ meta.n \in Nat /\ DOMAIN fieldinfo = 1 .. meta.n
      /\ entries \in Seq(Entries) /\ DOMAIN entries = 1 .. E
      /\ \A i \in 1 .. E : entries[i].field = i /\ entries[i] \in Entries
  <2>1. /\ entries \in Seq(Entries) /\ Len(entries) = E
    BY <1>1, FieldsKnown
  <2>2. \A i \in 1 .. E : entries[i] \in Entries
    BY <2>1
  <2> QED BY <1>1, <2>1, <2>2, FieldsKnown
<1>3. PICK pushed : pushed = Append(entries, [field |-> w, shows |-> w])
  OBVIOUS
<1>4. /\ pushed \in Seq(Entries) /\ Len(pushed) = E + 1 /\ pushed[w] = [field |-> w, shows |-> w]
      /\ \A i \in 1 .. E : pushed[i] = entries[i]
  <2>1. [field |-> w, shows |-> w] \in Entries
    BY DEF Entries
  <2> QED BY <2>1, <1>1, <1>2, <1>3, AppendProperties
<1>5. same = {i \in 1 .. E : i \in SameAs(w)}
  BY <1>2 DEF SameAs
<1>6. Pushed(w) = IF same = {} \/ ~AliasReaches(Max(same), Len(pushed)) THEN pushed
                  ELSE [pushed EXCEPT ![Max(same)].shows = w]
  BY <1>3 DEF Pushed
<1> HIDE DEF same
<1>7. PICK new : new = Pushed(w)
  OBVIOUS
<1>8. Len(new) = w
  BY <1>1, <1>2, <1>7, PushedNext
<1>9. ASSUME NEW i \in same
      PROVE  Max(same) = i
  <2>1. i \in SameAs(w) /\ i # w /\ i \in 1 .. E
    BY <1>2, <1>5
  <2>2. \A j \in same : j \in SameAs(w) /\ j # w
    BY <1>2, <1>5
  <2>3. \A j \in same : j = i
    BY <2>1, <2>2, OneOther
  <2>4. same \in SUBSET Nat /\ (\A j \in same : j <= i)
    BY <1>5, <2>3
  <2> QED BY <2>4, MaxIs
<1>10. new[w].shows = w
  <2>1. CASE same = {} \/ ~AliasReaches(Max(same), Len(pushed))
    BY <2>1, <1>4, <1>6, <1>7
  <2>2. CASE ~(same = {} \/ ~AliasReaches(Max(same), Len(pushed)))
    <3>1. PICK i \in same : Max(same) = i
      BY <2>2, <1>9
    <3>2. i # w /\ i \in 1 .. E
      BY <3>1, <1>2, <1>5
    <3>3. w \in DOMAIN pushed
      BY <1>2, <1>4
    <3>4. new = [pushed EXCEPT ![i].shows = w]
      BY <2>2, <3>1, <1>6, <1>7
    <3> QED BY <3>2, <3>3, <3>4, <1>4
  <2> QED BY <2>1, <2>2
<1>11. ASSUME NEW k \in 1 .. E
       PROVE  new[k].shows = IF k \in SameAs(w) /\ AliasReaches(k, w) THEN w ELSE entries[k].shows
  <2>1. CASE same = {}
    <3>1. k \notin SameAs(w)
      BY <2>1, <1>5
    <3> QED BY <2>1, <3>1, <1>4, <1>6, <1>7
  <2>2. CASE same # {}
    <3>1. PICK i \in same : Max(same) = i
      BY <2>2, <1>9
    <3>2. i \in 1 .. E /\ i \in SameAs(w) /\ Len(pushed) = w
      BY <3>1, <1>2, <1>4, <1>5
    <3>3. k \in SameAs(w) => k = i
      BY <3>1, <1>5, <1>9
    <3>4. CASE ~AliasReaches(i, w)
      <4>1. new = pushed
        BY <2>2, <3>1, <3>2, <3>4, <1>6, <1>7
      <4> QED BY <4>1, <3>3, <3>4, <1>4
    <3>5. CASE AliasReaches(i, w)
      <4>1. new = [pushed EXCEPT ![i].shows = w]
        BY <2>2, <3>1, <3>2, <3>5, <1>6, <1>7
      <4>2. k \in DOMAIN pushed /\ pushed[k] = entries[k] /\ pushed[k] \in Entries
        BY <1>2, <1>4
      <4>3. CASE k = i
        <5>1. new[k] = [pushed[k] EXCEPT !.shows = w]
          BY <4>1, <4>2, <4>3
        <5>2. new[k].shows = w
          BY <5>1, <4>2 DEF Entries
        <5> QED BY <5>2, <4>3, <3>2, <3>5
      <4>4. CASE k # i
        <5>1. new[k] = pushed[k]
          BY <4>1, <4>2, <4>4
        <5> QED BY <5>1, <4>2, <4>4, <3>3
      <4> QED BY <4>3, <4>4
    <3> QED BY <3>4, <3>5
  <2> QED BY <2>1, <2>2
<1>12. \A k : \A p \in SameAs(k) : p \in Nat
  BY FieldsKnown
<1>13. ASSUME NEW k \in 1 .. w
       PROVE  /\ new[k].shows = k \/ Reaching(k, new[k].shows, w)
              /\ \A p \in SameAs(k) : Reaching(k, p, w) => new[k].shows = p
  <2>1. k = w \/ k \in 1 .. E
    BY <1>2
  <2>2. CASE k = w
    <3>1. \A p \in SameAs(w) : ~Reaching(w, p, w)
      BY <1>12 DEF Reaching
    <3> QED BY <2>2, <3>1, <1>10
  <2>3. CASE k \in 1 .. E
    <3>1. /\ entries[k].shows = k \/ Reaching(k, entries[k].shows, E)
          /\ \A p \in SameAs(k) : Reaching(k, p, E) => entries[k].shows = p
      BY <2>3, <1>1 DEF ShownIn
    <3>2. k \in SameAs(w) <=> w \in SameAs(k)
      BY <2>3, <1>2 DEF SameAs
    <3>3. CASE k \in SameAs(w) /\ AliasReaches(k, w)
      <4>1. new[k].shows = w
        BY <2>3, <3>3, <1>11
      <4>2. Reaching(k, w, w)
        BY <2>3, <3>2, <3>3, <1>2 DEF Reaching
      <4>3. ASSUME NEW p \in SameAs(k), Reaching(k, p, w)
            PROVE  p = w
        <5>1. k \in 1 .. meta.n /\ w # k /\ p # k /\ w \in SameAs(k)
          BY <2>3, <3>2, <3>3, <4>3, <1>2, <1>12 DEF Reaching
        <5> QED BY <5>1, OneOther
      <4> QED BY <4>1, <4>2, <4>3
    <3>4. CASE ~(k \in SameAs(w) /\ AliasReaches(k, w))
      <4>1. new[k].shows = entries[k].shows
        BY <2>3, <3>4, <1>11
      <4>2. ASSUME NEW p
            PROVE  Reaching(k, p, w) <=> Reaching(k, p, E)
        <5>1. Reaching(k, p, E) => Reaching(k, p, w)
          BY <1>2, <1>12 DEF Reaching
        <5>2. Reaching(k, p, w) => p # w
          BY <3>2, <3>4 DEF Reaching
        <5>3. Reaching(k, p, w) => Reaching(k, p, E)
          BY <5>2, <1>2, <1>12 DEF Reaching
        <5> QED BY <5>1, <5>3
      <4> QED BY <4>1, <4>2, <3>1
    <3> QED BY <3>3, <3>4
  <2> QED BY <2>1, <2>2, <2>3
<1> QED BY <1>7, <1>8, <1>13 DEF ShownIn

\* So the entries keep showing what they should when a field is written,
LEMMA WriteShows == ASSUME IInv, JInv, WriteField PROVE JInv'
<1>1. PICK w : w = Head(cmds).field
  OBVIOUS
<1>2. /\ w = Len(entries) + 1 /\ w \in Fields /\ w \in 1 .. meta.n
      /\ entries' = Pushed(w) /\ UNCHANGED <<fieldinfo, meta>>
  <2>1. PICK m : m = Head(cmds).meta
    OBVIOUS
  <2>2. w = Len(entries) + 1 /\ w \in Fields /\ m \in Metas /\ w <= m.n /\ m.n <= meta.n
    BY <1>1, <2>1, NextField DEF WriteField
  <2>3. m.n \in Nat /\ w \in Nat \ {0}
    BY <2>2 DEF Metas, Fields
  <2>4. w \in 1 .. meta.n
    BY <2>2, <2>3, FieldsKnown
  <2> QED BY <1>1, <2>2, <2>4 DEF WriteField, decodeVars
<1>3. Repeats'
  BY <1>2 DEF JInv, Repeats, SameAs
<1>4. ASSUME Plain'
      PROVE  ShownIn(entries)'
  <2>1. Plain
    BY <1>2, <1>4 DEF Plain, SameAs
  <2>2. ShownIn(Pushed(w))
    BY <2>1, <1>2, PushShows DEF JInv
  <2> QED BY <2>2, <1>2 DEF ShownIn, Reaching, SameAs, AliasReaches
<1> QED BY <1>3, <1>4 DEF JInv

\* A list of some things is one of more.
LEMMA SeqGrows ==
  ASSUME NEW S, NEW T, S \subseteq T, NEW s \in Seq(S)
  PROVE  s \in Seq(T)
<1>1. s \in [1 .. Len(s) -> S] /\ Len(s) \in Nat
  OBVIOUS
<1>2. s \in [1 .. Len(s) -> T]
  BY <1>1
<1> QED BY <1>1, <1>2

\* A call of decode brings fields of which all but the last repeat an
\* earlier one; none of them has an entry yet.
LEMMA DecodeShows ==
  ASSUME IInv, JInv, NEW seqs, NEW levels, Decode(seqs, levels),
         NEW K \in Nat, seqs \in Seq(Nat), Len(seqs) = K,
         \A i \in 1 .. K - 1 : \E o \in 1 .. meta.n : seqs[i] = fieldinfo[o].seq_no
  PROVE  JInv'
<1>1. PICK more : more = [i \in 1 .. K |-> [seq_no |-> seqs[i], ends |-> i = K]]
  OBVIOUS
<1>2. PICK N \in Nat : N = meta.n
  BY FieldsKnown
<1>3. /\ fieldinfo' = fieldinfo \o more /\ UNCHANGED entries
  BY <1>1 DEF Decode, writerVars
<1>4. /\ fieldinfo \in Seq([seq_no : Fields, ends : BOOLEAN]) /\ Len(fieldinfo) = N
      /\ DOMAIN fieldinfo = 1 .. N /\ Len(entries) \in Nat /\ Len(entries) <= N
  BY <1>2, FieldsKnown
<1>5. /\ more \in Seq([seq_no : Nat, ends : BOOLEAN]) /\ Len(more) = K
      /\ \A i \in 1 .. K : more[i].seq_no = seqs[i] /\ more[i].ends = (i = K)
  <2> DEFINE call(i) == [seq_no |-> seqs[i], ends |-> i = K]
  <2>1. \A i \in 1 .. K : seqs[i] \in Nat /\ (i = K) \in BOOLEAN
    OBVIOUS
  <2>2. \A i \in 1 .. K : call(i) \in [seq_no : Nat, ends : BOOLEAN]
    BY <2>1
  <2>3. \A i \in 1 .. K : call(i).seq_no = seqs[i] /\ call(i).ends = (i = K)
    OBVIOUS
  <2>4. more = [i \in 1 .. K |-> call(i)]
    BY <1>1
  <2> HIDE DEF call
  <2>5. \A i \in 1 .. K : more[i] = call(i)
    BY <2>4
  <2>6. more \in Seq([seq_no : Nat, ends : BOOLEAN]) /\ Len(more) = K
    BY <2>2, <2>4
  <2> QED BY <2>3, <2>5, <2>6
<1>6. PICK new : new = fieldinfo'
  OBVIOUS
<1>7. /\ DOMAIN new = 1 .. N + K
      /\ \A i \in 1 .. N : new[i] = fieldinfo[i]
      /\ \A i \in 1 .. K : new[N + i] = more[i]
  <2>1. new = fieldinfo \o more
    BY <1>3, <1>6
  <2>2. Len(fieldinfo) = N /\ Len(more) = K
    BY <1>4, <1>5
  <2>3. PICK Calls : Calls = [seq_no : Nat, ends : BOOLEAN]
    OBVIOUS
  <2>4. fieldinfo \in Seq(Calls) /\ more \in Seq(Calls)
    <3>1. PICK Known : Known = [seq_no : Fields, ends : BOOLEAN]
      OBVIOUS
    <3>2. Known \subseteq Calls
      <4>1. Fields \subseteq Nat
        BY DEF Fields
      <4> QED BY <4>1, <2>3, <3>1
    <3>3. fieldinfo \in Seq(Known)
      BY <3>1, <1>4
    <3>4. fieldinfo \in Seq(Calls)
      BY <3>2, <3>3, SeqGrows
    <3>5. more \in Seq(Calls)
      BY <2>3, <1>5
    <3> QED BY <3>4, <3>5
  <2>5. /\ Len(new) = N + K /\ new \in Seq(Calls)
        /\ \A i \in 1 .. N + K : new[i] = IF i <= N THEN fieldinfo[i] ELSE more[i - N]
    <3>1. /\ fieldinfo \o more \in Seq(Calls)
          /\ Len(fieldinfo \o more) = Len(fieldinfo) + Len(more)
          /\ \A i \in 1 .. Len(fieldinfo) + Len(more) :
                 (fieldinfo \o more)[i] = IF i <= Len(fieldinfo) THEN fieldinfo[i]
                                          ELSE more[i - Len(fieldinfo)]
      BY <2>4, ConcatProperties
    <3> QED BY <3>1, <2>1, <2>2
  <2>6. ASSUME NEW i \in 1 .. N
        PROVE  new[i] = fieldinfo[i]
    <3>1. i \in 1 .. N + K /\ i <= N
      OBVIOUS
    <3> QED BY <3>1, <2>5
  <2>7. ASSUME NEW i \in 1 .. K
        PROVE  new[N + i] = more[i]
    <3>1. N + i \in 1 .. N + K /\ ~(N + i <= N) /\ (N + i) - N = i
      OBVIOUS
    <3> QED BY <3>1, <2>5
  <2>8. DOMAIN new = 1 .. N + K
    BY <2>5
  <2> QED BY <2>6, <2>7, <2>8
<1>8. ASSUME NEW k \in 1 .. N
      PROVE  /\ SameAs(k) = {n \in 1 .. N : fieldinfo[n].seq_no = fieldinfo[k].seq_no}
             /\ SameAs(k)' = {n \in 1 .. N + K : new[n].seq_no = fieldinfo[k].seq_no}
             /\ SameAs(k) = SameAs(k)' \cap (1 .. N)
  <2>1. SameAs(k) = {n \in 1 .. N : fieldinfo[n].seq_no = fieldinfo[k].seq_no}
    BY <1>4 DEF SameAs
  <2>2. SameAs(k)' = {n \in 1 .. N + K : new[n].seq_no = fieldinfo[k].seq_no}
    BY <1>6, <1>7 DEF SameAs
  <2> QED BY <2>1, <2>2, <1>7
<1>9. ASSUME NEW k \in 1 .. N + K, ~new[k].ends
      PROVE  \E o \in 1 .. N + K : new[o].seq_no = new[k].seq_no /\ o < k
  <2>1. CASE k \in 1 .. N
    <3>1. PICK o \in SameAs(k) : o < k
      BY <2>1, <1>4, <1>7, <1>9 DEF JInv, Repeats
    <3>2. o \in 1 .. N /\ fieldinfo[o].seq_no = fieldinfo[k].seq_no
      BY <2>1, <3>1, <1>8
    <3> QED BY <2>1, <3>1, <3>2, <1>7
  <2>2. CASE k \notin 1 .. N
    <3>1. PICK i \in 1 .. K : k = N + i
      <4>1. k - N \in 1 .. K /\ k = N + (k - N)
        BY <2>2
      <4> QED BY <4>1
    <3>2. new[k] = more[i]
      BY <3>1, <1>7
    <3>3. i # K
      BY <3>2, <1>5, <1>9
    <3>4. i \in 1 .. K - 1
      BY <3>3
    <3>5. PICK o \in 1 .. N : seqs[i] = fieldinfo[o].seq_no
      BY <3>4, <1>2
    <3>6. new[o].seq_no = new[k].seq_no
      BY <3>2, <3>5, <1>5, <1>7
    <3>7. o \in 1 .. N + K /\ o < k
      BY <3>1
    <3> QED BY <3>6, <3>7
  <2> QED BY <2>1, <2>2
<1>10. Repeats'
  BY <1>6, <1>7, <1>9 DEF Repeats, SameAs
<1>11. ASSUME Plain'
       PROVE  Plain
  <2>1. ASSUME NEW n \in 1 .. N, n >= Early, n % Grid = 0
        PROVE  fieldinfo[n].ends
    <3>1. n \in 1 .. N + K
      OBVIOUS
    <3>2. new[n].ends
      BY <2>1, <3>1, <1>6, <1>7, <1>11 DEF Plain
    <3> QED BY <3>2, <1>7
  <2>2. ASSUME NEW k \in 1 .. N
        PROVE  Cardinality(SameAs(k)) <= 2
    <3>1. k \in 1 .. N + K
      OBVIOUS
    <3>2. Cardinality(SameAs(k)') <= 2
      BY <3>1, <1>6, <1>7, <1>11 DEF Plain
    <3>3. SameAs(k)' \in SUBSET (1 .. N + K) /\ IsFiniteSet(1 .. N + K)
      BY <1>8, FS_Interval
    <3>4. IsFiniteSet(SameAs(k)')
      BY <3>3, FS_Subset
    <3>5. SameAs(k) \in SUBSET SameAs(k)'
      BY <1>8
    <3>6. Cardinality(SameAs(k)) <= Cardinality(SameAs(k)') /\ IsFiniteSet(SameAs(k))
      BY <3>4, <3>5, FS_Subset
    <3>7. Cardinality(SameAs(k)) \in Nat /\ Cardinality(SameAs(k)') \in Nat
      BY <3>4, <3>6, FS_CardinalityType
    <3> QED BY <3>2, <3>6, <3>7
  <2> QED BY <2>1, <2>2, <1>4 DEF Plain
<1>12. ASSUME Plain'
       PROVE  ShownIn(entries)'
  <2>1. ShownIn(entries)
    BY <1>11, <1>12 DEF JInv
  <2>2. PICK E \in Nat : E = Len(entries)
    BY <1>4
  <2>3. ASSUME NEW k \in 1 .. E, NEW p
        PROVE  Reaching(k, p, E)' <=> Reaching(k, p, E)
    <3>1. k \in 1 .. N
      BY <2>2, <1>4
    <3>2. p \in SameAs(k) <=> p \in SameAs(k)' /\ p \in 1 .. N
      BY <3>1, <1>8
    <3>3. p \in SameAs(k)' => p \in 1 .. N + K
      BY <3>1, <1>8
    <3>4. p \in SameAs(k)' /\ p <= E => p \in 1 .. N
      BY <3>3, <2>2, <1>4
    <3> QED BY <3>2, <3>4 DEF Reaching, AliasReaches
  <2>4. ASSUME NEW k \in 1 .. E
        PROVE  /\ entries'[k].shows = k \/ Reaching(k, entries[k].shows, E)'
               /\ \A p \in SameAs(k)' : Reaching(k, p, E)' => entries'[k].shows = p
    <3>1. PICK s : s = entries[k].shows
      OBVIOUS
    <3>2. s = entries'[k].shows
      BY <3>1, <1>3
    <3>3. /\ s = k \/ Reaching(k, s, E)
          /\ \A p \in SameAs(k) : Reaching(k, p, E) => s = p
      BY <2>1, <2>2, <3>1 DEF ShownIn
    <3>4. \A p : Reaching(k, p, E) => p \in SameAs(k)
      BY DEF Reaching
    <3>5. /\ s = k \/ Reaching(k, s, E)'
          /\ \A p \in SameAs(k)' : Reaching(k, p, E)' => s = p
      BY <3>3, <3>4, <2>3
    <3> QED BY <3>2, <3>5
  <2> QED BY <2>2, <2>4, <1>3 DEF ShownIn, Reaching, AliasReaches
<1> QED BY <1>10, <1>12 DEF JInv

\* and when one or two are decoded.
LEMMA DecodesShow ==
  ASSUME IInv, JInv, NEW levels \in Levels, DecodeOne(levels) \/ DecodeFilled(levels)
  PROVE  JInv'
<1>1. PICK N \in Nat : N = meta.n
  BY FieldsKnown
<1>2. CASE DecodeOne(levels)
  <2>1. PICK seqs : seqs = <<N + 1>>
    OBVIOUS
  <2>2. seqs \in Seq(Nat) /\ Len(seqs) = 1
    BY <2>1
  <2>3. Decode(seqs, levels)
    BY <1>1, <1>2, <2>1 DEF DecodeOne
  <2>4. \A i \in 1 .. 1 - 1 : \E o \in 1 .. meta.n : seqs[i] = fieldinfo[o].seq_no
    OBVIOUS
  <2>5. 1 \in Nat
    OBVIOUS
  <2> QED BY <2>2, <2>3, <2>4, <2>5, DecodeShows
<1>3. CASE DecodeFilled(levels)
  <2>1. PICK n \in 1 .. N : Decode(<<fieldinfo[n].seq_no, N + 1>>, levels)
    BY <1>1, <1>3, FieldsKnown DEF DecodeFilled
  <2>2. PICK seqs : seqs = <<fieldinfo[n].seq_no, N + 1>>
    OBVIOUS
  <2>3. fieldinfo[n].seq_no \in Nat
    <3>1. fieldinfo \in Seq([seq_no : Fields, ends : BOOLEAN]) /\ Len(fieldinfo) = N
      BY <1>1, FieldsKnown
    <3>2. PICK Known : Known = [seq_no : Fields, ends : BOOLEAN]
      OBVIOUS
    <3>3. fieldinfo \in Seq(Known)
      BY <3>1, <3>2
    <3>4. fieldinfo[n] \in Known
      BY <3>1, <3>3, ElementOfSeq
    <3>5. fieldinfo[n].seq_no \in Fields
      BY <3>2, <3>4
    <3> QED BY <3>5 DEF Fields
  <2>4. seqs \in Seq(Nat) /\ Len(seqs) = 2
    BY <2>2, <2>3
  <2>5. \A i \in 1 .. 2 - 1 : seqs[i] = fieldinfo[n].seq_no
    BY <2>2
  <2> QED BY <2>1, <2>2, <2>4, <2>5, <1>1, DecodeShows
<1> QED BY <1>2, <1>3

\* There is nothing to show at first,
LEMMA InitShows == Init => JInv
BY DEF Init, JInv, Repeats, ShownIn

\* and every step shows it right.
LEMMA NextShows == ASSUME IInv, JInv, [Next]_vars PROVE JInv'
<1>1. CASE DecodeThread
  <2>1. ASSUME NEW levels \in Levels, DecodeOne(levels) \/ DecodeFilled(levels)
        PROVE  JInv'
    BY <2>1, DecodesShow
  <2>2. CASE Send \/ StartClose \/ SendClose \/ SendFails \/ DecodeFails \/ Join
    <3>1. UNCHANGED <<fieldinfo, meta, entries>>
      BY <2>2 DEF Send, StartClose, SendClose, SendFails, DecodeFails, Join, Exit, writerVars
    <3> QED BY <3>1, ShownRests
  <2> QED BY <1>1, <2>1, <2>2 DEF DecodeThread
<1>2. CASE WriterThread
  <2>1. CASE WriteField
    BY <2>1, WriteShows
  <2>2. CASE ~WriteField
    <3>1. UNCHANGED <<fieldinfo, meta, entries>>
      BY <1>2, <2>2 DEF WriterThread, WriteFails, CloseFlush, FlushFails, CloseJson, JsonFails, Drop, decodeVars
    <3> QED BY <3>1, ShownRests
  <2> QED BY <2>1, <2>2
<1>3. CASE DbThread
  BY <1>3, ShownRests DEF DbThread, decodeVars, writerVars
<1>4. CASE UNCHANGED vars
  BY <1>4, ShownRests DEF vars, decodeVars, writerVars
<1> QED BY <1>1, <1>2, <1>3, <1>4 DEF Next

\* Where a field is drained.
LEMMA DrainedPlaces ==
  ASSUME IInv, Plain, NEW k \in 1 .. meta.n
  PROVE  /\ DrainedAt(k) \in k .. meta.n
         /\ k < Early /\ fieldinfo[k].ends => DrainedAt(k) = k
         /\ k >= Early => LET r == ((k + Grid - 1) \div Grid) * Grid
                          IN  DrainedAt(k) = IF r <= meta.n THEN r ELSE meta.n
<1> DEFINE at == {n \in k .. meta.n : fieldinfo[n].ends /\ Drains(n)}
<1>1. PICK N \in Nat : N = meta.n
  BY FieldsKnown
<1>2. k \in 1 .. N /\ Early \in Nat \ {0} /\ Grid \in Nat \ {0} /\ DOMAIN fieldinfo = 1 .. N
  BY <1>1, FieldsKnown, PipelineAssumption
<1>3. at \in SUBSET (k .. N) /\ k .. N \in SUBSET Nat
  BY <1>1
<1>4. DrainedAt(k) = IF at = {} THEN N ELSE Min(at)
  BY <1>1 DEF DrainedAt
<1>5. \A n : n \in at <=> n \in k .. N /\ fieldinfo[n].ends /\ (n < Early \/ n % Grid = 0)
  BY <1>1 DEF Drains
<1> HIDE DEF at
<1>6. DrainedAt(k) \in k .. meta.n
  <2>1. CASE at = {}
    BY <2>1, <1>1, <1>2, <1>4
  <2>2. CASE at # {}
    <3>1. at \in SUBSET Nat
      BY <1>3
    <3>2. Min(at) \in at
      BY <2>2, <3>1, MinAmong
    <3> QED BY <2>2, <3>2, <1>1, <1>3, <1>4
  <2> QED BY <2>1, <2>2
<1>7. ASSUME k < Early, fieldinfo[k].ends
      PROVE  DrainedAt(k) = k
  <2>1. k \in at
    BY <1>2, <1>5, <1>7
  <2>2. at \in SUBSET Nat /\ \A y \in at : k <= y
    BY <1>3
  <2>3. Min(at) = k
    BY <2>1, <2>2, MinIs
  <2> QED BY <2>1, <2>3, <1>4
<1>8. ASSUME k >= Early, NEW r, r = ((k + Grid - 1) \div Grid) * Grid
      PROVE  DrainedAt(k) = IF r <= N THEN r ELSE N
  <2>1. /\ r \in Nat /\ r >= k /\ r % Grid = 0
        /\ \A n \in Nat : n >= k /\ n % Grid = 0 => n >= r
    <3>1. k \in Nat /\ Grid \in Nat \ {0}
      BY <1>2
    <3>2. NextPlace(k, Grid, r)
      BY <3>1, <1>8, RoundedUp
    <3> QED BY <3>2 DEF NextPlace
  <2>2. ASSUME NEW n \in at
        PROVE  n \in Nat /\ n >= r /\ n <= N
    <3>1. n \in k .. N /\ (n < Early \/ n % Grid = 0)
      BY <1>5
    <3>2. n \in Nat /\ n >= k /\ n <= N
      BY <3>1, <1>2
    <3>3. ~(n < Early)
      BY <3>2, <1>2, <1>8
    <3> QED BY <3>1, <3>2, <3>3, <2>1
  <2>3. CASE r <= N
    <3>1. r \in 1 .. N /\ r >= Early
      BY <2>1, <2>3, <1>2, <1>8
    <3>2. fieldinfo[r].ends
      BY <3>1, <2>1, <1>2 DEF Plain
    <3>3. r \in at
      BY <3>1, <3>2, <2>1, <2>3, <1>5
    <3>4. at \in SUBSET Nat /\ \A y \in at : r <= y
      BY <2>1, <2>2
    <3>5. Min(at) = r
      BY <3>3, <3>4, MinIs
    <3> QED BY <3>3, <3>5, <2>3, <1>4
  <2>4. CASE ~(r <= N)
    <3>1. at = {}
      BY <2>1, <2>2, <2>4
    <3> QED BY <3>1, <2>4, <1>4
  <2> QED BY <2>3, <2>4
<1> QED BY <1>1, <1>6, <1>7, <1>8

\* An entry that is drained shows what the reference's does.
LEMMA ShownIsDrained == ASSUME IInv, JInv PROVE JsonAsDrained
<1> SUFFICES ASSUME Plain, NEW k \in DOMAIN entries, Len(entries) >= DrainedAt(k)
             PROVE  entries[k].shows = Max({n \in SameAs(k) : n <= DrainedAt(k)})
  BY DEF JsonAsDrained
<1>1. PICK N \in Nat : N = meta.n
  BY FieldsKnown
<1>2. PICK E \in Nat : E = Len(entries)
  BY FieldsKnown
<1>3. k \in 1 .. E /\ k \in 1 .. N /\ E <= N /\ DOMAIN fieldinfo = 1 .. N
  BY <1>1, <1>2, FieldsKnown
<1>4. PICK D \in k .. N : D = DrainedAt(k)
  BY <1>1, <1>3, DrainedPlaces
<1>5. E >= D
  BY <1>2, <1>4
<1>6. PICK s : s = entries[k].shows
  OBVIOUS
<1>7. /\ s = k \/ Reaching(k, s, E)
      /\ \A p \in SameAs(k) : Reaching(k, p, E) => s = p
  BY <1>2, <1>3, <1>6 DEF JInv, ShownIn
<1>8. PICK T : T = {n \in SameAs(k) : n <= D}
  OBVIOUS
<1>9. SameAs(k) \subseteq 1 .. N /\ k \in SameAs(k)
  BY <1>1, <1>3, FieldsKnown DEF SameAs
<1>10. T \in SUBSET Nat /\ k \in T
  BY <1>3, <1>8, <1>9
<1>11. ASSUME \A p \in SameAs(k) : p <= k
       PROVE  s = Max(T)
  <2>1. s = k
    BY <1>3, <1>7, <1>9, <1>11 DEF Reaching
  <2>2. \A y \in T : y <= k
    BY <1>8, <1>11
  <2> QED BY <2>1, <2>2, <1>10, MaxIs
<1>12. ASSUME NEW p \in SameAs(k), p > k
       PROVE  s = Max(T)
  <2>1. p \in 1 .. N /\ p # k
    BY <1>3, <1>9, <1>12
  <2>2. ASSUME NEW q \in SameAs(k), q # k
        PROVE  q = p
    BY <2>1, <2>2, <1>1, <1>3, OneOther
  <2>3. fieldinfo[k].ends
    <3>1. ASSUME ~fieldinfo[k].ends
          PROVE  FALSE
      <4>1. PICK o \in SameAs(k) : o < k
        BY <3>1, <1>3 DEF JInv, Repeats
      <4>2. o \in 1 .. N /\ o # k
        BY <4>1, <1>3, <1>9
      <4>3. o = p
        BY <4>2, <2>2
      <4> QED BY <4>1, <4>2, <4>3, <1>3, <1>12
    <3> QED BY <3>1
  <2>4. Reaching(k, p, E) <=> p <= E /\ AliasReaches(k, p)
    BY <1>12 DEF Reaching
  <2>5. Reaching(k, s, E) => s = p
    <3>1. Reaching(k, s, E) => s \in SameAs(k) /\ k < s
      BY DEF Reaching
    <3>2. s \in SameAs(k) /\ k < s => s # k
      BY <1>3, <1>9
    <3> QED BY <3>1, <3>2, <2>2
  <2>6. ASSUME p <= D, AliasReaches(k, p)
        PROVE  s = Max(T)
    <3>1. p <= E
      BY <2>1, <2>6, <1>3, <1>5
    <3>2. s = p
      BY <3>1, <2>4, <2>6, <1>7
    <3>3. p \in T
      BY <2>6, <1>8
    <3>4. \A y \in T : y <= p
      <4>1. \A y \in T : y = k \/ y = p
        BY <2>2, <1>8
      <4> QED BY <4>1, <2>1, <1>3, <1>12
    <3> QED BY <3>2, <3>3, <3>4, <1>10, MaxIs
  <2>7. ASSUME ~(p <= D), ~AliasReaches(k, p)
        PROVE  s = Max(T)
    <3>1. s = k
      BY <2>4, <2>5, <2>7, <1>7
    <3>2. \A y \in T : y <= k
      <4>1. \A y \in T : y = k
        BY <2>2, <2>7, <1>8
      <4> QED BY <4>1, <1>3
    <3> QED BY <3>1, <3>2, <1>10, MaxIs
  <2>8. p <= D <=> AliasReaches(k, p)
    <3>1. Early \in Nat \ {0}
      BY PipelineAssumption
    <3>2. CASE k < Early
      <4>1. D = k
        BY <3>2, <2>3, <1>1, <1>3, <1>4, DrainedPlaces
      <4>2. AliasReaches(k, p) <=> p <= k
        BY <3>2 DEF AliasReaches
      <4> QED BY <4>1, <4>2
    <3>3. CASE k >= Early
      <4>1. PICK r : r = ((k + Grid - 1) \div Grid) * Grid
        OBVIOUS
      <4>2. D = IF r <= N THEN r ELSE N
        BY <3>3, <4>1, <1>1, <1>3, <1>4, DrainedPlaces
      <4>3. AliasReaches(k, p) <=> p <= r
        BY <3>1, <3>3, <4>1, <1>3 DEF AliasReaches
      <4>4. r \in Nat
        <5>1. k \in Nat /\ Grid \in Nat \ {0}
          BY <1>3, PipelineAssumption
        <5>2. NextPlace(k, Grid, r)
          BY <5>1, <4>1, RoundedUp
        <5> QED BY <5>2 DEF NextPlace
      <4> QED BY <4>2, <4>3, <4>4, <2>1
    <3> QED BY <3>1, <3>2, <3>3, <1>3
  <2> QED BY <2>6, <2>7, <2>8
<1>13. s = Max(T)
  <2>1. (\A p \in SameAs(k) : p <= k) \/ (\E p \in SameAs(k) : p > k)
    BY <1>3, <1>9
  <2> QED BY <2>1, <1>11, <1>12
<1> QED BY <1>4, <1>6, <1>8, <1>13

\* A JSON entry shows the counts the reference's would once it is drained
\* (json_alias_reaches_earlier, writer.rs:29-36), over captures of any length.
THEOREM PipelineJson == Spec => []JsonAsDrained
<1>1. IInv /\ JInv /\ [Next]_vars => IInv' /\ JInv'
  BY NextIInv, NextShows
<1>2. Init => IInv /\ JInv
  BY InitIInv, InitShows
<1>3. IInv /\ JInv => JsonAsDrained
  BY ShownIsDrained
<1> QED BY <1>1, <1>2, <1>3, PTL DEF Spec
=============================================================================
