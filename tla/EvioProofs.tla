----------------------------- MODULE EvioProofs -----------------------------
(***************************************************************************)
(* Proofs about the two modules of CODA/evio.c.  First EvFile, for every   *)
(* block size, event length and number of events: the writer's, the        *)
(* reader's and the invariants of what is read, and what they imply.  Then *)
(* EvSearch, for every file: what a search finds and what it does not.     *)
(***************************************************************************)
EXTENDS EvFile, EvSearch, SequenceTheorems, WellFoundedInduction, TLAPS

(***************************************************************************)
(* Stream positions                                                        *)
(***************************************************************************)

\* A block holds at least one word of data.
LEMMA PayloadType == Payload \in Nat \ {0} /\ Payload = BlkSiz - EV_HDSIZ
  BY SizesAssumption DEF Payload

\* A stream position is a number, and moves with the word's index in a block.
LEMMA StreamPosShift ==
  ASSUME NEW i \in Nat
  PROVE  /\ StreamPos(i, 1) \in Int
         /\ \A k \in Int : StreamPos(i, k) = StreamPos(i, 1) + (k - 1)
<1>1. (i - 1) * Payload \in Int
  BY PayloadType
<1> QED
  BY <1>1 DEF StreamPos

\* The word after the last of a full block is the first of the next block.
LEMMA StreamPosNext ==
  ASSUME NEW i \in Nat
  PROVE  StreamPos(i, Payload + 1) = StreamPos(i + 1, 1)
<1>1. i * Payload = (i - 1) * Payload + Payload
  BY PayloadType
<1>2. (i - 1) * Payload \in Int /\ i * Payload \in Int
  BY PayloadType
<1> QED
  BY <1>1, <1>2, PayloadType DEF StreamPos

\* The words of a Chunk, and how chunks of one event join.
LEMMA ChunkType ==
  ASSUME NEW n \in Nat, NEW first \in Nat, NEW k \in Nat
  PROVE  /\ Chunk(n, first, k) \in Seq(Word)
         /\ Len(Chunk(n, first, k)) = k
         /\ \A i \in 1..k : /\ Chunk(n, first, k)[i].ev = n
                            /\ Chunk(n, first, k)[i].off = first + i - 1
<1>1. \A i \in 1..k : [ev |-> n, off |-> first + i - 1] \in Word
  BY DEF Word
<1> QED
  BY <1>1 DEF Chunk

\* The events written so far and their places in the stream.
LEMMA EventsType ==
  ASSUME WriterTypeOK, WriterInv
  PROVE  /\ DOMAIN written = 1..Len(written) /\ DOMAIN begin = DOMAIN written
         /\ Len(written) \in Nat
         /\ \A n \in DOMAIN written :
              n \in Nat \ {0} /\ written[n] \in Nat /\ begin[n] \in Nat
<1>1. written \in Seq(Lens) /\ begin \in Seq(Nat) /\ Len(begin) = Len(written)
  BY DEF WriterTypeOK, WriterInv
<1>2. /\ DOMAIN written = 1..Len(written) /\ DOMAIN begin = 1..Len(begin)
      /\ Len(written) \in Nat
  BY <1>1
<1>3. \A n \in DOMAIN written : written[n] \in Lens
  BY <1>1
<1>4. \A n \in DOMAIN written : written[n] \in Nat
  BY <1>3, LensAssumption
<1>5. \A n \in DOMAIN written : begin[n] \in Nat
  BY <1>1, <1>2
<1> QED
  BY <1>1, <1>2, <1>4, <1>5

\* Two events never overlap: a position inside event n is in no other event.
LEMMA PositionUnique ==
  ASSUME WriterTypeOK, WriterInv, TilingInv,
         NEW m \in DOMAIN written, NEW n \in DOMAIN written, NEW o \in Nat,
         o <= written[m],
         begin[n] <= begin[m] + o, begin[m] + o <= begin[n] + written[n]
  PROVE  m = n
<1>1. ~(m < n)
  BY EventsType DEF TilingInv
<1>2. ~(n < m)
  BY EventsType DEF TilingInv
<1> QED
  BY <1>1, <1>2, EventsType

(***************************************************************************)
(* The writer's part of the invariant                                      *)
(***************************************************************************)

WInv == WriterTypeOK /\ WriterInv /\ TilingInv /\ FileInv /\ ClosedInv

\* Data already in place stay in place when a new event is appended.
LEMMA InPlaceAppend ==
  ASSUME NEW data \in Seq(Word), NEW i \in Nat,
         NEW lens \in Seq(Nat), NEW begins \in Seq(Nat), NEW l, NEW b,
         Len(lens) = Len(begins),
         InPlace(data, i, lens, begins)
  PROVE  InPlace(data, i, Append(lens, l), Append(begins, b))
  BY SMTT(30) DEF InPlace

\* A new file has a writer at its beginning.
THEOREM WriterInit == Init => WInv
<1> SUFFICES ASSUME Init PROVE WInv
  OBVIOUS
<1>1. WriterTypeOK
  BY SizesAssumption DEF Init, WriterTypeOK
<1>2. WriterInv
  BY SizesAssumption DEF Init, WriterInv, InPlace
<1>3. StreamPos(1, 1) = 0
  BY PayloadType DEF StreamPos
<1>4. TilingInv
  BY <1>3 DEF Init, TilingInv
<1>5. FileInv /\ ClosedInv
  BY DEF Init, FileInv, ClosedInv
<1> QED
  BY <1>1, <1>2, <1>4, <1>5 DEF WInv

\* Appending to a sequence, entry by entry.
LEMMA AppendEntries ==
  ASSUME NEW S, NEW s \in Seq(S), NEW e \in S
  PROVE  /\ Append(s, e) \in Seq(S)
         /\ Len(Append(s, e)) = Len(s) + 1
         /\ DOMAIN Append(s, e) = 1..Len(s) + 1
         /\ \A n \in 1..Len(s) : Append(s, e)[n] = s[n]
         /\ Append(s, e)[Len(s) + 1] = e
  OBVIOUS

\* Entry of evWrite: the new event begins where the writer is.
LEMMA EvWriteStep ==
  ASSUME WInv, NEW len \in Lens, evWrite(len)
  PROVE  WInv'
<1> DEFINE L == Len(written)
           Pos == wblknum * Payload + wnext - EV_HDSIZ
<1>0. /\ WriterTypeOK /\ WriterInv /\ TilingInv /\ FileInv /\ ClosedInv
      /\ written \in Seq(Lens) /\ begin \in Seq(Nat) /\ L \in Nat
      /\ len \in Nat
  BY EventsType, LensAssumption DEF WInv, WriterTypeOK
<1>1. WriterTypeOK'
  BY SMTT(30), <1>0, SizesAssumption, LensAssumption, PayloadType DEF evWrite, WriterTypeOK, WriterInv
<1>2. /\ Pos \in Nat
      /\ Pos = StreamPos(Len(file) + 1, Len(wdata) + 1)
  <2>1. wblknum * Payload \in Nat
    BY <1>0, PayloadType DEF WriterTypeOK
  <2> QED
    BY SMTT(30), <2>1, <1>0, SizesAssumption DEF WriterTypeOK, WriterInv, StreamPos
<1>3. /\ written' = Append(written, len) /\ begin' = Append(begin, Pos)
      /\ Len(written') = L + 1 /\ Len(begin') = L + 1
      /\ DOMAIN written' = 1..L + 1 /\ DOMAIN begin' = 1..L + 1
      /\ \A n \in 1..L : written'[n] = written[n] /\ begin'[n] = begin[n]
      /\ written'[L + 1] = len /\ begin'[L + 1] = Pos
  <2>1. written' = Append(written, len) /\ begin' = Append(begin, Pos)
    BY DEF evWrite
  <2>2. Len(begin) = L
    BY <1>0 DEF WriterInv
  <2> QED
    BY SMTT(30), <1>0, <1>2, <2>1, <2>2, AppendEntries
<1>4. /\ UNCHANGED <<stream, wnext, wleft, wblknum, wdata, file>>
      /\ wnleft' = len + 1 /\ wevnum' = wevnum + 1
      /\ wstart' = IF wstart = 0 THEN wnext ELSE wstart
      /\ stream = "open" /\ wnleft = 0
  BY DEF evWrite
<1>5. ASSUME NEW data \in Seq(Word), NEW i \in Nat,
             InPlace(data, i, written, begin)
      PROVE  InPlace(data, i, written', begin')
  BY <1>3, <1>5, <1>0, EventsType DEF InPlace
<1>6. WriterInv'
  <2>1. InPlace(wdata, Len(file) + 1, written', begin')
    BY <1>0, <1>5 DEF WriterTypeOK, WriterInv
  <2>2. wstart' = 0 \/ wstart' \in EV_HDSIZ..wnext
    BY <1>0, <1>4, SizesAssumption DEF WriterTypeOK, WriterInv
  <2>5. file = <<>> => wstart' = EV_HDSIZ
    <3> SUFFICES ASSUME file = <<>> PROVE wstart' = EV_HDSIZ
      OBVIOUS
    <3>1. CASE written = <<>>
      <4>1. Pos = 0 /\ Len(file) = 0
        BY <3>1, <1>0, <1>2, <1>4 DEF TilingInv
      <4> QED
        BY <4>1, <3>1, <1>0, <1>4, PayloadType, SizesAssumption
           DEF WriterTypeOK, WriterInv
    <3>2. CASE written # <<>>
      BY <3>2, <1>0, <1>4, SizesAssumption DEF WriterInv
    <3> QED
      BY <3>1, <3>2
  <2>6. written' # <<>>
    BY SMTT(30), <1>0, <1>3
  <2>3. wevnum' = L + 1
    BY <1>0, <1>4 DEF WriterTypeOK, WriterInv
  <2>4. wnleft' = written'[Len(written')] + 1 /\ Len(written') > 0
    BY <1>0, <1>3, <1>4
  <2> QED
    BY <1>0, <1>1, <1>3, <1>4, <2>1, <2>2, <2>3, <2>4, <2>5, <2>6, LensAssumption DEF WriterInv
<1>7. TilingInv'
  <2>1. StreamPos(Len(file) + 1, Len(wdata) + 1) =
          IF L = 0 THEN 0 ELSE begin[L] + written[L] + 1
    BY <1>0, <1>4, EventsType DEF TilingInv
  <2>2. \A n \in 1..L : begin[n] + written[n] < Pos
    <3> SUFFICES ASSUME NEW n \in 1..L PROVE begin[n] + written[n] < Pos
      OBVIOUS
    <3>1. /\ L \in 1..L /\ Pos = begin[L] + written[L] + 1
          /\ begin[L] \in Nat /\ begin[n] \in Nat
          /\ written[L] \in Nat /\ written[n] \in Nat
      BY SMTT(30), <1>0, <1>2, <2>1, EventsType
    <3>2. n < L => begin[n] + written[n] < begin[L]
      BY <1>0, <3>1, EventsType DEF TilingInv
    <3> QED
      BY SMTT(30), <3>1, <3>2, <1>0
  <2>3. \A n \in DOMAIN begin' : n = 1 => begin'[n] = 0
    BY SMTT(30), <1>0, <1>2, <1>3, <2>1, EventsType DEF TilingInv
  <2>4. \A n \in DOMAIN begin' :
          n > 1 => begin'[n] = begin'[n - 1] + written'[n - 1] + 1
    BY SMTT(30), <1>0, <1>2, <1>3, <2>1, EventsType DEF TilingInv
  <2>5. \A m, n \in DOMAIN begin' : m < n => begin'[m] + written'[m] < begin'[n]
    BY SMTT(30), <1>0, <1>2, <1>3, <2>2, EventsType DEF TilingInv
  <2>6. StreamPos(Len(file) + 1, Len(wdata) + 1) =
          begin'[L + 1] + written'[L + 1] + 1 - wnleft'
    BY <1>0, <1>2, <1>3, <1>4
  <2> QED
    BY SMTT(30), <1>0, <1>3, <1>4, <2>3, <2>4, <2>5, <2>6 DEF TilingInv
<1>8. FileInv'
  <2> SUFFICES ASSUME NEW i \in DOMAIN file PROVE FileInv!(i)'
    BY <1>4 DEF FileInv
  <2>1. file[i] \in BlockType /\ i \in Nat \ {0} /\ i <= Len(file)
    BY <1>0 DEF WriterTypeOK
  <2>2. InPlace(file[i].data, i, written', begin')
    BY <1>0, <1>5, <2>1 DEF FileInv, BlockType
  <2>3. i = 1 => file[i].start = EV_HDSIZ
    <3>1. Pos > 0
      <4>1. Len(file) * Payload \in Nat \ {0}
        BY <1>0, <2>1, PayloadType DEF WriterTypeOK
      <4> QED
        BY <4>1, <1>0, SizesAssumption DEF WriterTypeOK, WriterInv
    <3>2. written # <<>>
      BY <3>1, <1>0, <1>2, <1>4 DEF TilingInv
    <3> QED
      BY <3>2, <1>0 DEF FileInv
  <2> QED
    BY <1>0, <1>3, <1>4, <2>1, <2>2, <2>3 DEF FileInv
<1>9. ClosedInv'
  <2>1. written' # <<>>
    BY <1>0, <1>3
  <2> QED
    BY <1>4, <2>1 DEF ClosedInv
<1> QED
  BY <1>1, <1>6, <1>7, <1>8, <1>9 DEF WInv

\* Data in place followed by words that continue where they stop.
LEMMA InPlaceJoin ==
  ASSUME NEW s \in Seq(Word), NEW t \in Seq(Word), NEW i \in Nat,
         NEW lens, NEW begins, InPlace(s, i, lens, begins),
         \A j \in 1..Len(t) :
           /\ t[j].ev \in DOMAIN lens
           /\ t[j].off <= lens[t[j].ev]
           /\ begins[t[j].ev] + t[j].off = StreamPos(i, Len(s) + j)
  PROVE  InPlace(s \o t, i, lens, begins)
<1>1. PICK w : w = s \o t
  OBVIOUS
<1>2. /\ w \in Seq(Word) /\ Len(w) = Len(s) + Len(t)
      /\ \A j \in 1..Len(s) + Len(t) : w[j] = IF j <= Len(s) THEN s[j]
                                                ELSE t[j - Len(s)]
  BY <1>1, ConcatProperties
<1>3. Len(s) \in Nat /\ Len(t) \in Nat
  OBVIOUS
<1>4. ASSUME NEW j \in 1..Len(s) + Len(t)
      PROVE  /\ w[j].ev \in DOMAIN lens
             /\ w[j].off <= lens[w[j].ev]
             /\ begins[w[j].ev] + w[j].off = StreamPos(i, j)
  <2>1. CASE j <= Len(s)
    <3>1. w[j] = s[j] /\ j \in DOMAIN s
      BY <2>1, <1>2, <1>3
    <3> QED
      BY <3>1 DEF InPlace
  <2>2. CASE ~(j <= Len(s))
    <3>1. PICK m \in 1..Len(t) : j = Len(s) + m
      <4>1. j - Len(s) \in 1..Len(t) /\ j = Len(s) + (j - Len(s))
        BY <2>2, <1>3
      <4> QED
        BY <4>1
    <3>2. w[j] = t[m]
      BY <2>2, <3>1, <1>2, <1>3
    <3> QED
      BY <3>1, <3>2
  <2> QED
    BY <2>1, <2>2
<1>5. DOMAIN w = 1..Len(s) + Len(t)
  BY <1>2
<1> QED
  BY <1>1, <1>4, <1>5 DEF InPlace

\* What evWrite has copied after k more words: they go where begin says.
LEMMA CopiedInPlace ==
  ASSUME WInv, stream = "open", wnleft > 0, NEW k \in Nat, k <= wnleft
  PROVE  /\ Copied(k) \in Seq(Word)
         /\ Len(Copied(k)) = Len(wdata) + k
         /\ InPlace(Copied(k), Len(file) + 1, written, begin)
         /\ written # <<>>
         /\ StreamPos(Len(file) + 1, Len(wdata) + k + 1) =
              begin[Len(written)] + written[Len(written)] + 1 - (wnleft - k)
<1> DEFINE L == Len(written)
           first == written[L] + 1 - wnleft
           I == Len(file) + 1
           D == Len(wdata)
<1>a. /\ WriterTypeOK /\ WriterInv /\ TilingInv
      /\ wdata \in Seq(Word) /\ file \in Seq(BlockType)
      /\ wnleft \in Nat
  BY DEF WInv, WriterTypeOK
<1>b. L \in Nat /\ L \in DOMAIN written /\ wnleft <= written[L] + 1
  BY <1>a, EventsType DEF WriterInv
<1>0. /\ written[L] \in Nat /\ begin[L] \in Nat
      /\ first \in Nat /\ I \in Nat /\ D \in Nat
      /\ written # <<>>
      /\ L = Len(written) /\ first = written[L] + 1 - wnleft
      /\ I = Len(file) + 1 /\ D = Len(wdata)
  BY <1>a, <1>b, EventsType
<1> HIDE DEF L, first, I, D
<1>1. StreamPos(I, D + 1) = begin[L] + first
  BY SMTT(30), <1>a, <1>b, <1>0 DEF TilingInv
<1>2. StreamPos(I, D + k + 1) = begin[L] + first + k
  <2>1. /\ StreamPos(I, D + 1) = StreamPos(I, 1) + D
        /\ StreamPos(I, D + k + 1) = StreamPos(I, 1) + D + k
        /\ StreamPos(I, 1) \in Int
    <3>1. D + 1 \in Int /\ D + k + 1 \in Int
      BY <1>0
    <3>2. /\ StreamPos(I, D + 1) = StreamPos(I, 1) + ((D + 1) - 1)
          /\ StreamPos(I, D + k + 1) = StreamPos(I, 1) + ((D + k + 1) - 1)
          /\ StreamPos(I, 1) \in Int
      BY <1>0, <3>1, StreamPosShift
    <3> QED
      BY SMTT(30), <3>2, <1>0
  <2> QED
    BY <1>0, <1>1, <2>1
<1>3. /\ Chunk(L, first, k) \in Seq(Word)
      /\ Len(Chunk(L, first, k)) = k
      /\ \A j \in 1..k : /\ Chunk(L, first, k)[j].ev = L
                         /\ Chunk(L, first, k)[j].off = first + j - 1
  <2>1. L \in Nat /\ first \in Nat
    BY <1>b, <1>0
  <2> QED
    BY ZenonT(30), <2>1, ChunkType
<1>4. Copied(k) = wdata \o Chunk(L, first, k)
  BY <1>0 DEF Copied
<1>5. /\ wdata \o Chunk(L, first, k) \in Seq(Word)
      /\ Len(wdata \o Chunk(L, first, k)) = D + k
  <2>1. /\ wdata \o Chunk(L, first, k) \in Seq(Word)
        /\ Len(wdata \o Chunk(L, first, k)) = Len(wdata) + Len(Chunk(L, first, k))
    BY <1>a, <1>3, ConcatProperties, Zenon
  <2> QED
    BY <2>1, <1>0, <1>3
<1>6. ASSUME NEW j \in 1..k
      PROVE  /\ Chunk(L, first, k)[j].ev \in DOMAIN written
             /\ Chunk(L, first, k)[j].off <= written[Chunk(L, first, k)[j].ev]
             /\ begin[Chunk(L, first, k)[j].ev] + Chunk(L, first, k)[j].off =
                  StreamPos(I, D + j)
  <2>1. Chunk(L, first, k)[j].ev = L /\ Chunk(L, first, k)[j].off = first + j - 1
    BY <1>3
  <2>2. first + j - 1 <= written[L]
    BY SMTT(30), <1>a, <1>0
  <2>3. StreamPos(I, D + j) = begin[L] + first + j - 1
    <3>1. D + 1 \in Int /\ D + j \in Int
      BY <1>0
    <3>2. /\ StreamPos(I, D + 1) = StreamPos(I, 1) + ((D + 1) - 1)
          /\ StreamPos(I, D + j) = StreamPos(I, 1) + ((D + j) - 1)
          /\ StreamPos(I, 1) \in Int
      BY <1>0, <3>1, StreamPosShift
    <3> QED
      BY SMTT(30), <3>2, <1>0, <1>1
  <2>4. begin[L] + (first + j - 1) = StreamPos(I, D + j)
    BY SMTT(30), <2>3, <1>0
  <2> QED
    BY <2>1, <2>2, <2>4, <1>b
<1>7. InPlace(wdata \o Chunk(L, first, k), I, written, begin)
  <2>1. InPlace(wdata, I, written, begin)
    BY <1>a, <1>0 DEF WriterInv
  <2> QED
    BY <1>a, <1>0, <1>3, <1>6, <2>1, InPlaceJoin
<1>9. begin[L] + first + k = begin[L] + written[L] + 1 - (wnleft - k)
  BY SMTT(30), <1>a, <1>0
<1> QED
  BY <1>0, <1>2, <1>4, <1>5, <1>7, <1>9

\* The rest of an event goes into the block.
LEMMA EvWriteRestStep ==
  ASSUME WInv, evWriteRest
  PROVE  WInv'
<1>0. /\ WriterTypeOK /\ WriterInv /\ TilingInv /\ FileInv /\ ClosedInv
      /\ wnleft \in Nat /\ wleft \in Nat /\ wnext \in Nat
  BY DEF WInv, WriterTypeOK
<1>1. /\ stream = "open" /\ wnleft > 0 /\ wnleft < wleft
      /\ wdata' = Copied(wnleft) /\ wnext' = wnext + wnleft
      /\ wleft' = wleft - wnleft /\ wnleft' = 0
      /\ written' = written /\ begin' = begin /\ stream' = stream
      /\ wblknum' = wblknum /\ wevnum' = wevnum /\ wstart' = wstart
      /\ file' = file
  BY DEF evWriteRest
<1>2. /\ wdata' \in Seq(Word)
      /\ Len(wdata') = Len(wdata) + wnleft
      /\ InPlace(wdata', Len(file) + 1, written, begin)
      /\ written # <<>>
      /\ StreamPos(Len(file) + 1, Len(wdata') + 1) =
           begin[Len(written)] + written[Len(written)] + 1 - (wnleft - wnleft)
  BY SMTT(30), <1>0, <1>1, CopiedInPlace
<1>3. WriterTypeOK'
  BY <1>0, <1>1, <1>2 DEF WriterTypeOK
<1>4. WriterInv'
  <2>1. wstart' = 0 \/ wstart' \in EV_HDSIZ..wnext'
    BY <1>0, <1>1, SizesAssumption DEF WriterTypeOK, WriterInv
  <2>2. /\ wnext' + wleft' = BlkSiz /\ wleft' > 0
        /\ Len(wdata') = wnext' - EV_HDSIZ
    BY <1>0, <1>1, <1>2, SizesAssumption DEF WriterTypeOK, WriterInv
  <2> QED
    BY SMTT(30), <1>0, <1>1, <1>2, <2>1, <2>2 DEF WriterInv
<1>5. TilingInv'
  <2>1. StreamPos(Len(file) + 1, Len(wdata') + 1) =
          begin[Len(written)] + written[Len(written)] + 1 - wnleft'
    BY <1>0, <1>1, <1>2
  <2> QED
    BY <1>0, <1>1, <1>2, <2>1 DEF TilingInv
<1>6. FileInv' /\ ClosedInv'
  BY <1>0, <1>1, <1>2 DEF FileInv, ClosedInv
<1> QED
  BY <1>3, <1>4, <1>5, <1>6 DEF WInv

\* A flushed block joins the file, whether evWrite filled it or evClose flushes
\* it short; next and data are what evFlush finds in the buffer.
LEMMA FlushStep ==
  ASSUME WInv, stream = "open", stream' \in {"open", "closed"},
         NEW next \in Nat, NEW data \in Seq(Word), evFlush(next, data),
         next <= BlkSiz, wnext <= next, Len(data) = next - EV_HDSIZ,
         stream' = "open" => next = BlkSiz,
         InPlace(data, Len(file) + 1, written, begin),
         written' = written, begin' = begin
  PROVE  /\ FileInv'
         /\ file' \in Seq(BlockType)
         /\ Len(file') = Len(file) + 1
         /\ file'[Len(file')].data = data
<1> DEFINE b == [blknum |-> wblknum, start |-> wstart, used |-> next,
                 resvd |-> wevnum, data |-> data]
<1>0. /\ WriterTypeOK /\ WriterInv /\ TilingInv /\ FileInv
      /\ file \in Seq(BlockType) /\ wblknum = Len(file) /\ Len(file) \in Nat
      /\ wstart = 0 \/ wstart \in EV_HDSIZ..wnext
      /\ wstart \in Nat /\ wevnum \in Nat /\ wnext \in Nat
      /\ file = <<>> => wstart = IF written = <<>> THEN 0 ELSE EV_HDSIZ
  BY DEF WInv, WriterTypeOK, WriterInv
<1>1. b \in BlockType
  BY <1>0 DEF BlockType
<1>2. file' = Append(file, b)
  BY DEF evFlush
<1> HIDE DEF b
<1>3. /\ file' \in Seq(BlockType) /\ Len(file') = Len(file) + 1
      /\ DOMAIN file' = 1..Len(file) + 1
      /\ \A i \in 1..Len(file) : file'[i] = file[i]
      /\ file'[Len(file) + 1] = b
  BY <1>0, <1>1, <1>2, AppendEntries
<1>4. ASSUME NEW i \in 1..Len(file) PROVE FileInv!(i)'
  <2>1. FileInv!(i) /\ i \in DOMAIN file /\ file[i].used = BlkSiz
    BY SMTT(30), <1>0 DEF FileInv
  <2> QED
    BY <2>1, <1>0, <1>3
<1>5. PICK n \in Nat : n = Len(file) + 1
  BY <1>0
<1>6. FileInv!(n)'
  <2>1. /\ b.blknum = Len(file) /\ b.start = wstart /\ b.used = next
        /\ b.data = data
    BY <1>0 DEF b
  <2>2. b.start = 0 \/ b.start \in EV_HDSIZ..b.used
    BY <1>0, <2>1, SizesAssumption
  <2>3. n = 1 => b.start = IF written = <<>> THEN 0 ELSE EV_HDSIZ
    BY <1>0, <1>5, <2>1
  <2>4. EV_HDSIZ <= b.used
    BY <1>0, <2>1, SizesAssumption
  <2>5. n < Len(file') \/ stream' # "closed" => b.used = BlkSiz
    BY <1>0, <1>3, <1>5, <2>1
  <2> QED
    BY <1>0, <1>3, <1>5, <2>1, <2>2, <2>3, <2>4, <2>5
<1>7. FileInv'
  <2>1. \A i \in 1..n : FileInv!(i)'
    BY SMTT(30), <1>0, <1>4, <1>5, <1>6
  <2>2. DOMAIN file' = 1..n
    BY <1>3, <1>5
  <2> QED
    BY <2>1, <2>2 DEF FileInv
<1> QED
  BY <1>0, <1>3, <1>7 DEF b

\* After a flush the buffer is empty and as large as it ever was.
LEMMA FlushedBuffer ==
  ASSUME WInv, NEW next \in Nat, NEW data \in Seq(Word), evFlush(next, data),
         Len(file') = Len(file) + 1, written' = written, begin' = begin,
         wevnum' = wevnum, wnleft' \in Nat, wnleft' <= wnleft
  PROVE  /\ WriterInv'
         /\ wnext' \in Nat /\ wleft' \in Nat /\ wblknum' \in Nat
         /\ wstart' \in Nat /\ wdata' \in Seq(Word)
<1>0. /\ WriterTypeOK /\ WriterInv /\ wnleft \in Nat
      /\ wblknum = Len(file) /\ Len(file) \in Nat
  BY DEF WInv, WriterTypeOK, WriterInv
<1>1. /\ wblknum' = wblknum + 1 /\ wstart' = 0 /\ wnext' = EV_HDSIZ
      /\ wleft' = BlkSiz - EV_HDSIZ /\ wdata' = <<>>
  BY DEF evFlush
<1>2. wnext' + wleft' = BlkSiz /\ wleft' > 0 /\ Len(wdata') = wnext' - EV_HDSIZ
  BY <1>1, SizesAssumption
<1>3. InPlace(wdata', Len(file') + 1, written', begin')
  BY <1>1 DEF InPlace
<1>4. wnleft' > 0 => Len(written) > 0 /\ wnleft' <= written[Len(written)] + 1
  <2>1. wnleft' > 0 => wnleft > 0
    BY <1>0
  <2>2. wnleft > 0 => Len(written) > 0 /\ wnleft <= written[Len(written)] + 1
    BY <1>0 DEF WriterInv
  <2>3. Len(written) > 0 => written[Len(written)] \in Nat
    BY <1>0, EventsType
  <2> QED
    BY <1>0, <2>1, <2>2, <2>3
<1>5. file' # <<>>
  BY <1>0
<1>6. wevnum = Len(written) /\ Len(begin) = Len(written)
  BY <1>0 DEF WriterInv
<1>7. WriterInv'
  BY <1>0, <1>1, <1>2, <1>3, <1>4, <1>5, <1>6 DEF WriterInv
<1> QED
  BY <1>0, <1>1, <1>7, SizesAssumption

\* A block is filled and flushed; the event goes on in the next one.
LEMMA EvWriteFillStep ==
  ASSUME WInv, evWriteFill
  PROVE  WInv'
<1>0. /\ WriterTypeOK /\ WriterInv /\ TilingInv /\ FileInv
      /\ wnleft \in Nat /\ wleft \in Nat /\ wnext \in Nat /\ Len(file) \in Nat
      /\ wnext + wleft = BlkSiz /\ Len(wdata) = wnext - EV_HDSIZ
  BY DEF WInv, WriterTypeOK, WriterInv
<1>1. /\ stream = "open" /\ wnleft > 0 /\ wnleft >= wleft
      /\ evFlush(wnext + wleft, Copied(wleft))
      /\ wnleft' = wnleft - wleft
      /\ written' = written /\ begin' = begin /\ stream' = stream
      /\ wevnum' = wevnum
  BY DEF evWriteFill
<1>2. /\ Copied(wleft) \in Seq(Word)
      /\ Len(Copied(wleft)) = Len(wdata) + wleft
      /\ InPlace(Copied(wleft), Len(file) + 1, written, begin)
      /\ written # <<>>
      /\ StreamPos(Len(file) + 1, Len(wdata) + wleft + 1) =
           begin[Len(written)] + written[Len(written)] + 1 - (wnleft - wleft)
  BY <1>0, <1>1, CopiedInPlace
<1>3. PICK next \in Nat, data \in Seq(Word) :
        next = wnext + wleft /\ data = Copied(wleft)
  BY <1>0, <1>2
<1>4. /\ FileInv' /\ file' \in Seq(BlockType) /\ Len(file') = Len(file) + 1
  <2>1. /\ next = BlkSiz /\ wnext <= next /\ Len(data) = next - EV_HDSIZ
        /\ InPlace(data, Len(file) + 1, written, begin)
        /\ evFlush(next, data)
    BY <1>0, <1>1, <1>2, <1>3, SizesAssumption
  <2>2. next <= BlkSiz
    BY <2>1, SizesAssumption
  <2> QED
    BY <1>1, <2>1, <2>2, FlushStep
<1>5. wnleft' \in Nat /\ wnleft' <= wnleft
  BY <1>0, <1>1
<1>6. evFlush(next, data)
  BY <1>1, <1>3
<1>7. /\ WriterInv'
      /\ wnext' \in Nat /\ wleft' \in Nat /\ wblknum' \in Nat
      /\ wstart' \in Nat /\ wdata' \in Seq(Word)
  BY <1>1, <1>4, <1>5, <1>6, FlushedBuffer
<1>8. WriterTypeOK'
  BY <1>0, <1>1, <1>4, <1>5, <1>7 DEF WriterTypeOK
<1>9. TilingInv'
  <2>1. /\ StreamPos(Len(file) + 1, Payload + 1) = StreamPos(Len(file') + 1, 1)
    <3>1. PICK n \in Nat : n = Len(file) + 1
      BY <1>0
    <3> QED
      BY <3>1, <1>4, StreamPosNext
  <2>2. Len(wdata) + wleft + 1 = Payload + 1
    BY <1>0, PayloadType, SizesAssumption
  <2>3. Len(wdata') + 1 = 1
    BY <1>1 DEF evFlush
  <2>4. StreamPos(Len(file') + 1, Len(wdata') + 1) =
          begin[Len(written)] + written[Len(written)] + 1 - wnleft'
    BY <1>1, <1>2, <2>1, <2>2, <2>3
  <2> QED
    BY <1>0, <1>1, <1>2, <2>4 DEF TilingInv
<1>10. ClosedInv'
  BY <1>1, <1>2 DEF ClosedInv
<1> QED
  BY <1>4, <1>7, <1>8, <1>9, <1>10 DEF WInv

\* evClose flushes what the buffer holds: the file ends where the events end.
LEMMA EvCloseStep ==
  ASSUME WInv, evClose
  PROVE  WInv'
<1>0. /\ WriterTypeOK /\ WriterInv /\ TilingInv /\ FileInv
      /\ wnleft \in Nat /\ wleft \in Nat /\ wnext \in Nat /\ Len(file) \in Nat
      /\ wnext + wleft = BlkSiz /\ Len(wdata) = wnext - EV_HDSIZ
      /\ wdata \in Seq(Word)
      /\ InPlace(wdata, Len(file) + 1, written, begin)
  BY DEF WInv, WriterTypeOK, WriterInv
<1>1. /\ stream = "open" /\ wnleft = 0
      /\ evFlush(wnext, wdata)
      /\ wnleft' = wnleft
      /\ written' = written /\ begin' = begin /\ stream' = "closed"
      /\ wevnum' = wevnum
  BY DEF evClose
<1>2. PICK next \in Nat, data \in Seq(Word) : next = wnext /\ data = wdata
  BY <1>0
<1>3. /\ FileInv' /\ file' \in Seq(BlockType) /\ Len(file') = Len(file) + 1
      /\ file'[Len(file')].data = data
  <2>1. /\ next <= BlkSiz /\ wnext <= next /\ Len(data) = next - EV_HDSIZ
        /\ InPlace(data, Len(file) + 1, written, begin)
        /\ evFlush(next, data)
    BY <1>0, <1>1, <1>2, SizesAssumption
  <2> QED
    BY <1>1, <2>1, FlushStep
<1>4. evFlush(next, data) /\ wnleft' \in Nat /\ wnleft' <= wnleft
  BY <1>0, <1>1, <1>2
<1>5. /\ WriterInv'
      /\ wnext' \in Nat /\ wleft' \in Nat /\ wblknum' \in Nat
      /\ wstart' \in Nat /\ wdata' \in Seq(Word)
  BY <1>1, <1>3, <1>4, FlushedBuffer
<1>6. WriterTypeOK'
  BY <1>0, <1>1, <1>3, <1>4, <1>5 DEF WriterTypeOK
<1>7. TilingInv'
  BY <1>0, <1>1 DEF TilingInv
<1>8. ClosedInv'
  <2>1. StreamPos(Len(file'), Len(wdata) + 1) =
          IF written = <<>> THEN 0
          ELSE begin[Len(written)] + written[Len(written)] + 1 - 0
    BY <1>0, <1>1, <1>3 DEF TilingInv
  <2>2. written # <<>> => begin[Len(written)] \in Nat /\ written[Len(written)] \in Nat
    BY <1>0, EventsType
  <2>3. file' # <<>>
    BY <1>0, <1>3
  <2> QED
    BY <1>1, <1>2, <1>3, <2>1, <2>2, <2>3 DEF ClosedInv
<1> QED
  BY <1>3, <1>5, <1>6, <1>7, <1>8 DEF WInv

\* The death of the writer changes nothing in the file.
LEMMA WriterDiesStep ==
  ASSUME WInv, WriterDies
  PROVE  WInv'
<1>0. /\ WriterTypeOK /\ WriterInv /\ TilingInv /\ FileInv /\ ClosedInv
  BY DEF WInv
<1>1. /\ stream = "open" /\ stream' = "cut"
      /\ UNCHANGED <<written, begin, wnleft, wnext, wleft, wblknum, wevnum,
                     wstart, wdata, file>>
  BY DEF WriterDies
<1>2. WriterTypeOK'
  BY <1>0, <1>1 DEF WriterTypeOK
<1>3. WriterInv'
  BY <1>0, <1>1 DEF WriterInv
<1>4. TilingInv' /\ ClosedInv' /\ FileInv'
  BY <1>0, <1>1 DEF TilingInv, ClosedInv, FileInv
<1> QED
  BY <1>2, <1>3, <1>4 DEF WInv

\* The reader writes nothing of the writer's.
LEMMA WriterUnchanged ==
  ASSUME WInv, UNCHANGED wvars
  PROVE  WInv'
<1>1. UNCHANGED <<written, begin, stream, wnleft, wnext, wleft, wblknum, wevnum,
                  wstart, wdata, file>>
  BY DEF wvars
<1>2. WriterTypeOK'
  BY <1>1 DEF WInv, WriterTypeOK
<1>3. WriterInv'
  BY <1>1 DEF WInv, WriterInv
<1>4. TilingInv' /\ ClosedInv' /\ FileInv'
  BY <1>1 DEF WInv, TilingInv, ClosedInv, FileInv
<1> QED
  BY <1>2, <1>3, <1>4 DEF WInv

\* No step of the writer, nor of the reader, disturbs the blocks.
THEOREM WriterStep == WInv /\ [Next]_vars => WInv'
<1> SUFFICES ASSUME WInv, [Next]_vars PROVE WInv'
  OBVIOUS
<1>1. CASE WriterNext
  BY <1>1, EvWriteStep, EvWriteRestStep, EvWriteFillStep, EvCloseStep DEF WriterNext
<1>2. CASE WriterDies
  BY <1>2, WriterDiesStep
<1>3. CASE ReaderNext
  <2>1. UNCHANGED wvars
    BY <1>3 DEF ReaderNext, evOpen, evOpenBadFile, evGetNewBuffer,
                evGetNewBufferEof, evRead, evReadPart, evReadReturn
  <2> QED
    BY <2>1, WriterUnchanged
<1>4. CASE UNCHANGED vars
  <2>1. UNCHANGED wvars
    BY <1>4 DEF vars
  <2> QED
    BY <2>1, WriterUnchanged
<1> QED
  BY <1>1, <1>2, <1>3, <1>4 DEF Next

\* Every block but the one evClose flushes is full, whatever the sizes: the
\* writer leaves no gap inside an event that spans blocks.
THEOREM FullBlocks == Spec => []OnlyLastBlockShort
<1>1. WInv => OnlyLastBlockShort
  <2> SUFFICES ASSUME WInv, NEW i \in DOMAIN file, i < Len(file)
               PROVE  file[i].used = BlkSiz /\ Len(file[i].data) = Payload
    BY DEF OnlyLastBlockShort
  <2> QED
    BY PayloadType DEF WInv, FileInv
<1> QED
  BY WriterInit, WriterStep, <1>1, PTL DEF Spec

(***************************************************************************)
(* The reader's part of the invariant                                      *)
(***************************************************************************)

RInv == ReaderTypeOK /\ ReaderInv

\* A reader has read nothing at first.
THEOREM ReaderInit == Init => RInv
<1> SUFFICES ASSUME Init PROVE RInv
  OBVIOUS
<1>1. NoBlock \in BlockType
  BY DEF NoBlock, BlockType
<1>2. ReaderTypeOK
  <2>1. <<>> \in Seq(Word) /\ <<>> \in Seq(Seq(Word))
    OBVIOUS
  <2> QED
    BY <1>1, <2>1 DEF Init, ReaderTypeOK
<1>3. ReaderInv
  BY DEF Init, ReaderInv
<1> QED
  BY <1>2, <1>3 DEF RInv

\* What the writer does, adding events and blocks, disturbs no reader.
LEMMA ReaderUndisturbed ==
  ASSUME WInv, RInv, UNCHANGED rvars,
         \A n \in DOMAIN written : written'[n] = written[n] /\ begin'[n] = begin[n],
         Len(written') \in Nat, Len(written) <= Len(written'),
         Len(file') \in Nat, Len(file) <= Len(file'),
         \A i \in DOMAIN file : file'[i] = file[i],
         stream = "closed" => UNCHANGED <<written, stream>>,
         written' = <<>> <=> Len(written') = 0
  PROVE  RInv'
<1>0. /\ ReaderTypeOK /\ ReaderInv
      /\ UNCHANGED <<rstate, rstatus, rblk, rpos, rnext, rleft, rblknum, rnleft,
                     rtrunc, rbuf, results>>
  BY DEF RInv, rvars
<1>1. ReaderTypeOK'
  BY <1>0 DEF ReaderTypeOK
<1>2. /\ Len(results) \in Nat /\ rpos \in Nat /\ Len(file) \in Nat
      /\ DOMAIN file = 1..Len(file)
      /\ DOMAIN results = 1..Len(results)
      /\ DOMAIN written = 1..Len(written) /\ Len(written) \in Nat
      /\ written = <<>> <=> Len(written) = 0
  BY <1>0, EventsType DEF ReaderTypeOK, WInv, WriterTypeOK
<1>3. Len(results) <= Len(written)
  BY <1>0 DEF ReaderInv
<1>4. UNCHANGED ReadingFrom
  BY <1>0, <1>2, <1>3 DEF ReadingFrom
<1>8. ReaderInv'
  <2>5. CASE written = <<>> /\ written' # <<>>
    <3>1. rpos = 0 /\ rstate \in {"unopened", "ended"}
      BY <1>0, <1>2, <2>5 DEF ReaderInv
    <3>2. results = <<>> /\ DOMAIN results = {}
      BY <1>0, <1>2, <1>3, <2>5 DEF ReaderTypeOK
    <3> QED
      BY <1>0, <1>2, <3>1, <3>2 DEF ReaderInv
  <2>6. CASE written = <<>> /\ written' = <<>>
    <3>1. rpos > 0 => rpos \in DOMAIN file
      BY <1>0, <1>2 DEF ReaderInv
    <3> QED
      BY <1>0, <1>2, <1>3, <2>6, <3>1 DEF ReaderInv
  <2>7. CASE written # <<>>
    <3>1. written' # <<>>
      BY <1>2, <2>7
    <3>2. rpos > 0 => rpos \in DOMAIN file
      BY <1>0, <1>2 DEF ReaderInv
    <3>3. \A k \in DOMAIN results : written'[k] = written[k]
      BY <1>2, <1>3
    <3>4. Len(results) < Len(written) =>
            written'[Len(results) + 1] = written[Len(results) + 1]
      BY <1>2
    <3> QED
      BY SMTT(30), <1>0, <1>2, <1>3, <1>4, <2>7, <3>1, <3>2, <3>3, <3>4 DEF ReaderInv
  <2> QED
    BY <2>5, <2>6, <2>7, <1>2
<1> QED
  BY <1>1, <1>8 DEF RInv

\* The variables the writer owns do not move in a reader's step; what the
\* reader's steps below need of them, in small pieces.
LEMMA ReaderFacts ==
  ASSUME WInv, RInv, rpos > 0
  PROVE  /\ rpos \in DOMAIN file /\ rpos \in Nat /\ rpos <= Len(file)
         /\ DOMAIN file = 1..Len(file) /\ Len(file) \in Nat
         /\ rblk = file[rpos] /\ rblk \in BlockType
         /\ rblknum = rpos - 1
         /\ rnext \in Nat /\ rleft \in Nat /\ rnext + rleft = rblk.used
         /\ Len(rblk.data) = rblk.used - EV_HDSIZ /\ rblk.data \in Seq(Word)
         /\ rblk.used \in Nat /\ rblk.used <= BlkSiz
         /\ EV_HDSIZ <= rblk.used
         /\ InPlace(rblk.data, rpos, written, begin)
         /\ written = <<>> => stream = "closed"
<1>1. /\ rpos \in Nat /\ rpos <= Len(file) /\ rblk = file[rpos]
      /\ rblknum = rpos - 1 /\ rnext \in Nat /\ rleft \in Nat
      /\ rnext + rleft = rblk.used /\ rblk \in BlockType
      /\ written = <<>> => stream = "closed"
  BY DEF RInv, ReaderTypeOK, ReaderInv
<1>2. DOMAIN file = 1..Len(file) /\ Len(file) \in Nat
  BY DEF WInv, WriterTypeOK
<1>3. rpos \in DOMAIN file
  BY <1>1, <1>2
<1>4. /\ Len(rblk.data) = rblk.used - EV_HDSIZ
      /\ rblk.used <= BlkSiz /\ EV_HDSIZ <= rblk.used
      /\ InPlace(rblk.data, rpos, written, begin)
  BY <1>1, <1>3 DEF WInv, FileInv
<1>5. rblk.data \in Seq(Word) /\ rblk.used \in Nat
  BY <1>1 DEF BlockType
<1> QED
  BY <1>1, <1>2, <1>3, <1>4, <1>5

\* The words in front of the reader are where begin says.
LEMMA WordsAhead ==
  ASSUME WInv, RInv, rpos > 0, rnext >= EV_HDSIZ, NEW j \in 1..rleft
  PROVE  LET w == WordAt(rblk, rnext + j - 1)
         IN /\ w \in Word /\ w.ev \in DOMAIN written /\ w.off <= written[w.ev]
            /\ begin[w.ev] + w.off =
                 StreamPos(rpos, rnext - EV_HDSIZ + 1) + j - 1
<1>1. PICK k \in Nat : k = rnext + j - EV_HDSIZ
  BY ReaderFacts, SizesAssumption
<1>2. k \in 1..Len(rblk.data)
  BY SMTT(30), <1>1, ReaderFacts, SizesAssumption
<1>3. WordAt(rblk, rnext + j - 1) = rblk.data[k]
  <2>1. PICK i \in Nat : i = rnext + j - 1
    BY ReaderFacts
  <2>2. ~(i < EV_HDSIZ) /\ i - EV_HDSIZ + 1 = k
    BY SMTT(30), <1>1, <2>1, ReaderFacts, SizesAssumption
  <2>3. WordAt(rblk, i) = rblk.data[k]
    BY <2>2 DEF WordAt
  <2> QED
    BY <2>1, <2>3
<1>4. rblk.data[k] \in Word /\ k \in DOMAIN rblk.data
  <2>1. rblk.data \in Seq(Word)
    BY ReaderFacts
  <2> QED
    BY <2>1, <1>2
<1>5. /\ rblk.data[k].ev \in DOMAIN written
      /\ rblk.data[k].off <= written[rblk.data[k].ev]
      /\ begin[rblk.data[k].ev] + rblk.data[k].off = StreamPos(rpos, k)
  BY <1>4, ReaderFacts DEF InPlace
<1>6. StreamPos(rpos, k) = StreamPos(rpos, rnext - EV_HDSIZ + 1) + j - 1
  <2>1. PICK m \in Int : m = rnext - EV_HDSIZ + 1
    BY ReaderFacts, SizesAssumption
  <2>2. /\ StreamPos(rpos, k) = StreamPos(rpos, 1) + (k - 1)
        /\ StreamPos(rpos, m) = StreamPos(rpos, 1) + (m - 1)
        /\ StreamPos(rpos, 1) \in Int
    <3>1. rpos \in Nat /\ k \in Int
      BY ReaderFacts
    <3> QED
      BY <3>1, StreamPosShift
  <2>3. StreamPos(rpos, k) = StreamPos(rpos, m) + (k - m)
    BY <2>2
  <2>4. k - m = j - 1
    BY SMTT(30), <1>1, <2>1, ReaderFacts, SizesAssumption
  <2>5. StreamPos(rpos, k) = StreamPos(rpos, m) + j - 1
    BY <2>2, <2>3, <2>4
  <2> QED
    BY <2>1, <2>5
<1> QED
  BY <1>3, <1>4, <1>5, <1>6

\* Where the next event to be read begins, and that events end after begin.
LEMMA ReadingFromNext ==
  ASSUME WInv, RInv
  PROVE  /\ Len(results) \in Nat /\ ReadingFrom \in Nat
         /\ Len(results) <= Len(written)
         /\ Len(results) < Len(written) =>
              Len(results) + 1 \in DOMAIN written /\ ReadingFrom = begin[Len(results) + 1]
<1>1. /\ Len(results) \in Nat /\ Len(results) <= Len(written)
  BY DEF RInv, ReaderTypeOK, ReaderInv
<1>2. /\ DOMAIN written = 1..Len(written) /\ DOMAIN begin = DOMAIN written
      /\ Len(written) \in Nat
      /\ \A n \in DOMAIN written : written[n] \in Nat /\ begin[n] \in Nat
  BY EventsType DEF WInv
<1>3. ReadingFrom \in Nat
  BY <1>1, <1>2 DEF ReadingFrom
<1>4. ASSUME Len(results) < Len(written)
      PROVE  ReadingFrom = begin[Len(results) + 1]
  <2>1. PICK n \in DOMAIN written : n = Len(results) + 1
    BY <1>1, <1>2, <1>4
  <2>2. CASE Len(results) = 0
    BY <1>2, <2>1, <2>2 DEF WInv, TilingInv, ReadingFrom
  <2>3. CASE Len(results) > 0
    <3>1. n > 1 /\ n - 1 = Len(results)
      BY <1>1, <2>1, <2>3
    <3>2. begin[n] = begin[n - 1] + written[n - 1] + 1
      BY <1>2, <3>1 DEF WInv, TilingInv
    <3> QED
      BY <1>1, <2>1, <2>3, <3>1, <3>2 DEF ReadingFrom
  <2> QED
    BY <1>1, <2>2, <2>3
<1> QED
  BY <1>1, <1>2, <1>3, <1>4

\* A word at the right place in the stream is the expected word of the event.
LEMMA ExpectedWord ==
  ASSUME WInv, RInv, Len(results) < Len(written), NEW c \in Nat,
         c <= written[Len(results) + 1],
         NEW w \in Word, w.ev \in DOMAIN written, w.off <= written[w.ev],
         begin[w.ev] + w.off = ReadingFrom + c
  PROVE  w = [ev |-> Len(results) + 1, off |-> c]
<1>1. PICK n \in DOMAIN written : n = Len(results) + 1 /\ ReadingFrom = begin[n]
  BY ReadingFromNext
<1>2. w.ev = n
  <2>1. begin[n] <= begin[w.ev] + w.off /\ begin[w.ev] + w.off <= begin[n] + written[n]
    BY <1>1, EventsType DEF WInv
  <2>2. w.off \in Nat
    BY DEF Word
  <2> QED
    BY <2>1, <2>2, <1>1, PositionUnique DEF WInv
<1>3. w.off = c
  <2>1. begin[n] \in Nat /\ w.off \in Nat
    BY EventsType DEF WInv, Word
  <2> QED
    BY <1>1, <1>2, <2>1
<1> QED
  BY <1>1, <1>2, <1>3 DEF Word

\* A chunk that starts at the event's first word, continued by what follows.
LEMMA ChunkExtend ==
  ASSUME NEW n \in Nat, NEW c \in Nat, NEW m \in Nat,
         NEW t \in Seq(Word), Len(t) = m,
         \A j \in 1..m : t[j] = [ev |-> n, off |-> c + j - 1]
  PROVE  Chunk(n, 0, c) \o t = Chunk(n, 0, c + m)
<1> DEFINE u == Chunk(n, 0, c)
           v == Chunk(n, 0, c + m)
<1>1. /\ u \in Seq(Word) /\ Len(u) = c
      /\ v \in Seq(Word) /\ Len(v) = c + m
  <2>1. u \in Seq(Word) /\ Len(u) = c
    BY ChunkType
  <2>2. PICK k \in Nat : k = c + m
    OBVIOUS
  <2>3. Chunk(n, 0, k) \in Seq(Word) /\ Len(Chunk(n, 0, k)) = k
    BY ChunkType
  <2> QED
    BY <2>1, <2>2, <2>3
<1>2. \A j \in 1..c : u[j] = [ev |-> n, off |-> 0 + j - 1]
  BY DEF Chunk
<1>3. \A j \in 1..c + m : v[j] = [ev |-> n, off |-> 0 + j - 1]
  BY DEF Chunk
<1> HIDE DEF u, v
<1>4. /\ u \o t \in Seq(Word) /\ Len(u \o t) = c + m
      /\ \A j \in 1..c + m : (u \o t)[j] = IF j <= c THEN u[j] ELSE t[j - c]
  <2>1. /\ u \o t \in Seq(Word) /\ Len(u \o t) = Len(u) + Len(t)
        /\ \A j \in 1..Len(u) + Len(t) :
             (u \o t)[j] = IF j <= Len(u) THEN u[j] ELSE t[j - Len(u)]
    BY <1>1, ConcatProperties
  <2> QED
    BY <2>1, <1>1
<1>5. ASSUME NEW j \in 1..c + m PROVE (u \o t)[j] = v[j]
  <2>1. CASE j <= c
    <3>1. (u \o t)[j] = u[j] /\ j \in 1..c
      BY <1>4, <2>1
    <3> QED
      BY <3>1, <1>2, <1>3
  <2>2. CASE ~(j <= c)
    <3>1. PICK k \in 1..m : k = j - c
      BY <2>2
    <3>2. (u \o t)[j] = t[k]
      BY <1>4, <2>2, <3>1
    <3>3. t[k] = [ev |-> n, off |-> c + k - 1] /\ c + k - 1 = 0 + j - 1
      BY <3>1
    <3> QED
      BY <1>3, <3>2, <3>3
  <2> QED
    BY <2>1, <2>2
<1>6. u \o t = v
  BY <1>1, <1>4, <1>5, SeqEqual
<1> QED
  BY <1>6 DEF u, v

\* What evRead copies out of the block are the next words of the event.
LEMMA CopyOutStep ==
  ASSUME WInv, RInv, rstate = "copying", written # <<>>,
         NEW n \in Nat, n <= rleft, n <= rnleft, CopyOut(n)
  PROVE  /\ rbuf' \in Seq(Word)
         /\ Len(rbuf') = Len(rbuf) + n
         /\ rbuf' = Chunk(Len(results) + 1, 0, Len(rbuf) + n)
         /\ rpos > 0 /\ rnext' >= EV_HDSIZ
         /\ StreamPos(rpos, rnext' - EV_HDSIZ + 1) = ReadingFrom + Len(rbuf) + n
<1>1. /\ rpos \in Nat /\ rpos > 0 /\ rnext >= EV_HDSIZ
      /\ StreamPos(rpos, rnext - EV_HDSIZ + 1) = ReadingFrom + Len(rbuf)
      /\ Len(results) < Len(written)
      /\ rbuf = Chunk(Len(results) + 1, 0, Len(rbuf))
      /\ rnleft + Len(rbuf) <= written[Len(results) + 1] + 1
      /\ rbuf \in Seq(Word) /\ Len(rbuf) \in Nat /\ rnext \in Nat /\ rnleft \in Nat
      /\ rleft \in Nat
  BY DEF RInv, ReaderTypeOK, ReaderInv
<1>2. PICK t : t = [i \in 1..n |-> WordAt(rblk, rnext + i - 1)]
  OBVIOUS
<1>3. rbuf' = rbuf \o t /\ rnext' = rnext + n
  BY <1>2 DEF CopyOut
<1>4. PICK r \in Nat : r = Len(results) + 1
  BY ReadingFromNext
<1>5. PICK c \in Nat : c = Len(rbuf)
  BY <1>1
<1>6. ASSUME NEW j \in 1..n
      PROVE  t[j] = [ev |-> r, off |-> c + j - 1] /\ t[j] \in Word
  <2>1. PICK w : w = WordAt(rblk, rnext + j - 1)
    OBVIOUS
  <2>2. j \in 1..rleft
    BY <1>1
  <2>3. /\ w \in Word /\ w.ev \in DOMAIN written /\ w.off <= written[w.ev]
        /\ begin[w.ev] + w.off = StreamPos(rpos, rnext - EV_HDSIZ + 1) + j - 1
    BY <1>1, <2>1, <2>2, WordsAhead
  <2>4. PICK o \in Nat : o = c + j - 1
    BY SMTT(30), <1>5
  <2>5. o <= written[Len(results) + 1]
    <3>1. written[Len(results) + 1] \in Nat
      BY <1>1, ReadingFromNext, EventsType DEF WInv
    <3> QED
      BY SMTT(30), <1>1, <1>5, <2>4, <3>1
  <2>6. begin[w.ev] + w.off = ReadingFrom + o
    BY SMTT(30), <1>1, <1>5, <2>3, <2>4, ReadingFromNext
  <2>7. w = [ev |-> Len(results) + 1, off |-> o]
    BY <1>1, <2>3, <2>5, <2>6, ExpectedWord
  <2> QED
    BY <1>2, <1>4, <2>1, <2>3, <2>4, <2>7
<1>7. t \in Seq(Word) /\ Len(t) = n
  <2>1. \A j \in 1..n : WordAt(rblk, rnext + j - 1) \in Word
    BY <1>2, <1>6
  <2> QED
    BY <1>2, <2>1
<1>8. Chunk(r, 0, c) \o t = Chunk(r, 0, c + n)
  BY ZenonT(30), <1>6, <1>7, ChunkExtend
<1>9. rbuf' \in Seq(Word) /\ Len(rbuf') = Len(rbuf) + n
  BY <1>1, <1>3, <1>7, ConcatProperties
<1>10. rbuf' = Chunk(Len(results) + 1, 0, Len(rbuf) + n)
  BY <1>1, <1>3, <1>4, <1>5, <1>8
<1>11. StreamPos(rpos, rnext' - EV_HDSIZ + 1) = ReadingFrom + Len(rbuf) + n
  <2>1. PICK a \in Int, b \in Int : a = rnext - EV_HDSIZ + 1 /\ b = rnext' - EV_HDSIZ + 1
    BY <1>1, <1>3, SizesAssumption
  <2>2. /\ StreamPos(rpos, a) = StreamPos(rpos, 1) + (a - 1)
        /\ StreamPos(rpos, b) = StreamPos(rpos, 1) + (b - 1)
        /\ StreamPos(rpos, 1) \in Int
    BY <1>1, StreamPosShift
  <2>3. b = a + n
    BY <1>1, <1>3, <2>1, SizesAssumption
  <2>4. StreamPos(rpos, b) = StreamPos(rpos, a) + n
    BY <2>2, <2>3
  <2> QED
    BY <1>1, <2>1, <2>4, ReadingFromNext
<1>12. rnext' >= EV_HDSIZ
  BY <1>1, <1>3, SizesAssumption
<1> QED
  BY <1>1, <1>9, <1>10, <1>11, <1>12

\* The words of a block in the buffer, its header included.
LEMMA WordAtType ==
  ASSUME WInv, RInv, rpos > 0, NEW i \in Nat, i < rblk.used
  PROVE  WordAt(rblk, i) \in Word
<1>1. CASE i < EV_HDSIZ
  BY <1>1 DEF WordAt, Word
<1>2. CASE ~(i < EV_HDSIZ)
  <2>1. PICK k \in Nat : k = i - EV_HDSIZ + 1
    BY <1>2, SizesAssumption
  <2>2. k \in 1..Len(rblk.data) /\ rblk.data \in Seq(Word)
    BY SMTT(30), <1>2, <2>1, ReaderFacts, SizesAssumption
  <2>3. rblk.data[k] \in Word
    BY <2>2
  <2>4. WordAt(rblk, i) = rblk.data[k]
    BY <1>2, <2>1 DEF WordAt
  <2> QED
    BY <2>3, <2>4
<1> QED
  BY <1>1, <1>2

\* Copying stays inside the block.
LEMMA CopyOutType ==
  ASSUME WInv, RInv, rpos > 0, NEW n \in Nat, n <= rleft, n <= rnleft, CopyOut(n),
         UNCHANGED rblk
  PROVE  /\ rbuf' \in Seq(Word) /\ Len(rbuf') = Len(rbuf) + n
         /\ rnext' = rnext + n /\ rleft' = rleft - n /\ rnleft' = rnleft - n
         /\ rnext' \in Nat /\ rleft' \in Nat /\ rnleft' \in Nat
         /\ rnext' + rleft' = rblk'.used
<1>1. /\ rnext \in Nat /\ rleft \in Nat /\ rnleft \in Nat /\ rbuf \in Seq(Word)
      /\ rnext + rleft = rblk.used /\ rblk.used \in Nat
  BY ReaderFacts DEF RInv, ReaderTypeOK
<1>2. PICK t : t = [i \in 1..n |-> WordAt(rblk, rnext + i - 1)]
  OBVIOUS
<1>3. /\ rbuf' = rbuf \o t
      /\ rnext' = rnext + n /\ rleft' = rleft - n /\ rnleft' = rnleft - n
  BY <1>2 DEF CopyOut
<1>4. ASSUME NEW j \in 1..n PROVE WordAt(rblk, rnext + j - 1) \in Word
  <2>1. PICK i \in Nat : i = rnext + j - 1
    BY <1>1
  <2>2. i < rblk.used
    BY <1>1, <2>1
  <2> QED
    BY <2>1, <2>2, WordAtType
<1>5. t \in Seq(Word) /\ Len(t) = n
  BY <1>2, <1>4
<1>6. rbuf' \in Seq(Word) /\ Len(rbuf') = Len(rbuf) + n
  BY <1>1, <1>3, <1>5, ConcatProperties
<1> QED
  BY <1>1, <1>3, <1>6

\* An event delivered whole is the next one written.
LEMMA EvReadReturnStep ==
  ASSUME WInv, RInv, evReadReturn
  PROVE  /\ RInv'
         /\ ~rtrunc => /\ Len(results) < Len(written)
                       /\ results' = Append(results,
                            EventWords(Len(results) + 1, written[Len(results) + 1]))
<1>1. /\ rstate = "copying" /\ rleft > 0 /\ rnleft <= rleft /\ CopyOut(rnleft)
      /\ UNCHANGED <<rblk, rpos, rblknum, rtrunc>>
      /\ UNCHANGED <<written, begin, stream, file>>
  BY DEF evReadReturn, wvars
<1>2. /\ ReaderTypeOK /\ ReaderInv /\ rpos > 0
      /\ rleft \in Nat /\ rnleft \in Nat
      /\ results \in Seq(Seq(Word)) /\ Len(results) \in Nat
  BY <1>1 DEF RInv, ReaderTypeOK, ReaderInv
<1>3. /\ rbuf' \in Seq(Word) /\ Len(rbuf') = Len(rbuf) + rnleft
      /\ rnext' \in Nat /\ rleft' \in Nat /\ rnleft' \in Nat
      /\ rnext' + rleft' = rblk'.used
  BY <1>1, <1>2, CopyOutType
<1>4. CASE rtrunc
  <2>1. rstate' = "ended" /\ rstatus' = "TRUNC" /\ results' = results
    BY <1>4 DEF evReadReturn, Fail
  <2>2. ReaderTypeOK'
    BY <1>1, <1>2, <1>3, <2>1 DEF ReaderTypeOK
  <2>3. ReaderInv'
    BY <1>1, <1>2, <1>3, <2>1 DEF ReaderInv
  <2> QED
    BY <1>4, <2>2, <2>3 DEF RInv
<1>5. CASE ~rtrunc
  <2>1. /\ rstate' = "idle" /\ rstatus' = "SUCCESS"
        /\ results' = Append(results, rbuf')
    BY <1>5 DEF evReadReturn
  <2>2. written # <<>>
    BY <1>1, <1>2, <1>5 DEF ReaderInv
  <2>3. PICK R \in Nat : R = Len(results)
    BY <1>2
  <2>4. /\ R < Len(written)
        /\ rnleft + Len(rbuf) = written[R + 1] + 1
        /\ Len(rbuf) \in Nat
        /\ R + 1 \in DOMAIN written /\ ReadingFrom = begin[R + 1]
        /\ \A k \in DOMAIN results : results[k] = EventWords(k, written[k])
    BY <1>1, <1>2, <1>5, <2>2, <2>3, ReadingFromNext DEF ReaderInv, ReaderTypeOK
  <2>5. /\ rbuf' = Chunk(R + 1, 0, Len(rbuf) + rnleft)
        /\ rnext' >= EV_HDSIZ
        /\ StreamPos(rpos, rnext' - EV_HDSIZ + 1) = ReadingFrom + Len(rbuf) + rnleft
    BY <1>1, <1>2, <2>2, <2>3, CopyOutStep
  <2>6. PICK l \in Nat, b \in Nat : l = written[R + 1] /\ b = begin[R + 1]
    BY <2>4, EventsType DEF WInv
  <2>7. rbuf' = EventWords(R + 1, l)
    <3>1. Len(rbuf) + rnleft = l + 1
      BY <1>2, <2>4, <2>6
    <3> QED
      BY <2>5, <3>1 DEF EventWords
  <2>8. /\ results' \in Seq(Seq(Word)) /\ Len(results') = R + 1
        /\ DOMAIN results' = 1..R + 1
        /\ \A k \in 1..R : results'[k] = results[k]
        /\ results'[R + 1] = EventWords(R + 1, l)
    BY <1>2, <1>3, <2>1, <2>3, <2>7, AppendEntries
  <2>9. \A k \in DOMAIN results' : results'[k] = EventWords(k, written'[k])
    <3>1. DOMAIN results = 1..R
      BY <1>2, <2>3
    <3> QED
      BY SMTT(30), <1>1, <2>4, <2>6, <2>8, <3>1
  <2>10. ReadingFrom' = b + l + 1
    BY <1>1, <2>6, <2>8 DEF ReadingFrom
  <2>11. StreamPos(rpos, rnext' - EV_HDSIZ + 1) = ReadingFrom'
    <3>1. PICK c \in Nat : c = Len(rbuf)
      BY <2>4
    <3>2. PICK p : p = StreamPos(rpos, rnext' - EV_HDSIZ + 1)
      OBVIOUS
    <3>3. p = b + c + rnleft /\ rnleft + c = l + 1
      BY <2>4, <2>5, <2>6, <3>1, <3>2
    <3>4. p = b + l + 1
      BY <1>2, <3>3
    <3> QED
      BY <2>10, <3>2, <3>4
  <2>12. StreamPos(rpos', rnext' - EV_HDSIZ + 1) = ReadingFrom' + 0
    BY <1>1, <2>6, <2>10, <2>11
  <2>13. ReaderTypeOK'
    BY <1>1, <1>2, <1>3, <2>1, <2>8 DEF ReaderTypeOK
  <2>14. ReaderInv'
    <3>1. (R + 1) <= Len(written') /\ written' # <<>> /\ rpos' > 0 /\ rleft' >= 0
      BY <1>1, <1>2, <1>3, <2>2, <2>3, <2>4, EventsType DEF WInv
    <3>2. /\ rpos' <= Len(file') /\ rblk' = file'[rpos'] /\ rblknum' = rpos' - 1
          /\ written' # <<>>
      BY <1>1, <1>2, <2>2 DEF ReaderInv
    <3>6. Len(results') <= Len(written')
      BY <2>8, <3>1
    <3>7. \A k \in DOMAIN results' : results'[k] = EventWords(k, written'[k])
      BY <2>9
    <3>8. written' # <<>> /\ rstate' = "idle" /\ rpos' > 0
      BY <2>1, <3>1
    <3>9. rnext' >= EV_HDSIZ /\ rnext' + rleft' = rblk'.used /\ rleft' >= 0
      BY <1>3, <2>5, <3>1
    <3> QED
      BY <2>12, <3>2, <3>6, <3>7, <3>8, <3>9 DEF ReaderInv
  <2> QED
    BY <2>1, <2>3, <2>4, <2>6, <2>7, <2>13, <2>14 DEF RInv
<1> QED
  BY <1>4, <1>5

\* A step of the writer takes nothing from what the reader has.
LEMMA WriterKeepsReader ==
  ASSUME WInv, WInv', RInv, WriterNext \/ WriterDies
  PROVE  RInv'
<1>1. /\ written \in Seq(Lens) /\ begin \in Seq(Nat) /\ file \in Seq(BlockType)
      /\ written' \in Seq(Lens) /\ begin' \in Seq(Nat) /\ file' \in Seq(BlockType)
      /\ Len(begin) = Len(written)
  BY DEF WInv, WriterTypeOK, WriterInv
<1>2. /\ Len(written) \in Nat /\ Len(file) \in Nat
      /\ Len(written') \in Nat /\ Len(file') \in Nat
      /\ DOMAIN written = 1..Len(written) /\ DOMAIN file = 1..Len(file)
      /\ written' = <<>> <=> Len(written') = 0
  BY <1>1
<1>3. UNCHANGED rvars /\ stream = "open"
  BY DEF WriterNext, evWrite, evWriteRest, evWriteFill, evClose, WriterDies
<1>4. \/ UNCHANGED <<written, begin>>
      \/ \E len \in Lens, b \in Nat : /\ written' = Append(written, len)
                                      /\ begin' = Append(begin, b)
  <2>1. CASE \E len \in Lens : evWrite(len)
    <3>1. PICK len \in Lens : evWrite(len)
      BY <2>1
    <3>2. wblknum * Payload + wnext - EV_HDSIZ \in Nat
      <4>1. wblknum * Payload \in Nat
        BY SMTT(30), PayloadType DEF WInv, WriterTypeOK
      <4>2. PICK k \in Nat : k = wblknum * Payload
        BY <4>1
      <4>3. wnext \in Nat /\ wnext >= EV_HDSIZ
        <5>1. Len(wdata) = wnext - EV_HDSIZ /\ wdata \in Seq(Word) /\ wnext \in Nat
          BY DEF WInv, WriterTypeOK, WriterInv
        <5>2. Len(wdata) \in Nat
          BY <5>1
        <5> QED
          BY <5>1, <5>2, SizesAssumption
      <4> QED
        BY <4>2, <4>3, SizesAssumption
    <3> QED
      BY <3>1, <3>2 DEF evWrite
  <2>2. CASE evWriteRest \/ evWriteFill \/ evClose \/ WriterDies
    BY <2>2 DEF evWriteRest, evWriteFill, evClose, WriterDies
  <2> QED
    BY <2>1, <2>2 DEF WriterNext
<1>5. /\ Len(written) <= Len(written')
      /\ \A n \in DOMAIN written : written'[n] = written[n] /\ begin'[n] = begin[n]
  <2>1. CASE UNCHANGED <<written, begin>>
    BY <1>2, <2>1
  <2>2. CASE ~UNCHANGED <<written, begin>>
    <3>1. PICK len \in Lens, b \in Nat : /\ written' = Append(written, len)
                                         /\ begin' = Append(begin, b)
      BY <1>4, <2>2
    <3>2. \A n \in 1..Len(written) : written'[n] = written[n] /\ begin'[n] = begin[n]
      BY <1>1, <3>1, AppendEntries
    <3> QED
      BY <1>1, <1>2, <3>1, <3>2, AppendEntries
  <2> QED
    BY <2>1, <2>2
<1>6. file' = file \/ \E b \in BlockType : file' = Append(file, b)
  <2>1. CASE UNCHANGED file
    BY <2>1
  <2>2. CASE ~UNCHANGED file
    <3>1. \E next, data : evFlush(next, data)
      BY <2>2 DEF WriterNext, evWrite, evWriteRest, evWriteFill, evClose, WriterDies
    <3>2. PICK b : file' = Append(file, b)
      BY <3>1 DEF evFlush
    <3>3. file'[Len(file) + 1] = b /\ Len(file') = Len(file) + 1
      BY <1>1, <3>2
    <3>4. b \in BlockType
      BY <1>1, <1>2, <3>3
    <3> QED
      BY <3>2, <3>4
  <2> QED
    BY <2>1, <2>2
<1>7. Len(file) <= Len(file') /\ \A i \in DOMAIN file : file'[i] = file[i]
  BY <1>1, <1>2, <1>6, AppendEntries
<1> QED
  BY <1>2, <1>3, <1>5, <1>7, ReaderUndisturbed

\* A reader that stops keeps what it has.
LEMMA FailStep ==
  ASSUME RInv, NEW status, Fail(status),
         status \in {"TRUNC", "BADFILE", "BADBLOCK", "UNXPTDEOF", "EOF"},
         UNCHANGED <<wvars, rblk, rpos, rnext, rleft, rblknum, rnleft, rtrunc, rbuf, results>>
  PROVE  RInv'
<1>1. /\ rstate' = "ended" /\ rstatus' = status
      /\ UNCHANGED <<written, begin, stream, file>>
      /\ UNCHANGED <<rblk, rpos, rnext, rleft, rblknum, rnleft, rtrunc, rbuf, results>>
  BY DEF Fail, wvars
<1>2. ReaderTypeOK'
  BY <1>1 DEF RInv, ReaderTypeOK
<1>3. ReaderInv'
  BY <1>1 DEF RInv, ReaderInv
<1> QED
  BY <1>2, <1>3 DEF RInv

\* evOpen begins at the first event, or at the header of a block with none.
LEMMA EvOpenStep ==
  ASSUME WInv, RInv, evOpen
  PROVE  RInv'
<1>1. /\ rstate = "unopened" /\ Len(file) > 0
      /\ rblk' = file[1] /\ rpos' = 1
      /\ rnext' = file[1].start /\ rleft' = file[1].used - file[1].start
      /\ rblknum' = file[1].blknum /\ rstate' = "idle"
      /\ UNCHANGED <<rstatus, rnleft, rtrunc, rbuf, results>>
      /\ UNCHANGED <<written, begin, stream, file>>
  BY DEF evOpen, wvars
<1>2. 1 \in DOMAIN file /\ file # <<>> /\ Len(file) \in Nat /\ file[1] \in BlockType
  BY <1>1 DEF WInv, WriterTypeOK
<1>3. /\ file[1].used \in Nat /\ file[1].start \in Nat /\ file[1].blknum \in Nat
  BY <1>2 DEF BlockType
<1>4. /\ file[1].blknum = 0 /\ file[1].start <= file[1].used
      /\ file[1].start = IF written = <<>> THEN 0 ELSE EV_HDSIZ
  BY <1>2, <1>3, SizesAssumption DEF WInv, FileInv
<1>5. results = <<>> /\ written = <<>> => stream = "closed"
  BY <1>1, <1>2 DEF RInv, ReaderInv, WInv, ClosedInv
<1>6. ReaderTypeOK'
  BY <1>1, <1>2, <1>3, <1>4 DEF RInv, ReaderTypeOK
<1>7. StreamPos(1, 1) = 0 /\ ReadingFrom' = 0 /\ rpos = 0
  BY <1>1, <1>5, PayloadType DEF StreamPos, ReadingFrom, RInv, ReaderInv
<1>8. written # <<>> => StreamPos(rpos', rnext' - EV_HDSIZ + 1) = ReadingFrom' + 0
  <2> SUFFICES ASSUME written # <<>>
               PROVE  StreamPos(rpos', rnext' - EV_HDSIZ + 1) = ReadingFrom' + 0
    OBVIOUS
  <2>1. rnext' - EV_HDSIZ + 1 = 1
    BY <1>1, <1>4, SizesAssumption
  <2> QED
    BY <1>1, <1>7, <2>1
<1>9. results = <<>>
  BY <1>7 DEF RInv, ReaderInv
<1>10. ReaderInv'
  <2>1. /\ rpos' <= Len(file') /\ rpos' > 0 /\ rstate' = "idle"
        /\ rblk' = file'[rpos'] /\ rblknum' = rpos' - 1
        /\ rnext' + rleft' = rblk'.used /\ rleft' >= 0
        /\ written' = <<>> => stream' = "closed" /\ rnext' = 0
        /\ written' # <<>> => rnext' >= EV_HDSIZ
    BY <1>1, <1>2, <1>3, <1>4, <1>5, <1>9, SizesAssumption
  <2>2. Len(results') <= Len(written')
    BY <1>1 DEF RInv, ReaderInv
  <2>3. \A k \in DOMAIN results' : results'[k] = EventWords(k, written'[k])
    BY <1>1 DEF RInv, ReaderInv
  <2>4. written' = written
    BY <1>1
  <2> QED
    BY <1>8, <2>1, <2>2, <2>3, <2>4 DEF ReaderInv
<1> QED
  BY <1>6, <1>10 DEF RInv

\* The next block continues the stream where the last one ended, so its number
\* is always the expected one; an empty file has no next block.
LEMMA EvGetNewBufferStep ==
  ASSUME WInv, RInv, evGetNewBuffer
  PROVE  /\ RInv' /\ rpos > 0 /\ file[rpos + 1].blknum = rblknum + 1
         /\ written # <<>>
         /\ StreamPos(rpos, rnext - EV_HDSIZ + 1) = StreamPos(rpos + 1, 1)
<1> DEFINE b == file[rpos + 1]
<1>1. /\ rstate \in {"idle", "copying"} /\ rleft <= 0 /\ rpos < Len(file)
      /\ rblk' = b /\ rnext' = EV_HDSIZ /\ rleft' = b.used - EV_HDSIZ
      /\ rblknum' = rblknum + 1 /\ rpos' = rpos + 1
      /\ UNCHANGED <<rnleft, rtrunc, rbuf, results>>
      /\ UNCHANGED <<written, begin, stream, file>>
  BY DEF evGetNewBuffer, NeedsBlock, wvars
<1>2. /\ ReaderTypeOK /\ ReaderInv /\ rpos > 0 /\ rpos \in Nat /\ rblknum = rpos - 1
      /\ rleft = 0 /\ Len(results) <= Len(written)
  BY SMTT(30), <1>1 DEF RInv, ReaderTypeOK, ReaderInv
<1>3. PICK p \in DOMAIN file : p = rpos + 1
  BY SMTT(30), <1>1, <1>2 DEF WInv, WriterTypeOK
<1>4. /\ b \in BlockType /\ b.used \in Nat /\ b.used >= EV_HDSIZ /\ b.blknum = rblknum + 1
      /\ p \in Nat /\ p <= Len(file) /\ Len(file) \in Nat
  <2>1. b \in BlockType /\ p \in Nat /\ p <= Len(file) /\ Len(file) \in Nat
    BY <1>3 DEF WInv, WriterTypeOK
  <2>2. b.blknum = p - 1 /\ EV_HDSIZ <= b.used
    BY <1>3 DEF WInv, FileInv
  <2> QED
    BY <1>2, <1>3, <2>1, <2>2 DEF BlockType
<1> DEFINE status == IF b.used - EV_HDSIZ <= 0 THEN "UNXPTDEOF"
                     ELSE IF b.blknum # rblknum + 1 THEN "BADBLOCK" ELSE "SUCCESS"
<1>5. status \in {"UNXPTDEOF", "SUCCESS"}
  BY <1>4
<1>6. IF status = "SUCCESS" THEN UNCHANGED <<rstate, rstatus>> ELSE Fail(status)
  BY DEF evGetNewBuffer
<1> HIDE DEF status, b
<1>7. \/ UNCHANGED <<rstate, rstatus>>
      \/ rstate' = "ended" /\ rstatus' = "UNXPTDEOF"
  BY <1>5, <1>6 DEF Fail
<1>8. ReaderTypeOK'
  BY SMTT(30), <1>1, <1>2, <1>4, <1>7, SizesAssumption DEF ReaderTypeOK
<1>9. written # <<>>
  <2> SUFFICES ASSUME written = <<>> PROVE FALSE
    OBVIOUS
  <2>1. PICK n \in Nat : n = Len(file)
    BY <1>4
  <2>2. n >= 2 /\ n \in DOMAIN file /\ file # <<>>
    BY <1>1, <1>2, <2>1 DEF WInv, WriterTypeOK
  <2>3. stream = "closed"
    BY <2>2 DEF WInv, ClosedInv
  <2>4. StreamPos(n, Len(file[n].data) + 1) = 0
    BY <2>1, <2>3 DEF WInv, ClosedInv
  <2>5. PICK d \in Nat : d = Len(file[n].data)
    <3>1. file[n] \in BlockType
      BY <2>2 DEF WInv, WriterTypeOK
    <3>2. file[n].data \in Seq(Word)
      BY <3>1 DEF BlockType
    <3> QED
      BY <3>2
  <2>6. (n - 1) * Payload + (d + 1) - 1 = 0
    BY <2>4, <2>5 DEF StreamPos
  <2>7. PICK m \in Nat : m = n - 2
    BY <2>2
  <2>8. (n - 1) * Payload = m * Payload + Payload /\ m * Payload \in Nat
    BY <2>7, PayloadType
  <2> QED
    BY SMTT(30), <2>6, <2>8, PayloadType
<1>10. rnext - EV_HDSIZ + 1 = Payload + 1
  <2>1. rblk.used = BlkSiz
    <3>1. rpos \in DOMAIN file /\ rblk = file[rpos]
      BY <1>2, ReaderFacts
    <3> QED
      BY <1>1, <3>1 DEF WInv, FileInv
  <2>2. rnext = BlkSiz
    <3>1. rnext + rleft = rblk.used /\ rnext \in Nat /\ rleft \in Nat
      BY <1>2, ReaderFacts
    <3> QED
      BY <1>2, <2>1, <3>1
  <2> QED
    BY <2>2, PayloadType, SizesAssumption
<1>11. StreamPos(rpos', rnext' - EV_HDSIZ + 1) = StreamPos(rpos, rnext - EV_HDSIZ + 1)
  <2>1. rnext' - EV_HDSIZ + 1 = 1
    BY <1>1, SizesAssumption
  <2>2. StreamPos(rpos, Payload + 1) = StreamPos(rpos + 1, 1)
    BY <1>2, StreamPosNext
  <2> QED
    BY <1>1, <1>10, <2>1, <2>2
<1>12. UNCHANGED ReadingFrom
  BY <1>1 DEF ReadingFrom
<1>13. ReaderInv'
  <2>1. /\ rpos' <= Len(file') /\ rpos' > 0 /\ rnext' >= EV_HDSIZ
        /\ rblk' = file'[rpos'] /\ rblknum' = rpos' - 1
        /\ rnext' + rleft' = rblk'.used /\ rleft' >= 0
        /\ written' # <<>>
    BY <1>1, <1>2, <1>3, <1>4, <1>9, SizesAssumption DEF b
  <2>2. CASE rstate' = "ended"
    BY <1>1, <1>2, <2>1, <2>2 DEF ReaderInv
  <2>3. CASE UNCHANGED rstate
    <3>1. /\ StreamPos(rpos', rnext' - EV_HDSIZ + 1) =
               ReadingFrom + IF rstate = "idle" THEN 0 ELSE Len(rbuf)
      BY <1>1, <1>2, <1>9, <1>11 DEF ReaderInv
    <3> QED
      BY <1>1, <1>2, <1>12, <2>1, <2>3, <3>1 DEF ReaderInv
  <2> QED
    BY <1>7, <2>2, <2>3
<1>14. StreamPos(rpos, rnext - EV_HDSIZ + 1) = StreamPos(rpos + 1, 1)
  BY <1>2, <1>10, StreamPosNext
<1> QED
  BY <1>2, <1>4, <1>8, <1>9, <1>13, <1>14 DEF RInv, b

\* What evRead decides to copy of an event of N words.
LEMMA CopyLimit ==
  ASSUME NEW N \in Nat, N > 0, NEW trunc, NEW limit,
         trunc = (N >= BufLen), limit = IF N < BufLen THEN N ELSE BufLen
  PROVE  /\ limit \in Nat /\ limit > 0 /\ limit <= N /\ trunc \in BOOLEAN
         /\ ~trunc => limit = N
<1>1. limit \in Nat /\ limit > 0 /\ limit <= N
  BY SizesAssumption
<1>2. ~(N >= BufLen) => limit = N
  BY SizesAssumption
<1>3. (N >= BufLen) \in BOOLEAN
  OBVIOUS
<1> QED
  BY <1>1, <1>2, <1>3, Zenon

\* evRead finds the length word of the next event, or takes the header of a
\* block without events for one: that never fits in the block.
LEMMA EvReadStep ==
  ASSUME WInv, RInv, evRead
  PROVE  /\ RInv'
         /\ written # <<>> =>
              /\ Len(results) + 1 \in DOMAIN written
              /\ rtrunc' = (written[Len(results) + 1] + 1 >= BufLen)
<1> DEFINE w == WordAt(rblk, rnext)
           nleft == LengthIn(w) + 1
<1>1. /\ rstate = "idle" /\ rleft > 0 /\ rstate' = "copying" /\ rbuf' = <<>>
      /\ rtrunc' = (nleft >= BufLen)
      /\ rnleft' = IF nleft < BufLen THEN nleft ELSE BufLen
      /\ UNCHANGED <<written, begin, stream, file>>
      /\ UNCHANGED <<rstatus, rblk, rpos, rnext, rleft, rblknum, results>>
  BY DEF evRead, wvars
<1>2. ReaderTypeOK /\ ReaderInv /\ rpos > 0 /\ rleft \in Nat /\ rnext \in Nat
  BY <1>1 DEF RInv, ReaderTypeOK, ReaderInv
<1>3. CASE written = <<>>
  <2>1. rnext = 0
    BY <1>1, <1>2, <1>3 DEF ReaderInv
  <2>2. nleft = BlkSiz + 1
    BY <2>1, SizesAssumption DEF WordAt, LengthIn
  <2>3. rleft < nleft
    BY <1>2, <2>1, <2>2, ReaderFacts, SizesAssumption
  <2>4. /\ rnleft' \in Nat /\ rnleft' > 0 /\ rtrunc' \in BOOLEAN
        /\ ~rtrunc' => rnleft' > rleft
    <3>1. PICK N \in Nat : N = nleft /\ N > 0
      BY <2>2, SizesAssumption
    <3>2. rtrunc' = (N >= BufLen) /\ rnleft' = IF N < BufLen THEN N ELSE BufLen
      BY <1>1, <3>1
    <3>3. /\ rnleft' \in Nat /\ rnleft' > 0 /\ rtrunc' \in BOOLEAN
          /\ ~rtrunc' => rnleft' = N
      BY <3>1, <3>2, CopyLimit
    <3>4. rleft < N
      BY <2>3, <3>1
    <3> QED
      BY <3>3, <3>4
  <2>5. ReaderTypeOK'
    <3>1. <<>> \in Seq(Word)
      OBVIOUS
    <3> QED
      BY <1>1, <1>2, <2>4, <3>1 DEF ReaderTypeOK
  <2>6. ReaderInv'
    BY <1>1, <1>2, <1>3, <2>4 DEF ReaderInv
  <2> QED
    BY <1>3, <2>5, <2>6 DEF RInv
<1>4. CASE written # <<>>
  <2>1. /\ rnext >= EV_HDSIZ
        /\ StreamPos(rpos, rnext - EV_HDSIZ + 1) = ReadingFrom + 0
        /\ ReadingFrom \in Nat
    BY <1>1, <1>2, <1>4, ReadingFromNext DEF ReaderInv
  <2>2. /\ w \in Word /\ w.ev \in DOMAIN written /\ w.off <= written[w.ev]
        /\ begin[w.ev] + w.off = ReadingFrom + 0
    <3>1. 1 \in 1..rleft /\ rnext + 1 - 1 = rnext
      BY <1>1, <1>2
    <3>2. /\ w \in Word /\ w.ev \in DOMAIN written /\ w.off <= written[w.ev]
          /\ begin[w.ev] + w.off = StreamPos(rpos, rnext - EV_HDSIZ + 1) + 1 - 1
      BY <1>2, <2>1, <3>1, WordsAhead
    <3> QED
      BY <2>1, <3>2
  <2>3. Len(results) < Len(written)
    <3> SUFFICES ASSUME Len(results) = Len(written) PROVE FALSE
      BY ReadingFromNext, EventsType DEF WInv
    <3>1. PICK L \in Nat : L = Len(written)
      BY EventsType DEF WInv
    <3>2. /\ L > 0 /\ L \in DOMAIN written /\ ReadingFrom = begin[L] + written[L] + 1
      BY <1>4, <3>1, EventsType DEF WInv, WriterTypeOK, ReadingFrom
    <3>3. w.ev # L => begin[w.ev] + written[w.ev] < begin[L]
      BY SMTT(30), <2>2, <3>1, <3>2, EventsType DEF WInv, TilingInv
    <3>4. w.off \in Nat
      BY <2>2 DEF Word
    <3> QED
      BY SMTT(30), <2>2, <3>2, <3>3, <3>4, EventsType DEF WInv
  <2>4. PICK n \in DOMAIN written : n = Len(results) + 1
    BY <2>3, ReadingFromNext
  <2>5. PICK l \in Nat : l = written[n]
    BY <2>4, EventsType DEF WInv
  <2>6. w = [ev |-> n, off |-> 0]
    BY <2>2, <2>3, <2>4, <2>5, ExpectedWord
  <2>7. nleft = l + 1
    <3>1. n > 0
      BY EventsType DEF WInv
    <3> QED
      BY <2>5, <2>6, <3>1 DEF LengthIn
  <2>8. /\ rnleft' \in Nat /\ rnleft' > 0 /\ rtrunc' \in BOOLEAN
        /\ rnleft' <= l + 1
        /\ ~rtrunc' => rnleft' = l + 1
    <3>1. PICK N \in Nat : N = nleft /\ N = l + 1 /\ N > 0
      BY <2>5, <2>7
    <3>2. rtrunc' = (N >= BufLen) /\ rnleft' = IF N < BufLen THEN N ELSE BufLen
      BY <1>1, <3>1
    <3>3. /\ rnleft' \in Nat /\ rnleft' > 0 /\ rtrunc' \in BOOLEAN
          /\ rnleft' <= N
          /\ ~rtrunc' => rnleft' = N
      BY <3>1, <3>2, CopyLimit
    <3> QED
      BY <3>1, <3>3
  <2>9. rbuf' = Chunk(Len(results') + 1, 0, Len(rbuf')) /\ Len(rbuf') = 0
    <3>1. Len(<<>>) = 0 /\ 1..0 = {}
      OBVIOUS
    <3>2. Chunk(Len(results') + 1, 0, 0) = <<>>
      BY <3>1 DEF Chunk
    <3> QED
      BY <1>1, <3>1, <3>2
  <2>10. ReaderTypeOK'
    <3>1. <<>> \in Seq(Word)
      OBVIOUS
    <3> QED
      BY <1>1, <1>2, <2>8, <3>1 DEF ReaderTypeOK
  <2>11. ReadingFrom' = ReadingFrom
    BY <1>1 DEF ReadingFrom
  <2>12. /\ StreamPos(rpos', rnext' - EV_HDSIZ + 1) = ReadingFrom' + Len(rbuf')
         /\ rnleft' + Len(rbuf') <= written'[Len(results') + 1] + 1
         /\ ~rtrunc' => rnleft' + Len(rbuf') = written'[Len(results') + 1] + 1
    BY <1>1, <2>1, <2>4, <2>5, <2>8, <2>9, <2>11
  <2>13. ReaderInv'
    <3>1. /\ rstate' = "copying" /\ rnleft' > 0 /\ rnext' >= EV_HDSIZ
          /\ Len(results') < Len(written') /\ written' # <<>> /\ rpos' > 0
      BY <1>1, <1>2, <1>4, <2>1, <2>3, <2>8
    <3>2. /\ rpos' <= Len(file')
          /\ rblk' = file'[rpos'] /\ rblknum' = rpos' - 1
          /\ rnext' + rleft' = rblk'.used /\ rleft' >= 0
          /\ Len(results') <= Len(written')
          /\ \A k \in DOMAIN results' : results'[k] = EventWords(k, written'[k])
      BY <1>1, <1>2 DEF ReaderInv
    <3> QED
      BY <2>9, <2>12, <3>1, <3>2 DEF ReaderInv
  <2>14. rtrunc' = (written[Len(results) + 1] + 1 >= BufLen)
    BY <1>1, <2>4, <2>5, <2>7
  <2> QED
    BY <2>4, <2>10, <2>13, <2>14 DEF RInv
<1> QED
  BY <1>3, <1>4

\* An event that goes on in the next block.
LEMMA EvReadPartStep ==
  ASSUME WInv, RInv, evReadPart
  PROVE  RInv'
<1>1. /\ rstate = "copying" /\ rleft > 0 /\ rnleft > rleft /\ CopyOut(rleft)
      /\ UNCHANGED <<rstate, rstatus, rblk, rpos, rblknum, rtrunc, results>>
      /\ UNCHANGED <<written, begin, stream, file>>
  BY DEF evReadPart, wvars
<1>2. /\ ReaderTypeOK /\ ReaderInv /\ rpos > 0 /\ rpos \in Nat
      /\ rleft \in Nat /\ rnleft \in Nat
  BY <1>1 DEF RInv, ReaderTypeOK, ReaderInv
<1>3. /\ rbuf' \in Seq(Word) /\ Len(rbuf') = Len(rbuf) + rleft
      /\ rnleft' = rnleft - rleft /\ rleft' = rleft - rleft
      /\ rnext' \in Nat /\ rleft' \in Nat /\ rnleft' \in Nat
      /\ rnext' + rleft' = rblk'.used
  BY <1>1, <1>2, CopyOutType
<1>4. ReaderTypeOK'
  BY <1>1, <1>2, <1>3 DEF ReaderTypeOK
<1>5. /\ rpos' <= Len(file') /\ rpos' > 0
      /\ rblk' = file'[rpos'] /\ rblknum' = rpos' - 1 /\ rleft' = 0
      /\ Len(results') <= Len(written')
      /\ \A k \in DOMAIN results' : results'[k] = EventWords(k, written'[k])
      /\ written' = <<>> => stream' = "closed"
      /\ rnleft' > 0 /\ rstate' = "copying"
  BY <1>1, <1>2, <1>3 DEF ReaderInv
<1>6. CASE written = <<>>
  BY <1>1, <1>3, <1>4, <1>5, <1>6 DEF RInv, ReaderInv
<1>7. CASE written # <<>>
  <2>1. /\ rbuf' = Chunk(Len(results) + 1, 0, Len(rbuf) + rleft)
        /\ rnext' >= EV_HDSIZ
        /\ StreamPos(rpos, rnext' - EV_HDSIZ + 1) = ReadingFrom + Len(rbuf) + rleft
    BY <1>1, <1>2, <1>7, CopyOutStep
  <2>2. /\ Len(results) < Len(written)
        /\ rnleft + Len(rbuf) <= written[Len(results) + 1] + 1
        /\ ~rtrunc => rnleft + Len(rbuf) = written[Len(results) + 1] + 1
        /\ Len(rbuf) \in Nat
    BY <1>1, <1>2, <1>7 DEF ReaderInv, ReaderTypeOK
  <2>3. UNCHANGED ReadingFrom /\ ReadingFrom \in Nat
    BY <1>1, ReadingFromNext DEF ReadingFrom
  <2>4. PICK l \in Nat : l = written[Len(results) + 1]
    BY <2>2, ReadingFromNext, EventsType DEF WInv
  <2>5. rbuf' = Chunk(Len(results') + 1, 0, Len(rbuf'))
    BY <1>1, <1>3, <2>1
  <2>6. StreamPos(rpos', rnext' - EV_HDSIZ + 1) = ReadingFrom' + Len(rbuf')
    BY <1>1, <1>2, <1>3, <2>1, <2>2, <2>3
  <2>7. /\ rnleft' + Len(rbuf') <= written'[Len(results') + 1] + 1
        /\ ~rtrunc' => rnleft' + Len(rbuf') = written'[Len(results') + 1] + 1
    BY <1>1, <1>2, <1>3, <2>2, <2>4
  <2>8. Len(results') < Len(written') /\ written' # <<>> /\ rnext' >= EV_HDSIZ
    BY <1>1, <1>7, <2>1, <2>2
  <2>9. rnext' + rleft' = rblk'.used /\ rleft' >= 0
    BY <1>3
  <2>10. ReaderInv'
    BY <1>5, <2>5, <2>6, <2>7, <2>8, <2>9 DEF ReaderInv
  <2> QED
    BY <1>4, <2>10 DEF RInv
<1> QED
  BY <1>6, <1>7

\* The reader stays in step with the stream of words, given that the blocks are right.
THEOREM ReaderStep == WInv /\ RInv /\ [Next]_vars => RInv'
<1> SUFFICES ASSUME WInv, RInv, [Next]_vars PROVE RInv'
  OBVIOUS
<1>1. WInv'
  BY WriterStep
<1>2. CASE WriterNext \/ WriterDies
  BY <1>1, <1>2, WriterKeepsReader
<1>3. CASE evOpenBadFile
  BY <1>3, FailStep DEF evOpenBadFile
<1>4. CASE evGetNewBufferEof
  BY <1>4, FailStep DEF evGetNewBufferEof
<1>5. CASE evOpen \/ evGetNewBuffer \/ evRead \/ evReadPart \/ evReadReturn
  BY <1>5, EvOpenStep, EvGetNewBufferStep, EvReadStep, EvReadPartStep,
     EvReadReturnStep
<1>6. CASE UNCHANGED vars
  BY <1>6 DEF vars, wvars, rvars, RInv, ReaderTypeOK, ReaderInv, ReadingFrom
<1> QED
  BY <1>2, <1>3, <1>4, <1>5, <1>6 DEF Next, ReaderNext

\* Every variable keeps its type, for every block size, buffer size and choice
\* of event lengths; in particular the reader's next, left and nleft never go
\* below zero and every word it copies is a word of the block.
THEOREM TypeCorrect == Spec => []TypeOK
<1>1. Init => WInv /\ RInv
  BY WriterInit, ReaderInit
<1>2. WInv /\ RInv /\ [Next]_vars => (WInv /\ RInv)'
  BY WriterStep, ReaderStep
<1>3. WInv /\ RInv => TypeOK
  BY DEF WInv, RInv, TypeOK
<1> QED
  BY <1>1, <1>2, <1>3, PTL DEF Spec

(***************************************************************************)
(* The end of the file                                                     *)
(***************************************************************************)

\* Once the reader has been told that the file ended, it has every event.
EndInv ==
  /\ rstatus # "BADBLOCK"
  /\ rstatus \in {"EOF", "UNXPTDEOF"} =>
       /\ rstate = "ended" /\ stream # "open"
       /\ stream = "closed" => Len(results) = Len(written)

\* A reader that stands where a closed file ends has read every event.
LEMMA AllRead ==
  ASSUME WInv, RInv, stream = "closed", written # <<>>, rstate \in {"idle", "copying"},
         StreamPos(rpos, rnext - EV_HDSIZ + 1) =
           StreamPos(Len(file), Len(file[Len(file)].data) + 1)
  PROVE  Len(results) = Len(written)
<1> SUFFICES ASSUME Len(results) < Len(written) PROVE FALSE
  BY ReadingFromNext, EventsType DEF WInv
<1>1. PICK n \in DOMAIN written : n = Len(results) + 1 /\ ReadingFrom = begin[n]
  BY ReadingFromNext
<1>2. PICK L \in DOMAIN written : L = Len(written)
  BY EventsType, <1>1 DEF WInv
<1>3. /\ written[n] \in Nat /\ begin[n] \in Nat /\ written[L] \in Nat /\ begin[L] \in Nat
      /\ n \in Nat /\ L \in Nat /\ n <= L
  BY <1>1, <1>2, EventsType DEF WInv
<1>4. n < L => begin[n] + written[n] < begin[L]
  BY <1>3, EventsType DEF WInv, TilingInv
<1>5. StreamPos(rpos, rnext - EV_HDSIZ + 1) = begin[L] + written[L] + 1
  BY <1>2 DEF WInv, ClosedInv
<1>6. CASE rstate = "idle"
  <2>1. StreamPos(rpos, rnext - EV_HDSIZ + 1) = begin[n] + 0
    BY <1>1, <1>6 DEF RInv, ReaderInv
  <2> QED
    BY SMTT(30), <1>3, <1>4, <1>5, <2>1
<1>7. CASE rstate = "copying"
  <2>1. PICK c \in Nat : c = Len(rbuf)
    BY DEF RInv, ReaderTypeOK
  <2>2. StreamPos(rpos, rnext - EV_HDSIZ + 1) = begin[n] + c
    BY <1>1, <1>7, <2>1 DEF RInv, ReaderInv
  <2>3. rnleft > 0 /\ rnleft \in Nat /\ rnleft + c <= written[n] + 1
    BY <1>1, <1>7, <2>1 DEF RInv, ReaderInv, ReaderTypeOK
  <2>4. PICK w \in Nat, b \in Nat : w = written[n] /\ b = begin[n]
    BY <1>3
  <2>5. PICK u \in Nat, v \in Nat : u = written[L] /\ v = begin[L]
    BY <1>3
  <2>6. b + c = v + u + 1
    BY <1>5, <2>2, <2>4, <2>5
  <2>7. c <= w
    BY <2>3, <2>4
  <2>8. CASE n < L
    <3>1. b + w < v
      BY <1>4, <2>4, <2>5, <2>8
    <3> QED
      BY <2>6, <2>7, <3>1
  <2>9. CASE n = L
    <3>1. b = v /\ w = u
      BY <2>4, <2>5, <2>9
    <3> QED
      BY <2>6, <2>7, <3>1
  <2> QED
    BY <1>3, <2>8, <2>9
<1> QED
  BY <1>6, <1>7

\* The end of the file, met on a boundary between blocks.
LEMMA EofStep ==
  ASSUME WInv, RInv, evGetNewBufferEof
  PROVE  stream # "open" /\ (stream = "closed" => Len(results) = Len(written))
<1>1. /\ rstate \in {"idle", "copying"} /\ rleft = 0 /\ rpos = Len(file)
      /\ stream # "open" /\ rpos > 0 /\ rpos \in Nat
  BY DEF evGetNewBufferEof, NeedsBlock, RInv, ReaderTypeOK, ReaderInv
<1>2. ASSUME stream = "closed", written # <<>>
      PROVE  Len(results) = Len(written)
  <2>1. rnext - EV_HDSIZ + 1 = Len(rblk.data) + 1
    <3>1. /\ Len(rblk.data) = rblk.used - EV_HDSIZ /\ rnext + rleft = rblk.used
          /\ rnext \in Nat
      BY <1>1, ReaderFacts
    <3> QED
      BY <1>1, <3>1, SizesAssumption
  <2>2. rblk = file[rpos]
    BY <1>1, ReaderFacts
  <2>3. StreamPos(rpos, rnext - EV_HDSIZ + 1) =
          StreamPos(Len(file), Len(file[Len(file)].data) + 1)
    BY <1>1, <2>1, <2>2
  <2> QED
    BY <1>1, <1>2, <2>3, AllRead
<1>3. written = <<>> => Len(results) = Len(written)
  <2>1. Len(results) <= Len(written) /\ Len(results) \in Nat
    BY ReadingFromNext
  <2>2. written = <<>> => Len(written) = 0
    OBVIOUS
  <2> QED
    BY <2>1, <2>2
<1> QED
  BY <1>1, <1>2, <1>3

\* The end of the file, met on a block that evClose flushed empty.
LEMMA GetNewBufferStatus ==
  ASSUME WInv, RInv, evGetNewBuffer
  PROVE  \/ UNCHANGED <<rstate, rstatus>>
         \/ /\ rstatus' = "UNXPTDEOF" /\ rstate' = "ended" /\ stream = "closed"
            /\ Len(results) = Len(written)
<1> DEFINE b == file[rpos + 1]
           status == CASE b.used - EV_HDSIZ <= 0    -> "UNXPTDEOF"
                       [] b.blknum # rblknum + 1    -> "BADBLOCK"
                       [] OTHER                     -> "SUCCESS"
<1>1. /\ rstate \in {"idle", "copying"} /\ rpos < Len(file) /\ rpos > 0
      /\ IF status = "SUCCESS" THEN UNCHANGED <<rstate, rstatus>> ELSE Fail(status)
      /\ b.blknum = rblknum + 1 /\ written # <<>>
      /\ StreamPos(rpos, rnext - EV_HDSIZ + 1) = StreamPos(rpos + 1, 1)
  BY EvGetNewBufferStep DEF evGetNewBuffer, NeedsBlock
<1>2. PICK p \in DOMAIN file : p = rpos + 1
  BY SMTT(30), <1>1 DEF RInv, ReaderTypeOK, WInv, WriterTypeOK
<1>3. /\ b.used \in Nat /\ b.data \in Seq(Word) /\ p \in Nat
      /\ Len(file) \in Nat /\ p <= Len(file)
  <2>1. b \in BlockType /\ p \in Nat /\ Len(file) \in Nat /\ p <= Len(file)
    BY <1>2 DEF WInv, WriterTypeOK
  <2> QED
    BY <2>1 DEF BlockType
<1>4. /\ Len(b.data) = b.used - EV_HDSIZ /\ b.used >= EV_HDSIZ
      /\ p < Len(file) \/ stream # "closed" => b.used = BlkSiz
  BY <1>2, <1>3 DEF WInv, FileInv
<1>5. CASE b.used - EV_HDSIZ > 0
  <2>1. status = "SUCCESS"
    BY <1>1, <1>3, <1>5, SizesAssumption
  <2> QED
    BY <1>1, <2>1
<1>6. CASE b.used - EV_HDSIZ <= 0
  <2>1. status = "UNXPTDEOF"
    BY <1>1, <1>6
  <2>2. rstatus' = "UNXPTDEOF" /\ rstate' = "ended"
    BY <1>1, <2>1 DEF Fail
  <2>3. p = Len(file) /\ stream = "closed" /\ Len(b.data) = 0
    BY <1>3, <1>4, <1>6, SizesAssumption
  <2>4. Len(results) = Len(written)
    BY <1>1, <1>2, <2>3, AllRead
  <2> QED
    BY <2>2, <2>3, <2>4
<1> QED
  BY <1>3, <1>5, <1>6, SizesAssumption

\* The end is reported only when nothing is left.
LEMMA EndStep ==
  ASSUME WInv, RInv, EndInv, [Next]_vars
  PROVE  EndInv'
<1>1. CASE WriterNext \/ WriterDies
  BY <1>1 DEF EndInv, WriterNext, evWrite, evWriteRest, evWriteFill, evClose,
              WriterDies, rvars
<1>2. CASE evGetNewBuffer
  <2>1. UNCHANGED <<written, stream, results>>
    BY <1>2 DEF evGetNewBuffer, wvars
  <2> QED
    BY <1>2, <2>1, GetNewBufferStatus DEF EndInv
<1>3. CASE evGetNewBufferEof
  <2>1. UNCHANGED <<written, stream, results>> /\ rstate' = "ended" /\ rstatus' = "EOF"
    BY <1>3 DEF evGetNewBufferEof, wvars, Fail
  <2> QED
    BY <1>3, <2>1, EofStep DEF EndInv
<1>4. CASE evOpen \/ evOpenBadFile \/ evRead \/ evReadPart \/ evReadReturn
  BY <1>4 DEF EndInv, evOpen, evOpenBadFile, evRead, evReadPart, evReadReturn, Fail
<1>5. CASE UNCHANGED vars
  BY <1>5 DEF EndInv, vars, wvars, rvars
<1> QED
  BY <1>1, <1>2, <1>3, <1>4, <1>5 DEF Next, ReaderNext

\* Whatever the sizes and the interleaving: no status that says the file has
\* ended is given before every event of a closed file was delivered, and the
\* block numbers always agree.
THEOREM CompleteAtEnd == Spec => []EndIsComplete
<1>1. Init => WInv /\ RInv /\ EndInv
  <2>1. Init => EndInv
    BY DEF Init, EndInv
  <2> QED
    BY <2>1, WriterInit, ReaderInit
<1>2. WInv /\ RInv /\ EndInv /\ [Next]_vars => (WInv /\ RInv /\ EndInv)'
  BY WriterStep, ReaderStep, EndStep
<1>3. EndInv => EndIsComplete
  BY DEF EndInv, EndIsComplete
<1> QED
  BY <1>1, <1>2, <1>3, PTL DEF Spec

(***************************************************************************)
(* The reader's buffer is large enough: EvFile implements EventQueue       *)
(***************************************************************************)

\* No event is longer than what evRead can return whole (it needs one word to
\* spare: nleft < buflen).
Fits == \A len \in Lens : len + 1 < BufLen

TruncInv == written # <<>> /\ rstate = "copying" => ~rtrunc

\* No event that fits the buffer is cut off.
LEMMA TruncStep ==
  ASSUME Fits, WInv, RInv, TruncInv, [Next]_vars
  PROVE  TruncInv'
<1>1. CASE WriterNext \/ WriterDies
  <2>1. UNCHANGED <<rstate, rtrunc, rpos>> /\ stream = "open"
    BY <1>1 DEF WriterNext, evWrite, evWriteRest, evWriteFill, evClose, WriterDies, rvars
  <2>2. rstate = "copying" => written # <<>>
    BY <2>1 DEF RInv, ReaderInv, ReaderTypeOK
  <2> QED
    BY <2>1, <2>2 DEF TruncInv
<1>2. CASE evRead
  <2>1. UNCHANGED written
    BY <1>2 DEF evRead, wvars
  <2> SUFFICES ASSUME written # <<>> PROVE ~rtrunc'
    BY <2>1 DEF TruncInv
  <2>2. PICK n \in DOMAIN written : /\ n = Len(results) + 1
                                    /\ rtrunc' = (written[n] + 1 >= BufLen)
    BY <1>2, EvReadStep
  <2>3. written[n] \in Lens /\ written[n] \in Nat
    BY EventsType DEF WInv, WriterTypeOK
  <2>4. ~(written[n] + 1 >= BufLen)
    BY <2>3, SizesAssumption DEF Fits
  <2> QED
    BY <2>2, <2>4, Zenon
<1>3. CASE evReadPart
  BY <1>3 DEF TruncInv, evReadPart, wvars
<1>4. CASE evOpen \/ evOpenBadFile \/ evGetNewBufferEof \/ evReadReturn
  BY <1>4 DEF TruncInv, evOpen, evOpenBadFile, evGetNewBufferEof, evReadReturn,
              Fail, wvars
<1>5. CASE evGetNewBuffer
  <2>1. UNCHANGED <<written, rtrunc>>
    BY <1>5 DEF evGetNewBuffer, wvars
  <2> QED
    BY <1>5, <2>1, GetNewBufferStatus DEF TruncInv
<1>6. CASE UNCHANGED vars
  BY <1>6 DEF TruncInv, vars, wvars, rvars
<1> QED
  BY <1>1, <1>2, <1>3, <1>4, <1>5, <1>6 DEF Next, ReaderNext

\* The events written, as the words the reader should get
Sent == [n \in DOMAIN written |-> EventWords(n, written[n])]

\* An event that is written is the last one sent.
LEMMA SentAppend ==
  ASSUME NEW s \in Seq(Lens), NEW len \in Lens
  PROVE  [n \in DOMAIN Append(s, len) |-> EventWords(n, Append(s, len)[n])]
           = Append([n \in DOMAIN s |-> EventWords(n, s[n])],
                    EventWords(Len(s) + 1, len))
<1> DEFINE E(n, l) == EventWords(n, l)
           t == [n \in DOMAIN s |-> E(n, s[n])]
<1>1. /\ Len(s) \in Nat /\ DOMAIN s = 1..Len(s)
      /\ DOMAIN Append(s, len) = 1..Len(s) + 1
      /\ \A n \in 1..Len(s) : Append(s, len)[n] = s[n]
      /\ Append(s, len)[Len(s) + 1] = len
  BY AppendEntries
<1> HIDE DEF E
<1>2. DOMAIN t = 1..Len(s) /\ Len(t) = Len(s)
  BY <1>1
<1>3. Append(t, E(Len(s) + 1, len)) =
        [n \in 1..Len(s) + 1 |-> IF n = Len(s) + 1 THEN E(Len(s) + 1, len) ELSE t[n]]
  <2>1. t \in Seq({t[n] : n \in 1..Len(s)} \cup {E(Len(s) + 1, len)})
    BY <1>1, <1>2
  <2> HIDE DEF t
  <2> QED
    BY <1>1, <1>2, <2>1
<1>4. [n \in DOMAIN Append(s, len) |-> E(n, Append(s, len)[n])]
        = Append(t, E(Len(s) + 1, len))
  BY <1>1, <1>3
<1> QED
  BY <1>4 DEF E

\* A new file is an empty queue.
LEMMA QueueInit == Init => Q!Init
  BY DEF Init, Q!Init

\* Every step is one of the queue, or a stutter.
LEMMA QueueStep ==
  ASSUME Fits, WInv, RInv, EndInv, TruncInv, [Next]_vars
  PROVE  [Q!Next]_Q!vars
<1>1. CASE \E len \in Lens : evWrite(len)
  <2>1. PICK len \in Lens : evWrite(len)
    BY <1>1
  <2>2. PICK n \in 1..MaxEvents : n = Len(written) + 1
    BY <2>1, EventsType, MaxEventsAssumption DEF evWrite, WInv
  <2>3. /\ written' = Append(written, len) /\ stream = "open"
        /\ UNCHANGED <<results, stream, rstate>>
    BY <2>1 DEF evWrite, rvars
  <2>4. Sent' = Append(Sent, EventWords(n, len))
    BY <2>2, <2>3, SentAppend DEF Sent, WInv, WriterTypeOK
  <2>5. EventWords(n, len) \in {EventWords(m, l) : m \in 1..MaxEvents, l \in Lens}
    OBVIOUS
  <2>6. PICK e \in {EventWords(m, l) : m \in 1..MaxEvents, l \in Lens} :
              e = EventWords(n, len)
    BY <2>5
  <2>7. Q!Send(e)
    BY <2>3, <2>4, <2>6 DEF Sent, Q!Send
  <2> QED
    BY <2>7 DEF Q!Next
<1>2. CASE evWriteRest \/ evWriteFill
  BY <1>2 DEF evWriteRest, evWriteFill, rvars, Q!vars
<1>3. CASE evClose
  BY <1>3 DEF evClose, rvars, Q!Next, Q!Close
<1>4. CASE WriterDies
  BY <1>4 DEF WriterDies, rvars, Q!Next, Q!Cut
<1>5. CASE evOpen \/ evRead \/ evReadPart
  <2>1. UNCHANGED <<written, stream, results>>
    BY <1>5 DEF evOpen, evRead, evReadPart, wvars
  <2>2. rstate # "ended" /\ rstate' # "ended"
    BY <1>5 DEF evOpen, evRead, evReadPart
  <2> QED
    BY <2>1, <2>2 DEF Q!vars
<1>6. ASSUME UNCHANGED <<written, stream, results>>,
             rstate # "ended", rstate' = "ended",
             \/ stream = "cut"
             \/ stream = "closed" /\ Len(results) = Len(written)
      PROVE  Q!Next
  <2>1. DOMAIN Sent = DOMAIN written /\ Len(Sent) = Len(written)
    BY EventsType DEF Sent, WInv
  <2> QED
    BY <1>6, <2>1 DEF Sent, Q!Next, Q!Finish
<1>7. CASE evOpenBadFile
  <2>1. /\ UNCHANGED <<written, stream, results>>
        /\ rstate = "unopened" /\ rstate' = "ended"
        /\ file = <<>> /\ stream # "open"
    BY <1>7 DEF evOpenBadFile, wvars, Fail
  <2>2. stream = "cut"
    BY <2>1 DEF WInv, WriterTypeOK, ClosedInv
  <2> QED
    BY <1>6, <2>1, <2>2
<1>8. CASE evGetNewBufferEof
  <2>1. /\ UNCHANGED <<written, stream, results>>
        /\ rstate # "ended" /\ rstate' = "ended"
    BY <1>8 DEF evGetNewBufferEof, NeedsBlock, wvars, Fail
  <2>2. stream = "cut" \/ (stream = "closed" /\ Len(results) = Len(written))
    BY <1>8, EofStep DEF WInv, WriterTypeOK
  <2> QED
    BY <1>6, <2>1, <2>2
<1>9. CASE evGetNewBuffer
  <2>1. UNCHANGED <<written, stream, results>> /\ rstate # "ended"
    BY <1>9 DEF evGetNewBuffer, NeedsBlock, wvars
  <2>2. CASE UNCHANGED rstate
    BY <2>1, <2>2 DEF Q!vars
  <2>3. CASE rstate' = "ended" /\ stream = "closed" /\ Len(results) = Len(written)
    BY <1>6, <2>1, <2>3
  <2> QED
    BY <1>9, <2>2, <2>3, GetNewBufferStatus
<1>10. CASE evReadReturn
  <2>1. UNCHANGED <<written, stream>> /\ rstate = "copying"
    BY <1>10 DEF evReadReturn, wvars
  <2>2. CASE rtrunc
    <3>1. written = <<>>
      BY <2>1, <2>2 DEF TruncInv
    <3>2. stream = "closed" /\ Len(results) = Len(written)
      <4>1. rpos > 0
        BY <2>1 DEF RInv, ReaderInv, ReaderTypeOK
      <4>2. Len(results) <= Len(written) /\ Len(results) \in Nat /\ Len(written) = 0
        BY <3>1, ReadingFromNext
      <4> QED
        BY <3>1, <4>1, <4>2, ReaderFacts
    <3>3. results' = results /\ rstate' = "ended"
      BY <1>10, <2>2 DEF evReadReturn, Fail
    <3> QED
      BY <1>6, <2>1, <3>2, <3>3
  <2>3. CASE ~rtrunc
    <3>1. PICK n \in Nat : n = Len(results) + 1
      BY ReadingFromNext
    <3>2. /\ n \in DOMAIN written /\ Len(results) < Len(written)
          /\ results' = Append(results, EventWords(n, written[n]))
      BY <1>10, <2>3, <3>1, EvReadReturnStep, ReadingFromNext
    <3>3. Sent[n] = EventWords(n, written[n]) /\ Len(Sent) = Len(written)
      BY <3>2, EventsType DEF Sent, WInv
    <3>4. rstate' = "idle"
      BY <1>10, <2>3 DEF evReadReturn
    <3>5. results' = Append(results, Sent[Len(results) + 1]) /\ Len(results) < Len(Sent)
      BY <3>1, <3>2, <3>3
    <3>6. UNCHANGED Sent
      BY <2>1 DEF Sent
    <3> QED
      BY <2>1, <3>4, <3>5, <3>6 DEF Sent, Q!Next, Q!Deliver
  <2> QED
    BY <2>2, <2>3
<1>11. CASE UNCHANGED vars
  BY <1>11 DEF vars, wvars, rvars, Q!vars
<1> QED
  BY <1>1, <1>2, <1>3, <1>4, <1>5, <1>7, <1>8, <1>9, <1>10, <1>11
  DEF Next, WriterNext, ReaderNext

\* Whatever the sizes, a reader whose buffer is large enough sees an event
\* queue: every event whole, in order, once, and no end before the last one.
THEOREM ImplementsQueue == Fits => (Spec => QueueSpec)
<1> SUFFICES ASSUME Fits PROVE Spec => QueueSpec
  OBVIOUS
<1> DEFINE Inv == WInv /\ RInv /\ EndInv /\ TruncInv
<1>1. Init => Inv
  <2>1. Init => EndInv /\ TruncInv
    BY DEF Init, EndInv, TruncInv
  <2> QED
    BY <2>1, WriterInit, ReaderInit
<1>2. Inv /\ [Next]_vars => Inv'
  BY WriterStep, ReaderStep, EndStep, TruncStep
<1>3. Inv /\ [Next]_vars => [Q!Next]_Q!vars
  BY QueueStep
<1> HIDE DEF Inv
<1> QED
  BY <1>1, <1>2, <1>3, QueueInit, PTL DEF Spec, QueueSpec, Q!Spec

(***************************************************************************)
(* What a writer that dies leaves                                          *)
(***************************************************************************)

\* Where the data of the file end in the stream
FileEnd == StreamPos(Len(file), Len(file[Len(file)].data) + 1)

\* The last word of event n is in the file.
Whole(n) ==
  \E i \in DOMAIN file : \E k \in DOMAIN file[i].data :
    file[i].data[k] = [ev |-> n, off |-> written[n]]

\* A number in parts of size p, and a rest.
LEMMA InParts ==
  ASSUME NEW p \in Nat \ {0}, NEW e \in Nat
  PROVE  \E q \in Nat : \E r \in 0..(p - 1) : e = q * p + r
<1>1. e \div p \in Int /\ e % p \in 0..(p - 1) /\ e = (e \div p) * p + (e % p)
  OBVIOUS
<1>2. e \div p >= 0
  BY <1>1
<1>3. PICK q \in Nat : q = e \div p
  BY <1>1, <1>2
<1>4. PICK r \in 0..(p - 1) : r = e % p
  BY <1>1
<1>5. e = q * p + r
  BY <1>1, <1>3, <1>4
<1> QED
  BY <1>5

\* More blocks hold no less.
LEMMA MoreBlocks ==
  ASSUME NEW m \in Nat, NEW n \in Nat, m <= n, NEW p \in Nat
  PROVE  /\ m * p \in Nat /\ n * p \in Nat /\ m * p <= n * p
         /\ (m + 1) * p = m * p + p
<1>1. PICK d \in Nat : n = m + d
  <2>1. n - m \in Nat /\ n = m + (n - m)
    OBVIOUS
  <2> QED
    BY <2>1
<1>2. n * p = m * p + d * p /\ d * p \in Nat /\ m * p \in Nat
      /\ (m + 1) * p = m * p + p
  BY <1>1
<1> QED
  BY <1>2

\* A block of the file, its data and its place.
LEMMA BlockFacts ==
  ASSUME WInv, NEW i \in DOMAIN file
  PROVE  /\ i \in Nat /\ i >= 1 /\ i <= Len(file) /\ Len(file) \in Nat
         /\ file[i].data \in Seq(Word) /\ Len(file[i].data) \in Nat
         /\ DOMAIN file[i].data = 1..Len(file[i].data)
         /\ Len(file[i].data) <= Payload
         /\ i < Len(file) => Len(file[i].data) = Payload
         /\ InPlace(file[i].data, i, written, begin)
<1>1. /\ i \in Nat /\ i >= 1 /\ i <= Len(file) /\ Len(file) \in Nat
      /\ file[i] \in BlockType
  BY DEF WInv, WriterTypeOK
<1>2. file[i].data \in Seq(Word) /\ file[i].used \in Nat
  BY <1>1 DEF BlockType
<1>3. /\ Len(file[i].data) = file[i].used - EV_HDSIZ
      /\ file[i].used <= BlkSiz
      /\ i < Len(file) => file[i].used = BlkSiz
      /\ InPlace(file[i].data, i, written, begin)
  BY DEF WInv, FileInv
<1>4. Len(file[i].data) <= Payload /\ (i < Len(file) => Len(file[i].data) = Payload)
  BY <1>2, <1>3, PayloadType, SizesAssumption
<1> QED
  BY <1>1, <1>2, <1>3, <1>4

\* The place of the end of the file among the blocks.
LEMMA EndFacts ==
  ASSUME WInv, file # <<>>
  PROVE  /\ Len(file) \in DOMAIN file /\ (Len(file) - 1) * Payload \in Nat
         /\ FileEnd = (Len(file) - 1) * Payload + Len(file[Len(file)].data)
         /\ FileEnd \in Nat
<1>1. Len(file) \in DOMAIN file
  BY DEF WInv, WriterTypeOK
<1>2. PICK l \in Nat : l = Len(file[Len(file)].data)
  BY <1>1, BlockFacts
<1>3. PICK b \in Nat : b = Len(file) - 1
  <2>1. Len(file) \in Nat /\ Len(file) >= 1
    BY <1>1, BlockFacts
  <2>2. Len(file) - 1 \in Nat
    BY <2>1
  <2> QED
    BY <2>2
<1>4. b * Payload \in Nat
  BY PayloadType, MoreBlocks
<1>5. FileEnd = b * Payload + (l + 1) - 1
  BY <1>2, <1>3 DEF FileEnd, StreamPos
<1> QED
  BY <1>1, <1>2, <1>3, <1>4, <1>5

\* The words of the file lie before its end.
LEMMA WordsBeforeEnd ==
  ASSUME WInv, NEW i \in DOMAIN file, NEW k \in DOMAIN file[i].data
  PROVE  StreamPos(i, k) < FileEnd
<1>1. file # <<>>
  OBVIOUS
<1>2. /\ k \in Nat /\ k >= 1 /\ k <= Len(file[i].data)
      /\ i \in Nat /\ i >= 1 /\ i <= Len(file) /\ Len(file) \in Nat
      /\ Len(file[i].data) \in Nat /\ Len(file[i].data) <= Payload
  BY BlockFacts
<1>3. PICK b \in Nat : b = i - 1
  BY <1>2
<1>4. b * Payload \in Nat /\ StreamPos(i, k) = b * Payload + k - 1
  BY <1>3, PayloadType, MoreBlocks DEF StreamPos
<1>5. CASE i = Len(file)
  <2>1. FileEnd = b * Payload + Len(file[i].data)
    BY <1>1, <1>3, <1>5, EndFacts
  <2> QED
    BY <1>2, <1>4, <2>1
<1>6. CASE i < Len(file)
  <2>1. PICK c \in Nat : c = Len(file) - 1 /\ b + 1 <= c
    <3>1. Len(file) - 1 \in Nat /\ b + 1 <= Len(file) - 1
      BY <1>2, <1>3, <1>6
    <3> QED
      BY <3>1
  <2>2. (b + 1) * Payload <= c * Payload /\ (b + 1) * Payload = b * Payload + Payload
    <3>1. PICK a \in Nat : a = b + 1
      OBVIOUS
    <3>2. a * Payload <= c * Payload
      BY <2>1, <3>1, PayloadType, MoreBlocks
    <3>3. b <= c /\ (b + 1) * Payload = b * Payload + Payload
      BY <2>1, PayloadType, MoreBlocks
    <3> QED
      BY <3>1, <3>2, <3>3
  <2>3. c * Payload <= FileEnd /\ FileEnd \in Nat /\ c * Payload \in Nat
    <3>1. PICK l \in Nat : l = Len(file[Len(file)].data)
      BY <1>1, EndFacts, BlockFacts
    <3>2. FileEnd = c * Payload + l /\ c * Payload \in Nat
      BY <1>1, <2>1, <3>1, EndFacts
    <3> QED
      BY <3>1, <3>2
  <2>4. PICK p \in Nat : p = b * Payload
    BY <1>4
  <2>5. PICK t \in Nat : t = c * Payload /\ p + Payload <= t
    BY <2>2, <2>3, <2>4
  <2>6. StreamPos(i, k) = p + k - 1 /\ t <= FileEnd
    BY <1>4, <2>3, <2>4, <2>5
  <2> QED
    BY SMTT(30), <1>2, <2>3, <2>5, <2>6, PayloadType
<1> QED
  BY <1>2, <1>5, <1>6

\* An event is whole in the file exactly if it ends before the file does.
LEMMA WholeInFile ==
  ASSUME WInv, file # <<>>, NEW n \in DOMAIN written
  PROVE  Whole(n) <=> begin[n] + written[n] < FileEnd
<1>1. n \in Nat /\ written[n] \in Nat /\ begin[n] \in Nat
  BY EventsType DEF WInv
<1>2. ASSUME Whole(n)
      PROVE  begin[n] + written[n] < FileEnd
  <2>1. PICK i \in DOMAIN file : \E k \in DOMAIN file[i].data :
          file[i].data[k] = [ev |-> n, off |-> written[n]]
    BY <1>2 DEF Whole
  <2>2. PICK k \in DOMAIN file[i].data : file[i].data[k] = [ev |-> n, off |-> written[n]]
    BY <2>1
  <2>3. file[i].data[k].ev = n /\ file[i].data[k].off = written[n]
    BY <2>2
  <2>4. begin[n] + written[n] = StreamPos(i, k)
    BY <2>3, BlockFacts DEF InPlace
  <2> QED
    BY <2>4, WordsBeforeEnd
<1>3. ASSUME begin[n] + written[n] < FileEnd
      PROVE  Whole(n)
  <2>1. PICK e \in Nat : e = begin[n] + written[n]
    BY <1>1
  <2>2. PICK q \in Nat, r \in 0..(Payload - 1) : e = q * Payload + r
    BY PayloadType, InParts
  <2>3. PICK L \in Nat : L = Len(file) /\ L >= 1 /\ L \in DOMAIN file
    BY EndFacts, BlockFacts
  <2>4. PICK l \in Nat : l = Len(file[L].data) /\ l <= Payload
    BY <2>3, BlockFacts
  <2>5. FileEnd = (L - 1) * Payload + l
    BY <2>3, <2>4, EndFacts
  <2>6. q < L
    <3> SUFFICES ASSUME L <= q PROVE FALSE
      OBVIOUS
    <3>1. L * Payload <= q * Payload /\ L * Payload \in Nat /\ q * Payload \in Nat
      BY PayloadType, MoreBlocks
    <3>2. PICK c \in Nat : c = L - 1
      BY <2>3
    <3>3. (c + 1) * Payload = c * Payload + Payload /\ c * Payload \in Nat
      BY PayloadType, MoreBlocks
    <3>4. PICK t \in Nat : t = c * Payload
      BY <3>3
    <3>5. FileEnd = t + l
      BY <2>5, <3>2, <3>4
    <3>6. L * Payload = t + Payload
      <4>1. c + 1 = L
        BY <3>2
      <4> QED
        BY <3>3, <3>4, <4>1
    <3>7. PICK u \in Nat : u = q * Payload /\ t + Payload <= u
      BY <3>1, <3>6
    <3>8. e = u + r /\ e < t + l
      BY <1>3, <2>1, <2>2, <3>5, <3>7
    <3>9. t + Payload <= u
      BY <3>7
    <3>10. r >= 0 /\ Payload \in Nat
      BY PayloadType
    <3> QED
      BY <2>4, <3>8, <3>9, <3>10
  <2>7. PICK i \in DOMAIN file : i = q + 1
    BY <2>3, <2>6 DEF WInv, WriterTypeOK
  <2>8. PICK k \in Nat : k = r + 1 /\ k <= Payload
    BY PayloadType
  <2>9. q * Payload \in Nat
    BY PayloadType, MoreBlocks
  <2>10. k \in DOMAIN file[i].data
    <3>1. CASE i < Len(file)
      <4>1. Len(file[i].data) = Payload /\ DOMAIN file[i].data = 1..Len(file[i].data)
        BY <3>1, BlockFacts
      <4> QED
        BY <2>8, <4>1
    <3>2. CASE i = Len(file)
      <4>1. L - 1 = q
        BY <2>3, <2>7, <3>2
      <4>2. q * Payload + r < q * Payload + l
        BY <1>3, <2>1, <2>2, <2>5, <4>1
      <4>3. DOMAIN file[i].data = 1..l
        BY <2>3, <2>4, <3>2, BlockFacts
      <4> QED
        BY SMTT(30), <2>4, <2>8, <2>9, <4>2, <4>3, PayloadType
    <3> QED
      BY <3>1, <3>2, BlockFacts
  <2>11. StreamPos(i, k) = e
    <3>1. i - 1 = q
      BY <2>7
    <3>2. StreamPos(i, k) = q * Payload + k - 1
      BY <3>1 DEF StreamPos
    <3> QED
      BY <2>2, <2>8, <2>9, <3>2, PayloadType
  <2>12. PICK w \in Word : w = file[i].data[k]
    <3>1. file[i].data \in Seq(Word)
      BY BlockFacts
    <3> QED
      BY <2>10, <3>1
  <2>13. /\ w.ev \in DOMAIN written /\ w.off \in Nat /\ w.off <= written[w.ev]
         /\ begin[w.ev] + w.off = e
    <3>1. w.off \in Nat
      BY DEF Word
    <3> QED
      BY <2>10, <2>11, <2>12, <3>1, BlockFacts DEF InPlace
  <2>14. w.ev = n
    BY SMTT(30), <1>1, <2>1, <2>13, PositionUnique DEF WInv
  <2>15. w.off = written[n]
    BY <1>1, <2>1, <2>13, <2>14
  <2>16. w = [ev |-> n, off |-> written[n]]
    BY <2>14, <2>15 DEF Word
  <2> QED
    BY <2>10, <2>12, <2>16 DEF Whole
<1> QED
  BY <1>2, <1>3

\* At the end of the file the reader has the events that end before it.
LEMMA GotBeforeEnd ==
  ASSUME WInv, RInv, evGetNewBufferEof, NEW n \in DOMAIN written
  PROVE  file # <<>> /\ (n <= Len(results) <=> begin[n] + written[n] < FileEnd)
<1>1. /\ rstate \in {"idle", "copying"} /\ rleft = 0 /\ rpos = Len(file)
      /\ rpos > 0 /\ rpos \in Nat
  BY DEF evGetNewBufferEof, NeedsBlock, RInv, ReaderTypeOK, ReaderInv
<1>2. file # <<>>
  BY <1>1
<1>3. PICK here \in Nat : here = FileEnd
  BY <1>2, EndFacts
<1>4. here = StreamPos(rpos, rnext - EV_HDSIZ + 1)
  <2>1. /\ Len(rblk.data) = rblk.used - EV_HDSIZ /\ rnext + rleft = rblk.used
        /\ rnext \in Nat /\ rblk = file[rpos]
    BY <1>1, ReaderFacts
  <2>2. rnext - EV_HDSIZ + 1 = Len(rblk.data) + 1
    BY <1>1, <2>1, SizesAssumption
  <2> QED
    BY <1>1, <1>3, <2>1, <2>2 DEF FileEnd
<1>5. written # <<>>
  OBVIOUS
<1>6. PICK m \in Nat : m = Len(results)
  BY ReadingFromNext
<1>7. /\ n \in Nat /\ n >= 1 /\ n <= Len(written) /\ Len(written) \in Nat
      /\ written[n] \in Nat /\ begin[n] \in Nat
      /\ m <= Len(written)
  BY <1>6, EventsType, ReadingFromNext DEF WInv
<1>8. here >= ReadingFrom
  <2>1. Len(rbuf) \in Nat
    BY DEF RInv, ReaderTypeOK
  <2>2. here = ReadingFrom + IF rstate = "idle" THEN 0 ELSE Len(rbuf)
    BY <1>1, <1>4, <1>5 DEF RInv, ReaderInv
  <2> QED
    BY <2>1, <2>2, ReadingFromNext
<1>9. ASSUME n <= m
      PROVE  begin[n] + written[n] < here
  <2>1. /\ m \in DOMAIN written /\ m >= 1
        /\ written[m] \in Nat /\ begin[m] \in Nat
    BY <1>7, <1>9, EventsType DEF WInv
  <2>2. ReadingFrom = begin[m] + written[m] + 1
    BY <1>6, <2>1 DEF ReadingFrom
  <2>3. n < m => begin[n] + written[n] < begin[m]
    BY <2>1, EventsType DEF WInv, TilingInv
  <2> QED
    BY SMTT(30), <1>7, <1>8, <1>9, <2>1, <2>2, <2>3
<1>10. ASSUME ~(n <= m)
       PROVE  ~(begin[n] + written[n] < here)
  <2>1. PICK x \in DOMAIN written : x = m + 1 /\ ReadingFrom = begin[x]
    BY <1>6, <1>7, <1>10, ReadingFromNext
  <2>2. written[x] \in Nat /\ begin[x] \in Nat /\ x \in Nat
    BY EventsType DEF WInv
  <2>3. x < n => begin[x] + written[x] < begin[n]
    BY <2>1, EventsType DEF WInv, TilingInv
  <2>4. here <= begin[x] + written[x]
    <3>1. CASE rstate = "idle"
      <4>1. here = begin[x] + 0
        BY <1>4, <1>5, <2>1, <3>1 DEF RInv, ReaderInv
      <4> QED
        BY <2>2, <4>1
    <3>2. CASE rstate = "copying"
      <4>1. PICK c \in Nat : c = Len(rbuf)
        BY DEF RInv, ReaderTypeOK
      <4>2. here = begin[x] + c
        BY <1>4, <1>5, <2>1, <3>2, <4>1 DEF RInv, ReaderInv
      <4>3. rnleft > 0 /\ rnleft \in Nat /\ rnleft + c <= written[x] + 1
        BY <1>5, <1>6, <2>1, <3>2, <4>1 DEF RInv, ReaderInv, ReaderTypeOK
      <4> QED
        BY <2>2, <4>2, <4>3
    <3> QED
      BY <1>1, <3>1, <3>2
  <2>5. x <= n
    BY <1>7, <1>10, <2>1
  <2> QED
    BY SMTT(30), <1>3, <1>7, <2>2, <2>3, <2>4, <2>5
<1> QED
  BY <1>2, <1>3, <1>6, <1>9, <1>10

\* A reader that was told the end has the events that are whole in the file.
SurviveInv ==
  rstatus = "EOF" => \A n \in DOMAIN written : n <= Len(results) <=> Whole(n)

\* Once the file has ended for the reader, nothing is added to it or taken from it.
LEMMA SurviveStep ==
  ASSUME WInv, RInv, EndInv, SurviveInv, [Next]_vars
  PROVE  SurviveInv'
<1>1. CASE rstatus = "EOF"
  <2>1. rstate = "ended" /\ stream # "open"
    BY <1>1 DEF EndInv
  <2>2. UNCHANGED <<written, file, results>>
    BY <2>1 DEF Next, WriterNext, ReaderNext, evWrite, evWriteRest, evWriteFill, evClose,
         WriterDies, evOpen, evOpenBadFile, evGetNewBuffer, evGetNewBufferEof, evRead,
         evReadPart, evReadReturn, NeedsBlock, vars, wvars, rvars
  <2> QED
    BY <1>1, <2>2 DEF SurviveInv, Whole
<1>2. CASE rstatus # "EOF" /\ evGetNewBufferEof
  <2>1. UNCHANGED <<written, file, results>>
    BY <1>2 DEF evGetNewBufferEof, wvars
  <2>2. \A n \in DOMAIN written : n <= Len(results) <=> Whole(n)
    BY <1>2, GotBeforeEnd, WholeInFile
  <2> QED
    BY <2>1, <2>2 DEF SurviveInv, Whole
<1>3. CASE rstatus # "EOF" /\ evGetNewBuffer
  <2>1. rstatus' # "EOF"
    BY <1>3, GetNewBufferStatus
  <2> QED
    BY <2>1 DEF SurviveInv
<1>4. CASE rstatus # "EOF" /\ ~evGetNewBufferEof /\ ~evGetNewBuffer
  <2>1. rstatus' # "EOF"
    BY <1>4 DEF Next, WriterNext, ReaderNext, evWrite, evWriteRest, evWriteFill, evClose,
         WriterDies, evOpen, evOpenBadFile, evRead, evReadPart, evReadReturn, Fail,
         vars, rvars
  <2> QED
    BY <2>1 DEF SurviveInv
<1> QED
  BY <1>1, <1>2, <1>3, <1>4

\* Whatever the sizes and wherever the writer died or stopped: a reader that is
\* told the end of the file has exactly the events whose last word was flushed
\* (evio.c, evFlush, evGetNewBuffer and evRead).
THEOREM FlushedAreRead == Spec => []FlushedSurvive
<1>1. Init => WInv /\ RInv /\ EndInv /\ SurviveInv
  <2>1. Init => EndInv /\ SurviveInv
    BY DEF Init, EndInv, SurviveInv
  <2> QED
    BY <2>1, WriterInit, ReaderInit
<1>2. WInv /\ RInv /\ EndInv /\ SurviveInv /\ [Next]_vars
        => (WInv /\ RInv /\ EndInv /\ SurviveInv)'
  BY WriterStep, ReaderStep, EndStep, SurviveStep
<1>3. SurviveInv => FlushedSurvive
  BY DEF SurviveInv, FlushedSurvive, Whole
<1> QED
  BY <1>1, <1>2, <1>3, PTL DEF Spec

-----------------------------------------------------------------------------
(***************************************************************************)
(* Searching the file (EvSearch), for every file that was written, every   *)
(* size of block and any number of searches.                               *)
(***************************************************************************)

\* The naturals are well founded by their order.
LEMMA NaturalsWellFounded == IsWellFoundedOn({p \in Nat \X Nat : p[1] < p[2]}, Nat)
<1>1. OpToRel(<, Nat) = {p \in Nat \X Nat : p[1] < p[2]}
  BY DEF OpToRel
<1> QED
  BY <1>1, NatLessThanWellFounded

\* A set of naturals has a least one.
LEMMA LeastOf ==
  ASSUME NEW Z \in SUBSET Nat, Z # {}
  PROVE  \E m \in Z : \A n \in Z : m <= n
<1> DEFINE R == {p \in Nat \X Nat : p[1] < p[2]}
<1> HIDE DEF R
<1>1. IsWellFoundedOn(R, Nat)
  BY NaturalsWellFounded DEF R
<1>2. PICK m \in Z : \A n \in Z : ~(<<n, m>> \in R)
  BY <1>1, WFMin
<1>3. \A n \in Z : ~(n < m)
  BY <1>2 DEF R
<1> QED
  BY <1>3

\* What holds of 0, and of i + 1 when it holds of i, holds up to n.
LEMMA UpTo ==
  ASSUME NEW n \in Nat, NEW Z, 0 \in Z, \A i \in 0 .. n - 1 : i \in Z => i + 1 \in Z
  PROVE  \A i \in 0 .. n : i \in Z
<1> DEFINE T == {i \in 0 .. n : i \notin Z}
<1> SUFFICES ASSUME T # {} PROVE FALSE
  OBVIOUS
<1>1. T \in SUBSET Nat
  OBVIOUS
<1>2. PICK t \in T : \A u \in T : t <= u
  <2> HIDE DEF T
  <2> QED
    BY <1>1, LeastOf
<1>3. t \in 0 .. n /\ t # 0 /\ t \notin Z
  BY <1>2
<1>4. t - 1 \in 0 .. n - 1 /\ t - 1 \notin T
  <2>1. t - 1 \in 0 .. n - 1 /\ ~(t <= t - 1)
    BY <1>3
  <2> QED
    BY <1>2, <2>1
<1>5. t - 1 \in Z
  BY <1>4
<1>6. (t - 1) + 1 \in Z
  BY <1>4, <1>5
<1> QED
  BY <1>3, <1>6

\* A set of numbers up to n that is not empty has a largest one.
LEMMA LargestOf ==
  ASSUME NEW n \in Nat, NEW Z, Z \subseteq 0 .. n, Z # {}
  PROVE  \E m \in Z : \A y \in Z : y <= m
<1> DEFINE T == {n - x : x \in Z}
<1>1. T \in SUBSET Nat /\ T # {}
  <2>1. \A x \in Z : n - x \in Nat
    OBVIOUS
  <2> QED
    BY <2>1
<1> HIDE DEF T
<1>2. PICK t \in T : \A u \in T : t <= u
  BY <1>1, LeastOf
<1>3. PICK x \in Z : t = n - x
  BY DEF T
<1>4. ASSUME NEW y \in Z PROVE y <= x
  <2>1. n - y \in T
    BY DEF T
  <2>2. n - x <= n - y
    BY <1>2, <1>3, <2>1
  <2>3. x \in Int /\ y \in Int
    OBVIOUS
  <2> QED
    BY <2>2, <2>3
<1> QED
  BY <1>4

\* First and Highest are what they are called.
LEMMA FirstIs ==
  ASSUME NEW Z \in SUBSET Nat, Z # {}
  PROVE  First(Z) \in Z /\ \A y \in Z : First(Z) <= y
  BY LeastOf DEF First

LEMMA HighestIs ==
  ASSUME NEW n \in Nat, NEW Z, Z \subseteq 0 .. n, Z # {}
  PROVE  Highest(Z) \in Z /\ \A y \in Z : y <= Highest(Z)
<1>1. \E m \in Z : \A y \in Z : m >= y
  <2>1. PICK m \in Z : \A y \in Z : y <= m
    BY LargestOf
  <2>2. \A y \in Z : m >= y
    BY <2>1
  <2> QED
    BY <2>2
<1>2. /\ Highest(Z) \in Z
      /\ \A y \in Z : Highest(Z) >= y
  BY <1>1 DEF Highest
<1> QED
  BY <1>2

(***************************************************************************)
(* Positions and blocks                                                    *)
(***************************************************************************)

LEMMA DivisionIs ==
  ASSUME NEW b \in Nat \ {0}, NEW x \in Nat
  PROVE  /\ x \div b \in Nat /\ x % b \in Nat /\ x % b < b
         /\ x = (x \div b) * b + (x % b)
  OBVIOUS

\* One factor that is at least 1 makes a product no smaller than the other.
LEMMA ProductGrows ==
  ASSUME NEW b \in Nat \ {0}, NEW p \in Nat, NEW q \in Nat, p < q
  PROVE  p * b + b <= q * b
<1>1. q - p \in Nat \ {0} /\ q * b = p * b + (q - p) * b
  OBVIOUS
<1>2. ASSUME NEW d \in Nat \ {0} PROVE b <= d * b
  <2>1. d - 1 \in Nat /\ d * b = (d - 1) * b + b
    OBVIOUS
  <2>2. (d - 1) * b \in Nat
    BY <2>1
  <2> QED
    BY <2>1, <2>2
<1>3. b <= (q - p) * b /\ p * b \in Nat /\ (q - p) * b \in Nat
  BY <1>1, <1>2
<1> QED
  BY <1>1, <1>3

LEMMA DivisionUnique ==
  ASSUME NEW b \in Nat \ {0}, NEW q \in Nat, NEW r \in 0 .. b - 1
  PROVE  q * b + r \in Nat /\ (q * b + r) \div b = q /\ (q * b + r) % b = r
<1>1. q * b \in Nat /\ q * b + r \in Nat
  OBVIOUS
<1>2. PICK x \in Nat : x = q * b + r
  BY <1>1
<1>3. PICK p \in Nat, s \in Nat : p = x \div b /\ s = x % b
  BY DivisionIs
<1>4. s < b /\ p * b + s = q * b + r /\ p * b \in Nat
  BY <1>2, <1>3, DivisionIs
<1>5. ~(p < q)
  BY <1>1, <1>4, ProductGrows
<1>6. ~(q < p)
  BY <1>1, <1>4, ProductGrows
<1>7. p = q
  BY <1>5, <1>6
<1>8. r = s
  BY <1>1, <1>4, <1>7
<1> QED
  BY <1>1, <1>2, <1>3, <1>7, <1>8

LEMMA DivisionMonotone ==
  ASSUME NEW b \in Nat \ {0}, NEW x \in Nat, NEW y \in Nat, x <= y
  PROVE  x \div b <= y \div b
<1>1. PICK p \in Nat, s \in Nat : p = x \div b /\ s = x % b /\ s < b /\ x = p * b + s
  BY DivisionIs
<1>2. PICK q \in Nat, t \in Nat : q = y \div b /\ t = y % b /\ t < b /\ y = q * b + t
  BY DivisionIs
<1>3. p * b \in Nat /\ q * b \in Nat
  OBVIOUS
<1>4. ~(q < p)
  BY <1>1, <1>2, <1>3, ProductGrows
<1> QED
  BY <1>1, <1>2, <1>4

\* The events of the file, as the assumption on Files has them
LEMMA EventsAre ==
  ASSUME SearchParameters, events \in Files
  PROVE  /\ Len(events) \in Nat \ {0} /\ DOMAIN events = 1 .. Len(events)
         /\ \A k \in DOMAIN events :
              /\ events[k].phys \in BOOLEAN /\ events[k].num \in Nat
              /\ events[k].size \in Nat \ {0} /\ events[k].pos \in Nat
         /\ \A j, k \in DOMAIN events : j < k /\ events[j].phys /\ events[k].phys => events[j].num < events[k].num
<1> DEFINE n == Len(events)
           Z == {i \in 0 .. n - 1 : events[i + 1].pos \in Nat}
<1>1. FileWritten(events)
  BY DEF SearchParameters
<1>2. n \in Nat \ {0} /\ DOMAIN events = 1 .. n /\ n - 1 \in Nat
  BY <1>1 DEF FileWritten
<1>3. 0 \in Z
  BY <1>1, <1>2 DEF FileWritten
<1>4. \A i \in 0 .. (n - 1) - 1 : i \in Z => i + 1 \in Z
  <2> SUFFICES ASSUME NEW i \in 0 .. (n - 1) - 1, i \in Z PROVE i + 1 \in Z
    OBVIOUS
  <2>1. i + 1 \in 1 .. n /\ i + 2 \in 1 .. n /\ i + 2 # 1 /\ (i + 2) - 1 = i + 1 /\ (i + 1) + 1 = i + 2
    BY <1>2
  <2>2. events[i + 2].pos = events[i + 1].pos + events[i + 1].size /\ events[i + 1].size \in Nat
    BY <1>1, <1>2, <2>1 DEF FileWritten
  <2> QED
    BY <1>2, <2>1, <2>2
<1>5. \A i \in 0 .. n - 1 : i \in Z
  <2> HIDE DEF Z, n
  <2> QED
    BY <1>2, <1>3, <1>4, UpTo
<1>6. ASSUME NEW k \in 1 .. n PROVE events[k].pos \in Nat
  <2>1. k - 1 \in 0 .. n - 1 /\ (k - 1) + 1 = k
    BY <1>2
  <2>2. k - 1 \in Z
    BY <1>5, <2>1
  <2> QED
    BY <2>1, <2>2
<1> QED
  BY <1>1, <1>2, <1>6 DEF FileWritten

\* An event begins where all before it have ended.
LEMMA EventsFollow ==
  ASSUME SearchParameters, events \in Files, NEW j \in DOMAIN events
  PROVE  \A k \in DOMAIN events : j < k => events[j].pos + events[j].size <= events[k].pos
<1> DEFINE n == Len(events)
           stop == events[j].pos + events[j].size
           Z == {i \in 0 .. n - 1 : j < i + 1 => stop <= events[i + 1].pos}
<1>1. /\ n \in Nat \ {0} /\ n - 1 \in Nat /\ DOMAIN events = 1 .. n /\ j \in 1 .. n /\ stop \in Nat
      /\ \A k \in 1 .. n : events[k].size \in Nat \ {0} /\ events[k].pos \in Nat
  BY EventsAre
<1>2. \A k \in 1 .. n : k # 1 => events[k].pos = events[k - 1].pos + events[k - 1].size
  BY <1>1 DEF SearchParameters, FileWritten
<1>3. 0 \in Z
  BY <1>1
<1>4. \A i \in 0 .. (n - 1) - 1 : i \in Z => i + 1 \in Z
  <2> SUFFICES ASSUME NEW i \in 0 .. (n - 1) - 1, i \in Z, j < i + 2 PROVE stop <= events[i + 2].pos
    BY <1>1
  <2>1. i + 1 \in 1 .. n /\ i + 2 \in 1 .. n /\ i + 2 # 1 /\ (i + 2) - 1 = i + 1
    BY <1>1
  <2>2. events[i + 2].pos = events[i + 1].pos + events[i + 1].size
    BY <1>2, <2>1
  <2>3. events[i + 1].pos \in Nat /\ events[i + 1].size \in Nat
    BY <1>1, <2>1
  <2>4. CASE j = i + 1
    <3>1. stop = events[i + 2].pos /\ stop \in Nat
      BY <1>1, <2>2, <2>4
    <3> QED
      BY <3>1
  <2>5. CASE j < i + 1
    <3>1. stop <= events[i + 1].pos
      BY <2>5
    <3> HIDE DEF stop
    <3> QED
      BY <1>1, <2>2, <2>3, <3>1
  <2>6. j \in Int /\ i \in Int
    BY <1>1
  <2>7. j = i + 1 \/ j < i + 1
    BY <2>6
  <2> HIDE DEF stop
  <2> QED
    BY <2>4, <2>5, <2>7
<1>5. \A i \in 0 .. n - 1 : i \in Z
  <2> HIDE DEF Z, n
  <2> QED
    BY <1>1, <1>3, <1>4, UpTo
<1>6. ASSUME NEW k \in 1 .. n, j < k PROVE stop <= events[k].pos
  <2>1. k - 1 \in 0 .. n - 1 /\ (k - 1) + 1 = k
    BY <1>1
  <2>2. k - 1 \in Z
    BY <1>5, <2>1
  <2> QED
    BY <1>6, <2>1, <2>2
<1> QED
  BY <1>1, <1>6

\* The blocks in which the events begin are numbered as they come, up to the last.
LEMMA BlocksAre ==
  ASSUME SearchParameters, events \in Files
  PROVE  /\ LastBlock \in Nat
         /\ \A k \in DOMAIN events : BlockOf(k) \in 0 .. LastBlock
         /\ \A j, k \in DOMAIN events : j <= k => BlockOf(j) <= BlockOf(k)
<1> DEFINE n == Len(events)
<1>1. /\ n \in Nat \ {0} /\ n \in DOMAIN events /\ DOMAIN events = 1 .. n /\ B \in Nat \ {0}
      /\ \A k \in 1 .. n : events[k].size \in Nat \ {0} /\ events[k].pos \in Nat
  BY EventsAre DEF SearchParameters
<1>2. \A k \in 1 .. n : events[k].pos <= Total
  <2> SUFFICES ASSUME NEW k \in 1 .. n PROVE events[k].pos <= Total
    OBVIOUS
  <2>1. k < n => events[k].pos + events[k].size <= events[n].pos
    BY <1>1, EventsFollow
  <2>2. PICK p \in Nat, s \in Nat, q \in Nat, r \in Nat :
          p = events[k].pos /\ s = events[k].size /\ q = events[n].pos /\ r = events[n].size
    BY <1>1
  <2>3. n \in Int /\ k \in Int /\ k <= n
    BY <1>1
  <2> HIDE DEF n
  <2>4. k = n \/ k < n
    BY <2>3
  <2> USE DEF n
  <2> QED
    BY SMTT(30), <2>1, <2>2, <2>4 DEF Total
<1>3. Total \in Nat
  BY <1>1 DEF Total
<1>4. ASSUME NEW j \in 1 .. n, NEW k \in 1 .. n, j <= k PROVE events[j].pos <= events[k].pos
  <2>1. j < k => events[j].pos + events[j].size <= events[k].pos
    BY <1>1, EventsFollow
  <2>2. PICK p \in Nat, s \in Nat, q \in Nat : p = events[j].pos /\ s = events[j].size /\ q = events[k].pos
    BY <1>1
  <2>3. j = k \/ j < k
    BY <1>1, <1>4
  <2> QED
    BY <2>1, <2>2, <2>3
<1> HIDE DEF n
<1>5. \A j, k \in 1 .. n : j <= k => BlockOf(j) <= BlockOf(k)
  BY <1>1, <1>4, DivisionMonotone DEF BlockOf
<1>6. LastBlock \in Nat /\ \A k \in 1 .. n : BlockOf(k) \in Nat /\ BlockOf(k) <= LastBlock
  BY <1>1, <1>2, <1>3, DivisionIs, DivisionMonotone DEF BlockOf, LastBlock
<1> QED
  BY <1>1, <1>5, <1>6

\* A block in which no type was read where it is not: the first event that was taken
\* for physics is the first physics event that begins in it.
LEMMA FirstIsPhysics ==
  ASSUME SearchParameters, events \in Files, NEW b, NEW g, Real(b, g) # {}
  PROVE  /\ First(Real(b, g)) \in Starts(b)
         /\ (\A k \in Examined(b, g) : ~TypeMisread(k)) =>
              /\ events[First(Real(b, g))].phys
              /\ \A k \in PhysicsIn(b) : First(Real(b, g)) <= k
<1> DEFINE k0 == First(Real(b, g))
<1>1. Real(b, g) \in SUBSET Nat /\ Real(b, g) \subseteq Starts(b) /\ Starts(b) \subseteq Nat
  BY EventsAre DEF Real, Starts
<1>2. k0 \in Real(b, g) /\ \A k \in Real(b, g) : k0 <= k
  BY <1>1, FirstIs
<1>3. ASSUME \A k \in Examined(b, g) : ~TypeMisread(k)
      PROVE  events[k0].phys /\ \A k \in PhysicsIn(b) : k0 <= k
  <2>1. Examined(b, g) = {k \in Starts(b) : k <= k0}
    BY DEF Examined
  <2>2. k0 \in Examined(b, g) /\ k0 \in Nat
    BY <1>1, <1>2, <2>1
  <2>3. events[k0].phys
    BY <1>2, <1>3, <2>2 DEF Real, SeenAsPhysics
  <2>4. ASSUME NEW k \in PhysicsIn(b), ~(k0 <= k) PROVE FALSE
    <3>1. k \in Starts(b) /\ k \in Nat /\ events[k].phys
      BY <1>1 DEF PhysicsIn
    <3>2. k \in Examined(b, g)
      BY <2>1, <2>2, <2>4, <3>1
    <3>3. k \in Real(b, g)
      BY <1>3, <3>1, <3>2 DEF Real, SeenAsPhysics
    <3> QED
      BY <1>2, <2>4, <3>3
  <2> QED
    BY <2>3, <2>4
<1> QED
  BY <1>1, <1>2, <1>3

\* evFindEventBlockNum ends at a block that it has passed, where an event was taken
\* for physics.
LEMMA BlockIsFound ==
  ASSUME NEW m \in Nat, NEW g, ebk \in Nat, ~NoPhysics(m, g)
  PROVE  /\ evFindEventBlockNum(m, g) \in Nat
         /\ Real(evFindEventBlockNum(m, g), g) # {}
         /\ evFindEventBlockNum(m, g) \in Passed(m, evFindEventBlockNum(m, g), g)
<1> DEFINE b == evFindEventBlockNum(m, g)
<1>1. CASE Forward(m, g) # {}
  <2>1. Forward(m, g) \in SUBSET Nat
    BY DEF Forward
  <2>2. b \in Forward(m, g)
    BY <1>1, <2>1, FirstIs DEF evFindEventBlockNum
  <2>3. b \in m .. ebk /\ Real(b, g) # {} /\ Passed(m, b, g) = m .. b
    BY <1>1, <2>2 DEF Forward, Passed
  <2> HIDE DEF b
  <2>4. b \in Nat /\ b \in m .. b
    BY <2>3
  <2> QED
    BY <2>3, <2>4 DEF b
<1>2. CASE Forward(m, g) = {}
  <2>1. Backward(m, g) \subseteq 0 .. m /\ Backward(m, g) # {}
    BY <1>2 DEF Backward, NoPhysics, Sbk
  <2>2. b \in Backward(m, g)
    BY <1>2, <2>1, HighestIs DEF evFindEventBlockNum
  <2>3. b \in 0 .. m /\ Real(b, g) # {} /\ Passed(m, b, g) = (m .. ebk) \cup (b .. m)
    BY <1>2, <2>1, <2>2 DEF Backward, Passed
  <2> HIDE DEF b
  <2>4. b \in Nat /\ b \in b .. m
    BY <2>3
  <2> QED
    BY <2>3, <2>4 DEF b
<1> QED
  BY <1>1, <1>2

(***************************************************************************)
(* The invariant                                                           *)
(***************************************************************************)

SearchTypeInv ==
  /\ events \in Files /\ evn \in Nat /\ mid \in Nat /\ start \in Nat /\ end \in Int /\ buflen \in Nat
  /\ ebk \in Nat /\ last_evn \in Int /\ found_bk \in Int /\ found_evn \in Int
  /\ searches \in Nat /\ misread \in BOOLEAN /\ cut \in BOOLEAN
  /\ (phase = "open" => searches = 0) /\ (phase # "idle" => buffer = <<>>)

\* What evOpenSearch has found out
SearchEndInv == phase # "open" => ebk = LastBlock /\ \A k \in Physics : events[k].num <= last_evn

\* What the search before has left: an event of that number begins in the block.
LastFoundInv == found_bk >= 0 => \E k \in PhysicsIn(found_bk) : events[k].num = found_evn

\* The event begins in no block outside the range.
RangeInv ==
  phase = "search" /\ ~cut => \A k \in Physics : events[k].num = evn => BlockOf(k) \in start .. end

AbsentInv ==
  phase = "idle" /\ searches > 0 /\ result # 0 /\ ~cut => \A k \in Physics : events[k].num # evn

SearchInv ==
  /\ SearchTypeInv
  /\ EndIsKnown => SearchEndInv
  /\ ~misread => LastFoundInv
  /\ EndIsKnown /\ ~misread => RangeInv /\ AbsentInv

\* A physics event of a higher number comes later, in no block before.
LEMMA PhysicsOrder ==
  ASSUME SearchParameters, events \in Files, NEW j \in Physics, NEW k \in Physics
  PROVE  /\ events[j].num \in Nat /\ j \in Nat /\ j \in DOMAIN events /\ BlockOf(j) \in 0 .. LastBlock
         /\ events[j].num < events[k].num => j < k
         /\ events[j].num = events[k].num => j = k
         /\ j <= k => BlockOf(j) <= BlockOf(k) /\ events[j].num <= events[k].num
<1>1. /\ j \in DOMAIN events /\ k \in DOMAIN events /\ events[j].phys /\ events[k].phys
      /\ DOMAIN events = 1 .. Len(events) /\ Len(events) \in Nat
  BY EventsAre DEF Physics
<1>2. PICK m \in Nat, n \in Nat : m = events[j].num /\ n = events[k].num
  BY <1>1, EventsAre
<1>3. (j < k => m < n) /\ (k < j => n < m)
  BY <1>1, <1>2, EventsAre
<1>4. j \in Nat /\ k \in Nat
  BY <1>1
<1>5. BlockOf(j) \in 0 .. LastBlock /\ (j <= k => BlockOf(j) <= BlockOf(k))
  BY <1>1, BlocksAre
<1>6. j = k => m = n
  BY <1>2
<1>7. (m < n => j < k) /\ (m = n => j = k) /\ (j <= k => m <= n)
  BY <1>3, <1>4, <1>6
<1> QED
  BY <1>1, <1>2, <1>4, <1>5, <1>7

LEMMA PhysicsInIs ==
  ASSUME NEW b, NEW k
  PROVE  k \in PhysicsIn(b) <=> k \in Physics /\ BlockOf(k) = b
  BY DEF PhysicsIn, Physics, Starts

\* The search goes on in the blocks below b, whose first event k has a higher number;
Below(b, k) ==
  /\ events[k].num > evn
  /\ start' = start /\ end' = b - 1 /\ UNCHANGED <<phase, found_bk, found_evn, result, buffer>>

\* or in those above b, where k and what comes after it have other numbers;
Above(b, k) ==
  /\ ~cut' => /\ ~(events[k].num > evn)
              /\ \A j \in Starts(b) : j >= k /\ (j = k \/ events[j].phys) => events[j].num # evn
  /\ start' = b + 1 /\ end' = end /\ UNCHANGED <<phase, found_bk, found_evn, result, buffer>>

\* or the event is copied: it is k, or a physics event that comes after it.
Taken(b, k) ==
  /\ phase' = "idle" /\ result' = 0 /\ found_bk' = b /\ found_evn' = evn
  /\ \E j \in Starts(b) :
       /\ events[j].num = evn /\ (j = k \/ events[j].phys) /\ events[j].size <= buflen
       /\ buffer' = <<j, copySingleEvent(j, buflen)>>
  /\ UNCHANGED <<start, end>>

\* A turn of evSearch's loop ends the program, or has a block b and in it an event k that
\* was taken for the first physics event, and is when no type was read where it is not.
LEMMA ProbeIs ==
  ASSUME SearchParameters, SearchTypeInv, Probe
  PROVE  /\ phase = "search" /\ UNCHANGED <<events, evn, buflen, ebk, last_evn, searches>>
         /\ mid' \in Nat /\ misread' \in BOOLEAN /\ cut' \in BOOLEAN
         /\ (~misread' => ~misread) /\ (~cut' => ~cut)
         /\ \/ phase' = "exit" /\ UNCHANGED <<start, end, found_bk, found_evn, result, buffer>>
            \/ \E b \in Nat, k \in Nat :
                 /\ k \in Starts(b)
                 /\ ~misread' => events[k].phys /\ \A j \in PhysicsIn(b) : k <= j
                 /\ Below(b, k) \/ Above(b, k) \/ Taken(b, k)
<1>1. phase = "search" /\ UNCHANGED <<events, searches>>
  BY DEF Probe
<1>2. PICK g \in BOOLEAN :
       IF NoPhysics(mid, g)
         THEN /\ phase' = "exit" /\ misread' = (misread \/ left = 1)
              /\ UNCHANGED <<left, book, search, result, buffer, cut>>
         ELSE \E b \in {evFindEventBlockNum(mid, g)} : \E w \in {Within(First(Real(b, g)), b)} :
                /\ misread' = (misread \/ \E c \in Passed(mid, b, g) : \E k \in Examined(c, g) : TypeMisread(k))
                /\ left' = After(w[2])
                /\ cut' = (cut \/ w[1] = EVFILE_TRUNC)
                /\ CASE w[1] < 0 ->
                          /\ end' = LowerHalf(b) /\ start' = start /\ mid' = Half(start + end')
                          /\ UNCHANGED <<phase, book, result, buffer>>
                     [] w[1] > 0 ->
                          /\ start' = b + 1 /\ end' = end /\ mid' = Half(start' + end)
                          /\ UNCHANGED <<phase, book, result, buffer>>
                     [] OTHER ->
                          /\ phase' = "idle" /\ result' = 0
                          /\ mid' = b /\ found_bk' = b /\ found_evn' = evn
                          /\ buffer' = <<w[2], copySingleEvent(w[2], buflen)>>
                          /\ UNCHANGED <<start, end, ebk, last_evn>>
                /\ UNCHANGED <<evn, buflen>>
  BY DEF Probe
<1>3. CASE NoPhysics(mid, g)
  <2>1. /\ phase' = "exit" /\ misread' = (misread \/ left = 1)
        /\ UNCHANGED <<ebk, last_evn, found_bk, found_evn, evn, buflen, start, end, mid, result, buffer, cut>>
    BY <1>2, <1>3 DEF book, search
  <2> QED
    BY <1>1, <2>1 DEF SearchTypeInv
<1>4. CASE ~NoPhysics(mid, g)
  <2> DEFINE b == evFindEventBlockNum(mid, g)
             k0 == First(Real(b, g))
             w == Within(k0, b)
             same == {k \in Starts(b) : k >= k0 /\ events[k].num = evn /\ (k = k0 \/ events[k].phys)}
  <2>1. mid \in Nat /\ ebk \in Nat /\ events \in Files /\ evn \in Nat /\ buflen \in Nat
    BY DEF SearchTypeInv
  <2>2. b \in Nat /\ Real(b, g) # {} /\ b \in Passed(mid, b, g)
    BY <1>4, <2>1, BlockIsFound
  <2>3. /\ misread' = (misread \/ \E c \in Passed(mid, b, g) : \E k \in Examined(c, g) : TypeMisread(k))
        /\ cut' = (cut \/ w[1] = EVFILE_TRUNC)
        /\ w[1] < 0 => /\ end' = LowerHalf(b) /\ start' = start /\ mid' = Half(start + end')
                       /\ UNCHANGED <<phase, ebk, last_evn, found_bk, found_evn, result, buffer>>
        /\ ~(w[1] < 0) /\ w[1] > 0 =>
                       /\ start' = b + 1 /\ end' = end /\ mid' = Half(start' + end)
                       /\ UNCHANGED <<phase, ebk, last_evn, found_bk, found_evn, result, buffer>>
        /\ ~(w[1] < 0) /\ ~(w[1] > 0) =>
             /\ phase' = "idle" /\ result' = 0
             /\ mid' = b /\ found_bk' = b /\ found_evn' = evn
             /\ buffer' = <<w[2], copySingleEvent(w[2], buflen)>>
             /\ UNCHANGED <<start, end, ebk, last_evn>>
        /\ UNCHANGED <<evn, buflen>>
    <3>1. /\ misread' = (misread \/ \E c \in Passed(mid, b, g) : \E k \in Examined(c, g) : TypeMisread(k))
          /\ cut' = (cut \/ w[1] = EVFILE_TRUNC)
          /\ CASE w[1] < 0 ->
                    /\ end' = LowerHalf(b) /\ start' = start /\ mid' = Half(start + end')
                    /\ UNCHANGED <<phase, book, result, buffer>>
               [] w[1] > 0 ->
                    /\ start' = b + 1 /\ end' = end /\ mid' = Half(start' + end)
                    /\ UNCHANGED <<phase, book, result, buffer>>
               [] OTHER ->
                    /\ phase' = "idle" /\ result' = 0
                    /\ mid' = b /\ found_bk' = b /\ found_evn' = evn
                    /\ buffer' = <<w[2], copySingleEvent(w[2], buflen)>>
                    /\ UNCHANGED <<start, end, ebk, last_evn>>
          /\ UNCHANGED <<evn, buflen>>
      BY ZenonT(30), Zenon, <1>2, <1>4
    <3>2. ~(w[1] < 0 /\ w[1] > 0)
      <4>1. events[k0].num > evn => w = <<-1, k0>>
        BY DEF Within
      <4>2. ~(events[k0].num > evn) => ~(w[1] < 0)
        BY DEF Within, EVFILE_TRUNC
      <4> HIDE DEF w, k0, b
      <4> QED
        BY <4>1, <4>2
    <3> HIDE DEF w, k0, b
    <3>3. w[1] < 0 => /\ end' = LowerHalf(b) /\ start' = start /\ mid' = Half(start + end')
                      /\ UNCHANGED <<phase, book, result, buffer>>
      BY Zenon, <3>1, <3>2
    <3>4. ~(w[1] < 0) /\ w[1] > 0 =>
            /\ start' = b + 1 /\ end' = end /\ mid' = Half(start' + end)
            /\ UNCHANGED <<phase, book, result, buffer>>
      BY Zenon, <3>1, <3>2
    <3>5. ~(w[1] < 0) /\ ~(w[1] > 0) =>
             /\ phase' = "idle" /\ result' = 0
             /\ mid' = b /\ found_bk' = b /\ found_evn' = evn
             /\ buffer' = <<w[2], copySingleEvent(w[2], buflen)>>
             /\ UNCHANGED <<start, end, ebk, last_evn>>
      BY Zenon, <3>1, <3>2
    <3> QED
      BY <3>1, <3>3, <3>4, <3>5 DEF book
  <2>4. /\ k0 \in Starts(b)
        /\ (\A k \in Examined(b, g) : ~TypeMisread(k)) => events[k0].phys /\ \A j \in PhysicsIn(b) : k0 <= j
    BY <2>1, <2>2, FirstIsPhysics
  <2>5. k0 \in Nat /\ events[k0].num \in Nat /\ same \in SUBSET Nat
    BY <2>1, <2>4, EventsAre DEF Starts
  <2>6. ~misread' => events[k0].phys /\ \A j \in PhysicsIn(b) : k0 <= j
    BY <2>2, <2>3, <2>4
  <2>7. misread' \in BOOLEAN /\ cut' \in BOOLEAN /\ (~misread' => ~misread) /\ (~cut' => ~cut)
    BY <2>3 DEF SearchTypeInv
  <2>8. w = IF events[k0].num > evn THEN <<-1, k0>>
            ELSE IF same # {} THEN <<IF buflen < events[First(same)].size THEN EVFILE_TRUNC ELSE 0, First(same)>>
            ELSE <<1, Highest(Starts(b))>>
    BY DEF Within
  <2>9. start \in Nat /\ end \in Int
    BY DEF SearchTypeInv
  <2> HIDE DEF b, k0, w, same
  <2>10. \A n \in Int : Half(n) \in Nat
    BY DEF Half
  <2>11. CASE events[k0].num > evn
    <3>1. w[1] = -1
      BY <2>8, <2>11
    <3>2. Below(b, k0) /\ mid' \in Nat /\ UNCHANGED <<ebk, last_evn>>
      BY <2>2, <2>3, <2>9, <2>10, <2>11, <3>1 DEF Below, LowerHalf
    <3> QED
      BY <1>1, <2>2, <2>3, <2>4, <2>5, <2>6, <2>7, <3>2
  <2>12. CASE ~(events[k0].num > evn) /\ same # {}
    <3>1. w = <<IF buflen < events[First(same)].size THEN EVFILE_TRUNC ELSE 0, First(same)>>
      BY <2>1, <2>5, <2>8, <2>12
    <3>2. First(same) \in same
      BY <2>5, <2>12, FirstIs
    <3>3. First(same) \in Starts(b) /\ events[First(same)].num = evn /\ (First(same) = k0 \/ events[First(same)].phys)
      BY <3>2 DEF same
    <3>4. events[First(same)].size \in Nat
      BY <2>1, <3>3, EventsAre DEF Starts
    <3>5. CASE buflen < events[First(same)].size
      <4>1. w[1] = 2 /\ cut'
        BY <2>3, <3>1, <3>5 DEF EVFILE_TRUNC
      <4>2. Above(b, k0) /\ mid' \in Nat /\ UNCHANGED <<ebk, last_evn>>
        BY <2>2, <2>3, <2>9, <2>10, <4>1 DEF Above
      <4> QED
        BY <1>1, <2>2, <2>3, <2>4, <2>5, <2>6, <2>7, <4>2
    <3>6. CASE ~(buflen < events[First(same)].size)
      <4>1. w[1] = 0 /\ w[2] = First(same)
        BY <3>1, <3>6
      <4>2. events[First(same)].size <= buflen
        BY <2>1, <3>4, <3>6
      <4>3. /\ phase' = "idle" /\ result' = 0
            /\ mid' = b /\ found_bk' = b /\ found_evn' = evn
            /\ buffer' = <<w[2], copySingleEvent(w[2], buflen)>>
            /\ UNCHANGED <<start, end, ebk, last_evn>>
        BY <2>3, <4>1
      <4>4. Taken(b, k0) /\ mid' \in Nat /\ UNCHANGED <<ebk, last_evn>>
        BY <2>2, <3>3, <4>1, <4>2, <4>3 DEF Taken
      <4> QED
        BY <1>1, <2>2, <2>3, <2>4, <2>5, <2>6, <2>7, <4>4
    <3> QED
      BY <3>5, <3>6
  <2>13. CASE ~(events[k0].num > evn) /\ same = {}
    <3>1. w[1] = 1
      BY <2>1, <2>5, <2>8, <2>13
    <3>2. \A j \in Starts(b) : j >= k0 /\ (j = k0 \/ events[j].phys) => events[j].num # evn
      BY <2>13 DEF same
    <3>3. Above(b, k0) /\ mid' \in Nat /\ UNCHANGED <<ebk, last_evn>>
      BY <2>2, <2>3, <2>9, <2>10, <2>13, <3>1, <3>2 DEF Above
    <3> QED
      BY <1>1, <2>2, <2>3, <2>4, <2>5, <2>6, <2>7, <3>3
  <2> QED
    BY <2>11, <2>12, <2>13
<1> QED
  BY <1>3, <1>4

\* No physics event is numbered higher than the last one that begins in the last block.
LEMMA OpenStep ==
  ASSUME SearchParameters, SearchInv, evOpenSearch
  PROVE  SearchInv'
<1> DEFINE b == LastBlock
           h == Highest(PhysicsIn(b))
<1>1. /\ phase = "open" /\ phase' = "idle" /\ searches = 0
      /\ UNCHANGED <<events, found_bk, found_evn, evn, buflen, start, end, mid, result, buffer, searches, misread, cut>>
  BY DEF SearchInv, SearchTypeInv, evOpenSearch, search
<1>2. /\ Starts(b) = {} => ebk' = b /\ last_evn' = HDSIZ + Used(b)
      /\ ~(Starts(b) = {}) /\ PhysicsIn(b) = {} => ebk' = 0 /\ last_evn' \in 0 .. MaxNum
      /\ ~(Starts(b) = {}) /\ ~(PhysicsIn(b) = {}) => ebk' = b /\ last_evn' = events[h].num
  BY Zenon DEF evOpenSearch, findLastEventWithinBlock
<1>3. /\ events \in Files /\ b \in Nat /\ MaxNum \in Nat
      /\ PhysicsIn(b) \subseteq Starts(b) /\ PhysicsIn(b) \subseteq Physics
  BY <1>1, BlocksAre DEF SearchInv, SearchTypeInv, SearchParameters, PhysicsIn, Starts, Physics
<1>4. ASSUME PhysicsIn(b) # {}
      PROVE  h \in Physics /\ events[h].num \in Nat /\ \A k \in Physics : events[k].num <= events[h].num
  <2>1. Len(events) \in Nat /\ PhysicsIn(b) \subseteq 0 .. Len(events)
    BY <1>3, EventsAre DEF PhysicsIn, Starts
  <2>2. h \in PhysicsIn(b) /\ \A k \in PhysicsIn(b) : k <= h
    BY <1>4, <2>1, HighestIs
  <2>3. h \in Physics /\ BlockOf(h) = b
    BY <2>2, PhysicsInIs
  <2> HIDE DEF h, b
  <2>4. ASSUME NEW k \in Physics PROVE events[k].num <= events[h].num
    <3>1. k \in Nat /\ h \in Nat /\ BlockOf(k) \in 0 .. b /\ events[h].num \in Nat
      BY <1>3, <2>3, PhysicsOrder DEF b
    <3>2. CASE k <= h
      BY <1>3, <2>3, <3>2, PhysicsOrder
    <3>3. CASE h <= k
      <4>1. BlockOf(h) <= BlockOf(k)
        BY <1>3, <2>3, <3>3, PhysicsOrder
      <4>2. BlockOf(k) = b
        BY <1>3, <2>3, <3>1, <4>1
      <4>3. k \in PhysicsIn(b)
        BY <4>2, PhysicsInIs
      <4>4. k = h
        BY <2>2, <3>1, <3>3, <4>3
      <4> QED
        BY <3>1, <4>4
    <3> QED
      BY <3>1, <3>2, <3>3
  <2> QED
    BY <1>3, <2>3, <2>4, PhysicsOrder
<1> HIDE DEF h
<1>5. SearchTypeInv'
  <2>1. Used(b) \in Int
    BY <1>3, EventsAre DEF Used, Total, SearchParameters
  <2>2. ebk' \in Nat /\ last_evn' \in Int
    BY <1>2, <1>3, <1>4, <2>1 DEF HDSIZ
  <2> QED
    BY <1>1, <2>2 DEF SearchInv, SearchTypeInv
<1>6. EndIsKnown' => SearchEndInv'
  <2> SUFFICES ASSUME EndIsKnown' PROVE SearchEndInv'
    OBVIOUS
  <2>1. PhysicsIn(b) # {}
    BY <1>1 DEF EndIsKnown, PhysicsIn, Starts, BlockOf, LastBlock, Total
  <2>2. ebk' = b /\ last_evn' = events[h].num
    BY <1>2, <1>3, <2>1
  <2>3. Physics' = Physics /\ LastBlock' = b
    BY <1>1 DEF Physics, LastBlock, Total
  <2> QED
    BY <1>1, <1>4, <2>1, <2>2, <2>3 DEF SearchEndInv
<1>7. ~misread' => LastFoundInv'
  BY <1>1 DEF SearchInv, LastFoundInv, PhysicsIn, Starts, BlockOf
<1>8. RangeInv' /\ AbsentInv'
  BY <1>1 DEF RangeInv, AbsentInv
<1> QED
  BY <1>5, <1>6, <1>7, <1>8 DEF SearchInv

\* What depends on the file alone, in a step that leaves it alone
LEMMA FileKept ==
  ASSUME events' = events
  PROVE  /\ Physics' = Physics /\ LastBlock' = LastBlock /\ EndIsKnown' = EndIsKnown
         /\ \A k : BlockOf(k)' = BlockOf(k)
         /\ \A b : PhysicsIn(b)' = PhysicsIn(b)
  BY DEF Physics, LastBlock, Total, EndIsKnown, BlockOf, PhysicsIn, Starts

\* A search begins with a range that has the event; or above all numbers of the file.
LEMMA SearchBegins ==
  ASSUME SearchParameters, SearchInv, NEW n \in 0 .. MaxNum, NEW len \in Buflens, evSearch(n, len)
  PROVE  SearchInv'
<1>1. /\ phase = "idle" /\ evn' = n /\ buflen' = len /\ n \in Nat /\ len \in Nat
      /\ UNCHANGED <<events, ebk, last_evn, found_bk, found_evn, misread>>
      /\ searches' = searches + 1 /\ buffer' = <<>> /\ cut' = FALSE
  BY DEF evSearch, book, SearchParameters
<1>2. /\ n > last_evn => result' = -1 /\ phase' = "idle" /\ UNCHANGED <<start, end, mid>>
      /\ ~(n > last_evn) =>
           /\ phase' = "search" /\ start' = SearchRange(n)[1] /\ end' = SearchRange(n)[2]
           /\ mid' = Half(SearchRange(n)[1] + SearchRange(n)[2])
  BY DEF evSearch
<1>3. /\ events \in Files /\ ebk \in Nat /\ found_bk \in Int /\ found_evn \in Int /\ last_evn \in Int
      /\ mid \in Nat /\ start \in Nat /\ end \in Int /\ searches \in Nat /\ misread \in BOOLEAN
  BY DEF SearchInv, SearchTypeInv
<1>4. PICK lo \in Nat, hi \in Int :
        /\ SearchRange(n)[1] = lo /\ SearchRange(n)[2] = hi
        /\ found_bk < 0 => lo = 0 /\ hi = ebk
        /\ ~(found_bk < 0) /\ n >= found_evn => lo = found_bk /\ hi = ebk
        /\ ~(found_bk < 0) /\ ~(n >= found_evn) => lo = 0 /\ hi = found_bk
  <2>1. SearchRange(n) = IF found_bk < 0 THEN <<0, ebk>>
                           ELSE IF n >= found_evn THEN <<found_bk, ebk>> ELSE <<0, found_bk>>
    BY DEF SearchRange, Sbk
  <2>2. CASE found_bk < 0
    BY <1>3, <2>1, <2>2
  <2>3. CASE ~(found_bk < 0) /\ n >= found_evn
    BY <1>3, <2>1, <2>3
  <2>4. CASE ~(found_bk < 0) /\ ~(n >= found_evn)
    BY <1>3, <2>1, <2>4
  <2> QED
    BY <2>2, <2>3, <2>4
<1>5. SearchTypeInv'
  <2>1. Half(lo + hi) \in Nat
    BY DEF Half
  <2>2. mid' \in Nat /\ start' \in Nat /\ end' \in Int /\ phase' # "open" /\ searches' \in Nat
    BY <1>1, <1>2, <1>3, <1>4, <2>1
  <2> QED
    BY <1>1, <1>3, <2>2 DEF SearchTypeInv
<1>6. EndIsKnown' => SearchEndInv'
  <2>1. phase # "open" /\ phase' # "open"
    BY <1>1, <1>2
  <2> QED
    BY <1>1, <2>1, FileKept DEF SearchInv, SearchEndInv
<1>7. ~misread' => LastFoundInv'
  BY <1>1, FileKept DEF SearchInv, LastFoundInv
<1>8. ASSUME EndIsKnown', ~misread' PROVE RangeInv' /\ AbsentInv'
  <2>1. /\ ebk = LastBlock /\ \A k \in Physics : events[k].num <= last_evn
        /\ found_bk >= 0 => \E j \in PhysicsIn(found_bk) : events[j].num = found_evn
    BY <1>1, <1>8, FileKept DEF SearchInv, SearchEndInv, LastFoundInv
  <2>2. CASE n > last_evn
    <3>1. \A k \in Physics : events[k].num # n
      <4> SUFFICES ASSUME NEW k \in Physics, events[k].num = n PROVE FALSE
        OBVIOUS
      <4>1. n <= last_evn
        BY <2>1
      <4> QED
        BY <1>1, <1>3, <2>2, <4>1
    <3>2. phase' = "idle"
      BY <1>2, <2>2
    <3> QED
      BY <1>1, <3>1, <3>2, FileKept DEF RangeInv, AbsentInv
  <2>3. CASE ~(n > last_evn)
    <3>1. phase' = "search" /\ start' = lo /\ end' = hi
      BY <1>2, <1>4, <2>3
    <3>2. ASSUME NEW k \in Physics, events[k].num = n PROVE BlockOf(k) \in lo .. hi
      <4>1. BlockOf(k) \in 0 .. ebk
        BY <1>3, <2>1, PhysicsOrder
      <4>2. CASE found_bk < 0
        BY <1>4, <4>1, <4>2
      <4>3. CASE ~(found_bk < 0)
        <5>1. PICK j \in Physics : events[j].num = found_evn /\ BlockOf(j) = found_bk
          BY <1>3, <2>1, <4>3, PhysicsInIs
        <5>2. j \in Nat /\ k \in Nat /\ found_evn \in Nat
          BY <1>3, <5>1, PhysicsOrder
        <5>3. CASE n >= found_evn
          <6>1. j <= k
            <7>1. found_evn < n \/ found_evn = n
              BY <1>1, <5>2, <5>3
            <7> QED
              BY <1>3, <3>2, <5>1, <5>2, <7>1, PhysicsOrder
          <6>2. found_bk <= BlockOf(k)
            BY <1>3, <5>1, <6>1, PhysicsOrder
          <6> QED
            BY <1>3, <1>4, <4>1, <4>3, <5>3, <6>2
        <5>4. CASE ~(n >= found_evn)
          <6>1. k <= j
            <7>1. n < found_evn
              BY <1>1, <5>2, <5>4
            <7>2. k < j
              BY <1>3, <3>2, <5>1, <7>1, PhysicsOrder
            <7> QED
              BY <5>2, <7>2
          <6>2. BlockOf(k) <= found_bk
            BY <1>3, <5>1, <6>1, PhysicsOrder
          <6> QED
            BY <1>3, <1>4, <4>1, <4>3, <5>4, <6>2
        <5> QED
          BY <5>3, <5>4
      <4> QED
        BY <4>2, <4>3
    <3> QED
      BY <1>1, <3>1, <3>2, FileKept DEF RangeInv, AbsentInv
  <2> QED
    BY <2>2, <2>3
<1> QED
  BY <1>5, <1>6, <1>7, <1>8 DEF SearchInv

\* A turn of the loop leaves no block out in which the event begins.
LEMMA ProbeStep ==
  ASSUME SearchParameters, SearchInv, Probe
  PROVE  SearchInv'
<1>1. /\ phase = "search" /\ UNCHANGED <<events, evn, buflen, ebk, last_evn, searches>>
      /\ mid' \in Nat /\ misread' \in BOOLEAN /\ cut' \in BOOLEAN
      /\ (~misread' => ~misread) /\ (~cut' => ~cut)
  BY ProbeIs DEF SearchInv
<1>2. /\ events \in Files /\ events' \in Files /\ evn \in Nat /\ start \in Nat /\ end \in Int
      /\ found_bk \in Int /\ found_evn \in Int
  BY <1>1 DEF SearchInv, SearchTypeInv
<1>3. CASE phase' = "exit" /\ UNCHANGED <<start, end, found_bk, found_evn, result, buffer>>
  <2>1. SearchTypeInv'
    BY <1>1, <1>3 DEF SearchInv, SearchTypeInv
  <2>2. (EndIsKnown' => SearchEndInv') /\ (~misread' => LastFoundInv')
    BY <1>1, <1>3, FileKept DEF SearchInv, SearchEndInv, LastFoundInv
  <2>3. RangeInv' /\ AbsentInv'
    BY <1>3 DEF RangeInv, AbsentInv
  <2> QED
    BY <2>1, <2>2, <2>3 DEF SearchInv
<1>4. ASSUME NEW b \in Nat, NEW k \in Nat, k \in Starts(b),
             ~misread' => events[k].phys /\ \A j \in PhysicsIn(b) : k <= j,
             Below(b, k) \/ Above(b, k) \/ Taken(b, k)
      PROVE  SearchInv'
  <2>1. ~misread' => k \in Physics /\ BlockOf(k) = b
    BY <1>4 DEF Starts, Physics
  <2>2. ASSUME ~misread', EndIsKnown, NEW j \in Physics, events[j].num = evn, phase' = "search", ~cut'
        PROVE  BlockOf(j) \in start .. end
    BY <1>1, <2>2 DEF SearchInv, RangeInv
  <2>3. CASE Below(b, k)
    <3>1. events[k].num > evn /\ start' = start /\ end' = b - 1 /\ UNCHANGED <<phase, found_bk, found_evn, result, buffer>>
      BY <2>3 DEF Below
    <3>2. SearchTypeInv'
      BY <1>1, <1>2, <3>1 DEF SearchInv, SearchTypeInv
    <3>3. (EndIsKnown' => SearchEndInv') /\ (~misread' => LastFoundInv')
      BY <1>1, <3>1, FileKept DEF SearchInv, SearchEndInv, LastFoundInv
    <3>4. ASSUME EndIsKnown', ~misread', ~cut', NEW j \in Physics, events[j].num = evn
          PROVE  BlockOf(j) \in start' .. end'
      <4>1. BlockOf(j) \in start .. end /\ BlockOf(j) \in Nat
        <5>1. EndIsKnown /\ phase' = "search"
          BY <1>1, <3>1, <3>4, FileKept
        <5>2. BlockOf(j) \in start .. end
          BY <2>2, <3>4, <5>1
        <5>3. BlockOf(j) \in 0 .. LastBlock /\ LastBlock \in Nat
          BY <1>2, <3>4, PhysicsOrder, BlocksAre
        <5> QED
          BY <5>2, <5>3
      <4>2. k \in Physics /\ BlockOf(k) = b /\ j \in Nat
        BY <1>2, <2>1, <3>4, PhysicsOrder
      <4>3. j < k
        <5>1. events[j].num < events[k].num
          BY <1>2, <3>1, <3>4, <4>2, PhysicsOrder
        <5> QED
          BY <1>2, <4>2, <5>1, PhysicsOrder
      <4>4. BlockOf(j) <= b
        BY <1>2, <4>2, <4>3, PhysicsOrder
      <4>5. BlockOf(j) # b
        BY <1>4, <3>4, <4>2, <4>3, PhysicsInIs
      <4>6. PICK x \in Int : x = BlockOf(j)
        BY <4>1
      <4>7. start <= x /\ x <= end /\ x <= b /\ x # b
        BY <1>2, <4>1, <4>4, <4>5, <4>6
      <4>8. x \in start .. b - 1
        BY <1>2, <4>7
      <4> QED
        BY <3>1, <4>6, <4>8
    <3>5. EndIsKnown' /\ ~misread' => RangeInv' /\ AbsentInv'
      BY <1>1, <3>1, <3>4, FileKept DEF RangeInv, AbsentInv
    <3> QED
      BY <3>2, <3>3, <3>5 DEF SearchInv
  <2>4. CASE Above(b, k)
    <3>1. /\ ~cut' => /\ ~(events[k].num > evn)
                      /\ \A j \in Starts(b) : j >= k /\ (j = k \/ events[j].phys) => events[j].num # evn
          /\ start' = b + 1 /\ end' = end /\ UNCHANGED <<phase, found_bk, found_evn, result, buffer>>
      BY <2>4 DEF Above
    <3>2. SearchTypeInv'
      BY <1>1, <1>2, <3>1 DEF SearchInv, SearchTypeInv
    <3>3. (EndIsKnown' => SearchEndInv') /\ (~misread' => LastFoundInv')
      BY <1>1, <3>1, FileKept DEF SearchInv, SearchEndInv, LastFoundInv
    <3>4. ASSUME EndIsKnown', ~misread', ~cut', NEW j \in Physics, events[j].num = evn
          PROVE  BlockOf(j) \in start' .. end'
      <4>1. BlockOf(j) \in start .. end /\ BlockOf(j) \in Nat
        <5>1. EndIsKnown /\ phase' = "search"
          BY <1>1, <3>1, <3>4, FileKept
        <5>2. BlockOf(j) \in start .. end
          BY <2>2, <3>4, <5>1
        <5>3. BlockOf(j) \in 0 .. LastBlock /\ LastBlock \in Nat
          BY <1>2, <3>4, PhysicsOrder, BlocksAre
        <5> QED
          BY <5>2, <5>3
      <4>2. k \in Physics /\ BlockOf(k) = b /\ j \in Nat /\ events[k].num \in Nat
        BY <1>2, <2>1, <3>4, PhysicsOrder
      <4>3. events[k].num # evn
        BY <1>4, <3>1, <3>4
      <4>4. k < j
        <5>1. events[k].num < events[j].num
          BY <1>2, <3>1, <3>4, <4>2, <4>3
        <5> QED
          BY <1>2, <4>2, <5>1, PhysicsOrder
      <4>5. b <= BlockOf(j)
        BY <1>2, <4>2, <4>4, PhysicsOrder
      <4>6. BlockOf(j) # b
        <5> SUFFICES ASSUME BlockOf(j) = b PROVE FALSE
          OBVIOUS
        <5>1. j \in Starts(b) /\ events[j].phys
          BY DEF Starts, Physics
        <5> QED
          BY <3>1, <3>4, <4>2, <4>4, <5>1
      <4>7. PICK x \in Int : x = BlockOf(j)
        BY <4>1
      <4>8. start <= x /\ x <= end /\ b <= x /\ x # b
        BY <1>2, <4>1, <4>5, <4>6, <4>7
      <4>9. x \in b + 1 .. end
        BY <1>2, <4>8
      <4> QED
        BY <3>1, <4>7, <4>9
    <3>5. EndIsKnown' /\ ~misread' => RangeInv' /\ AbsentInv'
      BY <1>1, <3>1, <3>4, FileKept DEF RangeInv, AbsentInv
    <3> QED
      BY <3>2, <3>3, <3>5 DEF SearchInv
  <2>5. CASE Taken(b, k)
    <3>1. PICK j \in Starts(b) : events[j].num = evn /\ (j = k \/ events[j].phys)
      BY <2>5 DEF Taken
    <3>2. phase' = "idle" /\ result' = 0 /\ found_bk' = b /\ found_evn' = evn /\ UNCHANGED <<start, end>>
      BY <2>5 DEF Taken
    <3>3. SearchTypeInv'
      BY <1>1, <1>2, <3>2 DEF SearchInv, SearchTypeInv
    <3>4. EndIsKnown' => SearchEndInv'
      BY <1>1, <3>2, FileKept DEF SearchInv, SearchEndInv
    <3>5. ~misread' => LastFoundInv'
      <4>1. ~misread' => j \in PhysicsIn(b)
        BY <1>4, <3>1 DEF PhysicsIn
      <4> QED
        BY <1>1, <3>1, <3>2, <4>1, FileKept DEF LastFoundInv
    <3>6. RangeInv' /\ AbsentInv'
      BY <3>2 DEF RangeInv, AbsentInv
    <3> QED
      BY <3>3, <3>4, <3>5, <3>6 DEF SearchInv
  <2> QED
    BY <1>4, <2>3, <2>4, <2>5
<1> QED
  BY <1>3, <1>4, ProbeIs DEF SearchInv

\* An empty range has no block in which the event could begin.
LEMMA NotFoundStep ==
  ASSUME SearchParameters, SearchInv, NotFound
  PROVE  SearchInv'
<1>1. /\ phase = "search" /\ start > end /\ phase' = "idle" /\ result' = 1 /\ found_bk' = -1
      /\ UNCHANGED <<events, ebk, last_evn, found_evn, evn, buflen, start, end, mid, buffer, searches, misread, cut>>
  BY DEF NotFound, search
<1>2. SearchTypeInv'
  BY <1>1 DEF SearchInv, SearchTypeInv
<1>3. (EndIsKnown' => SearchEndInv') /\ LastFoundInv' /\ RangeInv'
  BY <1>1, FileKept DEF SearchInv, SearchEndInv, LastFoundInv, RangeInv
<1>4. ASSUME EndIsKnown', ~misread', ~cut', NEW k \in Physics, events[k].num = evn PROVE FALSE
  <2>1. BlockOf(k) \in start .. end
    BY <1>1, <1>4, FileKept DEF SearchInv, RangeInv
  <2> QED
    BY <1>1, <2>1 DEF SearchInv, SearchTypeInv
<1>5. EndIsKnown' /\ ~misread' => AbsentInv'
  BY <1>1, <1>4, FileKept DEF AbsentInv
<1> QED
  BY <1>2, <1>3, <1>5 DEF SearchInv

LEMMA SearchBegin ==
  ASSUME SearchParameters, SearchInit
  PROVE  SearchInv
<1>1. /\ events \in Files /\ phase = "open" /\ ebk = 0 /\ last_evn = 0 /\ found_bk = -1 /\ found_evn = -1
      /\ evn = 0 /\ buflen = 0 /\ start = 0 /\ end = 0 /\ mid = 0
      /\ result = 0 /\ buffer = <<>> /\ searches = 0 /\ misread = FALSE /\ cut = FALSE
  BY DEF SearchInit
<1>2. /\ evn \in Nat /\ mid \in Nat /\ start \in Nat /\ end \in Int /\ buflen \in Nat
      /\ ebk \in Nat /\ last_evn \in Int /\ searches \in Nat
  BY <1>1
<1>3. found_bk \in Int /\ found_evn \in Int /\ ~(found_bk >= 0)
  BY <1>1
<1>4. misread \in BOOLEAN /\ cut \in BOOLEAN
  BY <1>1
<1>5. SearchTypeInv
  BY <1>1, <1>2, <1>3, <1>4 DEF SearchTypeInv
<1> QED
  BY <1>1, <1>3, <1>5 DEF SearchInv, SearchEndInv, LastFoundInv, RangeInv, AbsentInv

LEMMA SearchStep ==
  ASSUME SearchParameters, SearchInv, [SearchNext]_searchVars
  PROVE  SearchInv'
<1>1. CASE UNCHANGED searchVars
  <2>1. UNCHANGED <<events, phase, left, ebk, last_evn, found_bk, found_evn, evn, buflen, start, end, mid, result,
                    buffer, searches, misread, cut>>
    BY <1>1 DEF searchVars, book, search
  <2> QED
    BY <2>1, FileKept DEF SearchInv, SearchTypeInv, SearchEndInv, LastFoundInv, RangeInv, AbsentInv
<1>2. CASE SearchNext
  BY <1>1, <1>2, OpenStep, SearchBegins, ProbeStep, NotFoundStep DEF SearchNext, Done
<1> QED
  BY <1>1, <1>2

\* Whatever the file, when physics events are numbered in order: what evOpenSearch
\* returns is the largest number if a physics event begins in the last block, and
\* evSearch then fails only for a number that the file does not have, whatever was
\* found before and whichever way blocks were passed by (evio.c:618-822).
THEOREM AbsentIfNotFound == SearchSpec => []NotFoundIsAbsent
<1> USE SearchAssumption
<1>1. SearchInit => SearchInv
  BY SearchBegin
<1>2. SearchInv /\ [SearchNext]_searchVars => SearchInv'
  BY SearchStep
<1>3. SearchInv => NotFoundIsAbsent
  <2> SUFFICES ASSUME SearchInv PROVE NotFoundIsAbsent
    OBVIOUS
  <2>1. phase # "open" /\ EndIsKnown => \A k \in Physics : last_evn >= events[k].num
    <3> SUFFICES ASSUME phase # "open", EndIsKnown, NEW k \in Physics PROVE last_evn >= events[k].num
      OBVIOUS
    <3>1. events[k].num <= last_evn /\ last_evn \in Int /\ events \in Files
      BY DEF SearchInv, SearchTypeInv, SearchEndInv
    <3>2. events[k].num \in Nat
      BY <3>1, PhysicsOrder
    <3> QED
      BY <3>1, <3>2
  <2>2. phase = "idle" /\ searches > 0 /\ result # 0 /\ EndIsKnown /\ ~misread /\ ~cut =>
          \A k \in Physics : events[k].num # evn
    BY DEF SearchInv, AbsentInv
  <2> QED
    BY <2>1, <2>2 DEF NotFoundIsAbsent
<1> QED
  BY <1>1, <1>2, <1>3, PTL DEF SearchSpec

(***************************************************************************)
(* The words of an event                                                   *)
(***************************************************************************)

LEMMA InFileIs ==
  ASSUME SearchParameters, NEW q \in Nat, NEW r \in 0 .. B - 1
  PROVE  InFile(q * B + r) = q * (B + HDSIZ) + HDSIZ + r
<1>1. B \in Nat \ {0}
  BY DEF SearchParameters
<1> QED
  BY <1>1, DivisionUnique DEF InFile

LEMMA InFileType ==
  ASSUME SearchParameters, NEW x \in Nat
  PROVE  InFile(x) \in Nat
<1>1. B \in Nat \ {0}
  BY DEF SearchParameters
<1>2. PICK q \in Nat, r \in Nat : q = x \div B /\ r = x % B
  BY <1>1, DivisionIs
<1>3. B + 8 \in Nat /\ q * (B + 8) \in Nat
  BY <1>1
<1> QED
  BY <1>2, <1>3 DEF InFile, HDSIZ

\* The words from position x on
WordsFrom(x, n) == [j \in 1 .. n |-> InFile(x + j - 1)]

\* Words read from one place of the file, in one block
LEMMA ReadIs ==
  ASSUME SearchParameters, NEW q \in Nat, NEW r \in 0 .. B - 1, NEW n \in 0 .. B - r
  PROVE  Read(q * (B + HDSIZ) + HDSIZ + r, n) = WordsFrom(q * B + r, n)
<1>1. B \in Nat \ {0}
  BY DEF SearchParameters
<1>2. PICK p \in Nat, x \in Nat : p = q * (B + HDSIZ) + HDSIZ /\ x = q * B
  BY <1>1 DEF HDSIZ
<1>3. ASSUME NEW j \in 1 .. n PROVE (p + r) + j - 1 = InFile((x + r) + j - 1)
  <2>1. r + (j - 1) \in 0 .. B - 1
    BY <1>1
  <2>2. InFile(q * B + (r + (j - 1))) = q * (B + HDSIZ) + HDSIZ + (r + (j - 1))
    BY <2>1, InFileIs
  <2>3. (x + r) + j - 1 = x + (r + (j - 1)) /\ (p + r) + j - 1 = p + (r + (j - 1))
    BY <1>1
  <2> QED
    BY <1>2, <2>2, <2>3
<1>4. q * (B + HDSIZ) + HDSIZ + r = p + r /\ q * B + r = x + r
  BY <1>2
<1> QED
  BY <1>3, <1>4 DEF Read, WordsFrom

\* Words that follow others
LEMMA WordsJoin ==
  ASSUME SearchParameters, NEW x \in Nat, NEW m \in Nat, NEW n \in Nat
  PROVE  WordsFrom(x, m) \o WordsFrom(x + m, n) = WordsFrom(x, m + n)
<1> DEFINE s == WordsFrom(x, m)
           t == WordsFrom(x + m, n)
           u == WordsFrom(x, m + n)
<1>1. s \in Seq(Nat) /\ t \in Seq(Nat) /\ u \in Seq(Nat) /\ Len(s) = m /\ Len(t) = n /\ Len(u) = m + n
  <2>1. \A y, k \in Nat : WordsFrom(y, k) \in Seq(Nat) /\ Len(WordsFrom(y, k)) = k
    <3> HIDE DEF s, t, u
    <3> SUFFICES ASSUME NEW y \in Nat, NEW k \in Nat
                 PROVE  WordsFrom(y, k) \in Seq(Nat) /\ Len(WordsFrom(y, k)) = k
      OBVIOUS
    <3>1. \A j \in 1 .. k : InFile(y + j - 1) \in Nat
      BY InFileType
    <3> QED
      BY <3>1 DEF WordsFrom
  <2>2. x + m \in Nat /\ m + n \in Nat
    OBVIOUS
  <2> QED
    BY <2>1, <2>2
<1>2. \A j \in 1 .. m : s[j] = u[j]
  BY DEF WordsFrom
<1>3. ASSUME NEW j \in m + 1 .. m + n PROVE t[j - m] = u[j]
  <2>1. j - m \in 1 .. n /\ (x + m) + (j - m) - 1 = x + j - 1 /\ j \in 1 .. m + n
    OBVIOUS
  <2> QED
    BY <2>1 DEF WordsFrom
<1> HIDE DEF s, t, u
<1>4. s \o t \in Seq(Nat) /\ Len(s \o t) = m + n
  BY <1>1, ConcatProperties
<1>5. ASSUME NEW j \in 1 .. m + n PROVE (s \o t)[j] = u[j]
  <2>1. CASE j <= m
    BY <1>1, <1>2, <2>1, ConcatProperties
  <2>2. CASE ~(j <= m)
    <3>1. j \in m + 1 .. m + n /\ (s \o t)[j] = t[j - m]
      BY SMTT(30), <1>1, <2>2, ConcatProperties
    <3> QED
      BY <1>3, <3>1
  <2> QED
    BY <2>1, <2>2
<1>6. s \o t = u
  <2>1. \A z \in Seq(Nat) : z = [j \in 1 .. Len(z) |-> z[j]]
    OBVIOUS
  <2>2. s \o t = [j \in 1 .. m + n |-> (s \o t)[j]] /\ u = [j \in 1 .. m + n |-> u[j]]
    BY <1>1, <1>4, <2>1
  <2> QED
    BY <1>5, <2>2
<1> QED
  BY <1>6 DEF s, t, u

\* The loop of copySingleEvent: n words from the block q on
LEMMA ReadOnIs ==
  ASSUME SearchParameters, NEW q \in Nat, NEW n \in Nat
  PROVE  ReadOn(q * (B + HDSIZ), n) = WordsFrom(q * B, n)
<1>1. B \in Nat \ {0}
  BY DEF SearchParameters
<1> DEFINE turns == (n + B - 1) \div B
           pos == q * (B + HDSIZ)
           x == q * B
           ncopy(i) == IF i * B < n THEN B ELSE n - (i - 1) * B
           upto(i) == IF i * B < n THEN i * B ELSE n
           block(i) == Read(pos + (i - 1) * (B + HDSIZ) + HDSIZ, ncopy(i))
           Does(h) == h = [i \in 0 .. turns |-> IF i = 0 THEN <<>> ELSE h[i - 1] \o block(i)]
           on == CHOOSE h : Does(h)
           words == [i \in 0 .. turns |-> WordsFrom(x, upto(i))]
<1>2. turns \in Nat /\ turns * B <= n + B - 1 /\ n <= turns * B
  <2>1. PICK m \in Nat : m = n + B - 1
    BY <1>1
  <2>2. PICK d \in Nat, r \in Nat : d = m \div B /\ r = m % B /\ r < B /\ m = d * B + r
    BY <1>1, DivisionIs
  <2>3. d * B \in Nat
    BY <1>1
  <2>4. d * B <= n + B - 1 /\ n <= d * B
    BY <1>1, <2>1, <2>2, <2>3
  <2> QED
    BY <2>1, <2>2, <2>4
<1>3. x \in Nat /\ pos \in Nat
  BY <1>1 DEF HDSIZ
<1>4. ASSUME NEW i \in 1 .. turns
      PROVE  WordsFrom(x, upto(i - 1)) \o block(i) = WordsFrom(x, upto(i))
  <2>1. PICK p \in Nat : p = i - 1
    BY <1>2
  <2>2. p < i /\ i <= turns /\ i \in Nat /\ i = p + 1 /\ turns \in Nat
    BY <1>2, <2>1
  <2>3. p * B \in Nat /\ i * B = p * B + B /\ p * B < n
    <3>1. p * B \in Nat /\ i * B = p * B + B
      BY <1>1, <2>2
    <3>2. i = turns \/ i < turns
      BY <2>2
    <3>3. i * B <= turns * B
      <4>1. CASE i = turns
        BY <1>1, <2>2, <4>1
      <4>2. CASE i < turns
        <5>1. i * B + B <= turns * B
          BY <1>1, <2>2, <4>2, ProductGrows
        <5>2. i * B \in Nat /\ turns * B \in Nat
          BY <1>1, <2>2
        <5> HIDE DEF turns
        <5> QED
          BY <1>1, <5>1, <5>2
      <4> QED
        BY <3>2, <4>1, <4>2
    <3>4. turns * B \in Nat
      BY <1>1, <1>2
    <3> HIDE DEF turns
    <3> QED
      BY <1>1, <1>2, <3>1, <3>3, <3>4
  <2>4. upto(i - 1) = p * B
    BY <2>1, <2>3
  <2>5. ncopy(i) \in 0 .. B /\ p * B + ncopy(i) = upto(i)
    <3>1. PICK y \in Nat : y = p * B
      BY <2>3
    <3>2. ncopy(i) = (IF y + B < n THEN B ELSE n - y) /\ upto(i) = (IF y + B < n THEN y + B ELSE n) /\ y < n
      BY <2>1, <2>3, <3>1
    <3> HIDE DEF ncopy, upto
    <3> QED
      BY <1>1, <3>1, <3>2
  <2>6. block(i) = WordsFrom(x + p * B, ncopy(i))
    <3>1. q + p \in Nat /\ 0 \in 0 .. B - 1 /\ ncopy(i) \in 0 .. B - 0
      BY <1>1, <2>5
    <3>2. /\ pos + (i - 1) * (B + HDSIZ) + HDSIZ = (q + p) * (B + HDSIZ) + HDSIZ + 0
          /\ (q + p) * B + 0 = x + p * B
      BY <1>1, <2>1 DEF HDSIZ
    <3> HIDE DEF ncopy, pos, x
    <3>3. Read((q + p) * (B + HDSIZ) + HDSIZ + 0, ncopy(i)) = WordsFrom((q + p) * B + 0, ncopy(i))
      BY <3>1, ReadIs
    <3> QED
      BY <3>2, <3>3
  <2> HIDE DEF ncopy, upto, block, x
  <2>7. WordsFrom(x, p * B) \o WordsFrom(x + p * B, ncopy(i)) = WordsFrom(x, p * B + ncopy(i))
    <3>1. ncopy(i) \in Nat
      BY <1>1, <2>5
    <3> QED
      BY ZenonT(30), <1>3, <2>3, <3>1, WordsJoin
  <2> QED
    BY <2>4, <2>5, <2>6, <2>7
<1>5. Does(words)
  <2>1. words[0] = <<>>
    <3>1. upto(0) = 0 /\ 0 \in 0 .. turns
      BY <1>1, <1>2
    <3>2. WordsFrom(x, 0) = <<>>
      BY DEF WordsFrom
    <3> HIDE DEF upto, turns, x
    <3> QED
      BY <3>1, <3>2
  <2>2. ASSUME NEW i \in 0 .. turns, i # 0 PROVE words[i] = words[i - 1] \o block(i)
    <3>1. i \in 1 .. turns /\ i - 1 \in 0 .. turns
      BY <1>2, <2>2
    <3>2. words[i] = WordsFrom(x, upto(i)) /\ words[i - 1] = WordsFrom(x, upto(i - 1))
      BY <3>1
    <3> HIDE DEF words, upto, block, turns, x
    <3> QED
      BY <1>4, <3>1, <3>2
  <2>3. words = [i \in 0 .. turns |-> words[i]]
    OBVIOUS
  <2> HIDE DEF words, upto, block, turns, x
  <2> QED
    BY <2>1, <2>2, <2>3
<1>6. Does(on)
  <2> HIDE DEF Does, words
  <2> QED
    BY <1>5
<1>7. ReadOn(pos, n) = on[turns]
  BY DEF ReadOn
<1> HIDE DEF on
<1>8. \A i \in 0 .. turns : on[i] = words[i]
  <2> DEFINE Z == {i \in 0 .. turns : on[i] = words[i]}
  <2>1. on[0] = <<>> /\ words[0] = <<>> /\ \A i \in 1 .. turns : on[i] = on[i - 1] \o block(i) /\ words[i] = words[i - 1] \o block(i)
    <3>1. 0 \in 0 .. turns /\ \A i \in 1 .. turns : i \in 0 .. turns /\ i # 0
      BY <1>2
    <3> HIDE DEF words, block, turns
    <3> QED
      BY <1>5, <1>6, <3>1
  <2>2. 0 \in Z
    BY <1>2, <2>1
  <2>3. \A i \in 0 .. turns - 1 : i \in Z => i + 1 \in Z
    <3> SUFFICES ASSUME NEW i \in 0 .. turns - 1, on[i] = words[i] PROVE on[i + 1] = words[i + 1] /\ i + 1 \in 0 .. turns
      OBVIOUS
    <3>1. i + 1 \in 1 .. turns /\ (i + 1) - 1 = i /\ i + 1 \in 0 .. turns
      BY <1>2
    <3> HIDE DEF words, block, turns
    <3> QED
      BY <2>1, <3>1
  <2> HIDE DEF words, block, turns
  <2>4. \A i \in 0 .. turns : i \in Z
    <3> HIDE DEF Z
    <3> QED
      BY <1>2, <2>2, <2>3, UpTo
  <2> QED
    BY <2>4
<1>9. words[turns] = WordsFrom(x, n)
  <2>1. turns \in 0 .. turns /\ ~(turns * B < n)
    <3>1. PICK y \in Nat : y = turns * B
      BY <1>1, <1>2
    <3> HIDE DEF turns
    <3> QED
      BY <1>2, <3>1
  <2>2. upto(turns) = n
    BY <2>1
  <2> HIDE DEF upto, turns, x
  <2> QED
    BY <2>1, <2>2
<1> QED
  BY SMTT(30), <1>2, <1>7, <1>8, <1>9

\* An event that the buffer has room for is copied whole.
LEMMA CopyIs ==
  ASSUME SearchParameters, events \in Files, NEW k \in DOMAIN events, NEW len \in Nat, events[k].size <= len
  PROVE  copySingleEvent(k, len) = WordsFrom(events[k].pos, events[k].size)
<1>1. B \in Nat \ {0}
  BY DEF SearchParameters
<1>2. PICK x \in Nat, size \in Nat : x = events[k].pos /\ size = events[k].size
  BY EventsAre
<1>3. PICK q \in Nat, r \in Nat : q = x \div B /\ r = x % B /\ r < B /\ x = q * B + r
  BY <1>1, DivisionIs
<1>4. B \in Nat /\ r < B /\ B - r \in Nat
  <2>1. r < B
    BY <1>3
  <2> QED
    BY <1>1, <2>1
<1>5. BlockOf(k) = q /\ InFile(x) = q * (B + HDSIZ) + HDSIZ + r
  BY <1>2, <1>3 DEF BlockOf, InFile
<1>6. PICK last \in Nat, u \in Nat :
        /\ LastBlock = last /\ u < B /\ q <= last /\ Total = last * B + u
        /\ Used(q) = IF q < last THEN B ELSE u
  <2>1. Total \in Nat
    BY EventsAre DEF Total
  <2>2. LastBlock \in Nat /\ Total % B \in Nat /\ Total % B < B /\ Total = LastBlock * B + (Total % B)
    BY <1>1, <2>1, DivisionIs DEF LastBlock
  <2>3. q <= LastBlock
    BY <1>5, BlocksAre
  <2> QED
    BY <2>2, <2>3 DEF Used
<1>7. x + size <= Total
  <2>1. Len(events) \in DOMAIN events /\ k <= Len(events) /\ k \in Int /\ Len(events) \in Int
    BY EventsAre
  <2>2. k < Len(events) => x + size <= events[Len(events)].pos
    BY <1>2, <2>1, EventsFollow
  <2>3. PICK y \in Nat, z \in Nat : y = events[Len(events)].pos /\ z = events[Len(events)].size
    BY <2>1, EventsAre
  <2>4. k = Len(events) => x = y /\ size = z
    BY <1>2, <2>3
  <2>5. k = Len(events) \/ k < Len(events)
    BY <2>1
  <2> QED
    BY <2>2, <2>3, <2>4, <2>5 DEF Total
<1>8. From(k) = Used(q) - r /\ After(k) = (Used(q) - r) - size
  BY <1>2, <1>3, <1>5 DEF From, After
<1>9. q = last => r + size <= u
  <2> SUFFICES ASSUME q = last PROVE r + size <= u
    OBVIOUS
  <2>1. PICK y \in Nat : y = q * B
    BY <1>1
  <2>2. y + r + size <= y + u
    BY <1>3, <1>6, <1>7, <2>1
  <2> QED
    BY <2>1, <2>2
<1>10. CASE After(k) < 0
  <2>1. q < last /\ Used(q) = B /\ B - r < size
    <3>1. q # last
      <4> SUFFICES ASSUME q = last PROVE FALSE
        OBVIOUS
      <4>1. Used(q) = u /\ r + size <= u
        BY <1>6, <1>9
      <4>2. (u - r) - size < 0
        BY <1>8, <1>10, <4>1
      <4> QED
        BY <4>1, <4>2
    <3>2. q < last /\ Used(q) = B
      BY <1>6, <3>1
    <3> QED
      <4>1. (B - r) - size < 0
        BY <1>8, <1>10, <3>2
      <4> QED
        BY <1>4, <3>2, <4>1
  <2>2. PICK here \in Nat, more \in Nat : here = B - r /\ more = size - here /\ here < size
    <3>1. B - r \in Nat /\ size - (B - r) \in Nat
      BY <1>4, <2>1
    <3> QED
      BY <2>1, <3>1
  <2>3. size + After(k) = here
    BY <1>1, <1>8, <2>1, <2>2
  <2>4. copySingleEvent(k, len) = Read(InFile(x), here) \o ReadOn(InFile(x) + here, more)
    <3>1. ~(len < size)
      BY <1>2
    <3> QED
      BY <1>2, <1>10, <2>2, <2>3, <3>1 DEF copySingleEvent
  <2>5. Read(InFile(x), here) = WordsFrom(x, here)
    <3>1. r \in 0 .. B - 1 /\ here \in 0 .. B - r
      BY <1>1, <1>3, <2>2
    <3> QED
      BY <1>3, <1>5, <3>1, ReadIs
  <2>6. InFile(x) + here = (q + 1) * (B + HDSIZ) /\ x + here = (q + 1) * B
    <3>1. q * (B + 8) \in Nat /\ q * B \in Nat /\ (q + 1) * (B + 8) = q * (B + 8) + B + 8 /\ (q + 1) * B = q * B + B
      BY <1>1
    <3> QED
      BY <1>1, <1>3, <1>5, <2>2, <3>1 DEF HDSIZ
  <2>7. ReadOn(InFile(x) + here, more) = WordsFrom(x + here, more)
    BY <2>6, ReadOnIs
  <2>8. WordsFrom(x, here) \o WordsFrom(x + here, more) = WordsFrom(x, here + more)
    BY ZenonT(30), WordsJoin
  <2>9. here + more = size
    BY <2>2
  <2> QED
    BY <1>2, <2>4, <2>5, <2>7, <2>8, <2>9
<1>11. CASE ~(After(k) < 0)
  <2>1. copySingleEvent(k, len) = Read(InFile(x), size)
    BY <1>2, <1>11 DEF copySingleEvent
  <2>2. r \in 0 .. B - 1 /\ size \in 0 .. B - r
    <3>1. Used(q) \in Nat /\ Used(q) <= B
      BY <1>1, <1>6
    <3> QED
      <4>1. PICK v \in Nat : v = Used(q) /\ v <= B
        BY <3>1
      <4>2. ~((v - r) - size < 0)
        BY <1>8, <1>11, <4>1
      <4> QED
        BY <1>4, <4>1, <4>2
  <2>3. Read(InFile(x), size) = WordsFrom(x, size)
    BY <1>3, <1>5, <2>2, ReadIs
  <2> QED
    BY <1>2, <2>1, <2>3
<1> QED
  BY <1>10, <1>11

\* A turn of the loop that finds the event leaves all of it in the buffer.
LEMMA WholeStep ==
  ASSUME SearchParameters, SearchInv, FoundIsWhole, [SearchNext]_searchVars
  PROVE  FoundIsWhole'
<1>1. CASE Probe
  <2>1. /\ UNCHANGED <<events, evn, buflen>> /\ buffer = <<>> /\ events \in Files /\ buflen \in Nat
    BY <1>1, ProbeIs DEF SearchInv, SearchTypeInv
  <2>2. CASE buffer' = buffer
    BY <2>1, <2>2 DEF FoundIsWhole
  <2>3. CASE buffer' # buffer
    <3>1. PICK b \in Nat, k \in Nat :
            /\ k \in Starts(b)
            /\ ~misread' => events[k].phys /\ \A j \in PhysicsIn(b) : k <= j
            /\ Taken(b, k)
      BY <1>1, <2>3, ProbeIs DEF SearchInv, Below, Above
    <3>2. PICK j \in Starts(b) :
            /\ events[j].num = evn /\ (j = k \/ events[j].phys) /\ events[j].size <= buflen
            /\ buffer' = <<j, copySingleEvent(j, buflen)>>
      BY <3>1 DEF Taken
    <3>3. j \in DOMAIN events
      BY DEF Starts
    <3>4. copySingleEvent(j, buflen) = WordsFrom(events[j].pos, events[j].size)
      BY <2>1, <3>2, <3>3, CopyIs
    <3>5. buffer'[1] = j /\ buffer'[2] = [i \in 1 .. events[j].size |-> InFile(events[j].pos + i - 1)]
      BY <3>2, <3>4 DEF WordsFrom
    <3>6. ~misread' => events[j].phys
      BY <3>1, <3>2
    <3>7. \A y : InFile(y)' = InFile(y)
      BY DEF InFile
    <3> QED
      BY <2>1, <3>2, <3>5, <3>6, <3>7 DEF FoundIsWhole
  <2> QED
    BY <2>2, <2>3
<1>2. CASE evOpenSearch
  <2>1. buffer' = <<>>
    BY <1>2 DEF evOpenSearch, SearchInv, SearchTypeInv
  <2> QED
    BY <2>1 DEF FoundIsWhole
<1>3. ASSUME NEW n \in 0 .. MaxNum, NEW len \in Buflens, evSearch(n, len) PROVE FoundIsWhole'
  <2>1. buffer' = <<>>
    BY <1>3 DEF evSearch
  <2> QED
    BY <2>1 DEF FoundIsWhole
<1>4. CASE NotFound
  <2>1. buffer' = <<>>
    BY <1>4 DEF NotFound, SearchInv, SearchTypeInv
  <2> QED
    BY <2>1 DEF FoundIsWhole
<1>5. CASE UNCHANGED searchVars
  <2>1. UNCHANGED <<events, phase, buffer, evn, misread>>
    BY <1>5 DEF searchVars, search
  <2> QED
    BY <2>1 DEF FoundIsWhole, InFile
<1> QED
  BY <1>1, <1>2, <1>3, <1>4, <1>5 DEF SearchNext, Done

\* Whatever the file and the searches before: when evSearch returns 0 the buffer has an
\* event of the number that was asked for, all its words and none of a block's header,
\* and a physics event if no type was read where it is not (evio.c:835-1094).
THEOREM WholeWhenFound == SearchSpec => []FoundIsWhole
<1> USE SearchAssumption
<1>1. SearchInit => SearchInv /\ FoundIsWhole
  <2>1. SearchInit => FoundIsWhole
    BY DEF SearchInit, FoundIsWhole
  <2> QED
    BY <2>1, SearchBegin
<1>2. SearchInv /\ FoundIsWhole /\ [SearchNext]_searchVars => (SearchInv /\ FoundIsWhole)'
  BY SearchStep, WholeStep
<1> QED
  BY <1>1, <1>2, PTL DEF SearchSpec
=============================================================================
