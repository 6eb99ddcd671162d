------------------------------- MODULE EvFile -------------------------------
(***************************************************************************)
(* The CODA event file (CODA/evio.c): one program writes events through    *)
(* evOpen("w"), evWrite and evClose; another reads them with evOpen("r")   *)
(* and evRead, from a complete file or from a pipe while it is written.    *)
(*                                                                         *)
(* A file is a sequence of blocks of BlkSiz words, each with a header of   *)
(* EV_HDSIZ words.  An event is buffer[0]+1 words long and may begin       *)
(* anywhere in a block and span several.  A word of a file is modelled by  *)
(* the event it belongs to and its offset in it: [ev |-> n, off |-> k] is  *)
(* the word buffer[k] of the n-th event written (off 0 is the length       *)
(* word), and ev 0 stands for a word of a block header.                    *)
(*                                                                         *)
(* The loops of evWrite and evRead are modelled one iteration per step, so *)
(* that the writer may be interrupted between two blocks of one event.     *)
(***************************************************************************)
EXTENDS Integers, Sequences, FiniteSetsExt

CONSTANTS
  EV_HDSIZ,    \* words in a block header (8 in the code)
  BlkSiz,      \* words in a block, header included (EVBLOCKSIZE = 8192)
  BufLen,      \* the buflen the reader passes to evRead
  Lens,        \* possible values of the length word buffer[0]
  MaxEvents    \* bound on the number of evWrite calls

ASSUME SizesAssumption ==
  /\ EV_HDSIZ \in Nat \ {0}
  /\ BlkSiz \in Nat /\ BlkSiz > EV_HDSIZ
  /\ BufLen \in Nat \ {0}
ASSUME LensAssumption == Lens \subseteq Nat
ASSUME MaxEventsAssumption == MaxEvents \in Nat

VARIABLES
  written,     \* buffer[0] of each event passed to evWrite, in order
  begin,       \* history: where in the data stream each event begins
  stream,      \* the writer's file: "open", "closed" by evClose, or "cut"
  wnleft,      \* nleft of the evWrite in progress; 0 between calls
  wnext,       \* a->next - a->buf
  wleft,       \* a->left
  wblknum,     \* a->blknum
  wevnum,      \* a->evnum
  wstart,      \* a->buf[EV_HD_START]
  wdata,       \* the words a->buf[EV_HDSIZ .. next-1]
  file,        \* the blocks fwritten so far
  rstate,      \* reader: "unopened", "idle", "copying" (in evRead), "ended"
  rstatus,     \* the last status evOpen or evRead returned
  rblk,        \* the block in the reader's a->buf
  rpos,        \* blocks of file that the reader has read
  rnext,       \* a->next - a->buf
  rleft,       \* a->left
  rblknum,     \* a->blknum
  rnleft,      \* nleft of the evRead in progress
  rtrunc,      \* its status variable is S_EVFILE_TRUNC
  rbuf,        \* words put in the caller's buffer by the evRead in progress
  results      \* the word sequences delivered with S_SUCCESS

wvars == <<written, begin, stream, wnleft, wnext, wleft, wblknum, wevnum, wstart,
           wdata, file>>
rvars == <<rstate, rstatus, rblk, rpos, rnext, rleft, rblknum, rnleft, rtrunc,
           rbuf, results>>
vars == <<wvars, rvars>>

Payload == BlkSiz - EV_HDSIZ       \* words of event data a block can hold

\* Words first .. first+k-1 of event n
Chunk(n, first, k) == [i \in 1..k |-> [ev |-> n, off |-> first + i - 1]]

EventWords(n, len) == Chunk(n, 0, len + 1)

\* Word i of a block image: the header, then the data
WordAt(b, i) ==
  IF i < EV_HDSIZ THEN [ev |-> 0, off |-> i] ELSE b.data[i - EV_HDSIZ + 1]

\* The value of a word taken for an event's length: header word 0 is BLKSIZ
LengthIn(w) == IF w.ev = 0 THEN BlkSiz ELSE written[w.ev]

NoBlock == [blknum |-> 0, start |-> 0, used |-> 0, resvd |-> 0, data |-> <<>>]

(***************************************************************************)
(* The writer                                                              *)
(***************************************************************************)

\* evFlush, called with the contents of the buffer: fwrite the block with
\* USED and RESVD set, then start a new one.
evFlush(next, data) ==
  /\ file' = Append(file, [blknum |-> wblknum, start |-> wstart, used |-> next,
                           resvd |-> wevnum, data |-> data])
  /\ wblknum' = wblknum + 1
  /\ wstart' = 0
  /\ wnext' = EV_HDSIZ
  /\ wleft' = BlkSiz - EV_HDSIZ
  /\ wdata' = <<>>

\* Entry of evWrite, up to its loop.
evWrite(len) ==
  /\ stream = "open" /\ wnleft = 0
  /\ Len(written) < MaxEvents
  /\ wstart' = IF wstart = 0 THEN wnext ELSE wstart
  /\ wevnum' = wevnum + 1
  /\ wnleft' = len + 1
  /\ written' = Append(written, len)
  /\ begin' = Append(begin, wblknum * Payload + wnext - EV_HDSIZ)
  /\ UNCHANGED <<stream, wnext, wleft, wblknum, wdata, file, rvars>>

\* The data in the buffer once k more words of the current event are copied.
Copied(k) ==
  wdata \o Chunk(Len(written), written[Len(written)] + 1 - wnleft, k)

\* Slip: every evWrite ends with a flush.
evWriteRestFlush ==
  /\ stream = "open" /\ wnleft > 0
  /\ wnleft < wleft
  /\ evFlush(wnext + wnleft, Copied(wnleft))
  /\ wnleft' = 0
  /\ UNCHANGED <<written, begin, stream, wevnum, rvars>>

\* Last iteration of evWrite: the rest of the event leaves room in the block.
evWriteRest ==
  /\ stream = "open" /\ wnleft > 0
  /\ wnleft < wleft
  /\ wdata' = Copied(wnleft)
  /\ wnext' = wnext + wnleft
  /\ wleft' = wleft - wnleft
  /\ wnleft' = 0
  /\ UNCHANGED <<written, begin, stream, wblknum, wevnum, wstart, file, rvars>>

\* An iteration of evWrite that fills the block, and therefore flushes it.
evWriteFill ==
  /\ stream = "open" /\ wnleft > 0
  /\ wnleft >= wleft
  /\ evFlush(wnext + wleft, Copied(wleft))
  /\ wnleft' = wnleft - wleft
  /\ UNCHANGED <<written, begin, stream, wevnum, rvars>>

\* Slip: evClose flushes only a block in which an event begins.
evCloseIfStart ==
  /\ stream = "open" /\ wnleft = 0
  /\ IF wstart # 0 THEN evFlush(wnext, wdata)
     ELSE UNCHANGED <<file, wblknum, wstart, wnext, wleft, wdata>>
  /\ stream' = "closed"
  /\ UNCHANGED <<written, begin, wnleft, wevnum, rvars>>

\* evClose of a file being written flushes whatever the buffer holds.
evClose ==
  /\ stream = "open" /\ wnleft = 0
  /\ evFlush(wnext, wdata)
  /\ stream' = "closed"
  /\ UNCHANGED <<written, begin, wnleft, wevnum, rvars>>

\* The writing program dies: what it has not flushed never reaches the file.
WriterDies ==
  /\ stream = "open"
  /\ stream' = "cut"
  /\ UNCHANGED <<written, begin, wnleft, wnext, wleft, wblknum, wevnum, wstart, wdata,
                 file, rvars>>

(***************************************************************************)
(* The reader.  Every caller in the repository (evtest, syncfilter,        *)
(* g_get_next_event) stops reading a file at the first nonzero status.     *)
(***************************************************************************)

Fail(status) ==
  /\ rstate' = "ended"
  /\ rstatus' = status

\* evOpen("r"): read the first block, begin at its first event.
evOpen ==
  /\ rstate = "unopened" /\ Len(file) > 0
  /\ rblk' = file[1]
  /\ rpos' = 1
  /\ rnext' = file[1].start
  /\ rleft' = file[1].used - file[1].start
  /\ rblknum' = file[1].blknum
  /\ rstate' = "idle"
  /\ UNCHANGED <<wvars, rstatus, rnleft, rtrunc, rbuf, results>>

\* No block ever comes: the magic word of the header is not EV_MAGIC.
evOpenBadFile ==
  /\ rstate = "unopened" /\ file = <<>> /\ stream # "open"
  /\ Fail("BADFILE")
  /\ UNCHANGED <<wvars, rblk, rpos, rnext, rleft, rblknum, rnleft, rtrunc,
                 rbuf, results>>

\* evRead, or its loop, needs a word and the block has none left.
NeedsBlock == rstate \in {"idle", "copying"} /\ rleft <= 0

\* Slip: reading goes on at the block's first event, as evOpen does.
evGetNewBufferAtStart ==
  /\ NeedsBlock /\ rpos < Len(file)
  /\ LET b == file[rpos + 1]
         left == b.used - b.start
     IN /\ rblk' = b
        /\ rnext' = b.start
        /\ rleft' = left
        /\ rblknum' = rblknum + 1
        /\ rpos' = rpos + 1
        /\ IF left <= 0 THEN Fail("UNXPTDEOF")
                        ELSE UNCHANGED <<rstate, rstatus>>
  /\ UNCHANGED <<wvars, rnleft, rtrunc, rbuf, results>>

\* evGetNewBuffer with a block in the file: state is updated even when the
\* status is an error.
evGetNewBuffer ==
  /\ NeedsBlock /\ rpos < Len(file)
  /\ LET b == file[rpos + 1]
         status == IF b.used - EV_HDSIZ <= 0 THEN "UNXPTDEOF"
                   ELSE IF b.blknum # rblknum + 1 THEN "BADBLOCK" ELSE "SUCCESS"
     IN /\ rblk' = b
        /\ rnext' = EV_HDSIZ
        /\ rleft' = b.used - EV_HDSIZ
        /\ rblknum' = rblknum + 1
        /\ rpos' = rpos + 1
        /\ IF status = "SUCCESS" THEN UNCHANGED <<rstate, rstatus>>
                                 ELSE Fail(status)
  /\ UNCHANGED <<wvars, rnleft, rtrunc, rbuf, results>>

\* Slip: only a file that was closed has an end.
evGetNewBufferEofIfClosed ==
  /\ NeedsBlock /\ rpos = Len(file) /\ stream = "closed"
  /\ Fail("EOF")
  /\ UNCHANGED <<wvars, rblk, rpos, rnext, rleft, rblknum, rnleft, rtrunc,
                 rbuf, results>>

\* evGetNewBuffer at the end of the file (fread waits while a pipe is open).
evGetNewBufferEof ==
  /\ NeedsBlock /\ rpos = Len(file) /\ stream # "open"
  /\ Fail("EOF")
  /\ UNCHANGED <<wvars, rblk, rpos, rnext, rleft, rblknum, rnleft, rtrunc,
                 rbuf, results>>

\* Slip: the length word is taken for the whole length (it is exclusive).
evReadExclusive ==
  /\ rstate = "idle" /\ rleft > 0
  /\ LET nleft == LengthIn(WordAt(rblk, rnext))
     IN /\ rtrunc' = (nleft >= BufLen)
        /\ rnleft' = IF nleft < BufLen THEN nleft ELSE BufLen
  /\ rstate' = "copying"
  /\ rbuf' = <<>>
  /\ UNCHANGED <<wvars, rstatus, rblk, rpos, rnext, rleft, rblknum, results>>

\* evRead reads the length word and decides how much to copy.
evRead ==
  /\ rstate = "idle" /\ rleft > 0
  /\ LET nleft == LengthIn(WordAt(rblk, rnext)) + 1
     IN /\ rtrunc' = (nleft >= BufLen)
        /\ rnleft' = IF nleft < BufLen THEN nleft ELSE BufLen
  /\ rstate' = "copying"
  /\ rbuf' = <<>>
  /\ UNCHANGED <<wvars, rstatus, rblk, rpos, rnext, rleft, rblknum, results>>

\* ncopy words from the block to the caller's buffer.
CopyOut(ncopy) ==
  /\ rbuf' = rbuf \o [i \in 1..ncopy |-> WordAt(rblk, rnext + i - 1)]
  /\ rnleft' = rnleft - ncopy
  /\ rnext' = rnext + ncopy
  /\ rleft' = rleft - ncopy

\* An iteration of evRead's loop that does not complete the event.
evReadPart ==
  /\ rstate = "copying" /\ rleft > 0
  /\ rnleft > rleft
  /\ CopyOut(rleft)
  /\ UNCHANGED <<wvars, rstate, rstatus, rblk, rpos, rblknum, rtrunc, results>>

\* The last iteration, and the return of evRead.
evReadReturn ==
  /\ rstate = "copying" /\ rleft > 0
  /\ rnleft <= rleft
  /\ CopyOut(rnleft)
  /\ IF rtrunc
     THEN Fail("TRUNC") /\ UNCHANGED results
     ELSE /\ rstate' = "idle"
          /\ rstatus' = "SUCCESS"
          /\ results' = Append(results, rbuf')
  /\ UNCHANGED <<wvars, rblk, rpos, rblknum, rtrunc>>

(***************************************************************************)
(* The specification                                                       *)
(***************************************************************************)

\* The state after evOpen("w") has created the file.
Init ==
  /\ written = <<>>
  /\ begin = <<>>
  /\ stream = "open"
  /\ wnleft = 0
  /\ wnext = EV_HDSIZ
  /\ wleft = BlkSiz - EV_HDSIZ
  /\ wblknum = 0
  /\ wevnum = 0
  /\ wstart = 0
  /\ wdata = <<>>
  /\ file = <<>>
  /\ rstate = "unopened"
  /\ rstatus = "SUCCESS"
  /\ rblk = NoBlock
  /\ rpos = 0
  /\ rnext = 0
  /\ rleft = 0
  /\ rblknum = 0
  /\ rnleft = 0
  /\ rtrunc = FALSE
  /\ rbuf = <<>>
  /\ results = <<>>

WriterNext ==
  \/ \E len \in Lens : evWrite(len)
  \/ evWriteRest
  \/ evWriteFill
  \/ evClose

ReaderNext ==
  \/ evOpen
  \/ evOpenBadFile
  \/ evGetNewBuffer
  \/ evGetNewBufferEof
  \/ evRead
  \/ evReadPart
  \/ evReadReturn

Next == WriterNext \/ WriterDies \/ ReaderNext

\* Both programs run until they end or die: a call once begun goes on, and the
\* reader keeps reading.
Fairness ==
  /\ WF_vars(evWriteRest \/ evWriteFill)
  /\ WF_vars(ReaderNext)

Spec == Init /\ [][Next]_vars

FairSpec == Spec /\ Fairness

(***************************************************************************)
(* Properties                                                              *)
(***************************************************************************)

\* Each variable has its type.  The statuses are those of evfile_msg.h that
\* these calls return.
Word == [ev : Nat, off : Nat]

BlockType == [blknum : Nat, start : Nat, used : Nat, resvd : Nat,
              data : Seq(Word)]

WriterTypeOK ==
  /\ written \in Seq(Lens)
  /\ begin \in Seq(Nat)
  /\ stream \in {"open", "closed", "cut"}
  /\ wnleft \in Nat
  /\ wnext \in Nat
  /\ wleft \in Nat
  /\ wblknum \in Nat
  /\ wevnum \in Nat
  /\ wstart \in Nat
  /\ wdata \in Seq(Word)
  /\ file \in Seq(BlockType)

ReaderTypeOK ==
  /\ rstate \in {"unopened", "idle", "copying", "ended"}
  /\ rstatus \in {"SUCCESS", "TRUNC", "BADFILE", "BADBLOCK", "UNXPTDEOF", "EOF"}
  /\ rblk \in BlockType
  /\ rpos \in Nat
  /\ rnext \in Nat
  /\ rleft \in Nat
  /\ rblknum \in Nat
  /\ rnleft \in Nat
  /\ rtrunc \in BOOLEAN
  /\ rbuf \in Seq(Word)
  /\ results \in Seq(Seq(Word))

TypeOK == WriterTypeOK /\ ReaderTypeOK

\* Every block that is followed by another is full, so an event that spans
\* blocks has no gap in it: only the block evClose flushes may be short.
OnlyLastBlockShort ==
  \A i \in DOMAIN file :
    i < Len(file) => file[i].used = BlkSiz /\ Len(file[i].data) = Payload

\* When the reader is stopped by the end of a file that was closed properly, it
\* has received every event, whatever status told it (the status is UNXPTDEOF
\* when the last event happened to fill its block).
EndIsComplete ==
  /\ rstatus \in {"EOF", "UNXPTDEOF"} /\ stream = "closed"
       => Len(results) = Len(written)
  /\ rstatus # "BADBLOCK"

\* When the writer dies, the reader still gets every event all of whose words
\* reached the file, and nothing of the event that was cut.
FlushedSurvive ==
  rstatus = "EOF" =>
    \A n \in DOMAIN written :
      n <= Len(results) <=>
        \E i \in DOMAIN file : \E k \in DOMAIN file[i].data :
          file[i].data[k] = [ev |-> n, off |-> written[n]]

\* The reader sees what EventQueue promises.
Q == INSTANCE EventQueue WITH
       Events <- {EventWords(n, len) : n \in 1..MaxEvents, len \in Lens},
       sent <- [n \in DOMAIN written |-> EventWords(n, written[n])],
       got <- results,
       finished <- (rstate = "ended")

QueueSpec == Q!Spec

(***************************************************************************)
(* The inductive invariant behind them (proved in EvioProofs).             *)
(***************************************************************************)

\* Position in the data stream of word k of block i, when blocks 1..i-1 are full
StreamPos(i, k) == (i - 1) * Payload + k - 1

\* The data of block i, when event n is lens[n]+1 words from position begins[n]
InPlace(data, i, lens, begins) ==
  \A k \in DOMAIN data :
    /\ data[k].ev \in DOMAIN lens
    /\ data[k].off <= lens[data[k].ev]
    /\ begins[data[k].ev] + data[k].off = StreamPos(i, k)

WriterInv ==
  /\ wnext + wleft = BlkSiz /\ wleft > 0
  /\ Len(wdata) = wnext - EV_HDSIZ
  /\ wstart = 0 \/ wstart \in EV_HDSIZ..wnext
  /\ file = <<>> => wstart = IF written = <<>> THEN 0 ELSE EV_HDSIZ
  /\ wevnum = Len(written)
  /\ wblknum = Len(file)
  /\ Len(begin) = Len(written)
  /\ wnleft > 0 => Len(written) > 0 /\ wnleft <= written[Len(written)] + 1
  /\ InPlace(wdata, Len(file) + 1, written, begin)

\* The events tile the stream, and the writer is where the last one has got to.
TilingInv ==
  /\ \A n \in DOMAIN begin : n = 1 => begin[n] = 0
  /\ \A n \in DOMAIN begin :
       n > 1 => begin[n] = begin[n - 1] + written[n - 1] + 1
  /\ \A m, n \in DOMAIN begin : m < n => begin[m] + written[m] < begin[n]
  /\ stream = "open" =>
       StreamPos(Len(file) + 1, Len(wdata) + 1) =
         IF written = <<>> THEN 0
         ELSE begin[Len(written)] + written[Len(written)] + 1 - wnleft

FileInv ==
  \A i \in DOMAIN file :
    /\ file[i].blknum = i - 1
    /\ Len(file[i].data) = file[i].used - EV_HDSIZ
    /\ EV_HDSIZ <= file[i].used /\ file[i].used <= BlkSiz
    /\ file[i].start = 0 \/ file[i].start \in EV_HDSIZ..file[i].used
    /\ i < Len(file) \/ stream # "closed" => file[i].used = BlkSiz
    /\ i = 1 => file[i].start = IF written = <<>> THEN 0 ELSE EV_HDSIZ
    /\ InPlace(file[i].data, i, written, begin)

\* A closed file ends where the last event ends.
ClosedInv ==
  /\ written = <<>> /\ file # <<>> => stream = "closed"
  /\ stream = "closed" =>
      /\ file # <<>>
      /\ StreamPos(Len(file), Len(file[Len(file)].data) + 1) =
           IF written = <<>> THEN 0
           ELSE begin[Len(written)] + written[Len(written)] + 1

\* Where the event being read begins, or the next one when none is being read
ReadingFrom ==
  IF Len(results) = 0 THEN 0
  ELSE begin[Len(results)] + written[Len(results)] + 1

ReaderInv ==
  /\ rpos <= Len(file)
  /\ rpos = 0 => rstate \in {"unopened", "ended"}
  /\ rstate = "unopened" => rpos = 0
  /\ rpos = 0 => results = <<>>
  /\ rpos > 0 => /\ rblk = file[rpos]
                 /\ rblknum = rpos - 1
                 /\ rnext + rleft = rblk.used /\ rleft >= 0
                 /\ written = <<>> => stream = "closed"
  /\ Len(results) <= Len(written)
  /\ \A k \in DOMAIN results : results[k] = EventWords(k, written[k])
  /\ written # <<>> /\ rstate \in {"idle", "copying"} =>
       /\ rnext >= EV_HDSIZ
       /\ StreamPos(rpos, rnext - EV_HDSIZ + 1) =
            ReadingFrom + IF rstate = "idle" THEN 0 ELSE Len(rbuf)
  /\ written # <<>> /\ rstate = "copying" =>
       /\ Len(results) < Len(written)
       /\ rnleft > 0
       /\ rbuf = Chunk(Len(results) + 1, 0, Len(rbuf))
       /\ rnleft + Len(rbuf) <= written[Len(results) + 1] + 1
       /\ ~rtrunc => rnleft + Len(rbuf) = written[Len(results) + 1] + 1
  /\ written = <<>> /\ rstate = "idle" => rnext = 0
  /\ written = <<>> /\ rstate = "copying" =>
       /\ rnleft > 0
       /\ ~rtrunc => rnleft > rleft

\* Once the writer has closed the file or died, the reader's loop ends.
ReaderEnds == (stream # "open") ~> (rstate = "ended")
=============================================================================
