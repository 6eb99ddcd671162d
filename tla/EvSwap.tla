------------------------------- MODULE EvSwap -------------------------------
(***************************************************************************)
(* Byte swapping of a CODA event on a machine of the other byte order      *)
(* (CODA/swap_util.c).  The event is a tree of banks, segments and packets *)
(* over data of several widths; swapped_memcpy walks through it in units   *)
(* of 16 bits and decides for each how its bytes are exchanged.            *)
(*                                                                         *)
(* A source is a sequence of half words: a header is a record where it     *)
(* begins, everything else is its data type or "".  The result says of     *)
(* each half word, up to where the walk ended, how it was copied: "int" as *)
(* half of a 32 bit word, "short" or "raw".                                *)
(***************************************************************************)
EXTENDS Integers, Sequences, SequencesExt

BANK == 16     \* 0x10
SEGMENT == 32  \* 0x20

Ints == {0, 1, 2, 9, 15}
Shorts == {4, 5, 48, 52, 53}
Raws == {3, 6, 7, 54, 55}
Longs == {8, 10}

(***************************************************************************)
(* The walk.  how has an entry for each half word so far, so that its      *)
(* length k is i of the code; head is lk.head_pos and kind lk.type; type is*)
(* that of the data, and open the stack of containers [end, type].         *)
(***************************************************************************)

How(type) == CASE type \in Ints -> "int" [] type \in Shorts -> "short" [] type \in Raws -> "raw"
               [] type \in Longs -> "short"

Copied(how, n, w) == how \o [j \in 1 .. n |-> w]

\* Containers that end at k are left.
RECURSIVE Leave(_, _)
Leave(open, k) == IF open # <<>> /\ Last(open).end = k THEN Leave(Front(open), k) ELSE open

InnerEnd(k, size) == k + 2 * (size + 1)

\* A header at k, of the kind that the container it is in holds
BankHeader(src, w) ==
  LET k == Len(w.how)
      size == src[k + 1].size
      type == src[k + 3].type
      inner == type >= BANK
  IN [w EXCEPT !.how = Copied(@, 4, "int"),
               !.open = IF inner THEN Append(@, [end |-> InnerEnd(k, size), type |-> type]) ELSE @,
               !.type = IF inner THEN @ ELSE type,
               !.head = IF inner THEN k + 4 ELSE InnerEnd(k, size)]

SegmentHeader(src, w) ==
  LET k == Len(w.how)
      size == src[k + 1].size
      type == src[k + 1].type
      inner == type >= SEGMENT
  IN [w EXCEPT !.how = Copied(@, 2, "int"),
               !.open = IF inner THEN Append(@, [end |-> InnerEnd(k, size), type |-> type]) ELSE @,
               !.type = IF inner THEN @ ELSE type,
               !.head = IF inner THEN k + 2 ELSE InnerEnd(k, size)]

\* Slip: the data keep the type of those before.
PacketOfOldType(src, w) ==
  LET k == Len(w.how)
  IN [w EXCEPT !.how = Copied(@, 1, "short"), !.head = k + 1 + src[k + 1].size]
PacketHeader(src, w) ==
  LET k == Len(w.how)
      size == src[k + 1].size
  IN [w EXCEPT !.how = Copied(@, 1, "short"),
               !.type = IF size = 0 THEN @ ELSE w.kind,
               !.head = k + 1 + size]

\* The data up to the next header.  A type that is not known is reported for ever.
Data(w) ==
  IF w.type \in Ints \cup Shorts \cup Raws \cup Longs
    THEN [w EXCEPT !.how = Copied(@, w.head - Len(@), How(w.type))]
    ELSE [w EXCEPT !.hangs = TRUE]

Step(src, w0) ==
  LET w == [w0 EXCEPT !.open = Leave(@, Len(w0.how))]
      kind == IF w.open = <<>> THEN w.kind ELSE Last(w.open).type
      h == [w EXCEPT !.kind = kind]
  IN IF Len(w.how) # w.head THEN Data(w)
     ELSE CASE kind = BANK -> BankHeader(src, h)
            [] kind = SEGMENT -> SegmentHeader(src, h)
            [] OTHER -> PacketHeader(src, h)

RECURSIVE Walk(_, _, _)
Walk(src, w, limit) == IF w.hangs \/ Len(w.how) >= limit THEN w ELSE Walk(src, Step(src, w), limit)

\* The event's own header.  Only an event of banks is walked to its last word;
\* for any other, the loop ends one word short.
swapped_memcpy(src) ==
  LET ev_size == src[1].size
      ev_type == src[3].type
      wrapped == ev_type >= BANK
  IN Walk(src,
          [how |-> Copied(<<>>, 4, "int"), hangs |-> FALSE,
           kind |-> ev_type, type |-> ev_type,
           head |-> IF wrapped THEN 4 ELSE 2 * ev_size + 2,
           open |-> IF wrapped THEN <<[end |-> 2 * (ev_size + 1), type |-> ev_type]>> ELSE <<>>],
          IF ev_type = BANK THEN 2 * (ev_size + 1) ELSE 2 * ev_size)

(***************************************************************************)
(* Events as trees: a bank or a segment holds nodes or half words of data, *)
(* a packet holds half words.                                              *)
(***************************************************************************)

Container(type) == type >= BANK

RECURSIVE Flat(_, _)
\* The half words of the node t inside a container of the given type
Flat(kind, t) ==
  LET body == IF Container(t.type) THEN FlattenSeq([j \in DOMAIN t.parts |-> Flat(t.type, t.parts[j])])
              ELSE [j \in 1 .. t.data |-> t.type]
  IN CASE kind = BANK -> <<[size |-> 1 + Len(body) \div 2], "", [type |-> t.type], "">> \o body
       [] kind = SEGMENT -> <<[size |-> Len(body) \div 2, type |-> t.type], "">> \o body
       [] OTHER -> <<[size |-> t.data]>> \o [j \in 1 .. t.data |-> kind]

\* How its half words have to be copied
RECURSIVE Needs(_, _)
Needs(kind, t) ==
  LET body == IF Container(t.type) THEN FlattenSeq([j \in DOMAIN t.parts |-> Needs(t.type, t.parts[j])])
              ELSE [j \in 1 .. t.data |-> IF t.type \in Longs THEN "long" ELSE How(t.type)]
  IN CASE kind = BANK -> <<"int", "int", "int", "int">> \o body
       [] kind = SEGMENT -> <<"int", "int">> \o body
       [] OTHER -> <<"short">> \o [j \in 1 .. t.data |-> How(kind)]
=============================================================================
