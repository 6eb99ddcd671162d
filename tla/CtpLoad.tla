------------------------------ MODULE CtpLoad ------------------------------
(***************************************************************************)
(* thLoad (src/CTP/thLoad.c): a setup file is read line by line; the lines *)
(* from a "begin" to the matching "end" become the title of the variable   *)
(* block.TYPE.NAME, and the block is put in the groups its begin line      *)
(* names.  A file may be included anywhere, between blocks or inside one;  *)
(* the open files are a stack (thFdListP).  Two things are static in the   *)
(* program and stay from a block to the next: that stack, and the array of *)
(* group names.                                                            *)
(***************************************************************************)
EXTENDS Naturals, Sequences, SequencesExt

CONSTANTS
  Lines,      \* the lines that a file may have
  Texts,      \* the possible sets of files: a file is a sequence of lines
  Depth,      \* how far files include files that include files
  MaxGroups,  \* bound: the array of group names, which the code lets grow
  MaxFiles    \* bound: calls of thLoad

\* No file includes itself, at once or by way of others: thLoad would not return.
ASSUME FilesAssumption ==
  /\ Depth \in Nat
  /\ \A files \in Texts :
       /\ \A f \in DOMAIN files : files[f] \in Seq(Lines)
       /\ \E level \in [DOMAIN files -> 0 .. Depth] :
            \A f \in DOMAIN files : \A i \in DOMAIN files[f] :
              files[f][i].k = "include" /\ files[f][i].file \in DOMAIN files
                => level[files[f][i].file] < level[f]

\* The array has room for a name for each token, the group "all" and an end.
ASSUME GroupsAssumption ==
  /\ MaxGroups \in Nat \ {0, 1}
  /\ \A line \in Lines : line.k = "begin" =>
       DOMAIN line.toks = 1 .. Len(line.toks) /\ Len(line.toks) \in 0 .. MaxGroups - 1

\* What a file may hold, a token of a begin line after the name of the block
\* being a group ("group=g"), a "group" without "=" or another word.
Begin(block, toks) == [k |-> "begin", block |-> block, toks |-> toks]
End(type) == [k |-> "end", type |-> type]
Include(file) == [k |-> "include", file |-> file]
Text(x) == [k |-> "text", x |-> x]
Group(g) == [k |-> "group", name |-> g]
BareGroup == [k |-> "group", name |-> "none"]
Word == [k |-> "word"]

Null == <<>>
AllGroup(type) == <<type, "all">>
DefaultGroup(type) == <<type, "default">>

VARIABLES
  content,   \* the files
  stack,     \* thFdListP: the open files, the current one first, and where they are
  mode,      \* "idle", "scan" (for a begin), "body", "register", or "crashed"
  text,      \* start: the lines of the block so far
  block,     \* blockname, with thistype: <<type, name>>
  groups,    \* the array of group names, kept from block to block
  titles,    \* the title of each block variable
  lists,     \* the blocklist of each group variable
  loaded     \* history: the files given to thLoad

loadVars == <<content, stack, mode, text, block, groups, titles, lists, loaded>>

LoadInit ==
  /\ content \in Texts
  /\ stack = <<>> /\ mode = "idle" /\ text = <<>> /\ block = Null
  /\ groups = [i \in 0 .. MaxGroups |-> Null]
  /\ titles = [b \in {} |-> <<>>] /\ lists = [g \in {} |-> <<>>]
  /\ loaded = <<>>

AtEnd == Head(stack).at > Len(content[Head(stack).file])
Line == content[Head(stack).file][Head(stack).at]
Advanced == [stack EXCEPT ![1].at = @ + 1]

myopen(file, open) == <<[file |-> file, at |-> 1]>> \o open
myclose(open) == Tail(open)

\* A file that cannot be opened leaves no file to read from
do_include(file) ==
  IF file \in DOMAIN content
  THEN stack' = myopen(file, Advanced) /\ UNCHANGED mode
  ELSE stack' = Advanced /\ mode' = "crashed"

\* thLoad opens the file
thLoad(file) ==
  /\ mode = "idle" /\ Len(loaded) < MaxFiles
  /\ stack' = myopen(file, stack)
  /\ mode' = "scan"
  /\ loaded' = Append(loaded, file)
  /\ UNCHANGED <<content, text, block, groups, titles, lists>>

\* The scan of the tokens for group names, ig being the next place of the array.
\* A token "group" without "=" takes a place and leaves what is there.
Scanned(old, type, toks) ==
  LET scan[n \in 0 .. Len(toks)] ==
        IF n = 0 THEN [names |-> [old EXCEPT ![0] = AllGroup(type)], ig |-> 1]
        ELSE IF toks[n].k # "group" THEN scan[n - 1]
        ELSE [names |-> IF toks[n] = BareGroup THEN scan[n - 1].names
                        ELSE [scan[n - 1].names EXCEPT ![scan[n - 1].ig] = <<type, toks[n].name>>],
              ig |-> scan[n - 1].ig + 1]
  IN scan[Len(toks)]

\* (slip) the array is not cut after the last name
NotCut(old, type, toks) ==
  IF toks = <<>> THEN [old EXCEPT ![0] = AllGroup(type), ![1] = DefaultGroup(type)]
  ELSE Scanned(old, type, toks).names

\* The group names of a begin line
NamedGroups(old, type, toks) ==
  IF toks = <<>>
  THEN [old EXCEPT ![0] = AllGroup(type), ![1] = DefaultGroup(type), ![2] = Null]
  ELSE [Scanned(old, type, toks).names EXCEPT ![Scanned(old, type, toks).ig] = Null]

\* getblock, looking for a begin
ScanBegin ==
  /\ mode = "scan" /\ ~AtEnd /\ Line.k = "begin"
  /\ block' = Line.block
  /\ groups' = NamedGroups(groups, Line.block[1], Line.toks)
  /\ text' = <<Line>>
  /\ stack' = Advanced
  /\ mode' = "body"
  /\ UNCHANGED <<content, titles, lists, loaded>>

ScanOther ==
  /\ mode = "scan" /\ ~AtEnd /\ Line.k # "begin"
  /\ IF Line.k = "include" THEN do_include(Line.file) ELSE stack' = Advanced /\ UNCHANGED mode
  /\ UNCHANGED <<content, text, block, groups, titles, lists, loaded>>

\* The file above goes on, or the load is over
ScanEnd ==
  /\ mode = "scan" /\ AtEnd
  /\ stack' = myclose(stack)
  /\ mode' = IF stack' = <<>> THEN "idle" ELSE "scan"
  /\ UNCHANGED <<content, text, block, groups, titles, lists, loaded>>

\* getblock, inside a block: only the end of a block of this type ends it
BodyInclude ==
  /\ mode = "body" /\ ~AtEnd /\ Line.k = "include"
  /\ do_include(Line.file)
  /\ UNCHANGED <<content, text, block, groups, titles, lists, loaded>>

\* (slip) the end of any block ends this one
AnyEnd(line) == line.k = "end"
EndsBlock(line) == line.k = "end" /\ line.type = block[1]

BodyLine ==
  /\ mode = "body" /\ ~AtEnd /\ Line.k # "include"
  /\ text' = Append(text, Line)
  /\ stack' = Advanced
  /\ mode' = IF EndsBlock(Line) THEN "register" ELSE "body"
  /\ UNCHANGED <<content, block, groups, titles, lists, loaded>>

\* A block goes on after the end of an included file.  The end of the last
\* file gives it an end line of its own.
BodyEnd ==
  /\ mode = "body" /\ AtEnd
  /\ stack' = myclose(stack)
  /\ IF stack' = <<>>
     THEN mode' = "register" /\ text' = Append(text, End("added"))
     ELSE UNCHANGED <<mode, text>>
  /\ UNCHANGED <<content, block, groups, titles, lists, loaded>>

AddedToList(list, b) == IF b \in ToSet(list) THEN list ELSE Append(list, b)

\* The names up to the first null pointer
UpToNull(names) == {names[i] : i \in {j \in DOMAIN names : \A k \in 0 .. j : names[k] # Null}}
GroupList == UpToNull(groups)

ListOf(g) == IF g \in DOMAIN lists THEN lists[g] ELSE <<>>

\* thLoad registers the block, with the lines as its title, and adds it to its
\* groups, creating those that do not exist.  After the end of the last file
\* inside a block there is no file to go on with.
Register ==
  /\ mode = "register"
  /\ titles' = [b \in DOMAIN titles \cup {block} |-> IF b = block THEN text ELSE titles[b]]
  /\ lists' = [g \in DOMAIN lists \cup GroupList |->
                 IF g \in GroupList THEN AddedToList(ListOf(g), block) ELSE lists[g]]
  /\ mode' = IF stack = <<>> THEN "crashed" ELSE "scan"
  /\ UNCHANGED <<content, stack, text, block, groups, loaded>>

\* Nothing more to load, or no program
Done ==
  /\ mode = "crashed" \/ (mode = "idle" /\ Len(loaded) = MaxFiles)
  /\ UNCHANGED loadVars

LoadNext ==
  \/ \E file \in DOMAIN content : thLoad(file)
  \/ ScanBegin \/ ScanOther \/ ScanEnd
  \/ BodyInclude \/ BodyLine \/ BodyEnd
  \/ Register
  \/ Done

LoadSpec == LoadInit /\ [][LoadNext]_loadVars

(***************************************************************************)
(* What a reader of the files expects: the lines of a file with those of   *)
(* the files it includes in their place, and the blocks of such a text in  *)
(* order.                                                                  *)
(***************************************************************************)

Shown(line, flat) ==
  IF line.k # "include" THEN <<line>> ELSE IF line.file \in DOMAIN flat THEN flat[line.file] ELSE <<>>

Spliced(lines, flat) ==
  LET rest[n \in 0 .. Len(lines)] ==   \* of the last n lines
        IF n = 0 THEN <<>> ELSE Shown(lines[Len(lines) - n + 1], flat) \o rest[n - 1]
  IN rest[Len(lines)]

\* With the files that included files include, and so on
Flat(files) ==
  LET flat[n \in 0 .. Depth + 1] ==
        [f \in DOMAIN files |-> IF n = 0 THEN <<>> ELSE Spliced(files[f], flat[n - 1])]
  IN flat[Depth + 1]

BlockOf(lines) == lines[1].block

\* The block that is open, and those that were ended
ReadLine(acc, line) ==
  IF acc.open = <<>>
  THEN [acc EXCEPT !.open = IF line.k = "begin" THEN <<line>> ELSE <<>>]
  ELSE IF line.k = "end" /\ line.type = BlockOf(acc.open)[1]
       THEN [open |-> <<>>, blocks |-> Append(acc.blocks, Append(acc.open, line))]
       ELSE [acc EXCEPT !.open = Append(acc.open, line)]

Reading(lines) ==
  LET acc[n \in 0 .. Len(lines)] ==
        IF n = 0 THEN [open |-> <<>>, blocks |-> <<>>] ELSE ReadLine(acc[n - 1], lines[n])
  IN acc[Len(lines)]

\* The blocks of one file after another
BlocksOf(flat, names) ==
  LET read[n \in 0 .. Len(names)] ==
        IF n = 0 THEN <<>> ELSE read[n - 1] \o Reading(flat[names[n]]).blocks
  IN read[Len(names)]
Read == BlocksOf(Flat(content), loaded)

LastOf(b, read) ==
  CHOOSE i \in DOMAIN read : BlockOf(read[i]) = b /\ \A j \in i + 1 .. Len(read) : BlockOf(read[j]) # b

\* Between loads every block has as its title the lines between its last begin
\* and the end that matches it, in whatever file each line is (a begin or the
\* end of another class inside it is one of its lines), and no block is missing
\* or made up (thLoad and getblock, thLoad.c:264-311 and 408-646).
LoadedIsFlat ==
  mode = "idle" =>
    \E read \in {Read} :
      /\ DOMAIN titles = {BlockOf(read[i]) : i \in DOMAIN read}
      /\ \A b \in DOMAIN titles : titles[b] = read[LastOf(b, read)]

\* The groups that a begin line names
NamedBy(lines) ==
  LET type == BlockOf(lines)[1]
      toks == lines[1].toks
  IN {AllGroup(type)} \cup
     IF toks = <<>> THEN {DefaultGroup(type)}
     ELSE {<<type, t.name>> : t \in {u \in ToSet(toks) : u.k = "group"}}

\* A block whose begin lines name their groups in full
Plain(b, read) == \A i \in DOMAIN read : BlockOf(read[i]) = b => BareGroup \notin ToSet(read[i][1].toks)
PutIn(lines, b, g) == BlockOf(lines) = b /\ g \in NamedBy(lines)

\* The list ls of group g has the blocks that were put in it, in the order in which
\* they first were.
HasInOrder(ls, g, read) ==
  /\ \A p, q \in DOMAIN ls : p # q => ls[p] # ls[q]
  /\ \A b \in ToSet(ls) \cup {BlockOf(read[i]) : i \in DOMAIN read} :
       Plain(b, read) => (b \in ToSet(ls) <=> \E i \in DOMAIN read : PutIn(read[i], b, g))
  /\ \A p, q \in DOMAIN ls :
       p < q /\ Plain(ls[p], read) /\ Plain(ls[q], read) =>
         \E i \in DOMAIN read : PutIn(read[i], ls[p], g) /\ \A j \in 1 .. i : ~PutIn(read[j], ls[q], g)

\* Between loads a group lists each block that was ever put in it once, in the
\* order they were first put there - the order they are booked and executed
\* in - and no block whose begin lines name their groups in full is in a group
\* they do not name, or missing in one they do, whatever groups the blocks
\* before it had (thLoad.c:501-578 and 307-337, thUtils.c:848-867).
GroupsInOrder ==
  mode = "idle" =>
    \E read \in {Read} :
      /\ \A i \in DOMAIN read : Plain(BlockOf(read[i]), read) => NamedBy(read[i]) \subseteq DOMAIN lists
      /\ \A g \in DOMAIN lists : HasInOrder(lists[g], g, read)

=============================================================================
