-------------------------------- MODULE SPFS --------------------------------
(***************************************************************************)
(* The flash file system (app/include/Flash/SPFS.h, app/src/Flash/) as the *)
(* console uses it.  Flash is programmed a page at a time and programming  *)
(* only clears bits, so nothing written is ever rewritten: a file is a     *)
(* header block whose link leads to its first content, each content's link *)
(* leads to the next version, and a block becomes free again by mkfs only. *)
(*                                                                         *)
(* A block is one page.  Its fields are separate functions of the block    *)
(* number; Blank is a field that still has all its bits set.  Every page   *)
(* program is a step of its own, and the power may fail between any two.   *)
(* A page program itself is taken to be atomic.                            *)
(*                                                                         *)
(* Offsets between blocks are 16 bits with a sign; the build reserves 1024 *)
(* blocks (app/CMakeLists.txt), so they do not overflow.                   *)
(***************************************************************************)
EXTENDS Integers, Sequences

CONSTANTS
    NBlocks,      \* blocks of the file system
    SectorBlocks, \* blocks erased together
    PageUnits,    \* bytes of a page
    HeaderSize,   \* sizeof(FileContentHeader), the size allocation reckons with
    DataOffset,   \* where the data begins, the header's size rounded up
    LenMod,       \* the range of the content header's uint16_t size
    DirCap,       \* entries a directory's page holds
    Names,        \* names of files and directories
    Texts,        \* contents handed to store in one command, sequences of bytes
    Sizes         \* sizes handed to store --alloc

Blank   == -1
Torn    == -2            \* bits of two different values, one over the other
Byte    == Nat \cup {Blank}   \* Blank is the byte 0xFF

ASSUME SPFSAssumption ==
    /\ NBlocks \in Nat /\ NBlocks >= 2
    /\ SectorBlocks \in Nat \ {0}
    /\ PageUnits \in Nat /\ HeaderSize \in Nat /\ DataOffset \in Nat /\ LenMod \in Nat \ {0}
    /\ 0 < HeaderSize /\ HeaderSize <= DataOffset /\ DataOffset < PageUnits
    /\ DirCap \in Nat
    /\ Texts \subseteq Seq(Byte) \ {<<>>}
    /\ Sizes \subseteq Nat

NoBlock == 0             \* no object is ever at block 0
Root    == 1
Blocks  == 0 .. NBlocks - 1
Slots   == 0 .. PageUnits - 1
NoName  == "-"

\* the name of what has none
ASSUME NamesAssumption == NoName \notin Names

VARIABLES
    kind,      \* magic of the block header, or "erased"
    size,      \* blocks of the object that starts here
    len,       \* content: bytes of data
    link,      \* file: offset of the first content; content: of the next version
    label,     \* the name
    entries,   \* directory: its entries, in order
    units,     \* the bytes that data was programmed to
    current,   \* the handle store keeps from --alloc to --finish
    local,     \* the handle of the command being executed
    step, job, \* what the running command does next, and what it was asked
    entering,  \* the directory and the block addContent is about to join
    sector,    \* the next sector to erase
    stale,     \* the kept handle belongs to the file system before mkfs
    spilled    \* history: a page behind the file system was programmed

flash == <<kind, size, len, link, label, entries, units>>
ram   == <<current, local, step, job, entering, sector, stale>>
vars  == <<flash, ram, spilled>>

\* "file" is the FileHeader's block, "head" the newest finished content,
\* "block" the content being written and "pos" the append position.  "key" and
\* "typed" are history: the file meant and the text handed over so far.
NoHandle == [file |-> NoBlock, head |-> NoBlock, block |-> NoBlock, pos |-> 0,
             key |-> <<Root, NoName>>, typed |-> <<>>]
NoJob    == [do |-> "none", text |-> <<>>, size |-> 0]

(***************************************************************************)
(* Reading the flash.                                                      *)
(***************************************************************************)
Objects == {"dir", "file", "content"}

\* the first word of the block is 0xFFFFFFFF
FirstWordErased(b) == kind[b] = "erased" /\ units[b][0] = Blank

\* b lies in an object that starts before it.  The size of a content that was
\* not finished is still 0xFFFF: it covers everything behind it.
Covered(b) ==
    \E c \in 1 .. b - 1 : kind[c] \in Objects /\ (size[c] = Blank \/ b < c + size[c])

\* slip: a page begun is not counted
PagesForWhole(n) == n \div PageUnits

PagesFor(n) == (n + PageUnits - 1) \div PageUnits

\* slip: objects are not skipped by their size
FindFreeByPage(n) ==
    LET fits == {b \in 1 .. NBlocks - n : \A i \in 0 .. n - 1 : FirstWordErased(b + i)}
    IN  IF fits = {} THEN NoBlock ELSE CHOOSE b \in fits : \A c \in fits : b <= c

\* findFreeSpace: the first place for n blocks
FindFree(n) ==
    LET fits == {b \in 1 .. NBlocks - n :
                    ~Covered(b) /\ \A i \in 0 .. n - 1 : FirstWordErased(b + i)}
    IN  IF fits = {} THEN NoBlock ELSE CHOOSE b \in fits : \A c \in fits : b <= c

\* the same as the loop goes: an erased block is tried, a known object is
\* skipped, and after a failure behind the first block the search steps over
\* the block it failed at
Search(n) ==
    LET taken(b) == {i \in 1 .. n - 1 : ~FirstWordErased(b + i)}
        at[b \in 1 .. NBlocks] ==
            IF b + n > NBlocks THEN NoBlock
            ELSE IF FirstWordErased(b) THEN
                IF taken(b) = {} THEN b
                ELSE at[b + (CHOOSE i \in taken(b) : \A j \in taken(b) : i <= j) + 1]
            ELSE IF kind[b] \in Objects THEN
                IF size[b] = Blank \/ b + size[b] > NBlocks THEN NoBlock ELSE at[b + size[b]]
            ELSE at[b + 1]
    IN  at[1]

Mounted == kind[0] = "header"

\* directories the console can change into
Listed(d) ==
    LET in[c \in Blocks] ==
            \/ c = Root
            \/ \E p \in 1 .. c - 1 :
                  /\ kind[p] = "dir"
                  /\ \E i \in DOMAIN entries[p] : entries[p][i].type = "dir"
                                                  /\ p + entries[p][i].offset = c
                  /\ in[p]
    IN  Mounted /\ kind[d] = "dir" /\ in[d]

\* openFile and openSubdirectory: the first entry with the name
Entries(d, type, nm) ==
    {i \in DOMAIN entries[d] :
        /\ entries[d][i].type = type
        /\ kind[d + entries[d][i].offset] = type
        /\ label[d + entries[d][i].offset] = nm}
Lookup(d, type, nm) ==
    LET found == Entries(d, type, nm)
    IN  IF found = {} THEN NoBlock
        ELSE d + entries[d][CHOOSE i \in found : \A j \in found : i <= j].offset

\* where the link of a file header or a content leads
Newer == [b \in Blocks |-> IF link[b] = Blank THEN b ELSE b + link[b]]

\* a file header and its versions, oldest first
ChainAt(f, n) ==
    LET at[k \in 0 .. n] == IF k = 0 THEN f ELSE Newer[at[k - 1]]
    IN  at[n]
Chain(f) == {ChainAt(f, n) : n \in Blocks}

Last(f) == ChainAt(f, NBlocks)

\* the data of a content, read from its memory-mapped address
Data(c) ==
    [i \in 1 .. len[c] |->
        LET at == DataOffset + i - 1
            b  == c + at \div PageUnits
        IN  IF b \in Blocks THEN units[b][at % PageUnits] ELSE Blank]

(***************************************************************************)
(* Programming the flash.                                                  *)
(***************************************************************************)

\* a field programmed over a field: bits can only be cleared
Over(old, new) ==
    IF old = Blank THEN new ELSE IF new \in {Blank, old} THEN old ELSE Torn

BlankUnits == [s \in Slots |-> Blank]

\* the header of a new object goes into the erased block b
Header(b, type, sz, nm) ==
    /\ kind' = [kind EXCEPT ![b] = type]
    /\ size' = [size EXCEPT ![b] = sz]
    /\ label' = [label EXCEPT ![b] = nm]
    /\ UNCHANGED <<len, link, entries, units>>

-----------------------------------------------------------------------------
Init ==
    /\ kind = [b \in Blocks |-> "erased"]
    /\ size = [b \in Blocks |-> Blank] /\ len = [b \in Blocks |-> Blank]
    /\ link = [b \in Blocks |-> Blank] /\ label = [b \in Blocks |-> NoName]
    /\ entries = [b \in Blocks |-> <<>>] /\ units = [b \in Blocks |-> BlankUnits]
    /\ current = NoHandle /\ local = NoHandle
    /\ step = "boot" /\ job = NoJob /\ entering = <<NoBlock, NoBlock>>
    /\ sector = 0 /\ stale = FALSE /\ spilled = FALSE

(***************************************************************************)
(* Boot and mkfs.                                                          *)
(***************************************************************************)

\* main: the file system is looked for, and made if there is none
Boot ==
    /\ step = "boot"
    /\ step' = IF Mounted THEN "idle" ELSE "erase"
    /\ sector' = 0
    /\ UNCHANGED <<flash, current, local, job, entering, stale, spilled>>

\* The kept handle of store survives mkfs and still points into the old system;
\* where it points there no longer matters.
Outdated(h) ==
    [NoHandle EXCEPT !.file = Root, !.block = IF h.block = NoBlock THEN NoBlock ELSE Root]

Mkfs ==
    /\ step = "idle"
    /\ step' = "erase"
    /\ sector' = 0
    /\ stale' = (current.file # NoBlock)
    /\ current' = IF current.file = NoBlock THEN current ELSE Outdated(current)
    /\ UNCHANGED <<flash, local, job, entering, spilled>>

\* slip: bytes taken for sectors
LastSectorInBytes == NBlocks * PageUnits
LastSector        == (NBlocks - 1) \div SectorBlocks

\* formatDisk erases sector after sector
EraseSector ==
    LET gone(b) == b \div SectorBlocks = sector
        last    == LastSector
    IN  /\ step = "erase"
        /\ kind' = [b \in Blocks |-> IF gone(b) THEN "erased" ELSE kind[b]]
        /\ size' = [b \in Blocks |-> IF gone(b) THEN Blank ELSE size[b]]
        /\ len' = [b \in Blocks |-> IF gone(b) THEN Blank ELSE len[b]]
        /\ link' = [b \in Blocks |-> IF gone(b) THEN Blank ELSE link[b]]
        /\ label' = [b \in Blocks |-> IF gone(b) THEN NoName ELSE label[b]]
        /\ entries' = [b \in Blocks |-> IF gone(b) THEN <<>> ELSE entries[b]]
        /\ units' = [b \in Blocks |-> IF gone(b) THEN BlankUnits ELSE units[b]]
        /\ sector' = IF sector = last THEN 0 ELSE sector + 1
        /\ step' = IF sector = last THEN "root" ELSE "erase"
        /\ UNCHANGED <<current, local, job, entering, stale, spilled>>

\* createNewFileSystem programs the root directory first ...
ProgramRoot ==
    /\ step = "root"
    /\ Header(Root, "dir", 1, NoName)
    /\ step' = "header"
    /\ UNCHANGED <<current, local, job, entering, sector, stale, spilled>>

\* ... and the file system header, with its metadata, last
ProgramHeader ==
    /\ step = "header"
    /\ Header(0, "header", Blank, NoName)
    /\ step' = "idle"
    /\ UNCHANGED <<current, local, job, entering, sector, stale, spilled>>

(***************************************************************************)
(* md, store and env save: each finds or makes its directory entry.        *)
(***************************************************************************)

\* createDirectory and createFile program the header of the new object; the
\* directory entry follows in a second page program.
Make(d, type, nm, what) ==
    LET b == FindFree(1)
    IN  /\ b # NoBlock
        /\ Header(b, type, 1, nm)
        /\ entering' = <<d, b>>
        /\ step' = "enter"
        /\ job' = what
        /\ local' = IF type = "dir" THEN NoHandle
                    ELSE [NoHandle EXCEPT !.file = b, !.key = <<d, nm>>, !.typed = what.text]
        /\ UNCHANGED <<current, sector, stale, spilled>>

MakeDirectory(d, nm) ==
    /\ step = "idle" /\ Listed(d)
    /\ Lookup(d, "dir", nm) = NoBlock
    /\ Make(d, "dir", nm, [NoJob EXCEPT !.do = "mkdir"])

\* slip: the handle is left at the file header
OpenAtHeader(d, nm, what) ==
    LET f == Lookup(d, "file", nm)
    IN  /\ f # NoBlock
        /\ local' = [NoHandle EXCEPT !.file = f, !.key = <<d, nm>>, !.typed = what.text]
        /\ step' = "alloc"
        /\ job' = what
        /\ UNCHANGED <<flash, current, entering, sector, stale, spilled>>

\* FindCurrentContentHeader leaves the handle at the newest version
Open(d, nm, what) ==
    LET f == Lookup(d, "file", nm)
    IN  /\ f # NoBlock
        /\ \E head \in Chain(f) :
              /\ link[head] = Blank
              /\ local' = [NoHandle EXCEPT !.file = f,
                              !.head = IF head = f THEN NoBlock ELSE head,
                              !.key = <<d, nm>>, !.typed = what.text]
        /\ step' = "alloc"
        /\ job' = what
        /\ UNCHANGED <<flash, current, entering, sector, stale, spilled>>

OpenOrCreate(d, nm, what) ==
    /\ step = "idle" /\ Listed(d)
    /\ \/ Open(d, nm, what)
       \/ Lookup(d, "file", nm) = NoBlock /\ Make(d, "file", nm, what)

\* store <file> <content>, and env save
Store(d, nm, text) ==
    OpenOrCreate(d, nm, [do |-> "write", text |-> text, size |-> Len(text)])

\* store <file> --alloc <n>: the file is opened or created before anything else
\* is looked at
StoreAlloc(d, nm, n) ==
    OpenOrCreate(d, nm, [do |-> "alloc", text |-> <<>>, size |-> n])

\* addContent: the entry goes behind the others.  When the page is full the
\* call fails and nobody looks at the result.
EnterContent ==
    LET d == entering[1]
        b == entering[2]
    IN  /\ step = "enter"
        /\ entries' = IF Len(entries[d]) < DirCap
                      THEN [entries EXCEPT ![d] =
                              Append(@, [type |-> kind[b], offset |-> b - d])]
                      ELSE entries
        /\ step' = IF job.do = "mkdir" THEN "idle" ELSE "alloc"
        /\ entering' = <<NoBlock, NoBlock>>
        /\ UNCHANGED <<kind, size, len, link, label, units, current, local, job,
                       sector, stale, spilled>>

(***************************************************************************)
(* Writing a content.                                                      *)
(***************************************************************************)

\* allocateContenSize: the content header is programmed without its size
AllocateFor(h) ==
    LET b == FindFree(PagesFor(HeaderSize + job.size))
    IN  /\ b # NoBlock
        /\ Header(b, "content", Blank, NoName)
        /\ h = [local EXCEPT !.block = b, !.pos = DataOffset]

\* File::write gives up silently when there is no room
AllocateWrite ==
    /\ step = "alloc" /\ job.do = "write"
    /\ \/ AllocateFor(local') /\ step' = "append" /\ UNCHANGED job
       \/ /\ FindFree(PagesFor(HeaderSize + job.size)) = NoBlock
          /\ local' = NoHandle /\ step' = "idle" /\ job' = NoJob
          /\ UNCHANGED flash
    /\ UNCHANGED <<current, entering, sector, stale, spilled>>

\* store --alloc: refused when a handle is kept already; otherwise the handle
\* is kept whether or not the allocation succeeds
AllocateKept ==
    /\ step = "alloc" /\ job.do = "alloc"
    /\ \/ current.file # NoBlock /\ UNCHANGED <<flash, current>>
       \/ current.file = NoBlock /\ AllocateFor(current')
       \/ /\ current.file = NoBlock
          /\ FindFree(PagesFor(HeaderSize + job.size)) = NoBlock
          /\ current' = local
          /\ UNCHANGED flash
    /\ local' = NoHandle /\ step' = "idle" /\ job' = NoJob
    /\ UNCHANGED <<entering, sector, stale, spilled>>

\* store --append <content>, to a handle of this file system.  Bound: a content
\* starts at most one page behind the end of the file system.
StoreAppend(text) ==
    /\ step = "idle" /\ current.block # NoBlock /\ ~stale
    /\ current.block + current.pos \div PageUnits <= NBlocks
    /\ step' = "append"
    /\ job' = [do |-> "append", text |-> text, size |-> Len(text)]
    /\ current' = [current EXCEPT !.typed = @ \o text]
    /\ UNCHANGED <<flash, local, entering, sector, stale, spilled>>

\* store --finish
StoreFinish ==
    /\ step = "idle" /\ current.block # NoBlock /\ ~stale
    /\ step' = "finish"
    /\ job' = [NoJob EXCEPT !.do = "finish"]
    /\ UNCHANGED <<flash, current, local, entering, sector, stale, spilled>>

\* store --append or --finish with a handle of the erased file system: the
\* pages of the new one are programmed at addresses of the old
UseStaleHandle ==
    /\ step = "idle" /\ current.block # NoBlock /\ stale
    /\ step' = "undefined"
    /\ UNCHANGED <<flash, current, local, job, entering, sector, stale, spilled>>

Writing == IF job.do = "write" THEN local ELSE current
Keep(h) ==
    IF job.do = "write" THEN local' = h /\ UNCHANGED current
                        ELSE current' = h /\ UNCHANGED local

\* slip: the append position is not advanced within the page
AppendPageInPlace ==
    LET h == Writing
        b == h.block + h.pos \div PageUnits
        at == h.pos % PageUnits
        n == IF Len(job.text) < PageUnits - at THEN Len(job.text) ELSE PageUnits - at
    IN  /\ step = "append"
        /\ units' = IF b \in Blocks
                    THEN [units EXCEPT ![b] = [s \in Slots |->
                            IF s \in at .. at + n - 1 THEN Over(@[s], job.text[s - at + 1])
                            ELSE @[s]]]
                    ELSE units
        /\ spilled' = (spilled \/ b \notin Blocks)
        /\ Keep([h EXCEPT !.pos = IF at + n = PageUnits THEN @ + n ELSE @])
        /\ job' = [job EXCEPT !.text = SubSeq(@, n + 1, Len(@))]
        /\ step' = IF n < Len(job.text) THEN "append"
                   ELSE IF job.do = "write" THEN "finish" ELSE "idle"
        /\ UNCHANGED <<kind, size, len, link, label, entries, entering, sector, stale>>

\* append fills the page at the append position and programs it; the allocated
\* size is not looked at
AppendPage ==
    LET h == Writing
        b == h.block + h.pos \div PageUnits
        at == h.pos % PageUnits
        n == IF Len(job.text) < PageUnits - at THEN Len(job.text) ELSE PageUnits - at
    IN  /\ step = "append"
        /\ units' = IF b \in Blocks
                    THEN [units EXCEPT ![b] = [s \in Slots |->
                            IF s \in at .. at + n - 1 THEN Over(@[s], job.text[s - at + 1])
                            ELSE @[s]]]
                    ELSE units
        /\ spilled' = (spilled \/ b \notin Blocks)
        /\ Keep([h EXCEPT !.pos = @ + n])
        /\ job' = IF n < Len(job.text) \/ job.do = "write"
                  THEN [job EXCEPT !.text = SubSeq(@, n + 1, Len(@))] ELSE NoJob
        /\ step' = IF n < Len(job.text) THEN "append"
                   ELSE IF job.do = "write" THEN "finish" ELSE "idle"
        /\ UNCHANGED <<kind, size, len, link, label, entries, entering, sector, stale>>

\* finishContent: first the header once more, now with the sizes ...
FinishHeader ==
    LET h == Writing
    IN  /\ step = "finish"
        /\ size' = [size EXCEPT ![h.block] = Over(@, PagesFor(h.pos))]
        /\ len' = [len EXCEPT ![h.block] = Over(@, (h.pos - DataOffset) % LenMod)]
        /\ step' = "link"
        /\ UNCHANGED <<kind, link, label, entries, units, current, local, job,
                       entering, sector, stale, spilled>>

\* ... then the link that leads to it
Link ==
    LET h    == Writing
        from == IF h.head # NoBlock THEN h.head ELSE h.file
    IN  /\ step = "link"
        /\ link' = [link EXCEPT ![from] = Over(@, h.block - from)]
        /\ Keep(NoHandle)
        /\ step' = "idle" /\ job' = NoJob
        /\ UNCHANGED <<kind, size, len, label, entries, units, entering, sector,
                       stale, spilled>>

(***************************************************************************)
(* The power fails, or the watchdog or the boot command restarts the board:*)
(* the flash stays as it is.                                               *)
(***************************************************************************)
Restart ==
    /\ step \notin {"boot", "undefined"}
    /\ current' = NoHandle /\ local' = NoHandle /\ job' = NoJob
    /\ entering' = <<NoBlock, NoBlock>> /\ sector' = 0 /\ stale' = FALSE
    /\ step' = "boot"
    /\ UNCHANGED <<flash, spilled>>

-----------------------------------------------------------------------------
Command ==
    \/ \E d \in Blocks, nm \in Names :
          \/ MakeDirectory(d, nm)
          \/ \E text \in Texts : Store(d, nm, text)
          \/ \E n \in Sizes : StoreAlloc(d, nm, n)
    \/ \E text \in Texts : StoreAppend(text)
    \/ StoreFinish
    \/ UseStaleHandle
    \/ Mkfs

Program ==
    \/ EraseSector \/ ProgramRoot \/ ProgramHeader
    \/ EnterContent
    \/ AllocateWrite \/ AllocateKept
    \/ AppendPage \/ FinishHeader \/ Link

Next == Boot \/ Command \/ Program \/ Restart

Spec == Init /\ [][Next]_vars

-----------------------------------------------------------------------------
(***************************************************************************)
(* Properties.                                                             *)
(***************************************************************************)

Field   == Nat \cup {Blank, Torn}
Handles == [file : Blocks, head : Blocks, block : Blocks, pos : Nat,
            key : Blocks \X (Names \cup {NoName}), typed : Seq(Int)]
TypeOK ==
    /\ kind \in [Blocks -> Objects \cup {"erased", "header"}]
    /\ size \in [Blocks -> Field] /\ len \in [Blocks -> Field] /\ link \in [Blocks -> Field]
    /\ label \in [Blocks -> Names \cup {NoName}]
    /\ entries \in [Blocks -> Seq([type : Objects, offset : Int])]
    /\ units \in [Blocks -> [Slots -> Int]]
    /\ current \in Handles /\ local \in Handles
    /\ step \in {"boot", "erase", "root", "header", "idle", "enter", "alloc", "append",
                 "finish", "link", "undefined"}
    /\ job \in [do : {"none", "mkdir", "write", "alloc", "append", "finish"},
                text : Seq(Int), size : Nat]
    /\ entering \in Blocks \X Blocks
    /\ sector \in 0 .. NBlocks
    /\ stale \in BOOLEAN /\ spilled \in BOOLEAN

\* No bit is cleared that belongs to something else: every field is programmed
\* at most once after an erase, over all the interleavings of a kept upload
\* with other commands and over power failures between any two pages.
NothingTorn ==
    \A b \in Blocks :
        /\ Torn \notin {size[b], len[b], link[b]}
        /\ \A s \in Slots : units[b][s] # Torn

\* Allocation leaves no gaps: behind the first free block everything is erased
\* to the last byte, or one unfinished content that covers the rest.
Free(b) == ~Covered(b) /\ FirstWordErased(b)
Untouched(b) ==
    /\ kind[b] = "erased" /\ size[b] = Blank /\ len[b] = Blank /\ link[b] = Blank
    /\ units[b] = BlankUnits
FreeSpaceIsErased ==
    step \notin {"boot", "erase"} =>
        \A b \in Blocks \ {0} : Free(b) => \A c \in b .. NBlocks - 1 : Free(c) /\ Untouched(c)

\* The search loop finds what findFreeSpace is meant to find, although after a
\* failed multi-block try it steps into the middle of objects.
SearchFindsFree ==
    step \notin {"boot", "erase", "root", "header"} =>
        \A n \in 1 .. NBlocks - 1 : Search(n) = FindFree(n)

\* fsinfo counts the erased blocks as "Free Space"; so while no upload is open
\* such a block can be allocated.
FreeSpaceIsUsable ==
    step = "idle" /\ current.block = NoBlock /\ FindFree(1) = NoBlock
        => \A b \in Blocks : ~Untouched(b)

\* findFreeSpaceForFileContent returns the number of blocks required to hold the
\* content; so a content written by one store never runs out of the file system.
WriteStaysInside ==
    [][job.do = "write" => spilled' = spilled]_vars

(***************************************************************************)
(* The file system implements versioned files.                             *)
(***************************************************************************)
Keys == {k \in Blocks \X Names : Listed(k[1]) /\ Lookup(k[1], "file", k[2]) # NoBlock}
Versions(f) ==
    LET last  == Last(f)
        count == CHOOSE n \in Blocks : /\ ChainAt(f, n) = last
                                       /\ \A m \in 0 .. n - 1 : ChainAt(f, m) # last
    IN  [v \in 1 .. count |-> Data(ChainAt(f, v))]
Collected(h) ==
    IF h.block = NoBlock \/ h.key[2] = NoName THEN NoHandle ELSE [key |-> h.key, text |-> h.typed]

Abstract == INSTANCE VersionedFiles WITH
    Writers <- {"local", "current"},
    Nothing <- NoHandle,
    files   <- [k \in Keys |-> Versions(Lookup(k[1], "file", k[2]))],
    pending <- [w \in {"local", "current"} |->
                    Collected(IF w = "local" THEN local ELSE current)]

\* Every step of the file system is a step of the abstract one or changes
\* nothing of it: contents appear whole, in order, under the right name, equal
\* to what was handed over, and never change, whatever fails in between.  A
\* content that ran out of the file system is not accounted for.
StoresVersions == Abstract!Init /\ [][spilled' \/ Abstract!Next]_(Abstract!vars)
=============================================================================
