----------------------------- MODULE SPFSProofs -----------------------------
(***************************************************************************)
(* Proofs about the flash file system, for every number of blocks, size of *)
(* a page and of a sector, set of names and contents: nothing programmed   *)
(* is programmed over, free space is erased, and the search of             *)
(* findFreeSpace finds what it is meant to find.                           *)
(***************************************************************************)
EXTENDS SPFS, TLAPS, SequenceTheorems, WellFoundedInduction

(***************************************************************************)
(* The invariant.                                                          *)
(***************************************************************************)
Linked == {"file", "content"}

\* behind the first free block everything is free and erased
SpaceErased ==
    \A b \in Blocks \ {0} : Free(b) => \A c \in b .. NBlocks - 1 : Free(c) /\ Untouched(c)

\* objects do not overlap, and what no object covers is one or is erased
ObjectsApart ==
    \A b \in Blocks \ {0} :
        /\ kind[b] \in Objects => ~Covered(b) /\ (size[b] = Blank \/ size[b] >= 1)
        /\ ~Covered(b) => kind[b] \in Objects \/ FirstWordErased(b)

\* a link leads to a content
LinksLead ==
    \A b \in Blocks : kind[b] \in Linked /\ link[b] # Blank =>
        b + link[b] \in Blocks /\ kind[b + link[b]] = "content"

Layout == kind[0] = "header" \/ step \in {"root", "header"} =>
              SpaceErased /\ ObjectsApart /\ LinksLead

EntriesInv ==
    \A d \in Blocks : \A i \in DOMAIN entries[d] : d + entries[d][i].offset \in Blocks

\* the block whose link a handle is going to program
From(h) == IF h.head # NoBlock THEN h.head ELSE h.file

FromReady(h) == From(h) \in Blocks /\ kind[From(h)] \in Linked /\ link[From(h)] = Blank

\* block x, slot s is at or behind the append position
Ahead(h, x, s) ==
    \/ x > h.block + h.pos \div PageUnits
    \/ x = h.block + h.pos \div PageUnits /\ s >= h.pos % PageUnits

\* the handle's content is the last object and covers the rest
Begun(h) ==
    /\ h.block \in Blocks \ {0} /\ h.pos >= DataOffset
    /\ FromReady(h) /\ From(h) < h.block
    /\ kind[h.block] = "content" /\ size[h.block] = Blank /\ len[h.block] = Blank
    /\ \A x \in 1 .. h.block - 1 : ~Free(x)
    /\ \A x \in h.block + 1 .. NBlocks - 1 :
          kind[x] = "erased" /\ size[x] = Blank /\ len[x] = Blank /\ link[x] = Blank
    /\ \A x \in Blocks, s \in Slots : Ahead(h, x, s) => units[x][s] = Blank

\* its header is complete, the link is not
Complete(h) ==
    /\ h.block \in Blocks \ {0} /\ FromReady(h) /\ From(h) < h.block
    /\ kind[h.block] = "content"

IsOpen == current.block # NoBlock /\ ~stale

HandlesInv ==
    /\ step \notin {"boot", "erase", "root", "header"} => kind[0] = "header"
    /\ IsOpen => /\ step \notin {"boot", "erase", "root", "header"}
                 /\ IF step = "link" THEN Complete(current) ELSE Begun(current)
    /\ current.block # NoBlock => current.file # NoBlock
    /\ step \in {"append", "finish", "link"} =>
          IF job.do = "write"
          THEN ~IsOpen /\ IF step = "link" THEN Complete(local) ELSE Begun(local)
          ELSE IsOpen
    /\ step \in {"enter", "alloc"} /\ job.do # "mkdir" =>
          FromReady(local) /\ local.file # NoBlock /\ local.block = NoBlock
    /\ step = "enter" => /\ job.do \in {"mkdir", "write", "alloc"}
                         /\ kind[entering[2]] \in Objects
    /\ step = "alloc" => job.do \in {"write", "alloc"}
    /\ job.text \in Seq(Byte)

EraseInv ==
    /\ step = "erase" => /\ sector <= LastSector /\ (sector = 0 \/ kind[0] = "erased")
                         /\ \A b \in Blocks : b \div SectorBlocks < sector => Untouched(b)
    /\ step = "root" => \A b \in Blocks : Untouched(b)
    /\ kind[0] \in {"erased", "header"}

FlashInv == TypeOK /\ Layout /\ EntriesInv /\ HandlesInv /\ EraseInv /\ NothingTorn

(***************************************************************************)
(* Pages and sectors.                                                      *)
(***************************************************************************)

LEMMA Division ==
    ASSUME NEW a \in Nat, NEW u \in Nat, u > 0
    PROVE  \E q \in Nat, r \in Nat : /\ q = a \div u /\ r = a % u
                                     /\ r < u /\ a = u * q + r
<1>1. a \div u \in Nat /\ a % u \in Nat
  OBVIOUS
<1>2. PICK q \in Nat : q = a \div u
  BY <1>1
<1>3. PICK r \in Nat : r = a % u
  BY <1>1
<1>4. r < u /\ a = u * q + r
  BY <1>2, <1>3
<1>. QED  BY <1>2, <1>3, <1>4

\* the quotient and the remainder are the only ones
LEMMA Quotient ==
    ASSUME NEW a \in Nat, NEW u \in Nat, u > 0, NEW q \in Nat, NEW r \in Nat, r < u,
           a = u * q + r
    PROVE  a \div u = q /\ a % u = r
<1>1. PICK p \in Nat, s \in Nat : p = a \div u /\ s = a % u /\ s < u /\ a = u * p + s
  BY Division
<1>2. ~ (p < q)
  <2>. SUFFICES ASSUME p < q PROVE FALSE
    OBVIOUS
  <2>1. p + 1 <= q
    BY <1>1
  <2>2. u * (p + 1) <= u * q
    BY <1>1, <2>1
  <2>3. u * (p + 1) = u * p + u
    BY <1>1
  <2>. QED  BY <1>1, <2>2, <2>3
<1>3. ~ (q < p)
  <2>. SUFFICES ASSUME q < p PROVE FALSE
    OBVIOUS
  <2>1. q + 1 <= p
    BY <1>1
  <2>2. u * (q + 1) <= u * p
    BY <1>1, <2>1
  <2>3. u * (q + 1) = u * q + u
    OBVIOUS
  <2>. QED  BY <1>1, <2>2, <2>3
<1>4. p = q
  BY <1>1, <1>2, <1>3
<1>5. s = r
  BY <1>1, <1>4
<1>. QED  BY <1>1, <1>4, <1>5

LEMMA DivisionMonotone ==
    ASSUME NEW a \in Nat, NEW b \in Nat, a <= b, NEW u \in Nat, u > 0
    PROVE  a \div u <= b \div u
<1>1. PICK p \in Nat, r \in Nat : p = a \div u /\ a = u * p + r
  BY Division
<1>2. PICK q \in Nat, s \in Nat : q = b \div u /\ b = u * q + s /\ s < u
  BY Division
<1>3. ~ (q < p)
  <2>. SUFFICES ASSUME q < p PROVE FALSE
    OBVIOUS
  <2>1. q + 1 <= p
    BY <1>1, <1>2
  <2>2. u * (q + 1) <= u * p
    BY <1>1, <1>2, <2>1
  <2>3. u * (q + 1) = u * q + u
    BY <1>2
  <2>. QED  BY <1>1, <1>2, <2>2, <2>3
<1>4. p <= q
  BY <1>1, <1>2, <1>3
<1>. QED  BY <1>1, <1>2, <1>4

LEMMA QuotientBelow ==
    ASSUME NEW a \in Nat, NEW u \in Nat, u > 0
    PROVE  a \div u <= a
<1>1. PICK q \in Nat, r \in Nat : q = a \div u /\ a = u * q + r
  BY Division
<1>2. q <= u * q
  OBVIOUS
<1>. QED  BY <1>1, <1>2

\* going on within a page, or to its end
LEMMA PageStep ==
    ASSUME NEW a \in Nat, NEW u \in Nat, u > 0, NEW q \in Nat, NEW r \in Nat,
           q = a \div u, r = a % u, NEW n \in Nat, n <= u - r
    PROVE  /\ n < u - r => (a + n) \div u = q /\ (a + n) % u = r + n
           /\ n = u - r => (a + n) \div u = q + 1 /\ (a + n) % u = 0
<1>1. a = u * q + r /\ r < u
  BY Division
<1>2. ASSUME n < u - r
      PROVE  (a + n) \div u = q /\ (a + n) % u = r + n
  <2>1. a + n = u * q + (r + n) /\ r + n \in Nat /\ r + n < u /\ a + n \in Nat
    BY <1>1, <1>2
  <2>. QED  BY <2>1, Quotient
<1>3. ASSUME n = u - r
      PROVE  (a + n) \div u = q + 1 /\ (a + n) % u = 0
  <2>1. u * (q + 1) = u * q + u
    OBVIOUS
  <2>2. a + n = u * (q + 1) + 0 /\ a + n \in Nat /\ q + 1 \in Nat
    BY <1>1, <1>3, <2>1
  <2>. QED  BY <2>2, Quotient
<1>. QED  BY <1>2, <1>3

\* the pages of a bytes: those that are full and the one begun
LEMMA PagesAre ==
    ASSUME NEW a \in Nat, NEW u \in Nat, u > 0
    PROVE  (a + u - 1) \div u = IF a % u = 0 THEN a \div u ELSE a \div u + 1
<1>1. PICK q \in Nat, r \in Nat : q = a \div u /\ r = a % u /\ r < u /\ a = u * q + r
  BY Division
<1>2. ASSUME r = 0
      PROVE  (a + u - 1) \div u = q
  <2>1. /\ a + u - 1 = u * q + (u - 1) /\ u - 1 \in Nat /\ u - 1 < u /\ a + u - 1 \in Nat
    BY <1>1, <1>2
  <2>. QED  BY <1>1, <2>1, Quotient
<1>3. ASSUME r # 0
      PROVE  (a + u - 1) \div u = q + 1
  <2>1. u * (q + 1) = u * q + u
    BY <1>1
  <2>2. /\ a + u - 1 = u * (q + 1) + (r - 1) /\ r - 1 \in Nat /\ r - 1 < u
        /\ a + u - 1 \in Nat /\ q + 1 \in Nat
    BY <1>1, <1>3, <2>1
  <2>. QED  BY <2>2, Quotient
<1>. QED  BY <1>1, <1>2, <1>3

LEMMA Sizings ==
    /\ NBlocks \in Nat /\ NBlocks >= 2 /\ SectorBlocks \in Nat /\ SectorBlocks > 0
    /\ PageUnits \in Nat /\ PageUnits > 0 /\ HeaderSize \in Nat /\ HeaderSize > 0
    /\ DataOffset \in Nat /\ DataOffset > 0 /\ LenMod \in Nat /\ LenMod > 0
    /\ 0 \in Blocks /\ Root \in Blocks /\ Root # 0
BY SPFSAssumption DEF Blocks, Root

LEMMA Place ==
    \A p \in Nat : \E q \in Nat, r \in Nat :
        /\ q = p \div PageUnits /\ r = p % PageUnits
        /\ r < PageUnits /\ p = PageUnits * q + r
<1>1. PageUnits \in Nat /\ PageUnits > 0
  BY Sizings
<1>. QED  BY <1>1, Division

\* where the append position is after n more bytes
LEMMA PlaceAfter ==
    \A p \in Nat, n \in Nat, q \in Nat, r \in Nat :
        q = p \div PageUnits /\ r = p % PageUnits =>
            /\ n < PageUnits - r => (p + n) \div PageUnits = q /\ (p + n) % PageUnits = r + n
            /\ n = PageUnits - r => (p + n) \div PageUnits = q + 1 /\ (p + n) % PageUnits = 0
<1>1. PageUnits \in Nat /\ PageUnits > 0
  BY Sizings
<1>. SUFFICES ASSUME NEW p \in Nat, NEW n \in Nat, NEW q \in Nat, NEW r \in Nat,
                     q = p \div PageUnits, r = p % PageUnits
              PROVE  /\ n < PageUnits - r => (p + n) \div PageUnits = q /\ (p + n) % PageUnits = r + n
                     /\ n = PageUnits - r => (p + n) \div PageUnits = q + 1 /\ (p + n) % PageUnits = 0
  OBVIOUS
<1>2. CASE n <= PageUnits - r
  BY <1>1, <1>2, PageStep
<1>3. CASE ~ (n <= PageUnits - r)
  BY <1>1, <1>3
<1>. QED  BY <1>2, <1>3

LEMMA PagesForIs ==
    ASSUME NEW n \in Nat
    PROVE  /\ PagesFor(n) \in Nat
           /\ PagesFor(n) = IF n % PageUnits = 0 THEN n \div PageUnits ELSE n \div PageUnits + 1
           /\ n > 0 => PagesFor(n) >= 1
<1>1. PagesFor(n) = IF n % PageUnits = 0 THEN n \div PageUnits ELSE n \div PageUnits + 1
  BY Sizings, PagesAre DEF PagesFor
<1>2. PICK q \in Nat, r \in Nat : /\ q = n \div PageUnits /\ r = n % PageUnits
                                 /\ n = PageUnits * q + r
  BY Sizings, Division
<1>3. ASSUME n > 0, r = 0 PROVE q # 0
  BY <1>2, <1>3, Sizings
<1>4. PagesFor(n) = IF r = 0 THEN q ELSE q + 1
  BY <1>1, <1>2
<1>5. PagesFor(n) \in Nat /\ (n > 0 => PagesFor(n) >= 1)
  BY <1>2, <1>3, <1>4
<1>. QED  BY <1>1, <1>5

LEMMA SectorsCover ==
    /\ LastSector \in Nat /\ LastSector < NBlocks /\ 0 \div SectorBlocks = 0
    /\ \A b \in Blocks : b \div SectorBlocks \in Nat /\ b \div SectorBlocks <= LastSector
<1>1. NBlocks - 1 \in Nat
  BY Sizings
<1>2. LastSector \in Nat
  BY <1>1, Sizings, Division DEF LastSector
<1>3. \A b \in Blocks : b \div SectorBlocks \in Nat /\ b \div SectorBlocks <= LastSector
  <2>. SUFFICES ASSUME NEW b \in Blocks
                PROVE  b \div SectorBlocks \in Nat /\ b \div SectorBlocks <= LastSector
    OBVIOUS
  <2>1. b \in Nat /\ b <= NBlocks - 1
    BY Sizings DEF Blocks
  <2>. QED  BY <1>1, <2>1, Sizings, Division, DivisionMonotone DEF LastSector
<1>4. 0 \div SectorBlocks = 0
  BY Sizings, Quotient
<1>5. LastSector < NBlocks
  <2>1. LastSector <= NBlocks - 1
    BY <1>1, Sizings, QuotientBelow DEF LastSector
  <2>. QED  BY <1>2, <2>1, Sizings
<1>. QED  BY <1>2, <1>3, <1>4, <1>5

(***************************************************************************)
(* Where there is space.                                                   *)
(***************************************************************************)

LEMMA Minimum ==
    ASSUME NEW T, T \subseteq Nat, T # {}
    PROVE  \E n \in T : \A m \in T : n <= m
<1>1. PICK n \in T : \A m \in T : ~ (<<m, n>> \in OpToRel(<, Nat))
  BY NatLessThanWellFounded, WFMin
<1>2. \A m \in T : ~ (m < n)
  BY <1>1 DEF OpToRel
<1>. QED  BY <1>2

\* where n blocks fit
Fits(n) == {b \in 1 .. NBlocks - n :
               ~Covered(b) /\ \A i \in 0 .. n - 1 : FirstWordErased(b + i)}

LEMMA FindFreeIs ==
    ASSUME NEW n \in Nat
    PROVE  /\ Fits(n) = {} => FindFree(n) = NoBlock
           /\ Fits(n) # {} => FindFree(n) \in Fits(n) /\ \A c \in Fits(n) : FindFree(n) <= c
<1>1. FindFree(n) = IF Fits(n) = {} THEN NoBlock
                    ELSE CHOOSE b \in Fits(n) : \A c \in Fits(n) : b <= c
  BY DEF FindFree, Fits
<1>2. Fits(n) \subseteq Nat
  BY Sizings DEF Fits
<1>3. Fits(n) # {} => \E b \in Fits(n) : \A c \in Fits(n) : b <= c
  BY <1>2, Minimum
<1>. QED  BY <1>1, <1>3

\* What FindFree returns is the first free block, and everything from there on
\* is free.
LEMMA FoundIsFree ==
    ASSUME SpaceErased, NEW n \in Nat, n >= 1, NEW b, b = FindFree(n), b # NoBlock
    PROVE  /\ b \in Blocks \ {0} /\ b \in Nat /\ b >= 1 /\ b + n <= NBlocks /\ Free(b)
           /\ \A c \in b .. NBlocks - 1 : Free(c) /\ Untouched(c)
           /\ \A x \in 1 .. b - 1 : ~Free(x)
<1>1. b \in Fits(n) /\ \A c \in Fits(n) : b <= c
  BY FindFreeIs
<1>2. b \in Nat /\ b >= 1 /\ b + n <= NBlocks
  BY <1>1, Sizings DEF Fits
<1>3. ~Covered(b) /\ FirstWordErased(b + 0)
  BY <1>1 DEF Fits
<1>4. b \in Blocks \ {0} /\ Free(b)
  BY <1>2, <1>3, Sizings DEF Blocks, Free
<1>5. \A c \in b .. NBlocks - 1 : Free(c) /\ Untouched(c)
  BY <1>4 DEF SpaceErased
<1>6. ASSUME NEW x \in 1 .. b - 1, Free(x) PROVE FALSE
  <2>1. x \in Blocks \ {0} /\ x \in Nat /\ x >= 1 /\ x < b
    BY <1>2, Sizings DEF Blocks
  <2>2. \A c \in x .. NBlocks - 1 : Free(c)
    BY <1>6, <2>1 DEF SpaceErased
  <2>3. \A i \in 0 .. n - 1 : x + i \in x .. NBlocks - 1
    BY <1>2, <2>1, Sizings
  <2>4. \A i \in 0 .. n - 1 : FirstWordErased(x + i)
    BY <2>2, <2>3 DEF Free
  <2>5. ~Covered(x)
    BY <1>6 DEF Free
  <2>6. x \in 1 .. NBlocks - n
    BY <1>2, <2>1, Sizings
  <2>7. x \in Fits(n)
    BY <2>4, <2>5, <2>6 DEF Fits
  <2>. QED  BY <1>1, <1>2, <2>1, <2>7
<1>. QED  BY <1>2, <1>4, <1>5, <1>6

LEMMA NothingFound ==
    ASSUME SpaceErased, NEW n \in Nat, n >= 1, \A b \in Blocks \ {0} : ~Free(b)
    PROVE  FindFree(n) = NoBlock
BY FoundIsFree

\* while a content is being written nothing is free
LEMMA BegunCovers ==
    ASSUME NEW h, Begun(h)
    PROVE  \A b \in Blocks \ {0} : ~Free(b)
<1>. SUFFICES ASSUME NEW b \in Blocks \ {0} PROVE ~Free(b)
  OBVIOUS
<1>1. /\ b \in Nat /\ b >= 1 /\ b <= NBlocks - 1
      /\ h.block \in Nat /\ h.block >= 1 /\ h.block <= NBlocks - 1
  BY Sizings DEF Blocks, Begun
<1>2. CASE b < h.block
  <2>1. b \in 1 .. h.block - 1
    BY <1>1, <1>2
  <2>. QED  BY <2>1 DEF Begun
<1>3. CASE b = h.block
  BY <1>3 DEF Begun, Free, FirstWordErased
<1>4. CASE b > h.block
  <2>1. h.block \in 1 .. b - 1
    BY <1>1, <1>4
  <2>2. kind[h.block] \in Objects /\ size[h.block] = Blank
    BY DEF Begun, Objects
  <2>3. Covered(b)
    BY <2>1, <2>2 DEF Covered
  <2>. QED  BY <2>3 DEF Free
<1>. QED  BY <1>1, <1>2, <1>3, <1>4

\* an erased flash has the layout
LEMMA ErasedLayout ==
    ASSUME TypeOK, \A b \in Blocks : Untouched(b)
    PROVE  SpaceErased /\ ObjectsApart /\ LinksLead
<1>1. \A b \in Blocks : kind[b] = "erased" /\ units[b] = BlankUnits /\ kind[b] \notin Objects
                        /\ kind[b] \notin Linked
  BY DEF Untouched, Objects, Linked
<1>2. \A b \in Blocks : ~Covered(b)
  <2>. SUFFICES ASSUME NEW b \in Blocks, NEW c \in 1 .. b - 1 PROVE kind[c] \notin Objects
    BY DEF Covered
  <2>1. c \in Blocks
    BY Sizings DEF Blocks
  <2>. QED  BY <1>1, <2>1
<1>3. 0 \in Slots
  BY Sizings DEF Slots
<1>4. \A b \in Blocks : FirstWordErased(b)
  BY <1>1, <1>3 DEF FirstWordErased, BlankUnits
<1>5. \A b \in Blocks : Free(b)
  BY <1>2, <1>4 DEF Free
<1>6. \A b \in Blocks \ {0}, c \in Blocks : c \in b .. NBlocks - 1 => Free(c) /\ Untouched(c)
  BY <1>5
<1>7. \A b \in Blocks \ {0} : \A c \in b .. NBlocks - 1 : c \in Blocks
  BY Sizings DEF Blocks
<1>8. SpaceErased
  BY <1>6, <1>7 DEF SpaceErased
<1>. QED  BY <1>1, <1>4, <1>8 DEF ObjectsApart, LinksLead

(***************************************************************************)
(* Programming the header of a new object.                                 *)
(***************************************************************************)

\* everything from block b on is free and erased, and nothing before it is free
SpaceFrom(b) ==
    /\ b \in Blocks \ {0}
    /\ \A c \in b .. NBlocks - 1 : Free(c) /\ Untouched(c)
    /\ \A x \in 1 .. b - 1 : ~Free(x)

LEMMA FreeAndErased ==
    ASSUME NEW b, SpaceFrom(b)
    PROVE  /\ b \in Blocks /\ b \in Nat /\ b >= 1 /\ b <= NBlocks - 1
           /\ \A c \in Blocks : c >= b => Free(c) /\ Untouched(c)
           /\ \A x \in Blocks : x # 0 /\ x < b => ~Free(x)
<1>1. b \in Blocks /\ b \in Nat /\ b >= 1 /\ b <= NBlocks - 1
  BY Sizings DEF SpaceFrom, Blocks
<1>2. \A c \in Blocks : c >= b => c \in b .. NBlocks - 1
  BY <1>1, Sizings DEF Blocks
<1>3. \A x \in Blocks : x # 0 /\ x < b => x \in 1 .. b - 1
  BY <1>1, Sizings DEF Blocks
<1>. QED  BY <1>1, <1>2, <1>3 DEF SpaceFrom

LEMMA FoundSpace ==
    ASSUME SpaceErased, NEW n \in Nat, n >= 1, FindFree(n) # NoBlock
    PROVE  SpaceFrom(FindFree(n))
BY FoundIsFree DEF SpaceFrom

\* the fields of the blocks after the program
LEMMA HeaderFields ==
    ASSUME TypeOK, NEW b \in Blocks, NEW type, NEW sz, NEW nm, Header(b, type, sz, nm)
    PROVE  /\ \A x \in Blocks : kind'[x] = IF x = b THEN type ELSE kind[x]
           /\ \A x \in Blocks : size'[x] = IF x = b THEN sz ELSE size[x]
           /\ len' = len /\ link' = link /\ entries' = entries /\ units' = units
BY DEF TypeOK, Header

\* the blocks that objects cover after the program
LEMMA HeaderCovers ==
    ASSUME TypeOK, NEW b, SpaceFrom(b), NEW type \in Objects, NEW sz \in {1, Blank}, NEW nm,
           Header(b, type, sz, nm)
    PROVE  \A x \in Blocks : Covered(x)' <=> Covered(x) \/ (sz = Blank /\ b < x)
<1>1. b \in Blocks /\ b \in Nat /\ b >= 1 /\ b <= NBlocks - 1 /\ kind[b] \notin Objects
  <2>1. kind[b] = "erased"
    BY FreeAndErased DEF Untouched
  <2>. QED  BY <2>1, FreeAndErased DEF Objects
<1>2. \A c \in Blocks : /\ kind'[c] = IF c = b THEN type ELSE kind[c]
                        /\ size'[c] = IF c = b THEN sz ELSE size[c]
  BY <1>1, HeaderFields
<1>. SUFFICES ASSUME NEW x \in Blocks
              PROVE  Covered(x)' <=> Covered(x) \/ (sz = Blank /\ b < x)
  OBVIOUS
<1>3. x \in Nat /\ \A c \in 1 .. x - 1 : c \in Blocks /\ c \in Nat /\ c < x
  BY Sizings DEF Blocks
<1>4. ASSUME Covered(x)'
      PROVE  Covered(x) \/ (sz = Blank /\ b < x)
  <2>1. PICK c \in 1 .. x - 1 : kind'[c] \in Objects /\ (size'[c] = Blank \/ x < c + size'[c])
    BY <1>4 DEF Covered
  <2>2. CASE c = b
    <3>1. size'[c] = sz /\ b < x
      BY <1>2, <1>3, <2>1, <2>2
    <3>2. sz = 1 => ~ (x < c + size'[c]) /\ size'[c] # Blank
      BY <1>1, <1>3, <2>2, <3>1 DEF Blank
    <3>. QED  BY <2>1, <3>1, <3>2
  <2>3. CASE c # b
    <3>1. kind[c] \in Objects /\ (size[c] = Blank \/ x < c + size[c])
      BY <1>2, <1>3, <2>1, <2>3
    <3>. QED  BY <2>1, <3>1 DEF Covered
  <2>. QED  BY <2>2, <2>3
<1>5. ASSUME Covered(x)
      PROVE  Covered(x)'
  <2>1. PICK c \in 1 .. x - 1 : kind[c] \in Objects /\ (size[c] = Blank \/ x < c + size[c])
    BY <1>5 DEF Covered
  <2>2. c # b /\ c \in Blocks
    BY <1>1, <1>3, <2>1
  <2>3. kind'[c] \in Objects /\ (size'[c] = Blank \/ x < c + size'[c])
    BY <1>2, <2>1, <2>2
  <2>. QED  BY <2>1, <2>3 DEF Covered
<1>6. ASSUME sz = Blank, b < x
      PROVE  Covered(x)'
  <2>1. b \in 1 .. x - 1
    BY <1>1, <1>3, <1>6
  <2>2. kind'[b] \in Objects /\ size'[b] = Blank
    BY <1>1, <1>2, <1>6
  <2>. QED  BY <2>1, <2>2 DEF Covered
<1>. QED  BY <1>4, <1>5, <1>6

\* the blocks that are free after the program
LEMMA HeaderFree ==
    ASSUME TypeOK, NEW b, SpaceFrom(b), NEW type \in Objects, NEW sz \in {1, Blank}, NEW nm,
           Header(b, type, sz, nm)
    PROVE  \A x \in Blocks : Free(x)' <=> Free(x) /\ x # b /\ ~(sz = Blank /\ b < x)
<1>. SUFFICES ASSUME NEW x \in Blocks
              PROVE  Free(x)' <=> Free(x) /\ x # b /\ ~(sz = Blank /\ b < x)
  OBVIOUS
<1>1. b \in Blocks
  BY FreeAndErased
<1>2. /\ kind'[x] = IF x = b THEN type ELSE kind[x]
      /\ units'[x] = units[x]
  BY <1>1, HeaderFields
<1>3. type # "erased"
  BY DEF Objects
<1>4. FirstWordErased(x)' <=> FirstWordErased(x) /\ x # b
  <2>1. FirstWordErased(x)' <=> kind'[x] = "erased" /\ units'[x][0] = Blank
    BY DEF FirstWordErased
  <2>2. CASE x = b
    BY <1>2, <1>3, <2>1, <2>2
  <2>3. CASE x # b
    BY <1>2, <2>1, <2>3 DEF FirstWordErased
  <2>. QED  BY <2>2, <2>3
<1>5. Covered(x)' <=> Covered(x) \/ (sz = Blank /\ b < x)
  BY HeaderCovers
<1>6. Free(x)' <=> ~Covered(x)' /\ FirstWordErased(x)'
  BY DEF Free
<1>. QED  BY <1>4, <1>5, <1>6 DEF Free

LEMMA HeaderLayout ==
    ASSUME TypeOK, SpaceErased, ObjectsApart, LinksLead,
           NEW b, SpaceFrom(b), NEW type \in Objects, NEW sz \in {1, Blank}, NEW nm,
           Header(b, type, sz, nm)
    PROVE  SpaceErased' /\ ObjectsApart' /\ LinksLead'
<1>1. /\ b \in Blocks /\ b \in Nat /\ b >= 1 /\ b <= NBlocks - 1
      /\ \A c \in Blocks : c >= b => Free(c) /\ Untouched(c)
      /\ \A x \in Blocks : x # 0 /\ x < b => ~Free(x)
  BY FreeAndErased
<1>2. /\ \A x \in Blocks : kind'[x] = IF x = b THEN type ELSE kind[x]
      /\ \A x \in Blocks : size'[x] = IF x = b THEN sz ELSE size[x]
      /\ len' = len /\ link' = link /\ units' = units
  BY <1>1, HeaderFields
<1>3. \A x \in Blocks : Covered(x)' <=> Covered(x) \/ (sz = Blank /\ b < x)
  BY HeaderCovers
<1>4. \A x \in Blocks : Free(x)' <=> Free(x) /\ x # b /\ ~(sz = Blank /\ b < x)
  BY HeaderFree
<1>5. \A x \in Blocks : x \in Nat /\ x <= NBlocks - 1
  BY Sizings DEF Blocks
<1>6. kind[b] = "erased" /\ link[b] = Blank /\ ~Covered(b)
  BY <1>1 DEF Untouched, Free
<1>7. SpaceErased'
  <2>. SUFFICES ASSUME NEW x \in Blocks, x # 0, Free(x)', NEW c \in x .. NBlocks - 1
                PROVE  Free(c)' /\ Untouched(c)'
    BY DEF SpaceErased
  <2>1. c \in Blocks /\ c \in Nat /\ c >= x
    BY <1>5, Sizings DEF Blocks
  <2>2. Free(x) /\ x # b /\ ~(sz = Blank /\ b < x)
    BY <1>4
  <2>3. x > b /\ sz = 1
    BY <1>1, <1>5, <2>2
  <2>4. Free(c) /\ Untouched(c) /\ c # b /\ sz # Blank
    BY <1>1, <1>5, <2>1, <2>3 DEF Blank
  <2>5. Free(c)'
    BY <1>4, <2>1, <2>4
  <2>6. Untouched(c)'
    BY <1>2, <2>1, <2>4 DEF Untouched
  <2>. QED  BY <2>5, <2>6
<1>8. ObjectsApart'
  <2>. SUFFICES ASSUME NEW x \in Blocks, x # 0
                PROVE  /\ kind'[x] \in Objects => ~Covered(x)' /\ (size'[x] = Blank \/ size'[x] >= 1)
                       /\ ~Covered(x)' => kind'[x] \in Objects \/ FirstWordErased(x)'
    BY DEF ObjectsApart
  <2>1. CASE x = b
    <3>1. kind'[x] \in Objects /\ size'[x] = sz
      BY <1>2, <2>1
    <3>2. ~Covered(x)'
      BY <1>1, <1>3, <1>6, <2>1
    <3>. QED  BY <3>1, <3>2
  <2>2. CASE x # b
    <3>1. kind'[x] = kind[x] /\ size'[x] = size[x] /\ units'[x] = units[x]
      BY <1>2, <2>2
    <3>2. x > b => kind[x] \notin Objects
      BY <1>1, <1>5 DEF Untouched, Objects
    <3>3. kind[x] \in Objects => ~Covered(x) /\ (size[x] = Blank \/ size[x] >= 1)
      BY DEF ObjectsApart
    <3>4. ~Covered(x) => kind[x] \in Objects \/ FirstWordErased(x)
      BY DEF ObjectsApart
    <3>5. kind'[x] \in Objects => ~Covered(x)' /\ (size'[x] = Blank \/ size'[x] >= 1)
      BY <1>3, <3>1, <3>2, <3>3
    <3>6. ~Covered(x)' => kind'[x] \in Objects \/ FirstWordErased(x)'
      BY <1>3, <3>1, <3>4 DEF FirstWordErased
    <3>. QED  BY <3>5, <3>6
  <2>. QED  BY <2>1, <2>2
<1>9. LinksLead'
  <2>. SUFFICES ASSUME NEW x \in Blocks, kind'[x] \in Linked, link'[x] # Blank
                PROVE  x + link'[x] \in Blocks /\ kind'[x + link'[x]] = "content"
    BY DEF LinksLead
  <2>1. x # b
    BY <1>2, <1>6
  <2>2. x + link[x] \in Blocks /\ kind[x + link[x]] = "content"
    BY <1>2, <2>1 DEF LinksLead
  <2>3. x + link[x] # b
    BY <1>6, <2>2
  <2>. QED  BY <1>2, <2>2, <2>3
<1>. QED  BY <1>7, <1>8, <1>9

\* the file system header lies before the objects
LEMMA FrontLayout ==
    ASSUME TypeOK, SpaceErased, ObjectsApart, LinksLead, kind[0] \in {"erased", "header"},
           NEW sz, NEW nm, Header(0, "header", sz, nm)
    PROVE  SpaceErased' /\ ObjectsApart' /\ LinksLead'
<1>1. /\ \A x \in Blocks : kind'[x] = IF x = 0 THEN "header" ELSE kind[x]
      /\ \A x \in Blocks : size'[x] = IF x = 0 THEN sz ELSE size[x]
      /\ len' = len /\ link' = link /\ units' = units
  BY HeaderFields, Sizings
<1>2. \A x \in Blocks : x \in Nat /\ x <= NBlocks - 1
  BY Sizings DEF Blocks
<1>3. \A x \in Blocks : Covered(x)' <=> Covered(x)
  <2>. SUFFICES ASSUME NEW x \in Blocks PROVE Covered(x)' <=> Covered(x)
    OBVIOUS
  <2>1. \A c \in 1 .. x - 1 : c \in Blocks /\ c # 0
    BY <1>2, Sizings DEF Blocks
  <2>2. \A c \in 1 .. x - 1 : kind'[c] = kind[c] /\ size'[c] = size[c]
    BY <1>1, <2>1
  <2>. QED  BY <2>2 DEF Covered
<1>4. \A x \in Blocks : x # 0 => /\ FirstWordErased(x)' <=> FirstWordErased(x)
                                 /\ Untouched(x)' <=> Untouched(x)
  BY <1>1 DEF FirstWordErased, Untouched
<1>5. \A x \in Blocks : x # 0 => (Free(x)' <=> Free(x))
  BY <1>3, <1>4 DEF Free
<1>6. SpaceErased'
  <2>. SUFFICES ASSUME NEW x \in Blocks, x # 0, Free(x)', NEW c \in x .. NBlocks - 1
                PROVE  Free(c)' /\ Untouched(c)'
    BY DEF SpaceErased
  <2>1. c \in Blocks /\ c # 0
    BY <1>2, Sizings DEF Blocks
  <2>2. Free(c) /\ Untouched(c)
    BY <1>5 DEF SpaceErased
  <2>. QED  BY <1>4, <1>5, <2>1, <2>2
<1>7. ObjectsApart'
  BY <1>1, <1>3, <1>4 DEF ObjectsApart
<1>8. LinksLead'
  <2>. SUFFICES ASSUME NEW x \in Blocks, kind'[x] \in Linked, link'[x] # Blank
                PROVE  x + link'[x] \in Blocks /\ kind'[x + link'[x]] = "content"
    BY DEF LinksLead
  <2>1. x # 0
    BY <1>1 DEF Linked
  <2>2. x + link[x] \in Blocks /\ kind[x + link[x]] = "content"
    BY <1>1, <2>1 DEF LinksLead
  <2>3. x + link[x] # 0
    BY <2>2
  <2>. QED  BY <1>1, <2>2, <2>3
<1>. QED  BY <1>6, <1>7, <1>8

(***************************************************************************)
(* Writing a content.                                                      *)
(***************************************************************************)

LEMMA BegunAt ==
    ASSUME NEW h, Begun(h)
    PROVE  /\ h.block \in Blocks /\ h.block \in Nat /\ h.block >= 1 /\ h.block <= NBlocks - 1
           /\ \A x \in Blocks : x > h.block =>
                  kind[x] = "erased" /\ size[x] = Blank /\ len[x] = Blank /\ link[x] = Blank
           /\ \A x \in Blocks : x # 0 /\ x < h.block => ~Free(x)
<1>1. h.block \in Blocks /\ h.block \in Nat /\ h.block >= 1 /\ h.block <= NBlocks - 1
  BY Sizings DEF Begun, Blocks
<1>2. \A x \in Blocks : x > h.block => x \in h.block + 1 .. NBlocks - 1
  BY <1>1, Sizings DEF Blocks
<1>3. \A x \in Blocks : x # 0 /\ x < h.block => x \in 1 .. h.block - 1
  BY <1>1, Sizings DEF Blocks
<1>. QED  BY <1>1, <1>2, <1>3 DEF Begun

\* Begun reads the flash and four fields of the handle
LEMMA SameContent ==
    ASSUME NEW g, NEW h, Begun(h), g.file = h.file, g.head = h.head, g.block = h.block,
           g.pos = h.pos
    PROVE  Begun(g)
BY DEF Begun, FromReady, From, Ahead

LEMMA SameFlash ==
    ASSUME UNCHANGED flash
    PROVE  /\ \A b : Free(b)' <=> Free(b)
           /\ \A b : Covered(b)' <=> Covered(b)
           /\ SpaceErased' <=> SpaceErased
           /\ ObjectsApart' <=> ObjectsApart
           /\ LinksLead' <=> LinksLead
           /\ \A h : Begun(h)' <=> Begun(h)
           /\ \A h : Complete(h)' <=> Complete(h)
           /\ \A h : FromReady(h)' <=> FromReady(h)
<1>1. \A b : FirstWordErased(b)' <=> FirstWordErased(b)
  BY DEF FirstWordErased, flash
<1>2. \A b : Covered(b)' <=> Covered(b)
  BY DEF Covered, flash
<1>3. \A b : Free(b)' <=> Free(b)
  BY <1>1, <1>2 DEF Free
<1>4. \A b : Untouched(b)' <=> Untouched(b)
  BY DEF Untouched, flash
<1>5. SpaceErased' <=> SpaceErased
  BY <1>3, <1>4 DEF SpaceErased
<1>6. ObjectsApart' <=> ObjectsApart
  BY <1>1, <1>2 DEF ObjectsApart, flash
<1>7. LinksLead' <=> LinksLead
  BY DEF LinksLead, flash
<1>8. \A h : FromReady(h)' <=> FromReady(h)
  BY DEF FromReady, From, flash
<1>9. \A h : Complete(h)' <=> Complete(h)
  BY <1>8 DEF Complete, From, flash
<1>10. \A h : Begun(h)' <=> Begun(h)
  BY <1>3, <1>8 DEF Begun, From, Ahead, flash
<1>. QED  BY <1>2, <1>3, <1>5, <1>6, <1>7, <1>8, <1>9, <1>10

\* the page and the slot of the append position
PageAt(h) == h.block + h.pos \div PageUnits
SlotAt(h) == h.pos % PageUnits

\* a page program, n bytes from the append position on
Programmed(h, n, text) ==
    IF PageAt(h) \in Blocks
    THEN [units EXCEPT ![PageAt(h)] = [s \in Slots |->
            IF s \in SlotAt(h) .. SlotAt(h) + n - 1 THEN Over(@[s], text[s - SlotAt(h) + 1])
            ELSE @[s]]]
    ELSE units

\* slot s of block x is one of the n bytes
Within(h, n, x, s) == x = PageAt(h) /\ s >= SlotAt(h) /\ s < SlotAt(h) + n

LEMMA AppendUnits ==
    ASSUME TypeOK, NEW h, Begun(h), h.pos \in Nat,
           NEW n \in Nat, NEW text \in Seq(Byte), n <= Len(text),
           units' = Programmed(h, n, text)
    PROVE  /\ \A x \in Blocks, s \in Slots :
                 \/ Within(h, n, x, s) /\ units[x][s] = Blank /\ units'[x][s] \in Byte
                 \/ ~Within(h, n, x, s) /\ units'[x][s] = units[x][s]
           /\ units' \in [Blocks -> [Slots -> Int]]
           /\ \A x \in Blocks : x # PageAt(h) => units'[x] = units[x]
<1>1. PICK at \in Nat : at = SlotAt(h)
  BY Place DEF SlotAt
<1>2. PICK b : b = PageAt(h)
  OBVIOUS
<1>3. /\ units \in [Blocks -> [Slots -> Int]]
      /\ \A s \in Slots : s \in Nat
      /\ Byte \subseteq Int
  BY Sizings DEF TypeOK, Slots, Byte, Blank
<1>4. CASE b \in Blocks
  <2>1. units' = [units EXCEPT ![b] = [s \in Slots |->
                    IF s \in at .. at + n - 1 THEN Over(units[b][s], text[s - at + 1])
                    ELSE units[b][s]]]
    BY <1>1, <1>2, <1>4 DEF Programmed
  <2>2. \A x \in Blocks : x # b => units'[x] = units[x]
    BY <1>3, <2>1
  <2>3. units'[b] = [s \in Slots |->
                       IF s \in at .. at + n - 1 THEN Over(units[b][s], text[s - at + 1])
                       ELSE units[b][s]]
    BY <1>3, <1>4, <2>1
  <2>4. ASSUME NEW s \in Slots, s >= at, s < at + n
        PROVE  units[b][s] = Blank /\ units'[b][s] \in Byte
    <3>1. s \in at .. at + n - 1 /\ s - at + 1 \in 1 .. Len(text)
      BY <1>1, <1>3, <2>4
    <3>2. units[b][s] = Blank
      BY <1>1, <1>2, <1>4, <2>4 DEF Begun, Ahead, PageAt, SlotAt
    <3>3. units'[b][s] = text[s - at + 1]
      BY <2>3, <3>1, <3>2 DEF Over
    <3>. QED  BY <3>1, <3>2, <3>3
  <2>5. ASSUME NEW s \in Slots, ~(s >= at /\ s < at + n)
        PROVE  units'[b][s] = units[b][s]
    <3>1. s \notin at .. at + n - 1
      BY <1>1, <1>3, <2>5
    <3>. QED  BY <2>3, <3>1
  <2>6. \A s \in Slots : units'[b][s] \in Int
    BY <1>3, <1>4, <2>4, <2>5
  <2>7. units'[b] \in [Slots -> Int]
    BY <2>3, <2>6
  <2>8. units' \in [Blocks -> [Slots -> Int]]
    BY <1>3, <2>1, <2>3, <2>7
  <2>9. \A x \in Blocks, s \in Slots :
          Within(h, n, x, s) <=> x = b /\ s >= at /\ s < at + n
    BY <1>1, <1>2 DEF Within
  <2>. QED  BY <1>2, <2>2, <2>4, <2>5, <2>8, <2>9
<1>5. CASE b \notin Blocks
  BY <1>3, <1>2, <1>5 DEF Programmed, Within
<1>. QED  BY <1>4, <1>5

\* while a content is being written its pages are the only ones programmed
LEMMA AppendLayout ==
    ASSUME TypeOK, SpaceErased, ObjectsApart, LinksLead, NEW h, Begun(h), h.pos \in Nat,
           NEW b \in Nat, b >= h.block, UNCHANGED <<kind, size, len, link>>,
           \A x \in Blocks : x # b => units'[x] = units[x],
           \A x \in Blocks, s \in Slots : units[x][s] # Blank => units'[x][s] = units[x][s]
    PROVE  /\ SpaceErased' /\ ObjectsApart' /\ LinksLead'
           /\ \A x \in Blocks : x # 0 => ~Free(x)'
<1>1. /\ h.block \in Blocks /\ h.block \in Nat /\ h.block >= 1
      /\ \A x \in Blocks : x \in Nat
      /\ 0 \in Slots
  BY BegunAt, Sizings DEF Blocks, Slots
<1>2. \A x : Covered(x)' <=> Covered(x)
  BY DEF Covered
<1>3. \A x \in Blocks : FirstWordErased(x)' => FirstWordErased(x)
  BY <1>1 DEF FirstWordErased
<1>4. \A x \in Blocks : x # 0 => ~Free(x)'
  BY <1>2, <1>3, BegunCovers DEF Free
<1>5. SpaceErased'
  BY <1>4 DEF SpaceErased
<1>6. ObjectsApart'
  <2>. SUFFICES ASSUME NEW x \in Blocks, x # 0
                PROVE  /\ kind'[x] \in Objects => ~Covered(x)' /\ (size'[x] = Blank \/ size'[x] >= 1)
                       /\ ~Covered(x)' => kind'[x] \in Objects \/ FirstWordErased(x)'
    BY DEF ObjectsApart
  <2>1. kind'[x] \in Objects => ~Covered(x)' /\ (size'[x] = Blank \/ size'[x] >= 1)
    BY <1>2 DEF ObjectsApart
  <2>2. ASSUME ~Covered(x) PROVE kind[x] \in Objects \/ FirstWordErased(x)'
    <3>1. CASE x = b
      <4>1. b = h.block => kind[x] \in Objects
        BY <3>1 DEF Begun, Objects
      <4>2. b > h.block => Covered(x)
        <5>. SUFFICES ASSUME b > h.block PROVE Covered(x)
          OBVIOUS
        <5>1. h.block \in 1 .. x - 1
          BY <1>1, <3>1
        <5>. QED  BY <5>1 DEF Covered, Begun, Objects
      <4>. QED  BY <1>1, <2>2, <4>1, <4>2
    <3>2. CASE x # b
      <4>1. FirstWordErased(x)' <=> FirstWordErased(x)
        BY <3>2 DEF FirstWordErased
      <4>. QED  BY <2>2, <4>1 DEF ObjectsApart
    <3>. QED  BY <3>1, <3>2
  <2>. QED  BY <1>2, <2>1, <2>2
<1>7. LinksLead'
  BY DEF LinksLead
<1>. QED  BY <1>4, <1>5, <1>6, <1>7

LEMMA AppendBegun ==
    ASSUME TypeOK, SpaceErased, ObjectsApart, LinksLead, NEW h, Begun(h), h.pos \in Nat,
           NEW n \in Nat, n <= PageUnits - SlotAt(h), NEW text \in Seq(Byte), n <= Len(text),
           units' = Programmed(h, n, text), UNCHANGED <<kind, size, len, link>>,
           NEW g, g.file = h.file, g.head = h.head, g.block = h.block, g.pos = h.pos + n
    PROVE  /\ SpaceErased' /\ ObjectsApart' /\ LinksLead'
           /\ Begun(g)'
<1>1. /\ \A x \in Blocks, s \in Slots :
            \/ Within(h, n, x, s) /\ units[x][s] = Blank /\ units'[x][s] \in Byte
            \/ ~Within(h, n, x, s) /\ units'[x][s] = units[x][s]
      /\ \A x \in Blocks : x # PageAt(h) => units'[x] = units[x]
  BY AppendUnits
<1>2. /\ h.block \in Blocks /\ h.block \in Nat /\ h.block >= 1 /\ h.block <= NBlocks - 1
      /\ \A x \in Blocks : x \in Nat
      /\ \A s \in Slots : s \in Nat
  BY BegunAt, Sizings DEF Blocks, Slots
<1>3. PICK q \in Nat, r \in Nat : /\ q = h.pos \div PageUnits /\ r = h.pos % PageUnits
                                 /\ r < PageUnits /\ h.pos = PageUnits * q + r
  BY Place
<1>4. PICK b \in Nat, at \in Nat : b = PageAt(h) /\ at = SlotAt(h) /\ b = h.block + q /\ at = r
  BY <1>2, <1>3 DEF PageAt, SlotAt
<1>5. /\ SpaceErased' /\ ObjectsApart' /\ LinksLead'
      /\ \A x \in Blocks : x # 0 => ~Free(x)'
  <2>1. b >= h.block
    BY <1>2, <1>3, <1>4
  <2>2. \A x \in Blocks, s \in Slots : units[x][s] # Blank => units'[x][s] = units[x][s]
    BY <1>1
  <2>. QED  BY <1>1, <1>4, <2>1, <2>2, AppendLayout
<1>6. /\ n < PageUnits - r => g.pos \div PageUnits = q /\ g.pos % PageUnits = r + n
      /\ n = PageUnits - r => g.pos \div PageUnits = q + 1 /\ g.pos % PageUnits = 0
  <2>1. /\ n < PageUnits - r => (h.pos + n) \div PageUnits = q /\ (h.pos + n) % PageUnits = r + n
        /\ n = PageUnits - r => (h.pos + n) \div PageUnits = q + 1 /\ (h.pos + n) % PageUnits = 0
    BY <1>3, PlaceAfter
  <2>. QED  BY <2>1
<1>7. ASSUME NEW x \in Blocks, NEW s \in Slots, Ahead(g, x, s)
      PROVE  units'[x][s] = Blank
  <2>1. \/ x > g.block + g.pos \div PageUnits
        \/ x = g.block + g.pos \div PageUnits /\ s >= g.pos % PageUnits
    BY <1>7 DEF Ahead
  <2>2. x > b \/ (x = b /\ s >= at + n)
    <3>1. CASE n < PageUnits - r
      BY <1>2, <1>3, <1>4, <1>6, <2>1, <3>1
    <3>2. CASE n = PageUnits - r
      BY <1>2, <1>3, <1>4, <1>6, <2>1, <3>2
    <3>3. PageUnits \in Nat /\ n <= PageUnits - r
      BY <1>4, Sizings
    <3>. QED  BY <3>1, <3>2, <3>3
  <2>3. x > h.block + h.pos \div PageUnits \/ (x = h.block + h.pos \div PageUnits /\ s >= h.pos % PageUnits)
    BY <1>2, <1>3, <1>4, <2>2
  <2>4. Ahead(h, x, s)
    BY <2>3 DEF Ahead
  <2>5. units[x][s] = Blank
    BY <2>4 DEF Begun
  <2>6. ~Within(h, n, x, s)
    BY <1>2, <1>4, <2>2 DEF Within
  <2>. QED  BY <1>1, <2>5, <2>6
<1>8. \A x \in Blocks, s \in Slots : Ahead(g, x, s)' => Ahead(g, x, s)
  BY DEF Ahead
<1>9. \A x \in 1 .. g.block - 1 : ~Free(x)'
  <2>1. \A x \in 1 .. g.block - 1 : x \in Blocks /\ x # 0
    BY <1>2, Sizings DEF Blocks
  <2>. QED  BY <1>5, <2>1
<1>10. From(g)' = From(h) /\ From(h)' = From(h)
  BY DEF From
<1>11. FromReady(g)'
  BY <1>10 DEF FromReady, Begun
<1>12. g.pos >= DataOffset
  BY Sizings DEF Begun
<1>13. g.block \in Blocks \ {0} /\ From(g)' < g.block
  BY <1>10 DEF Begun
<1>14. kind'[g.block] = "content" /\ size'[g.block] = Blank /\ len'[g.block] = Blank
  BY DEF Begun
<1>15. \A x \in g.block + 1 .. NBlocks - 1 :
          kind'[x] = "erased" /\ size'[x] = Blank /\ len'[x] = Blank /\ link'[x] = Blank
  BY DEF Begun
<1>16. \A x \in Blocks, s \in Slots : Ahead(g, x, s)' => units'[x][s] = Blank
  BY <1>7, <1>8
<1>17. Begun(g)'
  BY <1>9, <1>11, <1>12, <1>13, <1>14, <1>15, <1>16 DEF Begun
<1>. QED  BY <1>5, <1>17

\* A finished content covers the pages begun, and what is behind them was never
\* programmed.
LEMMA FinishLayout ==
    ASSUME TypeOK, SpaceErased, ObjectsApart, LinksLead, NEW h, Begun(h), h.pos \in Nat,
           UNCHANGED <<kind, link, units>>,
           size' = [size EXCEPT ![h.block] = Over(@, PagesFor(h.pos))],
           NEW m, len' = [len EXCEPT ![h.block] = m]
    PROVE  SpaceErased' /\ ObjectsApart' /\ LinksLead'
<1>1. /\ h.block \in Blocks /\ h.block \in Nat /\ h.block >= 1
      /\ \A x \in Blocks : x > h.block =>
             kind[x] = "erased" /\ size[x] = Blank /\ len[x] = Blank /\ link[x] = Blank
      /\ \A x \in Blocks : x # 0 /\ x < h.block => ~Free(x)
  BY BegunAt
<1>2. /\ \A x \in Blocks : x \in Nat /\ x <= NBlocks - 1
      /\ \A x \in Blocks : \A c \in 1 .. x - 1 : c \in Blocks /\ c \in Nat /\ c < x /\ c # 0
      /\ \A x \in Blocks : \A c \in x .. NBlocks - 1 : c \in Blocks /\ c \in Nat /\ c >= x
      /\ \A s \in Slots : s \in Nat
      /\ 0 \in Slots
  BY Sizings DEF Blocks, Slots
<1>3. PICK g \in Nat : g = h.block
  BY <1>1
<1>4. kind[g] = "content" /\ kind[g] \in Objects /\ size[g] = Blank
  BY <1>3 DEF Begun, Objects
<1>5. PICK p \in Nat : p = PagesFor(h.pos) /\ p >= 1
  <2>1. h.pos > 0
    BY Sizings DEF Begun
  <2>. QED  BY <2>1, PagesForIs
<1>6. /\ size'[g] = p
      /\ \A x \in Blocks : x # g => size'[x] = size[x] /\ len'[x] = len[x]
  BY <1>1, <1>3, <1>4, <1>5 DEF TypeOK, Over
<1>7. ~Covered(g)
  BY <1>1, <1>3, <1>4 DEF ObjectsApart
<1>8. ASSUME NEW x \in Blocks, x <= g
      PROVE  Covered(x)' <=> Covered(x)
  <2>1. \A c \in 1 .. x - 1 : size'[c] = size[c]
    BY <1>2, <1>6, <1>8
  <2>. QED  BY <2>1 DEF Covered
<1>9. ASSUME NEW x \in Blocks, x > g
      PROVE  Covered(x)' <=> x < g + p
  <2>1. ASSUME Covered(x)' PROVE x < g + p
    <3>1. PICK c \in 1 .. x - 1 : kind'[c] \in Objects /\ (size'[c] = Blank \/ x < c + size'[c])
      BY <2>1 DEF Covered
    <3>2. CASE c = g
      BY <1>5, <1>6, <3>1, <3>2 DEF Blank
    <3>3. CASE c > g
      <4>1. kind[c] = "erased"
        BY <1>1, <1>2, <1>3, <3>1, <3>3
      <4>. QED  BY <3>1, <4>1 DEF Objects
    <3>4. CASE c < g
      <4>1. c \in 1 .. g - 1 /\ c \in Blocks /\ size'[c] = size[c]
        BY <1>2, <1>6, <3>1, <3>4
      <4>2. size[c] \in Int
        <5>1. size[c] \in Field
          BY <4>1 DEF TypeOK
        <5>. QED  BY <5>1 DEF Field, Blank, Torn
      <4>3. kind[c] \in Objects /\ (size[c] = Blank \/ g < c + size[c])
        BY <1>2, <1>9, <3>1, <4>1, <4>2
      <4>4. Covered(g)
        BY <4>1, <4>3 DEF Covered
      <4>. QED  BY <1>7, <4>4
    <3>. QED  BY <1>2, <3>1, <3>2, <3>3, <3>4
  <2>2. ASSUME x < g + p PROVE Covered(x)'
    <3>1. g \in 1 .. x - 1
      BY <1>1, <1>2, <1>3, <1>9
    <3>2. kind'[g] \in Objects /\ x < g + size'[g]
      BY <1>4, <1>6, <2>2
    <3>. QED  BY <3>1, <3>2 DEF Covered
  <2>. QED  BY <2>1, <2>2
<1>10. ASSUME NEW x \in Blocks, x >= g + p
       PROVE  Untouched(x) /\ x > g
  <2>1. x > g
    BY <1>2, <1>5, <1>10
  <2>2. kind[x] = "erased" /\ size[x] = Blank /\ len[x] = Blank /\ link[x] = Blank
    BY <1>1, <1>3, <2>1
  <2>3. PICK q \in Nat, r \in Nat : q = h.pos \div PageUnits /\ r = h.pos % PageUnits
    BY Place
  <2>4. p = IF r = 0 THEN q ELSE q + 1
    BY <1>5, <2>3, PagesForIs
  <2>5. x > g + q \/ (x = g + q /\ r = 0)
    BY <1>2, <1>10, <2>4
  <2>6. \A s \in Slots : Ahead(h, x, s)
    BY <1>2, <1>3, <2>3, <2>5 DEF Ahead
  <2>7. \A s \in Slots : units[x][s] = Blank
    BY <2>6 DEF Begun
  <2>8. units[x] \in [Slots -> Int]
    BY DEF TypeOK
  <2>9. units[x] = BlankUnits
    BY <2>7, <2>8 DEF BlankUnits
  <2>. QED  BY <2>1, <2>2, <2>9 DEF Untouched
<1>11. \A x \in Blocks : FirstWordErased(x)' <=> FirstWordErased(x)
  BY DEF FirstWordErased
<1>12. ASSUME NEW x \in Blocks, x # 0, x <= g
       PROVE  ~Free(x)'
  <2>1. x < g => ~Free(x)
    BY <1>1, <1>3, <1>12
  <2>2. ~FirstWordErased(g)
    BY <1>4 DEF FirstWordErased
  <2>3. x < g \/ x = g
    BY <1>2, <1>12
  <2>. QED  BY <1>8, <1>11, <1>12, <2>1, <2>2, <2>3 DEF Free
<1>13. \A x \in Blocks : x >= g + p => Free(x)' /\ Untouched(x)'
  <2>. SUFFICES ASSUME NEW x \in Blocks, x >= g + p PROVE Free(x)' /\ Untouched(x)'
    OBVIOUS
  <2>1. Untouched(x) /\ x > g
    BY <1>10
  <2>2. ~Covered(x)'
    BY <1>2, <1>5, <1>9, <2>1
  <2>3. FirstWordErased(x)
    BY <1>2, <2>1 DEF Untouched, FirstWordErased, BlankUnits
  <2>4. Untouched(x)'
    BY <1>2, <1>6, <2>1 DEF Untouched
  <2>. QED  BY <1>11, <2>2, <2>3, <2>4 DEF Free
<1>14. SpaceErased'
  <2>. SUFFICES ASSUME NEW x \in Blocks, x # 0, Free(x)', NEW c \in x .. NBlocks - 1
                PROVE  Free(c)' /\ Untouched(c)'
    BY DEF SpaceErased
  <2>1. x > g
    BY <1>2, <1>12
  <2>2. x >= g + p
    BY <1>2, <1>5, <1>9, <2>1 DEF Free
  <2>3. c \in Blocks /\ c >= g + p
    BY <1>2, <1>5, <2>2
  <2>. QED  BY <1>13, <2>3
<1>15. ObjectsApart'
  <2>. SUFFICES ASSUME NEW x \in Blocks, x # 0
                PROVE  /\ kind'[x] \in Objects => ~Covered(x)' /\ (size'[x] = Blank \/ size'[x] >= 1)
                       /\ ~Covered(x)' => kind'[x] \in Objects \/ FirstWordErased(x)'
    BY DEF ObjectsApart
  <2>1. CASE x <= g
    <3>1. kind'[x] \in Objects => ~Covered(x)' /\ (size'[x] = Blank \/ size'[x] >= 1)
      BY <1>5, <1>6, <1>8, <2>1 DEF ObjectsApart
    <3>2. ~Covered(x)' => kind'[x] \in Objects \/ FirstWordErased(x)'
      BY <1>8, <1>11, <2>1 DEF ObjectsApart
    <3>. QED  BY <3>1, <3>2
  <2>2. CASE x > g
    <3>1. kind'[x] = "erased"
      BY <1>1, <1>3, <2>2
    <3>2. ~Covered(x)' => x >= g + p
      BY <1>2, <1>5, <1>9, <2>2
    <3>3. ~Covered(x)' => FirstWordErased(x)'
      BY <1>13, <3>2 DEF Free
    <3>. QED  BY <3>1, <3>3 DEF Objects
  <2>. QED  BY <1>2, <2>1, <2>2
<1>16. LinksLead'
  BY DEF LinksLead
<1>. QED  BY <1>14, <1>15, <1>16

\* the link is the last page programmed
LEMMA LinkLayout ==
    ASSUME TypeOK, SpaceErased, ObjectsApart, LinksLead, NEW h, Complete(h),
           UNCHANGED <<kind, size, len, units>>,
           link' = [link EXCEPT ![From(h)] = Over(@, h.block - From(h))]
    PROVE  /\ SpaceErased' /\ ObjectsApart' /\ LinksLead'
           /\ link' \in [Blocks -> Field] /\ \A b \in Blocks : link'[b] = Torn => link[b] = Torn
<1>1. PICK f \in Blocks, g \in Blocks : /\ f = From(h) /\ g = h.block /\ f < g
                                       /\ kind[f] \in Linked /\ link[f] = Blank
                                       /\ kind[g] = "content"
  BY DEF Complete, FromReady
<1>2. f \in Nat /\ g \in Nat
  BY Sizings DEF Blocks
<1>3. /\ link' = [link EXCEPT ![f] = g - f]
      /\ link'[f] = g - f
      /\ \A b \in Blocks : b # f => link'[b] = link[b]
  BY <1>1 DEF TypeOK, Over
<1>4. g - f \in Nat /\ g - f \in Field /\ g - f # Torn
  BY <1>1, <1>2 DEF Field, Torn
<1>5. \A b : FirstWordErased(b)' <=> FirstWordErased(b)
  BY DEF FirstWordErased
<1>6. \A b : Covered(b)' <=> Covered(b)
  BY DEF Covered
<1>7. \A b : Free(b)' <=> Free(b)
  BY <1>5, <1>6 DEF Free
<1>8. \A b \in Blocks : Untouched(b) => Untouched(b)'
  <2>. SUFFICES ASSUME NEW b \in Blocks, Untouched(b) PROVE Untouched(b)'
    OBVIOUS
  <2>1. b # f
    BY <1>1 DEF Untouched, Linked
  <2>. QED  BY <1>3, <2>1 DEF Untouched
<1>9. SpaceErased'
  <2>. SUFFICES ASSUME NEW b \in Blocks, b # 0, Free(b)', NEW c \in b .. NBlocks - 1
                PROVE  Free(c)' /\ Untouched(c)'
    BY DEF SpaceErased
  <2>1. c \in Blocks
    BY Sizings DEF Blocks
  <2>2. Free(c) /\ Untouched(c)
    BY <1>7 DEF SpaceErased
  <2>. QED  BY <1>7, <1>8, <2>1, <2>2
<1>10. ObjectsApart'
  BY <1>5, <1>6 DEF ObjectsApart
<1>11. LinksLead'
  <2>. SUFFICES ASSUME NEW x \in Blocks, kind'[x] \in Linked, link'[x] # Blank
                PROVE  x + link'[x] \in Blocks /\ kind'[x + link'[x]] = "content"
    BY DEF LinksLead
  <2>1. CASE x = f
    <3>1. x + link'[x] = g
      BY <1>2, <1>3, <2>1
    <3>. QED  BY <1>1, <3>1
  <2>2. CASE x # f
    BY <1>3, <2>2 DEF LinksLead
  <2>. QED  BY <2>1, <2>2
<1>12. link' \in [Blocks -> Field]
  BY <1>3, <1>4 DEF TypeOK
<1>. QED  BY <1>3, <1>4, <1>9, <1>10, <1>11, <1>12

(***************************************************************************)
(* Finding a file and its newest version.                                  *)
(***************************************************************************)

LEMMA LookupFinds ==
    ASSUME TypeOK, EntriesInv, NEW d \in Blocks, NEW type, NEW nm,
           NEW f, f = Lookup(d, type, nm), f # NoBlock
    PROVE  f \in Blocks /\ kind[f] = type
<1>. DEFINE found == Entries(d, type, nm)
<1>1. found \subseteq DOMAIN entries[d] /\ DOMAIN entries[d] \subseteq Nat
  BY DEF Entries, TypeOK
<1>2. found # {} /\ f = d + entries[d][CHOOSE i \in found : \A j \in found : i <= j].offset
  BY DEF Lookup
<1>3. \E i \in found : \A j \in found : i <= j
  BY <1>1, <1>2, Minimum
<1>4. PICK i \in found : f = d + entries[d][i].offset
  BY <1>2, <1>3
<1>5. f \in Blocks
  BY <1>1, <1>4 DEF EntriesInv
<1>6. kind[d + entries[d][i].offset] = type
  BY DEF Entries
<1>. QED  BY <1>4, <1>5, <1>6

\* the function that ChainAt defines
IsWalk(f, n, at) == at = [k \in 0 .. n |-> IF k = 0 THEN f ELSE Newer[at[k - 1]]]

LEMMA WalkExists ==
    ASSUME NEW f, NEW n \in Nat
    PROVE  \E at : IsWalk(f, n, at)
<1>. DEFINE T == {m \in Nat : ~ \E at : IsWalk(f, m, at)}
<1>. SUFFICES ASSUME T # {} PROVE FALSE
  OBVIOUS
<1>1. PICK m \in T : \A k \in T : m <= k
  BY Minimum
<1>2. CASE m = 0
  <2>1. IsWalk(f, 0, [k \in 0 .. 0 |-> f])
    BY DEF IsWalk
  <2>. QED  BY <1>1, <1>2, <2>1
<1>3. CASE m # 0
  <2>1. m - 1 \in Nat /\ m - 1 \notin T
    BY <1>1, <1>3
  <2>2. PICK at : IsWalk(f, m - 1, at)
    BY <2>1
  <2>3. \A k \in 0 .. m - 1 : at[k] = IF k = 0 THEN f ELSE Newer[at[k - 1]]
    BY <2>2 DEF IsWalk
  <2>. DEFINE to == [k \in 0 .. m |-> IF k = m THEN Newer[at[m - 1]] ELSE at[k]]
  <2>4. \A k \in 0 .. m : to[k] = IF k = 0 THEN f ELSE Newer[to[k - 1]]
    <3>. SUFFICES ASSUME NEW k \in 0 .. m PROVE to[k] = IF k = 0 THEN f ELSE Newer[to[k - 1]]
      OBVIOUS
    <3>1. CASE k = m
      <4>1. m - 1 \in 0 .. m /\ m - 1 # m
        BY <2>1
      <4>2. to[m] = Newer[at[m - 1]] /\ to[m - 1] = at[m - 1]
        BY <4>1
      <4>. QED  BY <1>3, <3>1, <4>2
    <3>2. CASE k # m
      <4>1. k \in 0 .. m - 1 /\ (k # 0 => k - 1 \in 0 .. m /\ k - 1 # m)
        BY <2>1, <3>2
      <4>2. to[k] = at[k] /\ (k # 0 => to[k - 1] = at[k - 1])
        BY <3>2, <4>1
      <4>. QED  BY <2>3, <4>1, <4>2
    <3>. QED  BY <3>1, <3>2
  <2>5. IsWalk(f, m, to)
    BY <2>4 DEF IsWalk
  <2>. QED  BY <1>1, <2>5
<1>. QED  BY <1>2, <1>3

LEMMA ChainWalks ==
    ASSUME NEW f, NEW n \in Nat
    PROVE  \E at : IsWalk(f, n, at) /\ ChainAt(f, n) = at[n]
<1>1. ChainAt(f, n) = (CHOOSE at : IsWalk(f, n, at))[n]
  BY DEF ChainAt, IsWalk
<1>. QED  BY <1>1, WalkExists

\* the links of a file lead to contents only
LEMMA ChainLinked ==
    ASSUME TypeOK, LinksLead, NEW f \in Blocks, kind[f] \in Linked, NEW c \in Chain(f)
    PROVE  c \in Blocks /\ kind[c] \in Linked
<1>1. PICK n \in Blocks : c = ChainAt(f, n)
  BY DEF Chain
<1>2. n \in Nat
  BY Sizings DEF Blocks
<1>3. PICK at : IsWalk(f, n, at) /\ c = at[n]
  BY <1>1, <1>2, ChainWalks
<1>4. \A k \in 0 .. n : at[k] = IF k = 0 THEN f ELSE Newer[at[k - 1]]
  BY <1>3 DEF IsWalk
<1>. DEFINE T == {k \in 0 .. n : ~ (at[k] \in Blocks /\ kind[at[k]] \in Linked)}
<1>5. T = {}
  <2>. SUFFICES ASSUME T # {} PROVE FALSE
    OBVIOUS
  <2>1. T \subseteq Nat
    BY <1>2
  <2>2. PICK k \in T : \A m \in T : k <= m
    BY <2>1, Minimum
  <2>3. k # 0
    BY <1>4, <2>1, <2>2
  <2>4. k - 1 \in 0 .. n /\ k - 1 \notin T
    BY <1>2, <2>1, <2>2, <2>3
  <2>5. at[k - 1] \in Blocks /\ kind[at[k - 1]] \in Linked
    BY <2>4
  <2>6. at[k] = Newer[at[k - 1]]
    BY <1>4, <2>2, <2>3
  <2>7. at[k] = IF link[at[k - 1]] = Blank THEN at[k - 1] ELSE at[k - 1] + link[at[k - 1]]
    BY <2>5, <2>6 DEF Newer
  <2>8. at[k] \in Blocks /\ kind[at[k]] \in Linked
    BY <2>5, <2>7 DEF LinksLead, Linked
  <2>. QED  BY <2>2, <2>8
<1>6. n \in 0 .. n
  BY <1>2
<1>. QED  BY <1>3, <1>5, <1>6

(***************************************************************************)
(* Every step keeps the invariant.                                         *)
(***************************************************************************)
Jobs == [do : {"none", "mkdir", "write", "alloc", "append", "finish"}, text : Seq(Int), size : Nat]

Steps == {"boot", "erase", "root", "header", "idle", "enter", "alloc", "append", "finish", "link",
          "undefined"}

FlashTypes ==
    /\ kind \in [Blocks -> Objects \cup {"erased", "header"}]
    /\ size \in [Blocks -> Field] /\ len \in [Blocks -> Field] /\ link \in [Blocks -> Field]
    /\ label \in [Blocks -> Names \cup {NoName}]
    /\ entries \in [Blocks -> Seq([type : Objects, offset : Int])]
    /\ units \in [Blocks -> [Slots -> Int]]

RamTypes ==
    /\ current \in Handles /\ local \in Handles
    /\ step \in Steps /\ job \in Jobs /\ entering \in Blocks \X Blocks
    /\ sector \in 0 .. NBlocks
    /\ stale \in BOOLEAN /\ spilled \in BOOLEAN

LEMMA Types ==
    /\ TypeOK <=> FlashTypes /\ RamTypes
    /\ TypeOK' <=> FlashTypes' /\ RamTypes'
BY DEF TypeOK, FlashTypes, RamTypes, Steps, Jobs

LEMMA SameFlashTypes == ASSUME FlashTypes, UNCHANGED flash PROVE FlashTypes'
BY DEF FlashTypes, flash

LEMMA EmptyHanded ==
    /\ NoHandle \in Handles /\ NoHandle.block = NoBlock /\ NoHandle.file = NoBlock
    /\ <<NoBlock, NoBlock>> \in Blocks \X Blocks /\ 0 \in 0 .. NBlocks
    /\ NoJob \in Jobs /\ NoJob.text \in Seq(Byte) /\ NoJob.do = "none"
<1>1. NoBlock \in Blocks /\ Root \in Blocks
  BY Sizings DEF NoBlock
<1>2. <<>> \in Seq(Int) /\ <<>> \in Seq(Byte) /\ 0 \in 0 .. NBlocks
  BY Sizings
<1>. QED  BY <1>1, <1>2 DEF NoHandle, NoJob, Handles, Jobs, NoBlock

LEMMA ByteIsInt == Seq(Byte) \subseteq Seq(Int)
<1>1. Byte \subseteq Int
  BY DEF Byte, Blank
<1>. SUFFICES ASSUME NEW s \in Seq(Byte) PROVE s \in Seq(Int)
  OBVIOUS
<1>2. Len(s) \in Nat /\ s \in [1 .. Len(s) -> Byte]
  OBVIOUS
<1>3. s \in [1 .. Len(s) -> Int]
  BY <1>1, <1>2
<1>. QED  BY <1>2, <1>3

\* what is known of a handle after the step
LEMMA CurrentThen ==
    ASSUME NEW g, current' = g
    PROVE  /\ Begun(current)' <=> Begun(g)'
           /\ Complete(current)' <=> Complete(g)'
<1>1. From(current)' = From(g)' /\ \A x, s : Ahead(current, x, s)' <=> Ahead(g, x, s)'
  BY DEF From, Ahead
<1>2. FromReady(current)' <=> FromReady(g)'
  BY <1>1 DEF FromReady
<1>. QED  BY <1>1, <1>2 DEF Begun, Complete

LEMMA LocalThen ==
    ASSUME NEW g, local' = g
    PROVE  /\ Begun(local)' <=> Begun(g)'
           /\ Complete(local)' <=> Complete(g)'
           /\ FromReady(local)' <=> FromReady(g)'
<1>1. From(local)' = From(g)' /\ \A x, s : Ahead(local, x, s)' <=> Ahead(g, x, s)'
  BY DEF From, Ahead
<1>2. FromReady(local)' <=> FromReady(g)'
  BY <1>1 DEF FromReady
<1>. QED  BY <1>1, <1>2 DEF Begun, Complete

\* a step that programs nothing
LEMMA NothingProgrammed ==
    ASSUME FlashInv, UNCHANGED flash, step' \notin {"root", "header"}
    PROVE  Layout' /\ EntriesInv' /\ NothingTorn' /\ (step' # "erase" => EraseInv')
<1>1. Layout'
  BY SameFlash DEF Layout, flash, FlashInv
<1>2. EntriesInv'
  BY DEF EntriesInv, flash, FlashInv
<1>3. NothingTorn'
  BY DEF NothingTorn, flash, FlashInv
<1>4. step' # "erase" => EraseInv'
  BY DEF EraseInv, flash, FlashInv
<1>. QED  BY <1>1, <1>2, <1>3, <1>4

LEMMA BootKeeps == ASSUME FlashInv, Boot PROVE FlashInv'
<1>1. TypeOK'
  <2>1. FlashTypes'
    BY Types, SameFlashTypes DEF FlashInv, Boot
  <2>2. RamTypes'
    BY Types, EmptyHanded DEF FlashInv, RamTypes, Boot, Steps
  <2>. QED  BY <2>1, <2>2, Types
<1>2. Layout' /\ EntriesInv' /\ NothingTorn' /\ (step' # "erase" => EraseInv')
  BY NothingProgrammed DEF Boot
<1>3. ~IsOpen /\ ~IsOpen'
  BY DEF FlashInv, HandlesInv, IsOpen, Boot
<1>4. HandlesInv'
  <2>1. step' \in {"idle", "erase"} /\ (step' = "idle" => kind'[0] = "header")
    BY DEF Boot, Mounted, flash
  <2>2. (current.block # NoBlock => current.file # NoBlock)'
    BY DEF FlashInv, HandlesInv, Boot
  <2>3. job'.text \in Seq(Byte)
    BY DEF FlashInv, HandlesInv, Boot
  <2>. QED  BY <1>3, <2>1, <2>2, <2>3 DEF HandlesInv
<1>5. step' = "erase" => EraseInv'
  <2>. SUFFICES ASSUME step' = "erase" PROVE EraseInv'
    OBVIOUS
  <2>1. sector' = 0 /\ 0 <= LastSector /\ \A b \in Blocks : ~ (b \div SectorBlocks < 0)
    BY SectorsCover DEF Boot
  <2>2. kind'[0] \in {"erased", "header"}
    BY DEF FlashInv, EraseInv, Boot, flash
  <2>. QED  BY <2>1, <2>2 DEF EraseInv
<1>. QED  BY <1>1, <1>2, <1>4, <1>5 DEF FlashInv

LEMMA MkfsKeeps == ASSUME FlashInv, Mkfs PROVE FlashInv'
<1>1. TypeOK'
  <2>1. Outdated(current) \in Handles
    <3>1. /\ Outdated(current).file = Root /\ Outdated(current).block \in {NoBlock, Root}
          /\ Outdated(current) = [NoHandle EXCEPT !.file = Outdated(current).file,
                                                 !.block = Outdated(current).block]
      BY DEF Outdated, NoHandle
    <3>2. NoBlock \in Blocks /\ Root \in Blocks
      BY Sizings DEF NoBlock
    <3>. QED  BY <3>1, <3>2, EmptyHanded DEF Handles
  <2>2. FlashTypes'
    BY Types, SameFlashTypes DEF FlashInv, Mkfs
  <2>3. RamTypes'
    BY <2>1, Types, EmptyHanded DEF FlashInv, RamTypes, Mkfs, Steps
  <2>. QED  BY <2>2, <2>3, Types
<1>2. Layout' /\ EntriesInv' /\ NothingTorn'
  BY NothingProgrammed DEF Mkfs
<1>3. ~IsOpen' /\ (current.block # NoBlock => current.file # NoBlock)'
  <2>1. Outdated(current).file = Root /\ Root # NoBlock
    BY DEF Outdated, NoHandle, Root, NoBlock
  <2>. QED  BY <2>1 DEF FlashInv, HandlesInv, IsOpen, Mkfs
<1>4. HandlesInv'
  <2>1. step' = "erase" /\ job' = job
    BY DEF Mkfs
  <2>2. job'.text \in Seq(Byte)
    BY <2>1 DEF FlashInv, HandlesInv
  <2>. QED  BY <1>3, <2>1, <2>2 DEF HandlesInv
<1>5. EraseInv'
  <2>1. sector' = 0 /\ step' = "erase" /\ 0 <= LastSector /\ \A b \in Blocks : ~ (b \div SectorBlocks < 0)
    BY SectorsCover DEF Mkfs
  <2>2. kind'[0] \in {"erased", "header"}
    BY DEF FlashInv, EraseInv, Mkfs, flash
  <2>. QED  BY <2>1, <2>2 DEF EraseInv
<1>. QED  BY <1>1, <1>2, <1>4, <1>5 DEF FlashInv

LEMMA RestartKeeps == ASSUME FlashInv, Restart PROVE FlashInv'
<1>1. TypeOK'
  <2>1. FlashTypes'
    BY Types, SameFlashTypes DEF FlashInv, Restart
  <2>2. RamTypes'
    BY Types, EmptyHanded DEF FlashInv, RamTypes, Restart, Steps
  <2>. QED  BY <2>1, <2>2, Types
<1>2. Layout' /\ EntriesInv' /\ NothingTorn' /\ EraseInv'
  BY NothingProgrammed DEF Restart
<1>3. HandlesInv'
  BY EmptyHanded DEF HandlesInv, IsOpen, Restart
<1>. QED  BY <1>1, <1>2, <1>3 DEF FlashInv

\* a header put into an erased block
LEMMA HeaderTypes ==
    ASSUME FlashTypes, NEW b \in Blocks, NEW type \in Objects \cup {"header"}, NEW sz \in {1, Blank},
           NEW nm \in Names \cup {NoName}, Header(b, type, sz, nm)
    PROVE  FlashTypes'
<1>1. sz \in Field
  BY DEF Field, Blank
<1>. QED  BY <1>1 DEF FlashTypes, Header

LEMMA HeaderTearsNothing ==
    ASSUME TypeOK, NothingTorn, NEW b \in Blocks, NEW type, NEW sz \in {1, Blank}, NEW nm,
           Header(b, type, sz, nm)
    PROVE  NothingTorn'
<1>1. /\ \A x \in Blocks : size'[x] = IF x = b THEN sz ELSE size[x]
      /\ len' = len /\ link' = link /\ units' = units
  BY HeaderFields
<1>2. sz # Torn
  BY DEF Torn, Blank
<1>. QED  BY <1>1, <1>2 DEF NothingTorn

LEMMA ProgramRootKeeps == ASSUME FlashInv, ProgramRoot PROVE FlashInv'
<1>1. /\ step = "root" /\ step' = "header" /\ Header(Root, "dir", 1, NoName)
      /\ UNCHANGED <<current, local, job, entering, sector, stale, spilled>>
  BY DEF ProgramRoot
<1>2. TypeOK /\ NothingTorn /\ (\A b \in Blocks : Untouched(b))
  BY <1>1 DEF FlashInv, EraseInv
<1>3. SpaceErased /\ ObjectsApart /\ LinksLead
  BY <1>2, ErasedLayout
<1>4. SpaceFrom(Root)
  <2>1. Root \in Blocks /\ Root # 0 /\ \A c \in Root .. NBlocks - 1 : c \in Blocks /\ c # 0
    BY Sizings DEF Root, Blocks
  <2>2. ~ \E c \in 1 .. Root - 1 : TRUE
    BY DEF Root
  <2>3. Free(Root)
    <3>1. 0 \in Slots /\ FirstWordErased(Root)
      BY <1>2, <2>1, Sizings DEF Untouched, FirstWordErased, BlankUnits, Slots
    <3>2. ~Covered(Root)
      BY <2>2 DEF Covered
    <3>. QED  BY <3>1, <3>2 DEF Free
  <2>4. \A c \in Root .. NBlocks - 1 : Free(c) /\ Untouched(c)
    BY <1>3, <2>1, <2>3 DEF SpaceErased
  <2>. QED  BY <2>1, <2>2, <2>4 DEF SpaceFrom
<1>5. TypeOK'
  <2>1. FlashTypes'
    BY <1>1, <1>2, Types, HeaderTypes, Sizings DEF Objects
  <2>2. RamTypes'
    BY <1>1, <1>2, Types DEF RamTypes, Steps
  <2>. QED  BY <2>1, <2>2, Types
<1>6. Layout'
  BY <1>1, <1>2, <1>3, <1>4, HeaderLayout DEF Layout, Objects
<1>7. EntriesInv'
  BY <1>1 DEF FlashInv, EntriesInv, Header
<1>8. NothingTorn'
  BY <1>1, <1>2, HeaderTearsNothing, Sizings
<1>9. HandlesInv'
  BY <1>1 DEF FlashInv, HandlesInv, IsOpen
<1>10. EraseInv'
  <2>1. kind'[0] = kind[0]
    BY <1>1, <1>2, HeaderFields, Sizings
  <2>. QED  BY <1>1, <2>1 DEF FlashInv, EraseInv
<1>. QED  BY <1>5, <1>6, <1>7, <1>8, <1>9, <1>10 DEF FlashInv

LEMMA ProgramHeaderKeeps == ASSUME FlashInv, ProgramHeader PROVE FlashInv'
<1>1. /\ step = "header" /\ step' = "idle" /\ Header(0, "header", Blank, NoName)
      /\ UNCHANGED <<current, local, job, entering, sector, stale, spilled>>
  BY DEF ProgramHeader
<1>2. /\ TypeOK /\ NothingTorn /\ kind[0] \in {"erased", "header"}
      /\ SpaceErased /\ ObjectsApart /\ LinksLead
  BY <1>1 DEF FlashInv, EraseInv, Layout
<1>3. kind'[0] = "header"
  BY <1>1, <1>2, HeaderFields, Sizings
<1>4. TypeOK'
  <2>1. FlashTypes'
    BY <1>1, <1>2, Types, HeaderTypes, Sizings
  <2>2. RamTypes'
    BY <1>1, <1>2, Types DEF RamTypes, Steps
  <2>. QED  BY <2>1, <2>2, Types
<1>5. Layout'
  BY <1>1, <1>2, FrontLayout DEF Layout
<1>6. EntriesInv'
  BY <1>1 DEF FlashInv, EntriesInv, Header
<1>7. NothingTorn'
  BY <1>1, <1>2, HeaderTearsNothing, Sizings
<1>8. HandlesInv'
  BY <1>1, <1>3 DEF FlashInv, HandlesInv, IsOpen
<1>9. EraseInv'
  BY <1>1, <1>3 DEF EraseInv
<1>. QED  BY <1>4, <1>5, <1>6, <1>7, <1>8, <1>9 DEF FlashInv

LEMMA EraseSectorKeeps == ASSUME FlashInv, EraseSector PROVE FlashInv'
<1>. DEFINE gone(b) == b \div SectorBlocks = sector
<1>1. /\ step = "erase" /\ UNCHANGED <<current, local, job, entering, stale, spilled>>
      /\ sector' = IF sector = LastSector THEN 0 ELSE sector + 1
      /\ step' = IF sector = LastSector THEN "root" ELSE "erase"
  BY DEF EraseSector
<1>2. /\ TypeOK /\ NothingTorn /\ EntriesInv /\ sector \in Nat /\ sector <= LastSector
      /\ sector = 0 \/ kind[0] = "erased"
      /\ \A b \in Blocks : b \div SectorBlocks < sector => Untouched(b)
  <2>1. TypeOK /\ NothingTorn /\ EntriesInv /\ EraseInv
    BY DEF FlashInv
  <2>2. sector \in Nat
    BY <2>1, Types, Sizings DEF RamTypes
  <2>. QED  BY <1>1, <2>1, <2>2 DEF EraseInv
<1>3. \A b \in Blocks : IF gone(b)
          THEN /\ kind'[b] = "erased" /\ size'[b] = Blank /\ len'[b] = Blank /\ link'[b] = Blank
               /\ entries'[b] = <<>> /\ units'[b] = BlankUnits
          ELSE /\ kind'[b] = kind[b] /\ size'[b] = size[b] /\ len'[b] = len[b]
               /\ link'[b] = link[b] /\ entries'[b] = entries[b] /\ units'[b] = units[b]
  BY DEF EraseSector
<1>4. LastSector \in Nat /\ LastSector < NBlocks /\ 0 \div SectorBlocks = 0
      /\ \A b \in Blocks : b \div SectorBlocks \in Nat /\ b \div SectorBlocks <= LastSector
  BY SectorsCover
<1>5. \A b \in Blocks : b \div SectorBlocks <= sector => Untouched(b)'
  <2>. SUFFICES ASSUME NEW b \in Blocks, b \div SectorBlocks <= sector PROVE Untouched(b)'
    OBVIOUS
  <2>1. CASE gone(b)
    BY <1>3, <2>1 DEF Untouched
  <2>2. CASE ~gone(b)
    <3>1. Untouched(b)
      BY <1>2, <1>4, <2>2
    <3>. QED  BY <1>3, <2>2, <3>1 DEF Untouched
  <2>. QED  BY <2>1, <2>2
<1>6. kind'[0] = "erased"
  <2>1. 0 \div SectorBlocks <= sector
    BY <1>2, <1>4
  <2>. QED  BY <1>5, <2>1, Sizings DEF Untouched
<1>7. TypeOK'
  <2>1. FlashTypes'
    <3>1. "erased" \in Objects \cup {"erased", "header"} /\ Blank \in Field
      BY DEF Field
    <3>2. NoName \in Names \cup {NoName} /\ <<>> \in Seq([type : Objects, offset : Int])
      OBVIOUS
    <3>3. BlankUnits \in [Slots -> Int]
      BY DEF BlankUnits, Blank
    <3>4. FlashTypes
      BY <1>2, Types
    <3>. QED  BY <3>1, <3>2, <3>3, <3>4 DEF EraseSector, FlashTypes
  <2>2. RamTypes'
    <3>1. sector' \in 0 .. NBlocks /\ step' \in Steps
      BY <1>1, <1>2, <1>4, Sizings DEF Steps
    <3>. QED  BY <1>1, <1>2, <3>1, Types DEF RamTypes
  <2>. QED  BY <2>1, <2>2, Types
<1>8. step' = "root" => \A b \in Blocks : Untouched(b)'
  BY <1>1, <1>4, <1>5
<1>9. Layout'
  <2>. SUFFICES ASSUME step' = "root" PROVE SpaceErased' /\ ObjectsApart' /\ LinksLead'
    BY <1>1, <1>6 DEF Layout
  <2>1. TypeOK' /\ (\A b \in Blocks : Untouched(b))'
    BY <1>7, <1>8
  <2>2. (TypeOK /\ (\A b \in Blocks : Untouched(b)) => SpaceErased /\ ObjectsApart /\ LinksLead)'
    BY ErasedLayout, PTL
  <2>. QED  BY <2>1, <2>2
<1>10. EntriesInv'
  <2>1. \A d \in Blocks : entries'[d] = <<>> \/ entries'[d] = entries[d]
    BY <1>3
  <2>. QED  BY <1>2, <2>1 DEF EntriesInv
<1>11. NothingTorn'
  <2>1. Blank # Torn
    BY DEF Blank, Torn
  <2>2. \A b \in Blocks, s \in Slots : BlankUnits[s] = Blank
    BY DEF BlankUnits
  <2>. QED  BY <1>2, <1>3, <2>1, <2>2 DEF NothingTorn
<1>12. HandlesInv'
  <2>1. step' \in {"erase", "root"}
    BY <1>1
  <2>. QED  BY <1>1, <2>1 DEF FlashInv, HandlesInv, IsOpen
<1>13. EraseInv'
  <2>1. step' = "erase" => sector' = sector + 1 /\ sector' <= LastSector
    BY <1>1, <1>2, <1>4
  <2>2. step' = "erase" => \A b \in Blocks : b \div SectorBlocks < sector' => Untouched(b)'
    BY <1>2, <1>4, <1>5, <2>1
  <2>. QED  BY <1>6, <1>8, <2>1, <2>2 DEF EraseInv
<1>. QED  BY <1>7, <1>9, <1>10, <1>11, <1>12, <1>13 DEF FlashInv

(***************************************************************************)
(* Commands.                                                               *)
(***************************************************************************)

LEMMA MakeKeeps ==
    ASSUME FlashInv, step = "idle", NEW d \in Blocks, NEW type \in {"dir", "file"}, NEW nm \in Names,
           NEW what \in Jobs, what.text \in Seq(Byte),
           type = "dir" => what.do = "mkdir", type = "file" => what.do \in {"write", "alloc"},
           Make(d, type, nm, what)
    PROVE  FlashInv'
<1>1. PICK b : b = FindFree(1)
  OBVIOUS
<1>2. /\ b # NoBlock /\ Header(b, type, 1, nm)
      /\ entering' = <<d, b>> /\ step' = "enter" /\ job' = what
      /\ local' = IF type = "dir" THEN NoHandle
                  ELSE [NoHandle EXCEPT !.file = b, !.key = <<d, nm>>, !.typed = what.text]
      /\ UNCHANGED <<current, sector, stale, spilled>>
  BY <1>1 DEF Make
<1>3. /\ TypeOK /\ NothingTorn /\ EntriesInv /\ HandlesInv /\ EraseInv
      /\ kind[0] = "header" /\ SpaceErased /\ ObjectsApart /\ LinksLead
  BY DEF FlashInv, HandlesInv, Layout
<1>4. SpaceFrom(b)
  BY <1>1, <1>2, <1>3, FoundSpace
<1>5. b \in Blocks /\ b # 0 /\ kind[b] = "erased" /\ link[b] = Blank
  BY <1>4, FreeAndErased DEF Untouched
<1>6. ~IsOpen /\ ~IsOpen'
  <2>1. ~IsOpen
    <3>. SUFFICES ASSUME IsOpen PROVE FALSE
      OBVIOUS
    <3>1. Begun(current)
      BY <1>3 DEF HandlesInv
    <3>. QED  BY <1>1, <1>2, <1>3, <3>1, BegunCovers, NothingFound
  <2>. QED  BY <1>2, <2>1 DEF IsOpen
<1>7. /\ \A x \in Blocks : kind'[x] = IF x = b THEN type ELSE kind[x]
      /\ link' = link /\ entries' = entries
  BY <1>2, <1>3, <1>5, HeaderFields
<1>8. TypeOK'
  <2>1. FlashTypes'
    BY <1>2, <1>3, <1>5, Types, HeaderTypes DEF Objects
  <2>2. local' \in Handles
    <3>1. /\ what.text \in Seq(Int) /\ <<d, nm>> \in Blocks \X (Names \cup {NoName})
          /\ NoBlock \in Blocks
      BY ByteIsInt, Sizings DEF NoBlock
    <3>2. type = "file" => local' = [file |-> b, head |-> NoBlock, block |-> NoBlock, pos |-> 0,
                                     key |-> <<d, nm>>, typed |-> what.text]
      BY <1>2 DEF NoHandle
    <3>3. type = "file" => local' \in Handles
      BY <1>5, <3>1, <3>2 DEF Handles
    <3>4. type = "dir" => local' \in Handles
      BY <1>2, EmptyHanded
    <3>. QED  BY <3>3, <3>4
  <2>3. entering' \in Blocks \X Blocks
    BY <1>2, <1>5
  <2>4. RamTypes'
    BY <1>2, <1>3, <2>2, <2>3, Types DEF RamTypes, Steps
  <2>. QED  BY <2>1, <2>4, Types
<1>9. Layout'
  BY <1>2, <1>3, <1>4, HeaderLayout DEF Layout, Objects
<1>10. EntriesInv'
  BY <1>3, <1>7 DEF EntriesInv
<1>11. NothingTorn'
  BY <1>2, <1>3, <1>5, HeaderTearsNothing
<1>12. HandlesInv'
  <2>1. kind'[0] = "header"
    BY <1>3, <1>5, <1>7, Sizings
  <2>2. (current.block # NoBlock => current.file # NoBlock)'
    BY <1>2, <1>3 DEF HandlesInv
  <2>3. job'.text \in Seq(Byte) /\ job'.do \in {"mkdir", "write", "alloc"}
    BY <1>2
  <2>4. kind'[entering'[2]] \in Objects
    BY <1>2, <1>5, <1>7 DEF Objects
  <2>5. job'.do # "mkdir" => FromReady(local)' /\ local'.file # NoBlock /\ local'.block = NoBlock
    <3>. SUFFICES ASSUME job'.do # "mkdir"
                  PROVE  FromReady(local)' /\ local'.file # NoBlock /\ local'.block = NoBlock
      OBVIOUS
    <3>1. type = "file"
      BY <1>2
    <3>2. local'.file = b /\ local'.head = NoBlock /\ local'.block = NoBlock
      BY <1>2, <3>1 DEF NoHandle
    <3>3. From(local)' = b
      BY <3>2 DEF From
    <3>4. FromReady(local)'
      BY <1>5, <1>7, <3>1, <3>3 DEF FromReady, Linked
    <3>. QED  BY <1>5, <3>2, <3>4 DEF NoBlock
  <2>. QED  BY <1>2, <1>6, <2>1, <2>2, <2>3, <2>4, <2>5 DEF HandlesInv
<1>13. EraseInv'
  BY <1>2, <1>3, <1>5, <1>7, Sizings DEF EraseInv
<1>. QED  BY <1>8, <1>9, <1>10, <1>11, <1>12, <1>13 DEF FlashInv

LEMMA OpenKeeps ==
    ASSUME FlashInv, step = "idle", NEW d \in Blocks, NEW nm \in Names,
           NEW what \in Jobs, what.text \in Seq(Byte), what.do \in {"write", "alloc"},
           Open(d, nm, what)
    PROVE  FlashInv'
<1>1. PICK f : f = Lookup(d, "file", nm)
  OBVIOUS
<1>2. PICK head \in Chain(f) :
          /\ link[head] = Blank
          /\ local' = [NoHandle EXCEPT !.file = f, !.head = IF head = f THEN NoBlock ELSE head,
                                       !.key = <<d, nm>>, !.typed = what.text]
  BY <1>1 DEF Open
<1>3. /\ f # NoBlock /\ step' = "alloc" /\ job' = what
      /\ UNCHANGED <<flash, current, entering, sector, stale, spilled>>
  BY <1>1 DEF Open
<1>4. /\ TypeOK /\ EntriesInv /\ HandlesInv /\ kind[0] = "header" /\ LinksLead
  BY DEF FlashInv, HandlesInv, Layout
<1>5. f \in Blocks /\ kind[f] = "file" /\ kind[f] \in Linked
  BY <1>1, <1>3, <1>4, LookupFinds DEF Linked
<1>6. head \in Blocks /\ kind[head] \in Linked /\ head # NoBlock
  <2>1. head \in Blocks /\ kind[head] \in Linked
    BY <1>4, <1>5, ChainLinked
  <2>. QED  BY <1>4, <2>1 DEF NoBlock, Linked
<1>7. /\ local'.file = f /\ local'.block = NoBlock
      /\ local'.head = IF head = f THEN NoBlock ELSE head
      /\ From(local)' = head
  BY <1>2, <1>6 DEF NoHandle, From
<1>8. TypeOK'
  <2>1. FlashTypes'
    BY <1>3, <1>4, Types, SameFlashTypes
  <2>2. local' \in Handles
    <3>1. /\ what.text \in Seq(Int) /\ <<d, nm>> \in Blocks \X (Names \cup {NoName})
          /\ NoBlock \in Blocks
      BY ByteIsInt, Sizings DEF NoBlock
    <3>2. local' = [file |-> f, head |-> IF head = f THEN NoBlock ELSE head, block |-> NoBlock,
                    pos |-> 0, key |-> <<d, nm>>, typed |-> what.text]
      BY <1>2 DEF NoHandle
    <3>. QED  BY <1>5, <1>6, <3>1, <3>2 DEF Handles
  <2>3. RamTypes'
    BY <1>3, <1>4, <2>2, Types DEF RamTypes, Steps
  <2>. QED  BY <2>1, <2>3, Types
<1>9. Layout' /\ EntriesInv' /\ NothingTorn' /\ EraseInv'
  BY <1>3, NothingProgrammed
<1>10. HandlesInv'
  <2>1. kind'[0] = "header"
    BY <1>3, <1>4 DEF flash
  <2>2. IsOpen' => IsOpen
    BY <1>3 DEF IsOpen
  <2>3. IsOpen => Begun(current)
    BY <1>4 DEF HandlesInv
  <2>4. IsOpen' => Begun(current)'
    <3>1. PICK c : c = current
      OBVIOUS
    <3>2. (Begun(current)' <=> Begun(c)') /\ (Begun(c)' <=> Begun(c))
      BY <1>3, <3>1, CurrentThen, SameFlash
    <3>. QED  BY <2>2, <2>3, <3>1, <3>2
  <2>5. FromReady(local)'
    BY <1>2, <1>3, <1>6, <1>7 DEF FromReady, flash
  <2>6. (current.block # NoBlock => current.file # NoBlock)'
    BY <1>3, <1>4 DEF HandlesInv
  <2>. QED  BY <1>3, <1>7, <2>1, <2>4, <2>5, <2>6 DEF HandlesInv
<1>. QED  BY <1>8, <1>9, <1>10 DEF FlashInv

LEMMA EnterContentKeeps == ASSUME FlashInv, EnterContent PROVE FlashInv'
<1>1. PICK d \in Blocks, b \in Blocks : d = entering[1] /\ b = entering[2]
  BY DEF FlashInv, TypeOK
<1>2. /\ step = "enter" /\ step' = IF job.do = "mkdir" THEN "idle" ELSE "alloc"
      /\ \/ entries' = [entries EXCEPT ![d] = Append(@, [type |-> kind[b], offset |-> b - d])]
         \/ entries' = entries
      /\ entering' = <<NoBlock, NoBlock>>
      /\ UNCHANGED <<kind, size, len, link, label, units, current, local, job, sector, stale, spilled>>
  BY <1>1 DEF EnterContent
<1>3. /\ TypeOK /\ EntriesInv /\ HandlesInv /\ EraseInv /\ NothingTorn
      /\ kind[0] = "header" /\ kind[b] \in Objects /\ job.do \in {"mkdir", "write", "alloc"}
  BY <1>1, <1>2 DEF FlashInv, HandlesInv
<1>4. d \in Int /\ b \in Int
  BY Sizings DEF Blocks
<1>5. entries[d] \in Seq([type : Objects, offset : Int])
  BY <1>3 DEF TypeOK
<1>6. PICK e : e = [type |-> kind[b], offset |-> b - d]
  OBVIOUS
<1>7. e \in [type : Objects, offset : Int] /\ d + e.offset = b
  BY <1>3, <1>4, <1>6
<1>8. entries' = [entries EXCEPT ![d] = Append(entries[d], e)] \/ entries' = entries
  BY <1>2, <1>6
<1>9. TypeOK'
  <2>1. Append(entries[d], e) \in Seq([type : Objects, offset : Int])
    BY <1>5, <1>7
  <2>2. FlashTypes'
    BY <1>2, <1>3, <1>8, <2>1, Types DEF FlashTypes
  <2>3. RamTypes'
    BY <1>2, <1>3, Types, EmptyHanded DEF RamTypes, Steps
  <2>. QED  BY <2>2, <2>3, Types
<1>10. EntriesInv'
  <2>. SUFFICES ASSUME NEW c \in Blocks, NEW i \in DOMAIN entries'[c]
                PROVE  c + entries'[c][i].offset \in Blocks
    BY DEF EntriesInv
  <2>1. CASE entries'[c] = entries[c]
    BY <1>3, <2>1 DEF EntriesInv
  <2>2. CASE entries'[c] # entries[c]
    <3>1. c = d /\ entries'[c] = Append(entries[d], e)
      BY <1>3, <1>8, <2>2 DEF TypeOK
    <3>2. \/ i \in DOMAIN entries[d] /\ entries'[c][i] = entries[d][i]
          \/ entries'[c][i] = e
      BY <1>5, <3>1
    <3>. QED  BY <1>3, <1>7, <3>1, <3>2 DEF EntriesInv
  <2>. QED  BY <2>1, <2>2
<1>11. Layout'
  <2>1. /\ \A x : FirstWordErased(x)' <=> FirstWordErased(x)
        /\ \A x : Untouched(x)' <=> Untouched(x)
    BY <1>2 DEF FirstWordErased, Untouched
  <2>2. \A x : Covered(x)' <=> Covered(x)
    BY <1>2 DEF Covered
  <2>3. \A x : Free(x)' <=> Free(x)
    BY <2>1, <2>2 DEF Free
  <2>4. SpaceErased /\ ObjectsApart /\ LinksLead
    BY <1>3 DEF FlashInv, Layout
  <2>5. SpaceErased'
    BY <2>1, <2>3, <2>4 DEF SpaceErased
  <2>6. ObjectsApart'
    BY <1>2, <2>1, <2>2, <2>4 DEF ObjectsApart
  <2>7. LinksLead'
    BY <1>2, <2>4 DEF LinksLead
  <2>. QED  BY <2>5, <2>6, <2>7 DEF Layout
<1>12. NothingTorn'
  BY <1>2, <1>3 DEF NothingTorn
<1>13. EraseInv'
  BY <1>2, <1>3 DEF EraseInv
<1>14. HandlesInv'
  <2>1. IsOpen' => IsOpen
    BY <1>2 DEF IsOpen
  <2>2. IsOpen => Begun(current)
    BY <1>2, <1>3 DEF HandlesInv
  <2>3. /\ Begun(current)' <=> Begun(current)
        /\ FromReady(local)' <=> FromReady(local)
    <3>1. \A x : FirstWordErased(x)' <=> FirstWordErased(x)
      BY <1>2 DEF FirstWordErased
    <3>2. \A x : Covered(x)' <=> Covered(x)
      BY <1>2 DEF Covered
    <3>3. \A x : Free(x)' <=> Free(x)
      BY <3>1, <3>2 DEF Free
    <3>4. FromReady(local)' <=> FromReady(local)
      BY <1>2 DEF FromReady, From
    <3>5. FromReady(current)' <=> FromReady(current)
      BY <1>2 DEF FromReady, From
    <3>. QED  BY <1>2, <3>3, <3>4, <3>5 DEF Begun, From, Ahead
  <2>4. (current.block # NoBlock => current.file # NoBlock)'
    BY <1>2, <1>3 DEF HandlesInv
  <2>5. job.do # "mkdir" => FromReady(local) /\ local.file # NoBlock /\ local.block = NoBlock
    BY <1>2, <1>3 DEF HandlesInv
  <2>6. job'.text \in Seq(Byte)
    BY <1>2, <1>3 DEF HandlesInv
  <2>. QED  BY <1>2, <1>3, <2>1, <2>2, <2>3, <2>4, <2>5, <2>6 DEF HandlesInv
<1>. QED  BY <1>9, <1>10, <1>11, <1>12, <1>13, <1>14 DEF FlashInv

\* what allocateContenSize leaves behind
LEMMA AllocateForBegins ==
    ASSUME FlashInv, step = "alloc", NEW g, AllocateFor(g), step' \in {"append", "idle"}
    PROVE  /\ FlashTypes' /\ Layout' /\ EntriesInv' /\ NothingTorn' /\ EraseInv'
           /\ kind'[0] = "header" /\ g \in Handles /\ g.file # NoBlock /\ Begun(g)' /\ ~IsOpen
<1>1. PICK n \in Nat : n = PagesFor(HeaderSize + job.size) /\ n >= 1
  <2>1. job.size \in Nat
    BY DEF FlashInv, TypeOK
  <2>2. PICK m \in Nat : m = HeaderSize + job.size /\ m > 0
    BY <2>1, Sizings
  <2>. QED  BY <2>2, PagesForIs
<1>2. PICK b : /\ b = FindFree(n) /\ b # NoBlock /\ Header(b, "content", Blank, NoName)
              /\ g = [local EXCEPT !.block = b, !.pos = DataOffset]
  BY <1>1 DEF AllocateFor
<1>3. /\ TypeOK /\ NothingTorn /\ EntriesInv /\ HandlesInv
      /\ kind[0] = "header" /\ SpaceErased /\ ObjectsApart /\ LinksLead
      /\ FromReady(local) /\ local.file # NoBlock
  BY DEF FlashInv, HandlesInv, Layout
<1>4. SpaceFrom(b)
  BY <1>1, <1>2, <1>3, FoundSpace
<1>5. /\ b \in Blocks /\ b \in Nat /\ b >= 1 /\ b <= NBlocks - 1
      /\ \A c \in Blocks : c >= b => Free(c) /\ Untouched(c)
      /\ \A x \in Blocks : x # 0 /\ x < b => ~Free(x)
  BY <1>4, FreeAndErased
<1>6. \A x \in Blocks : x \in Nat /\ x <= NBlocks - 1
  BY Sizings DEF Blocks
<1>7. ~IsOpen
  <2>. SUFFICES ASSUME IsOpen PROVE FALSE
    OBVIOUS
  <2>1. Begun(current)
    BY <1>3 DEF HandlesInv
  <2>. QED  BY <1>1, <1>2, <1>3, <2>1, BegunCovers, NothingFound
<1>8. /\ \A x \in Blocks : kind'[x] = IF x = b THEN "content" ELSE kind[x]
      /\ \A x \in Blocks : size'[x] = IF x = b THEN Blank ELSE size[x]
      /\ len' = len /\ link' = link /\ entries' = entries /\ units' = units
  BY <1>2, <1>3, <1>5, HeaderFields
<1>9. Layout'
  BY <1>2, <1>3, <1>4, HeaderLayout DEF Layout, Objects
<1>10. EntriesInv' /\ NothingTorn'
  BY <1>2, <1>3, <1>5, <1>8, HeaderTearsNothing DEF EntriesInv
<1>11. FlashTypes'
  BY <1>2, <1>3, <1>5, Types, HeaderTypes DEF Objects
<1>12. kind'[0] = "header" /\ EraseInv'
  BY <1>3, <1>5, <1>8, Sizings DEF EraseInv
<1>13. /\ g.file = local.file /\ g.head = local.head /\ g.block = b /\ g.pos = DataOffset
       /\ g.file # NoBlock
  BY <1>2, <1>3, Types DEF RamTypes, Handles
<1>14. g \in Handles
  <2>1. local \in Handles /\ DataOffset \in Nat
    BY <1>3, Types, Sizings DEF RamTypes
  <2>. QED  BY <1>2, <1>5, <2>1 DEF Handles
<1>15. Begun(g)'
  <2>1. PICK f \in Blocks : f = From(local) /\ kind[f] \in Linked /\ link[f] = Blank
    BY <1>3 DEF FromReady
  <2>2. From(g)' = f
    BY <1>13, <2>1 DEF From
  <2>3. f < b
    <3>1. ~ (f >= b)
      BY <1>5, <2>1 DEF Untouched, Linked
    <3>. QED  BY <1>5, <1>6, <3>1
  <2>4. FromReady(g)'
    BY <1>5, <1>6, <1>8, <2>1, <2>2, <2>3 DEF FromReady
  <2>5. kind'[b] = "content" /\ size'[b] = Blank /\ len'[b] = Blank
    BY <1>5, <1>8 DEF Untouched
  <2>6. \A x \in 1 .. b - 1 : ~Free(x)'
    <3>. SUFFICES ASSUME NEW x \in 1 .. b - 1 PROVE ~Free(x)'
      OBVIOUS
    <3>1. x \in Blocks /\ x # 0 /\ x < b
      BY <1>5, Sizings DEF Blocks
    <3>2. ~Free(x)
      BY <1>5, <3>1
    <3>. QED  BY <1>2, <1>3, <1>4, <3>1, <3>2, HeaderFree DEF Objects
  <2>7. \A x \in b + 1 .. NBlocks - 1 :
           kind'[x] = "erased" /\ size'[x] = Blank /\ len'[x] = Blank /\ link'[x] = Blank
    <3>. SUFFICES ASSUME NEW x \in b + 1 .. NBlocks - 1
                  PROVE  kind'[x] = "erased" /\ size'[x] = Blank /\ len'[x] = Blank /\ link'[x] = Blank
      OBVIOUS
    <3>1. x \in Blocks /\ x >= b /\ x # b
      BY <1>5, Sizings DEF Blocks
    <3>. QED  BY <1>5, <1>8, <3>1 DEF Untouched
  <2>8. \A x \in Blocks, s \in Slots : Ahead(g, x, s)' => units'[x][s] = Blank
    <3>. SUFFICES ASSUME NEW x \in Blocks, NEW s \in Slots, Ahead(g, x, s)' PROVE units'[x][s] = Blank
      OBVIOUS
    <3>1. PICK q \in Nat : q = DataOffset \div PageUnits
      BY Place, Sizings
    <3>2. x >= b + q
      BY <1>5, <1>6, <1>13, <3>1 DEF Ahead
    <3>3. x >= b
      BY <1>5, <1>6, <3>2
    <3>. QED  BY <1>5, <1>8, <3>3 DEF Untouched, BlankUnits
  <2>. QED  BY <1>5, <1>13, <2>2, <2>3, <2>4, <2>5, <2>6, <2>7, <2>8, Sizings DEF Begun, NoBlock
<1>. QED  BY <1>7, <1>9, <1>10, <1>11, <1>12, <1>13, <1>14, <1>15

LEMMA AllocateWriteKeeps == ASSUME FlashInv, AllocateWrite PROVE FlashInv'
<1>1. /\ step = "alloc" /\ job.do = "write"
      /\ UNCHANGED <<current, entering, sector, stale, spilled>>
  BY DEF AllocateWrite
<1>2. /\ TypeOK /\ HandlesInv /\ kind[0] = "header"
  BY <1>1 DEF FlashInv, HandlesInv
<1>3. IsOpen' <=> IsOpen
  BY <1>1 DEF IsOpen
<1>4. (current.block # NoBlock => current.file # NoBlock)'
  BY <1>1, <1>2 DEF HandlesInv
<1>5. CASE AllocateFor(local') /\ step' = "append" /\ UNCHANGED job
  <2>1. PICK g : g = local' /\ AllocateFor(g)
    BY <1>5
  <2>2. /\ FlashTypes' /\ Layout' /\ EntriesInv' /\ NothingTorn' /\ EraseInv'
        /\ kind'[0] = "header" /\ g \in Handles /\ Begun(g)' /\ ~IsOpen
    BY <1>1, <1>5, <2>1, AllocateForBegins
  <2>3. RamTypes'
    BY <1>1, <1>2, <1>5, <2>1, <2>2, Types DEF RamTypes, Steps
  <2>4. Begun(local)'
    BY <2>1, <2>2, LocalThen
  <2>5. job'.text \in Seq(Byte)
    BY <1>2, <1>5 DEF HandlesInv
  <2>6. HandlesInv'
    BY <1>1, <1>3, <1>4, <1>5, <2>2, <2>4, <2>5 DEF HandlesInv
  <2>. QED  BY <2>2, <2>3, <2>6, Types DEF FlashInv
<1>6. CASE local' = NoHandle /\ step' = "idle" /\ job' = NoJob /\ UNCHANGED flash
  <2>1. Layout' /\ EntriesInv' /\ NothingTorn' /\ EraseInv'
    BY <1>6, NothingProgrammed
  <2>2. TypeOK'
    <3>1. FlashTypes'
      BY <1>2, <1>6, Types, SameFlashTypes
    <3>2. RamTypes'
      BY <1>1, <1>2, <1>6, Types, EmptyHanded DEF RamTypes, Steps
    <3>. QED  BY <3>1, <3>2, Types
  <2>3. IsOpen' => Begun(current)'
    <3>1. PICK c : c = current
      OBVIOUS
    <3>2. (Begun(current)' <=> Begun(c)') /\ (Begun(c)' <=> Begun(c))
      BY <1>1, <1>6, <3>1, CurrentThen, SameFlash
    <3>. QED  BY <1>1, <1>2, <1>3, <3>1, <3>2 DEF HandlesInv
  <2>4. kind'[0] = "header"
    BY <1>2, <1>6 DEF flash
  <2>5. HandlesInv'
    BY <1>4, <1>6, <2>3, <2>4, EmptyHanded DEF HandlesInv
  <2>. QED  BY <2>1, <2>2, <2>5 DEF FlashInv
<1>. QED  BY <1>5, <1>6 DEF AllocateWrite

LEMMA AllocateKeptKeeps == ASSUME FlashInv, AllocateKept PROVE FlashInv'
<1>1. /\ step = "alloc" /\ job.do = "alloc" /\ step' = "idle" /\ local' = NoHandle /\ job' = NoJob
      /\ UNCHANGED <<entering, sector, stale, spilled>>
  BY DEF AllocateKept
<1>2. /\ TypeOK /\ HandlesInv /\ kind[0] = "header" /\ local.file # NoBlock /\ local.block = NoBlock
  BY <1>1 DEF FlashInv, HandlesInv
<1>3. CASE AllocateFor(current')
  <2>1. PICK g : g = current' /\ AllocateFor(g)
    BY <1>3
  <2>2. /\ FlashTypes' /\ Layout' /\ EntriesInv' /\ NothingTorn' /\ EraseInv'
        /\ kind'[0] = "header" /\ g \in Handles /\ g.file # NoBlock /\ Begun(g)'
    BY <1>1, <2>1, AllocateForBegins
  <2>3. RamTypes'
    BY <1>1, <1>2, <2>1, <2>2, Types, EmptyHanded DEF RamTypes, Steps
  <2>4. Begun(current)'
    BY <2>1, <2>2, CurrentThen
  <2>5. HandlesInv'
    BY <1>1, <2>1, <2>2, <2>4, EmptyHanded DEF HandlesInv
  <2>. QED  BY <2>2, <2>3, <2>5, Types DEF FlashInv
<1>4. CASE UNCHANGED flash /\ (current' = current \/ current' = local)
  <2>1. Layout' /\ EntriesInv' /\ NothingTorn' /\ EraseInv'
    BY <1>1, <1>4, NothingProgrammed
  <2>2. TypeOK'
    <3>1. FlashTypes'
      BY <1>2, <1>4, Types, SameFlashTypes
    <3>2. RamTypes'
      BY <1>1, <1>2, <1>4, Types, EmptyHanded DEF RamTypes, Steps
    <3>. QED  BY <3>1, <3>2, Types
  <2>3. IsOpen' => current' = current /\ IsOpen
    BY <1>1, <1>2, <1>4 DEF IsOpen
  <2>4. IsOpen' => Begun(current)'
    <3>1. PICK c : c = current
      OBVIOUS
    <3>2. current' = c => (Begun(current)' <=> Begun(c)') /\ (Begun(c)' <=> Begun(c))
      BY <1>4, CurrentThen, SameFlash
    <3>. QED  BY <1>1, <1>2, <2>3, <3>1, <3>2 DEF HandlesInv
  <2>5. kind'[0] = "header"
    BY <1>2, <1>4 DEF flash
  <2>6. (current.block # NoBlock => current.file # NoBlock)'
    BY <1>2, <1>4 DEF HandlesInv
  <2>7. HandlesInv'
    BY <1>1, <2>4, <2>5, <2>6, EmptyHanded DEF HandlesInv
  <2>. QED  BY <2>1, <2>2, <2>7 DEF FlashInv
<1>. QED  BY <1>3, <1>4 DEF AllocateKept

LEMMA StoreAppendKeeps ==
    ASSUME FlashInv, NEW text \in Texts, StoreAppend(text)
    PROVE  FlashInv'
<1>1. /\ step = "idle" /\ current.block # NoBlock /\ ~stale /\ step' = "append"
      /\ job' = [do |-> "append", text |-> text, size |-> Len(text)]
      /\ current' = [current EXCEPT !.typed = @ \o text]
      /\ UNCHANGED <<flash, local, entering, sector, stale, spilled>>
  BY DEF StoreAppend
<1>2. /\ TypeOK /\ HandlesInv /\ kind[0] = "header" /\ current \in Handles
  BY <1>1 DEF FlashInv, HandlesInv, TypeOK
<1>3. Begun(current)
  BY <1>1, <1>2 DEF HandlesInv, IsOpen
<1>4. text \in Seq(Byte) /\ text \in Seq(Int) /\ Len(text) \in Nat
  BY SPFSAssumption, ByteIsInt
<1>5. PICK g : g = current'
  OBVIOUS
<1>6. /\ g \in Handles /\ g.file = current.file /\ g.head = current.head
      /\ g.block = current.block /\ g.pos = current.pos
  <2>1. current.typed \o text \in Seq(Int)
    BY <1>2, <1>4 DEF Handles
  <2>2. g = [current EXCEPT !.typed = current.typed \o text]
    BY <1>1, <1>5
  <2>. QED  BY <1>2, <2>1, <2>2 DEF Handles
<1>7. Begun(current)'
  <2>1. Begun(g)
    BY <1>3, <1>6, SameContent
  <2>2. Begun(g)'
    BY <1>1, <2>1, SameFlash
  <2>. QED  BY <1>5, <2>2, CurrentThen
<1>8. Layout' /\ EntriesInv' /\ NothingTorn' /\ EraseInv'
  BY <1>1, NothingProgrammed
<1>9. TypeOK'
  <2>1. FlashTypes'
    BY <1>1, <1>2, Types, SameFlashTypes
  <2>2. job' \in Jobs
    BY <1>1, <1>4 DEF Jobs
  <2>3. RamTypes'
    BY <1>1, <1>2, <1>5, <1>6, <2>2, Types DEF RamTypes, Steps
  <2>. QED  BY <2>1, <2>3, Types
<1>10. HandlesInv'
  <2>1. IsOpen' /\ current'.file # NoBlock /\ kind'[0] = "header"
    BY <1>1, <1>2, <1>5, <1>6 DEF IsOpen, HandlesInv, flash
  <2>2. job'.do = "append" /\ job'.text \in Seq(Byte)
    BY <1>1, <1>4
  <2>. QED  BY <1>1, <1>7, <2>1, <2>2 DEF HandlesInv
<1>. QED  BY <1>8, <1>9, <1>10 DEF FlashInv

LEMMA StoreFinishKeeps == ASSUME FlashInv, StoreFinish PROVE FlashInv'
<1>1. /\ step = "idle" /\ current.block # NoBlock /\ ~stale /\ step' = "finish"
      /\ job' = [NoJob EXCEPT !.do = "finish"]
      /\ UNCHANGED <<flash, current, local, entering, sector, stale, spilled>>
  BY DEF StoreFinish
<1>2. /\ TypeOK /\ HandlesInv /\ kind[0] = "header" /\ Begun(current)
  BY <1>1 DEF FlashInv, HandlesInv, IsOpen
<1>3. Begun(current)'
  <2>1. PICK c : c = current
    OBVIOUS
  <2>. QED  BY <1>1, <1>2, <2>1, CurrentThen, SameFlash
<1>4. job' \in Jobs /\ job'.do = "finish" /\ job'.text \in Seq(Byte)
  BY <1>1, EmptyHanded DEF Jobs, NoJob
<1>5. Layout' /\ EntriesInv' /\ NothingTorn' /\ EraseInv'
  BY <1>1, NothingProgrammed
<1>6. TypeOK'
  <2>1. FlashTypes'
    BY <1>1, <1>2, Types, SameFlashTypes
  <2>2. RamTypes'
    BY <1>1, <1>2, <1>4, Types DEF RamTypes, Steps
  <2>. QED  BY <2>1, <2>2, Types
<1>7. HandlesInv'
  <2>1. IsOpen' /\ current'.file # NoBlock /\ kind'[0] = "header"
    BY <1>1, <1>2 DEF IsOpen, HandlesInv, flash
  <2>. QED  BY <1>1, <1>3, <1>4, <2>1 DEF HandlesInv
<1>. QED  BY <1>5, <1>6, <1>7 DEF FlashInv

LEMMA UseStaleHandleKeeps == ASSUME FlashInv, UseStaleHandle PROVE FlashInv'
<1>1. /\ step = "idle" /\ stale /\ step' = "undefined"
      /\ UNCHANGED <<flash, current, local, job, entering, sector, stale, spilled>>
  BY DEF UseStaleHandle
<1>2. TypeOK /\ HandlesInv /\ kind[0] = "header"
  BY <1>1 DEF FlashInv, HandlesInv
<1>3. Layout' /\ EntriesInv' /\ NothingTorn' /\ EraseInv'
  BY <1>1, NothingProgrammed
<1>4. TypeOK'
  <2>1. FlashTypes'
    BY <1>1, <1>2, Types, SameFlashTypes
  <2>2. RamTypes'
    BY <1>1, <1>2, Types DEF RamTypes, Steps
  <2>. QED  BY <2>1, <2>2, Types
<1>5. HandlesInv'
  <2>1. kind'[0] = "header" /\ ~IsOpen' /\ job'.text \in Seq(Byte)
    BY <1>1, <1>2 DEF HandlesInv, IsOpen, flash
  <2>2. (current.block # NoBlock => current.file # NoBlock)'
    BY <1>1, <1>2 DEF HandlesInv
  <2>. QED  BY <1>1, <2>1, <2>2 DEF HandlesInv
<1>. QED  BY <1>3, <1>4, <1>5 DEF FlashInv

\* the content that a step of the append, finish and link programs works on
LEMMA WritingIs ==
    ASSUME FlashInv, step \in {"append", "finish", "link"}
    PROVE  /\ TypeOK /\ NothingTorn /\ EntriesInv /\ HandlesInv /\ kind[0] = "header"
           /\ SpaceErased /\ ObjectsApart /\ LinksLead
           /\ Writing \in Handles /\ Writing.pos \in Nat /\ Writing.block \in Blocks \ {0}
           /\ IF step = "link" THEN Complete(Writing) ELSE Begun(Writing)
           /\ job.do = "write" => ~IsOpen
           /\ job.do # "write" => IsOpen
           /\ job.text \in Seq(Byte) /\ job \in Jobs
<1>1. /\ TypeOK /\ NothingTorn /\ EntriesInv /\ HandlesInv /\ kind[0] = "header"
      /\ SpaceErased /\ ObjectsApart /\ LinksLead
  BY DEF FlashInv, HandlesInv, Layout
<1>2. Writing \in Handles /\ Writing.pos \in Nat /\ job \in Jobs
  BY <1>1, Types DEF RamTypes, Handles, Writing
<1>3. /\ job.do = "write" => ~IsOpen
      /\ job.do # "write" => IsOpen
      /\ job.text \in Seq(Byte)
  BY <1>1 DEF HandlesInv
<1>4. IF step = "link" THEN Complete(Writing) ELSE Begun(Writing)
  BY <1>1, <1>3 DEF HandlesInv, Writing
<1>5. Writing.block \in Blocks \ {0}
  BY <1>4 DEF Complete, Begun
<1>. QED  BY <1>1, <1>2, <1>3, <1>4, <1>5

\* no page is programmed outside the blocks after the append position
LEMMA AppendPageKeeps == ASSUME FlashInv, AppendPage PROVE FlashInv'
<1>1. PICK h : h = Writing
  OBVIOUS
<1>2. PICK n : n = IF Len(job.text) < PageUnits - SlotAt(h) THEN Len(job.text) ELSE PageUnits - SlotAt(h)
  OBVIOUS
<1>3. step = "append" /\ UNCHANGED <<kind, size, len, link, label, entries, entering, sector, stale>>
  BY DEF AppendPage
<1>4. units' = Programmed(h, n, job.text)
  BY <1>1, <1>2 DEF AppendPage, Programmed, PageAt, SlotAt
<1>5. Keep([h EXCEPT !.pos = @ + n])
  BY <1>1, <1>2 DEF AppendPage, SlotAt
<1>6. /\ job' = IF n < Len(job.text) \/ job.do = "write"
               THEN [job EXCEPT !.text = SubSeq(@, n + 1, Len(@))] ELSE NoJob
      /\ step' = IF n < Len(job.text) THEN "append"
                 ELSE IF job.do = "write" THEN "finish" ELSE "idle"
  BY <1>1, <1>2 DEF AppendPage, SlotAt
<1>7. spilled' \in BOOLEAN
  BY DEF AppendPage, FlashInv, TypeOK
<1>8. /\ TypeOK /\ NothingTorn /\ EntriesInv /\ HandlesInv /\ kind[0] = "header"
      /\ SpaceErased /\ ObjectsApart /\ LinksLead
      /\ h \in Handles /\ h.pos \in Nat /\ Begun(h)
      /\ job.do = "write" => ~IsOpen
      /\ job.do # "write" => IsOpen
      /\ job.text \in Seq(Byte) /\ job \in Jobs
  BY <1>1, <1>3, WritingIs
<1>9. n \in Nat /\ n <= PageUnits - SlotAt(h) /\ n <= Len(job.text)
  <2>1. PICK r \in Nat : r = SlotAt(h) /\ r < PageUnits
    BY <1>8, Place DEF SlotAt
  <2>2. Len(job.text) \in Nat
    BY <1>8
  <2>. QED  BY <1>2, <2>1, <2>2, Sizings
<1>10. PICK g : g = [h EXCEPT !.pos = h.pos + n]
  OBVIOUS
<1>11. /\ g.file = h.file /\ g.head = h.head /\ g.block = h.block /\ g.pos = h.pos + n
       /\ g \in Handles
  BY <1>8, <1>9, <1>10 DEF Handles
<1>12. IF job.do = "write" THEN local' = g /\ UNCHANGED current ELSE current' = g /\ UNCHANGED local
  BY <1>5, <1>10 DEF Keep
<1>13. SpaceErased' /\ ObjectsApart' /\ LinksLead' /\ Begun(g)'
  BY <1>3, <1>4, <1>8, <1>9, <1>11, AppendBegun
<1>14. /\ \A x \in Blocks, s \in Slots : units'[x][s] = units[x][s] \/ units'[x][s] \in Byte
       /\ units' \in [Blocks -> [Slots -> Int]]
  BY <1>4, <1>8, <1>9, AppendUnits
<1>15. SubSeq(job.text, n + 1, Len(job.text)) \in Seq(Byte)
  BY <1>8, <1>9
<1>16. job' \in Jobs /\ job'.text \in Seq(Byte)
  <2>1. CASE job' = NoJob
    BY <2>1, EmptyHanded
  <2>2. CASE job' = [job EXCEPT !.text = SubSeq(@, n + 1, Len(@))]
    <3>1. job' = [job EXCEPT !.text = SubSeq(job.text, n + 1, Len(job.text))]
      BY <2>2
    <3>. QED  BY <1>8, <1>15, <3>1, ByteIsInt DEF Jobs
  <2>. QED  BY <1>6, <2>1, <2>2
<1>17. TypeOK'
  <2>1. FlashTypes'
    BY <1>3, <1>8, <1>14, Types DEF FlashTypes
  <2>2. current' \in Handles /\ local' \in Handles
    BY <1>8, <1>11, <1>12, Types DEF RamTypes
  <2>3. RamTypes'
    BY <1>3, <1>6, <1>7, <1>8, <1>16, <2>2, Types DEF RamTypes, Steps
  <2>. QED  BY <2>1, <2>3, Types
<1>18. NothingTorn'
  <2>1. Torn \notin Byte
    BY DEF Torn, Byte, Blank
  <2>. QED  BY <1>3, <1>8, <1>14, <2>1 DEF NothingTorn
<1>19. HandlesInv'
  <2>1. kind'[0] = "header"
    BY <1>3, <1>8
  <2>2. CASE job.do = "write"
    <3>1. ~IsOpen' /\ (current.block # NoBlock => current.file # NoBlock)'
      BY <1>3, <1>8, <1>12, <2>2 DEF IsOpen, HandlesInv
    <3>2. Begun(local)'
      BY <1>12, <1>13, <2>2, LocalThen
    <3>3. job'.do = "write" /\ step' \in {"append", "finish"}
      BY <1>6, <1>8, <2>2 DEF Jobs
    <3>. QED  BY <1>16, <2>1, <3>1, <3>2, <3>3 DEF HandlesInv
  <2>3. CASE job.do # "write"
    <3>1. IsOpen' /\ current'.file # NoBlock
      BY <1>1, <1>3, <1>8, <1>11, <1>12, <2>3 DEF IsOpen, HandlesInv, Writing
    <3>2. Begun(current)'
      BY <1>12, <1>13, <2>3, CurrentThen
    <3>3. step' \in {"append", "idle"} /\ job'.do # "write"
      BY <1>6, <1>8, <2>3, EmptyHanded DEF Jobs
    <3>. QED  BY <1>16, <2>1, <3>1, <3>2, <3>3 DEF HandlesInv
  <2>. QED  BY <2>2, <2>3
<1>20. EraseInv'
  <2>1. step' \notin {"erase", "root"} /\ kind'[0] = "header"
    BY <1>3, <1>6, <1>8
  <2>. QED  BY <2>1 DEF EraseInv
<1>21. Layout' /\ EntriesInv'
  BY <1>3, <1>8, <1>13 DEF Layout, EntriesInv
<1>. QED  BY <1>17, <1>18, <1>19, <1>20, <1>21 DEF FlashInv

LEMMA FinishHeaderKeeps == ASSUME FlashInv, FinishHeader PROVE FlashInv'
<1>1. PICK h : h = Writing
  OBVIOUS
<1>2. /\ step = "finish" /\ step' = "link"
      /\ size' = [size EXCEPT ![h.block] = Over(@, PagesFor(h.pos))]
      /\ len' = [len EXCEPT ![h.block] = Over(@, (h.pos - DataOffset) % LenMod)]
      /\ UNCHANGED <<kind, link, label, entries, units, current, local, job, entering, sector, stale,
                     spilled>>
  BY <1>1 DEF FinishHeader
<1>3. /\ TypeOK /\ NothingTorn /\ EntriesInv /\ HandlesInv /\ kind[0] = "header"
      /\ SpaceErased /\ ObjectsApart /\ LinksLead
      /\ h \in Handles /\ h.pos \in Nat /\ h.block \in Blocks \ {0} /\ Begun(h)
      /\ job.do = "write" => ~IsOpen
      /\ job.do # "write" => IsOpen
      /\ job.text \in Seq(Byte) /\ job \in Jobs
  BY <1>1, <1>2, WritingIs
<1>4. size[h.block] = Blank /\ len[h.block] = Blank /\ h.pos >= DataOffset
  BY <1>3 DEF Begun
<1>5. PICK m \in Nat : m = (h.pos - DataOffset) % LenMod
  <2>1. PICK a \in Nat : a = h.pos - DataOffset
    BY <1>3, <1>4, Sizings
  <2>. QED  BY <2>1, Sizings, Division
<1>6. PICK p \in Nat : p = PagesFor(h.pos)
  BY <1>3, PagesForIs
<1>7. /\ size' = [size EXCEPT ![h.block] = p]
      /\ len' = [len EXCEPT ![h.block] = m]
  BY <1>2, <1>3, <1>4, <1>5, <1>6 DEF Over, TypeOK
<1>8. SpaceErased' /\ ObjectsApart' /\ LinksLead'
  BY <1>2, <1>3, <1>7, FinishLayout
<1>9. p \in Field /\ m \in Field /\ p # Torn /\ m # Torn
  BY DEF Field, Torn
<1>10. TypeOK'
  <2>1. FlashTypes'
    BY <1>2, <1>3, <1>7, <1>9, Types, ZenonT(60) DEF FlashTypes
  <2>2. RamTypes'
    BY <1>2, <1>3, Types DEF RamTypes, Steps
  <2>. QED  BY <2>1, <2>2, Types
<1>11. NothingTorn'
  BY <1>2, <1>3, <1>7, <1>9 DEF NothingTorn, TypeOK
<1>12. Complete(h)'
  <2>1. FromReady(h)' /\ From(h)' = From(h)
    BY <1>2, <1>3 DEF Begun, FromReady, From
  <2>. QED  BY <1>2, <1>3, <2>1 DEF Complete, Begun
<1>13. HandlesInv'
  <2>1. kind'[0] = "header" /\ (IsOpen' <=> IsOpen)
    BY <1>2, <1>3 DEF IsOpen
  <2>2. (current.block # NoBlock => current.file # NoBlock)'
    BY <1>2, <1>3 DEF HandlesInv
  <2>3. CASE job.do = "write"
    <3>1. Complete(local)'
      BY <1>1, <1>2, <1>12, <2>3, LocalThen DEF Writing
    <3>. QED  BY <1>2, <1>3, <2>1, <2>2, <2>3, <3>1 DEF HandlesInv
  <2>4. CASE job.do # "write"
    <3>1. Complete(current)'
      BY <1>1, <1>2, <1>12, <2>4, CurrentThen DEF Writing
    <3>. QED  BY <1>2, <1>3, <2>1, <2>2, <2>4, <3>1 DEF HandlesInv
  <2>. QED  BY <2>3, <2>4
<1>14. Layout' /\ EntriesInv' /\ EraseInv'
  BY <1>2, <1>3, <1>8 DEF Layout, EntriesInv, EraseInv
<1>. QED  BY <1>10, <1>11, <1>13, <1>14 DEF FlashInv

LEMMA LinkKeeps == ASSUME FlashInv, Link PROVE FlashInv'
<1>1. PICK h : h = Writing
  OBVIOUS
<1>2. /\ step = "link" /\ step' = "idle" /\ job' = NoJob
      /\ link' = [link EXCEPT ![From(h)] = Over(@, h.block - From(h))]
      /\ Keep(NoHandle)
      /\ UNCHANGED <<kind, size, len, label, entries, units, entering, sector, stale, spilled>>
  BY <1>1 DEF Link, From
<1>3. /\ TypeOK /\ NothingTorn /\ EntriesInv /\ HandlesInv /\ kind[0] = "header"
      /\ SpaceErased /\ ObjectsApart /\ LinksLead /\ Complete(h)
      /\ job.do = "write" => ~IsOpen
  BY <1>1, <1>2, WritingIs
<1>4. /\ SpaceErased' /\ ObjectsApart' /\ LinksLead'
      /\ link' \in [Blocks -> Field] /\ \A b \in Blocks : link'[b] = Torn => link[b] = Torn
  BY <1>2, <1>3, LinkLayout
<1>5. IF job.do = "write" THEN local' = NoHandle /\ UNCHANGED current
                         ELSE current' = NoHandle /\ UNCHANGED local
  BY <1>2 DEF Keep
<1>6. TypeOK'
  <2>1. FlashTypes'
    BY <1>2, <1>3, <1>4, Types DEF FlashTypes
  <2>2. current' \in Handles /\ local' \in Handles
    BY <1>3, <1>5, Types, EmptyHanded DEF RamTypes
  <2>3. RamTypes'
    BY <1>2, <1>3, <2>2, Types, EmptyHanded DEF RamTypes, Steps
  <2>. QED  BY <2>1, <2>3, Types
<1>7. NothingTorn'
  BY <1>2, <1>3, <1>4 DEF NothingTorn
<1>8. HandlesInv'
  <2>1. ~IsOpen' /\ (current.block # NoBlock => current.file # NoBlock)'
    BY <1>2, <1>3, <1>5, EmptyHanded DEF IsOpen, HandlesInv
  <2>. QED  BY <1>2, <1>3, <2>1, EmptyHanded DEF HandlesInv
<1>9. Layout' /\ EntriesInv' /\ EraseInv'
  BY <1>2, <1>3, <1>4 DEF Layout, EntriesInv, EraseInv
<1>. QED  BY <1>6, <1>7, <1>8, <1>9 DEF FlashInv

LEMMA StutterKeeps == ASSUME FlashInv, UNCHANGED vars PROVE FlashInv'
<1>1. /\ UNCHANGED flash
      /\ UNCHANGED <<current, local, step, job, entering, sector, stale, spilled>>
  BY DEF vars, ram
<1>2. FlashTypes' /\ RamTypes'
  BY <1>1, Types, SameFlashTypes DEF FlashInv, RamTypes
<1>3. Layout' /\ EntriesInv' /\ NothingTorn' /\ EraseInv'
  BY <1>1, SameFlash DEF FlashInv, Layout, EntriesInv, NothingTorn, EraseInv, Untouched, flash
<1>4. HandlesInv'
  <2>1. PICK c, l : c = current /\ l = local
    OBVIOUS
  <2>2. /\ Begun(current)' <=> Begun(current)
        /\ Complete(current)' <=> Complete(current)
    BY <1>1, <2>1, CurrentThen, SameFlash
  <2>3. /\ Begun(local)' <=> Begun(local)
        /\ Complete(local)' <=> Complete(local)
        /\ FromReady(local)' <=> FromReady(local)
    BY <1>1, <2>1, LocalThen, SameFlash
  <2>. QED  BY <1>1, <2>2, <2>3 DEF FlashInv, HandlesInv, IsOpen, flash
<1>. QED  BY <1>2, <1>3, <1>4, Types DEF FlashInv

LEMMA InitiallyErased == ASSUME Init PROVE FlashInv
<1>1. /\ kind = [b \in Blocks |-> "erased"]
      /\ size = [b \in Blocks |-> Blank] /\ len = [b \in Blocks |-> Blank]
      /\ link = [b \in Blocks |-> Blank] /\ label = [b \in Blocks |-> NoName]
      /\ entries = [b \in Blocks |-> <<>>] /\ units = [b \in Blocks |-> BlankUnits]
      /\ current = NoHandle /\ local = NoHandle
      /\ step = "boot" /\ job = NoJob /\ entering = <<NoBlock, NoBlock>>
      /\ sector = 0 /\ stale = FALSE /\ spilled = FALSE
  BY DEF Init
<1>2. FlashTypes
  <2>1. "erased" \in Objects \cup {"erased", "header"} /\ Blank \in Field
    BY DEF Field
  <2>2. NoName \in Names \cup {NoName} /\ <<>> \in Seq([type : Objects, offset : Int])
    OBVIOUS
  <2>3. BlankUnits \in [Slots -> Int]
    BY DEF BlankUnits, Blank
  <2>. QED  BY <1>1, <2>1, <2>2, <2>3 DEF FlashTypes
<1>3. RamTypes
  BY <1>1, EmptyHanded DEF RamTypes, Steps
<1>4. kind[0] = "erased"
  BY <1>1, Sizings
<1>5. Layout /\ EntriesInv /\ EraseInv
  BY <1>1, <1>4 DEF Layout, EntriesInv, EraseInv
<1>6. NothingTorn
  <2>1. Blank # Torn
    BY DEF Blank, Torn
  <2>. QED  BY <1>1, <2>1 DEF NothingTorn, BlankUnits
<1>7. HandlesInv
  BY <1>1, EmptyHanded DEF HandlesInv, IsOpen
<1>. QED  BY <1>2, <1>3, <1>5, <1>6, <1>7, Types DEF FlashInv

LEMMA StepKeeps == ASSUME FlashInv, [Next]_vars PROVE FlashInv'
<1>1. CASE Boot
  BY <1>1, BootKeeps
<1>2. CASE Restart
  BY <1>2, RestartKeeps
<1>3. ASSUME NEW d \in Blocks, NEW nm \in Names, MakeDirectory(d, nm) PROVE FlashInv'
  <2>1. PICK what : what = [NoJob EXCEPT !.do = "mkdir"]
    OBVIOUS
  <2>2. what \in Jobs /\ what.text \in Seq(Byte) /\ what.do = "mkdir"
    BY <2>1, EmptyHanded DEF Jobs, NoJob
  <2>3. step = "idle" /\ Make(d, "dir", nm, what)
    BY <1>3, <2>1 DEF MakeDirectory
  <2>. QED  BY <2>2, <2>3, MakeKeeps
<1>4. ASSUME NEW d \in Blocks, NEW nm \in Names, NEW what \in Jobs, what.text \in Seq(Byte),
             what.do \in {"write", "alloc"}, OpenOrCreate(d, nm, what)
      PROVE  FlashInv'
  <2>1. CASE Open(d, nm, what)
    BY <1>4, <2>1, OpenKeeps DEF OpenOrCreate
  <2>2. CASE Make(d, "file", nm, what)
    BY <1>4, <2>2, MakeKeeps DEF OpenOrCreate
  <2>. QED  BY <1>4, <2>1, <2>2 DEF OpenOrCreate
<1>5. ASSUME NEW d \in Blocks, NEW nm \in Names, NEW text \in Texts, Store(d, nm, text)
      PROVE  FlashInv'
  <2>1. PICK what : what = [do |-> "write", text |-> text, size |-> Len(text)]
    OBVIOUS
  <2>2. text \in Seq(Byte) /\ text \in Seq(Int) /\ Len(text) \in Nat
    BY SPFSAssumption, ByteIsInt
  <2>3. what \in Jobs /\ what.text \in Seq(Byte) /\ what.do = "write"
    BY <2>1, <2>2 DEF Jobs
  <2>4. OpenOrCreate(d, nm, what)
    BY <1>5, <2>1 DEF Store
  <2>. QED  BY <1>4, <2>3, <2>4
<1>6. ASSUME NEW d \in Blocks, NEW nm \in Names, NEW n \in Sizes, StoreAlloc(d, nm, n)
      PROVE  FlashInv'
  <2>1. PICK what : what = [do |-> "alloc", text |-> <<>>, size |-> n]
    OBVIOUS
  <2>2. <<>> \in Seq(Byte) /\ <<>> \in Seq(Int) /\ n \in Nat
    BY SPFSAssumption
  <2>3. what \in Jobs /\ what.text \in Seq(Byte) /\ what.do = "alloc"
    BY <2>1, <2>2 DEF Jobs
  <2>4. OpenOrCreate(d, nm, what)
    BY <1>6, <2>1 DEF StoreAlloc
  <2>. QED  BY <1>4, <2>3, <2>4
<1>7. CASE Command
  BY <1>3, <1>5, <1>6, <1>7, StoreAppendKeeps, StoreFinishKeeps, UseStaleHandleKeeps, MkfsKeeps
  DEF Command
<1>8. CASE Program
  BY <1>8, EraseSectorKeeps, ProgramRootKeeps, ProgramHeaderKeeps, EnterContentKeeps,
     AllocateWriteKeeps, AllocateKeptKeeps, AppendPageKeeps, FinishHeaderKeeps, LinkKeeps
  DEF Program
<1>9. CASE UNCHANGED vars
  BY <1>9, StutterKeeps
<1>. QED  BY <1>1, <1>2, <1>7, <1>8, <1>9 DEF Next

(***************************************************************************)
(* The theorems.                                                           *)
(***************************************************************************)

\* What the flash looks like in every state: free and erased from the first free
\* block on, objects side by side, links that lead to contents, and blank the
\* fields and the bytes that a handle or an erase has still to program.
THEOREM FlashHolds == Spec => []FlashInv
<1>1. Init => FlashInv
  BY InitiallyErased
<1>2. FlashInv /\ [Next]_vars => FlashInv'
  BY StepKeeps
<1>. QED  BY <1>1, <1>2, PTL DEF Spec

\* Every variable keeps its type, whatever is stored and wherever the power
\* fails: every block number a handle or an entry leads to is a block.
THEOREM FlashTyped == Spec => []TypeOK
<1>1. FlashInv => TypeOK
  BY DEF FlashInv
<1>. QED  BY <1>1, FlashHolds, PTL

\* No field and no byte of a page is programmed over another one, whatever
\* commands come between the appends of a kept upload and wherever the power
\* fails.
THEOREM FlashNotTorn == Spec => []NothingTorn
<1>1. FlashInv => NothingTorn
  BY DEF FlashInv
<1>. QED  BY <1>1, FlashHolds, PTL

\* A block that findFreeSpace takes for free was not programmed since it was
\* erased, and neither was anything behind it.
THEOREM FreeIsErased == Spec => []FreeSpaceIsErased
<1>1. FlashInv => FreeSpaceIsErased
  BY DEF FlashInv, HandlesInv, Layout, SpaceErased, FreeSpaceIsErased
<1>. QED  BY <1>1, FlashHolds, PTL

(***************************************************************************)
(* The search for space.                                                   *)
(***************************************************************************)

\* one turn of the loop of findFreeSpace at block b, as the function at goes on
Taken(n, b) == {i \in 1 .. n - 1 : ~FirstWordErased(b + i)}
SearchStep(n, at, b) ==
    IF b + n > NBlocks THEN NoBlock
    ELSE IF FirstWordErased(b) THEN
        IF Taken(n, b) = {} THEN b
        ELSE at[b + (CHOOSE i \in Taken(n, b) : \A j \in Taken(n, b) : i <= j) + 1]
    ELSE IF kind[b] \in Objects THEN
        IF size[b] = Blank \/ b + size[b] > NBlocks THEN NoBlock ELSE at[b + size[b]]
    ELSE at[b + 1]

IsSearch(n, at) == at = [b \in 1 .. NBlocks |-> SearchStep(n, at, b)]

\* the search only goes on behind the block it is at
LEMMA SearchGoesOn ==
    ASSUME TypeOK, ObjectsApart, NEW n \in Nat, n >= 1, NEW b \in 1 .. NBlocks,
           NEW f, NEW g, \A c \in b + 1 .. NBlocks : f[c] = g[c]
    PROVE  SearchStep(n, f, b) = SearchStep(n, g, b)
<1>1. b \in Nat /\ NBlocks \in Nat
  BY Sizings
<1>2. CASE b + n > NBlocks
  BY <1>2 DEF SearchStep
<1>3. CASE b + n <= NBlocks /\ FirstWordErased(b) /\ Taken(n, b) = {}
  BY <1>1, <1>3 DEF SearchStep
<1>4. CASE b + n <= NBlocks /\ FirstWordErased(b) /\ Taken(n, b) # {}
  <2>1. PICK i : i = CHOOSE m \in Taken(n, b) : \A j \in Taken(n, b) : m <= j
    OBVIOUS
  <2>2. Taken(n, b) \subseteq Nat
    BY DEF Taken
  <2>3. i \in Taken(n, b)
    BY <1>4, <2>1, <2>2, Minimum
  <2>4. b + i + 1 \in b + 1 .. NBlocks
    BY <1>1, <1>4, <2>3 DEF Taken
  <2>5. ~ (b + n > NBlocks)
    BY <1>1, <1>4
  <2>6. SearchStep(n, f, b) = f[b + i + 1] /\ SearchStep(n, g, b) = g[b + i + 1]
    BY <1>4, <2>1, <2>5 DEF SearchStep
  <2>. QED  BY <2>4, <2>6
<1>5. CASE b + n <= NBlocks /\ ~FirstWordErased(b)
  <2>1. b \in Blocks \ {0} /\ size[b] \in Int
    <3>1. b \in Blocks \ {0}
      BY <1>1, <1>5 DEF Blocks
    <3>2. size[b] \in Field
      BY <3>1 DEF TypeOK
    <3>. QED  BY <3>1, <3>2 DEF Field, Blank, Torn
  <2>2. kind[b] \in Objects /\ size[b] # Blank => size[b] >= 1
    BY <2>1 DEF ObjectsApart
  <2>3. b + 1 \in b + 1 .. NBlocks
    BY <1>1, <1>5
  <2>4. kind[b] \in Objects /\ ~(size[b] = Blank \/ b + size[b] > NBlocks) =>
            b + size[b] \in b + 1 .. NBlocks
    BY <1>1, <2>1, <2>2
  <2>. QED  BY <1>1, <1>5, <2>3, <2>4 DEF SearchStep
<1>. QED  BY <1>1, <1>2, <1>3, <1>4, <1>5

LEMMA SearchExists ==
    ASSUME TypeOK, ObjectsApart, NEW n \in Nat, n >= 1
    PROVE  \E at : IsSearch(n, at)
<1>. DEFINE Ends(k, at) == \A b \in 1 .. NBlocks : b > NBlocks - k => at[b] = SearchStep(n, at, b)
            T == {k \in Nat : k <= NBlocks /\ ~ \E at : Ends(k, at)}
<1>0. NBlocks \in Nat
  BY Sizings
<1>1. T = {}
  <2>. SUFFICES ASSUME T # {} PROVE FALSE
    OBVIOUS
  <2>1. PICK k \in T : \A m \in T : k <= m
    BY Minimum
  <2>2. k # 0
    <3>1. \A at : Ends(0, at)
      BY <1>0
    <3>. QED  BY <2>1, <3>1
  <2>3. k - 1 \in Nat /\ k - 1 <= NBlocks /\ k - 1 \notin T
    <3>1. k \in Nat /\ k <= NBlocks
      BY <2>1
    <3>. HIDE DEF T
    <3>2. k - 1 \in Nat /\ k - 1 <= NBlocks /\ ~ (k <= k - 1)
      BY <1>0, <2>2, <3>1
    <3>. QED  BY <2>1, <3>2
  <2>4. PICK f : Ends(k - 1, f)
    BY <2>3
  <2>5. PICK e \in Nat : e = NBlocks - k + 1 /\ e \in 1 .. NBlocks
    BY <1>0, <2>1, <2>2
  <2>6. PICK g : g = [b \in 1 .. NBlocks |-> IF b = e THEN SearchStep(n, f, e) ELSE f[b]]
    OBVIOUS
  <2>7. \A c \in e + 1 .. NBlocks : f[c] = g[c]
    BY <1>0, <2>5, <2>6
  <2>8. ASSUME NEW b \in 1 .. NBlocks, b > NBlocks - k
        PROVE  g[b] = SearchStep(n, g, b)
    <3>1. b \in Nat /\ b >= e
      BY <1>0, <2>1, <2>5, <2>8
    <3>2. \A c \in b + 1 .. NBlocks : f[c] = g[c]
      BY <1>0, <2>5, <2>7, <3>1
    <3>3. SearchStep(n, f, b) = SearchStep(n, g, b)
      BY <3>2, SearchGoesOn
    <3>4. CASE b = e
      BY <2>6, <3>3, <3>4
    <3>5. CASE b # e
      <4>1. b > NBlocks - (k - 1)
        BY <1>0, <2>1, <2>5, <3>1, <3>5
      <4>2. f[b] = SearchStep(n, f, b)
        BY <2>4, <4>1
      <4>. QED  BY <2>6, <3>3, <3>5, <4>2
    <3>. QED  BY <3>4, <3>5
  <2>9. Ends(k, g)
    BY <2>8
  <2>. QED  BY <2>1, <2>9
<1>2. PICK f : Ends(NBlocks, f)
  BY <1>0, <1>1
<1>3. \A b \in 1 .. NBlocks : f[b] = SearchStep(n, f, b)
  BY <1>0, <1>2
<1>4. PICK at : at = [b \in 1 .. NBlocks |-> f[b]]
  OBVIOUS
<1>5. \A b \in 1 .. NBlocks : at[b] = SearchStep(n, at, b)
  <2>. SUFFICES ASSUME NEW b \in 1 .. NBlocks PROVE at[b] = SearchStep(n, at, b)
    OBVIOUS
  <2>1. \A c \in b + 1 .. NBlocks : f[c] = at[c]
    BY <1>0, <1>4
  <2>. QED  BY <1>3, <1>4, <2>1, SearchGoesOn
<1>6. at = [b \in 1 .. NBlocks |-> SearchStep(n, at, b)]
  BY <1>4, <1>5
<1>. QED  BY <1>6 DEF IsSearch

LEMMA SearchWalks ==
    ASSUME TypeOK, ObjectsApart, NEW n \in Nat, n >= 1
    PROVE  \E at : IsSearch(n, at) /\ Search(n) = at[1]
<1>1. Search(n) = (CHOOSE at : IsSearch(n, at))[1]
  BY DEF Search, IsSearch, SearchStep, Taken
<1>. QED  BY <1>1, SearchExists

\* an object leads to a block that none covers
LEMMA BehindObject ==
    ASSUME TypeOK, ObjectsApart, NEW b \in Blocks \ {0}, kind[b] \in Objects, ~Covered(b),
           size[b] # Blank, b + size[b] \in Blocks
    PROVE  ~Covered(b + size[b])
<1>1. PICK t \in Blocks : t = b + size[b]
  OBVIOUS
<1>2. size[b] >= 1 /\ size[b] \in Int
  <2>1. size[b] \in Field
    BY DEF TypeOK
  <2>. QED  BY <2>1 DEF ObjectsApart, Field, Blank, Torn
<1>3. b \in Nat /\ b >= 1 /\ t \in Nat /\ b < t
  BY <1>1, <1>2, Sizings DEF Blocks
<1>4. ASSUME Covered(t) PROVE FALSE
  <2>1. PICK c \in 1 .. t - 1 : kind[c] \in Objects /\ (size[c] = Blank \/ t < c + size[c])
    BY <1>4 DEF Covered
  <2>2. c \in Blocks \ {0} /\ c \in Nat /\ size[c] \in Int
    <3>1. c \in Blocks \ {0} /\ c \in Nat
      BY <1>3, Sizings DEF Blocks
    <3>2. size[c] \in Field
      BY <3>1 DEF TypeOK
    <3>. QED  BY <3>1, <3>2 DEF Field, Blank, Torn
  <2>3. CASE c < b
    <3>1. c \in 1 .. b - 1 /\ (size[c] = Blank \/ b < c + size[c])
      BY <1>3, <2>1, <2>2, <2>3
    <3>2. Covered(b)
      BY <2>1, <3>1 DEF Covered
    <3>. QED  BY <3>2
  <2>4. CASE c = b
    BY <1>1, <1>2, <1>3, <2>1, <2>4
  <2>5. CASE c > b
    <3>1. b \in 1 .. c - 1 /\ c < b + size[b]
      BY <1>1, <1>3, <2>1, <2>2, <2>5
    <3>2. Covered(c)
      BY <3>1 DEF Covered
    <3>. QED  BY <2>1, <2>2, <3>2 DEF ObjectsApart
  <2>. QED  BY <1>3, <2>2, <2>3, <2>4, <2>5
<1>. QED  BY <1>1, <1>4

LEMMA FitsAreFree ==
    ASSUME NEW n \in Nat, n >= 1
    PROVE  \A x \in Fits(n) : x \in Nat /\ x >= 1 /\ x + n <= NBlocks /\ x \in Blocks /\ Free(x)
<1>. SUFFICES ASSUME NEW x \in Fits(n)
              PROVE  x \in Nat /\ x >= 1 /\ x + n <= NBlocks /\ x \in Blocks /\ Free(x)
  OBVIOUS
<1>1. x \in Nat /\ x >= 1 /\ x + n <= NBlocks /\ x \in Blocks
  BY Sizings DEF Fits, Blocks
<1>2. 0 \in 0 .. n - 1 /\ x + 0 = x
  BY <1>1
<1>3. ~Covered(x) /\ FirstWordErased(x + 0)
  BY <1>2 DEF Fits
<1>. QED  BY <1>1, <1>2, <1>3 DEF Free

\* from a block that no object covers, with nothing free before it, the search
\* finds what findFreeSpace is meant to find
LEMMA SearchFinds ==
    ASSUME TypeOK, SpaceErased, ObjectsApart, NEW n \in Nat, n >= 1, n < NBlocks
    PROVE  Search(n) = FindFree(n)
<1>0. NBlocks \in Nat
  BY Sizings
<1>1. PICK at : IsSearch(n, at) /\ Search(n) = at[1]
  BY SearchWalks
<1>2. \A b \in 1 .. NBlocks : at[b] = SearchStep(n, at, b)
  BY <1>1 DEF IsSearch
<1>. DEFINE Ready(b) == (b = NBlocks \/ ~Covered(b)) /\ \A x \in 1 .. b - 1 : ~Free(x)
            T == {k \in Nat : k < NBlocks /\ Ready(NBlocks - k) /\ at[NBlocks - k] # FindFree(n)}
<1>3. T = {}
  <2>. SUFFICES ASSUME T # {} PROVE FALSE
    OBVIOUS
  <2>1. PICK k \in T : \A m \in T : k <= m
    BY Minimum
  <2>2. PICK b \in Nat : b = NBlocks - k /\ b \in 1 .. NBlocks
    BY <1>0, <2>1
  <2>3. Ready(b) /\ at[b] # FindFree(n)
    BY <2>1, <2>2
  <2>4. \A c \in b + 1 .. NBlocks : Ready(c) => at[c] = FindFree(n)
    <3>. SUFFICES ASSUME NEW c \in b + 1 .. NBlocks, Ready(c) PROVE at[c] = FindFree(n)
      OBVIOUS
    <3>1. PICK m \in Nat : m = NBlocks - c /\ m < k /\ NBlocks - m = c /\ m < NBlocks
      <4>1. k \in Nat /\ k < NBlocks
        BY <2>1
      <4>. HIDE DEF T, Ready
      <4>2. c \in Nat /\ c > b /\ c <= NBlocks /\ b = NBlocks - k /\ b >= 1
        BY <1>0, <2>2, <4>1
      <4>3. /\ NBlocks - c \in Nat /\ NBlocks - c < k /\ NBlocks - (NBlocks - c) = c
            /\ NBlocks - c < NBlocks
        BY <1>0, <4>1, <4>2
      <4>. QED  BY <4>3
    <3>2. m \notin T
      BY <2>1, <3>1
    <3>. QED  BY <3>1, <3>2
  <2>. HIDE DEF T
  <2>5. CASE b + n > NBlocks
    <3>1. at[b] = NoBlock
      BY <1>2, <2>2, <2>5 DEF SearchStep
    <3>2. Fits(n) = {}
      <4>. SUFFICES ASSUME NEW x \in Fits(n) PROVE FALSE
        OBVIOUS
      <4>1. x \in Nat /\ x >= 1 /\ x + n <= NBlocks /\ Free(x)
        BY FitsAreFree
      <4>2. x \in 1 .. b - 1
        BY <1>0, <2>5, <4>1
      <4>. QED  BY <2>3, <4>1, <4>2
    <3>. QED  BY <2>3, <3>1, <3>2, FindFreeIs
  <2>6. CASE b + n <= NBlocks
    <3>1. b \in Blocks \ {0} /\ b < NBlocks /\ ~Covered(b) /\ b >= 1
      BY <1>0, <2>2, <2>3, <2>6 DEF Blocks
    <3>2. ~ (b + n > NBlocks)
      BY <1>0, <2>6
    <3>3. CASE FirstWordErased(b)
      <4>1. \A c \in b .. NBlocks - 1 : Free(c)
        BY <3>1, <3>3 DEF SpaceErased, Free
      <4>2. \A i \in 0 .. n - 1 : b + i \in b .. NBlocks - 1
        BY <1>0, <2>6
      <4>3. \A i \in 0 .. n - 1 : FirstWordErased(b + i)
        BY <4>1, <4>2 DEF Free
      <4>4. Taken(n, b) = {}
        BY <4>3 DEF Taken
      <4>5. at[b] = b
        BY <1>2, <2>2, <3>2, <3>3, <4>4 DEF SearchStep
      <4>6. b \in Fits(n)
        <5>1. b \in 1 .. NBlocks - n
          BY <1>0, <2>6, <3>1
        <5>. QED  BY <3>1, <4>3, <5>1 DEF Fits
      <4>7. FindFree(n) \in Fits(n) /\ FindFree(n) <= b
        BY <4>6, FindFreeIs
      <4>8. FindFree(n) \in Nat /\ FindFree(n) >= 1 /\ Free(FindFree(n))
        BY <4>7, FitsAreFree
      <4>9. ~ (FindFree(n) < b)
        BY <2>3, <4>8
      <4>. QED  BY <2>3, <4>5, <4>7, <4>8, <4>9
    <3>4. CASE ~FirstWordErased(b)
      <4>1. kind[b] \in Objects /\ ~Free(b)
        BY <3>1, <3>4 DEF ObjectsApart, Free
      <4>2. size[b] \in Int /\ (size[b] # Blank => size[b] >= 1)
        <5>1. size[b] \in Field
          BY <3>1 DEF TypeOK
        <5>. QED  BY <3>1, <4>1, <5>1 DEF ObjectsApart, Field, Blank, Torn
      <4>3. CASE size[b] = Blank \/ b + size[b] > NBlocks
        <5>1. at[b] = NoBlock
          BY <1>2, <2>2, <3>2, <3>4, <4>1, <4>3 DEF SearchStep
        <5>2. Fits(n) = {}
          <6>. SUFFICES ASSUME NEW x \in Fits(n) PROVE FALSE
            OBVIOUS
          <6>1. x \in Nat /\ x >= 1 /\ x + n <= NBlocks /\ Free(x)
            BY FitsAreFree
          <6>2. x > b
            BY <2>3, <4>1, <6>1
          <6>3. b \in 1 .. x - 1 /\ (size[b] = Blank \/ x < b + size[b])
            BY <1>0, <3>1, <4>2, <4>3, <6>1, <6>2
          <6>4. Covered(x)
            BY <4>1, <6>3 DEF Covered
          <6>. QED  BY <6>1, <6>4 DEF Free
        <5>. QED  BY <2>3, <5>1, <5>2, FindFreeIs
      <4>4. CASE size[b] # Blank /\ b + size[b] <= NBlocks
        <5>1. PICK c \in b + 1 .. NBlocks : c = b + size[b] /\ c \in Nat
          BY <1>0, <4>2, <4>4
        <5>2. at[b] = at[c]
          <6>1. ~(size[b] = Blank \/ b + size[b] > NBlocks)
            BY <1>0, <4>2, <4>4
          <6>. QED  BY <1>2, <2>2, <3>2, <3>4, <4>1, <5>1, <6>1 DEF SearchStep
        <5>3. c = NBlocks \/ ~Covered(c)
          <6>. SUFFICES ASSUME c # NBlocks PROVE ~Covered(c)
            OBVIOUS
          <6>1. c \in Blocks
            BY <1>0, <5>1 DEF Blocks
          <6>. QED  BY <3>1, <4>1, <4>4, <5>1, <6>1, BehindObject
        <5>4. \A x \in 1 .. c - 1 : ~Free(x)
          <6>. SUFFICES ASSUME NEW x \in 1 .. c - 1 PROVE ~Free(x)
            OBVIOUS
          <6>1. CASE x < b
            <7>1. x \in 1 .. b - 1
              BY <5>1, <6>1
            <7>. QED  BY <2>3, <7>1
          <6>2. CASE x = b
            BY <4>1, <6>2
          <6>3. CASE x > b
            <7>1. b \in 1 .. x - 1 /\ x < b + size[b]
              BY <3>1, <5>1, <6>3
            <7>2. Covered(x)
              BY <4>1, <7>1 DEF Covered
            <7>. QED  BY <7>2 DEF Free
          <6>. QED  BY <5>1, <6>1, <6>2, <6>3
        <5>5. Ready(c)
          BY <5>3, <5>4
        <5>. QED  BY <2>3, <2>4, <5>1, <5>2, <5>5
      <4>. QED  BY <1>0, <4>2, <4>3, <4>4
    <3>. QED  BY <3>3, <3>4
  <2>. QED  BY <1>0, <2>2, <2>5, <2>6
<1>4. Ready(1)
  <2>1. ~Covered(1)
    BY DEF Covered
  <2>. QED  BY <2>1
<1>5. NBlocks - 1 \in Nat /\ NBlocks - 1 < NBlocks /\ NBlocks - (NBlocks - 1) = 1
  BY Sizings
<1>6. NBlocks - 1 \notin T
  BY <1>3
<1>7. at[1] = FindFree(n)
  BY <1>4, <1>5, <1>6
<1>. QED  BY <1>1, <1>7

\* The loop of findFreeSpace returns the first place where the blocks fit,
\* although after a failed try it steps over a block it has not looked at.
THEOREM SearchIsRight == Spec => []SearchFindsFree
<1>1. FlashInv => SearchFindsFree
  <2>. SUFFICES ASSUME FlashInv, step \notin {"boot", "erase", "root", "header"},
                       NEW n \in 1 .. NBlocks - 1
                PROVE  Search(n) = FindFree(n)
    BY DEF SearchFindsFree
  <2>1. TypeOK /\ SpaceErased /\ ObjectsApart
    BY DEF FlashInv, HandlesInv, Layout
  <2>2. n \in Nat /\ n >= 1 /\ n < NBlocks
    BY Sizings
  <2>. QED  BY <2>1, <2>2, SearchFinds
<1>. QED  BY <1>1, FlashHolds, PTL
=============================================================================
