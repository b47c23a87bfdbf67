---------------------------- MODULE VersionsProofs ----------------------------
(***************************************************************************)
(* The file system implements versioned files: SPFS.tla's StoresVersions,  *)
(* for every size of the flash, its pages and sectors and every content    *)
(* short enough for its header.  StoreInv below says what the flash holds  *)
(* besides the layout that FlashInv describes, and what the writers have   *)
(* written; each action keeps it and is a step of the abstract store.      *)
(***************************************************************************)
EXTENDS SPFSProofs

(***************************************************************************)
(* What the flash of a file system looks like besides the layout of its    *)
(* blocks: every object is entered in one directory at most, and every     *)
(* content a link leads to is finished and belongs to one chain.           *)
(***************************************************************************)
OnDisk == kind[0] = "header" \/ step \in {"root", "header"}

To(d, i) == d + entries[d][i].offset

EntriesLead ==
    \A d \in Blocks :
        /\ entries[d] # <<>> => kind[d] = "dir"
        /\ \A i \in DOMAIN entries[d] :
              entries[d][i].type \in {"dir", "file"} /\ kind[To(d, i)] = entries[d][i].type

EnteredOnce ==
    \A d, e \in Blocks : \A i \in DOMAIN entries[d], j \in DOMAIN entries[e] :
        To(d, i) = To(e, j) => d = e /\ i = j

NoEntry(b) == \A d \in Blocks : \A i \in DOMAIN entries[d] : To(d, i) # b

IsLinked(a) == kind[a] \in Linked /\ link[a] # Blank
NoLink(c) == \A a \in Blocks : IsLinked(a) => a + link[a] # c
Done(c) == len[c] \in Nat /\ size[c] = PagesFor(DataOffset + len[c])

VersionsDone == \A a \in Blocks : IsLinked(a) => link[a] > 0 /\ Done(a + link[a])

LinkedOnce ==
    \A a, b \in Blocks : IsLinked(a) /\ IsLinked(b) /\ a + link[a] = b + link[b] => a = b

DiskInv == OnDisk => EntriesLead /\ EnteredOnce /\ VersionsDone /\ LinkedOnce

\* what chains need
LinksGood == TypeOK /\ LinksLead /\ VersionsDone /\ LinkedOnce

(***************************************************************************)
(* The chain of a file, one link after the other.                          *)
(***************************************************************************)

\* two walks agree where both are defined
LEMMA WalksAgree ==
    ASSUME NEW f, NEW n \in Nat, NEW m \in Nat, NEW at, IsWalk(f, n, at), NEW to, IsWalk(f, m, to)
    PROVE  \A k \in Nat : k <= n /\ k <= m => at[k] = to[k]
<1>1. \A k \in Nat : k <= n => at[k] = IF k = 0 THEN f ELSE Newer[at[k - 1]]
  BY DEF IsWalk
<1>2. \A k \in Nat : k <= m => to[k] = IF k = 0 THEN f ELSE Newer[to[k - 1]]
  BY DEF IsWalk
<1>. DEFINE T == {k \in Nat : k <= n /\ k <= m /\ at[k] # to[k]}
<1>. SUFFICES ASSUME T # {} PROVE FALSE
  OBVIOUS
<1>3. PICK k \in T : \A j \in T : k <= j
  BY Minimum
<1>4. k \in Nat /\ k <= n /\ k <= m /\ at[k] # to[k]
  BY <1>3
<1>5. k # 0
  BY <1>1, <1>2, <1>4
<1>6. k - 1 \in Nat /\ k - 1 <= n /\ k - 1 <= m /\ k - 1 \notin T
  BY <1>3, <1>4, <1>5
<1>7. at[k - 1] = to[k - 1]
  BY <1>6
<1>. QED  BY <1>1, <1>2, <1>4, <1>5, <1>7

LEMMA ChainGoesOn ==
    \A f : /\ ChainAt(f, 0) = f
           /\ \A n \in Nat : ChainAt(f, n + 1) = Newer[ChainAt(f, n)]
<1>. SUFFICES ASSUME NEW f
              PROVE  /\ ChainAt(f, 0) = f
                     /\ \A n \in Nat : ChainAt(f, n + 1) = Newer[ChainAt(f, n)]
  OBVIOUS
<1>1. ChainAt(f, 0) = f
  <2>1. PICK at : IsWalk(f, 0, at) /\ ChainAt(f, 0) = at[0]
    BY ChainWalks
  <2>. QED  BY <2>1 DEF IsWalk
<1>2. ASSUME NEW n \in Nat PROVE ChainAt(f, n + 1) = Newer[ChainAt(f, n)]
  <2>1. PICK at : IsWalk(f, n + 1, at) /\ ChainAt(f, n + 1) = at[n + 1]
    BY ChainWalks
  <2>2. PICK to : IsWalk(f, n, to) /\ ChainAt(f, n) = to[n]
    BY ChainWalks
  <2>3. at[n + 1] = Newer[at[n]]
    BY <2>1 DEF IsWalk
  <2>4. at[n] = to[n]
    BY <2>1, <2>2, WalksAgree
  <2>. QED  BY <2>1, <2>2, <2>3, <2>4
<1>. QED  BY <1>1, <1>2

LEMMA ChainGoesOnThen ==
    \A f : /\ ChainAt(f, 0)' = f
           /\ \A n \in Nat : ChainAt(f, n + 1)' = Newer'[ChainAt(f, n)']
<1>1. (\A f : /\ ChainAt(f, 0) = f
              /\ \A n \in Nat : ChainAt(f, n + 1) = Newer[ChainAt(f, n)])'
  BY ChainGoesOn, PTL
<1>. QED  BY <1>1

\* a chain none of whose links is programmed stays the same
LEMMA SameChain ==
    ASSUME NEW f, NEW m \in Nat,
           \A n \in Nat : n < m => Newer'[ChainAt(f, n)] = Newer[ChainAt(f, n)]
    PROVE  \A n \in Nat : n <= m => ChainAt(f, n)' = ChainAt(f, n)
<1>. DEFINE T == {n \in Nat : n <= m /\ ~(ChainAt(f, n)' = ChainAt(f, n))}
<1>. SUFFICES ASSUME T # {} PROVE FALSE
  OBVIOUS
<1>1. PICK n \in T : \A j \in T : n <= j
  BY Minimum
<1>2. n \in Nat /\ n <= m /\ ~(ChainAt(f, n)' = ChainAt(f, n))
  BY <1>1
<1>3. n # 0
  BY <1>2, ChainGoesOn, ChainGoesOnThen
<1>4. n - 1 \in Nat /\ n - 1 < m /\ n - 1 \notin T /\ n = n - 1 + 1
  BY <1>1, <1>2, <1>3
<1>5. ChainAt(f, n - 1)' = ChainAt(f, n - 1)
  BY <1>4
<1>6. ChainAt(f, n - 1 + 1) = Newer[ChainAt(f, n - 1)]
  BY <1>4, ChainGoesOn
<1>7. ChainAt(f, n - 1 + 1)' = Newer'[ChainAt(f, n - 1)']
  BY <1>4, ChainGoesOnThen
<1>8. ChainAt(f, n - 1 + 1)' = ChainAt(f, n - 1 + 1)
  BY <1>4, <1>5, <1>6, <1>7
<1>. QED  BY <1>2, <1>4, <1>8

(***************************************************************************)
(* Where a chain ends.                                                     *)
(***************************************************************************)
LEMMA NewerIs ==
    ASSUME LinksGood, NEW b \in Blocks, kind[b] \in Linked
    PROVE  /\ b \in Nat
           /\ link[b] = Blank => Newer[b] = b
           /\ link[b] # Blank => /\ Newer[b] = b + link[b] /\ link[b] \in Int /\ link[b] > 0
                                /\ Newer[b] \in Blocks /\ kind[Newer[b]] = "content"
                                /\ Newer[b] > b /\ Done(Newer[b])
<1>1. b \in Nat /\ link[b] \in Int
  <2>1. link[b] \in Field /\ b \in Nat
    BY Sizings DEF LinksGood, TypeOK, Blocks
  <2>. QED  BY <2>1 DEF Field, Blank, Torn
<1>2. link[b] = Blank => Newer[b] = b
  BY DEF Newer
<1>3. ASSUME link[b] # Blank
      PROVE  /\ Newer[b] = b + link[b] /\ link[b] > 0
             /\ Newer[b] \in Blocks /\ kind[Newer[b]] = "content" /\ Done(Newer[b])
  <2>1. Newer[b] = b + link[b]
    BY <1>3 DEF Newer
  <2>2. link[b] > 0 /\ Done(b + link[b])
    BY <1>3 DEF LinksGood, VersionsDone, IsLinked
  <2>3. b + link[b] \in Blocks /\ kind[b + link[b]] = "content"
    BY <1>3 DEF LinksGood, LinksLead
  <2>. QED  BY <2>1, <2>2, <2>3
<1>. QED  BY <1>1, <1>2, <1>3

LEMMA ChainIn ==
    ASSUME LinksGood, NEW f \in Blocks, kind[f] = "file"
    PROVE  \A n \in Nat : ChainAt(f, n) \in Blocks /\ kind[ChainAt(f, n)] \in Linked
<1>. DEFINE T == {n \in Nat : ~(ChainAt(f, n) \in Blocks /\ kind[ChainAt(f, n)] \in Linked)}
<1>. SUFFICES ASSUME T # {} PROVE FALSE
  OBVIOUS
<1>1. PICK n \in T : \A j \in T : n <= j
  BY Minimum
<1>2. n \in Nat /\ ~(ChainAt(f, n) \in Blocks /\ kind[ChainAt(f, n)] \in Linked)
  BY <1>1
<1>3. n # 0
  BY <1>2, ChainGoesOn DEF Linked
<1>4. n - 1 \in Nat /\ n - 1 \notin T /\ n = n - 1 + 1
  BY <1>1, <1>2, <1>3
<1>5. PICK c : c = ChainAt(f, n - 1)
  OBVIOUS
<1>6. c \in Blocks /\ kind[c] \in Linked
  BY <1>4, <1>5
<1>7. ChainAt(f, n - 1 + 1) = Newer[c]
  BY <1>4, <1>5, ChainGoesOn
<1>8. Newer[c] \in Blocks /\ kind[Newer[c]] \in Linked
  BY <1>6, NewerIs DEF Linked
<1>. QED  BY <1>2, <1>4, <1>7, <1>8

\* the newest version is the m-th
EndsAt(f, m) ==
    /\ m \in Nat
    /\ link[ChainAt(f, m)] = Blank
    /\ \A j \in Nat : j < m => link[ChainAt(f, j)] # Blank

\* as long as a chain goes on it leads forward
LEMMA ChainAscends ==
    ASSUME LinksGood, NEW f \in Blocks, kind[f] = "file", NEW m \in Nat,
           \A j \in Nat : j < m => link[ChainAt(f, j)] # Blank
    PROVE  /\ \A n \in Nat : n <= m => ChainAt(f, n) \in Nat /\ ChainAt(f, n) >= f + n
           /\ \A n \in Nat, j \in Nat : j < n /\ n <= m => ChainAt(f, j) < ChainAt(f, n)
           /\ \A n \in Nat : 0 < n /\ n <= m =>
                 /\ kind[ChainAt(f, n)] = "content" /\ Done(ChainAt(f, n))
                 /\ ChainAt(f, n) = ChainAt(f, n - 1) + link[ChainAt(f, n - 1)]
<1>. DEFINE c(n) == ChainAt(f, n)
<1>1. \A n \in Nat : c(n) \in Blocks /\ kind[c(n)] \in Linked /\ c(n) \in Nat
  BY ChainIn, NewerIs
<1>2. c(0) = f /\ f \in Nat
  BY <1>1, ChainGoesOn
<1>3. \A n \in Nat : c(n + 1) = Newer[c(n)]
  BY ChainGoesOn
<1>. HIDE DEF c
<1>4. \A j \in Nat : j < m => link[c(j)] # Blank
  BY DEF c
<1>5. \A n \in Nat : n < m => c(n + 1) > c(n) /\ kind[c(n + 1)] = "content" /\ Done(c(n + 1))
                             /\ c(n + 1) = c(n) + link[c(n)]
  BY <1>1, <1>3, <1>4, NewerIs
<1>6. \A n \in Nat : n <= m => c(n) >= f + n
  <2>. DEFINE T == {n \in Nat : n <= m /\ ~(c(n) >= f + n)}
  <2>. SUFFICES ASSUME T # {} PROVE FALSE
    OBVIOUS
  <2>1. PICK n \in T : \A j \in T : n <= j
    BY Minimum
  <2>2. n \in Nat /\ n <= m /\ ~(c(n) >= f + n) /\ n # 0
    BY <1>2, <2>1
  <2>3. n - 1 \in Nat /\ n - 1 < m /\ n - 1 \notin T /\ n - 1 + 1 = n
    BY <2>1, <2>2
  <2>4. c(n - 1) >= f + (n - 1) /\ c(n) > c(n - 1) /\ c(n) \in Nat /\ c(n - 1) \in Nat
    BY <1>1, <1>5, <2>2, <2>3
  <2>. QED  BY <1>2, <2>2, <2>3, <2>4
<1>7. \A n \in Nat, j \in Nat : j < n /\ n <= m => c(j) < c(n)
  <2>. SUFFICES ASSUME NEW j \in Nat PROVE \A n \in Nat : j < n /\ n <= m => c(j) < c(n)
    OBVIOUS
  <2>. DEFINE T == {n \in Nat : j < n /\ n <= m /\ ~(c(j) < c(n))}
  <2>. SUFFICES ASSUME T # {} PROVE FALSE
    OBVIOUS
  <2>1. PICK n \in T : \A i \in T : n <= i
    BY Minimum
  <2>2. n \in Nat /\ j < n /\ n <= m /\ ~(c(j) < c(n))
    BY <2>1
  <2>3. n - 1 \in Nat /\ n - 1 < m /\ n - 1 \notin T /\ n - 1 + 1 = n
    BY <2>1, <2>2
  <2>4. c(n) > c(n - 1) /\ c(n) \in Nat /\ c(n - 1) \in Nat /\ c(j) \in Nat
    BY <1>1, <1>5, <2>2, <2>3
  <2>5. n - 1 = j \/ c(j) < c(n - 1)
    BY <2>2, <2>3
  <2>. QED  BY <2>2, <2>4, <2>5
<1>8. \A n \in Nat : 0 < n /\ n <= m => kind[c(n)] = "content" /\ Done(c(n)) /\ c(n) = c(n - 1) + link[c(n - 1)]
  <2>. SUFFICES ASSUME NEW n \in Nat, 0 < n, n <= m
                PROVE  kind[c(n)] = "content" /\ Done(c(n)) /\ c(n) = c(n - 1) + link[c(n - 1)]
    OBVIOUS
  <2>1. n - 1 \in Nat /\ n - 1 < m /\ n - 1 + 1 = n
    OBVIOUS
  <2>. QED  BY <1>5, <2>1
<1>. QED  BY <1>1, <1>6, <1>7, <1>8 DEF c

LEMMA ChainEnds ==
    ASSUME LinksGood, NEW f \in Blocks, kind[f] = "file"
    PROVE  \E m : EndsAt(f, m)
<1>. DEFINE T == {n \in Nat : link[ChainAt(f, n)] = Blank}
<1>1. T # {}
  <2>. SUFFICES ASSUME T = {} PROVE FALSE
    OBVIOUS
  <2>1. \A j \in Nat : link[ChainAt(f, j)] # Blank
    OBVIOUS
  <2>2. NBlocks \in Nat /\ f \in Nat
    BY Sizings DEF Blocks
  <2>3. ChainAt(f, NBlocks) >= f + NBlocks
    BY <2>1, <2>2, ChainAscends
  <2>4. ChainAt(f, NBlocks) \in Blocks
    BY <2>2, ChainIn
  <2>. QED  BY <2>2, <2>3, <2>4 DEF Blocks
<1>2. PICK m \in T : \A j \in T : m <= j
  BY <1>1, Minimum
<1>3. EndsAt(f, m)
  BY <1>2 DEF EndsAt
<1>. QED  BY <1>3

LEMMA EndIs ==
    ASSUME LinksGood, NEW f \in Blocks, kind[f] = "file", NEW m, EndsAt(f, m)
    PROVE  /\ m \in Nat /\ m \in Blocks /\ f + m < NBlocks
           /\ \A n \in Nat : n >= m => ChainAt(f, n) = ChainAt(f, m)
           /\ \A n \in Nat : n < m => ChainAt(f, n) < ChainAt(f, m)
           /\ Last(f) = ChainAt(f, m)
<1>1. m \in Nat /\ link[ChainAt(f, m)] = Blank /\ \A j \in Nat : j < m => link[ChainAt(f, j)] # Blank
  BY DEF EndsAt
<1>2. ChainAt(f, m) \in Blocks /\ ChainAt(f, m) >= f + m /\ f \in Nat /\ kind[ChainAt(f, m)] \in Linked
  BY <1>1, ChainIn, ChainAscends, Sizings DEF Blocks
<1>3. f + m < NBlocks /\ m \in Blocks
  BY <1>1, <1>2, Sizings DEF Blocks
<1>4. \A n \in Nat : n >= m => ChainAt(f, n) = ChainAt(f, m)
  <2>. DEFINE T == {n \in Nat : n >= m /\ ChainAt(f, n) # ChainAt(f, m)}
  <2>. SUFFICES ASSUME T # {} PROVE FALSE
    OBVIOUS
  <2>1. PICK n \in T : \A j \in T : n <= j
    BY Minimum
  <2>2. n \in Nat /\ n > m /\ ChainAt(f, n) # ChainAt(f, m)
    BY <1>1, <2>1
  <2>3. n - 1 \in Nat /\ n - 1 >= m /\ n - 1 \notin T /\ n - 1 + 1 = n
    BY <1>1, <2>1, <2>2
  <2>4. ChainAt(f, n - 1) = ChainAt(f, m)
    BY <2>3
  <2>5. ChainAt(f, n - 1 + 1) = Newer[ChainAt(f, n - 1)]
    BY <2>3, ChainGoesOn
  <2>6. Newer[ChainAt(f, m)] = ChainAt(f, m)
    BY <1>1, <1>2, NewerIs
  <2>. QED  BY <2>2, <2>3, <2>4, <2>5, <2>6
<1>5. \A n \in Nat : n < m => ChainAt(f, n) < ChainAt(f, m)
  BY <1>1, ChainAscends
<1>6. Last(f) = ChainAt(f, m)
  BY <1>1, <1>2, <1>3, <1>4, Sizings DEF Last
<1>. QED  BY <1>1, <1>3, <1>4, <1>5, <1>6

LEMMA VersionsAre ==
    ASSUME LinksGood, NEW f \in Blocks, kind[f] = "file", NEW m, EndsAt(f, m)
    PROVE  Versions(f) = [v \in 1 .. m |-> Data(ChainAt(f, v))]
<1>1. /\ m \in Nat /\ m \in Blocks /\ Last(f) = ChainAt(f, m)
      /\ \A n \in Nat : n >= m => ChainAt(f, n) = ChainAt(f, m)
      /\ \A n \in Nat : n < m => ChainAt(f, n) < ChainAt(f, m)
      /\ \A n \in Nat : ChainAt(f, n) \in Nat
  BY EndIs, ChainIn, NewerIs
<1>. DEFINE Counts(n) == ChainAt(f, n) = Last(f) /\ \A j \in 0 .. n - 1 : ChainAt(f, j) # Last(f)
<1>2. Counts(m)
  <2>. SUFFICES ASSUME NEW j \in 0 .. m - 1 PROVE ChainAt(f, j) # ChainAt(f, m)
    BY <1>1
  <2>1. j \in Nat /\ j < m
    BY <1>1
  <2>2. ChainAt(f, j) < ChainAt(f, m) /\ ChainAt(f, j) \in Nat /\ ChainAt(f, m) \in Nat
    BY <1>1, <2>1
  <2>. QED  BY <2>2
<1>3. ASSUME NEW n \in Blocks, Counts(n) PROVE n = m
  <2>1. n \in Nat
    BY Sizings DEF Blocks
  <2>2. CASE n < m
    <3>1. ChainAt(f, n) < ChainAt(f, m) /\ ChainAt(f, n) \in Nat
      BY <1>1, <2>1, <2>2
    <3>. QED  BY <1>1, <1>3, <3>1
  <2>3. CASE n > m
    <3>1. m \in 0 .. n - 1
      BY <1>1, <2>1, <2>3
    <3>. QED  BY <1>1, <1>3, <3>1
  <2>. QED  BY <1>1, <2>1, <2>2, <2>3
<1>4. (CHOOSE n \in Blocks : Counts(n)) = m
  BY <1>1, <1>2, <1>3
<1>5. Versions(f) = [v \in 1 .. (CHOOSE n \in Blocks : Counts(n)) |-> Data(ChainAt(f, v))]
  BY DEF Versions
<1>. QED  BY <1>4, <1>5

\* no two files share a content
LEMMA ChainsApart ==
    ASSUME LinksGood, NEW f \in Blocks, kind[f] = "file", NEW g \in Blocks, kind[g] = "file",
           f # g
    PROVE  \A n \in Nat, m \in Nat : ChainAt(f, n) # ChainAt(g, m)
<1>1. /\ \A n \in Nat : ChainAt(f, n) \in Blocks /\ kind[ChainAt(f, n)] \in Linked
      /\ \A n \in Nat : ChainAt(g, n) \in Blocks /\ kind[ChainAt(g, n)] \in Linked
      /\ ChainAt(f, 0) = f /\ ChainAt(g, 0) = g
      /\ \A n \in Nat : ChainAt(f, n + 1) = Newer[ChainAt(f, n)]
      /\ \A n \in Nat : ChainAt(g, n + 1) = Newer[ChainAt(g, n)]
  BY ChainIn, ChainGoesOn
<1>. DEFINE T == {n \in Nat : \E m \in Nat : ChainAt(f, n) = ChainAt(g, m)}
<1>. SUFFICES ASSUME T # {} PROVE FALSE
  OBVIOUS
<1>2. PICK n \in T : \A j \in T : n <= j
  BY Minimum
<1>. DEFINE M == {m \in Nat : ChainAt(f, n) = ChainAt(g, m)}
<1>3. PICK m \in M : \A j \in M : m <= j
  BY <1>2, Minimum
<1>4. n \in Nat /\ m \in Nat /\ ChainAt(f, n) = ChainAt(g, m)
  BY <1>2, <1>3
<1>5. n # 0 => n - 1 \in Nat /\ n - 1 \notin T /\ n - 1 + 1 = n
  BY <1>2, <1>4
<1>6. m # 0 => m - 1 \in Nat /\ m - 1 \notin M /\ m - 1 + 1 = m
  BY <1>3, <1>4
<1>7. n # 0 => LET a == ChainAt(f, n - 1)
               IN  /\ a \in Blocks /\ kind[a] \in Linked /\ link[a] # Blank
                   /\ ChainAt(f, n) = a + link[a] /\ kind[ChainAt(f, n)] = "content"
  <2>. SUFFICES ASSUME n # 0
                PROVE  LET a == ChainAt(f, n - 1)
                       IN  /\ a \in Blocks /\ kind[a] \in Linked /\ link[a] # Blank
                           /\ ChainAt(f, n) = a + link[a] /\ kind[ChainAt(f, n)] = "content"
    OBVIOUS
  <2>1. PICK a : a = ChainAt(f, n - 1)
    OBVIOUS
  <2>2. a \in Blocks /\ kind[a] \in Linked /\ ChainAt(f, n) = Newer[a]
    BY <1>1, <1>5, <2>1
  <2>3. a # ChainAt(f, n)
    BY <1>4, <1>5, <2>1
  <2>4. link[a] # Blank
    BY <2>2, <2>3, NewerIs
  <2>5. Newer[a] = a + link[a] /\ kind[Newer[a]] = "content"
    BY <2>2, <2>4, NewerIs
  <2>. QED  BY <2>1, <2>2, <2>4, <2>5
<1>8. m # 0 => LET a == ChainAt(g, m - 1)
               IN  /\ a \in Blocks /\ kind[a] \in Linked /\ link[a] # Blank
                   /\ ChainAt(g, m) = a + link[a] /\ kind[ChainAt(g, m)] = "content"
  <2>. SUFFICES ASSUME m # 0
                PROVE  LET a == ChainAt(g, m - 1)
                       IN  /\ a \in Blocks /\ kind[a] \in Linked /\ link[a] # Blank
                           /\ ChainAt(g, m) = a + link[a] /\ kind[ChainAt(g, m)] = "content"
    OBVIOUS
  <2>1. PICK a : a = ChainAt(g, m - 1)
    OBVIOUS
  <2>2. a \in Blocks /\ kind[a] \in Linked /\ ChainAt(g, m) = Newer[a]
    BY <1>1, <1>6, <2>1
  <2>3. a # ChainAt(g, m)
    BY <1>4, <1>6, <2>1
  <2>4. link[a] # Blank
    BY <2>2, <2>3, NewerIs
  <2>5. Newer[a] = a + link[a] /\ kind[Newer[a]] = "content"
    BY <2>2, <2>4, NewerIs
  <2>. QED  BY <2>1, <2>2, <2>4, <2>5
<1>9. n # 0 /\ m # 0
  BY <1>1, <1>4, <1>7, <1>8
<1>10. ChainAt(f, n - 1) = ChainAt(g, m - 1)
  <2>1. PICK a, b : a = ChainAt(f, n - 1) /\ b = ChainAt(g, m - 1)
    OBVIOUS
  <2>2. /\ a \in Blocks /\ b \in Blocks /\ IsLinked(a) /\ IsLinked(b)
        /\ a + link[a] = b + link[b]
    BY <1>4, <1>7, <1>8, <1>9, <2>1 DEF IsLinked
  <2>3. a = b
    BY <2>2 DEF LinksGood, LinkedOnce
  <2>. QED  BY <2>1, <2>3
<1>. QED  BY <1>5, <1>6, <1>9, <1>10

\* a content that no link leads to is in no chain
LEMMA NotInChain ==
    ASSUME LinksGood, NEW f \in Blocks, kind[f] = "file",
           NEW x \in Blocks, kind[x] # "file", NoLink(x)
    PROVE  \A n \in Nat : ChainAt(f, n) # x
<1>. DEFINE T == {n \in Nat : ChainAt(f, n) = x}
<1>. SUFFICES ASSUME T # {} PROVE FALSE
  OBVIOUS
<1>1. PICK n \in T : \A j \in T : n <= j
  BY Minimum
<1>2. n \in Nat /\ ChainAt(f, n) = x /\ n # 0
  BY <1>1, ChainGoesOn
<1>3. n - 1 \in Nat /\ n - 1 \notin T /\ n - 1 + 1 = n
  BY <1>1, <1>2
<1>4. PICK a : a = ChainAt(f, n - 1)
  OBVIOUS
<1>5. a \in Blocks /\ kind[a] \in Linked /\ x = Newer[a] /\ a # x
  BY <1>2, <1>3, <1>4, ChainIn, ChainGoesOn
<1>6. link[a] # Blank /\ x = a + link[a]
  BY <1>5, NewerIs
<1>. QED  BY <1>5, <1>6 DEF NoLink, IsLinked

(***************************************************************************)
(* The bytes of a content.                                                 *)
(***************************************************************************)

\* the i-th byte behind the header of the content at c
UnitAt(c, i) ==
    LET at == DataOffset + i - 1
        b  == c + at \div PageUnits
    IN  IF b \in Blocks THEN units[b][at % PageUnits] ELSE Blank

LEMMA DataIs ==
    \A c : Data(c) = [i \in 1 .. len[c] |-> UnitAt(c, i)]
BY DEF Data, UnitAt

LEMMA DataIsThen ==
    \A c : Data(c)' = [i \in 1 .. len'[c] |-> UnitAt(c, i)']
<1>1. (\A c : Data(c) = [i \in 1 .. len[c] |-> UnitAt(c, i)])'
  BY DataIs, PTL
<1>. QED  BY <1>1

LEMMA SameData ==
    ASSUME NEW c, len'[c] = len[c],
           \A i \in 1 .. len[c] : UnitAt(c, i)' = UnitAt(c, i)
    PROVE  Data(c)' = Data(c)
BY DataIs, DataIsThen

LEMMA PageBefore ==
    ASSUME NEW n \in Nat, NEW a \in Nat, a < n
    PROVE  a \div PageUnits \in Nat /\ a \div PageUnits < PagesFor(n)
<1>1. PICK q \in Nat, r \in Nat : /\ q = a \div PageUnits /\ r = a % PageUnits
                                 /\ r < PageUnits /\ a = PageUnits * q + r
  BY Place
<1>2. PICK k \in Nat, s \in Nat : /\ k = n \div PageUnits /\ s = n % PageUnits
                                 /\ s < PageUnits /\ n = PageUnits * k + s
  BY Place
<1>3. /\ 1 < PageUnits - r => (a + 1) \div PageUnits = q
      /\ 1 = PageUnits - r => (a + 1) \div PageUnits = q + 1
  BY <1>1, PlaceAfter
<1>4. (a + 1) \div PageUnits <= k
  BY <1>2, DivisionMonotone, Sizings
<1>5. PagesFor(n) = IF s = 0 THEN k ELSE k + 1
  BY <1>2, PagesForIs
<1>6. q <= k
  BY <1>1, <1>3, <1>4, Sizings
<1>7. q = k => s # 0
  <2>1. PICK z \in Nat : z = PageUnits * q
    BY Sizings
  <2>2. q = k => n = z + s
    BY <1>2, <2>1
  <2>3. a = z + r
    BY <1>1, <2>1
  <2>. QED  BY <1>1, <1>2, <2>2, <2>3
<1>. QED  BY <1>1, <1>2, <1>5, <1>6, <1>7

\* a finished content ends before an object behind it begins
LEMMA DataInside ==
    ASSUME TypeOK, NEW c \in Blocks \ {0}, kind[c] = "content", Done(c),
           NEW x \in Blocks, c < x, ~Covered(x),
           NEW i \in 1 .. len[c]
    PROVE  c + (DataOffset + i - 1) \div PageUnits < x
<1>1. c \in Nat /\ x \in Nat /\ c >= 1 /\ len[c] \in Nat /\ i \in Nat /\ i >= 1
  BY Sizings DEF Blocks, Done
<1>2. c \in 1 .. x - 1 /\ kind[c] \in Objects
  BY <1>1 DEF Objects
<1>3. ~(x < c + size[c])
  BY <1>2 DEF Covered
<1>4. DataOffset + i - 1 \in Nat /\ DataOffset + len[c] \in Nat
      /\ DataOffset + i - 1 < DataOffset + len[c]
  BY <1>1, Sizings
<1>5. /\ (DataOffset + i - 1) \div PageUnits \in Nat
      /\ (DataOffset + i - 1) \div PageUnits < PagesFor(DataOffset + len[c])
  BY <1>4, PageBefore
<1>6. size[c] = PagesFor(DataOffset + len[c]) /\ PagesFor(DataOffset + len[c]) \in Nat
  BY <1>4, PagesForIs DEF Done
<1>. QED  BY <1>1, <1>3, <1>5, <1>6

(***************************************************************************)
(* Which directories the console can change into.                          *)
(***************************************************************************)
IsTree(in) ==
    in = [c \in Blocks |->
            \/ c = Root
            \/ \E p \in 1 .. c - 1 :
                  /\ kind[p] = "dir"
                  /\ \E i \in DOMAIN entries[p] : entries[p][i].type = "dir"
                                                  /\ p + entries[p][i].offset = c
                  /\ in[p]]

\* directory p has an entry of directory c
Leads(p, c) ==
    /\ kind[p] = "dir"
    /\ \E i \in DOMAIN entries[p] : entries[p][i].type = "dir" /\ p + entries[p][i].offset = c

LEMMA TreeIs ==
    ASSUME NEW in
    PROVE  IsTree(in) <=>
             in = [c \in Blocks |-> c = Root \/ \E p \in 1 .. c - 1 : Leads(p, c) /\ in[p]]
<1>1. \A c \in Blocks : (\/ c = Root
                         \/ \E p \in 1 .. c - 1 :
                               /\ kind[p] = "dir"
                               /\ \E i \in DOMAIN entries[p] : entries[p][i].type = "dir"
                                                               /\ p + entries[p][i].offset = c
                               /\ in[p])
                         = (c = Root \/ \E p \in 1 .. c - 1 : Leads(p, c) /\ in[p])
  BY Zenon DEF Leads
<1>. QED  BY <1>1, Zenon DEF IsTree

LEMMA ListedIs ==
    ASSUME NEW d
    PROVE  Listed(d) <=> Mounted /\ kind[d] = "dir" /\ (CHOOSE in : IsTree(in))[d]
BY Zenon DEF Listed, IsTree

\* a function given by its values at smaller blocks exists
LEMMA TreeExists == \E in : IsTree(in)
<1>. DEFINE Part(n, in) ==
         in = [c \in Blocks |-> c < n /\ (c = Root \/ \E p \in 1 .. c - 1 : Leads(p, c) /\ in[p])]
            T == {n \in Nat : ~ \E in : Part(n, in)}
<1>1. T = {}
  <2>. SUFFICES ASSUME T # {} PROVE FALSE
    OBVIOUS
  <2>1. PICK n \in T : \A k \in T : n <= k
    BY Minimum
  <2>2. n \in Nat /\ ~ \E in : Part(n, in)
    BY <2>1
  <2>3. \A c \in Blocks : c \in Nat
    BY Sizings DEF Blocks
  <2>4. n # 0
    <3>1. Part(0, [c \in Blocks |-> FALSE])
      <4>1. \A c \in Blocks : ~(c < 0)
        BY <2>3
      <4>. QED  BY <4>1, Zenon
    <3>. QED  BY <2>2, <3>1
  <2>5. n - 1 \in Nat /\ n - 1 \notin T
    BY <2>1, <2>2, <2>4
  <2>6. PICK in : Part(n - 1, in)
    BY <2>5
  <2>. DEFINE to == [c \in Blocks |->
                       c < n /\ (c = Root \/ \E p \in 1 .. c - 1 : Leads(p, c) /\ in[p])]
  <2>7. \A p \in Blocks : in[p] = (p < n - 1 /\ (p = Root \/ \E x \in 1 .. p - 1 : Leads(x, p) /\ in[x]))
    BY <2>6, Zenon
  <2>8. \A p \in Blocks : to[p] = (p < n /\ (p = Root \/ \E x \in 1 .. p - 1 : Leads(x, p) /\ in[x]))
    BY Zenon
  <2>9. \A p \in Blocks : p < n - 1 => to[p] = in[p]
    <3>1. \A p \in Blocks : p < n - 1 => p < n
      BY <2>2, <2>3
    <3>. QED  BY <2>7, <2>8, <3>1, Zenon
  <2>10. \A c \in Blocks : c < n => \A p \in 1 .. c - 1 : to[p] = in[p]
    <3>. SUFFICES ASSUME NEW c \in Blocks, c < n, NEW p \in 1 .. c - 1 PROVE to[p] = in[p]
      OBVIOUS
    <3>1. p \in Blocks /\ p < n - 1
      BY <2>2, <2>3, Sizings DEF Blocks
    <3>. QED  BY <2>9, <3>1
  <2>11. \A c \in Blocks : to[c] = (c < n /\ (c = Root \/ \E p \in 1 .. c - 1 : Leads(p, c) /\ to[p]))
    BY <2>8, <2>10, Zenon
  <2>12. Part(n, to)
    BY <2>11, Zenon
  <2>. QED  BY <2>2, <2>12
<1>2. PICK in : Part(NBlocks, in)
  BY <1>1, Sizings
<1>3. \A c \in Blocks : c < NBlocks
  BY Sizings DEF Blocks
<1>4. in = [c \in Blocks |-> c = Root \/ \E p \in 1 .. c - 1 : Leads(p, c) /\ in[p]]
  BY <1>2, <1>3, Zenon
<1>. QED  BY <1>4, TreeIs

LEMMA TreeExistsThen == \E in : IsTree(in)'
<1>1. (\E in : IsTree(in))'
  BY TreeExists, PTL
<1>. QED  BY <1>1

LEMMA TreeUnique ==
    ASSUME NEW in, IsTree(in), NEW to, IsTree(to)
    PROVE  in = to
<1>1. /\ in = [c \in Blocks |-> c = Root \/ \E p \in 1 .. c - 1 : Leads(p, c) /\ in[p]]
      /\ to = [c \in Blocks |-> c = Root \/ \E p \in 1 .. c - 1 : Leads(p, c) /\ to[p]]
  BY TreeIs
<1>2. /\ \A c \in Blocks : in[c] = (c = Root \/ \E p \in 1 .. c - 1 : Leads(p, c) /\ in[p])
      /\ \A c \in Blocks : to[c] = (c = Root \/ \E p \in 1 .. c - 1 : Leads(p, c) /\ to[p])
  BY <1>1, Zenon
<1>. DEFINE T == {c \in Blocks : in[c] # to[c]}
<1>3. T = {}
  <2>. SUFFICES ASSUME T # {} PROVE FALSE
    OBVIOUS
  <2>1. Blocks \subseteq Nat
    BY Sizings DEF Blocks
  <2>2. T \subseteq Nat
    BY <2>1
  <2>3. PICK c \in T : \A j \in T : c <= j
    BY <2>2, Minimum
  <2>4. \A p \in 1 .. c - 1 : p \in Blocks /\ p \notin T
    <3>. SUFFICES ASSUME NEW p \in 1 .. c - 1 PROVE p \in Blocks /\ p \notin T
      OBVIOUS
    <3>1. c \in Nat /\ c \in Blocks /\ p \in Nat /\ p < c
      BY <2>2, <2>3
    <3>. QED  BY <2>3, <3>1, Sizings DEF Blocks
  <2>5. \A p \in 1 .. c - 1 : in[p] = to[p]
    BY <2>4
  <2>6. in[c] = to[c]
    BY <1>2, <2>3, <2>5, Zenon
  <2>. QED  BY <2>3, <2>6
<1>4. in = [c \in Blocks |-> in[c]] /\ to = [c \in Blocks |-> to[c]]
  BY <1>1, <1>2, Zenon
<1>. QED  BY <1>3, <1>4, Zenon

LEMMA ListedInTree ==
    \A in, d : IsTree(in) => (Listed(d) <=> Mounted /\ kind[d] = "dir" /\ in[d])
<1>. SUFFICES ASSUME NEW in, NEW d, IsTree(in)
              PROVE  Listed(d) <=> Mounted /\ kind[d] = "dir" /\ in[d]
  OBVIOUS
<1>1. IsTree(CHOOSE to : IsTree(to))
  BY TreeExists, Zenon
<1>2. (CHOOSE to : IsTree(to)) = in
  BY <1>1, TreeUnique
<1>. QED  BY <1>2, ListedIs, Zenon

LEMMA ListedInTreeThen ==
    \A in, d : IsTree(in)' => (Listed(d)' <=> Mounted' /\ kind'[d] = "dir" /\ in[d])
<1>1. (\A in, d : IsTree(in) => (Listed(d) <=> Mounted /\ kind[d] = "dir" /\ in[d]))'
  BY ListedInTree, PTL
<1>. QED  BY <1>1

LEMMA TreeIsThen ==
    \A in : IsTree(in)' <=>
         in = [c \in Blocks |-> c = Root \/ \E p \in 1 .. c - 1 : Leads(p, c)' /\ in[p]]
<1>1. (\A in : IsTree(in) <=>
         in = [c \in Blocks |-> c = Root \/ \E p \in 1 .. c - 1 : Leads(p, c) /\ in[p]])'
  <2>1. \A in : IsTree(in) <=>
         in = [c \in Blocks |-> c = Root \/ \E p \in 1 .. c - 1 : Leads(p, c) /\ in[p]]
    BY TreeIs
  <2>. QED  BY <2>1, PTL
<1>. QED  BY <1>1

\* what an entry of block b, or b becoming an object, changes in the tree
LEMMA SameListed ==
    ASSUME kind'[0] = kind[0], NEW b,
           \A p \in Blocks, c \in Blocks : c # b => (Leads(p, c)' <=> Leads(p, c)),
           \A c \in Blocks : b \in Blocks => ~Leads(b, c),
           NEW d \in Blocks, d # b, kind'[d] = "dir" <=> kind[d] = "dir"
    PROVE  Listed(d)' <=> Listed(d)
<1>1. PICK in : IsTree(in)
  BY TreeExists
<1>2. PICK to : IsTree(to)'
  BY TreeExistsThen
<1>3. /\ \A c \in Blocks : in[c] = (c = Root \/ \E p \in 1 .. c - 1 : Leads(p, c) /\ in[p])
      /\ \A c \in Blocks : to[c] = (c = Root \/ \E p \in 1 .. c - 1 : Leads(p, c)' /\ to[p])
  <2>1. /\ in = [c \in Blocks |-> c = Root \/ \E p \in 1 .. c - 1 : Leads(p, c) /\ in[p]]
        /\ to = [c \in Blocks |-> c = Root \/ \E p \in 1 .. c - 1 : Leads(p, c)' /\ to[p]]
    BY <1>1, <1>2, TreeIs, TreeIsThen
  <2>. QED  BY <2>1, Zenon
<1>. DEFINE T == {c \in Blocks : c # b /\ in[c] # to[c]}
<1>4. T = {}
  <2>. SUFFICES ASSUME T # {} PROVE FALSE
    OBVIOUS
  <2>1. Blocks \subseteq Nat
    BY Sizings DEF Blocks
  <2>2. T \subseteq Nat
    BY <2>1
  <2>3. PICK c \in T : \A j \in T : c <= j
    BY <2>2, Minimum
  <2>4. \A p \in 1 .. c - 1 : p \in Blocks /\ p \notin T
    <3>. SUFFICES ASSUME NEW p \in 1 .. c - 1 PROVE p \in Blocks /\ p \notin T
      OBVIOUS
    <3>1. c \in Nat /\ c \in Blocks /\ p \in Nat /\ p < c
      BY <2>2, <2>3
    <3>. QED  BY <2>3, <3>1, Sizings DEF Blocks
  <2>5. \A p \in 1 .. c - 1 : p = b \/ in[p] = to[p]
    BY <2>4
  <2>6. c \in Blocks /\ c # b
    BY <2>3
  <2>7. \A p \in 1 .. c - 1 : (Leads(p, c) /\ in[p]) <=> (Leads(p, c)' /\ to[p])
    <3>1. \A p \in 1 .. c - 1 : Leads(p, c)' <=> Leads(p, c)
      BY <2>4, <2>6
    <3>2. \A p \in 1 .. c - 1 : p = b => ~Leads(p, c)
      BY <2>4, <2>6
    <3>. QED  BY <2>5, <3>1, <3>2, Zenon
  <2>8. in[c] = to[c]
    BY <1>3, <2>6, <2>7, Zenon
  <2>. QED  BY <2>3, <2>8
<1>5. in[d] = to[d]
  BY <1>4
<1>6. Listed(d) <=> Mounted /\ kind[d] = "dir" /\ in[d]
  BY <1>1, ListedInTree, Zenon
<1>7. Listed(d)' <=> Mounted' /\ kind'[d] = "dir" /\ to[d]
  BY <1>2, ListedInTreeThen, Zenon
<1>8. Mounted' <=> Mounted
  BY DEF Mounted
<1>. QED  BY <1>5, <1>6, <1>7, <1>8, Zenon

(***************************************************************************)
(* What a name leads to.                                                   *)
(***************************************************************************)
LEMMA LookupIs ==
    ASSUME TypeOK, NEW d \in Blocks, NEW type, NEW nm
    PROVE  /\ Entries(d, type, nm) = {} => Lookup(d, type, nm) = NoBlock
           /\ Entries(d, type, nm) # {} =>
                 \E i \in Entries(d, type, nm) :
                    /\ \A j \in Entries(d, type, nm) : i <= j
                    /\ Lookup(d, type, nm) = To(d, i)
           /\ \A i \in Entries(d, type, nm) :
                 (\A j \in Entries(d, type, nm) : i <= j) => Lookup(d, type, nm) = To(d, i)
<1>. DEFINE found == Entries(d, type, nm)
            first == CHOOSE i \in found : \A j \in found : i <= j
<1>1. found \subseteq Nat
  BY DEF Entries, TypeOK
<1>2. /\ found = {} => Lookup(d, type, nm) = NoBlock
      /\ found # {} => Lookup(d, type, nm) = To(d, first)
  BY DEF Lookup, To
<1>. HIDE DEF found
<1>3. found # {} => first \in found /\ \A j \in found : first <= j
  <2>1. found # {} => \E i \in found : \A j \in found : i <= j
    BY <1>1, Minimum
  <2>. QED  BY <2>1
<1>4. ASSUME NEW i \in found, \A j \in found : i <= j PROVE i = first
  <2>1. first \in found /\ i \in Nat /\ first \in Nat
    BY <1>1, <1>3
  <2>2. i <= first /\ first <= i
    BY <1>3, <1>4, <2>1
  <2>. QED  BY <2>1, <2>2
<1>. QED  BY <1>2, <1>3, <1>4 DEF found

LEMMA LookupFact ==
    TypeOK => \A d \in Blocks : \A type, nm :
           /\ Entries(d, type, nm) = {} => Lookup(d, type, nm) = NoBlock
           /\ Entries(d, type, nm) # {} =>
                 \E i \in Entries(d, type, nm) :
                    /\ \A j \in Entries(d, type, nm) : i <= j
                    /\ Lookup(d, type, nm) = To(d, i)
           /\ \A i \in Entries(d, type, nm) :
                 (\A j \in Entries(d, type, nm) : i <= j) => Lookup(d, type, nm) = To(d, i)
BY LookupIs

LEMMA LookupIsThen ==
    ASSUME TypeOK'
    PROVE  \A d \in Blocks : \A type, nm :
           /\ Entries(d, type, nm)' = {} => Lookup(d, type, nm)' = NoBlock
           /\ Entries(d, type, nm)' # {} =>
                 \E i \in Entries(d, type, nm)' :
                    /\ \A j \in Entries(d, type, nm)' : i <= j
                    /\ Lookup(d, type, nm)' = To(d, i)'
           /\ \A i \in Entries(d, type, nm)' :
                 (\A j \in Entries(d, type, nm)' : i <= j) => Lookup(d, type, nm)' = To(d, i)'
<1>1. (TypeOK => \A d \in Blocks : \A type, nm :
           /\ Entries(d, type, nm) = {} => Lookup(d, type, nm) = NoBlock
           /\ Entries(d, type, nm) # {} =>
                 \E i \in Entries(d, type, nm) :
                    /\ \A j \in Entries(d, type, nm) : i <= j
                    /\ Lookup(d, type, nm) = To(d, i)
           /\ \A i \in Entries(d, type, nm) :
                 (\A j \in Entries(d, type, nm) : i <= j) => Lookup(d, type, nm) = To(d, i))'
  BY LookupFact, PTL
<1>. QED  BY <1>1

LEMMA SameLookup ==
    ASSUME TypeOK, NEW d \in Blocks, entries'[d] = entries[d],
           \A i \in DOMAIN entries[d] : /\ kind'[To(d, i)] = kind[To(d, i)]
                                         /\ label'[To(d, i)] = label[To(d, i)]
    PROVE  \A type, nm : Lookup(d, type, nm)' = Lookup(d, type, nm)
<1>. SUFFICES ASSUME NEW type, NEW nm PROVE Lookup(d, type, nm)' = Lookup(d, type, nm)
  OBVIOUS
<1>1. Entries(d, type, nm)' = Entries(d, type, nm)
  BY DEF Entries, To
<1>. QED  BY <1>1 DEF Lookup

(***************************************************************************)
(* The abstract store.                                                     *)
(***************************************************************************)
Found(k) == Lookup(k[1], "file", k[2])
Files == [k \in Keys |-> Versions(Found(k))]
Pending == [w \in {"local", "current"} |-> Collected(IF w = "local" THEN local ELSE current)]

StoreStep == Abstract!Next \/ UNCHANGED <<Files, Pending>>

LEMMA PendingIs ==
    /\ Pending = [w \in {"local", "current"} |-> Pending[w]]
    /\ Pending["local"] = Collected(local) /\ Pending["current"] = Collected(current)
    /\ Pending' = [w \in {"local", "current"} |-> Pending'[w]]
    /\ Pending'["local"] = Collected(local)' /\ Pending'["current"] = Collected(current)'
BY DEF Pending

LEMMA Created ==
    ASSUME Pending' = Pending,
           NEW k \in DOMAIN Files' \ DOMAIN Files,
           Files' = [j \in DOMAIN Files \cup {k} |-> IF j = k THEN <<>> ELSE Files[j]]
    PROVE  StoreStep
<1>1. Abstract!Create
  BY DEF Abstract!Create, Files, Pending, Found
<1>. QED  BY <1>1 DEF StoreStep, Abstract!Next

LEMMA CollectedMore ==
    ASSUME Files' = Files, NEW w \in {"local", "current"},
           \/ Pending[w] = NoHandle
           \/ /\ Pending'[w] # NoHandle /\ Pending'[w].key = Pending[w].key
              /\ Pending[w].text = SubSeq(Pending'[w].text, 1, Len(Pending[w].text)),
           \A v \in {"local", "current"} \ {w} : Pending'[v] = Pending[v]
    PROVE  StoreStep
<1>1. Abstract!Collect(w)
  BY DEF Abstract!Collect, Files, Pending, Found
<1>. QED  BY <1>1 DEF StoreStep, Abstract!Next

LEMMA Lost ==
    ASSUME Files' = Files, \A w \in {"local", "current"} : Pending'[w] \in {NoHandle, Pending[w]}
    PROVE  StoreStep
<1>1. Abstract!Lose
  BY DEF Abstract!Lose, Files, Pending, Found
<1>. QED  BY <1>1 DEF StoreStep, Abstract!Next

LEMMA Committed ==
    ASSUME NEW w \in {"local", "current"}, Pending[w] # NoHandle, Pending[w].key \in DOMAIN Files,
           Pending' = [Pending EXCEPT ![w] = NoHandle],
           Files' = [Files EXCEPT ![Pending[w].key] = Append(@, Pending[w].text)]
    PROVE  StoreStep
<1>1. Abstract!Commit(w)
  BY DEF Abstract!Commit, Files, Pending, Found
<1>. QED  BY <1>1 DEF StoreStep, Abstract!Next

LEMMA Formatted ==
    ASSUME Pending' = Pending, Files' = <<>>
    PROVE  StoreStep
<1>1. Abstract!Format
  BY DEF Abstract!Format, Files, Pending, Found
<1>. QED  BY <1>1 DEF StoreStep, Abstract!Next

LEMMA StoreStepIs == StoreStep => [Abstract!Next]_(Abstract!vars)
BY DEF StoreStep, Files, Pending, Found, Abstract!vars

(***************************************************************************)
(* What a step that programs something else leaves alone.                  *)
(***************************************************************************)
LEMMA SameChains ==
    ASSUME link' = link, NEW f
    PROVE  /\ \A n \in Nat : ChainAt(f, n)' = ChainAt(f, n)
           /\ Chain(f)' = Chain(f)
<1>1. Newer' = Newer
  BY DEF Newer
<1>2. \A n \in Nat : ChainAt(f, n)' = ChainAt(f, n)
  <2>. SUFFICES ASSUME NEW n \in Nat PROVE ChainAt(f, n)' = ChainAt(f, n)
    OBVIOUS
  <2>. QED  BY <1>1, SameChain
<1>3. \A n \in Blocks : n \in Nat
  BY Sizings DEF Blocks
<1>. QED  BY <1>2, <1>3 DEF Chain

LEMMA EndsSame ==
    ASSUME NEW f, NEW m \in Nat, \A n \in Nat : n <= m => ChainAt(f, n)' = ChainAt(f, n),
           \A n \in Nat : n <= m => link'[ChainAt(f, n)] = link[ChainAt(f, n)]
    PROVE  EndsAt(f, m)' <=> EndsAt(f, m)
BY DEF EndsAt

LEMMA VersionsFact ==
    \A f, m : LinksGood /\ f \in Blocks /\ kind[f] = "file" /\ EndsAt(f, m)
                 => Versions(f) = [v \in 1 .. m |-> Data(ChainAt(f, v))]
BY VersionsAre

LEMMA VersionsAreThen ==
    \A f, m : LinksGood' /\ f \in Blocks /\ kind'[f] = "file" /\ EndsAt(f, m)'
                 => Versions(f)' = [v \in 1 .. m |-> Data(ChainAt(f, v))']
<1>1. (\A f, m : LinksGood /\ f \in Blocks /\ kind[f] = "file" /\ EndsAt(f, m)
                 => Versions(f) = [v \in 1 .. m |-> Data(ChainAt(f, v))])'
  BY VersionsFact, PTL
<1>. QED  BY <1>1

\* a content that is a version of some file
LEMMA VersionIs ==
    ASSUME LinksGood, NEW f \in Blocks, kind[f] = "file", NEW m, EndsAt(f, m), NEW v \in 1 .. m
    PROVE  LET c == ChainAt(f, v)
           IN  c \in Blocks \ {0} /\ kind[c] = "content" /\ Done(c) /\ ~NoLink(c)
<1>1. m \in Nat /\ v \in Nat /\ 0 < v /\ v <= m /\ \A j \in Nat : j < m => link[ChainAt(f, j)] # Blank
  BY DEF EndsAt
<1>2. PICK c : c = ChainAt(f, v)
  OBVIOUS
<1>3. c \in Blocks /\ kind[c] = "content" /\ Done(c) /\ c \in Nat /\ c >= f + v
  BY <1>1, <1>2, ChainIn, ChainAscends
<1>4. f \in Nat
  BY Sizings DEF Blocks
<1>5. PICK a : a = ChainAt(f, v - 1)
  OBVIOUS
<1>6. v - 1 \in Nat /\ v - 1 < m
  BY <1>1
<1>7. a \in Blocks /\ kind[a] \in Linked /\ link[a] # Blank
  BY <1>1, <1>5, <1>6, ChainIn
<1>8. c = a + link[a]
  BY <1>1, <1>2, <1>5, ChainAscends
<1>9. ~NoLink(c)
  BY <1>7, <1>8 DEF NoLink, IsLinked
<1>. QED  BY <1>1, <1>2, <1>3, <1>4, <1>9

LEMMA SameVersions ==
    ASSUME LinksGood, LinksGood', NEW f \in Blocks, kind[f] = "file", kind'[f] = "file",
           \A n \in Nat : link'[ChainAt(f, n)] = link[ChainAt(f, n)],
           \A c \in Blocks \ {0} : kind[c] = "content" /\ Done(c) /\ ~NoLink(c)
                                       => Data(c)' = Data(c)
    PROVE  Versions(f)' = Versions(f)
<1>1. PICK m : EndsAt(f, m)
  BY ChainEnds
<1>2. m \in Nat
  BY <1>1 DEF EndsAt
<1>3. \A n \in Nat : Newer'[ChainAt(f, n)] = Newer[ChainAt(f, n)]
  BY ChainIn DEF Newer
<1>4. \A n \in Nat : n <= m => ChainAt(f, n)' = ChainAt(f, n)
  BY <1>2, <1>3, SameChain
<1>5. EndsAt(f, m)'
  BY <1>1, <1>2, <1>4, EndsSame
<1>6. \A v \in 1 .. m : Data(ChainAt(f, v))' = Data(ChainAt(f, v))
  <2>. SUFFICES ASSUME NEW v \in 1 .. m PROVE Data(ChainAt(f, v))' = Data(ChainAt(f, v))
    OBVIOUS
  <2>1. PICK c : c = ChainAt(f, v)
    OBVIOUS
  <2>2. c \in Blocks \ {0} /\ kind[c] = "content" /\ Done(c) /\ ~NoLink(c)
    BY <1>1, <2>1, VersionIs
  <2>3. ChainAt(f, v)' = c
    BY <1>2, <1>4, <2>1
  <2>. QED  BY <2>1, <2>2, <2>3
<1>7. Versions(f) = [v \in 1 .. m |-> Data(ChainAt(f, v))]
  BY <1>1, VersionsFact
<1>8. Versions(f)' = [v \in 1 .. m |-> Data(ChainAt(f, v))']
  BY <1>5, VersionsAreThen
<1>. QED  BY <1>6, <1>7, <1>8

LEMMA SameFiles ==
    ASSUME TypeOK, EntriesInv,
           \A d \in Blocks, nm \in Names : Lookup(d, "file", nm)' = Lookup(d, "file", nm),
           \A d \in Blocks, nm \in Names : Lookup(d, "file", nm) # NoBlock => (Listed(d)' <=> Listed(d)),
           \A f \in Blocks : kind[f] = "file" => Versions(f)' = Versions(f)
    PROVE  Files' = Files
<1>1. Keys' = Keys
  BY DEF Keys
<1>2. ASSUME NEW k \in Keys PROVE Versions(Found(k))' = Versions(Found(k))
  <2>1. k[1] \in Blocks /\ k[2] \in Names /\ Lookup(k[1], "file", k[2]) # NoBlock
    BY DEF Keys
  <2>2. PICK f : f = Lookup(k[1], "file", k[2])
    OBVIOUS
  <2>3. f \in Blocks /\ kind[f] = "file"
    BY <2>1, <2>2, LookupFinds
  <2>4. Found(k)' = f /\ Found(k) = f
    BY <2>1, <2>2 DEF Found
  <2>. QED  BY <2>3, <2>4
<1>. QED  BY <1>1, <1>2 DEF Files

LEMMA SameDirectories ==
    ASSUME TypeOK, EntriesInv, UNCHANGED <<kind, label, entries>>
    PROVE  /\ \A d \in Blocks : Listed(d)' <=> Listed(d)
           /\ \A d \in Blocks : \A type, nm : Lookup(d, type, nm)' = Lookup(d, type, nm)
           /\ \A b : NoEntry(b)' <=> NoEntry(b)
           /\ EntriesLead' <=> EntriesLead
           /\ EnteredOnce' <=> EnteredOnce
<1>1. \A p, c : Leads(p, c)' <=> Leads(p, c)
  BY DEF Leads
<1>2. NBlocks \notin Blocks
  BY Sizings DEF Blocks
<1>3. \A d \in Blocks : Listed(d)' <=> Listed(d)
  <2>. SUFFICES ASSUME NEW d \in Blocks PROVE Listed(d)' <=> Listed(d)
    OBVIOUS
  <2>1. kind'[0] = kind[0] /\ d # NBlocks /\ (kind'[d] = "dir" <=> kind[d] = "dir")
    BY <1>2
  <2>. QED  BY <1>1, <1>2, <2>1, SameListed
<1>4. \A d \in Blocks : \A type, nm : Lookup(d, type, nm)' = Lookup(d, type, nm)
  BY SameLookup
<1>5. \A d, i : To(d, i)' = To(d, i)
  BY DEF To
<1>. QED  BY <1>3, <1>4, <1>5 DEF NoEntry, EntriesLead, EnteredOnce

(***************************************************************************)
(* The writers: what store was asked to write, and what it has written.    *)
(***************************************************************************)

\* the handle's file is a file, and the handle is at its newest version
OpenedFile(h) ==
    /\ h.key \in Blocks \X Names
    /\ h.file \in Blocks /\ kind[h.file] = "file"
    /\ From(h) \in Chain(h.file)

\* the file is the one found under the handle's key; or the directory was full,
\* and no entry leads to the file
Filed(h) ==
    \/ Listed(h.key[1]) /\ Lookup(h.key[1], "file", h.key[2]) = h.file
    \/ Lookup(h.key[1], "file", h.key[2]) = NoBlock /\ NoEntry(h.file)

\* what was handed over is on the flash, but for the rest
Written(h, rest) ==
    LET n == h.pos - DataOffset
    IN  /\ Len(h.typed) = n + Len(rest)
        /\ \A i \in 1 .. n : UnitAt(h.block, i) = h.typed[i]
        /\ \A i \in 1 .. Len(rest) : h.typed[n + i] = rest[i]

Finished(h) == Done(h.block) /\ NoLink(h.block) /\ Data(h.block) = h.typed

Writes(h) ==
    /\ OpenedFile(h) /\ Filed(h) /\ link[h.block] = Blank
    /\ IF step = "link" THEN Finished(h)
       ELSE Written(h, IF step = "append" THEN job.text ELSE <<>>)

\* a new object is about to be entered in its directory
Enters ==
    /\ ~IsOpen
    /\ Listed(entering[1]) /\ entries[entering[2]] = <<>> /\ NoEntry(entering[2])
    /\ job.do = "mkdir" => kind[entering[2]] = "dir"
    /\ job.do # "mkdir" =>
          /\ entering = <<local.key[1], local.file>>
          /\ label[local.file] = local.key[2] /\ link[local.file] = Blank
          /\ Lookup(local.key[1], "file", local.key[2]) = NoBlock

WritersInv ==
    /\ IsOpen => Writes(current)
    /\ step \in {"append", "finish", "link"} /\ job.do = "write" => Writes(local)
    /\ local.block # NoBlock => step \in {"append", "finish", "link"} /\ job.do = "write"
    /\ stale => /\ current.file # NoBlock
                /\ current.block = NoBlock \/ current.key[2] = NoName
    /\ step \in {"enter", "alloc"} /\ job.do # "mkdir" =>
          OpenedFile(local) /\ local.typed = job.text
    /\ step \in {"enter", "alloc"} /\ job.do = "alloc" => job.text = <<>>
    /\ step = "alloc" => Filed(local)
    /\ step = "enter" => Enters

\* mkfs erases the directories with the rest
EntriesErased ==
    /\ step = "erase" => \A b \in Blocks : b \div SectorBlocks < sector => entries[b] = <<>>
    /\ step \in {"root", "header"} => \A b \in Blocks : entries[b] = <<>>

StoreInv == DiskInv /\ EntriesErased /\ WritersInv

\* after a step that programs nothing everything is read as before
LEMMA NothingMoves ==
    ASSUME TypeOK, EntriesInv, UNCHANGED flash
    PROVE  /\ \A h : OpenedFile(h)' <=> OpenedFile(h)
           /\ \A h : h.key[1] \in Blocks => (Filed(h)' <=> Filed(h))
           /\ \A h, rest : Written(h, rest)' <=> Written(h, rest)
           /\ \A h : Finished(h)' <=> Finished(h)
           /\ \A d \in Blocks : Listed(d)' <=> Listed(d)
           /\ \A d \in Blocks : \A type, nm : Lookup(d, type, nm)' = Lookup(d, type, nm)
           /\ \A b : NoEntry(b)' <=> NoEntry(b)
           /\ (EntriesLead' <=> EntriesLead) /\ (EnteredOnce' <=> EnteredOnce)
           /\ (VersionsDone' <=> VersionsDone) /\ (LinkedOnce' <=> LinkedOnce)
<1>1. UNCHANGED <<kind, size, len, link, label, entries, units>>
  BY DEF flash
<1>2. /\ \A d \in Blocks : Listed(d)' <=> Listed(d)
      /\ \A d \in Blocks : \A type, nm : Lookup(d, type, nm)' = Lookup(d, type, nm)
      /\ \A b : NoEntry(b)' <=> NoEntry(b)
      /\ EntriesLead' <=> EntriesLead
      /\ EnteredOnce' <=> EnteredOnce
  BY <1>1, SameDirectories
<1>3. \A f : Chain(f)' = Chain(f)
  BY <1>1, SameChains
<1>4. \A h : From(h)' = From(h)
  BY DEF From
<1>5. \A h : OpenedFile(h)' <=> OpenedFile(h)
  BY <1>1, <1>3, <1>4 DEF OpenedFile
<1>6. \A h : h.key[1] \in Blocks => (Filed(h)' <=> Filed(h))
  BY <1>2 DEF Filed
<1>7. \A c, i : UnitAt(c, i)' = UnitAt(c, i)
  BY <1>1 DEF UnitAt
<1>8. \A h, rest : Written(h, rest)' <=> Written(h, rest)
  BY <1>7 DEF Written
<1>9. \A c : (Done(c)' <=> Done(c)) /\ (IsLinked(c)' <=> IsLinked(c))
  BY <1>1 DEF Done, IsLinked
<1>10. \A c : NoLink(c)' <=> NoLink(c)
  BY <1>1, <1>9 DEF NoLink
<1>11. \A c : Data(c)' = Data(c)
  BY <1>1, <1>7, SameData
<1>12. \A h : Finished(h)' <=> Finished(h)
  BY <1>9, <1>10, <1>11 DEF Finished
<1>13. (VersionsDone' <=> VersionsDone) /\ (LinkedOnce' <=> LinkedOnce)
  BY <1>1, <1>9 DEF VersionsDone, LinkedOnce
<1>. QED  BY <1>2, <1>5, <1>6, <1>8, <1>12, <1>13

(***************************************************************************)
(* What a handle makes of the abstract store's "pending".                  *)
(***************************************************************************)
LEMMA RecordApart ==
    ASSUME NEW k, NEW t
    PROVE  [key |-> k, text |-> t] # NoHandle
<1>1. "file" \in DOMAIN NoHandle /\ "file" \notin DOMAIN [key |-> k, text |-> t]
  BY DEF NoHandle
<1>. QED  BY <1>1

LEMMA CollectedIs ==
    /\ \A h : h.block = NoBlock => Collected(h) = NoHandle
    /\ \A h : h.key[2] = NoName => Collected(h) = NoHandle
    /\ \A h : h.block # NoBlock /\ h.key \in Blocks \X Names =>
           Collected(h) = [key |-> h.key, text |-> h.typed]
    /\ \A g, h : g.block = h.block /\ g.key = h.key /\ g.typed = h.typed => Collected(g) = Collected(h)
<1>1. \A h : h.key \in Blocks \X Names => h.key[2] # NoName
  BY NamesAssumption
<1>. QED  BY <1>1 DEF Collected

\* how the two writers' contents change when their handles do
LEMMA PendingThen ==
    /\ \A g : local' = g => Pending'["local"] = Collected(g)
    /\ \A g : current' = g => Pending'["current"] = Collected(g)
    /\ local' = local => Pending'["local"] = Pending["local"]
    /\ current' = current => Pending'["current"] = Pending["current"]
    /\ Collected(local)' = Collected(local) /\ Collected(current)' = Collected(current) => Pending' = Pending
BY PendingIs DEF Collected

(***************************************************************************)
(* When nothing is mounted there are no files; when nothing is programmed  *)
(* they stay.                                                              *)
(***************************************************************************)
LEMMA NoFiles ==
    /\ ~Mounted => Files = <<>>
    /\ (\A d \in Blocks : entries[d] = <<>>) => Files = <<>>
<1>1. Keys = {} => Files = <<>>
  <2>. SUFFICES ASSUME Keys = {} PROVE Files = <<>>
    OBVIOUS
  <2>1. Files = [k \in {} |-> Versions(Found(k))]
    BY DEF Files
  <2>2. <<>> = [k \in {} |-> Versions(Found(k))]
    OBVIOUS
  <2>. QED  BY <2>1, <2>2
<1>2. ~Mounted => Keys = {}
  BY DEF Keys, Listed
<1>3. ASSUME \A d \in Blocks : entries[d] = <<>> PROVE Keys = {}
  <2>1. \A d \in Blocks : \A type, nm : Entries(d, type, nm) = {}
    BY <1>3 DEF Entries
  <2>2. \A d \in Blocks : \A type, nm : Lookup(d, type, nm) = NoBlock
    BY <2>1 DEF Lookup
  <2>. QED  BY <2>2 DEF Keys
<1>. QED  BY <1>1, <1>2, <1>3

LEMMA NoFilesThen ==
    /\ ~Mounted' => Files' = <<>>
    /\ (\A d \in Blocks : entries'[d] = <<>>) => Files' = <<>>
<1>1. (/\ ~Mounted => Files = <<>>
       /\ (\A d \in Blocks : entries[d] = <<>>) => Files = <<>>)'
  BY NoFiles, PTL
<1>. QED  BY <1>1

\* the facts about a mounted file system
LEMMA MountedIs ==
    ASSUME FlashInv, StoreInv, kind[0] = "header"
    PROVE  /\ TypeOK /\ EntriesInv /\ LinksLead /\ LinksGood /\ SpaceErased /\ ObjectsApart
           /\ EntriesLead /\ EnteredOnce /\ VersionsDone /\ LinkedOnce
BY DEF FlashInv, StoreInv, DiskInv, OnDisk, Layout, LinksGood

LEMMA SameStore ==
    ASSUME FlashInv, FlashInv', StoreInv, UNCHANGED flash
    PROVE  Files' = Files
<1>1. UNCHANGED <<kind, size, len, link, label, entries, units>> /\ TypeOK /\ EntriesInv
  BY DEF flash, FlashInv
<1>2. CASE kind[0] # "header"
  <2>1. ~Mounted /\ ~Mounted'
    BY <1>1, <1>2 DEF Mounted
  <2>. QED  BY <2>1, NoFiles, NoFilesThen
<1>3. CASE kind[0] = "header"
  <2>1. LinksGood /\ VersionsDone' /\ LinkedOnce'
    BY <1>1, <1>3, MountedIs, NothingMoves
  <2>2. LinksGood'
    BY <1>1, <1>3, <2>1 DEF LinksGood, FlashInv, Layout
  <2>3. \A c : Data(c)' = Data(c)
    <3>1. \A c, i : UnitAt(c, i)' = UnitAt(c, i)
      BY <1>1 DEF UnitAt
    <3>. QED  BY <1>1, <3>1, SameData
  <2>4. \A f \in Blocks : kind[f] = "file" => Versions(f)' = Versions(f)
    BY <1>1, <2>1, <2>2, <2>3, SameVersions
  <2>. QED  BY <1>1, <2>4, NothingMoves, SameFiles
<1>. QED  BY <1>2, <1>3

(***************************************************************************)
(* What is known of a handle after the step, and of one that a step leaves *)
(* alone.                                                                  *)
(***************************************************************************)
LEMMA HandlesThen ==
    /\ \A g : current' = g =>
          /\ OpenedFile(current)' <=> OpenedFile(g)'
          /\ Filed(current)' <=> Filed(g)'
          /\ Finished(current)' <=> Finished(g)'
          /\ \A rest : Written(current, rest)' <=> Written(g, rest)'
          /\ Writes(current)' <=> Writes(g)'
    /\ \A g : local' = g =>
          /\ OpenedFile(local)' <=> OpenedFile(g)'
          /\ Filed(local)' <=> Filed(g)'
          /\ Finished(local)' <=> Finished(g)'
          /\ \A rest : Written(local, rest)' <=> Written(g, rest)'
          /\ Writes(local)' <=> Writes(g)'
<1>1. ASSUME NEW g, current' = g
      PROVE  /\ OpenedFile(current)' <=> OpenedFile(g)'
             /\ Filed(current)' <=> Filed(g)'
             /\ Finished(current)' <=> Finished(g)'
             /\ \A rest : Written(current, rest)' <=> Written(g, rest)'
  BY <1>1 DEF OpenedFile, Filed, Finished, Written, From
<1>2. ASSUME NEW g, local' = g
      PROVE  /\ OpenedFile(local)' <=> OpenedFile(g)'
             /\ Filed(local)' <=> Filed(g)'
             /\ Finished(local)' <=> Finished(g)'
             /\ \A rest : Written(local, rest)' <=> Written(g, rest)'
  BY <1>2 DEF OpenedFile, Filed, Finished, Written, From
<1>3. ASSUME NEW g, current' = g PROVE Writes(current)' <=> Writes(g)'
  BY <1>1, <1>3 DEF Writes
<1>4. ASSUME NEW g, local' = g PROVE Writes(local)' <=> Writes(g)'
  BY <1>2, <1>4 DEF Writes
<1>. QED  BY <1>1, <1>2, <1>3, <1>4

\* the disk and the handles in use after a step that programs nothing
LEMMA QuietDisk ==
    ASSUME FlashInv, StoreInv, UNCHANGED flash, step' \notin {"root", "header"},
           step' = "erase" => sector' = 0
    PROVE  /\ DiskInv' /\ EntriesErased'
           /\ \A h : OpenedFile(h) => OpenedFile(h)'
           /\ \A h : OpenedFile(h) /\ Filed(h) => Filed(h)'
           /\ \A h, rest : Written(h, rest) => Written(h, rest)'
           /\ link' = link /\ kind' = kind
<1>1. TypeOK /\ EntriesInv /\ UNCHANGED <<kind, size, len, link, label, entries, units>>
  BY DEF FlashInv, flash
<1>2. DiskInv'
  BY <1>1, NothingMoves DEF StoreInv, DiskInv, OnDisk
<1>3. EntriesErased'
  BY SectorsCover DEF EntriesErased
<1>4. \A h : OpenedFile(h) => h.key[1] \in Blocks
  BY DEF OpenedFile
<1>. QED  BY <1>1, <1>2, <1>3, <1>4, NothingMoves

\* a step that programs nothing and leaves both handles alone
LEMMA QuietStep ==
    ASSUME FlashInv, FlashInv', StoreInv, UNCHANGED flash, Pending' = Pending
    PROVE  StoreStep
BY SameStore DEF StoreStep

LEMMA BootStores == ASSUME FlashInv, FlashInv', StoreInv, Boot PROVE StoreInv' /\ StoreStep
<1>1. /\ step = "boot" /\ step' \in {"idle", "erase"} /\ sector' = 0
      /\ UNCHANGED flash /\ UNCHANGED <<current, local, job, entering, stale, spilled>>
  BY DEF Boot
<1>2. DiskInv' /\ EntriesErased'
  BY <1>1, QuietDisk
<1>3. ~IsOpen' /\ local'.block = NoBlock
  BY <1>1 DEF FlashInv, HandlesInv, IsOpen, StoreInv, WritersInv
<1>4. WritersInv'
  BY <1>1, <1>3 DEF StoreInv, WritersInv
<1>5. StoreStep
  BY <1>1, PendingThen, QuietStep DEF Collected
<1>. QED  BY <1>2, <1>4, <1>5 DEF StoreInv

LEMMA MkfsStores == ASSUME FlashInv, FlashInv', StoreInv, Mkfs PROVE StoreInv' /\ StoreStep
<1>1. /\ step = "idle" /\ step' = "erase" /\ sector' = 0 /\ stale' = (current.file # NoBlock)
      /\ current' = IF current.file = NoBlock THEN current ELSE Outdated(current)
      /\ UNCHANGED flash /\ UNCHANGED <<local, job, entering, spilled>>
  BY DEF Mkfs
<1>2. DiskInv' /\ EntriesErased'
  BY <1>1, QuietDisk
<1>3. Outdated(current).key[2] = NoName /\ Outdated(current).file # NoBlock
  BY DEF Outdated, NoHandle, Root, NoBlock
<1>4. current.file = NoBlock => current.block = NoBlock
  BY DEF FlashInv, HandlesInv
<1>5. ~IsOpen'
  BY <1>1, <1>4 DEF IsOpen
<1>6. local'.block = NoBlock
  BY <1>1 DEF StoreInv, WritersInv
<1>7. WritersInv'
  BY <1>1, <1>3, <1>5, <1>6 DEF WritersInv
<1>8. StoreStep
  <2>1. Pending'["local"] = Pending["local"]
    BY <1>1, PendingThen
  <2>2. Pending'["current"] \in {NoHandle, Pending["current"]}
    BY <1>1, <1>3, PendingThen, CollectedIs
  <2>3. Files' = Files
    BY <1>1, SameStore
  <2>. QED  BY <2>1, <2>2, <2>3, Lost
<1>. QED  BY <1>2, <1>7, <1>8 DEF StoreInv

LEMMA RestartStores == ASSUME FlashInv, FlashInv', StoreInv, Restart PROVE StoreInv' /\ StoreStep
<1>1. /\ current' = NoHandle /\ local' = NoHandle /\ step' = "boot" /\ ~stale'
      /\ UNCHANGED flash
  BY DEF Restart
<1>2. DiskInv' /\ EntriesErased'
  BY <1>1, QuietDisk
<1>3. WritersInv'
  BY <1>1, EmptyHanded DEF WritersInv, IsOpen
<1>4. StoreStep
  <2>1. Pending'["local"] = NoHandle /\ Pending'["current"] = NoHandle
    BY <1>1, EmptyHanded, PendingThen, CollectedIs
  <2>2. Files' = Files
    BY <1>1, SameStore
  <2>. QED  BY <2>1, <2>2, Lost
<1>. QED  BY <1>2, <1>3, <1>4 DEF StoreInv

LEMMA StoreAppendStores ==
    ASSUME FlashInv, FlashInv', StoreInv, NEW text \in Texts, StoreAppend(text)
    PROVE  StoreInv' /\ StoreStep
<1>1. /\ step = "idle" /\ current.block # NoBlock /\ ~stale /\ step' = "append"
      /\ job' = [do |-> "append", text |-> text, size |-> Len(text)]
      /\ current' = [current EXCEPT !.typed = @ \o text]
      /\ UNCHANGED flash /\ UNCHANGED <<local, entering, sector, stale, spilled>>
  BY DEF StoreAppend
<1>2. DiskInv' /\ EntriesErased'
  BY <1>1, QuietDisk
<1>3. current \in Handles /\ text \in Seq(Int) /\ text \in Seq(Byte)
  BY SPFSAssumption, ByteIsInt, Types DEF FlashInv, RamTypes
<1>4. PICK c : c = current
  OBVIOUS
<1>5. PICK g : g = [c EXCEPT !.typed = c.typed \o text]
  OBVIOUS
<1>6. /\ g.file = c.file /\ g.head = c.head /\ g.block = c.block /\ g.pos = c.pos /\ g.key = c.key
      /\ g.typed = c.typed \o text /\ c.typed \in Seq(Int) /\ c.pos \in Nat
  BY <1>3, <1>4, <1>5 DEF Handles
<1>7. IsOpen /\ Writes(c)
  BY <1>1, <1>4 DEF StoreInv, WritersInv, IsOpen
<1>8. OpenedFile(c) /\ Filed(c) /\ link[c.block] = Blank /\ Written(c, <<>>)
  BY <1>1, <1>7 DEF Writes
<1>9. OpenedFile(g) /\ Filed(g) /\ Written(g, text)
  <2>1. From(g) = From(c)
    BY <1>6 DEF From
  <2>2. OpenedFile(g) /\ Filed(g)
    BY <1>6, <1>8, <2>1 DEF OpenedFile, Filed
  <2>3. PICK n \in Int : n = c.pos - DataOffset
    BY <1>6, Sizings
  <2>4. Len(c.typed) = n /\ \A i \in 1 .. n : UnitAt(c.block, i) = c.typed[i]
    BY <1>6, <1>8, <2>3 DEF Written
  <2>. DEFINE whole == c.typed \o text
  <2>5. /\ Len(whole) = Len(c.typed) + Len(text) /\ Len(c.typed) \in Nat /\ Len(text) \in Nat
        /\ \A i \in 1 .. Len(c.typed) + Len(text) :
              whole[i] = IF i <= Len(c.typed) THEN c.typed[i] ELSE text[i - Len(c.typed)]
    BY <1>3, <1>6, ConcatProperties
  <2>. HIDE DEF whole
  <2>6. Len(whole) = n + Len(text) /\ \A i \in 1 .. n : whole[i] = c.typed[i]
    BY <2>4, <2>5
  <2>7. \A i \in 1 .. Len(text) : whole[n + i] = text[i]
    <3>. SUFFICES ASSUME NEW i \in 1 .. Len(text) PROVE whole[n + i] = text[i]
      OBVIOUS
    <3>1. /\ n + i \in 1 .. Len(c.typed) + Len(text) /\ ~(n + i <= Len(c.typed))
          /\ n + i - Len(c.typed) = i
      BY <2>4, <2>5
    <3>. QED  BY <2>5, <3>1
  <2>8. g.typed = whole /\ g.block = c.block /\ n = g.pos - DataOffset
    BY <1>6, <2>3 DEF whole
  <2>9. Len(whole) = n + Len(text) /\ \A i \in 1 .. n : UnitAt(c.block, i) = whole[i]
    BY <2>4, <2>6
  <2>10. Written(g, text)
    BY <2>7, <2>8, <2>9 DEF Written
  <2>. QED  BY <2>2, <2>10
<1>10. Writes(g)'
  <2>1. OpenedFile(g)' /\ Filed(g)' /\ Written(g, text)' /\ link' = link
    BY <1>1, <1>9, QuietDisk
  <2>2. job'.text = text
    BY <1>1
  <2>3. Written(g, IF step = "append" THEN job.text ELSE <<>>)'
    BY <1>1, <2>1, <2>2 DEF Written
  <2>. QED  BY <1>1, <1>6, <1>8, <2>1, <2>3 DEF Writes
<1>11. current' = g
  BY <1>1, <1>4, <1>5
<1>12. local'.block = NoBlock
  BY <1>1 DEF StoreInv, WritersInv
<1>13. WritersInv'
  <2>1. Writes(current)'
    BY <1>10, <1>11, HandlesThen
  <2>2. job'.do = "append"
    BY <1>1
  <2>. QED  BY <1>1, <1>12, <2>1, <2>2 DEF WritersInv
<1>14. StoreStep
  <2>1. Pending'["local"] = Pending["local"]
    BY <1>1, PendingThen
  <2>2. Pending'["current"] = [key |-> g.key, text |-> g.typed]
    BY <1>1, <1>4, <1>6, <1>8, <1>11, PendingThen, CollectedIs DEF OpenedFile
  <2>3. Pending["current"] = [key |-> c.key, text |-> c.typed]
    BY <1>1, <1>4, <1>8, PendingIs, CollectedIs DEF OpenedFile
  <2>4. Pending'["current"] # NoHandle
    BY <2>2, RecordApart
  <2>5. c.typed = SubSeq(g.typed, 1, Len(c.typed))
    BY <1>3, <1>6
  <2>6. Files' = Files
    BY <1>1, SameStore
  <2>. QED  BY <1>6, <2>1, <2>2, <2>3, <2>4, <2>5, <2>6, CollectedMore
<1>. QED  BY <1>2, <1>13, <1>14 DEF StoreInv

LEMMA StoreFinishStores ==
    ASSUME FlashInv, FlashInv', StoreInv, StoreFinish
    PROVE  StoreInv' /\ StoreStep
<1>1. /\ step = "idle" /\ current.block # NoBlock /\ ~stale /\ step' = "finish"
      /\ job' = [NoJob EXCEPT !.do = "finish"]
      /\ UNCHANGED flash /\ UNCHANGED <<current, local, entering, sector, stale, spilled>>
  BY DEF StoreFinish
<1>2. DiskInv' /\ EntriesErased'
  BY <1>1, QuietDisk
<1>3. PICK c : c = current
  OBVIOUS
<1>4. OpenedFile(c) /\ Filed(c) /\ link[c.block] = Blank /\ Written(c, <<>>)
  BY <1>1, <1>3 DEF StoreInv, WritersInv, IsOpen, Writes
<1>5. OpenedFile(c)' /\ Filed(c)' /\ Written(c, <<>>)' /\ link' = link
  BY <1>1, <1>4, QuietDisk
<1>6. Writes(c)'
  BY <1>1, <1>4, <1>5 DEF Writes
<1>7. local'.block = NoBlock /\ job'.do = "finish"
  BY <1>1 DEF StoreInv, WritersInv, NoJob
<1>8. WritersInv'
  <2>1. Writes(current)'
    BY <1>1, <1>3, <1>6, HandlesThen
  <2>. QED  BY <1>1, <1>7, <2>1 DEF WritersInv
<1>9. StoreStep
  BY <1>1, PendingThen, QuietStep DEF Collected
<1>. QED  BY <1>2, <1>8, <1>9 DEF StoreInv

LEMMA UseStaleHandleStores ==
    ASSUME FlashInv, FlashInv', StoreInv, UseStaleHandle
    PROVE  StoreInv' /\ StoreStep
<1>1. /\ step = "idle" /\ stale /\ step' = "undefined"
      /\ UNCHANGED flash /\ UNCHANGED <<current, local, job, entering, sector, stale, spilled>>
  BY DEF UseStaleHandle
<1>2. DiskInv' /\ EntriesErased'
  BY <1>1, QuietDisk
<1>3. WritersInv'
  BY <1>1 DEF StoreInv, WritersInv, IsOpen
<1>4. StoreStep
  BY <1>1, PendingThen, QuietStep DEF Collected
<1>. QED  BY <1>2, <1>3, <1>4 DEF StoreInv

LEMMA OpenStores ==
    ASSUME FlashInv, FlashInv', StoreInv, step = "idle", NEW d \in Blocks, NEW nm \in Names,
           NEW what \in Jobs, what.do = "alloc" => what.text = <<>>, Listed(d), Open(d, nm, what)
    PROVE  StoreInv' /\ StoreStep
<1>1. PICK f : f = Lookup(d, "file", nm)
  OBVIOUS
<1>2. PICK head \in Chain(f) :
         local' = [NoHandle EXCEPT !.file = f, !.head = IF head = f THEN NoBlock ELSE head,
                                   !.key = <<d, nm>>, !.typed = what.text]
  BY <1>1 DEF Open
<1>3. /\ f # NoBlock /\ step' = "alloc" /\ job' = what
      /\ UNCHANGED flash /\ UNCHANGED <<current, entering, sector, stale, spilled>>
  BY <1>1 DEF Open
<1>4. kind[0] = "header"
  BY DEF FlashInv, HandlesInv
<1>5. TypeOK /\ EntriesInv /\ LinksLead
  BY <1>4, MountedIs
<1>6. f \in Blocks /\ kind[f] = "file" /\ head # 0
  <2>1. f \in Blocks /\ kind[f] = "file"
    BY <1>1, <1>3, <1>5, LookupFinds
  <2>2. kind[head] \in Linked
    BY <1>5, <2>1, ChainLinked DEF Linked
  <2>. QED  BY <1>4, <2>1, <2>2 DEF Linked
<1>7. PICK g : g = local'
  OBVIOUS
<1>8. /\ g.file = f /\ g.head = (IF head = f THEN NoBlock ELSE head)
      /\ g.key = <<d, nm>> /\ g.typed = what.text /\ g.block = NoBlock
  BY <1>2, <1>7 DEF NoHandle
<1>9. OpenedFile(g) /\ Filed(g)
  <2>1. From(g) = head
    BY <1>6, <1>8 DEF From, NoBlock
  <2>. QED  BY <1>1, <1>6, <1>8, <2>1 DEF OpenedFile, Filed
<1>10. DiskInv' /\ EntriesErased' /\ OpenedFile(g)' /\ Filed(g)'
  BY <1>3, <1>9, QuietDisk
<1>11. WritersInv'
  <2>1. OpenedFile(local)' /\ Filed(local)' /\ local'.typed = job'.text /\ local'.block = NoBlock
    BY <1>3, <1>7, <1>8, <1>10, HandlesThen
  <2>2. ASSUME IsOpen' PROVE Writes(current)'
    <3>1. PICK c : c = current
      OBVIOUS
    <3>2. OpenedFile(c) /\ Filed(c) /\ link[c.block] = Blank /\ Written(c, <<>>)
      BY <1>3, <2>2, <3>1 DEF StoreInv, WritersInv, IsOpen, Writes
    <3>3. OpenedFile(c)' /\ Filed(c)' /\ Written(c, <<>>)' /\ link' = link
      BY <1>3, <3>2, QuietDisk
    <3>4. Writes(c)'
      BY <1>3, <3>2, <3>3 DEF Writes
    <3>. QED  BY <1>3, <3>1, <3>4, HandlesThen
  <2>. QED  BY <1>3, <2>1, <2>2 DEF WritersInv, StoreInv
<1>12. StoreStep
  <2>1. Pending'["local"] = NoHandle /\ Pending'["current"] = Pending["current"]
    BY <1>3, <1>7, <1>8, PendingThen, CollectedIs
  <2>2. Files' = Files
    BY <1>3, SameStore
  <2>. QED  BY <2>1, <2>2, Lost
<1>. QED  BY <1>10, <1>11, <1>12 DEF StoreInv

(***************************************************************************)
(* The header of a new object changes nothing that is read of the others.  *)
(***************************************************************************)
LEMMA NewObject ==
    ASSUME FlashInv, FlashInv', StoreInv, kind[0] = "header", kind'[0] = "header",
           NEW b, SpaceFrom(b), NEW type \in Objects, NEW sz, NEW nm, Header(b, type, sz, nm)
    PROVE  /\ DiskInv' /\ Files' = Files
           /\ b \in Blocks \ {0} /\ kind[b] = "erased" /\ link[b] = Blank /\ entries[b] = <<>> /\ NoEntry(b)
           /\ \A x \in Blocks : x # b => kind'[x] = kind[x]
           /\ kind'[b] = type /\ label'[b] = nm /\ link' = link /\ entries' = entries /\ units' = units
           /\ \A x : NoEntry(x)' <=> NoEntry(x)
           /\ \A d \in Blocks : Listed(d) => Listed(d)'
           /\ \A d \in Blocks : \A t, n : Lookup(d, t, n)' = Lookup(d, t, n)
           /\ \A f : Chain(f)' = Chain(f)
<1>1. /\ TypeOK /\ EntriesInv /\ LinksLead /\ LinksGood
      /\ EntriesLead /\ EnteredOnce /\ VersionsDone /\ LinkedOnce
  BY MountedIs
<1>2. b \in Blocks /\ b # 0 /\ kind[b] = "erased" /\ size[b] = Blank /\ link[b] = Blank
  BY FreeAndErased DEF Untouched
<1>3. /\ \A x \in Blocks : kind'[x] = IF x = b THEN type ELSE kind[x]
      /\ \A x \in Blocks : x # b => size'[x] = size[x] /\ label'[x] = label[x]
      /\ label'[b] = nm
      /\ len' = len /\ link' = link /\ entries' = entries /\ units' = units
  BY <1>1, <1>2 DEF Header, TypeOK
<1>4. \A d \in Blocks : \A i \in DOMAIN entries[d] : To(d, i) \in Blocks /\ To(d, i) # b
  BY <1>1, <1>2 DEF EntriesInv, EntriesLead, To
<1>5. entries[b] = <<>> /\ NoEntry(b)
  BY <1>1, <1>2, <1>4 DEF EntriesLead, NoEntry
<1>6. \A d, i : To(d, i)' = To(d, i)
  BY <1>3 DEF To
<1>7. \A x : NoEntry(x)' <=> NoEntry(x)
  BY <1>3, <1>6 DEF NoEntry
<1>8. \A d \in Blocks : \A t, n : Lookup(d, t, n)' = Lookup(d, t, n)
  BY <1>1, <1>3, <1>4, SameLookup
<1>9. \A f : Chain(f)' = Chain(f)
  BY <1>3, SameChains
<1>10. \A d \in Blocks : d # b => (Listed(d)' <=> Listed(d))
  <2>. SUFFICES ASSUME NEW d \in Blocks, d # b PROVE Listed(d)' <=> Listed(d)
    OBVIOUS
  <2>1. \A p \in Blocks, c \in Blocks : Leads(p, c)' <=> Leads(p, c)
    <3>. SUFFICES ASSUME NEW p \in Blocks, NEW c \in Blocks PROVE Leads(p, c)' <=> Leads(p, c)
      OBVIOUS
    <3>1. CASE p = b
      BY <1>3, <1>5, <3>1 DEF Leads
    <3>2. CASE p # b
      BY <1>3, <3>2 DEF Leads
    <3>. QED  BY <3>1, <3>2
  <2>2. \A c \in Blocks : ~Leads(b, c)
    BY <1>5 DEF Leads
  <2>. QED  BY <1>3, <2>1, <2>2, SameListed
<1>11. EntriesLead'
  BY <1>1, <1>2, <1>3, <1>4, <1>6 DEF EntriesLead
<1>12. EnteredOnce'
  BY <1>1, <1>3, <1>6 DEF EnteredOnce
<1>13. \A a \in Blocks : IsLinked(a)' => IsLinked(a) /\ a # b
  BY <1>2, <1>3 DEF IsLinked
<1>14. VersionsDone'
  <2>. SUFFICES ASSUME NEW a \in Blocks, IsLinked(a)' PROVE link'[a] > 0 /\ Done(a + link[a])'
    BY DEF VersionsDone
  <2>1. IsLinked(a) /\ link[a] > 0 /\ Done(a + link[a])
    BY <1>1, <1>13 DEF VersionsDone
  <2>2. a + link[a] \in Blocks /\ kind[a + link[a]] = "content"
    BY <1>1, <2>1 DEF LinksLead, IsLinked
  <2>3. a + link[a] # b
    BY <1>2, <2>2
  <2>. QED  BY <1>3, <2>1, <2>2, <2>3 DEF Done
<1>15. LinkedOnce'
  BY <1>1, <1>3, <1>13 DEF LinkedOnce
<1>16. LinksGood'
  BY <1>14, <1>15 DEF LinksGood, FlashInv, Layout
<1>17. \A f \in Blocks : kind[f] = "file" => Versions(f)' = Versions(f)
  <2>1. \A c, i : UnitAt(c, i)' = UnitAt(c, i)
    BY <1>3 DEF UnitAt
  <2>2. \A c : Data(c)' = Data(c)
    BY <1>3, <2>1, SameData
  <2>3. \A f \in Blocks : kind[f] = "file" => kind'[f] = "file"
    BY <1>2, <1>3
  <2>. QED  BY <1>1, <1>3, <1>16, <2>2, <2>3, SameVersions
<1>18. Files' = Files
  <2>1. \A n : Lookup(b, "file", n) = NoBlock
    BY <1>5 DEF Lookup, Entries
  <2>2. \A d \in Blocks, n \in Names : Lookup(d, "file", n) # NoBlock => (Listed(d)' <=> Listed(d))
    BY <1>10, <2>1
  <2>. QED  BY <1>1, <1>8, <1>17, <2>2, SameFiles
<1>19. DiskInv'
  BY <1>11, <1>12, <1>14, <1>15 DEF DiskInv
<1>20. \A d \in Blocks : Listed(d) => Listed(d)'
  BY <1>2, <1>10 DEF Listed
<1>. QED  BY <1>2, <1>3, <1>5, <1>7, <1>8, <1>9, <1>18, <1>19, <1>20

\* nothing is open while a new object is made
LEMMA SpaceMeansClosed ==
    ASSUME FlashInv, step \in {"idle", "alloc"}, NEW b, SpaceFrom(b)
    PROVE  ~IsOpen
<1>. SUFFICES ASSUME IsOpen PROVE FALSE
  OBVIOUS
<1>1. Begun(current)
  BY DEF FlashInv, HandlesInv
<1>2. b \in Blocks \ {0} /\ Free(b)
  BY FreeAndErased DEF SpaceFrom
<1>. QED  BY <1>1, <1>2, BegunCovers

LEMMA MakeStores ==
    ASSUME FlashInv, FlashInv', StoreInv, step = "idle", NEW d \in Blocks,
           NEW type \in {"dir", "file"}, NEW nm \in Names, NEW what \in Jobs,
           type = "dir" <=> what.do = "mkdir", what.do = "alloc" => what.text = <<>>,
           Listed(d), Lookup(d, type, nm) = NoBlock, Make(d, type, nm, what)
    PROVE  StoreInv' /\ StoreStep
<1>1. PICK b : b = FindFree(1)
  OBVIOUS
<1>2. /\ b # NoBlock /\ Header(b, type, 1, nm)
      /\ entering' = <<d, b>> /\ step' = "enter" /\ job' = what
      /\ local' = IF type = "dir" THEN NoHandle
                  ELSE [NoHandle EXCEPT !.file = b, !.key = <<d, nm>>, !.typed = what.text]
      /\ UNCHANGED <<current, sector, stale, spilled>>
  BY <1>1 DEF Make
<1>3. kind[0] = "header" /\ SpaceErased /\ TypeOK
  BY DEF FlashInv, HandlesInv, Layout
<1>4. SpaceFrom(b)
  BY <1>1, <1>2, <1>3, FoundSpace
<1>5. ~IsOpen /\ ~IsOpen'
  BY <1>2, <1>4, SpaceMeansClosed DEF IsOpen
<1>6. kind'[0] = "header" /\ type \in Objects
  BY <1>2 DEF FlashInv, HandlesInv, Objects
<1>7. /\ DiskInv' /\ Files' = Files
      /\ b \in Blocks \ {0} /\ kind[b] = "erased" /\ link[b] = Blank /\ entries[b] = <<>> /\ NoEntry(b)
      /\ kind'[b] = type /\ label'[b] = nm /\ link' = link /\ entries' = entries
      /\ \A x : NoEntry(x)' <=> NoEntry(x)
      /\ \A c \in Blocks : Listed(c) => Listed(c)'
      /\ \A c \in Blocks : \A t, n : Lookup(c, t, n)' = Lookup(c, t, n)
      /\ \A f : Chain(f)' = Chain(f)
  BY <1>2, <1>3, <1>4, <1>6, NewObject
<1>8. EntriesErased'
  BY <1>2 DEF EntriesErased
<1>9. local'.block = NoBlock
  BY <1>2 DEF NoHandle
<1>10. entering'[1] = d /\ entering'[2] = b /\ Listed(d)' /\ NoEntry(b)' /\ entries'[b] = <<>>
  BY <1>2, <1>7
<1>11. ASSUME type = "file"
       PROVE  /\ local'.file = b /\ local'.key = <<d, nm>> /\ local'.typed = what.text
              /\ OpenedFile(local)' /\ Lookup(d, "file", nm)' = NoBlock
  <2>1. PICK g : g = local'
    OBVIOUS
  <2>2. g.file = b /\ g.head = NoBlock /\ g.key = <<d, nm>> /\ g.typed = what.text
    BY <1>2, <1>11, <2>1 DEF NoHandle
  <2>3. b \in Chain(b)
    <3>1. ChainAt(b, 0) = b /\ 0 \in Blocks
      BY ChainGoesOn, Sizings
    <3>. QED  BY <3>1 DEF Chain
  <2>4. From(g)' = b
    BY <2>2 DEF From
  <2>5. b \in Chain(b)'
    BY <1>7, <2>3
  <2>6. OpenedFile(g)'
    BY <1>7, <1>11, <2>2, <2>4, <2>5 DEF OpenedFile
  <2>7. OpenedFile(local)'
    BY <2>1, <2>6, HandlesThen
  <2>. QED  BY <1>7, <1>11, <2>1, <2>2, <2>7
<1>12. Enters'
  <2>1. type = "file" => entering' = <<local'.key[1], local'.file>>
    BY <1>2, <1>11
  <2>2. type = "file" => /\ label'[local'.file] = local'.key[2] /\ link'[local'.file] = Blank
                         /\ Lookup(local.key[1], "file", local.key[2])' = NoBlock
    <3>. SUFFICES ASSUME type = "file"
                  PROVE  /\ label'[local'.file] = local'.key[2] /\ link'[local'.file] = Blank
                         /\ Lookup(local.key[1], "file", local.key[2])' = NoBlock
      OBVIOUS
    <3>1. local'.file = b /\ local'.key[1] = d /\ local'.key[2] = nm
      BY <1>11
    <3>. QED  BY <1>7, <1>11, <3>1
  <2>3. Listed(entering[1])' /\ NoEntry(entering[2])' /\ entries'[entering'[2]] = <<>>
    BY <1>10
  <2>4. type = "dir" => kind'[entering'[2]] = "dir"
    BY <1>7, <1>10
  <2>. QED  BY <1>2, <1>5, <2>1, <2>2, <2>3, <2>4 DEF Enters
<1>13. WritersInv'
  <2>1. job'.do # "mkdir" => OpenedFile(local)' /\ local'.typed = job'.text
    BY <1>2, <1>11
  <2>. QED  BY <1>2, <1>5, <1>9, <1>12, <2>1 DEF WritersInv, StoreInv
<1>14. StoreStep
  <2>1. Pending["local"] = NoHandle /\ Pending'["local"] = NoHandle
    BY <1>9, PendingIs, PendingThen, CollectedIs DEF StoreInv, WritersInv
  <2>2. Pending'["current"] = Pending["current"]
    BY <1>2, PendingThen
  <2>. QED  BY <1>7, <2>1, <2>2, Lost
<1>. QED  BY <1>7, <1>8, <1>13, <1>14 DEF StoreInv

(***************************************************************************)
(* Writing a content.                                                      *)
(***************************************************************************)
LEMMA AllocateForStores ==
    ASSUME FlashInv, FlashInv', StoreInv, step = "alloc", NEW g, AllocateFor(g),
           step' \in {"append", "idle"}, step' = "append" => job' = job,
           step' = "idle" => job.do = "alloc"
    PROVE  /\ DiskInv' /\ Files' = Files /\ EntriesErased' /\ ~IsOpen
           /\ g.block # NoBlock /\ g.key = local.key /\ g.typed = local.typed /\ Writes(g)'
<1>1. PICK n \in Nat : n = PagesFor(HeaderSize + job.size) /\ n >= 1
  <2>1. job.size \in Nat
    BY DEF FlashInv, TypeOK
  <2>2. PICK m \in Nat : m = HeaderSize + job.size /\ m > 0
    BY <2>1, Sizings
  <2>. QED  BY <2>2, PagesForIs
<1>2. PICK b : /\ b = FindFree(n) /\ b # NoBlock /\ Header(b, "content", Blank, NoName)
              /\ g = [local EXCEPT !.block = b, !.pos = DataOffset]
  BY <1>1 DEF AllocateFor
<1>3. kind[0] = "header" /\ kind'[0] = "header" /\ SpaceErased /\ local \in Handles
  BY Types DEF FlashInv, HandlesInv, Layout, RamTypes
<1>4. SpaceFrom(b)
  BY <1>1, <1>2, <1>3, FoundSpace
<1>5. ~IsOpen
  BY <1>4, SpaceMeansClosed
<1>6. /\ DiskInv' /\ Files' = Files
      /\ b \in Blocks \ {0} /\ kind[b] = "erased" /\ link[b] = Blank
      /\ \A x \in Blocks : x # b => kind'[x] = kind[x]
      /\ link' = link /\ entries' = entries
      /\ \A x : NoEntry(x)' <=> NoEntry(x)
      /\ \A d \in Blocks : Listed(d) => Listed(d)'
      /\ \A d \in Blocks : \A t, nm : Lookup(d, t, nm)' = Lookup(d, t, nm)
      /\ \A f : Chain(f)' = Chain(f)
  BY <1>2, <1>3, <1>4, NewObject DEF Objects
<1>7. /\ g.file = local.file /\ g.head = local.head /\ g.key = local.key /\ g.typed = local.typed
      /\ g.block = b /\ g.pos = DataOffset
  BY <1>2, <1>3 DEF Handles
<1>8. job.do \in {"write", "alloc"} /\ job.text \in Seq(Byte)
  BY DEF FlashInv, HandlesInv
<1>9. OpenedFile(local) /\ Filed(local) /\ local.typed = job.text
  BY <1>8 DEF StoreInv, WritersInv
<1>10. OpenedFile(g)'
  <2>1. From(g)' = From(local)
    BY <1>7 DEF From
  <2>2. local.file \in Blocks /\ kind[local.file] = "file" /\ local.file # b
    BY <1>6, <1>9 DEF OpenedFile
  <2>. QED  BY <1>6, <1>7, <1>9, <2>1, <2>2 DEF OpenedFile
<1>11. Filed(g)'
  <2>1. local.key[1] \in Blocks
    BY <1>9 DEF OpenedFile
  <2>. QED  BY <1>6, <1>7, <1>9, <2>1 DEF Filed
<1>12. PICK txt : txt = job.text
  OBVIOUS
<1>13. Written(g, txt)'
  <2>1. g.pos - DataOffset = 0
    BY <1>7, Sizings
  <2>2. g.typed = txt /\ txt \in Seq(Byte)
    BY <1>7, <1>8, <1>9, <1>12
  <2>. SUFFICES /\ Len(g.typed) = 0 + Len(txt)
                /\ \A i \in 1 .. 0 : UnitAt(g.block, i)' = g.typed[i]
                /\ \A i \in 1 .. Len(txt) : g.typed[0 + i] = txt[i]
    BY <2>1 DEF Written
  <2>3. Len(txt) \in Nat
    BY <2>2
  <2>4. \A i \in 1 .. Len(txt) : 0 + i = i
    BY <2>3
  <2>. QED  BY <2>2, <2>3, <2>4
<1>14. Writes(g)'
  <2>1. step' = "append" => job'.text = txt
    BY <1>12
  <2>2. step' = "idle" => txt = <<>>
    BY <1>12 DEF StoreInv, WritersInv
  <2>3. Written(g, IF step = "append" THEN job.text ELSE <<>>)'
    BY <1>13, <2>1, <2>2 DEF Written
  <2>. QED  BY <1>6, <1>7, <1>10, <1>11, <2>3 DEF Writes
<1>15. EntriesErased'
  BY DEF EntriesErased
<1>. QED  BY <1>5, <1>6, <1>7, <1>14, <1>15, Sizings DEF NoBlock

LEMMA AllocateWriteStores ==
    ASSUME FlashInv, FlashInv', StoreInv, AllocateWrite
    PROVE  StoreInv' /\ StoreStep
<1>1. /\ step = "alloc" /\ job.do = "write"
      /\ UNCHANGED <<current, entering, sector, stale, spilled>>
  BY DEF AllocateWrite
<1>2. Pending["local"] = NoHandle /\ Pending'["current"] = Pending["current"]
  BY <1>1, PendingIs, PendingThen, CollectedIs DEF StoreInv, WritersInv
<1>3. CASE AllocateFor(local') /\ step' = "append" /\ UNCHANGED job
  <2>1. PICK g : g = local' /\ AllocateFor(g)
    BY <1>3
  <2>2. DiskInv' /\ Files' = Files /\ EntriesErased' /\ ~IsOpen /\ Writes(g)'
    BY <1>1, <1>3, <2>1, AllocateForStores
  <2>3. Writes(local)'
    BY <2>1, <2>2, HandlesThen
  <2>4. ~IsOpen'
    BY <1>1, <2>2 DEF IsOpen
  <2>5. WritersInv'
    BY <1>1, <1>3, <2>3, <2>4 DEF WritersInv, StoreInv
  <2>6. StoreStep
    BY <1>2, <2>2, CollectedMore
  <2>. QED  BY <2>2, <2>5, <2>6 DEF StoreInv
<1>4. CASE local' = NoHandle /\ step' = "idle" /\ job' = NoJob /\ UNCHANGED flash
  <2>1. DiskInv' /\ EntriesErased'
    BY <1>4, QuietDisk
  <2>2. ASSUME IsOpen' PROVE Writes(current)'
    <3>1. PICK c : c = current
      OBVIOUS
    <3>2. OpenedFile(c) /\ Filed(c) /\ link[c.block] = Blank /\ Written(c, <<>>)
      BY <1>1, <2>2, <3>1 DEF StoreInv, WritersInv, IsOpen, Writes
    <3>3. OpenedFile(c)' /\ Filed(c)' /\ Written(c, <<>>)' /\ link' = link
      BY <1>4, <3>2, QuietDisk
    <3>4. Writes(c)'
      BY <1>4, <3>2, <3>3 DEF Writes
    <3>. QED  BY <1>1, <3>1, <3>4, HandlesThen
  <2>3. WritersInv'
    BY <1>1, <1>4, <2>2, EmptyHanded DEF WritersInv, StoreInv
  <2>4. Pending'["local"] = NoHandle
    BY <1>4, PendingThen, EmptyHanded, CollectedIs
  <2>5. StoreStep
    BY <1>2, <1>4, <2>4, SameStore, Lost
  <2>. QED  BY <2>1, <2>3, <2>5 DEF StoreInv
<1>. QED  BY <1>3, <1>4 DEF AllocateWrite

LEMMA AllocateKeptStores ==
    ASSUME FlashInv, FlashInv', StoreInv, AllocateKept
    PROVE  StoreInv' /\ StoreStep
<1>1. /\ step = "alloc" /\ job.do = "alloc" /\ step' = "idle" /\ local' = NoHandle /\ job' = NoJob
      /\ UNCHANGED <<entering, sector, stale, spilled>>
  BY DEF AllocateKept
<1>2. Pending["local"] = NoHandle /\ Pending'["local"] = NoHandle
  BY <1>1, PendingIs, PendingThen, EmptyHanded, CollectedIs DEF StoreInv, WritersInv
<1>3. local'.block = NoBlock /\ local.block = NoBlock
  BY <1>1, EmptyHanded DEF StoreInv, WritersInv
<1>4. current.file = NoBlock => current.block = NoBlock /\ ~stale
  BY DEF FlashInv, HandlesInv, StoreInv, WritersInv
<1>5. CASE AllocateFor(current') /\ current.file = NoBlock
  <2>1. PICK g : g = current' /\ AllocateFor(g)
    BY <1>5
  <2>2. /\ DiskInv' /\ Files' = Files /\ EntriesErased' /\ ~IsOpen
        /\ g.block # NoBlock /\ g.key = local.key /\ g.typed = local.typed /\ Writes(g)'
    BY <1>1, <2>1, AllocateForStores
  <2>3. Writes(current)' /\ ~stale'
    BY <1>1, <1>4, <1>5, <2>1, <2>2, HandlesThen
  <2>4. WritersInv'
    BY <1>1, <1>3, <2>3 DEF WritersInv
  <2>5. Pending["current"] = NoHandle
    BY <1>4, <1>5, PendingIs, CollectedIs
  <2>6. StoreStep
    BY <1>2, <2>2, <2>5, CollectedMore
  <2>. QED  BY <2>2, <2>4, <2>6 DEF StoreInv
<1>6. CASE UNCHANGED flash /\ (current' = current \/ (current' = local /\ current.file = NoBlock))
  <2>1. DiskInv' /\ EntriesErased'
    BY <1>1, <1>6, QuietDisk
  <2>2. IsOpen' => IsOpen /\ current' = current
    BY <1>1, <1>3, <1>6 DEF IsOpen
  <2>3. ASSUME IsOpen' PROVE Writes(current)'
    <3>1. PICK c : c = current
      OBVIOUS
    <3>2. OpenedFile(c) /\ Filed(c) /\ link[c.block] = Blank /\ Written(c, <<>>)
      BY <1>1, <2>2, <2>3, <3>1 DEF StoreInv, WritersInv, Writes
    <3>3. OpenedFile(c)' /\ Filed(c)' /\ Written(c, <<>>)' /\ link' = link
      BY <1>1, <1>6, <3>2, QuietDisk
    <3>4. Writes(c)'
      BY <1>1, <3>2, <3>3 DEF Writes
    <3>. QED  BY <2>2, <2>3, <3>1, <3>4, HandlesThen
  <2>4. WritersInv'
    <3>1. stale' => current' = current
      BY <1>1, <1>4, <1>6
    <3>. QED  BY <1>1, <1>3, <2>3, <3>1 DEF WritersInv, StoreInv
  <2>5. Pending'["current"] = Pending["current"]
    BY <1>3, <1>4, <1>6, PendingIs, PendingThen, CollectedIs
  <2>6. StoreStep
    BY <1>2, <1>6, <2>5, SameStore, Lost
  <2>. QED  BY <2>1, <2>4, <2>6 DEF StoreInv
<1>. QED  BY <1>5, <1>6 DEF AllocateKept

\* What a page program leaves alone and what it adds.
LEMMA AppendReads ==
    ASSUME TypeOK, ObjectsApart, NEW h, Begun(h), h.pos \in Nat, PageAt(h) \in Blocks,
           NEW n \in Nat, n <= PageUnits - SlotAt(h), NEW text \in Seq(Byte), n <= Len(text),
           units' = Programmed(h, n, text), UNCHANGED <<kind, size, len, link>>
    PROVE  /\ \A c \in Blocks \ {0} : kind[c] = "content" /\ Done(c) => Data(c)' = Data(c)
           /\ \A i \in 1 .. h.pos - DataOffset : UnitAt(h.block, i)' = UnitAt(h.block, i)
           /\ \A k \in 1 .. n : UnitAt(h.block, h.pos - DataOffset + k)' = text[k]
<1>1. PICK q \in Nat, r \in Nat : /\ q = h.pos \div PageUnits /\ r = h.pos % PageUnits
                                  /\ r < PageUnits /\ h.pos = PageUnits * q + r
  BY Place
<1>2. /\ h.block \in Blocks \ {0} /\ h.block \in Nat /\ len[h.block] = Blank /\ h.pos >= DataOffset
      /\ PageAt(h) = h.block + q /\ SlotAt(h) = r
      /\ \A x \in Blocks : x \in Nat
      /\ \A x \in Blocks : x > h.block => kind[x] = "erased"
  <2>1. \A x \in Blocks : x > h.block => kind[x] = "erased"
    BY BegunAt
  <2>2. /\ h.block \in Blocks \ {0} /\ len[h.block] = Blank /\ h.pos >= DataOffset
        /\ PageAt(h) = h.block + q /\ SlotAt(h) = r
    BY <1>1 DEF Begun, PageAt, SlotAt
  <2>3. \A x \in Blocks : x \in Nat
    BY Sizings DEF Blocks
  <2>. QED  BY <2>1, <2>2, <2>3
<1>3. /\ \A x \in Blocks, s \in Slots :
            \/ Within(h, n, x, s) /\ units[x][s] = Blank /\ units'[x][s] \in Byte
            \/ ~Within(h, n, x, s) /\ units'[x][s] = units[x][s]
      /\ \A x \in Blocks : x # PageAt(h) => units'[x] = units[x]
  BY AppendUnits
<1>4. ASSUME NEW c \in Blocks \ {0}, kind[c] = "content", Done(c) PROVE Data(c)' = Data(c)
  <2>1. c < h.block
    <3>1. c # h.block
      BY <1>2, <1>4 DEF Done, Blank
    <3>2. ~(c > h.block)
      BY <1>2, <1>4
    <3>. QED  BY <1>2, <3>1, <3>2
  <2>2. ~Covered(h.block)
    BY <1>2 DEF ObjectsApart, Begun, Objects
  <2>3. ASSUME NEW i \in 1 .. len[c] PROVE UnitAt(c, i)' = UnitAt(c, i)
    <3>1. c + (DataOffset + i - 1) \div PageUnits < h.block
      BY <1>2, <1>4, <2>1, <2>2, DataInside
    <3>2. PICK p : p = c + (DataOffset + i - 1) \div PageUnits
      OBVIOUS
    <3>3. p \in Blocks => p # PageAt(h)
      BY <1>2, <3>1, <3>2
    <3>4. p \in Blocks => units'[p] = units[p]
      BY <1>3, <3>3
    <3>. QED  BY <3>2, <3>4 DEF UnitAt
  <2>. QED  BY <2>3, SameData
<1>5. ASSUME NEW i \in 1 .. h.pos - DataOffset PROVE UnitAt(h.block, i)' = UnitAt(h.block, i)
  <2>1. PICK at \in Nat : at = DataOffset + i - 1 /\ at < h.pos
    BY <1>2, Sizings
  <2>2. PICK a \in Nat, s \in Nat : /\ a = at \div PageUnits /\ s = at % PageUnits
                                    /\ s < PageUnits /\ at = PageUnits * a + s
    BY Place
  <2>3. ~Within(h, n, h.block + a, s)
    <3>. SUFFICES ASSUME h.block + a = h.block + q, s >= r PROVE FALSE
      BY <1>2 DEF Within
    <3>1. a = q
      BY <1>2
    <3>2. PICK z \in Nat : z = PageUnits * q
      BY Sizings
    <3>3. at = z + s /\ h.pos = z + r
      BY <1>1, <2>2, <3>1, <3>2
    <3>. QED  BY <2>1, <3>3
  <2>4. s \in Slots
    BY <2>2, Sizings DEF Slots
  <2>5. h.block + a \in Blocks => units'[h.block + a][s] = units[h.block + a][s]
    BY <1>3, <2>3, <2>4
  <2>. QED  BY <2>1, <2>2, <2>5 DEF UnitAt
<1>6. ASSUME NEW k \in 1 .. n PROVE UnitAt(h.block, h.pos - DataOffset + k)' = text[k]
  <2>1. PICK j \in Nat : j = k - 1 /\ j < n
    OBVIOUS
  <2>2. DataOffset + (h.pos - DataOffset + k) - 1 = h.pos + j
    BY <2>1, Sizings
  <2>3. (h.pos + j) \div PageUnits = q /\ (h.pos + j) % PageUnits = r + j
    <3>1. j < PageUnits - r
      BY <1>2, <2>1, Sizings
    <3>. QED  BY <1>1, <3>1, PlaceAfter
  <2>4. r + j \in Slots /\ r + j \in r .. r + n - 1 /\ r + j - r + 1 = k
    BY <1>2, <2>1, Sizings DEF Slots
  <2>5. PICK b : b = PageAt(h) /\ b \in Blocks /\ b = h.block + q
    BY <1>2
  <2>6. units[b][r + j] = Blank
    BY <1>2, <1>3, <2>4, <2>5 DEF Within
  <2>7. units'[b][r + j] = text[k]
    <3>1. units \in [Blocks -> [Slots -> Int]]
      BY DEF TypeOK
    <3>2. units' = [units EXCEPT ![b] = [s \in Slots |->
                       IF s \in r .. r + n - 1 THEN Over(@[s], text[s - r + 1]) ELSE @[s]]]
      BY <1>2, <2>5 DEF Programmed
    <3>3. units'[b] = [s \in Slots |->
                       IF s \in r .. r + n - 1 THEN Over(units[b][s], text[s - r + 1]) ELSE units[b][s]]
      BY <2>5, <3>1, <3>2
    <3>4. units'[b][r + j] = Over(units[b][r + j], text[r + j - r + 1])
      BY <2>4, <3>3
    <3>. QED  BY <2>4, <2>6, <3>4 DEF Over
  <2>. QED  BY <2>2, <2>3, <2>5, <2>7 DEF UnitAt
<1>. QED  BY <1>4, <1>5, <1>6

\* a step that programs bytes or sizes and leaves finished contents alone
LEMMA SameObjects ==
    ASSUME FlashInv, FlashInv', StoreInv, kind[0] = "header",
           UNCHANGED <<kind, link, label, entries>>,
           \A c \in Blocks \ {0} : kind[c] = "content" /\ Done(c) => Done(c)' /\ Data(c)' = Data(c)
    PROVE  /\ DiskInv' /\ Files' = Files
           /\ \A h : OpenedFile(h) => OpenedFile(h)'
           /\ \A h : OpenedFile(h) /\ Filed(h) => Filed(h)'
<1>1. /\ TypeOK /\ EntriesInv /\ LinksLead /\ LinksGood
      /\ EntriesLead /\ EnteredOnce /\ VersionsDone /\ LinkedOnce
  BY MountedIs
<1>2. /\ \A d \in Blocks : Listed(d)' <=> Listed(d)
      /\ \A d \in Blocks : \A type, nm : Lookup(d, type, nm)' = Lookup(d, type, nm)
      /\ \A b : NoEntry(b)' <=> NoEntry(b)
      /\ EntriesLead' /\ EnteredOnce'
  BY <1>1, SameDirectories
<1>3. \A a : IsLinked(a)' <=> IsLinked(a)
  BY DEF IsLinked
<1>4. VersionsDone'
  <2>. SUFFICES ASSUME NEW a \in Blocks, IsLinked(a) PROVE link'[a] > 0 /\ Done(a + link[a])'
    BY <1>3 DEF VersionsDone
  <2>1. link[a] > 0 /\ Done(a + link[a])
    BY <1>1 DEF VersionsDone
  <2>2. a + link[a] \in Blocks /\ kind[a + link[a]] = "content"
    BY <1>1 DEF LinksLead, IsLinked
  <2>3. PICK c : c = a + link[a] /\ a + link'[a] = c
    OBVIOUS
  <2>4. c # 0
    BY <2>2, <2>3
  <2>5. Done(c)'
    BY <2>1, <2>2, <2>3, <2>4
  <2>. QED  BY <2>1, <2>3, <2>5 DEF Done
<1>5. LinkedOnce'
  BY <1>1, <1>3 DEF LinkedOnce
<1>6. LinksGood'
  BY <1>4, <1>5 DEF LinksGood, FlashInv, Layout
<1>7. \A f \in Blocks : kind[f] = "file" => Versions(f)' = Versions(f)
  BY <1>1, <1>6, SameVersions
<1>8. Files' = Files
  BY <1>1, <1>2, <1>7, SameFiles
<1>9. \A f : Chain(f)' = Chain(f)
  BY SameChains
<1>10. \A h : OpenedFile(h) => OpenedFile(h)'
  <2>1. \A h : From(h)' = From(h)
    BY DEF From
  <2>. QED  BY <1>9, <2>1 DEF OpenedFile
<1>11. \A h : OpenedFile(h) /\ Filed(h) => Filed(h)'
  <2>1. \A h : OpenedFile(h) => h.key[1] \in Blocks
    BY DEF OpenedFile
  <2>. QED  BY <1>2, <2>1 DEF Filed
<1>12. DiskInv'
  BY <1>2, <1>4, <1>5 DEF DiskInv
<1>. QED  BY <1>8, <1>10, <1>11, <1>12

LEMMA AppendPageStores ==
    ASSUME FlashInv, FlashInv', StoreInv, ~spilled', AppendPage
    PROVE  StoreInv' /\ StoreStep
<1>1. PICK h : h = Writing
  OBVIOUS
<1>2. PICK n : n = IF Len(job.text) < PageUnits - SlotAt(h) THEN Len(job.text) ELSE PageUnits - SlotAt(h)
  OBVIOUS
<1>3. PICK text : text = job.text
  OBVIOUS
<1>4. step = "append" /\ UNCHANGED <<kind, size, len, link, label, entries, entering, sector, stale>>
  BY DEF AppendPage
<1>5. units' = Programmed(h, n, text) /\ PageAt(h) \in Blocks
  BY <1>1, <1>2, <1>3 DEF AppendPage, Programmed, PageAt, SlotAt
<1>6. Keep([h EXCEPT !.pos = @ + n])
  BY <1>1, <1>2 DEF AppendPage, SlotAt
<1>7. /\ job' = IF n < Len(text) \/ job.do = "write"
               THEN [job EXCEPT !.text = SubSeq(@, n + 1, Len(@))] ELSE NoJob
      /\ step' = IF n < Len(text) THEN "append"
                 ELSE IF job.do = "write" THEN "finish" ELSE "idle"
  BY <1>1, <1>2, <1>3 DEF AppendPage, SlotAt
<1>8. /\ TypeOK /\ ObjectsApart /\ kind[0] = "header"
      /\ h \in Handles /\ h.pos \in Nat /\ Begun(h)
      /\ job.do = "write" => ~IsOpen
      /\ job.do # "write" => IsOpen
      /\ text \in Seq(Byte) /\ job \in Jobs
  BY <1>1, <1>3, <1>4, WritingIs
<1>9. n \in Nat /\ n <= PageUnits - SlotAt(h) /\ n <= Len(text) /\ Len(text) \in Nat
  <2>1. PICK r \in Nat : r = SlotAt(h) /\ r < PageUnits
    BY <1>8, Place DEF SlotAt
  <2>2. Len(text) \in Nat
    BY <1>8
  <2>. QED  BY <1>2, <1>3, <2>1, <2>2, Sizings
<1>10. /\ \A c \in Blocks \ {0} : kind[c] = "content" /\ Done(c) => Data(c)' = Data(c)
       /\ \A i \in 1 .. h.pos - DataOffset : UnitAt(h.block, i)' = UnitAt(h.block, i)
       /\ \A k \in 1 .. n : UnitAt(h.block, h.pos - DataOffset + k)' = text[k]
  BY <1>4, <1>5, <1>8, <1>9, AppendReads
<1>11. /\ DiskInv' /\ Files' = Files
       /\ \A x : OpenedFile(x) => OpenedFile(x)'
       /\ \A x : OpenedFile(x) /\ Filed(x) => Filed(x)'
  <2>1. \A c : Done(c) => Done(c)'
    BY <1>4 DEF Done
  <2>. QED  BY <1>4, <1>8, <1>10, <2>1, SameObjects
<1>12. PICK g : g = [h EXCEPT !.pos = h.pos + n]
  OBVIOUS
<1>13. /\ g.file = h.file /\ g.head = h.head /\ g.block = h.block /\ g.pos = h.pos + n
       /\ g.key = h.key /\ g.typed = h.typed
  BY <1>8, <1>9, <1>12 DEF Handles
<1>14. IF job.do = "write" THEN local' = g /\ UNCHANGED current ELSE current' = g /\ UNCHANGED local
  BY <1>6, <1>12 DEF Keep
<1>15. OpenedFile(h) /\ Filed(h) /\ link[h.block] = Blank /\ Written(h, text)
  <2>1. Writes(h)
    BY <1>1, <1>4, <1>8 DEF StoreInv, WritersInv, Writing
  <2>. QED  BY <1>3, <1>4, <2>1 DEF Writes
<1>16. OpenedFile(g)' /\ Filed(g)'
  <2>1. From(g) = From(h)
    BY <1>13 DEF From
  <2>2. OpenedFile(g) /\ Filed(g)
    BY <1>13, <1>15, <2>1 DEF OpenedFile, Filed
  <2>. QED  BY <1>11, <2>2
<1>17. PICK rest : rest = SubSeq(text, n + 1, Len(text))
  OBVIOUS
<1>18. Len(rest) = Len(text) - n /\ \A i \in 1 .. Len(text) - n : rest[i] = text[n + i]
  BY <1>8, <1>9, <1>17
<1>19. Written(g, rest)'
  <2>1. PICK m \in Nat : m = h.pos - DataOffset
    BY <1>8, Sizings DEF Begun
  <2>2. /\ Len(h.typed) = m + Len(text)
        /\ \A i \in 1 .. m : UnitAt(h.block, i) = h.typed[i]
        /\ \A i \in 1 .. Len(text) : h.typed[m + i] = text[i]
    BY <1>15, <2>1 DEF Written
  <2>3. g.pos - DataOffset = m + n
    BY <1>8, <1>9, <1>13, <2>1, Sizings
  <2>4. Len(g.typed) = m + n + Len(rest)
    BY <1>9, <1>13, <1>18, <2>2
  <2>5. \A i \in 1 .. m + n : UnitAt(g.block, i)' = g.typed[i]
    <3>. SUFFICES ASSUME NEW i \in 1 .. m + n PROVE UnitAt(h.block, i)' = h.typed[i]
      BY <1>13
    <3>1. CASE i <= m
      <4>1. i \in 1 .. m
        BY <1>9, <3>1
      <4>. QED  BY <1>10, <2>1, <2>2, <4>1
    <3>2. CASE i > m
      <4>1. PICK k \in 1 .. n : k = i - m /\ i = m + k
        BY <1>9, <3>2
      <4>2. k \in 1 .. Len(text)
        BY <1>9
      <4>. QED  BY <1>10, <2>1, <2>2, <4>1, <4>2
    <3>. QED  BY <1>9, <3>1, <3>2
  <2>6. \A i \in 1 .. Len(rest) : g.typed[m + n + i] = rest[i]
    <3>. SUFFICES ASSUME NEW i \in 1 .. Len(text) - n PROVE h.typed[m + n + i] = text[n + i]
      BY <1>13, <1>18
    <3>1. n + i \in 1 .. Len(text) /\ m + (n + i) = m + n + i
      BY <1>9
    <3>. QED  BY <2>2, <3>1
  <2>. QED  BY <2>3, <2>4, <2>5, <2>6 DEF Written
<1>20. job.text = text /\ (n < Len(text) \/ job.do = "write" => job'.text = rest)
  BY <1>3, <1>7, <1>8, <1>17 DEF Jobs
<1>21. step' # "append" => rest = <<>>
  <2>. SUFFICES ASSUME step' # "append" PROVE rest = <<>>
    OBVIOUS
  <2>1. n = Len(text)
    BY <1>7, <1>9
  <2>. QED  BY <1>8, <1>9, <1>17, <2>1
<1>22. Writes(g)'
  <2>1. step' = "append" => job'.text = rest
    BY <1>7, <1>20
  <2>2. Written(g, IF step = "append" THEN job.text ELSE <<>>)'
    BY <1>19, <1>21, <2>1 DEF Written
  <2>. QED  BY <1>4, <1>7, <1>13, <1>15, <1>16, <2>2 DEF Writes
<1>23. WritersInv'
  <2>1. CASE job.do = "write"
    <3>1. ~IsOpen' /\ Writes(local)'
      BY <1>4, <1>8, <1>14, <1>22, <2>1, HandlesThen DEF IsOpen
    <3>2. job'.do = "write" /\ step' \in {"append", "finish"}
      BY <1>7, <1>8, <2>1 DEF Jobs
    <3>. QED  BY <1>4, <1>14, <2>1, <3>1, <3>2 DEF WritersInv, StoreInv
  <2>2. CASE job.do # "write"
    <3>1. Writes(current)' /\ ~stale'
      BY <1>4, <1>8, <1>14, <1>22, <2>2, HandlesThen DEF IsOpen
    <3>2. local'.block = NoBlock
      BY <1>14, <2>2 DEF StoreInv, WritersInv
    <3>3. job'.do # "write" /\ step' \in {"append", "idle"}
      BY <1>7, <1>8, <2>2, EmptyHanded DEF Jobs
    <3>. QED  BY <3>1, <3>2, <3>3 DEF WritersInv
  <2>. QED  BY <2>1, <2>2
<1>24. EntriesErased'
  BY <1>7 DEF EntriesErased
<1>25. StoreStep
  <2>1. Collected(g) = Collected(h)
    BY <1>13, CollectedIs
  <2>2. Pending' = Pending
    BY <1>1, <1>14, <2>1, PendingIs, PendingThen DEF Writing, Pending
  <2>. QED  BY <1>11, <2>2 DEF StoreStep
<1>. QED  BY <1>11, <1>23, <1>24, <1>25 DEF StoreInv

\* The size of a content is a 16-bit number, so longer ones are cut off: the
\* refinement is proved of contents that fit.
ShortContents == Len(current.typed) < LenMod /\ Len(local.typed) < LenMod

LEMMA FinishHeaderStores ==
    ASSUME FlashInv, FlashInv', StoreInv, ShortContents, FinishHeader
    PROVE  StoreInv' /\ StoreStep
<1>1. PICK h : h = Writing
  OBVIOUS
<1>2. /\ step = "finish" /\ step' = "link"
      /\ size' = [size EXCEPT ![h.block] = Over(@, PagesFor(h.pos))]
      /\ len' = [len EXCEPT ![h.block] = Over(@, (h.pos - DataOffset) % LenMod)]
      /\ UNCHANGED <<kind, link, label, entries, units, current, local, job, entering, sector, stale,
                     spilled>>
  BY <1>1 DEF FinishHeader
<1>3. /\ TypeOK /\ ObjectsApart /\ kind[0] = "header"
      /\ h \in Handles /\ h.pos \in Nat /\ h.block \in Blocks \ {0} /\ Begun(h)
      /\ job.do = "write" => ~IsOpen
      /\ job.do # "write" => IsOpen
  BY <1>1, <1>2, WritingIs
<1>4. size[h.block] = Blank /\ len[h.block] = Blank /\ h.pos >= DataOffset
  BY <1>3 DEF Begun
<1>5. OpenedFile(h) /\ Filed(h) /\ link[h.block] = Blank /\ Written(h, <<>>)
  <2>1. Writes(h)
    BY <1>1, <1>2, <1>3 DEF StoreInv, WritersInv, Writing
  <2>. QED  BY <1>2, <2>1 DEF Writes
<1>6. PICK m \in Nat : m = h.pos - DataOffset
  BY <1>3, <1>4, Sizings
<1>7. /\ Len(h.typed) = m /\ \A i \in 1 .. m : UnitAt(h.block, i) = h.typed[i]
      /\ h.typed \in Seq(Int)
  BY <1>3, <1>5, <1>6 DEF Written, Handles
<1>8. m < LenMod /\ m % LenMod = m
  <2>1. m < LenMod
    BY <1>1, <1>7 DEF ShortContents, Writing
  <2>2. m = LenMod * 0 + m
    BY Sizings
  <2>. QED  BY <2>1, <2>2, Sizings, Quotient
<1>9. PICK p \in Nat : p = PagesFor(h.pos) /\ p = PagesFor(DataOffset + m)
  <2>1. h.pos = DataOffset + m
    BY <1>3, <1>6, Sizings
  <2>. QED  BY <1>3, <2>1, PagesForIs
<1>10. /\ \A c \in Blocks : size'[c] = IF c = h.block THEN p ELSE size[c]
       /\ \A c \in Blocks : len'[c] = IF c = h.block THEN m ELSE len[c]
  BY <1>2, <1>3, <1>4, <1>6, <1>8, <1>9 DEF Over, TypeOK
<1>11. \A c, i : UnitAt(c, i)' = UnitAt(c, i)
  BY <1>2 DEF UnitAt
<1>12. ~Done(h.block)
  BY <1>4 DEF Done, Blank
<1>13. \A c \in Blocks : Done(c) => Done(c)' /\ Data(c)' = Data(c)
  <2>. SUFFICES ASSUME NEW c \in Blocks, Done(c) PROVE Done(c)' /\ Data(c)' = Data(c)
    OBVIOUS
  <2>1. size'[c] = size[c] /\ len'[c] = len[c]
    BY <1>10, <1>12
  <2>. QED  BY <1>11, <2>1, SameData DEF Done
<1>14. /\ DiskInv' /\ Files' = Files
       /\ \A x : OpenedFile(x) => OpenedFile(x)'
       /\ \A x : OpenedFile(x) /\ Filed(x) => Filed(x)'
  BY <1>2, <1>3, <1>13, SameObjects
<1>15. Finished(h)'
  <2>1. Done(h.block)'
    BY <1>3, <1>9, <1>10 DEF Done
  <2>2. NoLink(h.block)'
    <3>1. VersionsDone
      BY <1>3, MountedIs
    <3>2. \A a \in Blocks : IsLinked(a)' => IsLinked(a) /\ link'[a] = link[a]
      BY <1>2 DEF IsLinked
    <3>. QED  BY <1>12, <3>1, <3>2 DEF NoLink, VersionsDone
  <2>3. Data(h.block)' = [i \in 1 .. m |-> h.typed[i]]
    <3>1. Data(h.block)' = [i \in 1 .. len'[h.block] |-> UnitAt(h.block, i)']
      BY DataIsThen
    <3>2. len'[h.block] = m
      BY <1>3, <1>10
    <3>3. \A i \in 1 .. m : UnitAt(h.block, i)' = h.typed[i]
      BY <1>7, <1>11
    <3>. QED  BY <3>1, <3>2, <3>3
  <2>4. h.typed = [i \in 1 .. m |-> h.typed[i]]
    BY <1>7
  <2>. QED  BY <2>1, <2>2, <2>3, <2>4 DEF Finished
<1>16. Writes(h)'
  BY <1>2, <1>5, <1>14, <1>15 DEF Writes
<1>17. WritersInv'
  <2>1. CASE job.do = "write"
    <3>1. ~IsOpen' /\ Writes(local)'
      BY <1>1, <1>2, <1>3, <1>16, <2>1, HandlesThen DEF IsOpen, Writing
    <3>. QED  BY <1>2, <2>1, <3>1 DEF WritersInv, StoreInv
  <2>2. CASE job.do # "write"
    <3>1. Writes(current)' /\ ~stale'
      BY <1>1, <1>2, <1>3, <1>16, <2>2, HandlesThen DEF IsOpen, Writing
    <3>2. local'.block = NoBlock
      BY <1>2, <2>2 DEF StoreInv, WritersInv
    <3>. QED  BY <1>2, <2>2, <3>1, <3>2 DEF WritersInv
  <2>. QED  BY <2>1, <2>2
<1>18. EntriesErased'
  BY <1>2 DEF EntriesErased
<1>19. StoreStep
  <2>1. Pending' = Pending
    BY <1>2, PendingThen DEF Collected
  <2>. QED  BY <1>14, <2>1 DEF StoreStep
<1>. QED  BY <1>14, <1>17, <1>18, <1>19 DEF StoreInv

(***************************************************************************)
(* The link: the content becomes the newest version of its file.           *)
(***************************************************************************)

\* two names do not lead to one file
LEMMA LookupOnce ==
    ASSUME TypeOK, EnteredOnce, NEW d \in Blocks, NEW e \in Blocks, NEW type, NEW nm, NEW no,
           Lookup(d, type, nm) # NoBlock, Lookup(d, type, nm) = Lookup(e, type, no)
    PROVE  d = e /\ nm = no
<1>1. PICK i \in Entries(d, type, nm) : Lookup(d, type, nm) = To(d, i)
  BY LookupIs
<1>2. PICK j \in Entries(e, type, no) : Lookup(e, type, no) = To(e, j)
  BY LookupIs
<1>3. i \in DOMAIN entries[d] /\ label[To(d, i)] = nm /\ j \in DOMAIN entries[e] /\ label[To(e, j)] = no
  BY DEF Entries, To
<1>4. d = e
  BY <1>1, <1>2, <1>3 DEF EnteredOnce
<1>. QED  BY <1>1, <1>2, <1>3, <1>4

LEMMA LookupEnters ==
    ASSUME TypeOK, NEW d \in Blocks, NEW type, NEW nm, Lookup(d, type, nm) # NoBlock
    PROVE  ~NoEntry(Lookup(d, type, nm))
<1>1. PICK i \in Entries(d, type, nm) : Lookup(d, type, nm) = To(d, i)
  BY LookupIs
<1>2. i \in DOMAIN entries[d]
  BY DEF Entries
<1>. QED  BY <1>1, <1>2 DEF NoEntry

LEMMA VersionsGrow ==
    ASSUME LinksGood, LinksGood', NEW f \in Blocks, kind[f] = "file", kind'[f] = "file",
           NEW x \in Chain(f), link[x] = Blank, NEW c \in Blocks, x < c, link[c] = Blank,
           link' = [link EXCEPT ![x] = c - x], \A b : Data(b)' = Data(b)
    PROVE  Versions(f)' = Append(Versions(f), Data(c))
<1>1. PICK m : EndsAt(f, m)
  BY ChainEnds
<1>2. /\ m \in Nat
      /\ \A n \in Nat : n >= m => ChainAt(f, n) = ChainAt(f, m)
      /\ \A j \in Nat : j < m => link[ChainAt(f, j)] # Blank
      /\ \A n \in Nat : ChainAt(f, n) \in Blocks
  BY <1>1, EndIs, ChainIn DEF EndsAt
<1>3. ChainAt(f, m) = x
  <2>1. PICK n \in Blocks : x = ChainAt(f, n)
    BY DEF Chain
  <2>2. n \in Nat /\ ~(n < m)
    BY <1>2, <2>1, Sizings DEF Blocks
  <2>. QED  BY <1>2, <2>1, <2>2
<1>4. x \in Blocks /\ x \in Nat /\ c \in Nat /\ c - x # Blank /\ x + (c - x) = c /\ c # x
  BY <1>2, <1>3, Sizings DEF Blocks, Blank
<1>5. \A b \in Blocks : link'[b] = IF b = x THEN c - x ELSE link[b]
  BY DEF LinksGood, TypeOK
<1>6. \A j \in Nat : j < m => ChainAt(f, j) # x
  BY <1>2
<1>7. \A j \in Nat : j < m => Newer'[ChainAt(f, j)] = Newer[ChainAt(f, j)]
  BY <1>2, <1>5, <1>6 DEF Newer
<1>8. \A n \in Nat : n <= m => ChainAt(f, n)' = ChainAt(f, n)
  BY <1>2, <1>7, SameChain
<1>9. ChainAt(f, m + 1)' = c
  <2>1. ChainAt(f, m)' = x
    BY <1>2, <1>3, <1>8
  <2>2. ChainAt(f, m + 1)' = Newer'[ChainAt(f, m)']
    BY <1>2, ChainGoesOnThen
  <2>3. Newer'[x] = x + (c - x)
    BY <1>4, <1>5 DEF Newer
  <2>. QED  BY <1>4, <2>1, <2>2, <2>3
<1>10. EndsAt(f, m + 1)'
  <2>1. m + 1 \in Nat /\ link'[ChainAt(f, m + 1)'] = Blank
    BY <1>2, <1>4, <1>5, <1>9
  <2>2. ASSUME NEW j \in Nat, j < m + 1 PROVE link'[ChainAt(f, j)'] # Blank
    <3>1. ChainAt(f, j)' = ChainAt(f, j)
      BY <1>2, <1>8, <2>2
    <3>2. j = m \/ j < m
      BY <1>2, <2>2
    <3>. QED  BY <1>2, <1>3, <1>4, <1>5, <1>6, <3>1, <3>2
  <2>. QED  BY <2>1, <2>2 DEF EndsAt
<1>. DEFINE old == Versions(f)
            all == [v \in 1 .. m + 1 |-> Data(ChainAt(f, v))']
            S == {Data(ChainAt(f, v)) : v \in 1 .. m} \cup {Data(c)}
<1>11. old = [v \in 1 .. m |-> Data(ChainAt(f, v))]
  BY <1>1, VersionsFact
<1>12. Versions(f)' = all
  BY <1>10, VersionsAreThen
<1>13. old \in Seq(S) /\ Len(old) = m
  BY <1>2, <1>11
<1>14. \A v \in 1 .. m : all[v] = old[v]
  <2>. SUFFICES ASSUME NEW v \in 1 .. m PROVE Data(ChainAt(f, v))' = Data(ChainAt(f, v))
    BY <1>2, <1>11
  <2>1. PICK b : b = ChainAt(f, v)
    OBVIOUS
  <2>2. ChainAt(f, v)' = b
    BY <1>2, <1>8, <2>1
  <2>3. Data(ChainAt(f, v))' = Data(b)'
    BY <2>2
  <2>. QED  BY <2>1, <2>3
<1>15. all[m + 1] = Data(c)
  <2>1. Data(ChainAt(f, m + 1))' = Data(c)'
    BY <1>9
  <2>. QED  BY <1>2, <2>1
<1>16. all = [v \in 1 .. m + 1 |-> all[v]] /\ Data(c) \in S
  OBVIOUS
<1>. HIDE DEF old, all, S
<1>17. /\ Append(old, Data(c)) \in Seq(S) /\ Len(Append(old, Data(c))) = m + 1
       /\ \A v \in 1 .. m : Append(old, Data(c))[v] = old[v]
       /\ Append(old, Data(c))[m + 1] = Data(c)
  BY <1>13, <1>16, AppendProperties
<1>18. \A v \in 1 .. m + 1 : all[v] = Append(old, Data(c))[v] /\ all[v] \in S
  <2>1. \A v \in 1 .. m : old[v] \in S
    BY <1>2, <1>13
  <2>2. \A v \in 1 .. m + 1 : v \in 1 .. m \/ v = m + 1
    BY <1>2
  <2>. QED  BY <1>14, <1>15, <1>16, <1>17, <2>1, <2>2
<1>19. all \in Seq(S) /\ Len(all) = m + 1
  BY <1>2, <1>16, <1>18
<1>20. all = Append(old, Data(c))
  BY <1>17, <1>18, <1>19, SeqEqual
<1>. QED  BY <1>12, <1>20 DEF old

LEMMA LinkStores ==
    ASSUME FlashInv, FlashInv', StoreInv, Link
    PROVE  StoreInv' /\ StoreStep
<1>1. PICK h : h = Writing
  OBVIOUS
<1>2. PICK x : x = From(h)
  OBVIOUS
<1>3. PICK c : c = h.block
  OBVIOUS
<1>4. /\ step = "link" /\ step' = "idle" /\ job' = NoJob
      /\ link' = [link EXCEPT ![x] = Over(@, c - x)]
      /\ Keep(NoHandle)
      /\ UNCHANGED <<kind, size, len, label, entries, units, entering, sector, stale, spilled>>
  BY <1>1, <1>2, <1>3 DEF Link, From
<1>5. /\ TypeOK /\ EntriesInv /\ kind[0] = "header" /\ Complete(h)
      /\ job.do = "write" => ~IsOpen
      /\ job.do # "write" => IsOpen
      /\ h \in Handles /\ c \in Blocks \ {0}
  BY <1>1, <1>3, <1>4, WritingIs
<1>6. /\ LinksLead /\ LinksGood /\ EntriesLead /\ EnteredOnce /\ VersionsDone /\ LinkedOnce
  BY <1>5, MountedIs
<1>7. /\ x \in Blocks /\ kind[x] \in Linked /\ link[x] = Blank /\ x < c /\ kind[c] = "content"
  BY <1>2, <1>3, <1>5 DEF Complete, FromReady
<1>8. x \in Nat /\ c \in Nat /\ c - x \in Nat /\ c - x > 0 /\ x + (c - x) = c /\ x # c /\ c - x # Blank
  BY <1>5, <1>7, Sizings DEF Blocks, Blank
<1>9. link' = [link EXCEPT ![x] = c - x] /\ \A b \in Blocks : link'[b] = IF b = x THEN c - x ELSE link[b]
  BY <1>4, <1>5, <1>7 DEF Over, TypeOK
<1>10. /\ OpenedFile(h) /\ Filed(h) /\ link[c] = Blank /\ Done(c) /\ NoLink(c) /\ Data(c) = h.typed
  <2>1. Writes(h)
    BY <1>1, <1>4, <1>5 DEF StoreInv, WritersInv, Writing
  <2>. QED  BY <1>3, <1>4, <2>1 DEF Writes, Finished
<1>11. PICK f : f = h.file /\ f \in Blocks /\ kind[f] = "file" /\ x \in Chain(f)
  BY <1>2, <1>10 DEF OpenedFile
<1>12. /\ \A d \in Blocks : Listed(d)' <=> Listed(d)
       /\ \A d \in Blocks : \A type, nm : Lookup(d, type, nm)' = Lookup(d, type, nm)
       /\ EntriesLead' /\ EnteredOnce'
  BY <1>4, <1>5, <1>6, SameDirectories
<1>13. \A b : (Done(b)' <=> Done(b)) /\ Data(b)' = Data(b)
  <2>1. \A b, i : UnitAt(b, i)' = UnitAt(b, i)
    BY <1>4 DEF UnitAt
  <2>. QED  BY <1>4, <2>1, SameData DEF Done
<1>14. \A a \in Blocks : IsLinked(a)' => a = x \/ (IsLinked(a) /\ a # x)
  BY <1>4, <1>7, <1>9 DEF IsLinked
<1>15. VersionsDone'
  <2>. SUFFICES ASSUME NEW a \in Blocks, IsLinked(a)' PROVE link'[a] > 0 /\ Done(a + link[a])'
    BY DEF VersionsDone
  <2>1. CASE a = x
    <3>1. a + link'[a] = c /\ link'[a] > 0 /\ Done(c)'
      BY <1>8, <1>9, <1>10, <1>13, <2>1
    <3>. QED  BY <3>1 DEF Done
  <2>2. CASE a # x
    <3>1. IsLinked(a) /\ link'[a] = link[a]
      BY <1>9, <1>14, <2>2
    <3>2. PICK b : b = a + link[a]
      OBVIOUS
    <3>3. link[a] > 0 /\ Done(b)'
      BY <1>6, <1>13, <3>1, <3>2 DEF VersionsDone
    <3>. QED  BY <3>1, <3>2, <3>3 DEF Done
  <2>. QED  BY <2>1, <2>2
<1>16. LinkedOnce'
  <2>. SUFFICES ASSUME NEW a \in Blocks, NEW b \in Blocks, IsLinked(a)', IsLinked(b)',
                       a + link'[a] = b + link'[b]
                PROVE  a = b
    BY DEF LinkedOnce
  <2>1. \A y \in Blocks : IsLinked(y) => y + link[y] # c
    BY <1>10 DEF NoLink
  <2>2. \A y \in Blocks : IsLinked(y)' /\ y # x => IsLinked(y) /\ link'[y] = link[y]
    BY <1>9, <1>14
  <2>3. x + link'[x] = c
    BY <1>7, <1>8, <1>9
  <2>. QED  BY <1>6, <2>1, <2>2, <2>3 DEF LinkedOnce
<1>17. LinksGood' /\ DiskInv'
  BY <1>4, <1>5, <1>12, <1>15, <1>16 DEF LinksGood, FlashInv, Layout, DiskInv
<1>18. Versions(f)' = Append(Versions(f), h.typed)
  <2>1. LinksGood /\ LinksGood' /\ kind[f] = "file" /\ kind'[f] = "file"
    BY <1>4, <1>6, <1>11, <1>17
  <2>2. x \in Chain(f) /\ link[x] = Blank /\ c \in Blocks /\ x < c /\ link[c] = Blank
    BY <1>5, <1>7, <1>10, <1>11
  <2>3. Versions(f)' = Append(Versions(f), Data(c))
    BY <1>9, <1>11, <1>13, <2>1, <2>2, VersionsGrow
  <2>. QED  BY <1>10, <2>3
<1>19. \A e \in Blocks : kind[e] = "file" /\ e # f => Versions(e)' = Versions(e)
  <2>. SUFFICES ASSUME NEW e \in Blocks, kind[e] = "file", e # f PROVE Versions(e)' = Versions(e)
    OBVIOUS
  <2>1. PICK k \in Blocks : x = ChainAt(f, k)
    BY <1>11 DEF Chain
  <2>2. k \in Nat
    BY Sizings DEF Blocks
  <2>3. \A n \in Nat : ChainAt(e, n) # x /\ ChainAt(e, n) \in Blocks
    BY <1>6, <1>11, <2>1, <2>2, ChainsApart, ChainIn
  <2>4. \A n \in Nat : link'[ChainAt(e, n)] = link[ChainAt(e, n)]
    BY <1>9, <2>3
  <2>. QED  BY <1>4, <1>6, <1>13, <1>17, <2>4, SameVersions
<1>20. Keys' = Keys /\ \A k \in Keys : /\ k[1] \in Blocks /\ k[2] \in Names /\ Found(k)' = Found(k)
                                      /\ Found(k) \in Blocks /\ kind[Found(k)] = "file"
                                      /\ Found(k) # NoBlock
  <2>1. Keys' = Keys
    BY <1>12 DEF Keys
  <2>2. \A k \in Keys : k[1] \in Blocks /\ k[2] \in Names /\ Lookup(k[1], "file", k[2]) # NoBlock
    BY DEF Keys
  <2>3. \A k \in Keys : Found(k)' = Found(k)
    BY <1>12, <2>2 DEF Found
  <2>4. \A k \in Keys : Found(k) \in Blocks /\ kind[Found(k)] = "file" /\ Found(k) # NoBlock
    BY <1>5, <2>2, LookupFinds DEF Found
  <2>. QED  BY <2>1, <2>2, <2>3, <2>4
<1>21. PICK w \in {"local", "current"} : w = IF job.do = "write" THEN "local" ELSE "current"
  OBVIOUS
<1>22. /\ Pending[w] = [key |-> h.key, text |-> h.typed]
       /\ Pending' = [Pending EXCEPT ![w] = NoHandle]
  <2>1. h.key \in Blocks \X Names /\ h.block # NoBlock
    BY <1>3, <1>5, <1>10 DEF OpenedFile, NoBlock
  <2>2. Pending[w] = Collected(h)
    BY <1>1, <1>21, PendingIs DEF Writing
  <2>3. /\ Pending'[w] = NoHandle
        /\ \A v \in {"local", "current"} : v # w => Pending'[v] = Pending[v]
    BY <1>4, <1>21, PendingThen, EmptyHanded, CollectedIs DEF Keep
  <2>4. Pending' = [Pending EXCEPT ![w] = NoHandle]
    BY <2>3, PendingIs
  <2>. QED  BY <2>1, <2>2, <2>4, CollectedIs
<1>23. StoreStep
  <2>1. CASE Listed(h.key[1]) /\ Lookup(h.key[1], "file", h.key[2]) = h.file
    <3>1. PICK k : k = h.key
      OBVIOUS
    <3>2. k \in Blocks \X Names /\ k \in Keys /\ Found(k) = f
      <4>1. k \in Blocks \X Names
        BY <1>10, <3>1 DEF OpenedFile
      <4>2. f # NoBlock
        BY <1>5, <1>11 DEF NoBlock
      <4>. QED  BY <1>11, <2>1, <3>1, <4>1, <4>2 DEF Keys, Found
    <3>3. \A j \in Keys : j # k => Found(j) # f
      <4>. SUFFICES ASSUME NEW j \in Keys, Found(j) = f PROVE j = k
        OBVIOUS
      <4>1. j \in Blocks \X Names
        BY DEF Keys
      <4>2. j[1] = k[1] /\ j[2] = k[2]
        BY <1>5, <1>6, <1>20, <3>2, <4>1, LookupOnce DEF Found
      <4>. QED  BY <3>2, <4>1, <4>2
    <3>4. /\ DOMAIN Files = Keys /\ Files = [j \in Keys |-> Files[j]]
          /\ \A j \in Keys : Files[j] = Versions(Found(j))
      BY DEF Files
    <3>5. /\ Files' = [j \in Keys |-> Files'[j]]
          /\ \A j \in Keys : Files'[j] = Versions(Found(j))'
      BY <1>20 DEF Files
    <3>6. Files'[k] = Append(Files[k], h.typed)
      <4>1. Found(k)' = f
        BY <1>20, <3>2
      <4>2. Versions(Found(k))' = Versions(f)'
        BY <4>1
      <4>. QED  BY <1>18, <3>2, <3>4, <3>5, <4>2
    <3>7. \A j \in Keys : j # k => Files'[j] = Files[j]
      <4>. SUFFICES ASSUME NEW j \in Keys, j # k PROVE Versions(Found(j))' = Versions(Found(j))
        BY <3>4, <3>5
      <4>1. PICK e : e = Found(j)
        OBVIOUS
      <4>2. Found(j)' = e /\ e \in Blocks /\ kind[e] = "file" /\ e # f
        BY <1>20, <3>3, <4>1
      <4>3. Versions(Found(j))' = Versions(e)'
        BY <4>2
      <4>. QED  BY <1>19, <4>1, <4>2, <4>3
    <3>8. Files' = [Files EXCEPT ![k] = Append(@, h.typed)]
      BY <3>2, <3>4, <3>5, <3>6, <3>7
    <3>9. Pending[w].key = k /\ Pending[w].text = h.typed /\ Pending[w] # NoHandle
      BY <1>22, <3>1, RecordApart
    <3>. QED  BY <1>22, <3>2, <3>4, <3>8, <3>9, Committed
  <2>2. CASE NoEntry(h.file)
    <3>1. \A k \in Keys : Found(k) # f
      BY <1>5, <1>11, <1>20, <2>2, LookupEnters DEF Found
    <3>2. ASSUME NEW k \in Keys PROVE Versions(Found(k))' = Versions(Found(k))
      <4>1. PICK e : e = Found(k)
        OBVIOUS
      <4>2. Found(k)' = e /\ e \in Blocks /\ kind[e] = "file" /\ e # f
        BY <1>20, <3>1, <4>1
      <4>3. Versions(Found(k))' = Versions(e)'
        BY <4>2
      <4>. QED  BY <1>19, <4>1, <4>2, <4>3
    <3>3. Files' = Files
      BY <1>20, <3>2 DEF Files
    <3>4. \A v \in {"local", "current"} : Pending'[v] \in {NoHandle, Pending[v]}
      BY <1>22, PendingIs
    <3>. QED  BY <3>3, <3>4, Lost
  <2>. QED  BY <1>10, <2>1, <2>2 DEF Filed
<1>24. WritersInv'
  <2>1. ~IsOpen'
    BY <1>4, <1>5, EmptyHanded DEF IsOpen, Keep
  <2>2. local'.block = NoBlock
    BY <1>4, EmptyHanded DEF Keep, StoreInv, WritersInv
  <2>3. stale' => stale /\ current' = current
    BY <1>4, <1>5 DEF Keep, IsOpen
  <2>. QED  BY <1>4, <2>1, <2>2, <2>3 DEF WritersInv, StoreInv
<1>25. EntriesErased'
  BY <1>4 DEF EntriesErased
<1>. QED  BY <1>17, <1>23, <1>24, <1>25 DEF StoreInv

(***************************************************************************)
(* The directory entry: a file comes into being.                           *)
(***************************************************************************)
LEMMA EntryFields ==
    ASSUME TypeOK, NEW d \in Blocks, NEW e \in [type : Objects, offset : Int],
           entries' = [entries EXCEPT ![d] = Append(@, e)]
    PROVE  \E n \in Nat :
              /\ DOMAIN entries[d] = 1 .. n /\ DOMAIN entries'[d] = 1 .. n + 1
              /\ \A i \in 1 .. n : entries'[d][i] = entries[d][i]
              /\ entries'[d][n + 1] = e
              /\ \A x \in Blocks : x # d => entries'[x] = entries[x]
<1>. DEFINE S == [type : Objects, offset : Int]
<1>1. entries \in [Blocks -> Seq(S)]
  BY DEF TypeOK
<1>. HIDE DEF S
<1>2. PICK s \in Seq(S) : s = entries[d]
  BY <1>1
<1>3. entries'[d] = Append(s, e) /\ \A x \in Blocks : x # d => entries'[x] = entries[x]
  BY <1>1, <1>2
<1>4. e \in S
  BY DEF S
<1>5. /\ Append(s, e) \in Seq(S) /\ Len(Append(s, e)) = Len(s) + 1
      /\ \A i \in 1 .. Len(s) : Append(s, e)[i] = s[i]
      /\ Append(s, e)[Len(s) + 1] = e
  BY <1>4, AppendProperties
<1>6. PICK n \in Nat : n = Len(s)
  BY <1>2
<1>7. DOMAIN s = 1 .. n /\ DOMAIN Append(s, e) = 1 .. n + 1
  BY <1>5, <1>6
<1>. QED  BY <1>2, <1>3, <1>5, <1>6, <1>7

LEMMA EntryReads ==
    ASSUME FlashInv, FlashInv', StoreInv, kind[0] = "header", NEW d \in Blocks, NEW b \in Blocks,
           kind[d] = "dir", kind[b] \in {"dir", "file"}, NoEntry(b), entries[b] = <<>>,
           UNCHANGED <<kind, size, len, link, label, units>>,
           entries' = [entries EXCEPT ![d] = Append(@, [type |-> kind[b], offset |-> b - d])]
    PROVE  /\ DiskInv'
           /\ \A x \in Blocks : x # b \/ kind[b] = "file" => (Listed(x)' <=> Listed(x))
           /\ \A x \in Blocks : \A nm : (x = d /\ kind[b] = "file" /\ label[b] = nm)
                                        \/ Lookup(x, "file", nm)' = Lookup(x, "file", nm)
           /\ kind[b] = "file" /\ Lookup(d, "file", label[b]) = NoBlock
                 => Lookup(d, "file", label[b])' = b
           /\ \A f \in Blocks : kind[f] = "file" => Versions(f)' = Versions(f)
           /\ \A f : Chain(f)' = Chain(f)
<1>1. /\ TypeOK /\ EntriesInv /\ LinksLead /\ LinksGood
      /\ EntriesLead /\ EnteredOnce /\ VersionsDone /\ LinkedOnce
  BY MountedIs
<1>2. TypeOK'
  BY DEF FlashInv
<1>3. b \in Nat /\ d \in Nat /\ d + (b - d) = b /\ b - d \in Int
  BY Sizings DEF Blocks
<1>4. PICK n \in Nat :
         /\ DOMAIN entries[d] = 1 .. n /\ DOMAIN entries'[d] = 1 .. n + 1
         /\ \A i \in 1 .. n : entries'[d][i] = entries[d][i]
         /\ entries'[d][n + 1] = [type |-> kind[b], offset |-> b - d]
         /\ \A x \in Blocks : x # d => entries'[x] = entries[x]
  <2>1. kind[b] \in Objects
    BY DEF Objects
  <2>2. [type |-> kind[b], offset |-> b - d] \in [type : Objects, offset : Int]
    BY <1>3, <2>1
  <2>. QED  BY <1>1, <2>2, EntryFields
<1>5. /\ \A x \in Blocks : \A i \in DOMAIN entries'[x] :
            (x = d /\ i = n + 1) \/ i \in DOMAIN entries[x]
      /\ \A x \in Blocks : \A i \in DOMAIN entries[x] :
            i \in DOMAIN entries'[x] /\ entries'[x][i] = entries[x][i] /\ ~(x = d /\ i = n + 1)
      /\ n + 1 \in DOMAIN entries'[d] /\ entries'[d][n + 1].type = kind[b]
  BY <1>4
<1>6. /\ \A x \in Blocks : \A i \in DOMAIN entries[x] : To(x, i)' = To(x, i)
      /\ To(d, n + 1)' = b
  BY <1>3, <1>4, <1>5 DEF To
<1>7. EntriesLead'
  <2>. SUFFICES ASSUME NEW x \in Blocks
                PROVE  /\ entries'[x] # <<>> => kind'[x] = "dir"
                       /\ \A i \in DOMAIN entries'[x] :
                             entries'[x][i].type \in {"dir", "file"} /\ kind'[To(x, i)'] = entries'[x][i].type
    BY DEF EntriesLead
  <2>1. entries'[x] # <<>> => kind'[x] = "dir"
    BY <1>1, <1>4 DEF EntriesLead
  <2>2. ASSUME NEW i \in DOMAIN entries'[x]
        PROVE  entries'[x][i].type \in {"dir", "file"} /\ kind'[To(x, i)'] = entries'[x][i].type
    <3>1. CASE x = d /\ i = n + 1
      BY <1>5, <1>6, <3>1
    <3>2. CASE i \in DOMAIN entries[x]
      BY <1>1, <1>5, <1>6, <3>2 DEF EntriesLead
    <3>. QED  BY <1>5, <3>1, <3>2
  <2>. QED  BY <2>1, <2>2
<1>8. EnteredOnce'
  <2>. SUFFICES ASSUME NEW x \in Blocks, NEW y \in Blocks, NEW i \in DOMAIN entries'[x],
                       NEW j \in DOMAIN entries'[y], To(x, i)' = To(y, j)'
                PROVE  x = y /\ i = j
    BY DEF EnteredOnce
  <2>1. \A z \in Blocks : \A k \in DOMAIN entries[z] : To(z, k)' # b
    BY <1>6 DEF NoEntry
  <2>2. CASE x = d /\ i = n + 1
    BY <1>5, <1>6, <2>1, <2>2
  <2>3. CASE y = d /\ j = n + 1
    BY <1>5, <1>6, <2>1, <2>3
  <2>4. CASE i \in DOMAIN entries[x] /\ j \in DOMAIN entries[y]
    <3>1. To(x, i) = To(y, j)
      BY <1>6, <2>4
    <3>. QED  BY <1>1, <2>4, <3>1 DEF EnteredOnce
  <2>. QED  BY <1>5, <2>2, <2>3, <2>4
<1>9. \A a : (IsLinked(a)' <=> IsLinked(a)) /\ (Done(a)' <=> Done(a))
  BY DEF IsLinked, Done
<1>10. VersionsDone' /\ LinkedOnce'
  BY <1>1, <1>9 DEF VersionsDone, LinkedOnce
<1>11. DiskInv' /\ LinksGood'
  BY <1>7, <1>8, <1>10 DEF DiskInv, LinksGood, FlashInv, Layout
<1>12. \A f \in Blocks : kind[f] = "file" => Versions(f)' = Versions(f)
  <2>1. \A c, i : UnitAt(c, i)' = UnitAt(c, i)
    BY DEF UnitAt
  <2>2. \A c : Data(c)' = Data(c)
    BY <2>1, SameData
  <2>. QED  BY <1>1, <1>11, <2>2, SameVersions
<1>13. \A f : Chain(f)' = Chain(f)
  BY SameChains
<1>14. \A p \in Blocks, c \in Blocks : c # b \/ kind[b] = "file" => (Leads(p, c)' <=> Leads(p, c))
  <2>. SUFFICES ASSUME NEW p \in Blocks, NEW c \in Blocks, c # b \/ kind[b] = "file"
                PROVE  Leads(p, c)' <=> Leads(p, c)
    OBVIOUS
  <2>1. \A i \in DOMAIN entries[p] : entries'[p][i] = entries[p][i] /\ i \in DOMAIN entries'[p]
    BY <1>5
  <2>2. \A i \in DOMAIN entries'[p] :
           entries'[p][i].type = "dir" /\ p + entries'[p][i].offset = c => i \in DOMAIN entries[p]
    BY <1>3, <1>4, <1>5
  <2>. QED  BY <2>1, <2>2 DEF Leads
<1>15. \A c \in Blocks : ~Leads(b, c)
  BY DEF Leads
<1>16. \A x \in Blocks : x # b \/ kind[b] = "file" => (Listed(x)' <=> Listed(x))
  <2>1. ASSUME NEW x \in Blocks, x # b PROVE Listed(x)' <=> Listed(x)
    <3>1. \A p \in Blocks, c \in Blocks : c # b => (Leads(p, c)' <=> Leads(p, c))
      BY <1>14
    <3>2. kind'[0] = kind[0] /\ (kind'[x] = "dir" <=> kind[x] = "dir")
      OBVIOUS
    <3>. QED  BY <1>15, <2>1, <3>1, <3>2, SameListed
  <2>2. kind[b] = "file" => (Listed(b)' <=> Listed(b))
    BY DEF Listed
  <2>. QED  BY <2>1, <2>2
<1>17. ASSUME NEW nm
       PROVE  /\ (kind[b] = "file" /\ label[b] = nm)
                     \/ Entries(d, "file", nm)' = Entries(d, "file", nm)
              /\ kind[b] = "file" /\ label[b] = nm
                     => Entries(d, "file", nm)' = Entries(d, "file", nm) \cup {n + 1}
              /\ Entries(d, "file", nm) \subseteq DOMAIN entries[d]
  <2>1. \A i \in DOMAIN entries[d] : i \in Entries(d, "file", nm)' <=> i \in Entries(d, "file", nm)
    BY <1>5, <1>6 DEF Entries, To
  <2>2. n + 1 \in Entries(d, "file", nm)' <=> kind[b] = "file" /\ label[b] = nm
    BY <1>5, <1>6 DEF Entries, To
  <2>3. /\ Entries(d, "file", nm) \subseteq DOMAIN entries[d]
        /\ Entries(d, "file", nm)' \subseteq DOMAIN entries'[d]
    BY DEF Entries
  <2>4. DOMAIN entries'[d] = DOMAIN entries[d] \cup {n + 1} /\ n + 1 \notin DOMAIN entries[d]
    BY <1>4
  <2>5. CASE kind[b] = "file" /\ label[b] = nm
    <3>1. Entries(d, "file", nm)' = Entries(d, "file", nm) \cup {n + 1}
      BY <2>1, <2>2, <2>3, <2>4, <2>5
    <3>. QED  BY <2>3, <2>5, <3>1
  <2>6. CASE ~(kind[b] = "file" /\ label[b] = nm)
    <3>1. Entries(d, "file", nm)' = Entries(d, "file", nm)
      BY <2>1, <2>2, <2>3, <2>4, <2>6
    <3>. QED  BY <2>3, <2>6, <3>1
  <2>. QED  BY <2>5, <2>6
<1>18. \A x \in Blocks : \A nm : (x = d /\ kind[b] = "file" /\ label[b] = nm)
                                 \/ Lookup(x, "file", nm)' = Lookup(x, "file", nm)
  <2>. SUFFICES ASSUME NEW x \in Blocks, NEW nm, ~(x = d /\ kind[b] = "file" /\ label[b] = nm)
                PROVE  Lookup(x, "file", nm)' = Lookup(x, "file", nm)
    OBVIOUS
  <2>1. CASE x # d
    BY <1>1, <1>4, <2>1, SameLookup
  <2>2. CASE x = d
    <3>1. Entries(x, "file", nm)' = Entries(x, "file", nm) /\ Entries(x, "file", nm) \subseteq DOMAIN entries[x]
      BY <1>17, <2>2
    <3>2. CASE Entries(x, "file", nm) = {}
      BY <1>1, <1>2, <3>1, <3>2, LookupIs, LookupIsThen
    <3>3. CASE Entries(x, "file", nm) # {}
      <4>1. PICK i \in Entries(x, "file", nm) : /\ \A j \in Entries(x, "file", nm) : i <= j
                                              /\ Lookup(x, "file", nm) = To(x, i)
        BY <1>1, <3>3, LookupIs
      <4>2. Lookup(x, "file", nm)' = To(x, i)'
        BY <1>2, <3>1, <4>1, LookupIsThen
      <4>3. To(x, i)' = To(x, i)
        BY <1>6, <3>1, <4>1
      <4>. QED  BY <4>1, <4>2, <4>3
    <3>. QED  BY <3>2, <3>3
  <2>. QED  BY <2>1, <2>2
<1>19. ASSUME kind[b] = "file", Lookup(d, "file", label[b]) = NoBlock
       PROVE  Lookup(d, "file", label[b])' = b
  <2>1. PICK nm : nm = label[b]
    OBVIOUS
  <2>2. Entries(d, "file", nm) = {}
    <3>. SUFFICES ASSUME Entries(d, "file", nm) # {} PROVE FALSE
      OBVIOUS
    <3>1. PICK i \in Entries(d, "file", nm) : Lookup(d, "file", nm) = To(d, i)
      BY <1>1, LookupIs
    <3>2. kind[To(d, i)] = "file"
      BY DEF Entries, To
    <3>. QED  BY <1>19, <2>1, <3>1, <3>2 DEF NoBlock
  <2>3. Entries(d, "file", nm)' = {n + 1}
    BY <1>17, <1>19, <2>1, <2>2
  <2>4. Lookup(d, "file", nm)' = To(d, n + 1)'
    BY <1>2, <2>3, LookupIsThen
  <2>5. label'[b] = nm
    BY <2>1
  <2>. QED  BY <1>6, <2>4, <2>5
<1>. QED  BY <1>11, <1>12, <1>13, <1>16, <1>18, <1>19

\* the entry of a directory: no file is added or lost
LEMMA EnterDirectoryStores ==
    ASSUME FlashInv, FlashInv', StoreInv, kind[0] = "header", NEW d \in Blocks, NEW b \in Blocks,
           kind[d] = "dir", kind[b] = "dir", NoEntry(b), entries[b] = <<>>,
           UNCHANGED <<kind, size, len, link, label, units>>,
           entries' = [entries EXCEPT ![d] = Append(@, [type |-> kind[b], offset |-> b - d])]
    PROVE  Files' = Files
<1>1. /\ \A x \in Blocks : x # b => (Listed(x)' <=> Listed(x))
      /\ \A x \in Blocks : \A nm : Lookup(x, "file", nm)' = Lookup(x, "file", nm)
      /\ \A f \in Blocks : kind[f] = "file" => Versions(f)' = Versions(f)
  <2>1. kind[b] \in {"dir", "file"} /\ kind[b] # "file"
    OBVIOUS
  <2>2. /\ \A x \in Blocks : x # b \/ kind[b] = "file" => (Listed(x)' <=> Listed(x))
        /\ \A x \in Blocks : \A nm : (x = d /\ kind[b] = "file" /\ label[b] = nm)
                                     \/ Lookup(x, "file", nm)' = Lookup(x, "file", nm)
        /\ kind[b] = "file" /\ Lookup(d, "file", label[b]) = NoBlock
              => Lookup(d, "file", label[b])' = b
        /\ \A f \in Blocks : kind[f] = "file" => Versions(f)' = Versions(f)
    BY <2>1, EntryReads
  <2>. QED  BY <2>1, <2>2
<1>2. TypeOK /\ EntriesInv
  BY DEF FlashInv
<1>3. \A nm : Lookup(b, "file", nm) = NoBlock
  <2>1. \A nm : Entries(b, "file", nm) = {}
    BY DEF Entries
  <2>. QED  BY <1>2, <2>1, LookupIs
<1>. QED  BY <1>1, <1>2, <1>3, SameFiles

\* the entry of a file: it comes into being, and has no version
LEMMA EnterFileStores ==
    ASSUME FlashInv, FlashInv', StoreInv, kind[0] = "header", NEW d \in Blocks, NEW b \in Blocks,
           kind[b] = "file", NoEntry(b), entries[b] = <<>>, link[b] = Blank, Listed(d),
           label[b] \in Names, Lookup(d, "file", label[b]) = NoBlock,
           UNCHANGED <<kind, size, len, link, label, units>>, Pending' = Pending,
           entries' = [entries EXCEPT ![d] = Append(@, [type |-> kind[b], offset |-> b - d])]
    PROVE  StoreStep /\ Listed(d)' /\ Lookup(d, "file", label[b])' = b
<1>1. PICK nm \in Names : nm = label[b]
  OBVIOUS
<1>2. PICK k : k = <<d, nm>>
  OBVIOUS
<1>3. k \in Blocks \X Names /\ k[1] = d /\ k[2] = nm
  BY <1>2
<1>4. kind[d] = "dir" /\ b # NoBlock
  BY DEF Listed, NoBlock
<1>5. /\ \A x \in Blocks : Listed(x)' <=> Listed(x)
      /\ \A x \in Blocks : \A n : (x = d /\ n = nm) \/ Lookup(x, "file", n)' = Lookup(x, "file", n)
      /\ Lookup(d, "file", nm)' = b
      /\ \A f \in Blocks : kind[f] = "file" => Versions(f)' = Versions(f)
  <2>1. kind[b] \in {"dir", "file"}
    OBVIOUS
  <2>2. /\ \A x \in Blocks : x # b \/ kind[b] = "file" => (Listed(x)' <=> Listed(x))
        /\ \A x \in Blocks : \A n : (x = d /\ kind[b] = "file" /\ label[b] = n)
                                    \/ Lookup(x, "file", n)' = Lookup(x, "file", n)
        /\ kind[b] = "file" /\ Lookup(d, "file", label[b]) = NoBlock
              => Lookup(d, "file", label[b])' = b
        /\ \A f \in Blocks : kind[f] = "file" => Versions(f)' = Versions(f)
    BY <1>4, <2>1, EntryReads
  <2>. QED  BY <1>1, <2>2
<1>6. TypeOK /\ EntriesInv /\ LinksGood
  BY MountedIs
<1>7. Versions(b) = <<>>
  <2>1. ChainAt(b, 0) = b
    BY ChainGoesOn
  <2>2. EndsAt(b, 0)
    BY <2>1 DEF EndsAt
  <2>3. Versions(b) = [v \in 1 .. 0 |-> Data(ChainAt(b, v))]
    BY <1>6, <2>2, VersionsAre
  <2>. QED  BY <2>3
<1>8. k \notin Keys /\ k \in Keys' /\ Found(k)' = b
  BY <1>1, <1>3, <1>4, <1>5 DEF Keys, Found
<1>9. Keys' = Keys \cup {k}
  <2>1. \A j \in Blocks \X Names : j # k =>
           /\ Listed(j[1])' <=> Listed(j[1])
           /\ Lookup(j[1], "file", j[2])' = Lookup(j[1], "file", j[2])
    <3>. SUFFICES ASSUME NEW j \in Blocks \X Names, j # k
                  PROVE  /\ Listed(j[1])' <=> Listed(j[1])
                         /\ Lookup(j[1], "file", j[2])' = Lookup(j[1], "file", j[2])
      OBVIOUS
    <3>1. PICK x \in Blocks, n \in Names : j = <<x, n>>
      OBVIOUS
    <3>2. j[1] = x /\ j[2] = n /\ ~(x = d /\ n = nm)
      BY <1>2, <3>1
    <3>3. /\ Listed(x)' <=> Listed(x)
          /\ Lookup(x, "file", n)' = Lookup(x, "file", n)
      BY <1>5, <3>2
    <3>. QED  BY <3>2, <3>3
  <2>2. /\ Keys \subseteq Blocks \X Names /\ Keys' \subseteq Blocks \X Names
        /\ \A j \in Blocks \X Names :
              j \in Keys <=> Listed(j[1]) /\ Lookup(j[1], "file", j[2]) # NoBlock
        /\ \A j \in Blocks \X Names :
              j \in Keys' <=> Listed(j[1])' /\ Lookup(j[1], "file", j[2])' # NoBlock
    BY DEF Keys
  <2>3. \A j \in Blocks \X Names : j # k => (j \in Keys' <=> j \in Keys)
    BY <2>1, <2>2
  <2>. QED  BY <1>3, <1>8, <2>2, <2>3
<1>10. ASSUME NEW j \in Keys PROVE Versions(Found(j))' = Versions(Found(j))
  <2>1. j \in Blocks \X Names /\ Lookup(j[1], "file", j[2]) # NoBlock /\ j # k
    BY <1>8 DEF Keys
  <2>2. PICK x \in Blocks, n \in Names : j = <<x, n>>
    BY <2>1
  <2>3. j[1] = x /\ j[2] = n /\ ~(x = d /\ n = nm)
    BY <1>2, <2>1, <2>2
  <2>4. PICK f : f = Lookup(x, "file", n)
    OBVIOUS
  <2>5. f \in Blocks /\ kind[f] = "file"
    BY <1>6, <2>1, <2>3, <2>4, LookupFinds
  <2>6. Found(j)' = f /\ Found(j) = f
    BY <1>5, <2>3, <2>4 DEF Found
  <2>. QED  BY <1>5, <2>5, <2>6
<1>11. Versions(Found(k))' = <<>>
  <2>1. Versions(Found(k))' = Versions(b)'
    BY <1>8
  <2>. QED  BY <1>5, <1>7, <2>1
<1>12. /\ DOMAIN Files = Keys /\ DOMAIN Files' = Keys \cup {k}
       /\ Files' = [j \in Keys \cup {k} |-> Files'[j]]
       /\ Files'[k] = <<>>
       /\ \A j \in Keys : Files'[j] = Files[j]
  BY <1>8, <1>9, <1>10, <1>11 DEF Files
<1>13. Files' = [j \in DOMAIN Files \cup {k} |-> IF j = k THEN <<>> ELSE Files[j]]
  BY <1>8, <1>12
<1>14. StoreStep
  <2>1. k \in DOMAIN Files' \ DOMAIN Files
    BY <1>8, <1>12
  <2>. QED  BY <1>13, <2>1, Created
<1>. QED  BY <1>1, <1>5, <1>14

LEMMA EnterContentStores ==
    ASSUME FlashInv, FlashInv', StoreInv, EnterContent
    PROVE  StoreInv' /\ StoreStep
<1>1. PICK d \in Blocks, b \in Blocks : d = entering[1] /\ b = entering[2]
  BY DEF FlashInv, TypeOK
<1>2. /\ step = "enter" /\ step' = IF job.do = "mkdir" THEN "idle" ELSE "alloc"
      /\ entries' = IF Len(entries[d]) < DirCap
                    THEN [entries EXCEPT ![d] = Append(@, [type |-> kind[b], offset |-> b - d])]
                    ELSE entries
      /\ UNCHANGED <<kind, size, len, link, label, units, current, local, job, sector, stale, spilled>>
  BY <1>1 DEF EnterContent
<1>3. /\ TypeOK /\ EntriesInv /\ kind[0] = "header" /\ job.do \in {"mkdir", "write", "alloc"}
  BY <1>2 DEF FlashInv, HandlesInv
<1>4. /\ ~IsOpen /\ local.block = NoBlock
      /\ Listed(d) /\ entries[b] = <<>> /\ NoEntry(b)
      /\ job.do = "mkdir" => kind[b] = "dir"
      /\ job.do # "mkdir" =>
            /\ b = local.file /\ d = local.key[1]
            /\ label[b] = local.key[2] /\ link[b] = Blank
            /\ Lookup(d, "file", local.key[2]) = NoBlock
            /\ OpenedFile(local) /\ local.typed = job.text
      /\ job.do = "alloc" => job.text = <<>>
      /\ stale => current.file # NoBlock /\ (current.block = NoBlock \/ current.key[2] = NoName)
  BY <1>1, <1>2 DEF StoreInv, WritersInv, Enters
<1>5. job.do # "mkdir" => kind[b] = "file" /\ label[b] \in Names
  BY <1>4 DEF OpenedFile
<1>6. kind[d] = "dir"
  BY <1>4 DEF Listed
<1>7. Pending' = Pending
  BY <1>2, PendingThen DEF Collected
<1>8. EntriesErased'
  BY <1>2 DEF EntriesErased
<1>9. job.do # "mkdir" => OpenedFile(local)'
  <2>1. \A f : Chain(f)' = Chain(f)
    BY <1>2, SameChains
  <2>2. From(local)' = From(local)
    BY <1>2 DEF From
  <2>. QED  BY <1>2, <1>4, <2>1, <2>2 DEF OpenedFile
<1>10. DiskInv' /\ StoreStep /\ (job.do # "mkdir" => Filed(local)')
  <2>1. CASE Len(entries[d]) >= DirCap
    <3>1. UNCHANGED flash
      <4>1. ~(Len(entries[d]) < DirCap)
        <5>1. entries[d] \in Seq([type : Objects, offset : Int]) /\ DirCap \in Nat
          BY <1>3, SPFSAssumption DEF TypeOK
        <5>2. Len(entries[d]) \in Nat
          BY <5>1
        <5>. QED  BY <2>1, <5>1, <5>2
      <4>. QED  BY <1>2, <4>1 DEF flash
    <3>2. DiskInv' /\ \A h : OpenedFile(h) /\ Filed(h) => Filed(h)'
      BY <1>2, <3>1, QuietDisk
    <3>3. job.do # "mkdir" => Filed(local)
      BY <1>4 DEF Filed
    <3>4. PICK h : h = local
      OBVIOUS
    <3>5. job.do # "mkdir" => Filed(h)'
      BY <1>4, <3>2, <3>3, <3>4
    <3>6. job.do # "mkdir" => Filed(local)'
      BY <1>2, <3>4, <3>5, HandlesThen
    <3>. QED  BY <1>7, <3>1, <3>2, <3>6, QuietStep
  <2>2. CASE Len(entries[d]) < DirCap
    <3>1. entries' = [entries EXCEPT ![d] = Append(@, [type |-> kind[b], offset |-> b - d])]
      BY <1>2, <2>2
    <3>2. UNCHANGED <<kind, size, len, link, label, units>>
      BY <1>2
    <3>3. kind[b] \in {"dir", "file"}
      BY <1>4, <1>5
    <3>4. DiskInv'
      BY <1>3, <1>4, <1>6, <3>1, <3>2, <3>3, EntryReads
    <3>5. CASE job.do = "mkdir"
      <4>1. Files' = Files
        BY <1>3, <1>4, <1>6, <3>1, <3>2, <3>5, EnterDirectoryStores
      <4>. QED  BY <1>7, <3>4, <3>5, <4>1 DEF StoreStep
    <3>6. CASE job.do # "mkdir"
      <4>1. StoreStep /\ Listed(d)' /\ Lookup(d, "file", label[b])' = b
        BY <1>3, <1>4, <1>5, <1>7, <3>1, <3>2, <3>6, EnterFileStores
      <4>2. PICK n : n = label[b]
        OBVIOUS
      <4>3. Lookup(d, "file", n)' = b
        BY <1>2, <4>1, <4>2
      <4>4. PICK h : h = local
        OBVIOUS
      <4>5. Filed(h)'
        BY <1>4, <3>6, <4>1, <4>2, <4>3, <4>4 DEF Filed
      <4>6. Filed(local)'
        BY <1>2, <4>4, <4>5, HandlesThen
      <4>. QED  BY <3>4, <4>1, <4>6
    <3>. QED  BY <3>5, <3>6
  <2>3. Len(entries[d]) < DirCap \/ Len(entries[d]) >= DirCap
    <3>1. entries[d] \in Seq([type : Objects, offset : Int]) /\ DirCap \in Nat
      BY <1>3, SPFSAssumption DEF TypeOK
    <3>2. Len(entries[d]) \in Nat
      BY <3>1
    <3>. QED  BY <3>1, <3>2
  <2>. QED  BY <2>1, <2>2, <2>3
<1>11. WritersInv'
  <2>1. ~IsOpen'
    BY <1>2, <1>4 DEF IsOpen
  <2>. QED  BY <1>2, <1>4, <1>9, <1>10, <2>1 DEF WritersInv
<1>. QED  BY <1>8, <1>10, <1>11 DEF StoreInv

(***************************************************************************)
(* mkfs: nothing is mounted until the last page is programmed.             *)
(***************************************************************************)
LEMMA EraseSectorStores ==
    ASSUME FlashInv, FlashInv', StoreInv, EraseSector
    PROVE  StoreInv' /\ StoreStep
<1>. DEFINE gone(b) == b \div SectorBlocks = sector
<1>1. /\ step = "erase" /\ UNCHANGED <<current, local, job, entering, stale, spilled>>
      /\ sector' = IF sector = LastSector THEN 0 ELSE sector + 1
      /\ step' = IF sector = LastSector THEN "root" ELSE "erase"
      /\ \A b \in Blocks : entries'[b] = IF gone(b) THEN <<>> ELSE entries[b]
  BY DEF EraseSector
<1>2. sector \in Nat /\ sector <= LastSector
  <2>1. TypeOK /\ EraseInv
    BY DEF FlashInv
  <2>. QED  BY <1>1, <2>1, Types, Sizings DEF RamTypes, EraseInv
<1>3. LastSector \in Nat
      /\ \A b \in Blocks : b \div SectorBlocks \in Nat /\ b \div SectorBlocks <= LastSector
  BY SectorsCover
<1>4. \A b \in Blocks : b \div SectorBlocks <= sector => entries'[b] = <<>>
  BY <1>1, <1>2, <1>3 DEF StoreInv, EntriesErased
<1>5. EntriesErased'
  <2>1. step' = "erase" => sector' = sector + 1
    BY <1>1
  <2>2. step' = "erase" => \A b \in Blocks : b \div SectorBlocks < sector' => entries'[b] = <<>>
    BY <1>2, <1>3, <1>4, <2>1
  <2>3. step' = "root" => \A b \in Blocks : entries'[b] = <<>>
    BY <1>1, <1>3, <1>4
  <2>. QED  BY <1>1, <2>2, <2>3 DEF EntriesErased
<1>6. kind'[0] = "erased"
  <2>1. 0 \div SectorBlocks = 0 /\ 0 \in Blocks
    BY SectorsCover, Sizings
  <2>2. sector = 0 => kind'[0] = "erased"
    BY <2>1 DEF EraseSector
  <2>3. sector # 0 => kind[0] = "erased"
    BY <1>1 DEF FlashInv, EraseInv
  <2>4. kind'[0] = "erased" \/ kind'[0] = kind[0]
    BY <2>1 DEF EraseSector
  <2>. QED  BY <2>2, <2>3, <2>4
<1>7. DiskInv'
  <2>. SUFFICES ASSUME step' = "root" PROVE (EntriesLead /\ EnteredOnce /\ VersionsDone /\ LinkedOnce)'
    BY <1>1, <1>6 DEF DiskInv, OnDisk
  <2>1. \A b \in Blocks : entries'[b] = <<>> /\ link'[b] = Blank
    BY <1>5 DEF EntriesErased, FlashInv, EraseInv, Untouched
  <2>2. EntriesLead' /\ EnteredOnce'
    BY <2>1 DEF EntriesLead, EnteredOnce
  <2>3. \A a \in Blocks : ~IsLinked(a)'
    BY <2>1 DEF IsLinked
  <2>. QED  BY <2>2, <2>3 DEF VersionsDone, LinkedOnce
<1>8. ~IsOpen /\ local.block = NoBlock
  BY <1>1 DEF FlashInv, HandlesInv, StoreInv, WritersInv
<1>9. WritersInv'
  <2>1. ~IsOpen'
    BY <1>1, <1>8 DEF IsOpen
  <2>. QED  BY <1>1, <1>8, <2>1 DEF WritersInv, StoreInv
<1>10. StoreStep
  <2>1. Pending' = Pending
    BY <1>1, PendingThen DEF Collected
  <2>2. ~Mounted'
    BY <1>6 DEF Mounted
  <2>. QED  BY <2>1, <2>2, NoFilesThen, Formatted
<1>. QED  BY <1>5, <1>7, <1>9, <1>10 DEF StoreInv

LEMMA ProgramRootStores ==
    ASSUME FlashInv, FlashInv', StoreInv, ProgramRoot
    PROVE  StoreInv' /\ StoreStep
<1>1. /\ step = "root" /\ step' = "header" /\ Header(Root, "dir", 1, NoName)
      /\ UNCHANGED <<current, local, job, entering, sector, stale, spilled>>
  BY DEF ProgramRoot
<1>2. \A b \in Blocks : entries'[b] = <<>> /\ link'[b] = Blank
  BY <1>1 DEF Header, StoreInv, EntriesErased, FlashInv, EraseInv, Untouched
<1>3. EntriesErased'
  BY <1>1, <1>2 DEF EntriesErased
<1>4. DiskInv'
  <2>1. EntriesLead' /\ EnteredOnce'
    BY <1>2 DEF EntriesLead, EnteredOnce
  <2>2. \A a \in Blocks : ~IsLinked(a)'
    BY <1>2 DEF IsLinked
  <2>. QED  BY <2>1, <2>2 DEF DiskInv, VersionsDone, LinkedOnce
<1>5. ~IsOpen /\ local.block = NoBlock
  BY <1>1 DEF FlashInv, HandlesInv, StoreInv, WritersInv
<1>6. WritersInv'
  <2>1. ~IsOpen'
    BY <1>1, <1>5 DEF IsOpen
  <2>. QED  BY <1>1, <1>5, <2>1 DEF WritersInv, StoreInv
<1>7. StoreStep
  <2>1. Pending' = Pending
    BY <1>1, PendingThen DEF Collected
  <2>. QED  BY <1>2, <2>1, NoFilesThen, Formatted
<1>. QED  BY <1>3, <1>4, <1>6, <1>7 DEF StoreInv

LEMMA ProgramHeaderStores ==
    ASSUME FlashInv, FlashInv', StoreInv, ProgramHeader
    PROVE  StoreInv' /\ StoreStep
<1>1. /\ step = "header" /\ step' = "idle" /\ Header(0, "header", Blank, NoName)
      /\ UNCHANGED <<current, local, job, entering, sector, stale, spilled>>
  BY DEF ProgramHeader
<1>2. TypeOK /\ kind[0] \in {"erased", "header"} /\ 0 \in Blocks
  BY Sizings DEF FlashInv, EraseInv
<1>3. \A b \in Blocks : entries'[b] = <<>>
  BY <1>1 DEF Header, StoreInv, EntriesErased
<1>4. EntriesErased'
  BY <1>1 DEF EntriesErased
<1>5. VersionsDone /\ LinkedOnce /\ LinksLead
  BY <1>1 DEF StoreInv, DiskInv, OnDisk, FlashInv, Layout
<1>6. DiskInv'
  <2>1. EntriesLead' /\ EnteredOnce'
    BY <1>3 DEF EntriesLead, EnteredOnce
  <2>2. /\ \A a \in Blocks \ {0} : kind'[a] = kind[a] /\ size'[a] = size[a]
        /\ kind'[0] = "header" /\ link' = link /\ len' = len
    BY <1>1, <1>2 DEF Header, TypeOK
  <2>3. \A a \in Blocks : IsLinked(a)' => IsLinked(a) /\ a # 0
    BY <2>2 DEF IsLinked, Linked
  <2>4. LinkedOnce'
    BY <1>5, <2>2, <2>3 DEF LinkedOnce
  <2>5. VersionsDone'
    <3>. SUFFICES ASSUME NEW a \in Blocks, IsLinked(a)' PROVE link'[a] > 0 /\ Done(a + link[a])'
      BY DEF VersionsDone
    <3>1. PICK c : c = a + link[a]
      OBVIOUS
    <3>2. IsLinked(a) /\ link[a] > 0 /\ Done(c)
      BY <1>5, <2>3, <3>1 DEF VersionsDone
    <3>3. c \in Blocks /\ kind[c] = "content"
      BY <1>5, <3>1, <3>2 DEF LinksLead, IsLinked
    <3>4. c # 0 /\ Done(c)'
      BY <1>2, <2>2, <3>2, <3>3 DEF Done
    <3>. QED  BY <2>2, <3>1, <3>2, <3>4 DEF Done
  <2>. QED  BY <2>1, <2>4, <2>5 DEF DiskInv
<1>7. ~IsOpen /\ local.block = NoBlock
  BY <1>1 DEF FlashInv, HandlesInv, StoreInv, WritersInv
<1>8. WritersInv'
  <2>1. ~IsOpen'
    BY <1>1, <1>7 DEF IsOpen
  <2>. QED  BY <1>1, <1>7, <2>1 DEF WritersInv, StoreInv
<1>9. StoreStep
  <2>1. Pending' = Pending
    BY <1>1, PendingThen DEF Collected
  <2>. QED  BY <1>3, <2>1, NoFilesThen, Formatted
<1>. QED  BY <1>4, <1>6, <1>8, <1>9 DEF StoreInv

(***************************************************************************)
(* Every step, and the theorem.                                            *)
(***************************************************************************)
LEMMA StepStores ==
    ASSUME FlashInv, FlashInv', StoreInv, ShortContents, ~spilled', [Next]_vars
    PROVE  StoreInv' /\ StoreStep
<1>1. CASE Boot
  BY <1>1, BootStores
<1>2. CASE Restart
  BY <1>2, RestartStores
<1>3. ASSUME NEW d \in Blocks, NEW nm \in Names, MakeDirectory(d, nm) PROVE StoreInv' /\ StoreStep
  <2>1. PICK what : what = [NoJob EXCEPT !.do = "mkdir"]
    OBVIOUS
  <2>2. what \in Jobs /\ what.do = "mkdir"
    BY <2>1, EmptyHanded DEF Jobs, NoJob
  <2>3. step = "idle" /\ Listed(d) /\ Lookup(d, "dir", nm) = NoBlock /\ Make(d, "dir", nm, what)
    BY <1>3, <2>1 DEF MakeDirectory
  <2>. QED  BY <2>2, <2>3, MakeStores
<1>4. ASSUME NEW d \in Blocks, NEW nm \in Names, NEW what \in Jobs, what.do \in {"write", "alloc"},
             what.do = "alloc" => what.text = <<>>, OpenOrCreate(d, nm, what)
      PROVE  StoreInv' /\ StoreStep
  <2>1. step = "idle" /\ Listed(d)
    BY <1>4 DEF OpenOrCreate
  <2>2. CASE Open(d, nm, what)
    BY <1>4, <2>1, <2>2, OpenStores
  <2>3. CASE Lookup(d, "file", nm) = NoBlock /\ Make(d, "file", nm, what)
    BY <1>4, <2>1, <2>3, MakeStores
  <2>. QED  BY <1>4, <2>2, <2>3 DEF OpenOrCreate
<1>5. ASSUME NEW d \in Blocks, NEW nm \in Names, NEW text \in Texts, Store(d, nm, text)
      PROVE  StoreInv' /\ StoreStep
  <2>1. PICK what : what = [do |-> "write", text |-> text, size |-> Len(text)]
    OBVIOUS
  <2>2. text \in Seq(Int) /\ Len(text) \in Nat
    BY SPFSAssumption, ByteIsInt
  <2>3. what \in Jobs /\ what.do = "write"
    BY <2>1, <2>2 DEF Jobs
  <2>4. OpenOrCreate(d, nm, what)
    BY <1>5, <2>1 DEF Store
  <2>. QED  BY <1>4, <2>3, <2>4
<1>6. ASSUME NEW d \in Blocks, NEW nm \in Names, NEW n \in Sizes, StoreAlloc(d, nm, n)
      PROVE  StoreInv' /\ StoreStep
  <2>1. PICK what : what = [do |-> "alloc", text |-> <<>>, size |-> n]
    OBVIOUS
  <2>2. <<>> \in Seq(Int) /\ n \in Nat
    BY SPFSAssumption
  <2>3. what \in Jobs /\ what.do = "alloc" /\ what.text = <<>>
    BY <2>1, <2>2 DEF Jobs
  <2>4. OpenOrCreate(d, nm, what)
    BY <1>6, <2>1 DEF StoreAlloc
  <2>. QED  BY <1>4, <2>3, <2>4
<1>7. CASE Command
  BY <1>3, <1>5, <1>6, <1>7, StoreAppendStores, StoreFinishStores, UseStaleHandleStores, MkfsStores
  DEF Command
<1>8. CASE Program
  BY <1>8, EraseSectorStores, ProgramRootStores, ProgramHeaderStores, EnterContentStores,
     AllocateWriteStores, AllocateKeptStores, AppendPageStores, FinishHeaderStores, LinkStores
  DEF Program
<1>9. CASE UNCHANGED vars
  <2>1. /\ UNCHANGED flash
        /\ UNCHANGED <<current, local, step, job, entering, sector, stale, spilled>>
    BY <1>9 DEF vars, ram
  <2>2. StoreInv'
    <3>1. UNCHANGED <<kind, size, len, link, label, entries, units>> /\ TypeOK /\ EntriesInv
      BY <2>1 DEF flash, FlashInv
    <3>2. DiskInv'
      BY <2>1, <3>1, NothingMoves DEF StoreInv, DiskInv, OnDisk
    <3>3. EntriesErased'
      BY <2>1, <3>1 DEF StoreInv, EntriesErased
    <3>4. PICK g, h : g = local /\ h = current
      OBVIOUS
    <3>5. \A x : OpenedFile(x) => x.key[1] \in Blocks
      BY DEF OpenedFile
    <3>6. IsOpen' <=> IsOpen
      BY <2>1 DEF IsOpen
    <3>7. \A x : Writes(x) => Writes(x)'
      BY <2>1, <3>1, <3>5, NothingMoves DEF Writes
    <3>8. (Writes(h) => Writes(current)') /\ (Writes(g) => Writes(local)')
      BY <2>1, <3>4, <3>7, HandlesThen
    <3>9. /\ OpenedFile(g) => OpenedFile(local)'
          /\ OpenedFile(g) /\ Filed(g) => Filed(local)'
      BY <2>1, <3>1, <3>4, <3>5, NothingMoves, HandlesThen
    <3>10. Enters => Enters'
      <4>. SUFFICES ASSUME Enters PROVE Enters'
        OBVIOUS
      <4>1. PICK d \in Blocks, b \in Blocks : d = entering[1] /\ b = entering[2]
        BY <3>1 DEF TypeOK
      <4>2. Listed(d)' /\ entries'[b] = <<>> /\ NoEntry(b)'
        BY <2>1, <3>1, <4>1, NothingMoves DEF Enters
      <4>3. ASSUME job.do # "mkdir"
            PROVE  Lookup(local.key[1], "file", local.key[2])' = NoBlock
        <5>1. g.key[1] = d /\ Lookup(d, "file", g.key[2]) = NoBlock
          BY <3>4, <4>1, <4>3 DEF Enters
        <5>2. Lookup(d, "file", g.key[2])' = NoBlock
          BY <2>1, <3>1, <5>1, NothingMoves
        <5>3. local'.key[1] = d /\ local'.key[2] = g.key[2]
          BY <2>1, <3>4, <5>1
        <5>. QED  BY <5>2, <5>3
      <4>4. entering'[1] = d /\ entering'[2] = b
        BY <2>1, <4>1
      <4>5. Listed(entering[1])' /\ NoEntry(entering[2])'
        BY <4>2, <4>4
      <4>. QED  BY <2>1, <3>1, <3>6, <4>2, <4>3, <4>4, <4>5 DEF Enters
    <3>11. step = "alloc" => job.do # "mkdir"
      BY DEF FlashInv, HandlesInv
    <3>12. WritersInv'
      BY <2>1, <3>4, <3>6, <3>8, <3>9, <3>10, <3>11 DEF WritersInv, StoreInv
    <3>. QED  BY <3>2, <3>3, <3>12 DEF StoreInv
  <2>3. StoreStep
    BY <2>1, PendingThen, QuietStep DEF Collected
  <2>. QED  BY <2>2, <2>3
<1>. QED  BY <1>1, <1>2, <1>7, <1>8, <1>9 DEF Next

\* a page behind the end of the file system stays programmed
LEMMA SpilledStays == ASSUME [Next]_vars, spilled PROVE spilled'
<1>1. CASE Boot \/ Restart
  BY <1>1 DEF Boot, Restart
<1>2. \A d, type, nm, what : Make(d, type, nm, what) \/ Open(d, nm, what) => spilled'
  BY DEF Make, Open
<1>3. \A d, nm, what : OpenOrCreate(d, nm, what) => spilled'
  BY <1>2 DEF OpenOrCreate
<1>4. \A d, nm : MakeDirectory(d, nm) => spilled'
  BY <1>2 DEF MakeDirectory
<1>5. \A d, nm, x : Store(d, nm, x) \/ StoreAlloc(d, nm, x) => spilled'
  BY <1>3 DEF Store, StoreAlloc
<1>6. CASE Command
  BY <1>4, <1>5, <1>6 DEF Command, StoreAppend, StoreFinish, UseStaleHandle, Mkfs
<1>7. CASE Program
  BY <1>7 DEF Program, EraseSector, ProgramRoot, ProgramHeader, EnterContent, AllocateWrite,
     AllocateKept, AppendPage, FinishHeader, Link
<1>8. CASE UNCHANGED vars
  BY <1>8 DEF vars
<1>. QED  BY <1>1, <1>6, <1>7, <1>8 DEF Next

LEMMA InitiallyEmpty == ASSUME Init PROVE StoreInv /\ Abstract!Init
<1>1. /\ step = "boot" /\ current = NoHandle /\ local = NoHandle /\ ~stale
      /\ \A b \in Blocks : kind[b] = "erased" /\ entries[b] = <<>>
  BY DEF Init
<1>2. kind[0] = "erased"
  BY <1>1, Sizings
<1>3. StoreInv
  BY <1>1, <1>2, EmptyHanded DEF StoreInv, DiskInv, OnDisk, EntriesErased, WritersInv, IsOpen
<1>4. Files = <<>>
  BY <1>1, NoFiles
<1>5. Pending["local"] = NoHandle /\ Pending["current"] = NoHandle
  BY <1>1, PendingIs, EmptyHanded, CollectedIs
<1>6. Pending = [w \in {"local", "current"} |-> NoHandle]
  BY <1>5, PendingIs
<1>7. Abstract!Init
  BY <1>4, <1>6 DEF Abstract!Init, Files, Pending, Found
<1>. QED  BY <1>3, <1>7

\* The file system implements versioned files: whatever commands come between
\* the appends of a kept upload and wherever the power fails, a content becomes
\* the newest version of its file whole, equal to what was handed over, or it
\* is lost whole, and no version is changed or taken away but by mkfs.
\* ShortContents is needed: a content's header has 16 bits for its length.
THEOREM VersionsKept == Spec /\ []ShortContents => StoresVersions
<1>. DEFINE Inv == spilled \/ StoreInv
<1>1. Init => Inv /\ Abstract!Init
  BY InitiallyEmpty
<1>2. ASSUME FlashInv, FlashInv', Inv, ShortContents, [Next]_vars
      PROVE  Inv' /\ [spilled' \/ Abstract!Next]_(Abstract!vars)
  <2>1. CASE spilled'
    BY <2>1
  <2>2. CASE ~spilled'
    <3>1. StoreInv
      BY <1>2, <2>2, SpilledStays
    <3>2. StoreInv' /\ StoreStep
      BY <1>2, <2>2, <3>1, StepStores
    <3>. QED  BY <3>2, StoreStepIs
  <2>. QED  BY <2>1, <2>2
<1>. HIDE DEF Inv
<1>. QED  BY <1>1, <1>2, FlashHolds, PTL DEF Spec, StoresVersions
===============================================================================
