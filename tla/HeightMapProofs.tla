--------------------------- MODULE HeightMapProofs ---------------------------
(***************************************************************************)
(* What the height map of a running node is worth, for every block tree    *)
(* and every interval of flushing.                                         *)
(*                                                                         *)
(* For every tree the map has as many entries as the chain has blocks, and *)
(* the file holds what memory holds below first_dirty.  That the entries   *)
(* are the right ones after a restart needs more: a match that ends        *)
(* _load_blocks_from() says something about the entries below it only if   *)
(* the file is the chain of one block (FileIsChain).  A flush does not     *)
(* truncate the file, so that holds as long as the peak never gets lower.  *)
(* The run heightmap_falling shows what happens when it does.  The cached  *)
(* summaries are right as long as no start finds a summary of another chain*)
(* at or above the height of the peak (heightmap_summaries).               *)
(***************************************************************************)
EXTENDS HeightMap, CoinStoreProofs, DataLemmas

\* The step does not lower the peak.
PeakRises == height[db_peak] <= height[db_peak']

\* No block is preferred to a higher one: none is heavier, or as heavy with fewer
\* iterations.
PreferredIsHigher ==
    \A a, b \in Blocks : Preferred(a, b) => height[a] >= height[b]

Entries == Blocks \cup {Zeros}

\* buf is the map of the chain that ends in p.
IsMapOf(buf, p) ==
    /\ Len(buf) = height[p] + 1
    /\ \A a \in Anc[p] : buf[height[a] + 1] = a

Sizes ==
    /\ InUse => Len(height_to_hash) = height[db_peak] + 1
    /\ pc = "update" => /\ db_peak \in Blocks
                        /\ fork \in Anc[db_peak] \cup {GENESIS_CHALLENGE}
                        /\ height[fork] + 1 <= Len(height_to_hash)
    /\ pc = "down" => height_to_hash = <<>>
    /\ first_dirty <= Len(height_to_hash)

\* The invariant that holds for every tree
SizeInv == TypeOK /\ Sizes /\ DirtyTracked

FileIsChain ==
    height_to_hash_file # Missing =>
        \E q \in Tips : /\ height[q] <= height[db_peak]
                        /\ IsMapOf(height_to_hash_file, q)

MemoryIsChain ==
    /\ InUse => IsMapOf(height_to_hash, db_peak)
    /\ pc = "update" => \E p \in Tips : /\ IsMapOf(height_to_hash, p)
                                        /\ fork \in Anc[p] \cup {GENESIS_CHALLENGE}

\* The invariant that holds as long as the peak does not get lower
ChainInv == FileIsChain /\ MemoryIsChain

-----------------------------------------------------------------------------
(* The operations on the buffers *)

LEMMA TipHeights ==
    /\ \A p \in Tips : height[p] \in Int /\ height[p] >= -1
    /\ \A b \in Blocks : b \in Tips /\ height[b] \in Nat /\ b \in Anc[b]
    /\ height[GENESIS_CHALLENGE] = -1 /\ GENESIS_CHALLENGE \in Tips
    /\ Anc[GENESIS_CHALLENGE] = {}
BY AncBlocks, HeightsAndWeights, AncestryIsAChain DEF Tips

LEMMA ResizeIs ==
    ASSUME NEW buf \in Seq(Entries), NEW n \in Nat
    PROVE  /\ Resize(buf, n) \in Seq(Entries)
           /\ Len(Resize(buf, n)) = n
           /\ \A i \in 1..n : Resize(buf, n)[i] = IF i <= Len(buf) THEN buf[i] ELSE Zeros
<1>1. \A i \in 1..n : (IF i <= Len(buf) THEN buf[i] ELSE Zeros) \in Entries
  BY DEF Entries
<1>2. Resize(buf, n) \in [1..n -> Entries]
  BY <1>1 DEF Resize
<1> QED BY <1>2 DEF Resize

LEMMA SetHashesIs ==
    ASSUME NEW buf \in Seq(Entries), NEW p \in Tips, NEW bs, bs \subseteq Anc[p]
    PROVE  /\ SetHashes(buf, bs) \in Seq(Entries)
           /\ Len(SetHashes(buf, bs)) = Len(buf)
           /\ \A b \in bs : height[b] + 1 \in 1..Len(buf) => SetHashes(buf, bs)[height[b] + 1] = b
           /\ \A i \in 1..Len(buf) :
                 (\A b \in bs : height[b] # i - 1) => SetHashes(buf, bs)[i] = buf[i]
<1> DEFINE at(i) == IF \E b \in bs : height[b] = i - 1
                    THEN CHOOSE b \in bs : height[b] = i - 1
                    ELSE buf[i]
<1>1. bs \subseteq Blocks /\ \A b \in bs : height[b] \in Nat
  BY AncBlocks
<1>2. \A i \in 1..Len(buf) : at(i) \in Entries
  BY <1>1 DEF Entries
<1>3. DOMAIN buf = 1..Len(buf)
  OBVIOUS
<1>4. SetHashes(buf, bs) = [i \in 1..Len(buf) |-> at(i)]
  BY <1>3 DEF SetHashes
<1>5. ASSUME NEW b \in bs, NEW i \in Int, height[b] = i - 1 PROVE at(i) = b
  <2> DEFINE c == CHOOSE x \in bs : height[x] = i - 1
  <2>1. c \in bs /\ height[c] = i - 1
    BY <1>5
  <2>2. at(i) = c
    BY <1>5
  <2> HIDE DEF c, at
  <2>3. c \in Anc[p] /\ b \in Anc[p] /\ height[c] = height[b]
    BY <1>5, <2>1
  <2> QED BY <2>2, <2>3, AncUnique
<1>6. \A i : (\A b \in bs : height[b] # i - 1) => at(i) = buf[i]
  OBVIOUS
<1> HIDE DEF at
<1>7. SetHashes(buf, bs) \in [1..Len(buf) -> Entries]
  BY <1>2, <1>4
<1>8. ASSUME NEW b \in bs, height[b] + 1 \in 1..Len(buf)
      PROVE  SetHashes(buf, bs)[height[b] + 1] = b
  <2>1. height[b] + 1 \in Int /\ height[b] = (height[b] + 1) - 1
    BY <1>1
  <2> QED BY <1>4, <1>5, <1>8, <2>1
<1> QED BY <1>4, <1>6, <1>7, <1>8

LEMMA DirtiedIs ==
    ASSUME NEW d \in Nat, NEW p \in Tips, NEW bs, bs \subseteq Anc[p]
    PROVE  /\ Dirtied(d, bs) \in Nat
           /\ Dirtied(d, bs) <= d
           /\ \A b \in bs : Dirtied(d, bs) <= height[b]
<1> DEFINE hs == {height[b] : b \in bs}
<1>1. \A b \in bs : height[b] \in Nat
  BY AncBlocks
<1>2. CASE \E b \in bs : height[b] < d
  <2>1. hs \in SUBSET Nat /\ hs # {}
    BY <1>1, <1>2
  <2>2. PICK k \in hs : \A j \in hs : k <= j
    <3> HIDE DEF hs
    <3> QED BY <2>1, LeastNatural
  <2> DEFINE m == CHOOSE h \in hs : \A b \in bs : h <= height[b]
  <2>3. m \in hs /\ \A b \in bs : m <= height[b]
    BY <2>2
  <2>4. Dirtied(d, bs) = m
    BY <1>2 DEF Dirtied
  <2> QED BY <1>1, <1>2, <2>1, <2>3, <2>4
<1>3. CASE ~ \E b \in bs : height[b] < d
  BY <1>1, <1>3 DEF Dirtied
<1> QED BY <1>2, <1>3

\* A chain is finite: it has one block per height.
LEMMA AncFinite == ASSUME NEW p \in Tips PROVE IsFiniteSet(Anc[p])
<1> DEFINE f == [a \in Anc[p] |-> height[a]]
<1>1. f \in [Anc[p] -> 0..height[p]]
  BY AncBlocks
<1>2. \A a, b \in Anc[p] : f[a] = f[b] => a = b
  BY AncUnique
<1>3. f \in Injection(Anc[p], 0..height[p])
  BY <1>1, <1>2 DEF Injection, IsInjective
<1>4. IsFiniteSet(0..height[p])
  BY AncBlocks, FS_Interval
<1> HIDE DEF f
<1> QED BY <1>3, <1>4, FS_Injection

-----------------------------------------------------------------------------
(* What the steps do *)

LEMMA UpdateHeightsDoes ==
    ASSUME SizeInv, UpdateHeights
    PROVE  /\ height_to_hash' \in Seq(Entries)
           /\ Len(height_to_hash') = height[db_peak] + 1
           /\ \A a \in Anc[db_peak] : height[a] > height[fork] => height_to_hash'[height[a] + 1] = a
           /\ first_dirty' \in Nat
           /\ first_dirty' <= first_dirty
           /\ first_dirty' <= height[fork] + 1
           /\ \A i \in 1..(height[fork] + 1) : height_to_hash'[i] = height_to_hash[i]
<1> DEFINE F == Larger(height[fork], 0)
           records == {a \in Anc[db_peak] : height[a] > height[fork]}
           n == Smaller(Len(height_to_hash), F + 1)
           kept == Resize(height_to_hash, n)
           m == Larger(Len(kept), height[db_peak] + 1)
           wide == Resize(kept, m)
<1>1. /\ pc = "update"
      /\ height_to_hash' = SetHashes(wide, records)
      /\ first_dirty' = Dirtied(Smaller(first_dirty, F + 1), records)
  BY DEF UpdateHeights
<1>2. /\ db_peak \in Blocks /\ db_peak \in Tips /\ fork \in Tips
      /\ height[db_peak] \in Nat
      /\ height[fork] \in Int /\ height[fork] >= -1 /\ height[fork] <= height[db_peak]
      /\ height[fork] + 1 <= Len(height_to_hash)
      /\ fork \in Anc[db_peak] \cup {GENESIS_CHALLENGE}
  BY <1>1, TipHeights, AncBlocks DEF SizeInv, Sizes, TypeOK
<1>3. height_to_hash \in Seq(Entries) /\ Len(height_to_hash) \in Nat /\ first_dirty \in Nat
  BY DEF SizeInv, TypeOK, Entries
<1>4. F \in Nat /\ F >= height[fork] /\ F <= height[db_peak] /\ (height[fork] >= 0 => F = height[fork])
  BY <1>2 DEF Larger
<1> HIDE DEF F
<1>5. n \in Nat /\ n <= F + 1 /\ n <= Len(height_to_hash) /\ height[fork] + 1 <= n
  BY <1>2, <1>3, <1>4 DEF Smaller
<1> HIDE DEF n
<1>6. /\ kept \in Seq(Entries) /\ Len(kept) = n
      /\ \A i \in 1..n : kept[i] = height_to_hash[i]
  BY <1>3, <1>5, ResizeIs
<1> HIDE DEF kept
<1>7. m = height[db_peak] + 1 /\ m \in Nat
  BY <1>2, <1>4, <1>5, <1>6 DEF Larger
<1> HIDE DEF m
<1>8. /\ wide \in Seq(Entries) /\ Len(wide) = m
      /\ \A i \in 1..n : i \in 1..m => wide[i] = kept[i]
  <2>1. /\ wide \in Seq(Entries) /\ Len(wide) = m
        /\ \A i \in 1..m : wide[i] = IF i <= Len(kept) THEN kept[i] ELSE Zeros
    BY <1>6, <1>7, ResizeIs
  <2> HIDE DEF wide
  <2> QED BY <1>5, <1>6, <2>1
<1> HIDE DEF wide
<1>9. records \subseteq Anc[db_peak] /\ \A b \in records : height[b] \in 0..height[db_peak]
  BY <1>2, AncBlocks
<1>10. /\ height_to_hash' \in Seq(Entries)
       /\ Len(height_to_hash') = m
       /\ \A b \in records : height[b] + 1 \in 1..m => height_to_hash'[height[b] + 1] = b
       /\ \A i \in 1..m : (\A b \in records : height[b] # i - 1) => height_to_hash'[i] = wide[i]
  <2> HIDE DEF records
  <2> QED BY <1>1, <1>2, <1>8, <1>9, SetHashesIs
<1>11. \A a \in Anc[db_peak] : height[a] > height[fork] => height_to_hash'[height[a] + 1] = a
  BY <1>2, <1>7, <1>9, <1>10
<1>12. ASSUME NEW i \in 1..(height[fork] + 1) PROVE height_to_hash'[i] = height_to_hash[i]
  <2>1. i \in 1..n /\ i \in 1..m
    BY <1>2, <1>5, <1>7
  <2>2. \A b \in records : height[b] # i - 1
    BY <1>2, <1>9
  <2> QED BY <1>6, <1>8, <1>10, <2>1, <2>2
<1> DEFINE d == Smaller(first_dirty, F + 1)
<1>13. d \in Nat /\ d <= first_dirty /\ d <= F + 1
  BY <1>3, <1>4 DEF Smaller
<1>14. /\ first_dirty' \in Nat
       /\ first_dirty' <= d
       /\ \A b \in records : first_dirty' <= height[b]
  <2> HIDE DEF d, records
  <2> QED BY <1>1, <1>2, <1>9, <1>13, DirtiedIs DEF d
<1>15. first_dirty' <= height[fork] + 1
  <2>1. CASE height[fork] >= 0
    BY <1>2, <1>4, <1>13, <1>14, <2>1
  <2>2. CASE height[fork] = -1
    <3>1. PICK a \in Anc[db_peak] : height[a] = 0
      BY <1>2, AncestryIsAChain
    <3>2. a \in records
      BY <2>2, <3>1
    <3> QED BY <1>14, <2>2, <3>1, <3>2
  <2> QED BY <1>2, <2>1, <2>2
<1> QED BY <1>3, <1>7, <1>10, <1>11, <1>12, <1>13, <1>14, <1>15

\* A flush that finds the file leaves in it what memory holds; the file keeps
\* its end if it was longer.
LEMMA OverwrittenIs ==
    ASSUME NEW file \in Seq(Entries), NEW buf \in Seq(Entries), NEW from \in Nat,
           \A h \in 0..(Smaller(from, Len(buf)) - 1) : h < Len(file) /\ file[h + 1] = buf[h + 1]
    PROVE  /\ Overwritten(file, buf, from) \in Seq(Entries)
           /\ Len(Overwritten(file, buf, from)) = Larger(Len(file), Len(buf))
           /\ \A i \in 1..Len(buf) : Overwritten(file, buf, from)[i] = buf[i]
<1> DEFINE size == IF from < Len(buf) THEN Larger(Len(file), Len(buf)) ELSE Len(file)
           at(i) == IF i > from /\ i <= Len(buf) THEN buf[i] ELSE Resize(file, size)[i]
<1>1. Len(file) \in Nat /\ Len(buf) \in Nat
  OBVIOUS
<1>2. from >= Len(buf) => Len(file) >= Len(buf)
  <2> SUFFICES ASSUME from >= Len(buf), Len(buf) # 0 PROVE Len(file) >= Len(buf)
    BY <1>1
  <2>1. Len(buf) - 1 \in 0..(Smaller(from, Len(buf)) - 1)
    BY <1>1 DEF Smaller
  <2>2. Len(buf) - 1 < Len(file)
    BY <2>1
  <2> QED BY <1>1, <2>2
<1>3. size = Larger(Len(file), Len(buf)) /\ size \in Nat /\ size >= Len(file) /\ size >= Len(buf)
  BY <1>1, <1>2 DEF Larger
<1>4. Overwritten(file, buf, from) = [i \in 1..size |-> at(i)]
  BY DEF Overwritten
<1> HIDE DEF size
<1>5. /\ Resize(file, size) \in Seq(Entries)
      /\ Len(Resize(file, size)) = size
      /\ \A i \in 1..size : Resize(file, size)[i] = IF i <= Len(file) THEN file[i] ELSE Zeros
  BY <1>3, ResizeIs
<1>6. \A i \in 1..size : at(i) \in Entries
  <2>1. \A i \in 1..size : Resize(file, size)[i] \in Entries
    BY <1>3, <1>5
  <2>2. \A i \in 1..Len(buf) : buf[i] \in Entries
    OBVIOUS
  <2> QED BY <1>1, <2>1, <2>2
<1>7. ASSUME NEW i \in 1..Len(buf) PROVE at(i) = buf[i]
  <2>1. CASE i > from
    BY <1>1, <2>1
  <2>2. CASE i <= from
    <3>1. i - 1 \in 0..(Smaller(from, Len(buf)) - 1)
      BY <1>1, <2>2 DEF Smaller
    <3>2. i - 1 < Len(file) /\ file[i] = buf[i]
      BY <3>1
    <3>3. i <= Len(file) /\ i \in 1..size
      BY <1>1, <1>3, <3>2
    <3> QED BY <1>1, <1>5, <2>2, <3>2, <3>3
  <2> QED BY <1>1, <2>1, <2>2
<1> HIDE DEF at
<1>8. Overwritten(file, buf, from) \in [1..size -> Entries]
  BY <1>4, <1>6
<1>9. Overwritten(file, buf, from) \in Seq(Entries) /\ Len(Overwritten(file, buf, from)) = size
  BY <1>3, <1>8
<1>10. \A i \in 1..Len(buf) : Overwritten(file, buf, from)[i] = buf[i]
  BY <1>1, <1>3, <1>4, <1>7
<1> QED BY <1>3, <1>9, <1>10

\* create() sets every block from the peak down to the first match: an entry
\* that it leaves alone comes from the file, and no entry that it leaves alone
\* is beyond the end of the file.
LEMMA CreateDoes ==
    ASSUME SizeInv, Create
    PROVE  /\ height_to_hash' \in Seq(Entries)
           /\ Len(height_to_hash') = height[db_peak] + 1
           /\ first_dirty' \in Nat
           /\ first_dirty' <= height[db_peak] + 1
           /\ counter' \in Nat
           /\ \A h \in Nat : h < first_dirty' => /\ h < Len(FileBuffer)
                                                /\ height_to_hash'[h + 1] = FileBuffer[h + 1]
           /\ \A a \in Anc[db_peak] :
                 \/ height_to_hash'[height[a] + 1] = a
                 \/ /\ height_to_hash'[height[a] + 1] = FileBuffer[height[a] + 1]
                    /\ \E x \in Anc[db_peak] : /\ height[x] >= height[a]
                                               /\ height[x] < Len(FileBuffer)
                                               /\ FileBuffer[height[x] + 1] = x
<1> DEFINE H == height[db_peak]
           buf == Resize(FileBuffer, H + 1)
           top == IF buf[H + 1] = db_peak THEN {} ELSE {db_peak}
           set == Visited(buf) \cup top
<1>1. /\ pc = "down" /\ db_peak # GENESIS_CHALLENGE
      /\ height_to_hash' = SetHashes(buf, set)
      /\ first_dirty' = Dirtied(H + 1, set)
      /\ counter' = Cardinality(set)
  BY DEF Create
<1>2. db_peak \in Blocks /\ db_peak \in Tips /\ H \in Nat /\ db_peak \in Anc[db_peak]
  BY <1>1, TipHeights DEF SizeInv, TypeOK, Tips
<1>3. \A a \in Anc[db_peak] : a \in Blocks /\ a # Zeros /\ height[a] \in 0..H
  BY <1>2, AncBlocks, PlaceholderAssumption DEF Tips
<1>4. FileBuffer \in Seq(Entries) /\ Len(FileBuffer) \in Nat
  BY DEF SizeInv, TypeOK, FileBuffer, Entries
<1>5. /\ buf \in Seq(Entries) /\ Len(buf) = H + 1
      /\ \A i \in 1..(H + 1) : buf[i] = IF i <= Len(FileBuffer) THEN FileBuffer[i] ELSE Zeros
  <2> HIDE DEF H
  <2>1. H + 1 \in Nat
    BY <1>2
  <2> QED BY <1>4, <2>1, ResizeIs
<1> HIDE DEF buf
<1>6. set \subseteq Anc[db_peak]
  BY <1>2 DEF Visited, ProperAnc
<1>7. /\ height_to_hash' \in Seq(Entries)
      /\ Len(height_to_hash') = H + 1
      /\ \A b \in set : height[b] + 1 \in 1..(H + 1) => height_to_hash'[height[b] + 1] = b
      /\ \A i \in 1..(H + 1) : (\A b \in set : height[b] # i - 1) => height_to_hash'[i] = buf[i]
  <2> HIDE DEF set
  <2> QED BY <1>1, <1>2, <1>5, <1>6, SetHashesIs
<1>8. /\ first_dirty' \in Nat
      /\ first_dirty' <= H + 1
      /\ \A b \in set : first_dirty' <= height[b]
  <2> HIDE DEF set, H
  <2>1. H + 1 \in Nat
    BY <1>2
  <2> QED BY <1>1, <1>2, <1>6, <2>1, DirtiedIs
<1>9. counter' \in Nat
  <2> HIDE DEF set
  <2>1. set \in SUBSET Anc[db_peak] /\ IsFiniteSet(Anc[db_peak])
    BY <1>2, <1>6, AncFinite
  <2>2. IsFiniteSet(set)
    BY <2>1, FS_Subset
  <2> QED BY <1>1, <2>2, FS_CardinalityType
\* A match is an entry of the file.
<1>10. ASSUME NEW x \in Anc[db_peak], buf[height[x] + 1] = x
       PROVE  height[x] < Len(FileBuffer) /\ FileBuffer[height[x] + 1] = x
  <2>1. height[x] + 1 \in 1..(H + 1) /\ x # Zeros /\ height[x] \in Nat
    BY <1>2, <1>3
  <2> QED BY <1>4, <1>5, <1>10, <2>1
\* A block that is not set is at or below a match.
<1>11. ASSUME NEW a \in Anc[db_peak], a \notin set
       PROVE  \E x \in Anc[db_peak] : height[x] >= height[a] /\ buf[height[x] + 1] = x
  <2>1. CASE a = db_peak
    BY <1>2, <1>3, <1>11, <2>1
  <2>2. CASE a # db_peak
    <3>1. a \in ProperAnc(db_peak) /\ a \notin Visited(buf)
      BY <1>11, <2>2 DEF ProperAnc
    <3>2. PICK x \in ProperAnc(db_peak) : height[x] >= height[a] /\ Matches(buf, x)
      BY <3>1 DEF Visited
    <3> QED BY <3>2 DEF ProperAnc, Matches
  <2> QED BY <2>1, <2>2
<1> HIDE DEF set
<1>12. ASSUME NEW h \in Nat, h < first_dirty'
       PROVE  h < Len(FileBuffer) /\ height_to_hash'[h + 1] = FileBuffer[h + 1]
  <2>1. h \in 0..H /\ h + 1 \in 1..(H + 1)
    BY <1>2, <1>8, <1>12
  <2>2. PICK a \in Anc[db_peak] : height[a] = h
    BY <1>2, <2>1, AncestryIsAChain
  <2>3. a \notin set
    <3>1. ASSUME NEW d \in Nat, d <= height[a], h < d PROVE FALSE
      BY <1>12, <2>2, <3>1
    <3> QED BY <1>8, <1>12, <3>1
  <2>4. PICK x \in Anc[db_peak] : height[x] >= height[a] /\ buf[height[x] + 1] = x
    BY <1>11, <2>3
  <2>5. h < Len(FileBuffer)
    BY <1>3, <1>4, <1>10, <2>1, <2>2, <2>4
  <2>6. \A b \in set : height[b] # (h + 1) - 1
    <3>1. ASSUME NEW b \in set, NEW d \in Nat, d <= height[b], h < d
          PROVE  height[b] # (h + 1) - 1
      BY <1>3, <1>6, <1>12, <3>1
    <3> QED BY <1>8, <1>12, <3>1
  <2>7. height_to_hash'[h + 1] = buf[h + 1]
    BY <1>7, <2>1, <2>6
  <2> QED BY <1>4, <1>5, <2>1, <2>5, <2>7
<1>13. ASSUME NEW a \in Anc[db_peak], height_to_hash'[height[a] + 1] # a
       PROVE  /\ height_to_hash'[height[a] + 1] = FileBuffer[height[a] + 1]
              /\ \E x \in Anc[db_peak] : /\ height[x] >= height[a]
                                         /\ height[x] < Len(FileBuffer)
                                         /\ FileBuffer[height[x] + 1] = x
  <2>1. height[a] \in 0..H /\ height[a] + 1 \in 1..(H + 1)
    BY <1>2, <1>3
  <2>2. a \notin set
    BY <1>7, <1>13, <2>1
  <2>3. PICK x \in Anc[db_peak] : height[x] >= height[a] /\ buf[height[x] + 1] = x
    BY <1>11, <2>2
  <2>4. height[x] < Len(FileBuffer) /\ FileBuffer[height[x] + 1] = x
    BY <1>10, <2>3
  <2>5. ASSUME NEW b \in set, height[b] = (height[a] + 1) - 1 PROVE FALSE
    <3>1. b \in Anc[db_peak] /\ height[b] = height[a]
      BY <1>6, <2>1, <2>5
    <3> QED BY <1>2, <2>2, <3>1, AncUnique
  <2>6. height_to_hash'[height[a] + 1] = buf[height[a] + 1]
    BY <1>7, <2>1, <2>5
  <2>7. height[a] + 1 <= Len(FileBuffer)
    BY <1>3, <1>4, <2>1, <2>3, <2>4
  <2> QED BY <1>5, <2>1, <2>3, <2>4, <2>6, <2>7
<1> QED BY <1>7, <1>8, <1>9, <1>12, <1>13

-----------------------------------------------------------------------------
(* The invariant that holds for every tree *)

\* DirtyTracked, given that first_dirty is at most the size of the map.
LEMMA DirtyRange ==
    ASSUME NEW d \in Nat, NEW l \in Nat, d <= l
    PROVE  \A h : h \in 0..(Smaller(d, l) - 1) <=> h \in Nat /\ h < d
BY DEF Smaller

LEMMA EmptyMap == <<>> \in Seq(Entries) /\ Len(<<>>) = 0
OBVIOUS

LEMMA SummariesSet ==
    ASSUME NEW ses \in SUBSET SubEpochBlocks, NEW bs
    PROVE  SetSummaries(ses, bs) \subseteq SubEpochBlocks
BY DEF SetSummaries

LEMMA InitSizes == Init => SizeInv
<1> SUFFICES ASSUME Init PROVE SizeInv
  OBVIOUS
<1>1. TypeOK
  BY EmptyMap, TipHeights DEF Init, TypeOK, Entries
<1>2. Sizes
  BY EmptyMap, TipHeights DEF Init, Sizes, InUse
<1>3. DirtyTracked
  BY DEF Init, DirtyTracked
<1> QED BY <1>1, <1>2, <1>3 DEF SizeInv

LEMMA UpdateKeepsSizes == ASSUME SizeInv, UpdateHeights PROVE SizeInv'
<1>1. /\ height_to_hash' \in Seq(Entries)
      /\ Len(height_to_hash') = height[db_peak] + 1
      /\ first_dirty' \in Nat /\ first_dirty' <= first_dirty /\ first_dirty' <= height[fork] + 1
      /\ \A i \in 1..(height[fork] + 1) : height_to_hash'[i] = height_to_hash[i]
  BY UpdateHeightsDoes
<1>2. /\ pc = "update" /\ pc' \in {"idle", "flush"}
      /\ counter' = counter + (height[db_peak] - height[fork])
      /\ db_peak' = db_peak /\ fork' = GENESIS_CHALLENGE
      /\ height_to_hash_file' = height_to_hash_file /\ ses_file' = ses_file
  BY DEF UpdateHeights, FlushDue, files
<1>3. /\ db_peak \in Blocks /\ height[db_peak] \in Nat
      /\ height[fork] \in Int /\ height[fork] >= -1 /\ height[fork] <= height[db_peak]
      /\ height[fork] + 1 <= Len(height_to_hash)
  BY <1>2, TipHeights, AncBlocks DEF SizeInv, Sizes, TypeOK
<1>4. sub_epoch_summaries' \subseteq SubEpochBlocks
  BY SummariesSet DEF UpdateHeights, SizeInv, TypeOK
<1>5. TypeOK'
  <2>1. counter' \in Nat
    BY <1>2, <1>3 DEF SizeInv, TypeOK
  <2> QED BY <1>1, <1>2, <1>3, <1>4, <2>1, TipHeights DEF SizeInv, TypeOK, Entries
<1>6. first_dirty' <= Len(height_to_hash')
  BY <1>1, <1>3
<1>7. Sizes'
  BY <1>1, <1>2, <1>6 DEF Sizes, InUse
<1>8. DirtyTracked'
  <2> SUFFICES ASSUME height_to_hash_file # Missing,
                      NEW h \in 0..(Smaller(first_dirty', Len(height_to_hash')) - 1)
               PROVE  /\ h < Len(height_to_hash_file)
                      /\ height_to_hash_file[h + 1] = height_to_hash'[h + 1]
    BY <1>2 DEF DirtyTracked
  <2>1. h \in Nat /\ h < first_dirty'
    <3>1. Len(height_to_hash') \in Nat
      BY <1>1
    <3> QED BY <1>1, <1>6, <3>1, DirtyRange
  <2>2. h < first_dirty /\ h + 1 \in 1..(height[fork] + 1)
    <3>1. ASSUME NEW d \in Nat, h < d, d <= first_dirty, d <= height[fork] + 1
          PROVE  h < first_dirty /\ h + 1 \in 1..(height[fork] + 1)
      BY <1>3, <2>1, <3>1 DEF SizeInv, TypeOK
    <3> QED BY <1>1, <2>1, <3>1
  <2>3. h \in 0..(Smaller(first_dirty, Len(height_to_hash)) - 1)
    <3>1. first_dirty \in Nat /\ Len(height_to_hash) \in Nat /\ first_dirty <= Len(height_to_hash)
      BY DEF SizeInv, TypeOK, Sizes
    <3> QED BY <2>1, <2>2, <3>1, DirtyRange
  <2> QED BY <1>1, <1>2, <2>2, <2>3 DEF SizeInv, DirtyTracked
<1> QED BY <1>5, <1>7, <1>8 DEF SizeInv

\* Writing the file brings all of it up to date.
LEMMA WriteDoes ==
    ASSUME SizeInv, WriteHeightToHash
    PROVE  /\ height_to_hash_file' \in Seq(Entries)
           /\ Len(height_to_hash_file') = IF height_to_hash_file = Missing
                                          THEN Len(height_to_hash)
                                          ELSE Larger(Len(height_to_hash_file), Len(height_to_hash))
           /\ \A i \in 1..Len(height_to_hash) : height_to_hash_file'[i] = height_to_hash[i]
<1>1. height_to_hash \in Seq(Entries) /\ first_dirty \in Nat /\ pc = "flush"
  BY DEF SizeInv, TypeOK, Entries, WriteHeightToHash
<1>2. CASE height_to_hash_file = Missing
  BY <1>1, <1>2 DEF WriteHeightToHash
<1>3. CASE height_to_hash_file # Missing
  <2>1. height_to_hash_file \in Seq(Entries)
    BY <1>3 DEF SizeInv, TypeOK, Entries
  <2>2. \A h \in 0..(Smaller(first_dirty, Len(height_to_hash)) - 1) :
            /\ h < Len(height_to_hash_file)
            /\ height_to_hash_file[h + 1] = height_to_hash[h + 1]
    BY <1>1, <1>3 DEF SizeInv, DirtyTracked
  <2>3. height_to_hash_file' = Overwritten(height_to_hash_file, height_to_hash, first_dirty)
    BY <1>3 DEF WriteHeightToHash
  <2> QED BY <1>1, <1>3, <2>1, <2>2, <2>3, OverwrittenIs
<1> QED BY <1>2, <1>3

LEMMA WriteKeepsSizes == ASSUME SizeInv, WriteHeightToHash PROVE SizeInv'
<1>1. /\ height_to_hash_file' \in Seq(Entries)
      /\ Len(height_to_hash_file') >= Len(height_to_hash)
      /\ \A i \in 1..Len(height_to_hash) : height_to_hash_file'[i] = height_to_hash[i]
  <2>1. height_to_hash_file # Missing => Len(height_to_hash_file) \in Nat
    BY DEF SizeInv, TypeOK
  <2>2. Len(height_to_hash) \in Nat
    BY DEF SizeInv, TypeOK
  <2> QED BY <2>1, <2>2, WriteDoes DEF Larger
<1>2. /\ pc = "flush" /\ pc' = "flush_ses" /\ counter' = 0
      /\ first_dirty' = Len(height_to_hash)
      /\ height_to_hash' = height_to_hash /\ db_peak' = db_peak /\ fork' = fork
      /\ sub_epoch_summaries' = sub_epoch_summaries /\ ses_file' = ses_file
  BY DEF WriteHeightToHash
<1>3. height_to_hash \in Seq(Entries) /\ Len(height_to_hash) \in Nat
  BY DEF SizeInv, TypeOK, Entries
<1>4. TypeOK'
  BY <1>1, <1>2, <1>3 DEF SizeInv, TypeOK, Entries
<1>5. Sizes'
  BY <1>2, <1>3 DEF SizeInv, Sizes, InUse
<1>6. DirtyTracked'
  <2> SUFFICES ASSUME NEW h \in 0..(Smaller(Len(height_to_hash), Len(height_to_hash)) - 1)
               PROVE  /\ h < Len(height_to_hash_file')
                      /\ height_to_hash_file'[h + 1] = height_to_hash[h + 1]
    BY <1>2 DEF DirtyTracked
  <2>1. h \in Nat /\ h < Len(height_to_hash) /\ h + 1 \in 1..Len(height_to_hash)
    BY <1>3, DirtyRange
  <2>2. ASSUME NEW l \in Nat, l >= Len(height_to_hash) PROVE h < l
    BY <1>3, <2>1, <2>2
  <2>3. Len(height_to_hash_file') \in Nat
    BY <1>1
  <2> QED BY <1>1, <2>1, <2>2, <2>3
<1> QED BY <1>4, <1>5, <1>6 DEF SizeInv

LEMMA CreateKeepsSizes == ASSUME SizeInv, Create PROVE SizeInv'
<1>1. /\ height_to_hash' \in Seq(Entries)
      /\ Len(height_to_hash') = height[db_peak] + 1
      /\ first_dirty' \in Nat
      /\ first_dirty' <= height[db_peak] + 1
      /\ counter' \in Nat
      /\ \A h \in Nat : h < first_dirty' => /\ h < Len(FileBuffer)
                                            /\ height_to_hash'[h + 1] = FileBuffer[h + 1]
  BY CreateDoes
<1>2. /\ pc' \in {"idle", "flush"} /\ db_peak' = db_peak /\ fork' = fork
      /\ height_to_hash_file' = height_to_hash_file /\ ses_file' = ses_file
  BY DEF Create, FlushDue, files
<1>3. sub_epoch_summaries' \subseteq SubEpochBlocks
  <2>1. FileSummaries \in SUBSET SubEpochBlocks
    BY DEF SizeInv, TypeOK, FileSummaries
  <2> QED BY <2>1, SummariesSet DEF Create
<1>4. TypeOK'
  BY <1>1, <1>2, <1>3 DEF SizeInv, TypeOK, Entries
<1>5. Sizes'
  BY <1>1, <1>2 DEF Sizes, InUse
<1>6. DirtyTracked'
  <2> SUFFICES ASSUME height_to_hash_file # Missing,
                      NEW h \in 0..(Smaller(first_dirty', Len(height_to_hash')) - 1)
               PROVE  /\ h < Len(height_to_hash_file)
                      /\ height_to_hash_file[h + 1] = height_to_hash'[h + 1]
    BY <1>2 DEF DirtyTracked
  <2>1. h \in Nat /\ h < first_dirty'
    <3>1. Len(height_to_hash') \in Nat /\ first_dirty' <= Len(height_to_hash')
      BY <1>1
    <3> QED BY <1>1, <3>1, DirtyRange
  <2> QED BY <1>1, <2>1 DEF FileBuffer
<1> QED BY <1>4, <1>5, <1>6 DEF SizeInv

LEMMA StepSizes == SizeInv /\ [Next]_vars => SizeInv'
<1> SUFFICES ASSUME SizeInv, [Next]_vars PROVE SizeInv'
  OBVIOUS
<1>1. ASSUME NEW b \in Blocks, NEW f \in Tips, NewPeak(b, f) PROVE SizeInv'
  <2>1. /\ pc = "idle" /\ pc' = "update" /\ db_peak' = b /\ fork' = f
        /\ f \in (Anc[b] \cap Anc[db_peak]) \cup {GENESIS_CHALLENGE}
        /\ height_to_hash' = height_to_hash /\ counter' = counter /\ first_dirty' = first_dirty
        /\ sub_epoch_summaries' = sub_epoch_summaries
        /\ height_to_hash_file' = height_to_hash_file /\ ses_file' = ses_file
    BY <1>1 DEF NewPeak, files
  <2>2. TypeOK'
    BY <2>1, TipHeights DEF SizeInv, TypeOK
  <2>3. height[f] + 1 <= Len(height_to_hash)
    <3>1. Len(height_to_hash) = height[db_peak] + 1 /\ db_peak \in Tips
      BY <2>1 DEF SizeInv, Sizes, InUse, TypeOK
    <3>2. height[f] <= height[db_peak] /\ height[f] \in Int /\ height[db_peak] \in Int
      BY <2>1, <3>1, AncBlocks, TipHeights
    <3> QED BY <3>1, <3>2
  <2>4. Sizes'
    BY <2>1, <2>3 DEF SizeInv, Sizes, InUse
  <2>5. DirtyTracked'
    BY <2>1 DEF SizeInv, DirtyTracked
  <2> QED BY <2>2, <2>4, <2>5 DEF SizeInv
<1>2. CASE WriteSubEpochSummaries
  BY <1>2 DEF WriteSubEpochSummaries, SizeInv, TypeOK, Sizes, InUse, DirtyTracked
<1>3. CASE FlushFails
  BY <1>3 DEF FlushFails, SizeInv, TypeOK, Sizes, InUse, DirtyTracked, files
<1>4. CASE Crash
  BY <1>4, EmptyMap, TipHeights DEF Crash, SizeInv, TypeOK, Sizes, InUse, DirtyTracked, files, Entries
<1>5. CASE DeleteFile
  BY <1>5 DEF DeleteFile, SizeInv, TypeOK, Sizes, InUse, DirtyTracked
<1>6. CASE CreateEmpty
  <2>1. /\ height_to_hash = <<>> /\ pc' = "idle" /\ db_peak = GENESIS_CHALLENGE
        /\ UNCHANGED <<db_peak, height_to_hash, sub_epoch_summaries, counter, first_dirty, files, fork>>
    BY <1>6 DEF CreateEmpty, SizeInv, Sizes
  <2>2. first_dirty = 0
    BY <2>1, EmptyMap DEF SizeInv, Sizes, TypeOK
  <2>3. TypeOK' /\ Sizes'
    BY <2>1, <2>2, EmptyMap, TipHeights DEF SizeInv, TypeOK, Sizes, InUse, files
  <2>4. DirtyTracked'
    BY <2>1, <2>2, EmptyMap DEF DirtyTracked, Smaller
  <2> QED BY <2>3, <2>4 DEF SizeInv
<1>7. CASE UNCHANGED vars
  BY <1>7 DEF vars, files, SizeInv, TypeOK, Sizes, InUse, DirtyTracked
<1> QED BY <1>1, <1>2, <1>3, <1>4, <1>5, <1>6, <1>7, UpdateKeepsSizes, WriteKeepsSizes,
          CreateKeepsSizes DEF Next

\* The invariant holds for every tree.
THEOREM SizesCorrect == Spec => []SizeInv
BY InitSizes, StepSizes, PTL DEF Spec

\* Type correctness of the height map, for every block tree.
THEOREM TypeCorrect == Spec => []TypeOK
<1>1. SizeInv => TypeOK
  BY DEF SizeInv
<1> QED BY <1>1, SizesCorrect, PTL

\* Below first_dirty the file holds what memory holds, in every reachable state:
\* maybe_flush() may begin to write there, whatever reorganisations, failed
\* flushes, crashes and restarts came before.
THEOREM DirtyCorrect == Spec => []DirtyTracked
<1>1. SizeInv => DirtyTracked
  BY DEF SizeInv
<1> QED BY <1>1, SizesCorrect, PTL

-----------------------------------------------------------------------------
(* The invariant that holds as long as the peak does not get lower *)

\* If the entry of the map of q at the height of x is x, the map of q has the
\* whole chain of x.
LEMMA EntryOfMap ==
    ASSUME NEW q \in Tips, NEW buf, IsMapOf(buf, q),
           NEW x \in Blocks, height[x] < Len(buf), buf[height[x] + 1] = x
    PROVE  x \in Anc[q]
<1>1. height[x] \in 0..height[q] /\ q \in Blocks
  BY TipHeights DEF IsMapOf, Tips
<1>2. PICK y \in Anc[q] : height[y] = height[x]
  BY <1>1, AncestryIsAChain
<1> QED BY <1>2 DEF IsMapOf

LEMMA InitChains == Init => ChainInv
BY EmptyMap, TipHeights DEF Init, ChainInv, FileIsChain, MemoryIsChain, IsMapOf, InUse

LEMMA PeakKeepsChains ==
    ASSUME PeakRises, SizeInv, ChainInv, NEW b \in Blocks, NEW f \in Tips, NewPeak(b, f)
    PROVE  ChainInv'
<1>1. /\ pc = "idle" /\ pc' = "update" /\ db_peak' = b /\ fork' = f
      /\ f \in (Anc[b] \cap Anc[db_peak]) \cup {GENESIS_CHALLENGE}
      /\ height_to_hash' = height_to_hash /\ height_to_hash_file' = height_to_hash_file
  BY DEF NewPeak, files
<1>2. db_peak \in Tips
  BY DEF SizeInv, TypeOK
<1>3. height[db_peak] <= height[b]
  BY <1>1 DEF PeakRises
<1>4. FileIsChain'
  <2> SUFFICES ASSUME height_to_hash_file # Missing
               PROVE  \E q \in Tips : height[q] <= height[b] /\ IsMapOf(height_to_hash_file, q)
    BY <1>1 DEF FileIsChain, IsMapOf
  <2>1. PICK q \in Tips : height[q] <= height[db_peak] /\ IsMapOf(height_to_hash_file, q)
    BY DEF ChainInv, FileIsChain
  <2>2. height[q] <= height[b]
    BY <1>2, <1>3, <2>1, TipHeights
  <2> QED BY <2>1, <2>2
<1>5. MemoryIsChain'
  <2>1. IsMapOf(height_to_hash, db_peak)
    BY <1>1 DEF ChainInv, MemoryIsChain, InUse
  <2> QED BY <1>1, <1>2, <2>1 DEF MemoryIsChain, InUse, IsMapOf
<1> QED BY <1>4, <1>5 DEF ChainInv

LEMMA UpdateKeepsChains == ASSUME SizeInv, ChainInv, UpdateHeights PROVE ChainInv'
<1>1. /\ pc = "update" /\ pc' \in {"idle", "flush"} /\ db_peak' = db_peak
      /\ height_to_hash_file' = height_to_hash_file
  BY DEF UpdateHeights, FlushDue, files
<1>2. FileIsChain'
  BY <1>1 DEF ChainInv, FileIsChain, IsMapOf
<1>3. /\ db_peak \in Tips /\ fork \in Tips
      /\ fork \in Anc[db_peak] \cup {GENESIS_CHALLENGE}
  BY <1>1 DEF SizeInv, TypeOK, Sizes
<1>4. PICK p \in Tips : /\ IsMapOf(height_to_hash, p)
                        /\ fork \in Anc[p] \cup {GENESIS_CHALLENGE}
  BY <1>1 DEF ChainInv, MemoryIsChain
<1>5. ASSUME NEW a \in Anc[db_peak] PROVE height_to_hash'[height[a] + 1] = a
  <2>1. CASE height[a] > height[fork]
    BY <2>1, UpdateHeightsDoes
  <2>2. CASE height[a] <= height[fork]
    <3>1. height[a] \in Nat /\ height[fork] \in Int
      BY <1>3, AncBlocks
    <3>2. fork \in Anc[db_peak] /\ fork \in Anc[p]
      BY <1>3, <1>4, <2>2, <3>1, TipHeights
    <3>3. a \in Anc[fork]
      BY <1>3, <2>2, <3>2, AncComparable
    <3>4. a \in Anc[p]
      BY <1>3, <1>4, <3>2, <3>3, AncBelow
    <3>5. height[a] + 1 \in 1..(height[fork] + 1)
      BY <2>2, <3>1
    <3>6. height_to_hash[height[a] + 1] = a
      BY <1>4, <3>4 DEF IsMapOf
    <3> QED BY <3>5, <3>6, UpdateHeightsDoes
  <2> QED BY <1>3, <2>1, <2>2, AncBlocks
<1>6. Len(height_to_hash') = height[db_peak] + 1
  BY UpdateHeightsDoes
<1>7. MemoryIsChain'
  BY <1>1, <1>5, <1>6 DEF MemoryIsChain, InUse, IsMapOf
<1> QED BY <1>2, <1>7 DEF ChainInv

\* The file is no longer than memory, so a flush makes it the same.
LEMMA WriteKeepsChains == ASSUME SizeInv, ChainInv, WriteHeightToHash PROVE ChainInv'
<1>1. /\ pc = "flush" /\ pc' = "flush_ses" /\ db_peak' = db_peak
      /\ height_to_hash' = height_to_hash
  BY DEF WriteHeightToHash
<1>2. /\ db_peak \in Tips /\ height[db_peak] \in Int /\ height[db_peak] >= -1
      /\ IsMapOf(height_to_hash, db_peak)
  BY <1>1, TipHeights DEF SizeInv, TypeOK, ChainInv, MemoryIsChain, InUse
<1>3. Len(height_to_hash) = height[db_peak] + 1
  BY <1>2 DEF IsMapOf
<1>4. Len(height_to_hash_file') = Len(height_to_hash)
  <2>1. CASE height_to_hash_file = Missing
    BY <2>1, WriteDoes
  <2>2. CASE height_to_hash_file # Missing
    <3>1. PICK q \in Tips : height[q] <= height[db_peak] /\ IsMapOf(height_to_hash_file, q)
      BY <2>2 DEF ChainInv, FileIsChain
    <3>2. Len(height_to_hash_file) = height[q] + 1 /\ height[q] \in Int
      BY <3>1, TipHeights DEF IsMapOf
    <3>3. Larger(Len(height_to_hash_file), Len(height_to_hash)) = Len(height_to_hash)
      BY <1>2, <1>3, <3>1, <3>2 DEF Larger
    <3> QED BY <2>2, <3>3, WriteDoes
  <2> QED BY <2>1, <2>2
<1>5. ASSUME NEW a \in Anc[db_peak] PROVE height_to_hash_file'[height[a] + 1] = a
  <2>1. height[a] + 1 \in 1..Len(height_to_hash)
    BY <1>2, <1>3, AncBlocks
  <2>2. height_to_hash[height[a] + 1] = a
    BY <1>2 DEF IsMapOf
  <2> QED BY <2>1, <2>2, WriteDoes
<1>6. FileIsChain'
  BY <1>1, <1>2, <1>3, <1>4, <1>5 DEF FileIsChain, IsMapOf
<1>7. MemoryIsChain'
  BY <1>1, <1>2 DEF MemoryIsChain, InUse, IsMapOf
<1> QED BY <1>6, <1>7 DEF ChainInv

\* The file is the map of some chain: where it has a block of the main chain it
\* has all blocks below it, so the walk down from the peak may stop there.
LEMMA CreateKeepsChains == ASSUME SizeInv, ChainInv, Create PROVE ChainInv'
<1>1. /\ pc' \in {"idle", "flush"} /\ db_peak' = db_peak
      /\ height_to_hash_file' = height_to_hash_file
  BY DEF Create, FlushDue, files
<1>2. db_peak \in Tips
  BY DEF SizeInv, TypeOK
<1>3. ASSUME NEW a \in Anc[db_peak] PROVE height_to_hash'[height[a] + 1] = a
  <2> SUFFICES ASSUME height_to_hash'[height[a] + 1] # a PROVE FALSE
    OBVIOUS
  <2>1. height_to_hash'[height[a] + 1] = FileBuffer[height[a] + 1]
    BY CreateDoes
  <2>2. PICK x \in Anc[db_peak] : /\ height[x] >= height[a]
                                  /\ height[x] < Len(FileBuffer)
                                  /\ FileBuffer[height[x] + 1] = x
    BY CreateDoes
  <2>3. x \in Blocks /\ x \in Tips /\ height[x] \in Nat /\ height[a] \in Nat
    BY <1>2, AncBlocks, TipHeights
  <2>4. height_to_hash_file # Missing /\ FileBuffer = height_to_hash_file
    BY <2>2, <2>3, EmptyMap DEF FileBuffer
  <2>5. PICK q \in Tips : IsMapOf(FileBuffer, q)
    BY <2>4 DEF ChainInv, FileIsChain
  <2>6. x \in Anc[q]
    BY <2>2, <2>3, <2>5, EntryOfMap
  <2>7. a \in Anc[x]
    BY <1>2, <2>2, <2>3, AncComparable
  <2>8. a \in Anc[q]
    BY <2>3, <2>5, <2>6, <2>7, AncBelow
  <2> QED BY <2>1, <2>5, <2>8 DEF IsMapOf
<1>4. Len(height_to_hash') = height[db_peak] + 1
  BY CreateDoes
<1>5. MemoryIsChain'
  BY <1>1, <1>3, <1>4 DEF MemoryIsChain, InUse, IsMapOf
<1>6. FileIsChain'
  BY <1>1 DEF ChainInv, FileIsChain, IsMapOf
<1> QED BY <1>5, <1>6 DEF ChainInv

LEMMA StepChains ==
    ASSUME SizeInv, ChainInv, [Next]_vars, [PeakRises]_vars
    PROVE  ChainInv'
<1>0. PeakRises \/ UNCHANGED vars
  OBVIOUS
<1>1. CASE WriteSubEpochSummaries
  BY <1>1 DEF WriteSubEpochSummaries, ChainInv, FileIsChain, MemoryIsChain, IsMapOf, InUse
<1>2. CASE FlushFails
  BY <1>2 DEF FlushFails, files, ChainInv, FileIsChain, MemoryIsChain, IsMapOf, InUse
<1>3. CASE Crash
  BY <1>3 DEF Crash, files, ChainInv, FileIsChain, MemoryIsChain, IsMapOf, InUse
<1>4. CASE DeleteFile
  BY <1>4 DEF DeleteFile, ChainInv, FileIsChain, MemoryIsChain, IsMapOf, InUse
<1>5. CASE CreateEmpty
  <2>1. /\ height_to_hash = <<>> /\ pc' = "idle" /\ db_peak = GENESIS_CHALLENGE
        /\ UNCHANGED <<db_peak, height_to_hash, height_to_hash_file, fork>>
    BY <1>5 DEF CreateEmpty, SizeInv, Sizes, files
  <2>2. MemoryIsChain'
    BY <2>1, EmptyMap, TipHeights DEF MemoryIsChain, IsMapOf, InUse
  <2>3. FileIsChain'
    BY <2>1 DEF ChainInv, FileIsChain, IsMapOf
  <2> QED BY <2>2, <2>3 DEF ChainInv
<1>6. CASE UNCHANGED vars
  BY <1>6 DEF vars, files, ChainInv, FileIsChain, MemoryIsChain, IsMapOf, InUse
<1> QED BY <1>0, <1>1, <1>2, <1>3, <1>4, <1>5, <1>6, PeakKeepsChains, UpdateKeepsChains,
          WriteKeepsChains, CreateKeepsChains DEF Next

\* As long as no reorganisation lowers the peak, the height map of a running node
\* is the main chain of its database, whenever it crashed, whatever it had flushed
\* by then and whichever file was lost: the walk of _load_blocks_from() may stop
\* at its first match.
THEOREM InSyncCorrect == Spec /\ [][PeakRises]_vars => []HeightToHashInSync
<1>1. Init => ChainInv
  BY InitChains
<1>2. SizeInv /\ ChainInv /\ [Next]_vars /\ [PeakRises]_vars => ChainInv'
  BY StepChains
<1>3. SizeInv /\ ChainInv => HeightToHashInSync
  BY DEF ChainInv, MemoryIsChain, IsMapOf, HeightToHashInSync
<1> QED BY <1>1, <1>2, <1>3, SizesCorrect, PTL DEF Spec

\* If _reconsider_peak() prefers no block of the tree to a higher one, by weight
\* or, between equals, by iterations, no reorganisation lowers the peak, and the
\* map is the main chain in every behaviour.
COROLLARY InSyncOnRisingTrees == ASSUME PreferredIsHigher PROVE Spec => []HeightToHashInSync
<1>1. ASSUME SizeInv, [Next]_vars PROVE PeakRises \/ UNCHANGED vars
  <2>1. db_peak \in Tips /\ height[db_peak] \in Int
    BY <1>1, TipHeights DEF SizeInv, TypeOK
  <2>2. ASSUME NEW b \in Blocks, NEW f \in Tips, NewPeak(b, f) PROVE PeakRises
    <3>1. db_peak' = b /\ (db_peak = GENESIS_CHALLENGE \/ Preferred(b, db_peak))
      BY <2>2 DEF NewPeak
    <3> QED BY <2>1, <3>1, TipHeights DEF PreferredIsHigher, PeakRises, Tips
  <2>3. db_peak' = db_peak \/ \E b \in Blocks, f \in Tips : NewPeak(b, f)
    BY <1>1 DEF Next, vars, UpdateHeights, WriteHeightToHash, WriteSubEpochSummaries, FlushFails, Crash,
                DeleteFile, CreateEmpty, Create
  <2> QED BY <2>1, <2>2, <2>3 DEF PeakRises
<1>2. SizeInv /\ [Next]_vars => [PeakRises]_vars
  BY <1>1
<1> QED BY <1>2, InSyncCorrect, SizesCorrect, PTL DEF Spec

-----------------------------------------------------------------------------
(* The summaries *)

\* The summaries that the chain of p includes
SummariesOf(p) == Anc[p] \cap SubEpochBlocks

\* The file has no summary of another chain at or above the height of the peak.
NoneAbove == \A x \in FileSummaries : height[x] >= height[db_peak] => x \in Anc[db_peak]

\* Files and memory hold the summaries of some chain, which on a fork is not that
\* of the database yet.
SummariesInv ==
    /\ ses_file # Missing => \E q \in Tips : ses_file = SummariesOf(q)
    /\ InUse => sub_epoch_summaries = SummariesOf(db_peak)
    /\ pc = "update" => \E p \in Tips : /\ sub_epoch_summaries = SummariesOf(p)
                                        /\ fork \in Anc[p] \cup {GENESIS_CHALLENGE}
    /\ pc = "down" => sub_epoch_summaries = {}

LEMMA NoSummaries == SummariesOf(GENESIS_CHALLENGE) = {}
BY TipHeights DEF SummariesOf

\* The summaries up to the fork are those of both chains, and the rest are set.
LEMMA UpdateKeepsSummaries == ASSUME SizeInv, SummariesInv, UpdateHeights PROVE SummariesInv'
<1> DEFINE fork_height == Larger(height[fork], 0)
           records == {a \in Anc[db_peak] : height[a] > height[fork]}
           kept == {x \in sub_epoch_summaries : height[x] <= fork_height}
<1>1. /\ pc = "update" /\ pc' \in {"idle", "flush"} /\ db_peak' = db_peak /\ ses_file' = ses_file
      /\ sub_epoch_summaries' = SetSummaries(kept, records \cap SubEpochBlocks)
  BY DEF UpdateHeights, FlushDue, files
<1>2. /\ db_peak \in Tips /\ fork \in Tips /\ fork \in Anc[db_peak] \cup {GENESIS_CHALLENGE}
      /\ height[fork] \in Int /\ height[fork] >= -1
  BY <1>1, TipHeights DEF SizeInv, TypeOK, Sizes
<1>3. PICK p \in Tips : sub_epoch_summaries = SummariesOf(p) /\ fork \in Anc[p] \cup {GENESIS_CHALLENGE}
  BY <1>1 DEF SummariesInv
<1>4. \A x : x \in kept <=> x \in SummariesOf(fork)
  <2>1. \A x \in SummariesOf(p) : height[x] \in Nat \ {0}
    BY <1>3, AncBlocks, SubEpochAssumption DEF SummariesOf
  <2>2. \A x \in SummariesOf(p) : height[x] <= fork_height <=> height[x] <= height[fork]
    BY <1>2, <2>1 DEF Larger
  <2>3. Anc[fork] = {a \in Anc[p] : height[a] <= height[fork]}
    BY <1>2, <1>3, AncBelow
  <2> QED BY <1>3, <2>2, <2>3 DEF SummariesOf
<1>5. Anc[fork] = {a \in Anc[db_peak] : height[a] <= height[fork]}
  BY <1>2, AncBelow
<1>6. \A x \in Anc[db_peak] : height[x] \in Nat /\ (x \in Anc[fork] <=> x \notin records)
  BY <1>2, <1>5, AncBlocks
<1>7. \A x \in Anc[fork], b \in records : height[b] # height[x]
  BY <1>2, <1>5, <1>6
<1> HIDE DEF kept, records
<1>8. SetSummaries(kept, records \cap SubEpochBlocks) = SummariesOf(db_peak)
  <2>1. SetSummaries(kept, records \cap SubEpochBlocks) = kept \cup (records \cap SubEpochBlocks)
    BY <1>4, <1>7 DEF SetSummaries, SummariesOf
  <2>2. kept \cup (records \cap SubEpochBlocks) = SummariesOf(db_peak)
    BY <1>4, <1>5, <1>6 DEF SummariesOf, records
  <2> QED BY <2>1, <2>2
<1> QED BY <1>1, <1>8 DEF SummariesInv, InUse, SummariesOf

\* The file has the summaries of some chain: where the walk finds one of the main
\* chain, the ones below are the main chain's too.
LEMMA CreateKeepsSummaries == ASSUME SizeInv, SummariesInv, Create, NoneAbove PROVE SummariesInv'
<1> DEFINE buf == Resize(FileBuffer, height[db_peak] + 1)
           V == Visited(buf)
           B == V \cup ({db_peak} \cap SubEpochBlocks)
<1>1. /\ pc' \in {"idle", "flush"} /\ db_peak' = db_peak /\ ses_file' = ses_file
      /\ sub_epoch_summaries' = SetSummaries(FileSummaries, B)
      /\ db_peak # GENESIS_CHALLENGE
  BY DEF Create, FlushDue, files
<1>2. db_peak \in Blocks /\ db_peak \in Tips /\ height[db_peak] \in Nat /\ db_peak \in Anc[db_peak]
  BY <1>1, TipHeights DEF SizeInv, TypeOK, Tips
<1>3. PICK q \in Tips : FileSummaries = SummariesOf(q)
  BY NoSummaries, TipHeights DEF SummariesInv, FileSummaries
<1>4. /\ V \subseteq ProperAnc(db_peak)
      /\ \A a \in ProperAnc(db_peak) : a \notin V =>
            \E x \in ProperAnc(db_peak) : height[x] >= height[a] /\ x \in FileSummaries
  BY DEF Visited, Matches
<1> HIDE DEF V
<1>5. /\ ProperAnc(db_peak) \subseteq Anc[db_peak]
      /\ \A a \in Anc[db_peak] : a = db_peak \/ a \in ProperAnc(db_peak)
      /\ \A a \in Anc[db_peak] : height[a] \in Nat /\ a \in Tips
  BY <1>2, AncBlocks, TipHeights DEF ProperAnc
\* a summary below a match is one of the main chain and of the file, or of neither
<1>6. ASSUME NEW a \in ProperAnc(db_peak), a \notin V
      PROVE  a \in Anc[q] /\ \A y \in Anc[q] : height[y] = height[a] => y = a
  <2>1. PICK x \in ProperAnc(db_peak) : height[x] >= height[a] /\ x \in FileSummaries
    BY <1>4, <1>6
  <2>2. x \in Anc[q] /\ x \in Anc[db_peak] /\ a \in Anc[db_peak] /\ x \in Tips /\ height[x] \in Nat /\ height[a] \in Nat
    BY <1>3, <1>5, <2>1 DEF SummariesOf
  <2>3. a \in Anc[x]
    BY <1>2, <2>1, <2>2, AncComparable
  <2>4. a \in Anc[q]
    BY <2>2, <2>3, AncBelow
  <2> QED BY <2>4, AncUnique
<1>7. ASSUME NEW x \in FileSummaries, \A b \in B : height[b] # height[x]
      PROVE  x \in SummariesOf(db_peak)
  <2>1. x \in Anc[q] /\ x \in SubEpochBlocks /\ height[x] \in Nat
    BY <1>3, AncBlocks DEF SummariesOf
  <2>2. CASE height[x] >= height[db_peak]
    BY <2>1, <2>2 DEF NoneAbove, SummariesOf
  <2>3. CASE height[x] < height[db_peak]
    <3>1. PICK a \in Anc[db_peak] : height[a] = height[x]
      BY <1>2, <2>1, <2>3, AncestryIsAChain
    <3>2. a \in ProperAnc(db_peak) /\ a \notin V
      BY <1>2, <1>5, <1>7, <2>3, <3>1
    <3>3. x = a
      BY <1>6, <2>1, <3>1, <3>2
    <3> QED BY <2>1, <3>1, <3>3 DEF SummariesOf
  <2> QED BY <1>2, <2>1, <2>2, <2>3
<1>8. ASSUME NEW a \in SummariesOf(db_peak), a \notin B
      PROVE  a \in FileSummaries /\ \A b \in B : height[b] # height[a]
  <2>1. a \in Anc[db_peak] /\ a \in SubEpochBlocks /\ a # db_peak /\ a \notin V
    BY <1>8 DEF SummariesOf
  <2>2. a \in ProperAnc(db_peak)
    BY <1>5, <2>1
  <2>3. a \in FileSummaries
    BY <1>3, <1>6, <2>1, <2>2 DEF SummariesOf
  <2>4. \A b \in B : b \in Anc[db_peak]
    BY <1>2, <1>4, <1>5
  <2> QED BY <1>2, <1>8, <2>1, <2>3, <2>4, AncUnique
<1>9. B \cap SubEpochBlocks \subseteq SummariesOf(db_peak)
  BY <1>2, <1>4, <1>5 DEF SummariesOf
<1> HIDE DEF B
<1>10. SetSummaries(FileSummaries, B) = SummariesOf(db_peak)
  <2>1. \A a \in SummariesOf(db_peak) : a \in SubEpochBlocks
    BY DEF SummariesOf
  <2> QED BY <1>7, <1>8, <1>9, <2>1 DEF SetSummaries
<1> QED BY <1>1, <1>10 DEF SummariesInv, InUse, SummariesOf

LEMMA StepSummaries ==
    ASSUME SizeInv, SummariesInv, [Next]_vars, [Create => NoneAbove]_vars
    PROVE  SummariesInv'
<1> USE DEF files, SummariesOf
<1>1. CASE UNCHANGED vars
  BY <1>1 DEF vars, SummariesInv, InUse
<1>2. ASSUME NEW b \in Blocks, NEW f \in Tips, NewPeak(b, f) PROVE SummariesInv'
  <2>1. /\ pc = "idle" /\ pc' = "update" /\ fork' = f /\ db_peak \in Tips
        /\ f \in Anc[db_peak] \cup {GENESIS_CHALLENGE}
        /\ sub_epoch_summaries' = sub_epoch_summaries /\ ses_file' = ses_file
        /\ sub_epoch_summaries = SummariesOf(db_peak)
    BY <1>2 DEF NewPeak, SizeInv, TypeOK, SummariesInv, InUse
  <2> QED BY <2>1 DEF SummariesInv, InUse
<1>3. CASE WriteHeightToHash
  BY <1>3 DEF WriteHeightToHash, SummariesInv, InUse
<1>4. CASE WriteSubEpochSummaries
  <2>1. /\ pc = "flush_ses" /\ pc' = "idle" /\ ses_file' = sub_epoch_summaries
        /\ db_peak' = db_peak /\ db_peak \in Tips /\ sub_epoch_summaries' = sub_epoch_summaries
        /\ sub_epoch_summaries = SummariesOf(db_peak)
    BY <1>4 DEF WriteSubEpochSummaries, SizeInv, TypeOK, SummariesInv, InUse
  <2> QED BY <2>1 DEF SummariesInv, InUse
<1>5. CASE FlushFails
  BY <1>5 DEF FlushFails, SummariesInv, InUse
<1>6. CASE Crash
  BY <1>6 DEF Crash, SummariesInv, InUse
<1>7. CASE DeleteFile
  BY <1>7 DEF DeleteFile, SummariesInv, InUse
<1>8. CASE CreateEmpty
  BY <1>8, NoSummaries DEF CreateEmpty, SummariesInv, InUse
<1>9. CASE Create
  <2>1. NoneAbove \/ UNCHANGED vars
    BY <1>9
  <2> QED BY <1>1, <1>9, <2>1, CreateKeepsSummaries
<1> QED BY <1>1, <1>2, <1>3, <1>4, <1>5, <1>6, <1>7, <1>8, <1>9, UpdateKeepsSummaries DEF Next

\* A stale summary at or above the peak is the only obstacle: as long as no start
\* finds one, the cached summaries of a running node are those of its main chain,
\* through reorganisations to lower chains, lost files and flushes that wrote one
\* file and not the other.
THEOREM SummariesCorrect == Spec /\ [][Create => NoneAbove]_vars => []SummariesInSync
<1>1. Init => SummariesInv
  BY NoSummaries DEF Init, SummariesInv, InUse
<1>2. SizeInv /\ SummariesInv /\ [Next]_vars /\ [Create => NoneAbove]_vars => SummariesInv'
  BY StepSummaries
<1>3. SummariesInv => SummariesInSync
  BY DEF SummariesInv, SummariesOf, SummariesInSync
<1> QED BY <1>1, <1>2, <1>3, SizesCorrect, PTL DEF Spec
==============================================================================
