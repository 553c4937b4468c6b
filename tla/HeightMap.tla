------------------------------ MODULE HeightMap ------------------------------
(***************************************************************************)
(* chia/consensus/block_height_map.py: the map from heights to the blocks  *)
(* of the main chain, with the sub-epoch summaries of that chain.  Both are*)
(* kept in memory, written to two cache files every so often, and rebuilt  *)
(* from the files and the database at startup.                             *)
(*                                                                         *)
(* The files are caches of a chain that may have been reorganised since,   *)
(* they are written one after the other, and the first one in place from   *)
(* the lowest dirty height on.  The question is whether the map a restarted*)
(* node works with is the main chain of its database.                      *)
(*                                                                         *)
(* A sub-epoch summary is identified with the block that includes it.  The *)
(* database is represented by its peak: its main chain is Anc[db_peak]     *)
(* (MainChainMatchesPeak of module Blockchain).                            *)
(***************************************************************************)
EXTENDS BlockTree, Sequences, FiniteSets

CONSTANTS
    SubEpochBlocks,   \* the blocks that include a sub-epoch summary
    Zeros,            \* 32 zero bytes, at a height that has not been set
    Missing,          \* a file that does not exist
    FLUSH_AFTER       \* changed heights after which maybe_flush() writes: 1000

\* The first block includes no summary (can_finish_se is false in its validation).
ASSUME SubEpochAssumption == SubEpochBlocks \subseteq {b \in Blocks : height[b] > 0}
ASSUME PlaceholderAssumption == Zeros \notin Tips /\ Missing \notin Seq(Blocks \cup {Zeros})
ASSUME FlushAssumption == FLUSH_AFTER \in Nat \ {0}

VARIABLES
    db_peak,                \* the database
    height_to_hash,         \* __height_to_hash; height h is at index h + 1
    sub_epoch_summaries,    \* __sub_epoch_summaries, a block at its height
    counter,                \* __counter
    first_dirty,            \* __first_dirty
    height_to_hash_file,
    ses_file,
    pc,                     \* "idle", "update", "flush", "flush_ses", "down"
    fork                    \* the fork block of the new peak, while pc = "update"

files == <<height_to_hash_file, ses_file>>
vars  == <<db_peak, height_to_hash, sub_epoch_summaries, counter, first_dirty, files, pc, fork>>

-----------------------------------------------------------------------------
Smaller(x, y) == IF x <= y THEN x ELSE y
Larger(x, y)  == IF x >= y THEN x ELSE y

\* Truncate a buffer, or extend it with zeros, to n entries.
Resize(buf, n) == [i \in 1..n |-> IF i <= Len(buf) THEN buf[i] ELSE Zeros]

\* The buffer after __set_hash() of each block of bs at its height
SetHashes(buf, bs) ==
    [i \in DOMAIN buf |-> IF \E b \in bs : height[b] = i - 1
                          THEN CHOOSE b \in bs : height[b] = i - 1
                          ELSE buf[i]]

\* Mutant: an entry is made for a block without a summary, too.
SetAllSummaries(ses, bs) == {x \in ses : \A b \in bs : height[b] # height[x]} \cup bs

\* The summaries after the entries at the heights of bs have been set or deleted
SetSummaries(ses, bs) ==
    {x \in ses : \A b \in bs : height[b] # height[x]} \cup (bs \cap SubEpochBlocks)

\* Mutant: __set_hash() does not lower first_dirty.
NotDirtied(d, bs) == d

\* first_dirty after __set_hash() of each block of bs
Dirtied(d, bs) ==
    IF \E b \in bs : height[b] < d
    THEN CHOOSE h \in {height[b] : b \in bs} : \A b \in bs : h <= height[b]
    ELSE d

-----------------------------------------------------------------------------
Init ==
    /\ db_peak = GENESIS_CHALLENGE
    /\ height_to_hash = <<>>
    /\ sub_epoch_summaries = {}
    /\ counter = 0
    /\ first_dirty = 0
    /\ height_to_hash_file = Missing
    /\ ses_file = Missing
    /\ pc = "idle"
    /\ fork = GENESIS_CHALLENGE

\* _reconsider_peak(): b replaces the peak p, being heavier, or as heavy and with
\* fewer iterations.
Preferred(b, p) ==
    \/ weight[b] > weight[p]
    \/ weight[b] = weight[p] /\ total_iters[b] < total_iters[p]

\* add_block() commits a block b that replaces the peak, on a stored parent
\* that does not.  Its fork with the main chain starts at f, the last common
\* block or one below it.
NewPeak(b, f) ==
    /\ pc = "idle"
    /\ IF db_peak = GENESIS_CHALLENGE
       THEN prev_hash[b] = GENESIS_CHALLENGE
       ELSE /\ prev_hash[b] # GENESIS_CHALLENGE
            /\ ~ Preferred(prev_hash[b], db_peak)
            /\ Preferred(b, db_peak)
    /\ f \in (Anc[b] \cap Anc[db_peak]) \cup {GENESIS_CHALLENGE}
    /\ prev_hash[b] = db_peak => f = db_peak
    /\ db_peak' = b
    /\ fork' = f
    /\ pc' = "update"
    /\ UNCHANGED <<height_to_hash, sub_epoch_summaries, counter, first_dirty, files>>

\* maybe_flush() begins to write, or not.
FlushDue(c) == IF c < FLUSH_AFTER THEN "idle" ELSE "flush"

\* add_block() after the commit: rollback(fork_height), ensure_capacity(), and
\* update_height() for every block of the fork.
UpdateHeights ==
    LET fork_height == Larger(height[fork], 0)
        records == {a \in Anc[db_peak] : height[a] > height[fork]}
        kept == Resize(height_to_hash, Smaller(Len(height_to_hash), fork_height + 1))
    IN
    /\ pc = "update"
    /\ height_to_hash' = SetHashes(Resize(kept, Larger(Len(kept), height[db_peak] + 1)), records)
    /\ sub_epoch_summaries' = SetSummaries({x \in sub_epoch_summaries : height[x] <= fork_height},
                                           records \cap SubEpochBlocks)
    /\ first_dirty' = Dirtied(Smaller(first_dirty, fork_height + 1), records)
    /\ counter' = counter + (height[db_peak] - height[fork])
    /\ pc' = FlushDue(counter')
    /\ fork' = GENESIS_CHALLENGE
    /\ UNCHANGED <<db_peak, files>>

-----------------------------------------------------------------------------
\* maybe_flush(): the file is overwritten in place from the lowest dirty height
\* on and is not truncated; if there is none, the whole buffer is written.
Overwritten(file, buf, from) ==
    LET size == IF from < Len(buf) THEN Larger(Len(file), Len(buf)) ELSE Len(file)
    IN [i \in 1..size |-> IF i > from /\ i <= Len(buf) THEN buf[i] ELSE Resize(file, size)[i]]

WriteHeightToHash ==
    /\ pc = "flush"
    /\ height_to_hash_file' =
          IF height_to_hash_file = Missing
          THEN height_to_hash
          ELSE Overwritten(height_to_hash_file, height_to_hash, first_dirty)
    /\ counter' = 0
    /\ first_dirty' = Len(height_to_hash)
    /\ pc' = "flush_ses"
    /\ UNCHANGED <<db_peak, height_to_hash, sub_epoch_summaries, ses_file, fork>>

\* write_file_async() replaces the second file as a whole.
WriteSubEpochSummaries ==
    /\ pc = "flush_ses"
    /\ ses_file' = sub_epoch_summaries
    /\ pc' = "idle"
    /\ UNCHANGED <<db_peak, height_to_hash, sub_epoch_summaries, counter, first_dirty,
                   height_to_hash_file, fork>>

\* Opening a file fails, or the task is cancelled: the rest is not written.
FlushFails ==
    /\ pc \in {"flush", "flush_ses"}
    /\ counter' = 0
    /\ pc' = "idle"
    /\ UNCHANGED <<db_peak, height_to_hash, sub_epoch_summaries, first_dirty, files, fork>>

-----------------------------------------------------------------------------
Crash ==
    /\ pc # "down"
    /\ pc' = "down"
    /\ height_to_hash' = <<>>
    /\ sub_epoch_summaries' = {}
    /\ counter' = 0
    /\ first_dirty' = 0
    /\ fork' = GENESIS_CHALLENGE
    /\ UNCHANGED <<db_peak, files>>

\* "it's OK if this file doesn't exist, we can rebuild it"
DeleteFile ==
    /\ pc = "down"
    /\ \/ height_to_hash_file' = Missing /\ UNCHANGED ses_file
       \/ ses_file' = Missing /\ UNCHANGED height_to_hash_file
    /\ UNCHANGED <<db_peak, height_to_hash, sub_epoch_summaries, counter, first_dirty, pc, fork>>

\* create() with a database that has no peak
CreateEmpty ==
    /\ pc = "down"
    /\ db_peak = GENESIS_CHALLENGE
    /\ pc' = "idle"
    /\ UNCHANGED <<db_peak, height_to_hash, sub_epoch_summaries, counter, first_dirty, files, fork>>

(***************************************************************************)
(* create() and _load_blocks_from(): the buffer from the file is brought to*)
(* the size of the chain, and the chain is followed down from the peak,    *)
(* overwriting map and summaries, to the first block whose hash and whose  *)
(* summary both match what the files say.                                  *)
(***************************************************************************)
FileBuffer == IF height_to_hash_file = Missing THEN <<>> ELSE height_to_hash_file
FileSummaries == IF ses_file = Missing THEN {} ELSE ses_file

\* Mutant: the hash in the map is not compared.
MatchesSummary(buf, a) == a \in SubEpochBlocks /\ a \in FileSummaries

Matches(buf, a) == a \in SubEpochBlocks /\ buf[height[a] + 1] = a /\ a \in FileSummaries

\* The blocks below the peak that _load_blocks_from() visits before it stops
Visited(buf) ==
    {a \in ProperAnc(db_peak) :
        \A x \in ProperAnc(db_peak) : height[x] >= height[a] => ~ Matches(buf, x)}

Create ==
    LET buf == Resize(FileBuffer, height[db_peak] + 1)
        top == IF buf[height[db_peak] + 1] = db_peak THEN {} ELSE {db_peak}
        set == Visited(buf) \cup top
    IN
    /\ pc = "down"
    /\ db_peak # GENESIS_CHALLENGE
    /\ height_to_hash' = SetHashes(buf, set)
    /\ sub_epoch_summaries' =
          SetSummaries(FileSummaries, Visited(buf) \cup ({db_peak} \cap SubEpochBlocks))
    /\ first_dirty' = Dirtied(height[db_peak] + 1, set)
    /\ counter' = Cardinality(set)
    /\ pc' = FlushDue(counter')
    /\ UNCHANGED <<db_peak, files, fork>>

Next ==
    \/ \E b \in Blocks : \E f \in Tips : NewPeak(b, f)
    \/ UpdateHeights
    \/ WriteHeightToHash
    \/ WriteSubEpochSummaries
    \/ FlushFails
    \/ Crash
    \/ DeleteFile
    \/ CreateEmpty
    \/ Create

Spec == Init /\ [][Next]_vars

-----------------------------------------------------------------------------
\* Every variable has its type.
TypeOK ==
    /\ db_peak \in Tips
    /\ height_to_hash \in Seq(Blocks \cup {Zeros})
    /\ sub_epoch_summaries \subseteq SubEpochBlocks
    /\ counter \in Nat
    /\ first_dirty \in Nat
    /\ height_to_hash_file = Missing \/ height_to_hash_file \in Seq(Blocks \cup {Zeros})
    /\ ses_file = Missing \/ ses_file \subseteq SubEpochBlocks
    /\ pc \in {"idle", "update", "flush", "flush_ses", "down"}
    /\ fork \in Tips

\* The map describes the database: outside the update of a new peak, while the
\* node runs.
InUse == pc \in {"idle", "flush", "flush_ses"}

\* The height map of a running node is the main chain of its database: as many
\* entries as the chain has blocks, each the block at its height, whatever the
\* files held when the node started.
HeightToHashInSync ==
    InUse => /\ Len(height_to_hash) = height[db_peak] + 1
             /\ \A a \in Anc[db_peak] : height_to_hash[height[a] + 1] = a

\* The cached summaries of a running node are those of the main chain of its
\* database, at the heights at which the chain includes them.
SummariesInSync == InUse => sub_epoch_summaries = Anc[db_peak] \cap SubEpochBlocks

\* Below first_dirty the file holds what memory holds, so that the next flush
\* may begin there: across reorganisations, failed flushes and restarts.
DirtyTracked ==
    (pc # "down" /\ height_to_hash_file # Missing) =>
        \A h \in 0..(Smaller(first_dirty, Len(height_to_hash)) - 1) :
            /\ h < Len(height_to_hash_file)
            /\ height_to_hash_file[h + 1] = height_to_hash[h + 1]
==============================================================================
