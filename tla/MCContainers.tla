---------------------------- MODULE MCContainers ----------------------------
(***************************************************************************)
(* The event log and error dispatch, which are the modules this one        *)
(* extends, and the containers and algorithms of the library that a        *)
(* program uses in its own memory, which are instances.  They share        *)
(* nothing: a behaviour is a behaviour of one of them, and the variables   *)
(* that it does not use stay as they are.                                  *)
(***************************************************************************)
EXTENDS Elog, Errors, TLC

VARIABLES structure,    \* the structure in use; Elog and Errors have their own variables
          x1, x2, x3, x4, x5, x6, x7, x8   \* those of one of the others

other_vars == <<x1, x2, x3, x4, x5, x6, x7, x8>>
all_vars == <<structure, vars, error_vars, other_vars>>

(* A fifo that grows twice, with up to three elements added at once.       *)
F == INSTANCE Fifo WITH Values <- {1, 2}, MIN_ELTS <- 2, MAX_ELTS <- 4, MAX_ADD <- 3,
       fifo <- x1, contents <- x2

(* A vector of up to four elements, with memory that is sometimes larger.  *)
V == INSTANCE Vec WITH Values <- {1, 2}, Operands <- {<<>>, <<1>>, <<2, 1>>},
       ELT_BYTES <- 2, MAX_LEN <- 4, MAX_EXTRA <- 1,
       vec <- x1, contents <- x2, shortened <- x3

(* Bitmaps of up to three words of two bits; operands that are shorter and *)
(* longer, and one that is not trimmed.                                    *)
B == INSTANCE Bitmap WITH BITS <- 2, MAX_BITS <- 5,
       Operands <- {<<>>, <<{}>>, <<{0, 1}, {1}>>, <<{1}, {}, {0}>>},
       bitmap <- x1, members <- x2

(* A pool of up to five objects, its free bitmap over three words.         *)
P == INSTANCE Pool WITH BITS <- 2, MAX_LEN <- 5,
       pool <- x1, in_use <- x2

(* Three objects, got by up to three callers; the traces move.             *)
A == INSTANCE MheapTrace WITH Offsets <- {8, 16, 24}, ObjectSizes <- {1, 2},
       Callers <- {"f", "g", "h"}, Starts <- {100, 200},
       trace_flag <- x1, objects <- x2, start <- x3, traces <- x4, trace_free_list <- x5,
       trace_by_callers <- x6, trace_index_by_offset <- x7, traced <- x8

(* A Fibonacci heap built up to four nodes, and one that starts with       *)
(* seventeen, whose first del_min makes a tree with inner nodes of up to   *)
(* three children.                                                         *)
H == INSTANCE Fheap WITH n_nodes <- 17, MAX_LIVE <- 4, MAX_CHANGES <- 3, FILLED <- 17, Keys <- {0, 1},
       fheap <- x1, key_of <- x2

(* Three keys in memory, and room for one more than these.                 *)
M == INSTANCE Mhash WITH MemKeys <- {"a", "b", "c"}, MAX_OFFSETS <- 4, MAX_FREE <- 4,
       Values <- {0, 1}, mhash <- x1, set_keys <- x2, offset_of <- x3, free_list <- x4

(* A sparse vector of two words of three indices.                          *)
S == INSTANCE SparseVec WITH BITS <- 3, WORDS <- 2, Values <- {1, 2},
       sv <- x1, set_elts <- x2

(* Twice as many keys meet in a bucket as it has room for.                 *)
Q == INSTANCE Qhash WITH WordKeys <- 1 .. 5, BucketOf <- <<0, 0, 0, 0, 1>>,
       N_BUCKETS <- 2, KEYS_PER_BUCKET <- 2, SetKnownFirst <- FALSE,
       qhash <- x1, set_words <- x2

(* A bucket overflows, and resizing takes several calls.                   *)
W == INSTANCE Vhash WITH VectorKeys <- 1 .. 4, HashOf <- <<0, 1, 4, 2>>, VhashResults <- {0, 1},
       N_RESULTS <- 2, N_OVERFLOW_BUCKETS <- 1, MAX_BUCKETS <- 2, N_KEYS_PER_CALL <- 3,
       vhash <- x1, set_results <- x2

(* All arrays of up to seven of three values, and of nine of two: below    *)
(* and above both thresholds.                                              *)
MCArrays == UNION {[1 .. k -> 0 .. 2] : k \in 0 .. 7} \cup [1 .. 9 -> 0 .. 1]
O == INSTANCE Qsort WITH Arrays <- MCArrays, THRESH <- 4, MTHRESH <- 6,
       given <- x1, a <- x2, n <- x3, calls <- x4, phase <- x5, min <-
       x6, escaped <- x7

(* Memory in which blocks of every alignment meet and overlap, and blocks  *)
(* that differ in one byte; then strings in two words and what follows.    *)
MCOneDifferent ==
  {[b \in 0 .. 103 |-> IF b = k THEN 2 ELSE 1] : k \in {3, 50, 56, 83, 103}}
MCFirstWords == {w \in [0 .. 7 -> {0, 1, 3}] : \A b \in 3 .. 5 : w[b] = w[2]}
MCStrings ==
  {[b \in 0 .. 31 |-> IF b < 8 THEN w[b] ELSE IF b < 11 THEN 1 ELSE 0] : w \in MCFirstWords}
Y == INSTANCE Strings WITH N_BYTES <- 104,
       Addresses <- {0, 1, 3, 4, 6, 8, 11, 48, 49, 51, 54, 56},
       Counts <- (0 .. 9) \cup {15, 17, 31, 34, 41, 46},
       Memories <- MCOneDifferent, StringMemories <- {}, BYTE_VALUES <- 4,
       mem <- x1, before <- x2, call <- x3
Z == INSTANCE Strings WITH N_BYTES <- 32, Addresses <- {0, 1, 5, 8}, Counts <- {0, 1, 2, 9},
       Memories <- {}, StringMemories <- MCStrings, BYTE_VALUES <- 4,
       mem <- x1, before <- x2, call <- x3

(* A perfect hash of three and of four keys.                               *)
D == INSTANCE Phash WITH KeyCounts <- {3, 4}, V_LIMIT <- 8, N_TRIES <- 2, MAX_AB_BITS <- 3,
       pm <- x1, at <- x2, n_tries_this_a_b <- x3, mapped <- x4

(* Command lines with numbers, words, braces, quotes and new lines, and    *)
(* formats of every kind; reads of three characters.                       *)
MCTexts ==
  { << <<"1", "2">> >>, << <<"1", "-", "2">>, <<"a">> >>,
    << <<"{", "1", ",", "2", "}">> >>, << <<"{", "a">>, <<"}", "1">> >>,
    << <<"a", "NL", "1">> >>, << <<"-", "1", ".", "2", "e", "1">> >>,
    << <<"9", "9", "9">> >>, << <<"a">>, <<"-", ">">>, <<"b">> >>,
    << <<"\\", " ", "a">> >>, << <<"{">> >> }
MCFormats ==
  { <<"%", "d">>, <<"%", "u">>, <<"%", "l", "d">>, <<"%", "l", "l", "x">>, <<"%", "b">>,
    <<"%", "o">>, <<"%", "X">>, <<"%", "f">>, <<"a", "%", "=">>, <<"a">>, <<"1">>,
    <<"%", "d", "-", "%", "d">>, <<"%", "s">>, <<"%", "v", "-">>, <<"%", "foo">>,
    <<"%", "hex_string">>, <<"%", "token", " ", "%", "line">>, <<"%", "line_input">>,
    <<"%", "input">>, <<"%", "d", "%", "eof">>,
    <<"%", "_", "a", " ", "-", ">", "%", "_", "%", "v">>, <<"1", "%", "%">>, <<"1", "%">>,
    <<"%", "token", "%", "_", "-", ">", "%", "_", "%", "token">> }
U == INSTANCE Unformat WITH Texts <- MCTexts, Formats <- MCFormats, READ_SIZE <- 3,
       WORD_VALUES <- 256, INT_VALUES <- 128, BYTE_VALUES <- 16, MAX_CALLS <- 3,
       input <- x1, string <- x2, returned <- x3, met <- x4,
       n_calls <- x5

(* Three nodes: links both ways, to oneself, and to a deleted node.        *)
G == INSTANCE Graph WITH N_NODES <- 3, Distances <- {1, 2}, MAX_LINKS <- 3,
       nodes <- x1, freed <- x2, asserted <- x3, links <- x4,
       disturbed <- x5

(* Nothing else has writers, and the log treats them alike: they may be    *)
(* exchanged.                                                              *)
Symmetry == Permutations(Writers)

-----------------------------------------------------------------------------
(* The variables that a structure leaves unused.                           *)
Idle8 == x8 = 0
Idle6 == x6 = 0 /\ x7 = 0 /\ Idle8
Idle5 == x5 = 0 /\ Idle6
Idle4 == x4 = 0 /\ Idle5
Idle3 == x3 = 0 /\ Idle4
Idle1 == x1 = 0 /\ x2 = 0 /\ Idle3

MCInit ==
  /\ Init /\ ErrorsInit
  /\ \/ structure = "fifo" /\ F!Init /\ Idle3
     \/ structure = "vec" /\ V!Init /\ Idle4
     \/ structure = "bitmap" /\ B!Init /\ Idle3
     \/ structure = "pool" /\ P!Init /\ Idle3
     \/ structure = "mheap_trace" /\ A!Init
     \/ structure = "fheap" /\ H!Init /\ Idle3
     \/ structure = "mhash" /\ M!Init /\ Idle5
     \/ structure = "sparse_vec" /\ S!Init /\ Idle3
     \/ structure = "qhash" /\ Q!Init /\ Idle3
     \/ structure = "vhash" /\ W!Init /\ Idle3
     \/ structure = "qsort" /\ O!Init /\ Idle8
     \/ structure = "memory" /\ Y!Init /\ Idle4
     \/ structure = "strings" /\ Z!Init /\ Idle4
     \/ structure = "phash" /\ D!Init /\ Idle5
     \/ structure = "unformat" /\ U!Init /\ Idle6
     \/ structure = "graph" /\ G!Init /\ Idle6
     \/ structure \in {"elog", "errors"} /\ Idle1

OtherNext ==
  \/ structure = "fifo" /\ F!Next /\ UNCHANGED <<x3, x4, x5, x6, x7, x8>>
  \/ structure = "vec" /\ V!Next /\ UNCHANGED <<x4, x5, x6, x7, x8>>
  \/ structure = "bitmap" /\ B!Next /\ UNCHANGED <<x3, x4, x5, x6, x7, x8>>
  \/ structure = "pool" /\ P!Next /\ UNCHANGED <<x3, x4, x5, x6, x7, x8>>
  \/ structure = "mheap_trace" /\ A!Next
  \/ structure = "fheap" /\ H!Next /\ UNCHANGED <<x3, x4, x5, x6, x7, x8>>
  \/ structure = "mhash" /\ M!Next /\ UNCHANGED <<x5, x6, x7, x8>>
  \/ structure = "sparse_vec" /\ S!Next /\ UNCHANGED <<x3, x4, x5, x6, x7, x8>>
  \/ structure = "qhash" /\ Q!Next /\ UNCHANGED <<x3, x4, x5, x6, x7, x8>>
  \/ structure = "vhash" /\ W!Next /\ UNCHANGED <<x3, x4, x5, x6, x7, x8>>
  \/ structure = "qsort" /\ O!Next /\ UNCHANGED x8
  \/ structure = "memory" /\ Y!Next /\ UNCHANGED <<x4, x5, x6, x7, x8>>
  \/ structure = "strings" /\ Z!Next /\ UNCHANGED <<x4, x5, x6, x7, x8>>
  \/ structure = "phash" /\ D!Next /\ UNCHANGED <<x5, x6, x7, x8>>
  \/ structure = "unformat" /\ U!Next /\ UNCHANGED <<x6, x7, x8>>
  \/ structure = "graph" /\ G!Next /\ UNCHANGED <<x6, x7, x8>>

MCNext ==
  /\ UNCHANGED structure
  /\ \/ structure = "elog" /\ Next /\ UNCHANGED <<error_vars, other_vars>>
     \/ structure = "errors" /\ ErrorsNext /\ UNCHANGED <<vars, other_vars>>
     \/ OtherNext /\ UNCHANGED <<vars, error_vars>>

MCSpec == MCInit /\ [][MCNext]_all_vars

-----------------------------------------------------------------------------
(* The fifo and the vector hold what was put in, in order, through every   *)
(* resize, wrap and insertion.                                             *)
SequencesAreKept ==
  /\ structure = "fifo" => F!IsQueue
  /\ structure = "vec" => V!ShowsContents

(* A bitmap has the bits of the set that its operations make; a pool's     *)
(* free indices and free bitmap are those of the objects not in use; the   *)
(* free traces of an mheap are those without objects, and the pointers to  *)
(* the others, their counts and bytes those of the objects that are got.   *)
IndexSetsAgree ==
  /\ structure = "mheap_trace" => A!TracesAccountForObjects
  /\ structure = "bitmap" => B!StandsForSet
  /\ structure = "pool" => P!RecordsAgree

(* The Fibonacci heap's trees are heap ordered and joined in circles that  *)
(* have every node, and min_root has the least key.                        *)
FheapHeapOrdered == structure = "fheap" => H!HeapOrdered

(* A lookup in any of the tables finds exactly what was set and not unset, *)
(* whatever was moved, shared or resized between.  Of mhash this holds     *)
(* until an offset that was put in the list of free ones twice             *)
(* (mhash.c:303) is used a second time.                                    *)
TablesFindWhatWasSet ==
  /\ structure = "mhash" => M!FindsWhatWasSet
  /\ structure = "sparse_vec" => S!FindsWhatWasSet
  /\ structure = "qhash" => Q!FindsWhatWasSet
  /\ structure = "vhash" => W!FindsWhatWasSet

(* qsort leaves the array's elements in order and never looks outside it;  *)
(* a perfect hash that is found sends no two keys to the same value; the   *)
(* memory and string functions do by words what is asked for by bytes.     *)
AlgorithmsMatchReference ==
  /\ structure = "qsort" => O!SortsInPlace
  /\ structure = "memory" => Y!AsByteByByte
  /\ structure = "strings" => Z!AsByteByByte
  /\ structure = "phash" => D!FoundHashIsPerfect

(* An input that is read in pieces parses as the same text in one buffer,  *)
(* but for one that a failed parse went back on from the end of file, or   *)
(* of which a read failed.                                                 *)
UnformatPiecesDoNotMatter == structure = "unformat" => U!PiecesDoNotMatter


(* Every link of the graph is in both of its nodes, with each node's half  *)
(* knowing the place of the other.                                         *)
GraphBothHalvesAgree == structure = "graph" => G!BothHalvesAgree
=============================================================================
