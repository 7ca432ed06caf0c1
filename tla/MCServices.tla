----------------------------- MODULE MCServices -----------------------------
(***************************************************************************)
(* The parts of the library that deal with time, with other CPUs or with   *)
(* the outside.  The timing wheel, bootstrap and barrier, and the interval *)
(* timers are the modules this one extends; streams and what is written to *)
(* them (Serialize, Marshal, Zvec, ElogMerge), sockets (Socket) and a      *)
(* second bootstrap are instances.                                         *)
(* They share nothing: a behaviour is a behaviour of one of them, and the  *)
(* variables that it does not use stay as they are.                        *)
(***************************************************************************)
EXTENDS TimingWheel, Bootstrap, Timer

VARIABLES service,      \* the part that is in use; the wheel, Bootstrap and Timer have
                        \* variables of their own
          y1, y2, y3, y4, y5, y6, y7, y8,   \* those of the second bootstrap
          x1, x2, x3, x4, x5, x6, x7        \* those of one of the others

one_barrier_vars == <<y1, y2, y3, y4, y5, y6, y7, y8>>
other_vars == <<x1, x2, x3, x4, x5, x6, x7>>
all_vars == <<service, vars, boot_vars, timer_vars, one_barrier_vars, other_vars>>

(* Three CPUs that meet at one barrier, which is as many as all come out   *)
(* of; Bootstrap itself has CPUs that meet several times.                  *)
B == INSTANCE Bootstrap WITH n_cpus <- 3, N_BARRIERS <- 1,
       pc <- y1, next_cpu <- y2, tid <- y3, n_cpus_exited <- y4, wait_enable <- y5,
       n_slaves_at_barrier <- y6, arrived <- y7, left <- y8

(* Pieces of up to twice a buffer are written and pieces of at most half a *)
(* buffer read, across the ends of several buffers; reads are now and then *)
(* one byte short.                                                         *)
S == INSTANCE Serialize WITH N_BUFFER <- 4, MAX_PUT <- 6, MAX_GET <- 2,
       MAX_BYTES <- 11, SHORTEST_READ <- 3,
       stream <- x1, data <- x2, n_bytes <- x3, got <- x4, lost <- x5

(* Numbers at both ends of each form of a small integer, vectors around    *)
(* the chunk size, bitmaps for words of two sizes, a pool with holes, a    *)
(* heap that is empty, one with free elements and one with recycled ones.  *)
FREE == -(2 ^ 30) - 2 ^ 30    \* HEAP_ELT_FREE_BIT, as an i32
MCHeap0 ==
  [length |-> 0, head |-> 0, tail |-> 0, used_count |-> 0, max_len |-> 0, flags |-> 0,
   elt_bytes |-> 0, free_lists |-> <<>>, elts |-> <<>>,
   small_free_elt_free_index |-> <<>>, free_elts |-> <<>>, data |-> <<>>]
MCHeap1 ==
  [length |-> 5, head |-> 0, tail |-> 2, used_count |-> 2, max_len |-> 0, flags |-> 0,
   elt_bytes |-> 4, free_lists |-> <<<<1>>, <<>>>>,
   elts |-> <<<<0, 1, 0>>, <<FREE + 2, 1, -1>>, <<3, 0, -1>>>>,
   small_free_elt_free_index |-> <<>>, free_elts |-> <<>>, data |-> <<11, 12, 99, 14, 15>>]
MCHeap2 ==
  [length |-> 4, head |-> 2, tail |-> 0, used_count |-> 1, max_len |-> 8, flags |-> 0,
   elt_bytes |-> 4, free_lists |-> <<<<>>, <<>>, <<0>>>>,
   elts |-> <<<<FREE + 1, 0, 2>>, <<7, 7, 7>>, <<0, -2, 0>>>>,
   small_free_elt_free_index |-> <<0>>, free_elts |-> <<1>>, data |-> <<21, 98, 97, 96>>]
Of(kind, values) == {[kind |-> kind, value |-> v] : v \in values}
MCItems ==
  Of("u8", {0, 255}) \cup Of("u16", {258}) \cup Of("u32", {-1, 16909060})
  \cup Of("u64", {[lo |-> 1, hi |-> -2]})
  \cup Of("small", {0, 127, 128, 128 + 2^14 - 1, 128 + 2^14, 128 + 2^14 + 2^29 - 1,
                    128 + 2^14 + 2^29, 2^30 + (2^30 - 1)})
  \cup Of("signed", {-64, -1, 0, 5})
  \cup Of("cstring", {<<>>, <<65, 66>>})
  \cup Of("vec_32", {<<>>, <<7>>, <<1, 2, 3>>, <<1, -2, 3, 4, 5>>})
  \cup Of("records", {<<>>, [k \in 1 .. 3 |-> [a8 |-> k, a16 |-> 300 * k, a32 |-> -k]]})
  \cup Of("bitmap", {[words |-> w, reader |-> r] :
                       w \in {<<>>, <<<<5>>>>, <<<<0>>, <<1>>, <<9>>>>, <<<<0, 3>>, <<4, 0>>>>},
                       r \in {1, 2}})
  \cup Of("pool", {[elts |-> <<5, 6, 7>>, free_indices |-> f] : f \in {<<>>, <<2>>, <<3, 1>>}}
                    \cup {[elts |-> <<>>, free_indices |-> <<>>]})
  \cup Of("heap", {MCHeap0, MCHeap1, MCHeap2})
  \cup Of("magic", {<<1, 2, 3>>})
M == INSTANCE Marshal WITH Items <- MCItems, CHUNK_SIZE <- 2, MAX_ITEMS <- 2,
       written <- x1, stream_bytes <- x2, read_back <- x3

(* Values that are rare and common in every order, up to five of them.     *)
MCHistograms == UNION {[1 .. n -> {1, 3}] : n \in 1 .. 5}
Z == INSTANCE Zvec WITH Histograms <- MCHistograms, MAX_DATA <- 2,
       histogram <- x1, coding <- x2, is_signed <- x3, zvec <- x4,
       encoded <- x5, decoded <- x6

(* Logs that start at different times, with types, tracks and strings in   *)
(* common and of their own, at other indices.                              *)
MCEvent(t, track, at, args) == [type |-> t, track |-> track, time |-> at, data |-> args]
MCLiveLogs ==
  {[init_time |-> i, event_types |-> <<"f", "g">>, tracks |-> <<"default", "x">>,
    string_table |-> <<"s", "t">>, events |-> es] :
     i \in {0, 2},
     es \in {<<>>, <<MCEvent(1, 1, 2, <<0>>)>>, <<MCEvent(2, 2, 3, <<7, 1>>)>>,
             <<MCEvent(1, 2, 2, <<1>>), MCEvent(2, 1, 4, <<8, 0>>)>>}}
  \cup
  {[init_time |-> i, event_types |-> <<"g">>, tracks |-> <<"default">>,
    string_table |-> <<"u">>, events |-> es] :
     i \in {1, 3},
     es \in {<<MCEvent(1, 1, 3, <<9, 0>>)>>,
             <<MCEvent(1, 1, 3, <<5, 0>>), MCEvent(1, 1, 5, <<6, 0>>)>>}}
E == INSTANCE ElogMerge WITH LiveLogs <- MCLiveLogs,
       ArgsOf <- [f |-> <<"T4">>, g |-> <<"i1", "T4">>], N_LOGS <- 3,
       logs <- x1, n_merged <- x2, em <- x3

(* A server, a client and their connection, and one more after it.         *)
K == INSTANCE Socket WITH Fds <- {3, 4, 5}, TX_LIMIT <- 2, MIN_READ <- 2,
       MAX_ADD <- 2, MAX_BYTES <- 4, MAX_CONNECTIONS <- 2,
       open_fds <- x1, sock <- x2, kernel <- x3, n_added <- x4, dropped <- x5,
       garbled <- x6, n_connections <- x7

-----------------------------------------------------------------------------
(* The variables that a service leaves unused.                             *)
Idle7 == x7 = 0
Idle6 == x6 = 0 /\ Idle7
Idle4 == x4 = 0 /\ x5 = 0 /\ Idle6
Idle1 == x1 = 0 /\ x2 = 0 /\ x3 = 0 /\ Idle4

MCInit ==
  /\ Init /\ BootInit /\ TimerInit /\ B!BootInit
  /\ \/ service \in {"timing_wheel", "barriers", "timer", "bootstrap"} /\ Idle1
     \/ service = "serialize" /\ S!Init /\ Idle6
     \/ service = "marshal" /\ M!Init /\ Idle4
     \/ service = "zvec" /\ Z!Init /\ Idle7
     \/ service = "elog_merge" /\ E!Init /\ Idle4
     \/ service = "socket" /\ K!Init

OtherNext ==
  \/ service = "serialize" /\ S!Next /\ UNCHANGED <<x6, x7>>
  \/ service = "marshal" /\ M!Next /\ UNCHANGED <<x4, x5, x6, x7>>
  \/ service = "zvec" /\ Z!Next /\ UNCHANGED x7
  \/ service = "elog_merge" /\ E!Next /\ UNCHANGED <<x4, x5, x6, x7>>
  \/ service = "socket" /\ K!Next

MCNext ==
  /\ UNCHANGED service
  /\ \/ service = "timing_wheel" /\ Next
          /\ UNCHANGED <<boot_vars, timer_vars, one_barrier_vars, other_vars>>
     \/ service = "barriers" /\ BootNext
          /\ UNCHANGED <<vars, timer_vars, one_barrier_vars, other_vars>>
     \/ service = "timer" /\ TimerNext
          /\ UNCHANGED <<vars, boot_vars, one_barrier_vars, other_vars>>
     \/ service = "bootstrap" /\ B!BootNext
          /\ UNCHANGED <<vars, boot_vars, timer_vars, other_vars>>
     \/ OtherNext /\ UNCHANGED <<vars, boot_vars, timer_vars, one_barrier_vars>>

(* The fairness of modules Timer and Bootstrap.                            *)
MCFairness ==
  /\ WF_timer_vars(service = "timer" /\ timer_interrupt)
  /\ WF_timer_vars(service = "timer" /\ Tick)
  /\ WF_timer_vars(service = "timer" /\ Expire)
  /\ WF_timer_vars(service = "timer" /\ Deliver)
  /\ WF_one_barrier_vars(service = "bootstrap" /\ (B!Step0 \/ B!CpuStep(0)))
  /\ \A c \in {1, 2} :
       WF_one_barrier_vars(service = "bootstrap" /\ (B!SlaveStep(c) \/ B!CpuStep(c)))

MCSpec == MCInit /\ [][MCNext]_all_vars /\ MCFairness

-----------------------------------------------------------------------------

(* An advance of the wheel, by at most one turn of its first level,        *)
(* returns every timer that is due and no other.                           *)
WheelExpiresWhenDue == [][service = "timing_wheel" => ExpiresDue]_all_vars

(* os_smp_bootstrap returns when the CPUs meet once.                       *)
ReturnsFromOneBarrier == service = "bootstrap" => B!BootstrapReturns

(* The bytes of a connection arrive in order, but that a failed read       *)
(* leaves other bytes between them (socket.c:223-233) and a buffer that is *)
(* freed loses some; descriptors are closed on all error paths.            *)
SocketDeliversInOrder == service = "socket" => K!DeliversInOrder

(* What is written is what is read: the bytes of a stream whatever the     *)
(* sizes of the pieces, without those that the writer loses in its         *)
(* overflow buffer or in a write that would block; the values of each kind *)
(* that is serialized and the values of a compressed vector, but negative  *)
(* ones; the events of the logs that are merged.                           *)
CodecsReadBack ==
  /\ service = "serialize" => S!StreamKeepsBytes
  /\ service = "marshal" => M!ReadsWhatWasWritten
  /\ service = "zvec" => Z!DecodesWhatWasEncoded
  /\ service = "elog_merge" => E!MergeKeepsEvents
=============================================================================
