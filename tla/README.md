# TLA+ models of clib

clib is a C library of data structures and operating system glue for
multi-CPU programs. This directory models the parts in which several CPUs, long
sequences of calls, partial failures or boundary values make testing hard,
checks the models with TLC and proves the central ones with TLAPS.

## The system

| Part | Sources | State | Operations | What is hard | Module |
|---|---|---|---|---|---|
| SMP lock | `smp.c`, `smp.h` | one header word, a circular fifo of wait slots | lock, unlock, slow paths | interleaved compare-and-swap and plain stores, stale header copies, hand-over | `SmpLock` |
| SMP fifo | `smp_fifo.c`, `smp_fifo.h` | two free-running indices, a state per element | write_alloc, write_done, read_fetch, read_done | claiming before marking, wrap of indices, full and empty | `SmpFifo` |
| bootstrap, barrier | `linux-smp.c`, `test_smp.c` | shared flags and counters, arguments on a stack | start CPUs, barrier, wait for exit | reuse of the barrier, counting before leaving | `Bootstrap` |
| mheap | `mheap.c`, `mheap_bootstrap.h` | boundary tags, free lists by size, small object cache | get, put, validate | long sequences, alignment fragments, the end of the heap | `Mheap`, `MheapProofs`, `MheapTrace` |
| heap | `heap.c`, `heap.h` | a chain of elements, free lists with indices kept in free data | alloc, dealloc, free | several records of the same memory, fragments, combining | `Heap` |
| hash | `hash.c` | direct and indirect buckets, flags | set, unset, get, resize, hash_next | resizing, iteration while the table changes | `Hash` |
| timing wheel | `timing_wheel.c` | levels of bins, overflow pool, deleted user data | insert, delete, advance, next time | refilling while expiring, rebasing, stale elements | `TimingWheel` |
| interval timers | `timer.c` | sorted timers, one kernel timer | timer_call, signal handler | re-entrant handlers with an old reading of the time | `Timer` |
| vectors | `vec.h`, `vec.c`, `vec_bootstrap.h` | length in front of a larger allocation | resize, add, insert, delete, ... | stale words behind the end | `Vec` |
| fifo | `fifo.c`, `fifo.h` | ring with head and tail | add, sub, advance, resize | a full ring is tail = head + length | `Fifo` |
| bitmap, pool | `bitmap.h`, `pool.h` | words; free bitmap and free indices | bits, regions, logic, searches; get, put | word boundaries; two records that must agree | `Bitmap`, `Pool` |
| Fibonacci heap | `fheap.c` | circular sibling lists, min root | add, del_min, decrease_key, del | linking by rank, lists entered at any node | `Fheap` |
| sparse vectors | `sparse_vec.h` | bitmap, member counts, elements | validate, index, index2 | counts of all later words | `SparseVec` |
| mhash, qhash, vhash | `mhash.c`, `qhash.c`, `vhash.c` | buckets, overflow, keys in memory | set, get, unset, resize | keys stored before they are looked up, overflow and refill, incremental resize | `Mhash`, `Qhash`, `Vhash` |
| perfect hash | `phash.c` | keys, tables a and b, search queue | find a hash | augmenting paths and roll back | `Phash` |
| sorting | `qsort.c` | an array | sort | an insertion sort without a bound | `Qsort` |
| graphs | `graph.c`, `graph.h` | two halves of every link, a hash | set and delete links, delete nodes | both halves and the hash agree | `Graph` |
| errors | `error.c` | handlers, vectors of errors | register, raise, return, report | handlers that raise errors | `Errors` |
| event log | `elog.c`, `elog.h` | ring, counter, limit, types | log, enable, trigger, peek, merge, serialize | concurrent writers, lapping, the limit | `Elog`, `ElogMerge` |
| serialize | `serialize.c`, `serialize.h` | buffer, overflow buffer, data function | get, close; every type | pieces across buffers, short reads, forms of integers | `Serialize`, `Marshal` |
| compressed vectors | `zvec.c` | a coding, bits | choose, encode, decode | prefix codes, signed values | `Zvec` |
| sockets | `socket.c` | tx and rx buffers, descriptors | init, accept, transmit, receive, close | partial and failed calls | `Socket` |
| unformat | `unformat.c` | buffer, marks | parse | marks while the buffer moves, going back after failure | `Unformat` |
| strings | `standalone_string.c`, `string.c` | memory | set, copy, move, swap, compare, search | alignment and overlap, zero bytes in words | `Strings` |
| the rest | formatting, annealing, ELF, disassembly, md5, random numbers, time, SIMD | | | see Not modelled | |

Calls go downwards: every vector and hash table is allocated from an mheap, an
mheap shared by CPUs is protected by an SMP lock (so a `mheap_get` or `mheap_put`
is atomic for other CPUs, and is one action here), pools use vectors and
bitmaps, the timing wheel uses pools, bitmaps and hashes, mhash uses a hash and a
heap, and the programs of `test_smp.c` start CPUs, meet at barriers and send
vectors from one CPU's mheap to another through SMP fifos. `PROJECT.json` lists
every component with what is modelled of it, and the hazards at their lines.

Where a component uses another one that has a module, it uses what that module
is shown to be: `Pool` instantiates `Bitmap`, `Mhash` takes its table for the map
that `Hash` implements, `Marshal` a stream for the bytes that `Serialize` keeps.

## Modules

Throughout, functions of the code that change one data structure are operators
from the structure to the structure, named as in the code, and an action is a
whole call by a user. Where calls overlap (other CPUs, signals, callbacks) an
action is one access to shared memory or one step between two calls out. History
variables, marked as such, record what users asked for; the properties compare
them with what the code's own lookups return. An operator under a comment
*Mutant* is a plausible wrong form of the definition that follows it; a property
is listed only when such a form breaks it.

### SmpLock, FifoLock, MCSmpLock, SmpLockProofs

`SmpLock` has one action per access to shared memory; `pc[c]` is the access that
CPU `c` makes next. `clib_smp_lock_inline` is `Lock` (the first read of the
header), `LockInline` (the swap), `LockSlow` and `SpinRetry` (the swaps of the
slow path) and `AwaitEmpty`, `EnterSlot`, `AwaitDone`, `ClearSlot` (the accesses
to the wait slot). `clib_smp_unlock_inline` is `Unlock` and `UnlockSwap`, its
slow path `PopWait`, `PopSwap`, `Wake` and `WakeMore`. A compare-and-swap that
fails gives the CPU the new header as its private copy `h0[c]`. The header's
fields keep their 16 and 15 bits. Memory is sequentially consistent: headers
change only by locked instructions, and each wait slot is written by the two
CPUs that rendezvous on it, in turns, which x86's total store order keeps.
Private variables that the code will not read again are reset, to save states.
`occupant` (who is in which slot) and `granted` (who has the lock or has been
given it) are history variables. A lock has one kind of users (`LockTypes`):
spin, or readers and writers, as in the callers.

`FifoLock` is what a spin lock promises: one holder, waiters queue up, the lock
passes to the first of them and nobody overtakes the queue. `SmpLock` implements
it with the queue read from the slots between head and tail. `MCSmpLock` adds
the action constraint `HeadsInPlace` for readers and writers: no reader enters a
slot that a CPU has popped and is going to look at again, and a CPU that unlocks
waits until the last occupant has cleared the slot at the head.

### SmpFifo, SlotQueue, MCSmpFifo, SmpFifoProofs

`SmpFifo` again has one action per access: to an index, to an element's footer,
to its data. Writers and readers follow `test_smp.c`: writers write numbered
elements and retry when the fifo is full, readers poll. Indices have `IndexBits`
bits and start at `FirstIndices`, so that the wrap happens; a behaviour is
shorter than the range of the indices (`SmpFifoAssumption`), that is, no CPU
sleeps through 2^32 operations. `SlotQueue` is the promise: a queue of slots
that are claimed in order, filled in any order and read in order when filled.

### Bootstrap, BootstrapProofs

The loop of clones in `os_smp_bootstrap`, the threads, `clib_smp_barrier_sync` and
the counting of exits, one step per access to shared memory. The new threads'
arguments are on the stack of CPU 0, where `tid` is overwritten by the next clone;
only the debugger's event reads it. Layout of stacks and affinity are left out.
How often the CPUs meet (`N_BARRIERS`) and how many they are are constants.

### Mheap, MheapProofs, Heap, Hash and MCDataStructures

The mheap, the heap and the hash table are used by one thread at a time and
share nothing. `MCDataStructures` checks them in one run: a behaviour is a
behaviour of one of them (`structure`), and the others stay as created. The
properties of `Mheap` are checked as they stand, since they hold of the heap as
created too; those of the others have the name of the structure in front.

*Mheap.* `mheap_get_aligned` is the disjunction of its outcomes (misaligned, from
the cache, from a free list, by extending the vector, refused) and `mheap_put` of
its own (into the cache, replacing a cached object, freed). Offsets and sizes
are bytes as in the code. `elt` holds the tags in memory, `link` and `first` the
free lists; a call's steps are operators on the record `H` of all three, in the
order of the code. The number of small object bins, of cached bins and of cache
entries are constants, so that large bins and a full cache occur in a small
heap. `live`, a history variable, holds the request behind every object.
Mapping and unmapping pages is left out: the `mmap` calls of `vm_unix.h` have
neither a file nor `MAP_ANONYMOUS`, fail, and their result is ignored.
`ValidateHolds` is what `mheap_validate` checks, part by part: the free lists and
their tags (`ListsAgree`), the cache (`CacheAgrees`), the walk over the elements
(`TagsAgree`), and the two sums at its end (`ElementsCounted`, `BytesCounted`). It
excepts the heap of one tag that a first request leaves when it does not fit
(`mheap.c:525`). A free list and the walk's sum of bytes are recursive functions,
over the links and over the tags.

*Heap.* A heap is a record `hp` of the heap's header: the chain of elements
(`elts`, whose `next` and `prev` are indices here, differences of indices in the
code), `free_lists`, `free_elts`, and `free_index`, the place of a free element in
its free list, which is kept in the element's data or, when `elt_bytes` is too
small for that, in `small_free_elt_free_index`. `_heap_alloc` searches, extends the
vector if nothing fits, and frees the fragments before and after an aligned
object; `heap_dealloc` combines and frees. The number of bins is a constant; the
code's condition that every size has a bin holds for the sizes in use.

*Hash.* A bucket is empty, direct with one pair, or indirect with an array of
`alloc` places. `_hash_set3` and `_hash_unset` include the growing and shrinking that
they end with. `_hash_set3` and `hash_resize_internal` call each other in the code;
`SetAndGrow`, `hash_resize_internal`, `SetInNewTable` and `Rebuilt` unroll that
recursion, which ends there because a set in a new table makes it too full by
one pair only. `hash_next` is `HashNextPair` and `HashNextEnd`, and `hn` its state
between calls. Sums of keys, the least capacity (a word's bits in the code) and
the number of elements up to which a table never shrinks are constants. A user
sets flags and frees the table only when no iteration is on its way.

### TimingWheel, MCTimingWheel

`Insert`, `Delete` and `Advance` are the three calls. An advance is computed in
the order of the code: refill (`RefilledBins`), expiry of bins as they are
(`ExpiredBins`), reinsertion of what was refilled and is not due, rebasing, next
expiring time. The widths of relative times and the sizes of bins and wheels are
constants. A bin is a set, since a user data has at most one element. Users
insert user data that is not on the wheel and delete user data that is. `live`,
a history variable, says when each user data is to expire. `ScheduledAsInserted`
says that each has one element, with its time, and where: `InItsBin` relates the
element's time to the wheel and the bin that the code would reach it from (the
turn that each wheel is in, and whether its index has passed the bin), and an
element of the overflow pool is one that does not fit a relative time.
`validate_level` is the check of `timing_wheel.c:79`, which also has to hold in the
run.

### MCContainers and the containers

Sixteen containers and algorithms of one thread's memory, error dispatch and the
event log. `MCContainers` extends `Elog` and `Errors`, whose names differ, and runs
the rest next to them, one at a time:
`structure` names the one in use, `x1` to `x8` are its variables (substituted in the `INSTANCE` of each), and a property
says what it says of the structure that it names. The bounds are with the
instances.

- `Vec`: memory behind the length is modelled word by word, so that what
  `vec_resize` or `vec_add2` expose is what was left there. `contents` is the sequence
  that the calls stand for; the two agree unless the user lowered the length
  himself (`shortened`).
- `Fifo`: `head`, `tail` and the ring; a resize moves a wrapped queue. The property
  compares the index functions and the iteration with a queue.
- `Bitmap`, `Pool`: words are sets of bits. `members` is the set that the operations
  make; the pool's two records are compared with the objects in use.
- `MheapTrace`: the trace of an mheap, apart from the allocator, whose objects are
  offsets with sizes here. The keys of its hash point into a vector that moves;
  pointers are numbers, and a key that was not moved with the vector points to
  nothing. The heap that the tables themselves are in is taken for another one.
- `Fheap`: the recursions of cutting and linking are RECURSIVE operators, so the
  module stays with TLC. Heaps start empty or with seventeen nodes, whose first
  `del_min` makes a tree with inner nodes that have several children. Any node may
  be deleted but a root that is not the least, which the code's assertion forbids.
- `SparseVec`, `Mhash`, `Qhash`, `Vhash`: lookups against the map that was set. Hash
  functions are constants that make keys meet. The offset that
  `Mhash` took for a key it had already is in the list of free ones twice afterwards,
  and the property ends where it is used the second time; `Vhash` resizes over several calls,
  with lookups in between, and takes one key at a time (the four-key stages do
  the same on vector registers).
- `Qsort`: a step is a round of `qst`, the search for the least element or an
  insertion; `escaped` notes a look outside the array.
- `Phash`: the mixing functions are a choice of pairs (a, b). Augmenting, applying and
  rolling back are as in the code.
- `Strings`: memory is a function from addresses to bytes, and a function is the
  sequence of its accesses, each with its width, so that order, alignment and
  bounds of every access are compared with a move of all bytes at once. Copies
  are of blocks that do not overlap, moves of any. For `strlen8` a byte has four
  values: the arithmetic of a whole word then fits TLC's integers, with the carries
  where they were.
- `Unformat`: the same calls on an input that is read in pieces and on one in
  memory. The sizes of the pieces, and which read fails, are chosen at the start; marks, filling, every conversion and nested input are modelled, values as text.
- `Graph`: both halves of a link and the hash from nodes to positions; a failed
  assertion ends the program (`asserted`).

### Errors, ErrorsProofs

Dispatches nest, since a handler is user code that raises errors or registers
handlers: `dispatches` is the stack of the loops of `dispatch_message` that are on
their way, each with its position. `told` and `finished` are history variables:
which handlers each message was given to, and which there were when its dispatch
was over.

### Elog, ElogProofs

A writer's event is a step for each access: look at the limit, give the type an
index under the lock if it has none, take a number, write the header, write the
data. `overlapped` marks places that were taken again while a slow writer still
had them, which the code accepts. The writers are symmetric. `TriggerSavesEvent`
asks for room in the ring for the N events after the trigger and for one of each
writer, because each writer that found the log enabled may write one more. For
one writer this is the promise of `elog.h:173`, N < `RING_SIZE`; for more it is less.

### Timer, TimerProofs

`Call` blocks the signal, adds the timer and calls the handler's function;
`Deliver` starts a handler; `timer_interrupt` is one round of a handler's loop, whose
callback may call `timer_call` again, so `handlers` is a stack. Each handler has
read the time once; `busy` is the time spent with old readings.

### MCServices and the services

`MCServices` extends `TimingWheel`, `Bootstrap` (with CPUs that meet several times)
and `Timer`, and runs the rest next to them, one at a time. A second bootstrap, in
which the CPUs meet once, has the variables `y1` to `y8`; the others share `x1` to
`x7`.

- `Serialize`: a writer of a file, a vector or given memory, then a reader. The loops of
  both have a step for each turn, with their local indices apart from those of the
  stream (`serialize_get`, `Prepend`, `Place` and `Flush`; `GetLoop`). A write to a file
  takes all bytes, some, would block or fails; a read returns any number of bytes
  from `SHORTEST_READ` on, a partial read being tried again, or fails. `lost`, a
  history variable, has the bytes that the code loses on two paths (see below).
- `Marshal`: what each type looks like in bytes, with the forms of small integers,
  chunks of vectors, bitmaps between 32 and 64 bit machines, pools with holes and
  heaps with free elements. Writers and readers of several items in a row must
  agree on how many bytes each takes.
- `ElogMerge`: logs with types, tracks and strings in common are merged, those
  that were written and those that were not.
- `Zvec`: codings are sets of exponents, codes sequences of bits.
- `Socket`: a server, a client and connections against a kernel that may fail any
  call, take or return fewer bytes, or none. Descriptors are numbers that are
  used again.

## Runs

| Run | Configuration | Shows |
|---|---|---|
| `smp_lock_spin` | 3 CPUs, spin, fair | one holder; no assertion fails; a waiter has somebody to wait for; every waiter gets the lock; implements `FifoLock` |
| `smp_lock_rw_heads` | 3 CPUs, readers and writers, waiters found at the head (`HeadsInPlace`) | the header counts exactly the CPUs with the lock, on the fast and slow paths, when a writer has to wait for several readers, and at every hand-over |
| `smp_fifo` | 2 writers, 2 readers, 2 elements, wrap, fair | assertions; one CPU per element; implements `SlotQueue`; everything is transferred |
| `data_structures` | mheap: 80 bytes, three sizes, two alignments, three offsets | `mheap_validate` holds; `mheap_put` never panics; objects are as asked for; memory is refused only when there is none |
| | heap: 7 elements of data, 3 objects of sizes 0, 1, 4 and 2 aligned to 3 | `heap_validate` holds; objects keep their place and data; the vector is extended only when nothing free fits |
| | hash: 4 keys, tables of 2 to 16 buckets | lookups find what was set; flags are restored; iteration returns every pair once |
| `containers` | see the instances | every container stands for the sequence, set or map it is used as; sorting, perfect hashing and the string functions give their results; parsing does not depend on how input arrives, and a failed parse consumes nothing; every error handler is told once; the log shows the last events and saves a triggered one for which the ring has room |
| `services` | barriers: 4 CPUs, 3 barriers; for the others see the instances; timers and bootstrap fair | no CPU leaves a barrier that another has not reached; bootstrap with one barrier returns; the wheel returns what is due; timers are armed and called; sockets deliver in order and close their descriptors; what is written is read back, but for the losses that the properties name |
| `smp_lock_rw` | 3 CPUs, readers and writers | **violation** of mutual exclusion |
| `smp_fifo_three_writers` | 3 writers, 2 elements | **violation** of the code's assertions |
| `timing_wheel_long_advance` | advances of up to 4 turns | **violation**: an element expires early |
| `bootstrap_barriers` | 3 CPUs, two barriers, fair | **violation**: everyone waits for ever |
| `serialize_large_reads` | reads of three quarters of a buffer | **violation**: a read returns memory behind the overflow buffer |
| `graph_del_node` | 3 nodes, 3 links | **violation**: a link to a deleted node is left |

The bounds. Three CPUs have two wait slots: the fifo fills, wraps, and slots are
reused while their last occupant has not left. Two elements and three serial
numbers for each of two writers fill, empty and wrap the fifo several times. In
the mheap three objects of different sizes fit at once, with fragments too small
to be elements and every combination of free neighbours, and the cache of two
entries overflows. In the heap a free block can be in the bin of a request and
too small for it. Three of the four keys of the hash table meet in one bucket
until the table has more than four, which takes the bucket through all its
forms; a table that could not grow during an iteration has to grow twice after
it. On the wheel 20 clocks ahead reach beyond the 16 that a relative time can
hold, and time passes the first rebase; a wheel has two bins, so that the index
passes every bin.

Words have two or three bits, so bitmaps, pools and sparse vectors cross word
boundaries with a handful of elements. The fifo grows twice while it is wrapped
and full. Seventeen nodes in a Fibonacci heap make a tree of rank four, in which the run
then cuts and deletes nodes with up to three children (`MAX_CHANGES` calls); the
free offsets of an mhash grow to `MAX_FREE`, so that an offset is in the list twice. Twice as many
keys as a bucket holds meet in the bucket of a qhash, and a vhash's bucket
overflows and is resized in several calls. Arrays on both sides of both
thresholds of qsort occur. The writers of the event log lap a ring of four, and a
trigger asks for none, one or three more events, the last of which leaves no room
for a second writer. Pieces
that are serialized are larger than the buffer and cross several. A socket's
transmit buffer passes its limit, and descriptors are used again after errors.
Three timers include delays of nothing and of the resolution.

The limits of the passing runs are limits of the code. With three
writers or three readers, or with one element, the SMP fifo breaks
(`smp_fifo_three_writers`); readers and writers of a lock are counted as long as
the waiter at the head is in its slot (`smp_lock_rw`); the first request of
an mheap must fit; the wheel is advanced by at most one turn at a time
(`timing_wheel_long_advance`) and starts at a bin boundary; all CPUs
come out of one barrier, not of two in a row (`bootstrap_barriers`); a stream is read in pieces of at most half a buffer
(`serialize_large_reads`); a graph is as its links say until a deletion moves a
link (`graph_del_node`); a qhash is not given a pair whose first key is known and
in the second one's bucket (`SetKnownFirst`).
Deadlock is checked in `smp_lock_spin`, `smp_fifo` and `smp_fifo_three_writers`; it
is off where calls may simply end, and for read and write locks, which can stop.

Fairness. CPUs are threads that keep running, and every access of the modelled
code is always possible or is a poll in a loop: each CPU's steps are weakly fair
(`SmpLock`, `SmpFifo`, `Bootstrap`). A CPU that has the lock unlocks it some time;
nothing makes a CPU ask for a lock. For `Timer`, handlers run on, time passes, the
kernel's timer goes off and pending signals are delivered; nothing makes anybody
call `timer_call`. Fairness is used for `WaiterServed`, `EverythingTransferred`,
`EveryTimerIsCalled` and `ReturnsFromOneBarrier` only.

## What the violations say

1. *A stale head after waking a reader* (`smp.c:283`). `h0` is the header before
   the pop; the CPU may go on popping a lock that it has given away.
2. *The SMP fifo claims too many elements* (`smp_fifo.h:155`). Fullness is not
   tested again after a failed swap, and the footer is marked after the swap.
3. *An advance by a whole turn of a level expires elements early*
   (`timing_wheel.c:568`).
4. *A barrier used again can miss a CPU* (`test_smp.c:155`). One that still waits for
   `wait_enable` to fall when CPU 0 sets it again never sees it fall.
5. *A second large read leaves the overflow buffer* (`serialize.c:777`). The index that
   was read before the buffer was reset is used after it.
6. *Deleting a link moves another one unseen* (`graph.h:66`). The hash keeps the old
   position of the link that fills the gap.

## Met while modelling

What the models showed or needed, and no run is about:

- *SMP lock.* A lock released between a waiter's look at the header and its swap is
  retaken only for spin locks (`smp.c:150`): with two CPUs that read and write,
  `WaiterHasHolder` fails and a CPU waits for ever behind a lock that nobody has.
  A CPU that unlocks may find the last occupant of the head slot still there, and
  takes every waiter that is not a writer for a reader (`smp.c:227`): a writer is
  then popped as a reader, and with three CPUs `AssertionsHold` fails too.
- *mheap.* A first request that does not fit leaves a heap that `mheap_validate`
  rejects (`mheap.c:525`); `mheap_validate` takes the lock that its callers have
  (`mheap.c:1267`); `prev_is_free` of the first element is never written (`mheap.c:529`).
- *heap.* A search that fails looks one place before a free list (`heap.c:275`).
- *hash.* `hash_next` keeps its position in the bucket after a direct pair, so that an
  unset during an iteration can make it skip a pair; two iterations at once leave
  the table's flags set; `hash_validate` rejects the key 0.
- *timing wheel.* The next expiring time is cached across insertions
  (`timing_wheel.c:640`); expired overflow elements can be put in a copy of the
  vector (`timing_wheel.c:465`). `validate_level` (`timing_wheel.c:112`), which
  `test_timing_wheel.c:170` calls after each advance, fails with four bins a wheel
  for an element that was inserted on the third wheel and that time has brought
  within reach of the second: elements move down only when their bin is reached.
  With two bins it holds.
- *vectors.* Words behind a length that was lowered by hand come back with
  `vec_resize`; `vec_insert_init_empty` fills bytes, not elements.
- *fifo, bitmap, pool.* Advancing the head of a full fifo by nothing empties it;
  `clib_bitmap_next_clear` returns its argument when no later bit is clear;
  `pool_next_index` can return a free index. A region that ends at a word boundary
  shifts by the width of a word, which is undefined and on x86 a shift by nothing.
- *mhash.* A key that is set again gives its offset back at the place that the list's
  length had before the offset was taken from it (`mhash.c:301`), one behind the end:
  the offset, which is still in the place before, is then in the list twice, and a
  later key is stored over one in use, which `FindsWhatWasSet` excepts.
- *fheap.* `fheap_del` asserts that a root is the least one; `del_min` loses a node
  whose key is the largest number.
- *qhash, vhash.* `qhash_set_multiple` goes on with the old header after a resize;
  setting a key that is in an overflow bucket asserts (`vhash.h:580`).
- *phash.* The test for hitting a child is inverted (`phash.c:512`): fewer paths are
  tried, and what is found is still perfect.
- *event log.* Files cannot be read back: the magic string is written with a
  compact length (`elog.c:917`) and read with one of four bytes (`elog.c:945`). A
  merge into a log that was never serialized compares times of different clocks.
  That a triggered event "will not be lost as long as N < RING_SIZE" (`elog.h:173`) is
  true for one writer: with two, a ring of four and N = 3 it is lost. A writer can see
  a type's index before the type is added (`elog.c:77` and `elog.c:118`), so that the
  assertion at `elog.h:221` can fail in builds that have it.
- *serialize.* An error inside `va_serialize` leaves its recursion level raised. The
  writer's loop returns from its overflow branch without storing the index of the
  buffer (`serialize.c:671`): bytes that it moved from the overflow to the buffer are
  overwritten (a file with a buffer of 4: put 6, put 5). A write that would block or
  is interrupted loses the buffer, and one that takes a part cuts the vector's
  header down as though it were its data (`serialize.c:1069`). `StreamKeepsBytes` excepts
  these bytes, and says nothing after a write was cut short or failed.
  `serialize_likely_small_signed_integer` and its reader differ by one for negative
  numbers, which `ReadsWhatWasWritten` excepts.
- *zvec.* `zvec_unsigned_to_signed` and its inverse differ in the same way, and
  `DecodesWhatWasEncoded` excepts negative values; values with a count of zero are
  not coded.
- *sockets.* A failed init or accept leaves the closed descriptor's number in the
  socket; a failed read leaves the reserved bytes in the buffer (`socket.c:233`), and
  `DeliversInOrder` says nothing of where they are, only that the bytes that were
  read stay in order; a transmit buffer over the limit is dropped (`socket.c:201`), and
  so is one of a client that closes.
- *unformat.* `%%` never matches; the test for overflow only finds a value that fell;
  after a failed parse that met the end of a file `unformat_is_eof` differs from
  that of a string, which `PiecesDoNotMatter` excepts, and zeros are left behind the
  text (`unformat.c:1001`). A failed read counts as a read of something, because its
  result is unsigned (`unformat.c:1002`), and takes a byte of the text with it.
  `FailureConsumesNothing` allows these zeros and excepts failed reads.
- *errors.* Only the first error's flags decide how a chain is reported.
- *bootstrap.* A CPU counts itself as exited before it has left its stack.

## Proofs

TLC checks the instances above; the theorems hold for every value of the
constants that their assumptions allow. Each proof has the same form: a
strengthened invariant that the initial states have (`InitInv`) and that every
action keeps (a lemma per action, under it a step per part that the action can
disturb), and the property as a consequence of it.

| Module | Theorem | States |
|---|---|---|
| `SmpLockProofs` | `SpinTypeOK`, `SpinMutualExclusion`, `SpinAssertionsHold`, `SpinWaiterHasHolder`, `SpinHeaderAccountsForHolders`, `SpinImplementsFifoLock` | the properties of the spin lock, and that it implements `FifoLock` |
| `SmpFifoProofs` | `FifoTypeOK`, `FifoAssertionsHold`, `FifoExclusiveUse`, `FifoImplementsSlotQueue` | the safety properties of the SMP fifo, and that it implements `SlotQueue` |
| `BootstrapProofs` | `BarrierAlwaysSeparates` | barriers separate, and CPU 0 returns last |
| `ElogProofs` | `ElogShowsLastEvents`, `ElogTriggerSavesEvent` | what is in the ring of the event log |
| `TimerProofs` | `TimerAlwaysArmed` | a pending timer has the interval timer set or a signal on its way |
| `ErrorsProofs` | `ErrorsToldOnce` | every handler is told of every message once |
| `MheapProofs` | `ValidateAlwaysHolds`, `PutsNeverPanic`, `ObjectsStayAsAsked`, `RefusalsOnlyWhenFull` | the allocator: what `mheap_validate` checks, no panic in `mheap_put`, objects as asked for, no refusal without need |
| `ArithmeticTheorems` | lemmas | quotients and remainders, which the solvers do not find by themselves; least numbers and induction for sets of numbers, from the well-foundedness of the order |

### The spin lock

For every finite number of CPUs from 2 to 65536 and `LockTypes = {SPIN}`. (Of
`HeaderAccountsForHolders` the run is about readers and writers, the theorem about
spin locks.) The
assumptions are `CPUsAssumption`, `LockTypesAssumption` and `NoCPUAssumption`.
None of the properties is inductive. The invariant `SpinInv` adds what they rest on:

- `TypeInv`: types, with no readers and at most `n_fifo_elts` waiters;
- `OwnerInv`: at most one CPU is `granted`, exactly when the writer bit is set,
  and every CPU past its wait is that one;
- `FifoInv`: the occupants of the slots between head and tail are exactly the
  CPUs that wait and have not been given the lock, each in its own slot, and the
  header's count is their number: this is why the fifo cannot overflow;
- `SlotInv`: what a slot holds follows from the step its CPU is at;
- `HandOverInv`: between the swap that pops a waiter and the store that wakes it,
  the lock belongs to the waiter and only the popping CPU may touch its slot;
- `CopyInv`: what a stale copy of the header still guarantees.

For the refinement, each action maps to `Acquire`, `Enqueue`, `HandOff`, `Release`
or a stutter (`AcquireStep`, `EnqueueStep`, `HandOffStep`, `ReleaseStep`,
`QueueStutters`); the circular window of slots behaves as a sequence.

### The SMP fifo

For at most two writers and two readers (`AtMostTwo`), every size from two
elements on, every width of the indices and every place where they start, the
wrap included. The hypotheses are the limits of the code: fullness is not tested
again after a failed swap, and the footer is marked only after the swap, so three
writers overfill a fifo of any size when one of them sleeps before its mark
(finding 2), three readers overtake the writers in the same way, and two writers
claim the only element of a fifo of one. `SmpFifoAssumption` says that no CPU
sleeps through a whole turn of the indices. `PowersOfTwo` are the consequences of
`max_n_elts` and the range of the indices being powers of two that the proof
uses, stated because the provers know nothing of exponentiation; TLC evaluates
it. `FifoInv` says, relative to the index `f` where the fifo started:

- `IndexInv`: the read index is not ahead of the write index, and the write index
  at most `max_n_elts` ahead; a remembered index is not ahead of the true one;
- `UseInv`: an element that is being written lies between the indices, one that
  is being read behind them with its place not claimed again, and no two CPUs
  have the same one;
- `StateInv`: a footer says how far the CPU that uses the element is; without a
  CPU it is done between the indices and free outside;
- `SeenInv`: the heart of it. A CPU whose remembered index is still true knows
  what it has tested (`WriterSeen`, `ReaderSeen`). One whose index has been passed
  was passed by the only other one of its kind, whose element is therefore the
  latest (`WriterPassed`, `ReaderPassed`), so that the place it looks at next is not
  one that is claimed and unmarked: the test that the code leaves out is not
  needed for two;
- `DataInv`: what is in an element that is written or done.

For the refinement the queue of `SlotQueue` is the sequence of the elements
between the indices, and each swap, store of data and mark maps to a step of it.

### Bootstrap and barrier

For every number of CPUs and of barriers. `BarrierInv` relates the two words in
shared memory to where the CPUs are: the flag is up exactly while CPU 0 waits,
the counter is the number of slaves that wait for the flag of this round to fall,
and a slave of another round is one that still waits for the flag of the last one
to fall (`RoundInv`); `CloneInv`, `ArrivedInv` and `ExitInv` say the same of the
clones, the rounds and the exits. Safety does hold when barriers follow each
other; it is progress that does not (finding 4).

### Event log

For every finite number of writers, every size of the ring, and every limit
(`WritersAssumption`, `RingAssumption`, `EventsAssumption`). `LockInv` and `IndexInv`: a
type's index stands for the type, or the writer with the lock is about to make
it so, and a writer's copy of the index too. `RingInv`: the place of each of the last
`RING_SIZE` numbers is in the hands of the writer that took the number, or written
by it, or marked as overlapped. `LimitInv`: the events and the writers that found
the log enabled are together no more than the limit and the number of writers,
which bounds how far writers run past the limit. `OverrunInv`: after a trigger that
asked for at least one event, the writer of the event that reached the limit is
among those that found the log enabled, so that one event less runs past it.

### Interval timers

For all delays, any number of timers and any nesting of handlers
(`DelaysAssumption`). `ReadInv`: no handler's reading of the time is older than the
time that was spent in handlers, which is by how much a handler may set the
interval timer late. That the handler that returns last has set the timer for the
earliest of all timers follows because a timer that is earlier than the others
starts a handler of its own.

### Errors

For any number of messages and handlers, and any nesting. `DispatchInv`: nested
dispatches are of different messages that are not finished, and each has told
exactly the handlers before its position; `ToldInv` is the property, element by
element.

### The memory allocator

For every `max_size` of whole words, every set of sizes and alignments that the
31 bits of a bin's size hold and every alignment offset (`SizeAssumption`), every
number of bins, of cached bins and of cache entries (`BinAssumption`: only bins of
a single size are cached, as in the code, where an element of a cached bin serves
any request for the bin). `AllocatorInv` is inductive, and all four properties
follow from it state by state:

- `HeapOK` is about the heap alone. Up to the tag that ends it, every tag is `Fine`:
  it leads to the next one with nothing between, the next one has its size and
  whether it is free, and not both it and the element before it are free. `Listed`
  says that the links of the free elements agree in both directions, stay in one
  bin, and that ranks fall along them, so that a list ends; the listed elements
  are exactly the free ones, under the bin of the size in their tag. The tag at
  the start has no element before it and the tag at the end none behind it. A heap
  that has been freed entirely keeps its first tag, which the last part of
  `HeapOK` bounds, since `mheap_get_aligned` reuses it;
- `ObjectsIn`: the user's objects are held elements, as long and as aligned as
  asked for; `CacheIn`: those of the cache are held elements too, none of them the
  user's, each in one slot, under the bin of its size;
- `NoneLost`: there is no other held element; `Counted` and `SlotOffsets`: the
  counter, the replacement index, and what unused slots keep.

`HeapOK` does not hold inside a call: `mheap_get_aligned` unlinks a free element
and writes up to three in its place, `mheap_put` unlinks up to two and writes
one. Between two such assignments the heap is a `Hole`: as before outside two
tags, with nothing between them. `RemovedHeap` opens one, `SplitOff` writes an
element at its start, `Filled` closes it with a last one, `Grown` and `Chopped` move
the end; `JoinPrev` and `JoinNext` open what lies around a freed object. `CutHeap`,
`ExtendedHeap`, `FreedLast` and `FreedWithin` are the calls made of these, and say
which elements are held afterwards. `Placed` and `ExtendPlaced` are the arithmetic
of alignment: what is cut off before or behind an object is nothing or can be an
element, whatever the alignment, and the new object is aligned.

`PutNeverPanics` and `ObjectsAsAsked` are then parts of the invariant.
`RefusedOnlyWhenFull` needs two facts about sizes: bins grow with sizes
(`BinMonotone`), so first fit from the bin of the size upwards passes every
element that is large enough, and a small bin has elements of one size only
(`SmallBinOneSize`). For `ValidateHolds` a free list is followed by its ranks
(`ListsEnd`, `FreeListHas`, `FreeListLinked`), the elements are the user's, the
cache's and the free ones, and the sum of bytes is a walk down from the end
(`BytesAreCounted`). Recursion is by recursive functions, and the inductions are on
ranks and offsets, with `NumbersByInduction` and `LeastNumber`.

### Only model-checked

Liveness (`WaiterServed`, `EverythingTransferred`, `EveryTimerIsCalled`,
`ReturnsFromOneBarrier`) and the fairness it rests on are out of TLAPS's reach. Read
and write locks break (finding 1), and so have no theorem; what holds of them is
checked by the run `smp_lock_rw_heads`. That one unlock wakes several readers is not
part of it: the second look is at the slot just popped, so it finds a reader only
where the lock breaks. The modules with RECURSIVE
operators (`Fheap`, `Qsort`, `Phash`, `Unformat`, `Vhash`, `Marshal`, `Zvec`,
`ElogMerge`) cannot be proved about as they are. The rest is not proved yet:
`Heap`, `Hash`, `TimingWheel` (folds over sets and numbers of mixed radix) and the
containers.

## Plan

1. Done: every module above and their runs; the proofs of the spin lock, the SMP
   fifo, the barrier, the event log, the interval timers, error dispatch and the
   memory allocator.
2. Proofs to come: the order of bytes of `Socket`; the pool's agreement of free
   indices and bitmap; the index arithmetic of `Fifo`, with the induction of
   `ArithmeticTheorems` for its iteration; the lookups of `Mhash`.

## Not modelled

- *format, annealing, md5, random numbers*: pure computations on text, floating
  point numbers or full words. There is no state beyond the result; test vectors
  are the right check.
- *ELF, x86 disassembly*: decoders made of tables and layouts of files.
- *memory glue, vm, time, unix helpers, kernel log*: thin wrappers over mheap and
  system calls, or calibration of a clock.
- *SIMD helpers*: pure functions on vector registers; of *strings*, `atoi`.
- *valgrind.h*: third-party.
- Of the modelled parts: printing, statistics; the layout of memory
  (headers of vectors, alignment, stacks); `hash_dup`, `heap_dup`, tables without
  values; configuration strings and addresses of sockets; the generated code of
  `phash`; a resize of an existing qhash.
