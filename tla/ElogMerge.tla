----------------------------- MODULE ElogMerge ------------------------------
(***************************************************************************)
(* Event logs that are merged and written to files: elog_merge and the     *)
(* serialization of elog.c.                                                *)
(*                                                                         *)
(* A file is a sequence of tokens <<form, value>>, the form being the      *)
(* width of a number, "small" for a compact integer or "bytes"; reading a  *)
(* token in another form than it was written in gives garbage.  A type is  *)
(* its format, which tells the kinds of the arguments; a string takes one  *)
(* place of the string table.  Times are whole numbers of one clock.  The  *)
(* ring of a log is as large as its events are many, and of the time of    *)
(* writing only that there is one is kept.                                 *)
(***************************************************************************)
EXTENDS Integers, Sequences, FiniteSets, FiniteSetsExt, SequencesExt

CONSTANTS LiveLogs,          \* the logs that may be merged
          ArgsOf,            \* format_args: format -> the kinds of its arguments
          N_LOGS             \* the logs that are merged into the first one

VARIABLES logs,              \* the logs as they were collected
          n_merged,          \* how many of them em stands for
          em                 \* the first log, with the others merged into it

vars == <<logs, n_merged, em>>

GARBAGE == -1

(* The form in which each kind of argument is written; the reader has the  *)
(* same cases.                                                             *)
FormOf == [i1 |-> "u8", i2 |-> "u16", i4 |-> "u32", t4 |-> "u32", T4 |-> "u32", i8 |-> "u64",
           s0 |-> "bytes", f8 |-> "u64"]

-----------------------------------------------------------------------------
(* elog_peek_events: the times count from init_time.                       *)
elog_peek_events(log) ==
  [k \in DOMAIN log.events |-> [log.events[k] EXCEPT !.time = @ - log.init_time]]

serialize_cstring(s, length) == <<<<"small", length>>, <<"bytes", s>>>>

(* serialize_elog_event and its loop over the arguments.                   *)
serialize_elog_event(types, e) ==
  LET args == ArgsOf[types[e.type]]
  IN  <<<<"u16", e.type>>, <<"u16", e.track>>, <<"u64", e.time>>>>
        \o [k \in DOMAIN args |-> <<FormOf[args[k]], e.data[k]>>]

(* serialize_elog_event_type, serialize_elog_track and serialize_vec_8,    *)
(* each called by vec_serialize for a vector with its length first.        *)
Vector(names) ==
  <<<<"u32", Len(names)>>>> \o FlattenSeq([k \in DOMAIN names |-> serialize_cstring(names[k], 1)])

(* serialize_elog_main and unserialize_elog_main are modelled from after   *)
(* the magic string on: it is written by serialize_cstring and looked for  *)
(* by unserialize_check_magic, which expects another form of its length    *)
(* and refuses every file.                                                 *)
serialize_elog_main(log) ==
  <<<<"u32", Len(log.events)>>, <<"u64", log.init_time>>>>
    \o Vector(log.event_types) \o Vector(log.tracks) \o Vector(log.string_table)
    \o <<<<"u32", Len(log.events)>>>>
    \o FlattenSeq([k \in DOMAIN log.events |->
                     serialize_elog_event(log.event_types, elog_peek_events(log)[k])])

(* A reader is the tokens that are left; a value is read in a form.        *)
Value(tokens, form) == IF tokens[1][1] = form THEN tokens[1][2] ELSE GARBAGE
After(tokens, n) == SubSeq(tokens, n + 1, Len(tokens))

ReadVector(tokens) == [k \in 1 .. Value(tokens, "u32") |-> Value(After(tokens, 2 * k), "bytes")]

unserialize_elog_event(types, tokens) ==
  LET type == Value(tokens, "u16")
      args == ArgsOf[types[type]]
  IN  [type |-> type, track |-> Value(After(tokens, 1), "u16"), time |-> Value(After(tokens, 2), "u64"),
       data |-> [k \in DOMAIN args |-> Value(After(tokens, 2 + k), FormOf[args[k]])]]

RECURSIVE ReadEvents(_, _, _)
ReadEvents(types, tokens, n) ==
  IF n = 0 THEN <<>>
  ELSE LET e == unserialize_elog_event(types, tokens)
       IN  <<e>> \o ReadEvents(types, After(tokens, 3 + Len(e.data)), n - 1)

(* The tracks of the file replace the default track that elog_init makes.  *)
unserialize_elog_main(tokens) ==
  LET at_types == After(tokens, 2)
      types == ReadVector(at_types)
      at_tracks == After(at_types, 1 + 2 * Len(types))
      tracks == ReadVector(at_tracks)
      at_strings == After(at_tracks, 1 + 2 * Len(tracks))
      strings == ReadVector(at_strings)
      at_events == After(at_strings, 1 + 2 * Len(strings))
  IN  [init_time |-> Value(Tail(tokens), "u64"), event_types |-> types, tracks |-> tracks,
       string_table |-> strings, events |-> ReadEvents(types, Tail(at_events), Value(at_events, "u32"))]

-----------------------------------------------------------------------------
(* The index of a type in the merged log, by its format.                   *)
IndexOf(types, format) == Min({i \in DOMAIN types : types[i] = format})

(* find_or_create_type for the types of src, in the order in which its     *)
(* events come upon them.                                                  *)
TypesWith(types, formats) ==
  FoldLeft(LAMBDA ts, f : IF f \in ToSet(ts) THEN ts ELSE Append(ts, f), types, formats)

\* Mutant: the offset is added to the first argument only.
FixedFirst(data, args, offset) ==
  [k \in DOMAIN data |-> IF args[k] = "T4" /\ k = 1 THEN data[k] + offset ELSE data[k]]

maybe_fix_string_table_offset(data, args, offset) ==
  [k \in DOMAIN data |-> IF args[k] = "T4" THEN data[k] + offset ELSE data[k]]

(* An event of src becomes one of dst.                                     *)
Remapped(e, src, types, dst) ==
  LET format == src.event_types[e.type]
  IN  [e EXCEPT !.type = IndexOf(types, format), !.track = @ + Len(dst.tracks),
                !.data = maybe_fix_string_table_offset(@, ArgsOf[format], Len(dst.string_table))]

Later(events, dt) == [k \in DOMAIN events |-> [events[k] EXCEPT !.time = @ + dt]]

(* vec_sort by time: events of one time in any order, here as they were.   *)
Sorted(events) ==
  LET Before(i, j) == \/ events[i].time < events[j].time
                      \/ events[i].time = events[j].time /\ i < j
  IN  [k \in DOMAIN events |->
         events[CHOOSE i \in DOMAIN events :
                  Cardinality({j \in DOMAIN events : Before(j, i)}) = k - 1]]

(* elog_merge.  The tags are names put in front of the tracks' names.  A   *)
(* dst that was never serialized takes the clock of src, start and all.    *)
elog_merge(dst, src) ==
  LET types == TypesWith(dst.event_types,
                         [k \in DOMAIN src.events |-> src.event_types[src.events[k].type]])
      copied == [k \in DOMAIN src.events |-> Remapped(src.events[k], src, types, dst)]
      init_time == IF dst.serialized THEN dst.init_time ELSE src.init_time
      dt == src.init_time - init_time
  IN  [event_types |-> types,
       tracks |-> dst.tracks \o src.tracks,
       string_table |-> dst.string_table \o src.string_table,
       init_time |-> init_time,
       serialized |-> dst.serialized \/ src.serialized,
       events |-> Sorted(IF dt > 0 THEN dst.events \o Later(copied, dt)
                         ELSE Later(dst.events, dt) \o copied)]

(* elog_get_events of a log that was collected and not merged.             *)
Collected(log, serialized) ==
  [init_time |-> log.init_time, event_types |-> log.event_types, tracks |-> log.tracks,
   string_table |-> log.string_table, serialized |-> serialized,
   events |-> elog_peek_events(log)]

-----------------------------------------------------------------------------
Init ==
  /\ logs \in [1 .. N_LOGS -> LiveLogs]
  /\ n_merged = 1
  /\ em = Collected(logs[1], FALSE)

(* elog_write_file, as far as it changes the log.                          *)
WriteFile ==
  /\ em' = [em EXCEPT !.serialized = TRUE]
  /\ UNCHANGED <<logs, n_merged>>

Merge ==
  /\ n_merged < N_LOGS
  /\ n_merged' = n_merged + 1
  /\ \E serialized \in BOOLEAN : em' = elog_merge(em, Collected(logs[n_merged + 1], serialized))
  /\ UNCHANGED logs

Next == WriteFile \/ Merge

Spec == Init /\ [][Next]_vars

-----------------------------------------------------------------------------
(* What an event says: its format, its track and its arguments, strings    *)
(* looked up in the string table as format_elog_event does.                *)
Says(log, e) ==
  LET format == log.event_types[e.type]
  IN  <<format, log.tracks[e.track],
        [k \in DOMAIN e.data |-> IF ArgsOf[format][k] = "T4" THEN log.string_table[e.data[k] + 1]
                                 ELSE e.data[k]]>>

AllSaid == FlattenSeq([i \in 1 .. n_merged |->
             [k \in DOMAIN logs[i].events |-> Says(logs[i], logs[i].events[k])]])

Occurrences(s, x) == Cardinality({k \in DOMAIN s : s[k] = x})

(* The merged log says what the logs said that were merged, in the order   *)
(* of its times; and what follows the magic string of a file, read again,  *)
(* is the log that was written.                                            *)
MergeKeepsEvents ==
  LET said == [k \in DOMAIN em.events |-> Says(em, em.events[k])]
  IN  /\ Len(said) = Len(AllSaid)
      /\ \A x \in ToSet(AllSaid) : Occurrences(said, x) = Occurrences(AllSaid, x)
      /\ \A k \in 1 .. Len(em.events) - 1 : em.events[k].time <= em.events[k + 1].time
      /\ \A i \in 1 .. N_LOGS :
           unserialize_elog_main(serialize_elog_main(logs[i])) =
             [logs[i] EXCEPT !.events = elog_peek_events(logs[i])]
=============================================================================
