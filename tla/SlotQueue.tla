----------------------------- MODULE SlotQueue -----------------------------
(***************************************************************************)
(* What a clib_smp_fifo_t promises its writers and readers: elements are   *)
(* queued in the order in which writers reserved their places, an element  *)
(* can be taken once it is published and only from the front, it does not  *)
(* change while it is queued or while its reader still uses it, and places *)
(* reserved, published or in use never exceed the capacity.                *)
(***************************************************************************)
EXTENDS Integers, Sequences, FiniteSets

CONSTANTS Writers, Readers, Capacity, Nothing

VARIABLES
  queue,    \* elements [tx_cpu, serial, done] in the order of reservation
  serial,   \* number of elements each writer has published
  holding   \* the element each reader uses

queueVars == <<queue, serial, holding>>

Held == {r \in Readers : holding[r] # Nothing}
PendingAt(w, i) == queue[i].tx_cpu = w /\ ~queue[i].done

Init ==
  /\ queue = <<>>
  /\ serial = [w \in Writers |-> 0]
  /\ holding = [r \in Readers |-> Nothing]

(* A writer reserves the last place of the queue.                          *)
Reserve(w) ==
  /\ Len(queue) + Cardinality(Held) < Capacity
  /\ \A i \in DOMAIN queue : ~PendingAt(w, i)
  /\ queue' = Append(queue, [tx_cpu |-> w, serial |-> serial[w], done |-> FALSE])
  /\ UNCHANGED <<serial, holding>>

(* It publishes the element it has written there.                          *)
Publish(w) ==
  /\ \E i \in DOMAIN queue :
       /\ PendingAt(w, i)
       /\ queue' = [queue EXCEPT ![i].done = TRUE]
  /\ serial' = [serial EXCEPT ![w] = @ + 1]
  /\ UNCHANGED holding

(* A reader takes the first element.                                       *)
Take(r) ==
  /\ holding[r] = Nothing
  /\ queue # <<>> /\ Head(queue).done
  /\ holding' = [holding EXCEPT ![r] = Head(queue)]
  /\ queue' = Tail(queue)
  /\ UNCHANGED serial

(* The reader gives the place back.                                        *)
GiveBack(r) ==
  /\ holding[r] # Nothing
  /\ holding' = [holding EXCEPT ![r] = Nothing]
  /\ UNCHANGED <<queue, serial>>

Next ==
  \/ \E w \in Writers : Reserve(w) \/ Publish(w)
  \/ \E r \in Readers : Take(r) \/ GiveBack(r)

Spec == Init /\ [][Next]_queueVars
============================================================================
