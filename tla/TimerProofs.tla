----------------------------- MODULE TimerProofs -----------------------------
(***************************************************************************)
(* A pending timer always has the interval timer set for it, or SIGALRM on *)
(* its way, for any number of timers, any delays and any nesting of        *)
(* handlers.                                                               *)
(***************************************************************************)
EXTENDS Timer, ArithmeticTheorems, SequenceTheorems

TypeInv ==
  /\ time \in Nat /\ n_calls \in Nat /\ busy \in Nat
  /\ timers \in SUBSET (Nat \X Nat)
  /\ itimer \in Nat \cup {NO_TIME}
  /\ handlers \in Seq(Nat \cup {NO_TIME})

(* A handler's reading of the time is no older than the time that handlers *)
(* have taken.                                                             *)
ReadInv ==
  \A k \in 1 .. Len(handlers) :
    handlers[k] # NO_TIME => handlers[k] <= time /\ time - handlers[k] <= busy

TimerInv == TypeInv /\ ReadInv /\ ArmedForEarliest

-----------------------------------------------------------------------------
(* The timer at the end of the sorted vector is the earliest.              *)
LEMMA EarliestIsLeast ==
  ASSUME NEW S \in SUBSET (Nat \X Nat), S # {}
  PROVE  /\ Earliest(S) \in S
         /\ Earliest(S)[1] = Min(Times(S))
         /\ Min(Times(S)) \in Nat
         /\ \A t \in S : Min(Times(S)) <= t[1]
<1>1. Times(S) \in SUBSET Nat /\ Times(S) # {}
  BY DEF Times
<1>2. \E x \in Times(S) : \A y \in Times(S) : x <= y
  BY <1>1, LeastNumber
<1>3. /\ Min(Times(S)) \in Times(S)
      /\ \A y \in Times(S) : Min(Times(S)) <= y
  BY <1>2 DEF Min
<1>4. \E t \in S : t[1] = Min(Times(S))
  BY <1>3 DEF Times
<1>5. Earliest(S) \in S /\ Earliest(S)[1] = Min(Times(S))
  BY <1>4 DEF Earliest
<1> QED BY <1>1, <1>3, <1>5 DEF Times

(* A timer that is no earlier leaves the earliest as it is.                *)
LEMMA LaterTimerAdded ==
  ASSUME NEW S \in SUBSET (Nat \X Nat), S # {}, NEW t \in Nat, NEW n \in Nat,
         Min(Times(S)) <= t
  PROVE  Min(Times(S \cup {<<t, n>>})) = Min(Times(S))
<1> DEFINE T == S \cup {<<t, n>>}
<1>1. T \in SUBSET (Nat \X Nat) /\ T # {}
  OBVIOUS
<1>2. /\ Earliest(T) \in T /\ Earliest(T)[1] = Min(Times(T))
      /\ Min(Times(T)) \in Nat
      /\ \A x \in T : Min(Times(T)) <= x[1]
  BY <1>1, EarliestIsLeast
<1>3. /\ Earliest(S) \in S /\ Earliest(S)[1] = Min(Times(S))
      /\ Min(Times(S)) \in Nat
      /\ \A x \in S : Min(Times(S)) <= x[1]
  BY EarliestIsLeast
<1>4. Min(Times(T)) <= Min(Times(S))
  BY <1>2, <1>3
<1>5. Min(Times(S)) <= Min(Times(T))
  <2>1. CASE Earliest(T) \in S
    BY <2>1, <1>2, <1>3
  <2>2. CASE Earliest(T) = <<t, n>>
    BY <2>2, <1>2
  <2> QED BY <2>1, <2>2, <1>2
<1> QED BY <1>2, <1>3, <1>4, <1>5

(* The last handler of the stack, and the stack without it.                *)
LEMMA TopHandler ==
  ASSUME TypeInv, handlers # <<>>
  PROVE  /\ Len(handlers) \in Nat \ {0}
         /\ Last(handlers) = handlers[Len(handlers)]
         /\ Last(handlers) \in Nat \cup {NO_TIME}
         /\ Front(handlers) \in Seq(Nat \cup {NO_TIME})
         /\ Len(Front(handlers)) = Len(handlers) - 1
         /\ \A k \in 1 .. Len(handlers) - 1 : Front(handlers)[k] = handlers[k]
<1>1. Len(handlers) \in Nat \ {0}
  BY EmptySeq, LenProperties DEF TypeInv
<1>2. Front(handlers) = [k \in 1 .. Len(handlers) - 1 |-> handlers[k]]
  BY <1>1 DEF Front, TypeInv
<1> QED BY <1>1, <1>2, LenProperties, ElementOfSeq DEF Last, TypeInv

-----------------------------------------------------------------------------
(* Nothing is pending when the program starts.                             *)
LEMMA InitInv ==
  ASSUME TimerInit
  PROVE  TimerInv
BY EmptySeq DEF TimerInit, TimerInv, TypeInv, ReadInv, ArmedForEarliest

(* Any change of a stack that stays one of readings no older than busy.    *)
LEMMA PushKeeps ==
  ASSUME TypeInv, ReadInv, NEW l \in Seq(Nat \cup {NO_TIME}),
         l = handlers \/ l = Append(handlers, NO_TIME),
         handlers' = l, UNCHANGED <<time, busy>>
  PROVE  handlers' \in Seq(Nat \cup {NO_TIME}) /\ ReadInv'
<1>1. CASE l = handlers
  BY <1>1 DEF ReadInv
<1>2. CASE l = Append(handlers, NO_TIME)
  <2>1. /\ Len(handlers) \in Nat /\ Len(handlers') = Len(handlers) + 1
        /\ \A k \in 1 .. Len(handlers) : handlers'[k] = handlers[k]
        /\ handlers'[Len(handlers) + 1] = NO_TIME
    BY <1>2, AppendProperties, LenProperties DEF TypeInv
  <2> QED BY <2>1 DEF ReadInv
<1> QED BY <1>1, <1>2

(* timer_call adds a timer, and a handler unless an earlier one is set.    *)
LEMMA CallAdds ==
  ASSUME TypeInv, ReadInv, NEW dt \in Delays, NEW pending \in SUBSET timers,
         timer_call(dt, handlers, pending), UNCHANGED <<time, itimer, busy>>
  PROVE  /\ TypeInv' /\ ReadInv'
         /\ handlers' = <<>> =>
              pending # {} /\ Min(Times(timers')) = Min(Times(pending))
<1>1. time + dt \in Nat /\ n_calls \in Nat /\ pending \in SUBSET (Nat \X Nat)
  BY DelaysAssumption DEF TypeInv
<1>2. /\ timers' = pending \cup {<<time + dt, n_calls>>}
      /\ n_calls' = n_calls + 1
      /\ handlers' = IF reset_timer(pending, time + dt) THEN Append(handlers, NO_TIME)
                     ELSE handlers
  BY DEF timer_call
<1>3. Append(handlers, NO_TIME) \in Seq(Nat \cup {NO_TIME}) /\ Append(handlers, NO_TIME) # <<>>
  <2>1. handlers \in Seq(Nat \cup {NO_TIME}) /\ NO_TIME \in Nat \cup {NO_TIME}
    BY DEF TypeInv
  <2>2. /\ Append(handlers, NO_TIME) \in Seq(Nat \cup {NO_TIME})
        /\ Append(handlers, NO_TIME) # <<>>
    BY ONLY <2>1, AppendProperties, SMT
  <2> QED BY <2>2
<1>4. handlers' \in Seq(Nat \cup {NO_TIME}) /\ ReadInv'
  BY <1>2, <1>3, PushKeeps DEF TypeInv
<1>5. TypeInv'
  BY <1>1, <1>2, <1>4 DEF TypeInv
<1>6. ASSUME handlers' = <<>>
      PROVE  pending # {} /\ Min(Times(timers')) = Min(Times(pending))
  <2>1. ~reset_timer(pending, time + dt)
    BY <1>2, <1>3, <1>6
  <2>2. pending # {} /\ ~(time + dt < Min(Times(pending)))
    BY <2>1 DEF reset_timer
  <2>3. Min(Times(pending)) <= time + dt
    BY <1>1, <2>2, EarliestIsLeast
  <2> QED BY <1>1, <1>2, <2>2, <2>3, LaterTimerAdded
<1> QED BY <1>4, <1>5, <1>6

(* A call from outside of the handlers.                                    *)
LEMMA CallKeeps ==
  ASSUME TimerInv, Call
  PROVE  TimerInv'
<1>1. PICK dt \in Delays : timer_call(dt, handlers, timers)
  BY DEF Call
<1>2. /\ TypeInv' /\ ReadInv'
      /\ handlers' = <<>> => timers # {} /\ Min(Times(timers')) = Min(Times(timers))
  BY <1>1, CallAdds DEF TimerInv, Call
<1>3. ArmedForEarliest'
  <2> SUFFICES ASSUME handlers' = <<>>, timers' # {}
               PROVE  \/ alarm'
                      \/ itimer' # NO_TIME /\ itimer' <= Earliest(timers')[1] + busy'
    BY DEF ArmedForEarliest
  <2>1. Earliest(timers')[1] = Earliest(timers)[1]
    BY <1>2, EarliestIsLeast DEF TimerInv, TypeInv
  <2> QED BY <1>2, <2>1 DEF TimerInv, ArmedForEarliest, Call
<1> QED BY <1>2, <1>3 DEF TimerInv

(* SIGALRM is delivered: a handler runs.                                   *)
LEMMA DeliverKeeps ==
  ASSUME TimerInv, Deliver
  PROVE  TimerInv'
<1>1. /\ <<NO_TIME>> \in Seq(Nat \cup {NO_TIME}) /\ <<NO_TIME>> # <<>>
      /\ Len(<<NO_TIME>>) = 1 /\ <<NO_TIME>>[1] = NO_TIME
  OBVIOUS
<1> QED BY <1>1 DEF Deliver, TimerInv, TypeInv, ReadInv, ArmedForEarliest

(* The handler reads the time.                                             *)
LEMMA ReadNowKeeps ==
  ASSUME TimerInv, ReadNow
  PROVE  TimerInv'
<1>1. Len(handlers) \in Nat \ {0} /\ time \in Nat /\ busy \in Nat
  BY TopHandler DEF TimerInv, TypeInv, ReadNow
<1>2. /\ handlers' \in Seq(Nat \cup {NO_TIME}) /\ Len(handlers') = Len(handlers)
      /\ handlers'[Len(handlers)] = time
      /\ \A k \in 1 .. Len(handlers) : k # Len(handlers) => handlers'[k] = handlers[k]
  BY <1>1, ExceptSeq DEF TimerInv, TypeInv, ReadNow
<1>3. handlers' # <<>>
  BY <1>1, <1>2, EmptySeq
<1>4. TypeInv'
  BY <1>2 DEF TimerInv, TypeInv, ReadNow
<1>5. ReadInv'
  <2> SUFFICES ASSUME NEW k \in 1 .. Len(handlers'), handlers'[k] # NO_TIME
               PROVE  handlers'[k] <= time /\ time - handlers'[k] <= busy
    BY DEF ReadInv, ReadNow
  <2>1. CASE k = Len(handlers)
    BY <2>1, <1>1, <1>2
  <2>2. CASE k # Len(handlers)
    BY <2>2, <1>1, <1>2 DEF TimerInv, ReadInv
  <2> QED BY <2>1, <2>2
<1>6. ArmedForEarliest'
  BY <1>3 DEF ArmedForEarliest
<1> QED BY <1>4, <1>5, <1>6 DEF TimerInv

(* A function is called, and perhaps calls timer_call: the handler goes on.*)
LEMMA CallFunctionKeeps ==
  ASSUME TimerInv, CallTimerFunction
  PROVE  TimerInv'
<1>1. PICK pending : pending = timers \ {Earliest(timers)}
  OBVIOUS
<1>2. /\ handlers # <<>>
      /\ \/ timers' = pending /\ UNCHANGED <<handlers, n_calls>>
         \/ \E dt \in Delays : timer_call(dt, handlers, pending)
      /\ UNCHANGED <<time, itimer, alarm, busy>>
  BY <1>1 DEF CallTimerFunction, Running
<1>3. pending \in SUBSET timers
  BY <1>1
<1>4. CASE timers' = pending /\ UNCHANGED <<handlers, n_calls>>
  BY <1>2, <1>3, <1>4 DEF TimerInv, TypeInv, ReadInv, ArmedForEarliest
<1>5. ASSUME NEW dt \in Delays, timer_call(dt, handlers, pending)
      PROVE  TimerInv'
  <2>1. TypeInv' /\ ReadInv'
    BY <1>2, <1>3, <1>5, CallAdds DEF TimerInv
  <2>2. handlers' # <<>>
    BY <1>2, <1>5, AppendProperties, EmptySeq, LenProperties DEF timer_call, TimerInv, TypeInv
  <2> QED BY <2>1, <2>2 DEF TimerInv, ArmedForEarliest
<1> QED BY <1>2, <1>4, <1>5

(* A handler that is done sets the interval timer, from its reading of the *)
(* time, which is late by no more than the time that handlers took.        *)
LEMMA SetTimerKeeps ==
  ASSUME TimerInv, SetTimer
  PROVE  TimerInv'
<1>1. handlers # <<>> /\ Last(handlers) # NO_TIME /\ timers # {} /\ handlers' = Front(handlers)
      /\ itimer' = time + (Earliest(timers)[1] - Last(handlers))
      /\ Earliest(timers)[1] - Last(handlers) > time_resolution
      /\ UNCHANGED <<time, timers, alarm, n_calls, busy>>
  BY DEF SetTimer, Running, dt_left
<1>2. /\ Len(handlers) \in Nat \ {0} /\ Last(handlers) = handlers[Len(handlers)]
      /\ Last(handlers) \in Nat /\ time \in Nat /\ busy \in Nat
      /\ handlers' \in Seq(Nat \cup {NO_TIME}) /\ Len(handlers') = Len(handlers) - 1
      /\ \A k \in 1 .. Len(handlers) - 1 : handlers'[k] = handlers[k]
  BY <1>1, TopHandler DEF TimerInv, TypeInv
<1>3. time - Last(handlers) <= busy /\ Last(handlers) <= time
  BY <1>1, <1>2 DEF TimerInv, ReadInv
<1>4. Earliest(timers)[1] \in Nat
  BY <1>1, EarliestIsLeast DEF TimerInv, TypeInv
<1>5. itimer' \in Nat /\ itimer' # NO_TIME /\ itimer' <= Earliest(timers)[1] + busy
  BY <1>1, <1>2, <1>3, <1>4, DelaysAssumption DEF NO_TIME
<1>6. TypeInv' /\ ArmedForEarliest'
  BY <1>1, <1>2, <1>5 DEF TimerInv, TypeInv, ArmedForEarliest
<1>7. ReadInv'
  BY <1>1, <1>2 DEF TimerInv, ReadInv
<1> QED BY <1>6, <1>7 DEF TimerInv

(* A handler that finds no timer returns.                                  *)
LEMMA ReturnEmptyKeeps ==
  ASSUME TimerInv, ReturnEmpty
  PROVE  TimerInv'
<1>1. /\ Len(handlers) \in Nat \ {0}
      /\ handlers' \in Seq(Nat \cup {NO_TIME}) /\ Len(handlers') = Len(handlers) - 1
      /\ \A k \in 1 .. Len(handlers) - 1 : handlers'[k] = handlers[k]
  BY TopHandler DEF TimerInv, TypeInv, ReturnEmpty, Running
<1> QED BY <1>1 DEF TimerInv, TypeInv, ReadInv, ArmedForEarliest, ReturnEmpty

(* Time that passes in handlers counts as theirs.                          *)
LEMMA TickKeeps ==
  ASSUME TimerInv, Tick
  PROVE  TimerInv'
<1>1. TypeInv'
  BY DEF TimerInv, TypeInv, Tick
<1>2. ReadInv'
  <2>1. CASE handlers = <<>>
    BY <2>1 DEF Tick, ReadInv
  <2>2. CASE handlers # <<>>
    BY <2>2 DEF Tick, ReadInv, TimerInv, TypeInv, NO_TIME
  <2> QED BY <2>1, <2>2
<1>3. ArmedForEarliest'
  <2> SUFFICES ASSUME handlers = <<>>, timers # {}, ~alarm
               PROVE  itimer # NO_TIME /\ itimer <= Earliest(timers)[1] + busy'
    BY DEF Tick, ArmedForEarliest
  <2> QED BY DEF TimerInv, ArmedForEarliest, Tick
<1> QED BY <1>1, <1>2, <1>3 DEF TimerInv

(* The interval timer goes off.                                            *)
LEMMA ExpireKeeps ==
  ASSUME TimerInv, Expire
  PROVE  TimerInv'
BY DEF TimerInv, TypeInv, ReadInv, ArmedForEarliest, Expire

(* Whatever happens next, the invariant holds again.                       *)
LEMMA NextKeeps ==
  ASSUME TimerInv, [TimerNext]_timer_vars
  PROVE  TimerInv'
<1>1. CASE UNCHANGED timer_vars
  BY <1>1 DEF timer_vars, TimerInv, TypeInv, ReadInv, ArmedForEarliest
<1> QED BY <1>1, CallKeeps, DeliverKeeps, ReadNowKeeps, CallFunctionKeeps, SetTimerKeeps,
           ReturnEmptyKeeps, TickKeeps, ExpireKeeps DEF TimerNext, timer_interrupt

(* The strengthened invariant holds in every state.                        *)
THEOREM TimerInvariant == TimerSpec => []TimerInv
BY InitInv, NextKeeps, PTL DEF TimerSpec

(* Outside of the handlers a pending timer has the interval timer set, no  *)
(* later than it is due but for the time that handlers took, or SIGALRM on *)
(* its way: whatever the delays, however many timers there are and however *)
(* deep timer_call and the functions it calls nest.                        *)
THEOREM TimerAlwaysArmed == TimerSpec => []ArmedForEarliest
BY TimerInvariant, PTL DEF TimerInv
=============================================================================
