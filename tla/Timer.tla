------------------------------- MODULE Timer --------------------------------
(***************************************************************************)
(* The interval timers of timer.c: a vector of timers, the earliest last,  *)
(* and one interval timer of the kernel that is set for the earliest.      *)
(* timer_interrupt runs as the handler of SIGALRM and is called by         *)
(* timer_call with the signal blocked; the functions it calls may call     *)
(* timer_call again, so that handlers nest.  Each handler reads the time   *)
(* once and goes on with what it read, however long its functions take.    *)
(***************************************************************************)
EXTENDS Integers, Sequences, FiniteSets, FiniteSetsExt, SequencesExt

CONSTANTS Delays,            \* the dt that timer_call is given
          time_resolution,
          MAX_CALLS,         \* bound: calls of timer_call
          MAX_CALL_TIME,     \* bound: the time of the last call
          MAX_TIME           \* bound: the time at which the clock stands still

VARIABLES time,              \* unix_time_now
          timers,            \* the pending timers: <<time, number of the call>>
          itimer,            \* when ITIMER_REAL goes off, or NO_TIME
          alarm,             \* SIGALRM is pending
          handlers,          \* the nested calls of timer_interrupt: the now of
                             \* each, or NO_TIME while it has not read the time
          n_calls,
          busy               \* history: the time spent in handlers

timer_vars == <<time, timers, itimer, alarm, handlers, n_calls, busy>>

NO_TIME == -1

ASSUME DelaysAssumption == Delays \subseteq Nat /\ time_resolution \in Nat

Times(s) == {t[1] : t \in s}

(* The last timer of the sorted vector; timers of one time are in any      *)
(* order, which nothing here depends on.                                   *)
Earliest(s) == CHOOSE t \in s : t[1] = Min(Times(s))

TimerInit ==
  /\ time = 0 /\ timers = {} /\ itimer = NO_TIME /\ alarm = FALSE
  /\ handlers = <<>> /\ n_calls = 0 /\ busy = 0

\* Mutant: only the first timer sets the interval timer.
ResetFirst(s, t) == s = {}

\* Mutant: the vector is looked at before the timer is added.
ResetEarlier(s, t) == s # {} /\ t < Min(Times(s))

(* timer_call: whether the interval timer has to be set again.             *)
reset_timer(s, t) == s = {} \/ t < Min(Times(s))

(* timer_call, with the handlers that are left on the stack: a new one if  *)
(* the timer is to be reset.  The signal is blocked until it returns.      *)
timer_call(dt, left, pending) ==
  /\ n_calls < MAX_CALLS /\ time <= MAX_CALL_TIME
  /\ n_calls' = n_calls + 1
  /\ timers' = pending \cup {<<time + dt, n_calls>>}
  /\ handlers' = IF reset_timer(pending, time + dt) THEN Append(left, NO_TIME) ELSE left

(* The program calls timer_call, from outside of any handler.              *)
Call ==
  /\ handlers = <<>>
  /\ \E dt \in Delays : timer_call(dt, <<>>, timers)
  /\ UNCHANGED <<time, itimer, alarm, busy>>

(* The pending signal is delivered; it is blocked while handlers run.      *)
Deliver ==
  /\ alarm /\ handlers = <<>>
  /\ alarm' = FALSE
  /\ handlers' = <<NO_TIME>>
  /\ UNCHANGED <<time, timers, itimer, n_calls, busy>>

ReadNow ==
  /\ handlers # <<>> /\ Last(handlers) = NO_TIME
  /\ handlers' = [handlers EXCEPT ![Len(handlers)] = time]
  /\ UNCHANGED <<time, timers, itimer, alarm, n_calls, busy>>

Running == handlers # <<>> /\ Last(handlers) # NO_TIME

dt_left == Earliest(timers)[1] - Last(handlers)

(* The earliest timer is due: it is taken off and its function called,     *)
(* which may make the one call that is modelled here.                      *)
CallTimerFunction ==
  /\ Running /\ timers # {} /\ dt_left <= time_resolution
  /\ LET pending == timers \ {Earliest(timers)}
     IN  \/ timers' = pending /\ UNCHANGED <<handlers, n_calls>>
         \/ \E dt \in Delays : timer_call(dt, handlers, pending)
  /\ UNCHANGED <<time, itimer, alarm, busy>>

(* Otherwise setitimer, counted from the present time, and return.         *)
SetTimer ==
  /\ Running /\ timers # {} /\ dt_left > time_resolution
  /\ itimer' = time + dt_left
  /\ handlers' = Front(handlers)
  /\ UNCHANGED <<time, timers, alarm, n_calls, busy>>

ReturnEmpty ==
  /\ Running /\ timers = {}
  /\ handlers' = Front(handlers)
  /\ UNCHANGED <<time, timers, itimer, alarm, n_calls, busy>>

-----------------------------------------------------------------------------
Tick ==
  /\ time < MAX_TIME
  /\ time' = time + 1
  /\ busy' = IF handlers = <<>> THEN busy ELSE busy + 1
  /\ UNCHANGED <<timers, itimer, alarm, handlers, n_calls>>

(* The kernel's timer goes off; a time after the bound is taken to have    *)
(* come at the bound.                                                      *)
Expire ==
  /\ itimer # NO_TIME /\ (itimer <= time \/ time = MAX_TIME)
  /\ itimer' = NO_TIME
  /\ alarm' = TRUE
  /\ UNCHANGED <<time, timers, handlers, n_calls, busy>>

timer_interrupt == ReadNow \/ CallTimerFunction \/ SetTimer \/ ReturnEmpty

TimerNext == Call \/ Deliver \/ timer_interrupt \/ Tick \/ Expire

(* Handlers run on, time passes, the kernel's timer goes off and signals   *)
(* are delivered; nobody has to call timer_call.                           *)
TimerFairness ==
  /\ WF_timer_vars(timer_interrupt) /\ WF_timer_vars(Tick)
  /\ WF_timer_vars(Expire) /\ WF_timer_vars(Deliver)

TimerSpec == TimerInit /\ [][TimerNext]_timer_vars /\ TimerFairness

-----------------------------------------------------------------------------
(* Outside of the handlers a pending timer always has the interval timer   *)
(* set, or its signal on the way; and set no later than the timer is due,  *)
(* but for the time that handlers went on with an old reading of the time. *)
ArmedForEarliest ==
  handlers = <<>> /\ timers # {} =>
    \/ alarm
    \/ itimer # NO_TIME /\ itimer <= Earliest(timers)[1] + busy

(* Every timer's function is called at last.                               *)
EveryTimerIsCalled ==
  \A n \in 0 .. MAX_CALLS - 1 :
    (\E t \in timers : t[2] = n) ~> (n_calls > n /\ \A t \in timers : t[2] # n)
=============================================================================
