---------------------------- MODULE ErrorsProofs ----------------------------
(***************************************************************************)
(* Every message goes to every handler once, in order, for any number of   *)
(* handlers and messages and any nesting of the dispatches: handlers may   *)
(* raise messages and register handlers while they are being called.       *)
(***************************************************************************)
EXTENDS Errors, SequenceTheorems, TLAPS

Dispatch == [msg : Nat, i : Nat, n : Nat, flags : Flags]

TypeInv ==
  /\ handlers \in Seq(Nat)
  /\ n_messages \in Nat
  /\ told \in Seq(Seq(Nat)) /\ Len(told) = n_messages
  /\ finished \in Seq(Seq(Nat)) /\ Len(finished) = n_messages
  /\ dispatches \in Seq(Dispatch)
  /\ errors \in Seq([what : BOOLEAN, code : Codes, flags : Flags])

(* s has the first k elements of t.                                        *)
First(s, t, k) ==
  /\ k \in Nat /\ k <= Len(t) /\ Len(s) = k
  /\ \A j \in 1 .. k : s[j] = t[j]

(* A dispatch under way is of a message of its own that is not finished,   *)
(* and has told exactly the handlers before the one that it is at.         *)
DispatchInv ==
  /\ \A k \in 1 .. Len(dispatches) :
       LET d == dispatches[k] IN
         /\ d.msg \in 1 .. n_messages
         /\ finished[d.msg] = <<>>
         /\ First(told[d.msg], handlers, d.i - 1)
  /\ \A j, k \in 1 .. Len(dispatches) :
       j # k => dispatches[j].msg # dispatches[k].msg

(* What EveryHandlerToldOnce says, element by element.                     *)
ToldInv ==
  \A m \in 1 .. n_messages :
    IF finished[m] # <<>> THEN told[m] = finished[m]
    ELSE First(told[m], handlers, Len(told[m]))

ErrorsInv == TypeInv /\ DispatchInv /\ ToldInv

-----------------------------------------------------------------------------
(* Having the first elements and being a prefix are the same.              *)
LEMMA FirstIsPrefix ==
  ASSUME NEW s \in Seq(Nat), NEW t \in Seq(Nat), First(s, t, Len(s))
  PROVE  IsPrefix(s, t)
<1>1. Len(s) \in Nat /\ Len(t) \in Nat /\ Len(s) <= Len(t)
  BY LenProperties DEF First
<1>2. /\ SubSeq(s, 1, Len(s)) = [k \in 1 .. Len(s) |-> s[k]]
      /\ SubSeq(t, 1, Len(s)) = [k \in 1 .. Len(s) |-> t[k]]
  BY <1>1
<1> QED BY <1>1, <1>2 DEF IsPrefix, First

(* The first elements stay the first when others are appended.             *)
LEMMA FirstOfLonger ==
  ASSUME NEW s, NEW t \in Seq(Nat), NEW k, First(s, t, k), NEW x \in Nat
  PROVE  First(s, Append(t, x), k)
<1>1. /\ Len(t) \in Nat /\ Len(Append(t, x)) = Len(t) + 1
      /\ \A j \in 1 .. Len(t) : Append(t, x)[j] = t[j]
  BY AppendProperties, LenProperties
<1> QED BY <1>1 DEF First

(* The next handler is appended to those that were told.                   *)
LEMMA FirstAndNext ==
  ASSUME NEW s \in Seq(Nat), NEW t \in Seq(Nat), NEW i \in Nat,
         First(s, t, i - 1), i <= Len(t)
  PROVE  /\ t[i] \in Nat /\ Append(s, t[i]) \in Seq(Nat)
         /\ First(Append(s, t[i]), t, i)
<1>1. i \in 1 .. Len(t) /\ Len(s) = i - 1 /\ Len(t) \in Nat
  BY LenProperties DEF First
<1>2. t[i] \in Nat
  BY <1>1, ElementOfSeq
<1>3. /\ Append(s, t[i]) \in Seq(Nat)
      /\ Len(Append(s, t[i])) = Len(s) + 1
      /\ \A j \in 1 .. Len(s) : Append(s, t[i])[j] = s[j]
      /\ Append(s, t[i])[Len(s) + 1] = t[i]
  BY <1>2, AppendProperties
<1> QED BY <1>1, <1>2, <1>3 DEF First

(* All of the elements are the whole.                                      *)
LEMMA FirstOfAll ==
  ASSUME NEW s \in Seq(Nat), NEW t \in Seq(Nat), NEW k, First(s, t, k), k >= Len(t)
  PROVE  s = t
<1>1. Len(t) \in Nat /\ Len(s) = Len(t) /\ \A j \in 1 .. Len(t) : s[j] = t[j]
  BY LenProperties DEF First
<1> QED BY <1>1, SeqEqual

(* Nothing happens but to the message and the dispatch of one index.       *)
LEMMA InnermostDispatch ==
  ASSUME ErrorsInv, dispatches # <<>>
  PROVE  /\ Len(dispatches) \in Nat \ {0}
         /\ Last(dispatches) = dispatches[Len(dispatches)]
         /\ Last(dispatches) \in Dispatch
         /\ Last(dispatches).msg \in 1 .. n_messages
         /\ told[Last(dispatches).msg] \in Seq(Nat)
         /\ finished[Last(dispatches).msg] = <<>>
         /\ First(told[Last(dispatches).msg], handlers, Last(dispatches).i - 1)
         /\ \A k \in 1 .. Len(dispatches) - 1 :
              dispatches[k].msg # Last(dispatches).msg
<1>1. Len(dispatches) \in Nat \ {0} /\ Last(dispatches) = dispatches[Len(dispatches)]
  BY EmptySeq, LenProperties DEF ErrorsInv, TypeInv, Last
<1>2. Last(dispatches) \in Dispatch
  BY <1>1, ElementOfSeq DEF ErrorsInv, TypeInv
<1>3. /\ Last(dispatches).msg \in 1 .. n_messages
      /\ finished[Last(dispatches).msg] = <<>>
      /\ First(told[Last(dispatches).msg], handlers, Last(dispatches).i - 1)
      /\ \A k \in 1 .. Len(dispatches) - 1 :
              dispatches[k].msg # Last(dispatches).msg
  BY <1>1 DEF ErrorsInv, DispatchInv
<1>4. told[Last(dispatches).msg] \in Seq(Nat)
  BY <1>3, ElementOfSeq DEF ErrorsInv, TypeInv
<1> QED BY <1>1, <1>2, <1>3, <1>4

-----------------------------------------------------------------------------
(* No message was raised when the program starts.                          *)
LEMMA InitInv ==
  ASSUME ErrorsInit
  PROVE  ErrorsInv
BY EmptySeq DEF ErrorsInit, ErrorsInv, TypeInv, DispatchInv, ToldInv

(* A handler that registers comes after those that were told.              *)
LEMMA RegisterKeeps ==
  ASSUME ErrorsInv, clib_error_register_handler
  PROVE  ErrorsInv'
<1>1. handlers \in Seq(Nat) /\ Len(handlers) + 1 \in Nat
  BY LenProperties DEF ErrorsInv, TypeInv
<1>2. handlers' = Append(handlers, Len(handlers) + 1)
  BY DEF clib_error_register_handler
<1>3. handlers' \in Seq(Nat)
  BY <1>1, <1>2, AppendProperties
<1>4. \A s, k : First(s, handlers, k) => First(s, handlers', k)
  BY <1>1, <1>2, FirstOfLonger
<1>5. TypeInv'
  BY <1>3 DEF ErrorsInv, TypeInv, clib_error_register_handler
<1>6. DispatchInv'
  BY <1>4 DEF ErrorsInv, DispatchInv, clib_error_register_handler
<1>7. ToldInv'
  BY <1>4 DEF ErrorsInv, ToldInv, clib_error_register_handler
<1> QED BY <1>5, <1>6, <1>7 DEF ErrorsInv

(* A dispatch that begins has told no handler.                             *)
LEMMA BeginKeeps ==
  ASSUME ErrorsInv, NEW flags \in Flags, BeginDispatch(flags), UNCHANGED handlers,
         errors' \in Seq([what : BOOLEAN, code : Codes, flags : Flags])
  PROVE  ErrorsInv'
<1>1. PICK d : d = [msg |-> n_messages + 1, i |-> 1, n |-> Len(handlers), flags |-> flags]
  OBVIOUS
<1>2. /\ handlers \in Seq(Nat) /\ Len(handlers) \in Nat /\ n_messages \in Nat
      /\ told \in Seq(Seq(Nat)) /\ finished \in Seq(Seq(Nat))
      /\ dispatches \in Seq(Dispatch) /\ Len(dispatches) \in Nat
      /\ Len(told) = n_messages /\ Len(finished) = n_messages
  BY LenProperties DEF ErrorsInv, TypeInv
<1>3. d \in Dispatch /\ d.msg = n_messages + 1 /\ d.i = 1
  BY <1>1, <1>2 DEF Dispatch
<1>4. /\ told' = Append(told, <<>>) /\ finished' = Append(finished, <<>>)
      /\ n_messages' = n_messages + 1 /\ dispatches' = Append(dispatches, d)
  BY <1>1 DEF BeginDispatch
<1>5. <<>> \in Seq(Nat) /\ Len(<<>>) = 0
  BY EmptySeq
<1>6. /\ told' \in Seq(Seq(Nat)) /\ Len(told') = n_messages + 1
      /\ \A m \in 1 .. n_messages : told'[m] = told[m]
      /\ told'[n_messages + 1] = <<>>
  BY <1>2, <1>4, <1>5, AppendProperties
<1>7. /\ finished' \in Seq(Seq(Nat)) /\ Len(finished') = n_messages + 1
      /\ \A m \in 1 .. n_messages : finished'[m] = finished[m]
      /\ finished'[n_messages + 1] = <<>>
  BY <1>2, <1>4, <1>5, AppendProperties
<1>8. /\ dispatches' \in Seq(Dispatch) /\ Len(dispatches') = Len(dispatches) + 1
      /\ \A k \in 1 .. Len(dispatches) : dispatches'[k] = dispatches[k]
      /\ dispatches'[Len(dispatches) + 1] = d
  BY <1>2, <1>3, <1>4, AppendProperties
<1>9. First(<<>>, handlers, 0)
  BY <1>2, <1>5 DEF First
<1>10. TypeInv'
  BY <1>2, <1>4, <1>6, <1>7, <1>8 DEF TypeInv
<1>11. DispatchInv'
  <2>1. ASSUME NEW k \in 1 .. Len(dispatches')
        PROVE  /\ dispatches'[k].msg \in 1 .. n_messages'
               /\ finished'[dispatches'[k].msg] = <<>>
               /\ First(told'[dispatches'[k].msg], handlers', dispatches'[k].i - 1)
    <3>1. CASE k \in 1 .. Len(dispatches)
      BY <3>1, <1>2, <1>4, <1>6, <1>7, <1>8 DEF ErrorsInv, DispatchInv
    <3>2. CASE k = Len(dispatches) + 1
      BY <3>2, <1>2, <1>3, <1>4, <1>6, <1>7, <1>8, <1>9
    <3> QED BY <3>1, <3>2, <1>2, <1>8
  <2>2. ASSUME NEW j \in 1 .. Len(dispatches'), NEW k \in 1 .. Len(dispatches'), j # k
        PROVE  dispatches'[j].msg # dispatches'[k].msg
    <3>1. \A a \in 1 .. Len(dispatches) : dispatches'[a].msg \in 1 .. n_messages
      BY <1>8 DEF ErrorsInv, DispatchInv
    <3>2. dispatches'[Len(dispatches) + 1].msg = n_messages + 1
      BY <1>3, <1>8
    <3>3. CASE j \in 1 .. Len(dispatches) /\ k \in 1 .. Len(dispatches)
      BY <3>3, <2>2, <1>8 DEF ErrorsInv, DispatchInv
    <3>4. CASE j = Len(dispatches) + 1 /\ k \in 1 .. Len(dispatches)
      BY <3>1, <3>2, <3>4, <1>2
    <3>5. CASE k = Len(dispatches) + 1 /\ j \in 1 .. Len(dispatches)
      BY <3>1, <3>2, <3>5, <1>2
    <3> QED BY <3>3, <3>4, <3>5, <2>2, <1>2, <1>8
  <2> QED BY <2>1, <2>2 DEF DispatchInv
<1>12. ToldInv'
  <2> SUFFICES ASSUME NEW m \in 1 .. n_messages'
               PROVE  IF finished'[m] # <<>> THEN told'[m] = finished'[m]
                      ELSE First(told'[m], handlers', Len(told'[m]))
    BY DEF ToldInv
  <2>1. CASE m \in 1 .. n_messages
    BY <2>1, <1>6, <1>7 DEF ErrorsInv, ToldInv
  <2>2. CASE m = n_messages + 1
    BY <2>2, <1>5, <1>6, <1>7, <1>9
  <2> QED BY <2>1, <2>2, <1>2, <1>4
<1> QED BY <1>10, <1>11, <1>12 DEF ErrorsInv

(* The next handler of the innermost dispatch is told.                     *)
LEMMA CallHandlerKeeps ==
  ASSUME ErrorsInv, CallHandler
  PROVE  ErrorsInv'
<1>1. PICK d : d = Last(dispatches)
  OBVIOUS
<1>2. PICK n : n = Len(dispatches)
  OBVIOUS
<1>3. /\ n \in Nat \ {0} /\ n = Len(dispatches) /\ d = dispatches[n] /\ d \in Dispatch
      /\ d.msg \in 1 .. n_messages /\ told[d.msg] \in Seq(Nat)
      /\ finished[d.msg] = <<>> /\ First(told[d.msg], handlers, d.i - 1)
      /\ \A k \in 1 .. n - 1 : dispatches[k].msg # d.msg
  BY <1>1, <1>2, InnermostDispatch DEF CallHandler
<1>4. /\ handlers \in Seq(Nat) /\ n_messages \in Nat /\ d.i \in Nat
      /\ told \in Seq(Seq(Nat)) /\ Len(told) = n_messages
      /\ dispatches \in Seq(Dispatch)
  BY <1>3 DEF ErrorsInv, TypeInv, Dispatch
<1>5. d.i <= Len(handlers)
  BY <1>1 DEF CallHandler, MoreHandlers
<1>6. PICK s : s = Append(told[d.msg], handlers[d.i])
  OBVIOUS
<1>7. s \in Seq(Nat) /\ First(s, handlers, d.i)
  BY <1>3, <1>4, <1>5, <1>6, FirstAndNext
<1>8. PICK e : e = [d EXCEPT !.i = d.i + 1]
  OBVIOUS
<1>9. e \in Dispatch /\ e.msg = d.msg /\ e.i = d.i + 1
  <2>1. d \in [msg : Nat, i : Nat, n : Nat, flags : Flags] /\ d.i + 1 \in Nat
    BY <1>3, <1>4 DEF Dispatch
  <2>2. /\ e \in [msg : Nat, i : Nat, n : Nat, flags : Flags]
        /\ e.msg = d.msg /\ e.i = d.i + 1
    BY ONLY <2>1, <1>8
  <2> QED BY <2>2 DEF Dispatch
<1>10. /\ told' = [told EXCEPT ![d.msg] = s]
       /\ dispatches' = [dispatches EXCEPT ![n] = e]
       /\ UNCHANGED <<handlers, errors, n_messages, finished, ended>>
  BY <1>1, <1>2, <1>3, <1>6, <1>8 DEF CallHandler
<1>11. /\ told' \in Seq(Seq(Nat)) /\ Len(told') = n_messages /\ told'[d.msg] = s
       /\ \A m \in 1 .. n_messages : m # d.msg => told'[m] = told[m]
  BY <1>3, <1>4, <1>7, <1>10, ExceptSeq
<1>12. /\ dispatches' \in Seq(Dispatch) /\ Len(dispatches') = n /\ dispatches'[n] = e
       /\ \A k \in 1 .. n - 1 : dispatches'[k] = dispatches[k]
  BY <1>3, <1>4, <1>9, <1>10, ExceptSeq
<1>13. TypeInv'
  BY <1>10, <1>11, <1>12 DEF ErrorsInv, TypeInv
<1>14. DispatchInv'
  <2>1. ASSUME NEW k \in 1 .. Len(dispatches')
        PROVE  /\ dispatches'[k].msg \in 1 .. n_messages'
               /\ finished'[dispatches'[k].msg] = <<>>
               /\ First(told'[dispatches'[k].msg], handlers', dispatches'[k].i - 1)
    <3>1. CASE k \in 1 .. n - 1
      <4>1. /\ dispatches'[k] = dispatches[k] /\ dispatches[k].msg \in 1 .. n_messages
            /\ finished[dispatches[k].msg] = <<>>
            /\ First(told[dispatches[k].msg], handlers, dispatches[k].i - 1)
            /\ dispatches[k].msg # d.msg
        BY <3>1, <1>3, <1>12 DEF ErrorsInv, DispatchInv
      <4> QED BY <4>1, <1>10, <1>11
    <3>2. CASE k = n
      <4>1. e.i - 1 = d.i
        BY <1>4, <1>9
      <4> QED BY <3>2, <4>1, <1>3, <1>7, <1>9, <1>10, <1>11, <1>12
    <3> QED BY <3>1, <3>2, <1>3, <1>12
  <2>2. \A k \in 1 .. Len(dispatches) : dispatches'[k].msg = dispatches[k].msg
    BY <1>3, <1>9, <1>12
  <2>3. \A j, k \in 1 .. Len(dispatches') :
          j # k => dispatches'[j].msg # dispatches'[k].msg
    BY <2>2, <1>3, <1>12 DEF ErrorsInv, DispatchInv
  <2> QED BY <2>1, <2>3 DEF DispatchInv
<1>15. ToldInv'
  <2> SUFFICES ASSUME NEW m \in 1 .. n_messages
               PROVE  IF finished[m] # <<>> THEN told'[m] = finished[m]
                      ELSE First(told'[m], handlers, Len(told'[m]))
    BY <1>10 DEF ToldInv
  <2>1. CASE m = d.msg
    BY <2>1, <1>3, <1>7, <1>11 DEF First
  <2>2. CASE m # d.msg
    BY <2>2, <1>11 DEF ErrorsInv, ToldInv
  <2> QED BY <2>1, <2>2
<1> QED BY <1>13, <1>14, <1>15 DEF ErrorsInv

(* A dispatch that is over has told all of the handlers.                   *)
LEMMA DispatchReturnsKeeps ==
  ASSUME ErrorsInv, DispatchReturns
  PROVE  ErrorsInv'
<1>1. PICK d : d = Last(dispatches)
  OBVIOUS
<1>2. PICK n : n = Len(dispatches)
  OBVIOUS
<1>3. /\ n \in Nat \ {0} /\ n = Len(dispatches) /\ d = dispatches[n] /\ d \in Dispatch
      /\ d.msg \in 1 .. n_messages /\ told[d.msg] \in Seq(Nat)
      /\ finished[d.msg] = <<>> /\ First(told[d.msg], handlers, d.i - 1)
      /\ \A k \in 1 .. n - 1 : dispatches[k].msg # d.msg
  BY <1>1, <1>2, InnermostDispatch DEF DispatchReturns
<1>4. /\ handlers \in Seq(Nat) /\ Len(handlers) \in Nat /\ n_messages \in Nat /\ d.i \in Nat
      /\ told \in Seq(Seq(Nat)) /\ Len(told) = n_messages
      /\ finished \in Seq(Seq(Nat)) /\ Len(finished) = n_messages
      /\ dispatches \in Seq(Dispatch)
  BY <1>3, LenProperties DEF ErrorsInv, TypeInv, Dispatch
<1>5. d.i - 1 >= Len(handlers)
  BY <1>1, <1>4 DEF DispatchReturns, MoreHandlers
<1>6. told[d.msg] = handlers
  BY <1>3, <1>4, <1>5, FirstOfAll
<1>7. PICK s : s = IF handlers = <<>> THEN <<0>> ELSE handlers
  OBVIOUS
<1>8. s \in Seq(Nat) /\ s # <<>>
  BY <1>4, <1>7
<1>9. /\ finished' = [finished EXCEPT ![d.msg] = s]
      /\ dispatches' = Front(dispatches)
      /\ UNCHANGED <<handlers, errors, n_messages>>
  BY <1>1, <1>7 DEF DispatchReturns
<1>10. /\ told' \in Seq(Seq(Nat)) /\ Len(told') = n_messages /\ told'[d.msg] = s
       /\ \A m \in 1 .. n_messages : m # d.msg => told'[m] = told[m]
  <2>1. CASE handlers = <<>>
    <3>1. told[d.msg] = <<>> /\ Append(<<>>, 0) = <<0>>
      BY <2>1, <1>6
    <3>2. told' = [told EXCEPT ![d.msg] = s]
      BY <2>1, <3>1, <1>1, <1>7 DEF DispatchReturns
    <3> QED BY <3>2, <1>3, <1>4, <1>8, ExceptSeq
  <2>2. CASE handlers # <<>>
    BY <2>2, <1>1, <1>4, <1>6, <1>7 DEF DispatchReturns
  <2> QED BY <2>1, <2>2
<1>11. /\ finished' \in Seq(Seq(Nat)) /\ Len(finished') = n_messages /\ finished'[d.msg] = s
       /\ \A m \in 1 .. n_messages : m # d.msg => finished'[m] = finished[m]
  BY <1>3, <1>4, <1>8, <1>9, ExceptSeq
<1>12. /\ dispatches' \in Seq(Dispatch) /\ Len(dispatches') = n - 1
       /\ \A k \in 1 .. n - 1 : dispatches'[k] = dispatches[k]
  <2>1. dispatches' = [k \in 1 .. n - 1 |-> dispatches[k]]
    BY <1>3, <1>4, <1>9 DEF Front
  <2> QED BY <2>1, <1>3, <1>4, ElementOfSeq
<1>13. TypeInv'
  BY <1>4, <1>9, <1>10, <1>11, <1>12 DEF ErrorsInv, TypeInv
<1>14. DispatchInv'
  <2>1. ASSUME NEW k \in 1 .. n - 1
        PROVE  /\ dispatches'[k].msg \in 1 .. n_messages'
               /\ finished'[dispatches'[k].msg] = <<>>
               /\ First(told'[dispatches'[k].msg], handlers', dispatches'[k].i - 1)
    <3>1. /\ dispatches'[k] = dispatches[k] /\ dispatches[k].msg \in 1 .. n_messages
          /\ finished[dispatches[k].msg] = <<>>
          /\ First(told[dispatches[k].msg], handlers, dispatches[k].i - 1)
          /\ dispatches[k].msg # d.msg
      BY <1>3, <1>12 DEF ErrorsInv, DispatchInv
    <3> QED BY <3>1, <1>9, <1>10, <1>11
  <2>2. ASSUME NEW j \in 1 .. n - 1, NEW k \in 1 .. n - 1, j # k
        PROVE  dispatches'[j].msg # dispatches'[k].msg
    <3>1. j \in 1 .. Len(dispatches) /\ k \in 1 .. Len(dispatches)
      BY <1>3
    <3>2. dispatches[j].msg # dispatches[k].msg
      BY <2>2, <3>1 DEF ErrorsInv, DispatchInv
    <3> QED BY <3>2, <1>12
  <2> QED BY <2>1, <2>2, <1>12 DEF DispatchInv
<1>15. ToldInv'
  <2> SUFFICES ASSUME NEW m \in 1 .. n_messages
               PROVE  IF finished'[m] # <<>> THEN told'[m] = finished'[m]
                      ELSE First(told'[m], handlers, Len(told'[m]))
    BY <1>9 DEF ToldInv
  <2>1. CASE m = d.msg
    BY <2>1, <1>8, <1>10, <1>11
  <2>2. CASE m # d.msg
    BY <2>2, <1>10, <1>11 DEF ErrorsInv, ToldInv
  <2> QED BY <2>1, <2>2
<1> QED BY <1>13, <1>14, <1>15 DEF ErrorsInv

(* Raising a message, and building, freeing and reporting an error.        *)
LEMMA ErrorKeeps ==
  ASSUME ErrorsInv, NEW how_to_die \in {"warning", "fatal", "abort"}, _clib_error(how_to_die)
  PROVE  ErrorsInv'
<1>1. how_to_die \in Flags
  BY DEF Flags
<1> QED BY <1>1, BeginKeeps DEF _clib_error, ErrorsInv, TypeInv

LEMMA ErrorReturnKeeps ==
  ASSUME ErrorsInv, NEW what \in BOOLEAN, NEW code \in Codes, NEW flags \in {"none", "fatal"},
         _clib_error_return(what, code, flags)
  PROVE  ErrorsInv'
<1>1. [what |-> what, code |-> code, flags |-> flags]
        \in [what : BOOLEAN, code : Codes, flags : Flags]
  BY DEF Flags
<1>2. errors' \in Seq([what : BOOLEAN, code : Codes, flags : Flags])
  BY <1>1, AppendProperties DEF ErrorsInv, TypeInv, _clib_error_return
<1> QED BY <1>2 DEF _clib_error_return, ErrorsInv, TypeInv, DispatchInv, ToldInv

LEMMA ErrorReportKeeps ==
  ASSUME ErrorsInv, _clib_error_report
  PROVE  ErrorsInv'
<1>1. errors' \in Seq([what : BOOLEAN, code : Codes, flags : Flags]) /\ UNCHANGED handlers
  BY EmptySeq DEF _clib_error_report
<1>2. CASE BeginDispatch(DecidingFlags(errors))
  <2>1. 1 \in 1 .. Len(errors)
    BY EmptySeq, LenProperties DEF ErrorsInv, TypeInv, _clib_error_report
  <2>2. errors[1] \in [what : BOOLEAN, code : Codes, flags : Flags]
    BY <2>1, ElementOfSeq DEF ErrorsInv, TypeInv
  <2>3. DecidingFlags(errors) \in Flags
    BY <2>2 DEF DecidingFlags
  <2> QED BY <1>1, <1>2, <2>3, BeginKeeps
<1>3. CASE UNCHANGED <<dispatches, n_messages, told, finished>>
  BY <1>1, <1>3 DEF ErrorsInv, TypeInv, DispatchInv, ToldInv
<1> QED BY <1>2, <1>3 DEF _clib_error_report

LEMMA ErrorFreeKeeps ==
  ASSUME ErrorsInv, clib_error_free
  PROVE  ErrorsInv'
BY EmptySeq DEF clib_error_free, ErrorsInv, TypeInv, DispatchInv, ToldInv

(* Whatever happens next, the invariant holds again.                       *)
LEMMA NextKeeps ==
  ASSUME ErrorsInv, [ErrorsNext]_error_vars
  PROVE  ErrorsInv'
<1>1. CASE UNCHANGED error_vars
  BY <1>1 DEF error_vars, ErrorsInv, TypeInv, DispatchInv, ToldInv
<1> QED BY <1>1, RegisterKeeps, CallHandlerKeeps, DispatchReturnsKeeps, ErrorKeeps,
           ErrorReturnKeeps, ErrorReportKeeps, ErrorFreeKeeps DEF ErrorsNext

(* The strengthened invariant holds in every state.                        *)
THEOREM ErrorsInvariant == ErrorsSpec => []ErrorsInv
BY InitInv, NextKeeps, PTL DEF ErrorsSpec

(* Every message that is out was given once to every handler registered by *)
(* then, in their order, or to the console when there were none; one that  *)
(* is still on its way was given to the first of them: for any nesting of  *)
(* dispatch_message, and any handlers that are registered during it.       *)
THEOREM ErrorsToldOnce == ErrorsSpec => []EveryHandlerToldOnce
<1>1. ErrorsInv => EveryHandlerToldOnce
  <2> SUFFICES ASSUME ErrorsInv, NEW msg \in 1 .. n_messages
               PROVE  IF finished[msg] # <<>> THEN told[msg] = finished[msg]
                      ELSE IsPrefix(told[msg], handlers)
    BY DEF EveryHandlerToldOnce
  <2>1. told[msg] \in Seq(Nat) /\ handlers \in Seq(Nat)
    BY ElementOfSeq DEF ErrorsInv, TypeInv
  <2>2. First(told[msg], handlers, Len(told[msg])) => IsPrefix(told[msg], handlers)
    BY <2>1, FirstIsPrefix
  <2> QED BY <2>2 DEF ErrorsInv, ToldInv
<1> QED BY <1>1, ErrorsInvariant, PTL
=============================================================================
