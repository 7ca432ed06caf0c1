------------------------------- MODULE Errors ------------------------------
(***************************************************************************)
(* Error reporting (error.c, error.h, error_bootstrap.h).  A message goes  *)
(* to every registered handler, or to the console when there is none.  A   *)
(* handler is code of the program: it may register another handler or      *)
(* raise a message itself, while the dispatch that called it is not over.  *)
(* An error that is returned is a vector that every caller on the way up   *)
(* may extend; the one who reports it frees it, or ends the program.       *)
(* Messages are numbers, in the order they are raised.                     *)
(***************************************************************************)
EXTENDS Naturals, Sequences, SequencesExt

CONSTANTS MAX_MESSAGES,     \* bound on the messages raised
          MAX_HANDLERS,     \* bound on the handlers registered
          MAX_ERRORS        \* bound on the length of an error vector

VARIABLES handlers,     \* registered handlers, in order
          dispatches,   \* stack of the dispatches under way, innermost last
          errors,       \* the error vector the program holds
          n_messages,   \* messages raised
          told,         \* handlers a message was given to, by message
          finished,     \* messages whose dispatch is over, with the handlers
                        \* registered by then
          ended         \* "no", "abort" or "exit"

error_vars == <<handlers, dispatches, errors, n_messages, told, finished, ended>>

\* how_to_die and the flags of an error.
Flags == {"none", "warning", "fatal", "abort"}

\* Codes: the ones unix_error_is_fatal forgives, and the others.
Codes == {"EINTR", "other"}

unix_error_is_fatal(code) == code # "EINTR"

ErrorsInit == /\ handlers = <<>> /\ dispatches = <<>> /\ errors = <<>>
        /\ n_messages = 0 /\ told = <<>> /\ finished = <<>>
        /\ ended = "no"

\* The program runs its own code: outside any dispatch, or in a handler that
\* the innermost one has called.
InProgram == /\ ended = "no"
             /\ dispatches # <<>> => Last(dispatches).i > 1

--------------------------------------------------------------------------
\* clib_error_register_handler, from the program or from a handler.
clib_error_register_handler ==
    /\ InProgram /\ Len(handlers) < MAX_HANDLERS
    /\ handlers' = Append(handlers, Len(handlers) + 1)
    /\ UNCHANGED <<dispatches, errors, n_messages, told, finished, ended>>

\* Flags of the vector that decide what its report does: those of the first error.
DecidingFlags(e) == e[1].flags

\* A dispatch begins: msg is raised and handler 0 is next.
BeginDispatch(flags) ==
    /\ n_messages' = n_messages + 1
    /\ told' = Append(told, <<>>)
    /\ finished' = Append(finished, <<>>)
    /\ dispatches' = Append(dispatches,
                            [msg |-> n_messages + 1, i |-> 1, n |-> Len(handlers), flags |-> flags])

\* _clib_error: clib_warning, clib_error, clib_unix_error, clib_panic, and ASSERT.
_clib_error(how_to_die) ==
    /\ InProgram /\ n_messages < MAX_MESSAGES
    /\ BeginDispatch(how_to_die)
    /\ UNCHANGED <<handlers, errors, ended>>

\* What the flags make of the program once the message is out.
AfterMessage(flags) ==
    ended' = CASE flags = "abort" -> "abort"     \* debugger
               [] flags = "fatal" -> "exit"      \* error_exit
               [] OTHER           -> "no"

CountedOnce(d) == d.i <= d.n

\* The loop of dispatch_message asks for the length of handlers every time.
MoreHandlers(d) == d.i <= Len(handlers)

\* dispatch_message calls the next handler; what the handler does are the
\* actions before the next step of this dispatch.
CallHandler ==
    /\ ended = "no" /\ dispatches # <<>>
    /\ LET d == Last(dispatches) IN
         /\ MoreHandlers(d)
         /\ told' = [told EXCEPT ![d.msg] = Append(@, handlers[d.i])]
         /\ dispatches' = [dispatches EXCEPT ![Len(dispatches)].i = @ + 1]
    /\ UNCHANGED <<handlers, errors, n_messages, finished, ended>>

\* The dispatch returns, after os_puts if there is no handler (0 stands for
\* the console); the message is freed and the caller acts on the flags.
DispatchReturns ==
    /\ ended = "no" /\ dispatches # <<>>
    /\ LET d == Last(dispatches) IN
         /\ ~MoreHandlers(d)
         /\ told' = IF handlers = <<>> THEN [told EXCEPT ![d.msg] = Append(@, 0)] ELSE told
         /\ finished' = [finished EXCEPT ![d.msg] = IF handlers = <<>> THEN <<0>> ELSE handlers]
         /\ AfterMessage(d.flags)
    /\ dispatches' = Front(dispatches)
    /\ UNCHANGED <<handlers, errors, n_messages>>

--------------------------------------------------------------------------
\* clib_error_return and its variants: one more error on the vector.  An error
\* without a format has no text (ERROR_RETURN_IF).
_clib_error_return(what, code, flags) ==
    /\ InProgram /\ Len(errors) < MAX_ERRORS
    /\ errors' = Append(errors, [what |-> what, code |-> code, flags |-> flags])
    /\ UNCHANGED <<handlers, dispatches, n_messages, told, finished, ended>>

clib_error_get_code(e) == e[1].code

\* IF_ERROR_IS_FATAL_RETURN_ELSE_FREE on an error that is not fatal.
clib_error_free ==
    /\ InProgram /\ errors # <<>>
    /\ ~unix_error_is_fatal(clib_error_get_code(errors))
    /\ errors' = <<>>
    /\ UNCHANGED <<handlers, dispatches, n_messages, told, finished, ended>>

\* format_clib_error writes the errors that have a text; the others are skipped.
HasText(e) == \E i \in DOMAIN e : e[i].what

\* _clib_error_report.  A vector with no text at all gives no message, and
\* dispatch_message returns at once.
_clib_error_report ==
    /\ InProgram /\ errors # <<>>
    /\ \/ /\ HasText(errors) /\ n_messages < MAX_MESSAGES
          /\ BeginDispatch(DecidingFlags(errors))
          /\ UNCHANGED ended
       \/ /\ ~HasText(errors)
          /\ AfterMessage(DecidingFlags(errors))
          /\ UNCHANGED <<dispatches, n_messages, told, finished>>
    /\ errors' = <<>>
    /\ UNCHANGED handlers

ErrorsNext == \/ clib_error_register_handler \/ CallHandler \/ DispatchReturns
        \/ \E how_to_die \in {"warning", "fatal", "abort"} : _clib_error(how_to_die)
        \/ \E what \in BOOLEAN, code \in Codes, flags \in {"none", "fatal"} :
             _clib_error_return(what, code, flags)
        \/ clib_error_free \/ _clib_error_report

ErrorsSpec == ErrorsInit /\ [][ErrorsNext]_error_vars

--------------------------------------------------------------------------
\* Every message whose dispatch is over was given exactly once, in the order of
\* their registration, to all the handlers registered by then, or to the
\* console when there were none; and a dispatch still under way has told its
\* handlers once.  Handlers that register handlers or raise messages while
\* dispatch_message is in its loop do not change that.
EveryHandlerToldOnce ==
    \A msg \in 1..n_messages :
        IF finished[msg] # <<>> THEN told[msg] = finished[msg]
        ELSE IsPrefix(told[msg], handlers)
=============================================================================
