------------------------------ MODULE Unformat ------------------------------
(***************************************************************************)
(* Parsing of input by a format, unformat.c and the inlines of format.h.   *)
(* The input is a buffer that a fill function extends when the parser runs *)
(* past its end.  Every parse in progress has a mark at the place where it *)
(* began: a fill throws away what is before the first mark and moves the   *)
(* others down, and a parse that fails goes back to its own mark.          *)
(*                                                                         *)
(* Here the same calls are made on an input that reads a file (`input`,    *)
(* unformat_init_unix_file) and on one that has the whole text in its      *)
(* buffer (`string`, unformat_init_command_line).  The file comes in       *)
(* pieces: `chunks`, chosen at the start, is what the reads will return;   *)
(* one of them may fail.                                                   *)
(*                                                                         *)
(* A character is a string of length one; "END" is what the code returns   *)
(* at the end of the input, "NUL" the character 0.  The element of a       *)
(* format after % may also be the name of a function given with %U.        *)
(***************************************************************************)
EXTENDS Integers, Sequences, SequencesExt, TLC

CONSTANTS
    Texts,         \* the command lines to parse: sequences of words
    Formats,       \* the formats the callers use
    READ_SIZE,     \* what is asked of one read (4096 in the code)
    WORD_VALUES,   \* number of values of a uword
    INT_VALUES,    \* number of values of an int
    BYTE_VALUES,   \* number of values of a byte
    MAX_CALLS      \* bound on the calls made

VARIABLES
    input,         \* unformat_input_t that reads the file
    string,        \* unformat_input_t with the text in its buffer
    returned,      \* what the last call returned for each of the two
    met,           \* history: "nothing"; a failed parse went back from the file's
                   \* "end"; a read has "failed"
    n_calls

vars == <<input, string, returned, met, n_calls>>

(* UNFORMAT_END_OF_INPUT as an index: ~0, above every length. *)
END_INDEX == 2^20

(* Contents of unformat_input_t after unformat_init; the file of a string is
   empty and is never read (fill_buffer = 0). *)
unformat_init(fill_buffer, chunks) ==
    [buffer |-> <<>>, index |-> 0, buffer_marks |-> <<>>,
     fill_buffer |-> fill_buffer, chunks |-> chunks, lost |-> FALSE]

(* unformat_init_command_line: the words with a space in between. *)
unformat_init_command_line(argv) ==
    [unformat_init(FALSE, <<>>) EXCEPT
       !.buffer = FlattenSeq([k \in DOMAIN argv |->
                               argv[k] \o IF k < Len(argv) THEN <<" ">> ELSE <<>>])]

unformat_init_vector(vector_string) ==
    [unformat_init(FALSE, <<>>) EXCEPT !.buffer = vector_string]

unformat_init_unix_file(chunks) == unformat_init(TRUE, chunks)

(***************************************************************************)
(* Filling the buffer.                                                     *)
(***************************************************************************)

FAILED_READ == <<"FAILED">>
Zeros == [k \in 1..READ_SIZE |-> "NUL"]

(* unix_file_fill_buffer: at the end of the file the bytes made room for stay
   in the buffer, zero.  The number of bytes read is unsigned, so that a failed
   read counts as one that makes the buffer a byte shorter.  An empty buffer
   then has the greatest length there is (`lost`): behind the zeros is memory
   that is somebody else's. *)
unix_file_fill_buffer(i) ==
    IF i.chunks = <<>>
    THEN [i EXCEPT !.buffer = @ \o Zeros, !.index = END_INDEX]
    ELSE IF Head(i.chunks) = FAILED_READ
    THEN [i EXCEPT !.buffer = IF @ = <<>> THEN Zeros ELSE Front(@),
                   !.lost = i.buffer = <<>>, !.chunks = Tail(@)]
    ELSE [i EXCEPT !.buffer = @ \o Head(i.chunks), !.chunks = Tail(@)]

(* Mutant: the marks stay where they were. *)
MarksNotMoved(i) ==
    LET Drop(first_mark) ==
          [i EXCEPT !.buffer = SubSeq(@, first_mark + 1, Len(@)),
                    !.index = Len(i.buffer) - first_mark]
    IN  Drop(IF i.buffer_marks = <<>> THEN Len(i.buffer) ELSE i.buffer_marks[1])

(* The buffer without what is before the first mark, the index at its end. *)
DroppedToMark(i) ==
    LET Drop(first_mark) ==
          [i EXCEPT !.buffer = SubSeq(@, first_mark + 1, Len(@)),
                    !.index = Len(i.buffer) - first_mark,
                    !.buffer_marks = [k \in DOMAIN @ |-> @[k] - first_mark]]
    IN  Drop(IF i.buffer_marks = <<>> THEN Len(i.buffer) ELSE i.buffer_marks[1])

(* The model ends a lost buffer where the memory does that it was given. *)
_unformat_fill_input(i) ==
    LET Filled(j) == IF j.fill_buffer THEN unix_file_fill_buffer(j) ELSE j
        Ended(j)  == IF j.index >= Len(j.buffer) THEN [j EXCEPT !.index = END_INDEX] ELSE j
    IN  IF i.index = END_INDEX THEN i
        ELSE IF i.lost THEN [i EXCEPT !.index = END_INDEX]
        ELSE Ended(Filled(DroppedToMark(i)))

unformat_check_input(i) ==
    IF i.index >= Len(i.buffer) /\ i.index # END_INDEX THEN _unformat_fill_input(i) ELSE i

unformat_is_eof(i) == unformat_check_input(i).index = END_INDEX

unformat_get_input(i) ==
    LET Got(j) == IF j.index < Len(j.buffer)
                  THEN [char |-> j.buffer[j.index + 1], input |-> [j EXCEPT !.index = @ + 1]]
                  ELSE [char |-> "END", input |-> j]
    IN  Got(unformat_check_input(i))

unformat_put_input(i) == [i EXCEPT !.index = @ - 1]

unformat_peek_input(i) ==
    LET Back(g) == IF g.char = "END" THEN g ELSE [g EXCEPT !.input = unformat_put_input(@)]
    IN  Back(unformat_get_input(i))

(***************************************************************************)
(* What each parser does with the next character: `next` is "more", "put"  *)
(* (the character goes back and the parser is done), "done" or "error".    *)
(***************************************************************************)

is_white_space(c) == c \in {" ", "TAB", "NL", "CR"}

Step(next, st) == [next |-> next, st |-> st]

(* unformat_skip_white_space *)
WhiteStep(st, c) == IF is_white_space(c) THEN Step("more", st + 1) ELSE Step("put", st)

(* unformat_string: a word, or balanced braces when it begins with one. *)
StringStep(st, c, delimiter) ==
    LET Add(s) == [s EXCEPT !.s = Append(@, c)]
    IN  IF st.backslash THEN Step("more", Add([st EXCEPT !.backslash = FALSE]))
        ELSE CASE c = "\\" -> Step("more", [st EXCEPT !.backslash = TRUE])
               [] c = "{" -> IF st.paren = 0 /\ st.s = <<>>
                             THEN Step("more", [st EXCEPT !.paren = 1, !.delimited = TRUE])
                             ELSE Step("more", Add([st EXCEPT !.paren = @ + 1]))
               [] c = "}" -> IF st.delimited /\ st.paren = 1
                             THEN Step("done", [st EXCEPT !.paren = 0])
                             ELSE Step("more", Add([st EXCEPT !.paren = @ - 1]))
               [] OTHER -> IF ~st.delimited /\ (is_white_space(c) \/ c = delimiter)
                           THEN Step("put", st)
                           ELSE Step("more", Add(st))

DecimalDigits == <<"0", "1", "2", "3", "4", "5", "6", "7", "8", "9">>
SmallLetters  == <<"a", "b", "c", "d", "e", "f", "g">>
LargeLetters  == <<"A", "B", "C", "D", "E", "F", "G">>

PlaceOf(c, chars) == CHOOSE k \in DOMAIN chars : chars[k] = c

(* The value of a character as a digit; 99 for one that is no digit. *)
DigitOf(c, base) ==
    CASE Contains(DecimalDigits, c) -> PlaceOf(c, DecimalDigits) - 1
      [] Contains(SmallLetters, c)  -> 9 + PlaceOf(c, SmallLetters)
      [] Contains(LargeLetters, c)  ->
           9 + (IF base >= 36 THEN 26 ELSE 0) + PlaceOf(c, LargeLetters)
      [] c = "/" -> 62
      [] c = "?" -> 63
      [] OTHER -> 99

(* unformat_integer: the overflow test is only that the value did not fall. *)
IntegerStep(st, c, base, is_signed) ==
    LET Sign(s) == Step("more", [st EXCEPT !.sign = s, !.n_input = @ + 1])
        Digit(value) ==
          IF value < st.value THEN Step("error", st)
          ELSE Step("more", [st EXCEPT !.value = value, !.n_digits = @ + 1, !.n_input = @ + 1])
    IN  CASE c = "-" /\ st.n_input = 0 -> IF is_signed THEN Sign(1) ELSE Step("error", st)
          [] c = "+" /\ st.n_input = 0 -> Sign(0)
          [] OTHER -> IF c \in {"-", "+"} \/ DigitOf(c, base) >= base
                      THEN Step("put", st)
                      ELSE Digit((base * st.value + DigitOf(c, base)) % WORD_VALUES)

(* unformat_float: whole part, fraction and exponent are values[1..3]. *)
FloatStep(st, c) ==
    LET Read(s) == Step("more", [s EXCEPT !.n_input = @ + 1])
        Digit(tmp) ==
          IF tmp < st.values[st.value_index] THEN Step("error", st)
          ELSE Read([st EXCEPT !.values[st.value_index] = tmp,
                               !.n_digits[st.value_index] = @ + 1])
    IN  CASE c \in {"-", "+"} ->
               IF st.value_index < 3 /\ st.n_digits[1] > 0 THEN Step("put", st)
               ELSE IF (st.value_index # 3 \/ st.n_digits[3] > 0) /\ st.n_input > 0
                    THEN Step("error", st)
               ELSE Read([st EXCEPT !.signs = Append(SubSeq(@, 1, st.sign_index - 1), c),
                                    !.sign_index = @ + 1])
          [] c \in {"e", "E"} ->
               IF st.n_input = 0 THEN Step("error", st)
               ELSE Read([st EXCEPT !.value_index = 3, !.sign_index = 2,
                                    !.signs = IF @ = <<>> THEN <<"+">> ELSE @])
          [] c = "." -> IF st.value_index > 1 THEN Step("error", st)
                        ELSE Read([st EXCEPT !.value_index = 2])
          [] Contains(DecimalDigits, c) ->
               Digit((st.values[st.value_index] * 10 + DigitOf(c, 10)) % WORD_VALUES)
          [] OTHER -> Step("put", st)

(* unformat_hex_string: a byte for every two digits. *)
HexStep(st, c) ==
    LET Digit(d) == IF st.n = 1 THEN [n |-> 0, d |-> 0, s |-> Append(st.s, d)]
                    ELSE [st EXCEPT !.n = 1, !.d = d]
    IN  IF DigitOf(c, 16) < 16 THEN Step("more", Digit(16 * st.d + DigitOf(c, 16)))
        ELSE Step("put", st)

(* unformat_token with its default set of characters. *)
TokenStep(st, c) ==
    IF DigitOf(c, 36) < 62 \/ c = "_" THEN Step("more", Append(st, c)) ELSE Step("put", st)

(* unformat_line, unformat_skip_line *)
LineStep(st, c) == IF c = "NL" THEN Step("done", st) ELSE Step("more", Append(st, c))

Stepped(parser, st, c) ==
    CASE parser.kind = "white"   -> WhiteStep(st, c)
      [] parser.kind = "string"  -> StringStep(st, c, parser.delimiter)
      [] parser.kind = "integer" -> IntegerStep(st, c, parser.base, parser.is_signed)
      [] parser.kind = "float"   -> FloatStep(st, c)
      [] parser.kind = "hex"     -> HexStep(st, c)
      [] parser.kind = "token"   -> TokenStep(st, c)
      [] parser.kind = "line"    -> LineStep(st, c)

(* The loop every parser is: get a character until it is done or at the end. *)
RECURSIVE Scan(_, _, _)
Scan(i, parser, st) ==
    LET Went(g, step) ==
          CASE step.next = "more"  -> Scan(g.input, parser, step.st)
            [] step.next = "put"   -> [input |-> unformat_put_input(g.input),
                                       st |-> step.st, end |-> "put"]
            [] OTHER               -> [input |-> g.input, st |-> step.st, end |-> step.next]
        Read(g) == IF g.char = "END" THEN [input |-> g.input, st |-> st, end |-> "END"]
                   ELSE Went(g, Stepped(parser, st, g.char))
    IN  Read(unformat_get_input(i))

(***************************************************************************)
(* The parsers: the input after them, whether they matched and the value,  *)
(* in one form (ToString) since values of every type are compared.         *)
(***************************************************************************)

Match(i, value)  == [input |-> i, ok |-> TRUE, value |-> <<ToString(value)>>]
NoMatch(i)       == [input |-> i, ok |-> FALSE, value |-> <<>>]

unformat_skip_white_space(i) == Scan(i, [kind |-> "white"], 0)

unformat_string(i, delimiter, format_character) ==
    LET Brace(r) == IF r.end = "END" /\ r.st.s = <<>> /\ r.st.paren = 1 THEN <<"{">> ELSE r.st.s
        Ended(s) == IF format_character = "s" THEN Append(s, "NUL") ELSE s
        Done(r)  == IF r.end = "END" /\ Brace(r) = <<>> THEN NoMatch(r.input)
                    ELSE Match(r.input, Ended(Brace(r)))
    IN  Done(Scan(i, [kind |-> "string",
                      delimiter |-> IF delimiter \in {"%", " ", "TAB"} THEN "NUL" ELSE delimiter],
                  [s |-> <<>>, paren |-> 0, delimited |-> FALSE, backslash |-> FALSE]))

(* The value as it is stored in an object of data_values values. *)
unformat_integer(i, base, is_signed, data_values) ==
    LET Value(st) == IF st.sign = 1 THEN (WORD_VALUES - st.value) % WORD_VALUES ELSE st.value
        Done(r) == IF r.end = "error" \/ r.st.n_digits = 0 THEN NoMatch(r.input)
                   ELSE Match(r.input, Value(r.st) % data_values)
    IN  Done(Scan(i, [kind |-> "integer", base |-> base, is_signed |-> is_signed],
                  [value |-> 0, n_digits |-> 0, n_input |-> 0, sign |-> 0]))

(* The parts of the number: what times_power_of_ten makes of them is arithmetic
   of the machine's floats. *)
unformat_float(i) ==
    LET Done(r) == IF r.end = "error" \/ r.st.n_digits[1] + r.st.n_digits[2] = 0
                   THEN NoMatch(r.input)
                   ELSE Match(r.input, <<r.st.signs, r.st.values, r.st.n_digits[2]>>)
    IN  Done(Scan(i, [kind |-> "float"],
                  [values |-> <<0, 0, 0>>, n_digits |-> <<0, 0, 0>>, value_index |-> 1,
                   signs |-> <<>>, sign_index |-> 1, n_input |-> 0]))

unformat_hex_string(i) ==
    LET Done(r) == IF r.st.n = 1 THEN NoMatch(r.input) ELSE Match(r.input, r.st.s)
    IN  Done(Scan(i, [kind |-> "hex"], [n |-> 0, d |-> 0, s |-> <<>>]))

unformat_token(i) ==
    LET Done(r) == IF r.st = <<>> THEN NoMatch(r.input) ELSE Match(r.input, r.st)
    IN  Done(Scan(i, [kind |-> "token"], <<>>))

unformat_line(i) ==
    LET Done(r) == Match(r.input, r.st) IN Done(Scan(i, [kind |-> "line"], <<>>))

unformat_skip_line(i) == Scan(i, [kind |-> "line"], <<>>).input

unformat_eof(i) ==
    LET Done(j) == IF j.index = END_INDEX THEN Match(j, "eof") ELSE NoMatch(j)
    IN  Done(unformat_check_input(i))

(***************************************************************************)
(* The format.  f is a place in it, as in the code, and At(fmt, f) the     *)
(* character there, NUL at its end.                                        *)
(***************************************************************************)

At(fmt, f) == IF f \in DOMAIN fmt THEN fmt[f] ELSE "NUL"

(* match_input_with_format: 0 when a character differs. *)
RECURSIVE match_input_with_format(_, _, _)
match_input_with_format(i, fmt, f) ==
    LET Matched(g) == IF g.char = At(fmt, f) THEN match_input_with_format(g.input, fmt, f + 1)
                      ELSE [input |-> g.input, f |-> 0]
    IN  IF At(fmt, f) \in {"NUL", "%", " "} THEN [input |-> i, f |-> f]
        ELSE Matched(unformat_get_input(i))

PushMark(i) == [i EXCEPT !.buffer_marks = Append(@, i.index)]


(* The end of va_unformat and of unformat_user: back to the mark after a
   failure, and the mark is taken away. *)
PopMark(r) ==
    [r EXCEPT !.input = [r.input EXCEPT
        !.index = IF r.ok THEN @ ELSE Last(r.input.buffer_marks),
        !.buffer_marks = Front(@)]]

unformat_user(i, func(_)) == PopMark(func(PushMark(i)))

RECURSIVE va_unformat_loop(_, _, _)

va_unformat(i, fmt) ==
    PopMark(va_unformat_loop(PushMark(i), fmt,
              [f |-> 1, default_skip |-> TRUE, match_percent |-> FALSE,
               match_format |-> FALSE, values |-> <<>>]))

(* unformat_input: a %v string that becomes an input of its own. *)
unformat_input(i) ==
    LET Sub(r) == IF r.ok THEN Match(r.input, unformat_init_vector(r.value).buffer) ELSE r
    IN  Sub(va_unformat(i, <<"%", "v">>))

(* unformat_line_input *)
unformat_line_input(i) ==
    LET Sub(r) == Match(r.input, unformat_init_vector(r.value).buffer)
    IN  Sub(unformat_user(i, unformat_line))

(* unformat_foo of test_format.c: a parser built from unformat. *)
unformat_foo(i) == va_unformat(i, <<"{", "%", "D", ",", "%", "D", "}">>)

(* The conversion at f: do_percent's second switch. *)
Converted(i, fmt, f, data_values) ==
    CASE At(fmt, f) = "d" -> unformat_integer(i, 10, TRUE, data_values)
      [] At(fmt, f) = "D" -> unformat_integer(i, 10, TRUE, BYTE_VALUES)
      [] At(fmt, f) = "u" -> unformat_integer(i, 10, FALSE, data_values)
      [] At(fmt, f) = "b" -> unformat_integer(i, 2, FALSE, data_values)
      [] At(fmt, f) = "o" -> unformat_integer(i, 8, FALSE, data_values)
      [] At(fmt, f) = "x" -> unformat_integer(i, 16, FALSE, data_values)
      [] At(fmt, f) = "X" -> unformat_integer(i, 16, FALSE, BYTE_VALUES)
      [] At(fmt, f) = "f" -> unformat_float(i)
      [] At(fmt, f) \in {"s", "v"} -> unformat_string(i, At(fmt, f + 1), At(fmt, f))
      [] At(fmt, f) \in {"=", "|"} -> Match(i, At(fmt, f))
      [] At(fmt, f) = "hex_string" -> unformat_hex_string(i)
      [] At(fmt, f) = "token"      -> unformat_token(i)
      [] At(fmt, f) = "line"       -> unformat_line(i)
      [] At(fmt, f) = "eof"        -> unformat_eof(i)
      [] At(fmt, f) = "input"      -> unformat_input(i)
      [] At(fmt, f) = "line_input" -> unformat_line_input(i)
      [] At(fmt, f) = "foo"        -> unformat_foo(i)
      [] OTHER -> NoMatch(i)

(* do_percent: a width w, l, ll or L is a word. *)
do_percent(i, fmt, f) ==
    LET With(g, data_values) == [r |-> Converted(i, fmt, g, data_values), f |-> g + 1]
    IN  CASE At(fmt, f) \in {"w", "L"} -> With(f + 1, WORD_VALUES)
          [] At(fmt, f) = "l" -> With(IF At(fmt, f + 1) = "l" THEN f + 2 ELSE f + 1, WORD_VALUES)
          [] OTHER -> With(f, INT_VALUES)

RECURSIVE AfterSpaces(_, _)
AfterSpaces(fmt, f) == IF is_white_space(At(fmt, f)) THEN AfterSpaces(fmt, f + 1) ELSE f

(* The loop of va_unformat from place st.f of the format; the marks are the
   caller's. *)
va_unformat_loop(i, fmt, st) ==
    LET Fail(j) == NoMatch(j)
        cf == At(fmt, st.f)
        is_toggle == cf = "%" /\ At(fmt, st.f + 1) = "_"
        is_percent == cf = "%" /\ At(fmt, st.f + 1) \notin {"_", "%", "NUL"}
        skips == st.f = 1 \/ st.default_skip \/ is_white_space(cf)

        (* %_ : in the middle of the format white space goes before skipping ends *)
        Toggle(f) ==
          va_unformat_loop(IF st.default_skip /\ ~(f = 3 \/ At(fmt, f) = "NUL")
                           THEN unformat_skip_white_space(i).input ELSE i,
                           fmt, [st EXCEPT !.f = f, !.default_skip = ~@])

        Percent(j, p) ==
          IF ~p.r.ok THEN Fail(p.r.input)
          ELSE va_unformat_loop(p.r.input, fmt,
                 [st EXCEPT !.f = p.f, !.match_percent = TRUE, !.match_format = FALSE,
                            !.values = @ \o p.r.value])

        Literal(f, m) ==
          IF m.f = 0 THEN Fail(m.input)
          ELSE va_unformat_loop(m.input, fmt,
                 [st EXCEPT !.f = m.f, !.match_percent = FALSE, !.match_format = m.f > f])

        Matched(j, n_skipped, f) ==
          IF cf = "NUL"
          THEN IF skips /\ ~st.match_percent /\ ~st.match_format /\ n_skipped = 0
                  /\ j.index # END_INDEX
               THEN Fail(j)
               ELSE [input |-> j, ok |-> TRUE, value |-> st.values]
          ELSE IF cf = " " /\ ~st.default_skip
          THEN IF n_skipped = 0 THEN Fail(j)
               ELSE va_unformat_loop(j, fmt,
                      [st EXCEPT !.f = f, !.match_percent = FALSE, !.match_format = FALSE])
          ELSE IF is_percent THEN Percent(j, do_percent(j, fmt, f))
          ELSE Literal(f, match_input_with_format(j, fmt, f))

        Skipped(w) == Matched(w.input, w.st,
                              CASE is_white_space(cf) -> AfterSpaces(fmt, st.f)
                                [] cf = "%" -> st.f + 1
                                [] OTHER -> st.f)
    IN  IF is_toggle THEN Toggle(st.f + 2)
        ELSE IF cf = "%" /\ At(fmt, st.f + 1) = "NUL" THEN Fail(i)
        ELSE Skipped(IF skips THEN unformat_skip_white_space(i) ELSE [input |-> i, st |-> 0])

(***************************************************************************)
(* Behaviour                                                               *)
(***************************************************************************)

(* The ways in which reads of at most READ_SIZE bytes can return a text. *)
Deliveries(text) ==
    {c \in UNION {[1..n -> 1..READ_SIZE] : n \in 0..Len(text)} :
        FoldSeq(LAMBDA a, b : a + b, 0, c) = Len(text)}

Cut(text, sizes) ==
    LET Before(k) == FoldSeq(LAMBDA a, b : a + b, 0, SubSeq(sizes, 1, k - 1))
    IN  [k \in DOMAIN sizes |-> SubSeq(text, Before(k) + 1, Before(k) + sizes[k])]

(* The same reads, and one that fails among them. *)
WithFailure(chunks) == {InsertAt(chunks, k, FAILED_READ) : k \in 1 .. Len(chunks) + 1}

Init ==
    /\ \E argv \in Texts :
         /\ string = unformat_init_command_line(argv)
         /\ \E sizes \in Deliveries(string.buffer) :
              LET chunks == Cut(string.buffer, sizes)
              IN  \E c \in {chunks} \cup WithFailure(chunks) : input = unformat_init_unix_file(c)
    /\ returned = <<>>
    /\ met = "nothing"
    /\ n_calls = 0

Answer(r) == [ok |-> r.ok, value |-> r.value]

ReadsThatFail(i) == Len(SelectSeq(i.chunks, LAMBDA c : c = FAILED_READ))

(* The file's end has been read when there are zeros in the buffer. *)
Called(on_file, on_string) ==
    /\ n_calls < MAX_CALLS /\ ~input.lost
    /\ n_calls' = n_calls + 1
    /\ input' = on_file.input
    /\ string' = on_string.input
    /\ returned' = <<Answer(on_file), Answer(on_string)>>
    /\ met' = IF met = "failed" \/ ReadsThatFail(on_file.input) < ReadsThatFail(input)
              THEN "failed"
              ELSE IF Contains(on_file.input.buffer, "NUL") /\ on_file.input.index # END_INDEX
              THEN "end"
              ELSE met

(* unformat (input, fmt, ...) *)
unformat(fmt) == Called(va_unformat(input, fmt), va_unformat(string, fmt))

(* unformat_user (input, unformat_token, ...) *)
UserToken == Called(unformat_user(input, unformat_token), unformat_user(string, unformat_token))

SkipLine ==
    LET Skip(i) == [input |-> unformat_skip_line(i), ok |-> TRUE, value |-> <<>>]
    IN  Called(Skip(input), Skip(string))

Peek ==
    LET Peeked(g) == [input |-> g.input, ok |-> TRUE, value |-> <<g.char>>]
    IN  Called(Peeked(unformat_peek_input(input)), Peeked(unformat_peek_input(string)))

(* unformat_free: the caller is done with both. *)
unformat_free ==
    /\ input.index # 0 \/ input.buffer # <<>>
    /\ input' = unformat_init(FALSE, <<>>)
    /\ string' = unformat_init(FALSE, <<>>)
    /\ returned' = <<>>
    /\ UNCHANGED <<met, n_calls>>

Next ==
    \/ \E fmt \in Formats : unformat(fmt)
    \/ UserToken
    \/ SkipLine
    \/ Peek
    \/ unformat_free

Spec == Init /\ [][Next]_vars

(***************************************************************************)
(* Properties                                                              *)
(***************************************************************************)

(* What is left to parse: the buffer from the index and the file's rest. *)
RestOf(i) ==
    IF i.index = END_INDEX THEN <<>>
    ELSE SubSeq(i.buffer, i.index + 1, Len(i.buffer))
           \o FlattenSeq(SelectSeq(i.chunks, LAMBDA c : c # FAILED_READ))

SameParse ==
    /\ returned # <<>> => returned[1] = returned[2]
    /\ RestOf(input) = RestOf(string)

(* However the reads cut the text, the calls return what they return for the
   whole text and leave the same rest: fills in the middle of nested parses
   keep the marks that a failure goes back to (_unformat_fill_input).  Once a
   parse has failed after it met the end of the file, or a read has failed,
   this does not hold any more. *)
PiecesDoNotMatter == met = "nothing" => SameParse

(* A call that does not match leaves the text as it was, whatever it consumed
   and however often the buffer was filled meanwhile: va_unformat and
   unformat_user go back to their mark, "in case parse fails".  There are two
   exceptions, both of a file.  If the end of the file was met, the text is
   followed by zeros that were made room for (unformat.c:1001-1007), and by
   nothing else; and nothing is said of a call in which a read failed, which
   takes a byte of the text with it (unformat.c:1002-1004). *)
FailureConsumesNothing ==
    n_calls' > n_calls =>
      /\ ~returned'[2].ok => RestOf(string') = RestOf(string)
      /\ ~returned'[1].ok /\ ReadsThatFail(input') = ReadsThatFail(input) =>
           LET rest == RestOf(input)
               n_zeros == Len(RestOf(input')) - Len(rest)
           IN  /\ n_zeros >= 0
               /\ RestOf(input') = rest \o [k \in 1 .. n_zeros |-> "NUL"]
               /\ n_zeros > 0 => met' # "nothing" /\ input'.chunks = <<>>
=============================================================================
