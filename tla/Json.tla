-------------------------------- MODULE Json --------------------------------
(***************************************************************************)
(* The bounded JSON writer of port/mqtt/jsonw.c and the documents the MQTT *)
(* device makes with it (flint_mqtt.c, demo/rpi4/mqtt_platform.c).  A text *)
(* is a sequence of characters; of those that need no care there is one,   *)
(* "a", a control character is "ctl", and true and false are "T" and "F".  *)
(* Keys are all alike.                                                     *)
(***************************************************************************)
EXTENDS Integers, Sequences, SequencesExt

CONSTANTS BufSizes,       \* sizes of the buffer
          Strings,    \* values of the string fields
          Numbers,    \* values of the number fields
          MaxTasks    \* tasks in a snapshot

ASSUME JsonAssumption == Numbers \subseteq Nat /\ MaxTasks \in Nat

VARIABLES w,       \* the writer
          todo,    \* the calls of it still to be made, and what for
          reader   \* how far a reader of JSON has come with w.buf

-----------------------------------------------------------------------------
jw_init(cap) == [buf |-> <<>>, cap |-> cap, overflow |-> FALSE, need_comma |-> FALSE]

put_c(j, c) ==
  IF Len(j.buf) + 1 < j.cap THEN [j EXCEPT !.buf = Append(@, c)]
                            ELSE [j EXCEPT !.overflow = TRUE]

put_s(j, s) ==
  LET Put[i \in 0..Len(s)] == IF i = 0 THEN j ELSE put_c(Put[i - 1], s[i]) IN Put[Len(s)]

Escaped(c) == IF c \in {"\"", "\\"} THEN <<"\\", c>> ELSE IF c = "ctl" THEN <<" ">> ELSE <<c>>
put_escaped(j, s) ==
  put_c(put_s(put_c(j, "\""), FlattenSeq([i \in DOMAIN s |-> Escaped(s[i])])), "\"")

sep(j) == [(IF j.need_comma THEN put_c(j, ",") ELSE j) EXCEPT !.need_comma = TRUE]
key(j) == put_c(put_escaped(sep(j), <<"a">>), ":")

Digits == <<"0", "1", "2", "3", "4", "5", "6", "7", "8", "9">>
Digit  == ToSet(Digits)

fm_u64_to_str(v) ==
  LET Text[n \in 0..v] ==
        IF n < 10 THEN <<Digits[n + 1]>> ELSE Append(Text[n \div 10], Digits[(n % 10) + 1])
  IN  Text[v]

jw_obj_open(j)   == [put_c(sep(j), "{") EXCEPT !.need_comma = FALSE]
jw_obj_close(j)  == [put_c(j, "}") EXCEPT !.need_comma = TRUE]
jw_arr_open(j)   == [put_c(key(j), "[") EXCEPT !.need_comma = FALSE]
jw_arr_close(j)  == [put_c(j, "]") EXCEPT !.need_comma = TRUE]
jw_str(j, v)     == put_escaped(key(j), v)
jw_u32(j, v)     == put_s(key(j), fm_u64_to_str(v))
jw_bool(j, v)    == put_c(key(j), IF v THEN "T" ELSE "F")

\* The magnitude of the most negative number is in range too.
jw_i64(j, v) ==
  LET k == key(j)
  IN  IF v < 0 THEN put_s(put_c(k, "-"), fm_u64_to_str(-(v + 1) + 1))
               ELSE put_s(k, fm_u64_to_str(v))

Call(j, c) ==
  CASE c.f = "obj_open"  -> jw_obj_open(j)
    [] c.f = "obj_close" -> jw_obj_close(j)
    [] c.f = "arr_open"  -> jw_arr_open(j)
    [] c.f = "arr_close" -> jw_arr_close(j)
    [] c.f = "str"       -> jw_str(j, c.s)
    [] c.f = "u32"       -> jw_u32(j, c.n)
    [] c.f = "i64"       -> jw_i64(j, c.n)
    [] c.f = "bool"      -> jw_bool(j, c.b)

-----------------------------------------------------------------------------
Open    == [f |-> "obj_open"]
Close   == [f |-> "obj_close"]
Str(s)  == [f |-> "str", s |-> s]
U32(n)  == [f |-> "u32", n |-> n]
I64(n)  == [f |-> "i64", n |-> n]
Bool(b) == [f |-> "bool", b |-> b]

build_status(s, n) == <<Open, Str(<<"a">>), Str(s), Str(s), Str(<<"a">>), U32(n), Close>>

set_reply_simple(s) == <<Open, Str(s), Str(<<"a">>), Close>>

uptime_reply(s, n) == <<Open, Str(s), U32(n), Close>>

fm_plat_ptp_json(s, n, haveMaster, locked) ==
  <<Open, Str(<<"a">>), Bool(locked)>>
  \o (IF haveMaster THEN <<Str(s), I64(n), I64(-n), I64(-n), U32(n)>> ELSE <<>>)
  \o (IF locked THEN <<Str(<<"a">>)>> ELSE <<>>) \o <<Close>>

fm_plat_stats_json(s, n, tasks) ==
  <<Open, U32(n), U32(n), U32(n), U32(n), [f |-> "arr_open"]>>
  \o FlattenSeq([i \in 1..tasks |-> <<Open, Str(s), U32(n), U32(n), U32(n), Close>>])
  \o <<[f |-> "arr_close"], Close>>

\* The documents made whole or not at all, and those made in any case.
Optional(s, n) ==
  {fm_plat_stats_json(s, n, k) : k \in 0..MaxTasks}
  \cup {fm_plat_ptp_json(s, n, h, l) : h \in BOOLEAN, l \in BOOLEAN}
Plain(s, n) == {build_status(s, n), set_reply_simple(s), uptime_reply(s, n)}

-----------------------------------------------------------------------------
(* What JSON is, as a machine that reads a text: the containers that are   *)
(* open and what may come next.                                            *)
Push(m, c, want) == [stack |-> <<c>> \o m.stack, want |-> want]
Bad(m) == [m EXCEPT !.want = "bad"]
To(m, want) == [m EXCEPT !.want = want]
Pop(m, c) ==
  IF m.stack # <<>> /\ Head(m.stack) = c THEN [stack |-> Tail(m.stack), want |-> "after"]
  ELSE Bad(m)

ReadValue(m, c) ==
  CASE c = "{"  -> Push(m, "{", "first key")
    [] c = "["  -> Push(m, "[", "first value")
    [] c = "\"" -> To(m, "in value")
    [] c = "-"  -> To(m, "digit")
    [] c \in {"T", "F"} -> To(m, "after")
    [] c \in Digit -> To(m, "in number")
    [] OTHER -> Bad(m)

ReadAfter(m, c) ==
  CASE c = "," /\ m.stack # <<>> -> To(m, IF Head(m.stack) = "{" THEN "key" ELSE "value")
    [] c = "}" -> Pop(m, "{")
    [] c = "]" -> Pop(m, "[")
    [] OTHER -> Bad(m)

ReadString(m, c, in, escape, end) ==
  CASE c = "\"" -> To(m, end)
    [] c = "\\" -> To(m, escape)
    [] c = "ctl" -> Bad(m)
    [] OTHER -> To(m, in)

Reads(m, c) ==
  CASE m.want = "value" -> ReadValue(m, c)
    [] m.want = "first value" -> IF c = "]" THEN Pop(m, "[") ELSE ReadValue(m, c)
    [] m.want = "first key" /\ c = "}" -> Pop(m, "{")
    [] m.want \in {"first key", "key"} -> IF c = "\"" THEN To(m, "in key") ELSE Bad(m)
    [] m.want = "in key" -> ReadString(m, c, "in key", "key escape", "colon")
    [] m.want = "key escape" -> To(m, "in key")
    [] m.want = "in value" -> ReadString(m, c, "in value", "value escape", "after")
    [] m.want = "value escape" -> To(m, "in value")
    [] m.want = "colon" -> IF c = ":" THEN To(m, "value") ELSE Bad(m)
    [] m.want = "digit" -> IF c \in Digit THEN To(m, "in number") ELSE Bad(m)
    [] m.want = "in number" -> IF c \in Digit THEN m ELSE ReadAfter(m, c)
    [] m.want = "after" -> ReadAfter(m, c)
    [] OTHER -> Bad(m)

Start == [stack |-> <<>>, want |-> "value"]

ReadsOn(m, text) ==
  LET Read[i \in 0..Len(text)] == IF i = 0 THEN m ELSE Reads(Read[i - 1], text[i])
  IN  Read[Len(text)]

\* What is new in the buffer is read as it comes, from the start if it was
\* emptied.
Follows ==
  reader' = IF w'.buf = <<>> THEN Start
            ELSE ReadsOn(reader, SubSeq(w'.buf, Len(w.buf) + 1, Len(w'.buf)))

-----------------------------------------------------------------------------
JsonInit ==
  /\ \E cap \in BufSizes : w = jw_init(cap)
  /\ reader = Start
  /\ \E s \in Strings, n \in Numbers :
       \/ \E d \in Plain(s, n) : todo = [calls |-> d, fallback |-> <<>>]
       \/ \E d \in Optional(s, n) : todo = [calls |-> d, fallback |-> set_reply_simple(s)]

Writes ==
  /\ todo.calls # <<>>
  /\ w' = Call(w, Head(todo.calls))
  /\ todo' = [todo EXCEPT !.calls = Tail(@)]

\* handle_command turns to an error reply if the document did not fit.
Gives == todo.calls = <<>> /\ w.overflow /\ todo.fallback # <<>>

\* Mutant: the error is written behind what did fit.
FallbackAppends ==
  Gives /\ w' = [w EXCEPT !.overflow = FALSE]
  /\ todo' = [calls |-> todo.fallback, fallback |-> <<>>]

Fallback ==
  Gives /\ w' = jw_init(w.cap) /\ todo' = [calls |-> todo.fallback, fallback |-> <<>>]

JsonNext == (Writes \/ Fallback) /\ Follows

-----------------------------------------------------------------------------
\* What the device publishes is one whole JSON value, whatever the strings in
\* it and however many tasks there are: what does not fit is not published cut
\* short, and the reply that takes its place is whole.  The writer never
\* touches a byte past the buffer, the terminator included.
PublishesJson ==
  /\ Len(w.buf) < w.cap
  /\ todo.calls = <<>> /\ ~Gives => reader = To(Start, "after")
=============================================================================
