---------------------------- MODULE JSONFormatter ----------------------------
(***************************************************************************)
(* The line JSONFormatter builds for an entry (formatter/json.go), and how *)
(* a JSON reader takes it apart.  A string is a sequence of characters,    *)
(* and a line one of tokens: a character, a structural character, a whole  *)
(* number or boolean, or a name or level, which need no escape.            *)
(***************************************************************************)
EXTENDS Naturals, Sequences

CONSTANTS TimeText,  \* each time as AppendFormat writes it, by the layout
          Literals   \* numbers and booleans as strconv and JSON write them

Quote     == "\""
Backslash == "\\"
Newline   == "\n"
Return_   == "\r"
Tab       == "\t"
Controls  == {"0x00", "0x1f"}  \* the others below 0x20

(* What appendJSONString does not copy, and what it writes instead.        *)
Special == {Quote, Backslash, Newline, Return_, Tab} \cup Controls

EscapeOf(c) ==
  CASE c = Newline -> <<Backslash, "n">>
    [] c = Return_ -> <<Backslash, "r">>
    [] c = Tab     -> <<Backslash, "t">>
    [] c \in Controls -> <<Backslash, "u", c>>
    [] OTHER       -> <<Backslash, c>>

(* Text that needs no escape.  The default layout of times writes it, the  *)
(* layout of a configuration (TimestampFormat) need not.                   *)
Plain == STRING \ Special

(* What AppendFloat writes of a float that is not a number of JSON.        *)
NonFinite == {"NaN", "+Inf", "-Inf"}

Structural == {"{", "}", ":", ","}

ASSUME TextAssumption == \A t \in DOMAIN TimeText : TimeText[t] \in Seq(STRING)
ASSUME LiteralAssumption ==
  Literals \subseteq STRING \ (Special \cup Structural \cup NonFinite)

(* appendJSONString: before an escape, and at the end, the characters      *)
(* since the last escape are flushed.                                      *)
Flushed_FromEscape(acc, s, i) ==
  [start |-> i, buf |-> acc.buf \o SubSeq(s, acc.start, i - 1) \o EscapeOf(s[i])]
Flushed(acc, s, i) ==
  [start |-> i + 1, buf |-> acc.buf \o SubSeq(s, acc.start, i - 1) \o EscapeOf(s[i])]

Scanned(s) ==
  LET scan[i \in 0 .. Len(s)] ==
        IF i = 0 THEN [start |-> 1, buf |-> <<>>]
        ELSE IF s[i] \in Special THEN Flushed(scan[i - 1], s, i)
        ELSE scan[i - 1]
  IN  scan
Escape(s) ==
  LET last == Scanned(s)[Len(s)]
  IN  last.buf \o SubSeq(s, last.start, Len(s))

Quoted(s) == <<Quote>> \o s \o <<Quote>>

(* appendJSONFieldValue: strings, errors and values of other types are     *)
(* quoted and escaped, times quoted, numbers and booleans written bare.    *)
FieldValue(f) ==
  CASE f.type = "string" -> Quoted(Escape(f.value))
    [] f.type = "time"   -> Quoted(f.value)
    [] f.type = "number" -> <<f.value>>

(* formatJSONToBuffer: members one after the other, commas between them.   *)
Member(name, value) == Quoted(name) \o <<":">> \o value

Joining(parts) ==
  LET join[i \in 0 .. Len(parts)] ==
        IF i = 0 THEN <<>> ELSE join[i - 1] \o parts[i]
  IN  join
Joined(parts) == Joining(parts)[Len(parts)]

FormatEntry(e) ==
  <<"{">> \o Member(<<"time">>, Quoted(TimeText[e.time]))
    \o <<",">> \o Member(<<"level">>, Quoted(<<e.level>>))
    \o <<",">> \o Member(<<"message">>, Quoted(Escape(e.message)))
    \o Joined([i \in DOMAIN e.fields |->
         <<",">> \o Member(Escape(e.fields[i].key), FieldValue(e.fields[i]))])
    \o <<"}">>
-----------------------------------------------------------------------------
(* The reader: an unescaped quote ends a string, a character below 0x20 in *)
(* one is an error, and a backslash takes the next character with it.      *)
(* Outside strings a JSON text has structural characters and literals.     *)

Unescaped(c) == CASE c = "n" -> Newline [] c = "r" -> Return_
                  [] c = "t" -> Tab     [] OTHER -> c

(* What a reader finds: a string, or a token outside strings.              *)
Text(s) == [text |-> s]
Bare(t) == [bare |-> t]

Reader == [mode |-> "outside", text |-> <<>>, items |-> <<>>]

Read(r, t) ==
  CASE r.mode = "outside" /\ t = Quote -> [r EXCEPT !.mode = "string", !.text = <<>>]
    [] r.mode = "outside" /\ t \in Structural \cup Literals ->
         [r EXCEPT !.items = Append(@, Bare(t))]
    [] r.mode = "outside" /\ t \notin Structural \cup Literals \cup {Quote} ->
         [r EXCEPT !.mode = "error"]
    [] r.mode = "string" /\ t = Quote ->
         [r EXCEPT !.mode = "outside", !.items = Append(@, Text(r.text))]
    [] r.mode = "string" /\ t = Backslash -> [r EXCEPT !.mode = "escape"]
    [] r.mode = "string" /\ t \in Special \ {Quote, Backslash} ->
         [r EXCEPT !.mode = "error"]
    [] r.mode = "string" /\ t \notin Special -> [r EXCEPT !.text = Append(@, t)]
    [] r.mode = "escape" /\ t = "u" -> [r EXCEPT !.mode = "code"]
    [] r.mode = "escape" /\ t # "u" ->
         [r EXCEPT !.mode = "string", !.text = Append(@, Unescaped(t))]
    [] r.mode = "code" -> [r EXCEPT !.mode = "string", !.text = Append(@, t)]
    [] r.mode = "error" -> r

(* The strings of a line decoded, with the tokens between them.            *)
Reading(r, line) ==
  LET reading[i \in 0 .. Len(line)] ==
        IF i = 0 THEN r ELSE Read(reading[i - 1], line[i])
  IN  reading
ReadAll(r, line) == Reading(r, line)[Len(line)]

Decoded(line) == ReadAll(Reader, line)
==============================================================================
