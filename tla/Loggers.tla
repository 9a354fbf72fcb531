------------------------------- MODULE Loggers -------------------------------
(***************************************************************************)
(* Builders, loggers (logger/logger.go) and slog adapters (sloghandler and *)
(* the identical handler/slog_handler.go), which are documented to be      *)
(* immutable, over the memory their field slices share; and the JSON line  *)
(* that a synchronous handler makes of a record logged through one.        *)
(*                                                                         *)
(* Only Build waits for anything (the Once of the coarse clock).  A record *)
(* is formatted in the step that logs it: what is between the two belongs  *)
(* to the handlers and has its own modules.                                *)
(***************************************************************************)
EXTENDS CoarseClock, Slices, JSONFormatter

CONSTANTS Fields,      \* the n-th field or attribute given to any object
          Groups,      \* names given to WithGroup
          Bounds,      \* the bounds an instance may have, see bound
          NoRecord     \* nothing was logged in the last step

ASSUME BoundAssumption ==
  \A b \in Bounds : /\ b.objects \in Nat /\ b.fields \in 0 .. Len(Fields)
                    /\ b.messages \subseteq Seq(STRING) /\ b.clock \in BOOLEAN

(* A key, and one with the names of groups and dots before it.             *)
Key == Seq(STRING \cup {"."})

(* core.Field, and a slog.Attr that is not a group: type stands for how    *)
(* the formatter writes the value, which the adapter keeps.                *)
Field == [key : Key, type : {"string"}, value : Seq(STRING)]
           \cup [key : Key, type : {"time"}, value : Seq(Plain)]
           \cup [key : Key, type : {"number"}, value : Literals \cup NonFinite]

ASSUME FieldAssumption ==
  /\ Fields \in Seq(Field) \ {<<>>} /\ NoField \notin Field
  /\ Groups \subseteq Key
  /\ DOMAIN TimeText = Time \cup {NoTime}

VARIABLES
  bound,    \* objects, fields, messages and whether there is a clock
  heap,     \* arrays of fields
  builder,  \* the Builder each goroutine works with
  objects,  \* every Logger and SlogHandler there is
  given,    \* fields that have been given so far
  last      \* the record logged by the last step, and its line

loggerVars == <<bound, heap, builder, objects, given, last>>
vars == <<clockVars, loggerVars>>

(* made is history: the fields in the order of the calls that gave them.   *)
Init ==
  /\ ClockInit /\ bound \in Bounds
  /\ heap = <<>> /\ objects = <<>> /\ given = 0 /\ last = NoRecord
  /\ builder = [g \in Goroutines |->
                  [fields |-> NilSlice, coarse |-> FALSE, made |-> <<>>]]

Given == Fields[given + 1]

GiveField == given < bound.fields /\ given' = given + 1

NewObject(object) ==
  /\ Len(objects) < bound.objects
  /\ objects' = Append(objects, object)

-----------------------------------------------------------------------------
(* Builder                                                                 *)

(* append to the builder's slice, which loggers it has built still use.    *)
WithFields(g) ==
  /\ call[g] = "none" /\ GiveField
  /\ \E result \in Appended(heap, builder[g].fields, Given) :
       /\ heap' = result.heap
       /\ builder' = [builder EXCEPT ![g].fields = result.slice,
                                     ![g].made = Append(@, Given)]
  /\ UNCHANGED <<clockVars, objects>>

WithCoarseClock(g) ==
  /\ call[g] = "none" /\ bound.clock
  /\ builder' = [builder EXCEPT ![g].coarse = ~@]
  /\ UNCHANGED <<clockVars, heap, objects, given>>

(* Build calls StartCoarseClock when the logger is to use it.              *)
Build(g) ==
  /\ builder[g].coarse /\ StartCoarseClock(g)
  /\ UNCHANGED <<heap, builder, objects, given>>

(* The new logger shares the builder's slice.                              *)
Built(g) ==
  /\ call[g] = IF builder[g].coarse THEN "returned" ELSE "none"
  /\ NewObject([kind |-> "logger", fields |-> builder[g].fields, group |-> <<>>,
                coarse |-> builder[g].coarse, made |-> builder[g].made])
  /\ call' = [call EXCEPT ![g] = "none"]
  /\ UNCHANGED <<now, once, coarseNow, sample, tickers, tick, heap, builder,
                 given>>

-----------------------------------------------------------------------------
(* Logger and SlogHandler                                                  *)

With_InPlace(o) ==
  /\ o.kind = "logger" /\ GiveField
  /\ \E result \in Appended(heap, o.fields, Given) :
       /\ heap' = result.heap
       /\ NewObject([o EXCEPT !.fields = result.slice, !.made = Append(@, Given)])
  /\ UNCHANGED <<clockVars, builder>>
(* With copies the parent's fields and its own into a new array.           *)
With(o) ==
  /\ o.kind = "logger" /\ GiveField
  /\ LET result == Allocated(heap, Append(Contents(heap, o.fields), Given), 0)
     IN  /\ heap' = result.heap
         /\ NewObject([o EXCEPT !.fields = result.slice, !.made = Append(@, Given)])
  /\ UNCHANGED <<clockVars, builder>>

NewSlogHandler ==
  /\ NewObject([kind |-> "slog", fields |-> NilSlice, group |-> <<>>,
                coarse |-> FALSE, made |-> <<>>])
  /\ UNCHANGED <<clockVars, heap, builder, given>>

Prefixed(group, key) == IF group = <<>> THEN key ELSE group \o <<".">> \o key

(* slogAttrToField for an attribute that is not a group.                   *)
AttrToField(group, attr) == [attr EXCEPT !.key = Prefixed(group, @)]

WithAttrs_ZeroField(o) ==
  /\ o.kind = "slog" /\ GiveField
  /\ LET copied == Allocated(heap, Append(Contents(heap, o.fields), NoField), 1)
         field  == AttrToField(o.group, Given)
         result == InPlace(copied.heap, copied.slice, field)
     IN  /\ heap' = result.heap
         /\ NewObject([o EXCEPT !.fields = result.slice, !.made = Append(@, field)])
  /\ UNCHANGED <<clockVars, builder>>
(* WithAttrs: make with room for the new attributes, copy, append.         *)
WithAttrs(o) ==
  /\ o.kind = "slog" /\ GiveField
  /\ LET copied == Allocated(heap, Contents(heap, o.fields), 1)
         field  == AttrToField(o.group, Given)
         result == InPlace(copied.heap, copied.slice, field)
     IN  /\ heap' = result.heap
         /\ NewObject([o EXCEPT !.fields = result.slice, !.made = Append(@, field)])
  /\ UNCHANGED <<clockVars, builder>>

(* WithGroup: with an empty name it returns the adapter itself.            *)
WithGroup(o, name) ==
  /\ o.kind = "slog" /\ name # <<>>
  /\ LET result == Allocated(heap, Contents(heap, o.fields), 0)
     IN  /\ heap' = result.heap
         /\ NewObject([o EXCEPT !.fields = result.slice,
                                !.group = Prefixed(@, name)])
  /\ UNCHANGED <<clockVars, builder, given>>

(* log and SlogHandler.Handle: the object's fields and the call's own one. *)
Record(o, message, own) ==
  [time    |-> IF o.coarse THEN coarseNow ELSE now,
   level   |-> "INFO",
   message |-> message,
   fields  |-> Contents(heap, o.fields) \o own]

Log(o, message) ==
  \E own \in {<<>>, <<AttrToField(o.group, Fields[1])>>} :
    /\ last' = [object |-> o, own |-> own, record |-> Record(o, message, own),
                line |-> FormatEntry(Record(o, message, own))]
    /\ UNCHANGED <<clockVars, bound, heap, builder, objects, given>>

-----------------------------------------------------------------------------
Derive ==
  \/ \E g \in Goroutines :
       WithFields(g) \/ WithCoarseClock(g) \/ Build(g) \/ Built(g)
  \/ \E i \in DOMAIN objects :
       \/ With(objects[i]) \/ WithAttrs(objects[i])
       \/ \E name \in Groups : WithGroup(objects[i], name)
  \/ NewSlogHandler

(* A call changes nothing but last, which is forgotten before the next     *)
(* step of anyone.                                                         *)
Next ==
  \/ last = NoRecord /\ UNCHANGED <<bound, last>> /\ Derive
  \/ last = NoRecord /\ bound.clock /\ ClockStep
     /\ UNCHANGED loggerVars
  \/ /\ last = NoRecord
     /\ \E i \in DOMAIN objects, message \in bound.messages : Log(objects[i], message)
  \/ /\ last # NoRecord /\ last' = NoRecord
     /\ UNCHANGED <<clockVars, bound, heap, builder, objects, given>>

Spec == Init /\ [][Next]_vars
-----------------------------------------------------------------------------
(* Properties                                                              *)

IsSlice(s) ==
  /\ s.array \in 0 .. Len(heap)
  /\ s.len \in 0 .. SliceCap(heap, s)
  /\ \A i \in 1 .. s.len : heap[s.array][i] # NoField

(* Every variable stays in its type; no slice reaches behind its array or  *)
(* shows an element of it that was never filled in.                        *)
TypeOK ==
  /\ ClockTypeOK
  /\ \A i \in DOMAIN objects :
       objects[i].kind \in {"logger", "slog"} /\ IsSlice(objects[i].fields)
  /\ \A g \in Goroutines :
       builder[g].coarse \in BOOLEAN /\ IsSlice(builder[g].fields)
  /\ bound \in Bounds /\ given \in 0 .. bound.fields

(* Loggers and adapters are immutable ("Logger is the main logging         *)
(* interface (immutable)"): the fields of each are those of the calls that *)
(* made it, though loggers share arrays with their builder and append may  *)
(* write behind them (WithFields, Build, With, WithAttrs, WithGroup).      *)
FieldsFixed ==
  /\ \A i \in DOMAIN objects :
       Contents(heap, objects[i].fields) = objects[i].made
  /\ \A g \in Goroutines : Contents(heap, builder[g].fields) = builder[g].made

(* A logger that uses the coarse clock never dereferences the nil pointer, *)
(* also when two goroutines build their loggers at the same time (Build,   *)
(* CoarseNow).                                                             *)
ClockReady == last # NoRecord => last.record.time # NoTime

(* What a reader should find in the line of a record.                      *)
ExpectedMember(name, values) == <<Text(name), Bare(":")>> \o values

ExpectedValue(f) ==
  IF f.type = "number" THEN <<Bare(f.value)>> ELSE <<Text(f.value)>>

Expected(record) ==
  <<Bare("{")>>
    \o ExpectedMember(<<"time">>, <<Text(TimeText[record.time])>>) \o <<Bare(",")>>
    \o ExpectedMember(<<"level">>, <<Text(<<record.level>>)>>) \o <<Bare(",")>>
    \o ExpectedMember(<<"message">>, <<Text(record.message)>>)
    \o Joined([i \in DOMAIN record.fields |->
         <<Bare(",")>> \o ExpectedMember(record.fields[i].key,
                                         ExpectedValue(record.fields[i]))])
    \o <<Bare("}")>>

(* The layout of the time needs no escape, and no float is NaN or infinite.*)
Readable(record) ==
  /\ TimeText[record.time] \in Seq(Plain)
  /\ \A i \in DOMAIN record.fields :
       record.fields[i].type = "number" => record.fields[i].value \in Literals

(* A JSON reader gets the message, the keys and the values of a readable   *)
(* record back from its line, whatever needs an escape in them             *)
(* (appendJSONString, formatJSONToBuffer); the fields are those of the     *)
(* calls that made the logger, in their order, then the call's own.        *)
LineDecodes ==
  (last # NoRecord /\ Readable(last.record)) =>
    LET reader == Decoded(last.line)
    IN  /\ reader.mode = "outside"
        /\ reader.items = Expected([last.record EXCEPT
                            !.fields = last.object.made \o last.own])

==============================================================================
