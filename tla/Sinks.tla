---------------------------------- MODULE Sinks ----------------------------------
(***************************************************************************)
(* The terminal stages (ecl-sink-kafka, ecl-sink-gcs): the items of a      *)
(* stage are written concurrently, and the batch execution repeats an item *)
(* that failed, whatever the error.  An answer may be lost after the write *)
(* took effect.                                                            *)
(***************************************************************************)
EXTENDS Naturals, FiniteSets

CONSTANTS
    SinkItems,
    Invalid,        \* the items with _validation_status "failed"
    Recordless,     \* the items without a record
    Kinds,          \* the sinks to look at: "kafka", "gcs"
    Filters,        \* the configured filters to look at
    SinkAttempts,    \* attempts of the batch execution
    MaxDay          \* bound on the days that pass

ASSUME SinkAssumption ==
    /\ Invalid \subseteq SinkItems /\ Recordless \subseteq SinkItems
    /\ Kinds \subseteq {"kafka", "gcs"}
    /\ SinkAttempts \in Nat \ {0} /\ MaxDay \in Nat

VARIABLES
    kind, filter,   \* the configured sink
    schema,         \* schema_id: unset, being registered, or set
    item,           \* where each item's process() is, and its attempts
    messages,       \* how many messages of the item the topic holds
    objects,        \* the objects in the bucket: an item and a day
    day,
    lost            \* history: items with a write whose answer was lost

sinkVars == <<kind, filter, schema, item, messages, objects, day, lost>>

Days == 0..MaxDay
Process == [pc: {"start", "schema", "register", "token", "write", "ok", "failed"},
            attempts: 0..SinkAttempts, day: Days]

(* should_produce, should_write.                                           *)
Wanted(i) ==
    /\ filter = "valid_only" => i \notin Invalid
    /\ filter = "errors_only" => i \in Invalid

SinkInit ==
    /\ kind \in Kinds /\ filter \in Filters
    /\ schema = "unset"
    /\ item = [i \in SinkItems |-> [pc |-> "start", attempts |-> 0, day |-> 0]]
    /\ messages = [i \in SinkItems |-> 0] /\ objects = {}
    /\ day = 0 /\ lost = {}

Goto(i, pc) == item' = [item EXCEPT ![i].pc = pc]

(* execute_with_retry: another attempt, or the error of the last one.      *)
MutFail(i) ==
    item' = [item EXCEPT ![i] =
      [@ EXCEPT !.attempts = item[i].attempts + 1,
                !.pc = IF item[i].attempts < SinkAttempts THEN "start" ELSE "failed"]]
Fail(i) ==
    item' = [item EXCEPT ![i] =
      [@ EXCEPT !.attempts = item[i].attempts + 1,
                !.pc = IF item[i].attempts + 1 < SinkAttempts THEN "start" ELSE "failed"]]

(* process(): an item the filter keeps out is done.                        *)
Begin(i) ==
    /\ item[i].pc = "start"
    /\ Goto(i, IF ~Wanted(i) THEN "ok" ELSE IF kind = "kafka" THEN "schema" ELSE "token")
    /\ UNCHANGED <<kind, filter, schema, messages, objects, day, lost>>

(* ensure_schema_id: the first item registers the schema, the others wait  *)
(* for it; if it fails, the next of them registers.                        *)
Register(i) ==
    /\ item[i].pc = "schema" /\ schema = "unset"
    /\ schema' = "registering"
    /\ Goto(i, "register")
    /\ UNCHANGED <<kind, filter, messages, objects, day, lost>>

Registered(i) ==
    /\ item[i].pc = "register"
    /\ schema' = "set"
    /\ Goto(i, "schema")
    /\ UNCHANGED <<kind, filter, messages, objects, day, lost>>

MutRegisterFails(i) ==
    /\ item[i].pc = "register"
    /\ schema' = schema
    /\ Fail(i)
    /\ UNCHANGED <<kind, filter, messages, objects, day, lost>>
RegisterFails(i) ==
    /\ item[i].pc = "register"
    /\ schema' = "unset"
    /\ Fail(i)
    /\ UNCHANGED <<kind, filter, messages, objects, day, lost>>

(* The record is serialised; without one the attempt fails.                *)
Serialize(i) ==
    /\ item[i].pc = "schema" /\ schema = "set"
    /\ IF i \in Recordless THEN Fail(i) ELSE Goto(i, "write")
    /\ UNCHANGED <<kind, filter, schema, messages, objects, day, lost>>

(* get_token, and object_path: the object's name holds today's date.       *)
NameObject(i) ==
    /\ item[i].pc = "token"
    /\ \/ item' = [item EXCEPT ![i] = [@ EXCEPT !.pc = "write", !.day = day]]
       \/ Fail(i)
    /\ UNCHANGED <<kind, filter, schema, messages, objects, day, lost>>

(* A message is appended; an object of the same name is replaced.          *)
Written(i) ==
    IF kind = "kafka"
    THEN messages' = [messages EXCEPT ![i] = @ + 1] /\ UNCHANGED objects
    ELSE objects' = objects \cup {<<i, item[i].day>>} /\ UNCHANGED messages

Write(i) ==
    /\ item[i].pc = "write"
    /\ Written(i)
    /\ Goto(i, "ok")
    /\ UNCHANGED <<kind, filter, schema, day, lost>>

(* The 30 seconds pass, or the upload fails: with or without an effect.    *)
MutWriteFails(i) ==
    /\ item[i].pc = "write"
    /\ Goto(i, "ok")
    /\ UNCHANGED <<kind, filter, schema, messages, objects, day, lost>>
WriteFails(i) ==
    /\ item[i].pc = "write"
    /\ \/ UNCHANGED <<messages, objects, lost>>
       \/ Written(i) /\ lost' = lost \cup {i}
    /\ Fail(i)
    /\ UNCHANGED <<kind, filter, schema, day>>

Midnight ==
    /\ day < MaxDay
    /\ day' = day + 1
    /\ UNCHANGED <<kind, filter, schema, item, messages, objects, lost>>

SinkItemStep(i) ==
    \/ Begin(i) \/ Register(i) \/ Registered(i) \/ RegisterFails(i)
    \/ Serialize(i) \/ NameObject(i) \/ Write(i) \/ WriteFails(i)
SinkStep == Midnight \/ \E i \in SinkItems : SinkItemStep(i)
SinkSpec == SinkInit /\ [][SinkStep]_sinkVars
-----------------------------------------------------------------------------
SinkTypeOK ==
    /\ kind \in Kinds /\ filter \in Filters
    /\ schema \in {"unset", "registering", "set"}
    /\ item \in [SinkItems -> Process]
    /\ messages \in [SinkItems -> 0..SinkAttempts]
    /\ objects \subseteq SinkItems \X Days
    /\ day \in Days /\ lost \subseteq SinkItems

Copies(i) == messages[i] + Cardinality({o \in objects : o[1] = i})

(* An item that succeeded was written, unless the filter keeps it out, and *)
(* then it never is.  It was written once, but for writes whose answer was *)
(* lost; and the bucket holds one object of it per day even then.          *)
WrittenAsReported ==
    \A i \in SinkItems :
        /\ item[i].pc = "ok" /\ Wanted(i) => Copies(i) > 0
        /\ Copies(i) > 0 => Wanted(i)
        /\ Copies(i) > 1 => i \in lost
        /\ kind = "gcs" => Copies(i) <= day + 1
=============================================================================
