------------------------------ MODULE QimmYaml ------------------------------
(***************************************************************************)
(* The event reader behind every file of qimm (src/qimm/share/yaml.c) and  *)
(* the readers of project and configuration files on top of it             *)
(* (src/qimm/project/data.c and config.c).                                 *)
(*                                                                         *)
(* The readers descend through a document by calling each other.  Between  *)
(* two calls of qimm_yaml_next_event nothing is read, so that a step is    *)
(* one such call with all that is decided on its event; stack holds the    *)
(* calls in progress, the innermost last.  Files are read one after the    *)
(* other, and what a global variable keeps goes from one to the next.      *)
(***************************************************************************)
EXTENDS Naturals, SequencesExt

CONSTANTS
    FileLists,  \* sequences of [kind, events]: the files read, in order
    Numbers,    \* the scalars that are numbers
    Zero,
    NULL

Files == UNION {Range(fs) : fs \in FileLists}

-----------------------------------------------------------------------------
(* The events that libyaml gives of a file, by their places.               *)

Starts == {"stream+", "document+", "sequence+", "mapping+"}
EndOf(start) == CASE start = "stream+" -> "stream-"
                  [] start = "document+" -> "document-"
                  [] start = "sequence+" -> "sequence-"
                  [] start = "mapping+" -> "mapping-"
Ends == {EndOf(start) : start \in Starts}

\* what is open before each event: the places of the starts, the innermost last
Inside(es) ==
    LET inside[i \in 1..Len(es) + 1] ==
            IF i = 1 THEN <<>>
            ELSE LET before == inside[i - 1] IN
                 CASE es[i - 1].type \in Starts -> Append(before, i - 1)
                   [] es[i - 1].type \in Ends -> Front(before)
                   [] OTHER -> before
    IN  inside
Level(es, i) == Len(Inside(es)[i])

Nodes(es) == {i \in DOMAIN es :
                 es[i].type \in {"mapping+", "sequence+", "scalar", "alias"}}

\* the nodes directly in node i
Children(es, i) ==
    {j \in Nodes(es) : Level(es, j) > 0 /\ Last(Inside(es)[j]) = i}

\* of the children of a mapping every other one is a key
Keys(es, i) ==
    {j \in Children(es, i) :
        Cardinality({k \in Children(es, i) : k < j}) % 2 = 0}

\* an end closes what was opened last
EndsMatch(es) ==
    \A i \in DOMAIN es : es[i].type \in Ends =>
        Level(es, i) > 0 /\ es[i].type = EndOf(es[Last(Inside(es)[i])].type)

\* a stream is the whole file, or what there is before an error
StreamOK(es) ==
    /\ Len(es) > 0 /\ es[1].type \in {"stream+", "error"}
    /\ \A i \in DOMAIN es :
        /\ es[i].type = "stream+" => i = 1
        /\ es[i].type \in {"stream-", "error"} <=> i = Len(es)

\* a document has one node, and whatever else there is is in a node
DocumentsOK(es) ==
    \A i \in DOMAIN es :
        /\ es[i].type = "document+" =>
               Level(es, i) = 1 /\ (i + 1 \in Nodes(es) \/ es[i + 1].type = "error")
        /\ i \in Nodes(es) => /\ Level(es, i) > 1
                              /\ Level(es, i) = 2 => es[i - 1].type = "document+"

\* a key has a value
PairsOK(es) ==
    \A i \in DOMAIN es : es[i].type = "mapping+" =>
        \A j \in Keys(es, i) : es[j].type = "scalar" =>
            j + 1 \in Nodes(es) \/ es[j + 1].type = "error"

WellFormed(es) ==
    /\ es \in Seq(Range(es))
    /\ \A i \in DOMAIN es :
        es[i].type \in Starts \cup Ends \cup {"scalar", "alias", "error"}
    /\ EndsMatch(es) /\ StreamOK(es) /\ DocumentsOK(es) /\ PairsOK(es)

ASSUME FilesAssumption ==
    /\ FileLists \subseteq Seq(Files)
    /\ \A f \in Files : f.kind \in {"project", "config"} /\ WellFormed(f.events)

-----------------------------------------------------------------------------
(* The readers.                                                            *)

VARIABLES
    files,      \* the files still to read, the one being read first
    pos,        \* how many events libyaml has given of it
    event,      \* the event its readers share
    broken,     \* libyaml has met an error in it
    keep_in_place,
    stack,
    read        \* what each file was read as

vars == <<files, pos, event, broken, keep_in_place, stack, read>>

\* the keys each mapping is read for: those with a value, those with a list
ValueKeys(kind) ==
    CASE kind = "project" -> {"config_name", "output_name"}
      [] kind = "config" -> {"name"}
      [] kind = "themes" -> {"name", "foreground", "background"}
      [] kind = "types" -> {"name", "summary"}
      [] kind = "layouts" -> {"name", "x", "y", "w", "h"}
ListKeys(kind) ==
    IF kind = "config" THEN {"themes", "types", "layouts"} ELSE {}
Kinds == {"project", "config"} \cup ListKeys("config")

\* what a key is given: the integer a scalar begins with, or 0, for some
Given(k, e) ==
    LET v == IF e.type = "scalar" THEN e.value ELSE NULL IN
    IF k \notin {"x", "y", "w", "h"} THEN v
    ELSE IF v \in Numbers THEN v ELSE Zero

NoEvent == [type |-> "none", value |-> NULL]

\* what the init function of each mapping allocates
Empty(kind) == [values |-> [k \in ValueKeys(kind) |-> Given(k, NoEvent)],
                lists |-> [k \in ListKeys(kind) |-> <<>>]]

Loading == [fn |-> "load", obj |-> NULL]
Mapping(kind) == [fn |-> "mapping", at |-> "start", kind |-> kind,
                  obj |-> Empty(kind)]
List(key) == [fn |-> "list", at |-> "start", key |-> key]
Skipping == [fn |-> "skip", at |-> "start", deep |-> 0]

Init ==
    /\ files \in FileLists
    /\ pos = 0 /\ event = NoEvent /\ broken = FALSE
    /\ keep_in_place = FALSE
    /\ stack = <<>> /\ read = <<>>

-----------------------------------------------------------------------------
(* The calls in progress.                                                  *)

Top == Last(stack)
Callers == Front(stack)
At(fn, place) == stack # <<>> /\ Top.fn = fn /\ Top.at = place

Continue(f) == stack' = Append(Callers, f) /\ UNCHANGED <<files, read>>
Call(f) == stack' = Append(stack, f) /\ UNCHANGED <<files, read>>
Return == stack' = Callers /\ UNCHANGED <<files, read>>

\* the file is closed; obj is what it was read as
Close(obj) ==
    /\ read' = Append(read, [file |-> Head(files), obj |-> obj])
    /\ files' = Tail(files)
    /\ stack' = <<>>

\* an error makes every call, up to the one that opened the file, free what
\* it has read and return an error
Fail == Close(NULL)

-----------------------------------------------------------------------------
(* qimm_yaml_next_event.                                                   *)

\* the event kept in place, or the next of the file; after an error, and at
\* the end, libyaml succeeds and gives no event
Parse ==
    IF keep_in_place
    THEN UNCHANGED <<event, pos, broken>>
    ELSE IF broken \/ pos = Len(Head(files).events)
    THEN event' = NoEvent /\ UNCHANGED <<pos, broken>>
    ELSE /\ event' = Head(files).events[pos + 1]
         /\ pos' = pos + 1
         /\ broken' = (event'.type = "error")

\* Mutant: the flag is never cleared.
NextEventSame == Parse /\ UNCHANGED keep_in_place

\* Mutant: the flag is cleared only for what can be read on from.
NextEventKept ==
    /\ Parse
    /\ keep_in_place' = (keep_in_place /\ event.type = "scalar")

NextEvent == Parse /\ keep_in_place' = FALSE

NextIs(types) == NextEvent /\ event'.type \in types
NextIsNot(types) == NextEvent /\ event'.type \notin types

-----------------------------------------------------------------------------
(* qimm_data_read_project and qimm_config_project_load.                    *)

Open ==
    /\ files # <<>> /\ stack = <<>>
    /\ pos' = 0 /\ event' = NoEvent /\ broken' = FALSE
    /\ stack' = <<Loading>>
    /\ UNCHANGED <<files, keep_in_place, read>>

InLoad == stack # <<>> /\ Top.fn = "load"

LoadDocument ==
    /\ InLoad
    /\ NextIs({"document+"})
    /\ Call(Mapping(Head(files).kind))

LoadPasses ==
    /\ InLoad
    /\ NextIsNot({"document+", "document-", "stream-", "error"})
    /\ Continue(Top)

\* an error here does not undo what was read before
LoadEnds ==
    /\ InLoad
    /\ NextIs({"document-", "stream-", "error"})
    /\ Close(Top.obj)

-----------------------------------------------------------------------------
(* qimm_yaml_read_mapping, with the data function of its kind.             *)

MappingStarts ==
    /\ At("mapping", "start")
    /\ \/ NextIs({"mapping+"}) /\ Continue([Top EXCEPT !.at = "key"])
       \/ NextIsNot({"mapping+"}) /\ Fail

\* the object is what its file is read as, or an item of a list
MappingEnds ==
    /\ At("mapping", "key")
    /\ NextIs({"mapping-"})
    /\ LET caller == Last(Callers)
           n == Len(stack) - 2
       IN  stack' = IF caller.fn = "load"
                    THEN <<[caller EXCEPT !.obj = Top.obj]>>
                    ELSE [Callers EXCEPT ![n].obj.lists[caller.key] =
                              Append(@, Top.obj.values)]
    /\ UNCHANGED <<files, read>>

\* Mutant: the object is handed over as far as it was read.
MappingFailsKept ==
    /\ At("mapping", "key")
    /\ NextIsNot({"mapping-", "scalar"})
    /\ IF Len(stack) = 2 THEN Close(Top.obj) ELSE Fail

\* an event that is no key
MappingFails ==
    /\ At("mapping", "key")
    /\ NextIsNot({"mapping-", "scalar"})
    /\ Fail

Key ==
    /\ At("mapping", "key")
    /\ NextIs({"scalar"})
    /\ LET key == event'.value IN
       \/ /\ key \in ValueKeys(Top.kind)
          /\ Continue([Top EXCEPT !.at = key])
       \/ /\ key \in ListKeys(Top.kind)
          /\ Call(List(key))
       \/ /\ key \notin ValueKeys(Top.kind) \cup ListKeys(Top.kind)
          /\ Call(Skipping)

\* qimm_yaml_next_value: what is not a scalar, or not there, is no value but
\* no error either
Value(k) ==
    /\ At("mapping", k)
    /\ NextEvent
    /\ Continue([Top EXCEPT !.at = "key", !.obj.values[k] = Given(k, event')])

-----------------------------------------------------------------------------
(* qimm_yaml_read_sequence.                                                *)

ListStarts ==
    /\ At("list", "start")
    /\ \/ NextIs({"sequence+"}) /\ Continue([Top EXCEPT !.at = "item"])
       \/ NextIsNot({"sequence+"}) /\ Fail

ListEnds ==
    /\ At("list", "item")
    /\ \/ NextIs({"sequence-"}) /\ Return
       \/ NextIs({"error"}) /\ Fail

\* the item is read from the event just read
ListItem ==
    /\ At("list", "item")
    /\ Parse /\ event'.type \notin {"sequence-", "error"}
    /\ keep_in_place' = TRUE
    /\ Call(Mapping(Top.key))

-----------------------------------------------------------------------------
(* qimm_yaml_next_skip, over the value of a key that is not known.         *)

SkipStarts ==
    /\ At("skip", "start")
    /\ \/ NextIs({"error"}) /\ Fail
       \/ NextIsNot(Starts \cup {"error"}) /\ Return
       \/ /\ NextIs(Starts)
          /\ Continue([Top EXCEPT !.at = event'.type, !.deep = 1])

\* Mutant: the first end of the type is taken for the end of the value.
DeeperFlat(start) ==
    IF event'.type = EndOf(start) THEN Top.deep - 1 ELSE Top.deep

\* what is counted are the starts and ends of the same type only
Deeper(start) ==
    CASE event'.type = start -> Top.deep + 1
      [] event'.type = EndOf(start) -> Top.deep - 1
      [] OTHER -> Top.deep

Skip(start) ==
    /\ At("skip", start)
    /\ NextEvent
    /\ IF event'.type \in {"error", "stream-"} THEN Fail
       ELSE IF Deeper(start) = 0 THEN Return
       ELSE Continue([Top EXCEPT !.deep = Deeper(start)])

-----------------------------------------------------------------------------
ReadEvent ==
    \/ LoadDocument \/ LoadPasses \/ LoadEnds
    \/ MappingStarts \/ MappingEnds \/ MappingFails \/ Key
    \/ \E kind \in Kinds : \E k \in ValueKeys(kind) : Value(k)
    \/ ListStarts \/ ListEnds \/ ListItem
    \/ SkipStarts \/ \E start \in Starts : Skip(start)

Done == files = <<>> /\ UNCHANGED vars

Next == Open \/ ReadEvent \/ Done

Spec == Init /\ [][Next]_vars /\ WF_vars(Open \/ ReadEvent)

-----------------------------------------------------------------------------
(* What a file says.                                                       *)

LastOf(S) == CHOOSE i \in S : \A j \in S : j <= i

\* what is given for keys, the last value counts; that of a scalar is behind it
ValuesOf(es, kind, keys) ==
    [key \in ValueKeys(kind) |->
        LET with == {j \in keys : es[j].value = key} IN
        Given(key, IF with = {} THEN NoEvent ELSE es[LastOf(with) + 1])]
Values(es, kind, i) == ValuesOf(es, kind, Keys(es, i))

\* where the items are of all the lists for a key
ItemPlaces(es, i, key) ==
    UNION {Children(es, j + 1) : j \in {k \in Keys(es, i) : es[k].value = key}}

\* the items up to each event
ItemsTo(es, i, key) ==
    LET places == ItemPlaces(es, i, key)
        items[n \in 0..Len(es)] ==
            IF n = 0 THEN <<>>
            ELSE IF n \in places THEN Append(items[n - 1], Values(es, key, n))
            ELSE items[n - 1]
    IN  items
Items(es, i, key) == ItemsTo(es, i, key)[Len(es)]

Meaning(es, kind, i) ==
    [values |-> Values(es, kind, i),
     lists |-> [key \in ListKeys(kind) |-> Items(es, i, key)]]

\* whether each key that is read has the value it is read for
ValuesFit(es, kind, i) ==
    \A j \in Keys(es, i) :
        /\ es[j].type = "scalar"
        /\ es[j].value \in ValueKeys(kind) =>
               es[j + 1].type \in {"scalar", "error"}

ListsFit(es, kind, i) ==
    \A j \in Keys(es, i) : es[j].value \in ListKeys(kind) =>
        /\ es[j + 1].type = "sequence+"
        /\ \A k \in Children(es, j + 1) :
            /\ es[k].type = "mapping+"
            /\ ValuesFit(es, es[j].value, k)

Fits(es, kind, i) ==
    /\ es[i].type = "mapping+"
    /\ ValuesFit(es, kind, i)
    /\ ListsFit(es, kind, i)

\* nothing but scalars is given for what is read as a value, anywhere
ScalarsGiven(es) ==
    \A i \in Nodes(es) : es[i].type = "mapping+" =>
        \A kind \in Kinds : ValuesFit(es, kind, i)

Complete(es) == \A i \in DOMAIN es : es[i].type # "error"

\* the nodes of its documents
Roots(es) == {i \in Nodes(es) : Level(es, i) = 2}

-----------------------------------------------------------------------------
(* What must hold.                                                         *)

\* Every variable holds values of its type.
YamlTypeOK ==
    /\ files # <<>> => Head(files).kind \in {"project", "config"}
    /\ pos \in Nat /\ broken \in BOOLEAN /\ keep_in_place \in BOOLEAN
    /\ \A i \in DOMAIN stack : stack[i].fn \in {"load", "mapping", "list", "skip"}
    /\ stack # <<>> => stack[1].fn = "load"

\* A well-formed file is read as what it says, whatever else it says beside
\* and wherever; what was read before it makes no difference.
ReadAsWritten ==
    stack = <<>> => \A i \in DOMAIN read :
        LET es == read[i].file.events
            kind == read[i].file.kind
            first == {r \in Roots(es) : \A q \in Roots(es) : r <= q}
        IN  \A root \in first : Complete(es) /\ Fits(es, kind, root) =>
                read[i].obj = Meaning(es, kind, root)

\* An incomplete document is read as nothing: a reader never hands over an
\* object whose file failed inside of it, unless a mapping was given for a
\* value: its end is taken for the end of the object.  It is the first document
\* that is read.
CutIsNothing ==
    stack = <<>> => \A i \in DOMAIN read :
        LET es == read[i].file.events
            first == \A j \in DOMAIN es : es[j].type # "document-"
        IN  ~Complete(es) /\ first /\ Level(es, Len(es)) > 2 /\ ScalarsGiven(es)
            => read[i].obj = NULL

\* The one-event look-back is used up before the file is closed, on every way
\* out of a reader: the next file starts with its own first event.
KeptIsUsed == stack = <<>> => ~keep_in_place

\* A reader stands in a file of its kind, and leaves nothing to the next.
ReadersOK == YamlTypeOK /\ KeptIsUsed

\* Whatever a file holds, its readers come to an end.
ReadingEnds == <>(files = <<>>)
=============================================================================
