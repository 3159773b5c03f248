--------------------------- MODULE QimmYaml_proofs ---------------------------
(***************************************************************************)
(* Proofs about QimmYaml, for files of any number, length and contents:    *)
(* how the readers call each other; that none of them leaves anything      *)
(* behind for the next file; and that a file is read as what it says, or,  *)
(* cut short, as nothing.                                                  *)
(*                                                                         *)
(* The proof of what is read follows the events.  A place in a file is     *)
(* known by what is open there (Inside), so that each call on the stack    *)
(* can be said to be at a place: before a node, before a key or before a   *)
(* value of the mapping it reads, or inside of a value it skips (Placed).  *)
(* What has been read of a mapping up to a place is Part.  That the        *)
(* readers are where Placed says, with Part in hand, is the invariant      *)
(* (Progress).                                                             *)
(***************************************************************************)
EXTENDS QimmYaml, FiniteSetTheorems, WellFoundedInduction, SequenceTheorems, TLAPS

\* Which reader may have called which: a file's reader that of a mapping, this
\* one that of a list or the skipping of a value, and a list that of a mapping.
Calls(caller, fn) ==
    \/ caller = "load" /\ fn = "mapping"
    \/ caller = "mapping" /\ fn \in {"list", "skip"}
    \/ caller = "list" /\ fn = "mapping"

Standing(st) ==
    /\ st \in Seq(Range(st))
    /\ \A i \in 1..Len(st) : "fn" \in DOMAIN st[i]
    /\ Len(st) > 0 => st[1].fn = "load"
    /\ \A i \in 2..Len(st) : Calls(st[i - 1].fn, st[i].fn)

\* Only an item of a list is read from an event that was read before it.
KeptForItem == keep_in_place => At("mapping", "start")

FilesOK ==
    /\ files \in Seq(Files)
    /\ stack # <<>> => files # <<>>
    /\ pos \in Nat /\ broken \in BOOLEAN /\ keep_in_place \in BOOLEAN

IInv == FilesOK /\ Standing(stack) /\ KeptForItem

-----------------------------------------------------------------------------
(* Calls and returns.                                                      *)

\* A sequence is one of its elements.
LEMMA IsList ==
    ASSUME NEW F, NEW st \in Seq(F) PROVE st \in Seq(Range(st))
<1>1. Len(st) \in Nat /\ DOMAIN st = 1..Len(st)
  OBVIOUS
<1>2. \A i \in 1..Len(st) : st[i] \in Range(st)
  BY <1>1 DEF Range
<1>3. st = [i \in 1..Len(st) |-> st[i]]
  BY <1>1
<1> QED BY <1>1, <1>2, <1>3, SeqDef

\* The innermost call and those that wait for it.
LEMMA TopIs ==
    ASSUME NEW st, Standing(st), st # <<>>
    PROVE  /\ Len(st) \in Nat /\ Len(st) >= 1 /\ Last(st) = st[Len(st)]
           /\ Len(st) \in 1..Len(st)
           /\ Front(st) \in Seq(Range(st)) /\ Len(Front(st)) = Len(st) - 1
           /\ \A i \in 1..Len(st) - 1 : Front(st)[i] = st[i]
<1>1. Len(st) \in Nat /\ Len(st) >= 1 /\ st \in Seq(Range(st))
  BY EmptySeq DEF Standing
<1>2. Front(st) = SubSeq(st, 1, Len(st) - 1)
  BY DEF Front
<1> DEFINE R == Range(st)
           m == Len(st) - 1
<1>3. st \in Seq(R) /\ 1 \in 1..Len(st) + 1 /\ m \in 0..Len(st) /\ m \in Nat
  BY <1>1
<1> HIDE DEF R, m
<1>4. /\ SubSeq(st, 1, m) \in Seq(R) /\ Len(SubSeq(st, 1, m)) = m
      /\ \A i \in 1..m : SubSeq(st, 1, m)[i] = st[i]
  BY <1>3
<1> QED BY <1>1, <1>2, <1>4 DEF Last, R, m

\* A reader that is called by another.
LEMMA Called ==
    ASSUME NEW st, Standing(st), NEW f, "fn" \in DOMAIN f,
           IF st = <<>> THEN f.fn = "load" ELSE Calls(Last(st).fn, f.fn)
    PROVE  /\ Standing(Append(st, f)) /\ Last(Append(st, f)) = f
           /\ Append(st, f) # <<>>
<1> DEFINE n == Len(st)
           F == Range(st) \cup {f}
           r == Append(st, f)
<1>1. n \in Nat /\ st \in Seq(Range(st))
  BY DEF Standing
<1>2. Range(st) \subseteq F /\ f \in F
  OBVIOUS
<1>3. st \in Seq(F)
  BY <1>1, <1>2
<1> HIDE DEF F
<1>4. /\ r \in Seq(F) /\ Len(r) = n + 1 /\ r[n + 1] = f
      /\ \A i \in 1..n : r[i] = st[i]
  BY <1>1, <1>2, <1>3
<1> HIDE DEF r
<1>5. Last(r) = f /\ r # <<>>
  BY <1>1, <1>4, EmptySeq DEF Last
<1>6. r \in Seq(Range(r))
  BY <1>4, IsList
<1>7. \A i \in 1..Len(r) : i = n + 1 \/ i \in 1..n
  BY <1>1, <1>4
<1>8. \A i \in 1..Len(r) : "fn" \in DOMAIN r[i]
  BY <1>4, <1>7 DEF Standing
<1>9. CASE st = <<>>
  <2>1. n = 0
    BY <1>9
  <2>2. Len(r) = 1 /\ r[1] = f
    BY <1>4, <2>1
  <2> QED BY <1>5, <1>6, <1>8, <1>9, <2>2 DEF Standing, r
<1>10. CASE st # <<>>
  <2>1. n >= 1 /\ Last(st) = st[n]
    BY <1>10, TopIs
  <2>2. r[1].fn = "load"
    BY <1>1, <1>4, <2>1 DEF Standing
  <2>3. ASSUME NEW i \in 2..Len(r) PROVE Calls(r[i - 1].fn, r[i].fn)
    <3>1. CASE i = n + 1
      <4>1. i - 1 = n /\ n \in 1..n
        BY <1>1, <2>1, <3>1
      <4> QED BY <1>4, <1>10, <2>1, <3>1, <4>1
    <3>2. CASE i # n + 1
      <4>1. i \in 2..n /\ i \in 1..n /\ i - 1 \in 1..n
        BY <1>1, <1>4, <3>2
      <4> QED BY <1>4, <4>1 DEF Standing
    <3> QED BY <3>1, <3>2
  <2> QED BY <1>5, <1>6, <1>8, <2>2, <2>3 DEF Standing, r
<1> QED BY <1>9, <1>10

\* One that returns to its caller.
LEMMA Returned ==
    ASSUME NEW st, Standing(st), st # <<>>
    PROVE  Standing(Front(st))
<1> DEFINE n == Len(st)
           r == Front(st)
<1>1. /\ n \in Nat /\ n >= 1 /\ r \in Seq(Range(st)) /\ Len(r) = n - 1
      /\ \A i \in 1..n - 1 : r[i] = st[i]
  BY TopIs
<1> HIDE DEF r
<1>2. r \in Seq(Range(r))
  BY <1>1, IsList
<1>3. \A i \in 1..Len(r) : i \in 1..n /\ i \in 1..n - 1
  BY <1>1
<1>4. \A i \in 2..Len(r) : i \in 2..n /\ i \in 1..n - 1 /\ i - 1 \in 1..n - 1
  BY <1>1
<1>5. Len(r) > 0 => 1 \in 1..n - 1
  BY <1>1
<1> QED BY <1>1, <1>2, <1>3, <1>4, <1>5 DEF Standing, r

\* One that goes on.
LEMMA Continued ==
    ASSUME NEW st, Standing(st), st # <<>>, NEW f, "fn" \in DOMAIN f,
           f.fn = Last(st).fn
    PROVE  /\ Standing(Append(Front(st), f)) /\ Last(Append(Front(st), f)) = f
           /\ Append(Front(st), f) # <<>>
<1> DEFINE n == Len(st)
           r == Front(st)
<1>1. /\ n \in Nat /\ n >= 1 /\ Len(r) = n - 1 /\ Last(st) = st[n]
      /\ \A i \in 1..n - 1 : r[i] = st[i]
  BY TopIs
<1>2. Standing(r)
  BY Returned
<1> HIDE DEF r
<1>3. CASE n = 1
  <2>1. r = <<>>
    BY <1>1, <1>2, <1>3, EmptySeq DEF Standing
  <2>2. f.fn = "load"
    BY <1>1, <1>3 DEF Standing
  <2> QED BY <1>2, <2>1, <2>2, Called DEF r
<1>4. CASE n # 1
  <2>1. r # <<>> /\ n - 1 \in 1..n - 1 /\ n \in 2..n
    BY <1>1, <1>4
  <2>2. Last(r) = st[n - 1]
    BY <1>1, <1>2, <2>1, TopIs
  <2>3. Calls(Last(r).fn, f.fn)
    BY <1>1, <2>1, <2>2 DEF Standing
  <2> QED BY <1>2, <2>1, <2>3, Called DEF r
<1> QED BY <1>3, <1>4

-----------------------------------------------------------------------------
(* The steps.                                                              *)

\* Events are counted, and an error is remembered.
LEMMA ParseOK ==
    ASSUME FilesOK, Parse
    PROVE  pos' \in Nat /\ broken' \in BOOLEAN
<1>1. \/ pos' = pos /\ broken' = broken
      \/ pos' = pos + 1 /\ broken' = (event'.type = "error")
  BY DEF Parse
<1>2. CASE pos' = pos /\ broken' = broken
  BY <1>2 DEF FilesOK
<1>3. CASE pos' = pos + 1 /\ broken' = (event'.type = "error")
  <2>1. pos' \in Nat
    BY <1>3 DEF FilesOK
  <2> QED BY <1>3, <2>1
<1> QED BY <1>1, <1>2, <1>3

\* A step that ends the reading of a file.
LEMMA CloseKeeps ==
    ASSUME IInv, NextEvent, NEW obj, Close(obj), stack # <<>>
    PROVE  IInv'
<1>1. files # <<>> /\ files \in Seq(Files) /\ files' = Tail(files) /\ stack' = <<>>
  BY DEF IInv, FilesOK, Close
<1>2. files' \in Seq(Files)
  BY <1>1
<1>3. FilesOK'
  BY <1>1, <1>2, ParseOK DEF IInv, FilesOK, NextEvent
<1>4. Standing(stack')
  BY <1>1 DEF Standing, Range
<1> QED BY <1>3, <1>4 DEF IInv, KeptForItem, NextEvent

\* One that leaves the calls standing.
LEMMA ReadKeeps ==
    ASSUME IInv, NextEvent, Standing(stack'), stack # <<>>, UNCHANGED files
    PROVE  IInv'
<1>1. FilesOK'
  BY ParseOK DEF IInv, FilesOK, NextEvent
<1> QED BY <1>1 DEF IInv, KeptForItem, NextEvent

\* A reader that reads on.
LEMMA ContinueKeeps ==
    ASSUME IInv, NextEvent, stack # <<>>, NEW f, Continue(f),
           "fn" \in DOMAIN f, f.fn = Top.fn
    PROVE  IInv'
<1>1. Standing(stack')
  BY Continued DEF IInv, Continue, Top, Callers
<1> QED BY <1>1, ReadKeeps DEF Continue

\* A reader that calls another one.
LEMMA CallKeeps ==
    ASSUME IInv, NextEvent, stack # <<>>, NEW f, Call(f),
           "fn" \in DOMAIN f, Calls(Top.fn, f.fn)
    PROVE  IInv'
<1>1. Standing(stack')
  BY Called DEF IInv, Call, Top
<1> QED BY <1>1, ReadKeeps DEF Call

\* A reader that returns.
LEMMA ReturnKeeps ==
    ASSUME IInv, NextEvent, stack # <<>>, Return
    PROVE  IInv'
<1>1. Standing(stack')
  BY Returned DEF IInv, Return, Callers
<1> QED BY <1>1, ReadKeeps DEF Return

\* An error, or the end: all readers leave.
LEMMA FailKeeps ==
    ASSUME IInv, NextEvent, stack # <<>>, Fail PROVE IInv'
BY CloseKeeps DEF Fail

\* The next file is opened.
LEMMA OpenKeeps == ASSUME IInv, Open PROVE IInv'
<1>1. /\ stack' = <<Loading>> /\ stack = <<>> /\ files # <<>>
      /\ pos' = 0 /\ broken' = FALSE /\ UNCHANGED <<files, keep_in_place>>
  BY DEF Open
<1>2. Standing(stack')
  <2>1. Standing(<<>>)
    BY DEF Standing, Range
  <2>2. "fn" \in DOMAIN Loading /\ Loading.fn = "load"
    BY DEF Loading
  <2>3. Append(<<>>, Loading) = <<Loading>>
    OBVIOUS
  <2> QED BY <1>1, <2>1, <2>2, <2>3, Called
<1>3. ~keep_in_place
  BY <1>1 DEF IInv, KeptForItem, At
<1> QED BY <1>1, <1>2, <1>3 DEF IInv, FilesOK, KeptForItem

\* The innermost call is one of a reader.
LEMMA TopFn ==
    ASSUME IInv, stack # <<>> PROVE "fn" \in DOMAIN Top
BY TopIs DEF IInv, Standing, Top

\* The reader of a document.
LEMMA LoadKeeps ==
    ASSUME IInv, LoadDocument \/ LoadPasses \/ LoadEnds PROVE IInv'
<1>1. InLoad /\ stack # <<>> /\ Top.fn = "load" /\ NextEvent
  BY DEF LoadDocument, LoadPasses, LoadEnds, InLoad, NextIs, NextIsNot
<1>2. CASE LoadDocument
  <2> DEFINE f == Mapping(Head(files).kind)
  <2>1. "fn" \in DOMAIN f /\ Calls(Top.fn, f.fn)
    BY <1>1 DEF Mapping, Calls
  <2>2. Call(f)
    BY <1>2 DEF LoadDocument
  <2> HIDE DEF f
  <2> QED BY <1>1, <2>1, <2>2, CallKeeps
<1>3. CASE LoadPasses
  BY <1>1, <1>3, ContinueKeeps, TopFn DEF LoadPasses
<1>4. CASE LoadEnds
  BY <1>1, <1>4, CloseKeeps DEF LoadEnds
<1> QED BY <1>2, <1>3, <1>4

\* The object of a mapping goes to the reader of its file, or into a list of
\* the mapping that the list is in.
LEMMA MappingEndsKeeps == ASSUME IInv, MappingEnds PROVE IInv'
<1> DEFINE caller == Last(Callers)
           n == Len(stack) - 2
           c == Callers
<1>1. stack # <<>> /\ Top.fn = "mapping" /\ NextEvent /\ UNCHANGED files
  BY DEF MappingEnds, At, NextIs
<1>2. /\ Standing(c) /\ n \in Int /\ Len(stack) = n + 2 /\ Len(c) = n + 1
      /\ stack \in Seq(Range(stack)) /\ Top = stack[n + 2]
      /\ \A i \in 1..n + 1 : c[i] = stack[i]
  <2>1. Standing(stack) /\ stack \in Seq(Range(stack)) /\ Standing(c)
    BY <1>1, Returned DEF IInv, Callers, Standing
  <2>2. /\ Len(stack) \in Nat /\ Len(stack) >= 1 /\ Last(stack) = stack[Len(stack)]
        /\ Len(c) = Len(stack) - 1
        /\ \A i \in 1..Len(stack) - 1 : c[i] = stack[i]
    BY <1>1, <2>1, TopIs DEF Callers
  <2>3. n \in Int /\ Len(stack) = n + 2 /\ Len(stack) - 1 = n + 1
    BY <2>2
  <2> HIDE DEF n, c
  <2> QED BY <2>1, <2>2, <2>3 DEF Top
<1>3. n >= 0
  <2>1. CASE n = -1
    <3>1. Len(stack) = 1 /\ stack[1].fn = "load"
      BY <1>2, <2>1 DEF IInv, Standing
    <3> QED BY <1>1, <1>2, <2>1, <3>1
  <2> QED BY <1>1, <1>2, <2>1, TopIs DEF IInv
<1>4. c # <<>> /\ caller = c[n + 1]
  BY <1>2, <1>3, TopIs
<1>5. CASE caller.fn = "load"
  <2> DEFINE f == [caller EXCEPT !.obj = Top.obj]
  <2>1. stack' = Append(<<>>, f)
    BY <1>5 DEF MappingEnds
  <2>2. "fn" \in DOMAIN caller
    BY <1>2, <1>3, <1>4 DEF Standing
  <2>3. "fn" \in DOMAIN f /\ f.fn = "load"
    BY <1>5, <2>2
  <2>4. Standing(<<>>)
    BY DEF Standing, Range
  <2> HIDE DEF f
  <2>5. Standing(stack')
    BY <2>1, <2>3, <2>4, Called
  <2> QED BY <1>1, <2>5, ReadKeeps
<1>6. CASE caller.fn # "load"
  <2> DEFINE r == [c EXCEPT ![n].obj.lists[caller.key] =
                      Append(c[n].obj.lists[caller.key], Top.obj.values)]
  <2>1. stack' = r
    BY <1>6 DEF MappingEnds
  <2>2. n >= 1
    <3>1. CASE n = 0
      BY <1>2, <1>4, <1>6, <3>1 DEF Standing
    <3> QED BY <1>2, <1>3, <3>1
  <2>3. DOMAIN c = 1..n + 1 /\ n \in 1..n + 1
    BY <1>2, <2>2 DEF Standing
  <2>4. PICK o : r = [c EXCEPT ![n] = [c[n] EXCEPT !.obj = o]]
    <3> DEFINE o == [c[n].obj EXCEPT !.lists[caller.key] =
                       Append(c[n].obj.lists[caller.key], Top.obj.values)]
    <3> QED BY Zenon
  <2> DEFINE e == [c[n] EXCEPT !.obj = o]
  <2>5. "fn" \in DOMAIN e /\ e.fn = c[n].fn
    BY <1>2, <2>3 DEF Standing
  <2> HIDE DEF e, r, c, n, caller
  <2>6. /\ r = [i \in 1..n + 1 |-> IF i = n THEN e ELSE c[i]]
    BY <2>3, <2>4 DEF e
  <2>7. r \in Seq(Range(r)) /\ Len(r) = n + 1
    <3>1. n + 1 \in Nat
      BY <1>2, <2>2
    <3>2. \A i \in 1..n + 1 : r[i] \in Range(r)
      BY <2>6 DEF Range
    <3>3. r = [i \in 1..n + 1 |-> r[i]]
      BY <2>6
    <3> QED BY <3>1, <3>2, <3>3
  <2>8. \A i \in 1..n + 1 : "fn" \in DOMAIN r[i] /\ r[i].fn = c[i].fn
    BY <1>2, <2>5, <2>6 DEF Standing
  <2>9. \A i \in 2..n + 1 : i \in 1..n + 1 /\ i - 1 \in 1..n + 1
    BY <1>2, <2>2
  <2>10. 1 \in 1..n + 1
    BY <1>2, <2>2
  <2>11. Standing(r)
    BY <1>2, <2>7, <2>8, <2>9, <2>10 DEF Standing
  <2> QED BY <1>1, <2>1, <2>11, ReadKeeps
<1> QED BY <1>5, <1>6

\* The reader of a mapping, but for its end.
LEMMA MappingKeeps ==
    ASSUME IInv, \/ MappingStarts \/ MappingFails \/ Key
                 \/ \E kind \in Kinds : \E k \in ValueKeys(kind) : Value(k)
    PROVE  IInv'
<1>1. stack # <<>> /\ Top.fn = "mapping" /\ NextEvent
  BY DEF MappingStarts, MappingFails, Key, Value, At, NextIs, NextIsNot
<1>2. "fn" \in DOMAIN Top
  BY <1>1, TopFn
<1>3. CASE MappingStarts
  <2>1. CASE Fail
    BY <1>1, <2>1, FailKeeps
  <2>2. CASE Continue([Top EXCEPT !.at = "key"])
    <3> DEFINE f == [Top EXCEPT !.at = "key"]
    <3>1. "fn" \in DOMAIN f /\ f.fn = Top.fn
      BY <1>2
    <3> HIDE DEF f
    <3> QED BY <1>1, <2>2, <3>1, ContinueKeeps DEF f
  <2> QED BY <1>3, <2>1, <2>2 DEF MappingStarts
<1>4. CASE MappingFails
  BY <1>1, <1>4, FailKeeps DEF MappingFails
<1>5. CASE Key
  <2> DEFINE key == event'.value
  <2>1. CASE Continue([Top EXCEPT !.at = key])
    <3> DEFINE f == [Top EXCEPT !.at = key]
    <3>1. "fn" \in DOMAIN f /\ f.fn = Top.fn
      BY <1>2
    <3> HIDE DEF f
    <3> QED BY <1>1, <2>1, <3>1, ContinueKeeps DEF f
  <2>2. CASE Call(List(key))
    <3> DEFINE f == List(key)
    <3>1. "fn" \in DOMAIN f /\ Calls(Top.fn, f.fn)
      BY <1>1 DEF List, Calls
    <3> HIDE DEF f
    <3> QED BY <1>1, <2>2, <3>1, CallKeeps DEF f
  <2>3. CASE Call(Skipping)
    <3>1. "fn" \in DOMAIN Skipping /\ Calls(Top.fn, Skipping.fn)
      BY <1>1 DEF Skipping, Calls
    <3> QED BY <1>1, <2>3, <3>1, CallKeeps
  <2> QED BY <1>5, <2>1, <2>2, <2>3 DEF Key
<1>6. ASSUME NEW k, Value(k) PROVE IInv'
  <2> DEFINE f == [Top EXCEPT !.at = "key", !.obj.values[k] = Given(k, event')]
  <2>1. "fn" \in DOMAIN f /\ f.fn = Top.fn
    BY <1>2
  <2>2. Continue(f)
    BY <1>6 DEF Value
  <2> HIDE DEF f
  <2> QED BY <1>1, <2>1, <2>2, ContinueKeeps
<1> QED BY <1>3, <1>4, <1>5, <1>6

\* The reader of a list.
LEMMA ListKeeps ==
    ASSUME IInv, ListStarts \/ ListEnds \/ ListItem PROVE IInv'
<1>1. stack # <<>> /\ Top.fn = "list"
  BY DEF ListStarts, ListEnds, ListItem, At
<1>2. "fn" \in DOMAIN Top
  BY <1>1, TopFn
<1>3. CASE ListStarts
  <2>0. NextEvent
    BY <1>3 DEF ListStarts, NextIs, NextIsNot
  <2>1. CASE Fail
    BY <1>1, <2>0, <2>1, FailKeeps
  <2>2. CASE Continue([Top EXCEPT !.at = "item"])
    <3> DEFINE f == [Top EXCEPT !.at = "item"]
    <3>1. "fn" \in DOMAIN f /\ f.fn = Top.fn
      BY <1>2
    <3> HIDE DEF f
    <3> QED BY <1>1, <2>0, <2>2, <3>1, ContinueKeeps DEF f
  <2> QED BY <1>3, <2>1, <2>2 DEF ListStarts
<1>4. CASE ListEnds
  BY <1>1, <1>4, FailKeeps, ReturnKeeps DEF ListEnds, NextIs
<1>5. CASE ListItem
  <2> DEFINE f == Mapping(Top.key)
  <2>1. /\ "fn" \in DOMAIN f /\ Calls(Top.fn, f.fn)
        /\ f.fn = "mapping" /\ f.at = "start"
    BY <1>1 DEF Mapping, Calls
  <2>2. stack' = Append(stack, f) /\ UNCHANGED files /\ Parse /\ keep_in_place' = TRUE
    BY <1>5 DEF ListItem, Call
  <2> HIDE DEF f
  <2>3. Standing(stack') /\ Last(stack') = f /\ stack' # <<>>
    BY <1>1, <2>1, <2>2, Called DEF IInv, Top
  <2>4. FilesOK'
    BY <1>1, <2>2, ParseOK DEF IInv, FilesOK
  <2> QED BY <2>1, <2>2, <2>3, <2>4 DEF IInv, KeptForItem, At, Top
<1> QED BY <1>3, <1>4, <1>5

\* The reader of what is not known.
LEMMA SkipKeeps ==
    ASSUME IInv, SkipStarts \/ \E start \in Starts : Skip(start) PROVE IInv'
<1>1. stack # <<>> /\ Top.fn = "skip" /\ NextEvent
  BY DEF SkipStarts, Skip, At, NextIs, NextIsNot
<1>2. "fn" \in DOMAIN Top
  BY <1>1, TopFn
<1>3. ASSUME NEW a, NEW d, Continue([Top EXCEPT !.at = a, !.deep = d]) PROVE IInv'
  <2> DEFINE f == [Top EXCEPT !.at = a, !.deep = d]
  <2>1. "fn" \in DOMAIN f /\ f.fn = Top.fn
    BY <1>2
  <2> HIDE DEF f
  <2> QED BY <1>1, <1>3, <2>1, ContinueKeeps DEF f
<1>4. ASSUME NEW d, Continue([Top EXCEPT !.deep = d]) PROVE IInv'
  <2> DEFINE f == [Top EXCEPT !.deep = d]
  <2>1. "fn" \in DOMAIN f /\ f.fn = Top.fn
    BY <1>2
  <2> HIDE DEF f
  <2> QED BY <1>1, <1>4, <2>1, ContinueKeeps DEF f
<1>5. CASE SkipStarts
  BY <1>1, <1>3, <1>5, FailKeeps, ReturnKeeps DEF SkipStarts
<1>6. ASSUME NEW start \in Starts, Skip(start) PROVE IInv'
  <2>1. \/ Fail \/ Return \/ Continue([Top EXCEPT !.deep = Deeper(start)])
    BY <1>6 DEF Skip
  <2> QED BY <1>1, <1>4, <2>1, FailKeeps, ReturnKeeps
<1> QED BY <1>5, <1>6

\* At first no reader runs.
LEMMA InitInv == ASSUME Init PROVE IInv
<1>1. files \in Seq(Files) /\ stack = <<>>
  BY FilesAssumption DEF Init
<1>2. Standing(stack)
  BY <1>1 DEF Standing, Range
<1> QED BY <1>1, <1>2 DEF Init, IInv, FilesOK, KeptForItem

\* Every step keeps the invariant.
LEMMA StepInv == ASSUME IInv, [Next]_vars PROVE IInv'
<1>1. CASE UNCHANGED vars
  BY <1>1 DEF vars, IInv, FilesOK, KeptForItem, At, Top
<1>2. CASE Next
  BY <1>1, <1>2, OpenKeeps, LoadKeeps, MappingEndsKeeps, MappingKeeps, ListKeeps,
     SkipKeeps DEF Next, ReadEvent, Done
<1> QED BY <1>1, <1>2

\* Whatever the files hold, their readers call each other as they should, and
\* an event is kept in place only for the item of a list that reads it next.
THEOREM ReadersStand == Spec => []IInv
<1>1. IInv /\ [Next]_vars => IInv'
  BY StepInv
<1> QED BY <1>1, InitInv, PTL DEF Spec

\* No reader leaves an event to the next file, on any way out, and each one
\* stands in a file of its kind.
THEOREM ReadersAlwaysOK == Spec => []ReadersOK
<1>1. IInv => ReadersOK
  <2> SUFFICES ASSUME IInv PROVE ReadersOK
    OBVIOUS
  <2>1. KeptIsUsed
    BY DEF IInv, KeptForItem, KeptIsUsed, At
  <2>2. files # <<>> => Head(files).kind \in {"project", "config"}
    BY FilesAssumption DEF IInv, FilesOK
  <2>3. DOMAIN stack = 1..Len(stack) /\ Len(stack) \in Nat
    BY DEF IInv, Standing
  <2>4. stack # <<>> => Len(stack) > 0
    BY EmptySeq DEF IInv, Standing
  <2>5. ASSUME NEW i \in DOMAIN stack
        PROVE  stack[i].fn \in {"load", "mapping", "list", "skip"}
    <3>1. i = 1 \/ i \in 2..Len(stack)
      BY <2>3
    <3> QED BY <2>3, <3>1 DEF IInv, Standing, Calls
  <2> QED BY <2>1, <2>2, <2>4, <2>5 DEF ReadersOK, YamlTypeOK, IInv, FilesOK, Standing
<1> QED BY <1>1, ReadersStand, PTL

-----------------------------------------------------------------------------
(* Numbers and sequences.                                                  *)

\* Every set of numbers that is not empty has a least one.
LEMMA LeastOf ==
    ASSUME NEW T, T \subseteq Nat, T # {}
    PROVE  \E x \in T : \A y \in T : ~(y < x)
<1> DEFINE R == {ss \in Nat \X Nat : ss[1] < ss[2]}
<1>1. IsWellFoundedOn(R, Nat)
  BY NatLessThanWellFounded, Zenon DEF OpToRel
<1> HIDE DEF R
<1>2. \E x \in T : \A y \in T : ~(<<y, x>> \in R)
  BY <1>1, WFMin, Zenon
<1> QED BY <1>2 DEF R

\* What holds of a number, and of each one behind one it holds of, holds up to n.
LEMMA CountUp ==
    ASSUME NEW m \in Nat, NEW n \in Nat, NEW S, m \in S,
           \A k \in m..n : k \in S /\ k + 1 =< n => k + 1 \in S
    PROVE  m..n \subseteq S
<1> SUFFICES ASSUME (m..n) \ S # {} PROVE FALSE
  OBVIOUS
<1> DEFINE T == (m..n) \ S
<1>1. PICK x \in T : \A y \in T : ~(y < x)
  <2>1. T \subseteq Nat /\ T # {}
    OBVIOUS
  <2> HIDE DEF T
  <2> QED BY <2>1, LeastOf
<1>2. x # m /\ x \in Nat /\ x \in m..n
  BY <1>1
<1>3. x - 1 \in m..n /\ x - 1 < x /\ (x - 1) + 1 = x
  BY <1>2
<1>4. x - 1 \in S
  BY <1>1, <1>3
<1> QED BY <1>1, <1>2, <1>3, <1>4

\* What is put behind a sequence is its last element.
LEMMA Appended ==
    ASSUME NEW F, NEW c \in Seq(F), NEW x \in F
    PROVE  /\ Append(c, x) \in Seq(F) /\ Len(Append(c, x)) = Len(c) + 1
           /\ Append(c, x) # <<>> /\ Last(Append(c, x)) = x /\ Front(Append(c, x)) = c
           /\ \A i \in 1..Len(c) : Append(c, x)[i] = c[i]
<1> DEFINE a == Append(c, x)
           n == Len(c)
<1>1. /\ n \in Nat /\ a \in Seq(F) /\ Len(a) = n + 1 /\ a[n + 1] = x
      /\ \A i \in 1..n : a[i] = c[i]
  OBVIOUS
<1>2. a # <<>> /\ Last(a) = x
  BY <1>1, EmptySeq DEF Last
<1>3. Front(a) = SubSeq(a, 1, n)
  BY <1>1 DEF Front
<1> HIDE DEF a
<1>4. 1 \in 1..Len(a) + 1 /\ n \in 0..Len(a)
  BY <1>1
<1>5. Front(a) \in Seq(F) /\ Len(Front(a)) = n /\ \A i \in 1..n : Front(a)[i] = c[i]
  BY <1>1, <1>3, <1>4
<1>6. Front(a) = c
  BY <1>5, SeqEqual
<1> QED BY <1>1, <1>2, <1>6 DEF a

\* What is left of a sequence without its last element.
LEMMA Fronted ==
    ASSUME NEW F, NEW c \in Seq(F), c # <<>>
    PROVE  /\ Len(c) \in Nat /\ Len(c) >= 1 /\ Last(c) = c[Len(c)] /\ Last(c) \in F
           /\ Front(c) \in Seq(F) /\ Len(Front(c)) = Len(c) - 1
           /\ \A i \in 1..Len(c) - 1 : Front(c)[i] = c[i]
<1> DEFINE m == Len(c) - 1
<1>1. Len(c) \in Nat /\ Len(c) >= 1 /\ Last(c) = c[Len(c)]
  BY EmptySeq DEF Last
<1>2. Front(c) = SubSeq(c, 1, m)
  BY DEF Front
<1>3. 1 \in 1..Len(c) + 1 /\ m \in 0..Len(c) /\ m \in Nat /\ Len(c) \in 1..Len(c)
  BY <1>1
<1>4. c[Len(c)] \in F
  BY <1>3
<1> HIDE DEF m
<1>5. /\ SubSeq(c, 1, m) \in Seq(F) /\ Len(SubSeq(c, 1, m)) = m
      /\ \A i \in 1..m : SubSeq(c, 1, m)[i] = c[i]
  BY <1>3
<1> QED BY <1>1, <1>2, <1>4, <1>5 DEF m

-----------------------------------------------------------------------------
(* What is open before an event.                                           *)

\* The next of what is open before each event, as far as it is known.
Opened(es, f, i) ==
    IF i = 1 THEN <<>>
    ELSE LET before == f[i - 1] IN
         CASE es[i - 1].type \in Starts -> Append(before, i - 1)
           [] es[i - 1].type \in Ends -> Front(before)
           [] OTHER -> before

\* What is open before an event is well defined,
LEMMA InsideIs ==
    ASSUME NEW es, Len(es) \in Nat
    PROVE  \E inside : /\ Inside(es) = inside
                       /\ inside = [i \in 1..Len(es) + 1 |-> Opened(es, inside, i)]
<1> DEFINE N == Len(es) + 1
           S == {k \in 1..N : \E f : f = [i \in 1..k |-> Opened(es, f, i)]}
           inside == CHOOSE f : f = [i \in 1..N |-> Opened(es, f, i)]
<1>5. Inside(es) = inside
  BY DEF Inside, Opened
<1>0. N \in Nat /\ 1 \in 1..N /\ N \in 1..N
  OBVIOUS
<1> HIDE DEF N
<1>1. 1 \in S
  <2> DEFINE g == [i \in 1..1 |-> <<>>]
  <2>1. \A i \in 1..1 : i = 1
    OBVIOUS
  <2>2. g = [i \in 1..1 |-> Opened(es, g, i)]
    BY <2>1 DEF Opened
  <2> HIDE DEF g
  <2> QED BY <1>0, <2>2
<1>2. ASSUME NEW k \in 1..N, k \in S, k + 1 =< N PROVE k + 1 \in S
  <2>1. PICK f : f = [i \in 1..k |-> Opened(es, f, i)]
    BY <1>2
  <2> DEFINE g == [i \in 1..k + 1 |-> IF i = k + 1 THEN Opened(es, f, k + 1) ELSE f[i]]
  <2>2. \A i \in 1..k + 1 : i # 1 => i - 1 \in 1..k
    OBVIOUS
  <2>3. \A i \in 1..k : i \in 1..k + 1 /\ i # k + 1
    OBVIOUS
  <2>4. \A i \in 1..k + 1 : i # 1 => g[i - 1] = f[i - 1]
    BY <2>2, <2>3
  <2>5. \A i \in 1..k + 1 : Opened(es, g, i) = Opened(es, f, i)
    <3> HIDE DEF g
    <3> QED BY <2>4 DEF Opened
  <2>6. \A i \in 1..k + 1 : i = k + 1 \/ i \in 1..k
    OBVIOUS
  <2>7. \A i \in 1..k + 1 : g[i] = Opened(es, f, i)
    BY <2>1, <2>6
  <2>8. g = [i \in 1..k + 1 |-> g[i]]
    OBVIOUS
  <2> HIDE DEF g
  <2>9. g = [i \in 1..k + 1 |-> Opened(es, g, i)]
    BY <2>5, <2>7, <2>8
  <2>10. k + 1 \in 1..N
    BY <1>0, <1>2
  <2> QED BY <2>9, <2>10
<1>3. 1..N \subseteq S
  <2> HIDE DEF S
  <2> QED BY <1>0, <1>1, <1>2, CountUp
<1>4. inside = [i \in 1..N |-> Opened(es, inside, i)]
  <2>1. \E f : f = [i \in 1..N |-> Opened(es, f, i)]
    BY <1>0, <1>3
  <2> QED BY <2>1
<1> HIDE DEF inside
<1> QED BY <1>4, <1>5 DEF N

\* A start opens a value, an end closes one, and no other event makes a difference.
LEMMA InsideNext ==
    ASSUME NEW es, Len(es) \in Nat
    PROVE  /\ Inside(es)[1] = <<>>
           /\ \A q \in 1..Len(es) :
                /\ es[q].type \in Starts => Inside(es)[q + 1] = Append(Inside(es)[q], q)
                /\ es[q].type \in Ends => Inside(es)[q + 1] = Front(Inside(es)[q])
                /\ es[q].type \notin Starts \cup Ends => Inside(es)[q + 1] = Inside(es)[q]
<1>1. PICK inside : /\ Inside(es) = inside
                    /\ inside = [i \in 1..Len(es) + 1 |-> Opened(es, inside, i)]
  BY InsideIs
<1>2. 1 \in 1..Len(es) + 1
  OBVIOUS
<1>3. inside[1] = <<>>
  <2>1. inside[1] = Opened(es, inside, 1)
    BY <1>1, <1>2
  <2> QED BY <2>1 DEF Opened
<1>4. ASSUME NEW q \in 1..Len(es)
      PROVE  /\ es[q].type \in Starts => inside[q + 1] = Append(inside[q], q)
             /\ es[q].type \in Ends => inside[q + 1] = Front(inside[q])
             /\ es[q].type \notin Starts \cup Ends => inside[q + 1] = inside[q]
  <2>1. q + 1 \in 1..Len(es) + 1 /\ q + 1 # 1 /\ (q + 1) - 1 = q
    OBVIOUS
  <2>2. inside[q + 1] = Opened(es, inside, q + 1)
    BY <1>1, <2>1
  <2>3. \A t \in Starts : t \notin Ends
    BY DEF Starts, Ends, EndOf
  <2> QED BY <2>1, <2>2, <2>3 DEF Opened
<1> QED BY <1>1, <1>3, <1>4

\* The places of what is open before event q: starts before it, in their order.
Nest(es, x, q) ==
    /\ x \in Seq(1..Len(es))
    /\ \A n \in 1..Len(x) : x[n] < q /\ es[x[n]].type \in Starts
    /\ \A m, n \in 1..Len(x) : m < n => x[m] < x[n]

\* What is known of the events of a file.
LEMMA FormedIs ==
    ASSUME NEW es, WellFormed(es)
    PROVE  /\ Len(es) \in Nat /\ Len(es) > 0 /\ DOMAIN es = 1..Len(es)
           /\ EndsMatch(es) /\ StreamOK(es) /\ DocumentsOK(es) /\ PairsOK(es)
           /\ \A i \in 1..Len(es) :
                es[i].type \in Starts \cup Ends \cup {"scalar", "alias", "error"}
BY DEF WellFormed, StreamOK

\* A start opens one more, inside of what is open,
LEMMA NestAppended ==
    ASSUME NEW es, NEW x, NEW q \in 1..Len(es), Len(es) \in Nat, Nest(es, x, q),
           es[q].type \in Starts
    PROVE  Nest(es, Append(x, q), q + 1)
<1> DEFINE y == Append(x, q)
<1>1. /\ y \in Seq(1..Len(es)) /\ Len(y) = Len(x) + 1 /\ y[Len(x) + 1] = q /\ Len(x) \in Nat
      /\ \A n \in 1..Len(x) : y[n] = x[n] /\ x[n] \in 1..Len(es)
  BY DEF Nest
<1> HIDE DEF y
<1>2. \A n \in 1..Len(y) : n = Len(x) + 1 \/ n \in 1..Len(x)
  BY <1>1
<1>3. \A n \in 1..Len(x) : x[n] < q + 1 /\ x[n] < q
  BY <1>1 DEF Nest
<1>4. \A n \in 1..Len(y) : y[n] < q + 1 /\ es[y[n]].type \in Starts
  <2>1. q < q + 1
    OBVIOUS
  <2> QED BY <1>1, <1>2, <1>3, <2>1 DEF Nest
<1>5. ASSUME NEW m \in 1..Len(y), NEW n \in 1..Len(y), m < n PROVE y[m] < y[n]
  <2>1. m \in 1..Len(x)
    BY <1>1, <1>5
  <2>2. CASE n = Len(x) + 1
    BY <1>1, <1>3, <2>1, <2>2
  <2>3. CASE n \in 1..Len(x)
    BY <1>1, <1>5, <2>1, <2>3 DEF Nest
  <2> QED BY <1>2, <2>2, <2>3
<1> QED BY <1>1, <1>4, <1>5 DEF Nest, y

\* an end closes the innermost,
LEMMA NestFronted ==
    ASSUME NEW es, NEW x, NEW q \in 1..Len(es), Len(es) \in Nat, Nest(es, x, q), x # <<>>
    PROVE  Nest(es, Front(x), q + 1)
<1> DEFINE y == Front(x)
<1>1. /\ y \in Seq(1..Len(es)) /\ Len(y) = Len(x) - 1 /\ Len(x) \in Nat
      /\ \A n \in 1..Len(x) - 1 : y[n] = x[n]
  BY Fronted DEF Nest
<1> HIDE DEF y
<1>2. \A n \in 1..Len(y) : n \in 1..Len(x) /\ n \in 1..Len(x) - 1
  BY <1>1
<1>3. \A n \in 1..Len(x) : x[n] \in 1..Len(es) /\ x[n] < q + 1
  <2>1. \A n \in 1..Len(x) : x[n] \in 1..Len(es) /\ x[n] < q
    BY DEF Nest
  <2> QED BY <2>1
<1> QED BY <1>1, <1>2, <1>3 DEF Nest, y

\* so that what is open before an event are starts, in their order.
LEMMA InsideNests ==
    ASSUME NEW es, WellFormed(es)
    PROVE  \A q \in 1..Len(es) + 1 : Nest(es, Inside(es)[q], q)
<1> DEFINE N == Len(es)
           in == Inside(es)
           S == {q \in 1..N + 1 : Nest(es, in[q], q)}
<1>1. /\ N \in Nat /\ N > 0 /\ EndsMatch(es) /\ DOMAIN es = 1..N /\ in[1] = <<>>
      /\ \A q \in 1..N :
           /\ es[q].type \in Starts => in[q + 1] = Append(in[q], q)
           /\ es[q].type \in Ends => in[q + 1] = Front(in[q])
           /\ es[q].type \notin Starts \cup Ends => in[q + 1] = in[q]
  BY FormedIs, InsideNext
<1> HIDE DEF in
<1>2. 1 \in S
  <2>1. 1 \in 1..N + 1
    BY <1>1
  <2>2. Nest(es, <<>>, 1)
    BY DEF Nest
  <2> QED BY <1>1, <2>1, <2>2
<1>3. ASSUME NEW q \in 1..N + 1, q \in S, q + 1 <= N + 1 PROVE q + 1 \in S
  <2>1. q \in 1..N /\ q + 1 \in 1..N + 1 /\ Nest(es, in[q], q)
    <3>1. q \in 1..N /\ q + 1 \in 1..N + 1
      BY <1>1, <1>3
    <3>2. Nest(es, in[q], q)
      BY <1>3
    <3> QED BY <3>1, <3>2
  <2>2. CASE es[q].type \in Starts
    <3>1. in[q + 1] = Append(in[q], q)
      BY <1>1, <2>1, <2>2
    <3>2. Nest(es, Append(in[q], q), q + 1)
      BY <1>1, <2>1, <2>2, NestAppended
    <3> QED BY <2>1, <3>1, <3>2
  <2>3. CASE es[q].type \in Ends
    <3>1. in[q] # <<>>
      <4>1. Len(in[q]) > 0
        BY <1>1, <2>1, <2>3 DEF EndsMatch, Level, in
      <4> QED BY <4>1
    <3>2. in[q + 1] = Front(in[q])
      BY <1>1, <2>1, <2>3
    <3>3. Nest(es, Front(in[q]), q + 1)
      BY <1>1, <2>1, <3>1, NestFronted
    <3> QED BY <2>1, <3>2, <3>3
  <2>4. CASE es[q].type \notin Starts \cup Ends
    <3>1. \A n \in 1..Len(in[q]) : in[q][n] \in 1..N /\ in[q][n] < q + 1
      <4>1. \A n \in 1..Len(in[q]) : in[q][n] \in 1..N /\ in[q][n] < q
        BY <2>1 DEF Nest
      <4> QED BY <2>1, <4>1
    <3>2. Nest(es, in[q], q + 1)
      BY <2>1, <3>1 DEF Nest
    <3> QED BY <1>1, <2>1, <2>4, <3>2
  <2> QED BY <2>2, <2>3, <2>4
<1>4. 1..N + 1 \subseteq S
  <2> HIDE DEF S
  <2>1. N + 1 \in Nat
    BY <1>1
  <2> QED BY <1>2, <1>3, <2>1, CountUp
<1> QED BY <1>4 DEF in

\* What was opened last is the last of what is open.
LEMMA LastOpen ==
    ASSUME NEW es, Len(es) \in Nat, NEW q \in 1..Len(es) + 1, NEW x, Nest(es, x, q)
    PROVE  /\ x # <<>> <=> Len(x) > 0
           /\ x # <<>> => /\ Last(x) \in 1..Len(es) /\ Last(x) < q /\ Last(x) = x[Len(x)]
                          /\ es[Last(x)].type \in Starts
                          /\ \A n \in 1..Len(x) : x[n] <= Last(x)
<1>1. Len(x) \in Nat /\ (x # <<>> <=> Len(x) > 0)
  BY EmptySeq DEF Nest
<1>2. ASSUME x # <<>>
      PROVE  /\ Last(x) \in 1..Len(es) /\ Last(x) < q /\ Last(x) = x[Len(x)]
             /\ es[Last(x)].type \in Starts
             /\ \A n \in 1..Len(x) : x[n] <= Last(x)
  <2>0. x \in Seq(1..Len(es))
    BY DEF Nest
  <2>1. Len(x) \in 1..Len(x) /\ Last(x) = x[Len(x)]
    <3>1. Len(x) \in Nat /\ Len(x) >= 1 /\ Last(x) = x[Len(x)]
      BY <1>2, <2>0, Fronted
    <3> QED BY <3>1
  <2>2. ASSUME NEW n \in 1..Len(x) PROVE x[n] <= Last(x)
    <3>1. n = Len(x) \/ n < Len(x)
      BY <1>1
    <3>2. x[n] \in 1..Len(es) /\ x[Len(x)] \in 1..Len(es)
      BY <2>1 DEF Nest
    <3> QED BY <2>1, <3>1, <3>2 DEF Nest
  <2> QED BY <2>1, <2>2 DEF Nest
<1> QED BY <1>1, <1>2

-----------------------------------------------------------------------------
(* What is read until a value ends.                                        *)

\* Value a is open before each event up to q.
Held(es, a, q) ==
    a < q /\ \A k \in a + 1..q : Level(es, k) > 0 /\ Last(Inside(es)[k]) >= a

\* A value is open behind its start,
LEMMA HeldFirst ==
    ASSUME NEW es, WellFormed(es), NEW q \in 1..Len(es), es[q].type \in Starts
    PROVE  /\ Inside(es)[q + 1] = Append(Inside(es)[q], q) /\ Held(es, q, q + 1)
           /\ Last(Inside(es)[q + 1]) = q /\ Level(es, q + 1) = Level(es, q) + 1
<1>1. Inside(es)[q + 1] = Append(Inside(es)[q], q) /\ Len(es) \in Nat
  BY FormedIs, InsideNext
<1>2. Inside(es)[q] \in Seq(1..Len(es))
  <2>1. q \in 1..Len(es) + 1
    BY <1>1
  <2>2. Nest(es, Inside(es)[q], q)
    BY <2>1, InsideNests
  <2> QED BY <2>2 DEF Nest
<1>3. Last(Append(Inside(es)[q], q)) = q /\ Len(Append(Inside(es)[q], q)) = Len(Inside(es)[q]) + 1
  BY <1>2, Appended
<1>4. Len(Inside(es)[q]) \in Nat
  BY <1>2
<1>5. \A k \in q + 1..q + 1 : k = q + 1
  OBVIOUS
<1>6. q < q + 1 /\ q >= q /\ Len(Inside(es)[q]) + 1 > 0
  BY <1>4
<1>7. Last(Inside(es)[q + 1]) = q /\ Level(es, q + 1) = Level(es, q) + 1 /\ Level(es, q + 1) > 0
  BY <1>1, <1>3, <1>6 DEF Level
<1>8. Held(es, q, q + 1)
  BY <1>5, <1>6, <1>7 DEF Held
<1> QED BY <1>1, <1>7, <1>8

\* and for as long as one is open that is not older.
LEMMA HeldNext ==
    ASSUME NEW es, WellFormed(es), NEW a \in Nat, NEW q \in 1..Len(es), Held(es, a, q),
           NEW n \in 1..Level(es, q + 1), Inside(es)[q + 1][n] >= a
    PROVE  Held(es, a, q + 1)
<1> DEFINE x == Inside(es)[q + 1]
<1>1. Len(es) \in Nat /\ q + 1 \in 1..Len(es) + 1
  BY FormedIs
<1>2. Nest(es, x, q + 1)
  BY <1>1, InsideNests
<1>3. n \in 1..Len(x) /\ Len(x) \in Nat
  BY <1>2 DEF Level, Nest
<1>4. x # <<>> /\ Len(x) > 0 /\ x[n] <= Last(x) /\ Last(x) \in 1..Len(es) /\ x[n] \in 1..Len(es)
  <2>1. Len(x) > 0
    BY <1>3
  <2>2. x # <<>>
    BY <1>1, <1>2, <2>1, LastOpen
  <2>3. x[n] \in 1..Len(es)
    BY <1>2, <1>3 DEF Nest
  <2> HIDE DEF x
  <2> QED BY <1>1, <1>2, <1>3, <2>1, <2>2, <2>3, LastOpen
<1>5. Last(x) >= a
  BY <1>4
<1>6. a < q + 1 /\ \A k \in a + 1..q + 1 : k = q + 1 \/ k \in a + 1..q
  BY DEF Held
<1> QED BY <1>4, <1>5, <1>6 DEF Held, Level

\* What is open until another value is, is open as long as this one.
LEMMA HeldOn ==
    ASSUME NEW es, WellFormed(es), NEW a \in Nat, NEW v \in Nat, a <= v,
           NEW e \in 1..Len(es) + 1, Held(es, a, v), Held(es, v, e)
    PROVE  Held(es, a, e)
<1>1. \A k \in v + 1..e : Level(es, k) > 0 /\ Last(Inside(es)[k]) >= v
  BY DEF Held
<1>2. ASSUME NEW k \in v + 1..e PROVE Last(Inside(es)[k]) >= a
  <2>1. k \in 1..Len(es) + 1 /\ Len(es) \in Nat
    BY FormedIs
  <2>2. Level(es, k) > 0 /\ Last(Inside(es)[k]) >= v
    BY <1>1
  <2>3. Last(Inside(es)[k]) \in 1..Len(es)
    <3>1. Nest(es, Inside(es)[k], k)
      BY <2>1, InsideNests
    <3>2. Inside(es)[k] # <<>>
      BY <2>1, <2>2, <3>1, LastOpen DEF Level
    <3> QED BY <2>1, <3>1, <3>2, LastOpen
  <2> QED BY <2>2, <2>3
<1>3. a < v /\ v < e
  BY DEF Held
<1>4. a < e /\ \A k \in a + 1..e : k \in a + 1..v \/ k \in v + 1..e
  BY <1>3
<1> QED BY <1>1, <1>2, <1>4 DEF Held

\* While it is, nothing is read that is in an older one.
LEMMA NoChild ==
    ASSUME NEW es, WellFormed(es), NEW i \in Nat, NEW a \in Nat, i < a,
           NEW q \in 1..Len(es) + 1, Held(es, a, q)
    PROVE  \A k \in a + 1..q : k \notin Children(es, i)
<1> SUFFICES ASSUME NEW k \in a + 1..q, k \in Children(es, i) PROVE FALSE
  OBVIOUS
<1>1. Last(Inside(es)[k]) = i
  BY DEF Children
<1>2. Last(Inside(es)[k]) >= a
  BY DEF Held
<1> QED BY <1>1, <1>2

-----------------------------------------------------------------------------
(* The keys of a mapping.                                                  *)

\* how many nodes in node i are before event q
Count(es, i, q) == Cardinality({k \in Children(es, i) : k < q})

\* The children of a node are those it is the innermost open start of.
LEMMA ChildIs ==
    ASSUME NEW es, WellFormed(es), NEW i, NEW j
    PROVE  /\ j \in Children(es, i) <=>
                /\ j \in Nodes(es) /\ Inside(es)[j] # <<>> /\ Last(Inside(es)[j]) = i
           /\ j \in Children(es, i) => j \in 1..Len(es) /\ i \in 1..Len(es) /\ i < j
<1>1. Len(es) \in Nat /\ DOMAIN es = 1..Len(es)
  BY FormedIs
<1>2. j \in Nodes(es) => j \in 1..Len(es) /\ j \in 1..Len(es) + 1
  BY <1>1 DEF Nodes
<1>3. j \in Nodes(es) => (Level(es, j) > 0 <=> Inside(es)[j] # <<>>)
  BY <1>1, <1>2, InsideNests, LastOpen DEF Level
<1>4. j \in Children(es, i) <=>
                /\ j \in Nodes(es) /\ Inside(es)[j] # <<>> /\ Last(Inside(es)[j]) = i
  BY <1>3 DEF Children
<1>5. j \in Children(es, i) => i \in 1..Len(es) /\ i < j
  BY <1>1, <1>2, <1>4, InsideNests, LastOpen
<1> QED BY <1>2, <1>4, <1>5

\* A key is a child with an even number of children before it.
LEMMA KeyIs ==
    ASSUME NEW es, WellFormed(es), NEW i, NEW j
    PROVE  /\ j \in Keys(es, i) <=> j \in Children(es, i) /\ Count(es, i, j) % 2 = 0
           /\ j \in Keys(es, i) =>
                /\ j \in Nodes(es) /\ Inside(es)[j] # <<>> /\ Last(Inside(es)[j]) = i
                /\ j \in 1..Len(es) /\ i \in 1..Len(es) /\ i < j
<1>1. j \in Keys(es, i) <=> j \in Children(es, i) /\ Count(es, i, j) % 2 = 0
  BY DEF Keys, Count
<1> QED BY <1>1, ChildIs

\* The children before an event are finitely many.
LEMMA CountIs ==
    ASSUME NEW es, WellFormed(es), NEW i, NEW q \in 1..Len(es) + 1
    PROVE  /\ IsFiniteSet({k \in Children(es, i) : k < q}) /\ Count(es, i, q) \in Nat
<1>1. Len(es) \in Nat /\ 1..Len(es) \in SUBSET (1..Len(es)) /\ IsFiniteSet(1..Len(es))
  BY FormedIs, FS_Interval
<1>2. {k \in Children(es, i) : k < q} \in SUBSET (1..Len(es))
  BY ChildIs
<1>3. IsFiniteSet({k \in Children(es, i) : k < q})
  BY <1>1, <1>2, FS_Subset
<1> QED BY <1>3, FS_CardinalityType DEF Count

\* One more is counted,
LEMMA CountNext ==
    ASSUME NEW es, WellFormed(es), NEW i, NEW q \in 1..Len(es), q \in Children(es, i)
    PROVE  Count(es, i, q + 1) = Count(es, i, q) + 1
<1> DEFINE S == {k \in Children(es, i) : k < q}
<1>1. \A k \in Children(es, i) : k \in Nat /\ (k < q + 1 <=> k < q \/ k = q)
  <2>1. Len(es) \in Nat /\ \A k \in Children(es, i) : k \in 1..Len(es)
    BY FormedIs, ChildIs
  <2> QED BY <2>1
<1>2. {k \in Children(es, i) : k < q + 1} = S \cup {q} /\ q \notin S
  <2>1. ~(q < q)
    OBVIOUS
  <2> QED BY <1>1, <2>1
<1>3. q \in 1..Len(es) + 1
  BY FormedIs
<1>4. IsFiniteSet(S)
  BY <1>3, CountIs
<1> HIDE DEF S
<1>5. Cardinality(S \cup {q}) = Cardinality(S) + 1
  BY <1>2, <1>4, FS_AddElement
<1> QED BY <1>2, <1>5 DEF Count, S

\* or none is.
LEMMA CountSame ==
    ASSUME NEW es, WellFormed(es), NEW i, NEW a \in Nat, NEW b \in Nat, a <= b,
           \A k \in a..b - 1 : k \notin Children(es, i)
    PROVE  Count(es, i, b) = Count(es, i, a)
<1>1. \A k \in Children(es, i) : k \in Nat
  BY ChildIs
<1>2. {k \in Children(es, i) : k < b} = {k \in Children(es, i) : k < a}
  BY <1>1
<1> QED BY <1>2 DEF Count

-----------------------------------------------------------------------------
(* What may be read, and what it leads to.                                 *)

\* Behind an event that leaves something open there is another one.
LEMMA Room ==
    ASSUME NEW es, WellFormed(es), NEW q \in 1..Len(es), es[q].type # "error",
           Inside(es)[q + 1] # <<>>
    PROVE  q + 1 \in 1..Len(es)
<1> DEFINE x == Inside(es)[q]
<1>1. Len(es) \in Nat /\ StreamOK(es) /\ EndsMatch(es) /\ DOMAIN es = 1..Len(es)
  BY FormedIs
<1>2. CASE q # Len(es)
  <2>1. Len(es) \in Nat
    BY <1>1
  <2> QED BY <1>2, <2>1
<1>3. CASE q = Len(es)
  <2>1. es[q].type = "stream-"
    BY <1>1, <1>3 DEF StreamOK
  <2>2. es[q].type \in Ends
    BY <2>1 DEF Ends, Starts, EndOf
  <2>3. q \in 1..Len(es) + 1
    BY <1>1
  <2>4. Nest(es, x, q)
    BY <2>3, InsideNests
  <2>5. Len(x) > 0 /\ es[q].type = EndOf(es[Last(x)].type)
    BY <1>1, <2>2 DEF EndsMatch, Level
  <2>6. x # <<>>
    BY <1>1, <2>3, <2>4, <2>5, LastOpen
  <2>7. /\ Last(x) \in 1..Len(es) /\ es[Last(x)].type \in Starts
        /\ \A n \in 1..Len(x) : x[n] <= Last(x)
    BY <1>1, <2>3, <2>4, <2>6, LastOpen
  <2>8. es[Last(x)].type = "stream+"
    BY <2>1, <2>5, <2>7 DEF Starts, EndOf
  <2>9. Last(x) = 1
    BY <1>1, <2>7, <2>8 DEF StreamOK
  <2>10. x \in Seq(1..Len(es))
    BY <2>4 DEF Nest
  <2>11. Len(x) = 1
    <3>0. PICK m : m = Len(x)
      OBVIOUS
    <3>1. ~(m > 1)
      <4> SUFFICES ASSUME m > 1 PROVE FALSE
        OBVIOUS
      <4>1. 1 \in 1..Len(x) /\ 2 \in 1..Len(x)
        BY <2>10, <3>0
      <4>2. x[1] < x[2] /\ x[1] \in 1..Len(es) /\ x[2] \in 1..Len(es) /\ x[2] <= 1
        BY <2>4, <2>7, <2>9, <2>10, <4>1 DEF Nest
      <4> QED BY <4>2
    <3>2. m \in Nat /\ m > 0
      BY <2>5, <2>10, <3>0
    <3>3. m = 1
      BY <3>1, <3>2
    <3> QED BY <3>0, <3>3
  <2>12. Inside(es)[q + 1] = Front(x)
    BY <1>1, <2>2, InsideNext
  <2>13. Front(x) \in Seq(1..Len(es)) /\ Len(Front(x)) = 0
    <3>1. Front(x) \in Seq(1..Len(es)) /\ Len(Front(x)) = Len(x) - 1
      BY <2>6, <2>10, Fronted
    <3> QED BY <2>11, <3>1
  <2>14. Front(x) = <<>>
    BY <2>13, EmptySeq
  <2> QED BY <2>12, <2>14
<1> QED BY <1>2, <1>3

\* In a node there are nodes, and its end.
LEMMA Within ==
    ASSUME NEW es, WellFormed(es), NEW q \in 1..Len(es), NEW a, Level(es, q) > 2,
           Last(Inside(es)[q]) = a, es[a].type \in {"mapping+", "sequence+"}
    PROVE  /\ \/ q \in Nodes(es) /\ q \in Children(es, a)
              \/ es[q].type = EndOf(es[a].type) \/ es[q].type = "error"
           /\ es[q].type \notin {"stream+", "document+", "stream-", "document-"}
<1>1. /\ Len(es) \in Nat /\ StreamOK(es) /\ EndsMatch(es) /\ DOMAIN es = 1..Len(es)
      /\ DocumentsOK(es)
      /\ es[q].type \in Starts \cup Ends \cup {"scalar", "alias", "error"}
  BY FormedIs
<1>2. es[q].type # "stream+"
  <2>1. CASE q = 1
    <3>1. Inside(es)[1] = <<>>
      BY <1>1, InsideNext
    <3>2. Level(es, q) = 0
      BY <2>1, <3>1 DEF Level
    <3> QED BY <3>2
  <2> QED BY <1>1, <2>1 DEF StreamOK
<1>3. es[q].type # "document+"
  <2>1. es[q].type = "document+" => Level(es, q) = 1
    BY <1>1 DEF DocumentsOK
  <2> QED BY <2>1
<1>4. ASSUME es[q].type \in Ends
      PROVE  /\ es[q].type = EndOf(es[a].type)
             /\ es[q].type \notin {"stream+", "document+", "stream-", "document-"}
  <2>1. es[q].type = EndOf(es[a].type)
    BY <1>1, <1>4 DEF EndsMatch
  <2> QED BY <2>1 DEF EndOf
<1>5. CASE es[q].type \in {"mapping+", "sequence+", "scalar", "alias"}
  <2>1. q \in Nodes(es)
    BY <1>1, <1>5 DEF Nodes
  <2>2. Level(es, q) > 0
    <3>1. q \in 1..Len(es) + 1
      BY <1>1
    <3>2. Inside(es)[q] \in Seq(1..Len(es))
      BY <3>1, InsideNests DEF Nest
    <3>3. Level(es, q) \in Nat
      BY <3>2 DEF Level
    <3> QED BY <3>3
  <2> QED BY <1>5, <2>1, <2>2 DEF Children
<1> QED BY <1>1, <1>2, <1>3, <1>4, <1>5 DEF Starts

\* Before event q only mapping i is open, of what is inside of it, or was opened
\* behind it.
InMapping(es, i, q) ==
    /\ i \in 1..Len(es) /\ es[i].type = "mapping+" /\ q \in 1..Len(es)
    /\ Inside(es)[q] = Append(Inside(es)[i], i) /\ Held(es, i, q)

\* It is a key that is to be read, or the mapping ends,
AtKey(es, i, q) == InMapping(es, i, q) /\ Count(es, i, q) % 2 = 0

\* or the value of a key that is a scalar.
AtValue(es, i, q) ==
    InMapping(es, i, q) /\ q - 1 \in Keys(es, i) /\ es[q - 1].type = "scalar"

\* Where an event is that is directly in a mapping.
LEMMA InMappingIs ==
    ASSUME NEW es, WellFormed(es), NEW i, NEW q, InMapping(es, i, q)
    PROVE  /\ i \in 1..Len(es) /\ q \in 1..Len(es) /\ i < q /\ Len(es) \in Nat
           /\ Inside(es)[q] # <<>> /\ Last(Inside(es)[q]) = i
           /\ Front(Inside(es)[q]) = Inside(es)[i]
           /\ Level(es, q) = Level(es, i) + 1 /\ Level(es, i) \in Nat /\ Level(es, q) > 2
           /\ Inside(es)[q][Level(es, q)] = i /\ es[i].type = "mapping+"
<1> DEFINE x == Inside(es)[i]
<1>1. /\ Len(es) \in Nat /\ DOMAIN es = 1..Len(es) /\ DocumentsOK(es)
      /\ i \in 1..Len(es) /\ q \in 1..Len(es) /\ i < q
  BY FormedIs DEF InMapping, Held
<1>2. i \in Nodes(es)
  BY <1>1 DEF InMapping, Nodes
<1>3. Level(es, i) > 1
  BY <1>1, <1>2 DEF DocumentsOK
<1>4. i \in 1..Len(es) + 1
  BY <1>1
<1>5. x \in Seq(1..Len(es))
  BY <1>4, InsideNests DEF Nest
<1>6. /\ Append(x, i) # <<>> /\ Last(Append(x, i)) = i /\ Front(Append(x, i)) = x
      /\ Len(Append(x, i)) = Len(x) + 1 /\ Append(x, i)[Len(x) + 1] = i
  BY <1>1, <1>5, Appended
<1>7. Len(x) \in Nat
  BY <1>5
<1>8. Inside(es)[q] = Append(x, i) /\ es[i].type = "mapping+"
  BY DEF InMapping
<1>9. Level(es, i) = Len(x) /\ Level(es, q) = Len(x) + 1
  BY <1>6, <1>8 DEF Level
<1>10. Len(x) + 1 > 2
  BY <1>3, <1>7, <1>9
<1> QED BY <1>1, <1>6, <1>7, <1>8, <1>9, <1>10

\* A mapping is read up to a place behind which it is the innermost again.
LEMMA InMappingNext ==
    ASSUME NEW es, WellFormed(es), NEW i, NEW q, InMapping(es, i, q),
           NEW e \in q..Len(es), es[e].type # "error",
           e = q \/ (i < q /\ Held(es, q, e)),
           Inside(es)[e + 1] = Inside(es)[q]
    PROVE  InMapping(es, i, e + 1)
<1>1. /\ i \in 1..Len(es) /\ q \in 1..Len(es) /\ Len(es) \in Nat /\ i < q
      /\ Inside(es)[q] # <<>> /\ Level(es, q) > 2 /\ Inside(es)[q][Level(es, q)] = i
      /\ Level(es, q) = Level(es, i) + 1 /\ Level(es, i) \in Nat
  BY InMappingIs
<1>2. e \in 1..Len(es) /\ i \in Nat
  BY <1>1
<1>3. e + 1 \in 1..Len(es)
  BY <1>1, <1>2, Room
<1>4. Held(es, i, e)
  <2>1. Held(es, i, q)
    BY DEF InMapping
  <2>2. CASE e # q
    <3>1. Held(es, q, e)
      BY <2>2
    <3>2. i \in Nat /\ q \in Nat /\ e \in 1..Len(es) + 1
      BY <1>1, <1>2
    <3> QED BY <1>1, <2>1, <3>1, <3>2, HeldOn
  <2> QED BY <2>1, <2>2
<1>5. Level(es, e + 1) = Level(es, q)
  BY DEF Level
<1>6. Level(es, q) \in 1..Level(es, e + 1) /\ Inside(es)[e + 1][Level(es, q)] >= i
  BY <1>1, <1>5
<1>7. Held(es, i, e + 1)
  BY <1>2, <1>4, <1>6, HeldNext
<1> QED BY <1>3, <1>7 DEF InMapping

\* Keys and values take turns.
LEMMA Odd == ASSUME NEW n \in Nat, n % 2 = 0 PROVE ~((n + 1) % 2 = 0) /\ ((n + 1) + 1) % 2 = 0
OBVIOUS

\* Where a key may be, there is one, or the end of the mapping,
LEMMA KeyEvents ==
    ASSUME NEW es, WellFormed(es), NEW i, NEW q, AtKey(es, i, q),
           NEW kind, ValuesFit(es, kind, i)
    PROVE  /\ es[q].type \in {"mapping-", "scalar", "error"}
           /\ es[q].type = "scalar" => q \in Keys(es, i) /\ AtValue(es, i, q + 1)
<1>1. /\ i \in 1..Len(es) /\ q \in 1..Len(es) /\ Last(Inside(es)[q]) = i
      /\ Level(es, q) > 2 /\ es[i].type = "mapping+" /\ InMapping(es, i, q)
      /\ Inside(es)[q] # <<>> /\ i < q
  <2>1. InMapping(es, i, q)
    BY DEF AtKey
  <2> QED BY <2>1, InMappingIs
<1>2. \/ q \in Children(es, i)
      \/ es[q].type = EndOf("mapping+") \/ es[q].type = "error"
  <2>1. es[i].type \in {"mapping+", "sequence+"}
    BY <1>1
  <2>2. \/ q \in Nodes(es) /\ q \in Children(es, i)
        \/ es[q].type = EndOf(es[i].type) \/ es[q].type = "error"
    BY <1>1, <2>1, Within
  <2> QED BY <1>1, <2>2
<1>3. ASSUME q \in Children(es, i) PROVE q \in Keys(es, i) /\ es[q].type = "scalar"
  <2>1. q \in Keys(es, i)
    BY <1>3, KeyIs DEF AtKey
  <2> QED BY <2>1 DEF ValuesFit
<1>4. ASSUME es[q].type = "scalar" PROVE q \in Keys(es, i) /\ AtValue(es, i, q + 1)
  <2>1. q \in Keys(es, i)
    BY <1>2, <1>3, <1>4 DEF EndOf
  <2>2. es[q].type \notin Starts \cup Ends
    BY <1>4 DEF Starts, Ends, EndOf
  <2>3. Len(es) \in Nat
    BY FormedIs
  <2>4. Inside(es)[q + 1] = Inside(es)[q]
    BY <1>1, <2>2, <2>3, InsideNext
  <2>5. q \in q..Len(es) /\ (q + 1) - 1 = q
    BY <1>1, <2>3
  <2>6. InMapping(es, i, q + 1)
    BY <1>1, <1>4, <2>4, <2>5, InMappingNext
  <2> QED BY <1>4, <2>1, <2>5, <2>6 DEF AtValue
<1> QED BY <1>2, <1>3, <1>4 DEF EndOf

\* and behind it its value,
LEMMA ValueEvents ==
    ASSUME NEW es, WellFormed(es), NEW i, NEW q, AtValue(es, i, q)
    PROVE  /\ q \in Children(es, i) \/ es[q].type = "error"
           /\ q \notin Keys(es, i) /\ q - 1 \in Children(es, i) /\ q - 1 \in 1..Len(es)
           /\ q \in Children(es, i) => Count(es, i, q + 1) % 2 = 0
<1>1. /\ i \in 1..Len(es) /\ q \in 1..Len(es) /\ Last(Inside(es)[q]) = i
      /\ Inside(es)[q] # <<>> /\ i < q /\ es[i].type = "mapping+"
      /\ DOMAIN es = 1..Len(es) /\ PairsOK(es) /\ Len(es) \in Nat
  <2>1. InMapping(es, i, q)
    BY DEF AtValue
  <2> QED BY <2>1, InMappingIs, FormedIs
<1>2. q - 1 \in Keys(es, i) /\ es[q - 1].type = "scalar" /\ (q - 1) + 1 = q
  BY <1>1 DEF AtValue
<1>3. q \in Nodes(es) \/ es[q].type = "error"
  BY <1>1, <1>2 DEF PairsOK
<1>4. q \in Children(es, i) \/ es[q].type = "error"
  BY <1>1, <1>3, ChildIs
<1>5. /\ q - 1 \in Children(es, i) /\ q - 1 \in 1..Len(es)
      /\ Count(es, i, q - 1) % 2 = 0
  BY <1>2, KeyIs
<1>6. Count(es, i, q) = Count(es, i, q - 1) + 1
  BY <1>2, <1>5, CountNext
<1>7. Count(es, i, q - 1) \in Nat
  <2>1. q - 1 \in 1..Len(es) + 1
    BY <1>1, <1>5
  <2> QED BY <2>1, CountIs
<1>8. ~(Count(es, i, q) % 2 = 0)
  BY <1>5, <1>6, <1>7, Odd
<1>9. q \notin Keys(es, i)
  BY <1>8, KeyIs
<1>10. ASSUME q \in Children(es, i) PROVE Count(es, i, q + 1) % 2 = 0
  <2>1. Count(es, i, q + 1) = (Count(es, i, q - 1) + 1) + 1
    BY <1>1, <1>6, <1>10, CountNext
  <2> QED BY <1>5, <1>7, <2>1, Odd
<1> QED BY <1>4, <1>5, <1>9, <1>10

\* which is behind it at once,
LEMMA LeafRead ==
    ASSUME NEW es, WellFormed(es), NEW i, NEW q, AtValue(es, i, q),
           es[q].type \in {"scalar", "alias"}
    PROVE  AtKey(es, i, q + 1)
<1>1. q \in 1..Len(es) /\ Len(es) \in Nat /\ InMapping(es, i, q)
  BY FormedIs DEF AtValue, InMapping
<1>2. q \in Children(es, i) /\ Count(es, i, q + 1) % 2 = 0
  BY ValueEvents
<1>3. es[q].type \notin Starts \cup Ends
  BY DEF Starts, Ends, EndOf
<1>4. Inside(es)[q + 1] = Inside(es)[q] /\ q \in q..Len(es)
  BY <1>1, <1>3, InsideNext
<1>5. InMapping(es, i, q + 1)
  BY <1>1, <1>4, InMappingNext
<1> QED BY <1>2, <1>5 DEF AtKey

\* or is open until it ends.
LEMMA ValueEnds ==
    ASSUME NEW es, WellFormed(es), NEW i, NEW v, AtValue(es, i, v), es[v].type # "error",
           NEW e \in 1..Len(es), Held(es, v, e), es[e].type # "error",
           Inside(es)[e + 1] = Inside(es)[v]
    PROVE  AtKey(es, i, e + 1)
<1>1. v \in 1..Len(es) /\ Len(es) \in Nat /\ InMapping(es, i, v) /\ i < v /\ i \in Nat
      /\ v < e
  <2>1. InMapping(es, i, v)
    BY DEF AtValue
  <2> QED BY <2>1, InMappingIs DEF Held
<1>2. e \in v..Len(es) /\ e \in 1..Len(es) + 1 /\ v + 1 \in Nat /\ e + 1 \in Nat
      /\ v + 1 <= e + 1 /\ v \in Nat
  BY <1>1
<1>3. InMapping(es, i, e + 1)
  BY <1>1, <1>2, InMappingNext
<1>4. Count(es, i, v + 1) % 2 = 0
  BY ValueEvents
<1>5. \A k \in v + 1..e : k \notin Children(es, i)
  BY <1>1, <1>2, NoChild
<1>6. (e + 1) - 1 = e
  BY <1>1
<1>7. Count(es, i, e + 1) = Count(es, i, v + 1)
  BY <1>2, <1>5, <1>6, CountSame
<1> QED BY <1>3, <1>4, <1>7 DEF AtKey

-----------------------------------------------------------------------------
(* What has been read of a mapping.                                        *)

\* The items up to n, as far as those before it are known.
Listed(es, i, key, f, n) ==
    IF n = 0 THEN <<>>
    ELSE IF n \in ItemPlaces(es, i, key) THEN Append(f[n - 1], Values(es, key, n))
    ELSE f[n - 1]

\* The items of a list up to an event are well defined,
LEMMA ItemsToIs ==
    ASSUME NEW es, Len(es) \in Nat, NEW i, NEW key
    PROVE  \E items : /\ ItemsTo(es, i, key) = items
                      /\ items = [n \in 0..Len(es) |-> Listed(es, i, key, items, n)]
<1> DEFINE N == Len(es)
           S == {k \in 0..N : \E f : f = [n \in 0..k |-> Listed(es, i, key, f, n)]}
           items == CHOOSE f : f = [n \in 0..N |-> Listed(es, i, key, f, n)]
<1>5. ItemsTo(es, i, key) = items
  BY DEF ItemsTo, Listed
<1>0. N \in Nat /\ 0 \in 0..N /\ N \in 0..N /\ 0 \in Nat
  OBVIOUS
<1> HIDE DEF N
<1>1. 0 \in S
  <2> DEFINE g == [n \in 0..0 |-> <<>>]
  <2>1. \A n \in 0..0 : n = 0
    OBVIOUS
  <2>2. g = [n \in 0..0 |-> Listed(es, i, key, g, n)]
    BY <2>1 DEF Listed
  <2> HIDE DEF g
  <2> QED BY <1>0, <2>2
<1>2. ASSUME NEW k \in 0..N, k \in S, k + 1 =< N PROVE k + 1 \in S
  <2>1. PICK f : f = [n \in 0..k |-> Listed(es, i, key, f, n)]
    BY <1>2
  <2> DEFINE g == [n \in 0..k + 1 |-> IF n = k + 1 THEN Listed(es, i, key, f, k + 1) ELSE f[n]]
  <2>2. \A n \in 0..k + 1 : n # 0 => n - 1 \in 0..k
    OBVIOUS
  <2>3. \A n \in 0..k : n \in 0..k + 1 /\ n # k + 1
    OBVIOUS
  <2>4. \A n \in 0..k + 1 : n # 0 => g[n - 1] = f[n - 1]
    BY <2>2, <2>3
  <2>5. \A n \in 0..k + 1 : Listed(es, i, key, g, n) = Listed(es, i, key, f, n)
    <3> HIDE DEF g
    <3> QED BY <2>4 DEF Listed
  <2>6. \A n \in 0..k + 1 : n = k + 1 \/ n \in 0..k
    OBVIOUS
  <2>7. \A n \in 0..k + 1 : g[n] = Listed(es, i, key, f, n)
    BY <2>1, <2>6
  <2>8. g = [n \in 0..k + 1 |-> g[n]]
    OBVIOUS
  <2> HIDE DEF g
  <2>9. g = [n \in 0..k + 1 |-> Listed(es, i, key, g, n)]
    BY <2>5, <2>7, <2>8
  <2>10. k + 1 \in 0..N
    BY <1>0, <1>2
  <2> QED BY <2>9, <2>10
<1>3. 0..N \subseteq S
  <2> HIDE DEF S
  <2> QED BY <1>0, <1>1, <1>2, CountUp
<1>4. items = [n \in 0..N |-> Listed(es, i, key, items, n)]
  <2>1. \E f : f = [n \in 0..N |-> Listed(es, i, key, f, n)]
    BY <1>0, <1>3
  <2> QED BY <2>1
<1> HIDE DEF items
<1> QED BY <1>4, <1>5 DEF N

\* and grow by one at the place of an item.
LEMMA ItemsNext ==
    ASSUME NEW es, Len(es) \in Nat, NEW i, NEW key
    PROVE  /\ ItemsTo(es, i, key)[0] = <<>>
           /\ \A n \in 1..Len(es) :
                /\ n \in ItemPlaces(es, i, key) =>
                    ItemsTo(es, i, key)[n] =
                        Append(ItemsTo(es, i, key)[n - 1], Values(es, key, n))
                /\ n \notin ItemPlaces(es, i, key) =>
                    ItemsTo(es, i, key)[n] = ItemsTo(es, i, key)[n - 1]
<1>1. PICK items : /\ ItemsTo(es, i, key) = items
                   /\ items = [n \in 0..Len(es) |-> Listed(es, i, key, items, n)]
  BY ItemsToIs
<1>2. \A n \in 0..Len(es) : items[n] = Listed(es, i, key, items, n)
  BY <1>1
<1>3. \A n \in 1..Len(es) : n \in 0..Len(es) /\ n # 0
  OBVIOUS
<1>4. 0 \in 0..Len(es)
  OBVIOUS
<1> QED BY <1>1, <1>2, <1>3, <1>4 DEF Listed

\* Where no item is, their list is the same.
LEMMA ItemsSame ==
    ASSUME NEW es, Len(es) \in Nat, NEW i, NEW key, NEW a \in Nat,
           NEW b \in Nat, a <= b, b <= Len(es),
           \A k \in a + 1..b : k \notin ItemPlaces(es, i, key)
    PROVE  ItemsTo(es, i, key)[b] = ItemsTo(es, i, key)[a]
<1> DEFINE S == {k \in a..b : ItemsTo(es, i, key)[k] = ItemsTo(es, i, key)[a]}
<1>1. a \in S
  OBVIOUS
<1>2. ASSUME NEW k \in a..b, k \in S, k + 1 <= b PROVE k + 1 \in S
  <2>1. k + 1 \in 1..Len(es) /\ k + 1 \in a + 1..b /\ (k + 1) - 1 = k /\ k + 1 \in a..b
    BY <1>2
  <2>2. ItemsTo(es, i, key)[k + 1] = ItemsTo(es, i, key)[k]
    BY <2>1, ItemsNext
  <2> QED BY <1>2, <2>1, <2>2
<1>3. a..b \subseteq S
  <2> HIDE DEF S
  <2> QED BY <1>1, <1>2, CountUp
<1>4. b \in a..b
  OBVIOUS
<1> QED BY <1>3, <1>4

\* The object of a mapping when all before event q has been read.
KeysTo(es, i, q) == {j \in Keys(es, i) : j < q}
Part(es, kind, i, q) ==
    [values |-> ValuesOf(es, kind, KeysTo(es, i, q)),
     lists |-> [key \in ListKeys(kind) |-> ItemsTo(es, i, key)[q - 1]]]

\* A key is read for a value or for a list, and the places of a reader are no keys.
LEMMA KeysApart ==
    ASSUME NEW kind \in Kinds
    PROVE  /\ ValueKeys(kind) \cap ListKeys(kind) = {}
           /\ {"start", "key"} \cap ValueKeys(kind) = {}
           /\ ListKeys(kind) \subseteq Kinds
BY DEF Kinds, ValueKeys, ListKeys

\* An item is a child of a value, and of nothing else.
LEMMA PlaceIs ==
    ASSUME NEW es, WellFormed(es), NEW i, NEW key, NEW k
    PROVE  /\ k \in ItemPlaces(es, i, key) <=>
                \E j \in Keys(es, i) : es[j].value = key /\ k \in Children(es, j + 1)
           /\ k \in Children(es, i) => k \notin ItemPlaces(es, i, key)
           /\ k \notin Nodes(es) => k \notin ItemPlaces(es, i, key)
<1>1. k \in ItemPlaces(es, i, key) <=>
                \E j \in Keys(es, i) : es[j].value = key /\ k \in Children(es, j + 1)
  BY DEF ItemPlaces
<1>2. ASSUME k \in Children(es, i), NEW j \in Keys(es, i), k \in Children(es, j + 1)
      PROVE  FALSE
  <2>1. Last(Inside(es)[k]) = i /\ Last(Inside(es)[k]) = j + 1
    BY <1>2 DEF Children
  <2>2. i < j /\ i \in 1..Len(es) /\ j \in 1..Len(es) /\ Len(es) \in Nat
    BY KeyIs, FormedIs
  <2> QED BY <2>1, <2>2
<1>3. k \notin Nodes(es) => k \notin ItemPlaces(es, i, key)
  BY <1>1 DEF Children
<1> QED BY <1>1, <1>2, <1>3

\* The items that are in the value of a key are given for this one.
LEMMA PlaceIn ==
    ASSUME NEW es, WellFormed(es), NEW i, NEW v, AtValue(es, i, v),
           NEW q \in 1..Len(es) + 1, Held(es, v, q), NEW k \in v + 1..q, NEW key,
           k \in ItemPlaces(es, i, key)
    PROVE  k \in Children(es, v) /\ es[v - 1].value = key
<1>1. /\ v \in 1..Len(es) /\ i < v /\ v \notin Keys(es, i) /\ Len(es) \in Nat
      /\ i \in 1..Len(es)
  <2>1. InMapping(es, i, v)
    BY DEF AtValue
  <2> QED BY <2>1, InMappingIs, ValueEvents
<1>2. PICK j \in Keys(es, i) : es[j].value = key /\ k \in Children(es, j + 1)
  BY PlaceIs
<1>3. j \in Nat /\ Last(Inside(es)[j]) = i
  BY <1>1, KeyIs
<1>4. j + 1 >= v /\ j + 1 < k
  <2>1. Last(Inside(es)[k]) = j + 1 /\ j + 1 < k
    BY <1>2, ChildIs
  <2>2. Last(Inside(es)[k]) >= v
    BY DEF Held
  <2> QED BY <2>1, <2>2
<1>5. j # v
  BY <1>1
<1>6. ~(j > v)
  <2> SUFFICES ASSUME j > v PROVE FALSE
    OBVIOUS
  <2>1. j \in v + 1..q
    BY <1>1, <1>3, <1>4
  <2>2. Last(Inside(es)[j]) >= v
    BY <2>1 DEF Held
  <2> QED BY <1>1, <1>3, <2>2
<1>7. j = v - 1 /\ j + 1 = v
  BY <1>1, <1>3, <1>4, <1>5, <1>6
<1> QED BY <1>2, <1>7

\* What is neither a key with a value nor an item leaves the object as it was.
LEMMA PartSame ==
    ASSUME NEW es, WellFormed(es), NEW kind, NEW i, NEW a \in 1..Len(es) + 1,
           NEW b \in 1..Len(es) + 1, a <= b,
           \A k \in a..b - 1 :
                /\ k \in Keys(es, i) => es[k].value \notin ValueKeys(kind)
                /\ \A key \in ListKeys(kind) : k \notin ItemPlaces(es, i, key)
    PROVE  Part(es, kind, i, b) = Part(es, kind, i, a)
<1>1. Len(es) \in Nat /\ \A j \in Keys(es, i) : j \in 1..Len(es)
  BY FormedIs, KeyIs
<1>2. ASSUME NEW key \in ValueKeys(kind)
      PROVE  {j \in KeysTo(es, i, b) : es[j].value = key}
                 = {j \in KeysTo(es, i, a) : es[j].value = key}
  <2>1. ASSUME NEW j \in Keys(es, i), es[j].value = key PROVE j < b <=> j < a
    <3>1. j \notin a..b - 1
      BY <1>2, <2>1
    <3>2. j \in 1..Len(es)
      BY <1>1
    <3> QED BY <1>1, <3>1, <3>2
  <2> QED BY <2>1 DEF KeysTo
<1>3. ValuesOf(es, kind, KeysTo(es, i, b)) = ValuesOf(es, kind, KeysTo(es, i, a))
  BY <1>2 DEF ValuesOf
<1>4. ASSUME NEW key \in ListKeys(kind)
      PROVE  ItemsTo(es, i, key)[b - 1] = ItemsTo(es, i, key)[a - 1]
  <2>1. a - 1 \in Nat /\ b - 1 \in Nat /\ a - 1 <= b - 1 /\ b - 1 <= Len(es) /\ (a - 1) + 1 = a
    BY <1>1
  <2>2. \A k \in (a - 1) + 1..b - 1 : k \notin ItemPlaces(es, i, key)
    BY <1>4, <2>1
  <2> QED BY <1>1, <2>1, <2>2, ItemsSame
<1> QED BY <1>3, <1>4 DEF Part

\* The last of a set of numbers.
LEMMA LastOfIs ==
    ASSUME NEW S, NEW x \in S, x \in Int, \A y \in S : y \in Int /\ y <= x
    PROVE  LastOf(S) = x
<1>1. \A y \in S : y <= x
  OBVIOUS
<1>2. ASSUME NEW z \in S, \A y \in S : y <= z PROVE z = x
  <2>1. x <= z /\ z <= x /\ z \in Int
    BY <1>2
  <2> QED BY <2>1
<1>3. LastOf(S) \in S /\ \A y \in S : y <= LastOf(S)
  BY <1>1 DEF LastOf
<1> QED BY <1>2, <1>3

\* A scalar behind a key is what is given for it.
LEMMA PartValue ==
    ASSUME NEW es, WellFormed(es), NEW kind \in Kinds, NEW i, NEW q, AtValue(es, i, q),
           NEW k, k = es[q - 1].value, k \in ValueKeys(kind),
           q \in Children(es, i)
    PROVE  Part(es, kind, i, q + 1) =
                [Part(es, kind, i, q - 1) EXCEPT !.values[k] = Given(k, es[q])]
<1> DEFINE j == q - 1
           A == KeysTo(es, i, q - 1)
           B == KeysTo(es, i, q + 1)
<1>1. /\ q \in 1..Len(es) /\ Len(es) \in Nat /\ j \in Keys(es, i) /\ q \notin Keys(es, i)
      /\ j \in Children(es, i) /\ j \in 1..Len(es)
  <2>1. InMapping(es, i, q)
    BY DEF AtValue
  <2>2. q \in 1..Len(es) /\ Len(es) \in Nat
    BY <2>1, InMappingIs
  <2>3. j \in Keys(es, i)
    BY DEF AtValue
  <2> QED BY <2>2, <2>3, ValueEvents
<1>2. \A m \in Keys(es, i) : m \in 1..Len(es) /\ (m < q + 1 <=> m < j \/ m = j)
  <2>1. \A m \in Keys(es, i) : m \in 1..Len(es) /\ m # q
    BY <1>1, KeyIs
  <2> QED BY <1>1, <2>1
<1>3. B = A \cup {j} /\ \A m \in A : m \in Int /\ m <= j
  BY <1>1, <1>2 DEF KeysTo
<1> HIDE DEF A, B
<1>4. ASSUME NEW key \in ValueKeys(kind), key # k
      PROVE  {m \in B : es[m].value = key} = {m \in A : es[m].value = key}
  BY <1>3, <1>4
<1>5. LastOf({m \in B : es[m].value = k}) = j /\ {m \in B : es[m].value = k} # {}
  <2> DEFINE S == {m \in B : es[m].value = k}
  <2>1. j \in S /\ j \in Int /\ \A y \in S : y \in Int /\ y <= j
    BY <1>1, <1>3
  <2> HIDE DEF S, j
  <2>2. LastOf(S) = j
    BY <2>1, LastOfIs
  <2> QED BY <2>1, <2>2 DEF S
<1>6. (j + 1) = q
  BY <1>1
<1>7. ValuesOf(es, kind, B) = [ValuesOf(es, kind, A) EXCEPT ![k] = Given(k, es[q])]
  <2>1. \A key \in ValueKeys(kind) : key # k =>
            ValuesOf(es, kind, B)[key] = ValuesOf(es, kind, A)[key]
    BY <1>4 DEF ValuesOf
  <2>2. ValuesOf(es, kind, B)[k] = Given(k, es[q])
    <3>1. ValuesOf(es, kind, B)[k] = Given(k, es[LastOf({m \in B : es[m].value = k}) + 1])
      BY <1>5 DEF ValuesOf
    <3> QED BY <1>5, <1>6, <3>1
  <2>3. /\ ValuesOf(es, kind, B) = [key \in ValueKeys(kind) |-> ValuesOf(es, kind, B)[key]]
        /\ ValuesOf(es, kind, A) = [key \in ValueKeys(kind) |-> ValuesOf(es, kind, A)[key]]
    BY DEF ValuesOf
  <2>4. DOMAIN ValuesOf(es, kind, A) = ValueKeys(kind)
    BY DEF ValuesOf
  <2> DEFINE X == [ValuesOf(es, kind, A) EXCEPT ![k] = Given(k, es[q])]
  <2>5. X = [key \in ValueKeys(kind) |-> ValuesOf(es, kind, B)[key]]
    BY <2>1, <2>2, <2>3, <2>4
  <2> QED BY <2>3, <2>5
<1>8. ASSUME NEW key \in ListKeys(kind)
      PROVE  ItemsTo(es, i, key)[q] = ItemsTo(es, i, key)[q - 2]
  <2>1. q - 2 \in Nat /\ q \in Nat /\ q - 2 <= q /\ q <= Len(es)
    BY <1>1
  <2>2. \A m \in (q - 2) + 1..q : m = q \/ m = j
    BY <1>1
  <2>3. \A m \in (q - 2) + 1..q : m \notin ItemPlaces(es, i, key)
    BY <1>1, <2>2, PlaceIs
  <2> QED BY <1>1, <2>1, <2>3, ItemsSame
<1>9. (q + 1) - 1 = q /\ (q - 1) - 1 = q - 2
  BY <1>1
<1> DEFINE P == Part(es, kind, i, q - 1)
<1>10. P = [values |-> ValuesOf(es, kind, A),
            lists |-> [key \in ListKeys(kind) |-> ItemsTo(es, i, key)[q - 2]]]
  BY <1>9 DEF Part, A
<1>11. Part(es, kind, i, q + 1) =
           [values |-> ValuesOf(es, kind, B),
            lists |-> [key \in ListKeys(kind) |-> ItemsTo(es, i, key)[q - 2]]]
  BY <1>8, <1>9 DEF Part, B
<1> HIDE DEF P
<1>12. [P EXCEPT !.values[k] = Given(k, es[q])] =
           [values |-> [ValuesOf(es, kind, A) EXCEPT ![k] = Given(k, es[q])],
            lists |-> [key \in ListKeys(kind) |-> ItemsTo(es, i, key)[q - 2]]]
  BY <1>10
<1> QED BY <1>7, <1>11, <1>12 DEF P

\* What has been closed is not opened again.
LEMMA Closed ==
    ASSUME NEW es, WellFormed(es), NEW e \in 1..Len(es) + 1, NEW s \in Nat, s < e,
           \A n \in 1..Level(es, e) : Inside(es)[e][n] # s
    PROVE  \A k \in e..Len(es) + 1 : \A n \in 1..Level(es, k) : Inside(es)[k][n] # s
<1> DEFINE N == Len(es) + 1
           S == {k \in e..N : \A n \in 1..Level(es, k) : Inside(es)[k][n] # s}
<1>1. Len(es) \in Nat /\ N \in Nat /\ e \in Nat /\ e <= N
  BY FormedIs
<1> HIDE DEF N
<1>2. e \in S
  BY <1>1
<1>3. ASSUME NEW k \in e..N, k \in S, k + 1 <= N PROVE k + 1 \in S
  <2> DEFINE x == Inside(es)[k]
             y == Inside(es)[k + 1]
  <2>1. k \in 1..Len(es) /\ k # s /\ k + 1 \in e..N /\ k \in 1..Len(es) + 1
    BY <1>1, <1>3 DEF N
  <2>2. x \in Seq(1..Len(es)) /\ Len(x) \in Nat
    <3>1. Nest(es, x, k)
      BY <2>1, InsideNests
    <3> QED BY <3>1 DEF Nest
  <2>3. \A n \in 1..Len(x) : x[n] # s
    BY <1>3 DEF Level
  <2> HIDE DEF x
  <2>4. CASE es[k].type \in Starts
    <3>1. y = Append(x, k)
      BY <1>1, <2>1, <2>4, InsideNext DEF x
    <3> HIDE DEF y
    <3>2. Len(y) = Len(x) + 1 /\ y[Len(x) + 1] = k /\ \A n \in 1..Len(x) : y[n] = x[n]
      BY <2>1, <2>2, <3>1
    <3>3. \A n \in 1..Len(y) : n = Len(x) + 1 \/ n \in 1..Len(x)
      BY <2>2, <3>2
    <3>4. \A n \in 1..Len(y) : y[n] # s
      BY <2>1, <2>3, <3>2, <3>3
    <3> QED BY <2>1, <3>4 DEF Level, y
  <2>5. CASE es[k].type \in Ends
    <3>1. y = Front(x)
      BY <1>1, <2>1, <2>5, InsideNext DEF x
    <3>2. x # <<>>
      <4>1. EndsMatch(es) /\ DOMAIN es = 1..Len(es)
        BY FormedIs
      <4>2. Len(x) > 0
        BY <2>1, <2>5, <4>1 DEF EndsMatch, Level, x
      <4> QED BY <4>2
    <3>3. Len(y) = Len(x) - 1 /\ \A n \in 1..Len(x) - 1 : y[n] = x[n]
      BY <2>2, <3>1, <3>2, Fronted
    <3> HIDE DEF y
    <3>4. \A n \in 1..Len(y) : n \in 1..Len(x) /\ n \in 1..Len(x) - 1
      BY <2>2, <3>3
    <3>5. \A n \in 1..Len(y) : y[n] # s
      BY <2>3, <3>3, <3>4
    <3> QED BY <2>1, <3>5 DEF Level, y
  <2>6. CASE es[k].type \notin Starts \cup Ends
    <3>1. y = x
      BY <1>1, <2>1, <2>6, InsideNext DEF x
    <3>2. \A n \in 1..Len(y) : y[n] # s
      BY <2>3, <3>1
    <3> QED BY <2>1, <3>2 DEF Level
  <2> QED BY <2>4, <2>5, <2>6
<1>4. e..N \subseteq S
  <2> HIDE DEF S
  <2> QED BY <1>1, <1>2, <1>3, CountUp
<1> QED BY <1>4 DEF N

\* A mapping that ends,
MappingClosed(es, i, e) == InMapping(es, i, e) /\ es[e].type = "mapping-"

\* What is known of the end of a mapping.
LEMMA ClosedIs ==
    ASSUME NEW es, WellFormed(es), NEW i, NEW e, MappingClosed(es, i, e)
    PROVE  /\ i \in 1..Len(es) /\ e \in 1..Len(es) /\ i < e /\ Len(es) \in Nat
           /\ Inside(es)[e + 1] = Inside(es)[i] /\ e \notin Nodes(es)
           /\ es[e].type \notin Starts
           /\ \A n \in 1..Level(es, e) : Inside(es)[e][n] <= i
           /\ \A n \in 1..Level(es, e + 1) : Inside(es)[e + 1][n] < i
<1>1. /\ i \in 1..Len(es) /\ e \in 1..Len(es) /\ i < e /\ Len(es) \in Nat
      /\ Front(Inside(es)[e]) = Inside(es)[i] /\ Inside(es)[e] # <<>>
      /\ Last(Inside(es)[e]) = i
  BY InMappingIs DEF MappingClosed
<1>2. /\ es[e].type \in Ends /\ es[e].type \notin Starts
      /\ es[e].type \notin {"mapping+", "sequence+", "scalar", "alias"}
  BY DEF MappingClosed, Ends, Starts, EndOf
<1>3. Inside(es)[e + 1] = Inside(es)[i]
  BY <1>1, <1>2, InsideNext
<1>4. i \in 1..Len(es) + 1 /\ e \in 1..Len(es) + 1
  BY <1>1
<1>5. Nest(es, Inside(es)[i], i) /\ Nest(es, Inside(es)[e], e)
  BY <1>4, InsideNests
<1>6. \A n \in 1..Level(es, e) : Inside(es)[e][n] <= i
  BY <1>1, <1>4, <1>5, LastOpen DEF Level
<1>7. \A n \in 1..Level(es, i) : Inside(es)[i][n] < i
  BY <1>5 DEF Nest, Level
<1>8. Level(es, e + 1) = Level(es, i)
  BY <1>3 DEF Level
<1> QED BY <1>1, <1>2, <1>3, <1>6, <1>7, <1>8 DEF Nodes

\* has been read to its last key,
LEMMA ValuesRead ==
    ASSUME NEW es, WellFormed(es), NEW i, NEW e, MappingClosed(es, i, e), NEW kind
    PROVE  /\ KeysTo(es, i, e) = Keys(es, i)
           /\ Part(es, kind, i, e).values = Values(es, kind, i)
<1>1. /\ i \in 1..Len(es) /\ e \in 1..Len(es) /\ i < e /\ Len(es) \in Nat
      /\ e \notin Nodes(es)
      /\ \A n \in 1..Level(es, e + 1) : Inside(es)[e + 1][n] < i
  BY ClosedIs
<1>2. \A n \in 1..Level(es, e + 1) : Inside(es)[e + 1][n] # i
  <2>1. ~(i < i)
    BY <1>1
  <2> QED BY <1>1, <2>1
<1>3. e + 1 \in 1..Len(es) + 1 /\ i \in Nat /\ i < e + 1
  BY <1>1
<1>4. \A k \in e + 1..Len(es) + 1 : \A n \in 1..Level(es, k) : Inside(es)[k][n] # i
  BY <1>2, <1>3, Closed
<1>5. ASSUME NEW j \in Keys(es, i) PROVE j < e
  <2>1. /\ j \in Nodes(es) /\ Inside(es)[j] # <<>> /\ Last(Inside(es)[j]) = i
        /\ j \in 1..Len(es)
    BY KeyIs
  <2>2. j \in 1..Len(es) + 1
    BY <1>1, <2>1
  <2>3. Len(Inside(es)[j]) \in 1..Level(es, j) /\ Inside(es)[j][Len(Inside(es)[j])] = i
    <3>1. Nest(es, Inside(es)[j], j)
      BY <2>2, InsideNests
    <3>2. Len(Inside(es)[j]) > 0 /\ Last(Inside(es)[j]) = Inside(es)[j][Len(Inside(es)[j])]
      BY <1>1, <2>1, <2>2, <3>1, LastOpen
    <3>3. Len(Inside(es)[j]) \in Nat
      BY <3>1 DEF Nest
    <3>4. Len(Inside(es)[j]) \in 1..Len(Inside(es)[j])
      BY <3>2, <3>3
    <3> QED BY <2>1, <3>2, <3>4 DEF Level
  <2>4. j \notin e + 1..Len(es) + 1
    BY <1>4, <2>3
  <2>5. j # e
    BY <1>1, <2>1
  <2> QED BY <1>1, <2>1, <2>4, <2>5
<1>6. KeysTo(es, i, e) = Keys(es, i)
  BY <1>5 DEF KeysTo
<1> QED BY <1>6 DEF Part, Values

\* and to the last item of its lists.
LEMMA WholeRead ==
    ASSUME NEW es, WellFormed(es), NEW i, NEW e, MappingClosed(es, i, e), NEW kind
    PROVE  Part(es, kind, i, e) = Meaning(es, kind, i)
<1>1. /\ i \in 1..Len(es) /\ e \in 1..Len(es) /\ i < e /\ Len(es) \in Nat
      /\ es[e].type \notin Starts
      /\ \A n \in 1..Level(es, e) : Inside(es)[e][n] <= i
  BY ClosedIs
<1>2. KeysTo(es, i, e) = Keys(es, i)
  BY ValuesRead
<1>3. ASSUME NEW key, NEW k \in (e - 1) + 1..Len(es) PROVE k \notin ItemPlaces(es, i, key)
  <2> SUFFICES ASSUME k \in ItemPlaces(es, i, key) PROVE FALSE
    OBVIOUS
  <2>1. PICK j \in Keys(es, i) : k \in Children(es, j + 1)
    BY PlaceIs
  <2>2. j \in 1..Len(es) /\ i < j /\ j < e
    BY <1>2, KeyIs DEF KeysTo
  <2>3. /\ Inside(es)[k] # <<>> /\ Last(Inside(es)[k]) = j + 1 /\ k \in 1..Len(es)
    BY <2>1, ChildIs
  <2>4. k \in 1..Len(es) + 1 /\ k \in e..Len(es) + 1
    BY <1>1, <2>3
  <2>5. Nest(es, Inside(es)[k], k)
    BY <2>4, InsideNests
  <2>6. /\ es[j + 1].type \in Starts
        /\ Inside(es)[k][Len(Inside(es)[k])] = j + 1 /\ Len(Inside(es)[k]) > 0
    BY <1>1, <2>3, <2>4, <2>5, LastOpen
  <2>7. j + 1 # e
    BY <1>1, <2>6
  <2>8. j + 1 \in Nat /\ j + 1 < e /\ ~(j + 1 <= i)
    BY <1>1, <2>2, <2>7
  <2>9. \A n \in 1..Level(es, e) : Inside(es)[e][n] # j + 1
    BY <1>1, <2>8
  <2>10. e \in 1..Len(es) + 1
    BY <1>1
  <2>11. \A n \in 1..Level(es, k) : Inside(es)[k][n] # j + 1
    BY <2>4, <2>8, <2>9, <2>10, Closed
  <2>12. Len(Inside(es)[k]) \in Nat
    BY <2>5 DEF Nest
  <2>13. Len(Inside(es)[k]) \in 1..Len(Inside(es)[k])
    BY <2>6, <2>12
  <2> QED BY <2>6, <2>11, <2>13 DEF Level
<1>4. ASSUME NEW key \in ListKeys(kind)
      PROVE  Items(es, i, key) = ItemsTo(es, i, key)[e - 1]
  <2>1. e - 1 \in Nat /\ e - 1 <= Len(es) /\ Len(es) <= Len(es)
    BY <1>1
  <2>2. \A k \in (e - 1) + 1..Len(es) : k \notin ItemPlaces(es, i, key)
    BY <1>3
  <2>3. ItemsTo(es, i, key)[Len(es)] = ItemsTo(es, i, key)[e - 1]
    BY <1>1, <2>1, <2>2, ItemsSame
  <2> QED BY <2>3 DEF Items
<1> QED BY <1>2, <1>4 DEF Part, Meaning, Values

\* The object with one more item in a list.
WithItem(obj, key, item) == [obj EXCEPT !.lists[key] = Append(@, item)]

\* A mapping that was an item is the last one of its list then.
LEMMA PartItem ==
    ASSUME NEW es, WellFormed(es), NEW kind, NEW i, NEW s, AtValue(es, i, s),
           NEW m, Held(es, s, m), m \in Children(es, s), NEW e, MappingClosed(es, m, e),
           NEW key, key = es[s - 1].value, key \in ListKeys(kind)
    PROVE  Part(es, kind, i, e + 1) =
               WithItem(Part(es, kind, i, m), key, Values(es, key, m))
<1>1. /\ m \in 1..Len(es) /\ e \in 1..Len(es) /\ m < e /\ Len(es) \in Nat
      /\ s < m /\ s \in 1..Len(es) /\ i < s /\ i \in 1..Len(es)
  <2>1. InMapping(es, i, s)
    BY DEF AtValue
  <2> QED BY <2>1, InMappingIs, ClosedIs, ChildIs
<1>2. /\ s \in Nat /\ m \in Nat /\ s <= m /\ e \in 1..Len(es) + 1 /\ i \in Nat
      /\ e + 1 \in 1..Len(es) + 1 /\ m + 1 \in 1..Len(es) + 1 /\ m + 1 <= e + 1
      /\ m \in 1..Len(es) + 1 /\ m - 1 \in Nat /\ (e + 1) - 1 = e
  BY <1>1
<1>3. Held(es, m, e)
  BY DEF MappingClosed, InMapping
<1>4. Held(es, s, e)
  BY <1>2, <1>3, HeldOn
<1>5. s - 1 \in Keys(es, i) /\ (s - 1) + 1 = s
  BY <1>1 DEF AtValue
<1>6. \A k \in m..e : k \in s + 1..e
  BY <1>1
<1>7. \A k \in m..e : k \notin Keys(es, i)
  <2>1. \A k \in s + 1..e : k \notin Children(es, i)
    BY <1>1, <1>2, <1>4, NoChild
  <2> QED BY <1>6, <2>1, KeyIs
<1>8. \A k \in m + 1..e : k \notin Children(es, s)
  BY <1>1, <1>2, <1>3, NoChild
<1>9. ASSUME NEW l PROVE \A k \in m + 1..e : k \notin ItemPlaces(es, i, l)
  <2> SUFFICES ASSUME NEW k \in m + 1..e, k \in ItemPlaces(es, i, l) PROVE FALSE
    OBVIOUS
  <2>1. k \in s + 1..e
    BY <1>1
  <2>2. k \in Children(es, s)
    BY <1>2, <1>4, <2>1, PlaceIn
  <2> QED BY <1>8, <2>2
<1>10. ASSUME NEW l PROVE m \in ItemPlaces(es, i, l) <=> l = key
  <2>1. m \in s + 1..e
    BY <1>1
  <2>2. m \in ItemPlaces(es, i, l) => l = key
    BY <1>2, <1>4, <2>1, PlaceIn
  <2>3. m \in ItemPlaces(es, i, key)
    BY <1>5, PlaceIs
  <2> QED BY <2>2, <2>3
<1>11. ASSUME NEW l \in ListKeys(kind)
       PROVE  ItemsTo(es, i, l)[e] =
                  IF l = key THEN Append(ItemsTo(es, i, l)[m - 1], Values(es, key, m))
                  ELSE ItemsTo(es, i, l)[m - 1]
  <2>1. ItemsTo(es, i, l)[e] = ItemsTo(es, i, l)[m]
    <3>1. e \in Nat /\ m <= e /\ e <= Len(es)
      BY <1>1
    <3> QED BY <1>1, <1>2, <1>9, <3>1, ItemsSame
  <2>2. /\ l = key => ItemsTo(es, i, l)[m] =
                          Append(ItemsTo(es, i, l)[m - 1], Values(es, l, m))
        /\ l # key => ItemsTo(es, i, l)[m] = ItemsTo(es, i, l)[m - 1]
    <3>1. m \in ItemPlaces(es, i, l) <=> l = key
      BY <1>10
    <3> QED BY <1>1, <3>1, ItemsNext
  <2> QED BY <2>1, <2>2
<1>12. ValuesOf(es, kind, KeysTo(es, i, e + 1)) = ValuesOf(es, kind, KeysTo(es, i, m))
  <2>1. ASSUME NEW j \in Keys(es, i) PROVE j < e + 1 <=> j < m
    <3>1. j \notin m..e
      BY <1>7
    <3>2. j \in 1..Len(es)
      BY KeyIs
    <3> QED BY <1>1, <3>1, <3>2
  <2>2. KeysTo(es, i, e + 1) = KeysTo(es, i, m)
    BY <2>1 DEF KeysTo
  <2> QED BY <2>2
<1> DEFINE L == [l \in ListKeys(kind) |-> ItemsTo(es, i, l)[m - 1]]
           M == [l \in ListKeys(kind) |-> ItemsTo(es, i, l)[e]]
           v == ValuesOf(es, kind, KeysTo(es, i, m))
<1>13. key \in ListKeys(kind)
  OBVIOUS
<1>14. M = [L EXCEPT ![key] = Append(L[key], Values(es, key, m))]
  BY <1>11, <1>13
<1>15. Part(es, kind, i, m) = [values |-> v, lists |-> L]
  BY DEF Part
<1>16. Part(es, kind, i, e + 1) = [values |-> v, lists |-> M]
  BY <1>2, <1>12 DEF Part
<1> HIDE DEF L, M, v
<1>17. [[values |-> v, lists |-> L] EXCEPT !.lists[key] = Append(@, Values(es, key, m))]
           = [values |-> v, lists |-> [L EXCEPT ![key] = Append(L[key], Values(es, key, m))]]
  <2> DEFINE R == [values |-> v, lists |-> L]
             x == Values(es, key, m)
             N == [L EXCEPT ![key] = Append(L[key], x)]
  <2>1. R.lists = L
    OBVIOUS
  <2>2. [R EXCEPT !.lists[key] = Append(@, x)] = [R EXCEPT !.lists = N]
    BY <2>1, Zenon
  <2> HIDE DEF N, x
  <2>3. [R EXCEPT !.lists = N] = [values |-> v, lists |-> N]
    OBVIOUS
  <2> QED BY <2>2, <2>3 DEF N, x
<1> QED BY <1>14, <1>15, <1>16, <1>17 DEF WithItem

-----------------------------------------------------------------------------
(* Where the readers are.                                                  *)

\* The node of the first document.
FirstNode(es, r) ==
    /\ r \in 2..Len(es) /\ es[r - 1].type = "document+"
    /\ \A k \in 1..r - 2 : es[k].type # "document+"

\* Where nothing but scalars is given for values, in what the readers read.
Trusted(es, kind) ==
    \A r : FirstNode(es, r) /\ es[r].type = "mapping+" =>
        /\ ValuesFit(es, kind, r)
        /\ \A j \in Keys(es, r) :
            es[j].value \in ListKeys(kind) /\ es[j + 1].type = "sequence+" =>
                \A k \in Children(es, j + 1) :
                    es[k].type = "mapping+" => ValuesFit(es, es[j].value, k)

\* The calls there are.
LoadCall(obj) == [fn |-> "load", obj |-> obj]
MapCall(at, kind, obj) == [fn |-> "mapping", at |-> at, kind |-> kind, obj |-> obj]
ListCall(at, key) == [fn |-> "list", at |-> at, key |-> key]
SkipCall(at, deep) == [fn |-> "skip", at |-> at, deep |-> deep]

\* An item of list s, the value of a key of mapping i, is to be read.
InList(es, i, s, key, q) ==
    /\ AtValue(es, i, s) /\ es[s - 1].value = key /\ es[s].type = "sequence+"
    /\ Inside(es)[q] = Append(Inside(es)[s], s) /\ Held(es, s, q) /\ q \in 1..Len(es)

\* Value v of a key of mapping i is being skipped; the starts of its type that
\* are open are counted.
OpenOf(es, v, t, x) == {n \in Level(es, v) + 1..Len(x) : es[x[n]].type = t}
InSkip(es, i, v, t, d, q) ==
    /\ AtValue(es, i, v) /\ es[v].type = t /\ t \in Starts
    /\ Held(es, v, q) /\ q \in 1..Len(es)
    /\ Level(es, q) > Level(es, v) /\ Inside(es)[q][Level(es, v) + 1] = v
    /\ \A n \in 1..Level(es, v) : Inside(es)[q][n] = Inside(es)[v][n]
    /\ d = Cardinality(OpenOf(es, v, t, Inside(es)[q]))

\* The calls c read node i as a mapping of kind k, in a file of a kind.
ReadBy(es, kind, c, k, i) ==
    \/ k = kind /\ FirstNode(es, i) /\ c = <<LoadCall(NULL)>>
    \/ \E r, s : /\ FirstNode(es, r) /\ k \in ListKeys(kind)
                 /\ InList(es, r, s, k, i) /\ i \in Children(es, s)
                 /\ c = <<LoadCall(NULL), MapCall("key", kind, Part(es, kind, r, i)),
                          ListCall("item", k)>>

\* The first document is still to be found,
Seeking(es, q, st) ==
    st = <<LoadCall(NULL)>>
    /\ \A k \in 1..q - 1 : k \in 1..Len(es) => es[k].type # "document+"

\* its node has been read,
Found(es, kind, q, st) ==
    \E r : /\ FirstNode(es, r) /\ es[r].type = "mapping+"
           /\ q \in 1..Len(es) /\ Inside(es)[q] = Inside(es)[r]
           /\ es[q - 1].type = "mapping-"
           /\ st = <<LoadCall(Meaning(es, kind, r))>>

\* a mapping is to be read, or has been read up to a key, or to its value,
MapAtStart(es, q, st, c, k, i) == q = i /\ st = Append(c, MapCall("start", k, Empty(k)))
MapAtKey(es, q, st, c, k, i) ==
    AtKey(es, i, q) /\ st = Append(c, MapCall("key", k, Part(es, k, i, q)))
MapAtValue(es, q, st, c, k, i) ==
    /\ AtValue(es, i, q) /\ es[q - 1].value \in ValueKeys(k)
    /\ st = Append(c, MapCall(es[q - 1].value, k, Part(es, k, i, q - 1)))

\* a list is to be read, or is read,
ListAtStart(es, q, st, c, k, i) ==
    /\ AtValue(es, i, q) /\ es[q - 1].value \in ListKeys(k)
    /\ st = Append(Append(c, MapCall("key", k, Part(es, k, i, q))),
                   ListCall("start", es[q - 1].value))
ListAtItem(es, q, st, c, k, i) ==
    \E s : \E key \in ListKeys(k) :
        /\ InList(es, i, s, key, q)
        /\ st = Append(Append(c, MapCall("key", k, Part(es, k, i, q))), ListCall("item", key))

\* or the value of a key that is not known.
SkipAtStart(es, q, st, c, k, i) ==
    /\ AtValue(es, i, q) /\ es[q - 1].value \notin ValueKeys(k) \cup ListKeys(k)
    /\ st = Append(Append(c, MapCall("key", k, Part(es, k, i, q))), SkipCall("start", 0))
SkipInside(es, q, st, c, k, i) ==
    \E v, t, d :
        /\ InSkip(es, i, v, t, d, q)
        /\ es[v - 1].value \notin ValueKeys(k) \cup ListKeys(k)
        /\ st = Append(Append(c, MapCall("key", k, Part(es, k, i, q))), SkipCall(t, d))

InReader(es, q, st, c, k, i) ==
    \/ MapAtStart(es, q, st, c, k, i) \/ MapAtKey(es, q, st, c, k, i)
    \/ MapAtValue(es, q, st, c, k, i) \/ ListAtStart(es, q, st, c, k, i)
    \/ ListAtItem(es, q, st, c, k, i) \/ SkipAtStart(es, q, st, c, k, i)
    \/ SkipInside(es, q, st, c, k, i)

Placed(es, kind, q, st) ==
    \/ Seeking(es, q, st) \/ Found(es, kind, q, st)
    \/ \E c, k, i : ReadBy(es, kind, c, k, i) /\ InReader(es, q, st, c, k, i)

-----------------------------------------------------------------------------
(* What is on the stack.                                                   *)

\* A call that is made is the innermost, and its callers are those before it.
LEMMA Pushed ==
    ASSUME NEW c, c \in Seq(Range(c)), NEW x
    PROVE  /\ Append(c, x) # <<>> /\ Last(Append(c, x)) = x /\ Front(Append(c, x)) = c
           /\ Append(c, x) \in Seq(Range(Append(c, x))) /\ Len(Append(c, x)) = Len(c) + 1
           /\ Len(c) \in Nat
<1> DEFINE F == Range(c) \cup {x}
           a == Append(c, x)
<1>1. Range(c) \subseteq F /\ x \in F
  OBVIOUS
<1>2. c \in Seq(F)
  BY <1>1
<1> HIDE DEF F
<1>3. a \in Seq(F) /\ Len(a) = Len(c) + 1 /\ a # <<>> /\ Last(a) = x /\ Front(a) = c
  BY <1>1, <1>2, Appended
<1> HIDE DEF a
<1>4. a \in Seq(Range(a))
  <2>1. Len(a) \in Nat /\ DOMAIN a = 1..Len(a) /\ a = [i \in 1..Len(a) |-> a[i]]
    BY <1>3
  <2>2. \A i \in 1..Len(a) : a[i] \in Range(a)
    BY <2>1 DEF Range
  <2> QED BY <2>1, <2>2, SeqDef
<1>5. Len(c) \in Nat
  BY <1>2
<1> QED BY <1>3, <1>4, <1>5 DEF a

\* Before the first call there is none.
LEMMA EmptyStack == <<>> \in Seq(Range(<<>>))
BY DEF Range

\* Up to three calls are one called after the other.
LEMMA Chains ==
    ASSUME NEW x
    PROVE  /\ <<x>> = Append(<<>>, x) /\ <<x>> \in Seq(Range(<<x>>))
           /\ \A y, z : <<x, y, z>> = Append(Append(<<x>>, y), z)
<1>1. <<x>> = Append(<<>>, x)
  OBVIOUS
<1>2. <<x>> \in Seq(Range(<<x>>))
  BY <1>1, EmptyStack, Pushed
<1> QED BY <1>1, <1>2

\* Whose mapping it is that is read, and of which kind.
LEMMA ReadByIs ==
    ASSUME NEW es, WellFormed(es), NEW kind \in {"project", "config"}, NEW c, NEW k, NEW i,
           ReadBy(es, kind, c, k, i)
    PROVE  /\ c \in Seq(Range(c)) /\ i \in 1..Len(es) /\ k \in Kinds
           /\ ListKeys(k) # {} => k = kind /\ FirstNode(es, i) /\ c = <<LoadCall(NULL)>>
           /\ Trusted(es, kind) /\ es[i].type = "mapping+" => ValuesFit(es, k, i)
<1>1. kind \in Kinds /\ Len(es) \in Nat
  BY FormedIs DEF Kinds
<1>2. CASE k = kind /\ FirstNode(es, i) /\ c = <<LoadCall(NULL)>>
  <2>1. c \in Seq(Range(c))
    BY <1>2, Chains
  <2>2. i \in 1..Len(es)
    BY <1>1, <1>2 DEF FirstNode
  <2> QED BY <1>1, <1>2, <2>1, <2>2 DEF Trusted
<1>3. ASSUME NEW r, NEW s, FirstNode(es, r), k \in ListKeys(kind),
             InList(es, r, s, k, i), i \in Children(es, s),
             c = <<LoadCall(NULL), MapCall("key", kind, Part(es, kind, r, i)), ListCall("item", k)>>
      PROVE  /\ c \in Seq(Range(c)) /\ i \in 1..Len(es) /\ k \in Kinds /\ ListKeys(k) = {}
             /\ Trusted(es, kind) /\ es[i].type = "mapping+" => ValuesFit(es, k, i)
  <2> DEFINE m == MapCall("key", kind, Part(es, kind, r, i))
  <2>1. c \in Seq(Range(c))
    <3>1. <<LoadCall(NULL)>> \in Seq(Range(<<LoadCall(NULL)>>))
      BY Chains
    <3> HIDE DEF m
    <3>2. Append(<<LoadCall(NULL)>>, m) \in Seq(Range(Append(<<LoadCall(NULL)>>, m)))
      BY <3>1, Pushed
    <3>3. c = Append(Append(<<LoadCall(NULL)>>, m), ListCall("item", k))
      BY <1>3, Chains DEF m
    <3> QED BY <3>2, <3>3, Pushed
  <2>2. i \in 1..Len(es)
    BY <1>3 DEF InList
  <2>3. k \in Kinds /\ ListKeys(k) = {}
    BY <1>3 DEF ListKeys, Kinds
  <2>4. AtValue(es, r, s) /\ es[s - 1].value = k /\ es[s].type = "sequence+"
    BY <1>3 DEF InList
  <2>5. InMapping(es, r, s) /\ s - 1 \in Keys(es, r)
    BY <2>4 DEF AtValue
  <2>6. es[r].type = "mapping+" /\ s \in 1..Len(es)
    BY <2>5, InMappingIs
  <2>7. (s - 1) + 1 = s
    BY <1>1, <2>6
  <2>8. Trusted(es, kind) /\ es[i].type = "mapping+" => ValuesFit(es, k, i)
    BY <1>3, <2>4, <2>5, <2>6, <2>7 DEF Trusted
  <2> QED BY <2>1, <2>2, <2>3, <2>8
<1> QED BY <1>2, <1>3 DEF ReadBy

\* Each reader is in one place.
LEMMA WhichPlace ==
    ASSUME NEW es, WellFormed(es), NEW kind \in {"project", "config"}, NEW q,
           Placed(es, kind, q, stack)
    PROVE  /\ stack # <<>>
           /\ Top.fn = "load" => Seeking(es, q, stack) \/ Found(es, kind, q, stack)
           /\ Top.fn # "load" =>
                \E c, k, i :
                    /\ ReadBy(es, kind, c, k, i)
                    /\ Top.fn = "mapping" /\ Top.at = "start" => MapAtStart(es, q, stack, c, k, i)
                    /\ Top.fn = "mapping" /\ Top.at = "key" => MapAtKey(es, q, stack, c, k, i)
                    /\ Top.fn = "mapping" /\ Top.at \notin {"start", "key"} =>
                           MapAtValue(es, q, stack, c, k, i)
                    /\ Top.fn = "list" /\ Top.at = "start" => ListAtStart(es, q, stack, c, k, i)
                    /\ Top.fn = "list" /\ Top.at = "item" => ListAtItem(es, q, stack, c, k, i)
                    /\ Top.fn = "skip" /\ Top.at = "start" => SkipAtStart(es, q, stack, c, k, i)
                    /\ Top.fn = "skip" /\ Top.at # "start" => SkipInside(es, q, stack, c, k, i)
<1>1. CASE Seeking(es, q, stack) \/ Found(es, kind, q, stack)
  <2>1. PICK o : stack = <<LoadCall(o)>>
    BY <1>1 DEF Seeking, Found
  <2>2. stack = Append(<<>>, LoadCall(o))
    BY <2>1, Chains
  <2>3. stack # <<>> /\ Top = LoadCall(o)
    BY <2>2, EmptyStack, Pushed DEF Top
  <2> QED BY <1>1, <2>3 DEF LoadCall
<1>2. ASSUME NEW c, NEW k, NEW i, ReadBy(es, kind, c, k, i), InReader(es, q, stack, c, k, i)
      PROVE  /\ stack # <<>> /\ Top.fn # "load"
             /\ Top.fn = "mapping" /\ Top.at = "start" => MapAtStart(es, q, stack, c, k, i)
             /\ Top.fn = "mapping" /\ Top.at = "key" => MapAtKey(es, q, stack, c, k, i)
             /\ Top.fn = "mapping" /\ Top.at \notin {"start", "key"} =>
                    MapAtValue(es, q, stack, c, k, i)
             /\ Top.fn = "list" /\ Top.at = "start" => ListAtStart(es, q, stack, c, k, i)
             /\ Top.fn = "list" /\ Top.at = "item" => ListAtItem(es, q, stack, c, k, i)
             /\ Top.fn = "skip" /\ Top.at = "start" => SkipAtStart(es, q, stack, c, k, i)
             /\ Top.fn = "skip" /\ Top.at # "start" => SkipInside(es, q, stack, c, k, i)
  <2>1. c \in Seq(Range(c)) /\ k \in Kinds
    BY <1>2, ReadByIs
  <2>2. \A x : Append(c, x) # <<>> /\ Last(Append(c, x)) = x
    BY <2>1, Pushed
  <2>3. \A x, y : Append(Append(c, x), y) # <<>> /\ Last(Append(Append(c, x), y)) = y
    BY <2>1, Pushed
  <2>4. CASE MapAtStart(es, q, stack, c, k, i)
    <3>1. stack # <<>> /\ Top = MapCall("start", k, Empty(k))
      BY <2>2, <2>4 DEF MapAtStart, Top
    <3>2. Top.fn = "mapping" /\ Top.at = "start"
      BY <3>1 DEF MapCall
    <3> QED BY <2>4, <3>1, <3>2
  <2>5. CASE MapAtKey(es, q, stack, c, k, i)
    <3>1. stack # <<>> /\ Top = MapCall("key", k, Part(es, k, i, q))
      BY <2>2, <2>5 DEF MapAtKey, Top
    <3>2. Top.fn = "mapping" /\ Top.at = "key"
      BY <3>1 DEF MapCall
    <3> QED BY <2>5, <3>1, <3>2
  <2>6. CASE MapAtValue(es, q, stack, c, k, i)
    <3>1. stack # <<>> /\ Top = MapCall(es[q - 1].value, k, Part(es, k, i, q - 1))
      BY <2>2, <2>6 DEF MapAtValue, Top
    <3>2. Top.fn = "mapping" /\ Top.at \in ValueKeys(k)
      BY <2>6, <3>1 DEF MapCall, MapAtValue
    <3>3. Top.at \notin {"start", "key"}
      BY <2>1, <3>2, KeysApart
    <3> QED BY <2>6, <3>1, <3>2, <3>3
  <2>7. CASE ListAtStart(es, q, stack, c, k, i)
    <3>1. stack # <<>> /\ Top = ListCall("start", es[q - 1].value)
      BY <2>3, <2>7 DEF ListAtStart, Top
    <3>2. Top.fn = "list" /\ Top.at = "start"
      BY <3>1 DEF ListCall
    <3> QED BY <2>7, <3>1, <3>2
  <2>8. CASE ListAtItem(es, q, stack, c, k, i)
    <3>1. PICK key : stack = Append(Append(c, MapCall("key", k, Part(es, k, i, q))),
                                   ListCall("item", key))
      BY <2>8 DEF ListAtItem
    <3>2. stack # <<>> /\ Top = ListCall("item", key)
      BY <2>3, <3>1 DEF Top
    <3>3. Top.fn = "list" /\ Top.at = "item"
      BY <3>2 DEF ListCall
    <3> QED BY <2>8, <3>2, <3>3
  <2>9. CASE SkipAtStart(es, q, stack, c, k, i)
    <3>1. stack # <<>> /\ Top = SkipCall("start", 0)
      BY <2>3, <2>9 DEF SkipAtStart, Top
    <3>2. Top.fn = "skip" /\ Top.at = "start"
      BY <3>1 DEF SkipCall
    <3> QED BY <2>9, <3>1, <3>2
  <2>10. CASE SkipInside(es, q, stack, c, k, i)
    <3>1. PICK t, d :
            /\ t \in Starts
            /\ stack = Append(Append(c, MapCall("key", k, Part(es, k, i, q))), SkipCall(t, d))
      BY <2>10 DEF SkipInside, InSkip
    <3>2. stack # <<>> /\ Top = SkipCall(t, d)
      BY <2>3, <3>1 DEF Top
    <3>3. Top.fn = "skip" /\ Top.at # "start"
      BY <3>1, <3>2 DEF SkipCall, Starts
    <3> QED BY <2>10, <3>2, <3>3
  <2> QED BY <1>2, <2>4, <2>5, <2>6, <2>7, <2>8, <2>9, <2>10 DEF InReader
<1> QED BY <1>1, <1>2 DEF Placed
-----------------------------------------------------------------------------
(* What each reader does with its event.                                   *)

\* A call goes on.
LEMMA MapOn ==
    ASSUME NEW a, NEW at, NEW k, NEW o, a = MapCall(at, k, o), NEW b
    PROVE  [a EXCEPT !.at = b] = MapCall(b, k, o)
BY DEF MapCall

\* A mapping's reader with another object,
LEMMA MapWith ==
    ASSUME NEW a, NEW at, NEW k, NEW o, a = MapCall(at, k, o), NEW n
    PROVE  [a EXCEPT !.obj = n] = MapCall(at, k, n)
BY DEF MapCall

\* one that skips from another place,
LEMMA SkipOn ==
    ASSUME NEW a, NEW at, NEW d, a = SkipCall(at, d), NEW b
    PROVE  [a EXCEPT !.at = b] = SkipCall(b, d)
BY DEF SkipCall

\* and one that has counted another depth.
LEMMA SkipWith ==
    ASSUME NEW a, NEW at, NEW d, a = SkipCall(at, d), NEW n
    PROVE  [a EXCEPT !.deep = n] = SkipCall(at, n)
BY DEF SkipCall

\* A mapping that starts is read up to its first key.
LEMMA StartsMapping ==
    ASSUME NEW es, WellFormed(es), NEW c, c \in Seq(Range(c)), NEW k, NEW i \in 1..Len(es),
           NEW st, MapAtStart(es, i, st, c, k, i), es[i].type = "mapping+"
    PROVE  MapAtKey(es, i + 1, Append(Front(st), [Last(st) EXCEPT !.at = "key"]), c, k, i)
<1>1. /\ Len(es) \in Nat /\ i + 1 \in 1..Len(es) + 1 /\ i \in 1..Len(es) + 1
      /\ (i + 1) - 1 = i /\ "mapping+" \in Starts
  BY FormedIs DEF Starts
<1>2. /\ Inside(es)[i + 1] = Append(Inside(es)[i], i) /\ Held(es, i, i + 1)
      /\ Level(es, i + 1) = Level(es, i) + 1
  BY <1>1, HeldFirst
<1>3. Inside(es)[i + 1] # <<>>
  <2>1. Inside(es)[i] \in Seq(1..Len(es))
    BY <1>1, InsideNests DEF Nest
  <2> QED BY <1>2, <2>1, Appended
<1>4. i + 1 \in 1..Len(es)
  BY <1>3, Room
<1>5. {j \in Children(es, i) : j < i + 1} = {}
  <2>1. \A j \in Children(es, i) : j \in 1..Len(es) /\ i < j
    BY ChildIs
  <2> QED BY <1>1, <2>1
<1>6. AtKey(es, i, i + 1)
  <2>1. Count(es, i, i + 1) = 0
    BY <1>5, FS_EmptySet DEF Count
  <2> QED BY <1>2, <1>4, <2>1 DEF AtKey, InMapping
<1>7. Part(es, k, i, i + 1) = Empty(k)
  <2>1. KeysTo(es, i, i + 1) = {}
    BY <1>5 DEF KeysTo, Keys
  <2>2. ValuesOf(es, k, {}) = [key \in ValueKeys(k) |-> Given(key, NoEvent)]
    BY Zenon DEF ValuesOf
  <2>3. ASSUME NEW key PROVE ItemsTo(es, i, key)[(i + 1) - 1] = <<>>
    <3>1. ASSUME NEW n \in 0 + 1..i PROVE n \notin ItemPlaces(es, i, key)
      <4>1. SUFFICES ASSUME n \in ItemPlaces(es, i, key) PROVE FALSE
        OBVIOUS
      <4>2. PICK j \in Keys(es, i) : n \in Children(es, j + 1)
        BY <4>1, PlaceIs
      <4>3. j \in 1..Len(es) /\ i < j /\ j + 1 < n
        BY <4>2, KeyIs, ChildIs
      <4> QED BY <1>1, <4>3
    <3>2. ItemsTo(es, i, key)[i] = ItemsTo(es, i, key)[0]
      <4>1. 0 \in Nat /\ i \in Nat /\ 0 <= i /\ i <= Len(es)
        BY <1>1
      <4> QED BY <1>1, <3>1, <4>1, ItemsSame
    <3> QED BY <1>1, <3>2, ItemsNext
  <2> QED BY <2>1, <2>2, <2>3 DEF Part, Empty
<1>8. Front(st) = c /\ Last(st) = MapCall("start", k, Empty(k))
  BY Pushed DEF MapAtStart
<1>9. [Last(st) EXCEPT !.at = "key"] = MapCall("key", k, Part(es, k, i, i + 1))
  <2> DEFINE a == Last(st)
  <2>1. [a EXCEPT !.at = "key"] = MapCall("key", k, Empty(k))
    <3>1. a = MapCall("start", k, Empty(k))
      BY <1>8
    <3> HIDE DEF a
    <3> QED BY <3>1, MapOn
  <2> QED BY <1>7, <2>1
<1> QED BY <1>6, <1>8, <1>9 DEF MapAtKey

\* What follows a key stands behind it; the object is as it was.
LEMMA KeyRead ==
    ASSUME NEW es, WellFormed(es), NEW k, NEW i, NEW q, AtKey(es, i, q),
           ValuesFit(es, k, i), es[q].type = "scalar"
    PROVE  /\ AtValue(es, i, q + 1) /\ (q + 1) - 1 = q
           /\ es[q].value \notin ValueKeys(k) => Part(es, k, i, q + 1) = Part(es, k, i, q)
<1>1. q \in Keys(es, i) /\ AtValue(es, i, q + 1)
  BY KeyEvents
<1>2. Len(es) \in Nat /\ q \in 1..Len(es)
  BY InMappingIs DEF AtKey
<1>3. q + 1 \in 1..Len(es) + 1 /\ q \in 1..Len(es) + 1 /\ (q + 1) - 1 = q /\ q <= q + 1
  BY <1>2
<1>4. ASSUME es[q].value \notin ValueKeys(k) PROVE Part(es, k, i, q + 1) = Part(es, k, i, q)
  <2>1. q \in Children(es, i)
    BY <1>1, KeyIs
  <2>2. \A key : q \notin ItemPlaces(es, i, key)
    BY <2>1, PlaceIs
  <2>3. \A n \in q..(q + 1) - 1 : n = q
    BY <1>2
  <2> QED BY <1>3, <1>4, <2>2, <2>3, PartSame
<1> QED BY <1>1, <1>3, <1>4

\* A scalar that is a value, of a mapping,
LEMMA ReadsValue ==
    ASSUME NEW es, WellFormed(es), NEW c, c \in Seq(Range(c)), NEW k \in Kinds, NEW i, NEW q,
           NEW st, MapAtValue(es, q, st, c, k, i), es[q].type = "scalar"
    PROVE  LET v == es[q - 1].value IN
           MapAtKey(es, q + 1,
                    Append(Front(st), [Last(st) EXCEPT !.at = "key",
                                                       !.obj.values[v] = Given(v, es[q])]),
                    c, k, i)
<1> DEFINE v == es[q - 1].value
           o == Part(es, k, i, q - 1)
<1>1. AtValue(es, i, q) /\ v \in ValueKeys(k)
  BY DEF MapAtValue
<1>2. AtKey(es, i, q + 1)
  BY <1>1, LeafRead
<1>3. q \in Children(es, i)
  BY <1>1, ValueEvents
<1>4. Part(es, k, i, q + 1) = [o EXCEPT !.values[v] = Given(v, es[q])]
  BY <1>1, <1>3, PartValue
<1>5. Front(st) = c /\ Last(st) = MapCall(v, k, o)
  BY Pushed DEF MapAtValue
<1> HIDE DEF v, o
<1>6. [Last(st) EXCEPT !.at = "key", !.obj.values[v] = Given(v, es[q])]
          = MapCall("key", k, [o EXCEPT !.values[v] = Given(v, es[q])])
  <2> DEFINE a == Last(st)
             g == Given(v, es[q])
             n == [o EXCEPT !.values[v] = g]
  <2>1. a.obj = o
    BY <1>5 DEF MapCall
  <2>2. [a EXCEPT !.at = "key", !.obj.values[v] = g] = [a EXCEPT !.at = "key", !.obj = n]
    BY <2>1, Zenon
  <2> HIDE DEF n, g
  <2>3. [a EXCEPT !.at = "key", !.obj = n] = MapCall("key", k, n)
    <3>1. a = MapCall(v, k, o)
      BY <1>5
    <3> DEFINE b == [a EXCEPT !.at = "key"]
    <3>2. [a EXCEPT !.at = "key", !.obj = n] = [b EXCEPT !.obj = n]
      BY Zenon
    <3> HIDE DEF a
    <3>3. b = MapCall("key", k, o)
      BY <3>1, MapOn
    <3> HIDE DEF b
    <3>4. [b EXCEPT !.obj = n] = MapCall("key", k, n)
      BY <3>3, MapWith
    <3> QED BY <3>2, <3>4
  <2> QED BY <2>2, <2>3 DEF n, g
<1> QED BY <1>2, <1>4, <1>5, <1>6 DEF MapAtKey, v
\* A list that starts is read up to its first item.
LEMMA StartsList ==
    ASSUME NEW es, WellFormed(es), NEW c, c \in Seq(Range(c)), NEW k \in Kinds, NEW i, NEW q,
           NEW st, ListAtStart(es, q, st, c, k, i), es[q].type = "sequence+"
    PROVE  ListAtItem(es, q + 1, Append(Front(st), [Last(st) EXCEPT !.at = "item"]), c, k, i)
<1> DEFINE key == es[q - 1].value
           P(n) == Part(es, k, i, n)
<1>1. AtValue(es, i, q) /\ key \in ListKeys(k) /\ "sequence+" \in Starts
  BY DEF ListAtStart, Starts
<1>2. /\ q \in 1..Len(es) /\ q + 1 \in 1..Len(es) + 1 /\ q \in 1..Len(es) + 1
      /\ Len(es) \in Nat /\ q <= q + 1
  BY <1>1, InMappingIs DEF AtValue
<1>3. Inside(es)[q + 1] = Append(Inside(es)[q], q) /\ Held(es, q, q + 1)
  BY <1>1, <1>2, HeldFirst
<1>4. q + 1 \in 1..Len(es)
  <2>1. Inside(es)[q] \in Seq(1..Len(es))
    BY <1>2, InsideNests DEF Nest
  <2>2. Inside(es)[q + 1] # <<>>
    BY <1>2, <1>3, <2>1, Appended
  <2> QED BY <1>2, <2>2, Room
<1>5. InList(es, i, q, key, q + 1)
  BY <1>1, <1>3, <1>4 DEF InList
<1>6. P(q + 1) = P(q)
  <2>1. q \in Children(es, i) /\ q \notin Keys(es, i)
    BY <1>1, ValueEvents
  <2>2. \A l : q \notin ItemPlaces(es, i, l)
    BY <2>1, PlaceIs
  <2>3. \A n \in q..(q + 1) - 1 : n = q
    BY <1>2
  <2> QED BY <1>2, <2>1, <2>2, <2>3, PartSame
<1>7. /\ Front(st) = Append(c, MapCall("key", k, P(q)))
      /\ Last(st) = ListCall("start", key)
  BY Pushed DEF ListAtStart
<1>8. [Last(st) EXCEPT !.at = "item"] = ListCall("item", key)
  BY <1>7 DEF ListCall
<1> HIDE DEF key
<1> QED BY <1>1, <1>5, <1>6, <1>7, <1>8 DEF ListAtItem

\* What ends a value of mapping i, and is neither a key nor an item, leaves the
\* object as it was.
LEMMA EndRead ==
    ASSUME NEW es, WellFormed(es), NEW k, NEW i, NEW q \in 1..Len(es),
           es[q].type \in Ends
    PROVE  Part(es, k, i, q + 1) = Part(es, k, i, q)
<1>1. /\ q + 1 \in 1..Len(es) + 1 /\ q \in 1..Len(es) + 1
      /\ Len(es) \in Nat /\ q <= q + 1
  BY FormedIs
<1>2. q \notin Nodes(es)
  BY DEF Nodes, Ends, EndOf, Starts
<1>3. q \notin Keys(es, i) /\ \A l : q \notin ItemPlaces(es, i, l)
  BY <1>2, KeyIs, PlaceIs
<1>4. \A n \in q..(q + 1) - 1 : n = q
  BY <1>1
<1> QED BY <1>1, <1>3, <1>4, PartSame

\* A list that ends gives the word to the reader of its mapping.
LEMMA EndsList ==
    ASSUME NEW es, WellFormed(es), NEW c, c \in Seq(Range(c)), NEW k \in Kinds, NEW i, NEW q,
           NEW st, ListAtItem(es, q, st, c, k, i), es[q].type = "sequence-"
    PROVE  MapAtKey(es, q + 1, Front(st), c, k, i)
<1>1. PICK s, key :
        /\ key \in ListKeys(k) /\ InList(es, i, s, key, q)
        /\ st = Append(Append(c, MapCall("key", k, Part(es, k, i, q))), ListCall("item", key))
  BY DEF ListAtItem
<1>2. /\ AtValue(es, i, s) /\ es[s].type = "sequence+" /\ q \in 1..Len(es)
      /\ Inside(es)[q] = Append(Inside(es)[s], s) /\ Held(es, s, q)
  BY <1>1 DEF InList
<1>3. s \in 1..Len(es) /\ Len(es) \in Nat /\ s \in 1..Len(es) + 1
  BY <1>2, InMappingIs DEF AtValue
<1>4. "sequence-" \in Ends
  BY DEF Ends, EndOf, Starts
<1>5. Inside(es)[q + 1] = Inside(es)[s]
  <2>1. Inside(es)[s] \in Seq(1..Len(es))
    BY <1>3, InsideNests DEF Nest
  <2>2. Front(Inside(es)[q]) = Inside(es)[s]
    BY <1>2, <1>3, <2>1, Appended
  <2>3. Inside(es)[q + 1] = Front(Inside(es)[q])
    BY <1>2, <1>3, <1>4, InsideNext
  <2> QED BY <2>2, <2>3
<1>6. AtKey(es, i, q + 1)
  BY <1>2, <1>5, ValueEnds
<1>7. Part(es, k, i, q + 1) = Part(es, k, i, q)
  BY <1>2, <1>4, EndRead
<1>8. Front(st) = Append(c, MapCall("key", k, Part(es, k, i, q)))
  BY <1>1, Pushed
<1> QED BY <1>6, <1>7, <1>8 DEF MapAtKey

\* An item is read as a mapping of its own.
LEMMA StartsItem ==
    ASSUME NEW es, WellFormed(es), NEW kind \in {"project", "config"}, NEW c, NEW k, NEW i,
           ReadBy(es, kind, c, k, i), NEW q, NEW st, ListAtItem(es, q, st, c, k, i),
           es[q].type \notin {"sequence-", "error"}
    PROVE  LET l == Last(st).key IN
           ReadBy(es, kind, st, l, q) /\ MapAtStart(es, q, Append(st, Mapping(l)), st, l, q)
<1>1. PICK s, key :
        /\ key \in ListKeys(k) /\ InList(es, i, s, key, q)
        /\ st = Append(Append(c, MapCall("key", k, Part(es, k, i, q))), ListCall("item", key))
  BY DEF ListAtItem
<1>2. /\ AtValue(es, i, s) /\ es[s].type = "sequence+" /\ q \in 1..Len(es)
      /\ Inside(es)[q] = Append(Inside(es)[s], s)
  BY <1>1 DEF InList
<1>3. InMapping(es, i, s) /\ s \in 1..Len(es) /\ Len(es) \in Nat /\ s \in 1..Len(es) + 1
  BY <1>2, InMappingIs DEF AtValue
<1>4. q \in Children(es, s)
  <2>1. Inside(es)[s] \in Seq(1..Len(es))
    BY <1>3, InsideNests DEF Nest
  <2>2. Last(Inside(es)[q]) = s /\ Level(es, q) = Level(es, s) + 1
    BY <1>2, <1>3, <2>1, Appended DEF Level
  <2>3. Level(es, s) > 2 /\ Level(es, s) \in Nat
    BY <1>3, <2>1, InMappingIs DEF Level
  <2>4. Level(es, q) > 2 /\ EndOf("sequence+") = "sequence-"
    BY <2>2, <2>3 DEF EndOf
  <2> QED BY <1>2, <2>2, <2>4, Within
<1>5. k = kind /\ FirstNode(es, i) /\ c = <<LoadCall(NULL)>>
  BY <1>1, ReadByIs
<1>6. Last(st) = ListCall("item", key)
  <2>1. c \in Seq(Range(c))
    BY ReadByIs
  <2> QED BY <1>1, <2>1, Pushed
<1>7. Last(st).key = key
  BY <1>6 DEF ListCall
<1>8. st = <<LoadCall(NULL), MapCall("key", kind, Part(es, kind, i, q)), ListCall("item", key)>>
  <2> DEFINE m == MapCall("key", k, Part(es, k, i, q))
             n == ListCall("item", key)
  <2>1. st = Append(Append(<<LoadCall(NULL)>>, m), n)
    BY <1>1, <1>5
  <2> HIDE DEF m, n
  <2>2. <<LoadCall(NULL), m, n>> = Append(Append(<<LoadCall(NULL)>>, m), n)
    BY Chains
  <2> QED BY <1>5, <2>1, <2>2 DEF m, n
<1>9. ReadBy(es, kind, st, key, q)
  BY <1>1, <1>4, <1>5, <1>8 DEF ReadBy
<1>10. MapAtStart(es, q, Append(st, Mapping(key)), st, key, q)
  BY DEF MapAtStart, Mapping, MapCall
<1> QED BY <1>7, <1>9, <1>10
\* The mapping that a document is has been read when it ends,
LEMMA EndsFirst ==
    ASSUME NEW es, WellFormed(es), NEW kind, NEW i, FirstNode(es, i), NEW q,
           NEW st, MapAtKey(es, q, st, <<LoadCall(NULL)>>, kind, i), es[q].type = "mapping-"
    PROVE  /\ Last(Front(st)).fn = "load"
           /\ Found(es, kind, q + 1, <<[Last(Front(st)) EXCEPT !.obj = Last(st).obj]>>)
<1>1. AtKey(es, i, q) /\ st = Append(<<LoadCall(NULL)>>, MapCall("key", kind, Part(es, kind, i, q)))
  BY DEF MapAtKey
<1>2. InMapping(es, i, q) /\ MappingClosed(es, i, q)
  BY <1>1 DEF AtKey, MappingClosed
<1>3. /\ q \in 1..Len(es) /\ Len(es) \in Nat /\ Inside(es)[q + 1] = Inside(es)[i]
      /\ es[i].type = "mapping+" /\ i \in 1..Len(es) /\ (q + 1) - 1 = q
      /\ i \in 1..Len(es) + 1
  BY <1>2, ClosedIs, InMappingIs
<1>4. q + 1 \in 1..Len(es)
  <2>1. Level(es, i) + 1 > 2 /\ Level(es, i) \in Nat
    BY <1>2, InMappingIs
  <2>2. Nest(es, Inside(es)[i], i)
    BY <1>3, InsideNests
  <2>3. Inside(es)[q + 1] # <<>>
    BY <1>3, <2>1, <2>2, LastOpen DEF Level
  <2> QED BY <1>3, <2>3, Room
<1>5. Front(st) = <<LoadCall(NULL)>> /\ Last(st) = MapCall("key", kind, Part(es, kind, i, q))
  <2>1. <<LoadCall(NULL)>> \in Seq(Range(<<LoadCall(NULL)>>))
    BY Chains
  <2> QED BY <1>1, <2>1, Pushed
<1>6. Last(Front(st)) = LoadCall(NULL)
  <2>1. <<LoadCall(NULL)>> = Append(<<>>, LoadCall(NULL))
    BY Chains
  <2>2. Last(Append(<<>>, LoadCall(NULL))) = LoadCall(NULL)
    BY EmptyStack, Pushed
  <2> QED BY <1>5, <2>1, <2>2
<1>7. Last(st).obj = Meaning(es, kind, i)
  BY <1>2, <1>5, WholeRead DEF MapCall
<1>8. /\ Last(Front(st)).fn = "load"
      /\ [Last(Front(st)) EXCEPT !.obj = Last(st).obj] = LoadCall(Meaning(es, kind, i))
  BY <1>6, <1>7 DEF LoadCall
<1> QED BY <1>3, <1>4, <1>8 DEF Found

\* and an item has been when it does: it is the last one of its list then.
Handed(st) ==
    [Front(st) EXCEPT ![Len(st) - 2].obj.lists[Last(Front(st)).key] =
        Append(@, Last(st).obj.values)]

\* An item whose mapping ends joins its list.
LEMMA EndsItem ==
    ASSUME NEW es, WellFormed(es), NEW kind \in {"project", "config"}, NEW k, NEW i,
           NEW r, NEW s, FirstNode(es, r), k \in ListKeys(kind),
           InList(es, r, s, k, i), i \in Children(es, s), NEW c,
           c = <<LoadCall(NULL), MapCall("key", kind, Part(es, kind, r, i)), ListCall("item", k)>>,
           NEW q, NEW st, MapAtKey(es, q, st, c, k, i), es[q].type = "mapping-"
    PROVE  /\ Last(Front(st)).fn # "load"
           /\ ListAtItem(es, q + 1, Handed(st), <<LoadCall(NULL)>>, kind, r)
<1> DEFINE P == Part(es, kind, r, i)
           v == Values(es, k, i)
           N == [P EXCEPT !.lists[k] = Append(P.lists[k], v)]
           o == LoadCall(NULL)
           m == MapCall("key", kind, P)
           l == ListCall("item", k)
<1>1. AtKey(es, i, q) /\ st = Append(c, MapCall("key", k, Part(es, k, i, q)))
  BY DEF MapAtKey
<1>2. InMapping(es, i, q) /\ MappingClosed(es, i, q)
  BY <1>1 DEF AtKey, MappingClosed
<1>3. /\ q \in 1..Len(es) /\ Len(es) \in Nat /\ Inside(es)[q + 1] = Inside(es)[i]
      /\ i \in 1..Len(es) /\ i < q
      /\ q \in 1..Len(es) + 1 /\ q + 1 \in 1..Len(es) + 1
  BY <1>2, ClosedIs
<1>4. /\ AtValue(es, r, s) /\ es[s - 1].value = k /\ es[s].type = "sequence+"
      /\ Inside(es)[i] = Append(Inside(es)[s], s) /\ Held(es, s, i)
  BY DEF InList
<1>5. s \in 1..Len(es) /\ s \in 1..Len(es) + 1 /\ s \in Nat /\ i \in Nat
  <2>1. s \in 1..Len(es)
    BY <1>4, InMappingIs DEF AtValue
  <2> QED BY <1>3, <2>1
<1>6. /\ Level(es, q + 1) \in 1..Level(es, q + 1) /\ Inside(es)[q + 1][Level(es, q + 1)] = s
      /\ Inside(es)[q + 1] # <<>>
  <2>1. Inside(es)[s] \in Seq(1..Len(es))
    BY <1>5, InsideNests DEF Nest
  <2>2. Inside(es)[q + 1] = Append(Inside(es)[s], s)
    BY <1>3, <1>4
  <2>3. /\ Append(Inside(es)[s], s) \in Seq(1..Len(es)) /\ Append(Inside(es)[s], s) # <<>>
        /\ Last(Append(Inside(es)[s], s)) = s
    BY <1>5, <2>1, Appended
  <2> QED BY <2>2, <2>3, Fronted DEF Level
<1>7. Held(es, s, q + 1)
  <2>1. s <= i /\ Held(es, i, q)
    BY <1>2, <1>4, <1>5 DEF Held, InMapping
  <2>2. Held(es, s, q)
    BY <1>3, <1>4, <1>5, <2>1, HeldOn
  <2>3. s <= s
    BY <1>5
  <2> QED BY <1>3, <1>5, <1>6, <2>2, <2>3, HeldNext
<1>8. q + 1 \in 1..Len(es)
  <2>1. es[q].type # "error"
    OBVIOUS
  <2> QED BY <1>3, <1>6, <2>1, Room
<1>9. InList(es, r, s, k, q + 1)
  BY <1>3, <1>4, <1>7, <1>8 DEF InList
<1>10. Part(es, kind, r, q + 1) = N
  <2>1. Part(es, kind, r, q + 1) = WithItem(P, k, v)
    BY <1>2, <1>4, PartItem
  <2> QED BY <2>1, Zenon DEF WithItem
<1>11. Part(es, k, i, q).values = v
  BY <1>2, ValuesRead
<1>12. c = Append(Append(<<o>>, m), l) /\ Len(c) = 3 /\ c[2] = m /\ DOMAIN c = 1..3
       /\ c = <<o, m, l>>
  BY Chains
<1>13. c \in Seq(Range(c))
  <2> HIDE DEF o, m, l
  <2>1. <<o>> \in Seq(Range(<<o>>))
    BY Chains
  <2>2. Append(<<o>>, m) \in Seq(Range(Append(<<o>>, m)))
    BY <2>1, Pushed
  <2> QED BY <1>12, <2>2, Pushed
<1>14. Last(c) = l
  <2> HIDE DEF o, m, l
  <2>1. <<o>> \in Seq(Range(<<o>>))
    BY Chains
  <2>2. Append(<<o>>, m) \in Seq(Range(Append(<<o>>, m)))
    BY <2>1, Pushed
  <2> QED BY <1>12, <2>2, Pushed
<1>15. Front(st) = c /\ Last(st).obj.values = v /\ Len(st) - 2 = 2
  <2>1. /\ Front(st) = c /\ Last(st) = MapCall("key", k, Part(es, k, i, q))
        /\ Len(st) = Len(c) + 1
    BY <1>1, <1>13, Pushed
  <2> QED BY <1>11, <1>12, <2>1 DEF MapCall
<1>16. Last(Front(st)).fn = "list" /\ Last(Front(st)).key = k
  BY <1>14, <1>15 DEF ListCall
<1>17. [c EXCEPT ![2].obj.lists[k] = Append(c[2].obj.lists[k], v)] =
           Append(Append(<<o>>, MapCall("key", kind, N)), l)
  <2> DEFINE n == [m EXCEPT !.obj = N]
  <2>1. m.obj = P
    BY DEF MapCall
  <2>2. [c EXCEPT ![2].obj.lists[k] = Append(c[2].obj.lists[k], v)] = [c EXCEPT ![2] = n]
    BY <1>12, <2>1, Zenon
  <2> HIDE DEF N
  <2>3. n = MapCall("key", kind, N)
    BY MapWith
  <2> HIDE DEF n, o, m, l
  <2>4. [c EXCEPT ![2] = n] = <<o, n, l>>
    BY <1>12
  <2>5. <<o, n, l>> = Append(Append(<<o>>, n), l)
    BY Chains
  <2> QED BY <2>2, <2>3, <2>4, <2>5
<1> HIDE DEF P, v, N, m
<1>18. [Front(st) EXCEPT ![Len(st) - 2].obj.lists[Last(Front(st)).key] =
            Append(Front(st)[Len(st) - 2].obj.lists[Last(Front(st)).key], Last(st).obj.values)]
         = Append(Append(<<o>>, MapCall("key", kind, N)), l)
  BY <1>15, <1>16, <1>17
<1> QED BY <1>9, <1>10, <1>16, <1>18 DEF ListAtItem, Handed
\* A value that is skipped: what is open in it,
LEMMA InSkipIs ==
    ASSUME NEW es, WellFormed(es), NEW i, NEW v, NEW t, NEW d, NEW q, InSkip(es, i, v, t, d, q)
    PROVE  LET x == Inside(es)[q] IN
           /\ v \in 1..Len(es) /\ Len(es) \in Nat /\ q \in 1..Len(es) /\ v < q /\ i < v
           /\ i \in 1..Len(es) /\ v > 1
           /\ x \in Seq(1..Len(es)) /\ x # <<>> /\ Len(x) \in Nat /\ Level(es, v) \in Nat
           /\ Len(x) >= Level(es, v) + 1 /\ Last(x) = x[Len(x)]
           /\ Last(x) \in 1..Len(es) /\ Last(x) >= v /\ es[Last(x)].type \in Starts
           /\ IsFiniteSet(OpenOf(es, v, t, x)) /\ d \in Nat
<1> DEFINE x == Inside(es)[q]
<1>1. /\ AtValue(es, i, v) /\ Held(es, v, q) /\ q \in 1..Len(es)
      /\ Level(es, q) > Level(es, v) /\ d = Cardinality(OpenOf(es, v, t, x))
  BY DEF InSkip
<1>2. InMapping(es, i, v)
  BY <1>1 DEF AtValue
<1>3. v \in 1..Len(es) /\ Len(es) \in Nat /\ i < v /\ i \in 1..Len(es)
  BY <1>2, InMappingIs
<1>4. v < q /\ q \in v + 1..q
  BY <1>1, <1>3 DEF Held
<1>5. Level(es, q) > 0 /\ Last(x) >= v
  BY <1>1, <1>4 DEF Held
<1>6. v \in 1..Len(es) + 1 /\ q \in 1..Len(es) + 1 /\ v > 1
  BY <1>1, <1>3
<1>7. Nest(es, x, q) /\ Nest(es, Inside(es)[v], v)
  BY <1>6, InsideNests
<1>8. /\ x \in Seq(1..Len(es)) /\ Len(x) \in Nat /\ Level(es, v) \in Nat
      /\ Len(x) = Level(es, q)
  BY <1>3, <1>7 DEF Nest, Level
<1>9. x # <<>>
  BY <1>3, <1>5, <1>6, <1>7, <1>8, LastOpen
<1>10. Last(x) = x[Len(x)] /\ Last(x) \in 1..Len(es) /\ es[Last(x)].type \in Starts
  BY <1>3, <1>6, <1>7, <1>9, LastOpen
<1>11. IsFiniteSet(OpenOf(es, v, t, x))
  <2>1. Level(es, v) + 1 \in Int /\ Len(x) \in Int
    BY <1>8
  <2>2. IsFiniteSet(Level(es, v) + 1..Len(x))
    BY <2>1, FS_Interval
  <2>3. OpenOf(es, v, t, x) \subseteq Level(es, v) + 1..Len(x)
    BY DEF OpenOf
  <2> QED BY <2>2, <2>3, FS_Subset
<1>12. d \in Nat
  BY <1>1, <1>11, FS_CardinalityType
<1> HIDE DEF x
<1> QED BY <1>1, <1>3, <1>4, <1>5, <1>6, <1>8, <1>9, <1>10, <1>11, <1>12 DEF x

\* and what becomes of it with the next event,
LEMMA OpenNext ==
    ASSUME NEW es, WellFormed(es), NEW i, NEW v, NEW t, NEW d, NEW q, InSkip(es, i, v, t, d, q)
    PROVE  LET x == Inside(es)[q]
               y == Inside(es)[q + 1]
           IN  /\ es[q].type \in Starts =>
                    /\ y \in Seq(1..Len(es)) /\ Len(y) = Len(x) + 1 /\ y[Len(x) + 1] = q
                    /\ \A n \in 1..Len(x) : y[n] = x[n]
               /\ es[q].type \in Ends =>
                    /\ y \in Seq(1..Len(es)) /\ Len(y) = Len(x) - 1
                    /\ \A n \in 1..Len(x) - 1 : y[n] = x[n]
                    /\ es[q].type = EndOf(es[Last(x)].type)
               /\ es[q].type \notin Starts \cup Ends => y = x
<1> DEFINE x == Inside(es)[q]
           y == Inside(es)[q + 1]
<1>1. /\ Len(es) \in Nat /\ q \in 1..Len(es) /\ x \in Seq(1..Len(es)) /\ x # <<>>
      /\ Len(x) \in Nat /\ EndsMatch(es) /\ DOMAIN es = 1..Len(es)
  BY InSkipIs, FormedIs
<1>2. /\ es[q].type \in Starts => y = Append(x, q)
      /\ es[q].type \in Ends => y = Front(x)
      /\ es[q].type \notin Starts \cup Ends => y = x
  BY <1>1, InsideNext
<1>3. es[q].type \in Ends => es[q].type = EndOf(es[Last(x)].type)
  BY <1>1 DEF EndsMatch
<1> HIDE DEF x, y
<1>4. ASSUME es[q].type \in Starts
      PROVE  /\ y \in Seq(1..Len(es)) /\ Len(y) = Len(x) + 1 /\ y[Len(x) + 1] = q
             /\ \A n \in 1..Len(x) : y[n] = x[n]
  <2>1. y = Append(x, q)
    BY <1>2, <1>4
  <2>2. /\ Append(x, q) \in Seq(1..Len(es)) /\ Len(Append(x, q)) = Len(x) + 1
        /\ Append(x, q)[Len(x) + 1] = q
        /\ \A n \in 1..Len(x) : Append(x, q)[n] = x[n]
    BY <1>1
  <2> QED BY <2>1, <2>2
<1>5. ASSUME es[q].type \in Ends
      PROVE  /\ y \in Seq(1..Len(es)) /\ Len(y) = Len(x) - 1
             /\ \A n \in 1..Len(x) - 1 : y[n] = x[n]
  <2>1. y = Front(x)
    BY <1>2, <1>5
  <2> QED BY <1>1, <2>1, Fronted
<1> QED BY <1>2, <1>3, <1>4, <1>5 DEF x, y

\* Every start has an end of its own.
LEMMA EndsApart ==
    ASSUME NEW a \in Starts, NEW b \in Starts, EndOf(a) = EndOf(b) PROVE a = b
BY DEF Starts, EndOf

\* what is counted are those of its type,
LEMMA DeeperIs ==
    ASSUME NEW es, WellFormed(es), NEW i, NEW v, NEW t, NEW d, NEW q, InSkip(es, i, v, t, d, q)
    PROVE  LET e == Cardinality(OpenOf(es, v, t, Inside(es)[q + 1])) IN
           /\ es[q].type = t => e = d + 1
           /\ es[q].type = EndOf(t) => e = d - 1
           /\ es[q].type # t /\ es[q].type # EndOf(t) => e = d
<1> DEFINE x == Inside(es)[q]
           y == Inside(es)[q + 1]
           X == OpenOf(es, v, t, x)
           Y == OpenOf(es, v, t, y)
           L == Level(es, v)
           n == Len(x)
<1>1. /\ n \in Nat /\ L \in Nat /\ n >= L + 1 /\ Last(x) = x[n]
      /\ es[Last(x)].type \in Starts /\ IsFiniteSet(X)
      /\ q \in 1..Len(es) /\ n \in L + 1..n
  BY InSkipIs
<1>2. t \in Starts /\ d = Cardinality(X) /\ d \in Nat
  BY InSkipIs DEF InSkip
<1>3. /\ es[q].type \in Starts =>
          /\ Len(y) = n + 1 /\ y[n + 1] = q /\ \A m \in 1..n : y[m] = x[m]
      /\ es[q].type \in Ends =>
          /\ Len(y) = n - 1 /\ \A m \in 1..n - 1 : y[m] = x[m]
          /\ es[q].type = EndOf(es[Last(x)].type)
      /\ es[q].type \notin Starts \cup Ends => y = x
  BY OpenNext
<1>4. EndOf(t) \in Ends /\ t \notin Ends /\ Starts \cap Ends = {}
  BY <1>2 DEF Ends, Starts, EndOf
<1>5. X = {m \in L + 1..n : es[x[m]].type = t} /\ Y = {m \in L + 1..Len(y) : es[y[m]].type = t}
  BY DEF OpenOf
<1> HIDE DEF x, y, X, Y, L, n
<1>6. CASE es[q].type \in Starts
  <2>1. Len(y) = n + 1 /\ y[n + 1] = q /\ \A m \in 1..n : y[m] = x[m]
    BY <1>3, <1>6
  <2>2. \A m \in L + 1..n + 1 : m = n + 1 \/ (m \in L + 1..n /\ m \in 1..n)
    BY <1>1
  <2>3. n + 1 \in L + 1..n + 1 /\ n + 1 \notin L + 1..n
    BY <1>1
  <2>4. \A m \in L + 1..n : m \in L + 1..n + 1 /\ m \in 1..n /\ m # n + 1
    BY <1>1
  <2>5. es[q].type # EndOf(t)
    BY <1>4, <1>6
  <2>6. CASE es[q].type = t
    <3>1. Y = X \cup {n + 1} /\ n + 1 \notin X
      BY <1>5, <2>1, <2>2, <2>3, <2>4, <2>6
    <3>2. Cardinality(Y) = d + 1
      BY <1>1, <1>2, <3>1, FS_AddElement
    <3> QED BY <2>5, <2>6, <3>2 DEF Y, y
  <2>7. CASE es[q].type # t
    <3>1. Y = X
      BY <1>5, <2>1, <2>2, <2>4, <2>7
    <3> QED BY <1>2, <2>5, <2>7, <3>1 DEF Y, y
  <2> QED BY <2>6, <2>7
<1>7. CASE es[q].type \in Ends
  <2>1. /\ Len(y) = n - 1 /\ \A m \in 1..n - 1 : y[m] = x[m]
        /\ es[q].type = EndOf(es[x[n]].type) /\ es[x[n]].type \in Starts
    BY <1>1, <1>3, <1>7
  <2>2. \A m \in L + 1..n : m = n \/ (m \in L + 1..n - 1 /\ m \in 1..n - 1)
    BY <1>1
  <2>3. \A m \in L + 1..n - 1 : m \in L + 1..n /\ m \in 1..n - 1 /\ m # n
    BY <1>1
  <2>4. es[q].type # t
    BY <1>4, <1>7
  <2>5. es[q].type = EndOf(t) <=> es[x[n]].type = t
    BY <1>2, <2>1, EndsApart
  <2>6. CASE es[x[n]].type = t
    <3>1. Y = X \ {n} /\ n \in X
      BY <1>1, <1>5, <2>1, <2>2, <2>3, <2>6
    <3>2. Cardinality(Y) = d - 1
      BY <1>1, <1>2, <3>1, FS_RemoveElement
    <3> QED BY <2>4, <2>5, <2>6, <3>2 DEF Y, y
  <2>7. CASE es[x[n]].type # t
    <3>1. Y = X
      BY <1>5, <2>1, <2>2, <2>3, <2>7
    <3> QED BY <1>2, <2>4, <2>5, <2>7, <3>1 DEF Y, y
  <2> QED BY <2>6, <2>7
<1>8. CASE es[q].type \notin Starts \cup Ends
  <2>1. y = x
    BY <1>3, <1>8
  <2>2. Y = X
    BY <2>1 DEF X, Y
  <2> QED BY <1>2, <1>4, <1>8, <2>2 DEF Y, y
<1> QED BY <1>6, <1>7, <1>8
\* and it is skipped until none is left.
LEMMA SkipGoes ==
    ASSUME NEW es, WellFormed(es), NEW i, NEW v, NEW t, NEW d, NEW q, InSkip(es, i, v, t, d, q),
           es[q].type # "error", NEW e, e = Cardinality(OpenOf(es, v, t, Inside(es)[q + 1]))
    PROVE  /\ e = 0 => AtKey(es, i, q + 1)
           /\ e # 0 => InSkip(es, i, v, t, e, q + 1)
<1> DEFINE x == Inside(es)[q]
           y == Inside(es)[q + 1]
           z == Inside(es)[v]
           Y == OpenOf(es, v, t, y)
           L == Level(es, v)
           n == Len(x)
<1>1. /\ n \in Nat /\ L \in Nat /\ n >= L + 1 /\ x \in Seq(1..Len(es)) /\ Len(es) \in Nat
      /\ q \in 1..Len(es) /\ v \in 1..Len(es) /\ v < q
  BY InSkipIs
<1>2. /\ AtValue(es, i, v) /\ es[v].type = t /\ t \in Starts /\ Held(es, v, q)
      /\ x[L + 1] = v /\ \A m \in 1..L : x[m] = z[m]
  BY DEF InSkip
<1>3. /\ es[q].type \in Starts =>
          /\ y \in Seq(1..Len(es)) /\ Len(y) = n + 1 /\ \A m \in 1..n : y[m] = x[m]
      /\ es[q].type \in Ends =>
          /\ y \in Seq(1..Len(es)) /\ Len(y) = n - 1 /\ \A m \in 1..n - 1 : y[m] = x[m]
      /\ es[q].type \notin Starts \cup Ends => y = x
  BY OpenNext
<1>4. v \in 1..Len(es) + 1 /\ q + 1 \in 1..Len(es) + 1 /\ v \in Nat
  BY <1>1
<1>5. z \in Seq(1..Len(es)) /\ Len(z) = L
  BY <1>4, InsideNests DEF Nest, Level
<1>6. Y = {m \in L + 1..Len(y) : es[y[m]].type = t}
  BY DEF OpenOf
<1>7. Len(y) = Level(es, q + 1)
  BY DEF Level
<1> HIDE DEF x, y, z, L, n
<1>8. /\ y \in Seq(1..Len(es)) /\ Len(y) \in Nat /\ Len(y) >= n - 1
      /\ \A m \in 1..Len(y) : m \in 1..n => y[m] = x[m]
  <2>1. CASE es[q].type \in Starts
    <3>1. y \in Seq(1..Len(es)) /\ Len(y) = n + 1 /\ \A m \in 1..n : y[m] = x[m]
      BY <1>3, <2>1
    <3>2. Len(y) \in Nat /\ Len(y) >= n - 1
      BY <1>1, <3>1
    <3> QED BY <3>1, <3>2
  <2>2. CASE es[q].type \in Ends
    <3>1. y \in Seq(1..Len(es)) /\ Len(y) = n - 1 /\ \A m \in 1..n - 1 : y[m] = x[m]
      BY <1>3, <2>2
    <3>2. n - 1 \in Nat
      BY <1>1
    <3> QED BY <1>1, <3>1, <3>2
  <2>3. CASE es[q].type \notin Starts \cup Ends
    <3>1. y = x
      BY <1>3, <2>3
    <3>2. Len(y) = n
      BY <3>1 DEF n
    <3> QED BY <1>1, <3>1, <3>2
  <2> QED BY <2>1, <2>2, <2>3
<1>9. L + 1 \in 1..n /\ L < L + 1 /\ \A m \in 1..L : m \in 1..n
  BY <1>1
<1>10. CASE Len(y) > L
  <2>1. L + 1 \in 1..Len(y) /\ L + 1 \in L + 1..Len(y) /\ \A m \in 1..L : m \in 1..Len(y)
    BY <1>1, <1>8, <1>10
  <2>2. y[L + 1] = v /\ \A m \in 1..L : y[m] = z[m]
    BY <1>2, <1>8, <1>9, <2>1
  <2>3. e # 0
    <3>1. L + 1 \in Y
      BY <1>2, <1>6, <2>1, <2>2
    <3>2. IsFiniteSet(Y)
      <4>1. L + 1 \in Int /\ Len(y) \in Int
        BY <1>1, <1>8
      <4>2. IsFiniteSet(L + 1..Len(y))
        BY <4>1, FS_Interval
      <4>3. Y \subseteq L + 1..Len(y)
        BY <1>6
      <4> QED BY <4>2, <4>3, FS_Subset
    <3>3. Y # {}
      BY <3>1
    <3>4. Cardinality(Y) # 0
      BY <3>2, <3>3, FS_EmptySet
    <3> QED BY <3>4 DEF Y, y
  <2>4. Held(es, v, q + 1)
    <3>1. L + 1 \in 1..Level(es, q + 1) /\ y[L + 1] >= v
      BY <1>1, <1>7, <2>1, <2>2
    <3> QED BY <1>1, <1>2, <1>4, <3>1, HeldNext DEF y
  <2>5. q + 1 \in 1..Len(es)
    <3>1. y # <<>>
      BY <1>8, <2>1, EmptySeq
    <3> QED BY <1>1, <3>1, Room DEF y
  <2>6. Level(es, q + 1) > L
    BY <1>7, <1>10
  <2>7. InSkip(es, i, v, t, e, q + 1)
    BY <1>2, <2>2, <2>4, <2>5, <2>6 DEF InSkip, L, y, z
  <2> QED BY <2>3, <2>7
<1>11. CASE ~(Len(y) > L)
  <2>1. Len(y) = L
    BY <1>1, <1>8, <1>11
  <2>2. \A m \in 1..L : y[m] = z[m]
    BY <1>2, <1>8, <1>9, <2>1
  <2>3. y = z
    <3>1. y = [m \in 1..L |-> y[m]] /\ z = [m \in 1..L |-> z[m]]
      BY <1>5, <1>8, <2>1
    <3> QED BY <2>2, <3>1
  <2>4. e = 0
    <3>1. Y = {}
      BY <1>1, <1>6, <2>1
    <3> QED BY <3>1, FS_EmptySet DEF Y, y
  <2>5. es[v].type # "error"
    BY <1>2 DEF Starts
  <2>6. AtKey(es, i, q + 1)
    BY <1>1, <1>2, <2>3, <2>5, ValueEnds DEF y, z
  <2> QED BY <2>4, <2>6
<1> QED BY <1>10, <1>11

\* Nothing in it is given for the mapping, and the file does not end in it.
LEMMA SkipSame ==
    ASSUME NEW es, WellFormed(es), NEW k, NEW i, NEW v, NEW t, NEW d, NEW q,
           InSkip(es, i, v, t, d, q), es[v - 1].value \notin ListKeys(k)
    PROVE  /\ Part(es, k, i, q + 1) = Part(es, k, i, q)
           /\ es[q].type # "stream-"
<1>1. /\ q \in 1..Len(es) /\ v \in 1..Len(es) /\ v < q /\ Len(es) \in Nat /\ i < v
      /\ i \in 1..Len(es) /\ v > 1
      /\ Last(Inside(es)[q]) \in 1..Len(es) /\ Last(Inside(es)[q]) >= v
      /\ es[Last(Inside(es)[q])].type \in Starts
  BY InSkipIs
<1>2. AtValue(es, i, v) /\ Held(es, v, q)
  BY DEF InSkip
<1>3. /\ q + 1 \in 1..Len(es) + 1 /\ q \in 1..Len(es) + 1 /\ q <= q + 1 /\ q \in v + 1..q
      /\ i \in Nat /\ v \in Nat
  BY <1>1
<1>4. q \notin Keys(es, i)
  BY <1>1, <1>2, <1>3, NoChild, KeyIs
<1>5. \A key \in ListKeys(k) : q \notin ItemPlaces(es, i, key)
  BY <1>2, <1>3, PlaceIn
<1>6. \A m \in q..(q + 1) - 1 : m = q
  BY <1>1
<1>7. Part(es, k, i, q + 1) = Part(es, k, i, q)
  BY <1>3, <1>4, <1>5, <1>6, PartSame
<1>8. ASSUME es[q].type = "stream-" PROVE FALSE
  <2> DEFINE a == Last(Inside(es)[q])
  <2>1. DOMAIN es = 1..Len(es) /\ EndsMatch(es) /\ StreamOK(es) /\ "stream-" \in Ends
    BY FormedIs DEF Ends, Starts, EndOf
  <2>2. es[q].type = EndOf(es[a].type)
    BY <1>1, <1>8, <2>1 DEF EndsMatch
  <2>3. "stream+" \in Starts /\ EndOf("stream+") = "stream-"
    BY DEF Starts, EndOf
  <2>4. es[a].type = "stream+"
    BY <1>1, <1>8, <2>2, <2>3, EndsApart
  <2>5. a = 1
    BY <1>1, <2>1, <2>4 DEF StreamOK
  <2> QED BY <1>1, <2>5
<1> QED BY <1>7, <1>8

\* A value that is not known is left at once,
LEMMA SkipsLeaf ==
    ASSUME NEW es, WellFormed(es), NEW c, c \in Seq(Range(c)), NEW k \in Kinds, NEW i, NEW q,
           NEW st, SkipAtStart(es, q, st, c, k, i), es[q].type \notin Starts \cup {"error"}
    PROVE  MapAtKey(es, q + 1, Front(st), c, k, i)
<1>1. AtValue(es, i, q)
  BY DEF SkipAtStart
<1>2. q \in Children(es, i) /\ q \notin Keys(es, i)
  BY <1>1, ValueEvents
<1>3. es[q].type \in {"scalar", "alias"}
  <2>1. q \in Nodes(es)
    BY <1>2, ChildIs
  <2> QED BY <2>1 DEF Nodes, Starts
<1>4. AtKey(es, i, q + 1)
  BY <1>1, <1>3, LeafRead
<1>5. Part(es, k, i, q + 1) = Part(es, k, i, q)
  <2>1. q \in 1..Len(es) /\ Len(es) \in Nat
    BY <1>2, ChildIs, FormedIs
  <2>2. q + 1 \in 1..Len(es) + 1 /\ q \in 1..Len(es) + 1 /\ q <= q + 1
    BY <2>1
  <2>3. \A l : q \notin ItemPlaces(es, i, l)
    BY <1>2, PlaceIs
  <2>4. \A n \in q..(q + 1) - 1 : n = q
    BY <2>1
  <2> QED BY <1>2, <2>2, <2>3, <2>4, PartSame
<1>6. Front(st) = Append(c, MapCall("key", k, Part(es, k, i, q)))
  BY Pushed DEF SkipAtStart
<1> QED BY <1>4, <1>5, <1>6 DEF MapAtKey

\* or is skipped from its start on.
LEMMA StartsSkip ==
    ASSUME NEW es, WellFormed(es), NEW c, c \in Seq(Range(c)), NEW k \in Kinds, NEW i, NEW q,
           NEW st, SkipAtStart(es, q, st, c, k, i), NEW t \in Starts, es[q].type = t
    PROVE  SkipInside(es, q + 1,
                      Append(Front(st), [Last(st) EXCEPT !.at = t, !.deep = 1]), c, k, i)
<1> DEFINE y == Inside(es)[q + 1]
           z == Inside(es)[q]
           L == Level(es, q)
<1>1. AtValue(es, i, q) /\ es[q - 1].value \notin ValueKeys(k) \cup ListKeys(k)
  BY DEF SkipAtStart
<1>2. q \in 1..Len(es) /\ q \in 1..Len(es) + 1 /\ Len(es) \in Nat
  <2>1. q \in 1..Len(es) /\ Len(es) \in Nat
    BY <1>1, InMappingIs DEF AtValue
  <2> QED BY <2>1
<1>3. Inside(es)[q + 1] = Append(z, q) /\ Held(es, q, q + 1)
  BY <1>2, HeldFirst
<1>4. z \in Seq(1..Len(es)) /\ Len(z) = L /\ L \in Nat
  <2>1. Inside(es)[q] \in Seq(1..Len(es))
    BY <1>2, InsideNests DEF Nest
  <2> QED BY <2>1 DEF Level
<1> HIDE DEF z, L
<1>5. y # <<>> /\ Len(y) = L + 1 /\ y[L + 1] = q /\ \A n \in 1..L : y[n] = z[n]
  <2>1. y # <<>> /\ Len(y) = L + 1 /\ \A n \in 1..L : y[n] = z[n]
    BY <1>2, <1>3, <1>4, Appended
  <2> QED BY <1>2, <1>3, <1>4, <2>1
<1>6. q + 1 \in 1..Len(es)
  <2>1. es[q].type # "error"
    BY DEF Starts
  <2> QED BY <1>2, <1>5, <2>1, Room
<1>7. Level(es, q + 1) > L
  BY <1>4, <1>5 DEF Level
<1>8. 1 = Cardinality(OpenOf(es, q, t, y))
  <2>1. \A n \in L + 1..L + 1 : n = L + 1
    BY <1>4
  <2>2. L + 1 \in L + 1..L + 1
    BY <1>4
  <2>3. OpenOf(es, q, t, y) = {n \in L + 1..L + 1 : es[y[n]].type = t}
    BY <1>5 DEF OpenOf, L
  <2>4. OpenOf(es, q, t, y) = {L + 1}
    BY <1>5, <2>1, <2>2, <2>3
  <2> QED BY <2>4, FS_Singleton
<1>9. InSkip(es, i, q, t, 1, q + 1)
  BY <1>1, <1>3, <1>5, <1>6, <1>7, <1>8 DEF InSkip, L, z
<1>10. Part(es, k, i, q + 1) = Part(es, k, i, q)
  <2>1. q + 1 \in 1..Len(es) + 1 /\ q <= q + 1
    BY <1>2
  <2>2. es[q].type # "error"
    BY DEF Starts
  <2>3. q \in Children(es, i) /\ q \notin Keys(es, i)
    BY <1>1, <2>2, ValueEvents
  <2>4. \A l : q \notin ItemPlaces(es, i, l)
    BY <2>3, PlaceIs
  <2>5. \A n \in q..(q + 1) - 1 : n = q
    BY <1>2
  <2> QED BY <1>2, <2>1, <2>3, <2>4, <2>5, PartSame
<1>11. /\ Front(st) = Append(c, MapCall("key", k, Part(es, k, i, q)))
       /\ Last(st) = SkipCall("start", 0)
  BY Pushed DEF SkipAtStart
<1>12. [Last(st) EXCEPT !.at = t, !.deep = 1] = SkipCall(t, 1)
  <2> DEFINE a == Last(st)
             b == [a EXCEPT !.at = t]
  <2>1. [a EXCEPT !.at = t, !.deep = 1] = [b EXCEPT !.deep = 1]
    BY Zenon
  <2>2. a = SkipCall("start", 0)
    BY <1>11
  <2> HIDE DEF a
  <2>3. b = SkipCall(t, 0)
    BY <2>2, SkipOn
  <2> HIDE DEF b
  <2>4. [b EXCEPT !.deep = 1] = SkipCall(t, 1)
    BY <2>3, SkipWith
  <2> QED BY <2>1, <2>4 DEF a
<1> HIDE DEF y
<1> QED BY <1>1, <1>9, <1>10, <1>11, <1>12 DEF SkipInside
-----------------------------------------------------------------------------
(* The readers read on.                                                    *)

\* The event that is read next, or once more.
Here == IF keep_in_place THEN pos ELSE pos + 1

\* Before an error, and where they can tell a value from the end of a mapping,
\* the readers are where the file says.
Reading(es, kind) ==
    /\ pos \in 0..Len(es)
    /\ keep_in_place => pos \in 1..Len(es) /\ event = es[pos] /\ event.type # "error"
    /\ broken => At("mapping", "key") /\ ~Complete(es)
    /\ ~broken => Placed(es, kind, Here, stack)
Trusting == Trusted(Head(files).events, Head(files).kind)
Progress == stack # <<>> /\ Trusting => Reading(Head(files).events, Head(files).kind)

\* What a reader knows of the event it gets.
LEMMA Known ==
    ASSUME IInv, Progress, Trusting, stack # <<>>, Parse,
           ~At("mapping", "key") \/ event'.type # "none",
           NEW es, es = Head(files).events, NEW kind, kind = Head(files).kind
    PROVE  /\ WellFormed(es) /\ kind \in {"project", "config"} /\ Len(es) \in Nat /\ ~broken
           /\ Here \in Nat /\ pos' \in 0..Len(es)
           /\ Here \in 1..Len(es) => pos' = Here /\ event' = es[Here]
           /\ Here \notin 1..Len(es) =>
                  event' = NoEvent /\ pos' + 1 = Here /\ ~keep_in_place
           /\ broken' <=> event'.type = "error"
           /\ event'.type = "error" => ~Complete(es)
           /\ Trusted(es, kind) /\ Placed(es, kind, Here, stack)
<1>1. files # <<>> /\ files \in Seq(Files) /\ Head(files) \in Files
  BY DEF IInv, FilesOK
<1>2. WellFormed(es) /\ kind \in {"project", "config"}
  BY <1>1, FilesAssumption
<1>3. Len(es) \in Nat /\ DOMAIN es = 1..Len(es)
  BY <1>2, FormedIs
<1>4. /\ pos \in 0..Len(es)
      /\ keep_in_place => pos \in 1..Len(es) /\ event = es[pos] /\ event.type # "error"
      /\ broken => At("mapping", "key") /\ ~Complete(es)
      /\ ~broken => Placed(es, kind, Here, stack)
      /\ Trusted(es, kind)
  BY DEF Progress, Reading, Trusting
<1>5. keep_in_place => At("mapping", "start")
  BY DEF IInv, KeptForItem
<1>6. ~broken
  <2> SUFFICES ASSUME broken PROVE FALSE
    OBVIOUS
  <2>1. At("mapping", "key") /\ ~keep_in_place
    BY <1>4, <1>5 DEF At
  <2>2. event' = NoEvent
    BY <2>1 DEF Parse
  <2> QED BY <2>1, <2>2 DEF NoEvent
<1>7. CASE keep_in_place
  <2>1. Here = pos /\ event' = event /\ pos' = pos /\ broken' = broken
    BY <1>7 DEF Here, Parse
  <2> QED BY <1>2, <1>3, <1>4, <1>6, <1>7, <2>1
<1>8. CASE ~keep_in_place /\ pos = Len(es)
  <2>1. Here = pos + 1 /\ event' = NoEvent /\ pos' = pos /\ broken' = broken
    BY <1>8 DEF Here, Parse
  <2>2. event'.type # "error"
    BY <2>1 DEF NoEvent
  <2>3. Here \notin 1..Len(es) /\ Here \in Nat
    BY <1>3, <1>8, <2>1
  <2> QED BY <1>2, <1>3, <1>4, <1>6, <1>8, <2>1, <2>2, <2>3
<1>9. CASE ~keep_in_place /\ pos # Len(es)
  <2>1. /\ Here = pos + 1 /\ event' = es[Here] /\ pos' = Here
        /\ broken' = (event'.type = "error")
    BY <1>6, <1>9 DEF Here, Parse
  <2>2. Here \in 1..Len(es) /\ Here \in Nat /\ Here \in 0..Len(es)
    BY <1>3, <1>4, <1>9, <2>1
  <2>3. event'.type = "error" => ~Complete(es)
    BY <1>3, <2>1, <2>2 DEF Complete
  <2> QED BY <1>2, <1>3, <1>4, <1>6, <2>1, <2>2, <2>3
<1> QED BY <1>7, <1>8, <1>9

\* A reader that leaves the others where they should be.
LEMMA GoesOn ==
    ASSUME IInv, Progress, Trusting, stack # <<>>, NextEvent, UNCHANGED files,
           ~At("mapping", "key") \/ event'.type # "none",
           NEW es, es = Head(files).events, NEW kind, kind = Head(files).kind,
           event'.type = "error" => At("mapping", "key")',
           event'.type # "error" => Placed(es, kind, pos' + 1, stack')
    PROVE  Progress'
<1>1. /\ WellFormed(es) /\ kind \in {"project", "config"} /\ Len(es) \in Nat /\ ~broken
      /\ pos' \in 0..Len(es)
      /\ broken' <=> event'.type = "error"
      /\ event'.type = "error" => ~Complete(es)
  BY Known DEF NextEvent
<1>2. keep_in_place' = FALSE /\ Here' = pos' + 1
  BY DEF NextEvent, Here
<1>3. es = Head(files').events /\ kind = Head(files').kind
  OBVIOUS
<1> QED BY <1>1, <1>2, <1>3 DEF Progress, Reading

\* A reader of a mapping, a list or a value that is not known reads the event
\* it stands at.
LEMMA ReaderHere ==
    ASSUME NEW es, WellFormed(es), NEW kind \in {"project", "config"}, NEW q,
           Placed(es, kind, q, stack), Top.fn # "load"
    PROVE  q \in 1..Len(es)
<1>1. PICK c, k, i : ReadBy(es, kind, c, k, i) /\ InReader(es, q, stack, c, k, i)
  <2>1. ~(Seeking(es, q, stack) \/ Found(es, kind, q, stack))
    <3> SUFFICES ASSUME Seeking(es, q, stack) \/ Found(es, kind, q, stack) PROVE FALSE
      OBVIOUS
    <3>1. PICK o : stack = <<LoadCall(o)>>
      BY DEF Seeking, Found
    <3>2. stack = Append(<<>>, LoadCall(o))
      BY <3>1, Chains
    <3>3. Top = LoadCall(o)
      BY <3>2, EmptyStack, Pushed DEF Top
    <3> QED BY <3>3 DEF LoadCall
  <2> QED BY <2>1 DEF Placed
<1>2. i \in 1..Len(es)
  BY <1>1, ReadByIs
<1>3. CASE MapAtStart(es, q, stack, c, k, i)
  BY <1>2, <1>3 DEF MapAtStart
<1>4. CASE MapAtKey(es, q, stack, c, k, i)
  BY <1>4, InMappingIs DEF MapAtKey, AtKey
<1>5. CASE MapAtValue(es, q, stack, c, k, i)
  BY <1>5, InMappingIs DEF MapAtValue, AtValue
<1>6. CASE ListAtStart(es, q, stack, c, k, i)
  BY <1>6, InMappingIs DEF ListAtStart, AtValue
<1>7. CASE ListAtItem(es, q, stack, c, k, i)
  BY <1>7 DEF ListAtItem, InList
<1>8. CASE SkipAtStart(es, q, stack, c, k, i)
  BY <1>8, InMappingIs DEF SkipAtStart, AtValue
<1>9. CASE SkipInside(es, q, stack, c, k, i)
  BY <1>9 DEF SkipInside, InSkip
<1> QED BY <1>1, <1>3, <1>4, <1>5, <1>6, <1>7, <1>8, <1>9 DEF InReader

\* The next file starts with its first event.
LEMMA OpenOn == ASSUME IInv, Open PROVE Progress'
<1> DEFINE es == Head(files).events
           kind == Head(files).kind
<1>1. /\ stack = <<>> /\ files # <<>> /\ pos' = 0 /\ broken' = FALSE /\ stack' = <<Loading>>
      /\ files' = files /\ keep_in_place' = keep_in_place
  BY DEF Open
<1>2. ~keep_in_place
  BY <1>1 DEF IInv, KeptForItem, At
<1>3. WellFormed(es)
  <2>1. Head(files) \in Files
    BY <1>1 DEF IInv, FilesOK
  <2> QED BY <2>1, FilesAssumption
<1>4. Len(es) \in Nat
  BY <1>3, FormedIs
<1>5. Here' = 1
  BY <1>1, <1>2 DEF Here
<1>6. Seeking(es, 1, stack')
  <2>1. stack' = <<LoadCall(NULL)>>
    BY <1>1 DEF Loading, LoadCall
  <2>2. 1..1 - 1 = {}
    OBVIOUS
  <2> QED BY <2>1, <2>2 DEF Seeking
<1>7. Placed(es, kind, 1, stack')
  BY <1>6 DEF Placed
<1>8. 0 \in 0..Len(es)
  BY <1>4
<1> HIDE DEF es, kind
<1>9. es = Head(files').events /\ kind = Head(files').kind
  BY <1>1 DEF es, kind
<1> QED BY <1>1, <1>2, <1>5, <1>7, <1>8, <1>9 DEF Progress, Reading
\* The node of the first document is in it, and nothing else is.
LEMMA FirstLevel ==
    ASSUME NEW es, WellFormed(es), NEW r, FirstNode(es, r)
    PROVE  /\ Len(es) \in Nat /\ r \in 1..Len(es) /\ r - 1 \in 1..Len(es) /\ r \in 2..Len(es)
           /\ Level(es, r) = 2 /\ Last(Inside(es)[r]) = r - 1 /\ Inside(es)[r] # <<>>
<1>1. /\ Len(es) \in Nat /\ DOMAIN es = 1..Len(es) /\ DocumentsOK(es)
      /\ r \in 2..Len(es) /\ es[r - 1].type = "document+"
  BY FormedIs DEF FirstNode
<1>2. r \in 1..Len(es) /\ r - 1 \in 1..Len(es) /\ (r - 1) + 1 = r /\ "document+" \in Starts
  BY <1>1 DEF Starts
<1>3. Level(es, r - 1) = 1
  BY <1>1, <1>2 DEF DocumentsOK
<1>4. Level(es, r) = 2 /\ Last(Inside(es)[r]) = r - 1
  <2> DEFINE p == r - 1
  <2>1. p \in 1..Len(es) /\ es[p].type \in Starts
    BY <1>1, <1>2
  <2> HIDE DEF p
  <2>2. Last(Inside(es)[p + 1]) = p /\ Level(es, p + 1) = Level(es, p) + 1
    BY <2>1, HeldFirst
  <2> QED BY <1>2, <1>3, <2>2 DEF p
<1>5. Inside(es)[r] # <<>>
  <2>1. Nest(es, Inside(es)[r], r) /\ r \in 1..Len(es) + 1
    <3>1. r \in 1..Len(es) + 1
      BY <1>1
    <3> QED BY <3>1, InsideNests
  <2>2. Inside(es)[r] # <<>> <=> Len(Inside(es)[r]) > 0
    BY <1>1, <2>1, LastOpen
  <2>3. Len(Inside(es)[r]) = 2
    BY <1>4 DEF Level
  <2> QED BY <2>2, <2>3
<1> QED BY <1>1, <1>2, <1>4, <1>5

\* Behind it its document ends.
LEMMA FoundEvents ==
    ASSUME NEW es, WellFormed(es), NEW kind, NEW q, NEW st, Found(es, kind, q, st)
    PROVE  /\ q \in 1..Len(es) /\ Level(es, q) = 2
           /\ es[q].type \in {"document-", "stream-", "error"}
<1>1. PICK r : /\ FirstNode(es, r) /\ q \in 1..Len(es) /\ Inside(es)[q] = Inside(es)[r]
               /\ es[q - 1].type = "mapping-"
  BY DEF Found
<1>2. /\ Len(es) \in Nat /\ r - 1 \in 1..Len(es) /\ Level(es, q) = 2
      /\ Last(Inside(es)[q]) = r - 1 /\ es[r - 1].type = "document+"
  BY <1>1, FirstLevel DEF Level, FirstNode
<1>3. /\ DOMAIN es = 1..Len(es) /\ EndsMatch(es) /\ StreamOK(es) /\ DocumentsOK(es)
      /\ es[q].type \in Starts \cup Ends \cup {"scalar", "alias", "error"}
  BY <1>1, FormedIs
<1>4. es[q].type # "document+"
  BY <1>1, <1>2, <1>3 DEF DocumentsOK
<1>5. q \notin Nodes(es)
  BY <1>1, <1>2, <1>3 DEF DocumentsOK
<1>6. es[q].type # "stream+"
  <2>1. SUFFICES ASSUME q = 1 PROVE FALSE
    BY <1>1, <1>3 DEF StreamOK
  <2>2. Inside(es)[1] = <<>>
    BY <1>2, InsideNext
  <2>3. Level(es, 1) = 0
    BY <2>2 DEF Level
  <2> QED BY <1>2, <2>1, <2>3
<1>7. es[q].type \in Ends => es[q].type = "document-"
  <2>1. es[q].type \in Ends => es[q].type = EndOf("document+")
    BY <1>1, <1>2, <1>3 DEF EndsMatch
  <2> QED BY <2>1 DEF EndOf
<1> QED BY <1>1, <1>2, <1>3, <1>4, <1>5, <1>6, <1>7 DEF Nodes, Starts

\* The reader of a file finds its first document and reads its node.
LEMMA LoadDocumentOn == ASSUME IInv, Progress, Trusting, LoadDocument PROVE Progress'
<1> DEFINE es == Head(files).events
           kind == Head(files).kind
           q == Here
<1>1. /\ stack # <<>> /\ Top.fn = "load" /\ NextEvent /\ Parse /\ event'.type = "document+"
      /\ stack' = Append(stack, Mapping(kind)) /\ files' = files
  BY DEF LoadDocument, InLoad, NextIs, NextEvent, Call
<1>2. ~At("mapping", "key")
  BY <1>1 DEF At
<1> HIDE DEF es, kind, q
<1>3. /\ WellFormed(es) /\ kind \in {"project", "config"} /\ Len(es) \in Nat
      /\ q \in 1..Len(es) => pos' = q /\ event' = es[q]
      /\ q \notin 1..Len(es) => event' = NoEvent
      /\ Placed(es, kind, q, stack)
  BY <1>1, <1>2, Known DEF es, kind, q
<1>4. q \in 1..Len(es) /\ pos' = q /\ es[q].type = "document+"
  BY <1>1, <1>3 DEF NoEvent
<1>5. Placed(es, kind, q + 1, stack')
  <2>1. Seeking(es, q, stack) \/ Found(es, kind, q, stack)
    BY <1>1, <1>3, WhichPlace
  <2>2. Seeking(es, q, stack)
    BY <1>3, <1>4, <2>1, FoundEvents
  <2>3. q + 1 \in 2..Len(es)
    <3>1. "document+" \in Starts
      BY DEF Starts
    <3>2. Inside(es)[q + 1] = Append(Inside(es)[q], q)
      BY <1>3, <1>4, <3>1, HeldFirst
    <3>3. Inside(es)[q] \in Seq(1..Len(es))
      <4>1. q \in 1..Len(es) + 1
        BY <1>3, <1>4
      <4> QED BY <1>3, <4>1, InsideNests DEF Nest
    <3>4. Inside(es)[q + 1] # <<>>
      BY <1>4, <3>2, <3>3, Appended
    <3>5. q + 1 \in 1..Len(es)
      BY <1>3, <1>4, <3>4, Room
    <3> QED BY <1>3, <1>4, <3>5
  <2>4. FirstNode(es, q + 1)
    <3>1. (q + 1) - 1 = q /\ (q + 1) - 2 = q - 1
      BY <1>4
    <3>2. \A k \in 1..q - 1 : k \in 1..Len(es)
      BY <1>3, <1>4
    <3> QED BY <1>4, <2>2, <2>3, <3>1, <3>2 DEF FirstNode, Seeking
  <2>5. stack = <<LoadCall(NULL)>>
    BY <2>2 DEF Seeking
  <2>6. ReadBy(es, kind, stack, kind, q + 1)
    BY <2>4, <2>5 DEF ReadBy
  <2>7. MapAtStart(es, q + 1, stack', stack, kind, q + 1)
    BY <1>1 DEF MapAtStart, Mapping, MapCall
  <2> QED BY <2>6, <2>7 DEF Placed, InReader
<1>6. Placed(es, kind, pos' + 1, stack')
  BY <1>4, <1>5
<1> QED BY <1>1, <1>2, <1>6, GoesOn DEF es, kind

\* What is not a document is passed over.
LEMMA LoadPassesOn == ASSUME IInv, Progress, Trusting, LoadPasses PROVE Progress'
<1> DEFINE es == Head(files).events
           kind == Head(files).kind
           q == Here
<1>1. /\ stack # <<>> /\ Top.fn = "load" /\ NextEvent /\ Parse
      /\ event'.type \notin {"document+", "document-", "stream-", "error"}
      /\ stack' = Append(Callers, Top) /\ files' = files
  BY DEF LoadPasses, InLoad, NextIsNot, NextEvent, Continue
<1>2. ~At("mapping", "key")
  BY <1>1 DEF At
<1> HIDE DEF es, kind, q
<1>3. /\ WellFormed(es) /\ kind \in {"project", "config"} /\ Len(es) \in Nat /\ q \in Nat
      /\ q \in 1..Len(es) => pos' = q /\ event' = es[q]
      /\ q \notin 1..Len(es) => event' = NoEvent /\ pos' + 1 = q
      /\ Placed(es, kind, q, stack)
  BY <1>1, <1>2, Known DEF es, kind, q
<1>4. Placed(es, kind, pos' + 1, stack')
  <2>1. Seeking(es, q, stack) \/ Found(es, kind, q, stack)
    BY <1>1, <1>3, WhichPlace
  <2>2. Seeking(es, q, stack)
    BY <1>1, <1>3, <2>1, FoundEvents
  <2>3. stack' = <<LoadCall(NULL)>>
    <3>1. stack = Append(<<>>, LoadCall(NULL))
      BY <2>2, Chains DEF Seeking
    <3>2. Callers = <<>> /\ Top = LoadCall(NULL)
      BY <3>1, EmptyStack, Pushed DEF Callers, Top
    <3> QED BY <1>1, <3>2, Chains
  <2>4. CASE q \in 1..Len(es)
    <3>1. pos' = q /\ es[q].type # "document+"
      BY <1>1, <1>3, <2>4
    <3>2. \A k \in 1..(q + 1) - 1 : k = q \/ k \in 1..q - 1
      BY <1>3
    <3>3. Seeking(es, q + 1, stack')
      BY <2>2, <2>3, <3>1, <3>2 DEF Seeking
    <3> QED BY <3>1, <3>3 DEF Placed
  <2>5. CASE q \notin 1..Len(es)
    <3>1. Seeking(es, q, stack')
      BY <2>2, <2>3 DEF Seeking
    <3> QED BY <1>3, <2>5, <3>1 DEF Placed
  <2> QED BY <2>4, <2>5
<1> QED BY <1>1, <1>2, <1>4, GoesOn DEF es, kind

\* A reader at an event.
LEMMA AtEvent ==
    ASSUME IInv, Progress, Trusting, stack # <<>>, Top.fn # "load", Parse,
           ~At("mapping", "key") \/ event'.type # "none",
           NEW es, es = Head(files).events, NEW kind, kind = Head(files).kind
    PROVE  /\ WellFormed(es) /\ kind \in {"project", "config"} /\ Len(es) \in Nat /\ ~broken
           /\ event'.type = "error" => ~Complete(es)
           /\ Here \in 1..Len(es) /\ pos' = Here /\ event' = es[Here]
           /\ Trusted(es, kind) /\ Placed(es, kind, Here, stack)
<1>1. /\ WellFormed(es) /\ kind \in {"project", "config"} /\ Len(es) \in Nat /\ ~broken
      /\ Here \in 1..Len(es) => pos' = Here /\ event' = es[Here]
      /\ event'.type = "error" => ~Complete(es)
      /\ Trusted(es, kind) /\ Placed(es, kind, Here, stack)
  BY Known
<1> QED BY <1>1, ReaderHere

\* The reader of a mapping.
LEMMA MappingStartsOn ==
    ASSUME IInv, Progress, Trusting, MappingStarts, event'.type = "mapping+" PROVE Progress'
<1> DEFINE es == Head(files).events
           kind == Head(files).kind
           q == Here
           f == [Top EXCEPT !.at = "key"]
<1>1. /\ stack # <<>> /\ Top.fn = "mapping" /\ Top.at = "start" /\ NextEvent /\ Parse
      /\ Continue(f)
  BY DEF MappingStarts, At, NextIs, NextIsNot, NextEvent
<1>2. /\ ~At("mapping", "key") /\ Top.fn # "load" /\ files' = files
      /\ stack' = Append(Front(stack), f)
  BY <1>1 DEF At, Continue, Callers
<1> HIDE DEF es, kind, q, f
<1>3. /\ WellFormed(es) /\ kind \in {"project", "config"}
      /\ q \in 1..Len(es) /\ pos' = q /\ event' = es[q]
      /\ Trusted(es, kind) /\ Placed(es, kind, q, stack)
  BY <1>1, <1>2, AtEvent DEF es, kind, q
<1>4. Placed(es, kind, q + 1, stack')
  <2>1. PICK c, k, i : ReadBy(es, kind, c, k, i) /\ MapAtStart(es, q, stack, c, k, i)
    BY <1>1, <1>2, <1>3, WhichPlace
  <2>2. q = i /\ c \in Seq(Range(c)) /\ i \in 1..Len(es) /\ es[i].type = "mapping+"
    BY <1>1, <1>3, <2>1, ReadByIs DEF MapAtStart
  <2>3. MapAtKey(es, q + 1, stack', c, k, i)
    BY <1>2, <1>3, <2>1, <2>2, StartsMapping DEF f, Top
  <2> QED BY <2>1, <2>3 DEF Placed, InReader
<1>5. Placed(es, kind, pos' + 1, stack')
  BY <1>3, <1>4
<1> QED BY <1>1, <1>2, <1>5, GoesOn DEF es, kind

\* A key leads to its value, to its list or to the skipping of what it has.
LEMMA KeyOn == ASSUME IInv, Progress, Trusting, Key PROVE Progress'
<1> DEFINE es == Head(files).events
           kind == Head(files).kind
           q == Here
           key == event'.value
<1>1. /\ stack # <<>> /\ Top.fn = "mapping" /\ Top.at = "key" /\ NextEvent /\ Parse
      /\ event'.type = "scalar"
      /\ \/ key \in ValueKeys(Top.kind) /\ Continue([Top EXCEPT !.at = key])
         \/ key \in ListKeys(Top.kind) /\ Call(List(key))
         \/ key \notin ValueKeys(Top.kind) \cup ListKeys(Top.kind) /\ Call(Skipping)
  BY DEF Key, At, NextIs, NextEvent
<1>2. Top.fn # "load" /\ files' = files /\ event'.type # "none"
  BY <1>1 DEF Continue, Call
<1> HIDE DEF es, kind, q
<1>3. /\ WellFormed(es) /\ kind \in {"project", "config"}
      /\ q \in 1..Len(es) /\ pos' = q /\ event' = es[q]
      /\ Trusted(es, kind) /\ Placed(es, kind, q, stack)
  BY <1>1, <1>2, AtEvent DEF es, kind, q
<1>4. Placed(es, kind, q + 1, stack')
  <2>1. PICK c, k, i : ReadBy(es, kind, c, k, i) /\ MapAtKey(es, q, stack, c, k, i)
    BY <1>1, <1>2, <1>3, WhichPlace
  <2> DEFINE m == MapCall("key", k, Part(es, k, i, q))
  <2>2. c \in Seq(Range(c)) /\ k \in Kinds /\ AtKey(es, i, q) /\ stack = Append(c, m)
    BY <1>3, <2>1, ReadByIs DEF MapAtKey
  <2>3. Front(stack) = c /\ Top = m
    BY <2>2, Pushed DEF Top
  <2>4. ValuesFit(es, k, i)
    <3>1. es[i].type = "mapping+"
      BY <1>3, <2>2, InMappingIs DEF AtKey
    <3> QED BY <1>3, <2>1, <3>1, ReadByIs
  <2>5. es[q].type = "scalar" /\ es[q].value = key /\ Top.kind = k
    BY <1>1, <1>3, <2>3 DEF MapCall
  <2>6. /\ AtValue(es, i, q + 1) /\ (q + 1) - 1 = q
        /\ es[q].value \notin ValueKeys(k) => Part(es, k, i, q + 1) = Part(es, k, i, q)
    <3>1. WellFormed(es) /\ AtKey(es, i, q) /\ es[q].type = "scalar"
      BY <1>3, <2>2, <2>5
    <3> QED BY <2>4, <3>1, KeyRead
  <2> HIDE DEF m
  <2>7. CASE key \in ValueKeys(k) /\ Continue([Top EXCEPT !.at = key])
    <3>1. stack' = Append(c, [Top EXCEPT !.at = key])
      BY <2>3, <2>7 DEF Continue, Callers
    <3>2. [Top EXCEPT !.at = key] = MapCall(key, k, Part(es, k, i, q))
      <4> DEFINE a == Top
                 b == key
      <4>1. a = MapCall("key", k, Part(es, k, i, q))
        BY <2>3 DEF m
      <4> HIDE DEF a, b
      <4>2. [a EXCEPT !.at = b] = MapCall(b, k, Part(es, k, i, q))
        BY <4>1, MapOn
      <4> QED BY <4>2 DEF a, b
    <3>3. MapAtValue(es, q + 1, stack', c, k, i)
      BY <2>5, <2>6, <2>7, <3>1, <3>2 DEF MapAtValue
    <3> QED BY <2>1, <3>3 DEF Placed, InReader
  <2>8. CASE key \in ListKeys(k) /\ Call(List(key))
    <3>1. stack' = Append(Append(c, m), List(key))
      BY <2>2, <2>8 DEF Call
    <3>2. List(key) = ListCall("start", key)
      BY DEF List, ListCall
    <3>3. key \notin ValueKeys(k)
      BY <2>2, <2>8, KeysApart
    <3>4. Part(es, k, i, q + 1) = Part(es, k, i, q)
      BY <2>5, <2>6, <3>3
    <3>5. ListAtStart(es, q + 1, stack', c, k, i)
      BY <2>5, <2>6, <2>8, <3>1, <3>2, <3>4 DEF ListAtStart, m
    <3> QED BY <2>1, <3>5 DEF Placed, InReader
  <2>9. CASE key \notin ValueKeys(k) \cup ListKeys(k) /\ Call(Skipping)
    <3>1. stack' = Append(Append(c, m), Skipping)
      BY <2>2, <2>9 DEF Call
    <3>2. Skipping = SkipCall("start", 0)
      BY DEF Skipping, SkipCall
    <3>3. Part(es, k, i, q + 1) = Part(es, k, i, q)
      BY <2>5, <2>6, <2>9
    <3>4. SkipAtStart(es, q + 1, stack', c, k, i)
      BY <2>5, <2>6, <2>9, <3>1, <3>2, <3>3 DEF SkipAtStart, m
    <3> QED BY <2>1, <3>4 DEF Placed, InReader
  <2> QED BY <1>1, <2>5, <2>7, <2>8, <2>9
<1>5. Placed(es, kind, pos' + 1, stack')
  BY <1>3, <1>4
<1> QED BY <1>1, <1>2, <1>5, GoesOn DEF es, kind

\* A value is what its key is given.
LEMMA ValueOn ==
    ASSUME IInv, Progress, Trusting, NEW of \in Kinds, NEW v \in ValueKeys(of), Value(v)
    PROVE  Progress'
<1> DEFINE es == Head(files).events
           kind == Head(files).kind
           q == Here
           f == [Top EXCEPT !.at = "key", !.obj.values[v] = Given(v, event')]
<1>1. /\ stack # <<>> /\ Top.fn = "mapping" /\ Top.at = v /\ NextEvent /\ Parse
      /\ Continue(f)
  BY DEF Value, At, NextEvent
<1>2. v \notin {"start", "key"}
  BY KeysApart
<1>3. /\ ~At("mapping", "key") /\ Top.fn # "load" /\ files' = files
      /\ stack' = Append(Front(stack), f)
  BY <1>1, <1>2 DEF At, Continue, Callers
<1> HIDE DEF es, kind, q
<1>4. /\ WellFormed(es) /\ kind \in {"project", "config"} /\ Len(es) \in Nat
      /\ q \in 1..Len(es) /\ pos' = q /\ event' = es[q]
      /\ Trusted(es, kind) /\ Placed(es, kind, q, stack)
  BY <1>1, <1>3, AtEvent DEF es, kind, q
<1>5. PICK c, k, i : ReadBy(es, kind, c, k, i) /\ MapAtValue(es, q, stack, c, k, i)
  BY <1>1, <1>2, <1>3, <1>4, WhichPlace
<1>6. c \in Seq(Range(c)) /\ k \in Kinds
  BY <1>4, <1>5, ReadByIs
<1>7. /\ AtValue(es, i, q) /\ es[q - 1].value \in ValueKeys(k)
      /\ stack = Append(c, MapCall(es[q - 1].value, k, Part(es, k, i, q - 1)))
  BY <1>5 DEF MapAtValue
<1> DEFINE o == Part(es, k, i, q - 1)
<1>8. es[q - 1].value = v /\ Top = MapCall(v, k, o) /\ Front(stack) = c
  <2>1. Top = MapCall(es[q - 1].value, k, o) /\ Front(stack) = c
    BY <1>6, <1>7, Pushed DEF Top
  <2> QED BY <1>1, <2>1 DEF MapCall
<1>9. At("mapping", "key")'
  <2>1. f.fn = "mapping" /\ f.at = "key"
    BY <1>8 DEF MapCall
  <2> HIDE DEF f
  <2>2. stack' # <<>> /\ Last(stack') = f
    BY <1>3, <1>6, <1>8, Pushed
  <2> QED BY <2>1, <2>2 DEF At, Top
<1>10. ASSUME event'.type # "error" PROVE Placed(es, kind, q + 1, stack')
  <2>1. es[q].type = "scalar"
    <3>1. es[i].type = "mapping+" /\ q - 1 \in Keys(es, i) /\ (q - 1) + 1 = q
      BY <1>4, <1>7, InMappingIs DEF AtValue
    <3>2. ValuesFit(es, k, i)
      BY <1>4, <1>5, <3>1, ReadByIs
    <3> QED BY <1>4, <1>7, <1>10, <3>1, <3>2 DEF ValuesFit
  <2>2. f = [Last(stack) EXCEPT !.at = "key", !.obj.values[v] = Given(v, es[q])]
    BY <1>4 DEF Top
  <2>3. MapAtKey(es, q + 1,
              Append(Front(stack), [Last(stack) EXCEPT !.at = "key",
                                       !.obj.values[es[q - 1].value] =
                                           Given(es[q - 1].value, es[q])]), c, k, i)
    BY <1>4, <1>5, <1>6, <2>1, ReadsValue, Zenon
  <2>4. MapAtKey(es, q + 1, stack', c, k, i)
    BY <1>3, <1>8, <2>2, <2>3
  <2> QED BY <1>5, <2>4 DEF Placed, InReader
<1>11. event'.type # "error" => Placed(es, kind, pos' + 1, stack')
  BY <1>4, <1>10
<1> QED BY <1>1, <1>3, <1>9, <1>11, GoesOn DEF es, kind

\* A mapping that ends is handed to who asked for it.
LEMMA MappingEndsOn == ASSUME IInv, Progress, Trusting, MappingEnds PROVE Progress'
<1> DEFINE es == Head(files).events
           kind == Head(files).kind
           q == Here
           caller == Last(Callers)
<1>1. /\ stack # <<>> /\ Top.fn = "mapping" /\ Top.at = "key" /\ NextEvent /\ Parse
      /\ event'.type = "mapping-" /\ files' = files
      /\ caller.fn = "load" => stack' = <<[caller EXCEPT !.obj = Top.obj]>>
      /\ caller.fn # "load" => stack' = Handed(stack)
  BY DEF MappingEnds, At, NextIs, NextEvent, Handed, Callers, Top
<1>2. Top.fn # "load" /\ event'.type # "none"
  BY <1>1
<1> HIDE DEF es, kind, q
<1>3. /\ WellFormed(es) /\ kind \in {"project", "config"}
      /\ q \in 1..Len(es) /\ pos' = q /\ event' = es[q]
      /\ Trusted(es, kind) /\ Placed(es, kind, q, stack)
  BY <1>1, <1>2, AtEvent DEF es, kind, q
<1>4. Placed(es, kind, q + 1, stack')
  <2>1. PICK c, k, i : ReadBy(es, kind, c, k, i) /\ MapAtKey(es, q, stack, c, k, i)
    BY <1>1, <1>2, <1>3, WhichPlace
  <2>2. es[q].type = "mapping-"
    BY <1>1, <1>3
  <2>3. CASE k = kind /\ FirstNode(es, i) /\ c = <<LoadCall(NULL)>>
    <3>1. MapAtKey(es, q, stack, <<LoadCall(NULL)>>, kind, i)
      BY <2>1, <2>3
    <3> DEFINE f == [Last(Front(stack)) EXCEPT !.obj = Last(stack).obj]
    <3>2. caller.fn = "load" /\ Found(es, kind, q + 1, <<f>>)
      BY <1>3, <2>2, <2>3, <3>1, EndsFirst DEF Callers
    <3>3. stack' = <<f>>
      BY <1>1, <3>2 DEF Callers, Top
    <3> QED BY <3>2, <3>3 DEF Placed
  <2>4. ASSUME NEW r, NEW s, FirstNode(es, r), k \in ListKeys(kind),
               InList(es, r, s, k, i), i \in Children(es, s),
               c = <<LoadCall(NULL), MapCall("key", kind, Part(es, kind, r, i)), ListCall("item", k)>>
        PROVE  Placed(es, kind, q + 1, stack')
    <3>1. /\ caller.fn # "load"
          /\ ListAtItem(es, q + 1, Handed(stack), <<LoadCall(NULL)>>, kind, r)
      BY <1>3, <2>1, <2>2, <2>4, EndsItem DEF Callers
    <3>2. ReadBy(es, kind, <<LoadCall(NULL)>>, kind, r)
      BY <2>4 DEF ReadBy
    <3> QED BY <1>1, <3>1, <3>2 DEF Placed, InReader
  <2> QED BY <2>1, <2>3, <2>4 DEF ReadBy
<1>5. Placed(es, kind, pos' + 1, stack')
  BY <1>3, <1>4
<1> QED BY <1>1, <1>2, <1>5, GoesOn DEF es, kind

\* The reader of a list.
LEMMA ListStartsOn ==
    ASSUME IInv, Progress, Trusting, ListStarts, event'.type = "sequence+" PROVE Progress'
<1> DEFINE es == Head(files).events
           kind == Head(files).kind
           q == Here
           f == [Top EXCEPT !.at = "item"]
<1>1. /\ stack # <<>> /\ Top.fn = "list" /\ Top.at = "start" /\ NextEvent /\ Parse
      /\ Continue(f)
  BY DEF ListStarts, At, NextIs, NextIsNot, NextEvent
<1>2. /\ ~At("mapping", "key") /\ Top.fn # "load" /\ files' = files
      /\ stack' = Append(Front(stack), f)
  BY <1>1 DEF At, Continue, Callers
<1> HIDE DEF es, kind, q, f
<1>3. /\ WellFormed(es) /\ kind \in {"project", "config"}
      /\ q \in 1..Len(es) /\ pos' = q /\ event' = es[q]
      /\ Trusted(es, kind) /\ Placed(es, kind, q, stack)
  BY <1>1, <1>2, AtEvent DEF es, kind, q
<1>4. Placed(es, kind, q + 1, stack')
  <2>1. PICK c, k, i : ReadBy(es, kind, c, k, i) /\ ListAtStart(es, q, stack, c, k, i)
    BY <1>1, <1>2, <1>3, WhichPlace
  <2>2. c \in Seq(Range(c)) /\ k \in Kinds /\ es[q].type = "sequence+"
    BY <1>3, <2>1, ReadByIs
  <2>3. ListAtItem(es, q + 1, stack', c, k, i)
    <3>1. ListAtItem(es, q + 1, Append(Front(stack), [Last(stack) EXCEPT !.at = "item"]),
                     c, k, i)
      BY <1>3, <2>1, <2>2, StartsList, Zenon
    <3> QED BY <1>2, <3>1 DEF f, Top
  <2> QED BY <2>1, <2>3 DEF Placed, InReader
<1>5. Placed(es, kind, pos' + 1, stack')
  BY <1>3, <1>4
<1> QED BY <1>1, <1>2, <1>5, GoesOn DEF es, kind

\* A list that ends is all that its key has.
LEMMA ListEndsOn ==
    ASSUME IInv, Progress, Trusting, ListEnds, event'.type = "sequence-" PROVE Progress'
<1> DEFINE es == Head(files).events
           kind == Head(files).kind
           q == Here
<1>1. /\ stack # <<>> /\ Top.fn = "list" /\ Top.at = "item" /\ NextEvent /\ Parse /\ Return
  BY DEF ListEnds, At, NextIs, NextIsNot, NextEvent
<1>2. /\ ~At("mapping", "key") /\ Top.fn # "load" /\ files' = files
      /\ stack' = Front(stack)
  BY <1>1 DEF At, Return, Callers
<1> HIDE DEF es, kind, q
<1>3. /\ WellFormed(es) /\ kind \in {"project", "config"}
      /\ q \in 1..Len(es) /\ pos' = q /\ event' = es[q]
      /\ Trusted(es, kind) /\ Placed(es, kind, q, stack)
  BY <1>1, <1>2, AtEvent DEF es, kind, q
<1>4. Placed(es, kind, q + 1, stack')
  <2>1. PICK c, k, i : ReadBy(es, kind, c, k, i) /\ ListAtItem(es, q, stack, c, k, i)
    BY <1>1, <1>2, <1>3, WhichPlace
  <2>2. c \in Seq(Range(c)) /\ k \in Kinds /\ es[q].type = "sequence-"
    BY <1>3, <2>1, ReadByIs
  <2>3. MapAtKey(es, q + 1, stack', c, k, i)
    BY <1>2, <1>3, <2>1, <2>2, EndsList
  <2> QED BY <2>1, <2>3 DEF Placed, InReader
<1>5. Placed(es, kind, pos' + 1, stack')
  BY <1>3, <1>4
<1> QED BY <1>1, <1>2, <1>5, GoesOn DEF es, kind

\* An item is read as a mapping, from the event that has just been read.
LEMMA ListItemOn == ASSUME IInv, Progress, Trusting, ListItem PROVE Progress'
<1> DEFINE es == Head(files).events
           kind == Head(files).kind
           q == Here
<1>1. /\ stack # <<>> /\ Top.fn = "list" /\ Top.at = "item" /\ Parse
      /\ event'.type \notin {"sequence-", "error"} /\ keep_in_place' = TRUE
      /\ stack' = Append(stack, Mapping(Top.key)) /\ files' = files
  BY DEF ListItem, At, Call
<1>2. ~At("mapping", "key") /\ Top.fn # "load"
  BY <1>1 DEF At
<1> HIDE DEF es, kind, q
<1>3. /\ WellFormed(es) /\ kind \in {"project", "config"} /\ Len(es) \in Nat
      /\ q \in 1..Len(es) /\ pos' = q /\ event' = es[q]
      /\ Trusted(es, kind) /\ Placed(es, kind, q, stack)
  BY <1>1, <1>2, AtEvent DEF es, kind, q
<1>4. broken' <=> event'.type = "error"
  BY <1>1, <1>2, Known
<1>5. Placed(es, kind, q, stack')
  <2>1. PICK c, k, i : ReadBy(es, kind, c, k, i) /\ ListAtItem(es, q, stack, c, k, i)
    BY <1>1, <1>2, <1>3, WhichPlace
  <2>2. es[q].type \notin {"sequence-", "error"}
    BY <1>1, <1>3
  <2>3. /\ ReadBy(es, kind, stack, Last(stack).key, q)
        /\ MapAtStart(es, q, Append(stack, Mapping(Last(stack).key)), stack, Last(stack).key, q)
    BY <1>3, <2>1, <2>2, StartsItem
  <2>4. MapAtStart(es, q, stack', stack, Last(stack).key, q)
    BY <1>1, <2>3 DEF Top
  <2> QED BY <2>3, <2>4 DEF Placed, InReader
<1>6. Here' = pos' /\ pos' \in 0..Len(es)
  BY <1>1, <1>3 DEF Here
<1>7. es = Head(files').events /\ kind = Head(files').kind
  BY <1>1 DEF es, kind
<1> QED BY <1>1, <1>3, <1>4, <1>5, <1>6, <1>7 DEF Progress, Reading
\* The reader of a value that is not known.
LEMMA SkipStartsOn ==
    ASSUME IInv, Progress, Trusting, SkipStarts, event'.type # "error" PROVE Progress'
<1> DEFINE es == Head(files).events
           kind == Head(files).kind
           q == Here
           f == [Top EXCEPT !.at = event'.type, !.deep = 1]
<1>1. /\ stack # <<>> /\ Top.fn = "skip" /\ Top.at = "start" /\ NextEvent /\ Parse
      /\ \/ event'.type \notin Starts \cup {"error"} /\ Return
         \/ event'.type \in Starts /\ Continue(f)
  BY DEF SkipStarts, At, NextIs, NextIsNot, NextEvent
<1>2. /\ ~At("mapping", "key") /\ Top.fn # "load" /\ files' = files
      /\ \/ event'.type \notin Starts \cup {"error"} /\ stack' = Front(stack)
         \/ event'.type \in Starts /\ stack' = Append(Front(stack), f)
  BY <1>1 DEF At, Continue, Callers, Return
<1> HIDE DEF es, kind, q
<1>3. /\ WellFormed(es) /\ kind \in {"project", "config"}
      /\ q \in 1..Len(es) /\ pos' = q /\ event' = es[q]
      /\ Trusted(es, kind) /\ Placed(es, kind, q, stack)
  BY <1>1, <1>2, AtEvent DEF es, kind, q
<1>4. Placed(es, kind, q + 1, stack')
  <2>1. PICK c, k, i : ReadBy(es, kind, c, k, i) /\ SkipAtStart(es, q, stack, c, k, i)
    BY <1>1, <1>2, <1>3, WhichPlace
  <2>2. c \in Seq(Range(c)) /\ k \in Kinds
    BY <1>3, <2>1, ReadByIs
  <2>3. CASE event'.type \notin Starts \cup {"error"} /\ stack' = Front(stack)
    <3>1. es[q].type \notin Starts \cup {"error"}
      BY <1>3, <2>3
    <3>2. MapAtKey(es, q + 1, stack', c, k, i)
      BY <1>3, <2>1, <2>2, <2>3, <3>1, SkipsLeaf
    <3> QED BY <2>1, <3>2 DEF Placed, InReader
  <2>4. CASE event'.type \in Starts /\ stack' = Append(Front(stack), f)
    <3> DEFINE t == es[q].type
    <3>1. t \in Starts
      BY <1>3, <2>4
    <3>2. stack' = Append(Front(stack), [Last(stack) EXCEPT !.at = t, !.deep = 1])
      BY <1>3, <2>4 DEF Top
    <3>3. SkipInside(es, q + 1,
                     Append(Front(stack), [Last(stack) EXCEPT !.at = t, !.deep = 1]), c, k, i)
      BY <1>3, <2>1, <2>2, <3>1, StartsSkip, Zenon
    <3> HIDE DEF f, t
    <3>4. SkipInside(es, q + 1, stack', c, k, i)
      BY <3>2, <3>3
    <3> QED BY <2>1, <3>4 DEF Placed, InReader
  <2> QED BY <1>2, <2>3, <2>4
<1>5. Placed(es, kind, pos' + 1, stack')
  BY <1>3, <1>4
<1> QED BY <1>1, <1>2, <1>5, GoesOn DEF es, kind

\* What is skipped is left where its own end is.
LEMMA SkippingOn ==
    ASSUME IInv, Progress, Trusting, NEW t \in Starts, Skip(t),
           event'.type \notin {"error", "stream-"}
    PROVE  Progress'
<1> DEFINE es == Head(files).events
           kind == Head(files).kind
           q == Here
           f == [Top EXCEPT !.deep = Deeper(t)]
<1>1. /\ stack # <<>> /\ Top.fn = "skip" /\ Top.at = t /\ NextEvent /\ Parse /\ t # "start"
      /\ \/ Deeper(t) = 0 /\ Return
         \/ Deeper(t) # 0 /\ Continue(f)
  BY DEF Skip, At, NextEvent, Starts
<1>2. /\ ~At("mapping", "key") /\ Top.fn # "load" /\ files' = files
      /\ \/ Deeper(t) = 0 /\ stack' = Front(stack)
         \/ Deeper(t) # 0 /\ stack' = Append(Front(stack), f)
  BY <1>1 DEF At, Continue, Callers, Return
<1> HIDE DEF es, kind, q
<1>3. /\ WellFormed(es) /\ kind \in {"project", "config"}
      /\ q \in 1..Len(es) /\ pos' = q /\ event' = es[q]
      /\ Trusted(es, kind) /\ Placed(es, kind, q, stack)
  BY <1>1, <1>2, AtEvent DEF es, kind, q
<1>4. Placed(es, kind, q + 1, stack')
  <2>1. PICK c, k, i : ReadBy(es, kind, c, k, i) /\ SkipInside(es, q, stack, c, k, i)
    BY <1>1, <1>2, <1>3, WhichPlace
  <2>2. c \in Seq(Range(c)) /\ k \in Kinds
    BY <1>3, <2>1, ReadByIs
  <2>3. PICK v, u, d :
          /\ InSkip(es, i, v, u, d, q)
          /\ es[v - 1].value \notin ValueKeys(k) \cup ListKeys(k)
          /\ stack = Append(Append(c, MapCall("key", k, Part(es, k, i, q))), SkipCall(u, d))
    BY <2>1 DEF SkipInside
  <2> DEFINE m == MapCall("key", k, Part(es, k, i, q))
             e == Cardinality(OpenOf(es, v, t, Inside(es)[q + 1]))
  <2>4. Top = SkipCall(u, d) /\ Front(stack) = Append(c, m)
    <3> HIDE DEF m
    <3>1. stack = Append(Append(c, m), SkipCall(u, d))
      BY <2>3 DEF m
    <3> QED BY <2>2, <3>1, Pushed DEF Top
  <2>5. u = t /\ Top.deep = d
    BY <1>1, <2>4 DEF SkipCall
  <2>6. InSkip(es, i, v, t, d, q)
    BY <2>3, <2>5
  <2>7. Deeper(t) = e
    <3>1. /\ es[q].type = t => e = d + 1
          /\ es[q].type = EndOf(t) => e = d - 1
          /\ es[q].type # t /\ es[q].type # EndOf(t) => e = d
      BY <1>3, <2>6, DeeperIs
    <3> HIDE DEF e
    <3> QED BY <1>3, <2>5, <3>1 DEF Deeper
  <2>8. /\ e = 0 => AtKey(es, i, q + 1)
        /\ e # 0 => InSkip(es, i, v, t, e, q + 1)
    <3>1. es[q].type # "error"
      BY <1>3
    <3> QED BY <1>3, <2>6, <3>1, SkipGoes
  <2>9. Part(es, k, i, q + 1) = Part(es, k, i, q)
    BY <1>3, <2>3, SkipSame
  <2> HIDE DEF e, m
  <2>10. CASE Deeper(t) = 0 /\ stack' = Front(stack)
    <3>1. MapAtKey(es, q + 1, stack', c, k, i)
      BY <2>4, <2>7, <2>8, <2>9, <2>10 DEF MapAtKey, m
    <3> QED BY <2>1, <3>1 DEF Placed, InReader
  <2>11. CASE Deeper(t) # 0 /\ stack' = Append(Front(stack), f)
    <3>1. f = SkipCall(t, e)
      <4> DEFINE a == Top
      <4>1. a = SkipCall(t, d)
        BY <2>4, <2>5
      <4> HIDE DEF a
      <4>2. [a EXCEPT !.deep = e] = SkipCall(t, e)
        BY <4>1, SkipOn, SkipWith
      <4> QED BY <2>7, <4>2 DEF a
    <3> HIDE DEF f
    <3>2. SkipInside(es, q + 1, stack', c, k, i)
      BY <2>3, <2>4, <2>7, <2>8, <2>9, <2>11, <3>1 DEF SkipInside, m
    <3> QED BY <2>1, <3>2 DEF Placed, InReader
  <2> QED BY <1>2, <2>10, <2>11
<1>5. Placed(es, kind, pos' + 1, stack')
  BY <1>3, <1>4
<1> QED BY <1>1, <1>2, <1>5, GoesOn DEF es, kind

\* What is not trusted is not followed, nor is what has been closed.
LEMMA OffOn ==
    ASSUME (UNCHANGED files /\ ~Trusting) \/ stack' = <<>> PROVE Progress'
BY DEF Progress, Trusting

\* Every step leaves the readers where they should be.
LEMMA StepOn == ASSUME IInv, Progress, [Next]_vars PROVE Progress'
<1>1. CASE UNCHANGED vars \/ Done
  <2>1. UNCHANGED vars
    BY <1>1 DEF Done
  <2>2. /\ files' = files /\ stack' = stack /\ pos' = pos /\ event' = event
        /\ broken' = broken /\ keep_in_place' = keep_in_place
    BY <2>1 DEF vars
  <2>3. Here' = Here /\ At("mapping", "key")' = At("mapping", "key") /\ Trusting' = Trusting
    BY <2>2 DEF Here, At, Top, Trusting
  <2> QED BY <2>2, <2>3 DEF Progress, Reading
<1>2. CASE Open
  BY <1>2, OpenOn
<1>3. CASE ReadEvent
  <2>1. CASE stack' = <<>>
    BY <2>1, OffOn
  <2>2. CASE ~Trusting /\ stack' # <<>>
    <3>1. UNCHANGED files
      BY <1>3, <2>2 DEF ReadEvent, LoadDocument, LoadPasses, LoadEnds, MappingStarts,
         MappingEnds, MappingFails, Key, Value, ListStarts, ListEnds, ListItem, SkipStarts,
         Skip, Fail, Close, Call, Continue, Return
    <3> QED BY <2>2, <3>1, OffOn
  <2>3. CASE Trusting /\ stack' # <<>>
    <3>1. ~Fail /\ \A o : ~Close(o)
      BY <2>3 DEF Fail, Close
    <3>2. CASE LoadDocument \/ LoadPasses \/ LoadEnds
      BY <2>3, <3>1, <3>2, LoadDocumentOn, LoadPassesOn DEF LoadEnds
    <3>3. CASE MappingStarts \/ MappingEnds \/ MappingFails \/ Key
      <4>1. CASE MappingStarts
        <5>1. event'.type = "mapping+"
          BY <3>1, <4>1 DEF MappingStarts, NextIs
        <5> QED BY <2>3, <4>1, <5>1, MappingStartsOn
      <4> QED BY <2>3, <3>1, <3>3, <4>1, MappingEndsOn, KeyOn DEF MappingFails
    <3>4. CASE \E kind \in Kinds : \E k \in ValueKeys(kind) : Value(k)
      BY <2>3, <3>4, ValueOn
    <3>5. CASE ListStarts \/ ListEnds \/ ListItem
      <4>1. CASE ListStarts
        <5>1. event'.type = "sequence+"
          BY <3>1, <4>1 DEF ListStarts, NextIs
        <5> QED BY <2>3, <4>1, <5>1, ListStartsOn
      <4>2. CASE ListEnds
        <5>1. event'.type = "sequence-"
          BY <3>1, <4>2 DEF ListEnds, NextIs
        <5> QED BY <2>3, <4>2, <5>1, ListEndsOn
      <4> QED BY <2>3, <3>5, <4>1, <4>2, ListItemOn
    <3>6. CASE SkipStarts
      <4>1. event'.type # "error"
        <5>1. \/ NextIsNot(Starts \cup {"error"}) \/ NextIs(Starts)
          BY <3>1, <3>6 DEF SkipStarts
        <5> QED BY <5>1 DEF NextIs, NextIsNot, Starts
      <4> QED BY <2>3, <3>6, <4>1, SkipStartsOn
    <3>7. ASSUME NEW t \in Starts, Skip(t) PROVE Progress'
      <4>1. event'.type \notin {"error", "stream-"}
        <5>1. event'.type \in {"error", "stream-"} => Fail
          BY <3>7 DEF Skip
        <5> QED BY <3>1, <5>1
      <4> QED BY <2>3, <3>7, <4>1, SkippingOn
    <3> QED BY <1>3, <3>2, <3>3, <3>4, <3>5, <3>6, <3>7 DEF ReadEvent
  <2> QED BY <2>1, <2>2, <2>3
<1> QED BY <1>1, <1>2, <1>3 DEF Next
-----------------------------------------------------------------------------
(* What a file is read as.                                                 *)

\* What must hold of what a file is read as.
AsWritten(f, obj) ==
    LET es == f.events
        first == {r \in Roots(es) : \A q \in Roots(es) : r <= q}
    IN  \A root \in first : Complete(es) /\ Fits(es, f.kind, root) =>
            obj = Meaning(es, f.kind, root)

Cut(es) ==
    /\ ~Complete(es) /\ \A j \in DOMAIN es : es[j].type # "document-"
    /\ Level(es, Len(es)) > 2 /\ ScalarsGiven(es)
CutNothing(f, obj) == Cut(f.events) => obj = NULL

ReadSo == /\ read \in Seq(Range(read))
          /\ \A i \in DOMAIN read : /\ AsWritten(read[i].file, read[i].obj)
                                    /\ CutNothing(read[i].file, read[i].obj)

\* The first root is the node of the first document.
LEMMA FirstIs ==
    ASSUME NEW es, WellFormed(es), NEW root \in Roots(es), \A q \in Roots(es) : root <= q
    PROVE  FirstNode(es, root)
<1>1. /\ Len(es) \in Nat /\ DOMAIN es = 1..Len(es) /\ DocumentsOK(es) /\ StreamOK(es)
      /\ root \in Nodes(es) /\ root \in 1..Len(es) /\ Level(es, root) = 2
  BY FormedIs DEF Roots, Nodes
<1>2. es[root - 1].type = "document+"
  BY <1>1 DEF DocumentsOK
<1>3. root # 1
  <2> SUFFICES ASSUME root = 1 PROVE FALSE
    OBVIOUS
  <2>1. Inside(es)[1] = <<>>
    BY <1>1, InsideNext
  <2>2. Level(es, 1) = 0
    BY <2>1 DEF Level
  <2> QED BY <1>1, <2>2
<1>4. ASSUME NEW k \in 1..root - 2 PROVE es[k].type # "document+"
  <2> SUFFICES ASSUME es[k].type = "document+" PROVE FALSE
    OBVIOUS
  <2>0. Len(es) \in Nat /\ root \in 1..Len(es)
    BY <1>1
  <2>1. k \in 1..Len(es) /\ k + 1 \in 1..Len(es) /\ k + 1 < root /\ k + 1 # Len(es)
    BY <2>0
  <2>2. Level(es, k) = 1 /\ (k + 1 \in Nodes(es) \/ es[k + 1].type = "error")
    <3>1. DocumentsOK(es) /\ k \in DOMAIN es /\ es[k].type = "document+"
      BY <1>1, <2>1
    <3> QED BY <3>1 DEF DocumentsOK
  <2>3. es[k + 1].type # "error"
    BY <1>1, <2>1 DEF StreamOK
  <2>4. es[k].type \in Starts
    BY DEF Starts
  <2>5. Level(es, k + 1) = Level(es, k) + 1
    BY <2>1, <2>4, HeldFirst
  <2>6. k + 1 \in Roots(es)
    <3>1. Level(es, k + 1) = 2
      BY <2>2, <2>5
    <3> QED BY <2>2, <2>3, <3>1 DEF Roots
  <2>7. root <= k + 1
    BY <2>6
  <2> QED BY <2>0, <2>1, <2>7
<1>5. root \in 2..Len(es)
  BY <1>1, <1>3
<1> QED BY <1>2, <1>4, <1>5 DEF FirstNode

\* There is one.
LEMMA OneFirst ==
    ASSUME NEW es, WellFormed(es), NEW r, NEW s, FirstNode(es, r), FirstNode(es, s)
    PROVE  r = s
<1>1. /\ Len(es) \in Nat /\ r \in 2..Len(es) /\ s \in 2..Len(es)
      /\ es[r - 1].type = "document+" /\ es[s - 1].type = "document+"
  BY FormedIs DEF FirstNode
<1>2. ~(r < s)
  <2> SUFFICES ASSUME r < s PROVE FALSE
    OBVIOUS
  <2>1. r - 1 \in 1..s - 2
    BY <1>1
  <2> QED BY <1>1, <2>1 DEF FirstNode
<1>3. ~(s < r)
  <2> SUFFICES ASSUME s < r PROVE FALSE
    OBVIOUS
  <2>1. s - 1 \in 1..r - 2
    BY <1>1
  <2> QED BY <1>1, <2>1 DEF FirstNode
<1> QED BY <1>1, <1>2, <1>3

\* What fits can be trusted.
LEMMA FitsTrusted ==
    ASSUME NEW es, WellFormed(es), NEW kind, NEW root, FirstNode(es, root),
           Fits(es, kind, root)
    PROVE  Trusted(es, kind)
<1> SUFFICES ASSUME NEW r, FirstNode(es, r), es[r].type = "mapping+"
             PROVE  /\ ValuesFit(es, kind, r)
                    /\ \A j \in Keys(es, r) :
                        es[j].value \in ListKeys(kind) /\ es[j + 1].type = "sequence+" =>
                            \A k \in Children(es, j + 1) :
                                es[k].type = "mapping+" => ValuesFit(es, es[j].value, k)
  BY Zenon DEF Trusted
<1>1. r = root
  BY OneFirst
<1> QED BY <1>1 DEF Fits, ListsFit

\* So can what has scalars for all its values.
LEMMA ScalarsTrusted ==
    ASSUME NEW es, WellFormed(es), NEW kind \in {"project", "config"}, ScalarsGiven(es)
    PROVE  Trusted(es, kind)
<1> SUFFICES ASSUME NEW r, FirstNode(es, r), es[r].type = "mapping+"
             PROVE  /\ ValuesFit(es, kind, r)
                    /\ \A j \in Keys(es, r) :
                        es[j].value \in ListKeys(kind) /\ es[j + 1].type = "sequence+" =>
                            \A k \in Children(es, j + 1) :
                                es[k].type = "mapping+" => ValuesFit(es, es[j].value, k)
  BY Zenon DEF Trusted
<1>1. kind \in Kinds /\ ListKeys(kind) \subseteq Kinds
  BY DEF Kinds, ListKeys
<1>2. r \in 1..Len(es) /\ DOMAIN es = 1..Len(es)
  BY FirstLevel, FormedIs
<1>3. r \in Nodes(es)
  BY <1>2 DEF Nodes
<1>4. \A i : Children(es, i) \subseteq Nodes(es)
  BY DEF Children
<1> QED BY <1>1, <1>3, <1>4 DEF ScalarsGiven

\* Nothing that fits is read in vain.
LEMMA FailsNot ==
    ASSUME IInv, Progress, Trusting, stack # <<>>, Top.fn # "load",
           NEW es, es = Head(files).events, NEW kind, kind = Head(files).kind,
           Complete(es), NEW root, FirstNode(es, root), Fits(es, kind, root)
    PROVE  /\ ~(MappingStarts /\ event'.type # "mapping+")
           /\ ~MappingFails
           /\ ~(ListStarts /\ event'.type # "sequence+")
           /\ ~(ListEnds /\ event'.type = "error")
           /\ ~(SkipStarts /\ event'.type = "error")
           /\ \A t \in Starts : ~(Skip(t) /\ event'.type \in {"error", "stream-"})
<1> DEFINE q == Here
<1>1. /\ WellFormed(es) /\ kind \in {"project", "config"} /\ Len(es) \in Nat
      /\ Fits(es, kind, root) /\ es[root].type = "mapping+" /\ ListsFit(es, kind, root)
  <2>1. Head(files) \in Files
    BY DEF IInv, FilesOK
  <2>2. WellFormed(es) /\ kind \in {"project", "config"}
    BY <2>1, FilesAssumption
  <2> QED BY <2>2, FormedIs DEF Fits
<1>2. ~broken
  BY DEF Progress, Reading
<1> HIDE DEF q
<1>3. ASSUME Parse, ~At("mapping", "key") \/ event'.type # "none"
      PROVE  /\ q \in 1..Len(es) /\ event' = es[q] /\ event'.type # "error"
             /\ Trusted(es, kind) /\ Placed(es, kind, q, stack)
  BY <1>3, AtEvent DEF q
<1>4. ~(MappingStarts /\ event'.type # "mapping+")
  <2> SUFFICES ASSUME MappingStarts, event'.type # "mapping+" PROVE FALSE
    OBVIOUS
  <2>1. Parse /\ Top.fn = "mapping" /\ Top.at = "start" /\ ~At("mapping", "key")
    BY DEF MappingStarts, At, NextIs, NextIsNot, NextEvent
  <2>2. /\ event' = es[q] /\ Trusted(es, kind) /\ Placed(es, kind, q, stack)
    BY <1>3, <2>1
  <2>3. PICK c, k, i : ReadBy(es, kind, c, k, i) /\ MapAtStart(es, q, stack, c, k, i)
    BY <1>1, <2>1, <2>2, WhichPlace
  <2>4. q = i
    BY <2>3 DEF MapAtStart
  <2>5. CASE FirstNode(es, i)
    BY <1>1, <2>2, <2>4, <2>5, OneFirst
  <2>6. ASSUME NEW r, NEW s, FirstNode(es, r), k \in ListKeys(kind),
               InList(es, r, s, k, i), i \in Children(es, s)
        PROVE  FALSE
    <3>1. r = root
      BY <1>1, <2>6, OneFirst
    <3>2. /\ s - 1 \in Keys(es, root) /\ es[s - 1].value = k /\ s \in 1..Len(es)
      BY <1>1, <2>6, <3>1, InMappingIs DEF InList, AtValue
    <3>3. (s - 1) + 1 = s
      BY <1>1, <3>2
    <3> QED BY <1>1, <2>2, <2>4, <2>6, <3>2, <3>3 DEF ListsFit
  <2> QED BY <2>3, <2>5, <2>6 DEF ReadBy
<1>5. ~MappingFails
  <2> SUFFICES ASSUME MappingFails PROVE FALSE
    OBVIOUS
  <2>1. /\ Parse /\ Top.fn = "mapping" /\ Top.at = "key"
        /\ event'.type \notin {"mapping-", "scalar"} /\ NextEvent
    BY DEF MappingFails, At, NextIsNot, NextEvent
  <2>2. Placed(es, kind, Here, stack) /\ Trusted(es, kind)
    BY <1>2 DEF Progress, Reading, Trusting
  <2>3. Here \in 1..Len(es)
    BY <1>1, <2>1, <2>2, ReaderHere
  <2>4. event'.type # "none"
    <3>1. ~keep_in_place
      BY <2>1 DEF IInv, KeptForItem, At
    <3>2. Here = pos + 1 /\ pos # Len(es)
      BY <1>1, <2>3, <3>1 DEF Here
    <3>3. event' = es[pos + 1]
      BY <1>2, <2>1, <3>1, <3>2 DEF Parse
    <3>4. es[Here].type \in Starts \cup Ends \cup {"scalar", "alias", "error"}
      BY <1>1, <2>3, FormedIs
    <3> QED BY <3>2, <3>3, <3>4 DEF Starts, Ends, EndOf
  <2>5. q \in 1..Len(es) /\ event' = es[q] /\ event'.type # "error" /\ Placed(es, kind, q, stack)
    BY <1>3, <2>1, <2>4
  <2>6. PICK c, k, i : ReadBy(es, kind, c, k, i) /\ MapAtKey(es, q, stack, c, k, i)
    BY <1>1, <2>1, <2>5, WhichPlace
  <2>7. AtKey(es, i, q)
    BY <2>6 DEF MapAtKey
  <2>8. es[i].type = "mapping+"
    BY <1>1, <2>7, InMappingIs DEF AtKey
  <2>9. ValuesFit(es, k, i)
    BY <1>1, <2>2, <2>6, <2>8, ReadByIs
  <2>10. es[q].type \in {"mapping-", "scalar", "error"}
    BY <1>1, <2>7, <2>9, KeyEvents
  <2> QED BY <2>1, <2>5, <2>10
<1>6. ~(ListStarts /\ event'.type # "sequence+")
  <2> SUFFICES ASSUME ListStarts, event'.type # "sequence+" PROVE FALSE
    OBVIOUS
  <2>1. Parse /\ Top.fn = "list" /\ Top.at = "start" /\ ~At("mapping", "key")
    BY DEF ListStarts, At, NextIs, NextIsNot, NextEvent
  <2>2. /\ event' = es[q] /\ Trusted(es, kind) /\ Placed(es, kind, q, stack)
    BY <1>3, <2>1
  <2>3. PICK c, k, i : ReadBy(es, kind, c, k, i) /\ ListAtStart(es, q, stack, c, k, i)
    BY <1>1, <2>1, <2>2, WhichPlace
  <2>4. AtValue(es, i, q) /\ es[q - 1].value \in ListKeys(k)
    BY <2>3 DEF ListAtStart
  <2>5. k = kind /\ i = root
    BY <1>1, <2>3, <2>4, ReadByIs, OneFirst
  <2>6. q - 1 \in Keys(es, root) /\ (q - 1) + 1 = q
    BY <1>1, <2>4, <2>5, InMappingIs DEF AtValue
  <2> QED BY <1>1, <2>2, <2>4, <2>5, <2>6 DEF ListsFit
<1>7. ~(ListEnds /\ event'.type = "error")
  <2> SUFFICES ASSUME ListEnds, event'.type = "error" PROVE FALSE
    OBVIOUS
  <2>1. Parse
    BY DEF ListEnds, NextIs, NextEvent
  <2> QED BY <1>3, <2>1
<1>8. ~(SkipStarts /\ event'.type = "error")
  <2> SUFFICES ASSUME SkipStarts, event'.type = "error" PROVE FALSE
    OBVIOUS
  <2>1. Parse
    BY DEF SkipStarts, NextIs, NextIsNot, NextEvent
  <2> QED BY <1>3, <2>1
<1>9. ASSUME NEW t \in Starts, Skip(t), event'.type \in {"error", "stream-"} PROVE FALSE
  <2>1. Parse /\ Top.fn = "skip" /\ Top.at # "start"
    BY <1>9 DEF Skip, At, NextEvent, Starts
  <2>2. /\ event' = es[q] /\ event'.type # "error" /\ Placed(es, kind, q, stack)
    BY <1>3, <1>9, <2>1
  <2>3. PICK c, k, i : ReadBy(es, kind, c, k, i) /\ SkipInside(es, q, stack, c, k, i)
    BY <1>1, <2>1, <2>2, WhichPlace
  <2>4. PICK v, u, d : InSkip(es, i, v, u, d, q) /\ es[v - 1].value \notin ListKeys(k)
    BY <2>3 DEF SkipInside
  <2>5. es[q].type # "stream-"
    BY <1>1, <2>4, SkipSame
  <2> QED BY <1>9, <2>2, <2>5
<1> QED BY <1>4, <1>5, <1>6, <1>7, <1>8, <1>9

\* The reader of a file hands over what the file says.
LEMMA SeekingEnds ==
    ASSUME NEW es, WellFormed(es), NEW st, NEW q \in 1..Len(es), Seeking(es, q, st),
           NEW root, FirstNode(es, root), Complete(es),
           es[q].type \in {"document-", "stream-", "error"}
    PROVE  FALSE
<1>1. /\ Len(es) \in Nat /\ DOMAIN es = 1..Len(es) /\ EndsMatch(es) /\ StreamOK(es)
      /\ root \in 2..Len(es) /\ es[root - 1].type = "document+"
  BY FormedIs DEF FirstNode
<1>2. ~(root - 1 < q)
  <2> SUFFICES ASSUME root - 1 < q PROVE FALSE
    OBVIOUS
  <2>1. root \in 2..Len(es) /\ Len(es) \in Nat
    BY <1>1
  <2>2. root - 1 \in 1..q - 1 /\ root - 1 \in 1..Len(es)
    BY <2>1
  <2> QED BY <1>1, <2>2 DEF Seeking
<1>3. q # Len(es)
  <2>1. Len(es) \in Nat /\ root \in 2..Len(es)
    BY <1>1
  <2> QED BY <1>2, <2>1
<1>4. es[q].type = "document-"
  BY <1>1, <1>3 DEF StreamOK
<1>5. "document-" \in Ends /\ EndOf("document+") = "document-" /\ "document+" \in Starts
  BY DEF Ends, Starts, EndOf
<1>6. Level(es, q) > 0 /\ EndOf(es[Last(Inside(es)[q])].type) = "document-"
  BY <1>1, <1>4, <1>5 DEF EndsMatch
<1> DEFINE l == Last(Inside(es)[q])
<1>7. l \in 1..Len(es) /\ l < q /\ es[l].type \in Starts
  <2>1. q \in 1..Len(es) + 1
    BY <1>1
  <2>2. Nest(es, Inside(es)[q], q)
    BY <2>1, InsideNests
  <2>3. Len(Inside(es)[q]) > 0
    BY <1>6 DEF Level
  <2> QED BY <1>1, <2>1, <2>2, <2>3, LastOpen
<1>8. es[l].type = "document+"
  BY <1>5, <1>6, <1>7, EndsApart
<1>9. l \in 1..q - 1
  BY <1>7
<1> QED BY <1>7, <1>8, <1>9 DEF Seeking

\* What the only call there is has in hand.
LEMMA LoneTop ==
    ASSUME NEW o, stack = <<LoadCall(o)>> PROVE Top.obj = o
<1>1. stack = Append(<<>>, LoadCall(o))
  BY Chains
<1>2. Top = LoadCall(o)
  BY <1>1, EmptyStack, Pushed DEF Top
<1> QED BY <1>2 DEF LoadCall

\* What is trusted is closed, where the file's reader ends, as it should be.
LEMMA LoadSays ==
    ASSUME IInv, Progress, LoadEnds, Trusting, NEW f, f = Head(files)
    PROVE  AsWritten(f, Top.obj) /\ CutNothing(f, Top.obj)
<1> DEFINE es == f.events
           kind == f.kind
           q == Here
<1>1. /\ stack # <<>> /\ Top.fn = "load" /\ Parse
      /\ event'.type \in {"document-", "stream-", "error"}
  BY DEF LoadEnds, InLoad, NextIs, NextEvent
<1>2. ~At("mapping", "key")
  BY <1>1 DEF At
<1>3. es = Head(files).events /\ kind = Head(files).kind
  OBVIOUS
<1> HIDE DEF es, kind, q
<1>4. /\ WellFormed(es) /\ kind \in {"project", "config"} /\ Len(es) \in Nat
      /\ q \in 1..Len(es) => event' = es[q]
      /\ q \notin 1..Len(es) => event' = NoEvent
      /\ Placed(es, kind, q, stack)
  BY <1>1, <1>2, <1>3, Known DEF q
<1>5. q \in 1..Len(es) /\ es[q].type \in {"document-", "stream-", "error"}
  BY <1>1, <1>4 DEF NoEvent
<1>6. Seeking(es, q, stack) \/ Found(es, kind, q, stack)
  BY <1>1, <1>4, WhichPlace
<1>7. ASSUME NEW root \in Roots(es), \A k \in Roots(es) : root <= k, Complete(es),
             Fits(es, kind, root)
      PROVE  Top.obj = Meaning(es, kind, root)
  <2>1. FirstNode(es, root)
    BY <1>4, <1>7, FirstIs
  <2>2. Found(es, kind, q, stack)
    BY <1>4, <1>5, <1>6, <1>7, <2>1, SeekingEnds
  <2>3. PICK r : FirstNode(es, r) /\ stack = <<LoadCall(Meaning(es, kind, r))>>
    BY <2>2 DEF Found
  <2>4. r = root
    BY <1>4, <2>1, <2>3, OneFirst
  <2> QED BY <2>3, <2>4, LoneTop
<1>8. ASSUME Cut(es) PROVE Top.obj = NULL
  <2>1. CASE Seeking(es, q, stack)
    BY <2>1, LoneTop DEF Seeking
  <2>2. CASE Found(es, kind, q, stack)
    <3>1. Level(es, q) = 2 /\ DOMAIN es = 1..Len(es) /\ StreamOK(es)
      BY <1>4, <2>2, FoundEvents, FormedIs
    <3>2. es[q].type # "document-"
      BY <1>5, <1>8, <3>1 DEF Cut
    <3>3. q = Len(es)
      BY <1>5, <3>1, <3>2 DEF StreamOK
    <3>4. Level(es, Len(es)) > 2
      BY <1>8 DEF Cut
    <3> QED BY <3>1, <3>3, <3>4
  <2> QED BY <1>6, <2>1, <2>2
<1>9. AsWritten(f, Top.obj)
  BY <1>7 DEF AsWritten, es, kind
<1>10. CutNothing(f, Top.obj)
  BY <1>8 DEF CutNothing, es
<1> QED BY <1>9, <1>10

\* What must hold of a file that is not to be trusted is nothing.
LEMMA Untrusted ==
    ASSUME IInv, stack # <<>>, ~Trusting, NEW f, f = Head(files), NEW obj
    PROVE  AsWritten(f, obj) /\ CutNothing(f, obj)
<1>1. WellFormed(f.events) /\ f.kind \in {"project", "config"}
  BY FilesAssumption DEF IInv, FilesOK
<1>2. ~Trusted(f.events, f.kind)
  BY DEF Trusting
<1>3. ASSUME NEW root \in Roots(f.events), \A k \in Roots(f.events) : root <= k
      PROVE  ~Fits(f.events, f.kind, root)
  BY <1>1, <1>2, <1>3, FirstIs, FitsTrusted
<1>4. ~Cut(f.events)
  BY <1>1, <1>2, ScalarsTrusted DEF Cut
<1>5. AsWritten(f, obj)
  BY <1>3 DEF AsWritten
<1> QED BY <1>4, <1>5 DEF CutNothing

\* A reader gives up.
Gives == \/ MappingStarts /\ event'.type # "mapping+"
         \/ MappingFails
         \/ ListStarts /\ event'.type # "sequence+"
         \/ ListEnds /\ event'.type = "error"
         \/ SkipStarts /\ event'.type = "error"
         \/ \E t \in Starts : Skip(t) /\ event'.type \in {"error", "stream-"}

\* What fits leaves no reader a reason to give up, and one that does leaves nothing.
LEMMA FailSays ==
    ASSUME IInv, Progress, Gives, Trusting, stack # <<>>, Top.fn # "load",
           NEW f, f = Head(files)
    PROVE  AsWritten(f, NULL) /\ CutNothing(f, NULL)
<1> DEFINE es == f.events
           kind == f.kind
<1>1. es = Head(files).events /\ kind = Head(files).kind
  OBVIOUS
<1>2. WellFormed(es)
  BY FilesAssumption DEF IInv, FilesOK
<1> HIDE DEF es, kind
<1>3. ASSUME NEW root \in Roots(es), \A k \in Roots(es) : root <= k, Complete(es),
             Fits(es, kind, root)
      PROVE  FALSE
  <2>1. FirstNode(es, root)
    BY <1>2, <1>3, FirstIs
  <2> QED BY <1>1, <1>3, <2>1, FailsNot DEF Gives
<1>4. AsWritten(f, NULL)
  BY <1>3 DEF AsWritten, es, kind
<1> QED BY <1>4 DEF CutNothing

\* One more file has been read.
LEMMA ReadOn ==
    ASSUME ReadSo, NEW obj, Close(obj), AsWritten(Head(files), obj),
           CutNothing(Head(files), obj)
    PROVE  ReadSo'
<1> DEFINE x == [file |-> Head(files), obj |-> obj]
           F == Range(read) \cup {x}
<1>1. x.file = Head(files) /\ x.obj = obj /\ read' = Append(read, x)
  BY DEF Close
<1>2. read \in Seq(Range(read)) /\ Range(read) \subseteq F /\ x \in F
  BY DEF ReadSo
<1> HIDE DEF x
<1>3. read \in Seq(F)
  BY <1>2
<1> HIDE DEF F
<1>4. /\ read' \in Seq(F) /\ Len(read') = Len(read) + 1 /\ Len(read) \in Nat
      /\ read'[Len(read) + 1] = x
      /\ \A i \in 1..Len(read) : read'[i] = read[i]
  BY <1>1, <1>2, <1>3
<1>5. DOMAIN read = 1..Len(read) /\ DOMAIN read' = 1..Len(read) + 1
  BY <1>3, <1>4
<1>6. read' \in Seq(Range(read'))
  BY <1>4, IsList
<1>7. ASSUME NEW i \in DOMAIN read'
      PROVE  AsWritten(read'[i].file, read'[i].obj) /\ CutNothing(read'[i].file, read'[i].obj)
  <2>1. i \in 1..Len(read) \/ i = Len(read) + 1
    BY <1>4, <1>5
  <2>2. CASE i \in 1..Len(read)
    <3>1. read'[i] = read[i] /\ i \in DOMAIN read
      BY <1>4, <1>5, <2>2
    <3>2. AsWritten(read[i].file, read[i].obj) /\ CutNothing(read[i].file, read[i].obj)
      BY <3>1, Zenon DEF ReadSo
    <3> QED BY <3>1, <3>2, Zenon
  <2>3. CASE i = Len(read) + 1
    BY <1>1, <1>4, <2>3, Zenon
  <2> QED BY <2>1, <2>2, <2>3
<1> QED BY <1>6, <1>7, Zenon DEF ReadSo, AsWritten, CutNothing

\* Every step leaves what was read as it should be.
LEMMA StepRead == ASSUME IInv, Progress, ReadSo, [Next]_vars PROVE ReadSo'
<1>1. CASE UNCHANGED read
  BY <1>1, Zenon DEF ReadSo, AsWritten, CutNothing
<1>2. CASE LoadEnds
  <2>1. Close(Top.obj) /\ stack # <<>>
    BY <1>2 DEF LoadEnds, InLoad
  <2>2. AsWritten(Head(files), Top.obj) /\ CutNothing(Head(files), Top.obj)
    BY <1>2, <2>1, LoadSays, Untrusted
  <2> QED BY <2>1, <2>2, ReadOn
<1>3. CASE Gives /\ Fail
  <2>1. stack # <<>> /\ Top.fn # "load"
    BY <1>3 DEF Gives, MappingStarts, MappingFails, ListStarts, ListEnds, SkipStarts, Skip, At
  <2>2. AsWritten(Head(files), NULL) /\ CutNothing(Head(files), NULL)
    BY <1>3, <2>1, FailSays, Untrusted
  <2> QED BY <1>3, <2>2, ReadOn DEF Fail
<1>4. UNCHANGED read \/ LoadEnds \/ (Gives /\ Fail)
  <2>1. CASE Open \/ Done \/ UNCHANGED vars
    BY <2>1 DEF Open, Done, vars
  <2>2. CASE LoadDocument \/ LoadPasses \/ MappingEnds \/ Key \/ ListItem
    BY <2>2 DEF LoadDocument, LoadPasses, MappingEnds, Key, ListItem, Call, Continue
  <2>3. CASE \E kind \in Kinds : \E k \in ValueKeys(kind) : Value(k)
    BY <2>3 DEF Value, Continue
  <2>4. CASE MappingStarts \/ MappingFails
    BY <2>4 DEF MappingStarts, MappingFails, Gives, NextIs, NextIsNot, Continue
  <2>5. CASE ListStarts \/ ListEnds
    BY <2>5 DEF ListStarts, ListEnds, Gives, NextIs, NextIsNot, Continue, Return
  <2>6. CASE SkipStarts
    BY <2>6 DEF SkipStarts, Gives, NextIs, NextIsNot, Continue, Return
  <2>7. ASSUME NEW t \in Starts, Skip(t) PROVE UNCHANGED read \/ (Gives /\ Fail)
    BY <2>7 DEF Skip, Gives, Continue, Return
  <2> QED BY <2>1, <2>2, <2>3, <2>4, <2>5, <2>6, <2>7 DEF Next, ReadEvent
<1> QED BY <1>1, <1>2, <1>3, <1>4

-----------------------------------------------------------------------------
(* What every file is read as.                                             *)

\* Before the first file nothing has been read.
LEMMA InitRead == ASSUME Init PROVE Progress /\ ReadSo
<1>1. stack = <<>> /\ read = <<>>
  BY DEF Init
<1>2. ReadSo
  BY <1>1, EmptyStack DEF ReadSo
<1> QED BY <1>1, <1>2 DEF Progress

\* The readers are where the file says, and have read what was written.
THEOREM ReadersProgress == Spec => [](IInv /\ Progress /\ ReadSo)
<1>1. Init => IInv /\ Progress /\ ReadSo
  BY InitInv, InitRead
<1>2. IInv /\ Progress /\ ReadSo /\ [Next]_vars => (IInv /\ Progress /\ ReadSo)'
  BY StepInv, StepOn, StepRead
<1> QED BY <1>1, <1>2, PTL DEF Spec

\* A complete file whose first document fits its kind is read as what it says,
\* whatever is beside it and whatever was read before.
THEOREM AlwaysReadAsWritten == Spec => []ReadAsWritten
<1>1. ReadSo => ReadAsWritten
  BY Zenon DEF ReadSo, AsWritten, ReadAsWritten
<1> QED BY <1>1, ReadersProgress, PTL

\* A file that is cut short inside its first document is read as nothing.
THEOREM CutIsAlwaysNothing == Spec => []CutIsNothing
<1>1. ReadSo => CutIsNothing
  BY Zenon DEF ReadSo, CutNothing, Cut, CutIsNothing
<1> QED BY <1>1, ReadersProgress, PTL
==============================================================================
