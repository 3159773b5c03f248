----------------------------- MODULE WestonHeads -----------------------------
(***************************************************************************)
(* How connectors become outputs and where the outputs stand: the heads    *)
(* and outputs of libweston (src/libweston/compositor.c), the KMS backend  *)
(* that frees an output only when no flip of it is on its way              *)
(* (src/libweston/backend-drm/drm.c), and the part of the compositor that  *)
(* configures both from weston.ini (src/compositor/main.c).                *)
(***************************************************************************)
EXTENDS Integers, Sequences, FiniteSets, SequencesExt

CONSTANTS
    Heads,          \* connectors
    Connectors,     \* all of them, in the order they are found at start
    Removable,      \* those of a hub, which can disappear altogether
    Names,          \* of output sections; a head's default name is its own
    Configs,        \* the contents of weston.ini there can be
    Size,           \* per head: the size of its monitor
    Crtcs,          \* how many outputs the hardware can drive
    MaxClones,      \* MAX_CLONED_CONNECTORS
    MaxChanges,     \* a bound: how often connectors change
    MayFail,        \* whether enabling an output fails for other reasons
    NULL

ASSUME HeadsAssumption == Removable \subseteq Heads /\ Heads \subseteq Names
ASSUME ConnectorsAssumption ==
    Connectors \in Seq(Heads) /\ Range(Connectors) = Heads /\ IsInjective(Connectors)
ASSUME NumbersAssumption == {Crtcs, MaxClones, MaxChanges} \subseteq Nat /\ MayFail \in BOOLEAN
ASSUME SizeAssumption == Size \in [Heads -> Nat \X Nat]

VARIABLES
    config,         \* per name: its output section
    head_list, connected,
    source,         \* heads_changed_source
    tracked,        \* heads with a wet_head_tracker
    layoutput_list,
    wet,            \* per layoutput: its wet_output's output, or:
    output_list,    \* the enabled outputs
    out,            \* per name: the weston_output, names being unique
    place,          \* per name: where it is, and how large
    placed,         \* how the last pass ended, and whether outputs moved since
    failed,         \* wet_compositor::init_failed
    changes,        \* how often connectors have changed
    vanished,       \* heads whose connector disappeared once
    aborted         \* which assertion failed

vars == <<config, head_list, connected, source, tracked, layoutput_list, wet,
          output_list, out, place, placed, failed, changes, vanished,
          aborted>>

\* the names of outputs: that of the layoutput, or with the first head's
Outputs == {<<n>> : n \in Names} \cup (Names \X Heads)

None == <<>>                        \* output_list of the layoutput is empty
Left == <<"left", "over", "">>      \* its wet_output has lost its output

\* what a weston_output is, but for its place
WestonOutput ==
    [heads : Seq(Heads), deferred : {"no", "disable", "destroy"}]

\* what an output section says
Sections ==
    [same_as : Names \cup {NULL}, off : BOOLEAN, force : BOOLEAN,
     origin : {"", "true", "false"}, refer : Names \cup {NULL},
     direction : {"left", "right", "top", "bottom"},
     align : {"start", "center", "end"}]

ASSUME NullAssumption == NULL \notin Names \cup Outputs \cup WestonOutput
ASSUME ConfigsAssumption == Configs \subseteq [Names -> Sections \cup {NULL}]

\* a section that says nothing
Section == [same_as |-> NULL, off |-> FALSE, force |-> FALSE, origin |-> "",
            refer |-> NULL, direction |-> "left", align |-> "start"]

Init ==
    /\ config \in Configs
    /\ head_list = Connectors /\ connected \in SUBSET Heads /\ source = TRUE
    /\ tracked = {} /\ layoutput_list = <<>>
    /\ wet = [n \in Names |-> None]
    /\ output_list = <<>>
    /\ out = [o \in Outputs |-> NULL] /\ place = [o \in Outputs |-> NULL]
    /\ placed = "no" /\ failed = FALSE /\ changes = 0 /\ vanished = {}
    /\ aborted = "no"

\* The handlers work on a record of what they change, s.
Now(flipping) ==
    [wet |-> wet, out |-> out, place |-> place, list |-> output_list,
     tracked |-> tracked, los |-> layoutput_list,
     add |-> [n \in Names |-> <<>>], failed |-> FALSE, aborted |-> "no",
     flip |-> flipping \cup {o \in Outputs :
                                out[o] # NULL /\ out[o].deferred # "no"}]

OutputOf(s, h) ==
    LET os == {o \in Outputs : s.out[o] # NULL /\ h \in Range(s.out[o].heads)}
    IN  IF os = {} THEN NULL ELSE CHOOSE o \in os : TRUE
Enabled(s, h) == OutputOf(s, h) \in Range(s.list)

-----------------------------------------------------------------------------
(* Configuration.                                                          *)

\* drm_config_find_controlling_output_section: the section that names reach by
\* same-as, followed at most ten times
Controlling(h) ==
    LET follow[left \in 0 .. 10] ==
            [n \in Names |-> IF left = 0 \/ config[n] = NULL THEN NULL
                             ELSE IF config[n].same_as = NULL THEN n
                             ELSE follow[left - 1][config[n].same_as]]
    IN  follow[10][h]

\* the name of the layoutput of h
LayoutputOf(h) == IF Controlling(h) = NULL THEN h ELSE Controlling(h)

\* the section a layoutput was created with; one without has the defaults
SectionOf(n) == IF config[n] = NULL THEN Section ELSE config[n]

\* drm_head_should_force_enable
Forced(h) == Controlling(h) # NULL /\ config[Controlling(h)].force

Off(h) == Controlling(h) # NULL /\ config[Controlling(h)].off

\* drm_head_prepare_enable, wet_compositor_layoutput_add_head
PrepareEnable(s, h) ==
    LET n == LayoutputOf(h) IN
    IF Off(h) THEN s
    ELSE [s EXCEPT !.los = IF n \in Range(@) THEN @ ELSE Append(@, n),
                   !.add[n] = Append(@, h)]

-----------------------------------------------------------------------------
(* Taking outputs away.                                                    *)

\* weston_compositor_reflow_outputs and weston_compositor_remove_output
RemoveOutput(s, o) ==
    LET i == IF o \in Range(s.list) THEN CHOOSE k \in DOMAIN s.list : s.list[k] = o
             ELSE Len(s.list)
        after == {s.list[k] : k \in i + 1 .. Len(s.list)}
    IN  [s EXCEPT !.list = RemoveFirst(@, o),
                  !.place = [p \in Outputs |-> IF p \in after
                    THEN [s.place[p] EXCEPT !.x = @ - s.place[o].w]
                    ELSE s.place[p]]]

\* Mutant: the wet_output keeps the output that is freed.
ReleasedSilently(s, o) ==
    [RemoveOutput(s, o) EXCEPT !.out[o] = NULL, !.place[o] = NULL]

\* weston_output_release, with the destroy listener of its wet_output
Released(s, o) ==
    [RemoveOutput(s, o) EXCEPT !.out[o] = NULL, !.place[o] = NULL,
        !.wet = [n \in Names |-> IF @[n] = o THEN Left ELSE @[n]]]

\* drm_output_destroy
Destroyed(s, o) ==
    IF o \in s.flip THEN [s EXCEPT !.out[o].deferred = "destroy"]
    ELSE Released(s, o)

\* weston_output_disable and drm_output_disable
Disabled(s, o) ==
    IF o \notin s.flip THEN RemoveOutput(s, o)
    ELSE [s EXCEPT !.out[o].deferred = IF @ = "no" THEN "disable" ELSE @]

\* Mutant: an output is disabled with the first of its heads.
DetachedAll(s, h) ==
    LET o == OutputOf(s, h)
        t == [s EXCEPT !.out[o].heads = RemoveFirst(@, h)]
    IN  IF o \in Range(s.list) THEN Disabled(t, o) ELSE t

\* weston_head_detach
Detached(s, h) ==
    LET o == OutputOf(s, h)
        t == [s EXCEPT !.out[o].heads = RemoveFirst(@, h)]
    IN  IF o = NULL THEN s
        ELSE IF o \in Range(s.list) /\ t.out[o].heads = <<>> THEN Disabled(t, o)
        ELSE t

\* Mutant: the wet_output learns of the destruction when it happens.
HeadDisabledLate(s, h) ==
    LET o == OutputOf(s, h)
        t == Detached([s EXCEPT !.tracked = @ \ {h}], h)
    IN  IF t.out[o].heads # <<>> THEN t ELSE Destroyed(t, o)

\* drm_head_disable: the wet_output goes at once, its output maybe later
HeadDisabled(s, h) ==
    LET o == OutputOf(s, h)
        t == Detached([s EXCEPT !.tracked = @ \ {h}], h)
        forget == [n \in Names |-> IF s.wet[n] = o THEN None ELSE s.wet[n]]
    IN  IF o \notin Range(s.wet) THEN [s EXCEPT !.aborted = "disabling"]
        ELSE IF t.out[o].heads # <<>> THEN t
        ELSE Destroyed([t EXCEPT !.wet = forget], o)

-----------------------------------------------------------------------------
(* Making outputs.                                                         *)

\* the rest of the heads does not fit: there is one output per layoutput
Rest(s, n, rest) == [s EXCEPT !.add[n] = <<>>, !.failed = @ \/ rest # <<>>]

\* drm_try_attach to the output the layoutput has: its heads get no tracker
AttachClones(s, n) ==
    LET o == s.wet[n]
        room == MaxClones - Len(s.out[o].heads)
        k == IF room < Len(s.add[n]) THEN room ELSE Len(s.add[n])
    IN  IF o \notin Range(s.list) THEN [s EXCEPT !.aborted = "attaching"]
        ELSE Rest([s EXCEPT !.out[o].heads = @ \o SubSeq(s.add[n], 1, k)], n,
                  SubSeq(s.add[n], k + 1, Len(s.add[n])))

\* drm_try_attach_enable on a new output: heads are dropped from the last one
\* on until it can be enabled with those left, at most keep
EnableNew(s, n, keep) ==
    LET o == IF s.out[<<n>>] # NULL THEN <<n, s.add[n][1]>> ELSE <<n>>
        k == IF keep < Len(s.add[n]) THEN keep ELSE Len(s.add[n])
        hs == SubSeq(s.add[n], 1, k)
        last == s.place[Last(s.list)]
        right == [w |-> Size[hs[1]][1], h |-> Size[hs[1]][2],
                  x |-> IF s.list = <<>> THEN 0 ELSE last.x + last.w, y |-> 0]
    IN  IF s.out[o] # NULL \/ k = 0 \/ Len(s.list) >= Crtcs
        THEN Rest([s EXCEPT !.failed = TRUE], n, <<>>)
        ELSE Rest([s EXCEPT !.out[o] = [heads |-> hs, deferred |-> "no"],
                            !.place[o] = right, !.list = Append(@, o),
                            !.wet[n] = o, !.tracked = @ \cup Range(hs)],
                  n, SubSeq(s.add[n], k + 1, Len(s.add[n])))

\* drm_process_layoutput
ProcessLayoutput(s, n, keep) ==
    LET t == IF s.wet[n] = Left THEN [s EXCEPT !.wet[n] = None] ELSE s
    IN  IF s.add[n] = <<>> \/ s.aborted # "no" THEN s
        ELSE IF t.wet[n] # None THEN AttachClones(t, n)
        ELSE EnableNew(t, n, keep)

-----------------------------------------------------------------------------
(* Placing them: what of place changes, of the outputs of s.               *)

\* drm_position_layoutput_first_output
FirstOutput(s, n) == IF s.wet[n] \in Outputs THEN s.wet[n] ELSE NULL

\* the layoutput others are placed from, NULL when there are two or none
Origin(s) ==
    LET los == {n \in Range(s.los) : SectionOf(n).origin = "true"}
        candidates == {i \in DOMAIN s.los : SectionOf(s.los[i]).origin = ""}
    IN  IF Cardinality(los) = 1 THEN CHOOSE n \in los : TRUE
        ELSE IF los # {} \/ candidates = {} THEN NULL
        ELSE s.los[Min(candidates)]

Refer(n, origin) ==
    IF SectionOf(n).refer = NULL THEN origin ELSE SectionOf(n).refer

\* drm_position_layoutput calling itself once more, for what the last layoutput
\* it was called for refers to: nothing when that cannot be placed
Deeper(s, buf, origin, done) ==
    LET r == Refer(Last(buf), origin)
    IN  IF buf = <<>> \/ Last(buf) = origin \/ r \in done THEN buf
        ELSE IF \/ r \notin Range(s.los) \/ FirstOutput(s, r) = NULL
                \/ r \in Range(buf) \/ Len(buf) >= 9
             THEN <<>>
        ELSE Append(buf, r)

\* the layoutputs that a call for n places, last to first
Chain(s, n, origin, done) ==
    LET call[k \in 0 .. 9] ==
            IF k = 0 THEN <<n>> ELSE Deeper(s, call[k - 1], origin, done)
    IN  call[9]

Half(d) == IF d >= 0 THEN d \div 2 ELSE -((-d) \div 2)

\* the offset along the other axis, of one as long as a beside one of b
Aligned(align, a, b) ==
    CASE align = "end" -> b - a
      [] align = "center" -> Half(b - a)
      [] OTHER -> 0

\* Mutant: whatever the direction, an output is placed to the left.
PlacedToTheLeft(at, s, n, origin) ==
    LET me == at[s.wet[n]]
        ref == at[s.wet[Refer(n, origin)]]
        xy == IF n = origin THEN <<0, 0>> ELSE <<ref.x - me.w, ref.y>>
    IN  [at EXCEPT ![s.wet[n]].x = xy[1], ![s.wet[n]].y = xy[2]]

\* weston_output_move of the output of n to its place
Placed(at, s, n, origin) ==
    LET me == at[s.wet[n]]
        ref == at[s.wet[Refer(n, origin)]]
        sec == SectionOf(n)
        xy == IF n = origin THEN <<0, 0>>
              ELSE CASE sec.direction = "top" ->
                        <<ref.x + Aligned(sec.align, me.w, ref.w), ref.y - me.h>>
                     [] sec.direction = "bottom" ->
                        <<ref.x + Aligned(sec.align, me.w, ref.w), ref.y + ref.h>>
                     [] sec.direction = "right" ->
                        <<ref.x + ref.w, ref.y + Aligned(sec.align, me.h, ref.h)>>
                     [] OTHER ->
                        <<ref.x - me.w, ref.y + Aligned(sec.align, me.h, ref.h)>>
    IN  [at EXCEPT ![s.wet[n]].x = xy[1], ![s.wet[n]].y = xy[2]]

\* a call for n and, first, for what it refers to; one that fails places nothing
Position(acc, s, n, origin) ==
    LET chain == Chain(s, n, origin, acc.done)
        moved[k \in 0 .. Len(chain)] ==
            IF k = 0 THEN acc.at
            ELSE Placed(moved[k - 1], s, chain[Len(chain) + 1 - k], origin)
    IN  IF ~acc.ok \/ n \in acc.done \/ FirstOutput(s, n) = NULL THEN acc
        ELSE [ok |-> chain # <<>>, done |-> acc.done \cup Range(chain),
              at |-> moved[Len(chain)]]

\* drm_position_layoutputs: stops at the first that cannot be placed
Positioned(s) ==
    LET origin == Origin(s)
        none == [at |-> s.place, ok |-> origin # NULL, done |-> {}]
        pass[i \in 0 .. Len(s.los)] ==
            IF i = 0 THEN none ELSE Position(pass[i - 1], s, s.los[i], origin)
    IN  pass[Len(s.los)]

-----------------------------------------------------------------------------
(* Events.                                                                 *)

Put(s) ==
    /\ wet' = s.wet /\ out' = s.out /\ place' = s.place /\ output_list' = s.list
    /\ tracked' = s.tracked /\ layoutput_list' = s.los
    /\ failed' = (failed \/ s.failed) /\ aborted' = s.aborted

AfterReflow(s) == IF placed = "all" /\ s.list # output_list THEN "moved"
                  ELSE placed

\* a head of the first pass
Visit(s, h) ==
    LET wanted == h \in connected \/ Forced(h)
    IN  IF s.aborted # "no" \/ wanted = Enabled(s, h) THEN s
        ELSE IF wanted THEN PrepareEnable(s, h)
        ELSE HeadDisabled(s, h)

\* ... and all of them, one after the other
Visited(s) ==
    LET pass[i \in 0 .. Len(head_list)] ==
            IF i = 0 THEN s ELSE Visit(pass[i - 1], head_list[i])
    IN  pass[Len(head_list)]

\* drm_process_layoutputs, but for the places
Processed(s, keep) ==
    LET pass[i \in 0 .. Len(s.los)] ==
            IF i = 0 THEN s ELSE ProcessLayoutput(pass[i - 1], s.los[i], keep)
    IN  pass[Len(s.los)]

\* drm_heads_changed, in the idle callback: every head first, then every
\* layoutput that got heads, then the places of all when nothing failed
HeadsChanged ==
    /\ source /\ source' = FALSE
    /\ \E flipping \in SUBSET Range(output_list),
          keep \in IF MayFail THEN 0 .. MaxClones ELSE {MaxClones} :
        LET s == Processed(Visited(Now(flipping)), keep)
            positioned == Positioned(s)
        IN  IF s.failed \/ s.aborted # "no"
            THEN Put(s) /\ placed' = "no"
            ELSE /\ Put([s EXCEPT !.place = positioned.at])
                 /\ placed' = IF positioned.ok THEN "all" ELSE "no"
    /\ UNCHANGED <<config, head_list, connected, changes, vanished>>

Change == changes < MaxChanges /\ changes' = changes + 1

\* weston_compositor_add_head, and weston_head_set_connection_status
HeadFound(h) ==
    /\ Change /\ h \notin Range(head_list)
    /\ head_list' = Append(head_list, h) /\ source' = TRUE
    /\ connected' \in {connected, connected \cup {h}}
    /\ UNCHANGED <<config, tracked, layoutput_list, wet, output_list, out,
                   place, placed, failed, vanished, aborted>>

ConnectionChanged(h) ==
    /\ Change /\ h \in Range(head_list) /\ source' = TRUE
    /\ connected' = SymDiff(connected, {h})
    /\ UNCHANGED <<config, head_list, tracked, layoutput_list, wet, output_list,
                   out, place, placed, failed, vanished, aborted>>

\* drm_head_destroy, of a connector that has disappeared: its tracker destroys
\* the output when it was the last head, and nothing is placed again
HeadDestroyed(h) ==
    /\ Change /\ h \in Range(head_list) \cap Removable
    /\ \E flipping \in SUBSET ({OutputOf(Now({}), h)} \cap Range(output_list)) :
        LET s == Now(flipping)
            o == OutputOf(s, h)
            last == o # NULL /\ Len(s.out[o].heads) = 1
            t == IF h \in tracked /\ last THEN Destroyed(s, o) ELSE s
            u == Detached([t EXCEPT !.tracked = @ \ {h}], h)
        IN  Put(u) /\ placed' = AfterReflow(u)
    /\ head_list' = RemoveFirst(head_list, h) /\ connected' = connected \ {h}
    /\ vanished' = vanished \cup {h}
    /\ UNCHANGED <<config, source>>

\* drm_output_update_complete, of the flip an operation has waited for
FlipDone(o) ==
    /\ out[o] # NULL /\ out[o].deferred # "no"
    /\ LET s == IF out[o].deferred = "destroy" THEN Released(Now({}), o)
                ELSE RemoveOutput([Now({}) EXCEPT !.out[o].deferred = "no"], o)
       IN  Put(s) /\ placed' = AfterReflow(s)
    /\ UNCHANGED <<config, head_list, connected, source, changes, vanished>>

Next ==
    /\ aborted = "no"
    /\ \/ HeadsChanged
       \/ \E h \in Heads : HeadFound(h) \/ ConnectionChanged(h) \/ HeadDestroyed(h)
       \/ \E o \in Outputs : FlipDone(o)

Spec == Init /\ [][Next]_vars

-----------------------------------------------------------------------------
(* What must hold.                                                         *)

Dying(o) == out[o].deferred # "no"
Wanted(h) == (h \in connected \/ Forced(h)) /\ ~Off(h)

\* h is not alone on its layoutput
Shared(h) == \E g \in Heads \ {h} : LayoutputOf(g) = LayoutputOf(h)

\* Every variable holds values of its type, and no more outputs are enabled
\* than the hardware can drive.
HeadsTypeOK ==
    /\ head_list \in Seq(Heads) /\ IsInjective(head_list)
    /\ connected \cup tracked \cup vanished \subseteq Heads
    /\ layoutput_list \in Seq(Names) /\ IsInjective(layoutput_list)
    /\ wet \in [Names -> Outputs \cup {None, Left}]
    /\ out \in [Outputs -> WestonOutput \cup {NULL}]
    /\ output_list \in Seq(Outputs) /\ IsInjective(output_list)
    /\ Len(output_list) <= Crtcs
    /\ placed \in {"no", "all", "moved"}
    /\ {source, failed} \subseteq BOOLEAN

\* The assertion of drm_head_disable holds; the one of drm_process_layoutput,
\* that what a layoutput has is enabled, unless a clone has disappeared: only
\* heads that an output was made with have it destroyed with them.
AssertionsHold ==
    /\ aborted # "disabling"
    /\ aborted = "attaching" => \E v \in vanished : Shared(v)

\* No wet_output or list points to an output that has been freed, no two share
\* one, an output has each head to itself, and one that is enabled and will
\* stay belongs to a layoutput, through which it can be disabled.
OutputsOwned ==
    /\ \A o \in Range(wet) \cap Outputs : out[o] # NULL
    /\ \A m, n \in Names : m # n /\ wet[m] = wet[n] => wet[m] \notin Outputs
    /\ \A o, p \in Outputs : out[o] # NULL /\ out[p] # NULL /\ o # p =>
            Range(out[o].heads) \cap Range(out[p].heads) = {}
    /\ \A o \in Range(output_list) :
            out[o] # NULL /\ (~Dying(o) => o \in Range(wet))

\* Outputs, heads and layoutputs agree with one another, and the assertions hold
\* that rely on it.
HeadsOK == HeadsTypeOK /\ AssertionsHold /\ OutputsOwned

\* The layoutput of h has lost its output, freed or disabled behind a flip or
\* with the last head of its, and is given another one by the next pass only.
Stranded(h) ==
    /\ wet[LayoutputOf(h)] \in {Left} \cup (Outputs \ Range(output_list))
    /\ \E v \in vanished : LayoutputOf(v) = LayoutputOf(h)

\* Once every change has been handled, the heads on enabled outputs are those
\* that shall be, unless an output could not be made, or has gone since: a
\* connector that disappears takes the output of its layoutput with it, at once
\* or when a flip is done, and nothing makes another one for the heads that
\* were found meanwhile.
ConnectedShown ==
    ~source /\ ~failed /\ aborted = "no" =>
        \A h \in Range(head_list) :
            Stranded(h) \/ Enabled(Now({}), h) = Wanted(h)

\* Monitors that come and go leave a monitor that stays on its output, unless
\* that output had been given up already.
StaysShown ==
    [][\A o \in Outputs : o \in Range(output_list) /\ ~Dying(o) =>
        \A h \in Range(out[o].heads) :
            (Wanted(h) /\ h \in Range(head_list'))
            => /\ o \in Range(output_list') /\ out'[o] # NULL
               /\ h \in Range(out'[o].heads)]_vars

\* After a pass that was not given up, and until outputs move again, every
\* output touches the one it refers to on the side, and with the alignment,
\* that weston.ini says.
StandsAsConfigured ==
    placed = "all" =>
        LET origin == Origin(Now({}))
            Line(align, a, la, b, lb) ==        \* [a, a + la) against b
                CASE align = "end" -> a + la = b + lb
                  [] align = "center" -> 2 * a + la - 2 * b - lb \in -1 .. 1
                  [] OTHER -> a = b
        IN  \A n \in Names \ {origin} : wet[n] \in Outputs =>
                LET me == place[wet[n]]
                    ref == place[wet[Refer(n, origin)]]
                    sec == SectionOf(n)
                    up == sec.direction \in {"top", "bottom"}
                IN  /\ CASE sec.direction = "top" -> me.y + me.h = ref.y
                         [] sec.direction = "bottom" -> ref.y + ref.h = me.y
                         [] sec.direction = "right" -> ref.x + ref.w = me.x
                         [] OTHER -> me.x + me.w = ref.x
                    /\ up => Line(sec.align, me.x, me.w, ref.x, ref.w)
                    /\ ~up => Line(sec.align, me.y, me.h, ref.y, ref.h)
=============================================================================
