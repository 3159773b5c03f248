------------------------------ MODULE WestonXdg ------------------------------
(***************************************************************************)
(* The configure sequence of one xdg_toplevel of                           *)
(* libweston-desktop/xdg-shell.c.  The shell sets states and a size, an    *)
(* idle callback sends them to the client in a configure with a serial,    *)
(* the client acknowledges a serial and commits contents drawn for it, and *)
(* from then on the surface has the states of that configure.  Setting     *)
(* what the client was told last anyway sends nothing, and takes back what *)
(* is only queued.                                                         *)
(*                                                                         *)
(* A width and a height are one number, 0 for "as the client likes" or     *)
(* for no contents.  Limits of sizes, titles, parents, moves and resizes   *)
(* leave the sequence alone and are left out, as are popups.  A protocol   *)
(* error ends the client and with it the surface.                          *)
(***************************************************************************)
EXTENDS Integers, Sequences, SequencesExt

CONSTANTS Flags,         \* The states of a toplevel that are looked at
          Sizes,         \* The sizes that surfaces have and shells ask for
          MaxSerial,     \* Bound on the configures that are sent
          Prompt         \* Is no state set between an acknowledgement and its commit?

ASSUME XdgAssumption ==
    /\ Flags \subseteq {"maximized", "fullscreen", "resizing", "activated"}
    /\ Sizes \subseteq Nat \ {0}
    /\ MaxSerial \in Nat
    /\ Prompt \in BOOLEAN

VARIABLES has_role,        \* Has the wl_surface been a toplevel?
          role,            \* Of the xdg_surface, "absent" when there is none
          added,           \* Does the shell know the surface?
          configured,      \* Has the client acknowledged a configure?
          configure_idle,  \* Is the idle callback queued?
          configure_list,  \* Configures sent and not acknowledged
          pending,         \* What the shell has set
          next,            \* What the client acknowledged last
          current,         \* The states of the contents
          buffer,          \* The size of the contents
          held,            \* Has the surface a reference to their buffer?
          geometry,        \* The window geometry, 0 when none was set
          next_geometry,   \* The one that is set by the next commit
          serial,          \* The last serial of the display
          shown            \* Has the shell been given contents?

vars == <<has_role, role, added, configured, configure_idle, configure_list, pending, next,
          current, buffer, held, geometry, next_geometry, serial, shown>>

Blank == [state |-> {}, size |-> 0]

\* A new xdg_surface, or none, but for the callback.
Cleared ==
    /\ added' = FALSE
    /\ configured' = FALSE
    /\ configure_list' = <<>>
    /\ pending' = Blank
    /\ next' = [state |-> {}, size |-> 0, serial |-> 0]
    /\ current' = {}
    /\ geometry' = 0
    /\ next_geometry' = 0
    /\ shown' = FALSE

Init ==
    /\ has_role = FALSE
    /\ role = "absent"
    /\ added = FALSE
    /\ configured = FALSE
    /\ configure_idle = FALSE
    /\ configure_list = <<>>
    /\ pending = Blank
    /\ next = [state |-> {}, size |-> 0, serial |-> 0]
    /\ current = {}
    /\ buffer = 0 /\ held = FALSE
    /\ geometry = 0
    /\ next_geometry = 0
    /\ serial = 0
    /\ shown = FALSE

\* What the client is told in a configure.
Configure(s) == [state |-> pending.state, size |-> pending.size, serial |-> s]

-----------------------------------------------------------------------------
\* Mutant: the oldest configure under way.
LastConfiguredFirst ==
    IF configure_list = <<>> THEN [state |-> current, size |-> buffer]
                             ELSE Head(configure_list)

\* What the client was told last, with an empty list what it has drawn.
LastConfigured ==
    IF configure_list = <<>> THEN [state |-> current, size |-> buffer]
                             ELSE Last(configure_list)

\* Is this what the client was told last?
StateCompare(set) ==
    /\ configured
    /\ set.state = LastConfigured.state
    /\ set.size \in {0, LastConfigured.size}

\* The callback is queued when there is news for the client, and only then.
ScheduleConfigure(set) ==
    /\ pending' = set
    /\ configure_idle' = ~StateCompare(set)

\* The shell learns of the surface: that of qimm gives it the size of its layout
\* and takes the focus from it.
EnsureAdded ==
    IF added
    THEN UNCHANGED <<added, pending, configure_idle>>
    ELSE /\ added' = TRUE
         /\ \E size \in Sizes \cup {0} :
               ScheduleConfigure([state |-> pending.state \ {"activated"}, size |-> size])

\* Mutant: the callback stays queued.
DestroyedQueued ==
    /\ role' = "absent"
    /\ Cleared
    /\ UNCHANGED configure_idle

\* The xdg_surface goes, and its callback with it.
Destroyed ==
    /\ role' = "absent"
    /\ Cleared
    /\ configure_idle' = FALSE

-----------------------------------------------------------------------------
GetXdgSurface ==
    /\ role = "absent"
    /\ ~held
    /\ role' = "none"
    /\ Cleared
    /\ UNCHANGED <<has_role, configure_idle, buffer, held, serial>>

GetToplevel ==
    /\ role = "none"
    /\ role' = "toplevel"
    /\ has_role' = TRUE
    /\ UNCHANGED <<added, configured, configure_idle, configure_list, pending, next, current,
                   buffer, held, geometry, next_geometry, serial, shown>>

\* The client asks to be maximized and so on, which a shell may heed.
Request ==
    /\ role = "toplevel"
    /\ EnsureAdded
    /\ UNCHANGED <<has_role, role, configured, configure_list, next, current, buffer, held,
                   geometry, next_geometry, serial, shown>>

SetWindowGeometry ==
    /\ role # "absent"
    /\ has_role
    /\ next_geometry' \in Sizes
    /\ UNCHANGED <<has_role, role, added, configured, configure_idle, configure_list, pending, next,
                   current, buffer, held, geometry, serial, shown>>

\* Between an acknowledgement and the commit of its contents.
Undrawn == configure_list = <<>> /\ next.state # current

\* The shell sets a state or a size.
Set ==
    /\ added
    /\ Prompt => ~Undrawn
    /\ \/ \E flag \in Flags :
             \/ ScheduleConfigure([pending EXCEPT !.state = @ \cup {flag}])
             \/ ScheduleConfigure([pending EXCEPT !.state = @ \ {flag}])
       \/ \E size \in Sizes \cup {0} : ScheduleConfigure([pending EXCEPT !.size = size])
    /\ UNCHANGED <<has_role, role, added, configured, configure_list, next, current, buffer, held,
                   geometry, next_geometry, serial, shown>>

\* Mutant: the configure joins the head of the list.
SendConfigureFirst ==
    /\ configure_idle
    /\ serial < MaxSerial
    /\ configure_idle' = FALSE
    /\ serial' = serial + 1
    /\ configure_list' = <<Configure(serial')>> \o configure_list
    /\ UNCHANGED <<has_role, role, added, configured, pending, next, current, buffer, held,
                   geometry, next_geometry, shown>>

\* The idle callback: the configure has what is set now.
SendConfigure ==
    /\ configure_idle
    /\ serial < MaxSerial
    /\ configure_idle' = FALSE
    /\ serial' = serial + 1
    /\ configure_list' = Append(configure_list, Configure(serial'))
    /\ UNCHANGED <<has_role, role, added, configured, pending, next, current, buffer, held,
                   geometry, next_geometry, shown>>

\* Configures up to the one with the serial are forgotten, and it becomes the next.
AckConfigure(s) ==
    /\ role = "toplevel"
    /\ \E i \in DOMAIN configure_list :
          /\ configure_list[i].serial = s
          /\ \A j \in 1..(i - 1) : configure_list[j].serial < s
          /\ next' = configure_list[i]
          /\ configure_list' = SubSeq(configure_list, i + 1, Len(configure_list))
    /\ configured' = TRUE
    /\ UNCHANGED <<has_role, role, added, configure_idle, pending, current, buffer, held,
                   geometry, next_geometry, serial, shown>>

-----------------------------------------------------------------------------
\* A commit brings a buffer, takes it away or leaves the contents alone.
Brought ==
    \/ UNCHANGED <<buffer, held>>
    \/ buffer' \in Sizes \cup {0} /\ held' = (buffer' # 0)

\* The surface drops its reference to the buffer, when it is repainted or the
\* client destroys the buffer, and keeps its size.
BufferReleased ==
    /\ held
    /\ held' = FALSE
    /\ UNCHANGED <<has_role, role, added, configured, configure_idle, configure_list, pending, next,
                   current, buffer, geometry, next_geometry, serial, shown>>

\* The geometry of a surface with these contents, after the commit.
GeometryAfter(contents) ==
    IF next_geometry # 0 THEN next_geometry
    ELSE IF geometry # 0 THEN geometry
    ELSE contents

\* Are the contents as the states ask?
Obeys(contents) ==
    /\ "maximized" \in next.state => GeometryAfter(contents) = next.size
    /\ "fullscreen" \in next.state => GeometryAfter(contents) =< next.size

\* Mutant: contents before the first configure.
AcceptedEarly(contents) == Obeys(contents)

Accepted(contents) == configured /\ Obeys(contents)

CommitPlain ==
    /\ role = "absent"
    /\ Brought
    /\ UNCHANGED <<has_role, role, added, configured, configure_idle, configure_list, pending, next,
                   current, geometry, next_geometry, serial, shown>>

\* A commit without a buffer makes the toplevel known to the shell, when nothing has.
\* With the buffer of earlier contents released it leaves the states as they are.
CommitEmpty ==
    /\ role = "toplevel"
    /\ Brought /\ ~held'
    /\ IF next_geometry # 0
       THEN geometry' = next_geometry /\ next_geometry' = 0
       ELSE UNCHANGED <<geometry, next_geometry>>
    /\ EnsureAdded
    /\ UNCHANGED <<has_role, role, configured, configure_list, next, current, serial, shown>>

CommitContents ==
    /\ role = "toplevel"
    /\ Brought /\ held'
    /\ Accepted(buffer')
    /\ IF next_geometry # 0
       THEN geometry' = next_geometry /\ next_geometry' = 0
       ELSE UNCHANGED <<geometry, next_geometry>>
    /\ current' = next.state
    /\ shown' = TRUE
    /\ UNCHANGED <<has_role, role, added, configured, configure_idle, configure_list, pending, next,
                   serial>>

\* The client goes, of its own accord or for an error: it acknowledged a serial that
\* is not in the list, committed or set a geometry before there was a role, or
\* committed contents that are not accepted.
ClientEnds ==
    /\ Destroyed
    /\ buffer' = 0 /\ held' = FALSE
    /\ has_role' = FALSE
    /\ UNCHANGED serial

\* The client destroys the toplevel, or the xdg_surface, and keeps its surface.
Destroy ==
    /\ role # "absent"
    /\ Destroyed
    /\ UNCHANGED <<has_role, buffer, held, serial>>

Next ==
    \/ GetXdgSurface
    \/ GetToplevel
    \/ Request
    \/ SetWindowGeometry
    \/ Set
    \/ SendConfigure
    \/ \E s \in 1..MaxSerial : AckConfigure(s)
    \/ CommitPlain
    \/ CommitEmpty
    \/ CommitContents
    \/ BufferReleased
    \/ ClientEnds
    \/ Destroy

Spec == Init /\ [][Next]_vars

-----------------------------------------------------------------------------
\* What a shell sets, and what a configure says of it.
Settings == [state : SUBSET Flags, size : Sizes \cup {0}]
Configures == [state : SUBSET Flags, size : Sizes \cup {0}, serial : Nat]

\* Every variable has its type.
XdgTypeOK ==
    /\ has_role \in BOOLEAN
    /\ role \in {"absent", "none", "toplevel"}
    /\ added \in BOOLEAN /\ configured \in BOOLEAN /\ configure_idle \in BOOLEAN
    /\ configure_list \in Seq(Configures)
    /\ pending \in Settings
    /\ next \in Configures
    /\ current \in SUBSET Flags
    /\ buffer \in Sizes \cup {0} /\ held \in BOOLEAN
    /\ held => buffer # 0
    /\ geometry \in Sizes \cup {0} /\ next_geometry \in Sizes \cup {0}
    /\ serial \in Nat
    /\ shown \in BOOLEAN

(* At rest, with nothing queued, nothing to acknowledge and contents for   *)
(* the last configure, the contents have the states that the shell set     *)
(* last: whatever it set, changed and took back while earlier configures   *)
(* were under way, the client was told the last of it.  The comparison     *)
(* that keeps configures back relies on it: "Last configure is actually    *)
(* the current state, just use it", xdg-shell.c:1079.  It holds as long as *)
(* nothing is set between an acknowledgement and its commit, and not       *)
(* without.                                                                *)
SettledAsSet ==
    configured /\ ~configure_idle /\ configure_list = <<>> /\ next.state = current
        => current = pending.state

(* Contents reach the shell only after it has been told of the surface,    *)
(* and from clients that acknowledged a configure, on whatever way a       *)
(* client got there: desktop_surface_committed of qimm uses what           *)
(* desktop_surface_added has set, without looking.                         *)
ShownConfigured == shown => added /\ configured

(* The idle callback belongs to a toplevel that lives and the shell knows: *)
(* it never finds a surface without a role, where it asserts, or a freed   *)
(* one.                                                                    *)
IdleIsLive == configure_idle => role = "toplevel" /\ added

(* A client never returns to an older configure: an acknowledgement makes  *)
(* every configure before it invalid.                                      *)
NeverBack == [][role' = "absent" \/ next'.serial >= next.serial]_vars
=============================================================================
