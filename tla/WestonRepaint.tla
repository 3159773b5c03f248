---------------------------- MODULE WestonRepaint ----------------------------
(***************************************************************************)
(* The repaint loop of libweston (src/libweston/compositor.c) on the KMS   *)
(* backend (src/libweston/backend-drm/drm.c and kms.c).                    *)
(*                                                                         *)
(* An output that wants a frame is started from an idle callback, is       *)
(* painted when the timer the outputs share fires, and is scheduled again  *)
(* when the kernel reports the flip.  Every other callback can run between *)
(* two of these: damage, power management, the loss of the virtual         *)
(* terminal and the loss of the monitor, whose output is freed only when   *)
(* no flip of it is on its way.                                            *)
(***************************************************************************)
EXTENDS Naturals, Sequences, FiniteSets, Functions
LOCAL INSTANCE SequencesExt

CONSTANTS
    Outputs,        \* the outputs there can be, each with a CRTC of its own
    MayReject,      \* whether the kernel rejects a commit of its master
    NULL

ASSUME OutputsAssumption == IsFiniteSet(Outputs) /\ NULL \notin Outputs
ASSUME RejectAssumption == MayReject \in BOOLEAN

VARIABLES
    atomic_modeset, \* drm_backend::atomic_modeset, found at start
    state,          \* weston_compositor::state; IDLE paints like ACTIVE
    session_active,
    master,         \* whether the kernel takes this process's commits
    state_invalid,  \* drm_backend::state_invalid
    output_list,    \* weston_compositor::output_list
    out,            \* per output: the fields of weston_output and drm_output
    idle,           \* outputs with an idle_repaint_source
    timer,          \* whether repaint_timer is armed
    flips,          \* CRTCs the kernel will send a flip event for
    dirty           \* whether the scene differs from the last frame accepted

vars == <<atomic_modeset, state, session_active, master, state_invalid,
          output_list, out, idle, timer, flips, dirty>>
core_vars == <<output_list, out, idle, timer, flips, dirty, state_invalid>>
seat_vars == <<state, session_active, master>>

Live == Range(output_list)
Place(o) == CHOOSE i \in DOMAIN output_list : output_list[i] = o
Awake == state = "active"
Idle == "not scheduled"    \* REPAINT_NOT_SCHEDULED

\* an output as drm_output_create leaves it: powered off, nothing to scan out
Fresh == [status |-> Idle, needed |-> FALSE,
          dpms |-> FALSE, fb |-> FALSE,         \* state_cur
          last |-> FALSE,                       \* state_last # NULL
          pending |-> FALSE,    \* page_flip_pending, atomic_complete_pending
          disable |-> FALSE, destroy |-> FALSE, dpms_off |-> FALSE]

Init ==
    /\ atomic_modeset \in BOOLEAN
    /\ state = "active" /\ session_active = TRUE /\ master = TRUE
    /\ state_invalid = TRUE
    /\ output_list = <<>>
    /\ out = [o \in Outputs |-> Fresh]
    /\ idle = {} /\ timer = FALSE /\ flips = {}
    /\ dirty = [o \in Outputs |-> "clean"]

-----------------------------------------------------------------------------
(* Pieces of the handlers.                                                 *)

\* weston_output_schedule_repaint for the outputs os, of the records f
Scheduled(os, f) == [o \in Outputs |->
    IF o \notin os THEN f[o]
    ELSE [f[o] EXCEPT !.needed = TRUE,
                      !.status = IF @ = Idle THEN "begin from idle" ELSE @]]

\* the idle callbacks that come with it
Started(os) == {o \in os : out[o].status = Idle}

\* drm_output_assign_state: a frame, or power off, is now current; an
\* asynchronous one keeps the previous state until its event
Flipped(r) == [r EXCEPT !.last = TRUE, !.pending = TRUE,
                        !.dpms = TRUE, !.fb = TRUE]
PoweredOff(r) == [r EXCEPT !.dpms = FALSE, !.fb = FALSE]

\* drm_pending_state_apply_sync: the legacy path assigns the state whatever
\* the kernel said
SyncApplies == master \/ ~atomic_modeset

\* Mutant: a finished frame waits for the timer another output has armed.
FinishedUnarmed(f) == /\ out' = f /\ UNCHANGED timer

\* weston_output_finish_frame arms the timer for the outputs scheduled in f
Finished(f) == /\ out' = f
               /\ timer' = (timer \/ \E o \in Outputs :
                                        f[o].status = "scheduled")

\* weston_output_release: the output is in no list and has no callback
Removed(o) ==
    /\ output_list' = RemoveAt(output_list, Place(o))
    /\ out' = [out EXCEPT ![o] = Fresh]
    /\ idle' = idle \ {o}
    /\ dirty' = [dirty EXCEPT ![o] = "clean"]
    /\ state_invalid' = TRUE

-----------------------------------------------------------------------------
(* The loop.                                                               *)

\* a client or an animation changes what o shows
Damage(o) ==
    /\ o \in Live
    /\ dirty' = [dirty EXCEPT ![o] = IF Awake THEN "dirty" ELSE "lost"]
    /\ IF Awake THEN /\ out' = Scheduled({o}, out)
                     /\ idle' = idle \cup Started({o})
                ELSE UNCHANGED <<out, idle>>
    /\ UNCHANGED <<atomic_modeset, seat_vars, output_list, timer, flips,
                   state_invalid>>

\* idle_repaint and drm_output_start_repaint_loop: the loop starts at once
\* when there is nothing on screen or the time of the last vblank is known,
\* else with the event of a flip to what is on screen
IdleRepaint(o) ==
    /\ o \in idle /\ idle' = idle \ {o}
    /\ \/ /\ Finished([out EXCEPT ![o].status = "scheduled"])
          /\ UNCHANGED <<flips, dirty, state_invalid>>
       \/ /\ out[o].fb /\ out[o].dpms /\ ~state_invalid /\ master
          /\ out' = [out EXCEPT ![o] =
                        [Flipped(@) EXCEPT !.status = "awaiting"]]
          /\ flips' = flips \cup {o}
          /\ UNCHANGED <<timer, dirty, state_invalid>>
       \/ /\ out[o].fb /\ out[o].dpms /\ ~state_invalid
          /\ ~master           \* refused: EACCES
          /\ out' = [out EXCEPT ![o].status = Idle,
                                ![o].dpms = atomic_modeset /\ @]
          /\ dirty' = [dirty EXCEPT ![o] = "lost"]
          /\ UNCHANGED <<flips, state_invalid, timer>>
    /\ UNCHANGED <<atomic_modeset, seat_vars, output_list>>

\* the outputs of D up to the one whose rendering fails, if any
UpTo(D, bad) == {o \in D : bad = NULL \/ Place(o) <= Place(bad)}

\* Mutant: outputs painted before another one fails keep waiting for a flip.
DroppedKept(r, refused) == [r EXCEPT !.status = "awaiting", !.needed = FALSE]

\* an output whose frame is not shown leaves the loop
Dropped(r, refused) ==
    [r EXCEPT !.status = Idle, !.needed = FALSE,
              !.dpms = (atomic_modeset \/ ~refused) /\ @]

\* weston_output_maybe_repaint: a due output that needs no frame, or may not
\* paint, leaves the loop
Wants(o) == Awake /\ out[o].needed

\* drm_pending_state_apply_atomic (or the flips of the legacy path): the commit
\* of all painted outputs is taken by the kernel
Accepted(bad, rejected) == bad = NULL /\ master /\ ~rejected

\* weston_output_repaint of an output whose frame is accepted, or rejected by
\* an error that drm_repaint_flush does not report
Painting(r, rejected) ==
    [(IF rejected THEN r ELSE Flipped(r)) EXCEPT
        !.status = "awaiting", !.needed = FALSE]

\* output_repaint_timer_handler, for the outputs D that are due, painted in the
\* order of the list into one commit; bad is one that cannot be rendered
RepaintTimer(D, bad, rejected) ==
    LET visited == UpTo(D, bad)
        painting == {o \in visited : Wants(o)}
        refused == bad = NULL /\ ~master
        f == [o \in Outputs |->
                IF o \notin visited THEN out[o]
                ELSE IF o \notin painting THEN [out[o] EXCEPT !.status = Idle]
                ELSE IF bad # NULL \/ refused THEN Dropped(out[o], refused)
                ELSE Painting(out[o], rejected)]
    IN  /\ timer
        /\ D \subseteq {o \in Live : out[o].status = "scheduled"}
        /\ D = {} => \A o \in Live : out[o].status # "scheduled"
        /\ bad \in {o \in D : Wants(o)} \cup {NULL}
        /\ rejected => /\ MayReject /\ atomic_modeset /\ bad = NULL /\ master
                       /\ painting # {}
        /\ out' = f
        /\ dirty' = [o \in Outputs |->
                IF o \notin painting THEN dirty[o]
                ELSE IF Accepted(bad, rejected) THEN "clean" ELSE "lost"]
        /\ flips' = IF Accepted(bad, rejected)
                    THEN flips \cup painting ELSE flips
        /\ state_invalid' = (state_invalid /\
                (bad # NULL \/ rejected \/ (refused /\ atomic_modeset)))
        /\ timer' = (\E o \in Live : f[o].status = "scheduled")
        /\ UNCHANGED <<atomic_modeset, seat_vars, output_list, idle>>

\* drm_output_update_complete, from the handler of the flip event
FlipDone(o) ==
    /\ o \in flips /\ flips' = flips \ {o}
    /\ IF out[o].destroy
       THEN Removed(o) /\ UNCHANGED timer
       ELSE LET off == out[o].dpms_off /\ SyncApplies
                r == [out[o] EXCEPT !.pending = FALSE, !.last = FALSE,
                                    !.dpms_off = FALSE]
                now == IF off THEN PoweredOff(r) ELSE r
            IN  /\ Finished([out EXCEPT ![o] =
                    IF ~now.dpms /\ now.status # "awaiting" THEN now
                    ELSE [now EXCEPT !.status = "scheduled"]])
                /\ state_invalid' = (state_invalid /\ ~off)
                /\ UNCHANGED <<output_list, idle, dirty>>
    /\ UNCHANGED <<atomic_modeset, seat_vars>>

-----------------------------------------------------------------------------
(* Monitors.                                                               *)

\* weston_output_enable, of an output just created for a head: it asks for a
\* first frame before it is in the list
Plug(o) ==
    /\ o \notin Live
    /\ output_list' = Append(output_list, o)
    /\ out' = IF Awake THEN Scheduled({o}, out) ELSE out
    /\ idle' = IF Awake THEN idle \cup Started({o}) ELSE idle
    /\ dirty' = [dirty EXCEPT ![o] = IF Awake THEN "dirty" ELSE "lost"]
    /\ UNCHANGED <<atomic_modeset, seat_vars, timer, flips, state_invalid>>

\* Mutant: the output is freed although its flip is on its way.
UnplugNow(o) ==
    /\ o \in Live /\ ~out[o].destroy
    /\ Removed(o)
    /\ UNCHANGED <<atomic_modeset, seat_vars, timer, flips>>

\* weston_head_detach of the last head, which asks for a frame, disables the
\* output, and its destruction: both wait for a flip that is on its way
Unplug(o) ==
    /\ o \in Live /\ ~out[o].destroy
    /\ IF out[o].pending
       THEN /\ out' = [(IF Awake THEN Scheduled({o}, out) ELSE out) EXCEPT
                            ![o].disable = TRUE, ![o].destroy = TRUE]
            /\ state_invalid' = TRUE
            /\ UNCHANGED <<output_list, idle, dirty>>
       ELSE Removed(o)
    /\ UNCHANGED <<atomic_modeset, seat_vars, timer, flips>>

-----------------------------------------------------------------------------
(* Power and the virtual terminal.                                         *)

\* weston_compositor_sleep, with drm_set_dpms of every output
Sleep ==
    /\ state # "sleeping" /\ state' = "sleeping"
    /\ out' = [o \in Outputs |->
            IF o \notin Live \/ ~out[o].dpms THEN out[o]
            ELSE IF out[o].last THEN [out[o] EXCEPT !.dpms_off = TRUE]
            ELSE IF SyncApplies THEN PoweredOff(out[o]) ELSE out[o]]
    /\ state_invalid' = (state_invalid /\ ~\E o \in Live :
            out[o].dpms /\ ~out[o].last /\ SyncApplies)
    /\ UNCHANGED <<atomic_modeset, session_active, master, output_list, idle,
                   timer, flips, dirty>>

\* the outputs drm_set_dpms finds off when they shall be on
Dark == {o \in Live : ~out[o].dpms}
Lit == [o \in Outputs |->
            IF o \in Dark THEN [out[o] EXCEPT !.dpms_off = FALSE] ELSE out[o]]

\* weston_compositor_wake, from an input event
Wake ==
    /\ session_active /\ ~Awake /\ state' = "active"
    /\ out' = Scheduled(Dark, Lit)
    /\ idle' = idle \cup Started(Dark)
    /\ UNCHANGED <<atomic_modeset, session_active, master, output_list, timer,
                   flips, dirty, state_invalid>>

\* the kernel takes the device away, with or before the session
DropMaster ==
    /\ master /\ master' = FALSE
    /\ UNCHANGED <<atomic_modeset, state, session_active, core_vars>>

\* session_notify: everything painted from now on would be refused
SessionOff ==
    /\ session_active /\ session_active' = FALSE
    /\ state' = "offscreen"
    /\ out' = [o \in Outputs |-> IF o \in Live
                    THEN [out[o] EXCEPT !.needed = FALSE] ELSE out[o]]
    /\ dirty' = [o \in Outputs |->
                    IF dirty[o] = "dirty" THEN "lost" ELSE dirty[o]]
    /\ UNCHANGED <<atomic_modeset, master, output_list, idle, timer, flips,
                   state_invalid>>

\* session_notify: wake, and damage to every output
SessionOn ==
    /\ ~session_active /\ session_active' = TRUE
    /\ master' = TRUE /\ state' = "active" /\ state_invalid' = TRUE
    /\ out' = Scheduled(Live, Lit)
    /\ idle' = idle \cup Started(Live)
    /\ dirty' = [o \in Outputs |-> IF o \in Live THEN "dirty" ELSE dirty[o]]
    /\ UNCHANGED <<atomic_modeset, output_list, timer, flips>>

TimerFires(o) ==
    \E D \in SUBSET Live, bad \in Live \cup {NULL}, rejected \in BOOLEAN :
        (o \in D \/ D = {}) /\ RepaintTimer(D, bad, rejected)

Next ==
    \/ \E o \in Outputs : \/ Damage(o) \/ IdleRepaint(o) \/ TimerFires(o)
                          \/ FlipDone(o) \/ Plug(o) \/ Unplug(o)
    \/ Sleep \/ Wake \/ DropMaster \/ SessionOff \/ SessionOn

\* the timer finds o due, and no output in front of it fails
Painted(o) ==
    \E D \in SUBSET Live, bad \in {o, NULL} :
        o \in D /\ RepaintTimer(D, bad, FALSE)

\* the loop runs its idle callbacks and timers, the kernel completes the flips
\* it has accepted, and no output fails whenever another one is due
Spec ==
    /\ Init /\ [][Next]_vars
    /\ \A o \in Outputs : /\ WF_vars(IdleRepaint(o))
                          /\ WF_vars(Painted(o)) /\ WF_vars(FlipDone(o))

-----------------------------------------------------------------------------
(* What must hold.                                                         *)

\* Every variable holds values of its type.
RepaintTypeOK ==
    /\ state \in {"active", "sleeping", "offscreen"}
    /\ {atomic_modeset, session_active, master, state_invalid, timer}
            \subseteq BOOLEAN
    /\ output_list \in Seq(Outputs) /\ IsInjective(output_list)
    /\ out \in [Outputs ->
            [status : {Idle, "begin from idle", "scheduled", "awaiting"},
             needed : BOOLEAN, dpms : BOOLEAN, fb : BOOLEAN, last : BOOLEAN,
             pending : BOOLEAN, disable : BOOLEAN, destroy : BOOLEAN,
             dpms_off : BOOLEAN]]
    /\ idle \subseteq Outputs /\ flips \subseteq Outputs
    /\ dirty \in [Outputs -> {"clean", "dirty", "lost"}]

\* The assertions of weston_output_finish_frame, drm_output_repaint and the
\* flip handlers: an output waits for a completion exactly when the kernel
\* owes it an event, and has a previous state exactly until then.
AwaitsItsFlip ==
    \A o \in Live :
        /\ out[o].status = "awaiting" <=> o \in flips
        /\ out[o].pending <=> o \in flips
        /\ out[o].last <=> o \in flips

\* No callback, event or pending operation is left for an output that has been
\* freed, and every idle callback is for a loop that has yet to start.
NothingHoldsFreed ==
    /\ idle \cup flips \subseteq Live
    /\ \A o \in Outputs : o \in idle <=> out[o].status = "begin from idle"
    /\ \A o \in Outputs \ Live : out[o] = Fresh

\* What the loop holds on to at any time: nothing of the wrong kind, and nothing
\* of an output that is gone.
RepaintOK == RepaintTypeOK /\ NothingHoldsFreed

\* A frame that is needed is never left without something that will paint it,
\* whatever was switched off, unplugged or failed since it was asked for.
NeverStuck ==
    /\ (\E o \in Live : out[o].status = "scheduled") => timer
    /\ Awake /\ master =>
        \A o \in Live : out[o].needed => out[o].status # Idle

\* Damage reaches the screen, or is dropped with a failed commit or with the
\* output, unless the screens are put to sleep or the device is taken away: it
\* does not stay in a loop that has stopped.
DamageShown ==
    LET Shows == Awake /\ master
    IN \A o \in Outputs :
        Shows /\ dirty[o] = "dirty" ~> ~Shows \/ dirty[o] # "dirty"
=============================================================================
