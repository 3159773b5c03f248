------------------------- MODULE WestonRepaint_proofs -------------------------
(***************************************************************************)
(* The invariants of WestonRepaint, for any number of outputs.             *)
(***************************************************************************)
EXTENDS WestonRepaint, SequenceTheorems, TLAPS
LOCAL INSTANCE SequencesExt

Statuses == {Idle, "begin from idle", "scheduled", "awaiting"}
Record == [status : Statuses, needed : BOOLEAN, dpms : BOOLEAN, fb : BOOLEAN,
           last : BOOLEAN, pending : BOOLEAN, disable : BOOLEAN,
           destroy : BOOLEAN, dpms_off : BOOLEAN]


-----------------------------------------------------------------------------
(* The list of outputs, a sequence without duplicates.                     *)

\* An output is added at the end of the list.
LEMMA ListAdded ==
    ASSUME NEW S, NEW s \in Seq(S), NEW e \in S, IsInjective(s), e \notin Range(s)
    PROVE  /\ Append(s, e) \in Seq(S) /\ IsInjective(Append(s, e))
           /\ Range(Append(s, e)) = Range(s) \cup {e}
<1> DEFINE t == Append(s, e)
<1>1. /\ t \in Seq(S) /\ Len(t) = Len(s) + 1 /\ Len(s) \in Nat
      /\ DOMAIN t = 1..Len(s) + 1 /\ DOMAIN s = 1..Len(s)
      /\ \A i \in 1..Len(s) : t[i] = s[i]
      /\ t[Len(s) + 1] = e
  OBVIOUS
<1>2. \A i \in 1..Len(s) : t[i] # e
  BY <1>1 DEF Range
<1>3. IsInjective(t)
  BY <1>1, <1>2 DEF IsInjective
<1>4. Range(t) = Range(s) \cup {e}
  BY <1>1 DEF Range
<1> QED BY <1>1, <1>3, <1>4

\* An output is taken out of its place in the list.
LEMMA ListRemoved ==
    ASSUME NEW S, NEW s \in Seq(S), IsInjective(s), NEW k \in DOMAIN s
    PROVE  /\ RemoveAt(s, k) \in Seq(S) /\ IsInjective(RemoveAt(s, k))
           /\ Range(RemoveAt(s, k)) = Range(s) \ {s[k]}
<1> DEFINE t == RemoveAt(s, k)
<1>1. DOMAIN s = 1..Len(s) /\ Len(s) \in Nat /\ k \in 1..Len(s)
  OBVIOUS
<1>2. /\ t \in Seq(S) /\ Len(t) = Len(s) - 1 /\ DOMAIN t = 1..Len(s) - 1
      /\ \A i \in 1..Len(s) - 1 : t[i] = IF i < k THEN s[i] ELSE s[i + 1]
  <2> DEFINE a == SubSeq(s, 1, k - 1)
             b == SubSeq(s, k + 1, Len(s))
  <2>1. /\ a \in Seq(S) /\ Len(a) = k - 1
        /\ \A i \in 1..k - 1 : a[i] = s[i]
    BY <1>1
  <2>2. /\ b \in Seq(S) /\ Len(b) = Len(s) - k
        /\ \A i \in 1..Len(s) - k : b[i] = s[k + i]
    BY <1>1
  <2>3. t = a \o b
    BY DEF RemoveAt
  <2> HIDE DEF a, b, t
  <2>4. t \in Seq(S) /\ Len(t) = Len(s) - 1 /\ DOMAIN t = 1..Len(s) - 1
    <3>1. t \in Seq(S) /\ Len(t) = Len(a) + Len(b)
      BY <2>1, <2>2, <2>3, ConcatProperties
    <3>2. Len(t) = Len(s) - 1
      BY <1>1, <2>1, <2>2, <3>1
    <3> QED BY <3>1, <3>2
  <2>5. ASSUME NEW i \in 1..Len(s) - 1
        PROVE  t[i] = IF i < k THEN s[i] ELSE s[i + 1]
    <3>1. CASE i < k
      <4>1. i \in 1..k - 1
        BY <1>1, <3>1
      <4> QED BY <1>1, <2>1, <2>2, <2>3, <3>1, <4>1
    <3>2. CASE ~(i < k)
      <4>1. i - (k - 1) \in 1..Len(s) - k /\ k + (i - (k - 1)) = i + 1
        BY <1>1, <3>2
      <4>2. t[i] = b[i - (k - 1)]
        BY <1>1, <2>1, <2>2, <2>3, <3>2, SMTT(30)
      <4> QED BY <2>2, <3>2, <4>1, <4>2
    <3> QED BY <3>1, <3>2
  <2> QED BY <2>4, <2>5
<1> HIDE DEF t
<1>3. ASSUME NEW i \in 1..Len(s) - 1
      PROVE  \E j \in 1..Len(s) : t[i] = s[j] /\ j # k /\ (j < k => j = i) /\ (j > k => j = i + 1)
  <2>1. CASE i < k
    BY <1>1, <1>2, <2>1
  <2>2. CASE ~(i < k)
    BY <1>1, <1>2, <2>2
  <2> QED BY <2>1, <2>2
<1>4. IsInjective(t)
  <2> SUFFICES ASSUME NEW i \in 1..Len(s) - 1, NEW j \in 1..Len(s) - 1, t[i] = t[j]
               PROVE  i = j
    BY <1>2 DEF IsInjective
  <2>1. PICK x \in 1..Len(s) : t[i] = s[x] /\ x # k /\ (x < k => x = i) /\ (x > k => x = i + 1)
    BY <1>3
  <2>2. PICK y \in 1..Len(s) : t[j] = s[y] /\ y # k /\ (y < k => y = j) /\ (y > k => y = j + 1)
    BY <1>3
  <2>3. x = y
    BY <1>1, <2>1, <2>2 DEF IsInjective
  <2> QED BY <1>1, <2>1, <2>2, <2>3
<1>5. ASSUME NEW e \in Range(s), e # s[k] PROVE e \in Range(t)
  <2>1. PICK j \in 1..Len(s) : s[j] = e /\ j # k
    BY <1>1, <1>5 DEF Range
  <2>2. CASE j < k
    <3>1. j \in 1..Len(s) - 1 /\ t[j] = s[j]
      BY <1>1, <1>2, <2>2
    <3> QED BY <1>2, <2>1, <3>1 DEF Range
  <2>3. CASE j > k
    <3>1. j - 1 \in 1..Len(s) - 1 /\ ~(j - 1 < k) /\ (j - 1) + 1 = j
      BY <1>1, <2>3
    <3>2. t[j - 1] = s[j]
      BY <1>2, <3>1
    <3> QED BY <1>2, <2>1, <3>1, <3>2 DEF Range
  <2> QED BY <1>1, <2>1, <2>2, <2>3
<1>6. ASSUME NEW e \in Range(t) PROVE e \in Range(s) \ {s[k]}
  <2>1. PICK i \in 1..Len(s) - 1 : t[i] = e
    BY <1>2, <1>6 DEF Range
  <2>2. PICK j \in 1..Len(s) : t[i] = s[j] /\ j # k
    BY <1>3
  <2>3. s[j] # s[k]
    BY <1>1, <2>2 DEF IsInjective
  <2> QED BY <1>1, <2>1, <2>2, <2>3 DEF Range
<1> QED BY <1>2, <1>4, <1>5, <1>6 DEF t

-----------------------------------------------------------------------------
(* The inductive invariant.                                                *)

\* The kernel owes an event for an output exactly while the output has a
\* flip pending, and then the output is waiting for it.
Owed ==
    \A o \in Outputs :
        /\ o \in flips => out[o].pending /\ out[o].last
        /\ out[o].pending \/ out[o].last => o \in flips
        /\ o \in flips => out[o].status = "awaiting"

\* An output that is due has a timer.
Armed == \A o \in Live : out[o].status = "scheduled" => timer

\* With the kernel's leave, a frame that is needed has something to paint it.
Fed == Awake /\ master =>
          \A o \in Live : out[o].needed => out[o].status # Idle

\* An output that is still on while the compositor sleeps is switched off by
\* the flip that is on its way: waking finds every other output dark.
Darkened ==
    state = "sleeping" /\ master =>
        \A o \in Live : out[o].dpms => o \in flips /\ out[o].dpms_off

\* Only the return of the session ends the time off screen.
OffScreen == state = "offscreen" => ~session_active

\* Unless commits are rejected, no output waits for an event that the kernel
\* does not owe.
Completes ==
    ~MayReject => \A o \in Outputs : out[o].status = "awaiting" => o \in flips

IInv == RepaintTypeOK /\ NothingHoldsFreed /\ Owed /\ Armed /\ Fed
        /\ Darkened /\ OffScreen /\ Completes

-----------------------------------------------------------------------------
(* The invariant, output by output.                                        *)

\* What IInv says of the output o.
Sound(o) ==
    /\ out[o] \in Record
    /\ o \in idle <=> out[o].status = "begin from idle"
    /\ o \in flips => /\ o \in Live /\ out[o].status = "awaiting"
                      /\ out[o].pending /\ out[o].last
    /\ out[o].pending \/ out[o].last => o \in flips
    /\ ~MayReject /\ out[o].status = "awaiting" => o \in flips
    /\ o \notin Live => out[o] = Fresh
    /\ o \in Live =>
        /\ out[o].status = "scheduled" => timer
        /\ Awake /\ master /\ out[o].needed => out[o].status # Idle
        /\ state = "sleeping" /\ master /\ out[o].dpms =>
                o \in flips /\ out[o].dpms_off

\* And what it says of the rest.
Whole ==
    /\ state \in {"active", "sleeping", "offscreen"}
    /\ atomic_modeset \in BOOLEAN /\ session_active \in BOOLEAN
    /\ master \in BOOLEAN /\ state_invalid \in BOOLEAN /\ timer \in BOOLEAN
    /\ output_list \in Seq(Outputs) /\ IsInjective(output_list)
    /\ DOMAIN out = Outputs /\ out = [o \in Outputs |-> out[o]]
    /\ idle \subseteq Outputs /\ flips \subseteq Outputs
    /\ dirty \in [Outputs -> {"clean", "dirty", "lost"}]
    /\ state = "offscreen" => ~session_active

\* The outputs of the list are outputs.
LEMMA LiveOutputs == Whole => Live \subseteq Outputs
BY DEF Whole, Live, Range

\* The fields of a record.
LEMMA Fields ==
    ASSUME NEW r \in Record
    PROVE  /\ r.status \in Statuses /\ r.needed \in BOOLEAN
           /\ r.dpms \in BOOLEAN /\ r.fb \in BOOLEAN /\ r.last \in BOOLEAN
           /\ r.pending \in BOOLEAN /\ r.disable \in BOOLEAN
           /\ r.destroy \in BOOLEAN /\ r.dpms_off \in BOOLEAN
BY DEF Record

\* An output that is not there has nothing under way.
LEMMA FreshFields ==
    /\ Fresh \in Record /\ Fresh.status = Idle /\ ~Fresh.needed
    /\ ~Fresh.dpms /\ ~Fresh.fb /\ ~Fresh.last /\ ~Fresh.pending
    /\ ~Fresh.destroy
BY DEF Fresh, Record, Statuses

\* The two ways of saying it are the same.
LEMMA OutputByOutput == IInv <=> Whole /\ \A o \in Outputs : Sound(o)
<1>1. ASSUME IInv PROVE Whole /\ \A o \in Outputs : Sound(o)
  <2>1. out \in [Outputs -> Record]
    BY <1>1 DEF IInv, RepaintTypeOK, Record, Statuses
  <2>2. Whole
    BY <1>1 DEF IInv, RepaintTypeOK, OffScreen, Whole
  <2>3. ASSUME NEW o \in Outputs PROVE Sound(o)
    <3>1. out[o] \in Record
      BY <2>1
    <3>2. (o \in idle) <=> (out[o].status = "begin from idle")
      BY <1>1 DEF IInv, NothingHoldsFreed
    <3>3. o \in flips => /\ o \in Live /\ out[o].status = "awaiting"
                         /\ out[o].pending /\ out[o].last
      BY <1>1 DEF IInv, NothingHoldsFreed, Owed
    <3>4. out[o].pending \/ out[o].last => o \in flips
      BY <1>1 DEF IInv, Owed
    <3>5. o \notin Live => out[o] = Fresh
      BY <1>1 DEF IInv, NothingHoldsFreed
    <3>6. o \in Live =>
            /\ out[o].status = "scheduled" => timer
            /\ Awake /\ master /\ out[o].needed => out[o].status # Idle
            /\ state = "sleeping" /\ master /\ out[o].dpms =>
                    o \in flips /\ out[o].dpms_off
      BY <1>1 DEF IInv, Armed, Fed, Darkened
    <3>7. ~MayReject /\ out[o].status = "awaiting" => o \in flips
      BY <1>1 DEF IInv, Completes
    <3> QED BY <3>1, <3>2, <3>3, <3>4, <3>5, <3>6, <3>7 DEF Sound
  <2> QED BY <2>2, <2>3
<1>2. ASSUME Whole, \A o \in Outputs : Sound(o) PROVE IInv
  <2>0. Live \subseteq Outputs
    BY <1>2 DEF Whole, Live, Range
  <2>1. out \in [Outputs -> Record]
    BY <1>2 DEF Whole, Sound
  <2>2. RepaintTypeOK
    BY <1>2, <2>1 DEF RepaintTypeOK, Whole, Record, Statuses
  <2>3. NothingHoldsFreed
    <3>1. idle \cup flips \subseteq Live
      <4>1. ASSUME NEW o \in idle PROVE o \in Live
        <5>1. o \in Outputs /\ out[o].status = "begin from idle"
          BY <1>2 DEF Whole, Sound
        <5> QED BY <1>2, <5>1, FreshFields DEF Sound, Idle
      <4> QED BY <1>2, <4>1 DEF Whole, Sound
    <3>2. \A o \in Outputs : o \in idle <=> out[o].status = "begin from idle"
      BY <1>2 DEF Sound
    <3>3. \A o \in Outputs \ Live : out[o] = Fresh
      BY <1>2 DEF Sound
    <3> QED BY <3>1, <3>2, <3>3 DEF NothingHoldsFreed
  <2>4. Owed
    BY <1>2 DEF Owed, Sound
  <2>5. Armed /\ Fed /\ Darkened
    BY <1>2, <2>0 DEF Armed, Fed, Darkened, Sound
  <2>6. OffScreen
    BY <1>2 DEF Whole, OffScreen
  <2>7. Completes
    BY <1>2 DEF Completes, Sound
  <2> QED BY <2>2, <2>3, <2>4, <2>5, <2>6, <2>7 DEF IInv
<1> QED BY <1>1, <1>2

\* An output that a step leaves alone, but for the timer that is armed.
LEMMA Untouched ==
    ASSUME NEW o \in Outputs, Sound(o), out'[o] = out[o],
           o \in idle' <=> o \in idle, o \in flips' <=> o \in flips,
           o \in Live' <=> o \in Live, timer => timer',
           state' = state, master' => master
    PROVE  Sound(o)'
BY DEF Sound, Awake


-----------------------------------------------------------------------------
(* The records the handlers make of the record of an output.               *)

\* The record q is r with another state of the loop.
Moved(q, r, s) ==
    /\ q \in Record /\ q.status = s /\ q.needed = r.needed
    /\ q.dpms = r.dpms /\ q.dpms_off = r.dpms_off
    /\ q.last = r.last /\ q.pending = r.pending

\* The record q is r asked for a frame.
Asked(q, r) ==
    /\ q \in Record /\ q.needed
    /\ q.status = IF r.status = Idle THEN "begin from idle" ELSE r.status
    /\ q.dpms = r.dpms /\ q.dpms_off = r.dpms_off
    /\ q.last = r.last /\ q.pending = r.pending

\* A change of the state of the loop only.
LEMMA StatusFields ==
    ASSUME NEW r \in Record, NEW s \in Statuses
    PROVE  Moved([r EXCEPT !.status = s], r, s)
BY DEF Moved, Record

\* weston_output_schedule_repaint of another output.
LEMMA NotScheduled ==
    ASSUME NEW os, NEW f, NEW o \in Outputs, o \notin os
    PROVE  Scheduled(os, f)[o] = f[o]
BY DEF Scheduled

\* weston_output_schedule_repaint of this output.
LEMMA NowScheduled ==
    ASSUME NEW os, NEW f, NEW o \in Outputs, o \in os, f[o] \in Record
    PROVE  Asked(Scheduled(os, f)[o], f[o])
<1>1. Scheduled(os, f)[o] = [f[o] EXCEPT !.needed = TRUE,
        !.status = IF f[o].status = Idle THEN "begin from idle" ELSE f[o].status]
  BY DEF Scheduled
<1> QED BY <1>1 DEF Asked, Record, Statuses

\* One record is replaced.
LEMMA Replaced ==
    ASSUME NEW f, f = [o \in Outputs |-> f[o]], NEW i \in Outputs, NEW r
    PROVE  /\ DOMAIN [f EXCEPT ![i] = r] = Outputs
           /\ [f EXCEPT ![i] = r] = [o \in Outputs |-> [f EXCEPT ![i] = r][o]]
           /\ \A o \in Outputs : o # i => [f EXCEPT ![i] = r][o] = f[o]
           /\ [f EXCEPT ![i] = r][i] = r
OBVIOUS

-----------------------------------------------------------------------------
(* Each handler preserves it.                                              *)

\* A change of what an output shows, seen or not.
LEMMA DamageStep ==
    ASSUME Whole, \A o \in Outputs : Sound(o), NEW d \in Outputs, Damage(d)
    PROVE  Whole' /\ \A o \in Outputs : Sound(o)'
<1>0. /\ d \in Live /\ Live' = Live /\ state' = state /\ master' = master
      /\ flips' = flips /\ timer' = timer
  BY DEF Damage, seat_vars, Live
<1>1. CASE ~Awake
  <2>1. out' = out /\ idle' = idle
    BY <1>1 DEF Damage
  <2>2. Whole'
    BY <1>0, <1>1, <2>1 DEF Damage, Whole, seat_vars
  <2> QED BY <1>0, <2>1, <2>2, Untouched
<1>2. CASE Awake
  <2>1. out' = Scheduled({d}, out) /\ idle' = idle \cup Started({d})
    BY <1>2 DEF Damage
  <2>2. Whole'
    <3>1. DOMAIN out' = Outputs /\ out' = [o \in Outputs |-> out'[o]]
      BY <2>1 DEF Scheduled
    <3>2. idle' \subseteq Outputs
      BY <2>1 DEF Started, Whole
    <3> QED BY <1>0, <1>2, <3>1, <3>2 DEF Damage, Whole, seat_vars
  <2>3. ASSUME NEW o \in Outputs, o # d PROVE Sound(o)'
    <3>1. Scheduled({d}, out)[o] = out[o]
      BY <2>3, NotScheduled
    <3>2. o \in idle' <=> o \in idle
      BY <2>1, <2>3 DEF Started
    <3> QED BY <1>0, <2>1, <3>1, <3>2, Untouched
  <2>4. Sound(d)'
    <3>1. Sound(d) /\ out[d] \in Record
      BY DEF Sound
    <3>2. Asked(out'[d], out[d])
      BY <2>1, <3>1, NowScheduled
    <3>3. d \in idle' <=> d \in idle \/ out[d].status = Idle
      BY <2>1 DEF Started
    <3>4. ~(state = "sleeping")
      BY <1>2 DEF Awake
    <3> QED BY <1>0, <1>2, <3>1, <3>2, <3>3, <3>4 DEF Sound, Awake, Idle, Asked
  <2> QED BY <2>2, <2>3, <2>4
<1> QED BY <1>1, <1>2

\* The start of a loop: at once, with a flip, or with one that is refused.
LEMMA IdleStep ==
    ASSUME Whole, \A o \in Outputs : Sound(o), NEW i \in Outputs, IdleRepaint(i)
    PROVE  Whole' /\ \A o \in Outputs : Sound(o)'
<1>0. /\ i \in idle /\ idle' = idle \ {i} /\ Live' = Live /\ state' = state
      /\ master' = master
  BY DEF IdleRepaint, seat_vars, Live
<1>1. /\ Sound(i) /\ out[i] \in Record /\ out[i].status = "begin from idle"
  BY <1>0 DEF Sound
<1>2. i \in Live /\ i \notin flips /\ ~out[i].pending /\ ~out[i].last
  BY <1>1, FreshFields, Fields DEF Sound, Idle
<1>3. out = [o \in Outputs |-> out[o]]
  BY DEF Whole
<1>4. ASSUME Whole', timer => timer', Sound(i)',
             \A o \in Outputs : o # i =>
                out'[o] = out[o] /\ (o \in flips' <=> o \in flips)
      PROVE  Whole' /\ \A o \in Outputs : Sound(o)'
  BY <1>0, <1>4, Untouched
<1>5. CASE /\ Finished([out EXCEPT ![i].status = "scheduled"])
           /\ UNCHANGED <<flips, dirty, state_invalid>>
  <2> DEFINE r == [out[i] EXCEPT !.status = "scheduled"]
  <2>1. out' = [out EXCEPT ![i] = r] /\ flips' = flips
    BY <1>5 DEF Finished
  <2>2. /\ DOMAIN out' = Outputs /\ out' = [o \in Outputs |-> out'[o]]
        /\ \A o \in Outputs : o # i => out'[o] = out[o]
        /\ out'[i] = r
    BY <1>3, <2>1, Replaced
  <2>3. Moved(out'[i], out[i], "scheduled")
    BY <1>1, <2>2, StatusFields DEF Statuses
  <2>4. timer'
    <3>1. out'[i].status = "scheduled"
      BY <2>3 DEF Moved
    <3> QED BY <1>5, <3>1 DEF Finished
  <2>5. Whole'
    BY <1>0, <1>5, <2>1, <2>2, <2>4 DEF Whole, IdleRepaint, seat_vars
  <2>6. Sound(i)'
    BY <1>0, <1>1, <1>2, <2>1, <2>3, <2>4 DEF Sound, Moved, Awake, Idle
  <2> QED BY <1>4, <2>1, <2>2, <2>4, <2>5, <2>6
<1>6. CASE /\ out[i].fb /\ out[i].dpms /\ ~state_invalid /\ master
           /\ out' = [out EXCEPT ![i] =
                        [Flipped(@) EXCEPT !.status = "awaiting"]]
           /\ flips' = flips \cup {i}
           /\ UNCHANGED <<timer, dirty, state_invalid>>
  <2> DEFINE r == [Flipped(out[i]) EXCEPT !.status = "awaiting"]
  <2>1. /\ DOMAIN out' = Outputs /\ out' = [o \in Outputs |-> out'[o]]
        /\ \A o \in Outputs : o # i => out'[o] = out[o]
        /\ out'[i] = r
    BY <1>3, <1>6, Replaced
  <2>2. /\ r \in Record /\ r.status = "awaiting" /\ r.pending /\ r.last
        /\ r.dpms /\ r.dpms_off = out[i].dpms_off
    BY <1>1 DEF Record, Flipped, Statuses
  <2>3. Whole'
    BY <1>0, <1>6, <2>1 DEF Whole, IdleRepaint, seat_vars
  <2> HIDE DEF r
  <2>4. ~(state = "sleeping")
    BY <1>1, <1>2, <1>6 DEF Sound
  <2>5. Sound(i)'
    BY <1>0, <1>1, <1>2, <1>6, <2>1, <2>2, <2>4 DEF Sound, Awake, Idle
  <2>6. \A o \in Outputs : o # i => (o \in flips' <=> o \in flips)
    BY <1>6
  <2> QED BY <1>4, <1>6, <2>1, <2>3, <2>5, <2>6
<1>7. CASE /\ out[i].fb /\ out[i].dpms /\ ~state_invalid
           /\ ~master
           /\ out' = [out EXCEPT ![i].status = Idle,
                                ![i].dpms = atomic_modeset /\ @]
           /\ dirty' = [dirty EXCEPT ![i] = "lost"]
           /\ UNCHANGED <<flips, state_invalid, timer>>
  <2> DEFINE r == [out[i] EXCEPT !.status = Idle, !.dpms = atomic_modeset /\ @]
  <2>1. out' = [out EXCEPT ![i] = r]
    BY <1>3, <1>7
  <2>2. /\ DOMAIN out' = Outputs /\ out' = [o \in Outputs |-> out'[o]]
        /\ \A o \in Outputs : o # i => out'[o] = out[o]
        /\ out'[i] = r
    BY <1>3, <2>1, Replaced
  <2>3. /\ r \in Record /\ r.status = Idle
        /\ r.pending = out[i].pending /\ r.last = out[i].last
    BY <1>1 DEF Record, Statuses, Whole
  <2>4. Whole'
    BY <1>0, <1>7, <2>2 DEF Whole, IdleRepaint, seat_vars
  <2> HIDE DEF r
  <2>5. Sound(i)'
    BY <1>0, <1>1, <1>2, <1>7, <2>2, <2>3 DEF Sound, Awake, Idle
  <2> QED BY <1>4, <1>7, <2>2, <2>4, <2>5
<1> QED BY <1>5, <1>6, <1>7 DEF IdleRepaint

\* The timer: every output that is due is painted, leaves the loop or waits on.
LEMMA TimerStep ==
    ASSUME Whole, \A o \in Outputs : Sound(o), NEW d \in Outputs, TimerFires(d)
    PROVE  Whole' /\ \A o \in Outputs : Sound(o)'
<1>1. PICK D \in SUBSET Live, bad \in Live \cup {NULL}, rejected \in BOOLEAN :
        RepaintTimer(D, bad, rejected)
  BY DEF TimerFires
<1> DEFINE visited == UpTo(D, bad)
           painting == {o \in visited : Wants(o)}
           refused == bad = NULL /\ ~master
           f == [o \in Outputs |->
                IF o \notin visited THEN out[o]
                ELSE IF o \notin painting THEN [out[o] EXCEPT !.status = Idle]
                ELSE IF bad # NULL \/ refused THEN Dropped(out[o], refused)
                ELSE Painting(out[o], rejected)]
<1>2. /\ out' = f
      /\ D \subseteq {o \in Live : out[o].status = "scheduled"}
      /\ rejected => MayReject /\ bad = NULL /\ master
      /\ flips' = IF Accepted(bad, rejected)
                  THEN flips \cup painting ELSE flips
      /\ timer' = (\E o \in Live : f[o].status = "scheduled")
      /\ dirty' = [o \in Outputs |->
                IF o \notin painting THEN dirty[o]
                ELSE IF Accepted(bad, rejected) THEN "clean" ELSE "lost"]
      /\ state_invalid' = (state_invalid /\
                (bad # NULL \/ rejected \/ (refused /\ atomic_modeset)))
  BY <1>1 DEF RepaintTimer
<1>3. /\ Live' = Live /\ state' = state /\ master' = master /\ idle' = idle
      /\ atomic_modeset' = atomic_modeset /\ output_list' = output_list
      /\ session_active' = session_active
  BY <1>1 DEF RepaintTimer, seat_vars, Live
<1>4. visited \subseteq D /\ painting \subseteq visited
      /\ Live \subseteq Outputs
  BY DEF UpTo, Whole, Live, Range
<1>5. Whole'
  <2>1. DOMAIN out' = Outputs /\ out' = [o \in Outputs |-> out'[o]]
    BY <1>2
  <2>2. flips' \subseteq Outputs
    BY <1>2, <1>4 DEF Whole
  <2>3. timer' \in BOOLEAN /\ state_invalid' \in BOOLEAN
    BY <1>2 DEF Whole
  <2>4. dirty' \in [Outputs -> {"clean", "dirty", "lost"}]
    BY <1>2 DEF Whole
  <2> QED BY <1>3, <2>1, <2>2, <2>3, <2>4 DEF Whole
<1> HIDE DEF visited
<1>6. ASSUME NEW o \in Outputs PROVE Sound(o)'
  <2>0. Sound(o) /\ out[o] \in Record
    BY DEF Sound
  <2>1. CASE o \notin visited
    <3>1. out'[o] = out[o] /\ o \notin painting
      BY <1>2, <2>1
    <3>2. o \in flips' <=> o \in flips
      BY <1>2, <3>1
    <3>3. o \in Live /\ out[o].status = "scheduled" => timer'
      BY <1>2, <2>1
    <3> QED BY <1>3, <2>0, <3>1, <3>2, <3>3 DEF Sound, Awake
  <2>2. CASE o \in visited
    <3>1. /\ o \in Live /\ out[o].status = "scheduled" /\ o \notin flips
          /\ ~out[o].pending /\ ~out[o].last
      BY <1>2, <1>4, <2>0, <2>2 DEF Sound, Idle
    <3>2. CASE o \notin painting
      <4>1. out'[o] = [out[o] EXCEPT !.status = Idle] /\ o \notin flips'
        BY <1>2, <2>2, <3>1, <3>2
      <4>2. Moved(out'[o], out[o], Idle)
        BY <2>0, <4>1, StatusFields DEF Statuses
      <4>3. ~(Awake /\ out[o].needed)
        BY <2>2, <3>2 DEF Wants
      <4> QED BY <1>3, <2>0, <3>1, <4>1, <4>2, <4>3 DEF Sound, Moved, Awake, Idle
    <3>3. CASE o \in painting /\ (bad # NULL \/ refused)
      <4>1. out'[o] = Dropped(out[o], refused) /\ o \notin flips'
        BY <1>2, <2>2, <3>1, <3>3 DEF Accepted
      <4>2. /\ Dropped(out[o], refused) \in Record
            /\ Dropped(out[o], refused).status = Idle
            /\ ~Dropped(out[o], refused).needed
            /\ Dropped(out[o], refused).last = out[o].last
            /\ Dropped(out[o], refused).pending = out[o].pending
        BY <2>0 DEF Dropped, Record, Statuses, Whole
      <4>3. state # "sleeping"
        BY <3>3 DEF Wants, Awake
      <4> QED BY <1>3, <2>0, <3>1, <4>1, <4>2, <4>3 DEF Sound, Awake, Idle
    <3>4. CASE o \in painting /\ bad = NULL /\ ~refused
      <4>0. state # "sleeping" /\ master
        BY <3>4 DEF Wants, Awake
      <4>1. out'[o] = Painting(out[o], rejected)
        BY <1>2, <2>2, <3>4
      <4>2. CASE rejected
        <5>1. o \notin flips' /\ MayReject
          BY <1>2, <3>1, <4>2 DEF Accepted
        <5>2. /\ Painting(out[o], rejected) \in Record
              /\ Painting(out[o], rejected).status = "awaiting"
              /\ ~Painting(out[o], rejected).needed
              /\ Painting(out[o], rejected).last = out[o].last
              /\ Painting(out[o], rejected).pending = out[o].pending
          BY <2>0, <4>2 DEF Painting, Record, Statuses
        <5> QED BY <1>3, <2>0, <3>1, <4>0, <4>1, <5>1, <5>2 DEF Sound, Awake, Idle
      <4>3. CASE ~rejected
        <5>1. o \in flips'
          BY <1>2, <3>4, <4>0, <4>3 DEF Accepted
        <5>2. /\ Painting(out[o], rejected) \in Record
              /\ Painting(out[o], rejected).status = "awaiting"
              /\ Painting(out[o], rejected).last
              /\ Painting(out[o], rejected).pending
          BY <2>0, <4>3 DEF Painting, Flipped, Record, Statuses
        <5> QED BY <1>3, <2>0, <3>1, <4>0, <4>1, <5>1, <5>2 DEF Sound, Awake, Idle
      <4> QED BY <4>2, <4>3
    <3> QED BY <3>2, <3>3, <3>4
  <2> QED BY <2>1, <2>2
<1> QED BY <1>5, <1>6

\* weston_output_release, when no flip is left for the output.
LEMMA ReleaseStep ==
    ASSUME Whole, \A o \in Outputs : Sound(o), NEW d \in Live, Removed(d),
           flips' = flips \ {d}, timer' = timer, atomic_modeset' = atomic_modeset,
           UNCHANGED seat_vars
    PROVE  Whole' /\ \A o \in Outputs : Sound(o)'
<1>1. PICK k \in DOMAIN output_list : k = Place(d) /\ output_list[k] = d
  BY DEF Live, Range, Place
<1>2. /\ output_list' \in Seq(Outputs) /\ IsInjective(output_list')
      /\ Live' = Live \ {d}
  BY <1>1, ListRemoved DEF Whole, Removed, Live
<1>3. d \in Outputs
  BY DEF Whole, Live, Range
<1>4. /\ DOMAIN out' = Outputs /\ out' = [o \in Outputs |-> out'[o]]
      /\ \A o \in Outputs : o # d => out'[o] = out[o]
      /\ out'[d] = Fresh
  BY <1>3, Replaced DEF Whole, Removed
<1>5. idle' = idle \ {d} /\ dirty' \in [Outputs -> {"clean", "dirty", "lost"}]
      /\ state_invalid' = TRUE
  BY DEF Removed, Whole
<1>6. Whole'
  BY <1>2, <1>4, <1>5 DEF Whole, seat_vars
<1>7. Sound(d)'
  BY <1>2, <1>4, <1>5, FreshFields DEF Sound, Idle
<1>8. ASSUME NEW o \in Outputs, o # d PROVE Sound(o)'
  <2>1. (o \in idle' <=> o \in idle) /\ (o \in flips' <=> o \in flips)
        /\ (o \in Live' <=> o \in Live) /\ out'[o] = out[o]
    BY <1>2, <1>4, <1>5, <1>8
  <2> QED BY <2>1, Untouched DEF seat_vars
<1> QED BY <1>6, <1>7, <1>8

\* The end of a flip: the output is freed, or goes on with the loop.
LEMMA FlipStep ==
    ASSUME Whole, \A o \in Outputs : Sound(o), NEW d \in Outputs, FlipDone(d)
    PROVE  Whole' /\ \A o \in Outputs : Sound(o)'
<1>0. /\ d \in flips /\ flips' = flips \ {d} /\ atomic_modeset' = atomic_modeset
      /\ UNCHANGED seat_vars
  BY DEF FlipDone
<1>1. /\ out[d] \in Record /\ d \in Live /\ out[d].status = "awaiting"
      /\ Sound(d)
  BY <1>0 DEF Sound
<1>2. CASE out[d].destroy
  BY <1>0, <1>1, <1>2, ReleaseStep DEF FlipDone
<1>3. CASE ~out[d].destroy
  <2> DEFINE off == out[d].dpms_off /\ SyncApplies
             r == [out[d] EXCEPT !.pending = FALSE, !.last = FALSE,
                                 !.dpms_off = FALSE]
             now == IF off THEN PoweredOff(r) ELSE r
             g == [now EXCEPT !.status = "scheduled"]
             x == IF ~now.dpms /\ now.status # "awaiting" THEN now ELSE g
  <2>1. /\ Finished([out EXCEPT ![d] = x])
        /\ state_invalid' = (state_invalid /\ ~off)
        /\ UNCHANGED <<output_list, idle, dirty>>
    BY <1>3 DEF FlipDone
  <2>2. /\ now \in Record /\ now.status = "awaiting"
        /\ ~now.pending /\ ~now.last
        /\ master => (now.dpms => out[d].dpms /\ ~out[d].dpms_off)
    BY <1>1 DEF Record, PoweredOff, SyncApplies
  <2>3. x = g
    BY <2>2
  <2>4. /\ g \in Record /\ g.status = "scheduled" /\ ~g.pending /\ ~g.last
        /\ g.dpms = now.dpms
    BY <2>2, ZenonT(30) DEF Record, Statuses
  <2> HIDE DEF g, now, r, x
  <2>5. out' = [out EXCEPT ![d] = g]
    BY <2>1, <2>3 DEF Finished
  <2>6. /\ DOMAIN out' = Outputs /\ out' = [o \in Outputs |-> out'[o]]
        /\ \A o \in Outputs : o # d => out'[o] = out[o]
        /\ out'[d] = g
    <3>1. out = [o \in Outputs |-> out[o]]
      BY DEF Whole
    <3> QED BY <2>5, <3>1, Replaced
  <2>7. timer'
    BY <2>1, <2>3, <2>4, <2>5, <2>6 DEF Finished
  <2>8. Live' = Live
    BY <2>1 DEF Live
  <2>9. Whole'
    <3>1. state_invalid' \in BOOLEAN
      BY <2>1 DEF Whole
    <3> QED BY <1>0, <2>1, <2>6, <2>7, <3>1 DEF Whole, seat_vars
  <2>10. Sound(d)'
    <3>1. state = "sleeping" /\ master => ~g.dpms
      BY <1>1, <2>2, <2>4 DEF Sound
    <3> QED BY <1>0, <1>1, <2>1, <2>4, <2>6, <2>7, <2>8, <3>1
            DEF Sound, Awake, Idle, seat_vars
  <2>11. ASSUME NEW o \in Outputs, o # d PROVE Sound(o)'
    BY <1>0, <2>1, <2>6, <2>7, <2>8, <2>11, Untouched DEF seat_vars
  <2> QED BY <2>9, <2>10, <2>11
<1> QED BY <1>2, <1>3

\* A monitor is plugged in: its output asks for a first frame.
LEMMA PlugStep ==
    ASSUME Whole, \A o \in Outputs : Sound(o), NEW d \in Outputs, Plug(d)
    PROVE  Whole' /\ \A o \in Outputs : Sound(o)'
<1>0. /\ d \notin Live /\ output_list' = Append(output_list, d)
      /\ out' = (IF Awake THEN Scheduled({d}, out) ELSE out)
      /\ idle' = (IF Awake THEN idle \cup Started({d}) ELSE idle)
      /\ dirty' = [dirty EXCEPT ![d] = IF Awake THEN "dirty" ELSE "lost"]
      /\ flips' = flips /\ timer' = timer /\ state' = state /\ master' = master
      /\ session_active' = session_active /\ atomic_modeset' = atomic_modeset
      /\ state_invalid' = state_invalid
  BY DEF Plug, seat_vars
<1>1. /\ output_list' \in Seq(Outputs) /\ IsInjective(output_list')
      /\ Live' = Live \cup {d}
  BY <1>0, ListAdded DEF Whole, Live
<1>2. out[d] = Fresh /\ d \notin flips /\ d \notin idle /\ out[d] \in Record
  BY <1>0, FreshFields DEF Sound, Idle
<1>3. Whole'
  <2>1. DOMAIN out' = Outputs /\ out' = [o \in Outputs |-> out'[o]]
    BY <1>0 DEF Scheduled, Whole
  <2>2. idle' \subseteq Outputs
    BY <1>0 DEF Started, Whole
  <2>3. dirty' \in [Outputs -> {"clean", "dirty", "lost"}]
    BY <1>0 DEF Whole
  <2> QED BY <1>0, <1>1, <2>1, <2>2, <2>3 DEF Whole
<1>4. ASSUME NEW o \in Outputs, o # d PROVE Sound(o)'
  <2>1. Scheduled({d}, out)[o] = out[o]
    BY <1>4, NotScheduled
  <2>2. (o \in idle' <=> o \in idle) /\ (o \in Live' <=> o \in Live)
    BY <1>0, <1>1, <1>4 DEF Started
  <2> QED BY <1>0, <2>1, <2>2, Untouched
<1>5. Sound(d)'
  <2>1. CASE Awake
    <3>1. Asked(out'[d], Fresh)
      BY <1>0, <1>2, <2>1, NowScheduled
    <3>2. d \in idle'
      BY <1>0, <1>2, <2>1, FreshFields DEF Started
    <3>3. state # "sleeping"
      BY <2>1 DEF Awake
    <3> QED BY <1>0, <1>1, <1>2, <3>1, <3>2, <3>3, FreshFields
            DEF Sound, Asked, Idle, Awake
  <2>2. CASE ~Awake
    <3>1. out'[d] = Fresh /\ d \notin idle'
      BY <1>0, <1>2, <2>2
    <3> QED BY <1>0, <1>1, <1>2, <3>1, FreshFields DEF Sound, Idle, Awake
  <2> QED BY <2>1, <2>2
<1> QED BY <1>3, <1>4, <1>5

\* A monitor is unplugged: its output goes at once, or with its flip.
LEMMA UnplugStep ==
    ASSUME Whole, \A o \in Outputs : Sound(o), NEW d \in Outputs, Unplug(d)
    PROVE  Whole' /\ \A o \in Outputs : Sound(o)'
<1>0. /\ d \in Live /\ flips' = flips /\ timer' = timer
      /\ atomic_modeset' = atomic_modeset /\ UNCHANGED seat_vars
      /\ Sound(d) /\ out[d] \in Record
  BY DEF Unplug, Sound
<1>1. CASE ~out[d].pending
  <2>1. d \notin flips
    BY <1>0, <1>1 DEF Sound
  <2>2. flips' = flips \ {d} /\ Removed(d)
    BY <1>0, <1>1, <2>1 DEF Unplug
  <2> QED BY <1>0, <2>2, ReleaseStep
<1>2. CASE out[d].pending
  <2> DEFINE f == IF Awake THEN Scheduled({d}, out) ELSE out
             r == [f[d] EXCEPT !.disable = TRUE, !.destroy = TRUE]
  <2>1. /\ out' = [f EXCEPT ![d].disable = TRUE, ![d].destroy = TRUE]
        /\ state_invalid' = TRUE /\ output_list' = output_list
        /\ idle' = idle /\ dirty' = dirty
    BY <1>2 DEF Unplug
  <2>2. d \in flips /\ out[d].status = "awaiting"
    BY <1>0, <1>2 DEF Sound
  <2>3. f = [o \in Outputs |-> f[o]]
    BY DEF Scheduled, Whole
  <2>4. ASSUME NEW o \in Outputs, o # d PROVE f[o] = out[o]
    BY <2>4, NotScheduled
  <2>5. /\ f[d] \in Record /\ f[d].status = "awaiting"
        /\ f[d].dpms = out[d].dpms /\ f[d].dpms_off = out[d].dpms_off
        /\ f[d].last = out[d].last /\ f[d].pending = out[d].pending
    <3>1. CASE Awake
      <4>1. Asked(f[d], out[d])
        BY <1>0, <3>1, NowScheduled
      <4> QED BY <2>2, <4>1 DEF Asked, Idle
    <3>2. CASE ~Awake
      BY <1>0, <2>2, <3>2
    <3> QED BY <3>1, <3>2
  <2> HIDE DEF f
  <2>6. out' = [f EXCEPT ![d] = r]
    BY <2>1, <2>3
  <2>7. /\ r \in Record /\ r.status = "awaiting"
        /\ r.dpms = out[d].dpms /\ r.dpms_off = out[d].dpms_off
        /\ r.last = out[d].last /\ r.pending = out[d].pending
    BY <2>5 DEF Record
  <2> HIDE DEF r
  <2>8. /\ DOMAIN out' = Outputs /\ out' = [o \in Outputs |-> out'[o]]
        /\ \A o \in Outputs : o # d => out'[o] = f[o]
        /\ out'[d] = r
    BY <2>3, <2>6, Replaced
  <2>9. Whole'
    BY <1>0, <2>1, <2>8 DEF Whole, seat_vars
  <2>10. Live' = Live
    BY <2>1 DEF Live
  <2>11. Sound(d)'
    BY <1>0, <2>1, <2>2, <2>7, <2>8, <2>10 DEF Sound, Awake, Idle, seat_vars
  <2>12. ASSUME NEW o \in Outputs, o # d PROVE Sound(o)'
    BY <1>0, <2>1, <2>4, <2>8, <2>10, <2>12, Untouched DEF seat_vars
  <2> QED BY <2>9, <2>11, <2>12
<1> QED BY <1>1, <1>2

\* The compositor goes to sleep.
LEMMA SleepStep ==
    ASSUME Whole, \A o \in Outputs : Sound(o), Sleep
    PROVE  Whole' /\ \A o \in Outputs : Sound(o)'
<1>0. /\ state' = "sleeping" /\ Live' = Live /\ idle' = idle /\ flips' = flips
      /\ timer' = timer /\ master' = master
      /\ out' = [o \in Outputs |->
            IF o \notin Live \/ ~out[o].dpms THEN out[o]
            ELSE IF out[o].last THEN [out[o] EXCEPT !.dpms_off = TRUE]
            ELSE IF SyncApplies THEN PoweredOff(out[o]) ELSE out[o]]
  BY DEF Sleep, Live
<1>1. Whole'
  <2>1. DOMAIN out' = Outputs /\ out' = [o \in Outputs |-> out'[o]]
    BY <1>0
  <2>2. state_invalid' \in BOOLEAN
    BY DEF Whole, Sleep
  <2> QED BY <1>0, <2>1, <2>2 DEF Whole, Sleep
<1>2. ASSUME NEW o \in Outputs PROVE Sound(o)'
  <2>0. Sound(o) /\ out[o] \in Record
    BY DEF Sound
  <2>1. CASE o \notin Live \/ ~out[o].dpms
    <3>1. out'[o] = out[o]
      BY <1>0, <2>1
    <3> QED BY <1>0, <2>0, <2>1, <3>1 DEF Sound, Awake
  <2>2. CASE o \in Live /\ out[o].dpms /\ out[o].last
    <3>1. out'[o] = [out[o] EXCEPT !.dpms_off = TRUE]
      BY <1>0, <2>2
    <3>2. /\ out'[o] \in Record /\ out'[o].dpms_off
          /\ out'[o].status = out[o].status
          /\ out'[o].last = out[o].last /\ out'[o].pending = out[o].pending
      BY <2>0, <3>1 DEF Record
    <3> QED BY <1>0, <2>0, <2>2, <3>2 DEF Sound, Awake, Idle
  <2>3. CASE o \in Live /\ out[o].dpms /\ ~out[o].last /\ SyncApplies
    <3>1. out'[o] = PoweredOff(out[o])
      BY <1>0, <2>3
    <3>2. /\ out'[o] \in Record /\ ~out'[o].dpms
          /\ out'[o].status = out[o].status
          /\ out'[o].last = out[o].last /\ out'[o].pending = out[o].pending
      BY <2>0, <3>1 DEF Record, PoweredOff
    <3> QED BY <1>0, <2>0, <2>3, <3>2 DEF Sound, Awake, Idle
  <2>4. CASE o \in Live /\ out[o].dpms /\ ~out[o].last /\ ~SyncApplies
    <3>1. out'[o] = out[o] /\ ~master
      BY <1>0, <2>4 DEF SyncApplies
    <3> QED BY <1>0, <2>0, <2>4, <3>1 DEF Sound, Awake
  <2> QED BY <2>1, <2>2, <2>3, <2>4
<1> QED BY <1>1, <1>2

\* The power state that is asked for, of an output that is off.
LEMMA LitFields ==
    ASSUME NEW o \in Outputs, out[o] \in Record
    PROVE  /\ Lit[o] \in Record /\ Lit[o].status = out[o].status
           /\ Lit[o].needed = out[o].needed /\ Lit[o].dpms = out[o].dpms
           /\ Lit[o].last = out[o].last /\ Lit[o].pending = out[o].pending
           /\ o \notin Dark => Lit[o] = out[o]
<1>1. CASE o \in Dark
  <2>1. Lit[o] = [out[o] EXCEPT !.dpms_off = FALSE]
    BY <1>1 DEF Lit
  <2> QED BY <1>1, <2>1 DEF Record
<1>2. CASE o \notin Dark
  BY <1>2 DEF Lit
<1> QED BY <1>1, <1>2

\* The outputs os are asked for a frame when the compositor is awake again.
LEMMA ResumeStep ==
    ASSUME Whole, \A o \in Outputs : Sound(o), NEW os \in SUBSET Live,
           out' = Scheduled(os, Lit), idle' = idle \cup Started(os),
           state' = "active", flips' = flips, timer' = timer,
           output_list' = output_list,
           \A o \in Live \ os : o \notin Dark /\
                (master' /\ out[o].needed => out[o].status # Idle)
    PROVE  \A o \in Outputs : Sound(o)'
<1>0. Live' = Live
  BY DEF Live
<1> SUFFICES ASSUME NEW o \in Outputs PROVE Sound(o)'
  OBVIOUS
<1>1. Sound(o) /\ out[o] \in Record
  BY DEF Sound
<1>2. CASE o \in os
  <2>1. /\ Lit[o] \in Record /\ Lit[o].status = out[o].status
        /\ Lit[o].needed = out[o].needed /\ Lit[o].dpms = out[o].dpms
        /\ Lit[o].last = out[o].last /\ Lit[o].pending = out[o].pending
    BY <1>1, LitFields
  <2>2. Asked(out'[o], Lit[o])
    BY <1>2, <2>1, NowScheduled
  <2>3. o \in idle' <=> o \in idle \/ out[o].status = Idle
    BY <1>2 DEF Started
  <2>4. o \in Live
    BY <1>2
  <2>5. /\ out'[o] \in Record
        /\ out'[o].status = IF out[o].status = Idle THEN "begin from idle"
                            ELSE out[o].status
        /\ out'[o].last = out[o].last /\ out'[o].pending = out[o].pending
    BY <2>1, <2>2 DEF Asked
  <2> QED BY <1>0, <1>1, <2>3, <2>4, <2>5 DEF Sound, Awake, Idle
<1>3. CASE o \notin os
  <2>1. o \notin Dark
    BY <1>3 DEF Dark
  <2>2. out'[o] = out[o]
    BY <1>1, <1>3, <2>1, NotScheduled, LitFields
  <2>3. o \in idle' <=> o \in idle
    BY <1>3 DEF Started
  <2> QED BY <1>0, <1>1, <1>3, <2>2, <2>3 DEF Sound, Awake
<1> QED BY <1>2, <1>3

\* An input event wakes the compositor: the outputs that are off are asked for
\* a frame, and those that are still on wait for one.
LEMMA WakeStep ==
    ASSUME Whole, \A o \in Outputs : Sound(o), Wake
    PROVE  Whole' /\ \A o \in Outputs : Sound(o)'
<1>1. Whole'
  <2>1. DOMAIN out' = Outputs /\ out' = [o \in Outputs |-> out'[o]]
    BY DEF Wake, Scheduled
  <2>2. idle' \subseteq Outputs
    BY DEF Wake, Started, Dark, Live, Range, Whole
  <2> QED BY <2>1, <2>2 DEF Whole, Wake
<1>2. state = "sleeping"
  BY DEF Wake, Whole, Awake
<1>3. ASSUME NEW o \in Live \ Dark, master' PROVE out[o].status # Idle
  <2>0. o \in Outputs /\ o \in Live /\ o \notin Dark
    BY <1>3, LiveOutputs
  <2>1. out[o] \in Record /\ out[o].dpms /\ master
    BY <1>3, <2>0 DEF Dark, Sound, Wake
  <2>2. o \in flips
    BY <1>2, <1>3, <2>0, <2>1 DEF Sound
  <2> QED BY <2>0, <2>1, <2>2 DEF Sound, Idle
<1>4. Dark \in SUBSET Live
  BY DEF Dark
<1> QED BY <1>1, <1>3, <1>4, ResumeStep DEF Wake

\* The device is lost.
LEMMA DropStep ==
    ASSUME Whole, \A o \in Outputs : Sound(o), DropMaster
    PROVE  Whole' /\ \A o \in Outputs : Sound(o)'
<1>1. /\ out' = out /\ idle' = idle /\ flips' = flips /\ Live' = Live
      /\ timer' = timer /\ state' = state /\ ~master'
  BY DEF DropMaster, core_vars, Live
<1>2. Whole'
  BY DEF DropMaster, core_vars, Whole
<1> QED BY <1>1, <1>2, Untouched

\* The session is lost: no frame is needed.
LEMMA SessionOffStep ==
    ASSUME Whole, \A o \in Outputs : Sound(o), SessionOff
    PROVE  Whole' /\ \A o \in Outputs : Sound(o)'
<1>0. /\ state' = "offscreen" /\ Live' = Live /\ idle' = idle
      /\ flips' = flips /\ timer' = timer
      /\ out' = [o \in Outputs |-> IF o \in Live
                    THEN [out[o] EXCEPT !.needed = FALSE] ELSE out[o]]
  BY DEF SessionOff, Live
<1>1. Whole'
  <2>1. DOMAIN out' = Outputs /\ out' = [o \in Outputs |-> out'[o]]
    BY <1>0
  <2>2. dirty' \in [Outputs -> {"clean", "dirty", "lost"}]
    BY DEF Whole, SessionOff
  <2> QED BY <2>1, <2>2 DEF Whole, SessionOff
<1>2. ASSUME NEW o \in Outputs PROVE Sound(o)'
  <2>0. Sound(o) /\ out[o] \in Record
    BY DEF Sound
  <2>1. CASE o \in Live
    <3>1. out'[o] = [out[o] EXCEPT !.needed = FALSE]
      BY <1>0, <2>1
    <3>2. /\ out'[o] \in Record /\ out'[o].status = out[o].status
          /\ out'[o].last = out[o].last /\ out'[o].pending = out[o].pending
      BY <2>0, <3>1 DEF Record
    <3> QED BY <1>0, <2>0, <2>1, <3>2 DEF Sound, Awake, Idle
  <2>2. CASE o \notin Live
    <3>1. out'[o] = out[o]
      BY <1>0, <2>2
    <3> QED BY <1>0, <2>0, <2>2, <3>1 DEF Sound
  <2> QED BY <2>1, <2>2
<1> QED BY <1>1, <1>2

\* The session is back: every output is asked for a frame.
LEMMA SessionOnStep ==
    ASSUME Whole, \A o \in Outputs : Sound(o), SessionOn
    PROVE  Whole' /\ \A o \in Outputs : Sound(o)'
<1>1. Whole'
  <2>1. DOMAIN out' = Outputs /\ out' = [o \in Outputs |-> out'[o]]
    BY DEF SessionOn, Scheduled
  <2>2. idle' \subseteq Outputs
    BY DEF SessionOn, Started, Live, Range, Whole
  <2>3. dirty' \in [Outputs -> {"clean", "dirty", "lost"}]
    BY DEF Whole, SessionOn
  <2> QED BY <2>1, <2>2, <2>3 DEF Whole, SessionOn
<1>2. Live \in SUBSET Live
  OBVIOUS
<1> QED BY <1>1, <1>2, ResumeStep DEF SessionOn

-----------------------------------------------------------------------------
(* The theorems.                                                           *)

\* At first there are no outputs.
LEMMA InitSound == Init => IInv
<1> SUFFICES ASSUME Init PROVE Whole /\ \A o \in Outputs : Sound(o)
  BY OutputByOutput
<1>1. Live = {}
  BY DEF Init, Live, Range
<1>2. Whole
  <2>1. output_list \in Seq(Outputs) /\ IsInjective(output_list)
    BY DEF Init, IsInjective
  <2>2. dirty \in [Outputs -> {"clean", "dirty", "lost"}]
    BY DEF Init
  <2>3. DOMAIN out = Outputs /\ out = [o \in Outputs |-> out[o]]
    BY DEF Init
  <2> QED BY <2>1, <2>2, <2>3 DEF Init, Whole
<1>3. ASSUME NEW o \in Outputs PROVE Sound(o)
  <2>1. out[o] = Fresh /\ o \notin flips /\ o \notin idle
    BY DEF Init
  <2> QED BY <1>1, <2>1, FreshFields DEF Sound, Idle
<1> QED BY <1>2, <1>3

\* Every step keeps the invariant.
LEMMA StepSound == IInv /\ [Next]_vars => IInv'
<1> SUFFICES ASSUME Whole, \A o \in Outputs : Sound(o), [Next]_vars
             PROVE  Whole' /\ \A o \in Outputs : Sound(o)'
  <2>1. (IInv <=> Whole /\ \A o \in Outputs : Sound(o))'
    BY OutputByOutput, PTL
  <2> QED BY OutputByOutput, <2>1
<1>1. CASE UNCHANGED vars
  <2>1. /\ out' = out /\ idle' = idle /\ flips' = flips /\ Live' = Live
        /\ timer' = timer /\ state' = state /\ master' = master
    BY <1>1 DEF vars, Live
  <2>2. Whole'
    BY <1>1 DEF vars, Whole
  <2> QED BY <2>1, <2>2, Untouched
<1>2. ASSUME NEW o \in Outputs,
             \/ Damage(o) \/ IdleRepaint(o) \/ TimerFires(o)
             \/ FlipDone(o) \/ Plug(o) \/ Unplug(o)
      PROVE  Whole' /\ \A x \in Outputs : Sound(x)'
  BY <1>2, DamageStep, IdleStep, TimerStep, FlipStep, PlugStep, UnplugStep
<1>3. CASE Sleep \/ Wake \/ DropMaster \/ SessionOff \/ SessionOn
  BY <1>3, SleepStep, WakeStep, DropStep, SessionOffStep, SessionOnStep
<1> QED BY <1>1, <1>2, <1>3 DEF Next

\* The inductive invariant holds at any time.
THEOREM Inductive == Spec => []IInv
BY InitSound, StepSound, PTL DEF Spec

\* The loop holds on to values of the right kind, and to no output that has
\* been freed, however many outputs there are.
THEOREM RepaintOKHolds == Spec => []RepaintOK
<1>1. IInv => RepaintOK
  BY DEF IInv, RepaintOK
<1> QED BY <1>1, Inductive, PTL

\* A frame that is needed always has something that will paint it, whether or
\* not the kernel rejects commits.
THEOREM NeverStuckHolds == Spec => []NeverStuck
<1>1. IInv => NeverStuck
  BY DEF IInv, NeverStuck, Armed, Fed
<1> QED BY <1>1, Inductive, PTL

\* While no commit is rejected, the outputs that wait for a completion are
\* exactly those the kernel owes an event.
THEOREM AwaitsItsFlipHolds == ~MayReject => (Spec => []AwaitsItsFlip)
<1> SUFFICES ASSUME ~MayReject PROVE Spec => []AwaitsItsFlip
  OBVIOUS
<1>1. IInv => AwaitsItsFlip
  <2> SUFFICES ASSUME IInv, NEW o \in Live
               PROVE  /\ out[o].status = "awaiting" <=> o \in flips
                      /\ out[o].pending <=> o \in flips
                      /\ out[o].last <=> o \in flips
    BY DEF AwaitsItsFlip
  <2>1. o \in Outputs
    BY OutputByOutput, LiveOutputs
  <2>2. Sound(o)
    BY <2>1, OutputByOutput
  <2> QED BY <2>1, <2>2 DEF Sound
<1> QED BY <1>1, Inductive, PTL
=============================================================================
