-------------------------- MODULE WestonXdg_proofs --------------------------
(* Proofs about WestonXdg, for any flags, sizes and number of configures.  *)
EXTENDS WestonXdg, SequenceTheorems, TLAPS

\* How far the surface has come: only the shell's knowledge of it starts the
\* sequence, and each stage needs the one before.
Stages ==
    /\ added => role = "toplevel"
    /\ configure_idle => added
    /\ configure_list # <<>> => added
    /\ configured => added
    /\ shown => configured

\* The configures under way are newer than the last one acknowledged, and in order.
InOrder ==
    /\ role = "absent" => next.serial = 0
    /\ \A i \in DOMAIN configure_list :
          next.serial < configure_list[i].serial /\ configure_list[i].serial =< serial
    /\ next.serial =< serial
    /\ \A i, j \in DOMAIN configure_list :
          i < j => configure_list[i].serial < configure_list[j].serial

IInv == XdgTypeOK /\ Stages /\ InOrder

\* A surface starts with nothing set and nothing to acknowledge.
LEMMA Blanks ==
    /\ Blank \in Settings
    /\ [state |-> {}, size |-> 0, serial |-> 0] \in Configures
    /\ [state |-> {}, size |-> 0, serial |-> 0].serial = 0
    /\ <<>> \in Seq(Configures) /\ Len(<<>>) = 0 /\ DOMAIN <<>> = {}
  BY DEF Blank, Settings, Configures

\* Configures under way have serials.
LEMMA Serials ==
    ASSUME XdgTypeOK
    PROVE  /\ next.serial \in Nat
           /\ \A i \in DOMAIN configure_list : configure_list[i].serial \in Nat
  <1>1. next \in Configures /\ \A i \in DOMAIN configure_list : configure_list[i] \in Configures
    BY DEF XdgTypeOK
  <1>2. \A c \in Configures : c.serial \in Nat
    BY DEF Configures
  <1>3. QED
    BY <1>1, <1>2

\* The new surface, and a surface that goes, have no configures and no stage.
LEMMA ClearedInv ==
    ASSUME XdgTypeOK, XdgAssumption, Cleared, configure_idle' = FALSE, serial' = serial,
           has_role' \in BOOLEAN, role' \in {"absent", "none", "toplevel"},
           buffer' \in Sizes \cup {0}, held' \in BOOLEAN, held' => buffer' # 0
    PROVE  IInv'
  <1>1. next'.serial = 0 /\ configure_list' = <<>> /\ serial' \in Nat
    BY Blanks DEF Cleared, XdgTypeOK
  <1>2. XdgTypeOK'
    BY Blanks DEF Cleared, XdgTypeOK
  <1>3. Stages'
    BY DEF Cleared, Stages
  <1>4. InOrder'
    BY <1>1, Blanks DEF InOrder
  <1>5. QED
    BY <1>2, <1>3, <1>4 DEF IInv

\* What a commit brings is a buffer of some size, or none.
LEMMA BroughtType ==
    ASSUME XdgTypeOK, Brought
    PROVE  buffer' \in Sizes \cup {0} /\ held' \in BOOLEAN /\ (held' => buffer' # 0)
<1>1. CASE UNCHANGED <<buffer, held>>
  <2>1. buffer' = buffer /\ held' = held
    BY <1>1
  <2>2. buffer \in Sizes \cup {0} /\ held \in BOOLEAN /\ (held => buffer # 0)
    BY DEF XdgTypeOK
  <2> QED BY <2>1, <2>2, Zenon
<1>2. CASE buffer' \in Sizes \cup {0} /\ held' = (buffer' # 0)
  BY <1>2, Zenon
<1> QED BY <1>1, <1>2 DEF Brought

\* The shell learns of a surface once, and a configure is queued for it.
LEMMA EnsureAddedInv ==
    ASSUME IInv, role = "toplevel", EnsureAdded
    PROVE  /\ added' = TRUE
           /\ configure_idle' \in BOOLEAN
           /\ pending' \in Settings
  <1>1. CASE added
    BY <1>1 DEF EnsureAdded, IInv, XdgTypeOK
  <1>2. CASE ~added
    <2>1. PICK size \in Sizes \cup {0} :
             ScheduleConfigure([state |-> pending.state \ {"activated"}, size |-> size])
      BY <1>2 DEF EnsureAdded
    <2>2. pending.state \in SUBSET Flags
      BY DEF IInv, XdgTypeOK, Settings
    <2>3. QED
      BY <1>2, <2>1, <2>2 DEF EnsureAdded, ScheduleConfigure, StateCompare, IInv, XdgTypeOK, Settings
  <1>3. QED
    BY <1>1, <1>2 DEF IInv, XdgTypeOK

\* The stages and the order of the configures hold in every reachable state.
THEOREM Inductive == Spec => []IInv
  <1>1. Init => IInv
    <2>1. SUFFICES ASSUME Init PROVE IInv
      OBVIOUS
    <2>2. next.serial = 0 /\ configure_list = <<>> /\ serial = 0
      BY <2>1, Blanks DEF Init
    <2>3. XdgTypeOK
      BY <2>1, Blanks DEF Init, XdgTypeOK
    <2>4. Stages
      BY <2>1 DEF Init, Stages
    <2>5. InOrder
      BY <2>2, Blanks DEF InOrder
    <2>6. QED
      BY <2>3, <2>4, <2>5 DEF IInv
  <1>2. IInv /\ [Next]_vars => IInv'
    <2>1. SUFFICES ASSUME IInv, [Next]_vars PROVE IInv'
      OBVIOUS
    <2>2. CASE GetXdgSurface
      <3>1. Stages /\ role = "absent"
        BY <2>1, <2>2 DEF GetXdgSurface, IInv
      <3>2. configure_idle = FALSE
        BY <2>1, <3>1 DEF Stages, IInv, XdgTypeOK
      <3>3. QED
        BY <2>1, <2>2, <3>2, ClearedInv, XdgAssumption DEF GetXdgSurface, IInv, XdgTypeOK
    <2>3. CASE GetToplevel
      BY <2>1, <2>3 DEF GetToplevel, IInv, XdgTypeOK, Stages, InOrder
    <2>4. CASE Request
      <3>1. role = "toplevel" /\ EnsureAdded
        BY <2>4 DEF Request
      <3>2. QED
        BY <2>1, <2>4, <3>1, EnsureAddedInv DEF Request, IInv, XdgTypeOK, Stages, InOrder
    <2>5. CASE SetWindowGeometry
      BY <2>1, <2>5 DEF SetWindowGeometry, IInv, XdgTypeOK, Stages, InOrder
    <2>6. CASE Set
      <3>1. pending' \in Settings
        <4>1. pending \in Settings
          BY <2>1 DEF IInv, XdgTypeOK
        <4>2. ASSUME NEW flag \in Flags
              PROVE  /\ [pending EXCEPT !.state = @ \cup {flag}] \in Settings
                     /\ [pending EXCEPT !.state = @ \ {flag}] \in Settings
          BY <4>1 DEF Settings
        <4>3. ASSUME NEW size \in Sizes \cup {0}
              PROVE  [pending EXCEPT !.size = size] \in Settings
          BY <4>1 DEF Settings
        <4>4. QED
          BY <2>6, <4>2, <4>3 DEF Set, ScheduleConfigure
      <3>2. configure_idle' \in BOOLEAN
        BY <2>6 DEF Set, ScheduleConfigure, StateCompare
      <3>3. QED
        BY <2>1, <2>6, <3>1, <3>2 DEF Set, IInv, XdgTypeOK, Stages, InOrder
    <2>7. CASE SendConfigure
      <3>1. Configure(serial + 1) \in Configures
        BY <2>1 DEF Configure, IInv, XdgTypeOK, Settings, Configures
      <3>2. Configure(serial + 1).serial = serial + 1
        BY DEF Configure
      <3>3. configure_list' = Append(configure_list, Configure(serial + 1)) /\ serial' = serial + 1
        BY <2>7 DEF SendConfigure, Configure
      <3>4. XdgTypeOK'
        <4>1. configure_list' \in Seq(Configures) /\ serial' \in Nat
          BY <2>1, <3>1, <3>3 DEF IInv, XdgTypeOK
        <4>2. QED
          BY <2>1, <2>7, <4>1 DEF SendConfigure, IInv, XdgTypeOK
      <3>5. Stages'
        BY <2>1, <2>7 DEF SendConfigure, IInv, XdgTypeOK, Stages
      <3>6. InOrder'
        <4>1. next.serial \in Nat /\ \A i \in DOMAIN configure_list : configure_list[i].serial \in Nat
          BY <2>1, Serials DEF IInv
        <4>2. /\ DOMAIN configure_list' = 1..(Len(configure_list) + 1)
              /\ DOMAIN configure_list = 1..Len(configure_list)
              /\ \A i \in DOMAIN configure_list : configure_list'[i] = configure_list[i]
              /\ configure_list'[Len(configure_list) + 1] = Configure(serial + 1)
              /\ Len(configure_list) \in Nat
          BY <2>1, <3>1, <3>3 DEF IInv, XdgTypeOK
        <4>3. \A i \in DOMAIN configure_list' :
                 i \in DOMAIN configure_list \/ i = Len(configure_list) + 1
          BY <4>2
        <4>4. next' = next /\ role' = role
          BY <2>7 DEF SendConfigure
        <4>5. serial \in Nat
          BY <2>1 DEF IInv, XdgTypeOK
        <4>6. QED
          BY <2>1, <3>2, <3>3, <4>1, <4>2, <4>3, <4>4, <4>5 DEF IInv, InOrder
      <3>7. QED
        BY <3>4, <3>5, <3>6 DEF IInv
    <2>8. ASSUME NEW s \in 1..MaxSerial, AckConfigure(s) PROVE IInv'
      <3>1. PICK i \in DOMAIN configure_list :
               /\ next' = configure_list[i]
               /\ configure_list' = SubSeq(configure_list, i + 1, Len(configure_list))
        BY <2>8 DEF AckConfigure
      <3>2. configure_list # <<>>
        BY <3>1, <2>1 DEF IInv, XdgTypeOK
      <3>3. XdgTypeOK'
        <4>1. next' \in Configures /\ configure_list' \in Seq(Configures)
          BY <2>1, <3>1 DEF IInv, XdgTypeOK
        <4>2. QED
          BY <2>1, <2>8, <4>1 DEF AckConfigure, IInv, XdgTypeOK
      <3>4. Stages'
        BY <2>1, <2>8, <3>2 DEF AckConfigure, IInv, XdgTypeOK, Stages
      <3>5. InOrder'
        <4>1. \A j \in DOMAIN configure_list' :
                 /\ i + j \in DOMAIN configure_list
                 /\ configure_list'[j] = configure_list[i + j]
          BY <2>1, <3>1 DEF IInv, XdgTypeOK
        <4>2. role' = "toplevel" /\ serial' = serial
          BY <2>8 DEF AckConfigure
        <4>3. DOMAIN configure_list \subseteq Nat /\ DOMAIN configure_list' \subseteq Nat \ {0}
          BY <2>1, <3>1, <3>3 DEF IInv, XdgTypeOK
        <4>4. next.serial \in Nat /\ \A j \in DOMAIN configure_list : configure_list[j].serial \in Nat
          BY <2>1, Serials DEF IInv
        <4>5. \A j \in DOMAIN configure_list' : i < i + j
          BY <3>1, <4>3
        <4>6. \A j, k \in DOMAIN configure_list' : j < k => i + j < i + k
          BY <3>1, <4>3
        <4>7. QED
          BY <2>1, <3>1, <4>1, <4>2, <4>4, <4>5, <4>6 DEF IInv, InOrder
      <3>6. QED
        BY <3>3, <3>4, <3>5 DEF IInv
    <2>9. CASE CommitPlain
      <3>1. buffer' \in Sizes \cup {0} /\ held' \in BOOLEAN /\ (held' => buffer' # 0)
        BY <2>1, <2>9, BroughtType DEF CommitPlain, IInv
      <3>2. XdgTypeOK'
        BY <2>1, <2>9, <3>1 DEF CommitPlain, IInv, XdgTypeOK
      <3>3. Stages' /\ InOrder'
        BY <2>1, <2>9 DEF CommitPlain, IInv, Stages, InOrder
      <3>4. QED
        BY <3>2, <3>3 DEF IInv
    <2>10. CASE CommitEmpty
      <3>1. role = "toplevel" /\ EnsureAdded
        BY <2>10 DEF CommitEmpty
      <3>2. geometry' \in Sizes \cup {0} /\ next_geometry' \in Sizes \cup {0}
        BY <2>1, <2>10 DEF CommitEmpty, IInv, XdgTypeOK
      <3>3. buffer' \in Sizes \cup {0} /\ held' \in BOOLEAN /\ (held' => buffer' # 0)
        BY <2>1, <2>10, BroughtType DEF CommitEmpty, IInv
      <3>4. XdgTypeOK'
        BY <2>1, <2>10, <3>1, <3>2, <3>3, EnsureAddedInv DEF CommitEmpty, IInv, XdgTypeOK
      <3>5. Stages'
        BY <2>1, <2>10, <3>1, EnsureAddedInv DEF CommitEmpty, IInv, XdgTypeOK, Stages
      <3>6. InOrder'
        BY <2>1, <2>10 DEF CommitEmpty, IInv, InOrder
      <3>7. QED
        BY <3>4, <3>5, <3>6 DEF IInv
    <2>11. CASE CommitContents
      <3>1. geometry' \in Sizes \cup {0} /\ next_geometry' \in Sizes \cup {0}
        BY <2>1, <2>11 DEF CommitContents, IInv, XdgTypeOK
      <3>2. configured
        BY <2>11 DEF CommitContents, Accepted
      <3>3. QED
        <4>1. /\ buffer' \in Sizes \cup {0} /\ current' \in SUBSET Flags
              /\ held' \in BOOLEAN /\ (held' => buffer' # 0)
          BY <2>1, <2>11 DEF CommitContents, Brought, IInv, XdgTypeOK, Configures
        <4>2. XdgTypeOK'
          BY <2>1, <2>11, <3>1, <4>1 DEF CommitContents, IInv, XdgTypeOK
        <4>3. Stages'
          BY <2>1, <2>11, <3>2 DEF CommitContents, IInv, Stages
        <4>4. InOrder'
          BY <2>1, <2>11 DEF CommitContents, IInv, InOrder
        <4>5. QED
          BY <4>2, <4>3, <4>4 DEF IInv
    <2>12. CASE ClientEnds
      BY <2>1, <2>12, ClearedInv, XdgAssumption DEF ClientEnds, Destroyed, IInv
    <2>13. CASE Destroy
      BY <2>1, <2>13, ClearedInv, XdgAssumption DEF Destroy, Destroyed, IInv, XdgTypeOK
    <2>14. CASE BufferReleased
      BY <2>1, <2>14 DEF BufferReleased, IInv, XdgTypeOK, Stages, InOrder
    <2>15. CASE UNCHANGED vars
      BY <2>1, <2>15 DEF vars, IInv, XdgTypeOK, Stages, InOrder
    <2>16. QED
      BY <2>1, <2>2, <2>3, <2>4, <2>5, <2>6, <2>7, <2>8, <2>9, <2>10, <2>11, <2>12, <2>13,
         <2>14, <2>15 DEF Next
  <1>3. QED
    BY <1>1, <1>2, PTL DEF Spec

\* Contents reach the shell only after it has been told of the surface, and only
\* from clients that acknowledged a configure.
THEOREM ShownAreConfigured == Spec => []ShownConfigured
  <1>1. IInv => ShownConfigured
    BY DEF IInv, Stages, ShownConfigured
  <1>2. QED
    BY <1>1, Inductive, PTL

\* A queued configure belongs to a toplevel that lives and the shell knows.
THEOREM QueuedAreLive == Spec => []IdleIsLive
  <1>1. IInv => IdleIsLive
    BY DEF IInv, Stages, IdleIsLive
  <1>2. QED
    BY <1>1, Inductive, PTL

\* The states the client was told last: those of the last configure under way, or
\* with an empty list those it acknowledged.
ToldLast == IF configure_list = <<>> THEN next.state ELSE Last(configure_list).state

\* With no news queued, the client was told the states that the shell set last.
Told == added /\ ~configure_idle => pending.state = ToldLast

\* What a shell that does not set states between an acknowledgement and its commit
\* keeps back, the client was told last.
LEMMA KeptBack ==
    ASSUME NEW set, Prompt, ~Undrawn, ScheduleConfigure(set)
    PROVE  ~configure_idle' => pending'.state = ToldLast
  <1>1. SUFFICES ASSUME ~configure_idle' PROVE pending'.state = ToldLast
    OBVIOUS
  <1>2. set.state = LastConfigured.state /\ pending' = set
    BY <1>1 DEF ScheduleConfigure, StateCompare
  <1>3. CASE configure_list = <<>>
    <2>1. LastConfigured.state = current
      BY <1>3 DEF LastConfigured
    <2>2. QED
      BY <1>2, <1>3, <2>1 DEF Undrawn, ToldLast
  <1>4. CASE configure_list # <<>>
    BY <1>2, <1>4 DEF LastConfigured, ToldLast
  <1>5. QED
    BY <1>3, <1>4

\* A surface the shell learns of has acknowledged nothing: the news is queued.
LEMMA FirstTold ==
    ASSUME IInv, Told, EnsureAdded
    PROVE  added' /\ ~configure_idle' => pending'.state = ToldLast
  <1>1. CASE added
    BY <1>1 DEF EnsureAdded, Told
  <1>2. CASE ~added
    <2>1. ~configured
      BY <1>2 DEF IInv, Stages
    <2>2. configure_idle'
      BY <1>2, <2>1 DEF EnsureAdded, ScheduleConfigure, StateCompare
    <2>3. QED
      BY <2>2
  <1>3. QED
    BY <1>1, <1>2 DEF EnsureAdded

\* The last element is left when the first ones are dropped.
LEMMA LastOfRest ==
    ASSUME NEW S, NEW s \in Seq(S), NEW i \in 1..Len(s), i < Len(s)
    PROVE  /\ SubSeq(s, i + 1, Len(s)) # <<>>
           /\ Last(SubSeq(s, i + 1, Len(s))) = s[Len(s)]
  <1>1. DEFINE t == SubSeq(s, i + 1, Len(s))
  <1>2. i + 1 \in Int /\ Len(s) \in Int /\ i \in Nat /\ i + 1 =< Len(s)
    OBVIOUS
  <1>3. /\ Len(t) = Len(s) - (i + 1) + 1
        /\ \A j \in 1..(Len(s) - (i + 1) + 1) : t[j] = s[(i + 1) + j - 1]
    <2>1. \A j \in (i + 1)..Len(s) : s[j] \in S
      OBVIOUS
    <2>2. QED
      BY <1>2, <2>1, SubSeqProperties
  <1>4. /\ Len(s) - (i + 1) + 1 \in 1..(Len(s) - (i + 1) + 1)
        /\ (i + 1) + (Len(s) - (i + 1) + 1) - 1 = Len(s)
    BY <1>2
  <1>5. t[Len(t)] = s[Len(s)]
    BY <1>3, <1>4
  <1>6. t # <<>>
    BY <1>2, <1>3
  <1>7. QED
    BY <1>5, <1>6 DEF Last

\* No step of a shell that is prompt loses what it has set last.
LEMMA ToldStep ==
    ASSUME Prompt, IInv, Told, [Next]_vars
    PROVE  Told'
  <1>1. ASSUME configure_list' = configure_list, next' = next
        PROVE  ToldLast' = ToldLast
    BY <1>1 DEF ToldLast
  <1>2. CASE GetXdgSurface \/ ClientEnds \/ Destroy
    BY <1>2 DEF GetXdgSurface, ClientEnds, Destroy, Destroyed, Cleared, Told
  <1>3. CASE Request \/ CommitEmpty
    BY <1>1, <1>3, FirstTold DEF Request, CommitEmpty, Told
  <1>4. CASE Set
    <2>1. PICK set : ScheduleConfigure(set)
      BY <1>4 DEF Set
    <2>2. ~Undrawn /\ configure_list' = configure_list /\ next' = next
      BY <1>4 DEF Set
    <2>3. QED
      BY <1>1, <2>1, <2>2, KeptBack DEF Told
  <1>5. CASE SendConfigure
    <2>1. configure_list' = Append(configure_list, Configure(serial + 1)) /\ pending' = pending
      BY <1>5 DEF SendConfigure
    <2>2. configure_list \in Seq(Configures) /\ Configure(serial + 1) \in Configures
      BY DEF Configure, IInv, XdgTypeOK, Settings, Configures
    <2>3. configure_list' # <<>> /\ Last(configure_list') = Configure(serial + 1)
      BY <2>1, <2>2 DEF Last
    <2>4. QED
      BY <2>1, <2>3 DEF Told, ToldLast, Configure
  <1>6. ASSUME NEW s \in 1..MaxSerial, AckConfigure(s) PROVE Told'
    <2>1. PICK i \in DOMAIN configure_list :
             /\ next' = configure_list[i]
             /\ configure_list' = SubSeq(configure_list, i + 1, Len(configure_list))
      BY <1>6 DEF AckConfigure
    <2>2. configure_list \in Seq(Configures) /\ i \in 1..Len(configure_list)
          /\ configure_list # <<>> /\ Len(configure_list) \in Nat
      BY <2>1 DEF IInv, XdgTypeOK
    <2>3. ToldLast = configure_list[Len(configure_list)].state
      BY <2>2 DEF ToldLast, Last
    <2>4. CASE i = Len(configure_list)
      <3>1. configure_list' = <<>>
        BY <2>1, <2>2, <2>4
      <3>2. QED
        BY <1>6, <2>1, <2>3, <2>4, <3>1 DEF AckConfigure, Told, ToldLast
    <2>5. CASE i < Len(configure_list)
      <3>1. /\ configure_list' # <<>>
            /\ Last(configure_list') = configure_list[Len(configure_list)]
        BY <2>1, <2>2, <2>5, LastOfRest
      <3>2. ToldLast' = configure_list[Len(configure_list)].state
        BY <3>1 DEF ToldLast
      <3>3. QED
        BY <1>6, <2>3, <3>2 DEF AckConfigure, Told
    <2>6. QED
      BY <2>2, <2>4, <2>5
  <1>7. CASE \/ GetToplevel \/ SetWindowGeometry \/ CommitPlain \/ CommitContents
             \/ BufferReleased \/ UNCHANGED vars
    BY <1>1, <1>7 DEF GetToplevel, SetWindowGeometry, CommitPlain, CommitContents,
                      BufferReleased, vars, Told
  <1>8. QED
    BY <1>2, <1>3, <1>4, <1>5, <1>6, <1>7 DEF Next

\* A surface at rest has the states that the shell set last, as long as the shell sets
\* nothing between an acknowledgement and its commit: however many changes it made
\* while earlier configures were under way.
THEOREM SettledIsAsSet == Prompt => (Spec => []SettledAsSet)
  <1>1. SUFFICES ASSUME Prompt PROVE Spec => []SettledAsSet
    OBVIOUS
  <1>2. Init => Told
    BY DEF Init, Told
  <1>3. IInv /\ Told /\ [Next]_vars => Told'
    BY <1>1, ToldStep
  <1>4. IInv /\ Told => SettledAsSet
    BY DEF IInv, Stages, Told, ToldLast, SettledAsSet
  <1>5. QED
    BY <1>2, <1>3, <1>4, Inductive, PTL DEF Spec

\* An acknowledgement never takes a surface back to an older configure.
THEOREM NeverGoesBack == Spec => NeverBack
  <1>1. ASSUME IInv, [Next]_vars
        PROVE  [role' = "absent" \/ next'.serial >= next.serial]_vars
    <2>1. SUFFICES ASSUME Next, role' # "absent" PROVE next'.serial >= next.serial
      BY <1>1
    <2>2. next.serial \in Nat
      BY <1>1 DEF IInv, XdgTypeOK, Configures
    <2>3. ~ClientEnds /\ ~Destroy
      BY <2>1 DEF ClientEnds, Destroy, Destroyed
    <2>4. CASE GetXdgSurface
      BY <1>1, <2>4 DEF GetXdgSurface, Cleared, IInv, InOrder
    <2>5. ASSUME NEW s \in 1..MaxSerial, AckConfigure(s) PROVE next'.serial >= next.serial
      <3>1. PICK i \in DOMAIN configure_list : next' = configure_list[i]
        BY <2>5 DEF AckConfigure
      <3>2. next.serial < configure_list[i].serial /\ configure_list[i].serial \in Nat
        BY <1>1, <3>1, Serials DEF IInv, InOrder
      <3>3. QED
        BY <2>2, <3>1, <3>2
    <2>6. CASE UNCHANGED next
      BY <2>2, <2>6
    <2>7. QED
      BY <2>1, <2>3, <2>4, <2>5, <2>6
         DEF Next, GetToplevel, Request, SetWindowGeometry, Set, SendConfigure, CommitPlain,
             CommitEmpty, CommitContents, BufferReleased
  <1>2. QED
    BY <1>1, Inductive, PTL DEF Spec, NeverBack
=============================================================================
