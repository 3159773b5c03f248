-------------------------- MODULE WestonHeads_proofs --------------------------
(***************************************************************************)
(* Theorems about WestonHeads: outputs always have an owner, what is       *)
(* connected is shown once a pass is over, and stays shown, and outputs    *)
(* stand where weston.ini wants them.  The handlers work on a record, so   *)
(* the invariant is stated of a record, and each operation has a lemma on  *)
(* what it does to one.                                                    *)
(***************************************************************************)
EXTENDS WestonHeads, SequenceTheorems, WellFoundedInduction, TLAPS

-----------------------------------------------------------------------------
(* The invariant, of a record s of the state, v being the heads that have   *)
(* vanished.                                                               *)

\* s has the fields of Now.
Rec(s) == s = [wet |-> s.wet, out |-> s.out, place |-> s.place, list |-> s.list,
               tracked |-> s.tracked, los |-> s.los, add |-> s.add,
               failed |-> s.failed, aborted |-> s.aborted, flip |-> s.flip]

List(s, S) == s \in Seq(S) /\ IsInjective(s)

Typed(s) ==
    /\ s.wet \in [Names -> Outputs \cup {None, Left}]
    /\ s.out \in [Outputs -> WestonOutput \cup {NULL}]
    /\ List(s.list, Outputs) /\ Len(s.list) <= Crtcs
    /\ List(s.los, Names)
    /\ s.tracked \subseteq Heads

On(s) == Range(s.list)
Exists(s, o) == o \in Outputs /\ s.out[o] # NULL
HeadsOf(s, o) == Range(s.out[o].heads)

\* What lists and wet_outputs point to exists, no two wet_outputs share one, and
\* the wet_output of a head's layoutput is that of the output the head is on.
Owned(s) ==
    /\ \A o \in On(s) : s.out[o] # NULL
    /\ \A n \in Names : s.wet[n] \in Outputs => s.out[s.wet[n]] # NULL
    /\ \A m, n \in Names : s.wet[m] = s.wet[n] /\ s.wet[m] \in Outputs => m = n
    /\ \A o \in Outputs : s.out[o] # NULL =>
        /\ IsInjective(s.out[o].heads)
        /\ \A h \in HeadsOf(s, o) : s.wet[LayoutputOf(h)] = o /\ ~Off(h)

\* What is enabled and not about to go has a head.
Lit(s) == \A o \in On(s) : s.out[o].deferred = "no" => s.out[o].heads # <<>>

\* A wet_output is left with an output that is disabled, or is about to go, only
\* after a head of its layoutput has vanished; with a disabled one, a clone.
Explained(s, v) ==
    \A n \in Names : LET o == s.wet[n] IN o \in Outputs =>
        /\ o \notin On(s) => \E h \in v : LayoutputOf(h) = n /\ Shared(h)
        /\ s.out[o].deferred # "no" => \E h \in v : LayoutputOf(h) = n
        /\ s.out[o].deferred = "disable" =>
            \E h \in v : LayoutputOf(h) = n /\ Shared(h)

\* A head without a tracker is a clone, unless its output is about to go.
Cloned(s) ==
    \A o \in Outputs : s.out[o] # NULL =>
        \A h \in HeadsOf(s, o) :
            h \notin s.tracked => s.out[o].deferred = "destroy" \/ Shared(h)

\* What is about to go waits for a flip.
Flips(s) == \A o \in Outputs :
    s.out[o] # NULL /\ s.out[o].deferred # "no" => o \in s.flip

Good(s, v) ==
    Rec(s) /\ Typed(s) /\ Owned(s) /\ Lit(s) /\ Explained(s, v) /\ Cloned(s) /\ Flips(s)

IInv ==
    /\ config \in Configs
    /\ List(head_list, Heads) /\ connected \cup vanished \subseteq Heads
    /\ placed \in {"no", "all", "moved"} /\ {source, failed} \subseteq BOOLEAN
    /\ Good(Now({}), vanished) /\ AssertionsHold

-----------------------------------------------------------------------------
(* Lists.                                                                  *)

\* A list has the elements its indices lead to.
LEMMA RangeOf ==
    ASSUME NEW S, NEW s \in Seq(S)
    PROVE  /\ Len(s) \in Nat /\ DOMAIN s = 1..Len(s) /\ Range(s) \subseteq S
           /\ Range(s) = {s[i] : i \in 1..Len(s)}
           /\ s = <<>> <=> Range(s) = {}
           /\ s = <<>> <=> Len(s) = 0
<1>1. Len(s) \in Nat /\ DOMAIN s = 1..Len(s) /\ \A i \in 1..Len(s) : s[i] \in S
  BY LenProperties
<1>2. Range(s) = {s[i] : i \in 1..Len(s)}
  BY <1>1 DEF Range
<1>3. s = <<>> <=> Len(s) = 0
  BY <1>1, EmptySeq
<1>4. s # <<>> => s[1] \in Range(s)
  BY <1>1, <1>2, <1>3
<1>5. s = <<>> => Range(s) = {}
  BY <1>1, <1>2, <1>3
<1> QED BY <1>1, <1>2, <1>3, <1>4, <1>5

\* What is appended to a list without it makes a list with it.
LEMMA AppendList ==
    ASSUME NEW S, NEW s, List(s, S), NEW e \in S, e \notin Range(s)
    PROVE  /\ List(Append(s, e), S) /\ Range(Append(s, e)) = Range(s) \cup {e}
           /\ Len(Append(s, e)) = Len(s) + 1 /\ Append(s, e) # <<>>
<1> DEFINE t == Append(s, e)
<1>1. s \in Seq(S) /\ Len(s) \in Nat /\ DOMAIN s = 1..Len(s)
      /\ Range(s) = {s[i] : i \in 1..Len(s)}
  BY RangeOf DEF List
<1>2. t \in Seq(S) /\ Len(t) = Len(s) + 1 /\ DOMAIN t = 1..Len(s) + 1
      /\ t[Len(s) + 1] = e /\ \A i \in 1..Len(s) : t[i] = s[i]
  BY <1>1
<1>3. \A i, j \in 1..Len(s) : s[i] = s[j] => i = j
  BY <1>1 DEF List, IsInjective
<1> HIDE DEF t
<1>4. Range(t) = {t[i] : i \in 1..Len(s) + 1} /\ t # <<>>
  BY <1>1, <1>2, RangeOf
<1>5. \A i \in 1..Len(s) + 1 : i = Len(s) + 1 \/ i \in 1..Len(s)
  BY <1>1
<1>6. IsInjective(t)
  BY <1>1, <1>2, <1>3, <1>5 DEF IsInjective
<1>7. Range(t) = Range(s) \cup {e}
  <2>1. Range(t) \subseteq Range(s) \cup {e}
    BY <1>1, <1>2, <1>4, <1>5
  <2>2. 1..Len(s) \subseteq 1..Len(s) + 1 /\ Len(s) + 1 \in 1..Len(s) + 1
    BY <1>1
  <2>3. \A x \in Range(s) : \E i \in 1..Len(s) + 1 : x = t[i]
    BY <1>1, <1>2, <2>2
  <2>4. e \in Range(t)
    BY <1>2, <1>4, <2>2
  <2> QED BY <1>4, <2>1, <2>3, <2>4
<1> QED BY <1>2, <1>4, <1>6, <1>7 DEF List, t

\* A list followed by one with other elements is a list of both.
LEMMA ConcatList ==
    ASSUME NEW S, NEW s, List(s, S), NEW t, List(t, S), Range(s) \cap Range(t) = {}
    PROVE  List(s \o t, S) /\ Range(s \o t) = Range(s) \cup Range(t)
<1> DEFINE u == s \o t
<1>1. /\ s \in Seq(S) /\ Len(s) \in Nat /\ DOMAIN s = 1..Len(s)
      /\ Range(s) = {s[i] : i \in 1..Len(s)}
      /\ t \in Seq(S) /\ Len(t) \in Nat /\ DOMAIN t = 1..Len(t)
      /\ Range(t) = {t[i] : i \in 1..Len(t)}
  BY RangeOf DEF List
<1>2. /\ u \in Seq(S) /\ Len(u) = Len(s) + Len(t)
      /\ \A i \in 1..Len(s) + Len(t) : u[i] = IF i <= Len(s) THEN s[i] ELSE t[i - Len(s)]
  BY <1>1, ConcatProperties
<1> HIDE DEF u
<1>3. Range(u) = {u[i] : i \in 1..Len(u)} /\ DOMAIN u = 1..Len(u)
  BY <1>2, RangeOf
<1>4. /\ \A i, j \in 1..Len(s) : s[i] = s[j] => i = j
      /\ \A i, j \in 1..Len(t) : t[i] = t[j] => i = j
      /\ \A i \in 1..Len(s), j \in 1..Len(t) : s[i] # t[j]
  <2>1. \A i \in 1..Len(s) : s[i] \in Range(s)
    BY <1>1
  <2>2. \A j \in 1..Len(t) : t[j] \in Range(t)
    BY <1>1
  <2>3. \A i \in 1..Len(s), j \in 1..Len(t) : s[i] # t[j]
    BY <2>1, <2>2
  <2>4. \A i, j \in 1..Len(s) : s[i] = s[j] => i = j
    BY <1>1 DEF List, IsInjective
  <2>5. \A i, j \in 1..Len(t) : t[i] = t[j] => i = j
    BY <1>1 DEF List, IsInjective
  <2> QED BY <2>3, <2>4, <2>5
<1>5. \A i \in 1..Len(u) : \/ i \in 1..Len(s) /\ u[i] = s[i]
                           \/ i - Len(s) \in 1..Len(t) /\ u[i] = t[i - Len(s)]
                              /\ ~(i <= Len(s))
  <2> SUFFICES ASSUME NEW i \in 1..Len(u)
               PROVE  \/ i \in 1..Len(s) /\ u[i] = s[i]
                      \/ i - Len(s) \in 1..Len(t) /\ u[i] = t[i - Len(s)] /\ ~(i <= Len(s))
    OBVIOUS
  <2>1. i \in 1..Len(s) + Len(t) /\ i \in Int
    BY <1>1, <1>2
  <2>2. u[i] = IF i <= Len(s) THEN s[i] ELSE t[i - Len(s)]
    BY <1>2, <2>1
  <2>3. i <= Len(s) => i \in 1..Len(s)
    BY <1>1, <2>1
  <2>4. ~(i <= Len(s)) => i - Len(s) \in 1..Len(t)
    BY <1>1, <2>1
  <2> QED BY <2>2, <2>3, <2>4
<1>6. ASSUME NEW i \in 1..Len(u), NEW j \in 1..Len(u), u[i] = u[j] PROVE i = j
  <2>1. i \in Int /\ j \in Int
    BY <1>1, <1>2
  <2>2. i - Len(s) = j - Len(s) => i = j
    BY <1>1, <2>1
  <2> QED BY <1>4, <1>5, <1>6, <2>2
<1>7. IsInjective(u)
  BY <1>3, <1>6 DEF IsInjective
<1>8. Range(u) \subseteq Range(s) \cup Range(t)
  BY <1>1, <1>3, <1>5
<1>9. ASSUME NEW i \in 1..Len(s) PROVE s[i] \in Range(u)
  BY <1>1, <1>2, <1>3
<1>10. ASSUME NEW i \in 1..Len(t) PROVE t[i] \in Range(u)
  <2>1. i + Len(s) \in 1..Len(u) /\ ~(i + Len(s) <= Len(s)) /\ (i + Len(s)) - Len(s) = i
    BY <1>1, <1>2
  <2> QED BY <1>2, <1>3, <2>1
<1> QED BY <1>1, <1>2, <1>7, <1>8, <1>9, <1>10 DEF List, u

\* The first k of a list; all of them when nothing comes behind.
LEMMA FirstOfList ==
    ASSUME NEW S, NEW s, List(s, S), NEW k \in Int, k <= Len(s)
    PROVE  LET t == SubSeq(s, 1, k) IN
           /\ List(t, S) /\ Range(t) \subseteq Range(s)
           /\ k >= 1 => t # <<>>
           /\ k = Len(s) => Range(t) = Range(s)
<1> DEFINE t == SubSeq(s, 1, k)
<1>1. /\ s \in Seq(S) /\ Len(s) \in Nat /\ DOMAIN s = 1..Len(s)
      /\ Range(s) = {s[i] : i \in 1..Len(s)} /\ \A i \in 1..Len(s) : s[i] \in S
  BY RangeOf, LenProperties DEF List
<1>2. \A i \in 1..k : i \in 1..Len(s) /\ s[i] \in S
  BY <1>1
<1>3. /\ t \in Seq(S) /\ Len(t) = IF 1 <= k THEN k - 1 + 1 ELSE 0
      /\ \A i \in 1..k - 1 + 1 : t[i] = s[1 + i - 1]
  BY <1>2, SubSeqProperties
<1> HIDE DEF t
<1>4. Range(t) = {t[i] : i \in 1..Len(t)} /\ DOMAIN t = 1..Len(t) /\ (t = <<>> <=> Len(t) = 0)
  BY <1>3, RangeOf
<1>5. ASSUME NEW i \in 1..Len(t) PROVE i \in 1..k /\ i \in 1..Len(s) /\ t[i] = s[i]
  <2>1. 1 <= k /\ Len(t) = k
    BY <1>3
  <2>2. i \in 1..k - 1 + 1 /\ 1 + i - 1 = i
    BY <2>1
  <2> QED BY <1>2, <1>3, <2>1, <2>2
<1>6. IsInjective(t)
  BY <1>1, <1>4, <1>5 DEF List, IsInjective
<1>7. Range(t) \subseteq Range(s)
  BY <1>1, <1>4, <1>5
<1>8. k >= 1 => t # <<>>
  BY <1>3, <1>4
<1>9. ASSUME k = Len(s), NEW i \in 1..Len(s) PROVE s[i] \in Range(t)
  <2>1. Len(t) = k /\ i \in 1..Len(t)
    BY <1>1, <1>3, <1>9
  <2> QED BY <1>4, <1>5, <2>1
<1> QED BY <1>1, <1>3, <1>6, <1>7, <1>8, <1>9 DEF List, t

\* wl_list_remove
LEMMA RemoveList ==
    ASSUME NEW S, NEW s, List(s, S), NEW e
    PROVE  LET t == RemoveFirst(s, e) IN
           List(t, S) /\ Range(t) = Range(s) \ {e} /\ Len(t) <= Len(s)
<1> DEFINE t == RemoveFirst(s, e)
           I == {i \in 1..Len(s) : s[i] = e}
           k == CHOOSE i \in I : \A j \in I : i =< j
<1>1. /\ s \in Seq(S) /\ Len(s) \in Nat /\ DOMAIN s = 1..Len(s)
      /\ Range(s) = {s[i] : i \in 1..Len(s)} /\ \A i \in 1..Len(s) : s[i] \in S
      /\ \A i, j \in 1..Len(s) : s[i] = s[j] => i = j
  BY RangeOf, LenProperties DEF List, IsInjective
<1>2. CASE e \notin Range(s)
  <2>1. ~\E i \in 1..Len(s) : s[i] = e
    BY <1>1, <1>2
  <2>2. t = s
    BY <2>1 DEF RemoveFirst
  <2> QED BY <1>1, <1>2, <2>2
<1>3. CASE e \in Range(s)
  <2>1. PICK x \in 1..Len(s) : s[x] = e
    BY <1>1, <1>3
  <2>2. I = {x}
    BY <1>1, <2>1
  <2>3. k = x
    <3>1. x =< x
      BY <1>1
    <3> QED BY <2>2, <3>1
  <2>4. t = SubSeq(s, 1, x - 1) \o SubSeq(s, x + 1, Len(s))
    <3>1. t = RemoveAt(s, SelectInSeq(s, LAMBDA w : w = e))
      BY <2>1 DEF RemoveFirst
    <3>2. SelectInSeq(s, LAMBDA w : w = e) = k
      BY <2>2 DEF SelectInSeq, Min
    <3> QED BY <2>3, <3>1, <3>2 DEF RemoveAt
  <2> HIDE DEF t, I, k
  <2> DEFINE a == SubSeq(s, 1, x - 1)
             b == SubSeq(s, x + 1, Len(s))
  <2>5. x - 1 \in Int /\ x + 1 \in Int /\ x - 1 <= Len(s) /\ x - 1 \in Nat
    BY <1>1
  <2>6. /\ a \in Seq(S) /\ Len(a) = x - 1 /\ \A i \in 1..x - 1 : a[i] = s[i]
    <3>1. \A i \in 1..x - 1 : s[i] \in S
      BY <1>1
    <3>2. a \in Seq(S) /\ Len(a) = (IF 1 <= x - 1 THEN x - 1 - 1 + 1 ELSE 0)
          /\ \A i \in 1..x - 1 - 1 + 1 : a[i] = s[1 + i - 1]
      BY <2>5, <3>1, SubSeqProperties
    <3>3. \A i \in 1..x - 1 : i \in 1..x - 1 - 1 + 1 /\ 1 + i - 1 = i
      BY <2>5
    <3> HIDE DEF a
    <3>4. Len(a) = x - 1
      BY <2>5, <3>2
    <3> QED BY <3>2, <3>3, <3>4
  <2>7. /\ b \in Seq(S) /\ Len(b) = Len(s) - x
        /\ \A i \in 1..Len(s) - x : b[i] = s[x + i]
    <3>1. \A i \in x + 1..Len(s) : s[i] \in S
      BY <1>1
    <3>2. b \in Seq(S) /\ Len(b) = (IF x + 1 <= Len(s) THEN Len(s) - (x + 1) + 1 ELSE 0)
          /\ \A i \in 1..Len(s) - (x + 1) + 1 : b[i] = s[x + 1 + i - 1]
      BY <1>1, <2>5, <3>1, SubSeqProperties
    <3>3. \A i \in 1..Len(s) - x : i \in 1..Len(s) - (x + 1) + 1 /\ x + 1 + i - 1 = x + i
      BY <1>1, <2>5
    <3> HIDE DEF b
    <3>4. Len(b) = Len(s) - x
      <4>1. x \in Int /\ x <= Len(s) /\ Len(s) \in Int
        BY <1>1
      <4>2. CASE x + 1 <= Len(s)
        BY <3>2, <4>1, <4>2
      <4>3. CASE ~(x + 1 <= Len(s))
        <5>1. Len(s) - x = 0
          BY <4>1, <4>3
        <5> QED BY <3>2, <4>3, <5>1
      <4> QED BY <4>2, <4>3
    <3> QED BY <3>2, <3>3, <3>4
  <2> HIDE DEF a, b
  <2>8. List(a, S) /\ Range(a) = {s[i] : i \in 1..x - 1}
    <3>1. DOMAIN a = 1..x - 1 /\ Range(a) = {a[i] : i \in 1..x - 1}
      BY <2>5, <2>6, RangeOf
    <3>2. \A i \in 1..x - 1 : i \in 1..Len(s)
      BY <1>1
    <3>3. IsInjective(a)
      BY <1>1, <2>6, <3>1, <3>2 DEF IsInjective
    <3> QED BY <2>6, <3>1, <3>3 DEF List
  <2>9. List(b, S) /\ Range(b) = {s[i] : i \in x + 1..Len(s)}
    <3>1. DOMAIN b = 1..Len(s) - x /\ Range(b) = {b[i] : i \in 1..Len(s) - x}
      BY <2>7, RangeOf
    <3>2. \A i \in 1..Len(s) - x : x + i \in 1..Len(s) /\ i \in Int
      BY <1>1
    <3>3. ASSUME NEW i \in 1..Len(s) - x, NEW j \in 1..Len(s) - x, b[i] = b[j] PROVE i = j
      <4>1. x + i = x + j
        BY <1>1, <2>7, <3>2, <3>3
      <4> QED BY <1>1, <3>2, <4>1
    <3>4. IsInjective(b)
      BY <3>1, <3>3 DEF IsInjective
    <3>5. \A i \in x + 1..Len(s) : i - x \in 1..Len(s) - x /\ x + (i - x) = i
      BY <1>1
    <3>6. \A i \in 1..Len(s) - x : x + i \in x + 1..Len(s)
      BY <1>1
    <3>7. Range(b) = {s[i] : i \in x + 1..Len(s)}
      <4>1. \A i \in 1..Len(s) - x : b[i] \in {s[j] : j \in x + 1..Len(s)}
        BY <2>7, <3>6
      <4>2. \A i \in x + 1..Len(s) : s[i] = b[i - x]
        BY <2>7, <3>5
      <4>3. \A i \in x + 1..Len(s) : s[i] \in Range(b)
        BY <3>1, <3>5, <4>2
      <4> QED BY <3>1, <4>1, <4>3
    <3> QED BY <2>7, <3>4, <3>7 DEF List
  <2>10. Range(a) \cap Range(b) = {}
    <3>1. \A i \in 1..x - 1, j \in x + 1..Len(s) :
            i \in 1..Len(s) /\ j \in 1..Len(s) /\ i # j
      BY <1>1
    <3> QED BY <1>1, <2>8, <2>9, <3>1
  <2>11. List(t, S) /\ Range(t) = Range(a) \cup Range(b)
    BY <2>4, <2>8, <2>9, <2>10, ConcatList DEF a, b
  <2>12. Len(t) <= Len(s)
    <3>1. Len(t) = Len(a) + Len(b)
      BY <2>4, <2>6, <2>7, ConcatProperties DEF a, b
    <3> QED BY <1>1, <2>5, <2>6, <2>7, <3>1
  <2>13. Range(a) \cup Range(b) = Range(s) \ {e}
    <3>1. \A i \in 1..Len(s) : i \in 1..x - 1 \/ i \in x + 1..Len(s) \/ i = x
      BY <1>1
    <3>2. \A i \in 1..x - 1 : i \in 1..Len(s) /\ i # x
      BY <1>1
    <3>3. \A i \in x + 1..Len(s) : i \in 1..Len(s) /\ i # x
      BY <1>1
    <3> QED BY <1>1, <2>1, <2>8, <2>9, <3>1, <3>2, <3>3
  <2> QED BY <2>11, <2>12, <2>13 DEF t
<1> QED BY <1>2, <1>3

-----------------------------------------------------------------------------
(* Numbers, and the functions of the model that are defined by recursion    *)
(* over them.                                                              *)

\* Every set of numbers that is not empty has a least one.
LEMMA LeastOf ==
    ASSUME NEW T, T \subseteq Nat, T # {}
    PROVE  \E x \in T : \A y \in T : ~(y < x)
<1> DEFINE R == {ss \in Nat \X Nat : ss[1] < ss[2]}
<1>1. IsWellFoundedOn(R, Nat)
  BY NatLessThanWellFounded, Zenon DEF OpToRel
<1> HIDE DEF R
<1>2. \E x \in T : \A y \in T : ~(<<y, x>> \in R)
  BY <1>1, WFMin, Zenon
<1> QED BY <1>2 DEF R

\* What holds of 0, and of each number behind one it holds of, holds up to n.
LEMMA CountUp ==
    ASSUME NEW n \in Nat, NEW S, 0 \in S,
           \A k \in 0..n : k \in S /\ k + 1 =< n => k + 1 \in S
    PROVE  0..n \subseteq S
<1> SUFFICES ASSUME (0..n) \ S # {} PROVE FALSE
  OBVIOUS
<1> DEFINE T == (0..n) \ S
<1>1. PICK x \in T : \A y \in T : ~(y < x)
  <2>1. T \subseteq Nat /\ T # {}
    OBVIOUS
  <2> HIDE DEF T
  <2> QED BY <2>1, LeastOf
<1>2. x # 0 /\ x \in Nat /\ x \in 0..n
  BY <1>1
<1>3. x - 1 \in 0..n /\ x - 1 < x /\ (x - 1) + 1 = x
  BY <1>2
<1>4. x - 1 \in S
  BY <1>1, <1>3
<1> QED BY <1>1, <1>2, <1>3, <1>4

\* What follows same-as ends at a name, or nowhere.
LEMMA ControllingType ==
    ASSUME config \in Configs, NEW h \in Names
    PROVE  Controlling(h) \in Names \cup {NULL}
<1> DEFINE Step(f, i) ==
               [n \in Names |-> IF i = 0 \/ config[n] = NULL THEN NULL
                                ELSE IF config[n].same_as = NULL THEN n
                                ELSE f[i - 1][config[n].same_as]]
           S == {k \in 0..10 : \E f : f = [i \in 0..k |-> Step(f, i)]}
           follow == CHOOSE f : f = [i \in 0..10 |-> Step(f, i)]
           To == [Names -> Names \cup {NULL}]
<1>1. 0 \in S
  <2> DEFINE g == [i \in 0..0 |-> [n \in Names |-> NULL]]
  <2>1. \A i \in 0..0 : i = 0
    OBVIOUS
  <2>2. g = [i \in 0..0 |-> Step(g, i)]
    <3>1. \A i \in 0..0 : Step(g, i) = [n \in Names |-> NULL]
      BY <2>1
    <3> QED BY <3>1
  <2> HIDE DEF g
  <2> QED BY <2>2
<1>2. ASSUME NEW k \in 0..10, k \in S, k + 1 =< 10 PROVE k + 1 \in S
  <2>1. PICK f : f = [i \in 0..k |-> Step(f, i)]
    BY <1>2
  <2> DEFINE g == [i \in 0..k + 1 |-> IF i = k + 1 THEN Step(f, k + 1) ELSE f[i]]
  <2>2. \A i \in 0..k + 1 : i # 0 => i - 1 \in 0..k
    OBVIOUS
  <2>3. \A i \in 0..k : i \in 0..k + 1 /\ i # k + 1
    OBVIOUS
  <2>4. \A i \in 0..k + 1 : i # 0 => g[i - 1] = f[i - 1]
    BY <2>2, <2>3
  <2>5. \A i \in 0..k + 1 : Step(g, i) = Step(f, i)
    BY <2>4
  <2>6. \A i \in 0..k + 1 : i = k + 1 \/ i \in 0..k
    OBVIOUS
  <2>7. \A i \in 0..k + 1 : g[i] = Step(f, i)
    <3>1. \A i \in 0..k : f[i] = Step(f, i)
      BY <2>1
    <3> QED BY <2>6, <3>1
  <2>8. g = [i \in 0..k + 1 |-> g[i]]
    OBVIOUS
  <2> HIDE DEF g, Step
  <2>9. g = [i \in 0..k + 1 |-> Step(g, i)]
    BY <2>5, <2>7, <2>8
  <2>10. k + 1 \in 0..10
    BY <1>2
  <2> QED BY <2>9, <2>10
<1>3. 0..10 \subseteq S
  <2> HIDE DEF S
  <2> QED BY <1>1, <1>2, CountUp
<1>4. follow = [i \in 0..10 |-> Step(follow, i)]
  <2>1. 10 \in 0..10
    OBVIOUS
  <2>2. \E f : f = [i \in 0..10 |-> Step(f, i)]
    BY <1>3, <2>1
  <2> QED BY <2>2
<1>5. Controlling(h) = follow[10][h]
  BY DEF Controlling
<1> HIDE DEF follow
<1>6. config \in [Names -> Sections \cup {NULL}]
  BY ConfigsAssumption
<1>7. \A n \in Names : config[n] # NULL => config[n].same_as \in Names \cup {NULL}
  BY <1>6 DEF Sections
<1> DEFINE T == {k \in 0..10 : follow[k] \in To}
<1>8. 0 \in T
  BY <1>4
<1>9. ASSUME NEW k \in 0..10, k \in T, k + 1 =< 10 PROVE k + 1 \in T
  <2>1. k + 1 \in 0..10 /\ k + 1 # 0 /\ (k + 1) - 1 = k
    BY <1>9
  <2>2. follow[k + 1] = Step(follow, k + 1)
    BY <1>4, <2>1
  <2>3. follow[k] \in To
    BY <1>9
  <2>4. Step(follow, k + 1) \in To
    BY <1>7, <2>1, <2>3
  <2> QED BY <2>1, <2>2, <2>4
<1>10. 0..10 \subseteq T
  <2> HIDE DEF T
  <2> QED BY <1>8, <1>9, CountUp
<1>11. follow[10] \in To
  BY <1>10
<1> QED BY <1>5, <1>11

\* The pass over the heads visits one after the other.
LEMMA VisitedIs ==
    ASSUME NEW s, head_list \in Seq(Heads)
    PROVE  \E pass :
            /\ pass[0] = s
            /\ \A i \in 1..Len(head_list) : pass[i] = Visit(pass[i - 1], head_list[i])
            /\ Visited(s) = pass[Len(head_list)]
<1> DEFINE N == Len(head_list)
           Step(f, i) == IF i = 0 THEN s ELSE Visit(f[i - 1], head_list[i])
           S == {k \in 0..N : \E f : f = [i \in 0..k |-> Step(f, i)]}
           pass == CHOOSE f : f = [i \in 0..N |-> Step(f, i)]
<1>0. N \in Nat
  BY LenProperties
<1>5. Visited(s) = pass[N]
  BY DEF Visited
<1> HIDE DEF N
<1>1. 0 \in S
  <2> DEFINE g == [i \in 0..0 |-> s]
  <2>1. \A i \in 0..0 : i = 0
    OBVIOUS
  <2>2. g = [i \in 0..0 |-> Step(g, i)]
    BY <2>1
  <2>3. 0 \in 0..N
    BY <1>0
  <2> HIDE DEF g
  <2> QED BY <2>2, <2>3
<1>2. ASSUME NEW k \in 0..N, k \in S, k + 1 =< N PROVE k + 1 \in S
  <2>1. PICK f : f = [i \in 0..k |-> Step(f, i)]
    BY <1>2
  <2> DEFINE g == [i \in 0..k + 1 |-> IF i = k + 1 THEN Step(f, k + 1) ELSE f[i]]
  <2>2. \A i \in 0..k + 1 : i # 0 => i - 1 \in 0..k
    BY <1>0
  <2>3. \A i \in 0..k : i \in 0..k + 1 /\ i # k + 1
    BY <1>0
  <2>4. \A i \in 0..k + 1 : i # 0 => g[i - 1] = f[i - 1]
    BY <2>2, <2>3
  <2>5. \A i \in 0..k + 1 : Step(g, i) = Step(f, i)
    BY <2>4
  <2>6. \A i \in 0..k + 1 : i = k + 1 \/ i \in 0..k
    BY <1>0
  <2>7. \A i \in 0..k + 1 : g[i] = Step(f, i)
    <3>1. \A i \in 0..k : f[i] = Step(f, i)
      BY <2>1
    <3> HIDE DEF Step
    <3> QED BY <2>6, <3>1
  <2>8. g = [i \in 0..k + 1 |-> g[i]]
    OBVIOUS
  <2> HIDE DEF g, Step
  <2>9. g = [i \in 0..k + 1 |-> Step(g, i)]
    BY <2>5, <2>7, <2>8
  <2>10. k + 1 \in 0..N
    BY <1>0, <1>2
  <2> QED BY <2>9, <2>10
<1>3. 0..N \subseteq S
  <2> HIDE DEF S
  <2> QED BY <1>0, <1>1, <1>2, CountUp
<1>4. pass = [i \in 0..N |-> Step(pass, i)]
  <2>1. N \in 0..N
    BY <1>0
  <2> HIDE DEF Step
  <2>2. \E f : f = [i \in 0..N |-> Step(f, i)]
    BY <1>3, <2>1
  <2> QED BY <2>2
<1> HIDE DEF pass
<1>6. 0 \in 0..N /\ \A i \in 1..N : i \in 0..N /\ i # 0
  BY <1>0
<1>7. pass[0] = s /\ \A i \in 1..N : pass[i] = Visit(pass[i - 1], head_list[i])
  BY <1>4, <1>6
<1> QED BY <1>5, <1>7 DEF N

\* So does the pass over the layoutputs.
LEMMA ProcessedIs ==
    ASSUME NEW s, NEW keep, s.los \in Seq(Names)
    PROVE  \E pass :
            /\ pass[0] = s
            /\ \A i \in 1..Len(s.los) :
                    pass[i] = ProcessLayoutput(pass[i - 1], s.los[i], keep)
            /\ Processed(s, keep) = pass[Len(s.los)]
<1> DEFINE N == Len(s.los)
           Step(f, i) == IF i = 0 THEN s ELSE ProcessLayoutput(f[i - 1], s.los[i], keep)
           S == {k \in 0..N : \E f : f = [i \in 0..k |-> Step(f, i)]}
           pass == CHOOSE f : f = [i \in 0..N |-> Step(f, i)]
<1>0. N \in Nat
  BY LenProperties
<1>5. Processed(s, keep) = pass[N]
  BY DEF Processed
<1> HIDE DEF N
<1>1. 0 \in S
  <2> DEFINE g == [i \in 0..0 |-> s]
  <2>1. \A i \in 0..0 : i = 0
    OBVIOUS
  <2>2. g = [i \in 0..0 |-> Step(g, i)]
    BY <2>1
  <2>3. 0 \in 0..N
    BY <1>0
  <2> HIDE DEF g
  <2> QED BY <2>2, <2>3
<1>2. ASSUME NEW k \in 0..N, k \in S, k + 1 =< N PROVE k + 1 \in S
  <2>1. PICK f : f = [i \in 0..k |-> Step(f, i)]
    BY <1>2
  <2> DEFINE g == [i \in 0..k + 1 |-> IF i = k + 1 THEN Step(f, k + 1) ELSE f[i]]
  <2>2. \A i \in 0..k + 1 : i # 0 => i - 1 \in 0..k
    BY <1>0
  <2>3. \A i \in 0..k : i \in 0..k + 1 /\ i # k + 1
    BY <1>0
  <2>4. \A i \in 0..k + 1 : i # 0 => g[i - 1] = f[i - 1]
    BY <2>2, <2>3
  <2>5. \A i \in 0..k + 1 : Step(g, i) = Step(f, i)
    BY <2>4
  <2>6. \A i \in 0..k + 1 : i = k + 1 \/ i \in 0..k
    BY <1>0
  <2>7. \A i \in 0..k + 1 : g[i] = Step(f, i)
    <3>1. \A i \in 0..k : f[i] = Step(f, i)
      BY <2>1
    <3> HIDE DEF Step
    <3> QED BY <2>6, <3>1
  <2>8. g = [i \in 0..k + 1 |-> g[i]]
    OBVIOUS
  <2> HIDE DEF g, Step
  <2>9. g = [i \in 0..k + 1 |-> Step(g, i)]
    BY <2>5, <2>7, <2>8
  <2>10. k + 1 \in 0..N
    BY <1>0, <1>2
  <2> QED BY <2>9, <2>10
<1>3. 0..N \subseteq S
  <2> HIDE DEF S
  <2> QED BY <1>0, <1>1, <1>2, CountUp
<1>4. pass = [i \in 0..N |-> Step(pass, i)]
  <2>1. N \in 0..N
    BY <1>0
  <2> HIDE DEF Step
  <2>2. \E f : f = [i \in 0..N |-> Step(f, i)]
    BY <1>3, <2>1
  <2> QED BY <2>2
<1> HIDE DEF pass
<1>6. 0 \in 0..N /\ \A i \in 1..N : i \in 0..N /\ i # 0
  BY <1>0
<1>7. pass[0] = s
      /\ \A i \in 1..N : pass[i] = ProcessLayoutput(pass[i - 1], s.los[i], keep)
  BY <1>4, <1>6
<1> QED BY <1>5, <1>7 DEF N

-----------------------------------------------------------------------------
(* Names, and which output a head is on.                                   *)

\* The marks of a wet_output are none of the outputs, and the names given to
\* outputs are.
LEMMA Ids ==
    /\ None \notin Outputs /\ Left \notin Outputs /\ NULL \notin Outputs
    /\ None # Left
    /\ \A n \in Names : <<n>> \in Outputs
    /\ \A n \in Names, h \in Heads : <<n, h>> \in Outputs
<1>1. ASSUME NEW o \in Outputs PROVE Len(o) = 1 \/ Len(o) = 2
  BY DEF Outputs
<1>2. Len(None) = 0 /\ Len(Left) = 3
  BY DEF None, Left
<1>3. None # Left
  BY <1>2
<1> QED BY <1>1, <1>2, <1>3, NullAssumption DEF Outputs

\* A head's layoutput has a name, with a section or without.
LEMMA HeadNames ==
    ASSUME config \in Configs, NEW h \in Heads
    PROVE  LayoutputOf(h) \in Names
BY ControllingType, HeadsAssumption DEF LayoutputOf

\* Clones of a clone are clones.
LEMMA SharedClones ==
    ASSUME NEW g \in Heads, NEW h \in Heads, LayoutputOf(g) = LayoutputOf(h)
    PROVE  (g # h \/ Shared(g)) => Shared(h)
BY DEF Shared

\* An output that there is has heads, and is not NULL.
LEMMA OutputTypes ==
    ASSUME NEW s, Typed(s), NEW o \in Outputs, s.out[o] # NULL
    PROVE  /\ s.out[o] \in WestonOutput
           /\ s.out[o].heads \in Seq(Heads) /\ HeadsOf(s, o) \subseteq Heads
           /\ s.out[o].deferred \in {"no", "disable", "destroy"}
           /\ s.out[o] = [heads |-> s.out[o].heads, deferred |-> s.out[o].deferred]
<1>1. s.out[o] \in WestonOutput
  BY DEF Typed
<1>2. s.out[o].heads \in Seq(Heads) /\ s.out[o].deferred \in {"no", "disable", "destroy"}
      /\ s.out[o] = [heads |-> s.out[o].heads, deferred |-> s.out[o].deferred]
  BY <1>1 DEF WestonOutput
<1>3. HeadsOf(s, o) \subseteq Heads
  BY <1>2, RangeOf DEF HeadsOf
<1> QED BY <1>1, <1>2, <1>3

\* A head is on one output, the one of its layoutput.
LEMMA OutputOfIs ==
    ASSUME NEW s, Typed(s), Owned(s), NEW h \in Heads
    PROVE  /\ \A o \in Outputs : s.out[o] # NULL /\ h \in HeadsOf(s, o)
                => OutputOf(s, h) = o /\ s.wet[LayoutputOf(h)] = o
           /\ OutputOf(s, h) # NULL => /\ OutputOf(s, h) \in Outputs
                                       /\ s.out[OutputOf(s, h)] # NULL
                                       /\ h \in HeadsOf(s, OutputOf(s, h))
<1> DEFINE os == {o \in Outputs : s.out[o] # NULL /\ h \in Range(s.out[o].heads)}
<1>1. OutputOf(s, h) = IF os = {} THEN NULL ELSE CHOOSE o \in os : TRUE
  BY DEF OutputOf
<1>2. \A o \in os : s.wet[LayoutputOf(h)] = o
  BY DEF Owned, HeadsOf
<1>3. os # {} => OutputOf(s, h) \in os
  BY <1>1
<1> QED BY <1>1, <1>2, <1>3 DEF HeadsOf

\* An enabled head is on an enabled output.
LEMMA EnabledIs ==
    ASSUME NEW s, Typed(s), Owned(s), NEW h \in Heads
    PROVE  /\ \A o \in Outputs : s.out[o] # NULL /\ h \in HeadsOf(s, o)
                => (Enabled(s, h) <=> o \in On(s))
           /\ Enabled(s, h) => OutputOf(s, h) # NULL
           /\ Enabled(s, h) <=> \E o \in On(s) : h \in HeadsOf(s, o)
<1>1. On(s) \subseteq Outputs
  BY RangeOf DEF Typed, List, On
<1>2. NULL \notin On(s)
  BY <1>1, Ids
<1>3. Enabled(s, h) <=> OutputOf(s, h) \in On(s)
  BY DEF Enabled, On
<1>4. \A o \in On(s) : s.out[o] # NULL
  BY DEF Owned
<1> QED BY <1>1, <1>2, <1>3, <1>4, OutputOfIs

-----------------------------------------------------------------------------
(* What an operation does to one output keeps the invariant, when it does    *)
(* for that one.                                                           *)

\* t is s but for the output o, which is w in t, and wet_outputs and trackers
\* that are not about another one.
Differ(s, t, o) ==
    /\ Rec(t)
    /\ t.out \in [Outputs -> WestonOutput \cup {NULL}]
    /\ \A p \in Outputs \ {o} : t.out[p] = s.out[p]
    /\ List(t.list, Outputs) /\ Len(t.list) <= Crtcs /\ On(t) \ {o} = On(s) \ {o}
    /\ t.wet \in [Names -> Outputs \cup {None, Left}]
    /\ \A n \in Names : t.wet[n] # s.wet[n] =>
            /\ s.wet[n] = o \/ s.wet[n] \notin Outputs
            /\ t.wet[n] = o \/ t.wet[n] \notin Outputs
    /\ t.los = s.los /\ t.flip = s.flip
    /\ t.tracked \subseteq Heads
    /\ \A p \in Outputs \ {o} : s.out[p] # NULL =>
            \A h \in HeadsOf(s, p) \cap s.tracked : h \in t.tracked

\* What the invariant says of o.
SoundOutput(t, o, v) ==
    /\ o \in On(t) \/ (\E n \in Names : t.wet[n] = o) => t.out[o] # NULL
    /\ \A m, n \in Names : t.wet[m] = o /\ t.wet[n] = o => m = n
    /\ t.out[o] # NULL =>
        /\ IsInjective(t.out[o].heads)
        /\ \A h \in HeadsOf(t, o) :
            /\ t.wet[LayoutputOf(h)] = o /\ ~Off(h)
            /\ h \notin t.tracked => t.out[o].deferred = "destroy" \/ Shared(h)
        /\ o \in On(t) /\ t.out[o].deferred = "no" => t.out[o].heads # <<>>
        /\ t.out[o].deferred # "no" => o \in t.flip
    /\ \A n \in Names : t.wet[n] = o =>
        /\ o \notin On(t) => \E h \in v : LayoutputOf(h) = n /\ Shared(h)
        /\ t.out[o].deferred # "no" => \E h \in v : LayoutputOf(h) = n
        /\ t.out[o].deferred = "disable" =>
            \E h \in v : LayoutputOf(h) = n /\ Shared(h)

\* What differs from a good record in one output only is good when that
\* output is.
LEMMA OneOutput ==
    ASSUME config \in Configs, NEW s, NEW t, NEW v, NEW u, Good(s, v), v \subseteq u,
           NEW o \in Outputs, Differ(s, t, o), SoundOutput(t, o, u)
    PROVE  Good(t, u)
<1>0. /\ Typed(s) /\ Owned(s) /\ Lit(s) /\ Explained(s, v) /\ Cloned(s) /\ Flips(s)
  BY DEF Good
<1>1. Typed(t)
  BY <1>0 DEF Typed, Differ
<1>2. On(t) \subseteq Outputs /\ On(s) \subseteq Outputs
  BY <1>0, <1>1, RangeOf DEF Typed, List, On
<1>3. \A p \in Outputs \ {o} : t.out[p] = s.out[p] /\ (p \in On(t) <=> p \in On(s))
                               /\ HeadsOf(t, p) = HeadsOf(s, p)
  BY DEF Differ, HeadsOf
<1>4. \A n \in Names : t.wet[n] \in Outputs \ {o} => s.wet[n] = t.wet[n]
  BY DEF Differ
<1>5. \A n \in Names : s.wet[n] \in Outputs \ {o} => t.wet[n] = s.wet[n]
  BY DEF Differ
<1>6. \A p \in Outputs : s.out[p] # NULL => \A h \in HeadsOf(s, p) : LayoutputOf(h) \in Names
  BY <1>0, OutputTypes, HeadNames
<1>7. Owned(t)
  <2>1. \A p \in On(t) : t.out[p] # NULL
    BY <1>0, <1>2, <1>3 DEF Owned, SoundOutput
  <2>2. \A n \in Names : t.wet[n] \in Outputs => t.out[t.wet[n]] # NULL
    BY <1>0, <1>3, <1>4 DEF Owned, SoundOutput
  <2>3. \A m, n \in Names : t.wet[m] = t.wet[n] /\ t.wet[m] \in Outputs => m = n
    BY <1>0, <1>4 DEF Owned, SoundOutput
  <2>4. ASSUME NEW p \in Outputs, t.out[p] # NULL
        PROVE  /\ IsInjective(t.out[p].heads)
               /\ \A h \in HeadsOf(t, p) : t.wet[LayoutputOf(h)] = p /\ ~Off(h)
    <3>1. CASE p = o
      BY <2>4, <3>1 DEF SoundOutput
    <3>2. CASE p # o
      <4>1. /\ IsInjective(s.out[p].heads)
            /\ \A h \in HeadsOf(s, p) : s.wet[LayoutputOf(h)] = p /\ ~Off(h)
        BY <1>0, <1>3, <2>4, <3>2 DEF Owned
      <4> QED BY <1>3, <1>5, <1>6, <2>4, <3>2, <4>1
    <3> QED BY <3>1, <3>2
  <2> QED BY <2>1, <2>2, <2>3, <2>4 DEF Owned
<1>8. Lit(t)
  BY <1>0, <1>2, <1>3, <1>7 DEF Lit, SoundOutput, Owned
<1>9. Explained(t, u)
  <2> SUFFICES ASSUME NEW n \in Names, t.wet[n] \in Outputs
               PROVE  LET p == t.wet[n] IN
                      /\ p \notin On(t) => \E h \in u : LayoutputOf(h) = n /\ Shared(h)
                      /\ t.out[p].deferred # "no" => \E h \in u : LayoutputOf(h) = n
                      /\ t.out[p].deferred = "disable" =>
                           \E h \in u : LayoutputOf(h) = n /\ Shared(h)
    BY DEF Explained
  <2>1. CASE t.wet[n] = o
    BY <2>1 DEF SoundOutput
  <2>2. CASE t.wet[n] # o
    <3>1. s.wet[n] = t.wet[n] /\ t.wet[n] \in Outputs \ {o}
      BY <1>4, <2>2
    <3>2. /\ s.wet[n] \notin On(s) => \E h \in v : LayoutputOf(h) = n /\ Shared(h)
          /\ s.out[s.wet[n]].deferred # "no" => \E h \in v : LayoutputOf(h) = n
          /\ s.out[s.wet[n]].deferred = "disable" =>
               \E h \in v : LayoutputOf(h) = n /\ Shared(h)
      BY <1>0, <3>1 DEF Explained
    <3> QED BY <1>3, <3>1, <3>2
  <2> QED BY <2>1, <2>2
<1>10. Cloned(t)
  <2> SUFFICES ASSUME NEW p \in Outputs, t.out[p] # NULL, NEW h \in HeadsOf(t, p),
                      h \notin t.tracked
               PROVE  t.out[p].deferred = "destroy" \/ Shared(h)
    BY DEF Cloned
  <2>1. CASE p = o
    BY <2>1 DEF SoundOutput
  <2>2. CASE p # o
    <3>1. s.out[p] # NULL /\ h \in HeadsOf(s, p) /\ t.out[p] = s.out[p]
      BY <1>3, <2>2
    <3>2. h \notin s.tracked
      BY <2>2, <3>1 DEF Differ
    <3> QED BY <1>0, <3>1, <3>2 DEF Cloned
  <2> QED BY <2>1, <2>2
<1>11. Flips(t)
  BY <1>0, <1>3 DEF Flips, SoundOutput, Differ
<1> QED BY <1>1, <1>7, <1>8, <1>9, <1>10, <1>11 DEF Good, Differ

-----------------------------------------------------------------------------
(* What the operations do.                                                 *)

\* The fields that taking outputs away leaves alone.
Aside(s, t) ==
    /\ Rec(t) /\ t.los = s.los /\ t.add = s.add /\ t.failed = s.failed
    /\ t.aborted = s.aborted /\ t.flip = s.flip

\* weston_compositor_remove_output, whose reflow changes places only.
LEMMA RemoveOutputIs ==
    ASSUME NEW s, Rec(s), NEW o
    PROVE  LET t == RemoveOutput(s, o) IN
           /\ Aside(s, t) /\ t.list = RemoveFirst(s.list, o)
           /\ t.wet = s.wet /\ t.out = s.out /\ t.tracked = s.tracked
<1> DEFINE t == RemoveOutput(s, o)
<1>1. PICK pl : t = [s EXCEPT !.list = RemoveFirst(@, o), !.place = pl]
  BY DEF RemoveOutput
<1> HIDE DEF t
<1> QED BY <1>1 DEF Rec, Aside, t

\* wet_output_handle_destroy: no wet_output keeps a destroyed output.
LEMMA ReleasedIs ==
    ASSUME NEW s, Rec(s), NEW o
    PROVE  LET t == Released(s, o) IN
           /\ Aside(s, t) /\ t.list = RemoveFirst(s.list, o)
           /\ t.wet = [n \in Names |-> IF s.wet[n] = o THEN Left ELSE s.wet[n]]
           /\ t.out = [s.out EXCEPT ![o] = NULL] /\ t.tracked = s.tracked
<1> DEFINE r == RemoveOutput(s, o)
           t == Released(s, o)
<1>1. /\ Aside(s, r) /\ r.list = RemoveFirst(s.list, o)
      /\ r.wet = s.wet /\ r.out = s.out /\ r.tracked = s.tracked
  BY RemoveOutputIs
<1>2. t = [r EXCEPT !.out[o] = NULL, !.place[o] = NULL,
                    !.wet = [n \in Names |-> IF @[n] = o THEN Left ELSE @[n]]]
  BY DEF Released
<1> HIDE DEF r
<1> DEFINE w == [n \in Names |-> IF r.wet[n] = o THEN Left ELSE r.wet[n]]
           u == [r.out EXCEPT ![o] = NULL]
           p == [r.place EXCEPT ![o] = NULL]
<1>3. Rec(r)
  BY <1>1 DEF Aside
<1>4. t = [r EXCEPT !.out = u, !.place = p, !.wet = w]
  BY <1>2, <1>3 DEF Rec
<1> HIDE DEF t, u, w, p
<1>5. Aside(r, t) /\ t.list = r.list /\ t.wet = w /\ t.out = u /\ t.tracked = r.tracked
  BY <1>3, <1>4 DEF Rec, Aside
<1>6. Aside(s, t)
  BY <1>1, <1>5 DEF Aside
<1> QED BY <1>1, <1>5, <1>6 DEF t, u, w

\* drm_output_destroy: at once, or when the flip is done.
LEMMA DestroyedIs ==
    ASSUME NEW s, Rec(s), NEW o
    PROVE  LET t == Destroyed(s, o) IN
           /\ o \notin s.flip => t = Released(s, o)
           /\ o \in s.flip =>
                /\ Aside(s, t) /\ t.list = s.list /\ t.wet = s.wet
                /\ t.out = [s.out EXCEPT ![o].deferred = "destroy"]
                /\ t.tracked = s.tracked
BY DEF Destroyed, Rec, Aside

\* weston_output_disable: at once, or when the flip is done.
LEMMA DisabledIs ==
    ASSUME NEW s, Rec(s), NEW o
    PROVE  LET t == Disabled(s, o) IN
           /\ Aside(s, t) /\ t.wet = s.wet /\ t.tracked = s.tracked
           /\ o \notin s.flip =>
                t.list = RemoveFirst(s.list, o) /\ t.out = s.out
           /\ o \in s.flip =>
                /\ t.list = s.list
                /\ t.out = [s.out EXCEPT ![o].deferred = IF @ = "no" THEN "disable" ELSE @]
<1>1. CASE o \notin s.flip
  BY <1>1, RemoveOutputIs DEF Disabled
<1>2. CASE o \in s.flip
  BY <1>2 DEF Disabled, Rec, Aside
<1> QED BY <1>1, <1>2

\* weston_head_detach, of a head that is on o.
LEMMA DetachedIs ==
    ASSUME NEW s, Rec(s), NEW h, NEW o, o = OutputOf(s, h), o # NULL, s.out[o] # NULL,
           s.out \in [Outputs -> WestonOutput \cup {NULL}], o \in Outputs
    PROVE  LET t == Detached(s, h)
               left == RemoveFirst(s.out[o].heads, h)
               last == o \in On(s) /\ left = <<>>
               was == s.out[o].deferred
           IN /\ Aside(s, t) /\ t.wet = s.wet /\ t.tracked = s.tracked
              /\ t.list = IF last /\ o \notin s.flip THEN RemoveFirst(s.list, o) ELSE s.list
              /\ t.out = [s.out EXCEPT ![o] =
                    [heads |-> left, deferred |->
                        IF last /\ o \in s.flip /\ was = "no" THEN "disable" ELSE was]]
<1> DEFINE t == Detached(s, h)
           left == RemoveFirst(s.out[o].heads, h)
           last == o \in On(s) /\ left = <<>>
           was == s.out[o].deferred
           r == [s EXCEPT !.out[o].heads = left]
<1>1. s.out[o] = [heads |-> s.out[o].heads, deferred |-> was]
  BY DEF WestonOutput
<1>2. /\ Aside(s, r) /\ r.wet = s.wet /\ r.tracked = s.tracked /\ r.list = s.list
      /\ r.out = [s.out EXCEPT ![o] = [heads |-> left, deferred |-> was]]
  BY <1>1 DEF Rec, Aside
<1>3. r.out[o] = [heads |-> left, deferred |-> was]
  BY <1>2
<1>4. t = IF last THEN Disabled(r, o) ELSE r
  BY <1>3 DEF Detached, On
<1> HIDE DEF r, left, t
<1>5. CASE last
  <2>1. /\ Aside(r, t) /\ t.wet = r.wet /\ t.tracked = r.tracked
        /\ o \notin r.flip => t.list = RemoveFirst(r.list, o) /\ t.out = r.out
        /\ o \in r.flip =>
            /\ t.list = r.list
            /\ t.out = [r.out EXCEPT ![o].deferred = IF @ = "no" THEN "disable" ELSE @]
    BY <1>2, <1>4, <1>5, DisabledIs DEF Aside
  <2>2. r.flip = s.flip
    BY <1>2 DEF Aside
  <2>3. Aside(s, t)
    BY <1>2, <2>1 DEF Aside
  <2>4. [r.out EXCEPT ![o].deferred = IF @ = "no" THEN "disable" ELSE @]
        = [s.out EXCEPT ![o] = [heads |-> left,
                                deferred |-> IF was = "no" THEN "disable" ELSE was]]
    BY <1>2, <1>3
  <2> QED BY <1>2, <1>5, <2>1, <2>2, <2>3, <2>4 DEF left, t
<1>6. CASE ~last
  BY <1>2, <1>4, <1>6 DEF left, t
<1> QED BY <1>5, <1>6

\* wet_head_tracker_destroy
LEMMA UntrackedIs ==
    ASSUME NEW s, Rec(s), NEW h
    PROVE  LET t == [s EXCEPT !.tracked = @ \ {h}] IN
           /\ Aside(s, t) /\ t.tracked = s.tracked \ {h} /\ t.list = s.list
           /\ t.wet = s.wet /\ t.out = s.out
<1> DEFINE t == [s EXCEPT !.tracked = @ \ {h}]
<1>1. PICK x : x = s.tracked \ {h}
  OBVIOUS
<1>2. t = [s EXCEPT !.tracked = x]
  BY <1>1
<1> HIDE DEF t
<1>3. /\ Aside(s, t) /\ t.tracked = x /\ t.list = s.list
      /\ t.wet = s.wet /\ t.out = s.out
  BY <1>2 DEF Rec, Aside
<1> QED BY <1>1, <1>3 DEF t

\* A weston_output of which only heads and deferred are set.
WithHeads(hs, d) == [heads |-> hs, deferred |-> d]

\* The outputs of s with w for o; the wet_outputs of s without that of o.
With(s, o, w) == [s.out EXCEPT ![o] = w]
Forget(s, o) == [n \in Names |-> IF s.wet[n] = o THEN None ELSE s.wet[n]]

\* drm_head_disable, of a head that is on the enabled output o.
LEMMA HeadDisabledIs ==
    ASSUME config \in Configs, NEW s, NEW v, Good(s, v), NEW h \in Heads,
           NEW o \in On(s), s.out[o] # NULL, h \in HeadsOf(s, o)
    PROVE  LET t == HeadDisabled(s, h)
               left == RemoveFirst(s.out[o].heads, h)
           IN /\ Aside(s, t) /\ t.tracked = s.tracked \ {h}
              /\ left # <<>> =>
                    /\ t.list = s.list /\ t.wet = s.wet
                    /\ t.out = With(s, o, WithHeads(left, s.out[o].deferred))
              /\ left = <<>> /\ o \in s.flip =>
                    /\ t.list = s.list /\ t.wet = Forget(s, o)
                    /\ t.out = With(s, o, WithHeads(left, "destroy"))
              /\ left = <<>> /\ o \notin s.flip =>
                    /\ List(t.list, Outputs) /\ Len(t.list) <= Crtcs
                    /\ On(t) = On(s) \ {o} /\ t.wet = Forget(s, o)
                    /\ t.out = With(s, o, NULL)
<1> DEFINE t == HeadDisabled(s, h)
           left == RemoveFirst(s.out[o].heads, h)
           forget == [n \in Names |-> IF s.wet[n] = o THEN None ELSE s.wet[n]]
           r == [s EXCEPT !.tracked = @ \ {h}]
           d == Detached(r, h)
           w == [d EXCEPT !.wet = forget]
           was == s.out[o].deferred
<1>1. Rec(s) /\ Typed(s) /\ Owned(s) /\ List(s.list, Outputs) /\ Len(s.list) <= Crtcs
      /\ Crtcs \in Int
  BY NumbersAssumption DEF Good, Typed
<1>2. o \in Outputs /\ OutputOf(s, h) = o /\ s.wet[LayoutputOf(h)] = o
  BY <1>1, OutputOfIs, RangeOf DEF On, Typed, List
<1>3. LayoutputOf(h) \in Names /\ o # NULL
  BY <1>2, HeadNames, Ids
<1>4. o \in Range(s.wet)
  <2>1. DOMAIN s.wet = Names
    BY <1>1 DEF Typed
  <2> QED BY <1>2, <1>3, <2>1 DEF Range
<1>5. /\ Rec(r) /\ Aside(s, r) /\ r.tracked = s.tracked \ {h} /\ r.list = s.list
      /\ r.wet = s.wet /\ r.out = s.out /\ On(r) = On(s)
  <2>1. /\ Aside(s, r) /\ r.tracked = s.tracked \ {h} /\ r.list = s.list
        /\ r.wet = s.wet /\ r.out = s.out
    BY <1>1, UntrackedIs
  <2> QED BY <2>1 DEF Aside, On
<1>6. OutputOf(r, h) = o
  BY <1>2, <1>5 DEF OutputOf
<1> HIDE DEF r
<1>7. s.out \in [Outputs -> WestonOutput \cup {NULL}] /\ r.flip = s.flip
  BY <1>1, <1>5 DEF Typed, Aside
<1>8. LET last == left = <<>> IN
      /\ Aside(r, d) /\ d.wet = s.wet /\ d.tracked = r.tracked
      /\ d.list = IF last /\ o \notin s.flip THEN RemoveFirst(s.list, o) ELSE s.list
      /\ d.out = [s.out EXCEPT ![o] =
            [heads |-> left, deferred |->
                IF last /\ o \in s.flip /\ was = "no" THEN "disable" ELSE was]]
  BY <1>2, <1>3, <1>5, <1>6, <1>7, DetachedIs
<1>9. Aside(s, d) /\ Rec(d) /\ d.flip = s.flip
  BY <1>5, <1>8 DEF Aside
<1>10. d.out[o].heads = left
  BY <1>2, <1>7, <1>8
<1>11. t = IF left # <<>> THEN d ELSE Destroyed(w, o)
  <2>1. t = LET oo == OutputOf(s, h)
                tt == Detached(r, h)
                ff == [n \in Names |-> IF s.wet[n] = oo THEN None ELSE s.wet[n]]
            IN  IF oo \notin Range(s.wet) THEN [s EXCEPT !.aborted = "disabling"]
                ELSE IF tt.out[oo].heads # <<>> THEN tt
                ELSE Destroyed([tt EXCEPT !.wet = ff], oo)
    BY DEF HeadDisabled, r
  <2> QED BY <1>2, <1>4, <1>10, <2>1
<1> HIDE DEF t, d, left
<1>12. CASE left # <<>>
  <2>1. d.list = s.list /\ d.wet = s.wet /\ d.tracked = s.tracked \ {h}
        /\ d.out = [s.out EXCEPT ![o] = [heads |-> left, deferred |-> was]]
    BY <1>5, <1>8, <1>12
  <2> QED BY <1>9, <1>11, <1>12, <2>1 DEF t, left, With, WithHeads
<1>13. CASE left = <<>>
  <2>1. t = Destroyed(w, o)
    BY <1>11, <1>13
  <2>2. /\ Rec(w) /\ Aside(d, w) /\ w.wet = forget /\ w.out = d.out /\ w.list = d.list
        /\ w.tracked = d.tracked /\ w.flip = s.flip
    BY <1>9 DEF Rec, Aside
  <2> HIDE DEF w, forget
  <2>3. CASE o \in s.flip
    <3>1. Aside(w, t) /\ t.list = w.list /\ t.wet = w.wet /\ t.tracked = w.tracked
          /\ t.out = [w.out EXCEPT ![o].deferred = "destroy"]
      BY <2>1, <2>2, <2>3, DestroyedIs, ZenonT(30)
    <3>2. t.list = s.list /\ t.wet = forget /\ t.tracked = s.tracked \ {h}
      BY <1>5, <1>8, <2>2, <2>3, <3>1
    <3>3. d.out[o] = [heads |-> left, deferred |->
                IF left = <<>> /\ o \in s.flip /\ was = "no" THEN "disable" ELSE was]
      BY <1>2, <1>7, <1>8
    <3>4. [d.out EXCEPT ![o].deferred = "destroy"]
          = [s.out EXCEPT ![o] = [heads |-> left, deferred |-> "destroy"]]
      BY <1>2, <1>7, <1>8, <3>3
    <3>5. Aside(s, t)
      BY <1>9, <2>2, <3>1 DEF Aside
    <3> QED BY <1>13, <2>2, <2>3, <3>1, <3>2, <3>4, <3>5 DEF t, left, forget, With, WithHeads, Forget
  <2>4. CASE o \notin s.flip
    <3>1. t = Released(w, o)
      BY <2>1, <2>2, <2>4, DestroyedIs, ZenonT(30)
    <3>2. /\ Aside(w, t) /\ t.list = RemoveFirst(w.list, o)
          /\ t.wet = [n \in Names |-> IF w.wet[n] = o THEN Left ELSE w.wet[n]]
          /\ t.out = [w.out EXCEPT ![o] = NULL] /\ t.tracked = w.tracked
      BY <2>2, <3>1, ReleasedIs
    <3>3. Aside(s, t) /\ t.tracked = s.tracked \ {h}
      BY <1>5, <1>8, <1>9, <2>2, <3>2 DEF Aside
    <3>4. \A n \in Names : w.wet[n] # o
      BY <1>2, <2>2, Ids DEF forget
    <3>5. t.wet = forget
      <4>1. w.wet = [n \in Names |-> w.wet[n]]
        BY <2>2 DEF forget
      <4>2. t.wet = [n \in Names |-> w.wet[n]]
        BY <3>2, <3>4
      <4> QED BY <2>2, <4>1, <4>2
    <3>6. t.out = [s.out EXCEPT ![o] = NULL]
      BY <1>8, <2>2, <3>2
    <3>7. w.list = RemoveFirst(s.list, o)
      BY <1>8, <1>13, <2>2, <2>4
    <3> DEFINE l1 == RemoveFirst(s.list, o)
    <3>8. List(l1, Outputs) /\ Range(l1) = On(s) \ {o} /\ Len(l1) <= Len(s.list)
          /\ Len(l1) \in Int /\ Len(s.list) \in Int
      <4>1. List(l1, Outputs) /\ Range(l1) = Range(s.list) \ {o} /\ Len(l1) <= Len(s.list)
        BY <1>1, RemoveList
      <4> QED BY <1>1, <4>1, RangeOf DEF On, List
    <3> HIDE DEF l1
    <3>9. t.list = RemoveFirst(l1, o)
      BY <3>2, <3>7 DEF l1
    <3>10. List(t.list, Outputs) /\ Range(t.list) = Range(l1) \ {o} /\ Len(t.list) <= Len(l1)
      BY <3>8, <3>9, RemoveList
    <3>11. Len(t.list) \in Int
      BY <3>10, RangeOf DEF List
    <3>12. List(t.list, Outputs) /\ On(t) = On(s) \ {o} /\ Len(t.list) <= Crtcs
      BY <1>1, <3>8, <3>10, <3>11 DEF On
    <3> QED BY <1>13, <2>4, <3>3, <3>5, <3>6, <3>12 DEF t, left, forget, With, Forget
  <2> QED BY <2>3, <2>4
<1> QED BY <1>12, <1>13

-----------------------------------------------------------------------------
(* What the operations keep.                                               *)

\* h is on no output; n has one that is not enabled.
Free(s, h) == \A p \in Outputs : s.out[p] # NULL => h \notin HeadsOf(s, p)
Loose(s, n) == s.wet[n] \in Outputs /\ s.wet[n] \notin On(s)

\* Heads on enabled outputs, but for those in H, stay there.
Keeps(s, t, H) ==
    \A p \in On(s) : \A g \in HeadsOf(s, p) \ H : p \in On(t) /\ g \in HeadsOf(t, p)

\* The parts of the invariant for one output.
LEMMA GoodOutput ==
    ASSUME NEW s, NEW v, Good(s, v), NEW o \in Outputs
    PROVE  /\ Typed(s) /\ Owned(s) /\ Rec(s) /\ On(s) \subseteq Outputs
           /\ s.out[o] # NULL =>
                /\ s.out[o] \in WestonOutput /\ List(s.out[o].heads, Heads)
                /\ \A h \in HeadsOf(s, o) :
                    /\ h \in Heads /\ s.wet[LayoutputOf(h)] = o /\ ~Off(h)
                    /\ h \notin s.tracked => s.out[o].deferred = "destroy" \/ Shared(h)
           /\ SoundOutput(s, o, v)
<1>1. /\ Typed(s) /\ Owned(s) /\ Rec(s) /\ Lit(s) /\ Explained(s, v) /\ Cloned(s) /\ Flips(s)
  BY DEF Good
<1>2. On(s) \subseteq Outputs
  BY <1>1, RangeOf DEF Typed, List, On
<1>3. s.out[o] # NULL => s.out[o] \in WestonOutput /\ List(s.out[o].heads, Heads)
                         /\ HeadsOf(s, o) \subseteq Heads
  BY <1>1, OutputTypes DEF Owned, List
<1>4. SoundOutput(s, o, v)
  <2>1. o \in On(s) \/ (\E n \in Names : s.wet[n] = o) => s.out[o] # NULL
    BY <1>1 DEF Owned
  <2>2. \A m, n \in Names : s.wet[m] = o /\ s.wet[n] = o => m = n
    BY <1>1 DEF Owned
  <2>3. \A n \in Names : s.wet[n] = o =>
          /\ o \notin On(s) => \E h \in v : LayoutputOf(h) = n /\ Shared(h)
          /\ s.out[o].deferred # "no" => \E h \in v : LayoutputOf(h) = n
          /\ s.out[o].deferred = "disable" =>
              \E h \in v : LayoutputOf(h) = n /\ Shared(h)
    BY <1>1 DEF Explained
  <2> QED BY <1>1, <2>1, <2>2, <2>3 DEF SoundOutput, Owned, Lit, Cloned, Flips
<1> QED BY <1>1, <1>2, <1>3, <1>4 DEF SoundOutput

\* A weston_output with other heads is one.
LEMMA OutputUpdate ==
    ASSUME NEW s, s.out \in [Outputs -> WestonOutput \cup {NULL}], NEW o \in Outputs,
           NEW hs \in Seq(Heads), NEW d \in {"no", "disable", "destroy"}
    PROVE  LET w == WithHeads(hs, d)
               g == With(s, o, w)
           IN /\ g \in [Outputs -> WestonOutput \cup {NULL}] /\ g[o] = w /\ w # NULL
              /\ w.heads = hs /\ w.deferred = d
              /\ \A p \in Outputs \ {o} : g[p] = s.out[p]
<1>1. WithHeads(hs, d) \in WestonOutput
  BY DEF WestonOutput, WithHeads
<1>2. WithHeads(hs, d).heads = hs /\ WithHeads(hs, d).deferred = d
  BY DEF WithHeads
<1> QED BY <1>1, <1>2, NullAssumption DEF With

\* Disabling a head affects no other, and makes none enabled or attached.
LEMMA DisablingKeeps ==
    ASSUME config \in Configs, NEW s, NEW v, Good(s, v), NEW h \in Heads, Enabled(s, h)
    PROVE  LET t == HeadDisabled(s, h) IN
           /\ Good(t, v) /\ Aside(s, t) /\ Keeps(s, t, {h}) /\ ~Enabled(t, h)
           /\ \A g \in Heads : /\ Enabled(t, g) => Enabled(s, g)
                               /\ Free(s, g) => Free(t, g)
           /\ \A n \in Names : Loose(s, n) => Loose(t, n)
<1> DEFINE t == HeadDisabled(s, h)
<1>1. Typed(s) /\ Owned(s)
  BY DEF Good
<1>2. PICK o \in On(s) : h \in HeadsOf(s, o)
  BY <1>1, EnabledIs
<1>3. o \in Outputs /\ s.out[o] # NULL /\ OutputOf(s, h) = o
  <2>1. o \in Outputs
    BY <1>1, RangeOf DEF Typed, List, On
  <2>2. s.out[o] # NULL
    BY <1>1 DEF Owned
  <2> QED BY <1>1, <1>2, <2>1, <2>2, OutputOfIs
<1> DEFINE left == RemoveFirst(s.out[o].heads, h)
           forget == Forget(s, o)
<1>4. /\ Aside(s, t) /\ t.tracked = s.tracked \ {h}
      /\ left # <<>> =>
            /\ t.list = s.list /\ t.wet = s.wet
            /\ t.out = With(s, o, WithHeads(left, s.out[o].deferred))
      /\ left = <<>> /\ o \in s.flip =>
            /\ t.list = s.list /\ t.wet = forget
            /\ t.out = With(s, o, WithHeads(left, "destroy"))
      /\ left = <<>> /\ o \notin s.flip =>
            /\ List(t.list, Outputs) /\ Len(t.list) <= Crtcs
            /\ On(t) = On(s) \ {o} /\ t.wet = forget
            /\ t.out = With(s, o, NULL)
  BY <1>2, <1>3, HeadDisabledIs
<1> HIDE DEF t
<1>5. /\ List(s.out[o].heads, Heads) /\ SoundOutput(s, o, v) /\ On(s) \subseteq Outputs
      /\ s.out[o].deferred \in {"no", "disable", "destroy"}
      /\ \A g \in HeadsOf(s, o) : g \in Heads /\ s.wet[LayoutputOf(g)] = o
  BY <1>1, <1>3, GoodOutput, OutputTypes, ZenonT(30)
<1>6. List(left, Heads) /\ Range(left) = HeadsOf(s, o) \ {h} /\ left \in Seq(Heads)
      /\ (left = <<>> <=> Range(left) = {})
  BY <1>5, RemoveList, RangeOf DEF List, HeadsOf
<1> HIDE DEF left
<1>7. /\ s.out \in [Outputs -> WestonOutput \cup {NULL}] /\ s.tracked \subseteq Heads
      /\ s.wet \in [Names -> Outputs \cup {None, Left}]
      /\ List(s.list, Outputs) /\ Len(s.list) <= Crtcs
  BY <1>1 DEF Typed
<1>8. \A p \in Outputs \ {o} : s.out[p] # NULL => h \notin HeadsOf(s, p)
  BY <1>1, <1>3, OutputOfIs
<1>9. /\ forget \in [Names -> Outputs \cup {None, Left}]
      /\ \A n \in Names : /\ forget[n] # s.wet[n] => s.wet[n] = o /\ forget[n] \notin Outputs
                          /\ forget[n] # o
                          /\ s.wet[n] # o => forget[n] = s.wet[n]
  BY <1>3, <1>7, Ids DEF Forget
<1> HIDE DEF forget
<1>10. /\ Rec(t) /\ t.los = s.los /\ t.flip = s.flip /\ t.tracked \subseteq Heads
       /\ \A p \in Outputs \ {o} : s.out[p] # NULL =>
            \A g \in HeadsOf(s, p) \cap s.tracked : g \in t.tracked
  BY <1>4, <1>7, <1>8 DEF Aside
\* what all three cases have in common
<1>11. ASSUME Differ(s, t, o), SoundOutput(t, o, v),
              t.out[o] # NULL => HeadsOf(t, o) = HeadsOf(s, o) \ {h},
              o \in On(t) \/ left = <<>>, left # <<>> => t.out[o] # NULL
       PROVE  /\ Good(t, v) /\ Aside(s, t) /\ Keeps(s, t, {h}) /\ ~Enabled(t, h)
              /\ \A g \in Heads : /\ Enabled(t, g) => Enabled(s, g)
                                  /\ Free(s, g) => Free(t, g)
  <2>1. Good(t, v)
    BY <1>3, <1>11, OneOutput
  <2>2. Typed(t) /\ Owned(t)
    BY <2>1 DEF Good
  <2>3. \A p \in Outputs \ {o} : /\ t.out[p] = s.out[p] /\ HeadsOf(t, p) = HeadsOf(s, p)
                                 /\ (p \in On(t) <=> p \in On(s))
    BY <1>11 DEF Differ, HeadsOf
  <2>4. Keeps(s, t, {h})
    BY <1>5, <1>6, <1>11, <2>3 DEF Keeps
  <2>5. \A g \in Heads : Enabled(t, g) => Enabled(s, g)
    <3> SUFFICES ASSUME NEW g \in Heads, Enabled(t, g) PROVE Enabled(s, g)
      OBVIOUS
    <3>1. PICK p \in On(t) : g \in HeadsOf(t, p)
      BY <2>2, EnabledIs
    <3>2. p \in Outputs /\ t.out[p] # NULL
      BY <2>1, <2>2, <3>1, GoodOutput, RangeOf DEF Owned, Typed, List, On
    <3>3. p \in On(s) /\ g \in HeadsOf(s, p)
      BY <1>2, <1>11, <2>3, <3>1, <3>2
    <3> QED BY <1>1, <3>3, EnabledIs
  <2>6. ~Enabled(t, h)
    <3>1. ASSUME NEW p \in On(t), h \in HeadsOf(t, p) PROVE FALSE
      <4>1. p \in Outputs /\ t.out[p] # NULL
        BY <2>2, <3>1, RangeOf DEF Owned, Typed, List, On
      <4>2. CASE p = o
        BY <1>11, <3>1, <4>1, <4>2
      <4>3. CASE p # o
        BY <1>8, <2>3, <3>1, <4>1, <4>3
      <4> QED BY <4>2, <4>3
    <3> QED BY <2>2, <3>1, EnabledIs
  <2>7. \A g \in Heads : Free(s, g) => Free(t, g)
    BY <1>3, <1>11, <2>3 DEF Free
  <2> QED BY <1>4, <2>1, <2>4, <2>5, <2>6, <2>7
<1>12. CASE left # <<>>
  <2> DEFINE w == WithHeads(left, s.out[o].deferred)
  <2>1. t.list = s.list /\ t.wet = s.wet /\ t.out = With(s, o, w)
    BY <1>4, <1>12
  <2>2. t.out \in [Outputs -> WestonOutput \cup {NULL}] /\ t.out[o] = w /\ w # NULL
        /\ \A p \in Outputs \ {o} : t.out[p] = s.out[p]
    <3>1. s.out \in [Outputs -> WestonOutput \cup {NULL}] /\ o \in Outputs
          /\ left \in Seq(Heads) /\ s.out[o].deferred \in {"no", "disable", "destroy"}
      BY <1>3, <1>5, <1>6, <1>7
    <3> HIDE DEF w
    <3>2. /\ With(s, o, w) \in [Outputs -> WestonOutput \cup {NULL}]
          /\ With(s, o, w)[o] = w /\ w # NULL
          /\ \A p \in Outputs \ {o} : With(s, o, w)[p] = s.out[p]
      BY <3>1, OutputUpdate DEF w
    <3> QED BY <2>1, <3>2
  <2>3. HeadsOf(t, o) = HeadsOf(s, o) \ {h} /\ t.out[o].heads = left
        /\ t.out[o].deferred = s.out[o].deferred /\ t.out[o] # NULL
    BY <1>6, <2>2 DEF HeadsOf, WithHeads
  <2> HIDE DEF w
  <2>4. On(t) = On(s)
    BY <2>1 DEF On
  <2>5. Differ(s, t, o)
    BY <1>7, <1>10, <2>1, <2>2, <2>4 DEF Differ
  <2>6. SoundOutput(t, o, v)
    <3>1. \A g \in HeadsOf(t, o) :
            /\ t.wet[LayoutputOf(g)] = o /\ ~Off(g)
            /\ g \notin t.tracked => t.out[o].deferred = "destroy" \/ Shared(g)
      BY <1>3, <1>4, <1>5, <2>1, <2>3 DEF SoundOutput
    <3>2. t.out[o].deferred # "no" => o \in t.flip
      BY <1>3, <1>5, <1>10, <2>3 DEF SoundOutput
    <3>3. IsInjective(t.out[o].heads) /\ t.out[o].heads # <<>>
      BY <1>6, <1>12, <2>3 DEF List
    <3>4. /\ \A m, n \in Names : t.wet[m] = o /\ t.wet[n] = o => m = n
          /\ \A n \in Names : t.wet[n] = o =>
              /\ o \notin On(t) => \E g \in v : LayoutputOf(g) = n /\ Shared(g)
              /\ t.out[o].deferred # "no" => \E g \in v : LayoutputOf(g) = n
              /\ t.out[o].deferred = "disable" =>
                  \E g \in v : LayoutputOf(g) = n /\ Shared(g)
      BY <1>5, <2>1, <2>3, <2>4 DEF SoundOutput
    <3> QED BY <2>3, <3>1, <3>2, <3>3, <3>4 DEF SoundOutput
  <2>7. \A n \in Names : Loose(s, n) => Loose(t, n)
    BY <2>1, <2>4 DEF Loose
  <2> QED BY <1>2, <1>11, <2>3, <2>4, <2>5, <2>6, <2>7 DEF t
<1>13. CASE left = <<>> /\ o \in s.flip
  <2> DEFINE w == WithHeads(left, "destroy")
  <2>1. t.list = s.list /\ t.wet = forget /\ t.out = With(s, o, w)
    BY <1>4, <1>13
  <2>2. t.out \in [Outputs -> WestonOutput \cup {NULL}] /\ t.out[o] = w /\ w # NULL
        /\ \A p \in Outputs \ {o} : t.out[p] = s.out[p]
    <3>1. s.out \in [Outputs -> WestonOutput \cup {NULL}] /\ o \in Outputs
          /\ left \in Seq(Heads)
      BY <1>3, <1>6, <1>7
    <3> PICK d \in {"no", "disable", "destroy"} : d = "destroy"
      OBVIOUS
    <3> HIDE DEF w
    <3>2. /\ With(s, o, w) \in [Outputs -> WestonOutput \cup {NULL}]
          /\ With(s, o, w)[o] = w /\ w # NULL
          /\ \A p \in Outputs \ {o} : With(s, o, w)[p] = s.out[p]
      BY <3>1, OutputUpdate, w = WithHeads(left, d) DEF w
    <3> QED BY <2>1, <3>2
  <2>3. HeadsOf(t, o) = HeadsOf(s, o) \ {h} /\ HeadsOf(t, o) = {} /\ t.out[o].heads = left
        /\ t.out[o].deferred = "destroy" /\ t.out[o] # NULL
    BY <1>6, <1>13, <2>2 DEF HeadsOf, WithHeads
  <2> HIDE DEF w
  <2>4. On(t) = On(s)
    BY <2>1 DEF On
  <2>5. Differ(s, t, o)
    BY <1>7, <1>9, <1>10, <2>1, <2>2, <2>4 DEF Differ
  <2>6. \A n \in Names : t.wet[n] # o
    BY <1>9, <2>1
  <2>7. IsInjective(t.out[o].heads) /\ o \in t.flip
    BY <1>6, <1>10, <1>13, <2>3 DEF List
  <2>8. SoundOutput(t, o, v)
    BY <2>3, <2>6, <2>7 DEF SoundOutput
  <2>9. \A n \in Names : Loose(s, n) => Loose(t, n)
    BY <1>2, <1>9, <2>1, <2>4 DEF Loose
  <2> QED BY <1>2, <1>11, <1>13, <2>3, <2>4, <2>5, <2>8, <2>9 DEF t
<1>14. CASE left = <<>> /\ o \notin s.flip
  <2>1. /\ List(t.list, Outputs) /\ Len(t.list) <= Crtcs
        /\ On(t) = On(s) \ {o} /\ t.wet = forget
        /\ t.out = With(s, o, NULL)
    BY <1>4, <1>14
  <2>2. t.out \in [Outputs -> WestonOutput \cup {NULL}] /\ t.out[o] = NULL
        /\ \A p \in Outputs \ {o} : t.out[p] = s.out[p]
    BY <1>3, <1>7, <2>1 DEF With
  <2>3. Differ(s, t, o)
    BY <1>7, <1>9, <1>10, <2>1, <2>2 DEF Differ
  <2>4. \A n \in Names : t.wet[n] # o
    BY <1>9, <2>1
  <2>5. SoundOutput(t, o, v)
    BY <2>1, <2>2, <2>4 DEF SoundOutput
  <2>6. \A n \in Names : Loose(s, n) => Loose(t, n)
    BY <1>2, <1>9, <2>1 DEF Loose
  <2> QED BY <1>11, <1>14, <2>2, <2>3, <2>5, <2>6 DEF t
<1> QED BY <1>12, <1>13, <1>14

-----------------------------------------------------------------------------
(* Where outputs are, and which of them have trackers and flips.            *)

Geometry == [x : Int, y : Int, w : Nat, h : Nat]

\* Every output there is has a place.
Sited(s) ==
    /\ Rec(s) /\ List(s.list, Outputs)
    /\ s.out \in [Outputs -> WestonOutput \cup {NULL}]
    /\ s.place \in [Outputs -> Geometry \cup {NULL}]
    /\ \A o \in On(s) : s.out[o] # NULL
    /\ \A o \in Outputs : s.out[o] # NULL => s.place[o] \in Geometry

\* weston_compositor_reflow_outputs: what stood to the right moves to the left.
LEMMA RemoveOutputSites ==
    ASSUME NEW s, Sited(s), NEW o \in Outputs
    PROVE  Sited(RemoveOutput(s, o))
<1> DEFINE t == RemoveOutput(s, o)
           i == IF o \in Range(s.list) THEN CHOOSE k \in DOMAIN s.list : s.list[k] = o
                ELSE Len(s.list)
           after == {s.list[k] : k \in i + 1 .. Len(s.list)}
           at == [p \in Outputs |-> IF p \in after
                    THEN [s.place[p] EXCEPT !.x = @ - s.place[o].w] ELSE s.place[p]]
<1>1. /\ Rec(s) /\ List(s.list, Outputs) /\ On(s) \subseteq Outputs
      /\ Len(s.list) \in Nat /\ DOMAIN s.list = 1..Len(s.list)
      /\ On(s) = {s.list[k] : k \in 1..Len(s.list)}
  BY RangeOf DEF Sited, List, On
<1>2. t = [s EXCEPT !.list = RemoveFirst(@, o), !.place = at]
  BY DEF RemoveOutput
<1>3. ASSUME NEW p \in after PROVE p \in On(s) /\ o \in On(s)
  <2>1. PICK k \in i + 1 .. Len(s.list) : p = s.list[k]
    OBVIOUS
  <2>2. CASE o \in Range(s.list)
    <3>1. i \in 1..Len(s.list)
      BY <1>1, <2>2 DEF Range
    <3> HIDE DEF i
    <3>2. k \in 1..Len(s.list)
      BY <1>1, <2>1, <3>1
    <3> QED BY <1>1, <2>1, <2>2, <3>2 DEF On
  <2>3. CASE o \notin Range(s.list)
    BY <1>1, <2>1, <2>3
  <2> QED BY <2>2, <2>3
<1> HIDE DEF after
<1>4. ASSUME NEW p \in after PROVE at[p] \in Geometry
  <2>1. p \in Outputs /\ s.place[p] \in Geometry /\ s.place[o] \in Geometry
    BY <1>1, <1>3, <1>4 DEF Sited
  <2>2. at[p] = [s.place[p] EXCEPT !.x = @ - s.place[o].w]
    BY <1>4, <2>1
  <2>3. s.place[p].x - s.place[o].w \in Int
    BY <2>1 DEF Geometry
  <2> HIDE DEF at
  <2> QED BY <2>1, <2>2, <2>3 DEF Geometry
<1>5. \A p \in Outputs \ after : at[p] = s.place[p]
  OBVIOUS
<1>6. at \in [Outputs -> Geometry \cup {NULL}]
  <2>1. \A p \in Outputs : at[p] \in Geometry \cup {NULL}
    BY <1>4, <1>5 DEF Sited
  <2>2. at = [p \in Outputs |-> at[p]]
    OBVIOUS
  <2> HIDE DEF at
  <2> QED BY <2>1, <2>2
<1> HIDE DEF at
<1>7. /\ Rec(t) /\ t.list = RemoveFirst(s.list, o) /\ t.out = s.out /\ t.place = at
  BY <1>1, <1>2 DEF Rec
<1> HIDE DEF t
<1>8. List(t.list, Outputs) /\ On(t) \subseteq On(s)
  BY <1>1, <1>7, RemoveList DEF On
<1>9. \A p \in Outputs : s.out[p] # NULL => at[p] \in Geometry
  BY <1>4, <1>5 DEF Sited
<1> QED BY <1>6, <1>7, <1>8, <1>9 DEF Sited, t

\* weston_output_release
LEMMA ReleasedSites ==
    ASSUME NEW s, Sited(s), NEW o \in Outputs
    PROVE  Sited(Released(s, o))
<1> DEFINE r == RemoveOutput(s, o)
           t == Released(s, o)
<1>1. Rec(s) /\ Sited(r) /\ r.list = RemoveFirst(s.list, o) /\ r.out = s.out
  BY RemoveOutputSites, RemoveOutputIs DEF Sited
<1>2. t = [r EXCEPT !.out[o] = NULL, !.place[o] = NULL,
                    !.wet = [n \in Names |-> IF @[n] = o THEN Left ELSE @[n]]]
  BY DEF Released
<1> HIDE DEF r
<1>3. PICK w : w = [n \in Names |-> IF r.wet[n] = o THEN Left ELSE r.wet[n]]
  OBVIOUS
<1>4. PICK u : u = [r.out EXCEPT ![o] = NULL]
  OBVIOUS
<1>5. PICK p : p = [r.place EXCEPT ![o] = NULL]
  OBVIOUS
<1>6. t = [r EXCEPT !.out = u, !.place = p, !.wet = w]
  BY <1>1, <1>2, <1>3, <1>4, <1>5 DEF Sited, Rec
<1> HIDE DEF t
<1>7. Rec(t) /\ t.list = r.list /\ t.out = u /\ t.place = p
  BY <1>1, <1>6 DEF Sited, Rec
<1>8. /\ u \in [Outputs -> WestonOutput \cup {NULL}] /\ u[o] = NULL
      /\ \A q \in Outputs \ {o} : u[q] = r.out[q]
  BY <1>1, <1>4 DEF Sited
<1>9. /\ p \in [Outputs -> Geometry \cup {NULL}]
      /\ \A q \in Outputs \ {o} : p[q] = r.place[q]
  BY <1>1, <1>5 DEF Sited
<1>10. o \notin On(t) /\ On(t) = On(r) /\ On(r) \subseteq Outputs
  <2>1. On(r) = On(s) \ {o}
    BY <1>1, RemoveList DEF Sited, On
  <2> QED BY <1>1, <1>7, <2>1, RangeOf DEF Sited, On, List
<1> QED BY <1>1, <1>7, <1>8, <1>9, <1>10 DEF Sited, t

\* A change of an output that leaves it an output, and of no list or place.
LEMMA ChangeSites ==
    ASSUME NEW s, Sited(s), NEW t, Rec(t), t.list = s.list, t.place = s.place,
           t.out \in [Outputs -> WestonOutput \cup {NULL}],
           \A o \in Outputs : t.out[o] # NULL <=> s.out[o] # NULL
    PROVE  Sited(t)
<1>1. On(t) = On(s) /\ On(s) \subseteq Outputs
  BY RangeOf DEF Sited, On, List
<1> QED BY <1>1 DEF Sited

\* drm_output_destroy
LEMMA DestroyedSites ==
    ASSUME NEW s, Sited(s), NEW o \in Outputs, s.out[o] # NULL
    PROVE  Sited(Destroyed(s, o))
<1> DEFINE t == Destroyed(s, o)
<1>1. CASE o \notin s.flip
  BY <1>1, ReleasedSites DEF Destroyed
<1>2. CASE o \in s.flip
  <2>1. PICK u : u = [s.out EXCEPT ![o].deferred = "destroy"]
    OBVIOUS
  <2>2. t = [s EXCEPT !.out = u]
    BY <1>2, <2>1 DEF Destroyed
  <2> HIDE DEF t
  <2>3. Rec(t) /\ t.list = s.list /\ t.place = s.place /\ t.out = u
    BY <2>2 DEF Sited, Rec
  <2>4. s.out[o] \in WestonOutput
    BY DEF Sited
  <2>5. u[o] \in WestonOutput /\ \A p \in Outputs \ {o} : u[p] = s.out[p]
    BY <2>1, <2>4 DEF Sited, WestonOutput
  <2>6. u \in [Outputs -> WestonOutput \cup {NULL}]
    BY <2>1, <2>5 DEF Sited
  <2> QED BY <2>3, <2>5, <2>6, NullAssumption, ChangeSites DEF t
<1> QED BY <1>1, <1>2

\* weston_output_disable
LEMMA DisabledSites ==
    ASSUME NEW s, Sited(s), NEW o \in Outputs, s.out[o] # NULL
    PROVE  Sited(Disabled(s, o))
<1> DEFINE t == Disabled(s, o)
<1>1. CASE o \notin s.flip
  BY <1>1, RemoveOutputSites DEF Disabled
<1>2. CASE o \in s.flip
  <2>1. PICK u : u = [s.out EXCEPT ![o].deferred = IF @ = "no" THEN "disable" ELSE @]
    OBVIOUS
  <2>2. t = [s EXCEPT !.out = u]
    BY <1>2, <2>1 DEF Disabled
  <2> HIDE DEF t
  <2>3. Rec(t) /\ t.list = s.list /\ t.place = s.place /\ t.out = u
    BY <2>2 DEF Sited, Rec
  <2>4. s.out[o] \in WestonOutput
    BY DEF Sited
  <2>5. u[o] \in WestonOutput /\ \A p \in Outputs \ {o} : u[p] = s.out[p]
    BY <2>1, <2>4 DEF Sited, WestonOutput
  <2>6. u \in [Outputs -> WestonOutput \cup {NULL}]
    BY <2>1, <2>5 DEF Sited
  <2> QED BY <2>3, <2>5, <2>6, NullAssumption, ChangeSites DEF t
<1> QED BY <1>1, <1>2

\* weston_head_detach
LEMMA DetachedSites ==
    ASSUME NEW s, Sited(s), NEW h \in Heads,
           OutputOf(s, h) # NULL => /\ OutputOf(s, h) \in Outputs
                                    /\ s.out[OutputOf(s, h)] # NULL
                                    /\ List(s.out[OutputOf(s, h)].heads, Heads)
    PROVE  /\ Sited(Detached(s, h))
           /\ \A p \in Outputs : Detached(s, h).out[p] # NULL <=> s.out[p] # NULL
<1> DEFINE o == OutputOf(s, h)
           r == [s EXCEPT !.out[o].heads = RemoveFirst(@, h)]
           t == Detached(s, h)
<1>1. CASE o = NULL
  BY <1>1 DEF Detached
<1>2. CASE o # NULL
  <2>1. PICK u : u = [s.out EXCEPT ![o].heads = RemoveFirst(@, h)]
    OBVIOUS
  <2>2. r = [s EXCEPT !.out = u]
    BY <2>1
  <2>3. t = IF o \in Range(s.list) /\ r.out[o].heads = <<>> THEN Disabled(r, o) ELSE r
    BY <1>2 DEF Detached
  <2> HIDE DEF r, o, t
  <2>4. Rec(r) /\ r.list = s.list /\ r.place = s.place /\ r.out = u
    BY <2>2 DEF Sited, Rec
  <2>5. o \in Outputs /\ s.out[o] # NULL /\ s.out[o] \in WestonOutput
    BY <1>2 DEF Sited, o
  <2>6. RemoveFirst(s.out[o].heads, h) \in Seq(Heads)
    <3>1. List(s.out[o].heads, Heads)
      BY <1>2 DEF o
    <3> QED BY <3>1, RemoveList DEF List
  <2>7. u[o] \in WestonOutput /\ \A p \in Outputs \ {o} : u[p] = s.out[p]
    BY <2>1, <2>5, <2>6 DEF Sited, WestonOutput
  <2>8. u \in [Outputs -> WestonOutput \cup {NULL}]
    BY <2>1, <2>7 DEF Sited
  <2>9. Sited(r) /\ r.out[o] # NULL /\ \A p \in Outputs : r.out[p] # NULL <=> s.out[p] # NULL
    BY <2>4, <2>5, <2>7, <2>8, NullAssumption, ChangeSites
  <2>10. CASE t = r
    BY <2>9, <2>10 DEF t
  <2>11. CASE t = Disabled(r, o)
    <3>1. Sited(t)
      BY <2>5, <2>9, <2>11, DisabledSites
    <3>2. t.out = r.out \/ t.out = [r.out EXCEPT ![o].deferred = IF @ = "no" THEN "disable" ELSE @]
      BY <2>4, <2>11, DisabledIs
    <3>3. \A p \in Outputs : t.out[p] # NULL <=> r.out[p] # NULL
      <4>1. r.out[o] \in WestonOutput /\ r.out \in [Outputs -> WestonOutput \cup {NULL}]
        BY <2>4, <2>7, <2>8
      <4>2. [r.out[o] EXCEPT !.deferred = IF @ = "no" THEN "disable" ELSE @] \in WestonOutput
        BY <4>1 DEF WestonOutput
      <4> QED BY <2>5, <2>9, <3>2, <4>1, <4>2, NullAssumption
    <3> QED BY <2>9, <3>1, <3>3 DEF t
  <2> QED BY <2>3, <2>10, <2>11
<1> QED BY <1>1, <1>2

\* What is of no account for Sited.
LEMMA AsideSites ==
    ASSUME NEW s, Sited(s), NEW t, Rec(t), t.list = s.list, t.place = s.place, t.out = s.out
    PROVE  Sited(t)
<1>1. t.out \in [Outputs -> WestonOutput \cup {NULL}]
  BY DEF Sited
<1> QED BY <1>1, ChangeSites

\* drm_head_disable
LEMMA HeadDisabledSites ==
    ASSUME NEW s, NEW v, Good(s, v), Sited(s), NEW h \in Heads, Enabled(s, h)
    PROVE  Sited(HeadDisabled(s, h))
<1> DEFINE o == OutputOf(s, h)
           r == [s EXCEPT !.tracked = @ \ {h}]
           t == Detached(r, h)
           forget == [n \in Names |-> IF s.wet[n] = o THEN None ELSE s.wet[n]]
           w == [t EXCEPT !.wet = forget]
           a == [s EXCEPT !.aborted = "disabling"]
<1>1. /\ Typed(s) /\ Owned(s) /\ Rec(s) /\ o # NULL /\ o \in Outputs /\ s.out[o] # NULL
      /\ List(s.out[o].heads, Heads)
  <2>1. Typed(s) /\ Owned(s) /\ Rec(s)
    BY DEF Good
  <2>2. o # NULL /\ o \in Outputs /\ s.out[o] # NULL
    BY <2>1, EnabledIs, OutputOfIs
  <2> QED BY <2>1, <2>2, GoodOutput
<1>2. HeadDisabled(s, h) = IF o \notin Range(s.wet) THEN a
                           ELSE IF t.out[o].heads # <<>> THEN t ELSE Destroyed(w, o)
  BY DEF HeadDisabled
<1>3. Rec(r) /\ r.list = s.list /\ r.place = s.place /\ r.out = s.out
  BY <1>1 DEF Rec
<1>4. Sited(r) /\ OutputOf(r, h) = o
  <2> HIDE DEF r
  <2>1. Sited(r)
    BY <1>3, AsideSites
  <2>2. OutputOf(r, h) = OutputOf(s, h)
    BY <1>3 DEF OutputOf
  <2> QED BY <2>1, <2>2
<1>5. Sited(a)
  <2>1. Rec(a) /\ a.list = s.list /\ a.place = s.place /\ a.out = s.out
    BY <1>1 DEF Rec
  <2> QED BY <2>1, AsideSites
<1> HIDE DEF r, a
<1>6. Sited(t) /\ t.out[o] # NULL
  BY <1>1, <1>3, <1>4, DetachedSites
<1> HIDE DEF t, forget
<1>7. Rec(w) /\ w.list = t.list /\ w.place = t.place /\ w.out = t.out
  BY <1>6 DEF Sited, Rec
<1> HIDE DEF w
<1>8. Sited(w)
  BY <1>6, <1>7, AsideSites
<1>9. Sited(Destroyed(w, o))
  BY <1>1, <1>6, <1>7, <1>8, DestroyedSites
<1> HIDE DEF o
<1> QED BY <1>2, <1>5, <1>6, <1>9

\* A layoutput with an output is in the list of layoutputs.
Listed(s) == \A n \in Names : s.wet[n] \in Outputs => n \in Range(s.los)

\* A head with a tracker is on an enabled output that is not about to go.
Followed(s) ==
    \A h \in s.tracked : \E o \in On(s) :
        h \in HeadsOf(s, o) /\ s.out[o].deferred = "no"

\* Only an enabled output has a flip on its way.
Flying(s) == s.flip \subseteq On(s)

Fits(s) == Sited(s) /\ Listed(s) /\ Followed(s) /\ Flying(s)

\* What takes no output and no tracker away.
LEMMA AsideFits ==
    ASSUME NEW s, Fits(s), NEW t, Sited(t), t.flip = s.flip, On(t) = On(s),
           t.tracked = s.tracked, Range(s.los) \subseteq Range(t.los),
           \A n \in Names : t.wet[n] \in Outputs => s.wet[n] \in Outputs,
           \A o \in On(s) : /\ HeadsOf(s, o) \subseteq HeadsOf(t, o)
                            /\ t.out[o].deferred = s.out[o].deferred
    PROVE  Fits(t)
<1>1. Listed(t)
  BY DEF Fits, Listed
<1>2. Followed(t)
  BY DEF Fits, Followed
<1>3. Flying(t)
  BY DEF Fits, Flying
<1> QED BY <1>1, <1>2, <1>3 DEF Fits

\* drm_head_disable leaves the trackers of other heads, and flips of outputs
\* that stay enabled.
LEMMA DisablingFits ==
    ASSUME config \in Configs, NEW s, NEW v, Good(s, v), Fits(s), NEW h \in Heads,
           Enabled(s, h)
    PROVE  Fits(HeadDisabled(s, h))
<1> DEFINE t == HeadDisabled(s, h)
<1>1. Typed(s) /\ Owned(s) /\ Sited(t)
  BY HeadDisabledSites DEF Good, Fits
<1>2. PICK o \in On(s) : h \in HeadsOf(s, o)
  BY <1>1, EnabledIs
<1>3. o \in Outputs /\ s.out[o] # NULL
  <2>1. o \in Outputs
    BY <1>1, RangeOf DEF Typed, List, On
  <2> QED BY <1>1, <2>1 DEF Owned
<1> DEFINE left == RemoveFirst(s.out[o].heads, h)
<1>4. /\ Aside(s, t) /\ t.tracked = s.tracked \ {h}
      /\ left # <<>> =>
            /\ t.list = s.list /\ t.wet = s.wet
            /\ t.out = With(s, o, WithHeads(left, s.out[o].deferred))
      /\ left = <<>> /\ o \in s.flip =>
            /\ t.list = s.list /\ t.wet = Forget(s, o)
            /\ t.out = With(s, o, WithHeads(left, "destroy"))
      /\ left = <<>> /\ o \notin s.flip =>
            /\ On(t) = On(s) \ {o} /\ t.wet = Forget(s, o)
            /\ t.out = With(s, o, NULL)
  BY <1>2, <1>3, HeadDisabledIs
<1>5. List(left, Heads) /\ Range(left) = HeadsOf(s, o) \ {h} /\ (left = <<>> <=> Range(left) = {})
  <2>1. List(s.out[o].heads, Heads)
    BY <1>3, GoodOutput
  <2>2. List(left, Heads) /\ Range(left) = HeadsOf(s, o) \ {h}
    BY <2>1, RemoveList DEF HeadsOf
  <2> HIDE DEF left
  <2> QED BY <2>2, RangeOf DEF List
<1> HIDE DEF t, left
<1>6. s.out \in [Outputs -> WestonOutput \cup {NULL}] /\ On(s) \subseteq Outputs
  BY <1>1, RangeOf DEF Typed, List, On
<1>7. /\ \A p \in Outputs \ {o} : t.out[p] = s.out[p]
      /\ left # <<>> => /\ t.out[o].heads = left
                        /\ t.out[o].deferred = s.out[o].deferred
  <2>1. \A w : With(s, o, w)[o] = w /\ \A p \in Outputs \ {o} : With(s, o, w)[p] = s.out[p]
    BY <1>3, <1>6 DEF With
  <2>2. \A d : WithHeads(left, d).heads = left /\ WithHeads(left, d).deferred = d
    BY DEF WithHeads
  <2> QED BY <1>4, <2>1, <2>2
<1>8. On(s) \ {o} \subseteq On(t) /\ (left # <<>> \/ o \in s.flip => On(t) = On(s))
  BY <1>4 DEF On
<1>9. Listed(t)
  <2>1. \A n \in Names : t.wet[n] \in Outputs => s.wet[n] \in Outputs
    BY <1>4, Ids DEF Forget
  <2> QED BY <1>4, <2>1 DEF Fits, Listed, Aside
<1>10. Followed(t)
  <2> SUFFICES ASSUME NEW g \in s.tracked \ {h}
               PROVE  \E p \in On(t) : g \in HeadsOf(t, p) /\ t.out[p].deferred = "no"
    BY <1>4 DEF Followed
  <2>1. PICK p \in On(s) : g \in HeadsOf(s, p) /\ s.out[p].deferred = "no"
    BY DEF Fits, Followed
  <2>2. CASE p = o
    <3>1. g \in Range(left) /\ left # <<>>
      BY <1>5, <2>1, <2>2
    <3> QED BY <1>7, <1>8, <2>1, <2>2, <3>1 DEF HeadsOf
  <2>3. CASE p # o
    BY <1>6, <1>7, <1>8, <2>1, <2>3 DEF HeadsOf
  <2> QED BY <2>2, <2>3
<1>11. Flying(t)
  BY <1>4, <1>8 DEF Fits, Flying, Aside
<1> QED BY <1>1, <1>9, <1>10, <1>11 DEF Fits, t

-----------------------------------------------------------------------------
(* The pass over the heads.                                                *)

Wants(h) == h \in connected \/ Forced(h)

\* What is to be added to layoutputs: heads that shall be enabled and are on no
\* output, or on one that is not enabled.
Adding(s) ==
    /\ s.add \in [Names -> Seq(Heads)]
    /\ \A n \in Names :
        /\ IsInjective(s.add[n])
        /\ s.add[n] # <<>> => n \in Range(s.los)
        /\ \A h \in Range(s.add[n]) :
            LayoutputOf(h) = n /\ ~Off(h) /\ Wants(h) /\ (Free(s, h) \/ Loose(s, n))

\* A head that has been visited: what is left to do for it is to be added.
Settled(s, h) ==
    IF Wants(h) THEN Enabled(s, h) \/ Off(h) \/ h \in Range(s.add[LayoutputOf(h)])
    ELSE ~Enabled(s, h)

Unwanted == {h \in Heads : ~Wants(h)}

\* After the first k heads, from r on.
Visiting(r, s, k) ==
    /\ Good(s, vanished) /\ Adding(s)
    /\ s.aborted = "no" /\ s.failed = FALSE
    /\ \A n \in Names : \A h \in Range(s.add[n]) : \E i \in 1..k : h = head_list[i]
    /\ \A i \in 1..k : Settled(s, head_list[i])
    /\ Keeps(r, s, Unwanted)

\* The invariant does not look at add, failed and aborted.
LEMMA AsideGood ==
    ASSUME NEW s, NEW t, NEW v, Good(s, v), Rec(t), t.wet = s.wet, t.out = s.out,
           t.list = s.list, t.tracked = s.tracked, t.flip = s.flip, List(t.los, Names)
    PROVE  /\ Good(t, v) /\ On(t) = On(s)
           /\ \A h \in Heads : /\ Enabled(t, h) <=> Enabled(s, h)
                               /\ Free(t, h) <=> Free(s, h)
           /\ \A n \in Names : Loose(t, n) <=> Loose(s, n)
           /\ \A H : Keeps(s, t, H)
<1>1. /\ Typed(s) /\ Owned(s) /\ Lit(s) /\ Explained(s, v) /\ Cloned(s) /\ Flips(s)
  BY DEF Good
<1>2. On(t) = On(s) /\ \A o : HeadsOf(t, o) = HeadsOf(s, o)
  BY DEF On, HeadsOf
<1>3. Typed(t)
  BY <1>1 DEF Typed
<1>4. Owned(t)
  BY <1>1, <1>2 DEF Owned
<1>5. Lit(t)
  BY <1>1, <1>2 DEF Lit
<1>6. Explained(t, v)
  BY <1>1, <1>2 DEF Explained
<1>7. Cloned(t)
  BY <1>1, <1>2 DEF Cloned
<1>8. Flips(t)
  BY <1>1 DEF Flips
<1>9. \A h \in Heads : Enabled(t, h) <=> Enabled(s, h)
  BY <1>1, <1>2, <1>3, <1>4, EnabledIs
<1> QED BY <1>2, <1>3, <1>4, <1>5, <1>6, <1>7, <1>8, <1>9 DEF Good, Free, Loose, Keeps

\* drm_head_prepare_enable
LEMMA PrepareEnableIs ==
    ASSUME NEW s, Rec(s), NEW h \in Heads, LayoutputOf(h) \in Names, ~Off(h),
           s.add \in [Names -> Seq(Heads)]
    PROVE  LET t == PrepareEnable(s, h)
               n == LayoutputOf(h)
           IN /\ Rec(t) /\ t.wet = s.wet /\ t.out = s.out /\ t.list = s.list
              /\ t.tracked = s.tracked /\ t.flip = s.flip
              /\ t.failed = s.failed /\ t.aborted = s.aborted
              /\ t.place = s.place
              /\ t.los = IF n \in Range(s.los) THEN s.los ELSE Append(s.los, n)
              /\ t.add \in [Names -> Seq(Heads)] /\ t.add[n] = Append(s.add[n], h)
              /\ \A m \in Names \ {n} : t.add[m] = s.add[m]
<1> DEFINE t == PrepareEnable(s, h)
           n == LayoutputOf(h)
<1>1. PICK l : l = IF n \in Range(s.los) THEN s.los ELSE Append(s.los, n)
  OBVIOUS
<1>2. PICK a : a = [s.add EXCEPT ![n] = Append(@, h)]
  OBVIOUS
<1>3. t = [s EXCEPT !.los = l, !.add = a]
  BY <1>1, <1>2 DEF PrepareEnable, Rec
<1> HIDE DEF t
<1>4. /\ Rec(t) /\ t.wet = s.wet /\ t.out = s.out /\ t.list = s.list
      /\ t.tracked = s.tracked /\ t.flip = s.flip
      /\ t.failed = s.failed /\ t.aborted = s.aborted /\ t.los = l /\ t.add = a
      /\ t.place = s.place
  BY <1>3 DEF Rec
<1>5. Append(s.add[n], h) \in Seq(Heads)
  OBVIOUS
<1>6. a \in [Names -> Seq(Heads)] /\ a[n] = Append(s.add[n], h)
      /\ \A m \in Names \ {n} : a[m] = s.add[m]
  BY <1>2, <1>5
<1> QED BY <1>1, <1>4, <1>6 DEF t

\* A head that is not enabled can be added to its layoutput.
LEMMA Addable ==
    ASSUME NEW s, Typed(s), Owned(s), NEW h \in Heads, ~Enabled(s, h)
    PROVE  Free(s, h) \/ Loose(s, LayoutputOf(h))
<1> SUFFICES ASSUME NEW p \in Outputs, s.out[p] # NULL, h \in HeadsOf(s, p)
             PROVE  Loose(s, LayoutputOf(h))
  BY DEF Free
<1>1. p \notin On(s) /\ s.wet[LayoutputOf(h)] = p
  BY EnabledIs, OutputOfIs
<1> QED BY <1>1 DEF Loose

\* What was kept is kept by what keeps it.
LEMMA KeepsTrans ==
    ASSUME NEW r, NEW s, NEW t, NEW H, NEW G, Keeps(r, s, H), Keeps(s, t, G), G \subseteq H
    PROVE  Keeps(r, t, H)
BY DEF Keeps

\* What stays enabled, or is still to be added, stays settled.
LEMMA StaysSettled ==
    ASSUME NEW s, NEW t, NEW g, Settled(s, g), Enabled(s, g) <=> Enabled(t, g),
           Range(s.add[LayoutputOf(g)]) \subseteq Range(t.add[LayoutputOf(g)])
    PROVE  Settled(t, g)
BY DEF Settled

\* drm_heads_changed, one head: it is settled, those before it stay so.
LEMMA VisitKeeps ==
    ASSUME config \in Configs, List(head_list, Heads), NEW k \in Nat, k + 1 <= Len(head_list),
           NEW r, NEW s, Visiting(r, s, k)
    PROVE  Visiting(r, Visit(s, head_list[k + 1]), k + 1)
<1> DEFINE h == head_list[k + 1]
           t == Visit(s, h)
           n == LayoutputOf(h)
<1>1. /\ Good(s, vanished) /\ Adding(s) /\ s.aborted = "no" /\ s.failed = FALSE
      /\ \A m \in Names : \A g \in Range(s.add[m]) : \E i \in 1..k : g = head_list[i]
      /\ \A i \in 1..k : Settled(s, head_list[i])
      /\ Keeps(r, s, Unwanted) /\ Typed(s) /\ Owned(s) /\ Rec(s)
  BY DEF Visiting, Good
<1>2. /\ k + 1 \in 1..Len(head_list) /\ \A i \in 1..k + 1 : i \in 1..k \/ i = k + 1
      /\ \A i \in 1..k : i \in 1..Len(head_list) /\ i # k + 1 /\ i \in 1..k + 1
      /\ k + 1 \in 1..k + 1
  <2>1. Len(head_list) \in Nat
    BY LenProperties DEF List
  <2> QED BY <2>1
<1>3. /\ h \in Heads /\ \A i \in 1..k : head_list[i] \in Heads /\ head_list[i] # h
  BY <1>2, LenProperties DEF List, IsInjective
<1>4. n \in Names
  BY <1>3, HeadNames
<1>5. t = IF Wants(h) <=> Enabled(s, h) THEN s
          ELSE IF Wants(h) THEN PrepareEnable(s, h) ELSE HeadDisabled(s, h)
  <2>1. (Wants(h) = Enabled(s, h)) <=> (Wants(h) <=> Enabled(s, h))
    BY DEF Wants, Enabled
  <2> QED BY <1>1, <2>1 DEF Visit, Wants
<1> HIDE DEF t, n, h
<1>6. CASE t = s /\ Settled(s, h)
  BY <1>1, <1>2, <1>6 DEF Visiting, t, h
<1>7. CASE Wants(h) <=> Enabled(s, h)
  <2>1. Settled(s, h)
    BY <1>7 DEF Settled
  <2> QED BY <1>5, <1>6, <1>7, <2>1
<1>8. CASE Wants(h) /\ ~Enabled(s, h) /\ Off(h)
  <2>1. t = s
    BY <1>5, <1>8 DEF PrepareEnable
  <2> QED BY <1>6, <1>8, <2>1 DEF Settled
<1>9. CASE Wants(h) /\ ~Enabled(s, h) /\ ~Off(h)
  <2>1. t = PrepareEnable(s, h)
    BY <1>5, <1>9
  <2>2. s.add \in [Names -> Seq(Heads)]
    BY <1>1 DEF Adding
  <2>3. /\ Rec(t) /\ t.wet = s.wet /\ t.out = s.out /\ t.list = s.list
        /\ t.tracked = s.tracked /\ t.flip = s.flip
        /\ t.failed = s.failed /\ t.aborted = s.aborted
        /\ t.los = IF n \in Range(s.los) THEN s.los ELSE Append(s.los, n)
        /\ t.add \in [Names -> Seq(Heads)] /\ t.add[n] = Append(s.add[n], h)
        /\ \A m \in Names \ {n} : t.add[m] = s.add[m]
    BY <1>1, <1>3, <1>4, <1>9, <2>1, <2>2, PrepareEnableIs DEF n
  <2>4. List(t.los, Names) /\ Range(t.los) = Range(s.los) \cup {n}
    <3>1. List(s.los, Names)
      BY <1>1 DEF Typed
    <3> QED BY <1>4, <2>3, <3>1, AppendList
  <2>5. /\ Good(t, vanished) /\ On(t) = On(s)
        /\ \A g \in Heads : /\ Enabled(t, g) <=> Enabled(s, g)
                            /\ Free(t, g) <=> Free(s, g)
        /\ \A m \in Names : Loose(t, m) <=> Loose(s, m)
        /\ Keeps(s, t, Unwanted)
    BY <1>1, <2>3, <2>4, AsideGood
  <2>6. h \notin Range(s.add[n]) /\ List(s.add[n], Heads)
    BY <1>1, <1>3, <1>4, <2>2 DEF Adding, List
  <2>7. List(t.add[n], Heads) /\ Range(t.add[n]) = Range(s.add[n]) \cup {h}
    BY <1>3, <2>3, <2>6, AppendList
  <2>8. \A m \in Names : Range(s.add[m]) \subseteq Range(t.add[m])
    BY <2>3, <2>7
  <2>9. Free(s, h) \/ Loose(s, n)
    BY <1>1, <1>3, <1>9, Addable DEF n
  <2>10. Adding(t)
    <3> SUFFICES ASSUME NEW m \in Names
                 PROVE  /\ IsInjective(t.add[m])
                        /\ t.add[m] # <<>> => m \in Range(t.los)
                        /\ \A g \in Range(t.add[m]) :
                            /\ LayoutputOf(g) = m /\ ~Off(g) /\ Wants(g)
                            /\ Free(t, g) \/ Loose(t, m)
      BY <2>3 DEF Adding
    <3>1. /\ IsInjective(s.add[m])
          /\ s.add[m] # <<>> => m \in Range(s.los)
          /\ \A g \in Range(s.add[m]) :
                /\ LayoutputOf(g) = m /\ ~Off(g) /\ Wants(g)
                /\ Free(s, g) \/ Loose(s, m)
      BY <1>1 DEF Adding
    <3>2. Range(s.add[m]) \subseteq Heads
      BY <2>2, RangeOf
    <3>3. CASE m = n
      <4>1. \A g \in Range(t.add[m]) :
                /\ LayoutputOf(g) = m /\ ~Off(g) /\ Wants(g)
                /\ Free(s, g) \/ Loose(s, m)
        BY <1>9, <2>7, <2>9, <3>1, <3>3 DEF n
      <4>2. Range(t.add[m]) \subseteq Heads
        BY <1>3, <2>7, <3>2, <3>3
      <4> QED BY <2>4, <2>5, <2>7, <3>3, <4>1, <4>2 DEF List
    <3>4. CASE m # n
      BY <2>3, <2>4, <2>5, <3>1, <3>2, <3>4
    <3> QED BY <3>3, <3>4
  <2>11. \A m \in Names : \A g \in Range(t.add[m]) : \E i \in 1..k + 1 : g = head_list[i]
    <3> SUFFICES ASSUME NEW m \in Names, NEW g \in Range(t.add[m])
                 PROVE  \E i \in 1..k + 1 : g = head_list[i]
      OBVIOUS
    <3>1. g \in Range(s.add[m]) \/ g = h
      BY <2>3, <2>7
    <3> QED BY <1>1, <1>2, <3>1 DEF h
  <2>12. \A i \in 1..k + 1 : Settled(t, head_list[i])
    <3>1. ASSUME NEW i \in 1..k PROVE Settled(t, head_list[i])
      BY <1>1, <1>3, <2>5, <2>8, HeadNames, StaysSettled
    <3>2. Settled(t, h)
      BY <1>9, <2>7 DEF Settled, n
    <3> QED BY <1>2, <3>1, <3>2 DEF h
  <2>13. Keeps(r, t, Unwanted)
    BY <1>1, <2>5, KeepsTrans
  <2> QED BY <1>1, <2>3, <2>5, <2>10, <2>11, <2>12, <2>13 DEF Visiting, t, h
<1>10. CASE ~Wants(h) /\ Enabled(s, h)
  <2>1. t = HeadDisabled(s, h)
    BY <1>5, <1>10
  <2>2. /\ Good(t, vanished) /\ Aside(s, t) /\ Keeps(s, t, {h}) /\ ~Enabled(t, h)
        /\ \A g \in Heads : /\ Enabled(t, g) => Enabled(s, g)
                            /\ Free(s, g) => Free(t, g)
        /\ \A m \in Names : Loose(s, m) => Loose(t, m)
    BY <1>1, <1>3, <1>10, <2>1, DisablingKeeps
  <2>3. t.add = s.add /\ t.los = s.los /\ t.failed = s.failed /\ t.aborted = s.aborted
    BY <2>2 DEF Aside
  <2>4. \A m \in Names : Range(s.add[m]) \subseteq Heads
    BY <1>1, RangeOf DEF Adding
  <2>5. Adding(t)
    BY <1>1, <2>2, <2>3, <2>4 DEF Adding
  <2>6. Typed(t) /\ Owned(t)
    BY <2>2 DEF Good
  <2>7. \A g \in Heads \ {h} : Enabled(s, g) => Enabled(t, g)
    <3> SUFFICES ASSUME NEW g \in Heads \ {h}, Enabled(s, g) PROVE Enabled(t, g)
      OBVIOUS
    <3>1. PICK p \in On(s) : g \in HeadsOf(s, p)
      BY <1>1, EnabledIs
    <3>2. p \in On(t) /\ g \in HeadsOf(t, p)
      BY <2>2, <3>1 DEF Keeps
    <3> QED BY <2>6, <3>2, EnabledIs
  <2>8. \A i \in 1..k + 1 : Settled(t, head_list[i])
    <3>1. ASSUME NEW i \in 1..k PROVE Settled(t, head_list[i])
      BY <1>1, <1>3, <2>2, <2>3, <2>7, StaysSettled
    <3>2. Settled(t, h)
      BY <1>10, <2>2 DEF Settled
    <3> QED BY <1>2, <3>1, <3>2 DEF h
  <2>9. \A m \in Names : \A g \in Range(t.add[m]) : \E i \in 1..k + 1 : g = head_list[i]
    BY <1>1, <1>2, <2>3
  <2>10. Keeps(r, t, Unwanted)
    <3>1. {h} \subseteq Unwanted
      BY <1>3, <1>10 DEF Unwanted
    <3> QED BY <1>1, <2>2, <3>1, KeepsTrans
  <2> QED BY <1>1, <2>2, <2>3, <2>5, <2>8, <2>9, <2>10 DEF Visiting, t, h
<1> QED BY <1>7, <1>8, <1>9, <1>10

\* ... and places, layoutputs, trackers and flips still fit.
LEMMA VisitFits ==
    ASSUME config \in Configs, NEW r, NEW s, NEW k, Visiting(r, s, k), Fits(s), NEW h \in Heads
    PROVE  Fits(Visit(s, h))
<1> DEFINE t == Visit(s, h)
           n == LayoutputOf(h)
<1>1. /\ Good(s, vanished) /\ Adding(s) /\ s.aborted = "no" /\ Typed(s) /\ Rec(s)
      /\ n \in Names
  BY HeadNames DEF Visiting, Good
<1>2. t = IF Wants(h) <=> Enabled(s, h) THEN s
          ELSE IF Wants(h) THEN PrepareEnable(s, h) ELSE HeadDisabled(s, h)
  <2>1. (Wants(h) = Enabled(s, h)) <=> (Wants(h) <=> Enabled(s, h))
    BY DEF Wants, Enabled
  <2> QED BY <1>1, <2>1 DEF Visit, Wants
<1> HIDE DEF t, n
<1>3. CASE t = s
  BY <1>3 DEF t
<1>4. CASE t = PrepareEnable(s, h) /\ ~Off(h)
  <2>1. /\ Rec(t) /\ t.wet = s.wet /\ t.out = s.out /\ t.list = s.list
        /\ t.tracked = s.tracked /\ t.flip = s.flip /\ t.place = s.place
        /\ t.los = IF n \in Range(s.los) THEN s.los ELSE Append(s.los, n)
    BY <1>1, <1>4, PrepareEnableIs DEF n, Adding
  <2>2. Range(s.los) \subseteq Range(t.los)
    <3>1. List(s.los, Names)
      BY <1>1 DEF Typed
    <3> QED BY <1>1, <2>1, <3>1, AppendList
  <2>3. Sited(t) /\ On(t) = On(s) /\ \A o : HeadsOf(t, o) = HeadsOf(s, o)
    BY <2>1, AsideSites DEF Fits, On, HeadsOf
  <2>4. Fits(t)
    BY <2>1, <2>2, <2>3, AsideFits
  <2> QED BY <2>4 DEF t
<1>5. CASE t = PrepareEnable(s, h) /\ Off(h)
  BY <1>5 DEF PrepareEnable, t
<1>6. CASE t = HeadDisabled(s, h) /\ Enabled(s, h)
  BY <1>1, <1>6, DisablingFits DEF t
<1> QED BY <1>2, <1>3, <1>4, <1>5, <1>6

\* The pass over the heads, from a state in which nothing is to be added.
LEMMA VisitedKeeps ==
    ASSUME config \in Configs, List(head_list, Heads), NEW s, Visiting(s, s, 0)
    PROVE  Visiting(s, Visited(s), Len(head_list)) /\ (Fits(s) => Fits(Visited(s)))
<1>1. PICK pass :
        /\ pass[0] = s
        /\ \A i \in 1..Len(head_list) : pass[i] = Visit(pass[i - 1], head_list[i])
        /\ Visited(s) = pass[Len(head_list)]
  BY VisitedIs DEF List
<1> DEFINE N == Len(head_list)
           S == {k \in 0..N : Visiting(s, pass[k], k) /\ (Fits(s) => Fits(pass[k]))}
<1>2. N \in Nat
  BY LenProperties DEF List
<1>3. 0 \in S
  BY <1>1, <1>2
<1>4. ASSUME NEW k \in 0..N, k \in S, k + 1 =< N PROVE k + 1 \in S
  <2>1. k \in Nat /\ k + 1 \in 1..N /\ (k + 1) - 1 = k /\ k + 1 \in 0..N
    BY <1>2, <1>4
  <2>2. pass[k + 1] = Visit(pass[k], head_list[k + 1])
    BY <1>1, <2>1
  <2>3. Visiting(s, pass[k], k) /\ (Fits(s) => Fits(pass[k]))
    BY <1>4
  <2>4. head_list[k + 1] \in Heads
    BY <2>1, LenProperties DEF List
  <2>5. Visiting(s, pass[k + 1], k + 1)
    BY <1>4, <2>1, <2>2, <2>3, VisitKeeps
  <2>6. Fits(s) => Fits(pass[k + 1])
    BY <2>2, <2>3, <2>4, VisitFits
  <2> QED BY <2>1, <2>5, <2>6
<1>5. 0..N \subseteq S
  <2> HIDE DEF S
  <2> QED BY <1>2, <1>3, <1>4, CountUp
<1>6. N \in 0..N
  BY <1>2
<1> QED BY <1>1, <1>5, <1>6

-----------------------------------------------------------------------------
(* The pass over the layoutputs.                                           *)

\* What one layoutput n with heads to add comes to: they are on enabled outputs,
\* or something has failed, and nothing else changes.
Served(s, t, n) ==
    /\ Good(t, vanished) /\ Adding(t) /\ t.los = s.los /\ t.failed \in BOOLEAN
    /\ t.aborted = "no" \/ (t.aborted = "attaching" /\ \E v \in vanished : Shared(v))
    /\ s.failed => t.failed
    /\ \A m \in Names \ {n} : t.add[m] = s.add[m]
    /\ t.aborted = "no" => t.add[n] = <<>>
    /\ t.aborted = "no" /\ ~t.failed => \A h \in Range(s.add[n]) : Enabled(t, h)
    /\ \A h \in Heads : Enabled(t, h) => Enabled(s, h) \/ h \in Range(s.add[n])
    /\ Keeps(s, t, {})

\* What comes behind the first k of a list; nothing, when these are all.
Behind(s, k) == SubSeq(s, k + 1, Len(s))

\* Nothing is left of a list only when all of it was taken.
LEMMA NothingBehind ==
    ASSUME NEW s, Len(s) \in Int, NEW k \in Int, Behind(s, k) = <<>>
    PROVE  k >= Len(s)
<1> DEFINE S == {s[i] : i \in k + 1 .. Len(s)}
           q == SubSeq(s, k + 1, Len(s))
<1>1. \A i \in k + 1 .. Len(s) : s[i] \in S
  OBVIOUS
<1>2. q = <<>>
  BY DEF Behind
<1> HIDE DEF S
<1>3. q \in Seq(S) /\ Len(q) = IF k + 1 <= Len(s) THEN Len(s) - (k + 1) + 1 ELSE 0
  BY <1>1, SubSeqProperties
<1> HIDE DEF q
<1>4. Len(q) = 0
  BY <1>2, <1>3, RangeOf
<1> QED BY <1>3, <1>4

\* drm_process_layoutput, its end: heads left over are a failure.
LEMMA RestIs ==
    ASSUME NEW s, Rec(s), s.add \in [Names -> Seq(Heads)], s.failed \in BOOLEAN,
           NEW n \in Names, NEW rest
    PROVE  LET t == Rest(s, n, rest) IN
           /\ Rec(t) /\ t.wet = s.wet /\ t.out = s.out /\ t.list = s.list
           /\ t.tracked = s.tracked /\ t.flip = s.flip /\ t.los = s.los
           /\ t.aborted = s.aborted /\ t.place = s.place
           /\ t.add \in [Names -> Seq(Heads)] /\ t.add[n] = <<>>
           /\ \A m \in Names \ {n} : t.add[m] = s.add[m]
           /\ t.failed \in BOOLEAN /\ (t.failed <=> s.failed \/ rest # <<>>)
<1> DEFINE t == Rest(s, n, rest)
<1>1. PICK f \in BOOLEAN : f <=> s.failed \/ rest # <<>>
  OBVIOUS
<1>2. PICK a : a = [s.add EXCEPT ![n] = <<>>]
  OBVIOUS
<1>3. t = [s EXCEPT !.add = a, !.failed = f]
  <2>1. f = (s.failed \/ rest # <<>>)
    BY <1>1
  <2>2. t = [s EXCEPT !.add = [s.add EXCEPT ![n] = <<>>],
                      !.failed = (s.failed \/ rest # <<>>)]
    BY DEF Rest, Rec
  <2> QED BY <1>2, <2>1, <2>2
<1> HIDE DEF t
<1>4. /\ Rec(t) /\ t.wet = s.wet /\ t.out = s.out /\ t.list = s.list
      /\ t.tracked = s.tracked /\ t.flip = s.flip /\ t.los = s.los
      /\ t.aborted = s.aborted /\ t.add = a /\ t.failed = f /\ t.place = s.place
  BY <1>3 DEF Rec
<1>5. /\ a \in [Names -> Seq(Heads)] /\ a[n] = <<>>
      /\ \A m \in Names \ {n} : a[m] = s.add[m]
  BY <1>2, EmptySeq
<1> QED BY <1>1, <1>4, <1>5 DEF t

\* Heads of n that were free are now on o, which is enabled.
LEMMA AttachedServes ==
    ASSUME config \in Configs, NEW s, NEW t, NEW n \in Names, NEW o \in Outputs, NEW X,
           Good(s, vanished), Adding(s), s.aborted = "no",
           Differ(s, t, o), SoundOutput(t, o, vanished),
           o \in On(t), o \in On(s) \/ s.out[o] = NULL,
           X \subseteq Range(s.add[n]),
           HeadsOf(t, o) = IF s.out[o] = NULL THEN X ELSE HeadsOf(s, o) \cup X,
           t.aborted = s.aborted, t.failed \in BOOLEAN, s.failed => t.failed,
           ~t.failed => X = Range(s.add[n]),
           t.add \in [Names -> Seq(Heads)], t.add[n] = <<>>,
           \A m \in Names \ {n} : t.add[m] = s.add[m]
    PROVE  Served(s, t, n)
<1>1. Good(t, vanished)
  BY OneOutput
<1>2. Typed(s) /\ Owned(s) /\ Typed(t) /\ Owned(t)
  BY <1>1 DEF Good
<1>3. On(s) \subseteq Outputs /\ On(t) \subseteq Outputs
  BY <1>2, RangeOf DEF Typed, List, On
<1>4. \A p \in Outputs \ {o} : /\ t.out[p] = s.out[p] /\ HeadsOf(t, p) = HeadsOf(s, p)
                               /\ (p \in On(t) <=> p \in On(s))
  BY DEF Differ, HeadsOf
<1>5. t.out[o] # NULL /\ t.los = s.los
  BY <1>2 DEF Owned, Differ
<1>6. \A m \in Names : Range(s.add[m]) \subseteq Heads
                       /\ \A h \in Range(s.add[m]) : LayoutputOf(h) = m
  BY RangeOf DEF Adding
<1>7. ASSUME NEW m \in Names \ {n}, NEW h \in Range(s.add[m])
      PROVE  Free(t, h) \/ Loose(t, m)
  <2>1. h \notin X
    BY <1>6, <1>7
  <2>2. CASE Free(s, h)
    BY <1>4, <2>1, <2>2 DEF Free
  <2>3. CASE Loose(s, m)
    <3>1. s.wet[m] \in Outputs /\ s.wet[m] \notin On(s) /\ s.out[s.wet[m]] # NULL
      BY <1>2, <2>3 DEF Loose, Owned
    <3>2. s.wet[m] # o
      BY <3>1
    <3>3. t.wet[m] = s.wet[m]
      BY <3>1, <3>2 DEF Differ
    <3> QED BY <1>4, <3>1, <3>2, <3>3 DEF Loose
  <2> QED BY <1>7, <2>2, <2>3 DEF Adding
<1>8. Adding(t)
  <2> SUFFICES ASSUME NEW m \in Names
               PROVE  /\ IsInjective(t.add[m])
                      /\ t.add[m] # <<>> => m \in Range(t.los)
                      /\ \A h \in Range(t.add[m]) :
                          /\ LayoutputOf(h) = m /\ ~Off(h) /\ Wants(h)
                          /\ Free(t, h) \/ Loose(t, m)
    BY DEF Adding
  <2>1. CASE m = n
    <3>1. t.add[m] = <<>> /\ Range(t.add[m]) = {}
      BY <2>1, EmptySeq, RangeOf
    <3>2. IsInjective(t.add[m])
      BY <3>1, EmptySeq DEF IsInjective
    <3> QED BY <3>1, <3>2
  <2>2. CASE m # n
    BY <1>5, <1>7, <2>2 DEF Adding
  <2> QED BY <2>1, <2>2
<1>9. Keeps(s, t, {})
  BY <1>2, <1>3, <1>4 DEF Keeps, Owned
<1>10. \A h \in X : Enabled(t, h)
  <2> SUFFICES ASSUME NEW h \in X PROVE Enabled(t, h)
    OBVIOUS
  <2>1. h \in Heads /\ h \in HeadsOf(t, o)
    BY <1>6
  <2> QED BY <1>2, <2>1, EnabledIs
<1>11. ASSUME NEW h \in Heads, Enabled(t, h)
       PROVE  Enabled(s, h) \/ h \in Range(s.add[n])
  <2>1. PICK p \in On(t) : h \in HeadsOf(t, p)
    BY <1>2, <1>11, EnabledIs
  <2>2. CASE p = o
    <3>1. h \in X \/ (o \in On(s) /\ h \in HeadsOf(s, o))
      BY <2>1, <2>2
    <3> QED BY <1>2, <3>1, EnabledIs
  <2>3. CASE p # o
    <3>1. p \in On(s) /\ h \in HeadsOf(s, p)
      BY <1>3, <1>4, <2>1, <2>3
    <3> QED BY <1>2, <3>1, EnabledIs
  <2> QED BY <2>2, <2>3
<1>12. /\ t.aborted = "no" \/ (t.aborted = "attaching" /\ \E v \in vanished : Shared(v))
       /\ t.failed \in BOOLEAN /\ (s.failed => t.failed)
       /\ t.aborted = "no" => t.add[n] = <<>>
  OBVIOUS
<1>13. t.aborted = "no" /\ ~t.failed => \A h \in Range(s.add[n]) : Enabled(t, h)
  BY <1>10
<1>14. \A m \in Names \ {n} : t.add[m] = s.add[m]
  OBVIOUS
<1> QED BY <1>1, <1>5, <1>8, <1>9, <1>11, <1>12, <1>13, <1>14 DEF Served

\* A wet_output that has lost its output is freed.
LEMMA CleanedIs ==
    ASSUME config \in Configs, NEW s, Good(s, vanished), Adding(s),
           NEW n \in Names, s.wet[n] = Left
    PROVE  LET t == [s EXCEPT !.wet[n] = None] IN
           /\ Good(t, vanished) /\ Adding(t) /\ t.wet[n] = None
           /\ t.out = s.out /\ t.list = s.list /\ t.los = s.los /\ t.add = s.add
           /\ t.failed = s.failed /\ t.aborted = s.aborted
           /\ Fits(s) => Fits(t)
<1> DEFINE t == [s EXCEPT !.wet[n] = None]
           o == <<n>>
<1>1. /\ Typed(s) /\ Owned(s) /\ Rec(s) /\ On(s) \subseteq Outputs /\ o \in Outputs
      /\ SoundOutput(s, o, vanished)
  BY GoodOutput, Ids
<1>2. PICK w : w = [s.wet EXCEPT ![n] = None]
  OBVIOUS
<1>3. t = [s EXCEPT !.wet = w]
  BY <1>2
<1> HIDE DEF t, o
<1>4. /\ Rec(t) /\ t.wet = w /\ t.out = s.out /\ t.list = s.list /\ t.los = s.los
      /\ t.add = s.add /\ t.failed = s.failed /\ t.aborted = s.aborted
      /\ t.tracked = s.tracked /\ t.flip = s.flip /\ t.place = s.place
  BY <1>1, <1>3 DEF Rec
<1>5. s.wet \in [Names -> Outputs \cup {None, Left}]
  BY <1>1 DEF Typed
<1>6. /\ w \in [Names -> Outputs \cup {None, Left}] /\ w[n] = None
      /\ \A m \in Names \ {n} : w[m] = s.wet[m]
      /\ None \notin Outputs /\ Left \notin Outputs
  BY <1>2, <1>5, Ids
<1>7. \A p \in Outputs, m \in Names : w[m] = p <=> s.wet[m] = p
  BY <1>6
<1>8. On(t) = On(s) /\ \A p : HeadsOf(t, p) = HeadsOf(s, p)
  BY <1>4 DEF On, HeadsOf
<1>9. Differ(s, t, o)
  <2>1. \A m \in Names : w[m] # s.wet[m] => s.wet[m] \notin Outputs /\ w[m] \notin Outputs
    BY <1>6
  <2> QED BY <1>1, <1>4, <1>6, <1>8, <2>1 DEF Differ, Typed
<1>10. SoundOutput(t, o, vanished)
  <2>1. \A h \in HeadsOf(s, o) : s.out[o] # NULL => LayoutputOf(h) \in Names
    BY <1>1, OutputTypes, HeadNames
  <2>2. t.out[o] # NULL =>
          \A h \in HeadsOf(t, o) :
            /\ t.wet[LayoutputOf(h)] = o /\ ~Off(h)
            /\ h \notin t.tracked => t.out[o].deferred = "destroy" \/ Shared(h)
    BY <1>1, <1>4, <1>7, <1>8, <2>1 DEF SoundOutput
  <2>3. \A m \in Names : t.wet[m] = o =>
          /\ o \notin On(t) => \E h \in vanished : LayoutputOf(h) = m /\ Shared(h)
          /\ t.out[o].deferred # "no" => \E h \in vanished : LayoutputOf(h) = m
          /\ t.out[o].deferred = "disable" =>
              \E h \in vanished : LayoutputOf(h) = m /\ Shared(h)
    BY <1>1, <1>4, <1>7, <1>8 DEF SoundOutput
  <2>4. /\ o \in On(t) \/ (\E m \in Names : t.wet[m] = o) => t.out[o] # NULL
        /\ \A m, k \in Names : t.wet[m] = o /\ t.wet[k] = o => m = k
        /\ t.out[o] # NULL =>
            /\ IsInjective(t.out[o].heads)
            /\ o \in On(t) /\ t.out[o].deferred = "no" => t.out[o].heads # <<>>
            /\ t.out[o].deferred # "no" => o \in t.flip
    BY <1>1, <1>4, <1>7, <1>8 DEF SoundOutput
  <2> QED BY <2>2, <2>3, <2>4 DEF SoundOutput
<1>11. Good(t, vanished)
  BY <1>1, <1>9, <1>10, OneOutput
<1>12. Adding(t)
  <2>1. \A h \in Heads : Free(s, h) => Free(t, h)
    BY <1>4, <1>8 DEF Free
  <2>2. \A m \in Names : Loose(s, m) => Loose(t, m)
    BY <1>4, <1>7, <1>8 DEF Loose
  <2>3. \A m \in Names : Range(s.add[m]) \subseteq Heads
    BY RangeOf DEF Adding
  <2> QED BY <1>4, <2>1, <2>2, <2>3 DEF Adding
<1>13. ASSUME Fits(s) PROVE Fits(t)
  <2>1. Sited(t)
    BY <1>4, <1>13, AsideSites DEF Fits
  <2>2. \A m \in Names : t.wet[m] \in Outputs => s.wet[m] \in Outputs
    BY <1>4, <1>7
  <2> QED BY <1>4, <1>8, <1>13, <2>1, <2>2, AsideFits
<1> QED BY <1>4, <1>6, <1>11, <1>12, <1>13 DEF t

\* drm_try_attach
LEMMA AttachServes ==
    ASSUME config \in Configs, vanished \subseteq Heads, NEW s, Good(s, vanished), Adding(s),
           s.aborted = "no", s.failed \in BOOLEAN, NEW n \in Names, s.wet[n] \in Outputs
    PROVE  Served(s, AttachClones(s, n), n) /\ (Fits(s) => Fits(AttachClones(s, n)))
<1> DEFINE o == s.wet[n]
           t == AttachClones(s, n)
           room == MaxClones - Len(s.out[o].heads)
           k == IF room < Len(s.add[n]) THEN room ELSE Len(s.add[n])
           hs == SubSeq(s.add[n], 1, k)
           rest == SubSeq(s.add[n], k + 1, Len(s.add[n]))
           was == s.out[o].heads
           d == s.out[o].deferred
           r == [s EXCEPT !.out[o].heads = @ \o hs]
<1>1. /\ Typed(s) /\ Owned(s) /\ Rec(s) /\ On(s) \subseteq Outputs
      /\ SoundOutput(s, o, vanished) /\ s.out[o] # NULL
  <2>1. Owned(s)
    BY DEF Good
  <2>2. s.out[o] # NULL
    BY <2>1 DEF Owned
  <2> QED BY <2>2, GoodOutput
<1>2. /\ s.out[o] = WithHeads(was, d) /\ List(was, Heads) /\ was \in Seq(Heads)
      /\ d \in {"no", "disable", "destroy"} /\ HeadsOf(s, o) = Range(was)
      /\ HeadsOf(s, o) \subseteq Heads
  BY <1>1, OutputTypes DEF SoundOutput, List, WithHeads, HeadsOf
<1>3. t = IF o \notin On(s) THEN [s EXCEPT !.aborted = "attaching"] ELSE Rest(r, n, rest)
  BY DEF AttachClones, On
<1>4. /\ s.add \in [Names -> Seq(Heads)] /\ List(s.add[n], Heads)
      /\ Range(s.add[n]) \subseteq Heads /\ Len(s.add[n]) \in Nat
      /\ \A h \in Range(s.add[n]) :
            LayoutputOf(h) = n /\ ~Off(h) /\ (Free(s, h) \/ Loose(s, n))
  BY RangeOf DEF Adding, List
<1>5. k \in Int /\ k <= Len(s.add[n])
  <2>1. MaxClones \in Nat /\ Len(was) \in Nat
    BY <1>2, NumbersAssumption, LenProperties
  <2>2. room \in Int
    BY <2>1
  <2> HIDE DEF room
  <2> QED BY <1>4, <2>2
<1>6. /\ List(hs, Heads) /\ Range(hs) \subseteq Range(s.add[n])
      /\ k = Len(s.add[n]) => Range(hs) = Range(s.add[n])
  <2> HIDE DEF k
  <2> QED BY <1>4, <1>5, FirstOfList
<1>7. rest = <<>> => Range(hs) = Range(s.add[n])
  <2>1. ASSUME rest = <<>> PROVE k >= Len(s.add[n])
    <3>1. Behind(s.add[n], k) = <<>>
      BY <2>1 DEF Behind
    <3> HIDE DEF k
    <3> QED BY <1>4, <1>5, <3>1, NothingBehind
  <2> HIDE DEF k
  <2> QED BY <1>4, <1>5, <1>6, <2>1
<1> HIDE DEF t, k, hs, rest
<1>8. CASE o \notin On(s)
  <2>1. t = [s EXCEPT !.aborted = "attaching"]
    BY <1>3, <1>8
  <2>2. /\ Rec(t) /\ t.wet = s.wet /\ t.out = s.out /\ t.list = s.list
        /\ t.tracked = s.tracked /\ t.flip = s.flip /\ t.los = s.los /\ t.add = s.add
        /\ t.failed = s.failed /\ t.aborted = "attaching" /\ t.place = s.place
    BY <1>1, <2>1 DEF Rec
  <2>3. /\ Good(t, vanished)
        /\ \A h \in Heads : /\ Enabled(t, h) <=> Enabled(s, h)
                            /\ Free(t, h) <=> Free(s, h)
        /\ \A m \in Names : Loose(t, m) <=> Loose(s, m)
        /\ Keeps(s, t, {})
    BY <1>1, <2>2, AsideGood DEF Typed
  <2>4. Adding(t)
    <3>1. \A m \in Names : Range(s.add[m]) \subseteq Heads
      BY RangeOf DEF Adding
    <3> QED BY <2>2, <2>3, <3>1 DEF Adding
  <2>5. \E v \in vanished : Shared(v)
    BY <1>1, <1>8 DEF SoundOutput
  <2>6. ASSUME Fits(s) PROVE Fits(t)
    <3>1. Sited(t) /\ On(t) = On(s) /\ \A p : HeadsOf(t, p) = HeadsOf(s, p)
      BY <2>2, <2>6, AsideSites DEF Fits, On, HeadsOf
    <3> QED BY <2>2, <2>6, <3>1, AsideFits
  <2> QED BY <2>2, <2>3, <2>4, <2>5, <2>6 DEF Served, t
<1>9. CASE o \in On(s)
  <2> DEFINE w == WithHeads(was \o hs, d)
             X == Range(hs)
  <2>1. \A h \in Range(s.add[n]) : h \notin HeadsOf(s, o)
    BY <1>1, <1>4, <1>9 DEF Free, Loose
  <2>2. List(was \o hs, Heads) /\ Range(was \o hs) = HeadsOf(s, o) \cup X
    <3>1. List(was, Heads) /\ Range(was) = HeadsOf(s, o)
      BY <1>2
    <3>2. List(hs, Heads) /\ Range(was) \cap Range(hs) = {}
      BY <1>6, <2>1, <3>1
    <3> HIDE DEF was
    <3> QED BY <3>1, <3>2, ConcatList
  <2>3. /\ Rec(r) /\ r.wet = s.wet /\ r.list = s.list /\ r.tracked = s.tracked
        /\ r.flip = s.flip /\ r.los = s.los /\ r.add = s.add /\ r.failed = s.failed
        /\ r.aborted = s.aborted /\ r.out = With(s, o, w) /\ r.place = s.place
    <3>1. PICK g : g = was \o hs
      OBVIOUS
    <3>2. w = [s.out[o] EXCEPT !.heads = g]
      <4>1. PICK b, e : b = was /\ e = d
        OBVIOUS
      <4>2. s.out[o] = [heads |-> b, deferred |-> e] /\ w = [heads |-> g, deferred |-> e]
        BY <1>2, <3>1, <4>1 DEF WithHeads
      <4> HIDE DEF w
      <4> QED BY <4>2
    <3>3. PICK x : x = [s.out EXCEPT ![o] = w]
      OBVIOUS
    <3> HIDE DEF w
    <3>4. r = [s EXCEPT !.out = x]
      <4>1. [s.out EXCEPT ![o].heads = g] = [s.out EXCEPT ![o] = w]
        BY <3>2
      <4>2. r = [s EXCEPT !.out = [s.out EXCEPT ![o].heads = g]]
        BY <1>1, <3>1 DEF Rec
      <4> QED BY <3>3, <4>1, <4>2
    <3> HIDE DEF r
    <3> QED BY <1>1, <3>3, <3>4 DEF Rec, With
  <2> HIDE DEF r
  <2>4. /\ Rec(t) /\ t.wet = s.wet /\ t.out = r.out /\ t.list = s.list
        /\ t.tracked = s.tracked /\ t.flip = s.flip /\ t.los = s.los
        /\ t.aborted = s.aborted /\ t.place = s.place
        /\ t.add \in [Names -> Seq(Heads)] /\ t.add[n] = <<>>
        /\ \A m \in Names \ {n} : t.add[m] = s.add[m]
        /\ t.failed \in BOOLEAN /\ (t.failed <=> s.failed \/ rest # <<>>)
    BY <1>3, <1>4, <1>9, <2>3, RestIs
  <2>5. /\ t.out \in [Outputs -> WestonOutput \cup {NULL}] /\ t.out[o] = w /\ w # NULL
        /\ w.heads = was \o hs /\ w.deferred = d
        /\ \A p \in Outputs \ {o} : t.out[p] = s.out[p]
    <3>1. s.out \in [Outputs -> WestonOutput \cup {NULL}] /\ was \o hs \in Seq(Heads)
      BY <1>1, <2>2 DEF Typed, List
    <3>2. PICK g : g = was \o hs
      OBVIOUS
    <3>3. w = WithHeads(g, d) /\ g \in Seq(Heads)
      BY <3>1, <3>2
    <3> HIDE DEF w, o
    <3>4. /\ With(s, o, w) \in [Outputs -> WestonOutput \cup {NULL}]
          /\ With(s, o, w)[o] = w /\ w # NULL /\ w.heads = g /\ w.deferred = d
          /\ \A p \in Outputs \ {o} : With(s, o, w)[p] = s.out[p]
      <4>1. o \in Outputs
        BY DEF o
      <4> QED BY <1>2, <3>1, <3>3, <4>1, OutputUpdate, SMTT(30)
    <3> QED BY <2>3, <2>4, <3>2, <3>4
  <2> HIDE DEF w, d
  <2>6. HeadsOf(t, o) = HeadsOf(s, o) \cup X /\ On(t) = On(s)
    BY <2>2, <2>4, <2>5 DEF HeadsOf, On
  <2>7. Differ(s, t, o)
    BY <1>1, <2>4, <2>5, <2>6 DEF Differ, Typed
  <2>8. ASSUME NEW h \in X, h \notin t.tracked
        PROVE  t.out[o].deferred = "destroy" \/ Shared(h)
    <3>1. h \in Heads /\ LayoutputOf(h) = n /\ h \notin HeadsOf(s, o)
      BY <1>4, <1>6, <2>1
    <3>2. CASE d = "no"
      <4>1. was # <<>>
        BY <1>1, <1>9, <3>2 DEF SoundOutput, d
      <4>2. PICK g \in HeadsOf(s, o) : TRUE
        BY <1>2, <4>1, RangeOf
      <4>3. g \in Heads /\ g # h /\ LayoutputOf(g) \in Names /\ s.wet[LayoutputOf(g)] = o
        BY <1>1, <1>2, <3>1, <4>2, HeadNames DEF SoundOutput
      <4>4. LayoutputOf(g) = n
        BY <1>1, <4>3 DEF SoundOutput
      <4> QED BY <3>1, <4>3, <4>4 DEF Shared
    <3>3. CASE d = "disable"
      <4>1. PICK g \in vanished : LayoutputOf(g) = n /\ Shared(g)
        BY <1>1, <3>3 DEF SoundOutput, d
      <4> QED BY <3>1, <4>1, SharedClones
    <3>4. CASE d = "destroy"
      BY <2>5, <3>4
    <3> QED BY <1>2, <3>2, <3>3, <3>4 DEF d
  <2>9. SoundOutput(t, o, vanished)
    <3>1. \A h \in HeadsOf(t, o) :
            /\ t.wet[LayoutputOf(h)] = o /\ ~Off(h)
            /\ h \notin t.tracked => t.out[o].deferred = "destroy" \/ Shared(h)
      <4>1. \A h \in HeadsOf(s, o) :
            /\ t.wet[LayoutputOf(h)] = o /\ ~Off(h)
            /\ h \notin t.tracked => t.out[o].deferred = "destroy" \/ Shared(h)
        BY <1>1, <2>4, <2>5 DEF SoundOutput, d
      <4>2. \A h \in X : t.wet[LayoutputOf(h)] = o /\ ~Off(h)
        BY <1>4, <1>6, <2>4
      <4> QED BY <2>6, <2>8, <4>1, <4>2
    <3>2. IsInjective(t.out[o].heads)
      BY <2>2, <2>5 DEF List
    <3>3. o \in On(t) /\ t.out[o].deferred = "no" => t.out[o].heads # <<>>
      <4> SUFFICES ASSUME d = "no" PROVE was \o hs # <<>>
        BY <2>5
      <4>1. was # <<>>
        BY <1>1, <1>9 DEF SoundOutput, d
      <4>2. Range(was) # {} /\ Range(was \o hs) # {} /\ was \o hs \in Seq(Heads)
        <5>1. was \in Seq(Heads) /\ was \o hs \in Seq(Heads)
          BY <1>2, <2>2 DEF List
        <5>2. Range(was) # {}
          <6> HIDE DEF was
          <6> QED BY <4>1, <5>1, RangeOf
        <5>3. Range(was) \subseteq Range(was \o hs)
          BY <1>2, <2>2
        <5> QED BY <5>1, <5>2, <5>3
      <4> QED BY <4>2, RangeOf
    <3>4. t.out[o].deferred # "no" => o \in t.flip
      BY <1>1, <2>4, <2>5 DEF SoundOutput, d
    <3>5. /\ \A m, i \in Names : t.wet[m] = o /\ t.wet[i] = o => m = i
          /\ \A m \in Names : t.wet[m] = o =>
              /\ o \notin On(t) => \E g \in vanished : LayoutputOf(g) = m /\ Shared(g)
              /\ t.out[o].deferred # "no" => \E g \in vanished : LayoutputOf(g) = m
              /\ t.out[o].deferred = "disable" =>
                  \E g \in vanished : LayoutputOf(g) = m /\ Shared(g)
      BY <1>1, <2>4, <2>5, <2>6, ZenonT(30) DEF SoundOutput, d
    <3> QED BY <2>5, <3>1, <3>2, <3>3, <3>4, <3>5 DEF SoundOutput
  <2>10. o \in On(t) /\ (o \in On(s) \/ s.out[o] = NULL) /\ X \subseteq Range(s.add[n])
         /\ HeadsOf(t, o) = (IF s.out[o] = NULL THEN X ELSE HeadsOf(s, o) \cup X)
    BY <1>1, <1>6, <1>9, <2>6
  <2>11. (s.failed => t.failed) /\ (~t.failed => X = Range(s.add[n]))
    BY <1>7, <2>4
  <2> HIDE DEF X, o
  <2>12. Served(s, t, n)
    <3>1. o \in Outputs
      BY DEF o
    <3> QED BY <2>4, <2>7, <2>9, <2>10, <2>11, <3>1, AttachedServes
  <2>13. ASSUME Fits(s) PROVE Fits(t)
    <3>1. o \in Outputs
      BY DEF o
    <3>2. \A p \in Outputs : t.out[p] # NULL <=> s.out[p] # NULL
      BY <1>1, <2>5
    <3>3. Sited(t)
      BY <2>4, <2>5, <2>13, <3>2, ChangeSites DEF Fits
    <3>4. t.out[o].deferred = s.out[o].deferred /\ HeadsOf(s, o) \subseteq HeadsOf(t, o)
      BY <2>5, <2>6 DEF d, o
    <3>5. \A p \in On(s) : /\ HeadsOf(s, p) \subseteq HeadsOf(t, p)
                            /\ t.out[p].deferred = s.out[p].deferred
      BY <1>1, <2>5, <3>4 DEF HeadsOf
    <3> QED BY <2>4, <2>6, <2>13, <3>3, <3>5, AsideFits
  <2> QED BY <2>12, <2>13 DEF t
<1> QED BY <1>8, <1>9

\* drm_try_attach_enable
LEMMA EnableServes ==
    ASSUME config \in Configs, vanished \subseteq Heads, NEW s, Good(s, vanished), Adding(s),
           s.aborted = "no", s.failed \in BOOLEAN, NEW n \in Names, s.wet[n] = None,
           s.add[n] # <<>>, NEW keep \in Nat
    PROVE  Served(s, EnableNew(s, n, keep), n) /\ (Fits(s) => Fits(EnableNew(s, n, keep)))
<1> DEFINE t == EnableNew(s, n, keep)
           o == IF s.out[<<n>>] # NULL THEN <<n, s.add[n][1]>> ELSE <<n>>
           k == IF keep < Len(s.add[n]) THEN keep ELSE Len(s.add[n])
           hs == SubSeq(s.add[n], 1, k)
           rest == SubSeq(s.add[n], k + 1, Len(s.add[n]))
           none == s.out[o] # NULL \/ k = 0 \/ Len(s.list) >= Crtcs
<1>1. /\ Typed(s) /\ Owned(s) /\ Rec(s) /\ On(s) \subseteq Outputs
      /\ s.wet \in [Names -> Outputs \cup {None, Left}]
      /\ s.out \in [Outputs -> WestonOutput \cup {NULL}]
      /\ List(s.list, Outputs) /\ Len(s.list) <= Crtcs /\ s.tracked \subseteq Heads
      /\ Crtcs \in Int /\ Len(s.list) \in Int
  <2>1. Typed(s) /\ Owned(s) /\ Rec(s)
    BY DEF Good
  <2> QED BY <2>1, RangeOf, NumbersAssumption DEF Typed, List, On
<1>2. /\ s.add \in [Names -> Seq(Heads)] /\ List(s.add[n], Heads)
      /\ Range(s.add[n]) \subseteq Heads /\ Len(s.add[n]) \in Nat /\ Len(s.add[n]) # 0
      /\ s.add[n][1] \in Heads
      /\ \A h \in Range(s.add[n]) : LayoutputOf(h) = n /\ ~Off(h) /\ Free(s, h)
  <2>1. /\ s.add \in [Names -> Seq(Heads)] /\ List(s.add[n], Heads)
        /\ Range(s.add[n]) \subseteq Heads /\ Len(s.add[n]) \in Nat /\ Len(s.add[n]) # 0
    BY RangeOf DEF Adding, List
  <2>2. 1 \in 1..Len(s.add[n])
    BY <2>1
  <2>3. s.add[n][1] \in Heads
    BY <2>1, <2>2, LenProperties
  <2>4. ~Loose(s, n)
    BY Ids DEF Loose
  <2> QED BY <2>1, <2>3, <2>4 DEF Adding
<1>3. o \in Outputs
  BY <1>2, Ids
<1>4. k \in Int /\ k <= Len(s.add[n]) /\ k >= 0
  BY <1>2
<1>5. /\ List(hs, Heads) /\ Range(hs) \subseteq Range(s.add[n]) /\ (k >= 1 => hs # <<>>)
      /\ k = Len(s.add[n]) => Range(hs) = Range(s.add[n])
  <2> HIDE DEF k
  <2> QED BY <1>2, <1>4, FirstOfList
<1>6. rest = <<>> => Range(hs) = Range(s.add[n])
  <2>1. ASSUME rest = <<>> PROVE k >= Len(s.add[n])
    <3>1. Behind(s.add[n], k) = <<>>
      BY <2>1 DEF Behind
    <3> HIDE DEF k
    <3> QED BY <1>2, <1>4, <3>1, NothingBehind
  <2> HIDE DEF k
  <2> QED BY <1>2, <1>4, <1>5, <2>1
<1> DEFINE a == WithHeads(hs, "no")
           last == s.place[Last(s.list)]
           right == [w |-> Size[hs[1]][1], h |-> Size[hs[1]][2],
                     x |-> IF s.list = <<>> THEN 0 ELSE last.x + last.w, y |-> 0]
<1>0. t = IF none THEN Rest([s EXCEPT !.failed = TRUE], n, <<>>)
          ELSE Rest([s EXCEPT !.out[o] = a, !.place[o] = right, !.list = Append(@, o),
                              !.wet[n] = o, !.tracked = @ \cup Range(hs)], n, rest)
  BY DEF EnableNew, WithHeads
<1>10. ASSUME Fits(s), ~none PROVE right \in Geometry
  <2>1. k # 0
    BY <1>10
  <2> HIDE DEF k
  <2>2. hs \in Seq(Heads) /\ hs # <<>>
    BY <1>4, <1>5, <2>1 DEF List
  <2> HIDE DEF hs
  <2>3. hs[1] \in Heads
    <3>1. Len(hs) \in Nat /\ Len(hs) # 0 /\ \A i \in 1..Len(hs) : hs[i] \in Heads
      BY <2>2, RangeOf, LenProperties
    <3>2. 1 \in 1..Len(hs)
      BY <3>1
    <3> QED BY <3>1, <3>2
  <2>4. Size[hs[1]] \in Nat \X Nat
    BY <2>3, SizeAssumption
  <2>5. s.list # <<>> => last \in Geometry
    <3> SUFFICES ASSUME s.list # <<>> PROVE last \in Geometry
      OBVIOUS
    <3>1. s.list \in Seq(Outputs) /\ Len(s.list) \in Nat /\ Len(s.list) # 0
          /\ On(s) = {s.list[i] : i \in 1..Len(s.list)}
      BY <1>1, RangeOf DEF List, On
    <3>2. Len(s.list) \in 1..Len(s.list)
      BY <3>1
    <3>3. Last(s.list) \in On(s)
      BY <3>1, <3>2 DEF Last
    <3> QED BY <1>1, <1>10, <3>3 DEF Fits, Sited
  <2>6. (IF s.list = <<>> THEN 0 ELSE last.x + last.w) \in Int
    BY <2>5 DEF Geometry
  <2> QED BY <2>4, <2>6 DEF Geometry
<1> HIDE DEF right
<1> DEFINE q == right
<1>7. t = IF none THEN Rest([s EXCEPT !.failed = TRUE], n, <<>>)
          ELSE Rest([s EXCEPT !.out[o] = a, !.place[o] = q, !.list = Append(@, o),
                              !.wet[n] = o, !.tracked = @ \cup Range(hs)], n, rest)
  BY <1>0
<1>11. Fits(s) /\ ~none => q \in Geometry
  BY <1>10
<1> HIDE DEF t, o, k, hs, rest, q
<1>8. CASE none
  <2> DEFINE r == [s EXCEPT !.failed = TRUE]
  <2>1. PICK f \in BOOLEAN : f = TRUE
    OBVIOUS
  <2>2. r = [s EXCEPT !.failed = f]
    BY <2>1
  <2>3. t = Rest(r, n, <<>>)
    BY <1>7, <1>8
  <2> HIDE DEF r
  <2>4. /\ Rec(r) /\ r.wet = s.wet /\ r.out = s.out /\ r.list = s.list
        /\ r.tracked = s.tracked /\ r.flip = s.flip /\ r.los = s.los /\ r.add = s.add
        /\ r.failed = f /\ r.aborted = s.aborted /\ r.place = s.place
    BY <1>1, <2>2 DEF Rec
  <2>5. /\ Rec(t) /\ t.wet = s.wet /\ t.out = s.out /\ t.list = s.list
        /\ t.tracked = s.tracked /\ t.flip = s.flip /\ t.los = s.los
        /\ t.aborted = s.aborted /\ t.place = s.place
        /\ t.add \in [Names -> Seq(Heads)] /\ t.add[n] = <<>>
        /\ \A m \in Names \ {n} : t.add[m] = s.add[m]
        /\ t.failed \in BOOLEAN /\ t.failed
    <3>1. PICK e : e = <<>>
      OBVIOUS
    <3>2. Rec(r) /\ r.add \in [Names -> Seq(Heads)] /\ r.failed \in BOOLEAN /\ t = Rest(r, n, e)
      BY <1>2, <2>3, <2>4, <3>1
    <3>3. /\ Rec(t) /\ t.wet = r.wet /\ t.out = r.out /\ t.list = r.list
          /\ t.tracked = r.tracked /\ t.flip = r.flip /\ t.los = r.los
          /\ t.aborted = r.aborted /\ t.place = r.place
          /\ t.add \in [Names -> Seq(Heads)] /\ t.add[n] = <<>>
          /\ \A m \in Names \ {n} : t.add[m] = r.add[m]
          /\ t.failed \in BOOLEAN /\ (t.failed <=> r.failed \/ e # <<>>)
      BY <3>2, RestIs
    <3> QED BY <2>1, <2>4, <3>3
  <2>6. /\ Good(t, vanished)
        /\ \A h \in Heads : /\ Enabled(t, h) <=> Enabled(s, h)
                            /\ Free(t, h) <=> Free(s, h)
        /\ \A m \in Names : Loose(t, m) <=> Loose(s, m)
        /\ Keeps(s, t, {})
    BY <1>1, <2>5, AsideGood DEF Typed
  <2>7. Adding(t)
    <3> SUFFICES ASSUME NEW m \in Names
                 PROVE  /\ IsInjective(t.add[m])
                        /\ t.add[m] # <<>> => m \in Range(t.los)
                        /\ \A h \in Range(t.add[m]) :
                            /\ LayoutputOf(h) = m /\ ~Off(h) /\ Wants(h)
                            /\ Free(t, h) \/ Loose(t, m)
      BY <2>5 DEF Adding
    <3>1. CASE m = n
      <4>1. t.add[m] = <<>> /\ Range(t.add[m]) = {}
        BY <2>5, <3>1, EmptySeq, RangeOf
      <4>2. IsInjective(t.add[m])
        BY <4>1, EmptySeq DEF IsInjective
      <4> QED BY <4>1, <4>2
    <3>2. CASE m # n
      <4>1. t.add[m] = s.add[m] /\ Range(s.add[m]) \subseteq Heads
        BY <1>2, <2>5, <3>2, RangeOf
      <4> QED BY <2>5, <2>6, <4>1 DEF Adding
    <3> QED BY <3>1, <3>2
  <2>8. ASSUME Fits(s) PROVE Fits(t)
    <3>1. Sited(t) /\ On(t) = On(s) /\ \A p : HeadsOf(t, p) = HeadsOf(s, p)
      BY <2>5, <2>8, AsideSites DEF Fits, On, HeadsOf
    <3> QED BY <2>5, <2>8, <3>1, AsideFits
  <2> QED BY <2>5, <2>6, <2>7, <2>8 DEF Served, t
<1>9. CASE ~none
  <2> DEFINE r == [s EXCEPT !.out[o] = a, !.place[o] = q, !.list = Append(@, o),
                            !.wet[n] = o, !.tracked = @ \cup Range(hs)]
             X == Range(hs)
  <2>1. t = Rest(r, n, rest)
    BY <1>7, <1>9
  <2>2. s.out[o] = NULL /\ k # 0 /\ ~(Len(s.list) >= Crtcs)
    BY <1>9
  <2>3. PICK w, l, p, tr : /\ w = [s.wet EXCEPT ![n] = o] /\ l = Append(s.list, o)
                           /\ p = [s.place EXCEPT ![o] = q] /\ tr = s.tracked \cup X
    OBVIOUS
  <2>4. PICK f : f = [s.out EXCEPT ![o] = a]
    OBVIOUS
  <2> HIDE DEF a
  <2>5. r = [s EXCEPT !.out = f, !.place = p, !.list = l, !.wet = w, !.tracked = tr]
    BY <1>1, <2>3, <2>4 DEF Rec
  <2> HIDE DEF r, X
  <2>6. /\ Rec(r) /\ r.wet = w /\ r.list = l /\ r.tracked = tr
        /\ r.flip = s.flip /\ r.los = s.los /\ r.add = s.add /\ r.failed = s.failed
        /\ r.aborted = s.aborted /\ r.out = With(s, o, a) /\ r.place = p
    BY <1>1, <2>4, <2>5 DEF Rec, With
  <2>7. /\ Rec(t) /\ t.wet = w /\ t.out = With(s, o, a) /\ t.list = l
        /\ t.tracked = tr /\ t.flip = s.flip /\ t.los = s.los
        /\ t.aborted = s.aborted /\ t.place = p
        /\ t.add \in [Names -> Seq(Heads)] /\ t.add[n] = <<>>
        /\ \A m \in Names \ {n} : t.add[m] = s.add[m]
        /\ t.failed \in BOOLEAN /\ (t.failed <=> s.failed \/ rest # <<>>)
    BY <1>2, <2>1, <2>6, RestIs
  <2>8. /\ t.out \in [Outputs -> WestonOutput \cup {NULL}] /\ t.out[o] = a /\ a # NULL
        /\ a.heads = hs /\ a.deferred = "no"
        /\ \A x \in Outputs \ {o} : t.out[x] = s.out[x]
    <3> PICK d \in {"no", "disable", "destroy"} : d = "no"
      OBVIOUS
    <3>1. hs \in Seq(Heads) /\ a = WithHeads(hs, d)
      BY <1>5 DEF List, a
    <3>2. /\ With(s, o, WithHeads(hs, d)) \in [Outputs -> WestonOutput \cup {NULL}]
          /\ With(s, o, WithHeads(hs, d))[o] = WithHeads(hs, d) /\ WithHeads(hs, d) # NULL
          /\ WithHeads(hs, d).heads = hs /\ WithHeads(hs, d).deferred = d
          /\ \A x \in Outputs \ {o} : With(s, o, WithHeads(hs, d))[x] = s.out[x]
      BY <1>1, <1>3, <3>1, OutputUpdate
    <3> QED BY <2>7, <3>1, <3>2
  <2>9. o \notin On(s) /\ \A m \in Names : s.wet[m] # o
    BY <1>1, <1>3, <2>2 DEF Owned
  <2>10. List(l, Outputs) /\ On(t) = On(s) \cup {o} /\ Len(l) <= Crtcs
    <3>1. List(l, Outputs) /\ Range(l) = Range(s.list) \cup {o} /\ Len(l) = Len(s.list) + 1
      BY <1>1, <1>3, <2>3, <2>9, AppendList DEF On
    <3> QED BY <1>1, <2>2, <2>7, <3>1 DEF On
  <2>11. /\ w \in [Names -> Outputs \cup {None, Left}] /\ w[n] = o
         /\ \A m \in Names \ {n} : w[m] = s.wet[m]
    BY <1>1, <1>3, <2>3
  <2>12. HeadsOf(t, o) = X /\ X \subseteq Heads /\ s.tracked \subseteq tr /\ X \subseteq tr
         /\ tr \subseteq Heads
    BY <1>1, <1>2, <1>5, <2>3, <2>8 DEF HeadsOf, X
  <2>13. Differ(s, t, o)
    <3>1. \A m \in Names : w[m] # s.wet[m] => s.wet[m] \notin Outputs /\ w[m] = o
      BY <2>11, Ids
    <3> QED BY <1>1, <2>7, <2>8, <2>10, <2>11, <2>12, <3>1 DEF Differ
  <2>14. SoundOutput(t, o, vanished)
    <3>1. hs # <<>> /\ IsInjective(hs)
      BY <1>4, <1>5, <2>2 DEF List
    <3>2. \A m \in Names : t.wet[m] = o => m = n
      BY <2>7, <2>9, <2>11
    <3>3. \A h \in X : t.wet[LayoutputOf(h)] = o /\ ~Off(h) /\ h \in t.tracked
      BY <1>2, <1>5, <2>7, <2>11, <2>12 DEF X
    <3>4. o \in On(t)
      BY <2>10
    <3> QED BY <2>8, <2>12, <3>1, <3>2, <3>3, <3>4 DEF SoundOutput
  <2>15. X \subseteq Range(s.add[n]) /\ (s.failed => t.failed) /\ o \in On(t)
         /\ (~t.failed => X = Range(s.add[n]))
         /\ HeadsOf(t, o) = (IF s.out[o] = NULL THEN X ELSE HeadsOf(s, o) \cup X)
    BY <1>5, <1>6, <2>2, <2>7, <2>10, <2>12 DEF X
  <2>16. Served(s, t, n)
    BY <1>3, <2>2, <2>7, <2>13, <2>14, <2>15, AttachedServes
  <2>17. ASSUME Fits(s) PROVE Fits(t)
    <3>1. q \in Geometry
      BY <1>9, <1>11, <2>17
    <3>2. /\ p \in [Outputs -> Geometry \cup {NULL}] /\ p[o] = q
          /\ \A x \in Outputs \ {o} : p[x] = s.place[x]
      BY <1>3, <2>3, <2>17, <3>1 DEF Fits, Sited
    <3>3. Sited(t)
      <4>1. \A x \in On(t) : t.out[x] # NULL
        BY <1>1, <2>8, <2>10, <2>17 DEF Fits, Sited
      <4>2. \A x \in Outputs : t.out[x] # NULL => p[x] \in Geometry
        BY <2>8, <2>17, <3>1, <3>2 DEF Fits, Sited
      <4> QED BY <2>7, <2>8, <2>10, <3>2, <4>1, <4>2 DEF Sited
    <3>4. Listed(t)
      <4>1. n \in Range(s.los)
        BY DEF Adding
      <4> QED BY <2>7, <2>11, <2>17, <4>1 DEF Fits, Listed
    <3>5. Followed(t)
      <4> SUFFICES ASSUME NEW g \in t.tracked
                   PROVE  \E x \in On(t) : g \in HeadsOf(t, x) /\ t.out[x].deferred = "no"
        BY DEF Followed
      <4>1. CASE g \in X
        BY <2>8, <2>10, <2>12, <4>1
      <4>2. CASE g \in s.tracked
        <5>1. PICK x \in On(s) : g \in HeadsOf(s, x) /\ s.out[x].deferred = "no"
          BY <2>17, <4>2 DEF Fits, Followed
        <5> QED BY <1>1, <2>8, <2>9, <2>10, <5>1 DEF HeadsOf
      <4> QED BY <2>3, <2>7, <4>1, <4>2
    <3>6. Flying(t)
      BY <2>7, <2>10, <2>17 DEF Fits, Flying
    <3> QED BY <3>3, <3>4, <3>5, <3>6 DEF Fits
  <2> QED BY <2>16, <2>17 DEF t
<1> QED BY <1>8, <1>9

\* drm_process_layoutput
LEMMA ProcessServes ==
    ASSUME config \in Configs, vanished \subseteq Heads, NEW s, Good(s, vanished), Adding(s),
           s.aborted = "no", s.failed \in BOOLEAN, NEW n \in Names, NEW keep \in Nat,
           s.add[n] # <<>>
    PROVE  /\ Served(s, ProcessLayoutput(s, n, keep), n)
           /\ Fits(s) => Fits(ProcessLayoutput(s, n, keep))
<1> DEFINE t == IF s.wet[n] = Left THEN [s EXCEPT !.wet[n] = None] ELSE s
           u == ProcessLayoutput(s, n, keep)
<1>1. Typed(s) /\ Owned(s) /\ s.wet[n] \in Outputs \cup {None, Left} /\ None # Left
      /\ None \notin Outputs
  BY Ids DEF Good, Typed
<1>2. u = IF t.wet[n] # None THEN AttachClones(t, n) ELSE EnableNew(t, n, keep)
  BY DEF ProcessLayoutput
<1>3. /\ Good(t, vanished) /\ Adding(t)
      /\ t.out = s.out /\ t.list = s.list /\ t.los = s.los /\ t.add = s.add
      /\ t.failed = s.failed /\ t.aborted = s.aborted
      /\ t.wet[n] = None \/ t.wet[n] \in Outputs
      /\ Fits(s) => Fits(t)
  <2>1. CASE s.wet[n] = Left
    <3>1. t = [s EXCEPT !.wet[n] = None]
      BY <2>1
    <3> HIDE DEF t
    <3> QED BY <2>1, <3>1, CleanedIs
  <2>2. CASE s.wet[n] # Left
    <3>1. t = s
      BY <2>2
    <3> QED BY <1>1, <2>2, <3>1
  <2> QED BY <2>1, <2>2
<1> HIDE DEF t, u
<1>4. Served(t, u, n) /\ (Fits(t) => Fits(u))
  BY <1>1, <1>2, <1>3, AttachServes, EnableServes
<1>5. Typed(t) /\ Owned(t)
  BY <1>3 DEF Good
<1>6. On(t) = On(s) /\ \A p : HeadsOf(t, p) = HeadsOf(s, p)
  BY <1>3 DEF On, HeadsOf
<1>7. \A h \in Heads : Enabled(t, h) <=> Enabled(s, h)
  BY <1>1, <1>5, <1>6, EnabledIs
<1>8. Keeps(s, u, {})
  BY <1>4, <1>6 DEF Served, Keeps
<1> QED BY <1>3, <1>4, <1>7, <1>8 DEF Served, u

\* After the first i layoutputs, from s on.
Processing(s, t, i) ==
    /\ Good(t, vanished) /\ Adding(t) /\ t.los = s.los /\ t.failed \in BOOLEAN
    /\ t.aborted = "no" \/ (t.aborted = "attaching" /\ \E v \in vanished : Shared(v))
    /\ t.aborted = "no" => \A j \in 1..i : t.add[s.los[j]] = <<>>
    /\ t.aborted = "no" /\ ~t.failed => \A h \in Range(head_list) : Settled(t, h)
    /\ Keeps(s, t, {})

\* drm_process_layoutputs, one layoutput: its heads are no longer to be
\* added.
LEMMA ProcessKeeps ==
    ASSUME config \in Configs, vanished \subseteq Heads, List(head_list, Heads),
           NEW s, Typed(s), NEW k \in Nat, k + 1 <= Len(s.los), NEW keep \in Nat,
           NEW t, Processing(s, t, k)
    PROVE  Processing(s, ProcessLayoutput(t, s.los[k + 1], keep), k + 1)
<1> DEFINE n == s.los[k + 1]
           u == ProcessLayoutput(t, n, keep)
<1>1. /\ Len(s.los) \in Nat /\ n \in Names
      /\ \A j \in 1..k + 1 : s.los[j] \in Names /\ (j \in 1..k \/ j = k + 1)
      /\ \A j \in 1..k : s.los[j] # n
  <2>1. /\ s.los \in Seq(Names) /\ Len(s.los) \in Nat /\ DOMAIN s.los = 1..Len(s.los)
        /\ \A j \in 1..Len(s.los) : s.los[j] \in Names
        /\ \A i, j \in 1..Len(s.los) : s.los[i] = s.los[j] => i = j
    BY LenProperties DEF Typed, List, IsInjective
  <2>2. /\ k + 1 \in 1..Len(s.los)
        /\ \A j \in 1..k + 1 : j \in 1..Len(s.los) /\ (j \in 1..k \/ j = k + 1)
        /\ \A j \in 1..k : j \in 1..Len(s.los) /\ j # k + 1
    BY <2>1
  <2> QED BY <2>1, <2>2
<1>2. /\ Good(t, vanished) /\ Adding(t) /\ t.los = s.los /\ t.failed \in BOOLEAN
      /\ t.aborted = "no" \/ (t.aborted = "attaching" /\ \E v \in vanished : Shared(v))
      /\ t.aborted = "no" => \A j \in 1..k : t.add[s.los[j]] = <<>>
      /\ t.aborted = "no" /\ ~t.failed => \A h \in Range(head_list) : Settled(t, h)
      /\ Keeps(s, t, {}) /\ Typed(t) /\ Owned(t)
  BY DEF Processing, Good
<1>3. CASE t.aborted # "no"
  <2>1. u = t
    BY <1>3 DEF ProcessLayoutput
  <2> QED BY <1>2, <1>3, <2>1 DEF Processing, u
<1>4. CASE t.aborted = "no" /\ t.add[n] = <<>>
  <2>1. u = t
    BY <1>4 DEF ProcessLayoutput
  <2>2. \A j \in 1..k + 1 : t.add[s.los[j]] = <<>>
    BY <1>1, <1>2, <1>4
  <2> QED BY <1>2, <2>1, <2>2 DEF Processing, u
<1>5. CASE t.aborted = "no" /\ t.add[n] # <<>>
  <2>1. Served(t, u, n)
    BY <1>1, <1>2, <1>5, ProcessServes
  <2> HIDE DEF u, n
  <2>2. /\ Good(u, vanished) /\ Adding(u) /\ u.los = t.los /\ u.failed \in BOOLEAN
        /\ u.aborted = "no" \/ (u.aborted = "attaching" /\ \E v \in vanished : Shared(v))
        /\ t.failed => u.failed
        /\ \A m \in Names \ {n} : u.add[m] = t.add[m]
        /\ u.aborted = "no" => u.add[n] = <<>>
        /\ u.aborted = "no" /\ ~u.failed => \A h \in Range(t.add[n]) : Enabled(u, h)
        /\ \A h \in Heads : Enabled(u, h) => Enabled(t, h) \/ h \in Range(t.add[n])
        /\ Keeps(t, u, {}) /\ Typed(u) /\ Owned(u)
    BY <2>1 DEF Served, Good
  <2>3. u.aborted = "no" => \A j \in 1..k + 1 : u.add[s.los[j]] = <<>>
    <3> SUFFICES ASSUME u.aborted = "no", NEW j \in 1..k + 1 PROVE u.add[s.los[j]] = <<>>
      OBVIOUS
    <3>1. CASE s.los[j] = n
      BY <2>2, <3>1
    <3>2. CASE s.los[j] # n
      <4>1. j \in 1..k /\ s.los[j] \in Names \ {n}
        BY <1>1, <3>2 DEF n
      <4> QED BY <1>2, <1>5, <2>2, <4>1
    <3> QED BY <3>1, <3>2
  <2>4. \A h \in Heads : Enabled(t, h) => Enabled(u, h)
    <3> SUFFICES ASSUME NEW h \in Heads, Enabled(t, h) PROVE Enabled(u, h)
      OBVIOUS
    <3>1. PICK p \in On(t) : h \in HeadsOf(t, p)
      BY <1>2, EnabledIs
    <3>2. p \in On(u) /\ h \in HeadsOf(u, p)
      BY <2>2, <3>1 DEF Keeps
    <3> QED BY <2>2, <3>2, EnabledIs
  <2>5. ASSUME u.aborted = "no", ~u.failed, NEW h \in Range(head_list)
        PROVE  Settled(u, h)
    <3>1. h \in Heads /\ Settled(t, h)
      BY <1>2, <1>5, <2>2, <2>5, RangeOf DEF List
    <3>2. LayoutputOf(h) \in Names
      BY <3>1, HeadNames
    <3>3. CASE ~Wants(h)
      <4>1. h \notin Range(t.add[n])
        BY <1>1, <1>2, <3>3 DEF Adding
      <4> QED BY <2>2, <3>1, <3>3, <4>1 DEF Settled
    <3>4. CASE Wants(h)
      <4>1. CASE LayoutputOf(h) = n
        BY <2>2, <2>4, <2>5, <3>1, <3>4, <4>1 DEF Settled
      <4>2. CASE LayoutputOf(h) # n
        BY <2>2, <2>4, <2>5, <3>1, <3>2, <3>4, <4>2 DEF Settled
      <4> QED BY <4>1, <4>2
    <3> QED BY <3>3, <3>4
  <2>6. Keeps(s, u, {})
    BY <1>2, <2>2, KeepsTrans
  <2> QED BY <1>2, <2>2, <2>3, <2>5, <2>6 DEF Processing, u, n
<1> QED BY <1>3, <1>4, <1>5

\* ... and places, layoutputs, trackers and flips still fit.
LEMMA ProcessFits ==
    ASSUME config \in Configs, vanished \subseteq Heads, NEW s, NEW k, NEW t, Processing(s, t, k),
           Fits(t), NEW n \in Names, NEW keep \in Nat
    PROVE  Fits(ProcessLayoutput(t, n, keep))
<1>1. Good(t, vanished) /\ Adding(t) /\ t.failed \in BOOLEAN
  BY DEF Processing
<1>2. CASE t.add[n] = <<>> \/ t.aborted # "no"
  BY <1>2 DEF ProcessLayoutput
<1>3. CASE t.add[n] # <<>> /\ t.aborted = "no"
  BY <1>1, <1>3, ProcessServes
<1> QED BY <1>2, <1>3

\* Both passes: what can be kept is kept, and when nothing fails, the heads that
\* shall be enabled are.
LEMMA PassKeeps ==
    ASSUME config \in Configs, vanished \subseteq Heads, List(head_list, Heads),
           NEW s, Visiting(s, s, 0), NEW keep \in Nat
    PROVE  LET t == Processed(Visited(s), keep) IN
           /\ Good(t, vanished) /\ t.failed \in BOOLEAN
           /\ t.aborted = "no" \/ (t.aborted = "attaching" /\ \E v \in vanished : Shared(v))
           /\ Keeps(s, t, Unwanted) /\ (Fits(s) => Fits(t))
           /\ t.aborted = "no" /\ ~t.failed =>
                \A h \in Range(head_list) : Enabled(t, h) <=> Wanted(h)
<1> DEFINE r == Visited(s)
           t == Processed(r, keep)
           N == Len(r.los)
<1>1. Visiting(s, r, Len(head_list)) /\ (Fits(s) => Fits(r))
  BY VisitedKeeps
<1> HIDE DEF r
<1>2. /\ Good(r, vanished) /\ Adding(r) /\ r.aborted = "no" /\ r.failed = FALSE
      /\ \A i \in 1..Len(head_list) : Settled(r, head_list[i])
      /\ Keeps(s, r, Unwanted) /\ Typed(r)
  BY <1>1 DEF Visiting, Good
<1>3. r.los \in Seq(Names) /\ N \in Nat /\ Range(r.los) = {r.los[i] : i \in 1..N}
  BY <1>2, RangeOf DEF Typed, List
<1>4. \A h \in Range(head_list) : Settled(r, h)
  <2>1. Range(head_list) = {head_list[i] : i \in 1..Len(head_list)}
    BY RangeOf DEF List
  <2> QED BY <1>2, <2>1
<1>5. PICK pass :
        /\ pass[0] = r
        /\ \A i \in 1..Len(r.los) : pass[i] = ProcessLayoutput(pass[i - 1], r.los[i], keep)
        /\ Processed(r, keep) = pass[Len(r.los)]
  BY <1>3, ProcessedIs
<1>6. Processing(r, r, 0)
  <2>1. Keeps(r, r, {})
    BY DEF Keeps
  <2>2. \A j \in 1..0 : r.add[r.los[j]] = <<>>
    OBVIOUS
  <2> QED BY <1>2, <1>4, <2>1, <2>2 DEF Processing
<1> DEFINE S == {k \in 0..N : Processing(r, pass[k], k) /\ (Fits(r) => Fits(pass[k]))}
<1>7. 0 \in S
  BY <1>1, <1>3, <1>5, <1>6
<1>8. ASSUME NEW k \in 0..N, k \in S, k + 1 =< N PROVE k + 1 \in S
  <2>1. k \in Nat /\ k + 1 \in 1..N /\ (k + 1) - 1 = k /\ k + 1 \in 0..N
    BY <1>3, <1>8
  <2>2. pass[k + 1] = ProcessLayoutput(pass[k], r.los[k + 1], keep)
    BY <1>5, <2>1
  <2>3. Processing(r, pass[k], k) /\ (Fits(r) => Fits(pass[k]))
    BY <1>8
  <2>4. r.los[k + 1] \in Names
    BY <1>3, <2>1, LenProperties
  <2>5. Processing(r, pass[k + 1], k + 1)
    BY <1>2, <1>8, <2>1, <2>2, <2>3, ProcessKeeps
  <2>6. Fits(r) => Fits(pass[k + 1])
    BY <2>2, <2>3, <2>4, ProcessFits
  <2> QED BY <2>1, <2>5, <2>6
<1>9. 0..N \subseteq S
  <2> HIDE DEF S, N
  <2> QED BY <1>3, <1>7, <1>8, CountUp
<1>10. Processing(r, t, N) /\ (Fits(r) => Fits(t))
  <2>1. N \in 0..N
    BY <1>3
  <2> QED BY <1>5, <1>9, <2>1
<1> HIDE DEF t
<1>11. /\ Good(t, vanished) /\ Adding(t) /\ t.los = r.los /\ t.failed \in BOOLEAN
       /\ t.aborted = "no" \/ (t.aborted = "attaching" /\ \E v \in vanished : Shared(v))
       /\ t.aborted = "no" => \A j \in 1..N : t.add[r.los[j]] = <<>>
       /\ t.aborted = "no" /\ ~t.failed => \A h \in Range(head_list) : Settled(t, h)
       /\ Keeps(r, t, {}) /\ Typed(t) /\ Owned(t)
  BY <1>10 DEF Processing, Good
<1>12. Keeps(s, t, Unwanted)
  BY <1>2, <1>11, KeepsTrans
<1>13. ASSUME t.aborted = "no", ~t.failed, NEW h \in Range(head_list)
       PROVE  Enabled(t, h) <=> Wanted(h)
  <2>1. h \in Heads /\ Settled(t, h)
    BY <1>11, <1>13, RangeOf DEF List
  <2>2. LayoutputOf(h) \in Names
    BY <2>1, HeadNames
  <2>3. t.add[LayoutputOf(h)] = <<>>
    <3>1. t.add[LayoutputOf(h)] # <<>> => LayoutputOf(h) \in Range(r.los)
      BY <1>11, <2>2 DEF Adding
    <3> QED BY <1>3, <1>11, <1>13, <3>1
  <2>4. h \notin Range(t.add[LayoutputOf(h)])
    <3>1. Range(t.add[LayoutputOf(h)]) = {}
      BY <1>11, <2>2, <2>3, RangeOf DEF Adding
    <3> QED BY <3>1
  <2>5. Enabled(t, h) => ~Off(h)
    <3> SUFFICES ASSUME Enabled(t, h) PROVE ~Off(h)
      OBVIOUS
    <3>1. PICK p \in On(t) : h \in HeadsOf(t, p)
      BY <1>11, <2>1, EnabledIs
    <3>2. p \in Outputs /\ t.out[p] # NULL
      BY <1>11, <3>1, RangeOf DEF Owned, Typed, List, On
    <3> QED BY <1>11, <3>1, <3>2 DEF Owned
  <2> QED BY <2>1, <2>4, <2>5 DEF Settled, Wanted, Wants
<1> QED BY <1>1, <1>10, <1>11, <1>12, <1>13 DEF t, r

-----------------------------------------------------------------------------
(* Where a pass places outputs.                                            *)

\* [a, a + la) against b
Line(align, a, la, b, lb) ==
    CASE align = "end" -> a + la = b + lb
      [] align = "center" -> 2 * a + la - 2 * b - lb \in -1 .. 1
      [] OTHER -> a = b

\* An output at me touches one at ref as the section of me says.
Beside(me, ref, sec) ==
    /\ CASE sec.direction = "top" -> me.y + me.h = ref.y
         [] sec.direction = "bottom" -> ref.y + ref.h = me.y
         [] sec.direction = "right" -> ref.x + ref.w = me.x
         [] OTHER -> me.x + me.w = ref.x
    /\ sec.direction \in {"top", "bottom"} => Line(sec.align, me.x, me.w, ref.x, ref.w)
    /\ sec.direction \notin {"top", "bottom"} => Line(sec.align, me.y, me.h, ref.y, ref.h)

\* Half of a difference, rounded towards zero, is an integer next to half of it.
LEMMA HalfIs ==
    ASSUME NEW d \in Int
    PROVE  Half(d) \in Int /\ 2 * Half(d) - d \in -1 .. 1
<1>1. CASE d >= 0
  <2>1. Half(d) = d \div 2
    BY <1>1 DEF Half
  <2> QED BY <1>1, <2>1
<1>2. CASE ~(d >= 0)
  <2>1. PICK e \in Nat : e = -d
    BY <1>2
  <2>2. Half(d) = -(e \div 2)
    BY <1>2, <2>1 DEF Half
  <2>3. e \div 2 \in Int /\ 2 * (e \div 2) - e \in -1 .. 0
    OBVIOUS
  <2> QED BY <2>1, <2>2, <2>3
<1> QED BY <1>1, <1>2

\* The offset of drm_position_layoutput aligns an output with the other.
LEMMA AlignedIs ==
    ASSUME NEW align, NEW a \in Nat, NEW b \in Nat, NEW x \in Int
    PROVE  /\ Aligned(align, a, b) \in Int
           /\ Line(align, x + Aligned(align, a, b), a, x, b)
<1>1. CASE align = "end"
  <2>1. Aligned(align, a, b) = b - a
    BY <1>1 DEF Aligned
  <2> QED BY <1>1, <2>1 DEF Line
<1>2. CASE align = "center"
  <2>1. Aligned(align, a, b) = Half(b - a)
    BY <1>2 DEF Aligned
  <2>2. PICK d : d = b - a
    OBVIOUS
  <2>3. PICK f : f = Half(d)
    OBVIOUS
  <2>4. d \in Int /\ f \in Int /\ 2 * f - d \in -1 .. 1
    BY <2>2, <2>3, HalfIs
  <2>5. 2 * (x + f) + a - 2 * x - b = 2 * f - d
    BY <2>2, <2>4
  <2>6. Aligned(align, a, b) = f
    BY <2>1, <2>2, <2>3
  <2> QED BY <1>2, <2>4, <2>5, <2>6 DEF Line
<1>3. CASE align # "end" /\ align # "center"
  <2>1. Aligned(align, a, b) = 0
    BY <1>3 DEF Aligned
  <2> QED BY <1>3, <2>1 DEF Line
<1> QED BY <1>1, <1>2, <1>3

\* Every output that there is has a place.
Located(at, s) ==
    /\ at \in [Outputs -> Geometry \cup {NULL}]
    /\ \A o \in Outputs : s.out[o] # NULL => at[o] \in Geometry

\* The outputs of the layoutputs in D stand as they shall, all of them beside
\* one of D, but for the one the others are placed from.
Stand(at, s, origin, D) ==
    /\ Located(at, s) /\ D \subseteq Names
    /\ \A n \in D :
        /\ s.wet[n] \in Outputs
        /\ n # origin =>
            /\ Refer(n, origin) \in D
            /\ Beside(at[s.wet[n]], at[s.wet[Refer(n, origin)]], SectionOf(n))

\* What weston_output_move changes.
LEMMA PlacedIs ==
    ASSUME NEW s, Owned(s), NEW at, Located(at, s), NEW origin, NEW n \in Names,
           s.wet[n] \in Outputs,
           n # origin => /\ Refer(n, origin) \in Names /\ s.wet[Refer(n, origin)] \in Outputs
                         /\ s.wet[Refer(n, origin)] # s.wet[n]
    PROVE  LET new == Placed(at, s, n, origin) IN
           /\ Located(new, s)
           /\ \A o \in Outputs \ {s.wet[n]} : new[o] = at[o]
           /\ n # origin =>
                Beside(new[s.wet[n]], at[s.wet[Refer(n, origin)]], SectionOf(n))
<1> DEFINE o == s.wet[n]
           p == s.wet[Refer(n, origin)]
           me == at[o]
           ref == at[p]
           sec == SectionOf(n)
           xy == IF n = origin THEN <<0, 0>>
                 ELSE CASE sec.direction = "top" ->
                           <<ref.x + Aligned(sec.align, me.w, ref.w), ref.y - me.h>>
                        [] sec.direction = "bottom" ->
                           <<ref.x + Aligned(sec.align, me.w, ref.w), ref.y + ref.h>>
                        [] sec.direction = "right" ->
                           <<ref.x + ref.w, ref.y + Aligned(sec.align, me.h, ref.h)>>
                        [] OTHER ->
                           <<ref.x - me.w, ref.y + Aligned(sec.align, me.h, ref.h)>>
           new == Placed(at, s, n, origin)
<1>1. new = [at EXCEPT ![o].x = xy[1], ![o].y = xy[2]]
  BY DEF Placed
<1>2. me \in Geometry /\ me.x \in Int /\ me.y \in Int /\ me.w \in Nat /\ me.h \in Nat
  BY DEF Located, Owned, Geometry
<1>3. n # origin => /\ ref \in Geometry /\ ref.x \in Int /\ ref.y \in Int
                    /\ ref.w \in Nat /\ ref.h \in Nat
  BY DEF Located, Owned, Geometry
<1> HIDE DEF p, me, ref, sec, new
<1>4. CASE n = origin
  <2>1. xy = <<0, 0>>
    BY <1>4
  <2>2. new = [at EXCEPT ![o].x = 0, ![o].y = 0]
    BY <1>1, <2>1
  <2>3. new[o] = [me EXCEPT !.x = 0, !.y = 0] /\ \A q \in Outputs \ {o} : new[q] = at[q]
    BY <2>2 DEF Located, me
  <2>4. new[o] \in Geometry
    <3>1. me = [x |-> me.x, y |-> me.y, w |-> me.w, h |-> me.h]
      BY <1>2 DEF Geometry
    <3>2. new[o] = [x |-> 0, y |-> 0, w |-> me.w, h |-> me.h]
      BY <2>3, <3>1
    <3> QED BY <1>2, <3>2 DEF Geometry
  <2>5. Located(new, s)
    BY <2>2, <2>3, <2>4 DEF Located
  <2> QED BY <1>4, <2>3, <2>5 DEF new
<1>5. CASE n # origin
  <2> DEFINE across == Aligned(sec.align, me.w, ref.w)
             along == Aligned(sec.align, me.h, ref.h)
  <2>1. /\ across \in Int /\ Line(sec.align, ref.x + across, me.w, ref.x, ref.w)
        /\ along \in Int /\ Line(sec.align, ref.y + along, me.h, ref.y, ref.h)
    BY <1>2, <1>3, <1>5, AlignedIs
  <2>2. xy = CASE sec.direction = "top" -> <<ref.x + across, ref.y - me.h>>
               [] sec.direction = "bottom" -> <<ref.x + across, ref.y + ref.h>>
               [] sec.direction = "right" -> <<ref.x + ref.w, ref.y + along>>
               [] OTHER -> <<ref.x - me.w, ref.y + along>>
    BY <1>5
  <2> HIDE DEF across, along
  <2>3. PICK X, Y : X = xy[1] /\ Y = xy[2]
    OBVIOUS
  <2>4. new = [at EXCEPT ![o].x = X, ![o].y = Y]
    BY <1>1, <2>3
  <2>5. /\ sec.direction = "top" => X = ref.x + across /\ Y = ref.y - me.h
        /\ sec.direction = "bottom" => X = ref.x + across /\ Y = ref.y + ref.h
        /\ sec.direction = "right" => X = ref.x + ref.w /\ Y = ref.y + along
        /\ sec.direction \notin {"top", "bottom", "right"} =>
                X = ref.x - me.w /\ Y = ref.y + along
    BY <2>2, <2>3
  <2> HIDE DEF xy
  <2>6. X \in Int /\ Y \in Int
    BY <1>2, <1>3, <1>5, <2>1, <2>5
  <2>7. new[o] = [me EXCEPT !.x = X, !.y = Y] /\ \A q \in Outputs \ {o} : new[q] = at[q]
    BY <2>4 DEF Located, me
  <2>8. new[o] = [x |-> X, y |-> Y, w |-> me.w, h |-> me.h]
    <3>1. me = [x |-> me.x, y |-> me.y, w |-> me.w, h |-> me.h]
      BY <1>2 DEF Geometry
    <3> QED BY <2>7, <3>1
  <2>9. new[o] \in Geometry
    BY <1>2, <2>6, <2>8 DEF Geometry
  <2>10. Located(new, s)
    BY <2>4, <2>7, <2>9 DEF Located
  <2>11. new[o].x = X /\ new[o].y = Y /\ new[o].w = me.w /\ new[o].h = me.h
    BY <2>8
  <2>12. ASSUME sec.direction = "top" PROVE Beside(new[o], ref, sec)
    BY <1>2, <1>3, <1>5, <2>1, <2>5, <2>11, <2>12 DEF Beside
  <2>13. ASSUME sec.direction = "bottom" PROVE Beside(new[o], ref, sec)
    BY <1>2, <1>3, <1>5, <2>1, <2>5, <2>11, <2>13 DEF Beside
  <2>14. ASSUME sec.direction = "right" PROVE Beside(new[o], ref, sec)
    BY <1>2, <1>3, <1>5, <2>1, <2>5, <2>11, <2>14 DEF Beside
  <2>15. ASSUME sec.direction \notin {"top", "bottom", "right"} PROVE Beside(new[o], ref, sec)
    BY <1>2, <1>3, <1>5, <2>1, <2>5, <2>11, <2>15 DEF Beside
  <2>16. Beside(new[o], ref, sec)
    BY <2>12, <2>13, <2>14, <2>15
  <2> QED BY <2>7, <2>10, <2>16 DEF new, ref, sec, p
<1> QED BY <1>4, <1>5

\* An output placed beside one that stands stands too, and those that stood do.
LEMMA PlacedStands ==
    ASSUME NEW s, Owned(s), NEW at, NEW origin, NEW D, Stand(at, s, origin, D),
           NEW n \in Names \ D, s.wet[n] \in Outputs, n = origin \/ Refer(n, origin) \in D
    PROVE  Stand(Placed(at, s, n, origin), s, origin, D \cup {n})
<1> DEFINE new == Placed(at, s, n, origin)
           r == Refer(n, origin)
<1>1. n # origin => r \in Names /\ r \in D /\ s.wet[r] \in Outputs /\ s.wet[r] # s.wet[n]
  BY DEF Stand, Owned
<1>2. /\ Located(new, s)
      /\ \A o \in Outputs \ {s.wet[n]} : new[o] = at[o]
      /\ n # origin => Beside(new[s.wet[n]], at[s.wet[r]], SectionOf(n))
  BY <1>1, PlacedIs DEF Stand
<1> HIDE DEF new
<1>3. \A m \in D : s.wet[m] \in Outputs /\ new[s.wet[m]] = at[s.wet[m]]
  BY <1>2 DEF Stand, Owned
<1>4. n # origin => Beside(new[s.wet[n]], new[s.wet[r]], SectionOf(n))
  BY <1>1, <1>2, <1>3
<1>5. ASSUME NEW m \in D, m # origin
      PROVE  /\ Refer(m, origin) \in D
             /\ Beside(new[s.wet[m]], new[s.wet[Refer(m, origin)]], SectionOf(m))
  <2>1. /\ Refer(m, origin) \in D
        /\ Beside(at[s.wet[m]], at[s.wet[Refer(m, origin)]], SectionOf(m))
    BY <1>5 DEF Stand
  <2> QED BY <1>3, <2>1
<1> QED BY <1>1, <1>2, <1>3, <1>4, <1>5 DEF Stand, new

-----------------------------------------------------------------------------
(* What a call of drm_position_layoutput places.                            *)

\* call[k] is what is on rec_buf in the k-th call inside the first.
Calls(s, n, origin, done, call) ==
    /\ call[0] = <<n>>
    /\ \A k \in 1..9 : call[k] = Deeper(s, call[k - 1], origin, done)
    /\ Chain(s, n, origin, done) = call[9]

\* The calls, one inside the other.
LEMMA ChainIs ==
    ASSUME NEW s, NEW n, NEW origin, NEW done
    PROVE  \E call : Calls(s, n, origin, done, call)
<1> DEFINE Step(f, i) == IF i = 0 THEN <<n>> ELSE Deeper(s, f[i - 1], origin, done)
           S == {k \in 0..9 : \E f : f = [i \in 0..k |-> Step(f, i)]}
           call == CHOOSE f : f = [i \in 0..9 |-> Step(f, i)]
<1>5. Chain(s, n, origin, done) = call[9]
  BY DEF Chain
<1>1. 0 \in S
  <2> DEFINE g == [i \in 0..0 |-> <<n>>]
  <2>1. \A i \in 0..0 : i = 0
    OBVIOUS
  <2>2. g = [i \in 0..0 |-> Step(g, i)]
    BY <2>1
  <2> HIDE DEF g
  <2> QED BY <2>2
<1>2. ASSUME NEW k \in 0..9, k \in S, k + 1 =< 9 PROVE k + 1 \in S
  <2>1. PICK f : f = [i \in 0..k |-> Step(f, i)]
    BY <1>2
  <2> DEFINE g == [i \in 0..k + 1 |-> IF i = k + 1 THEN Step(f, k + 1) ELSE f[i]]
  <2>2. \A i \in 0..k + 1 : i # 0 => i - 1 \in 0..k
    OBVIOUS
  <2>3. \A i \in 0..k : i \in 0..k + 1 /\ i # k + 1
    OBVIOUS
  <2>4. \A i \in 0..k + 1 : i # 0 => g[i - 1] = f[i - 1]
    BY <2>2, <2>3
  <2>5. \A i \in 0..k + 1 : Step(g, i) = Step(f, i)
    BY <2>4
  <2>6. \A i \in 0..k + 1 : i = k + 1 \/ i \in 0..k
    OBVIOUS
  <2>7. \A i \in 0..k + 1 : g[i] = Step(f, i)
    <3>1. \A i \in 0..k : f[i] = Step(f, i)
      BY <2>1
    <3> HIDE DEF Step
    <3> QED BY <2>6, <3>1
  <2>8. g = [i \in 0..k + 1 |-> g[i]]
    OBVIOUS
  <2> HIDE DEF g, Step
  <2>9. g = [i \in 0..k + 1 |-> Step(g, i)]
    BY <2>5, <2>7, <2>8
  <2>10. k + 1 \in 0..9
    BY <1>2
  <2> QED BY <2>9, <2>10
<1>3. 0..9 \subseteq S
  <2> HIDE DEF S
  <2> QED BY <1>1, <1>2, CountUp
<1>4. call = [i \in 0..9 |-> Step(call, i)]
  <2>1. 9 \in 0..9
    OBVIOUS
  <2> HIDE DEF Step
  <2>2. \E f : f = [i \in 0..9 |-> Step(f, i)]
    BY <1>3, <2>1
  <2> QED BY <2>2
<1> HIDE DEF call
<1>6. 0 \in 0..9 /\ \A i \in 1..9 : i \in 0..9 /\ i # 0
  OBVIOUS
<1>7. call[0] = <<n>> /\ \A i \in 1..9 : call[i] = Deeper(s, call[i - 1], origin, done)
  BY <1>4, <1>6
<1>8. Calls(s, n, origin, done, call)
  BY <1>5, <1>7 DEF Calls
<1> QED BY <1>8

\* c leads from n to what is placed already, or to the origin: layoutputs with
\* outputs, none twice, each of which refers to the next.
Leads(s, n, origin, done, c) ==
    /\ List(c, Names) /\ n \in Range(c) /\ Range(c) \cap done = {}
    /\ \A m \in Range(c) : s.wet[m] \in Outputs
    /\ \A i \in 1..Len(c) : i + 1 <= Len(c) => Refer(c[i], origin) = c[i + 1]

Ends(origin, done, c) == c[Len(c)] = origin \/ Refer(c[Len(c)], origin) \in done

\* One call deeper.
LEMMA DeeperLeads ==
    ASSUME NEW s, Typed(s), NEW n, NEW origin, NEW done, NEW c,
           Leads(s, n, origin, done, c), Len(c) <= 9,
           NEW k \in Nat, Ends(origin, done, c) \/ Len(c) = k + 1
    PROVE  LET d == Deeper(s, c, origin, done) IN
           \/ d = <<>>
           \/ /\ Leads(s, n, origin, done, d) /\ Len(d) <= 9
              /\ Ends(origin, done, d) \/ Len(d) = k + 2
<1> DEFINE d == Deeper(s, c, origin, done)
           r == Refer(c[Len(c)], origin)
<1>1. /\ c \in Seq(Names) /\ IsInjective(c) /\ Len(c) \in Nat /\ DOMAIN c = 1..Len(c)
      /\ Range(c) = {c[i] : i \in 1..Len(c)} /\ c # <<>> /\ Len(c) # 0
  BY RangeOf DEF Leads, List
<1>2. d = IF c = <<>> \/ c[Len(c)] = origin \/ r \in done THEN c
          ELSE IF \/ r \notin Range(s.los) \/ FirstOutput(s, r) = NULL
                  \/ r \in Range(c) \/ Len(c) >= 9
               THEN <<>>
          ELSE Append(c, r)
  BY DEF Deeper, Last
<1> HIDE DEF d, r
<1>3. CASE c[Len(c)] = origin \/ r \in done
  <2>1. d = c /\ Ends(origin, done, c)
    BY <1>2, <1>3 DEF Ends, r
  <2> QED BY <2>1 DEF d
<1>4. CASE ~(c[Len(c)] = origin \/ r \in done)
  <2>1. CASE d = <<>>
    BY <2>1 DEF d
  <2>2. CASE d # <<>>
    <3>1. /\ r \in Range(s.los) /\ FirstOutput(s, r) # NULL /\ r \notin Range(c)
          /\ ~(Len(c) >= 9) /\ d = Append(c, r)
      BY <1>1, <1>2, <1>4, <2>2
    <3>2. r \in Names /\ s.wet[r] \in Outputs
      BY <3>1, RangeOf DEF Typed, List, FirstOutput
    <3>3. List(c, Names)
      BY DEF Leads
    <3>4. List(d, Names) /\ Range(d) = Range(c) \cup {r} /\ Len(d) = Len(c) + 1
      BY <3>1, <3>2, <3>3, AppendList
    <3>5. d[Len(c) + 1] = r /\ \A i \in 1..Len(c) : d[i] = c[i]
      <4>1. c \in Seq(Names) /\ r \in Names
        BY <1>1, <3>2
      <4>2. d = Append(c, r)
        BY <3>1
      <4> QED BY <4>1, <4>2, SMTT(30)
    <3>10. PICK m \in Nat : m = Len(c)
      BY <1>1
    <3>11. Len(d) = m + 1
      BY <3>4, <3>10
    <3>6. ASSUME NEW i \in 1..Len(d), i + 1 <= Len(d) PROVE Refer(d[i], origin) = d[i + 1]
      <4>0. i \in Int /\ 1 <= i /\ i <= m
        <5>1. i \in 1..(m + 1) /\ i + 1 <= m + 1
          BY <3>6, <3>11
        <5> QED BY <3>10, <5>1
      <4>1. CASE i + 1 <= m
        <5>1. i \in 1..Len(c) /\ i + 1 \in 1..Len(c) /\ i + 1 <= Len(c)
          BY <3>10, <4>0, <4>1
        <5>2. d[i] = c[i] /\ d[i + 1] = c[i + 1]
          BY <3>5, <5>1
        <5> QED BY <5>1, <5>2 DEF Leads
      <4>2. CASE ~(i + 1 <= m)
        <5>1. i = Len(c) /\ i \in 1..Len(c)
          BY <3>10, <4>0, <4>2
        <5>2. d[i] = c[i] /\ d[i + 1] = r
          BY <3>5, <5>1
        <5> QED BY <5>1, <5>2 DEF r
      <4> QED BY <4>1, <4>2
    <3>7. Leads(s, n, origin, done, d)
      BY <1>4, <3>2, <3>4, <3>6 DEF Leads
    <3>8. Len(c) = k + 1
      BY <1>4 DEF Ends, r
    <3>9. Len(d) <= 9 /\ Len(d) = k + 2
      BY <1>1, <3>1, <3>4, <3>8
    <3> QED BY <3>7, <3>9 DEF d
  <2> QED BY <2>1, <2>2
<1> QED BY <1>3, <1>4

\* A call places nothing, or leads to what is placed.
LEMMA ChainLeads ==
    ASSUME NEW s, Typed(s), NEW n \in Names, s.wet[n] \in Outputs, NEW origin, NEW done,
           n \notin done
    PROVE  LET c == Chain(s, n, origin, done) IN
           c = <<>> \/ (Leads(s, n, origin, done, c) /\ Ends(origin, done, c))
<1>0. PICK call : Calls(s, n, origin, done, call)
  BY ChainIs
<1>1. /\ call[0] = <<n>>
      /\ \A k \in 1..9 : call[k] = Deeper(s, call[k - 1], origin, done)
      /\ Chain(s, n, origin, done) = call[9]
  BY <1>0 DEF Calls
<1> DEFINE G(k) == \/ call[k] = <<>>
                   \/ /\ Leads(s, n, origin, done, call[k]) /\ Len(call[k]) <= 9
                      /\ Ends(origin, done, call[k]) \/ Len(call[k]) = k + 1
           S == {k \in 0..9 : G(k)}
<1>2. 0 \in S
  <2>1. PICK c : c = <<n>>
    OBVIOUS
  <2>2. c \in Seq(Names) /\ Len(c) = 1 /\ c[1] = n
    BY <2>1
  <2>3. DOMAIN c = 1..1 /\ Range(c) = {n}
    <3>1. DOMAIN c = 1..1 /\ Range(c) = {c[i] : i \in 1..1}
      BY <2>2, RangeOf
    <3> QED BY <2>2, <3>1
  <2>4. IsInjective(c)
    BY <2>3 DEF IsInjective
  <2>5. Leads(s, n, origin, done, c)
    BY <2>2, <2>3, <2>4 DEF Leads, List
  <2> QED BY <1>1, <2>1, <2>2, <2>5
<1>3. ASSUME NEW k \in 0..9, k \in S, k + 1 =< 9 PROVE k + 1 \in S
  <2>1. k \in Nat /\ k + 1 \in 1..9 /\ (k + 1) - 1 = k /\ k + 1 \in 0..9 /\ k + 2 = (k + 1) + 1
    BY <1>3
  <2>2. call[k + 1] = Deeper(s, call[k], origin, done)
    BY <1>1, <2>1
  <2>3. CASE call[k] = <<>>
    <3>1. call[k + 1] = <<>>
      BY <2>2, <2>3 DEF Deeper
    <3> QED BY <2>1, <3>1
  <2>4. CASE call[k] # <<>>
    <3>1. /\ Leads(s, n, origin, done, call[k]) /\ Len(call[k]) <= 9
          /\ Ends(origin, done, call[k]) \/ Len(call[k]) = k + 1
      BY <1>3, <2>4
    <3>2. \/ call[k + 1] = <<>>
          \/ /\ Leads(s, n, origin, done, call[k + 1]) /\ Len(call[k + 1]) <= 9
             /\ Ends(origin, done, call[k + 1]) \/ Len(call[k + 1]) = k + 2
      BY <2>1, <2>2, <3>1, DeeperLeads
    <3> QED BY <2>1, <3>2
  <2> QED BY <2>3, <2>4
<1>4. 0..9 \subseteq S
  <2> HIDE DEF S
  <2> QED BY <1>2, <1>3, CountUp
<1>5. G(9)
  <2>1. 9 \in 0..9
    OBVIOUS
  <2> QED BY <1>4, <2>1
<1>6. PICK c : c = call[9]
  OBVIOUS
<1>7. \/ c = <<>>
      \/ /\ Leads(s, n, origin, done, c) /\ Len(c) <= 9
         /\ Ends(origin, done, c) \/ Len(c) = 10
  BY <1>5, <1>6
<1> HIDE DEF G, S
<1>8. c = <<>> \/ (Leads(s, n, origin, done, c) /\ Ends(origin, done, c))
  <2>1. CASE c = <<>>
    BY <2>1
  <2>2. CASE c # <<>>
    <3>1. Leads(s, n, origin, done, c) /\ (Ends(origin, done, c) \/ Len(c) = 10)
      BY <1>7, <2>2
    <3>2. Len(c) \in Nat /\ Len(c) <= 9
      BY <1>7, <2>2 DEF Leads, List
    <3>3. Len(c) # 10
      <4>1. PICK m : m = Len(c)
        OBVIOUS
      <4>2. m \in Nat /\ m <= 9
        BY <3>2, <4>1
      <4>3. m # 10
        BY <4>2
      <4> QED BY <4>1, <4>3
    <3> QED BY <3>1, <3>3
  <2> QED BY <2>1, <2>2
<1> QED BY <1>1, <1>6, <1>8

\* A call moves what it leads to, from the last to the first.
LEMMA PositionIs ==
    ASSUME NEW acc, NEW s, NEW n, NEW origin,
           Len(Chain(s, n, origin, acc.done)) \in Nat
    PROVE  LET chain == Chain(s, n, origin, acc.done) IN
           \E moved :
            /\ moved[0] = acc.at
            /\ \A k \in 1..Len(chain) :
                moved[k] = Placed(moved[k - 1], s, chain[Len(chain) + 1 - k], origin)
            /\ Position(acc, s, n, origin) =
                IF ~acc.ok \/ n \in acc.done \/ FirstOutput(s, n) = NULL THEN acc
                ELSE [ok |-> chain # <<>>, done |-> acc.done \cup Range(chain),
                      at |-> moved[Len(chain)]]
<1> DEFINE chain == Chain(s, n, origin, acc.done)
           N == Len(chain)
           Step(f, k) == IF k = 0 THEN acc.at
                         ELSE Placed(f[k - 1], s, chain[N + 1 - k], origin)
           S == {k \in 0..N : \E f : f = [i \in 0..k |-> Step(f, i)]}
           moved == CHOOSE f : f = [i \in 0..N |-> Step(f, i)]
<1>5. Position(acc, s, n, origin) =
        IF ~acc.ok \/ n \in acc.done \/ FirstOutput(s, n) = NULL THEN acc
        ELSE [ok |-> chain # <<>>, done |-> acc.done \cup Range(chain), at |-> moved[N]]
  BY DEF Position
<1>0. N \in Nat
  OBVIOUS
<1> HIDE DEF N, chain
<1>1. 0 \in S
  <2> DEFINE g == [i \in 0..0 |-> acc.at]
  <2>1. \A i \in 0..0 : i = 0
    OBVIOUS
  <2>2. g = [i \in 0..0 |-> Step(g, i)]
    BY <2>1
  <2>3. 0 \in 0..N
    BY <1>0
  <2> HIDE DEF g
  <2> QED BY <2>2, <2>3
<1>2. ASSUME NEW k \in 0..N, k \in S, k + 1 =< N PROVE k + 1 \in S
  <2>1. PICK f : f = [i \in 0..k |-> Step(f, i)]
    BY <1>2
  <2> DEFINE g == [i \in 0..k + 1 |-> IF i = k + 1 THEN Step(f, k + 1) ELSE f[i]]
  <2>2. \A i \in 0..k + 1 : i # 0 => i - 1 \in 0..k
    BY <1>0
  <2>3. \A i \in 0..k : i \in 0..k + 1 /\ i # k + 1
    BY <1>0
  <2>4. \A i \in 0..k + 1 : i # 0 => g[i - 1] = f[i - 1]
    BY <2>2, <2>3
  <2>5. \A i \in 0..k + 1 : Step(g, i) = Step(f, i)
    BY <2>4
  <2>6. \A i \in 0..k + 1 : i = k + 1 \/ i \in 0..k
    BY <1>0
  <2>7. \A i \in 0..k + 1 : g[i] = Step(f, i)
    <3>1. \A i \in 0..k : f[i] = Step(f, i)
      BY <2>1
    <3> HIDE DEF Step
    <3> QED BY <2>6, <3>1
  <2>8. g = [i \in 0..k + 1 |-> g[i]]
    OBVIOUS
  <2> HIDE DEF g, Step
  <2>9. g = [i \in 0..k + 1 |-> Step(g, i)]
    BY <2>5, <2>7, <2>8
  <2>10. k + 1 \in 0..N
    BY <1>0, <1>2
  <2> QED BY <2>9, <2>10
<1>3. 0..N \subseteq S
  <2> HIDE DEF S
  <2> QED BY <1>0, <1>1, <1>2, CountUp
<1>4. moved = [i \in 0..N |-> Step(moved, i)]
  <2>1. N \in 0..N
    BY <1>0
  <2> HIDE DEF Step
  <2>2. \E f : f = [i \in 0..N |-> Step(f, i)]
    BY <1>3, <2>1
  <2> QED BY <2>2
<1> HIDE DEF moved
<1>6. 0 \in 0..N /\ \A k \in 1..N : k \in 0..N /\ k # 0
  BY <1>0
<1>7. /\ moved[0] = acc.at
      /\ \A k \in 1..N : moved[k] = Placed(moved[k - 1], s, chain[N + 1 - k], origin)
  BY <1>4, <1>6
<1> QED BY <1>5, <1>7 DEF N, chain

\* Whatever a call places stands, and what stood before stands too.
LEMMA PositionStands ==
    ASSUME NEW s, Typed(s), Owned(s), NEW origin, NEW acc, acc.ok \in BOOLEAN,
           Stand(acc.at, s, origin, acc.done), NEW n \in Names
    PROVE  LET new == Position(acc, s, n, origin) IN
           /\ new.ok \in BOOLEAN /\ (new.ok => acc.ok)
           /\ Stand(new.at, s, origin, new.done) /\ acc.done \subseteq new.done
           /\ new.ok /\ s.wet[n] \in Outputs => n \in new.done
<1> DEFINE new == Position(acc, s, n, origin)
           chain == Chain(s, n, origin, acc.done)
           N == Len(chain)
           still == ~acc.ok \/ n \in acc.done \/ FirstOutput(s, n) = NULL
<1>1. CASE still
  <2>1. new = acc
    BY <1>1 DEF Position
  <2>2. s.wet[n] \in Outputs => FirstOutput(s, n) # NULL
    BY NullAssumption DEF FirstOutput
  <2> QED BY <1>1, <2>1, <2>2
<1>2. CASE ~still
  <2>1. acc.ok /\ n \notin acc.done /\ s.wet[n] \in Outputs
    BY <1>2 DEF FirstOutput
  <2>2. chain = <<>> \/ (Leads(s, n, origin, acc.done, chain) /\ Ends(origin, acc.done, chain))
    BY <2>1, ChainLeads
  <2>3. Len(chain) \in Nat
    BY <2>2 DEF Leads, List
  <2>4. PICK moved :
            /\ moved[0] = acc.at
            /\ \A k \in 1..N : moved[k] = Placed(moved[k - 1], s, chain[N + 1 - k], origin)
            /\ new = IF still THEN acc
                     ELSE [ok |-> chain # <<>>, done |-> acc.done \cup Range(chain),
                           at |-> moved[N]]
    BY <2>3, PositionIs
  <2>5. /\ new.ok = (chain # <<>>) /\ new.done = acc.done \cup Range(chain)
        /\ new.at = moved[N]
    BY <1>2, <2>4
  <2> HIDE DEF still, new, chain
  <2>6. CASE chain = <<>>
    <3>1. N = 0 /\ Range(chain) = {}
      <4>1. chain \in Seq(Names) /\ N = 0
        BY <2>6
      <4>2. Range(chain) = {chain[j] : j \in 1..N}
        BY <4>1, RangeOf
      <4> QED BY <4>1, <4>2
    <3>2. new.at = acc.at /\ new.done = acc.done /\ new.ok = FALSE
      BY <2>4, <2>5, <2>6, <3>1
    <3> QED BY <3>2 DEF new
  <2>7. CASE chain # <<>>
    <3>1. Leads(s, n, origin, acc.done, chain) /\ Ends(origin, acc.done, chain)
      BY <2>2, <2>7
    <3> DEFINE D(k) == acc.done \cup {chain[j] : j \in N + 1 - k .. N}
               S == {k \in 0..N : Stand(moved[k], s, origin, D(k))}
    <3>2. /\ chain \in Seq(Names) /\ IsInjective(chain) /\ N \in Nat /\ N # 0
          /\ DOMAIN chain = 1..N /\ Range(chain) = {chain[j] : j \in 1..N}
      BY <2>7, <3>1, RangeOf DEF Leads, List
    <3> HIDE DEF N
    <3>3. 0 \in S
      <4>1. D(0) = acc.done /\ 0 \in 0..N
        BY <3>2
      <4> QED BY <2>4, <4>1
    <3>4. ASSUME NEW k \in 0..N, k \in S, k + 1 =< N PROVE k + 1 \in S
      <4>1. /\ k \in Nat /\ k + 1 \in 1..N /\ (k + 1) - 1 = k /\ k + 1 \in 0..N
            /\ N - k \in 1..N /\ N + 1 - (k + 1) = N - k /\ N + 1 - k = (N - k) + 1
        BY <3>2, <3>4
      <4>2. PICK i \in 1..N : i = N - k
        BY <4>1
      <4>3. /\ moved[k + 1] = Placed(moved[k], s, chain[i], origin)
            /\ Stand(moved[k], s, origin, D(k))
        BY <2>4, <3>4, <4>1, <4>2
      <4>4. /\ D(k) = acc.done \cup {chain[j] : j \in i + 1 .. N}
            /\ D(k + 1) = acc.done \cup {chain[j] : j \in i .. N}
        BY <4>1, <4>2
      <4>5. chain[i] \in Range(chain) /\ chain[i] \in Names
        BY <3>2
      <4>6. chain[i] \notin D(k)
        <5>1. \A j \in i + 1 .. N : j \in DOMAIN chain /\ j # i
          BY <3>2
        <5>2. i \in DOMAIN chain
          BY <3>2
        <5>3. \A j \in i + 1 .. N : chain[j] # chain[i]
          BY <3>2, <5>1, <5>2 DEF IsInjective
        <5>4. chain[i] \notin acc.done
          BY <3>1, <4>5 DEF Leads
        <5> QED BY <4>4, <5>3, <5>4
      <4>7. s.wet[chain[i]] \in Outputs
        BY <3>1, <4>5 DEF Leads
      <4>8. chain[i] = origin \/ Refer(chain[i], origin) \in D(k)
        <5>1. CASE i = N
          BY <3>1, <4>4, <5>1 DEF Ends, N
        <5>2. CASE i # N
          <6>1. i + 1 <= N /\ i + 1 \in i + 1 .. N
            BY <3>2, <5>2
          <6>2. Refer(chain[i], origin) = chain[i + 1]
            BY <3>1, <6>1 DEF Leads, N
          <6> QED BY <4>4, <6>1, <6>2
        <5> QED BY <5>1, <5>2
      <4>9. D(k + 1) = D(k) \cup {chain[i]}
        <5>1. i .. N = (i + 1 .. N) \cup {i}
          BY <3>2
        <5> QED BY <4>4, <5>1
      <4> HIDE DEF D
      <4>10. Stand(moved[k + 1], s, origin, D(k + 1))
        BY <4>3, <4>5, <4>6, <4>7, <4>8, <4>9, PlacedStands
      <4> QED BY <4>1, <4>10
    <3>5. 0..N \subseteq S
      <4> HIDE DEF S
      <4> QED BY <3>2, <3>3, <3>4, CountUp
    <3>6. Stand(moved[N], s, origin, D(N)) /\ D(N) = acc.done \cup Range(chain)
      <4>1. N \in 0..N /\ N + 1 - N = 1
        BY <3>2
      <4>2. D(N) = acc.done \cup Range(chain)
        BY <3>2, <4>1
      <4> HIDE DEF D
      <4> QED BY <3>5, <4>1, <4>2
    <3>7. n \in Range(chain)
      BY <3>1 DEF Leads
    <3> QED BY <2>1, <2>5, <2>7, <3>6, <3>7 DEF N, new
  <2> QED BY <2>6, <2>7
<1> QED BY <1>1, <1>2

-----------------------------------------------------------------------------
(* The pass that places all of them.                                       *)

\* The calls, one after the other.
LEMMA PositionedIs ==
    ASSUME NEW s, Len(s.los) \in Nat
    PROVE  \E pass :
            /\ pass[0] = [at |-> s.place, ok |-> Origin(s) # NULL, done |-> {}]
            /\ \A i \in 1..Len(s.los) :
                pass[i] = Position(pass[i - 1], s, s.los[i], Origin(s))
            /\ Positioned(s) = pass[Len(s.los)]
<1> DEFINE N == Len(s.los)
           origin == Origin(s)
           none == [at |-> s.place, ok |-> origin # NULL, done |-> {}]
           Step(f, i) == IF i = 0 THEN none ELSE Position(f[i - 1], s, s.los[i], origin)
           S == {k \in 0..N : \E f : f = [i \in 0..k |-> Step(f, i)]}
           pass == CHOOSE f : f = [i \in 0..N |-> Step(f, i)]
<1>5. Positioned(s) = pass[N]
  BY DEF Positioned
<1>0. N \in Nat
  OBVIOUS
<1> HIDE DEF N, origin, none
<1>1. 0 \in S
  <2> DEFINE g == [i \in 0..0 |-> none]
  <2>1. \A i \in 0..0 : i = 0
    OBVIOUS
  <2>2. g = [i \in 0..0 |-> Step(g, i)]
    BY <2>1
  <2>3. 0 \in 0..N
    BY <1>0
  <2> HIDE DEF g
  <2> QED BY <2>2, <2>3
<1>2. ASSUME NEW k \in 0..N, k \in S, k + 1 =< N PROVE k + 1 \in S
  <2>1. PICK f : f = [i \in 0..k |-> Step(f, i)]
    BY <1>2
  <2> DEFINE g == [i \in 0..k + 1 |-> IF i = k + 1 THEN Step(f, k + 1) ELSE f[i]]
  <2>2. \A i \in 0..k + 1 : i # 0 => i - 1 \in 0..k
    BY <1>0
  <2>3. \A i \in 0..k : i \in 0..k + 1 /\ i # k + 1
    BY <1>0
  <2>4. \A i \in 0..k + 1 : i # 0 => g[i - 1] = f[i - 1]
    BY <2>2, <2>3
  <2>5. \A i \in 0..k + 1 : Step(g, i) = Step(f, i)
    BY <2>4
  <2>6. \A i \in 0..k + 1 : i = k + 1 \/ i \in 0..k
    BY <1>0
  <2>7. \A i \in 0..k + 1 : g[i] = Step(f, i)
    <3>1. \A i \in 0..k : f[i] = Step(f, i)
      BY <2>1
    <3> HIDE DEF Step
    <3> QED BY <2>6, <3>1
  <2>8. g = [i \in 0..k + 1 |-> g[i]]
    OBVIOUS
  <2> HIDE DEF g, Step
  <2>9. g = [i \in 0..k + 1 |-> Step(g, i)]
    BY <2>5, <2>7, <2>8
  <2>10. k + 1 \in 0..N
    BY <1>0, <1>2
  <2> QED BY <2>9, <2>10
<1>3. 0..N \subseteq S
  <2> HIDE DEF S
  <2> QED BY <1>0, <1>1, <1>2, CountUp
<1>4. pass = [i \in 0..N |-> Step(pass, i)]
  <2>1. N \in 0..N
    BY <1>0
  <2> HIDE DEF Step
  <2>2. \E f : f = [i \in 0..N |-> Step(f, i)]
    BY <1>3, <2>1
  <2> QED BY <2>2
<1> HIDE DEF pass
<1>6. 0 \in 0..N /\ \A i \in 1..N : i \in 0..N /\ i # 0
  BY <1>0
<1>7. pass[0] = none /\ \A i \in 1..N : pass[i] = Position(pass[i - 1], s, s.los[i], origin)
  BY <1>4, <1>6
<1> QED BY <1>5, <1>7 DEF N, none, origin

\* Every output but that of the origin is beside the one it refers to.
Standing(at, s) ==
    \A n \in Names \ {Origin(s)} : s.wet[n] \in Outputs =>
        Beside(at[s.wet[n]], at[s.wet[Refer(n, Origin(s))]], SectionOf(n))

\* After a pass that went through every layoutput, the outputs stand.
LEMMA PositionedStands ==
    ASSUME NEW s, Typed(s), Owned(s), Listed(s), Located(s.place, s)
    PROVE  /\ Located(Positioned(s).at, s)
           /\ Positioned(s).ok => Standing(Positioned(s).at, s)
<1>1. s.los \in Seq(Names) /\ Len(s.los) \in Nat /\ Range(s.los) = {s.los[i] : i \in 1..Len(s.los)}
  BY RangeOf DEF Typed, List
<1>2. PICK pass :
        /\ pass[0] = [at |-> s.place, ok |-> Origin(s) # NULL, done |-> {}]
        /\ \A i \in 1..Len(s.los) : pass[i] = Position(pass[i - 1], s, s.los[i], Origin(s))
        /\ Positioned(s) = pass[Len(s.los)]
  BY <1>1, PositionedIs
<1> DEFINE N == Len(s.los)
           origin == Origin(s)
           Going(acc, k) ==
                /\ acc.ok \in BOOLEAN /\ Stand(acc.at, s, origin, acc.done)
                /\ acc.ok => \A j \in 1..k : s.wet[s.los[j]] \in Outputs => s.los[j] \in acc.done
           S == {k \in 0..N : Going(pass[k], k)}
<1> HIDE DEF N, origin
<1>3. N \in Nat /\ \A i \in 1..N : s.los[i] \in Names
  BY <1>1 DEF N
<1>4. 0 \in S
  <2>1. /\ pass[0].ok = (origin # NULL) /\ pass[0].done = {} /\ pass[0].at = s.place
    BY <1>2 DEF origin
  <2>2. Stand(pass[0].at, s, origin, pass[0].done)
    BY <2>1 DEF Stand
  <2>3. pass[0].ok \in BOOLEAN
    <3>1. (origin # NULL) \in BOOLEAN
      OBVIOUS
    <3> QED BY <2>1, <3>1
  <2>4. 0 \in 0..N /\ 1..0 = {}
    BY <1>3
  <2> QED BY <2>2, <2>3, <2>4
<1>5. ASSUME NEW k \in 0..N, k \in S, k + 1 =< N PROVE k + 1 \in S
  <2>1. k \in Nat /\ k + 1 \in 1..N /\ (k + 1) - 1 = k /\ k + 1 \in 0..N
    BY <1>3, <1>5
  <2>2. PICK n \in Names : n = s.los[k + 1]
    BY <1>3, <2>1
  <2>3. pass[k + 1] = Position(pass[k], s, n, origin)
    BY <1>2, <2>1, <2>2 DEF N, origin
  <2>4. Going(pass[k], k)
    BY <1>5
  <2>5. PICK old : old = pass[k]
    OBVIOUS
  <2>6. PICK new : new = Position(old, s, n, origin)
    OBVIOUS
  <2>7. /\ new.ok \in BOOLEAN /\ (new.ok => old.ok)
        /\ Stand(new.at, s, origin, new.done) /\ old.done \subseteq new.done
        /\ new.ok /\ s.wet[n] \in Outputs => n \in new.done
    BY <2>4, <2>5, <2>6, PositionStands
  <2>8. ASSUME new.ok, NEW j \in 1..k + 1, s.wet[s.los[j]] \in Outputs
        PROVE  s.los[j] \in new.done
    <3>1. CASE j = k + 1
      BY <2>2, <2>7, <2>8, <3>1
    <3>2. CASE j # k + 1
      <4>1. j \in 1..k
        BY <2>1, <3>2
      <4> QED BY <2>4, <2>5, <2>7, <2>8, <4>1
    <3> QED BY <3>1, <3>2
  <2>9. Going(new, k + 1)
    BY <2>7, <2>8
  <2> HIDE DEF Going
  <2> QED BY <2>1, <2>3, <2>5, <2>6, <2>9
<1>6. 0..N \subseteq S
  <2> HIDE DEF S
  <2> QED BY <1>3, <1>4, <1>5, CountUp
<1>7. PICK p : p = Positioned(s)
  OBVIOUS
<1>8. Going(p, N)
  <2>1. N \in 0..N /\ p = pass[N]
    BY <1>2, <1>3, <1>7 DEF N
  <2> QED BY <1>6, <2>1
<1>9. ASSUME p.ok, NEW n \in Names \ {origin}, s.wet[n] \in Outputs
      PROVE  Beside(p.at[s.wet[n]], p.at[s.wet[Refer(n, origin)]], SectionOf(n))
  <2>1. PICK j \in 1..N : n = s.los[j]
    BY <1>1, <1>9 DEF Listed, N
  <2>2. n \in p.done
    BY <1>8, <1>9, <2>1
  <2> QED BY <1>8, <1>9, <2>2 DEF Stand
<1> QED BY <1>7, <1>8, <1>9 DEF Standing, Stand, origin

-----------------------------------------------------------------------------
(* The state as a record, and what is put back of one.                      *)

\* Whatever flips there are, a pass starts from a good record.
LEMMA NowIs ==
    ASSUME IInv, NEW F, F \subseteq Outputs
    PROVE  LET s == Now(F) IN
           /\ Good(s, vanished) /\ Visiting(s, s, 0)
           /\ s.wet = wet /\ s.out = out /\ s.list = output_list /\ s.tracked = tracked
           /\ s.los = layoutput_list /\ s.failed = FALSE /\ s.aborted = "no"
           /\ s.flip = F \cup {o \in Outputs : out[o] # NULL /\ out[o].deferred # "no"}
<1> DEFINE s == Now(F)
           z == Now({})
<1>1. /\ s.wet = wet /\ s.out = out /\ s.list = output_list /\ s.tracked = tracked
      /\ s.los = layoutput_list /\ s.failed = FALSE /\ s.aborted = "no"
      /\ s.flip = F \cup {o \in Outputs : out[o] # NULL /\ out[o].deferred # "no"}
      /\ s.add = [n \in Names |-> <<>>] /\ Rec(s)
  BY DEF Now, Rec
<1>2. /\ z.wet = wet /\ z.out = out /\ z.list = output_list /\ z.tracked = tracked
      /\ z.los = layoutput_list
  BY DEF Now
<1>3. Typed(z) /\ Owned(z) /\ Lit(z) /\ Explained(z, vanished) /\ Cloned(z)
  BY DEF IInv, Good
<1> HIDE DEF s, z
<1>4. On(s) = On(z) /\ \A o : HeadsOf(s, o) = HeadsOf(z, o)
  BY <1>1, <1>2 DEF On, HeadsOf
<1>5. Typed(s)
  BY <1>1, <1>2, <1>3 DEF Typed
<1>6. Owned(s) /\ Lit(s)
  BY <1>1, <1>2, <1>3, <1>4 DEF Owned, Lit
<1>7. Explained(s, vanished)
  BY <1>1, <1>2, <1>3, <1>4 DEF Explained
<1>8. Cloned(s)
  BY <1>1, <1>2, <1>3, <1>4 DEF Cloned
<1>9. Flips(s)
  BY <1>1 DEF Flips
<1>10. Adding(s)
  <2>1. \A n \in Names : s.add[n] = <<>> /\ Range(s.add[n]) = {} /\ IsInjective(s.add[n])
    <3>1. PICK e \in Seq(Heads) : e = <<>>
      BY EmptySeq
    <3>2. Range(e) = {} /\ DOMAIN e = {}
      <4>1. Len(e) = 0 /\ DOMAIN e = 1..Len(e) /\ Range(e) = {}
        BY <3>1, RangeOf
      <4> QED BY <4>1
    <3>3. Range(<<>>) = {} /\ DOMAIN <<>> = {}
      BY <3>1, <3>2
    <3> QED BY <1>1, <3>3 DEF IsInjective
  <2>2. s.add \in [Names -> Seq(Heads)]
    BY <1>1, EmptySeq
  <2> QED BY <2>1, <2>2 DEF Adding
<1>11. Good(s, vanished)
  BY <1>1, <1>5, <1>6, <1>7, <1>8, <1>9 DEF Good
<1>12. Visiting(s, s, 0)
  <2>1. \A n \in Names : Range(s.add[n]) = {}
    <3>1. Range(<<>>) = {}
      BY EmptySeq, RangeOf
    <3> QED BY <1>1, <3>1
  <2>2. Keeps(s, s, Unwanted)
    BY DEF Keeps
  <2> QED BY <1>1, <1>10, <1>11, <2>1, <2>2 DEF Visiting
<1> QED BY <1>1, <1>11, <1>12 DEF s

\* What the configuration says does not change with the outputs.
LEMMA ConfigKept ==
    ASSUME config' = config
    PROVE  /\ \A h : LayoutputOf(h)' = LayoutputOf(h) /\ (Off(h)' <=> Off(h))
           /\ \A h : Forced(h)' <=> Forced(h)
           /\ \A h : Shared(h)' <=> Shared(h)
<1>1. \A h : Controlling(h)' = Controlling(h)
  BY DEF Controlling
<1>2. \A h : LayoutputOf(h)' = LayoutputOf(h) /\ (Off(h)' <=> Off(h))
  BY <1>1 DEF LayoutputOf, Off
<1>3. \A h : Forced(h)' <=> Forced(h)
  BY <1>1 DEF Forced
<1>4. \A h : Shared(h)' <=> Shared(h)
  BY <1>2 DEF Shared
<1> QED BY <1>2, <1>3, <1>4

\* A good record, assigned to the variables, is what Now finds there.
LEMMA PutGood ==
    ASSUME NEW u, Good(u, vanished'), config' = config,
           wet' = u.wet, out' = u.out, output_list' = u.list, tracked' = u.tracked,
           layoutput_list' = u.los
    PROVE  Good(Now({}), vanished)'
<1>1. /\ wet' = u.wet /\ out' = u.out /\ output_list' = u.list /\ tracked' = u.tracked
      /\ layoutput_list' = u.los
  OBVIOUS
<1>2. /\ Typed(u) /\ Owned(u) /\ Lit(u) /\ Explained(u, vanished') /\ Cloned(u)
  BY DEF Good
<1>3. \A h : LayoutputOf(h)' = LayoutputOf(h) /\ (Off(h)' <=> Off(h))
  BY ConfigKept
<1>4. \A h : Shared(h)' <=> Shared(h)
  BY ConfigKept
<1>5. Rec(Now({}))' /\ Flips(Now({}))'
  BY DEF Rec, Now, Flips
<1>6. Typed(Now({}))'
  BY <1>1, <1>2 DEF Typed, Now, List
<1>7. Owned(Now({}))'
  BY <1>1, <1>2, <1>3 DEF Owned, Now, On, HeadsOf
<1>8. Lit(Now({}))'
  BY <1>1, <1>2 DEF Lit, Now, On
<1>9. Explained(Now({}), vanished)'
  BY <1>1, <1>2, <1>3, <1>4 DEF Explained, Now, On
<1>10. Cloned(Now({}))'
  BY <1>1, <1>2, <1>4 DEF Cloned, Now, HeadsOf
<1> QED BY <1>5, <1>6, <1>7, <1>8, <1>9, <1>10 DEF Good

-----------------------------------------------------------------------------
(* Connectors that disappear, and flips that are done.                      *)

\* A head that one output has, and no other, is on that one.
LEMMA OnlyOutput ==
    ASSUME NEW s, NEW h, NEW o \in Outputs,
           \A p \in Outputs : s.out[p] # NULL /\ h \in HeadsOf(s, p) <=> p = o
    PROVE  OutputOf(s, h) = o
<1> DEFINE os == {p \in Outputs : s.out[p] # NULL /\ h \in Range(s.out[p].heads)}
<1>1. os = {o}
  BY DEF HeadsOf
<1>2. OutputOf(s, h) = IF os = {} THEN NULL ELSE CHOOSE p \in os : TRUE
  BY DEF OutputOf
<1> QED BY <1>1, <1>2

\* A head that no output has is on none.
LEMMA NoOutput ==
    ASSUME NEW s, NEW h, Free(s, h)
    PROVE  OutputOf(s, h) = NULL
<1> DEFINE os == {p \in Outputs : s.out[p] # NULL /\ h \in Range(s.out[p].heads)}
<1>1. os = {}
  BY DEF HeadsOf, Free
<1>2. OutputOf(s, h) = IF os = {} THEN NULL ELSE CHOOSE p \in os : TRUE
  BY DEF OutputOf
<1> QED BY <1>1, <1>2

\* What is not on the output that changes is enabled as before.
LEMMA OthersEnabled ==
    ASSUME NEW s, NEW t, Typed(s), Owned(s), Typed(t), Owned(t),
           NEW o \in Outputs, Differ(s, t, o), NEW g \in Heads,
           s.out[o] # NULL => g \notin HeadsOf(s, o),
           t.out[o] # NULL => g \notin HeadsOf(t, o)
    PROVE  Enabled(t, g) <=> Enabled(s, g)
<1>1. On(s) \subseteq Outputs /\ On(t) \subseteq Outputs
  BY RangeOf DEF Typed, List, On
<1>2. \A p \in Outputs \ {o} : HeadsOf(t, p) = HeadsOf(s, p) /\ (p \in On(t) <=> p \in On(s))
  BY DEF Differ, HeadsOf
<1>3. /\ o \in On(s) => s.out[o] # NULL
      /\ o \in On(t) => t.out[o] # NULL
  BY DEF Owned
<1>4. \A p \in Outputs : p \in On(s) /\ g \in HeadsOf(s, p) <=> p \in On(t) /\ g \in HeadsOf(t, p)
  <2> SUFFICES ASSUME NEW p \in Outputs
               PROVE  p \in On(s) /\ g \in HeadsOf(s, p) <=> p \in On(t) /\ g \in HeadsOf(t, p)
    OBVIOUS
  <2>1. CASE p = o
    BY <1>3, <2>1
  <2>2. CASE p # o
    BY <1>2, <2>2
  <2> QED BY <2>1, <2>2
<1> QED BY <1>1, <1>4, EnabledIs

\* Outputs have only gone from s to u, and with them the wet_outputs' own.
Shrunk(s, u) ==
    On(u) \subseteq On(s) /\ \A n \in Names : u.wet[n] \in {s.wet[n], Left}

\* The layoutput n has lost its output.
Lost(s, n) == s.wet[n] \in {Left} \cup (Outputs \ On(s))

\* What is lost is not found again that way.
LEMMA LostStays ==
    ASSUME NEW s, NEW u, Shrunk(s, u), NEW n \in Names, Lost(s, n)
    PROVE  Lost(u, n)
BY DEF Shrunk, Lost

\* In u, h has left the output o of s, which has the heads left and is d: as it
\* was, about to be freed, or, as h was a clone, disabled now or later.
Leaving(s, u, h, o, left, d) ==
    /\ left = RemoveFirst(s.out[o].heads, h) /\ d \in {"no", "disable", "destroy"}
    /\ Aside(s, u) /\ u.wet = s.wet /\ u.tracked = s.tracked \ {h}
    /\ u.out = With(s, o, WithHeads(left, d))
    /\ List(u.list, Outputs) /\ Len(u.list) <= Crtcs
    /\ On(u) = On(s) \/ (On(u) = On(s) \ {o} /\ left = <<>> /\ Shared(h))
    /\ \/ d = s.out[o].deferred
       \/ d = "destroy" /\ o \in s.flip
       \/ d = "disable" /\ o \in s.flip /\ s.out[o].deferred = "no" /\ Shared(h)
    /\ o \in On(u) /\ d = "no" => left # <<>>

\* An output that a head leaves is good when it is given up with its last
\* head.
LEMMA LeavingKeeps ==
    ASSUME config \in Configs, NEW s, NEW v, Good(s, v), NEW h \in Heads,
           NEW o \in Outputs, s.out[o] # NULL, h \in HeadsOf(s, o),
           NEW left, NEW d, NEW u, Leaving(s, u, h, o, left, d)
    PROVE  /\ Good(u, v \cup {h}) /\ Keeps(s, u, {h})
           /\ \A g \in Heads \ {h} : Enabled(u, g) <=> Enabled(s, g)
<1>0. /\ left = RemoveFirst(s.out[o].heads, h) /\ d \in {"no", "disable", "destroy"}
      /\ Aside(s, u) /\ u.wet = s.wet /\ u.tracked = s.tracked \ {h}
      /\ u.out = With(s, o, WithHeads(left, d))
      /\ List(u.list, Outputs) /\ Len(u.list) <= Crtcs
      /\ On(u) = On(s) \/ (On(u) = On(s) \ {o} /\ left = <<>> /\ Shared(h))
      /\ \/ d = s.out[o].deferred
         \/ d = "destroy" /\ o \in s.flip
         \/ d = "disable" /\ o \in s.flip /\ s.out[o].deferred = "no" /\ Shared(h)
      /\ o \in On(u) /\ d = "no" => left # <<>>
  BY DEF Leaving
<1>1. /\ Typed(s) /\ Owned(s) /\ On(s) \subseteq Outputs /\ SoundOutput(s, o, v)
      /\ List(s.out[o].heads, Heads)
      /\ \A g \in HeadsOf(s, o) : /\ g \in Heads /\ s.wet[LayoutputOf(g)] = o /\ ~Off(g)
                                  /\ g \notin s.tracked =>
                                        s.out[o].deferred = "destroy" \/ Shared(g)
  BY GoodOutput
<1>2. LayoutputOf(h) \in Names /\ s.wet[LayoutputOf(h)] = o
  BY <1>0, <1>1, HeadNames
<1>3. List(left, Heads) /\ Range(left) = HeadsOf(s, o) \ {h} /\ left \in Seq(Heads)
      /\ (left = <<>> <=> Range(left) = {})
  BY <1>0, <1>1, RemoveList, RangeOf DEF List, HeadsOf
<1>4. /\ s.out \in [Outputs -> WestonOutput \cup {NULL}] /\ s.tracked \subseteq Heads
      /\ s.wet \in [Names -> Outputs \cup {None, Left}]
  BY <1>0, <1>1 DEF Typed
<1>5. /\ u.out \in [Outputs -> WestonOutput \cup {NULL}] /\ u.out[o] # NULL
      /\ u.out[o].heads = left /\ u.out[o].deferred = d
      /\ \A p \in Outputs \ {o} : u.out[p] = s.out[p]
  <2>1. /\ With(s, o, WithHeads(left, d)) \in [Outputs -> WestonOutput \cup {NULL}]
        /\ With(s, o, WithHeads(left, d))[o] = WithHeads(left, d) /\ WithHeads(left, d) # NULL
        /\ WithHeads(left, d).heads = left /\ WithHeads(left, d).deferred = d
        /\ \A x \in Outputs \ {o} : With(s, o, WithHeads(left, d))[x] = s.out[x]
    BY <1>0, <1>3, <1>4, OutputUpdate
  <2> QED BY <1>0, <2>1
<1>6. \A p \in Outputs \ {o} : s.out[p] # NULL => h \notin HeadsOf(s, p)
  BY <1>0, <1>1, OutputOfIs
<1>7. Differ(s, u, o)
  <2>1. \A p \in Outputs \ {o} : s.out[p] # NULL =>
            \A g \in HeadsOf(s, p) \cap s.tracked : g \in u.tracked
    BY <1>0, <1>6
  <2> QED BY <1>0, <1>4, <1>5, <2>1 DEF Differ, Aside
<1>8. HeadsOf(u, o) = HeadsOf(s, o) \ {h}
  BY <1>0, <1>3, <1>5 DEF HeadsOf
<1>9. SoundOutput(u, o, v \cup {h})
  <2>1. ASSUME NEW g \in HeadsOf(u, o)
        PROVE  /\ u.wet[LayoutputOf(g)] = o /\ ~Off(g)
               /\ g \notin u.tracked => u.out[o].deferred = "destroy" \/ Shared(g)
    <3>1. g \in HeadsOf(s, o) /\ g # h
      BY <1>0, <1>8
    <3>2. g \notin u.tracked => g \notin s.tracked
      BY <1>0, <3>1
    <3> QED BY <1>0, <1>1, <1>5, <3>1, <3>2
  <2>2. u.out[o].deferred # "no" => o \in u.flip
    BY <1>0, <1>1, <1>5 DEF SoundOutput, Aside
  <2>3. o \in On(u) /\ u.out[o].deferred = "no" => u.out[o].heads # <<>>
    BY <1>0, <1>5
  <2>4. \A m, n \in Names : u.wet[m] = o /\ u.wet[n] = o => m = n
    BY <1>0, <1>1 DEF SoundOutput
  <2>5. ASSUME NEW n \in Names, u.wet[n] = o
        PROVE  /\ o \notin On(u) => \E g \in v \cup {h} : LayoutputOf(g) = n /\ Shared(g)
               /\ u.out[o].deferred # "no" => \E g \in v \cup {h} : LayoutputOf(g) = n
               /\ u.out[o].deferred = "disable" =>
                    \E g \in v \cup {h} : LayoutputOf(g) = n /\ Shared(g)
    <3>1. LayoutputOf(h) = n
      BY <1>0, <1>1, <1>2, <2>5 DEF SoundOutput
    <3>2. /\ o \notin On(s) => \E g \in v : LayoutputOf(g) = n /\ Shared(g)
          /\ s.out[o].deferred = "disable" =>
                    \E g \in v : LayoutputOf(g) = n /\ Shared(g)
      BY <1>0, <1>1, <2>5 DEF SoundOutput
    <3> QED BY <1>0, <1>5, <3>1, <3>2
  <2>6. IsInjective(u.out[o].heads)
    BY <1>0, <1>3, <1>5 DEF List
  <2> QED BY <1>0, <1>5, <2>1, <2>2, <2>3, <2>4, <2>5, <2>6 DEF SoundOutput
<1>10. Good(u, v \cup {h})
  BY <1>0, <1>7, <1>9, OneOutput
<1>11. Typed(u) /\ Owned(u)
  BY <1>0, <1>10 DEF Good
<1>12. Keeps(s, u, {h})
  <2> SUFFICES ASSUME NEW p \in On(s), NEW g \in HeadsOf(s, p) \ {h}
               PROVE  p \in On(u) /\ g \in HeadsOf(u, p)
    BY <1>0 DEF Keeps
  <2>1. CASE p = o
    BY <1>0, <1>3, <1>8, <2>1
  <2>2. CASE p # o
    BY <1>0, <1>1, <1>5, <2>2 DEF HeadsOf
  <2> QED BY <1>0, <2>1, <2>2
<1>13. ASSUME NEW g \in Heads \ {h}
       PROVE  Enabled(u, g) <=> Enabled(s, g)
  <2>1. CASE g \in HeadsOf(s, o)
    <3>1. g \in HeadsOf(u, o) /\ left # <<>>
      BY <1>3, <1>8, <2>1
    <3>2. On(u) = On(s)
      BY <1>0, <3>1
    <3>3. Enabled(u, g) <=> o \in On(u)
      BY <1>5, <1>11, <3>1, EnabledIs
    <3>4. Enabled(s, g) <=> o \in On(s)
      BY <1>1, <2>1, EnabledIs
    <3> QED BY <3>2, <3>3, <3>4
  <2>2. CASE g \notin HeadsOf(s, o)
    BY <1>0, <1>1, <1>7, <1>8, <1>11, <2>2, OthersEnabled
  <2> QED BY <2>1, <2>2
<1> QED BY <1>0, <1>10, <1>12, <1>13

\* An output goes at once, with its wet_output's reference to it.
LEMMA ReleasedKeeps ==
    ASSUME config \in Configs, NEW s, NEW v, Good(s, v), NEW o \in Outputs, s.out[o] # NULL
    PROVE  LET t == Released(s, o) IN
           /\ Good(t, v) /\ Aside(s, t) /\ t.out[o] = NULL /\ t.tracked = s.tracked
           /\ Differ(s, t, o)
<1> DEFINE t == Released(s, o)
<1>1. /\ Typed(s) /\ Owned(s) /\ Rec(s) /\ On(s) \subseteq Outputs
      /\ s.wet \in [Names -> Outputs \cup {None, Left}]
      /\ s.out \in [Outputs -> WestonOutput \cup {NULL}]
      /\ List(s.list, Outputs) /\ Len(s.list) <= Crtcs /\ s.tracked \subseteq Heads
      /\ Crtcs \in Int /\ Len(s.list) \in Int
  <2>1. Typed(s) /\ Owned(s) /\ Rec(s)
    BY DEF Good
  <2> QED BY <2>1, RangeOf, NumbersAssumption DEF Typed, List, On
<1>2. /\ Aside(s, t) /\ t.list = RemoveFirst(s.list, o)
      /\ t.wet = [n \in Names |-> IF s.wet[n] = o THEN Left ELSE s.wet[n]]
      /\ t.out = [s.out EXCEPT ![o] = NULL] /\ t.tracked = s.tracked
  BY <1>1, ReleasedIs
<1> HIDE DEF t
<1>3. List(t.list, Outputs) /\ On(t) = On(s) \ {o} /\ Len(t.list) <= Crtcs
  <2>1. /\ List(t.list, Outputs) /\ Range(t.list) = Range(s.list) \ {o}
        /\ Len(t.list) <= Len(s.list)
    BY <1>1, <1>2, RemoveList
  <2>2. Len(t.list) \in Int
    BY <2>1, RangeOf DEF List
  <2> QED BY <1>1, <2>1, <2>2 DEF On
<1>4. /\ t.wet \in [Names -> Outputs \cup {None, Left}]
      /\ \A n \in Names : /\ t.wet[n] # o
                          /\ t.wet[n] # s.wet[n] => s.wet[n] = o /\ t.wet[n] \notin Outputs
  BY <1>1, <1>2, Ids
<1>5. /\ t.out \in [Outputs -> WestonOutput \cup {NULL}] /\ t.out[o] = NULL
      /\ \A p \in Outputs \ {o} : t.out[p] = s.out[p]
  BY <1>1, <1>2
<1>6. Differ(s, t, o)
  BY <1>1, <1>2, <1>3, <1>4, <1>5 DEF Differ, Aside
<1>7. SoundOutput(t, o, v)
  BY <1>3, <1>4, <1>5 DEF SoundOutput
<1>8. Good(t, v)
  BY <1>6, <1>7, OneOutput
<1> QED BY <1>2, <1>5, <1>6, <1>8 DEF t

\* ... which the layoutput has then lost, and no other.
LEMMA ReleasedShrinks ==
    ASSUME NEW s, Rec(s), List(s.list, Outputs), NEW o
    PROVE  LET t == Released(s, o) IN
           Shrunk(s, t) /\ \A n \in Names : s.wet[n] = o => Lost(t, n)
<1> DEFINE t == Released(s, o)
<1>1. /\ Aside(s, t) /\ t.list = RemoveFirst(s.list, o)
      /\ t.wet = [n \in Names |-> IF s.wet[n] = o THEN Left ELSE s.wet[n]]
      /\ t.out = [s.out EXCEPT ![o] = NULL] /\ t.tracked = s.tracked
  BY ReleasedIs
<1> HIDE DEF t
<1>2. Range(t.list) = Range(s.list) \ {o}
  BY <1>1, RemoveList
<1> QED BY <1>1, <1>2 DEF Shrunk, Lost, On, t

\* The invariant of an output is that of one fewer tracker and more vanished heads
\* when the head without it is on no output.
LEMMA UntrackedKeeps ==
    ASSUME config \in Configs, NEW s, NEW v, Good(s, v), NEW h \in Heads, Free(s, h)
    PROVE  LET t == [s EXCEPT !.tracked = @ \ {h}] IN
           /\ Good(t, v \cup {h}) /\ Aside(s, t) /\ Keeps(s, t, {h})
           /\ \A g \in Heads : Enabled(t, g) <=> Enabled(s, g)
           /\ Free(t, h)
<1> DEFINE t == [s EXCEPT !.tracked = @ \ {h}]
           o == <<h>>
<1>1. o \in Outputs
  BY HeadsAssumption, Ids
<1>2. /\ Typed(s) /\ Owned(s) /\ Rec(s) /\ On(s) \subseteq Outputs /\ SoundOutput(s, o, v)
  BY <1>1, GoodOutput
<1>3. /\ Aside(s, t) /\ t.tracked = s.tracked \ {h} /\ t.list = s.list
      /\ t.wet = s.wet /\ t.out = s.out
  BY <1>2, UntrackedIs
<1> HIDE DEF t, o
<1>4. On(t) = On(s) /\ \A p : HeadsOf(t, p) = HeadsOf(s, p)
  BY <1>3 DEF On, HeadsOf
<1>5. Differ(s, t, o)
  <2>1. \A p \in Outputs : s.out[p] # NULL =>
            \A g \in HeadsOf(s, p) \cap s.tracked : g \in t.tracked
    BY <1>3 DEF Free
  <2> QED BY <1>2, <1>3, <1>4, <2>1 DEF Differ, Typed, Aside
<1>6. SoundOutput(t, o, v \cup {h})
  <2>1. s.out[o] # NULL => \A g \in HeadsOf(s, o) : g \notin t.tracked => g \notin s.tracked
    BY <1>1, <1>3 DEF Free
  <2>2. \A n \in Names : t.wet[n] = o =>
          /\ o \notin On(t) => \E g \in v \cup {h} : LayoutputOf(g) = n /\ Shared(g)
          /\ t.out[o].deferred # "no" => \E g \in v \cup {h} : LayoutputOf(g) = n
          /\ t.out[o].deferred = "disable" =>
              \E g \in v \cup {h} : LayoutputOf(g) = n /\ Shared(g)
    BY <1>2, <1>3, <1>4 DEF SoundOutput
  <2>3. t.out[o] # NULL =>
          /\ IsInjective(t.out[o].heads)
          /\ \A g \in HeadsOf(t, o) :
              /\ t.wet[LayoutputOf(g)] = o /\ ~Off(g)
              /\ g \notin t.tracked => t.out[o].deferred = "destroy" \/ Shared(g)
          /\ o \in On(t) /\ t.out[o].deferred = "no" => t.out[o].heads # <<>>
          /\ t.out[o].deferred # "no" => o \in t.flip
    BY <1>2, <1>3, <1>4, <2>1 DEF SoundOutput, Aside
  <2>4. /\ o \in On(t) \/ (\E n \in Names : t.wet[n] = o) => t.out[o] # NULL
        /\ \A m, n \in Names : t.wet[m] = o /\ t.wet[n] = o => m = n
    BY <1>2, <1>3, <1>4 DEF SoundOutput
  <2> QED BY <2>2, <2>3, <2>4 DEF SoundOutput
<1>7. Good(t, v \cup {h})
  BY <1>1, <1>5, <1>6, OneOutput
<1>8. Typed(t) /\ Owned(t)
  BY <1>7 DEF Good
<1>9. \A g \in Heads : Enabled(t, g) <=> Enabled(s, g)
  BY <1>2, <1>4, <1>8, EnabledIs
<1>10. Keeps(s, t, {h}) /\ Free(t, h)
  BY <1>3, <1>4 DEF Keeps, Free
<1> QED BY <1>3, <1>7, <1>9, <1>10 DEF t

\* Without its only element, and only then, a list is empty.
LEMMA LoneElement ==
    ASSUME NEW S, NEW s, List(s, S), NEW e \in Range(s)
    PROVE  RemoveFirst(s, e) = <<>> <=> Len(s) = 1
<1> DEFINE t == RemoveFirst(s, e)
<1>1. /\ s \in Seq(S) /\ Len(s) \in Nat /\ DOMAIN s = 1..Len(s)
      /\ Range(s) = {s[i] : i \in 1..Len(s)}
      /\ \A i, j \in 1..Len(s) : s[i] = s[j] => i = j
  BY RangeOf DEF List, IsInjective
<1>2. Range(t) = Range(s) \ {e} /\ (t = <<>> <=> Range(t) = {})
  BY RemoveList, RangeOf DEF List
<1> HIDE DEF t
<1>3. ASSUME Len(s) = 1 PROVE Range(s) = {e}
  <2>1. \A i \in 1..Len(s) : i = 1
    BY <1>3
  <2> QED BY <1>1, <2>1
<1>4. ASSUME Range(s) = {e} PROVE Len(s) = 1
  <2>1. Len(s) # 0
    BY <1>1
  <2>2. \A i \in 1..Len(s) : s[i] = e
    BY <1>1, <1>4
  <2>3. 2 \in 1..Len(s) => 1 \in 1..Len(s)
    BY <1>1
  <2>4. 2 \notin 1..Len(s)
    BY <1>1, <2>2, <2>3
  <2> QED BY <1>1, <2>1, <2>4
<1> QED BY <1>2, <1>3, <1>4 DEF t

\* drm_head_destroy, with the destroy listener of the head's tracker
Unplugged(s, h) ==
    LET o == OutputOf(s, h)
        last == o # NULL /\ Len(s.out[o].heads) = 1
        t == IF h \in s.tracked /\ last THEN Destroyed(s, o) ELSE s
    IN  Detached([t EXCEPT !.tracked = @ \ {h}], h)

\* A connector that disappears leaves a good record, but has vanished.
LEMMA UnpluggedKeeps ==
    ASSUME config \in Configs, NEW s, NEW v, Good(s, v), NEW h \in Heads
    PROVE  LET u == Unplugged(s, h) IN
           /\ Good(u, v \cup {h}) /\ Keeps(s, u, {h}) /\ Shrunk(s, u)
           /\ u.failed = s.failed /\ u.aborted = s.aborted
           /\ \A g \in Heads \ {h} : Enabled(u, g) <=> Enabled(s, g)
<1> DEFINE o == OutputOf(s, h)
           last == o # NULL /\ Len(s.out[o].heads) = 1
           t == IF h \in s.tracked /\ last THEN Destroyed(s, o) ELSE s
           r == [t EXCEPT !.tracked = @ \ {h}]
           u == Detached(r, h)
<1>1. /\ Typed(s) /\ Owned(s) /\ Rec(s) /\ On(s) \subseteq Outputs
      /\ s.out \in [Outputs -> WestonOutput \cup {NULL}]
      /\ List(s.list, Outputs) /\ Len(s.list) <= Crtcs
      /\ Crtcs \in Int /\ Len(s.list) \in Int
  <2>1. Typed(s) /\ Owned(s) /\ Rec(s)
    BY DEF Good
  <2> QED BY <2>1, RangeOf, NumbersAssumption DEF Typed, List, On
<1>2. Unplugged(s, h) = u
  BY DEF Unplugged
<1>3. CASE o = NULL
  <2>1. Free(s, h)
    BY <1>1, <1>3, OutputOfIs, Ids DEF Free
  <2>2. r = [s EXCEPT !.tracked = @ \ {h}]
    BY <1>3
  <2> HIDE DEF o, t, r, u
  <2>3. /\ Good(r, v \cup {h}) /\ Aside(s, r) /\ Keeps(s, r, {h})
        /\ \A g \in Heads : Enabled(r, g) <=> Enabled(s, g)
        /\ Free(r, h)
    BY <2>1, <2>2, UntrackedKeeps
  <2>4. OutputOf(r, h) = NULL
    BY <2>3, NoOutput
  <2>5. u = r
    BY <2>4 DEF Detached, u
  <2>6. r.list = s.list /\ r.wet = s.wet
    BY <1>1, <2>2, UntrackedIs
  <2>7. Shrunk(s, r)
    BY <2>6 DEF Shrunk, On
  <2> QED BY <1>2, <2>3, <2>5, <2>7 DEF Aside
<1>4. CASE o # NULL
  <2>1. o \in Outputs /\ s.out[o] # NULL /\ h \in HeadsOf(s, o)
    BY <1>1, <1>4, OutputOfIs
  <2> DEFINE left == RemoveFirst(s.out[o].heads, h)
             was == s.out[o].deferred
  <2>2. /\ List(s.out[o].heads, Heads) /\ s.out[o].heads \in Seq(Heads)
        /\ was \in {"no", "disable", "destroy"}
        /\ s.out[o] = [heads |-> s.out[o].heads, deferred |-> was]
        /\ h \notin s.tracked => was = "destroy" \/ Shared(h)
        /\ was # "no" => o \in s.flip
        /\ s.wet[LayoutputOf(h)] = o
    BY <1>1, <2>1, GoodOutput, OutputTypes DEF SoundOutput, List
  <2>3. left = <<>> <=> Len(s.out[o].heads) = 1
    BY <2>1, <2>2, LoneElement DEF HeadsOf
  <2>4. last <=> left = <<>>
    BY <1>4, <2>3
  <2>5. \A p \in Outputs \ {o} : s.out[p] # NULL => h \notin HeadsOf(s, p)
    BY <1>1, <2>1, OutputOfIs
  <2>6. LayoutputOf(h) \in Names /\ (Range(left) = HeadsOf(s, o) \ {h})
        /\ (left = <<>> <=> Range(left) = {})
    BY <2>2, HeadNames, RemoveList, RangeOf DEF List, HeadsOf
  <2>7. t = IF h \in s.tracked /\ left = <<>> THEN Destroyed(s, o) ELSE s
    BY <2>4
  <2> HIDE DEF o, t, r, u, left, was, last
  <2>8. CASE h \in s.tracked /\ left = <<>> /\ o \notin s.flip
    <3>1. t = Released(s, o)
      BY <1>1, <2>7, <2>8, DestroyedIs
    <3>2. /\ Good(t, v) /\ Aside(s, t) /\ t.out[o] = NULL /\ t.tracked = s.tracked
          /\ Differ(s, t, o)
      BY <2>1, <3>1, ReleasedKeeps
    <3>3. Free(t, h)
      BY <2>5, <3>2 DEF Differ, Free, HeadsOf
    <3>4. /\ Good(r, v \cup {h}) /\ Aside(t, r) /\ Keeps(t, r, {h})
          /\ \A g \in Heads : Enabled(r, g) <=> Enabled(t, g)
          /\ Free(r, h)
      BY <3>2, <3>3, UntrackedKeeps DEF r
    <3>5. u = r
      <4>1. OutputOf(r, h) = NULL
        BY <3>4, NoOutput
      <4> QED BY <4>1 DEF Detached, u
    <3>6. Keeps(s, t, {h})
      <4> SUFFICES ASSUME NEW p \in On(s), NEW g \in HeadsOf(s, p) \ {h}
                   PROVE  p \in On(t) /\ g \in HeadsOf(t, p)
        BY DEF Keeps
      <4>1. p # o
        BY <2>6, <2>8
      <4> QED BY <1>1, <3>2, <4>1 DEF Differ, HeadsOf
    <3>7. ASSUME NEW g \in Heads \ {h}
          PROVE  Enabled(t, g) <=> Enabled(s, g)
      <4>1. g \notin HeadsOf(s, o)
        BY <2>6, <2>8
      <4>2. Typed(t) /\ Owned(t)
        BY <3>2 DEF Good
      <4> QED BY <1>1, <2>1, <3>2, <4>1, <4>2, OthersEnabled
    <3>8. u.failed = s.failed /\ u.aborted = s.aborted
      BY <3>2, <3>4, <3>5 DEF Aside
    <3>9. r.list = t.list /\ r.wet = t.wet
      BY <3>2, UntrackedIs DEF r, Aside
    <3>10. Shrunk(s, r)
      <4>1. Shrunk(s, t)
        BY <1>1, <3>1, ReleasedShrinks
      <4> QED BY <3>9, <4>1 DEF Shrunk, On
    <3> QED BY <1>2, <3>4, <3>5, <3>6, <3>7, <3>8, <3>10, KeepsTrans
  <2>9. CASE ~(h \in s.tracked /\ left = <<>> /\ o \notin s.flip)
    <3> DEFINE dying == h \in s.tracked /\ left = <<>>
    <3>1. PICK e \in {"no", "disable", "destroy"} : e = IF dying THEN "destroy" ELSE was
      BY <2>2
    <3>2. /\ Aside(s, t) /\ t.list = s.list /\ t.wet = s.wet /\ t.tracked = s.tracked
          /\ t.out = With(s, o, WithHeads(s.out[o].heads, e))
      <4>1. CASE dying
        <5>1. /\ Aside(s, t) /\ t.list = s.list /\ t.wet = s.wet
              /\ t.out = [s.out EXCEPT ![o].deferred = "destroy"]
              /\ t.tracked = s.tracked
          BY <1>1, <2>7, <2>9, <4>1, DestroyedIs
        <5>2. PICK b : b = s.out[o].heads
          OBVIOUS
        <5>3. [s.out EXCEPT ![o].deferred = "destroy"]
              = [s.out EXCEPT ![o] = [heads |-> b, deferred |-> "destroy"]]
          BY <2>2, <5>2
        <5> QED BY <3>1, <4>1, <5>1, <5>2, <5>3 DEF With, WithHeads
      <4>2. CASE ~dying
        <5>1. t = s
          BY <2>7, <4>2
        <5>2. PICK b : b = s.out[o]
          OBVIOUS
        <5>3. s.out = [s.out EXCEPT ![o] = b]
          BY <1>1, <2>1, <5>2
        <5>4. b = WithHeads(s.out[o].heads, e)
          BY <2>2, <3>1, <4>2, <5>2 DEF WithHeads
        <5>5. s.out = With(s, o, WithHeads(s.out[o].heads, e))
          BY <5>3, <5>4 DEF With
        <5> QED BY <1>1, <5>1, <5>5 DEF Aside
      <4> QED BY <4>1, <4>2
    <3>3. /\ t.out \in [Outputs -> WestonOutput \cup {NULL}] /\ t.out[o] # NULL
          /\ t.out[o].heads = s.out[o].heads /\ t.out[o].deferred = e
          /\ \A p \in Outputs \ {o} : t.out[p] = s.out[p]
      <4>1. PICK b \in Seq(Heads) : b = s.out[o].heads
        BY <2>2
      <4>2. /\ With(s, o, WithHeads(b, e)) \in [Outputs -> WestonOutput \cup {NULL}]
            /\ With(s, o, WithHeads(b, e))[o] = WithHeads(b, e) /\ WithHeads(b, e) # NULL
            /\ WithHeads(b, e).heads = b /\ WithHeads(b, e).deferred = e
            /\ \A x \in Outputs \ {o} : With(s, o, WithHeads(b, e))[x] = s.out[x]
        BY <1>1, <2>1, OutputUpdate
      <4> QED BY <3>2, <4>1, <4>2
    <3>4. /\ Rec(r) /\ Aside(t, r) /\ r.tracked = s.tracked \ {h} /\ r.list = s.list
          /\ r.wet = s.wet /\ r.out = t.out /\ r.flip = s.flip /\ On(r) = On(s)
      <4>1. Rec(t)
        BY <3>2 DEF Aside
      <4>2. /\ Aside(t, r) /\ r.tracked = t.tracked \ {h} /\ r.list = t.list
            /\ r.wet = t.wet /\ r.out = t.out
        BY <4>1, UntrackedIs DEF r
      <4> QED BY <3>2, <4>2 DEF Aside, On
    <3>5. OutputOf(r, h) = o
      <4>1. \A p \in Outputs : r.out[p] # NULL /\ h \in HeadsOf(r, p) <=> p = o
        BY <2>1, <2>5, <3>3, <3>4 DEF HeadsOf
      <4> QED BY <2>1, <4>1, OnlyOutput
    <3>6. r.out[o].heads = s.out[o].heads /\ r.out[o].deferred = e /\ r.out[o] # NULL
          /\ r.out \in [Outputs -> WestonOutput \cup {NULL}] /\ o # NULL
      BY <2>1, <3>3, <3>4, Ids
    <3> DEFINE gone == o \in On(s) /\ left = <<>>
    <3>7. PICK d \in {"no", "disable", "destroy"} :
                d = IF gone /\ o \in s.flip /\ e = "no" THEN "disable" ELSE e
      OBVIOUS
    <3>8. /\ Aside(r, u) /\ u.wet = s.wet /\ u.tracked = s.tracked \ {h}
          /\ u.list = IF gone /\ o \notin s.flip THEN RemoveFirst(s.list, o) ELSE s.list
          /\ u.out = [r.out EXCEPT ![o] = [heads |-> left, deferred |-> d]]
      <4>1. /\ Aside(r, u) /\ u.wet = r.wet /\ u.tracked = r.tracked
            /\ u.list = IF o \in On(r) /\ RemoveFirst(r.out[o].heads, h) = <<>> /\ o \notin r.flip
                        THEN RemoveFirst(r.list, o) ELSE r.list
            /\ u.out = [r.out EXCEPT ![o] =
                  [heads |-> RemoveFirst(r.out[o].heads, h), deferred |->
                        IF o \in On(r) /\ RemoveFirst(r.out[o].heads, h) = <<>>
                           /\ o \in r.flip /\ r.out[o].deferred = "no"
                        THEN "disable" ELSE r.out[o].deferred]]
        BY <2>1, <3>4, <3>5, <3>6, DetachedIs DEF u
      <4>2. RemoveFirst(r.out[o].heads, h) = left
        BY <3>6 DEF left
      <4> QED BY <3>4, <3>6, <3>7, <4>1, <4>2
    <3>9. Aside(s, u)
      BY <3>2, <3>4, <3>8 DEF Aside
    <3>10. u.out = With(s, o, WithHeads(left, d))
      <4>1. PICK a, b : a = WithHeads(s.out[o].heads, e) /\ b = WithHeads(left, d)
        OBVIOUS
      <4>2. r.out = [s.out EXCEPT ![o] = a] /\ u.out = [r.out EXCEPT ![o] = b]
        BY <3>2, <3>4, <3>8, <4>1 DEF With, WithHeads
      <4>3. u.out = [s.out EXCEPT ![o] = b]
        BY <4>2
      <4> QED BY <4>1, <4>3 DEF With
    <3>11. gone => o \in On(s) /\ left = <<>>
      OBVIOUS
    <3>12. gone /\ o \notin s.flip => Shared(h)
      BY <2>2, <2>9
    <3>13. /\ List(u.list, Outputs) /\ Len(u.list) <= Crtcs
           /\ On(u) = On(s) \/ (On(u) = On(s) \ {o} /\ left = <<>> /\ Shared(h))
           /\ gone /\ o \notin s.flip => o \notin On(u)
      <4>1. CASE gone /\ o \notin s.flip
        <5>1. u.list = RemoveFirst(s.list, o)
          BY <3>8, <4>1
        <5>2. List(u.list, Outputs) /\ Range(u.list) = Range(s.list) \ {o}
              /\ Len(u.list) <= Len(s.list)
          BY <1>1, <5>1, RemoveList
        <5>3. Len(u.list) \in Int
          BY <5>2, RangeOf DEF List
        <5> QED BY <1>1, <3>12, <4>1, <5>2, <5>3 DEF On
      <4>2. CASE ~(gone /\ o \notin s.flip)
        BY <1>1, <3>8, <4>2 DEF On
      <4> QED BY <4>1, <4>2
    <3>14. /\ \/ d = was
              \/ d = "destroy" /\ o \in s.flip
              \/ d = "disable" /\ o \in s.flip /\ was = "no" /\ Shared(h)
           /\ o \in On(u) /\ d = "no" => left # <<>>
      <4>1. CASE dying
        <5>1. e = "destroy" /\ d = "destroy" /\ o \in s.flip
          BY <2>9, <3>1, <3>7, <4>1
        <5> QED BY <5>1
      <4>2. CASE ~dying
        <5>1. e = was
          BY <3>1, <4>2
        <5>2. o \in On(u) => o \in On(s)
          BY <3>13
        <5>3. gone => h \notin s.tracked
          BY <4>2
        <5> QED BY <2>2, <3>7, <3>13, <5>1, <5>2, <5>3
      <4> QED BY <4>1, <4>2
    <3> HIDE DEF dying, gone
    <3>15. /\ Good(u, v \cup {h}) /\ Keeps(s, u, {h})
           /\ \A g \in Heads \ {h} : Enabled(u, g) <=> Enabled(s, g)
      <4>1. left = RemoveFirst(s.out[o].heads, h)
        BY DEF left
      <4>2. /\ Aside(s, u) /\ u.wet = s.wet /\ u.tracked = s.tracked \ {h}
            /\ u.out = With(s, o, WithHeads(left, d))
            /\ List(u.list, Outputs) /\ Len(u.list) <= Crtcs
        BY <3>8, <3>9, <3>10, <3>13
      <4>3. On(u) = On(s) \/ (On(u) = On(s) \ {o} /\ left = <<>> /\ Shared(h))
        BY <3>13
      <4>4. d \in {"no", "disable", "destroy"}
        OBVIOUS
      <4>5. /\ \/ d = s.out[o].deferred
               \/ d = "destroy" /\ o \in s.flip
               \/ d = "disable" /\ o \in s.flip /\ s.out[o].deferred = "no" /\ Shared(h)
            /\ o \in On(u) /\ d = "no" => left # <<>>
        BY <3>14 DEF was
      <4>6. Leaving(s, u, h, o, left, d)
        BY <4>1, <4>2, <4>3, <4>4, <4>5 DEF Leaving
      <4> QED BY <2>1, <4>6, LeavingKeeps
    <3>16. Shrunk(s, u)
      BY <3>8, <3>13 DEF Shrunk
    <3> QED BY <1>2, <3>9, <3>15, <3>16 DEF Aside
  <2> QED BY <2>8, <2>9
<1> QED BY <1>3, <1>4

\* drm_output_update_complete, of an output o that waits to be freed or disabled
Completed(s, o) ==
    IF s.out[o].deferred = "destroy" THEN Released(s, o)
    ELSE RemoveOutput([s EXCEPT !.out[o].deferred = "no"], o)

\* What a flip completes leaves a good record; the other outputs stay.
LEMMA CompletedKeeps ==
    ASSUME config \in Configs, NEW s, NEW v, Good(s, v),
           NEW o \in Outputs, s.out[o] # NULL, s.out[o].deferred # "no"
    PROVE  LET u == Completed(s, o) IN
           /\ Good(u, v) /\ u.failed = s.failed /\ u.aborted = s.aborted
           /\ Differ(s, u, o) /\ Shrunk(s, u)
           /\ u.out[o] # NULL => HeadsOf(u, o) = HeadsOf(s, o)
           /\ \A n \in Names : s.wet[n] = o => Lost(u, n)
<1> DEFINE u == Completed(s, o)
<1>1. /\ Typed(s) /\ Owned(s) /\ Rec(s) /\ On(s) \subseteq Outputs
      /\ s.wet \in [Names -> Outputs \cup {None, Left}]
      /\ s.out \in [Outputs -> WestonOutput \cup {NULL}]
      /\ List(s.list, Outputs) /\ Len(s.list) <= Crtcs /\ s.tracked \subseteq Heads
      /\ Crtcs \in Int /\ Len(s.list) \in Int /\ SoundOutput(s, o, v)
  <2>1. Typed(s) /\ Owned(s) /\ Rec(s)
    BY DEF Good
  <2> QED BY <2>1, RangeOf, NumbersAssumption, GoodOutput DEF Typed, List, On
<1>2. CASE s.out[o].deferred = "destroy"
  <2>1. u = Released(s, o)
    BY <1>2 DEF Completed
  <2> HIDE DEF u
  <2>2. Shrunk(s, u) /\ \A n \in Names : s.wet[n] = o => Lost(u, n)
    BY <1>1, <2>1, ReleasedShrinks
  <2> QED BY <2>1, <2>2, ReleasedKeeps DEF Aside, u
<1>3. CASE s.out[o].deferred # "destroy"
  <2> DEFINE hs == s.out[o].heads
             r == [s EXCEPT !.out[o].deferred = "no"]
  <2>1. /\ hs \in Seq(Heads) /\ s.out[o] = [heads |-> hs, deferred |-> "disable"]
        /\ s.out[o].deferred = "disable"
    BY <1>1, <1>3, OutputTypes
  <2>2. PICK d \in {"no", "disable", "destroy"} : d = "no"
    OBVIOUS
  <2>3. PICK b, f : b = hs /\ f = [s.out EXCEPT ![o] = [heads |-> b, deferred |-> "no"]]
    OBVIOUS
  <2>4. r = [s EXCEPT !.out = f]
    <3>1. [s.out EXCEPT ![o].deferred = "no"] = f
      BY <2>1, <2>3
    <3>2. r = [s EXCEPT !.out = [s.out EXCEPT ![o].deferred = "no"]]
      BY <1>1 DEF Rec
    <3> QED BY <3>1, <3>2
  <2>5. u = RemoveOutput(r, o)
    BY <1>3 DEF Completed
  <2> HIDE DEF u, r, hs
  <2>6. /\ Rec(r) /\ Aside(s, r) /\ r.list = s.list /\ r.wet = s.wet
        /\ r.tracked = s.tracked /\ r.out = With(s, o, WithHeads(hs, d))
    BY <1>1, <2>2, <2>3, <2>4 DEF Rec, Aside, With, WithHeads
  <2>7. /\ Aside(r, u) /\ u.list = RemoveFirst(s.list, o)
        /\ u.wet = s.wet /\ u.out = r.out /\ u.tracked = s.tracked
    BY <2>5, <2>6, RemoveOutputIs
  <2>8. Aside(s, u)
    BY <2>6, <2>7 DEF Aside
  <2>9. /\ u.out \in [Outputs -> WestonOutput \cup {NULL}] /\ u.out[o] # NULL
        /\ u.out[o].heads = hs /\ u.out[o].deferred = "no"
        /\ \A p \in Outputs \ {o} : u.out[p] = s.out[p]
    <3>1. /\ With(s, o, WithHeads(hs, d)) \in [Outputs -> WestonOutput \cup {NULL}]
          /\ With(s, o, WithHeads(hs, d))[o] = WithHeads(hs, d) /\ WithHeads(hs, d) # NULL
          /\ WithHeads(hs, d).heads = hs /\ WithHeads(hs, d).deferred = d
          /\ \A x \in Outputs \ {o} : With(s, o, WithHeads(hs, d))[x] = s.out[x]
      <4>1. s.out \in [Outputs -> WestonOutput \cup {NULL}] /\ hs \in Seq(Heads)
        BY <1>1, <2>1
      <4> QED BY <4>1, OutputUpdate
    <3> QED BY <2>2, <2>6, <2>7, <3>1
  <2>10. List(u.list, Outputs) /\ On(u) = On(s) \ {o} /\ Len(u.list) <= Crtcs
    <3>1. /\ List(u.list, Outputs) /\ Range(u.list) = Range(s.list) \ {o}
          /\ Len(u.list) <= Len(s.list)
      BY <1>1, <2>7, RemoveList
    <3>2. Len(u.list) \in Int
      BY <3>1, RangeOf DEF List
    <3> QED BY <1>1, <3>1, <3>2 DEF On
  <2>11. HeadsOf(u, o) = HeadsOf(s, o)
    BY <2>9 DEF HeadsOf, hs
  <2>12. Differ(s, u, o)
    BY <1>1, <2>7, <2>8, <2>9, <2>10 DEF Differ, Aside
  <2>13. SoundOutput(u, o, v)
    <3>1. \A g \in HeadsOf(u, o) : /\ u.wet[LayoutputOf(g)] = o /\ ~Off(g)
                                   /\ g \notin u.tracked => Shared(g)
      BY <1>1, <2>1, <2>7, <2>11 DEF SoundOutput
    <3>2. \A m, n \in Names : u.wet[m] = o /\ u.wet[n] = o => m = n
      BY <1>1, <2>7 DEF SoundOutput
    <3>3. \A n \in Names : u.wet[n] = o => \E h \in v : LayoutputOf(h) = n /\ Shared(h)
      BY <1>1, <2>1, <2>7 DEF SoundOutput
    <3>4. IsInjective(u.out[o].heads)
      BY <1>1, <2>9 DEF SoundOutput, hs
    <3> QED BY <2>9, <2>10, <3>1, <3>2, <3>3, <3>4 DEF SoundOutput
  <2>14. Good(u, v)
    BY <2>12, <2>13, OneOutput
  <2>15. Shrunk(s, u) /\ \A n \in Names : s.wet[n] = o => Lost(u, n)
    BY <2>7, <2>10 DEF Shrunk, Lost
  <2> QED BY <2>8, <2>11, <2>12, <2>14, <2>15 DEF Aside, u
<1> QED BY <1>2, <1>3

-----------------------------------------------------------------------------
(* The steps.                                                              *)

\* At start there are no outputs.
LEMMA InitGood == Init => IInv
<1> SUFFICES ASSUME Init PROVE IInv
  OBVIOUS
<1> DEFINE s == Now({})
<1>1. /\ config \in Configs /\ head_list = Connectors /\ connected \in SUBSET Heads
      /\ source = TRUE /\ tracked = {} /\ layoutput_list = <<>>
      /\ wet = [n \in Names |-> None] /\ output_list = <<>>
      /\ out = [o \in Outputs |-> NULL] /\ placed = "no" /\ failed = FALSE
      /\ vanished = {} /\ aborted = "no"
  BY DEF Init
<1>2. /\ s.wet = wet /\ s.out = out /\ s.list = output_list /\ s.tracked = tracked
      /\ s.los = layoutput_list /\ Rec(s)
  BY DEF Now, Rec
<1> HIDE DEF s
<1>3. PICK e \in Seq(Names) \cap Seq(Outputs) : e = <<>>
  BY EmptySeq
<1>4. Range(e) = {} /\ Len(e) = 0 /\ DOMAIN e = {}
  <2>1. Len(e) = 0 /\ DOMAIN e = 1..Len(e) /\ Range(e) = {}
    BY <1>3, RangeOf
  <2> QED BY <2>1
<1>5. List(e, Names) /\ List(e, Outputs) /\ Len(e) <= Crtcs
  BY <1>4, NumbersAssumption DEF List, IsInjective
<1>6. On(s) = {} /\ \A n \in Names : s.wet[n] = None /\ None \notin Outputs
  BY <1>1, <1>2, <1>3, <1>4, Ids DEF On
<1>7. \A o \in Outputs : s.out[o] = NULL
  BY <1>1, <1>2
<1>8. Typed(s)
  BY <1>1, <1>2, <1>3, <1>5 DEF Typed
<1>9. Owned(s) /\ Lit(s) /\ Explained(s, vanished) /\ Cloned(s) /\ Flips(s)
  BY <1>6, <1>7 DEF Owned, Lit, Explained, Cloned, Flips
<1>10. List(head_list, Heads)
  BY <1>1, ConnectorsAssumption DEF List
<1>11. AssertionsHold
  BY <1>1 DEF AssertionsHold
<1> QED BY <1>1, <1>2, <1>8, <1>9, <1>10, <1>11 DEF IInv, Good, s

\* What every step comes to: a good record that is put back, whose places are of
\* no account, and in which what can be kept is kept.
Stays(s) == \A p \in On(Now({})) : ~Dying(p) =>
    \A g \in HeadsOf(Now({}), p) : (Wanted(g) /\ g \in Range(head_list'))
                                   => p \in On(s) /\ g \in HeadsOf(s, p)

\* drm_heads_changed
LEMMA HeadsChangedIs ==
    ASSUME IInv, HeadsChanged
    PROVE  \E u : /\ Put(u) /\ Good(u, vanished) /\ Stays(u)
                  /\ placed' \in {"no", "all", "moved"} /\ u.failed \in BOOLEAN
                  /\ u.aborted = "no"
                     \/ (u.aborted = "attaching" /\ \E v \in vanished : Shared(v))
                  /\ u.aborted = "no" /\ ~u.failed =>
                        \A h \in Range(head_list) : Enabled(u, h) <=> Wanted(h)
<1>1. PICK F \in SUBSET Range(output_list),
           keep \in IF MayFail THEN 0 .. MaxClones ELSE {MaxClones} :
        LET s == Processed(Visited(Now(F)), keep)
            positioned == Positioned(s)
        IN  IF s.failed \/ s.aborted # "no"
            THEN Put(s) /\ placed' = "no"
            ELSE /\ Put([s EXCEPT !.place = positioned.at])
                 /\ placed' = IF positioned.ok THEN "all" ELSE "no"
  BY DEF HeadsChanged
<1> DEFINE s == Now(F)
           t == Processed(Visited(s), keep)
<1>2. PICK at, ok : IF t.failed \/ t.aborted # "no"
                    THEN Put(t) /\ placed' = "no"
                    ELSE /\ Put([t EXCEPT !.place = at])
                         /\ placed' = IF ok THEN "all" ELSE "no"
  BY <1>1
<1>3. keep \in Nat
  BY NumbersAssumption
<1>4. F \subseteq Outputs
  <2>1. output_list \in Seq(Outputs)
    BY DEF IInv, Good, Typed, Now, List
  <2> QED BY <2>1, RangeOf
<1>5. /\ Good(s, vanished) /\ Visiting(s, s, 0)
      /\ s.wet = wet /\ s.out = out /\ s.list = output_list
  BY <1>4, NowIs
<1>6. /\ config \in Configs /\ vanished \subseteq Heads /\ List(head_list, Heads)
  BY DEF IInv
<1> HIDE DEF s
<1>7. /\ Good(t, vanished) /\ t.failed \in BOOLEAN
      /\ t.aborted = "no" \/ (t.aborted = "attaching" /\ \E v \in vanished : Shared(v))
      /\ Keeps(s, t, Unwanted)
      /\ t.aborted = "no" /\ ~t.failed =>
           \A h \in Range(head_list) : Enabled(t, h) <=> Wanted(h)
  BY <1>3, <1>5, <1>6, PassKeeps
<1> HIDE DEF t
<1>8. head_list' = head_list
  BY DEF HeadsChanged
<1>9. Stays(t)
  <2> SUFFICES ASSUME NEW p \in On(Now({})), NEW g \in HeadsOf(Now({}), p), Wanted(g)
               PROVE  p \in On(t) /\ g \in HeadsOf(t, p)
    BY DEF Stays
  <2>1. p \in On(s) /\ g \in HeadsOf(s, p)
    BY <1>5 DEF On, HeadsOf, Now
  <2>2. g \notin Unwanted
    BY DEF Unwanted, Wanted, Wants
  <2> QED BY <1>7, <2>1, <2>2 DEF Keeps
<1>10. CASE t.failed \/ t.aborted # "no"
  <2>1. Put(t) /\ placed' = "no"
    BY <1>2, <1>10
  <2> QED BY <1>7, <1>9, <1>10, <2>1
<1>11. CASE ~(t.failed \/ t.aborted # "no")
  <2> DEFINE u == [t EXCEPT !.place = at]
  <2>1. Put(u) /\ placed' \in {"no", "all", "moved"}
    BY <1>2, <1>11
  <2>2. /\ Rec(u) /\ u.wet = t.wet /\ u.out = t.out /\ u.list = t.list
        /\ u.tracked = t.tracked /\ u.flip = t.flip /\ u.los = t.los
        /\ u.failed = t.failed /\ u.aborted = t.aborted
    BY <1>7 DEF Good, Rec
  <2> HIDE DEF u
  <2>3. List(t.los, Names)
    BY <1>7 DEF Good, Typed
  <2>4. Good(u, vanished) /\ \A h \in Heads : Enabled(u, h) <=> Enabled(t, h)
    BY <1>7, <2>2, <2>3, AsideGood
  <2>5. Stays(u)
    BY <1>9, <2>2 DEF Stays, On, HeadsOf
  <2>6. Range(head_list) \subseteq Heads
    BY <1>6, RangeOf DEF List
  <2> QED BY <1>7, <1>11, <2>1, <2>2, <2>4, <2>5, <2>6
<1> QED BY <1>10, <1>11

\* drm_head_destroy
LEMMA HeadDestroyedIs ==
    ASSUME IInv, NEW h \in Heads, HeadDestroyed(h)
    PROVE  \E u : /\ Put(u) /\ Good(u, vanished') /\ Stays(u)
                  /\ placed' \in {"no", "all", "moved"}
                  /\ u.failed = FALSE /\ u.aborted = "no" /\ Shrunk(Now({}), u)
                  /\ \A g \in Heads \ {h} : Enabled(u, g) <=> Enabled(Now({}), g)
<1>1. PICK F \in SUBSET ({OutputOf(Now({}), h)} \cap Range(output_list)) :
        LET s == Now(F)
            o == OutputOf(s, h)
            last == o # NULL /\ Len(s.out[o].heads) = 1
            t == IF h \in tracked /\ last THEN Destroyed(s, o) ELSE s
            u == Detached([t EXCEPT !.tracked = @ \ {h}], h)
        IN  Put(u) /\ placed' = AfterReflow(u)
  BY DEF HeadDestroyed
<1> DEFINE s == Now(F)
           u == Unplugged(s, h)
<1>2. F \subseteq Outputs
  <2>1. output_list \in Seq(Outputs)
    BY DEF IInv, Good, Typed, Now, List
  <2> QED BY <2>1, RangeOf
<1>3. /\ Good(s, vanished) /\ s.tracked = tracked /\ s.failed = FALSE /\ s.aborted = "no"
      /\ s.wet = wet /\ s.out = out /\ s.list = output_list
  BY <1>2, NowIs
<1>4. Put(u) /\ placed' = AfterReflow(u)
  <2>1. u = LET o == OutputOf(s, h)
                last == o # NULL /\ Len(s.out[o].heads) = 1
                t == IF h \in tracked /\ last THEN Destroyed(s, o) ELSE s
            IN  Detached([t EXCEPT !.tracked = @ \ {h}], h)
    BY <1>3 DEF Unplugged
  <2> HIDE DEF u, s
  <2> QED BY <1>1, <2>1 DEF s
<1> HIDE DEF u, s
<1>5. /\ Good(u, vanished \cup {h}) /\ Keeps(s, u, {h}) /\ Shrunk(s, u)
      /\ u.failed = s.failed /\ u.aborted = s.aborted
      /\ \A g \in Heads \ {h} : Enabled(u, g) <=> Enabled(s, g)
  BY <1>3, UnpluggedKeeps DEF IInv, u
<1>6. vanished' = vanished \cup {h} /\ head_list' = RemoveFirst(head_list, h)
  BY DEF HeadDestroyed
<1>7. Stays(u)
  <2>1. h \notin Range(head_list')
    BY <1>6, RemoveList DEF IInv
  <2>2. On(Now({})) = On(s) /\ \A p : HeadsOf(Now({}), p) = HeadsOf(s, p)
    BY <1>3 DEF On, HeadsOf, Now
  <2> QED BY <1>5, <2>1, <2>2 DEF Stays, Keeps
<1>8. placed' \in {"no", "all", "moved"}
  BY <1>4 DEF AfterReflow, IInv
<1>9. \A g \in Heads : Enabled(s, g) <=> Enabled(Now({}), g)
  BY <1>3 DEF Enabled, OutputOf, Now
<1>10. Shrunk(Now({}), u)
  BY <1>3, <1>5 DEF Shrunk, On, Now
<1> QED BY <1>3, <1>4, <1>5, <1>6, <1>7, <1>8, <1>9, <1>10

\* drm_output_update_complete
LEMMA FlipDoneIs ==
    ASSUME IInv, NEW o \in Outputs, FlipDone(o)
    PROVE  \E u : /\ Put(u) /\ Good(u, vanished) /\ Stays(u)
                  /\ placed' \in {"no", "all", "moved"}
                  /\ u.failed = FALSE /\ u.aborted = "no" /\ Shrunk(Now({}), u)
                  /\ \A g \in Heads :
                        \/ Enabled(u, g) <=> Enabled(Now({}), g)
                        \/ /\ Lost(u, LayoutputOf(g))
                           /\ \E v \in vanished : LayoutputOf(v) = LayoutputOf(g)
<1> DEFINE s == Now({})
           u == Completed(s, o)
<1>1. /\ Good(s, vanished) /\ s.wet = wet /\ s.out = out /\ s.list = output_list
      /\ s.failed = FALSE /\ s.aborted = "no" /\ Typed(s) /\ Owned(s)
      /\ On(s) \subseteq Outputs /\ SoundOutput(s, o, vanished)
  BY NowIs, GoodOutput
<1>2. out[o] # NULL /\ out[o].deferred # "no"
  BY DEF FlipDone
<1>3. Put(u) /\ placed' = AfterReflow(u)
  <2>1. u = IF out[o].deferred = "destroy" THEN Released(Now({}), o)
            ELSE RemoveOutput([Now({}) EXCEPT !.out[o].deferred = "no"], o)
    BY <1>1 DEF Completed
  <2> HIDE DEF u
  <2> QED BY <2>1 DEF FlipDone
<1> HIDE DEF u, s
<1>4. /\ Good(u, vanished) /\ u.failed = s.failed /\ u.aborted = s.aborted
      /\ Differ(s, u, o) /\ Shrunk(s, u)
      /\ u.out[o] # NULL => HeadsOf(u, o) = HeadsOf(s, o)
      /\ \A n \in Names : s.wet[n] = o => Lost(u, n)
  BY <1>1, <1>2, CompletedKeeps DEF IInv, u
<1>5. Typed(u) /\ Owned(u)
  BY <1>4 DEF Good
<1>6. Stays(u)
  <2> SUFFICES ASSUME NEW p \in On(Now({})), ~Dying(p), NEW g \in HeadsOf(Now({}), p)
               PROVE  p \in On(u) /\ g \in HeadsOf(u, p)
    BY DEF Stays
  <2>1. p \in On(s) /\ g \in HeadsOf(s, p) /\ p # o
    BY <1>2 DEF s, Dying
  <2> QED BY <1>1, <1>4, <2>1 DEF Differ, HeadsOf
<1>7. placed' \in {"no", "all", "moved"}
  BY <1>3 DEF AfterReflow, IInv
<1>8. ASSUME NEW g \in Heads
      PROVE  \/ Enabled(u, g) <=> Enabled(s, g)
             \/ /\ Lost(u, LayoutputOf(g))
                /\ \E v \in vanished : LayoutputOf(v) = LayoutputOf(g)
  <2>1. CASE g \in HeadsOf(s, o)
    <3>1. LayoutputOf(g) \in Names
      BY HeadNames DEF IInv
    <3>2. s.wet[LayoutputOf(g)] = o
      BY <1>1, <1>2, <2>1 DEF SoundOutput
    <3> QED BY <1>1, <1>2, <1>4, <3>1, <3>2 DEF SoundOutput
  <2>2. CASE g \notin HeadsOf(s, o)
    BY <1>1, <1>4, <1>5, <2>2, OthersEnabled
  <2> QED BY <2>1, <2>2
<1> QED BY <1>1, <1>3, <1>4, <1>6, <1>7, <1>8 DEF s

\* The invariant after a step that puts back a good record.
LEMMA PutKeeps ==
    ASSUME IInv, NEW u, Put(u), Good(u, vanished'), config' = config,
           List(head_list', Heads), connected' \cup vanished' \subseteq Heads,
           source' \in BOOLEAN, placed' \in {"no", "all", "moved"}, u.failed \in BOOLEAN,
           u.aborted = "no" \/ (u.aborted = "attaching" /\ \E v \in vanished' : Shared(v))
    PROVE  IInv'
<1>1. Good(Now({}), vanished)'
  BY PutGood DEF Put
<1>2. \A h : Shared(h)' <=> Shared(h)
  BY ConfigKept
<1>3. AssertionsHold'
  BY <1>2 DEF AssertionsHold, Put
<1>4. failed' \in BOOLEAN
  BY DEF Put, IInv
<1> QED BY <1>1, <1>3, <1>4 DEF IInv, List

\* ... and after one that changes no output.
LEMMA SameKeeps ==
    ASSUME IInv, UNCHANGED <<config, wet, out, output_list, tracked, layoutput_list,
                             vanished, placed, failed, aborted>>,
           List(head_list', Heads), connected' \subseteq Heads, source' \in BOOLEAN
    PROVE  /\ IInv'
           /\ \A h \in Heads : Enabled(Now({}), h)' <=> Enabled(Now({}), h)
<1>1. Good(Now({}), vanished)'
  <2>1. PICK u : u = Now({})
    OBVIOUS
  <2>2. Good(u, vanished')
    BY <2>1 DEF IInv
  <2>3. wet = u.wet /\ out = u.out /\ output_list = u.list /\ tracked = u.tracked
        /\ layoutput_list = u.los
    BY <2>1 DEF Now
  <2> QED BY <2>2, <2>3, PutGood
<1>2. \A h : Shared(h)' <=> Shared(h)
  BY ConfigKept
<1>3. AssertionsHold'
  BY <1>2 DEF AssertionsHold, IInv
<1>4. \A h \in Heads : Enabled(Now({}), h)' <=> Enabled(Now({}), h)
  BY DEF Enabled, OutputOf, Now
<1> QED BY <1>1, <1>3, <1>4 DEF IInv, List

\* What a step that puts back u makes of which head is enabled, and stays.
LEMMA PutShows ==
    ASSUME NEW u, Put(u), Good(u, vanished'), Stays(u)
    PROVE  /\ \A h \in Heads : Enabled(Now({}), h)' <=> Enabled(u, h)
           /\ \A o \in Outputs : o \in Range(output_list) /\ ~Dying(o) =>
                \A h \in Range(out[o].heads) :
                    (Wanted(h) /\ h \in Range(head_list'))
                    => /\ o \in Range(output_list') /\ out'[o] # NULL
                       /\ h \in Range(out'[o].heads)
<1>1. \A h \in Heads : Enabled(Now({}), h)' <=> Enabled(u, h)
  BY DEF Put, Enabled, OutputOf, Now
<1>2. \A o \in On(u) : u.out[o] # NULL
  BY DEF Good, Owned
<1>3. output_list' = u.list /\ out' = u.out
  BY DEF Put
<1>4. ASSUME NEW o \in Outputs, o \in Range(output_list), ~Dying(o),
             NEW h \in Range(out[o].heads), Wanted(h), h \in Range(head_list')
      PROVE  /\ o \in Range(output_list') /\ out'[o] # NULL
             /\ h \in Range(out'[o].heads)
  <2>1. o \in On(Now({})) /\ h \in HeadsOf(Now({}), o)
    BY <1>4 DEF On, HeadsOf, Now
  <2>2. o \in On(u) /\ h \in HeadsOf(u, o)
    BY <1>4, <2>1 DEF Stays
  <2> QED BY <1>2, <1>3, <2>2 DEF On, HeadsOf
<1> QED BY <1>1, <1>4

\* What StaysShown says of a step.
Staying == \A o \in Outputs : o \in Range(output_list) /\ ~Dying(o) =>
    \A h \in Range(out[o].heads) :
        (Wanted(h) /\ h \in Range(head_list'))
        => /\ o \in Range(output_list') /\ out'[o] # NULL
           /\ h \in Range(out'[o].heads)

\* Stranded is what is lost, and a head has vanished.
LEMMA StrandedIs ==
    ASSUME NEW h
    PROVE  Stranded(h) <=> /\ Lost(Now({}), LayoutputOf(h))
                           /\ \E v \in vanished : LayoutputOf(v) = LayoutputOf(h)
BY DEF Stranded, Lost, Now, On

\* A head that is lost in what a step puts back is stranded.
LEMMA PutStrands ==
    ASSUME NEW u, Put(u), config' = config, NEW h, Lost(u, LayoutputOf(h)),
           \E v \in vanished' : LayoutputOf(v) = LayoutputOf(h)
    PROVE  Stranded(h)'
<1>1. \A g : LayoutputOf(g)' = LayoutputOf(g)
  BY ConfigKept
<1>2. wet' = u.wet /\ output_list' = u.list
  BY DEF Put
<1>3. wet'[LayoutputOf(h)] \in {Left} \cup (Outputs \ Range(output_list'))
  BY <1>2 DEF Lost, On
<1> QED BY <1>1, <1>3 DEF Stranded

\* A step keeps the invariant, the heads on enabled outputs that shall be, and
\* that those shall which are.
LEMMA NextKeeps ==
    ASSUME IInv, ConnectedShown, [Next]_vars
    PROVE  IInv' /\ ConnectedShown' /\ (UNCHANGED vars \/ Staying)
<1>1. /\ config \in Configs /\ List(head_list, Heads) /\ connected \subseteq Heads
      /\ vanished \subseteq Heads /\ {source, failed} \subseteq BOOLEAN
      /\ placed \in {"no", "all", "moved"}
  BY DEF IInv
<1>2. Good(Now({}), vanished) /\ \A o \in Range(output_list) : out[o] # NULL
  BY DEF IInv, Good, Owned, On, Now
<1>3. CASE UNCHANGED vars
  <2>1. IInv'
    BY <1>1, <1>3, SameKeeps DEF vars
  <2>2. ConnectedShown'
    <3>1. \A h \in Heads : Enabled(Now({}), h)' <=> Enabled(Now({}), h)
      BY <1>3 DEF vars, Enabled, OutputOf, Now
    <3>2. \A h : LayoutputOf(h)' = LayoutputOf(h) /\ (Wanted(h)' <=> Wanted(h))
      BY <1>3, ConfigKept DEF vars, Wanted
    <3>3. Range(head_list) \subseteq Heads
      BY <1>1, RangeOf DEF List
    <3>4. \A h : Stranded(h)' <=> Stranded(h)
      BY <1>3, <3>2 DEF vars, Stranded
    <3>5. ASSUME ~source, ~failed, aborted = "no", NEW h \in Range(head_list)
          PROVE  Stranded(h)' \/ (Enabled(Now({}), h)' <=> Wanted(h)')
      <4>1. Stranded(h) \/ (Enabled(Now({}), h) <=> Wanted(h))
        BY <3>5 DEF ConnectedShown, Enabled, Wanted
      <4> QED BY <3>1, <3>2, <3>3, <3>4, <3>5, <4>1
    <3> QED BY <1>3, <3>5 DEF vars, ConnectedShown, Enabled, Wanted
  <2> QED BY <1>3, <2>1, <2>2
<1>4. CASE Next /\ HeadsChanged
  <2>1. PICK u : /\ Put(u) /\ Good(u, vanished) /\ Stays(u)
                 /\ placed' \in {"no", "all", "moved"} /\ u.failed \in BOOLEAN
                 /\ u.aborted = "no"
                    \/ (u.aborted = "attaching" /\ \E v \in vanished : Shared(v))
                 /\ u.aborted = "no" /\ ~u.failed =>
                       \A h \in Range(head_list) : Enabled(u, h) <=> Wanted(h)
    BY <1>4, HeadsChangedIs
  <2>2. /\ source' = FALSE /\ config' = config /\ head_list' = head_list
        /\ connected' = connected /\ vanished' = vanished
    BY <1>4 DEF HeadsChanged
  <2>3. IInv'
    BY <1>1, <2>1, <2>2, PutKeeps
  <2>4. Staying /\ \A h \in Heads : Enabled(Now({}), h)' <=> Enabled(u, h)
    BY <2>1, <2>2, PutShows DEF Staying
  <2>5. ConnectedShown'
    <3>1. ASSUME ~failed', aborted' = "no", NEW h \in Range(head_list)
          PROVE  Enabled(Now({}), h)' <=> Wanted(h)'
      <4>1. h \in Heads
        BY <1>1, RangeOf DEF List
      <4>2. u.aborted = "no" /\ ~u.failed
        BY <2>1, <3>1 DEF Put
      <4>3. Wanted(h)' <=> Wanted(h)
        BY <2>2, ConfigKept DEF Wanted
      <4> QED BY <2>1, <2>4, <4>1, <4>2, <4>3
    <3> QED BY <2>2, <3>1 DEF ConnectedShown, Enabled, Wanted
  <2> QED BY <2>3, <2>4, <2>5
<1>5. ASSUME Next, NEW h \in Heads, HeadFound(h) \/ ConnectionChanged(h)
      PROVE  IInv' /\ ConnectedShown' /\ Staying
  <2>1. /\ source' = TRUE
        /\ UNCHANGED <<config, wet, out, output_list, tracked, layoutput_list,
                       vanished, placed, failed, aborted>>
    BY <1>5 DEF HeadFound, ConnectionChanged
  <2>2. List(head_list', Heads) /\ connected' \subseteq Heads
    <3>1. CASE HeadFound(h)
      <4>1. h \notin Range(head_list) /\ head_list' = Append(head_list, h)
            /\ connected' \in {connected, connected \cup {h}}
        BY <3>1 DEF HeadFound
      <4> QED BY <1>1, <4>1, AppendList
    <3>2. CASE ConnectionChanged(h)
      <4>1. head_list' = head_list /\ connected' = SymDiff(connected, {h})
        BY <3>2 DEF ConnectionChanged
      <4> QED BY <1>1, <4>1 DEF SymDiff
    <3> QED BY <1>5, <3>1, <3>2
  <2>3. IInv'
    BY <2>1, <2>2, SameKeeps
  <2>4. ConnectedShown'
    BY <2>1 DEF ConnectedShown
  <2>5. Staying
    BY <1>2, <2>1 DEF Staying
  <2> QED BY <2>3, <2>4, <2>5
<1>6. ASSUME Next, NEW h \in Heads, HeadDestroyed(h)
      PROVE  IInv' /\ ConnectedShown' /\ Staying
  <2>1. PICK u : /\ Put(u) /\ Good(u, vanished') /\ Stays(u)
                 /\ placed' \in {"no", "all", "moved"}
                 /\ u.failed = FALSE /\ u.aborted = "no" /\ Shrunk(Now({}), u)
                 /\ \A g \in Heads \ {h} : Enabled(u, g) <=> Enabled(Now({}), g)
    BY <1>6, HeadDestroyedIs
  <2>2. /\ source' = source /\ config' = config /\ head_list' = RemoveFirst(head_list, h)
        /\ connected' = connected \ {h} /\ vanished' = vanished \cup {h}
        /\ aborted = "no"
    BY <1>6 DEF HeadDestroyed, Next
  <2>3. List(head_list', Heads) /\ Range(head_list') = Range(head_list) \ {h}
    BY <1>1, <2>2, RemoveList
  <2>4. IInv'
    <3>1. u.failed \in BOOLEAN /\ connected' \cup vanished' \subseteq Heads
      BY <1>1, <2>1, <2>2
    <3> QED BY <1>1, <2>1, <2>2, <2>3, <3>1, PutKeeps
  <2>5. Staying /\ \A g \in Heads : Enabled(Now({}), g)' <=> Enabled(u, g)
    BY <2>1, PutShows DEF Staying
  <2>6. ConnectedShown'
    <3>1. ASSUME ~source', ~failed', NEW g \in Range(head_list')
          PROVE  Stranded(g)' \/ (Enabled(Now({}), g)' <=> Wanted(g)')
      <4>1. g \in Heads \ {h} /\ g \in Range(head_list)
        BY <1>1, <2>3, <3>1, RangeOf DEF List
      <4>2. ~source /\ ~failed
        BY <2>1, <2>2, <3>1 DEF Put
      <4>3. Stranded(g) \/ (Enabled(Now({}), g) <=> Wanted(g))
        BY <2>2, <4>1, <4>2 DEF ConnectedShown, Enabled, Wanted
      <4>4. CASE Stranded(g)
        <5>1. /\ LayoutputOf(g) \in Names /\ Lost(Now({}), LayoutputOf(g))
              /\ \E v \in vanished' : LayoutputOf(v) = LayoutputOf(g)
          BY <1>1, <2>2, <4>1, <4>4, HeadNames, StrandedIs
        <5>2. Lost(u, LayoutputOf(g))
          BY <2>1, <5>1, LostStays
        <5> QED BY <2>1, <2>2, <5>1, <5>2, PutStrands
      <4>5. Wanted(g)' <=> Wanted(g)
        BY <2>2, <4>1, ConfigKept DEF Wanted
      <4> QED BY <2>1, <2>5, <4>1, <4>3, <4>4, <4>5
    <3> QED BY <3>1 DEF ConnectedShown, Enabled, Wanted
  <2> QED BY <2>4, <2>5, <2>6
<1>7. ASSUME Next, NEW o \in Outputs, FlipDone(o)
      PROVE  IInv' /\ ConnectedShown' /\ Staying
  <2>1. PICK u : /\ Put(u) /\ Good(u, vanished) /\ Stays(u)
                 /\ placed' \in {"no", "all", "moved"}
                 /\ u.failed = FALSE /\ u.aborted = "no" /\ Shrunk(Now({}), u)
                 /\ \A g \in Heads :
                       \/ Enabled(u, g) <=> Enabled(Now({}), g)
                       \/ /\ Lost(u, LayoutputOf(g))
                          /\ \E v \in vanished : LayoutputOf(v) = LayoutputOf(g)
    BY <1>7, FlipDoneIs
  <2>2. /\ source' = source /\ config' = config /\ head_list' = head_list
        /\ connected' = connected /\ vanished' = vanished /\ aborted = "no"
    BY <1>7 DEF FlipDone, Next
  <2>3. IInv'
    <3>1. u.failed \in BOOLEAN
      BY <2>1
    <3> QED BY <1>1, <2>1, <2>2, <3>1, PutKeeps
  <2>4. Staying /\ \A g \in Heads : Enabled(Now({}), g)' <=> Enabled(u, g)
    BY <2>1, <2>2, PutShows DEF Staying
  <2>5. ConnectedShown'
    <3>1. ASSUME ~source', ~failed', NEW g \in Range(head_list')
          PROVE  Stranded(g)' \/ (Enabled(Now({}), g)' <=> Wanted(g)')
      <4>1. g \in Heads /\ g \in Range(head_list)
        BY <1>1, <2>2, <3>1, RangeOf DEF List
      <4>2. ~source /\ ~failed
        BY <2>1, <2>2, <3>1 DEF Put
      <4>3. Stranded(g) \/ (Enabled(Now({}), g) <=> Wanted(g))
        BY <2>2, <4>1, <4>2 DEF ConnectedShown, Enabled, Wanted
      <4>4. CASE Stranded(g)
        <5>1. /\ LayoutputOf(g) \in Names /\ Lost(Now({}), LayoutputOf(g))
              /\ \E v \in vanished' : LayoutputOf(v) = LayoutputOf(g)
          BY <1>1, <2>2, <4>1, <4>4, HeadNames, StrandedIs
        <5>2. Lost(u, LayoutputOf(g))
          BY <2>1, <5>1, LostStays
        <5> QED BY <2>1, <2>2, <5>1, <5>2, PutStrands
      <4>5. CASE Lost(u, LayoutputOf(g)) /\ \E v \in vanished : LayoutputOf(v) = LayoutputOf(g)
        BY <2>1, <2>2, <4>5, PutStrands
      <4>6. Wanted(g)' <=> Wanted(g)
        BY <2>2, ConfigKept DEF Wanted
      <4> QED BY <2>1, <2>4, <4>1, <4>3, <4>4, <4>5, <4>6
    <3> QED BY <3>1 DEF ConnectedShown, Enabled, Wanted
  <2> QED BY <2>3, <2>4, <2>5
<1> QED BY <1>3, <1>4, <1>5, <1>6, <1>7 DEF Next

-----------------------------------------------------------------------------
(* Between two passes.                                                     *)

\* Outputs have only moved when one has gone.
Still(s, u) == u.list = s.list => u.wet = s.wet /\ u.place = s.place

\* Destroying or disabling an output that waits for a flip moves nothing.
LEMMA WaitingStays ==
    ASSUME NEW s, Rec(s), NEW o, o \in s.flip
    PROVE  Destroyed(s, o).place = s.place /\ Disabled(s, o).place = s.place
BY DEF Destroyed, Disabled, Rec

\* Nor does detaching a head, unless the output is disabled at once.
LEMMA DetachedStays ==
    ASSUME NEW s, Rec(s), NEW h, NEW o, o = OutputOf(s, h), o # NULL, s.out[o] # NULL,
           s.out \in [Outputs -> WestonOutput \cup {NULL}], o \in Outputs,
           ~(o \in On(s) /\ RemoveFirst(s.out[o].heads, h) = <<>> /\ o \notin s.flip)
    PROVE  Detached(s, h).place = s.place
<1> DEFINE left == RemoveFirst(s.out[o].heads, h)
           r == [s EXCEPT !.out[o].heads = left]
           t == Detached(s, h)
<1>1. Rec(r) /\ r.place = s.place /\ r.flip = s.flip /\ r.list = s.list
  BY DEF Rec
<1>2. r.out[o].heads = left
  <2>1. s.out[o] = [heads |-> s.out[o].heads, deferred |-> s.out[o].deferred]
    BY DEF WestonOutput
  <2>2. r.out = [s.out EXCEPT ![o].heads = left]
    BY DEF Rec
  <2> HIDE DEF left, r
  <2>3. r.out[o] = [s.out[o] EXCEPT !.heads = left]
    BY <2>2
  <2> QED BY <2>1, <2>3
<1>3. t = IF o \in On(r) /\ r.out[o].heads = <<>> THEN Disabled(r, o) ELSE r
  BY DEF Detached, On
<1> HIDE DEF r, t, left
<1>4. CASE o \in On(r) /\ r.out[o].heads = <<>>
  <2>1. o \in r.flip
    BY <1>1, <1>2, <1>4 DEF left, On
  <2> QED BY <1>1, <1>3, <1>4, <2>1, WaitingStays DEF t
<1>5. CASE ~(o \in On(r) /\ r.out[o].heads = <<>>)
  BY <1>1, <1>3, <1>5 DEF t
<1> QED BY <1>4, <1>5

\* An output can be released that no head of H, with a tracker, is on.
LEMMA ReleasedFits ==
    ASSUME NEW s, NEW v, Good(s, v), Fits(s), NEW o \in Outputs, s.out[o] # NULL,
           NEW H, \A g \in H : \E p \in On(s) \ {o} :
                g \in HeadsOf(s, p) /\ s.out[p].deferred = "no"
    PROVE  LET t == Released(s, o) IN
           /\ Sited(t) /\ Listed(t) /\ On(t) = On(s) \ {o}
           /\ \A g \in H : \E p \in On(t) : g \in HeadsOf(t, p) /\ t.out[p].deferred = "no"
<1> DEFINE t == Released(s, o)
<1>1. /\ Rec(s) /\ List(s.list, Outputs) /\ s.out \in [Outputs -> WestonOutput \cup {NULL}]
      /\ On(s) \subseteq Outputs
  BY RangeOf DEF Good, Typed, List, On
<1>2. /\ Aside(s, t) /\ t.list = RemoveFirst(s.list, o)
      /\ t.wet = [n \in Names |-> IF s.wet[n] = o THEN Left ELSE s.wet[n]]
      /\ t.out = [s.out EXCEPT ![o] = NULL] /\ t.tracked = s.tracked
  BY <1>1, ReleasedIs
<1>3. Sited(t)
  BY ReleasedSites DEF Fits
<1> HIDE DEF t
<1>4. On(t) = On(s) \ {o}
  BY <1>1, <1>2, RemoveList DEF On
<1>5. Listed(t)
  <2>1. \A n \in Names : t.wet[n] \in Outputs => s.wet[n] \in Outputs
    BY <1>2, Ids
  <2> QED BY <1>2, <2>1 DEF Fits, Listed, Aside
<1>6. ASSUME NEW g \in H
      PROVE  \E p \in On(t) : g \in HeadsOf(t, p) /\ t.out[p].deferred = "no"
  <2>1. PICK p \in On(s) \ {o} : g \in HeadsOf(s, p) /\ s.out[p].deferred = "no"
    BY <1>6
  <2>2. t.out[p] = s.out[p]
    BY <1>1, <1>2, <2>1
  <2> QED BY <1>4, <2>1, <2>2 DEF HeadsOf
<1> QED BY <1>3, <1>4, <1>5, <1>6 DEF t

\* A connector that disappears leaves what fits.
LEMMA UnpluggedFits ==
    ASSUME config \in Configs, NEW s, NEW v, Good(s, v), Fits(s), NEW h \in Heads
    PROVE  LET u == Unplugged(s, h) IN Fits(u) /\ Still(s, u) /\ u.los = s.los
<1> DEFINE o == OutputOf(s, h)
           last == o # NULL /\ Len(s.out[o].heads) = 1
           t == IF h \in s.tracked /\ last THEN Destroyed(s, o) ELSE s
           r == [t EXCEPT !.tracked = @ \ {h}]
           u == Detached(r, h)
<1>1. /\ Typed(s) /\ Owned(s) /\ Rec(s) /\ Sited(s) /\ On(s) \subseteq Outputs
      /\ s.out \in [Outputs -> WestonOutput \cup {NULL}] /\ List(s.list, Outputs)
  <2>1. Typed(s) /\ Owned(s) /\ Rec(s) /\ Sited(s)
    BY DEF Good, Fits
  <2> QED BY <2>1, RangeOf DEF Typed, List, On
<1>2. Unplugged(s, h) = u
  BY DEF Unplugged
<1>3. ASSUME NEW x, Rec(x), NEW y, y = [x EXCEPT !.tracked = @ \ {h}]
      PROVE  /\ Aside(x, y) /\ y.tracked = x.tracked \ {h} /\ y.list = x.list
             /\ y.wet = x.wet /\ y.out = x.out /\ y.place = x.place
  <2>1. y.place = x.place
    <3>1. PICK d : d = x.tracked \ {h}
      OBVIOUS
    <3>2. y = [x EXCEPT !.tracked = d]
      BY <1>3, <3>1
    <3> QED BY <1>3, <3>2 DEF Rec
  <2> QED BY <1>3, <2>1, UntrackedIs
<1>4. \A g \in s.tracked : \E p \in On(s) : g \in HeadsOf(s, p) /\ s.out[p].deferred = "no"
  BY DEF Fits, Followed
<1>5. CASE o = NULL
  <2>1. Free(s, h)
    BY <1>1, <1>5, OutputOfIs, Ids DEF Free
  <2>2. r = [s EXCEPT !.tracked = @ \ {h}]
    BY <1>5
  <2> HIDE DEF o, t, r, u
  <2>3. /\ Aside(s, r) /\ r.tracked = s.tracked \ {h} /\ r.list = s.list
        /\ r.wet = s.wet /\ r.out = s.out /\ r.place = s.place
    BY <1>1, <1>3, <2>2
  <2>4. Free(r, h)
    BY <2>1, <2>3 DEF Free, HeadsOf
  <2>5. u = r
    BY <2>4, NoOutput DEF Detached, u
  <2>6. Sited(r)
    BY <1>1, <2>3, AsideSites DEF Aside
  <2>7. Listed(r) /\ Followed(r) /\ Flying(r)
    BY <1>4, <2>3 DEF Fits, Listed, Followed, Flying, Aside, On, HeadsOf
  <2> QED BY <1>2, <2>3, <2>5, <2>6, <2>7 DEF Fits, Still, Aside
<1>6. CASE o # NULL
  <2>1. o \in Outputs /\ s.out[o] # NULL /\ h \in HeadsOf(s, o)
    BY <1>1, <1>6, OutputOfIs
  <2> DEFINE left == RemoveFirst(s.out[o].heads, h)
  <2>2. /\ List(s.out[o].heads, Heads)
        /\ s.out[o] = [heads |-> s.out[o].heads, deferred |-> s.out[o].deferred]
    BY <1>1, <2>1, GoodOutput, OutputTypes
  <2>3. last <=> left = <<>>
    BY <1>6, <2>1, <2>2, LoneElement DEF HeadsOf
  <2>4. \A p \in Outputs \ {o} : s.out[p] # NULL => h \notin HeadsOf(s, p)
    BY <1>1, <2>1, OutputOfIs
  <2>5. List(left, Heads) /\ Range(left) = HeadsOf(s, o) \ {h} /\ (left = <<>> <=> Range(left) = {})
    BY <2>2, RemoveList, RangeOf DEF List, HeadsOf
  <2>6. t = IF h \in s.tracked /\ left = <<>> THEN Destroyed(s, o) ELSE s
    BY <2>3
  <2>7. h \in s.tracked => o \in On(s)
    BY <1>1, <1>4, <2>4 DEF Owned
  <2> HIDE DEF o, t, r, u, left, last
  <2>8. CASE h \in s.tracked /\ left = <<>> /\ o \notin s.flip
    <3>1. t = Released(s, o)
      BY <1>1, <2>6, <2>8, DestroyedIs
    <3>2. PICK H : H = s.tracked \ {h}
      OBVIOUS
    <3>14. \A g \in H : \E p \in On(s) \ {o} : g \in HeadsOf(s, p) /\ s.out[p].deferred = "no"
      BY <1>4, <2>5, <2>8, <3>2
    <3>3. /\ Sited(t) /\ Listed(t) /\ On(t) = On(s) \ {o}
          /\ \A g \in s.tracked \ {h} : \E p \in On(t) :
                g \in HeadsOf(t, p) /\ t.out[p].deferred = "no"
      BY <2>1, <3>1, <3>2, <3>14, ReleasedFits
    <3>4. /\ Aside(s, t) /\ t.out = [s.out EXCEPT ![o] = NULL] /\ t.tracked = s.tracked
      BY <1>1, <3>1, ReleasedIs
    <3>5. /\ Aside(t, r) /\ r.tracked = t.tracked \ {h} /\ r.list = t.list
          /\ r.wet = t.wet /\ r.out = t.out /\ r.place = t.place
      BY <1>3, <3>4 DEF Aside, r
    <3>6. Free(r, h)
      BY <1>1, <2>4, <3>4, <3>5 DEF Free, HeadsOf
    <3>7. u = r
      BY <3>6, NoOutput DEF Detached, u
    <3>8. Sited(r)
      BY <3>3, <3>5, AsideSites DEF Aside
    <3>9. Listed(r) /\ Followed(r)
      BY <3>3, <3>4, <3>5 DEF Listed, Followed, Aside, On, HeadsOf
    <3>10. Flying(r)
      BY <2>8, <3>3, <3>4, <3>5 DEF Fits, Flying, Aside, On
    <3>11. On(r) # On(s)
      BY <2>7, <2>8, <3>3, <3>5 DEF On
    <3>12. Still(s, r)
      BY <3>11 DEF Still, On
    <3>13. r.los = s.los
      BY <3>4, <3>5 DEF Aside
    <3> QED BY <1>2, <3>7, <3>8, <3>9, <3>10, <3>12, <3>13 DEF Fits
  <2>9. CASE ~(h \in s.tracked /\ left = <<>> /\ o \notin s.flip)
    <3> DEFINE dying == h \in s.tracked /\ left = <<>>
    <3>1. /\ Aside(s, t) /\ t.list = s.list /\ t.wet = s.wet /\ t.tracked = s.tracked
          /\ t.place = s.place
          /\ dying => t.out = [s.out EXCEPT ![o].deferred = "destroy"]
          /\ ~dying => t.out = s.out
      <4>1. CASE dying
        BY <1>1, <2>6, <2>9, <4>1, DestroyedIs, WaitingStays
      <4>2. CASE ~dying
        <5>1. t = s
          BY <2>6, <4>2
        <5> QED BY <1>1, <4>2, <5>1 DEF Aside
      <4> QED BY <4>1, <4>2
    <3>2. /\ Sited(t)
      <4>1. CASE dying
        BY <1>1, <2>1, <2>6, <4>1, DestroyedSites
      <4>2. CASE ~dying
        BY <1>1, <2>6, <4>2
      <4> QED BY <4>1, <4>2
    <3>3. /\ t.out \in [Outputs -> WestonOutput \cup {NULL}] /\ t.out[o] # NULL
          /\ t.out[o].heads = s.out[o].heads
          /\ ~dying => t.out[o].deferred = s.out[o].deferred
          /\ \A p \in Outputs \ {o} : t.out[p] = s.out[p]
      <4>1. t.out \in [Outputs -> WestonOutput \cup {NULL}]
        BY <3>2 DEF Sited
      <4>2. CASE dying
        <5>1. PICK b : b = s.out[o].heads
          OBVIOUS
        <5>3. t.out = [s.out EXCEPT ![o] = [heads |-> b, deferred |-> "destroy"]]
          BY <2>2, <3>1, <4>2, <5>1
        <5>4. t.out[o] = [heads |-> b, deferred |-> "destroy"]
              /\ \A p \in Outputs \ {o} : t.out[p] = s.out[p]
          BY <1>1, <2>1, <5>3
        <5>5. [heads |-> b, deferred |-> "destroy"] # NULL
          <6>1. t.out[o] \in WestonOutput \cup {NULL}
            BY <2>1, <4>1
          <6>2. b \in Seq(Heads)
            BY <2>2, <5>1 DEF List
          <6>3. [heads |-> b, deferred |-> "destroy"] \in WestonOutput
            BY <6>2 DEF WestonOutput
          <6> QED BY <6>3, NullAssumption
        <5> QED BY <4>1, <4>2, <5>1, <5>4, <5>5
      <4>3. CASE ~dying
        BY <2>1, <3>1, <4>1, <4>3
      <4> QED BY <4>2, <4>3
    <3>4. /\ Rec(r) /\ Aside(t, r) /\ r.tracked = s.tracked \ {h} /\ r.list = s.list
          /\ r.wet = s.wet /\ r.out = t.out /\ r.flip = s.flip /\ On(r) = On(s)
          /\ r.place = s.place /\ r.los = s.los
      <4>1. Rec(t)
        BY <3>1 DEF Aside
      <4>2. /\ Aside(t, r) /\ r.tracked = t.tracked \ {h} /\ r.list = t.list
            /\ r.wet = t.wet /\ r.out = t.out /\ r.place = t.place
        BY <1>3, <4>1 DEF r
      <4> QED BY <3>1, <4>2 DEF Aside, On
    <3>5. OutputOf(r, h) = o
      <4>1. \A p \in Outputs : r.out[p] # NULL /\ h \in HeadsOf(r, p) <=> p = o
        BY <2>1, <2>4, <3>3, <3>4 DEF HeadsOf
      <4> QED BY <2>1, <4>1, OnlyOutput
    <3>6. /\ r.out[o].heads = s.out[o].heads /\ r.out[o] # NULL /\ o # NULL
          /\ r.out \in [Outputs -> WestonOutput \cup {NULL}]
          /\ RemoveFirst(r.out[o].heads, h) = left
      BY <2>1, <3>3, <3>4, Ids DEF left
    <3> DEFINE gone == o \in On(s) /\ left = <<>> /\ o \notin s.flip
    <3>7. PICK d : d = IF o \in On(r) /\ left = <<>> /\ o \in r.flip /\ r.out[o].deferred = "no"
                       THEN "disable" ELSE r.out[o].deferred
      OBVIOUS
    <3>8. /\ Aside(r, u) /\ u.wet = r.wet /\ u.tracked = r.tracked
          /\ u.list = IF gone THEN RemoveFirst(s.list, o) ELSE s.list
          /\ u.out = [r.out EXCEPT ![o] = [heads |-> left, deferred |-> d]]
      <4>1. /\ Aside(r, u) /\ u.wet = r.wet /\ u.tracked = r.tracked
            /\ u.list = IF o \in On(r) /\ RemoveFirst(r.out[o].heads, h) = <<>> /\ o \notin r.flip
                        THEN RemoveFirst(r.list, o) ELSE r.list
            /\ u.out = [r.out EXCEPT ![o] =
                  [heads |-> RemoveFirst(r.out[o].heads, h), deferred |->
                        IF o \in On(r) /\ RemoveFirst(r.out[o].heads, h) = <<>>
                           /\ o \in r.flip /\ r.out[o].deferred = "no"
                        THEN "disable" ELSE r.out[o].deferred]]
        BY <2>1, <3>4, <3>5, <3>6, DetachedIs DEF u
      <4> QED BY <3>4, <3>6, <3>7, <4>1
    <3>9. Sited(u)
      <4>1. Sited(r)
        BY <3>2, <3>4, <3>1, AsideSites DEF Aside
      <4> QED BY <2>1, <2>2, <3>5, <3>6, <4>1, DetachedSites DEF u
    <3>10. ~gone => u.place = s.place
      <4>1. ASSUME ~gone PROVE u.place = r.place
        BY <2>1, <3>4, <3>5, <3>6, <4>1, DetachedStays DEF u
      <4> QED BY <3>4, <4>1
    <3>11. On(u) = IF gone THEN On(s) \ {o} ELSE On(s)
      BY <1>1, <3>8, RemoveList DEF On
    <3>12. Still(s, u)
      <4>1. CASE gone
        BY <3>11, <4>1 DEF Still, On
      <4>2. CASE ~gone
        BY <3>4, <3>8, <3>10, <4>2 DEF Still
      <4> QED BY <4>1, <4>2
    <3>13. /\ u.out[o].heads = left /\ u.out[o].deferred = d
           /\ \A p \in Outputs \ {o} : u.out[p] = s.out[p]
      <4>1. PICK w : w = [heads |-> left, deferred |-> d]
        OBVIOUS
      <4>2. u.out[o] = w /\ \A p \in Outputs \ {o} : u.out[p] = s.out[p]
        BY <2>1, <3>3, <3>4, <3>8, <4>1
      <4> QED BY <4>1, <4>2
    <3>14. Listed(u)
      BY <3>4, <3>8 DEF Fits, Listed, Aside
    <3>15. Followed(u)
      <4> SUFFICES ASSUME NEW g \in s.tracked \ {h}
                   PROVE  \E p \in On(u) : g \in HeadsOf(u, p) /\ u.out[p].deferred = "no"
        BY <3>4, <3>8 DEF Followed
      <4>1. PICK p \in On(s) : g \in HeadsOf(s, p) /\ s.out[p].deferred = "no"
        BY <1>4
      <4>2. CASE p = o
        <5>1. g \in Range(left) /\ left # <<>>
          BY <2>5, <4>1, <4>2
        <5>2. d = "no"
          BY <3>3, <3>4, <3>7, <4>1, <4>2, <5>1
        <5> QED BY <3>11, <3>13, <4>1, <4>2, <5>1, <5>2 DEF HeadsOf
      <4>3. CASE p # o
        BY <1>1, <3>11, <3>13, <4>1, <4>3 DEF HeadsOf
      <4> QED BY <4>2, <4>3
    <3>16. Flying(u)
      BY <3>4, <3>8, <3>11 DEF Fits, Flying, Aside
    <3>17. u.los = s.los
      BY <3>4, <3>8 DEF Aside
    <3> QED BY <1>2, <3>9, <3>12, <3>14, <3>15, <3>16, <3>17 DEF Fits
  <2> QED BY <2>8, <2>9
<1> QED BY <1>5, <1>6

\* A flip that is done leaves what fits, without the output that waited for it.
LEMMA CompletedFits ==
    ASSUME NEW s, NEW v, Good(s, v), Fits(s),
           NEW o \in Outputs, s.out[o] # NULL, s.out[o].deferred # "no"
    PROVE  LET u == Completed(s, o) IN
           /\ Sited(u) /\ Listed(u) /\ Followed(u) /\ u.flip = s.flip
           /\ o \in On(s) /\ On(u) = On(s) \ {o}
           /\ u.out[o] # NULL => u.out[o].deferred = "no"
<1> DEFINE u == Completed(s, o)
<1>1. /\ Rec(s) /\ Typed(s) /\ Sited(s) /\ s.out \in [Outputs -> WestonOutput \cup {NULL}]
      /\ List(s.list, Outputs)
  BY DEF Good, Typed, Fits
<1>2. o \in On(s)
  BY DEF Good, Flips, Fits, Flying
<1>3. \A g \in s.tracked : \E p \in On(s) \ {o} : g \in HeadsOf(s, p) /\ s.out[p].deferred = "no"
  BY DEF Fits, Followed
<1>4. CASE s.out[o].deferred = "destroy"
  <2>1. u = Released(s, o)
    BY <1>4 DEF Completed
  <2> HIDE DEF u
  <2>2. Aside(s, u) /\ u.tracked = s.tracked /\ u.out = [s.out EXCEPT ![o] = NULL]
    BY <1>1, <2>1, ReleasedIs
  <2>3. PICK H : H = s.tracked
    OBVIOUS
  <2>4. \A g \in H : \E p \in On(s) \ {o} : g \in HeadsOf(s, p) /\ s.out[p].deferred = "no"
    BY <1>3, <2>3
  <2>5. /\ Sited(u) /\ Listed(u) /\ On(u) = On(s) \ {o}
        /\ \A g \in H : \E p \in On(u) : g \in HeadsOf(u, p) /\ u.out[p].deferred = "no"
    BY <2>1, <2>4, ReleasedFits
  <2>6. Followed(u)
    BY <2>2, <2>3, <2>5 DEF Followed
  <2>7. u.out[o] = NULL
    BY <1>1, <2>2
  <2> QED BY <1>2, <2>2, <2>5, <2>6, <2>7 DEF Aside, u
<1>5. CASE s.out[o].deferred # "destroy"
  <2> DEFINE r == [s EXCEPT !.out[o].deferred = "no"]
  <2>1. PICK f : f = [s.out EXCEPT ![o].deferred = "no"]
    OBVIOUS
  <2>2. Rec(r) /\ Aside(s, r) /\ r.out = f /\ r.place = s.place /\ r.list = s.list
        /\ r.wet = s.wet /\ r.tracked = s.tracked
    <3>1. r = [s EXCEPT !.out = f]
      BY <1>1, <2>1 DEF Rec
    <3> HIDE DEF r
    <3> QED BY <1>1, <3>1 DEF Rec, Aside
  <2>3. u = RemoveOutput(r, o)
    BY <1>5 DEF Completed
  <2> HIDE DEF u, r
  <2>4. /\ s.out[o] = [heads |-> s.out[o].heads, deferred |-> s.out[o].deferred]
        /\ s.out[o].heads \in Seq(Heads)
    BY <1>1, OutputTypes
  <2>5. f[o].deferred = "no" /\ f[o] \in WestonOutput /\ \A p \in Outputs \ {o} : f[p] = s.out[p]
    <3>1. PICK b \in Seq(Heads) : b = s.out[o].heads
      BY <2>4
    <3>2. f = [s.out EXCEPT ![o] = [heads |-> b, deferred |-> "no"]]
      BY <2>1, <2>4, <3>1
    <3>3. f[o] = [heads |-> b, deferred |-> "no"] /\ \A p \in Outputs \ {o} : f[p] = s.out[p]
      BY <1>1, <3>2
    <3> QED BY <3>3 DEF WestonOutput
  <2>6. f \in [Outputs -> WestonOutput \cup {NULL}]
    BY <1>1, <2>1, <2>5
  <2>7. Sited(r)
    BY <1>1, <2>2, <2>5, <2>6, NullAssumption, ChangeSites
  <2>8. Sited(u)
    BY <2>3, <2>7, RemoveOutputSites
  <2>9. /\ Aside(r, u) /\ u.list = RemoveFirst(r.list, o)
        /\ u.wet = r.wet /\ u.out = r.out /\ u.tracked = r.tracked
    BY <2>2, <2>3, RemoveOutputIs
  <2>10. On(u) = On(s) \ {o}
    BY <1>1, <2>2, <2>9, RemoveList DEF On
  <2>11. Listed(u)
    BY <2>2, <2>9 DEF Fits, Listed, Aside
  <2>12. Followed(u)
    <3>1. On(s) \subseteq Outputs
      BY <1>1, RangeOf DEF List, On
    <3> SUFFICES ASSUME NEW g \in s.tracked
                 PROVE  \E p \in On(u) : g \in HeadsOf(u, p) /\ u.out[p].deferred = "no"
      BY <2>2, <2>9 DEF Followed
    <3>2. PICK p \in On(s) \ {o} : g \in HeadsOf(s, p) /\ s.out[p].deferred = "no"
      BY <1>3
    <3>3. u.out[p] = s.out[p]
      BY <2>2, <2>5, <2>9, <3>1
    <3> QED BY <2>10, <3>2, <3>3 DEF HeadsOf
  <2>13. u.flip = s.flip
    BY <2>2, <2>9 DEF Aside
  <2>14. u.out[o].deferred = "no"
    BY <2>2, <2>5, <2>9
  <2> QED BY <1>2, <2>8, <2>10, <2>11, <2>12, <2>13, <2>14 DEF u
<1> QED BY <1>4, <1>5

\* Whatever enabled outputs have flips on their way, a pass starts from what fits.
LEMMA NowFits ==
    ASSUME IInv, Fits(Now({})), NEW F, F \subseteq Range(output_list)
    PROVE  Fits(Now(F))
<1> DEFINE s == Now(F)
           z == Now({})
<1>1. F \subseteq Outputs
  <2>1. output_list \in Seq(Outputs)
    BY DEF IInv, Good, Typed, Now, List
  <2> QED BY <2>1, RangeOf
<1>2. /\ Rec(s) /\ s.wet = z.wet /\ s.out = z.out /\ s.list = z.list /\ s.place = z.place
      /\ s.tracked = z.tracked /\ s.los = z.los /\ s.flip = F \cup z.flip
      /\ z.list = output_list
  BY DEF Now, Rec
<1> HIDE DEF s, z
<1>3. Sited(s)
  BY <1>2, AsideSites DEF Fits, z
<1>4. Listed(s) /\ Followed(s) /\ Flying(s)
  BY <1>2 DEF Fits, Listed, Followed, Flying, On, HeadsOf, z
<1> QED BY <1>3, <1>4 DEF Fits, s

\* What fits and is put back, with the outputs at at, fits.
LEMMA PutFits ==
    ASSUME NEW s, NEW v, Good(s, v), Sited(s), Listed(s), Followed(s),
           \A o \in Outputs : s.out[o] # NULL /\ s.out[o].deferred # "no" => o \in On(s),
           NEW at, Located(at, s), place' = at,
           wet' = s.wet, out' = s.out, output_list' = s.list, tracked' = s.tracked,
           layoutput_list' = s.los
    PROVE  Fits(Now({}))'
<1>1. Sited(Now({}))'
  BY DEF Sited, Located, Now, Rec, List, On
<1>2. Listed(Now({}))'
  BY DEF Listed, Now
<1>3. Followed(Now({}))'
  BY DEF Followed, Now, On, HeadsOf
<1>4. Flying(Now({}))'
  BY DEF Flying, Now, On
<1> QED BY <1>1, <1>2, <1>3, <1>4 DEF Fits

-----------------------------------------------------------------------------
(* Outputs stand, step by step.                                            *)

\* The layoutput that others are placed from is a matter of the list only.
LEMMA OriginKept ==
    ASSUME config' = config, NEW u, layoutput_list' = u.los
    PROVE  Origin(Now({}))' = Origin(u)
<1> DEFINE a == {n \in Range(u.los) : SectionOf(n).origin = "true"}
           c == {i \in DOMAIN u.los : SectionOf(u.los[i]).origin = ""}
           b == {n \in Range(layoutput_list) : SectionOf(n).origin = "true"}
           d == {i \in DOMAIN layoutput_list : SectionOf(layoutput_list[i]).origin = ""}
<1>1. b' = a /\ d' = c
  BY DEF SectionOf
<1>2. Origin(u) = IF Cardinality(a) = 1 THEN CHOOSE n \in a : TRUE
        ELSE IF a # {} \/ c = {} THEN NULL ELSE u.los[Min(c)]
  BY DEF Origin
<1>3. Origin(Now({})) = IF Cardinality(b) = 1 THEN CHOOSE n \in b : TRUE
        ELSE IF b # {} \/ d = {} THEN NULL ELSE layoutput_list[Min(d)]
  BY DEF Origin, Now
<1>4. (Origin(Now({})) = IF Cardinality(b) = 1 THEN CHOOSE n \in b : TRUE
        ELSE IF b # {} \/ d = {} THEN NULL ELSE layoutput_list[Min(d)])'
  BY DEF Origin, Now
<1> HIDE DEF a, b, c, d
<1>5. Origin(Now({}))' = IF Cardinality(a) = 1 THEN CHOOSE n \in a : TRUE
        ELSE IF a # {} \/ c = {} THEN NULL ELSE u.los[Min(c)]
  BY <1>1, <1>4
<1>6. PICK e : e = IF Cardinality(a) = 1 THEN CHOOSE n \in a : TRUE
        ELSE IF a # {} \/ c = {} THEN NULL ELSE u.los[Min(c)]
  OBVIOUS
<1>7. Origin(u) = e
  BY <1>2, <1>6
<1>8. Origin(Now({}))' = e
  BY <1>5, <1>6
<1>9. Origin(Now({}))' = Origin(u)
  BY <1>7, <1>8
<1> QED BY <1>9

\* StandsAsConfigured says that the outputs stand.
LEMMA StandsIs ==
    StandsAsConfigured <=> (placed = "all" => Standing(place, Now({})))
<1>1. PICK origin : origin = Origin(Now({}))
  OBVIOUS
<1>2. Now({}).wet = wet
  BY DEF Now
<1> QED BY <1>1, <1>2 DEF StandsAsConfigured, Standing, Beside, Line

\* Outputs that stand at at, and are put there, stand as configured.
LEMMA StandsPut ==
    ASSUME config' = config, NEW s, wet' = s.wet, layoutput_list' = s.los,
           NEW at, place' = at, placed' = "all" => Standing(at, s)
    PROVE  StandsAsConfigured'
<1>1. PICK origin : origin = Origin(s)
  OBVIOUS
<1>2. Origin(Now({}))' = origin
  BY <1>1, OriginKept
<1>3. placed' = "all" =>
        \A n \in Names \ {origin} : s.wet[n] \in Outputs =>
            Beside(at[s.wet[n]], at[s.wet[Refer(n, origin)]], SectionOf(n))
  BY <1>1 DEF Standing
<1>4. (placed = "all" => Standing(place, Now({})))'
  <2>1. /\ \A n : SectionOf(n)' = SectionOf(n)
        /\ \A n, x : Refer(n, x)' = Refer(n, x)
    BY DEF SectionOf, Refer
  <2>2. Now({}).wet' = s.wet
    BY DEF Now
  <2> SUFFICES ASSUME placed' = "all", NEW n \in Names \ {origin}, wet'[n] \in Outputs
               PROVE  Beside(place[wet[n]], place[wet[Refer(n, origin)]], SectionOf(n))'
    BY <1>2, <2>2 DEF Standing, Now
  <2>3. Beside(at[s.wet[n]], at[s.wet[Refer(n, origin)]], SectionOf(n))
    BY <1>3
  <2>4. PICK me, ref, sec : me = at[s.wet[n]] /\ ref = at[s.wet[Refer(n, origin)]] /\ sec = SectionOf(n)
    OBVIOUS
  <2>5. place'[wet'[n]] = me /\ place'[wet'[Refer(n, origin)']] = ref /\ SectionOf(n)' = sec
    BY <2>1, <2>4
  <2>6. Beside(me, ref, sec)
    BY <2>3, <2>4
  <2> QED BY <2>5, <2>6 DEF Beside, Line
<1>5. StandsAsConfigured' <=> (placed = "all" => Standing(place, Now({})))'
  BY StandsIs, PTL
<1> QED BY <1>4, <1>5

\* What the proof of StandsAsConfigured needs besides the invariant.
Placing == Fits(Now({})) /\ StandsAsConfigured

\* At start there is nothing to place.
LEMMA InitFits == Init => Placing
<1> SUFFICES ASSUME Init PROVE Placing
  OBVIOUS
<1> DEFINE s == Now({})
<1>1. Good(s, vanished)
  BY InitGood DEF IInv
<1>2. /\ s.wet = [n \in Names |-> None] /\ s.out = [o \in Outputs |-> NULL]
      /\ s.place = [o \in Outputs |-> NULL] /\ s.list = <<>> /\ s.tracked = {}
      /\ s.flip = {o \in Outputs : s.out[o] # NULL /\ s.out[o].deferred # "no"}
      /\ placed = "no"
  BY DEF Init, Now
<1> HIDE DEF s
<1>3. On(s) = {}
  <2>1. \A o \in On(s) : s.out[o] # NULL
    BY <1>1 DEF Good, Owned
  <2>2. On(s) \subseteq Outputs
    BY <1>1, RangeOf DEF Good, Typed, List, On
  <2> QED BY <1>2, <2>1, <2>2
<1>4. Sited(s)
  BY <1>1, <1>2, <1>3 DEF Sited, Good, Typed
<1>5. Listed(s) /\ Followed(s) /\ Flying(s)
  BY <1>2, <1>3, Ids DEF Listed, Followed, Flying
<1> QED BY <1>2, <1>4, <1>5 DEF Placing, Fits, StandsAsConfigured, s

\* A step that leaves the outputs and how they were placed alone.
LEMMA SameStands ==
    ASSUME IInv, Placing,
           UNCHANGED <<config, wet, out, place, output_list, tracked, layoutput_list, placed>>
    PROVE  Placing'
<1>1. PICK s : s = Now({})
  OBVIOUS
<1>2. /\ wet' = s.wet /\ out' = s.out /\ output_list' = s.list /\ tracked' = s.tracked
      /\ layoutput_list' = s.los /\ place' = s.place
  BY <1>1 DEF Now
<1>3. Good(s, vanished) /\ Fits(s) /\ (placed' = "all" => Standing(s.place, s))
  <2>1. s.place = place
    BY <1>1 DEF Now
  <2> QED BY <1>1, <2>1, StandsIs DEF IInv, Placing
<1>4. Located(s.place, s)
  BY <1>3 DEF Fits, Sited, Located
<1>5. \A o \in Outputs : s.out[o] # NULL /\ s.out[o].deferred # "no" => o \in On(s)
  BY <1>3 DEF Good, Flips, Fits, Flying
<1>6. Fits(Now({}))'
  BY <1>2, <1>3, <1>4, <1>5, PutFits DEF Fits
<1>7. StandsAsConfigured'
  BY <1>2, <1>3, StandsPut
<1> QED BY <1>6, <1>7 DEF Placing

\* drm_heads_changed
LEMMA HeadsChangedStands ==
    ASSUME IInv, Placing, HeadsChanged
    PROVE  Placing'
<1>1. PICK F \in SUBSET Range(output_list),
           keep \in IF MayFail THEN 0 .. MaxClones ELSE {MaxClones} :
        LET s == Processed(Visited(Now(F)), keep)
            positioned == Positioned(s)
        IN  IF s.failed \/ s.aborted # "no"
            THEN Put(s) /\ placed' = "no"
            ELSE /\ Put([s EXCEPT !.place = positioned.at])
                 /\ placed' = IF positioned.ok THEN "all" ELSE "no"
  BY DEF HeadsChanged
<1> DEFINE s == Now(F)
           t == Processed(Visited(s), keep)
<1>2. PICK p : p = Positioned(t)
  OBVIOUS
<1>3. IF t.failed \/ t.aborted # "no"
      THEN Put(t) /\ placed' = "no"
      ELSE Put([t EXCEPT !.place = p.at]) /\ placed' = IF p.ok THEN "all" ELSE "no"
  BY <1>1, <1>2
<1>4. keep \in Nat
  BY NumbersAssumption
<1>5. F \subseteq Outputs
  <2>1. output_list \in Seq(Outputs)
    BY DEF IInv, Good, Typed, Now, List
  <2> QED BY <2>1, RangeOf
<1>6. Visiting(s, s, 0) /\ Fits(s)
  BY <1>5, NowIs, NowFits DEF Placing
<1>7. /\ config \in Configs /\ vanished \subseteq Heads /\ List(head_list, Heads)
  BY DEF IInv
<1> HIDE DEF s
<1>8. Good(t, vanished) /\ Fits(t)
  BY <1>4, <1>6, <1>7, PassKeeps
<1> HIDE DEF t
<1>9. config' = config
  BY DEF HeadsChanged
<1>10. Typed(t) /\ Owned(t) /\ Rec(t) /\ Listed(t) /\ Located(t.place, t)
  BY <1>8 DEF Good, Fits, Sited, Located
<1>11. \A o \in Outputs : t.out[o] # NULL /\ t.out[o].deferred # "no" => o \in On(t)
  BY <1>8 DEF Good, Flips, Fits, Flying
<1>12. PICK at : /\ wet' = t.wet /\ out' = t.out /\ output_list' = t.list
                 /\ tracked' = t.tracked /\ layoutput_list' = t.los /\ place' = at
                 /\ Located(at, t) /\ (placed' = "all" => Standing(at, t))
  <2>1. CASE t.failed \/ t.aborted # "no"
    <3>1. Put(t) /\ placed' = "no"
      BY <1>3, <2>1
    <3> QED BY <1>10, <3>1 DEF Put
  <2>2. CASE ~(t.failed \/ t.aborted # "no")
    <3>1. Put([t EXCEPT !.place = p.at]) /\ placed' = IF p.ok THEN "all" ELSE "no"
      BY <1>3, <2>2
    <3>2. Located(p.at, t) /\ (p.ok => Standing(p.at, t))
      BY <1>2, <1>10, PositionedStands
    <3>3. PICK at : at = p.at
      OBVIOUS
    <3> DEFINE u == [t EXCEPT !.place = at]
    <3>4. /\ u.wet = t.wet /\ u.out = t.out /\ u.list = t.list /\ u.place = at
          /\ u.tracked = t.tracked /\ u.los = t.los
      BY <1>10 DEF Rec
    <3>5. Put(u)
      BY <3>1, <3>3
    <3> HIDE DEF u
    <3>6. /\ wet' = t.wet /\ out' = t.out /\ output_list' = t.list
          /\ tracked' = t.tracked /\ layoutput_list' = t.los /\ place' = at
      BY <3>4, <3>5 DEF Put
    <3> QED BY <3>1, <3>2, <3>3, <3>6
  <2> QED BY <2>1, <2>2
<1>13. Fits(Now({}))'
  BY <1>8, <1>11, <1>12, PutFits DEF Fits
<1>14. StandsAsConfigured'
  BY <1>9, <1>12, StandsPut
<1> QED BY <1>13, <1>14 DEF Placing

\* drm_head_destroy
LEMMA HeadDestroyedStands ==
    ASSUME IInv, Placing, NEW h \in Heads, HeadDestroyed(h)
    PROVE  Placing'
<1>1. PICK F \in SUBSET ({OutputOf(Now({}), h)} \cap Range(output_list)) :
        LET s == Now(F)
            o == OutputOf(s, h)
            last == o # NULL /\ Len(s.out[o].heads) = 1
            t == IF h \in tracked /\ last THEN Destroyed(s, o) ELSE s
            u == Detached([t EXCEPT !.tracked = @ \ {h}], h)
        IN  Put(u) /\ placed' = AfterReflow(u)
  BY DEF HeadDestroyed
<1> DEFINE s == Now(F)
           u == Unplugged(s, h)
<1>2. F \subseteq Outputs
  <2>1. output_list \in Seq(Outputs)
    BY DEF IInv, Good, Typed, Now, List
  <2> QED BY <2>1, RangeOf
<1>3. /\ Good(s, vanished) /\ s.tracked = tracked
      /\ s.wet = wet /\ s.list = output_list /\ s.los = layoutput_list /\ s.place = place
  BY <1>2, NowIs DEF Now
<1>4. Fits(s)
  BY NowFits DEF Placing
<1>5. Put(u) /\ placed' = AfterReflow(u)
  <2>1. u = LET o == OutputOf(s, h)
                last == o # NULL /\ Len(s.out[o].heads) = 1
                t == IF h \in tracked /\ last THEN Destroyed(s, o) ELSE s
            IN  Detached([t EXCEPT !.tracked = @ \ {h}], h)
    BY <1>3 DEF Unplugged
  <2> HIDE DEF u, s
  <2> QED BY <1>1, <2>1 DEF s
<1> HIDE DEF u, s
<1>6. Fits(u) /\ Still(s, u) /\ u.los = s.los /\ Good(u, vanished \cup {h})
  BY <1>3, <1>4, UnpluggedFits, UnpluggedKeeps DEF IInv, u
<1>7. /\ wet' = u.wet /\ out' = u.out /\ output_list' = u.list /\ place' = u.place
      /\ tracked' = u.tracked /\ layoutput_list' = u.los
  BY <1>5 DEF Put
<1>8. Located(u.place, u)
  BY <1>6 DEF Fits, Sited, Located
<1>9. \A o \in Outputs : u.out[o] # NULL /\ u.out[o].deferred # "no" => o \in On(u)
  BY <1>6 DEF Good, Flips, Fits, Flying
<1>10. Fits(Now({}))'
  BY <1>6, <1>7, <1>8, <1>9, PutFits DEF Fits
<1>11. StandsAsConfigured'
  <2>1. PICK z : z = Now({})
    OBVIOUS
  <2>2. z.wet = wet /\ z.los = layoutput_list /\ z.place = place
    BY <2>1 DEF Now
  <2>3. config' = config
    BY DEF HeadDestroyed
  <2>4. CASE placed' = "all"
    <3>1. placed = "all" /\ u.list = s.list
      BY <1>3, <1>5, <2>4 DEF AfterReflow
    <3>2. wet' = z.wet /\ layoutput_list' = z.los /\ place' = place
      BY <1>3, <1>6, <1>7, <2>2, <3>1 DEF Still
    <3>3. Standing(place, z)
      BY <2>1, <3>1, StandsIs DEF Placing
    <3> QED BY <2>3, <3>2, <3>3, StandsPut
  <2>5. CASE placed' # "all"
    BY <2>5 DEF StandsAsConfigured
  <2> QED BY <2>4, <2>5
<1> QED BY <1>10, <1>11 DEF Placing

\* drm_output_update_complete
LEMMA FlipDoneStands ==
    ASSUME IInv, Placing, NEW o \in Outputs, FlipDone(o)
    PROVE  Placing'
<1> DEFINE s == Now({})
           u == Completed(s, o)
<1>1. Good(s, vanished) /\ Fits(s) /\ s.out = out /\ s.list = output_list
  BY DEF IInv, Placing, Now
<1>2. s.out[o] # NULL /\ s.out[o].deferred # "no"
  BY <1>1 DEF FlipDone
<1>3. Put(u) /\ placed' = AfterReflow(u)
  <2>1. u = IF out[o].deferred = "destroy" THEN Released(Now({}), o)
            ELSE RemoveOutput([Now({}) EXCEPT !.out[o].deferred = "no"], o)
    BY <1>1 DEF Completed
  <2> HIDE DEF u
  <2> QED BY <2>1 DEF FlipDone
<1> HIDE DEF s
<1>4. /\ Sited(u) /\ Listed(u) /\ Followed(u) /\ u.flip = s.flip
      /\ o \in On(s) /\ On(u) = On(s) \ {o}
      /\ u.out[o] # NULL => u.out[o].deferred = "no"
      /\ Good(u, vanished)
  BY <1>1, <1>2, CompletedFits, CompletedKeeps DEF IInv
<1> HIDE DEF u
<1>5. /\ wet' = u.wet /\ out' = u.out /\ output_list' = u.list /\ place' = u.place
      /\ tracked' = u.tracked /\ layoutput_list' = u.los
  BY <1>3 DEF Put
<1>6. Located(u.place, u)
  BY <1>4 DEF Sited, Located
<1>7. \A p \in Outputs : u.out[p] # NULL /\ u.out[p].deferred # "no" => p \in On(u)
  BY <1>1, <1>4 DEF Good, Flips, Fits, Flying
<1>8. Fits(Now({}))'
  BY <1>4, <1>5, <1>6, <1>7, PutFits
<1>9. placed' # "all"
  <2>1. u.list # output_list
    BY <1>1, <1>4 DEF On
  <2> QED BY <1>3, <2>1 DEF AfterReflow
<1> QED BY <1>8, <1>9 DEF Placing, StandsAsConfigured

\* Outputs stand, and what that takes is kept, at every step.
LEMMA NextStands ==
    ASSUME IInv, Placing, [Next]_vars
    PROVE  Placing'
<1>1. CASE UNCHANGED vars
  BY <1>1, SameStands DEF vars
<1>2. CASE HeadsChanged
  BY <1>2, HeadsChangedStands
<1>3. ASSUME NEW h \in Heads, HeadFound(h) \/ ConnectionChanged(h) PROVE Placing'
  <2>1. UNCHANGED <<config, wet, out, place, output_list, tracked, layoutput_list, placed>>
    BY <1>3 DEF HeadFound, ConnectionChanged
  <2> QED BY <2>1, SameStands
<1>4. ASSUME NEW h \in Heads, HeadDestroyed(h) PROVE Placing'
  BY <1>4, HeadDestroyedStands
<1>5. ASSUME NEW o \in Outputs, FlipDone(o) PROVE Placing'
  BY <1>5, FlipDoneStands
<1> QED BY <1>1, <1>2, <1>3, <1>4, <1>5 DEF Next

-----------------------------------------------------------------------------
(* The theorems.                                                           *)

\* At start the heads have yet to be looked at.
LEMMA InitShown == Init => ConnectedShown
BY DEF Init, ConnectedShown

\* The outputs, heads and layoutputs always fit together as the invariant says.
THEOREM AlwaysIInv == Spec => [](IInv /\ ConnectedShown)
<1>1. Init => IInv /\ ConnectedShown
  BY InitGood, InitShown
<1>2. IInv /\ ConnectedShown /\ [Next]_vars => (IInv /\ ConnectedShown)'
  BY NextKeeps
<1> QED BY <1>1, <1>2, PTL DEF Spec

\* What the invariant means for the outputs.
LEMMA HeadsFit == IInv => HeadsOK
<1> SUFFICES ASSUME IInv PROVE HeadsOK
  OBVIOUS
<1> DEFINE s == Now({})
<1>1. /\ s.wet = wet /\ s.out = out /\ s.list = output_list /\ s.tracked = tracked
      /\ s.los = layoutput_list
  BY DEF Now
<1>2. Typed(s) /\ Owned(s) /\ Lit(s)
  BY DEF IInv, Good
<1> HIDE DEF s
<1>3. HeadsTypeOK
  BY <1>1, <1>2 DEF IInv, Typed, List, HeadsTypeOK
<1>4. \A o \in Range(wet) \cap Outputs : out[o] # NULL
  <2>1. \A o \in Range(wet) : \E n \in Names : o = wet[n]
    BY <1>1, <1>2 DEF Typed, Range
  <2> QED BY <1>1, <1>2, <2>1 DEF Owned
<1>5. \A m, n \in Names : m # n /\ wet[m] = wet[n] => wet[m] \notin Outputs
  BY <1>1, <1>2 DEF Owned
<1>6. \A o, p \in Outputs : out[o] # NULL /\ out[p] # NULL /\ o # p =>
            Range(out[o].heads) \cap Range(out[p].heads) = {}
  BY <1>1, <1>2 DEF Owned, HeadsOf
<1>7. ASSUME NEW o \in Range(output_list)
      PROVE  out[o] # NULL /\ (~Dying(o) => o \in Range(wet))
  <2>1. o \in On(s) /\ o \in Outputs /\ out[o] # NULL
    BY <1>1, <1>2, RangeOf DEF On, Typed, List, Owned
  <2>2. ASSUME ~Dying(o) PROVE o \in Range(wet)
    <3>1. s.out[o].heads # <<>> /\ s.out[o].heads \in Seq(Heads) /\ HeadsOf(s, o) \subseteq Heads
      BY <1>1, <1>2, <2>1, <2>2, OutputTypes DEF Lit, Dying
    <3>2. PICK h \in HeadsOf(s, o) : TRUE
      BY <3>1, RangeOf DEF HeadsOf
    <3>3. LayoutputOf(h) \in Names /\ wet[LayoutputOf(h)] = o
      BY <1>1, <1>2, <2>1, <3>1, <3>2, HeadNames DEF Owned, IInv
    <3>4. DOMAIN wet = Names
      BY <1>1, <1>2 DEF Typed
    <3> QED BY <3>3, <3>4 DEF Range
  <2> QED BY <2>1, <2>2
<1> QED BY <1>3, <1>4, <1>5, <1>6, <1>7 DEF HeadsOK, OutputsOwned, IInv

\* No list and no wet_output points to an output that has been freed, every
\* output that stays can be disabled through its layoutput, the assertion of
\* drm_head_disable holds, and that of drm_process_layoutput unless a clone's
\* connector had disappeared.
THEOREM HeadsAlwaysOK == Spec => []HeadsOK
<1>1. IInv /\ ConnectedShown => HeadsOK
  BY HeadsFit
<1> QED BY <1>1, AlwaysIInv, PTL

\* Once every change has been handled, exactly the heads that shall be are enabled,
\* but for those whose layoutput has lost its output since.
THEOREM ConnectedAlwaysShown == Spec => []ConnectedShown
<1>1. IInv /\ ConnectedShown => ConnectedShown
  OBVIOUS
<1> QED BY <1>1, AlwaysIInv, PTL

\* Monitors that come and go leave one that stays on its output.
THEOREM StaysAlwaysShown == Spec => StaysShown
<1>1. IInv /\ ConnectedShown /\ [Next]_vars => [Staying]_vars
  BY NextKeeps
<1> QED BY <1>1, AlwaysIInv, PTL DEF Spec, StaysShown, Staying

\* Every output there is has a place; drm_head_disable and drm_head_destroy find
\* what has a tracker on an enabled output, which stays; only an enabled output
\* waits for a flip; and drm_position_layoutputs comes by every layoutput that has
\* an output.
THEOREM AlwaysFits == Spec => []Fits(Now({}))
<1>1. IInv /\ Placing /\ [Next]_vars => Placing'
  BY NextStands
<1>2. Placing => Fits(Now({}))
  BY DEF Placing
<1> QED BY <1>1, <1>2, InitFits, AlwaysIInv, PTL DEF Spec

\* After a pass of drm_position_layoutputs that was not given up, and until an
\* output goes, every output touches the one it refers to on the side, and with
\* the alignment, that weston.ini says.
THEOREM AlwaysStandsAsConfigured == Spec => []StandsAsConfigured
<1>1. IInv /\ Placing /\ [Next]_vars => Placing'
  BY NextStands
<1>2. Placing => StandsAsConfigured
  BY DEF Placing
<1> QED BY <1>1, <1>2, InitFits, AlwaysIInv, PTL DEF Spec
=============================================================================
