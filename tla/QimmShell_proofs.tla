--------------------------- MODULE QimmShell_proofs ---------------------------
(***************************************************************************)
(* Proofs about QimmOutputs, and about QimmShell, which extends it.        *)
(*                                                                         *)
(* Of the outputs, for any number of monitors, projects and addresses: the *)
(* variables keep their types, every project is on exactly one list, of an *)
(* output the shell has, the assertions of the code hold, and the shell    *)
(* implements QimmPlacement.  And what its handlers achieve: every output  *)
(* of a shell at rest shows a project, restore brings home all that can go *)
(* home, and the homes of the projects are on disk and are found there by  *)
(* the next process.                                                       *)
(*                                                                         *)
(* Of the shell: its steps are steps of QimmOutputs, so that what is       *)
(* proved there holds of the composition; the clients keep the invariant   *)
(* of QimmClients, for the order the outputs give the search; and together *)
(* they have clients for what is on show.                                  *)
(***************************************************************************)
EXTENDS QimmShell, FiniteSetTheorems, WellFoundedInduction, SequenceTheorems, TLAPS

CP == INSTANCE QimmClients_proofs WITH order <- SearchOrder, MaxQueue <- 0

-----------------------------------------------------------------------------
(* wl_list, a sequence without duplicates: what linking and unlinking do   *)
(* to its elements.                                                        *)

\* The elements of a list are those at its positions.
LEMMA ListRange ==
    ASSUME NEW S, NEW s \in Seq(S)
    PROVE  /\ Range(s) \subseteq S
           /\ \A i \in 1..Len(s) : s[i] \in Range(s)
           /\ \A e \in Range(s) : \E i \in 1..Len(s) : s[i] = e
           /\ Range(s) = {} <=> s = <<>>
<1>1. DOMAIN s = 1..Len(s) /\ Len(s) \in Nat /\ \A i \in 1..Len(s) : s[i] \in S
  OBVIOUS
<1>2. Range(s) = {s[i] : i \in 1..Len(s)}
  BY <1>1 DEF Range
<1>3. s # <<>> => 1 \in 1..Len(s)
  BY <1>1
<1>4. s = <<>> => Range(s) = {}
  BY <1>1, <1>2
<1> QED BY <1>1, <1>2, <1>3, <1>4

\* IsList, at the positions of a sequence.
LEMMA ListApart ==
    ASSUME NEW S, NEW s \in Seq(S)
    PROVE  IsList(s) <=>
                \A i, j \in 1..Len(s) : s[i] = s[j] => i = j
BY DEF IsList

\* The empty list.
LEMMA EmptyList == IsList(<<>>) /\ Range(<<>>) = {}
BY DEF IsList, Range

\* The head of a list and what follows it.
LEMMA HeadTail ==
    ASSUME NEW S, NEW s \in Seq(S), s # <<>>
    PROVE  /\ Head(s) \in Range(s) /\ Tail(s) \in Seq(S)
           /\ Range(s) = {Head(s)} \cup Range(Tail(s))
           /\ IsList(s) => IsList(Tail(s)) /\ Head(s) \notin Range(Tail(s))
<1>1. Len(s) \in Nat \ {0} /\ Head(s) = s[1] /\ Tail(s) \in Seq(S)
  OBVIOUS
<1>2. Len(Tail(s)) = Len(s) - 1 /\ \A i \in 1..Len(Tail(s)) : Tail(s)[i] = s[i + 1]
  OBVIOUS
<1>3. Head(s) \in Range(s)
  BY <1>1, ListRange
<1>4. Range(s) = {Head(s)} \cup Range(Tail(s))
  <2>1. ASSUME NEW e \in Range(s) PROVE e = Head(s) \/ e \in Range(Tail(s))
    <3>1. PICK i \in 1..Len(s) : s[i] = e
      BY <2>1, ListRange
    <3>2. i = 1 \/ (i - 1 \in 1..Len(Tail(s)) /\ Tail(s)[i - 1] = e)
      BY <1>1, <1>2, <3>1
    <3>3. \A j \in 1..Len(Tail(s)) : Tail(s)[j] \in Range(Tail(s))
      BY <1>1, ListRange
    <3> QED BY <1>1, <3>1, <3>2, <3>3
  <2>2. ASSUME NEW e \in Range(Tail(s)) PROVE e \in Range(s)
    <3>1. PICK i \in 1..Len(Tail(s)) : Tail(s)[i] = e
      BY <1>1, <2>2, ListRange
    <3>2. i + 1 \in 1..Len(s) /\ s[i + 1] = e
      BY <1>1, <1>2, <3>1
    <3> QED BY <3>2, ListRange
  <2> QED BY <1>3, <2>1, <2>2
<1>5. ASSUME IsList(s) PROVE IsList(Tail(s)) /\ Head(s) \notin Range(Tail(s))
  <2>1. \A i, j \in 1..Len(s) : s[i] = s[j] => i = j
    BY <1>5, ListApart
  <2>2. ASSUME NEW i \in 1..Len(Tail(s)), NEW j \in 1..Len(Tail(s)),
               Tail(s)[i] = Tail(s)[j]
        PROVE  i = j
    <3>1. i + 1 \in 1..Len(s) /\ j + 1 \in 1..Len(s) /\ s[i + 1] = s[j + 1]
      BY <1>1, <1>2, <2>2
    <3>2. i + 1 = j + 1
      BY <2>1, <3>1
    <3> QED BY <3>2
  <2>3. ASSUME Head(s) \in Range(Tail(s)) PROVE FALSE
    <3>1. PICK i \in 1..Len(Tail(s)) : Tail(s)[i] = Head(s)
      BY <1>1, <2>3, ListRange
    <3> QED BY <1>1, <1>2, <2>1, <3>1
  <2>4. IsList(Tail(s))
    BY <1>1, <2>2, ListApart
  <2> QED BY <2>3, <2>4
<1> QED BY <1>1, <1>3, <1>4, <1>5

\* wl_list_insert adds one element.
LEMMA InsertAfterList ==
    ASSUME NEW S, NEW s \in Seq(S), NEW n \in 0..Len(s), NEW e \in S
    PROVE  /\ InsertAfter(s, n, e) \in Seq(S)
           /\ Range(InsertAfter(s, n, e)) = Range(s) \cup {e}
           /\ Len(InsertAfter(s, n, e)) = Len(s) + 1
           /\ IsList(s) /\ e \notin Range(s) => IsList(InsertAfter(s, n, e))
<1> DEFINE t == InsertAfter(s, n, e)
<1>0. Len(s) \in Nat
  OBVIOUS
<1>1. \A j \in 1..Len(s) + 1 :
        t[j] = IF j <= n THEN s[j] ELSE IF j = n + 1 THEN e ELSE s[j - 1]
  BY <1>0 DEF InsertAfter
<1>2. t \in Seq(S) /\ Len(t) = Len(s) + 1
  <2>1. \A j \in 1..Len(s) + 1 : t[j] \in S
    BY <1>0, <1>1
  <2>2. t \in [1..Len(s) + 1 -> S]
    BY <1>0, <2>1 DEF InsertAfter
  <2> QED BY <1>0, <2>2
<1> HIDE DEF t
<1>3. Range(t) = Range(s) \cup {e}
  <2>1. ASSUME NEW x \in Range(t) PROVE x \in Range(s) \cup {e}
    <3>1. PICK j \in 1..Len(t) : t[j] = x
      BY <1>2, <2>1, ListRange
    <3>2. x = e \/ \E i \in 1..Len(s) : s[i] = x
      <4>1. j \in 1..Len(s) + 1
        BY <1>2, <3>1
      <4>2. CASE j <= n
        BY <1>0, <1>1, <3>1, <4>1, <4>2
      <4>3. CASE j = n + 1
        BY <1>0, <1>1, <3>1, <4>1, <4>3
      <4>4. CASE j > n + 1
        <5>1. j - 1 \in 1..Len(s) /\ t[j] = s[j - 1]
          BY <1>0, <1>1, <4>1, <4>4
        <5> QED BY <3>1, <5>1
      <4> QED BY <1>0, <4>1, <4>2, <4>3, <4>4
    <3> QED BY <3>2, ListRange
  <2>2. e \in Range(t)
    <3>1. t[n + 1] = e /\ n + 1 \in 1..Len(t)
      BY <1>0, <1>1, <1>2
    <3> QED BY <1>2, <3>1, ListRange
  <2>3. ASSUME NEW x \in Range(s) PROVE x \in Range(t)
    <3>1. PICK j \in 1..Len(s) : s[j] = x
      BY <2>3, ListRange
    <3>2. CASE j <= n
      BY <1>0, <1>1, <1>2, <3>1, <3>2, ListRange
    <3>3. CASE j > n
      <4>1. j + 1 \in 1..Len(t) /\ t[j + 1] = x
        BY <1>0, <1>1, <1>2, <3>1, <3>3
      <4> QED BY <1>2, <4>1, ListRange
    <3> QED BY <3>2, <3>3
  <2> QED BY <2>1, <2>2, <2>3
<1>4. ASSUME IsList(s), e \notin Range(s) PROVE IsList(t)
  <2>1. \A i, j \in 1..Len(s) : s[i] = s[j] => i = j
    BY <1>4, ListApart
  <2>2. \A i \in 1..Len(s) : s[i] # e
    BY <1>4, ListRange
  <2> DEFINE from(i) == IF i <= n THEN i ELSE i - 1
  <2>3. \A i \in 1..Len(t) :
          i # n + 1 => from(i) \in 1..Len(s) /\ t[i] = s[from(i)] /\ t[i] # e
    BY <1>0, <1>1, <1>2, <2>2
  <2>4. t[n + 1] = e /\ n + 1 \in 1..Len(t)
    BY <1>0, <1>1, <1>2
  <2>5. ASSUME NEW i \in 1..Len(t), NEW j \in 1..Len(t), t[i] = t[j],
               i # n + 1, j # n + 1
        PROVE  i = j
    <3>1. from(i) = from(j)
      BY <2>1, <2>3, <2>5
    <3> QED BY <1>0, <1>2, <2>5, <3>1
  <2>6. \A i, j \in 1..Len(t) : t[i] = t[j] => i = j
    BY <2>3, <2>4, <2>5
  <2> QED BY <1>2, <2>6, ListApart
<1> QED BY <1>2, <1>3, <1>4 DEF t

\* The index of an element.
LEMMA IndexOfList ==
    ASSUME NEW S, NEW s \in Seq(S), NEW e \in Range(s)
    PROVE  IndexOf(s, e) \in 1..Len(s) /\ s[IndexOf(s, e)] = e
<1>1. DOMAIN s = 1..Len(s)
  OBVIOUS
<1>2. \E i \in DOMAIN s : s[i] = e
  BY <1>1, ListRange
<1> QED BY <1>1, <1>2 DEF IndexOf

\* wl_list_remove takes one element; the head stays unless it is that one.
LEMMA UnlinkList ==
    ASSUME NEW S, NEW s \in Seq(S), NEW e, IsList(s)
    PROVE  /\ Unlink(s, e) \in Seq(S)
           /\ Range(Unlink(s, e)) = Range(s) \ {e}
           /\ IsList(Unlink(s, e))
           /\ s # <<>> /\ e # Head(s) =>
                Unlink(s, e) # <<>> /\ Head(Unlink(s, e)) = Head(s)
<1>1. CASE e \notin Range(s)
  BY <1>1 DEF Unlink
<1>2. CASE e \in Range(s)
  <2> DEFINE t == Unlink(s, e)
             k == IndexOf(s, e)
  <2>0. Len(s) \in Nat \ {0} /\ Len(s) - 1 \in Nat /\ k \in 1..Len(s) /\ s[k] = e
    BY <1>2, IndexOfList, ListRange
  <2>1. \A j \in 1..Len(s) - 1 : t[j] = IF j < k THEN s[j] ELSE s[j + 1]
    BY <1>2 DEF Unlink
  <2>2. t \in Seq(S) /\ Len(t) = Len(s) - 1
    <3>1. \A j \in 1..Len(s) - 1 : t[j] \in S
      BY <2>0, <2>1
    <3>2. t \in [1..Len(s) - 1 -> S]
      BY <1>2, <2>0, <3>1 DEF Unlink
    <3> QED BY <2>0, <3>2
  <2> HIDE DEF t, k
  <2>3. \A i, j \in 1..Len(s) : s[i] = s[j] => i = j
    BY ListApart
  <2>4. IsList(t)
    <3>1. \A i, j \in 1..Len(t) : t[i] = t[j] => i = j
      BY <2>0, <2>1, <2>2, <2>3
    <3> QED BY <2>2, <3>1, ListApart
  <2>5. ASSUME NEW x \in Range(t) PROVE x \in Range(s) \ {e}
    <3>1. PICK j \in 1..Len(t) : t[j] = x
      BY <2>2, <2>5, ListRange
    <3>2. CASE j < k
      <4>1. j \in 1..Len(s) /\ s[j] = x /\ j # k
        BY <2>0, <2>1, <2>2, <3>1, <3>2
      <4> QED BY <2>0, <2>3, <4>1, ListRange
    <3>3. CASE j >= k
      <4>1. j + 1 \in 1..Len(s) /\ s[j + 1] = x /\ j + 1 # k
        BY <2>0, <2>1, <2>2, <3>1, <3>3
      <4> QED BY <2>0, <2>3, <4>1, ListRange
    <3> QED BY <2>0, <2>2, <3>2, <3>3
  <2>6. ASSUME NEW x \in Range(s) \ {e} PROVE x \in Range(t)
    <3>1. PICK j \in 1..Len(s) : s[j] = x
      BY <2>6, ListRange
    <3>2. CASE j < k
      <4>1. j \in 1..Len(t) /\ t[j] = x
        BY <2>0, <2>1, <2>2, <3>1, <3>2
      <4> QED BY <2>2, <4>1, ListRange
    <3>3. CASE j > k
      <4>1. j - 1 \in 1..Len(t) /\ t[j - 1] = x
        BY <2>0, <2>1, <2>2, <3>1, <3>3
      <4> QED BY <2>2, <4>1, ListRange
    <3> QED BY <2>0, <3>1, <3>2, <3>3
  <2>7. ASSUME e # Head(s) PROVE t # <<>> /\ Head(t) = Head(s)
    <3>1. Head(s) = s[1]
      BY <2>0
    <3>2. k > 1 /\ Len(t) >= 1
      BY <2>0, <2>2, <2>7, <3>1
    <3>3. t[1] = s[1]
      BY <2>0, <2>1, <2>2, <3>2
    <3> QED BY <2>2, <3>1, <3>2, <3>3
  <2> QED BY <2>2, <2>4, <2>5, <2>6, <2>7 DEF t
<1> QED BY <1>1, <1>2

\* Adding at the end.
LEMMA AppendList ==
    ASSUME NEW S, NEW s \in Seq(S), NEW e \in S
    PROVE  /\ Append(s, e) \in Seq(S)
           /\ Range(Append(s, e)) = Range(s) \cup {e}
           /\ IsList(s) /\ e \notin Range(s) => IsList(Append(s, e))
           /\ s # <<>> => Head(Append(s, e)) = Head(s)
           /\ Append(s, e) # <<>>
<1> DEFINE t == Append(s, e)
<1>1. /\ Len(s) \in Nat /\ t \in Seq(S) /\ Len(t) = Len(s) + 1
      /\ \A i \in 1..Len(s) : t[i] = s[i]
      /\ t[Len(s) + 1] = e
  OBVIOUS
<1> HIDE DEF t
<1>2. Range(t) = Range(s) \cup {e}
  <2>1. ASSUME NEW x \in Range(t) PROVE x \in Range(s) \cup {e}
    <3>1. PICK j \in 1..Len(t) : t[j] = x
      BY <1>1, <2>1, ListRange
    <3> QED BY <1>1, <3>1, ListRange
  <2>2. Range(s) \subseteq Range(t) /\ e \in Range(t)
    <3>1. ASSUME NEW x \in Range(s) PROVE x \in Range(t)
      <4>1. PICK j \in 1..Len(s) : s[j] = x
        BY <3>1, ListRange
      <4> QED BY <1>1, <4>1, ListRange
    <3>2. e \in Range(t)
      BY <1>1, ListRange
    <3> QED BY <3>1, <3>2
  <2> QED BY <2>1, <2>2
<1>3. ASSUME IsList(s), e \notin Range(s) PROVE IsList(t)
  <2>1. \A i, j \in 1..Len(s) : s[i] = s[j] => i = j
    BY <1>3, ListApart
  <2>2. \A i \in 1..Len(s) : s[i] # e
    BY <1>3, ListRange
  <2>3. \A i, j \in 1..Len(t) : t[i] = t[j] => i = j
    BY <1>1, <2>1, <2>2
  <2> QED BY <1>1, <2>3, ListApart
<1>4. (s # <<>> => Head(t) = Head(s)) /\ t # <<>>
  BY <1>1
<1> QED BY <1>1, <1>2, <1>3, <1>4 DEF t

\* Two lists without a common element, one behind the other.
LEMMA ConcatList ==
    ASSUME NEW S, NEW s \in Seq(S), NEW t \in Seq(S)
    PROVE  /\ s \o t \in Seq(S)
           /\ Range(s \o t) = Range(s) \cup Range(t)
           /\ IsList(s) /\ IsList(t) /\ Range(s) \cap Range(t) = {}
                => IsList(s \o t)
<1> DEFINE u == s \o t
<1>1. /\ Len(s) \in Nat /\ Len(t) \in Nat /\ u \in Seq(S)
      /\ Len(u) = Len(s) + Len(t)
      /\ \A i \in 1..Len(u) : u[i] = IF i <= Len(s) THEN s[i] ELSE t[i - Len(s)]
  OBVIOUS
<1> HIDE DEF u
<1>2. Range(u) = Range(s) \cup Range(t)
  <2>1. ASSUME NEW x \in Range(u) PROVE x \in Range(s) \cup Range(t)
    <3>1. PICK j \in 1..Len(u) : u[j] = x
      BY <1>1, <2>1, ListRange
    <3>2. \/ j \in 1..Len(s) /\ s[j] = x
          \/ j - Len(s) \in 1..Len(t) /\ t[j - Len(s)] = x
      BY <1>1, <3>1
    <3> QED BY <3>2, ListRange
  <2>2. ASSUME NEW x \in Range(s) PROVE x \in Range(u)
    <3>1. PICK j \in 1..Len(s) : s[j] = x
      BY <2>2, ListRange
    <3> QED BY <1>1, <3>1, ListRange
  <2>3. ASSUME NEW x \in Range(t) PROVE x \in Range(u)
    <3>1. PICK j \in 1..Len(t) : t[j] = x
      BY <2>3, ListRange
    <3> DEFINE k == j + Len(s)
    <3>2. k \in 1..Len(u) /\ ~(k <= Len(s)) /\ k - Len(s) = j
      BY <1>1
    <3>3. u[k] = x
      BY <1>1, <3>1, <3>2
    <3> QED BY <1>1, <3>2, <3>3, ListRange
  <2> QED BY <2>1, <2>2, <2>3
<1>3. ASSUME IsList(s), IsList(t), Range(s) \cap Range(t) = {} PROVE IsList(u)
  <2>1. /\ \A i, j \in 1..Len(s) : s[i] = s[j] => i = j
        /\ \A i, j \in 1..Len(t) : t[i] = t[j] => i = j
    BY <1>3, ListApart
  <2>2. \A i \in 1..Len(s), j \in 1..Len(t) : s[i] # t[j]
    BY <1>3, ListRange
  <2>3. ASSUME NEW i \in 1..Len(u), NEW j \in 1..Len(u), u[i] = u[j] PROVE i = j
    <3>1. CASE i <= Len(s) /\ j <= Len(s)
      BY <1>1, <2>1, <2>3, <3>1
    <3>2. CASE i > Len(s) /\ j > Len(s)
      <4>1. i - Len(s) \in 1..Len(t) /\ j - Len(s) \in 1..Len(t)
        BY <1>1, <3>2
      <4>2. t[i - Len(s)] = t[j - Len(s)]
        BY <1>1, <2>3, <3>2
      <4>3. i - Len(s) = j - Len(s)
        BY <2>1, <4>1, <4>2
      <4> QED BY <1>1, <4>3
    <3>3. CASE i <= Len(s) /\ j > Len(s)
      <4>1. i \in 1..Len(s) /\ j - Len(s) \in 1..Len(t)
        BY <1>1, <3>3
      <4>2. u[i] = s[i] /\ u[j] = t[j - Len(s)]
        BY <1>1, <3>3
      <4> QED BY <2>2, <2>3, <4>1, <4>2
    <3>4. CASE i > Len(s) /\ j <= Len(s)
      <4>1. j \in 1..Len(s) /\ i - Len(s) \in 1..Len(t)
        BY <1>1, <3>4
      <4>2. u[j] = s[j] /\ u[i] = t[i - Len(s)]
        BY <1>1, <3>4
      <4> QED BY <2>2, <2>3, <4>1, <4>2
    <3> QED BY <1>1, <3>1, <3>2, <3>3, <3>4
  <2> QED BY <1>1, <2>3, ListApart
<1> QED BY <1>1, <1>2, <1>3 DEF u

\* A list over a finite set is no longer than the set has elements.
LEMMA ListLength ==
    ASSUME NEW S, IsFiniteSet(S), NEW s \in Seq(S), IsList(s)
    PROVE  Len(s) <= Cardinality(S)
<1> SUFFICES ASSUME Cardinality(S) < Len(s) PROVE FALSE
  BY FS_CardinalityType
<1>1. IsFiniteSet(1..Len(s)) /\ Cardinality(1..Len(s)) = Len(s)
  BY FS_Interval
<1>2. s \in [1..Len(s) -> S] /\ \A i, j \in 1..Len(s) : s[i] = s[j] => i = j
  BY ListApart
<1>3. \E i, j \in 1..Len(s) : i # j /\ s[i] = s[j]
  BY <1>1, <1>2, FS_PigeonHole
<1> QED BY <1>2, <1>3

-----------------------------------------------------------------------------
(* Induction, over sets of numbers.                                        *)

\* A set of numbers has a least one.
LEMMA LeastOf ==
    ASSUME NEW T, T \subseteq Nat, T # {}
    PROVE  \E x \in T : \A y \in T : ~(y < x)
<1> DEFINE R == {ss \in Nat \X Nat : ss[1] < ss[2]}
<1>1. IsWellFoundedOn(R, Nat)
  BY NatLessThanWellFounded, Zenon DEF OpToRel
<1> HIDE DEF R
<1>2. \E x \in T : \A y \in T : ~(<<y, x>> \in R)
  BY <1>1, WFMin, Zenon
<1> QED BY <1>2 DEF R

\* What holds of 1, and of each number behind one it holds of, holds up to n.
LEMMA CountUp ==
    ASSUME NEW n \in Nat, NEW S, 1 \in S,
           \A k \in 1..n : k \in S /\ k + 1 =< n => k + 1 \in S
    PROVE  1..n \subseteq S
<1> SUFFICES ASSUME (1..n) \ S # {} PROVE FALSE
  OBVIOUS
<1> DEFINE T == (1..n) \ S
<1>1. PICK x \in T : \A y \in T : ~(y < x)
  <2>1. T \subseteq Nat /\ T # {}
    OBVIOUS
  <2> HIDE DEF T
  <2> QED BY <2>1, LeastOf
<1>2. x # 1 /\ x \in Nat /\ x \in 1..n
  BY <1>1
<1>3. x - 1 \in 1..n /\ x - 1 < x /\ (x - 1) + 1 = x
  BY <1>2
<1>4. x - 1 \in S
  BY <1>1, <1>3
<1> QED BY <1>1, <1>2, <1>3, <1>4

-----------------------------------------------------------------------------
(* The inductive invariant, part by part.                                  *)

\* A shell that has an output has it under one name, and the weston_output
\* that has not been freed is in the row, where no two have the same name.
Named == \A s \in Slots : s \in Range(outputs) <=> output[s] # NULL

Row == /\ IsList(outputs) /\ IsList(wouts)
       /\ \A s \in Slots : Live(s) => output[s] \in Range(wouts)
       /\ \A s, t \in Slots :
            Live(s) /\ Live(t) /\ output[s] = output[t] => s = t

\* A project in use is on an output the shell has, and has a home.
Placed ==
    \A p \in Projects :
        /\ name[p] # NULL <=> proj_output[p] # NULL
        /\ proj_output[p] # NULL =>
            proj_output[p] \in Range(outputs) /\ output_name[p] # NULL

GoneFirst == gone # {} => outputs # <<>> /\ gone = {Head(outputs)}

ListInv == Named /\ Row /\ ListsAgree /\ Placed /\ GoneFirst

\* Where the handler is, or where it goes on when the file is written.
At == IF pc \in {"save", "write"} THEN h.ret ELSE pc

\* The outer loop of restore has still to visit other outputs than the new
\* one, which has not been freed; those of prepare are outputs too.
LoopInv ==
    /\ At \in {"restore", "scan", "swap", "fill", "show"} =>
        h.to \in Range(outputs) \ gone
    /\ At \in {"restore", "scan", "swap"} =>
        /\ ~h.boot
        /\ h.todo \in Seq(Slots) /\ Range(h.todo) \subseteq Range(outputs) \ {h.to}
    /\ At \in {"prepare", "fill", "show"} /\ h.boot =>
        h.todo \in Seq(Slots) /\ Range(h.todo) \subseteq Range(outputs)
    /\ At = "load" =>
        /\ h.todo \in Seq(Names)
        /\ \A n \in Range(h.todo) : disk[n] # Missing
    /\ At \in {"load", "prepare"} => h.boot
    /\ At = "idle" => ~h.boot
    /\ h.boot => gone = {}
    /\ At = "show" => projects[h.to] # <<>>
    /\ pc \in {"save", "write"} =>
        h.saving \in InUse /\ h.ret \in {"scan", "swap", "show"}

\* The inner loop of restore: what it has still to look at is on the list it
\* walks, and so are the project on show it has met and the one to replace it.
ScanInv ==
    At = "scan" =>
        /\ h.at \in Range(outputs) \ {h.to}
        /\ IsList(h.scan) /\ Range(h.scan) \subseteq Range(projects[h.at])
        /\ h.pos <= Len(projects[h.to])
        /\ h.old # NULL => /\ h.old \in Range(projects[h.at]) \ Range(h.scan)
                           /\ project_cur[h.at] = h.old
                           /\ output_name[h.old] = output[h.to]
        /\ h.next # NULL => /\ h.next \in Range(projects[h.at])
                            /\ output_name[h.next] # output[h.to]

\* Inside the swap.
SwapInv ==
    At = "swap" =>
        /\ h.at \in Range(outputs) \ {h.to}
        /\ h.old \in Range(projects[h.to]) /\ project_cur[h.at] = h.old
        /\ h.next \in Range(projects[h.at])

StoppedEmpty == pc \in Stopped => outputs = <<>>

IInv == /\ TypeOK /\ ListInv /\ CurrentIsOwn
        /\ LoopInv /\ ScanInv /\ SwapInv
        /\ StoppedEmpty /\ AssertionsHold

-----------------------------------------------------------------------------
(* What the operations of the handlers do to the lists.                    *)

\* The lists are those of before.
LEMMA SameLists ==
    ASSUME ListInv,
           UNCHANGED <<wouts, outputs, output, gone, name, projects,
                       proj_output, output_name>>
    PROVE  ListInv' /\ InUse' = InUse
BY DEF ListInv, Named, Row, Live, ListsAgree, Placed, GoneFirst, InUse

\* No project is on the list of an address that is not in use.
LEMMA FreeSlotEmpty ==
    ASSUME TypeOK, ListInv, NEW s \in Slots, s \notin Range(outputs)
    PROVE  projects[s] = <<>>
<1>1. ASSUME NEW p \in Range(projects[s]) PROVE FALSE
  <2>1. p \in Projects
    BY ListRange DEF TypeOK
  <2>2. proj_output[p] = s
    BY <2>1, <1>1 DEF ListInv, ListsAgree
  <2> QED BY <2>1, <2>2, NullAssumption DEF ListInv, Placed
<1> QED BY <1>1, ListRange DEF TypeOK

\* Types of the parts of the state the lists are made of.
LEMMA ListTypes ==
    ASSUME TypeOK
    PROVE  /\ outputs \in Seq(Slots) /\ Range(outputs) \subseteq Slots
           /\ wouts \in Seq(Monitors)
           /\ output \in [Slots -> Monitors \cup {NULL}]
           /\ projects \in [Slots -> Seq(Projects)]
           /\ \A s \in Slots : Range(projects[s]) \subseteq Projects
           /\ proj_output \in [Projects -> Slots \cup {NULL}]
           /\ output_name \in [Projects -> Monitors \cup {NULL}]
           /\ name \in [Projects -> Names \cup {NULL}]
           /\ project_cur \in [Slots -> Projects \cup {NULL}]
           /\ gone \in SUBSET Slots
           /\ NULL \notin Slots /\ NULL \notin Projects
           /\ NULL \notin Names /\ NULL \notin Monitors
BY NullAssumption, ListRange DEF TypeOK

\* p is now on the list of s and on no other one.
Moved(s, p) ==
    /\ Range(projects'[s]) = Range(projects[s]) \cup {p}
    /\ \A t \in Slots \ {s} : Range(projects'[t]) = Range(projects[t]) \ {p}

\* qimm_output_project_insert takes a project from whatever list it is on.
LEMMA InsertStep ==
    ASSUME TypeOK, ListInv,
           NEW frame, NEW ret,
           NEW s \in Range(outputs), NEW pos \in 0..Len(projects[s]),
           NEW p \in Projects, p \notin Range(projects[s]),
           Insert(frame, s, pos, p, ret),
           UNCHANGED <<wouts, output_vars>>,
           name' \in [Projects -> Names \cup {NULL}], name'[p] # NULL,
           \A q \in Projects \ {p} : name'[q] = name[q]
    PROVE  /\ ListInv'
           /\ projects' \in [Slots -> Seq(Projects)]
           /\ proj_output' \in [Projects -> Slots \cup {NULL}]
           /\ output_name' \in [Projects -> Monitors \cup {NULL}]
           /\ Moved(s, p)
           /\ Len(projects'[s]) = Len(projects[s]) + 1
<1> USE ListTypes
<1>0. s \in Slots /\ output[s] \in Monitors
  BY DEF ListInv, Named
<1>1. /\ projects' = [t \in Slots |-> IF t = s
                                     THEN InsertAfter(projects[s], pos, p)
                                     ELSE Unlink(projects[t], p)]
      /\ proj_output' = [proj_output EXCEPT ![p] = s]
      /\ output_name' = [output_name EXCEPT ![p] = output[s]]
  BY DEF Insert
<1>2. \A t \in Slots : IsList(projects[t])
  BY DEF ListInv, ListsAgree
<1>3. /\ projects'[s] \in Seq(Projects)
      /\ Range(projects'[s]) = Range(projects[s]) \cup {p}
      /\ Len(projects'[s]) = Len(projects[s]) + 1
      /\ IsList(projects'[s])
  <2>1. projects'[s] = InsertAfter(projects[s], pos, p)
    BY <1>0, <1>1
  <2>2. projects[s] \in Seq(Projects)
    BY <1>0
  <2> QED BY <1>0, <1>2, <2>1, <2>2, InsertAfterList
<1>4. ASSUME NEW t \in Slots, t # s
      PROVE  /\ projects'[t] \in Seq(Projects)
             /\ Range(projects'[t]) = Range(projects[t]) \ {p}
             /\ IsList(projects'[t])
  <2>1. projects'[t] = Unlink(projects[t], p)
    BY <1>1, <1>4
  <2>2. projects[t] \in Seq(Projects)
    OBVIOUS
  <2> QED BY <1>2, <2>1, <2>2, UnlinkList
<1>5. projects' \in [Slots -> Seq(Projects)]
  <2>1. \A t \in Slots : projects'[t] \in Seq(Projects)
    BY <1>3, <1>4
  <2> QED BY <1>1, <2>1
<1>6. ListsAgree'
  <2> SUFFICES ASSUME NEW t \in Slots
               PROVE  /\ IsList(projects'[t])
                      /\ \A q \in Projects :
                            q \in Range(projects'[t]) <=> proj_output'[q] = t
    BY DEF ListsAgree
  <2>1. \A q \in Projects : q \in Range(projects[t]) <=> proj_output[q] = t
    BY DEF ListInv, ListsAgree
  <2>2. CASE t = s
    BY <1>1, <1>3, <2>1, <2>2
  <2>3. CASE t # s
    BY <1>1, <1>4, <2>1, <2>3
  <2> QED BY <2>2, <2>3
<1>7. Placed'
  BY <1>0, <1>1 DEF ListInv, Placed, output_vars
<1>8. Named' /\ Row' /\ GoneFirst'
  BY DEF ListInv, Named, Row, Live, GoneFirst, output_vars
<1>9. /\ proj_output' \in [Projects -> Slots \cup {NULL}]
      /\ output_name' \in [Projects -> Monitors \cup {NULL}]
  BY <1>0, <1>1
<1> QED BY <1>3, <1>4, <1>5, <1>6, <1>7, <1>8, <1>9 DEF ListInv, Moved

\* qimm_project_show changes what is on show on the output of the project.
LEMMA ShowStep ==
    ASSUME TypeOK, ListInv, NEW p \in Projects,
           proj_output[p] \in Range(outputs), Show(p)
    PROVE  /\ project_cur' = [project_cur EXCEPT ![proj_output[p]] = p]
           /\ project_cur' \in [Slots -> Projects \cup {NULL}]
           /\ layers' \in SUBSET Projects
           /\ layouted' \in [Projects -> Slots \cup {NULL}]
<1> DEFINE s == proj_output[p]
<1>0. /\ s \in Slots /\ layers \in SUBSET Projects
      /\ layouted \in [Projects -> Slots \cup {NULL}]
  BY ListTypes DEF TypeOK
<1>1. CASE project_cur[s] = p
  <2>1. UNCHANGED <<project_cur, layers, layouted>>
    BY <1>1 DEF Show, show_vars
  <2> QED BY <1>0, <1>1, <2>1, ListTypes
<1>2. CASE project_cur[s] # p
  <2>1. /\ project_cur' = [project_cur EXCEPT ![s] = p]
        /\ layers' = (layers \ {project_cur[s]}) \cup {p}
        /\ PlaceLayouts(p)
    BY <1>2 DEF Show
  <2>2. layouted' \in [Projects -> Slots \cup {NULL}]
    BY <1>0, <2>1 DEF PlaceLayouts
  <2> QED BY <1>0, <2>1, <2>2, ListTypes
<1> QED BY <1>1, <1>2

-----------------------------------------------------------------------------
(* Steps that change nothing but the control and a file.                   *)

Quiet == /\ UNCHANGED <<wouts, name, output_vars, list_vars, show_vars>>
         /\ faults' \in {faults, faults \cup {"failed"}}
DiskType == [Names -> Monitors \cup {Missing, Torn}]

\* A step that changes the control, the locals and the files only.
LEMMA QuietStep ==
    ASSUME IInv, Quiet, disk' \in DiskType, h' \in Frames,
           pc' \in Control \ Stopped,
           \/ At # "swap"
           \/ At' = "swap" /\ h'.at = h.at /\ h'.old = h.old /\ h'.to = h.to
    PROVE  /\ TypeOK' /\ ListInv' /\ CurrentIsOwn'
           /\ StoppedEmpty' /\ AssertionsHold' /\ InUse' = InUse
<1> USE DEF IInv, Quiet, output_vars, list_vars, show_vars
<1>1. TypeOK'
  <2>1. faults' \in SUBSET Faults
    BY ZenonT(30) DEF TypeOK, Faults
  <2> QED BY <2>1 DEF TypeOK, DiskType
<1>2. ListInv' /\ InUse' = InUse
  BY SameLists
<1>3. CurrentIsOwn'
  BY DEF CurrentIsOwn, Swapping, At
<1>4. StoppedEmpty' /\ AssertionsHold'
  BY DEF StoppedEmpty, AssertionsHold
<1> QED BY <1>1, <1>2, <1>3, <1>4

\* What a quiet step leaves alone, by name.
LEMMA QuietSame ==
    ASSUME Quiet
    PROVE  UNCHANGED <<wouts, name, outputs, output, gone, projects,
                       proj_output, output_name, project_cur>>
BY DEF Quiet, output_vars, list_vars, show_vars

\* fopen empties the file.
LEMMA SaveOpenStep == ASSUME IInv, SaveOpen PROVE IInv'
<1>1. /\ pc = "save" /\ pc' = "write" /\ h' = h /\ Quiet /\ At' = At
      /\ disk' = [disk EXCEPT ![name[h.saving]] = Torn]
  BY DEF SaveOpen, Quiet, At
<1>2. disk' \in DiskType /\ h' \in Frames
  BY <1>1 DEF IInv, TypeOK, DiskType
<1>3. /\ TypeOK' /\ ListInv' /\ CurrentIsOwn'
      /\ StoppedEmpty' /\ AssertionsHold' /\ InUse' = InUse
  BY <1>1, <1>2, QuietStep DEF Control, Stopped
<1>4. LoopInv'
  BY <1>1, <1>3, QuietSame DEF IInv, LoopInv, At
<1>5. ScanInv' /\ SwapInv'
  BY <1>1, QuietSame DEF IInv, ScanInv, SwapInv
<1> QED BY <1>3, <1>4, <1>5 DEF IInv

\* Writing it returns to where it was saved from.
LEMMA SaveWriteStep == ASSUME IInv, SaveWrite PROVE IInv'
<1>1. /\ pc = "write" /\ pc' = h.ret /\ h' = h /\ Quiet
      /\ disk' = [disk EXCEPT ![name[h.saving]] = output_name[h.saving]]
      /\ h.ret \in {"scan", "swap", "show"} /\ h.saving \in InUse
  BY DEF SaveWrite, Quiet, IInv, LoopInv
<1>2. At' = At
  BY <1>1 DEF At
<1>3. disk' \in DiskType /\ h' \in Frames
  <2>1. output_name[h.saving] \in Monitors
    BY <1>1, ListTypes DEF IInv, ListInv, Placed, InUse
  <2> QED BY <1>1, <2>1 DEF IInv, TypeOK, DiskType
<1>4. /\ TypeOK' /\ ListInv' /\ CurrentIsOwn'
      /\ StoppedEmpty' /\ AssertionsHold' /\ InUse' = InUse
  BY <1>1, <1>2, <1>3, QuietStep DEF Control, Stopped
<1>5. LoopInv'
  BY <1>1, <1>2, <1>4, QuietSame DEF IInv, LoopInv, At
<1>6. ScanInv' /\ SwapInv'
  BY <1>1, <1>2, QuietSame DEF IInv, ScanInv, SwapInv
<1> QED BY <1>4, <1>5, <1>6 DEF IInv

\* So does a save that fails.
LEMMA SaveFailsStep == ASSUME IInv, SaveFails PROVE IInv'
<1>1. /\ pc \in {"save", "write"} /\ pc' = h.ret /\ h' = h /\ Quiet
      /\ disk' = disk /\ h.ret \in {"scan", "swap", "show"}
  BY DEF SaveFails, Quiet, IInv, LoopInv
<1>2. At' = At
  BY <1>1 DEF At
<1>3. disk' \in DiskType /\ h' \in Frames
  BY <1>1 DEF IInv, TypeOK, DiskType
<1>4. /\ TypeOK' /\ ListInv' /\ CurrentIsOwn'
      /\ StoppedEmpty' /\ AssertionsHold' /\ InUse' = InUse
  BY <1>1, <1>2, <1>3, QuietStep DEF Control, Stopped
<1>5. LoopInv'
  BY <1>1, <1>2, <1>4, QuietSame DEF IInv, LoopInv, At
<1>6. ScanInv' /\ SwapInv'
  BY <1>1, <1>2, QuietSame DEF IInv, ScanInv, SwapInv
<1> QED BY <1>4, <1>5, <1>6 DEF IInv

\* The outer loop of restore goes on to an output.
LEMMA RestoreNextOutputStep == ASSUME IInv, RestoreNextOutput PROVE IInv'
<1>1. /\ pc = "restore" /\ pc' = "scan" /\ Quiet /\ disk' = disk
      /\ h.todo # <<>>
      /\ h' = [h EXCEPT !.at = Head(h.todo), !.todo = Tail(h.todo),
                        !.scan = projects[Head(h.todo)],
                        !.pos = 0, !.old = NULL, !.next = NULL]
  BY DEF RestoreNextOutput, Quiet
<1>2. /\ h \in Frames /\ ~h.boot /\ h.to \in Range(outputs) \ gone
      /\ h.todo \in Seq(Slots) /\ Range(h.todo) \subseteq Range(outputs) \ {h.to}
  BY <1>1 DEF IInv, LoopInv, At, TypeOK
<1>3. /\ Head(h.todo) \in Range(outputs) \ {h.to}
      /\ Tail(h.todo) \in Seq(Slots)
      /\ Range(Tail(h.todo)) \subseteq Range(outputs) \ {h.to}
  BY <1>1, <1>2, HeadTail
<1>4. /\ Head(h.todo) \in Slots
      /\ projects[Head(h.todo)] \in Seq(Projects)
      /\ IsList(projects[Head(h.todo)])
  BY <1>3, ListTypes DEF IInv, ListInv, ListsAgree
<1>5. h' \in Frames
  BY <1>1, <1>2, <1>3, <1>4 DEF Frames
<1>6. /\ h'.at = Head(h.todo) /\ h'.todo = Tail(h.todo)
      /\ h'.scan = projects[Head(h.todo)] /\ h'.pos = 0
      /\ h'.old = NULL /\ h'.next = NULL
      /\ h'.to = h.to /\ h'.boot = h.boot
  BY <1>1, <1>2 DEF Frames
<1>7. /\ TypeOK' /\ ListInv' /\ CurrentIsOwn'
      /\ StoppedEmpty' /\ AssertionsHold' /\ InUse' = InUse
  BY <1>1, <1>5, QuietStep DEF Control, Stopped, At, IInv, TypeOK, DiskType
<1>8. LoopInv'
  BY <1>1, <1>2, <1>3, <1>6, QuietSame DEF LoopInv, At
<1>9. Len(projects[h.to]) \in Nat
  BY <1>2, ListTypes DEF IInv
<1>10. ScanInv' /\ SwapInv'
  BY <1>1, <1>3, <1>4, <1>6, <1>9, QuietSame DEF ScanInv, SwapInv, At
<1> QED BY <1>7, <1>8, <1>10 DEF IInv

\* It ends, and the handler fills the output it was for.
LEMMA RestoreDoneStep == ASSUME IInv, RestoreDone PROVE IInv'
<1>1. /\ pc = "restore" /\ pc' = "fill" /\ Quiet /\ disk' = disk /\ h' = h
  BY DEF RestoreDone, Quiet
<1>2. /\ TypeOK' /\ ListInv' /\ CurrentIsOwn'
      /\ StoppedEmpty' /\ AssertionsHold' /\ InUse' = InUse
  BY <1>1, QuietStep DEF Control, Stopped, At, IInv, TypeOK, DiskType
<1>3. LoopInv' /\ ScanInv' /\ SwapInv'
  BY <1>1, QuietSame DEF IInv, LoopInv, ScanInv, SwapInv, At
<1> QED BY <1>2, <1>3 DEF IInv

\* The project looked at is taken from the list to look at, which has it once.
LEMMA RestoreLookStep == ASSUME IInv, RestoreLook PROVE IInv'
<1> DEFINE p == Head(h.scan)
           rest == [h EXCEPT !.scan = Tail(h.scan)]
<1>1. /\ pc = "scan" /\ pc' = pc /\ Quiet /\ disk' = disk /\ h.scan # <<>>
      /\ \/ /\ Wanted(p) /\ project_cur[h.at] = p
            /\ h' = [rest EXCEPT !.pos = Len(projects[h.to]), !.old = p]
         \/ /\ ~Wanted(p)
            /\ h' = [rest EXCEPT !.next = IF TakesPlace THEN p ELSE h.next]
  BY DEF RestoreLook, Quiet
<1>2. /\ h \in Frames /\ h.scan \in Seq(Projects)
      /\ h.to \in Range(outputs) \ gone
      /\ Len(projects[h.to]) \in Nat
  BY <1>1, ListTypes DEF IInv, LoopInv, At, TypeOK, Frames
<1>3. /\ p \in Range(h.scan) /\ Tail(h.scan) \in Seq(Projects)
      /\ Range(h.scan) = {p} \cup Range(Tail(h.scan))
      /\ IsList(h.scan) => IsList(Tail(h.scan)) /\ p \notin Range(Tail(h.scan))
  BY <1>1, <1>2, HeadTail
<1>4. p \in Projects
  BY <1>2, <1>3, ListRange
<1>5. /\ rest \in Frames /\ rest.scan = Tail(h.scan) /\ rest.at = h.at
      /\ rest.todo = h.todo /\ rest.to = h.to /\ rest.boot = h.boot
      /\ rest.pos = h.pos /\ rest.old = h.old /\ rest.next = h.next
  BY <1>2, <1>3 DEF Frames
<1> HIDE DEF p, rest
<1>6. /\ h' \in Frames /\ h'.scan = Tail(h.scan) /\ h'.at = h.at
      /\ h'.todo = h.todo
      /\ h'.to = h.to /\ h'.boot = h.boot
      /\ \/ /\ Wanted(p) /\ project_cur[h.at] = p
            /\ h'.pos = Len(projects[h.to]) /\ h'.old = p /\ h'.next = h.next
         \/ /\ ~Wanted(p)
            /\ h'.pos = h.pos /\ h'.old = h.old /\ h'.next \in {p, h.next}
  <2>1. CASE /\ Wanted(p) /\ project_cur[h.at] = p
             /\ h' = [rest EXCEPT !.pos = Len(projects[h.to]), !.old = p]
    BY <1>2, <1>4, <1>5, <2>1 DEF Frames
  <2>2. ASSUME NEW q \in {p, h.next}, ~Wanted(p), h' = [rest EXCEPT !.next = q]
        PROVE  <1>6!:
    <3>1. q \in Projects \cup {NULL}
      BY <1>2, <1>4 DEF Frames
    <3> QED BY <1>5, <2>2, <3>1 DEF Frames
  <2> QED BY <1>1, <2>1, <2>2
<1>7. /\ TypeOK' /\ ListInv' /\ CurrentIsOwn'
      /\ StoppedEmpty' /\ AssertionsHold' /\ InUse' = InUse
  BY <1>1, <1>6, QuietStep DEF Control, Stopped, At, IInv, TypeOK, DiskType
<1>8. LoopInv'
  BY <1>1, <1>6, QuietSame DEF IInv, LoopInv, At
<1>9. ScanInv' /\ SwapInv'
  <2>1. /\ h.at \in Range(outputs) \ {h.to} /\ IsList(h.scan)
        /\ Range(h.scan) \subseteq Range(projects[h.at])
        /\ h.pos <= Len(projects[h.to])
        /\ h.old # NULL => /\ h.old \in Range(projects[h.at]) \ Range(h.scan)
                           /\ project_cur[h.at] = h.old
                           /\ output_name[h.old] = output[h.to]
        /\ h.next # NULL => /\ h.next \in Range(projects[h.at])
                            /\ output_name[h.next] # output[h.to]
    BY <1>1 DEF IInv, ScanInv, At
  <2> QED BY <1>1, <1>2, <1>3, <1>6, <2>1, QuietSame
          DEF ScanInv, SwapInv, At, Wanted, p
<1> QED BY <1>7, <1>8, <1>9 DEF IInv

\* No other project can be shown: the one on show stays.
LEMMA RestoreKeepShownStep == ASSUME IInv, RestoreKeepShown PROVE IInv'
<1>1. /\ pc = "scan" /\ pc' = "restore" /\ Quiet /\ disk' = disk /\ h' = h
  BY DEF RestoreKeepShown, Quiet
<1>2. /\ TypeOK' /\ ListInv' /\ CurrentIsOwn'
      /\ StoppedEmpty' /\ AssertionsHold' /\ InUse' = InUse
  BY <1>1, QuietStep DEF Control, Stopped, At, IInv, TypeOK, DiskType
<1>3. LoopInv' /\ ScanInv' /\ SwapInv'
  BY <1>1, QuietSame DEF IInv, LoopInv, ScanInv, SwapInv, At
<1> QED BY <1>2, <1>3 DEF IInv

\* The output has projects: none is created.
LEMMA FillNothingStep == ASSUME IInv, FillNothing PROVE IInv'
<1>1. /\ pc = "fill" /\ pc' = "show" /\ Quiet /\ disk' = disk /\ h' = h
      /\ projects[h.to] # <<>>
  BY DEF FillNothing, Quiet
<1>2. /\ TypeOK' /\ ListInv' /\ CurrentIsOwn'
      /\ StoppedEmpty' /\ AssertionsHold' /\ InUse' = InUse
  BY <1>1, QuietStep DEF Control, Stopped, At, IInv, TypeOK, DiskType
<1>3. LoopInv' /\ ScanInv' /\ SwapInv'
  BY <1>1, QuietSame DEF IInv, LoopInv, ScanInv, SwapInv, At
<1> QED BY <1>2, <1>3 DEF IInv

\* The last directory has been read.
LEMMA LoadDoneStep == ASSUME IInv, LoadDone PROVE IInv'
<1>1. /\ pc = "load" /\ pc' = "prepare" /\ Quiet /\ disk' = disk
      /\ h' = [h EXCEPT !.todo = outputs]
  BY DEF LoadDone, Quiet
<1>2. h \in Frames /\ outputs \in Seq(Slots)
  BY DEF IInv, TypeOK
<1>3. h' \in Frames /\ h'.todo = outputs /\ h'.boot = h.boot
  BY <1>1, <1>2 DEF Frames
<1>4. /\ TypeOK' /\ ListInv' /\ CurrentIsOwn'
      /\ StoppedEmpty' /\ AssertionsHold' /\ InUse' = InUse
  BY <1>1, <1>3, QuietStep DEF Control, Stopped, At, IInv, TypeOK, DiskType
<1>5. LoopInv' /\ ScanInv' /\ SwapInv'
  BY <1>1, <1>2, <1>3, QuietSame DEF IInv, LoopInv, ScanInv, SwapInv, At
<1> QED BY <1>4, <1>5 DEF IInv

\* The frame of a handler that has ended.
LEMMA NoFrameType == NoFrame \in Frames /\ NoFrame.boot = FALSE
BY DEF NoFrame, Frames

\* The next output at the start of the shell.
LEMMA PrepareStep == ASSUME IInv, Prepare PROVE IInv'
<1>1. /\ pc = "prepare" /\ Quiet /\ disk' = disk
      /\ IF h.todo = <<>>
         THEN pc' = "idle" /\ h' = NoFrame
         ELSE /\ h' = [h EXCEPT !.to = Head(h.todo), !.todo = Tail(h.todo)]
              /\ pc' = "fill"
  BY DEF Prepare, Quiet
<1>2. /\ h \in Frames /\ h.boot /\ gone = {}
      /\ h.todo \in Seq(Slots) /\ Range(h.todo) \subseteq Range(outputs)
      /\ Range(outputs) \subseteq Slots
  BY <1>1, ListTypes DEF IInv, LoopInv, At, TypeOK
<1>3. CASE h.todo = <<>>
  <2>1. /\ TypeOK' /\ ListInv' /\ CurrentIsOwn'
        /\ StoppedEmpty' /\ AssertionsHold' /\ InUse' = InUse
    BY <1>1, <1>3, NoFrameType, QuietStep
       DEF Control, Stopped, At, IInv, TypeOK, DiskType
  <2>2. LoopInv' /\ ScanInv' /\ SwapInv'
    BY <1>1, <1>3, NoFrameType DEF LoopInv, ScanInv, SwapInv, At
  <2> QED BY <2>1, <2>2 DEF IInv
<1>4. CASE h.todo # <<>>
  <2>1. /\ Head(h.todo) \in Range(outputs) /\ Tail(h.todo) \in Seq(Slots)
        /\ Range(Tail(h.todo)) \subseteq Range(outputs)
    BY <1>2, <1>4, HeadTail
  <2>2. /\ h' \in Frames /\ h'.to = Head(h.todo) /\ h'.todo = Tail(h.todo)
        /\ h'.boot
    <3> DEFINE to == Head(h.todo)
               rest == Tail(h.todo)
    <3>1. h' = [h EXCEPT !.to = to, !.todo = rest]
      BY <1>1, <1>4
    <3>2. to \in Slots /\ rest \in Seq(Slots)
      BY <1>2, <2>1
    <3> HIDE DEF to, rest
    <3>3. h' \in Frames /\ h'.to = to /\ h'.todo = rest /\ h'.boot
      BY <1>2, <3>1, <3>2 DEF Frames
    <3> QED BY <3>3 DEF to, rest
  <2>3. /\ TypeOK' /\ ListInv' /\ CurrentIsOwn'
        /\ StoppedEmpty' /\ AssertionsHold' /\ InUse' = InUse
    BY <1>1, <1>4, <2>2, QuietStep
       DEF Control, Stopped, At, IInv, TypeOK, DiskType
  <2>4. LoopInv' /\ ScanInv' /\ SwapInv'
    BY <1>1, <1>2, <1>4, <2>1, <2>2, QuietSame DEF LoopInv, ScanInv, SwapInv, At
  <2> QED BY <2>3, <2>4 DEF IInv
<1> QED BY <1>3, <1>4

-----------------------------------------------------------------------------
(* Steps that insert a project into a list.                                *)

\* What every insert keeps besides the lists.
LEMMA InsertKeeps ==
    ASSUME IInv, NEW frame \in Frames, NEW ret \in {"scan", "swap", "show"},
           NEW s \in Range(outputs), NEW pos \in 0..Len(projects[s]),
           NEW p \in Projects, p \notin Range(projects[s]),
           Insert(frame, s, pos, p, ret),
           UNCHANGED <<wouts, disk, faults, output_vars, show_vars>>,
           name' \in [Projects -> Names \cup {NULL}], name'[p] # NULL,
           \A q \in Projects \ {p} : name'[q] = name[q]
    PROVE  /\ TypeOK' /\ ListInv' /\ StoppedEmpty' /\ AssertionsHold'
           /\ Moved(s, p)
           /\ Len(projects'[s]) = Len(projects[s]) + 1
           /\ output_name' = [output_name EXCEPT ![p] = output[s]]
           /\ proj_output' = [proj_output EXCEPT ![p] = s]
           /\ pc' = "save" /\ At' = ret /\ h'.saving = p /\ h'.ret = ret
           /\ p \in InUse'
           /\ h'.to = frame.to /\ h'.boot = frame.boot /\ h'.todo = frame.todo
           /\ h'.at = frame.at /\ h'.scan = frame.scan /\ h'.pos = frame.pos
           /\ h'.old = frame.old /\ h'.next = frame.next
           /\ UNCHANGED <<disk, outputs, output, gone, project_cur>>
<1>1. /\ pc' = "save" /\ h' = [frame EXCEPT !.saving = p, !.ret = ret]
      /\ output_name' = [output_name EXCEPT ![p] = output[s]]
      /\ proj_output' = [proj_output EXCEPT ![p] = s]
  BY DEF Insert
<1>2. /\ h' \in Frames /\ h'.saving = p /\ h'.ret = ret
      /\ h'.to = frame.to /\ h'.boot = frame.boot /\ h'.todo = frame.todo
      /\ h'.at = frame.at /\ h'.scan = frame.scan /\ h'.pos = frame.pos
      /\ h'.old = frame.old /\ h'.next = frame.next
  BY <1>1 DEF Frames
<1>3. TypeOK /\ ListInv /\ UNCHANGED <<wouts, output_vars>>
  BY DEF IInv
<1>4. /\ ListInv'
      /\ projects' \in [Slots -> Seq(Projects)]
      /\ proj_output' \in [Projects -> Slots \cup {NULL}]
      /\ output_name' \in [Projects -> Monitors \cup {NULL}]
      /\ Moved(s, p)
      /\ Len(projects'[s]) = Len(projects[s]) + 1
  BY <1>3, InsertStep
<1>5. UNCHANGED <<wouts, disk, faults, outputs, output, gone, output_focus,
                  project_cur, layers, layouted>>
  BY DEF output_vars, show_vars
<1>6. TypeOK'
  BY <1>1, <1>2, <1>3, <1>4, <1>5 DEF TypeOK, Control
<1>7. StoppedEmpty' /\ AssertionsHold' /\ At' = ret /\ p \in InUse'
  BY <1>1, <1>2, <1>5 DEF IInv, StoppedEmpty, AssertionsHold, Stopped, At, InUse
<1> QED BY <1>1, <1>2, <1>4, <1>5, <1>6, <1>7

\* A project on the list of an output is on no other list.
LEMMA OnOneList ==
    ASSUME TypeOK, ListInv, NEW s \in Slots, NEW p \in Range(projects[s])
    PROVE  /\ p \in Projects /\ proj_output[p] = s /\ p \in InUse
           /\ s \in Range(outputs) /\ output_name[p] \in Monitors
           /\ \A t \in Slots \ {s} : p \notin Range(projects[t])
<1>1. p \in Projects
  BY ListTypes
<1>2. \A t \in Slots : p \in Range(projects[t]) <=> proj_output[p] = t
  BY <1>1 DEF ListInv, ListsAgree
<1> QED BY <1>1, <1>2, ListTypes DEF ListInv, Placed, InUse

\* A project returns to its home.
LEMMA RestoreInsertStep == ASSUME IInv, RestoreInsert PROVE IInv'
<1> DEFINE p == Head(h.scan)
           frame == [h EXCEPT !.scan = Tail(h.scan)]
<1>1. /\ pc = "scan" /\ h.scan # <<>> /\ Wanted(p) /\ project_cur[h.at] # p
      /\ Insert(frame, h.to, Len(projects[h.to]), p, "scan")
      /\ UNCHANGED <<wouts, disk, name, faults, output_vars, show_vars>>
  BY DEF RestoreInsert
<1>2. /\ h \in Frames /\ h.scan \in Seq(Projects) /\ ~h.boot
      /\ h.to \in Range(outputs) \ gone /\ h.to \in Slots
      /\ h.todo \in Seq(Slots) /\ Range(h.todo) \subseteq Range(outputs) \ {h.to}
      /\ Len(projects[h.to]) \in Nat
  BY <1>1, ListTypes DEF IInv, LoopInv, At, TypeOK, Frames
<1>3. /\ h.at \in Range(outputs) \ {h.to} /\ IsList(h.scan) /\ h.at \in Slots
      /\ Range(h.scan) \subseteq Range(projects[h.at])
      /\ h.pos <= Len(projects[h.to]) /\ h.pos \in Nat
      /\ h.old # NULL => /\ h.old \in Range(projects[h.at]) \ Range(h.scan)
                         /\ project_cur[h.at] = h.old
                         /\ output_name[h.old] = output[h.to]
      /\ h.next # NULL => /\ h.next \in Range(projects[h.at])
                          /\ output_name[h.next] # output[h.to]
  BY <1>1, <1>2, ListTypes DEF IInv, ScanInv, At, Frames
<1>4. /\ p \in Range(h.scan) /\ Tail(h.scan) \in Seq(Projects)
      /\ Range(h.scan) = {p} \cup Range(Tail(h.scan))
      /\ IsList(Tail(h.scan)) /\ p \notin Range(Tail(h.scan))
  BY <1>1, <1>2, <1>3, HeadTail
<1>5. /\ p \in Projects /\ p \in Range(projects[h.at]) /\ p \in InUse
      /\ \A t \in Slots \ {h.at} : p \notin Range(projects[t])
  BY <1>3, <1>4, OnOneList DEF IInv
<1>6. /\ frame \in Frames /\ frame.to = h.to /\ frame.boot = h.boot
      /\ frame.todo = h.todo /\ frame.at = h.at /\ frame.scan = Tail(h.scan)
      /\ frame.pos = h.pos /\ frame.old = h.old /\ frame.next = h.next
  BY <1>2, <1>4 DEF Frames
<1>7. p \notin Range(projects[h.to]) /\ Len(projects[h.to]) \in 0..Len(projects[h.to])
  BY <1>2, <1>3, <1>5
<1>8. /\ name' \in [Projects -> Names \cup {NULL}] /\ name'[p] # NULL
      /\ \A q \in Projects \ {p} : name'[q] = name[q]
      /\ UNCHANGED <<wouts, disk, faults, output_vars, show_vars>>
  BY <1>1, <1>5, ListTypes DEF IInv, InUse
<1> HIDE DEF p, frame
<1>9. /\ TypeOK' /\ ListInv' /\ StoppedEmpty' /\ AssertionsHold'
      /\ Moved(h.to, p)
      /\ Len(projects'[h.to]) = Len(projects[h.to]) + 1
      /\ output_name' = [output_name EXCEPT ![p] = output[h.to]]
      /\ pc' = "save" /\ At' = "scan" /\ h'.saving = p /\ h'.ret = "scan"
      /\ p \in InUse'
      /\ h'.to = h.to /\ h'.boot = h.boot /\ h'.todo = h.todo /\ h'.at = h.at
      /\ h'.scan = Tail(h.scan) /\ h'.pos = h.pos
      /\ h'.old = h.old /\ h'.next = h.next
      /\ UNCHANGED <<disk, outputs, output, gone, project_cur>>
  BY <1>1, <1>2, <1>5, <1>6, <1>7, <1>8, InsertKeeps
<1>10. CurrentIsOwn'
  <2>1. ASSUME NEW s \in Slots
        PROVE  project_cur'[s] \in Range(projects'[s]) \cup {NULL}
    <3>1. project_cur[s] \in Range(projects[s]) \cup {NULL}
      BY <1>1 DEF IInv, CurrentIsOwn, Swapping
    <3>2. s # h.to => project_cur[s] # p \/ p = NULL
      BY <1>1, <1>5, <3>1 DEF p
    <3> QED BY <1>2, <1>9, <3>1, <3>2 DEF Moved
  <2> QED BY <2>1 DEF CurrentIsOwn
<1>11. LoopInv'
  BY <1>2, <1>9 DEF LoopInv
<1>12. ScanInv'
  <2>1. output_name[p] = output[h.to]
    BY <1>1 DEF Wanted, p
  <2>2. h.old # NULL => h.old \in Projects /\ h.old # p
    BY <1>3, <1>4, ListTypes DEF IInv
  <2>3. h.next # NULL => h.next \in Projects /\ h.next # p
    BY <1>3, <2>1, ListTypes DEF IInv
  <2>4. output_name \in [Projects -> Monitors \cup {NULL}]
    BY ListTypes DEF IInv
  <2>5. Range(projects'[h.at]) = Range(projects[h.at]) \ {p}
    BY <1>3, <1>9 DEF Moved
  <2>6. /\ h'.at \in Range(outputs') \ {h'.to} /\ IsList(h'.scan)
        /\ Range(h'.scan) \subseteq Range(projects'[h'.at])
    BY <1>3, <1>4, <1>9, <2>5
  <2>7. h'.pos <= Len(projects'[h'.to])
    <3>1. projects'[h'.to] = projects'[h.to]
      BY <1>9
    <3> QED BY <1>2, <1>3, <1>9, <3>1
  <2>8. h.old # NULL => /\ h.old \in Range(projects'[h.at]) \ Range(Tail(h.scan))
                        /\ project_cur[h.at] = h.old
                        /\ output_name'[h.old] = output[h.to]
    BY <1>3, <1>4, <1>9, <2>2, <2>4, <2>5
  <2>9. h.next # NULL => /\ h.next \in Range(projects'[h.at])
                         /\ output_name'[h.next] # output[h.to]
    BY <1>3, <1>9, <2>3, <2>4, <2>5
  <2> QED BY <1>9, <2>6, <2>7, <2>8, <2>9 DEF ScanInv
<1>13. SwapInv'
  BY <1>9 DEF SwapInv
<1> QED BY <1>9, <1>10, <1>11, <1>12, <1>13 DEF IInv

\* The project on show goes where it was met; the output still points to it.
LEMMA RestoreShownStep == ASSUME IInv, RestoreShown PROVE IInv'
<1>1. /\ pc = "scan" /\ h.old # NULL /\ h.next # NULL
      /\ Insert(h, h.to, h.pos, h.old, "swap")
      /\ UNCHANGED <<wouts, disk, name, faults, output_vars, show_vars>>
  BY DEF RestoreShown
<1>2. /\ h \in Frames /\ ~h.boot
      /\ h.to \in Range(outputs) \ gone /\ h.to \in Slots
      /\ h.todo \in Seq(Slots) /\ Range(h.todo) \subseteq Range(outputs) \ {h.to}
      /\ Len(projects[h.to]) \in Nat
  BY <1>1, ListTypes DEF IInv, LoopInv, At, TypeOK, Frames
<1>3. /\ h.at \in Range(outputs) \ {h.to} /\ h.at \in Slots
      /\ h.pos \in 0..Len(projects[h.to])
      /\ h.old \in Range(projects[h.at]) /\ project_cur[h.at] = h.old
      /\ output_name[h.old] = output[h.to]
      /\ h.next \in Range(projects[h.at]) /\ output_name[h.next] # output[h.to]
  BY <1>1, <1>2, ListTypes DEF IInv, ScanInv, At, Frames
<1>4. /\ h.old \in Projects /\ h.old \in InUse
      /\ \A t \in Slots \ {h.at} : h.old \notin Range(projects[t])
  BY <1>3, OnOneList DEF IInv
<1>5. /\ h.old \notin Range(projects[h.to])
      /\ name' \in [Projects -> Names \cup {NULL}] /\ name'[h.old] # NULL
      /\ \A q \in Projects \ {h.old} : name'[q] = name[q]
      /\ UNCHANGED <<wouts, disk, faults, output_vars, show_vars>>
  BY <1>1, <1>2, <1>3, <1>4, ListTypes DEF IInv, InUse
<1>6. /\ TypeOK' /\ ListInv' /\ StoppedEmpty' /\ AssertionsHold'
      /\ Moved(h.to, h.old)
      /\ proj_output' = [proj_output EXCEPT ![h.old] = h.to]
      /\ pc' = "save" /\ At' = "swap" /\ h'.saving = h.old /\ h'.ret = "swap"
      /\ h.old \in InUse'
      /\ h'.to = h.to /\ h'.boot = h.boot /\ h'.todo = h.todo /\ h'.at = h.at
      /\ h'.old = h.old /\ h'.next = h.next
      /\ UNCHANGED <<disk, outputs, output, gone, project_cur>>
  BY <1>1, <1>2, <1>3, <1>4, <1>5, InsertKeeps
<1>7. CurrentIsOwn'
  <2> SUFFICES ASSUME NEW s \in Slots
               PROVE  \/ project_cur'[s] \in Range(projects'[s]) \cup {NULL}
                      \/ /\ Swapping(s)' /\ project_cur'[s] = h'.old
                         /\ proj_output'[h'.old] = h'.to
    BY DEF CurrentIsOwn
  <2>1. project_cur[s] \in Range(projects[s]) \cup {NULL}
    BY <1>1 DEF IInv, CurrentIsOwn, Swapping
  <2>2. CASE s = h.at
    <3>1. Swapping(s)'
      BY <1>6, <2>2 DEF Swapping
    <3>2. proj_output'[h.old] = h.to
      BY <1>4, <1>6, ListTypes DEF IInv
    <3> QED BY <1>3, <1>6, <2>2, <3>1, <3>2 DEF Moved
  <2>3. CASE s # h.at
    <3>1. project_cur[s] # h.old
      BY <1>1, <1>4, <2>1, <2>3
    <3> QED BY <1>2, <1>6, <2>1, <3>1 DEF Moved
  <2> QED BY <2>2, <2>3
<1>8. LoopInv'
  BY <1>2, <1>6 DEF LoopInv
<1>9. ScanInv' /\ SwapInv'
  <2>1. h.next # h.old
    BY <1>3
  <2> QED BY <1>2, <1>3, <1>6, <2>1 DEF ScanInv, SwapInv, Moved
<1> QED BY <1>6, <1>7, <1>8, <1>9 DEF IInv

\* The first project of an output without one.
LEMMA FillCreateStep == ASSUME IInv, FillCreate PROVE IInv'
<1>1. PICK p \in FreeProjects :
        /\ pc = "fill" /\ projects[h.to] = <<>>
        /\ name' = [name EXCEPT ![p] =
                        IF h.boot /\ h.to = Head(outputs) THEN Dashboard
                                                          ELSE Assistant]
        /\ Insert(h, h.to, 0, p, "show")
        /\ UNCHANGED <<wouts, disk, faults, output_vars, show_vars>>
  BY DEF FillCreate
<1>2. /\ h \in Frames /\ h.to \in Range(outputs) \ gone /\ h.to \in Slots
      /\ h.boot => /\ h.todo \in Seq(Slots) /\ gone = {}
                   /\ Range(h.todo) \subseteq Range(outputs)
  BY <1>1, ListTypes DEF IInv, LoopInv, At, TypeOK
<1>3. p \in Projects /\ name[p] = NULL
  BY DEF FreeProjects, InUse
<1>4. /\ name' \in [Projects -> Names \cup {NULL}] /\ name'[p] # NULL
      /\ \A q \in Projects \ {p} : name'[q] = name[q]
  BY <1>1, <1>3, ListTypes, NamesAssumption DEF IInv
<1>a. UNCHANGED <<wouts, disk, faults, output_vars, show_vars>>
  BY <1>1
<1>5. \A t \in Slots : p \notin Range(projects[t])
  BY <1>3, OnOneList DEF IInv, InUse
<1>6. PICK pos \in 0..Len(projects[h.to]) : Insert(h, h.to, pos, p, "show")
  BY <1>1
<1>7. /\ TypeOK' /\ ListInv' /\ StoppedEmpty' /\ AssertionsHold'
      /\ Moved(h.to, p)
      /\ Len(projects'[h.to]) = Len(projects[h.to]) + 1
      /\ pc' = "save" /\ At' = "show" /\ h'.saving = p /\ h'.ret = "show"
      /\ p \in InUse'
      /\ h'.to = h.to /\ h'.boot = h.boot /\ h'.todo = h.todo
      /\ UNCHANGED <<disk, outputs, output, gone, project_cur>>
  BY <1>2, <1>3, <1>4, <1>a, <1>5, <1>6, InsertKeeps
<1>8. CurrentIsOwn'
  <2>1. ASSUME NEW s \in Slots
        PROVE  project_cur'[s] \in Range(projects'[s]) \cup {NULL}
    <3>1. project_cur[s] \in Range(projects[s]) \cup {NULL}
      BY <1>1 DEF IInv, CurrentIsOwn, Swapping
    <3> QED BY <1>2, <1>5, <1>7, <3>1 DEF Moved
  <2> QED BY <2>1 DEF CurrentIsOwn
<1>9. LoopInv'
  <2>1. projects'[h.to] # <<>>
    <3>1. projects'[h.to] \in Seq(Projects) /\ p \in Range(projects'[h.to])
      BY <1>2, <1>7 DEF TypeOK, Moved
    <3> QED BY <3>1, ListRange
  <2> QED BY <1>2, <1>7, <2>1 DEF LoopInv
<1>10. ScanInv' /\ SwapInv'
  BY <1>7 DEF ScanInv, SwapInv
<1> QED BY <1>7, <1>8, <1>9, <1>10 DEF IInv

-----------------------------------------------------------------------------
(* Steps that show a project.                                              *)

\* The swap ends with a project of the old output on show there.
LEMMA RestoreSwapStep == ASSUME IInv, RestoreSwap PROVE IInv'
<1>1. /\ pc = "swap" /\ pc' = "restore" /\ Show(h.next)
      /\ UNCHANGED <<wouts, disk, h, name, faults, outputs, output, gone,
                     output_focus, projects, proj_output, output_name>>
  BY DEF RestoreSwap, output_vars, list_vars
<1>2. /\ h.at \in Range(outputs) \ {h.to} /\ h.at \in Slots
      /\ h.next \in Range(projects[h.at])
      /\ h.to \in Range(outputs) \ gone /\ ~h.boot
      /\ h.todo \in Seq(Slots) /\ Range(h.todo) \subseteq Range(outputs) \ {h.to}
  BY <1>1, ListTypes DEF IInv, SwapInv, LoopInv, At
<1>3. /\ h.next \in Projects /\ proj_output[h.next] = h.at
  BY <1>2, OnOneList DEF IInv
<1>4. /\ project_cur' = [project_cur EXCEPT ![h.at] = h.next]
      /\ project_cur' \in [Slots -> Projects \cup {NULL}]
      /\ layers' \in SUBSET Projects
      /\ layouted' \in [Projects -> Slots \cup {NULL}]
  BY <1>1, <1>2, <1>3, ShowStep DEF IInv
<1>5. TypeOK'
  BY <1>1, <1>4 DEF IInv, TypeOK, Control
<1>6. ListInv'
  BY <1>1, SameLists DEF IInv
<1>7. CurrentIsOwn'
  <2>1. ASSUME NEW s \in Slots
        PROVE  project_cur'[s] \in Range(projects'[s]) \cup {NULL}
    <3>1. s # h.at => project_cur[s] \in Range(projects[s]) \cup {NULL}
      BY DEF IInv, CurrentIsOwn, Swapping
    <3> QED BY <1>1, <1>2, <1>4, <3>1, ListTypes DEF IInv
  <2> QED BY <2>1 DEF CurrentIsOwn
<1>8. StoppedEmpty' /\ AssertionsHold' /\ LoopInv' /\ ScanInv' /\ SwapInv'
  BY <1>1, <1>2
     DEF IInv, StoppedEmpty, Stopped, AssertionsHold, LoopInv, ScanInv, SwapInv, At
<1> QED BY <1>5, <1>6, <1>7, <1>8 DEF IInv

\* The first project of the output is shown.
LEMMA ShowFirstStep == ASSUME IInv, ShowFirst PROVE IInv'
<1> DEFINE p == Head(projects[h.to])
<1>1. /\ pc = "show" /\ Show(p)
      /\ IF h.boot THEN pc' = "prepare" /\ h' = h
                   ELSE pc' = "idle" /\ h' = NoFrame
      /\ UNCHANGED <<wouts, disk, name, faults, outputs, output, gone,
                     output_focus, projects, proj_output, output_name>>
  BY DEF ShowFirst, output_vars, list_vars
<1>2. /\ h.to \in Range(outputs) \ gone /\ h.to \in Slots
      /\ projects[h.to] # <<>> /\ projects[h.to] \in Seq(Projects)
      /\ h.boot => /\ h.todo \in Seq(Slots) /\ gone = {}
                   /\ Range(h.todo) \subseteq Range(outputs)
  BY <1>1, ListTypes DEF IInv, LoopInv, At
<1>3. p \in Range(projects[h.to]) /\ p \in Projects /\ proj_output[p] = h.to
  BY <1>2, HeadTail, OnOneList DEF IInv
<1> HIDE DEF p
<1>4. /\ project_cur' = [project_cur EXCEPT ![h.to] = p]
      /\ project_cur' \in [Slots -> Projects \cup {NULL}]
      /\ layers' \in SUBSET Projects
      /\ layouted' \in [Projects -> Slots \cup {NULL}]
  BY <1>1, <1>2, <1>3, ShowStep DEF IInv
<1>5. TypeOK'
  <2>1. h' \in Frames /\ pc' \in Control
    BY <1>1, NoFrameType DEF IInv, TypeOK, Control
  <2> QED BY <1>1, <1>4, <2>1 DEF IInv, TypeOK
<1>6. ListInv'
  BY <1>1, SameLists DEF IInv
<1>7. CurrentIsOwn'
  <2>1. ASSUME NEW s \in Slots
        PROVE  project_cur'[s] \in Range(projects'[s]) \cup {NULL}
    <3>1. project_cur[s] \in Range(projects[s]) \cup {NULL}
      BY <1>1 DEF IInv, CurrentIsOwn, Swapping
    <3> QED BY <1>1, <1>2, <1>3, <1>4, <3>1, ListTypes DEF IInv
  <2> QED BY <2>1 DEF CurrentIsOwn
<1>8. StoppedEmpty' /\ AssertionsHold'
  BY <1>1 DEF IInv, StoppedEmpty, Stopped, AssertionsHold
<1>9. LoopInv' /\ ScanInv' /\ SwapInv'
  BY <1>1, <1>2, NoFrameType DEF LoopInv, ScanInv, SwapInv, At
<1> QED BY <1>5, <1>6, <1>7, <1>8, <1>9 DEF IInv

-----------------------------------------------------------------------------
(* The end of the process, and its start.                                  *)

\* Nothing is left of a process that has ended.
Ended ==
    /\ wouts = <<>> /\ outputs = <<>>
    /\ output = [s \in Slots |-> NULL] /\ gone = {}
    /\ projects = [s \in Slots |-> <<>>]
    /\ project_cur = [s \in Slots |-> NULL]
    /\ output_focus = NULL
    /\ name = [p \in Projects |-> NULL]
    /\ proj_output = [p \in Projects |-> NULL]
    /\ output_name = [p \in Projects |-> NULL]
    /\ layers = {}
    /\ layouted = [p \in Projects |-> NULL]
    /\ h = NoFrame
    /\ pc \in Stopped

\* When the process has ended, nothing is left to be wrong.
LEMMA EndedInv ==
    Ended /\ disk \in DiskType /\ faults \in SUBSET Faults /\ "assert" \notin faults
        => IInv
<1> SUFFICES ASSUME Ended, disk \in DiskType, faults \in SUBSET Faults,
                    "assert" \notin faults
             PROVE  IInv
  OBVIOUS
<1> USE DEF Ended
<1>1. TypeOK
  BY NoFrameType DEF TypeOK, DiskType, Control
<1>2. ListInv
  <2>1. Range(outputs) = {} /\ IsList(outputs) /\ IsList(wouts)
    BY EmptyList
  <2>2. ListsAgree
    <3>1. \A s \in Slots : projects[s] = <<>> /\ s # NULL
      BY NullAssumption
    <3>2. \A p \in Projects : proj_output[p] = NULL
      OBVIOUS
    <3> HIDE DEF Ended
    <3> QED BY <3>1, <3>2, EmptyList DEF ListsAgree
  <2> QED BY <2>1, <2>2 DEF ListInv, Named, Row, Live, Placed, GoneFirst
<1>3. CurrentIsOwn
  BY DEF CurrentIsOwn
<1>4. LoopInv /\ ScanInv /\ SwapInv
  BY NoFrameType DEF LoopInv, ScanInv, SwapInv, At, Stopped
<1>5. StoppedEmpty /\ AssertionsHold
  BY DEF StoppedEmpty, AssertionsHold
<1> QED BY <1>1, <1>2, <1>3, <1>4, <1>5 DEF IInv

\* So it is before the first start.
LEMMA InitInv == Init => IInv
<1>1. Init => /\ Ended /\ disk \in DiskType
              /\ faults \in SUBSET Faults /\ "assert" \notin faults
  BY DEF Init, Ended, DiskType, Stopped
<1> QED BY <1>1, EndedInv

\* A process that exits.
LEMMA ExitStep ==
    ASSUME IInv, NEW how \in Stopped, Exit(how), disk' = disk,
           faults' \in SUBSET Faults, "assert" \notin faults'
    PROVE  IInv'
<1>1. Ended'
  BY DEF Ended, Exit
<1>2. disk' \in DiskType
  BY DEF IInv, TypeOK, DiskType
<1>3. (/\ Ended /\ disk \in DiskType
       /\ faults \in SUBSET Faults /\ "assert" \notin faults)'
  BY <1>1, <1>2
<1> QED BY <1>3, EndedInv, PTL

\* Failed loading, the end of the shell, and a kill.
LEMMA EndsStep ==
    ASSUME IInv, LoadFails \/ LoadNowhere \/ Shutdown \/ Crash
    PROVE  IInv'
<1>1. faults \in SUBSET Faults /\ "assert" \notin faults
  BY DEF IInv, TypeOK, AssertionsHold
<1>2. CASE LoadFails
  <2>1. Exit("failed") /\ disk' = disk /\ faults' = faults
    BY <1>2 DEF LoadFails
  <2> QED BY <1>1, <2>1, ExitStep DEF Stopped
<1>3. CASE LoadNowhere
  <2>1. Exit("failed") /\ disk' = disk /\ faults' = faults \cup {"no output"}
    BY <1>3 DEF LoadNowhere
  <2> QED BY <1>1, <2>1, ExitStep DEF Stopped, Faults
<1>4. CASE Shutdown
  <2>1. Exit("down") /\ disk' = disk /\ pc = "idle"
    BY <1>4 DEF Shutdown
  <2>2. \A s \in Range(outputs) : project_cur[s] \in Range(projects[s]) \cup {NULL}
    BY <2>1, ListTypes DEF IInv, CurrentIsOwn, Swapping
  <2>3. faults' = faults
    BY <1>4, <2>2 DEF Shutdown
  <2> QED BY <1>1, <2>1, <2>3, ExitStep DEF Stopped
<1>5. CASE Crash
  <2>1. Exit("down") /\ disk' = disk /\ faults' = faults
    BY <1>5 DEF Crash
  <2> QED BY <1>1, <2>1, ExitStep DEF Stopped
<1> QED BY <1>2, <1>3, <1>4, <1>5

\* A project could not be created.
LEMMA FillFailsStep == ASSUME IInv, FillFails PROVE IInv'
<1>1. CASE h.boot
  <2>1. Exit("failed") /\ disk' = disk /\ faults' = faults \cup {"failed"}
    BY <1>1 DEF FillFails
  <2>2. faults' \in SUBSET Faults /\ "assert" \notin faults'
    BY <2>1 DEF IInv, TypeOK, AssertionsHold, Faults
  <2> QED BY <2>1, <2>2, ExitStep DEF Stopped
<1>2. CASE ~h.boot
  <2>1. pc = "fill" /\ pc' = "idle" /\ h' = NoFrame /\ Quiet /\ disk' = disk
    BY <1>2 DEF FillFails, Quiet
  <2>2. /\ TypeOK' /\ ListInv' /\ CurrentIsOwn'
        /\ StoppedEmpty' /\ AssertionsHold' /\ InUse' = InUse
    BY <2>1, NoFrameType, QuietStep
       DEF Control, Stopped, At, IInv, TypeOK, DiskType
  <2>3. LoopInv' /\ ScanInv' /\ SwapInv'
    BY <2>1, NoFrameType DEF LoopInv, ScanInv, SwapInv, At
  <2> QED BY <2>2, <2>3 DEF IInv
<1> QED BY <1>1, <1>2

-----------------------------------------------------------------------------
(* Outputs come and go.                                                    *)

\* handle_output_create, up to the projects that come to it.
LEMMA OutputCreatedStep ==
    ASSUME IInv, NEW m \in Monitors, OutputCreated(m)
    PROVE  IInv'
<1>1. PICK s \in FreeSlots :
        /\ pc = "idle" /\ pc' = "restore" /\ m \notin Range(wouts)
        /\ wouts' = Append(wouts, m) /\ outputs' = Append(outputs, s)
        /\ output' = [output EXCEPT ![s] = m]
        /\ output_focus' = IF output_focus = NULL THEN s ELSE output_focus
        /\ h' = [NoFrame EXCEPT !.to = s, !.todo = outputs]
        /\ UNCHANGED <<disk, gone, name, faults, projects, proj_output,
                       output_name, project_cur, layers, layouted>>
  BY DEF OutputCreated, list_vars, show_vars
<1>2. s \in Slots /\ s \notin Range(outputs) /\ TypeOK /\ ListInv
  BY DEF FreeSlots, IInv
<1>3. /\ outputs' \in Seq(Slots) /\ Range(outputs') = Range(outputs) \cup {s}
      /\ IsList(outputs') /\ outputs' # <<>>
      /\ outputs # <<>> => Head(outputs') = Head(outputs)
  <2>1. outputs \in Seq(Slots) /\ IsList(outputs)
    BY <1>2, ListTypes DEF ListInv, Row
  <2> QED BY <1>1, <1>2, <2>1, AppendList
<1>4. /\ wouts' \in Seq(Monitors) /\ Range(wouts') = Range(wouts) \cup {m}
      /\ IsList(wouts')
  <2>1. wouts \in Seq(Monitors) /\ IsList(wouts)
    BY <1>2, ListTypes DEF ListInv, Row
  <2> QED BY <1>1, <2>1, AppendList
<1>5. /\ h' \in Frames /\ h'.to = s /\ h'.todo = outputs /\ ~h'.boot
  <2>1. h' = [[NoFrame EXCEPT !.to = s] EXCEPT !.todo = outputs]
    BY <1>1
  <2> QED BY <1>2, <2>1, NoFrameType, ListTypes DEF Frames
<1>6. TypeOK'
  BY <1>1, <1>2, <1>3, <1>4, <1>5 DEF TypeOK, Control
<1>7. s \notin gone
  <2>1. outputs # <<>> => Head(outputs) \in Range(outputs)
    BY <1>2, ListTypes, HeadTail
  <2> QED BY <1>2, <2>1 DEF ListInv, GoneFirst
<1>8. output' \in [Slots -> Monitors \cup {NULL}] /\ output'[s] = m /\ m # NULL
  BY <1>1, <1>2, ListTypes
<1>9. Named'
  BY <1>1, <1>2, <1>3, <1>8, ListTypes DEF ListInv, Named
<1>10. Row'
  <2>1. \A t \in Slots : Live(t)' <=> t = s \/ Live(t)
    BY <1>1, <1>2, <1>3, <1>7 DEF Live
  <2>2. \A t \in Slots \ {s} : output'[t] = output[t]
    BY <1>1, <1>2, ListTypes
  <2>3. \A t \in Slots : Live(t) => t # s /\ output[t] \in Range(wouts)
    BY <1>2 DEF ListInv, Row, Live
  <2>4. \A t, u \in Slots : Live(t) /\ Live(u) /\ output[t] = output[u] => t = u
    BY <1>2 DEF ListInv, Row
  <2>5. m \notin Range(wouts)
    BY <1>1
  <2> QED BY <1>3, <1>4, <1>8, <2>1, <2>2, <2>3, <2>4, <2>5 DEF Row
<1>11. ListsAgree' /\ Placed' /\ GoneFirst'
  BY <1>1, <1>2, <1>3 DEF ListInv, ListsAgree, Placed, GoneFirst
<1>12. CurrentIsOwn'
  BY <1>1 DEF IInv, CurrentIsOwn, Swapping
<1>13. LoopInv'
  <2>1. outputs \in Seq(Slots)
    BY <1>2, ListTypes
  <2> QED BY <1>1, <1>2, <1>3, <1>5, <1>7, <2>1 DEF LoopInv, At
<1>14. /\ ScanInv' /\ SwapInv' /\ StoppedEmpty' /\ AssertionsHold'
  BY <1>1 DEF IInv, ScanInv, SwapInv, At, StoppedEmpty, Stopped, AssertionsHold
<1> QED BY <1>6, <1>9, <1>10, <1>11, <1>12, <1>13, <1>14 DEF IInv, ListInv

\* The neighbour of an output is another output.
LEMMA NeighbourOther ==
    ASSUME TypeOK, ListInv, NEW s \in Range(outputs), ~LastOutput
    PROVE  Neighbour(s) \in Range(outputs) \ {s}
<1>1. outputs \in Seq(Slots) /\ IsList(outputs)
  BY ListTypes DEF ListInv, Row
<1> DEFINE i == IndexOf(outputs, s)
<1>2. i \in 1..Len(outputs) /\ outputs[i] = s
  BY <1>1, IndexOfList
<1>3. Len(outputs) \in Nat /\ Len(outputs) >= 2
  BY <1>1 DEF LastOutput
<1>4. Neighbour(s) = IF i > 1 THEN outputs[i - 1] ELSE outputs[2]
  BY DEF Neighbour
<1> HIDE DEF i
<1>5. ASSUME NEW j \in 1..Len(outputs), j # i
      PROVE  outputs[j] \in Range(outputs) \ {s}
  <2>1. outputs[j] \in Range(outputs)
    BY <1>1, ListRange
  <2>2. outputs[j] # outputs[i]
    BY <1>1, <1>2, <1>5, ListApart
  <2> QED BY <1>2, <2>1, <2>2
<1>6. CASE i > 1
  <2>1. i - 1 \in 1..Len(outputs) /\ i - 1 # i
    BY <1>2, <1>3, <1>6
  <2> QED BY <1>4, <1>5, <1>6, <2>1
<1>7. CASE ~(i > 1)
  <2>1. 2 \in 1..Len(outputs) /\ 2 # i
    BY <1>2, <1>3, <1>7
  <2> QED BY <1>4, <1>5, <1>7, <2>1
<1> QED BY <1>6, <1>7

\* The rows when an output that is not the last one is taken out.
LEMMA DestroyRow ==
    ASSUME TypeOK, ListInv, NEW s \in Slots, Live(s),
           wouts' = Unlink(wouts, output[s]),
           outputs' = Unlink(outputs, s),
           output' = [output EXCEPT ![s] = NULL], gone' = gone
    PROVE  /\ wouts' \in Seq(Monitors) /\ outputs' \in Seq(Slots)
           /\ output' \in [Slots -> Monitors \cup {NULL}]
           /\ Range(outputs') = Range(outputs) \ {s}
           /\ Named' /\ Row' /\ GoneFirst'
<1>1. /\ outputs' \in Seq(Slots) /\ Range(outputs') = Range(outputs) \ {s}
      /\ IsList(outputs')
      /\ outputs # <<>> /\ s # Head(outputs) =>
            outputs' # <<>> /\ Head(outputs') = Head(outputs)
  <2>1. outputs \in Seq(Slots) /\ IsList(outputs)
    BY ListTypes DEF ListInv, Row
  <2> QED BY <2>1, UnlinkList
<1>2. /\ wouts' \in Seq(Monitors) /\ Range(wouts') = Range(wouts) \ {output[s]}
      /\ IsList(wouts')
  <2>1. wouts \in Seq(Monitors) /\ IsList(wouts)
    BY ListTypes DEF ListInv, Row
  <2> QED BY <2>1, UnlinkList
<1>3. /\ output' \in [Slots -> Monitors \cup {NULL}] /\ output'[s] = NULL
      /\ \A t \in Slots \ {s} : output'[t] = output[t]
  BY ListTypes
<1>4. Named'
  BY <1>1, <1>3 DEF ListInv, Named
<1>5. Row'
  <2>1. \A t \in Slots : Live(t)' <=> Live(t) /\ t # s
    BY <1>1 DEF Live
  <2>2. \A t \in Slots : Live(t) => output[t] \in Range(wouts)
    BY DEF ListInv, Row
  <2>3. \A t, u \in Slots : Live(t) /\ Live(u) /\ output[t] = output[u] => t = u
    BY DEF ListInv, Row
  <2> QED BY <1>1, <1>2, <1>3, <2>1, <2>2, <2>3 DEF Row
<1>6. GoneFirst'
  BY <1>1 DEF ListInv, GoneFirst, Live
<1> QED BY <1>1, <1>2, <1>3, <1>4, <1>5, <1>6

\* Without projects: project_cur is NULL, which the code asserts.
LEMMA DestroyEmptyStep ==
    ASSUME IInv, NEW s \in Slots, OutputDestroyed(s), projects[s] = <<>>
    PROVE  IInv'
<1>1. /\ pc = "idle" /\ pc' = pc /\ Live(s)
      /\ wouts' = Unlink(wouts, output[s])
      /\ Destroy(s, project_cur[s])
      /\ UNCHANGED <<gone, projects, proj_output, output_name, disk,
                     output_focus, name, layers, layouted, h>>
  BY DEF OutputDestroyed, list_vars
<1>2. /\ outputs' = Unlink(outputs, s)
      /\ output' = [output EXCEPT ![s] = NULL]
      /\ project_cur' = [project_cur EXCEPT ![s] = NULL]
      /\ faults' = IF project_cur[s] = NULL THEN faults
                                            ELSE faults \cup {"assert"}
  BY <1>1 DEF Destroy
<1>3. TypeOK /\ ListInv /\ gone' = gone
  BY <1>1 DEF IInv
<1>4. /\ wouts' \in Seq(Monitors) /\ outputs' \in Seq(Slots)
      /\ output' \in [Slots -> Monitors \cup {NULL}]
      /\ Range(outputs') = Range(outputs) \ {s}
      /\ Named' /\ Row' /\ GoneFirst'
  BY <1>1, <1>2, <1>3, DestroyRow
<1>5. project_cur[s] = NULL /\ faults' = faults
  <2>1. Range(projects[s]) = {}
    BY EmptyList
  <2> QED BY <1>1, <1>2, <2>1 DEF IInv, CurrentIsOwn, Swapping
<1>6. TypeOK'
  BY <1>1, <1>2, <1>3, <1>4, <1>5, ListTypes DEF TypeOK
<1>7. ListsAgree' /\ Placed'
  <2>1. \A p \in Projects : proj_output[p] # s
    <3>1. \A p \in Projects : p \in Range(projects[s]) <=> proj_output[p] = s
      BY <1>3 DEF ListInv, ListsAgree
    <3> QED BY <3>1, EmptyList
  <2> QED BY <1>1, <1>3, <1>4, <2>1 DEF ListInv, ListsAgree, Placed
<1>8. CurrentIsOwn'
  <2>1. \A t \in Slots : project_cur[t] \in Range(projects[t]) \cup {NULL}
    BY <1>1 DEF IInv, CurrentIsOwn, Swapping
  <2> QED BY <1>1, <1>2, <1>3, <2>1, ListTypes DEF CurrentIsOwn
<1>9. LoopInv' /\ ScanInv' /\ SwapInv'
  BY <1>1 DEF IInv, LoopInv, ScanInv, SwapInv, At
<1>10. StoppedEmpty' /\ AssertionsHold'
  BY <1>1, <1>5 DEF IInv, StoppedEmpty, Stopped, AssertionsHold
<1> QED BY <1>4, <1>6, <1>7, <1>8, <1>9, <1>10 DEF IInv, ListInv

\* The last one stays, with its projects.
LEMMA DestroyLastStep ==
    ASSUME IInv, NEW s \in Slots, OutputDestroyed(s),
           projects[s] # <<>>, LastOutput
    PROVE  IInv'
<1>1. /\ pc = "idle" /\ pc' = pc /\ Live(s)
      /\ wouts' = Unlink(wouts, output[s])
      /\ gone' = gone \cup {s}
      /\ UNCHANGED <<outputs, output, project_cur, faults, projects,
                     proj_output, output_name, disk, output_focus, name,
                     layers, layouted, h>>
  BY DEF OutputDestroyed, list_vars
<1>2. outputs \in Seq(Slots) /\ IsList(outputs) /\ TypeOK /\ ListInv
  BY ListTypes DEF IInv, ListInv, Row
<1>3. /\ wouts' \in Seq(Monitors) /\ IsList(wouts')
      /\ Range(wouts') = Range(wouts) \ {output[s]}
  <2>1. wouts \in Seq(Monitors) /\ IsList(wouts)
    BY <1>2, ListTypes DEF ListInv, Row
  <2> QED BY <1>1, <2>1, UnlinkList
<1>4. outputs # <<>> /\ s = Head(outputs) /\ Range(outputs) = {s}
  <2>1. PICK i \in 1..Len(outputs) : outputs[i] = s
    BY <1>1, <1>2, ListRange DEF Live
  <2>2. Len(outputs) = 1 /\ i = 1
    <3>1. Len(outputs) \in Nat /\ Len(outputs) < 2
      BY <1>2 DEF LastOutput
    <3> QED BY <2>1, <3>1
  <2>3. \A t \in Range(outputs) : t = s
    <3>1. \A t \in Range(outputs) : \E j \in 1..Len(outputs) : outputs[j] = t
      BY <1>2, ListRange
    <3> QED BY <2>1, <2>2, <3>1
  <2>4. outputs # <<>> /\ Head(outputs) = outputs[1]
    BY <1>2, <2>2
  <2> QED BY <1>1, <2>1, <2>2, <2>3, <2>4 DEF Live
<1>5. GoneFirst'
  BY <1>1, <1>2, <1>4 DEF ListInv, GoneFirst, Live
<1>6. Row'
  BY <1>1, <1>2, <1>3, <1>4 DEF Row, Live
<1>7. Named' /\ ListsAgree' /\ Placed'
  BY <1>1, <1>2 DEF ListInv, Named, ListsAgree, Placed
<1>8. TypeOK'
  BY <1>1, <1>2, <1>3 DEF TypeOK
<1>9. CurrentIsOwn'
  BY <1>1 DEF IInv, CurrentIsOwn, Swapping
<1>10. LoopInv' /\ ScanInv' /\ SwapInv'
  BY <1>1 DEF IInv, LoopInv, ScanInv, SwapInv, At
<1>11. StoppedEmpty' /\ AssertionsHold'
  BY <1>1 DEF IInv, StoppedEmpty, Stopped, AssertionsHold
<1> QED BY <1>5, <1>6, <1>7, <1>8, <1>9, <1>10, <1>11 DEF IInv, ListInv

\* Otherwise a neighbour takes its projects, and their back pointers follow.
LEMMA DestroyMoveStep ==
    ASSUME IInv, NEW s \in Slots, OutputDestroyed(s),
           projects[s] # <<>>, ~LastOutput
    PROVE  IInv'
<1> DEFINE to == Neighbour(s)
<1>1. /\ pc = "idle" /\ pc' = pc /\ Live(s)
      /\ wouts' = Unlink(wouts, output[s])
      /\ MoveProjects(s) /\ Destroy(s, NULL) /\ gone' = gone
      /\ UNCHANGED <<disk, output_focus, name, layers, layouted, h>>
  BY DEF OutputDestroyed
<1>2. /\ outputs' = Unlink(outputs, s)
      /\ output' = [output EXCEPT ![s] = NULL]
      /\ project_cur' = [project_cur EXCEPT ![s] = NULL]
      /\ faults' = faults
  BY <1>1 DEF Destroy
<1>3. TypeOK /\ ListInv /\ s \in Range(outputs)
  BY <1>1 DEF IInv, Live
<1>4. /\ wouts' \in Seq(Monitors) /\ outputs' \in Seq(Slots)
      /\ output' \in [Slots -> Monitors \cup {NULL}]
      /\ Range(outputs') = Range(outputs) \ {s}
      /\ Named' /\ Row' /\ GoneFirst'
  BY <1>1, <1>2, <1>3, DestroyRow
<1>5. to \in Range(outputs) \ {s} /\ to \in Slots
  BY <1>3, NeighbourOther, ListTypes
<1>6. /\ projects' = [projects EXCEPT ![to] = projects[to] \o projects[s],
                                      ![s] = <<>>]
      /\ proj_output' = [p \in Projects |-> IF p \in Range(projects[s])
                                            THEN to ELSE proj_output[p]]
      /\ output_name' = output_name
  BY <1>1 DEF MoveProjects
<1> HIDE DEF to
<1>7. \A t \in Slots : projects[t] \in Seq(Projects) /\ IsList(projects[t])
  BY <1>3, ListTypes DEF ListInv, ListsAgree
<1>8. \A p \in Projects, t \in Slots : p \in Range(projects[t]) <=> proj_output[p] = t
  BY <1>3 DEF ListInv, ListsAgree
<1>9. /\ projects[to] \o projects[s] \in Seq(Projects)
      /\ IsList(projects[to] \o projects[s])
      /\ Range(projects[to] \o projects[s]) =
            Range(projects[to]) \cup Range(projects[s])
  <2>1. Range(projects[to]) \cap Range(projects[s]) = {}
    BY <1>3, <1>5, <1>8, ListTypes
  <2>2. /\ projects[to] \in Seq(Projects) /\ IsList(projects[to])
        /\ projects[s] \in Seq(Projects) /\ IsList(projects[s])
    BY <1>5, <1>7
  <2> QED BY <2>1, <2>2, ConcatList
<1>10. /\ projects' \in [Slots -> Seq(Projects)]
       /\ projects'[s] = <<>>
       /\ projects'[to] = projects[to] \o projects[s]
       /\ \A t \in Slots \ {s, to} : projects'[t] = projects[t]
  <2>1. <<>> \in Seq(Projects)
    OBVIOUS
  <2> QED BY <1>3, <1>5, <1>6, <1>9, <2>1, ListTypes
<1>11. ListsAgree'
  <2> SUFFICES ASSUME NEW t \in Slots
               PROVE  /\ IsList(projects'[t])
                      /\ \A p \in Projects :
                            p \in Range(projects'[t]) <=> proj_output'[p] = t
    BY DEF ListsAgree
  <2>1. CASE t = s
    <3>1. projects'[t] = <<>>
      BY <1>10, <2>1
    <3>2. \A p \in Projects : proj_output'[p] # t
      BY <1>5, <1>6, <1>8, <2>1
    <3> QED BY <3>1, <3>2, EmptyList
  <2>2. CASE t = to
    BY <1>5, <1>6, <1>8, <1>9, <1>10, <2>2
  <2>3. CASE t # s /\ t # to
    BY <1>6, <1>7, <1>8, <1>10, <2>3
  <2> QED BY <2>1, <2>2, <2>3
<1>12. Placed'
  <2>1. \A p \in Projects : proj_output[p] # NULL <=> proj_output'[p] # NULL
    BY <1>5, <1>6, <1>8, <1>3, ListTypes
  <2>2. \A p \in Projects : proj_output'[p] # s
    BY <1>5, <1>6, <1>8
  <2>3. \A p \in Projects : proj_output'[p] \in {to, proj_output[p]}
    BY <1>6
  <2> QED BY <1>1, <1>3, <1>4, <1>5, <1>6, <2>1, <2>2, <2>3 DEF ListInv, Placed
<1>13. TypeOK'
  <2>1. proj_output' \in [Projects -> Slots \cup {NULL}]
    BY <1>3, <1>5, <1>6, ListTypes
  <2>2. project_cur' \in [Slots -> Projects \cup {NULL}]
    BY <1>2, <1>3, ListTypes
  <2> QED BY <1>1, <1>2, <1>3, <1>4, <1>6, <1>10, <2>1, <2>2 DEF TypeOK
<1>14. CurrentIsOwn'
  <2>1. \A t \in Slots : project_cur[t] \in Range(projects[t]) \cup {NULL}
    BY <1>1 DEF IInv, CurrentIsOwn, Swapping
  <2>2. \A t \in Slots \ {s} : Range(projects[t]) \subseteq Range(projects'[t])
    BY <1>9, <1>10
  <2>3. /\ project_cur'[s] = NULL
        /\ \A t \in Slots \ {s} : project_cur'[t] = project_cur[t]
    BY <1>2, <1>3, ListTypes
  <2> QED BY <2>1, <2>2, <2>3 DEF CurrentIsOwn
<1>15. LoopInv' /\ ScanInv' /\ SwapInv'
  BY <1>1 DEF IInv, LoopInv, ScanInv, SwapInv, At
<1>16. StoppedEmpty' /\ AssertionsHold'
  BY <1>1, <1>2 DEF IInv, StoppedEmpty, Stopped, AssertionsHold
<1> QED BY <1>4, <1>11, <1>12, <1>13, <1>14, <1>15, <1>16 DEF IInv, ListInv

\* handle_output_destroy, which moves the projects to another output.
LEMMA OutputDestroyedStep ==
    ASSUME IInv, NEW s \in Slots, OutputDestroyed(s)
    PROVE  IInv'
BY DestroyEmptyStep, DestroyLastStep, DestroyMoveStep

-----------------------------------------------------------------------------
(* The start.                                                              *)

\* What Lists enumerates.
LEMMA ListsAreLists ==
    ASSUME NEW S, NEW s \in Lists(S)
    PROVE  s \in Seq(S) /\ IsList(s)
<1>1. PICK n \in 0..Cardinality(S) : s \in [1..n -> S]
  BY DEF Lists
<1>2. CASE n \in Nat
  BY <1>1, <1>2 DEF Lists
<1>3. CASE n \notin Nat
  BY <1>1, <1>3
<1> QED BY <1>2, <1>3

\* qimm_output_init finds the outputs there are.
LEMMA StartStep == ASSUME IInv, Start PROVE IInv'
<1>1. PICK dirs \in Lists(Names) :
        /\ pc \in Stopped /\ pc' = "load"
        /\ wouts' \in Lists(Monitors)
        /\ outputs' \in Lists(Slots) /\ Len(outputs') = Len(wouts')
        /\ output' = [s \in Slots |-> IF s \in Range(outputs')
                                      THEN wouts'[IndexOf(outputs', s)] ELSE NULL]
        /\ output_focus' = IF outputs' = <<>> THEN NULL ELSE Head(outputs')
        /\ Range(dirs) = {n \in Names : disk[n] # Missing}
        /\ h' = [NoFrame EXCEPT !.boot = TRUE, !.todo = dirs]
        /\ UNCHANGED <<disk, gone, name, faults, projects, proj_output,
                       output_name, project_cur, layers, layouted>>
  BY DEF Start, list_vars, show_vars
<1>2. outputs = <<>> /\ Range(outputs) = {} /\ gone = {} /\ TypeOK /\ ListInv
  BY <1>1, EmptyList DEF IInv, StoppedEmpty, ListInv, GoneFirst
<1>3. /\ \A p \in Projects : name[p] = NULL /\ proj_output[p] = NULL
      /\ \A s \in Slots : projects[s] = <<>>
  BY <1>2, FreeSlotEmpty DEF ListInv, Placed
<1>4. /\ outputs' \in Seq(Slots) /\ IsList(outputs')
      /\ wouts' \in Seq(Monitors) /\ IsList(wouts')
      /\ dirs \in Seq(Names)
  BY <1>1, ListsAreLists
<1>5. ASSUME NEW s \in Range(outputs')
      PROVE  /\ s \in Slots /\ output'[s] = wouts'[IndexOf(outputs', s)]
             /\ IndexOf(outputs', s) \in 1..Len(outputs')
             /\ outputs'[IndexOf(outputs', s)] = s
             /\ output'[s] \in Range(wouts') /\ output'[s] \in Monitors
  <2>1. s \in Slots
    BY <1>4, ListRange
  <2>2. /\ IndexOf(outputs', s) \in 1..Len(outputs')
        /\ outputs'[IndexOf(outputs', s)] = s
    BY <1>4, IndexOfList
  <2>3. output'[s] = wouts'[IndexOf(outputs', s)]
    BY <1>1, <2>1
  <2>4. /\ wouts'[IndexOf(outputs', s)] \in Range(wouts')
        /\ Range(wouts') \subseteq Monitors
    BY <1>1, <1>4, <2>2, ListRange
  <2> QED BY <2>1, <2>2, <2>3, <2>4
<1>6. ASSUME NEW s \in Slots, s \notin Range(outputs') PROVE output'[s] = NULL
  BY <1>1, <1>6
<1>7. output' \in [Slots -> Monitors \cup {NULL}]
  <2>1. \A s \in Slots : output'[s] \in Monitors \cup {NULL}
    BY <1>5, <1>6
  <2> QED BY <1>1, <2>1
<1>8. /\ h' \in Frames /\ h'.boot /\ h'.todo = dirs
  <2>1. h' = [[NoFrame EXCEPT !.boot = TRUE] EXCEPT !.todo = dirs]
    BY <1>1
  <2> QED BY <1>4, <2>1, NoFrameType DEF Frames
<1>9. output_focus' \in Slots \cup {NULL}
  <2>1. outputs' # <<>> => Head(outputs') \in Slots
    BY <1>4
  <2> QED BY <1>1, <2>1
<1>10. TypeOK'
  BY <1>1, <1>2, <1>4, <1>7, <1>8, <1>9 DEF TypeOK, Control
<1>11. Named'
  BY <1>5, <1>6, NullAssumption DEF Named
<1>12. Row'
  <2>1. ASSUME NEW s \in Range(outputs'), NEW t \in Range(outputs'),
               output'[s] = output'[t]
        PROVE  s = t
    <3>1. /\ IndexOf(outputs', s) \in 1..Len(wouts')
          /\ IndexOf(outputs', t) \in 1..Len(wouts')
          /\ wouts'[IndexOf(outputs', s)] = wouts'[IndexOf(outputs', t)]
      BY <1>1, <1>5, <2>1
    <3>2. IndexOf(outputs', s) = IndexOf(outputs', t)
      BY <1>4, <3>1, ListApart
    <3> QED BY <1>5, <3>2
  <2> QED BY <1>4, <1>5, <2>1 DEF Row, Live
<1>13. ListsAgree' /\ Placed' /\ GoneFirst'
  BY <1>1, <1>2, <1>3 DEF ListInv, ListsAgree, Placed, GoneFirst
<1>14. CurrentIsOwn'
  <2>1. \A s \in Slots : project_cur[s] \in Range(projects[s]) \cup {NULL}
    BY <1>1 DEF IInv, CurrentIsOwn, Swapping, Stopped
  <2> QED BY <1>1, <2>1 DEF CurrentIsOwn
<1>15. LoopInv'
  BY <1>1, <1>2, <1>4, <1>8 DEF LoopInv, At
<1>16. ScanInv' /\ SwapInv' /\ StoppedEmpty' /\ AssertionsHold'
  BY <1>1 DEF IInv, ScanInv, SwapInv, At, StoppedEmpty, Stopped, AssertionsHold
<1> QED BY <1>10, <1>11, <1>12, <1>13, <1>14, <1>15, <1>16 DEF IInv, ListInv

\* The output a project is read onto is one the shell has.
LEMMA OutputNamedType ==
    ASSUME TypeOK, outputs # <<>>, NEW m
    PROVE  OutputNamed(m) \in Range(outputs)
<1>1. Head(outputs) \in Range(outputs)
  BY ListTypes, HeadTail
<1> QED BY <1>1 DEF OutputNamed

\* A directory becomes a project on the output of its name, or on the first.
LEMMA LoadProjectStep == ASSUME IInv, LoadProject PROVE IInv'
<1> DEFINE n == Head(h.todo)
           to == OutputNamed(disk[n])
<1>1. PICK p \in FreeProjects :
        /\ pc = "load" /\ pc' = pc /\ h.todo # <<>> /\ outputs # <<>>
        /\ disk[n] # Torn
        /\ name' = [name EXCEPT ![p] = n]
        /\ projects' = [projects EXCEPT ![to] = Append(projects[to], p)]
        /\ proj_output' = [proj_output EXCEPT ![p] = to]
        /\ output_name' = [output_name EXCEPT ![p] = disk[n]]
        /\ h' = [h EXCEPT !.todo = Tail(h.todo)]
        /\ UNCHANGED <<wouts, disk, faults, outputs, output, gone,
                       output_focus, project_cur, layers, layouted>>
  BY DEF LoadProject, output_vars, show_vars
<1>2. /\ h \in Frames /\ h.boot /\ gone = {} /\ h.todo \in Seq(Names)
      /\ \A k \in Range(h.todo) : disk[k] # Missing
      /\ disk \in [Names -> Monitors \cup {Missing, Torn}]
      /\ TypeOK /\ ListInv
  BY <1>1 DEF IInv, LoopInv, At, TypeOK
<1>3. /\ n \in Range(h.todo) /\ Tail(h.todo) \in Seq(Names)
      /\ Range(Tail(h.todo)) \subseteq Range(h.todo)
  BY <1>1, <1>2, HeadTail
<1>4. n \in Names /\ disk[n] \in Monitors
  BY <1>1, <1>2, <1>3, ListRange
<1>5. to \in Range(outputs) /\ to \in Slots
  BY <1>1, <1>2, OutputNamedType, ListTypes
<1>6. p \in Projects /\ name[p] = NULL
  BY DEF FreeProjects, InUse
<1>7. \A t \in Slots : p \notin Range(projects[t])
  BY <1>2, <1>6, OnOneList DEF InUse
<1> HIDE DEF n, to
<1>8. /\ Append(projects[to], p) \in Seq(Projects)
      /\ Range(Append(projects[to], p)) = Range(projects[to]) \cup {p}
      /\ IsList(Append(projects[to], p))
  <2>1. projects[to] \in Seq(Projects) /\ IsList(projects[to])
    BY <1>2, <1>5, ListTypes DEF ListInv, ListsAgree
  <2> QED BY <1>5, <1>6, <1>7, <2>1, AppendList
<1>9. /\ projects' \in [Slots -> Seq(Projects)]
      /\ projects'[to] = Append(projects[to], p)
      /\ \A t \in Slots \ {to} : projects'[t] = projects[t]
  BY <1>1, <1>2, <1>5, <1>8, ListTypes
<1>10. /\ h' \in Frames /\ h'.todo = Tail(h.todo) /\ h'.boot
  BY <1>1, <1>2, <1>3 DEF Frames
<1>11. TypeOK'
  <2>1. /\ name' \in [Projects -> Names \cup {NULL}]
        /\ proj_output' \in [Projects -> Slots \cup {NULL}]
        /\ output_name' \in [Projects -> Monitors \cup {NULL}]
    BY <1>1, <1>2, <1>4, <1>5, <1>6, ListTypes
  <2> QED BY <1>1, <1>2, <1>9, <1>10, <2>1 DEF TypeOK
<1>12. ListsAgree'
  <2> SUFFICES ASSUME NEW t \in Slots
               PROVE  /\ IsList(projects'[t])
                      /\ \A q \in Projects :
                            q \in Range(projects'[t]) <=> proj_output'[q] = t
    BY DEF ListsAgree
  <2>1. /\ IsList(projects[t])
        /\ \A q \in Projects : q \in Range(projects[t]) <=> proj_output[q] = t
    BY <1>2 DEF ListInv, ListsAgree
  <2>2. /\ proj_output'[p] = to
        /\ \A q \in Projects \ {p} : proj_output'[q] = proj_output[q]
    BY <1>1, <1>2, <1>6, ListTypes
  <2>3. CASE t = to
    BY <1>8, <1>9, <2>1, <2>2, <2>3
  <2>4. CASE t # to
    BY <1>7, <1>9, <2>1, <2>2, <2>4
  <2> QED BY <2>3, <2>4
<1>13. Placed'
  BY <1>1, <1>2, <1>4, <1>5, <1>6, ListTypes DEF ListInv, Placed
<1>14. Named' /\ Row' /\ GoneFirst'
  BY <1>1, <1>2 DEF ListInv, Named, Row, Live, GoneFirst
<1>15. CurrentIsOwn'
  <2>1. \A t \in Slots : project_cur[t] \in Range(projects[t]) \cup {NULL}
    BY <1>1 DEF IInv, CurrentIsOwn, Swapping
  <2>2. \A t \in Slots : Range(projects[t]) \subseteq Range(projects'[t])
    BY <1>8, <1>9
  <2> QED BY <1>1, <2>1, <2>2 DEF CurrentIsOwn
<1>16. LoopInv'
  BY <1>1, <1>2, <1>3, <1>10 DEF LoopInv, At
<1>17. ScanInv' /\ SwapInv' /\ StoppedEmpty' /\ AssertionsHold'
  BY <1>1 DEF IInv, ScanInv, SwapInv, At, StoppedEmpty, Stopped, AssertionsHold
<1> QED BY <1>11, <1>12, <1>13, <1>14, <1>15, <1>16, <1>17 DEF IInv, ListInv

-----------------------------------------------------------------------------
(* The theorems.                                                           *)

\* Every step keeps the invariant: one lemma per action.
LEMMA StepInv == ASSUME IInv, [Next]_vars PROVE IInv'
<1>1. CASE UNCHANGED vars
  <2>1. UNCHANGED <<wouts, disk, outputs, output, gone, projects, project_cur,
                    output_focus, name, proj_output, output_name, layers,
                    layouted, pc, h, faults>>
    BY <1>1 DEF vars
  <2>2. TypeOK' /\ CurrentIsOwn' /\ StoppedEmpty' /\ AssertionsHold'
    BY <2>1 DEF IInv, TypeOK, CurrentIsOwn, Swapping, StoppedEmpty, AssertionsHold
  <2>3. ListInv' /\ InUse' = InUse
    BY <2>1, SameLists DEF IInv
  <2>4. LoopInv' /\ ScanInv' /\ SwapInv'
    BY <2>1, <2>3 DEF IInv, LoopInv, ScanInv, SwapInv, At
  <2> QED BY <2>2, <2>3, <2>4 DEF IInv
<1>2. CASE Save
  BY <1>2, SaveOpenStep, SaveWriteStep, SaveFailsStep DEF Save
<1>3. CASE Restore
  BY <1>3, RestoreNextOutputStep, RestoreDoneStep, RestoreInsertStep,
     RestoreLookStep, RestoreShownStep, RestoreSwapStep, RestoreKeepShownStep
     DEF Restore
<1>4. CASE Fill
  BY <1>4, FillCreateStep, FillFailsStep, FillNothingStep, ShowFirstStep DEF Fill
<1>5. CASE Load
  BY <1>5, LoadProjectStep, LoadDoneStep, PrepareStep, EndsStep DEF Load
<1>6. CASE Event
  BY <1>6, OutputCreatedStep, OutputDestroyedStep, StartStep, EndsStep DEF Event
<1> QED BY <1>1, <1>2, <1>3, <1>4, <1>5, <1>6 DEF Next, Run

\* The inductive invariant holds in every state the shell reaches, whatever
\* the outputs that come and go, the saves that fail and the kills.
THEOREM Inductive == Spec => []IInv
BY InitInv, StepInv, PTL DEF Spec

\* Every variable, and every local of a handler, keeps its type.
THEOREM TypeCorrect == Spec => []TypeOK
<1>1. IInv => TypeOK
  BY DEF IInv
<1> QED BY <1>1, Inductive, PTL

\* At every instant the lists and the back pointers of the projects name the
\* same outputs, although output.c moves the two in three places.
THEOREM ListsAlwaysAgree == Spec => []ListsAgree
<1>1. IInv => ListsAgree
  BY DEF IInv, ListInv
<1> QED BY <1>1, Inductive, PTL

\* No project is left on an output that qimm_output_destroy has freed.
THEOREM NoProjectLost == Spec => []NothingLost
<1>1. IInv => NothingLost
  BY ListTypes DEF IInv, ListInv, Placed, NothingLost, InUse
<1> QED BY <1>1, Inductive, PTL

\* qimm_output::project_cur points to a project of the output's own list,
\* except inside the swap of qimm_output_project_restore.
THEOREM ShownIsOwn == Spec => []CurrentIsOwn
<1>1. IInv => CurrentIsOwn
  BY DEF IInv
<1> QED BY <1>1, Inductive, PTL

\* An output that outlives its weston_output is the first of the shell's.
THEOREM GoneIsFirst == Spec => []OnlyFirstGone
<1>1. IInv => OnlyFirstGone
  BY DEF IInv, ListInv, GoneFirst, OnlyFirstGone
<1> QED BY <1>1, Inductive, PTL

\* The assertions of qimm_output_destroy never fail.
THEOREM NoAssertionFails == Spec => []AssertionsHold
<1>1. IInv => AssertionsHold
  BY DEF IInv
<1> QED BY <1>1, Inductive, PTL

-----------------------------------------------------------------------------
(* The lists of QimmOutputs implement the promise of QimmPlacement, and no *)
(* step but the end of the process renames a project or gives it another   *)
(* home.                                                                   *)

\* The variables of QimmPlacement, as QimmOutputs gives them.
Still == UNCHANGED <<outputs, output, proj_output, output_name>>

\* No project in use is renamed or given another home.
Homes == \A p \in InUse : name'[p] = name[p] /\ output_name'[p] = output_name[p]

Kept == [Placement!Next]_(Placement!vars) /\ (pc' \in Stopped \/ Homes)

\* A step that leaves the lists alone.
LEMMA StillKept == ASSUME Still, name' = name PROVE Kept
BY DEF Still, Kept, Homes, Placement!vars

\* A step that ends the process.
LEMMA ExitKept == ASSUME NEW how \in Stopped, Exit(how) PROVE Kept
<1>1. Range(outputs') = {}
  BY EmptyList DEF Exit
<1>2. Placement!Ends
  BY <1>1 DEF Exit, Placement!Ends
<1> QED BY <1>2 DEF Kept, Exit, Placement!Next

\* A project inserted into the list of its home.
LEMMA ReturnKept ==
    ASSUME IInv, NEW s \in Range(outputs), NEW p \in InUse,
           output_name[p] = output[s],
           output_name' = [output_name EXCEPT ![p] = output[s]],
           proj_output' = [proj_output EXCEPT ![p] = s],
           UNCHANGED <<outputs, output, name>>
    PROVE  Kept
<1>1. s \in Slots /\ p \in Projects /\ name[p] # NULL
  BY ListTypes DEF IInv, InUse
<1>2. output_name' = output_name
  BY <1>1, ListTypes DEF IInv
<1>3. proj_output[p] # NULL
  BY <1>1 DEF IInv, ListInv, Placed
<1>4. Placement!Returns(p, s)
  BY <1>2, <1>3 DEF Placement!Returns
<1> QED BY <1>1, <1>2, <1>4 DEF Kept, Homes, Placement!Next

\* A project that comes into use.
LEMMA EnterKept ==
    ASSUME IInv, NEW s \in Range(outputs), NEW p \in Projects, name[p] = NULL,
           NEW m \in Monitors,
           output[s] = m \/ \A t \in Range(outputs) : output[t] # m,
           NEW n, name' = [name EXCEPT ![p] = n],
           output_name' = [output_name EXCEPT ![p] = m],
           proj_output' = [proj_output EXCEPT ![p] = s],
           UNCHANGED <<outputs, output>>
    PROVE  Kept
<1>1. s \in Slots /\ proj_output[p] = NULL
  BY ListTypes DEF IInv, ListInv, Placed
<1>2. Placement!Enters(p, s, m)
  BY <1>1 DEF Placement!Enters
<1>3. Homes
  BY ListTypes DEF Homes, InUse, IInv
<1> QED BY <1>1, <1>2, <1>3 DEF Kept, Placement!Next

\* Saving leaves projects where they are.
LEMMA SaveKept == ASSUME Save PROVE Kept
BY StillKept DEF Save, SaveOpen, SaveWrite, SaveFails, Still, output_vars, list_vars

\* Restoring takes projects to their homes only.
LEMMA RestoreKept == ASSUME IInv, Restore PROVE Kept
<1>1. CASE RestoreNextOutput \/ RestoreDone \/ RestoreLook \/ RestoreKeepShown
  BY <1>1, StillKept DEF RestoreNextOutput, RestoreDone, RestoreLook,
     RestoreKeepShown, Still, output_vars, list_vars
<1>2. CASE RestoreSwap
  BY <1>2, StillKept DEF RestoreSwap, Still, output_vars, list_vars
<1>3. CASE RestoreInsert
  <2> DEFINE p == Head(h.scan)
  <2>1. /\ pc = "scan" /\ h.scan # <<>> /\ output_name[p] = output[h.to]
        /\ output_name' = [output_name EXCEPT ![p] = output[h.to]]
        /\ proj_output' = [proj_output EXCEPT ![p] = h.to]
        /\ UNCHANGED <<outputs, output, name>>
    BY <1>3 DEF RestoreInsert, Wanted, Insert, output_vars
  <2>2. /\ h.to \in Range(outputs) /\ h.scan \in Seq(Projects)
        /\ h.at \in Slots /\ Range(h.scan) \subseteq Range(projects[h.at])
    BY <2>1, ListTypes DEF IInv, LoopInv, ScanInv, At, TypeOK, Frames
  <2>3. p \in InUse
    BY <2>1, <2>2, HeadTail, OnOneList DEF IInv
  <2> HIDE DEF p
  <2> QED BY <2>1, <2>2, <2>3, ReturnKept
<1>4. CASE RestoreShown
  <2>1. /\ pc = "scan" /\ h.old # NULL
        /\ output_name' = [output_name EXCEPT ![h.old] = output[h.to]]
        /\ proj_output' = [proj_output EXCEPT ![h.old] = h.to]
        /\ UNCHANGED <<outputs, output, name>>
    BY <1>4 DEF RestoreShown, Insert, output_vars
  <2>2. /\ h.to \in Range(outputs) /\ h.at \in Slots
        /\ h.old \in Range(projects[h.at])
        /\ output_name[h.old] = output[h.to]
    BY <2>1, ListTypes DEF IInv, LoopInv, ScanInv, At
  <2>3. h.old \in InUse
    BY <2>2, OnOneList DEF IInv
  <2> QED BY <2>1, <2>2, <2>3, ReturnKept
<1> QED BY <1>1, <1>2, <1>3, <1>4 DEF Restore

\* Filling an output brings projects into use.
LEMMA FillKept == ASSUME IInv, Fill PROVE Kept
<1>1. CASE FillNothing \/ ShowFirst
  BY <1>1, StillKept DEF FillNothing, ShowFirst, Still, output_vars, list_vars
<1>2. CASE FillFails
  BY <1>2, StillKept, ExitKept DEF FillFails, Still, Stopped, output_vars, list_vars
<1>3. CASE FillCreate
  <2>1. PICK p \in FreeProjects :
          /\ pc = "fill"
          /\ name' = [name EXCEPT ![p] =
                        IF h.boot /\ h.to = Head(outputs) THEN Dashboard
                                                          ELSE Assistant]
          /\ output_name' = [output_name EXCEPT ![p] = output[h.to]]
          /\ proj_output' = [proj_output EXCEPT ![p] = h.to]
          /\ UNCHANGED <<outputs, output>>
    BY <1>3 DEF FillCreate, Insert, output_vars
  <2>2. p \in Projects /\ name[p] = NULL
    BY DEF FreeProjects, InUse
  <2>3. h.to \in Range(outputs) /\ output[h.to] \in Monitors
    BY <2>1, ListTypes DEF IInv, LoopInv, At, ListInv, Named
  <2> QED BY <2>1, <2>2, <2>3, EnterKept
<1> QED BY <1>1, <1>2, <1>3 DEF Fill

\* So does loading.
LEMMA LoadKept == ASSUME IInv, Load PROVE Kept
<1>1. CASE LoadDone \/ Prepare
  BY <1>1, StillKept DEF LoadDone, Prepare, Still, output_vars, list_vars
<1>2. CASE LoadFails \/ LoadNowhere
  BY <1>2, ExitKept DEF LoadFails, LoadNowhere, Stopped
<1>3. CASE LoadProject
  <2> DEFINE n == Head(h.todo)
             to == OutputNamed(disk[n])
  <2>1. PICK p \in FreeProjects :
          /\ pc = "load" /\ h.todo # <<>> /\ outputs # <<>> /\ disk[n] # Torn
          /\ name' = [name EXCEPT ![p] = n]
          /\ proj_output' = [proj_output EXCEPT ![p] = to]
          /\ output_name' = [output_name EXCEPT ![p] = disk[n]]
          /\ UNCHANGED <<outputs, output>>
    BY <1>3 DEF LoadProject, output_vars
  <2>2. p \in Projects /\ name[p] = NULL
    BY DEF FreeProjects, InUse
  <2>3. /\ h.todo \in Seq(Names) /\ \A k \in Range(h.todo) : disk[k] # Missing
        /\ disk \in [Names -> Monitors \cup {Missing, Torn}]
    BY <2>1 DEF IInv, LoopInv, At, TypeOK
  <2>4. n \in Range(h.todo) /\ n \in Names
    BY <2>1, <2>3, HeadTail, ListRange
  <2>5. disk[n] \in Monitors
    BY <2>1, <2>3, <2>4
  <2>6. to \in Range(outputs)
    BY <2>1, OutputNamedType DEF IInv
  <2>7. output[to] = disk[n] \/ \A t \in Range(outputs) : output[t] # disk[n]
    BY DEF OutputNamed
  <2> HIDE DEF n, to
  <2> QED BY <2>1, <2>2, <2>5, <2>6, <2>7, EnterKept
<1> QED BY <1>1, <1>2, <1>3 DEF Load

\* Only the end of an output takes projects away.
LEMMA EventKept == ASSUME IInv, Event PROVE Kept
<1>1. ASSUME NEW m \in Monitors, OutputCreated(m) PROVE Kept
  <2>1. PICK s \in FreeSlots :
          /\ outputs' = Append(outputs, s)
          /\ output' = [output EXCEPT ![s] = m]
          /\ UNCHANGED <<name, proj_output, output_name>>
    BY <1>1 DEF OutputCreated, list_vars
  <2>2. s \in Slots /\ s \notin Range(outputs)
    BY DEF FreeSlots
  <2>3. Range(outputs') = Range(outputs) \cup {s}
    BY <2>1, <2>2, ListTypes, AppendList DEF IInv
  <2>4. \A p \in Projects : proj_output[p] # s
    BY <2>2, ListTypes DEF IInv, ListInv, Placed
  <2>5. Placement!OutputComes(s, m)
    BY <2>1, <2>2, <2>3, <2>4 DEF Placement!OutputComes, Placement!On
  <2> QED BY <2>1, <2>2, <2>5 DEF Kept, Homes, Placement!Next
<1>2. ASSUME NEW s \in Slots, OutputDestroyed(s) PROVE Kept
  <2>1. name' = name /\ output_name' = output_name /\ Live(s)
    BY <1>2 DEF OutputDestroyed, MoveProjects, list_vars
  <2>2. Homes
    BY <2>1 DEF Homes
  <2>3. CASE projects[s] # <<>> /\ LastOutput
    <3>1. Still
      BY <1>2, <2>3 DEF OutputDestroyed, Still, list_vars
    <3> QED BY <2>1, <3>1, StillKept
  <2>4. CASE projects[s] = <<>> \/ ~LastOutput
    <3>1. /\ outputs' = Unlink(outputs, s)
          /\ output' = [output EXCEPT ![s] = NULL]
      BY <1>2, <2>4 DEF OutputDestroyed, Destroy
    <3>2. Range(outputs') = Range(outputs) \ {s}
      <4>1. outputs \in Seq(Slots) /\ IsList(outputs)
        BY ListTypes DEF IInv, ListInv, Row
      <4> QED BY <3>1, <4>1, UnlinkList
    <3>3. \A p \in Projects : p \in Range(projects[s]) <=> proj_output[p] = s
      BY DEF IInv, ListInv, ListsAgree
    <3>4. \/ Placement!On(s) = {} /\ proj_output' = proj_output
          \/ \E t \in Range(outputs) \ {s} :
                proj_output' = [p \in Projects |->
                                    IF proj_output[p] = s THEN t
                                                          ELSE proj_output[p]]
      <4>1. CASE projects[s] = <<>>
        <5>1. proj_output' = proj_output
          BY <1>2, <4>1 DEF OutputDestroyed, list_vars
        <5>2. Placement!On(s) = {}
          BY <3>3, <4>1, EmptyList DEF Placement!On
        <5> QED BY <5>1, <5>2
      <4>2. CASE projects[s] # <<>> /\ ~LastOutput
        <5>1. proj_output' = [p \in Projects |-> IF p \in Range(projects[s])
                                    THEN Neighbour(s) ELSE proj_output[p]]
          BY <1>2, <4>2 DEF OutputDestroyed, MoveProjects
        <5>2. Neighbour(s) \in Range(outputs) \ {s}
          BY <2>1, <4>2, NeighbourOther DEF IInv, Live
        <5>3. proj_output' = [p \in Projects |-> IF proj_output[p] = s
                                    THEN Neighbour(s) ELSE proj_output[p]]
          BY <3>3, <5>1
        <5> QED BY <5>2, <5>3
      <4> QED BY <2>4, <4>1, <4>2
    <3>5. Placement!OutputGoes(s)
      BY <2>1, <3>1, <3>2, <3>4 DEF Placement!OutputGoes, Live
    <3> QED BY <2>2, <3>5 DEF Kept, Placement!Next
  <2> QED BY <2>3, <2>4
<1>3. CASE Start
  <2>1. /\ IInv' /\ outputs = <<>>
        /\ UNCHANGED <<name, proj_output, output_name>>
    BY <1>3, StartStep DEF Start, IInv, StoppedEmpty, list_vars
  <2>2. Range(outputs) = {} /\ Range(outputs') \subseteq Slots
    BY <2>1, EmptyList, ListRange DEF IInv, TypeOK
  <2>3. /\ output' \in [Slots -> Monitors \cup {NULL}]
        /\ \A s \in Slots : output'[s] # NULL <=> s \in Range(outputs')
    BY <2>1 DEF IInv, TypeOK, ListInv, Named
  <2>4. Placement!Begin
    BY <2>1, <2>2, <2>3 DEF Placement!Begin
  <2> QED BY <2>1, <2>4 DEF Kept, Homes, Placement!Next
<1>4. CASE Shutdown \/ Crash
  BY <1>4, ExitKept DEF Shutdown, Crash, Stopped
<1> QED BY <1>1, <1>2, <1>3, <1>4 DEF Event

\* Every step keeps the promise: one lemma per kind of step.
LEMMA StepKept == ASSUME IInv, [Next]_vars PROVE Kept
<1>1. CASE UNCHANGED vars
  BY <1>1, StillKept DEF vars, Still
<1> QED BY <1>1, SaveKept, RestoreKept, FillKept, LoadKept, EventKept DEF Next, Run

\* The shell implements QimmPlacement: a project leaves its output only when
\* the output goes, or for the output that is its home.
THEOREM ImplementsPlacement == Spec => KeepsPlacement
<1>1. Init => Placement!Init
  BY EmptyList DEF Init, Placement!Init
<1>2. IInv /\ [Next]_vars => [Placement!Next]_(Placement!vars)
  BY StepKept DEF Kept
<1> QED BY <1>1, <1>2, Inductive, PTL DEF Spec, KeepsPlacement, Placement!Spec

\* As long as the process runs, a project keeps its name and the home it is
\* restored to, wherever qimm_output_project_move takes it.
THEOREM HomesAreKept == Spec => HomeKept
<1>1. IInv /\ [Next]_vars =>
        [pc' \notin Stopped =>
            \A p \in InUse : /\ name'[p] = name[p]
                             /\ output_name'[p] = output_name[p]]_vars
  BY StepKept DEF Kept, Homes
<1> QED BY <1>1, Inductive, PTL DEF Spec, HomeKept

-----------------------------------------------------------------------------
(* What is on show.                                                        *)

\* The new output shows nothing while projects are restored to it, so that the
\* project on show that comes home is on show in one place only.
Bare == At \in {"restore", "scan", "swap"} => project_cur[h.to] = NULL

\* What is on show has its layer in the scene, at any time.
LayersShown == \A s \in Slots : project_cur[s] \in layers \cup {NULL}

\* The outputs that the running handler has still to give something to show.
Unshown ==
    IF At = "load" THEN Range(outputs)
    ELSE IF At = "prepare" THEN Range(h.todo)
    ELSE IF At \in {"fill", "show"} /\ h.boot THEN {h.to} \cup Range(h.todo)
    ELSE IF At \in {"restore", "scan", "swap", "fill", "show"} THEN {h.to}
    ELSE {}

AllShown ==
    "failed" \notin faults =>
        \A s \in Range(outputs) : s \notin Unshown => project_cur[s] # NULL

-----------------------------------------------------------------------------
(* What restore has done.                                                  *)

\* A project that stays although the new output is its home is alone and on
\* show where it is.
Settled(s) ==
    \A p \in Range(projects[s]) :
        Wanted(p) => project_cur[s] = p /\ projects[s] = <<p>>

\* The outputs that restore has left behind.
Behind == {s \in Range(outputs) :
            /\ s # h.to /\ s \notin Range(h.todo)
            /\ At = "restore" \/ s # h.at}

\* The projects that the inner loop has looked at and left where they are.
Looked == {p \in Range(projects[h.at]) : p \notin Range(h.scan)}

RestoreInv ==
    /\ At \in {"restore", "scan", "swap"} => \A s \in Behind : Settled(s)
    /\ At = "scan" =>
        \A p \in Looked : p = h.old \/ (~Wanted(p) /\ h.next # NULL)
    /\ At = "swap" => \A p \in Range(projects[h.at]) : ~Wanted(p)
    /\ pc = "fill" /\ ~h.boot =>
        \A s \in Range(outputs) : s # h.to => Settled(s)

-----------------------------------------------------------------------------
(* What is on disk.                                                        *)

\* The directory of p names the home of one of the projects that share it.
OnDisk(p) == \E q \in InUse : name[q] = name[p] /\ disk[name[p]] = output_name[q]

\* Every project is on disk, or in the course of being saved.
SavedInv ==
    pc \notin Stopped /\ "failed" \notin faults =>
        \A p \in InUse :
            OnDisk(p) \/ (pc \in {"save", "write"} /\ name[p] = name[h.saving])

\* The directory n is one project, with its home, on the right output.
Found(n) ==
    \E p \in InUse :
        /\ name[p] = n /\ output_name[p] = disk[n]
        /\ \A q \in InUse : name[q] = n => q = p
        /\ IF disk[n] \in Range(wouts)
           THEN output[proj_output[p]] = disk[n]
           ELSE proj_output[p] = Head(outputs)

\* The directories that are read have become projects, each once; and the loop
\* of prepare visits fewer outputs than there are once it has begun.
LoadInv ==
    /\ pc = "load" =>
        /\ IsList(h.todo)
        /\ \A m \in Range(wouts) : \E s \in Range(outputs) : output[s] = m
        /\ \A p \in InUse : name[p] \notin Range(h.todo)
        /\ \A n \in Names : disk[n] # Missing => n \in Range(h.todo) \/ Found(n)
    /\ pc = "prepare" =>
        \/ /\ h.todo = outputs
           /\ \A n \in Names : disk[n] # Missing => Found(n)
        \/ Len(h.todo) < Len(outputs)
    /\ At \in {"fill", "show"} /\ h.boot => Len(h.todo) < Len(outputs)

Achieved == Bare /\ LayersShown /\ AllShown /\ RestoreInv /\ SavedInv /\ LoadInv

-----------------------------------------------------------------------------
(* Steps that leave the lists and what is on show alone.                   *)

\* What a quiet step leaves alone.
LEMMA QuietAll ==
    ASSUME Quiet
    PROVE  /\ UNCHANGED <<wouts, name, outputs, output, gone, projects,
                          proj_output, output_name, project_cur, layers>>
           /\ InUse' = InUse
           /\ faults' = faults \/ "failed" \in faults'
           /\ "failed" \in faults => "failed" \in faults'
BY DEF Quiet, output_vars, list_vars, show_vars, InUse

\* The file of a project is written, step by step.
LEMMA SaveAchieves == ASSUME IInv, Achieved, Save PROVE Achieved'
<1>1. /\ pc \in {"save", "write"} /\ h' = h /\ Quiet /\ At' = At
      /\ pc' \in {"write", "scan", "swap", "show"}
      /\ h.saving \in InUse
  <2>1. pc \in {"save", "write"} => h.ret \in {"scan", "swap", "show"} /\ h.saving \in InUse
    BY DEF IInv, LoopInv
  <2>2. CASE SaveOpen
    BY <2>1, <2>2 DEF SaveOpen, Quiet, At
  <2>3. CASE SaveWrite
    BY <2>1, <2>3 DEF SaveWrite, Quiet, At
  <2>4. CASE SaveFails
    BY <2>1, <2>4 DEF SaveFails, Quiet, At
  <2> QED BY <2>2, <2>3, <2>4 DEF Save
<1>2. /\ UNCHANGED <<wouts, name, outputs, output, gone, projects,
                     proj_output, output_name, project_cur, layers>>
      /\ InUse' = InUse
      /\ "failed" \in faults => "failed" \in faults'
  BY <1>1, QuietAll
<1>3. Bare' /\ LayersShown'
  BY <1>1, <1>2 DEF Achieved, Bare, LayersShown
<1>4. AllShown'
  BY <1>1, <1>2 DEF Achieved, AllShown, Unshown
<1>5. RestoreInv'
  BY <1>1, <1>2 DEF Achieved, RestoreInv, Settled, Behind, Looked, Wanted
<1>6. LoadInv'
  BY <1>1, <1>2 DEF Achieved, LoadInv
<1>7. SavedInv'
  <2>1. CASE SaveOpen
    <3>1. /\ pc' = "write" /\ faults' = faults
          /\ disk' = [disk EXCEPT ![name[h.saving]] = Torn]
      BY <2>1 DEF SaveOpen
    <3> SUFFICES ASSUME "failed" \notin faults, NEW p \in InUse,
                        name[p] # name[h.saving]
                 PROVE  OnDisk(p)'
      BY <1>1, <1>2, <3>1 DEF SavedInv
    <3>2. OnDisk(p)
      BY <1>1 DEF Achieved, SavedInv, Stopped
    <3>3. disk'[name[p]] = disk[name[p]]
      BY <3>1 DEF IInv, TypeOK
    <3> QED BY <1>2, <3>2, <3>3 DEF OnDisk
  <2>2. CASE SaveWrite
    <3>1. /\ faults' = faults
          /\ disk' = [disk EXCEPT ![name[h.saving]] = output_name[h.saving]]
      BY <2>2 DEF SaveWrite
    <3> SUFFICES ASSUME "failed" \notin faults, NEW p \in InUse
                 PROVE  OnDisk(p)'
      BY <1>2, <3>1 DEF SavedInv
    <3>2. h.saving \in Projects /\ name[h.saving] \in Names
      BY <1>1, ListTypes DEF IInv, InUse
    <3>3. CASE name[p] = name[h.saving]
      <4>1. disk'[name[p]] = output_name[h.saving]
        BY <3>1, <3>2, <3>3 DEF IInv, TypeOK
      <4> QED BY <1>1, <1>2, <3>3, <4>1 DEF OnDisk
    <3>4. CASE name[p] # name[h.saving]
      <4>1. OnDisk(p)
        BY <1>1, <3>4 DEF Achieved, SavedInv, Stopped
      <4>2. disk'[name[p]] = disk[name[p]]
        BY <3>1, <3>4 DEF IInv, TypeOK
      <4> QED BY <1>2, <4>1, <4>2 DEF OnDisk
    <3> QED BY <3>3, <3>4
  <2>3. CASE SaveFails
    BY <2>3 DEF SaveFails, SavedInv
  <2> QED BY <2>1, <2>2, <2>3 DEF Save
<1> QED BY <1>3, <1>4, <1>5, <1>6, <1>7 DEF Achieved

\* What is on disk stays when neither the disk nor the projects change.
LEMMA QuietSaved ==
    ASSUME Achieved, Quiet, disk' = disk, pc \notin {"save", "write"},
           pc \notin Stopped
    PROVE  SavedInv' /\ \A n : Found(n) => Found(n)'
<1>1. /\ UNCHANGED <<wouts, name, outputs, output, proj_output, output_name>>
      /\ InUse' = InUse
      /\ "failed" \in faults => "failed" \in faults'
  BY QuietAll
<1>2. SavedInv'
  BY <1>1 DEF Achieved, SavedInv, OnDisk
<1>3. \A n : Found(n) => Found(n)'
  BY <1>1 DEF Found
<1> QED BY <1>2, <1>3

\* The outer loop of restore goes to its next output.
LEMMA NextOutputAchieves ==
    ASSUME IInv, Achieved, RestoreNextOutput PROVE Achieved'
<1>1. /\ pc = "restore" /\ pc' = "scan" /\ Quiet /\ disk' = disk
      /\ h.todo # <<>>
      /\ h' = [h EXCEPT !.at = Head(h.todo), !.todo = Tail(h.todo),
                        !.scan = projects[Head(h.todo)],
                        !.pos = 0, !.old = NULL, !.next = NULL]
  BY DEF RestoreNextOutput, Quiet
<1>2. /\ h \in Frames /\ ~h.boot /\ h.todo \in Seq(Slots)
  BY <1>1 DEF IInv, LoopInv, At, TypeOK
<1>3. Range(h.todo) = {Head(h.todo)} \cup Range(Tail(h.todo))
  BY <1>1, <1>2, HeadTail
<1>4. /\ h'.at = Head(h.todo) /\ h'.todo = Tail(h.todo)
      /\ h'.scan = projects[Head(h.todo)]
      /\ h'.to = h.to /\ h'.boot = h.boot
  BY <1>1, <1>2 DEF Frames
<1>5. /\ UNCHANGED <<wouts, name, outputs, output, gone, projects,
                     proj_output, output_name, project_cur, layers>>
      /\ InUse' = InUse
      /\ "failed" \in faults => "failed" \in faults'
  BY <1>1, QuietAll
<1>6. Bare' /\ LayersShown' /\ AllShown'
  BY <1>1, <1>4, <1>5 DEF Achieved, Bare, LayersShown, AllShown, Unshown, At
<1>7. RestoreInv'
  <2>1. ASSUME NEW s \in Behind' PROVE Settled(s)'
    <3>1. s \in Behind
      BY <1>1, <1>3, <1>4, <1>5, <2>1 DEF Behind, At
    <3>2. Settled(s)
      BY <1>1, <3>1 DEF Achieved, RestoreInv, At
    <3> QED BY <1>4, <1>5, <3>2 DEF Settled, Wanted
  <2>2. Looked' = {}
    BY <1>4, <1>5 DEF Looked
  <2> QED BY <1>1, <2>1, <2>2 DEF RestoreInv, At
<1>8. SavedInv' /\ LoadInv'
  BY <1>1, <1>2, <1>4, QuietSaved DEF LoadInv, At, Stopped
<1> QED BY <1>6, <1>7, <1>8 DEF Achieved

\* It has visited every output but the new one.
LEMMA RestoreDoneAchieves ==
    ASSUME IInv, Achieved, RestoreDone PROVE Achieved'
<1>1. /\ pc = "restore" /\ pc' = "fill" /\ Quiet /\ disk' = disk /\ h' = h
      /\ h.todo = <<>>
  BY DEF RestoreDone, Quiet
<1>2. ~h.boot /\ Range(h.todo) = {}
  BY <1>1, EmptyList DEF IInv, LoopInv, At
<1>3. /\ UNCHANGED <<wouts, name, outputs, output, gone, projects,
                     proj_output, output_name, project_cur, layers>>
      /\ InUse' = InUse
      /\ "failed" \in faults => "failed" \in faults'
  BY <1>1, QuietAll
<1>4. Bare' /\ LayersShown' /\ AllShown'
  BY <1>1, <1>2, <1>3 DEF Achieved, Bare, LayersShown, AllShown, Unshown, At
<1>5. RestoreInv'
  <2>1. ASSUME NEW s \in Range(outputs), s # h.to PROVE Settled(s)'
    <3>1. s \in Behind
      BY <1>1, <1>2, <2>1 DEF Behind, At
    <3>2. Settled(s)
      BY <1>1, <3>1 DEF Achieved, RestoreInv, At
    <3> QED BY <1>1, <1>3, <3>2 DEF Settled, Wanted
  <2> QED BY <1>1, <1>3, <2>1 DEF RestoreInv, At
<1>6. SavedInv' /\ LoadInv'
  BY <1>1, <1>2, QuietSaved DEF LoadInv, At, Stopped
<1> QED BY <1>4, <1>5, <1>6 DEF Achieved

\* The project on show is met once, and any other one that stays may take its
\* place.
LEMMA LookAchieves ==
    ASSUME IInv, Achieved, RestoreLook PROVE Achieved'
<1> DEFINE p == Head(h.scan)
           rest == [h EXCEPT !.scan = Tail(h.scan)]
<1>1. /\ pc = "scan" /\ pc' = pc /\ Quiet /\ disk' = disk /\ h.scan # <<>>
      /\ \/ /\ Wanted(p) /\ project_cur[h.at] = p
            /\ h' = [rest EXCEPT !.pos = Len(projects[h.to]), !.old = p]
         \/ /\ ~Wanted(p)
            /\ h' = [rest EXCEPT !.next = IF TakesPlace THEN p ELSE h.next]
  BY DEF RestoreLook, Quiet
<1>2. /\ h \in Frames /\ h.scan \in Seq(Projects) /\ ~h.boot
  BY <1>1 DEF IInv, LoopInv, At, TypeOK, Frames
<1>3. /\ p \in Range(h.scan) /\ Tail(h.scan) \in Seq(Projects)
      /\ Range(h.scan) = {p} \cup Range(Tail(h.scan))
  BY <1>1, <1>2, HeadTail
<1>4. p \in Projects /\ p # NULL
  BY <1>2, <1>3, ListRange, NullAssumption
<1>5. /\ rest \in Frames /\ rest.scan = Tail(h.scan) /\ rest.at = h.at
      /\ rest.todo = h.todo /\ rest.to = h.to /\ rest.boot = h.boot
      /\ rest.pos = h.pos /\ rest.old = h.old /\ rest.next = h.next
  BY <1>2, <1>3 DEF Frames
<1> HIDE DEF p, rest
<1>6. /\ h'.scan = Tail(h.scan) /\ h'.at = h.at /\ h'.todo = h.todo
      /\ h'.to = h.to /\ h'.boot = h.boot
      /\ \/ /\ Wanted(p) /\ project_cur[h.at] = p
            /\ h'.old = p /\ h'.next = h.next
         \/ /\ ~Wanted(p) /\ h'.old = h.old
            /\ h'.next = IF TakesPlace THEN p ELSE h.next
  <2>1. CASE /\ Wanted(p) /\ project_cur[h.at] = p
             /\ h' = [rest EXCEPT !.pos = Len(projects[h.to]), !.old = p]
    BY <1>5, <2>1 DEF Frames
  <2>2. CASE /\ ~Wanted(p)
             /\ h' = [rest EXCEPT !.next = IF TakesPlace THEN p ELSE h.next]
    <3> DEFINE q == IF TakesPlace THEN p ELSE h.next
    <3>1. h' = [rest EXCEPT !.next = q]
      BY <2>2
    <3> HIDE DEF q
    <3>2. /\ h'.scan = rest.scan /\ h'.at = rest.at /\ h'.todo = rest.todo
          /\ h'.to = rest.to /\ h'.boot = rest.boot /\ h'.old = rest.old
          /\ h'.next = q
      BY <1>5, <3>1 DEF Frames
    <3> QED BY <1>5, <2>2, <3>2 DEF q
  <2> QED BY <1>1, <2>1, <2>2
<1>7. /\ UNCHANGED <<wouts, name, outputs, output, gone, projects,
                     proj_output, output_name, project_cur, layers>>
      /\ InUse' = InUse
      /\ "failed" \in faults => "failed" \in faults'
  BY <1>1, QuietAll
<1>8. Bare' /\ LayersShown' /\ AllShown'
  BY <1>1, <1>6, <1>7 DEF Achieved, Bare, LayersShown, AllShown, Unshown, At
<1>9. RestoreInv'
  <2>1. ASSUME NEW s \in Behind' PROVE Settled(s)'
    <3>1. s \in Behind
      BY <1>1, <1>6, <1>7, <2>1 DEF Behind, At
    <3>2. Settled(s)
      BY <1>1, <3>1 DEF Achieved, RestoreInv, At
    <3> QED BY <1>6, <1>7, <3>2 DEF Settled, Wanted
  <2>2. ASSUME NEW q \in Looked' PROVE q = h'.old \/ (~Wanted(q)' /\ h'.next # NULL)
    <3>1. q = p \/ q \in Looked
      BY <1>3, <1>6, <1>7, <2>2 DEF Looked
    <3>2. Wanted(q)' <=> Wanted(q)
      BY <1>6, <1>7 DEF Wanted
    <3>3. CASE q = p
      <4>1. ~Wanted(p) => h'.next # NULL
        BY <1>4, <1>6 DEF TakesPlace
      <4> QED BY <1>6, <3>2, <3>3, <4>1
    <3>4. CASE q \in Looked
      <4>1. q = h.old \/ (~Wanted(q) /\ h.next # NULL)
        BY <1>1, <3>4 DEF Achieved, RestoreInv, At
      <4>2. CASE Wanted(p)
        <5>1. h.old = NULL
          BY <1>1, <1>3, <1>6, <4>2 DEF IInv, ScanInv, At
        <5>2. q # NULL
          BY <2>2, <1>6, <1>7, <1>1, ListTypes DEF Looked, IInv, ScanInv, At
        <5> QED BY <1>6, <3>2, <4>1, <4>2, <5>1, <5>2
      <4>3. CASE ~Wanted(p)
        <5>1. h'.next # NULL
          BY <1>4, <1>6, <4>3 DEF TakesPlace
        <5> QED BY <1>6, <3>2, <4>1, <4>3, <5>1
      <4> QED BY <4>2, <4>3
    <3> QED BY <3>1, <3>3, <3>4
  <2> QED BY <1>1, <2>1, <2>2 DEF RestoreInv, At
<1>10. SavedInv' /\ LoadInv'
  BY <1>1, <1>2, <1>6, QuietSaved DEF LoadInv, At, Stopped
<1> QED BY <1>8, <1>9, <1>10 DEF Achieved

\* Nothing on the list looked at is left to go home, or it is alone.
LEMMA KeepShownAchieves ==
    ASSUME IInv, Achieved, RestoreKeepShown PROVE Achieved'
<1>1. /\ pc = "scan" /\ pc' = "restore" /\ Quiet /\ disk' = disk /\ h' = h
      /\ h.scan = <<>> /\ (h.old = NULL \/ h.next = NULL)
  BY DEF RestoreKeepShown, Quiet
<1>2. ~h.boot /\ Range(h.scan) = {}
  BY <1>1, EmptyList DEF IInv, LoopInv, At
<1>3. /\ UNCHANGED <<wouts, name, outputs, output, gone, projects,
                     proj_output, output_name, project_cur, layers>>
      /\ InUse' = InUse
      /\ "failed" \in faults => "failed" \in faults'
  BY <1>1, QuietAll
<1>4. Bare' /\ LayersShown' /\ AllShown'
  BY <1>1, <1>2, <1>3 DEF Achieved, Bare, LayersShown, AllShown, Unshown, At
<1>5. /\ h.at \in Slots
      /\ h.old # NULL => project_cur[h.at] = h.old
      /\ projects[h.at] \in Seq(Projects) /\ IsList(projects[h.at])
  BY <1>1, ListTypes DEF IInv, ScanInv, At, ListInv, ListsAgree
<1>6. \A p \in Range(projects[h.at]) : p = h.old \/ (~Wanted(p) /\ h.next # NULL)
  BY <1>1, <1>2 DEF Achieved, RestoreInv, At, Looked
<1>7. Settled(h.at)
  <2> SUFFICES ASSUME NEW p \in Range(projects[h.at]), Wanted(p)
               PROVE  project_cur[h.at] = p /\ projects[h.at] = <<p>>
    BY DEF Settled
  <2>1. p \in Projects /\ p # NULL
    BY <1>5, ListTypes DEF IInv
  <2>2. p = h.old /\ h.next = NULL
    BY <1>1, <1>6, <2>1
  <2>3. \A q \in Range(projects[h.at]) : q = p
    BY <1>6, <2>2
  <2>4. projects[h.at] = <<p>>
    <3>1. \A i \in 1..Len(projects[h.at]) : projects[h.at][i] = p
      BY <1>5, <2>3, ListRange
    <3>2. \A i, j \in 1..Len(projects[h.at]) : i = j
      BY <1>5, <3>1, ListApart
    <3>3. Len(projects[h.at]) \in Nat
      BY <1>5
    <3>4. \E i \in 1..Len(projects[h.at]) : projects[h.at][i] = p
      BY <1>5, ListRange
    <3>5. Len(projects[h.at]) = 1
      <4>1. 1 \in 1..Len(projects[h.at]) /\ Len(projects[h.at]) \in 1..Len(projects[h.at])
        BY <3>3, <3>4
      <4> QED BY <3>2, <4>1
    <3> QED BY <1>5, <2>1, <3>1, <3>5
  <2> QED BY <1>5, <2>1, <2>2, <2>4
<1>8. RestoreInv'
  <2>1. ASSUME NEW s \in Behind' PROVE Settled(s)'
    <3>1. s \in Behind \/ s = h.at
      BY <1>1, <1>3, <2>1 DEF Behind, At
    <3>2. Settled(s)
      BY <1>1, <1>7, <3>1 DEF Achieved, RestoreInv, At
    <3> QED BY <1>1, <1>3, <3>2 DEF Settled, Wanted
  <2> QED BY <1>1, <2>1 DEF RestoreInv, At
<1>9. SavedInv' /\ LoadInv'
  BY <1>1, <1>2, QuietSaved DEF LoadInv, At, Stopped
<1> QED BY <1>4, <1>8, <1>9 DEF Achieved

\* An output that has a project needs no other one.
LEMMA FillNothingAchieves ==
    ASSUME IInv, Achieved, FillNothing PROVE Achieved'
<1>1. /\ pc = "fill" /\ pc' = "show" /\ Quiet /\ disk' = disk /\ h' = h
  BY DEF FillNothing, Quiet
<1>2. /\ UNCHANGED <<wouts, name, outputs, output, gone, projects,
                     proj_output, output_name, project_cur, layers>>
      /\ InUse' = InUse
      /\ "failed" \in faults => "failed" \in faults'
  BY <1>1, QuietAll
<1>3. Bare' /\ LayersShown' /\ AllShown'
  BY <1>1, <1>2 DEF Achieved, Bare, LayersShown, AllShown, Unshown, At
<1>4. RestoreInv' /\ SavedInv' /\ LoadInv'
  BY <1>1, <1>2, QuietSaved DEF Achieved, RestoreInv, LoadInv, At, Stopped
<1> QED BY <1>3, <1>4 DEF Achieved

\* Every directory has been read.
LEMMA LoadDoneAchieves ==
    ASSUME IInv, Achieved, LoadDone PROVE Achieved'
<1>1. /\ pc = "load" /\ pc' = "prepare" /\ Quiet /\ disk' = disk
      /\ h.todo = <<>> /\ h' = [h EXCEPT !.todo = outputs]
  BY DEF LoadDone, Quiet
<1>2. h \in Frames /\ outputs \in Seq(Slots)
  BY DEF IInv, TypeOK
<1>3. h'.todo = outputs
  BY <1>1, <1>2 DEF Frames
<1>4. /\ UNCHANGED <<wouts, name, outputs, output, gone, projects,
                     proj_output, output_name, project_cur, layers>>
      /\ InUse' = InUse
      /\ "failed" \in faults => "failed" \in faults'
  BY <1>1, QuietAll
<1>5. Bare' /\ LayersShown' /\ AllShown'
  BY <1>1, <1>3, <1>4 DEF Achieved, Bare, LayersShown, AllShown, Unshown, At
<1>6. RestoreInv' /\ SavedInv'
  BY <1>1, QuietSaved DEF RestoreInv, At, Stopped
<1>7. \A n \in Names : disk[n] # Missing => Found(n)
  BY <1>1, EmptyList DEF Achieved, LoadInv
<1>8. LoadInv'
  BY <1>1, <1>3, <1>4, <1>7, QuietSaved DEF LoadInv, At, Stopped
<1> QED BY <1>5, <1>6, <1>8 DEF Achieved

\* The loop of prepare goes to its next output, or ends.
LEMMA PrepareAchieves ==
    ASSUME IInv, Achieved, Prepare PROVE Achieved'
<1>1. /\ pc = "prepare" /\ Quiet /\ disk' = disk
      /\ IF h.todo = <<>>
         THEN pc' = "idle" /\ h' = NoFrame
         ELSE /\ h' = [h EXCEPT !.to = Head(h.todo), !.todo = Tail(h.todo)]
              /\ pc' = "fill"
  BY DEF Prepare, Quiet
<1>2. /\ h \in Frames /\ h.boot /\ h.todo \in Seq(Slots)
      /\ outputs \in Seq(Slots)
  BY <1>1 DEF IInv, LoopInv, At, TypeOK
<1>3. /\ UNCHANGED <<wouts, name, outputs, output, gone, projects,
                     proj_output, output_name, project_cur, layers>>
      /\ InUse' = InUse
      /\ "failed" \in faults => "failed" \in faults'
  BY <1>1, QuietAll
<1>4. SavedInv' /\ LayersShown'
  BY <1>1, <1>3, QuietSaved DEF Achieved, LayersShown, Stopped
<1>5. CASE h.todo = <<>>
  <2>1. Range(h.todo) = {}
    BY <1>5, EmptyList
  <2>2. Bare' /\ AllShown'
    BY <1>1, <1>3, <1>5, <2>1 DEF Achieved, Bare, AllShown, Unshown, At
  <2>3. RestoreInv' /\ LoadInv'
    BY <1>1, <1>5 DEF RestoreInv, LoadInv, At
  <2> QED BY <1>4, <2>2, <2>3 DEF Achieved
<1>6. CASE h.todo # <<>>
  <2>1. Range(h.todo) = {Head(h.todo)} \cup Range(Tail(h.todo))
    BY <1>2, <1>6, HeadTail
  <2>2. /\ h'.to = Head(h.todo) /\ h'.todo = Tail(h.todo) /\ h'.boot
    BY <1>1, <1>2, <1>6 DEF Frames
  <2>3. Bare' /\ AllShown'
    BY <1>1, <1>3, <1>6, <2>1, <2>2 DEF Achieved, Bare, AllShown, Unshown, At
  <2>4. Len(Tail(h.todo)) < Len(outputs)
    <3>1. Len(h.todo) \in Nat /\ Len(outputs) \in Nat
          /\ Len(Tail(h.todo)) = Len(h.todo) - 1
      BY <1>2, <1>6
    <3>2. h.todo = outputs \/ Len(h.todo) < Len(outputs)
      BY <1>1 DEF Achieved, LoadInv
    <3> QED BY <3>1, <3>2
  <2>5. RestoreInv' /\ LoadInv'
    BY <1>1, <1>3, <1>6, <2>2, <2>4 DEF RestoreInv, LoadInv, At
  <2> QED BY <1>4, <2>3, <2>5 DEF Achieved
<1> QED BY <1>5, <1>6

-----------------------------------------------------------------------------
(* Steps that insert a project into a list.                                *)

\* A project that is inserted is about to be saved; the others stay on disk.
LEMMA InsertSaved ==
    ASSUME IInv, Achieved, NEW p \in Projects, NEW m,
           pc \notin {"save", "write"}, pc \notin Stopped,
           name[p] # NULL => name'[p] = name[p],
           \A q \in Projects \ {p} : name'[q] = name[q],
           output_name' = [output_name EXCEPT ![p] = m],
           disk' = disk, faults' = faults, pc' = "save", h'.saving = p
    PROVE  SavedInv'
<1> SUFFICES ASSUME "failed" \notin faults, NEW q \in InUse', name'[q] # name'[p]
             PROVE  OnDisk(q)'
  BY DEF SavedInv
<1>1. q \in Projects /\ q # p /\ name'[q] = name[q] /\ q \in InUse
  BY DEF InUse
<1>2. PICK r \in InUse : name[r] = name[q] /\ disk[name[q]] = output_name[r]
  BY <1>1 DEF Achieved, SavedInv, OnDisk
<1>3. r # p /\ r \in Projects
  BY <1>1, <1>2 DEF InUse
<1>4. name'[r] = name[r] /\ output_name'[r] = output_name[r] /\ r \in InUse'
  BY <1>2, <1>3, ListTypes DEF IInv, InUse
<1> QED BY <1>1, <1>2, <1>4 DEF OnDisk

\* A project that is not on show comes home.
LEMMA RestoreInsertAchieves ==
    ASSUME IInv, Achieved, RestoreInsert PROVE Achieved'
<1> DEFINE p == Head(h.scan)
           frame == [h EXCEPT !.scan = Tail(h.scan)]
<1>1. /\ pc = "scan" /\ h.scan # <<>> /\ Wanted(p) /\ project_cur[h.at] # p
      /\ Insert(frame, h.to, Len(projects[h.to]), p, "scan")
      /\ UNCHANGED <<wouts, disk, name, faults, output_vars, show_vars>>
  BY DEF RestoreInsert
<1>2. /\ h \in Frames /\ h.scan \in Seq(Projects) /\ ~h.boot
      /\ h.to \in Range(outputs) \ gone /\ h.to \in Slots
      /\ Len(projects[h.to]) \in Nat
  BY <1>1, ListTypes DEF IInv, LoopInv, At, TypeOK, Frames
<1>3. /\ h.at \in Range(outputs) \ {h.to} /\ IsList(h.scan) /\ h.at \in Slots
      /\ Range(h.scan) \subseteq Range(projects[h.at])
  BY <1>1, <1>2, ListTypes DEF IInv, ScanInv, At
<1>4. /\ p \in Range(h.scan) /\ Tail(h.scan) \in Seq(Projects)
      /\ Range(h.scan) = {p} \cup Range(Tail(h.scan))
  BY <1>1, <1>2, <1>3, HeadTail
<1>5. /\ p \in Projects /\ p \in Range(projects[h.at]) /\ p \in InUse
      /\ \A t \in Slots \ {h.at} : p \notin Range(projects[t])
  BY <1>3, <1>4, OnOneList DEF IInv
<1>6. /\ frame \in Frames /\ frame.to = h.to /\ frame.boot = h.boot
      /\ frame.todo = h.todo /\ frame.at = h.at /\ frame.scan = Tail(h.scan)
      /\ frame.old = h.old /\ frame.next = h.next
  BY <1>2, <1>4 DEF Frames
<1>7. p \notin Range(projects[h.to]) /\ Len(projects[h.to]) \in 0..Len(projects[h.to])
  BY <1>2, <1>3, <1>5
<1>8. /\ name' \in [Projects -> Names \cup {NULL}] /\ name'[p] # NULL
      /\ \A q \in Projects \ {p} : name'[q] = name[q]
      /\ UNCHANGED <<wouts, disk, faults, output_vars, show_vars>>
  BY <1>1, <1>5, ListTypes DEF IInv, InUse
<1>9. output_name[p] = output[h.to]
  BY <1>1 DEF Wanted
<1>10. /\ UNCHANGED <<name, layers, faults>>
       /\ \A t \in Slots : t # h.to =>
            projects'[t] = Unlink(projects[t], p)
  BY <1>1 DEF show_vars, Insert
<1> HIDE DEF p, frame
<1>11. /\ output_name' = [output_name EXCEPT ![p] = output[h.to]]
       /\ pc' = "save" /\ At' = "scan" /\ h'.saving = p
       /\ h'.to = h.to /\ h'.boot = h.boot /\ h'.todo = h.todo /\ h'.at = h.at
       /\ h'.scan = Tail(h.scan) /\ h'.old = h.old /\ h'.next = h.next
       /\ Moved(h.to, p)
       /\ UNCHANGED <<disk, outputs, output, gone, project_cur>>
  BY <1>1, <1>2, <1>5, <1>6, <1>7, <1>8, InsertKeeps
<1>12. output_name' = output_name
  BY <1>5, <1>9, <1>11, ListTypes DEF IInv
<1>13. Bare' /\ LayersShown' /\ AllShown'
  BY <1>1, <1>2, <1>10, <1>11 DEF Achieved, Bare, LayersShown, AllShown, Unshown, At
<1>14. \A q : Wanted(q)' <=> Wanted(q)
  BY <1>11, <1>12 DEF Wanted
<1>15. RestoreInv'
  <2>1. ASSUME NEW s \in Behind' PROVE Settled(s)'
    <3>1. s \in Behind /\ s # h.at /\ s # h.to /\ s \in Slots
      BY <1>1, <1>11, <2>1, ListTypes DEF Behind, At, IInv
    <3>2. Settled(s)
      BY <1>1, <3>1 DEF Achieved, RestoreInv, At
    <3>3. projects'[s] = projects[s]
      BY <1>5, <1>10, <3>1 DEF Unlink
    <3> QED BY <1>11, <1>14, <3>2, <3>3 DEF Settled
  <2>2. ASSUME NEW q \in Looked' PROVE q = h'.old \/ (~Wanted(q)' /\ h'.next # NULL)
    <3>1. q \in Looked
      BY <1>3, <1>4, <1>11, <2>2 DEF Looked, Moved
    <3> QED BY <1>1, <1>11, <1>14, <3>1 DEF Achieved, RestoreInv, At
  <2> QED BY <1>11, <2>1, <2>2 DEF RestoreInv
<1>16. SavedInv'
  BY <1>1, <1>5, <1>8, <1>10, <1>11, InsertSaved DEF Stopped
<1>17. LoadInv'
  BY <1>2, <1>11 DEF LoadInv
<1> QED BY <1>13, <1>15, <1>16, <1>17 DEF Achieved

\* The project on show comes home, and another one is left to take its place.
LEMMA RestoreShownAchieves ==
    ASSUME IInv, Achieved, RestoreShown PROVE Achieved'
<1>1. /\ pc = "scan" /\ h.old # NULL /\ h.next # NULL /\ h.scan = <<>>
      /\ Insert(h, h.to, h.pos, h.old, "swap")
      /\ UNCHANGED <<wouts, disk, name, faults, output_vars, show_vars>>
  BY DEF RestoreShown
<1>2. /\ h \in Frames /\ ~h.boot
      /\ h.to \in Range(outputs) \ gone /\ h.to \in Slots
      /\ Len(projects[h.to]) \in Nat /\ Range(h.scan) = {}
  BY <1>1, ListTypes, EmptyList DEF IInv, LoopInv, At, TypeOK, Frames
<1>3. /\ h.at \in Range(outputs) \ {h.to} /\ h.at \in Slots
      /\ h.pos \in 0..Len(projects[h.to])
      /\ h.old \in Range(projects[h.at])
      /\ output_name[h.old] = output[h.to]
  BY <1>1, <1>2, ListTypes DEF IInv, ScanInv, At, Frames
<1>4. /\ h.old \in Projects /\ h.old \in InUse
      /\ \A t \in Slots \ {h.at} : h.old \notin Range(projects[t])
  BY <1>3, OnOneList DEF IInv
<1>5. /\ h.old \notin Range(projects[h.to])
      /\ name' \in [Projects -> Names \cup {NULL}] /\ name'[h.old] # NULL
      /\ \A q \in Projects \ {h.old} : name'[q] = name[q]
      /\ UNCHANGED <<wouts, disk, faults, output_vars, show_vars>>
  BY <1>1, <1>2, <1>3, <1>4, ListTypes DEF IInv, InUse
<1>6. /\ UNCHANGED <<name, layers, faults>>
      /\ \A t \in Slots : t # h.to =>
            projects'[t] = Unlink(projects[t], h.old)
  BY <1>1 DEF show_vars, Insert
<1>7. /\ output_name' = [output_name EXCEPT ![h.old] = output[h.to]]
      /\ pc' = "save" /\ At' = "swap" /\ h'.saving = h.old
      /\ h'.to = h.to /\ h'.boot = h.boot /\ h'.todo = h.todo /\ h'.at = h.at
      /\ h'.old = h.old /\ Moved(h.to, h.old)
      /\ UNCHANGED <<disk, outputs, output, gone, project_cur>>
  BY <1>1, <1>2, <1>3, <1>4, <1>5, InsertKeeps
<1>8. output_name' = output_name
  BY <1>3, <1>4, <1>7, ListTypes DEF IInv
<1>9. Bare' /\ LayersShown' /\ AllShown'
  BY <1>1, <1>2, <1>6, <1>7 DEF Achieved, Bare, LayersShown, AllShown, Unshown, At
<1>10. \A q : Wanted(q)' <=> Wanted(q)
  BY <1>7, <1>8 DEF Wanted
<1>11. RestoreInv'
  <2>1. ASSUME NEW s \in Behind' PROVE Settled(s)'
    <3>1. s \in Behind /\ s # h.at /\ s # h.to /\ s \in Slots
      BY <1>1, <1>7, <2>1, ListTypes DEF Behind, At, IInv
    <3>2. Settled(s)
      BY <1>1, <3>1 DEF Achieved, RestoreInv, At
    <3>3. projects'[s] = projects[s]
      BY <1>4, <1>6, <3>1 DEF Unlink
    <3> QED BY <1>7, <1>10, <3>2, <3>3 DEF Settled
  <2>2. ASSUME NEW q \in Range(projects'[h.at]) PROVE ~Wanted(q)'
    <3>1. q \in Looked /\ q # h.old
      BY <1>2, <1>3, <1>7, <2>2 DEF Looked, Moved
    <3> QED BY <1>1, <1>10, <3>1 DEF Achieved, RestoreInv, At
  <2> QED BY <1>7, <2>1, <2>2 DEF RestoreInv
<1>12. SavedInv'
  BY <1>1, <1>4, <1>5, <1>6, <1>7, InsertSaved DEF Stopped
<1>13. LoadInv'
  BY <1>2, <1>7 DEF LoadInv
<1> QED BY <1>9, <1>11, <1>12, <1>13 DEF Achieved

\* An output without a project gets one.
LEMMA FillCreateAchieves ==
    ASSUME IInv, Achieved, FillCreate PROVE Achieved'
<1>1. PICK p \in FreeProjects :
        /\ pc = "fill" /\ projects[h.to] = <<>>
        /\ name' = [name EXCEPT ![p] =
                        IF h.boot /\ h.to = Head(outputs) THEN Dashboard
                                                          ELSE Assistant]
        /\ Insert(h, h.to, 0, p, "show")
        /\ UNCHANGED <<wouts, disk, faults, output_vars, show_vars>>
  BY DEF FillCreate
<1>2. /\ h \in Frames /\ h.to \in Range(outputs) \ gone /\ h.to \in Slots
  BY <1>1, ListTypes DEF IInv, LoopInv, At, TypeOK
<1>3. p \in Projects /\ name[p] = NULL
  BY DEF FreeProjects, InUse
<1>4. /\ name' \in [Projects -> Names \cup {NULL}] /\ name'[p] # NULL
      /\ \A q \in Projects \ {p} : name'[q] = name[q]
  BY <1>1, <1>3, ListTypes, NamesAssumption DEF IInv
<1>5. UNCHANGED <<wouts, disk, faults, output_vars, show_vars>>
  BY <1>1
<1>6. \A t \in Slots : p \notin Range(projects[t])
  BY <1>3, OnOneList DEF IInv, InUse
<1>7. PICK pos \in 0..Len(projects[h.to]) : Insert(h, h.to, pos, p, "show")
  BY <1>1
<1>8. /\ output_name' = [output_name EXCEPT ![p] = output[h.to]]
      /\ pc' = "save" /\ At' = "show" /\ h'.saving = p
      /\ h'.to = h.to /\ h'.boot = h.boot /\ h'.todo = h.todo
      /\ UNCHANGED <<disk, outputs, output, gone, project_cur>>
  BY <1>2, <1>3, <1>4, <1>5, <1>6, <1>7, InsertKeeps
<1>9. UNCHANGED <<layers, faults>>
  BY <1>5 DEF show_vars
<1>10. Bare' /\ LayersShown' /\ AllShown'
  BY <1>1, <1>8, <1>9 DEF Achieved, Bare, LayersShown, AllShown, Unshown, At
<1>11. RestoreInv'
  BY <1>8 DEF RestoreInv
<1>12. SavedInv'
  BY <1>1, <1>3, <1>4, <1>8, <1>9, InsertSaved DEF Stopped
<1>13. LoadInv'
  BY <1>1, <1>8 DEF Achieved, LoadInv, At
<1> QED BY <1>10, <1>11, <1>12, <1>13 DEF Achieved

-----------------------------------------------------------------------------
(* Steps that show a project.                                              *)

\* The layer that leaves the scene is not the one of another output.
LEMMA ShowLayers ==
    ASSUME TypeOK, ListInv, LayersShown, NEW p \in Projects, NEW s \in Slots,
           proj_output[p] = s, Show(p),
           \A t \in Slots \ {s} :
                project_cur[t] = NULL \/ project_cur[t] # project_cur[s],
           project_cur' = [project_cur EXCEPT ![s] = p]
    PROVE  LayersShown'
<1>1. CASE project_cur[s] = p
  BY <1>1 DEF Show, show_vars, LayersShown
<1>2. CASE project_cur[s] # p
  <2>1. layers' = (layers \ {project_cur[s]}) \cup {p}
    BY <1>2 DEF Show
  <2>2. /\ project_cur'[s] = p
        /\ \A t \in Slots \ {s} : project_cur'[t] = project_cur[t]
    BY ListTypes
  <2> QED BY <2>1, <2>2 DEF LayersShown
<1> QED BY <1>1, <1>2

\* The output that gives its project back shows another one.
LEMMA RestoreSwapAchieves ==
    ASSUME IInv, Achieved, RestoreSwap PROVE Achieved'
<1>1. /\ pc = "swap" /\ pc' = "restore" /\ Show(h.next)
      /\ UNCHANGED <<wouts, disk, h, name, faults, outputs, output, gone,
                     output_focus, projects, proj_output, output_name>>
  BY DEF RestoreSwap, output_vars, list_vars
<1>2. /\ h.at \in Range(outputs) \ {h.to} /\ h.at \in Slots /\ h.to \in Slots
      /\ h.next \in Range(projects[h.at]) /\ ~h.boot
      /\ h.old \in Range(projects[h.to]) /\ project_cur[h.at] = h.old
  BY <1>1, ListTypes DEF IInv, SwapInv, LoopInv, At
<1>3. /\ h.next \in Projects /\ proj_output[h.next] = h.at /\ h.next # NULL
  BY <1>2, OnOneList, ListTypes DEF IInv
<1>4. /\ project_cur' = [project_cur EXCEPT ![h.at] = h.next]
  BY <1>1, <1>2, <1>3, ShowStep DEF IInv
<1>5. /\ project_cur'[h.at] = h.next
      /\ \A t \in Slots \ {h.at} : project_cur'[t] = project_cur[t]
  BY <1>2, <1>4, ListTypes DEF IInv
<1>6. project_cur[h.to] = NULL
  BY <1>1 DEF Achieved, Bare, At
<1>7. LayersShown'
  <2>1. ASSUME NEW t \in Slots \ {h.at}, project_cur[t] # NULL
        PROVE  project_cur[t] # project_cur[h.at]
    <3>1. t # h.to
      BY <1>6, <2>1
    <3>2. project_cur[t] \in Range(projects[t])
      BY <2>1 DEF IInv, CurrentIsOwn, Swapping
    <3>3. h.old \notin Range(projects[t])
      BY <1>2, <3>1, OnOneList DEF IInv
    <3> QED BY <1>2, <3>2, <3>3
  <2> QED BY <1>1, <1>2, <1>3, <1>4, <2>1, ShowLayers DEF IInv, Achieved
<1>8. Bare' /\ AllShown'
  BY <1>1, <1>2, <1>3, <1>5, <1>6, ListTypes
     DEF Achieved, Bare, AllShown, Unshown, At, IInv
<1>9. RestoreInv'
  <2>1. ASSUME NEW s \in Behind' PROVE Settled(s)'
    <3>1. CASE s = h.at
      <4>1. \A p \in Range(projects[h.at]) : ~Wanted(p)
        BY <1>1 DEF Achieved, RestoreInv, At
      <4> QED BY <1>1, <3>1, <4>1 DEF Settled, Wanted
    <3>2. CASE s # h.at
      <4>1. s \in Behind /\ s \in Slots
        BY <1>1, <2>1, <3>2, ListTypes DEF Behind, At, IInv
      <4>2. Settled(s)
        BY <1>1, <4>1 DEF Achieved, RestoreInv, At
      <4> QED BY <1>1, <1>5, <3>2, <4>1, <4>2 DEF Settled, Wanted
    <3> QED BY <3>1, <3>2
  <2> QED BY <1>1, <2>1 DEF RestoreInv, At
<1>10. SavedInv'
  BY <1>1 DEF Achieved, SavedInv, OnDisk, InUse, Stopped
<1>11. LoadInv'
  BY <1>1, <1>2 DEF LoadInv, At
<1> QED BY <1>7, <1>8, <1>9, <1>10, <1>11 DEF Achieved

\* The output that was to be filled shows the first of its projects.
LEMMA ShowFirstAchieves ==
    ASSUME IInv, Achieved, ShowFirst PROVE Achieved'
<1> DEFINE p == Head(projects[h.to])
<1>1. /\ pc = "show" /\ Show(p)
      /\ IF h.boot THEN pc' = "prepare" /\ h' = h
                   ELSE pc' = "idle" /\ h' = NoFrame
      /\ UNCHANGED <<wouts, disk, name, faults, outputs, output, gone,
                     output_focus, projects, proj_output, output_name>>
  BY DEF ShowFirst, output_vars, list_vars
<1>2. /\ h.to \in Range(outputs) /\ h.to \in Slots
      /\ projects[h.to] # <<>> /\ projects[h.to] \in Seq(Projects)
  BY <1>1, ListTypes DEF IInv, LoopInv, At
<1>3. /\ p \in Range(projects[h.to]) /\ p \in Projects /\ proj_output[p] = h.to
      /\ p # NULL
  BY <1>2, HeadTail, OnOneList, ListTypes DEF IInv
<1> HIDE DEF p
<1>4. project_cur' = [project_cur EXCEPT ![h.to] = p]
  BY <1>1, <1>2, <1>3, ShowStep DEF IInv
<1>5. /\ project_cur'[h.to] = p
      /\ \A t \in Slots \ {h.to} : project_cur'[t] = project_cur[t]
  BY <1>2, <1>4, ListTypes DEF IInv
<1>6. LayersShown'
  <2>1. ASSUME NEW t \in Slots \ {h.to}, project_cur[t] # NULL
        PROVE  project_cur[t] # project_cur[h.to]
    <3>1. /\ project_cur[t] \in Range(projects[t])
          /\ project_cur[h.to] \in Range(projects[h.to]) \cup {NULL}
      BY <1>1, <1>2, <2>1 DEF IInv, CurrentIsOwn, Swapping
    <3>2. project_cur[t] \notin Range(projects[h.to])
      BY <1>2, <2>1, <3>1, OnOneList DEF IInv
    <3> QED BY <2>1, <3>1, <3>2
  <2> QED BY <1>1, <1>2, <1>3, <1>4, <2>1, ShowLayers DEF IInv, Achieved
<1>7. Bare' /\ RestoreInv'
  BY <1>1 DEF Bare, RestoreInv, At
<1>8. AllShown'
  <2> SUFFICES ASSUME "failed" \notin faults, NEW s \in Range(outputs),
                      s \notin Unshown'
               PROVE  project_cur'[s] # NULL
    BY <1>1 DEF AllShown
  <2>1. s \in Slots
    BY ListTypes DEF IInv
  <2>2. CASE s = h.to
    BY <1>3, <1>5, <2>2
  <2>3. CASE s # h.to
    <3>1. s \notin Unshown
      BY <1>1, <2>3 DEF Unshown, At
    <3>2. project_cur[s] # NULL
      BY <3>1 DEF Achieved, AllShown
    <3> QED BY <1>5, <2>1, <2>3, <3>2
  <2> QED BY <2>2, <2>3
<1>9. SavedInv'
  BY <1>1 DEF Achieved, SavedInv, OnDisk, InUse, Stopped
<1>10. LoadInv'
  BY <1>1 DEF Achieved, LoadInv, At
<1> QED BY <1>6, <1>7, <1>8, <1>9, <1>10 DEF Achieved

-----------------------------------------------------------------------------
(* The end of the process.                                                 *)

\* When the process has ended, nothing is left to achieve.
LEMMA EndedAchieves == Ended => Achieved
<1> SUFFICES ASSUME Ended PROVE Achieved
  OBVIOUS
<1>1. /\ pc \in Stopped /\ At = pc /\ Range(outputs) = {}
      /\ \A s \in Slots : project_cur[s] = NULL
  BY EmptyList DEF Ended, At, Stopped
<1>2. Bare /\ LayersShown /\ AllShown
  BY <1>1 DEF Bare, LayersShown, AllShown, Stopped
<1>3. RestoreInv /\ SavedInv /\ LoadInv
  BY <1>1 DEF RestoreInv, SavedInv, LoadInv, Stopped
<1> QED BY <1>2, <1>3 DEF Achieved

\* So it is before the first start.
LEMMA InitAchieves == Init => Achieved
<1>1. Init => Ended
  BY DEF Init, Ended, Stopped
<1> QED BY <1>1, EndedAchieves

\* A process that exits.
LEMMA ExitAchieves ==
    ASSUME NEW how \in Stopped, Exit(how) PROVE Achieved'
<1>1. Ended'
  BY DEF Ended, Exit
<1> QED BY <1>1, EndedAchieves, PTL

\* Failed loading, the end of the shell, and a kill.
LEMMA EndsAchieves ==
    ASSUME LoadFails \/ LoadNowhere \/ Shutdown \/ Crash PROVE Achieved'
<1>1. \E how \in Stopped : Exit(how)
  BY DEF LoadFails, LoadNowhere, Shutdown, Crash, Stopped
<1> QED BY <1>1, ExitAchieves

\* A new output stays without a project, and the failure is remembered.
LEMMA FillFailsAchieves ==
    ASSUME IInv, Achieved, FillFails PROVE Achieved'
<1>1. CASE h.boot
  <2>1. Exit("failed")
    BY <1>1 DEF FillFails
  <2> QED BY <2>1, ExitAchieves DEF Stopped
<1>2. CASE ~h.boot
  <2>1. /\ pc' = "idle" /\ "failed" \in faults'
        /\ UNCHANGED <<project_cur, layers>>
    BY <1>2 DEF FillFails, show_vars
  <2>2. Bare' /\ LayersShown' /\ AllShown'
    BY <2>1 DEF Achieved, Bare, LayersShown, AllShown, At
  <2>3. RestoreInv' /\ SavedInv' /\ LoadInv'
    BY <2>1 DEF RestoreInv, SavedInv, LoadInv, At
  <2> QED BY <2>2, <2>3 DEF Achieved
<1> QED BY <1>1, <1>2

-----------------------------------------------------------------------------
(* Outputs come and go.                                                    *)

\* A new output shows nothing, and restore has left none behind.
LEMMA OutputCreatedAchieves ==
    ASSUME IInv, Achieved, NEW m \in Monitors, OutputCreated(m)
    PROVE  Achieved'
<1>1. PICK s \in FreeSlots :
        /\ pc = "idle" /\ pc' = "restore" /\ outputs' = Append(outputs, s)
        /\ h' = [NoFrame EXCEPT !.to = s, !.todo = outputs]
        /\ UNCHANGED <<disk, name, faults, projects, output_name,
                       project_cur, layers>>
  BY DEF OutputCreated, list_vars, show_vars
<1>2. s \in Slots /\ s \notin Range(outputs) /\ outputs \in Seq(Slots)
  BY ListTypes DEF FreeSlots, IInv
<1>3. Range(outputs') = Range(outputs) \cup {s}
  BY <1>1, <1>2, AppendList
<1>4. h'.to = s /\ h'.todo = outputs /\ ~h'.boot
  <2>1. h' = [[NoFrame EXCEPT !.to = s] EXCEPT !.todo = outputs]
    BY <1>1
  <2> QED BY <1>2, <2>1, NoFrameType DEF Frames
<1>5. project_cur[s] = NULL
  <2>1. Range(projects[s]) = {}
    BY <1>2, FreeSlotEmpty, EmptyList DEF IInv
  <2> QED BY <1>1, <1>2, <2>1 DEF IInv, CurrentIsOwn, Swapping
<1>6. Bare' /\ LayersShown'
  BY <1>1, <1>4, <1>5 DEF Achieved, Bare, LayersShown
<1>7. AllShown'
  BY <1>1, <1>3, <1>4 DEF Achieved, AllShown, Unshown, At
<1>8. RestoreInv'
  BY <1>1, <1>3, <1>4 DEF RestoreInv, Behind, At
<1>9. SavedInv'
  BY <1>1 DEF Achieved, SavedInv, OnDisk, InUse, Stopped
<1>10. LoadInv'
  BY <1>1, <1>4 DEF LoadInv, At
<1> QED BY <1>6, <1>7, <1>8, <1>9, <1>10 DEF Achieved

\* The outputs that stay show what they showed.
LEMMA OutputDestroyedAchieves ==
    ASSUME IInv, Achieved, NEW s \in Slots, OutputDestroyed(s)
    PROVE  Achieved'
<1>1. /\ pc = "idle" /\ pc' = pc /\ h' = h
      /\ UNCHANGED <<disk, name, layers, output_name>>
      /\ "failed" \in faults => "failed" \in faults'
      /\ \/ outputs' = outputs /\ project_cur' = project_cur
         \/ /\ outputs' = Unlink(outputs, s)
            /\ project_cur' = [project_cur EXCEPT ![s] = NULL]
  BY DEF OutputDestroyed, Destroy, MoveProjects, list_vars
<1>2. /\ Range(outputs') \subseteq Range(outputs)
      /\ project_cur'[s] \in {project_cur[s], NULL}
      /\ \A t \in Slots \ {s} : project_cur'[t] = project_cur[t]
      /\ s \in Range(outputs') => project_cur'[s] = project_cur[s]
  <2>1. outputs \in Seq(Slots) /\ IsList(outputs)
    BY ListTypes DEF IInv, ListInv, Row
  <2>2. Range(Unlink(outputs, s)) = Range(outputs) \ {s}
    BY <2>1, UnlinkList
  <2> QED BY <1>1, <2>2, ListTypes DEF IInv
<1>3. Bare' /\ RestoreInv' /\ LoadInv'
  BY <1>1 DEF Bare, RestoreInv, LoadInv, At
<1>4. LayersShown'
  BY <1>1, <1>2 DEF Achieved, LayersShown
<1>5. AllShown'
  <2> SUFFICES ASSUME "failed" \notin faults', NEW t \in Range(outputs')
               PROVE  project_cur'[t] # NULL
    BY DEF AllShown
  <2>1. t \in Range(outputs) /\ t \in Slots /\ project_cur'[t] = project_cur[t]
    BY <1>2, ListTypes DEF IInv
  <2>2. t \notin Unshown
    BY <1>1 DEF Unshown, At
  <2> QED BY <1>1, <2>1, <2>2 DEF Achieved, AllShown
<1>6. SavedInv'
  BY <1>1 DEF Achieved, SavedInv, OnDisk, InUse, Stopped
<1> QED BY <1>3, <1>4, <1>5, <1>6 DEF Achieved

-----------------------------------------------------------------------------
(* The start, which reads the directories into projects.                   *)

\* A start has achieved nothing, and has nothing to show yet.
LEMMA StartAchieves == ASSUME IInv, Achieved, Start PROVE Achieved'
<1>1. PICK dirs \in Lists(Names) :
        /\ pc \in Stopped /\ pc' = "load"
        /\ wouts' \in Lists(Monitors)
        /\ outputs' \in Lists(Slots) /\ Len(outputs') = Len(wouts')
        /\ output' = [s \in Slots |-> IF s \in Range(outputs')
                                      THEN wouts'[IndexOf(outputs', s)] ELSE NULL]
        /\ Range(dirs) = {n \in Names : disk[n] # Missing}
        /\ h' = [NoFrame EXCEPT !.boot = TRUE, !.todo = dirs]
        /\ UNCHANGED <<disk, name, faults, project_cur, layers>>
  BY DEF Start, list_vars, show_vars
<1>2. InUse' = {}
  <2>1. Range(outputs) = {}
    BY <1>1, EmptyList DEF IInv, StoppedEmpty
  <2>2. \A p \in Projects : name[p] = NULL
    BY <2>1 DEF IInv, ListInv, Placed
  <2> QED BY <1>1, <2>2 DEF InUse
<1>3. /\ outputs' \in Seq(Slots) /\ IsList(outputs')
      /\ wouts' \in Seq(Monitors)
      /\ dirs \in Seq(Names) /\ IsList(dirs)
  BY <1>1, ListsAreLists
<1>4. h'.todo = dirs
  <2>1. h' = [[NoFrame EXCEPT !.boot = TRUE] EXCEPT !.todo = dirs]
    BY <1>1
  <2> QED BY <1>3, <2>1, NoFrameType DEF Frames
<1>5. Bare' /\ LayersShown' /\ AllShown' /\ RestoreInv'
  BY <1>1 DEF Achieved, Bare, LayersShown, AllShown, Unshown, RestoreInv, At
<1>6. SavedInv'
  BY <1>2 DEF SavedInv
<1>7. ASSUME NEW m \in Range(wouts')
      PROVE  \E s \in Range(outputs') : output'[s] = m
  <2>1. PICK i \in 1..Len(wouts') : wouts'[i] = m
    BY <1>3, ListRange
  <2>2. i \in 1..Len(outputs')
    BY <1>1
  <2>3. /\ outputs'[i] \in Range(outputs') /\ outputs'[i] \in Slots
        /\ IndexOf(outputs', outputs'[i]) \in 1..Len(outputs')
        /\ outputs'[IndexOf(outputs', outputs'[i])] = outputs'[i]
    BY <1>3, <2>2, ListRange, IndexOfList
  <2>4. IndexOf(outputs', outputs'[i]) = i
    BY <1>3, <2>2, <2>3, ListApart
  <2> QED BY <1>1, <2>1, <2>3, <2>4
<1>8. LoadInv'
  <2>1. \A n \in Names : disk[n] # Missing => n \in Range(dirs)
    BY <1>1
  <2> QED BY <1>1, <1>2, <1>3, <1>4, <1>7, <2>1 DEF LoadInv, At
<1> QED BY <1>5, <1>6, <1>8 DEF Achieved

\* The project that is read has the home its directory names, on the output of
\* that name when there is one.
LEMMA LoadProjectAchieves ==
    ASSUME IInv, Achieved, LoadProject PROVE Achieved'
<1> DEFINE n == Head(h.todo)
           to == OutputNamed(disk[n])
<1>1. PICK p \in FreeProjects :
        /\ pc = "load" /\ pc' = pc /\ h.todo # <<>> /\ outputs # <<>>
        /\ name' = [name EXCEPT ![p] = n]
        /\ proj_output' = [proj_output EXCEPT ![p] = to]
        /\ output_name' = [output_name EXCEPT ![p] = disk[n]]
        /\ h' = [h EXCEPT !.todo = Tail(h.todo)]
        /\ UNCHANGED <<wouts, disk, faults, outputs, output, gone,
                       project_cur, layers>>
  BY DEF LoadProject, output_vars, show_vars
<1>2. /\ h \in Frames /\ h.todo \in Seq(Names) /\ gone = {}
  BY <1>1 DEF IInv, LoopInv, At, TypeOK
<1>3. /\ IsList(h.todo)
      /\ \A m \in Range(wouts) : \E s \in Range(outputs) : output[s] = m
      /\ \A q \in InUse : name[q] \notin Range(h.todo)
      /\ \A k \in Names : disk[k] # Missing => k \in Range(h.todo) \/ Found(k)
  BY <1>1 DEF Achieved, LoadInv
<1>4. /\ n \in Range(h.todo) /\ Tail(h.todo) \in Seq(Names)
      /\ Range(h.todo) = {n} \cup Range(Tail(h.todo))
      /\ IsList(Tail(h.todo)) /\ n \notin Range(Tail(h.todo))
  BY <1>1, <1>2, <1>3, HeadTail
<1>5. n \in Names /\ n # NULL
  BY <1>2, <1>4, ListRange, ListTypes DEF IInv
<1>6. p \in Projects /\ p \notin InUse
  BY DEF FreeProjects
<1>7. IF disk[n] \in Range(wouts) THEN output[to] = disk[n] ELSE to = Head(outputs)
  <2>1. CASE disk[n] \in Range(wouts)
    <3>1. \E s \in Range(outputs) : output[s] = disk[n]
      BY <1>3, <2>1
    <3> QED BY <2>1, <3>1 DEF OutputNamed
  <2>2. CASE disk[n] \notin Range(wouts)
    <3>1. \A s \in Range(outputs) : output[s] \in Range(wouts)
      BY <1>2, ListTypes DEF IInv, ListInv, Row, Live
    <3> QED BY <2>2, <3>1 DEF OutputNamed
  <2> QED BY <2>1, <2>2
<1> HIDE DEF n, to
<1>8. h'.todo = Tail(h.todo)
  BY <1>1, <1>2, <1>4 DEF Frames
<1>9. /\ name'[p] = n /\ output_name'[p] = disk[n] /\ proj_output'[p] = to
      /\ \A q \in Projects \ {p} : /\ name'[q] = name[q]
                                   /\ output_name'[q] = output_name[q]
                                   /\ proj_output'[q] = proj_output[q]
  BY <1>1, <1>6, ListTypes DEF IInv
<1>10. InUse' = InUse \cup {p}
  BY <1>5, <1>6, <1>9 DEF InUse
<1>11. \A q \in InUse : q # p /\ q \in Projects
  BY <1>6 DEF InUse
<1>12. Bare' /\ LayersShown' /\ AllShown' /\ RestoreInv'
  BY <1>1 DEF Achieved, Bare, LayersShown, AllShown, Unshown, RestoreInv, At
<1>13. SavedInv'
  <2> SUFFICES ASSUME "failed" \notin faults, NEW q \in InUse'
               PROVE  OnDisk(q)'
    BY <1>1 DEF SavedInv
  <2>1. CASE q = p
    BY <1>1, <1>9, <1>10, <2>1 DEF OnDisk
  <2>2. CASE q # p
    <3>1. q \in InUse /\ OnDisk(q)
      BY <1>1, <1>10, <2>2 DEF Achieved, SavedInv, Stopped
    <3> QED BY <1>1, <1>9, <1>10, <1>11, <3>1 DEF OnDisk
  <2> QED BY <2>1, <2>2
<1>14. ASSUME NEW k \in Names, k = n PROVE Found(k)'
  <2>1. \A q \in InUse' : name'[q] = k => q = p
    BY <1>3, <1>4, <1>9, <1>10, <1>11, <1>14
  <2>2. IF disk'[k] \in Range(wouts')
        THEN output'[proj_output'[p]] = disk'[k]
        ELSE proj_output'[p] = Head(outputs')
    BY <1>1, <1>7, <1>9, <1>14
  <2> QED BY <1>1, <1>9, <1>10, <1>14, <2>1, <2>2 DEF Found
<1>15. ASSUME NEW k \in Names, k # n, Found(k) PROVE Found(k)'
  <2>1. PICK q \in InUse :
          /\ name[q] = k /\ output_name[q] = disk[k]
          /\ \A r \in InUse : name[r] = k => r = q
          /\ IF disk[k] \in Range(wouts)
             THEN output[proj_output[q]] = disk[k]
             ELSE proj_output[q] = Head(outputs)
    BY <1>15 DEF Found
  <2>2. \A r \in InUse' : name'[r] = k => r = q
    BY <1>9, <1>10, <1>11, <1>15, <2>1
  <2> QED BY <1>1, <1>9, <1>10, <1>11, <2>1, <2>2 DEF Found
<1>16. LoadInv'
  <2>1. \A q \in InUse' : name'[q] \notin Range(h'.todo)
    BY <1>3, <1>4, <1>8, <1>9, <1>10, <1>11
  <2>2. \A k \in Names : disk'[k] # Missing => k \in Range(h'.todo) \/ Found(k)'
    BY <1>1, <1>3, <1>4, <1>8, <1>14, <1>15
  <2> QED BY <1>1, <1>3, <1>4, <1>8, <2>1, <2>2 DEF LoadInv, At
<1> QED BY <1>12, <1>13, <1>16 DEF Achieved

-----------------------------------------------------------------------------
(* The theorems.                                                           *)

\* Every step keeps what is achieved: one lemma per action.
LEMMA StepAchieves == ASSUME IInv, Achieved, [Next]_vars PROVE Achieved'
<1>1. CASE UNCHANGED vars
  <2>1. UNCHANGED <<wouts, disk, outputs, output, projects, project_cur, name,
                    proj_output, output_name, layers, pc, h, faults>>
    BY <1>1 DEF vars
  <2>2. Bare' /\ LayersShown' /\ AllShown'
    BY <2>1 DEF Achieved, Bare, LayersShown, AllShown, Unshown, At
  <2>3. RestoreInv'
    BY <2>1 DEF Achieved, RestoreInv, Settled, Behind, Looked, Wanted, At
  <2>4. SavedInv'
    BY <2>1 DEF Achieved, SavedInv, OnDisk, InUse
  <2>5. LoadInv'
    BY <2>1 DEF Achieved, LoadInv, Found, InUse, At
  <2> QED BY <2>2, <2>3, <2>4, <2>5 DEF Achieved
<1>2. CASE Save
  BY <1>2, SaveAchieves
<1>3. CASE Restore
  BY <1>3, NextOutputAchieves, RestoreDoneAchieves, RestoreInsertAchieves,
     LookAchieves, RestoreShownAchieves, RestoreSwapAchieves, KeepShownAchieves
     DEF Restore
<1>4. CASE Fill
  BY <1>4, FillCreateAchieves, FillFailsAchieves, FillNothingAchieves,
     ShowFirstAchieves DEF Fill
<1>5. CASE Load
  BY <1>5, LoadProjectAchieves, LoadDoneAchieves, PrepareAchieves, EndsAchieves
     DEF Load
<1>6. CASE Event
  BY <1>6, OutputCreatedAchieves, OutputDestroyedAchieves, StartAchieves,
     EndsAchieves DEF Event
<1> QED BY <1>1, <1>2, <1>3, <1>4, <1>5, <1>6 DEF Next, Run

\* What the handlers achieve holds in every state the shell reaches.
THEOREM AlwaysAchieved == Spec => [](IInv /\ Achieved)
BY InitInv, StepInv, InitAchieves, StepAchieves, PTL DEF Spec

\* The layouts of what an output shows were placed for that output: nothing is
\* shown elsewhere while an output still shows it.
LaidOut == \A s \in Slots : project_cur[s] # NULL => layouted[project_cur[s]] = s

\* Showing a project takes it away from no other output.
LEMMA ShowLaidOut ==
    ASSUME IInv, LaidOut, NEW p \in Projects, NEW s \in Range(outputs),
           proj_output[p] = s, Show(p), (pc = "swap" /\ s = h.at) \/ pc = "show"
    PROVE  LaidOut'
<1>1. CASE project_cur[s] = p
  BY <1>1 DEF Show, show_vars, LaidOut
<1>2. CASE project_cur[s] # p
  <2>1. /\ project_cur' = [project_cur EXCEPT ![s] = p]
        /\ layouted' = [layouted EXCEPT ![p] = s]
    BY <1>2 DEF Show, PlaceLayouts
  <2>2. s \in Slots /\ layouted \in [Projects -> Slots \cup {NULL}]
    BY ListTypes DEF IInv, TypeOK
  <2>3. ASSUME NEW t \in Slots, t # s PROVE project_cur[t] # p
    <3>1. p \notin Range(projects[t])
      BY <2>3 DEF IInv, ListInv, ListsAgree
    <3>2. ~Swapping(t)
      BY <2>3 DEF Swapping
    <3>3. p # NULL
      BY NullAssumption
    <3> QED BY <2>3, <3>1, <3>2, <3>3 DEF IInv, CurrentIsOwn
  <2>4. project_cur \in [Slots -> Projects \cup {NULL}]
    BY ListTypes DEF IInv
  <2> QED BY <2>1, <2>2, <2>3, <2>4 DEF LaidOut
<1> QED BY <1>1, <1>2

\* Every other step of a process shows nothing new, and clears at most what an
\* output shows.
LEMMA LaidOutStep == ASSUME IInv, LaidOut, [Next]_vars PROVE LaidOut'
<1>1. CASE UNCHANGED <<project_cur, layouted>>
  BY <1>1 DEF LaidOut
<1>2. CASE \E how \in Stopped : Exit(how)
  BY <1>2 DEF LaidOut, Exit
<1>3. CASE RestoreSwap
  <2>1. /\ pc = "swap" /\ Show(h.next)
        /\ h.at \in Range(outputs) /\ h.next \in Range(projects[h.at])
    BY <1>3 DEF RestoreSwap, IInv, SwapInv, At
  <2>2. h.next \in Projects /\ proj_output[h.next] = h.at
    BY <2>1, OnOneList, ListTypes DEF IInv
  <2> QED BY <2>1, <2>2, ShowLaidOut
<1>4. CASE ShowFirst
  <2> DEFINE p == Head(projects[h.to])
  <2>1. /\ pc = "show" /\ Show(p)
        /\ h.to \in Range(outputs) /\ h.to \in Slots
        /\ projects[h.to] # <<>> /\ projects[h.to] \in Seq(Projects)
    BY <1>4, ListTypes DEF ShowFirst, IInv, LoopInv, At
  <2>2. p \in Projects /\ proj_output[p] = h.to
    BY <2>1, HeadTail, OnOneList DEF IInv
  <2> HIDE DEF p
  <2> QED BY <2>1, <2>2, ShowLaidOut
<1>5. ASSUME NEW s \in Slots, OutputDestroyed(s) PROVE LaidOut'
  <2>1. layouted' = layouted /\ project_cur' \in {project_cur, [project_cur EXCEPT ![s] = NULL]}
    BY <1>5 DEF OutputDestroyed, Destroy, list_vars
  <2> QED BY <2>1, ListTypes DEF IInv, LaidOut
<1>6. CASE Save
  BY <1>1, <1>6 DEF Save, SaveOpen, SaveWrite, SaveFails, show_vars
<1>7. CASE Restore
  BY <1>1, <1>3, <1>7 DEF Restore, RestoreNextOutput, RestoreDone, RestoreInsert,
     RestoreLook, RestoreShown, RestoreKeepShown, show_vars
<1>8. CASE Fill
  BY <1>1, <1>2, <1>4, <1>8 DEF Fill, FillCreate, FillFails, FillNothing, show_vars, Stopped
<1>9. CASE Load
  BY <1>1, <1>2, <1>9 DEF Load, LoadProject, LoadFails, LoadNowhere, LoadDone, Prepare,
     show_vars, Stopped
<1>10. CASE Event
  BY <1>1, <1>2, <1>5, <1>10 DEF Event, OutputCreated, Start, Shutdown, Crash, show_vars, Stopped
<1>11. CASE UNCHANGED vars
  BY <1>1, <1>11 DEF vars
<1> QED BY <1>6, <1>7, <1>8, <1>9, <1>10, <1>11 DEF Next, Run

\* However many outputs come and go, when nothing failed every output of a
\* shell at rest shows a project, whose layer is in the scene and whose layouts
\* were placed for that output.
THEOREM EveryOutputAlwaysShows == Spec => []EveryOutputShows
<1>1. Init => LaidOut
  BY DEF Init, LaidOut
<1>2. IInv /\ LaidOut /\ [Next]_vars => LaidOut'
  BY LaidOutStep
<1>3. IInv /\ Achieved /\ LaidOut => EveryOutputShows
  <2> SUFFICES ASSUME IInv, Achieved, LaidOut, pc = "idle", NEW s \in Range(outputs)
               PROVE  /\ "failed" \in faults \/ project_cur[s] # NULL
                      /\ project_cur[s] \in layers \cup {NULL}
                      /\ project_cur[s] # NULL => layouted[project_cur[s]] = s
    BY DEF EveryOutputShows
  <2>1. s \in Slots /\ Unshown = {}
    BY ListTypes DEF Unshown, At, IInv
  <2> QED BY <2>1 DEF Achieved, AllShown, LayersShown, LaidOut
<1> QED BY <1>1, <1>2, <1>3, AlwaysAchieved, PTL DEF Spec

\* When restore ends, a project that is still away from the new output, its
\* home, is alone and on show where it is.
THEOREM RestoreAlwaysComplete == Spec => []RestoreComplete
<1>1. IInv /\ Achieved => RestoreComplete
  <2> SUFFICES ASSUME IInv, Achieved, pc = "fill", ~h.boot, NEW p \in InUse,
                      Wanted(p), proj_output[p] # h.to
               PROVE  /\ project_cur[proj_output[p]] = p
                      /\ projects[proj_output[p]] = <<p>>
    BY DEF RestoreComplete
  <2>1. p \in Projects /\ proj_output[p] \in Range(outputs)
    BY DEF IInv, ListInv, Placed, InUse
  <2>2. p \in Range(projects[proj_output[p]])
    BY <2>1, ListTypes DEF IInv, ListInv, ListsAgree
  <2>3. Settled(proj_output[p])
    BY <2>1 DEF Achieved, RestoreInv
  <2> QED BY <2>2, <2>3 DEF Settled
<1> QED BY <1>1, AlwaysAchieved, PTL

\* What a shell at rest has on disk names the home of every project, and the
\* next process finds every directory there, with its home, on its output.
THEOREM HomesAlwaysSaved == Spec => []HomesSaved
<1>1. IInv /\ Achieved => DiskUpToDate
  <2> SUFFICES ASSUME IInv, Achieved, pc = "idle", "failed" \notin faults,
                      NEW p \in InUse
               PROVE  disk[name[p]] \in
                        {output_name[q] : q \in {r \in InUse : name[r] = name[p]}}
    BY DEF DiskUpToDate
  <2>1. OnDisk(p)
    BY DEF Achieved, SavedInv, Stopped
  <2> QED BY <2>1 DEF OnDisk
<1>2. IInv /\ Achieved => LoadedHome
  <2> SUFFICES ASSUME IInv, Achieved, pc = "prepare", h.todo = outputs
               PROVE  \A n \in Names : disk[n] # Missing => Found(n)
    BY DEF LoadedHome, Found
  <2>1. Len(outputs) \in Nat
    BY ListTypes DEF IInv
  <2> QED BY <2>1 DEF Achieved, LoadInv
<1> QED BY <1>1, <1>2, AlwaysAchieved, PTL DEF HomesSaved
-----------------------------------------------------------------------------
(* The order of the search.                                                *)

\* The recursion of FlattenSeq, which joins one list after the other.
LEMMA Flattening ==
    ASSUME NEW P, NEW ss \in Seq(Seq(P)), Len(ss) # 0
    PROVE  \E f \in [1..Len(ss) -> Seq(P)] :
            /\ f[1] = ss[1]
            /\ \A i \in 2..Len(ss) : f[i] = f[i - 1] \o ss[i]
            /\ Seqs!FlattenSeq(ss) = f[Len(ss)]
<1> DEFINE n == Len(ss)
           Following(f, i) == IF i = 1 THEN ss[i] ELSE f[i - 1] \o ss[i]
           S == {k \in 1..n : \E g \in [1..k -> Seq(P)] :
                                \A i \in 1..k : g[i] = Following(g, i)}
           flatten == CHOOSE f : f = [i \in 1..n |-> Following(f, i)]
<1>0. n \in Nat /\ n >= 1 /\ \A i \in 1..n : ss[i] \in Seq(P)
  OBVIOUS
<1>1. 1 \in S
  <2> DEFINE g == [i \in 1..1 |-> ss[1]]
  <2>1. g \in [1..1 -> Seq(P)] /\ \A i \in 1..1 : g[i] = Following(g, i)
    BY <1>0
  <2>2. 1 \in 1..n
    BY <1>0
  <2> HIDE DEF g
  <2> QED BY <2>1, <2>2
<1>2. ASSUME NEW k \in 1..n, k \in S, k + 1 =< n PROVE k + 1 \in S
  <2>1. PICK g \in [1..k -> Seq(P)] : \A i \in 1..k : g[i] = Following(g, i)
    BY <1>2
  <2> DEFINE e == [i \in 1..k + 1 |-> IF i = k + 1 THEN g[k] \o ss[k + 1] ELSE g[i]]
  <2>2. k \in Nat /\ k >= 1 /\ k \in 1..k /\ k + 1 \in 1..n
    BY <1>0, <1>2
  <2>3. g[k] \o ss[k + 1] \in Seq(P)
    BY <1>0, <2>2, ConcatProperties
  <2>4. e \in [1..k + 1 -> Seq(P)]
    BY <2>2, <2>3
  <2>5. ASSUME NEW i \in 1..k + 1 PROVE e[i] = Following(e, i)
    <3>1. CASE i = k + 1
      <4>1. i # 1 /\ i - 1 = k /\ k \in 1..k + 1 /\ k # k + 1
        BY <2>2, <3>1
      <4> QED BY <3>1, <4>1
    <3>2. CASE i # k + 1
      <4>1. i \in 1..k
        BY <2>2, <3>2
      <4>2. e[i] = Following(g, i)
        BY <2>1, <3>2, <4>1
      <4>3. i # 1 => i - 1 \in 1..k + 1 /\ i - 1 # k + 1
        BY <2>2, <4>1
      <4>4. i # 1 => e[i - 1] = g[i - 1]
        BY <4>3
      <4> QED BY <4>2, <4>4
    <3> QED BY <3>1, <3>2
  <2> QED BY <2>2, <2>4, <2>5
<1>3. n \in S
  <2> HIDE DEF S
  <2>1. 1..n \subseteq S
    BY <1>0, <1>1, <1>2, CountUp
  <2>2. n \in 1..n
    BY <1>0
  <2> QED BY <2>1, <2>2
<1>4. flatten = [i \in 1..n |-> Following(flatten, i)]
  <2>1. PICK g \in [1..n -> Seq(P)] : \A i \in 1..n : g[i] = Following(g, i)
    BY <1>3
  <2>2. g = [i \in 1..n |-> Following(g, i)]
    BY <2>1
  <2> QED BY <2>2
<1>5. Seqs!FlattenSeq(ss) = flatten[n]
  BY DEF Seqs!FlattenSeq
<1> HIDE DEF flatten
<1>6. 1..n \subseteq {k \in 1..n : flatten[k] \in Seq(P)}
  <2> DEFINE T == {k \in 1..n : flatten[k] \in Seq(P)}
  <2>1. 1 \in T
    BY <1>0, <1>4
  <2>2. ASSUME NEW k \in 1..n, k \in T, k + 1 =< n PROVE k + 1 \in T
    <3>1. k + 1 \in 1..n /\ k + 1 # 1 /\ (k + 1) - 1 = k
      BY <1>0, <2>2
    <3>2. flatten[k + 1] = flatten[k] \o ss[k + 1]
      BY <1>4, <3>1
    <3>3. flatten[k + 1] \in Seq(P)
      BY <1>0, <2>2, <3>1, <3>2, ConcatProperties
    <3> QED BY <3>1, <3>3
  <2> HIDE DEF T
  <2>3. 1..n \subseteq T
    BY <1>0, <2>1, <2>2, CountUp
  <2> QED BY <2>3 DEF T
<1>7. flatten \in [1..n -> Seq(P)]
  BY <1>4, <1>6
<1>8. \A i \in 2..n : i \in 1..n /\ i # 1
  BY <1>0
<1>9. 1 \in 1..n
  BY <1>0
<1>10. flatten[1] = ss[1] /\ \A i \in 2..n : flatten[i] = flatten[i - 1] \o ss[i]
  <2>1. \A i \in 1..n : flatten[i] = Following(flatten, i)
    BY <1>4
  <2> QED BY <1>8, <1>9, <2>1
<1> QED BY <1>5, <1>7, <1>10

\* The elements of lists that are joined are those of all of them.
LEMMA Joined ==
    ASSUME NEW P, NEW ss \in Seq(Seq(P))
    PROVE  /\ Seqs!FlattenSeq(ss) \in Seq(P)
           /\ Range(Seqs!FlattenSeq(ss)) = UNION {Range(ss[i]) : i \in 1..Len(ss)}
<1>1. CASE Len(ss) = 0
  <2>1. Seqs!FlattenSeq(ss) = <<>> /\ ss = <<>> /\ 1..Len(ss) = {}
    BY <1>1, EmptySeq DEF Seqs!FlattenSeq
  <2> QED BY <2>1 DEF Range
<1>2. CASE Len(ss) # 0
  <2> DEFINE n == Len(ss)
  <2>1. PICK f \in [1..n -> Seq(P)] :
            /\ f[1] = ss[1]
            /\ \A i \in 2..n : f[i] = f[i - 1] \o ss[i]
            /\ Seqs!FlattenSeq(ss) = f[n]
    BY <1>2, Flattening
  <2>2. n \in Nat /\ n >= 1 /\ \A i \in 1..n : ss[i] \in Seq(P)
    BY <1>2
  <2> DEFINE T == {k \in 1..n : Range(f[k]) = UNION {Range(ss[i]) : i \in 1..k}}
  <2>3. 1 \in T
    <3>1. 1 \in 1..n /\ 1..1 = {1}
      BY <2>2
    <3> QED BY <2>1, <3>1
  <2>4. ASSUME NEW k \in 1..n, k \in T, k + 1 =< n PROVE k + 1 \in T
    <3>1. k + 1 \in 2..n /\ (k + 1) - 1 = k /\ 1..k + 1 = (1..k) \cup {k + 1}
      BY <2>2, <2>4
    <3>2. f[k + 1] = f[k] \o ss[k + 1]
      BY <2>1, <3>1
    <3>3. Range(f[k + 1]) = Range(f[k]) \cup Range(ss[k + 1])
      <4>1. k + 1 \in 1..n
        BY <2>2, <3>1
      <4>2. f[k] \in Seq(P) /\ ss[k + 1] \in Seq(P)
        BY <2>2, <4>1
      <4> QED BY <3>2, <4>2, ConcatList
    <3>4. Range(f[k + 1]) = UNION {Range(ss[i]) : i \in 1..k + 1}
      BY <2>4, <3>1, <3>3
    <3> QED BY <3>1, <3>4
  <2>5. n \in T
    <3> HIDE DEF T
    <3>1. 1..n \subseteq T
      BY <2>2, <2>3, <2>4, CountUp
    <3> QED BY <2>2, <3>1, SMTT(30)
  <2> QED BY <2>1, <2>2, <2>5
<1> QED BY <1>1, <1>2

\* The order of the search, of any lists.
Order(os, ps) == Seqs!FlattenSeq([i \in DOMAIN os |-> ps[os[i]]])

\* The search goes through the projects of all outputs.
LEMMA Searches ==
    ASSUME NEW os \in Seq(Slots), NEW ps \in [Slots -> Seq(Projects)]
    PROVE  /\ Order(os, ps) \in Seq(Projects)
           /\ Range(Order(os, ps)) = UNION {Range(ps[s]) : s \in Range(os)}
<1> DEFINE ss == [i \in DOMAIN os |-> ps[os[i]]]
<1>1. /\ DOMAIN os = 1..Len(os) /\ Len(os) \in Nat
      /\ \A i \in 1..Len(os) : os[i] \in Slots /\ os[i] \in Range(os)
      /\ \A s \in Range(os) : \E i \in 1..Len(os) : os[i] = s
  BY ListRange
<1>2. /\ ss \in Seq(Seq(Projects)) /\ Len(ss) = Len(os)
      /\ \A i \in 1..Len(os) : ss[i] = ps[os[i]]
  BY <1>1
<1>3. Order(os, ps) = Seqs!FlattenSeq(ss)
  BY DEF Order
<1> HIDE DEF ss
<1>4. /\ Order(os, ps) \in Seq(Projects)
      /\ Range(Order(os, ps)) = UNION {Range(ss[i]) : i \in 1..Len(os)}
  BY <1>2, <1>3, Joined
<1>5. ASSUME NEW i \in 1..Len(os) PROVE \E s \in Range(os) : ss[i] = ps[s]
  BY <1>1, <1>2
<1>6. ASSUME NEW s \in Range(os) PROVE \E i \in 1..Len(os) : ss[i] = ps[s]
  BY <1>1, <1>2
<1> QED BY <1>4, <1>5, <1>6

\* So it does in any state of the shell, and in the next one.
LEMMA SearchedNow ==
    ASSUME IInv PROVE SearchOrder \in Seq(Projects) /\ Range(SearchOrder) = InUse
<1>1. \A p \in Projects : p \in InUse <=> proj_output[p] \in Range(outputs)
  BY ListTypes DEF IInv, ListInv, Placed, InUse
<1>2. /\ \A s \in Slots : \A p \in Projects :
            p \in Range(projects[s]) <=> proj_output[p] = s
      /\ outputs \in Seq(Slots) /\ projects \in [Slots -> Seq(Projects)]
      /\ InUse \in SUBSET Projects
  BY ListTypes DEF IInv, ListInv, ListsAgree, InUse
<1>3. SearchOrder = Order(outputs, projects)
  BY DEF SearchOrder, Order
<1>4. InUse = UNION {Range(projects[s]) : s \in Range(outputs)}
  BY <1>1, <1>2, ListTypes DEF IInv
<1> QED BY <1>2, <1>3, <1>4, Searches

\* The order of the search after a step.
LEMMA SearchedThen ==
    ASSUME IInv'
    PROVE  SearchOrder' \in Seq(Projects) /\ Range(SearchOrder') = InUse'
<1>1. /\ outputs' \in Seq(Slots) /\ Range(outputs') \subseteq Slots
      /\ projects' \in [Slots -> Seq(Projects)]
  BY ListRange DEF IInv, TypeOK
<1>2. \A p \in Projects : p \in InUse' <=> proj_output'[p] \in Range(outputs')
  BY <1>1, NullAssumption DEF IInv, ListInv, Placed, InUse
<1>3. /\ \A s \in Slots : \A p \in Projects :
            p \in Range(projects'[s]) <=> proj_output'[p] = s
      /\ InUse' \in SUBSET Projects
  BY DEF IInv, ListInv, ListsAgree, InUse
<1>4. SearchOrder' = Order(outputs', projects')
  BY DEF SearchOrder, Order
<1>5. InUse' = UNION {Range(projects'[s]) : s \in Range(outputs')}
  <2>1. \A s \in Slots : Range(projects'[s]) \subseteq Projects
    BY <1>1, ListRange
  <2> QED BY <1>1, <1>2, <1>3, <2>1
<1> QED BY <1>1, <1>4, <1>5, Searches

\* No project goes out of use while the process runs.
LEMMA UseGrows ==
    ASSUME IInv, [Next]_vars, IInv', pc' \notin Stopped
    PROVE  CP!Reordered
<1>1. InUse \subseteq InUse'
  BY StepKept DEF Kept, Homes, InUse
<1> QED BY <1>1, SearchedNow, SearchedThen DEF CP!Reordered, CP!Range, Range

\* With the process the order goes.
LEMMA NoOrder == ASSUME outputs' = <<>> PROVE SearchOrder' = <<>>
BY DEF SearchOrder, Seqs!FlattenSeq

-----------------------------------------------------------------------------
(* The steps of the shell are steps of QimmOutputs, whose theorems hold of *)
(* the composition too.                                                    *)

\* The steps of the shell are steps of QimmOutputs, or leave its variables
\* alone.
LEMMA ShellNextIsNext == ASSUME [ShellNext]_shell_vars PROVE [Next]_vars
<1>1. CASE HandlerStep
  BY <1>1 DEF HandlerStep, Next
<1>2. CASE \E m \in Monitors : OutputEvent(m)
  <2>1. PICK m \in Monitors : OutputEvent(m)
    BY <1>2
  <2>2. CASE OutputCreated(m)
    BY <2>2 DEF Next, Event
  <2>3. CASE \E s \in Slots : OutputDestroyed(s)
    BY <2>3 DEF Next, Event
  <2> QED BY <2>1, <2>2, <2>3 DEF OutputEvent
<1>3. CASE RunStartup \/ ClientEvent
  BY <1>3 DEF RunStartup, ClientEvent
<1>4. CASE SurfaceCrash
  <2>1. Crash
    BY <1>4 DEF SurfaceCrash, Crash, Stopped
  <2> QED BY <2>1 DEF Next, Event
<1>5. CASE ShellStart \/ ShellEnd
  BY <1>5 DEF ShellStart, ShellEnd, Next, Event
<1>6. CASE UNCHANGED shell_vars
  BY <1>6 DEF shell_vars
<1> QED BY <1>1, <1>2, <1>3, <1>4, <1>5, <1>6 DEF ShellNext

\* The outputs and projects of the shell keep what QimmOutputs keeps alone.
THEOREM OutputsAlwaysKept == ShellSpec => [](IInv /\ Achieved)
<1>1. ShellInit => IInv /\ Achieved
  BY InitInv, InitAchieves DEF ShellInit
<1>2. IInv /\ Achieved /\ [ShellNext]_shell_vars => (IInv /\ Achieved)'
  BY ShellNextIsNext, StepInv, StepAchieves
<1> QED BY <1>1, <1>2, PTL DEF ShellSpec

-----------------------------------------------------------------------------
(* The clients.                                                            *)

\* The operations of QimmClients that the shell calls.
LEMMA SameOperations ==
    /\ C!Layouts = CP!Layouts /\ C!NoSearch = CP!NoSearch
    /\ C!NoneQueued <=> CP!NoneQueued
    /\ C!ClientsInit <=> CP!ClientsInit
    /\ \A p : C!ProjectStart(p) <=> CP!ProjectStart(p)
    /\ \A l : C!Launch(l) <=> CP!Launch(l)
    /\ \A l : C!LaunchFails(l) <=> CP!LaunchFails(l)
    /\ \A c : C!ClientDestroyed(c) <=> CP!ClientDestroyed(c)
    /\ \A c : C!SurfaceAdded(c) <=> CP!SurfaceAdded(c)
    /\ \A c : C!SurfaceCrash(c) <=> CP!SurfaceCrash(c)
    /\ C!ClientsEnd <=> CP!ClientsEnd
    /\ C!ProjectsClear <=> CP!ProjectsClear
    /\ C!FoundIsOwn <=> CP!FoundIsOwn
<1> USE DEF C!Layouts, CP!Layouts, C!NoSearch, CP!NoSearch
<1>1. C!NoneQueued <=> CP!NoneQueued
  BY DEF C!NoneQueued, CP!NoneQueued
<1>2. C!ClientsInit <=> CP!ClientsInit
  BY DEF C!ClientsInit, CP!ClientsInit
<1>3. \A p : C!ProjectStart(p) <=> CP!ProjectStart(p)
  BY DEF C!ProjectStart, CP!ProjectStart
<1>4. /\ \A l : C!Launch(l) <=> CP!Launch(l)
      /\ \A l : C!LaunchFails(l) <=> CP!LaunchFails(l)
  BY DEF C!Launch, CP!Launch, C!LaunchFails, CP!LaunchFails, C!Dequeue, CP!Dequeue
<1>5. \A c : C!ClientDestroyed(c) <=> CP!ClientDestroyed(c)
  BY DEF C!ClientDestroyed, CP!ClientDestroyed
<1>6. \A c : C!First(c) = CP!First(c) /\ C!Ends(c) = CP!Ends(c)
  BY DEF C!First, CP!First, C!Ends, CP!Ends, C!Steps, CP!Steps,
         C!LayoutAt, CP!LayoutAt, C!NotAfter, CP!NotAfter
<1>7. \A k : C!LayoutAt(k) = CP!LayoutAt(k)
  BY DEF C!LayoutAt, CP!LayoutAt
<1>8. C!ClientsEnd <=> CP!ClientsEnd
  BY DEF C!ClientsEnd, CP!ClientsEnd
<1>9. \A c : C!SurfaceAdded(c) <=> CP!SurfaceAdded(c)
  BY <1>6, <1>7 DEF C!SurfaceAdded, CP!SurfaceAdded
<1>10. \A c : C!SurfaceCrash(c) <=> CP!SurfaceCrash(c)
  BY <1>6, <1>7, <1>8 DEF C!SurfaceCrash, CP!SurfaceCrash
<1>11. C!ProjectsClear <=> CP!ProjectsClear
  BY <1>8 DEF C!ProjectsClear, CP!ProjectsClear
<1>12. C!FoundIsOwn <=> CP!FoundIsOwn
  BY DEF C!FoundIsOwn, CP!FoundIsOwn
<1> QED BY <1>1, <1>2, <1>3, <1>4, <1>5, <1>8, <1>9, <1>10, <1>11, <1>12

-----------------------------------------------------------------------------
(* What is on show has its clients, and every step of the shell keeps the  *)
(* invariant of QimmClients with the order the outputs give it.            *)

\* Until a client fails, every layout of a project on show has its client, or
\* a startup on its way.
Started ==
    ~unlucky =>
        \A s \in Range(outputs) : project_cur[s] # NULL =>
            \A i \in 1..LayoutCount :
                \/ layout_client[<<project_cur[s], i>>] # NULL
                \/ idle[<<project_cur[s], i>>] > 0

ShellInv == IInv /\ CP!IInv /\ Started

\* A step that changes no client and shows nothing new.
LEMMA StillStarted ==
    ASSUME Started, UNCHANGED <<layout_client, idle>>, ~unlucky' => ~unlucky,
           \A s \in Range(outputs') :
               project_cur'[s] # NULL =>
                   s \in Range(outputs) /\ project_cur'[s] = project_cur[s]
    PROVE  Started'
BY DEF Started

\* What QimmClients assumes of its constants.
LEMMA ClientConstants ==
    /\ 0 \in Nat /\ LayoutCount \in Nat \ {0}
    /\ NULL \notin Clients \cup {Other} /\ Other \notin Clients
    /\ NULL \notin CP!Layouts
BY LayoutCountAssumption, ClientsAssumption, LayoutsAssumption DEF CP!Layouts

\* The end of the process leaves no clients.
LEMMA EndedShell ==
    ASSUME IInv', outputs' = <<>>, CP!ClientsEnd,
           found' \in [for : Clients \cup {Other, NULL},
                       layout : CP!Layouts \cup {NULL}, crash : BOOLEAN]
    PROVE  ShellInv'
<1>1. CP!IInv'
  <2>1. SearchOrder' = <<>>
    BY NoOrder
  <2> QED BY <2>1, ClientConstants, CP!ClientsEndStep
<1>2. Range(outputs') = {}
  BY EmptyList
<1>3. Started'
  BY <1>2 DEF Started
<1> QED BY <1>1, <1>3 DEF ShellInv

\* What a search has found before the first one.
LEMMA NoSearchType ==
    CP!NoSearch \in [for : Clients \cup {Other, NULL},
                     layout : CP!Layouts \cup {NULL}, crash : BOOLEAN]
BY DEF CP!NoSearch

\* qimm_project_show changes what one output shows.
LEMMA ShowsOne ==
    ASSUME TypeOK, NEW p, Show(p)
    PROVE  \E s : \A t \in Slots : t # s => project_cur'[t] = project_cur[t]
<1>1. CASE project_cur[proj_output[p]] = p
  BY <1>1 DEF Show, show_vars
<1>2. CASE project_cur[proj_output[p]] # p
  <2>1. project_cur' = [project_cur EXCEPT ![proj_output[p]] = p]
    BY <1>2 DEF Show
  <2> QED BY <2>1, ListTypes
<1> QED BY <1>1, <1>2

\* A step of a handler that goes on does so on one output at most, and the
\* list of outputs stays as it is.
LEMMA RunShows ==
    ASSUME IInv, Run, pc' \notin Stopped
    PROVE  /\ outputs' = outputs
           /\ \E s : \A t \in Slots : t # s => project_cur'[t] = project_cur[t]
<1>1. CASE Save
  BY <1>1 DEF Save, SaveOpen, SaveWrite, SaveFails, output_vars, show_vars
<1>2. CASE Restore
  <2>1. CASE RestoreSwap
    BY <2>1, ShowsOne DEF IInv, RestoreSwap, output_vars
  <2>2. CASE ~RestoreSwap
    BY <1>2, <2>2 DEF Restore, RestoreNextOutput, RestoreDone, RestoreInsert,
       RestoreLook, RestoreShown, RestoreKeepShown, output_vars, show_vars
  <2> QED BY <2>1, <2>2
<1>3. CASE Fill
  <2>1. CASE ShowFirst
    BY <2>1, ShowsOne DEF IInv, ShowFirst, output_vars
  <2>2. CASE FillFails
    <3>1. ~Exit("failed")
      BY DEF Exit, Stopped
    <3> QED BY <2>2, <3>1 DEF FillFails, output_vars, show_vars
  <2>3. CASE FillCreate \/ FillNothing
    BY <2>3 DEF FillCreate, FillNothing, output_vars, show_vars
  <2> QED BY <1>3, <2>1, <2>2, <2>3 DEF Fill
<1>4. CASE Load
  <2>1. ~LoadFails /\ ~LoadNowhere
    BY DEF LoadFails, LoadNowhere, Exit, Stopped
  <2> QED BY <1>4, <2>1 DEF Load, LoadProject, LoadDone, Prepare,
             output_vars, show_vars
<1> QED BY <1>1, <1>2, <1>3, <1>4 DEF Run

\* A step of a handler that puts nothing new on show.
LEMMA QuietHandler ==
    ASSUME ShellInv, IInv', CP!Reordered, outputs' = outputs,
           ShownBy = {}, UNCHANGED clients, ~unlucky' => ~unlucky
    PROVE  ShellInv'
<1>1. UNCHANGED <<idle, layout_client, alive, client_layout, found>>
  BY DEF clients
<1>2. CP!IInv'
  BY <1>1, ClientConstants, CP!OrderStep DEF ShellInv, CP!client_vars
<1>3. Started'
  <2>1. \A s \in Slots : project_cur'[s] # NULL => project_cur'[s] = project_cur[s]
    BY DEF ShownBy
  <2>2. Range(outputs) \subseteq Slots
    BY ListTypes DEF ShellInv, IInv
  <2> QED BY <1>1, <2>1, <2>2, StillStarted DEF ShellInv
<1> QED BY <1>2, <1>3 DEF ShellInv

\* A step of a handler that puts a project on show starts its clients.
LEMMA ShowingHandler ==
    ASSUME ShellInv, IInv', CP!Reordered, outputs' = outputs,
           NEW s \in ShownBy, CP!ProjectStart(project_cur'[s]),
           \E t : \A u \in Slots : u # t => project_cur'[u] = project_cur[u],
           ~unlucky' => ~unlucky
    PROVE  ShellInv'
<1> DEFINE p == project_cur'[s]
<1>1. s \in Slots /\ p # NULL /\ p # project_cur[s]
  BY DEF ShownBy
<1>2. \A u \in Slots : u # s => project_cur'[u] = project_cur[u]
  BY <1>1
<1>3. p \in Projects
  BY <1>1 DEF IInv, TypeOK
<1>4. p \in InUse'
  <2>1. CASE p \in Range(projects'[s])
    <3>1. proj_output'[p] = s
      BY <1>1, <1>3, <2>1 DEF IInv, ListInv, ListsAgree
    <3> QED BY <1>1, <1>3, <3>1, NullAssumption DEF IInv, ListInv, Placed, InUse
  <2>2. CASE Swapping(s)' /\ p = h'.old /\ proj_output'[h'.old] = h'.to
    <3>1. h'.to \in Range(outputs')
      BY <2>2 DEF Swapping, IInv, LoopInv, At
    <3>2. outputs' \in Seq(Slots)
      BY DEF IInv, TypeOK
    <3>3. h'.to # NULL
      BY <3>1, <3>2, ListRange, NullAssumption
    <3> QED BY <1>3, <2>2, <3>3 DEF IInv, ListInv, Placed, InUse
  <2> QED BY <1>1, <2>1, <2>2 DEF IInv, CurrentIsOwn
<1>5. p \in CP!Range(SearchOrder')
  BY <1>4, SearchedThen DEF CP!Range, Range
<1>6. CP!IInv'
  BY <1>5, ClientConstants, CP!ProjectStartStep DEF ShellInv
<1>7. Started'
  <2> SUFFICES ASSUME ~unlucky', NEW t \in Range(outputs), project_cur'[t] # NULL,
                      NEW i \in 1..LayoutCount
               PROVE  \/ layout_client'[<<project_cur'[t], i>>] # NULL
                      \/ idle'[<<project_cur'[t], i>>] > 0
    BY DEF Started
  <2> DEFINE l == <<project_cur'[t], i>>
  <2>1. t \in Slots /\ project_cur'[t] \in Projects
    BY ListTypes DEF ShellInv, IInv, TypeOK
  <2>2. l \in CP!Layouts /\ l[1] = project_cur'[t]
    BY <2>1 DEF CP!Layouts
  <2> HIDE DEF l
  <2>3. layout_client' = layout_client /\ idle[l] \in Nat
    BY <2>2 DEF CP!ProjectStart, ShellInv, CP!IInv, CP!ClientsTypeOK
  <2>4. idle'[l] = IF l[1] = p /\ layout_client[l] = NULL THEN idle[l] + 1 ELSE idle[l]
    BY <2>2 DEF CP!ProjectStart
  <2>5. CASE t = s
    BY <2>2, <2>3, <2>4, <2>5 DEF l
  <2>6. CASE t # s
    <3>1. project_cur'[t] = project_cur[t]
      BY <1>2, <2>1, <2>6
    <3>2. layout_client[l] # NULL \/ idle[l] > 0
      BY <3>1 DEF ShellInv, Started, l
    <3> QED BY <2>3, <2>4, <3>2 DEF l
  <2> QED BY <2>5, <2>6
<1> QED BY <1>6, <1>7 DEF ShellInv

\* A step of a handler, which may start clients.
LEMMA HandlerShell == ASSUME ShellInv, IInv', HandlerStep PROVE ShellInv'
<1>1. Run /\ [Next]_vars
  BY DEF HandlerStep, Next
<1>2. CASE pc' \in Stopped
  <2>1. outputs' = <<>>
    BY <1>2 DEF IInv, StoppedEmpty
  <2>2. CP!ClientsEnd /\ found' = CP!NoSearch
    BY <1>2, SameOperations DEF HandlerStep
  <2> QED BY <2>1, <2>2, EndedShell, NoSearchType
<1>3. CASE pc' \notin Stopped
  <2>1. CP!Reordered
    BY <1>1, <1>3, UseGrows DEF ShellInv
  <2>2. /\ outputs' = outputs
        /\ \E t : \A u \in Slots : u # t => project_cur'[u] = project_cur[u]
    BY <1>1, <1>3, RunShows DEF ShellInv
  <2>3. ~unlucky' => ~unlucky
    BY <1>3 DEF HandlerStep
  <2>4. CASE ShownBy = {}
    BY <1>3, <2>1, <2>2, <2>3, <2>4, QuietHandler DEF HandlerStep
  <2>5. CASE ShownBy # {}
    <3>1. PICK s \in ShownBy : CP!ProjectStart(project_cur'[s])
      BY <1>3, <2>5, SameOperations DEF HandlerStep
    <3> QED BY <2>1, <2>2, <2>3, <3>1, ShowingHandler
  <2> QED BY <2>4, <2>5
<1> QED BY <1>2, <1>3

\* What an output shows goes with it, and a new one shows nothing.
LEMMA OutputShell ==
    ASSUME ShellInv, IInv', NEW m \in Monitors, OutputEvent(m)
    PROVE  ShellInv'
<1>0. /\ TypeOK /\ ListInv /\ CurrentIsOwn /\ pc = "idle" /\ pc' \notin Stopped
      /\ [Next]_vars
      /\ UNCHANGED <<idle, layout_client, alive, client_layout, found>>
      /\ ~unlucky' => ~unlucky
  <2>1. [Next]_vars
    BY ShellNextIsNext DEF ShellNext
  <2>2. pc = "idle" /\ pc' \notin Stopped
    BY DEF OutputEvent, OutputCreated, OutputDestroyed, Stopped
  <2> QED BY <2>1, <2>2 DEF OutputEvent, ShellInv, IInv, clients
<1>1. CP!IInv'
  <2>1. CP!Reordered
    BY <1>0, UseGrows DEF ShellInv
  <2> QED BY <1>0, <2>1, ClientConstants, CP!OrderStep DEF ShellInv, CP!client_vars
<1>2. ASSUME OutputCreated(m) PROVE Started'
  <2>1. PICK s \in FreeSlots : outputs' = Append(outputs, s)
    BY <1>2 DEF OutputCreated
  <2>2. s \in Slots /\ s \notin Range(outputs)
    BY <2>1 DEF FreeSlots
  <2>3. Range(outputs') = Range(outputs) \cup {s}
    BY <1>0, <2>1, <2>2, ListTypes, AppendList
  <2>4. project_cur[s] = NULL
    <3>1. Range(projects[s]) = {}
      BY <1>0, <2>2, FreeSlotEmpty, EmptyList
    <3> QED BY <1>0, <2>2, <3>1 DEF CurrentIsOwn, Swapping
  <2>5. project_cur' = project_cur
    BY <1>2 DEF OutputCreated, show_vars
  <2> QED BY <1>0, <2>3, <2>4, <2>5, StillStarted DEF ShellInv
<1>3. ASSUME NEW s \in Slots, OutputDestroyed(s) PROVE Started'
  <2>1. Range(outputs') \subseteq Range(outputs)
    <3>1. outputs' = outputs \/ outputs' = Unlink(outputs, s)
      BY <1>3 DEF OutputDestroyed, Destroy
    <3>2. Range(Unlink(outputs, s)) \subseteq Range(outputs)
      BY <1>0, ListTypes, UnlinkList DEF ListInv, Row
    <3> QED BY <3>1, <3>2
  <2>2. \A t \in Slots : project_cur'[t] \in {project_cur[t], NULL}
    <3>1. \/ project_cur' = project_cur
          \/ project_cur' = [project_cur EXCEPT ![s] = NULL]
      BY <1>3 DEF OutputDestroyed, Destroy
    <3> QED BY <1>0, <3>1, ListTypes
  <2>3. Range(outputs) \subseteq Slots
    BY <1>0, ListTypes
  <2> QED BY <1>0, <2>1, <2>2, <2>3, StillStarted DEF ShellInv
<1> QED BY <1>1, <1>2, <1>3 DEF OutputEvent, ShellInv

\* The startup of a layout gives it its client, or fails.
LEMMA StartupShell == ASSUME ShellInv, IInv', RunStartup PROVE ShellInv'
<1>1. PICK l \in CP!Layouts :
        \/ CP!Launch(l) /\ UNCHANGED unlucky
        \/ CP!LaunchFails(l) /\ unlucky' = TRUE
  BY SameOperations DEF RunStartup
<1>2. SearchOrder' = SearchOrder /\ UNCHANGED <<outputs, project_cur>>
  BY DEF RunStartup, vars, SearchOrder
<1>3. CP!IInv'
  BY <1>1, <1>2, ClientConstants, CP!LaunchStep, CP!LaunchFailsStep DEF ShellInv
<1>4. ASSUME CP!Launch(l), UNCHANGED unlucky PROVE Started'
  <2>1. PICK c \in Clients \ alive :
            layout_client' = [layout_client EXCEPT ![l] = c]
    BY <1>4 DEF CP!Launch
  <2>2. idle' = [idle EXCEPT ![l] = @ - 1]
    BY <1>4 DEF CP!Launch, CP!Dequeue
  <2>3. /\ layout_client \in [CP!Layouts -> Clients \cup {NULL}]
        /\ idle \in [CP!Layouts -> Nat]
    BY DEF ShellInv, CP!IInv, CP!ClientsTypeOK
  <2>4. c # NULL
    BY <2>1, ClientConstants
  <2>5. \A k \in CP!Layouts :
            layout_client[k] # NULL \/ idle[k] > 0 =>
                layout_client'[k] # NULL \/ idle'[k] > 0
    BY <2>1, <2>2, <2>3, <2>4
  <2>6. ASSUME NEW s \in Range(outputs), project_cur[s] # NULL, NEW i \in 1..LayoutCount
        PROVE  <<project_cur[s], i>> \in CP!Layouts
    BY <2>6, ListTypes DEF ShellInv, IInv, CP!Layouts
  <2> QED BY <1>2, <1>4, <2>5, <2>6 DEF ShellInv, Started
<1> QED BY <1>1, <1>3, <1>4 DEF ShellInv, Started

\* A client dies, or asks for a surface.
LEMMA ClientShell == ASSUME ShellInv, IInv', ClientEvent PROVE ShellInv'
<1>1. \/ \E c \in Clients : CP!ClientDestroyed(c) /\ unlucky' = TRUE
      \/ \E c \in Clients \cup {Other} : CP!SurfaceAdded(c) /\ UNCHANGED unlucky
  BY SameOperations DEF ClientEvent
<1>2. SearchOrder' = SearchOrder /\ UNCHANGED <<outputs, project_cur>>
  BY DEF ClientEvent, vars, SearchOrder
<1>3. CP!IInv'
  BY <1>1, <1>2, ClientConstants, CP!ClientDestroyedStep, CP!SurfaceAddedStep DEF ShellInv
<1>4. ASSUME NEW c \in Clients \cup {Other}, CP!SurfaceAdded(c), UNCHANGED unlucky
      PROVE  Started'
  BY <1>2, <1>4, StillStarted DEF CP!SurfaceAdded, ShellInv
<1> QED BY <1>1, <1>3, <1>4 DEF ShellInv, Started

\* A process that starts has no projects yet.
LEMMA StartShell == ASSUME ShellInv, IInv', ShellStart PROVE ShellInv'
<1>1. /\ pc \in Stopped /\ pc' \notin Stopped /\ outputs = <<>> /\ [Next]_vars
      /\ UNCHANGED <<idle, layout_client, alive, client_layout, found, unlucky>>
      /\ project_cur' = project_cur
  BY DEF ShellStart, Start, Stopped, clients, show_vars, Next, Event,
         ShellInv, IInv, StoppedEmpty
<1>2. CP!IInv'
  <2>1. CP!Reordered
    BY <1>1, UseGrows DEF ShellInv
  <2> QED BY <1>1, <2>1, ClientConstants, CP!OrderStep DEF ShellInv, CP!client_vars
<1>3. \A s \in Slots : project_cur[s] = NULL
  <2> TAKE s \in Slots
  <2>1. Range(projects[s]) = {}
    BY <1>1, FreeSlotEmpty, EmptyList DEF ShellInv, IInv
  <2> QED BY <1>1, <2>1 DEF ShellInv, IInv, CurrentIsOwn, Swapping, Stopped
<1>4. Range(outputs') \subseteq Slots
  BY ListRange DEF IInv, TypeOK
<1> QED BY <1>1, <1>2, <1>3, <1>4 DEF ShellInv, Started

\* The process ends, of itself, by a kill, or as it looks for a layout.
LEMMA EndShell ==
    ASSUME ShellInv, IInv', ShellEnd \/ SurfaceCrash PROVE ShellInv'
<1>1. outputs' = <<>>
  BY DEF ShellEnd, SurfaceCrash, Crash, Shutdown, Exit
<1>2. CASE ShellEnd
  BY <1>1, <1>2, SameOperations, EndedShell, NoSearchType
     DEF ShellEnd, CP!ProjectsClear
<1>3. CASE SurfaceCrash
  <2>1. PICK c \in Clients \cup {Other} : CP!SurfaceCrash(c)
    BY <1>3, SameOperations DEF SurfaceCrash
  <2> QED BY <1>1, <2>1, EndedShell DEF CP!SurfaceCrash
<1> QED BY <1>2, <1>3

\* At first there are no clients.
LEMMA InitShell == ASSUME ShellInit PROVE ShellInv
<1>1. IInv
  BY InitInv DEF ShellInit
<1>2. outputs = <<>> /\ Range(outputs) = {}
  BY EmptyList DEF ShellInit, Init
<1>3. SearchOrder = <<>>
  BY <1>2 DEF SearchOrder, Seqs!FlattenSeq
<1>4. CP!IInv
  BY <1>3, ClientConstants, SameOperations, CP!InitInv DEF ShellInit, CP!Init
<1> QED BY <1>1, <1>2, <1>4 DEF ShellInv, Started

-----------------------------------------------------------------------------
(* The theorems.                                                           *)

\* Both invariants hold together, whatever comes, goes, fails and dies.
THEOREM AlwaysShellInv == ShellSpec => []ShellInv
<1>1. ShellInv /\ [ShellNext]_shell_vars => ShellInv'
  <2> SUFFICES ASSUME ShellInv, [ShellNext]_shell_vars PROVE ShellInv'
    OBVIOUS
  <2>1. IInv'
    BY ShellNextIsNext, StepInv DEF ShellInv
  <2>2. CASE UNCHANGED shell_vars
    <3>1. /\ UNCHANGED <<outputs, project_cur, projects, unlucky, idle,
                         layout_client, alive, client_layout, found>>
          /\ SearchOrder' = SearchOrder
      BY <2>2 DEF shell_vars, vars, clients, SearchOrder
    <3>2. CP!Reordered
      BY <3>1, SearchedNow DEF ShellInv, CP!Reordered
    <3>3. CP!IInv'
      BY <3>1, <3>2, ClientConstants, CP!OrderStep DEF ShellInv, CP!client_vars
    <3>4. Started'
      BY <3>1, StillStarted DEF ShellInv
    <3> QED BY <2>1, <3>3, <3>4 DEF ShellInv
  <2> QED BY <2>1, <2>2, HandlerShell, OutputShell, StartupShell, ClientShell,
             StartShell, EndShell DEF ShellNext
<1> QED BY <1>1, InitShell, PTL DEF ShellSpec

\* Until a client fails, a shell at rest has a client in every layout of every
\* project on show: moves, swaps and restores lose none.
THEOREM ShownAreStarted == ShellSpec => []ShownIsStarted
<1>1. ShellInv => ShownIsStarted
  <2> SUFFICES ASSUME ShellInv, ~unlucky, CP!NoneQueued,
                      NEW s \in Range(outputs), project_cur[s] # NULL,
                      NEW i \in 1..LayoutCount
               PROVE  layout_client[<<project_cur[s], i>>] # NULL
    BY SameOperations DEF ShownIsStarted
  <2>1. <<project_cur[s], i>> \in CP!Layouts
    BY ListTypes DEF ShellInv, IInv, CP!Layouts
  <2>2. idle[<<project_cur[s], i>>] = 0
    BY <2>1 DEF CP!NoneQueued
  <2> QED BY <2>2 DEF ShellInv, Started
<1> QED BY <1>1, AlwaysShellInv, PTL

\* No startup outlives the project it is for.
THEOREM StartupsAlwaysHaveProjects == ShellSpec => []StartupsHaveProjects
<1>1. ShellInv => StartupsHaveProjects
  BY SameOperations, SearchedNow
     DEF ShellInv, CP!IInv, CP!QueuedInOrder, StartupsHaveProjects, CP!Range, Range
<1> QED BY <1>1, AlwaysShellInv, PTL

\* A surface finds the layout its client was started for, wherever its
\* project has been moved.
THEOREM SurfacesAlwaysFindLayouts == ShellSpec => []SurfaceFindsLayout
<1>1. ShellInv => SurfaceFindsLayout
  BY SameOperations DEF ShellInv, CP!IInv, SurfaceFindsLayout
<1> QED BY <1>1, AlwaysShellInv, PTL

\* The composition keeps the promise of QimmPlacement, and the homes of its
\* projects.
THEOREM ShellKeepsPlacement == ShellSpec => KeepsPlacement /\ HomeKept
<1>1. ShellInit => Placement!Init
  BY EmptyList DEF ShellInit, Init, Placement!Init
<1>2. IInv /\ [ShellNext]_shell_vars => [Placement!Next]_(Placement!vars)
  BY ShellNextIsNext, StepKept DEF Kept
<1>3. IInv /\ [ShellNext]_shell_vars =>
        [pc' \notin Stopped =>
            \A p \in InUse : /\ name'[p] = name[p]
                             /\ output_name'[p] = output_name[p]]_vars
  BY ShellNextIsNext, StepKept DEF Kept, Homes
<1> QED BY <1>1, <1>2, <1>3, OutputsAlwaysKept, PTL
     DEF ShellSpec, KeepsPlacement, HomeKept, Placement!Spec
=============================================================================
