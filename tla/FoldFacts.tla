----------------------------- MODULE FoldFacts -----------------------------
(***************************************************************************)
(* What FoldLeft of the community modules computes, for every operator and *)
(* every sequence, and the induction that shows it.  A module that folds   *)
(* an operator of its own instantiates this one with it.  The induction    *)
(* is over sets: every natural number is in a set that has 0 and with each *)
(* number the next.                                                        *)
(***************************************************************************)
EXTENDS Integers, Sequences, SequencesExt, WellFoundedInduction, TLAPS

CONSTANT Op(_, _)

\* The fold that the theorems are about.
Fold(base, seq) == FoldLeft(Op, base, seq)

-----------------------------------------------------------------------------
(* Induction. *)

\* A set of natural numbers that has any has a least one.
LEMMA Least ==
    ASSUME NEW T \in SUBSET Nat, T # {}
    PROVE  \E n \in T : \A m \in T : n <= m
<1> DEFINE R == OpToRel(<, Nat)
<1>1. IsWellFoundedOn(R, Nat)
  BY NatLessThanWellFounded
<1>2. \A x, y \in Nat : <<x, y>> \in R <=> x < y
  BY DEF OpToRel
<1> HIDE DEF R
<1>3. PICK x \in T : \A y \in T : ~ (<<y, x>> \in R)
  BY <1>1, WFMin
<1>4. \A y \in T : ~ (y < x)
  BY <1>2, <1>3
<1> QED BY <1>3, <1>4

\* Induction: a set with 0 and with the successor of each of its numbers has them all.
LEMMA NatInd ==
    ASSUME NEW T, 0 \in T, \A n \in Nat : n \in T => n + 1 \in T
    PROVE  Nat \subseteq T
<1> SUFFICES ASSUME Nat \ T # {} PROVE FALSE
  OBVIOUS
<1>1. PICK n \in Nat \ T : \A m \in Nat \ T : n <= m
  BY Least
<1>2. n # 0 /\ n - 1 \in Nat
  BY <1>1
<1>3. n - 1 \in T
  BY <1>1, <1>2
<1>4. (n - 1) + 1 \in T
  BY <1>2, <1>3
<1> QED BY <1>1, <1>4

\* Induction over sequences: a set with the empty one, and with each of its sequences
\* every one that is longer by an element, has them all.
THEOREM SeqInd ==
    ASSUME NEW S, NEW T, <<>> \in T,
           \A s \in Seq(S), x \in S : s \in T => Append(s, x) \in T
    PROVE  Seq(S) \subseteq T
<1> DEFINE N == {n \in Nat : \A s \in Seq(S) : Len(s) = n => s \in T}
<1>1. 0 \in N
  <2>1. \A s \in Seq(S) : Len(s) = 0 => s = <<>>
    OBVIOUS
  <2> QED BY <2>1
<1>2. ASSUME NEW n \in Nat, n \in N PROVE n + 1 \in N
  <2> SUFFICES ASSUME NEW s \in Seq(S), Len(s) = n + 1 PROVE s \in T
    OBVIOUS
  <2>1. PICK r, x : r \in Seq(S) /\ x \in S /\ s = Append(r, x) /\ Len(r) = n
    <3> DEFINE r == SubSeq(s, 1, n)
    <3>1. r \in Seq(S) /\ Len(r) = n /\ s[n + 1] \in S /\ \A k \in 1 .. n : r[k] = s[k]
      OBVIOUS
    <3>2. s = Append(r, s[n + 1])
      BY <3>1
    <3> QED BY <3>1, <3>2
  <2>2. r \in T
    BY <1>2, <2>1
  <2> QED BY <2>1, <2>2
<1>3. Nat \subseteq N
  <2> HIDE DEF N
  <2> QED BY <1>1, <1>2, NatInd
<1>4. \A s \in Seq(S) : Len(s) \in Nat
  OBVIOUS
<1> QED BY <1>3, <1>4

-----------------------------------------------------------------------------
(* Folds. *)

\* The function that FoldLeft chooses: what the fold makes of the elements at some of
\* the places up to n, the last of them last.
IsIter(it, base, seq, n) ==
    it = [s \in SUBSET (1 .. n) |->
            IF s = {} THEN base ELSE Op(it[s \ {Max(s)}], seq[Max(s)])]

\* The last place is the one that the community modules' Max chooses.
LEMMA MaxIs ==
    ASSUME NEW n \in Nat, NEW s \in SUBSET (1 .. n), n \in s
    PROVE  Max(s) = n
<1>1. \A x \in s : x \in Int /\ n >= x
  OBVIOUS
<1>2. PICK m : m = Max(s)
  OBVIOUS
<1>3. m \in s /\ \A y \in s : m >= y
  <2>1. \E x \in s : \A y \in s : x >= y
    BY <1>1
  <2> QED BY <1>2, <2>1, Zenon DEF Max
<1>4. m \in Int /\ n >= m /\ m >= n
  BY <1>1, <1>3
<1>5. m = n
  BY <1>4
<1> QED BY <1>2, <1>5

\* There is such a function for every length: FoldLeft does not choose in vain.
LEMMA IterExists ==
    ASSUME NEW base, NEW seq
    PROVE  \A n \in Nat : \E it : IsIter(it, base, seq, n)
<1> DEFINE T == {n \in Nat : \E it : IsIter(it, base, seq, n)}
<1>1. 0 \in T
  <2> DEFINE it == [s \in SUBSET (1 .. 0) |-> base]
  <2>1. IsIter(it, base, seq, 0)
    <3>1. \A s \in SUBSET (1 .. 0) : s = {}
      OBVIOUS
    <3> QED BY <3>1 DEF IsIter
  <2> QED BY <2>1
<1>2. ASSUME NEW n \in Nat, n \in T PROVE n + 1 \in T
  <2>1. PICK it : IsIter(it, base, seq, n)
    BY <1>2
  <2> DEFINE jt == [s \in SUBSET (1 .. n + 1) |->
                      IF n + 1 \in s THEN Op(it[s \ {n + 1}], seq[n + 1]) ELSE it[s]]
  <2>2. ASSUME NEW s \in SUBSET (1 .. n + 1), n + 1 \in s
        PROVE  s # {} /\ jt[s] = Op(jt[s \ {Max(s)}], seq[Max(s)])
    <3>1. Max(s) = n + 1
      BY <2>2, MaxIs
    <3>2. s \ {n + 1} \in SUBSET (1 .. n + 1) /\ n + 1 \notin s \ {n + 1}
      OBVIOUS
    <3>3. jt[s \ {n + 1}] = it[s \ {n + 1}]
      BY <3>2
    <3> HIDE DEF jt
    <3>4. jt[s] = Op(it[s \ {n + 1}], seq[n + 1])
      BY <2>2 DEF jt
    <3> QED BY <2>2, <3>1, <3>3, <3>4
  <2>3. ASSUME NEW s \in SUBSET (1 .. n + 1), n + 1 \notin s
        PROVE  jt[s] = IF s = {} THEN base ELSE Op(jt[s \ {Max(s)}], seq[Max(s)])
    <3>1. s \in SUBSET (1 .. n) /\ s \ {Max(s)} \in SUBSET (1 .. n + 1) /\ n + 1 \notin s \ {Max(s)}
      <4>1. PICK m : m = Max(s)
        OBVIOUS
      <4>2. \A x \in s : x \in 1 .. n
        BY <2>3
      <4>3. s \ {m} \in SUBSET (1 .. n + 1) /\ n + 1 \notin s \ {m}
        BY <2>3
      <4> QED BY <4>1, <4>2, <4>3
    <3>2. jt[s] = it[s] /\ jt[s \ {Max(s)}] = it[s \ {Max(s)}]
      BY <2>3, <3>1
    <3>3. it[s] = IF s = {} THEN base ELSE Op(it[s \ {Max(s)}], seq[Max(s)])
      BY <2>1, <3>1 DEF IsIter
    <3> HIDE DEF jt
    <3> QED BY <3>2, <3>3
  <2>4. \A s \in SUBSET (1 .. n + 1) :
            jt[s] = IF s = {} THEN base ELSE Op(jt[s \ {Max(s)}], seq[Max(s)])
    <3> HIDE DEF jt
    <3> QED BY <2>2, <2>3
  <2>5. IsIter(jt, base, seq, n + 1)
    <3>1. PICK kt : kt = jt
      OBVIOUS
    <3>2. kt = [s \in SUBSET (1 .. n + 1) |-> kt[s]]
      BY <3>1
    <3>3. IsIter(kt, base, seq, n + 1)
      BY <2>4, <3>1, <3>2 DEF IsIter
    <3> QED BY <3>1, <3>3
  <2> QED BY <2>5
<1> QED BY <1>1, <1>2, NatInd

\* On the places up to k it is one step of the operator from the places before k.
IsSteps(it, base, seq, n) ==
    it[{}] = base /\ \A k \in 1 .. n : it[1 .. k] = Op(it[1 .. k - 1], seq[k])

\* It is the iteration of the definition, place after place.
LEMMA IterSteps ==
    ASSUME NEW base, NEW seq, NEW n \in Nat, NEW it, IsIter(it, base, seq, n)
    PROVE  IsSteps(it, base, seq, n)
<1>1. it[{}] = base
  BY DEF IsIter
<1>2. ASSUME NEW k \in 1 .. n PROVE it[1 .. k] = Op(it[1 .. k - 1], seq[k])
  <2>1. 1 .. k \in SUBSET (1 .. n) /\ 1 .. k # {}
    BY <1>2
  <2>2. Max(1 .. k) = k
    BY <1>2, MaxIs
  <2>3. (1 .. k) \ {k} = 1 .. k - 1
    BY <1>2
  <2>4. it[1 .. k] = Op(it[(1 .. k) \ {Max(1 .. k)}], seq[Max(1 .. k)])
    BY <2>1 DEF IsIter
  <2> QED BY <2>2, <2>3, <2>4
<1> QED BY <1>1, <1>2 DEF IsSteps

\* The fold of a sequence is that function on all its places.
LEMMA FoldIter ==
    ASSUME NEW base, NEW S, NEW seq \in Seq(S)
    PROVE  \E it : IsIter(it, base, seq, Len(seq)) /\ Fold(base, seq) = it[1 .. Len(seq)]
<1> DEFINE it == CHOOSE it : IsIter(it, base, seq, Len(seq))
<1>1. DOMAIN seq = 1 .. Len(seq)
  OBVIOUS
<1>2. IsIter(it, base, seq, Len(seq))
  <2>1. Len(seq) \in Nat
    OBVIOUS
  <2> QED BY <2>1, IterExists, Zenon
<1>3. Fold(base, seq) = it[1 .. Len(seq)]
  BY <1>1, Zenon DEF Fold, FoldLeft, MapThenFoldSet, IsIter
<1> QED BY <1>2, <1>3

\* Two sequences that agree up to a place fold to the same up to it.
LEMMA SamePrefix ==
    ASSUME NEW base, NEW s, NEW t, NEW n \in Nat, NEW m \in Nat, n <= m,
           NEW it, IsIter(it, base, s, n), NEW jt, IsIter(jt, base, t, m),
           \A k \in 1 .. n : s[k] = t[k]
    PROVE  it[1 .. n] = jt[1 .. n]
<1>1. IsSteps(it, base, s, n)
  BY IterSteps
<1>2. IsSteps(jt, base, t, m)
  BY IterSteps
<1> DEFINE T == {k \in Nat : k <= n => it[1 .. k] = jt[1 .. k]}
<1>3. 0 \in T
  <2>1. 1 .. 0 = {}
    OBVIOUS
  <2>2. it[{}] = base /\ jt[{}] = base
    BY <1>1, <1>2 DEF IsSteps
  <2> QED BY <2>1, <2>2
<1>4. ASSUME NEW k \in Nat, k \in T PROVE k + 1 \in T
  <2> SUFFICES ASSUME k + 1 <= n PROVE it[1 .. k + 1] = jt[1 .. k + 1]
    OBVIOUS
  <2>1. k + 1 \in 1 .. n /\ k + 1 \in 1 .. m /\ (k + 1) - 1 = k
    OBVIOUS
  <2>2. it[1 .. k] = jt[1 .. k]
    BY <1>4
  <2>3. it[1 .. k + 1] = Op(it[1 .. (k + 1) - 1], s[k + 1])
    BY <2>1, <1>1, <1>2 DEF IsSteps
  <2>4. jt[1 .. k + 1] = Op(jt[1 .. (k + 1) - 1], t[k + 1])
    BY <2>1, <1>1, <1>2 DEF IsSteps
  <2> QED BY <2>1, <2>2, <2>3, <2>4
<1>5. Nat \subseteq T
  <2> HIDE DEF T
  <2> QED BY <1>3, <1>4, NatInd
<1> QED BY <1>5

\* The fold of the empty sequence is the value it begins with.
THEOREM FoldEmpty == ASSUME NEW base PROVE Fold(base, <<>>) = base
<1>1. <<>> \in Seq({}) /\ Len(<<>>) = 0 /\ 1 .. 0 = {}
  OBVIOUS
<1>2. PICK it : IsIter(it, base, <<>>, 0) /\ Fold(base, <<>>) = it[1 .. 0]
  BY <1>1, FoldIter
<1>3. it[{}] = base
  BY <1>2 DEF IsIter
<1> QED BY <1>1, <1>2, <1>3

\* The fold of a longer sequence is one step more.
THEOREM FoldAppend ==
    ASSUME NEW base, NEW S, NEW s \in Seq(S), NEW x \in S
    PROVE  Fold(base, Append(s, x)) = Op(Fold(base, s), x)
<1> DEFINE t == Append(s, x)
           n == Len(s)
<1>1. /\ n \in Nat /\ t \in Seq(S) /\ Len(t) = n + 1 /\ t[n + 1] = x
      /\ \A k \in 1 .. n : s[k] = t[k]
  OBVIOUS
<1> HIDE DEF t, n
<1>2. PICK it : IsIter(it, base, s, n) /\ Fold(base, s) = it[1 .. n]
  BY FoldIter DEF n
<1>3. PICK jt : IsIter(jt, base, t, n + 1) /\ Fold(base, t) = jt[1 .. n + 1]
  BY <1>1, FoldIter
<1>4. it[1 .. n] = jt[1 .. n]
  BY <1>1, <1>2, <1>3, SamePrefix
<1>5. n + 1 \in 1 .. n + 1 /\ (n + 1) - 1 = n
  BY <1>1
<1>6. jt[1 .. n + 1] = Op(jt[1 .. (n + 1) - 1], t[n + 1])
  <2>1. IsSteps(jt, base, t, n + 1)
    BY <1>1, <1>3, IterSteps
  <2> QED BY <1>5, <2>1 DEF IsSteps
<1>7. Fold(base, t) = Op(Fold(base, s), x)
  BY <1>1, <1>2, <1>3, <1>4, <1>5, <1>6
<1> QED BY <1>7 DEF t

\* A set that the operator does not leave has the fold if it has the beginning.
THEOREM FoldType ==
    ASSUME NEW base, NEW S, NEW T, base \in T, \A a \in T, x \in S : Op(a, x) \in T
    PROVE  \A s \in Seq(S) : Fold(base, s) \in T
<1> DEFINE Q == {s \in Seq(S) : Fold(base, s) \in T}
<1>1. <<>> \in Q
  BY FoldEmpty
<1>2. ASSUME NEW s \in Seq(S), NEW x \in S, s \in Q PROVE Append(s, x) \in Q
  <2>1. Append(s, x) \in Seq(S)
    OBVIOUS
  <2> QED BY <1>2, <2>1, FoldAppend
<1>3. Seq(S) \subseteq Q
  <2> HIDE DEF Q
  <2> QED BY <1>1, <1>2, SeqInd
<1> QED BY <1>3

\* A fold goes on where it was left: of two sequences, one after the other.
THEOREM FoldConcat ==
    ASSUME NEW base, NEW S, NEW s \in Seq(S), NEW t \in Seq(S)
    PROVE  Fold(base, s \o t) = Fold(Fold(base, s), t)
<1> DEFINE Q == {r \in Seq(S) : Fold(base, s \o r) = Fold(Fold(base, s), r)}
<1>1. <<>> \in Q
  <2>1. s \o <<>> = s
    OBVIOUS
  <2> QED BY <2>1, FoldEmpty
<1>2. ASSUME NEW r \in Seq(S), NEW x \in S, r \in Q PROVE Append(r, x) \in Q
  <2>1. s \o Append(r, x) = Append(s \o r, x) /\ s \o r \in Seq(S) /\ Append(r, x) \in Seq(S)
    OBVIOUS
  <2>2. Fold(base, Append(s \o r, x)) = Op(Fold(base, s \o r), x)
    BY <2>1, FoldAppend
  <2>3. Fold(Fold(base, s), Append(r, x)) = Op(Fold(Fold(base, s), r), x)
    BY FoldAppend
  <2> QED BY <1>2, <2>1, <2>2, <2>3
<1>3. Seq(S) \subseteq Q
  <2> HIDE DEF Q
  <2> QED BY <1>1, <1>2, SeqInd
<1> QED BY <1>3

-----------------------------------------------------------------------------
(* FlattenSeq. *)

\* The function that FlattenSeq chooses: the first sequences, one after the other.
IsFlat(f, seqs, n) ==
    f = [i \in 1 .. n |-> IF i = 1 THEN seqs[i] ELSE f[i - 1] \o seqs[i]]

\* There is one for every number of them.
LEMMA FlatExists ==
    ASSUME NEW seqs
    PROVE  \A n \in Nat : \E f : IsFlat(f, seqs, n)
<1> DEFINE T == {n \in Nat : \E f : IsFlat(f, seqs, n)}
<1>1. 0 \in T
  <2>1. PICK f : f = [i \in 1 .. 0 |-> seqs[i]]
    OBVIOUS
  <2>2. IsFlat(f, seqs, 0)
    BY <2>1 DEF IsFlat
  <2> QED BY <2>2
<1>2. ASSUME NEW n \in Nat, n \in T PROVE n + 1 \in T
  <2>1. PICK f : IsFlat(f, seqs, n)
    BY <1>2
  <2>2. PICK g : g = [i \in 1 .. n + 1 |->
                        IF i = 1 THEN seqs[i] ELSE f[i - 1] \o seqs[i]]
    OBVIOUS
  <2>3. \A i \in 1 .. n : g[i] = f[i]
    <3>1. \A i \in 1 .. n : f[i] = IF i = 1 THEN seqs[i] ELSE f[i - 1] \o seqs[i]
      BY <2>1, Zenon DEF IsFlat
    <3>2. \A i \in 1 .. n : i \in 1 .. n + 1
      OBVIOUS
    <3>3. \A i \in 1 .. n : g[i] = IF i = 1 THEN seqs[i] ELSE f[i - 1] \o seqs[i]
      BY <2>2, <3>2
    <3> QED BY <3>1, <3>3
  <2>4. \A i \in 1 .. n + 1 : i # 1 => i - 1 \in 1 .. n
    OBVIOUS
  <2>5. \A i \in 1 .. n + 1 : g[i] = IF i = 1 THEN seqs[i] ELSE g[i - 1] \o seqs[i]
    BY <2>2, <2>3, <2>4
  <2>6. IsFlat(g, seqs, n + 1)
    BY <2>2, <2>5 DEF IsFlat
  <2> QED BY <2>6
<1>3. Nat \subseteq T
  <2> HIDE DEF T
  <2> QED BY <1>1, <1>2, NatInd
<1> QED BY <1>3

\* Sequences that agree up to a place flatten to the same up to it.
Agree(f, g, n) == \A k \in 1 .. n : f[k] = g[k]

\* The flattened beginnings of such sequences are the same.
LEMMA SameFlat ==
    ASSUME NEW s, NEW t, NEW n \in Nat, NEW m \in Nat, n <= m,
           NEW f, IsFlat(f, s, n), NEW g, IsFlat(g, t, m),
           Agree(s, t, n)
    PROVE  Agree(f, g, n)
<1> DEFINE T == {k \in Nat : k \in 1 .. n => f[k] = g[k]}
<1>1. 0 \in T
  OBVIOUS
<1>2. ASSUME NEW k \in Nat, k \in T PROVE k + 1 \in T
  <2> SUFFICES ASSUME k + 1 <= n PROVE f[k + 1] = g[k + 1]
    OBVIOUS
  <2>1. k + 1 \in 1 .. n /\ k + 1 \in 1 .. m /\ (k + 1) - 1 = k
    OBVIOUS
  <2>2. f[k + 1] = IF k + 1 = 1 THEN s[k + 1] ELSE f[(k + 1) - 1] \o s[k + 1]
    BY <2>1 DEF IsFlat
  <2>3. g[k + 1] = IF k + 1 = 1 THEN t[k + 1] ELSE g[(k + 1) - 1] \o t[k + 1]
    BY <2>1 DEF IsFlat
  <2>4. k + 1 # 1 => f[k] = g[k]
    BY <1>2, <2>1
  <2> QED BY <2>1, <2>2, <2>3, <2>4 DEF Agree
<1>3. Nat \subseteq T
  <2> HIDE DEF T
  <2> QED BY <1>1, <1>2, NatInd
<1> QED BY <1>3 DEF Agree

\* The flattened sequence is its value at the last.
LEMMA FlattenIsFlat ==
    ASSUME NEW S, NEW seqs \in Seq(S), seqs # <<>>
    PROVE  \E f : IsFlat(f, seqs, Len(seqs)) /\ FlattenSeq(seqs) = f[Len(seqs)]
<1> DEFINE f == CHOOSE f : IsFlat(f, seqs, Len(seqs))
<1>1. Len(seqs) \in Nat /\ Len(seqs) # 0
  OBVIOUS
<1>2. IsFlat(f, seqs, Len(seqs))
  BY <1>1, FlatExists, Zenon
<1>3. FlattenSeq(seqs) = f[Len(seqs)]
  BY <1>1, Zenon DEF FlattenSeq, IsFlat
<1> QED BY <1>2, <1>3

\* Nothing is made of nothing.
THEOREM FlattenEmpty == FlattenSeq(<<>>) = <<>>
BY DEF FlattenSeq

\* One sequence more is put after the others.
THEOREM FlattenAppend ==
    ASSUME NEW S, NEW seqs \in Seq(Seq(S)), NEW s \in Seq(S)
    PROVE  FlattenSeq(Append(seqs, s)) = FlattenSeq(seqs) \o s
<1> DEFINE t == Append(seqs, s)
           n == Len(seqs)
<1>1. /\ n \in Nat /\ t \in Seq(Seq(S)) /\ t # <<>> /\ Len(t) = n + 1 /\ t[n + 1] = s
      /\ \A k \in 1 .. n : seqs[k] = t[k]
  <2>1. PICK Q : Q = Seq(S)
    OBVIOUS
  <2>2. seqs \in Seq(Q) /\ s \in Q
    BY <2>1
  <2> QED BY <2>1, <2>2
<1> HIDE DEF t, n
<1>2. PICK g : IsFlat(g, t, n + 1) /\ FlattenSeq(t) = g[n + 1]
  BY <1>1, FlattenIsFlat
<1>3. g[n + 1] = IF n + 1 = 1 THEN t[n + 1] ELSE g[(n + 1) - 1] \o t[n + 1]
  <2>1. n + 1 \in 1 .. n + 1
    BY <1>1
  <2>2. \A i \in 1 .. n + 1 : g[i] = IF i = 1 THEN t[i] ELSE g[i - 1] \o t[i]
    BY <1>2, Zenon DEF IsFlat
  <2> QED BY <2>1, <2>2
<1>4. CASE seqs = <<>>
  <2>1. g[n + 1] = s
    BY <1>1, <1>3, <1>4 DEF n
  <2>2. <<>> \o s = s
    OBVIOUS
  <2> QED BY <1>2, <1>4, <2>1, <2>2, FlattenEmpty DEF t
<1>5. CASE seqs # <<>>
  <2>1. PICK f : IsFlat(f, seqs, n) /\ FlattenSeq(seqs) = f[n]
    BY <1>5, FlattenIsFlat DEF n
  <2>2. Agree(f, g, n)
    <3>1. n + 1 \in Nat /\ n <= n + 1
      BY <1>1
    <3>2. Agree(seqs, t, n)
      BY <1>1 DEF Agree
    <3> QED BY <1>1, <1>2, <2>1, <3>1, <3>2, SameFlat
  <2>3. n \in 1 .. n /\ n + 1 # 1 /\ (n + 1) - 1 = n
    BY <1>1, <1>5 DEF n
  <2>4. FlattenSeq(t) = FlattenSeq(seqs) \o s
    BY <1>1, <1>2, <1>3, <2>1, <2>2, <2>3 DEF Agree
  <2> QED BY <2>4 DEF t
<1> QED BY <1>4, <1>5

-----------------------------------------------------------------------------
(* Sequences. *)

\* The last of a sequence, when it is replaced.
LEMMA LastReplaced ==
    ASSUME NEW T, NEW ps \in Seq(T), NEW sec \in T, NEW new \in T
    PROVE  /\ Append(ps, sec)[Len(Append(ps, sec))] = sec
           /\ [Append(ps, sec) EXCEPT ![Len(Append(ps, sec))] = new] = Append(ps, new)
<1>1. PICK q, n : q = Append(ps, sec) /\ n = Len(ps) + 1
  OBVIOUS
<1>2. q \in Seq(T) /\ Len(q) = n /\ q[n] = sec /\ \A k \in 1 .. Len(ps) : q[k] = ps[k]
  BY <1>1
<1>3. PICK r : r = [q EXCEPT ![n] = new]
  OBVIOUS
<1>4. r \in Seq(T) /\ Len(r) = n /\ r[n] = new /\ \A k \in 1 .. Len(ps) : r[k] = ps[k]
  <2>1. n \in 1 .. Len(q) /\ \A k \in 1 .. Len(ps) : k \in 1 .. Len(q) /\ k # n
    BY <1>1, <1>2
  <2>2. r \in Seq(T) /\ Len(r) = Len(q)
    BY <1>2, <1>3, <2>1
  <2>3. r[n] = new /\ \A k \in 1 .. Len(ps) : r[k] = q[k]
    BY <1>2, <1>3, <2>1
  <2> QED BY <1>2, <2>2, <2>3
<1>5. r = Append(ps, new)
  BY <1>1, <1>4
<1> QED BY <1>1, <1>2, <1>3, <1>5

\* A function t on one place more than s, and what it is then.
OneLonger(s, t, n, S) ==
    /\ s = [k \in 1 .. n |-> t[k]]
    /\ t = [k \in 1 .. n + 1 |-> t[k]]
    /\ \A k \in 1 .. n + 1 : t[k] \in S

\* t is s with one element of S more, at place n + 1.
Appended(s, t, n, S) == s \in Seq(S) /\ t[n + 1] \in S /\ t = Append(s, t[n + 1])

\* A function on one place more is a sequence with one element more.
LEMMA AppendMap ==
    ASSUME NEW S, NEW n \in Nat, NEW s, NEW t, OneLonger(s, t, n, S)
    PROVE  Appended(s, t, n, S)
<1> USE DEF OneLonger
<1>1. s \in Seq(S) /\ Len(s) = n
  <2>1. \A k \in 1 .. n : s[k] \in S
    <3>1. \A k \in 1 .. n : k \in 1 .. n + 1
      OBVIOUS
    <3> QED BY <3>1
  <2>2. s \in [1 .. n -> S]
    BY <2>1
  <2> QED BY <2>2
<1>2. n + 1 \in 1 .. n + 1 /\ t[n + 1] \in S
  OBVIOUS
<1>3. PICK r : r = Append(s, t[n + 1])
  OBVIOUS
<1>4. r \in Seq(S) /\ Len(r) = n + 1 /\ r[n + 1] = t[n + 1] /\ \A k \in 1 .. n : r[k] = t[k]
  <2>1. r \in Seq(S) /\ Len(r) = n + 1 /\ r[n + 1] = t[n + 1] /\ \A k \in 1 .. n : r[k] = s[k]
    BY <1>1, <1>2, <1>3
  <2> QED BY <2>1
<1>5. t \in Seq(S) /\ Len(t) = n + 1
  <2>1. t \in [1 .. n + 1 -> S]
    OBVIOUS
  <2> QED BY <2>1
<1>6. t = r
  <2>1. \A k \in 1 .. n + 1 : k = n + 1 \/ k \in 1 .. n
    OBVIOUS
  <2>2. \A k \in 1 .. n + 1 : r[k] = t[k]
    BY <1>4, <2>1
  <2> HIDE DEF OneLonger
  <2> QED BY <1>4, <1>5, <2>2
<1> QED BY <1>1, <1>2, <1>3, <1>6 DEF Appended
=============================================================================
