-------------------------- MODULE SeqFoldsTheorems --------------------------
(***************************************************************************)
(* Induction and recursion with sets in the place of predicates, and what  *)
(* follows for Through and Keep.                                           *)
(***************************************************************************)
EXTENDS SeqFolds, SequenceTheorems, WellFoundedInduction, TLAPS

(* A set of natural numbers has a least element.                           *)
LEMMA LeastNat ==
    ASSUME NEW T \in SUBSET Nat, T # {}
    PROVE  \E n \in T : \A m \in T : n <= m
<1>1. PICK n \in T : \A m \in T : ~(<<m, n>> \in OpToRel(<, Nat))
  BY WFMin, NatLessThanWellFounded
<1>2. \A m \in T : ~(m < n)
  BY <1>1 DEF OpToRel
<1> QED BY <1>2

(* Induction: the set of the numbers that have the property.               *)
LEMMA NatSetInduction ==
    ASSUME NEW T, 0 \in T, \A n \in Nat : n \in T => n + 1 \in T
    PROVE  Nat \subseteq T
<1> SUFFICES ASSUME ~(Nat \subseteq T) PROVE FALSE
  OBVIOUS
<1>1. PICK n \in Nat \ T : \A m \in Nat \ T : n <= m
  <2>1. Nat \ T \in SUBSET Nat /\ Nat \ T # {}
    OBVIOUS
  <2> QED BY <2>1, LeastNat
<1>2. n # 0
  OBVIOUS
<1>3. n - 1 \in Nat /\ n - 1 \in T
  BY <1>1, <1>2
<1> QED BY <1>1, <1>3

(* Induction on sequences.                                                 *)
LEMMA SeqSetInduction ==
    ASSUME NEW X, NEW T, << >> \in T,
           \A s \in Seq(X), e \in X : s \in T => Append(s, e) \in T
    PROVE  Seq(X) \subseteq T
<1> DEFINE P == {n \in Nat : \A s \in Seq(X) : Len(s) = n => s \in T}
<1>1. 0 \in P
  <2>1. \A s \in Seq(X) : Len(s) = 0 => s = << >>
    BY EmptySeq
  <2> QED BY <2>1
<1>2. ASSUME NEW n \in Nat, n \in P PROVE n + 1 \in P
  <2> SUFFICES ASSUME NEW s \in Seq(X), Len(s) = n + 1 PROVE s \in T
    OBVIOUS
  <2> DEFINE f == SubSeq(s, 1, n)
  <2>1. f \in Seq(X) /\ Len(f) = n /\ s[n + 1] \in X /\ s = Append(f, s[n + 1])
    <3>1. f \in Seq(X) /\ Len(f) = n /\ \A i \in 1 .. n : f[i] = s[i]
      BY SubSeqProperties
    <3>2. s[n + 1] \in X
      BY ElementOfSeq
    <3> HIDE DEF f
    <3>3. /\ Append(f, s[n + 1]) \in Seq(X)
          /\ Len(Append(f, s[n + 1])) = n + 1
          /\ \A i \in 1 .. n + 1 : Append(f, s[n + 1])[i] = s[i]
      BY <3>1, <3>2, AppendProperties
    <3>4. s = Append(f, s[n + 1])
      BY <3>3, SeqEqual
    <3> QED BY <3>1, <3>2, <3>4
  <2> HIDE DEF f
  <2> QED BY <1>2, <2>1
<1> HIDE DEF P
<1>3. Nat \subseteq P
  BY <1>1, <1>2, NatSetInduction
<1> QED BY <1>3, LenProperties DEF P

StepsIn(F, N, A) == \A a \in A, i \in 1 .. N : F[<<a, i>>] \in A

RunOf(f, F, N, base) == f[0] = base /\ \A i \in 1 .. N : f[i] = F[<<f[i - 1], i>>]

(* A step function has a run over every length.                            *)
LEMMA RunExists ==
    ASSUME NEW N \in Nat, NEW A, NEW base \in A, NEW F, StepsIn(F, N, A)
    PROVE  \E f \in [0 .. N -> A] : RunOf(f, F, N, base)
<1> USE DEF StepsIn, RunOf
<1> DEFINE Run(n, f) == f[0] = base /\ \A i \in 1 .. n : f[i] = F[<<f[i - 1], i>>]
           T == {n \in Nat : n <= N => \E f \in [0 .. n -> A] : Run(n, f)}
<1>1. 0 \in T
  <2>1. [x \in 0 .. 0 |-> base] \in [0 .. 0 -> A]
    OBVIOUS
  <2>2. Run(0, [x \in 0 .. 0 |-> base])
    OBVIOUS
  <2> HIDE DEF Run
  <2> QED BY <2>1, <2>2
<1>2. ASSUME NEW n \in Nat, n \in T PROVE n + 1 \in T
  <2> SUFFICES ASSUME n + 1 <= N PROVE n + 1 \in T
    OBVIOUS
  <2>1. PICK f \in [0 .. n -> A] : Run(n, f)
    BY <1>2
  <2> DEFINE g == [x \in 0 .. n + 1 |-> IF x = n + 1 THEN F[<<f[n], n + 1>>] ELSE f[x]]
  <2>2. F[<<f[n], n + 1>>] \in A
    BY <2>1
  <2>3. g \in [0 .. n + 1 -> A]
    BY <2>2
  <2>4. g[0] = base
    BY <2>1
  <2>5. \A i \in 1 .. n + 1 : g[i] = F[<<g[i - 1], i>>]
    BY <2>1
  <2>6. Run(n + 1, g)
    BY <2>4, <2>5
  <2> HIDE DEF g, Run
  <2> QED BY <2>3, <2>6
<1> HIDE DEF T
<1>3. N \in T
  BY <1>1, <1>2, NatSetInduction
<1> QED BY <1>3 DEF T

(* A sequence without its last element.                                    *)
LEMMA SplitLast ==
    ASSUME NEW X, NEW s \in Seq(X), NEW n \in 1 .. Len(s)
    PROVE  /\ SubSeq(s, 1, n - 1) \in Seq(X) /\ s[n] \in X
           /\ SubSeq(s, 1, n) = Append(SubSeq(s, 1, n - 1), s[n])
<1> DEFINE f == SubSeq(s, 1, n - 1)
           g == SubSeq(s, 1, n)
<1>1. f \in Seq(X) /\ Len(f) = n - 1 /\ \A i \in 1 .. n - 1 : f[i] = s[i]
  BY SubSeqProperties, LenProperties
<1>2. g \in Seq(X) /\ Len(g) = n /\ \A i \in 1 .. n : g[i] = s[i]
  BY SubSeqProperties, LenProperties
<1>3. s[n] \in X
  BY ElementOfSeq
<1> HIDE DEF f, g
<1>4. /\ Append(f, s[n]) \in Seq(X) /\ Len(Append(f, s[n])) = n
      /\ \A i \in 1 .. n : Append(f, s[n])[i] = s[i]
  BY <1>1, <1>3, AppendProperties
<1>5. g = Append(f, s[n])
  BY <1>2, <1>4, SeqEqual
<1> QED BY <1>1, <1>3, <1>5 DEF f, g

(* What a fold of F from base is, on sequences over X: a function that is  *)
(* given by its last step, and that every table of partial results ends in.*)
FoldOf(G, F, base, X, A) ==
    /\ G \in [Seq(X) -> A]
    /\ G[<< >>] = base
    /\ \A s \in Seq(X), e \in X : G[Append(s, e)] = F[<<G[s], e>>]

FollowsSteps(u, F, base, s, A) ==
    /\ u[0] = base
    /\ \A i \in 1 .. Len(s) : u[i - 1] \in A => u[i] = F[<<u[i - 1], s[i]>>]

EndsIn(u, s, G) == u[Len(s)] = G[s]

(* Any table that follows the steps of a fold ends where the fold does.    *)
LEMMA FoldUnique ==
    ASSUME NEW X, NEW A, NEW F, NEW base \in A, NEW G, FoldOf(G, F, base, X, A),
           NEW s \in Seq(X), NEW u, FollowsSteps(u, F, base, s, A)
    PROVE  EndsIn(u, s, G)
<1> USE DEF FollowsSteps, EndsIn
<1> DEFINE T == {n \in Nat : n <= Len(s) => u[n] = G[SubSeq(s, 1, n)]}
<1>0. Len(s) \in Nat /\ SubSeq(s, 1, 0) = << >> /\ SubSeq(s, 1, Len(s)) = s
  BY LenProperties, SubSeqFull, SubSeqEmpty
<1>1. 0 \in T
  BY <1>0 DEF FoldOf
<1>2. ASSUME NEW n \in Nat, n \in T PROVE n + 1 \in T
  <2> SUFFICES ASSUME n + 1 <= Len(s) PROVE u[n + 1] = G[SubSeq(s, 1, n + 1)]
    OBVIOUS
  <2>1. n + 1 \in 1 .. Len(s) /\ (n + 1) - 1 = n
    BY <1>0
  <2>2. /\ SubSeq(s, 1, n) \in Seq(X) /\ s[n + 1] \in X
        /\ SubSeq(s, 1, n + 1) = Append(SubSeq(s, 1, n), s[n + 1])
    BY <2>1, SplitLast
  <2>3. u[n] = G[SubSeq(s, 1, n)]
    BY <1>2, <1>0
  <2>4. u[n] \in A
    BY <2>2, <2>3 DEF FoldOf
  <2>5. u[n + 1] = F[<<u[n], s[n + 1]>>]
    BY <2>1, <2>4
  <2> QED BY <2>2, <2>3, <2>5 DEF FoldOf
<1> HIDE DEF T
<1>3. Len(s) \in T
  BY <1>0, <1>1, <1>2, NatSetInduction
<1>4. u[Len(s)] = G[SubSeq(s, 1, Len(s))]
  BY <1>0, <1>3 DEF T
<1> QED BY <1>0, <1>4

(* The fold of a function over all sequences exists.                       *)
LEMMA FoldExists ==
    ASSUME NEW X, NEW A, NEW base \in A, NEW F, \A a \in A, e \in X : F[<<a, e>>] \in A
    PROVE  \E G : FoldOf(G, F, base, X, A)
<1> DEFINE Run(s, f) ==
               /\ f \in [0 .. Len(s) -> A] /\ f[0] = base
               /\ \A i \in 1 .. Len(s) : f[i] = F[<<f[i - 1], s[i]>>]
           Table(s) == CHOOSE f : Run(s, f)
           G == [s \in Seq(X) |-> Table(s)[Len(s)]]
<1>1. ASSUME NEW s \in Seq(X) PROVE Run(s, Table(s))
  <2> DEFINE E == [p \in A \X (1 .. Len(s)) |-> F[<<p[1], s[p[2]]>>]]
  <2>1. \A a \in A, i \in 1 .. Len(s) : E[<<a, i>>] = F[<<a, s[i]>>] /\ E[<<a, i>>] \in A
    BY ElementOfSeq
  <2> HIDE DEF E
  <2>2. Len(s) \in Nat
    BY LenProperties
  <2>3. PICK f \in [0 .. Len(s) -> A] :
            f[0] = base /\ \A i \in 1 .. Len(s) : f[i] = E[<<f[i - 1], i>>]
    <3>1. StepsIn(E, Len(s), A)
      BY <2>1 DEF StepsIn
    <3>2. \E f \in [0 .. Len(s) -> A] : RunOf(f, E, Len(s), base)
      BY <2>2, <3>1, RunExists
    <3> QED BY <3>2 DEF RunOf
  <2>4. ASSUME NEW i \in 1 .. Len(s) PROVE f[i] = F[<<f[i - 1], s[i]>>]
    <3>1. f[i - 1] \in A
      BY <2>2, <2>3
    <3> QED BY <2>1, <2>3, <3>1
  <2>5. Run(s, f)
    BY <2>3, <2>4
  <2> HIDE DEF Run
  <2> QED BY <2>5
<1>2. ASSUME NEW s \in Seq(X), NEW f, NEW g, Run(s, f), Run(s, g)
      PROVE  f[Len(s)] = g[Len(s)]
  <2> DEFINE T == {n \in Nat : n <= Len(s) => f[n] = g[n]}
  <2>0. Len(s) \in Nat
    BY LenProperties
  <2>1. 0 \in T
    BY <1>2
  <2>2. ASSUME NEW n \in Nat, n \in T PROVE n + 1 \in T
    <3> SUFFICES ASSUME n + 1 <= Len(s) PROVE f[n + 1] = g[n + 1]
      OBVIOUS
    <3>1. n + 1 \in 1 .. Len(s) /\ (n + 1) - 1 = n /\ n <= Len(s)
      BY <2>0
    <3> QED BY <1>2, <2>2, <3>1
  <2> HIDE DEF T
  <2>3. Len(s) \in T
    BY <2>0, <2>1, <2>2, NatSetInduction
  <2> QED BY <2>3 DEF T
<1>3. G \in [Seq(X) -> A]
  <2>1. \A s \in Seq(X) : Table(s)[Len(s)] \in A
    BY <1>1, LenProperties
  <2> QED BY <2>1
<1>4. G[<< >>] = base
  <2>1. << >> \in Seq(X) /\ Len(<< >>) = 0
    BY EmptySeq
  <2> QED BY <1>1, <2>1
<1>5. ASSUME NEW s \in Seq(X), NEW e \in X
      PROVE  G[Append(s, e)] = F[<<G[s], e>>]
  <2> DEFINE t == Append(s, e)
             n == Len(s)
             f == Table(t)
             h == [i \in 0 .. n |-> f[i]]
  <2>1. /\ t \in Seq(X) /\ Len(t) = n + 1 /\ t[n + 1] = e /\ n \in Nat
        /\ \A i \in 1 .. n : t[i] = s[i]
    BY AppendProperties, LenProperties
  <2>2. Run(t, f)
    BY <1>1, <2>1
  <2> HIDE DEF t, f
  <2>3. Run(s, h)
    <3>1. h \in [0 .. n -> A] /\ h[0] = base
      BY <2>1, <2>2
    <3>2. \A i \in 1 .. n : h[i] = F[<<h[i - 1], s[i]>>]
      BY <2>1, <2>2
    <3> QED BY <3>1, <3>2
  <2>4. h[n] = Table(s)[n]
    BY <1>1, <1>2, <2>3
  <2>5. f[n + 1] = F[<<f[n], e>>]
    BY <2>1, <2>2
  <2>6. h[n] = f[n]
    BY <2>1
  <2>7. G[t] = f[n + 1] /\ G[s] = Table(s)[n]
    BY <2>1 DEF f
  <2> QED BY <2>4, <2>5, <2>6, <2>7 DEF t
<1> HIDE DEF G
<1> QED BY <1>3, <1>4, <1>5 DEF FoldOf

(* The partial results of a fold, as a table over a sequence's positions.  *)
TableOf(G, s) == [i \in 0 .. Len(s) |-> G[SubSeq(s, 1, i)]]

RunsOver(v, F, base, X, A, s) ==
    /\ v[0] = base
    /\ \A i \in 1 .. Len(s) :
          v[i - 1] \in A /\ s[i] \in X /\ v[i] = F[<<v[i - 1], s[i]>>]

(* The fold gives such a table for each sequence.                          *)
LEMMA FoldTable ==
    ASSUME NEW X, NEW A, NEW F, NEW base \in A, NEW G, FoldOf(G, F, base, X, A),
           NEW s \in Seq(X)
    PROVE  RunsOver(TableOf(G, s), F, base, X, A, s)
<1> DEFINE v == TableOf(G, s)
<1> USE DEF TableOf
<1>1. Len(s) \in Nat
  BY LenProperties
<1>2. v[0] = base
  <2>1. v[0] = G[SubSeq(s, 1, 0)] /\ SubSeq(s, 1, 0) = << >>
    BY <1>1, SubSeqEmpty
  <2> HIDE DEF v
  <2> QED BY <2>1 DEF FoldOf
<1>3. ASSUME NEW i \in 1 .. Len(s)
      PROVE  v[i - 1] \in A /\ s[i] \in X /\ v[i] = F[<<v[i - 1], s[i]>>]
  <2>1. /\ SubSeq(s, 1, i - 1) \in Seq(X) /\ s[i] \in X
        /\ SubSeq(s, 1, i) = Append(SubSeq(s, 1, i - 1), s[i])
    BY SplitLast
  <2>2. v[i - 1] = G[SubSeq(s, 1, i - 1)] /\ v[i] = G[SubSeq(s, 1, i)]
    BY <1>1
  <2> HIDE DEF v
  <2> QED BY <2>1, <2>2 DEF FoldOf
<1> QED BY <1>2, <1>3 DEF RunsOver

(* Keep, by the last element.                                              *)
LEMMA KeepFold ==
    ASSUME NEW X, NEW S
    PROVE  /\ Keep(<< >>, S) = << >>
           /\ \A s \in Seq(X) : Keep(s, S) \in Seq(X)
           /\ \A s \in Seq(X), e \in X :
                 Keep(Append(s, e), S) = IF e \in S THEN Append(Keep(s, S), e) ELSE Keep(s, S)
<1> DEFINE F == [p \in Seq(X) \X X |-> IF p[2] \in S THEN Append(p[1], p[2]) ELSE p[1]]
<1>1. \A a \in Seq(X), e \in X :
          F[<<a, e>>] = (IF e \in S THEN Append(a, e) ELSE a) /\ F[<<a, e>>] \in Seq(X)
  BY AppendProperties
<1> HIDE DEF F
<1>2. << >> \in Seq(X)
  BY EmptySeq
<1>3. PICK G : FoldOf(G, F, << >>, X, Seq(X))
  <2>1. \A a \in Seq(X), e \in X : F[<<a, e>>] \in Seq(X)
    BY <1>1
  <2> QED BY <1>2, <2>1, FoldExists
<1>4. ASSUME NEW s \in Seq(X) PROVE Keep(s, S) = G[s]
  <2> DEFINE Op(a, e) == IF e \in S THEN Append(a, e) ELSE a
             n == Len(s)
             v == TableOf(G, s)
             Good(u) == u = [i \in 0 .. n |-> IF i = 0 THEN << >> ELSE Op(u[i - 1], s[i])]
             t == CHOOSE u : Good(u)
  <2>1. Keep(s, S) = t[n]
    BY DEF Keep, Through
  <2>2. n \in Nat /\ \A i \in 1 .. n : s[i] \in X
    BY LenProperties, ElementOfSeq
  <2>3. Good(v)
    <3>1. RunsOver(v, F, << >>, X, Seq(X), s)
      BY <1>2, <1>3, FoldTable
    <3>2. v = [i \in 0 .. n |-> v[i]]
      BY DEF TableOf
    <3>3. ASSUME NEW i \in 0 .. n PROVE v[i] = IF i = 0 THEN << >> ELSE Op(v[i - 1], s[i])
      <4> HIDE DEF v
      <4>1. CASE i = 0
        BY <3>1, <4>1 DEF RunsOver
      <4>2. CASE i # 0
        <5>1. i \in 1 .. n
          BY <2>2, <4>2
        <5>2. v[i - 1] \in Seq(X) /\ s[i] \in X /\ v[i] = F[<<v[i - 1], s[i]>>]
          BY <3>1, <5>1 DEF RunsOver
        <5> QED BY <1>1, <4>2, <5>2
      <4> QED BY <4>1, <4>2
    <3> HIDE DEF v
    <3> QED BY <3>2, <3>3
  <2>4. Good(t)
    <3> HIDE DEF Good
    <3> QED BY <2>3
  <2> HIDE DEF t, v
  <2>5. t[0] = << >> /\ \A i \in 1 .. n : t[i] = Op(t[i - 1], s[i])
    <3>1. \A i \in 0 .. n : t[i] = IF i = 0 THEN << >> ELSE Op(t[i - 1], s[i])
      BY <2>4
    <3> HIDE DEF n, Op
    <3> QED BY <2>2, <3>1
  <2>6. FollowsSteps(t, F, << >>, s, Seq(X))
    BY <1>1, <2>2, <2>5 DEF FollowsSteps
  <2>7. t[n] = G[s]
    <3>1. EndsIn(t, s, G)
      BY <1>2, <1>3, <2>6, FoldUnique
    <3> QED BY <3>1 DEF EndsIn
  <2> QED BY <2>1, <2>7
<1>5. \A s \in Seq(X), e \in X : Append(s, e) \in Seq(X)
  BY AppendProperties
<1>6. Keep(<< >>, S) = << >>
  BY <1>2, <1>3, <1>4 DEF FoldOf
<1>7. ASSUME NEW s \in Seq(X) PROVE Keep(s, S) \in Seq(X)
  BY <1>3, <1>4 DEF FoldOf
<1>8. ASSUME NEW s \in Seq(X), NEW e \in X
      PROVE  Keep(Append(s, e), S) = IF e \in S THEN Append(Keep(s, S), e) ELSE Keep(s, S)
  <2>1. Keep(Append(s, e), S) = G[Append(s, e)] /\ Keep(s, S) = G[s]
    BY <1>4, <1>5
  <2>2. G[Append(s, e)] = F[<<G[s], e>>] /\ G[s] \in Seq(X)
    BY <1>3 DEF FoldOf
  <2> QED BY <1>1, <2>1, <2>2
<1> QED BY <1>6, <1>7, <1>8

(* Nothing is kept of the empty sequence.                                  *)
LEMMA KeepEmpty ==
    ASSUME NEW S
    PROVE  Keep(<< >>, S) = << >>
BY KeepFold

(* What is kept is a sequence of the same elements.                        *)
LEMMA KeepType ==
    ASSUME NEW X, NEW S, NEW s \in Seq(X)
    PROVE  Keep(s, S) \in Seq(X)
<1>1. \A t \in Seq(X) : Keep(t, S) \in Seq(X)
  BY KeepFold
<1> QED BY <1>1

(* What is kept of a sequence with one more element.                       *)
LEMMA KeepAppend ==
    ASSUME NEW X, NEW S, NEW s \in Seq(X), NEW e \in X
    PROVE  Keep(Append(s, e), S) = IF e \in S THEN Append(Keep(s, S), e) ELSE Keep(s, S)
<1>1. \A t \in Seq(X), x \in X :
          Keep(Append(t, x), S) = IF x \in S THEN Append(Keep(t, S), x) ELSE Keep(t, S)
  BY KeepFold
<1> QED BY <1>1

(* The elements of a sequence with one more.                               *)
LEMMA RangeAppend ==
    ASSUME NEW X, NEW s \in Seq(X), NEW e \in X
    PROVE  Range(Append(s, e)) = Range(s) \cup {e}
<1>1. /\ Append(s, e) \in Seq(X) /\ Len(Append(s, e)) = Len(s) + 1
      /\ \A i \in 1 .. Len(s) : Append(s, e)[i] = s[i]
      /\ Append(s, e)[Len(s) + 1] = e /\ Len(s) \in Nat
  BY AppendProperties, LenProperties
<1>2. Range(Append(s, e)) = {Append(s, e)[i] : i \in 1 .. Len(s) + 1}
  BY <1>1, RangeEquality
<1>3. Range(s) = {s[i] : i \in 1 .. Len(s)}
  BY RangeEquality
<1>4. 1 .. Len(s) + 1 = (1 .. Len(s)) \cup {Len(s) + 1}
  BY <1>1
<1> QED BY <1>1, <1>2, <1>3, <1>4

(* Nothing occurs in the empty sequence.                                   *)
LEMMA RangeEmpty == Range(<< >>) = {}
BY DEF Range

(* Keep has the elements that are in S.                                    *)
LEMMA KeepRange ==
    ASSUME NEW X, NEW S, NEW s \in Seq(X)
    PROVE  Range(Keep(s, S)) = Range(s) \cap S
<1> DEFINE T == {t \in Seq(X) : Range(Keep(t, S)) = Range(t) \cap S}
<1>1. << >> \in T
  BY EmptySeq, KeepEmpty, KeepType, KeepAppend, RangeEmpty
<1>2. ASSUME NEW t \in Seq(X), NEW e \in X, t \in T PROVE Append(t, e) \in T
  <2>1. Append(t, e) \in Seq(X) /\ Range(Append(t, e)) = Range(t) \cup {e}
    BY AppendProperties, RangeAppend
  <2>2. Keep(t, S) \in Seq(X)
    BY KeepType
  <2>4. Range(Append(Keep(t, S), e)) = Range(Keep(t, S)) \cup {e}
    BY <2>2, RangeAppend
  <2>3. Keep(Append(t, e), S) = IF e \in S THEN Append(Keep(t, S), e) ELSE Keep(t, S)
    BY KeepAppend
  <2> QED BY <1>2, <2>1, <2>2, <2>3, <2>4
<1> HIDE DEF T
<1>3. Seq(X) \subseteq T
  BY <1>1, <1>2, SeqSetInduction
<1> QED BY <1>3 DEF T

(* Appending to a concatenation.                                           *)
LEMMA ConcatAppend ==
    ASSUME NEW X, NEW s \in Seq(X), NEW t \in Seq(X), NEW e \in X
    PROVE  s \o Append(t, e) = Append(s \o t, e)
<1> DEFINE a == Append(t, e)
           b == s \o t
           c == s \o a
           d == Append(b, e)
<1>1. /\ a \in Seq(X) /\ Len(a) = Len(t) + 1 /\ a[Len(t) + 1] = e
      /\ \A i \in 1 .. Len(t) : a[i] = t[i]
  BY AppendProperties
<1>2. /\ b \in Seq(X) /\ Len(b) = Len(s) + Len(t)
      /\ \A i \in 1 .. Len(s) + Len(t) : b[i] = IF i <= Len(s) THEN s[i] ELSE t[i - Len(s)]
  BY ConcatProperties
<1> HIDE DEF a, b
<1>3. /\ c \in Seq(X) /\ Len(c) = Len(s) + Len(a)
      /\ \A i \in 1 .. Len(s) + Len(a) : c[i] = IF i <= Len(s) THEN s[i] ELSE a[i - Len(s)]
  BY <1>1, ConcatProperties
<1>4. /\ d \in Seq(X) /\ Len(d) = Len(b) + 1 /\ d[Len(b) + 1] = e
      /\ \A i \in 1 .. Len(b) : d[i] = b[i]
  BY <1>2, AppendProperties
<1> HIDE DEF c, d
<1>5. Len(s) \in Nat /\ Len(t) \in Nat
  BY LenProperties
<1>6. ASSUME NEW i \in 1 .. Len(c) PROVE c[i] = d[i]
  <2>1. CASE i <= Len(s)
    <3>1. i \in 1 .. Len(s) + Len(a) /\ i \in 1 .. Len(s) + Len(t)
      BY <1>1, <1>3, <1>5, <2>1
    <3>2. c[i] = s[i]
      BY <1>3, <2>1, <3>1
    <3>3. d[i] = b[i] /\ b[i] = s[i]
      BY <1>2, <1>4, <2>1, <3>1
    <3> QED BY <3>2, <3>3
  <2>2. CASE i > Len(s) /\ i <= Len(s) + Len(t)
    <3>1. i - Len(s) \in 1 .. Len(t) /\ i \in 1 .. Len(s) + Len(t) /\ ~(i <= Len(s))
      BY <1>5, <2>2
    <3>2. c[i] = a[i - Len(s)]
      BY <1>1, <1>3, <1>5, <3>1
    <3>3. d[i] = b[i] /\ b[i] = t[i - Len(s)]
      BY <1>2, <1>4, <3>1
    <3> QED BY <1>1, <3>1, <3>2, <3>3
  <2>3. CASE i = Len(s) + Len(t) + 1
    <3>1. /\ i \in 1 .. Len(s) + Len(a) /\ ~(i <= Len(s))
          /\ i - Len(s) = Len(t) + 1 /\ i = Len(b) + 1
      BY <1>1, <1>2, <1>5, <2>3
    <3>2. c[i] = a[i - Len(s)]
      BY <1>3, <3>1
    <3> QED BY <1>1, <1>4, <3>1, <3>2
  <2> QED BY <1>1, <1>3, <1>5, <2>1, <2>2, <2>3
<1>7. c = d
  <2>1. Len(c) = Len(d)
    BY <1>1, <1>2, <1>3, <1>4, <1>5
  <2> QED BY <1>3, <1>4, <1>6, <2>1, SeqEqual
<1> QED BY <1>7 DEF a, b, c, d

(* Keep of a concatenation.                                                *)
LEMMA KeepConcat ==
    ASSUME NEW X, NEW S, NEW s \in Seq(X), NEW u \in Seq(X)
    PROVE  Keep(s \o u, S) = Keep(s, S) \o Keep(u, S)
<1> DEFINE T == {t \in Seq(X) : Keep(s \o t, S) = Keep(s, S) \o Keep(t, S)}
<1>0. Keep(s, S) \in Seq(X) /\ Keep(<< >>, S) = << >>
  BY KeepEmpty, KeepType, KeepAppend
<1>1. << >> \in T
  BY <1>0, EmptySeq, ConcatEmptySeq
<1>2. ASSUME NEW t \in Seq(X), NEW e \in X, t \in T PROVE Append(t, e) \in T
  <2>1. Append(t, e) \in Seq(X) /\ Append(t, e) = t \o <<e>> /\ <<e>> \in Seq(X)
    BY AppendProperties, AppendIsConcat
  <2>2. s \o t \in Seq(X) /\ s \o Append(t, e) = Append(s \o t, e)
    BY ConcatProperties, ConcatAppend
  <2>3. Keep(t, S) \in Seq(X)
    BY KeepType
  <2>5. Keep(Append(s \o t, e), S) =
            IF e \in S THEN Append(Keep(s \o t, S), e) ELSE Keep(s \o t, S)
    <3> DEFINE w == s \o t
    <3>1. w \in Seq(X)
      BY <2>2
    <3> HIDE DEF w
    <3>2. Keep(Append(w, e), S) = IF e \in S THEN Append(Keep(w, S), e) ELSE Keep(w, S)
      BY <3>1, KeepAppend
    <3> QED BY <3>2 DEF w
  <2>6. Keep(Append(t, e), S) = IF e \in S THEN Append(Keep(t, S), e) ELSE Keep(t, S)
    BY KeepAppend
  <2>4. Keep(s, S) \o Append(Keep(t, S), e) = Append(Keep(s, S) \o Keep(t, S), e)
    BY <1>0, <2>3, ConcatAppend
  <2> QED BY <1>2, <2>1, <2>2, <2>4, <2>5, <2>6
<1> HIDE DEF T
<1>3. Seq(X) \subseteq T
  BY <1>1, <1>2, SeqSetInduction
<1> QED BY <1>3 DEF T

(* Keep by one set and then by another.                                    *)
LEMMA KeepKeep ==
    ASSUME NEW X, NEW S, NEW R, NEW s \in Seq(X)
    PROVE  Keep(Keep(s, S), R) = Keep(s, S \cap R)
<1> DEFINE T == {t \in Seq(X) : Keep(Keep(t, S), R) = Keep(t, S \cap R)}
<1>1. << >> \in T
  <2>1. Keep(<< >>, S) = << >> /\ Keep(<< >>, R) = << >> /\ Keep(<< >>, S \cap R) = << >>
    BY KeepEmpty, KeepType, KeepAppend
  <2> QED BY <2>1, EmptySeq
<1>2. ASSUME NEW t \in Seq(X), NEW e \in X, t \in T PROVE Append(t, e) \in T
  <2>1. Append(t, e) \in Seq(X) /\ Keep(t, S) \in Seq(X)
    BY AppendProperties, KeepEmpty, KeepType, KeepAppend
  <2>2. /\ Keep(Append(t, e), S) = IF e \in S THEN Append(Keep(t, S), e) ELSE Keep(t, S)
        /\ Keep(Append(t, e), S \cap R) =
              IF e \in S \cap R THEN Append(Keep(t, S \cap R), e) ELSE Keep(t, S \cap R)
        /\ Keep(Append(Keep(t, S), e), R) =
              IF e \in R THEN Append(Keep(Keep(t, S), R), e) ELSE Keep(Keep(t, S), R)
    BY <2>1, KeepEmpty, KeepType, KeepAppend
  <2>3. Keep(Keep(t, S), R) = Keep(t, S \cap R)
    BY <1>2
  <2>4. Keep(Keep(Append(t, e), S), R) = Keep(Append(t, e), S \cap R)
    <3>1. CASE e \in S
      <4>1. Keep(Append(t, e), S) = Append(Keep(t, S), e)
        BY <2>2, <3>1
      <4>2. (e \in S \cap R) <=> (e \in R)
        BY <3>1
      <4>3. CASE e \in R
        BY <2>2, <2>3, <4>1, <4>2, <4>3
      <4>4. CASE e \notin R
        BY <2>2, <2>3, <4>1, <4>2, <4>4
      <4> QED BY <4>3, <4>4
    <3>2. CASE e \notin S
      BY <2>2, <2>3, <3>2
    <3> QED BY <3>1, <3>2
  <2> QED BY <2>1, <2>4
<1> HIDE DEF T
<1>3. Seq(X) \subseteq T
  BY <1>1, <1>2, SeqSetInduction
<1> QED BY <1>3 DEF T

(* Keep depends on the elements of the sequence that are in the set.       *)
LEMMA KeepSame ==
    ASSUME NEW X, NEW S, NEW R, NEW s \in Seq(X), Range(s) \cap S = Range(s) \cap R
    PROVE  Keep(s, S) = Keep(s, R)
<1> DEFINE T == {t \in Seq(X) : Range(t) \cap S = Range(t) \cap R => Keep(t, S) = Keep(t, R)}
<1>1. << >> \in T
  <2>1. Keep(<< >>, S) = << >> /\ Keep(<< >>, R) = << >>
    BY KeepEmpty, KeepType, KeepAppend
  <2> QED BY <2>1, EmptySeq
<1>2. ASSUME NEW t \in Seq(X), NEW e \in X, t \in T PROVE Append(t, e) \in T
  <2>1. Append(t, e) \in Seq(X) /\ Range(Append(t, e)) = Range(t) \cup {e}
    BY AppendProperties, RangeAppend
  <2>2. /\ Keep(Append(t, e), S) = IF e \in S THEN Append(Keep(t, S), e) ELSE Keep(t, S)
        /\ Keep(Append(t, e), R) = IF e \in R THEN Append(Keep(t, R), e) ELSE Keep(t, R)
    BY KeepEmpty, KeepType, KeepAppend
  <2>3. ASSUME Range(Append(t, e)) \cap S = Range(Append(t, e)) \cap R
        PROVE  Keep(Append(t, e), S) = Keep(Append(t, e), R)
    <3>1. Range(t) \cap S = Range(t) \cap R /\ (e \in S <=> e \in R)
      BY <2>1, <2>3
    <3>2. Keep(t, S) = Keep(t, R)
      BY <1>2, <3>1
    <3> QED BY <2>2, <3>1, <3>2
  <2> QED BY <2>1, <2>3
<1> HIDE DEF T
<1>3. Seq(X) \subseteq T
  BY <1>1, <1>2, SeqSetInduction
<1> QED BY <1>3 DEF T

(* Keep of everything is everything, and of nothing nothing.               *)
LEMMA KeepAll ==
    ASSUME NEW X, NEW S, NEW s \in Seq(X), Range(s) \subseteq S
    PROVE  Keep(s, S) = s
<1> DEFINE T == {t \in Seq(X) : Keep(t, X) = t}
<1>1. << >> \in T
  BY EmptySeq, KeepEmpty, KeepType, KeepAppend
<1>2. ASSUME NEW t \in Seq(X), NEW e \in X, t \in T PROVE Append(t, e) \in T
  BY <1>2, AppendProperties, KeepEmpty, KeepType, KeepAppend
<1> HIDE DEF T
<1>3. Seq(X) \subseteq T
  BY <1>1, <1>2, SeqSetInduction
<1>4. Keep(s, X) = s
  BY <1>3 DEF T
<1>5. Range(s) \cap S = Range(s) \cap X
  BY RangeOfSeq
<1> QED BY <1>4, <1>5, KeepSame

(* Nothing is kept when nothing is in the set.                             *)
LEMMA KeepNone ==
    ASSUME NEW X, NEW S, NEW s \in Seq(X), Range(s) \cap S = {}
    PROVE  Keep(s, S) = << >>
<1> DEFINE T == {t \in Seq(X) : Keep(t, {}) = << >>}
<1>1. << >> \in T
  BY EmptySeq, KeepEmpty, KeepType, KeepAppend
<1>2. ASSUME NEW t \in Seq(X), NEW e \in X, t \in T PROVE Append(t, e) \in T
  BY <1>2, AppendProperties, KeepEmpty, KeepType, KeepAppend
<1> HIDE DEF T
<1>3. Seq(X) \subseteq T
  BY <1>1, <1>2, SeqSetInduction
<1>4. Keep(s, {}) = << >>
  BY <1>3 DEF T
<1>5. Range(s) \cap S = Range(s) \cap {}
  OBVIOUS
<1> QED BY <1>4, <1>5, KeepSame

=============================================================================
