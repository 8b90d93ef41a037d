-------------------------- MODULE ServerTextsProofs --------------------------
(***************************************************************************)
(* The theorem about edit and apply_patch on a text nobody else touches    *)
(* (TextTrials, the part "trials" of ServerParts), and what it needs of    *)
(* the operators of TextEdits; with these, the disk of FileTools holds     *)
(* texts whoever writes, and the types of all parts.                       *)
(***************************************************************************)
EXTENDS ServerPartsProofs

-----------------------------------------------------------------------------
(* TextEdits: lines *)

SplitAcc(A) == [done : Seq(Seq(A)), line : Seq(A)]

NoLines == [done |-> <<>>, line |-> <<>>]

CutAt(acc, c) ==
    IF c = NL THEN [done |-> Append(acc.done, Trials!WithoutCR(acc.line)), line |-> <<>>]
    ELSE [done |-> acc.done, line |-> Append(acc.line, c)]

SplitStep(f, t, i) ==
    IF i = 0 THEN [done |-> <<>>, line |-> <<>>]
    ELSE IF t[i] = NL
      THEN [done |-> Append(f[i - 1].done, Trials!WithoutCR(f[i - 1].line)), line |-> <<>>]
    ELSE [done |-> f[i - 1].done, line |-> Append(f[i - 1].line, t[i])]

IsSplit(f, t, n) == f = [i \in 0 .. n |-> SplitStep(f, t, i)]

LEMMA WithoutCRFits ==
    ASSUME NEW A, NEW s \in Seq(A)
    PROVE  Trials!WithoutCR(s) \in Seq(A)
<1>1. s # <<>> => SubSeq(s, 1, Len(s) - 1) \in Seq(A)
  OBVIOUS
<1> QED
  BY <1>1 DEF Trials!WithoutCR, Trials!Front, Trials!Last

LEMMA CutFits ==
    ASSUME NEW A, NEW acc \in SplitAcc(A), NEW c \in A
    PROVE  CutAt(acc, c) \in SplitAcc(A)
<1>1. acc.done \in Seq(Seq(A)) /\ acc.line \in Seq(A)
  BY DEF SplitAcc
<1>2. Trials!WithoutCR(acc.line) \in Seq(A)
  BY <1>1, WithoutCRFits
<1>3. Append(acc.done, Trials!WithoutCR(acc.line)) \in Seq(Seq(A)) /\ <<>> \in Seq(A)
  BY <1>1, <1>2
<1>4. Append(acc.line, c) \in Seq(A)
  BY <1>1
<1> QED
  BY <1>1, <1>3, <1>4 DEF SplitAcc, CutAt

SplitsUp(f, A, t, n) ==
    /\ f \in [0 .. n -> SplitAcc(A)]
    /\ Trials!Split(t) = f[n]
    /\ f[0] = NoLines
    /\ \A i \in 1 .. n : f[i] = CutAt(f[i - 1], t[i])

LEMMA SplitIs ==
    ASSUME NEW A, NEW t \in Seq(A)
    PROVE  \E f : SplitsUp(f, A, t, Len(t))
<1> DEFINE n == Len(t)
           S == SplitAcc(A)
           step == [p \in S \X (1 .. n) |-> CutAt(p[1], t[p[2]])]
           F == CHOOSE g : IsSplit(g, t, n)
<1>0. n \in Nat /\ \A i \in 1 .. n : t[i] \in A
  OBVIOUS
<1> HIDE DEF n
<1>1. NoLines \in S
  BY EmptySeq DEF NoLines, SplitAcc
<1>2. step \in Steps(S, n)
  <2> SUFFICES ASSUME NEW p \in S \X (1 .. n) PROVE CutAt(p[1], t[p[2]]) \in S
    BY DEF Steps
  <2>1. p[1] \in S /\ t[p[2]] \in A
    BY <1>0
  <2> QED
    BY <2>1, CutFits
<1>3. \A s \in S, i \in 1 .. n : step[<<s, i>>] = CutAt(s, t[i])
  OBVIOUS
<1> HIDE DEF step, S
<1>4. PICK f : StepByStep(f, S, NoLines, step, n)
  BY <1>0, <1>1, <1>2, StepsExist
<1>5. f \in [0 .. n -> S] /\ f[0] = NoLines /\ \A i \in 1 .. n : f[i] = CutAt(f[i - 1], t[i])
  <2>1. f \in [0 .. n -> S] /\ f[0] = NoLines /\ \A i \in 1 .. n : f[i] = step[<<f[i - 1], i>>]
    BY <1>4 DEF StepByStep
  <2>2. \A i \in 1 .. n : f[i - 1] \in S
    BY <1>0, <2>1
  <2> QED
    BY <1>3, <2>1, <2>2
<1>6. \A i \in 0 .. n : f[i] = SplitStep(f, t, i)
  <2>1. f[0] = SplitStep(f, t, 0)
    BY <1>5 DEF SplitStep, NoLines
  <2>2. ASSUME NEW i \in 1 .. n PROVE f[i] = SplitStep(f, t, i)
    <3>1. i # 0 /\ f[i] = CutAt(f[i - 1], t[i])
      BY <1>0, <1>5
    <3> QED
      BY <3>1 DEF SplitStep, CutAt
  <2> QED
    BY <1>0, <2>1, <2>2
<1>7. IsSplit(f, t, n)
  <2>1. f = [i \in 0 .. n |-> f[i]]
    BY <1>5
  <2> QED
    BY <1>6, <2>1 DEF IsSplit
<1>8. IsSplit(F, t, n)
  BY <1>7
<1>9. Trials!Split(t) = F[n]
  BY DEF Trials!Split, IsSplit, SplitStep, n
<1> HIDE DEF F
<1>10. GoAlike(F, f, n)
  <2>1. \A i \in 0 .. n : F[i] = SplitStep(F, t, i)
    BY <1>8 DEF IsSplit
  <2>0. 0 \in 0 .. n
    BY <1>0
  <2>2. F[0] = f[0]
    <3>1. F[0] = SplitStep(F, t, 0) /\ f[0] = SplitStep(f, t, 0)
      BY <1>6, <2>0, <2>1
    <3> QED
      BY <3>1 DEF SplitStep
  <2>3. ASSUME NEW i \in 1 .. n, F[i - 1] = f[i - 1] PROVE F[i] = f[i]
    <3>1. i # 0 /\ i \in 0 .. n
      BY <1>0
    <3>2. F[i] = SplitStep(F, t, i) /\ f[i] = SplitStep(f, t, i)
      BY <1>6, <2>1, <3>1
    <3> QED
      BY <2>3, <3>1, <3>2 DEF SplitStep
  <2> QED
    BY <2>2, <2>3 DEF GoAlike
<1>11. F[n] = f[n]
  <2>1. n \in 0 .. n
    BY <1>0
  <2> QED
    BY <1>0, <1>10, <2>1, Alike
<1> QED
  BY <1>5, <1>9, <1>11 DEF S, n, SplitsUp

LEMMA SplitNothing == Trials!Split(<<>>) = NoLines
<1>1. <<>> \in Seq({}) /\ Len(<<>>) = 0
  BY EmptySeq
<1>2. PICK f : SplitsUp(f, {}, <<>>, Len(<<>>))
  BY <1>1, SplitIs
<1> QED
  BY <1>1, <1>2 DEF SplitsUp

LEMMA SplitGrows ==
    ASSUME NEW A, NEW t \in Seq(A), NEW c \in A
    PROVE  /\ Trials!Split(t) \in SplitAcc(A)
           /\ Trials!Split(Append(t, c)) = CutAt(Trials!Split(t), c)
<1> DEFINE n == Len(t)
           k == n + 1
           t2 == Append(t, c)
<1>1. /\ n \in Nat /\ k \in Nat /\ t2 \in Seq(A) /\ Len(t2) = k /\ t2[k] = c
      /\ k \in 1 .. k /\ k - 1 = n /\ \A i \in 1 .. n : t2[i] = t[i] /\ i \in 1 .. k
  OBVIOUS
<1> HIDE DEF k, t2
<1>2. PICK f : SplitsUp(f, A, t, n)
  BY SplitIs
<1> HIDE DEF n
<1>3. PICK g : SplitsUp(g, A, t2, k)
  BY <1>1, SplitIs
<1>4. GoAlike(f, g, n)
  BY <1>1, <1>2, <1>3 DEF SplitsUp, GoAlike
<1>5. f[n] = g[n]
  BY <1>1, <1>4, Alike
<1>6. g[k] = CutAt(g[n], c)
  BY <1>1, <1>3 DEF SplitsUp
<1>7. f[n] \in SplitAcc(A)
  BY <1>1, <1>2 DEF SplitsUp
<1> QED
  BY <1>2, <1>3, <1>5, <1>6, <1>7 DEF t2, SplitsUp

-----------------------------------------------------------------------------
(* TextEdits: pieces joined, and searches that jump                           *)

FlattensUp(F, S, s, n) ==
    /\ F \in [0 .. n -> Seq(S)]
    /\ F[0] = <<>>
    /\ \A i \in 1 .. n : F[i] = F[i - 1] \o s[i]
    /\ Trials!FlattenSeq(s) = F[n]

Pieces(S, n) == [1 .. n -> Seq(S)]

\* The pieces are joined one by one.
LEMMA FlattensOneByOne ==
    ASSUME NEW S, NEW n \in Nat, NEW s \in Pieces(S, n)
    PROVE  \E F : FlattensUp(F, S, s, n)
<1>0. s \in [1 .. n -> Seq(S)]
  BY DEF Pieces
<1> DEFINE cut(i) == [k \in 1 .. i |-> s[k]]
           F == [i \in 0 .. n |-> Sse!FlattenSeq(cut(i))]
<1>1. \A i \in 0 .. n : cut(i) \in [1 .. i -> Seq(S)]
  BY <1>0
<1>2. ASSUME NEW i \in 1 .. n
      PROVE  Sse!FlattenSeq(cut(i - 1)) \in Seq(S) /\ F[i] = F[i - 1] \o s[i]
  <2> DEFINE j == i - 1
  <2>1. j \in Nat /\ j + 1 = i /\ j \in 0 .. n /\ i \in 0 .. n /\ i \in 1 .. i
    OBVIOUS
  <2>2. cut(j) \in [1 .. j -> Seq(S)] /\ cut(j + 1) \in [1 .. j + 1 -> Seq(S)]
    BY <1>1, <2>1
  <2>3. \A k \in 1 .. j : cut(j)[k] = cut(j + 1)[k]
    BY <2>1
  <2>4. cut(j + 1)[j + 1] = s[i]
    BY <2>1
  <2>5. F[i] = Sse!FlattenSeq(cut(j + 1)) /\ F[i - 1] = Sse!FlattenSeq(cut(j))
    BY <2>1
  <2> HIDE DEF cut, F
  <2>6. /\ Sse!FlattenSeq(cut(j)) \in Seq(S)
        /\ Sse!FlattenSeq(cut(j + 1)) = Sse!FlattenSeq(cut(j)) \o cut(j + 1)[j + 1]
    BY <2>1, <2>2, <2>3, FlatGrows
  <2> QED
    BY <2>4, <2>5, <2>6
<1>3. F[0] = <<>> /\ Sse!FlattenSeq(cut(0)) = <<>>
  <2>1. cut(0) = <<>> /\ 0 \in 0 .. n
    OBVIOUS
  <2>2. Sse!FlattenSeq(<<>>) = <<>>
    BY DEF Sse!FlattenSeq
  <2> QED
    BY <2>1, <2>2
<1>4. \A i \in 0 .. n : F[i] \in Seq(S)
  <2> DEFINE T == {i \in Nat : i \in 0 .. n => F[i] \in Seq(S)}
  <2>1. 0 \in T
    BY <1>3, EmptySeq
  <2>2. ASSUME NEW i \in Nat, i \in T PROVE i + 1 \in T
    <3> DEFINE j == i + 1
    <3> SUFFICES ASSUME j \in 0 .. n PROVE F[j] \in Seq(S)
      OBVIOUS
    <3>1. j \in 1 .. n /\ i \in 0 .. n /\ j - 1 = i
      OBVIOUS
    <3>2. F[i] \in Seq(S) /\ s[j] \in Seq(S)
      BY <1>0, <2>2, <3>1
    <3> HIDE DEF j, T, F
    <3>3. F[j] = F[i] \o s[j]
      BY <1>2, <3>1
    <3> HIDE <3>1
    <3> QED
      BY <3>2, <3>3
  <2> HIDE DEF T, F
  <2>3. Nat \subseteq T
    BY <2>1, <2>2, SetInduction
  <2> QED
    BY <2>3 DEF T
<1>5. Trials!FlattenSeq(s) = F[n]
  <2>1. Trials!FlattenSeq(s) = Sse!FlattenSeq(s)
    BY DEF Trials!FlattenSeq, Sse!FlattenSeq
  <2>2. cut(n) = s /\ n \in 0 .. n
    BY <1>0
  <2> QED
    BY <2>1, <2>2
<1>6. F = [i \in 0 .. n |-> F[i]]
  OBVIOUS
<1> HIDE DEF F
<1>7. F \in [0 .. n -> Seq(S)]
  BY <1>4, <1>6
<1> QED
  BY <1>2, <1>3, <1>5, <1>7 DEF FlattensUp

LEMMA FlatFits ==
    ASSUME NEW S, NEW n \in Nat, NEW s \in Pieces(S, n)
    PROVE  Trials!FlattenSeq(s) \in Seq(S)
<1>1. PICK F : FlattensUp(F, S, s, n)
  BY FlattensOneByOne
<1>2. n \in 0 .. n
  OBVIOUS
<1> QED
  BY <1>1, <1>2 DEF FlattensUp

\* Nothing is lost at the end when the last piece is something.
LEMMA FlatEnds ==
    ASSUME NEW S, NEW n \in Nat, NEW s \in Pieces(S, n), n # 0, s[n] # <<>>
    PROVE  Trials!FlattenSeq(s) # <<>> /\ Trials!Last(Trials!FlattenSeq(s)) = Trials!Last(s[n])
<1>1. PICK F : FlattensUp(F, S, s, n)
  BY FlattensOneByOne
<1>2. n \in 1 .. n /\ n - 1 \in 0 .. n
  OBVIOUS
<1>3. Trials!FlattenSeq(s) = F[n - 1] \o s[n] /\ F[n - 1] \in Seq(S)
  BY <1>1, <1>2 DEF FlattensUp
<1>4. s[n] \in Seq(S)
  BY <1>2 DEF Pieces
<1> HIDE <1>2
<1> DEFINE u == F[n - 1]
           v == s[n]
           w == Trials!FlattenSeq(s)
<1>5. u \in Seq(S) /\ v \in Seq(S) /\ v # <<>> /\ w = u \o v
  BY <1>3, <1>4
<1> HIDE DEF u, v, w
<1>6. w # <<>> /\ w[Len(w)] = v[Len(v)]
  BY <1>5
<1> QED
  BY <1>6 DEF u, v, w, Trials!Last

Jumps(n) == {next \in [1 .. n -> 1 .. n + 1] : \A i \in 1 .. n : i < next[i]}

Moves(S, n) == [(1 .. n) \X S -> S]

Jumping(f, S, base, step, next, n) ==
    /\ f \in [1 .. n + 1 -> S]
    /\ f[n + 1] = base
    /\ \A i \in 1 .. n : f[i] = step[<<i, f[next[i]]>>]

\* From a value behind the end, the function that each place takes from a later one.
LEMMA JumpsExist ==
    ASSUME NEW S, NEW base \in S, NEW n \in Nat, NEW next \in Jumps(n), NEW step \in Moves(S, n)
    PROVE  \E f : Jumping(f, S, base, step, next, n)
<1>0. /\ step \in [(1 .. n) \X S -> S]
      /\ next \in [1 .. n -> 1 .. n + 1] /\ \A i \in 1 .. n : i < next[i]
  BY DEF Moves, Jumps
<1> DEFINE GoesOn(f, m) ==
              /\ f \in [m .. n + 1 -> S]
              /\ f[n + 1] = base
              /\ \A i \in m .. n : f[i] = step[<<i, f[next[i]]>>]
           T == {k \in Nat : k <= n => \E f : GoesOn(f, (n + 1) - k)}
<1>1. 0 \in T
  <2> DEFINE f == [i \in n + 1 .. n + 1 |-> base]
  <2>1. GoesOn(f, n + 1)
    OBVIOUS
  <2>2. (n + 1) - 0 = n + 1
    OBVIOUS
  <2> QED
    BY <2>1, <2>2
<1>2. ASSUME NEW k \in Nat, k \in T PROVE k + 1 \in T
  <2> DEFINE m == n - k
             m1 == m + 1
  <2> SUFFICES ASSUME k + 1 <= n PROVE \E f : GoesOn(f, (n + 1) - (k + 1))
    <3> HIDE DEF GoesOn
    <3> QED
      OBVIOUS
  <2>1. m \in 1 .. n /\ (n + 1) - (k + 1) = m /\ (n + 1) - k = m1 /\ m1 = m + 1
    OBVIOUS
  <2> HIDE DEF m, m1
  <2>2. PICK f : GoesOn(f, m1)
    <3>1. k <= n
      OBVIOUS
    <3> HIDE DEF GoesOn
    <3>2. \E f : GoesOn(f, (n + 1) - k)
      BY <1>2, <3>1
    <3> QED
      BY <2>1, <3>2
  <2> USE DEF m1
  <2>3. next[m] \in m1 .. n + 1
    BY <1>0, <2>1
  <2>4. f[next[m]] \in S
    BY <2>2, <2>3
  <2>5. step[<<m, f[next[m]]>>] \in S
    BY <1>0, <2>1, <2>4
  <2> DEFINE first == step[<<m, f[next[m]]>>]
             g == [i \in m .. n + 1 |-> IF i = m THEN first ELSE f[i]]
  <2>6. g \in [m .. n + 1 -> S]
    <3> SUFFICES ASSUME NEW i \in m .. n + 1, i # m PROVE f[i] \in S
      BY <2>5
    <3>1. i \in m1 .. n + 1
      BY <2>1
    <3> QED
      BY <2>2, <3>1
  <2>7. g[n + 1] = base
    BY <2>1, <2>2
  <2>8. ASSUME NEW i \in m .. n PROVE g[i] = step[<<i, g[next[i]]>>]
    <3>1. i \in 1 .. n /\ next[i] \in m .. n + 1 /\ next[i] # m
      BY <1>0, <2>1
    <3>2. g[next[i]] = f[next[i]]
      BY <3>1
    <3>3. CASE i = m
      <4>1. g[i] = first
        BY <3>1, <3>3
      <4> QED
        BY <3>2, <3>3, <4>1
    <3>4. CASE i # m
      <4>1. i \in m1 .. n /\ g[i] = f[i]
        BY <2>1, <3>4
      <4> QED
        BY <2>2, <3>2, <4>1
    <3> QED
      BY <3>3, <3>4
  <2>9. GoesOn(g, m)
    BY <2>6, <2>7, <2>8
  <2> QED
    BY <2>1, <2>9
<1> HIDE DEF T
<1>3. n \in T
  BY <1>1, <1>2, SetInduction
<1>4. n <= n /\ (n + 1) - n = 1
  OBVIOUS
<1>5. PICK f : GoesOn(f, 1)
  BY <1>3, <1>4 DEF T
<1> QED
  BY <1>5 DEF Jumping

JumpAlike(f, g, next, n) ==
    f[n + 1] = g[n + 1] /\ \A i \in 1 .. n : f[next[i]] = g[next[i]] => f[i] = g[i]

LEMMA JumpsAlike ==
    ASSUME NEW n \in Nat, NEW f, NEW g, NEW next \in Jumps(n), JumpAlike(f, g, next, n)
    PROVE  \A i \in 1 .. n + 1 : f[i] = g[i]
<1>0. /\ f[n + 1] = g[n + 1] /\ \A i \in 1 .. n : f[next[i]] = g[next[i]] => f[i] = g[i]
      /\ next \in [1 .. n -> 1 .. n + 1] /\ \A i \in 1 .. n : i < next[i]
  BY DEF JumpAlike, Jumps
<1> DEFINE T == {k \in Nat : \A i \in 1 .. n + 1 : n - k < i => f[i] = g[i]}
<1>1. 0 \in T
  <2>1. \A i \in 1 .. n + 1 : n - 0 < i => i = n + 1
    OBVIOUS
  <2> QED
    BY <1>0, <2>1
<1>2. ASSUME NEW k \in Nat, k \in T PROVE k + 1 \in T
  <2> SUFFICES ASSUME NEW i \in 1 .. n + 1, n - (k + 1) < i, ~ (n - k < i) PROVE f[i] = g[i]
    BY <1>2
  <2>1. i \in 1 .. n
    OBVIOUS
  <2>2. next[i] \in 1 .. n + 1 /\ n - k < next[i]
    BY <1>0, <2>1
  <2>3. f[next[i]] = g[next[i]]
    BY <1>2, <2>2
  <2> QED
    BY <1>0, <2>1, <2>3
<1> HIDE DEF T
<1>3. n \in T
  BY <1>1, <1>2, SetInduction
<1>4. \A i \in 1 .. n + 1 : n - n < i
  OBVIOUS
<1> QED
  BY <1>3, <1>4 DEF T

-----------------------------------------------------------------------------
(* TextEdits: the places where a replacement is due                           *)

Inside(D, l, i) == \E d \in D : d < i /\ i < d + l

DueAmong(D, P, l) == D \subseteq P /\ \A p \in P : p \in D <=> ~ Inside(D, l, p)

LEMMA DueExists ==
    ASSUME NEW n \in Nat, NEW l \in Nat, NEW P \in SUBSET (1 .. n)
    PROVE  \E D : DueAmong(D, P, l)
<1> DEFINE Upto(D, k) == /\ D \subseteq P /\ \A d \in D : d <= k
                         /\ \A p \in P : p <= k => (p \in D <=> ~ Inside(D, l, p))
           T == {k \in Nat : \E D : Upto(D, k)}
<1>1. 0 \in T
  <2>1. Upto({}, 0)
    BY DEF Inside
  <2> QED
    BY <2>1
<1>2. ASSUME NEW k \in Nat, k \in T PROVE k + 1 \in T
  <2>1. PICK D : Upto(D, k)
    BY <1>2
  <2> DEFINE j == k + 1
             E == D \cup {j}
  <2>2. j \in Nat /\ k < j /\ \A p \in P : p \in Nat /\ (p <= j <=> p <= k \/ p = j)
    OBVIOUS
  <2>3. \A d \in D : d \in Nat /\ d <= k /\ d # j
    BY <2>1
  <2>4. ~ Inside(E, l, j) <=> ~ Inside(D, l, j)
    BY <2>2 DEF Inside
  <2>5. \A p \in P : p <= k => (Inside(E, l, p) <=> Inside(D, l, p))
    BY <2>2, <2>3 DEF Inside
  <2>6. CASE j \in P /\ ~ Inside(D, l, j)
    <3>1. Upto(E, j)
      <4>1. E \subseteq P /\ \A d \in E : d <= j
        BY <2>1, <2>2, <2>3, <2>6
      <4>2. ASSUME NEW p \in P, p <= j PROVE p \in E <=> ~ Inside(E, l, p)
        <5>1. CASE p = j
          BY <2>4, <2>6, <5>1
        <5>2. CASE p <= k
          <6>1. p # j /\ (p \in D <=> ~ Inside(D, l, p))
            BY <2>1, <2>2, <5>2
          <6> QED
            BY <2>5, <5>2, <6>1
        <5> QED
          BY <2>2, <4>2, <5>1, <5>2
      <4> QED
        BY <4>1, <4>2
    <3> QED
      BY <3>1
  <2>7. CASE ~ (j \in P /\ ~ Inside(D, l, j))
    <3>1. Upto(D, j)
      BY <2>1, <2>2, <2>3, <2>7
    <3> HIDE DEF Upto
    <3> QED
      BY <3>1
  <2> QED
    BY <2>6, <2>7
<1> HIDE DEF T
<1>3. n \in T
  BY <1>1, <1>2, SetInduction
<1>4. PICK D : Upto(D, n)
  BY <1>3 DEF T
<1>5. \A p \in P : p <= n
  OBVIOUS
<1> QED
  BY <1>4, <1>5 DEF DueAmong

Scans(Q, D, P, l, n) ==
    /\ <<1, 1>> \in Q
    /\ \A i \in D : <<i, i>> \in Q => <<i + 1, i + l>> \in Q
    /\ \A i \in 1 .. n : i \notin P /\ i \notin D /\ ~ Inside(D, l, i) /\ <<i, i>> \in Q
          => <<i + 1, i + 1>> \in Q
    /\ \A i \in 1 .. n, j \in 1 .. n + 1 :
          i < j /\ i \notin D /\ Inside(D, l, i) /\ <<i, j>> \in Q => <<i + 1, j>> \in Q

\* Along a text place by place, while the search that jumps over each place it
\* finds stands at the second of the pair.
LEMMA ScanToTheEnd ==
    ASSUME NEW n \in Nat, NEW l \in Nat, l # 0, NEW P \in SUBSET (1 .. n),
           \A p \in P : p + l <= n + 1,
           NEW D, DueAmong(D, P, l), NEW Q, Scans(Q, D, P, l, n)
    PROVE  <<n + 1, n + 1>> \in Q
<1> DEFINE T == {m \in Nat : m \in 1 .. n + 1 =>
                    /\ ~ Inside(D, l, m) => <<m, m>> \in Q
                    /\ \A d \in D : d < m /\ m < d + l => <<m, d + l>> \in Q}
<1>0. \A d \in D : d \in P /\ d \in 1 .. n /\ d + l <= n + 1 /\ ~ Inside(D, l, d)
  BY DEF DueAmong
<1>1. 0 \in T
  OBVIOUS
<1>2. ASSUME NEW k \in Nat, k \in T PROVE k + 1 \in T
  <2> DEFINE m == k + 1
  <2> SUFFICES ASSUME m \in 1 .. n + 1
               PROVE  /\ ~ Inside(D, l, m) => <<m, m>> \in Q
                      /\ \A d \in D : d < m /\ m < d + l => <<m, d + l>> \in Q
    OBVIOUS
  <2>1. CASE k = 0
    <3>1. m = 1 /\ \A d \in D : ~ (d < m)
      BY <1>0, <2>1
    <3> QED
      BY <3>1 DEF Scans
  <2>2. CASE k \in D
    <3>1. <<k, k>> \in Q
      BY <1>0, <1>2, <2>2
    <3>2. <<m, k + l>> \in Q
      BY <2>2, <3>1 DEF Scans
    <3>3. \A d \in D : d < m /\ m < d + l => d = k
      <4> SUFFICES ASSUME NEW d \in D, d < k, k < d + l PROVE FALSE
        BY <1>0
      <4>1. Inside(D, l, k)
        BY DEF Inside
      <4> QED
        BY <1>0, <2>2, <4>1
    <3>4. ASSUME ~ Inside(D, l, m) PROVE m = k + l
      <4>1. ~ (k < m /\ m < k + l)
        BY <2>2, <3>4 DEF Inside
      <4> QED
        BY <4>1
    <3> QED
      BY <3>2, <3>3, <3>4
  <2>3. CASE k # 0 /\ k \notin D /\ Inside(D, l, k)
    <3>1. ASSUME NEW d \in D, d < k, k < d + l PROVE <<m, d + l>> \in Q
      <4>0. k \in 1 .. n + 1
        BY <2>3
      <4>1. <<k, d + l>> \in Q
        BY <1>2, <3>1, <4>0
      <4>2. k \in 1 .. n /\ d + l \in 1 .. n + 1
        BY <1>0, <2>3
      <4> QED
        BY <2>3, <3>1, <4>1, <4>2 DEF Scans
    <3>2. \A d \in D : d < m => d < k
      BY <1>0, <2>3
    <3>3. ASSUME ~ Inside(D, l, m) PROVE <<m, m>> \in Q
      <4>1. PICK d \in D : d < k /\ k < d + l
        BY <2>3 DEF Inside
      <4>2. ~ (d < m /\ m < d + l)
        BY <3>3 DEF Inside
      <4>3. d + l = m
        BY <1>0, <4>1, <4>2
      <4> QED
        BY <3>1, <4>1, <4>3
    <3> QED
      BY <1>0, <3>1, <3>2, <3>3
  <2>4. CASE k # 0 /\ k \notin D /\ ~ Inside(D, l, k)
    <3>1. k \in 1 .. n /\ <<k, k>> \in Q
      BY <1>2, <2>4
    <3>2. k \notin P
      BY <2>4 DEF DueAmong
    <3>3. <<m, m>> \in Q
      BY <2>4, <3>1, <3>2 DEF Scans
    <3>4. \A d \in D : ~ (d < m /\ m < d + l)
      <4> SUFFICES ASSUME NEW d \in D, d < m, m < d + l PROVE FALSE
        OBVIOUS
      <4>1. d < k /\ k < d + l
        BY <1>0, <2>4
      <4> QED
        BY <2>4, <4>1 DEF Inside
    <3> QED
      BY <3>3, <3>4
  <2> QED
    BY <2>1, <2>2, <2>3, <2>4
<1> HIDE DEF T
<1>3. n + 1 \in T
  BY <1>1, <1>2, SetInduction
<1>4. ~ Inside(D, l, n + 1)
  BY <1>0 DEF Inside
<1> QED
  BY <1>3, <1>4 DEF T

LEMMA DueIs ==
    ASSUME NEW A, NEW s \in Seq(A), NEW from \in Seq(A)
    PROVE  /\ Trials!Positions(from, s) \subseteq 1 .. Len(s)
           /\ \A p \in Trials!Positions(from, s) : p + Len(from) <= Len(s) + 1
           /\ DueAmong(Trials!Due(s, from), Trials!Positions(from, s), Len(from))
<1> DEFINE P == Trials!Positions(from, s)
           l == Len(from)
           n == Len(s)
<1>0. n \in Nat /\ l \in Nat
  OBVIOUS
<1>1. P \subseteq 1 .. n /\ \A p \in P : p + l <= n + 1
  BY <1>0 DEF Trials!Positions, Trials!OccursAt
<1> HIDE DEF P, n, l
<1>2. \E D : DueAmong(D, P, l)
  BY <1>0, <1>1, DueExists
<1>3. \E D \in SUBSET P : \A p \in P : p \in D <=> ~ \E d \in D : d < p /\ p < d + l
  BY <1>2 DEF DueAmong, Inside
<1>4. Trials!Due(s, from) =
         CHOOSE D \in SUBSET P : \A p \in P : p \in D <=> ~ \E d \in D : d < p /\ p < d + l
  BY DEF Trials!Due, P, l
<1> DEFINE X == Trials!Due(s, from)
<1>5. X \in SUBSET P /\ \A p \in P : p \in X <=> ~ \E d \in X : d < p /\ p < d + l
  BY <1>3, <1>4
<1> HIDE DEF X
<1>6. DueAmong(X, P, l)
  BY <1>5 DEF DueAmong, Inside
<1> QED
  BY <1>1, <1>6 DEF P, l, n, X

ReplacePieces(s, from, to) ==
    [i \in 1 .. Len(s) |->
        CASE i \in Trials!Due(s, from) -> to
          [] \E d \in Trials!Due(s, from) : d < i /\ i < d + Len(from) -> <<>>
          [] OTHER -> <<s[i]>>]

Replaces(F, A, s, from, to) ==
    /\ F \in [0 .. Len(s) -> Seq(A)]
    /\ F[0] = <<>>
    /\ Trials!Replacing(s, from, to) = F[Len(s)]
    /\ \A i \in 1 .. Len(s) :
          /\ i \in Trials!Due(s, from) => F[i] = F[i - 1] \o to
          /\ i \notin Trials!Due(s, from) /\ Inside(Trials!Due(s, from), Len(from), i) => F[i] = F[i - 1]
          /\ i \notin Trials!Due(s, from) /\ ~ Inside(Trials!Due(s, from), Len(from), i)
                => F[i] = Append(F[i - 1], s[i])

LEMMA ReplacingOneByOne ==
    ASSUME NEW A, NEW s \in Seq(A), NEW from \in Seq(A), NEW to \in Seq(A)
    PROVE  \E F : Replaces(F, A, s, from, to)
<1> DEFINE r == ReplacePieces(s, from, to)
           D == Trials!Due(s, from)
           n == Len(s)
           l == Len(from)
<1>0. n \in Nat /\ \A i \in 1 .. n : <<s[i]>> \in Seq(A) /\ <<>> \in Seq(A)
  OBVIOUS
<1>7. \A i \in D : ~ Inside(D, l, i)
  BY DueIs DEF DueAmong
<1>1. \A i \in 1 .. n : r[i] = IF i \in D THEN to ELSE IF Inside(D, l, i) THEN <<>> ELSE <<s[i]>>
  <2> SUFFICES ASSUME NEW i \in 1 .. n
               PROVE  r[i] = IF i \in D THEN to ELSE IF Inside(D, l, i) THEN <<>> ELSE <<s[i]>>
    OBVIOUS
  <2>1. r[i] = CASE i \in D -> to
                 [] Inside(D, l, i) -> <<>>
                 [] OTHER -> <<s[i]>>
    BY DEF ReplacePieces, Inside
  <2> HIDE DEF r, D, n, l
  <2>2. Inside(D, l, i) => i \notin D
    BY <1>7
  <2> QED
    BY <2>1, <2>2
<1>2. r \in Pieces(A, n)
  <2>1. \A i \in 1 .. n : r[i] \in Seq(A)
    BY <1>0, <1>1
  <2>2. r = [i \in 1 .. n |-> r[i]]
    BY DEF ReplacePieces
  <2> HIDE DEF r
  <2> QED
    BY <2>1, <2>2 DEF Pieces
<1>3. Trials!Replacing(s, from, to) = Trials!FlattenSeq(r)
  BY DEF Trials!Replacing, ReplacePieces
<1> HIDE DEF r, D, n, l
<1>4. PICK F : FlattensUp(F, A, r, n)
  BY <1>0, <1>2, FlattensOneByOne
<1>5. F \in [0 .. n -> Seq(A)] /\ F[0] = <<>> /\ Trials!Replacing(s, from, to) = F[n]
  BY <1>3, <1>4 DEF FlattensUp
<1>6. ASSUME NEW i \in 1 .. n
      PROVE  /\ i \in D => F[i] = F[i - 1] \o to
             /\ i \notin D /\ Inside(D, l, i) => F[i] = F[i - 1]
             /\ i \notin D /\ ~ Inside(D, l, i) => F[i] = Append(F[i - 1], s[i])
  <2>1. i - 1 \in 0 .. n
    BY <1>0
  <2>2. F[i - 1] \in Seq(A) /\ F[i] = F[i - 1] \o r[i]
    BY <1>4, <1>5, <2>1 DEF FlattensUp
  <2>3. \A q \in Seq(A) : q \o <<>> = q /\ \A x \in A : q \o <<x>> = Append(q, x)
    OBVIOUS
  <2>4. s[i] \in A
    BY DEF n
  <2>5. r[i] = IF i \in D THEN to ELSE IF Inside(D, l, i) THEN <<>> ELSE <<s[i]>>
    BY <1>1
  <2>6. CASE i \in D
    BY <2>2, <2>5, <2>6
  <2>7. CASE i \notin D /\ Inside(D, l, i)
    BY <2>2, <2>3, <2>5, <2>7
  <2>8. CASE i \notin D /\ ~ Inside(D, l, i)
    BY <2>2, <2>3, <2>4, <2>5, <2>8
  <2> QED
    BY <2>6, <2>7, <2>8
<1> QED
  BY <1>5, <1>6 DEF Replaces, D, n, l

ReplaceStep(f, s, from, to, i) ==
    IF i > Len(s) THEN <<>>
    ELSE IF Trials!OccursAt(from, s, i) THEN to \o f[i + Len(from)]
    ELSE <<s[i]>> \o f[i + 1]

IsReplacing(f, s, from, to) == f = [i \in 1 .. Len(s) + 1 |-> ReplaceStep(f, s, from, to, i)]

CountStep(f, s, from, i) ==
    IF i > Len(s) THEN 0
    ELSE IF Trials!OccursAt(from, s, i) THEN 1 + f[i + Len(from)]
    ELSE f[i + 1]

IsCounting(f, s, from) == f = [i \in 1 .. Len(s) + 1 |-> CountStep(f, s, from, i)]

NextOf(s, from) ==
    [i \in 1 .. Len(s) |-> IF Trials!OccursAt(from, s, i) THEN i + Len(from) ELSE i + 1]

LEMMA NextJumps ==
    ASSUME NEW A, NEW s \in Seq(A), NEW from \in Seq(A), from # <<>>
    PROVE  NextOf(s, from) \in Jumps(Len(s))
<1>1. Len(from) \in Nat /\ Len(from) # 0 /\ Len(s) \in Nat
  OBVIOUS
<1> DEFINE n == Len(s)
           l == Len(from)
<1>2. \A i \in 1 .. n : Trials!OccursAt(from, s, i) => i + l <= n + 1
  BY <1>1 DEF Trials!OccursAt
<1> HIDE DEF n, l
<1>3. \A i \in 1 .. n : (IF Trials!OccursAt(from, s, i) THEN i + l ELSE i + 1) \in 1 .. n + 1
  BY <1>1, <1>2 DEF n, l
<1>4. NextOf(s, from) = [i \in 1 .. n |-> IF Trials!OccursAt(from, s, i) THEN i + l ELSE i + 1]
  BY DEF NextOf, n, l
<1>5. NextOf(s, from) \in [1 .. n -> 1 .. n + 1]
  BY <1>3, <1>4
<1>6. \A i \in 1 .. n : i < NextOf(s, from)[i]
  BY <1>1, <1>4 DEF n, l
<1> QED
  BY <1>5, <1>6 DEF Jumps, n

ReplacesAll(f, A, s, from, to) ==
    /\ f \in [1 .. Len(s) + 1 -> Seq(A)]
    /\ Trials!ReplaceAllStr(s, from, to) = f[1]
    /\ f[Len(s) + 1] = <<>>
    /\ \A i \in 1 .. Len(s) :
          /\ Trials!OccursAt(from, s, i) => f[i] = to \o f[i + Len(from)]
          /\ ~ Trials!OccursAt(from, s, i) => f[i] = <<s[i]>> \o f[i + 1]

LEMMA ReplaceAllJumps ==
    ASSUME NEW A, NEW s \in Seq(A), NEW from \in Seq(A), from # <<>>, NEW to \in Seq(A)
    PROVE  \E f : ReplacesAll(f, A, s, from, to)
<1> DEFINE n == Len(s)
           S == Seq(A)
           next == NextOf(s, from)
           put(i, q) == IF Trials!OccursAt(from, s, i) THEN to \o q ELSE <<s[i]>> \o q
           step == [p \in (1 .. n) \X S |-> put(p[1], p[2])]
           F == CHOOSE g : IsReplacing(g, s, from, to)
<1>0. n \in Nat /\ n + 1 \in 1 .. n + 1 /\ 1 \in 1 .. n + 1 /\ ~ (n + 1 <= n)
  OBVIOUS
<1>1. next \in Jumps(n)
  BY NextJumps
<1>1a. next \in [1 .. n -> 1 .. n + 1]
  BY <1>1 DEF Jumps
<1>2. \A i \in 1 .. n, q \in S : put(i, q) \in S
  <2> SUFFICES ASSUME NEW i \in 1 .. n, NEW q \in S PROVE put(i, q) \in S
    OBVIOUS
  <2>1. s[i] \in A
    OBVIOUS
  <2>2. to \o q \in S /\ <<s[i]>> \o q \in S
    BY <2>1
  <2> QED
    BY <2>2
<1>3. <<>> \in S
  OBVIOUS
<1>4. next = [i \in 1 .. n |-> IF Trials!OccursAt(from, s, i) THEN i + Len(from) ELSE i + 1]
  BY DEF NextOf
<1> HIDE DEF n, S, put, next
<1>5. step \in Moves(S, n) /\ \A i \in 1 .. n, q \in S : step[<<i, q>>] = put(i, q)
  <2>1. \A p \in (1 .. n) \X S : put(p[1], p[2]) \in S
    BY <1>2
  <2> QED
    BY <2>1 DEF Moves
<1> HIDE DEF step
<1>6. PICK f : Jumping(f, S, <<>>, step, next, n)
  BY <1>0, <1>1, <1>3, <1>5, JumpsExist
<1>7. f \in [1 .. n + 1 -> S] /\ f[n + 1] = <<>> /\ \A i \in 1 .. n : f[i] = put(i, f[next[i]])
  <2>1. /\ f \in [1 .. n + 1 -> S] /\ f[n + 1] = <<>>
        /\ \A i \in 1 .. n : f[i] = step[<<i, f[next[i]]>>]
    BY <1>6 DEF Jumping
  <2>2. \A i \in 1 .. n : f[next[i]] \in S
    BY <1>1a, <2>1
  <2> QED
    BY <1>5, <2>1, <2>2
<1>8. ASSUME NEW g, NEW i \in 1 .. n
      PROVE  ReplaceStep(g, s, from, to, i) = put(i, g[next[i]])
  <2>1. ~ (i > Len(s))
    BY <1>0 DEF n
  <2> QED
    BY <1>4, <2>1 DEF ReplaceStep, put
<1>9. ASSUME NEW g PROVE ReplaceStep(g, s, from, to, n + 1) = <<>>
  BY <1>0 DEF ReplaceStep, n
<1>10. IsReplacing(f, s, from, to)
  <2>1. \A i \in 1 .. n + 1 : f[i] = ReplaceStep(f, s, from, to, i)
    <3> SUFFICES ASSUME NEW i \in 1 .. n + 1 PROVE f[i] = ReplaceStep(f, s, from, to, i)
      OBVIOUS
    <3>1. CASE i = n + 1
      BY <1>7, <1>9, <3>1
    <3>2. CASE i # n + 1
      <4>1. i \in 1 .. n
        BY <1>0, <3>2
      <4> QED
        BY <1>7, <1>8, <4>1
    <3> QED
      BY <3>1, <3>2
  <2>2. f = [i \in 1 .. n + 1 |-> f[i]]
    BY <1>7
  <2> QED
    BY <2>1, <2>2 DEF IsReplacing, n
<1>11. IsReplacing(F, s, from, to)
  BY <1>10
<1>12. Trials!ReplaceAllStr(s, from, to) = F[1]
  BY DEF Trials!ReplaceAllStr, IsReplacing, ReplaceStep
<1> HIDE DEF F
<1>13. JumpAlike(F, f, next, n)
  <2>1. \A i \in 1 .. n + 1 : F[i] = ReplaceStep(F, s, from, to, i)
    BY <1>11 DEF IsReplacing, n
  <2>2. F[n + 1] = f[n + 1]
    BY <1>0, <1>7, <1>9, <2>1
  <2>3. ASSUME NEW i \in 1 .. n, F[next[i]] = f[next[i]] PROVE F[i] = f[i]
    <3>1. i \in 1 .. n + 1
      BY <1>0
    <3> QED
      BY <1>7, <1>8, <2>1, <2>3, <3>1
  <2> QED
    BY <2>2, <2>3 DEF JumpAlike
<1>14. F[1] = f[1]
  BY <1>0, <1>1, <1>13, JumpsAlike
<1>15. \A i \in 1 .. n : /\ Trials!OccursAt(from, s, i) => f[i] = to \o f[i + Len(from)]
                         /\ ~ Trials!OccursAt(from, s, i) => f[i] = <<s[i]>> \o f[i + 1]
  BY <1>4, <1>7 DEF put
<1> QED
  BY <1>7, <1>12, <1>14, <1>15 DEF ReplacesAll, n, S

LEMMA JoinedInTurn ==
    ASSUME NEW A, NEW u \in Seq(A), NEW v \in Seq(A), NEW w \in Seq(A)
    PROVE  u \o (v \o w) = (u \o v) \o w
OBVIOUS

LEMMA AppendConcat ==
    ASSUME NEW A, NEW u \in Seq(A), NEW v \in Seq(A), NEW x \in A
    PROVE  u \o Append(v, x) = Append(u \o v, x)
OBVIOUS

LEMMA OneJoined ==
    ASSUME NEW A, NEW u \in Seq(A), NEW x \in A, NEW w \in Seq(A)
    PROVE  u \o (<<x>> \o w) = Append(u, x) \o w
<1>1. <<x>> \in Seq(A) /\ u \o <<x>> = Append(u, x)
  OBVIOUS
<1> QED
  BY <1>1, JoinedInTurn

LEMMA OccursAtPositions ==
    ASSUME NEW A, NEW s \in Seq(A), NEW from \in Seq(A), NEW i \in 1 .. Len(s)
    PROVE  Trials!OccursAt(from, s, i) <=> i \in Trials!Positions(from, s)
BY DEF Trials!Positions

\* To replace wherever the search stops is to replace at the places that are due.
LEMMA ReplaceAllIsReplacing ==
    ASSUME NEW A, NEW s \in Seq(A), NEW from \in Seq(A), from # <<>>, NEW to \in Seq(A)
    PROVE  Trials!ReplaceAllStr(s, from, to) = Trials!Replacing(s, from, to)
<1> DEFINE n == Len(s)
           l == Len(from)
           P == Trials!Positions(from, s)
           D == Trials!Due(s, from)
<1>1. n \in Nat /\ l \in Nat /\ l # 0
  OBVIOUS
<1>2. P \subseteq 1 .. n /\ (\A p \in P : p + l <= n + 1) /\ DueAmong(D, P, l)
  BY DueIs
<1>3. \A i \in 1 .. n : Trials!OccursAt(from, s, i) <=> i \in P
  BY OccursAtPositions
<1>4. PICK f : ReplacesAll(f, A, s, from, to)
  BY ReplaceAllJumps
<1>5. PICK F : Replaces(F, A, s, from, to)
  BY ReplacingOneByOne
<1>6. /\ f \in [1 .. n + 1 -> Seq(A)] /\ Trials!ReplaceAllStr(s, from, to) = f[1] /\ f[n + 1] = <<>>
      /\ \A i \in 1 .. n : /\ i \in P => f[i] = to \o f[i + l]
                           /\ i \notin P => f[i] = <<s[i]>> \o f[i + 1]
  BY <1>3, <1>4 DEF ReplacesAll
<1>7. /\ F \in [0 .. n -> Seq(A)] /\ F[0] = <<>> /\ Trials!Replacing(s, from, to) = F[n]
      /\ \A i \in 1 .. n :
            /\ i \in D => F[i] = F[i - 1] \o to
            /\ i \notin D /\ Inside(D, l, i) => F[i] = F[i - 1]
            /\ i \notin D /\ ~ Inside(D, l, i) => F[i] = Append(F[i - 1], s[i])
  BY <1>5 DEF Replaces
<1>8. \A i \in 1 .. n : s[i] \in A
  OBVIOUS
<1> HIDE DEF n, l, P, D
<1> DEFINE Q == {p \in (1 .. n + 1) \X (1 .. n + 1) : f[1] = F[p[1] - 1] \o f[p[2]]}
<1>9. \A i, j \in 1 .. n + 1 : <<i, j>> \in Q <=> f[1] = F[i - 1] \o f[j]
  OBVIOUS
<1> HIDE DEF Q
<1>10. \A i \in 1 .. n + 1 : i - 1 \in 0 .. n
  BY <1>1
<1>11. \A d \in D : d \in P /\ d \in 1 .. n /\ d + l \in 1 .. n + 1
  BY <1>1, <1>2 DEF DueAmong
<1>12. \A i \in 1 .. n : i \in 1 .. n + 1 /\ i + 1 \in 1 .. n + 1 /\ (i + 1) - 1 = i
  BY <1>1
<1>15. <<1, 1>> \in Q
  <2>1. 1 \in 1 .. n + 1 /\ 1 - 1 = 0 /\ \A q \in Seq(A) : <<>> \o q = q
    BY <1>1
  <2>2. f[1] = F[1 - 1] \o f[1]
    <3>1. F[1 - 1] = <<>> /\ f[1] \in Seq(A)
      BY <1>6, <1>7, <2>1
    <3> QED
      BY <2>1, <3>1
  <2> QED
    BY <1>9, <2>1, <2>2
<1>16. ASSUME NEW i \in D, <<i, i>> \in Q PROVE <<i + 1, i + l>> \in Q
  <2>1. f[1] = F[i - 1] \o f[i] /\ f[i] = to \o f[i + l] /\ F[i] = F[i - 1] \o to
    BY <1>6, <1>7, <1>9, <1>11, <1>12, <1>16
  <2>2. F[i - 1] \in Seq(A) /\ f[i + l] \in Seq(A)
    BY <1>6, <1>7, <1>10, <1>11, <1>12
  <2>3. f[1] = F[i] \o f[i + l]
    <3> DEFINE u == F[i - 1]
               w == f[i + l]
    <3>0. u \in Seq(A) /\ w \in Seq(A)
      BY <2>2
    <3> HIDE DEF u, w
    <3>1. u \o (to \o w) = (u \o to) \o w
      BY <3>0
    <3> USE DEF u, w
    <3> QED
      BY <2>1, <3>1
  <2>4. f[1] = F[(i + 1) - 1] \o f[i + l]
    BY <1>11, <1>12, <2>3
  <2> QED
    BY <1>9, <1>11, <1>12, <2>4
<1>17. ASSUME NEW i \in 1 .. n, i \notin P, i \notin D, ~ Inside(D, l, i), <<i, i>> \in Q
       PROVE  <<i + 1, i + 1>> \in Q
  <2>1. f[1] = F[i - 1] \o f[i] /\ f[i] = <<s[i]>> \o f[i + 1] /\ F[i] = Append(F[i - 1], s[i])
    BY <1>6, <1>7, <1>9, <1>12, <1>17
  <2>2. F[i - 1] \in Seq(A) /\ f[i + 1] \in Seq(A)
    BY <1>6, <1>7, <1>10, <1>12
  <2>3. f[1] = F[i] \o f[i + 1]
    <3> DEFINE u == F[i - 1]
               x == s[i]
               w == f[i + 1]
    <3>0. u \in Seq(A) /\ w \in Seq(A) /\ x \in A
      BY <1>8, <2>2
    <3> HIDE DEF u, w, x
    <3>1. u \o (<<x>> \o w) = Append(u, x) \o w
      BY <3>0, OneJoined, SMTT(20)
    <3> USE DEF u, w, x
    <3> QED
      BY <2>1, <3>1
  <2>4. f[1] = F[(i + 1) - 1] \o f[i + 1]
    BY <1>12, <2>3
  <2> QED
    BY <1>9, <1>12, <2>4
<1>18. ASSUME NEW i \in 1 .. n, NEW j \in 1 .. n + 1, i < j, i \notin D, Inside(D, l, i), <<i, j>> \in Q
       PROVE  <<i + 1, j>> \in Q
  <2>1. f[1] = F[i - 1] \o f[j] /\ F[i] = F[i - 1]
    BY <1>7, <1>9, <1>12, <1>18
  <2>2. f[1] = F[(i + 1) - 1] \o f[j]
    BY <1>12, <2>1
  <2> QED
    BY <1>9, <1>12, <2>2
<1>19. Scans(Q, D, P, l, n)
  BY <1>15, <1>16, <1>17, <1>18 DEF Scans
<1>20. <<n + 1, n + 1>> \in Q
  BY <1>1, <1>2, <1>19, ScanToTheEnd
<1>21. n + 1 \in 1 .. n + 1 /\ (n + 1) - 1 = n /\ \A q \in Seq(A) : q \o <<>> = q
  BY <1>1
<1>22. f[1] = F[n] \o f[n + 1] /\ F[n] \in Seq(A)
  <2>1. f[1] = F[(n + 1) - 1] \o f[n + 1]
    BY <1>9, <1>20, <1>21
  <2>2. n \in 0 .. n
    BY <1>1
  <2> QED
    BY <1>7, <1>21, <2>1, <2>2
<1> QED
  BY <1>6, <1>7, <1>21, <1>22

Counts(f, s, from) ==
    /\ f \in [1 .. Len(s) + 1 -> Nat]
    /\ Trials!CountOccurrences(s, from) = f[1]
    /\ f[Len(s) + 1] = 0
    /\ \A i \in 1 .. Len(s) :
          /\ Trials!OccursAt(from, s, i) => f[i] = 1 + f[i + Len(from)]
          /\ ~ Trials!OccursAt(from, s, i) => f[i] = f[i + 1]

LEMMA CountJumps ==
    ASSUME NEW A, NEW s \in Seq(A), NEW from \in Seq(A), from # <<>>
    PROVE  \E f : Counts(f, s, from)
<1> DEFINE n == Len(s)
           next == NextOf(s, from)
           put(i, q) == IF Trials!OccursAt(from, s, i) THEN 1 + q ELSE q
           step == [p \in (1 .. n) \X Nat |-> put(p[1], p[2])]
           F == CHOOSE g : IsCounting(g, s, from)
<1>0. n \in Nat /\ n + 1 \in 1 .. n + 1 /\ 1 \in 1 .. n + 1 /\ ~ (n + 1 <= n)
  OBVIOUS
<1>1. next \in Jumps(n)
  BY NextJumps
<1>1a. next \in [1 .. n -> 1 .. n + 1]
  BY <1>1 DEF Jumps
<1>2. \A i \in 1 .. n, q \in Nat : put(i, q) \in Nat
  OBVIOUS
<1>3. 0 \in Nat
  OBVIOUS
<1>4. next = [i \in 1 .. n |-> IF Trials!OccursAt(from, s, i) THEN i + Len(from) ELSE i + 1]
  BY DEF NextOf
<1> HIDE DEF n, put, next
<1>5. step \in Moves(Nat, n) /\ \A i \in 1 .. n, q \in Nat : step[<<i, q>>] = put(i, q)
  <2>1. \A p \in (1 .. n) \X Nat : put(p[1], p[2]) \in Nat
    BY <1>2
  <2> QED
    BY <2>1 DEF Moves
<1> HIDE DEF step
<1>6. PICK f : Jumping(f, Nat, 0, step, next, n)
  BY <1>0, <1>1, <1>3, <1>5, JumpsExist
<1>7. f \in [1 .. n + 1 -> Nat] /\ f[n + 1] = 0 /\ \A i \in 1 .. n : f[i] = put(i, f[next[i]])
  <2>1. /\ f \in [1 .. n + 1 -> Nat] /\ f[n + 1] = 0
        /\ \A i \in 1 .. n : f[i] = step[<<i, f[next[i]]>>]
    BY <1>6 DEF Jumping
  <2>2. \A i \in 1 .. n : f[next[i]] \in Nat
    BY <1>1a, <2>1
  <2> QED
    BY <1>5, <2>1, <2>2
<1>8. ASSUME NEW g, NEW i \in 1 .. n
      PROVE  CountStep(g, s, from, i) = put(i, g[next[i]])
  <2>1. ~ (i > Len(s))
    BY <1>0 DEF n
  <2> QED
    BY <1>4, <2>1 DEF CountStep, put
<1>9. ASSUME NEW g PROVE CountStep(g, s, from, n + 1) = 0
  BY <1>0 DEF CountStep, n
<1>10. IsCounting(f, s, from)
  <2>1. \A i \in 1 .. n + 1 : f[i] = CountStep(f, s, from, i)
    <3> SUFFICES ASSUME NEW i \in 1 .. n + 1 PROVE f[i] = CountStep(f, s, from, i)
      OBVIOUS
    <3>1. CASE i = n + 1
      BY <1>7, <1>9, <3>1
    <3>2. CASE i # n + 1
      <4>1. i \in 1 .. n
        BY <1>0, <3>2
      <4> QED
        BY <1>7, <1>8, <4>1
    <3> QED
      BY <3>1, <3>2
  <2>2. f = [i \in 1 .. n + 1 |-> f[i]]
    BY <1>7
  <2> QED
    BY <2>1, <2>2 DEF IsCounting, n
<1>11. IsCounting(F, s, from)
  BY <1>10
<1>12. Trials!CountOccurrences(s, from) = F[1]
  BY DEF Trials!CountOccurrences, IsCounting, CountStep
<1> HIDE DEF F
<1>13. JumpAlike(F, f, next, n)
  <2>1. \A i \in 1 .. n + 1 : F[i] = CountStep(F, s, from, i)
    BY <1>11 DEF IsCounting, n
  <2>2. F[n + 1] = f[n + 1]
    BY <1>0, <1>7, <1>9, <2>1
  <2>3. ASSUME NEW i \in 1 .. n, F[next[i]] = f[next[i]] PROVE F[i] = f[i]
    <3>1. i \in 1 .. n + 1
      BY <1>0
    <3> QED
      BY <1>7, <1>8, <2>1, <2>3, <3>1
  <2> QED
    BY <2>2, <2>3 DEF JumpAlike
<1>14. F[1] = f[1]
  BY <1>0, <1>1, <1>13, JumpsAlike
<1>15. \A i \in 1 .. n : /\ Trials!OccursAt(from, s, i) => f[i] = 1 + f[i + Len(from)]
                         /\ ~ Trials!OccursAt(from, s, i) => f[i] = f[i + 1]
  BY <1>4, <1>7 DEF put
<1> QED
  BY <1>7, <1>12, <1>14, <1>15 DEF Counts, n

\* What is counted is the places that are due.
LEMMA CountIsDue ==
    ASSUME NEW A, NEW s \in Seq(A), NEW from \in Seq(A), from # <<>>
    PROVE  /\ Trials!CountOccurrences(s, from) = Cardinality(Trials!Due(s, from))
           /\ IsFiniteSet(Trials!Due(s, from))
<1> DEFINE n == Len(s)
           l == Len(from)
           P == Trials!Positions(from, s)
           D == Trials!Due(s, from)
           upto(i) == {d \in D : d <= i}
<1>1. n \in Nat /\ l \in Nat /\ l # 0
  OBVIOUS
<1>2. P \subseteq 1 .. n /\ (\A p \in P : p + l <= n + 1) /\ DueAmong(D, P, l)
  BY DueIs
<1>3. \A i \in 1 .. n : Trials!OccursAt(from, s, i) <=> i \in P
  BY OccursAtPositions
<1>4. PICK f : Counts(f, s, from)
  BY CountJumps
<1>6. /\ f \in [1 .. n + 1 -> Nat] /\ Trials!CountOccurrences(s, from) = f[1] /\ f[n + 1] = 0
      /\ \A i \in 1 .. n : /\ i \in P => f[i] = 1 + f[i + l]
                           /\ i \notin P => f[i] = f[i + 1]
  BY <1>3, <1>4 DEF Counts
<1> HIDE DEF n, l, P, D
<1>7. \A d \in D : d \in P /\ d \in 1 .. n /\ d + l \in 1 .. n + 1
  BY <1>1, <1>2 DEF DueAmong
<1>8. IsFiniteSet(1 .. n)
  BY <1>1, FS_Interval
<1>9. IsFiniteSet(D) /\ \A i : IsFiniteSet(upto(i))
  <2>1. D \subseteq 1 .. n /\ \A i : upto(i) \subseteq 1 .. n
    BY <1>7
  <2> QED
    BY <1>8, <2>1, FS_Subset
<1>10. \A i : Cardinality(upto(i)) \in Nat
  BY <1>9, FS_CardinalityType
<1>11. upto(0) = {} /\ upto(n) = D
  BY <1>1, <1>7
<1>12. ASSUME NEW i \in 1 .. n
       PROVE  /\ i \notin D => upto(i) = upto(i - 1)
              /\ i \in D => Cardinality(upto(i)) = Cardinality(upto(i - 1)) + 1
  <2>1. \A d \in D : d \in Int /\ (d <= i <=> d <= i - 1 \/ d = i) /\ ~ (i <= i - 1)
    BY <1>1, <1>7
  <2>2. i \in D => upto(i) = upto(i - 1) \cup {i} /\ i \notin upto(i - 1)
    BY <2>1
  <2>3. i \notin D => upto(i) = upto(i - 1)
    BY <2>1
  <2> DEFINE U == upto(i - 1)
             V == upto(i)
  <2>4. IsFiniteSet(U)
    BY <1>9
  <2> HIDE DEF upto, U, V
  <2>5. i \in D => V = U \cup {i} /\ i \notin U
    BY <2>2 DEF U, V
  <2>6. i \in D => Cardinality(V) = Cardinality(U) + 1
    BY <2>4, <2>5, FS_AddElement
  <2> QED
    BY <2>3, <2>6 DEF U, V
<1> DEFINE Q == {p \in (1 .. n + 1) \X (1 .. n + 1) : f[1] = Cardinality(upto(p[1] - 1)) + f[p[2]]}
           c(i) == Cardinality(upto(i))
<1>13. \A i, j \in 1 .. n + 1 : <<i, j>> \in Q <=> f[1] = c(i - 1) + f[j]
  OBVIOUS
<1>14. /\ \A i : c(i) \in Nat
       /\ \A i \in 1 .. n : (i \notin D => c(i) = c(i - 1)) /\ (i \in D => c(i) = c(i - 1) + 1)
       /\ c(0) = 0 /\ c(n) = Cardinality(D)
  <2> HIDE DEF upto
  <2> QED
    BY <1>10, <1>11, <1>12, FS_EmptySet
<1> HIDE DEF Q, c
<1>15. \A i \in 1 .. n : i \in 1 .. n + 1 /\ i + 1 \in 1 .. n + 1 /\ (i + 1) - 1 = i
  BY <1>1
<1>16. <<1, 1>> \in Q
  <2>1. 1 \in 1 .. n + 1 /\ 1 - 1 = 0
    BY <1>1
  <2>2. f[1] \in Nat
    BY <1>6, <2>1
  <2>3. f[1] = c(1 - 1) + f[1]
    BY <1>14, <2>1, <2>2
  <2> QED
    BY <1>13, <2>1, <2>3
<1>17. ASSUME NEW i \in D, <<i, i>> \in Q PROVE <<i + 1, i + l>> \in Q
  <2>1. i \in 1 .. n /\ i \in P /\ i + l \in 1 .. n + 1 /\ i \in 1 .. n + 1 /\ i + 1 \in 1 .. n + 1
    BY <1>7, <1>15
  <2>2. f[1] = c(i - 1) + f[i]
    BY <1>13, <1>17, <2>1
  <2>3. f[i] = 1 + f[i + l] /\ f[i + l] \in Nat
    BY <1>6, <2>1
  <2>4. c(i) = c(i - 1) + 1 /\ c(i - 1) \in Nat
    BY <1>14, <2>1
  <2>5. f[1] = c(i) + f[i + l]
    BY <2>2, <2>3, <2>4
  <2> QED
    BY <1>13, <1>15, <2>1, <2>5
<1>18. ASSUME NEW i \in 1 .. n, i \notin P, i \notin D, ~ Inside(D, l, i), <<i, i>> \in Q
       PROVE  <<i + 1, i + 1>> \in Q
  <2>1. f[1] = c(i - 1) + f[i] /\ f[i] = f[i + 1] /\ c(i) = c(i - 1)
    BY <1>6, <1>13, <1>14, <1>15, <1>18
  <2> QED
    BY <1>13, <1>15, <2>1
<1>19. ASSUME NEW i \in 1 .. n, NEW j \in 1 .. n + 1, i < j, i \notin D, Inside(D, l, i), <<i, j>> \in Q
       PROVE  <<i + 1, j>> \in Q
  <2>1. f[1] = c(i - 1) + f[j] /\ c(i) = c(i - 1)
    BY <1>13, <1>14, <1>15, <1>19
  <2> QED
    BY <1>13, <1>15, <2>1
<1>20. Scans(Q, D, P, l, n)
  BY <1>16, <1>17, <1>18, <1>19 DEF Scans
<1>21. <<n + 1, n + 1>> \in Q
  BY <1>1, <1>2, <1>20, ScanToTheEnd
<1>22. f[1] = c(n)
  <2>1. n + 1 \in 1 .. n + 1 /\ (n + 1) - 1 = n
    BY <1>1
  <2>2. f[1] = c((n + 1) - 1) + f[n + 1]
    BY <1>13, <1>21, <2>1
  <2> QED
    BY <1>6, <1>14, <2>1, <2>2
<1> QED
  BY <1>6, <1>9, <1>14, <1>22 DEF D

\* When one place is due, it is the first.
LEMMA ReplaceFirstIsReplacing ==
    ASSUME NEW A, NEW s \in Seq(A), NEW from \in Seq(A), from # <<>>, NEW to \in Seq(A),
           Cardinality(Trials!Due(s, from)) = 1
    PROVE  Trials!ReplaceFirst(s, from, to) = Trials!Replacing(s, from, to)
<1> DEFINE n == Len(s)
           l == Len(from)
           P == Trials!Positions(from, s)
           D == Trials!Due(s, from)
<1>1. n \in Nat /\ l \in Nat /\ l # 0
  OBVIOUS
<1>2. P \subseteq 1 .. n /\ (\A p \in P : p + l <= n + 1) /\ DueAmong(D, P, l)
  BY DueIs
<1>3. PICK F : Replaces(F, A, s, from, to)
  BY ReplacingOneByOne
<1>4. /\ F \in [0 .. n -> Seq(A)] /\ F[0] = <<>> /\ Trials!Replacing(s, from, to) = F[n]
      /\ \A i \in 1 .. n :
            /\ i \in D => F[i] = F[i - 1] \o to
            /\ i \notin D /\ Inside(D, l, i) => F[i] = F[i - 1]
            /\ i \notin D /\ ~ Inside(D, l, i) => F[i] = Append(F[i - 1], s[i])
  BY <1>3 DEF Replaces
<1>5. IsFiniteSet(D) /\ Cardinality(D) = 1
  BY CountIsDue
<1> HIDE DEF D
<1>6. PICK d : D = {d}
  BY <1>5, FS_Singleton
<1>7. d \in P /\ d \in 1 .. n /\ d + l <= n + 1
  BY <1>2, <1>6 DEF DueAmong
<1>8. \A p \in P : d <= p
  <2> SUFFICES ASSUME NEW p \in P, p < d PROVE FALSE
    BY <1>2, <1>7
  <2>1. p \notin D
    BY <1>2, <1>6, <1>7
  <2>2. Inside(D, l, p)
    BY <1>2, <2>1 DEF DueAmong
  <2>3. d < p
    BY <1>6, <2>2 DEF Inside
  <2> QED
    BY <1>2, <1>7, <2>3
<1>9. d = CHOOSE p \in P : \A q \in P : p <= q
  <2>1. \A p \in P : (\A q \in P : p <= q) => p = d
    BY <1>2, <1>7, <1>8
  <2> QED
    BY <1>7, <1>8, <2>1
<1>10. Trials!ReplaceFirst(s, from, to) = SubSeq(s, 1, d - 1) \o to \o SubSeq(s, d + l, n)
  BY <1>9 DEF Trials!ReplaceFirst
<1> HIDE DEF P, n, l
<1>11. \A i \in 1 .. n : /\ i \in D <=> i = d
                         /\ Inside(D, l, i) <=> (d < i /\ i < d + l)
  BY <1>6 DEF Inside
<1>12. \A i \in 1 .. n : s[i] \in A
  BY DEF n
<1> DEFINE front == SubSeq(s, 1, d - 1) \o to
           G(i) == IF i < d THEN SubSeq(s, 1, i)
                   ELSE IF i < d + l THEN front ELSE front \o SubSeq(s, d + l, i)
<1>13. \A i \in Nat, j \in 1 .. n : i <= n => SubSeq(s, j, i) \in Seq(A)
  <2> SUFFICES ASSUME NEW i \in Nat, NEW j \in 1 .. n, i <= n PROVE SubSeq(s, j, i) \in Seq(A)
    OBVIOUS
  <2>1. \A k \in j .. i : s[k] \in A
    BY <1>1, <1>12
  <2> QED
    BY <1>1, <2>1, SubSeqProperties
<1>14. ASSUME NEW i \in 1 .. n, NEW j \in 1 .. i PROVE SubSeq(s, j, i) = Append(SubSeq(s, j, i - 1), s[i])
  <2>1. s \in Seq(A) /\ j \in 1 .. Len(s) /\ i \in j .. Len(s)
    BY <1>1 DEF n
  <2>2. SubSeq(s, j, i) = SubSeq(s, j, i - 1) \o <<s[i]>>
    BY <2>1, SubSeqRecursiveSecond
  <2>3. SubSeq(s, j, i - 1) \in Seq(A)
    <3>1. i - 1 \in Nat /\ i - 1 <= n /\ j \in 1 .. n
      BY <1>1
    <3> QED
      BY <1>13, <3>1
  <2> QED
    BY <1>12, <2>2, <2>3, AppendIsConcat
<1>15. front \in Seq(A)
  <2>1. SubSeq(s, 1, d - 1) \in Seq(A)
    <3>1. d - 1 \in Nat /\ d - 1 <= n /\ 1 \in 1 .. n
      BY <1>1, <1>7
    <3> QED
      BY <1>13, <3>1
  <2> QED
    BY <2>1
<1> DEFINE T == {i \in Nat : i <= n => F[i] = G(i)}
<1>16. 0 \in T
  <2>1. SubSeq(s, 1, 0) = <<>> /\ 0 < d
    BY <1>1, <1>7
  <2> QED
    BY <1>4, <2>1
<1>17. ASSUME NEW k \in Nat, k \in T PROVE k + 1 \in T
  <2> DEFINE i == k + 1
  <2> SUFFICES ASSUME i <= n PROVE F[i] = G(i)
    OBVIOUS
  <2>1. i \in 1 .. n /\ i - 1 = k /\ k \in 0 .. n
    BY <1>1
  <2>2. F[k] = G(k)
    BY <1>17, <2>1
  <2> HIDE DEF T, front
  <2>3. CASE i < d
    <3>1. k < d /\ i # d /\ ~ (d < i)
      BY <1>7, <2>1, <2>3
    <3>2. F[i] = Append(F[k], s[i])
      BY <1>4, <1>11, <2>1, <3>1
    <3>3. SubSeq(s, 1, i) = Append(SubSeq(s, 1, k), s[i])
      BY <1>14, <2>1
    <3> QED
      BY <2>2, <2>3, <3>1, <3>2, <3>3
  <2>4. CASE i = d
    <3>1. k < d /\ ~ (i < d) /\ i < d + l /\ k = d - 1
      BY <1>1, <1>7, <2>1, <2>4
    <3>2. F[i] = F[k] \o to
      BY <1>4, <1>11, <2>1, <2>4
    <3>3. G(k) = SubSeq(s, 1, d - 1) /\ G(i) = front
      BY <3>1
    <3> QED
      BY <2>2, <3>2, <3>3 DEF front
  <2>5. CASE d < i /\ i < d + l
    <3>1. ~ (k < d) /\ k < d + l /\ ~ (i < d) /\ i # d
      BY <1>1, <1>7, <2>1, <2>5
    <3>2. F[i] = F[k]
      BY <1>4, <1>11, <2>1, <2>5, <3>1
    <3>3. G(k) = front /\ G(i) = front
      BY <2>5, <3>1
    <3> QED
      BY <2>2, <3>2, <3>3
  <2>6. CASE d + l <= i
    <3>1. /\ ~ (i < d) /\ i # d /\ ~ (i < d + l) /\ ~ (k < d) /\ d + l \in 1 .. i /\ d + l \in 1 .. n
          /\ d + l \in Int
      BY <1>1, <1>7, <2>1, <2>6
    <3>2. F[i] = Append(F[k], s[i])
      BY <1>4, <1>11, <2>1, <3>1
    <3>3. SubSeq(s, d + l, i) = Append(SubSeq(s, d + l, k), s[i])
      BY <1>14, <2>1, <3>1
    <3>4. SubSeq(s, d + l, k) \in Seq(A)
      BY <1>13, <2>1, <3>1
    <3>5. G(k) = front \o SubSeq(s, d + l, k)
      <4>1. CASE k < d + l
        <5>1. SubSeq(s, d + l, k) = <<>>
          BY <2>1, <3>1, <4>1, SubSeqEmpty
        <5>2. front \o <<>> = front
          BY <1>15
        <5> QED
          BY <3>1, <4>1, <5>1, <5>2
      <4>2. CASE ~ (k < d + l)
        BY <3>1, <4>2
      <4> QED
        BY <4>1, <4>2
    <3>6. G(i) = front \o SubSeq(s, d + l, i)
      BY <3>1
    <3> DEFINE w == SubSeq(s, d + l, k)
    <3>7. front \o Append(w, s[i]) = Append(front \o w, s[i])
      <4>1. s[i] \in A /\ w \in Seq(A)
        BY <1>12, <2>1, <3>4
      <4> HIDE DEF w
      <4> QED
        BY <1>15, <4>1, AppendConcat
    <3> HIDE DEF G
    <3> QED
      BY <2>2, <3>2, <3>3, <3>5, <3>6, <3>7
  <2> QED
    BY <1>1, <1>7, <2>1, <2>3, <2>4, <2>5, <2>6
<1> HIDE DEF T, G
<1>18. n \in T /\ n <= n
  BY <1>1, <1>16, <1>17, SetInduction
<1>19. F[n] = G(n)
  BY <1>18 DEF T
<1>20. G(n) = front \o SubSeq(s, d + l, n)
  <2>1. ~ (n < d)
    BY <1>1, <1>7
  <2>2. CASE n < d + l
    <3>1. SubSeq(s, d + l, n) = <<>>
      BY <1>1, <1>7, <2>2, SubSeqEmpty
    <3>2. front \o <<>> = front
      BY <1>15
    <3> HIDE DEF front
    <3> QED
      BY <2>1, <2>2, <3>1, <3>2 DEF G
  <2>3. CASE ~ (n < d + l)
    BY <2>1, <2>3 DEF G
  <2> QED
    BY <2>2, <2>3
<1> QED
  BY <1>4, <1>10, <1>19, <1>20

-----------------------------------------------------------------------------
(* TextEdits: line ends                                                       *)

Tidy(w) == Trials!AllCRLF(w) /\ (w # <<>> => Trials!Last(w) # CR)

LEMMA NormalizeFits ==
    ASSUME NEW A, NEW s \in Seq(A)
    PROVE  /\ Trials!NormalizeLineEndings(s) \in Seq(A)
           /\ s # <<>> => Trials!NormalizeLineEndings(s) # <<>>
<1> DEFINE n == Len(s)
           r == [i \in 1 .. n |-> IF Trials!OccursAt(<<CR, NL>>, s, i) THEN <<>> ELSE <<s[i]>>]
<1>1. n \in Nat
  OBVIOUS
<1>2. r \in Pieces(A, n)
  <2>1. \A i \in 1 .. n : (IF Trials!OccursAt(<<CR, NL>>, s, i) THEN <<>> ELSE <<s[i]>>) \in Seq(A)
    OBVIOUS
  <2> HIDE DEF n
  <2> QED
    BY <2>1 DEF Pieces
<1>3. Trials!NormalizeLineEndings(s) = Trials!FlattenSeq(r)
  BY DEF Trials!NormalizeLineEndings
<1>4. s # <<>> => n # 0 /\ r[n] # <<>>
  <2> SUFFICES ASSUME s # <<>> PROVE n # 0 /\ r[n] # <<>>
    OBVIOUS
  <2>1. n # 0 /\ n \in 1 .. n
    OBVIOUS
  <2>2. ~ Trials!OccursAt(<<CR, NL>>, s, n)
    <3>1. Len(<<CR, NL>>) = 2 /\ ~ ((n + 2) - 1 <= n)
      BY <1>1
    <3> QED
      BY <3>1 DEF Trials!OccursAt
  <2>3. r[n] = <<s[n]>>
    BY <2>1, <2>2
  <2>4. <<s[n]>> # <<>>
    OBVIOUS
  <2> QED
    BY <2>1, <2>3, <2>4
<1> HIDE DEF r, n
<1>5. Trials!FlattenSeq(r) \in Seq(A)
  BY <1>1, <1>2, FlatFits
<1>6. s # <<>> => Trials!FlattenSeq(r) # <<>>
  BY <1>1, <1>2, <1>4, FlatEnds
<1> QED
  BY <1>3, <1>5, <1>6

LEMMA CRLFJoined ==
    ASSUME NEW A, NEW u \in Seq(A), NEW v \in Seq(A), Trials!AllCRLF(u), Trials!AllCRLF(v)
    PROVE  Trials!AllCRLF(u \o v)
<1> SUFFICES ASSUME NEW i \in 1 .. Len(u \o v), (u \o v)[i] = NL
             PROVE  i > 1 /\ (u \o v)[i - 1] = CR
  BY DEF Trials!AllCRLF
<1>1. CASE i <= Len(u)
  <2>1. i \in 1 .. Len(u) /\ u[i] = NL
    BY <1>1
  <2>2. i > 1 /\ u[i - 1] = CR
    BY <2>1 DEF Trials!AllCRLF
  <2>3. (u \o v)[i - 1] = u[i - 1]
    BY <2>1, <2>2
  <2> QED
    BY <2>2, <2>3
<1>2. CASE i > Len(u)
  <2> DEFINE j == i - Len(u)
  <2>1. j \in 1 .. Len(v) /\ v[j] = NL
    BY <1>2
  <2>2. j > 1 /\ v[j - 1] = CR
    <3> HIDE DEF j
    <3> QED
      BY <2>1 DEF Trials!AllCRLF
  <2>3. (u \o v)[i - 1] = v[j - 1] /\ i > 1
    BY <2>1, <2>2
  <2> QED
    BY <2>2, <2>3
<1> QED
  BY <1>1, <1>2

LEMMA ConvertFits ==
    ASSUME NEW A, NL \in A, CR \in A, NEW s \in Seq(A), NEW crlf \in BOOLEAN
    PROVE  /\ Trials!ConvertToLineEnding(s, crlf) \in Seq(A)
           /\ s # <<>> => Trials!ConvertToLineEnding(s, crlf) # <<>>
           /\ crlf /\ Trials!NoCR(s) => Tidy(Trials!ConvertToLineEnding(s, crlf))
<1>0. NL # CR
  BY TextsAssumption DEF Trials!TextsFit
<1> DEFINE norm == Trials!NormalizeLineEndings(s)
           n == Len(norm)
           r == [i \in 1 .. n |-> IF norm[i] = NL THEN <<CR, NL>> ELSE <<norm[i]>>]
<1>1. norm \in Seq(A) /\ (s # <<>> => norm # <<>>)
  BY NormalizeFits
<1>2. Trials!ConvertToLineEnding(s, crlf) = IF crlf THEN Trials!FlattenSeq(r) ELSE norm
  BY DEF Trials!ConvertToLineEnding
<1>3. CASE ~ crlf
  <2> HIDE DEF norm, n, r
  <2> QED
    BY <1>1, <1>2, <1>3
<1>4. CASE crlf
  <2>0. \A i \in 1 .. n : norm[i] \in A
    BY <1>1
  <2>1. n \in Nat /\ (s # <<>> => n # 0)
    BY <1>1
  <2>5. Trials!NoCR(s) => \A i \in 1 .. n : norm[i] # CR
    <3> SUFFICES ASSUME Trials!NoCR(s) PROVE \A i \in 1 .. n : norm[i] # CR
      OBVIOUS
    <3> DEFINE B == A \ {CR}
    <3>1. s \in Seq(B)
      BY DEF Trials!NoCR
    <3>2. norm \in Seq(B)
      BY <3>1, NormalizeFits
    <3> HIDE DEF norm
    <3> QED
      BY <3>2
  <2> HIDE DEF norm, n
  <2>2. r \in Pieces(A, n)
    <3>1. \A i \in 1 .. n : (IF norm[i] = NL THEN <<CR, NL>> ELSE <<norm[i]>>) \in Seq(A)
      BY <2>0
    <3> QED
      BY <3>1 DEF Pieces
  <2>3. \A i \in 1 .. n : r[i] = IF norm[i] = NL THEN <<CR, NL>> ELSE <<norm[i]>>
    OBVIOUS
  <2>4. \A i \in 1 .. n : /\ r[i] # <<>> /\ Trials!AllCRLF(r[i])
                          /\ norm[i] # CR => Trials!Last(r[i]) # CR
    <3> SUFFICES ASSUME NEW i \in 1 .. n
                 PROVE  /\ r[i] # <<>> /\ Trials!AllCRLF(r[i])
                        /\ norm[i] # CR => Trials!Last(r[i]) # CR
      OBVIOUS
    <3>1. CASE norm[i] = NL
      <4>1. r[i] = <<CR, NL>>
        BY <2>3, <3>1
      <4>2. <<CR, NL>> # <<>> /\ Len(<<CR, NL>>) = 2 /\ <<CR, NL>>[1] = CR /\ <<CR, NL>>[2] = NL
        OBVIOUS
      <4>3. \A k \in 1 .. 2 : <<CR, NL>>[k] = NL => k > 1 /\ <<CR, NL>>[k - 1] = CR
        BY <1>0, <4>2
      <4>4. Trials!AllCRLF(<<CR, NL>>)
        BY <4>2, <4>3 DEF Trials!AllCRLF
      <4>5. Trials!Last(<<CR, NL>>) = NL
        BY <4>2 DEF Trials!Last
      <4> HIDE DEF r
      <4> QED
        BY <1>0, <4>1, <4>2, <4>4, <4>5
    <3>2. CASE norm[i] # NL
      <4> DEFINE x == norm[i]
      <4>1. r[i] = <<x>> /\ x # NL
        BY <2>3, <3>2
      <4> HIDE DEF x, r
      <4>2. <<x>> # <<>> /\ Len(<<x>>) = 1 /\ <<x>>[1] = x /\ \A k \in 1 .. 1 : k = 1
        OBVIOUS
      <4>3. Trials!AllCRLF(<<x>>) /\ Trials!Last(<<x>>) = x
        BY <4>1, <4>2 DEF Trials!AllCRLF, Trials!Last
      <4> QED
        BY <4>1, <4>2, <4>3 DEF x
    <3> QED
      BY <3>1, <3>2
  <2> HIDE DEF r
  <2>6. PICK F : FlattensUp(F, A, r, n)
    BY <2>1, <2>2, FlattensOneByOne
  <2>7. /\ F \in [0 .. n -> Seq(A)] /\ F[0] = <<>> /\ Trials!FlattenSeq(r) = F[n]
        /\ \A i \in 1 .. n : F[i] = F[i - 1] \o r[i]
    BY <2>6 DEF FlattensUp
  <2> DEFINE T == {i \in Nat : i \in 0 .. n => Trials!AllCRLF(F[i])}
  <2>8. 0 \in T
    <3>1. Trials!AllCRLF(<<>>)
      BY DEF Trials!AllCRLF
    <3> QED
      BY <2>7, <3>1
  <2>9. ASSUME NEW k \in Nat, k \in T PROVE k + 1 \in T
    <3> DEFINE i == k + 1
    <3> SUFFICES ASSUME i \in 0 .. n PROVE Trials!AllCRLF(F[i])
      OBVIOUS
    <3>1. i \in 1 .. n /\ i - 1 = k /\ k \in 0 .. n
      BY <2>1
    <3> DEFINE u == F[k]
               v == r[i]
    <3>2. F[i] = u \o v /\ Trials!AllCRLF(u) /\ Trials!AllCRLF(v)
      BY <2>4, <2>7, <2>9, <3>1
    <3>3. u \in Seq(A) /\ v \in Seq(A)
      BY <2>2, <2>7, <3>1 DEF Pieces
    <3> HIDE DEF u, v
    <3>4. Trials!AllCRLF(u \o v)
      BY <3>2, <3>3, CRLFJoined
    <3> QED
      BY <3>2, <3>4
  <2> HIDE DEF T
  <2>10. n \in T /\ n \in 0 .. n
    BY <2>1, <2>8, <2>9, SetInduction
  <2>11. Trials!AllCRLF(F[n])
    BY <2>10 DEF T
  <2>12. n # 0 => n \in 1 .. n /\ r[n] # <<>>
    BY <2>1, <2>4
  <2>13. n # 0 => F[n] # <<>> /\ Trials!Last(F[n]) = Trials!Last(r[n])
    BY <2>1, <2>2, <2>7, <2>12, FlatEnds
  <2>14. F[n] \in Seq(A) /\ (n = 0 => F[n] = <<>>)
    BY <2>7, <2>10
  <2>15. Trials!NoCR(s) => Tidy(F[n])
    BY <2>4, <2>5, <2>11, <2>12, <2>13, <2>14 DEF Tidy
  <2> QED
    BY <1>2, <1>4, <2>1, <2>7, <2>13, <2>14, <2>15
<1> QED
  BY <1>3, <1>4

\* Where every line ends in CR NL, the text to be replaced does, and the text put in does.
LEMMA ReplacingKeepsCRLF ==
    ASSUME NEW A, NEW s \in Seq(A), NEW from \in Seq(A), NEW to \in Seq(A),
           from # <<>>, Tidy(from), Trials!AllCRLF(to), Trials!AllCRLF(s)
    PROVE  Trials!AllCRLF(Trials!Replacing(s, from, to))
<1> DEFINE n == Len(s)
           l == Len(from)
           P == Trials!Positions(from, s)
           D == Trials!Due(s, from)
<1>1. n \in Nat /\ l \in Nat /\ l # 0
  OBVIOUS
<1>2. P \subseteq 1 .. n /\ (\A p \in P : p + l <= n + 1) /\ DueAmong(D, P, l)
  BY DueIs
<1>3. PICK F : Replaces(F, A, s, from, to)
  BY ReplacingOneByOne
<1>4. /\ F \in [0 .. n -> Seq(A)] /\ F[0] = <<>> /\ Trials!Replacing(s, from, to) = F[n]
      /\ \A i \in 1 .. n :
            /\ i \in D => F[i] = F[i - 1] \o to
            /\ i \notin D /\ Inside(D, l, i) => F[i] = F[i - 1]
            /\ i \notin D /\ ~ Inside(D, l, i) => F[i] = Append(F[i - 1], s[i])
  BY <1>3 DEF Replaces
<1>5. \A p \in P : \A k \in 1 .. l : s[(p + k) - 1] = from[k]
  <2> SUFFICES ASSUME NEW p \in P, NEW k \in 1 .. l PROVE s[(p + k) - 1] = from[k]
    OBVIOUS
  <2>1. p \in Nat /\ SubSeq(s, p, (p + l) - 1) = from
    BY <1>2 DEF Trials!Positions, Trials!OccursAt
  <2>2. SubSeq(s, p, (p + l) - 1)[k] = s[(p + k) - 1]
    BY <1>1, <1>2, <2>1
  <2> QED
    BY <2>1, <2>2
<1>6. \A i \in 1 .. n : s[i] = NL => i > 1 /\ s[i - 1] = CR
  BY DEF Trials!AllCRLF
<1>7. from[l] # CR /\ from[1] # NL
  <2>1. 1 \in 1 .. l /\ ~ (1 > 1)
    BY <1>1
  <2>2. from[1] # NL
    BY <2>1 DEF Tidy, Trials!AllCRLF
  <2>3. from[l] # CR
    BY DEF Tidy, Trials!Last
  <2> QED
    BY <2>2, <2>3
<1>8. \A i \in 1 .. n : s[i] \in A
  OBVIOUS
<1> HIDE DEF P, D, n, l
<1>9. \A d \in D : d \in P /\ d \in 1 .. n /\ d + l \in 1 .. n + 1
  BY <1>1, <1>2 DEF DueAmong
\* The last symbol of a place that is due is not a CR.
<1>10. \A d \in D : s[(d + l) - 1] # CR
  <2>1. \A d \in D : s[(d + l) - 1] = from[l]
    <3>1. l \in 1 .. l
      BY <1>1
    <3> QED
      BY <1>5, <1>9, <3>1
  <2> QED
    BY <1>7, <2>1
<1> DEFINE Fine(i) == i + 1 <= n /\ ~ Inside(D, l, i + 1) /\ s[i + 1] = NL
                         => F[i] # <<>> /\ Trials!Last(F[i]) = CR
           T == {i \in Nat : i \in 0 .. n => Trials!AllCRLF(F[i]) /\ Fine(i)}
<1>11. 0 \in T
  <2>1. Trials!AllCRLF(<<>>)
    BY DEF Trials!AllCRLF
  <2>2. 0 + 1 <= n => s[0 + 1] # NL
    <3>1. 0 + 1 = 1 /\ ~ (1 > 1) /\ (1 <= n => 1 \in 1 .. n)
      BY <1>1
    <3> QED
      BY <1>6, <3>1
  <2> QED
    BY <1>4, <2>1, <2>2
<1>12. ASSUME NEW k \in Nat, k \in T PROVE k + 1 \in T
  <2> DEFINE i == k + 1
  <2> SUFFICES ASSUME i \in 0 .. n PROVE Trials!AllCRLF(F[i]) /\ Fine(i)
    OBVIOUS
  <2>1. i \in 1 .. n /\ i - 1 = k /\ k \in 0 .. n /\ i = k + 1 /\ i <= n
    BY <1>1
  <2>2. Trials!AllCRLF(F[k]) /\ Fine(k) /\ F[k] \in Seq(A)
    BY <1>4, <1>12, <2>1
  <2>3. i + 1 <= n /\ s[i + 1] = NL => s[i] = CR
    <3>1. i + 1 <= n => i + 1 \in 1 .. n /\ (i + 1) - 1 = i
      BY <2>1
    <3> QED
      BY <1>6, <3>1
  <2> DEFINE u == F[k]
  <2>4. u \in Seq(A) /\ Trials!AllCRLF(u)
    BY <2>2
  <2> HIDE DEF i, T
  <2>5. CASE i \in D
    <3>1. F[i] = u \o to
      BY <1>4, <2>1, <2>5
    <3> HIDE DEF u, Fine
    <3>2. Trials!AllCRLF(F[i])
      BY <2>4, <3>1, CRLFJoined
    <3>3. i + 1 <= n /\ ~ Inside(D, l, i + 1) => s[i] # CR
      <4> SUFFICES ASSUME ~ Inside(D, l, i + 1) PROVE s[i] # CR
        OBVIOUS
      <4>1. ~ (i < i + 1 /\ i + 1 < i + l)
        BY <2>5 DEF Inside
      <4>2. (i + l) - 1 = i
        BY <1>1, <2>1, <4>1
      <4>3. s[(i + l) - 1] # CR
        BY <1>10, <2>5
      <4> QED
        BY <4>2, <4>3
    <3> QED
      BY <2>3, <3>2, <3>3 DEF Fine
  <2>6. CASE i \notin D /\ Inside(D, l, i)
    <3>1. F[i] = u
      BY <1>4, <2>1, <2>6
    <3> HIDE DEF u, Fine
    <3>2. i + 1 <= n /\ ~ Inside(D, l, i + 1) => s[i] # CR
      <4> SUFFICES ASSUME ~ Inside(D, l, i + 1) PROVE s[i] # CR
        OBVIOUS
      <4>1. PICK d \in D : d < i /\ i < d + l
        BY <2>6 DEF Inside
      <4>2. ~ (d < i + 1 /\ i + 1 < d + l)
        BY DEF Inside
      <4>0. d \in Int /\ i \in Int /\ l \in Int
        BY <1>1, <1>9, <2>1
      <4>3. (d + l) - 1 = i
        BY <4>0, <4>1, <4>2
      <4>4. s[(d + l) - 1] # CR
        BY <1>10
      <4> QED
        BY <4>3, <4>4
    <3> QED
      BY <2>3, <2>4, <3>1, <3>2 DEF Fine
  <2>7. CASE i \notin D /\ ~ Inside(D, l, i)
    <3> DEFINE x == s[i]
               w == Append(u, x)
    <3>1. F[i] = w /\ x \in A
      BY <1>4, <1>8, <2>1, <2>7
    <3>2. x = NL => u # <<>> /\ Trials!Last(u) = CR
      BY <2>1, <2>2, <2>7
    <3>3. i + 1 <= n /\ s[i + 1] = NL => x = CR
      BY <2>3
    <3> HIDE DEF x, Fine, u
    <3>4. w # <<>> /\ Trials!Last(w) = x
      <4>0. u \in Seq(A) /\ x \in A
        BY <2>4, <3>1
      <4>1. w # <<>> /\ w[Len(w)] = x
        BY <4>0, SMTT(20)
      <4> HIDE DEF w
      <4> QED
        BY <4>1 DEF Trials!Last
    <3>5. Trials!AllCRLF(w)
      <4>1. \A j \in 1 .. Len(w) : j = Len(w) \/ (j \in 1 .. Len(u) /\ w[j] = u[j])
        BY <2>4, <3>1
      <4>2. \A j \in 1 .. Len(u) : u[j] = NL => j > 1 /\ w[j - 1] = CR
        <5> SUFFICES ASSUME NEW j \in 1 .. Len(u), u[j] = NL PROVE j > 1 /\ w[j - 1] = CR
          OBVIOUS
        <5>1. j > 1 /\ u[j - 1] = CR
          BY <2>4 DEF Trials!AllCRLF
        <5>2. w[j - 1] = u[j - 1]
          BY <2>4, <3>1, <5>1
        <5> QED
          BY <5>1, <5>2
      <4>3. Len(w) = Len(u) + 1 /\ w[Len(w)] = x
        BY <2>4, <3>1
      <4>4. x = NL => Len(w) > 1 /\ w[Len(w) - 1] = CR
        <5> SUFFICES ASSUME x = NL PROVE Len(w) > 1 /\ w[Len(w) - 1] = CR
          OBVIOUS
        <5>1. u # <<>> /\ u[Len(u)] = CR
          BY <3>2 DEF Trials!Last
        <5>2. Len(u) \in 1 .. Len(u) /\ w[Len(u)] = u[Len(u)] /\ Len(w) - 1 = Len(u) /\ Len(w) > 1
          BY <2>4, <3>1, <5>1
        <5> QED
          BY <5>1, <5>2
      <4> HIDE DEF w
      <4> QED
        BY <4>1, <4>2, <4>3, <4>4 DEF Trials!AllCRLF
    <3> HIDE DEF w
    <3> QED
      BY <3>1, <3>3, <3>4, <3>5 DEF Fine
  <2> QED
    BY <2>5, <2>6, <2>7
<1> HIDE DEF T
<1>13. n \in T /\ n \in 0 .. n
  BY <1>1, <1>11, <1>12, SetInduction
<1> QED
  BY <1>4, <1>13 DEF T

LEMMA SameTrialCount == \A S : Trials!Cardinality(S) = Cardinality(S)
BY DEF Trials!Cardinality, Cardinality

EditExact(A, s, old, new, all) ==
    LET from == Trials!ConvertToLineEnding(old, Trials!UsesCRLF(s))
        to == Trials!ConvertToLineEnding(new, Trials!UsesCRLF(s))
    IN  /\ from \in Seq(A) /\ to \in Seq(A) /\ from # <<>>
        /\ Trials!EditText(s, old, new, all).text = Trials!Replacing(s, from, to)
        /\ all \/ Trials!Cardinality(Trials!Due(s, from)) = 1

\* What edit makes of a text, for every text and argument.
LEMMA EditIsExact ==
    ASSUME NEW A, NL \in A, CR \in A, NEW s \in Seq(A), NEW old \in Seq(A), NEW new \in Seq(A),
           NEW all \in BOOLEAN, Trials!EditText(s, old, new, all).ok
    PROVE  EditExact(A, s, old, new, all)
<1> DEFINE crlf == Trials!UsesCRLF(s)
           from == Trials!ConvertToLineEnding(old, crlf)
           to == Trials!ConvertToLineEnding(new, crlf)
           n == Trials!CountOccurrences(s, from)
           done == IF all THEN Trials!ReplaceAllStr(s, from, to) ELSE Trials!ReplaceFirst(s, from, to)
           out == Trials!EditText(s, old, new, all)
<1>1. crlf \in BOOLEAN
  BY DEF Trials!UsesCRLF
<1>2. out = IF old = new \/ old = <<>> \/ n = 0 \/ (n > 1 /\ ~ all) THEN Trials!Rejected
            ELSE Trials!Changed(done)
  BY DEF Trials!EditText
<1>3. ~ Trials!Rejected.ok /\ Trials!Changed(done).text = done
  BY DEF Trials!Rejected, Trials!Changed
<1> SUFFICES /\ from \in Seq(A) /\ to \in Seq(A) /\ from # <<>>
             /\ out.text = Trials!Replacing(s, from, to)
             /\ all \/ Trials!Cardinality(Trials!Due(s, from)) = 1
  BY DEF EditExact
<1>4. out.ok
  OBVIOUS
<1> HIDE DEF crlf, done, n, out
<1>5. old # <<>> /\ n # 0 /\ ~ (n > 1 /\ ~ all) /\ out.text = done
  BY <1>2, <1>3, <1>4
<1>6. from \in Seq(A) /\ to \in Seq(A) /\ from # <<>>
  BY <1>1, <1>5, ConvertFits
<1> HIDE DEF from, to
<1>7. n = Cardinality(Trials!Due(s, from)) /\ n \in Nat
  BY <1>6, CountIsDue, FS_CardinalityType DEF n
<1>8. ~ all => Cardinality(Trials!Due(s, from)) = 1
  BY <1>5, <1>7
<1>9. all => done = Trials!Replacing(s, from, to)
  BY <1>6, ReplaceAllIsReplacing DEF done
<1>10. ~ all => done = Trials!Replacing(s, from, to)
  <2> SUFFICES ASSUME ~ all PROVE done = Trials!Replacing(s, from, to)
    OBVIOUS
  <2>1. Trials!ReplaceFirst(s, from, to) = Trials!Replacing(s, from, to)
    BY <1>6, <1>8, ReplaceFirstIsReplacing
  <2> QED
    BY <2>1 DEF done
<1> QED
  BY <1>5, <1>6, <1>8, <1>9, <1>10, SameTrialCount

LEMMA EditKeepsCRLF ==
    ASSUME NEW A, NL \in A, CR \in A, NEW s \in Seq(A), NEW old \in Seq(A), NEW new \in Seq(A),
           NEW all \in BOOLEAN, Trials!EditText(s, old, new, all).ok,
           Trials!UsesCRLF(s), Trials!AllCRLF(s), Trials!NoCR(old), Trials!NoCR(new)
    PROVE  Trials!AllCRLF(Trials!EditText(s, old, new, all).text)
<1> DEFINE crlf == Trials!UsesCRLF(s)
           from == Trials!ConvertToLineEnding(old, crlf)
           to == Trials!ConvertToLineEnding(new, crlf)
           out == Trials!EditText(s, old, new, all)
<1>1. crlf \in BOOLEAN /\ crlf
  BY DEF Trials!UsesCRLF
<1>2. /\ from \in Seq(A) /\ to \in Seq(A) /\ from # <<>>
      /\ out.text = Trials!Replacing(s, from, to)
  <2>1. EditExact(A, s, old, new, all)
    BY EditIsExact
  <2> QED
    BY <2>1 DEF EditExact
<1> HIDE DEF crlf, out
<1>3. Tidy(from) /\ Tidy(to)
  BY <1>1, ConvertFits
<1> HIDE DEF from, to
<1>4. Trials!AllCRLF(to)
  BY <1>3 DEF Tidy
<1>5. Trials!AllCRLF(Trials!Replacing(s, from, to))
  BY <1>2, <1>3, <1>4, ReplacingKeepsCRLF
<1> QED
  BY <1>2, <1>5 DEF out

-----------------------------------------------------------------------------
(* TextEdits: the lines joined, the groups of a section, the sides of a group *)

JoinStep(f, L, i) == IF i = 0 THEN <<>> ELSE f[i - 1] \o (IF i = 1 THEN L[i] ELSE <<NL>> \o L[i])

IsJoin(f, L, n) == f = [i \in 0 .. n |-> JoinStep(f, L, i)]

JoinsUp(f, S, L, n) ==
    /\ f \in [0 .. n -> S]
    /\ Trials!Join(L) = f[n]
    /\ f[0] = <<>>
    /\ \A i \in 1 .. n : f[i] = f[i - 1] \o (IF i = 1 THEN L[i] ELSE <<NL>> \o L[i])

LEMMA JoinsIs ==
    ASSUME NEW A, NL \in A, NEW L \in Seq(Seq(A))
    PROVE  \E f : JoinsUp(f, Seq(A), L, Len(L))
<1> DEFINE n == Len(L)
           S == Seq(A)
           base == <<>>
           put(acc, i) == acc \o (IF i = 1 THEN L[i] ELSE <<NL>> \o L[i])
           step == [p \in S \X (1 .. n) |-> put(p[1], p[2])]
           F == CHOOSE g : IsJoin(g, L, n)
<1>0. n \in Nat /\ \A i \in 1 .. n : L[i] \in Seq(A)
  OBVIOUS
<1>1. base \in S
  BY EmptySeq
<1>2. \A acc \in S, i \in 1 .. n : put(acc, i) \in S
  <2> SUFFICES ASSUME NEW acc \in S, NEW i \in 1 .. n PROVE put(acc, i) \in S
    OBVIOUS
  <2> DEFINE x == L[i]
  <2>1. x \in Seq(A)
    BY <1>0
  <2> HIDE DEF x, n
  <2>2. acc \o x \in Seq(A) /\ acc \o (<<NL>> \o x) \in Seq(A)
    BY <2>1
  <2> QED
    BY <2>2 DEF x
<1> HIDE DEF n, S, put, base
<1>3. step \in Steps(S, n) /\ \A acc \in S, i \in 1 .. n : step[<<acc, i>>] = put(acc, i)
  <2>1. \A p \in S \X (1 .. n) : put(p[1], p[2]) \in S
    BY <1>2
  <2> QED
    BY <2>1 DEF Steps
<1> HIDE DEF step
<1>4. PICK f : StepByStep(f, S, base, step, n)
  BY <1>0, <1>1, <1>3, StepsExist
<1>5. f \in [0 .. n -> S] /\ f[0] = base /\ \A i \in 1 .. n : f[i] = put(f[i - 1], i)
  <2>1. f \in [0 .. n -> S] /\ f[0] = base /\ \A i \in 1 .. n : f[i] = step[<<f[i - 1], i>>]
    BY <1>4 DEF StepByStep
  <2>2. \A i \in 1 .. n : f[i - 1] \in S
    BY <1>0, <2>1
  <2> QED
    BY <1>3, <2>1, <2>2
<1>6. ASSUME NEW g PROVE JoinStep(g, L, 0) = base
  BY DEF JoinStep, base
<1>7. ASSUME NEW g, NEW i \in 1 .. n PROVE JoinStep(g, L, i) = put(g[i - 1], i)
  <2>1. i # 0
    BY <1>0
  <2> QED
    BY <2>1 DEF JoinStep, put
<1>8. IsJoin(f, L, n)
  <2>1. \A i \in 0 .. n : f[i] = JoinStep(f, L, i)
    <3>1. \A i \in 0 .. n : i = 0 \/ i \in 1 .. n
      BY <1>0
    <3> QED
      BY <1>5, <1>6, <1>7, <3>1
  <2>2. f = [i \in 0 .. n |-> f[i]]
    BY <1>5
  <2> QED
    BY <2>1, <2>2 DEF IsJoin
<1>9. IsJoin(F, L, n)
  BY <1>8
<1>10. Trials!Join(L) = F[n]
  BY DEF Trials!Join, IsJoin, JoinStep, n
<1> HIDE DEF F
<1>11. GoAlike(F, f, n)
  <2>1. \A i \in 0 .. n : F[i] = JoinStep(F, L, i)
    BY <1>9 DEF IsJoin
  <2>2. 0 \in 0 .. n /\ \A i \in 1 .. n : i \in 0 .. n
    BY <1>0
  <2>3. F[0] = f[0]
    BY <1>5, <1>6, <2>1, <2>2
  <2>4. \A i \in 1 .. n : F[i - 1] = f[i - 1] => F[i] = f[i]
    BY <1>5, <1>7, <2>1, <2>2
  <2> QED
    BY <2>3, <2>4 DEF GoAlike
<1>12. F[n] = f[n]
  <2>1. n \in 0 .. n
    BY <1>0
  <2> QED
    BY <1>0, <1>11, <2>1, Alike
<1> QED
  BY <1>5, <1>10, <1>12 DEF JoinsUp, n, S, base, put

Plain(R) == {l \in R : l.mark # "@@"}
SomeGroup(R) == Seq(Plain(R)) \ {<<>>}
GroupAcc(R) == [all : Seq(SomeGroup(R)), group : Seq(Plain(R))]
NoGroup == [all |-> <<>>, group |-> <<>>]

GroupAt(acc, l) ==
    IF l.mark = "@@" THEN [all |-> Trials!Closed(acc), group |-> <<>>]
    ELSE [all |-> acc.all, group |-> Append(acc.group, l)]

LEMMA ClosedFits ==
    ASSUME NEW R, NEW acc \in GroupAcc(R)
    PROVE  Trials!Closed(acc) \in Seq(SomeGroup(R))
<1> DEFINE gs == acc.all
           g == acc.group
<1>1. gs \in Seq(SomeGroup(R)) /\ g \in Seq(Plain(R))
  BY DEF GroupAcc
<1>2. Trials!Closed(acc) = IF g = <<>> THEN gs ELSE Append(gs, g)
  BY DEF Trials!Closed
<1> HIDE DEF gs, g
<1>3. g # <<>> => g \in SomeGroup(R)
  BY <1>1 DEF SomeGroup
<1>4. g # <<>> => Append(gs, g) \in Seq(SomeGroup(R))
  BY <1>1, <1>3
<1> QED
  BY <1>1, <1>2, <1>4

LEMMA GroupAtFits ==
    ASSUME NEW R, NEW acc \in GroupAcc(R), NEW l \in R
    PROVE  GroupAt(acc, l) \in GroupAcc(R)
<1> DEFINE gs == acc.all
           g == acc.group
<1>1. gs \in Seq(SomeGroup(R)) /\ g \in Seq(Plain(R)) /\ <<>> \in Seq(Plain(R))
  BY DEF GroupAcc
<1>2. Trials!Closed(acc) \in Seq(SomeGroup(R))
  BY ClosedFits
<1>3. l.mark # "@@" => l \in Plain(R)
  BY DEF Plain
<1> HIDE DEF gs, g
<1>4. l.mark # "@@" => Append(g, l) \in Seq(Plain(R))
  BY <1>1, <1>3
<1>5. GroupAt(acc, l) = IF l.mark = "@@" THEN [all |-> Trials!Closed(acc), group |-> <<>>]
                        ELSE [all |-> gs, group |-> Append(g, l)]
  BY DEF GroupAt, gs, g
<1> QED
  BY <1>1, <1>2, <1>4, <1>5 DEF GroupAcc

\* The groups that have ended, and the one under way.
GroupRun(raw) ==
    LET after[i \in 0 .. Len(raw)] ==
            IF i = 0 THEN [all |-> <<>>, group |-> <<>>]
            ELSE IF raw[i].mark = "@@" THEN [all |-> Trials!Closed(after[i - 1]), group |-> <<>>]
            ELSE [all |-> after[i - 1].all, group |-> Append(after[i - 1].group, raw[i])]
    IN  after[Len(raw)]

LEMMA GroupsRun == \A raw : Trials!Groups(raw) = Trials!Closed(GroupRun(raw))
BY DEF Trials!Groups, GroupRun

GroupStep(f, raw, i) ==
    IF i = 0 THEN [all |-> <<>>, group |-> <<>>]
    ELSE IF raw[i].mark = "@@" THEN [all |-> Trials!Closed(f[i - 1]), group |-> <<>>]
    ELSE [all |-> f[i - 1].all, group |-> Append(f[i - 1].group, raw[i])]

IsGroup(f, raw, n) == f = [i \in 0 .. n |-> GroupStep(f, raw, i)]

GroupsUp(f, S, raw, n) ==
    /\ f \in [0 .. n -> S]
    /\ GroupRun(raw) = f[n]
    /\ f[0] = [all |-> <<>>, group |-> <<>>]
    /\ \A i \in 1 .. n : f[i] = GroupAt(f[i - 1], raw[i])

LEMMA GroupsIs ==
    ASSUME NEW R, NEW raw \in Seq(R)
    PROVE  \E f : GroupsUp(f, GroupAcc(R), raw, Len(raw))
<1> DEFINE n == Len(raw)
           S == GroupAcc(R)
           base == [all |-> <<>>, group |-> <<>>]
           put(acc, i) == GroupAt(acc, raw[i])
           step == [p \in S \X (1 .. n) |-> put(p[1], p[2])]
           F == CHOOSE g : IsGroup(g, raw, n)
<1>0. n \in Nat /\ \A i \in 1 .. n : raw[i] \in R
  OBVIOUS
<1>1. base \in S
  <2>1. <<>> \in Seq(SomeGroup(R)) /\ <<>> \in Seq(Plain(R))
    BY EmptySeq
  <2> QED
    BY <2>1 DEF GroupAcc
<1>2. \A acc \in S, i \in 1 .. n : put(acc, i) \in S
  <2> HIDE DEF S, n
  <2> QED
    BY <1>0, GroupAtFits DEF S
<1> HIDE DEF n, S, put, base
<1>3. step \in Steps(S, n) /\ \A acc \in S, i \in 1 .. n : step[<<acc, i>>] = put(acc, i)
  <2>1. \A p \in S \X (1 .. n) : put(p[1], p[2]) \in S
    BY <1>2
  <2> QED
    BY <2>1 DEF Steps
<1> HIDE DEF step
<1>4. PICK f : StepByStep(f, S, base, step, n)
  BY <1>0, <1>1, <1>3, StepsExist
<1>5. f \in [0 .. n -> S] /\ f[0] = base /\ \A i \in 1 .. n : f[i] = put(f[i - 1], i)
  <2>1. f \in [0 .. n -> S] /\ f[0] = base /\ \A i \in 1 .. n : f[i] = step[<<f[i - 1], i>>]
    BY <1>4 DEF StepByStep
  <2>2. \A i \in 1 .. n : f[i - 1] \in S
    BY <1>0, <2>1
  <2> QED
    BY <1>3, <2>1, <2>2
<1>6. ASSUME NEW g PROVE GroupStep(g, raw, 0) = base
  BY DEF GroupStep, base
<1>7. ASSUME NEW g, NEW i \in 1 .. n PROVE GroupStep(g, raw, i) = put(g[i - 1], i)
  <2>1. i # 0
    BY <1>0
  <2> QED
    BY <2>1 DEF GroupStep, put, GroupAt
<1>8. IsGroup(f, raw, n)
  <2>1. \A i \in 0 .. n : f[i] = GroupStep(f, raw, i)
    <3>1. \A i \in 0 .. n : i = 0 \/ i \in 1 .. n
      BY <1>0
    <3> QED
      BY <1>5, <1>6, <1>7, <3>1
  <2>2. f = [i \in 0 .. n |-> f[i]]
    BY <1>5
  <2> QED
    BY <2>1, <2>2 DEF IsGroup
<1>9. IsGroup(F, raw, n)
  BY <1>8
<1>10. GroupRun(raw) = F[n]
  BY DEF GroupRun, IsGroup, GroupStep, n
<1> HIDE DEF F
<1>11. GoAlike(F, f, n)
  <2>1. \A i \in 0 .. n : F[i] = GroupStep(F, raw, i)
    BY <1>9 DEF IsGroup
  <2>2. 0 \in 0 .. n /\ \A i \in 1 .. n : i \in 0 .. n
    BY <1>0
  <2>3. F[0] = f[0]
    BY <1>5, <1>6, <2>1, <2>2
  <2>4. \A i \in 1 .. n : F[i - 1] = f[i - 1] => F[i] = f[i]
    BY <1>5, <1>7, <2>1, <2>2
  <2> QED
    BY <2>3, <2>4 DEF GoAlike
<1>12. F[n] = f[n]
  <2>1. n \in 0 .. n
    BY <1>0
  <2> QED
    BY <1>0, <1>11, <2>1, Alike
<1> QED
  BY <1>5, <1>10, <1>12 DEF GroupsUp, n, S, base, put

SideAt(acc, l, marks) == IF l.mark \in marks THEN Append(acc, l.text) ELSE acc

SideStep(f, group, marks, i) ==
    IF i = 0 THEN <<>>
    ELSE IF group[i].mark \in marks THEN Append(f[i - 1], group[i].text) ELSE f[i - 1]

IsSide(f, group, marks, n) == f = [i \in 0 .. n |-> SideStep(f, group, marks, i)]

SidesUp(f, S, group, marks, n) ==
    /\ f \in [0 .. n -> S]
    /\ Trials!Side(group, marks) = f[n]
    /\ f[0] = <<>>
    /\ \A i \in 1 .. n : f[i] = SideAt(f[i - 1], group[i], marks)

IsSides(group, B) == Len(group) \in Nat /\ \A i \in 1 .. Len(group) : group[i].text \in B

LEMMA SidesIs ==
    ASSUME NEW B, NEW group, IsSides(group, B), NEW marks
    PROVE  \E f : SidesUp(f, Seq(B), group, marks, Len(group))
<1> DEFINE n == Len(group)
           S == Seq(B)
           base == <<>>
           put(acc, i) == SideAt(acc, group[i], marks)
           step == [p \in S \X (1 .. n) |-> put(p[1], p[2])]
           F == CHOOSE g : IsSide(g, group, marks, n)
<1>0. n \in Nat /\ \A i \in 1 .. n : group[i].text \in B
  BY DEF IsSides
<1>1. base \in S
  BY EmptySeq
<1>2. \A acc \in S, i \in 1 .. n : put(acc, i) \in S
  <2> SUFFICES ASSUME NEW acc \in S, NEW i \in 1 .. n PROVE put(acc, i) \in S
    OBVIOUS
  <2> DEFINE x == group[i].text
  <2>1. x \in B
    BY <1>0
  <2> HIDE DEF x, n
  <2>2. Append(acc, x) \in Seq(B)
    BY <2>1
  <2> QED
    BY <2>2 DEF x, SideAt
<1> HIDE DEF n, S, put, base
<1>3. step \in Steps(S, n) /\ \A acc \in S, i \in 1 .. n : step[<<acc, i>>] = put(acc, i)
  <2>1. \A p \in S \X (1 .. n) : put(p[1], p[2]) \in S
    BY <1>2
  <2> QED
    BY <2>1 DEF Steps
<1> HIDE DEF step
<1>4. PICK f : StepByStep(f, S, base, step, n)
  BY <1>0, <1>1, <1>3, StepsExist
<1>5. f \in [0 .. n -> S] /\ f[0] = base /\ \A i \in 1 .. n : f[i] = put(f[i - 1], i)
  <2>1. f \in [0 .. n -> S] /\ f[0] = base /\ \A i \in 1 .. n : f[i] = step[<<f[i - 1], i>>]
    BY <1>4 DEF StepByStep
  <2>2. \A i \in 1 .. n : f[i - 1] \in S
    BY <1>0, <2>1
  <2> QED
    BY <1>3, <2>1, <2>2
<1>6. ASSUME NEW g PROVE SideStep(g, group, marks, 0) = base
  BY DEF SideStep, base
<1>7. ASSUME NEW g, NEW i \in 1 .. n PROVE SideStep(g, group, marks, i) = put(g[i - 1], i)
  <2>1. i # 0
    BY <1>0
  <2> QED
    BY <2>1 DEF SideStep, put, SideAt
<1>8. IsSide(f, group, marks, n)
  <2>1. \A i \in 0 .. n : f[i] = SideStep(f, group, marks, i)
    <3>1. \A i \in 0 .. n : i = 0 \/ i \in 1 .. n
      BY <1>0
    <3> QED
      BY <1>5, <1>6, <1>7, <3>1
  <2>2. f = [i \in 0 .. n |-> f[i]]
    BY <1>5
  <2> QED
    BY <2>1, <2>2 DEF IsSide
<1>9. IsSide(F, group, marks, n)
  BY <1>8
<1>10. Trials!Side(group, marks) = F[n]
  BY DEF Trials!Side, IsSide, SideStep, n
<1> HIDE DEF F
<1>11. GoAlike(F, f, n)
  <2>1. \A i \in 0 .. n : F[i] = SideStep(F, group, marks, i)
    BY <1>9 DEF IsSide
  <2>2. 0 \in 0 .. n /\ \A i \in 1 .. n : i \in 0 .. n
    BY <1>0
  <2>3. F[0] = f[0]
    BY <1>5, <1>6, <2>1, <2>2
  <2>4. \A i \in 1 .. n : F[i - 1] = f[i - 1] => F[i] = f[i]
    BY <1>5, <1>7, <2>1, <2>2
  <2> QED
    BY <2>3, <2>4 DEF GoAlike
<1>12. F[n] = f[n]
  <2>1. n \in 0 .. n
    BY <1>0
  <2> QED
    BY <1>0, <1>11, <2>1, Alike
<1> QED
  BY <1>5, <1>10, <1>12 DEF SidesUp, n, S, base, put

LEMMA SidesFit ==
    ASSUME NEW B, NEW group, IsSides(group, B), NEW marks
    PROVE  Trials!Side(group, marks) \in Seq(B)
<1>1. PICK f : SidesUp(f, Seq(B), group, marks, Len(group))
  BY SidesIs
<1>2. Len(group) \in 0 .. Len(group)
  BY DEF IsSides
<1> QED
  BY <1>1, <1>2 DEF SidesUp

\* With + and - exchanged, the old side is the new one.
LEMMA SidesExchanged ==
    ASSUME NEW B, NEW group, IsSides(group, B)
    PROVE  /\ IsSides(Trials!InverseGroup(group), B)
           /\ Trials!Old(Trials!InverseGroup(group)) = Trials!New(group)
           /\ Trials!New(Trials!InverseGroup(group)) = Trials!Old(group)
<1> DEFINE n == Len(group)
           h == Trials!InverseGroup(group)
<1>1. n \in Nat /\ \A i \in 1 .. n : group[i].text \in B
  BY DEF IsSides
<1>2. Len(h) = n /\ \A i \in 1 .. n : h[i] = Trials!InverseLine(group[i])
  BY <1>1 DEF Trials!InverseGroup
<1>3. \A i \in 1 .. n :
         /\ h[i].text = group[i].text
         /\ h[i].mark \in {"", " ", "-"} <=> group[i].mark \in {"", " ", "+"}
         /\ h[i].mark \in {"", " ", "+"} <=> group[i].mark \in {"", " ", "-"}
  <2> SUFFICES ASSUME NEW i \in 1 .. n
               PROVE  /\ h[i].text = group[i].text
                      /\ h[i].mark \in {"", " ", "-"} <=> group[i].mark \in {"", " ", "+"}
                      /\ h[i].mark \in {"", " ", "+"} <=> group[i].mark \in {"", " ", "-"}
    OBVIOUS
  <2> DEFINE m == group[i].mark
             k == h[i].mark
  <2>1. h[i] = Trials!InverseLine(group[i])
    BY <1>2
  <2> HIDE DEF h, n
  <2>2. h[i].text = group[i].text /\ k = IF m = "+" THEN "-" ELSE IF m = "-" THEN "+" ELSE m
    BY <2>1 DEF Trials!InverseLine
  <2> HIDE DEF k, m
  <2>3. /\ k \in {"", " ", "-"} <=> m \in {"", " ", "+"}
        /\ k \in {"", " ", "+"} <=> m \in {"", " ", "-"}
    BY <2>2
  <2> QED
    BY <2>2, <2>3 DEF k, m
<1> HIDE DEF h
<1>4. IsSides(h, B)
  BY <1>1, <1>2, <1>3 DEF IsSides
<1>5. ASSUME NEW marks, NEW others,
             \A i \in 1 .. n : h[i].mark \in marks <=> group[i].mark \in others
      PROVE  Trials!Side(h, marks) = Trials!Side(group, others)
  <2>1. PICK f : SidesUp(f, Seq(B), h, marks, n)
    BY <1>2, <1>4, SidesIs
  <2>2. PICK g : SidesUp(g, Seq(B), group, others, n)
    BY SidesIs
  <2> HIDE DEF n
  <2>3. GoAlike(f, g, n)
    <3>1. f[0] = g[0]
      BY <2>1, <2>2 DEF SidesUp
    <3>2. ASSUME NEW i \in 1 .. n, f[i - 1] = g[i - 1] PROVE f[i] = g[i]
      <4>1. f[i] = SideAt(f[i - 1], h[i], marks) /\ g[i] = SideAt(g[i - 1], group[i], others)
        BY <2>1, <2>2 DEF SidesUp
      <4> QED
        BY <1>3, <1>5, <3>2, <4>1 DEF SideAt
    <3> QED
      BY <3>1, <3>2 DEF GoAlike
  <2>4. n \in 0 .. n
    BY <1>1
  <2>5. f[n] = g[n]
    BY <1>1, <2>3, <2>4, Alike
  <2> QED
    BY <2>1, <2>2, <2>5 DEF SidesUp
<1>6. Trials!Side(h, {"", " ", "-"}) = Trials!Side(group, {"", " ", "+"})
  BY <1>3, <1>5
<1>7. Trials!Side(h, {"", " ", "+"}) = Trials!Side(group, {"", " ", "-"})
  BY <1>3, <1>5
<1> QED
  BY <1>4, <1>6, <1>7 DEF Trials!Old, Trials!New, h

-----------------------------------------------------------------------------
(* TextEdits: one side of a group in the place of the other                   *)

HasPlace(L, o, B) == \E u \in Seq(B), v \in Seq(B) : L = (u \o o) \o v

\* A place is what stands between two parts.
LEMMA PlaceExists ==
    ASSUME NEW B, NEW L \in Seq(B), NEW o \in Seq(B), o # <<>>, Trials!MatchesOnce(o, L)
    PROVE  HasPlace(L, o, B)
<1> DEFINE P == Trials!Positions(o, L)
           n == Len(L)
           k == Len(o)
<1>0. n \in Nat /\ k \in Nat /\ k # 0
  OBVIOUS
<1>1. P # {}
  <2>1. Cardinality({}) = 0
    BY FS_EmptySet
  <2>2. Cardinality(P) = 1
    BY SameTrialCount DEF Trials!MatchesOnce
  <2> HIDE DEF P
  <2>3. P = {} => Cardinality(P) = Cardinality({})
    BY Zenon
  <2> QED
    BY <2>1, <2>2, <2>3
<1>2. PICK p \in P : TRUE
  BY <1>1
<1>3. p \in 1 .. n /\ p + k <= n + 1 /\ SubSeq(L, p, p + k - 1) = o
  BY <1>0, <1>2 DEF Trials!Positions, Trials!OccursAt
<1> DEFINE u == SubSeq(L, 1, p - 1)
           v == SubSeq(L, p + k, n)
<1>4. u \in Seq(B) /\ v \in Seq(B)
  <2>1. \A i \in 1 .. n : L[i] \in B
    OBVIOUS
  <2> HIDE DEF n, k
  <2>2. (\A i \in 1 .. p - 1 : L[i] \in B) /\ (\A i \in p + k .. n : L[i] \in B)
    BY <1>0, <1>3, <2>1
  <2>3. p - 1 \in Int /\ p + k \in Int /\ n \in Int
    BY <1>0, <1>3
  <2> QED
    BY <2>2, <2>3, SubSeqProperties
<1>5. L = (u \o o) \o v
  <2>1. SubSeq(L, 1, p - 1) \o SubSeq(L, p, p + k - 1) = SubSeq(L, 1, p + k - 1)
    <3>1. 1 \in 1 .. n + 1 /\ p - 1 \in 0 .. n /\ p + k - 1 \in p - 1 .. n /\ (p - 1) + 1 = p /\ 1 - 1 = 0
      BY <1>0, <1>3
    <3> QED
      BY <3>1, ConcatAdjacentSubSeq
  <2>2. SubSeq(L, 1, p + k - 1) \o SubSeq(L, p + k, n) = SubSeq(L, 1, n)
    <3>1. 1 \in 1 .. n + 1 /\ p + k - 1 \in 0 .. n /\ n \in p + k - 1 .. n /\ (p + k - 1) + 1 = p + k /\ 1 - 1 = 0
      BY <1>0, <1>3
    <3> QED
      BY <3>1, ConcatAdjacentSubSeq
  <2>3. SubSeq(L, 1, n) = L
    BY SubSeqFull
  <2> HIDE DEF n, k
  <2> QED
    BY <1>3, <2>1, <2>2, <2>3
<1> QED
  BY <1>4, <1>5 DEF HasPlace

LEMMA PlaceIs ==
    ASSUME NEW B, NEW u \in Seq(B), NEW o \in Seq(B), NEW v \in Seq(B), NEW w \in Seq(B), o # <<>>,
           Trials!MatchesOnce(o, (u \o o) \o v)
    PROVE  Trials!ReplaceFirst((u \o o) \o v, o, w) = (u \o w) \o v
<1> DEFINE L == (u \o o) \o v
           P == Trials!Positions(o, L)
           n == Len(L)
           k == Len(o)
           p == Len(u) + 1
<1>0. k \in Nat /\ k # 0 /\ p \in Nat /\ n = Len(u) + k + Len(v) /\ n \in Nat /\ L \in Seq(B)
  OBVIOUS
<1>1. \A i \in 1 .. k : L[p + i - 1] = o[i]
  OBVIOUS
<1>2. SubSeq(L, p, p + k - 1) = o
  <2>1. \A i \in p .. p + k - 1 : L[i] \in B
    OBVIOUS
  <2> HIDE DEF L
  <2> DEFINE q == SubSeq(L, p, p + k - 1)
  <2>2. /\ q \in Seq(B) /\ Len(q) = k
        /\ \A i \in 1 .. k : q[i] = L[p + i - 1]
    <3>1. p \in Int /\ p + k - 1 \in Int /\ (p + k - 1) - p + 1 = k /\ p <= p + k - 1
      BY <1>0
    <3> HIDE DEF p, k
    <3> QED
      BY <2>1, <3>1, SubSeqProperties
  <2> HIDE DEF q
  <2> QED
    BY <1>1, <2>2, SeqEqual DEF q
<1>3. p \in P
  <2>1. p \in 1 .. n /\ p + k - 1 <= n
    BY <1>0
  <2> HIDE DEF n, p, k, L
  <2> QED
    BY <1>2, <2>1 DEF Trials!Positions, Trials!OccursAt, n, k
<1>4. P = {p}
  <2>1. P \subseteq 1 .. n /\ IsFiniteSet(1 .. n)
    BY <1>0, FS_Interval DEF Trials!Positions
  <2>2. IsFiniteSet(P)
    <3> HIDE DEF P, n
    <3> QED
      BY <2>1, FS_Subset
  <2>3. Cardinality(P) = 1
    BY SameTrialCount DEF Trials!MatchesOnce
  <2> HIDE DEF P, p, n, L
  <2>4. \E e : P = {e}
    BY <2>2, <2>3, FS_Singleton
  <2> QED
    BY <1>3, <2>4
<1>5. p = CHOOSE i \in P : \A j \in P : i <= j
  <2> HIDE DEF P
  <2> QED
    BY <1>0, <1>4
<1>6. Trials!ReplaceFirst(L, o, w) = (SubSeq(L, 1, p - 1) \o w) \o SubSeq(L, p + k, n)
  <2> HIDE DEF p, L
  <2> QED
    BY <1>5 DEF Trials!ReplaceFirst
<1>7. SubSeq(L, 1, p - 1) = u
  <2>1. p - 1 = Len(u) /\ \A i \in 1 .. Len(u) : L[i] = u[i] /\ L[i] \in B
    OBVIOUS
  <2> HIDE DEF L, p
  <2>2. SubSeq(L, 1, Len(u)) = u
    <3> DEFINE m == Len(u)
               q == SubSeq(L, 1, m)
    <3>1. m \in Nat /\ m \in Int /\ 1 \in Int /\ (m - 1) + 1 = m /\ (IF 1 <= m THEN (m - 1) + 1 ELSE 0) = m
      OBVIOUS
    <3>2. \A i \in 1 .. m : L[i] \in B /\ (1 + i) - 1 = i
      BY <2>1
    <3> HIDE DEF m
    <3>3. q \in Seq(B) /\ Len(q) = m /\ \A i \in 1 .. m : q[i] = L[i]
      BY <3>1, <3>2, SubSeqProperties
    <3> HIDE DEF q
    <3>4. q = u
      BY <2>1, <3>3, SeqEqual DEF m
    <3> QED
      BY <3>4 DEF q, m
  <2> QED
    BY <2>1, <2>2
<1>8. SubSeq(L, p + k, n) = v
  <2> DEFINE m == Len(v)
             h == p + k
             q == SubSeq(L, h, n)
  <2>1. /\ h \in Int /\ n \in Int /\ m \in Nat /\ (IF h <= n THEN (n - h) + 1 ELSE 0) = m /\ (n - h) + 1 = m
        /\ \A i \in 1 .. m : L[(h + i) - 1] = v[i]
    BY <1>0
  <2>2. \A i \in h .. n : L[i] \in B
    BY <1>0
  <2> HIDE DEF h, n, L, m
  <2>3. q \in Seq(B) /\ Len(q) = m /\ \A i \in 1 .. m : q[i] = v[i]
    BY <2>1, <2>2, SubSeqProperties
  <2> HIDE DEF q
  <2>4. q = v
    BY <2>3, SeqEqual DEF m
  <2> QED
    BY <2>4 DEF q, h
<1> HIDE DEF p
<1> QED
  BY <1>6, <1>7, <1>8

\* What was replaced comes back where the one that replaced it is found once.
LEMMA ReplacedComesBack ==
    ASSUME NEW B, NEW L \in Seq(B), NEW o \in Seq(B), NEW w \in Seq(B), o # <<>>, w # <<>>,
           Trials!MatchesOnce(o, L), Trials!MatchesOnce(w, Trials!ReplaceFirst(L, o, w))
    PROVE  Trials!ReplaceFirst(Trials!ReplaceFirst(L, o, w), w, o) = L
<1>0. HasPlace(L, o, B)
  BY PlaceExists
<1>1. PICK u \in Seq(B), v \in Seq(B) : L = (u \o o) \o v
  BY <1>0 DEF HasPlace
<1>2. Trials!ReplaceFirst(L, o, w) = (u \o w) \o v
  BY <1>1, PlaceIs
<1>3. Trials!ReplaceFirst((u \o w) \o v, w, o) = (u \o o) \o v
  BY <1>2, PlaceIs
<1> QED
  BY <1>1, <1>2, <1>3

Applied(B) == [ok : BOOLEAN, lines : Seq(B)]

LEMMA ApplyGroupFits ==
    ASSUME NEW B, NEW acc \in Applied(B), NEW group, IsSides(group, B)
    PROVE  Trials!ApplyGroup(acc, group) \in Applied(B)
<1> DEFINE o == Trials!Old(group)
           w == Trials!New(group)
           L == acc.lines
<1>1. o \in Seq(B) /\ w \in Seq(B)
  BY SidesFit DEF Trials!Old, Trials!New
<1>2. L \in Seq(B)
  BY DEF Applied
<1>3. Trials!ApplyGroup(acc, group) =
         IF acc.ok /\ o # <<>> /\ Trials!MatchesOnce(o, L)
           THEN [ok |-> TRUE, lines |-> Trials!ReplaceFirst(L, o, w)]
           ELSE [ok |-> FALSE, lines |-> L]
  BY DEF Trials!ApplyGroup
<1> HIDE DEF o, w, L
<1>4. ASSUME o # <<>>, Trials!MatchesOnce(o, L) PROVE Trials!ReplaceFirst(L, o, w) \in Seq(B)
  <2>0. HasPlace(L, o, B)
    BY <1>1, <1>2, <1>4, PlaceExists
  <2>1. PICK u \in Seq(B), v \in Seq(B) : L = (u \o o) \o v
    BY <2>0 DEF HasPlace
  <2>2. Trials!ReplaceFirst(L, o, w) = (u \o w) \o v
    BY <1>1, <1>4, <2>1, PlaceIs
  <2>3. (u \o w) \o v \in Seq(B)
    BY <1>1
  <2> QED
    BY <2>2, <2>3
<1> QED
  BY <1>2, <1>3, <1>4 DEF Applied

AreGroups(groups, B) == Len(groups) \in Nat /\ \A i \in 1 .. Len(groups) : IsSides(groups[i], B)

ApplyStep(f, lines, groups, i) ==
    IF i = 0 THEN [ok |-> TRUE, lines |-> lines] ELSE Trials!ApplyGroup(f[i - 1], groups[i])

IsApply(f, lines, groups, n) == f = [i \in 0 .. n |-> ApplyStep(f, lines, groups, i)]

AppliesUp(f, S, lines, groups, n) ==
    /\ f \in [0 .. n -> S]
    /\ Trials!ApplyGroups(lines, groups) = f[n]
    /\ f[0] = [ok |-> TRUE, lines |-> lines]
    /\ \A i \in 1 .. n : f[i] = Trials!ApplyGroup(f[i - 1], groups[i])

LEMMA AppliesIs ==
    ASSUME NEW B, NEW lines \in Seq(B), NEW groups, AreGroups(groups, B)
    PROVE  \E f : AppliesUp(f, Applied(B), lines, groups, Len(groups))
<1> DEFINE n == Len(groups)
           S == Applied(B)
           base == [ok |-> TRUE, lines |-> lines]
           put(acc, i) == Trials!ApplyGroup(acc, groups[i])
           step == [p \in S \X (1 .. n) |-> put(p[1], p[2])]
           F == CHOOSE g : IsApply(g, lines, groups, n)
<1>0. n \in Nat /\ \A i \in 1 .. n : IsSides(groups[i], B)
  BY DEF AreGroups
<1>1. base \in S
  BY DEF Applied
<1>2. \A acc \in S, i \in 1 .. n : put(acc, i) \in S
  <2> HIDE DEF S, n
  <2> QED
    BY <1>0, ApplyGroupFits DEF S
<1> HIDE DEF n, S, put, base
<1>3. step \in Steps(S, n) /\ \A acc \in S, i \in 1 .. n : step[<<acc, i>>] = put(acc, i)
  <2>1. \A p \in S \X (1 .. n) : put(p[1], p[2]) \in S
    BY <1>2
  <2> QED
    BY <2>1 DEF Steps
<1> HIDE DEF step
<1>4. PICK f : StepByStep(f, S, base, step, n)
  BY <1>0, <1>1, <1>3, StepsExist
<1>5. f \in [0 .. n -> S] /\ f[0] = base /\ \A i \in 1 .. n : f[i] = put(f[i - 1], i)
  <2>1. f \in [0 .. n -> S] /\ f[0] = base /\ \A i \in 1 .. n : f[i] = step[<<f[i - 1], i>>]
    BY <1>4 DEF StepByStep
  <2>2. \A i \in 1 .. n : f[i - 1] \in S
    BY <1>0, <2>1
  <2> QED
    BY <1>3, <2>1, <2>2
<1>6. ASSUME NEW g PROVE ApplyStep(g, lines, groups, 0) = base
  BY DEF ApplyStep, base
<1>7. ASSUME NEW g, NEW i \in 1 .. n PROVE ApplyStep(g, lines, groups, i) = put(g[i - 1], i)
  <2>1. i # 0
    BY <1>0
  <2> QED
    BY <2>1 DEF ApplyStep, put
<1>8. IsApply(f, lines, groups, n)
  <2>1. \A i \in 0 .. n : f[i] = ApplyStep(f, lines, groups, i)
    <3>1. \A i \in 0 .. n : i = 0 \/ i \in 1 .. n
      BY <1>0
    <3> QED
      BY <1>5, <1>6, <1>7, <3>1
  <2>2. f = [i \in 0 .. n |-> f[i]]
    BY <1>5
  <2> QED
    BY <2>1, <2>2 DEF IsApply
<1>9. IsApply(F, lines, groups, n)
  BY <1>8
<1>10. Trials!ApplyGroups(lines, groups) = F[n]
  BY DEF Trials!ApplyGroups, IsApply, ApplyStep, n
<1> HIDE DEF F
<1>11. GoAlike(F, f, n)
  <2>1. \A i \in 0 .. n : F[i] = ApplyStep(F, lines, groups, i)
    BY <1>9 DEF IsApply
  <2>2. 0 \in 0 .. n /\ \A i \in 1 .. n : i \in 0 .. n
    BY <1>0
  <2>3. F[0] = f[0]
    BY <1>5, <1>6, <2>1, <2>2
  <2>4. \A i \in 1 .. n : F[i - 1] = f[i - 1] => F[i] = f[i]
    BY <1>5, <1>7, <2>1, <2>2
  <2> QED
    BY <2>3, <2>4 DEF GoAlike
<1>12. F[n] = f[n]
  <2>1. n \in 0 .. n
    BY <1>0
  <2> QED
    BY <1>0, <1>11, <2>1, Alike
<1> QED
  BY <1>5, <1>10, <1>12 DEF AppliesUp, n, S, base, put

-----------------------------------------------------------------------------
(* TextEdits: one line, one group more                                        *)

LEMMA JoinFits ==
    ASSUME NEW A, NL \in A, NEW L \in Seq(Seq(A))
    PROVE  Trials!Join(L) \in Seq(A)
<1>1. PICK f : JoinsUp(f, Seq(A), L, Len(L))
  BY JoinsIs
<1>2. Len(L) \in 0 .. Len(L)
  OBVIOUS
<1> QED
  BY <1>1, <1>2 DEF JoinsUp

LEMMA JoinNothing == Trials!Join(<<>>) = <<>>
<1>1. <<>> \in Seq(Seq({NL})) /\ Len(<<>>) = 0 /\ NL \in {NL}
  BY EmptySeq
<1>2. PICK f : JoinsUp(f, Seq({NL}), <<>>, Len(<<>>))
  BY <1>1, JoinsIs
<1> QED
  BY <1>1, <1>2 DEF JoinsUp

LEMMA JoinGrows ==
    ASSUME NEW A, NL \in A, NEW L \in Seq(Seq(A)), NEW x \in Seq(A)
    PROVE  Trials!Join(Append(L, x)) = IF L = <<>> THEN x ELSE Append(Trials!Join(L), NL) \o x
<1> DEFINE n == Len(L)
           k == n + 1
           L2 == Append(L, x)
<1>1. /\ n \in Nat /\ k \in Nat /\ L2 \in Seq(Seq(A)) /\ Len(L2) = k /\ L2[k] = x
      /\ k \in 1 .. k /\ k - 1 = n /\ (k = 1 <=> L = <<>>) /\ n \in 0 .. n
      /\ \A i \in 1 .. n : L2[i] = L[i] /\ i \in 1 .. k
  OBVIOUS
<1> HIDE DEF k, L2
<1>2. PICK f : JoinsUp(f, Seq(A), L, n)
  BY JoinsIs
<1> HIDE DEF n
<1>3. PICK g : JoinsUp(g, Seq(A), L2, k)
  BY <1>1, JoinsIs
<1>4. GoAlike(f, g, n)
  <2>1. f[0] = g[0]
    BY <1>2, <1>3 DEF JoinsUp
  <2>2. ASSUME NEW i \in 1 .. n, f[i - 1] = g[i - 1] PROVE f[i] = g[i]
    <3>1. f[i] = f[i - 1] \o (IF i = 1 THEN L[i] ELSE <<NL>> \o L[i])
      BY <1>2 DEF JoinsUp
    <3>2. g[i] = g[i - 1] \o (IF i = 1 THEN L2[i] ELSE <<NL>> \o L2[i])
      BY <1>1, <1>3 DEF JoinsUp
    <3>3. L2[i] = L[i]
      BY <1>1
    <3> QED
      BY <2>2, <3>1, <3>2, <3>3
  <2> QED
    BY <2>1, <2>2 DEF GoAlike
<1>5. f[n] = g[n]
  BY <1>1, <1>4, Alike
<1>6. g[k] = g[n] \o (IF k = 1 THEN x ELSE <<NL>> \o x)
  <2>1. g[k] = g[k - 1] \o (IF k = 1 THEN L2[k] ELSE <<NL>> \o L2[k])
    BY <1>1, <1>3 DEF JoinsUp
  <2> QED
    BY <1>1, <2>1
<1> DEFINE j == Trials!Join(L)
<1>7. f[n] = j /\ j \in Seq(A) /\ Trials!Join(L2) = g[k]
  BY <1>1, <1>2, <1>3 DEF JoinsUp
<1>8. CASE L = <<>>
  <2>1. j = <<>>
    BY <1>8, JoinNothing
  <2>2. <<>> \o x = x
    OBVIOUS
  <2> HIDE DEF j
  <2>3. g[k] = x
    BY <1>1, <1>5, <1>6, <1>7, <1>8, <2>1, <2>2
  <2> QED
    BY <1>7, <1>8, <2>3 DEF L2
<1>9. CASE L # <<>>
  <2> HIDE DEF j
  <2>1. j \o (<<NL>> \o x) = Append(j, NL) \o x
    BY <1>7, OneJoined
  <2>2. g[k] = j \o (<<NL>> \o x)
    BY <1>1, <1>5, <1>6, <1>7, <1>9
  <2> QED
    BY <1>7, <1>9, <2>1, <2>2 DEF L2, j
<1> QED
  BY <1>8, <1>9

LEMMA GroupRunFits ==
    ASSUME NEW R, NEW raw \in Seq(R)
    PROVE  GroupRun(raw) \in GroupAcc(R) /\ Trials!Groups(raw) \in Seq(SomeGroup(R))
<1>1. PICK f : GroupsUp(f, GroupAcc(R), raw, Len(raw))
  BY GroupsIs
<1>2. Len(raw) \in 0 .. Len(raw)
  OBVIOUS
<1>3. GroupRun(raw) \in GroupAcc(R)
  BY <1>1, <1>2 DEF GroupsUp
<1> QED
  BY <1>3, ClosedFits, GroupsRun

LEMMA GroupRunNothing == GroupRun(<<>>) = NoGroup
<1>1. <<>> \in Seq({}) /\ Len(<<>>) = 0
  BY EmptySeq
<1>2. PICK f : GroupsUp(f, GroupAcc({}), <<>>, Len(<<>>))
  BY <1>1, GroupsIs
<1> QED
  BY <1>1, <1>2 DEF GroupsUp, NoGroup

LEMMA GroupRunGrows ==
    ASSUME NEW R, NEW raw \in Seq(R), NEW l \in R
    PROVE  GroupRun(Append(raw, l)) = GroupAt(GroupRun(raw), l)
<1> DEFINE n == Len(raw)
           k == n + 1
           more == Append(raw, l)
<1>1. /\ n \in Nat /\ k \in Nat /\ more \in Seq(R) /\ Len(more) = k /\ more[k] = l
      /\ k \in 1 .. k /\ k - 1 = n /\ \A i \in 1 .. n : more[i] = raw[i] /\ i \in 1 .. k
      /\ n \in 0 .. n
  OBVIOUS
<1> HIDE DEF k, more
<1>2. PICK f : GroupsUp(f, GroupAcc(R), raw, n)
  BY GroupsIs
<1> HIDE DEF n
<1>3. PICK g : GroupsUp(g, GroupAcc(R), more, k)
  BY <1>1, GroupsIs
<1>4. GoAlike(f, g, n)
  BY <1>1, <1>2, <1>3 DEF GroupsUp, GoAlike
<1>5. f[n] = g[n]
  BY <1>1, <1>4, Alike
<1>6. g[k] = GroupAt(g[n], l)
  BY <1>1, <1>3 DEF GroupsUp
<1> QED
  BY <1>2, <1>3, <1>5, <1>6 DEF more, GroupsUp

\* Lines without a mark of their own lengthen the group under way.
LEMMA GroupRunOver ==
    ASSUME NEW R, NEW raw \in Seq(R), NEW g \in Seq(Plain(R))
    PROVE  GroupRun(raw \o g) = [all |-> GroupRun(raw).all, group |-> GroupRun(raw).group \o g]
<1> DEFINE run == GroupRun(raw)
           T == {h \in Seq(Plain(R)) : GroupRun(raw \o h) = [all |-> run.all, group |-> run.group \o h]}
<1>0. run \in GroupAcc(R)
  BY GroupRunFits
<1>1. run.group \in Seq(Plain(R)) /\ run = [all |-> run.all, group |-> run.group]
  <2> HIDE DEF run
  <2> QED
    BY <1>0 DEF GroupAcc
<1>2. <<>> \in T
  <2>1. raw \o <<>> = raw /\ <<>> \in Seq(Plain(R))
    OBVIOUS
  <2> DEFINE q == run.group
  <2>2. q \in Seq(Plain(R))
    BY <1>1
  <2> HIDE DEF q
  <2>3. q \o <<>> = q
    BY <2>2
  <2>4. GroupRun(raw \o <<>>) = run
    BY <2>1
  <2> HIDE DEF run
  <2> QED
    BY <1>1, <2>1, <2>3, <2>4 DEF q
<1>3. ASSUME NEW h \in Seq(Plain(R)), NEW l \in Plain(R), h \in T PROVE Append(h, l) \in T
  <2>1. l \in R /\ l.mark # "@@" /\ h \in Seq(R)
    BY DEF Plain
  <2>2. raw \o Append(h, l) = Append(raw \o h, l) /\ raw \o h \in Seq(R)
    BY <2>1, AppendConcat
  <2> DEFINE q == run.group
             more == [all |-> run.all, group |-> q \o h]
  <2>3. GroupRun(raw \o Append(h, l)) = GroupAt(more, l)
    BY <1>3, <2>1, <2>2, GroupRunGrows
  <2>4. GroupAt(more, l) = [all |-> run.all, group |-> Append(q \o h, l)]
    BY <2>1 DEF GroupAt
  <2>5. q \in Seq(Plain(R))
    BY <1>1
  <2> HIDE DEF q, run, more, T
  <2>6. Append(q \o h, l) = q \o Append(h, l) /\ Append(h, l) \in Seq(Plain(R))
    <3>1. Append(h, l) \in Seq(Plain(R))
      OBVIOUS
    <3>2. q \o Append(h, l) = Append(q \o h, l)
      BY <2>5, AppendConcat
    <3> QED
      BY <3>1, <3>2
  <2> QED
    BY <2>3, <2>4, <2>6 DEF q, more, T
<1> HIDE DEF T
<1>4. g \in T
  BY <1>2, <1>3, SeqInduction
<1> QED
  BY <1>4 DEF T

AtMark == [mark |-> "@@", text |-> <<>>]

SectionPieces(H) == [g \in 1 .. Len(H) |-> <<AtMark>> \o H[g]]

\* A section is read as the groups it was written from.
LEMMA GroupsOfSection ==
    ASSUME NEW R, NEW H \in Seq(SomeGroup(R))
    PROVE  Trials!Groups(Trials!Section(H)) = H
<1> DEFINE R2 == R \cup {AtMark}
           T == {K \in Seq(SomeGroup(R)) : /\ Trials!Section(K) \in Seq(R2)
                                           /\ Trials!Groups(Trials!Section(K)) = K}
<1>0. \A K : Trials!Section(K) = Sse!FlattenSeq(SectionPieces(K))
  BY DEF Trials!Section, SectionPieces, AtMark, Trials!FlattenSeq, Sse!FlattenSeq
<1>1. <<>> \in T
  <2>1. Len(<<>>) = 0 /\ <<>> \in Seq(R2) /\ <<>> \in Seq(SomeGroup(R))
    BY EmptySeq
  <2>2. SectionPieces(<<>>) = <<>>
    BY <2>1 DEF SectionPieces
  <2>3. Trials!Section(<<>>) = <<>>
    BY <1>0, <2>2 DEF Sse!FlattenSeq
  <2>4. Trials!Groups(<<>>) = <<>>
    BY GroupsRun, GroupRunNothing DEF NoGroup, Trials!Closed
  <2> QED
    BY <2>1, <2>3, <2>4
<1>2. ASSUME NEW K \in Seq(SomeGroup(R)), NEW g \in SomeGroup(R), K \in T PROVE Append(K, g) \in T
  <2> DEFINE n == Len(K)
             s == SectionPieces(K)
             t == SectionPieces(Append(K, g))
             sec == Trials!Section(K)
  <2>1. n \in Nat /\ Len(Append(K, g)) = n + 1 /\ Append(K, g) \in Seq(SomeGroup(R))
    OBVIOUS
  <2>2. \A x \in SomeGroup(R) : x \in Seq(R2) /\ <<AtMark>> \o x \in Seq(R2)
    <3> SUFFICES ASSUME NEW x \in SomeGroup(R) PROVE x \in Seq(R2) /\ <<AtMark>> \o x \in Seq(R2)
      OBVIOUS
    <3>1. Plain(R) \subseteq R2 /\ x \in Seq(Plain(R))
      BY DEF Plain, SomeGroup
    <3>2. x \in Seq(R2)
      BY <3>1
    <3>3. <<AtMark>> \in Seq(R2)
      OBVIOUS
    <3> HIDE DEF R2
    <3> QED
      BY <3>2, <3>3
  <2>3. \A i \in 1 .. n : K[i] \in SomeGroup(R) /\ Append(K, g)[i] = K[i] /\ i \in 1 .. n + 1
    OBVIOUS
  <2>4. Append(K, g)[n + 1] = g /\ n + 1 \in 1 .. n + 1
    OBVIOUS
  <2>5. s \in [1 .. n -> Seq(R2)]
    BY <2>2, <2>3 DEF SectionPieces
  <2>6. t \in [1 .. n + 1 -> Seq(R2)]
    <3>1. \A i \in 1 .. n + 1 : Append(K, g)[i] \in SomeGroup(R)
      BY <2>1
    <3> HIDE DEF R2
    <3> QED
      BY <2>1, <2>2, <3>1 DEF SectionPieces
  <2>7. (\A i \in 1 .. n : s[i] = t[i]) /\ t[n + 1] = <<AtMark>> \o g
    BY <2>1, <2>3, <2>4 DEF SectionPieces
  <2>8. sec \in Seq(R2) /\ Trials!Section(Append(K, g)) = sec \o (<<AtMark>> \o g)
    <3> HIDE DEF s, t, n, R2
    <3>1. Sse!FlattenSeq(s) \in Seq(R2) /\ Sse!FlattenSeq(t) = Sse!FlattenSeq(s) \o t[n + 1]
      BY <2>1, <2>5, <2>6, <2>7, FlatGrows
    <3> QED
      BY <1>0, <2>7, <3>1 DEF s, t
  <2>9. AtMark \in R2 /\ g \in Seq(R2) /\ g \in Seq(Plain(R2)) /\ g # <<>>
    <3>1. Plain(R) \subseteq Plain(R2) /\ g \in Seq(Plain(R))
      BY DEF Plain, SomeGroup
    <3>2. g \in Seq(Plain(R2))
      <4> HIDE DEF R2, s, t, sec, T, n
      <4> QED
        BY <3>1, SeqMonotonic
    <3> QED
      BY <2>2, <3>2 DEF SomeGroup
  <2>10. Trials!Groups(sec) = K
    BY <1>2
  <2> HIDE DEF sec, R2, T
  <2>11. Trials!Section(Append(K, g)) = Append(sec, AtMark) \o g /\ Append(sec, AtMark) \in Seq(R2)
    <3>1. sec \o (<<AtMark>> \o g) = Append(sec, AtMark) \o g
      BY <2>8, <2>9, OneJoined
    <3>2. Append(sec, AtMark) \in Seq(R2)
      BY <2>8, <2>9
    <3> QED
      BY <2>8, <3>1, <3>2
  <2>12. GroupRun(Append(sec, AtMark)) = [all |-> K, group |-> <<>>]
    <3>1. GroupRun(Append(sec, AtMark)) = GroupAt(GroupRun(sec), AtMark)
      BY <2>8, <2>9, GroupRunGrows
    <3>2. AtMark.mark = "@@"
      BY DEF AtMark
    <3>3. Trials!Closed(GroupRun(sec)) = K
      BY <2>10, GroupsRun
    <3> QED
      BY <3>1, <3>2, <3>3 DEF GroupAt
  <2>13. GroupRun(Append(sec, AtMark) \o g) = [all |-> K, group |-> <<>> \o g]
    <3> DEFINE m == Append(sec, AtMark)
    <3>1. m \in Seq(R2)
      BY <2>11
    <3> HIDE DEF m, s, t, n
    <3>2. GroupRun(m \o g) = [all |-> GroupRun(m).all, group |-> GroupRun(m).group \o g]
      BY <2>9, <3>1, GroupRunOver
    <3>3. GroupRun(m) = [all |-> K, group |-> <<>>]
      BY <2>12 DEF m
    <3>4. GroupRun(m).all = K /\ GroupRun(m).group = <<>>
      BY <3>3
    <3> QED
      BY <3>2, <3>4 DEF m
  <2>14. <<>> \o g = g
    BY <2>9
  <2>15. Trials!Groups(Trials!Section(Append(K, g))) = Append(K, g)
    BY <2>9, <2>11, <2>13, <2>14, GroupsRun DEF Trials!Closed
  <2>16. Append(sec, AtMark) \o g \in Seq(R2)
    BY <2>9, <2>11
  <2> QED
    BY <2>1, <2>11, <2>15, <2>16 DEF T
<1> HIDE DEF T
<1>3. H \in T
  BY <1>1, <1>2, SeqInduction
<1> QED
  BY <1>3 DEF T

-----------------------------------------------------------------------------
(* TextEdits: lines split and joined                                          *)

LineOf(A) == Seq(A \ {NL})
CleanLine(A) == {x \in LineOf(A) : x # <<>> => Trials!Last(x) # CR}
Stripped(L) == [i \in 1 .. Len(L) |-> Trials!WithoutCR(L[i])]

LEMMA StrippedGrows ==
    ASSUME NEW B, NEW L \in Seq(B), NEW x \in B
    PROVE  Stripped(Append(L, x)) = Append(Stripped(L), Trials!WithoutCR(x))
<1> DEFINE n == Len(L)
           M == Append(L, x)
           c == Trials!WithoutCR(x)
           S == Stripped(L)
           U == Stripped(M)
<1>1. n \in Nat /\ Len(M) = n + 1 /\ M[n + 1] = x /\ \A i \in 1 .. n : M[i] = L[i]
  OBVIOUS
<1> HIDE DEF M, c
<1>2. S = [i \in 1 .. n |-> Trials!WithoutCR(L[i])] /\ U = [i \in 1 .. n + 1 |-> Trials!WithoutCR(M[i])]
  BY <1>1 DEF Stripped
<1> HIDE DEF n, S, U
<1>3. /\ \A i \in 1 .. n : S[i] = Trials!WithoutCR(L[i]) /\ U[i] = S[i]
      /\ U[n + 1] = c
  BY <1>1, <1>2 DEF c
<1> DEFINE V == Append(S, c)
           X == {S[i] : i \in 1 .. n} \cup {c}
<1>4. S \in Seq(X) /\ Len(S) = n
  <2>1. \A i \in 1 .. n : S[i] \in X
    OBVIOUS
  <2> HIDE DEF X
  <2>2. S = [i \in 1 .. n |-> S[i]]
    BY <1>2
  <2> QED
    BY <1>1, <2>1, <2>2
<1>5. U \in Seq(X) /\ Len(U) = n + 1
  <2>1. \A i \in 1 .. n + 1 : U[i] \in X
    <3>1. \A i \in 1 .. n + 1 : i \in 1 .. n \/ i = n + 1
      BY <1>1
    <3> QED
      BY <1>3, <3>1
  <2> HIDE DEF X
  <2>2. U = [i \in 1 .. n + 1 |-> U[i]]
    BY <1>2
  <2> QED
    BY <1>1, <2>1, <2>2, SMTT(20)
<1>6. V \in Seq(X) /\ Len(V) = n + 1 /\ V[n + 1] = c /\ \A i \in 1 .. n : V[i] = S[i]
  <2>1. c \in X
    OBVIOUS
  <2> HIDE DEF X
  <2> QED
    BY <1>1, <1>4, <2>1
<1> HIDE DEF V, X
<1>7. \A i \in 1 .. n + 1 : U[i] = V[i]
  <2>1. \A i \in 1 .. n + 1 : i \in 1 .. n \/ i = n + 1
    BY <1>1
  <2> QED
    BY <1>3, <1>6, <2>1
<1>8. U = V
  BY <1>5, <1>6, <1>7, SeqEqual
<1> QED
  BY <1>8 DEF U, V, S, c, M

\* What holds no NL lengthens the line under way.
LEMMA SplitOver ==
    ASSUME NEW A, NEW t \in Seq(A), NEW x \in LineOf(A)
    PROVE  Trials!Split(t \o x) = [done |-> Trials!Split(t).done, line |-> Trials!Split(t).line \o x]
<1> DEFINE cut == Trials!Split(t)
           q == cut.line
           d == cut.done
           T == {y \in LineOf(A) : Trials!Split(t \o y) = [done |-> d, line |-> q \o y]}
<1>1. cut \in SplitAcc(A)
  <2>1. PICK f : SplitsUp(f, A, t, Len(t))
    BY SplitIs
  <2>2. Len(t) \in 0 .. Len(t)
    OBVIOUS
  <2> QED
    BY <2>1, <2>2 DEF SplitsUp
<1>2. q \in Seq(A) /\ cut = [done |-> d, line |-> q]
  <2> HIDE DEF cut
  <2> QED
    BY <1>1 DEF SplitAcc
<1> HIDE DEF q, d
<1>3. <<>> \in T
  <2>1. t \o <<>> = t /\ q \o <<>> = q /\ <<>> \in LineOf(A)
    BY <1>2 DEF LineOf
  <2> QED
    BY <1>2, <2>1
<1>4. ASSUME NEW y \in Seq(A \ {NL}), NEW c \in A \ {NL}, y \in T PROVE Append(y, c) \in T
  <2>1. c \in A /\ c # NL /\ y \in Seq(A) /\ Append(y, c) \in LineOf(A)
    BY DEF LineOf
  <2>2. t \o y \in Seq(A)
    BY <2>1
  <2>3. t \o Append(y, c) = Append(t \o y, c)
    BY <2>1, AppendConcat
  <2>4. q \o Append(y, c) = Append(q \o y, c)
    BY <1>2, <2>1, AppendConcat
  <2>5. Trials!Split(t \o Append(y, c)) = CutAt([done |-> d, line |-> q \o y], c)
    BY <1>4, <2>1, <2>2, <2>3, SplitGrows
  <2>6. CutAt([done |-> d, line |-> q \o y], c) = [done |-> d, line |-> Append(q \o y, c)]
    BY <2>1 DEF CutAt
  <2> HIDE DEF cut
  <2> QED
    BY <2>1, <2>4, <2>5, <2>6
<1> HIDE DEF T
<1>5. x \in T
  BY <1>3, <1>4, SeqInduction DEF LineOf
<1> QED
  BY <1>5 DEF T, q, d

LEMMA LineOfText == ASSUME NEW A, NEW x \in LineOf(A) PROVE x \in Seq(A)
BY DEF LineOf

\* Joined lines are split as they were, but for a CR at their ends.
LEMMA SplitOfJoin ==
    ASSUME NEW A, NL \in A, NEW M \in Seq(LineOf(A)), NEW x \in LineOf(A)
    PROVE  Trials!Split(Trials!Join(Append(M, x))) = [done |-> Stripped(M), line |-> x]
<1> DEFINE T == {K \in Seq(LineOf(A)) : \A y \in LineOf(A) :
                   Trials!Split(Trials!Join(Append(K, y))) = [done |-> Stripped(K), line |-> y]}
<1>0. LineOf(A) \subseteq Seq(A)
  BY LineOfText
<1>1. <<>> \in T
  <2> SUFFICES ASSUME NEW y \in LineOf(A)
               PROVE  Trials!Split(Trials!Join(Append(<<>>, y))) = [done |-> Stripped(<<>>), line |-> y]
    BY EmptySeq
  <2>1. y \in Seq(A) /\ <<>> \in Seq(Seq(A)) /\ <<>> \in Seq(A)
    BY <1>0, EmptySeq
  <2>2. Trials!Join(Append(<<>>, y)) = y
    BY <2>1, JoinGrows
  <2>3. Trials!Split(<<>> \o y) = [done |-> <<>>, line |-> <<>> \o y]
    <3> DEFINE e == <<>>
    <3>1. e \in Seq(A) /\ Trials!Split(e) = NoLines
      BY <2>1, SplitNothing
    <3> HIDE DEF e, T
    <3>2. Trials!Split(e \o y) = [done |-> Trials!Split(e).done, line |-> Trials!Split(e).line \o y]
      BY <3>1, SplitOver
    <3>3. Trials!Split(e).done = <<>> /\ Trials!Split(e).line = <<>>
      BY <3>1 DEF NoLines
    <3> QED
      BY <3>2, <3>3 DEF e
  <2>4. <<>> \o y = y
    BY <2>1
  <2>5. Stripped(<<>>) = <<>>
    BY DEF Stripped
  <2> QED
    BY <2>2, <2>3, <2>4, <2>5
<1>2. ASSUME NEW K \in Seq(LineOf(A)), NEW z \in LineOf(A), K \in T PROVE Append(K, z) \in T
  <2> DEFINE K2 == Append(K, z)
  <2>1. K2 \in Seq(LineOf(A)) /\ K2 # <<>> /\ K2 \in Seq(Seq(A))
    <3> HIDE DEF T
    <3>1. K2 \in Seq(LineOf(A)) /\ K2 # <<>>
      OBVIOUS
    <3> HIDE DEF K2
    <3>2. K2 \in Seq(Seq(A))
      BY <1>0, <3>1, SeqMonotonic
    <3> QED
      BY <3>1, <3>2
  <2>2. Trials!Split(Trials!Join(K2)) = [done |-> Stripped(K), line |-> z]
    BY <1>2
  <2>3. Stripped(K2) = Append(Stripped(K), Trials!WithoutCR(z))
    BY StrippedGrows
  <2> HIDE DEF K2
  <2> SUFFICES ASSUME NEW y \in LineOf(A)
               PROVE  Trials!Split(Trials!Join(Append(K2, y))) = [done |-> Stripped(K2), line |-> y]
    BY <2>1 DEF K2
  <2> DEFINE j == Trials!Join(K2)
             m == Append(j, NL)
  <2>4. y \in Seq(A)
    BY <1>0
  <2>5. j \in Seq(A)
    BY <2>1, JoinFits
  <2>6. Trials!Join(Append(K2, y)) = m \o y
    BY <2>1, <2>4, JoinGrows
  <2>7. m \in Seq(A)
    <3> HIDE DEF j
    <3> QED
      BY <2>5
  <2>8. Trials!Split(m) = CutAt(Trials!Split(j), NL)
    <3> HIDE DEF j
    <3> QED
      BY <2>5, SplitGrows
  <2>9. Trials!Split(m) = [done |-> Stripped(K2), line |-> <<>>]
    BY <2>2, <2>3, <2>8 DEF CutAt
  <2> HIDE DEF m
  <2>10. Trials!Split(m \o y) = [done |-> Trials!Split(m).done, line |-> Trials!Split(m).line \o y]
    BY <2>7, SplitOver
  <2>11. <<>> \o y = y
    BY <2>4
  <2>12. Trials!Split(m).done = Stripped(K2) /\ Trials!Split(m).line = <<>>
    BY <2>9
  <2> HIDE DEF j
  <2> QED
    BY <2>6, <2>10, <2>11, <2>12
<1> HIDE DEF T
<1>3. M \in T
  BY <1>1, <1>2, SeqInduction
<1> QED
  BY <1>3 DEF T

LineEnd(hadNL) == IF hadNL THEN <<NL>> ELSE <<>>

LEMMA LinesAgain ==
    ASSUME NEW A, NL \in A, NEW L \in Seq(LineOf(A)), L # <<>>, NEW hadNL,
           hadNL \/ Trials!Last(L) # <<>>
    PROVE  Trials!SplitLines(Trials!Join(L) \o LineEnd(hadNL)) = Stripped(L)
<1>1. PICK M \in Seq(LineOf(A)), x \in LineOf(A) : L = Append(M, x)
  BY SequenceEmptyOrAppend
<1>2. Trials!Last(L) = x
  <2>1. Append(M, x)[Len(Append(M, x))] = x
    OBVIOUS
  <2> QED
    BY <1>1, <2>1 DEF Trials!Last
<1> DEFINE j == Trials!Join(L)
<1>3. Trials!Split(j) = [done |-> Stripped(M), line |-> x]
  BY <1>1, SplitOfJoin
<1>4. Stripped(L) = Append(Stripped(M), Trials!WithoutCR(x))
  BY <1>1, StrippedGrows
<1>5. j \in Seq(A)
  <2>1. L \in Seq(Seq(A))
    <3>1. LineOf(A) \subseteq Seq(A)
      BY LineOfText
    <3> QED
      BY <3>1
  <2> QED
    BY <2>1, JoinFits
<1> HIDE DEF j
<1>6. CASE hadNL
  <2>1. j \o LineEnd(hadNL) = Append(j, NL)
    BY <1>5, <1>6 DEF LineEnd
  <2>2. Trials!Split(Append(j, NL)) = CutAt(Trials!Split(j), NL)
    BY <1>5, SplitGrows
  <2>3. Trials!Split(Append(j, NL)) = [done |-> Stripped(L), line |-> <<>>]
    BY <1>3, <1>4, <2>2 DEF CutAt
  <2>4. Trials!SplitLines(Append(j, NL)) = Stripped(L)
    BY <2>3 DEF Trials!SplitLines
  <2> QED
    BY <2>1, <2>4 DEF j
<1>7. CASE ~ hadNL
  <2>1. j \o LineEnd(hadNL) = j /\ x # <<>>
    BY <1>2, <1>5, <1>7 DEF LineEnd
  <2>2. Trials!SplitLines(j) = Append(Stripped(M), Trials!WithoutCR(x))
    BY <1>3, <2>1 DEF Trials!SplitLines
  <2> QED
    BY <1>4, <2>1, <2>2 DEF j
<1> QED
  BY <1>6, <1>7

\* The text of the lines that have ended.
Ended(D) == IF D = <<>> THEN <<>> ELSE Append(Trials!Join(D), NL)

LEMMA EndedGrows ==
    ASSUME NEW A, NL \in A, NEW D \in Seq(Seq(A)), NEW x \in Seq(A)
    PROVE  Trials!Join(Append(D, x)) = Ended(D) \o x /\ Ended(D) \in Seq(A)
<1>1. Trials!Join(Append(D, x)) = IF D = <<>> THEN x ELSE Append(Trials!Join(D), NL) \o x
  BY JoinGrows
<1>2. <<>> \o x = x
  OBVIOUS
<1> DEFINE j == Trials!Join(D)
<1>3. j \in Seq(A)
  BY JoinFits
<1> HIDE DEF j
<1>4. Append(j, NL) \in Seq(A) /\ <<>> \in Seq(A)
  BY <1>3
<1> QED
  BY <1>1, <1>2, <1>4 DEF Ended, j

LEMMA JoinAgain ==
    ASSUME NEW A, NL \in A, NEW t \in Seq(A), Trials!NoCRAtEnds(t)
    PROVE  /\ Trials!SplitLines(t) \in Seq(CleanLine(A))
           /\ Trials!Join(Trials!SplitLines(t)) \o LineEnd(Trials!EndsInNL(t)) = t
<1> DEFINE n == Len(t)
<1>1. PICK f : SplitsUp(f, A, t, n)
  BY SplitIs
<1>2. /\ n \in Nat /\ f[0] = NoLines /\ Trials!Split(t) = f[n]
      /\ \A i \in 1 .. n : f[i] = CutAt(f[i - 1], t[i])
  BY <1>1 DEF SplitsUp
<1>3. \A i \in 2 .. n : ~ (t[i - 1] = CR /\ t[i] = NL)
  <2> SUFFICES ASSUME NEW i \in 2 .. n, t[i - 1] = CR, t[i] = NL PROVE FALSE
    OBVIOUS
  <2> DEFINE h == i - 1
             q == SubSeq(t, h, i)
  <2>0. h \in 1 .. n /\ h + 1 = i /\ h + 2 - 1 = i /\ i <= n /\ h \in Int /\ i \in Int /\ h <= i
        /\ (IF h <= i THEN (i - h) + 1 ELSE 0) = 2
    BY <1>2
  <2>1. \A k \in h .. i : t[k] \in A
    BY <1>2
  <2>2. CR \in A
    BY <2>0
  <2>3. q \in Seq(A) /\ Len(q) = 2 /\ q[1] = CR /\ q[2] = NL
    <3>1. t[h + 1 - 1] = CR /\ t[h + 2 - 1] = NL /\ 1 \in 1 .. (i - h) + 1 /\ 2 \in 1 .. (i - h) + 1
      BY <2>0
    <3> HIDE DEF h, n
    <3> QED
      BY <2>0, <2>1, <3>1, SubSeqProperties
  <2> HIDE DEF q
  <2>4. q = <<CR, NL>>
    BY <2>3
  <2>5. Trials!OccursAt(<<CR, NL>>, t, h)
    <3>1. Len(<<CR, NL>>) = 2
      OBVIOUS
    <3> HIDE DEF h
    <3> QED
      BY <2>0, <2>4, <3>1 DEF Trials!OccursAt, q
  <2>6. h \in Trials!Positions(<<CR, NL>>, t)
    BY <2>0, <2>5 DEF Trials!Positions
  <2> QED
    BY <2>6 DEF Trials!NoCRAtEnds, Trials!UsesCRLF
<1>4. n # 0 => t[n] # CR
  BY DEF Trials!NoCRAtEnds, Trials!Last
<1>5. \A i \in 1 .. n : t[i] \in A
  OBVIOUS
<1>6. LineOf(A) \subseteq Seq(A) /\ CleanLine(A) \subseteq LineOf(A)
  BY LineOfText DEF CleanLine
<1> DEFINE Good(i) ==
              /\ f[i].done \in Seq(CleanLine(A)) /\ f[i].line \in LineOf(A)
              /\ f[i].line # <<>> => i # 0 /\ Trials!Last(f[i].line) = t[i]
              /\ i # 0 => (f[i].line = <<>> <=> t[i] = NL)
              /\ Ended(f[i].done) \o f[i].line = SubSeq(t, 1, i)
           T == {i \in Nat : i <= n => Good(i)}
<1>7. 0 \in T
  <2>1. f[0].done = <<>> /\ f[0].line = <<>>
    BY <1>2 DEF NoLines
  <2>2. <<>> \in Seq(CleanLine(A)) /\ <<>> \in LineOf(A) /\ SubSeq(t, 1, 0) = <<>> /\ <<>> \o <<>> = <<>>
    BY EmptySeq DEF LineOf
  <2> QED
    BY <2>1, <2>2 DEF Ended
<1>8. ASSUME NEW k \in Nat, k \in T PROVE k + 1 \in T
  <2> DEFINE i == k + 1
             d == f[k].done
             x == f[k].line
             c == t[i]
  <2> SUFFICES ASSUME i <= n PROVE Good(i)
    <3> HIDE DEF Good
    <3> QED
      OBVIOUS
  <2>1. i \in 1 .. n /\ i - 1 = k /\ i # 0 /\ k <= n /\ i \in 1 .. i
    BY <1>2
  <2>2. Good(k)
    BY <1>8, <2>1
  <2>3. d \in Seq(CleanLine(A)) /\ x \in LineOf(A) /\ d \in Seq(Seq(A)) /\ x \in Seq(A) /\ c \in A
    BY <1>5, <1>6, <2>1, <2>2
  <2>4. f[i] = CutAt(f[k], c)
    BY <1>2, <2>1
  <2>5. SubSeq(t, 1, i) = Append(SubSeq(t, 1, k), c) /\ SubSeq(t, 1, k) \in Seq(A)
    <3> DEFINE q == SubSeq(t, 1, k)
    <3>1. 1 \in 1 .. n /\ i \in 1 .. n
      BY <1>2, <2>1
    <3>2. SubSeq(t, 1, i) = SubSeq(t, 1, i - 1) \o <<t[i]>>
      BY <3>1, SubSeqRecursiveSecond
    <3>3. q \in Seq(A)
      <4>1. \A m \in 1 .. k : t[m] \in A
        BY <1>5, <2>1
      <4>2. 1 \in Int /\ k \in Int
        OBVIOUS
      <4> QED
        BY <4>1, <4>2, SubSeqProperties
    <3> HIDE DEF q, i, T, Good
    <3>4. SubSeq(t, 1, i) = q \o <<c>>
      BY <2>1, <3>2 DEF q
    <3>5. q \o <<c>> = Append(q, c)
      BY <2>3, <3>3, AppendIsConcat
    <3> QED
      BY <3>3, <3>4, <3>5 DEF q
  <2> DEFINE e == Ended(d)
             J == Trials!Join(Append(d, x))
             sub == SubSeq(t, 1, k)
  <2>6. J = e \o x /\ e \in Seq(A)
    BY <2>3, EndedGrows
  <2>7. e \o x = sub
    BY <2>2
  <2>8. x # <<>> => k # 0 /\ Trials!Last(x) = t[k]
    BY <2>2
  <2> HIDE DEF T, d, x, e, J, sub, c
  <2>9. CASE c = NL
    <3>1. x # <<>> => Trials!Last(x) # CR
      <4> SUFFICES ASSUME x # <<>> PROVE Trials!Last(x) # CR
        OBVIOUS
      <4>1. i \in 2 .. n
        BY <2>1, <2>8
      <4> QED
        BY <1>3, <2>1, <2>8, <2>9, <4>1 DEF c
    <3>2. Trials!WithoutCR(x) = x /\ x \in CleanLine(A)
      BY <2>3, <3>1 DEF Trials!WithoutCR, CleanLine
    <3>3. f[i].done = Append(d, x) /\ f[i].line = <<>>
      BY <2>4, <2>9, <3>2 DEF CutAt, d, x
    <3>4. Append(d, x) \in Seq(CleanLine(A)) /\ Append(d, x) # <<>> /\ <<>> \in LineOf(A)
      BY <2>3, <3>2, SMTT(20) DEF LineOf
    <3>5. Ended(Append(d, x)) = Append(J, NL)
      BY <3>4 DEF Ended, J
    <3>6. Append(J, NL) = Append(sub, c) /\ J \in Seq(A)
      BY <2>3, <2>5, <2>6, <2>7, <2>9 DEF sub
    <3>7. Append(J, NL) \o <<>> = Append(J, NL)
      BY <3>6
    <3>8. Ended(f[i].done) \o f[i].line = SubSeq(t, 1, i)
      BY <2>5, <3>3, <3>5, <3>6, <3>7 DEF sub
    <3> QED
      BY <2>9, <3>3, <3>4, <3>8 DEF c
  <2>10. CASE c # NL
    <3>1. f[i].done = d /\ f[i].line = Append(x, c)
      BY <2>4, <2>10 DEF CutAt, d, x
    <3>2. Append(x, c) \in LineOf(A) /\ Append(x, c) # <<>>
      BY <2>3, <2>10 DEF LineOf
    <3> DEFINE xc == Append(x, c)
    <3>3. xc[Len(xc)] = c
      BY <2>3
    <3>4. Trials!Last(Append(x, c)) = c
      BY <3>3 DEF Trials!Last
    <3>5. e \o Append(x, c) = Append(e \o x, c)
      BY <2>3, <2>6, AppendConcat
    <3>6. Ended(f[i].done) \o f[i].line = SubSeq(t, 1, i)
      BY <2>5, <2>7, <3>1, <3>5 DEF e, sub
    <3> QED
      BY <2>1, <2>3, <2>10, <3>1, <3>2, <3>4, <3>6 DEF c
  <2> QED
    BY <2>9, <2>10
<1> HIDE DEF T
<1>9. n \in T /\ n <= n
  BY <1>2, <1>7, <1>8, SetInduction
<1>10. Good(n)
  BY <1>9 DEF T
<1> DEFINE d == f[n].done
           x == f[n].line
<1>11. /\ d \in Seq(CleanLine(A)) /\ x \in LineOf(A) /\ d \in Seq(Seq(A)) /\ x \in Seq(A)
       /\ x # <<>> => n # 0 /\ Trials!Last(x) = t[n]
       /\ n # 0 => (x = <<>> <=> t[n] = NL)
  BY <1>6, <1>10
<1>12. Ended(d) \o x = t
  <2>1. SubSeq(t, 1, n) = t
    BY SubSeqFull
  <2> QED
    BY <1>10, <2>1
<1>13. Trials!SplitLines(t) = IF x = <<>> THEN d ELSE Append(d, Trials!WithoutCR(x))
  BY <1>2 DEF Trials!SplitLines
<1>14. Trials!EndsInNL(t) <=> n # 0 /\ t[n] = NL
  BY DEF Trials!EndsInNL, Trials!Last
<1>15. n = 0 <=> t = <<>>
  OBVIOUS
<1> HIDE DEF d, x, Good, n
<1>16. CASE x = <<>>
  <2> DEFINE e == Ended(d)
  <2>1. e \in Seq(A)
    BY <1>11, EndedGrows
  <2> HIDE DEF e
  <2>2. e \o <<>> = e
    BY <2>1
  <2>3. e = t
    BY <1>12, <1>16, <2>2 DEF e
  <2>4. Trials!SplitLines(t) = d
    BY <1>13, <1>16
  <2>5. CASE n = 0
    <3> DEFINE j == Trials!Join(d)
    <3>1. j \in Seq(A)
      BY <1>11, JoinFits
    <3> HIDE DEF j
    <3>2. Append(j, NL) # <<>>
      BY <3>1
    <3>3. d = <<>>
      BY <1>15, <2>3, <2>5, <3>2 DEF e, Ended, j
    <3>4. Trials!Join(d) = <<>> /\ LineEnd(Trials!EndsInNL(t)) = <<>>
      BY <1>14, <2>5, <3>3, JoinNothing DEF LineEnd
    <3>5. <<>> \o <<>> = <<>>
      OBVIOUS
    <3>6. Trials!Join(Trials!SplitLines(t)) \o LineEnd(Trials!EndsInNL(t)) = t
      BY <1>15, <2>4, <2>5, <3>4, <3>5
    <3> QED
      BY <1>11, <2>4, <3>6
  <2>6. CASE n # 0
    <3>1. d # <<>>
      BY <1>15, <2>3, <2>6 DEF e, Ended
    <3> DEFINE j == Trials!Join(d)
    <3>2. t = Append(j, NL)
      BY <2>3, <3>1 DEF e, Ended
    <3>3. j \in Seq(A)
      BY <1>11, JoinFits
    <3>4. LineEnd(Trials!EndsInNL(t)) = <<NL>>
      BY <1>11, <1>14, <1>16, <2>6 DEF LineEnd
    <3> HIDE DEF j
    <3>5. j \o <<NL>> = Append(j, NL)
      BY <3>3, AppendIsConcat
    <3> QED
      BY <1>11, <2>4, <3>2, <3>4, <3>5 DEF j
  <2> QED
    BY <2>5, <2>6
<1>17. CASE x # <<>>
  <2>1. Trials!Last(x) # CR
    BY <1>4, <1>11, <1>17
  <2>2. Trials!WithoutCR(x) = x /\ x \in CleanLine(A)
    BY <1>11, <2>1 DEF Trials!WithoutCR, CleanLine
  <2>3. Trials!SplitLines(t) = Append(d, x)
    BY <1>13, <1>17, <2>2
  <2>4. Trials!Join(Append(d, x)) = t
    BY <1>11, <1>12, EndedGrows
  <2>5. LineEnd(Trials!EndsInNL(t)) = <<>>
    BY <1>11, <1>14, <1>17 DEF LineEnd
  <2>6. Append(d, x) \in Seq(CleanLine(A))
    BY <1>11, <2>2
  <2>7. t \o <<>> = t
    OBVIOUS
  <2> QED
    BY <2>3, <2>4, <2>5, <2>6, <2>7
<1> QED
  BY <1>16, <1>17

-----------------------------------------------------------------------------
(* TextEdits: an update taken back                                            *)

\* What the lines of a text that end in a CR hold.  Reading the text again takes from it.
Bulk(x) == IF x # <<>> /\ Trials!Last(x) = CR THEN Len(x) ELSE 0

Weight(L) ==
    LET sum[i \in 0 .. Len(L)] == IF i = 0 THEN 0 ELSE sum[i - 1] + Bulk(L[i])
    IN  sum[Len(L)]

LEMMA BulkFits == ASSUME NEW A, NEW x \in Seq(A) PROVE Bulk(x) \in Nat
BY DEF Bulk

WeighStep(f, L, i) == IF i = 0 THEN 0 ELSE f[i - 1] + Bulk(L[i])

IsWeigh(f, L, n) == f = [i \in 0 .. n |-> WeighStep(f, L, i)]

WeighsUp(f, S, L, n) ==
    /\ f \in [0 .. n -> S]
    /\ Weight(L) = f[n]
    /\ f[0] = 0
    /\ \A i \in 1 .. n : f[i] = f[i - 1] + Bulk(L[i])

LEMMA WeighsIs ==
    ASSUME NEW A, NEW L \in Seq(Seq(A))
    PROVE  \E f : WeighsUp(f, Nat, L, Len(L))
<1> DEFINE n == Len(L)
           S == Nat
           base == 0
           put(acc, i) == acc + Bulk(L[i])
           step == [p \in S \X (1 .. n) |-> put(p[1], p[2])]
           F == CHOOSE g : IsWeigh(g, L, n)
<1>0. n \in Nat /\ \A i \in 1 .. n : Bulk(L[i]) \in Nat
  <2>1. n \in Nat /\ \A i \in 1 .. n : L[i] \in Seq(A)
    OBVIOUS
  <2> HIDE DEF n
  <2> QED
    BY <2>1, BulkFits
<1>1. base \in S
  OBVIOUS
<1>2. \A acc \in S, i \in 1 .. n : put(acc, i) \in S
  <2> HIDE DEF n
  <2> QED
    BY <1>0
<1> HIDE DEF n, S, put, base
<1>3. step \in Steps(S, n) /\ \A acc \in S, i \in 1 .. n : step[<<acc, i>>] = put(acc, i)
  <2>1. \A p \in S \X (1 .. n) : put(p[1], p[2]) \in S
    BY <1>2
  <2> QED
    BY <2>1 DEF Steps
<1> HIDE DEF step
<1>4. PICK f : StepByStep(f, S, base, step, n)
  BY <1>0, <1>1, <1>3, StepsExist
<1>5. f \in [0 .. n -> S] /\ f[0] = base /\ \A i \in 1 .. n : f[i] = put(f[i - 1], i)
  <2>1. f \in [0 .. n -> S] /\ f[0] = base /\ \A i \in 1 .. n : f[i] = step[<<f[i - 1], i>>]
    BY <1>4 DEF StepByStep
  <2>2. \A i \in 1 .. n : f[i - 1] \in S
    BY <1>0, <2>1
  <2> QED
    BY <1>3, <2>1, <2>2
<1>6. ASSUME NEW g PROVE WeighStep(g, L, 0) = base
  BY DEF WeighStep, base
<1>7. ASSUME NEW g, NEW i \in 1 .. n PROVE WeighStep(g, L, i) = put(g[i - 1], i)
  <2>1. i # 0
    BY <1>0
  <2> QED
    BY <2>1 DEF WeighStep, put
<1>8. IsWeigh(f, L, n)
  <2>1. \A i \in 0 .. n : f[i] = WeighStep(f, L, i)
    <3>1. \A i \in 0 .. n : i = 0 \/ i \in 1 .. n
      BY <1>0
    <3> QED
      BY <1>5, <1>6, <1>7, <3>1
  <2>2. f = [i \in 0 .. n |-> f[i]]
    BY <1>5
  <2> QED
    BY <2>1, <2>2 DEF IsWeigh
<1>9. IsWeigh(F, L, n)
  BY <1>8
<1>10. Weight(L) = F[n]
  BY DEF Weight, IsWeigh, WeighStep, n
<1> HIDE DEF F
<1>11. GoAlike(F, f, n)
  <2>1. \A i \in 0 .. n : F[i] = WeighStep(F, L, i)
    BY <1>9 DEF IsWeigh
  <2>2. 0 \in 0 .. n /\ \A i \in 1 .. n : i \in 0 .. n
    BY <1>0
  <2>3. F[0] = f[0]
    BY <1>5, <1>6, <2>1, <2>2
  <2>4. \A i \in 1 .. n : F[i - 1] = f[i - 1] => F[i] = f[i]
    BY <1>5, <1>7, <2>1, <2>2
  <2> QED
    BY <2>3, <2>4 DEF GoAlike
<1>12. F[n] = f[n]
  <2>1. n \in 0 .. n
    BY <1>0
  <2> QED
    BY <1>0, <1>11, <2>1, Alike
<1> QED
  BY <1>5, <1>10, <1>12 DEF WeighsUp, n, S, base, put

LEMMA WeightGrows ==
    ASSUME NEW A, NEW L \in Seq(Seq(A)), NEW x \in Seq(A)
    PROVE  /\ Weight(L) \in Nat
           /\ Weight(Append(L, x)) = Weight(L) + Bulk(x)
<1> DEFINE n == Len(L)
           k == n + 1
           more == Append(L, x)
<1>1. /\ n \in Nat /\ k \in Nat /\ more \in Seq(Seq(A)) /\ Len(more) = k /\ more[k] = x
      /\ k \in 1 .. k /\ k - 1 = n /\ \A i \in 1 .. n : more[i] = L[i] /\ i \in 1 .. k
      /\ n \in 0 .. n
  OBVIOUS
<1> HIDE DEF k, more
<1>2. PICK f : WeighsUp(f, Nat, L, n)
  BY WeighsIs
<1> HIDE DEF n
<1>3. PICK g : WeighsUp(g, Nat, more, k)
  BY <1>1, WeighsIs
<1>4. GoAlike(f, g, n)
  <2>1. f[0] = g[0]
    BY <1>2, <1>3 DEF WeighsUp
  <2>2. ASSUME NEW i \in 1 .. n, f[i - 1] = g[i - 1] PROVE f[i] = g[i]
    <3>1. f[i] = f[i - 1] + Bulk(L[i]) /\ g[i] = g[i - 1] + Bulk(more[i]) /\ more[i] = L[i]
      BY <1>1, <1>2, <1>3 DEF WeighsUp
    <3> QED
      BY <2>2, <3>1
  <2> QED
    BY <2>1, <2>2 DEF GoAlike
<1>5. f[n] = g[n]
  BY <1>1, <1>4, Alike
<1>6. g[k] = g[n] + Bulk(x)
  <2>1. g[k] = g[k - 1] + Bulk(more[k])
    BY <1>1, <1>3 DEF WeighsUp
  <2> QED
    BY <1>1, <2>1
<1>7. f[n] \in Nat
  BY <1>1, <1>2 DEF WeighsUp
<1> QED
  BY <1>2, <1>3, <1>5, <1>6, <1>7 DEF more, WeighsUp

LEMMA WeightNothing == Weight(<<>>) = 0
<1>1. <<>> \in Seq(Seq({})) /\ Len(<<>>) = 0
  BY EmptySeq
<1>2. PICK f : WeighsUp(f, Nat, <<>>, Len(<<>>))
  BY <1>1, WeighsIs
<1> QED
  BY <1>1, <1>2 DEF WeighsUp

LEMMA WeightFits == ASSUME NEW A, NEW L \in Seq(Seq(A)) PROVE Weight(L) \in Nat
<1>1. <<>> \in Seq(A)
  BY EmptySeq
<1> QED
  BY <1>1, WeightGrows

LEMMA WeightOver ==
    ASSUME NEW A, NEW u \in Seq(Seq(A)), NEW v \in Seq(Seq(A))
    PROVE  Weight(u \o v) = Weight(u) + Weight(v)
<1> DEFINE T == {w \in Seq(Seq(A)) : Weight(u \o w) = Weight(u) + Weight(w)}
<1>0. Weight(u) \in Nat
  BY WeightFits
<1>1. <<>> \in T
  <2>1. u \o <<>> = u /\ <<>> \in Seq(Seq(A))
    OBVIOUS
  <2> QED
    BY <1>0, <2>1, WeightNothing
<1>2. ASSUME NEW w \in Seq(Seq(A)), NEW x \in Seq(A), w \in T PROVE Append(w, x) \in T
  <2>1. Weight(u \o w) = Weight(u) + Weight(w)
    BY <1>2
  <2> HIDE DEF T
  <2> DEFINE uw == u \o w
             wx == Append(w, x)
  <2>2. u \o wx = Append(uw, x)
    BY AppendConcat
  <2>3. uw \in Seq(Seq(A)) /\ wx \in Seq(Seq(A))
    OBVIOUS
  <2>4. Weight(wx) = Weight(w) + Bulk(x) /\ Weight(w) \in Nat
    BY WeightGrows
  <2> HIDE DEF uw, wx
  <2>5. Weight(Append(uw, x)) = Weight(uw) + Bulk(x)
    BY <2>3, WeightGrows
  <2>6. Bulk(x) \in Nat
    BY BulkFits
  <2>7. Weight(u \o wx) = Weight(u) + Weight(wx)
    BY <1>0, <2>1, <2>2, <2>4, <2>5, <2>6 DEF uw
  <2> QED
    BY <2>3, <2>7 DEF T, wx
<1> HIDE DEF T
<1>3. v \in T
  BY <1>1, <1>2, SeqInduction
<1> QED
  BY <1>3 DEF T

LEMMA WithoutCRLighter ==
    ASSUME NEW A, NEW x \in Seq(A)
    PROVE  /\ Bulk(Trials!WithoutCR(x)) <= Bulk(x)
           /\ Bulk(Trials!WithoutCR(x)) = Bulk(x) => Trials!WithoutCR(x) = x
<1>1. CASE x # <<>> /\ Trials!Last(x) = CR
  <2> DEFINE y == SubSeq(x, 1, Len(x) - 1)
  <2>1. Trials!WithoutCR(x) = y
    BY <1>1 DEF Trials!WithoutCR, Trials!Front
  <2>2. Len(x) \in Nat /\ Len(x) # 0 /\ Len(y) = Len(x) - 1
    <3>1. x # <<>>
      BY <1>1
    <3> DEFINE k == Len(x)
               m == k - 1
    <3>2. k \in Nat \ {0}
      BY <3>1, EmptySeq
    <3>3. \A i \in 1 .. m : x[i] \in A
      OBVIOUS
    <3> HIDE DEF k
    <3>4. m \in Int /\ (IF 1 <= m THEN (m - 1) + 1 ELSE 0) = m
      BY <3>2
    <3> HIDE DEF m
    <3>5. Len(SubSeq(x, 1, m)) = m
      BY <3>3, <3>4, SubSeqProperties
    <3> QED
      BY <3>2, <3>5 DEF m, k
  <2> HIDE DEF y
  <2>3. Bulk(y) \in {0, Len(y)} /\ Bulk(x) = Len(x)
    BY <1>1 DEF Bulk
  <2> QED
    BY <2>1, <2>2, <2>3
<1>2. CASE ~ (x # <<>> /\ Trials!Last(x) = CR)
  <2>1. Trials!WithoutCR(x) = x /\ Bulk(x) = 0
    BY <1>2 DEF Trials!WithoutCR, Bulk
  <2> QED
    BY <2>1
<1> QED
  BY <1>1, <1>2

\* To read lines again takes weight from them unless it leaves them as they are.
LEMMA StrippedLighter ==
    ASSUME NEW A, NEW L \in Seq(Seq(A))
    PROVE  /\ Stripped(L) \in Seq(Seq(A))
           /\ Weight(Stripped(L)) <= Weight(L)
           /\ Weight(Stripped(L)) = Weight(L) => Stripped(L) = L
<1> DEFINE T == {M \in Seq(Seq(A)) : /\ Stripped(M) \in Seq(Seq(A))
                                     /\ Weight(Stripped(M)) <= Weight(M)
                                     /\ Weight(Stripped(M)) = Weight(M) => Stripped(M) = M}
<1>1. <<>> \in T
  <2>1. Stripped(<<>>) = <<>> /\ <<>> \in Seq(Seq(A))
    BY EmptySeq DEF Stripped
  <2> DEFINE e == <<>>
  <2>2. e \in Seq(Seq(A)) /\ Stripped(e) = e /\ Weight(e) = 0
    BY <2>1, WeightNothing
  <2> HIDE DEF e
  <2>3. e \in T
    BY <2>2
  <2> QED
    BY <2>3 DEF e
<1>2. ASSUME NEW M \in Seq(Seq(A)), NEW x \in Seq(A), M \in T PROVE Append(M, x) \in T
  <2> DEFINE s == Stripped(M)
             y == Trials!WithoutCR(x)
             Mx == Append(M, x)
             sy == Append(s, y)
  <2>1. /\ s \in Seq(Seq(A)) /\ Weight(s) <= Weight(M) /\ (Weight(s) = Weight(M) => s = M)
    BY <1>2
  <2>2. y \in Seq(A)
    BY WithoutCRFits
  <2>3. Stripped(Mx) = sy
    BY StrippedGrows
  <2>4. Bulk(y) <= Bulk(x) /\ (Bulk(y) = Bulk(x) => y = x) /\ Bulk(x) \in Nat
    BY WithoutCRLighter, BulkFits
  <2>5. Mx \in Seq(Seq(A)) /\ Weight(M) \in Nat /\ Weight(Mx) = Weight(M) + Bulk(x)
    BY WeightGrows
  <2> HIDE DEF T, s, y
  <2>6. Weight(s) \in Nat /\ Weight(sy) = Weight(s) + Bulk(y)
    BY <2>1, <2>2, WeightGrows
  <2>7. Bulk(y) \in Nat /\ sy \in Seq(Seq(A))
    BY <2>1, <2>2, BulkFits
  <2>8. Weight(sy) <= Weight(Mx)
    BY <2>1, <2>4, <2>5, <2>6, <2>7
  <2>9. Weight(sy) = Weight(Mx) => s = M /\ y = x
    BY <2>1, <2>4, <2>5, <2>6, <2>7
  <2>10. Weight(sy) = Weight(Mx) => sy = Mx
    BY <2>9
  <2> HIDE DEF sy, Mx
  <2> QED
    BY <2>3, <2>5, <2>7, <2>8, <2>10 DEF T, Mx
<1> HIDE DEF T
<1>3. L \in T
  BY <1>1, <1>2, SeqInduction
<1> QED
  BY <1>3 DEF T

LEMMA CleanWeighsNothing ==
    ASSUME NEW A, NEW L \in Seq(CleanLine(A))
    PROVE  Weight(L) = 0
<1> DEFINE T == {M \in Seq(CleanLine(A)) : M \in Seq(Seq(A)) /\ Weight(M) = 0}
<1>1. <<>> \in T
  BY WeightNothing, EmptySeq
<1>2. ASSUME NEW M \in Seq(CleanLine(A)), NEW x \in CleanLine(A), M \in T PROVE Append(M, x) \in T
  <2>1. x \in Seq(A) /\ Bulk(x) = 0
    BY LineOfText DEF CleanLine, Bulk
  <2>2. M \in Seq(Seq(A)) /\ Weight(M) = 0
    BY <1>2
  <2>3. Append(M, x) \in Seq(CleanLine(A)) /\ Append(M, x) \in Seq(Seq(A))
    <3> HIDE DEF T
    <3> QED
      BY <2>1, <2>2
  <2>4. Weight(Append(M, x)) = 0
    <3> HIDE DEF T
    <3>1. Weight(Append(M, x)) = Weight(M) + Bulk(x)
      BY <2>1, <2>2, WeightGrows
    <3> QED
      BY <2>1, <2>2, <3>1
  <2> QED
    BY <2>3, <2>4
<1> HIDE DEF T
<1>3. L \in T
  BY <1>1, <1>2, SeqInduction
<1> QED
  BY <1>3 DEF T

LEMMA WeightReplaced ==
    ASSUME NEW A, NEW L \in Seq(Seq(A)), NEW o \in Seq(Seq(A)), NEW w \in Seq(Seq(A)), o # <<>>,
           Trials!MatchesOnce(o, L)
    PROVE  Weight(Trials!ReplaceFirst(L, o, w)) + Weight(o) = Weight(L) + Weight(w)
<1>0. HasPlace(L, o, Seq(A))
  BY PlaceExists
<1>1. PICK u \in Seq(Seq(A)), v \in Seq(Seq(A)) : L = (u \o o) \o v
  BY <1>0 DEF HasPlace
<1>2. Trials!ReplaceFirst(L, o, w) = (u \o w) \o v
  BY <1>1, PlaceIs
<1>3. ASSUME NEW m \in Seq(Seq(A))
      PROVE  Weight((u \o m) \o v) = Weight(u) + Weight(m) + Weight(v)
  <2> DEFINE um == u \o m
  <2>1. um \in Seq(Seq(A))
    OBVIOUS
  <2>2. Weight(um) = Weight(u) + Weight(m)
    BY WeightOver
  <2> HIDE DEF um
  <2>3. Weight(um \o v) = Weight(um) + Weight(v)
    BY <2>1, WeightOver
  <2> QED
    BY <2>2, <2>3 DEF um
<1>4. Weight(u) \in Nat /\ Weight(v) \in Nat /\ Weight(o) \in Nat /\ Weight(w) \in Nat
  BY WeightFits
<1>5. Weight(L) = Weight(u) + Weight(o) + Weight(v)
  BY <1>1, <1>3
<1>6. Weight(Trials!ReplaceFirst(L, o, w)) = Weight(u) + Weight(w) + Weight(v)
  BY <1>2, <1>3
<1> QED
  BY <1>4, <1>5, <1>6

ReplacedInTurn(f, G, n) ==
    \A i \in 1 .. n :
        /\ Trials!Old(G[i]) # <<>>
        /\ Trials!MatchesOnce(Trials!Old(G[i]), f[i - 1].lines)
        /\ f[i].lines = Trials!ReplaceFirst(f[i - 1].lines, Trials!Old(G[i]), Trials!New(G[i]))

\* Groups that are applied in the end were each applied in their turn.
LEMMA AppliedInTurn ==
    ASSUME NEW B, NEW lines, NEW G, NEW n \in Nat, NEW f, AppliesUp(f, Applied(B), lines, G, n), f[n].ok
    PROVE  ReplacedInTurn(f, G, n)
<1>1. \A i \in 1 .. n : f[i] = Trials!ApplyGroup(f[i - 1], G[i])
  BY DEF AppliesUp
<1>2. ASSUME NEW i \in 1 .. n, f[i].ok
      PROVE  /\ f[i - 1].ok /\ Trials!Old(G[i]) # <<>>
             /\ Trials!MatchesOnce(Trials!Old(G[i]), f[i - 1].lines)
             /\ f[i].lines = Trials!ReplaceFirst(f[i - 1].lines, Trials!Old(G[i]), Trials!New(G[i]))
  <2> DEFINE acc == f[i - 1]
             o == Trials!Old(G[i])
             c == acc.ok /\ o # <<>> /\ Trials!MatchesOnce(o, acc.lines)
             r == Trials!ReplaceFirst(acc.lines, o, Trials!New(G[i]))
  <2>1. f[i] = IF c THEN [ok |-> TRUE, lines |-> r] ELSE [ok |-> FALSE, lines |-> acc.lines]
    BY <1>1 DEF Trials!ApplyGroup
  <2> HIDE DEF c, r
  <2>2. c
    BY <1>2, <2>1
  <2>3. f[i].lines = r
    BY <2>1, <2>2
  <2> QED
    BY <2>2, <2>3 DEF c, r
<1> DEFINE T == {k \in Nat : k <= n => f[n - k].ok}
<1>3. 0 \in T
  OBVIOUS
<1>4. ASSUME NEW k \in Nat, k \in T PROVE k + 1 \in T
  <2> SUFFICES ASSUME k + 1 <= n PROVE f[n - (k + 1)].ok
    OBVIOUS
  <2> DEFINE i == n - k
  <2>1. i \in 1 .. n /\ i - 1 = n - (k + 1) /\ f[i].ok
    BY <1>4
  <2> HIDE DEF i, T
  <2>2. f[i - 1].ok
    BY <1>2, <2>1
  <2> QED
    BY <2>1, <2>2
<1> HIDE DEF T
<1>5. \A i \in 0 .. n : f[i].ok
  <2> SUFFICES ASSUME NEW i \in 0 .. n PROVE f[i].ok
    OBVIOUS
  <2>1. n - i \in Nat /\ n - i <= n /\ n - (n - i) = i
    OBVIOUS
  <2>2. n - i \in T
    BY <1>3, <1>4, <2>1, SetInduction
  <2> QED
    BY <2>1, <2>2 DEF T
<1>6. \A i \in 1 .. n : i \in 0 .. n
  OBVIOUS
<1> QED
  BY <1>2, <1>5, <1>6 DEF ReplacedInTurn

\* Lines nothing is taken from when they are read again, and the groups that undo
\* others from the last to the first.
LEMMA GroupsUndone ==
    ASSUME NEW A, NEW before \in Seq(CleanLine(A)),
           NEW G, AreGroups(G, LineOf(A)), NEW H, AreGroups(H, LineOf(A)), Len(H) = Len(G),
           \A i \in 1 .. Len(G) : H[i] = Trials!InverseGroup(G[(Len(G) - i) + 1]),
           Trials!ApplyGroups(before, G).ok,
           Trials!ApplyGroups(Stripped(Trials!ApplyGroups(before, G).lines), H).ok
    PROVE  Trials!ApplyGroups(Stripped(Trials!ApplyGroups(before, G).lines), H).lines = before
<1> DEFINE n == Len(G)
           B == LineOf(A)
           after == Trials!ApplyGroups(before, G)
           again == Stripped(after.lines)
           old(i) == Trials!Old(G[i])
           new(i) == Trials!New(G[i])
<1>0. n \in Nat /\ \A i \in 1 .. n : IsSides(G[i], B) /\ (n - i) + 1 \in 1 .. n
  BY DEF AreGroups
<1>1. B \subseteq Seq(A) /\ CleanLine(A) \subseteq B
  BY LineOfText DEF CleanLine
<1>2. before \in Seq(B)
  BY <1>1, SeqMonotonic
<1>3. PICK f : AppliesUp(f, Applied(B), before, G, n)
  BY <1>2, AppliesIs
<1> HIDE DEF B
<1>4. after = f[n] /\ f \in [0 .. n -> Applied(B)] /\ f[0].lines = before
  BY <1>3 DEF AppliesUp
<1>5. \A i \in 0 .. n : f[i].lines \in Seq(B) /\ f[i].lines \in Seq(Seq(A))
  <2> SUFFICES ASSUME NEW i \in 0 .. n PROVE f[i].lines \in Seq(B) /\ f[i].lines \in Seq(Seq(A))
    OBVIOUS
  <2> DEFINE L == f[i].lines
  <2>1. L \in Seq(B)
    BY <1>4 DEF Applied
  <2> HIDE DEF L
  <2>2. L \in Seq(Seq(A))
    BY <1>1, <2>1, SeqMonotonic
  <2> QED
    BY <2>1, <2>2 DEF L
<1>6. n \in 0 .. n /\ 0 \in 0 .. n
  BY <1>0
<1> HIDE DEF n
<1>7. again \in Seq(B)
  <2> DEFINE L == f[n].lines
             s == Stripped(L)
  <2>1. L \in Seq(B)
    BY <1>5, <1>6
  <2> HIDE DEF L
  <2>2. \A i \in 1 .. Len(L) : Trials!WithoutCR(L[i]) \in B
    <3> SUFFICES ASSUME NEW i \in 1 .. Len(L) PROVE Trials!WithoutCR(L[i]) \in B
      OBVIOUS
    <3>1. L[i] \in B
      BY <2>1
    <3> QED
      BY <3>1, WithoutCRFits DEF B, LineOf
  <2>3. Len(L) \in Nat
    BY <2>1
  <2>4. s \in Seq(B)
    BY <2>2, <2>3 DEF Stripped
  <2> QED
    BY <1>4, <2>4 DEF L
<1> HIDE DEF again, after
<1>8. PICK b : AppliesUp(b, Applied(B), again, H, n)
  BY <1>7, AppliesIs DEF B, n
<1>9. Trials!ApplyGroups(again, H) = b[n] /\ b \in [0 .. n -> Applied(B)] /\ b[0].lines = again
  BY <1>8 DEF AppliesUp
<1>10. \A i \in 0 .. n : b[i].lines \in Seq(B) /\ b[i].lines \in Seq(Seq(A))
  <2> SUFFICES ASSUME NEW i \in 0 .. n PROVE b[i].lines \in Seq(B) /\ b[i].lines \in Seq(Seq(A))
    OBVIOUS
  <2> DEFINE L == b[i].lines
  <2>1. L \in Seq(B)
    BY <1>9 DEF Applied
  <2> HIDE DEF L
  <2>2. L \in Seq(Seq(A))
    BY <1>1, <2>1, SeqMonotonic
  <2> QED
    BY <2>1, <2>2 DEF L
<1>11. f[n].ok /\ b[n].ok
  BY <1>4, <1>9 DEF after, again
<1>12. ReplacedInTurn(f, G, n) /\ ReplacedInTurn(b, H, n)
  BY <1>0, <1>3, <1>8, <1>11, AppliedInTurn
<1>13. \A i \in 1 .. n : /\ old(i) # <<>> /\ Trials!MatchesOnce(old(i), f[i - 1].lines)
                         /\ f[i].lines = Trials!ReplaceFirst(f[i - 1].lines, old(i), new(i))
  BY <1>12 DEF ReplacedInTurn
<1>14. \A i \in 1 .. n : H[i] = Trials!InverseGroup(G[(n - i) + 1])
  BY DEF n
<1>15. \A i \in 1 .. n : /\ Trials!Old(H[i]) = new((n - i) + 1)
                         /\ Trials!New(H[i]) = old((n - i) + 1)
  BY <1>0, <1>14, SidesExchanged
<1>16. \A i \in 1 .. n : /\ new((n - i) + 1) # <<>>
                         /\ Trials!MatchesOnce(new((n - i) + 1), b[i - 1].lines)
                         /\ b[i].lines = Trials!ReplaceFirst(b[i - 1].lines, new((n - i) + 1), old((n - i) + 1))
  BY <1>12, <1>15 DEF ReplacedInTurn
<1>17. \A i \in 1 .. n : /\ old(i) \in Seq(B) /\ old(i) \in Seq(Seq(A))
                         /\ new(i) \in Seq(B) /\ new(i) \in Seq(Seq(A))
  <2> SUFFICES ASSUME NEW i \in 1 .. n
               PROVE  /\ old(i) \in Seq(B) /\ old(i) \in Seq(Seq(A))
                      /\ new(i) \in Seq(B) /\ new(i) \in Seq(Seq(A))
    OBVIOUS
  <2>1. old(i) \in Seq(B) /\ new(i) \in Seq(B)
    BY <1>0, SidesFit DEF Trials!Old, Trials!New
  <2> HIDE DEF old, new
  <2>2. old(i) \in Seq(Seq(A)) /\ new(i) \in Seq(Seq(A))
    BY <1>1, <2>1, SeqMonotonic
  <2> QED
    BY <2>1, <2>2
<1> HIDE DEF old, new
<1>18. \A i \in 1 .. n : i - 1 \in 0 .. n /\ i \in 0 .. n
  BY <1>0
\* What each group adds to the weight, the one that undoes it takes away.
<1> DEFINE wf(i) == Weight(f[i].lines)
           wb(i) == Weight(b[i].lines)
<1>19. \A i \in 1 .. n : wf(i) + Weight(old(i)) = wf(i - 1) + Weight(new(i))
  BY <1>5, <1>13, <1>17, <1>18, WeightReplaced
<1>20. \A i \in 1 .. n : wb(i) + Weight(new((n - i) + 1)) = wb(i - 1) + Weight(old((n - i) + 1))
  <2> SUFFICES ASSUME NEW i \in 1 .. n
               PROVE  wb(i) + Weight(new((n - i) + 1)) = wb(i - 1) + Weight(old((n - i) + 1))
    OBVIOUS
  <2> DEFINE o == new((n - i) + 1)
             w == old((n - i) + 1)
             L == b[i - 1].lines
  <2>1. o \in Seq(Seq(A)) /\ w \in Seq(Seq(A))
    BY <1>0, <1>17
  <2>2. L \in Seq(Seq(A))
    BY <1>10, <1>18
  <2>3. o # <<>> /\ Trials!MatchesOnce(o, L) /\ b[i].lines = Trials!ReplaceFirst(L, o, w)
    BY <1>16
  <2> HIDE DEF o, w, L
  <2>4. Weight(b[i].lines) + Weight(o) = Weight(L) + Weight(w)
    BY <2>1, <2>2, <2>3, WeightReplaced
  <2> QED
    BY <2>4 DEF o, w, L
<1>21. /\ \A i \in 0 .. n : wf(i) \in Nat /\ wb(i) \in Nat
       /\ \A i \in 1 .. n : Weight(old(i)) \in Nat /\ Weight(new(i)) \in Nat
  BY <1>5, <1>10, <1>17, WeightFits
<1> HIDE DEF wf, wb
<1> DEFINE T == {i \in Nat : i <= n => wb(i) + wf(n) = wb(0) + wf(n - i)}
<1>22. 0 \in T
  BY <1>0
<1>23. ASSUME NEW k \in Nat, k \in T PROVE k + 1 \in T
  <2> DEFINE i == k + 1
             j == (n - i) + 1
  <2> SUFFICES ASSUME i <= n PROVE wb(i) + wf(n) = wb(0) + wf(n - i)
    OBVIOUS
  <2>1. i \in 1 .. n /\ i - 1 = k /\ j \in 1 .. n /\ j = n - k /\ j - 1 = n - i /\ k \in 0 .. n /\ k <= n
        /\ i \in 0 .. n /\ j \in 0 .. n /\ j - 1 \in 0 .. n
    BY <1>0
  <2>2. wb(k) + wf(n) = wb(0) + wf(j)
    BY <1>23, <2>1
  <2> HIDE DEF T, i, j
  <2>3. wb(i) + Weight(new(j)) = wb(k) + Weight(old(j))
    BY <1>20, <2>1 DEF j
  <2>4. wf(j) + Weight(old(j)) = wf(j - 1) + Weight(new(j))
    BY <1>19, <2>1
  <2>5. /\ wb(i) \in Nat /\ wb(k) \in Nat /\ wb(0) \in Nat /\ wf(n) \in Nat /\ wf(j) \in Nat /\ wf(j - 1) \in Nat
        /\ Weight(old(j)) \in Nat /\ Weight(new(j)) \in Nat
    BY <1>6, <1>21, <2>1
  <2> DEFINE bi == wb(i)
             bk == wb(k)
             b0 == wb(0)
             fn == wf(n)
             fj == wf(j)
             fi == wf(j - 1)
             wo == Weight(old(j))
             wn == Weight(new(j))
  <2>6. bi + fn = b0 + fi
    <3>1. /\ bi \in Nat /\ bk \in Nat /\ b0 \in Nat /\ fn \in Nat /\ fj \in Nat /\ fi \in Nat
          /\ wo \in Nat /\ wn \in Nat
      BY <2>5
    <3>2. bk + fn = b0 + fj /\ bi + wn = bk + wo /\ fj + wo = fi + wn
      BY <2>2, <2>3, <2>4
    <3> HIDE DEF bi, bk, b0, fn, fj, fi, wo, wn
    <3> QED
      BY <3>1, <3>2
  <2> QED
    BY <2>1, <2>6
<1> HIDE DEF T
<1>24. n \in T
  BY <1>0, <1>22, <1>23, SetInduction
<1>24a. n <= n /\ n - n = 0
  <2>1. n \in Int
    BY <1>0 DEF n
  <2> QED
    BY <2>1
<1>25. wb(n) + wf(n) = wb(0) + wf(0)
  BY <1>24, <1>24a DEF T
<1>26. wf(0) = 0
  BY <1>4, CleanWeighsNothing DEF wf
<1>27. f[n].lines = again
  <2> DEFINE L == f[n].lines
  <2>1. L \in Seq(Seq(A)) /\ again = Stripped(L)
    BY <1>4, <1>5, <1>6 DEF again
  <2>2. wb(0) = Weight(Stripped(L)) /\ wf(n) = Weight(L)
    BY <1>9, <2>1 DEF wb, wf
  <2>3. wb(n) \in Nat /\ wf(n) \in Nat /\ wb(0) \in Nat
    BY <1>6, <1>21
  <2> HIDE DEF L
  <2>4. Weight(Stripped(L)) <= Weight(L) /\ (Weight(Stripped(L)) = Weight(L) => Stripped(L) = L)
    BY <2>1, StrippedLighter
  <2>5. Weight(Stripped(L)) = Weight(L)
    BY <1>25, <1>26, <2>2, <2>3, <2>4
  <2> QED
    BY <2>1, <2>4, <2>5 DEF L
\* So each group puts back what the other replaced.
<1> DEFINE V == {i \in Nat : i <= n => b[i].lines = f[n - i].lines}
<1>28. 0 \in V
  <2>1. n - 0 = n
    BY <1>0
  <2> QED
    BY <1>9, <1>27, <2>1
<1>29. ASSUME NEW k \in Nat, k \in V PROVE k + 1 \in V
  <2> DEFINE i == k + 1
             j == (n - i) + 1
             L == f[j - 1].lines
             o == old(j)
             w == new(j)
  <2> SUFFICES ASSUME i <= n PROVE b[i].lines = f[n - i].lines
    OBVIOUS
  <2>1. i \in 1 .. n /\ i - 1 = k /\ j \in 1 .. n /\ j = n - k /\ j - 1 = n - i /\ k <= n /\ j - 1 \in 0 .. n
    BY <1>0
  <2>2. b[k].lines = f[j].lines
    BY <1>29, <2>1
  <2> HIDE DEF V, i, j
  <2>3. b[i].lines = Trials!ReplaceFirst(b[k].lines, w, o) /\ Trials!MatchesOnce(w, b[k].lines) /\ w # <<>>
    BY <1>16, <2>1 DEF j
  <2>4. f[j].lines = Trials!ReplaceFirst(L, o, w) /\ Trials!MatchesOnce(o, L) /\ o # <<>>
    BY <1>13, <2>1
  <2>5. L \in Seq(B) /\ o \in Seq(B) /\ w \in Seq(B)
    BY <1>5, <1>17, <2>1
  <2> HIDE DEF L, o, w
  <2>6. Trials!MatchesOnce(w, Trials!ReplaceFirst(L, o, w))
    BY <2>2, <2>3, <2>4
  <2>7. Trials!ReplaceFirst(Trials!ReplaceFirst(L, o, w), w, o) = L
    BY <2>3, <2>4, <2>5, <2>6, ReplacedComesBack
  <2>8. b[i].lines = L
    BY <2>2, <2>3, <2>4, <2>7
  <2> QED
    BY <2>1, <2>8 DEF L
<1> HIDE DEF V
<1>30. n \in V
  BY <1>0, <1>28, <1>29, SetInduction
<1>31. b[n].lines = f[0].lines
  BY <1>30, <1>24a DEF V
<1> QED
  BY <1>4, <1>9, <1>31 DEF again, after

\* apply_patch with an update section, in terms of the lines.
LEMMA UpdateIs ==
    ASSUME NEW t, NEW raw, Trials!ApplyUpdates(t, raw).ok
    PROVE  /\ Trials!ApplyGroups(Trials!SplitLines(t), Trials!Groups(raw)).ok
           /\ Trials!Groups(raw) # <<>>
           /\ Trials!ApplyUpdates(t, raw).text =
                 Trials!Join(Trials!ApplyGroups(Trials!SplitLines(t), Trials!Groups(raw)).lines)
                    \o LineEnd(Trials!EndsInNL(t))
<1> DEFINE applied == Trials!ApplyGroups(Trials!SplitLines(t), Trials!Groups(raw))
           bad == (\E i \in DOMAIN raw : raw[i].mark = "?") \/ Trials!Groups(raw) = <<>> \/ ~ applied.ok
           res == Trials!Join(applied.lines) \o LineEnd(Trials!EndsInNL(t))
<1>1. Trials!ApplyUpdates(t, raw) = IF bad THEN Trials!Rejected ELSE Trials!Changed(res)
  BY DEF Trials!ApplyUpdates, LineEnd, Trials!EndsInNL
<1> HIDE DEF bad, res
<1>2. ~ Trials!Rejected.ok /\ Trials!Changed(res).text = res
  BY DEF Trials!Rejected, Trials!Changed
<1>3. ~ bad /\ Trials!ApplyUpdates(t, raw).text = res
  BY <1>1, <1>2
<1> QED
  BY <1>3 DEF bad, res

\* The groups of a section and those that undo them, as sequences of lines.
LEMMA UndoFits ==
    ASSUME NEW R, NEW raw \in Seq(R), NEW B, \A l \in R : l.text \in B
    PROVE  LET G == Trials!Groups(raw)
               H == Trials!InverseGroups(raw)
           IN  /\ AreGroups(G, B) /\ AreGroups(H, B) /\ Len(H) = Len(G)
               /\ \A i \in 1 .. Len(G) : H[i] = Trials!InverseGroup(G[(Len(G) - i) + 1])
               /\ Trials!Groups(Trials!Section(H)) = H
<1> DEFINE G == Trials!Groups(raw)
           H == Trials!InverseGroups(raw)
           n == Len(G)
           Q == {Trials!InverseLine(l) : l \in R}
<1>1. G \in Seq(SomeGroup(R))
  BY GroupRunFits
<1>2. H = [i \in 1 .. n |-> Trials!InverseGroup(Trials!Reverse(G)[i])]
  BY DEF Trials!InverseGroups
<1> HIDE DEF G, H
<1>3. n \in Nat /\ \A i \in 1 .. n : (n - i) + 1 \in 1 .. n
  BY <1>1
<1>4. \A i \in 1 .. n : Trials!Reverse(G)[i] = G[(n - i) + 1]
  BY <1>3 DEF Trials!Reverse
<1>5. Len(H) = n /\ DOMAIN H = 1 .. n /\ \A i \in 1 .. n : H[i] = Trials!InverseGroup(G[(n - i) + 1])
  BY <1>2, <1>3, <1>4
<1>6. \A i \in 1 .. n : G[i] \in SomeGroup(R)
  BY <1>1
<1>7. ASSUME NEW g \in SomeGroup(R) PROVE IsSides(g, B) /\ Trials!InverseGroup(g) \in SomeGroup(Q)
  <2>1. g \in Seq(Plain(R)) /\ g # <<>>
    BY DEF SomeGroup
  <2> DEFINE m == Len(g)
             h == Trials!InverseGroup(g)
  <2>2. m \in Nat /\ m # 0 /\ \A i \in 1 .. m : g[i] \in Plain(R)
    BY <2>1
  <2>3. \A i \in 1 .. m : g[i].text \in B
    BY <2>2 DEF Plain
  <2>4. h = [i \in 1 .. m |-> Trials!InverseLine(g[i])]
    BY DEF Trials!InverseGroup
  <2>5. ASSUME NEW l \in Plain(R) PROVE Trials!InverseLine(l) \in Plain(Q)
    <3>1. l \in R /\ l.mark # "@@"
      BY DEF Plain
    <3>2. Trials!InverseLine(l).mark # "@@"
      BY <3>1 DEF Trials!InverseLine
    <3> QED
      BY <3>1, <3>2 DEF Plain
  <2> HIDE DEF h, Q
  <2>6. h \in Seq(Plain(Q)) /\ Len(h) = m
    BY <2>2, <2>4, <2>5
  <2>7. h # <<>>
    BY <2>2, <2>6
  <2>8. h \in SomeGroup(Q)
    BY <2>6, <2>7 DEF SomeGroup
  <2> QED
    BY <2>2, <2>3, <2>8 DEF IsSides, h
<1>8. AreGroups(G, B)
  BY <1>3, <1>6, <1>7 DEF AreGroups
<1>9. \A i \in 1 .. n : IsSides(H[i], B) /\ H[i] \in SomeGroup(Q)
  <2> SUFFICES ASSUME NEW i \in 1 .. n PROVE IsSides(H[i], B) /\ H[i] \in SomeGroup(Q)
    OBVIOUS
  <2> DEFINE g == G[(n - i) + 1]
  <2>1. H[i] = Trials!InverseGroup(g) /\ g \in SomeGroup(R)
    BY <1>3, <1>5, <1>6
  <2> HIDE DEF g, Q
  <2>2. IsSides(g, B) /\ Trials!InverseGroup(g) \in SomeGroup(Q)
    BY <1>7, <2>1
  <2> QED
    BY <2>1, <2>2, SidesExchanged
<1>10. AreGroups(H, B)
  BY <1>3, <1>5, <1>9 DEF AreGroups
<1> HIDE DEF Q
<1>11. H \in Seq(SomeGroup(Q))
  <2>1. H = [i \in 1 .. n |-> H[i]]
    BY <1>2, <1>5
  <2> QED
    BY <1>3, <1>9, <2>1
<1>12. Trials!Groups(Trials!Section(H)) = H
  BY <1>11, GroupsOfSection
<1> QED
  BY <1>5, <1>8, <1>10, <1>12 DEF G, H

LEMMA SplitLinesFits ==
    ASSUME NEW A, NEW t \in Seq(A)
    PROVE  Trials!SplitLines(t) \in Seq(Seq(A))
<1>1. PICK f : SplitsUp(f, A, t, Len(t))
  BY SplitIs
<1> DEFINE cut == Trials!Split(t)
<1>2. Len(t) \in 0 .. Len(t)
  OBVIOUS
<1>3. cut \in SplitAcc(A)
  BY <1>1, <1>2 DEF SplitsUp
<1> HIDE DEF cut
<1>4. cut.done \in Seq(Seq(A)) /\ cut.line \in Seq(A)
  BY <1>3 DEF SplitAcc
<1> DEFINE d == cut.done
           x == Trials!WithoutCR(cut.line)
<1>5. d \in Seq(Seq(A)) /\ x \in Seq(A)
  BY <1>4, WithoutCRFits
<1> HIDE DEF d, x
<1>6. Append(d, x) \in Seq(Seq(A))
  BY <1>5
<1> QED
  BY <1>5, <1>6 DEF Trials!SplitLines, cut, d, x

LEMMA PlaceInSome ==
    ASSUME NEW B, NEW L \in Seq(B), NEW o \in Seq(B), o # <<>>, Trials!MatchesOnce(o, L)
    PROVE  L # <<>>
<1>0. HasPlace(L, o, B)
  BY PlaceExists
<1>1. PICK p \in Seq(B), q \in Seq(B) : L = (p \o o) \o q
  BY <1>0 DEF HasPlace
<1>2. Len(L) = Len(p) + Len(o) + Len(q) /\ Len(o) # 0 /\ Len(p) \in Nat /\ Len(q) \in Nat /\ Len(o) \in Nat
  BY <1>1
<1>3. Len(L) # 0
  BY <1>2
<1> QED
  BY <1>3

\* What is replaced is there, and so is what replaces it.
LEMMA PutIsThere ==
    ASSUME NEW B, NEW L \in Seq(B), NEW o \in Seq(B), NEW w \in Seq(B), o # <<>>, w # <<>>,
           Trials!MatchesOnce(o, L)
    PROVE  Trials!ReplaceFirst(L, o, w) # <<>>
<1>0. HasPlace(L, o, B)
  BY PlaceExists
<1>1. PICK u \in Seq(B), v \in Seq(B) : L = (u \o o) \o v
  BY <1>0 DEF HasPlace
<1>2. Trials!ReplaceFirst(L, o, w) = (u \o w) \o v
  BY <1>1, PlaceIs
<1> DEFINE r == (u \o w) \o v
<1>3. Len(r) = Len(u) + Len(w) + Len(v) /\ Len(u) \in Nat /\ Len(v) \in Nat /\ Len(w) \in Nat /\ Len(w) # 0
  OBVIOUS
<1> HIDE DEF r
<1>4. Len(r) # 0
  BY <1>3
<1>5. r # <<>>
  BY <1>4
<1> QED
  BY <1>2, <1>5 DEF r

\* A section taken back by the one with + and - exchanged and its groups from last
\* to first.
LEMMA UpdateIsUndone ==
    ASSUME NEW A, NL \in A, NEW t \in Seq(A), Trials!NoCRAtEnds(t),
           NEW R, NEW raw \in Seq(R), \A l \in R : l.text \in LineOf(A),
           NEW o, o = Trials!ApplyUpdates(t, raw), o.ok,
           Trials!EndsInNL(o.text) = Trials!EndsInNL(t),
           NEW u, u = Trials!ApplyUpdates(o.text, Trials!Section(Trials!InverseGroups(raw))), u.ok
    PROVE  u.text = t
<1> DEFINE B == LineOf(A)
           G == Trials!Groups(raw)
           H == Trials!InverseGroups(raw)
           n == Len(G)
           hadNL == Trials!EndsInNL(t)
           before == Trials!SplitLines(t)
           after == Trials!ApplyGroups(before, G)
           again == Trials!SplitLines(o.text)
           back == Trials!ApplyGroups(again, H)
<1>1. /\ AreGroups(G, B) /\ AreGroups(H, B) /\ Len(H) = n
      /\ \A i \in 1 .. n : H[i] = Trials!InverseGroup(G[(n - i) + 1])
      /\ Trials!Groups(Trials!Section(H)) = H
  BY UndoFits
<1>2. before \in Seq(CleanLine(A)) /\ Trials!Join(before) \o LineEnd(hadNL) = t
  BY JoinAgain
<1>3. after.ok /\ G # <<>> /\ o.text = Trials!Join(after.lines) \o LineEnd(hadNL)
  BY UpdateIs
<1>4. back.ok /\ u.text = Trials!Join(back.lines) \o LineEnd(Trials!EndsInNL(o.text))
  <2> DEFINE s == o.text
             section == Trials!Section(H)
             res == Trials!ApplyUpdates(s, section)
  <2>1. u = res /\ res.ok /\ Trials!Groups(section) = H
    BY <1>1
  <2> HIDE DEF s, section
  <2>2. /\ Trials!ApplyGroups(Trials!SplitLines(s), Trials!Groups(section)).ok
        /\ res.text = Trials!Join(Trials!ApplyGroups(Trials!SplitLines(s), Trials!Groups(section)).lines)
                        \o LineEnd(Trials!EndsInNL(s))
    BY <2>1, UpdateIs
  <2> HIDE DEF H, res
  <2> QED
    BY <2>1, <2>2 DEF s
<1>5. hadNL \in BOOLEAN /\ Trials!EndsInNL(o.text) = hadNL
  BY DEF Trials!EndsInNL
<1>6. n \in Nat /\ n # 0 /\ n \in 1 .. n /\ 1 \in 1 .. n /\ n - 1 \in 0 .. n /\ (n - 1) + 1 = n /\ 1 - 1 = 0
  <2>1. G \in Seq(SomeGroup(R))
    BY GroupRunFits
  <2> HIDE DEF G
  <2>2. n \in Nat /\ n # 0
    BY <1>3, <2>1
  <2> QED
    BY <2>2
<1>7. B \subseteq Seq(A) /\ CleanLine(A) \subseteq B
  BY LineOfText DEF CleanLine
<1>8. before \in Seq(B)
  BY <1>2, <1>7, SeqMonotonic
<1> HIDE DEF B, G, H, hadNL, before, after, again, back
<1>9. PICK f : AppliesUp(f, Applied(B), before, G, n)
  BY <1>1, <1>8, AppliesIs DEF n
<1> HIDE DEF n
<1>10. f \in [0 .. n -> Applied(B)] /\ after = f[n]
  BY <1>9 DEF AppliesUp, after
<1>11. after.lines \in Seq(B) /\ f[n - 1].lines \in Seq(B)
  BY <1>6, <1>10 DEF Applied
<1> DEFINE L == after.lines
<1>12. L \in Seq(B) /\ L \in Seq(Seq(A))
  BY <1>7, <1>11, SeqMonotonic
<1>13. o.text \in Seq(A)
  <2> DEFINE j == Trials!Join(L)
             e == LineEnd(hadNL)
  <2>1. j \in Seq(A)
    BY <1>12, JoinFits
  <2>2. e \in Seq(A)
    BY DEF LineEnd
  <2> HIDE DEF j, e
  <2>3. j \o e \in Seq(A)
    BY <2>1, <2>2
  <2> QED
    BY <1>3, <2>3 DEF j, e
<1>14. again \in Seq(Seq(A))
  BY <1>13, SplitLinesFits DEF again
<1>15. AreGroups(H, Seq(A))
  BY <1>1, <1>7 DEF AreGroups, IsSides
\* The last group's new lines are found first when it is undone.
<1> DEFINE w == Trials!New(G[n])
           x == Trials!Old(G[n])
<1>16. IsSides(G[n], B)
  BY <1>1, <1>6 DEF AreGroups, n
<1>17. w \in Seq(B) /\ x \in Seq(B)
  BY <1>16, SidesFit DEF Trials!New, Trials!Old
<1>18. w # <<>> /\ Trials!MatchesOnce(w, again)
  <2>1. PICK b : AppliesUp(b, Applied(Seq(A)), again, H, n)
    BY <1>1, <1>14, <1>15, AppliesIs
  <2>2. b[n].ok /\ b[0].lines = again
    BY <1>4, <2>1 DEF AppliesUp, back
  <2>3. ReplacedInTurn(b, H, n)
    BY <1>6, <2>1, <2>2, AppliedInTurn
  <2>4. Trials!Old(H[1]) = w
    BY <1>1, <1>6, <1>16, SidesExchanged
  <2> HIDE DEF w
  <2> QED
    BY <1>6, <2>2, <2>3, <2>4 DEF ReplacedInTurn
<1>19. x # <<>> /\ Trials!MatchesOnce(x, f[n - 1].lines) /\ L = Trials!ReplaceFirst(f[n - 1].lines, x, w)
  <2>1. f[n].ok
    BY <1>3, <1>10
  <2>2. ReplacedInTurn(f, G, n)
    BY <1>6, <1>9, <2>1, AppliedInTurn
  <2> QED
    BY <1>6, <1>10, <2>2 DEF ReplacedInTurn
<1> HIDE DEF w, x, L
<1>20. L # <<>>
  BY <1>11, <1>17, <1>18, <1>19, PutIsThere
<1>21. w \in Seq(Seq(A))
  BY <1>7, <1>17, SeqMonotonic
<1>22. again # <<>>
  BY <1>14, <1>18, <1>21, PlaceInSome
\* So no line of the result is lost when it is read again.
<1>23. hadNL \/ Trials!Last(L) # <<>>
  <2> SUFFICES ASSUME ~ hadNL, Trials!Last(L) = <<>> PROVE FALSE
    OBVIOUS
  <2>1. PICK M \in Seq(B), y \in B : L = Append(M, y)
    BY <1>12, <1>20, SequenceEmptyOrAppend
  <2>2. y = <<>>
    <3>1. Append(M, y)[Len(Append(M, y))] = y
      OBVIOUS
    <3> QED
      BY <2>1, <3>1 DEF Trials!Last
  <2> DEFINE j == Trials!Join(L)
  <2>3. j \in Seq(A)
    BY <1>12, JoinFits
  <2>4. o.text = j
    <3> HIDE DEF j
    <3>1. j \o <<>> = j
      BY <2>3
    <3> QED
      BY <1>3, <3>1 DEF LineEnd, L, j
  <2>5. Trials!Split(j) = [done |-> Stripped(M), line |-> y]
    BY <2>1, SplitOfJoin DEF B
  <2>6. again = Stripped(M)
    BY <2>2, <2>4, <2>5 DEF Trials!SplitLines, again
  <2>7. M # <<>>
    <3>1. Len(<<>>) = 0
      OBVIOUS
    <3>2. Stripped(<<>>) = <<>>
      BY <3>1 DEF Stripped
    <3> QED
      BY <1>22, <2>6, <3>2
  <2>8. M \in Seq(Seq(A)) /\ y \in Seq(A)
    BY <1>7, SeqMonotonic
  <2> DEFINE m == Trials!Join(M)
  <2>9. j = Append(m, NL) \o y
    BY <2>1, <2>7, <2>8, JoinGrows
  <2>10. m \in Seq(A)
    BY <2>8, JoinFits
  <2> HIDE DEF m
  <2> DEFINE k == Append(m, NL)
  <2>11. k # <<>> /\ k[Len(k)] = NL /\ k \o <<>> = k
    BY <2>10
  <2> HIDE DEF k, j
  <2>12. o.text # <<>> /\ Trials!Last(o.text) = NL
    BY <2>2, <2>4, <2>9, <2>11 DEF Trials!Last, k
  <2> QED
    BY <1>5, <2>12 DEF Trials!EndsInNL
<1>24. again = Stripped(L)
  BY <1>3, <1>12, <1>20, <1>23, LinesAgain DEF B, again, L
<1>25. back.lines = before
  <2>1. Trials!ApplyGroups(before, G).lines = L /\ Trials!ApplyGroups(before, G).ok
    BY <1>3 DEF after, L
  <2>2. Trials!ApplyGroups(Stripped(L), H) = back
    BY <1>24 DEF back
  <2>3. AreGroups(G, LineOf(A)) /\ AreGroups(H, LineOf(A)) /\ Len(H) = Len(G)
    BY <1>1 DEF B, n
  <2>4. \A i \in 1 .. Len(G) : H[i] = Trials!InverseGroup(G[(Len(G) - i) + 1])
    BY <1>1 DEF n
  <2>5. Trials!ApplyGroups(Stripped(Trials!ApplyGroups(before, G).lines), H).ok
    BY <1>4, <2>1, <2>2
  <2>6. Trials!ApplyGroups(Stripped(Trials!ApplyGroups(before, G).lines), H).lines = before
    BY <1>2, <2>1, <2>3, <2>4, <2>5, GroupsUndone
  <2> QED
    BY <2>1, <2>2, <2>6
<1> QED
  BY <1>2, <1>4, <1>5, <1>25

\* An edit of a text nobody else touches does what it is asked.
LEMMA TryEditFits == ASSUME Trials!TextsFit, Trials!TryEdit PROVE TextsAsAsked'
<1>1. PICK s \in EditTexts, old \in EditOlds, new \in EditNews, all \in BOOLEAN :
          trial' = [tool |-> "edit", text |-> s, old |-> old, new |-> new, all |-> all,
                    out |-> Trials!EditText(s, old, new, all)]
  BY DEF Trials!TryEdit
<1> DEFINE A == ((Trials!Range(s) \cup Trials!Range(old)) \cup Trials!Range(new)) \cup {NL, CR}
           crlf == Trials!UsesCRLF(s)
           from == Trials!ConvertToLineEnding(old, crlf)
           to == Trials!ConvertToLineEnding(new, crlf)
           out == Trials!EditText(s, old, new, all)
<1>2. s \in Seq(Trials!Range(s)) /\ old \in Seq(Trials!Range(old)) /\ new \in Seq(Trials!Range(new))
  BY DEF Trials!TextsFit
<1>3. /\ NL \in A /\ CR \in A
      /\ Trials!Range(s) \subseteq A /\ Trials!Range(old) \subseteq A /\ Trials!Range(new) \subseteq A
  OBVIOUS
<1> HIDE DEF A
<1>4. s \in Seq(A) /\ old \in Seq(A) /\ new \in Seq(A)
  BY <1>2, <1>3, SeqMonotonic
<1>5. out.ok => /\ out.text = Trials!Replacing(s, from, to)
                /\ all \/ Trials!Cardinality(Trials!Due(s, from)) = 1
  <2>1. out.ok => EditExact(A, s, old, new, all)
    BY <1>3, <1>4, EditIsExact
  <2> QED
    BY <2>1 DEF EditExact
<1>6. out.ok /\ crlf /\ Trials!AllCRLF(s) /\ Trials!NoCR(old) /\ Trials!NoCR(new) => Trials!AllCRLF(out.text)
  BY <1>3, <1>4, EditKeepsCRLF
<1> HIDE DEF out
<1>7. /\ trial'.tool = "edit" /\ trial'.text = s /\ trial'.old = old /\ trial'.new = new
      /\ trial'.all = all /\ trial'.out = out
  BY <1>1 DEF out
<1> HIDE DEF crlf, from, to
<1>8. Trials!EditReplacesExactly'
  BY <1>5, <1>7 DEF Trials!EditReplacesExactly, crlf, from, to
<1>9. Trials!EditKeepsLineEnds'
  BY <1>6, <1>7 DEF Trials!EditKeepsLineEnds, crlf
<1>10. Trials!UpdateReverses'
  BY <1>7 DEF Trials!UpdateReverses
<1> QED
  BY <1>8, <1>9, <1>10 DEF TextsAsAsked

\* An update nobody interferes with can be taken back.
LEMMA TryUpdateFits == ASSUME Trials!TextsFit, Trials!TryUpdate PROVE TextsAsAsked'
<1>1. PICK t \in PatchTexts, raw \in Trials!Sections :
          /\ Trials!ApplyUpdates(t, raw).ok
          /\ trial' = [tool |-> "apply_patch", text |-> t, raw |-> raw,
                       out |-> Trials!ApplyUpdates(t, raw)]
  BY DEF Trials!TryUpdate
<1> DEFINE W == UNION {Trials!Range(l.text) : l \in PatchLines}
           A == (Trials!Range(t) \cup W) \cup {NL}
           o == Trials!ApplyUpdates(t, raw)
           undo == Trials!Section(Trials!InverseGroups(raw))
           u == Trials!ApplyUpdates(o.text, undo)
<1>2. t \in Seq(Trials!Range(t)) /\ Trials!Range(t) \subseteq A /\ NL \in A
  BY DEF Trials!TextsFit
<1>3. ASSUME NEW l \in PatchLines PROVE l.text \in LineOf(A)
  <2>1. l.text \in Seq(Trials!Range(l.text)) /\ NL \notin Trials!Range(l.text)
    BY DEF Trials!TextsFit
  <2>2. Trials!Range(l.text) \subseteq A \ {NL}
    BY <2>1
  <2> HIDE DEF A
  <2> QED
    BY <2>1, <2>2, SeqMonotonic DEF LineOf
<1>4. raw \in Seq(PatchLines)
  <2>1. PICK n \in 1 .. MaxSection : raw \in [1 .. n -> PatchLines]
    BY DEF Trials!Sections
  <2>2. n \in Nat
    BY DEF Trials!TextsFit
  <2> QED
    BY <2>1, <2>2
<1> HIDE DEF A
<1>5. t \in Seq(A)
  BY <1>2, SeqMonotonic
<1>6. Trials!NoCRAtEnds(t) /\ Trials!EndsInNL(o.text) = Trials!EndsInNL(t) /\ u.ok => u.text = t
  BY <1>1, <1>2, <1>3, <1>4, <1>5, UpdateIsUndone
<1> HIDE DEF o, u
<1>7. trial'.tool = "apply_patch" /\ trial'.text = t /\ trial'.raw = raw /\ trial'.out = o
  BY <1>1 DEF o
<1>8. Trials!EditReplacesExactly' /\ Trials!EditKeepsLineEnds'
  BY <1>7 DEF Trials!EditReplacesExactly, Trials!EditKeepsLineEnds
<1>9. Trials!UpdateReverses'
  BY <1>6, <1>7 DEF Trials!UpdateReverses, u
<1> QED
  BY <1>8, <1>9 DEF TextsAsAsked

-----------------------------------------------------------------------------
\* The run's TextsAsAsked, for any texts, arguments and sections: edit replaces the
\* places its scan finds and nothing else, keeps CRLF line ends, and an update is
\* taken back by its section turned round (edit.h 20-105, apply_patch.h 139-335).
THEOREM TextsAlwaysAsAsked == Spec => []TextsAsAsked
<1>1. Init => TextsAsAsked
  <2> SUFFICES ASSUME Init PROVE TextsAsAsked
    OBVIOUS
  <2>1. trial.tool = "none"
    BY DEF Init, Trials!Init
  <2> QED
    BY <2>1 DEF TextsAsAsked, Trials!EditReplacesExactly, Trials!EditKeepsLineEnds, Trials!UpdateReverses
<1>2. TextsAsAsked /\ [Next]_vars => TextsAsAsked'
  <2> SUFFICES ASSUME TextsAsAsked, [Next]_vars PROVE TextsAsAsked'
    OBVIOUS
  <2>1. TrialsNext \/ UNCHANGED trial
    BY DEF Next, vars, ContextNext, FilesNext, ReadsNext, SseNext, MessagesNext
  <2>2. CASE TrialsNext
    BY <2>2, TextsAssumption, TryEditFits, TryUpdateFits DEF TrialsNext, Trials!Next
  <2>3. CASE UNCHANGED trial
    BY <2>3 DEF TextsAsAsked, Trials!EditReplacesExactly, Trials!EditKeepsLineEnds, Trials!UpdateReverses
  <2> QED
    BY <2>1, <2>2, <2>3
<1> QED
  BY <1>1, <1>2, PTL DEF Spec

-----------------------------------------------------------------------------
(* FileTools takes the operators of TextEdits by an instance of its own.      *)

LEMMA SameConvert == \A s, crlf : Files!ConvertToLineEnding(s, crlf) = Trials!ConvertToLineEnding(s, crlf)
<1>1. \A s : Files!FlattenSeq(s) = Trials!FlattenSeq(s)
  BY DEF Files!FlattenSeq, Trials!FlattenSeq
<1>2. \A s : Files!NormalizeLineEndings(s) = Trials!NormalizeLineEndings(s)
  BY <1>1 DEF Files!NormalizeLineEndings, Trials!NormalizeLineEndings, Files!OccursAt, Trials!OccursAt
<1> QED
  BY <1>1, <1>2 DEF Files!ConvertToLineEnding, Trials!ConvertToLineEnding

LEMMA SamePlaces ==
    /\ \A u, v : Files!Positions(u, v) = Trials!Positions(u, v)
    /\ \A u, v, w : Files!ReplaceFirst(u, v, w) = Trials!ReplaceFirst(u, v, w)
<1>1. \A u, v : Files!Positions(u, v) = Trials!Positions(u, v)
  BY DEF Files!Positions, Trials!Positions, Files!OccursAt, Trials!OccursAt
<1> QED
  BY <1>1 DEF Files!ReplaceFirst, Trials!ReplaceFirst

LEMMA SameEdit ==
    \A s, old, new, all : Files!EditText(s, old, new, all) = Trials!EditText(s, old, new, all)
<1>1. \A s, u : Files!CountOccurrences(s, u) = Trials!CountOccurrences(s, u)
  BY DEF Files!CountOccurrences, Trials!CountOccurrences, Files!OccursAt, Trials!OccursAt
<1>2. \A s, u, v : Files!ReplaceAllStr(s, u, v) = Trials!ReplaceAllStr(s, u, v)
  BY DEF Files!ReplaceAllStr, Trials!ReplaceAllStr, Files!OccursAt, Trials!OccursAt
<1>3. \A s : Files!UsesCRLF(s) = Trials!UsesCRLF(s)
  BY SamePlaces DEF Files!UsesCRLF, Trials!UsesCRLF
<1>4. Files!Rejected = Trials!Rejected /\ \A s : Files!Changed(s) = Trials!Changed(s)
  BY DEF Files!Rejected, Trials!Rejected, Files!Changed, Trials!Changed
<1> TAKE s, old, new, all
<1> DEFINE crlf == Trials!UsesCRLF(s)
           from == Trials!ConvertToLineEnding(old, crlf)
           to == Trials!ConvertToLineEnding(new, crlf)
           n == Trials!CountOccurrences(s, from)
           made == IF all THEN Trials!ReplaceAllStr(s, from, to) ELSE Trials!ReplaceFirst(s, from, to)
           edited == IF old = new \/ old = <<>> \/ n = 0 \/ (n > 1 /\ ~all)
                       THEN Trials!Rejected ELSE Trials!Changed(made)
<1>5. Trials!EditText(s, old, new, all) = edited
  BY Zenon DEF Trials!EditText
<1>6. /\ Files!UsesCRLF(s) = crlf
      /\ Files!ConvertToLineEnding(old, crlf) = from /\ Files!ConvertToLineEnding(new, crlf) = to
      /\ Files!CountOccurrences(s, from) = n
      /\ Files!ReplaceAllStr(s, from, to) = Trials!ReplaceAllStr(s, from, to)
      /\ Files!ReplaceFirst(s, from, to) = Trials!ReplaceFirst(s, from, to)
  BY <1>1, <1>2, <1>3, SameConvert, SamePlaces
<1>7. Files!EditText(s, old, new, all) = edited
  BY <1>4, <1>6, Zenon DEF Files!EditText
<1> QED
  BY <1>5, <1>7

LEMMA SameSplitJoin ==
    /\ \A s : Files!SplitLines(s) = Trials!SplitLines(s)
    /\ \A L : Files!Join(L) = Trials!Join(L)
<1>1. \A s : Files!Split(s) = Trials!Split(s)
  BY DEF Files!Split, Trials!Split, Files!WithoutCR, Trials!WithoutCR, Files!Last, Trials!Last, Files!Front, Trials!Front
<1>2. \A s : Files!SplitLines(s) = Trials!SplitLines(s)
  BY <1>1 DEF Files!SplitLines, Trials!SplitLines, Files!WithoutCR, Trials!WithoutCR, Files!Last, Trials!Last,
              Files!Front, Trials!Front
<1>3. \A L : Files!Join(L) = Trials!Join(L)
  BY DEF Files!Join, Trials!Join
<1> QED
  BY <1>2, <1>3

LEMMA SameUpdate == \A s, raw : Files!ApplyUpdates(s, raw) = Trials!ApplyUpdates(s, raw)
<1>1. \A raw : Files!Groups(raw) = Trials!Groups(raw)
  BY DEF Files!Groups, Trials!Groups, Files!Closed, Trials!Closed
<1>2. \A g, marks : Files!Side(g, marks) = Trials!Side(g, marks)
  BY DEF Files!Side, Trials!Side
<1>3. \A u, v : Files!MatchesOnce(u, v) = Trials!MatchesOnce(u, v)
  <2>1. \A S : Files!Cardinality(S) = Trials!Cardinality(S)
    BY DEF Files!Cardinality, Trials!Cardinality
  <2> QED
    BY <2>1, SamePlaces DEF Files!MatchesOnce, Trials!MatchesOnce
<1>4. \A acc, g : Files!ApplyGroup(acc, g) = Trials!ApplyGroup(acc, g)
  BY <1>2, <1>3, SamePlaces DEF Files!ApplyGroup, Trials!ApplyGroup, Files!Old, Trials!Old, Files!New, Trials!New
<1>5. \A L, gs : Files!ApplyGroups(L, gs) = Trials!ApplyGroups(L, gs)
  BY <1>4 DEF Files!ApplyGroups, Trials!ApplyGroups
<1> QED
  BY <1>1, <1>5, SameSplitJoin DEF Files!ApplyUpdates, Trials!ApplyUpdates, Files!Last, Trials!Last,
     Files!Rejected, Trials!Rejected, Files!Changed, Trials!Changed

\* Texts on the disk, and what the tools make of them.
Content == Seq(Symbols)

LEMMA SymbolsFit == Files!InputsFit => NL \in Symbols /\ CR \in Symbols
  BY DEF Files!InputsFit

LEMMA EditedFits ==
    ASSUME Files!InputsFit, NEW s \in Content, NEW old \in Content, NEW new \in Content, NEW all \in BOOLEAN,
           Files!EditText(s, old, new, all).ok
    PROVE  Files!EditText(s, old, new, all).text \in Content
<1> DEFINE A == Symbols
           out == Trials!EditText(s, old, new, all)
           from == Trials!ConvertToLineEnding(old, Trials!UsesCRLF(s))
           to == Trials!ConvertToLineEnding(new, Trials!UsesCRLF(s))
<1>1. NL \in A /\ CR \in A /\ s \in Seq(A) /\ old \in Seq(A) /\ new \in Seq(A)
  BY SymbolsFit DEF Content
<1>2. Files!EditText(s, old, new, all) = out
  BY SameEdit
<1>3. EditExact(A, s, old, new, all)
  BY <1>1, <1>2, EditIsExact
<1>4. from \in Seq(A) /\ to \in Seq(A) /\ out.text = Trials!Replacing(s, from, to)
  BY <1>3 DEF EditExact
<1> HIDE DEF from, to, out
<1>5. PICK F : Replaces(F, A, s, from, to)
  BY <1>1, <1>4, ReplacingOneByOne
<1>6. Len(s) \in 0 .. Len(s)
  BY <1>1
<1>7. Trials!Replacing(s, from, to) \in Seq(A)
  BY <1>5, <1>6 DEF Replaces
<1> QED
  BY <1>2, <1>4, <1>7 DEF Content

LEMMA UpdatedFits ==
    ASSUME Files!InputsFit, NEW s \in Content, NEW raw \in Seq(SectionLine), Files!ApplyUpdates(s, raw).ok
    PROVE  Files!ApplyUpdates(s, raw).text \in Content
<1> DEFINE A == Symbols
           B == Seq(A)
           L == Trials!SplitLines(s)
           G == Trials!Groups(raw)
           done == Trials!ApplyGroups(L, G)
           n == Len(G)
<1>1. NL \in A /\ s \in Seq(A)
  BY SymbolsFit DEF Content
<1>2. Files!ApplyUpdates(s, raw) = Trials!ApplyUpdates(s, raw)
  BY SameUpdate
<1>3. Trials!ApplyUpdates(s, raw).text = Trials!Join(done.lines) \o LineEnd(Trials!EndsInNL(s))
  BY <1>2, UpdateIs
<1>4. L \in Seq(B)
  BY <1>1, SplitLinesFits
<1>5. \A l \in SectionLine : l.text \in B
  BY DEF SectionLine
<1> HIDE DEF B, L
<1>6. AreGroups(G, B)
  BY <1>5, UndoFits
<1> HIDE DEF G
<1>7. PICK f : AppliesUp(f, Applied(B), L, G, n)
  BY <1>4, <1>6, AppliesIs
<1>8. n \in 0 .. n
  BY <1>6 DEF AreGroups
<1>9. done \in Applied(B)
  BY <1>7, <1>8 DEF AppliesUp
<1> HIDE DEF done
<1>10. Trials!Join(done.lines) \in Seq(A)
  BY <1>1, <1>9, JoinFits DEF Applied, B
<1> DEFINE joined == Trials!Join(done.lines)
           rest == LineEnd(Trials!EndsInNL(s))
<1>11. rest \in Seq(A)
  BY <1>1 DEF LineEnd
<1> HIDE DEF joined, rest
<1>12. joined \o rest \in Seq(A)
  BY <1>10, <1>11 DEF joined
<1> QED
  BY <1>2, <1>3, <1>12 DEF Content, joined, rest

LEMMA AddedFits ==
    ASSUME Files!InputsFit, NEW raw \in Seq(SectionLine)
    PROVE  Files!AddContent(raw) \in Content
<1> DEFINE A == Symbols
           L == [i \in 1 .. Len(raw) |-> raw[i].text]
           c == Files!Join(L)
<1>1. \A i \in 1 .. Len(raw) : raw[i].text \in Seq(A)
  <2>1. \A i \in 1 .. Len(raw) : raw[i] \in SectionLine
    OBVIOUS
  <2>2. \A l \in SectionLine : l.text \in Seq(A)
    BY DEF SectionLine
  <2> QED
    BY <2>1, <2>2
<1>2. L \in Seq(Seq(A))
  BY <1>1
<1> HIDE DEF L
<1>3. NL \in A
  BY SymbolsFit
<1>4. c \in Seq(A)
  BY <1>2, <1>3, JoinFits, SameSplitJoin
<1>5. Files!AddContent(raw) = IF c # <<>> /\ Files!Last(c) # NL THEN Append(c, NL) ELSE c
  BY DEF Files!AddContent, L
<1> HIDE DEF c
<1> QED
  BY <1>3, <1>4, <1>5 DEF Content

\* What a section makes of a file: a text, or no file.
LEMMA PreparedFits ==
    ASSUME Files!InputsFit, NEW hunk \in Hunk, NEW cur \in {Absent} \cup Content, Files!Prepare(hunk, cur).ok
    PROVE  Files!Prepare(hunk, cur).text \in {Absent} \cup Content
<1>1. hunk.lines \in Seq(SectionLine) /\ hunk.type \in {"add", "update", "delete"}
  BY DEF Hunk
<1>2. CASE hunk.type = "add"
  <2>1. Files!Prepare(hunk, cur).text = Files!AddContent(hunk.lines)
    BY <1>2 DEF Files!Prepare
  <2> QED
    BY <1>1, <2>1, AddedFits
<1>3. CASE hunk.type = "delete"
  BY <1>3 DEF Files!Prepare
<1>4. CASE hunk.type = "update"
  <2>1. Files!Prepare(hunk, cur) = IF cur = Absent THEN Files!Rejected ELSE Files!ApplyUpdates(cur, hunk.lines)
    BY <1>4 DEF Files!Prepare
  <2>2. ~ Files!Rejected.ok
    BY DEF Files!Rejected
  <2>3. cur # Absent /\ Files!Prepare(hunk, cur) = Files!ApplyUpdates(cur, hunk.lines)
    BY <2>1, <2>2
  <2> QED
    BY <1>1, <2>3, UpdatedFits
<1> QED
  BY <1>1, <1>2, <1>3, <1>4

-----------------------------------------------------------------------------
(* The disk: whoever writes, and whatever comes in between, a file that is     *)
(* there is a text, and so is what every call holds to write.                  *)

MaybeContent == {Absent} \cup Content

\* A prepared section.
Op == [path : Paths, text : MaybeContent]

OneFileHeld(c) ==
    /\ c.pc \in {"computed", "rechecked", "opened"} /\ c.tool \in {"edit", "write"}
    /\ {"pc", "tool", "path", "text"} \subseteq DOMAIN c /\ c.path \in Paths /\ c.text \in Content

PatchHeld(c) ==
    /\ c.pc \in {"verify", "apply", "opened"} /\ c.tool = "apply_patch" /\ DOMAIN c = PatchFields
    /\ c.text \in Content /\ (c.pc = "opened" => c.path \in Paths)
    /\ c.todo \in Seq(Hunk) /\ c.prepared \in Seq(Op)
    /\ \A p \in DOMAIN c.content : c.content[p] \in Content

Held(c) == c.pc = "idle" \/ OneFileHeld(c) \/ PatchHeld(c)

DiskFits(d) == d \in [Paths -> MaybeContent]

DiskInv ==
    /\ DiskFits(disk) /\ call = [a \in Agents |-> call[a]]
    /\ \A a \in Agents : Held(call[a])

LEMMA IdleHeld == \A r : Held(Files!Idle(r))
  BY DEF Held, Files!Idle

LEMMA TouchedHeld == ASSUME NEW c, NEW linked, Held(c), c.pc # "idle" PROVE Held(Touched(c, linked))
<1> DEFINE t == Touched(c, linked)
<1>1. DOMAIN t = DOMAIN c /\ \A f \in DOMAIN c : f \notin {"touched", "linked"} => t[f] = c[f]
  BY DEF Touched
<1> HIDE DEF t
<1>2. CASE OneFileHeld(c)
  BY <1>1, <1>2 DEF Held, OneFileHeld, t
<1>3. CASE PatchHeld(c)
  <2>1. /\ t.pc = c.pc /\ t.tool = c.tool /\ t.text = c.text /\ t.path = c.path /\ t.todo = c.todo
        /\ t.prepared = c.prepared /\ t.content = c.content /\ DOMAIN t = PatchFields
    BY <1>1, <1>3 DEF PatchHeld, PatchFields
  <2> QED
    BY <1>3, <2>1 DEF Held, PatchHeld, t
<1> QED
  BY <1>2, <1>3 DEF Held

LEMMA PutHolds ==
    ASSUME Files!NamesFit, DiskInv, NEW a \in Agents \cup {"nobody"}, NEW p, NEW written \in MaybeContent, NEW next,
           Files!Put(a, p, written, next), a \in Agents => Held(next)
    PROVE  DiskInv'
<1>1. /\ disk' = [disk EXCEPT ![p] = written]
      /\ call' = [b \in Agents |->
            IF b = a THEN next
            ELSE IF call[b].pc = "idle" \/ p \notin call[b].paths THEN call[b]
            ELSE [call[b] EXCEPT !.touched = TRUE,
                                 !.linked = IF written = Absent /\ call[b].pc = "opened" /\ call[b].path = p
                                              THEN FALSE ELSE @]]
  BY DEF Files!Put
<1>2. DiskFits(disk)'
  BY <1>1 DEF DiskInv, DiskFits
<1>3. call' = [b \in Agents |-> call'[b]]
  BY <1>1
<1>4. ASSUME NEW b \in Agents PROVE Held(call'[b])
  <2>1. CASE b = a
    BY <1>1, <2>1
  <2>2. CASE b # a /\ (call[b].pc = "idle" \/ p \notin call[b].paths)
    BY <1>1, <2>2 DEF DiskInv
  <2>3. CASE b # a /\ ~(call[b].pc = "idle" \/ p \notin call[b].paths)
    <3>1. PICK v : call'[b] = Touched(call[b], v)
      BY <1>1, <2>3 DEF Touched
    <3>2. Held(call[b]) /\ call[b].pc # "idle"
      BY <2>3 DEF DiskInv
    <3> QED
      BY <3>1, <3>2, TouchedHeld
  <2> QED
    BY <2>1, <2>2, <2>3
<1> QED
  BY <1>2, <1>3, <1>4 DEF DiskInv

LEMMA StepHolds ==
    ASSUME DiskInv, NEW a \in Agents, NEW next, Files!Step(a, next), Held(next)
    PROVE  DiskInv'
<1>1. disk' = disk /\ call' = [call EXCEPT ![a] = next]
  BY DEF Files!Step
<1>2. call' = [b \in Agents |-> call'[b]] /\ \A b \in Agents : call'[b] = IF b = a THEN next ELSE call[b]
  BY <1>1 DEF DiskInv
<1>3. DiskFits(disk)'
  BY <1>1 DEF DiskInv
<1> QED
  BY <1>2, <1>3 DEF DiskInv

LEMMA DiskStart == ASSUME Files!InputsFit, Files!Init PROVE DiskInv
<1>1. call = [a \in Agents |-> call[a]] /\ \A a \in Agents : call[a] = Files!Idle(Files!NoReport)
  BY DEF Files!Init
<1>2. (CHOOSE t \in Texts : TRUE) \in Content
  BY DEF Files!InputsFit, Content
<1>3. DiskFits(disk)
  BY <1>2 DEF Files!Init, DiskFits, MaybeContent
<1> QED
  BY <1>1, <1>3, IdleHeld DEF DiskInv

LEMMA MeddleHolds == ASSUME Files!NamesFit, Files!InputsFit, DiskInv, NEW p, Files!Meddle(p) PROVE DiskInv'
<1>1. PICK written \in Texts \cup {Absent} : Files!Put("nobody", p, written, <<>>)
  BY DEF Files!Meddle
<1>2. written \in MaybeContent
  BY DEF Files!InputsFit, MaybeContent, Content
<1> QED
  BY <1>1, <1>2, PutHolds DEF Files!NamesFit

LEMMA EditReadHolds ==
    ASSUME Files!InputsFit, DiskInv, NEW a \in Agents, Files!EditRead(a) PROVE DiskInv'
<1> DEFINE Slot(p, words) ==
             [pc |-> "computed", tool |-> "edit", path |-> p, paths |-> {p}, base |-> disk[p],
              text |-> words, touched |-> FALSE, linked |-> TRUE, before |-> Absent, alone |-> FALSE]
<1>1. PICK p \in Paths, e \in Edits :
          /\ disk[p] # Absent /\ Files!EditText(disk[p], e.old, e.new, e.all).ok
          /\ Files!Step(a, Slot(p, Files!EditText(disk[p], e.old, e.new, e.all).text))
  BY DEF Files!EditRead
<1> DEFINE words == Files!EditText(disk[p], e.old, e.new, e.all).text
<1>2. disk[p] \in Content
  BY <1>1 DEF DiskInv, DiskFits, MaybeContent
<1>3. e.old \in Content /\ e.new \in Content /\ e.all \in BOOLEAN
  BY DEF Files!InputsFit, Content
<1>4. words \in Content
  BY <1>1, <1>2, <1>3, EditedFits
<1> HIDE DEF words
<1>5. Held(Slot(p, words))
  BY <1>4 DEF Held, OneFileHeld
<1> HIDE DEF Slot
<1> QED
  BY <1>1, <1>5, StepHolds DEF words

LEMMA EditRecheckHolds == ASSUME DiskInv, NEW a \in Agents, Files!EditRecheck(a) PROVE DiskInv'
<1> DEFINE c == call[a]
           next == [c EXCEPT !.pc = "rechecked", !.touched = FALSE]
<1>1. c.pc = "computed" /\ Held(c) /\ (Files!Step(a, next) \/ Files!Step(a, Files!Idle(Files!NoReport)))
  BY DEF Files!EditRecheck, DiskInv
<1>2. OneFileHeld(c)
  BY <1>1 DEF Held, PatchHeld
<1>3. DOMAIN next = DOMAIN c /\ next.pc = "rechecked" /\ next.tool = c.tool /\ next.path = c.path /\ next.text = c.text
  BY <1>2 DEF OneFileHeld
<1> HIDE DEF next
<1>4. Held(next)
  BY <1>2, <1>3 DEF Held, OneFileHeld
<1> QED
  BY <1>1, <1>4, IdleHeld, StepHolds

LEMMA EmptyContent == <<>> \in Content /\ <<>> \in MaybeContent
  BY EmptySeq DEF Content, MaybeContent

LEMMA EditOpenHolds ==
    ASSUME Files!NamesFit, DiskInv, NEW a \in Agents, Files!EditOpen(a) PROVE DiskInv'
<1> DEFINE c == call[a]
           next == [c EXCEPT !.pc = "opened", !.before = disk[c.path], !.alone = ~c.touched]
           none == <<>>
<1>1. /\ c.pc = "rechecked" /\ Held(c)
      /\ Files!Put(a, c.path, none, next) \/ Files!Step(a, Files!Idle(Files!NoReport))
  BY DEF Files!EditOpen, DiskInv
<1>2. OneFileHeld(c)
  BY <1>1 DEF Held, PatchHeld
<1>3. DOMAIN next = DOMAIN c /\ next.pc = "opened" /\ next.tool = c.tool /\ next.path = c.path /\ next.text = c.text
  BY <1>2 DEF OneFileHeld
<1>4. none \in MaybeContent
  BY EmptyContent
<1> HIDE DEF next, none
<1>5. Held(next)
  BY <1>2, <1>3 DEF Held, OneFileHeld
<1> QED
  BY <1>1, <1>4, <1>5, IdleHeld, StepHolds, PutHolds

LEMMA WriteOpenHolds ==
    ASSUME Files!NamesFit, Files!InputsFit, DiskInv, NEW a \in Agents, Files!WriteOpen(a) PROVE DiskInv'
<1> DEFINE Slot(p, t) == [pc |-> "opened", tool |-> "write", path |-> p, paths |-> {p},
                          text |-> t, touched |-> FALSE, linked |-> TRUE]
           none == <<>>
<1>1. PICK p \in Paths, t \in Contents : Files!Put(a, p, none, Slot(p, t))
  BY DEF Files!WriteOpen
<1>2. t \in Content
  BY DEF Files!InputsFit, Content
<1>3. Held(Slot(p, t))
  BY <1>2 DEF Held, OneFileHeld
<1>4. none \in MaybeContent
  BY EmptyContent
<1> HIDE DEF Slot, none
<1> QED
  BY <1>1, <1>3, <1>4, PutHolds

LEMMA PatchParseHolds ==
    ASSUME Files!InputsFit, DiskInv, NEW a \in Agents, Files!PatchParse(a) PROVE DiskInv'
<1> DEFINE Start(hunks) ==
             [pc |-> "verify", tool |-> "apply_patch", path |-> hunks[1].path,
              paths |-> Files!PathsOf(hunks), start |-> disk, hunks |-> hunks, todo |-> hunks,
              content |-> [p \in {} |-> <<>>], deleted |-> {}, prepared |-> <<>>,
              text |-> <<>>, applied |-> 0, touched |-> FALSE, linked |-> TRUE]
<1>1. PICK patch \in Patches : Files!Step(a, Start(Files!ParsePatch(patch).hunks))
  BY DEF Files!PatchParse
<1> DEFINE hunks == Files!ParsePatch(patch).hunks
           c == Start(hunks)
<1>2. /\ DOMAIN c = PatchFields /\ c.pc = "verify" /\ c.tool = "apply_patch" /\ c.todo = hunks
      /\ c.prepared = <<>> /\ c.text = <<>> /\ c.content = [p \in {} |-> <<>>]
  BY DEF PatchFields
<1>3. hunks \in Seq(Hunk) /\ <<>> \in Seq(Op)
  BY HunksFit
<1>4. DOMAIN c.content = {}
  BY <1>2
<1>5. Files!Step(a, c)
  BY <1>1
<1> HIDE DEF c, hunks
<1>6. Held(c)
  BY <1>2, <1>3, <1>4, EmptyContent DEF Held, PatchHeld
<1> QED
  BY <1>5, <1>6, StepHolds

LEMMA PatchVerifyHolds ==
    ASSUME Files!InputsFit, DiskInv, NEW a \in Agents, Files!PatchVerify(a) PROVE DiskInv'
<1> DEFINE c == call[a]
           hunk == Head(c.todo)
           cur == Files!CurrentContent(c, hunk.path)
           made == Files!Prepare(hunk, cur)
           rest == {p \in DOMAIN c.content : p # hunk.path}
           known == IF made.text = Absent THEN rest ELSE rest \cup {hunk.path}
           held == [p \in known |-> IF p = hunk.path THEN made.text ELSE c.content[p]]
           gone == IF made.text = Absent THEN c.deleted \cup {hunk.path} ELSE c.deleted
           op == [path |-> hunk.path, text |-> made.text]
           next == [c EXCEPT !.todo = Tail(@), !.content = held, !.deleted = gone,
                             !.prepared = Append(@, op)]
<1>1. /\ c.pc = "verify" /\ c.todo # <<>> /\ Held(c)
      /\ IF ~made.ok THEN Files!Step(a, Files!Idle(Files!PatchReport(c, "rejected"))) ELSE Files!Step(a, next)
  BY DEF Files!PatchVerify, DiskInv
<1>2. PatchHeld(c)
  BY <1>1 DEF Held, OneFileHeld
<1>3. CASE ~made.ok
  <2>1. Files!Step(a, Files!Idle(Files!PatchReport(c, "rejected")))
    BY <1>1, <1>3
  <2> QED
    BY <2>1, IdleHeld, StepHolds
<1>4. CASE made.ok
  <2>1. hunk \in Hunk /\ Tail(c.todo) \in Seq(Hunk)
    <3>1. c.todo \in Seq(Hunk) /\ c.todo # <<>>
      BY <1>1, <1>2 DEF PatchHeld
    <3> DEFINE todo == c.todo
    <3> HIDE DEF todo
    <3>2. Head(todo) \in Hunk /\ Tail(todo) \in Seq(Hunk)
      BY <3>1 DEF todo
    <3> QED
      BY <3>2 DEF todo
  <2>2. hunk.path \in Paths
    BY <2>1 DEF Hunk
  <2>3. cur \in {Absent} \cup Content
    <3>1. disk[hunk.path] \in MaybeContent
      BY <2>2 DEF DiskInv, DiskFits
    <3> HIDE DEF hunk
    <3> QED
      BY <1>2, <3>1 DEF Files!CurrentContent, PatchHeld, MaybeContent
  <2>4. made.text \in MaybeContent
    <3> HIDE DEF hunk, cur
    <3> QED
      BY <1>4, <2>1, <2>3, PreparedFits DEF MaybeContent
  <2>5. /\ DOMAIN next = PatchFields /\ next.todo = Tail(c.todo) /\ next.content = held
        /\ next.prepared = Append(c.prepared, op)
    BY <1>2 DEF PatchHeld, PatchFields
  <2>6. next.pc = c.pc /\ next.tool = c.tool /\ next.text = c.text
    BY <1>2 DEF PatchHeld, PatchFields
  <2>7. Files!Step(a, next)
    BY <1>1, <1>4
  <2>8. \A p \in DOMAIN held : held[p] \in Content
    <3> SUFFICES ASSUME NEW p \in known PROVE held[p] \in Content
      OBVIOUS
    <3> HIDE DEF hunk, made
    <3>1. CASE p = hunk.path
      BY <2>4, <3>1 DEF MaybeContent
    <3>2. CASE p # hunk.path
      BY <1>2, <3>2 DEF PatchHeld
    <3> QED
      BY <3>1, <3>2
  <2>9. op \in Op
    BY <2>2, <2>4 DEF Op
  <2> HIDE DEF next, op, held
  <2>10. Append(c.prepared, op) \in Seq(Op)
    <3> DEFINE prepared == c.prepared
    <3>1. prepared \in Seq(Op)
      BY <1>2 DEF PatchHeld
    <3> HIDE DEF prepared
    <3>2. Append(prepared, op) \in Seq(Op)
      BY <2>9, <3>1
    <3> QED
      BY <3>2 DEF prepared
  <2>11. PatchHeld(next)
    BY <1>1, <1>2, <2>1, <2>5, <2>6, <2>8, <2>10 DEF PatchHeld
  <2> QED
    BY <2>7, <2>11, StepHolds DEF Held
<1> QED
  BY <1>3, <1>4

LEMMA PatchVerifiedHolds == ASSUME DiskInv, NEW a \in Agents, Files!PatchVerified(a) PROVE DiskInv'
<1> DEFINE c == call[a]
           next == [c EXCEPT !.pc = "apply"]
<1>1. c.pc = "verify" /\ Held(c) /\ Files!Step(a, next)
  BY DEF Files!PatchVerified, DiskInv
<1>2. PatchHeld(c)
  BY <1>1 DEF Held, OneFileHeld
<1>3. /\ DOMAIN next = PatchFields /\ next.pc = "apply" /\ next.tool = c.tool /\ next.text = c.text
      /\ next.todo = c.todo /\ next.prepared = c.prepared /\ next.content = c.content
  BY <1>2 DEF PatchHeld, PatchFields
<1> HIDE DEF next
<1>4. Held(next)
  BY <1>2, <1>3 DEF Held, PatchHeld
<1> QED
  BY <1>1, <1>4, StepHolds

LEMMA PatchApplyHolds ==
    ASSUME Files!NamesFit, DiskInv, NEW a \in Agents, Files!PatchApply(a) PROVE DiskInv'
<1> DEFINE c == call[a]
           op == Head(c.prepared)
           later == [c EXCEPT !.prepared = Tail(@), !.path = op.path]
           removed == [later EXCEPT !.applied = @ + 1]
           open == [later EXCEPT !.pc = "opened", !.linked = TRUE, !.text = op.text]
           none == <<>>
<1>1. /\ c.pc = "apply" /\ c.prepared # <<>> /\ Held(c)
      /\ \/ Files!Put(a, op.path, Absent, removed)
         \/ op.text # Absent /\ Files!Put(a, op.path, none, open)
         \/ Files!Step(a, Files!Idle(Files!PatchReport(c, "partial")))
  BY DEF Files!PatchApply, DiskInv
<1>2. PatchHeld(c)
  BY <1>1 DEF Held, OneFileHeld
<1>3. op \in Op /\ Tail(c.prepared) \in Seq(Op)
  <2>1. c.prepared \in Seq(Op) /\ c.prepared # <<>>
    BY <1>1, <1>2 DEF PatchHeld
  <2> DEFINE prepared == c.prepared
  <2> HIDE DEF prepared
  <2>2. Head(prepared) \in Op /\ Tail(prepared) \in Seq(Op)
    BY <2>1 DEF prepared
  <2> QED
    BY <2>2 DEF prepared
<1>4. op.path \in Paths /\ op.text \in MaybeContent
  BY <1>3 DEF Op
<1>5. /\ DOMAIN removed = PatchFields /\ removed.pc = c.pc /\ removed.tool = c.tool /\ removed.text = c.text
      /\ removed.todo = c.todo /\ removed.prepared = Tail(c.prepared) /\ removed.content = c.content
  BY <1>2 DEF PatchHeld, PatchFields
<1>6. /\ DOMAIN open = PatchFields /\ open.pc = "opened" /\ open.tool = c.tool /\ open.text = op.text
      /\ open.todo = c.todo /\ open.prepared = Tail(c.prepared) /\ open.content = c.content
      /\ open.path = op.path
  BY <1>2 DEF PatchHeld, PatchFields
<1>7. Absent \in MaybeContent /\ none \in MaybeContent
  BY EmptyContent DEF MaybeContent
<1> HIDE DEF op, removed, open, none
<1>8. Held(removed)
  BY <1>1, <1>2, <1>3, <1>5 DEF Held, PatchHeld
<1>9. op.text # Absent => Held(open)
  BY <1>2, <1>3, <1>4, <1>6 DEF Held, PatchHeld, MaybeContent
<1> QED
  BY <1>1, <1>7, <1>8, <1>9, IdleHeld, StepHolds, PutHolds

LEMMA PatchDoneHolds == ASSUME DiskInv, NEW a \in Agents, Files!PatchDone(a) PROVE DiskInv'
<1>1. Files!Step(a, Files!Idle(Files!PatchReport(call[a], "applied")))
  BY DEF Files!PatchDone
<1> QED
  BY <1>1, IdleHeld, StepHolds

\* What is written over a text is a text.
LEMMA WrittenOver ==
    ASSUME NEW A, NEW s \in Seq(A), NEW t \in Seq(A)
    PROVE  s \o SubSeq(t, Len(s) + 1, Len(t)) \in Seq(A)
<1>1. SubSeq(t, Len(s) + 1, Len(t)) \in Seq(A)
  OBVIOUS
<1> QED
  BY <1>1

LEMMA WriteTextHolds ==
    ASSUME Files!NamesFit, DiskInv, NEW a \in Agents, Files!WriteText(a) PROVE DiskInv'
<1> DEFINE c == call[a]
           under == disk[c.path]
           over == IF under = <<>> THEN c.text
                   ELSE c.text \o SubSeq(under, Len(c.text) + 1, Len(under))
           on == [c EXCEPT !.pc = "apply", !.applied = @ + 1, !.text = <<>>]
           next == CASE c.tool = "apply_patch" -> on
                     [] c.tool = "edit" -> Files!Idle([tool |-> "edit", base |-> c.base,
                                                       before |-> c.before, alone |-> c.alone])
                     [] c.tool = "write" -> Files!Idle(Files!NoReport)
<1>1. /\ c.pc = "opened" /\ Held(c)
      /\ (under # Absent /\ Files!Put(a, c.path, over, next)) \/ Files!Step(a, next)
  BY DEF Files!WriteText, DiskInv
<1>2. c.path \in Paths /\ c.text \in Content
  BY <1>1 DEF Held, OneFileHeld, PatchHeld
<1>3. under \in MaybeContent
  BY <1>2 DEF DiskInv, DiskFits
<1>4. under # Absent => over \in MaybeContent
  <2> DEFINE words == c.text
  <2>1. words \in Seq(Symbols)
    BY <1>2 DEF Content
  <2> SUFFICES ASSUME under \in Seq(Symbols) PROVE over \in Seq(Symbols)
    BY <1>3 DEF MaybeContent, Content
  <2> HIDE DEF words, under
  <2>2. words \o SubSeq(under, Len(words) + 1, Len(under)) \in Seq(Symbols)
    BY <2>1, WrittenOver
  <2> QED
    BY <2>1, <2>2 DEF words
<1>5. Held(next)
  <2>1. CASE OneFileHeld(c)
    <3>1. \E r : next = Files!Idle(r)
      BY <2>1 DEF OneFileHeld
    <3> HIDE DEF next
    <3> QED
      BY <3>1, IdleHeld
  <2>2. CASE PatchHeld(c)
    <3>1. next = on
      BY <2>2 DEF PatchHeld
    <3>2. /\ DOMAIN on = PatchFields /\ on.pc = "apply" /\ on.tool = c.tool /\ on.text = <<>>
          /\ on.todo = c.todo /\ on.prepared = c.prepared /\ on.content = c.content
      BY <2>2 DEF PatchHeld, PatchFields
    <3> HIDE DEF on
    <3>3. Held(on)
      BY <2>2, <3>2, EmptyContent DEF Held, PatchHeld
    <3> HIDE DEF next
    <3> QED
      BY <3>1, <3>3
  <2> QED
    BY <1>1, <2>1, <2>2 DEF Held
<1> HIDE DEF next, over, under
<1> QED
  BY <1>1, <1>4, <1>5, StepHolds, PutHolds

LEMMA DiskInvariant == ASSUME Files!NamesFit, Files!InputsFit PROVE Files!Spec => []DiskInv
<1>1. Files!Init => DiskInv
  BY DiskStart
<1>2. DiskInv /\ [Files!Next]_Files!fileVars => DiskInv'
  <2> SUFFICES ASSUME DiskInv, [Files!Next]_Files!fileVars PROVE DiskInv'
    OBVIOUS
  <2>1. CASE UNCHANGED Files!fileVars
    BY <2>1 DEF Files!fileVars, DiskInv
  <2>2. ASSUME NEW a \in Agents,
               \/ Files!EditRead(a) \/ Files!EditRecheck(a) \/ Files!EditOpen(a)
               \/ Files!WriteOpen(a) \/ Files!WriteText(a)
        PROVE  DiskInv'
    BY <2>2, EditReadHolds, EditRecheckHolds, EditOpenHolds, WriteOpenHolds, WriteTextHolds
  <2>3. ASSUME NEW a \in Agents,
               \/ Files!PatchParse(a) \/ Files!PatchVerify(a) \/ Files!PatchVerified(a)
               \/ Files!PatchApply(a) \/ Files!PatchDone(a)
        PROVE  DiskInv'
    BY <2>3, PatchParseHolds, PatchVerifyHolds, PatchVerifiedHolds, PatchApplyHolds, PatchDoneHolds
  <2> QED
    BY <2>1, <2>2, <2>3, MeddleHolds DEF Files!Next
<1> QED
  BY <1>1, <1>2, PTL DEF Files!Spec

\* What the file tools leave on the disk, whoever comes in between, is a text or no
\* file, and each call is at a step of its tool.
THEOREM FilesTypes ==
    ASSUME Files!NamesFit, Files!InputsFit PROVE Files!Spec => []Files!TypeOK
<1>1. DiskInv => Files!TypeOK
  BY DEF DiskInv, DiskFits, MaybeContent, Content, Held, OneFileHeld, PatchHeld, Files!TypeOK
<1> QED
  BY <1>1, DiskInvariant, PTL

\* The run's TypeOK, for every value of the constants: the tables, texts and replies
\* of all parts keep their shape and their bounds.
THEOREM PartsAlwaysTyped == Spec => []TypeOK
<1>1. Files!Spec => []Files!TypeOK
  BY FilesAssumption, FilesTypes
<1>2. Context!TypeOK /\ Files!TypeOK /\ Reads!TypeOK /\ Sse!TypeOK /\ Messages!TypeOK => TypeOK
  BY DEF TypeOK
<1> QED
  BY <1>1, <1>2, PartsTypes, PartsSpec, PTL
=============================================================================
