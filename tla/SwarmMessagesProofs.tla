-------------------------- MODULE SwarmMessagesProofs --------------------------
(* Theorems about SwarmMessages, for any number of clients, repositories and  *)
(* messages, and any size of the inboxes.                                     *)
EXTENDS SwarmMessages, WellFoundedInduction, TLAPS

-----------------------------------------------------------------------------
(* Only is a recursion over a sequence; what it returns is proved by          *)
(* induction, with sets of numbers in the place of formulas about them.       *)

LEMMA SetInduction ==
    ASSUME NEW T, 0 \in T, \A n \in Nat : n \in T => n + 1 \in T
    PROVE  Nat \subseteq T
<1> DEFINE Less == OpToRel(<, Nat)
<1> SUFFICES ASSUME Nat \ T # {} PROVE FALSE
  OBVIOUS
<1>1. IsWellFoundedOn(Less, Nat)
  BY NatLessThanWellFounded
<1>2. PICK x \in Nat \ T : \A y \in Nat \ T : <<y, x>> \notin Less
  <2> HIDE DEF Less
  <2> QED BY <1>1, WFMin
<1>3. x # 0 /\ x - 1 \in Nat /\ <<x - 1, x>> \in Less /\ (x - 1) + 1 = x
  BY DEF OpToRel
<1>4. x - 1 \in T
  BY <1>2, <1>3
<1> QED
  BY <1>3, <1>4

\* One step of the recursion in Only.
KeptStep(s, keep, f, k) ==
    IF k = 0 THEN <<>> ELSE IF s[k] \in keep THEN Append(f[k - 1], s[k]) ELSE f[k - 1]

\* The recursion in Only has a solution.
LEMMA KeptExists ==
    ASSUME NEW S, NEW s \in Seq(S), NEW keep
    PROVE  \E g \in [0 .. Len(s) -> Seq(S)] :
              \A k \in 0 .. Len(s) : g[k] = KeptStep(s, keep, g, k)
<1> DEFINE Follows(g, n) == \A k \in 0 .. n : g[k] = KeptStep(s, keep, g, k)
           Solved(n) == n <= Len(s) => \E g \in [0 .. n -> Seq(S)] : Follows(g, n)
           T == {n \in Nat : Solved(n)}
<1>1. Solved(0)
  <2> DEFINE g == [k \in 0 .. 0 |-> <<>>]
  <2>1. g \in [0 .. 0 -> Seq(S)] /\ Follows(g, 0)
    BY DEF KeptStep
  <2> QED
    BY <2>1
<1>2. ASSUME NEW n \in Nat, Solved(n) PROVE Solved(n + 1)
  <2> SUFFICES ASSUME n + 1 <= Len(s) PROVE \E g \in [0 .. n + 1 -> Seq(S)] : Follows(g, n + 1)
    OBVIOUS
  <2> USE DEF KeptStep
  <2>1. PICK g \in [0 .. n -> Seq(S)] : Follows(g, n)
    <3> HIDE DEF Follows
    <3> QED
      BY <1>2
  <2> DEFINE h == [k \in 0 .. n + 1 |->
                     IF k <= n THEN g[k] ELSE IF s[k] \in keep THEN Append(g[n], s[k]) ELSE g[n]]
  <2>2. s[n + 1] \in S
    OBVIOUS
  <2>3. h \in [0 .. n + 1 -> Seq(S)]
    BY <2>2
  <2>4. \A k \in 0 .. n : h[k] = g[k]
    OBVIOUS
  <2>5. ASSUME NEW k \in 0 .. n + 1
        PROVE  h[k] = KeptStep(s, keep, h, k)
    <3>1. CASE k <= n
      <4>1. k \in 0 .. n /\ h[k] = g[k] /\ (k # 0 => h[k - 1] = g[k - 1])
        BY <3>1
      <4> HIDE DEF h
      <4> QED
        BY <2>1, <4>1
    <3>2. CASE k = n + 1
      <4>1. k # 0 /\ k - 1 = n /\ h[k - 1] = g[n] /\ h[k] = IF s[k] \in keep THEN Append(g[n], s[k]) ELSE g[n]
        BY <3>2
      <4> HIDE DEF h
      <4> QED
        BY <4>1
    <3> QED
      BY <3>1, <3>2
  <2> HIDE DEF h, KeptStep
  <2> QED
    BY <2>3, <2>5
<1> HIDE DEF Solved
<1>3. Nat \subseteq T
  <2>1. 0 \in T /\ \A n \in Nat : n \in T => n + 1 \in T
    BY <1>1, <1>2
  <2> HIDE DEF T
  <2> QED
    BY <2>1, SetInduction
<1>4. Solved(Len(s))
  BY <1>3
<1> QED
  BY <1>4 DEF Solved

\* What Only returns, and that no element comes twice if none did before.
LEMMA OnlyKeeps ==
    ASSUME NEW S, NEW s \in Seq(S), NEW keep
    PROVE  /\ Only(s, keep) \in Seq(S)
           /\ \A x : (\E j \in 1 .. Len(Only(s, keep)) : Only(s, keep)[j] = x)
                     <=> (x \in keep /\ \E j \in 1 .. Len(s) : s[j] = x)
           /\ (\A i, j \in 1 .. Len(s) : s[i] = s[j] => i = j)
              => \A i, j \in 1 .. Len(Only(s, keep)) : Only(s, keep)[i] = Only(s, keep)[j] => i = j
<1> DEFINE kept == CHOOSE f : f = [k \in 0 .. Len(s) |-> KeptStep(s, keep, f, k)]
           Distinct(q, n) == \A i, j \in 1 .. n : q[i] = q[j] => i = j
           Sound(q, k) ==
              /\ q \in Seq(S)
              /\ \A x : (\E j \in 1 .. Len(q) : q[j] = x) <=> (x \in keep /\ \E j \in 1 .. k : s[j] = x)
              /\ Distinct(s, Len(s)) => Distinct(q, Len(q))
           Good(k) == k <= Len(s) => Sound(kept[k], k)
           T == {k \in Nat : Good(k)}
<1>1. Only(s, keep) = kept[Len(s)]
  BY DEF Only, KeptStep
<1>2. kept = [k \in 0 .. Len(s) |-> KeptStep(s, keep, kept, k)]
  <2>1. PICK g \in [0 .. Len(s) -> Seq(S)] : \A k \in 0 .. Len(s) : g[k] = KeptStep(s, keep, g, k)
    BY KeptExists
  <2>2. g = [k \in 0 .. Len(s) |-> KeptStep(s, keep, g, k)]
    BY <2>1
  <2> QED
    BY <2>2
<1>3. \A k \in 0 .. Len(s) : kept[k] = KeptStep(s, keep, kept, k)
  <2> HIDE DEF kept
  <2> QED
    BY <1>2
<1> HIDE DEF kept
<1>4. Good(0)
  <2>1. kept[0] = <<>>
    BY <1>3 DEF KeptStep
  <2>2. \A q : q = <<>> => Sound(q, 0)
    OBVIOUS
  <2> HIDE DEF Sound
  <2> QED
    BY <2>1, <2>2
<1>5. ASSUME NEW n \in Nat, Good(n) PROVE Good(n + 1)
  <2> SUFFICES ASSUME n + 1 <= Len(s) PROVE Sound(kept[n + 1], n + 1)
    OBVIOUS
  <2> DEFINE q == kept[n]
  <2>1. Sound(q, n)
    <3>1. n <= Len(s)
      OBVIOUS
    <3> HIDE DEF Sound
    <3> QED
      BY <1>5, <3>1
  <2>2. kept[n + 1] = IF s[n + 1] \in keep THEN Append(q, s[n + 1]) ELSE q
    BY <1>3 DEF KeptStep
  <2>3. n \in 0 .. Len(s) /\ n + 1 \in 1 .. Len(s) /\ s[n + 1] \in S
    OBVIOUS
  <2> HIDE DEF q
  <2>4. CASE s[n + 1] \notin keep
    BY <2>1, <2>2, <2>3, <2>4
  <2>5. CASE s[n + 1] \in keep
    <3>1. /\ kept[n + 1] = Append(q, s[n + 1]) /\ kept[n + 1] \in Seq(S)
          /\ Len(kept[n + 1]) = Len(q) + 1 /\ Len(q) \in Nat
          /\ \A j \in 1 .. Len(q) : kept[n + 1][j] = q[j]
          /\ kept[n + 1][Len(q) + 1] = s[n + 1]
      BY <2>1, <2>2, <2>3, <2>5
    <3>2. \A x : (\E j \in 1 .. Len(kept[n + 1]) : kept[n + 1][j] = x)
                 <=> (\E j \in 1 .. Len(q) : q[j] = x) \/ x = s[n + 1]
      BY <3>1
    <3>3. \A x : (\E j \in 1 .. n + 1 : s[j] = x) <=> (\E j \in 1 .. n : s[j] = x) \/ x = s[n + 1]
      OBVIOUS
    <3>4. ASSUME Distinct(s, Len(s)) PROVE Distinct(kept[n + 1], Len(kept[n + 1]))
      <4>1. \A j \in 1 .. Len(q) : q[j] # s[n + 1]
        <5> SUFFICES ASSUME NEW j \in 1 .. Len(q), q[j] = s[n + 1] PROVE FALSE
          OBVIOUS
        <5>1. PICK i \in 1 .. n : s[i] = s[n + 1]
          BY <2>1
        <5> QED
          BY <2>3, <3>4, <5>1
      <4>2. Distinct(q, Len(q))
        BY <2>1, <3>4
      <4> QED
        BY <3>1, <4>1, <4>2
    <3> QED
      BY <2>1, <2>5, <3>1, <3>2, <3>3, <3>4
  <2> QED
    BY <2>4, <2>5
<1>6. Sound(kept[Len(s)], Len(s))
  <2> HIDE DEF Good
  <2>1. Nat \subseteq T
    <3>1. 0 \in T /\ \A n \in Nat : n \in T => n + 1 \in T
      BY <1>4, <1>5
    <3> HIDE DEF T
    <3> QED
      BY <3>1, SetInduction
  <2>2. Good(Len(s))
    BY <2>1
  <2> QED
    BY <2>2 DEF Good
<1> QED
  BY <1>1, <1>6

-----------------------------------------------------------------------------
(* The tables. *)

Msg == [from : Ids, thread : Threads, n : 1 .. MaxMessages, to : Ids \cup {All, SameRepo}, repo : Repos]
Slot == [busy : BOOLEAN, inbox : Seq(Msg), turn : Seq(Msg), told : Seq(Msg)]
Route == [msg : Msg, targets : Seq(Ids)]

Shaped ==
    /\ client \in [DOMAIN client -> Repos] /\ DOMAIN client \subseteq Ids
    /\ \A i \in DOMAIN client : client[i] = RepoOf[i]
    /\ members \in [DOMAIN members -> Seq(Ids)] /\ DOMAIN members \subseteq Repos
    /\ slot \in [DOMAIN slot -> Slot] /\ DOMAIN slot \subseteq Ids
    /\ \A i \in DOMAIN slot : Len(slot[i].inbox) <= InboxCap
    /\ routing \in [DOMAIN routing -> Route] /\ DOMAIN routing \subseteq Ids \X Threads
    /\ left \subseteq Ids /\ sent \in 0 .. MaxMessages

-----------------------------------------------------------------------------
(* The messages.  An Agent's are in three places; what is in the first is     *)
(* older than what is in the next, sender by sender.                          *)

Elems(q) == {q[k] : k \in 1 .. Len(q)}
Older(a, b) == a.from = b.from /\ a.thread = b.thread => a.n < b.n
Ordered(q) == \A j, k \in 1 .. Len(q) : j < k => Older(q[j], q[k])
Before(q, r) == \A a \in Elems(q), b \in Elems(r) : Older(a, b)

Held(s) == Elems(s.told) \cup Elems(s.turn) \cup Elems(s.inbox)

InLine(s) ==
    /\ Ordered(s.told) /\ Ordered(s.turn) /\ Ordered(s.inbox)
    /\ Before(s.told, s.turn) /\ Before(s.told, s.inbox) /\ Before(s.turn, s.inbox)

\* m may be shown to i.
For(m, i) ==
    m.from # i /\ m.to \in {All, SameRepo, i} /\ (m.to = SameRepo => m.repo = RepoOf[i])

SlotsInLine ==
    \A i \in DOMAIN slot :
        /\ InLine(slot[i])
        /\ \A m \in Held(slot[i]) : For(m, i) /\ m.n <= sent

Distinct(q) == \A j, k \in 1 .. Len(q) : q[j] = q[k] => j = k

\* A message under way is its sender's newest, and no target has it yet.
RoutesOK ==
    \A s \in DOMAIN routing :
        /\ routing[s].msg.from = s[1] /\ routing[s].msg.thread = s[2] /\ routing[s].msg.n <= sent
        /\ Distinct(routing[s].targets)
        /\ \A i \in Elems(routing[s].targets) :
              /\ For(routing[s].msg, i)
              /\ i \in DOMAIN slot => \A m \in Held(slot[i]) : Older(m, routing[s].msg)

IInv == Shaped /\ MembersAreClients /\ SlotsInLine /\ RoutesOK

-----------------------------------------------------------------------------
(* Sequences of messages. *)

LEMMA AppendElems ==
    ASSUME NEW S, NEW q \in Seq(S), NEW m \in S
    PROVE  Append(q, m) \in Seq(S) /\ Elems(Append(q, m)) = Elems(q) \cup {m}
<1>1. /\ Append(q, m) \in Seq(S) /\ Len(Append(q, m)) = Len(q) + 1 /\ Len(q) \in Nat
      /\ \A k \in 1 .. Len(q) : Append(q, m)[k] = q[k]
      /\ Append(q, m)[Len(q) + 1] = m
  OBVIOUS
<1>2. 1 .. Len(q) + 1 = (1 .. Len(q)) \cup {Len(q) + 1}
  BY <1>1
<1> QED
  BY <1>1, <1>2 DEF Elems

LEMMA ConcatElems ==
    ASSUME NEW S, NEW q \in Seq(S), NEW r \in Seq(S)
    PROVE  q \o r \in Seq(S) /\ Elems(q \o r) = Elems(q) \cup Elems(r)
<1>1. /\ q \o r \in Seq(S) /\ Len(q \o r) = Len(q) + Len(r) /\ Len(q) \in Nat /\ Len(r) \in Nat
      /\ \A k \in 1 .. Len(q) : (q \o r)[k] = q[k]
      /\ \A k \in 1 .. Len(r) : (q \o r)[Len(q) + k] = r[k]
  OBVIOUS
<1>2. \A k \in 1 .. Len(q) + Len(r) : k \in 1 .. Len(q) \/ \E j \in 1 .. Len(r) : k = Len(q) + j
  <2> SUFFICES ASSUME NEW k \in 1 .. Len(q) + Len(r), k \notin 1 .. Len(q)
               PROVE  \E j \in 1 .. Len(r) : k = Len(q) + j
    OBVIOUS
  <2>1. k - Len(q) \in 1 .. Len(r) /\ k = Len(q) + (k - Len(q))
    BY <1>1
  <2> QED
    BY <2>1
<1>3. \A j \in 1 .. Len(r) : Len(q) + j \in 1 .. Len(q \o r)
  BY <1>1
<1>4. Elems(q \o r) \subseteq Elems(q) \cup Elems(r)
  BY <1>1, <1>2 DEF Elems
<1>5. Elems(q) \subseteq Elems(q \o r)
  BY <1>1 DEF Elems
<1>6. Elems(r) \subseteq Elems(q \o r)
  BY <1>1, <1>3 DEF Elems
<1> QED
  BY <1>1, <1>4, <1>5, <1>6

LEMMA EmptyElems ==
    ASSUME NEW S
    PROVE  <<>> \in Seq(S) /\ Len(<<>>) = 0 /\ Elems(<<>>) = {} /\ Ordered(<<>>) /\ Distinct(<<>>)
  BY DEF Elems, Ordered, Distinct

LEMMA OrderedAppend ==
    ASSUME NEW q \in Seq(Msg), NEW m \in Msg, Ordered(q), \A a \in Elems(q) : Older(a, m)
    PROVE  Ordered(Append(q, m))
<1>1. /\ Len(Append(q, m)) = Len(q) + 1 /\ Len(q) \in Nat
      /\ \A k \in 1 .. Len(q) : Append(q, m)[k] = q[k]
      /\ Append(q, m)[Len(q) + 1] = m
  OBVIOUS
<1> SUFFICES ASSUME NEW j \in 1 .. Len(q) + 1, NEW k \in 1 .. Len(q) + 1, j < k
             PROVE  Older(Append(q, m)[j], Append(q, m)[k])
  BY <1>1 DEF Ordered
<1>2. j \in 1 .. Len(q) /\ q[j] \in Elems(q)
  BY <1>1 DEF Elems
<1>3. k \in 1 .. Len(q) \/ k = Len(q) + 1
  BY <1>1
<1> HIDE DEF Older
<1> QED
  BY <1>1, <1>2, <1>3 DEF Ordered

LEMMA OrderedConcat ==
    ASSUME NEW q \in Seq(Msg), NEW r \in Seq(Msg), Ordered(q), Ordered(r), Before(q, r)
    PROVE  Ordered(q \o r)
<1>1. /\ Len(q \o r) = Len(q) + Len(r) /\ Len(q) \in Nat /\ Len(r) \in Nat
      /\ \A k \in 1 .. Len(q) : (q \o r)[k] = q[k]
      /\ \A k \in 1 .. Len(q) + Len(r) : k \notin 1 .. Len(q) =>
            k - Len(q) \in 1 .. Len(r) /\ (q \o r)[k] = r[k - Len(q)]
  OBVIOUS
<1> SUFFICES ASSUME NEW j \in 1 .. Len(q) + Len(r), NEW k \in 1 .. Len(q) + Len(r), j < k
             PROVE  Older((q \o r)[j], (q \o r)[k])
  BY <1>1 DEF Ordered
<1>2. CASE k \in 1 .. Len(q)
  <2>1. j \in 1 .. Len(q)
    BY <1>1, <1>2
  <2> QED
    BY <1>1, <1>2, <2>1 DEF Ordered
<1>3. CASE j \notin 1 .. Len(q)
  <2>1. k \notin 1 .. Len(q) /\ j - Len(q) < k - Len(q)
    BY <1>1, <1>3
  <2> QED
    BY <1>1, <1>3, <2>1 DEF Ordered
<1>4. CASE j \in 1 .. Len(q) /\ k \notin 1 .. Len(q)
  <2>1. q[j] \in Elems(q) /\ r[k - Len(q)] \in Elems(r)
    BY <1>1, <1>4 DEF Elems
  <2> QED
    BY <1>1, <1>4, <2>1 DEF Before
<1> QED
  BY <1>2, <1>3, <1>4

LEMMA HeadAndTail ==
    ASSUME NEW S, NEW q \in Seq(S), q # <<>>, Distinct(q)
    PROVE  /\ Tail(q) \in Seq(S) /\ Head(q) \in Elems(q)
           /\ Elems(Tail(q)) = Elems(q) \ {Head(q)} /\ Distinct(Tail(q))
<1>1. /\ Tail(q) \in Seq(S) /\ Len(q) \in Nat \ {0} /\ Len(Tail(q)) = Len(q) - 1 /\ Head(q) = q[1]
      /\ \A k \in 1 .. Len(q) - 1 : Tail(q)[k] = q[k + 1]
  OBVIOUS
<1>2. \A k \in 1 .. Len(q) : k = 1 \/ (k - 1 \in 1 .. Len(q) - 1 /\ (k - 1) + 1 = k)
  BY <1>1
<1>3. \A k \in 1 .. Len(q) - 1 : k + 1 \in 1 .. Len(q) /\ k + 1 # 1
  BY <1>1
<1>4. 1 \in 1 .. Len(q)
  BY <1>1
<1>5. Elems(Tail(q)) \subseteq Elems(q) \ {Head(q)}
  BY <1>1, <1>3, <1>4 DEF Elems, Distinct
<1>6. ASSUME NEW k \in 1 .. Len(q), q[k] # Head(q) PROVE q[k] \in Elems(Tail(q))
  <2>1. k - 1 \in 1 .. Len(Tail(q)) /\ Tail(q)[k - 1] = q[k]
    BY <1>1, <1>2, <1>6
  <2> QED
    BY <2>1 DEF Elems
<1>7. Distinct(Tail(q))
  <2> SUFFICES ASSUME NEW j \in 1 .. Len(q) - 1, NEW k \in 1 .. Len(q) - 1, Tail(q)[j] = Tail(q)[k]
               PROVE  j = k
    BY <1>1 DEF Distinct
  <2>1. j + 1 = k + 1
    BY <1>1, <1>3 DEF Distinct
  <2> QED
    BY <1>1, <2>1
<1>8. Elems(q) \ {Head(q)} \subseteq Elems(Tail(q))
  BY <1>6 DEF Elems
<1>9. Head(q) \in Elems(q)
  BY <1>1, <1>4 DEF Elems
<1> QED
  BY <1>1, <1>5, <1>7, <1>8, <1>9

\* OnlyKeeps in these words.
LEMMA OnlyElems ==
    ASSUME NEW S, NEW q \in Seq(S), NEW keep
    PROVE  /\ Only(q, keep) \in Seq(S)
           /\ Elems(Only(q, keep)) = Elems(q) \cap keep
           /\ Distinct(q) => Distinct(Only(q, keep))
<1>1. Only(q, keep) \in Seq(S)
  BY OnlyKeeps
<1>2. \A x : x \in Elems(Only(q, keep)) <=> x \in keep /\ x \in Elems(q)
  <2>1. \A x : (\E j \in 1 .. Len(Only(q, keep)) : Only(q, keep)[j] = x)
               <=> (x \in keep /\ \E j \in 1 .. Len(q) : q[j] = x)
    BY OnlyKeeps
  <2> HIDE DEF Only
  <2> QED
    BY <2>1 DEF Elems
<1>3. Distinct(q) => Distinct(Only(q, keep))
  BY OnlyKeeps DEF Distinct
<1> QED
  BY <1>1, <1>2, <1>3

-----------------------------------------------------------------------------
(* Maps. *)

LEMMA WithMap ==
    ASSUME NEW f, NEW x, NEW v
    PROVE  /\ DOMAIN With(f, x, v) = DOMAIN f \cup {x}
           /\ With(f, x, v)[x] = v
           /\ \A y \in DOMAIN f : y # x => With(f, x, v)[y] = f[y]
  BY DEF With

LEMMA WithType ==
    ASSUME NEW V, NEW f, \A y \in DOMAIN f : f[y] \in V, NEW x, NEW v \in V
    PROVE  With(f, x, v) \in [DOMAIN With(f, x, v) -> V]
  BY DEF With

LEMMA WithoutMap ==
    ASSUME NEW f, NEW x
    PROVE  /\ DOMAIN Without(f, x) = DOMAIN f \ {x}
           /\ \A y \in DOMAIN f \ {x} : Without(f, x)[y] = f[y]
  BY DEF Without

LEMMA WithoutType ==
    ASSUME NEW V, NEW f, \A y \in DOMAIN f : f[y] \in V, NEW x
    PROVE  Without(f, x) \in [DOMAIN Without(f, x) -> V]
  BY DEF Without

\* Who is listed in the place of MembersAreClients.
LEMMA Listed ==
    ASSUME Shaped, MembersAreClients
    PROVE  \A r \in DOMAIN members :
              /\ members[r] \in Seq(Ids) /\ Len(members[r]) \in Nat /\ members[r] # <<>>
              /\ Elems(members[r]) = {i \in DOMAIN client : client[i] = r}
              /\ Distinct(members[r])
<1> SUFFICES ASSUME NEW r \in DOMAIN members
             PROVE  /\ members[r] \in Seq(Ids) /\ Len(members[r]) \in Nat /\ members[r] # <<>>
                    /\ Elems(members[r]) = {i \in DOMAIN client : client[i] = r}
                    /\ Distinct(members[r])
  OBVIOUS
<1>1. members[r] \in Seq(Ids) /\ r \in Repos
  BY DEF Shaped
<1>2. Len(members[r]) \in Nat /\ DOMAIN members[r] = 1 .. Len(members[r])
  BY <1>1
<1> QED
  BY <1>1, <1>2 DEF MembersAreClients, Elems, Distinct

\* MembersAreClients in these words, of any tables.
Agree(cl, mem) ==
    \A r \in Repos :
        LET listed == IF r \in DOMAIN mem THEN mem[r] ELSE <<>>
        IN  /\ {listed[p] : p \in DOMAIN listed} = {i \in DOMAIN cl : cl[i] = r}
            /\ \A p, q \in DOMAIN listed : p # q => listed[p] # listed[q]
            /\ r \in DOMAIN mem => listed # <<>>

LEMMA ListedEnough ==
    ASSUME NEW cl, NEW mem, \A r \in DOMAIN mem : mem[r] \in Seq(Ids),
           \A r \in DOMAIN mem :
              /\ Elems(mem[r]) = {i \in DOMAIN cl : cl[i] = r}
              /\ Distinct(mem[r]) /\ mem[r] # <<>>,
           \A i \in DOMAIN cl : cl[i] \in DOMAIN mem
    PROVE  Agree(cl, mem)
<1> SUFFICES ASSUME NEW r \in Repos
             PROVE  LET listed == IF r \in DOMAIN mem THEN mem[r] ELSE <<>>
                    IN  /\ {listed[p] : p \in DOMAIN listed} = {i \in DOMAIN cl : cl[i] = r}
                        /\ \A p, q \in DOMAIN listed : p # q => listed[p] # listed[q]
                        /\ r \in DOMAIN mem => listed # <<>>
  BY DEF Agree
<1>1. CASE r \in DOMAIN mem
  <2>1. DOMAIN mem[r] = 1 .. Len(mem[r])
    BY <1>1
  <2> QED
    BY <1>1, <2>1 DEF Elems, Distinct
<1>2. CASE r \notin DOMAIN mem
  BY <1>2
<1> QED
  BY <1>1, <1>2

\* What an Agent holds are messages.
LEMMA HeldTyped ==
    ASSUME IInv, NEW i \in DOMAIN slot, NEW x \in Held(slot[i])
    PROVE  x \in Msg
<1>1. slot[i] \in Slot
  BY DEF IInv, Shaped
<1>2. /\ slot[i].told \in Seq(Msg) /\ slot[i].turn \in Seq(Msg) /\ slot[i].inbox \in Seq(Msg)
  BY <1>1 DEF Slot
<1>3. \A q \in Seq(Msg) : Elems(q) \subseteq Msg
  BY DEF Elems
<1> QED
  BY <1>2, <1>3 DEF Held


-----------------------------------------------------------------------------
(* Registration and departure. *)

LEMMA InitHolds == ASSUME NamesFit, Init PROVE IInv
<1> USE DEF NamesFit, Init, EmptyMap
<1>1. Shaped
  BY DEF Shaped
<1>2. MembersAreClients
  BY <1>1 DEF MembersAreClients
<1> QED
  BY <1>1, <1>2 DEF IInv, SlotsInLine, RoutesOK

LEMMA MessagesUntouched ==
    ASSUME IInv, UNCHANGED <<slot, routing, sent>>
    PROVE  SlotsInLine' /\ RoutesOK'
  BY DEF IInv, SlotsInLine, RoutesOK

LEMMA TablesUntouched ==
    ASSUME IInv, UNCHANGED <<client, members>>
    PROVE  MembersAreClients'
  BY DEF IInv, MembersAreClients

LEMMA HelloStep ==
    ASSUME NamesFit, IInv, NEW i \in Ids, HelloRegister(i)
    PROVE  IInv'
<1> DEFINE r == RepoOf[i]
           before == IF r \in DOMAIN members THEN members[r] ELSE <<>>
<1>1. /\ i \notin DOMAIN client /\ r \in Repos
      /\ client' = With(client, i, r) /\ members' = With(members, r, Append(before, i))
      /\ UNCHANGED <<slot, routing, left, sent>>
  BY DEF HelloRegister, NamesFit
<1>2. /\ before \in Seq(Ids) /\ Elems(before) = {j \in DOMAIN client : client[j] = r}
      /\ Distinct(before)
  <2>1. CASE r \in DOMAIN members
    <3>1. before = members[r]
      BY <2>1
    <3> HIDE DEF before
    <3> QED
      BY <2>1, <3>1, Listed DEF IInv
  <2>2. CASE r \notin DOMAIN members
    <3>1. {j \in DOMAIN client : client[j] = r} = {}
      BY <1>1, <2>2 DEF IInv, MembersAreClients
    <3> QED
      BY <2>2, <3>1, EmptyElems
  <2> QED
    BY <2>1, <2>2
<1> HIDE DEF before
<1>3. Append(before, i) \in Seq(Ids) /\ Elems(Append(before, i)) = Elems(before) \cup {i}
  BY <1>2, AppendElems
<1>10. /\ Len(Append(before, i)) = Len(before) + 1 /\ Len(before) \in Nat
      /\ \A k \in 1 .. Len(before) : Append(before, i)[k] = before[k]
      /\ Append(before, i)[Len(before) + 1] = i
      /\ Append(before, i) # <<>>
  BY <1>2
<1>4. Distinct(Append(before, i))
  <2>1. \A k \in 1 .. Len(before) : before[k] # i
    BY <1>1, <1>2 DEF Elems
  <2> QED
    BY <1>2, <1>3, <2>1 DEF Distinct
<1>5. /\ DOMAIN client' = DOMAIN client \cup {i} /\ client'[i] = r
      /\ \A j \in DOMAIN client : client'[j] = client[j]
      /\ DOMAIN members' = DOMAIN members \cup {r} /\ members'[r] = Append(before, i)
      /\ \A s \in DOMAIN members : s # r => members'[s] = members[s]
  <2>1. /\ DOMAIN client' = DOMAIN client \cup {i} /\ client'[i] = r
        /\ \A j \in DOMAIN client : j # i => client'[j] = client[j]
    BY <1>1 DEF With
  <2>2. /\ DOMAIN members' = DOMAIN members \cup {r} /\ members'[r] = Append(before, i)
        /\ \A s \in DOMAIN members : s # r => members'[s] = members[s]
    BY <1>1 DEF With
  <2> QED
    BY <1>1, <2>1, <2>2
<1>6. client' \in [DOMAIN client' -> Repos] /\ members' \in [DOMAIN members' -> Seq(Ids)]
  <2>1. (\A j \in DOMAIN client : client[j] \in Repos) /\ (\A s \in DOMAIN members : members[s] \in Seq(Ids))
    BY DEF IInv, Shaped
  <2> QED
    BY <1>1, <1>3, <2>1, WithType
<1>7. Shaped'
  <2>1. DOMAIN client' \subseteq Ids /\ DOMAIN members' \subseteq Repos
    BY <1>1, <1>5 DEF IInv, Shaped
  <2>2. \A j \in DOMAIN client' : client'[j] = RepoOf[j]
    BY <1>5 DEF IInv, Shaped
  <2> QED
    BY <1>1, <1>6, <2>1, <2>2 DEF IInv, Shaped
<1>8. MembersAreClients'
  <2>1. ASSUME NEW s \in DOMAIN members'
        PROVE  /\ Elems(members'[s]) = {j \in DOMAIN client' : client'[j] = s}
               /\ Distinct(members'[s]) /\ members'[s] # <<>>
    <3>1. CASE s = r
      <4>1. {j \in DOMAIN client' : client'[j] = r} = {j \in DOMAIN client : client[j] = r} \cup {i}
        BY <1>1, <1>5
      <4> QED
        <5>1. members'[s] = Append(before, i)
          BY <1>5, <3>1
        <5>2. Elems(Append(before, i)) = {j \in DOMAIN client : client[j] = r} \cup {i}
          BY <1>2, <1>3
        <5> QED
          BY <1>4, <1>10, <3>1, <4>1, <5>1, <5>2
    <3>2. CASE s # r
      <4>1. s \in DOMAIN members /\ members'[s] = members[s]
        BY <1>5, <2>1, <3>2
      <4>2. {j \in DOMAIN client' : client'[j] = s} = {j \in DOMAIN client : client[j] = s}
        BY <1>5, <3>2
      <4> QED
        BY <4>1, <4>2, Listed DEF IInv
    <3> QED
      BY <3>1, <3>2
  <2>2. \A j \in DOMAIN client' : client'[j] \in DOMAIN members'
    <3>1. \A j \in DOMAIN client : client[j] \in DOMAIN members
      BY DEF IInv, Shaped, MembersAreClients
    <3> QED
      BY <1>5, <3>1
  <2> QED
    <3>1. Agree(client', members')
      <4>1. \A s \in DOMAIN members' : members'[s] \in Seq(Ids)
        BY <1>6
      <4> QED
        BY <2>1, <2>2, <4>1, ListedEnough
    <3> QED
      BY <3>1 DEF Agree, MembersAreClients
<1> QED
  BY <1>1, <1>7, <1>8, MessagesUntouched DEF IInv

LEMMA NewSlot ==
    [busy |-> FALSE, inbox |-> <<>>, turn |-> <<>>, told |-> <<>>] \in Slot
  BY EmptyElems DEF Slot

LEMMA CreateStep ==
    ASSUME NamesFit, IInv, NEW i \in Ids, CreateAgentSlot(i)
    PROVE  IInv'
<1> DEFINE s == [busy |-> FALSE, inbox |-> <<>>, turn |-> <<>>, told |-> <<>>]
<1>1. slot' = With(slot, i, s) /\ UNCHANGED <<client, members, routing, left, sent>>
  BY DEF CreateAgentSlot
<1>2. /\ s \in Slot /\ Len(s.inbox) = 0 /\ InLine(s) /\ Held(s) = {}
  BY NewSlot, EmptyElems DEF InLine, Held, Before
<1> HIDE DEF s
<1>3. /\ DOMAIN slot' = DOMAIN slot \cup {i} /\ slot'[i] = s
      /\ \A j \in DOMAIN slot : j # i => slot'[j] = slot[j]
  BY <1>1 DEF With
<1>4. Shaped'
  <2>1. \A j \in DOMAIN slot : slot[j] \in Slot
    BY DEF IInv, Shaped
  <2>2. slot' \in [DOMAIN slot' -> Slot]
    BY <1>1, <1>2, <2>1, WithType
  <2>3. \A j \in DOMAIN slot' : Len(slot'[j].inbox) <= InboxCap
    BY <1>2, <1>3 DEF IInv, Shaped, NamesFit
  <2> QED
    BY <1>1, <1>3, <2>2, <2>3 DEF IInv, Shaped
<1>5. SlotsInLine'
  BY <1>1, <1>2, <1>3 DEF IInv, SlotsInLine
<1>6. RoutesOK'
  BY <1>1, <1>2, <1>3 DEF IInv, RoutesOK
<1> QED
  BY <1>1, <1>4, <1>5, <1>6, TablesUntouched DEF IInv

\* Agents that go take their messages with them.
LEMMA SlotGone ==
    ASSUME IInv, NEW i, slot' = Without(slot, i), UNCHANGED <<routing, sent>>
    PROVE  /\ slot' \in [DOMAIN slot' -> Slot] /\ DOMAIN slot' \subseteq Ids
           /\ \A j \in DOMAIN slot' : Len(slot'[j].inbox) <= InboxCap
           /\ SlotsInLine' /\ RoutesOK'
<1>1. /\ DOMAIN slot' = DOMAIN slot \ {i} /\ \A j \in DOMAIN slot' : slot'[j] = slot[j]
  BY WithoutMap
<1>2. \A j \in DOMAIN slot : slot[j] \in Slot
  BY DEF IInv, Shaped
<1>3. slot' \in [DOMAIN slot' -> Slot]
  BY <1>2, WithoutType
<1>4. DOMAIN slot' \subseteq Ids /\ \A j \in DOMAIN slot' : Len(slot'[j].inbox) <= InboxCap
  BY <1>1 DEF IInv, Shaped
<1>5. SlotsInLine' /\ RoutesOK'
  BY <1>1 DEF IInv, SlotsInLine, RoutesOK
<1> QED
  BY <1>3, <1>4, <1>5

LEMMA RemoveStep ==
    ASSUME NamesFit, IInv, NEW i \in Ids, RemoveClient(i)
    PROVE  IInv'
<1> DEFINE r == client[i]
           rest == Only(members[r], Ids \ {i})
<1>1. /\ i \in DOMAIN client /\ i \in DOMAIN slot
      /\ members' = IF rest = <<>> THEN Without(members, r) ELSE [members EXCEPT ![r] = rest]
      /\ client' = Without(client, i) /\ left' = left \cup {i}
      /\ slot' = slot \/ slot' = Without(slot, i)
      /\ UNCHANGED <<routing, sent>>
  BY DEF RemoveClient
<1>2. r \in DOMAIN members /\ r \in Repos
  BY <1>1 DEF IInv, Shaped, MembersAreClients
<1>3. /\ members[r] \in Seq(Ids) /\ Distinct(members[r])
      /\ Elems(members[r]) = {j \in DOMAIN client : client[j] = r}
  BY <1>2, Listed DEF IInv
<1>4. /\ rest \in Seq(Ids) /\ Distinct(rest)
      /\ Elems(rest) = {j \in DOMAIN client : client[j] = r} \cap (Ids \ {i})
  BY <1>3, OnlyElems
<1> HIDE DEF rest, r
<1>5. /\ DOMAIN client' = DOMAIN client \ {i}
      /\ \A j \in DOMAIN client' : client'[j] = client[j]
  BY <1>1, WithoutMap
<1>6. Elems(rest) = {j \in DOMAIN client' : client'[j] = r}
  BY <1>4, <1>5 DEF IInv, Shaped
<1>7. /\ DOMAIN members' \subseteq DOMAIN members
      /\ \A s \in DOMAIN members' : members'[s] = IF s = r THEN rest ELSE members[s]
      /\ r \in DOMAIN members' => rest # <<>>
      /\ \A s \in DOMAIN members : s # r \/ rest # <<>> => s \in DOMAIN members'
  <2>1. CASE rest = <<>>
    BY <1>1, <1>2, <2>1 DEF Without
  <2>2. CASE rest # <<>>
    BY <1>1, <1>2, <2>2 DEF IInv, Shaped
  <2> QED
    BY <2>1, <2>2
<1>8. Shaped' /\ SlotsInLine' /\ RoutesOK'
  <2>1. \A j \in DOMAIN client : client[j] \in Repos
    BY DEF IInv, Shaped
  <2>2. client' \in [DOMAIN client' -> Repos]
    BY <1>1, <2>1, WithoutType
  <2>3. members' \in [DOMAIN members' -> Seq(Ids)]
    <3>1. \A s \in DOMAIN members : members[s] \in Seq(Ids)
      BY DEF IInv, Shaped
    <3>2. CASE rest = <<>>
      BY <1>1, <3>1, <3>2, WithoutType
    <3>3. CASE rest # <<>>
      BY <1>1, <1>4, <3>1, <3>3 DEF IInv, Shaped
    <3> QED
      BY <3>2, <3>3
  <2>4. /\ slot' \in [DOMAIN slot' -> Slot] /\ DOMAIN slot' \subseteq Ids
        /\ \A j \in DOMAIN slot' : Len(slot'[j].inbox) <= InboxCap
        /\ SlotsInLine' /\ RoutesOK'
    <3>1. CASE slot' = slot
      BY <1>1, <3>1, MessagesUntouched DEF IInv, Shaped
    <3>2. CASE slot' = Without(slot, i)
      BY <1>1, <3>2, SlotGone
    <3> QED
      BY <1>1, <3>1, <3>2
  <2>5. /\ DOMAIN client' \subseteq Ids /\ (\A j \in DOMAIN client' : client'[j] = RepoOf[j])
        /\ DOMAIN members' \subseteq Repos /\ left' \subseteq Ids
        /\ routing' \in [DOMAIN routing' -> Route] /\ DOMAIN routing' \subseteq Ids \X Threads
        /\ sent' \in 0 .. MaxMessages
    BY <1>1, <1>5, <1>7 DEF IInv, Shaped
  <2> QED
    BY <2>2, <2>3, <2>4, <2>5 DEF Shaped
<1>9. MembersAreClients'
  <2>1. ASSUME NEW s \in DOMAIN members'
        PROVE  /\ Elems(members'[s]) = {j \in DOMAIN client' : client'[j] = s}
               /\ Distinct(members'[s]) /\ members'[s] # <<>>
    <3>1. CASE s = r
      BY <1>4, <1>6, <1>7, <3>1
    <3>2. CASE s # r
      <4>1. s \in DOMAIN members /\ members'[s] = members[s]
        BY <1>7, <3>2
      <4>2. {j \in DOMAIN client' : client'[j] = s} = {j \in DOMAIN client : client[j] = s}
        BY <1>5, <3>2 DEF r
      <4> QED
        BY <4>1, <4>2, Listed DEF IInv
    <3> QED
      BY <3>1, <3>2
  <2>2. ASSUME NEW j \in DOMAIN client' PROVE client'[j] \in DOMAIN members'
    <3>1. client'[j] = client[j] /\ client[j] \in DOMAIN members
      BY <1>5 DEF IInv, Shaped, MembersAreClients
    <3>2. client[j] = r => rest # <<>>
      <4>1. client[j] = r => j \in Elems(rest)
        BY <1>6, <3>1
      <4> QED
        BY <4>1, EmptyElems
    <3> QED
      BY <1>7, <3>1, <3>2
  <2> QED
    <3>1. Agree(client', members')
      <4>1. \A s \in DOMAIN members' : members'[s] \in Seq(Ids)
        BY <1>8 DEF Shaped
      <4> QED
        BY <2>1, <2>2, <4>1, ListedEnough
    <3> QED
      BY <3>1 DEF Agree, MembersAreClients
<1> QED
  BY <1>8, <1>9 DEF IInv

-----------------------------------------------------------------------------
(* Messages. *)

LEMMA InOrderElems ==
    ASSUME NamesFit, NEW S
    PROVE  /\ InOrder(S) \in Seq(Ids) /\ Elems(InOrder(S)) = Ids \cap S /\ Distinct(InOrder(S))
<1> DEFINE ids == [i \in Ids |-> i]
<1>1. ids \in Seq(Ids) /\ Len(ids) = Clients /\ \A k \in 1 .. Clients : ids[k] = k
  BY DEF Ids, NamesFit
<1>2. Elems(ids) = Ids /\ Distinct(ids)
  <2> HIDE DEF ids
  <2> QED
    BY <1>1 DEF Elems, Distinct, Ids
<1> HIDE DEF ids
<1>3. InOrder(S) = Only(ids, S)
  BY DEF InOrder, ids
<1> QED
  BY <1>1, <1>2, <1>3, OnlyElems

\* The targets are clients, each comes once, and none is the sender.
LEMMA TargetsFit ==
    ASSUME NamesFit, IInv, NEW from \in DOMAIN client,
           NEW to \in {All, SameRepo} \cup (Ids \ {from})
    PROVE  /\ TargetsOf(from, to) \in Seq(Ids) /\ Distinct(TargetsOf(from, to))
           /\ \A i \in Elems(TargetsOf(from, to)) :
                 /\ i # from /\ to \in {All, SameRepo, i}
                 /\ to = SameRepo => client[from] = RepoOf[i]
<1> DEFINE Fit(q) == /\ q \in Seq(Ids) /\ Distinct(q)
                     /\ \A i \in Elems(q) :
                           /\ i # from /\ to \in {All, SameRepo, i}
                           /\ to = SameRepo => client[from] = RepoOf[i]
<1>0. Fit(<<>>)
  BY EmptyElems
<1>1. CASE to = All
  <2>1. TargetsOf(from, to) = InOrder(DOMAIN client \ {from})
    BY <1>1 DEF TargetsOf, NamesFit
  <2>2. All # SameRepo
    BY DEF NamesFit
  <2> QED
    BY <1>1, <2>1, <2>2, InOrderElems
<1>2. CASE to = SameRepo
  <2>1. CASE client[from] \notin DOMAIN members
    <3>1. TargetsOf(from, to) = <<>>
      BY <1>2, <2>1 DEF TargetsOf, NamesFit
    <3> QED
      BY <1>0, <3>1
  <2>2. CASE client[from] \in DOMAIN members
    <3> DEFINE r == client[from]
    <3>1. TargetsOf(from, to) = Only(members[r], Ids \ {from})
      BY <1>2, <2>2 DEF TargetsOf, NamesFit
    <3>2. /\ members[r] \in Seq(Ids) /\ Distinct(members[r])
          /\ Elems(members[r]) = {j \in DOMAIN client : client[j] = r}
      BY <2>2, Listed DEF IInv
    <3>3. \A i \in Elems(members[r]) : r = RepoOf[i]
      BY <3>2 DEF IInv, Shaped
    <3> HIDE DEF r
    <3>4. /\ Only(members[r], Ids \ {from}) \in Seq(Ids) /\ Distinct(Only(members[r], Ids \ {from}))
          /\ Elems(Only(members[r], Ids \ {from})) = Elems(members[r]) \cap (Ids \ {from})
      BY <3>2, OnlyElems
    <3> QED
      BY <1>2, <3>1, <3>3, <3>4 DEF r
  <2> QED
    BY <2>1, <2>2
<1>3. CASE to \notin {All, SameRepo}
  <2>1. to \in Ids \ {from}
    BY <1>3
  <2>2. CASE to \in DOMAIN client
    <3>1. TargetsOf(from, to) = <<to>>
      BY <1>3, <2>1, <2>2 DEF TargetsOf
    <3>2. <<to>> \in Seq(Ids) /\ Distinct(<<to>>) /\ Elems(<<to>>) = {to}
      BY <2>1 DEF Distinct, Elems
    <3> QED
      BY <1>3, <2>1, <3>1, <3>2
  <2>3. CASE to \notin DOMAIN client
    <3>1. TargetsOf(from, to) = <<>>
      BY <1>3, <2>3 DEF TargetsOf
    <3> QED
      BY <1>0, <3>1
  <2> QED
    BY <2>2, <2>3
<1> QED
  BY <1>1, <1>2, <1>3

LEMMA SendStep ==
    ASSUME NamesFit, IInv, NEW from \in Ids, NEW thread \in Threads, SendMessage(from, thread)
    PROVE  IInv'
<1> DEFINE key == <<from, thread>>
<1>1. PICK to \in {All, SameRepo} \cup (Ids \ {from}) :
         routing' = With(routing, key,
              [msg |-> [from |-> from, thread |-> thread, n |-> sent + 1, to |-> to,
                        repo |-> client[from]],
               targets |-> TargetsOf(from, to)])
  BY DEF SendMessage
<1> DEFINE m == [from |-> from, thread |-> thread, n |-> sent + 1, to |-> to, repo |-> client[from]]
           route == [msg |-> m, targets |-> TargetsOf(from, to)]
<1>2. /\ from \in DOMAIN client /\ sent < MaxMessages /\ sent' = sent + 1
      /\ UNCHANGED <<client, members, slot, left>>
  BY DEF SendMessage
<1>3. sent \in Nat /\ MaxMessages \in Nat /\ sent + 1 \in 1 .. MaxMessages
  BY <1>2 DEF IInv, Shaped, NamesFit
<1>4. m \in Msg
  BY <1>2, <1>3 DEF Msg, IInv, Shaped
<1>5. /\ TargetsOf(from, to) \in Seq(Ids) /\ Distinct(TargetsOf(from, to))
      /\ \A i \in Elems(TargetsOf(from, to)) :
            /\ i # from /\ to \in {All, SameRepo, i}
            /\ to = SameRepo => client[from] = RepoOf[i]
  BY <1>2, TargetsFit
<1>6. route \in Route
  BY <1>4, <1>5 DEF Route
<1>7. /\ DOMAIN routing' = DOMAIN routing \cup {key} /\ routing'[key] = route
      /\ \A s \in DOMAIN routing : s # key => routing'[s] = routing[s]
  BY <1>1 DEF With
<1>8. routing' \in [DOMAIN routing' -> Route]
  <2>1. \A s \in DOMAIN routing : routing[s] \in Route
    BY DEF IInv, Shaped
  <2> QED
    BY <1>1, <1>6, <2>1, WithType
<1>9. Shaped'
  BY <1>2, <1>3, <1>7, <1>8 DEF IInv, Shaped
<1>10. SlotsInLine'
  <2> SUFFICES ASSUME NEW i \in DOMAIN slot
               PROVE  InLine(slot[i]) /\ \A x \in Held(slot[i]) : For(x, i) /\ x.n <= sent + 1
    BY <1>2 DEF SlotsInLine
  <2>1. InLine(slot[i]) /\ \A x \in Held(slot[i]) : x \in Msg /\ For(x, i) /\ x.n <= sent
    BY HeldTyped DEF IInv, SlotsInLine
  <2>2. \A x \in Msg : x.n \in Nat
    BY DEF Msg
  <2> QED
    BY <1>3, <2>1, <2>2
<1>11. RoutesOK'
  <2> SUFFICES ASSUME NEW s \in DOMAIN routing'
               PROVE  /\ routing'[s].msg.from = s[1] /\ routing'[s].msg.thread = s[2]
                      /\ routing'[s].msg.n <= sent + 1 /\ Distinct(routing'[s].targets)
                      /\ \A i \in Elems(routing'[s].targets) :
                            /\ For(routing'[s].msg, i)
                            /\ i \in DOMAIN slot => \A x \in Held(slot[i]) : Older(x, routing'[s].msg)
    BY <1>2 DEF RoutesOK
  <2>1. CASE s = key
    <3>1. \A i \in Elems(TargetsOf(from, to)) : For(m, i)
      BY <1>5 DEF For
    <3>2. ASSUME NEW i \in DOMAIN slot, NEW x \in Held(slot[i]) PROVE Older(x, m)
      <4>1. x \in Msg /\ x.n <= sent
        BY HeldTyped DEF IInv, SlotsInLine
      <4>2. x.n \in Nat
        BY <4>1 DEF Msg
      <4> QED
        BY <1>3, <4>1, <4>2 DEF Older
    <3>3. m.from = key[1] /\ m.thread = key[2] /\ m.n <= sent + 1
      BY <1>3
    <3>4. routing'[s].msg = m /\ routing'[s].targets = TargetsOf(from, to)
      BY <1>7, <2>1
    <3> HIDE DEF m, key, route
    <3> QED
      BY <1>5, <2>1, <3>1, <3>2, <3>3, <3>4
  <2>2. CASE s # key
    <3>1. s \in DOMAIN routing /\ routing'[s] = routing[s]
      BY <1>7, <2>2
    <3>2. routing[s] \in Route
      BY <3>1 DEF IInv, Shaped
    <3>3. routing[s].msg.n \in Nat
      BY <3>2 DEF Route, Msg
    <3>4. routing[s].msg.n <= sent
      BY <3>1 DEF IInv, RoutesOK
    <3> QED
      BY <1>3, <3>1, <3>3, <3>4 DEF IInv, RoutesOK
  <2> QED
    BY <2>1, <2>2
<1> QED
  BY <1>2, <1>9, <1>10, <1>11, TablesUntouched DEF IInv

LEMMA DeliverStep ==
    ASSUME NamesFit, IInv, NEW sender \in Ids \X Threads, DeliverInbox(sender)
    PROVE  IInv'
<1> DEFINE q == routing[sender].targets
           m == routing[sender].msg
           to == Head(q)
<1>1. /\ sender \in DOMAIN routing /\ q # <<>>
      /\ slot' = IF to \in DOMAIN slot THEN [slot EXCEPT ![to] = Pushed(@, m)] ELSE slot
      /\ routing' = [routing EXCEPT ![sender].targets = Tail(@)]
      /\ UNCHANGED <<client, members, left, sent>>
  BY DEF DeliverInbox
<1>2. routing[sender] \in Route /\ m \in Msg /\ q \in Seq(Ids)
  BY <1>1 DEF IInv, Shaped, Route
<1>3. /\ m.from = sender[1] /\ m.thread = sender[2] /\ m.n <= sent /\ Distinct(q)
      /\ \A i \in Elems(q) :
            For(m, i) /\ (i \in DOMAIN slot => \A x \in Held(slot[i]) : Older(x, m))
  BY <1>1 DEF IInv, RoutesOK
<1>4. /\ Tail(q) \in Seq(Ids) /\ to \in Elems(q)
      /\ Elems(Tail(q)) = Elems(q) \ {to} /\ Distinct(Tail(q))
  BY <1>1, <1>2, <1>3, HeadAndTail
<1>5. /\ DOMAIN routing' = DOMAIN routing
      /\ routing'[sender].msg = m /\ routing'[sender].targets = Tail(q)
      /\ \A s \in DOMAIN routing : s # sender => routing'[s] = routing[s]
      /\ routing' \in [DOMAIN routing' -> Route]
  <2>1. routing' = [routing EXCEPT ![sender] = [msg |-> m, targets |-> Tail(q)]]
    <3>1. [routing[sender] EXCEPT !.targets = Tail(@)] = [msg |-> m, targets |-> Tail(q)]
      <4>1. \A t : [routing[sender] EXCEPT !.targets = t] = [msg |-> m, targets |-> t]
        BY <1>2 DEF Route
      <4> QED
        BY <4>1
    <3> QED
      BY <1>1, <1>2, <3>1 DEF IInv, Shaped
  <2>2. [msg |-> m, targets |-> Tail(q)] \in Route
    BY <1>2, <1>4 DEF Route
  <2> QED
    BY <1>1, <2>1, <2>2 DEF IInv, Shaped
<1> HIDE DEF q, m, to
\* What the target holds afterwards.
<1>6. ASSUME to \in DOMAIN slot
      PROVE  LET s == Pushed(slot[to], m)
             IN  /\ s \in Slot /\ Len(s.inbox) <= InboxCap /\ InLine(s)
                 /\ Held(s) \subseteq Held(slot[to]) \cup {m}
  <2> DEFINE s == slot[to]
  <2>1. s \in Slot /\ Len(s.inbox) <= InboxCap /\ InLine(s)
    BY <1>6 DEF IInv, Shaped, SlotsInLine
  <2>2. \A x \in Held(s) : Older(x, m)
    BY <1>3, <1>4, <1>6
  <2> HIDE DEF s
  <2>3. CASE ~(Len(s.inbox) < InboxCap)
    BY <2>1, <2>3 DEF Pushed, s
  <2>4. CASE Len(s.inbox) < InboxCap
    <3> DEFINE t == [s EXCEPT !.inbox = Append(@, m)]
    <3>1. Pushed(s, m) = t
      BY <2>4 DEF Pushed
    <3>2. s.inbox \in Seq(Msg) /\ Append(s.inbox, m) \in Seq(Msg)
          /\ Len(Append(s.inbox, m)) = Len(s.inbox) + 1 /\ Len(s.inbox) \in Nat
      BY <1>2, <2>1 DEF Slot
    <3>3. /\ t \in Slot /\ t.told = s.told /\ t.turn = s.turn /\ t.inbox = Append(s.inbox, m)
      BY <2>1, <3>2 DEF Slot
    <3>4. Len(t.inbox) <= InboxCap
      BY <2>4, <3>2, <3>3 DEF NamesFit
    <3>5. Elems(t.inbox) = Elems(s.inbox) \cup {m}
      BY <1>2, <3>2, <3>3, AppendElems
    <3>6. Held(t) = Held(s) \cup {m}
      BY <3>3, <3>5 DEF Held
    <3>7. InLine(t)
      <4>1. Ordered(t.inbox)
        BY <1>2, <2>1, <2>2, <3>2, <3>3, OrderedAppend DEF InLine, Held
      <4>2. Before(t.told, t.inbox) /\ Before(t.turn, t.inbox)
        BY <2>1, <2>2, <3>3, <3>5 DEF InLine, Before, Held
      <4> HIDE DEF t
      <4> QED
        BY <2>1, <3>3, <4>1, <4>2 DEF InLine
    <3> HIDE DEF t
    <3> QED
      BY <3>1, <3>3, <3>4, <3>6, <3>7 DEF s
  <2> QED
    BY <2>3, <2>4
<1>7. /\ DOMAIN slot' = DOMAIN slot
      /\ \A i \in DOMAIN slot :
            slot'[i] = IF i = to THEN Pushed(slot[to], m) ELSE slot[i]
  BY <1>1 DEF IInv, Shaped, q, m, to
<1>8. Shaped'
  <2>1. slot' \in [DOMAIN slot' -> Slot]
    BY <1>1, <1>6, <1>7 DEF IInv, Shaped, q, m, to
  <2>2. \A i \in DOMAIN slot' : Len(slot'[i].inbox) <= InboxCap
    BY <1>6, <1>7 DEF IInv, Shaped
  <2> QED
    BY <1>1, <1>5, <1>7, <2>1, <2>2 DEF IInv, Shaped
<1>9. SlotsInLine'
  <2> SUFFICES ASSUME NEW i \in DOMAIN slot
               PROVE  InLine(slot'[i]) /\ \A x \in Held(slot'[i]) : For(x, i) /\ x.n <= sent
    BY <1>1, <1>7 DEF SlotsInLine
  <2>1. InLine(slot[i]) /\ \A x \in Held(slot[i]) : For(x, i) /\ x.n <= sent
    BY DEF IInv, SlotsInLine
  <2> QED
    BY <1>3, <1>4, <1>6, <1>7, <2>1
<1>10. RoutesOK'
  <2> SUFFICES ASSUME NEW s \in DOMAIN routing
               PROVE  /\ routing'[s].msg.from = s[1] /\ routing'[s].msg.thread = s[2]
                      /\ routing'[s].msg.n <= sent /\ Distinct(routing'[s].targets)
                      /\ \A i \in Elems(routing'[s].targets) :
                            /\ For(routing'[s].msg, i)
                            /\ i \in DOMAIN slot' => \A x \in Held(slot'[i]) : Older(x, routing'[s].msg)
    BY <1>1, <1>5 DEF RoutesOK
  <2>1. CASE s = sender
    <3>1. ASSUME NEW i \in Elems(Tail(q)), i \in DOMAIN slot
          PROVE  slot'[i] = slot[i]
      BY <1>4, <1>7, <3>1
    <3> QED
      BY <1>3, <1>4, <1>5, <1>7, <2>1, <3>1
  <2>2. CASE s # sender
    <3>1. /\ routing'[s] = routing[s] /\ routing[s].msg.from = s[1] /\ routing[s].msg.thread = s[2]
          /\ routing[s].msg.n <= sent /\ Distinct(routing[s].targets)
          /\ \A i \in Elems(routing[s].targets) :
                /\ For(routing[s].msg, i)
                /\ i \in DOMAIN slot => \A x \in Held(slot[i]) : Older(x, routing[s].msg)
      BY <1>5, <2>2 DEF IInv, RoutesOK
    <3>2. Older(m, routing[s].msg)
      <4>1. s \in Ids \X Threads
        BY DEF IInv, Shaped
      <4>2. s[1] # sender[1] \/ s[2] # sender[2]
        BY <2>2, <4>1
      <4> QED
        BY <1>3, <3>1, <4>2 DEF Older
    <3>3. ASSUME NEW i \in DOMAIN slot, NEW x \in Held(slot'[i]), x \notin Held(slot[i])
          PROVE  x = m
      BY <1>6, <1>7, <3>3
    <3> QED
      BY <1>7, <3>1, <3>2, <3>3
  <2> QED
    BY <2>1, <2>2
<1> QED
  BY <1>1, <1>8, <1>9, <1>10, TablesUntouched DEF IInv

LEMMA ReturnStep ==
    ASSUME IInv, NEW sender, RouteReturns(sender)
    PROVE  IInv'
<1>1. routing' = Without(routing, sender) /\ UNCHANGED <<client, members, slot, left, sent>>
  BY DEF RouteReturns
<1>2. /\ DOMAIN routing' = DOMAIN routing \ {sender}
      /\ \A s \in DOMAIN routing' : routing'[s] = routing[s]
  BY <1>1, WithoutMap
<1>3. routing' \in [DOMAIN routing' -> Route]
  <2>1. \A s \in DOMAIN routing : routing[s] \in Route
    BY DEF IInv, Shaped
  <2> QED
    BY <1>1, <2>1, WithoutType
<1>4. Shaped'
  BY <1>1, <1>2, <1>3 DEF IInv, Shaped
<1>5. SlotsInLine' /\ RoutesOK'
  BY <1>1, <1>2 DEF IInv, SlotsInLine, RoutesOK
<1> QED
  BY <1>1, <1>4, <1>5, TablesUntouched DEF IInv

-----------------------------------------------------------------------------
(* Turns.  An Agent's messages change places; none is added.                  *)

\* The updates of StartTurn and EndTurn.
Started(s, none, shown) == [s EXCEPT !.busy = TRUE, !.inbox = none, !.turn = shown]
Ended(s, none, told) == [s EXCEPT !.busy = FALSE, !.turn = none, !.told = told]

LEMMA SlotUpdates ==
    ASSUME NEW s \in Slot, NEW x \in Seq(Msg), NEW y \in Seq(Msg)
    PROVE  /\ Started(s, x, y) \in Slot /\ Started(s, x, y).inbox = x
           /\ Started(s, x, y).turn = y /\ Started(s, x, y).told = s.told
           /\ Ended(s, x, y) \in Slot /\ Ended(s, x, y).inbox = s.inbox
           /\ Ended(s, x, y).turn = x /\ Ended(s, x, y).told = y
  BY DEF Slot, Started, Ended

\* One slot is replaced by one that holds no more.
LEMMA SlotReplaced ==
    ASSUME IInv, NEW i \in DOMAIN slot, NEW s \in Slot,
           Len(s.inbox) <= InboxCap, InLine(s), Held(s) \subseteq Held(slot[i]),
           slot' = [slot EXCEPT ![i] = s],
           UNCHANGED <<client, members, routing, left, sent>>
    PROVE  IInv'
<1>1. /\ DOMAIN slot' = DOMAIN slot
      /\ \A j \in DOMAIN slot : slot'[j] = IF j = i THEN s ELSE slot[j]
      /\ slot' \in [DOMAIN slot' -> Slot]
  BY DEF IInv, Shaped
<1>2. Shaped'
  BY <1>1 DEF IInv, Shaped
<1>3. SlotsInLine'
  BY <1>1 DEF IInv, SlotsInLine
<1>4. RoutesOK'
  <2>1. \A j \in DOMAIN slot : Held(slot'[j]) \subseteq Held(slot[j])
    BY <1>1
  <2> QED
    BY <1>1, <2>1 DEF IInv, RoutesOK
<1> QED
  BY <1>2, <1>3, <1>4, TablesUntouched DEF IInv

LEMMA StartStep ==
    ASSUME NamesFit, IInv, NEW i \in Ids, StartTurn(i)
    PROVE  IInv'
<1> DEFINE s == slot[i]
           t == Started(s, <<>>, s.inbox)
<1>1. /\ i \in DOMAIN slot /\ UNCHANGED <<client, members, routing, left, sent>>
      /\ slot' = [slot EXCEPT ![i].busy = TRUE, ![i].inbox = <<>>, ![i].turn = slot[i].inbox]
  BY DEF StartTurn
<1>2. s \in Slot /\ InLine(s)
  BY <1>1 DEF IInv, Shaped, SlotsInLine
<1>3. slot' = [slot EXCEPT ![i] = t]
  BY <1>1 DEF IInv, Shaped, Started
<1>4. /\ t \in Slot /\ t.inbox = <<>> /\ t.turn = s.inbox /\ t.told = s.told
  <2>1. s.inbox \in Seq(Msg) /\ <<>> \in Seq(Msg)
    BY <1>2, EmptyElems DEF Slot
  <2> QED
    <3> DEFINE none == <<>>
    <3>1. none \in Seq(Msg) /\ t = Started(s, none, s.inbox)
      BY <2>1
    <3> HIDE DEF none, t
    <3>2. t \in Slot /\ t.inbox = none /\ t.turn = s.inbox /\ t.told = s.told
      BY <1>2, <2>1, <3>1, SlotUpdates, ZenonT(60)
    <3> QED
      BY <3>2 DEF none
<1> HIDE DEF t
<1>5. Elems(t.inbox) = {} /\ Ordered(t.inbox) /\ Len(t.inbox) <= InboxCap
  BY <1>4, EmptyElems DEF NamesFit
<1>6. Held(t) \subseteq Held(slot[i])
  BY <1>4, <1>5 DEF Held
<1>7. InLine(t)
  BY <1>2, <1>4, <1>5 DEF InLine, Before
<1> QED
  BY <1>1, <1>3, <1>4, <1>5, <1>6, <1>7, SlotReplaced

LEMMA EndStep ==
    ASSUME NamesFit, IInv, NEW i \in Ids, EndTurn(i)
    PROVE  IInv'
<1> DEFINE s == slot[i]
<1>1. PICK kept \in {s.turn, <<>>} :
         slot' = IF i \in DOMAIN client
                 THEN [slot EXCEPT ![i].busy = FALSE, ![i].turn = <<>>, ![i].told = @ \o kept]
                 ELSE Without(slot, i)
  BY DEF EndTurn
<1>2. i \in DOMAIN slot /\ UNCHANGED <<client, members, routing, left, sent>>
  BY DEF EndTurn
<1>3. s \in Slot /\ InLine(s) /\ Len(s.inbox) <= InboxCap
  BY <1>2 DEF IInv, Shaped, SlotsInLine
<1>4. CASE i \notin DOMAIN client
  <2>1. slot' = Without(slot, i)
    BY <1>1, <1>4
  <2> QED
    BY <1>2, <2>1, SlotGone, TablesUntouched DEF IInv, Shaped
<1>5. CASE i \in DOMAIN client
  <2> DEFINE more == s.told \o kept
             t == Ended(s, <<>>, more)
  <2>1. slot' = [slot EXCEPT ![i] = t]
    BY <1>1, <1>2, <1>5 DEF IInv, Shaped, Ended
  <2>2. s.told \in Seq(Msg) /\ s.turn \in Seq(Msg) /\ <<>> \in Seq(Msg)
    BY <1>3, EmptyElems DEF Slot
  <2>3. kept \in Seq(Msg)
    <3>1. kept = s.turn \/ kept = <<>>
      OBVIOUS
    <3> QED
      BY <2>2, <3>1, Zenon
  <2>4. Elems(kept) \subseteq Elems(s.turn) /\ Ordered(kept) /\ Elems(<<>>) = {} /\ Ordered(<<>>)
    BY <1>3, EmptyElems DEF InLine
  <2>5. /\ more \in Seq(Msg) /\ Elems(more) = Elems(s.told) \cup Elems(kept)
    BY <2>2, <2>3, ConcatElems
  <2>6. Ordered(more)
    BY <1>3, <2>2, <2>3, <2>4, OrderedConcat DEF InLine, Before
  <2> HIDE DEF more
  <2>7. t \in Slot /\ t.inbox = s.inbox /\ t.turn = <<>> /\ t.told = more
    <3> DEFINE none == <<>>
    <3>1. none \in Seq(Msg) /\ t = Ended(s, none, more)
      BY <2>2
    <3> HIDE DEF none, t
    <3>2. t \in Slot /\ t.inbox = s.inbox /\ t.turn = none /\ t.told = more
      BY <1>3, <2>5, <3>1, SlotUpdates, ZenonT(60)
    <3> QED
      BY <3>2 DEF none
  <2> HIDE DEF t
  <2>8. Held(t) \subseteq Held(slot[i])
    BY <2>4, <2>5, <2>7 DEF Held
  <2>9. InLine(t)
    BY <1>3, <2>4, <2>5, <2>6, <2>7 DEF InLine, Before
  <2> QED
    BY <1>2, <1>3, <2>1, <2>7, <2>8, <2>9, SlotReplaced
<1> QED
  BY <1>4, <1>5

-----------------------------------------------------------------------------
(* The theorems. *)

LEMMA Inductive == ASSUME NamesFit, IInv, [Next]_messageVars PROVE IInv'
<1>1. CASE UNCHANGED messageVars
  BY <1>1, MessagesUntouched, TablesUntouched DEF messageVars, IInv, Shaped
<1>2. ASSUME NEW i \in Ids,
             \/ HelloRegister(i) \/ CreateAgentSlot(i) \/ RemoveClient(i)
             \/ StartTurn(i) \/ EndTurn(i)
      PROVE  IInv'
  BY <1>2, HelloStep, CreateStep, RemoveStep, StartStep, EndStep
<1>3. ASSUME NEW i \in Ids, NEW thread \in Threads,
             \/ SendMessage(i, thread) \/ DeliverInbox(<<i, thread>>)
             \/ RouteReturns(<<i, thread>>)
      PROVE  IInv'
  BY <1>3, SendStep, DeliverStep, ReturnStep
<1> QED
  BY <1>1, <1>2, <1>3 DEF Next

THEOREM Invariance == ASSUME NamesFit PROVE Spec => []IInv
<1>1. Init => IInv
  BY InitHolds
<1>2. IInv /\ [Next]_messageVars => IInv'
  BY Inductive
<1> QED
  BY <1>1, <1>2, PTL DEF Spec

\* The tables have the types their comments say.
THEOREM TypeCorrect == ASSUME NamesFit PROVE Spec => []TypeOK
<1>1. IInv => TypeOK
  BY DEF IInv, Shaped, TypeOK, Slot
<1> QED
  BY <1>1, Invariance, PTL

\* repo_members_ and clients_ agree about who is where, whoever comes and goes
\* while messages are on their way.
THEOREM TablesAgree == ASSUME NamesFit PROVE Spec => []MembersAreClients
<1>1. IInv => MembersAreClients
  BY DEF IInv
<1> QED
  BY <1>1, Invariance, PTL

\* Every Agent gets the messages of a thread in the order they were sent, none
\* twice, and none that was meant for others.
THEOREM DeliveredInOrder == ASSUME NamesFit PROVE Spec => []MessagesInOrder
<1>1. ASSUME IInv PROVE MessagesInOrder
  <2> SUFFICES ASSUME NEW i \in Ids
               PROVE  /\ \A p, q \in DOMAIN Reached(i) :
                            /\ p < q /\ Reached(i)[p].from = Reached(i)[q].from
                            /\ Reached(i)[p].thread = Reached(i)[q].thread
                            => Reached(i)[p].n < Reached(i)[q].n
                      /\ \A p \in DOMAIN Reached(i) :
                            /\ Reached(i)[p].from # i
                            /\ Reached(i)[p].to \in {All, SameRepo, i}
                            /\ Reached(i)[p].to = SameRepo /\ i \in DOMAIN client
                               => Reached(i)[p].repo = client[i]
    BY DEF MessagesInOrder
  <2>1. CASE i \notin DOMAIN slot
    BY <2>1 DEF Reached
  <2>2. CASE i \in DOMAIN slot
    <3> DEFINE s == slot[i]
    <3>1. s \in Slot /\ InLine(s) /\ \A m \in Held(s) : For(m, i)
      BY <1>1, <2>2 DEF IInv, Shaped, SlotsInLine
    <3>2. s.told \in Seq(Msg) /\ s.turn \in Seq(Msg) /\ s.inbox \in Seq(Msg)
      BY <3>1 DEF Slot
    <3> HIDE DEF s
    <3>3. /\ s.told \o s.turn \in Seq(Msg) /\ Ordered(s.told \o s.turn)
          /\ Elems(s.told \o s.turn) = Elems(s.told) \cup Elems(s.turn)
      BY <3>1, <3>2, ConcatElems, OrderedConcat DEF InLine
    <3>4. Before(s.told \o s.turn, s.inbox)
      BY <3>1, <3>3 DEF InLine, Before
    <3> DEFINE r == s.told \o s.turn \o s.inbox
    <3>5. r \in Seq(Msg) /\ Ordered(r) /\ Elems(r) = Held(s)
      <4>1. r \in Seq(Msg) /\ Elems(r) = Elems(s.told \o s.turn) \cup Elems(s.inbox)
        <5> DEFINE u == s.told \o s.turn
        <5>1. u \in Seq(Msg)
          BY <3>3
        <5> HIDE DEF u
        <5>2. u \o s.inbox \in Seq(Msg) /\ Elems(u \o s.inbox) = Elems(u) \cup Elems(s.inbox)
          BY <3>2, <5>1, ConcatElems
        <5> QED
          BY <5>2 DEF u
      <4>2. Ordered(s.inbox)
        BY <3>1 DEF InLine
      <4>3. Ordered(r)
        BY <3>2, <3>3, <3>4, <4>2, OrderedConcat
      <4> QED
        BY <3>3, <4>1, <4>3 DEF Held
    <3>6. Reached(i) = r
      BY <2>2 DEF Reached, s
    <3> HIDE DEF r
    <3>7. DOMAIN r = 1 .. Len(r) /\ \A p \in DOMAIN r : r[p] \in Held(s)
      BY <3>5 DEF Elems
    <3>8. i \in DOMAIN client => client[i] = RepoOf[i]
      BY <1>1 DEF IInv, Shaped
    <3>9. \A p \in DOMAIN r : For(r[p], i)
      BY <3>1, <3>7
    <3>10. \A p, q \in DOMAIN r : p < q => Older(r[p], r[q])
      BY <3>5, <3>7 DEF Ordered
    <3> QED
      BY <3>6, <3>8, <3>9, <3>10 DEF For, Older
  <2> QED
    BY <2>1, <2>2
<1> QED
  BY <1>1, Invariance, PTL
=============================================================================
