--------------------------- MODULE TaskFilesProofs ---------------------------
(***************************************************************************)
(* The file lists of tasks, for any account, any depth, any number of      *)
(* workers and any failures: what is listed belongs to the task, its paths *)
(* are true, and a request that nothing went wrong with lists all of it.   *)
(***************************************************************************)
EXTENDS TaskFiles, FiniteSetTheorems, FunctionTheorems, SequenceTheorems,
        WellFoundedInduction, TLAPS

-----------------------------------------------------------------------------
(* Induction and recursion over the natural numbers, for sets of numbers   *)
(* and functions on them.                                                  *)

LEMMA Least ==
    ASSUME NEW T, T \subseteq Nat, T # {}
    PROVE  \E m \in T : \A n \in T : m <= n
<1>1. \E m \in T : \A n \in T : <<n, m>> \notin OpToRel(<, Nat)
  BY WFMin, NatLessThanWellFounded
<1>2. PICK m \in T : \A n \in T : <<n, m>> \notin OpToRel(<, Nat)
  BY <1>1
<1>3. \A n \in T : ~(n < m)
  BY <1>2 DEF OpToRel
<1> QED BY <1>3

LEMMA Induction ==
    ASSUME NEW T, 0 \in T, \A n \in Nat : n \in T => n + 1 \in T
    PROVE  Nat \subseteq T
<1> DEFINE Out == Nat \ T
<1> SUFFICES ASSUME Out # {} PROVE FALSE
  OBVIOUS
<1>1. PICK m \in Out : \A n \in Out : m <= n
  BY Least
<1>2. m - 1 \in Nat /\ m - 1 \notin Out
  BY <1>1
<1> QED BY <1>2, <1>1

\* f starts with a, and s says how each value follows from the one before.
Follows(f, A, a, s) ==
    f \in [Nat -> A] /\ f[0] = a /\ \A n \in Nat : f[n + 1] = s[<<n, f[n]>>]

LEMMA Recursion ==
    ASSUME NEW A, NEW a \in A, NEW s \in [Nat \X A -> A]
    PROVE  \E f : Follows(f, A, a, s)
<1> DEFINE Good(n) == {g \in [0..n -> A] :
                          g[0] = a /\ \A i \in 0..n : i # n => g[i + 1] = s[<<i, g[i]>>]}
           T == {n \in Nat : Good(n) # {}}
           Same == {i \in Nat : \A n, m \in Nat : i <= n /\ i <= m =>
                        \A g \in Good(n), h \in Good(m) : g[i] = h[i]}
<1>1. 0 \in T
  <2>1. [i \in 0..0 |-> a] \in Good(0)
    OBVIOUS
  <2> QED BY <2>1
<1>2. ASSUME NEW n \in Nat, n \in T PROVE n + 1 \in T
  <2>1. PICK g \in Good(n) : TRUE
    BY <1>2
  <2> DEFINE h == [i \in 0..(n + 1) |-> IF i = n + 1 THEN s[<<n, g[n]>>] ELSE g[i]]
  <2>2. g[n] \in A /\ s[<<n, g[n]>>] \in A
    BY <2>1
  <2>3. h \in [0..(n + 1) -> A]
    BY <2>1, <2>2
  <2>4. h[0] = a
    BY <2>1
  <2>5. ASSUME NEW i \in 0..(n + 1), i # n + 1 PROVE h[i + 1] = s[<<i, h[i]>>]
    <3>1. CASE i = n
      BY <3>1
    <3>2. CASE i # n
      BY <2>1, <2>5, <3>2
    <3> QED BY <3>1, <3>2
  <2>6. h \in Good(n + 1)
    BY <2>3, <2>4, <2>5
  <2> HIDE DEF Good, h
  <2> QED BY <2>6
<1>3. T = Nat
  <2> HIDE DEF T
  <2>1. Nat \subseteq T
    BY <1>1, <1>2, Induction
  <2> QED BY <2>1 DEF T
<1>4. 0 \in Same
  OBVIOUS
<1>5. ASSUME NEW i \in Nat, i \in Same PROVE i + 1 \in Same
  <2> SUFFICES ASSUME NEW n \in Nat, NEW m \in Nat, i + 1 <= n, i + 1 <= m,
                      NEW g \in Good(n), NEW h \in Good(m)
               PROVE  g[i + 1] = h[i + 1]
    OBVIOUS
  <2>1. g[i] = h[i]
    BY <1>5
  <2>2. g[i + 1] = s[<<i, g[i]>>] /\ h[i + 1] = s[<<i, h[i]>>]
    OBVIOUS
  <2> QED BY <2>1, <2>2
<1>6. Nat \subseteq Same
  <2> HIDE DEF Same
  <2> QED BY <1>4, <1>5, Induction
<1> DEFINE upto(n) == CHOOSE g \in Good(n) : TRUE
           f == [n \in Nat |-> upto(n)[n]]
<1>7. \A n \in Nat : upto(n) \in Good(n)
  <2> HIDE DEF Good
  <2> QED BY <1>3
<1> HIDE DEF upto
<1>8. f \in [Nat -> A]
  BY <1>7
<1>9. f[0] = a
  BY <1>7
<1>10. ASSUME NEW n \in Nat PROVE f[n + 1] = s[<<n, f[n]>>]
  <2>1. upto(n) \in Good(n) /\ upto(n + 1) \in Good(n + 1)
    BY <1>7
  <2>2. upto(n + 1)[n + 1] = s[<<n, upto(n + 1)[n]>>]
    BY <2>1
  <2>3. upto(n + 1)[n] = upto(n)[n]
    <3>1. n \in Same
      <4> HIDE DEF Same
      <4> QED BY <1>6
    <3> HIDE DEF Good
    <3> QED BY <2>1, <3>1
  <2> QED BY <2>2, <2>3
<1> QED BY <1>8, <1>9, <1>10 DEF Follows

-----------------------------------------------------------------------------
(* Climbing                                                                *)

LEMMA AboveSteps ==
    ASSUME NEW e
    PROVE  Above(e)[0] = e /\ \A n \in Nat : Above(e)[n + 1] = Up(Above(e)[n])
<1> DEFINE A == Ids \cup {e} \cup {account[x].parent : x \in Ids}
           s == [p \in Nat \X A |-> Up(p[2])]
<1>1. \A x \in A : Up(x) \in A
  BY DEF Up
<1>2. s \in [Nat \X A -> A]
  BY <1>1
<1>3. PICK f : Follows(f, A, e, s)
  <2> HIDE DEF A, s
  <2>1. e \in A
    BY DEF A
  <2> QED BY <1>2, <2>1, Recursion, Zenon
<1>4. f[0] = e /\ \A n \in Nat : f[n + 1] = Up(f[n])
  BY <1>3 DEF Follows
<1> HIDE DEF A
<1>5. f = [n \in Nat |-> IF n = 0 THEN e ELSE Up(f[n - 1])]
  <2>1. \A n \in Nat : n # 0 => n - 1 \in Nat /\ n = (n - 1) + 1
    OBVIOUS
  <2>2. \A n \in Nat : f[n] = IF n = 0 THEN e ELSE Up(f[n - 1])
    BY <1>4, <2>1
  <2> QED BY <1>3, <2>2 DEF Follows
<1> DEFINE up == Above(e)
<1>6. up = [n \in Nat |-> IF n = 0 THEN e ELSE Up(up[n - 1])]
  BY <1>5 DEF Above
<1> HIDE DEF up
<1>7. up[0] = e /\ \A n \in Nat : up[n + 1] = Up(up[n])
  BY <1>6
<1> QED BY <1>7 DEF up

LEMMA TrailSteps ==
    ASSUME NEW e
    PROVE  /\ Trail(e)[0] = <<account[e].name>>
           /\ \A n \in Nat : Trail(e)[n + 1] = <<account[Above(e)[n + 1]].name>> \o Trail(e)[n]
<1> DEFINE above == Above(e)
           B == {account[above[n]].name : n \in Nat} \cup {account[e].name}
           s == [p \in Nat \X Seq(B) |-> <<account[above[p[1] + 1]].name>> \o p[2]]
<1> HIDE DEF above
<1>1. s \in [Nat \X Seq(B) -> Seq(B)]
  <2> SUFFICES ASSUME NEW n \in Nat, NEW q \in Seq(B)
               PROVE  <<account[above[n + 1]].name>> \o q \in Seq(B)
    OBVIOUS
  <2>1. account[above[n + 1]].name \in B
    OBVIOUS
  <2> HIDE DEF B
  <2> QED BY <2>1
<1>2. <<account[e].name>> \in Seq(B)
  OBVIOUS
<1>3. PICK f : Follows(f, Seq(B), <<account[e].name>>, s)
  <2> HIDE DEF s, B
  <2> QED BY <1>1, <1>2, Recursion, Zenon
<1>4. /\ f[0] = <<account[e].name>>
      /\ \A n \in Nat : f[n + 1] = <<account[above[n + 1]].name>> \o f[n]
  <2> HIDE DEF B
  <2> QED BY <1>3 DEF Follows
<1>5. f = [n \in Nat |-> IF n = 0 THEN <<account[e].name>>
                         ELSE <<account[above[n]].name>> \o f[n - 1]]
  <2>1. \A n \in Nat : n # 0 => n - 1 \in Nat /\ n = (n - 1) + 1
    OBVIOUS
  <2> HIDE DEF B
  <2>2. \A n \in Nat : f[n] = IF n = 0 THEN <<account[e].name>>
                              ELSE <<account[above[n]].name>> \o f[n - 1]
    BY <1>4, <2>1
  <2> QED BY <1>3, <2>2 DEF Follows
<1> DEFINE trail == Trail(e)
<1>6. trail = [n \in Nat |-> IF n = 0 THEN <<account[e].name>>
                             ELSE <<account[above[n]].name>> \o trail[n - 1]]
  BY <1>5 DEF Trail, above
<1> HIDE DEF trail
<1>7. \A n \in Nat : trail[n] = IF n = 0 THEN <<account[e].name>>
                               ELSE <<account[above[n]].name>> \o trail[n - 1]
  BY <1>6, Zenon
<1>8. \A n \in Nat : n + 1 \in Nat /\ n + 1 # 0 /\ (n + 1) - 1 = n
  OBVIOUS
<1>9. trail[0] = <<account[e].name>>
  BY <1>7
<1>10. \A n \in Nat : trail[n + 1] = <<account[above[n + 1]].name>> \o trail[n]
  BY <1>7, <1>8, Zenon
<1> QED BY <1>9, <1>10 DEF trail, above

(* Climbing m levels and then n is climbing m + n.                         *)
LEMMA AboveSum ==
    ASSUME NEW e, NEW m \in Nat, NEW n \in Nat
    PROVE  Above(e)[m + n] = Above(Above(e)[m])[n]
<1> DEFINE d == Above(e)[m]
           T == {k \in Nat : Above(e)[m + k] = Above(d)[k]}
<1>1. 0 \in T
  BY AboveSteps
<1>2. ASSUME NEW k \in Nat, k \in T PROVE k + 1 \in T
  <2>1. Above(e)[(m + k) + 1] = Up(Above(e)[m + k]) /\ Above(d)[k + 1] = Up(Above(d)[k])
    BY AboveSteps
  <2>2. (m + k) + 1 = m + (k + 1)
    OBVIOUS
  <2> QED BY <1>2, <2>1, <2>2
<1>3. n \in T
  <2> HIDE DEF T
  <2> QED BY <1>1, <1>2, Induction
<1> QED BY <1>3

LEMMA AboveParent ==
    ASSUME NEW e \in Ids, NEW n \in Nat
    PROVE  Above(e)[n + 1] = Above(account[e].parent)[n]
<1>1. Above(e)[1 + n] = Above(Above(e)[1])[n]
  BY AboveSum
<1>2. Above(e)[0 + 1] = account[e].parent
  BY AboveSteps DEF Up
<1>3. 1 + n = n + 1 /\ 0 + 1 = 1
  OBVIOUS
<1> QED BY <1>1, <1>2, <1>3

(* Nothing is above what has no entry: the root stays the root.            *)
LEMMA AboveOutside ==
    ASSUME NEW e, e \notin Ids, NEW n \in Nat
    PROVE  Above(e)[n] = e
<1> DEFINE T == {k \in Nat : Above(e)[k] = e}
<1>1. 0 \in T
  BY AboveSteps
<1>2. ASSUME NEW k \in Nat, k \in T PROVE k + 1 \in T
  BY <1>2, AboveSteps DEF Up
<1>3. n \in T
  <2> HIDE DEF T
  <2> QED BY <1>1, <1>2, Induction
<1> QED BY <1>3

LEMMA InsideBelow ==
    ASSUME NEW e, NEW n \in Nat, NEW m \in 0..n, Above(e)[n] \in Ids
    PROVE  Above(e)[m] \in Ids
<1> SUFFICES ASSUME Above(e)[m] \notin Ids PROVE FALSE
  OBVIOUS
<1>1. n - m \in Nat /\ m + (n - m) = n /\ m \in Nat
  OBVIOUS
<1>2. Above(e)[m + (n - m)] = Above(Above(e)[m])[n - m]
  BY <1>1, AboveSum
<1>3. Above(Above(e)[m])[n - m] = Above(e)[m]
  BY <1>1, AboveOutside
<1> QED BY <1>1, <1>2, <1>3

-----------------------------------------------------------------------------
(* Paths                                                                   *)

Typed == account \in [Ids -> Entries]

LEMMA TrailTyped ==
    ASSUME Typed, NEW e, NEW n \in Nat, Above(e)[n] \in Ids
    PROVE  Trail(e)[n] \in Seq(Names) /\ Len(Trail(e)[n]) = n + 1
<1>0. \A x \in Ids : account[x].name \in Names
  BY DEF Typed, Entries
<1> DEFINE Good(q, k) == q \in Seq(Names) /\ Len(q) = k + 1
           T == {k \in Nat : k <= n => Good(Trail(e)[k], k)}
<1>1. Good(Trail(e)[0], 0)
  <2>1. Above(e)[0] = e /\ Above(e)[0] \in Ids
    BY InsideBelow, AboveSteps
  <2>2. Trail(e)[0] = <<account[e].name>> /\ account[e].name \in Names
    BY <1>0, <2>1, TrailSteps
  <2>3. Good(<<account[e].name>>, 0)
    BY <2>2
  <2> HIDE DEF Good
  <2> QED BY <2>2, <2>3
<1>2. ASSUME NEW k \in Nat, Good(Trail(e)[k], k), k + 1 <= n PROVE Good(Trail(e)[k + 1], k + 1)
  <2>1. Above(e)[k + 1] \in Ids
    BY <1>2, InsideBelow
  <2> DEFINE x == account[Above(e)[k + 1]].name
             q == Trail(e)[k]
  <2>2. x \in Names /\ q \in Seq(Names) /\ Len(q) = k + 1
    BY <1>0, <1>2, <2>1
  <2>3. Trail(e)[k + 1] = <<x>> \o q
    BY TrailSteps
  <2> HIDE DEF x, q
  <2>4. Good(<<x>> \o q, k + 1)
    BY <2>2
  <2> HIDE DEF Good
  <2> QED BY <2>3, <2>4
<1>3. Good(Trail(e)[n], n)
  <2> HIDE DEF Good
  <2>1. 0 \in T /\ \A k \in Nat : k \in T => k + 1 \in T
    BY <1>1, <1>2
  <2>2. n \in T
    <3> HIDE DEF T
    <3> QED BY <2>1, Induction
  <2> QED BY <2>2
<1> QED BY <1>3

(* A path that goes further up begins with the path of the upper part.     *)
LEMMA TrailSum ==
    ASSUME Typed, NEW e, NEW m \in Nat, NEW n \in Nat, Above(e)[(m + 1) + n] \in Ids
    PROVE  Trail(e)[(m + 1) + n] = Trail(Above(e)[m + 1])[n] \o Trail(e)[m]
<1> DEFINE d == Above(e)[m + 1]
           q == Trail(e)[m]
           Sum(k) == Trail(e)[(m + 1) + k] = Trail(d)[k] \o q
           T == {k \in Nat : k <= n => Sum(k)}
<1>0. \A k \in 0..n : Above(e)[(m + 1) + k] \in Ids /\ Above(e)[(m + 1) + k] = Above(d)[k]
  <2> SUFFICES ASSUME NEW k \in 0..n
               PROVE  Above(e)[(m + 1) + k] \in Ids /\ Above(e)[(m + 1) + k] = Above(d)[k]
    OBVIOUS
  <2>1. (m + 1) + k \in 0..((m + 1) + n) /\ m + 1 \in Nat /\ k \in Nat /\ (m + 1) + n \in Nat
    OBVIOUS
  <2>2. Above(e)[(m + 1) + k] \in Ids
    BY <2>1, InsideBelow, Zenon
  <2>3. Above(e)[(m + 1) + k] = Above(Above(e)[m + 1])[k]
    BY <2>1, AboveSum, Zenon
  <2> QED BY <2>2, <2>3
<1>q. q \in Seq(Names)
  <2>1. m \in 0..((m + 1) + n) /\ (m + 1) + n \in Nat
    OBVIOUS
  <2>2. Above(e)[m] \in Ids
    BY <2>1, InsideBelow
  <2> QED BY <2>2, TrailTyped
<1>1. Sum(0)
  <2>1. Trail(e)[m + 1] = <<account[d].name>> \o q
    BY TrailSteps
  <2>2. Trail(d)[0] = <<account[d].name>>
    BY TrailSteps
  <2>3. (m + 1) + 0 = m + 1
    OBVIOUS
  <2> QED BY <2>1, <2>2, <2>3
<1>2. ASSUME NEW k \in Nat, Sum(k), k + 1 <= n PROVE Sum(k + 1)
  <2> DEFINE x == account[Above(d)[k + 1]].name
             r == Trail(d)[k]
  <2>1. /\ Above(d)[k] \in Ids /\ Above(d)[k + 1] \in Ids
        /\ Above(e)[(m + 1) + (k + 1)] = Above(d)[k + 1]
    BY <1>0, <1>2
  <2>2. x \in Names /\ r \in Seq(Names)
    BY <2>1, TrailTyped DEF Typed, Entries
  <2>3. Trail(e)[(m + 1) + k] = r \o q
    BY <1>2
  <2>4. Trail(d)[k + 1] = <<x>> \o r
    BY TrailSteps
  <2>5. Trail(e)[(m + 1) + (k + 1)] = <<x>> \o Trail(e)[(m + 1) + k]
    <3>1. ((m + 1) + k) + 1 = (m + 1) + (k + 1) /\ (m + 1) + k \in Nat
      OBVIOUS
    <3>2. Trail(e)[((m + 1) + k) + 1] =
              <<account[Above(e)[((m + 1) + k) + 1]].name>> \o Trail(e)[(m + 1) + k]
      BY <3>1, TrailSteps
    <3> QED BY <2>1, <3>1, <3>2
  <2> HIDE DEF x, r, q
  <2>6. <<x>> \o (r \o q) = (<<x>> \o r) \o q
    BY <1>q, <2>2
  <2> QED BY <2>3, <2>4, <2>5, <2>6
<1>3. Sum(n)
  <2> HIDE DEF Sum
  <2>1. 0 \in T /\ \A k \in Nat : k \in T => k + 1 \in T
    BY <1>1, <1>2
  <2>2. n \in T
    <3> HIDE DEF T
    <3> QED BY <2>1, Induction
  <2> QED BY <2>2
<1> QED BY <1>3

(* The path of an entry is its directory's path and its name.              *)
LEMMA TrailParent ==
    ASSUME Typed, NEW e \in Ids, NEW n \in Nat, Above(e)[n + 1] \in Ids
    PROVE  Trail(e)[n + 1] = Append(Trail(account[e].parent)[n], account[e].name)
<1>1. Above(e)[0 + 1] = account[e].parent /\ (0 + 1) + n = n + 1
  BY AboveSteps DEF Up
<1>2. Trail(e)[(0 + 1) + n] = Trail(Above(e)[0 + 1])[n] \o Trail(e)[0]
  BY <1>1, TrailSum
<1>3. Trail(e)[0] = <<account[e].name>>
  BY TrailSteps
<1> DEFINE q == Trail(account[e].parent)[n]
           x == account[e].name
<1>4. q \in Seq(Names) /\ x \in Names
  <2>1. Above(account[e].parent)[n] \in Ids
    BY AboveParent
  <2> QED BY <2>1, TrailTyped DEF Typed, Entries
<1>5. Trail(e)[n + 1] = q \o <<x>>
  BY <1>1, <1>2, <1>3
<1> HIDE DEF q, x
<1>6. q \o <<x>> = Append(q, x)
  BY <1>4
<1> QED BY <1>5, <1>6 DEF q, x

(* A path begins with the name of its highest directory.                   *)
LEMMA TrailHead ==
    ASSUME Typed, NEW e, NEW n \in Nat, Above(e)[n] \in Ids
    PROVE  Head(Trail(e)[n]) = account[Above(e)[n]].name
<1>1. CASE n = 0
  BY <1>1, AboveSteps, TrailSteps
<1>2. CASE n # 0
  <2>1. n - 1 \in Nat /\ (n - 1) + 1 = n /\ n - 1 \in 0..n
    BY <1>2
  <2> DEFINE x == account[Above(e)[n]].name
             q == Trail(e)[n - 1]
  <2>2. q \in Seq(Names)
    BY <2>1, InsideBelow, TrailTyped
  <2>3. Trail(e)[(n - 1) + 1] = <<account[Above(e)[(n - 1) + 1]].name>> \o q
    BY <2>1, TrailSteps
  <2>4. Trail(e)[n] = <<x>> \o q
    BY <2>1, <2>3
  <2> HIDE DEF x, q
  <2>5. Head(<<x>> \o q) = x
    BY <2>2
  <2> QED BY <2>4, <2>5 DEF x
<1> QED BY <1>1, <1>2

-----------------------------------------------------------------------------
(* Existing entries                                                        *)

\* e is n levels below an entry of the root.
AtHeight(e, n) == Above(e)[n] \in Ids /\ Above(e)[n + 1] = RootId

LEMMA HeightReached ==
    ASSUME NEW e \in Ids, NEW m \in Nat, Above(e)[m] = RootId
    PROVE  \E n \in Nat : n < m /\ AtHeight(e, n)
<1> DEFINE T == {k \in Nat : Above(e)[k] = RootId}
<1>1. PICK k \in T : \A j \in T : k <= j
  <2>1. m \in T /\ T \subseteq Nat
    OBVIOUS
  <2> HIDE DEF T
  <2> QED BY <2>1, Least
<1>2. k # 0
  <2>1. Above(e)[0] = e /\ e # RootId
    BY AboveSteps, IdsAssumption
  <2> QED BY <1>1, <2>1
<1>3. k - 1 \in Nat /\ (k - 1) + 1 = k /\ k - 1 < k /\ k <= m
  BY <1>1, <1>2
<1>4. Above(e)[k - 1] # RootId
  BY <1>1, <1>3
<1>5. Above(e)[k] = Up(Above(e)[k - 1])
  <2>1. Above(e)[(k - 1) + 1] = Up(Above(e)[k - 1])
    BY <1>3, AboveSteps
  <2> QED BY <1>3, <2>1
<1>6. Above(e)[k - 1] \in Ids
  BY <1>1, <1>4, <1>5 DEF Up
<1>7. AtHeight(e, k - 1)
  BY <1>1, <1>3, <1>6 DEF AtHeight
<1> QED BY <1>3, <1>7

(* No entry is above itself on the way to the root, so the way is no longer*)
(* than there are entries.                                                 *)
LEMMA HeightBounded ==
    ASSUME NEW e, NEW n \in Nat, AtHeight(e, n)
    PROVE  n + 1 \in Heights
<1> DEFINE f == [i \in 0..n |-> Above(e)[i]]
<1>1. \A i \in 0..n : Above(e)[i] \in Ids
  BY InsideBelow DEF AtHeight
<1>2. ASSUME NEW i \in 0..n, NEW j \in 0..n, i < j, Above(e)[i] = Above(e)[j] PROVE FALSE
  <2> DEFINE k == (n + 1) - j
  <2>1. k \in Nat /\ i \in Nat /\ j \in Nat /\ j + k = n + 1 /\ i + k \in 0..n
    BY <1>2
  <2>2. Above(e)[i + k] = Above(Above(e)[i])[k] /\ Above(e)[j + k] = Above(Above(e)[j])[k]
    BY <2>1, AboveSum
  <2>3. Above(e)[i + k] = RootId
    BY <1>2, <2>1, <2>2 DEF AtHeight
  <2> QED BY <1>1, <2>1, <2>3, IdsAssumption
<1>3. f \in [0..n -> Ids] /\ \A i, j \in 0..n : f[i] = f[j] => i = j
  <2>1. \A i, j \in 0..n : i < j \/ j < i \/ i = j
    OBVIOUS
  <2> QED BY <1>1, <1>2, <2>1
<1>4. f \in Injection(0..n, Ids)
  <2> HIDE DEF f
  <2> QED BY <1>3, Fun_IsInj
<1>5. Cardinality(0..n) <= Cardinality(Ids) /\ Cardinality(Ids) \in Nat
  BY <1>4, IdsAssumption, FS_Injection, FS_CardinalityType
<1>6. Cardinality(0..n) = n + 1
  BY FS_Interval
<1> QED BY <1>5, <1>6 DEF Heights

LEMMA ExistsAtHeight ==
    ASSUME NEW e \in Ids
    PROVE  Exists(e) <=> \E n \in Nat : AtHeight(e, n)
<1>1. ASSUME Exists(e) PROVE \E n \in Nat : AtHeight(e, n)
  <2>1. \A m \in Heights : m \in Nat
    BY DEF Heights
  <2> QED BY <1>1, <2>1, HeightReached DEF Exists
<1>2. ASSUME NEW n \in Nat, AtHeight(e, n) PROVE Exists(e)
  BY <1>2, HeightBounded DEF Exists, AtHeight
<1> QED BY <1>1, <1>2

(* What is below something that exists exists.                             *)
LEMMA ExistsBelow ==
    ASSUME NEW e \in Ids, NEW n \in Nat, Exists(Above(e)[n])
    PROVE  Exists(e)
<1>1. PICK m \in Heights : Above(Above(e)[n])[m] = RootId
  BY DEF Exists
<1>2. m \in Nat /\ n + m \in Nat
  BY <1>1 DEF Heights
<1>3. Above(e)[n + m] = RootId
  BY <1>1, <1>2, AboveSum
<1> QED BY <1>2, <1>3, HeightReached, ExistsAtHeight

LEMMA ExistsInside ==
    ASSUME NEW e, Exists(e), e # RootId
    PROVE  e \in Ids
<1> SUFFICES ASSUME e \notin Ids PROVE FALSE
  OBVIOUS
<1>1. \A m \in Heights : m \in Nat
  BY DEF Heights
<1> QED BY <1>1, AboveOutside DEF Exists

LEMMA RootExists == Exists(RootId)
<1>1. 0 \in Heights
  BY IdsAssumption, FS_CardinalityType DEF Heights
<1> QED BY <1>1, AboveSteps DEF Exists

LEMMA FullPathIs ==
    ASSUME NEW e, NEW n \in Nat, AtHeight(e, n)
    PROVE  FullPath(e) = Trail(e)[n]
<1> DEFINE Whole(m) == Above(e)[m] # RootId /\ Above(e)[m + 1] = RootId
<1>1. n \in Heights /\ Whole(n)
  <2>1. n + 1 \in Heights
    BY HeightBounded
  <2>2. Cardinality(Ids) \in Nat
    BY IdsAssumption, FS_CardinalityType
  <2> QED BY <2>1, <2>2, IdsAssumption DEF AtHeight, Heights
<1>2. ASSUME NEW m \in Heights, Whole(m) PROVE m = n
  <2>1. m \in Nat
    BY DEF Heights
  <2>2. CASE m < n
    <3>1. m + 1 \in 0..n
      BY <2>1, <2>2
    <3>2. Above(e)[m + 1] \in Ids
      BY <3>1, InsideBelow DEF AtHeight
    <3> QED BY <1>2, <3>2, IdsAssumption
  <2>3. CASE n < m
    <3>1. m - (n + 1) \in Nat /\ (n + 1) + (m - (n + 1)) = m /\ n + 1 \in Nat
      BY <2>1, <2>3
    <3>2. Above(e)[(n + 1) + (m - (n + 1))] = Above(Above(e)[n + 1])[m - (n + 1)]
      BY <3>1, AboveSum
    <3>3. Above(RootId)[m - (n + 1)] = RootId
      BY <3>1, AboveOutside, IdsAssumption
    <3> QED BY <1>2, <3>1, <3>2, <3>3 DEF AtHeight
  <2> QED BY <2>1, <2>2, <2>3
<1>3. (CHOOSE m \in Heights : Whole(m)) = n
  <2> HIDE DEF Whole
  <2> QED BY <1>1, <1>2
<1> QED BY <1>3 DEF FullPath

LEMMA FullPathTyped ==
    ASSUME Typed, NEW e \in Ids, Exists(e)
    PROVE  FullPath(e) \in Seq(Names) /\ FullPath(e) # <<>>
<1>1. PICK n \in Nat : AtHeight(e, n)
  BY ExistsAtHeight
<1> DEFINE q == Trail(e)[n]
<1>2. q \in Seq(Names) /\ Len(q) = n + 1
  BY <1>1, TrailTyped DEF AtHeight
<1>3. FullPath(e) = q
  BY <1>1, FullPathIs
<1> HIDE DEF q
<1> QED BY <1>2, <1>3

(* The whole path of an entry below d is d's and the path from d.          *)
LEMMA FullPathBelow ==
    ASSUME Typed, NEW d \in Ids, Exists(d), NEW e, NEW n \in Nat, Above(e)[n + 1] = d
    PROVE  FullPath(e) = FullPath(d) \o Trail(e)[n]
<1>1. PICK k \in Nat : AtHeight(d, k)
  BY ExistsAtHeight
<1>2. n + 1 \in Nat /\ (n + 1) + k \in Nat /\ ((n + 1) + k) + 1 = (n + 1) + (k + 1) /\ k + 1 \in Nat
  OBVIOUS
<1>3. Above(e)[(n + 1) + k] = Above(d)[k]
  BY <1>2, AboveSum
<1>4. Above(e)[(n + 1) + (k + 1)] = Above(d)[k + 1]
  BY <1>2, AboveSum, Zenon
<1>5. AtHeight(e, (n + 1) + k)
  BY <1>1, <1>2, <1>3, <1>4 DEF AtHeight
<1>6. FullPath(e) = Trail(e)[(n + 1) + k] /\ FullPath(d) = Trail(d)[k]
  BY <1>1, <1>2, <1>5, FullPathIs
<1>7. Trail(e)[(n + 1) + k] = Trail(d)[k] \o Trail(e)[n]
  BY <1>5, TrailSum DEF AtHeight
<1> QED BY <1>6, <1>7

-----------------------------------------------------------------------------
(* What a listing reaches                                                  *)

FilesAt == (Ids \ Dirs) \X Seq(Names)

\* The file y[1] is n levels below an entry of S, and its path is y[2] when
\* p is the path of their directory.
Leads(S, p, y, n) ==
    /\ Above(y[1])[n] \in S
    /\ Len(p) + n <= MaxExpand
    /\ y[2] = p \o Trail(y[1])[n]

\* The files at or below the entries of S, to the depth of the limit.
Reach(S, p) == {y \in FilesAt : \E n \in 0..MaxExpand : Leads(S, p, y, n)}

LEMMA ReachNothing == ASSUME NEW p PROVE Reach({}, p) = {}
  BY DEF Reach, Leads

LEMMA LeavesAreReached ==
    ASSUME Typed, NEW S, S \subseteq Ids
    PROVE  Leaves(S) = Reach(S, <<>>)
<1>1. \A n \in 0..MaxExpand : n \in Nat /\ Len(<<>>) + n <= MaxExpand
  BY BoundsAssumption
<1>2. ASSUME NEW e, NEW n \in 0..MaxExpand, Above(e)[n] \in S
      PROVE  Trail(e)[n] \in Seq(Names) /\ <<>> \o Trail(e)[n] = Trail(e)[n]
  <2>1. Trail(e)[n] \in Seq(Names)
    BY <1>1, <1>2, TrailTyped
  <2> QED BY <2>1
<1>3. ASSUME NEW y, y \in Leaves(S) PROVE y \in Reach(S, <<>>)
  <2>1. PICK e \in Ids \ Dirs, n \in 0..MaxExpand : Above(e)[n] \in S /\ y = <<e, Trail(e)[n]>>
    BY <1>3 DEF Leaves
  <2>2. y[1] = e /\ y[2] = Trail(e)[n] /\ y \in FilesAt
    BY <1>2, <2>1 DEF FilesAt
  <2>3. Leads(S, <<>>, y, n)
    BY <1>1, <1>2, <2>1, <2>2 DEF Leads
  <2> QED BY <2>2, <2>3 DEF Reach
<1>4. ASSUME NEW y, y \in Reach(S, <<>>) PROVE y \in Leaves(S)
  <2>1. PICK n \in 0..MaxExpand : Leads(S, <<>>, y, n)
    BY <1>4 DEF Reach
  <2>2. y[1] \in Ids \ Dirs /\ y = <<y[1], y[2]>>
    BY <1>4 DEF Reach, FilesAt
  <2>3. Above(y[1])[n] \in S /\ y[2] = Trail(y[1])[n]
    BY <1>2, <2>1 DEF Leads
  <2> DEFINE F(e) == {<<e, Trail(e)[m]>> : m \in {m \in 0..MaxExpand : Above(e)[m] \in S}}
  <2>4. y \in F(y[1])
    BY <2>2, <2>3
  <2>5. Leaves(S) = UNION {F(e) : e \in Ids \ Dirs}
    BY DEF Leaves
  <2> HIDE DEF F
  <2> QED BY <2>2, <2>4, <2>5
<1> QED BY <1>3, <1>4

LEMMA ParentIsDir ==
    ASSUME Typed, NEW e, NEW n \in Nat, Above(e)[n + 1] \in Ids
    PROVE  /\ Above(e)[n] \in Ids /\ account[Above(e)[n]].parent = Above(e)[n + 1]
           /\ Above(e)[n + 1] \in Dirs
<1>1. Above(e)[n] \in Ids
  <2>1. n \in 0..(n + 1) /\ n + 1 \in Nat
    OBVIOUS
  <2> QED BY <2>1, InsideBelow
<1>2. Above(e)[n + 1] = account[Above(e)[n]].parent
  BY <1>1, AboveSteps DEF Up
<1>3. account[Above(e)[n]].parent \in Dirs \cup {RootId, Gone}
  BY <1>1 DEF Typed, Entries
<1> QED BY <1>1, <1>2, <1>3, IdsAssumption

\* The entries of new that Expand keeps, those that it lists later, and what
\* all those that wait will reach.
Kept(new) == {x \in new : x[1] \notin Dirs}
Waits(new) == {x \in new : x[1] \in Dirs /\ Len(x[2]) <= MaxExpand}
BelowAll(pending) == UNION {Reach(Children(x[1]), x[2]) : x \in pending}

Listed(S, p) == {At(c, p) : c \in S}

LEMMA AtIs ==
    ASSUME Typed, NEW c \in Ids, NEW p \in Seq(Names)
    PROVE  /\ At(c, p)[1] = c
           /\ At(c, p)[2] = p \o <<account[c].name>>
           /\ At(c, p) \in Ids \X Seq(Names)
           /\ Len(At(c, p)[2]) = Len(p) + 1
<1>1. account[c].name \in Names
  BY DEF Typed, Entries
<1> DEFINE x == account[c].name
<1> HIDE DEF x
<1>2. Append(p, x) = p \o <<x>> /\ Append(p, x) \in Seq(Names) /\ Len(Append(p, x)) = Len(p) + 1
  BY <1>1 DEF x
<1> QED BY <1>2 DEF At, x

(* expandOfflineTaskEntry loses nothing and adds nothing: a listing's files*)
(* and what its directories lead to is what it reaches.                    *)
LEMMA ExpandReaches ==
    ASSUME Typed, NEW S, S \subseteq Ids, NEW p \in Seq(Names), Len(p) <= MaxExpand
    PROVE  Reach(S, p) = Kept(Listed(S, p)) \cup BelowAll(Waits(Listed(S, p)))
<1> DEFINE new == Listed(S, p)
<1>0. MaxExpand \in Nat /\ Len(p) \in Nat
  BY BoundsAssumption
<1>n. \A c \in S : account[c].name \in Names
  BY DEF Typed, Entries
<1>s. ASSUME NEW c \in S, NEW e, NEW m \in Nat, Above(e)[m + 1] = c
      PROVE  /\ Above(e)[m] \in Children(c) /\ c \in Dirs
             /\ p \o Trail(e)[m + 1] = At(c, p)[2] \o Trail(e)[m]
  <2>1. Above(e)[m] \in Children(c) /\ c \in Dirs
    BY <1>s, ParentIsDir DEF Children
  <2> DEFINE x == account[c].name
             r == Trail(e)[m]
  <2>2. x \in Names /\ r \in Seq(Names)
    BY <1>n, <2>1, TrailTyped DEF Children
  <2>3. Trail(e)[m + 1] = <<x>> \o r
    BY <1>s, TrailSteps
  <2>4. At(c, p)[2] = p \o <<x>>
    BY AtIs
  <2> HIDE DEF x, r
  <2>5. p \o (<<x>> \o r) = (p \o <<x>>) \o r
    BY <2>2
  <2> QED BY <2>1, <2>3, <2>4, <2>5 DEF r
<1>1. ASSUME NEW y, y \in Reach(S, p) PROVE y \in Kept(new) \cup BelowAll(Waits(new))
  <2>1. PICK n \in 0..MaxExpand : Leads(S, p, y, n)
    BY <1>1 DEF Reach
  <2>2. y \in FilesAt /\ y[1] \in Ids \ Dirs /\ y = <<y[1], y[2]>>
    BY <1>1 DEF Reach, FilesAt
  <2>3. CASE n = 0
    <3>1. y[1] \in S /\ Trail(y[1])[0] = <<account[y[1]].name>>
      BY <2>1, <2>3, AboveSteps, TrailSteps DEF Leads
    <3>2. y[2] = At(y[1], p)[2] /\ y[1] = At(y[1], p)[1]
      <4>1. y[2] = p \o Trail(y[1])[0]
        BY <2>1, <2>3 DEF Leads
      <4>2. y[1] \in Ids
        BY <2>2
      <4>3. At(y[1], p)[1] = y[1] /\ At(y[1], p)[2] = p \o <<account[y[1]].name>>
        BY <4>2, AtIs
      <4> QED BY <3>1, <4>1, <4>3
    <3>3. At(y[1], p) = <<At(y[1], p)[1], At(y[1], p)[2]>>
      BY DEF At
    <3>4. y = At(y[1], p)
      BY <2>2, <3>2, <3>3
    <3> QED BY <2>2, <3>1, <3>4 DEF Kept, Listed
  <2>4. CASE n # 0
    <3> DEFINE m == n - 1
               c == Above(y[1])[n]
    <3>1. m \in 0..MaxExpand /\ m \in Nat /\ m + 1 = n /\ (Len(p) + 1) + m <= MaxExpand
          /\ Len(p) + 1 <= MaxExpand
      BY <1>0, <2>1, <2>4 DEF Leads
    <3>2. c \in S /\ Above(y[1])[m + 1] = c /\ y[2] = p \o Trail(y[1])[m + 1]
      BY <2>1, <3>1 DEF Leads
    <3> HIDE DEF m, c
    <3>3. c \in Dirs /\ Above(y[1])[m] \in Children(c) /\ y[2] = At(c, p)[2] \o Trail(y[1])[m]
      BY <1>s, <3>1, <3>2
    <3>4. At(c, p)[1] = c /\ Len(At(c, p)[2]) = Len(p) + 1
      BY <3>2, AtIs
    <3>5. At(c, p) \in Waits(new)
      BY <3>1, <3>2, <3>3, <3>4 DEF Waits, Listed
    <3>6. Leads(Children(c), At(c, p)[2], y, m)
      BY <3>1, <3>3, <3>4 DEF Leads
    <3>7. y \in Reach(Children(c), At(c, p)[2])
      BY <2>2, <3>1, <3>6 DEF Reach
    <3> HIDE DEF new
    <3>8. y \in BelowAll(Waits(new))
      BY <3>4, <3>5, <3>7 DEF BelowAll
    <3> QED BY <3>8
  <2> QED BY <2>3, <2>4
<1>2. ASSUME NEW y, y \in Kept(new) PROVE y \in Reach(S, p)
  <2>1. PICK c \in S : y = At(c, p) /\ y[1] \notin Dirs
    BY <1>2 DEF Kept, Listed
  <2>2. y[1] = c /\ y[2] = p \o <<account[c].name>> /\ y \in FilesAt
    BY <2>1, AtIs DEF FilesAt
  <2>3. Above(c)[0] = c /\ Trail(c)[0] = <<account[c].name>>
    BY AboveSteps, TrailSteps
  <2>4. Leads(S, p, y, 0) /\ 0 \in 0..MaxExpand
    BY <1>0, <2>2, <2>3 DEF Leads
  <2> QED BY <2>2, <2>4 DEF Reach
<1>3. ASSUME NEW y, y \in BelowAll(Waits(new)) PROVE y \in Reach(S, p)
  <2>1. PICK x \in Waits(new) : y \in Reach(Children(x[1]), x[2])
    BY <1>3 DEF BelowAll
  <2>2. PICK c \in S : x = At(c, p)
    BY DEF Waits, Listed
  <2>3. x[1] = c /\ x[2] = At(c, p)[2] /\ Len(At(c, p)[2]) = Len(p) + 1
    BY <2>2, AtIs
  <2>4. PICK m \in 0..MaxExpand : Leads(Children(c), At(c, p)[2], y, m)
    BY <2>1, <2>3 DEF Reach
  <2>5. m \in Nat /\ m + 1 \in 0..MaxExpand /\ Len(p) + (m + 1) <= MaxExpand
    BY <1>0, <2>3, <2>4 DEF Leads
  <2>6. Above(y[1])[m] \in Children(c) /\ y[2] = At(c, p)[2] \o Trail(y[1])[m]
    BY <2>4 DEF Leads
  <2>7. Above(y[1])[m + 1] = c
    BY <2>5, <2>6, AboveSteps DEF Children, Up
  <2>8. y[2] = p \o Trail(y[1])[m + 1]
    BY <1>s, <2>5, <2>6, <2>7
  <2>9. Leads(S, p, y, m + 1)
    BY <2>5, <2>7, <2>8 DEF Leads
  <2>10. y \in FilesAt
    BY <2>1 DEF Reach
  <2> QED BY <2>5, <2>9, <2>10 DEF Reach
<1> QED BY <1>1, <1>2, <1>3

-----------------------------------------------------------------------------
(* The inductive invariant                                                 *)

Walks == [completed : BOOLEAN, saveDir : SaveDirs, route : Routes,
          pending : SUBSET (Dirs \X Seq(Names)),
          found : SUBSET (Ids \X Seq(Names))]

\* x is an entry at or below a hit, and its path is the one from there.
Sound(x) == \E n \in 0..MaxExpand : Above(x[1])[n] \in Hits /\ x[2] = Trail(x[1])[n]

\* What each way of looking has to lead to.
Tops(route) ==
    IF route = "file" THEN {task.file}
    ELSE IF route = "dir" THEN {e \in Hits : account[e].parent = task.dir} ELSE Hits

\* The ways that come before route yield nothing.
Passed(route) ==
    /\ route = "file" => task.file # NoId
    /\ route # "file" /\ task.file # NoId => Leaves(Tops("file")) = {}
    /\ route = "search" => Leaves(Tops("dir")) = {}

\* Where a request is says what its locals v are ...
Placed(p, v) ==
    /\ p \in {"stat", "getDir"} => task.dir \in Dirs
    /\ p \in {"query", "stat", "getDir"} => v.found = {}
    /\ p \in Routes => v.route = p /\ v.found = {} /\ v.completed
    /\ p = "expand" => v.completed
    /\ p = "file" => task.file # NoId
    /\ \A x \in v.pending : Len(x[2]) <= MaxExpand

\* ... what it holds is the task's ...
Own(v) == \A x \in v.found \cup v.pending : Sound(x)

\* ... and if nothing went wrong, what it found and what waits to be listed
\* make up what this way of looking leads to.
Whole(p, v) ==
    /\ p \in Routes \cup {"expand"} => Passed(v.route)
    /\ p = "expand" => v.found \cup BelowAll(v.pending) = Leaves(Tops(v.route))
    /\ p = "store" => v.found = FilesOfTask

Fits(p, v, f) ==
    /\ Placed(p, v)
    /\ changes = 0 => Own(v)
    /\ ~f /\ v.completed => Whole(p, v)

Fit == {t \in Pcs \X Walks \X BOOLEAN : Fits(t[1], t[2], t[3])}

\* What the record may hold of files while the account does not change.
SoundFiles ==
    {f \in Infos : /\ Sound(<<f.id, f.relative>>)
                   /\ f.path = PathUnderSave(f.relative)}

Inv ==
    /\ TypeOK
    /\ \A w \in Workers : <<pc[w], walk[w], flawed[w]>> \in Fit
    /\ changes = 0 => stored.files \subseteq SoundFiles

-----------------------------------------------------------------------------
(* What an unchanged account and task keep                                 *)

LEMMA PathsUnmoved ==
    ASSUME account' = account
    PROVE  \A e : Above(e)' = Above(e) /\ Trail(e)' = Trail(e)
<1>1. \A e : Above(e)' = Above(e)
  BY Zenon DEF Above, Up
<1>2. \A e : Trail(e)' = Trail(e)
  BY <1>1 DEF Trail
<1> QED BY <1>1, <1>2

LEMMA ListsUnmoved ==
    ASSUME account' = account, task' = task
    PROVE  /\ Hits' = Hits
           /\ \A S : Leaves(S)' = Leaves(S)
           /\ \A S, p : Reach(S, p)' = Reach(S, p)
           /\ \A d : Children(d)' = Children(d)
<1>1. \A e : Exists(e)' = Exists(e)
  BY PathsUnmoved DEF Exists
<1>2. Hits' = Hits
  BY <1>1 DEF Hits, Matches
<1>3. \A S : Leaves(S)' = Leaves(S)
  BY PathsUnmoved DEF Leaves
<1>4. \A S, p : Reach(S, p)' = Reach(S, p)
  <2>1. \A S, p, y, n : Leads(S, p, y, n)' = Leads(S, p, y, n)
    BY PathsUnmoved DEF Leads
  <2> QED BY <2>1 DEF Reach, FilesAt
<1>5. \A d : Children(d)' = Children(d)
  BY DEF Children
<1> QED BY <1>2, <1>3, <1>4, <1>5

LEMMA FitUnmoved ==
    ASSUME account' = account, task' = task, changes' = changes
    PROVE  Fit' = Fit
<1>1. \A x : Sound(x)' = Sound(x)
  BY PathsUnmoved, ListsUnmoved DEF Sound
<1>2. \A r : Tops(r)' = Tops(r)
  BY ListsUnmoved DEF Tops
<1>3. FilesOfTask' = FilesOfTask
  BY ListsUnmoved DEF FilesOfTask
<1>4. \A r : Leaves(Tops(r))' = Leaves(Tops(r))
  BY ListsUnmoved, <1>2
<1>5. \A r : Passed(r)' = Passed(r)
  BY <1>4 DEF Passed
<1>6. \A q : BelowAll(q)' = BelowAll(q)
  BY ListsUnmoved DEF BelowAll
<1>7. \A p, v : Whole(p, v)' = Whole(p, v)
  BY <1>3, <1>4, <1>5, <1>6 DEF Whole
<1>8. \A v : Own(v)' = Own(v)
  BY <1>1 DEF Own
<1>9. \A p, v : Placed(p, v)' = Placed(p, v)
  BY DEF Placed
<1>10. \A p, v, f : Fits(p, v, f)' = Fits(p, v, f)
  BY <1>7, <1>8, <1>9 DEF Fits
<1> QED BY <1>10 DEF Fit

LEMMA SoundFilesUnmoved ==
    ASSUME account' = account, task' = task, save' = save
    PROVE  SoundFiles' = SoundFiles
<1>1. \A x : Sound(x)' = Sound(x)
  BY PathsUnmoved, ListsUnmoved DEF Sound
<1>2. \A q : PathUnderSave(q)' = PathUnderSave(q)
  BY DEF PathUnderSave
<1> QED BY <1>1, <1>2 DEF SoundFiles

-----------------------------------------------------------------------------
(* What the ways of looking lead to                                        *)

LEMMA ParentExists ==
    ASSUME NEW e \in Ids, Exists(e)
    PROVE  Exists(account[e].parent)
<1>1. PICK n \in Nat : AtHeight(e, n)
  BY ExistsAtHeight
<1>2. Above(account[e].parent)[n] = RootId
  BY <1>1, AboveParent DEF AtHeight
<1>3. n \in Heights
  <2>1. n + 1 \in Heights
    BY <1>1, HeightBounded
  <2>2. Cardinality(Ids) \in Nat
    BY IdsAssumption, FS_CardinalityType
  <2> QED BY <2>1, <2>2 DEF Heights
<1> QED BY <1>2, <1>3 DEF Exists

(* A task without a directory has nothing in it.                           *)
LEMMA NoDirNothing ==
    ASSUME Typed, task.dir = NoId
    PROVE  Leaves(Tops("dir")) = {}
<1>1. \A e \in Hits : account[e].parent # NoId
  BY ParentExists, ExistsInside, IdsAssumption DEF Hits
<1>2. Tops("dir") = {}
  BY <1>1 DEF Tops
<1>3. Leaves({}) = {}
  BY LeavesAreReached, ReachNothing
<1> QED BY <1>2, <1>3

LEMMA HitsListed ==
    ASSUME Listable(task.dir), task.dir # NoId
    PROVE  {e \in Children(task.dir) : Matches(e)} = Tops("dir")
<1>1. Exists(task.dir)
  BY RootExists DEF Listable
<1>2. ASSUME NEW e \in Children(task.dir) PROVE e \in Ids /\ Exists(e)
  <2>1. e \in Ids /\ account[e].parent = task.dir
    BY <1>2 DEF Children
  <2>2. Above(e)[0 + 1] = task.dir /\ 0 + 1 = 1 /\ 1 \in Nat
    BY <2>1, AboveSteps DEF Up
  <2>3. Exists(Above(e)[1])
    BY <1>1, <2>2
  <2> QED BY <2>1, <2>2, <2>3, ExistsBelow, Zenon
<1> QED BY <1>2 DEF Tops, Hits, Children

(* The first way that yields something yields the files of the task; so    *)
(* does the last, if none does.                                            *)
LEMMA RouteYields ==
    ASSUME NEW route \in Routes, Passed(route),
           Leaves(Tops(route)) # {} \/ route = "search"
    PROVE  FilesOfTask = Leaves(Tops(route))
<1>1. Tops("file") = {task.file} /\ Tops("search") = Hits
      /\ Tops("dir") = {e \in Hits : account[e].parent = task.dir}
  BY DEF Tops
<1>2. FilesOfTask = LET byFile == IF task.file = NoId THEN {} ELSE Leaves(Tops("file"))
                        byDir == Leaves(Tops("dir"))
                    IN  IF byFile # {} THEN byFile
                        ELSE IF byDir # {} THEN byDir ELSE Leaves(Tops("search"))
  BY <1>1 DEF FilesOfTask
<1>3. CASE route = "file"
  BY <1>2, <1>3 DEF Passed
<1>4. CASE route = "dir"
  BY <1>2, <1>4 DEF Passed
<1>5. CASE route = "search"
  BY <1>2, <1>5 DEF Passed
<1> QED BY <1>3, <1>4, <1>5 DEF Routes

(* Entries that match are sound to start from, ...                         *)
LEMMA HitsSound ==
    ASSUME Typed, NEW S, S \subseteq Hits
    PROVE  \A x \in Listed(S, <<>>) : Sound(x)
<1> SUFFICES ASSUME NEW c \in S PROVE Sound(At(c, <<>>))
  BY DEF Listed
<1>1. c \in Ids /\ c \in Hits
  BY DEF Hits
<1>2. At(c, <<>>)[1] = c /\ At(c, <<>>)[2] = <<account[c].name>>
  <2>1. <<>> \in Seq(Names) /\ account[c].name \in Names
    BY <1>1 DEF Typed, Entries
  <2>2. <<>> \o <<account[c].name>> = <<account[c].name>>
    BY <2>1
  <2> QED BY <1>1, <2>1, <2>2, AtIs
<1>3. Above(c)[0] = c /\ Trail(c)[0] = <<account[c].name>> /\ 0 \in 0..MaxExpand
  BY AboveSteps, TrailSteps, BoundsAssumption
<1> QED BY <1>1, <1>2, <1>3 DEF Sound

(* ... and so is what a directory has that waits to be listed.             *)
LEMMA ListingSound ==
    ASSUME Typed, NEW x \in Dirs \X Seq(Names), Sound(x), Len(x[2]) <= MaxExpand
    PROVE  \A y \in Listed(Children(x[1]), x[2]) : Sound(y)
<1> SUFFICES ASSUME NEW c \in Children(x[1]) PROVE Sound(At(c, x[2]))
  BY DEF Listed
<1>0. MaxExpand \in Nat
  BY BoundsAssumption
<1>1. c \in Ids /\ account[c].parent = x[1] /\ x[2] \in Seq(Names)
  BY DEF Children
<1>2. PICK n \in 0..MaxExpand : Above(x[1])[n] \in Hits /\ x[2] = Trail(x[1])[n]
  BY DEF Sound
<1>3. n \in Nat /\ Above(x[1])[n] \in Ids
  BY <1>0, <1>2 DEF Hits
<1>4. Len(x[2]) = n + 1
  BY <1>2, <1>3, TrailTyped
<1>5. n + 1 \in 0..MaxExpand
  BY <1>0, <1>3, <1>4
<1>6. Above(c)[n + 1] = Above(x[1])[n]
  BY <1>1, <1>3, AboveParent
<1>7. Trail(c)[n + 1] = Append(Trail(x[1])[n], account[c].name)
  BY <1>1, <1>3, <1>6, TrailParent
<1>8. At(c, x[2])[1] = c /\ At(c, x[2])[2] = Trail(c)[n + 1]
  BY <1>2, <1>7 DEF At
<1> QED BY <1>2, <1>5, <1>6, <1>8 DEF Sound

-----------------------------------------------------------------------------
(* A request's steps                                                       *)

\* The request of w goes on, and where it gets fits what it holds.
Goes(w) ==
    \E to \in Pcs, locals \in Walks, ok \in BOOLEAN :
        /\ Go(w, to, locals, ok)
        /\ Fits(to, locals, flawed[w] \/ ~ok)

\* The request of w is as the invariant has it.
Here(w) ==
    /\ Typed /\ task \in CloudTasks
    /\ walk[w] \in Walks /\ flawed[w] \in BOOLEAN
    /\ Fits(pc[w], walk[w], flawed[w])

LEMMA InvHere ==
    ASSUME Inv, NEW w \in Workers
    PROVE  Here(w)
<1>1. <<pc[w], walk[w], flawed[w]>> \in Fit
  BY DEF Inv
<1>2. walk[w] \in Walks /\ flawed[w] \in BOOLEAN /\ Fits(pc[w], walk[w], flawed[w])
  BY <1>1 DEF Fit
<1>3. Typed /\ task \in CloudTasks
  BY DEF Inv, TypeOK, Typed
<1> QED BY <1>2, <1>3 DEF Here

LEMMA LaterRoute ==
    ASSUME NEW route \in {"file", "dir"}
    PROVE  /\ Later(route) \in Routes \ {"file"}
           /\ Later(route) = "dir" => route = "file"
           /\ Later(route) = "search" => route = "dir" \/ task.dir = NoId
  BY DEF Later, Routes

LEMMA LocateGoes ==
    ASSUME NEW w, Here(w), NEW locals \in Walks, NEW ok \in BOOLEAN,
           locals.found = {}, \A x \in locals.pending : Len(x[2]) <= MaxExpand,
           changes = 0 => Own(locals),
           Locate(w, locals, ok)
    PROVE  Goes(w)
<1> DEFINE f == flawed[w] \/ ~ok
<1>1. CASE ~locals.completed
  <2>1. Go(w, "store", locals, ok)
    BY <1>1 DEF Locate
  <2>2. Fits("store", locals, f)
    BY <1>1 DEF Fits, Placed, Routes
  <2> QED BY <2>1, <2>2 DEF Goes, Pcs
<1>2. CASE locals.completed
  <2> DEFINE route == IF task.file # NoId THEN "file" ELSE Later("file")
             next == [locals EXCEPT !.route = route]
  <2>1. route \in Routes /\ (route = "file" <=> task.file # NoId)
        /\ (route = "search" => task.dir = NoId)
    BY LaterRoute DEF Routes
  <2>2. Go(w, route, next, ok)
    BY <1>2 DEF Locate, Try
  <2>3. Passed(route)
    <3>1. Typed
      BY DEF Here
    <3> HIDE DEF route
    <3> QED BY <2>1, <3>1, NoDirNothing DEF Passed
  <2>4. next \in Walks /\ next.route = route /\ next.found = {} /\ next.completed
        /\ next.pending = locals.pending
    <3> HIDE DEF route
    <3> QED BY <1>2, <2>1 DEF Walks
  <2> HIDE DEF route, next
  <2>5. changes = 0 => Own(next)
    BY <2>4 DEF Own
  <2>6. Placed(route, next)
    BY <2>1, <2>4 DEF Placed, Routes
  <2>7. Whole(route, next)
    BY <2>1, <2>3, <2>4 DEF Whole, Routes
  <2>8. Fits(route, next, f)
    BY <2>5, <2>6, <2>7 DEF Fits
  <2> QED BY <2>1, <2>2, <2>4, <2>8 DEF Goes, Pcs
<1> QED BY <1>1, <1>2

LEMMA NextRouteGoes ==
    ASSUME NEW w, Here(w), pc[w] \in Routes \cup {"expand"}, NEW ok \in BOOLEAN,
           walk[w].found = {},
           ~flawed[w] /\ ok => Leaves(Tops(walk[w].route)) = {},
           NextRoute(w, ok)
    PROVE  Goes(w)
<1> DEFINE v == walk[w]
           f == flawed[w] \/ ~ok
<1>1. v \in Walks /\ v.route \in Routes /\ flawed[w] \in BOOLEAN /\ Fits(pc[w], v, flawed[w])
  BY DEF Here, Walks
<1>2. v.completed /\ (\A x \in v.pending : Len(x[2]) <= MaxExpand) /\ (changes = 0 => Own(v))
      /\ (~flawed[w] => Passed(v.route))
  BY <1>1 DEF Fits, Placed, Whole
<1>3. CASE v.route = "search"
  <2>1. Go(w, "store", v, ok)
    BY <1>3 DEF NextRoute
  <2>2. ~f => FilesOfTask = {}
    BY <1>1, <1>2, <1>3, RouteYields
  <2>3. Fits("store", v, f)
    BY <1>2, <2>2 DEF Fits, Placed, Whole, Routes
  <2> QED BY <1>1, <2>1, <2>3 DEF Goes, Pcs
<1>4. CASE v.route # "search"
  <2> DEFINE route == Later(v.route)
             next == [v EXCEPT !.route = route]
  <2>1. v.route \in {"file", "dir"}
    BY <1>1, <1>4 DEF Routes
  <2>2. route \in Routes \ {"file"} /\ (route = "dir" => v.route = "file")
        /\ (route = "search" => v.route = "dir" \/ task.dir = NoId)
    BY <2>1, LaterRoute
  <2>3. Go(w, route, next, ok)
    BY <1>4 DEF NextRoute, Try
  <2> HIDE DEF route
  <2>4. next \in Walks /\ next.route = route /\ next.found = {} /\ next.completed
        /\ next.pending = v.pending
    BY <1>1, <1>2, <2>2 DEF Walks
  <2> HIDE DEF next
  <2>5. ~f => Passed(route)
    <3>1. Typed
      BY DEF Here
    <3>2. ~f => Leaves(Tops(v.route)) = {} /\ Passed(v.route)
      BY <1>2
    <3> QED BY <2>1, <2>2, <3>1, <3>2, NoDirNothing DEF Passed
  <2>6. Placed(route, next) /\ (changes = 0 => Own(next))
    BY <1>2, <2>2, <2>4 DEF Placed, Own, Routes
  <2>7. Fits(route, next, f)
    BY <2>2, <2>4, <2>5, <2>6 DEF Fits, Whole, Routes
  <2> QED BY <2>2, <2>3, <2>4, <2>7 DEF Goes, Pcs
<1> QED BY <1>3, <1>4

LEMMA BelowUnion ==
    ASSUME NEW q, NEW r
    PROVE  BelowAll(q \cup r) = BelowAll(q) \cup BelowAll(r)
  BY DEF BelowAll

(* The recursion over the entries S of one listing, whose directory is p,  *)
(* with rest still waiting.                                                *)
LEMMA ExpandGoes ==
    ASSUME NEW w, Here(w), pc[w] \in Routes \cup {"expand"}, NEW ok \in BOOLEAN,
           NEW S, S \subseteq Ids, NEW p \in Seq(Names), Len(p) <= MaxExpand,
           NEW rest \in SUBSET (Dirs \X Seq(Names)),
           \A x \in rest : Len(x[2]) <= MaxExpand,
           changes = 0 => \A x \in rest \cup Listed(S, p) : Sound(x),
           ~flawed[w] /\ ok =>
               walk[w].found \cup (Reach(S, p) \cup BelowAll(rest)) = Leaves(Tops(walk[w].route)),
           Expand(w, Listed(S, p), rest, ok)
    PROVE  Goes(w)
<1> DEFINE v == walk[w]
           f == flawed[w] \/ ~ok
           new == Listed(S, p)
           pending == rest \cup Waits(new)
           found == v.found \cup Kept(new)
           next == [v EXCEPT !.pending = pending, !.found = found]
<1>1. v \in Walks /\ v.route \in Routes /\ v.found \in SUBSET (Ids \X Seq(Names))
      /\ flawed[w] \in BOOLEAN /\ Fits(pc[w], v, flawed[w]) /\ Typed
  BY DEF Here, Walks
<1>2. v.completed /\ (changes = 0 => Own(v)) /\ (~flawed[w] => Passed(v.route))
  BY <1>1 DEF Fits, Placed, Whole
<1>3. new \in SUBSET (Ids \X Seq(Names))
  <2>1. \A c \in S : At(c, p) \in Ids \X Seq(Names)
    BY <1>1, AtIs
  <2>2. \A x \in new : \E c \in S : x = At(c, p)
    BY DEF Listed
  <2> QED BY <2>1, <2>2
<1>4. Reach(S, p) = Kept(new) \cup BelowAll(Waits(new))
  BY <1>1, ExpandReaches
<1> HIDE DEF new
<1>5. found \in SUBSET (Ids \X Seq(Names)) /\ pending \in SUBSET (Dirs \X Seq(Names))
      /\ \A x \in pending : Len(x[2]) <= MaxExpand
  BY <1>1, <1>3 DEF Kept, Waits
<1>6. ~f => found \cup BelowAll(pending) = Leaves(Tops(v.route))
  <2>1. BelowAll(pending) = BelowAll(rest) \cup BelowAll(Waits(new))
    BY BelowUnion
  <2>2. found \cup BelowAll(pending) = v.found \cup (Reach(S, p) \cup BelowAll(rest))
    BY <1>4, <2>1
  <2> QED BY <2>2
<1>7. Expand(w, new, rest, ok)
  BY DEF new
<1>8. CASE pending = {} /\ found = {}
  <2>1. NextRoute(w, ok)
    BY <1>7, <1>8 DEF Expand, Waits, Kept
  <2>2. v.found = {} /\ BelowAll(pending) = {}
    BY <1>8 DEF BelowAll
  <2>3. ~flawed[w] /\ ok => Leaves(Tops(v.route)) = {}
    BY <1>6, <1>8, <2>2
  <2> QED BY <2>1, <2>2, <2>3, NextRouteGoes
<1>9. CASE ~(pending = {} /\ found = {})
  <2> DEFINE to == IF pending = {} THEN "store" ELSE "expand"
  <2>1. Go(w, to, next, ok)
    BY <1>7, <1>9 DEF Expand, Waits, Kept
  <2>2. \A x \in Kept(new) \cup Waits(new) : x \in new
    BY DEF Kept, Waits
  <2> HIDE DEF pending, found
  <2>3. next \in Walks /\ next.route = v.route /\ next.completed
        /\ next.found = found /\ next.pending = pending
    BY <1>1, <1>2, <1>5 DEF Walks
  <2> HIDE DEF next
  <2>4. changes = 0 => Own(next)
    BY <1>2, <2>2, <2>3 DEF Own, pending, found, new
  <2>5. to \in {"store", "expand"} /\ (to = "store" <=> pending = {})
    OBVIOUS
  <2> HIDE DEF to
  <2>6. Placed(to, next)
    BY <1>5, <2>3, <2>5 DEF Placed, Routes
  <2>7. ~f => Whole(to, next)
    <3> SUFFICES ASSUME ~f PROVE Whole(to, next)
      OBVIOUS
    <3>1. Passed(v.route) /\ found \cup BelowAll(pending) = Leaves(Tops(v.route))
      BY <1>2, <1>6
    <3>2. CASE to = "expand"
      BY <2>3, <3>1, <3>2 DEF Whole
    <3>3. CASE to = "store"
      <4>1. BelowAll(pending) = {} /\ found # {}
        BY <1>9, <2>5, <3>3 DEF BelowAll
      <4>2. found = FilesOfTask
        BY <1>1, <3>1, <4>1, RouteYields
      <4> QED BY <2>3, <3>3, <4>2 DEF Whole, Routes
    <3> QED BY <2>5, <3>2, <3>3
  <2>8. Fits(to, next, f)
    BY <2>4, <2>6, <2>7 DEF Fits
  <2> QED BY <2>1, <2>3, <2>5, <2>8 DEF Goes, Pcs
<1> QED BY <1>8, <1>9

-----------------------------------------------------------------------------
(* Each step of a request                                                  *)

LEMMA BlankFits ==
    /\ Blank \in Walks /\ Blank.found = {} /\ Blank.pending = {} /\ ~Blank.completed
    /\ \A p \in {"idle", "query"}, f \in BOOLEAN : Fits(p, Blank, f)
<1>1. Blank \in Walks /\ Blank.found = {} /\ Blank.pending = {} /\ ~Blank.completed
  BY DEF Blank, Walks, SaveDirs, Routes
<1>2. \A p \in {"idle", "query"}, f \in BOOLEAN : Fits(p, Blank, f)
  BY <1>1 DEF Fits, Placed, Own, Routes
<1> QED BY <1>1, <1>2

\* The directory of the task is known to be one.
LEMMA HereFacts ==
    ASSUME NEW w, Here(w)
    PROVE  /\ walk[w] \in Walks /\ flawed[w] \in BOOLEAN
           /\ walk[w].pending \in SUBSET (Dirs \X Seq(Names))
           /\ \A x \in walk[w].pending : Len(x[2]) <= MaxExpand
           /\ changes = 0 => Own(walk[w])
           /\ pc[w] \in Routes => walk[w].found = {} /\ walk[w].route = pc[w]
           /\ pc[w] \in {"query", "stat", "getDir"} => walk[w].found = {}
           /\ pc[w] \in {"stat", "getDir"} => task.dir \in Dirs
           /\ pc[w] \in Routes \cup {"expand"} => walk[w].completed
           /\ pc[w] = "file" => task.file \in Ids
           /\ task.dir \in Dirs \cup {RootId, NoId}
  BY DEF Here, Fits, Placed, Walks, CloudTasks

LEMMA LookupGoes ==
    ASSUME NEW w, Here(w), completed \in BOOLEAN,
           Query(w) \/ QueryFailed(w) \/ Stat(w) \/ StatFailed(w) \/ GetDir(w) \/ GetDirFailed(w)
    PROVE  Goes(w)
<1> DEFINE v == walk[w]
           With(dir) == [v EXCEPT !.saveDir = dir]
<1>0. v \in Walks /\ flawed[w] \in BOOLEAN /\ Typed /\ TRUE \in BOOLEAN /\ FALSE \in BOOLEAN
      /\ (\A x \in v.pending : Len(x[2]) <= MaxExpand) /\ (changes = 0 => Own(v))
  BY HereFacts DEF Here
<1>1. ASSUME NEW u \in Walks, u.pending = v.pending, u.found = v.found, v.found = {},
             NEW ok \in BOOLEAN, Locate(w, u, ok)
      PROVE  Goes(w)
  <2>1. u.found = {} /\ (\A x \in u.pending : Len(x[2]) <= MaxExpand) /\ (changes = 0 => Own(u))
    BY <1>0, <1>1 DEF Own
  <2> QED BY <1>1, <2>1, LocateGoes
<1>2. ASSUME NEW dir \in SaveDirs
      PROVE  With(dir) \in Walks /\ With(dir).pending = v.pending /\ With(dir).found = v.found
  BY <1>0 DEF Walks
<1>3. [id |-> RootId, path |-> <<>>] \in SaveDirs
  BY DEF SaveDirs
<1>4. CASE Query(w)
  <2> DEFINE u == [v EXCEPT !.completed = completed]
             r == [u EXCEPT !.saveDir = [id |-> RootId, path |-> <<>>]]
  <2>1. v.found = {} /\ task.dir \in Dirs \cup {RootId, NoId}
    BY <1>4, HereFacts DEF Query
  <2>2. u \in Walks /\ u.pending = v.pending /\ u.found = v.found
    BY <1>0 DEF Walks
  <2>3. r \in Walks /\ r.pending = v.pending /\ r.found = v.found
    BY <1>3, <2>2 DEF Walks
  <2>4. CASE task.dir = NoId
    <3>1. Locate(w, u, TRUE)
      BY <1>4, <2>4, IdsAssumption DEF Query
    <3> HIDE DEF u
    <3> QED BY <1>1, <2>1, <2>2, <3>1
  <2>5. CASE task.dir = RootId
    <3>1. Locate(w, r, TRUE)
      BY <1>4, <2>5, IdsAssumption DEF Query
    <3> HIDE DEF r
    <3> QED BY <1>1, <2>1, <2>3, <3>1
  <2>6. CASE task.dir \in Dirs
    <3>1. Go(w, "stat", u, TRUE)
      BY <1>4, <2>6, IdsAssumption DEF Query
    <3> HIDE DEF u
    <3>2. Placed("stat", u) /\ (changes = 0 => Own(u))
      BY <1>0, <2>1, <2>2, <2>6 DEF Placed, Own, Routes
    <3>3. Fits("stat", u, flawed[w] \/ ~TRUE)
      BY <3>2 DEF Fits, Whole, Routes
    <3> QED BY <2>2, <3>1, <3>3 DEF Goes, Pcs
  <2> QED BY <2>1, <2>4, <2>5, <2>6
<1>5. CASE QueryFailed(w)
  BY <1>0, <1>5, BlankFits DEF QueryFailed, Goes, Pcs
<1>6. CASE Stat(w)
  <2> DEFINE dir == [id |-> task.dir, path |-> FullPath(task.dir)]
  <2>1. v.found = {} /\ task.dir \in Dirs /\ Exists(task.dir)
    BY <1>6, HereFacts DEF Stat
  <2>2. dir \in SaveDirs
    BY <1>0, <2>1, FullPathTyped, IdsAssumption DEF SaveDirs
  <2>3. Locate(w, With(dir), TRUE)
    BY <1>6 DEF Stat
  <2> HIDE DEF dir
  <2> QED BY <1>1, <1>2, <2>1, <2>2, <2>3
<1>7. CASE StatFailed(w)
  <2>1. v.found = {} /\ task.dir \in Dirs /\ Go(w, "getDir", v, TRUE)
    BY <1>7, HereFacts DEF StatFailed
  <2>2. Placed("getDir", v)
    BY <1>0, <2>1 DEF Placed, Routes
  <2>3. Fits("getDir", v, flawed[w] \/ ~TRUE)
    BY <1>0, <2>2 DEF Fits, Whole, Routes
  <2> QED BY <1>0, <2>1, <2>3 DEF Goes, Pcs
<1>8. CASE GetDir(w)
  <2> DEFINE dir == [id |-> task.dir, path |-> <<account[task.dir].name>>]
  <2>1. v.found = {} /\ task.dir \in Dirs
    BY <1>8, HereFacts DEF GetDir
  <2>2. dir \in SaveDirs
    <3>1. account[task.dir].name \in Names /\ task.dir \in Ids
      BY <1>0, <2>1, IdsAssumption DEF Typed, Entries
    <3> QED BY <3>1 DEF SaveDirs
  <2>3. Locate(w, With(dir), TRUE)
    BY <1>8 DEF GetDir
  <2> HIDE DEF dir
  <2> QED BY <1>1, <1>2, <2>1, <2>2, <2>3
<1>9. CASE GetDirFailed(w)
  <2> DEFINE dir == [id |-> RootId, path |-> <<>>]
  <2>1. v.found = {}
    BY <1>9, HereFacts DEF GetDirFailed
  <2>2. Locate(w, With(dir), TRUE)
    BY <1>9 DEF GetDirFailed
  <2> HIDE DEF dir
  <2> QED BY <1>1, <1>2, <1>3, <2>1, <2>2 DEF dir
<1> QED BY <1>4, <1>5, <1>6, <1>7, <1>8, <1>9

LEMMA NothingListed ==
    ASSUME NEW p
    PROVE  Listed({}, p) = {} /\ Reach({}, p) = {} /\ BelowAll({}) = {}
<1>1. Listed({}, p) = {}
  BY DEF Listed
<1>2. BelowAll({}) = {}
  BY DEF BelowAll
<1> QED BY <1>1, <1>2, ReachNothing

LEMMA LookGoes ==
    ASSUME NEW w, Here(w),
           GetFile(w) \/ ListDir(w) \/ RouteFailed(w) \/ Search(w) \/ SearchFailed(w)
    PROVE  Goes(w)
<1> DEFINE v == walk[w]
<1>0. flawed[w] \in BOOLEAN /\ Typed /\ TRUE \in BOOLEAN /\ FALSE \in BOOLEAN
      /\ (pc[w] \in Routes => v.found = {} /\ v.route = pc[w])
  BY HereFacts DEF Here
<1>p. <<>> \in Seq(Names) /\ Len(<<>>) <= MaxExpand
  BY BoundsAssumption
<1>h. Hits \subseteq Ids
  BY DEF Hits
<1>1. ASSUME NEW S, S \subseteq Hits, NEW ok \in BOOLEAN, pc[w] \in Routes,
             ok => S = Tops(pc[w]), Expand(w, Listed(S, <<>>), {}, ok)
      PROVE  Goes(w)
  <2>1. changes = 0 => \A x \in {} \cup Listed(S, <<>>) : Sound(x)
    BY <1>0, <1>1, HitsSound
  <2>2. ok => v.found \cup (Reach(S, <<>>) \cup BelowAll({})) = Leaves(Tops(v.route))
    BY <1>0, <1>1, <1>h, LeavesAreReached, NothingListed
  <2>3. /\ S \subseteq Ids /\ {} \in SUBSET (Dirs \X Seq(Names))
        /\ \A x \in {} : Len(x[2]) <= MaxExpand
    BY <1>h, <1>1
  <2>4. pc[w] \in Routes \cup {"expand"}
    BY <1>1
  <2> QED BY <1>p, <1>1, <2>1, <2>2, <2>3, <2>4, ExpandGoes
<1>2. CASE GetFile(w)
  <2>1. pc[w] = "file" /\ task.file \in Ids /\ Exists(task.file)
    BY <1>2, HereFacts DEF GetFile
  <2>2. {task.file} \subseteq Hits
    BY <2>1 DEF Hits, Matches
  <2>3. Expand(w, Listed({task.file}, <<>>), {}, TRUE)
    <3>1. Listed({task.file}, <<>>) = {At(task.file, <<>>)}
      BY DEF Listed
    <3> QED BY <1>2, <3>1 DEF GetFile
  <2>4. Tops(pc[w]) = {task.file}
    BY <2>1 DEF Tops
  <2> QED BY <1>0, <1>1, <2>1, <2>2, <2>3, <2>4 DEF Routes
<1>3. CASE ListDir(w)
  <2> DEFINE S == {e \in Children(task.dir) : Matches(e)}
  <2>1. pc[w] = "dir" /\ Listable(task.dir) /\ task.dir # NoId
    <3>1. task.dir # NoId
      <4>1. Listable(task.dir)
        BY <1>3 DEF ListDir
      <4> QED BY <4>1, IdsAssumption DEF Listable
    <3> QED BY <1>3, <3>1 DEF ListDir
  <2>2. S = Tops(pc[w]) /\ S \subseteq Hits
    <3>1. Tops("dir") \subseteq Hits
      BY DEF Tops
    <3> QED BY <2>1, <3>1, HitsListed
  <2>3. Expand(w, Listed(S, <<>>), {}, TRUE)
    BY <1>3 DEF ListDir, Listed
  <2> HIDE DEF S
  <2> QED BY <1>0, <1>1, <2>1, <2>2, <2>3 DEF Routes
<1>4. CASE RouteFailed(w)
  BY <1>0, <1>4, NextRouteGoes DEF RouteFailed, Routes
<1>5. CASE Search(w)
  <2>1. PICK hits \in SUBSET Hits : Expand(w, Listed(hits, <<>>), {}, hits = Hits)
    BY <1>5 DEF Search, Hits, Listed
  <2>2. pc[w] = "search" /\ Tops(pc[w]) = Hits
    BY <1>5 DEF Search, Tops
  <2>3. (hits = Hits) \in BOOLEAN
    OBVIOUS
  <2> QED BY <1>1, <2>1, <2>2, <2>3 DEF Routes
<1>6. CASE SearchFailed(w)
  BY <1>0, <1>6, NextRouteGoes DEF SearchFailed, Routes
<1> QED BY <1>2, <1>3, <1>4, <1>5, <1>6

LEMMA DeeperGoes ==
    ASSUME NEW w, Here(w), ExpandDir(w) \/ ExpandDirFailed(w)
    PROVE  Goes(w)
<1> DEFINE v == walk[w]
<1>0. flawed[w] \in BOOLEAN /\ Typed /\ TRUE \in BOOLEAN /\ FALSE \in BOOLEAN
  BY HereFacts DEF Here
<1>1. /\ v.pending \in SUBSET (Dirs \X Seq(Names))
      /\ \A x \in v.pending : Len(x[2]) <= MaxExpand
      /\ changes = 0 => Own(v)
  BY HereFacts
<1>2. ASSUME NEW x \in Current(w)
      PROVE  /\ x \in v.pending /\ x \in Dirs \X Seq(Names) /\ Len(x[2]) <= MaxExpand
             /\ v.pending \ {x} \in SUBSET (Dirs \X Seq(Names))
             /\ \A y \in v.pending \ {x} : Len(y[2]) <= MaxExpand
             /\ changes = 0 => Sound(x) /\ \A y \in v.pending \ {x} : Sound(y)
  BY <1>1 DEF Current, Own
<1>3. CASE ExpandDir(w)
  <2>1. PICK x \in Current(w) : Expand(w, Listed(Children(x[1]), x[2]), v.pending \ {x}, TRUE)
    BY <1>3 DEF ExpandDir, Listed
  <2>2. pc[w] = "expand"
    BY <1>3 DEF ExpandDir
  <2>3. Children(x[1]) \subseteq Ids /\ x[2] \in Seq(Names)
    BY <1>2 DEF Children
  <2>4. changes = 0 => \A y \in (v.pending \ {x}) \cup Listed(Children(x[1]), x[2]) : Sound(y)
    BY <1>0, <1>2, ListingSound
  <2>5. ~flawed[w] => v.found \cup BelowAll(v.pending) = Leaves(Tops(v.route))
    BY <2>2 DEF Here, Fits, Whole, Placed
  <2>6. BelowAll(v.pending) = Reach(Children(x[1]), x[2]) \cup BelowAll(v.pending \ {x})
    BY <1>2 DEF BelowAll
  <2> QED BY <1>0, <1>2, <2>1, <2>2, <2>3, <2>4, <2>5, <2>6, ExpandGoes
<1>4. CASE ExpandDirFailed(w)
  <2>1. PICK x \in Current(w) : Expand(w, {}, v.pending \ {x}, FALSE)
    BY <1>4 DEF ExpandDirFailed
  <2>2. pc[w] = "expand"
    BY <1>4 DEF ExpandDirFailed
  <2>3. <<>> \in Seq(Names) /\ Len(<<>>) <= MaxExpand /\ {} \subseteq Ids
    BY BoundsAssumption
  <2>4. changes = 0 => \A y \in (v.pending \ {x}) \cup Listed({}, <<>>) : Sound(y)
    BY <1>2, NothingListed
  <2>5. Expand(w, Listed({}, <<>>), v.pending \ {x}, FALSE)
    BY <2>1, NothingListed
  <2> QED BY <1>0, <1>2, <2>2, <2>3, <2>4, <2>5, ExpandGoes
<1> QED BY <1>3, <1>4

-----------------------------------------------------------------------------
(* The invariant is kept                                                   *)

LEMMA StepGoes ==
    ASSUME Inv, NEW w \in Workers, Step(w)
    PROVE  Goes(w) \/ Store(w)
<1>1. Here(w) /\ completed \in BOOLEAN
  BY InvHere DEF Inv, TypeOK
<1> QED BY <1>1, LookupGoes, LookGoes, DeeperGoes DEF Step

\* Only the request of w moves, to a place that fits, and the record stays.
LEMMA GoesKeeps ==
    ASSUME Inv, NEW w \in Workers, Goes(w)
    PROVE  Inv'
<1>1. PICK to \in Pcs, locals \in Walks, ok \in BOOLEAN :
          Go(w, to, locals, ok) /\ Fits(to, locals, flawed[w] \/ ~ok)
  BY DEF Goes
<1> DEFINE f == flawed[w] \/ ~ok
<1>2. UNCHANGED <<account, changes, task, completed, stored, save>>
  BY <1>1 DEF Go, cloudVars
<1>3. pc \in [Workers -> Pcs] /\ walk \in [Workers -> Walks] /\ flawed \in [Workers -> BOOLEAN]
  BY DEF Inv, TypeOK, Walks
<1>4. f \in BOOLEAN /\ pc' = [pc EXCEPT ![w] = to] /\ walk' = [walk EXCEPT ![w] = locals]
      /\ flawed' = [flawed EXCEPT ![w] = f]
  BY <1>1, <1>3 DEF Go
<1>5. pc' \in [Workers -> Pcs] /\ walk' \in [Workers -> Walks] /\ flawed' \in [Workers -> BOOLEAN]
  BY <1>3, <1>4
<1>6. TypeOK'
  BY <1>2, <1>5 DEF Inv, TypeOK, Walks
<1>7. Fit' = Fit /\ SoundFiles' = SoundFiles
  BY <1>2, FitUnmoved, SoundFilesUnmoved
<1>8. <<to, locals, f>> \in Fit
  BY <1>1, <1>4 DEF Fit
<1>9. \A u \in Workers : <<pc'[u], walk'[u], flawed'[u]>> \in Fit
  BY <1>3, <1>4, <1>8 DEF Inv
<1> QED BY <1>2, <1>6, <1>7, <1>9 DEF Inv

LEMMA AskKeeps ==
    ASSUME Inv, NEW w \in Workers, Ask(w)
    PROVE  Inv'
<1>1. UNCHANGED <<account, changes, task, completed, stored, save>>
  BY DEF Ask, cloudVars
<1>2. pc \in [Workers -> Pcs] /\ walk \in [Workers -> Walks] /\ flawed \in [Workers -> BOOLEAN]
  BY DEF Inv, TypeOK, Walks
<1>3. pc' = [pc EXCEPT ![w] = "query"] /\ walk' = [walk EXCEPT ![w] = Blank]
      /\ flawed' = [flawed EXCEPT ![w] = FALSE]
  BY DEF Ask
<1>4. "query" \in Pcs /\ Blank \in Walks /\ <<"query", Blank, FALSE>> \in Fit
  BY BlankFits DEF Fit, Pcs
<1>5. pc' \in [Workers -> Pcs] /\ walk' \in [Workers -> Walks] /\ flawed' \in [Workers -> BOOLEAN]
  BY <1>2, <1>3, <1>4
<1>6. TypeOK'
  BY <1>1, <1>5 DEF Inv, TypeOK, Walks
<1>7. Fit' = Fit /\ SoundFiles' = SoundFiles
  BY <1>1, FitUnmoved, SoundFilesUnmoved
<1>8. \A u \in Workers : <<pc'[u], walk'[u], flawed'[u]>> \in Fit
  BY <1>2, <1>3, <1>4 DEF Inv
<1> QED BY <1>1, <1>6, <1>7, <1>8 DEF Inv

LEMMA PathUnderSaveTyped ==
    ASSUME save \in Seq(Names), NEW q \in Seq(Names)
    PROVE  PathUnderSave(q) \in Seq(Names)
  BY DEF PathUnderSave

LEMMA SaveDirKeptTyped ==
    ASSUME TypeOK, NEW dir \in SaveDirs
    PROVE  SaveDirKept(dir) \in SaveDirs
<1>1. stored.saveDir \in SaveDirs /\ save \in Seq(Names)
  BY DEF TypeOK
<1> DEFINE known == IF dir # NoDir THEN dir ELSE stored.saveDir
<1>2. known \in SaveDirs
  BY <1>1
<1>3. known # NoDir => known.id \in Ids \cup {RootId, NoId}
  BY <1>2 DEF SaveDirs
<1>4. \A i \in Ids \cup {RootId, NoId} : [id |-> i, path |-> save] \in SaveDirs
  BY <1>1 DEF SaveDirs
<1>5. SaveDirKept(dir) = IF save = <<>> THEN known
                         ELSE [id |-> IF known = NoDir THEN NoId ELSE known.id, path |-> save]
  BY DEF SaveDirKept
<1> HIDE DEF known
<1> QED BY <1>2, <1>3, <1>4, <1>5

LEMMA StoreKeeps ==
    ASSUME Inv, NEW w \in Workers, Store(w)
    PROVE  Inv'
<1> DEFINE v == walk[w]
           Tasks == [completed : BOOLEAN, saveDir : SaveDirs, files : SUBSET Infos, warned : BOOLEAN]
<1>1. UNCHANGED <<account, changes, task, completed, save, flawed>>
  BY DEF Store, cloudVars
<1>2. pc \in [Workers -> Pcs] /\ walk \in [Workers -> Walks] /\ flawed \in [Workers -> BOOLEAN]
      /\ stored \in Tasks /\ save \in Seq(Names) /\ TypeOK
  BY DEF Inv, TypeOK, Walks
<1>3. pc' = [pc EXCEPT ![w] = "idle"] /\ walk' = [walk EXCEPT ![w] = Blank]
      /\ stored' \in {normalizeStored(v), stored}
  BY DEF Store
<1>4. v \in Walks /\ v.completed \in BOOLEAN /\ v.saveDir \in SaveDirs
      /\ v.found \in SUBSET (Ids \X Seq(Names)) /\ (changes = 0 => Own(v))
  BY HereFacts, InvHere DEF Walks
<1> DEFINE info(x) == [id |-> x[1], relative |-> x[2], path |-> PathUnderSave(x[2])]
           files == {info(x) : x \in v.found}
<1>5. \A x \in v.found : info(x) \in Infos
  BY <1>2, <1>4, PathUnderSaveTyped DEF Infos
<1>6. normalizeStored(v) \in Tasks /\ normalizeStored(v).files = files
  <2>1. SaveDirKept(v.saveDir) \in SaveDirs
    BY <1>2, <1>4, SaveDirKeptTyped
  <2>2. files \in SUBSET Infos
    BY <1>5
  <2>3. normalizeStored(v) = [completed |-> v.completed, saveDir |-> SaveDirKept(v.saveDir),
                              files |-> files, warned |-> v.completed /\ v.found = {}]
    BY DEF normalizeStored
  <2>4. (v.completed /\ v.found = {}) \in BOOLEAN
    OBVIOUS
  <2> HIDE DEF files, v
  <2> QED BY <1>4, <2>1, <2>2, <2>3, <2>4
<1>7. changes = 0 => files \subseteq SoundFiles
  <2> SUFFICES ASSUME changes = 0, NEW x \in v.found PROVE info(x) \in SoundFiles
    OBVIOUS
  <2>1. Sound(x) /\ x = <<x[1], x[2]>>
    BY <1>4 DEF Own
  <2>2. info(x) \in Infos /\ info(x).id = x[1] /\ info(x).relative = x[2]
        /\ info(x).path = PathUnderSave(x[2])
    BY <1>5
  <2> HIDE DEF info
  <2> QED BY <2>1, <2>2 DEF SoundFiles
<1> HIDE DEF files
<1>8. stored' \in Tasks /\ (changes = 0 => stored'.files \subseteq SoundFiles)
  BY <1>2, <1>3, <1>6, <1>7 DEF Inv
<1>9. pc' \in [Workers -> Pcs] /\ walk' \in [Workers -> Walks]
  BY <1>2, <1>3, BlankFits DEF Pcs
<1>10. TypeOK'
  BY <1>1, <1>2, <1>8, <1>9 DEF TypeOK, Walks
<1>11. Fit' = Fit /\ SoundFiles' = SoundFiles
  BY <1>1, FitUnmoved, SoundFilesUnmoved
<1>12. <<"idle", Blank, flawed[w]>> \in Fit
  BY <1>2, BlankFits DEF Fit, Pcs
<1>13. \A u \in Workers : <<pc'[u], walk'[u], flawed'[u]>> \in Fit
  BY <1>1, <1>2, <1>3, <1>12 DEF Inv
<1> QED BY <1>1, <1>8, <1>10, <1>11, <1>13 DEF Inv

LEMMA CompletesKeeps ==
    ASSUME Inv, TaskCompletes
    PROVE  Inv'
<1>1. UNCHANGED <<account, changes, task, stored, save, pc, walk, flawed>> /\ completed' \in BOOLEAN
  BY DEF TaskCompletes
<1>2. TypeOK'
  BY <1>1 DEF Inv, TypeOK
<1>3. Fit' = Fit /\ SoundFiles' = SoundFiles
  BY <1>1, FitUnmoved, SoundFilesUnmoved
<1> QED BY <1>1, <1>2, <1>3 DEF Inv

\* After a change of the account every request counts as flawed.
LEMMA ChangesKeep ==
    ASSUME Inv, OwnerChanges
    PROVE  Inv'
<1>1. /\ UNCHANGED <<task, completed, stored, save, pc, walk>>
      /\ flawed' = [w \in Workers |-> TRUE]
      /\ changes \in Nat /\ changes' \in 0..MaxChanges /\ changes' # 0
  BY BoundsAssumption DEF OwnerChanges, Inv, TypeOK
<1>2. account' \in [Ids -> Entries]
  <2>1. PICK e \in Ids, d \in Dirs \cup {RootId, Gone}, name \in Names :
            account' = [account EXCEPT ![e] = [parent |-> d, name |-> name]]
    BY DEF OwnerChanges
  <2>2. [parent |-> d, name |-> name] \in Entries /\ account \in [Ids -> Entries]
    BY DEF Entries, Inv, TypeOK
  <2> QED BY <2>1, <2>2
<1>3. TypeOK'
  BY <1>1, <1>2 DEF Inv, TypeOK
<1>4. ASSUME NEW u \in Workers PROVE <<pc[u], walk[u], TRUE>> \in Fit'
  <2> DEFINE p == pc[u]
             v == walk[u]
  <2>1. p \in Pcs /\ v \in Walks /\ Placed(p, v)
    <3>1. <<p, v, flawed[u]>> \in Fit
      BY DEF Inv
    <3> HIDE DEF p, v
    <3> QED BY <3>1 DEF Fit, Fits
  <2>2. PICK q \in Pcs, z \in Walks : q = p /\ z = v
    BY <2>1
  <2>3. Placed(q, z)'
    BY <1>1, <2>1, <2>2 DEF Placed
  <2>4. Fits(q, z, TRUE)'
    BY <1>1, <2>3 DEF Fits
  <2>5. <<q, z, TRUE>> \in Fit'
    BY <2>4 DEF Fit, Walks, SaveDirs
  <2> QED BY <2>2, <2>5
<1>5. \A u \in Workers : <<pc'[u], walk'[u], flawed'[u]>> \in Fit'
  BY <1>1, <1>4
<1> QED BY <1>1, <1>3, <1>5 DEF Inv

LEMMA InitInv == Init => Inv
<1> SUFFICES ASSUME Init PROVE Inv
  OBVIOUS
<1>1. account \in [Ids -> Entries] /\ task \in CloudTasks /\ save \in Seq(Names)
  BY ScenariosAssumption DEF Init
<1>2. stored \in [completed : BOOLEAN, saveDir : SaveDirs, files : SUBSET Infos, warned : BOOLEAN]
      /\ stored.files = {}
  <2>1. PICK sc \in Scenarios : \E dir \in AddedTo(sc.save) : stored = [NoFiles EXCEPT !.saveDir = dir]
    BY DEF Init
  <2>2. PICK dir \in AddedTo(sc.save) : stored = [NoFiles EXCEPT !.saveDir = dir]
    BY <2>1
  <2>3. sc.save \in Seq(Names)
    BY ScenariosAssumption
  <2>4. dir \in SaveDirs
    <3>1. dir = [id |-> RootId, path |-> <<>>] \/ \E e \in Dirs : dir = [id |-> e, path |-> sc.save]
      BY <2>2 DEF AddedTo
    <3>2. Dirs \subseteq Ids /\ <<>> \in Seq(Names)
      BY IdsAssumption
    <3>3. CASE dir = [id |-> RootId, path |-> <<>>]
      BY <3>2, <3>3 DEF SaveDirs
    <3>4. ASSUME NEW e \in Dirs, dir = [id |-> e, path |-> sc.save] PROVE dir \in SaveDirs
      <4>1. e \in Ids \cup {RootId, NoId}
        BY <3>2
      <4> QED BY <2>3, <3>4, <4>1 DEF SaveDirs
    <3> QED BY <3>1, <3>3, <3>4
  <2>5. stored = [completed |-> FALSE, saveDir |-> dir, files |-> {}, warned |-> FALSE]
    BY <2>2 DEF NoFiles
  <2> QED BY <2>4, <2>5
<1>3. TypeOK
  <2>0. completed \in BOOLEAN
    BY DEF Init
  <2>1. changes \in 0..MaxChanges
    BY BoundsAssumption DEF Init
  <2>2. pc \in [Workers -> Pcs] /\ flawed \in [Workers -> BOOLEAN]
    BY DEF Init, Pcs
  <2>3. walk \in [Workers -> Walks]
    BY BlankFits DEF Init
  <2> QED BY <1>1, <1>2, <2>0, <2>1, <2>2, <2>3 DEF TypeOK, Walks
<1>4. <<"idle", Blank, FALSE>> \in Fit
  BY BlankFits DEF Fit, Pcs
<1> QED BY <1>2, <1>3, <1>4 DEF Init, Inv

LEMMA NextInv == Inv /\ [Next]_vars => Inv'
<1> SUFFICES ASSUME Inv, [Next]_vars PROVE Inv'
  OBVIOUS
<1>1. ASSUME NEW w \in Workers, Ask(w) PROVE Inv'
  BY <1>1, AskKeeps
<1>2. ASSUME NEW w \in Workers, Step(w) PROVE Inv'
  BY <1>2, StepGoes, GoesKeeps, StoreKeeps
<1>3. CASE TaskCompletes
  BY <1>3, CompletesKeeps
<1>4. CASE OwnerChanges
  BY <1>4, ChangesKeep
<1>5. CASE UNCHANGED vars
  <2>1. UNCHANGED <<account, changes, task, completed, stored, save, pc, walk, flawed>>
    BY <1>5 DEF vars
  <2>2. Fit' = Fit /\ SoundFiles' = SoundFiles
    BY <2>1, FitUnmoved, SoundFilesUnmoved
  <2>3. TypeOK'
    BY <2>1 DEF Inv, TypeOK
  <2> QED BY <2>1, <2>2, <2>3 DEF Inv
<1> QED BY <1>1, <1>2, <1>3, <1>4, <1>5 DEF Next

LEMMA Invariance == Spec => []Inv
  BY InitInv, NextInv, PTL DEF Spec

-----------------------------------------------------------------------------
(* What follows                                                            *)

(* Every variable has its type, whatever is listed and however deep.       *)
THEOREM FilesTyped == Spec => []TypeOK
<1>1. Inv => TypeOK
  BY DEF Inv
<1> QED BY <1>1, Invariance, PTL

(* A request that nothing went wrong with lists exactly the files of the   *)
(* task, each with its path, for every account and every limit: the ways of*)
(* looking and the recursion over directories lose nothing and add nothing.*)
THEOREM ListsAreComplete == Spec => []ListComplete
<1>1. Inv => ListComplete
  <2> SUFFICES ASSUME Inv, NEW w \in Workers, pc[w] = "store", walk[w].completed, ~flawed[w]
               PROVE  walk[w].found = FilesOfTask
    BY DEF ListComplete
  <2>1. Fits(pc[w], walk[w], flawed[w])
    BY InvHere DEF Here
  <2> QED BY <2>1 DEF Fits, Whole
<1> QED BY <1>1, Invariance, PTL

(* Whatever calls fail, nothing is listed that is not at or below an entry *)
(* that matches the task, and each under its path from there.              *)
THEOREM ListsAreOwn == Spec => []NothingForeign
<1>1. Inv => NothingForeign
  <2> SUFFICES ASSUME Inv, changes = 0, NEW w \in Workers,
                      NEW x \in walk[w].found \cup walk[w].pending
               PROVE  \E n \in 0..MaxExpand : Above(x[1])[n] \in Hits /\ x[2] = Trail(x[1])[n]
    BY DEF NothingForeign
  <2>1. Own(walk[w])
    BY InvHere, HereFacts
  <2> QED BY <2>1 DEF Own, Sound
<1> QED BY <1>1, Invariance, PTL

LEMMA NoPrefix ==
    ASSUME NEW p \in Seq(Names), NEW q \in Seq(Names), p # <<>>, q # <<>>, Head(p) # Head(q)
    PROVE  ~IsPrefix(p, q)
<1> SUFFICES ASSUME IsPrefix(p, q) PROVE FALSE
  OBVIOUS
<1>1. Len(p) \in Nat /\ Len(p) # 0 /\ Len(p) <= Len(q) /\ Head(p) = p[1] /\ Head(q) = q[1]
  BY DEF IsPrefix
<1>2. p[1] = q[1]
  BY <1>1 DEF IsPrefix
<1> QED BY <1>1, <1>2

(* If the task was saved to the path asked for, the directory of its       *)
(* entries, and none of them has the name that path begins with, then the  *)
(* record's paths are the files' paths in the account, whatever failed.    *)
THEOREM PathsTrue == Spec => []PathsAreTrue
<1>1. Inv => PathsAreTrue
  <2> SUFFICES ASSUME Inv, changes = 0, task.dir \in Ids, save = FullPath(task.dir),
                      \A e \in Hits : account[e].parent = task.dir /\ account[e].name # Head(save),
                      NEW r \in stored.files
               PROVE  r.path = FullPath(r.id)
    BY DEF PathsAreTrue
  <2>1. Typed /\ r \in SoundFiles
    BY DEF Inv, TypeOK, Typed
  <2>2. r.id \in Ids /\ r.relative \in Seq(Names) /\ r.path = PathUnderSave(r.relative)
        /\ Sound(<<r.id, r.relative>>)
    BY <2>1 DEF SoundFiles, Infos
  <2>3. PICK n \in 0..MaxExpand : Above(r.id)[n] \in Hits /\ r.relative = Trail(r.id)[n]
    BY <2>2 DEF Sound
  <2> DEFINE h == Above(r.id)[n]
  <2>4. n \in Nat /\ h \in Ids /\ Exists(h) /\ account[h].parent = task.dir
        /\ account[h].name # Head(save)
    BY <2>3, BoundsAssumption DEF Hits
  <2>5. Exists(task.dir)
    BY <2>4, ParentExists
  <2>6. save \in Seq(Names) /\ save # <<>>
    BY <2>1, <2>5, FullPathTyped
  <2>7. Len(r.relative) = n + 1 /\ Head(r.relative) = account[h].name
    BY <2>1, <2>3, <2>4, TrailTyped, TrailHead
  <2>8. ~IsPrefix(save, r.relative)
    <3>1. r.relative # <<>>
      BY <2>4, <2>7
    <3> QED BY <2>2, <2>4, <2>6, <2>7, <3>1, NoPrefix
  <2>9. r.path = save \o Trail(r.id)[n]
    BY <2>2, <2>3, <2>8 DEF PathUnderSave
  <2>10. Above(r.id)[n + 1] = task.dir
    BY <2>4, AboveSteps DEF Up
  <2> QED BY <2>1, <2>4, <2>5, <2>9, <2>10, FullPathBelow
<1> QED BY <1>1, Invariance, PTL

\* What a listing of x puts with those that wait is one level deeper.
LEMMA ListingDeeper ==
    ASSUME Inv, NEW w \in Workers, NEW x \in Current(w), NEW new,
           \A y \in new : Len(y[2]) = Len(x[2]) + 1,
           NEW ok, Expand(w, new, walk[w].pending \ {x}, ok), pc'[w] = "expand"
    PROVE  \E depth \in 0..MaxExpand :
              /\ WaitingAt(w, depth)' \subseteq WaitingAt(w, depth)
              /\ WaitingAt(w, depth)' # WaitingAt(w, depth)
              /\ \A above \in 0..(depth - 1) : WaitingAt(w, above)' = WaitingAt(w, above)
<1> DEFINE v == walk[w]
           depth == Len(x[2])
           pending == (v.pending \ {x}) \cup Waits(new)
<1>1. /\ pc \in [Workers -> Pcs] /\ walk \in [Workers -> Walks] /\ v \in Walks
      /\ v.pending \in SUBSET (Dirs \X Seq(Names))
      /\ x \in v.pending /\ depth \in 0..MaxExpand
  <2>1. Here(w)
    BY InvHere
  <2>2. x \in v.pending
    BY DEF Current
  <2>3. depth \in Nat /\ depth <= MaxExpand /\ MaxExpand \in Nat
    BY <2>1, <2>2, HereFacts, BoundsAssumption
  <2> QED BY <2>1, <2>2, <2>3, HereFacts DEF Inv, TypeOK, Walks
<1>2. walk'[w].pending = pending
  <2> DEFINE found == v.found \cup Kept(new)
  <2>1. CASE pending = {} /\ found = {}
    <3>1. NextRoute(w, ok)
      BY <2>1 DEF Expand, Waits, Kept
    <3>2. pc'[w] \in {"store", "dir", "search"}
      BY <1>1, <3>1 DEF NextRoute, Try, Go, Later
    <3> QED BY <3>2
  <2>2. CASE ~(pending = {} /\ found = {})
    <3>1. walk' = [walk EXCEPT ![w] = [v EXCEPT !.pending = pending, !.found = found]]
      BY <2>2 DEF Expand, Waits, Kept, Go
    <3> QED BY <1>1, <3>1 DEF Walks
  <2> QED BY <2>1, <2>2
<1>3. \A d : WaitingAt(w, d)' = {y \in pending : Len(y[2]) = d}
  BY <1>2 DEF WaitingAt
<1>4. \A y \in Waits(new) : Len(y[2]) = depth + 1
  BY DEF Waits
<1>5. WaitingAt(w, depth)' = WaitingAt(w, depth) \ {x}
  BY <1>1, <1>3, <1>4 DEF WaitingAt
<1>6. x \in WaitingAt(w, depth)
  BY <1>1 DEF WaitingAt
<1>7. ASSUME NEW above \in 0..(depth - 1) PROVE WaitingAt(w, above)' = WaitingAt(w, above)
  <2>1. above # depth /\ above # depth + 1
    BY <1>1
  <2> QED BY <1>3, <1>4, <2>1 DEF WaitingAt
<1> QED BY <1>1, <1>5, <1>6, <1>7

(* The recursion of a query ends, in any account and while its owner moves *)
(* directories about: each listing leaves fewer directories at its depth   *)
(* and adds only deeper ones, and the limit bounds the depth.              *)
THEOREM RecursionEnds == Spec => ListingsRunOut
<1>1. Inv /\ [Next]_vars =>
        [\A w \in Workers : (ExpandDir(w) \/ ExpandDirFailed(w)) /\ pc'[w] = "expand" =>
            \E depth \in 0..MaxExpand :
                /\ WaitingAt(w, depth)' \subseteq WaitingAt(w, depth)
                /\ WaitingAt(w, depth)' # WaitingAt(w, depth)
                /\ \A above \in 0..(depth - 1) : WaitingAt(w, above)' = WaitingAt(w, above)]_vars
  <2> SUFFICES ASSUME Inv, NEW w \in Workers, ExpandDir(w) \/ ExpandDirFailed(w), pc'[w] = "expand"
               PROVE  \E depth \in 0..MaxExpand :
                         /\ WaitingAt(w, depth)' \subseteq WaitingAt(w, depth)
                         /\ WaitingAt(w, depth)' # WaitingAt(w, depth)
                         /\ \A above \in 0..(depth - 1) : WaitingAt(w, above)' = WaitingAt(w, above)
    OBVIOUS
  <2>1. CASE ExpandDir(w)
    <3>1. PICK x \in Current(w) :
              Expand(w, Listed(Children(x[1]), x[2]), walk[w].pending \ {x}, TRUE)
      BY <2>1 DEF ExpandDir, Listed
    <3>2. Typed /\ x[2] \in Seq(Names) /\ Children(x[1]) \subseteq Ids
      BY InvHere, HereFacts DEF Here, Current, Children
    <3>3. \A y \in Listed(Children(x[1]), x[2]) : Len(y[2]) = Len(x[2]) + 1
      <4>1. \A c \in Children(x[1]) : Len(At(c, x[2])[2]) = Len(x[2]) + 1
        BY <3>2, AtIs
      <4> QED BY <4>1 DEF Listed
    <3> QED BY <3>1, <3>3, ListingDeeper
  <2>2. CASE ExpandDirFailed(w)
    <3>1. PICK x \in Current(w) : Expand(w, {}, walk[w].pending \ {x}, FALSE)
      BY <2>2 DEF ExpandDirFailed
    <3> QED BY <3>1, ListingDeeper
  <2> QED BY <2>1, <2>2
<1> QED BY <1>1, Invariance, PTL DEF Spec, ListingsRunOut
=============================================================================
