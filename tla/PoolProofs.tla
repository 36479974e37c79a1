----------------------------- MODULE PoolProofs -----------------------------
(***************************************************************************)
(* Proofs about CandidatePool, for any bridge lines, keys, workers, health *)
(* rounds, pool sizes and attempt limits.                                  *)
(*                                                                         *)
(* PoolInv is the inductive invariant.  Between the load of a file and its *)
(* write an actor holds the lock of that file and has its current contents *)
(* (the first half of At), so a write replaces what it was computed from.  *)
(* A promotion spends no more than the drain has left, and what a drain    *)
(* counts as promoted is in the config or was pruned there since (the      *)
(* second half): that is why shedding it from the pool loses nothing.      *)
(*                                                                         *)
(* The list operations are recursive functions.  What they return is       *)
(* proved by induction on the prefix they have read, as a set of numbers   *)
(* that holds 0 and every successor up to the length (UpTo), and from the  *)
(* existence of the function that runs them (Recursion).                   *)
(***************************************************************************)
EXTENDS CandidatePool, NaturalsInduction, WellFoundedInduction, TLAPS

(* The leaves are first-order and go to Zenon; those about numbers, records *)
(* or sequences say SMT.                                                   *)
USE Zenon

\* A set of natural numbers that is not empty has a least member.
LEMMA Least ==
    ASSUME NEW T, T \subseteq Nat, T # {}
    PROVE \E x \in T : \A y \in T : x <= y
<1> DEFINE R == OpToRel(<, Nat)
<1>1. IsWellFoundedOn(R, Nat) BY NatLessThanWellFounded
<1>2. \A x, y \in Nat : y < x => <<y, x>> \in R BY DEF OpToRel
<1> HIDE DEF R
<1>3. PICK x \in T : \A y \in T : ~ (<<y, x>> \in R) BY <1>1, WFMin
<1>4. x \in Nat /\ \A y \in T : y \in Nat OBVIOUS
<1>5. ASSUME NEW y \in T PROVE x <= y
  <2>1. ~ (y < x) BY <1>2, <1>3, <1>4
  <2> QED BY <1>4, <2>1, SMT
<1> QED BY <1>5

\* Induction up to a bound, with a set for the predicate.
LEMMA UpTo ==
    ASSUME NEW S, NEW N \in Nat, 0 \in S, \A n \in 1 .. N : n - 1 \in S => n \in S
    PROVE 0 .. N \subseteq S
<1> DEFINE T == (0 .. N) \ S
<1>1. SUFFICES ASSUME T # {} PROVE FALSE OBVIOUS
<1>2. T \subseteq Nat BY SMT
<1>3. PICK x \in T : \A y \in T : x <= y BY <1>1, <1>2, Least
<1>4. x \in 1 .. N /\ x - 1 \in 0 .. N BY <1>3, SMT
<1>5. x - 1 \notin T BY <1>3, <1>4, SMT
<1> QED BY <1>3, <1>4, <1>5

\* f takes base through N steps of G.  (A definition, so that the provers treat
\* the membership of a function set as one fact.)
Runs(f, V, base, N, G) ==
    /\ f \in [0 .. N -> V]
    /\ f[0] = base
    /\ \A n \in 1 .. N : f[n] = G[f[n - 1]][n]

\* Such an f exists: the loops below are total.
LEMMA Recursion ==
    ASSUME NEW V, NEW base, NEW N, NEW G, base \in V /\ N \in Nat, G \in [V -> [1 .. N -> V]]
    PROVE \E f : Runs(f, V, base, N, G)
<1> DEFINE S == {m \in 0 .. N : \E f \in [0 .. m -> V] :
                    f[0] = base /\ \A n \in 1 .. m : f[n] = G[f[n - 1]][n]}
<1>1. 0 \in S
  <2> DEFINE f == [n \in 0 .. 0 |-> base]
  <2>1. f \in [0 .. 0 -> V] /\ f[0] = base BY SMT
  <2>2. 0 \in 0 .. N /\ \A n \in 1 .. 0 : FALSE BY SMT
  <2> HIDE DEF f
  <2> QED BY <2>1, <2>2
<1>2. ASSUME NEW m \in 1 .. N, m - 1 \in S PROVE m \in S
  <2>1. PICK g \in [0 .. m - 1 -> V] : g[0] = base /\ \A n \in 1 .. m - 1 : g[n] = G[g[n - 1]][n] BY <1>2
  <2> DEFINE v == G[g[m - 1]][m]
             f == [n \in 0 .. m |-> IF n = m THEN v ELSE g[n]]
  <2>2. v \in V
    <3>1. g[m - 1] \in V BY SMT
    <3> QED BY <3>1
  <2>3. f[m] = v /\ \A n \in 0 .. m - 1 : f[n] = g[n] BY SMT
  <2>4. f \in [0 .. m -> V] BY <2>2, SMT
  <2>5. f[0] = base BY <2>1, <2>3, SMT
  <2>6. ASSUME NEW n \in 1 .. m PROVE f[n] = G[f[n - 1]][n]
    <3>1. n - 1 \in 0 .. m - 1 BY SMT
    <3>2. f[n - 1] = g[n - 1] BY <2>3, <3>1
    <3>3. CASE n = m BY <2>3, <3>2, <3>3
    <3>4. CASE n # m
      <4>1. n \in 1 .. m - 1 /\ n \in 0 .. m - 1 BY <3>4, SMT
      <4> QED BY <2>1, <2>3, <3>2, <4>1
    <3> QED BY <3>3, <3>4
  <2>7. m \in 0 .. N BY SMT
  <2> HIDE DEF f
  <2> QED BY <2>4, <2>5, <2>6, <2>7
<1> HIDE DEF S
<1>3. N \in S
  <2>1. 0 .. N \subseteq S BY <1>1, <1>2, UpTo
  <2> QED BY <2>1, SMT
<1> QED BY <1>3 DEF S, Runs

\* The members of s in the order of p: what retain has kept after n of p.
Kept(p, s) ==
    CHOOSE kept : kept = [n \in 0 .. Len(p) |->
        IF n = 0 THEN << >> ELSE IF p[n] \in s THEN Append(kept[n - 1], p[n]) ELSE kept[n - 1]]

\* Filter is the last value of that loop.
LEMMA KeptSteps ==
    ASSUME NEW p \in Seq(Lines), NEW s
    PROVE /\ Filter(p, s) = Kept(p, s)[Len(p)]
          /\ Kept(p, s) \in [0 .. Len(p) -> Seq(Lines)]
          /\ Kept(p, s)[0] = << >>
          /\ \A n \in 1 .. Len(p) : Kept(p, s)[n] =
                IF p[n] \in s THEN Append(Kept(p, s)[n - 1], p[n]) ELSE Kept(p, s)[n - 1]
<1> DEFINE N == Len(p)
           V == Seq(Lines)
           G == [q \in V |-> [n \in 1 .. N |-> IF p[n] \in s THEN Append(q, p[n]) ELSE q]]
           Body(f) == [n \in 0 .. N |->
               IF n = 0 THEN << >> ELSE IF p[n] \in s THEN Append(f[n - 1], p[n]) ELSE f[n - 1]]
<1>1. N \in Nat /\ << >> \in V /\ \A n \in 1 .. N : p[n] \in Lines BY SMT
<1>2. G \in [V -> [1 .. N -> V]]
  <2>1. ASSUME NEW q \in V, NEW n \in 1 .. N PROVE (IF p[n] \in s THEN Append(q, p[n]) ELSE q) \in V BY <1>1, SMT
  <2> QED BY <2>1
<1>3. \A q \in V, n \in 1 .. N : G[q][n] = IF p[n] \in s THEN Append(q, p[n]) ELSE q OBVIOUS
<1> HIDE DEF G
<1>4. PICK f : Runs(f, V, << >>, N, G)
  <2> HIDE DEF V, N
  <2> QED BY <1>1, <1>2, Recursion
<1>5. ASSUME NEW n \in 0 .. N
      PROVE f[n] = IF n = 0 THEN << >> ELSE IF p[n] \in s THEN Append(f[n - 1], p[n]) ELSE f[n - 1]
  <2>1. CASE n = 0 BY <1>4, <2>1 DEF Runs
  <2>2. CASE n # 0
    <3>1. n \in 1 .. N /\ n - 1 \in 0 .. N BY <1>1, <2>2, SMT
    <3>2. f[n - 1] \in V BY <1>4, <3>1 DEF Runs
    <3> QED BY <1>3, <1>4, <2>2, <3>1, <3>2 DEF Runs
  <2> QED BY <2>1, <2>2
<1>6. f = Body(f) BY <1>4, <1>5 DEF Runs
<1> DEFINE K == Kept(p, s)
<1>7. K = Body(K) BY <1>6 DEF Kept
<1>8. Filter(p, s) = K[N] BY DEF Filter, Kept
<1>9. K[0] = << >> /\ \A n \in 1 .. N : K[n] = IF p[n] \in s THEN Append(K[n - 1], p[n]) ELSE K[n - 1]
  <2> HIDE DEF K
  <2>1. \A n \in 0 .. N : K[n] = IF n = 0 THEN << >> ELSE IF p[n] \in s THEN Append(K[n - 1], p[n]) ELSE K[n - 1]
    BY <1>7
  <2> QED BY <1>1, <2>1, SMT
<1>10. K \in [0 .. N -> V]
  <2> HIDE DEF K
  <2> DEFINE S == {n \in 0 .. N : K[n] \in V}
  <2>1. 0 \in S
    <3>1. 0 \in 0 .. N BY <1>1, SMT
    <3> QED BY <1>1, <1>9, <3>1
  <2>2. ASSUME NEW n \in 1 .. N, n - 1 \in S PROVE n \in S
    <3>1. n \in 0 .. N BY <1>1, SMT
    <3>2. K[n - 1] \in V BY <2>2
    <3>3. Append(K[n - 1], p[n]) \in V BY <1>1, <3>2, SMT
    <3>4. K[n] \in V BY <1>9, <3>2, <3>3
    <3> QED BY <3>1, <3>4
  <2> HIDE DEF S
  <2>3. 0 .. N \subseteq S BY <1>1, <2>1, <2>2, UpTo
  <2>4. \A n \in 0 .. N : K[n] \in V BY <2>3 DEF S
  <2>5. K = [n \in 0 .. N |-> K[n]] BY <1>7
  <2> QED BY <2>4, <2>5
<1> QED BY <1>8, <1>9, <1>10
\* What push_unique has made of p after n lines of q.
Pushed(p, q, id) ==
    CHOOSE pushed : pushed = [n \in 0 .. Len(q) |->
        IF n = 0 THEN p
        ELSE IF \E l \in Range(pushed[n - 1]) : id[l] = id[q[n]]
             THEN pushed[n - 1] ELSE Append(pushed[n - 1], q[n])]

\* PushAll is the last value of that loop.
LEMMA PushedSteps ==
    ASSUME NEW p \in Seq(Lines), NEW q \in Seq(Lines), NEW id
    PROVE /\ PushAll(p, q, id) = Pushed(p, q, id)[Len(q)]
          /\ Pushed(p, q, id) \in [0 .. Len(q) -> Seq(Lines)]
          /\ Pushed(p, q, id)[0] = p
          /\ \A n \in 1 .. Len(q) : Pushed(p, q, id)[n] =
                IF \E l \in Range(Pushed(p, q, id)[n - 1]) : id[l] = id[q[n]]
                THEN Pushed(p, q, id)[n - 1] ELSE Append(Pushed(p, q, id)[n - 1], q[n])
<1> DEFINE N == Len(q)
           V == Seq(Lines)
           Has(r, n) == \E l \in Range(r) : id[l] = id[q[n]]
           G == [r \in V |-> [n \in 1 .. N |-> IF Has(r, n) THEN r ELSE Append(r, q[n])]]
           Body(f) == [n \in 0 .. N |->
               IF n = 0 THEN p ELSE IF Has(f[n - 1], n) THEN f[n - 1] ELSE Append(f[n - 1], q[n])]
<1>1. N \in Nat /\ p \in V /\ \A n \in 1 .. N : q[n] \in Lines BY SMT
<1>8. PushAll(p, q, id) = Pushed(p, q, id)[N] BY DEF PushAll, Pushed
<1>7. ASSUME NEW f, f = Body(f) PROVE Pushed(p, q, id) = Body(Pushed(p, q, id))
  BY <1>7 DEF Pushed
<1> HIDE DEF Has
<1>2. G \in [V -> [1 .. N -> V]]
  <2>1. ASSUME NEW r \in V, NEW n \in 1 .. N PROVE (IF Has(r, n) THEN r ELSE Append(r, q[n])) \in V BY <1>1, SMT
  <2> QED BY <2>1
<1>3. \A r \in V, n \in 1 .. N : G[r][n] = IF Has(r, n) THEN r ELSE Append(r, q[n]) OBVIOUS
<1> HIDE DEF G
<1>4. PICK f : Runs(f, V, p, N, G)
  <2> HIDE DEF V, N
  <2> QED BY <1>1, <1>2, Recursion
<1>5. ASSUME NEW n \in 0 .. N
      PROVE f[n] = IF n = 0 THEN p ELSE IF Has(f[n - 1], n) THEN f[n - 1] ELSE Append(f[n - 1], q[n])
  <2>1. CASE n = 0 BY <1>4, <2>1 DEF Runs
  <2>2. CASE n # 0
    <3>1. n \in 1 .. N /\ n - 1 \in 0 .. N BY <1>1, <2>2, SMT
    <3>2. f[n - 1] \in V BY <1>4, <3>1 DEF Runs
    <3> QED BY <1>3, <1>4, <2>2, <3>1, <3>2 DEF Runs
  <2> QED BY <2>1, <2>2
<1>6. f = Body(f) BY <1>4, <1>5 DEF Runs
<1> DEFINE K == Pushed(p, q, id)
<1>11. K = Body(K) BY <1>6, <1>7
<1> HIDE DEF K
<1>9. K[0] = p /\ \A n \in 1 .. N : K[n] = IF Has(K[n - 1], n) THEN K[n - 1] ELSE Append(K[n - 1], q[n])
  <2>1. \A n \in 0 .. N : K[n] = IF n = 0 THEN p ELSE IF Has(K[n - 1], n) THEN K[n - 1] ELSE Append(K[n - 1], q[n])
    BY <1>11
  <2> QED BY <1>1, <2>1, SMT
<1>10. K \in [0 .. N -> V]
  <2> DEFINE S == {n \in 0 .. N : K[n] \in V}
  <2>1. 0 \in S
    <3>1. 0 \in 0 .. N BY <1>1, SMT
    <3> QED BY <1>1, <1>9, <3>1
  <2>2. ASSUME NEW n \in 1 .. N, n - 1 \in S PROVE n \in S
    <3>1. n \in 0 .. N BY <1>1, SMT
    <3>2. K[n - 1] \in V BY <2>2
    <3>3. Append(K[n - 1], q[n]) \in V BY <1>1, <3>2, SMT
    <3>4. K[n] \in V BY <1>9, <3>2, <3>3
    <3> QED BY <3>1, <3>4
  <2> HIDE DEF S
  <2>3. 0 .. N \subseteq S BY <1>1, <2>1, <2>2, UpTo
  <2>4. \A n \in 0 .. N : K[n] \in V BY <2>3 DEF S
  <2>5. K = [n \in 0 .. N |-> K[n]] BY <1>11
  <2> QED BY <2>4, <2>5
<1> QED BY <1>8, <1>9, <1>10 DEF K, Has

-----------------------------------------------------------------------------
\* No two places of p hold the same identity.
DistinctBy(p, id) == \A i, j \in DOMAIN p : id[p[i]] = id[p[j]] => i = j

\* Appending a line with a new identity keeps a list distinct.
LEMMA Appended ==
    ASSUME NEW p \in Seq(Lines), NEW l \in Lines, NEW id
    PROVE /\ Append(p, l) \in Seq(Lines)
          /\ Range(Append(p, l)) = Range(p) \cup {l}
          /\ DistinctBy(p, id) /\ (\A m \in Range(p) : id[m] # id[l]) => DistinctBy(Append(p, l), id)
          /\ Len(Append(p, l)) = Len(p) + 1
<1> DEFINE a == Append(p, l)
<1>1. /\ a \in Seq(Lines) /\ Len(a) = Len(p) + 1 /\ Len(p) \in Nat
      /\ \A i \in 1 .. Len(p) : a[i] = p[i]
      /\ a[Len(p) + 1] = l
  BY SMT
<1>2. DOMAIN p = 1 .. Len(p) /\ DOMAIN a = 1 .. Len(p) + 1 BY <1>1, SMT
<1> HIDE DEF a
<1>3. Range(a) = Range(p) \cup {l}
  <2>1. ASSUME NEW x \in Range(a) PROVE x \in Range(p) \cup {l}
    <3>1. PICK i \in 1 .. Len(p) + 1 : x = a[i] BY <1>2 DEF Range
    <3>2. CASE i = Len(p) + 1 BY <1>1, <3>1, <3>2
    <3>3. CASE i # Len(p) + 1
      <4>1. i \in 1 .. Len(p) BY <1>1, <3>3, SMT
      <4> QED BY <1>1, <1>2, <3>1, <4>1 DEF Range
    <3> QED BY <3>2, <3>3
  <2>2. ASSUME NEW x \in Range(p) PROVE x \in Range(a)
    <3>1. PICK i \in 1 .. Len(p) : x = p[i] BY <1>2 DEF Range
    <3>2. i \in 1 .. Len(p) + 1 BY <1>1, SMT
    <3> QED BY <1>1, <1>2, <3>1, <3>2 DEF Range
  <2>3. l \in Range(a)
    <3>1. Len(p) + 1 \in 1 .. Len(p) + 1 BY <1>1, SMT
    <3> QED BY <1>1, <1>2, <3>1 DEF Range
  <2> QED BY <2>1, <2>2, <2>3
<1>4. ASSUME DistinctBy(p, id), \A m \in Range(p) : id[m] # id[l] PROVE DistinctBy(a, id)
  <2>1. SUFFICES ASSUME NEW i \in DOMAIN a, NEW j \in DOMAIN a, id[a[i]] = id[a[j]] PROVE i = j
    BY DEF DistinctBy
  <2>2. \A n \in 1 .. Len(p) : p[n] \in Range(p) BY <1>2 DEF Range
  <2>3. i \in 1 .. Len(p) \/ i = Len(p) + 1 BY <1>1, <1>2, SMT
  <2>4. j \in 1 .. Len(p) \/ j = Len(p) + 1 BY <1>1, <1>2, SMT
  <2>5. CASE i \in 1 .. Len(p) /\ j \in 1 .. Len(p) BY <1>1, <1>2, <1>4, <2>1, <2>5, SMT DEF DistinctBy
  <2>6. CASE i \in 1 .. Len(p) /\ j = Len(p) + 1 BY <1>1, <1>4, <2>1, <2>2, <2>6
  <2>7. CASE i = Len(p) + 1 /\ j \in 1 .. Len(p) BY <1>1, <1>4, <2>1, <2>2, <2>7
  <2> QED BY <2>3, <2>4, <2>5, <2>6, <2>7
<1> QED BY <1>1, <1>3, <1>4 DEF a

\* retain keeps exactly the members of s, and invents no repetition.
LEMMA Filtered ==
    ASSUME NEW p \in Seq(Lines), NEW s
    PROVE /\ Filter(p, s) \in Seq(Lines)
          /\ Range(Filter(p, s)) = Range(p) \cap s
          /\ \A id : DistinctBy(p, id) => DistinctBy(Filter(p, s), id)
<1> DEFINE N == Len(p)
           K == Kept(p, s)
           Seen(n) == {p[i] : i \in 1 .. n}
<1>1. /\ Filter(p, s) = K[N] /\ K \in [0 .. N -> Seq(Lines)] /\ K[0] = << >>
      /\ \A n \in 1 .. N : K[n] = IF p[n] \in s THEN Append(K[n - 1], p[n]) ELSE K[n - 1]
  BY KeptSteps, SMT
<1>2. N \in Nat /\ DOMAIN p = 1 .. N /\ \A n \in 1 .. N : p[n] \in Lines BY SMT
<1> HIDE DEF K, N
<1>9. K[N] \in Seq(Lines) BY <1>1, <1>2, SMT
<1>3. SUFFICES ASSUME NEW id
               PROVE /\ Range(K[N]) = Range(p) \cap s
                     /\ DistinctBy(p, id) => DistinctBy(K[N], id)
  BY <1>1, <1>9
<1> DEFINE S == {n \in 0 .. N : Range(K[n]) = Seen(n) \cap s /\ (DistinctBy(p, id) => DistinctBy(K[n], id))}
<1>4. 0 \in S
  <2>1. Range(K[0]) = {} /\ DOMAIN K[0] = {} BY <1>1, SMT DEF Range
  <2>2. Seen(0) = {} BY SMT
  <2>3. DistinctBy(K[0], id) BY <2>1 DEF DistinctBy
  <2>4. 0 \in 0 .. N BY <1>2, SMT
  <2> QED BY <2>1, <2>2, <2>3, <2>4
<1>5. ASSUME NEW n \in 1 .. N, n - 1 \in S PROVE n \in S
  <2> DEFINE k == K[n - 1]
  <2>1. n \in 0 .. N /\ n - 1 \in 0 .. N /\ n - 1 \in Nat BY <1>2, SMT
  <2>2. k \in Seq(Lines) BY <1>1, <2>1
  <2>3. Range(k) = Seen(n - 1) \cap s /\ (DistinctBy(p, id) => DistinctBy(k, id)) BY <1>5
  <2>4. Seen(n) = Seen(n - 1) \cup {p[n]}
    <3>1. 1 .. n = (1 .. n - 1) \cup {n} BY <2>1, SMT
    <3> QED BY <3>1
  <2>5. K[n] = IF p[n] \in s THEN Append(k, p[n]) ELSE k BY <1>1
  <2>6. CASE p[n] \in s
    <3>1. K[n] = Append(k, p[n]) BY <2>5, <2>6
    <3>2. Range(K[n]) = Range(k) \cup {p[n]} BY <1>2, <2>2, <3>1, Appended
    <3>3. Range(K[n]) = Seen(n) \cap s BY <2>3, <2>4, <2>6, <3>2
    <3>4. ASSUME DistinctBy(p, id) PROVE DistinctBy(K[n], id)
      <4>1. ASSUME NEW m \in Range(k) PROVE id[m] # id[p[n]]
        <5>1. PICK i \in 1 .. n - 1 : m = p[i] BY <2>3
        <5>2. i \in 1 .. N /\ i # n BY <1>2, <2>1, SMT
        <5> QED BY <1>2, <3>4, <5>1, <5>2 DEF DistinctBy
      <4>2. DistinctBy(k, id) BY <2>3, <3>4
      <4> HIDE DEF k
      <4> QED BY <1>2, <2>2, <3>1, <4>1, <4>2, Appended
    <3> QED BY <2>1, <3>3, <3>4
  <2>7. CASE p[n] \notin s
    <3>1. K[n] = k BY <2>5, <2>7
    <3>2. Range(K[n]) = Seen(n) \cap s BY <2>3, <2>4, <2>7, <3>1
    <3>3. DistinctBy(p, id) => DistinctBy(K[n], id) BY <2>3, <3>1
    <3> QED BY <2>1, <3>2, <3>3
  <2> QED BY <2>6, <2>7
<1> HIDE DEF S
<1>6. 0 .. N \subseteq S BY <1>2, <1>4, <1>5, UpTo
<1>7. N \in S BY <1>2, <1>6, SMT
<1>8. Seen(N) = Range(p) BY <1>2 DEF Range
<1> QED BY <1>7, <1>8 DEF S

\* push_unique keeps what is there, adds every identity of q once, and grows p by
\* at most the length of q; a list that did not grow did not change.
LEMMA PushedAll ==
    ASSUME NEW p \in Seq(Lines), NEW q \in Seq(Lines), NEW id
    PROVE LET r == PushAll(p, q, id)
          IN  /\ r \in Seq(Lines)
              /\ Range(p) \subseteq Range(r) /\ Range(r) \subseteq Range(p) \cup Range(q)
              /\ \A l \in Range(q) : \E m \in Range(r) : id[m] = id[l]
              /\ DistinctBy(p, id) => DistinctBy(r, id)
              /\ Len(r) - Len(p) \in 0 .. Len(q)
              /\ Len(r) = Len(p) => r = p
<1> DEFINE N == Len(q)
           K == Pushed(p, q, id)
           Has(r, l) == \E m \in Range(r) : id[m] = id[l]
           Good(r, n) ==
              /\ Range(p) \subseteq Range(r) /\ Range(r) \subseteq Range(p) \cup Range(q)
              /\ \A i \in 1 .. n : Has(r, q[i])
              /\ DistinctBy(p, id) => DistinctBy(r, id)
              /\ Len(r) - Len(p) \in 0 .. n
              /\ Len(r) = Len(p) => r = p
<1>1. /\ PushAll(p, q, id) = K[N] /\ K \in [0 .. N -> Seq(Lines)] /\ K[0] = p
      /\ \A n \in 1 .. N : K[n] = IF Has(K[n - 1], q[n]) THEN K[n - 1] ELSE Append(K[n - 1], q[n])
  BY PushedSteps, SMT
<1>2. N \in Nat /\ DOMAIN q = 1 .. N /\ \A n \in 1 .. N : q[n] \in Lines /\ q[n] \in Range(q)
  BY SMT DEF Range
<1> HIDE DEF K, N
<1> DEFINE S == {n \in 0 .. N : Good(K[n], n)}
<1>3. 0 \in S
  <2>1. 0 \in 0 .. N /\ Len(p) - Len(p) \in 0 .. 0 BY <1>2, SMT
  <2>2. \A i \in 1 .. 0 : FALSE BY SMT
  <2>3. Good(p, 0) BY <2>1, <2>2
  <2> HIDE DEF Good
  <2> QED BY <1>1, <2>1, <2>3
<1>4. ASSUME NEW n \in 1 .. N, n - 1 \in S PROVE n \in S
  <2> DEFINE k == K[n - 1]
  <2>1. n \in 0 .. N /\ n - 1 \in 0 .. N /\ n - 1 \in Nat BY <1>2, SMT
  <2>2. k \in Seq(Lines) /\ Len(k) \in Nat /\ Len(p) \in Nat BY <1>1, <2>1, SMT
  <2>3. Good(k, n - 1) BY <1>4
  <2>4. K[n] = IF Has(k, q[n]) THEN k ELSE Append(k, q[n]) BY <1>1
  <2>5. \A i \in 1 .. n : i \in 1 .. n - 1 \/ i = n BY <2>1, SMT
  <2>6. CASE Has(k, q[n])
    <3>1. \A i \in 1 .. n : Has(k, q[i]) BY <2>3, <2>5, <2>6
    <3>2. Len(k) - Len(p) \in 0 .. n BY <2>1, <2>2, <2>3, SMT
    <3>3. Good(k, n) BY <2>3, <3>1, <3>2
    <3> HIDE DEF Good
    <3> QED BY <2>1, <2>4, <2>6, <3>3
  <2>7. CASE ~ Has(k, q[n])
    <3> DEFINE a == Append(k, q[n])
    <3>1. /\ Range(a) = Range(k) \cup {q[n]} /\ Len(a) = Len(k) + 1
          /\ DistinctBy(k, id) /\ (\A m \in Range(k) : id[m] # id[q[n]]) => DistinctBy(a, id)
      <4> HIDE DEF k
      <4> QED BY <1>2, <2>2, Appended
    <3> HIDE DEF k, a
    <3>2. Range(p) \subseteq Range(a) /\ Range(a) \subseteq Range(p) \cup Range(q) BY <1>2, <2>3, <3>1, ZenonT(60)
    <3>3. \A i \in 1 .. n : Has(a, q[i]) BY <2>3, <2>5, <3>1
    <3>4. Len(a) - Len(p) \in 0 .. n /\ Len(a) # Len(p) BY <2>1, <2>2, <2>3, <3>1, SMT
    <3>5. DistinctBy(p, id) => DistinctBy(a, id) BY <2>3, <2>7, <3>1
    <3>6. Good(a, n) BY <3>2, <3>3, <3>4, <3>5
    <3> HIDE DEF Good
    <3> QED BY <2>1, <2>4, <2>7, <3>6 DEF a, k
  <2> QED BY <2>6, <2>7
<1> HIDE DEF S
<1>5. 0 .. N \subseteq S BY <1>2, <1>3, <1>4, UpTo
<1>6. N \in S BY <1>2, <1>5, SMT
<1>7. Good(K[N], N) /\ K[N] \in Seq(Lines)
  <2>1. N \in 0 .. N BY <1>2, SMT
  <2> QED BY <1>1, <1>6, <2>1 DEF S
<1>8. ASSUME NEW l \in Range(q) PROVE Has(K[N], l)
  <2>1. PICK i \in 1 .. N : l = q[i] BY <1>2 DEF Range
  <2> QED BY <1>7, <2>1
<1> QED BY <1>1, <1>7, <1>8 DEF N

\* Two distinct lists without a common key are distinct together.
LEMMA Concatenated ==
    ASSUME NEW p \in Seq(Lines), NEW q \in Seq(Lines), NEW id
    PROVE /\ p \o q \in Seq(Lines)
          /\ Range(p \o q) = Range(p) \cup Range(q)
          /\ /\ DistinctBy(p, id) /\ DistinctBy(q, id)
             /\ \A l \in Range(p), m \in Range(q) : id[l] # id[m]
             => DistinctBy(p \o q, id)
<1> DEFINE c == p \o q
           P == Len(p)
           Q == Len(q)
<1>1. /\ c \in Seq(Lines) /\ Len(c) = P + Q /\ P \in Nat /\ Q \in Nat
      /\ \A i \in 1 .. P : c[i] = p[i]
      /\ \A i \in 1 .. Q : c[P + i] = q[i]
  BY SMT
<1>2. DOMAIN p = 1 .. P /\ DOMAIN q = 1 .. Q /\ DOMAIN c = 1 .. P + Q BY <1>1, SMT
<1> HIDE DEF c, P, Q
<1>3. ASSUME NEW i \in 1 .. P + Q
      PROVE \/ i \in 1 .. P /\ c[i] = p[i] /\ p[i] \in Range(p)
            \/ i - P \in 1 .. Q /\ c[i] = q[i - P] /\ q[i - P] \in Range(q)
  <2>1. CASE i \in 1 .. P BY <1>1, <1>2, <2>1 DEF Range
  <2>2. CASE i \notin 1 .. P
    <3>1. i - P \in 1 .. Q /\ P + (i - P) = i BY <1>1, <2>2, SMT
    <3>2. c[i] = q[i - P] BY <1>1, <3>1
    <3> QED BY <1>2, <3>1, <3>2 DEF Range
  <2> QED BY <2>1, <2>2
<1>4. Range(c) = Range(p) \cup Range(q)
  <2>1. ASSUME NEW x \in Range(c) PROVE x \in Range(p) \cup Range(q)
    <3>1. PICK i \in 1 .. P + Q : x = c[i] BY <1>2 DEF Range
    <3> QED BY <1>3, <3>1
  <2>2. ASSUME NEW x \in Range(p) PROVE x \in Range(c)
    <3>1. PICK i \in 1 .. P : x = p[i] BY <1>2 DEF Range
    <3>2. i \in 1 .. P + Q /\ c[i] = x BY <1>1, <3>1, SMT
    <3> QED BY <1>2, <3>2 DEF Range
  <2>3. ASSUME NEW x \in Range(q) PROVE x \in Range(c)
    <3>1. PICK i \in 1 .. Q : x = q[i] BY <1>2 DEF Range
    <3>2. P + i \in 1 .. P + Q /\ c[P + i] = x BY <1>1, <3>1, SMT
    <3> QED BY <1>2, <3>2 DEF Range
  <2> QED BY <2>1, <2>2, <2>3
<1>5. ASSUME DistinctBy(p, id), DistinctBy(q, id),
             \A l \in Range(p), m \in Range(q) : id[l] # id[m]
      PROVE DistinctBy(c, id)
  <2>1. SUFFICES ASSUME NEW i \in 1 .. P + Q, NEW j \in 1 .. P + Q, id[c[i]] = id[c[j]] PROVE i = j
    BY <1>2 DEF DistinctBy
  <2>2. CASE i \in 1 .. P /\ c[i] = p[i] /\ p[i] \in Range(p)
    <3>1. CASE j \in 1 .. P /\ c[j] = p[j] BY <1>2, <1>5, <2>1, <2>2, <3>1, ZenonT(60) DEF DistinctBy
    <3>2. CASE c[j] = q[j - P] /\ q[j - P] \in Range(q) BY <1>5, <2>1, <2>2, <3>2
    <3> QED BY <1>3, <3>1, <3>2
  <2>3. CASE i - P \in 1 .. Q /\ c[i] = q[i - P] /\ q[i - P] \in Range(q)
    <3>1. CASE c[j] = p[j] /\ p[j] \in Range(p) BY <1>5, <2>1, <2>3, <3>1
    <3>2. CASE j - P \in 1 .. Q /\ c[j] = q[j - P]
      <4>1. i - P = j - P BY <1>2, <1>5, <2>1, <2>3, <3>2 DEF DistinctBy
      <4> QED BY <1>1, <4>1, SMT
    <3> QED BY <1>3, <3>1, <3>2
  <2> QED BY <1>3, <2>2, <2>3
<1> QED BY <1>1, <1>4, <1>5 DEF c

-----------------------------------------------------------------------------
\* The members of a list of lines are lines.
LEMMA RangeType ==
    ASSUME NEW p \in Seq(Lines)
    PROVE Range(p) \subseteq Lines
BY SMT DEF Range

\* remove_all takes out exactly the lines with the keys it is given.
LEMMA Removed ==
    ASSUME NEW p \in Seq(Lines), NEW bridges
    PROVE /\ RemoveAll(p, bridges) \in Seq(Lines)
          /\ Range(RemoveAll(p, bridges)) = {l \in Range(p) : Key[l] \notin Keys(bridges)}
          /\ KeysOf(RemoveAll(p, bridges)) = KeysOf(p) \ Keys(bridges)
          /\ \A id : DistinctBy(p, id) => DistinctBy(RemoveAll(p, bridges), id)
<1> DEFINE s == Lines \ WithKeyIn(Keys(bridges))
           r == Filter(p, s)
<1>1. RemoveAll(p, bridges) = r BY DEF RemoveAll
<1>2. r \in Seq(Lines) /\ Range(r) = Range(p) \cap s /\ \A id : DistinctBy(p, id) => DistinctBy(r, id)
  <2> HIDE DEF s
  <2> QED BY Filtered
<1>3. Range(p) \subseteq Lines BY RangeType
<1> HIDE DEF r
<1>4. Range(r) = {l \in Range(p) : Key[l] \notin Keys(bridges)} BY <1>2, <1>3 DEF WithKeyIn
<1>5. KeysOf(r) = KeysOf(p) \ Keys(bridges)
  <2> HIDE DEF s
  <2>1. ASSUME NEW k \in KeysOf(r) PROVE k \in KeysOf(p) \ Keys(bridges) BY <1>4 DEF KeysOf, Keys
  <2>2. ASSUME NEW k \in KeysOf(p) \ Keys(bridges) PROVE k \in KeysOf(r)
    <3>1. PICK l \in Range(p) : k = Key[l] BY DEF KeysOf, Keys
    <3>2. l \in Range(r) BY <1>4, <3>1
    <3> QED BY <3>1, <3>2 DEF KeysOf, Keys
  <2> QED BY <2>1, <2>2
<1> QED BY <1>1, <1>2, <1>4, <1>5

\* A list reordered as two complementary parts holds the same lines, each once.
LEMMA Split ==
    ASSUME NEW p \in Seq(Lines), NEW keys
    PROVE LET in == Filter(p, WithKeyIn(keys))
              out == Filter(p, Lines \ WithKeyIn(keys))
          IN  /\ in \o out \in Seq(Lines) /\ out \o in \in Seq(Lines)
              /\ Range(in \o out) = Range(p) /\ Range(out \o in) = Range(p)
              /\ DistinctBy(p, Key) => DistinctBy(in \o out, Key) /\ DistinctBy(out \o in, Key)
<1> DEFINE s == WithKeyIn(keys)
           t == Lines \ s
           in == Filter(p, s)
           out == Filter(p, t)
<1>1. Range(p) \subseteq Lines BY RangeType
<1>2. \A l \in Lines : l \in s <=> Key[l] \in keys BY DEF WithKeyIn
<1>3. \A l \in Lines : l \in t <=> Key[l] \notin keys BY <1>2
<1> HIDE DEF s, t
<1>4. in \in Seq(Lines) /\ Range(in) = Range(p) \cap s /\ (DistinctBy(p, Key) => DistinctBy(in, Key))
  BY Filtered
<1>5. out \in Seq(Lines) /\ Range(out) = Range(p) \cap t /\ (DistinctBy(p, Key) => DistinctBy(out, Key))
  BY Filtered
<1> HIDE DEF in, out
<1>6. \A l \in Range(in), m \in Range(out) : Key[l] # Key[m] /\ Key[m] # Key[l] BY <1>1, <1>2, <1>3, <1>4, <1>5
<1>7. Range(in) \cup Range(out) = Range(p)
  <2>1. \A l \in Range(p) : l \in s \/ l \in t BY <1>1, <1>2, <1>3
  <2> QED BY <1>4, <1>5, <2>1
<1>8. /\ in \o out \in Seq(Lines) /\ Range(in \o out) = Range(in) \cup Range(out)
      /\ DistinctBy(p, Key) => DistinctBy(in \o out, Key)
  BY <1>4, <1>5, <1>6, Concatenated
<1>9. /\ out \o in \in Seq(Lines) /\ Range(out \o in) = Range(out) \cup Range(in)
      /\ DistinctBy(p, Key) => DistinctBy(out \o in, Key)
  BY <1>4, <1>5, <1>6, Concatenated
<1>10. Range(out \o in) = Range(p) BY <1>7, <1>9
<1> QED BY <1>7, <1>8, <1>9, <1>10 DEF in, out, s, t

\* rotate_to_back reorders the pool.
LEMMA Rotated ==
    ASSUME NEW p \in Seq(Lines), NEW bridges
    PROVE /\ RotateToBack(p, bridges) \in Seq(Lines)
          /\ Range(RotateToBack(p, bridges)) = Range(p)
          /\ DistinctBy(p, Key) => DistinctBy(RotateToBack(p, bridges), Key)
BY Split DEF RotateToBack, RemoveAll

\* prioritize reorders the pool.
LEMMA Prioritized ==
    ASSUME NEW p \in Seq(Lines), NEW fetched
    PROVE /\ Prioritize(p, fetched) \in Seq(Lines)
          /\ Range(Prioritize(p, fetched)) = Range(p)
          /\ DistinctBy(p, Key) => DistinctBy(Prioritize(p, fetched), Key)
BY Split DEF Prioritize

\* merge keeps the pool, adds fetched lines only, and adds no key twice.
LEMMA Merged ==
    ASSUME NEW p \in Seq(Lines), NEW fetched \in Seq(Lines), NEW exclude
    PROVE LET r == Merge(p, fetched, exclude)
          IN  /\ r \in Seq(Lines)
              /\ Range(p) \subseteq Range(r)
              /\ Range(r) \subseteq Range(p) \cup Range(fetched)
              /\ DistinctBy(p, Key) => DistinctBy(r, Key)
<1> DEFINE s == Lines \ WithKeyIn(exclude)
           q == Filter(fetched, s)
           r == PushAll(p, q, Key)
<1>1. Merge(p, fetched, exclude) = r BY DEF Merge
<1> HIDE DEF s
<1>2. q \in Seq(Lines) /\ Range(q) \subseteq Range(fetched) BY Filtered
<1> HIDE DEF q
<1>3. r \in Seq(Lines) /\ Range(p) \subseteq Range(r) /\ Range(r) \subseteq Range(p) \cup Range(q)
      /\ (DistinctBy(p, Key) => DistinctBy(r, Key))
  BY <1>2, PushedAll
<1> HIDE DEF r
<1> QED BY <1>1, <1>2, <1>3

\* take_transport answers with lines.
LEMMA Taken ==
    ASSUME NEW p \in Seq(Lines), NEW n
    PROVE TakeTransport(p, n) \subseteq Lines
<1> DEFINE e == Filter(p, Eligible)
<1>1. e \in Seq(Lines) BY Filtered
<1> HIDE DEF e
<1>2. \A i \in DOMAIN e : e[i] \in Lines BY <1>1, SMT
<1> QED BY <1>2 DEF TakeTransport, e

-----------------------------------------------------------------------------
\* The values of pc; where the pool lock, the config lock is held; a drain.
Places ==
    {"idle", "fetch", "merging", "migrate", "migrating", "drain", "walk",
     "promote", "promoting", "confirm", "confirming", "pruning"}
PoolBusy == {"merging", "walk", "confirming"}
ConfigBusy == {"migrating", "promoting", "pruning"}
Draining == {"walk", "promote", "promoting", "confirm", "confirming"}

\* What holds of an actor at c with the locals j, given the locks and the files.
At(w, c, j, plock, clock, p, ls, gone) ==
    /\ c \in PoolBusy => plock = w
    /\ c \in ConfigBusy => clock = w
    /\ c \in {"merging", "confirming"} => j.snap = p
    /\ c \in ConfigBusy => j.snap = ls
    /\ c \notin Draining => j.promoted = << >>
    /\ c \in {"walk", "promote", "promoting"} => Len(j.promoted) <= j.left
    /\ c \in {"promote", "promoting"} => ~ j.ok
    /\ c \in {"confirm", "confirming"} /\ j.ok => KeysOf(j.promoted) \subseteq KeysOf(ls) \cup gone

PoolInv ==
    /\ ConfigUnique
    /\ \A w \in Actors : At(w, pc[w], job[w], pool_lock, config_lock, pool, lines, pruned)

\* The types of the locals.
LEMMA JobFields ==
    ASSUME NEW j \in Jobs
    PROVE /\ j.exclude \subseteq Keys(Lines) /\ j.sources \in SourceStates
          /\ j.left \in 0 .. Target /\ j.then \in {"idle", "fetch"}
          /\ j.fetched \in Seq(Lines) /\ j.batch \subseteq Lines
          /\ j.promoted \in Seq(Lines) /\ j.deferred \subseteq Lines /\ j.dead \subseteq Lines
          /\ j.snap \in Seq(Lines) /\ j.ok \in BOOLEAN
BY DEF Jobs

\* Dropping the loaded contents leaves the other locals alone.
LEMMA Unloaded ==
    ASSUME NEW j \in Jobs
    PROVE LET r == [j EXCEPT !.snap = << >>] IN r \in Jobs /\ r.promoted = j.promoted /\ r.ok = j.ok /\ r.left = j.left
<1>1. << >> \in Seq(Lines) BY SMT
<1>2. [j EXCEPT !.snap = << >>] \in Jobs BY <1>1 DEF Jobs
<1>3. DOMAIN j = DOMAIN Fresh BY DEF Jobs, Fresh
<1> QED BY <1>2, <1>3 DEF Jobs

\* So does counting what was promoted.
LEMMA Counted ==
    ASSUME NEW j \in Jobs, NEW n \in 0 .. Target
    PROVE LET r == [j EXCEPT !.ok = TRUE, !.left = n] IN r \in Jobs /\ r.promoted = j.promoted
BY DEF Jobs

\* A drain that promotes no more than is left does not overspend.
LEMMA Spent == ASSUME NEW a \in 0 .. Target, NEW n \in 0 .. a, NEW d \in 0 .. n PROVE a - d \in 0 .. Target
BY BoundsAssumption, SMT

\* The locals of a new task.
LEMMA FreshJob ==
    /\ Fresh \in Jobs /\ Fresh.promoted = << >>
    /\ \A n \in 0 .. Target : LET j == [Fresh EXCEPT !.left = n] IN j \in Jobs /\ j.promoted = << >>
<1>1. 0 \in 0 .. Target BY BoundsAssumption, SMT
<1>2. Fresh \in Jobs /\ Fresh.promoted = << >> BY <1>1, SMT DEF Fresh, Jobs, SourceStates
<1>3. ASSUME NEW n \in 0 .. Target
      PROVE [Fresh EXCEPT !.left = n] \in Jobs /\ [Fresh EXCEPT !.left = n].promoted = << >>
  BY <1>2, <1>3 DEF Jobs
<1> QED BY <1>2, <1>3

\* The conjuncts of the invariant, by name.
LEMMA Typed ==
    ASSUME PoolInv
    PROVE /\ pool \in Seq(Lines) /\ DistinctBy(pool, Key)
          /\ lines \in Seq(Lines) /\ IsInjective(lines)
          /\ sources \in SourceStates /\ pruned \subseteq Keys(Lines)
          /\ pool_lock \in Workers \cup {Nobody} /\ config_lock \in Actors \cup {Nobody}
          /\ pc \in [Actors -> Places] /\ job \in [Actors -> Jobs]
          /\ \A w \in Actors : At(w, pc[w], job[w], pool_lock, config_lock, pool, lines, pruned)
BY DEF PoolInv, ConfigUnique, TypeOK, DistinctBy, Places

\* What an actor's step does to the files and the locks.
Own(w, plock, plock1, clock, clock1) ==
    /\ plock1 \in Workers \cup {Nobody} /\ clock1 \in Actors \cup {Nobody}
    /\ plock1 = plock \/ plock \in {Nobody, w}
    /\ clock1 = clock \/ clock \in {Nobody, w}

\* A step of one actor that writes a file only under its lock, and drops a key from
\* the config only by pruning it, leaves what holds of the others alone.
LEMMA StepKeeps ==
    ASSUME PoolInv, NEW w \in Actors, NEW next \in Places, NEW r \in Jobs,
           pc' = [pc EXCEPT ![w] = next], job' = [job EXCEPT ![w] = r],
           pool' \in Seq(Lines), DistinctBy(pool', Key),
           lines' \in Seq(Lines), IsInjective(lines'),
           sources' \in SourceStates, pruned' \subseteq Keys(Lines),
           Own(w, pool_lock, pool_lock', config_lock, config_lock'),
           pool' = pool \/ pool_lock = w, lines' = lines \/ config_lock = w,
           KeysOf(lines) \cup pruned \subseteq KeysOf(lines') \cup pruned',
           At(w, next, r, pool_lock', config_lock', pool', lines', pruned')
    PROVE PoolInv'
<1>1. /\ pc \in [Actors -> Places] /\ job \in [Actors -> Jobs]
      /\ \A z \in Actors : At(z, pc[z], job[z], pool_lock, config_lock, pool, lines, pruned)
  BY Typed
<1>2. pc' \in [Actors -> Places] /\ job' \in [Actors -> Jobs] BY <1>1
<1>3. ConfigUnique' BY <1>2 DEF ConfigUnique, TypeOK, DistinctBy, Places, Own
<1>4. ASSUME NEW z \in Actors
      PROVE At(z, pc'[z], job'[z], pool_lock', config_lock', pool', lines', pruned')
  <2>1. CASE z = w
    <3>1. pc'[z] = next /\ job'[z] = r BY <1>1, <2>1
    <3> QED BY <2>1, <3>1
  <2>2. CASE z # w
    <3>1. pc'[z] = pc[z] /\ job'[z] = job[z] BY <1>1, <2>2
    <3> DEFINE c == pc[z]
               j == job[z]
    <3>2. At(z, c, j, pool_lock, config_lock, pool, lines, pruned) BY <1>1
    <3>3. z # Nobody BY ActorsAssumption
    <3> HIDE DEF c, j
    <3>4. c \in PoolBusy => pool_lock' = z /\ pool' = pool BY <2>2, <3>2, <3>3 DEF At, Own
    <3>5. c \in ConfigBusy => config_lock' = z /\ lines' = lines BY <2>2, <3>2, <3>3 DEF At, Own
    <3>6. c \in {"merging", "confirming"} => c \in PoolBusy BY DEF PoolBusy
    <3>7. At(z, c, j, pool_lock', config_lock', pool', lines', pruned')
      <4>1. c \in {"merging", "confirming"} => j.snap = pool' BY <3>2, <3>4, <3>6 DEF At
      <4>2. c \in ConfigBusy => j.snap = lines' BY <3>2, <3>5 DEF At
      <4>3. c \in {"confirm", "confirming"} /\ j.ok => KeysOf(j.promoted) \subseteq KeysOf(lines') \cup pruned'
        BY <3>2 DEF At
      <4> QED BY <3>2, <3>4, <3>5, <4>1, <4>2, <4>3 DEF At
    <3> QED BY <3>1, <3>7 DEF c, j
  <2> QED BY <2>1, <2>2
<1> QED BY <1>3, <1>4 DEF PoolInv

\* The steps that write neither file.
LEMMA QuietKeeps ==
    ASSUME PoolInv, NEW w \in Actors, NEW next \in Places, NEW r \in Jobs,
           pc' = [pc EXCEPT ![w] = next], job' = [job EXCEPT ![w] = r],
           UNCHANGED <<files, pruned>>,
           Own(w, pool_lock, pool_lock', config_lock, config_lock'),
           At(w, next, r, pool_lock', config_lock', pool, lines, pruned)
    PROVE PoolInv'
<1>1. pool' = pool /\ lines' = lines /\ sources' = sources /\ pruned' = pruned BY DEF files
<1> QED BY <1>1, Typed, StepKeeps

\* Giving up one's locks disturbs nobody else.
LEMMA Released ==
    ASSUME PoolInv, NEW w \in Actors, Release(w)
    PROVE Own(w, pool_lock, pool_lock', config_lock, config_lock')
BY Typed DEF Release, Own

\* An actor that gives up everything.
LEMMA Idle ==
    ASSUME PoolInv, NEW w \in Actors, Finish(w), UNCHANGED <<files, pruned>>,
           Own(w, pool_lock, pool_lock', config_lock, config_lock')
    PROVE PoolInv'
<1>1. At(w, "idle", Fresh, pool_lock', config_lock', pool, lines, pruned)
  BY FreshJob DEF At, PoolBusy, ConfigBusy, Draining
<1>2. pc' = [pc EXCEPT ![w] = "idle"] /\ job' = [job EXCEPT ![w] = Fresh] BY DEF Finish, Goto
<1>3. "idle" \in Places BY DEF Places
<1> QED BY <1>1, <1>2, <1>3, FreshJob, QuietKeeps

\* A task may be dropped anywhere.
LEMMA AbandonKeeps ==
    ASSUME PoolInv, NEW w \in Actors, Abandon(w)
    PROVE PoolInv'
BY Released, Idle DEF Abandon

\* The start of a refresh or a drain.
LEMMA BeginKeeps ==
    ASSUME PoolInv, NEW w \in Workers, Begin(w)
    PROVE PoolInv'
<1> DEFINE next == IF w \in Angels THEN "drain" ELSE "fetch"
           then == IF w \in Angels THEN "fetch" ELSE "idle"
           r == [job[w] EXCEPT !.exclude = KeysOf(lines), !.sources = sources,
                               !.left = Target, !.then = then]
<1>1. w \in Actors BY DEF Actors
<1>2. pc[w] = "idle" /\ job[w] \in Jobs /\ At(w, pc[w], job[w], pool_lock, config_lock, pool, lines, pruned)
  BY <1>1, Typed DEF Begin
<1>3. next \in {"drain", "fetch"} /\ then \in {"idle", "fetch"} OBVIOUS
<1>4. pc' = [pc EXCEPT ![w] = next] BY DEF Begin, Goto
<1>5. job' = [job EXCEPT ![w] = r] BY <1>1, Typed DEF Begin
<1> HIDE DEF next, then
<1>6. KeysOf(lines) \subseteq Keys(Lines) BY Typed, RangeType DEF KeysOf, Keys
<1>7. r \in Jobs /\ r.promoted = job[w].promoted
  <2>1. Target \in 0 .. Target BY BoundsAssumption, SMT
  <2> QED BY <1>2, <1>3, <1>6, <2>1, Typed DEF Jobs
<1> HIDE DEF r
<1>8. At(w, next, r, pool_lock, config_lock, pool, lines, pruned)
  BY <1>2, <1>3, <1>7 DEF At, PoolBusy, ConfigBusy, Draining
<1>9. UNCHANGED <<files, pruned>> /\ UNCHANGED locks BY DEF Begin
<1>10. Own(w, pool_lock, pool_lock', config_lock, config_lock') BY <1>9, Typed DEF Own, locks
<1>11. next \in Places BY <1>3 DEF Places
<1> QED BY <1>1, <1>4, <1>5, <1>7, <1>8, <1>9, <1>10, <1>11, QuietKeeps DEF locks

\* The fetch, and the load of the pool under its lock.
LEMMA FetchAndLoadKeeps ==
    ASSUME PoolInv, NEW w \in Workers, FetchAndLoad(w)
    PROVE PoolInv'
<1>1. w \in Actors BY DEF Actors
<1>2. /\ pc[w] = "fetch" /\ job[w] \in Jobs
      /\ At(w, pc[w], job[w], pool_lock, config_lock, pool, lines, pruned)
  BY <1>1, Typed DEF FetchAndLoad
<1>3. job[w].promoted = << >> BY <1>2 DEF At, Draining
<1>4. UNCHANGED <<files, pruned>> /\ config_lock' = config_lock BY DEF FetchAndLoad
<1>5. PICK fetched \in Lists :
         IF fetched = << >>
         THEN /\ Goto(w, "drain")
              /\ job' = [job EXCEPT ![w] = [Fresh EXCEPT !.left = job[w].left]]
              /\ UNCHANGED pool_lock
         ELSE /\ LockPool(w)
              /\ Goto(w, "merging")
              /\ job' = [job EXCEPT ![w].fetched = fetched, ![w].snap = pool, ![w].then = "idle"]
  BY DEF FetchAndLoad
<1>6. CASE fetched = << >>
  <2> DEFINE r == [Fresh EXCEPT !.left = job[w].left]
  <2>1. r \in Jobs /\ r.promoted = << >> BY <1>2, FreshJob, JobFields
  <2>2. pc' = [pc EXCEPT ![w] = "drain"] /\ job' = [job EXCEPT ![w] = r] /\ pool_lock' = pool_lock
    BY <1>5, <1>6 DEF Goto
  <2> HIDE DEF r
  <2>3. At(w, "drain", r, pool_lock', config_lock', pool, lines, pruned)
    BY <2>1 DEF At, PoolBusy, ConfigBusy, Draining
  <2>4. Own(w, pool_lock, pool_lock', config_lock, config_lock') BY <1>4, <2>2, Typed DEF Own
  <2>5. "drain" \in Places BY DEF Places
  <2> QED BY <1>1, <1>4, <2>1, <2>2, <2>3, <2>4, <2>5, QuietKeeps
<1>7. CASE fetched # << >>
  <2> DEFINE r == [job[w] EXCEPT !.fetched = fetched, !.snap = pool, !.then = "idle"]
  <2>1. pc' = [pc EXCEPT ![w] = "merging"] /\ pool_lock = Nobody /\ pool_lock' = w
    BY <1>5, <1>7 DEF Goto, LockPool
  <2>2. job' = [job EXCEPT ![w] = r] BY <1>1, <1>5, <1>7, Typed
  <2>3. r \in Jobs /\ r.promoted = << >> /\ r.snap = pool
    <3>1. fetched \in Seq(Lines) BY LinesAssumption
    <3> QED BY <1>2, <1>3, <3>1, Typed DEF Jobs
  <2> HIDE DEF r
  <2>4. At(w, "merging", r, pool_lock', config_lock', pool, lines, pruned)
    BY <2>1, <2>3 DEF At, PoolBusy, ConfigBusy, Draining
  <2>5. Own(w, pool_lock, pool_lock', config_lock, config_lock') BY <1>4, <2>1, Typed DEF Own
  <2>6. "merging" \in Places BY DEF Places
  <2> QED BY <1>1, <1>4, <2>1, <2>2, <2>3, <2>4, <2>5, <2>6, QuietKeeps
<1> QED BY <1>6, <1>7

\* The merged pool: nothing lost, only fetched lines added.
LEMMA MergeSaveWrites ==
    ASSUME PoolInv, NEW w \in Workers, MergeSave(w)
    PROVE /\ pool_lock = w
          /\ pool' \in Seq(Lines) /\ DistinctBy(pool', Key)
          /\ Range(pool) \subseteq Range(pool') /\ Range(pool') \subseteq Range(pool) \cup Range(job[w].fetched)
<1> DEFINE merged == Merge(job[w].snap, job[w].fetched, job[w].exclude)
<1>1. w \in Actors BY DEF Actors
<1>2. /\ pc[w] = "merging" /\ job[w] \in Jobs
      /\ At(w, pc[w], job[w], pool_lock, config_lock, pool, lines, pruned)
  BY <1>1, Typed DEF MergeSave
<1>3. pool_lock = w /\ job[w].snap = pool BY <1>2 DEF At, PoolBusy
<1>4. job[w].fetched \in Seq(Lines) BY <1>2, JobFields
<1>5. /\ merged \in Seq(Lines) /\ DistinctBy(merged, Key)
      /\ Range(pool) \subseteq Range(merged) /\ Range(merged) \subseteq Range(pool) \cup Range(job[w].fetched)
  BY <1>3, <1>4, Typed, Merged
<1>6. pool' = Prioritize(merged, job[w].fetched) \/ pool' = merged BY DEF MergeSave
<1> HIDE DEF merged
<1>7. CASE pool' = merged BY <1>3, <1>5, <1>7
<1>8. CASE pool' = Prioritize(merged, job[w].fetched)
  <2>1. pool' \in Seq(Lines) /\ Range(pool') = Range(merged) /\ DistinctBy(pool', Key)
    BY <1>5, <1>8, Prioritized
  <2> QED BY <1>3, <1>5, <2>1
<1> QED BY <1>6, <1>7, <1>8

\* A merge is saved over the pool it was computed from.
LEMMA MergeSaveKeeps ==
    ASSUME PoolInv, NEW w \in Workers, MergeSave(w)
    PROVE PoolInv'
<1>1. w \in Actors BY DEF Actors
<1>2. /\ pc[w] = "merging" /\ job[w] \in Jobs
      /\ At(w, pc[w], job[w], pool_lock, config_lock, pool, lines, pruned)
  BY <1>1, Typed DEF MergeSave
<1>3. job[w].promoted = << >> BY <1>2 DEF At, Draining
<1>4. Release(w) /\ lines' = lines /\ sources' = sources /\ pruned' = pruned BY DEF MergeSave
<1>5. Own(w, pool_lock, pool_lock', config_lock, config_lock') BY <1>1, <1>4, Released
<1>6. PICK next \in {"drain", "migrate", "idle"}, r \in Jobs :
         pc' = [pc EXCEPT ![w] = next] /\ job' = [job EXCEPT ![w] = r] /\ r.promoted = << >>
  <2>1. CASE Finish(w) BY <2>1, FreshJob DEF Finish, Goto
  <2>2. CASE /\ Goto(w, IF job[w].sources = "current" THEN "drain" ELSE "migrate")
             /\ job' = [job EXCEPT ![w].snap = << >>, ![w].fetched = << >>,
                                   ![w].exclude = {}, ![w].sources = "current"]
    <3> DEFINE next == IF job[w].sources = "current" THEN "drain" ELSE "migrate"
               r == [job[w] EXCEPT !.snap = << >>, !.fetched = << >>, !.exclude = {}, !.sources = "current"]
    <3>1. r \in Jobs /\ r.promoted = << >> BY <1>2, <1>3 DEF Jobs, SourceStates
    <3>2. job' = [job EXCEPT ![w] = r] BY <1>1, <2>2, Typed
    <3>3. next \in {"drain", "migrate", "idle"} /\ pc' = [pc EXCEPT ![w] = next] BY <2>2 DEF Goto
    <3> HIDE DEF next, r
    <3> QED BY <3>1, <3>2, <3>3
  <2> QED BY <2>1, <2>2 DEF MergeSave
<1>7. At(w, next, r, pool_lock', config_lock', pool', lines', pruned')
  BY <1>6 DEF At, PoolBusy, ConfigBusy, Draining
<1>8. next \in Places BY DEF Places
<1> QED BY <1>1, <1>4, <1>5, <1>6, <1>7, <1>8, Typed, MergeSaveWrites, StepKeeps

\* The migration loads the config under its lock.
LEMMA MigrateLoadKeeps ==
    ASSUME PoolInv, NEW w \in Workers, MigrateLoad(w)
    PROVE PoolInv'
<1> DEFINE r == [job[w] EXCEPT !.snap = lines]
<1>1. w \in Actors BY DEF Actors
<1>2. /\ pc[w] = "migrate" /\ job[w] \in Jobs
      /\ At(w, pc[w], job[w], pool_lock, config_lock, pool, lines, pruned)
  BY <1>1, Typed DEF MigrateLoad
<1>3. r \in Jobs /\ r.snap = lines /\ r.promoted = job[w].promoted BY <1>2, Typed DEF Jobs
<1>4. /\ pc' = [pc EXCEPT ![w] = "migrating"] /\ UNCHANGED <<files, pruned>>
      /\ config_lock = Nobody /\ config_lock' = w /\ pool_lock' = pool_lock
  BY DEF MigrateLoad, LockConfig, Goto
<1>5. job' = [job EXCEPT ![w] = r] BY <1>1, Typed DEF MigrateLoad
<1> HIDE DEF r
<1>6. At(w, "migrating", r, pool_lock', config_lock', pool, lines, pruned)
  BY <1>2, <1>3, <1>4 DEF At, PoolBusy, ConfigBusy, Draining
<1>7. Own(w, pool_lock, pool_lock', config_lock, config_lock') BY <1>1, <1>4, Typed DEF Own
<1>8. "migrating" \in Places BY DEF Places
<1> QED BY <1>1, <1>3, <1>4, <1>5, <1>6, <1>7, <1>8, QuietKeeps

\* A migration rewrites the config and changes no bridge of it.
LEMMA MigrateWriteKeeps ==
    ASSUME PoolInv, NEW w \in Workers, MigrateWrite(w)
    PROVE PoolInv' /\ lines' = lines
<1>1. w \in Actors BY DEF Actors
<1>2. /\ pc[w] = "migrating" /\ job[w] \in Jobs
      /\ At(w, pc[w], job[w], pool_lock, config_lock, pool, lines, pruned)
  BY <1>1, Typed DEF MigrateWrite
<1>3. job[w].promoted = << >> /\ job[w].snap = lines BY <1>2 DEF At, Draining, ConfigBusy
<1>4. Release(w) /\ lines' = lines /\ sources' \in SourceStates /\ pool' = pool /\ pruned' = pruned
  BY <1>3 DEF MigrateWrite, SourceStates
<1>5. Own(w, pool_lock, pool_lock', config_lock, config_lock') BY <1>1, <1>4, Released
<1>6. PICK next \in {"drain", "idle"}, r \in Jobs :
         pc' = [pc EXCEPT ![w] = next] /\ job' = [job EXCEPT ![w] = r] /\ r.promoted = << >>
  <2>1. CASE Finish(w) BY <2>1, FreshJob DEF Finish, Goto
  <2>2. CASE Goto(w, "drain") /\ job' = [job EXCEPT ![w].snap = << >>]
    <3> DEFINE r == [job[w] EXCEPT !.snap = << >>]
    <3>1. r \in Jobs /\ r.promoted = << >> BY <1>2, <1>3 DEF Jobs
    <3>2. job' = [job EXCEPT ![w] = r] BY <1>1, <2>2, Typed
    <3> HIDE DEF r
    <3> QED BY <2>2, <3>1, <3>2 DEF Goto
  <2> QED BY <2>1, <2>2 DEF MigrateWrite
<1>7. At(w, next, r, pool_lock', config_lock', pool', lines', pruned')
  BY <1>6 DEF At, PoolBusy, ConfigBusy, Draining
<1>8. next \in Places BY DEF Places
<1> QED BY <1>1, <1>4, <1>5, <1>6, <1>7, <1>8, Typed, StepKeeps

\* A drain loads the pool and takes its batch.
LEMMA DrainLoadKeeps ==
    ASSUME PoolInv, NEW w \in Workers, DrainLoad(w)
    PROVE PoolInv'
<1>1. w \in Actors BY DEF Actors
<1>2. /\ pc[w] = "drain" /\ job[w] \in Jobs
      /\ At(w, pc[w], job[w], pool_lock, config_lock, pool, lines, pruned)
  BY <1>1, Typed DEF DrainLoad
<1>3. job[w].promoted = << >> BY <1>2 DEF At, Draining
<1>4. UNCHANGED <<files, pruned>> /\ config_lock' = config_lock BY DEF DrainLoad
<1> DEFINE n == IF MaxAttempts < Len(pool) THEN MaxAttempts ELSE Len(pool)
           batch == TakeTransport(pool, n)
<1>5. CASE LockPool(w) /\ Goto(w, "walk") /\ job' = [job EXCEPT ![w].batch = batch]
  <2> DEFINE r == [job[w] EXCEPT !.batch = batch]
  <2> HIDE DEF n
  <2>1. batch \subseteq Lines BY Typed, Taken
  <2> HIDE DEF batch
  <2>2. r \in Jobs /\ r.promoted = << >> /\ r.left = job[w].left BY <1>2, <1>3, <2>1 DEF Jobs
  <2>3. job' = [job EXCEPT ![w] = r] BY <1>1, <1>5, Typed
  <2>4. Len(r.promoted) <= r.left
    <3>1. job[w].left \in 0 .. Target /\ Len(<< >>) = 0 BY <1>2, JobFields
    <3> HIDE DEF r
    <3> QED BY <2>2, <3>1, SMT
  <2> HIDE DEF r
  <2>5. pc' = [pc EXCEPT ![w] = "walk"] /\ pool_lock = Nobody /\ pool_lock' = w BY <1>5 DEF LockPool, Goto
  <2>6. At(w, "walk", r, pool_lock', config_lock', pool, lines, pruned)
    BY <2>2, <2>4, <2>5 DEF At, PoolBusy, ConfigBusy, Draining
  <2>7. Own(w, pool_lock, pool_lock', config_lock, config_lock') BY <1>4, <2>5, Typed DEF Own
  <2>8. "walk" \in Places BY DEF Places
  <2> QED BY <1>1, <1>4, <2>2, <2>3, <2>5, <2>6, <2>7, <2>8, QuietKeeps
<1>6. CASE (Goto(w, "fetch") /\ UNCHANGED job) /\ UNCHANGED pool_lock
  <2>1. job' = [job EXCEPT ![w] = job[w]] BY <1>6, Typed
  <2>2. pc' = [pc EXCEPT ![w] = "fetch"] BY <1>6 DEF Goto
  <2>3. At(w, "fetch", job[w], pool_lock', config_lock', pool, lines, pruned)
    BY <1>3 DEF At, PoolBusy, ConfigBusy, Draining
  <2>4. Own(w, pool_lock, pool_lock', config_lock, config_lock') BY <1>4, <1>6, Typed DEF Own
  <2>5. "fetch" \in Places BY DEF Places
  <2> QED BY <1>1, <1>2, <1>4, <2>1, <2>2, <2>3, <2>4, <2>5, QuietKeeps
<1>7. CASE Finish(w) /\ UNCHANGED pool_lock
  <2>1. Own(w, pool_lock, pool_lock', config_lock, config_lock') BY <1>4, <1>7, Typed DEF Own
  <2> QED BY <1>1, <1>4, <1>7, <2>1, Idle
<1> QED BY <1>5, <1>6, <1>7 DEF DrainLoad

\* A probe answers: promoted while any are left, deferred, or dead.
LEMMA ProbeKeeps ==
    ASSUME PoolInv, NEW w \in Workers, NEW l \in Lines, Probe(w, l)
    PROVE PoolInv'
<1>1. w \in Actors BY DEF Actors
<1>2. /\ pc[w] = "walk" /\ job[w] \in Jobs /\ Len(job[w].promoted) < job[w].left
      /\ At(w, pc[w], job[w], pool_lock, config_lock, pool, lines, pruned)
  BY <1>1, Typed DEF Probe
<1>3. UNCHANGED <<files, pruned>> /\ UNCHANGED locks /\ pc' = pc BY DEF Probe
<1>4. /\ job[w].promoted \in Seq(Lines) /\ job[w].left \in 0 .. Target /\ job[w].batch \subseteq Lines
      /\ job[w].deferred \subseteq Lines /\ job[w].dead \subseteq Lines
  BY <1>2, JobFields
<1>5. PICK r \in Jobs : job' = [job EXCEPT ![w] = r] /\ Len(r.promoted) <= r.left
  <2>1. CASE job' = [job EXCEPT ![w].batch = @ \ {l}, ![w].promoted = Append(@, l)]
    <3> DEFINE q == Append(job[w].promoted, l)
               r == [job[w] EXCEPT !.batch = job[w].batch \ {l}, !.promoted = q]
    <3>1. q \in Seq(Lines) /\ Len(q) = Len(job[w].promoted) + 1 BY <1>4, SMT
    <3>2. job' = [job EXCEPT ![w] = r] BY <1>1, <2>1, Typed
    <3> HIDE DEF q
    <3>3. r \in Jobs /\ r.promoted = q /\ r.left = job[w].left BY <1>2, <1>4, <3>1 DEF Jobs
    <3> HIDE DEF r
    <3>4. Len(job[w].promoted) \in Nat BY <1>4, SMT
    <3>5. Len(r.promoted) <= r.left BY <1>2, <1>4, <3>1, <3>3, <3>4, SMT, SMTT(30)
    <3> QED BY <3>2, <3>3, <3>5
  <2>2. CASE job' = [job EXCEPT ![w].batch = @ \ {l}, ![w].deferred = @ \union {l}]
    <3> DEFINE r == [job[w] EXCEPT !.batch = job[w].batch \ {l}, !.deferred = job[w].deferred \union {l}]
    <3>1. job' = [job EXCEPT ![w] = r] BY <1>1, <2>2, Typed
    <3>2. r \in Jobs /\ r.promoted = job[w].promoted /\ r.left = job[w].left BY <1>2, <1>4 DEF Jobs
    <3> HIDE DEF r
    <3>3. Len(job[w].promoted) \in Nat BY <1>4, SMT
    <3>4. Len(r.promoted) <= r.left BY <1>2, <1>4, <3>2, <3>3, SMT, SMTT(30)
    <3> QED BY <3>1, <3>2, <3>4
  <2>3. CASE job' = [job EXCEPT ![w].batch = @ \ {l}, ![w].dead = @ \union {l}]
    <3> DEFINE r == [job[w] EXCEPT !.batch = job[w].batch \ {l}, !.dead = job[w].dead \union {l}]
    <3>1. job' = [job EXCEPT ![w] = r] BY <1>1, <2>3, Typed
    <3>2. r \in Jobs /\ r.promoted = job[w].promoted /\ r.left = job[w].left BY <1>2, <1>4, ZenonT(60) DEF Jobs
    <3> HIDE DEF r
    <3>3. Len(job[w].promoted) \in Nat BY <1>4, SMT
    <3>4. Len(r.promoted) <= r.left BY <1>2, <1>4, <3>2, <3>3, SMT
    <3> QED BY <3>1, <3>2, <3>4
  <2> QED BY <2>1, <2>2, <2>3 DEF Probe
<1>6. pool_lock' = pool_lock /\ config_lock' = config_lock BY <1>3 DEF locks
<1>7. At(w, "walk", r, pool_lock', config_lock', pool, lines, pruned)
  BY <1>2, <1>5, <1>6 DEF At, PoolBusy, ConfigBusy, Draining
<1>8. pc' = [pc EXCEPT ![w] = "walk"] BY <1>1, <1>2, <1>3, Typed
<1>9. Own(w, pool_lock, pool_lock', config_lock, config_lock') BY <1>6, Typed DEF Own
<1>10. "walk" \in Places BY DEF Places
<1> QED BY <1>1, <1>3, <1>5, <1>7, <1>8, <1>9, <1>10, QuietKeeps

\* The walk is over and the pool lock is given up.
LEMMA WalkEndsKeeps ==
    ASSUME PoolInv, NEW w \in Workers, WalkEnds(w)
    PROVE PoolInv'
<1>1. w \in Actors BY DEF Actors
<1>2. /\ pc[w] = "walk" /\ job[w] \in Jobs
      /\ At(w, pc[w], job[w], pool_lock, config_lock, pool, lines, pruned)
  BY <1>1, Typed DEF WalkEnds
<1>3. Len(job[w].promoted) <= job[w].left BY <1>2 DEF At
<1>4. UNCHANGED <<files, pruned>> /\ Release(w) BY DEF WalkEnds
<1> DEFINE none == job[w].promoted = << >>
           next == IF job[w].promoted = << >> THEN "confirm" ELSE "promote"
           r == [job[w] EXCEPT !.batch = {}, !.ok = none]
<1>5. pc' = [pc EXCEPT ![w] = next] BY DEF WalkEnds, Goto
<1>6. job' = [job EXCEPT ![w] = r] BY <1>1, Typed DEF WalkEnds
<1>7. (next = "confirm" /\ job[w].promoted = << >>) \/ (next = "promote" /\ ~ none) OBVIOUS
<1>8. none \in BOOLEAN OBVIOUS
<1> HIDE DEF none, next
<1>9. r \in Jobs /\ r.promoted = job[w].promoted /\ r.left = job[w].left /\ (r.ok <=> none) BY <1>2, <1>8 DEF Jobs
<1> HIDE DEF r
<1>10. job[w].promoted = << >> => KeysOf(r.promoted) = {} BY <1>9, SMT DEF KeysOf, Keys, Range
<1>11. At(w, next, r, pool_lock', config_lock', pool, lines, pruned)
  BY <1>3, <1>7, <1>9, <1>10 DEF At, PoolBusy, ConfigBusy, Draining
<1>12. Own(w, pool_lock, pool_lock', config_lock, config_lock') BY <1>1, <1>4, Released
<1>13. next \in Places BY <1>7 DEF Places
<1> QED BY <1>1, <1>4, <1>5, <1>6, <1>9, <1>11, <1>12, <1>13, QuietKeeps

\* A promotion reloads the config under its lock.
LEMMA PromoteLoadKeeps ==
    ASSUME PoolInv, NEW w \in Workers, PromoteLoad(w)
    PROVE PoolInv'
<1> DEFINE r == [job[w] EXCEPT !.snap = lines]
<1>1. w \in Actors BY DEF Actors
<1>2. /\ pc[w] = "promote" /\ job[w] \in Jobs
      /\ At(w, pc[w], job[w], pool_lock, config_lock, pool, lines, pruned)
  BY <1>1, Typed DEF PromoteLoad
<1>3. Len(job[w].promoted) <= job[w].left /\ ~ job[w].ok BY <1>2 DEF At
<1>4. /\ r \in Jobs /\ r.snap = lines /\ r.promoted = job[w].promoted /\ r.left = job[w].left
      /\ (r.ok <=> job[w].ok)
  BY <1>2, Typed DEF Jobs
<1>5. /\ pc' = [pc EXCEPT ![w] = "promoting"] /\ UNCHANGED <<files, pruned>>
      /\ config_lock = Nobody /\ config_lock' = w /\ pool_lock' = pool_lock
  BY DEF PromoteLoad, LockConfig, Goto
<1>6. job' = [job EXCEPT ![w] = r] BY <1>1, Typed DEF PromoteLoad
<1> HIDE DEF r
<1>7. At(w, "promoting", r, pool_lock', config_lock', pool, lines, pruned)
  BY <1>3, <1>4, <1>5 DEF At, PoolBusy, ConfigBusy, Draining
<1>8. Own(w, pool_lock, pool_lock', config_lock, config_lock') BY <1>1, <1>5, Typed DEF Own
<1>9. "promoting" \in Places BY DEF Places
<1> QED BY <1>1, <1>4, <1>5, <1>6, <1>7, <1>8, <1>9, QuietKeeps

\* What promote_bridges_in_config would write.
LEMMA Promotion ==
    ASSUME PoolInv, NEW w \in Workers, pc[w] = "promoting"
    PROVE LET latest == WithPromoted(w)
          IN  /\ config_lock = w /\ job[w].snap = lines
              /\ latest \in Seq(Lines) /\ IsInjective(latest)
              /\ KeysOf(lines) \subseteq KeysOf(latest)
              /\ KeysOf(job[w].promoted) \subseteq KeysOf(latest)
              /\ KeysOf(latest) \subseteq KeysOf(lines) \cup KeysOf(job[w].promoted)
              /\ Len(latest) - Len(lines) \in 0 .. Len(job[w].promoted)
              /\ Len(latest) = Len(lines) => latest = lines
<1> DEFINE same == [l \in Lines |-> l]
           q == job[w].promoted
           r == PushAll(lines, q, same)
<1>1. w \in Actors BY DEF Actors
<1>2. job[w] \in Jobs /\ At(w, pc[w], job[w], pool_lock, config_lock, pool, lines, pruned) BY <1>1, Typed
<1>3. config_lock = w /\ job[w].snap = lines BY <1>2 DEF At, ConfigBusy
<1>4. q \in Seq(Lines) /\ lines \in Seq(Lines) BY <1>2, Typed, JobFields
<1>5. WithPromoted(w) = r BY <1>3 DEF WithPromoted
<1>6. \A l \in Lines : same[l] = l OBVIOUS
<1> HIDE DEF same, q
<1>7. /\ r \in Seq(Lines)
      /\ Range(lines) \subseteq Range(r) /\ Range(r) \subseteq Range(lines) \cup Range(q)
      /\ \A l \in Range(q) : \E m \in Range(r) : same[m] = same[l]
      /\ DistinctBy(lines, same) => DistinctBy(r, same)
      /\ Len(r) - Len(lines) \in 0 .. Len(q)
      /\ Len(r) = Len(lines) => r = lines
  BY <1>4, PushedAll
<1> HIDE DEF r
<1>8. Range(lines) \subseteq Lines /\ Range(q) \subseteq Lines /\ Range(r) \subseteq Lines BY <1>4, <1>7, RangeType
<1>9. Range(q) \subseteq Range(r) BY <1>6, <1>7, <1>8
<1>10. DistinctBy(lines, same)
  <2>1. \A i \in DOMAIN lines : lines[i] \in Lines BY <1>4, SMT
  <2> QED BY <1>6, <2>1, Typed, SMT DEF DistinctBy, IsInjective
<1>11. IsInjective(r)
  <2>1. \A i \in DOMAIN r : r[i] \in Lines BY <1>7, SMT
  <2> QED BY <1>6, <1>7, <1>10, <2>1 DEF DistinctBy, IsInjective
<1>12. /\ KeysOf(lines) \subseteq KeysOf(r) /\ KeysOf(q) \subseteq KeysOf(r)
       /\ KeysOf(r) \subseteq KeysOf(lines) \cup KeysOf(q)
  BY <1>7, <1>9 DEF KeysOf, Keys
<1> QED BY <1>3, <1>5, <1>7, <1>11, <1>12 DEF q

\* It is written when it is longer, and is the config itself when it is not.
LEMMA PromoteWriteWrites ==
    ASSUME PoolInv, NEW w \in Workers, PromoteWrite(w)
    PROVE lines' = WithPromoted(w)
<1> DEFINE latest == WithPromoted(w)
<1>1. /\ job[w].snap = lines /\ latest \in Seq(Lines) /\ Len(latest) - Len(lines) \in 0 .. Len(job[w].promoted)
      /\ Len(latest) = Len(lines) => latest = lines
  BY Promotion DEF PromoteWrite
<1>2. lines' = IF Len(latest) > Len(lines) THEN latest ELSE lines BY <1>1 DEF PromoteWrite
<1>3. Len(latest) \in Nat /\ Len(lines) \in Nat BY <1>1, Typed, SMT
<1> HIDE DEF latest
<1>4. CASE Len(latest) > Len(lines) BY <1>2, <1>4 DEF latest
<1>5. CASE ~ (Len(latest) > Len(lines))
  <2>1. Len(latest) = Len(lines) BY <1>1, <1>3, <1>5, SMT
  <2> QED BY <1>1, <1>2, <1>5, <2>1 DEF latest
<1> QED BY <1>4, <1>5

\* From here on the drain counts its bridges as promoted.
LEMMA PromoteWriteKeeps ==
    ASSUME PoolInv, NEW w \in Workers, PromoteWrite(w)
    PROVE PoolInv'
<1> DEFINE latest == WithPromoted(w)
           left == job[w].left - (Len(latest) - Len(job[w].snap))
           r == [job[w] EXCEPT !.snap = << >>, !.ok = TRUE, !.left = left]
<1>1. w \in Actors BY DEF Actors
<1>2. /\ pc[w] = "promoting" /\ job[w] \in Jobs
      /\ At(w, pc[w], job[w], pool_lock, config_lock, pool, lines, pruned)
  BY <1>1, Typed DEF PromoteWrite
<1>3. /\ config_lock = w /\ job[w].snap = lines
      /\ latest \in Seq(Lines) /\ IsInjective(latest)
      /\ KeysOf(lines) \subseteq KeysOf(latest)
      /\ KeysOf(job[w].promoted) \subseteq KeysOf(latest)
      /\ Len(latest) - Len(lines) \in 0 .. Len(job[w].promoted)
  BY <1>2, Promotion
<1>4. lines' = latest BY PromoteWriteWrites
<1>5. left \in 0 .. Target
  <2>1. Len(job[w].promoted) <= job[w].left BY <1>2 DEF At
  <2>2. job[w].left \in 0 .. Target /\ Len(job[w].promoted) \in Nat /\ Target \in Nat BY <1>2, JobFields, BoundsAssumption, SMT
  <2>3. Len(job[w].promoted) \in 0 .. job[w].left BY <2>1, <2>2, SMT
  <2>4. Len(latest) - Len(job[w].snap) \in 0 .. Len(job[w].promoted) BY <1>3
  <2> QED BY <2>2, <2>3, <2>4, Spent
<1>6. job' = [job EXCEPT ![w] = r] BY <1>1, Typed DEF PromoteWrite
<1> HIDE DEF left, latest
<1>7. r \in Jobs /\ r.promoted = job[w].promoted
  <2> DEFINE s == [job[w] EXCEPT !.snap = << >>]
  <2>1. s \in Jobs /\ s.promoted = job[w].promoted BY <1>2, Unloaded
  <2>2. r = [s EXCEPT !.ok = TRUE, !.left = left] BY <1>2 DEF Jobs
  <2> HIDE DEF s
  <2> QED BY <2>1, <2>2, <1>5, Counted
<1> HIDE DEF r
<1>8. pc' = [pc EXCEPT ![w] = "confirm"] /\ pool' = pool /\ sources' = sources
      /\ pruned' = pruned \ KeysOf(job[w].promoted) /\ Release(w)
  BY DEF PromoteWrite, Goto
<1>9. At(w, "confirm", r, pool_lock', config_lock', pool', lines', pruned')
  BY <1>3, <1>4, <1>7 DEF At, PoolBusy, ConfigBusy, Draining
<1>10. KeysOf(lines) \cup pruned \subseteq KeysOf(lines') \cup pruned' BY <1>3, <1>4, <1>8
<1>11. Own(w, pool_lock, pool_lock', config_lock, config_lock') BY <1>1, <1>8, Released
<1>12. "confirm" \in Places /\ pruned' \subseteq Keys(Lines) BY <1>8, Typed DEF Places
<1> QED BY <1>1, <1>3, <1>4, <1>6, <1>7, <1>8, <1>9, <1>10, <1>11, <1>12, Typed, StepKeeps

\* A failed promotion counts nothing, whether or not its rename took place.
LEMMA PromoteFailsKeeps ==
    ASSUME PoolInv, NEW w \in Workers, PromoteFails(w)
    PROVE PoolInv'
<1> DEFINE r == [job[w] EXCEPT !.snap = << >>]
<1>1. w \in Actors BY DEF Actors
<1>2. /\ pc[w] \in {"promote", "promoting"} /\ job[w] \in Jobs
      /\ At(w, pc[w], job[w], pool_lock, config_lock, pool, lines, pruned)
  BY <1>1, Typed DEF PromoteFails
<1>3. ~ job[w].ok BY <1>2 DEF At
<1>4. r \in Jobs /\ r.promoted = job[w].promoted /\ r.ok = job[w].ok BY <1>2, Unloaded
<1>5. job' = [job EXCEPT ![w] = r] BY <1>1, Typed DEF PromoteFails
<1> HIDE DEF r
<1>6. pc' = [pc EXCEPT ![w] = "confirm"] /\ pool' = pool /\ sources' = sources /\ Release(w)
  BY DEF PromoteFails, Goto
<1>7. At(w, "confirm", r, pool_lock', config_lock', pool', lines', pruned')
  BY <1>3, <1>4 DEF At, PoolBusy, ConfigBusy, Draining
<1>8. Own(w, pool_lock, pool_lock', config_lock, config_lock') BY <1>1, <1>6, Released
<1>9. "confirm" \in Places BY DEF Places
<1>10. CASE UNCHANGED <<lines, pruned>>
  <2>1. lines' = lines /\ pruned' = pruned BY <1>10
  <2> QED BY <1>1, <1>4, <1>5, <1>6, <1>7, <1>8, <1>9, <2>1, Typed, StepKeeps
<1>11. CASE /\ pc[w] = "promoting"
            /\ lines' = WithPromoted(w) /\ pruned' = pruned \ KeysOf(job[w].promoted)
  <2> DEFINE latest == WithPromoted(w)
  <2>1. /\ config_lock = w /\ latest \in Seq(Lines) /\ IsInjective(latest)
        /\ KeysOf(lines) \subseteq KeysOf(latest)
        /\ KeysOf(job[w].promoted) \subseteq KeysOf(latest)
    BY <1>11, Promotion
  <2>2. lines' = latest BY <1>11
  <2> HIDE DEF latest
  <2>3. KeysOf(lines) \cup pruned \subseteq KeysOf(lines') \cup pruned' BY <1>11, <2>1, <2>2
  <2>4. pruned' \subseteq Keys(Lines) BY <1>11, Typed
  <2> QED BY <1>1, <1>4, <1>5, <1>6, <1>7, <1>8, <1>9, <2>1, <2>2, <2>3, <2>4, Typed, StepKeeps
<1> QED BY <1>10, <1>11 DEF PromoteFails

\* A drain that returns goes on with a fetch, or the task ends.
LEMMA Returned ==
    ASSUME PoolInv, NEW w \in Actors, DrainReturns(w)
    PROVE \E next \in {"fetch", "idle"}, r \in Jobs :
             pc' = [pc EXCEPT ![w] = next] /\ job' = [job EXCEPT ![w] = r] /\ r.promoted = << >>
<1>1. job[w] \in Jobs BY Typed
<1>2. CASE Finish(w) BY <1>2, FreshJob DEF Finish, Goto
<1>3. CASE /\ Goto(w, "fetch")
           /\ job' = [job EXCEPT ![w] = [Fresh EXCEPT !.exclude = job[w].exclude,
                                         !.sources = job[w].sources, !.left = job[w].left]]
  <2> DEFINE r == [Fresh EXCEPT !.exclude = job[w].exclude, !.sources = job[w].sources, !.left = job[w].left]
  <2>1. r \in Jobs /\ r.promoted = << >>
    <3>1. Fresh \in Jobs /\ Fresh.promoted = << >> BY FreshJob
    <3> HIDE DEF Fresh
    <3>2. /\ job[w].exclude \subseteq Keys(Lines) /\ job[w].sources \in SourceStates
          /\ job[w].left \in 0 .. Target
      BY <1>1, JobFields
    <3> QED BY <3>1, <3>2 DEF Jobs
  <2>2. job' = [job EXCEPT ![w] = r] BY <1>3
  <2> HIDE DEF r
  <2> QED BY <1>3, <2>1, <2>2 DEF Goto
<1> QED BY <1>2, <1>3 DEF DrainReturns

\* The end of a drain.
LEMMA ReturnKeeps ==
    ASSUME PoolInv, NEW w \in Actors, DrainReturns(w), UNCHANGED <<files, pruned>>,
           Own(w, pool_lock, pool_lock', config_lock, config_lock')
    PROVE PoolInv'
<1>1. PICK next \in {"fetch", "idle"}, r \in Jobs :
         pc' = [pc EXCEPT ![w] = next] /\ job' = [job EXCEPT ![w] = r] /\ r.promoted = << >>
  BY Returned
<1>2. At(w, next, r, pool_lock', config_lock', pool, lines, pruned)
  BY <1>1 DEF At, PoolBusy, ConfigBusy, Draining
<1>3. next \in Places BY DEF Places
<1> QED BY <1>1, <1>2, <1>3, QuietKeeps

\* The confirmation reloads the pool, which others may have written meanwhile.
LEMMA ConfirmLoadKeeps ==
    ASSUME PoolInv, NEW w \in Workers, ConfirmLoad(w)
    PROVE PoolInv'
<1>1. w \in Actors BY DEF Actors
<1>2. /\ pc[w] = "confirm" /\ job[w] \in Jobs
      /\ At(w, pc[w], job[w], pool_lock, config_lock, pool, lines, pruned)
  BY <1>1, Typed DEF ConfirmLoad
<1>3. UNCHANGED <<files, pruned>> /\ config_lock' = config_lock BY DEF ConfirmLoad
<1>4. CASE LockPool(w) /\ Goto(w, "confirming") /\ job' = [job EXCEPT ![w].snap = pool]
  <2> DEFINE r == [job[w] EXCEPT !.snap = pool]
  <2>1. r \in Jobs /\ r.promoted = job[w].promoted /\ r.snap = pool /\ (r.ok <=> job[w].ok)
    BY <1>2, Typed DEF Jobs
  <2>2. job' = [job EXCEPT ![w] = r] BY <1>1, <1>4, Typed
  <2> HIDE DEF r
  <2>3. pc' = [pc EXCEPT ![w] = "confirming"] /\ pool_lock = Nobody /\ pool_lock' = w BY <1>4 DEF LockPool, Goto
  <2>4. At(w, "confirming", r, pool_lock', config_lock', pool, lines, pruned)
    BY <1>2, <2>1, <2>3 DEF At, PoolBusy, ConfigBusy, Draining
  <2>5. Own(w, pool_lock, pool_lock', config_lock, config_lock') BY <1>3, <2>3, Typed DEF Own
  <2>6. "confirming" \in Places BY DEF Places
  <2> QED BY <1>1, <1>3, <2>1, <2>2, <2>3, <2>4, <2>5, <2>6, QuietKeeps
<1>5. CASE DrainReturns(w) /\ UNCHANGED pool_lock
  <2>1. Own(w, pool_lock, pool_lock', config_lock, config_lock') BY <1>3, <1>5, Typed DEF Own
  <2> QED BY <1>1, <1>3, <1>5, <2>1, ReturnKeeps
<1> QED BY <1>4, <1>5 DEF ConfirmLoad

\* The keys that leave the pool are those of the discarded lines.
LEMMA ConfirmSaveWrites ==
    ASSUME PoolInv, NEW w \in Workers, ConfirmSave(w)
    PROVE /\ pool_lock = w /\ pc[w] = "confirming"
          /\ pool' \in Seq(Lines) /\ DistinctBy(pool', Key)
          /\ KeysOf(pool') = KeysOf(pool) \ Keys(Discard(w))
<1> DEFINE rest == RemoveAll(pool, Discard(w))
<1>1. w \in Actors BY DEF Actors
<1>2. pc[w] = "confirming" /\ At(w, pc[w], job[w], pool_lock, config_lock, pool, lines, pruned)
  BY <1>1, Typed DEF ConfirmSave
<1>3. pool_lock = w /\ job[w].snap = pool BY <1>2 DEF At, PoolBusy
<1>4. pool' = RotateToBack(rest, job[w].deferred) BY <1>3 DEF ConfirmSave
<1>5. rest \in Seq(Lines) /\ DistinctBy(rest, Key) /\ KeysOf(rest) = KeysOf(pool) \ Keys(Discard(w))
  BY Typed, Removed
<1> HIDE DEF rest
<1>6. pool' \in Seq(Lines) /\ DistinctBy(pool', Key) /\ Range(pool') = Range(rest) BY <1>4, <1>5, Rotated
<1> QED BY <1>2, <1>3, <1>5, <1>6 DEF KeysOf

\* The confirmation is saved over the pool it was computed from.
LEMMA ConfirmSaveKeeps ==
    ASSUME PoolInv, NEW w \in Workers, ConfirmSave(w)
    PROVE PoolInv'
<1>1. w \in Actors BY DEF Actors
<1>2. Release(w) /\ DrainReturns(w) /\ lines' = lines /\ sources' = sources /\ pruned' = pruned
  BY DEF ConfirmSave
<1>3. PICK next \in {"fetch", "idle"}, r \in Jobs :
         pc' = [pc EXCEPT ![w] = next] /\ job' = [job EXCEPT ![w] = r] /\ r.promoted = << >>
  BY <1>1, <1>2, Returned
<1>4. At(w, next, r, pool_lock', config_lock', pool', lines', pruned')
  BY <1>3 DEF At, PoolBusy, ConfigBusy, Draining
<1>5. next \in Places BY DEF Places
<1>6. Own(w, pool_lock, pool_lock', config_lock, config_lock') BY <1>1, <1>2, Released
<1> QED BY <1>1, <1>2, <1>3, <1>4, <1>5, <1>6, Typed, ConfirmSaveWrites, StepKeeps

\* A confirmation that fails leaves both files alone.
LEMMA ConfirmFailsKeeps ==
    ASSUME PoolInv, NEW w \in Workers, ConfirmFails(w)
    PROVE PoolInv'
<1>1. w \in Actors BY DEF Actors
<1> QED BY <1>1, Released, ReturnKeeps DEF ConfirmFails

\* A health round loads the config under its lock.
LEMMA PruneLoadKeeps ==
    ASSUME PoolInv, NEW w \in Pruners, PruneLoad(w)
    PROVE PoolInv'
<1>1. w \in Actors BY DEF Actors
<1>2. /\ pc[w] = "idle" /\ job[w] \in Jobs
      /\ At(w, pc[w], job[w], pool_lock, config_lock, pool, lines, pruned)
  BY <1>1, Typed DEF PruneLoad
<1>3. /\ pc' = [pc EXCEPT ![w] = "pruning"] /\ UNCHANGED <<files, pruned>>
      /\ config_lock = Nobody /\ config_lock' = w /\ pool_lock' = pool_lock
  BY DEF PruneLoad, LockConfig, Goto
<1>4. PICK dead \in SUBSET Range(lines) : job' = [job EXCEPT ![w].dead = dead, ![w].snap = lines]
  BY DEF PruneLoad
<1> DEFINE r == [job[w] EXCEPT !.dead = dead, !.snap = lines]
<1>5. dead \subseteq Lines BY Typed, RangeType
<1>6. r \in Jobs /\ r.snap = lines /\ r.promoted = job[w].promoted BY <1>2, <1>5, Typed DEF Jobs
<1>7. job' = [job EXCEPT ![w] = r] BY <1>1, <1>4, Typed
<1> HIDE DEF r
<1>8. At(w, "pruning", r, pool_lock', config_lock', pool, lines, pruned)
  BY <1>2, <1>3, <1>6 DEF At, PoolBusy, ConfigBusy, Draining
<1>9. Own(w, pool_lock, pool_lock', config_lock, config_lock') BY <1>1, <1>3, Typed DEF Own
<1>10. "pruning" \in Places BY DEF Places
<1> QED BY <1>1, <1>3, <1>6, <1>7, <1>8, <1>9, <1>10, QuietKeeps, ZenonT(60)

\* The keys that leave the config are those of the dead.
LEMMA PruneWriteWrites ==
    ASSUME PoolInv, NEW w \in Pruners, PruneWrite(w)
    PROVE /\ config_lock = w /\ pc[w] = "pruning"
          /\ lines' \in Seq(Lines) /\ IsInjective(lines')
          /\ KeysOf(lines') = KeysOf(lines) \ Keys(job[w].dead)
<1> DEFINE same == [l \in Lines |-> l]
           r == RemoveAll(lines, job[w].dead)
<1>1. w \in Actors BY DEF Actors
<1>2. pc[w] = "pruning" /\ At(w, pc[w], job[w], pool_lock, config_lock, pool, lines, pruned)
  BY <1>1, Typed DEF PruneWrite
<1>3. config_lock = w /\ job[w].snap = lines BY <1>2 DEF At, ConfigBusy
<1>4. lines' = r BY <1>3 DEF PruneWrite
<1>5. lines \in Seq(Lines) BY Typed
<1>6. /\ r \in Seq(Lines) /\ KeysOf(r) = KeysOf(lines) \ Keys(job[w].dead)
      /\ DistinctBy(lines, same) => DistinctBy(r, same)
  <2> HIDE DEF same
  <2> QED BY <1>5, Removed
<1> HIDE DEF r
<1>7. \A l \in Lines : same[l] = l OBVIOUS
<1> HIDE DEF same
<1>8. DistinctBy(lines, same)
  <2>1. \A i \in DOMAIN lines : lines[i] \in Lines BY <1>5, SMT
  <2> QED BY <1>7, <2>1, Typed, SMT, SMTT(30) DEF DistinctBy, IsInjective
<1>9. IsInjective(r)
  <2>1. \A i \in DOMAIN r : r[i] \in Lines BY <1>6, SMT
  <2> QED BY <1>6, <1>7, <1>8, <2>1 DEF DistinctBy, IsInjective
<1> QED BY <1>2, <1>3, <1>4, <1>6, <1>9

\* They are remembered as pruned, so a drain's promotion is still accounted for.
LEMMA PruneWriteKeeps ==
    ASSUME PoolInv, NEW w \in Pruners, PruneWrite(w)
    PROVE PoolInv'
<1>1. w \in Actors BY DEF Actors
<1>2. /\ pc' = [pc EXCEPT ![w] = "idle"] /\ job' = [job EXCEPT ![w] = Fresh] /\ Release(w)
      /\ pool' = pool /\ sources' = sources /\ pruned' = pruned \union Keys(job[w].dead)
  BY DEF PruneWrite, Finish, Goto
<1>3. Keys(job[w].dead) \subseteq Keys(Lines)
  <2>1. job[w].dead \subseteq Lines BY <1>1, Typed, JobFields
  <2> QED BY <2>1 DEF Keys
<1>4. /\ config_lock = w /\ lines' \in Seq(Lines) /\ IsInjective(lines')
      /\ KeysOf(lines') = KeysOf(lines) \ Keys(job[w].dead)
  BY PruneWriteWrites
<1>5. KeysOf(lines) \cup pruned \subseteq KeysOf(lines') \cup pruned' BY <1>2, <1>4
<1>6. At(w, "idle", Fresh, pool_lock', config_lock', pool', lines', pruned')
  BY FreshJob DEF At, PoolBusy, ConfigBusy, Draining
<1>7. "idle" \in Places /\ pruned' \subseteq Keys(Lines) BY <1>2, <1>3, Typed DEF Places
<1>8. Own(w, pool_lock, pool_lock', config_lock, config_lock') BY <1>1, <1>2, Released
<1> QED BY <1>1, <1>2, <1>4, <1>5, <1>6, <1>7, <1>8, FreshJob, Typed, StepKeeps, ZenonT(60)

-----------------------------------------------------------------------------
\* The invariant holds at the start ...
LEMMA InitialPool ==
    ASSUME Init PROVE PoolInv
<1>1. ConfigUnique
  <2>1. pc \in [Actors -> Places] BY DEF Init, Places
  <2>2. job \in [Actors -> Jobs] BY FreshJob DEF Init
  <2>3. sources \in SourceStates BY SourcesAssumption DEF Init
  <2> QED BY <2>1, <2>2, <2>3, SMT DEF Init, ConfigUnique, TypeOK, IsInjective, Places
<1>2. ASSUME NEW w \in Actors
      PROVE At(w, pc[w], job[w], pool_lock, config_lock, pool, lines, pruned)
  <2>1. pc[w] = "idle" /\ job[w] = Fresh BY DEF Init
  <2> QED BY <2>1, FreshJob DEF At, PoolBusy, ConfigBusy, Draining
<1> QED BY <1>1, <1>2 DEF PoolInv

\* ... every step keeps it ...
LEMMA NextKeeps ==
    ASSUME PoolInv, [Next]_vars PROVE PoolInv'
<1>1. CASE UNCHANGED vars
  <2>1. /\ pool' = pool /\ lines' = lines /\ sources' = sources /\ pool_lock' = pool_lock
        /\ config_lock' = config_lock /\ pc' = pc /\ job' = job /\ pruned' = pruned
    BY <1>1 DEF vars, files, locks
  <2> QED BY <2>1 DEF PoolInv, ConfigUnique, TypeOK
<1>2. ASSUME NEW w \in Workers, WorkerStep(w) PROVE PoolInv'
  BY <1>2, BeginKeeps, FetchAndLoadKeeps, MergeSaveKeeps, MigrateLoadKeeps, MigrateWriteKeeps,
     DrainLoadKeeps, WalkEndsKeeps, PromoteLoadKeeps, PromoteWriteKeeps, ConfirmLoadKeeps,
     ConfirmSaveKeeps DEF WorkerStep
<1>3. ASSUME NEW w \in Workers, \/ PromoteFails(w) \/ ConfirmFails(w) \/ \E l \in Lines : Probe(w, l) PROVE PoolInv'
  BY <1>3, PromoteFailsKeeps, ConfirmFailsKeeps, ProbeKeeps
<1>4. ASSUME NEW p \in Pruners, PruneLoad(p) \/ PruneWrite(p) PROVE PoolInv'
  BY <1>4, PruneLoadKeeps, PruneWriteKeeps
<1>5. ASSUME NEW a \in Actors, Abandon(a) PROVE PoolInv'
  BY <1>5, AbandonKeeps
<1> QED BY <1>1, <1>2, <1>3, <1>4, <1>5 DEF Next

\* ... and so it always holds.
LEMMA PoolInvariant == Spec => []PoolInv
<1>1. Init => PoolInv BY InitialPool
<1>2. PoolInv /\ [Next]_vars => PoolInv' BY NextKeeps
<1> QED BY <1>1, <1>2, PTL DEF Spec

\* No bridge line is ever twice in the working config and no key twice in the pool,
\* however refreshes, drains, migrations and health rounds interleave and fail
\* (promote_bridges_in_config, push_unique).
THEOREM ConfigStaysUnique == Spec => []ConfigUnique
<1>1. PoolInv => ConfigUnique BY DEF PoolInv
<1> QED BY <1>1, PoolInvariant, PTL

\* Who writes the two files.
LEMMA Writers ==
    ASSUME [Next]_vars
    PROVE /\ pool' # pool => \E w \in Workers : MergeSave(w) \/ ConfirmSave(w)
          /\ lines' # lines => \/ \E w \in Workers : PromoteWrite(w) \/ PromoteFails(w) \/ MigrateWrite(w)
                               \/ \E p \in Pruners : PruneWrite(p)
<1>1. CASE UNCHANGED vars BY <1>1 DEF vars, files
<1>2. ASSUME NEW w \in Workers, WorkerStep(w)
      PROVE /\ pool' = pool \/ MergeSave(w) \/ ConfirmSave(w)
            /\ lines' = lines \/ PromoteWrite(w) \/ MigrateWrite(w)
  <2>1. CASE Begin(w) BY <2>1 DEF Begin, files
  <2>2. CASE FetchAndLoad(w) BY <2>2 DEF FetchAndLoad, files
  <2>3. CASE MergeSave(w) BY <2>3 DEF MergeSave
  <2>4. CASE MigrateLoad(w) BY <2>4 DEF MigrateLoad, files
  <2>5. CASE MigrateWrite(w) BY <2>5 DEF MigrateWrite
  <2>6. CASE DrainLoad(w) BY <2>6 DEF DrainLoad, files
  <2>7. CASE WalkEnds(w) BY <2>7 DEF WalkEnds, files
  <2>8. CASE PromoteLoad(w) BY <2>8 DEF PromoteLoad, files
  <2>9. CASE PromoteWrite(w) BY <2>9 DEF PromoteWrite
  <2>10. CASE ConfirmLoad(w) BY <2>10 DEF ConfirmLoad, files
  <2>11. CASE ConfirmSave(w) BY <2>11 DEF ConfirmSave
  <2> QED BY <1>2, <2>1, <2>2, <2>3, <2>4, <2>5, <2>6, <2>7, <2>8, <2>9, <2>10, <2>11, ZenonT(60) DEF WorkerStep
<1>3. ASSUME NEW w \in Workers, \/ PromoteFails(w) \/ ConfirmFails(w) \/ \E l \in Lines : Probe(w, l)
      PROVE pool' = pool /\ (lines' = lines \/ PromoteFails(w))
  <2>1. CASE PromoteFails(w) BY <2>1 DEF PromoteFails
  <2>2. CASE ConfirmFails(w) BY <2>2 DEF ConfirmFails, files
  <2>3. CASE \E l \in Lines : Probe(w, l) BY <2>3 DEF Probe, files
  <2> QED BY <1>3, <2>1, <2>2, <2>3
<1>4. ASSUME NEW p \in Pruners, PruneLoad(p) \/ PruneWrite(p)
      PROVE pool' = pool /\ (lines' = lines \/ PruneWrite(p))
  <2>1. CASE PruneLoad(p) BY <2>1 DEF PruneLoad, files
  <2>2. CASE PruneWrite(p) BY <2>2 DEF PruneWrite
  <2> QED BY <1>4, <2>1, <2>2
<1>5. ASSUME NEW a \in Actors, Abandon(a) PROVE pool' = pool /\ lines' = lines
  BY <1>5 DEF Abandon, files
<1> QED BY <1>1, <1>2, <1>3, <1>4, <1>5 DEF Next

\* What each of them may take away or add.
LEMMA PoolStep ==
    ASSUME PoolInv, [Next]_vars, pool' # pool
    PROVE \E w \in Workers :
            \/ /\ pc[w] = "merging" /\ KeysOf(pool) \subseteq KeysOf(pool')
               /\ KeysOf(pool') \subseteq KeysOf(pool) \cup KeysOf(job[w].fetched)
            \/ /\ pc[w] = "confirming" /\ KeysOf(pool') \subseteq KeysOf(pool)
               /\ KeysOf(pool) \ KeysOf(pool') \subseteq Keys(job[w].dead) \cup KeysOf(lines) \cup pruned
<1>1. PICK w \in Workers : MergeSave(w) \/ ConfirmSave(w) BY Writers
<1>2. CASE MergeSave(w)
  <2>1. pc[w] = "merging" BY <1>2 DEF MergeSave
  <2>2. Range(pool) \subseteq Range(pool') /\ Range(pool') \subseteq Range(pool) \cup Range(job[w].fetched)
    BY <1>2, MergeSaveWrites
  <2>3. KeysOf(pool) \subseteq KeysOf(pool') /\ KeysOf(pool') \subseteq KeysOf(pool) \cup KeysOf(job[w].fetched)
    BY <2>2 DEF KeysOf, Keys
  <2> QED BY <2>1, <2>3
<1>3. CASE ConfirmSave(w)
  <2>1. w \in Actors BY DEF Actors
  <2>2. pc[w] = "confirming" /\ KeysOf(pool') = KeysOf(pool) \ Keys(Discard(w)) BY <1>3, ConfirmSaveWrites
  <2>3. job[w] \in Jobs /\ At(w, pc[w], job[w], pool_lock, config_lock, pool, lines, pruned) BY <2>1, Typed
  <2>4. job[w].ok => KeysOf(job[w].promoted) \subseteq KeysOf(lines) \cup pruned BY <2>2, <2>3 DEF At
  <2>5. Keys(Discard(w)) \subseteq Keys(job[w].dead) \cup KeysOf(lines) \cup pruned
    <3>1. CASE job[w].ok
      <4>1. Discard(w) = job[w].dead \cup Range(job[w].promoted) BY <3>1 DEF Discard
      <4>2. Keys(Discard(w)) \subseteq Keys(job[w].dead) \cup KeysOf(job[w].promoted) BY <4>1 DEF KeysOf, Keys
      <4> QED BY <2>4, <3>1, <4>2
    <3>2. CASE ~ job[w].ok
      <4>1. Discard(w) = job[w].dead BY <3>2 DEF Discard
      <4> QED BY <4>1
    <3> QED BY <3>1, <3>2
  <2> QED BY <2>2, <2>5
<1> QED BY <1>1, <1>2, <1>3

\* The same for the config.
LEMMA LinesStep ==
    ASSUME PoolInv, [Next]_vars, lines' # lines
    PROVE \/ \E w \in Workers :
               /\ pc[w] = "promoting" /\ KeysOf(lines) \subseteq KeysOf(lines')
               /\ KeysOf(lines') \subseteq KeysOf(lines) \cup KeysOf(job[w].promoted)
          \/ \E p \in Pruners :
               pc[p] = "pruning" /\ KeysOf(lines') = KeysOf(lines) \ Keys(job[p].dead)
<1>1. \/ \E w \in Workers : PromoteWrite(w) \/ PromoteFails(w) \/ MigrateWrite(w)
      \/ \E p \in Pruners : PruneWrite(p)
  BY Writers
<1>2. ASSUME NEW w \in Workers, PromoteWrite(w) \/ PromoteFails(w)
      PROVE pc[w] = "promoting" /\ lines' = WithPromoted(w)
  <2>1. CASE PromoteWrite(w) BY <2>1, PromoteWriteWrites DEF PromoteWrite
  <2>2. CASE PromoteFails(w) BY <2>2 DEF PromoteFails
  <2> QED BY <1>2, <2>1, <2>2
<1>3. ASSUME NEW w \in Workers, pc[w] = "promoting", lines' = WithPromoted(w)
      PROVE KeysOf(lines) \subseteq KeysOf(lines') /\ KeysOf(lines') \subseteq KeysOf(lines) \cup KeysOf(job[w].promoted)
  BY <1>3, Promotion
<1>4. ASSUME NEW w \in Workers, MigrateWrite(w) PROVE FALSE BY <1>4, MigrateWriteKeeps
<1>5. ASSUME NEW p \in Pruners, PruneWrite(p)
      PROVE pc[p] = "pruning" /\ KeysOf(lines') = KeysOf(lines) \ Keys(job[p].dead)
  BY <1>5, PruneWriteWrites
<1> QED BY <1>1, <1>2, <1>3, <1>4, <1>5

\* A candidate leaves the pool only once its outcome is durable, and a bridge leaves
\* the config only by the verdict of a health round (drain_pool_with, prune_bridges_from_config): no write
\* of a stale snapshot drops what another task added.
THEOREM NothingIsLost == Spec => NeverLost
<1>1. ASSUME PoolInv, [Next]_vars
      PROVE [/\ pool' # pool => \A k \in KeysOf(pool) \ KeysOf(pool') :
                  \/ k \in KeysOf(lines) \union pruned
                  \/ \E w \in Workers : pc[w] = "confirming" /\ k \in Keys(job[w].dead)
             /\ lines' # lines => \A k \in KeysOf(lines) \ KeysOf(lines') :
                  \E p \in Pruners : pc[p] = "pruning" /\ k \in Keys(job[p].dead)]_vars
  <2>1. ASSUME pool' # pool, NEW k \in KeysOf(pool) \ KeysOf(pool')
        PROVE \/ k \in KeysOf(lines) \union pruned
              \/ \E w \in Workers : pc[w] = "confirming" /\ k \in Keys(job[w].dead)
    BY <1>1, <2>1, PoolStep
  <2>2. ASSUME lines' # lines, NEW k \in KeysOf(lines) \ KeysOf(lines')
        PROVE \E p \in Pruners : pc[p] = "pruning" /\ k \in Keys(job[p].dead)
    BY <1>1, <2>2, LinesStep
  <2> QED BY <2>1, <2>2
<1> QED BY <1>1, PoolInvariant, PTL DEF Spec, NeverLost

\* Only a refresh adds to the pool, and only what it fetched; only a promotion adds
\* to the config (CandidatePool::merge, promote_bridges_in_config): no stale snapshot
\* brings back what was shed.
THEOREM NothingIsResurrected == Spec => NoResurrection
<1>1. ASSUME PoolInv, [Next]_vars
      PROVE [/\ pool' # pool => \A k \in KeysOf(pool') \ KeysOf(pool) :
                  \E w \in Workers : pc[w] = "merging" /\ k \in KeysOf(job[w].fetched)
             /\ lines' # lines => \A k \in KeysOf(lines') \ KeysOf(lines) :
                  \E w \in Workers : pc[w] = "promoting" /\ k \in KeysOf(job[w].promoted)]_vars
  <2>1. ASSUME pool' # pool, NEW k \in KeysOf(pool') \ KeysOf(pool)
        PROVE \E w \in Workers : pc[w] = "merging" /\ k \in KeysOf(job[w].fetched)
    BY <1>1, <2>1, PoolStep
  <2>2. ASSUME lines' # lines, NEW k \in KeysOf(lines') \ KeysOf(lines)
        PROVE \E w \in Workers : pc[w] = "promoting" /\ k \in KeysOf(job[w].promoted)
    BY <1>1, <2>2, LinesStep
  <2> QED BY <2>1, <2>2
<1> QED BY <1>1, PoolInvariant, PTL DEF Spec, NoResurrection

=============================================================================
