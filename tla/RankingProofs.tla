--------------------------- MODULE RankingProofs ---------------------------
(***************************************************************************)
(* The list of the best, for any number of users, any names that are not   *)
(* valid, any length of the list and of the replies, and any number of     *)
(* restarts: whoever asks is sent the best of the board in their order.    *)
(***************************************************************************)
EXTENDS Ranking, TLAPS, FiniteSetTheorems, SequenceTheorems

----------------------------------------------------------------------------
(* Sorting a finite set: what Sorted returns when the pairs in R order S.   *)

Order(S, R) ==
    /\ \A x, y \in S : x # y => <<x, y>> \in R \/ <<y, x>> \in R
    /\ \A x, y \in S : ~(<<x, y>> \in R /\ <<y, x>> \in R)
    /\ \A x, y, z \in S : <<x, y>> \in R /\ <<y, z>> \in R => <<x, z>> \in R

Before(S, R, x) == {y \in S : <<y, x>> \in R}
InOrder(S, R) ==
    [k \in 1 .. Cardinality(S) |-> CHOOSE x \in S : Cardinality(Before(S, R, x)) = k - 1]

LEMMA BeforeCount ==
    ASSUME NEW S, NEW R, IsFiniteSet(S), Order(S, R), NEW x \in S
    PROVE  /\ IsFiniteSet(Before(S, R, x))
           /\ Cardinality(Before(S, R, x)) \in Nat
           /\ Cardinality(Before(S, R, x)) < Cardinality(S)
<1>1. Before(S, R, x) \in SUBSET S /\ x \notin Before(S, R, x)
  BY DEF Before, Order
<1>2. IsFiniteSet(Before(S, R, x)) /\ Cardinality(Before(S, R, x)) <= Cardinality(S)
      /\ Cardinality(Before(S, R, x)) # Cardinality(S)
  BY <1>1, FS_Subset
<1>3. Cardinality(S) \in Nat /\ Cardinality(Before(S, R, x)) \in Nat
  BY <1>2, FS_CardinalityType
<1>4. QED BY <1>2, <1>3

LEMMA BeforeGrows ==
    ASSUME NEW S, NEW R, IsFiniteSet(S), Order(S, R), NEW x \in S, NEW y \in S, <<x, y>> \in R
    PROVE  Cardinality(Before(S, R, x)) < Cardinality(Before(S, R, y))
<1>1. Before(S, R, x) \in SUBSET Before(S, R, y) /\ x \in Before(S, R, y) /\ x \notin Before(S, R, x)
  BY DEF Before, Order
<1>2. IsFiniteSet(Before(S, R, y)) /\ Cardinality(Before(S, R, x)) \in Nat
      /\ Cardinality(Before(S, R, y)) \in Nat
  BY BeforeCount
<1>3. QED BY <1>1, <1>2, FS_Subset

\* Who has as many before him is the same.
LEMMA BeforeTells ==
    ASSUME NEW S, NEW R, IsFiniteSet(S), Order(S, R), NEW x \in S, NEW y \in S,
           Cardinality(Before(S, R, x)) = Cardinality(Before(S, R, y))
    PROVE  x = y
<1>1. Cardinality(Before(S, R, x)) \in Nat
  BY BeforeCount
<1>2. <<x, y>> \notin R /\ <<y, x>> \notin R
  BY <1>1, BeforeGrows
<1>3. QED BY <1>2 DEF Order

LEMMA SortedIs ==
    ASSUME NEW S, NEW R, IsFiniteSet(S), Order(S, R), NEW s, s = InOrder(S, R)
    PROVE  /\ Cardinality(S) \in Nat
           /\ s \in Seq(S) /\ Len(s) = Cardinality(S) /\ Range(s) = S
           /\ \A k \in 1 .. Len(s) : s[k] \in S /\ Cardinality(Before(S, R, s[k])) = k - 1
           /\ \A j, k \in 1 .. Len(s) : j < k <=> <<s[j], s[k]>> \in R
<1> PICK n : n = Cardinality(S)
  OBVIOUS
<1>1. n \in Nat /\ IsFiniteSet(1 .. n) /\ Cardinality(1 .. n) = n
  BY FS_CardinalityType, FS_Interval
<1>2. PICK f : f = [x \in S |-> Cardinality(Before(S, R, x)) + 1]
  OBVIOUS
<1>3. f \in [S -> 1 .. n]
  BY <1>1, <1>2, BeforeCount
<1>4. \A x, y \in S : f[x] = f[y] => x = y
  BY <1>1, <1>2, BeforeCount, BeforeTells
<1>5. f \in Injection(S, 1 .. n)
  BY <1>3, <1>4 DEF Injection, IsInjective
<1>6. f \in Surjection(S, 1 .. n)
  BY <1>1, <1>5, FS_Injection
<1>7. \A k \in 1 .. n : \E x \in S : f[x] = k
  BY <1>6 DEF Surjection
<1>8. ASSUME NEW k \in 1 .. n
      PROVE  s[k] \in S /\ Cardinality(Before(S, R, s[k])) = k - 1
  <2>1. PICK x \in S : f[x] = k
    BY <1>7
  <2>2. Cardinality(Before(S, R, x)) = k - 1
    BY <1>1, <1>2, <2>1, BeforeCount
  <2>3. s[k] = CHOOSE y \in S : Cardinality(Before(S, R, y)) = k - 1
    BY DEF InOrder
  <2>4. QED BY <2>2, <2>3
<1>9. s \in Seq(S) /\ Len(s) = n /\ DOMAIN s = 1 .. n
  <2>1. s \in [1 .. n -> S]
    BY <1>8 DEF InOrder
  <2>2. QED BY <1>1, <2>1
<1>10. Range(s) = S
  <2>1. ASSUME NEW x \in S PROVE \E k \in DOMAIN s : s[k] = x
    <3>1. f[x] \in 1 .. n /\ f[x] = Cardinality(Before(S, R, x)) + 1
      BY <1>2, <1>3
    <3>2. s[f[x]] \in S /\ Cardinality(Before(S, R, s[f[x]])) = f[x] - 1
      BY <1>8, <3>1
    <3>3. Cardinality(Before(S, R, s[f[x]])) = Cardinality(Before(S, R, x))
      BY <3>1, <3>2, BeforeCount
    <3>4. QED BY <1>9, <3>1, <3>2, <3>3, BeforeTells
  <2>2. QED BY <1>8, <1>9, <2>1 DEF Range
<1>11. ASSUME NEW j \in 1 .. n, NEW k \in 1 .. n
       PROVE  j < k <=> <<s[j], s[k]>> \in R
  <2>1. /\ s[j] \in S /\ Cardinality(Before(S, R, s[j])) = j - 1
        /\ s[k] \in S /\ Cardinality(Before(S, R, s[k])) = k - 1
    BY <1>8
  <2>2. <<s[j], s[k]>> \in R => j < k
    BY <1>1, <2>1, BeforeGrows
  <2>3. <<s[k], s[j]>> \in R => k < j
    BY <1>1, <2>1, BeforeGrows
  <2>4. s[j] = s[k] => j = k
    BY <1>1, <2>1
  <2>5. QED BY <1>1, <2>1, <2>2, <2>3, <2>4 DEF Order
<1>12. QED BY <1>1, <1>8, <1>9, <1>10, <1>11

----------------------------------------------------------------------------
(* Types.                                                                  *)

LEMMA UserFacts ==
    /\ \A u \in User : u \in Nat
    /\ Cardinality(User) \in Nat /\ IsFiniteSet(User)
    /\ None \notin Nat
BY NameAssumption, FS_CardinalityType

\* Who is on the board, and the pairs of whom the first is ahead.
OnBoard == {u \in User : board[u] # None}
Ahead   == {q \in OnBoard \X OnBoard : IsAhead(q[1], q[2])}

LEMMA AheadOrders ==
    ASSUME board \in [User -> (0 .. MaxExp) \union {None}]
    PROVE  IsFiniteSet(OnBoard) /\ Order(OnBoard, Ahead)
<1>1. \A u \in OnBoard : u \in Nat /\ board[u] \in Nat
  BY UserFacts, BoundAssumption DEF OnBoard
<1>2. \A x, y \in OnBoard : <<x, y>> \in Ahead <=> IsAhead(x, y)
  BY DEF Ahead
<1>3. IsFiniteSet(OnBoard)
  BY UserFacts, FS_Subset DEF OnBoard
<1>4. QED BY <1>1, <1>2, <1>3 DEF Order, IsAhead

LEMMA BoardIsSorted == Leaderboard = InOrder(OnBoard, Ahead)
<1>1. \A x \in OnBoard : {y \in OnBoard : IsAhead(y, x)} = Before(OnBoard, Ahead, x)
  BY DEF Before, Ahead
<1>2. Leaderboard =
        [k \in 1 .. Cardinality(OnBoard) |->
           CHOOSE x \in OnBoard : Cardinality({y \in OnBoard : IsAhead(y, x)}) = k - 1]
  BY DEF Leaderboard, Sorted, OnBoard
<1>3. ASSUME NEW k \in 1 .. Cardinality(OnBoard)
      PROVE  InOrder(OnBoard, Ahead)[k]
             = CHOOSE x \in OnBoard : Cardinality({y \in OnBoard : IsAhead(y, x)}) = k - 1
  <2>1. InOrder(OnBoard, Ahead)[k]
        = CHOOSE x \in OnBoard : Cardinality(Before(OnBoard, Ahead, x)) = k - 1
    BY DEF InOrder
  <2>2. QED BY <1>1, <2>1
<1>4. QED BY <1>2, <1>3 DEF InOrder

LEMMA BoardIs ==
    ASSUME board \in [User -> (0 .. MaxExp) \union {None}]
    PROVE  /\ Cardinality(OnBoard) \in Nat /\ Cardinality(OnBoard) <= Cardinality(User)
           /\ Leaderboard \in Seq(OnBoard) /\ Len(Leaderboard) = Cardinality(OnBoard)
           /\ Range(Leaderboard) = OnBoard
           /\ \A k \in 1 .. Len(Leaderboard) : Leaderboard[k] \in OnBoard
           /\ \A j, k \in 1 .. Len(Leaderboard) :
                j < k <=> IsAhead(Leaderboard[j], Leaderboard[k])
<1>1. IsFiniteSet(OnBoard) /\ Order(OnBoard, Ahead)
  BY AheadOrders
<1>2. PICK L : L = Leaderboard
  OBVIOUS
<1>3. /\ Cardinality(OnBoard) \in Nat
      /\ L \in Seq(OnBoard) /\ Len(L) = Cardinality(OnBoard) /\ Range(L) = OnBoard
      /\ \A k \in 1 .. Len(L) : L[k] \in OnBoard
      /\ \A j, k \in 1 .. Len(L) : j < k <=> <<L[j], L[k]>> \in Ahead
  BY <1>1, <1>2, BoardIsSorted, SortedIs
<1>4. OnBoard \in SUBSET User
  BY DEF OnBoard
<1>5. Cardinality(OnBoard) <= Cardinality(User)
  BY <1>4, UserFacts, FS_Subset
<1>6. \A j, k \in 1 .. Len(L) : <<L[j], L[k]>> \in Ahead <=> IsAhead(L[j], L[k])
  BY <1>3 DEF Ahead
<1>7. QED BY <1>2, <1>3, <1>5, <1>6

LEMMA AtMostIs ==
    ASSUME NEW S, NEW s \in Seq(S), NEW n \in Nat
    PROVE  /\ AtMost(s, n) \in Seq(S)
           /\ Len(AtMost(s, n)) = IF Len(s) < n THEN Len(s) ELSE n
           /\ \A k \in 1 .. Len(AtMost(s, n)) : AtMost(s, n)[k] = s[k]
<1> PICK m : m = IF Len(s) < n THEN Len(s) ELSE n
  OBVIOUS
<1>1. m \in Nat /\ m <= Len(s) /\ Len(s) \in Nat
  OBVIOUS
<1>2. AtMost(s, n) = SubSeq(s, 1, m)
  BY DEF AtMost
<1>3. \A k \in 1 .. m : k \in 1 .. Len(s)
  BY <1>1
<1>4. SubSeq(s, 1, m) \in Seq(S) /\ Len(SubSeq(s, 1, m)) = m
      /\ \A k \in 1 .. m : SubSeq(s, 1, m)[k] = s[k]
  BY <1>1, <1>3, SubSeqProperties
<1>5. QED BY <1>2, <1>4

\* A reply is what the board has from start_index on, and no more than was wanted.
LEMMA ReplyIs ==
    ASSUME board \in [User -> (0 .. MaxExp) \union {None}], start \in Nat,
           names \in Seq(User), Len(names) <= Top
    PROVE  /\ Wanted \in Nat /\ (Len(names) < Top => Wanted > 0)
           /\ Reply \in Seq(User)
           /\ Len(Reply) \in Nat
           /\ start > Cardinality(OnBoard) => Len(Reply) = 0
           /\ start <= Cardinality(OnBoard) =>
                /\ Len(Reply) = IF Cardinality(OnBoard) - start < Wanted
                                THEN Cardinality(OnBoard) - start ELSE Wanted
                /\ \A k \in 1 .. Len(Reply) : /\ start + k \in 1 .. Cardinality(OnBoard)
                                              /\ Reply[k] = Leaderboard[start + k]
<1> PICK L, n, F, W : L = Leaderboard /\ n = Cardinality(OnBoard) /\ F = From(L, start + 1) /\ W = Wanted
  OBVIOUS
<1>1. /\ n \in Nat /\ L \in Seq(OnBoard) /\ Len(L) = n
      /\ \A k \in 1 .. n : L[k] \in OnBoard
  BY BoardIs
<1>2. L \in Seq(User)
  BY <1>1 DEF OnBoard
<1>3. W \in Nat /\ (Len(names) < Top => W > 0)
  BY TopAssumption DEF Wanted
<1>4. F = SubSeq(L, start + 1, n)
  BY <1>1 DEF From
<1>5. /\ F \in Seq(User)
      /\ Len(F) = IF start <= n THEN n - start ELSE 0
      /\ \A k \in 1 .. Len(F) : F[k] = L[start + k]
  <2>1. \A k \in (start + 1) .. n : k \in 1 .. n
    BY <1>1
  <2>2. \A k \in (start + 1) .. n : L[k] \in User
    BY <1>1, <1>2, <2>1
  <2>3. /\ F \in Seq(User)
        /\ Len(F) = IF start + 1 <= n THEN n - (start + 1) + 1 ELSE 0
        /\ \A k \in 1 .. n - (start + 1) + 1 : F[k] = L[(start + 1) + k - 1]
    <3>1. PICK a : a = start + 1
      OBVIOUS
    <3>2. a \in Int /\ n \in Int /\ \A i \in a .. n : L[i] \in User
      BY <1>1, <2>2, <3>1
    <3>3. /\ SubSeq(L, a, n) \in Seq(User)
          /\ Len(SubSeq(L, a, n)) = IF a <= n THEN n - a + 1 ELSE 0
          /\ \A i \in 1 .. n - a + 1 : SubSeq(L, a, n)[i] = L[a + i - 1]
      BY <3>2, SubSeqProperties
    <3>4. QED BY <1>4, <3>1, <3>3
  <2>4. Len(F) = IF start <= n THEN n - start ELSE 0
    BY <1>1, <2>3
  <2>5. ASSUME NEW k \in 1 .. Len(F) PROVE F[k] = L[start + k]
    <3>1. k \in 1 .. n - (start + 1) + 1 /\ (start + 1) + k - 1 = start + k
      BY <1>1, <2>4
    <3>2. F[k] = L[(start + 1) + k - 1]
      BY <2>3, <3>1
    <3>3. QED BY <3>1, <3>2
  <2>6. QED BY <2>3, <2>4, <2>5
<1>6. /\ Reply \in Seq(User) /\ Reply = AtMost(F, W)
      /\ Len(Reply) = IF Len(F) < W THEN Len(F) ELSE W
      /\ \A k \in 1 .. Len(Reply) : Reply[k] = F[k]
  BY <1>3, <1>5, AtMostIs DEF Reply
<1>7. QED BY <1>1, <1>3, <1>5, <1>6

\* The positions of the valid names, and the order of numbers.
Valid(arr) == {i \in DOMAIN arr : IsValidName(arr[i])}
ValidBefore(arr, i) == {j \in Valid(arr) : j < i}
LessIn(S)  == {q \in S \X S : q[1] < q[2]}

LEMMA ValidIs ==
    ASSUME NEW S, NEW arr \in Seq(S), NEW good, good = ValidNames(arr)
    PROVE  /\ Cardinality(Valid(arr)) \in Nat /\ IsFiniteSet(Valid(arr))
           /\ good \in Seq(S) /\ Len(good) = Cardinality(Valid(arr))
           /\ \A k \in 1 .. Len(good) :
                \E i \in Valid(arr) : /\ good[k] = arr[i]
                                      /\ Cardinality(ValidBefore(arr, i)) = k - 1
<1> PICK V, R, at : V = Valid(arr) /\ R = LessIn(V) /\ at = InOrder(V, R)
  OBVIOUS
<1>1. Len(arr) \in Nat /\ DOMAIN arr = 1 .. Len(arr) /\ V \in SUBSET (1 .. Len(arr))
  BY DEF Valid
<1>2. IsFiniteSet(V)
  <2>1. IsFiniteSet(1 .. Len(arr))
    BY <1>1, FS_Interval
  <2>2. QED BY <1>1, <2>1, FS_Subset
<1>3. \A i \in V : i \in Nat
  BY <1>1
<1>4. \A i, j \in V : <<i, j>> \in R <=> i < j
  BY DEF LessIn
<1>5. Order(V, R)
  BY <1>3, <1>4 DEF Order
<1>6. \A i \in V : {j \in V : j < i} = Before(V, R, i)
  BY <1>4 DEF Before
<1>7. /\ Cardinality(V) \in Nat
      /\ at \in Seq(V) /\ Len(at) = Cardinality(V)
      /\ \A k \in 1 .. Len(at) : at[k] \in V /\ Cardinality(Before(V, R, at[k])) = k - 1
  BY <1>2, <1>5, SortedIs
<1>8. good = [k \in 1 .. Cardinality(V) |->
                arr[CHOOSE i \in V : Cardinality({j \in V : j < i}) = k - 1]]
  BY DEF ValidNames, Valid
<1>9. ASSUME NEW k \in 1 .. Cardinality(V) PROVE good[k] = arr[at[k]] /\ arr[at[k]] \in S
  <2>1. at[k] = CHOOSE i \in V : Cardinality(Before(V, R, i)) = k - 1
    BY DEF InOrder
  <2>2. at[k] = CHOOSE i \in V : Cardinality({j \in V : j < i}) = k - 1
    BY <1>6, <2>1
  <2>3. good[k] = arr[at[k]]
    BY <1>8, <2>2
  <2>4. at[k] \in 1 .. Len(arr)
    BY <1>1, <1>7
  <2>5. QED BY <2>3, <2>4
<1>10. good \in Seq(S) /\ Len(good) = Cardinality(V)
  <2>1. good \in [1 .. Cardinality(V) -> S]
    BY <1>8, <1>9
  <2>2. QED BY <1>7, <2>1
<1>11. \A i \in V : ValidBefore(arr, i) = Before(V, R, i)
  BY <1>6 DEF ValidBefore
<1>12. QED BY <1>2, <1>7, <1>9, <1>10, <1>11

----------------------------------------------------------------------------
(* A list of ranks.                                                        *)

RanksOf(N) == {[name |-> u, level |-> hash[u]] : u \in N}
Better(T)  == {q \in T \X T : IsBetter(q[1], q[2])}

LEMMA RanksAreSorted ==
    ASSUME NEW N, N \subseteq User, hash \in [User -> 0 .. MaxLevel],
           NEW s, s = SortRanks(RanksOf(N))
    PROVE  /\ s \in Seq(Rank)
           /\ {r.name : r \in Range(s)} = N
           /\ Len(s) = Cardinality(N)
           /\ \A j, k \in 1 .. Len(s) : j < k => IsBetter(s[j], s[k])
<1> PICK T, R : T = RanksOf(N) /\ R = Better(T)
  OBVIOUS
<1>1. T \subseteq Rank /\ {r.name : r \in T} = N
      /\ \A r \in T : r.name \in N /\ r.name \in Nat /\ r.level \in Nat
                      /\ r = [name |-> r.name, level |-> hash[r.name]]
  <2>1. \A u \in N : u \in User /\ u \in Nat /\ hash[u] \in 0 .. MaxLevel /\ hash[u] \in Nat
    BY UserFacts, BoundAssumption
  <2>2. \A r \in T : \E u \in N : r = [name |-> u, level |-> hash[u]]
    BY DEF RanksOf
  <2>3. \A r \in T : r.name \in N /\ r.name \in Nat /\ r.level \in Nat
                     /\ r = [name |-> r.name, level |-> hash[r.name]]
    BY <2>1, <2>2
  <2>4. T \subseteq Rank
    BY <2>1, <2>2 DEF Rank
  <2>5. ASSUME NEW u \in N PROVE \E r \in T : r.name = u
    <3>1. [name |-> u, level |-> hash[u]] \in T
      BY DEF RanksOf
    <3>2. QED BY <3>1
  <2>6. {r.name : r \in T} \subseteq N
    BY <2>3
  <2>7. N \subseteq {r.name : r \in T}
    BY <2>5
  <2>8. QED BY <2>3, <2>4, <2>6, <2>7
<1>2. IsFiniteSet(N)
  BY UserFacts, FS_Subset
<1>3. PICK f : f = [u \in N |-> [name |-> u, level |-> hash[u]]]
  OBVIOUS
<1>4. f \in Bijection(N, T)
  <2>1. f \in [N -> T] /\ \A u \in N : f[u] = [name |-> u, level |-> hash[u]]
    BY <1>3 DEF RanksOf
  <2>2. \A u, v \in N : f[u] = f[v] => u = v
    <3>1. \A u \in N : f[u].name = u
      BY <2>1
    <3>2. QED BY <3>1
  <2>3. \A r \in T : \E u \in N : f[u] = r
    BY <2>1 DEF RanksOf
  <2>4. QED BY <2>1, <2>2, <2>3 DEF Bijection, Injection, Surjection, IsInjective
<1>5. IsFiniteSet(T) /\ Cardinality(T) = Cardinality(N)
  BY <1>2, <1>4, FS_Bijection DEF ExistsBijection
<1>6. \A a, b \in T : <<a, b>> \in R <=> IsBetter(a, b)
  BY DEF Better
<1>7. Order(T, R)
  <2>1. \A a, b \in T : a # b => IsBetter(a, b) \/ IsBetter(b, a)
    <3>1. \A a, b \in T : a.name = b.name => a = b
      BY <1>1
    <3>2. QED BY <1>1, <3>1 DEF IsBetter
  <2>2. \A a, b \in T : ~(IsBetter(a, b) /\ IsBetter(b, a))
    BY <1>1 DEF IsBetter
  <2>3. \A a, b, c \in T : IsBetter(a, b) /\ IsBetter(b, c) => IsBetter(a, c)
    BY <1>1 DEF IsBetter
  <2>4. QED BY <1>6, <2>1, <2>2, <2>3 DEF Order
<1>8. s = InOrder(T, R)
  <2>1. \A x \in T : {y \in T : IsBetter(y, x)} = Before(T, R, x)
    BY <1>6 DEF Before
  <2>2. s = [k \in 1 .. Cardinality(T) |->
               CHOOSE x \in T : Cardinality({y \in T : IsBetter(y, x)}) = k - 1]
    BY DEF SortRanks, Sorted
  <2>3. ASSUME NEW k \in 1 .. Cardinality(T)
        PROVE  InOrder(T, R)[k] = CHOOSE x \in T : Cardinality({y \in T : IsBetter(y, x)}) = k - 1
    <3>1. InOrder(T, R)[k] = CHOOSE x \in T : Cardinality(Before(T, R, x)) = k - 1
      BY DEF InOrder
    <3>2. QED BY <2>1, <3>1
  <2>4. QED BY <2>2, <2>3 DEF InOrder
<1>9. /\ s \in Seq(T) /\ Len(s) = Cardinality(T) /\ Range(s) = T
      /\ \A k \in 1 .. Len(s) : s[k] \in T
      /\ \A j, k \in 1 .. Len(s) : j < k <=> <<s[j], s[k]>> \in R
  BY <1>5, <1>7, <1>8, SortedIs
<1>10. s \in Seq(Rank)
  BY <1>1, <1>9
<1>11. QED BY <1>1, <1>5, <1>6, <1>9, <1>10

----------------------------------------------------------------------------
(* Every step keeps the types, no more than Top names are held, and rows    *)
(* are loaded at start-up alone.                                            *)

Types == TypeOK /\ Len(names) <= Top /\ (toLoad # {} => phase = "load")

\* What a round of the search adds.
LEMMA FetchNames ==
    ASSUME Types, NEW got, got = AtMost(names \o ValidNames(Reply), Top)
    PROVE  /\ Reply \in Seq(User) /\ ValidNames(Reply) \in Seq(User)
           /\ Len(ValidNames(Reply)) = Cardinality(Valid(Reply))
           /\ Cardinality(Valid(Reply)) \in Nat
           /\ names \o ValidNames(Reply) \in Seq(User)
           /\ got \in Seq(User) /\ Len(got) <= Top
           /\ start + Len(Reply) \in 0 .. Cardinality(User)
<1>1. /\ board \in [User -> (0 .. MaxExp) \union {None}] /\ names \in Seq(User)
      /\ start \in Nat /\ start <= Cardinality(User) /\ Len(names) <= Top
  BY UserFacts DEF Types, TypeOK
<1>2. /\ Reply \in Seq(User) /\ Len(Reply) \in Nat
      /\ start > Cardinality(OnBoard) => Len(Reply) = 0
      /\ start <= Cardinality(OnBoard) => Len(Reply) <= Cardinality(OnBoard) - start
      /\ Cardinality(OnBoard) \in Nat /\ Cardinality(OnBoard) <= Cardinality(User)
  BY <1>1, ReplyIs, BoardIs
<1>3. /\ ValidNames(Reply) \in Seq(User)
      /\ Len(ValidNames(Reply)) = Cardinality(Valid(Reply))
      /\ Cardinality(Valid(Reply)) \in Nat
  BY <1>2, ValidIs
<1>4. names \o ValidNames(Reply) \in Seq(User)
  BY <1>1, <1>3
<1>5. got \in Seq(User) /\ Len(got) <= Top
  <2>1. PICK all : all = names \o ValidNames(Reply)
    OBVIOUS
  <2>2. all \in Seq(User) /\ Len(all) \in Nat /\ Top \in Nat
    BY <1>4, <2>1, TopAssumption
  <2>3. got \in Seq(User) /\ Len(got) = IF Len(all) < Top THEN Len(all) ELSE Top
    BY <2>1, <2>2, AtMostIs
  <2>4. QED BY <2>2, <2>3
<1>6. start + Len(Reply) \in 0 .. Cardinality(User)
  BY <1>1, <1>2, UserFacts
<1>7. QED BY <1>2, <1>3, <1>4, <1>5, <1>6

LEMMA InitTypes == Init => Types
BY UserFacts, TryAssumption, TopAssumption, BoundAssumption
   DEF Init, Types, TypeOK, Known

LEMMA BootTypes == ASSUME Types, Boot PROVE Types'
<1>1. ASSUME LoadRow PROVE Types'
  <2>1. PICK u \in toLoad : /\ board' = [board EXCEPT ![u] = rows[u].exp]
                            /\ hash' = [hash EXCEPT ![u] = rows[u].level]
                            /\ toLoad' = toLoad \ {u}
    BY <1>1 DEF LoadRow
  <2>2. u \in User /\ rows[u] \in Record
    BY DEF Types, TypeOK, Known
  <2>3. rows[u].exp \in 0 .. MaxExp /\ rows[u].level \in 0 .. MaxLevel
    BY <2>2, BoundAssumption DEF Record
  <2>4. QED BY <1>1, <2>1, <2>2, <2>3
           DEF LoadRow, bootVars, rankVars, Types, TypeOK, Known
<1>2. ASSUME LoadEnd PROVE Types'
  BY <1>2 DEF LoadEnd, redisVars, Types, TypeOK, Known
<1>3. ASSUME NEW h \in {"sql", "offline"}, Leave(h) PROVE Types'
  BY <1>3 DEF Leave, redisVars, rankVars, Types, TypeOK, Known
<1>4. ASSUME Unreachable PROVE Types'
  <2>1. CASE Leave("offline")
    BY <1>3, <2>1
  <2>2. CASE ~Leave("offline")
    BY <1>4, <2>2, TryAssumption
       DEF Unreachable, redisVars, rankVars, Types, TypeOK, Known, Rank
  <2>3. QED BY <2>1, <2>2
<1>5. ASSUME ConnectWithRedis PROVE Types'
  BY <1>5 DEF ConnectWithRedis, redisVars, rankVars, Types, TypeOK, Known
<1>6. ASSUME StayOffline \/ Connected \/ SchemaMissing \/ NoSource PROVE Types'
  BY <1>3, <1>6 DEF StayOffline, Connected, SchemaMissing, NoSource
<1>7. QED BY <1>1, <1>2, <1>4, <1>5, <1>6 DEF Boot

LEMMA RankingTypes == ASSUME Types, UpdateRankingCache PROVE Types'
<1>1. ASSUME Fetch PROVE Types'
  <2>1. PICK got : /\ got = AtMost(names \o ValidNames(Reply), Top)
                   /\ names' = got /\ start' = start + Len(Reply)
                   /\ manager' \in {"fetch", "sleep", "levels"}
    BY <1>1 DEF Fetch
  <2>2. names' \in Seq(User) /\ Len(names') <= Top /\ start' \in 0 .. Cardinality(User)
    BY <2>1, FetchNames
  <2>3. QED BY <1>1, <2>1, <2>2 DEF Fetch, bootVars, redisVars, Types, TypeOK, Known
<1>2. ASSUME Levels PROVE Types'
  <2>1. ranks' = SortRanks(RanksOf(Range(names)))
    BY <1>2 DEF Levels, RanksOf
  <2>2. Range(names) \subseteq User /\ hash \in [User -> 0 .. MaxLevel]
    BY DEF Types, TypeOK, Range
  <2>3. ranks' \in Seq(Rank)
    BY <2>1, <2>2, RanksAreSorted
  <2>4. QED BY <1>2, <2>3 DEF Levels, bootVars, redisVars, Types, TypeOK, Known, Rank
<1>3. ASSUME Publish PROVE Types'
  BY <1>3 DEF Publish, bootVars, redisVars, Types, TypeOK, Known, Rank
<1>4. ASSUME Again PROVE Types'
  BY <1>4, UserFacts, TopAssumption DEF Again, bootVars, redisVars, Types, TypeOK, Known, Rank
<1>5. QED BY <1>1, <1>2, <1>3, <1>4 DEF UpdateRankingCache

LEMMA GameTypes == ASSUME Types, Game PROVE Types'
<1>1. ASSUME Ask PROVE Types'
  BY <1>1 DEF Ask, bootVars, redisVars, rankVars, Types, TypeOK, Known, Rank
<1>2. ASSUME NEW u \in User, Newcomer(u) PROVE Types'
  BY <1>2, BoundAssumption DEF Newcomer, bootVars, rankVars, Types, TypeOK, Known, Rank, Record
<1>3. ASSUME NEW u \in User, LevelUp(u) PROVE Types'
  <2>1. hash' \in [User -> 0 .. MaxLevel]
    <3>1. hash[u] + 1 \in 0 .. MaxLevel
      BY <1>3, BoundAssumption DEF LevelUp
    <3>2. QED BY <1>3, <3>1 DEF LevelUp, Types, TypeOK
  <2>2. QED BY <1>3, <2>1 DEF LevelUp, bootVars, rankVars, Types, TypeOK, Known, Rank
<1>4. ASSUME NEW u \in User, Save(u) PROVE Types'
  <2>1. PICK e \in rows[u].exp .. MaxExp :
          rows' = [rows EXCEPT ![u] = [level |-> hash[u], exp |-> e]]
    BY <1>4 DEF Save
  <2>2. rows[u] \in Record /\ hash[u] \in 1 .. MaxLevel
    BY <1>4, BoundAssumption DEF Save, Types, TypeOK, Known
  <2>3. [level |-> hash[u], exp |-> e] \in Record
    BY <2>2, BoundAssumption DEF Record
  <2>4. toLoad = {}
    BY <1>4 DEF Save, Types
  <2>5. QED BY <1>4, <2>1, <2>3, <2>4
           DEF Save, bootVars, redisVars, rankVars, Types, TypeOK, Known, Rank
<1>5. QED BY <1>1, <1>2, <1>3, <1>4 DEF Game

LEMMA NextTypes == ASSUME Types, [Next]_vars PROVE Types'
<1>1. ASSUME Restart PROVE Types'
  BY <1>1, UserFacts, TryAssumption, TopAssumption, BoundAssumption
     DEF Restart, redisVars, Types, TypeOK, Known, Rank
<1>2. ASSUME SqlComesUp PROVE Types'
  BY <1>2 DEF SqlComesUp, redisVars, rankVars, Types, TypeOK, Known, Rank
<1>3. ASSUME UNCHANGED vars PROVE Types'
  BY <1>3 DEF vars, bootVars, redisVars, rankVars, Types, TypeOK, Known, Rank
<1>4. QED BY <1>1, <1>2, <1>3, BootTypes, RankingTypes, GameTypes DEF Next

\* Every variable keeps its type: the search never runs beyond the board, and a
\* level that is read is a level (RankingManager.cpp:107-216).
THEOREM TypeCorrect == Spec => []TypeOK
<1>1. Init => Types
  BY InitTypes
<1>2. Types /\ [Next]_vars => Types'
  BY NextTypes
<1>3. Types => TypeOK
  BY DEF Types
<1>4. QED BY <1>1, <1>2, <1>3, PTL DEF Spec

----------------------------------------------------------------------------
(* What the ranking thread has found.                                      *)

\* How many whose names count are ahead of u; s begins with the best in order.
Rivals(u) == {v \in Ranked : IsAhead(v, u)}
Leads(s)  == \A k \in 1 .. Len(s) : s[k] \in Ranked /\ Cardinality(Rivals(s[k])) = k - 1

\* Those of the first n of the board whose names count.
Passed(n) == {Leaderboard[i] : i \in 1 .. n} \cap Ranked

ListsBest(s) ==
    /\ {rank.name : rank \in Range(s)} = Best
    /\ Len(s) = Cardinality(Best)
    /\ \A j, k \in 1 .. Len(s) : j < k => IsBetter(s[j], s[k])

\* Before the server runs there are no lists.
Blank ==
    phase # "run" => /\ manager = "sleep" /\ start = 0
                     /\ names = <<>> /\ ranks = <<>> /\ cache = <<>> /\ answer = <<>>

Searching ==
    manager = "fetch" => /\ start <= Len(Leaderboard)
                         /\ Leads(names)
                         /\ Len(names) = Cardinality(Passed(start))
                         /\ Len(names) < Top
Found  == manager = "levels" => Range(names) = Best
Listed == manager = "publish" => ListsBest(ranks)
Shown  == \A s \in {cache, answer} : s # <<>> => ListsBest(s)

RankInv == Types /\ Blank /\ Searching /\ Found /\ Listed /\ Shown

----------------------------------------------------------------------------
(* A round of the search.                                                  *)

\* As many as there are indices.
LEMMA ImageCount ==
    ASSUME NEW I, NEW f, IsFiniteSet(I), f = [i \in I |-> f[i]],
           \A i, j \in I : f[i] = f[j] => i = j
    PROVE  IsFiniteSet({f[i] : i \in I}) /\ Cardinality({f[i] : i \in I}) = Cardinality(I)
<1> PICK T : T = {f[i] : i \in I}
  OBVIOUS
<1>1. f \in [I -> T] /\ \A t \in T : \E i \in I : f[i] = t
  OBVIOUS
<1>2. f \in Bijection(I, T)
  BY <1>1 DEF Bijection, Injection, Surjection, IsInjective
<1>3. QED BY <1>2, FS_Bijection DEF ExistsBijection

LEMMA RankedOrders ==
    ASSUME Types
    PROVE  /\ Ranked \subseteq OnBoard /\ IsFiniteSet(Ranked) /\ Cardinality(Ranked) \in Nat
           /\ Order(Ranked, Ahead)
           /\ \A u \in Ranked : Rivals(u) = Before(Ranked, Ahead, u)
<1>1. IsFiniteSet(OnBoard) /\ Order(OnBoard, Ahead)
  BY AheadOrders DEF Types, TypeOK
<1>2. Ranked \subseteq OnBoard
  BY DEF Ranked, OnBoard
<1>3. IsFiniteSet(Ranked) /\ Cardinality(Ranked) \in Nat
  BY <1>1, <1>2, FS_Subset, FS_CardinalityType
<1>4. Order(Ranked, Ahead)
  BY <1>1, <1>2 DEF Order
<1>5. \A u, v \in Ranked : <<v, u>> \in Ahead <=> IsAhead(v, u)
  BY <1>2 DEF Ahead
<1>6. QED BY <1>2, <1>3, <1>4, <1>5 DEF Rivals, Before

LEMMA Board ==
    ASSUME Types
    PROVE  /\ Len(Leaderboard) \in Nat /\ Len(Leaderboard) = Cardinality(OnBoard)
           /\ Range(Leaderboard) = OnBoard
           /\ DOMAIN Leaderboard = 1 .. Len(Leaderboard)
           /\ \A k \in 1 .. Len(Leaderboard) : Leaderboard[k] \in OnBoard
           /\ \A j, k \in 1 .. Len(Leaderboard) :
                /\ j < k <=> IsAhead(Leaderboard[j], Leaderboard[k])
                /\ Leaderboard[j] = Leaderboard[k] => j = k
<1>1. /\ Leaderboard \in Seq(OnBoard) /\ Len(Leaderboard) = Cardinality(OnBoard)
      /\ Cardinality(OnBoard) \in Nat /\ Range(Leaderboard) = OnBoard
      /\ \A k \in 1 .. Len(Leaderboard) : Leaderboard[k] \in OnBoard
      /\ \A j, k \in 1 .. Len(Leaderboard) :
                j < k <=> IsAhead(Leaderboard[j], Leaderboard[k])
  BY BoardIs DEF Types, TypeOK
<1>2. ASSUME NEW j \in 1 .. Len(Leaderboard), NEW k \in 1 .. Len(Leaderboard),
             Leaderboard[j] = Leaderboard[k]
      PROVE  j = k
  <2>1. (j < k <=> k < j)
    BY <1>1, <1>2
  <2>2. QED BY <1>1, <2>1
<1>3. QED BY <1>1, <1>2

\* Those ahead of a place are the ones passed on the way to it.
LEMMA RivalsOfPlace ==
    ASSUME Types, NEW p \in 1 .. Len(Leaderboard), Leaderboard[p] \in Ranked
    PROVE  Rivals(Leaderboard[p]) = Passed(p - 1)
<1> PICK L : L = Leaderboard
  OBVIOUS
<1>1. /\ Len(L) \in Nat /\ Range(L) = OnBoard /\ DOMAIN L = 1 .. Len(L)
      /\ \A j, k \in 1 .. Len(L) : j < k <=> IsAhead(L[j], L[k])
  BY Board
<1>2. ASSUME NEW v \in Rivals(L[p]) PROVE v \in Passed(p - 1)
  <2>1. v \in Ranked /\ v \in OnBoard /\ IsAhead(v, L[p])
    BY <1>2, RankedOrders DEF Rivals
  <2>2. PICK q \in 1 .. Len(L) : v = L[q]
    BY <1>1, <2>1 DEF Range
  <2>3. q < p
    BY <1>1, <2>1, <2>2
  <2>4. q \in 1 .. (p - 1)
    BY <1>1, <2>3
  <2>5. QED BY <2>1, <2>2, <2>4 DEF Passed
<1>3. ASSUME NEW v \in Passed(p - 1) PROVE v \in Rivals(L[p])
  <2>1. PICK q \in 1 .. (p - 1) : v = L[q] /\ v \in Ranked
    BY <1>3 DEF Passed
  <2>2. q \in 1 .. Len(L) /\ q < p
    BY <1>1
  <2>3. QED BY <1>1, <2>1, <2>2 DEF Rivals
<1>4. QED BY <1>2, <1>3

\* The first m of a reply.
LEMMA PassedMore ==
    ASSUME Types, NEW arr, NEW m \in Nat, start + m <= Len(Leaderboard),
           DOMAIN arr = 1 .. Len(arr), Len(arr) \in Nat, m <= Len(arr),
           \A k \in 1 .. Len(arr) : arr[k] = Leaderboard[start + k]
    PROVE  /\ IsFiniteSet(Passed(start)) /\ Cardinality(Passed(start)) \in Nat
           /\ Cardinality({j \in Valid(arr) : j <= m}) \in Nat
           /\ Cardinality(Passed(start + m))
              = Cardinality(Passed(start)) + Cardinality({j \in Valid(arr) : j <= m})
<1> PICK L, n, V : L = Leaderboard /\ n = Len(L) /\ V = {j \in Valid(arr) : j <= m}
  OBVIOUS
<1>1. /\ n \in Nat /\ start \in Nat
      /\ \A k \in 1 .. n : L[k] \in OnBoard
      /\ \A j, k \in 1 .. n : L[j] = L[k] => j = k
  BY Board DEF Types, TypeOK
<1>2. V \subseteq 1 .. m /\ \A j \in 1 .. m : j \in V <=> IsValidName(L[start + j])
  BY DEF Valid
<1>3. IsFiniteSet(V) /\ Cardinality(V) \in Nat
  <2>1. IsFiniteSet(1 .. m)
    BY FS_Interval
  <2>2. QED BY <1>2, <2>1, FS_Subset, FS_CardinalityType
<1>4. \A j \in 1 .. m : start + j \in 1 .. n /\ start + j > start
  BY <1>1
<1>5. PICK f : f = [j \in V |-> L[start + j]]
  OBVIOUS
<1>6. \A i, j \in V : f[i] = f[j] => i = j
  <2>1. ASSUME NEW i \in V, NEW j \in V, f[i] = f[j] PROVE i = j
    <3>1. L[start + i] = L[start + j] /\ start + i \in 1 .. n /\ start + j \in 1 .. n
          /\ i \in 1 .. m /\ j \in 1 .. m
      BY <1>2, <1>4, <1>5, <2>1
    <3>2. start + i = start + j
      BY <1>1, <3>1
    <3>3. QED BY <1>1, <3>1, <3>2
  <2>2. QED BY <2>1
<1> PICK T : T = {f[j] : j \in V}
  OBVIOUS
<1>7. IsFiniteSet(T) /\ Cardinality(T) = Cardinality(V)
  <2>1. f = [j \in V |-> f[j]]
    BY <1>5
  <2>2. QED BY <1>3, <1>6, <2>1, ImageCount
<1>8. Passed(start + m) = Passed(start) \union T
  <2>1. ASSUME NEW v \in Passed(start + m) PROVE v \in Passed(start) \union T
    <3>1. PICK i \in 1 .. (start + m) : v = L[i] /\ v \in Ranked
      BY <2>1 DEF Passed
    <3>2. CASE i <= start
      BY <1>1, <3>1, <3>2 DEF Passed
    <3>3. CASE ~(i <= start)
      <4>1. PICK j : j = i - start
        OBVIOUS
      <4>2. j \in 1 .. m /\ i = start + j
        BY <1>1, <3>3, <4>1
      <4>3. j \in V
        BY <1>2, <3>1, <4>2 DEF Ranked
      <4>4. QED BY <1>5, <3>1, <4>2, <4>3
    <3>4. QED BY <3>2, <3>3
  <2>2. Passed(start) \subseteq Passed(start + m)
    <3>1. \A i \in 1 .. start : i \in 1 .. (start + m)
      BY <1>1
    <3>2. QED BY <3>1 DEF Passed
  <2>3. ASSUME NEW v \in T PROVE v \in Passed(start + m)
    <3>1. PICK j \in V : v = L[start + j]
      BY <1>5, <2>3
    <3>2. start + j \in 1 .. n /\ start + j \in 1 .. (start + m) /\ IsValidName(v)
      BY <1>1, <1>2, <1>4, <3>1
    <3>3. v \in Ranked
      BY <1>1, <3>1, <3>2 DEF OnBoard, Ranked
    <3>4. QED BY <3>1, <3>2, <3>3 DEF Passed
  <2>4. QED BY <2>1, <2>2, <2>3
<1>9. Passed(start) \cap T = {}
  <2>1. ASSUME NEW v \in Passed(start), NEW j \in V, v = L[start + j] PROVE FALSE
    <3>1. PICK i \in 1 .. start : v = L[i]
      BY DEF Passed
    <3>2. i \in 1 .. n /\ i # start + j /\ start + j \in 1 .. n
      <4>1. i \in Nat /\ i >= 1 /\ i <= start /\ j \in Nat /\ j >= 1 /\ j <= m
        BY <1>1, <1>2
      <4>2. QED BY <1>1, <1>4, <4>1
    <3>3. QED BY <1>1, <2>1, <3>1, <3>2
  <2>2. QED BY <1>5, <2>1
<1>10. IsFiniteSet(Passed(start)) /\ Cardinality(Passed(start)) \in Nat
  <2>1. Passed(start) \in SUBSET Ranked
    BY DEF Passed
  <2>2. QED BY <2>1, RankedOrders, FS_Subset, FS_CardinalityType
<1>11. Cardinality(Passed(start) \union T) = Cardinality(Passed(start)) + Cardinality(T)
  <2>1. Cardinality(Passed(start) \cap T) = 0
    BY <1>9, FS_EmptySet
  <2>2. Cardinality(Passed(start) \union T)
        = Cardinality(Passed(start)) + Cardinality(T) - Cardinality(Passed(start) \cap T)
    BY <1>7, <1>10, FS_Union
  <2>3. QED BY <1>3, <1>7, <1>10, <2>1, <2>2
<1>12. QED BY <1>3, <1>7, <1>8, <1>10, <1>11

\* What was found and what a reply adds lead the board together.
LEMMA Round ==
    ASSUME Types, Searching, manager = "fetch",
           NEW all, all = names \o ValidNames(Reply)
    PROVE  /\ all \in Seq(User) /\ Leads(all)
           /\ start + Len(Reply) \in Nat /\ start + Len(Reply) <= Len(Leaderboard)
           /\ Len(all) = Cardinality(Passed(start + Len(Reply)))
           /\ Len(Reply) # Wanted => start + Len(Reply) = Len(Leaderboard)
<1> PICK L, arr, V, good : L = Leaderboard /\ arr = Reply /\ V = Valid(arr) /\ good = ValidNames(arr)
  OBVIOUS
<1>1. /\ start \in Nat /\ start <= Len(L) /\ Leads(names) /\ names \in Seq(User)
      /\ Len(names) = Cardinality(Passed(start)) /\ Len(names) < Top
  BY DEF Types, TypeOK, Searching
<1>2. /\ Len(L) \in Nat /\ Len(L) = Cardinality(OnBoard)
      /\ \A k \in 1 .. Len(L) : L[k] \in OnBoard
  BY Board
<1>3. /\ arr \in Seq(User) /\ Len(arr) \in Nat /\ DOMAIN arr = 1 .. Len(arr)
      /\ Len(arr) = IF Len(L) - start < Wanted THEN Len(L) - start ELSE Wanted
      /\ Wanted \in Nat
      /\ \A k \in 1 .. Len(arr) : arr[k] = L[start + k]
  <2>1. board \in [User -> (0 .. MaxExp) \union {None}] /\ Len(names) <= Top
    BY DEF Types, TypeOK
  <2>2. QED BY <1>1, <1>2, <2>1, ReplyIs
<1>4. start + Len(arr) <= Len(L) /\ (Len(arr) # Wanted => start + Len(arr) = Len(L))
  BY <1>1, <1>2, <1>3
<1>5. /\ Cardinality(V) \in Nat /\ IsFiniteSet(V)
      /\ good \in Seq(User) /\ Len(good) = Cardinality(V)
      /\ \A k \in 1 .. Len(good) :
           \E i \in V : good[k] = arr[i] /\ Cardinality({j \in V : j < i}) = k - 1
  <2>1. good = ValidNames(arr)
    OBVIOUS
  <2>2. /\ Cardinality(Valid(arr)) \in Nat /\ IsFiniteSet(Valid(arr))
        /\ good \in Seq(User) /\ Len(good) = Cardinality(Valid(arr))
        /\ \A k \in 1 .. Len(good) :
             \E i \in Valid(arr) : /\ good[k] = arr[i]
                                   /\ Cardinality(ValidBefore(arr, i)) = k - 1
    <3>1. arr \in Seq(User)
      BY <1>3
    <3>2. QED BY <2>1, <3>1, ValidIs
  <2>3. V = Valid(arr)
    OBVIOUS
  <2>4. \A i : ValidBefore(arr, i) = {j \in V : j < i}
    BY <2>3 DEF ValidBefore
  <2>5. QED BY <2>2, <2>3, <2>4
<1>6. V \subseteq 1 .. Len(arr)
  BY <1>3 DEF Valid
<1>7. ASSUME NEW m \in Nat, m <= Len(arr)
      PROVE  Cardinality(Passed(start + m)) = Len(names) + Cardinality({j \in V : j <= m})
  <2>1. start + m <= Len(Leaderboard)
    BY <1>1, <1>2, <1>3, <1>4, <1>7
  <2>2. \A k \in 1 .. Len(arr) : arr[k] = Leaderboard[start + k]
    BY <1>3
  <2>3. Cardinality(Passed(start + m))
        = Cardinality(Passed(start)) + Cardinality({j \in Valid(arr) : j <= m})
    BY <1>3, <1>7, <2>1, <2>2, PassedMore
  <2>4. QED BY <1>1, <2>3
<1>8. all \in Seq(User) /\ Len(all) = Len(names) + Len(good) /\ Len(names) \in Nat /\ Len(good) \in Nat
  <2>1. all = names \o good
    OBVIOUS
  <2>2. names \in Seq(User) /\ good \in Seq(User)
    BY <1>1, <1>5
  <2>3. QED BY <2>1, <2>2
<1>9. Len(all) = Cardinality(Passed(start + Len(arr)))
  <2>1. {j \in V : j <= Len(arr)} = V
    BY <1>6, <1>3
  <2>2. QED BY <1>3, <1>5, <1>7, <1>8, <2>1
<1>10. ASSUME NEW k \in 1 .. Len(all)
       PROVE  all[k] \in Ranked /\ Cardinality(Rivals(all[k])) = k - 1
  <2>1. CASE k <= Len(names)
    <3>1. k \in 1 .. Len(names) /\ all[k] = names[k]
      BY <1>1, <1>5, <1>8, <2>1
    <3>2. QED BY <1>1, <3>1 DEF Leads
  <2>2. CASE ~(k <= Len(names))
    <3>1. PICK h : h = k - Len(names)
      OBVIOUS
    <3>2. h \in 1 .. Len(good) /\ all[k] = good[h]
      <4>1. h \in 1 .. Len(good) /\ k > Len(names)
        BY <1>8, <2>2, <3>1
      <4>2. all = names \o good
        OBVIOUS
      <4>3. names \in Seq(User) /\ good \in Seq(User) /\ k \in 1 .. (Len(names) + Len(good))
        BY <1>1, <1>5, <1>8
      <4>4. (names \o good)[k] = good[k - Len(names)]
        BY <4>1, <4>3
      <4>5. QED BY <3>1, <4>1, <4>2, <4>4
    <3>3. PICK i \in V : good[h] = arr[i] /\ Cardinality({j \in V : j < i}) = h - 1
      BY <1>5, <3>2
    <3>4. i \in 1 .. Len(arr) /\ i \in Nat /\ i - 1 \in Nat /\ i - 1 <= Len(arr)
      BY <1>3, <1>6
    <3>5. start + i \in 1 .. Len(L) /\ all[k] = L[start + i]
      <4>1. start + i \in 1 .. Len(L)
        BY <1>1, <1>2, <1>3, <1>4, <3>4
      <4>2. arr[i] = L[start + i]
        BY <1>3, <3>4
      <4>3. QED BY <3>2, <3>3, <4>1, <4>2
    <3>6. all[k] \in Ranked
      <4>1. IsValidName(arr[i])
        BY <3>3 DEF Valid
      <4>2. QED BY <1>2, <3>2, <3>3, <3>5, <4>1 DEF OnBoard, Ranked
    <3>7. Rivals(all[k]) = Passed(start + i - 1)
      <4>1. PICK p \in 1 .. Len(Leaderboard) : p = start + i
        BY <3>5
      <4>2. Leaderboard[p] = all[k]
        BY <3>5, <4>1
      <4>3. Rivals(Leaderboard[p]) = Passed(p - 1)
        BY <3>6, <4>2, RivalsOfPlace
      <4>4. p - 1 = start + i - 1
        BY <1>1, <3>4, <4>1
      <4>5. QED BY <4>2, <4>3, <4>4
    <3>8. {j \in V : j < i} = {j \in V : j <= i - 1}
      BY <1>3, <1>6, <3>4
    <3>9. Cardinality(Passed(start + (i - 1))) = Len(names) + (h - 1)
      BY <1>7, <3>3, <3>4, <3>8
    <3>10. start + (i - 1) = start + i - 1 /\ Len(names) + (h - 1) = k - 1
      BY <1>1, <1>8, <3>1, <3>4
    <3>11. QED BY <3>6, <3>7, <3>9, <3>10
  <2>3. QED BY <2>1, <2>2
<1>11. QED BY <1>1, <1>3, <1>4, <1>8, <1>9, <1>10 DEF Leads

LEMMA AllPassed == ASSUME Types PROVE Passed(Len(Leaderboard)) = Ranked
<1>1. ASSUME NEW u \in Ranked PROVE u \in Passed(Len(Leaderboard))
  <2>1. u \in Range(Leaderboard)
    BY Board, RankedOrders
  <2>2. QED BY <2>1, Board DEF Range, Passed
<1>2. QED BY <1>1 DEF Passed

LEMMA PassedCount ==
    ASSUME Types, NEW n
    PROVE  Cardinality(Passed(n)) \in Nat /\ Cardinality(Passed(n)) <= Cardinality(Ranked)
<1>1. Passed(n) \in SUBSET Ranked
  BY DEF Passed
<1>2. QED BY <1>1, RankedOrders, FS_Subset, FS_CardinalityType

\* Enough of the leaders are the best.
LEMMA LeadersAreBest ==
    ASSUME Types, NEW s \in Seq(User), Leads(s),
           Len(s) = IF Cardinality(Ranked) < Top THEN Cardinality(Ranked) ELSE Top
    PROVE  Range(s) = Best
<1>1. /\ IsFiniteSet(Ranked) /\ Cardinality(Ranked) \in Nat /\ Order(Ranked, Ahead)
      /\ \A u \in Ranked : Rivals(u) = Before(Ranked, Ahead, u)
  BY RankedOrders
<1>2. Top \in Nat /\ DOMAIN s = 1 .. Len(s) /\ Len(s) \in Nat
  BY TopAssumption
<1>3. \A u \in Ranked : u \in Best <=> Cardinality(Rivals(u)) < Top
  BY DEF Best, Rivals
<1>4. ASSUME NEW u \in Range(s) PROVE u \in Best
  <2>1. PICK k \in 1 .. Len(s) : u = s[k]
    BY <1>2 DEF Range
  <2>2. u \in Ranked /\ Cardinality(Rivals(u)) = k - 1
    BY <2>1 DEF Leads
  <2>3. k - 1 < Top
    BY <1>1, <1>2
  <2>4. QED BY <1>3, <2>2, <2>3
<1>5. ASSUME NEW u \in Best PROVE u \in Range(s)
  <2>1. u \in Ranked /\ Cardinality(Rivals(u)) < Top
    BY <1>3 DEF Best
  <2>2. Cardinality(Rivals(u)) \in Nat /\ Cardinality(Rivals(u)) < Cardinality(Ranked)
    BY <1>1, <2>1, BeforeCount
  <2>3. PICK k : k = Cardinality(Rivals(u)) + 1
    OBVIOUS
  <2>4. k \in 1 .. Len(s) /\ k - 1 = Cardinality(Rivals(u))
    BY <1>1, <1>2, <2>1, <2>2, <2>3
  <2>5. s[k] \in Ranked /\ Cardinality(Rivals(s[k])) = Cardinality(Rivals(u))
    BY <2>4 DEF Leads
  <2>6. s[k] = u
    BY <1>1, <2>1, <2>5, BeforeTells
  <2>7. QED BY <1>2, <2>4, <2>6 DEF Range
<1>6. QED BY <1>4, <1>5

----------------------------------------------------------------------------
(* The steps.                                                              *)

LEMMA FetchKeeps == ASSUME RankInv, Fetch PROVE Searching' /\ Found' /\ Listed'
<1> PICK all, got, c :
      /\ all = names \o ValidNames(Reply) /\ got = AtMost(all, Top)
      /\ c = Cardinality(Passed(start + Len(Reply)))
  OBVIOUS
<1>1. Types /\ Searching /\ manager = "fetch" /\ Top \in Nat
  BY TopAssumption DEF RankInv, Fetch
<1>2. /\ names' = got /\ start' = start + Len(Reply) /\ UNCHANGED board
      /\ manager' = IF Len(Reply) = Wanted /\ Len(got) < Top THEN "fetch"
                    ELSE IF got = <<>> THEN "sleep" ELSE "levels"
  BY DEF Fetch, redisVars
<1>3. /\ all \in Seq(User) /\ Leads(all)
      /\ start + Len(Reply) \in Nat /\ start + Len(Reply) <= Len(Leaderboard)
      /\ Len(all) = c
      /\ Len(Reply) # Wanted => start + Len(Reply) = Len(Leaderboard)
  BY <1>1, Round
<1>4. /\ got \in Seq(User) /\ Len(got) = IF Len(all) < Top THEN Len(all) ELSE Top
      /\ \A k \in 1 .. Len(got) : got[k] = all[k]
  BY <1>1, <1>3, AtMostIs
<1>5. Len(all) \in Nat /\ Len(got) \in Nat /\ \A k \in 1 .. Len(got) : k \in 1 .. Len(all)
  BY <1>1, <1>3, <1>4
<1>6. Leads(got)
  BY <1>3, <1>4, <1>5 DEF Leads
<1>7. c <= Cardinality(Ranked) /\ Cardinality(Ranked) \in Nat
  BY <1>1, PassedCount, RankedOrders
<1>8. /\ Leaderboard' = Leaderboard /\ Best' = Best /\ Ranked' = Ranked
      /\ \A n : Passed(n)' = Passed(n)
  BY <1>2 DEF Leaderboard, Best, Ranked, IsAhead, Sorted, Passed
<1>9. Searching'
  <2>1. SUFFICES ASSUME Len(Reply) = Wanted, Len(got) < Top PROVE Searching'
    BY <1>2 DEF Searching
  <2>2. Len(got) = c
    BY <1>1, <1>3, <1>4, <1>5, <2>1
  <2>3. start' <= Len(Leaderboard')
    BY <1>2, <1>3, <1>8
  <2>4. Leads(names)'
    BY <1>2, <1>6, <1>8 DEF Leads, Rivals, IsAhead
  <2>5. Len(names') = Cardinality(Passed(start)')
    <3>1. PICK n : n = start'
      OBVIOUS
    <3>2. Passed(n)' = Passed(start)'
      BY <3>1 DEF Passed
    <3>3. QED BY <1>2, <1>8, <2>2, <3>1, <3>2
  <2>6. QED BY <1>2, <2>1, <2>3, <2>4, <2>5 DEF Searching
<1>10. Found'
  <2>1. SUFFICES ASSUME ~(Len(Reply) = Wanted /\ Len(got) < Top) PROVE Range(got) = Best
    BY <1>2, <1>8 DEF Found
  <2>2. CASE Len(got) < Top
    <3>1. start + Len(Reply) = Len(Leaderboard) /\ Len(got) = Len(all)
      BY <1>1, <1>3, <1>4, <1>5, <2>1, <2>2
    <3>2. Len(got) = Cardinality(Ranked)
      BY <1>1, <1>3, <3>1, AllPassed
    <3>3. QED BY <1>1, <1>4, <1>6, <2>2, <3>2, LeadersAreBest
  <2>3. CASE ~(Len(got) < Top)
    <3>1. Len(got) = IF Cardinality(Ranked) < Top THEN Cardinality(Ranked) ELSE Top
      BY <1>1, <1>3, <1>4, <1>5, <1>7, <2>3
    <3>2. QED BY <1>1, <1>4, <1>6, <3>1, LeadersAreBest
  <2>4. QED BY <2>2, <2>3
<1>11. Listed'
  BY <1>2 DEF Listed
<1>12. QED BY <1>9, <1>10, <1>11

LEMMA LevelsKeeps == ASSUME RankInv, Levels PROVE Searching' /\ Found' /\ Listed'
<1>1. /\ manager' = "publish" /\ ranks' = SortRanks(RanksOf(Best)) /\ UNCHANGED board
  BY DEF RankInv, Found, Levels, RanksOf, redisVars
<1>2. Best \subseteq User /\ hash \in [User -> 0 .. MaxLevel]
  BY DEF RankInv, Types, TypeOK, Best, Ranked
<1>3. ListsBest(ranks)'
  <2>1. PICK s : s = ranks'
    OBVIOUS
  <2>2. ListsBest(s)
    BY <1>1, <1>2, <2>1, RanksAreSorted DEF ListsBest
  <2>3. QED BY <1>1, <2>1, <2>2 DEF ListsBest, Best, Ranked, IsAhead
<1>4. QED BY <1>1, <1>3 DEF Searching, Found, Listed

\* The board does not change while the server runs, nor do the best.
LEMMA ListsKept == ASSUME UNCHANGED board, NEW s, ListsBest(s) PROVE ListsBest(s)'
BY DEF ListsBest, Best, Ranked, IsAhead

LEMMA ShownKept ==
    ASSUME RankInv, UNCHANGED board, {cache', answer'} \subseteq {cache, answer, <<>>}
    PROVE  Shown'
<1>1. ASSUME NEW s \in {cache', answer'}, s # <<>> PROVE ListsBest(s)'
  BY <1>1, ListsKept DEF RankInv, Shown
<1>2. QED BY <1>1 DEF Shown

\* When nothing is searched for.
LEMMA NotSearching ==
    ASSUME manager' \notin {"fetch", "levels", "publish"}
    PROVE  Searching' /\ Found' /\ Listed'
BY DEF Searching, Found, Listed

LEMMA SearchStarts ==
    ASSUME Types, Types', UNCHANGED board, manager' = "fetch", start' = 0, names' = <<>>
    PROVE  Searching' /\ Found' /\ Listed'
<1>1. Len(Leaderboard)' \in Nat
  <2>1. Leaderboard' = Leaderboard
    BY DEF Leaderboard, IsAhead, Sorted
  <2>2. QED BY <2>1, Board
<1>2. Passed(start)' = {}
  BY DEF Passed
<1>3. Leads(names)'
  BY DEF Leads
<1>4. QED BY <1>1, <1>2, <1>3, FS_EmptySet, TopAssumption DEF Searching, Found, Listed

\* Nothing of the search changes.
LEMMA SearchKept ==
    ASSUME RankInv, UNCHANGED <<board, rankVars>>
    PROVE  Searching' /\ Found' /\ Listed'
<1>1. /\ Leaderboard' = Leaderboard /\ Best' = Best /\ Ranked' = Ranked
  BY DEF Leaderboard, Best, Ranked, IsAhead, Sorted
<1>2. UNCHANGED <<manager, start, names, ranks>>
  BY DEF rankVars
<1>3. Passed(start)' = Passed(start) /\ (Leads(names)' <=> Leads(names))
  BY <1>1, <1>2 DEF Passed, Leads, Rivals, IsAhead
<1>4. QED BY <1>1, <1>2, <1>3, ListsKept DEF RankInv, Searching, Found, Listed

\* Before the server runs.
LEMMA NotRunning ==
    ASSUME Blank', phase' # "run"
    PROVE  Searching' /\ Found' /\ Listed' /\ Shown'
BY DEF Blank, Searching, Found, Listed, Shown

LEMMA BootKeeps == ASSUME RankInv, Boot PROVE RankInv'
<1>1. Types' /\ Types
  BY NextTypes DEF RankInv, Next
<1>2. /\ phase # "run" /\ UNCHANGED <<cache, answer, start, names, ranks>>
      /\ ~LoadEnd => phase' # "run" /\ UNCHANGED manager
  BY DEF Boot, ConnectWithRedis, StayOffline, Connected, SchemaMissing, NoSource, Unreachable,
         LoadRow, LoadEnd, Leave, bootVars, redisVars, rankVars
<1>3. /\ manager = "sleep" /\ start = 0 /\ names = <<>> /\ ranks = <<>>
      /\ cache = <<>> /\ answer = <<>>
  BY <1>2 DEF RankInv, Blank
<1>4. CASE LoadEnd
  <2>1. phase' = "run" /\ manager' = "fetch" /\ UNCHANGED board
    BY <1>4 DEF LoadEnd, redisVars
  <2>2. Searching' /\ Found' /\ Listed'
    BY <1>1, <1>2, <1>3, <2>1, SearchStarts
  <2>3. Blank' /\ Shown'
    BY <1>2, <1>3, <2>1 DEF Blank, Shown
  <2>4. QED BY <1>1, <2>2, <2>3 DEF RankInv
<1>5. CASE ~LoadEnd
  <2>1. Blank' /\ phase' # "run"
    BY <1>2, <1>3, <1>5 DEF Blank
  <2>2. QED BY <1>1, <2>1, NotRunning DEF RankInv
<1>6. QED BY <1>4, <1>5

LEMMA RankingKeeps == ASSUME RankInv, UpdateRankingCache PROVE RankInv'
<1>1. Types' /\ Types
  BY NextTypes DEF RankInv, Next
<1>2. phase = "run" /\ UNCHANGED <<phase, board>>
  BY DEF RankInv, Blank, UpdateRankingCache, Fetch, Levels, Publish, Again, bootVars, redisVars
<1>3. Blank'
  BY <1>2 DEF Blank
<1>4. CASE Fetch
  <2>1. UNCHANGED <<cache, answer>>
    BY <1>4 DEF Fetch
  <2>2. QED BY <1>1, <1>2, <1>3, <1>4, <2>1, FetchKeeps, ShownKept DEF RankInv
<1>5. CASE Levels
  <2>1. UNCHANGED <<cache, answer>>
    BY <1>5 DEF Levels
  <2>2. QED BY <1>1, <1>2, <1>3, <1>5, <2>1, LevelsKeeps, ShownKept DEF RankInv
<1>6. CASE Publish
  <2>1. cache' = ranks /\ answer' = answer /\ manager' = "sleep" /\ ListsBest(ranks)
    BY <1>6 DEF Publish, RankInv, Listed
  <2>2. Shown'
    <3>1. ASSUME NEW s, s \in {ranks, answer}, s # <<>> PROVE ListsBest(s)'
      BY <1>2, <2>1, <3>1, ListsKept DEF RankInv, Shown
    <3>2. QED BY <2>1, <3>1 DEF Shown
  <2>3. QED BY <1>1, <1>3, <2>1, <2>2, NotSearching DEF RankInv
<1>7. CASE Again
  <2>1. manager' = "fetch" /\ start' = 0 /\ names' = <<>> /\ UNCHANGED <<cache, answer>>
    BY <1>7 DEF Again
  <2>2. QED BY <1>1, <1>2, <1>3, <2>1, SearchStarts, ShownKept DEF RankInv
<1>8. QED BY <1>4, <1>5, <1>6, <1>7 DEF UpdateRankingCache

LEMMA NextKeeps == ASSUME RankInv, [Next]_vars PROVE RankInv'
<1>1. Types' /\ Types
  BY NextTypes DEF RankInv
<1>2. CASE Restart
  <2>1. Blank' /\ phase' # "run"
    BY <1>2 DEF Restart, Blank
  <2>2. QED BY <1>1, <2>1, NotRunning DEF RankInv
<1>3. CASE Game \/ SqlComesUp \/ UNCHANGED vars
  <2>1. /\ UNCHANGED <<phase, board, rankVars, cache>>
        /\ answer' = answer \/ (phase = "run" /\ answer' = cache)
    BY <1>3 DEF Game, Ask, Newcomer, LevelUp, Save, SqlComesUp, vars, bootVars, redisVars
  <2>2. Blank'
    BY <2>1 DEF RankInv, Blank, rankVars
  <2>3. QED BY <1>1, <2>1, <2>2, SearchKept, ShownKept DEF RankInv
<1>4. QED BY <1>2, <1>3, BootKeeps, RankingKeeps DEF Next

LEMMA InitKeeps == Init => RankInv
<1>1. Init => Types
  BY InitTypes
<1>2. QED BY <1>1 DEF Init, RankInv, Blank, Searching, Found, Listed, Shown

\* What a player is sent is the best of the board, in order, however many names
\* that are not valid have to be got past, however often the list is made anew
\* while levels are gained, and however often the server is started again
\* (RankingManager.cpp:107-247).
THEOREM BestAreSent == Spec => []AnswerIsBest
<1>1. RankInv => AnswerIsBest
  BY DEF RankInv, Shown, ListsBest, AnswerIsBest
<1>2. RankInv /\ [Next]_vars => RankInv'
  BY NextKeeps
<1>3. QED BY <1>1, <1>2, InitKeeps, PTL DEF Spec
============================================================================
