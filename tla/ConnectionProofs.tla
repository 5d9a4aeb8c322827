-------------------------- MODULE ConnectionProofs --------------------------
(***************************************************************************)
(* Proofs about Connection: both byte streams arrive whole and in order,   *)
(* for packages of any sizes, however TCP cuts the streams, and for any    *)
(* sizes of the buffers.                                                   *)
(*                                                                         *)
(* What the coders' loops compute is shown by induction, which is stated   *)
(* here over sets of numbers (Induction), and a recursive function is      *)
(* first shown to exist (Recursion).                                       *)
(***************************************************************************)
EXTENDS Connection, TLAPS, NaturalsInduction, WellFoundedInduction, SequenceTheorems

\* A package of an allowed size, and its bytes.
Package == [id : Nat, size : Sizes, ok : BOOLEAN]
Byte == [of : Package, at : Nat]

----------------------------------------------------------------------------
(* Induction and recursion *)

\* Every set of numbers has a least one.
LEMMA LeastExists ==
  ASSUME NEW T, T \subseteq Nat, T # {}
  PROVE  \E x \in T : \A y \in T : x <= y
<1> DEFINE Less == {ss \in Nat \X Nat : ss[1] < ss[2]}
<1>1. IsWellFoundedOn(Less, Nat)
  BY NatLessThanWellFounded DEF OpToRel
<1> HIDE DEF Less
<1>2. PICK x \in T : \A y \in T : ~(<<y, x>> \in Less)
  BY <1>1, WFMin
<1>3. ASSUME NEW y \in T PROVE x <= y
  <2>1. ~(<<y, x>> \in Less)
    BY <1>2
  <2>2. QED
    BY <2>1 DEF Less
<1>4. QED
  BY <1>2, <1>3

LEMMA MinIs ==
  ASSUME NEW T, T \subseteq Nat, T # {}
  PROVE  Min(T) \in T /\ \A y \in T : Min(T) <= y
  BY LeastExists DEF Min

\* A set that has 0, and with each number the next, has them all.
LEMMA Induction ==
  ASSUME NEW T, 0 \in T, \A n \in Nat : n \in T => n + 1 \in T
  PROVE  \A n \in Nat : n \in T
<1> SUFFICES ASSUME Nat \ T # {} PROVE FALSE
  OBVIOUS
<1>1. PICK x \in Nat \ T : \A y \in Nat \ T : x <= y
  BY LeastExists
<1>2. x # 0 /\ x - 1 \in Nat /\ x - 1 \in T
  BY <1>1
<1>3. (x - 1) + 1 \in T
  BY <1>2
<1>4. QED
  BY <1>1, <1>3

\* A recursive definition of a function from D to V: it is given on Stops, and
\* elsewhere goes back to an argument of smaller rank.
Recursive(D, V, Stops, B, rank, nx, stop, step) ==
  /\ B \in Nat /\ rank \in [D -> 0..B]
  /\ \A d \in D \cap Stops : stop[d] \in V
  /\ \A d \in D \ Stops : nx[d] \in D /\ rank[nx[d]] < rank[d] /\ step[d] \in [V -> V]

\* There is such a function.
LEMMA Recursion ==
  ASSUME NEW D, NEW V, NEW Stops, NEW B, NEW rank, NEW nx, NEW stop, NEW step,
         Recursive(D, V, Stops, B, rank, nx, stop, step)
  PROVE  \E f \in [D -> V] :
           \A d \in D : f[d] = IF d \in Stops THEN stop[d] ELSE step[d][f[nx[d]]]
<1> USE DEF Recursive
<1> DEFINE Below(k) == {d \in D : rank[d] < k}
           Good(f, k) == \A d \in Below(k) : f[d] = IF d \in Stops THEN stop[d] ELSE step[d][f[nx[d]]]
           T == {k \in Nat : \E f \in [Below(k) -> V] : Good(f, k)}
<1>1. 0 \in T
  <2>1. Below(0) = {}
    OBVIOUS
  <2>2. [d \in Below(0) |-> d] \in [Below(0) -> V] /\ Good([d \in Below(0) |-> d], 0)
    BY <2>1
  <2>3. QED
    BY <2>2
<1>2. ASSUME NEW k \in Nat, k \in T PROVE k + 1 \in T
  <2>1. PICK f \in [Below(k) -> V] : Good(f, k)
    BY <1>2
  <2> DEFINE g == [d \in Below(k + 1) |->
                     IF d \in Stops THEN stop[d] ELSE step[d][f[nx[d]]]]
  <2>2. ASSUME NEW d \in Below(k + 1), d \notin Stops PROVE nx[d] \in Below(k)
    <3>1. d \in D /\ rank[d] < k + 1 /\ rank[nx[d]] < rank[d] /\ nx[d] \in D
      BY <2>2
    <3>2. rank[d] \in Nat /\ rank[nx[d]] \in Nat
      BY <3>1
    <3>3. rank[nx[d]] < k
      BY <3>1, <3>2
    <3>4. QED
      BY <3>1, <3>3
  <2>3. g \in [Below(k + 1) -> V]
    <3>1. ASSUME NEW d \in Below(k + 1) PROVE g[d] \in V
      <4>1. CASE d \in Stops
        BY <4>1
      <4>2. CASE d \notin Stops
        <5>1. f[nx[d]] \in V
          BY <2>2, <4>2
        <5>2. step[d] \in [V -> V]
          BY <4>2
        <5>3. QED
          BY <4>2, <5>1, <5>2
      <4>3. QED
        BY <4>1, <4>2
    <3>2. QED
      BY <3>1
  <2>4. ASSUME NEW d \in Below(k) PROVE d \in Below(k + 1) /\ g[d] = f[d]
    <3>1. d \in Below(k + 1)
      BY <2>4
    <3>2. g[d] = IF d \in Stops THEN stop[d] ELSE step[d][f[nx[d]]]
      BY <3>1
    <3>3. QED
      BY <2>1, <3>1, <3>2
  <2>5. Good(g, k + 1)
    <3> SUFFICES ASSUME NEW d \in Below(k + 1)
                 PROVE  g[d] = IF d \in Stops THEN stop[d] ELSE step[d][g[nx[d]]]
      OBVIOUS
    <3>1. CASE d \in Stops
      BY <3>1
    <3>2. CASE d \notin Stops
      <4>1. g[nx[d]] = f[nx[d]]
        BY <2>2, <2>4, <3>2
      <4>2. QED
        BY <3>2, <4>1
    <3>3. QED
      BY <3>1, <3>2
  <2>6. QED
    <3> HIDE DEF g, Good, Below
    <3>1. QED
      BY <2>3, <2>5
<1>3. B + 1 \in T
  <2> HIDE DEF T
  <2>1. QED
    BY <1>1, <1>2, Induction
<1>4. Below(B + 1) = D
  OBVIOUS
<1>5. PICK f \in [Below(B + 1) -> V] : Good(f, B + 1)
  BY <1>3
<1>6. QED
  BY <1>4, <1>5

----------------------------------------------------------------------------
(* The bytes of packages *)

LEMMA SizeFacts ==
  ASSUME NEW p \in Package
  PROVE  /\ p.size \in Nat /\ HeadLen \in Nat \ {0} /\ p.size > HeadLen
         /\ p.id \in Nat /\ p.ok \in BOOLEAN
  BY SizesAssumption, HeadLenAssumption DEF Package

LEMMA BytesFacts ==
  ASSUME NEW p \in Package
  PROVE  /\ Bytes(p) \in Seq(Byte) /\ Len(Bytes(p)) = p.size /\ Bytes(p) # <<>>
         /\ \A i \in 1..p.size : Bytes(p)[i] = [of |-> p, at |-> i]
<1>1. p.size \in Nat /\ p.size > 0
  BY SizeFacts
<1>2. \A i \in 1..p.size : [of |-> p, at |-> i] \in Byte
  BY <1>1 DEF Byte
<1>3. QED
  BY <1>1, <1>2 DEF Bytes

\* U gives the bytes of the first packages of s.
IsUpto(s, U) ==
  /\ U \in [0..Len(s) -> Seq(Byte)]
  /\ U[0] = <<>>
  /\ \A n \in 1..Len(s) : U[n] = U[n - 1] \o Bytes(s[n])

\* The function AllBytes is defined by exists, and satisfies its equation.
LEMMA UptoExists ==
  ASSUME NEW s \in Seq(Package)
  PROVE  \E U : IsUpto(s, U) /\ AllBytes(s) = U[Len(s)]
<1> DEFINE L == Len(s)
           D == 0..L
           Is(f) == f = [n \in D |-> IF n = 0 THEN <<>> ELSE f[n - 1] \o Bytes(s[n])]
           V == Seq(Byte)
           Z == {0}
           rank == [n \in D |-> n]
           nx == [n \in D |-> n - 1]
           stop == [n \in D |-> <<>>]
           step == [n \in D |-> [v \in V |-> v \o Bytes(s[n])]]
<1>1. L \in Nat /\ \A n \in 1..L : s[n] \in Package /\ Bytes(s[n]) \in Seq(Byte)
  BY BytesFacts
<1>2. \E f \in [D -> V] : \A n \in D : f[n] = IF n \in Z THEN stop[n] ELSE step[n][f[nx[n]]]
  <2>1. rank \in [D -> 0..L] /\ \A d \in D \cap Z : stop[d] \in V
    BY <1>1
  <2>2. ASSUME NEW d \in D \ Z
        PROVE  nx[d] \in D /\ rank[nx[d]] < rank[d] /\ step[d] \in [V -> V]
    <3>1. d \in 1..L /\ d - 1 \in D /\ d \in D
      BY <1>1
    <3>2. nx[d] = d - 1 /\ rank[nx[d]] = d - 1 /\ rank[d] = d
      BY <3>1
    <3>3. \A v \in V : v \o Bytes(s[d]) \in V
      BY <1>1, <3>1
    <3>4. step[d] = [v \in V |-> v \o Bytes(s[d])]
      BY <3>1
    <3>5. QED
      BY <1>1, <3>1, <3>2, <3>3, <3>4
  <2> HIDE DEF L, D, V, Z, rank, nx, stop, step
  <2>3. Recursive(D, V, Z, L, rank, nx, stop, step)
    BY <1>1, <2>1, <2>2 DEF Recursive
  <2>4. QED
    BY <2>3, Recursion
<1>3. \E f : Is(f)
  <2>1. PICK f \in [D -> V] : \A n \in D : f[n] = IF n \in Z THEN stop[n] ELSE step[n][f[nx[n]]]
    BY <1>2
  <2>2. ASSUME NEW n \in D PROVE f[n] = IF n = 0 THEN <<>> ELSE f[n - 1] \o Bytes(s[n])
    <3>1. CASE n = 0
      BY <2>1, <3>1
    <3>2. CASE n # 0
      <4>1. n - 1 \in D
        BY <1>1, <3>2
      <4>4. f[n - 1] \in V
        BY <2>1, <4>1
      <4>2. f[n] = step[n][f[n - 1]]
        BY <2>1, <3>2
      <4>3. QED
        BY <3>2, <4>1, <4>2, <4>4
    <3>3. QED
      BY <3>1, <3>2
  <2>3. Is(f)
    BY <2>2
  <2>4. QED
    BY <2>3
<1>4. PICK U : Is(U) /\ AllBytes(s) = U[L]
  <2> DEFINE C == CHOOSE f : Is(f)
  <2>1. AllBytes(s) = C[L]
    BY DEF AllBytes
  <2>2. Is(C)
    <3> HIDE DEF Is
    <3>1. QED
      BY <1>3
  <2> HIDE DEF C, Is
  <2>3. QED
    BY <2>1, <2>2
<1>5. U[0] = <<>> /\ \A n \in 1..L : U[n] = U[n - 1] \o Bytes(s[n])
  <2>1. \A n \in D : U[n] = IF n = 0 THEN <<>> ELSE U[n - 1] \o Bytes(s[n])
    BY <1>4
  <2>2. 0 \in D /\ \A n \in 1..L : n \in D /\ n # 0
    BY <1>1
  <2> HIDE DEF D
  <2>3. QED
    BY <2>1, <2>2
<1> DEFINE T == {m \in Nat : m <= L => U[m] \in Seq(Byte)}
<1>6. \A n \in Nat : n \in T
  <2>1. 0 \in T
    <3>1. <<>> \in Seq(Byte)
      OBVIOUS
    <3>2. QED
      BY <1>5, <3>1
  <2>2. ASSUME NEW n \in Nat, n \in T PROVE n + 1 \in T
    <3> SUFFICES ASSUME n + 1 <= L PROVE U[n + 1] \in Seq(Byte)
      OBVIOUS
    <3>1. U[n] \in Seq(Byte) /\ n + 1 \in 1..L /\ (n + 1) - 1 = n
      BY <1>1, <2>2
    <3>2. U[n + 1] = U[n] \o Bytes(s[n + 1])
      BY <1>5, <3>1
    <3>3. QED
      BY <1>1, <3>1, <3>2
  <2> HIDE DEF T
  <2>3. QED
    BY <2>1, <2>2, Induction
<1>7. U \in [0..L -> Seq(Byte)]
  <2>1. U = [n \in D |-> U[n]]
    BY <1>4
  <2>2. \A n \in D : U[n] \in Seq(Byte)
    BY <1>1, <1>6
  <2>3. QED
    BY <2>1, <2>2
<1>8. QED
  BY <1>4, <1>5, <1>7 DEF IsUpto

LEMMA UptoAgree ==
  ASSUME NEW s \in Seq(Package), NEW t \in Seq(Package), NEW n \in Nat, n <= Len(s), n <= Len(t),
         \A i \in 1..n : s[i] = t[i],
         NEW U, IsUpto(s, U), NEW W, IsUpto(t, W)
  PROVE  U[n] = W[n]
<1> DEFINE T == {m \in Nat : m <= n => U[m] = W[m]}
<1>1. 0 \in T
  BY DEF IsUpto
<1>2. ASSUME NEW m \in Nat, m \in T PROVE m + 1 \in T
  <2> SUFFICES ASSUME m + 1 <= n PROVE U[m + 1] = W[m + 1]
    OBVIOUS
  <2>1. U[m] = W[m] /\ m + 1 \in 1..Len(s) /\ m + 1 \in 1..Len(t) /\ (m + 1) - 1 = m
    BY <1>2
  <2>2. s[m + 1] = t[m + 1]
    OBVIOUS
  <2>3. U[m + 1] = U[m] \o Bytes(s[m + 1])
    BY <2>1 DEF IsUpto
  <2>4. W[m + 1] = W[m] \o Bytes(t[m + 1])
    BY <2>1 DEF IsUpto
  <2>5. QED
    BY <2>1, <2>2, <2>3, <2>4
<1>3. n \in T
  <2> HIDE DEF T
  <2>1. QED
    BY <1>1, <1>2, Induction
<1>4. QED
  BY <1>3

\* The first n packages.
First(s, n) == SubSeq(s, 1, n)

LEMMA FirstFacts ==
  ASSUME NEW S, NEW s \in Seq(S), NEW n \in 0..Len(s)
  PROVE  /\ First(s, n) \in Seq(S) /\ Len(First(s, n)) = n
         /\ \A i \in 1..n : First(s, n)[i] = s[i]
  BY DEF First

LEMMA FirstAll ==
  ASSUME NEW S, NEW s \in Seq(S)
  PROVE  First(s, Len(s)) = s /\ First(s, 0) = <<>>
  BY DEF First

LEMMA AllBytesFirst ==
  ASSUME NEW s \in Seq(Package), NEW U, IsUpto(s, U), NEW n \in 0..Len(s)
  PROVE  AllBytes(First(s, n)) = U[n]
<1> DEFINE t == First(s, n)
<1>1. t \in Seq(Package) /\ Len(t) = n /\ \A i \in 1..n : t[i] = s[i]
  BY FirstFacts
<1> HIDE DEF t
<1>2. PICK W : IsUpto(t, W) /\ AllBytes(t) = W[Len(t)]
  BY <1>1, UptoExists
<1>3. n \in Nat /\ n <= Len(s) /\ n <= Len(t)
  BY <1>1
<1>4. W[n] = U[n]
  BY <1>1, <1>2, <1>3, UptoAgree
<1>5. QED
  BY <1>1, <1>2, <1>4 DEF t

LEMMA AllBytesType ==
  ASSUME NEW s \in Seq(Package)
  PROVE  AllBytes(s) \in Seq(Byte)
<1>1. PICK U : IsUpto(s, U) /\ AllBytes(s) = U[Len(s)]
  BY UptoExists
<1>2. Len(s) \in 0..Len(s)
  OBVIOUS
<1>3. QED
  BY <1>1, <1>2 DEF IsUpto

LEMMA AllBytesEmpty == AllBytes(<<>>) = <<>>
<1>1. <<>> \in Seq(Package) /\ Len(<<>>) = 0
  OBVIOUS
<1>2. PICK U : IsUpto(<<>>, U) /\ AllBytes(<<>>) = U[0]
  BY <1>1, UptoExists
<1>3. QED
  BY <1>2 DEF IsUpto

LEMMA AllBytesAppend ==
  ASSUME NEW s \in Seq(Package), NEW p \in Package
  PROVE  AllBytes(Append(s, p)) = AllBytes(s) \o Bytes(p)
<1> DEFINE t == Append(s, p)
<1>1. /\ t \in Seq(Package) /\ Len(t) = Len(s) + 1 /\ t[Len(s) + 1] = p /\ Len(s) \in Nat
      /\ \A i \in 1..Len(s) : t[i] = s[i]
  OBVIOUS
<1> HIDE DEF t
<1>2. PICK U : IsUpto(s, U) /\ AllBytes(s) = U[Len(s)]
  BY UptoExists
<1>3. PICK W : IsUpto(t, W) /\ AllBytes(t) = W[Len(t)]
  BY <1>1, UptoExists
<1>4. U[Len(s)] = W[Len(s)]
  <2>1. Len(s) \in Nat /\ Len(s) <= Len(s) /\ Len(s) <= Len(t) /\ \A i \in 1..Len(s) : s[i] = t[i]
    BY <1>1
  <2>2. QED
    BY <1>1, <1>2, <1>3, <2>1, UptoAgree
<1>5. W[Len(t)] = W[Len(s)] \o Bytes(p)
  <2>1. Len(t) \in 1..Len(t) /\ Len(t) - 1 = Len(s) /\ t[Len(t)] = p
    BY <1>1
  <2>2. QED
    BY <1>3, <2>1 DEF IsUpto
<1>6. QED
  BY <1>2, <1>3, <1>4, <1>5 DEF t

LEMMA LenCat ==
  ASSUME NEW S, NEW s \in Seq(S), NEW t \in Seq(S)
  PROVE  /\ s \o t \in Seq(S) /\ Len(s \o t) = Len(s) + Len(t) /\ Len(s) \in Nat /\ Len(t) \in Nat
         /\ \A i \in 1..Len(s) : (s \o t)[i] = s[i]
         /\ \A i \in 1..Len(t) : (s \o t)[Len(s) + i] = t[i]
  OBVIOUS

LEMMA CatAssoc ==
  ASSUME NEW S, NEW s \in Seq(S), NEW t \in Seq(S), NEW u \in Seq(S)
  PROVE  (s \o t) \o u = s \o (t \o u)
  OBVIOUS

LEMMA ByteCat ==
  ASSUME NEW s \in Seq(Byte), NEW t \in Seq(Byte), NEW u \in Seq(Byte)
  PROVE  /\ (s \o t) \o u = s \o (t \o u)
         /\ s \o t \in Seq(Byte) /\ t \o u \in Seq(Byte) /\ s \o (t \o u) \in Seq(Byte)
<1>1. s \o t \in Seq(Byte) /\ t \o u \in Seq(Byte)
  BY LenCat
<1>2. s \o (t \o u) \in Seq(Byte)
  BY <1>1, LenCat
<1>3. (s \o t) \o u = s \o (t \o u)
  BY CatAssoc
<1>4. QED
  BY <1>1, <1>2, <1>3

LEMMA AllBytesCat ==
  ASSUME NEW s \in Seq(Package), NEW t \in Seq(Package)
  PROVE  AllBytes(s \o t) = AllBytes(s) \o AllBytes(t)
<1> DEFINE T == {n \in Nat : n <= Len(t) =>
                   AllBytes(s \o First(t, n)) = AllBytes(s) \o AllBytes(First(t, n))}
<1>1. 0 \in T
  <2>1. First(t, 0) = <<>> /\ s \o <<>> = s
    BY FirstAll
  <2>2. AllBytes(s) \o <<>> = AllBytes(s)
    BY AllBytesType
  <2>3. QED
    BY <2>1, <2>2, AllBytesEmpty
<1>2. ASSUME NEW n \in Nat, n \in T PROVE n + 1 \in T
  <2> SUFFICES ASSUME n + 1 <= Len(t)
               PROVE  AllBytes(s \o First(t, n + 1)) = AllBytes(s) \o AllBytes(First(t, n + 1))
    OBVIOUS
  <2> DEFINE x == First(t, n)
             p == t[n + 1]
  <2>1. x \in Seq(Package) /\ p \in Package /\ First(t, n + 1) = Append(x, p)
    BY DEF First
  <2>2. AllBytes(s \o x) = AllBytes(s) \o AllBytes(x)
    BY <1>2
  <2> HIDE DEF x, p
  <2>3. s \o Append(x, p) = Append(s \o x, p) /\ s \o x \in Seq(Package)
    BY <2>1
  <2>4. AllBytes(Append(s \o x, p)) = AllBytes(s \o x) \o Bytes(p)
    BY <2>1, <2>3, AllBytesAppend
  <2>5. AllBytes(Append(x, p)) = AllBytes(x) \o Bytes(p)
    BY <2>1, AllBytesAppend
  <2>6. (AllBytes(s) \o AllBytes(x)) \o Bytes(p) = AllBytes(s) \o (AllBytes(x) \o Bytes(p))
    <3>1. AllBytes(s) \in Seq(Byte) /\ AllBytes(x) \in Seq(Byte) /\ Bytes(p) \in Seq(Byte)
      BY <2>1, AllBytesType, BytesFacts
    <3>2. QED
      BY <3>1, CatAssoc, SMTT(60)
  <2>7. QED
    BY <2>1, <2>2, <2>3, <2>4, <2>5, <2>6, Zenon
<1>3. Len(t) \in T
  <2> HIDE DEF T
  <2>1. Len(t) \in Nat
    OBVIOUS
  <2>2. QED
    BY <1>1, <1>2, <2>1, Induction
<1>4. First(t, Len(t)) = t
  BY FirstAll
<1>5. QED
  BY <1>3, <1>4

LEMMA FirstNext ==
  ASSUME NEW r \in Seq(Package), NEW m \in 0..(Len(r) - 1)
  PROVE  /\ First(r, m) \in Seq(Package) /\ r[m + 1] \in Package
         /\ First(r, m + 1) = Append(First(r, m), r[m + 1])
         /\ AllBytes(First(r, m + 1)) = AllBytes(First(r, m)) \o Bytes(r[m + 1])
<1>1. First(r, m) \in Seq(Package) /\ r[m + 1] \in Package
  BY DEF First
<1>2. First(r, m + 1) = Append(First(r, m), r[m + 1])
  BY DEF First
<1>3. QED
  BY <1>1, <1>2, AllBytesAppend

\* The packages from place i on, and all of them.
LEMMA FirstRest ==
  ASSUME NEW S, NEW r \in Seq(S), NEW m \in 0..Len(r)
  PROVE  /\ From(r, m + 1) \in Seq(S) /\ Len(From(r, m + 1)) = Len(r) - m
         /\ \A i \in 1..(Len(r) - m) : From(r, m + 1)[i] = r[m + i]
         /\ r = First(r, m) \o From(r, m + 1)
<1>1. /\ From(r, m + 1) \in Seq(S) /\ Len(From(r, m + 1)) = Len(r) - m
      /\ \A i \in 1..(Len(r) - m) : From(r, m + 1)[i] = r[m + i]
  BY DEF From
<1>2. r = First(r, m) \o From(r, m + 1)
  <2>1. 1 \in 1..(Len(r) + 1) /\ m \in (1 - 1)..Len(r) /\ Len(r) \in m..Len(r)
    OBVIOUS
  <2>2. SubSeq(r, 1, m) \o SubSeq(r, m + 1, Len(r)) = SubSeq(r, 1, Len(r))
    BY <2>1, ConcatAdjacentSubSeq
  <2>3. QED
    BY <2>2, SubSeqFull DEF First, From
<1>3. QED
  BY <1>1, <1>2

LEMMA AllBytesSplit ==
  ASSUME NEW r \in Seq(Package), NEW m \in 0..Len(r)
  PROVE  AllBytes(r) = AllBytes(First(r, m)) \o AllBytes(From(r, m + 1))
<1>1. First(r, m) \in Seq(Package) /\ From(r, m + 1) \in Seq(Package)
  BY FirstFacts, FirstRest
<1>2. r = First(r, m) \o From(r, m + 1)
  BY FirstRest
<1>3. QED
  BY <1>1, <1>2, AllBytesCat

\* Where each package begins: off[m] bytes are before package m + 1.
Layout(r, off) ==
  /\ off \in [0..Len(r) -> Nat]
  /\ off[0] = 0
  /\ \A m \in 0..Len(r) : off[m] = Len(AllBytes(First(r, m))) /\ off[m] <= Len(AllBytes(r))
  /\ off[Len(r)] = Len(AllBytes(r))
  /\ \A m \in 0..(Len(r) - 1) :
       /\ off[m + 1] = off[m] + r[m + 1].size
       /\ \A j \in 1..r[m + 1].size : AllBytes(r)[off[m] + j] = [of |-> r[m + 1], at |-> j]

LEMMA LayoutExists ==
  ASSUME NEW r \in Seq(Package)
  PROVE  \E off : Layout(r, off)
<1> DEFINE off == [m \in 0..Len(r) |-> Len(AllBytes(First(r, m)))]
<1>1. Len(r) \in Nat /\ AllBytes(r) \in Seq(Byte) /\ Len(AllBytes(r)) \in Nat
  BY AllBytesType
<1>2. ASSUME NEW m \in 0..Len(r)
      PROVE  off[m] = Len(AllBytes(First(r, m))) /\ off[m] \in Nat /\ off[m] <= Len(AllBytes(r))
  <2> DEFINE x == AllBytes(First(r, m))
             y == AllBytes(From(r, m + 1))
  <2>1. x \in Seq(Byte) /\ y \in Seq(Byte)
    BY FirstFacts, FirstRest, AllBytesType
  <2>2. AllBytes(r) = x \o y /\ off[m] = Len(x)
    BY AllBytesSplit
  <2> HIDE DEF x, y, off
  <2>3. Len(AllBytes(r)) = Len(x) + Len(y) /\ Len(x) \in Nat /\ Len(y) \in Nat
    BY <2>1, <2>2
  <2>4. QED
    BY <2>2, <2>3 DEF x
<1>3. ASSUME NEW m \in 0..(Len(r) - 1)
      PROVE  /\ off[m + 1] = off[m] + r[m + 1].size
             /\ \A j \in 1..r[m + 1].size : AllBytes(r)[off[m] + j] = [of |-> r[m + 1], at |-> j]
  <2> DEFINE x == AllBytes(First(r, m))
             p == r[m + 1]
             b == Bytes(p)
             z == AllBytes(First(r, m + 1))
             y == AllBytes(From(r, m + 2))
  <2>1. m \in 0..Len(r) /\ m + 1 \in 0..Len(r) /\ (m + 1) + 1 = m + 2
    BY <1>1
  <2>2. p \in Package /\ x \in Seq(Byte) /\ z = x \o b
    BY FirstNext, AllBytesType
  <2>3. y \in Seq(Byte) /\ AllBytes(r) = z \o y
    BY <2>1, FirstRest, AllBytesType, AllBytesSplit
  <2>4. off[m] = Len(x) /\ off[m + 1] = Len(z)
    BY <2>1
  <2>5. b \in Seq(Byte) /\ Len(b) = p.size /\ \A j \in 1..p.size : b[j] = [of |-> p, at |-> j]
    BY <2>2, BytesFacts
  <2>6. p.size \in Nat
    BY <2>2, SizeFacts
  <2> HIDE DEF x, p, b, z, y, off
  <2>7. Len(z) = Len(x) + Len(b) /\ z \in Seq(Byte)
    BY <2>2, <2>5, LenCat
  <2>8. ASSUME NEW j \in 1..p.size PROVE AllBytes(r)[off[m] + j] = [of |-> p, at |-> j]
    <3>1. Len(x) \in Nat /\ Len(x) + j \in 1..Len(z)
      BY <2>2, <2>5, <2>6, <2>7
    <3>2. (z \o y)[Len(x) + j] = z[Len(x) + j]
      BY <2>3, <2>7, <3>1
    <3>3. z[Len(x) + j] = b[j]
      BY <2>2, <2>5, <2>6, <3>1
    <3>4. QED
      BY <2>3, <2>4, <2>5, <3>2, <3>3
  <2>9. QED
    BY <2>4, <2>5, <2>7, <2>8 DEF p
<1>4. off[0] = 0 /\ off[Len(r)] = Len(AllBytes(r))
  BY <1>1, FirstAll, AllBytesEmpty
<1>5. off \in [0..Len(r) -> Nat]
  BY <1>2
<1> HIDE DEF off
<1>6. QED
  BY <1>2, <1>3, <1>4, <1>5 DEF Layout

----------------------------------------------------------------------------
(* What Extract computes *)

LEMMA MessageFacts ==
  ASSUME NEW p \in Package, NEW knd
  PROVE  /\ Message(knd, p) \in Seq(Byte) /\ Len(Message(knd, p)) > 0
         /\ Message(knd, p)[1].of = p
<1>1. /\ p.size \in Nat /\ HeadLen \in Nat \ {0} /\ p.size > HeadLen
      /\ Bytes(p) \in Seq(Byte) /\ Len(Bytes(p)) = p.size
      /\ \A i \in 1..p.size : Bytes(p)[i] = [of |-> p, at |-> i]
  BY SizeFacts, BytesFacts
<1>2. CASE knd = "line"
  <2>1. Message(knd, p) = Bytes(p)
    BY <1>2 DEF Message
  <2>2. 1 \in 1..p.size
    BY <1>1
  <2>3. Bytes(p)[1] = [of |-> p, at |-> 1]
    BY <1>1, <2>2
  <2>4. QED
    BY <1>1, <2>1, <2>3
<1>3. CASE knd # "line"
  <2>1. HeadLen \in 0..Len(Bytes(p))
    BY <1>1
  <2> DEFINE x == From(Bytes(p), HeadLen + 1)
  <2>2. x \in Seq(Byte) /\ Len(x) = p.size - HeadLen /\ x[1] = Bytes(p)[HeadLen + 1]
    <3>1. 1 \in 1..(Len(Bytes(p)) - HeadLen)
      BY <1>1
    <3>2. /\ x \in Seq(Byte) /\ Len(x) = Len(Bytes(p)) - HeadLen
          /\ \A i \in 1..(Len(Bytes(p)) - HeadLen) : x[i] = Bytes(p)[HeadLen + i]
      BY <1>1, <2>1, FirstRest, ZenonT(60)
    <3>3. QED
      BY <1>1, <3>1, <3>2
  <2>3. Message(knd, p) = x
    BY <1>3 DEF Message
  <2>4. HeadLen + 1 \in 1..p.size
    BY <1>1
  <2> HIDE DEF x
  <2>5. Bytes(p)[HeadLen + 1] = [of |-> p, at |-> HeadLen + 1]
    BY <1>1, <2>4
  <2>6. QED
    BY <1>1, <2>2, <2>3, <2>5
<1>4. QED
  BY <1>2, <1>3

\* What the packages of r are handed over as.
Msgs(knd, r) == [i \in 1..Len(r) |-> Message(knd, r[i])]

LEMMA MsgsFacts ==
  ASSUME NEW r \in Seq(Package), NEW knd
  PROVE  /\ Msgs(knd, r) \in Seq(Seq(Byte)) /\ Len(Msgs(knd, r)) = Len(r)
         /\ \A i \in 1..Len(r) : Msgs(knd, r)[i] = Message(knd, r[i])
<1>1. \A i \in 1..Len(r) : Message(knd, r[i]) \in Seq(Byte)
  BY MessageFacts
<1>2. Len(r) \in Nat
  OBVIOUS
<1> DEFINE SB == Seq(Byte)
<1>3. \A i \in 1..Len(r) : Message(knd, r[i]) \in SB
  BY <1>1
<1> HIDE DEF SB
<1>4. Msgs(knd, r) \in Seq(SB) /\ Len(Msgs(knd, r)) = Len(r)
  BY <1>2, <1>3 DEF Msgs
<1>5. QED
  BY <1>4 DEF Msgs, SB

\* Package m + 1 is whole within the first n bytes.
Whole(r, off, n, m) == m < Len(r) /\ off[m + 1] <= n

\* f goes from package to package: over a good one it hands it over and goes
\* on, and it stops at one that is bad or not whole.
Walks(knd, r, off, n, f) ==
  \A m \in 0..Len(r) :
    off[m] <= n =>
      /\ ~Whole(r, off, n, m) => f[off[m]] = [used |-> off[m], msgs |-> <<>>, ok |-> TRUE]
      /\ Whole(r, off, n, m) /\ ~r[m + 1].ok =>
           f[off[m]] = [used |-> off[m], msgs |-> <<>>, ok |-> FALSE]
      /\ Whole(r, off, n, m) /\ r[m + 1].ok =>
           f[off[m]] = [f[off[m + 1]] EXCEPT !.msgs = <<Message(knd, r[m + 1])>> \o @]

\* What f gives at package m + 1: the packages m + 1 to k.
Reaches(knd, r, off, n, f, m, k) ==
  /\ k \in m..Len(r) /\ off[k] <= n
  /\ f[off[m]] = [used |-> off[k], msgs |-> SubSeq(Msgs(knd, r), m + 1, k),
                  ok |-> ~Whole(r, off, n, k)]
  /\ \A i \in (m + 1)..k : r[i].ok
  /\ Whole(r, off, n, k) => ~r[k + 1].ok

LEMMA WalkStops ==
  ASSUME NEW knd, NEW r \in Seq(Package), NEW off, Layout(r, off), NEW n \in Nat, NEW f,
         Walks(knd, r, off, n, f), NEW m \in 0..Len(r), off[m] <= n,
         Whole(r, off, n, m) => ~r[m + 1].ok
  PROVE  Reaches(knd, r, off, n, f, m, m)
<1>1. SubSeq(Msgs(knd, r), m + 1, m) = <<>>
  BY SubSeqEmpty
<1>2. f[off[m]] = [used |-> off[m], msgs |-> <<>>, ok |-> ~Whole(r, off, n, m)]
  <2>1. CASE Whole(r, off, n, m)
    BY <2>1 DEF Walks
  <2>2. CASE ~Whole(r, off, n, m)
    BY <2>2 DEF Walks
  <2>3. QED
    BY <2>1, <2>2
<1>3. m \in m..Len(r) /\ \A i \in (m + 1)..m : r[i].ok
  OBVIOUS
<1>4. QED
  BY <1>1, <1>2, <1>3 DEF Reaches

LEMMA WalkGoesOn ==
  ASSUME NEW knd, NEW r \in Seq(Package), NEW off, Layout(r, off), NEW n \in Nat, NEW f,
         Walks(knd, r, off, n, f), NEW m \in 0..Len(r), off[m] <= n,
         Whole(r, off, n, m), r[m + 1].ok,
         NEW k, Reaches(knd, r, off, n, f, m + 1, k)
  PROVE  Reaches(knd, r, off, n, f, m, k)
<1> DEFINE M == Msgs(knd, r)
           x == Message(knd, r[m + 1])
           y == SubSeq(M, (m + 1) + 1, k)
<1>1. m + 1 \in 1..Len(r) /\ k \in (m + 1)..Len(r) /\ k \in m..Len(r) /\ Len(r) \in Nat
  BY DEF Whole, Reaches
<1>2. f[off[m]] = [f[off[m + 1]] EXCEPT !.msgs = <<x>> \o @]
  BY DEF Walks
<1>3. f[off[m + 1]] = [used |-> off[k], msgs |-> y, ok |-> ~Whole(r, off, n, k)]
  BY DEF Reaches
<1>4. M \in Seq(Seq(Byte)) /\ Len(M) = Len(r) /\ x = M[m + 1]
  BY <1>1, MsgsFacts
<1>5. SubSeq(M, m + 1, k) = <<x>> \o y
  BY <1>1, <1>4, SubSeqRecursiveFirst
<1>6. f[off[m]] = [used |-> off[k], msgs |-> <<x>> \o y, ok |-> ~Whole(r, off, n, k)]
  <2> DEFINE w == ~Whole(r, off, n, k)
             z == <<x>> \o y
  <2>1. f[off[m + 1]] = [used |-> off[k], msgs |-> y, ok |-> w]
    BY <1>3
  <2>2. f[off[m]] = [f[off[m + 1]] EXCEPT !.msgs = z]
    BY <1>2, <2>1
  <2> HIDE DEF w, x, y, z
  <2>3. f[off[m]] = [used |-> off[k], msgs |-> z, ok |-> w]
    BY <2>1, <2>2
  <2>4. QED
    BY <2>3 DEF w, z
<1> HIDE DEF M, x, y
<1>7. \A i \in (m + 1)..k : r[i].ok
  <2> SUFFICES ASSUME NEW i \in (m + 1)..k PROVE r[i].ok
    OBVIOUS
  <2>1. i = m + 1 \/ i \in ((m + 1) + 1)..k
    BY <1>1
  <2>2. QED
    BY <2>1 DEF Reaches
<1>8. QED
  BY <1>1, <1>5, <1>6, <1>7 DEF Reaches, M

\* From the front, f gives the packages that are whole, up to the first bad one.
LEMMA WalkReaches ==
  ASSUME NEW knd, NEW r \in Seq(Package), NEW off, Layout(r, off), NEW n \in Nat, NEW f,
         Walks(knd, r, off, n, f)
  PROVE  \E k : Reaches(knd, r, off, n, f, 0, k)
<1> DEFINE P(m) == off[m] <= n => \E k : Reaches(knd, r, off, n, f, m, k)
           T == {d \in Nat : d <= Len(r) => P(Len(r) - d)}
<1>1. Len(r) \in Nat
  OBVIOUS
<1>2. 0 \in T
  <2> SUFFICES ASSUME off[Len(r)] <= n PROVE \E k : Reaches(knd, r, off, n, f, Len(r), k)
    BY <1>1
  <2>1. ~Whole(r, off, n, Len(r)) /\ Len(r) \in 0..Len(r)
    BY <1>1 DEF Whole
  <2>2. QED
    BY <2>1, WalkStops
<1>3. ASSUME NEW d \in Nat, d \in T PROVE d + 1 \in T
  <2> SUFFICES ASSUME d + 1 <= Len(r) PROVE P(Len(r) - (d + 1))
    OBVIOUS
  <2> DEFINE m == Len(r) - (d + 1)
  <2>1. m \in 0..Len(r) /\ m + 1 = Len(r) - d /\ d <= Len(r)
    BY <1>1
  <2>2. P(m + 1)
    BY <1>3, <2>1
  <2> HIDE DEF m
  <2>3. ASSUME off[m] <= n PROVE \E k : Reaches(knd, r, off, n, f, m, k)
    <3>1. CASE Whole(r, off, n, m) /\ r[m + 1].ok
      <4>1. PICK k : Reaches(knd, r, off, n, f, m + 1, k)
        BY <2>2, <3>1 DEF Whole
      <4>2. QED
        BY <2>1, <2>3, <3>1, <4>1, WalkGoesOn
    <3>2. CASE ~(Whole(r, off, n, m) /\ r[m + 1].ok)
      BY <2>1, <2>3, <3>2, WalkStops
    <3>3. QED
      BY <3>1, <3>2
  <2>4. QED
    BY <2>3 DEF m
<1>4. Len(r) \in T
  <2> HIDE DEF T
  <2>1. QED
    BY <1>1, <1>2, <1>3, Induction
<1>5. P(0)
  <2>1. Len(r) - Len(r) = 0
    BY <1>1
  <2>2. QED
    BY <1>1, <1>4, <2>1
<1>6. off[0] <= n
  BY DEF Layout
<1>7. QED
  BY <1>5, <1>6

\* One turn of JsonRpcCoder's loop, at u.
JsonBody(bytes, u) == SubSeq(From(bytes, u + 1), HeadLen + 1, BodyLen(From(bytes, u + 1)))

JsonStep(bytes, f, u) ==
  IF Partial(From(bytes, u + 1)) THEN [used |-> u, msgs |-> <<>>, ok |-> TRUE]
  ELSE IF ~Decode(JsonBody(bytes, u)) THEN [used |-> u, msgs |-> <<>>, ok |-> FALSE]
  ELSE [f[u + BodyLen(From(bytes, u + 1))] EXCEPT !.msgs = <<JsonBody(bytes, u)>> \o @]

\* What Extract returns.
Result == [used : Nat, msgs : Seq(Seq(Byte)), ok : BOOLEAN]

LEMMA BodyLenFacts ==
  ASSUME NEW b \in Seq(Byte), ~Partial(b)
  PROVE  /\ BodyLen(b) \in Nat /\ BodyLen(b) > HeadLen /\ BodyLen(b) <= Len(b)
         /\ SubSeq(b, HeadLen + 1, BodyLen(b)) \in Seq(Byte)
<1>1. HeadLen \in Nat \ {0} /\ Len(b) \in Nat /\ Len(b) > HeadLen /\ ~(Len(b) < BodyLen(b))
  BY HeadLenAssumption DEF Partial
<1>2. b[1] \in Byte /\ b[1].of \in Package
  <2>1. 1 \in 1..Len(b)
    BY <1>1
  <2>2. b[1] \in Byte
    BY <2>1, ElementOfSeq
  <2>3. QED
    BY <2>2 DEF Byte
<1>3. b[1].of.size \in Nat /\ b[1].of.size > HeadLen
  BY <1>2, SizeFacts
<1>4. BodyLen(b) = b[1].of.size \/ BodyLen(b) = Len(b) + 1
  BY DEF BodyLen
<1>5. BodyLen(b) = b[1].of.size
  BY <1>1, <1>4
<1>6. BodyLen(b) \in Nat /\ BodyLen(b) > HeadLen /\ BodyLen(b) <= Len(b)
  BY <1>1, <1>3, <1>5
<1>7. SubSeq(b, HeadLen + 1, BodyLen(b)) \in Seq(Byte)
  <2> DEFINE l == BodyLen(b)
  <2>1. l \in Nat /\ l <= Len(b)
    BY <1>6
  <2> HIDE DEF l
  <2>2. HeadLen + 1 \in Int /\ l \in Int /\ \A i \in (HeadLen + 1)..l : b[i] \in Byte
    BY <1>1, <2>1
  <2>3. SubSeq(b, HeadLen + 1, l) \in Seq(Byte)
    BY <2>2, SubSeqProperties
  <2>4. QED
    BY <2>3 DEF l
<1>8. QED
  BY <1>6, <1>7

\* The function JsonExtract is defined by exists.
LEMMA JsonEquation ==
  ASSUME NEW bytes \in Seq(Byte)
  PROVE  \E f : /\ JsonExtract(bytes) = f[0]
                /\ \A u \in 0..Len(bytes) : f[u] = JsonStep(bytes, f, u)
<1> DEFINE L == Len(bytes)
           D == 0..L
           V == Result
           rest(u) == From(bytes, u + 1)
           Stops == {u \in D : Partial(rest(u)) \/ ~Decode(JsonBody(bytes, u))}
           rank == [u \in D |-> L - u]
           nx == [u \in D |-> u + BodyLen(rest(u))]
           stop == [u \in D |-> [used |-> u, msgs |-> <<>>, ok |-> Partial(rest(u))]]
           step == [u \in D |-> [v \in V |-> [v EXCEPT !.msgs = <<JsonBody(bytes, u)>> \o @]]]
           Is(f) == f = [u \in D |-> JsonStep(bytes, f, u)]
<1>1. L \in Nat /\ rank \in [D -> 0..L]
  OBVIOUS
<1>2. ASSUME NEW u \in D PROVE rest(u) \in Seq(Byte) /\ Len(rest(u)) = L - u
  BY FirstRest
<1>3. ASSUME NEW d \in D \cap Stops PROVE stop[d] \in V
  <2>1. <<>> \in Seq(Seq(Byte)) /\ d \in Nat /\ Partial(rest(d)) \in BOOLEAN
    BY <1>1 DEF Partial
  <2>2. stop[d] = [used |-> d, msgs |-> <<>>, ok |-> Partial(rest(d))]
    OBVIOUS
  <2> DEFINE w == Partial(rest(d))
  <2> HIDE DEF w, stop
  <2>3. QED
    BY <2>1, <2>2 DEF Result, w
<1>4. ASSUME NEW d \in D \ Stops
      PROVE  nx[d] \in D /\ rank[nx[d]] < rank[d] /\ step[d] \in [V -> V]
  <2> DEFINE l == BodyLen(rest(d))
             body == JsonBody(bytes, d)
  <2>1. d \in D /\ d \in Nat /\ d <= L /\ ~Partial(rest(d))
    BY <1>1
  <2>2. l \in Nat /\ l > HeadLen /\ l <= L - d /\ body \in Seq(Byte)
    BY <1>2, <2>1, BodyLenFacts DEF JsonBody
  <2>3. HeadLen \in Nat
    BY HeadLenAssumption
  <2>4. nx[d] = d + l /\ step[d] = [v \in V |-> [v EXCEPT !.msgs = <<body>> \o @]]
    BY <2>1
  <2> HIDE DEF l, body
  <2>5. d + l \in D /\ rank[d + l] = L - (d + l) /\ rank[d] = L - d
    BY <1>1, <2>1, <2>2, <2>3
  <2>6. rank[nx[d]] < rank[d] /\ nx[d] \in D
    <3> HIDE DEF rank, nx
    <3>1. QED
      BY <1>1, <2>1, <2>2, <2>3, <2>4, <2>5
  <2>7. ASSUME NEW v \in V PROVE [v EXCEPT !.msgs = <<body>> \o @] \in V
    <3> DEFINE SB == Seq(Byte)
    <3>1. v.msgs \in Seq(SB) /\ body \in SB
      BY <2>2 DEF Result
    <3> HIDE DEF SB
    <3>2. <<body>> \o v.msgs \in Seq(SB)
      BY <3>1
    <3>3. QED
      BY <3>2 DEF Result, SB
  <2>8. step[d] \in [V -> V]
    <3> HIDE DEF step, V
    <3>1. QED
      BY <2>4, <2>7
  <2>9. QED
    BY <2>6, <2>8
<1>5. PICK f \in [D -> V] : \A u \in D : f[u] = IF u \in Stops THEN stop[u] ELSE step[u][f[nx[u]]]
  <2> HIDE DEF L, D, V, Stops, rank, nx, stop, step
  <2>1. Recursive(D, V, Stops, L, rank, nx, stop, step)
    BY <1>1, <1>3, <1>4 DEF Recursive
  <2>2. QED
    BY <2>1, Recursion
<1>6. ASSUME NEW u \in D PROVE f[u] = JsonStep(bytes, f, u)
  <2>1. CASE u \in Stops
    <3>1. f[u] = [used |-> u, msgs |-> <<>>, ok |-> Partial(rest(u))]
      BY <1>5, <2>1
    <3>2. CASE Partial(rest(u))
      BY <3>1, <3>2 DEF JsonStep
    <3>3. CASE ~Partial(rest(u))
      <4>1. Partial(rest(u)) = FALSE /\ ~Decode(JsonBody(bytes, u))
        BY <2>1, <3>3 DEF Partial
      <4>2. f[u] = [used |-> u, msgs |-> <<>>, ok |-> FALSE]
        BY <3>1, <4>1
      <4>3. QED
        BY <4>1, <4>2 DEF JsonStep
    <3>4. QED
      BY <3>2, <3>3
  <2>2. CASE u \notin Stops
    <3>1. f[u] = step[u][f[nx[u]]]
      BY <1>5, <2>2
    <3>2. nx[u] \in D
      BY <1>4, <2>2
    <3>3. nx[u] = u + BodyLen(rest(u))
      OBVIOUS
    <3>4. f[nx[u]] \in V
      BY <1>5, <3>2
    <3>5. step[u][f[nx[u]]] = [f[nx[u]] EXCEPT !.msgs = <<JsonBody(bytes, u)>> \o @]
      BY <3>4
    <3>6. ~Partial(rest(u)) /\ Decode(JsonBody(bytes, u))
      BY <2>2
    <3> HIDE DEF nx, step, Stops, stop
    <3>7. QED
      BY <3>1, <3>3, <3>5, <3>6 DEF JsonStep
  <2>3. QED
    BY <2>1, <2>2
<1>7. \E g : Is(g)
  <2>1. f = [u \in D |-> f[u]]
    BY <1>5
  <2>2. Is(f)
    BY <1>6, <2>1
  <2>3. QED
    BY <2>2
<1>8. PICK g : Is(g) /\ JsonExtract(bytes) = g[0]
  <2> DEFINE C == CHOOSE g : Is(g)
  <2>1. JsonExtract(bytes) = C[0]
    BY DEF JsonExtract, JsonStep, JsonBody
  <2>2. Is(C)
    <3> HIDE DEF Is
    <3>1. QED
      BY <1>7
  <2> HIDE DEF C, Is
  <2>3. QED
    BY <2>1, <2>2
<1>9. \A u \in D : g[u] = JsonStep(bytes, g, u)
  BY <1>8
<1>10. QED
  BY <1>8, <1>9

\* The bytes are the first ones of the packages r.
Begins(bytes, r) ==
  /\ bytes \in Seq(Byte) /\ Len(bytes) <= Len(AllBytes(r))
  /\ \A i \in 1..Len(bytes) : bytes[i] = AllBytes(r)[i]

\* Behind the first m packages come the bytes of the next, as many as there are.
LEMMA RestOf ==
  ASSUME NEW r \in Seq(Package), NEW off, Layout(r, off), NEW bytes, Begins(bytes, r),
         NEW m \in 0..Len(r), off[m] <= Len(bytes)
  PROVE  LET b == From(bytes, off[m] + 1)
         IN  /\ off[m] \in Nat /\ Len(bytes) \in Nat
             /\ b \in Seq(Byte) /\ Len(b) = Len(bytes) - off[m]
             /\ \A j \in 1..Len(b) : b[j] = bytes[off[m] + j]
             /\ m = Len(r) => Len(b) = 0
             /\ m < Len(r) =>
                  /\ r[m + 1] \in Package /\ off[m + 1] = off[m] + r[m + 1].size
                  /\ \A j \in 1..Len(b) : j <= r[m + 1].size => b[j] = [of |-> r[m + 1], at |-> j]
<1> DEFINE b == From(bytes, off[m] + 1)
<1>1. off[m] \in Nat /\ bytes \in Seq(Byte) /\ Len(bytes) \in Nat /\ Len(r) \in Nat
  BY DEF Layout, Begins
<1>2. off[m] \in 0..Len(bytes)
  BY <1>1
<1>3. /\ b \in Seq(Byte) /\ Len(b) = Len(bytes) - off[m]
      /\ \A j \in 1..(Len(bytes) - off[m]) : b[j] = bytes[off[m] + j]
  BY <1>1, <1>2, FirstRest
<1> HIDE DEF b
<1>4. ASSUME m = Len(r) PROVE Len(b) = 0
  <2>1. off[m] = Len(AllBytes(r)) /\ Len(bytes) <= Len(AllBytes(r))
    BY <1>4 DEF Layout, Begins
  <2>2. QED
    BY <1>1, <1>3, <2>1
<1>5. ASSUME m < Len(r)
      PROVE  /\ r[m + 1] \in Package /\ off[m + 1] = off[m] + r[m + 1].size
             /\ \A j \in 1..Len(b) : j <= r[m + 1].size => b[j] = [of |-> r[m + 1], at |-> j]
  <2>1. m \in 0..(Len(r) - 1) /\ m + 1 \in 1..Len(r)
    BY <1>1, <1>5
  <2>2. r[m + 1] \in Package
    BY <2>1, ElementOfSeq
  <2>3. /\ off[m + 1] = off[m] + r[m + 1].size
        /\ \A j \in 1..r[m + 1].size : AllBytes(r)[off[m] + j] = [of |-> r[m + 1], at |-> j]
    BY <2>1 DEF Layout
  <2>4. ASSUME NEW j \in 1..Len(b), j <= r[m + 1].size PROVE b[j] = [of |-> r[m + 1], at |-> j]
    <3>1. r[m + 1].size \in Nat
      BY <2>2, SizeFacts
    <3>2. j \in 1..r[m + 1].size /\ off[m] + j \in 1..Len(bytes) /\ b[j] = bytes[off[m] + j]
      <4> DEFINE o == off[m]
                 z == r[m + 1].size
                 L == Len(bytes)
      <4>1. o \in Nat /\ z \in Nat /\ L \in Nat /\ Len(b) = L - o /\ j <= z
        BY <1>1, <1>3, <2>4, <3>1
      <4> HIDE DEF o, z, L
      <4>2. j \in 1..(L - o)
        BY <4>1
      <4>3. j \in 1..z /\ o + j \in 1..L
        BY <4>1, <4>2
      <4>4. b[j] = bytes[o + j]
        BY <1>3, <4>2 DEF o, L
      <4>5. QED
        BY <4>3, <4>4 DEF o, z, L
    <3>3. bytes[off[m] + j] = AllBytes(r)[off[m] + j]
      BY <3>2 DEF Begins
    <3>4. QED
      BY <2>3, <3>2, <3>3
  <2>5. QED
    BY <2>2, <2>3, <2>4
<1>6. QED
  BY <1>1, <1>3, <1>4, <1>5 DEF b

\* What the head says, and what Decode makes of a whole package.
LEMMA JsonPackage ==
  ASSUME NEW b \in Seq(Byte), NEW p \in Package, Len(b) > HeadLen,
         \A j \in 1..Len(b) : j <= p.size => b[j] = [of |-> p, at |-> j]
  PROVE  /\ BodyLen(b) = p.size
         /\ p.size <= Len(b) => /\ SubSeq(b, HeadLen + 1, p.size) = Message("json", p)
                                /\ Decode(SubSeq(b, HeadLen + 1, p.size)) <=> p.ok
<1>1. p.size \in Nat /\ HeadLen \in Nat \ {0} /\ p.size > HeadLen /\ Len(b) \in Nat
  BY SizeFacts
<1>2. \A i \in 1..HeadLen : b[i] = [of |-> p, at |-> i]
  BY <1>1
<1>3. b[1] = [of |-> p, at |-> 1]
  BY <1>1, <1>2
<1>4. b[1].of = p
  BY <1>3
<1>5. BodyLen(b) = p.size
  BY <1>2, <1>4 DEF BodyLen
<1>6. ASSUME p.size <= Len(b)
      PROVE  /\ SubSeq(b, HeadLen + 1, p.size) = Message("json", p)
             /\ Decode(SubSeq(b, HeadLen + 1, p.size)) <=> p.ok
  <2> DEFINE x == SubSeq(b, HeadLen + 1, p.size)
             y == From(Bytes(p), HeadLen + 1)
  <2>1. /\ Bytes(p) \in Seq(Byte) /\ Len(Bytes(p)) = p.size
        /\ \A i \in 1..p.size : Bytes(p)[i] = [of |-> p, at |-> i]
    BY BytesFacts
  <2>2. /\ x \in Seq(Byte) /\ Len(x) = p.size - HeadLen
        /\ \A i \in 1..(p.size - HeadLen) : x[i] = b[HeadLen + i]
    BY <1>1, <1>6
  <2>3. /\ y \in Seq(Byte) /\ Len(y) = p.size - HeadLen
        /\ \A i \in 1..(p.size - HeadLen) : y[i] = Bytes(p)[HeadLen + i]
    <3>1. HeadLen \in 0..Len(Bytes(p))
      BY <1>1, <2>1
    <3>2. /\ y \in Seq(Byte) /\ Len(y) = Len(Bytes(p)) - HeadLen
          /\ \A i \in 1..(Len(Bytes(p)) - HeadLen) : y[i] = Bytes(p)[HeadLen + i]
      <4>1. Bytes(p) \in Seq(Byte)
        BY <2>1
      <4>2. QED
        BY <3>1, <4>1, FirstRest, ZenonT(60)
    <3>3. QED
      BY <2>1, <3>2
  <2> HIDE DEF x, y
  <2>4. ASSUME NEW i \in 1..(p.size - HeadLen)
        PROVE  x[i] = [of |-> p, at |-> HeadLen + i] /\ y[i] = [of |-> p, at |-> HeadLen + i]
    <3>1. HeadLen + i \in 1..p.size /\ HeadLen + i \in 1..Len(b)
      BY <1>1, <1>6
    <3>2. b[HeadLen + i] = [of |-> p, at |-> HeadLen + i]
      BY <1>1, <3>1
    <3>3. Bytes(p)[HeadLen + i] = [of |-> p, at |-> HeadLen + i]
      BY <2>1, <3>1
    <3>4. x[i] = b[HeadLen + i] /\ y[i] = Bytes(p)[HeadLen + i]
      BY <2>2, <2>3
    <3>5. QED
      BY <3>2, <3>3, <3>4
  <2>5. x = y
    <3>1. Len(x) = Len(y) /\ \A i \in 1..Len(x) : x[i] = y[i]
      BY <2>2, <2>3, <2>4
    <3>2. QED
      BY <2>2, <2>3, <3>1, SeqEqual
  <2>6. DOMAIN x = 1..(p.size - HeadLen) /\ 1 \in DOMAIN x
    BY <1>1, <2>2
  <2>7. {x[i].of : i \in DOMAIN x} = {p}
    <3>1. ASSUME NEW i \in DOMAIN x PROVE x[i].of = p
      <4>1. x[i] = [of |-> p, at |-> HeadLen + i]
        BY <2>4, <2>6
      <4>2. QED
        BY <4>1
    <3>2. QED
      BY <2>6, <3>1
  <2>8. Decode(x) <=> p.ok
    BY <2>5, <2>7 DEF Decode, y
  <2>9. QED
    BY <2>5, <2>8 DEF x, y, Message
<1>7. QED
  BY <1>5, <1>6

LEMMA JsonWalks ==
  ASSUME NEW r \in Seq(Package), NEW off, Layout(r, off), NEW bytes, Begins(bytes, r), NEW f,
         \A u \in 0..Len(bytes) : f[u] = JsonStep(bytes, f, u)
  PROVE  Walks("json", r, off, Len(bytes), f)
<1> SUFFICES ASSUME NEW m \in 0..Len(r), off[m] <= Len(bytes)
    PROVE /\ ~Whole(r, off, Len(bytes), m) => f[off[m]] = [used |-> off[m], msgs |-> <<>>, ok |-> TRUE]
          /\ Whole(r, off, Len(bytes), m) /\ ~r[m + 1].ok =>
               f[off[m]] = [used |-> off[m], msgs |-> <<>>, ok |-> FALSE]
          /\ Whole(r, off, Len(bytes), m) /\ r[m + 1].ok =>
               f[off[m]] = [f[off[m + 1]] EXCEPT !.msgs = <<Message("json", r[m + 1])>> \o @]
  BY DEF Walks
<1> DEFINE n == Len(bytes)
           b == From(bytes, off[m] + 1)
           p == r[m + 1]
<1>1. /\ off[m] \in Nat /\ n \in Nat /\ b \in Seq(Byte) /\ Len(b) = n - off[m]
      /\ m = Len(r) => Len(b) = 0
      /\ m < Len(r) => /\ p \in Package /\ off[m + 1] = off[m] + p.size
                       /\ \A j \in 1..Len(b) : j <= p.size => b[j] = [of |-> p, at |-> j]
  BY RestOf
<1>2. f[off[m]] = JsonStep(bytes, f, off[m]) /\ HeadLen \in Nat \ {0} /\ Len(r) \in Nat
  BY <1>1, HeadLenAssumption
<1>3. CASE m = Len(r)
  <2>1. Partial(b) /\ ~Whole(r, off, n, m)
    BY <1>1, <1>2, <1>3 DEF Partial, Whole
  <2>2. QED
    BY <1>2, <2>1 DEF JsonStep
<1>4. CASE m < Len(r) /\ Len(b) <= HeadLen
  <2>1. Partial(b)
    BY <1>4 DEF Partial
  <2>2. p.size \in Nat /\ p.size > HeadLen
    BY <1>1, <1>4, SizeFacts
  <2>3. ~Whole(r, off, n, m)
    <3> HIDE DEF b, n, p
    <3>1. QED
      BY <1>1, <1>2, <1>4, <2>2 DEF Whole
  <2>4. QED
    BY <1>2, <2>1, <2>3 DEF JsonStep
<1>5. CASE m < Len(r) /\ Len(b) > HeadLen
  <2>1. p \in Package /\ p.size \in Nat
    BY <1>1, <1>5, SizeFacts
  <2>2. /\ BodyLen(b) = p.size
        /\ p.size <= Len(b) => /\ SubSeq(b, HeadLen + 1, p.size) = Message("json", p)
                               /\ Decode(SubSeq(b, HeadLen + 1, p.size)) <=> p.ok
    <3> HIDE DEF b, p
    <3>1. QED
      BY <1>1, <1>5, <2>1, JsonPackage
  <2>3. (Whole(r, off, n, m) <=> p.size <= Len(b)) /\ (Partial(b) <=> Len(b) < p.size)
    <3> HIDE DEF b, n, p
    <3>1. off[m + 1] = off[m] + p.size /\ Len(b) = n - off[m] /\ Len(b) \in Nat
      BY <1>1, <1>5
    <3>2. Whole(r, off, n, m) <=> off[m] + p.size <= n
      BY <1>5, <3>1 DEF Whole
    <3>3. off[m] + p.size <= n <=> p.size <= Len(b)
      BY <1>1, <2>1, <3>1
    <3>4. Partial(b) <=> Len(b) < p.size
      BY <1>2, <1>5, <2>2, <3>1 DEF Partial
    <3>5. QED
      BY <3>2, <3>3, <3>4
  <2>4. CASE Len(b) < p.size
    <3>1. Partial(b) /\ ~Whole(r, off, n, m)
      BY <1>1, <2>1, <2>3, <2>4
    <3>2. QED
      BY <1>2, <3>1 DEF JsonStep
  <2>5. CASE p.size <= Len(b)
    <3>1. ~Partial(b) /\ JsonBody(bytes, off[m]) = Message("json", p) /\ (Decode(JsonBody(bytes, off[m])) <=> p.ok)
      <4>1. ~Partial(b)
        BY <1>1, <2>1, <2>3, <2>5
      <4>2. JsonBody(bytes, off[m]) = SubSeq(b, HeadLen + 1, p.size)
        BY <2>2 DEF JsonBody
      <4>3. QED
        BY <2>2, <2>5, <4>1, <4>2
    <3>2. off[m] + BodyLen(b) = off[m + 1]
      BY <1>1, <1>5, <2>2
    <3>3. CASE p.ok
      <4>1. f[off[m]] = [f[off[m + 1]] EXCEPT !.msgs = <<Message("json", p)>> \o @]
        BY <1>2, <3>1, <3>2, <3>3 DEF JsonStep
      <4>2. QED
        BY <2>3, <2>5, <3>3, <4>1
    <3>4. CASE ~p.ok
      <4>1. f[off[m]] = [used |-> off[m], msgs |-> <<>>, ok |-> FALSE]
        BY <1>2, <3>1, <3>4 DEF JsonStep
      <4>2. QED
        BY <2>3, <2>5, <3>4, <4>1
    <3>5. QED
      BY <3>3, <3>4
  <2>6. QED
    BY <1>1, <2>1, <2>4, <2>5
<1>6. QED
  BY <1>1, <1>2, <1>3, <1>4, <1>5

\* One turn of LineCoder's loop, at u.
Newlines(bytes, u) == {i \in u + 1..Len(bytes) : bytes[i].at = bytes[i].of.size}

LineStep(bytes, f, u) ==
  IF Newlines(bytes, u) = {} THEN [used |-> u, msgs |-> <<>>, ok |-> TRUE]
  ELSE [f[Min(Newlines(bytes, u))] EXCEPT
          !.msgs = <<SubSeq(bytes, u + 1, Min(Newlines(bytes, u)))>> \o @]

\* The function LineExtract is defined by exists.
LEMMA LineEquation ==
  ASSUME NEW bytes \in Seq(Byte)
  PROVE  \E f : /\ LineExtract(bytes) = f[0]
                /\ \A u \in 0..Len(bytes) : f[u] = LineStep(bytes, f, u)
<1> DEFINE L == Len(bytes)
           D == 0..L
           V == Result
           N(u) == Newlines(bytes, u)
           line(u) == SubSeq(bytes, u + 1, Min(N(u)))
           Stops == {u \in D : N(u) = {}}
           rank == [u \in D |-> L - u]
           nx == [u \in D |-> Min(N(u))]
           stop == [u \in D |-> [used |-> u, msgs |-> <<>>, ok |-> TRUE]]
           step == [u \in D |-> [v \in V |-> [v EXCEPT !.msgs = <<line(u)>> \o @]]]
           Is(f) == f = [u \in D |-> LineStep(bytes, f, u)]
<1>1. L \in Nat /\ rank \in [D -> 0..L]
  OBVIOUS
<1>2. ASSUME NEW d \in D \cap Stops PROVE stop[d] \in V
  <2>1. <<>> \in Seq(Seq(Byte)) /\ d \in Nat
    BY <1>1
  <2>2. stop[d] = [used |-> d, msgs |-> <<>>, ok |-> TRUE]
    OBVIOUS
  <2> HIDE DEF stop
  <2>3. QED
    BY <2>1, <2>2 DEF Result
<1>3. ASSUME NEW d \in D \ Stops
      PROVE  nx[d] \in D /\ rank[nx[d]] < rank[d] /\ step[d] \in [V -> V]
  <2> DEFINE x == Min(N(d))
             body == line(d)
  <2>1. d \in D /\ d \in Nat /\ d <= L /\ N(d) # {} /\ N(d) \subseteq Nat
    BY <1>1 DEF Newlines
  <2>2. x \in (d + 1)..L
    <3>1. x \in N(d)
      BY <2>1, MinIs
    <3>2. QED
      BY <3>1 DEF Newlines
  <2> HIDE DEF x
  <2>3. x \in D /\ rank[x] = L - x /\ rank[d] = L - d
    BY <1>1, <2>1, <2>2
  <2>4. nx[d] = x /\ step[d] = [v \in V |-> [v EXCEPT !.msgs = <<body>> \o @]]
    BY <2>1 DEF x
  <2>5. rank[nx[d]] < rank[d] /\ nx[d] \in D
    <3> HIDE DEF rank, nx
    <3>1. QED
      BY <1>1, <2>1, <2>2, <2>3, <2>4
  <2>6. body \in Seq(Byte)
    <3>1. d + 1 \in Int /\ x \in Int /\ \A i \in (d + 1)..x : bytes[i] \in Byte
      BY <1>1, <2>1, <2>2
    <3>2. SubSeq(bytes, d + 1, x) \in Seq(Byte)
      BY <3>1, SubSeqProperties
    <3>3. QED
      BY <3>2 DEF x
  <2> HIDE DEF body
  <2>7. ASSUME NEW v \in V PROVE [v EXCEPT !.msgs = <<body>> \o @] \in V
    <3> DEFINE SB == Seq(Byte)
    <3>1. v.msgs \in Seq(SB) /\ body \in SB
      BY <2>6 DEF Result
    <3> HIDE DEF SB
    <3>2. <<body>> \o v.msgs \in Seq(SB)
      BY <3>1
    <3>3. QED
      BY <3>2 DEF Result, SB
  <2>8. step[d] \in [V -> V]
    <3> HIDE DEF step, V
    <3>1. QED
      BY <2>4, <2>7
  <2>9. QED
    BY <2>5, <2>8
<1>4. PICK f \in [D -> V] : \A u \in D : f[u] = IF u \in Stops THEN stop[u] ELSE step[u][f[nx[u]]]
  <2> HIDE DEF L, D, V, Stops, rank, nx, stop, step
  <2>1. Recursive(D, V, Stops, L, rank, nx, stop, step)
    BY <1>1, <1>2, <1>3 DEF Recursive
  <2>2. QED
    BY <2>1, Recursion
<1>5. ASSUME NEW u \in D PROVE f[u] = LineStep(bytes, f, u)
  <2>1. CASE u \in Stops
    <3>1. f[u] = [used |-> u, msgs |-> <<>>, ok |-> TRUE] /\ N(u) = {}
      BY <1>4, <2>1
    <3>2. QED
      BY <3>1 DEF LineStep
  <2>2. CASE u \notin Stops
    <3>1. f[u] = step[u][f[nx[u]]]
      BY <1>4, <2>2
    <3>2. nx[u] \in D
      BY <1>3, <2>2
    <3>3. nx[u] = Min(N(u))
      OBVIOUS
    <3>4. f[nx[u]] \in V
      BY <1>4, <3>2
    <3>5. step[u][f[nx[u]]] = [f[nx[u]] EXCEPT !.msgs = <<line(u)>> \o @]
      BY <3>4
    <3>6. N(u) # {}
      BY <2>2
    <3> HIDE DEF nx, step, Stops, stop
    <3>7. QED
      BY <3>1, <3>3, <3>5, <3>6 DEF LineStep
  <2>3. QED
    BY <2>1, <2>2
<1>6. \E g : Is(g)
  <2>1. f = [u \in D |-> f[u]]
    BY <1>4
  <2>2. Is(f)
    BY <1>5, <2>1
  <2>3. QED
    BY <2>2
<1>7. PICK g : Is(g) /\ LineExtract(bytes) = g[0]
  <2> DEFINE C == CHOOSE g : Is(g)
  <2>1. LineExtract(bytes) = C[0]
    BY DEF LineExtract, LineStep, Newlines
  <2>2. Is(C)
    <3> HIDE DEF Is
    <3>1. QED
      BY <1>6
  <2> HIDE DEF C, Is
  <2>3. QED
    BY <2>1, <2>2
<1>8. \A u \in D : g[u] = LineStep(bytes, g, u)
  BY <1>7
<1>9. QED
  BY <1>7, <1>8

LEMMA LineWalks ==
  ASSUME NEW r \in Seq(Package), NEW off, Layout(r, off), NEW bytes, Begins(bytes, r), NEW f,
         \A i \in 1..Len(r) : r[i].ok,
         \A u \in 0..Len(bytes) : f[u] = LineStep(bytes, f, u)
  PROVE  Walks("line", r, off, Len(bytes), f)
<1> SUFFICES ASSUME NEW m \in 0..Len(r), off[m] <= Len(bytes)
    PROVE /\ ~Whole(r, off, Len(bytes), m) => f[off[m]] = [used |-> off[m], msgs |-> <<>>, ok |-> TRUE]
          /\ Whole(r, off, Len(bytes), m) =>
               /\ r[m + 1].ok
               /\ f[off[m]] = [f[off[m + 1]] EXCEPT !.msgs = <<Message("line", r[m + 1])>> \o @]
  BY DEF Walks
<1> DEFINE n == Len(bytes)
           b == From(bytes, off[m] + 1)
           p == r[m + 1]
           N == Newlines(bytes, off[m])
<1>1. /\ off[m] \in Nat /\ n \in Nat /\ b \in Seq(Byte) /\ Len(b) = n - off[m]
      /\ \A j \in 1..Len(b) : b[j] = bytes[off[m] + j]
      /\ m = Len(r) => Len(b) = 0
      /\ m < Len(r) => /\ p \in Package /\ off[m + 1] = off[m] + p.size
                       /\ \A j \in 1..Len(b) : j <= p.size => b[j] = [of |-> p, at |-> j]
  BY RestOf
<1>2. f[off[m]] = LineStep(bytes, f, off[m]) /\ Len(r) \in Nat /\ bytes \in Seq(Byte)
  BY <1>1 DEF Begins
<1>3. CASE m = Len(r)
  <2>1. N = {} /\ ~Whole(r, off, n, m)
    BY <1>1, <1>2, <1>3 DEF Newlines, Whole
  <2>2. QED
    BY <1>2, <2>1 DEF LineStep
<1>4. CASE m < Len(r)
  <2>1. p \in Package /\ p.size \in Nat /\ p.size > 0 /\ p.ok
    <3>1. m + 1 \in 1..Len(r)
      BY <1>2, <1>4
    <3>2. QED
      BY <1>1, <1>4, <3>1, SizeFacts
  <2>2. ASSUME NEW j \in 1..Len(b), j <= p.size
        PROVE  off[m] + j \in N <=> j = p.size
    <3>1. bytes[off[m] + j] = [of |-> p, at |-> j]
      BY <1>1, <1>4, <2>2
    <3>2. off[m] + j \in (off[m] + 1)..n
      BY <1>1
    <3>3. bytes[off[m] + j].at = j /\ bytes[off[m] + j].of.size = p.size
      BY <3>1
    <3>4. QED
      BY <3>2, <3>3 DEF Newlines
  <2>3. ASSUME NEW i \in N PROVE i - off[m] \in 1..Len(b) /\ i = off[m] + (i - off[m])
    BY <1>1 DEF Newlines
  <2>4. CASE Len(b) < p.size
    <3>1. N = {}
      <4> SUFFICES ASSUME NEW i \in N PROVE FALSE
        OBVIOUS
      <4> DEFINE j == i - off[m]
      <4>1. j \in 1..Len(b) /\ i = off[m] + j /\ j < p.size
        BY <1>1, <2>1, <2>3, <2>4
      <4> HIDE DEF j, N
      <4>2. QED
        BY <2>1, <2>2, <4>1
    <3>2. ~Whole(r, off, n, m)
      <4> HIDE DEF b, n, p
      <4>1. QED
        BY <1>1, <1>4, <2>1, <2>4 DEF Whole
    <3>3. QED
      BY <1>2, <3>1, <3>2 DEF LineStep
  <2>5. CASE p.size <= Len(b)
    <3> DEFINE z == off[m] + p.size
    <3>1. z \in N
      BY <1>1, <2>1, <2>2, <2>5, SMTT(60)
    <3>2. ASSUME NEW i \in N PROVE z <= i
      <4> DEFINE j == i - off[m]
      <4>1. j \in 1..Len(b) /\ i = off[m] + j
        BY <2>3
      <4> HIDE DEF j, N
      <4>2. j <= p.size => j = p.size
        BY <2>2, <4>1
      <4>3. QED
        BY <1>1, <2>1, <4>1, <4>2
    <3>3. Min(N) = z
      <4>1. N \subseteq Nat /\ N # {}
        BY <1>1, <3>1 DEF Newlines
      <4>2. Min(N) \in N /\ Min(N) <= z /\ Min(N) \in Nat
        BY <3>1, <4>1, MinIs
      <4>3. z <= Min(N) /\ z \in Nat
        BY <1>1, <2>1, <3>2, <4>2
      <4> HIDE DEF N, z
      <4>4. QED
        BY <4>2, <4>3
    <3>4. z = off[m + 1]
      BY <1>1, <1>4
    <3>5. SubSeq(bytes, off[m] + 1, z) = Message("line", p)
      <4> DEFINE x == SubSeq(bytes, off[m] + 1, z)
                 y == Bytes(p)
      <4>1. /\ y \in Seq(Byte) /\ Len(y) = p.size
            /\ \A j \in 1..p.size : y[j] = [of |-> p, at |-> j]
        BY <2>1, BytesFacts
      <4>2. /\ x \in Seq(Byte) /\ Len(x) = p.size
            /\ \A j \in 1..p.size : x[j] = bytes[off[m] + j]
        <5>1. /\ off[m] + 1 \in Int /\ z \in Int /\ z <= n
              /\ \A i \in (off[m] + 1)..z : bytes[i] \in Byte
          BY <1>1, <1>2, <2>1, <2>5
        <5>2. /\ x \in Seq(Byte)
              /\ Len(x) = IF off[m] + 1 <= z THEN z - (off[m] + 1) + 1 ELSE 0
              /\ \A i \in 1..(z - (off[m] + 1) + 1) : x[i] = bytes[(off[m] + 1) + i - 1]
          BY <5>1, SubSeqProperties
        <5> HIDE DEF x
        <5>3. z - (off[m] + 1) + 1 = p.size /\ off[m] + 1 <= z
          BY <1>1, <2>1
        <5>4. \A i \in 1..p.size : (off[m] + 1) + i - 1 = off[m] + i
          BY <1>1, <2>1
        <5> HIDE DEF z
        <5>5. QED
          BY <5>2, <5>3, <5>4
      <4>3. ASSUME NEW j \in 1..p.size PROVE x[j] = y[j]
        <5>1. j \in 1..Len(b) /\ j <= p.size
          BY <1>1, <2>1, <2>5
        <5>2. bytes[off[m] + j] = [of |-> p, at |-> j]
          BY <1>1, <1>4, <5>1
        <5>3. QED
          BY <4>1, <4>2, <5>2
      <4> HIDE DEF x, y
      <4>4. x = y
        BY <4>1, <4>2, <4>3, SeqEqual
      <4>5. QED
        BY <4>4 DEF x, y, Message
    <3>6. f[off[m]] = [f[off[m + 1]] EXCEPT !.msgs = <<Message("line", p)>> \o @]
      <4>1. N # {}
        BY <3>1
      <4> HIDE DEF z
      <4>2. QED
        BY <1>2, <3>3, <3>4, <3>5, <4>1 DEF LineStep
    <3>7. Whole(r, off, n, m)
      BY <1>1, <1>4, <2>1, <2>5 DEF Whole
    <3>8. QED
      BY <2>1, <3>6, <3>7
  <2>6. QED
    BY <1>1, <2>1, <2>4, <2>5
<1>5. QED
  BY <1>2, <1>3, <1>4

\* However much of the packages r is there, Extract hands over the first k of
\* them, whole, and has used their bytes: all that are whole or, when it says
\* so, all up to the first that is bad.
Extracted(knd, r, bytes, ex, k) ==
  /\ k \in 0..Len(r)
  /\ ex.used = Len(AllBytes(First(r, k))) /\ ex.used <= Len(bytes)
  /\ ex.msgs = First(Msgs(knd, r), k)
  /\ \A i \in 1..k : r[i].ok
  /\ ex.ok => (k < Len(r) => Len(bytes) < ex.used + r[k + 1].size)
  /\ ~ex.ok => k < Len(r) /\ ~r[k + 1].ok

LEMMA ExtractFacts ==
  ASSUME NEW knd \in {"json", "line"}, NEW r \in Seq(Package), NEW bytes, Begins(bytes, r),
         knd = "line" => \A i \in 1..Len(r) : r[i].ok
  PROVE  \E k : Extracted(knd, r, bytes, Extract(knd, bytes), k)
<1> DEFINE n == Len(bytes)
<1>1. PICK off : Layout(r, off)
  BY LayoutExists
<1>2. bytes \in Seq(Byte) /\ n \in Nat
  BY DEF Begins
<1>3. \E f : Extract(knd, bytes) = f[0] /\ Walks(knd, r, off, n, f)
  <2>1. CASE knd = "json"
    <3>1. PICK f : /\ JsonExtract(bytes) = f[0]
                   /\ \A u \in 0..Len(bytes) : f[u] = JsonStep(bytes, f, u)
      BY <1>2, JsonEquation
    <3>2. Walks("json", r, off, n, f)
      BY <1>1, <3>1, JsonWalks
    <3>3. QED
      BY <2>1, <3>1, <3>2 DEF Extract
  <2>2. CASE knd = "line"
    <3>1. PICK f : /\ LineExtract(bytes) = f[0]
                   /\ \A u \in 0..Len(bytes) : f[u] = LineStep(bytes, f, u)
      BY <1>2, LineEquation
    <3>2. Walks("line", r, off, n, f)
      BY <1>1, <2>2, <3>1, LineWalks
    <3>3. QED
      BY <2>2, <3>1, <3>2 DEF Extract
  <2>3. QED
    BY <2>1, <2>2
<1>4. PICK f : Extract(knd, bytes) = f[0] /\ Walks(knd, r, off, n, f)
  BY <1>3
<1>5. PICK k : Reaches(knd, r, off, n, f, 0, k)
  BY <1>1, <1>2, <1>4, WalkReaches
<1> DEFINE ex == Extract(knd, bytes)
           w == ~Whole(r, off, n, k)
<1>6. ex = [used |-> off[k], msgs |-> SubSeq(Msgs(knd, r), 1, k), ok |-> w]
  <2>1. off[0] = 0
    BY <1>1 DEF Layout
  <2>2. 0 + 1 = 1
    OBVIOUS
  <2>3. QED
    BY <1>4, <1>5, <2>1, <2>2 DEF Reaches
<1> HIDE DEF ex, w
<1>7. ex.used = off[k] /\ ex.msgs = First(Msgs(knd, r), k) /\ ex.ok = w
  BY <1>6 DEF First
<1>8. /\ k \in 0..Len(r) /\ off[k] <= n /\ Len(r) \in Nat
      /\ \A i \in 1..k : r[i].ok
      /\ Whole(r, off, n, k) => ~r[k + 1].ok
  BY <1>5 DEF Reaches
<1>9. off[k] = Len(AllBytes(First(r, k))) /\ off[k] \in Nat
  BY <1>1, <1>8 DEF Layout
<1>10. ASSUME w, k < Len(r) PROVE n < off[k] + r[k + 1].size
  <2>1. k \in 0..(Len(r) - 1) /\ k + 1 \in 1..Len(r)
    BY <1>8, <1>10
  <2>2. off[k + 1] = off[k] + r[k + 1].size
    BY <1>1, <2>1 DEF Layout
  <2>3. r[k + 1].size \in Nat
    BY <2>1, SizeFacts
  <2>4. ~(off[k + 1] <= n)
    BY <1>10 DEF w, Whole
  <2>5. QED
    BY <1>2, <1>9, <2>2, <2>3, <2>4
<1>11. ASSUME ~w PROVE k < Len(r) /\ ~r[k + 1].ok
  BY <1>8, <1>11 DEF w, Whole
<1>12. Extracted(knd, r, bytes, ex, k)
  BY <1>7, <1>8, <1>9, <1>10, <1>11 DEF Extracted
<1>13. QED
  BY <1>12 DEF ex
----------------------------------------------------------------------------
(* Buffers *)

\* A block holds no more than its capacity.
Block(b) == b \in [data : Seq(Byte), cap : Nat] /\ Len(b.data) <= b.cap

\* The content moved down by u bytes, still as long as it was.
LEMMA MovedFacts ==
  ASSUME NEW b, Block(b), NEW u \in 0..Size(b)
  PROVE  LET c == Copy(b, 0, From(b.data, u + 1))
         IN  /\ Block(c) /\ Size(c) = Size(b) /\ c.cap = b.cap
             /\ SubSeq(c.data, 1, Size(b) - u) = From(b.data, u + 1)
<1> DEFINE d == b.data
           l == Len(d)
           src == From(d, u + 1)
           tail == SubSeq(d, (l - u) + 1, l)
           c == Copy(b, 0, src)
<1>1. d \in Seq(Byte) /\ l \in Nat /\ u \in 0..l /\ b.cap \in Nat /\ l <= b.cap
  BY DEF Block, Size
<1>2. src \in Seq(Byte) /\ Len(src) = l - u
  BY <1>1, FirstRest
<1>3. tail \in Seq(Byte) /\ Len(tail) = u
  <2>1. (l - u) + 1 \in Int /\ l \in Int /\ \A i \in ((l - u) + 1)..l : d[i] \in Byte
    BY <1>1
  <2>2. tail \in Seq(Byte) /\ Len(tail) = IF (l - u) + 1 <= l THEN l - ((l - u) + 1) + 1 ELSE 0
    BY <2>1, SubSeqProperties
  <2> HIDE DEF tail
  <2>3. QED
    BY <1>1, <2>2
<1>4. c = [b EXCEPT !.data = SubSeq(d, 1, 0) \o src \o tail]
  <2>1. 0 + Len(src) = l - u /\ ~(l - u > b.cap) /\ ~(0 > Size(b)) /\ Size(b) = l
    BY <1>1, <1>2 DEF Size
  <2> HIDE DEF src
  <2>2. QED
    BY <2>1 DEF Copy
<1>5. SubSeq(d, 1, 0) \o src = src
  <2>1. SubSeq(d, 1, 0) = <<>>
    BY SubSeqEmpty
  <2>2. QED
    BY <1>2, <2>1, ConcatEmptySeq
<1> HIDE DEF d, l, src, tail, c
<1>6. c.data = src \o tail /\ c.cap = b.cap /\ c = [b EXCEPT !.data = src \o tail]
  BY <1>4, <1>5 DEF Block
<1>7. src \o tail \in Seq(Byte) /\ Len(src \o tail) = l
  <2>1. src \o tail \in Seq(Byte) /\ Len(src \o tail) = Len(src) + Len(tail)
    BY <1>2, <1>3, LenCat
  <2>2. (l - u) + u = l
    BY <1>1
  <2>3. QED
    BY <1>2, <1>3, <2>1, <2>2
<1>8. c \in [data : Seq(Byte), cap : Nat]
  BY <1>6, <1>7 DEF Block
<1>9. SubSeq(src \o tail, 1, l - u) = src
  <2>1. SubSeq(src \o tail, 1, Len(src)) = src
    BY <1>2, <1>3
  <2>2. QED
    BY <1>2, <2>1
<1>10. QED
  BY <1>1, <1>6, <1>7, <1>8, <1>9 DEF Block, Size, d, l, src, c

LEMMA UsedFacts ==
  ASSUME NEW b, Block(b), NEW u \in 0..Size(b)
  PROVE  Block(Used(b, u)) /\ Used(b, u).data = From(b.data, u + 1)
<1>1. b.data \in Seq(Byte) /\ Size(b) = Len(b.data) /\ Size(b) \in Nat
  BY DEF Block, Size
<1>2. CASE u = 0
  <2>1. From(b.data, 0 + 1) = b.data
    BY <1>1, SubSeqFull DEF From
  <2>2. QED
    BY <1>2, <2>1 DEF Used
<1>3. CASE u # 0
  <2> DEFINE c == Copy(b, 0, From(b.data, u + 1))
             e == ReduceSpace(c, u)
  <2>1. /\ Block(c) /\ Size(c) = Size(b)
        /\ SubSeq(c.data, 1, Size(b) - u) = From(b.data, u + 1)
    BY MovedFacts
  <2>2. Used(b, u) = e
    BY <1>3 DEF Used
  <2> HIDE DEF c
  <2>3. Len(c.data) = Size(b) /\ ~(u > Size(c))
    BY <1>1, <2>1 DEF Size
  <2>4. e = [c EXCEPT !.data = SubSeq(c.data, 1, Size(b) - u)]
    BY <2>3 DEF ReduceSpace
  <2>5. From(b.data, u + 1) \in Seq(Byte) /\ Len(From(b.data, u + 1)) = Size(b) - u
    BY <1>1, FirstRest
  <2> HIDE DEF e
  <2>6. e.data = From(b.data, u + 1) /\ e.cap = c.cap /\ e \in [data : Seq(Byte), cap : Nat]
    BY <2>1, <2>4, <2>5 DEF Block
  <2>7. Len(e.data) <= e.cap
    BY <1>1, <2>1, <2>3, <2>5, <2>6 DEF Block
  <2>8. QED
    BY <2>2, <2>6, <2>7 DEF Block
<1>4. QED
  BY <1>2, <1>3

LEMMA UnsentFacts ==
  ASSUME NEW b, Block(b), NEW n \in 0..Size(b)
  PROVE  Block(Unsent(b, n)) /\ Unsent(b, n).data = From(b.data, n + 1)
<1>1. b.data \in Seq(Byte) /\ Size(b) = Len(b.data) /\ Size(b) \in Nat /\ b.cap \in Nat
  BY DEF Block, Size
<1>2. CASE n = Size(b)
  <2>1. Unsent(b, n) = [b EXCEPT !.data = <<>>]
    BY <1>2 DEF Unsent, Clear
  <2>2. From(b.data, n + 1) = <<>>
    BY <1>1, <1>2, SubSeqEmpty DEF From
  <2>3. /\ [b EXCEPT !.data = <<>>] \in [data : Seq(Byte), cap : Nat]
        /\ [b EXCEPT !.data = <<>>].data = <<>> /\ [b EXCEPT !.data = <<>>].cap = b.cap
    <3>0. <<>> \in Seq(Byte)
      BY EmptySeq
    <3>1. PICK z : z = <<>> /\ z \in Seq(Byte)
      BY <3>0, Zenon
    <3>2. /\ [b EXCEPT !.data = z] \in [data : Seq(Byte), cap : Nat]
          /\ [b EXCEPT !.data = z].data = z /\ [b EXCEPT !.data = z].cap = b.cap
      BY <3>1 DEF Block
    <3>3. QED
      BY <3>1, <3>2
  <2>4. QED
    BY <1>1, <2>1, <2>2, <2>3 DEF Block
<1>3. CASE n # Size(b)
  <2> DEFINE c == Copy(b, 0, From(b.data, n + 1))
             e == Resize(c, Size(c) - n)
  <2>1. /\ Block(c) /\ Size(c) = Size(b) /\ c.cap = b.cap
        /\ SubSeq(c.data, 1, Size(b) - n) = From(b.data, n + 1)
    BY MovedFacts
  <2>2. Unsent(b, n) = e
    BY <1>3 DEF Unsent
  <2> HIDE DEF c
  <2>3. Len(c.data) = Size(b) /\ c.data \in Seq(Byte) /\ Size(b) <= c.cap /\ c.cap \in Nat
    BY <1>1, <2>1 DEF Size, Block
  <2>4. From(b.data, n + 1) \in Seq(Byte) /\ Len(From(b.data, n + 1)) = Size(b) - n
    BY <1>1, FirstRest
  <2>5. e = [c EXCEPT !.data = From(b.data, n + 1)]
    <3>1. Size(c) - n <= c.cap
      BY <1>1, <2>1, <2>3
    <3>2. e = [c EXCEPT !.data = IF Size(c) - n < Len(c.data) THEN SubSeq(c.data, 1, Size(c) - n) ELSE c.data]
      BY <3>1 DEF Resize
    <3>3. CASE n = 0
      <4>1. From(b.data, n + 1) = c.data
        <5>1. SubSeq(c.data, 1, Len(c.data)) = c.data /\ Size(b) - n = Len(c.data)
          BY <1>1, <2>3, <3>3, SubSeqFull
        <5>2. QED
          BY <2>1, <5>1
      <4>2. ~(Size(c) - n < Len(c.data))
        BY <1>1, <2>1, <2>3, <3>3
      <4>3. QED
        BY <3>2, <4>1, <4>2
    <3>4. CASE n # 0
      <4>1. Size(c) - n < Len(c.data)
        BY <1>1, <2>1, <2>3, <3>4
      <4>2. QED
        BY <2>1, <3>2, <4>1
    <3>5. QED
      BY <3>3, <3>4
  <2> HIDE DEF e
  <2>6. e.data = From(b.data, n + 1) /\ e.cap = c.cap /\ e \in [data : Seq(Byte), cap : Nat]
    BY <2>1, <2>4, <2>5 DEF Block
  <2>7. Len(e.data) <= e.cap
    BY <1>1, <2>3, <2>4, <2>6
  <2>8. QED
    BY <2>2, <2>6, <2>7 DEF Block
<1>4. QED
  BY <1>2, <1>3

LEMMA AppendFacts ==
  ASSUME NEW b, Block(b), NEW src \in Seq(Byte)
  PROVE  Block(AppendTo(b, src)) /\ AppendTo(b, src).data = b.data \o src
<1> DEFINE d == b.data
           l == Len(d)
           end == l + Len(src)
           big == IF end > b.cap THEN Resize(b, end) ELSE b
           c == AppendTo(b, src)
<1>1. d \in Seq(Byte) /\ l \in Nat /\ b.cap \in Nat /\ l <= b.cap /\ Len(src) \in Nat /\ Size(b) = l
  BY DEF Block, Size
<1>2. big.data = d /\ big.cap \in Nat /\ end <= big.cap /\ big \in [data : Seq(Byte), cap : Nat]
  <2>1. CASE end > b.cap
    <3>1. end \in Nat /\ ~(end <= b.cap)
      BY <1>1, <2>1
    <3> HIDE DEF end
    <3>2. big = [b EXCEPT !.cap = end]
      BY <2>1, <3>1 DEF Resize
    <3>3. QED
      BY <3>1, <3>2 DEF Block
  <2>2. CASE ~(end > b.cap)
    BY <1>1, <2>2 DEF Block
  <2>3. QED
    BY <2>1, <2>2
<1>3. c = [big EXCEPT !.data = SubSeq(d, 1, l) \o src \o SubSeq(d, end + 1, l)]
  <2>1. ~(l > l)
    BY <1>1
  <2>2. c = [big EXCEPT !.data = SubSeq(big.data, 1, l) \o src \o SubSeq(big.data, end + 1, Len(big.data))]
    BY <1>1, <2>1 DEF AppendTo, Copy
  <2> HIDE DEF big
  <2>3. QED
    BY <1>2, <2>2
<1>4. SubSeq(d, 1, l) \o src \o SubSeq(d, end + 1, l) = d \o src
  <2>1. SubSeq(d, 1, l) = d
    BY <1>1, SubSeqFull
  <2>2. SubSeq(d, end + 1, l) = <<>>
    <3>1. l < end + 1 /\ end + 1 \in Int /\ l \in Int
      BY <1>1
    <3>2. QED
      BY <3>1, SubSeqEmpty
  <2>3. d \o src \in Seq(Byte)
    BY <1>1
  <2> HIDE DEF d, l, end
  <2>4. QED
    BY <2>1, <2>2, <2>3, ConcatEmptySeq
<1>5. d \o src \in Seq(Byte) /\ Len(d \o src) = end
  BY <1>1, LenCat
<1> HIDE DEF c, big, d, end
<1>6. c.data = d \o src /\ c.cap = big.cap /\ c \in [data : Seq(Byte), cap : Nat]
  BY <1>2, <1>3, <1>4, <1>5
<1>7. QED
  BY <1>2, <1>5, <1>6 DEF Block, c, d

\* A recv into the room made for it.
LEMMA RecvFacts ==
  ASSUME NEW b, Block(b), NEW w \in Seq(Byte), Len(w) <= RecvSize
  PROVE  /\ Block(RoomForRecv(b)) /\ RoomForRecv(b).data = b.data
         /\ Block(AddSpace(RoomForRecv(b), w))
         /\ AddSpace(RoomForRecv(b), w).data = b.data \o w
<1> DEFINE l == Len(b.data)
           c == RoomForRecv(b)
           e == AddSpace(c, w)
<1>1. b.data \in Seq(Byte) /\ l \in Nat /\ b.cap \in Nat /\ l <= b.cap /\ RecvSize \in Nat /\ Len(w) \in Nat
  BY ConnectionAssumption DEF Block
<1>2. c = Resize(b, l + RecvSize)
  BY DEF RoomForRecv, Size
<1>3. c.data = b.data /\ c.cap \in Nat /\ l + RecvSize <= c.cap /\ c \in [data : Seq(Byte), cap : Nat]
  <2>1. CASE l + RecvSize <= b.cap
    <3>1. ~(l + RecvSize < Len(b.data))
      BY <1>1
    <3>2. c = [b EXCEPT !.data = b.data]
      BY <1>2, <2>1, <3>1 DEF Resize
    <3>3. c = b
      BY <3>2 DEF Block
    <3>4. QED
      BY <1>1, <2>1, <3>3 DEF Block
  <2>2. CASE ~(l + RecvSize <= b.cap)
    <3> DEFINE m == l + RecvSize
    <3>1. m \in Nat
      BY <1>1
    <3>2. c = [b EXCEPT !.cap = m]
      BY <1>2, <2>2 DEF Resize
    <3> HIDE DEF m, c
    <3>3. c.data = b.data /\ c.cap = m /\ c \in [data : Seq(Byte), cap : Nat]
      BY <3>1, <3>2 DEF Block
    <3>4. QED
      BY <3>1, <3>3 DEF m
  <2>3. QED
    BY <2>1, <2>2
<1> HIDE DEF c
<1>4. Block(c)
  BY <1>1, <1>3 DEF Block
<1>5. ~(Len(w) > FreeSpace(c))
  BY <1>1, <1>3 DEF FreeSpace, Size
<1>6. e = [c EXCEPT !.data = b.data \o w]
  BY <1>3, <1>5 DEF AddSpace
<1>7. b.data \o w \in Seq(Byte) /\ Len(b.data \o w) = l + Len(w)
  BY <1>1, LenCat
<1> HIDE DEF e
<1>8. e.data = b.data \o w /\ e.cap = c.cap /\ e \in [data : Seq(Byte), cap : Nat]
  BY <1>3, <1>6, <1>7
<1>9. Len(e.data) <= e.cap
  BY <1>1, <1>3, <1>7, <1>8
<1>10. QED
  BY <1>3, <1>4, <1>8, <1>9 DEF Block, c, e
----------------------------------------------------------------------------
(* Types *)

CInv ==
  /\ kind \in {"json", "line"}
  /\ there \in BOOLEAN /\ open \in BOOLEAN /\ wr \in BOOLEAN
  /\ sent \in Seq(Package) /\ answers \in Seq(Package)
  /\ in \in Seq(Byte) /\ out \in Seq(Byte) /\ read \in Seq(Byte)
  /\ Block(recvbuf) /\ Block(sendbuf)

LEMMA ConstantFacts ==
  /\ RecvSize \in Nat /\ SocketSize \in Nat /\ DefaultSize \in Nat /\ Kinds \subseteq {"json", "line"}
  /\ HeadLen \in Nat \ {0} /\ Sizes \subseteq Nat
  BY ConnectionAssumption, HeadLenAssumption, SizesAssumption

LEMMA CutFacts ==
  ASSUME NEW S, NEW s \in Seq(S), NEW n \in 0..Len(s)
  PROVE  /\ SubSeq(s, 1, n) \in Seq(S) /\ Len(SubSeq(s, 1, n)) = n
         /\ From(s, n + 1) \in Seq(S) /\ Len(From(s, n + 1)) = Len(s) - n
         /\ s = SubSeq(s, 1, n) \o From(s, n + 1)
  BY FirstFacts, FirstRest DEF First

LEMMA NewBlockFacts ==
  ASSUME NEW n \in Nat
  PROVE  Block(NewBlock(n)) /\ NewBlock(n).data = <<>>
<1>1. <<>> \in Seq(Byte) /\ Len(<<>>) = 0
  OBVIOUS
<1>2. NewBlock(n) \in [data : Seq(Byte), cap : Nat]
  <2> DEFINE z == <<>>
  <2>1. z \in Seq(Byte)
    BY <1>1
  <2>2. NewBlock(n) = [data |-> z, cap |-> n]
    BY DEF NewBlock
  <2> HIDE DEF z
  <2>3. QED
    BY <2>1, <2>2
<1>3. NewBlock(n).data = <<>> /\ NewBlock(n).cap = n
  BY DEF NewBlock
<1>4. QED
  BY <1>1, <1>2, <1>3 DEF Block

LEMMA CloseTypes ==
  ASSUME CInv, Close
  PROVE  open' = FALSE /\ wr' = FALSE /\ out' \in Seq(Byte) /\ out' \in {out, <<>>}
<1>1. <<>> \in Seq(Byte)
  OBVIOUS
<1>2. out' = out \/ out' = <<>>
  BY DEF Close
<1>3. QED
  BY <1>1, <1>2 DEF Close, CInv

\* A send of b, whatever comes of it.
LEMMA OutputTypes ==
  ASSUME CInv, NEW b, Block(b), Output(b)
  PROVE  /\ open' \in BOOLEAN /\ wr' \in BOOLEAN /\ out' \in Seq(Byte) /\ Block(sendbuf')
<1>1. ASSUME NEW n \in 1..SocketSize, open, Sends(b, n)
      PROVE  open' \in BOOLEAN /\ wr' \in BOOLEAN /\ out' \in Seq(Byte) /\ Block(sendbuf')
  <2>1. b.data \in Seq(Byte) /\ Size(b) = Len(b.data) /\ Size(b) \in Nat /\ n \in 0..Size(b)
    BY <1>1, ConstantFacts DEF Block, Size, Sends
  <2>2. SubSeq(b.data, 1, n) \in Seq(Byte)
    BY <2>1, CutFacts
  <2>3. out' = out \o SubSeq(b.data, 1, n) \/ out' = out
    BY <1>1 DEF Sends
  <2>4. out' \in Seq(Byte)
    <3>1. out \in Seq(Byte)
      BY DEF CInv
    <3>2. QED
      BY <2>2, <2>3, <3>1, LenCat
  <2>5. Block(sendbuf')
    BY <1>1, <2>1, UnsentFacts DEF Sends
  <2>6. QED
    BY <1>1, <2>4, <2>5 DEF Sends, CInv
<1>2. CASE open /\ Eagain(b)
  BY <1>2 DEF Eagain, CInv
<1>3. CASE open /\ ~there /\ sendbuf' = b /\ UNCHANGED in /\ Close
  BY <1>3, CloseTypes
<1>4. CASE ~open /\ sendbuf' = b /\ UNCHANGED <<open, wr, out>>
  BY <1>4 DEF CInv
<1>5. QED
  BY <1>1, <1>2, <1>3, <1>4 DEF Output

\* A package a step of the client or the server makes.
LEMMA NewPackage ==
  ASSUME NEW i \in Nat, NEW s \in Sizes, NEW ok \in BOOLEAN
  PROVE  [id |-> i, size |-> s, ok |-> ok] \in Package
  BY DEF Package

----------------------------------------------------------------------------
(* Requests *)

ReqInv ==
  /\ Len(inbox) \in 0..Len(sent)
  /\ inbox = First(Msgs(kind, sent), Len(inbox))
  /\ kind = "line" => \A i \in 1..Len(sent) : sent[i].ok
  /\ \A i \in 1..Len(inbox) : sent[i].ok
  /\ open => /\ recvbuf.data \o in = AllBytes(From(sent, Len(inbox) + 1))
             /\ Len(inbox) < Len(sent) => Len(recvbuf.data) < sent[Len(inbox) + 1].size

\* Two ways to cut the same bytes in two.
LEMMA CutCat ==
  ASSUME NEW S, NEW s \in Seq(S), NEW t \in Seq(S), NEW a \in Seq(S), NEW b \in Seq(S),
         s \o t = a \o b, Len(a) <= Len(s)
  PROVE  From(s, Len(a) + 1) \o t = b
<1> DEFINE l == Len(a)
           x == SubSeq(s, 1, l)
           y == From(s, l + 1)
<1>1. l \in 0..Len(s) /\ l \in Nat
  OBVIOUS
<1>2. x \in Seq(S) /\ Len(x) = l /\ y \in Seq(S) /\ s = x \o y
  BY <1>1, CutFacts, ZenonT(60)
<1>3. x = a
  <2>1. ASSUME NEW i \in 1..l PROVE x[i] = a[i]
    <3>1. i \in 1..Len(s) /\ x[i] = s[i]
      BY <1>1
    <3>2. (s \o t)[i] = s[i]
      BY <3>1, LenCat
    <3>3. (a \o b)[i] = a[i]
      BY LenCat
    <3>4. QED
      BY <3>1, <3>2, <3>3
  <2> HIDE DEF x
  <2>2. QED
    BY <1>2, <2>1, SeqEqual
<1> HIDE DEF x, y
<1>4. a \o (y \o t) = a \o b
  <2>1. (x \o y) \o t = x \o (y \o t)
    BY <1>2, CatAssoc, SMTT(60)
  <2>2. QED
    BY <1>2, <1>3, <2>1
<1>5. y \o t \in Seq(S)
  BY <1>2
<1>6. y \o t = b
  BY <1>4, <1>5, ConcatSimplifications
<1>7. QED
  BY <1>6 DEF y

\* What comes before a cut is a beginning.
LEMMA CatBegins ==
  ASSUME NEW r \in Seq(Package), NEW x \in Seq(Byte), NEW y \in Seq(Byte), x \o y = AllBytes(r)
  PROVE  Begins(x, r)
<1>1. Len(x \o y) = Len(x) + Len(y) /\ Len(x) \in Nat /\ Len(y) \in Nat /\ \A i \in 1..Len(x) : (x \o y)[i] = x[i]
  BY LenCat
<1>2. QED
  BY <1>1 DEF Begins

\* Packages behind the first l.
LEMMA RestOfRest ==
  ASSUME NEW s \in Seq(Package), NEW l \in 0..Len(s), NEW k \in 0..(Len(s) - l), NEW knd
  PROVE  LET r == From(s, l + 1)
         IN  /\ r \in Seq(Package) /\ Len(r) = Len(s) - l /\ \A i \in 1..Len(r) : r[i] = s[l + i]
             /\ From(r, k + 1) = From(s, (l + k) + 1)
             /\ First(Msgs(knd, s), l) \o First(Msgs(knd, r), k) = First(Msgs(knd, s), l + k)
<1> DEFINE r == From(s, l + 1)
<1>0. Len(s) \in Nat
  OBVIOUS
<1>1. /\ r \in Seq(Package) /\ Len(r) = Len(s) - l /\ Len(s) \in Nat
      /\ \A i \in 1..(Len(s) - l) : r[i] = s[l + i]
  BY <1>0, FirstRest, Zenon
<1> HIDE DEF r
<1>2. From(r, k + 1) = From(s, (l + k) + 1)
  <2> DEFINE x == From(r, k + 1)
             y == From(s, (l + k) + 1)
  <2>1. k \in 0..Len(r) /\ l + k \in 0..Len(s)
    BY <1>1
  <2>2. /\ x \in Seq(Package) /\ Len(x) = Len(r) - k
        /\ \A i \in 1..(Len(r) - k) : x[i] = r[k + i]
    BY <1>1, <2>1, FirstRest, ZenonT(60)
  <2>3. /\ y \in Seq(Package) /\ Len(y) = Len(s) - (l + k)
        /\ \A i \in 1..(Len(s) - (l + k)) : y[i] = s[(l + k) + i]
    BY <2>1, FirstRest
  <2> HIDE DEF x, y
  <2>4. Len(x) = Len(y)
    BY <1>1, <2>2, <2>3
  <2>5. ASSUME NEW i \in 1..Len(x) PROVE x[i] = y[i]
    <3>1. k + i \in 1..(Len(s) - l) /\ l + (k + i) = (l + k) + i
      BY <1>1, <2>1, <2>2
    <3>2. QED
      BY <1>1, <2>2, <2>3, <2>4, <3>1
  <2>6. QED
    BY <2>2, <2>3, <2>4, <2>5, SeqEqual DEF x, y
<1>3. First(Msgs(knd, s), l) \o First(Msgs(knd, r), k) = First(Msgs(knd, s), l + k)
  <2> DEFINE SB == Seq(Byte)
             M == Msgs(knd, s)
             N == Msgs(knd, r)
             x == First(M, l)
             y == First(N, k)
             z == First(M, l + k)
  <2>1. M \in Seq(SB) /\ Len(M) = Len(s) /\ \A i \in 1..Len(s) : M[i] = Message(knd, s[i])
    BY MsgsFacts
  <2>2. N \in Seq(SB) /\ Len(N) = Len(r) /\ \A i \in 1..Len(r) : N[i] = Message(knd, r[i])
    BY <1>1, MsgsFacts
  <2> HIDE DEF SB, M, N
  <2>3. l \in 0..Len(M) /\ l + k \in 0..Len(M) /\ k \in 0..Len(N)
    BY <1>1, <2>1, <2>2
  <2>4. x \in Seq(SB) /\ Len(x) = l /\ \A i \in 1..l : x[i] = M[i]
    BY <2>1, <2>3, FirstFacts
  <2>5. y \in Seq(SB) /\ Len(y) = k /\ \A i \in 1..k : y[i] = N[i]
    BY <2>2, <2>3, FirstFacts
  <2>6. z \in Seq(SB) /\ Len(z) = l + k /\ \A i \in 1..(l + k) : z[i] = M[i]
    BY <2>1, <2>3, FirstFacts
  <2> HIDE DEF x, y, z
  <2>7. x \o y \in Seq(SB) /\ Len(x \o y) = l + k
    BY <2>4, <2>5, LenCat
  <2>8. ASSUME NEW i \in 1..(l + k) PROVE (x \o y)[i] = z[i]
    <3>1. CASE i <= l
      <4>1. i \in 1..l
        BY <1>1, <3>1
      <4>2. (x \o y)[i] = x[i]
        BY <2>4, <2>5, <4>1, LenCat
      <4>3. QED
        BY <2>4, <2>6, <4>1, <4>2
    <3>2. CASE ~(i <= l)
      <4> DEFINE j == i - l
      <4>1. j \in 1..k /\ i = l + j /\ j \in 1..Len(r) /\ j \in 1..(Len(s) - l) /\ i \in 1..Len(s)
        BY <1>1, <3>2
      <4> HIDE DEF j
      <4>2. (x \o y)[i] = y[j]
        BY <2>4, <2>5, <4>1, LenCat
      <4>3. y[j] = Message(knd, r[j]) /\ z[i] = Message(knd, s[i]) /\ r[j] = s[i]
        BY <1>1, <2>1, <2>2, <2>5, <2>6, <4>1
      <4>4. QED
        BY <4>2, <4>3
    <3>3. QED
      BY <3>1, <3>2
  <2>9. QED
    BY <2>6, <2>7, <2>8, SeqEqual DEF x, y, z, M, N
<1>4. QED
  BY <1>1, <1>2, <1>3 DEF r

\* A new request is behind all others.
LEMMA SendReq ==
  ASSUME CInv, ReqInv, NEW p \in Package, ClientSend(p)
  PROVE  ReqInv' /\ sent' \in Seq(Package) /\ in' \in Seq(Byte)
<1> DEFINE l == Len(inbox)
           r == From(sent, l + 1)
           b == recvbuf.data
<1>1. /\ sent' = Append(sent, p) /\ in' = in \o Bytes(p) /\ (kind = "line" => p.ok)
      /\ UNCHANGED <<kind, recvbuf, inbox, open>>
  BY DEF ClientSend
<1>2. /\ sent \in Seq(Package) /\ Len(sent) \in Nat /\ l \in 0..Len(sent) /\ in \in Seq(Byte) /\ b \in Seq(Byte)
      /\ Bytes(p) \in Seq(Byte) /\ inbox = First(Msgs(kind, sent), l)
  BY BytesFacts DEF CInv, ReqInv, Block
<1>3. /\ Append(sent, p) \in Seq(Package) /\ Len(Append(sent, p)) = Len(sent) + 1
      /\ \A i \in 1..Len(sent) : Append(sent, p)[i] = sent[i]
      /\ Append(sent, p)[Len(sent) + 1] = p
  BY <1>2
<1>4. sent' \in Seq(Package) /\ in' \in Seq(Byte) /\ l \in 0..Len(sent')
  BY <1>1, <1>2, <1>3, LenCat
<1>5. inbox = First(Msgs(kind, Append(sent, p)), l)
  <2> DEFINE SB == Seq(Byte)
             M == Msgs(kind, sent)
             N == Msgs(kind, Append(sent, p))
  <2>1. M \in Seq(SB) /\ Len(M) = Len(sent) /\ \A i \in 1..Len(sent) : M[i] = Message(kind, sent[i])
    BY <1>2, MsgsFacts
  <2>2. /\ N \in Seq(SB) /\ Len(N) = Len(sent) + 1
        /\ \A i \in 1..(Len(sent) + 1) : N[i] = Message(kind, Append(sent, p)[i])
    BY <1>3, MsgsFacts
  <2> HIDE DEF SB, M, N
  <2>3. l \in 0..Len(M) /\ l \in 0..Len(N)
    BY <1>2, <2>1, <2>2
  <2>4. First(M, l) \in Seq(SB) /\ Len(First(M, l)) = l /\ \A i \in 1..l : First(M, l)[i] = M[i]
    BY <2>1, <2>3, FirstFacts
  <2>5. First(N, l) \in Seq(SB) /\ Len(First(N, l)) = l /\ \A i \in 1..l : First(N, l)[i] = N[i]
    BY <2>2, <2>3, FirstFacts
  <2>6. ASSUME NEW i \in 1..l PROVE First(M, l)[i] = First(N, l)[i]
    <3>1. i \in 1..Len(sent) /\ i \in 1..(Len(sent) + 1)
      BY <1>2
    <3>2. QED
      BY <1>3, <2>1, <2>2, <2>4, <2>5, <3>1
  <2>7. First(M, l) = First(N, l)
    BY <2>4, <2>5, <2>6, SeqEqual
  <2>8. QED
    BY <1>2, <2>7 DEF M, N
<1>6. From(Append(sent, p), l + 1) = Append(r, p) /\ r \in Seq(Package) /\ Len(r) = Len(sent) - l
  <2> DEFINE t == Append(sent, p)
             x == From(t, l + 1)
  <2>1. r \in Seq(Package) /\ Len(r) = Len(sent) - l /\ \A i \in 1..(Len(sent) - l) : r[i] = sent[l + i]
    BY <1>2, FirstRest
  <2>2. t \in Seq(Package) /\ Len(t) = Len(sent) + 1 /\ l \in 0..Len(t)
    BY <1>2, <1>3
  <2>3. x \in Seq(Package) /\ Len(x) = Len(t) - l /\ \A i \in 1..(Len(t) - l) : x[i] = t[l + i]
    BY <2>2, FirstRest
  <2> HIDE DEF x, r
  <2>4. /\ Append(r, p) \in Seq(Package) /\ Len(Append(r, p)) = Len(r) + 1
        /\ \A i \in 1..Len(r) : Append(r, p)[i] = r[i]
        /\ Append(r, p)[Len(r) + 1] = p
    BY <2>1
  <2>5. Len(x) = Len(Append(r, p))
    BY <1>2, <2>1, <2>2, <2>3, <2>4
  <2>6. ASSUME NEW i \in 1..Len(x) PROVE x[i] = Append(r, p)[i]
    <3>1. CASE i = Len(r) + 1
      <4>1. l + i = Len(sent) + 1 /\ i \in 1..(Len(t) - l)
        BY <1>2, <2>1, <2>2, <2>3, <3>1
      <4>2. QED
        BY <1>3, <2>3, <2>4, <3>1, <4>1
    <3>2. CASE i # Len(r) + 1
      <4>1. i \in 1..Len(r) /\ i \in 1..(Len(sent) - l) /\ l + i \in 1..Len(sent) /\ i \in 1..(Len(t) - l)
        BY <1>2, <2>1, <2>2, <2>3, <3>2
      <4>2. QED
        BY <1>3, <2>1, <2>3, <2>4, <4>1
    <3>3. QED
      BY <3>1, <3>2
  <2>7. x = Append(r, p)
    BY <2>3, <2>4, <2>5, <2>6, SeqEqual
  <2>8. QED
    BY <2>1, <2>7 DEF x
<1>7. ASSUME open
      PROVE  /\ b \o (in \o Bytes(p)) = AllBytes(Append(r, p))
             /\ Len(b) < Append(sent, p)[l + 1].size
  <2>1. b \o in = AllBytes(r)
    BY <1>7 DEF ReqInv
  <2>2. AllBytes(Append(r, p)) = (b \o in) \o Bytes(p)
    BY <1>6, <2>1, AllBytesAppend
  <2>3. (b \o in) \o Bytes(p) = b \o (in \o Bytes(p))
    <3>1. b \in Seq(Byte) /\ in \in Seq(Byte) /\ Bytes(p) \in Seq(Byte)
      BY <1>2
    <3> HIDE DEF b
    <3>2. QED
      BY <3>1, CatAssoc
  <2>4. CASE l < Len(sent)
    <3>1. Append(sent, p)[l + 1] = sent[l + 1]
      BY <1>2, <1>3, <2>4
    <3>2. QED
      BY <1>7, <2>2, <2>3, <2>4, <3>1 DEF ReqInv
  <2>5. CASE l = Len(sent)
    <3>1. Append(sent, p)[l + 1] = p /\ p.size \in Nat /\ p.size > 0
      BY <1>3, <2>5, SizeFacts
    <3>2. r = <<>>
      BY <1>2, <1>6, <2>5
    <3>3. Len(b \o in) = 0
      BY <2>1, <3>2, AllBytesEmpty
    <3>4. Len(b) = 0
      BY <1>2, <3>3, LenCat
    <3>5. QED
      BY <2>2, <2>3, <3>1, <3>4
  <2>6. l < Len(sent) \/ l = Len(sent)
    <3>1. l \in 0..Len(sent) /\ Len(sent) \in Nat
      BY <1>2
    <3> HIDE DEF l
    <3>2. QED
      BY <3>1
  <2>7. QED
    BY <2>4, <2>5, <2>6
<1>8. /\ kind = "line" => \A i \in 1..Len(Append(sent, p)) : Append(sent, p)[i].ok
      /\ \A i \in 1..l : Append(sent, p)[i].ok
  <2>1. ASSUME NEW i \in 1..Len(Append(sent, p)), i # Len(sent) + 1
        PROVE  i \in 1..Len(sent) /\ Append(sent, p)[i] = sent[i]
    BY <1>2, <1>3, <2>1
  <2>2. \A i \in 1..l : i \in 1..Len(Append(sent, p)) /\ i # Len(sent) + 1
    BY <1>2, <1>3
  <2>3. \A i \in 1..l : sent[i].ok
    BY DEF ReqInv
  <2>4. kind = "line" => \A i \in 1..Len(sent) : sent[i].ok
    BY DEF ReqInv
  <2>5. QED
    BY <1>1, <1>3, <2>1, <2>2, <2>3, <2>4
<1>9. QED
  BY <1>1, <1>4, <1>5, <1>6, <1>7, <1>8 DEF ReqInv

\* Steps that touch neither the requests nor their bytes.
LEMMA ReqKept ==
  ASSUME ReqInv, UNCHANGED <<kind, sent, in, inbox>>, recvbuf'.data = recvbuf.data, open' => open
  PROVE  ReqInv'
  BY DEF ReqInv

\* A recv: some requests are handed over, the rest is kept.
LEMMA InputReq ==
  ASSUME CInv, ReqInv, NEW n \in 1..RecvSize, HandleInput(n)
  PROVE  /\ ReqInv' /\ Block(recvbuf') /\ in' \in Seq(Byte)
         /\ open /\ UNCHANGED <<client, sendbuf, hist, read>>
         /\ UNCHANGED <<open, wr, out>> \/ Close
         /\ Len(inbox') \in Len(inbox)..Len(sent)
         /\ ~open' => Len(inbox') < Len(sent) /\ ~sent[Len(inbox') + 1].ok
<1> DEFINE l == Len(inbox)
           r == From(sent, l + 1)
           w == SubSeq(in, 1, n)
           y == From(in, n + 1)
           b == AddSpace(RoomForRecv(recvbuf), w)
           x == recvbuf.data \o w
           ex == Extract(kind, x)
<1>1. /\ open /\ n <= RecvSize /\ n <= Len(in) /\ in' = y /\ UNCHANGED <<client, sendbuf, hist, read>>
      /\ inbox' = inbox \o Extract(kind, b.data).msgs
      /\ IF Extract(kind, b.data).ok
         THEN recvbuf' = Used(b, Extract(kind, b.data).used) /\ UNCHANGED <<open, wr, out>>
         ELSE recvbuf' = b /\ Close
  BY DEF HandleInput
<1>2. /\ sent \in Seq(Package) /\ Len(sent) \in Nat /\ l \in 0..Len(sent) /\ in \in Seq(Byte)
      /\ recvbuf.data \in Seq(Byte) /\ Block(recvbuf) /\ kind \in {"json", "line"}
      /\ inbox = First(Msgs(kind, sent), l)
      /\ recvbuf.data \o in = AllBytes(r)
      /\ UNCHANGED <<kind, sent>>
  <2>1. /\ sent \in Seq(Package) /\ in \in Seq(Byte) /\ Block(recvbuf) /\ kind \in {"json", "line"}
    BY DEF CInv
  <2>2. recvbuf.data \in Seq(Byte) /\ Len(sent) \in Nat
    BY <2>1 DEF Block
  <2>3. /\ l \in 0..Len(sent) /\ inbox = First(Msgs(kind, sent), l)
        /\ recvbuf.data \o in = AllBytes(r)
    BY <1>1 DEF ReqInv
  <2>4. UNCHANGED <<kind, sent>>
    BY <1>1 DEF client
  <2>5. QED
    BY <2>1, <2>2, <2>3, <2>4
<1>3. n \in 0..Len(in)
  BY <1>1, <1>2
<1>4. w \in Seq(Byte) /\ Len(w) = n /\ y \in Seq(Byte) /\ in = w \o y
  BY <1>2, <1>3, CutFacts, ZenonT(60)
<1>5. Block(b) /\ b.data = x
  BY <1>1, <1>2, <1>4, RecvFacts
<1>6. r \in Seq(Package) /\ Len(r) = Len(sent) - l /\ \A i \in 1..(Len(sent) - l) : r[i] = sent[l + i]
  BY <1>2, FirstRest
<1> HIDE DEF r, w, y, b
<1>7. x \in Seq(Byte) /\ x \o y = AllBytes(r)
  <2>1. (recvbuf.data \o w) \o y = recvbuf.data \o (w \o y)
    <3>1. recvbuf.data \in Seq(Byte) /\ w \in Seq(Byte) /\ y \in Seq(Byte)
      BY <1>2, <1>4
    <3> DEFINE d == recvbuf.data
    <3>2. d \in Seq(Byte)
      BY <3>1
    <3> HIDE DEF d
    <3>3. (d \o w) \o y = d \o (w \o y)
      BY <3>1, <3>2, CatAssoc, SMTT(60)
    <3>4. QED
      BY <3>3 DEF d
  <2>2. QED
    BY <1>2, <1>4, <2>1, LenCat
<1> HIDE DEF x
<1>8. PICK k : Extracted(kind, r, x, ex, k)
  <2>1. Begins(x, r)
    BY <1>4, <1>6, <1>7, CatBegins
  <2>2. ASSUME kind = "line", NEW i \in 1..Len(r) PROVE r[i].ok
    <3>1. i \in 1..(Len(sent) - l) /\ l + i \in 1..Len(sent)
      BY <1>2, <1>6
    <3>2. QED
      BY <1>6, <2>2, <3>1 DEF ReqInv
  <2>3. QED
    BY <1>2, <1>6, <2>1, <2>2, ExtractFacts
<1> HIDE DEF ex
<1>9. /\ inbox' = inbox \o ex.msgs
      /\ ex.ok => recvbuf' = Used(b, ex.used) /\ UNCHANGED <<open, wr, out>>
      /\ ~ex.ok => recvbuf' = b /\ Close
  BY <1>1, <1>5 DEF ex
<1> DEFINE A == AllBytes(First(r, k))
           B == AllBytes(From(r, k + 1))
<1>10. /\ k \in 0..Len(r) /\ k \in 0..(Len(sent) - l) /\ k \in Nat
       /\ ex.used = Len(A) /\ ex.used <= Len(x) /\ ex.msgs = First(Msgs(kind, r), k)
  BY <1>6, <1>8 DEF Extracted
<1>11. A \in Seq(Byte) /\ B \in Seq(Byte) /\ AllBytes(r) = A \o B
  BY <1>6, <1>10, FirstFacts, FirstRest, AllBytesType, AllBytesSplit
<1>12. /\ From(r, k + 1) = From(sent, (l + k) + 1)
       /\ inbox' = First(Msgs(kind, sent), l + k)
  BY <1>2, <1>9, <1>10, RestOfRest, ZenonT(60) DEF r
<1>13. Len(inbox') = l + k /\ l + k \in l..Len(sent) /\ l + k \in 0..Len(sent)
  <2>1. l + k \in 0..Len(sent) /\ l + k \in l..Len(sent)
    BY <1>2, <1>10
  <2>2. Msgs(kind, sent) \in Seq(Seq(Byte)) /\ Len(Msgs(kind, sent)) = Len(sent)
    BY <1>2, MsgsFacts
  <2> DEFINE SB == Seq(Byte)
  <2> HIDE DEF SB
  <2>3. Len(First(Msgs(kind, sent), l + k)) = l + k
    BY <2>1, <2>2, FirstFacts
  <2>4. QED
    BY <1>12, <2>1, <2>3
<1>14. ASSUME NEW i \in 1..(l + k) PROVE sent[i].ok
  <2>1. CASE i <= l
    BY <1>2, <2>1 DEF ReqInv
  <2>2. CASE ~(i <= l)
    <3> DEFINE j == i - l
    <3>1. j \in 1..k /\ i = l + j /\ j \in 1..(Len(sent) - l)
      BY <1>2, <1>10, <2>2
    <3> HIDE DEF j
    <3>2. r[j].ok /\ r[j] = sent[i]
      BY <1>6, <1>8, <3>1 DEF Extracted
    <3>3. QED
      BY <3>2
  <2>3. QED
    BY <2>1, <2>2
<1>15. ASSUME l + k < Len(sent) PROVE k < Len(r) /\ r[k + 1] = sent[(l + k) + 1]
  <2>1. k + 1 \in 1..(Len(sent) - l) /\ l + (k + 1) = (l + k) + 1 /\ k < Len(r)
    BY <1>2, <1>6, <1>10, <1>15
  <2>2. QED
    BY <1>6, <2>1
<1>16. ASSUME ex.ok
       PROVE  /\ Block(recvbuf')
              /\ recvbuf'.data \o in' = AllBytes(From(sent, (l + k) + 1))
              /\ l + k < Len(sent) => Len(recvbuf'.data) < sent[(l + k) + 1].size
  <2>1. Len(A) \in Nat /\ Len(x) \in Nat /\ Len(A) \in 0..Len(x)
    BY <1>7, <1>10, <1>11
  <2>2. Len(A) \in 0..Size(b)
    BY <1>5, <2>1 DEF Size
  <2>3. Block(recvbuf') /\ recvbuf'.data = From(x, Len(A) + 1)
    BY <1>5, <1>9, <1>10, <1>16, <2>2, UsedFacts
  <2>4. From(x, Len(A) + 1) \o y = B
    <3> HIDE DEF A, B
    <3>1. x \o y = A \o B /\ Len(A) <= Len(x)
      BY <1>7, <1>11, <2>1
    <3>2. QED
      BY <1>4, <1>7, <1>11, <3>1, CutCat
  <2>5. Len(From(x, Len(A) + 1)) = Len(x) - Len(A)
    BY <1>7, <2>1, FirstRest
  <2>6. ASSUME l + k < Len(sent) PROVE Len(x) - Len(A) < sent[(l + k) + 1].size
    <3>1. k < Len(r) /\ r[k + 1] = sent[(l + k) + 1]
      BY <1>15, <2>6
    <3>2. Len(x) < Len(A) + r[k + 1].size
      BY <1>8, <1>10, <1>16, <3>1 DEF Extracted
    <3>3. r[k + 1].size \in Nat
      <4>1. k + 1 \in 1..Len(r)
        BY <1>6, <1>10, <3>1
      <4>2. QED
        BY <1>6, <4>1, SizeFacts
    <3>4. QED
      BY <2>1, <3>1, <3>2, <3>3
  <2>7. QED
    BY <1>1, <1>12, <2>3, <2>4, <2>5, <2>6
<1>17. ASSUME ~ex.ok
       PROVE  /\ Block(recvbuf') /\ Close
              /\ l + k < Len(sent) /\ ~sent[(l + k) + 1].ok
  <2>1. k < Len(r) /\ ~r[k + 1].ok
    BY <1>8, <1>17 DEF Extracted
  <2>2. l + k < Len(sent)
    BY <1>2, <1>6, <1>10, <2>1
  <2>3. QED
    BY <1>5, <1>9, <1>15, <1>17, <2>1, <2>2
<1> HIDE DEF l
<1>18. /\ Len(inbox') \in 0..Len(sent') /\ inbox' = First(Msgs(kind', sent'), Len(inbox'))
       /\ kind' = "line" => \A i \in 1..Len(sent') : sent'[i].ok
       /\ \A i \in 1..Len(inbox') : sent'[i].ok
  <2>1. kind' = kind /\ sent' = sent
    BY <1>2
  <2>2. \A i \in 1..(l + k) : sent[i].ok
    BY <1>14
  <2>3. kind = "line" => \A i \in 1..Len(sent) : sent[i].ok
    BY DEF ReqInv
  <2>4. QED
    BY <1>12, <1>13, <2>1, <2>2, <2>3
<1>19. in' \in Seq(Byte)
  BY <1>1, <1>4
<1>20. CASE ex.ok
  <2>1. UNCHANGED <<open, wr, out>>
    BY <1>9, <1>20
  <2>2. ReqInv'
    BY <1>2, <1>13, <1>16, <1>18, <1>20 DEF ReqInv
  <2>3. QED
    BY <1>1, <1>13, <1>16, <1>19, <1>20, <2>1, <2>2 DEF l
<1>21. CASE ~ex.ok
  <2>1. open' = FALSE
    BY <1>17, <1>21 DEF Close
  <2>2. ReqInv'
    BY <1>18, <2>1 DEF ReqInv
  <2>3. QED
    BY <1>1, <1>13, <1>17, <1>19, <1>21, <2>1, <2>2 DEF l
<1>22. QED
  BY <1>20, <1>21

----------------------------------------------------------------------------
(* Answers *)

AnsInv ==
  /\ Begins(read, answers)
  /\ there => Begins(read \o out, answers)
  /\ open /\ there => read \o out \o sendbuf.data = AllBytes(answers)
  /\ open /\ Len(sendbuf.data) > 0 => wr

\* Reading on.
LEMMA RecvAns ==
  ASSUME CInv, AnsInv, NEW n \in 1..SocketSize, ClientRecv(n)
  PROVE  AnsInv' /\ read' \in Seq(Byte) /\ out' \in Seq(Byte) /\ Begins(read', answers)
         /\ \E x \in Seq(Byte) : read' = read \o x
<1> DEFINE x == SubSeq(out, 1, n)
           y == From(out, n + 1)
<1>1. /\ there /\ n <= Len(out) /\ read' = read \o x /\ out' = y
      /\ UNCHANGED <<there, open, sendbuf, wr, answers>>
  BY DEF ClientRecv, client, hist
<1>2. out \in Seq(Byte) /\ read \in Seq(Byte) /\ answers \in Seq(Package) /\ sendbuf.data \in Seq(Byte)
  BY DEF CInv, Block
<1>3. n \in 0..Len(out)
  BY <1>1, <1>2, ConstantFacts
<1>4. x \in Seq(Byte) /\ y \in Seq(Byte) /\ out = x \o y
  BY <1>2, <1>3, CutFacts
<1> HIDE DEF x, y
<1>5. (read \o x) \o y = read \o out /\ read \o x \in Seq(Byte)
  BY <1>2, <1>4, ByteCat, SMTT(60)
<1>6. Begins(read \o x, answers)
  <2> DEFINE a == AllBytes(answers)
             z == read \o x
  <2>1. z \in Seq(Byte) /\ z \o y \in Seq(Byte) /\ Len(z \o y) = Len(z) + Len(y)
        /\ Len(z) \in Nat /\ Len(y) \in Nat /\ \A i \in 1..Len(z) : (z \o y)[i] = z[i]
    BY <1>4, <1>5, LenCat
  <2>2. Len(z \o y) <= Len(a) /\ \A i \in 1..Len(z \o y) : (z \o y)[i] = a[i]
    BY <1>1, <1>5 DEF AnsInv, Begins
  <2>3. Len(a) \in Nat
    BY <1>2, AllBytesType
  <2> HIDE DEF a, z
  <2>4. Len(z) <= Len(a) /\ \A i \in 1..Len(z) : i \in 1..Len(z \o y)
    BY <2>1, <2>2, <2>3
  <2>5. Len(z) <= Len(a) /\ \A i \in 1..Len(z) : z[i] = a[i]
    BY <2>1, <2>2, <2>4
  <2>6. QED
    BY <2>1, <2>5 DEF Begins, a, z
<1>7. AnsInv'
  <2>1. read' \o out' = read \o out
    BY <1>1, <1>5
  <2>2. Begins(read' \o out', answers')
    BY <1>1, <2>1 DEF AnsInv
  <2>3. open' /\ there' => read' \o out' \o sendbuf'.data = AllBytes(answers')
    BY <1>1, <2>1 DEF AnsInv
  <2>4. Begins(read', answers')
    BY <1>1, <1>6
  <2>5. open' /\ Len(sendbuf'.data) > 0 => wr'
    BY <1>1 DEF AnsInv
  <2>6. QED
    BY <2>2, <2>3, <2>4, <2>5 DEF AnsInv
<1>8. QED
  BY <1>1, <1>4, <1>5, <1>6, <1>7

\* What is not followed by anything is still a beginning.
LEMMA CutBegins ==
  ASSUME NEW r \in Seq(Package), NEW x \in Seq(Byte), NEW y \in Seq(Byte), Begins(x \o y, r)
  PROVE  Begins(x, r)
<1> DEFINE a == AllBytes(r)
           z == x \o y
<1>1. /\ z \in Seq(Byte) /\ Len(z) = Len(x) + Len(y) /\ Len(x) \in Nat /\ Len(y) \in Nat
      /\ \A i \in 1..Len(x) : z[i] = x[i]
  BY LenCat
<1>2. Len(z) <= Len(a) /\ \A i \in 1..Len(z) : z[i] = a[i]
  BY DEF Begins
<1>3. Len(a) \in Nat
  BY AllBytesType
<1> HIDE DEF a, z
<1>4. Len(x) <= Len(a) /\ \A i \in 1..Len(x) : i \in 1..Len(z)
  BY <1>1, <1>2, <1>3
<1>5. Len(x) <= Len(a) /\ \A i \in 1..Len(x) : x[i] = a[i]
  BY <1>1, <1>2, <1>4
<1>6. QED
  BY <1>5 DEF Begins, a

\* More answers follow what has been read.
LEMMA MoreBegins ==
  ASSUME NEW r \in Seq(Package), NEW p \in Package, NEW x, Begins(x, r)
  PROVE  Begins(x, Append(r, p))
<1> DEFINE a == AllBytes(r)
           z == AllBytes(Append(r, p))
<1>1. a \in Seq(Byte) /\ Bytes(p) \in Seq(Byte) /\ z = a \o Bytes(p)
  BY AllBytesType, BytesFacts, AllBytesAppend
<1>2. x \in Seq(Byte) /\ Len(x) \in Nat /\ Len(x) <= Len(a) /\ \A i \in 1..Len(x) : x[i] = a[i]
  BY DEF Begins
<1> HIDE DEF a, z
<1>3. Len(a) \in Nat /\ Len(a) <= Len(z) /\ Len(z) \in Nat /\ \A i \in 1..Len(a) : z[i] = a[i]
  BY <1>1, LenCat
<1>4. Len(x) <= Len(z) /\ \A i \in 1..Len(x) : x[i] = z[i]
  BY <1>2, <1>3
<1>5. QED
  BY <1>2, <1>4 DEF Begins, z

LEMMA CloseAns ==
  ASSUME CInv, AnsInv, Close, UNCHANGED <<there, answers, read>>
  PROVE  AnsInv'
<1>1. open' = FALSE /\ out' \in {out, <<>>}
  BY CloseTypes
<1>2. there => Begins(read \o out', answers)
  <2>1. CASE out' = out
    BY <2>1 DEF AnsInv
  <2>2. CASE out' = <<>>
    <3>1. read \o <<>> = read
      BY ConcatEmptySeq DEF CInv
    <3>2. QED
      BY <2>2, <3>1 DEF AnsInv
  <2>3. QED
    BY <1>1, <2>1, <2>2
<1>3. QED
  BY <1>1, <1>2 DEF AnsInv

\* A send of b, which holds what the client has not been sent of ans.
LEMMA OutputAns ==
  ASSUME CInv, NEW b, Block(b), NEW ans \in Seq(Package), Output(b),
         Begins(read, ans), there => Begins(read \o out, ans),
         open /\ there => read \o out \o b.data = AllBytes(ans),
         UNCHANGED <<there, read>>
  PROVE  /\ there => Begins(read \o out', ans)
         /\ open' /\ there => read \o out' \o sendbuf'.data = AllBytes(ans)
         /\ open' /\ Len(sendbuf'.data) > 0 => wr'
<1> DEFINE d == b.data
<1>1. out \in Seq(Byte) /\ read \in Seq(Byte) /\ d \in Seq(Byte) /\ Len(d) \in Nat
  BY DEF CInv, Block
<1>2. ASSUME NEW n \in 1..SocketSize, open, Sends(b, n)
      PROVE  /\ there => Begins(read \o out', ans)
             /\ open' /\ there => read \o out' \o sendbuf'.data = AllBytes(ans)
             /\ open' /\ Len(sendbuf'.data) > 0 => wr'
  <2> DEFINE x == SubSeq(d, 1, n)
             y == From(d, n + 1)
  <2>1. n \in 0..Size(b) /\ Size(b) = Len(d)
    BY <1>1, <1>2, ConstantFacts DEF Sends, Size
  <2>2. sendbuf' = Unsent(b, n) /\ sendbuf'.data = y /\ wr' = (Len(sendbuf'.data) > 0)
    BY <1>2, <2>1, UnsentFacts DEF Sends, Size
  <2>3. x \in Seq(Byte) /\ y \in Seq(Byte) /\ d = x \o y
    <3>1. d \in Seq(Byte) /\ n \in 0..Len(d)
      BY <1>1, <2>1
    <3> HIDE DEF d
    <3>2. QED
      BY <3>1, CutFacts, ZenonT(60)
  <2>4. there => out' = out \o x
    BY <1>2 DEF Sends
  <2> HIDE DEF x, y, d
  <2>5. (read \o (out \o x)) \o y = read \o out \o d
    <3>1. out \o x \in Seq(Byte) /\ read \o out \in Seq(Byte) /\ read \o (out \o x) = (read \o out) \o x
      <4>1. read \in Seq(Byte) /\ out \in Seq(Byte) /\ x \in Seq(Byte)
        BY <1>1, <2>3
      <4>2. (read \o out) \o x = read \o (out \o x)
        BY <4>1, ByteCat, ZenonT(60)
      <4>3. QED
        BY <4>1, <4>2, LenCat
    <3>2. ((read \o out) \o x) \o y = (read \o out) \o (x \o y)
      <4> DEFINE ro == read \o out
      <4>1. ro \in Seq(Byte)
        BY <3>1
      <4> HIDE DEF ro
      <4>2. (ro \o x) \o y = ro \o (x \o y)
        BY <2>3, <4>1, ByteCat
      <4>3. QED
        BY <4>2 DEF ro
    <3>3. QED
      BY <2>3, <3>1, <3>2
  <2>6. read \o (out \o x) \in Seq(Byte)
    BY <1>1, <2>3, LenCat
  <2>7. ASSUME there PROVE Begins(read \o out', ans) /\ read \o out' \o sendbuf'.data = AllBytes(ans)
    <3>1. (read \o (out \o x)) \o y = AllBytes(ans)
      BY <1>2, <2>5, <2>7 DEF d
    <3>2. Begins(read \o (out \o x), ans)
      BY <2>3, <2>6, <3>1, CatBegins
    <3>3. QED
      BY <2>2, <2>4, <2>7, <3>1, <3>2
  <2>8. QED
    BY <2>2, <2>7
<1>3. CASE open /\ Eagain(b)
  BY <1>3 DEF Eagain
<1>4. CASE open /\ ~there /\ sendbuf' = b /\ UNCHANGED in /\ Close
  BY <1>4 DEF Close
<1>5. CASE ~open /\ sendbuf' = b /\ UNCHANGED <<open, wr, out>>
  BY <1>5
<1>6. QED
  BY <1>2, <1>3, <1>4, <1>5 DEF Output

\* The write event fires.
LEMMA HandleOutputAns ==
  ASSUME CInv, AnsInv, HandleOutput
  PROVE  AnsInv'
<1>1. Output(sendbuf) /\ UNCHANGED <<there, read, answers>> /\ Block(sendbuf) /\ answers \in Seq(Package)
  BY DEF HandleOutput, client, hist, CInv
<1>2. /\ there => Begins(read \o out', answers)
      /\ open' /\ there => read \o out' \o sendbuf'.data = AllBytes(answers)
      /\ open' /\ Len(sendbuf'.data) > 0 => wr'
  BY <1>1, OutputAns DEF AnsInv
<1>3. QED
  BY <1>1, <1>2 DEF AnsInv

\* An answer is sent: it goes behind the ones before it.
LEMMA AnswerAns ==
  ASSUME CInv, AnsInv, NEW p \in Package, Output(AppendTo(sendbuf, Bytes(p))),
         answers' = (IF open THEN Append(answers, p) ELSE answers),
         UNCHANGED <<there, read>>
  PROVE  AnsInv' /\ answers' \in Seq(Package)
         /\ open' \in BOOLEAN /\ wr' \in BOOLEAN /\ out' \in Seq(Byte) /\ Block(sendbuf')
<1> DEFINE b == AppendTo(sendbuf, Bytes(p))
           d == sendbuf.data
<1>1. /\ out \in Seq(Byte) /\ read \in Seq(Byte) /\ answers \in Seq(Package) /\ Block(sendbuf)
      /\ d \in Seq(Byte)
  BY DEF CInv, Block
<1>2. Bytes(p) \in Seq(Byte)
  BY BytesFacts
<1>3. Block(b) /\ b.data = d \o Bytes(p)
  BY <1>1, <1>2, AppendFacts
<1>4. answers' \in Seq(Package)
  <2>1. Append(answers, p) \in Seq(Package)
    BY <1>1
  <2>2. QED
    BY <1>1, <2>1
<1>5. open' \in BOOLEAN /\ wr' \in BOOLEAN /\ out' \in Seq(Byte) /\ Block(sendbuf')
  BY <1>3, OutputTypes
<1> HIDE DEF d
<1>6. Begins(read, answers') /\ (there => Begins(read \o out, answers'))
  <2>1. CASE open
    BY <1>1, <2>1, MoreBegins DEF AnsInv
  <2>2. CASE ~open
    BY <2>2 DEF AnsInv
  <2>3. QED
    BY <2>1, <2>2
<1>7. ASSUME open, there PROVE read \o out \o b.data = AllBytes(answers')
  <2> DEFINE x == read \o out
  <2>1. x \in Seq(Byte) /\ x \o d = AllBytes(answers)
    BY <1>1, <1>7, LenCat DEF AnsInv, d
  <2> HIDE DEF x
  <2>2. AllBytes(answers') = (x \o d) \o Bytes(p)
    BY <1>1, <1>7, <2>1, AllBytesAppend
  <2>3. (x \o d) \o Bytes(p) = x \o (d \o Bytes(p))
    BY <1>1, <1>2, <2>1, ByteCat
  <2>4. QED
    BY <1>3, <2>2, <2>3 DEF x
<1> HIDE DEF b
<1>8. /\ there => Begins(read \o out', answers')
      /\ open' /\ there => read \o out' \o sendbuf'.data = AllBytes(answers')
      /\ open' /\ Len(sendbuf'.data) > 0 => wr'
  <2> DEFINE ans == answers'
  <2>1. Output(b) /\ ans \in Seq(Package) /\ Begins(read, ans) /\ (there => Begins(read \o out, ans))
    BY <1>4, <1>6 DEF b
  <2>2. open /\ there => read \o out \o b.data = AllBytes(ans)
    BY <1>7
  <2> HIDE DEF ans
  <2>3. /\ there => Begins(read \o out', ans)
        /\ open' /\ there => read \o out' \o sendbuf'.data = AllBytes(ans)
        /\ open' /\ Len(sendbuf'.data) > 0 => wr'
    BY <1>3, <2>1, <2>2, OutputAns
  <2>4. QED
    BY <2>3 DEF ans
<1>9. AnsInv'
  BY <1>6, <1>8 DEF AnsInv
<1>10. QED
  BY <1>4, <1>5, <1>9
----------------------------------------------------------------------------
(* The invariant *)

\* Only requests that were handed over are answered, and each once.
IdInv ==
  /\ answered \subseteq 1..Len(inbox)
  /\ \A i \in 1..Len(answers) : answers[i].id \in answered

IInv == CInv /\ ReqInv /\ AnsInv /\ IdInv

LEMMA InitIInv == Init => IInv
<1> SUFFICES ASSUME Init PROVE IInv
  OBVIOUS
<1>1. <<>> \in Seq(Package) /\ <<>> \in Seq(Byte) /\ Len(<<>>) = 0
  OBVIOUS
<1>2. Block(recvbuf) /\ Block(sendbuf) /\ recvbuf.data = <<>> /\ sendbuf.data = <<>>
  BY NewBlockFacts, ConstantFacts DEF Init
<1>3. CInv
  BY <1>1, <1>2, ConstantFacts DEF CInv, Init
<1>4. <<>> \o <<>> = <<>>
  BY <1>1, ConcatEmptySeq
<1>5. From(<<>>, 0 + 1) = <<>> /\ First(Msgs(kind, <<>>), 0) = <<>>
  BY SubSeqEmpty DEF From, First
<1>6. ReqInv
  <2>1. sent = <<>> /\ inbox = <<>> /\ in = <<>>
    BY DEF Init
  <2>2. Len(inbox) \in 0..Len(sent) /\ Len(inbox) = 0 /\ Len(sent) = 0
    BY <1>1, <2>1
  <2>3. inbox = First(Msgs(kind, sent), Len(inbox))
    BY <1>5, <2>1, <2>2
  <2>4. recvbuf.data \o in = AllBytes(From(sent, Len(inbox) + 1))
    BY <1>2, <1>4, <1>5, <2>1, <2>2, AllBytesEmpty
  <2>5. QED
    BY <2>2, <2>3, <2>4 DEF ReqInv
<1>7. AnsInv
  <2>1. read = <<>> /\ out = <<>> /\ answers = <<>>
    BY DEF Init
  <2>2. Begins(<<>>, <<>>)
    BY <1>1, AllBytesEmpty DEF Begins
  <2>3. ~(Len(sendbuf.data) > 0)
    BY <1>1, <1>2
  <2>4. read \o out = <<>> /\ read \o out \o sendbuf.data = <<>>
    BY <1>2, <1>4, <2>1
  <2>5. QED
    BY <2>1, <2>2, <2>3, <2>4, AllBytesEmpty DEF AnsInv
<1>8. IdInv
  BY <1>1 DEF IdInv, Init
<1>9. QED
  BY <1>3, <1>6, <1>7, <1>8 DEF IInv

LEMMA InboxFacts ==
  ASSUME CInv, ReqInv
  PROVE  /\ inbox \in Seq(Seq(Byte)) /\ Len(inbox) \in Nat /\ DOMAIN inbox = 1..Len(inbox)
         /\ Len(inbox) <= Len(sent) /\ Len(sent) \in Nat
         /\ \A i \in 1..Len(inbox) : inbox[i] = Message(kind, sent[i])
<1> DEFINE SB == Seq(Byte)
           M == Msgs(kind, sent)
           l == Len(inbox)
<1>1. sent \in Seq(Package) /\ Len(sent) \in Nat
  BY DEF CInv
<1>2. M \in Seq(SB) /\ Len(M) = Len(sent) /\ \A i \in 1..Len(sent) : M[i] = Message(kind, sent[i])
  BY <1>1, MsgsFacts
<1>3. l \in 0..Len(sent) /\ inbox = First(M, l)
  BY DEF ReqInv
<1> HIDE DEF SB, M, l
<1>4. First(M, l) \in Seq(SB) /\ \A i \in 1..l : First(M, l)[i] = M[i]
  BY <1>2, <1>3, FirstFacts
<1>5. inbox \in Seq(SB)
  BY <1>3, <1>4
<1>6. l \in Nat /\ l <= Len(sent) /\ \A i \in 1..l : i \in 1..Len(sent)
  BY <1>1, <1>3
<1>7. \A i \in 1..l : inbox[i] = Message(kind, sent[i])
  BY <1>2, <1>3, <1>4, <1>6
<1>8. DOMAIN inbox = 1..Len(inbox)
  BY <1>5
<1>9. QED
  BY <1>1, <1>5, <1>6, <1>7, <1>8 DEF SB, l

LEMMA ClientSendStep ==
  ASSUME IInv, NEW p \in Package, ClientSend(p)
  PROVE  IInv'
<1>1. ReqInv' /\ sent' \in Seq(Package) /\ in' \in Seq(Byte)
  BY SendReq DEF IInv
<1>2. UNCHANGED <<kind, there, recvbuf, inbox, open, sendbuf, wr, out, answered, answers, read>>
  BY DEF ClientSend, output, hist
<1>3. CInv'
  BY <1>1, <1>2 DEF IInv, CInv
<1>4. AnsInv'
  BY <1>2 DEF IInv, AnsInv
<1>5. IdInv'
  BY <1>2 DEF IInv, IdInv
<1>6. QED
  BY <1>1, <1>3, <1>4, <1>5 DEF IInv

LEMMA ClientRecvStep ==
  ASSUME IInv, NEW n \in 1..SocketSize, ClientRecv(n)
  PROVE  IInv'
<1>1. AnsInv' /\ read' \in Seq(Byte) /\ out' \in Seq(Byte)
  BY RecvAns DEF IInv
<1>2. UNCHANGED <<kind, there, sent, in, recvbuf, inbox, open, sendbuf, wr, answered, answers>>
  BY DEF ClientRecv, client, input, hist
<1>3. CInv'
  BY <1>1, <1>2 DEF IInv, CInv
<1>4. ReqInv'
  BY <1>2, ReqKept DEF IInv
<1>5. IdInv'
  BY <1>2 DEF IInv, IdInv
<1>6. QED
  BY <1>1, <1>3, <1>4, <1>5 DEF IInv

LEMMA ClientCloseStep ==
  ASSUME IInv, ClientClose
  PROVE  IInv'
<1>1. there' = FALSE /\ UNCHANGED <<kind, sent, in, recvbuf, inbox, open, sendbuf, wr, out, answered, answers, read>>
  BY DEF ClientClose, input, output, hist
<1>2. CInv'
  BY <1>1 DEF IInv, CInv
<1>3. ReqInv'
  BY <1>1, ReqKept DEF IInv
<1>4. AnsInv'
  BY <1>1 DEF IInv, AnsInv
<1>5. IdInv'
  BY <1>1 DEF IInv, IdInv
<1>6. QED
  BY <1>2, <1>3, <1>4, <1>5 DEF IInv

LEMMA HandleInputStep ==
  ASSUME IInv, NEW n \in 1..RecvSize, HandleInput(n)
  PROVE  IInv'
<1>1. /\ ReqInv' /\ Block(recvbuf') /\ in' \in Seq(Byte)
      /\ UNCHANGED <<client, sendbuf, hist, read>>
      /\ UNCHANGED <<open, wr, out>> \/ Close
      /\ Len(inbox') \in Len(inbox)..Len(sent)
  BY InputReq DEF IInv
<1>2. UNCHANGED <<kind, there, sent, sendbuf, answered, answers, read>>
  BY <1>1 DEF client, hist
<1>3. open' \in BOOLEAN /\ wr' \in BOOLEAN /\ out' \in Seq(Byte)
  BY <1>1, CloseTypes DEF IInv, CInv
<1>4. CInv'
  BY <1>1, <1>2, <1>3 DEF IInv, CInv
<1>5. AnsInv'
  <2>1. CASE UNCHANGED <<open, wr, out>>
    BY <1>2, <2>1 DEF IInv, AnsInv
  <2>2. CASE Close
    BY <1>2, <2>2, CloseAns DEF IInv
  <2>3. QED
    BY <1>1, <2>1, <2>2
<1>6. IdInv'
  <2>1. Len(inbox) \in Nat /\ Len(sent) \in Nat
    BY InboxFacts DEF IInv
  <2>2. 1..Len(inbox) \subseteq 1..Len(inbox')
    BY <1>1, <2>1
  <2>3. QED
    BY <1>2, <2>2 DEF IInv, IdInv
<1>7. QED
  BY <1>1, <1>4, <1>5, <1>6 DEF IInv

\* A close that loses no request.
LEMMA CloseStep ==
  ASSUME IInv, Close, Block(recvbuf'), recvbuf'.data = recvbuf.data,
         UNCHANGED <<client, in, inbox, sendbuf, answers, read>>,
         answered' \subseteq 1..Len(inbox), answered \subseteq answered'
  PROVE  IInv'
<1>1. UNCHANGED <<kind, there, sent>>
  BY DEF client
<1>2. open' = FALSE /\ wr' = FALSE /\ out' \in Seq(Byte)
  BY CloseTypes DEF IInv
<1>3. CInv'
  BY <1>1, <1>2 DEF IInv, CInv
<1>4. ReqInv'
  BY <1>1, <1>2, ReqKept DEF IInv
<1>5. AnsInv'
  BY <1>1, CloseAns DEF IInv
<1>6. IdInv'
  BY DEF IInv, IdInv
<1>7. QED
  BY <1>3, <1>4, <1>5, <1>6 DEF IInv

LEMMA HandleEofStep ==
  ASSUME IInv, HandleEof
  PROVE  IInv'
<1>1. Close /\ UNCHANGED <<client, in, inbox, sendbuf, answers, read, answered>> /\ recvbuf' = RoomForRecv(recvbuf)
  BY DEF HandleEof, hist
<1>2. <<>> \in Seq(Byte) /\ Len(<<>>) <= RecvSize
  BY ConstantFacts
<1>3. Block(recvbuf') /\ recvbuf'.data = recvbuf.data
  BY <1>1, <1>2, RecvFacts DEF IInv, CInv
<1>4. QED
  BY <1>1, <1>3, CloseStep DEF IInv, IdInv

LEMMA HandleTimeoutStep ==
  ASSUME IInv, HandleTimeout
  PROVE  IInv'
<1>1. Close /\ UNCHANGED <<client, in, inbox, sendbuf, answers, read, answered, recvbuf>>
  BY DEF HandleTimeout, hist
<1>2. Block(recvbuf') /\ recvbuf'.data = recvbuf.data
  BY <1>1 DEF IInv, CInv
<1>3. QED
  BY <1>1, <1>2, CloseStep DEF IInv, IdInv

\* What a send leaves alone.
LEMMA OutputOpen ==
  ASSUME NEW b, Output(b)
  PROVE  open' => open
  BY DEF Output, Sends, Eagain, Close

LEMMA HandleOutputStep ==
  ASSUME IInv, HandleOutput
  PROVE  IInv'
<1>1. Output(sendbuf) /\ UNCHANGED <<kind, there, sent, in, recvbuf, inbox, answered, answers, read>>
  BY DEF HandleOutput, client, input, hist
<1>2. open' \in BOOLEAN /\ wr' \in BOOLEAN /\ out' \in Seq(Byte) /\ Block(sendbuf')
  BY <1>1, OutputTypes DEF IInv, CInv
<1>3. CInv'
  BY <1>1, <1>2 DEF IInv, CInv
<1>4. ReqInv'
  BY <1>1, OutputOpen, ReqKept DEF IInv
<1>5. AnsInv'
  BY HandleOutputAns DEF IInv
<1>6. IdInv'
  BY <1>1 DEF IInv, IdInv
<1>7. QED
  BY <1>3, <1>4, <1>5, <1>6 DEF IInv

\* PushMsgCallBack has three ways.
LEMMA PushMsgFacts ==
  ASSUME IInv, NEW k \in DOMAIN inbox, NEW s \in Sizes \cup {0}, PushMsg(k, s)
  PROVE  LET p == [id |-> k, size |-> s, ok |-> TRUE]
         IN  /\ k \in 1..Len(inbox) /\ k \notin answered /\ answered' = answered \cup {k}
             /\ UNCHANGED <<client, in, recvbuf, inbox, read>>
             /\ \/ UNCHANGED <<open, sendbuf, wr, out, answers>>
                \/ Close /\ UNCHANGED <<sendbuf, answers>>
                \/ /\ p \in Package
                   /\ Output(AppendTo(sendbuf, Bytes(p)))
                   /\ answers' = IF open THEN Append(answers, p) ELSE answers
<1> DEFINE p == [id |-> k, size |-> s, ok |-> TRUE]
<1>1. k \in 1..Len(inbox) /\ k \in Nat
  <2>1. DOMAIN inbox = 1..Len(inbox) /\ Len(inbox) \in Nat
    BY InboxFacts DEF IInv
  <2>2. QED
    BY <2>1
<1>2. s > 0 => p \in Package
  <2>1. s > 0 => s \in Sizes
    OBVIOUS
  <2>2. QED
    BY <1>1, <2>1, NewPackage
<1>3. k \notin answered /\ answered' = answered \cup {k} /\ UNCHANGED <<client, in, recvbuf, inbox, read>>
  BY DEF PushMsg, input
<1>4. \/ UNCHANGED <<open, sendbuf, wr, out, answers>>
      \/ Close /\ UNCHANGED <<sendbuf, answers>>
      \/ /\ s > 0
         /\ Output(AppendTo(sendbuf, Bytes(p)))
         /\ answers' = IF open THEN Append(answers, p) ELSE answers
  BY DEF PushMsg, output
<1> HIDE DEF p
<1>5. QED
  BY <1>1, <1>2, <1>3, <1>4 DEF p

LEMMA PushMsgStep ==
  ASSUME IInv, NEW k \in DOMAIN inbox, NEW s \in Sizes \cup {0}, PushMsg(k, s)
  PROVE  IInv'
<1> DEFINE p == [id |-> k, size |-> s, ok |-> TRUE]
<1>1. /\ k \in 1..Len(inbox) /\ answered' = answered \cup {k}
      /\ UNCHANGED <<client, in, recvbuf, inbox, read>>
      /\ \/ UNCHANGED <<open, sendbuf, wr, out, answers>>
         \/ Close /\ UNCHANGED <<sendbuf, answers>>
         \/ /\ p \in Package
            /\ Output(AppendTo(sendbuf, Bytes(p)))
            /\ answers' = IF open THEN Append(answers, p) ELSE answers
  BY PushMsgFacts
<1>2. p.id = k
  OBVIOUS
<1> HIDE DEF p
<1>3. UNCHANGED <<kind, there, sent>>
  BY <1>1 DEF client
<1>4. answered' \subseteq 1..Len(inbox) /\ answered \subseteq answered' /\ k \in answered'
  BY <1>1 DEF IInv, IdInv
<1>5. CASE UNCHANGED <<open, sendbuf, wr, out, answers>>
  <2>1. CInv'
    BY <1>1, <1>3, <1>5 DEF IInv, CInv
  <2>2. ReqInv'
    BY <1>1, <1>3, <1>5, ReqKept DEF IInv
  <2>3. AnsInv'
    BY <1>1, <1>3, <1>5 DEF IInv, AnsInv
  <2>4. IdInv'
    BY <1>1, <1>4, <1>5 DEF IInv, IdInv
  <2>5. QED
    BY <2>1, <2>2, <2>3, <2>4 DEF IInv
<1>6. CASE Close /\ UNCHANGED <<sendbuf, answers>>
  <2>1. Block(recvbuf') /\ recvbuf'.data = recvbuf.data
    BY <1>1 DEF IInv, CInv
  <2>2. QED
    BY <1>1, <1>4, <1>6, <2>1, CloseStep
<1>7. CASE /\ p \in Package
           /\ Output(AppendTo(sendbuf, Bytes(p)))
           /\ answers' = IF open THEN Append(answers, p) ELSE answers
  <2>1. /\ AnsInv' /\ answers' \in Seq(Package)
        /\ open' \in BOOLEAN /\ wr' \in BOOLEAN /\ out' \in Seq(Byte) /\ Block(sendbuf')
    BY <1>1, <1>3, <1>7, AnswerAns DEF IInv
  <2>2. CInv'
    BY <1>1, <1>3, <2>1 DEF IInv, CInv
  <2>3. ReqInv'
    BY <1>1, <1>3, <1>7, OutputOpen, ReqKept DEF IInv
  <2>4. IdInv'
    <3>1. ASSUME NEW i \in 1..Len(answers') PROVE answers'[i].id \in answered'
      <4>1. CASE open
        <5>1. /\ answers \in Seq(Package) /\ answers' = Append(answers, p)
              /\ Len(answers') = Len(answers) + 1 /\ Len(answers) \in Nat
          BY <1>7, <4>1 DEF IInv, CInv
        <5>2. CASE i = Len(answers) + 1
          <6>1. answers'[i] = p
            BY <1>7, <5>1, <5>2
          <6>2. QED
            BY <1>2, <1>4, <6>1
        <5>3. CASE i # Len(answers) + 1
          <6>1. i \in 1..Len(answers)
            BY <5>1, <5>3
          <6>2. answers'[i] = answers[i]
            BY <1>7, <5>1, <6>1
          <6>3. QED
            BY <1>4, <6>1, <6>2 DEF IInv, IdInv
        <5>4. QED
          BY <5>2, <5>3
      <4>2. CASE ~open
        BY <1>4, <1>7, <4>2 DEF IInv, IdInv
      <4>3. QED
        BY <4>1, <4>2
    <3>2. QED
      BY <1>1, <1>4, <3>1 DEF IdInv
  <2>5. QED
    BY <2>1, <2>2, <2>3, <2>4 DEF IInv
<1>8. QED
  BY <1>1, <1>5, <1>6, <1>7

LEMMA NextIInv == IInv /\ [Next]_vars => IInv'
<1> SUFFICES ASSUME IInv, [Next]_vars PROVE IInv'
  OBVIOUS
<1>1. ASSUME NEW s \in Sizes, NEW ok \in BOOLEAN,
             ClientSend([id |-> Len(sent) + 1, size |-> s, ok |-> ok])
      PROVE  IInv'
  <2>1. Len(sent) + 1 \in Nat
    BY DEF IInv, CInv
  <2>2. [id |-> Len(sent) + 1, size |-> s, ok |-> ok] \in Package
    BY <2>1, NewPackage
  <2>3. QED
    BY <1>1, <2>2, ClientSendStep
<1>2. CASE UNCHANGED vars
  <2>1. UNCHANGED <<kind, there, sent, in, recvbuf, inbox, open, sendbuf, wr, out, answered, answers, read>>
    BY <1>2 DEF vars, client, input, output, hist
  <2>2. QED
    BY <2>1 DEF IInv, CInv, ReqInv, AnsInv, IdInv
<1>3. QED
  BY <1>1, <1>2, ClientRecvStep, ClientCloseStep, HandleInputStep, HandleEofStep, HandleTimeoutStep,
     HandleOutputStep, PushMsgStep DEF Next, Client, Input

LEMMA Invariance == Spec => []IInv
  BY InitIInv, NextIInv, PTL DEF Spec

----------------------------------------------------------------------------
(* Both streams arrive *)

LEMMA PrefixIs ==
  ASSUME NEW S, NEW s \in Seq(S), NEW t \in Seq(S), Len(s) <= Len(t),
         \A i \in 1..Len(s) : s[i] = t[i]
  PROVE  IsPrefix(s, t)
<1>1. Len(s) \in Nat /\ Len(t) \in Nat /\ Len(s) \in 0..Len(s) /\ Len(s) \in 0..Len(t)
  OBVIOUS
<1>2. SubSeq(s, 1, Len(s)) = s
  BY FirstAll DEF First
<1> DEFINE u == SubSeq(t, 1, Len(s))
<1>3. u \in Seq(S) /\ Len(u) = Len(s) /\ \A i \in 1..Len(s) : u[i] = t[i]
  BY <1>1, FirstFacts DEF First
<1> HIDE DEF u
<1>4. s = u
  BY <1>3, SeqEqual
<1>5. QED
  BY <1>2, <1>4 DEF IsPrefix, u

\* However TCP cuts the client's bytes into recvs, and whatever the sizes of
\* packages and buffers, HandleInput hands over the packages the client sent,
\* whole and in order, and keeps exactly the bytes behind them.
THEOREM RequestsArrive == Spec => []RequestsIntact
<1>1. IInv => RequestsIntact
  <2> SUFFICES ASSUME IInv PROVE RequestsIntact
    OBVIOUS
  <2> DEFINE l == Len(inbox)
             rest == From(sent, l + 1)
  <2>1. /\ DOMAIN inbox = 1..l /\ l \in Nat /\ l <= Len(sent) /\ Len(sent) \in Nat
        /\ \A i \in 1..l : inbox[i] = Message(kind, sent[i])
        /\ inbox = [i \in DOMAIN inbox |-> inbox[i]]
    BY InboxFacts DEF IInv
  <2>2. inbox = [i \in 1..l |-> Message(kind, sent[i])]
    BY <2>1
  <2>3. l \in 0..Len(sent) /\ sent \in Seq(Package)
    BY <2>1 DEF IInv, CInv
  <2>4. /\ rest \in Seq(Package) /\ Len(rest) = Len(sent) - l
        /\ \A i \in 1..(Len(sent) - l) : rest[i] = sent[l + i]
    BY <2>3, FirstRest
  <2>5. open => recvbuf.data \o in = AllBytes(rest)
    BY DEF IInv, ReqInv
  <2>6. ASSUME open, rest # <<>> PROVE Size(recvbuf) < Head(rest).size
    <3>1. Len(rest) > 0
      BY <2>4, <2>6
    <3>2. l < Len(sent) /\ 1 \in 1..(Len(sent) - l)
      BY <2>1, <2>4, <3>1
    <3>3. Head(rest) = rest[1] /\ rest[1] = sent[l + 1]
      BY <2>4, <3>2
    <3>4. Len(recvbuf.data) < sent[l + 1].size
      BY <2>6, <3>2 DEF IInv, ReqInv
    <3>5. QED
      BY <3>3, <3>4 DEF Size
  <2> HIDE DEF l, rest
  <2>7. QED
    BY <2>1, <2>2, <2>5, <2>6 DEF RequestsIntact, l, rest
<1>2. QED
  BY <1>1, Invariance, PTL

\* However the answers are cut into sends and reads, the client reads a prefix
\* of their bytes; as long as both ends hold nothing is lost between the send
\* buffer and the client, and what HandleOutput could not send has its event.
THEOREM AnswersArrive == Spec => []AnswersIntact
<1>1. IInv => AnswersIntact
  <2> SUFFICES ASSUME IInv PROVE AnswersIntact
    OBVIOUS
  <2>1. AllBytes(answers) \in Seq(Byte)
    BY AllBytesType DEF IInv, CInv
  <2>2. /\ read \in Seq(Byte) /\ Len(read) <= Len(AllBytes(answers))
        /\ \A i \in 1..Len(read) : read[i] = AllBytes(answers)[i]
    BY DEF IInv, AnsInv, Begins
  <2>3. IsPrefix(read, AllBytes(answers))
    BY <2>1, <2>2, PrefixIs
  <2>4. QED
    BY <2>3 DEF IInv, AnsInv, AnswersIntact, Size
<1>2. QED
  BY <1>1, Invariance, PTL

----------------------------------------------------------------------------
(* The packages among the bytes *)

\* U gives the packages that end within the first bytes of x.
IsGot(x, U) ==
  /\ U \in [0..Len(x) -> Seq(Package)]
  /\ U[0] = <<>>
  /\ \A n \in 1..Len(x) :
       U[n] = IF x[n].at = x[n].of.size THEN Append(U[n - 1], x[n].of) ELSE U[n - 1]

\* The function PackagesOf is defined by exists, and satisfies its equation.
LEMMA GotExists ==
  ASSUME NEW x \in Seq(Byte)
  PROVE  \E U : IsGot(x, U) /\ PackagesOf(x) = U[Len(x)]
<1> DEFINE L == Len(x)
           D == 0..L
           Is(f) == f = [n \in D |-> IF n = 0 THEN <<>>
                                     ELSE IF x[n].at = x[n].of.size THEN Append(f[n - 1], x[n].of)
                                     ELSE f[n - 1]]
           V == Seq(Package)
           Z == {0}
           rank == [n \in D |-> n]
           nx == [n \in D |-> n - 1]
           stop == [n \in D |-> <<>>]
           step == [n \in D |-> [v \in V |-> IF x[n].at = x[n].of.size THEN Append(v, x[n].of) ELSE v]]
<1>1. L \in Nat /\ \A n \in 1..L : x[n].of \in Package
  <2>1. \A n \in 1..L : x[n] \in Byte
    BY ElementOfSeq
  <2>2. QED
    BY <2>1 DEF Byte
<1>2. \E f \in [D -> V] : \A n \in D : f[n] = IF n \in Z THEN stop[n] ELSE step[n][f[nx[n]]]
  <2>1. rank \in [D -> 0..L] /\ \A d \in D \cap Z : stop[d] \in V
    BY <1>1
  <2>2. ASSUME NEW d \in D \ Z
        PROVE  nx[d] \in D /\ rank[nx[d]] < rank[d] /\ step[d] \in [V -> V]
    <3>1. d \in 1..L /\ d - 1 \in D /\ d \in D
      BY <1>1
    <3>2. nx[d] = d - 1 /\ rank[nx[d]] = d - 1 /\ rank[d] = d
      BY <3>1
    <3>3. \A v \in V : (IF x[d].at = x[d].of.size THEN Append(v, x[d].of) ELSE v) \in V
      BY <1>1, <3>1
    <3>4. step[d] = [v \in V |-> IF x[d].at = x[d].of.size THEN Append(v, x[d].of) ELSE v]
      BY <3>1
    <3>5. QED
      BY <1>1, <3>1, <3>2, <3>3, <3>4
  <2> HIDE DEF L, D, V, Z, rank, nx, stop, step
  <2>3. Recursive(D, V, Z, L, rank, nx, stop, step)
    BY <1>1, <2>1, <2>2 DEF Recursive
  <2>4. QED
    BY <2>3, Recursion
<1>3. PICK f \in [D -> V] : Is(f)
  <2>1. PICK f \in [D -> V] : \A n \in D : f[n] = IF n \in Z THEN stop[n] ELSE step[n][f[nx[n]]]
    BY <1>2
  <2>2. ASSUME NEW n \in D
        PROVE  f[n] = IF n = 0 THEN <<>>
                      ELSE IF x[n].at = x[n].of.size THEN Append(f[n - 1], x[n].of)
                      ELSE f[n - 1]
    <3>1. CASE n = 0
      BY <2>1, <3>1
    <3>2. CASE n # 0
      <4>1. n - 1 \in D
        BY <1>1, <3>2
      <4>2. f[n - 1] \in V
        BY <2>1, <4>1
      <4>3. f[n] = step[n][f[n - 1]]
        BY <2>1, <3>2
      <4>4. QED
        BY <3>2, <4>1, <4>2, <4>3
    <3>3. QED
      BY <3>1, <3>2
  <2>3. Is(f)
    BY <2>2
  <2>4. QED
    BY <2>3
<1>4. PICK U : Is(U) /\ PackagesOf(x) = U[L]
  <2> DEFINE C == CHOOSE g : Is(g)
  <2>1. PackagesOf(x) = C[L]
    BY DEF PackagesOf
  <2>2. Is(C)
    <3> HIDE DEF Is
    <3>1. QED
      BY <1>3
  <2> HIDE DEF C, Is
  <2>3. QED
    BY <2>1, <2>2
<1>5. /\ U[0] = <<>>
      /\ \A n \in 1..L : U[n] = IF x[n].at = x[n].of.size THEN Append(U[n - 1], x[n].of) ELSE U[n - 1]
  <2>1. \A n \in D : U[n] = IF n = 0 THEN <<>>
                            ELSE IF x[n].at = x[n].of.size THEN Append(U[n - 1], x[n].of)
                            ELSE U[n - 1]
    BY <1>4
  <2>2. 0 \in D /\ \A n \in 1..L : n \in D /\ n # 0
    BY <1>1
  <2> HIDE DEF D
  <2>3. QED
    BY <2>1, <2>2
<1> DEFINE T == {m \in Nat : m <= L => U[m] \in Seq(Package)}
<1>6. \A n \in Nat : n \in T
  <2>1. 0 \in T
    <3>1. <<>> \in Seq(Package)
      OBVIOUS
    <3>2. QED
      BY <1>5, <3>1
  <2>2. ASSUME NEW n \in Nat, n \in T PROVE n + 1 \in T
    <3> SUFFICES ASSUME n + 1 <= L PROVE U[n + 1] \in Seq(Package)
      OBVIOUS
    <3>1. U[n] \in Seq(Package) /\ n + 1 \in 1..L /\ (n + 1) - 1 = n
      BY <1>1, <2>2
    <3>2. U[n + 1] = IF x[n + 1].at = x[n + 1].of.size THEN Append(U[n], x[n + 1].of) ELSE U[n]
      BY <1>5, <3>1
    <3>3. x[n + 1].of \in Package
      BY <1>1, <3>1
    <3>4. QED
      BY <3>1, <3>2, <3>3
  <2> HIDE DEF T
  <2>3. QED
    BY <2>1, <2>2, Induction
<1>7. U \in [0..L -> Seq(Package)]
  <2>1. U = [n \in D |-> U[n]]
    BY <1>4
  <2>2. \A n \in D : U[n] \in Seq(Package)
    BY <1>1, <1>6
  <2>3. QED
    BY <2>1, <2>2
<1>8. QED
  BY <1>4, <1>5, <1>7 DEF IsGot

\* Package m is the last that n bytes hold all of.
Holds(r, off, n, m) ==
  /\ m \in 0..Len(r) /\ off[m] <= n
  /\ m < Len(r) => n < off[m + 1]

\* One more byte belongs to the next package, and may be its last.
LEMMA HoldsNext ==
  ASSUME NEW r \in Seq(Package), NEW off, Layout(r, off), NEW x, Begins(x, r),
         NEW n \in Nat, n + 1 <= Len(x), NEW m, Holds(r, off, n, m)
  PROVE  /\ m < Len(r) /\ x[n + 1] = [of |-> r[m + 1], at |-> (n + 1) - off[m]]
         /\ (n + 1) - off[m] = r[m + 1].size => Holds(r, off, n + 1, m + 1)
         /\ (n + 1) - off[m] # r[m + 1].size => Holds(r, off, n + 1, m)
<1>1. /\ Len(r) \in Nat /\ m \in 0..Len(r) /\ off[m] \in Nat /\ off[m] <= n
      /\ x \in Seq(Byte) /\ Len(x) \in Nat /\ Len(x) <= Len(AllBytes(r)) /\ Len(AllBytes(r)) \in Nat
      /\ off[Len(r)] = Len(AllBytes(r))
  BY AllBytesType DEF Layout, Begins, Holds
<1>2. m # Len(r)
  BY <1>1
<1>3. m < Len(r) /\ m \in 0..(Len(r) - 1) /\ m + 1 \in 0..Len(r) /\ m + 1 \in 1..Len(r)
  BY <1>1, <1>2
<1> DEFINE s == r[m + 1].size
           j == (n + 1) - off[m]
<1>4. s \in Nat
  BY <1>3, ElementOfSeq, SizeFacts
<1>5. /\ off[m + 1] = off[m] + s
      /\ \A i \in 1..s : AllBytes(r)[off[m] + i] = [of |-> r[m + 1], at |-> i]
  BY <1>3 DEF Layout
<1>6. n < off[m + 1]
  BY <1>3 DEF Holds
<1> HIDE DEF s
<1>7. j \in 1..s /\ off[m] + j = n + 1 /\ n + 1 \in 1..Len(x)
  BY <1>1, <1>4, <1>5, <1>6, SMTT(60)
<1>8. x[n + 1] = AllBytes(r)[n + 1]
  BY <1>7 DEF Begins
<1>9. x[n + 1] = [of |-> r[m + 1], at |-> j]
  BY <1>5, <1>7, <1>8
<1>10. ASSUME j = s PROVE Holds(r, off, n + 1, m + 1)
  <2>1. off[m + 1] = n + 1
    BY <1>1, <1>4, <1>5, <1>10
  <2>2. ASSUME m + 1 < Len(r) PROVE n + 1 < off[(m + 1) + 1]
    <3>1. m + 1 \in 0..(Len(r) - 1) /\ (m + 1) + 1 \in 1..Len(r)
      BY <1>1, <2>2
    <3>2. r[(m + 1) + 1].size \in Nat /\ r[(m + 1) + 1].size > 0
      <4>1. r[(m + 1) + 1] \in Package
        BY <3>1, ElementOfSeq
      <4>2. QED
        BY <4>1, SizeFacts
    <3>3. off[(m + 1) + 1] = off[m + 1] + r[(m + 1) + 1].size
      BY <3>1 DEF Layout
    <3>4. QED
      BY <2>1, <3>2, <3>3
  <2>3. QED
    BY <1>3, <2>1, <2>2 DEF Holds
<1>11. ASSUME j # s PROVE Holds(r, off, n + 1, m)
  <2>1. n + 1 < off[m + 1] /\ off[m] <= n + 1
    BY <1>1, <1>4, <1>5, <1>7, <1>11
  <2>2. QED
    BY <1>1, <2>1 DEF Holds
<1>12. QED
  BY <1>3, <1>9, <1>10, <1>11 DEF s

\* The packages of r's first bytes are the first of r.
LEMMA GotFirst ==
  ASSUME NEW r \in Seq(Package), NEW off, Layout(r, off), NEW x, Begins(x, r)
  PROVE  \E m : Holds(r, off, Len(x), m) /\ PackagesOf(x) = First(r, m)
<1>1. x \in Seq(Byte) /\ Len(x) \in Nat /\ Len(r) \in Nat
  BY DEF Begins
<1>2. PICK U : IsGot(x, U) /\ PackagesOf(x) = U[Len(x)]
  BY <1>1, GotExists
<1> DEFINE T == {n \in Nat : n <= Len(x) => \E m : Holds(r, off, n, m) /\ U[n] = First(r, m)}
<1>3. 0 \in T
  <2>1. ASSUME 0 < Len(r) PROVE 0 < off[0 + 1]
    <3>1. 0 \in 0..(Len(r) - 1) /\ 0 + 1 \in 1..Len(r)
      BY <1>1, <2>1
    <3>2. r[0 + 1] \in Package
      BY <3>1, ElementOfSeq
    <3>3. off[0 + 1] = off[0] + r[0 + 1].size /\ off[0] = 0
      BY <3>1 DEF Layout
    <3>4. QED
      BY <3>2, <3>3, SizeFacts
  <2>2. Holds(r, off, 0, 0)
    BY <1>1, <2>1 DEF Holds, Layout
  <2>3. U[0] = First(r, 0)
    BY <1>2, FirstAll DEF IsGot
  <2>4. QED
    BY <2>2, <2>3
<1>4. ASSUME NEW n \in Nat, n \in T PROVE n + 1 \in T
  <2> SUFFICES ASSUME n + 1 <= Len(x) PROVE \E m : Holds(r, off, n + 1, m) /\ U[n + 1] = First(r, m)
    OBVIOUS
  <2>1. PICK m : Holds(r, off, n, m) /\ U[n] = First(r, m)
    BY <1>1, <1>4
  <2> DEFINE p == r[m + 1]
  <2>2. /\ m < Len(r) /\ x[n + 1] = [of |-> p, at |-> (n + 1) - off[m]]
        /\ (n + 1) - off[m] = p.size => Holds(r, off, n + 1, m + 1)
        /\ (n + 1) - off[m] # p.size => Holds(r, off, n + 1, m)
    BY <2>1, HoldsNext
  <2>3. n + 1 \in 1..Len(x) /\ (n + 1) - 1 = n
    BY <1>1
  <2>4. U[n + 1] = IF x[n + 1].at = x[n + 1].of.size THEN Append(U[n], x[n + 1].of) ELSE U[n]
    BY <1>2, <2>3 DEF IsGot
  <2>5. x[n + 1].of = p /\ x[n + 1].at = (n + 1) - off[m]
    BY <2>2
  <2>6. First(r, m + 1) = Append(First(r, m), p)
    <3>1. m \in 0..(Len(r) - 1)
      BY <1>1, <2>1, <2>2 DEF Holds
    <3>2. QED
      BY <3>1, FirstNext
  <2> HIDE DEF p
  <2>7. QED
    BY <2>1, <2>2, <2>4, <2>5, <2>6
<1>5. Len(x) \in T
  <2> HIDE DEF T
  <2>1. QED
    BY <1>1, <1>3, <1>4, Induction
<1>6. QED
  BY <1>1, <1>2, <1>5

\* Packages lie behind one another.
LEMMA LayoutGrows ==
  ASSUME NEW r \in Seq(Package), NEW off, Layout(r, off), NEW k \in 0..Len(r), NEW m \in k..Len(r)
  PROVE  off[k] <= off[m]
<1> DEFINE T == {n \in Nat : k + n <= Len(r) => off[k] <= off[k + n]}
<1>1. Len(r) \in Nat /\ \A i \in 0..Len(r) : off[i] \in Nat
  BY DEF Layout
<1>2. 0 \in T
  BY <1>1
<1>3. ASSUME NEW n \in Nat, n \in T PROVE n + 1 \in T
  <2> SUFFICES ASSUME k + (n + 1) <= Len(r) PROVE off[k] <= off[k + (n + 1)]
    OBVIOUS
  <2>1. /\ k + (n + 1) = (k + n) + 1 /\ k + n \in 0..(Len(r) - 1) /\ k + n \in 0..Len(r)
        /\ (k + n) + 1 \in 1..Len(r) /\ off[k] <= off[k + n]
    BY <1>1, <1>3
  <2>2. r[(k + n) + 1] \in Package
    BY <2>1, ElementOfSeq
  <2>3. off[(k + n) + 1] = off[k + n] + r[(k + n) + 1].size
    BY <2>1 DEF Layout
  <2>4. r[(k + n) + 1].size \in Nat
    BY <2>2, SizeFacts
  <2>5. off[k] \in Nat /\ off[k + n] \in Nat
    BY <1>1, <2>1
  <2> DEFINE a == off[k]
             b == off[k + n]
             c == off[(k + n) + 1]
             d == r[(k + n) + 1].size
  <2> HIDE DEF T, a, b, c, d
  <2>6. off[k] <= off[(k + n) + 1]
    <3>1. a \in Nat /\ b \in Nat /\ d \in Nat /\ a <= b /\ c = b + d
      BY <2>1, <2>3, <2>4, <2>5 DEF a, b, c, d
    <3>2. a <= c
      BY <3>1
    <3>3. QED
      BY <3>2 DEF a, c
  <2>7. QED
    BY <2>1, <2>6
<1>4. m - k \in T
  <2>1. m - k \in Nat
    BY <1>1
  <2> HIDE DEF T
  <2>2. QED
    BY <1>2, <1>3, <2>1, Induction
<1>5. k + (m - k) = m /\ m <= Len(r)
  BY <1>1
<1>6. QED
  BY <1>4, <1>5

\* Reading on adds packages, and only ones that were sent.
LEMMA GotGrows ==
  ASSUME NEW r \in Seq(Package), NEW x, NEW y, Begins(x, r), Begins(y, r), Len(x) <= Len(y)
  PROVE  IsPrefix(PackagesOf(x), PackagesOf(y)) /\ IsPrefix(PackagesOf(y), r)
<1>1. PICK off : Layout(r, off)
  BY LayoutExists
<1>2. PICK k : Holds(r, off, Len(x), k) /\ PackagesOf(x) = First(r, k)
  BY <1>1, GotFirst
<1>3. PICK m : Holds(r, off, Len(y), m) /\ PackagesOf(y) = First(r, m)
  BY <1>1, GotFirst
<1>4. /\ Len(r) \in Nat /\ Len(x) \in Nat /\ Len(y) \in Nat
      /\ k \in 0..Len(r) /\ m \in 0..Len(r) /\ \A i \in 0..Len(r) : off[i] \in Nat
  BY <1>1, <1>2, <1>3 DEF Begins, Holds, Layout
<1>5. k <= m
  <2> SUFFICES ASSUME m < k PROVE FALSE
    BY <1>4
  <2>1. m + 1 \in 0..Len(r) /\ k \in (m + 1)..Len(r) /\ m < Len(r)
    BY <1>4
  <2>2. off[m + 1] <= off[k]
    BY <1>1, <2>1, LayoutGrows
  <2>3. Len(y) < off[m + 1] /\ off[k] <= Len(x)
    BY <1>2, <1>3, <2>1 DEF Holds
  <2>4. QED
    BY <1>4, <2>1, <2>2, <2>3
<1>6. /\ First(r, k) \in Seq(Package) /\ Len(First(r, k)) = k
      /\ \A i \in 1..k : First(r, k)[i] = r[i]
  BY <1>4, FirstFacts
<1>7. /\ First(r, m) \in Seq(Package) /\ Len(First(r, m)) = m
      /\ \A i \in 1..m : First(r, m)[i] = r[i]
  BY <1>4, FirstFacts
<1>8. \A i \in 1..k : i \in 1..m
  BY <1>4, <1>5
<1>9. IsPrefix(First(r, k), First(r, m))
  BY <1>5, <1>6, <1>7, <1>8, PrefixIs
<1>10. IsPrefix(First(r, m), r)
  BY <1>4, <1>7, PrefixIs
<1>11. QED
  BY <1>2, <1>3, <1>9, <1>10

LEMMA GotNothing == PackagesOf(<<>>) = <<>>
<1>1. <<>> \in Seq(Byte) /\ Len(<<>>) = 0
  OBVIOUS
<1>2. PICK U : IsGot(<<>>, U) /\ PackagesOf(<<>>) = U[Len(<<>>)]
  BY <1>1, GotExists
<1>3. QED
  BY <1>1, <1>2 DEF IsGot

----------------------------------------------------------------------------
(* A connection is a channel of packages *)

\* The packages the server has been given.
Given == [i \in DOMAIN inbox |-> inbox[i][1].of]

LEMMA GivenFacts ==
  ASSUME CInv, ReqInv
  PROVE  /\ Given \in Seq(Package) /\ Len(Given) = Len(inbox) /\ DOMAIN Given = 1..Len(inbox)
         /\ \A i \in 1..Len(inbox) : Given[i] = sent[i]
<1>1. /\ DOMAIN inbox = 1..Len(inbox) /\ Len(inbox) \in Nat
      /\ Len(inbox) <= Len(sent) /\ Len(sent) \in Nat
      /\ \A i \in 1..Len(inbox) : inbox[i] = Message(kind, sent[i])
  BY InboxFacts
<1>2. ASSUME NEW i \in 1..Len(inbox) PROVE sent[i] \in Package /\ inbox[i][1].of = sent[i]
  <2>1. i \in 1..Len(sent) /\ sent \in Seq(Package)
    BY <1>1 DEF CInv
  <2>2. sent[i] \in Package
    BY <2>1, ElementOfSeq
  <2>3. Message(kind, sent[i])[1].of = sent[i]
    BY <2>2, MessageFacts
  <2>4. QED
    BY <1>1, <2>2, <2>3
<1>3. Given = [i \in 1..Len(inbox) |-> inbox[i][1].of]
  BY <1>1 DEF Given
<1>4. \A i \in 1..Len(inbox) : Given[i] = sent[i] /\ Given[i] \in Package
  BY <1>2, <1>3
<1>5. Given \in [1..Len(inbox) -> Package]
  BY <1>3, <1>4
<1>6. Given \in Seq(Package) /\ Len(Given) = Len(inbox)
  BY <1>1, <1>5
<1>7. QED
  BY <1>3, <1>4, <1>6

\* The requests given are the first that were sent.
GivenIs ==
  /\ Given \in Seq(Package) /\ Len(Given) = Len(inbox) /\ DOMAIN Given = 1..Len(inbox)
  /\ \A i \in 1..Len(inbox) : Given[i] = sent[i]

LEMMA GivenNow == CInv /\ ReqInv => GivenIs
  BY GivenFacts DEF GivenIs

LEMMA GivenNext == CInv' /\ ReqInv' => GivenIs'
  BY GivenNow, PTL

LEMMA GivenKept ==
  ASSUME UNCHANGED inbox
  PROVE  UNCHANGED Given
  BY DEF Given

\* Channel has its own copy of IsPrefix.
LEMMA AbstractPrefix ==
  \A s, t : Abstract!IsPrefix(s, t) <=> IsPrefix(s, t)
  BY DEF Abstract!IsPrefix, IsPrefix

LEMMA InitRefines == Init => Abstract!Init
<1> SUFFICES ASSUME Init PROVE Abstract!Init
  OBVIOUS
<1>1. CInv /\ ReqInv /\ Len(inbox) = 0
  BY InitIInv DEF Init, IInv
<1>2. Given \in Seq(Package) /\ Len(Given) = 0
  BY <1>1, GivenFacts
<1>3. Given = <<>>
  BY <1>2, EmptySeq
<1>4. PackagesOf(read) = <<>>
  BY GotNothing DEF Init
<1>5. QED
  BY <1>3, <1>4 DEF Init, Abstract!Init, Given

\* The client's step is a request.
LEMMA SendRefines ==
  ASSUME IInv, NEW p \in Package, ClientSend(p)
  PROVE  Abstract!Next
<1>1. sent' = Append(sent, p) /\ UNCHANGED <<inbox, open, answers, read>>
  BY DEF ClientSend, hist
<1>2. sent \in Seq(Package)
  BY DEF IInv, CInv
<1>3. sent' \in Seq(Package) /\ Len(sent') = Len(sent) + 1 /\ Len(sent) \in Nat
      /\ \A i \in 1..Len(sent) : sent'[i] = sent[i]
  BY <1>1, <1>2
<1>4. IsPrefix(sent, sent')
  BY <1>2, <1>3, PrefixIs
<1>5. UNCHANGED Given
  BY <1>1, GivenKept
<1>6. Abstract!Request
  BY <1>1, <1>3, <1>4, <1>5, AbstractPrefix DEF Abstract!Request, Given
<1>7. QED
  BY <1>6 DEF Abstract!Next

\* A recv hands requests over, and stops at a bad one.
LEMMA InputRefines ==
  ASSUME IInv, IInv', NEW n \in 1..RecvSize, HandleInput(n)
  PROVE  Abstract!Next
<1>1. /\ open /\ UNCHANGED <<client, sendbuf, hist, read>>
      /\ Len(inbox') \in Len(inbox)..Len(sent)
      /\ ~open' => Len(inbox') < Len(sent) /\ ~sent[Len(inbox') + 1].ok
  BY InputReq DEF IInv
<1>2. UNCHANGED <<sent, answers, read>>
  BY <1>1 DEF client, hist
<1>3. sent \in Seq(Package) /\ Len(sent) \in Nat /\ Len(inbox) \in Nat
  BY InboxFacts DEF IInv, CInv
<1>4. /\ Given \in Seq(Package) /\ Len(Given) = Len(inbox)
      /\ \A i \in 1..Len(inbox) : Given[i] = sent[i]
  BY GivenFacts DEF IInv
<1>5. /\ Given' \in Seq(Package) /\ Len(Given') = Len(inbox') /\ DOMAIN Given' = 1..Len(inbox')
      /\ \A i \in 1..Len(inbox') : Given'[i] = sent[i]
  <2>1. GivenIs'
    BY GivenNext DEF IInv
  <2>2. QED
    BY <1>2, <2>1 DEF GivenIs
<1>6. Len(Given) <= Len(Given') /\ \A i \in 1..Len(Given) : Given[i] = Given'[i]
  BY <1>1, <1>3, <1>4, <1>5
<1>7. IsPrefix(Given, Given')
  BY <1>4, <1>5, <1>6, PrefixIs
<1>8. IsPrefix(Given', sent)
  BY <1>1, <1>3, <1>5, PrefixIs
<1>9. \A i \in DOMAIN Given' : sent[i].ok
  BY <1>2, <1>5 DEF IInv, ReqInv
<1>10. Abstract!Deliver
  <2>1. open /\ IsPrefix(Given, Given') /\ IsPrefix(Given', sent)
    BY <1>1, <1>7, <1>8
  <2>2. ~open' => Len(Given') < Len(sent) /\ ~sent[Len(Given') + 1].ok
    BY <1>1, <1>5
  <2>3. UNCHANGED <<sent, answers, PackagesOf(read)>>
    BY <1>2
  <2>4. QED
    BY <1>9, <2>1, <2>2, <2>3, AbstractPrefix DEF Abstract!Deliver, Given
<1>11. QED
  BY <1>10 DEF Abstract!Next

\* What the client reads are answers, in their order.
LEMMA RecvRefines ==
  ASSUME IInv, NEW n \in 1..SocketSize, ClientRecv(n)
  PROVE  Abstract!Next
<1>1. Begins(read', answers) /\ \E x \in Seq(Byte) : read' = read \o x
  BY RecvAns DEF IInv
<1>2. UNCHANGED <<sent, inbox, answers, open>>
  BY DEF ClientRecv, client, input, hist
<1>3. read \in Seq(Byte) /\ answers \in Seq(Package) /\ Begins(read, answers)
  BY DEF IInv, CInv, AnsInv
<1>4. Len(read) <= Len(read')
  <2>1. PICK x \in Seq(Byte) : read' = read \o x
    BY <1>1
  <2>2. Len(read \o x) = Len(read) + Len(x) /\ Len(read) \in Nat /\ Len(x) \in Nat
    BY <1>3, LenCat
  <2>3. QED
    BY <2>1, <2>2
<1>5. IsPrefix(PackagesOf(read), PackagesOf(read')) /\ IsPrefix(PackagesOf(read'), answers)
  BY <1>1, <1>3, <1>4, GotGrows
<1>6. UNCHANGED Given
  BY <1>2, GivenKept
<1>7. Abstract!Receive
  BY <1>2, <1>5, <1>6, AbstractPrefix DEF Abstract!Receive, Given
<1>8. QED
  BY <1>7 DEF Abstract!Next

\* Steps that change neither packages nor histories break the connection, or
\* change nothing a user sees.
LEMMA KeptRefines ==
  ASSUME UNCHANGED <<sent, inbox, answers, read>>, open' = open \/ open' = FALSE
  PROVE  [Abstract!Next]_(Abstract!vars)
<1>1. UNCHANGED Given /\ UNCHANGED PackagesOf(read)
  BY GivenKept
<1>2. CASE open' = open
  <2>1. UNCHANGED Abstract!vars
    BY <1>1, <1>2 DEF Abstract!vars, Given
  <2>2. QED
    BY <2>1
<1>3. CASE open' = FALSE
  <2>1. Abstract!Break
    BY <1>1, <1>3 DEF Abstract!Break, Given
  <2>2. QED
    BY <2>1 DEF Abstract!Next
<1>4. QED
  BY <1>2, <1>3

\* An answer is to a request that was given, and the only one to it; an answer
\* that is not sent, or for a closed connection, is none.
LEMMA AnswerRefines ==
  ASSUME IInv, NEW k \in DOMAIN inbox, NEW s \in Sizes \cup {0}, PushMsg(k, s)
  PROVE  [Abstract!Next]_(Abstract!vars)
<1> DEFINE p == [id |-> k, size |-> s, ok |-> TRUE]
<1>1. /\ k \in 1..Len(inbox) /\ k \notin answered
      /\ UNCHANGED <<client, in, recvbuf, inbox, read>>
      /\ \/ UNCHANGED <<open, sendbuf, wr, out, answers>>
         \/ Close /\ UNCHANGED <<sendbuf, answers>>
         \/ /\ p \in Package
            /\ Output(AppendTo(sendbuf, Bytes(p)))
            /\ answers' = IF open THEN Append(answers, p) ELSE answers
  BY PushMsgFacts
<1>2. p.id = k
  OBVIOUS
<1> HIDE DEF p
<1>3. UNCHANGED <<sent, inbox, read>>
  BY <1>1 DEF client
<1>4. CASE UNCHANGED <<open, sendbuf, wr, out, answers>>
  BY <1>3, <1>4, KeptRefines
<1>5. CASE Close /\ UNCHANGED <<sendbuf, answers>>
  BY <1>3, <1>5, KeptRefines DEF Close
<1>6. CASE /\ p \in Package
           /\ Output(AppendTo(sendbuf, Bytes(p)))
           /\ answers' = IF open THEN Append(answers, p) ELSE answers
  <2>1. CASE ~open
    <3>1. open' = open
      BY <1>6, <2>1 DEF Output
    <3>2. UNCHANGED answers
      BY <1>6, <2>1
    <3>3. QED
      BY <1>3, <3>1, <3>2, KeptRefines
  <2>2. CASE open
    <3>1. answers \in Seq(Package) /\ answers' = Append(answers, p)
      BY <1>6, <2>2 DEF IInv, CInv
    <3>2. /\ answers' \in Seq(Package) /\ Len(answers') = Len(answers) + 1 /\ Len(answers) \in Nat
          /\ answers'[Len(answers) + 1] = p /\ \A i \in 1..Len(answers) : answers'[i] = answers[i]
          /\ DOMAIN answers = 1..Len(answers)
      BY <1>6, <3>1
    <3>3. IsPrefix(answers, answers')
      <4>1. Len(answers) <= Len(answers') /\ \A i \in 1..Len(answers) : answers[i] = answers'[i]
        BY <3>2
      <4>2. QED
        BY <3>1, <3>2, <4>1, PrefixIs
    <3>4. Abstract!Last(answers') = p
      BY <3>2 DEF Abstract!Last
    <3>5. k \in DOMAIN Given
      BY <1>1, GivenFacts DEF IInv
    <3>6. \A i \in DOMAIN answers : answers[i].id # k
      BY <1>1, <3>2 DEF IInv, IdInv
    <3>7. UNCHANGED Given /\ UNCHANGED <<sent, PackagesOf(read)>>
      BY <1>3, GivenKept
    <3>8. Abstract!Answer
      BY <1>2, <2>2, <3>2, <3>3, <3>4, <3>5, <3>6, <3>7, AbstractPrefix DEF Abstract!Answer, Given
    <3>9. QED
      BY <3>8 DEF Abstract!Next
  <2>3. QED
    BY <2>1, <2>2
<1>7. QED
  BY <1>1, <1>4, <1>5, <1>6

LEMMA NextRefines ==
  ASSUME IInv, IInv', [Next]_vars
  PROVE  [Abstract!Next]_(Abstract!vars)
<1>1. ASSUME NEW s \in Sizes, NEW ok \in BOOLEAN,
             ClientSend([id |-> Len(sent) + 1, size |-> s, ok |-> ok])
      PROVE  Abstract!Next
  <2>1. Len(sent) + 1 \in Nat
    BY DEF IInv, CInv
  <2>2. [id |-> Len(sent) + 1, size |-> s, ok |-> ok] \in Package
    BY <2>1, NewPackage
  <2>3. QED
    BY <1>1, <2>2, SendRefines
<1>2. CASE ClientClose
  BY <1>2, KeptRefines DEF ClientClose, input, hist
<1>3. CASE HandleEof
  BY <1>3, KeptRefines DEF HandleEof, client, hist, Close
<1>4. CASE HandleTimeout
  BY <1>4, KeptRefines DEF HandleTimeout, client, hist, Close
<1>5. CASE HandleOutput
  <2>1. UNCHANGED <<sent, inbox, answers, read>>
    BY <1>5 DEF HandleOutput, client, input, hist
  <2>2. open' = open \/ open' = FALSE
    BY <1>5 DEF HandleOutput, Output, Sends, Eagain, Close
  <2>3. QED
    BY <2>1, <2>2, KeptRefines
<1>6. CASE UNCHANGED vars
  BY <1>6, KeptRefines DEF vars, client, input, hist
<1>7. QED
  BY <1>1, <1>2, <1>3, <1>4, <1>5, <1>6, RecvRefines, InputRefines, AnswerRefines DEF Next, Client, Input

\* To its users a connection is a channel of packages: whatever TCP does to the
\* bytes, requests are given once, in order and never behind one that could not
\* be decoded, each is answered at most once, and the client gets a prefix of
\* the answers.
THEOREM Refinement == Spec => ImplementsChannel
<1>1. Init => Abstract!Init  BY InitRefines
<1>2. IInv /\ IInv' /\ [Next]_vars => [Abstract!Next]_(Abstract!vars)
  BY NextRefines
<1> QED  BY <1>1, <1>2, Invariance, PTL DEF Spec, ImplementsChannel, Abstract!Spec
=============================================================================
