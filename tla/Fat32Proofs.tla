----------------------------- MODULE Fat32Proofs -----------------------------
(***************************************************************************)
(* Theorems about Fat32: for volumes and directories of any size, any      *)
(* names, and any number of failed writes and power failures.              *)
(***************************************************************************)
EXTENDS Fat32, FiniteSetTheorems, SequenceTheorems, WellFoundedInduction, TLAPS

(* The least of a set of natural numbers. *)
LEMMA MinIs ==
    ASSUME NEW S \in SUBSET Nat, S # {}
    PROVE  Min(S) \in S /\ \A x \in S : Min(S) <= x
<1> DEFINE R == OpToRel(<, Nat)
<1>1. \A x, y \in Nat : y < x => <<y, x>> \in R
  BY Zenon DEF OpToRel
<1>2. IsWellFoundedOn(R, Nat)
  BY NatLessThanWellFounded
<1> HIDE DEF R
<1>3. PICK x \in S : \A y \in S : ~ (<<y, x>> \in R)
  BY <1>2, WFMin
<1>4. ASSUME NEW y \in S PROVE x <= y
  <2>1. x \in Nat /\ y \in Nat
    OBVIOUS
  <2>2. ~ (y < x)
    BY <1>1, <1>3, <2>1, Zenon
  <2> QED  BY <2>1, <2>2
<1> QED  BY <1>3, <1>4 DEF Min

LEMMA SizesOK == /\ MaxCluster \in Nat /\ MaxCluster > 3 /\ Slots \in Nat /\ Slots > 2
                 /\ Root \in Cluster /\ 0 \notin Cluster /\ EOF \notin Cluster /\ EOF # 0
                 /\ \A c \in Cluster : c \in Nat /\ c >= 2 /\ c < MaxCluster
BY FatAssumption DEF Cluster, Root, EOF

-----------------------------------------------------------------------------
(* Chains. *)

Link == {0} \cup Cluster
FatType == fat \in [Cluster -> {0, EOF} \cup Cluster]

LEMMA NextIs ==
    ASSUME FatType, NEW c \in Link
    PROVE  /\ NextCluster(c) \in Link
           /\ NextCluster(c) # 0 => c \in Cluster /\ NextCluster(c) = fat[c] /\ fat[c] \in Cluster
           /\ c \in Cluster /\ fat[c] \in Cluster => NextCluster(c) = fat[c]
BY SizesOK DEF FatType, NextCluster, Link

(* The walk of Chain is a function that begins with c and follows the FAT. *)
Follows(w, c, n) == /\ w \in [2 .. n -> Link]
                    /\ \A i \in 2 .. n : w[i] = IF i = 2 THEN c ELSE NextCluster(w[i - 1])

LEMMA WalkExists ==
    ASSUME FatType, NEW c \in Link, NEW n \in Nat, n >= 2
    PROVE  \E w : Follows(w, c, n)
<1> DEFINE Bad == {m \in Nat : m >= 2 /\ ~ \E w : Follows(w, c, m)}
<1> SUFFICES ASSUME Bad # {} PROVE FALSE
  OBVIOUS
<1> DEFINE m == Min(Bad)
<1>1. m \in Bad /\ \A x \in Bad : m <= x
  BY MinIs
<1> HIDE DEF m
<1>2. m \in Nat /\ m >= 2 /\ ~ \E w : Follows(w, c, m)
  BY <1>1
<1>3. CASE m = 2
  <2> DEFINE w == [i \in 2 .. 2 |-> c]
  <2>1. Follows(w, c, 2)
    BY DEF Follows
  <2> QED  BY <1>2, <1>3, <2>1
<1>4. CASE m > 2
  <2>1. m - 1 \in Nat /\ m - 1 >= 2 /\ ~(m <= m - 1)
    BY <1>2, <1>4
  <2>2. PICK v : Follows(v, c, m - 1)
    BY <1>1, <2>1
  <2> DEFINE w == [i \in 2 .. m |-> IF i = m THEN NextCluster(v[m - 1]) ELSE v[i]]
  <2>3. v[m - 1] \in Link /\ NextCluster(v[m - 1]) \in Link
    BY <2>1, <2>2, NextIs DEF Follows
  <2>4. w \in [2 .. m -> Link]
    <3>1. \A i \in 2 .. m : i # m => i \in 2 .. m - 1
      BY <1>2
    <3> QED  BY <2>2, <2>3, <3>1 DEF Follows
  <2>5. ASSUME NEW i \in 2 .. m PROVE w[i] = IF i = 2 THEN c ELSE NextCluster(w[i - 1])
    <3>1. CASE i = m
      <4>1. m - 1 \in 2 .. m /\ m - 1 # m /\ m # 2
        BY <1>2, <1>4
      <4>2. w[m] = NextCluster(v[m - 1]) /\ w[m - 1] = v[m - 1]
        BY <1>2, <4>1
      <4> QED  BY <3>1, <4>1, <4>2
    <3>2. CASE i # m /\ i = 2
      BY <2>1, <2>2, <3>2 DEF Follows
    <3>3. CASE i # m /\ i # 2
      <4>1. i \in 2 .. m - 1 /\ i - 1 \in 2 .. m /\ i - 1 # m
        BY <1>2, <3>3
      <4>2. w[i] = v[i] /\ w[i - 1] = v[i - 1]
        BY <3>3, <4>1
      <4> QED  BY <2>2, <3>3, <4>1, <4>2 DEF Follows
    <3> QED  BY <3>1, <3>2, <3>3
  <2>6. Follows(w, c, m)
    BY <2>4, <2>5 DEF Follows
  <2> QED  BY <1>2, <2>6
<1> QED  BY <1>2, <1>3, <1>4

LEMMA WalkIs ==
    ASSUME FatType, NEW c \in Link
    PROVE  /\ Walk(c) \in [Cluster -> Link]
           /\ \A i \in Cluster : Walk(c)[i] = IF i = 2 THEN c ELSE NextCluster(Walk(c)[i - 1])
<1> DEFINE W(v) == [i \in Cluster |-> IF i = 2 THEN c ELSE NextCluster(v[i - 1])]
<1>1. PICK w : Follows(w, c, MaxCluster - 1)
  BY WalkExists, SizesOK
<1>2. w \in [Cluster -> Link]
  BY <1>1 DEF Follows, Cluster
<1>3. w = W(w)
  BY <1>1, <1>2 DEF Follows, Cluster
<1>4. Walk(c) = CHOOSE v : v = W(v)
  BY DEF Walk
<1>5. Walk(c) = W(Walk(c))
  BY <1>3, <1>4
<1> DEFINE v == Walk(c)
<1> HIDE DEF v
<1>6. v = [i \in Cluster |-> IF i = 2 THEN c ELSE NextCluster(v[i - 1])]
  BY <1>5 DEF v
<1>7. /\ DOMAIN v = Cluster
      /\ \A i \in Cluster : v[i] = IF i = 2 THEN c ELSE NextCluster(v[i - 1])
  BY <1>6
<1>8. v \in [Cluster -> Link]
  <2>1. \A x : NextCluster(x) \in Link
    BY SizesOK DEF FatType, NextCluster, Link
  <2> QED  BY <1>6, <2>1
<1> QED  BY <1>7, <1>8 DEF v

(* What a chain is made of: clusters, the first of which is c, and nothing that the links
   from c do not lead to. *)
LEMMA ChainIs ==
    ASSUME FatType, NEW c \in Link
    PROVE  /\ Chain(c) \in Seq(Cluster) /\ Len(Chain(c)) \in 0 .. MaxCluster - 2
           /\ c = 0 => Chain(c) = << >>
           /\ c # 0 => Len(Chain(c)) >= 1 /\ Chain(c)[1] = c
           /\ \A i \in 1 .. Len(Chain(c)) - 1 : Chain(c)[i + 1] = fat[Chain(c)[i]]
<1> DEFINE w == Walk(c)
           ends == {i \in Cluster : w[i] \notin Cluster}
           n == (IF ends = {} THEN MaxCluster ELSE Min(ends)) - 2
           ch == [i \in 1 .. n |-> w[i + 1]]
<1>1. /\ w \in [Cluster -> Link]
      /\ \A i \in Cluster : w[i] = IF i = 2 THEN c ELSE NextCluster(w[i - 1])
  BY WalkIs
<1>2. Chain(c) = ch
  BY DEF Chain
<1> HIDE DEF w
<1>3. /\ n \in 0 .. MaxCluster - 2
      /\ \A i \in 2 .. n + 1 : i \in Cluster /\ w[i] \in Cluster
      /\ c # 0 => n >= 1
      /\ c = 0 => n = 0
  <2>1. 2 \in Cluster /\ (c = 0 <=> 2 \in ends)
    BY <1>1, SizesOK DEF Cluster, Link
  <2>2. CASE ends = {}
    BY <2>1, <2>2, SizesOK DEF Cluster
  <2>3. CASE ends # {}
    <3>1. ends \in SUBSET Nat
      BY SizesOK
    <3>2. Min(ends) \in ends /\ \A x \in ends : Min(ends) <= x
      BY <2>3, <3>1, MinIs
    <3>3. Min(ends) \in Nat /\ Min(ends) >= 2 /\ Min(ends) < MaxCluster
      BY <3>2, SizesOK
    <3>4. n = Min(ends) - 2
      BY <2>3
    <3>5. ASSUME NEW i \in 2 .. n + 1 PROVE i \in Cluster /\ w[i] \in Cluster
      <4>1. i \in Cluster /\ ~(Min(ends) <= i)
        BY <3>3, <3>4, SizesOK DEF Cluster
      <4> QED  BY <3>2, <4>1
    <3>6. c # 0 => Min(ends) # 2
      BY <2>1, <3>2
    <3>7. c = 0 => Min(ends) <= 2
      BY <2>1, <3>2
    <3> HIDE DEF ends
    <3> QED  BY <3>3, <3>4, <3>5, <3>6, <3>7, SizesOK
  <2> QED  BY <2>2, <2>3
<1> HIDE DEF n
<1>4. ch \in [1 .. n -> Cluster]
  <2>1. \A i \in 1 .. n : i + 1 \in 2 .. n + 1
    BY <1>3
  <2> QED  BY <1>3, <2>1
<1>5. ch \in Seq(Cluster) /\ Len(ch) = n
  BY <1>3, <1>4
<1>6. c # 0 => ch[1] = c
  BY <1>1, <1>3
<1>7. ASSUME NEW i \in 1 .. n - 1 PROVE ch[i + 1] = fat[ch[i]]
  <2>1. i \in 1 .. n /\ i + 1 \in 1 .. n /\ i + 2 \in 2 .. n + 1 /\ i + 2 # 2 /\ i + 2 - 1 = i + 1
        /\ i + 1 + 1 = i + 2
    BY <1>3
  <2>2. w[i + 2] \in Cluster /\ w[i + 2] = NextCluster(w[i + 1])
    BY <1>1, <1>3, <2>1
  <2>3. i + 1 \in 2 .. n + 1
    BY <1>3, <2>1
  <2>4. w[i + 1] \in Link /\ NextCluster(w[i + 1]) # 0
    BY <1>3, <2>2, <2>3, SizesOK DEF Link
  <2> QED  BY <2>1, <2>2, <2>4, NextIs
<1>8. c = 0 => ch = << >>
  BY <1>3, <1>5
<1> HIDE DEF ch
<1> QED  BY <1>2, <1>3, <1>5, <1>6, <1>7, <1>8

(* A chain does not leave a set of clusters that the links do not leave. *)
LEMMA ChainStays ==
    ASSUME FatType, NEW c \in Link, NEW S, c \in Cluster => c \in S,
           \A x \in Cluster \cap S : fat[x] \in Cluster => fat[x] \in S
    PROVE  \A i \in 1 .. Len(Chain(c)) : Chain(c)[i] \in Cluster \cap S
<1> DEFINE ch == Chain(c)
           Bad == {i \in 1 .. Len(ch) : ch[i] \notin S}
<1>1. /\ ch \in Seq(Cluster) /\ Len(ch) \in Nat
      /\ c = 0 => Len(ch) = 0
      /\ c # 0 => ch[1] = c
      /\ \A i \in 1 .. Len(ch) - 1 : ch[i + 1] = fat[ch[i]]
  <2>1. MaxCluster \in Nat
    BY SizesOK
  <2> QED  BY <2>1, ChainIs
<1> HIDE DEF ch
<1>2. \A i \in 1 .. Len(ch) : ch[i] \in Cluster
  BY <1>1
<1>3. ASSUME Bad # {} PROVE FALSE
  <2> DEFINE m == Min(Bad)
  <2>1. Bad \in SUBSET Nat
    BY <1>1
  <2>2. m \in Bad /\ \A x \in Bad : m <= x
    BY <1>3, <2>1, MinIs
  <2> HIDE DEF m
  <2>3. m \in 1 .. Len(ch) /\ ch[m] \notin S
    BY <2>2
  <2>4. CASE m = 1
    BY <1>1, <2>3, <2>4 DEF Link
  <2>5. CASE m # 1
    <3>1. m - 1 \in 1 .. Len(ch) - 1 /\ m - 1 \in 1 .. Len(ch) /\ m - 1 + 1 = m /\ ~(m <= m - 1)
      BY <1>1, <2>3, <2>5
    <3>2. ch[m - 1] \in Cluster \cap S
      BY <1>2, <2>2, <3>1
    <3>3. ch[m] = fat[ch[m - 1]] /\ ch[m] \in Cluster
      BY <1>1, <1>2, <2>3, <3>1
    <3> QED  BY <2>3, <3>2, <3>3
  <2> QED  BY <2>4, <2>5
<1> QED  BY <1>2, <1>3 DEF ch

-----------------------------------------------------------------------------
(* Directories. *)

LEMMA DivMod ==
    ASSUME NEW m \in Nat \ {0}, NEW x \in Nat
    PROVE  /\ x \div m \in Nat /\ x % m \in 0 .. m - 1
           /\ x = m * (x \div m) + (x % m)
<1>1. x \div m \in Nat
  BY Z3
<1>2. x % m \in 0 .. m - 1
  BY Z3
<1>3. x = m * (x \div m) + (x % m)
  BY Z3
<1> QED  BY <1>1, <1>2, <1>3

LEMMA Products ==
    ASSUME NEW m \in Nat \ {0}, NEW a \in Nat, NEW b \in Nat
    PROVE  m * a \in Nat /\ (a < b => m * a + m <= m * b)
<1>1. m * a \in Nat
  BY Z3
<1>2. ASSUME a < b PROVE m * a + m <= m * b
  <2> DEFINE d == b - a - 1
  <2>1. d \in Nat /\ b = a + 1 + d
    BY <1>2
  <2> HIDE DEF d
  <2>2. m * b = m * a + m + m * d /\ m * d \in Nat
    BY <2>1, Z3
  <2>3. m * b \in Int
    BY Z3
  <2> QED  BY <1>1, <2>2, <2>3
<1> QED  BY <1>1, <1>2

(* Entry j of a directory of n clusters: which cluster, and where in it. *)
LEMMA SlotIs ==
    ASSUME NEW n \in Nat, NEW j \in 1 .. n * Slots
    PROVE  /\ (j - 1) \div Slots + 1 \in 1 .. n
           /\ ((j - 1) % Slots) + 1 \in 1 .. Slots
           /\ j = Slots * ((j - 1) \div Slots) + ((j - 1) % Slots) + 1
<1> DEFINE q == (j - 1) \div Slots
           r == (j - 1) % Slots
<1>1. Slots \in Nat \ {0} /\ j - 1 \in Nat
  BY SizesOK
<1>2. q \in Nat /\ r \in 0 .. Slots - 1 /\ j - 1 = Slots * q + r
  BY <1>1, DivMod
<1> HIDE DEF q, r
<1>3. n * Slots = Slots * n /\ Slots * n \in Nat /\ Slots * q \in Nat
  BY <1>1, <1>2, Z3
<1>4. CASE n <= q
  <2>1. Slots * n <= Slots * q
    <3>1. CASE n = q
      BY <1>3, <3>1
    <3>2. CASE n < q
      <4>1. Slots * n + Slots <= Slots * q
        BY <1>1, <1>2, <3>2, Products
      <4> QED  BY <1>1, <1>3, <4>1
    <3> QED  BY <1>2, <1>4, <3>1, <3>2
  <2>2. j <= Slots * n
    BY <1>3
  <2> QED  BY <1>1, <1>2, <1>3, <2>1, <2>2
<1>5. CASE q < n
  BY <1>1, <1>2, <1>3, <1>5 DEF q, r
<1> QED  BY <1>2, <1>4, <1>5

EntrySet == {End, Erased, Dots} \cup {LongEntry(n) : n \in Names}
    \cup [kind : {"file"}, name : Range(Short), first : Link \ {Root}, size : Nat]
    \cup [kind : {"dir"}, name : Range(Short), first : Cluster \ {Root}, size : Nat]

DirType == /\ dir \in [Cluster -> [1 .. Slots -> EntrySet]]
           /\ \A c \in Cluster : dir[c][Slots].kind # "long"

LEMMA EntryIs ==
    ASSUME NEW e \in EntrySet
    PROVE  /\ IsEntry(e) => e.first \in Link \ {Root} /\ e.name \in Range(Short) /\ e.size \in Nat
           /\ e.kind = "dir" => e.first \in Cluster \ {Root}
           /\ e.kind = "long" => \E n \in Names : e = LongEntry(n) /\ e.name = n
BY DEF EntrySet, IsEntry, End, Erased, Dots, LongEntry, Link

LEMMA AllEntriesIs ==
    ASSUME FatType, DirType, NEW d \in Link
    PROVE  /\ AllEntries(d) \in Seq(EntrySet)
           /\ Len(AllEntries(d)) = Len(Chain(d)) * Slots
           /\ \A j \in 1 .. Len(AllEntries(d)) :
                  /\ AllEntries(d)[j] = dir[Place(d, j)[1]][Place(d, j)[2]]
                  /\ Place(d, j)[1] \in Cluster /\ Place(d, j)[2] \in 1 .. Slots
                  /\ \E i \in 1 .. Len(Chain(d)) : Place(d, j)[1] = Chain(d)[i]
<1> DEFINE ch == Chain(d)
           n == Len(ch)
           f == [j \in 1 .. n * Slots |-> dir[ch[(j - 1) \div Slots + 1]][((j - 1) % Slots) + 1]]
<1>1. ch \in Seq(Cluster) /\ n \in Nat
  BY ChainIs, SizesOK
<1>2. AllEntries(d) = f
  BY DEF AllEntries
<1>3. n * Slots \in Nat
  BY <1>1, SizesOK, Z3
<1>4. ASSUME NEW j \in 1 .. n * Slots
      PROVE  /\ f[j] = dir[Place(d, j)[1]][Place(d, j)[2]]
             /\ f[j] \in EntrySet
             /\ Place(d, j)[1] \in Cluster /\ Place(d, j)[2] \in 1 .. Slots
             /\ \E i \in 1 .. Len(Chain(d)) : Place(d, j)[1] = Chain(d)[i]
  <2> DEFINE q == (j - 1) \div Slots + 1
             r == ((j - 1) % Slots) + 1
  <2>1. q \in 1 .. n /\ r \in 1 .. Slots
    BY <1>1, SlotIs
  <2>2. f[j] = dir[ch[q]][r] /\ Place(d, j)[1] = ch[q] /\ Place(d, j)[2] = r
    BY DEF Place
  <2> HIDE DEF q, r, f
  <2>3. ch[q] \in Cluster
    BY <1>1, <2>1
  <2>4. dir[ch[q]][r] \in EntrySet
    BY <2>1, <2>3 DEF DirType
  <2> QED  BY <2>1, <2>2, <2>3, <2>4
<1>5. f \in [1 .. n * Slots -> EntrySet]
  BY <1>4
<1>6. f \in Seq(EntrySet) /\ Len(f) = n * Slots
  BY <1>3, <1>5
<1> HIDE DEF f, n
<1> QED  BY <1>2, <1>4, <1>6 DEF n

(* Entries are those of AllEntries before the first end mark. *)
LEMMA EntriesAre ==
    ASSUME FatType, DirType, NEW d \in Link
    PROVE  /\ Entries(d) \in Seq(EntrySet) /\ Len(Entries(d)) \in Nat
           /\ Len(Entries(d)) <= Len(AllEntries(d)) /\ Len(AllEntries(d)) \in Nat
           /\ \A j \in 1 .. Len(Entries(d)) : /\ Entries(d)[j] = AllEntries(d)[j]
                                             /\ Entries(d)[j] # End
           /\ Len(Entries(d)) < Len(AllEntries(d)) => AllEntries(d)[Len(Entries(d)) + 1] = End
<1> DEFINE all == AllEntries(d)
           ends == {j \in 1 .. Len(all) : all[j] = End}
<1>1. all \in Seq(EntrySet) /\ Len(all) \in Nat
  BY AllEntriesIs
<1>2. Entries(d) = IF ends = {} THEN all ELSE SubSeq(all, 1, Min(ends) - 1)
  BY DEF Entries
<1> HIDE DEF all
<1>3. CASE ends = {}
  BY <1>1, <1>2, <1>3 DEF all
<1>4. CASE ends # {}
  <2> DEFINE n == Min(ends) - 1
             s == SubSeq(all, 1, n)
  <2>1. ends \in SUBSET Nat
    BY <1>1
  <2>2. Min(ends) \in ends /\ \A x \in ends : Min(ends) <= x
    BY <1>4, <2>1, MinIs
  <2>3. n \in Nat /\ n < Len(all) /\ n + 1 \in ends /\ \A x \in ends : ~(x <= n)
    <3> DEFINE m == Min(ends)
    <3>1. m \in 1 .. Len(all) /\ m \in ends
      BY <2>2
    <3>2. n = m - 1 /\ \A x \in ends : x \in Nat /\ m <= x
      BY <2>1, <2>2
    <3> HIDE DEF m, n, ends
    <3>3. n \in Nat /\ n < Len(all) /\ n + 1 = m /\ \A x \in Nat : m <= x => ~(x <= n)
      BY <1>1, <3>1, <3>2
    <3> QED  BY <3>1, <3>2, <3>3
  <2> HIDE DEF n
  <2>4. \A i \in 1 .. n : all[i] \in EntrySet
    BY <1>1, <2>3
  <2>5. /\ s \in Seq(EntrySet) /\ Len(s) = IF 1 <= n THEN n - 1 + 1 ELSE 0
        /\ \A i \in 1 .. n - 1 + 1 : s[i] = all[1 + i - 1]
    BY <2>3, <2>4, SubSeqProperties
  <2>6. n - 1 + 1 = n /\ \A i \in 1 .. n : 1 + i - 1 = i
    BY <2>3
  <2>7. Len(s) = n /\ \A i \in 1 .. n : s[i] = all[i]
    BY <2>3, <2>5, <2>6
  <2>8. \A i \in 1 .. n : all[i] # End
    BY <1>1, <2>3
  <2>9. Entries(d) = s
    BY <1>2, <1>4 DEF n
  <2>10. all[n + 1] = End
    BY <2>3
  <2> HIDE DEF s, ends
  <2> QED  BY <1>1, <2>3, <2>5, <2>7, <2>8, <2>9, <2>10 DEF all
<1> QED  BY <1>3, <1>4

LEMMA EntryPlace ==
    ASSUME FatType, DirType, NEW d \in Link, NEW j \in 1 .. Len(Entries(d))
    PROVE  /\ Entries(d)[j] = dir[Place(d, j)[1]][Place(d, j)[2]] /\ Entries(d)[j] \in EntrySet
           /\ Place(d, j)[1] \in Cluster /\ Place(d, j)[2] \in 1 .. Slots
           /\ \E i \in 1 .. Len(Chain(d)) : Place(d, j)[1] = Chain(d)[i]
<1>1. j \in 1 .. Len(AllEntries(d)) /\ Entries(d)[j] = AllEntries(d)[j]
  BY EntriesAre
<1>2. Entries(d)[j] \in EntrySet
  BY EntriesAre
<1> QED  BY <1>1, <1>2, AllEntriesIs

(* Directories are clusters. *)
LEMMA ParentsAre == FatType /\ DirType => Parents \subseteq Cluster
<1> SUFFICES ASSUME FatType, DirType, NEW d \in Parents, d # Root PROVE d \in Cluster
  BY SizesOK
<1>1. Root \in Link
  BY SizesOK DEF Link
<1>2. PICK e \in Range(Entries(Root)) : e.kind = "dir" /\ d = e.first
  BY DEF Parents
<1>3. PICK j \in 1 .. Len(Entries(Root)) : e = Entries(Root)[j]
  BY <1>1, EntriesAre DEF Range
<1>4. e \in EntrySet
  BY <1>1, <1>3, EntryPlace
<1> QED  BY <1>2, <1>4, EntryIs

LEMMA FirstIs ==
    ASSUME NEW js \in SUBSET (Nat \ {0})
    PROVE  /\ First(js) = 0 <=> js = {}
           /\ js # {} => First(js) \in js
<1>1. js \in SUBSET Nat
  OBVIOUS
<1>2. js # {} => Min(js) \in js
  BY <1>1, MinIs
<1> QED  BY <1>2 DEF First

(* Room for n entries begins so that all of them lie in the cluster. *)
LEMMA RoomIs ==
    ASSUME DirType, NEW c \in Cluster, NEW n \in {1, 2}, RoomIn(c, n) # 0
    PROVE  RoomIn(c, n) \in 1 .. Slots /\ RoomIn(c, n) + n - 1 <= Slots
<1> DEFINE ends == {j \in 1 .. Slots : dir[c][j] = End}
           e == IF ends = {} THEN Slots + 1 ELSE Min(ends)
           AllErased(i, j) == \A x \in i .. j : dir[c][x] = Erased
           runs == {i \in 1 .. e - n : AllErased(i, i + n - 1)}
           before == {i \in 1 .. e : AllErased(i, e - 1)}
<1>1. e \in 1 .. Slots + 1
  <2>1. Slots \in Nat /\ ends \in SUBSET Nat
    BY SizesOK
  <2>2. ends # {} => Min(ends) \in ends
    BY <2>1, MinIs
  <2> QED  BY <2>1, <2>2
<1>2. RoomIn(c, n) = IF runs # {} THEN Min(runs)
                     ELSE IF Slots + 1 - e >= n /\ e <= Slots THEN Min(before) ELSE 0
  BY DEF RoomIn
<1> HIDE DEF e
<1>3. CASE runs # {}
  <2>1. runs \in SUBSET Nat
    OBVIOUS
  <2>2. Min(runs) \in runs
    BY <1>3, <2>1, MinIs
  <2>3. RoomIn(c, n) \in 1 .. e - n
    BY <1>2, <1>3, <2>2
  <2> QED  BY <1>1, <2>3, SizesOK
<1>4. CASE runs = {}
  <2>1. Slots + 1 - e >= n /\ e <= Slots /\ RoomIn(c, n) = Min(before)
    BY <1>2, <1>4
  <2>2. before \in SUBSET Nat
    OBVIOUS
  <2>3. e \in before
    <3>1. \A x \in e .. e - 1 : FALSE
      BY <1>1
    <3> QED  BY <1>1, <3>1
  <2>4. Min(before) \in before
    BY <2>2, <2>3, MinIs
  <2>5. RoomIn(c, n) \in 1 .. e
    BY <2>1, <2>4
  <2> QED  BY <1>1, <2>1, <2>5, SizesOK
<1> QED  BY <1>3, <1>4

LEMMA FreeSlotsIs ==
    ASSUME FatType, DirType, NEW d \in Link, NEW n \in {1, 2}, FreeSlots(d, n) # <<0, 0>>
    PROVE  \E c \in Cluster, i \in 1 .. Len(Chain(d)) :
               /\ FreeSlots(d, n) = <<c, RoomIn(c, n)>> /\ RoomIn(c, n) # 0
               /\ c = Chain(d)[i]
<1> DEFINE ok == {i \in 1 .. Len(Chain(d)) : RoomIn(Chain(d)[i], n) # 0}
           c == Chain(d)[Min(ok)]
<1>1. FreeSlots(d, n) = IF ok = {} THEN <<0, 0>> ELSE <<c, RoomIn(c, n)>>
  BY DEF FreeSlots
<1>2. ok # {} /\ ok \in SUBSET Nat
  BY <1>1
<1>3. Min(ok) \in ok
  BY <1>2, MinIs
<1>4. Min(ok) \in 1 .. Len(Chain(d)) /\ RoomIn(c, n) # 0
  BY <1>3
<1>5. c \in Cluster
  BY <1>4, ChainIs
<1> HIDE DEF ok
<1> QED  BY <1>1, <1>2, <1>4, <1>5

LEMMA FreeClusterIs ==
    ASSUME FatType, last \in 2 .. MaxCluster, FreeCluster # 0
    PROVE  FreeCluster \in Cluster /\ fat[FreeCluster] = 0
<1> DEFINE start == IF last \in Cluster THEN last ELSE 2
           free == {c \in Cluster : fat[c] = 0}
           after == {c \in free : c >= start}
<1>1. FreeCluster = IF after # {} THEN Min(after) ELSE First(free)
  BY DEF FreeCluster
<1>2. after \in SUBSET Nat /\ free \in SUBSET (Nat \ {0}) /\ after \subseteq free
  BY SizesOK
<1>3. after # {} => Min(after) \in after
  BY <1>2, MinIs
<1>4. First(free) # 0 => First(free) \in free
  BY <1>2, FirstIs
<1>5. FreeCluster \in free
  BY <1>1, <1>2, <1>3, <1>4
<1> QED  BY <1>5

-----------------------------------------------------------------------------
(* What holds whatever has gone wrong before.  DiskInv is about the volume: no link
   leads to the root, and no long entry is the last of its cluster, so an entry and its
   long name are in one cluster.  LocalInv types the locals of the call, StepInv says
   which of them are set at which write. *)

NonFree == {c \in Cluster : fat[c] # 0}

CallSet == [op : {"write", "mkdir", "delete"}, dir : Cluster, name : Names, size : Nat,
            hit : BOOLEAN, chain : Link \ {Root}, full : BOOLEAN]

Busy == {"free", "alloc", "link", "data", "entry", "expand", "tail", "zero", "slots", "erase"}

DiskInv == /\ fat \in [Cluster -> {0, EOF} \cup (Cluster \ {Root})] /\ fat[Root] # 0
           /\ data \in [Cluster -> (Names \cup {""}) \X (0 .. MaxCluster)]
           /\ DirType

LocalInv == /\ last \in 2 .. MaxCluster
            /\ first \in Link \ {Root} /\ prev \in Link \ {Root} /\ old \in Link \ {Root}
            /\ at \in Link \X (0 .. Slots)
            /\ k \in 0 .. Slots + MaxCluster
            /\ pc \in {"none", "undo"} \cup Busy
            /\ pc \in Busy => call \in CallSet
            /\ pc \notin Busy => call = NoCall

StepInv == /\ pc \in {"free", "undo", "link", "tail", "zero"} => old # 0
           /\ pc = "none" => first = 0 /\ prev = 0 /\ old = 0
           /\ pc \in {"free", "undo"} => first = 0
           /\ pc = "alloc" /\ first # 0 => prev # 0 /\ k + 1 <= Cardinality(NonFree)
           /\ pc = "link" => prev # 0 /\ first # 0 /\ k + 2 <= Cardinality(NonFree)
           /\ pc = "data" => first # 0 /\ k \in 1 .. Len(Chain(first))

CallInv == pc \in Busy =>
               /\ call.hit => at[1] \in Cluster /\ at[2] \in 1 .. Slots
               /\ call.chain # 0 => call.hit
               /\ call.op = "mkdir" => ~call.hit /\ call.size # 0 /\ (pc # "alloc" => first # 0)
               /\ call.op = "delete" => call.hit /\ pc \in {"free", "erase"} /\ k \in 1 .. at[2]
               /\ pc = "erase" => call.op = "delete"
               /\ pc = "free" => call.chain # 0
               /\ pc \in {"expand", "tail", "zero", "slots"} => ~call.hit
               /\ pc = "slots" => /\ at[1] \in Cluster /\ at[2] \in 1 .. Slots
                                  /\ k \in 1 .. SlotsFor(call.name)
                                  /\ at[2] + SlotsFor(call.name) - 1 <= Slots
               /\ pc \in {"tail", "zero"} => k = 1
               /\ pc = "expand" => k = 1

TInv == DiskInv /\ LocalInv /\ StepInv /\ CallInv

-----------------------------------------------------------------------------
(* TInv is inductive. *)

LEMMA FatTypes == DiskInv => FatType
BY DEF DiskInv, FatType

LEMMA SlotWritten ==
    ASSUME DirType, NEW c \in Cluster, NEW i \in 1 .. Slots, NEW e \in EntrySet,
           i = Slots => e.kind # "long", dir' = [dir EXCEPT ![c][i] = e]
    PROVE  DirType'
<1> DEFINE f == [dir[c] EXCEPT ![i] = e]
<1>1. dir' = [dir EXCEPT ![c] = f]
  BY DEF DirType
<1>2. f \in [1 .. Slots -> EntrySet] /\ f[Slots].kind # "long"
  <2>1. dir[c] \in [1 .. Slots -> EntrySet] /\ dir[c][Slots].kind # "long" /\ Slots \in 1 .. Slots
    BY SizesOK DEF DirType
  <2>2. f[Slots] = IF i = Slots THEN e ELSE dir[c][Slots]
    BY <2>1
  <2>3. f \in [1 .. Slots -> EntrySet]
    BY <2>1
  <2> QED  BY <2>1, <2>2, <2>3
<1> HIDE DEF f
<1>3. dir' \in [Cluster -> [1 .. Slots -> EntrySet]]
  BY <1>1, <1>2 DEF DirType
<1>4. ASSUME NEW b \in Cluster PROVE dir'[b][Slots].kind # "long"
  <2>1. CASE b = c
    <3>1. dir'[b] = f
      BY <1>1, <2>1 DEF DirType
    <3> QED  BY <1>2, <3>1 DEF DirType
  <2>2. CASE b # c
    <3>1. dir'[b] = dir[b]
      BY <1>1, <2>2 DEF DirType
    <3> QED  BY <3>1 DEF DirType
  <2> QED  BY <2>1, <2>2
<1> QED  BY <1>3, <1>4 DEF DirType

LEMMA ClusterWritten ==
    ASSUME DirType, NEW c, NEW f \in [1 .. Slots -> EntrySet], f[Slots].kind # "long",
           dir' = [dir EXCEPT ![c] = f]
    PROVE  DirType'
BY DEF DirType

LEMMA BlankClusters ==
    /\ Idle \in [1 .. Slots -> EntrySet] /\ Idle[Slots].kind # "long"
    /\ Junk \in [1 .. Slots -> EntrySet] /\ Junk[Slots].kind # "long"
    /\ LET new == [Idle EXCEPT ![1] = Dots, ![2] = Dots]
       IN  new \in [1 .. Slots -> EntrySet] /\ new[Slots].kind # "long"
<1>1. Slots \in 1 .. Slots /\ 1 \in 1 .. Slots /\ 2 \in 1 .. Slots /\ Slots # 1 /\ Slots # 2
  BY SizesOK
<1>2. End \in EntrySet /\ Dots \in EntrySet /\ End.kind # "long" /\ Dots.kind # "long"
  BY DEF EntrySet, End, Dots
<1>3. Idle \in [1 .. Slots -> EntrySet] /\ Idle[Slots] = End
  BY <1>1, <1>2 DEF Idle
<1>4. Junk \in [1 .. Slots -> EntrySet] /\ Junk[Slots] = Dots
  BY <1>1, <1>2 DEF Junk
<1> DEFINE new == [Idle EXCEPT ![1] = Dots, ![2] = Dots]
<1>5. new \in [1 .. Slots -> EntrySet] /\ new[Slots] = End
  BY <1>1, <1>2, <1>3
<1> QED  BY <1>2, <1>3, <1>4, <1>5

LEMMA NewEntryIs ==
    ASSUME call \in CallSet, first \in Link \ {Root}, call.op = "mkdir" => first # 0
    PROVE  NewEntry \in EntrySet /\ NewEntry.kind # "long" /\ IsEntry(NewEntry)
           /\ NewEntry.first = first /\ NewEntry.name = Short[call.name]
<1>1. call.name \in Names /\ call.size \in Nat
  BY DEF CallSet
<1>2. Short[call.name] \in Range(Short)
  BY <1>1, FatAssumption DEF Range
<1>3. CASE call.op = "mkdir"
  <2>1. NewEntry = [kind |-> "dir", name |-> Short[call.name], first |-> first, size |-> 0]
    BY <1>3 DEF NewEntry, Entry
  <2>2. first \in Cluster \ {Root} /\ 0 \in Nat
    BY <1>3 DEF Link
  <2> QED  BY <1>2, <2>1, <2>2 DEF EntrySet, IsEntry
<1>4. CASE call.op # "mkdir"
  <2>1. NewEntry = [kind |-> "file", name |-> Short[call.name], first |-> first,
                    size |-> call.size]
    BY <1>4 DEF NewEntry, Entry
  <2> QED  BY <1>1, <1>2, <2>1 DEF EntrySet, IsEntry
<1> QED  BY <1>3, <1>4

LEMMA NonFreeCounted ==
    /\ IsFiniteSet(NonFree) /\ Cardinality(NonFree) \in 0 .. MaxCluster - 2
    /\ IsFiniteSet(Cluster)
<1>1. IsFiniteSet(Cluster) /\ Cardinality(Cluster) = MaxCluster - 2
  <2>1. 2 \in Int /\ MaxCluster - 1 \in Int
    BY SizesOK
  <2>2. IsFiniteSet(2 .. MaxCluster - 1)
        /\ Cardinality(2 .. MaxCluster - 1)
             = IF 2 > MaxCluster - 1 THEN 0 ELSE MaxCluster - 1 - 2 + 1
    BY <2>1, FS_Interval
  <2> QED  BY <2>2, SizesOK DEF Cluster
<1>2. NonFree \subseteq Cluster
  BY DEF NonFree
<1>3. IsFiniteSet(NonFree) /\ Cardinality(NonFree) <= Cardinality(Cluster)
  BY <1>1, <1>2, FS_Subset
<1>4. Cardinality(NonFree) \in Nat
  BY <1>3, FS_CardinalityType
<1> QED  BY <1>1, <1>3, <1>4, SizesOK

(* A cluster allocated is one more that is not free. *)
LEMMA OneMoreCounted ==
    ASSUME DiskInv, NEW c \in Cluster, fat[c] = 0, NEW x, x # 0, fat' = [fat EXCEPT ![c] = x]
    PROVE  Cardinality(NonFree') = Cardinality(NonFree) + 1
<1>1. NonFree' = NonFree \cup {c} /\ c \notin NonFree
  BY DEF NonFree, DiskInv
<1> QED  BY <1>1, NonFreeCounted, FS_AddElement

LEMMA LinkCounted ==
    ASSUME DiskInv, NEW c, NEW x, x # 0, fat' = [fat EXCEPT ![c] = x]
    PROVE  Cardinality(NonFree') >= Cardinality(NonFree) /\ Cardinality(NonFree') \in Nat
<1>1. NonFree \subseteq NonFree' /\ NonFree' \subseteq Cluster
  BY DEF NonFree, DiskInv
<1>2. IsFiniteSet(NonFree')
  BY <1>1, NonFreeCounted, FS_Subset
<1>3. Cardinality(NonFree) <= Cardinality(NonFree')
  BY <1>1, <1>2, FS_Subset
<1>4. Cardinality(NonFree') \in Nat /\ Cardinality(NonFree) \in Nat
  BY <1>2, NonFreeCounted, FS_CardinalityType
<1> QED  BY <1>3, <1>4

LEMMA AllocCluster ==
    ASSUME DiskInv, LocalInv, FreeCluster # 0
    PROVE  /\ FreeCluster \in Cluster \ {Root} /\ fat[FreeCluster] = 0
           /\ FreeCluster \in Link \ {Root} /\ FreeCluster # 0
           /\ FreeCluster + 1 \in 2 .. MaxCluster
<1>1. FreeCluster \in Cluster /\ fat[FreeCluster] = 0
  BY FatTypes, FreeClusterIs DEF LocalInv
<1> DEFINE c == FreeCluster
<1> HIDE DEF c
<1>2. c \in Cluster /\ fat[c] = 0
  BY <1>1 DEF c
<1>3. c # Root
  BY <1>2 DEF DiskInv
<1>4. c \in Nat /\ c >= 2 /\ c < MaxCluster /\ MaxCluster \in Nat
  BY <1>2, SizesOK
<1>5. c + 1 \in 2 .. MaxCluster
  BY <1>4
<1> QED  BY <1>2, <1>3, <1>5, SizesOK DEF Link, c

(* The clearing of the locals, by Finish and by the error exit. *)
LEMMA FinishType ==
    ASSUME Finish, DiskInv', last' \in 2 .. MaxCluster
    PROVE  TInv'
<1>1. 0 \in Link \ {Root} /\ 0 \in 0 .. Slots /\ 0 \in 0 .. Slots + MaxCluster
  BY SizesOK DEF Link
<1>2. LocalInv'
  BY <1>1 DEF LocalInv, Finish, Busy
<1>3. StepInv' /\ CallInv'
  BY DEF StepInv, CallInv, Finish, Busy
<1> QED  BY <1>2, <1>3 DEF TInv

LEMMA FailType ==
    ASSUME NEW also, Fail(also), TInv, DiskInv', last' = last
    PROVE  TInv'
<1>1. CASE first = 0
  <2>1. Finish
    BY <1>1 DEF Fail
  <2> QED  BY <2>1, FinishType DEF TInv, LocalInv
<1>2. CASE first # 0
  <2>1. /\ pc' = "undo" /\ old' = first /\ first' = 0 /\ call' = NoCall
        /\ prev' = prev /\ at' = at /\ k' = k
    BY <1>2 DEF Fail
  <2>2. 0 \in Link \ {Root}
    BY SizesOK DEF Link
  <2>3. LocalInv'
    BY <2>1, <2>2 DEF LocalInv, TInv, Busy
  <2>4. StepInv' /\ CallInv'
    BY <1>2, <2>1 DEF StepInv, CallInv, Busy
  <2> QED  BY <2>3, <2>4 DEF TInv
<1> QED  BY <1>1, <1>2

LEMMA InitType == Init => TInv
<1> SUFFICES ASSUME Init PROVE TInv
  OBVIOUS
<1>1. DirType
  BY BlankClusters, Zenon DEF Init, DirType
<1>2. DiskInv
  <2>1. 0 \in 0 .. MaxCluster /\ EOF # 0 /\ Root \in Cluster
    BY SizesOK
  <2> QED  BY <1>1, <2>1 DEF DiskInv, Init, Nothing
<1>3. 0 \in Link \ {Root} /\ 0 \in 0 .. Slots /\ 0 \in Link /\ 0 \in 0 .. Slots + MaxCluster
      /\ 2 \in 2 .. MaxCluster
  BY SizesOK DEF Link
<1>4. LocalInv
  BY <1>3 DEF LocalInv, Init, Busy
<1>5. StepInv /\ CallInv
  BY DEF StepInv, CallInv, Init, Busy
<1> QED  BY <1>2, <1>4, <1>5 DEF TInv

(* A call begins, with entry j of its directory or none. *)
LEMMA BeginCall ==
    ASSUME TInv, NEW op \in {"write", "mkdir", "delete"}, NEW d \in Parents, NEW n \in Names,
           NEW len \in Nat, NEW j \in Nat,
           j # 0 => j \in 1 .. Len(Entries(d)) /\ IsEntry(Entries(d)[j]),
           op = "mkdir" => j = 0 /\ len # 0,
           op = "delete" => j # 0 /\ k' \in 1 .. Place(d, j)[2],
           op # "delete" => k' = 0,
           Begin(op, d, n, len, j)
    PROVE  TInv'
<1> DEFINE c == IF j = 0 THEN 0 ELSE Entries(d)[j].first
<1>1. FatType /\ DirType /\ d \in Cluster /\ d \in Link
  BY FatTypes, ParentsAre DEF TInv, DiskInv, Link
<1>2. j # 0 => /\ c \in Link \ {Root}
               /\ Place(d, j)[1] \in Cluster /\ Place(d, j)[2] \in 1 .. Slots
  BY <1>1, EntryPlace, EntryIs
<1>3. c \in Link \ {Root} /\ (c # 0 => j # 0)
  BY <1>2, SizesOK DEF Link
<1>4. /\ pc = "none"
      /\ call' = [op |-> op, dir |-> d, name |-> n, size |-> len, hit |-> j # 0, chain |-> c,
                  full |-> \E x \in Range(Entries(c)) : IsEntry(x)]
      /\ at' = IF j = 0 THEN <<0, 0>> ELSE Place(d, j)
      /\ old' = c
      /\ pc' = IF c # 0 THEN "free" ELSE IF op = "delete" THEN "erase"
               ELSE IF len > 0 THEN "alloc" ELSE "entry"
      /\ fat' = fat /\ data' = data /\ dir' = dir /\ last' = last
      /\ first' = first /\ prev' = prev
  BY DEF Begin, disk
<1>5. first = 0 /\ prev = 0
  BY <1>4 DEF TInv, StepInv
<1> DEFINE full == \E x \in Range(Entries(c)) : IsEntry(x)
<1> HIDE DEF c, full
<1>6. call' \in CallSet /\ call'.op = op /\ call'.hit = (j # 0) /\ call'.chain = c
      /\ call'.size = len
  <2>1. full \in BOOLEAN /\ (j # 0) \in BOOLEAN
    BY DEF full
  <2>2. call' = [op |-> op, dir |-> d, name |-> n, size |-> len, hit |-> j # 0, chain |-> c,
                 full |-> full]
    BY <1>4 DEF full
  <2> QED  BY <1>1, <1>3, <2>1, <2>2 DEF CallSet
<1>7. at' \in Link \X (0 .. Slots) /\ (j # 0 => at' = Place(d, j))
  <2>1. \A x \in 1 .. Slots : x \in 0 .. Slots
    BY SizesOK
  <2>2. Place(d, j) = <<Place(d, j)[1], Place(d, j)[2]>>
    BY DEF Place
  <2>3. CASE j = 0
    BY <1>4, <2>3, SizesOK DEF Link
  <2>4. CASE j # 0
    BY <1>2, <1>4, <2>1, <2>2, <2>4 DEF Link
  <2> QED  BY <2>3, <2>4
<1>8. k' \in 0 .. Slots + MaxCluster
  <2>1. CASE op = "delete"
    BY <1>2, <2>1, SizesOK
  <2>2. CASE op # "delete"
    BY <2>2, SizesOK
  <2> QED  BY <2>1, <2>2
<1>9. DiskInv'
  BY <1>4 DEF TInv, DiskInv, DirType
<1>10. pc' \in Busy
  BY <1>4 DEF Busy
<1>11. LocalInv'
  BY <1>3, <1>4, <1>6, <1>7, <1>8, <1>10 DEF LocalInv, TInv
<1>12. StepInv'
  BY <1>4, <1>5 DEF StepInv
<1>13. CallInv'
  <2>1. j # 0 => at'[1] \in Cluster /\ at'[2] \in 1 .. Slots
    BY <1>2, <1>7
  <2>2. op = "delete" => j # 0 /\ pc' \in {"free", "erase"} /\ k' \in 1 .. at'[2]
    BY <1>4, <1>7
  <2>3. op = "mkdir" => j = 0 /\ len # 0 /\ pc' = "alloc"
    BY <1>3, <1>4
  <2>4. pc' \in {"free", "alloc", "erase", "entry"} /\ (pc' = "free" => c # 0)
        /\ (pc' = "erase" => op = "delete")
    BY <1>4
  <2> QED  BY <1>3, <1>6, <2>1, <2>2, <2>3, <2>4 DEF CallInv
<1> QED  BY <1>9, <1>11, <1>12, <1>13 DEF TInv

(* What the three ways of looking a name up find. *)
LEMMA Found ==
    ASSUME FatType, DirType, NEW d \in Link, NEW n
    PROVE  /\ WriteFinds(d, n) \in Nat /\ DeleteFinds(d, n) \in Nat
           /\ WriteFinds(d, n) # 0 => LET j == WriteFinds(d, n)
                                      IN  j \in 1 .. Len(Entries(d)) /\ IsEntry(Entries(d)[j])
                                          /\ Entries(d)[j].name = Short[n]
           /\ DeleteFinds(d, n) # 0 => LET j == DeleteFinds(d, n)
                                       IN  /\ j \in 1 .. Len(Entries(d)) /\ IsEntry(Entries(d)[j])
                                           /\ \/ n \in LongName(Entries(d), j)
                                              \/ n \notin Long /\ Entries(d)[j].name = Short[n]
<1> DEFINE es == Entries(d)
           ws == {j \in 1 .. Len(es) : IsEntry(es[j]) /\ es[j].name = Short[n]}
           ds == {j \in 1 .. Len(es) : /\ IsEntry(es[j])
                                       /\ \/ n \in LongName(es, j)
                                          \/ n \notin Long /\ es[j].name = Short[n]}
<1>1. ws \in SUBSET (Nat \ {0}) /\ ds \in SUBSET (Nat \ {0}) /\ 0 \in Nat
  OBVIOUS
<1>2. WriteFinds(d, n) = First(ws) /\ DeleteFinds(d, n) = First(ds)
  BY DEF WriteFinds, DeleteFinds
<1>3. First(ws) # 0 => First(ws) \in ws
  BY <1>1, FirstIs
<1>4. First(ds) # 0 => First(ds) \in ds
  BY <1>1, FirstIs
<1>5. First(ws) \in Nat /\ First(ds) \in Nat
  BY <1>1, <1>3, <1>4
<1> QED  BY <1>2, <1>3, <1>4, <1>5

(* The long name before an entry is in the entry's cluster. *)
LEMMA LongBefore ==
    ASSUME FatType, DirType, NEW d \in Link, NEW j \in 1 .. Len(Entries(d)),
           LongName(Entries(d), j) # {}
    PROVE  /\ j - 1 \in 1 .. Len(Entries(d)) /\ Entries(d)[j - 1].kind = "long"
           /\ Place(d, j - 1)[1] = Place(d, j)[1] /\ Place(d, j - 1)[2] + 1 = Place(d, j)[2]
           /\ Place(d, j - 1)[2] \in 1 .. Slots
<1>1. j > 1 /\ Entries(d)[j - 1].kind = "long"
  BY DEF LongName
<1>2. j - 1 \in 1 .. Len(Entries(d)) /\ j \in Nat
  BY <1>1, EntriesAre
<1> DEFINE q == (j - 2) \div Slots
           r == (j - 2) % Slots
<1>3. Slots \in Nat \ {0} /\ j - 2 \in Nat /\ j - 1 \in Nat /\ j - 1 - 1 = j - 2 /\ Slots > 2
  BY <1>1, <1>2, SizesOK
<1>4. Place(d, j - 1) = <<Chain(d)[q + 1], r + 1>>
  BY <1>3 DEF Place
<1>5. Place(d, j - 1)[1] \in Cluster /\ Place(d, j - 1)[2] \in 1 .. Slots
      /\ Entries(d)[j - 1] = dir[Place(d, j - 1)[1]][Place(d, j - 1)[2]]
  BY <1>2, EntryPlace
<1>6. r + 1 # Slots
  BY <1>1, <1>4, <1>5 DEF DirType
<1>7. q \in Nat /\ r \in 0 .. Slots - 1 /\ j - 2 = Slots * q + r
  BY <1>3, DivMod
<1>8. (j - 1) \div Slots = q /\ (j - 1) % Slots = r + 1
  <2> DEFINE q2 == (j - 1) \div Slots
             r2 == (j - 1) % Slots
  <2>1. q2 \in Nat /\ r2 \in 0 .. Slots - 1 /\ j - 1 = Slots * q2 + r2
    BY <1>3, DivMod
  <2> HIDE DEF q, r, q2, r2
  <2>2. Slots * q \in Nat /\ Slots * q2 \in Nat
    BY <1>3, <1>7, <2>1, Products
  <2>3. r + 1 \in 0 .. Slots - 1 /\ Slots * q + (r + 1) = Slots * q2 + r2
    BY <1>2, <1>3, <1>6, <1>7, <2>1, <2>2
  <2>4. q < q2 => Slots * q + Slots <= Slots * q2
    BY <1>3, <1>7, <2>1, Products
  <2>5. q2 < q => Slots * q2 + Slots <= Slots * q
    BY <1>3, <1>7, <2>1, Products
  <2>6. ~(q < q2) /\ ~(q2 < q)
    BY <1>3, <1>7, <2>1, <2>2, <2>3, <2>4, <2>5
  <2>7. q = q2
    BY <1>7, <2>1, <2>6
  <2>8. r2 = r + 1
    BY <1>7, <2>1, <2>2, <2>3, <2>7
  <2> QED  BY <2>7, <2>8 DEF q, r, q2, r2
<1>9. Place(d, j) = <<Chain(d)[q + 1], r + 1 + 1>>
  BY <1>8 DEF Place
<1> QED  BY <1>1, <1>2, <1>4, <1>5, <1>9

LEMMA ChainNotEmpty ==
    FatType => \A x \in Link : x # 0 => Len(Chain(x)) >= 1 /\ Len(Chain(x)) \in Nat
BY ChainIs

LEMMA WriteFileType ==
    ASSUME TInv, NEW d \in Parents, NEW n \in Names, NEW len \in Lengths, WriteFile(d, n, len)
    PROVE  TInv'
<1> DEFINE j == WriteFinds(d, n)
<1>1. FatType /\ DirType /\ d \in Link /\ len \in Nat
  BY FatTypes, ParentsAre, FatAssumption DEF TInv, DiskInv, Link
<1>2. j \in Nat /\ (j # 0 => j \in 1 .. Len(Entries(d)) /\ IsEntry(Entries(d)[j]))
  BY <1>1, Found
<1>3. k' = 0 /\ Begin("write", d, n, len, j)
  BY DEF WriteFile
<1> HIDE DEF j
<1> QED  BY <1>1, <1>2, <1>3, BeginCall

LEMMA CreateDirectoryType ==
    ASSUME TInv, NEW n \in Names, CreateDirectory(n)
    PROVE  TInv'
<1>1. k' = 0 /\ Begin("mkdir", Root, n, 1, 0)
  BY DEF CreateDirectory
<1>2. Root \in Parents
  BY DEF Parents
<1> QED  BY <1>1, <1>2, BeginCall

LEMMA DeleteFileType ==
    ASSUME TInv, NEW d \in Parents, NEW n \in Names, DeleteFile(d, n)
    PROVE  TInv'
<1> DEFINE j == DeleteFinds(d, n)
<1>1. FatType /\ DirType /\ d \in Link
  BY FatTypes, ParentsAre DEF TInv, DiskInv, Link
<1>2. j \in Nat /\ j # 0 /\ j \in 1 .. Len(Entries(d)) /\ IsEntry(Entries(d)[j])
  BY <1>1, Found DEF DeleteFile
<1>3. k' = Place(d, EraseFrom(d, j))[2] /\ Begin("delete", d, n, 0, j)
  BY DEF DeleteFile
<1> HIDE DEF j
<1>4. Place(d, j)[2] \in 1 .. Slots
  BY <1>1, <1>2, EntryPlace
<1>5. k' \in 1 .. Place(d, j)[2]
  <2>1. CASE LongName(Entries(d), j) = {}
    BY <1>3, <1>4, <2>1 DEF EraseFrom
  <2>2. CASE LongName(Entries(d), j) # {}
    <3>1. Place(d, j - 1)[2] + 1 = Place(d, j)[2] /\ Place(d, j - 1)[2] \in 1 .. Slots
      BY <1>1, <1>2, <2>2, LongBefore
    <3>2. k' = Place(d, j - 1)[2]
      BY <1>3, <2>2 DEF EraseFrom
    <3> QED  BY <1>4, <3>1, <3>2
  <2> QED  BY <2>1, <2>2
<1> QED  BY <1>2, <1>3, <1>5, BeginCall

LEMMA FreeChainStepType ==
    ASSUME TInv, NEW bad \in BOOLEAN, FreeChainStep(bad)
    PROVE  TInv'
<1>1. /\ pc \in {"free", "undo"} /\ old # 0 /\ old \in Cluster \ {Root}
      /\ first = 0 /\ last' = last
  BY DEF FreeChainStep, TInv, LocalInv, StepInv, Link
<1>2. /\ fat' = IF bad THEN fat ELSE [fat EXCEPT ![old] = 0]
      /\ data' = [data EXCEPT ![old] = Nothing] /\ dir' = [dir EXCEPT ![old] = Junk]
      /\ old' = NextCluster(old)
  BY DEF FreeChainStep, SetFat
<1>3. DiskInv'
  <2>1. fat' \in [Cluster -> {0, EOF} \cup (Cluster \ {Root})] /\ fat'[Root] # 0
    BY <1>1, <1>2, SizesOK DEF TInv, DiskInv
  <2>2. DirType'
    BY <1>2, BlankClusters, ClusterWritten DEF TInv, DiskInv
  <2>3. Nothing \in (Names \cup {""}) \X (0 .. MaxCluster)
    <3>1. 0 \in 0 .. MaxCluster /\ "" \in Names \cup {""}
      BY SizesOK
    <3> QED  BY <3>1 DEF Nothing
  <2>4. data' \in [Cluster -> (Names \cup {""}) \X (0 .. MaxCluster)]
    BY <1>2, <2>3 DEF TInv, DiskInv
  <2> QED  BY <2>1, <2>2, <2>4 DEF DiskInv
<1>4. old' \in Link \ {Root}
  BY <1>1, <1>2, SizesOK DEF NextCluster, TInv, DiskInv, Link
<1>5. CASE old' # 0
  <2>1. pc' = pc /\ call' = call /\ first' = first /\ prev' = prev /\ at' = at /\ k' = k
    BY <1>5 DEF FreeChainStep
  <2>2. LocalInv'
    BY <1>1, <1>4, <2>1 DEF LocalInv, TInv
  <2>3. StepInv'
    BY <1>1, <1>5, <2>1 DEF StepInv
  <2>4. CallInv'
    BY <1>1, <2>1 DEF CallInv, TInv
  <2> QED  BY <1>3, <2>2, <2>3, <2>4 DEF TInv
<1>6. CASE old' = 0 /\ pc = "undo"
  <2>1. Finish
    BY <1>6 DEF FreeChainStep, Finish
  <2> QED  BY <1>1, <1>3, <2>1, FinishType DEF TInv, LocalInv
<1>7. CASE old' = 0 /\ pc = "free"
  <2>1. /\ pc' = IF call.op = "delete" THEN "erase"
                 ELSE IF call.size > 0 THEN "alloc" ELSE "entry"
        /\ call' = call /\ first' = first /\ prev' = prev /\ at' = at /\ k' = k
    BY <1>7 DEF FreeChainStep
  <2>2. pc \in Busy /\ pc' \in Busy /\ call \in CallSet
    BY <1>7, <2>1 DEF Busy, TInv, LocalInv
  <2>3. LocalInv'
    BY <1>1, <1>4, <2>1, <2>2 DEF LocalInv, TInv
  <2>4. StepInv'
    BY <1>1, <2>1 DEF StepInv
  <2>5. CallInv
    BY DEF TInv
  <2>6. call.chain # 0 /\ call.hit /\ (call.op = "delete" => k \in 1 .. at[2])
        /\ at[1] \in Cluster /\ at[2] \in 1 .. Slots /\ call.op # "mkdir"
    BY <1>7, <2>2, <2>5 DEF CallInv
  <2>7. /\ pc' \in {"erase", "alloc", "entry"} /\ (pc' = "erase" => call.op = "delete")
        /\ (call.op = "delete" => pc' = "erase")
    BY <2>1
  <2>8. CallInv'
    BY <2>1, <2>6, <2>7 DEF CallInv
  <2> QED  BY <1>3, <2>3, <2>4, <2>8 DEF TInv
<1> QED  BY <1>1, <1>5, <1>6, <1>7

LEMMA AllocateType ==
    ASSUME TInv, NEW bad \in BOOLEAN, Allocate(bad)
    PROVE  TInv'
<1> DEFINE c == FreeCluster
<1>1. pc = "alloc" /\ data' = data /\ dir' = dir /\ pc \in Busy /\ call \in CallSet
  BY DEF Allocate, Busy, TInv, LocalInv
<1>2. CASE bad \/ c = 0
  <2>1. Fail({}) /\ fat' = fat /\ last' = last
    BY <1>2 DEF Allocate
  <2>2. DiskInv'
    BY <1>1, <2>1 DEF DiskInv, TInv, DirType
  <2> QED  BY <2>1, <2>2, FailType
<1>3. CASE ~(bad \/ c = 0)
  <2>1. /\ fat' = [fat EXCEPT ![c] = EOF] /\ last' = c + 1 /\ call' = call /\ at' = at
        /\ IF first = 0
           THEN /\ first' = c /\ prev' = c /\ k' = 1
                /\ pc' = IF call.size = 1 THEN "data" ELSE "alloc"
                /\ old' = old
           ELSE pc' = "link" /\ old' = c /\ first' = first /\ prev' = prev /\ k' = k
    BY <1>3 DEF Allocate, SetFat
  <2>2. /\ c \in Cluster \ {Root} /\ fat[c] = 0 /\ c \in Link \ {Root} /\ c # 0
        /\ c + 1 \in 2 .. MaxCluster
    BY <1>3, AllocCluster DEF TInv
  <2> HIDE DEF c
  <2>3. DiskInv'
    BY <1>1, <2>1, <2>2, SizesOK DEF TInv, DiskInv, DirType
  <2>4. Cardinality(NonFree') = Cardinality(NonFree) + 1 /\ Cardinality(NonFree) \in Nat
    <3>1. DiskInv /\ EOF # 0
      BY SizesOK DEF TInv
    <3>2. Cardinality(NonFree') = Cardinality(NonFree) + 1
      BY <2>1, <2>2, <3>1, OneMoreCounted
    <3>3. Cardinality(NonFree) \in Nat
      BY NonFreeCounted, FS_CardinalityType
    <3> QED  BY <3>2, <3>3
  <2>5. 1 \in 0 .. Slots + MaxCluster /\ pc' \in Busy
    BY <2>1, SizesOK DEF Busy
  <2>6. LocalInv'
    BY <1>1, <2>1, <2>2, <2>5 DEF TInv, LocalInv
  <2>7. CallInv'
    <3>1. pc' \in {"data", "alloc", "link"} /\ first' # 0
      BY <2>1, <2>2
    <3>2. call.op # "delete" /\ (call.hit => at[1] \in Cluster /\ at[2] \in 1 .. Slots)
          /\ (call.chain # 0 => call.hit) /\ (call.op = "mkdir" => ~call.hit /\ call.size # 0)
      BY <1>1 DEF TInv, CallInv
    <3> QED  BY <2>1, <3>1, <3>2 DEF CallInv
  <2>8. StepInv'
    <3>1. CASE first = 0
      <4>1. Root \in NonFree /\ NonFree' = NonFree \cup {c}
        BY <2>1, <2>2, SizesOK DEF NonFree, TInv, DiskInv
      <4>2. Cardinality(NonFree) # 0
        BY <4>1, NonFreeCounted, FS_EmptySet
      <4>3. 1 + 1 <= Cardinality(NonFree')
        BY <2>4, <4>2
      <4>4. pc' = "data" => 1 \in 1 .. Len(Chain(first)')
        <5>1. c \in Link' /\ FatType'
          BY <2>2, <2>3 DEF Link, DiskInv, FatType
        <5>2. (FatType => \A x \in Link : x # 0 => Len(Chain(x)) >= 1 /\ Len(Chain(x)) \in Nat)'
          BY ChainNotEmpty, PTL
        <5>3. first' \in Link' /\ first' # 0
          BY <2>1, <2>2, <3>1, <5>1
        <5>4. Len(Chain(first)') >= 1 /\ Len(Chain(first)') \in Nat
          BY <5>1, <5>2, <5>3
        <5> QED  BY <5>4
      <4> QED  BY <2>1, <2>2, <3>1, <4>3, <4>4 DEF StepInv
    <3>2. CASE first # 0
      <4>1. prev # 0 /\ k + 1 <= Cardinality(NonFree) /\ k \in Nat
        BY <1>1, <3>2, SizesOK DEF TInv, StepInv, LocalInv
      <4>2. k + 2 <= Cardinality(NonFree')
        BY <2>4, <4>1
      <4> QED  BY <2>1, <2>2, <3>2, <4>1, <4>2 DEF StepInv
    <3> QED  BY <3>1, <3>2
  <2> QED  BY <2>3, <2>6, <2>7, <2>8 DEF TInv
<1> QED  BY <1>2, <1>3

LEMMA LinkClusterType ==
    ASSUME TInv, NEW bad \in BOOLEAN, LinkCluster(bad)
    PROVE  TInv'
<1>1. /\ pc = "link" /\ data' = data /\ dir' = dir /\ last' = last /\ call' = call
      /\ first' = first /\ old' = old /\ at' = at /\ prev' = old
      /\ fat' = IF bad THEN fat ELSE [fat EXCEPT ![prev] = old]
      /\ IF k + 1 = call.size THEN pc' = "data" /\ k' = 1 ELSE pc' = "alloc" /\ k' = k + 1
  BY DEF LinkCluster, SetFat
<1>2. /\ old # 0 /\ prev # 0 /\ first # 0 /\ k + 2 <= Cardinality(NonFree) /\ k \in Nat
      /\ old \in Cluster \ {Root} /\ prev \in Cluster \ {Root} /\ first \in Link
  BY <1>1, SizesOK DEF TInv, LocalInv, StepInv, Link
<1>3. DiskInv'
  BY <1>1, <1>2, SizesOK DEF TInv, DiskInv, DirType
<1>4. /\ Cardinality(NonFree') >= Cardinality(NonFree) /\ Cardinality(NonFree') \in Nat
      /\ Cardinality(NonFree) \in 0 .. MaxCluster - 2
  <2>1. CASE bad
    <3>1. NonFree' = NonFree
      BY <1>1, <2>1 DEF NonFree
    <3>2. Cardinality(NonFree) \in Nat
      BY NonFreeCounted, FS_CardinalityType
    <3> QED  BY <3>1, <3>2, NonFreeCounted
  <2>2. CASE ~bad
    BY <1>1, <1>2, <2>2, NonFreeCounted, LinkCounted DEF TInv
  <2> QED  BY <2>1, <2>2
<1>5. k + 1 + 1 <= Cardinality(NonFree') /\ k + 1 \in 0 .. Slots + MaxCluster
      /\ 1 \in 0 .. Slots + MaxCluster
  BY <1>2, <1>4, SizesOK
<1>6. pc \in Busy /\ pc' \in Busy /\ pc' \in {"data", "alloc"} /\ call \in CallSet
  BY <1>1 DEF Busy, TInv, LocalInv
<1>7. LocalInv'
  BY <1>1, <1>2, <1>5, <1>6 DEF TInv, LocalInv
<1>8. CallInv'
  <2>1. call.op # "delete" /\ (call.hit => at[1] \in Cluster /\ at[2] \in 1 .. Slots)
        /\ (call.chain # 0 => call.hit) /\ (call.op = "mkdir" => ~call.hit /\ call.size # 0)
    BY <1>1, <1>6 DEF TInv, CallInv
  <2> QED  BY <1>1, <1>2, <1>6, <2>1 DEF CallInv
<1>9. pc' = "data" => 1 \in 1 .. Len(Chain(first)')
  <2>1. FatType' /\ first' \in Link' /\ first' # 0
    BY <1>1, <1>2, <1>3 DEF Link, DiskInv, FatType
  <2>2. (FatType => \A x \in Link : x # 0 => Len(Chain(x)) >= 1 /\ Len(Chain(x)) \in Nat)'
    BY ChainNotEmpty, PTL
  <2>3. Len(Chain(first)') >= 1 /\ Len(Chain(first)') \in Nat
    BY <2>1, <2>2
  <2> QED  BY <2>3
<1>10. StepInv'
  BY <1>1, <1>2, <1>5, <1>6, <1>9 DEF StepInv
<1> QED  BY <1>3, <1>7, <1>8, <1>10 DEF TInv

LEMMA SameChain == fat' = fat => \A c : Chain(c)' = Chain(c)
BY DEF Chain, Walk, NextCluster

LEMMA WriteClusterType ==
    ASSUME TInv, NEW bad \in BOOLEAN, WriteCluster(bad)
    PROVE  TInv'
<1>1. /\ pc = "data" /\ fat' = fat /\ last' = last /\ pc \in Busy /\ call \in CallSet
      /\ first # 0 /\ k \in 1 .. Len(Chain(first)) /\ first \in Link
  BY DEF WriteCluster, Busy, TInv, LocalInv, StepInv
<1>2. CASE bad
  <2>1. Fail({}) /\ data' = data /\ dir' = dir
    BY <1>2 DEF WriteCluster
  <2>2. DiskInv'
    BY <1>1, <2>1 DEF DiskInv, TInv, DirType
  <2> QED  BY <1>1, <2>1, <2>2, FailType
<1>3. CASE ~bad
  <2> DEFINE c == Chain(first)[k]
             new == [Idle EXCEPT ![1] = Dots, ![2] = Dots]
             f == IF call.op = "mkdir" THEN new ELSE Junk
  <2>1. /\ data' = [data EXCEPT ![c] = <<call.name, k>>]
        /\ dir' = [dir EXCEPT ![c] = f]
        /\ IF k < Min({call.size, Len(Chain(first))})
           THEN k' = k + 1 /\ pc' = pc
           ELSE pc' = "entry" /\ k' = k
        /\ call' = call /\ first' = first /\ prev' = prev /\ old' = old /\ at' = at
    BY <1>3 DEF WriteCluster
  <2>2. Len(Chain(first)) \in 0 .. MaxCluster - 2 /\ call.size \in Nat
    BY <1>1, FatTypes, ChainIs DEF TInv, CallSet
  <2>3. Min({call.size, Len(Chain(first))}) <= Len(Chain(first))
        /\ Min({call.size, Len(Chain(first))}) \in Nat
    <3>1. {call.size, Len(Chain(first))} \in SUBSET Nat
      BY <2>2
    <3> QED  BY <3>1, MinIs
  <2>4. k' \in 1 .. Len(Chain(first)) /\ k' \in 0 .. Slots + MaxCluster
        /\ k \in 0 .. MaxCluster
    BY <1>1, <2>1, <2>2, <2>3, SizesOK
  <2>5. DiskInv'
    <3>1. f \in [1 .. Slots -> EntrySet] /\ f[Slots].kind # "long"
      BY BlankClusters
    <3> HIDE DEF f, c
    <3>2. DirType'
      BY <2>1, <3>1, ClusterWritten DEF TInv, DiskInv
    <3>3. <<call.name, k>> \in (Names \cup {""}) \X (0 .. MaxCluster)
      BY <1>1, <2>4 DEF CallSet
    <3>4. data' \in [Cluster -> (Names \cup {""}) \X (0 .. MaxCluster)]
      BY <2>1, <3>3 DEF TInv, DiskInv
    <3> QED  BY <1>1, <3>2, <3>4 DEF TInv, DiskInv
  <2>6. pc' \in {"data", "entry"} /\ pc' \in Busy
    BY <1>1, <2>1 DEF Busy
  <2>7. LocalInv'
    BY <1>1, <2>1, <2>4, <2>6 DEF TInv, LocalInv
  <2>8. StepInv'
    <3>1. Chain(first)' = Chain(first)
      <4>1. Chain(first') = Chain(first)
        BY <2>1
      <4>2. Chain(first)' = Chain(first')
        BY <1>1 DEF Chain, Walk, NextCluster
      <4> QED  BY <4>1, <4>2
    <3> QED  BY <1>1, <2>1, <2>4, <2>6, <3>1 DEF StepInv
  <2>9. CallInv'
    <3>1. call.op # "delete" /\ (call.hit => at[1] \in Cluster /\ at[2] \in 1 .. Slots)
          /\ (call.chain # 0 => call.hit) /\ (call.op = "mkdir" => ~call.hit /\ call.size # 0)
      BY <1>1 DEF TInv, CallInv
    <3> QED  BY <1>1, <2>1, <2>6, <3>1 DEF CallInv
  <2> QED  BY <2>5, <2>7, <2>8, <2>9 DEF TInv
<1> QED  BY <1>2, <1>3

LEMMA UpdateEntryType ==
    ASSUME TInv, NEW bad \in BOOLEAN, UpdateEntry(bad)
    PROVE  TInv'
<1>1. /\ pc = "entry" /\ call.hit /\ fat' = fat /\ data' = data /\ last' = last
      /\ dir' = IF bad THEN dir ELSE [dir EXCEPT ![at[1]][at[2]] = NewEntry]
      /\ pc \in Busy /\ call \in CallSet
  BY DEF UpdateEntry, SetEntry, Busy, TInv, LocalInv
<1>2. at[1] \in Cluster /\ at[2] \in 1 .. Slots /\ call.op # "mkdir"
  BY <1>1 DEF TInv, CallInv
<1>3. NewEntry \in EntrySet /\ NewEntry.kind # "long"
  BY <1>1, <1>2, NewEntryIs DEF TInv, LocalInv
<1>4. DirType'
  <2>1. CASE bad
    BY <1>1, <2>1 DEF TInv, DiskInv, DirType
  <2>2. CASE ~bad
    BY <1>1, <1>2, <1>3, <2>2, SlotWritten DEF TInv, DiskInv
  <2> QED  BY <2>1, <2>2
<1>5. DiskInv'
  BY <1>1, <1>4 DEF TInv, DiskInv
<1>6. CASE bad
  <2>1. Fail({})
    BY <1>6 DEF UpdateEntry
  <2> QED  BY <1>1, <1>5, <2>1, FailType
<1>7. CASE ~bad
  <2>1. Finish
    BY <1>7 DEF UpdateEntry
  <2> QED  BY <1>1, <1>5, <2>1, FinishType DEF TInv, LocalInv
<1> QED  BY <1>6, <1>7

LEMMA SlotsForIs == \A n : SlotsFor(n) \in {1, 2}
BY DEF SlotsFor

LEMMA FindRoomType ==
    ASSUME TInv, FindRoom
    PROVE  TInv'
<1> DEFINE n == SlotsFor(call.name)
<1>1. /\ pc = "entry" /\ ~call.hit /\ at' = FreeSlots(call.dir, n) /\ k' = 1
      /\ pc' = IF at' = <<0, 0>> THEN "expand" ELSE "slots"
      /\ fat' = fat /\ data' = data /\ dir' = dir /\ last' = last /\ call' = call
      /\ first' = first /\ prev' = prev /\ old' = old
      /\ pc \in Busy /\ call \in CallSet
  BY DEF FindRoom, disk, Busy, TInv, LocalInv
<1>2. FatType /\ DirType /\ call.dir \in Link /\ n \in {1, 2}
  BY <1>1, FatTypes, SlotsForIs DEF TInv, DiskInv, CallSet, Link
<1> HIDE DEF n
<1>3. at' # <<0, 0>> => at'[1] \in Cluster /\ at'[2] \in 1 .. Slots /\ at'[2] + n - 1 <= Slots
                        /\ at' = <<at'[1], at'[2]>>
  <2> SUFFICES ASSUME at' # <<0, 0>>
               PROVE  at'[1] \in Cluster /\ at'[2] \in 1 .. Slots /\ at'[2] + n - 1 <= Slots
                      /\ at' = <<at'[1], at'[2]>>
    OBVIOUS
  <2>1. PICK c \in Cluster : at' = <<c, RoomIn(c, n)>> /\ RoomIn(c, n) # 0
    BY <1>1, <1>2, FreeSlotsIs
  <2>2. RoomIn(c, n) \in 1 .. Slots /\ RoomIn(c, n) + n - 1 <= Slots
    BY <1>2, <2>1, RoomIs
  <2> QED  BY <2>1, <2>2
<1>4. at' \in Link \X (0 .. Slots)
  <2>1. CASE at' = <<0, 0>>
    BY <2>1, SizesOK DEF Link
  <2>2. CASE at' # <<0, 0>>
    <3>1. at'[1] \in Link /\ at'[2] \in 0 .. Slots
      BY <1>3, <2>2, SizesOK DEF Link
    <3> QED  BY <1>3, <2>2, <3>1
  <2> QED  BY <2>1, <2>2
<1>5. pc' \in {"expand", "slots"} /\ pc' \in Busy /\ 1 \in 0 .. Slots + MaxCluster
      /\ 1 \in 1 .. n
  BY <1>1, <1>2, SizesOK DEF Busy
<1>6. DiskInv'
  BY <1>1 DEF TInv, DiskInv, DirType
<1>7. LocalInv'
  BY <1>1, <1>4, <1>5 DEF TInv, LocalInv
<1>8. StepInv'
  BY <1>1, <1>5 DEF TInv, StepInv
<1>9. CallInv'
  <2>1. call.op # "delete" /\ call.chain = 0
        /\ (call.op = "mkdir" => ~call.hit /\ call.size # 0 /\ first # 0)
    BY <1>1 DEF TInv, CallInv
  <2>2. pc' = "slots" => at' # <<0, 0>>
    BY <1>1
  <2> QED  BY <1>1, <1>3, <1>5, <2>1, <2>2 DEF CallInv, n
<1> QED  BY <1>6, <1>7, <1>8, <1>9 DEF TInv

LEMMA ExpandType ==
    ASSUME TInv, NEW bad \in BOOLEAN, Expand(bad)
    PROVE  TInv'
<1> DEFINE c == FreeCluster
<1>1. pc = "expand" /\ data' = data /\ dir' = dir /\ pc \in Busy /\ call \in CallSet
  BY DEF Expand, Busy, TInv, LocalInv
<1>2. CASE bad \/ c = 0
  <2>1. Fail({}) /\ fat' = fat /\ last' = last
    BY <1>2 DEF Expand
  <2>2. DiskInv'
    BY <1>1, <2>1 DEF DiskInv, TInv, DirType
  <2> QED  BY <2>1, <2>2, FailType
<1>3. CASE ~(bad \/ c = 0)
  <2>1. /\ fat' = [fat EXCEPT ![c] = EOF] /\ last' = c + 1 /\ old' = c /\ pc' = "tail"
        /\ call' = call /\ first' = first /\ prev' = prev /\ at' = at /\ k' = k
    BY <1>3 DEF Expand, SetFat
  <2>2. /\ c \in Cluster \ {Root} /\ fat[c] = 0 /\ c \in Link \ {Root} /\ c # 0
        /\ c + 1 \in 2 .. MaxCluster
    BY <1>3, AllocCluster DEF TInv
  <2> HIDE DEF c
  <2>3. DiskInv'
    BY <1>1, <2>1, <2>2, SizesOK DEF TInv, DiskInv, DirType
  <2>4. pc' \in Busy
    BY <2>1 DEF Busy
  <2>5. LocalInv'
    BY <1>1, <2>1, <2>2, <2>4 DEF TInv, LocalInv
  <2>6. StepInv'
    BY <2>1, <2>2 DEF StepInv
  <2>7. CallInv'
    BY <1>1, <2>1, <2>4 DEF TInv, CallInv
  <2> QED  BY <2>3, <2>5, <2>6, <2>7 DEF TInv
<1> QED  BY <1>2, <1>3

LEMMA LinkTailType ==
    ASSUME TInv, NEW bad \in BOOLEAN, LinkTail(bad)
    PROVE  TInv'
<1> DEFINE c == Last(Chain(call.dir))
<1>1. /\ pc = "tail" /\ pc' = "zero" /\ fat' = IF bad THEN fat ELSE [fat EXCEPT ![c] = old]
      /\ data' = data /\ dir' = dir /\ last' = last /\ call' = call /\ first' = first
      /\ prev' = prev /\ old' = old /\ at' = at /\ k' = k
      /\ pc \in Busy /\ pc' \in Busy /\ call \in CallSet /\ old # 0 /\ old \in Cluster \ {Root}
  BY DEF LinkTail, SetFat, locals, Busy, TInv, LocalInv, StepInv, Link
<1> HIDE DEF c
<1>2. DiskInv'
  <2>1. fat' \in [Cluster -> {0, EOF} \cup (Cluster \ {Root})]
    BY <1>1 DEF TInv, DiskInv
  <2>2. fat'[Root] # 0
    BY <1>1, SizesOK DEF TInv, DiskInv
  <2>3. data' \in [Cluster -> (Names \cup {""}) \X (0 .. MaxCluster)] /\ DirType'
    BY <1>1 DEF TInv, DiskInv, DirType
  <2> QED  BY <2>1, <2>2, <2>3 DEF DiskInv
<1>3. LocalInv'
  BY <1>1 DEF TInv, LocalInv
<1>4. StepInv'
  BY <1>1 DEF StepInv
<1>5. CallInv'
  BY <1>1 DEF TInv, CallInv
<1> QED  BY <1>2, <1>3, <1>4, <1>5 DEF TInv

LEMMA ZeroTailType ==
    ASSUME TInv, NEW bad \in BOOLEAN, ZeroTail(bad)
    PROVE  TInv'
<1>1. /\ pc = "zero" /\ pc' = "slots" /\ at' = <<old, 1>>
      /\ dir' = IF bad THEN dir ELSE [dir EXCEPT ![old] = Idle]
      /\ data' = IF bad THEN data ELSE [data EXCEPT ![old] = Nothing]
      /\ fat' = fat /\ last' = last /\ call' = call /\ first' = first
      /\ prev' = prev /\ old' = old /\ k' = k
      /\ pc \in Busy /\ pc' \in Busy /\ call \in CallSet /\ old # 0 /\ old \in Cluster
  BY DEF ZeroTail, Busy, TInv, LocalInv, StepInv, Link
<1>2. DirType'
  <2>1. CASE bad
    BY <1>1, <2>1 DEF TInv, DiskInv, DirType
  <2>2. CASE ~bad
    BY <1>1, <2>2, BlankClusters, ClusterWritten DEF TInv, DiskInv
  <2> QED  BY <2>1, <2>2
<1>3. DiskInv'
  <2>1. 0 \in 0 .. MaxCluster /\ "" \in Names \cup {""}
    BY SizesOK
  <2>2. Nothing \in (Names \cup {""}) \X (0 .. MaxCluster)
    BY <2>1 DEF Nothing
  <2> QED  BY <1>1, <1>2, <2>2 DEF TInv, DiskInv
<1>4. 1 \in 0 .. Slots /\ 1 \in 1 .. Slots /\ old \in Link
      /\ 1 + SlotsFor(call.name) - 1 <= Slots /\ 1 \in 1 .. SlotsFor(call.name)
  <2>1. SlotsFor(call.name) = 1 \/ SlotsFor(call.name) = 2
    BY SlotsForIs
  <2> QED  BY <1>1, <2>1, SizesOK DEF Link
<1>5. LocalInv'
  BY <1>1, <1>4 DEF TInv, LocalInv
<1>6. StepInv'
  BY <1>1 DEF StepInv
<1>7. CallInv'
  <2>1. k = 1 /\ ~call.hit /\ call.chain = 0 /\ call.op # "delete"
        /\ (call.op = "mkdir" => call.size # 0 /\ first # 0)
    BY <1>1 DEF TInv, CallInv
  <2>2. at'[1] = old /\ at'[2] = 1
    BY <1>1
  <2> QED  BY <1>1, <1>4, <2>1, <2>2 DEF CallInv
<1> QED  BY <1>3, <1>5, <1>6, <1>7 DEF TInv

LEMMA WriteSlotType ==
    ASSUME TInv, NEW bad \in BOOLEAN, WriteSlot(bad)
    PROVE  TInv'
<1> DEFINE n == SlotsFor(call.name)
           e == IF k = n THEN NewEntry ELSE LongEntry(call.name)
           i == at[2] + k - 1
<1>1. /\ pc = "slots" /\ fat' = fat /\ data' = data /\ last' = last
      /\ dir' = IF bad THEN dir ELSE [dir EXCEPT ![at[1]][i] = e]
      /\ pc \in Busy /\ call \in CallSet
  BY DEF WriteSlot, SetEntry, Busy, TInv, LocalInv
<1>2. /\ at[1] \in Cluster /\ at[2] \in 1 .. Slots /\ k \in 1 .. n /\ at[2] + n - 1 <= Slots
      /\ ~call.hit /\ call.chain = 0 /\ call.op # "delete"
      /\ (call.op = "mkdir" => call.size # 0 /\ first # 0) /\ first \in Link \ {Root}
  BY <1>1 DEF TInv, CallInv, LocalInv
<1>3. n = 1 \/ n = 2
  BY SlotsForIs
<1>4. i \in 1 .. Slots /\ (k # n => i # Slots) /\ (k # n => k + 1 \in 1 .. n)
  <2> HIDE DEF n
  <2> QED  BY <1>2, <1>3, SizesOK
<1>5. e \in EntrySet /\ (k = n => e.kind # "long")
  <2>1. NewEntry \in EntrySet /\ NewEntry.kind # "long"
    BY <1>1, <1>2, NewEntryIs
  <2>2. LongEntry(call.name) \in EntrySet
    BY <1>1 DEF EntrySet, CallSet
  <2> QED  BY <2>1, <2>2
<1>6. DirType'
  <2>1. CASE bad
    BY <1>1, <2>1 DEF TInv, DiskInv, DirType
  <2>2. CASE ~bad
    <3>1. i = Slots => e.kind # "long"
      BY <1>4, <1>5
    <3>2. dir' = [dir EXCEPT ![at[1]][i] = e] /\ DirType
      BY <1>1, <2>2 DEF TInv, DiskInv
    <3> HIDE DEF e, i
    <3> QED  BY <1>2, <1>4, <1>5, <3>1, <3>2, SlotWritten
  <2> QED  BY <2>1, <2>2
<1> HIDE DEF e, i
<1>7. DiskInv'
  BY <1>1, <1>6 DEF TInv, DiskInv
<1>8. CASE bad
  <2>1. PICK also : Fail(also)
    BY <1>8 DEF WriteSlot
  <2> QED  BY <1>1, <1>7, <2>1, FailType
<1>9. CASE ~bad /\ k = n
  <2>1. Finish
    BY <1>9 DEF WriteSlot
  <2> QED  BY <1>1, <1>7, <2>1, FinishType DEF TInv, LocalInv
<1>10. CASE ~bad /\ k # n
  <2>1. /\ k' = k + 1 /\ pc' = pc /\ call' = call /\ first' = first /\ prev' = prev
        /\ old' = old /\ at' = at
    BY <1>10 DEF WriteSlot
  <2>2. k' \in 1 .. n /\ k' \in 0 .. Slots + MaxCluster
    <3> HIDE DEF n
    <3> QED  BY <1>3, <1>4, <1>10, <2>1, SizesOK
  <2>3. LocalInv'
    BY <1>1, <2>1, <2>2 DEF TInv, LocalInv
  <2>4. StepInv'
    BY <1>1, <2>1 DEF StepInv
  <2>5. CallInv'
    BY <1>1, <1>2, <2>1, <2>2 DEF CallInv
  <2> QED  BY <1>7, <2>3, <2>4, <2>5 DEF TInv
<1> QED  BY <1>8, <1>9, <1>10

LEMMA EraseEntryType ==
    ASSUME TInv, NEW bad \in BOOLEAN, EraseEntry(bad)
    PROVE  TInv'
<1>1. /\ pc = "erase" /\ fat' = fat /\ data' = data /\ last' = last
      /\ dir' = IF bad THEN dir ELSE [dir EXCEPT ![at[1]][k] = Erased]
      /\ pc \in Busy /\ call \in CallSet
  BY DEF EraseEntry, SetEntry, Busy, TInv, LocalInv
<1>2. /\ at[1] \in Cluster /\ at[2] \in 1 .. Slots /\ call.hit /\ call.op = "delete"
      /\ k \in 1 .. at[2] /\ k \in 1 .. Slots
  BY <1>1, SizesOK DEF TInv, CallInv
<1>3. Erased \in EntrySet /\ Erased.kind # "long"
  BY DEF EntrySet, Erased
<1>4. DirType'
  <2>1. CASE bad
    BY <1>1, <2>1 DEF TInv, DiskInv, DirType
  <2>2. CASE ~bad
    BY <1>1, <1>2, <1>3, <2>2, SlotWritten DEF TInv, DiskInv
  <2> QED  BY <2>1, <2>2
<1>5. DiskInv'
  BY <1>1, <1>4 DEF TInv, DiskInv
<1>6. CASE bad
  <2>1. PICK also : Fail(also)
    BY <1>6 DEF EraseEntry
  <2> QED  BY <1>1, <1>5, <2>1, FailType
<1>7. CASE ~bad /\ k = at[2]
  <2>1. Finish
    BY <1>7 DEF EraseEntry
  <2> QED  BY <1>1, <1>5, <2>1, FinishType DEF TInv, LocalInv
<1>8. CASE ~bad /\ k # at[2]
  <2>1. /\ k' = k + 1 /\ pc' = pc /\ call' = call /\ first' = first /\ prev' = prev
        /\ old' = old /\ at' = at
    BY <1>8 DEF EraseEntry
  <2>2. k' \in 1 .. at[2] /\ k' \in 0 .. Slots + MaxCluster
    BY <1>2, <1>8, <2>1, SizesOK
  <2>3. LocalInv'
    BY <1>1, <2>1, <2>2 DEF TInv, LocalInv
  <2>4. StepInv'
    BY <1>1, <2>1 DEF StepInv
  <2>5. CallInv'
    BY <1>1, <1>2, <2>1, <2>2 DEF CallInv, TInv
  <2> QED  BY <1>5, <2>3, <2>4, <2>5 DEF TInv
<1> QED  BY <1>6, <1>7, <1>8

LEMMA PowerOffType ==
    ASSUME TInv, PowerOff
    PROVE  TInv'
<1>1. Finish /\ last' = 2 /\ fat' = fat /\ data' = data /\ dir' = dir
  BY DEF PowerOff, disk
<1>2. DiskInv'
  BY <1>1 DEF TInv, DiskInv, DirType
<1>3. 2 \in 2 .. MaxCluster
  BY SizesOK
<1> QED  BY <1>1, <1>2, <1>3, FinishType

LEMMA StutterType == TInv /\ UNCHANGED vars => TInv'
<1> SUFFICES ASSUME TInv, UNCHANGED vars PROVE TInv'
  OBVIOUS
<1>1. /\ fat' = fat /\ data' = data /\ dir' = dir /\ last' = last /\ pc' = pc /\ call' = call
      /\ first' = first /\ prev' = prev /\ old' = old /\ at' = at /\ k' = k
  BY DEF vars, disk, locals
<1>2. Chain(first)' = Chain(first) /\ NonFree' = NonFree
  BY <1>1 DEF Chain, Walk, NextCluster, NonFree
<1>3. DiskInv' /\ LocalInv' /\ CallInv'
  BY <1>1 DEF TInv, DiskInv, DirType, LocalInv, CallInv
<1>4. StepInv'
  BY <1>1, <1>2 DEF TInv, StepInv
<1> QED  BY <1>3, <1>4 DEF TInv

(* The directories that Fat32OpenPath gets to are directories of the root. *)
LEMMA OpenedAre == FatType /\ DirType => Opened \subseteq Parents
<1> SUFFICES ASSUME FatType, DirType, NEW d \in Opened, d # Root PROVE d \in Parents
  BY DEF Parents
<1>1. PICK n \in Names : /\ OpenFinds(Root, n) # 0
                         /\ Entries(Root)[OpenFinds(Root, n)].kind = "dir"
                         /\ d = Entries(Root)[OpenFinds(Root, n)].first
  BY DEF Opened
<1>2. PICK j : j = OpenFinds(Root, n)
  OBVIOUS
<1>3. j \in 1 .. Len(Entries(Root))
  <2> DEFINE es == Entries(Root)
             Shown(i) == IF LongName(es, i) = {} THEN {es[i].name}
                         ELSE {Short[m] : m \in LongName(es, i)}
             js == {i \in 1 .. Len(es) : IsEntry(es[i]) /\ Short[n] \in Shown(i) /\ InReach(es, i)}
  <2>1. OpenFinds(Root, n) = First(js)
    BY DEF OpenFinds
  <2>2. js \in SUBSET (Nat \ {0}) /\ js \subseteq 1 .. Len(es)
    OBVIOUS
  <2> HIDE DEF js
  <2> QED  BY <1>1, <1>2, <2>1, <2>2, FirstIs
<1>4. Entries(Root)[j] \in Range(Entries(Root))
  <2>1. Root \in Link
    BY SizesOK DEF Link
  <2> QED  BY <1>3, <2>1, EntriesAre DEF Range
<1> QED  BY <1>1, <1>2, <1>4 DEF Parents

(* Every step, with the directories of the root for those that are opened. *)
LEMMA NextSteps ==
    ASSUME TInv, Next
    PROVE  \/ \E d \in Parents, n \in Names, len \in Lengths : WriteFile(d, n, len)
           \/ \E n \in Names : CreateDirectory(n)
           \/ \E d \in Parents, n \in Names : DeleteFile(d, n)
           \/ FindRoom \/ PowerOff
           \/ \E bad \in BOOLEAN : Write(bad)
<1>1. Opened \subseteq Parents
  BY OpenedAre, FatTypes DEF TInv, DiskInv
<1> QED  BY <1>1 DEF Next

LEMMA NextType == TInv /\ [Next]_vars => TInv'
<1> SUFFICES ASSUME TInv, [Next]_vars PROVE TInv'
  OBVIOUS
<1>1. ASSUME NEW d \in Parents, NEW n \in Names, NEW len \in Lengths, WriteFile(d, n, len)
      PROVE  TInv'
  BY <1>1, WriteFileType
<1>2. ASSUME NEW n \in Names, CreateDirectory(n) PROVE TInv'
  BY <1>2, CreateDirectoryType
<1>3. ASSUME NEW d \in Parents, NEW n \in Names, DeleteFile(d, n) PROVE TInv'
  BY <1>3, DeleteFileType
<1>4. CASE FindRoom
  BY <1>4, FindRoomType
<1>5. CASE PowerOff
  BY <1>5, PowerOffType
<1>6. ASSUME NEW bad \in BOOLEAN, Write(bad) PROVE TInv'
  BY <1>6, FreeChainStepType, AllocateType, LinkClusterType, WriteClusterType,
     UpdateEntryType, ExpandType, LinkTailType, ZeroTailType, WriteSlotType,
     EraseEntryType DEF Write
<1>7. CASE UNCHANGED vars
  BY <1>7, StutterType
<1> QED  BY <1>1, <1>2, <1>3, <1>4, <1>5, <1>6, <1>7, NextSteps

LEMMA TInvAlways == Spec => []TInv
BY InitType, NextType, PTL DEF Spec

LEMMA TInvTypes == TInv => TypeOK
<1> SUFFICES ASSUME TInv PROVE TypeOK
  OBVIOUS
<1>1. ASSUME NEW c \in Cluster
      PROVE  data[c][2] \in 0 .. MaxCluster /\ Len(dir[c]) = Slots
  <2>1. dir[c] \in [1 .. Slots -> EntrySet] /\ Slots \in Nat
    BY SizesOK DEF TInv, DiskInv, DirType
  <2>2. Len(dir[c]) = Slots
    BY <2>1
  <2>3. data[c] \in (Names \cup {""}) \X (0 .. MaxCluster)
    BY DEF TInv, DiskInv
  <2> QED  BY <2>2, <2>3
<1>2. call.chain \in Link
  BY SizesOK DEF TInv, LocalInv, CallSet, NoCall, Link
<1>3. fat \in [Cluster -> {0, EOF} \cup Cluster] /\ fat[Root] # 0
  BY DEF TInv, DiskInv
<1> QED  BY <1>1, <1>2, <1>3 DEF TInv, LocalInv, TypeOK, Link

(* The volume and the locals of a call stay what the code takes them for, whatever writes
   fail, whenever the power goes off and in whatever state the call before left the disk:
   the FAT leads from clusters to clusters, the entries of a directory fill its clusters,
   and no index or count of fat32.c leaves its range. *)
THEOREM Fat32Types == Spec => []TypeOK
BY TInvAlways, TInvTypes, PTL

-----------------------------------------------------------------------------
(* NoClusterShared.  Clusters have owners: the root directory, the chain of the call
   under way, the chain that is being freed, or the place of the entry they are reached
   from.  That an owner is known for every chain is not said of the chains, which change
   with every write to the FAT, but of single links: a link does not leave the clusters
   of an owner, and leads to no cluster that a chain begins with. *)

Owner == Link \X Nat
None == <<0, 0>>
RootDir == <<0, 1>>
New == <<0, 2>>
Gone == <<0, 3>>

Places == Cluster \X (1 .. Slots)
FirstOf(p) == dir[p[1]][p[2]].first

(* The entry at p is one, and not that of a file being written over or deleted. *)
Live(p) == p \in Places /\ IsEntry(dir[p[1]][p[2]]) /\ ~(call.hit /\ p = at)

Linked(own) == \A c \in Cluster :
                   own[c] # None /\ fat[c] \in Cluster => own[fat[c]] = own[c]

Used(own) == \A c \in Cluster : own[c] \notin {None, Gone} => fat[c] # 0

Named(own) == /\ own[Root] = RootDir
              /\ first # 0 => own[first] = New
              /\ \A p \in Places : Live(p) /\ FirstOf(p) # 0 => own[FirstOf(p)] = p

Led(own) == \A c \in Cluster :
                own[c] # None /\ fat[c] \in Cluster =>
                    /\ fat[c] # first
                    /\ \A p \in Places : Live(p) => fat[c] # FirstOf(p)
                    /\ pc = "free" => fat[c] # call.chain

Doing(own) == /\ pc \in {"free", "undo"} => own[old] = Gone
              /\ pc \notin {"free", "undo"} => \A c \in Cluster : own[c] # Gone
              /\ pc = "free" /\ old = call.chain =>
                     \A c \in Cluster : own[c] = Gone => fat[c] # 0
              /\ pc \in Busy => own[call.dir] \notin {None, New, Gone}
              /\ pc \in {"link", "tail"} => own[old] = None /\ fat[old] = EOF
              /\ pc \in {"link", "alloc"} /\ first # 0 => own[prev] = New

Owned(own) == /\ own \in [Cluster -> Owner]
              /\ Linked(own) /\ Used(own) /\ Named(own) /\ Led(own) /\ Doing(own)

Sound == past \cap {"freed", "torn", "lost"} = {}

OwnInv == Sound => \E own : Owned(own)

(* The entry a call found is the one it found until it writes over it or deletes it. *)
HitInv == call.hit /\ IsEntry(dir[at[1]][at[2]]) => FirstOf(at) = call.chain

IInv == TInv /\ HitInv /\ OwnInv

LEMMA PlacesAre ==
    /\ \A p \in Places : /\ p \in Owner /\ p \notin {None, RootDir, New, Gone}
                         /\ p[1] \in Cluster /\ p[2] \in 1 .. Slots /\ p = <<p[1], p[2]>>
    /\ None \in Owner /\ RootDir \in Owner /\ New \in Owner /\ Gone \in Owner
    /\ RootDir \notin {None, New, Gone} /\ New \notin {None, Gone} /\ Gone # None
<1>1. ASSUME NEW p \in Places
      PROVE  p \in Owner /\ p \notin {None, RootDir, New, Gone}
             /\ p[1] \in Cluster /\ p[2] \in 1 .. Slots /\ p = <<p[1], p[2]>>
  <2>1. p[1] \in Cluster /\ p[2] \in 1 .. Slots /\ p = <<p[1], p[2]>>
    BY DEF Places
  <2>2. p[1] # 0 /\ p[1] \in Link /\ p[2] \in Nat
    BY <2>1, SizesOK DEF Link
  <2>3. p \in Owner
    BY <2>1, <2>2 DEF Owner
  <2> QED  BY <2>1, <2>2, <2>3 DEF None, RootDir, New, Gone
<1>2. None \in Owner /\ RootDir \in Owner /\ New \in Owner /\ Gone \in Owner
  BY DEF Owner, None, RootDir, New, Gone, Link
<1>3. RootDir \notin {None, New, Gone} /\ New \notin {None, Gone} /\ Gone # None
  BY DEF None, RootDir, New, Gone
<1> QED  BY <1>1, <1>2, <1>3

LEMMA ChainOwned ==
    ASSUME FatType, NEW own, Linked(own), NEW c \in Cluster, own[c] # None
    PROVE  \A i \in 1 .. Len(Chain(c)) : Chain(c)[i] \in Cluster /\ own[Chain(c)[i]] = own[c]
<1> DEFINE S == {b \in Cluster : own[b] = own[c]}
<1>1. \A x \in Cluster \cap S : fat[x] \in Cluster => fat[x] \in S
  BY DEF Linked
<1>2. c \in Link /\ c \in S
  BY DEF Link
<1>3. \A i \in 1 .. Len(Chain(c)) : Chain(c)[i] \in Cluster \cap S
  <2> HIDE DEF S
  <2> QED  BY <1>1, <1>2, ChainStays
<1> QED  BY <1>3

LEMMA IInvTypes == IInv => FatType /\ DirType
BY FatTypes DEF IInv, TInv, DiskInv

LEMMA PlaceEntry == ASSUME DirType, NEW p \in Places PROVE dir[p[1]][p[2]] \in EntrySet
BY PlacesAre DEF DirType

(* Between calls a directory is the root's or that of an entry of the root. *)
LEMMA ParentOwned ==
    ASSUME TInv, NEW own, Owned(own), NEW d \in Parents,
           pc = "none"
    PROVE  /\ d \in Cluster
           /\ \/ d = Root /\ own[d] = RootDir
              \/ /\ d # Root /\ own[d] \in Places
                 /\ own[own[d][1]] = RootDir
<1>1. FatType /\ DirType /\ d \in Cluster /\ Root \in Cluster /\ Root \in Link /\ call.hit = FALSE
  <2>1. FatType /\ DirType
    BY FatTypes DEF TInv, DiskInv
  <2>2. call.hit = FALSE
    BY DEF TInv, LocalInv, NoCall, Busy
  <2> QED  BY <2>1, <2>2, ParentsAre, SizesOK DEF Link
<1>2. own[Root] = RootDir
  BY DEF Owned, Named
<1>3. CASE d # Root
  <2>1. PICK e \in Range(Entries(Root)) : e.kind = "dir" /\ d = e.first
    BY <1>3 DEF Parents
  <2>2. PICK j \in 1 .. Len(Entries(Root)) : e = Entries(Root)[j]
    BY <1>1, <2>1, EntriesAre DEF Range
  <2>3. PICK p : p = Place(Root, j)
    OBVIOUS
  <2>4. e = dir[p[1]][p[2]] /\ p[1] \in Cluster /\ p[2] \in 1 .. Slots
        /\ \E i \in 1 .. Len(Chain(Root)) : p[1] = Chain(Root)[i]
    BY <1>1, <2>2, <2>3, EntryPlace
  <2>5. p \in Places
    <3>1. p = <<p[1], p[2]>>
      BY <2>3 DEF Place
    <3> QED  BY <2>4, <3>1 DEF Places
  <2>6. Live(p) /\ FirstOf(p) = d
    BY <1>1, <2>1, <2>4, <2>5 DEF Live, FirstOf, IsEntry
  <2>7. own[d] = p
    BY <1>1, <2>5, <2>6, SizesOK DEF Owned, Named
  <2>8. own[p[1]] = RootDir
    <3>1. own[Root] # None
      BY <1>2, PlacesAre
    <3>2. \A i \in 1 .. Len(Chain(Root)) : own[Chain(Root)[i]] = own[Root]
      BY <1>1, <3>1, ChainOwned DEF Owned
    <3> QED  BY <1>2, <2>4, <3>2
  <2> QED  BY <1>1, <1>3, <2>5, <2>7, <2>8
<1> QED  BY <1>1, <1>2, <1>3

(* A step after which no entry is live that was not, or one without clusters. *)
Fewer == \A p \in Places : Live(p)' => \/ FirstOf(p)' = 0
                                       \/ Live(p) /\ FirstOf(p)' = FirstOf(p)

LEMMA Kept ==
    ASSUME NEW own, Owned(own), Fewer, fat' = fat, first' \in {first, 0},
           pc' = "free" => pc = "free" /\ call' = call
    PROVE  Linked(own)' /\ Used(own)' /\ Named(own)' /\ Led(own)'
<1>1. Linked(own)' /\ Used(own)'
  BY DEF Owned, Linked, Used
<1>2. Named(own)'
  BY DEF Owned, Named, Fewer
<1>3. Led(own)'
  <2> SUFFICES ASSUME NEW c \in Cluster, own[c] # None, fat[c] \in Cluster
               PROVE  /\ fat[c] # first'
                      /\ \A p \in Places : Live(p)' => fat[c] # FirstOf(p)'
                      /\ pc' = "free" => fat[c] # call'.chain
    BY DEF Led
  <2>1. fat[c] # 0
    BY SizesOK
  <2>2. /\ fat[c] # first /\ \A p \in Places : Live(p) => fat[c] # FirstOf(p)
        /\ pc = "free" => fat[c] # call.chain
    BY DEF Owned, Led
  <2> QED  BY <2>1, <2>2 DEF Fewer
<1> QED  BY <1>1, <1>2, <1>3

(* The call goes on, or a write cleans a cluster or an entry. *)
LEMMA FewerIfSame ==
    ASSUME dir' = dir, call'.hit = call.hit, call.hit => at' = at
    PROVE  Fewer
BY DEF Fewer, Live, FirstOf

LEMMA FewerIfBlank ==
    ASSUME DirType, NEW c \in Cluster, NEW f \in [1 .. Slots -> EntrySet],
           dir' = [dir EXCEPT ![c] = f],
           \A i \in 1 .. Slots : ~IsEntry(f[i]), call'.hit = call.hit, call.hit => at' = at
    PROVE  Fewer
<1> SUFFICES ASSUME NEW p \in Places, Live(p)'
             PROVE  Live(p) /\ FirstOf(p)' = FirstOf(p)
  BY DEF Fewer
<1>1. p[1] \in Cluster /\ p[2] \in 1 .. Slots
  BY PlacesAre
<1>2. IsEntry(dir'[p[1]][p[2]]) /\ ~(call'.hit /\ p = at')
  BY DEF Live
<1>3. p[1] # c
  BY <1>1, <1>2 DEF DirType
<1>4. dir'[p[1]] = dir[p[1]]
  BY <1>1, <1>3 DEF DirType
<1> QED  BY <1>2, <1>4 DEF Live, FirstOf

(* The entries of the disk after entry i of cluster c has been written. *)
Rewritten(c, i, e) ==
    \A p \in Places : dir'[p[1]][p[2]] = IF p = <<c, i>> THEN e ELSE dir[p[1]][p[2]]

LEMMA EntryRewritten ==
    ASSUME DirType, NEW c \in Cluster, NEW i \in 1 .. Slots, NEW e \in EntrySet,
           SetEntry(FALSE, c, i, e)
    PROVE  Rewritten(c, i, e)
<1> SUFFICES ASSUME NEW p \in Places
             PROVE  dir'[p[1]][p[2]] = IF p = <<c, i>> THEN e ELSE dir[p[1]][p[2]]
  BY DEF Rewritten
<1>1. p[1] \in Cluster /\ p[2] \in 1 .. Slots /\ p = <<p[1], p[2]>>
  BY PlacesAre
<1>2. dir[c] \in [1 .. Slots -> EntrySet]
  BY DEF DirType
<1>3. dir'[p[1]] = IF p[1] = c THEN [dir[c] EXCEPT ![i] = e] ELSE dir[p[1]]
  BY <1>1 DEF DirType, SetEntry
<1>4. CASE p = <<c, i>>
  <2>1. p[1] = c /\ p[2] = i
    BY <1>4
  <2>2. dir'[p[1]] = [dir[c] EXCEPT ![i] = e]
    BY <1>3, <2>1
  <2>3. dir'[p[1]][p[2]] = e
    BY <1>2, <2>1, <2>2
  <2> QED  BY <1>4, <2>3
<1>5. CASE p # <<c, i>>
  <2>1. ~(p[1] = c /\ p[2] = i)
    BY <1>1, <1>5
  <2>2. CASE p[1] # c
    BY <1>3, <1>5, <2>2
  <2>3. CASE p[1] = c
    <3>1. dir'[p[1]] = [dir[c] EXCEPT ![i] = e] /\ p[2] # i
      BY <1>3, <2>1, <2>3
    <3>2. dir'[p[1]][p[2]] = dir[c][p[2]]
      BY <1>1, <1>2, <3>1
    <3> QED  BY <1>5, <2>3, <3>2
  <2> QED  BY <2>2, <2>3
<1> QED  BY <1>4, <1>5

LEMMA FewerIfErased ==
    ASSUME DirType, NEW c \in Cluster, NEW i \in 1 .. Slots, NEW e \in EntrySet,
           ~IsEntry(e),
           dir' = [dir EXCEPT ![c][i] = e],
           \/ call'.hit = call.hit /\ (call.hit => at' = at)
           \/ at = <<c, i>>
    PROVE  Fewer
<1> SUFFICES ASSUME NEW p \in Places, Live(p)'
             PROVE  Live(p) /\ FirstOf(p)' = FirstOf(p)
  BY DEF Fewer
<1>1. IsEntry(dir'[p[1]][p[2]]) /\ ~(call'.hit /\ p = at')
  BY DEF Live
<1>2. p # <<c, i>> /\ dir'[p[1]][p[2]] = dir[p[1]][p[2]]
  <2>2. Rewritten(c, i, e)
    BY EntryRewritten DEF SetEntry
  <2>1. dir'[p[1]][p[2]] = IF p = <<c, i>> THEN e ELSE dir[p[1]][p[2]]
    BY <2>2 DEF Rewritten
  <2> QED  BY <1>1, <2>1
<1> QED  BY <1>1, <1>2 DEF Live, FirstOf

LEMMA HitKept ==
    ASSUME HitInv, call'.hit => call' = call /\ at' = at,
           call'.hit => \/ ~IsEntry(dir'[at[1]][at[2]])
                        \/ dir'[at[1]][at[2]] = dir[at[1]][at[2]]
    PROVE  HitInv'
BY DEF HitInv, FirstOf

LEMMA InitOwned == Init => IInv
<1> SUFFICES ASSUME Init PROVE IInv
  OBVIOUS
<1>1. TInv /\ FatType
  BY InitType, FatTypes DEF TInv
<1>2. \A p \in Places : ~Live(p)
  <2> SUFFICES ASSUME NEW p \in Places PROVE ~IsEntry(dir[p[1]][p[2]])
    BY DEF Live
  <2>1. p[1] \in Cluster /\ p[2] \in 1 .. Slots
    BY PlacesAre
  <2>2. dir[p[1]][p[2]] \in {End, Dots}
    BY <2>1 DEF Init, Idle, Junk
  <2> QED  BY <2>2 DEF IsEntry, End, Dots
<1>3. HitInv
  BY DEF HitInv, Init, NoCall
<1> DEFINE own == [c \in Cluster |-> IF c = Root THEN RootDir ELSE None]
<1>4. fat = [c \in Cluster |-> IF c = Root THEN EOF ELSE 0] /\ pc = "none" /\ first = 0
  BY DEF Init
<1>5. own \in [Cluster -> Owner]
  BY PlacesAre
<1>6. Linked(own) /\ Used(own) /\ Led(own)
  BY <1>4, SizesOK DEF Linked, Used, Led
<1>7. Named(own) /\ Doing(own)
  BY <1>2, <1>4, PlacesAre, SizesOK DEF Named, Doing, Busy
<1> QED  BY <1>1, <1>3, <1>5, <1>6, <1>7 DEF IInv, OwnInv, Owned

LEMMA SoundBefore == past \subseteq past' /\ Sound' => Sound
BY DEF Sound

LEMMA BeginOwned ==
    ASSUME IInv, TInv', NEW op, NEW d \in Parents, NEW n, NEW len, NEW j \in Nat,
           j # 0 => j \in 1 .. Len(Entries(d)) /\ IsEntry(Entries(d)[j]),
           Begin(op, d, n, len, j), past \subseteq past'
    PROVE  HitInv' /\ OwnInv'
<1> DEFINE c == IF j = 0 THEN 0 ELSE Entries(d)[j].first
<1>1. FatType /\ DirType /\ d \in Cluster /\ d \in Link
  BY FatTypes, ParentsAre DEF IInv, TInv, DiskInv, Link
<1>2. /\ pc = "none"
      /\ call'.hit = (j # 0) /\ call'.chain = c /\ call'.dir = d
      /\ at' = IF j = 0 THEN <<0, 0>> ELSE Place(d, j)
      /\ old' = c
      /\ pc' \in {"free", "erase", "alloc", "entry"} /\ (pc' = "free" <=> c # 0)
      /\ fat' = fat /\ dir' = dir /\ first' = first /\ prev' = prev
  BY DEF Begin, disk
<1>3. first = 0 /\ call.hit = FALSE
  BY <1>2 DEF IInv, TInv, StepInv, LocalInv, NoCall, Busy
<1>4. PICK q : q = Place(d, j)
  OBVIOUS
<1>5. j # 0 => /\ q \in Places /\ at' = q /\ dir[q[1]][q[2]] = Entries(d)[j] /\ FirstOf(q) = c
               /\ Live(q) /\ \E i \in 1 .. Len(Chain(d)) : q[1] = Chain(d)[i]
  <2> SUFFICES ASSUME j # 0
               PROVE  /\ q \in Places /\ at' = q /\ dir[q[1]][q[2]] = Entries(d)[j]
                      /\ FirstOf(q) = c
                      /\ Live(q) /\ \E i \in 1 .. Len(Chain(d)) : q[1] = Chain(d)[i]
    OBVIOUS
  <2>1. q = <<q[1], q[2]>>
    BY <1>4 DEF Place
  <2>2. Entries(d)[j] = dir[q[1]][q[2]] /\ q[1] \in Cluster /\ q[2] \in 1 .. Slots
        /\ \E i \in 1 .. Len(Chain(d)) : q[1] = Chain(d)[i]
    BY <1>1, <1>4, EntryPlace
  <2>3. q \in Places
    BY <2>1, <2>2 DEF Places
  <2> QED  BY <1>2, <1>3, <1>4, <2>2, <2>3 DEF FirstOf, Live
<1> HIDE DEF c
<1>6. HitInv'
  <2> SUFFICES ASSUME j # 0 PROVE dir[q[1]][q[2]].first = c
    BY <1>2, <1>5 DEF HitInv, FirstOf
  <2> QED  BY <1>5 DEF FirstOf
<1>7. Fewer
  BY <1>2, <1>3 DEF Fewer, Live, FirstOf
<1>8. ASSUME Sound' PROVE \E o : Owned(o)'
  <2>1. Sound
    BY <1>8, SoundBefore
  <2>2. PICK own : Owned(own)
    BY <2>1 DEF IInv, OwnInv
  <2>3. \/ own[d] = RootDir
        \/ own[d] \in Places /\ own[own[d][1]] = RootDir
    BY <1>2, <2>2, ParentOwned DEF IInv
  <2>4. own[d] \notin {None, New, Gone}
    BY <2>3, PlacesAre
  <2>5. \A b \in Cluster : own[b] # Gone
    BY <1>2, <2>2 DEF Owned, Doing
  <2>6. CASE c = 0
    <3>1. pc' # "free"
      BY <1>2, <2>6
    <3>2. Linked(own)' /\ Used(own)' /\ Named(own)' /\ Led(own)'
      BY <1>2, <1>7, <2>2, <3>1, Kept
    <3>3. Doing(own)'
      BY <1>2, <1>3, <2>4, <2>5, <3>1 DEF Doing
    <3> QED  BY <2>2, <3>2, <3>3 DEF Owned
  <2>7. CASE c # 0
    <3>1. PICK o : o = [b \in Cluster |-> IF own[b] = q THEN Gone ELSE own[b]]
      OBVIOUS
    <3>2. j # 0 /\ c \in Cluster
      <4>1. j # 0
        BY <2>7 DEF c
      <4>2. Entries(d)[j] \in EntrySet
        BY <1>1, <4>1, EntryPlace
      <4> QED  BY <2>7, <4>1, <4>2, EntryIs DEF c, Link
    <3>3. q \in Places /\ at' = q /\ Live(q) /\ FirstOf(q) = c /\ own[c] = q
      BY <1>5, <2>2, <2>7, <3>2 DEF Owned, Named
    <3>4. q \notin {None, RootDir, New, Gone} /\ RootDir \notin {None, New, Gone}
          /\ New \notin {None, Gone} /\ Gone # None /\ Gone \in Owner
      BY <3>3, PlacesAre
    <3>5. o \in [Cluster -> Owner]
      BY <2>2, <3>1, <3>4 DEF Owned
    <3>6. Linked(o)' /\ Used(o)'
      BY <1>2, <2>2, <3>1, <3>4 DEF Owned, Linked, Used
    <3>7. Named(o)'
      <4>1. ASSUME NEW p \in Places, Live(p)' PROVE Live(p) /\ p # q /\ FirstOf(p)' = FirstOf(p)
        BY <1>2, <1>3, <3>2, <3>3, <4>1 DEF Live, FirstOf
      <4>2. ASSUME NEW p \in Places, Live(p)', FirstOf(p)' # 0 PROVE o[FirstOf(p)'] = p
        <5>1. Live(p) /\ p # q /\ FirstOf(p)' = FirstOf(p)
          BY <4>1, <4>2
        <5>2. own[FirstOf(p)] = p
          BY <2>2, <4>2, <5>1 DEF Owned, Named
        <5>3. FirstOf(p) \in Cluster
          <6>1. dir[p[1]][p[2]] \in EntrySet
            BY <1>1, PlacesAre DEF DirType
          <6> QED  BY <4>2, <5>1, <6>1, EntryIs DEF Live, FirstOf, Link
        <5> QED  BY <3>1, <5>1, <5>2, <5>3
      <4>3. o[Root] = RootDir
        BY <2>2, <3>1, <3>4, SizesOK DEF Owned, Named
      <4> QED  BY <1>2, <1>3, <4>2, <4>3 DEF Named
    <3>8. Led(o)'
      <4> SUFFICES ASSUME NEW b \in Cluster, o[b] # None, fat[b] \in Cluster
                   PROVE  /\ fat[b] # first'
                          /\ \A p \in Places : Live(p)' => fat[b] # FirstOf(p)'
                          /\ pc' = "free" => fat[b] # call'.chain
        BY <1>2 DEF Led
      <4>1. own[b] # None
        BY <3>1, <3>4
      <4>2. /\ fat[b] # first /\ \A p \in Places : Live(p) => fat[b] # FirstOf(p)
        BY <2>2, <4>1 DEF Owned, Led
      <4>3. fat[b] # 0
        BY SizesOK
      <4> QED  BY <1>2, <1>7, <3>3, <4>2, <4>3 DEF Fewer
    <3>9. Doing(o)'
      <4>1. o[c] = Gone
        BY <3>1, <3>2, <3>3
      <4>2. \A b \in Cluster : o[b] = Gone => fat[b] # 0
        BY <2>2, <2>5, <3>1, <3>3, <3>4 DEF Owned, Used
      <4>3. own[d] # q
        <5>1. own[q[1]] = own[d]
          BY <1>1, <1>5, <2>2, <2>4, <3>2, ChainOwned DEF Owned
        <5> QED  BY <2>3, <3>3, <3>4, <5>1
      <4>4. o[d] \notin {None, New, Gone}
        BY <1>1, <2>4, <3>1, <4>3
      <4> QED  BY <1>2, <1>3, <2>7, <4>1, <4>2, <4>4 DEF Doing
    <3> QED  BY <3>5, <3>6, <3>7, <3>8, <3>9 DEF Owned
  <2> QED  BY <2>6, <2>7
<1> QED  BY <1>6, <1>8 DEF OwnInv

(* The error exit leaves the disk as it is; with the old chain freed, "past" says so. *)
LEMMA FailOwned ==
    ASSUME IInv, TInv', NEW also, Fail(also), fat' = fat, dir' = dir,
           pc \in Busy, pc # "free"
    PROVE  HitInv' /\ OwnInv'
<1>1. /\ past' = past \cup also \cup (IF OldFreed THEN {"freed"} ELSE {})
      /\ first' = 0 /\ call' = NoCall /\ pc' \in {"undo", "none"}
      /\ pc' = "undo" => old' = first /\ first # 0
      /\ pc' = "none" => first = 0
  BY DEF Fail, Finish
<1>2. HitInv'
  BY <1>1 DEF HitInv, NoCall
<1>3. ASSUME Sound' PROVE \E o : Owned(o)'
  <2>1. Sound /\ ~OldFreed
    BY <1>1, <1>3 DEF Sound
  <2>2. call.chain = 0
    BY <2>1 DEF OldFreed
  <2>3. PICK own : Owned(own)
    BY <2>1 DEF IInv, OwnInv
  <2>4. Fewer
    <3> SUFFICES ASSUME NEW p \in Places, Live(p)'
                 PROVE  FirstOf(p)' = 0 \/ (Live(p) /\ FirstOf(p)' = FirstOf(p))
      BY DEF Fewer
    <3>1. IsEntry(dir[p[1]][p[2]])
      BY DEF Live
    <3>2. CASE call.hit /\ p = at
      BY <2>2, <3>1, <3>2 DEF IInv, HitInv, FirstOf
    <3>3. CASE ~(call.hit /\ p = at)
      BY <3>1, <3>3 DEF Live, FirstOf
    <3> QED  BY <3>2, <3>3
  <2>5. Linked(own)' /\ Used(own)' /\ Named(own)' /\ Led(own)'
    BY <1>1, <2>3, <2>4, Kept
  <2>6. pc # "undo" /\ \A c \in Cluster : own[c] # Gone
    BY <2>3 DEF Owned, Doing, Busy
  <2>7. CASE first = 0
    <3>1. pc' = "none"
      BY <1>1, <2>7
    <3>2. Doing(own)'
      BY <2>6, <3>1 DEF Doing, Busy
    <3> QED  BY <2>3, <2>5, <3>2 DEF Owned
  <2>8. CASE first # 0
    <3>1. pc' = "undo" /\ old' = first
      BY <1>1, <2>8
    <3>2. PICK o : o = [b \in Cluster |-> IF own[b] = New THEN Gone ELSE own[b]]
      OBVIOUS
    <3>3. o \in [Cluster -> Owner] /\ RootDir \notin {None, New, Gone} /\ New \notin {None, Gone}
          /\ Gone # None
      BY <2>3, <3>2, PlacesAre DEF Owned
    <3>4. Linked(o)'
      BY <2>5, <3>2, <3>3 DEF Linked
    <3>5. Used(o)'
      BY <2>5, <3>2, <3>3 DEF Used
    <3>6. Named(o)'
      <4>1. ASSUME NEW p \in Places, Live(p)', FirstOf(p)' # 0 PROVE o[FirstOf(p)'] = p
        <5>1. own[FirstOf(p)'] = p
          BY <2>5, <4>1 DEF Named
        <5>2. FirstOf(p)' \in Cluster
          <6>1. dir'[p[1]][p[2]] \in EntrySet
            BY PlacesAre DEF TInv, DiskInv, DirType
          <6> QED  BY <4>1, <6>1, EntryIs DEF Live, FirstOf, Link
        <5> QED  BY <3>2, <5>1, <5>2, PlacesAre
      <4>2. o[Root] = RootDir
        BY <2>5, <3>2, <3>3, SizesOK DEF Named
      <4> QED  BY <1>1, <4>1, <4>2 DEF Named
    <3>7. Led(o)'
      BY <2>5, <3>2, <3>3 DEF Led
    <3>8. Doing(o)'
      <4>1. first \in Cluster /\ own[first] = New
        BY <2>3, <2>8 DEF IInv, TInv, LocalInv, Link, Owned, Named
      <4>2. o[first] = Gone
        BY <3>2, <4>1
      <4> QED  BY <3>1, <4>2 DEF Doing, Busy
    <3> QED  BY <3>3, <3>4, <3>5, <3>6, <3>7, <3>8 DEF Owned
  <2> QED  BY <2>7, <2>8
<1> QED  BY <1>2, <1>3 DEF OwnInv

(* A chain is forgotten: nothing is freed any more. *)
LEMMA Forgotten ==
    ASSUME NEW own, own \in [Cluster -> Owner], Linked(own)', Used(own)', Named(own)', Led(own)',
           DirType', first' \in Link
    PROVE  \E o : /\ o = [b \in Cluster |-> IF own[b] = Gone THEN None ELSE own[b]]
                  /\ o \in [Cluster -> Owner] /\ \A b \in Cluster : o[b] # Gone
                  /\ Linked(o)' /\ Used(o)' /\ Named(o)' /\ Led(o)'
<1>1. PICK o : o = [b \in Cluster |-> IF own[b] = Gone THEN None ELSE own[b]]
  OBVIOUS
<1>2. o \in [Cluster -> Owner] /\ RootDir \notin {None, New, Gone} /\ New \notin {None, Gone}
      /\ Gone # None /\ (\A b \in Cluster : o[b] # Gone)
  BY <1>1, PlacesAre
<1>3. Linked(o)'
  BY <1>1, <1>2 DEF Linked
<1>4. Used(o)'
  BY <1>1, <1>2 DEF Used
<1>5. Named(o)'
  <2>1. ASSUME NEW p \in Places, Live(p)', FirstOf(p)' # 0 PROVE o[FirstOf(p)'] = p
    <3>1. own[FirstOf(p)'] = p
      BY <2>1 DEF Named
    <3>2. FirstOf(p)' \in Cluster
      <4>1. dir'[p[1]][p[2]] \in EntrySet
        BY PlacesAre DEF DirType
      <4> QED  BY <2>1, <4>1, EntryIs DEF Live, FirstOf, Link
    <3> QED  BY <1>1, <3>1, <3>2, PlacesAre
  <2>2. o[Root] = RootDir
    BY <1>1, <1>2, SizesOK DEF Named
  <2>3. first' # 0 => o[first'] = New
    BY <1>1, <1>2 DEF Named, Link
  <2> QED  BY <2>1, <2>2, <2>3 DEF Named
<1>6. Led(o)'
  BY <1>1, <1>2 DEF Led
<1> QED  BY <1>1, <1>2, <1>3, <1>4, <1>5, <1>6

LEMMA FreeChainStepOwned ==
    ASSUME IInv, TInv', NEW bad \in BOOLEAN, FreeChainStep(bad)
    PROVE  HitInv' /\ OwnInv'
<1>1. /\ pc \in {"free", "undo"} /\ old # 0 /\ old \in Cluster \ {Root} /\ first = 0
      /\ pc = "undo" => call = NoCall
      /\ pc = "free" => pc \in Busy
  BY DEF FreeChainStep, IInv, TInv, LocalInv, StepInv, Link, Busy
<1>2. /\ fat' = IF bad THEN fat ELSE [fat EXCEPT ![old] = 0]
      /\ dir' = [dir EXCEPT ![old] = Junk] /\ old' = NextCluster(old)
      /\ past' = IF bad THEN past \cup {"lost"} ELSE past
  BY <1>1 DEF FreeChainStep, SetFat, Blame
<1>3. /\ old' # 0 => pc' = pc /\ call' = call /\ first' = first /\ prev' = prev /\ at' = at
      /\ old' = 0 /\ pc = "undo" => pc' = "none" /\ call' = NoCall /\ first' = 0
      /\ old' = 0 /\ pc = "free" => /\ pc' \in {"erase", "alloc", "entry"} /\ call' = call
                                    /\ first' = first /\ prev' = prev /\ at' = at
  BY <1>1 DEF FreeChainStep
<1>4. first' = 0 /\ (call'.hit => call'.hit = call.hit /\ call' = call /\ at' = at)
      /\ (pc' = "free" => pc = "free" /\ call' = call) /\ call'.hit = call.hit
      /\ (call.hit => at' = at)
  <2>1. CASE old' = 0 /\ pc = "undo"
    <3>1. call' = NoCall /\ call = NoCall /\ NoCall.hit = FALSE /\ pc' = "none" /\ first' = 0
      BY <1>1, <1>3, <2>1 DEF NoCall
    <3> QED  BY <3>1
  <2>2. CASE old' = 0 /\ pc = "free"
    BY <1>1, <1>3, <2>2
  <2>3. CASE old' # 0
    BY <1>1, <1>3, <2>3
  <2> QED  BY <1>1, <2>1, <2>2, <2>3
<1>5. DirType /\ (\A i \in 1 .. Slots : ~IsEntry(Junk[i])) /\ Junk \in [1 .. Slots -> EntrySet]
  BY BlankClusters DEF Junk, Dots, IsEntry, IInv, TInv, DiskInv
<1>6. Fewer
  BY <1>1, <1>2, <1>4, <1>5, FewerIfBlank
<1>7. HitInv'
  <2> SUFFICES ASSUME call'.hit, IsEntry(dir'[at[1]][at[2]])
               PROVE  dir'[at[1]][at[2]].first = call.chain
    BY <1>4 DEF HitInv, FirstOf
  <2>1. pc \in Busy /\ call.hit /\ at[1] \in Cluster /\ at[2] \in 1 .. Slots
    BY <1>1, <1>4 DEF IInv, TInv, LocalInv, CallInv, NoCall
  <2>2. at[1] # old
    BY <1>1, <1>2, <1>5, <2>1 DEF DirType
  <2>3. dir'[at[1]] = dir[at[1]]
    BY <1>2, <1>5, <2>1, <2>2 DEF DirType
  <2> QED  BY <2>1, <2>3 DEF IInv, HitInv, FirstOf
<1>8. ASSUME Sound' PROVE \E o : Owned(o)'
  <2>1. ~bad /\ Sound /\ fat' = [fat EXCEPT ![old] = 0]
    BY <1>2, <1>8 DEF Sound
  <2>2. PICK own : Owned(own)
    BY <2>1 DEF IInv, OwnInv
  <2>3. own[old] = Gone /\ fat \in [Cluster -> {0, EOF} \cup (Cluster \ {Root})]
    BY <1>1, <2>2 DEF Owned, Doing, IInv, TInv, DiskInv
  <2>4. \A c \in Cluster : fat'[c] = IF c = old THEN 0 ELSE fat[c]
    BY <2>1, <2>3
  <2>5. Linked(own)'
    BY <2>2, <2>3, <2>4, SizesOK DEF Owned, Linked
  <2>6. Used(own)'
    BY <2>2, <2>3, <2>4 DEF Owned, Used
  <2>7. Named(own)'
    BY <1>4, <1>6, <2>2 DEF Owned, Named, Fewer
  <2>8. Led(own)'
    <3> SUFFICES ASSUME NEW c \in Cluster, own[c] # None, fat'[c] \in Cluster
                 PROVE  /\ fat'[c] # first'
                        /\ \A p \in Places : Live(p)' => fat'[c] # FirstOf(p)'
                        /\ pc' = "free" => fat'[c] # call'.chain
      BY DEF Led
    <3>1. fat'[c] = fat[c] /\ fat[c] # 0
      BY <2>4, SizesOK
    <3>2. /\ \A p \in Places : Live(p) => fat[c] # FirstOf(p)
          /\ pc = "free" => fat[c] # call.chain
      BY <2>2, <3>1 DEF Owned, Led
    <3> QED  BY <1>4, <1>6, <3>1, <3>2 DEF Fewer
  <2>9. CASE old' = 0
    <3>1. PICK o : /\ o = [b \in Cluster |-> IF own[b] = Gone THEN None ELSE own[b]]
                   /\ o \in [Cluster -> Owner] /\ \A b \in Cluster : o[b] # Gone
                   /\ Linked(o)' /\ Used(o)' /\ Named(o)' /\ Led(o)'
      BY <1>4, <2>2, <2>5, <2>6, <2>7, <2>8, Forgotten
         DEF Owned, TInv, DiskInv, LocalInv
    <3>2. Doing(o)'
      <4>1. CASE pc = "undo"
        BY <1>3, <2>9, <3>1, <4>1 DEF Doing, Busy
      <4>2. CASE pc = "free"
        <5>1. own[call.dir] \notin {None, New, Gone} /\ call.dir \in Cluster
          BY <1>1, <2>2, <4>2 DEF Owned, Doing, IInv, TInv, LocalInv, CallSet
        <5>2. o[call.dir] = own[call.dir]
          BY <3>1, <5>1
        <5> QED  BY <1>3, <1>4, <2>9, <3>1, <4>2, <5>1, <5>2 DEF Doing
      <4> QED  BY <1>1, <4>1, <4>2
    <3> QED  BY <3>1, <3>2 DEF Owned
  <2>10. CASE old' # 0
    <3>1. old' = fat[old] /\ fat[old] \in Cluster
      BY <1>1, <1>2, <2>3, <2>10 DEF NextCluster
    <3>2. own[old'] = Gone
      BY <1>1, <2>2, <2>3, <3>1, PlacesAre DEF Owned, Linked
    <3>3. pc = "free" => old' # call.chain
      BY <1>1, <2>2, <2>3, <3>1, PlacesAre DEF Owned, Led
    <3>4. pc = "free" => own[call.dir] \notin {None, New, Gone}
      BY <1>1, <2>2 DEF Owned, Doing
    <3>5. Doing(own)'
      BY <1>1, <1>3, <2>10, <3>2, <3>3, <3>4 DEF Doing, Busy
    <3> QED  BY <2>2, <2>5, <2>6, <2>7, <2>8, <3>5 DEF Owned
  <2> QED  BY <2>9, <2>10
<1> QED  BY <1>7, <1>8 DEF OwnInv

LEMMA AllocateOwned ==
    ASSUME IInv, TInv', NEW bad \in BOOLEAN, Allocate(bad)
    PROVE  HitInv' /\ OwnInv'
<1> DEFINE c == FreeCluster
<1>1. pc = "alloc" /\ dir' = dir /\ pc \in Busy
  BY DEF Allocate, Busy
<1>2. CASE bad \/ c = 0
  <2>1. Fail({}) /\ fat' = fat
    BY <1>2 DEF Allocate
  <2> QED  BY <1>1, <2>1, FailOwned
<1>3. CASE ~(bad \/ c = 0)
  <2>1. /\ fat' = [fat EXCEPT ![c] = EOF] /\ call' = call /\ at' = at /\ past' = past
        /\ IF first = 0
           THEN first' = c /\ prev' = c /\ pc' \in {"data", "alloc"} /\ old' = old
           ELSE pc' = "link" /\ old' = c /\ first' = first /\ prev' = prev
    BY <1>3 DEF Allocate, SetFat
  <2>2. c \in Cluster \ {Root} /\ fat[c] = 0 /\ c # 0
    BY <1>3, AllocCluster DEF IInv, TInv
  <2> HIDE DEF c
  <2>3. HitInv'
    BY <1>1, <2>1 DEF IInv, HitInv, FirstOf
  <2>4. ASSUME Sound' PROVE \E o : Owned(o)'
    <3>1. PICK own : Owned(own)
      BY <2>1, <2>4 DEF IInv, OwnInv, Sound
    <3>2. (\A b \in Cluster : own[b] # Gone) /\ own[call.dir] \notin {None, New, Gone}
          /\ call.dir \in Cluster
      BY <1>1, <3>1 DEF Owned, Doing, IInv, TInv, LocalInv, CallSet
    <3>3. own[c] = None /\ EOF \notin Cluster /\ EOF # 0
      BY <2>2, <3>1, <3>2, SizesOK DEF Owned, Used
    <3>4. \A b \in Cluster : fat'[b] = IF b = c THEN EOF ELSE fat[b]
      BY <2>1, <2>2, IInvTypes DEF FatType
    <3>5. \A b \in Cluster : own[b] # None => fat[b] # c
      BY <2>2, <3>1, <3>3 DEF Owned, Linked
    <3>6. \A p \in Places : (Live(p)' <=> Live(p)) /\ FirstOf(p)' = FirstOf(p)
      BY <1>1, <2>1 DEF Live, FirstOf
    <3>7. CASE first # 0
      <4>1. Linked(own)' /\ Used(own)'
        BY <3>1, <3>3, <3>4 DEF Owned, Linked, Used
      <4>2. Named(own)'
        BY <2>1, <3>1, <3>6, <3>7 DEF Owned, Named
      <4>3. Led(own)'
        BY <2>1, <3>1, <3>3, <3>4, <3>6, <3>7 DEF Owned, Led
      <4>4. Doing(own)'
        BY <1>1, <2>1, <2>2, <3>1, <3>2, <3>3, <3>4, <3>7 DEF Owned, Doing
      <4> QED  BY <3>1, <4>1, <4>2, <4>3, <4>4 DEF Owned
    <3>8. CASE first = 0
      <4>1. PICK o : o = [own EXCEPT ![c] = New]
        OBVIOUS
      <4>2. o \in [Cluster -> Owner] /\ New \notin {None, Gone}
            /\ \A b \in Cluster : o[b] = IF b = c THEN New ELSE own[b]
        BY <3>1, <4>1, PlacesAre DEF Owned
      <4>3. Linked(o)'
        BY <3>1, <3>3, <3>4, <3>5, <4>2 DEF Owned, Linked
      <4>4. Used(o)'
        BY <3>1, <3>3, <3>4, <4>2 DEF Owned, Used
      <4>5. Named(o)'
        <5>1. ASSUME NEW p \in Places, Live(p), FirstOf(p) # 0 PROVE o[FirstOf(p)] = p
          <6>1. own[FirstOf(p)] = p
            BY <3>1, <5>1 DEF Owned, Named
          <6>2. FirstOf(p) \in Cluster
            <7>1. dir[p[1]][p[2]] \in EntrySet
              BY PlaceEntry, IInvTypes
            <7> QED  BY <5>1, <7>1, EntryIs DEF Live, FirstOf, Link
          <6> QED  BY <3>3, <4>2, <6>1, <6>2, PlacesAre
        <5>2. o[Root] = RootDir
          BY <2>2, <3>1, <4>2, SizesOK DEF Owned, Named
        <5> QED  BY <2>1, <2>2, <3>6, <3>8, <4>2, <5>1, <5>2 DEF Named
      <4>6. Led(o)'
        BY <1>1, <2>1, <3>1, <3>3, <3>4, <3>5, <3>6, <3>8, <4>2 DEF Owned, Led
      <4>7. Doing(o)'
        BY <1>1, <2>1, <2>2, <3>2, <3>3, <3>8, <4>2 DEF Doing
      <4> QED  BY <4>2, <4>3, <4>4, <4>5, <4>6, <4>7 DEF Owned
    <3> QED  BY <3>7, <3>8
  <2> QED  BY <2>3, <2>4 DEF OwnInv
<1> QED  BY <1>2, <1>3

LEMMA LinkClusterOwned ==
    ASSUME IInv, TInv', NEW bad \in BOOLEAN, LinkCluster(bad)
    PROVE  HitInv' /\ OwnInv'
<1>1. /\ pc = "link" /\ pc \in Busy /\ dir' = dir /\ call' = call /\ first' = first
      /\ old' = old /\ at' = at /\ prev' = old /\ pc' \in {"data", "alloc"}
      /\ fat' = IF bad THEN fat ELSE [fat EXCEPT ![prev] = old]
      /\ past' = IF bad THEN past \cup {"lost"} ELSE past
      /\ first # 0 /\ old \in Cluster \ {Root} /\ prev \in Cluster \ {Root} /\ first \in Cluster
  BY DEF LinkCluster, SetFat, Blame, Busy, IInv, TInv, StepInv, LocalInv, Link
<1>2. HitInv'
  BY <1>1 DEF IInv, HitInv, FirstOf
<1>3. ASSUME Sound' PROVE \E o : Owned(o)'
  <2>1. ~bad /\ Sound
    BY <1>1, <1>3 DEF Sound
  <2>2. PICK own : Owned(own)
    BY <2>1 DEF IInv, OwnInv
  <2>3. (\A b \in Cluster : own[b] # Gone) /\ own[call.dir] \notin {None, New, Gone}
        /\ call.dir \in Cluster /\ own[old] = None /\ fat[old] = EOF /\ own[prev] = New
    BY <1>1, <2>2 DEF Owned, Doing, IInv, TInv, LocalInv, CallSet
  <2>4. old # prev /\ EOF \notin Cluster /\ EOF # 0 /\ old # 0 /\ New \notin {None, Gone}
    BY <1>1, <2>3, SizesOK, PlacesAre
  <2>5. \A b \in Cluster : fat'[b] = IF b = prev THEN old ELSE fat[b]
    BY <1>1, <2>1, IInvTypes DEF FatType
  <2>6. \A p \in Places : (Live(p)' <=> Live(p)) /\ FirstOf(p)' = FirstOf(p)
    BY <1>1 DEF Live, FirstOf
  <2>7. PICK o : o = [own EXCEPT ![old] = New]
    OBVIOUS
  <2>8. o \in [Cluster -> Owner] /\ \A b \in Cluster : o[b] = IF b = old THEN New ELSE own[b]
    BY <2>2, <2>7, PlacesAre DEF Owned
  <2>9. \A b \in Cluster : own[b] # None => fat[b] # old
    BY <1>1, <2>2, <2>3 DEF Owned, Linked
  <2>10. Linked(o)'
    BY <1>1, <2>2, <2>3, <2>4, <2>5, <2>8, <2>9 DEF Owned, Linked
  <2>11. Used(o)'
    BY <1>1, <2>2, <2>3, <2>4, <2>5, <2>8 DEF Owned, Used
  <2>12. ASSUME NEW p \in Places, Live(p), FirstOf(p) # 0
         PROVE  FirstOf(p) # old /\ o[FirstOf(p)] = p
    <3>1. own[FirstOf(p)] = p /\ p # None
      BY <2>2, <2>12, PlacesAre DEF Owned, Named
    <3>2. FirstOf(p) \in Cluster
      <4>1. dir[p[1]][p[2]] \in EntrySet
        BY PlaceEntry, IInvTypes
      <4> QED  BY <2>12, <4>1, EntryIs DEF Live, FirstOf, Link
    <3> QED  BY <2>3, <2>8, <3>1, <3>2
  <2>13. Named(o)'
    BY <1>1, <2>2, <2>6, <2>8, <2>12, SizesOK DEF Owned, Named
  <2>14. Led(o)'
    <3> SUFFICES ASSUME NEW c \in Cluster, o[c] # None, fat'[c] \in Cluster
                 PROVE  /\ fat'[c] # first
                        /\ \A p \in Places : Live(p) => fat'[c] # FirstOf(p)
      BY <1>1, <2>6 DEF Led
    <3>1. CASE c = prev
      <4>1. fat'[c] = old /\ own[first] = New
        BY <1>1, <2>2, <2>5, <3>1 DEF Owned, Named
      <4>2. old # first
        BY <2>3, <2>4, <4>1
      <4> QED  BY <2>4, <2>12, <4>1, <4>2
    <3>2. CASE c # prev
      <4>1. fat'[c] = fat[c] /\ c # old /\ own[c] # None
        BY <2>3, <2>4, <2>5, <2>8, <3>2
      <4> QED  BY <2>2, <4>1 DEF Owned, Led
    <3> QED  BY <3>1, <3>2
  <2>15. Doing(o)'
    BY <1>1, <2>3, <2>4, <2>8 DEF Doing
  <2> QED  BY <2>8, <2>10, <2>11, <2>13, <2>14, <2>15 DEF Owned
<1> QED  BY <1>2, <1>3 DEF OwnInv

LEMMA WriteClusterOwned ==
    ASSUME IInv, TInv', NEW bad \in BOOLEAN, WriteCluster(bad)
    PROVE  HitInv' /\ OwnInv'
<1>1. pc = "data" /\ fat' = fat /\ pc \in Busy /\ first \in Link /\ first # 0
      /\ k \in 1 .. Len(Chain(first)) /\ FatType
  BY FatTypes DEF WriteCluster, Busy, IInv, TInv, LocalInv, StepInv
<1>2. CASE bad
  <2>1. Fail({}) /\ dir' = dir
    BY <1>2 DEF WriteCluster
  <2> QED  BY <1>1, <2>1, FailOwned
<1>3. CASE ~bad
  <2> DEFINE new == [Idle EXCEPT ![1] = Dots, ![2] = Dots]
  <2>1. PICK c : c = Chain(first)[k]
    OBVIOUS
  <2>2. PICK f : f = IF call.op = "mkdir" THEN new ELSE Junk
    OBVIOUS
  <2>3. c \in Cluster
    BY <1>1, <2>1, ChainIs
  <2>4. /\ dir' = [dir EXCEPT ![c] = f] /\ pc' \in {"data", "entry"} /\ past' = past
        /\ call' = call /\ first' = first /\ prev' = prev /\ old' = old /\ at' = at
    BY <1>1, <1>3, <2>1, <2>2 DEF WriteCluster
  <2>5. f \in [1 .. Slots -> EntrySet] /\ \A i \in 1 .. Slots : ~IsEntry(f[i])
    <3>1. f \in [1 .. Slots -> EntrySet]
      BY <2>2, BlankClusters
    <3>2. \A i \in 1 .. Slots : f[i] \in {End, Dots}
      BY <2>2 DEF Idle, Junk
    <3> QED  BY <3>1, <3>2 DEF IsEntry, End, Dots
  <2>6. DirType
    BY DEF IInv, TInv, DiskInv
  <2>7. Fewer
    BY <2>3, <2>4, <2>5, <2>6, FewerIfBlank
  <2>8. HitInv'
    <3> SUFFICES ASSUME call.hit, IsEntry(dir'[at[1]][at[2]])
                 PROVE  dir'[at[1]][at[2]].first = call.chain
      BY <2>4 DEF HitInv, FirstOf
    <3>1. at[1] \in Cluster /\ at[2] \in 1 .. Slots
      BY <1>1 DEF IInv, TInv, CallInv
    <3>2. at[1] # c
      BY <2>3, <2>4, <2>5, <2>6, <3>1 DEF DirType
    <3>3. dir'[at[1]] = dir[at[1]]
      BY <2>4, <2>6, <3>1, <3>2 DEF DirType
    <3> QED  BY <3>3 DEF IInv, HitInv, FirstOf
  <2>9. ASSUME Sound' PROVE \E o : Owned(o)'
    <3>1. PICK own : Owned(own)
      BY <2>4, <2>9 DEF IInv, OwnInv, Sound
    <3>2. Linked(own)' /\ Used(own)' /\ Named(own)' /\ Led(own)'
      BY <1>1, <2>4, <2>7, <3>1, Kept
    <3>3. Doing(own)'
      BY <1>1, <2>4, <3>1 DEF Owned, Doing
    <3> QED  BY <3>1, <3>2, <3>3 DEF Owned
  <2> QED  BY <2>8, <2>9 DEF OwnInv
<1> QED  BY <1>2, <1>3

(* The entry of the new chain is written, and the call ends. *)
LEMMA EntryOwned ==
    ASSUME IInv, NEW c \in Cluster, NEW i \in 1 .. Slots, NEW e \in EntrySet, e.first = first,
           dir' = [dir EXCEPT ![c][i] = e], call.hit => at = <<c, i>>,
           fat' = fat, past' = past, Finish, pc \in Busy, pc # "free"
    PROVE  HitInv' /\ OwnInv'
<1>1. pc' = "none" /\ first' = 0 /\ call' = NoCall /\ call'.hit = FALSE
  BY DEF Finish, NoCall
<1>4. DirType
  BY DEF IInv, TInv, DiskInv
<1>5. \A p \in Places : dir'[p[1]][p[2]] = IF p = <<c, i>> THEN e ELSE dir[p[1]][p[2]]
  <2>1. SetEntry(FALSE, c, i, e)
    BY DEF SetEntry
  <2>2. Rewritten(c, i, e)
    BY <1>4, <2>1, EntryRewritten
  <2> QED  BY <2>2 DEF Rewritten
<1>2. HitInv'
  BY <1>1 DEF HitInv
<1>3. ASSUME Sound' PROVE \E o : Owned(o)'
  <2>1. PICK own : Owned(own)
    BY <1>3 DEF IInv, OwnInv, Sound
  <2>14. PICK q \in Places : q = <<c, i>>
    BY DEF Places
  <2>2. PICK o : o = [b \in Cluster |-> IF own[b] = New THEN q ELSE own[b]]
    OBVIOUS
  <2>3. /\ o \in [Cluster -> Owner] /\ RootDir \notin {None, New, Gone} /\ New \notin {None, Gone}
        /\ Gone # None /\ q \notin {None, RootDir, New, Gone}
        /\ (call.hit => at = q)
    BY <2>1, <2>2, <2>14, PlacesAre DEF Owned
  <2>4. \A b \in Cluster : own[b] # Gone
    BY <2>1 DEF Owned, Doing, Busy
  <2>13. ASSUME NEW p \in Places
         PROVE  dir'[p[1]][p[2]] = IF p = q THEN e ELSE dir[p[1]][p[2]]
    BY <1>5, <2>14
  <2>6. ASSUME NEW p \in Places, p # q, Live(p)'
        PROVE  Live(p) /\ FirstOf(p)' = FirstOf(p)
    <3>1. dir'[p[1]][p[2]] = IF p = q THEN e ELSE dir[p[1]][p[2]]
      BY <2>13
    <3>2. dir'[p[1]][p[2]] = dir[p[1]][p[2]]
      BY <2>3, <2>6, <3>1
    <3> QED  BY <2>3, <2>6, <3>2 DEF Live, FirstOf
  <2>7. FirstOf(q)' = first
    <3>1. dir'[q[1]][q[2]] = e
      BY <2>13
    <3> QED  BY <2>3, <3>1 DEF FirstOf
  <2>8. Linked(o)'
    BY <2>1, <2>2, <2>3 DEF Owned, Linked
  <2>9. Used(o)'
    BY <2>1, <2>2, <2>3 DEF Owned, Used
  <2>10. Named(o)'
    <3>1. ASSUME NEW p \in Places, Live(p)', FirstOf(p)' # 0 PROVE o[FirstOf(p)'] = p
      <4>1. CASE p = q
        <5>1. first \in Cluster /\ own[first] = New
          BY <2>1, <2>7, <3>1, <4>1 DEF Owned, Named, IInv, TInv, LocalInv, Link
        <5> QED  BY <2>2, <2>7, <4>1, <5>1
      <4>2. CASE p # q
        <5>1. Live(p) /\ FirstOf(p)' = FirstOf(p)
          BY <2>6, <3>1, <4>2
        <5>2. own[FirstOf(p)] = p
          BY <2>1, <3>1, <5>1 DEF Owned, Named
        <5>3. FirstOf(p) \in Cluster
          <6>1. dir[p[1]][p[2]] \in EntrySet
            BY <1>4, PlacesAre DEF DirType
          <6> QED  BY <3>1, <5>1, <6>1, EntryIs DEF Live, FirstOf, Link
        <5> QED  BY <2>2, <5>1, <5>2, <5>3, PlacesAre
      <4> QED  BY <4>1, <4>2
    <3>2. o[Root] = RootDir
      BY <2>1, <2>2, <2>3, SizesOK DEF Owned, Named
    <3> QED  BY <1>1, <3>1, <3>2 DEF Named
  <2>11. Led(o)'
    <3> SUFFICES ASSUME NEW b \in Cluster, o[b] # None, fat[b] \in Cluster
                 PROVE  /\ fat[b] # 0
                        /\ \A p \in Places : Live(p)' => fat[b] # FirstOf(p)'
      BY <1>1 DEF Led
    <3>1. own[b] # None
      BY <2>2, <2>3
    <3>2. fat[b] # first /\ \A p \in Places : Live(p) => fat[b] # FirstOf(p)
      BY <2>1, <3>1 DEF Owned, Led
    <3> QED  BY <2>6, <2>7, <3>2, SizesOK
  <2>12. Doing(o)'
    BY <1>1, <2>2, <2>3, <2>4 DEF Doing, Busy
  <2> QED  BY <2>3, <2>8, <2>9, <2>10, <2>11, <2>12 DEF Owned
<1> QED  BY <1>2, <1>3 DEF OwnInv

LEMMA UpdateEntryOwned ==
    ASSUME IInv, TInv', NEW bad \in BOOLEAN, UpdateEntry(bad)
    PROVE  HitInv' /\ OwnInv'
<1>1. /\ pc = "entry" /\ pc \in Busy /\ call.hit /\ fat' = fat /\ call \in CallSet
      /\ dir' = IF bad THEN dir ELSE [dir EXCEPT ![at[1]][at[2]] = NewEntry]
      /\ first \in Link \ {Root} /\ at \in Link \X (0 .. Slots)
  BY DEF UpdateEntry, SetEntry, Busy, IInv, TInv, LocalInv
<1>2. CASE bad
  <2>1. Fail({}) /\ dir' = dir
    BY <1>1, <1>2 DEF UpdateEntry
  <2> QED  BY <1>1, <2>1, FailOwned
<1>3. CASE ~bad
  <2>1. Finish /\ past' = past /\ dir' = [dir EXCEPT ![at[1]][at[2]] = NewEntry]
    BY <1>1, <1>3 DEF UpdateEntry
  <2>2. at[1] \in Cluster /\ at[2] \in 1 .. Slots /\ call.op # "mkdir" /\ at = <<at[1], at[2]>>
    BY <1>1 DEF IInv, TInv, CallInv
  <2>3. NewEntry \in EntrySet /\ NewEntry.first = first
    BY <1>1, <2>2, NewEntryIs
  <2>4. PICK c \in Cluster, i \in 1 .. Slots : c = at[1] /\ i = at[2] /\ at = <<c, i>>
    BY <2>2
  <2>5. PICK e \in EntrySet : e = NewEntry
    BY <2>3
  <2>6. dir' = [dir EXCEPT ![c][i] = e] /\ e.first = first
    BY <2>1, <2>3, <2>4, <2>5
  <2> QED  BY <1>1, <2>1, <2>4, <2>6, EntryOwned
<1> QED  BY <1>2, <1>3

LEMMA FindRoomOwned ==
    ASSUME IInv, TInv', FindRoom
    PROVE  HitInv' /\ OwnInv'
<1>1. /\ pc = "entry" /\ pc \in Busy /\ ~call.hit /\ pc' \in {"expand", "slots"}
      /\ fat' = fat /\ dir' = dir /\ call' = call /\ first' = first /\ prev' = prev
      /\ old' = old /\ past' = past
  BY DEF FindRoom, disk, Busy
<1>2. HitInv'
  BY <1>1 DEF HitInv
<1>3. Fewer
  BY <1>1, FewerIfSame
<1>4. ASSUME Sound' PROVE \E o : Owned(o)'
  <2>1. PICK own : Owned(own)
    BY <1>1, <1>4 DEF IInv, OwnInv, Sound
  <2>2. Linked(own)' /\ Used(own)' /\ Named(own)' /\ Led(own)'
    BY <1>1, <1>3, <2>1, Kept
  <2>3. Doing(own)'
    BY <1>1, <2>1 DEF Owned, Doing
  <2> QED  BY <2>1, <2>2, <2>3 DEF Owned
<1> QED  BY <1>2, <1>4 DEF OwnInv

LEMMA ExpandOwned ==
    ASSUME IInv, TInv', NEW bad \in BOOLEAN, Expand(bad)
    PROVE  HitInv' /\ OwnInv'
<1> DEFINE c == FreeCluster
<1>1. pc = "expand" /\ dir' = dir /\ pc \in Busy /\ ~call.hit
  BY DEF Expand, Busy, IInv, TInv, CallInv
<1>2. CASE bad \/ c = 0
  <2>1. Fail({}) /\ fat' = fat
    BY <1>2 DEF Expand
  <2> QED  BY <1>1, <2>1, FailOwned
<1>3. CASE ~(bad \/ c = 0)
  <2>1. /\ fat' = [fat EXCEPT ![c] = EOF] /\ call' = call /\ at' = at /\ pc' = "tail"
        /\ old' = c /\ first' = first /\ prev' = prev /\ past \subseteq past'
    BY <1>3 DEF Expand, SetFat, Blame
  <2>2. c \in Cluster \ {Root} /\ fat[c] = 0 /\ c # 0
    BY <1>3, AllocCluster DEF IInv, TInv
  <2> HIDE DEF c
  <2>3. HitInv'
    BY <1>1, <2>1 DEF HitInv
  <2>4. ASSUME Sound' PROVE \E o : Owned(o)'
    <3>1. PICK own : Owned(own)
      BY <2>1, <2>4, SoundBefore DEF IInv, OwnInv
    <3>2. (\A b \in Cluster : own[b] # Gone) /\ own[call.dir] \notin {None, New, Gone}
      BY <1>1, <3>1 DEF Owned, Doing
    <3>3. own[c] = None /\ EOF \notin Cluster /\ EOF # 0
      BY <2>2, <3>1, <3>2, SizesOK DEF Owned, Used
    <3>4. \A b \in Cluster : fat'[b] = IF b = c THEN EOF ELSE fat[b]
      BY <2>1, <2>2, IInvTypes DEF FatType
    <3>5. \A p \in Places : (Live(p)' <=> Live(p)) /\ FirstOf(p)' = FirstOf(p)
      BY <1>1, <2>1 DEF Live, FirstOf
    <3>6. Linked(own)' /\ Used(own)'
      BY <3>1, <3>3, <3>4 DEF Owned, Linked, Used
    <3>7. Named(own)'
      BY <2>1, <3>1, <3>5 DEF Owned, Named
    <3>8. Led(own)'
      BY <2>1, <3>1, <3>3, <3>4, <3>5 DEF Owned, Led
    <3>9. Doing(own)'
      BY <1>1, <2>1, <2>2, <3>2, <3>3, <3>4 DEF Doing
    <3> QED  BY <3>1, <3>6, <3>7, <3>8, <3>9 DEF Owned
  <2> QED  BY <2>3, <2>4 DEF OwnInv
<1> QED  BY <1>2, <1>3

LEMMA LinkTailOwned ==
    ASSUME IInv, TInv', NEW bad \in BOOLEAN, LinkTail(bad)
    PROVE  HitInv' /\ OwnInv'
<1> DEFINE z == Last(Chain(call.dir))
<1>1. /\ pc = "tail" /\ pc \in Busy /\ dir' = dir /\ call' = call /\ first' = first
      /\ old' = old /\ at' = at /\ prev' = prev /\ pc' = "zero"
      /\ fat' = IF bad THEN fat ELSE [fat EXCEPT ![z] = old]
      /\ past' = IF bad THEN past \cup {"lost"} ELSE past
      /\ old \in Cluster \ {Root} /\ ~call.hit /\ first \in Link /\ call.dir \in Cluster
  BY DEF LinkTail, SetFat, Blame, Busy, locals, IInv, TInv, StepInv, LocalInv, CallInv,
         CallSet, Link
<1>2. HitInv'
  BY <1>1 DEF HitInv
<1>3. ASSUME Sound' PROVE \E o : Owned(o)'
  <2>1. ~bad /\ Sound
    BY <1>1, <1>3 DEF Sound
  <2>2. PICK own : Owned(own)
    BY <2>1 DEF IInv, OwnInv
  <2>3. (\A b \in Cluster : own[b] # Gone) /\ own[call.dir] \notin {None, New, Gone}
        /\ own[old] = None /\ fat[old] = EOF
    BY <1>1, <2>2 DEF Owned, Doing
  <2>4. z \in Cluster /\ own[z] = own[call.dir]
    <3>1. FatType /\ call.dir \in Link /\ call.dir # 0
      BY <1>1, FatTypes, SizesOK DEF IInv, TInv, Link
    <3>2. Len(Chain(call.dir)) \in Nat /\ Len(Chain(call.dir)) >= 1
      BY <3>1, ChainNotEmpty
    <3>3. Len(Chain(call.dir)) \in 1 .. Len(Chain(call.dir))
      BY <3>2
    <3>4. z = Chain(call.dir)[Len(Chain(call.dir))]
      BY DEF Last
    <3> QED  BY <1>1, <2>2, <2>3, <3>1, <3>3, <3>4, ChainOwned DEF Owned
  <2> HIDE DEF z
  <2>5. old # z /\ EOF \notin Cluster /\ EOF # 0 /\ old # 0
    BY <1>1, <2>3, <2>4, SizesOK
  <2>6. \A b \in Cluster : fat'[b] = IF b = z THEN old ELSE fat[b]
    BY <1>1, <2>1 DEF IInv, TInv, DiskInv
  <2>7. \A p \in Places : (Live(p)' <=> Live(p)) /\ FirstOf(p)' = FirstOf(p)
    BY <1>1 DEF Live, FirstOf
  <2>8. PICK o : o = [own EXCEPT ![old] = own[call.dir]]
    OBVIOUS
  <2>9. o \in [Cluster -> Owner]
        /\ \A b \in Cluster : o[b] = IF b = old THEN own[call.dir] ELSE own[b]
    BY <1>1, <2>2, <2>8 DEF Owned
  <2>10. \A b \in Cluster : own[b] # None => fat[b] # old
    BY <1>1, <2>2, <2>3 DEF Owned, Linked
  <2>11. Linked(o)'
    BY <1>1, <2>2, <2>3, <2>4, <2>5, <2>6, <2>9, <2>10 DEF Owned, Linked
  <2>12. Used(o)'
    BY <1>1, <2>2, <2>3, <2>4, <2>5, <2>6, <2>9 DEF Owned, Used
  <2>13. ASSUME NEW p \in Places, Live(p), FirstOf(p) # 0
         PROVE  FirstOf(p) # old /\ o[FirstOf(p)] = p
    <3>1. own[FirstOf(p)] = p /\ p # None
      BY <2>2, <2>13, PlacesAre DEF Owned, Named
    <3>2. FirstOf(p) \in Cluster
      <4>1. dir[p[1]][p[2]] \in EntrySet
        BY PlaceEntry, IInvTypes
      <4> QED  BY <2>13, <4>1, EntryIs DEF Live, FirstOf, Link
    <3> QED  BY <2>3, <2>9, <3>1, <3>2
  <2>14. first # 0 => first # old /\ o[first] = New
    BY <1>1, <2>2, <2>3, <2>9, PlacesAre DEF Owned, Named, Link
  <2>15. Named(o)'
    BY <1>1, <2>2, <2>7, <2>9, <2>13, <2>14, SizesOK DEF Owned, Named
  <2>16. Led(o)'
    <3> SUFFICES ASSUME NEW c \in Cluster, o[c] # None, fat'[c] \in Cluster
                 PROVE  /\ fat'[c] # first
                        /\ \A p \in Places : Live(p) => fat'[c] # FirstOf(p)
      BY <1>1, <2>7 DEF Led
    <3>1. CASE c = z
      <4>1. fat'[c] = old
        BY <2>6, <3>1
      <4> QED  BY <2>5, <2>13, <2>14, <4>1
    <3>2. CASE c # z
      <4>1. fat'[c] = fat[c] /\ c # old /\ own[c] # None
        BY <2>3, <2>5, <2>6, <2>9, <3>2
      <4> QED  BY <2>2, <4>1 DEF Owned, Led
    <3> QED  BY <3>1, <3>2
  <2>17. Doing(o)'
    BY <1>1, <2>3, <2>9 DEF Doing
  <2> QED  BY <2>9, <2>11, <2>12, <2>15, <2>16, <2>17 DEF Owned
<1> QED  BY <1>2, <1>3 DEF OwnInv

LEMMA ZeroTailOwned ==
    ASSUME IInv, TInv', NEW bad \in BOOLEAN, ZeroTail(bad)
    PROVE  HitInv' /\ OwnInv'
<1>1. /\ pc = "zero" /\ pc \in Busy /\ pc' = "slots" /\ ~call.hit /\ old \in Cluster
      /\ dir' = IF bad THEN dir ELSE [dir EXCEPT ![old] = Idle]
      /\ past' = IF bad THEN past \cup {"torn"} ELSE past
      /\ fat' = fat /\ call' = call /\ first' = first /\ prev' = prev /\ old' = old
  BY DEF ZeroTail, Blame, Busy, IInv, TInv, LocalInv, StepInv, CallInv, Link
<1>2. HitInv'
  BY <1>1 DEF HitInv
<1>3. ASSUME Sound' PROVE \E o : Owned(o)'
  <2>1. ~bad /\ Sound
    BY <1>1, <1>3 DEF Sound
  <2>2. PICK own : Owned(own)
    BY <2>1 DEF IInv, OwnInv
  <2>3. Fewer
    <3>1. Idle \in [1 .. Slots -> EntrySet] /\ \A i \in 1 .. Slots : ~IsEntry(Idle[i])
      BY BlankClusters DEF Idle, End, IsEntry
    <3>2. DirType /\ dir' = [dir EXCEPT ![old] = Idle]
      BY <1>1, <2>1 DEF IInv, TInv, DiskInv
    <3> QED  BY <1>1, <3>1, <3>2, FewerIfBlank
  <2>4. Linked(own)' /\ Used(own)' /\ Named(own)' /\ Led(own)'
    BY <1>1, <2>2, <2>3, Kept
  <2>5. Doing(own)'
    BY <1>1, <2>2 DEF Owned, Doing
  <2> QED  BY <2>2, <2>4, <2>5 DEF Owned
<1> QED  BY <1>2, <1>3 DEF OwnInv

LEMMA WriteSlotOwned ==
    ASSUME IInv, TInv', NEW bad \in BOOLEAN, WriteSlot(bad)
    PROVE  HitInv' /\ OwnInv'
<1> DEFINE n == SlotsFor(call.name)
<1>1. /\ pc = "slots" /\ pc \in Busy /\ ~call.hit /\ fat' = fat /\ call \in CallSet
      /\ first \in Link \ {Root} /\ (call.op = "mkdir" => first # 0)
      /\ at[1] \in Cluster /\ at[2] \in 1 .. Slots /\ k \in 1 .. n /\ at[2] + n - 1 <= Slots
  BY DEF WriteSlot, Busy, IInv, TInv, LocalInv, CallInv
<1>2. PICK c \in Cluster : c = at[1]
  BY <1>1
<1>3. PICK i \in 1 .. Slots : i = at[2] + k - 1
  <2>1. n = 1 \/ n = 2
    BY SlotsForIs
  <2> HIDE DEF n
  <2>2. at[2] + k - 1 \in 1 .. Slots
    BY <1>1, <2>1, SizesOK
  <2> QED  BY <2>2
<1>4. CASE bad
  <2>1. dir' = dir
    BY <1>4 DEF WriteSlot, SetEntry
  <2>2. PICK also : Fail(also)
    BY <1>4 DEF WriteSlot
  <2> QED  BY <1>1, <2>1, <2>2, FailOwned
<1>5. CASE ~bad /\ k = n
  <2>1. Finish /\ past' = past /\ dir' = [dir EXCEPT ![c][i] = NewEntry]
    BY <1>2, <1>3, <1>5 DEF WriteSlot, SetEntry
  <2>2. NewEntry \in EntrySet /\ NewEntry.first = first
    BY <1>1, NewEntryIs
  <2>3. PICK e \in EntrySet : e = NewEntry
    BY <2>2
  <2>4. dir' = [dir EXCEPT ![c][i] = e] /\ e.first = first
    BY <2>1, <2>2, <2>3
  <2> QED  BY <1>1, <2>1, <2>4, EntryOwned
<1>6. CASE ~bad /\ k # n
  <2>1. /\ pc' = pc /\ call' = call /\ first' = first /\ prev' = prev /\ old' = old
        /\ at' = at /\ past' = past /\ dir' = [dir EXCEPT ![c][i] = LongEntry(call.name)]
    BY <1>2, <1>3, <1>6 DEF WriteSlot, SetEntry
  <2>2. PICK e \in EntrySet : e = LongEntry(call.name)
    BY <1>1 DEF EntrySet, CallSet
  <2>3. dir' = [dir EXCEPT ![c][i] = e] /\ ~IsEntry(e) /\ DirType
    BY <2>1, <2>2 DEF LongEntry, IsEntry, IInv, TInv, DiskInv
  <2>4. Fewer
    BY <2>1, <2>3, FewerIfErased
  <2>5. HitInv'
    BY <1>1, <2>1 DEF HitInv
  <2>6. ASSUME Sound' PROVE \E o : Owned(o)'
    <3>1. PICK own : Owned(own)
      BY <2>1, <2>6 DEF IInv, OwnInv, Sound
    <3>2. Linked(own)' /\ Used(own)' /\ Named(own)' /\ Led(own)'
      BY <1>1, <2>1, <2>4, <3>1, Kept
    <3>3. Doing(own)'
      BY <1>1, <2>1, <3>1 DEF Owned, Doing
    <3> QED  BY <3>1, <3>2, <3>3 DEF Owned
  <2> QED  BY <2>5, <2>6 DEF OwnInv
<1> QED  BY <1>4, <1>5, <1>6

LEMMA EraseEntryOwned ==
    ASSUME IInv, TInv', NEW bad \in BOOLEAN, EraseEntry(bad)
    PROVE  HitInv' /\ OwnInv'
<1>1. /\ pc = "erase" /\ pc \in Busy /\ fat' = fat /\ at \in Link \X (0 .. Slots)
      /\ at[1] \in Cluster /\ k \in 1 .. at[2] /\ at[2] \in 1 .. Slots /\ call.hit
  BY DEF EraseEntry, Busy, IInv, TInv, LocalInv, CallInv
<1>2. CASE bad
  <2>1. Fail({"torn"}) /\ dir' = dir
    BY <1>2 DEF EraseEntry, SetEntry
  <2> QED  BY <1>1, <2>1, FailOwned
<1>3. CASE ~bad
  <2>1. PICK c \in Cluster : c = at[1]
    BY <1>1
  <2>2. PICK i \in 1 .. Slots : i = k
    BY <1>1, SizesOK
  <2>3. PICK e \in EntrySet : e = Erased
    BY DEF EntrySet
  <2>12. SetEntry(FALSE, c, i, e)
    BY <1>3, <2>1, <2>2, <2>3 DEF EraseEntry, SetEntry
  <2>13. DirType
    BY DEF IInv, TInv, DiskInv
  <2>14. ~IsEntry(e)
    BY <2>3 DEF Erased, IsEntry
  <2>4. dir' = [dir EXCEPT ![c][i] = e] /\ ~IsEntry(e) /\ DirType
    BY <2>12, <2>13, <2>14 DEF SetEntry
  <2>11. Rewritten(c, i, e)
    BY <2>12, <2>13, EntryRewritten
  <2>5. \/ /\ k = at[2] /\ Finish
        \/ /\ k # at[2] /\ pc' = pc /\ call' = call /\ first' = first /\ prev' = prev
           /\ old' = old /\ at' = at
    BY <1>3 DEF EraseEntry
  <2>6. past \subseteq past'
    BY <1>3 DEF EraseEntry, Blame
  <2>7. k = at[2] => at = <<c, i>>
    BY <1>1, <2>1, <2>2
  <2>8. Fewer
    BY <2>4, <2>5, <2>7, FewerIfErased
  <2>9. HitInv'
    <3>1. CASE k = at[2]
      <4>1. call'.hit = FALSE
        BY <2>5, <3>1 DEF Finish, NoCall
      <4> QED  BY <4>1 DEF HitInv
    <3>2. CASE k # at[2]
      <4>1. PICK q \in Places : q = at
        <5>1. at = <<at[1], at[2]>>
          BY <1>1
        <5> QED  BY <1>1, <5>1 DEF Places
      <4>2. q # <<c, i>>
        BY <2>2, <3>2, <4>1
      <4>3. dir'[q[1]][q[2]] = dir[q[1]][q[2]]
        BY <2>11, <4>2 DEF Rewritten
      <4> QED  BY <2>5, <3>2, <4>1, <4>3 DEF IInv, HitInv, FirstOf
    <3> QED  BY <3>1, <3>2
  <2>10. ASSUME Sound' PROVE \E o : Owned(o)'
    <3>1. PICK own : Owned(own)
      BY <2>6, <2>10, SoundBefore DEF IInv, OwnInv
    <3>2. first' \in {first, 0} /\ pc' # "free"
      BY <1>1, <2>5 DEF Finish
    <3>3. Linked(own)' /\ Used(own)' /\ Named(own)' /\ Led(own)'
      BY <1>1, <2>8, <3>1, <3>2, Kept
    <3>4. Doing(own)'
      <4>1. CASE k = at[2]
        BY <1>1, <2>5, <3>1, <4>1 DEF Owned, Doing, Finish, Busy
      <4>2. CASE k # at[2]
        BY <1>1, <2>5, <3>1, <4>2 DEF Owned, Doing
      <4> QED  BY <4>1, <4>2
    <3> QED  BY <3>1, <3>3, <3>4 DEF Owned
  <2> QED  BY <2>9, <2>10 DEF OwnInv
<1> QED  BY <1>2, <1>3

(* Power goes off.  While the old chain has not begun to be freed, it is the entry's again. *)
LEMMA PowerOffOwned ==
    ASSUME IInv, TInv', PowerOff
    PROVE  HitInv' /\ OwnInv'
<1>1. /\ pc # "none" /\ fat' = fat /\ dir' = dir
      /\ pc' = "none" /\ call' = NoCall /\ first' = 0 /\ call'.hit = FALSE
      /\ past \subseteq past' /\ (OldFreed => "freed" \in past')
  BY DEF PowerOff, Finish, disk, NoCall
<1>2. HitInv'
  BY <1>1 DEF HitInv
<1>3. ASSUME Sound' PROVE \E o : Owned(o)'
  <2>1. Sound /\ ~OldFreed
    BY <1>1, <1>3 DEF Sound
  <2>2. PICK own : Owned(own)
    BY <2>1 DEF IInv, OwnInv
  <2>3. CASE call.chain = 0 \/ ~call.hit
    <3>1. Fewer
      <4> SUFFICES ASSUME NEW p \in Places, Live(p)'
                   PROVE  FirstOf(p)' = 0 \/ (Live(p) /\ FirstOf(p)' = FirstOf(p))
        BY DEF Fewer
      <4>1. IsEntry(dir[p[1]][p[2]])
        BY <1>1 DEF Live
      <4>2. CASE call.hit /\ p = at
        BY <1>1, <2>3, <4>1, <4>2 DEF IInv, HitInv, FirstOf
      <4>3. CASE ~(call.hit /\ p = at)
        BY <1>1, <4>1, <4>3 DEF Live, FirstOf
      <4> QED  BY <4>2, <4>3
    <3>2. Linked(own)' /\ Used(own)' /\ Named(own)' /\ Led(own)'
      BY <1>1, <2>2, <3>1, Kept
    <3>3. PICK o : /\ o = [b \in Cluster |-> IF own[b] = Gone THEN None ELSE own[b]]
                   /\ o \in [Cluster -> Owner] /\ \A b \in Cluster : o[b] # Gone
                   /\ Linked(o)' /\ Used(o)' /\ Named(o)' /\ Led(o)'
      BY <2>2, <3>2, Forgotten DEF Owned, TInv, DiskInv, LocalInv
    <3>4. Doing(o)'
      BY <1>1, <3>3 DEF Doing, Busy
    <3> QED  BY <3>3, <3>4 DEF Owned
  <2>4. CASE call.chain # 0 /\ call.hit
    <3>1. pc = "free" /\ old = call.chain /\ pc \in Busy /\ old \in Cluster /\ first = 0
      <4>1. pc = "free" /\ old = call.chain
        BY <2>1, <2>4 DEF OldFreed
      <4> QED  BY <2>4, <4>1 DEF Busy, IInv, TInv, LocalInv, StepInv, Link
    <3>2. at \in Places
      <4>1. at[1] \in Cluster /\ at[2] \in 1 .. Slots
        BY <2>4, <3>1 DEF IInv, TInv, CallInv
      <4>2. at = <<at[1], at[2]>>
        BY DEF IInv, TInv, LocalInv
      <4> QED  BY <4>1, <4>2 DEF Places
    <3>3. PICK q \in Places : q = at
      BY <3>2
    <3>4. PICK o : o = [b \in Cluster |-> IF own[b] = Gone THEN q ELSE own[b]]
      OBVIOUS
    <3>5. /\ o \in [Cluster -> Owner] /\ RootDir \notin {None, New, Gone}
          /\ New \notin {None, Gone} /\ Gone # None /\ q \notin {None, RootDir, New, Gone}
          /\ \A b \in Cluster : o[b] # Gone
      BY <2>2, <3>4, PlacesAre DEF Owned
    <3>6. own[old] = Gone /\ \A c \in Cluster : own[c] = Gone => fat[c] # 0
      BY <2>2, <3>1 DEF Owned, Doing
    <3>7. ASSUME NEW p \in Places, Live(p)'
          PROVE  /\ p = q => FirstOf(p)' = old
                 /\ p # q => Live(p) /\ FirstOf(p)' = FirstOf(p)
      <4>1. IsEntry(dir[p[1]][p[2]]) /\ FirstOf(p)' = FirstOf(p)
        BY <1>1, <3>7 DEF Live, FirstOf
      <4>2. p = q => FirstOf(p) = call.chain
        BY <2>4, <3>3, <4>1 DEF IInv, HitInv
      <4> QED  BY <3>1, <3>3, <4>1, <4>2 DEF Live
    <3>8. Linked(o)'
      BY <1>1, <2>2, <3>4, <3>5 DEF Owned, Linked
    <3>9. Used(o)'
      BY <1>1, <2>2, <3>4, <3>5, <3>6 DEF Owned, Used
    <3>10. Named(o)'
      <4>1. ASSUME NEW p \in Places, Live(p)', FirstOf(p)' # 0 PROVE o[FirstOf(p)'] = p
        <5>1. CASE p = q
          BY <3>1, <3>4, <3>6, <3>7, <4>1, <5>1
        <5>2. CASE p # q
          <6>1. Live(p) /\ FirstOf(p)' = FirstOf(p)
            BY <3>7, <4>1, <5>2
          <6>2. own[FirstOf(p)] = p
            BY <2>2, <4>1, <6>1 DEF Owned, Named
          <6>3. FirstOf(p) \in Cluster
            <7>1. dir[p[1]][p[2]] \in EntrySet
              BY PlaceEntry, IInvTypes
            <7> QED  BY <4>1, <6>1, <7>1, EntryIs DEF Live, FirstOf, Link
          <6> QED  BY <3>4, <6>1, <6>2, <6>3, PlacesAre
        <5> QED  BY <5>1, <5>2
      <4>2. o[Root] = RootDir
        BY <2>2, <3>4, <3>5, SizesOK DEF Owned, Named
      <4> QED  BY <1>1, <4>1, <4>2 DEF Named
    <3>11. Led(o)'
      <4> SUFFICES ASSUME NEW c \in Cluster, o[c] # None, fat[c] \in Cluster
                   PROVE  /\ fat[c] # 0
                          /\ \A p \in Places : Live(p)' => fat[c] # FirstOf(p)'
        BY <1>1 DEF Led
      <4>1. own[c] # None
        BY <3>4, <3>5
      <4>2. fat[c] # call.chain /\ \A p \in Places : Live(p) => fat[c] # FirstOf(p)
        BY <2>2, <3>1, <4>1 DEF Owned, Led
      <4> QED  BY <3>1, <3>7, <4>2, SizesOK
    <3>12. Doing(o)'
      BY <1>1, <3>5 DEF Doing, Busy
    <3> QED  BY <3>5, <3>8, <3>9, <3>10, <3>11, <3>12 DEF Owned
  <2> QED  BY <2>3, <2>4
<1> QED  BY <1>2, <1>3 DEF OwnInv

LEMMA StutterOwned == ASSUME IInv, UNCHANGED vars PROVE HitInv' /\ OwnInv'
<1>1. /\ fat' = fat /\ dir' = dir /\ pc' = pc /\ call' = call /\ first' = first
      /\ prev' = prev /\ old' = old /\ at' = at /\ past' = past
  BY DEF vars, disk, locals
<1>2. HitInv'
  BY <1>1 DEF IInv, HitInv, FirstOf
<1>3. Fewer
  BY <1>1, FewerIfSame
<1>4. ASSUME Sound' PROVE \E o : Owned(o)'
  <2>1. PICK own : Owned(own)
    BY <1>1, <1>4 DEF IInv, OwnInv, Sound
  <2>2. Linked(own)' /\ Used(own)' /\ Named(own)' /\ Led(own)'
    BY <1>1, <1>3, <2>1, Kept
  <2>3. Doing(own)'
    BY <1>1, <2>1 DEF Owned, Doing
  <2> QED  BY <2>1, <2>2, <2>3 DEF Owned
<1> QED  BY <1>2, <1>4 DEF OwnInv

LEMMA NextOwned == IInv /\ [Next]_vars => IInv'
<1> SUFFICES ASSUME IInv, [Next]_vars PROVE IInv'
  OBVIOUS
<1>1. TInv'
  BY NextType DEF IInv
<1>2. ASSUME NEW d \in Parents, NEW n \in Names, NEW len \in Lengths, WriteFile(d, n, len)
      PROVE  HitInv' /\ OwnInv'
  <2> DEFINE j == WriteFinds(d, n)
  <2>1. FatType /\ DirType /\ d \in Link
    BY FatTypes, ParentsAre DEF IInv, TInv, DiskInv, Link
  <2>2. j \in Nat /\ (j # 0 => j \in 1 .. Len(Entries(d)) /\ IsEntry(Entries(d)[j]))
    BY <2>1, Found
  <2>3. Begin("write", d, n, len, j) /\ past \subseteq past'
    BY <1>2 DEF WriteFile
  <2> HIDE DEF j
  <2> QED  BY <1>1, <2>2, <2>3, BeginOwned
<1>3. ASSUME NEW n \in Names, CreateDirectory(n) PROVE HitInv' /\ OwnInv'
  <2>1. Begin("mkdir", Root, n, 1, 0) /\ Root \in Parents /\ past \subseteq past'
    BY <1>3 DEF CreateDirectory, Parents, Blame
  <2> QED  BY <1>1, <2>1, BeginOwned
<1>4. ASSUME NEW d \in Parents, NEW n \in Names, DeleteFile(d, n) PROVE HitInv' /\ OwnInv'
  <2> DEFINE j == DeleteFinds(d, n)
  <2>1. FatType /\ DirType /\ d \in Link
    BY FatTypes, ParentsAre DEF IInv, TInv, DiskInv, Link
  <2>2. j \in Nat /\ (j # 0 => j \in 1 .. Len(Entries(d)) /\ IsEntry(Entries(d)[j]))
    BY <2>1, Found
  <2>3. Begin("delete", d, n, 0, j) /\ past \subseteq past'
    BY <1>4 DEF DeleteFile
  <2> HIDE DEF j
  <2> QED  BY <1>1, <2>2, <2>3, BeginOwned
<1>5. ASSUME FindRoom PROVE HitInv' /\ OwnInv'
  BY <1>1, <1>5, FindRoomOwned
<1>6. ASSUME PowerOff PROVE HitInv' /\ OwnInv'
  BY <1>1, <1>6, PowerOffOwned
<1>7. ASSUME NEW bad \in BOOLEAN, Write(bad) PROVE HitInv' /\ OwnInv'
  BY <1>1, <1>7, FreeChainStepOwned, AllocateOwned, LinkClusterOwned, WriteClusterOwned,
     UpdateEntryOwned, ExpandOwned, LinkTailOwned, ZeroTailOwned, WriteSlotOwned,
     EraseEntryOwned DEF Write
<1>8. ASSUME UNCHANGED vars PROVE HitInv' /\ OwnInv'
  BY <1>8, StutterOwned
<1>9. HitInv' /\ OwnInv'
  BY <1>2, <1>3, <1>4, <1>5, <1>6, <1>7, <1>8, NextSteps DEF IInv
<1> QED  BY <1>1, <1>9 DEF IInv

LEMMA IInvAlways == Spec => []IInv
BY InitOwned, NextOwned, PTL DEF Spec

(* The chains of NoClusterShared have different owners. *)
LEMMA ChainsOwned ==
    ASSUME TInv, NEW own, Owned(own)
    PROVE  \A h \in Chains : /\ h[1] \notin {None, Gone} /\ h[2] \in Link
                             /\ h[2] # 0 => own[h[2]] = h[1]
                             /\ \A g \in Chains : g[1] = h[1] => g = h
<1>1. FatType /\ DirType
  BY FatTypes DEF TInv, DiskInv
<1>2. ASSUME NEW d \in Parents, NEW h \in ChainsIn(d)
      PROVE  h = <<h[1], FirstOf(h[1])>> /\ h[1] \in Places /\ Live(h[1]) /\ h[2] \in Link
  <2>1. d \in Link
    BY <1>1, ParentsAre DEF Link
  <2>2. PICK j \in 1 .. Len(Entries(d)) :
            /\ h = <<Place(d, j), Entries(d)[j].first>>
            /\ IsEntry(Entries(d)[j]) /\ ~(call.hit /\ Place(d, j) = at)
    BY <1>2 DEF ChainsIn
  <2>3. PICK p : p = Place(d, j)
    OBVIOUS
  <2>4. Entries(d)[j] = dir[p[1]][p[2]] /\ p[1] \in Cluster /\ p[2] \in 1 .. Slots
        /\ Entries(d)[j] \in EntrySet
    BY <1>1, <2>1, <2>3, EntryPlace
  <2>5. p = <<p[1], p[2]>>
    BY <2>3 DEF Place
  <2>6. p \in Places
    BY <2>4, <2>5 DEF Places
  <2>7. Live(p) /\ h = <<p, FirstOf(p)>> /\ FirstOf(p) \in Link
    BY <2>2, <2>3, <2>4, <2>6, EntryIs DEF Live, FirstOf
  <2> QED  BY <2>6, <2>7
<1>3. ASSUME NEW h \in Chains
      PROVE  \/ h = <<RootDir, Root>>
             \/ h = <<New, first>>
             \/ h = <<h[1], FirstOf(h[1])>> /\ h[1] \in Places /\ Live(h[1]) /\ h[2] \in Link
  BY <1>2, <1>3 DEF Chains, RootDir, New
<1>4. own[Root] = RootDir /\ (first # 0 => own[first] = New) /\ Root \in Link /\ first \in Link
      /\ \A p \in Places : Live(p) /\ FirstOf(p) # 0 => own[FirstOf(p)] = p
  BY SizesOK DEF Owned, Named, TInv, LocalInv, Link
<1>5. ASSUME NEW h \in Chains
      PROVE  h[1] \notin {None, Gone} /\ h[2] \in Link /\ (h[2] # 0 => own[h[2]] = h[1])
  <2>1. CASE h = <<RootDir, Root>>
    BY <1>4, <2>1, PlacesAre
  <2>2. CASE h = <<New, first>>
    BY <1>4, <2>2, PlacesAre
  <2>3. CASE h = <<h[1], FirstOf(h[1])>> /\ h[1] \in Places /\ Live(h[1]) /\ h[2] \in Link
    <3>1. h[2] = FirstOf(h[1])
      BY <2>3
    <3> QED  BY <1>4, <2>3, <3>1, PlacesAre
  <2> QED  BY <1>3, <2>1, <2>2, <2>3
<1>6. ASSUME NEW h \in Chains, NEW g \in Chains, g[1] = h[1] PROVE g = h
  <2>1. CASE h[1] = RootDir
    BY <1>3, <1>6, <2>1, PlacesAre
  <2>2. CASE h[1] = New
    BY <1>3, <1>6, <2>2, PlacesAre
  <2>3. CASE h[1] \notin {RootDir, New}
    BY <1>3, <1>6, <2>3
  <2> QED  BY <2>1, <2>2, <2>3
<1> QED  BY <1>5, <1>6

LEMMA OwnedNotShared == IInv => NoClusterShared
<1> SUFFICES ASSUME IInv, Sound
             PROVE  Disjoint(Chains) /\ \A h \in Chains : \A c \in Clusters(h) : fat[c] # 0
  BY DEF NoClusterShared, Sound
<1>1. PICK own : Owned(own)
  BY DEF IInv, OwnInv
<1>2. TInv /\ FatType
  BY FatTypes DEF IInv, TInv
<1>3. ASSUME NEW h \in Chains, NEW c \in Clusters(h)
      PROVE  c \in Cluster /\ own[c] = h[1] /\ fat[c] # 0
  <2>1. h[1] \notin {None, Gone} /\ h[2] \in Link /\ (h[2] # 0 => own[h[2]] = h[1])
    BY <1>1, <1>2, ChainsOwned
  <2>2. Chain(h[2]) \in Seq(Cluster)
    BY <1>2, <2>1, ChainIs
  <2>3. PICK i \in 1 .. Len(Chain(h[2])) : c = Chain(h[2])[i]
    BY <2>2 DEF Clusters, Range
  <2>4. h[2] # 0
    BY <1>2, <2>1, <2>3, ChainIs
  <2>5. h[2] \in Cluster /\ own[h[2]] # None
    BY <2>1, <2>4 DEF Link
  <2>6. c \in Cluster /\ own[c] = own[h[2]]
    BY <1>1, <1>2, <2>3, <2>5, ChainOwned DEF Owned
  <2> QED  BY <1>1, <2>1, <2>4, <2>6 DEF Owned, Used
<1>4. ASSUME NEW g \in Chains, NEW h \in Chains, g # h PROVE Clusters(g) \cap Clusters(h) = {}
  <2>1. g[1] # h[1]
    BY <1>1, <1>2, <1>4, ChainsOwned
  <2> QED  BY <1>3, <2>1
<1>5. Disjoint(Chains)
  BY <1>4 DEF Disjoint
<1> QED  BY <1>3, <1>5

(* FatAllocateCluster never hands out a cluster that a file, a directory or the call under
   way still uses, and no two of them lead to the same one: with calls given up at any write,
   power failures and failed writes, as long as none of what NoClusterShared excepts has
   happened. *)
THEOREM Fat32NoClusterShared == Spec => []NoClusterShared
BY IInvAlways, OwnedNotShared, PTL
-----------------------------------------------------------------------------
(* The other properties are about what is found along chains, so they need the chains as
   sequences, and what each write to the FAT makes of them. *)

(* s is the chain that begins with c in the FAT f. *)
IsChain(f, c, s) ==
    /\ s \in Seq(Cluster) /\ Len(s) <= MaxCluster - 2
    /\ c = 0 => Len(s) = 0
    /\ c # 0 => Len(s) >= 1 /\ s[1] = c
    /\ \A i \in 1 .. Len(s) - 1 : s[i + 1] = f[s[i]]
    /\ Len(s) >= 1 /\ Len(s) < MaxCluster - 2 => f[s[Len(s)]] \notin Cluster

(* A chain goes on as long as the links do. *)
LEMMA ChainStops ==
    ASSUME FatType, NEW c \in Link, Len(Chain(c)) >= 1, Len(Chain(c)) < MaxCluster - 2
    PROVE  fat[Chain(c)[Len(Chain(c))]] \notin Cluster
<1> DEFINE w == Walk(c)
           ends == {i \in Cluster : w[i] \notin Cluster}
           n == (IF ends = {} THEN MaxCluster ELSE Min(ends)) - 2
           ch == [i \in 1 .. n |-> w[i + 1]]
<1>1. /\ w \in [Cluster -> Link]
      /\ \A i \in Cluster : w[i] = IF i = 2 THEN c ELSE NextCluster(w[i - 1])
  BY WalkIs
<1>2. Chain(c) = ch
  BY DEF Chain
<1>3. ends \in SUBSET Nat
  BY SizesOK
<1>4. ends # {} => Min(ends) \in ends /\ Min(ends) \in Cluster /\ w[Min(ends)] \notin Cluster
  BY <1>3, MinIs
<1> HIDE DEF w
<1>5. n \in Int /\ (ends # {} => n + 2 = Min(ends))
  BY <1>4, SizesOK
<1>6. n \in Nat => Len(ch) = n
  <2> HIDE DEF n
  <2> QED  OBVIOUS
<1>7. n \in Nat
  BY <1>4, <1>5, SizesOK DEF Cluster
<1>8. n >= 1 /\ n < MaxCluster - 2 /\ Len(Chain(c)) = n
  <2> HIDE DEF n, ch
  <2> QED  BY <1>2, <1>6, <1>7
<1>9. ends # {}
  BY <1>8, SizesOK
<1>10. n + 2 \in Cluster /\ w[n + 2] \notin Cluster
  BY <1>4, <1>5, <1>9
<1> HIDE DEF n
<1>11. n + 1 \in Cluster
  BY <1>8, <1>7, SizesOK DEF Cluster
<1>12. w[n + 2] = NextCluster(w[n + 1])
  <2>1. PICK m \in Cluster : m = n + 2
    BY <1>10
  <2>2. w[m] = IF m = 2 THEN c ELSE NextCluster(w[m - 1])
    BY <1>1
  <2>3. m # 2 /\ m - 1 = n + 1
    BY <1>7, <1>8, <2>1
  <2> QED  BY <2>1, <2>2, <2>3
<1>13. Chain(c)[n] = w[n + 1]
  BY <1>2, <1>7, <1>8
<1>14. Chain(c)[n] \in Cluster
  BY <1>7, <1>8, ChainIs
<1>15. fat[w[n + 1]] \in Cluster => NextCluster(w[n + 1]) = fat[w[n + 1]]
  BY <1>1, <1>11, <1>13, <1>14, NextIs
<1> QED  BY <1>8, <1>10, <1>12, <1>13, <1>15

Chained == \A c \in Link : IsChain(fat, c, Chain(c))

LEMMA ChainFacts == FatType => Chained
<1> SUFFICES ASSUME FatType, NEW c \in Link PROVE IsChain(fat, c, Chain(c))
  BY DEF Chained
<1>1. Len(Chain(c)) \in 0 .. MaxCluster - 2 /\ Chain(c) \in Seq(Cluster)
  BY ChainIs
<1>2. c = 0 => Len(Chain(c)) = 0
  BY ChainIs
<1>3. c # 0 => Len(Chain(c)) >= 1 /\ Chain(c)[1] = c
  BY ChainIs
<1>4. \A i \in 1 .. Len(Chain(c)) - 1 : Chain(c)[i + 1] = fat[Chain(c)[i]]
  BY ChainIs
<1> QED  BY <1>1, <1>2, <1>3, <1>4, ChainStops, SizesOK DEF IsChain

(* There is only one. *)
LEMMA ChainUnique ==
    ASSUME NEW f, NEW c \in Link, NEW s, NEW t, IsChain(f, c, s), IsChain(f, c, t)
    PROVE  s = t
<1>1. /\ s \in Seq(Cluster) /\ t \in Seq(Cluster) /\ Len(s) \in Nat /\ Len(t) \in Nat
      /\ MaxCluster - 2 \in Nat /\ Len(s) <= MaxCluster - 2 /\ Len(t) <= MaxCluster - 2
  BY SizesOK DEF IsChain
<1> DEFINE Bad == {i \in 1 .. Len(s) : i <= Len(t) /\ s[i] # t[i]}
<1>2. ASSUME Bad # {} PROVE FALSE
  <2> DEFINE m == Min(Bad)
  <2>1. Bad \in SUBSET Nat
    BY <1>1
  <2>2. m \in Bad /\ \A x \in Bad : m <= x
    BY <1>2, <2>1, MinIs
  <2> HIDE DEF m
  <2>3. m \in 1 .. Len(s) /\ m <= Len(t) /\ s[m] # t[m]
    BY <2>2
  <2>4. CASE m = 1
    BY <1>1, <2>3, <2>4 DEF IsChain
  <2>5. CASE m # 1
    <3>1. m - 1 \in 1 .. Len(s) - 1 /\ m - 1 \in 1 .. Len(t) - 1 /\ m - 1 + 1 = m /\ ~(m <= m - 1)
      BY <1>1, <2>3, <2>5
    <3>2. s[m - 1] = t[m - 1]
      BY <1>1, <2>2, <3>1
    <3>3. s[m] = f[s[m - 1]] /\ t[m] = f[t[m - 1]]
      BY <3>1 DEF IsChain
    <3> QED  BY <2>3, <3>2, <3>3
  <2> QED  BY <2>4, <2>5
<1>3. \A i \in 1 .. Len(s) : i <= Len(t) => s[i] = t[i]
  BY <1>2
<1>4. ASSUME Len(s) < Len(t) PROVE FALSE
  <2>1. Len(s) >= 1
    BY <1>1, <1>4 DEF IsChain
  <2>2. f[s[Len(s)]] \notin Cluster
    BY <1>1, <1>4, <2>1 DEF IsChain
  <2>3. Len(s) \in 1 .. Len(t) - 1 /\ Len(s) \in 1 .. Len(s) /\ Len(s) + 1 \in 1 .. Len(t)
    BY <1>1, <1>4, <2>1
  <2>4. t[Len(s) + 1] = f[t[Len(s)]] /\ t[Len(s)] = s[Len(s)]
    BY <1>3, <1>4, <2>3, <1>1 DEF IsChain
  <2>5. t[Len(s) + 1] \in Cluster
    BY <1>1, <2>3
  <2> QED  BY <2>2, <2>4, <2>5
<1>5. ASSUME Len(t) < Len(s) PROVE FALSE
  <2>1. Len(t) >= 1
    BY <1>1, <1>5 DEF IsChain
  <2>2. f[t[Len(t)]] \notin Cluster
    BY <1>1, <1>5, <2>1 DEF IsChain
  <2>3. Len(t) \in 1 .. Len(s) - 1 /\ Len(t) \in 1 .. Len(s) /\ Len(t) + 1 \in 1 .. Len(s)
    BY <1>1, <1>5, <2>1
  <2>4. s[Len(t) + 1] = f[s[Len(t)]] /\ t[Len(t)] = s[Len(t)]
    BY <1>1, <1>3, <2>3 DEF IsChain
  <2>5. s[Len(t) + 1] \in Cluster
    BY <1>1, <2>3
  <2> QED  BY <2>2, <2>4, <2>5
<1>6. Len(s) = Len(t) /\ \A i \in 1 .. Len(s) : s[i] = t[i]
  BY <1>1, <1>3, <1>4, <1>5
<1> QED  BY <1>1, <1>6

(* The clusters of a chain. *)
Of(c) == Range(Chain(c))

LEMMA OfIs ==
    ASSUME FatType, NEW c \in Link
    PROVE  /\ Of(c) = {Chain(c)[i] : i \in 1 .. Len(Chain(c))} /\ Of(c) \subseteq Cluster
           /\ c = 0 => Of(c) = {}
           /\ c # 0 => c \in Of(c)
<1>1. IsChain(fat, c, Chain(c))
  BY ChainFacts DEF Chained
<1>2. DOMAIN Chain(c) = 1 .. Len(Chain(c)) /\ Len(Chain(c)) \in Nat
  BY <1>1 DEF IsChain
<1>3. \A i \in 1 .. Len(Chain(c)) : Chain(c)[i] \in Cluster
  BY <1>1 DEF IsChain
<1>4. Of(c) = {Chain(c)[i] : i \in 1 .. Len(Chain(c))}
  BY <1>2 DEF Of, Range
<1>5. c # 0 => 1 \in 1 .. Len(Chain(c)) /\ Chain(c)[1] = c
  BY <1>1, <1>2 DEF IsChain
<1>6. c = 0 => Len(Chain(c)) = 0
  BY <1>1 DEF IsChain
<1> HIDE DEF Of
<1> QED  BY <1>3, <1>4, <1>5, <1>6

(* A chain none of whose links is written stays as it is. *)
LEMMA ChainFrame ==
    ASSUME FatType, FatType', NEW c \in Link, \A b \in Of(c) : fat'[b] = fat[b]
    PROVE  Chain(c)' = Chain(c) /\ Of(c)' = Of(c)
<1>1. IsChain(fat, c, Chain(c))
  BY ChainFacts DEF Chained
<1>2. Chained'
  BY ChainFacts, PTL
<1>3. IsChain(fat', c, Chain(c)')
  BY <1>2 DEF Chained, Link
<1>4. \A i \in 1 .. Len(Chain(c)) : fat'[Chain(c)[i]] = fat[Chain(c)[i]]
  BY OfIs
<1>5. Len(Chain(c)) \in Nat
  BY <1>1 DEF IsChain
<1>6. IsChain(fat', c, Chain(c))
  BY <1>1, <1>4, <1>5 DEF IsChain
<1>7. Chain(c)' = Chain(c)
  BY <1>3, <1>6, ChainUnique
<1> QED  BY <1>7 DEF Of

(* The last link of a chain marks its end: it is not cut off by a power failure in a write,
   and does not come back to itself. *)
Ends(c) == fat[Last(Chain(c))] = EOF

(* A chain that ends comes by no cluster twice. *)
LEMMA NoRepeats ==
    ASSUME FatType, NEW c \in Cluster, Ends(c)
    PROVE  \A i, j \in 1 .. Len(Chain(c)) : Chain(c)[i] = Chain(c)[j] => i = j
<1> DEFINE s == Chain(c)
           n == Len(s)
           Bad == {t \in 0 .. n - 1 : \E i \in 1 .. n : i < n - t /\ s[i] = s[n - t]}
<1>1. c \in Link /\ IsChain(fat, c, s)
  BY ChainFacts DEF Chained, Link
<1>2. n \in Nat /\ s \in Seq(Cluster) /\ fat[s[n]] = EOF
  BY <1>1 DEF IsChain, Ends, Last
<1> HIDE DEF s
<1>3. ASSUME Bad # {} PROVE FALSE
  <2> DEFINE m == Min(Bad)
  <2>1. Bad \in SUBSET Nat
    BY <1>2
  <2>2. m \in Bad /\ \A x \in Bad : m <= x
    BY <1>3, <2>1, MinIs
  <2> HIDE DEF m
  <2>3. m \in 0 .. n - 1
    BY <2>2
  <2>4. PICK i \in 1 .. n : i < n - m /\ s[i] = s[n - m]
    BY <2>2
  <2>5. i \in 1 .. n - 1 /\ i + 1 \in 1 .. n
    BY <1>2, <2>3, <2>4
  <2>6. s[i + 1] = fat[s[i]] /\ s[i + 1] \in Cluster
    BY <1>1, <1>2, <2>5 DEF IsChain
  <2>7. CASE m = 0
    BY <1>2, <2>4, <2>6, <2>7, SizesOK
  <2>8. CASE m # 0
    <3>1. m - 1 \in 0 .. n - 1 /\ n - (m - 1) = n - m + 1 /\ n - m \in 1 .. n - 1
          /\ i + 1 < n - (m - 1) /\ ~(m <= m - 1)
      BY <1>2, <2>3, <2>4, <2>8
    <3>2. s[n - m + 1] = fat[s[n - m]]
      BY <1>1, <3>1 DEF IsChain
    <3>3. m - 1 \in Bad
      BY <2>4, <2>5, <2>6, <3>1, <3>2
    <3> QED  BY <2>2, <3>1, <3>3
  <2> QED  BY <2>7, <2>8
<1>4. ASSUME NEW i \in 1 .. n, NEW j \in 1 .. n, s[i] = s[j], i < j PROVE FALSE
  <2>1. n - j \in 0 .. n - 1 /\ n - (n - j) = j
    BY <1>2
  <2>2. n - j \in Bad
    BY <1>4, <2>1
  <2> QED  BY <1>3, <2>2
<1>5. \A i, j \in 1 .. n : s[i] = s[j] => i = j
  <2> SUFFICES ASSUME NEW i \in 1 .. n, NEW j \in 1 .. n, s[i] = s[j] PROVE i = j
    OBVIOUS
  <2>1. ~(i < j) /\ ~(j < i)
    BY <1>4
  <2> QED  BY <1>2, <2>1
<1> QED  BY <1>5 DEF s

(* So there is room in a chain that ends for every cluster it does not come by. *)
LEMMA RoomLeft ==
    ASSUME FatType, NEW c \in Cluster, Ends(c), NEW x \in Cluster, x \notin Of(c)
    PROVE  Len(Chain(c)) < MaxCluster - 2
<1> DEFINE s == Chain(c)
           n == Len(s)
           T == Cluster \ {x}
<1>1. c \in Link /\ IsChain(fat, c, s)
  BY ChainFacts DEF Chained, Link
<1>2. n \in Nat /\ s \in Seq(Cluster)
  BY <1>1 DEF IsChain
<1>3. \A i \in 1 .. n : s[i] \in T
  BY <1>1, <1>2, OfIs
<1>4. \A i, j \in 1 .. n : s[i] = s[j] => i = j
  BY NoRepeats
<1> DEFINE f == [i \in 1 .. n |-> s[i]]
<1>5. IsFiniteSet(Cluster) /\ Cardinality(Cluster) = MaxCluster - 2
  <2>1. MaxCluster \in Int /\ 2 \in Int /\ MaxCluster - 1 \in Int /\ ~(2 > MaxCluster - 1)
        /\ MaxCluster - 1 - 2 + 1 = MaxCluster - 2
    BY SizesOK
  <2>2. IsFiniteSet(2 .. MaxCluster - 1)
        /\ Cardinality(2 .. MaxCluster - 1) = MaxCluster - 1 - 2 + 1
    BY <2>1, FS_Interval
  <2> QED  BY <2>1, <2>2 DEF Cluster
<1>6. IsFiniteSet(T) /\ Cardinality(T) = MaxCluster - 3
  BY <1>5, FS_RemoveElement, SizesOK
<1>7. IsFiniteSet(1 .. n) /\ Cardinality(1 .. n) = n
  BY <1>2, FS_Interval
<1> HIDE DEF s, n
<1>8. f \in [1 .. n -> T]
  BY <1>3
<1> HIDE DEF T
<1>85. \A i \in 1 .. n : f[i] = s[i]
  OBVIOUS
<1> HIDE DEF f
<1>9. ~(MaxCluster - 3 < n)
  <2> SUFFICES ASSUME MaxCluster - 3 < n PROVE FALSE
    OBVIOUS
  <2>0. Cardinality(T) < Cardinality(1 .. n)
    BY <1>6, <1>7
  <2>1. \E i, j \in 1 .. n : i # j /\ f[i] = f[j]
    BY <1>6, <1>7, <1>8, <2>0, FS_PigeonHole, Zenon
  <2> QED  BY <1>4, <1>85, <2>1
<1> QED  BY <1>2, <1>9, SizesOK DEF n, s

(* A cluster that marks the end is linked to the last of a chain. *)
LEMMA ChainAppended ==
    ASSUME FatType, FatType', NEW c \in Cluster, Ends(c), NEW x \in Cluster, x \notin Of(c),
           fat[x] = EOF, fat' = [fat EXCEPT ![Last(Chain(c))] = x]
    PROVE  /\ Chain(c)' = Append(Chain(c), x) /\ Of(c)' = Of(c) \cup {x}
           /\ Last(Chain(c)') = x /\ fat'[x] = EOF
           /\ Len(Chain(c)') = Len(Chain(c)) + 1
           /\ Last(Chain(c)) \in Of(c)
<1> DEFINE s == Chain(c)
           n == Len(s)
           t == Append(s, x)
           z == Last(s)
<1>1. c \in Link /\ IsChain(fat, c, s) /\ 0 # c
  BY ChainFacts, SizesOK DEF Chained, Link
<1>2. n \in Nat /\ n >= 1 /\ s \in Seq(Cluster) /\ z = s[n]
  BY <1>1 DEF IsChain, Last
<1>3. n < MaxCluster - 2
  BY RoomLeft
<1>4. \A i, j \in 1 .. n : s[i] = s[j] => i = j
  BY NoRepeats
<1>5. Of(c) = {s[i] : i \in 1 .. n}
  BY <1>1, OfIs
<1>6. IsChain(fat', c, Chain(c)')
  <2>1. Chained'
    BY ChainFacts, PTL
  <2> QED  BY <2>1 DEF Chained, Link
<1>7. fat' = [fat EXCEPT ![z] = x] /\ fat \in [Cluster -> {0, EOF} \cup Cluster]
  BY DEF FatType
<1> HIDE DEF s, n, z
<1>8. t \in Seq(Cluster) /\ Len(t) = n + 1 /\ t[n + 1] = x /\ \A i \in 1 .. n : t[i] = s[i]
  BY <1>2 DEF n
<1>9. z \in Cluster /\ \A i \in 1 .. n : s[i] \in Cluster /\ (s[i] = z => i = n)
  BY <1>2, <1>4 DEF n
<1>10. x # z
  BY <1>2, <1>5
<1>11. IsChain(fat', c, t)
  <2>1. Len(t) <= MaxCluster - 2 /\ Len(t) >= 1
    BY <1>2, <1>3, <1>8, SizesOK
  <2>2. t[1] = c
    BY <1>1, <1>2, <1>8 DEF IsChain, n
  <2>3. ASSUME NEW i \in 1 .. n PROVE t[i + 1] = fat'[t[i]]
    <3>1. CASE i = n
      BY <1>2, <1>7, <1>8, <1>9, <3>1
    <3>2. CASE i # n
      <4>1. i \in 1 .. n - 1 /\ i + 1 \in 1 .. n
        BY <1>2, <3>2
      <4>2. s[i + 1] = fat[s[i]] /\ s[i] # z
        BY <1>1, <1>9, <4>1, <3>2 DEF IsChain, n
      <4> QED  BY <1>7, <1>8, <1>9, <4>1, <4>2
    <3> QED  BY <3>1, <3>2
  <2>4. fat'[x] = EOF /\ EOF \notin Cluster
    BY <1>7, <1>10, SizesOK
  <2>5. \A i \in 1 .. Len(t) - 1 : t[i + 1] = fat'[t[i]]
    BY <1>2, <1>8, <2>3
  <2>6. fat'[t[Len(t)]] \notin Cluster
    BY <1>8, <2>4
  <2> QED  BY <1>1, <1>8, <2>1, <2>2, <2>5, <2>6 DEF IsChain
<1>12. Chain(c)' = t
  BY <1>1, <1>6, <1>11, ChainUnique
<1>13. fat'[x] = EOF
  BY <1>7, <1>10
<1>14. Range(t) = {s[i] : i \in 1 .. n} \cup {x}
  <2>1. DOMAIN t = 1 .. n + 1
    BY <1>8
  <2>2. \A i \in 1 .. n + 1 : i = n + 1 \/ i \in 1 .. n
    BY <1>2
  <2>3. \A i \in 1 .. n : i \in 1 .. n + 1
    BY <1>2
  <2>4. n + 1 \in 1 .. n + 1
    BY <1>2
  <2> HIDE DEF t
  <2> QED  BY <1>8, <2>1, <2>2, <2>3, <2>4 DEF Range
<1>15. Of(c)' = Of(c) \cup {x}
  BY <1>5, <1>12, <1>14 DEF Of
<1>16. Last(t) = x
  BY <1>8 DEF Last
<1>17. z \in Of(c)
  BY <1>2, <1>5
<1> QED  BY <1>8, <1>12, <1>13, <1>15, <1>16, <1>17 DEF s, n, z

(* A cluster that leads nowhere is a chain. *)
Singles == \A c \in Cluster : fat[c] \notin Cluster => Chain(c) = <<c>>

LEMMA ChainSingle == FatType => Singles
<1> SUFFICES ASSUME FatType, NEW c \in Cluster, fat[c] \notin Cluster PROVE Chain(c) = <<c>>
  BY DEF Singles
<1>1. c \in Link /\ IsChain(fat, c, Chain(c)) /\ c # 0
  BY ChainFacts, SizesOK DEF Chained, Link
<1>2. IsChain(fat, c, <<c>>)
  BY <1>1, SizesOK DEF IsChain
<1> QED  BY <1>1, <1>2, ChainUnique

(* The first cluster of a chain is freed: the rest of it is a chain. *)
LEMMA ChainFreed ==
    ASSUME FatType, FatType', NEW c \in Cluster, Ends(c), fat' = [fat EXCEPT ![c] = 0],
           NEW d \in Cluster, d = fat[c]
    PROVE  /\ Chain(d)' = Tail(Chain(c)) /\ Of(c) = Of(d)' \cup {c}
           /\ fat'[Last(Chain(d)')] = EOF
<1> DEFINE s == Chain(c)
           n == Len(s)
           t == Tail(s)
<1>1. c \in Link /\ IsChain(fat, c, s) /\ 0 # c /\ d \in Link /\ 0 # d
  BY ChainFacts, SizesOK DEF Chained, Link
<1>2. n \in Nat /\ n >= 1 /\ n <= MaxCluster - 2 /\ s \in Seq(Cluster) /\ s[1] = c
      /\ fat[s[n]] = EOF
  BY <1>1, SizesOK DEF IsChain, Last, Ends
<1>3. \A i, j \in 1 .. n : s[i] = s[j] => i = j
  BY NoRepeats
<1>4. Of(c) = {s[i] : i \in 1 .. n}
  BY <1>1, OfIs
<1>5. Chained'
  BY ChainFacts, PTL
<1>6. IsChain(fat', d, Chain(d)')
  BY <1>1, <1>5 DEF Chained, Link
<1>7. fat \in [Cluster -> {0, EOF} \cup Cluster]
  BY DEF FatType
<1> HIDE DEF s, n
<1>8. n >= 2 /\ EOF \notin Cluster
  BY <1>2, SizesOK
<1>9. t \in Seq(Cluster) /\ Len(t) = n - 1 /\ \A i \in 1 .. n - 1 : t[i] = s[i + 1]
  <2>1. s # << >>
    BY <1>8 DEF n
  <2> QED  BY <1>2, <2>1, HeadTailProperties DEF n
<1>10. \A i \in 2 .. n : s[i] \in Cluster /\ fat'[s[i]] = fat[s[i]]
  BY <1>2, <1>3, <1>7 DEF n
<1>11. IsChain(fat', d, t)
  <2>1. t[1] = d
    <3>1. 1 \in 1 .. n - 1 /\ 1 + 1 = 2
      BY <1>2, <1>8
    <3> QED  BY <1>1, <1>2, <1>9, <3>1 DEF IsChain, n
  <2>2. ASSUME NEW i \in 1 .. n - 1 - 1 PROVE t[i + 1] = fat'[t[i]]
    <3>1. i \in 1 .. n - 1 /\ i + 1 \in 1 .. n - 1 /\ i + 1 \in 2 .. n
      BY <1>2
    <3>2. t[i] = s[i + 1] /\ t[i + 1] = s[i + 1 + 1] /\ s[i + 1 + 1] = fat[s[i + 1]]
      BY <1>1, <1>9, <3>1 DEF IsChain, n
    <3> QED  BY <1>10, <3>1, <3>2
  <2>3. fat'[t[n - 1]] = EOF
    <3>1. n - 1 \in 1 .. n - 1 /\ n - 1 + 1 = n /\ n \in 2 .. n
      BY <1>2, <1>8
    <3> QED  BY <1>2, <1>9, <1>10, <3>1
  <2>4. Len(t) >= 1 /\ Len(t) <= MaxCluster - 2
    BY <1>2, <1>8, <1>9, SizesOK
  <2>5. \A i \in 1 .. Len(t) - 1 : t[i + 1] = fat'[t[i]]
    BY <1>9, <2>2
  <2>6. fat'[t[Len(t)]] \notin Cluster
    BY <1>8, <1>9, <2>3
  <2> HIDE DEF t
  <2> QED  BY <1>1, <1>9, <2>1, <2>4, <2>5, <2>6 DEF IsChain
<1>12. Chain(d)' = t
  BY <1>1, <1>6, <1>11, ChainUnique
<1>13. fat'[Last(t)] = EOF
  <2>1. n - 1 \in 1 .. n - 1 /\ n - 1 + 1 = n /\ n \in 2 .. n
    BY <1>2, <1>8
  <2> QED  BY <1>2, <1>9, <1>10, <2>1 DEF Last
<1>14. {s[i] : i \in 1 .. n} = Range(t) \cup {c}
  <2>1. DOMAIN t = 1 .. n - 1
    BY <1>9
  <2>2. ASSUME NEW i \in 1 .. n PROVE s[i] \in Range(t) \cup {c}
    <3>1. CASE i = 1
      BY <1>2, <3>1
    <3>2. CASE i # 1
      <4>1. i - 1 \in 1 .. n - 1 /\ i - 1 + 1 = i
        BY <1>2, <3>2
      <4> QED  BY <1>9, <2>1, <4>1 DEF Range
    <3> QED  BY <3>1, <3>2
  <2>3. \A i \in 1 .. n - 1 : i + 1 \in 1 .. n
    BY <1>2
  <2>4. 1 \in 1 .. n
    BY <1>2
  <2>5. \A y \in Range(t) : \E i \in 1 .. n : y = s[i]
    <3> HIDE DEF t
    <3> QED  BY <1>9, <2>1, <2>3 DEF Range
  <2> HIDE DEF t
  <2>6. s[1] = c
    BY <1>2
  <2> QED  BY <2>2, <2>4, <2>5, <2>6
<1> QED  BY <1>4, <1>12, <1>13, <1>14 DEF Of, s

-----------------------------------------------------------------------------
(* Which chains are reached from the root directory, and what they hold. *)

At(p) == dir[p[1]][p[2]]

(* The place of an entry whose chain is all there: the call under way has not begun to
   free it. *)
Whole(p) == p \in Places /\ IsEntry(At(p)) /\ ~(OldFreed /\ call.hit /\ p = at)

Rooted(c) == \/ c = Root
             \/ c \in Cluster /\ \E p \in Places : Whole(p) /\ FirstOf(p) = c

DirAt(p) == Whole(p) /\ p[1] \in Of(Root) /\ At(p).kind = "dir"

Directory(d) == d = Root \/ \E p \in Places : DirAt(p) /\ FirstOf(p) = d

Holds(d, p) == p \in Places /\ p[1] \in Of(d) /\ IsEntry(At(p))

LEMMA WholeIs ==
    ASSUME TInv, NEW p, Whole(p)
    PROVE  /\ p \in Places /\ p[1] \in Cluster /\ p[2] \in 1 .. Slots
           /\ At(p) \in EntrySet /\ FirstOf(p) \in Link \ {Root}
           /\ FirstOf(p) = At(p).first /\ At(p).name \in Range(Short)
           /\ At(p).kind = "dir" => FirstOf(p) \in Cluster \ {Root}
<1>1. p \in Places /\ p[1] \in Cluster /\ p[2] \in 1 .. Slots
  BY PlacesAre DEF Whole
<1>2. At(p) \in EntrySet
  BY <1>1 DEF TInv, DiskInv, DirType, At
<1> QED  BY <1>1, <1>2, EntryIs DEF Whole, FirstOf, At

LEMMA DirectoryRooted ==
    ASSUME TInv, NEW d, Directory(d)
    PROVE  Rooted(d) /\ d \in Cluster /\ d \in Link
<1>1. CASE d = Root
  BY <1>1, SizesOK DEF Rooted, Link
<1>2. CASE d # Root
  <2>1. PICK p \in Places : DirAt(p) /\ FirstOf(p) = d
    BY <1>2 DEF Directory
  <2>2. Whole(p) /\ d \in Cluster
    BY <2>1, WholeIs DEF DirAt
  <2> QED  BY <2>1, <2>2 DEF Rooted, Link
<1> QED  BY <1>1, <1>2

(* The owner of a chain owns its clusters. *)
LEMMA OfOwned ==
    ASSUME FatType, NEW own, Linked(own), NEW c \in Cluster, own[c] # None, NEW b \in Of(c)
    PROVE  b \in Cluster /\ own[b] = own[c]
<1>1. c \in Link
  BY DEF Link
<1>2. PICK i \in 1 .. Len(Chain(c)) : b = Chain(c)[i]
  BY <1>1, OfIs
<1> QED  BY <1>2, ChainOwned

(* Who owns a chain that is reached: a directory entry, unless it is about to be freed. *)
LEMMA RootedOwned ==
    ASSUME TInv, HitInv, NEW own, Owned(own), NEW c, Rooted(c)
    PROVE  /\ c \in Cluster /\ c \in Link /\ own[c] \notin {None, New}
           /\ \/ c = Root /\ own[c] = RootDir
              \/ c # Root /\ own[c] \in Places /\ Whole(own[c]) /\ FirstOf(own[c]) = c
                 /\ Live(own[c])
              \/ /\ own[c] = Gone /\ pc = "free" /\ old = call.chain /\ c = call.chain
                 /\ call.hit
<1>1. CASE c = Root
  BY <1>1, SizesOK, PlacesAre DEF Owned, Named, Link
<1>2. CASE c # Root
  <2>1. PICK p \in Places : Whole(p) /\ FirstOf(p) = c /\ c \in Cluster
    BY <1>2 DEF Rooted
  <2>2. CASE Live(p)
    <3>1. own[c] = p
      BY <2>1, <2>2, SizesOK DEF Owned, Named
    <3> QED  BY <1>2, <2>1, <2>2, <3>1, PlacesAre DEF Link
  <2>3. CASE ~Live(p)
    <3>1. call.hit /\ p = at /\ ~OldFreed
      BY <2>1, <2>3 DEF Live, Whole, At
    <3>2. c = call.chain
      BY <2>1, <3>1 DEF HitInv, Whole, At
    <3>3. pc = "free" /\ old = call.chain
      BY <2>1, <3>1, <3>2, SizesOK DEF OldFreed
    <3>4. own[c] = Gone
      BY <3>2, <3>3 DEF Owned, Doing
    <3> QED  BY <2>1, <3>1, <3>2, <3>3, <3>4, PlacesAre DEF Link
  <2> QED  BY <2>2, <2>3
<1> QED  BY <1>1, <1>2

LEMMA FirstOwned ==
    ASSUME TInv, NEW own, Owned(own), first # 0
    PROVE  first \in Cluster /\ first \in Link /\ own[first] = New
BY DEF TInv, LocalInv, Owned, Named, Link

(* No two entries lead to the same chain, and no two chains that are reached meet. *)
LEMMA WholeApart ==
    ASSUME TInv, HitInv, NEW own, Owned(own),
           NEW p, Whole(p), NEW q, Whole(q), FirstOf(p) = FirstOf(q), FirstOf(p) # 0
    PROVE  p = q
<1>1. ASSUME NEW r, Whole(r), FirstOf(r) # 0
      PROVE  \/ Live(r) /\ own[FirstOf(r)] = r /\ r \in Places
             \/ r = at /\ own[FirstOf(r)] = Gone
  <2>0. r \in Places
    BY <1>1 DEF Whole
  <2>1. CASE Live(r)
    BY <1>1, <2>0, <2>1 DEF Owned, Named
  <2>2. CASE ~Live(r)
    <3>1. call.hit /\ r = at /\ ~OldFreed /\ FirstOf(r) = call.chain
      BY <1>1, <2>2 DEF Live, Whole, At, HitInv
    <3>2. pc = "free" /\ old = call.chain
      BY <1>1, <3>1 DEF OldFreed
    <3> QED  BY <3>1, <3>2 DEF Owned, Doing
  <2> QED  BY <2>1, <2>2
<1> QED  BY <1>1, PlacesAre

LEMMA RootedApart ==
    ASSUME TInv, HitInv, NEW own, Owned(own),
           NEW c, Rooted(c), NEW d, Rooted(d), NEW b, b \in Of(c), b \in Of(d)
    PROVE  c = d
<1>1. /\ c \in Cluster /\ own[c] # None /\ d \in Cluster /\ own[d] # None
  BY RootedOwned
<1>2. FatType
  BY FatTypes DEF TInv
<1>3. own[b] = own[c] /\ own[b] = own[d]
  BY <1>1, <1>2, OfOwned DEF Owned
<1>4. own[c] = own[d]
  BY <1>3
<1>5. /\ \/ c = Root /\ own[c] = RootDir
         \/ c # Root /\ own[c] \in Places /\ FirstOf(own[c]) = c
         \/ own[c] = Gone /\ c = call.chain
      /\ \/ d = Root /\ own[d] = RootDir
         \/ d # Root /\ own[d] \in Places /\ FirstOf(own[d]) = d
         \/ own[d] = Gone /\ d = call.chain
  BY RootedOwned
<1> QED  BY <1>4, <1>5, PlacesAre

(* What a chain that is reached has nothing to do with. *)
LEMMA Outside ==
    ASSUME TInv, HitInv, NEW own, Owned(own), NEW c, Rooted(c), NEW b \in Of(c)
    PROVE  /\ b \in Cluster /\ own[b] = own[c] /\ own[b] \notin {None, New} /\ fat[b] # 0
           /\ own[b] = Gone => pc = "free" /\ old = call.chain /\ c = call.chain
<1>1. c \in Cluster /\ own[c] \notin {None, New}
      /\ (own[c] = Gone => pc = "free" /\ old = call.chain /\ c = call.chain)
  <2> USE PlacesAre
  <2> QED  BY RootedOwned
<1>2. FatType
  BY FatTypes DEF TInv
<1>3. b \in Cluster /\ own[b] = own[c]
  BY <1>1, <1>2, OfOwned DEF Owned
<1>4. fat[b] # 0
  <2>1. CASE own[b] # Gone
    BY <1>1, <1>3, <2>1 DEF Owned, Used
  <2>2. CASE own[b] = Gone
    BY <1>1, <1>3, <2>2 DEF Owned, Doing
  <2> QED  BY <2>1, <2>2
<1> QED  BY <1>1, <1>3, <1>4

LEMMA FirstOutside ==
    ASSUME TInv, NEW own, Owned(own), NEW b \in Of(first)
    PROVE  first # 0 /\ b \in Cluster /\ own[b] = New /\ fat[b] # 0
<1>1. FatType /\ first \in Link
  BY FatTypes DEF TInv, LocalInv
<1>2. first # 0
  BY <1>1, OfIs
<1>3. first \in Cluster /\ own[first] = New /\ New # None /\ New # Gone
  BY <1>2, FirstOwned, PlacesAre
<1>4. b \in Cluster /\ own[b] = New
  BY <1>1, <1>3, OfOwned DEF Owned
<1> QED  BY <1>2, <1>3, <1>4, PlacesAre DEF Owned, Used

(* Between calls, the directories are the root's and those it has an entry of. *)
LEMMA ParentsDirectories ==
    ASSUME TInv, NEW d \in Parents, ~OldFreed \/ d # call.chain \/ ~call.hit, HitInv
    PROVE  Directory(d)
<1>1. FatType /\ DirType /\ Root \in Link
  BY FatTypes, SizesOK DEF TInv, DiskInv, Link
<1>2. CASE d # Root
  <2>1. PICK e \in Range(Entries(Root)) : e.kind = "dir" /\ d = e.first
    BY <1>2 DEF Parents
  <2>2. PICK j \in 1 .. Len(Entries(Root)) : e = Entries(Root)[j]
    BY <1>1, <2>1, EntriesAre DEF Range
  <2>3. PICK p : p = Place(Root, j)
    OBVIOUS
  <2>4. e = dir[p[1]][p[2]] /\ p[1] \in Cluster /\ p[2] \in 1 .. Slots
        /\ \E i \in 1 .. Len(Chain(Root)) : p[1] = Chain(Root)[i]
    BY <1>1, <2>2, <2>3, EntryPlace
  <2>5. p \in Places /\ p[1] \in Of(Root)
    <3>1. p = <<p[1], p[2]>>
      BY <2>3 DEF Place
    <3>2. p[1] \in Of(Root)
      BY <1>1, <2>4, OfIs
    <3> QED  BY <2>4, <3>1, <3>2 DEF Places
  <2>6. IsEntry(At(p)) /\ FirstOf(p) = d /\ At(p).kind = "dir"
    BY <2>1, <2>4 DEF IsEntry, At, FirstOf
  <2>7. Whole(p)
    BY <2>5, <2>6 DEF Whole, HitInv, At
  <2> QED  BY <2>5, <2>6, <2>7 DEF Directory, DirAt
<1> QED  BY <1>2 DEF Directory

(* An entry of the listing of d is at a place that d holds. *)
LEMMA ListedHeld ==
    ASSUME TInv, NEW d \in Link, NEW j \in 1 .. Len(Entries(d)), IsEntry(Entries(d)[j])
    PROVE  Holds(d, Place(d, j)) /\ At(Place(d, j)) = Entries(d)[j]
<1>1. FatType /\ DirType
  BY FatTypes DEF TInv, DiskInv
<1>2. PICK p : p = Place(d, j)
  OBVIOUS
<1>3. Entries(d)[j] = dir[p[1]][p[2]] /\ p[1] \in Cluster /\ p[2] \in 1 .. Slots
      /\ \E i \in 1 .. Len(Chain(d)) : p[1] = Chain(d)[i]
  BY <1>1, <1>2, EntryPlace
<1>4. p = <<p[1], p[2]>>
  BY <1>2 DEF Place
<1>5. p[1] \in Of(d)
  BY <1>1, <1>3, OfIs
<1> QED  BY <1>2, <1>3, <1>4, <1>5 DEF Holds, At, Places

-----------------------------------------------------------------------------
(* The shape of the volume while nothing has gone wrong: chains end, the end mark of a
   directory is in the last cluster of it, and what is free or belongs to a file holds no
   entries. *)

Clean == past \subseteq {"leaked"}

NewDir == [Idle EXCEPT ![1] = Dots, ![2] = Dots]

EndsInv == \A c \in Cluster :
               Rooted(c) \/ c = first \/ (pc \in {"free", "undo"} /\ c = old) => Ends(c)

MarkInv == \A c \in Cluster, i \in 1 .. Slots :
               dir[c][i] = End => fat[c] \notin Cluster /\ \A j \in i .. Slots : dir[c][j] = End

BlankInv == /\ \A c \in Cluster : fat[c] = 0 => dir[c] = Junk
            /\ pc \in Busy /\ call.op = "write" => \A c \in Of(first) : dir[c] = Junk
            /\ pc \in {"link", "tail", "zero"} => dir[old] = Junk /\ fat[old] = EOF

(* The chain of a file grows at its end. *)
GrowInv == pc \in {"alloc", "link"} /\ first # 0 =>
               Last(Chain(first)) = prev /\ Len(Chain(first)) = k

MkdirInv == pc \in Busy /\ call.op = "mkdir" =>
                /\ call.size = 1 /\ pc \notin {"link", "free", "erase"}
                /\ pc = "alloc" => first = 0
                /\ first # 0 => fat[first] = EOF
                /\ pc \in {"entry", "expand", "tail", "zero", "slots"} => dir[first] = NewDir

(* The directory a call works in, and the entry it found there. *)
CallPlace == pc \in Busy =>
                 /\ Directory(call.dir) /\ call.dir # call.chain
                 /\ call.hit => /\ Holds(call.dir, at) /\ FirstOf(at) = call.chain
                                /\ call.op = "write" => At(at).kind = "file"
                 /\ call.op = "delete" =>
                        \/ k = at[2] /\ (k > 1 => dir[at[1]][k - 1].kind # "long")
                        \/ k + 1 = at[2] /\ dir[at[1]][k].kind = "long"

(* The room for the entries it is to write. *)
RoomPlace == /\ pc = "tail" => \A c \in Of(call.dir), i \in 1 .. Slots : dir[c][i] # End
             /\ pc = "zero" => old \in Of(call.dir)
             /\ pc = "slots" =>
                    /\ at[1] \in Of(call.dir)
                    /\ \A j \in 1 .. Slots :
                           /\ j < at[2] + k - 1 => dir[at[1]][j] # End
                           /\ at[2] + k - 1 <= j /\ j < at[2] + SlotsFor(call.name) =>
                                  dir[at[1]][j] \in {End, Erased}

Shape == EndsInv /\ MarkInv /\ BlankInv /\ GrowInv /\ MkdirInv /\ CallPlace /\ RoomPlace

LEMMA CleanBefore == past \subseteq past' /\ Clean' => Clean /\ Sound /\ Sound'
BY DEF Clean, Sound

LEMMA TInvFat == TInv => FatType
BY FatTypes DEF TInv

DirectoriesRooted == \A d : Directory(d) => Rooted(d) /\ d \in Cluster /\ d \in Link

LEMMA DirectoriesAre == TInv => DirectoriesRooted
BY DirectoryRooted DEF DirectoriesRooted

LEMMA OfIsTheLast ==
    ASSUME FatType, NEW c \in Cluster
    PROVE  /\ c \in Link /\ Last(Chain(c)) \in Of(c) /\ Last(Chain(c)) \in Cluster
           /\ Len(Chain(c)) \in Nat /\ Len(Chain(c)) >= 1 /\ Chain(c) \in Seq(Cluster)
           /\ Last(Chain(c)) = Chain(c)[Len(Chain(c))]
<1>1. c \in Link /\ c # 0
  BY SizesOK DEF Link
<1>2. Len(Chain(c)) \in Nat /\ Len(Chain(c)) >= 1
  BY <1>1, ChainNotEmpty
<1>3. Len(Chain(c)) \in 1 .. Len(Chain(c))
  BY <1>2
<1>4. Last(Chain(c)) = Chain(c)[Len(Chain(c))]
  BY DEF Last
<1>5. Last(Chain(c)) \in Of(c)
  BY <1>1, <1>3, <1>4, OfIs
<1>6. Of(c) \subseteq Cluster /\ Chain(c) \in Seq(Cluster)
  BY <1>1, OfIs, ChainIs
<1> QED  BY <1>1, <1>2, <1>4, <1>5, <1>6

(* A step that leaves alone every chain that is reached after it. *)
Undisturbed ==
    /\ \A c \in Cluster : Rooted(c)' =>
           /\ Rooted(c) /\ Chain(c)' = Chain(c) /\ Of(c)' = Of(c)
           /\ \A b \in Of(c) : fat'[b] = fat[b] /\ dir'[b] = dir[b] /\ data'[b] = data[b]
    /\ \A p \in Places : Whole(p)' => Whole(p) /\ At(p)' = At(p)

(* Only cluster z is written, which no chain comes by but one being freed or made. *)
LEMMA UndisturbedBy ==
    ASSUME TInv, TInv', HitInv, NEW own, Owned(own), NEW z,
           z \in Cluster => fat[z] = 0 \/ own[z] \in {None, New, Gone},
           \A b \in Cluster : b # z => fat'[b] = fat[b] /\ dir'[b] = dir[b] /\ data'[b] = data[b],
           z \in Cluster => dir'[z] = dir[z] \/ \A i \in 1 .. Slots : ~IsEntry(dir'[z][i]),
           OldFreed /\ call.hit => OldFreed' /\ call'.hit /\ at' = at,
           z \in Cluster /\ own[z] = Gone /\ fat[z] # 0 /\ pc = "free" =>
               OldFreed' /\ call'.hit /\ at' = at
    PROVE  Undisturbed
<1>1. FatType /\ FatType'
  BY TInvFat, PTL
<1>2. ASSUME NEW p \in Places, Whole(p)'
      PROVE  Whole(p) /\ At(p)' = At(p)
  <2>1. p[1] \in Cluster /\ p[2] \in 1 .. Slots
    BY PlacesAre
  <2>2. IsEntry(dir'[p[1]][p[2]]) /\ ~(OldFreed' /\ call'.hit /\ p = at')
    BY <1>2 DEF Whole, At
  <2>3. dir'[p[1]] = dir[p[1]]
    BY <2>1, <2>2
  <2> QED  BY <2>2, <2>3 DEF Whole, At
<1>3. ASSUME NEW c \in Cluster, Rooted(c)'
      PROVE  Rooted(c) /\ (c = call.chain /\ pc = "free" => ~(OldFreed' /\ call'.hit /\ at' = at)
                                                           \/ own[c] # Gone)
  <2>1. CASE c = Root
    BY <2>1, PlacesAre DEF Rooted, Owned, Named
  <2>2. CASE c # Root
    <3>1. PICK p \in Places : Whole(p)' /\ FirstOf(p)' = c
      BY <1>3, <2>2 DEF Rooted
    <3>2. Whole(p) /\ FirstOf(p) = c
      BY <1>2, <3>1 DEF FirstOf, At
    <3>3. CASE Live(p)
      <4>1. own[c] = p
        BY <3>2, <3>3, SizesOK DEF Owned, Named
      <4> QED  BY <3>2, <4>1, PlacesAre DEF Rooted
    <3>4. CASE ~Live(p)
      <4>1. p = at
        BY <3>2, <3>4 DEF Live, Whole, At
      <4> QED  BY <3>1, <3>2, <4>1 DEF Rooted, Whole
    <3> QED  BY <3>3, <3>4
  <2> QED  BY <2>1, <2>2
<1>4. ASSUME NEW c \in Cluster, Rooted(c)', NEW b \in Of(c) PROVE b \in Cluster /\ b # z
  <2>1. b \in Cluster /\ own[b] \notin {None, New} /\ fat[b] # 0 /\ own[b] = own[c]
        /\ (own[b] = Gone => pc = "free" /\ old = call.chain /\ c = call.chain)
    BY <1>3, <1>4, Outside
  <2>2. CASE own[b] = Gone
    BY <1>3, <1>4, <2>1, <2>2
  <2>3. CASE own[b] # Gone
    BY <2>1, <2>3
  <2> QED  BY <2>1, <2>2, <2>3
<1>5. ASSUME NEW c \in Cluster, Rooted(c)'
      PROVE  /\ Rooted(c) /\ Chain(c)' = Chain(c) /\ Of(c)' = Of(c)
             /\ \A b \in Of(c) : fat'[b] = fat[b] /\ dir'[b] = dir[b] /\ data'[b] = data[b]
  <2>1. \A b \in Of(c) : fat'[b] = fat[b] /\ dir'[b] = dir[b] /\ data'[b] = data[b]
    BY <1>4, <1>5
  <2>2. c \in Link
    BY DEF Link
  <2> QED  BY <1>1, <1>3, <1>5, <2>1, <2>2, ChainFrame
<1> QED  BY <1>2, <1>5 DEF Undisturbed

LEMMA UndisturbedEnds ==
    ASSUME TInv, Undisturbed, EndsInv
    PROVE  \A c \in Cluster : Rooted(c)' => Ends(c)'
<1> SUFFICES ASSUME NEW c \in Cluster, Rooted(c)' PROVE fat'[Last(Chain(c)')] = EOF
  BY DEF Ends
<1>1. /\ Rooted(c) /\ Chain(c)' = Chain(c)
      /\ \A b \in Of(c) : fat'[b] = fat[b]
  BY DEF Undisturbed
<1>2. Last(Chain(c)) \in Of(c)
  BY FatTypes, OfIsTheLast DEF TInv
<1> QED  BY <1>1, <1>2 DEF EndsInv, Ends

LEMMA DirectoriesKept ==
    ASSUME TInv, TInv', Undisturbed
    PROVE  \A d : Directory(d)' =>
               /\ Directory(d) /\ Chain(d)' = Chain(d) /\ Of(d)' = Of(d)
               /\ \A b \in Of(d) : fat'[b] = fat[b] /\ dir'[b] = dir[b] /\ data'[b] = data[b]
               /\ \A p : /\ Holds(d, p)' <=> Holds(d, p)
                         /\ Holds(d, p) => At(p)' = At(p)
<1> SUFFICES ASSUME NEW d, Directory(d)'
             PROVE  /\ Directory(d) /\ Chain(d)' = Chain(d) /\ Of(d)' = Of(d)
                    /\ \A b \in Of(d) : fat'[b] = fat[b] /\ dir'[b] = dir[b] /\ data'[b] = data[b]
                    /\ \A p : /\ Holds(d, p)' <=> Holds(d, p)
                              /\ Holds(d, p) => At(p)' = At(p)
  OBVIOUS
<1>1. Root \in Cluster /\ Rooted(Root)'
  BY SizesOK DEF Rooted
<1>2. Of(Root)' = Of(Root)
  BY <1>1 DEF Undisturbed
<1>3. Rooted(d)' /\ d \in Cluster
  <2>1. DirectoriesRooted'
    BY DirectoriesAre, PTL
  <2> QED  BY <2>1 DEF DirectoriesRooted
<1>4. Chain(d)' = Chain(d) /\ Of(d)' = Of(d)
      /\ \A b \in Of(d) : fat'[b] = fat[b] /\ dir'[b] = dir[b] /\ data'[b] = data[b]
  BY <1>3 DEF Undisturbed
<1>5. Directory(d)
  <2>1. CASE d = Root
    BY <2>1 DEF Directory
  <2>2. CASE d # Root
    <3>1. PICK p \in Places : DirAt(p)' /\ FirstOf(p)' = d
      BY <2>2 DEF Directory
    <3>2. Whole(p)' /\ p[1] \in Of(Root) /\ At(p)'.kind = "dir"
      BY <1>2, <3>1 DEF DirAt
    <3>3. Whole(p) /\ At(p)' = At(p)
      BY <3>2 DEF Undisturbed
    <3>4. DirAt(p) /\ FirstOf(p) = d
      BY <3>1, <3>2, <3>3 DEF DirAt, FirstOf, At
    <3> QED  BY <3>4 DEF Directory
  <2> QED  BY <2>1, <2>2
<1>6. ASSUME NEW p
      PROVE  (Holds(d, p)' <=> Holds(d, p)) /\ (Holds(d, p) => At(p)' = At(p))
  BY <1>4 DEF Holds, At
<1> QED  BY <1>4, <1>5, <1>6

(* The call under way keeps its directory and the entry it found. *)
LEMMA CallKept ==
    ASSUME TInv, TInv', Undisturbed, CallPlace, pc \in Busy, call' = call,
           call.hit => at' = at, call.op = "delete" => k' = k,
           NEW d, d = call.dir
    PROVE  /\ CallPlace'
           /\ Directory(d)' /\ Chain(d)' = Chain(d) /\ Of(d)' = Of(d)
           /\ \A b \in Of(d) : fat'[b] = fat[b] /\ dir'[b] = dir[b] /\ data'[b] = data[b]
<1>1. Root \in Cluster /\ Rooted(Root)'
  BY SizesOK DEF Rooted
<1>2. Of(Root)' = Of(Root) /\ \A b \in Of(Root) : dir'[b] = dir[b]
  BY <1>1 DEF Undisturbed
<1>3. Directory(d) /\ d # call.chain /\ (call.hit => FirstOf(at) = call.chain)
  BY DEF CallPlace
<1>4. Directory(d)'
  <2>1. CASE d = Root
    BY <2>1 DEF Directory
  <2>2. CASE d # Root
    <3>1. PICK p \in Places : DirAt(p) /\ FirstOf(p) = d
      BY <1>3, <2>2 DEF Directory
    <3>2. ~(call.hit /\ p = at)
      BY <1>3, <3>1
    <3>3. At(p)' = At(p) /\ FirstOf(p)' = FirstOf(p)
      BY <1>2, <3>1 DEF DirAt, At, FirstOf
    <3>4. Whole(p)'
      BY <3>1, <3>2, <3>3 DEF Whole, DirAt
    <3>5. DirAt(p)'
      BY <1>2, <3>1, <3>3, <3>4 DEF DirAt
    <3> QED  BY <3>1, <3>3, <3>5 DEF Directory
  <2> QED  BY <2>1, <2>2
<1>5. /\ Chain(d)' = Chain(d) /\ Of(d)' = Of(d)
      /\ \A b \in Of(d) : fat'[b] = fat[b] /\ dir'[b] = dir[b] /\ data'[b] = data[b]
      /\ \A p : (Holds(d, p)' <=> Holds(d, p)) /\ (Holds(d, p) => At(p)' = At(p))
  BY <1>4, DirectoriesKept
<1>6. call.op = "delete" => call.hit
  BY DEF TInv, CallInv
<1>7. call.hit => Holds(d, at) /\ Holds(d, at)' /\ At(at)' = At(at) /\ dir'[at[1]] = dir[at[1]]
                  /\ FirstOf(at)' = FirstOf(at)
  <2> SUFFICES ASSUME call.hit
               PROVE  Holds(d, at) /\ Holds(d, at)' /\ At(at)' = At(at)
                      /\ dir'[at[1]] = dir[at[1]] /\ FirstOf(at)' = FirstOf(at)
    OBVIOUS
  <2>1. PICK p : p = at
    OBVIOUS
  <2>2. Holds(d, p) /\ p = at'
    BY <2>1 DEF CallPlace
  <2>3. Holds(d, p)' /\ At(p)' = At(p) /\ dir'[p[1]] = dir[p[1]]
    BY <1>5, <2>2 DEF Holds
  <2>4. Holds(d, at)' /\ At(at)' = At(at) /\ FirstOf(at)' = FirstOf(at)
    BY <2>1, <2>2, <2>3 DEF Holds, At, FirstOf
  <2> QED  BY <2>1, <2>2, <2>3, <2>4
<1>8. CallPlace'
  <2> SUFFICES ASSUME pc' \in Busy
               PROVE  /\ Directory(d)' /\ d # call.chain
                      /\ call.hit => /\ Holds(d, at)' /\ FirstOf(at)' = call.chain
                                     /\ call.op = "write" => At(at)'.kind = "file"
                      /\ call.op = "delete" =>
                             \/ k = at[2] /\ (k > 1 => dir'[at[1]][k - 1].kind # "long")
                             \/ k + 1 = at[2] /\ dir'[at[1]][k].kind = "long"
    <3>1. d = call'.dir
      OBVIOUS
    <3>2. Directory(d)' <=> Directory(call.dir)'
      BY <3>1 DEF Directory
    <3>3. Holds(d, at)' <=> Holds(call.dir, at)'
      BY <3>1 DEF Holds
    <3> QED  BY <1>6, <3>2, <3>3 DEF CallPlace
  <2> QED  BY <1>3, <1>4, <1>6, <1>7 DEF CallPlace
<1> QED  BY <1>4, <1>5, <1>8

-----------------------------------------------------------------------------
(* The shape is kept, by every step after which still nothing has gone wrong. *)

Empty == Of(0) = {}

LEMMA EmptyIs == FatType => Empty
BY OfIs DEF Empty, Link

LEMMA InitShape == Init /\ TInv => Shape
<1> SUFFICES ASSUME Init, TInv PROVE Shape
  OBVIOUS
<1>1. /\ fat = [c \in Cluster |-> IF c = Root THEN EOF ELSE 0] /\ pc = "none" /\ first = 0
      /\ dir = [c \in Cluster |-> IF c = Root THEN Idle ELSE Junk]
  BY DEF Init
<1>2. \A p \in Places : ~IsEntry(At(p))
  <2> SUFFICES ASSUME NEW p \in Places PROVE ~IsEntry(At(p))
    OBVIOUS
  <2>1. p[1] \in Cluster /\ p[2] \in 1 .. Slots
    BY PlacesAre
  <2>2. dir[p[1]][p[2]] \in {End, Dots}
    BY <1>1, <2>1 DEF Idle, Junk
  <2> QED  BY <2>2 DEF IsEntry, End, Dots, At
<1>3. Root \in Cluster /\ fat[Root] \notin Cluster /\ fat[Root] = EOF
  BY <1>1, SizesOK
<1>4. Chain(Root) = <<Root>>
  BY <1>3, ChainSingle, FatTypes DEF TInv, Singles
<1>5. EndsInv
  <2>1. \A c \in Cluster : c # Root => ~Rooted(c) /\ c # 0
    BY <1>2, SizesOK DEF Rooted, Whole
  <2>2. Last(<<Root>>) = Root
    BY DEF Last
  <2> QED  BY <1>1, <1>3, <1>4, <2>1, <2>2 DEF EndsInv, Ends
<1>6. MarkInv
  <2>1. \A i \in 1 .. Slots : Idle[i] = End /\ Junk[i] # End
    BY DEF Idle, Junk, End, Dots
  <2>2. \A i \in 1 .. Slots : \A j \in i .. Slots : j \in 1 .. Slots
    BY SizesOK
  <2> QED  BY <1>1, <1>3, <2>1, <2>2 DEF MarkInv
<1>7. BlankInv
  BY <1>1, <1>3, SizesOK DEF BlankInv, Busy
<1> QED  BY <1>1, <1>5, <1>6, <1>7 DEF Shape, GrowInv, MkdirInv, CallPlace, RoomPlace, Busy

(* A call that is given up. *)
LEMMA FailIs ==
    ASSUME TInv, NEW also, Fail(also), Clean', pc \in Busy, pc # "free"
    PROVE  /\ ~OldFreed /\ call.chain = 0 /\ call' = NoCall /\ first' = 0
           /\ past \subseteq past'
           /\ \/ pc' = "none" /\ first = 0 /\ old' = 0
              \/ pc' = "undo" /\ first # 0 /\ old' = first
<1>1. past' = past \cup also \cup (IF OldFreed THEN {"freed"} ELSE {})
  BY DEF Fail
<1>2. ~OldFreed
  BY <1>1 DEF Clean
<1> QED  BY <1>1, <1>2 DEF Fail, Finish, OldFreed

LEMMA StillUndisturbed ==
    ASSUME TInv, TInv', HitInv, NEW own, Owned(own), fat' = fat, dir' = dir, data' = data,
           ~OldFreed \/ ~call.hit \/ (OldFreed' /\ call'.hit /\ at' = at)
    PROVE  Undisturbed
BY UndisturbedBy, SizesOK

LEMMA FailShape ==
    ASSUME TInv, TInv', HitInv, NEW own, Owned(own), Shape, NEW also, Fail(also), Clean',
           pc \in Busy, pc # "free", fat' = fat, dir' = dir, data' = data
    PROVE  Undisturbed /\ Shape'
<1>1. /\ ~OldFreed /\ call.chain = 0 /\ call' = NoCall /\ first' = 0
      /\ \/ pc' = "none" /\ first = 0 /\ old' = 0
         \/ pc' = "undo" /\ first # 0 /\ old' = first
  BY FailIs
<1>2. Undisturbed
  BY <1>1, StillUndisturbed
<1>3. EndsInv'
  <2>1. \A c \in Cluster : Rooted(c)' => Ends(c)'
    BY <1>2, UndisturbedEnds DEF Shape
  <2>2. \A c \in Cluster : Ends(c)' <=> Ends(c)
    BY SameChain DEF Ends
  <2> QED  BY <1>1, <2>1, <2>2, SizesOK DEF Shape, EndsInv
<1>4. MarkInv' /\ BlankInv'
  BY <1>1 DEF Shape, MarkInv, BlankInv, Busy
<1>5. GrowInv' /\ MkdirInv' /\ CallPlace' /\ RoomPlace'
  BY <1>1 DEF GrowInv, MkdirInv, CallPlace, RoomPlace, Busy
<1> QED  BY <1>2, <1>3, <1>4, <1>5 DEF Shape

LEMMA PowerOffShape ==
    ASSUME TInv, TInv', HitInv, NEW own, Owned(own), Shape, PowerOff, Clean'
    PROVE  Undisturbed /\ Shape' /\ ~OldFreed
<1>1. /\ past' = past \cup {"leaked"} \cup (IF OldFreed THEN {"freed"} ELSE {})
                   \cup (IF pc \in {"slots", "zero", "erase"} THEN {"torn"} ELSE {})
      /\ fat' = fat /\ dir' = dir /\ data' = data
      /\ pc' = "none" /\ call' = NoCall /\ first' = 0 /\ old' = 0
  BY DEF PowerOff, Finish, disk
<1>2. ~OldFreed
  BY <1>1 DEF Clean
<1>3. Undisturbed
  BY <1>1, <1>2, StillUndisturbed
<1>4. EndsInv'
  <2>1. \A c \in Cluster : Rooted(c)' => Ends(c)'
    BY <1>3, UndisturbedEnds DEF Shape
  <2> QED  BY <1>1, <2>1, SizesOK DEF EndsInv
<1>5. MarkInv' /\ BlankInv'
  BY <1>1 DEF Shape, MarkInv, BlankInv, Busy
<1>6. GrowInv' /\ MkdirInv' /\ CallPlace' /\ RoomPlace'
  BY <1>1 DEF GrowInv, MkdirInv, CallPlace, RoomPlace, Busy
<1> QED  BY <1>2, <1>3, <1>4, <1>5, <1>6 DEF Shape

LEMMA StutterShape ==
    ASSUME TInv, HitInv, NEW own, Owned(own), UNCHANGED vars
    PROVE  Undisturbed /\ (Shape => Shape')
<1>1. /\ fat' = fat /\ dir' = dir /\ data' = data /\ pc' = pc /\ call' = call /\ first' = first
      /\ prev' = prev /\ old' = old /\ at' = at /\ k' = k /\ last' = last
  BY DEF vars, disk, locals
<1>2. TInv'
  BY StutterType
<1>3. Undisturbed
  BY <1>1, <1>2, StillUndisturbed DEF OldFreed
<1>4. \A c : /\ Chain(c)' = Chain(c) /\ Of(c)' = Of(c) /\ (Rooted(c)' <=> Rooted(c))
             /\ (Directory(c)' <=> Directory(c)) /\ (Ends(c)' <=> Ends(c))
  BY <1>1, SameChain DEF Of, Rooted, Directory, DirAt, Whole, At, FirstOf, OldFreed, Ends
<1>5. Shape => Shape'
  BY <1>1, <1>4 DEF Shape, EndsInv, MarkInv, BlankInv, GrowInv, MkdirInv, CallPlace, RoomPlace,
     Holds, At, FirstOf
<1> QED  BY <1>3, <1>5

(* Free clusters of a chain, one after the other. *)
LEMMA FreeIs ==
    ASSUME TInv, NEW bad, FreeChainStep(bad), Clean'
    PROVE  /\ pc \in {"free", "undo"} /\ old \in Cluster \ {Root} /\ first = 0 /\ first' = 0
           /\ (pc = "undo" => call = NoCall) /\ ~bad /\ past' = past /\ stored' = stored
           /\ fat' = [fat EXCEPT ![old] = 0] /\ dir' = [dir EXCEPT ![old] = Junk]
           /\ data' = [data EXCEPT ![old] = Nothing] /\ old' = NextCluster(old)
           /\ old' # 0 => pc' = pc
           /\ old' = 0 /\ pc = "undo" => pc' = "none"
           /\ old' = 0 /\ pc = "free" =>
                  pc' = IF call.op = "delete" THEN "erase"
                        ELSE IF call.size > 0 THEN "alloc" ELSE "entry"
           /\ pc' = "none" \/ (call' = call /\ prev' = prev /\ at' = at /\ k' = k)
           /\ (pc = "free" => call.chain # 0 /\ call.hit /\ pc' # "none")
<1>1. /\ pc \in {"free", "undo"} /\ old \in Cluster \ {Root} /\ first = 0
      /\ (pc = "undo" => call = NoCall) /\ (pc = "free" => call.chain # 0 /\ call.hit)
  BY DEF FreeChainStep, TInv, LocalInv, StepInv, CallInv, Link, Busy
<1>2. past' = IF bad THEN past \cup {"lost"} ELSE past
  BY DEF FreeChainStep, Blame
<1>3. ~bad /\ past' = past
  BY <1>2 DEF Clean
<1>4. /\ fat' = [fat EXCEPT ![old] = 0] /\ dir' = [dir EXCEPT ![old] = Junk]
      /\ data' = [data EXCEPT ![old] = Nothing] /\ old' = NextCluster(old) /\ stored' = stored
  BY <1>3 DEF FreeChainStep, SetFat
<1>5. CASE old' # 0
  BY <1>1, <1>3, <1>4, <1>5 DEF FreeChainStep
<1>6. CASE old' = 0 /\ pc = "undo"
  BY <1>1, <1>3, <1>4, <1>6 DEF FreeChainStep
<1>7. CASE old' = 0 /\ pc = "free"
  <2>1. /\ pc' = IF call.op = "delete" THEN "erase" ELSE IF call.size > 0 THEN "alloc" ELSE "entry"
        /\ UNCHANGED <<call, first, prev, at, k>>
    BY <1>7 DEF FreeChainStep
  <2> QED  BY <1>1, <1>3, <1>4, <1>7, <2>1
<1> QED  BY <1>1, <1>5, <1>6, <1>7

LEMMA FreeUndisturbed ==
    ASSUME TInv, TInv', HitInv, NEW own, Owned(own), NEW bad, FreeChainStep(bad), Clean'
    PROVE  Undisturbed /\ (pc = "free" => OldFreed') /\ own[old] = Gone
<1>1. /\ pc \in {"free", "undo"} /\ old \in Cluster \ {Root} /\ (pc = "undo" => call = NoCall)
      /\ fat' = [fat EXCEPT ![old] = 0] /\ dir' = [dir EXCEPT ![old] = Junk]
      /\ data' = [data EXCEPT ![old] = Nothing] /\ old' = NextCluster(old)
      /\ pc = "free" => call.chain # 0 /\ call.hit /\ call' = call /\ at' = at
  BY FreeIs
<1>2. own[old] = Gone /\ fat \in [Cluster -> {0, EOF} \cup (Cluster \ {Root})]
      /\ dir \in [Cluster -> [1 .. Slots -> EntrySet]] /\ DOMAIN data = Cluster
  BY <1>1 DEF Owned, Doing, TInv, DiskInv, DirType
<1>3. ASSUME pc = "free" PROVE old' # call.chain
  <2>1. CASE fat[old] \in Cluster
    BY <1>1, <1>2, <1>3, <2>1, PlacesAre DEF Owned, Led, NextCluster
  <2>2. CASE fat[old] \notin Cluster
    BY <1>1, <1>2, <1>3, <2>2 DEF NextCluster
  <2> QED  BY <2>1, <2>2
<1>4. pc = "free" => OldFreed'
  BY <1>1, <1>3 DEF OldFreed
<1>5. call.hit => pc = "free"
  BY <1>1 DEF NoCall
<1>6. \A i \in 1 .. Slots : ~IsEntry(dir'[old][i])
  BY <1>1, <1>2 DEF Junk, Dots, IsEntry
<1>7. \A b \in Cluster : b # old => fat'[b] = fat[b] /\ dir'[b] = dir[b] /\ data'[b] = data[b]
  BY <1>1, <1>2
<1>8. own[old] = Gone
  BY <1>2
<1>9. Undisturbed
  BY <1>1, <1>4, <1>5, <1>6, <1>7, <1>8, UndisturbedBy
<1> QED  BY <1>2, <1>4, <1>9

LEMMA FreeShape ==
    ASSUME TInv, TInv', HitInv, NEW own, Owned(own), Shape, NEW bad, FreeChainStep(bad), Clean'
    PROVE  Shape'
<1>1. /\ pc \in {"free", "undo"} /\ old \in Cluster \ {Root} /\ first' = 0
      /\ (pc = "undo" => call = NoCall)
      /\ fat' = [fat EXCEPT ![old] = 0] /\ dir' = [dir EXCEPT ![old] = Junk]
      /\ old' = NextCluster(old)
      /\ pc' = "none" \/ (call' = call /\ prev' = prev /\ at' = at /\ k' = k)
      /\ pc' \in {"free", "undo", "none", "erase", "alloc", "entry"}
      /\ pc' \in {"free", "undo"} => old' # 0
      /\ pc = "undo" => pc' \in {"none", "undo"}
  <2> USE FreeIs
  <2> QED  BY DEF TInv, StepInv
<1>2. Undisturbed
  BY FreeUndisturbed
<1>3. FatType /\ FatType' /\ fat \in [Cluster -> {0, EOF} \cup (Cluster \ {Root})]
      /\ dir \in [Cluster -> [1 .. Slots -> EntrySet]]
  BY TInvFat, PTL DEF TInv, DiskInv, DirType
<1>4. EndsInv'
  <2> SUFFICES ASSUME NEW c \in Cluster,
                      Rooted(c)' \/ c = first' \/ (pc' \in {"free", "undo"} /\ c = old')
               PROVE  Ends(c)'
    BY DEF EndsInv
  <2>1. CASE Rooted(c)'
    BY <1>2, <2>1, UndisturbedEnds DEF Shape
  <2>2. CASE pc' \in {"free", "undo"} /\ c = old'
    <3>1. c = fat[old]
      BY <1>1, <2>2 DEF NextCluster
    <3>2. Ends(old)
      BY <1>1 DEF Shape, EndsInv
    <3>3. PICK b \in Cluster : b = old
      BY <1>1
    <3>4. fat'[Last(Chain(c)')] = EOF
      BY <1>1, <1>3, <3>1, <3>2, <3>3, ChainFreed
    <3> QED  BY <3>4 DEF Ends
  <2>3. c # first'
    BY <1>1, SizesOK
  <2> QED  BY <2>1, <2>2, <2>3
<1>5. MarkInv'
  <2>1. \A i \in 1 .. Slots : dir'[old][i] # End
    BY <1>1, <1>3 DEF Junk, End, Dots
  <2>2. \A c \in Cluster : c # old => fat'[c] = fat[c] /\ dir'[c] = dir[c]
    BY <1>1, <1>3
  <2> QED  BY <2>1, <2>2 DEF Shape, MarkInv
<1>6. BlankInv'
  <2>1. \A c \in Cluster : fat'[c] = 0 => dir'[c] = Junk
    BY <1>1, <1>3 DEF Shape, BlankInv
  <2>2. \A c \in Of(first)' : FALSE
    <3>1. Empty'
      BY EmptyIs, TInvFat, PTL
    <3> QED  BY <1>1, <3>1 DEF Empty, Of
  <2>3. pc' \notin {"link", "tail", "zero"}
    BY <1>1
  <2> QED  BY <2>1, <2>2, <2>3 DEF BlankInv
<1>7. GrowInv' /\ RoomPlace'
  BY <1>1 DEF GrowInv, RoomPlace
<1>8. MkdirInv' /\ CallPlace'
  <2>1. CASE pc = "undo"
    BY <1>1, <2>1 DEF MkdirInv, CallPlace, Busy
  <2>2. CASE pc = "free"
    <3>1. pc \in Busy /\ pc' # "none" /\ call.op # "mkdir"
      BY <2>2, FreeIs DEF Shape, MkdirInv, Busy
    <3>2. call' = call /\ at' = at /\ k' = k
      BY <1>1, <3>1
    <3>3. CallPlace'
      BY <1>2, <3>1, <3>2, CallKept DEF Shape
    <3> QED  BY <3>1, <3>2, <3>3 DEF MkdirInv
  <2> QED  BY <1>1, <2>1, <2>2
<1> QED  BY <1>4, <1>5, <1>6, <1>7, <1>8 DEF Shape

(* A cluster that leads nowhere and is not the end of a chain becomes one. *)
LEMMA NewChain ==
    ASSUME FatType', NEW c \in Cluster, fat'[c] = EOF
    PROVE  Chain(c)' = <<c>> /\ Of(c)' = {c} /\ Ends(c)' /\ Last(Chain(c)') = c /\ Len(Chain(c)') = 1
<1>1. Singles'
  BY ChainSingle, PTL
<1>2. Chain(c)' = <<c>>
  BY <1>1, SizesOK DEF Singles
<1>3. Last(<<c>>) = c
  BY DEF Last
<1>4. Range(<<c>>) = {c}
  BY DEF Range
<1> QED  BY <1>2, <1>3, <1>4 DEF Of, Ends

(* The chain of the call under way does not change either. *)
LEMMA FirstKept ==
    ASSUME TInv, TInv', NEW own, Owned(own), first' = first, NEW z,
           z \in Cluster => fat[z] = 0 \/ own[z] # New,
           \A b \in Cluster : b # z => fat'[b] = fat[b]
    PROVE  /\ Chain(first)' = Chain(first) /\ Of(first)' = Of(first) /\ z \notin Of(first)
           /\ EndsInv => \A c \in Cluster : c = first => Ends(c)'
<1>0. FatType /\ FatType'
  BY TInvFat, PTL
<1>1. FatType /\ FatType' /\ first \in Link
  BY <1>0 DEF TInv, LocalInv
<1>2. PICK f \in Link : f = first
  BY <1>1
<1>3. \A b \in Of(f) : b \in Cluster /\ b # z
  BY <1>2, FirstOutside
<1>4. Chain(f)' = Chain(f) /\ Of(f)' = Of(f)
  BY <1>1, <1>3, ChainFrame
<1>5. Chain(first)' = Chain(f)' /\ Of(first)' = Of(f)'
  BY <1>2 DEF Of
<1>6. ASSUME EndsInv, NEW c \in Cluster, c = first PROVE Ends(c)'
  <2>1. Last(Chain(c)) \in Of(c) /\ Ends(c)
    BY <1>1, <1>6, OfIsTheLast DEF EndsInv
  <2>2. fat'[Last(Chain(c))] = fat[Last(Chain(c))]
    BY <1>2, <1>3, <1>6, <2>1
  <2> QED  BY <1>2, <1>4, <1>6, <2>1, <2>2 DEF Ends
<1> QED  BY <1>2, <1>3, <1>4, <1>5, <1>6

LEMMA AllocateIs ==
    ASSUME TInv, NEW bad, Allocate(bad)
    PROVE  /\ pc = "alloc" /\ pc \in Busy /\ dir' = dir /\ data' = data /\ stored' = stored
           /\ \/ Fail({}) /\ fat' = fat
              \/ \E c \in Cluster \ {Root} :
                  /\ fat[c] = 0 /\ fat' = [fat EXCEPT ![c] = EOF] /\ call' = call /\ at' = at
                  /\ past' = past /\ c # 0
                  /\ first = 0 => first' = c /\ prev' = c /\ k' = 1 /\ old' = old
                                  /\ pc' = IF call.size = 1 THEN "data" ELSE "alloc"
                  /\ first # 0 => /\ pc' = "link" /\ old' = c
                                  /\ first' = first /\ prev' = prev /\ k' = k
<1>1. pc = "alloc" /\ pc \in Busy /\ dir' = dir /\ data' = data /\ stored' = stored
  BY DEF Allocate, Busy
<1> DEFINE c == FreeCluster
<1>2. CASE bad \/ c = 0
  BY <1>1, <1>2 DEF Allocate
<1>3. CASE ~(bad \/ c = 0)
  <2>1. c \in Cluster \ {Root} /\ fat[c] = 0 /\ c # 0
    BY <1>3, AllocCluster DEF TInv
  <2>2. /\ fat' = [fat EXCEPT ![c] = EOF] /\ call' = call /\ at' = at /\ past' = past
        /\ first = 0 => first' = c /\ prev' = c /\ k' = 1 /\ old' = old
                        /\ pc' = IF call.size = 1 THEN "data" ELSE "alloc"
        /\ first # 0 => pc' = "link" /\ old' = c /\ first' = first /\ prev' = prev /\ k' = k
    BY <1>3 DEF Allocate, SetFat
  <2> HIDE DEF c
  <2> QED  BY <1>1, <2>1, <2>2
<1> QED  BY <1>2, <1>3

LEMMA AllocateShape ==
    ASSUME TInv, TInv', HitInv, NEW own, Owned(own), Shape, NEW bad, Allocate(bad), Clean'
    PROVE  Undisturbed /\ Shape'
<1>1. pc = "alloc" /\ pc \in Busy /\ dir' = dir /\ data' = data
  BY AllocateIs
<1>2. CASE Fail({}) /\ fat' = fat
  BY <1>1, <1>2, FailShape
<1>3. ASSUME NEW c \in Cluster \ {Root},
             /\ fat[c] = 0 /\ fat' = [fat EXCEPT ![c] = EOF] /\ call' = call /\ at' = at
             /\ past' = past /\ c # 0
             /\ first = 0 => first' = c /\ prev' = c /\ k' = 1 /\ old' = old
                             /\ pc' = IF call.size = 1 THEN "data" ELSE "alloc"
             /\ first # 0 => /\ pc' = "link" /\ old' = c
                             /\ first' = first /\ prev' = prev /\ k' = k
      PROVE  Undisturbed /\ Shape'
  <2>1. /\ FatType' /\ fat \in [Cluster -> {0, EOF} \cup (Cluster \ {Root})]
        /\ \A b \in Cluster : b # c => fat'[b] = fat[b]
        /\ fat'[c] = EOF /\ EOF # 0 /\ EOF \notin Cluster /\ first \in Link
        /\ pc' \in {"data", "alloc", "link"} /\ pc' \in Busy
    <3>1. fat \in [Cluster -> {0, EOF} \cup (Cluster \ {Root})] /\ first \in Link
      BY DEF TInv, DiskInv, LocalInv
    <3>2. FatType'
      BY TInvFat, PTL
    <3> QED  BY <1>3, <3>1, <3>2, SizesOK DEF Busy
  <2>2. Undisturbed
    <3>1. OldFreed => OldFreed'
      BY <1>1, <1>3, <2>1 DEF OldFreed
    <3>2. own[c] \in {None, New, Gone} \/ fat[c] = 0
      BY <1>3
    <3> QED  BY <1>1, <1>3, <2>1, <3>1, <3>2, UndisturbedBy
  <2>3. Chain(c)' = <<c>> /\ Of(c)' = {c} /\ Ends(c)' /\ Last(Chain(c)') = c /\ Len(Chain(c)') = 1
    BY <2>1, NewChain
  <2>4. first # 0 => /\ Chain(first)' = Chain(first) /\ Of(first)' = Of(first)
                     /\ \A b \in Cluster : b = first => Ends(b)'
    BY <1>3, <2>1, FirstKept DEF Shape
  <2>5. first = 0 => Of(first)' = {c} /\ first' = c /\ Chain(first)' = <<c>>
    BY <1>3, <2>3 DEF Of
  <2>6. EndsInv'
    <3>1. \A b \in Cluster : Rooted(b)' => Ends(b)'
      BY <2>2, UndisturbedEnds DEF Shape
    <3> QED  BY <1>3, <2>1, <2>3, <2>4, <3>1 DEF EndsInv
  <2>7. MarkInv'
    BY <1>1, <2>1 DEF Shape, MarkInv
  <2>8. dir[c] = Junk
    BY <1>3 DEF Shape, BlankInv
  <2>9. BlankInv'
    <3>1. \A b \in Cluster : fat'[b] = 0 => dir'[b] = Junk
      BY <1>1, <2>1 DEF Shape, BlankInv
    <3>2. call.op = "write" => \A b \in Of(first)' : dir'[b] = Junk
      BY <1>1, <2>4, <2>5, <2>8 DEF Shape, BlankInv
    <3>3. pc' \in {"link", "tail", "zero"} => old' = c
      BY <1>3, <2>1
    <3> QED  BY <1>1, <1>3, <2>1, <2>8, <3>1, <3>2, <3>3 DEF BlankInv
  <2>10. GrowInv'
    <3>1. CASE first = 0
      <4>1. Last(Chain(first)') = c /\ Len(Chain(first)') = 1
        BY <2>3, <2>5, <3>1
      <4> QED  BY <1>3, <3>1, <4>1 DEF GrowInv
    <3>2. CASE first # 0
      BY <1>1, <1>3, <2>4, <3>2 DEF Shape, GrowInv
    <3> QED  BY <3>1, <3>2
  <2>11. MkdirInv'
    <3>1. CASE call.op = "mkdir"
      <4>1. call.size = 1 /\ first = 0
        BY <1>1, <3>1 DEF Shape, MkdirInv
      <4> QED  BY <1>3, <2>1, <4>1 DEF MkdirInv
    <3> QED  BY <1>3, <3>1 DEF MkdirInv
  <2>12. CallPlace'
    <3>1. call.op # "delete"
      BY <1>1 DEF TInv, CallInv
    <3> QED  BY <1>1, <1>3, <2>2, <3>1, CallKept DEF Shape
  <2>13. RoomPlace'
    BY <2>1 DEF RoomPlace
  <2> QED  BY <2>2, <2>6, <2>7, <2>9, <2>10, <2>11, <2>12, <2>13 DEF Shape
<1> QED  BY <1>2, <1>3, AllocateIs

LEMMA LinkIs ==
    ASSUME TInv, NEW own, Owned(own), Shape, NEW bad, LinkCluster(bad), Clean'
    PROVE  /\ pc = "link" /\ pc \in Busy /\ ~bad /\ past' = past /\ call.op = "write"
           /\ fat' = [fat EXCEPT ![prev] = old] /\ prev' = old
           /\ dir' = dir /\ data' = data /\ call' = call /\ first' = first /\ old' = old
           /\ at' = at /\ stored' = stored
           /\ first \in Cluster /\ first # 0 /\ old \in Cluster /\ prev \in Cluster
           /\ own[prev] = New /\ own[old] = None /\ fat[old] = EOF
           /\ prev = Last(Chain(first)) /\ Len(Chain(first)) = k
           /\ \/ k + 1 = call.size /\ pc' = "data" /\ k' = 1
              \/ k + 1 # call.size /\ pc' = "alloc" /\ k' = k + 1
           /\ old \notin Of(first)
           /\ k \in Nat
<1>1. pc = "link" /\ pc \in Busy /\ past' = IF bad THEN past \cup {"lost"} ELSE past
  BY DEF LinkCluster, Busy, Blame
<1>2. ~bad /\ past' = past
  BY <1>1 DEF Clean
<1>3. /\ first # 0 /\ prev # 0 /\ old # 0
      /\ first \in Cluster /\ prev \in Cluster /\ old \in Cluster
      /\ call.op \in {"write", "mkdir", "delete"}
      /\ k \in Nat
  BY <1>1, SizesOK DEF TInv, LocalInv, StepInv, Link, CallSet
<1>4. call.op = "write"
  BY <1>1, <1>3 DEF Shape, MkdirInv, TInv, CallInv
<1>5. own[prev] = New /\ own[old] = None /\ fat[old] = EOF
  BY <1>1, <1>3 DEF Owned, Doing
<1>6. prev = Last(Chain(first)) /\ Len(Chain(first)) = k
  BY <1>1, <1>3 DEF Shape, GrowInv
<1>7. old \notin Of(first)
  BY <1>5, FirstOutside, PlacesAre
<1> QED  BY <1>1, <1>2, <1>3, <1>4, <1>5, <1>6, <1>7 DEF LinkCluster, SetFat

(* What the link makes of the chain of the file. *)
LEMMA LinkChain ==
    ASSUME TInv, TInv', NEW own, Owned(own), Shape, NEW bad, LinkCluster(bad), Clean'
    PROVE  /\ Chain(first)' = Append(Chain(first), old) /\ Of(first)' = Of(first) \cup {old}
           /\ Last(Chain(first)') = old /\ fat'[old] = EOF /\ Len(Chain(first)') = k + 1
           /\ \A b \in Cluster : b # prev => fat'[b] = fat[b]
<1>1. /\ fat' = [fat EXCEPT ![prev] = old] /\ prev = Last(Chain(first)) /\ first' = first
      /\ first \in Cluster /\ old \in Cluster /\ old \notin Of(first) /\ fat[old] = EOF
      /\ Len(Chain(first)) = k
  BY LinkIs
<1>2. FatType /\ FatType'
  BY TInvFat, PTL
<1>3. PICK f \in Cluster : f = first
  BY <1>1
<1>4. PICK x \in Cluster : x = old
  BY <1>1
<1>5. Ends(f)
  BY <1>3 DEF Shape, EndsInv
<1>6. /\ Chain(f)' = Append(Chain(f), x) /\ Of(f)' = Of(f) \cup {x}
      /\ Last(Chain(f)') = x /\ fat'[x] = EOF
      /\ Len(Chain(f)') = Len(Chain(f)) + 1
  BY <1>1, <1>2, <1>3, <1>4, <1>5, ChainAppended
<1>7. Chain(first)' = Chain(f)' /\ Of(first)' = Of(f)'
  BY <1>1, <1>3 DEF Of
<1> QED  BY <1>1, <1>2, <1>3, <1>4, <1>6, <1>7 DEF FatType

LEMMA LinkShape ==
    ASSUME TInv, TInv', HitInv, NEW own, Owned(own), Shape, NEW bad, LinkCluster(bad), Clean'
    PROVE  Undisturbed /\ Shape'
<1>1. /\ pc = "link" /\ pc \in Busy /\ call.op = "write"
      /\ fat' = [fat EXCEPT ![prev] = old] /\ prev' = old
      /\ dir' = dir /\ data' = data /\ call' = call /\ first' = first /\ old' = old
      /\ at' = at /\ first \in Cluster /\ old \in Cluster /\ prev \in Cluster /\ own[prev] = New
      /\ fat[old] = EOF /\ prev = Last(Chain(first)) /\ Len(Chain(first)) = k
      /\ pc' \in {"data", "alloc"} /\ (pc' = "alloc" => k' = k + 1)
  BY LinkIs
<1>2. /\ Of(first)' = Of(first) \cup {old} /\ Last(Chain(first)') = old /\ fat'[old] = EOF
      /\ Len(Chain(first)') = k + 1
      /\ \A b \in Cluster : b # prev => fat'[b] = fat[b]
  BY LinkChain
<1>25. FatType /\ FatType'
  BY TInvFat, PTL
<1>3. FatType /\ FatType' /\ fat'[prev] = old /\ old # 0
  BY <1>1, <1>25, SizesOK DEF FatType
<1>4. Undisturbed
  <2>1. OldFreed => OldFreed'
    BY <1>1 DEF OldFreed
  <2> QED  BY <1>1, <1>2, <2>1, UndisturbedBy
<1>5. EndsInv'
  <2>1. \A b \in Cluster : Rooted(b)' => Ends(b)'
    BY <1>4, UndisturbedEnds DEF Shape
  <2>2. \A b \in Cluster : b = first => Ends(b)'
    BY <1>1, <1>2 DEF Ends
  <2> QED  BY <1>1, <2>1, <2>2 DEF EndsInv
<1>6. prev \in Of(first) /\ dir[prev] = Junk /\ dir[old] = Junk
  BY <1>1, <1>3, OfIsTheLast DEF Shape, BlankInv
<1>7. MarkInv'
  <2>1. \A i \in 1 .. Slots : dir'[prev][i] # End
    BY <1>1, <1>6 DEF Junk, End, Dots
  <2> QED  BY <1>1, <1>2, <2>1 DEF Shape, MarkInv
<1>8. BlankInv'
  <2>1. \A b \in Cluster : fat'[b] = 0 => dir'[b] = Junk
    BY <1>1, <1>2, <1>3 DEF Shape, BlankInv
  <2>2. \A b \in Of(first)' : dir'[b] = Junk
    BY <1>1, <1>2, <1>6 DEF Shape, BlankInv
  <2> QED  BY <1>1, <2>1, <2>2 DEF BlankInv
<1>9. GrowInv'
  BY <1>1, <1>2 DEF GrowInv
<1>10. MkdirInv' /\ RoomPlace'
  BY <1>1 DEF MkdirInv, RoomPlace
<1>11. CallPlace'
  BY <1>1, <1>4, CallKept DEF Shape
<1> QED  BY <1>4, <1>5, <1>7, <1>8, <1>9, <1>10, <1>11 DEF Shape

LEMMA WriteClusterIs ==
    ASSUME TInv, NEW own, Owned(own), NEW bad, WriteCluster(bad)
    PROVE  /\ pc = "data" /\ pc \in Busy /\ fat' = fat /\ stored' = stored
           /\ \/ Fail({}) /\ dir' = dir /\ data' = data
              \/ \E c \in Cluster :
                  /\ c = Chain(first)[k] /\ c \in Of(first) /\ own[c] = New /\ fat[c] # 0
                  /\ first # 0 /\ first \in Cluster
                  /\ k \in 1 .. Len(Chain(first))
                  /\ data' = [data EXCEPT ![c] = <<call.name, k>>]
                  /\ dir' = [dir EXCEPT ![c] = IF call.op = "mkdir" THEN NewDir ELSE Junk]
                  /\ \/ k < Min({call.size, Len(Chain(first))}) /\ k' = k + 1 /\ pc' = "data"
                     \/ ~(k < Min({call.size, Len(Chain(first))})) /\ k' = k /\ pc' = "entry"
                  /\ call' = call /\ first' = first /\ prev' = prev /\ old' = old /\ at' = at
                  /\ past' = past
<1>1. pc = "data" /\ pc \in Busy /\ fat' = fat /\ stored' = stored
  BY DEF WriteCluster, Busy
<1>2. CASE bad
  BY <1>1, <1>2 DEF WriteCluster
<1>3. CASE ~bad
  <2> DEFINE c == Chain(first)[k]
  <2>1. first # 0 /\ first \in Link /\ first \in Cluster /\ k \in 1 .. Len(Chain(first))
    BY <1>1 DEF TInv, StepInv, LocalInv, Link
  <2>2. c \in Of(first)
    BY <2>1, TInvFat, OfIs
  <2>3. c \in Cluster /\ own[c] = New /\ fat[c] # 0
    BY <2>2, FirstOutside
  <2>4. /\ data' = [data EXCEPT ![c] = <<call.name, k>>]
        /\ dir' = [dir EXCEPT ![c] = IF call.op = "mkdir" THEN NewDir ELSE Junk]
        /\ \/ k < Min({call.size, Len(Chain(first))}) /\ k' = k + 1 /\ pc' = "data"
           \/ ~(k < Min({call.size, Len(Chain(first))})) /\ k' = k /\ pc' = "entry"
        /\ call' = call /\ first' = first /\ prev' = prev /\ old' = old /\ at' = at
        /\ past' = past
    BY <1>1, <1>3 DEF WriteCluster, NewDir
  <2> HIDE DEF c
  <2> QED  BY <1>1, <2>1, <2>2, <2>3, <2>4 DEF c
<1> QED  BY <1>2, <1>3

LEMMA NewDirIs ==
    /\ \A i \in 1 .. Slots : /\ ~IsEntry(NewDir[i]) /\ NewDir[i] \in {Dots, End}
                             /\ NewDir[i] = End => \A j \in i .. Slots : NewDir[j] = End
    /\ \A i \in 1 .. Slots : /\ ~IsEntry(Junk[i]) /\ Junk[i] # End /\ Junk[i].kind # "long"
                             /\ ~IsEntry(Idle[i]) /\ Idle[i] = End
<1>1. 1 \in 1 .. Slots /\ 2 \in 1 .. Slots /\ 3 \in 1 .. Slots
  BY SizesOK
<1>2. \A i \in 1 .. Slots : NewDir[i] = IF i \in {1, 2} THEN Dots ELSE End
  BY <1>1 DEF NewDir, Idle
<1>3. End # Dots
  BY DEF End, Dots
<1>4. \A i \in 1 .. Slots : NewDir[i] = End => \A j \in i .. Slots : NewDir[j] = End
  <2> SUFFICES ASSUME NEW i \in 1 .. Slots, NewDir[i] = End, NEW j \in i .. Slots
               PROVE  NewDir[j] = End
    OBVIOUS
  <2>1. i \notin {1, 2}
    BY <1>2, <1>3
  <2>2. j \in 1 .. Slots /\ j \notin {1, 2}
    BY <2>1, SizesOK
  <2> QED  BY <1>2, <2>2
<1>5. \A i \in 1 .. Slots : NewDir[i] \in {Dots, End} /\ Junk[i] = Dots /\ Idle[i] = End
  BY <1>2 DEF Junk, Idle
<1>6. ~IsEntry(Dots) /\ ~IsEntry(End) /\ Dots # End /\ Dots.kind # "long"
  BY DEF IsEntry, Dots, End
<1> QED  BY <1>4, <1>5, <1>6

LEMMA WriteClusterShape ==
    ASSUME TInv, TInv', HitInv, NEW own, Owned(own), Shape, NEW bad, WriteCluster(bad), Clean'
    PROVE  Undisturbed /\ Shape'
<1>1. pc = "data" /\ pc \in Busy /\ fat' = fat
  BY WriteClusterIs
<1>2. CASE Fail({}) /\ dir' = dir /\ data' = data
  BY <1>1, <1>2, FailShape
<1>3. ASSUME NEW c \in Cluster,
             /\ c = Chain(first)[k] /\ c \in Of(first) /\ own[c] = New /\ fat[c] # 0
             /\ first # 0 /\ first \in Cluster
             /\ k \in 1 .. Len(Chain(first))
             /\ data' = [data EXCEPT ![c] = <<call.name, k>>]
             /\ dir' = [dir EXCEPT ![c] = IF call.op = "mkdir" THEN NewDir ELSE Junk]
             /\ pc' \in {"data", "entry"}
             /\ call' = call /\ first' = first /\ prev' = prev /\ old' = old /\ at' = at
      PROVE  Undisturbed /\ Shape'
  <2>1. \A b \in Cluster : b # c => dir'[b] = dir[b] /\ data'[b] = data[b]
    BY <1>3 DEF TInv, DiskInv, DirType
  <2>2. dir'[c] = IF call.op = "mkdir" THEN NewDir ELSE Junk
    BY <1>3 DEF TInv, DiskInv, DirType
  <2>3. \A i \in 1 .. Slots : ~IsEntry(dir'[c][i])
    BY <2>2, NewDirIs
  <2>4. Undisturbed
    <3>1. OldFreed => OldFreed'
      BY <1>1, <1>3 DEF OldFreed
    <3> QED  BY <1>1, <1>3, <2>1, <2>3, <3>1, UndisturbedBy
  <2>5. (Of(first)' = Of(first)) /\ \A b \in Cluster : Ends(b)' <=> Ends(b)
    BY <1>1, <1>3, SameChain DEF Of, Ends
  <2>6. EndsInv'
    <3>1. \A b \in Cluster : Rooted(b)' => Ends(b)'
      BY <2>4, UndisturbedEnds DEF Shape
    <3> QED  BY <1>1, <1>3, <2>5, <3>1 DEF Shape, EndsInv
  <2>7. call.op = "mkdir" => Of(first) = {first} /\ c = first /\ fat[first] = EOF
                             /\ call.size = 1
    <3> SUFFICES ASSUME call.op = "mkdir" PROVE Of(first) = {first} /\ fat[first] = EOF
                                                /\ call.size = 1
      BY <1>3
    <3>1. fat[first] = EOF /\ call.size = 1
      BY <1>1, <1>3 DEF Shape, MkdirInv
    <3>2. Chain(first) = <<first>>
      BY <1>3, <3>1, TInvFat, ChainSingle, SizesOK DEF Singles
    <3> QED  BY <3>1, <3>2 DEF Of, Range
  <2>8. MarkInv'
    <3> SUFFICES ASSUME NEW b \in Cluster, NEW i \in 1 .. Slots, dir'[b][i] = End
                 PROVE  fat[b] \notin Cluster /\ \A j \in i .. Slots : dir'[b][j] = End
      BY <1>1 DEF MarkInv
    <3>1. CASE b # c
      BY <2>1, <3>1 DEF Shape, MarkInv
    <3>2. CASE b = c
      BY <2>2, <2>7, <3>2, NewDirIs, SizesOK
    <3> QED  BY <3>1, <3>2
  <2>9. BlankInv'
    <3>1. \A b \in Cluster : fat'[b] = 0 => dir'[b] = Junk
      BY <1>1, <1>3, <2>1 DEF Shape, BlankInv
    <3>2. call.op = "write" => \A b \in Of(first)' : dir'[b] = Junk
      <4>1. \A b \in Of(first) : b \in Cluster
        BY FirstOutside
      <4> QED  BY <1>1, <2>1, <2>2, <2>5, <4>1 DEF Shape, BlankInv
    <3> QED  BY <1>3, <3>1, <3>2 DEF BlankInv
  <2>10. MkdirInv'
    BY <1>1, <1>3, <2>2, <2>7 DEF MkdirInv
  <2>11. GrowInv' /\ RoomPlace'
    BY <1>3 DEF GrowInv, RoomPlace
  <2>12. CallPlace'
    <3>1. call.op # "delete"
      BY <1>1 DEF TInv, CallInv
    <3> QED  BY <1>1, <1>3, <2>4, <3>1, CallKept DEF Shape
  <2> QED  BY <2>4, <2>6, <2>8, <2>9, <2>10, <2>11, <2>12 DEF Shape
<1> QED  BY <1>2, <1>3, WriteClusterIs

(* Room for entries is found where there is nothing else, behind what there is. *)
LEMMA RoomSlots ==
    ASSUME DirType, MarkInv, NEW c \in Cluster, NEW n \in {1, 2}, RoomIn(c, n) # 0,
           NEW j \in 1 .. Slots
    PROVE  /\ j < RoomIn(c, n) => dir[c][j] # End
           /\ RoomIn(c, n) <= j /\ j < RoomIn(c, n) + n => dir[c][j] \in {End, Erased}
<1> DEFINE ends == {i \in 1 .. Slots : dir[c][i] = End}
           e == IF ends = {} THEN Slots + 1 ELSE Min(ends)
           AllErased(i, m) == \A x \in i .. m : dir[c][x] = Erased
           runs == {i \in 1 .. e - n : AllErased(i, i + n - 1)}
           before == {i \in 1 .. e : AllErased(i, e - 1)}
<1>1. e \in 1 .. Slots + 1 /\ (j < e => dir[c][j] # End) /\ (e <= j => dir[c][j] = End)
  <2>1. Slots \in Nat /\ ends \in SUBSET Nat
    BY SizesOK
  <2>2. ends # {} => Min(ends) \in ends /\ \A x \in ends : Min(ends) <= x
    BY <2>1, MinIs
  <2>3. CASE ends = {}
    BY <2>1, <2>3
  <2>4. CASE ends # {}
    <3>1. e \in 1 .. Slots /\ dir[c][e] = End /\ \A x \in ends : e <= x
      BY <2>2, <2>4
    <3> HIDE DEF e
    <3>2. j < e => dir[c][j] # End
      <4> SUFFICES ASSUME j < e, dir[c][j] = End PROVE FALSE
        OBVIOUS
      <4>1. e <= j
        BY <3>1
      <4> QED  BY <3>1, <4>1
    <3>3. e <= j => dir[c][j] = End
      BY <3>1 DEF MarkInv
    <3> QED  BY <3>1, <3>2, <3>3, <2>1
  <2> QED  BY <2>3, <2>4
<1>2. RoomIn(c, n) = IF runs # {} THEN Min(runs)
                     ELSE IF Slots + 1 - e >= n /\ e <= Slots THEN Min(before) ELSE 0
  BY DEF RoomIn
<1> DEFINE r == RoomIn(c, n)
<1> HIDE DEF e, r
<1>3. CASE runs # {}
  <2>1. runs \in SUBSET Nat
    OBVIOUS
  <2>2. r \in 1 .. e - n /\ \A x \in r .. r + n - 1 : dir[c][x] = Erased
    BY <1>2, <1>3, <2>1, MinIs DEF r
  <2>3. r <= j /\ j < r + n => j \in r .. r + n - 1
    BY <1>1, <2>2
  <2>4. j < r => j < e
    BY <1>1, <2>2
  <2> QED  BY <1>1, <2>2, <2>3, <2>4 DEF r
<1>4. CASE runs = {}
  <2>1. r = Min(before)
    BY <1>2, <1>4 DEF r
  <2>2. before \in SUBSET Nat
    OBVIOUS
  <2>3. e \in before
    <3>1. \A x \in e .. e - 1 : FALSE
      BY <1>1
    <3> QED  BY <1>1, <3>1
  <2>4. r \in 1 .. e /\ \A x \in r .. e - 1 : dir[c][x] = Erased
    BY <2>1, <2>2, <2>3, MinIs
  <2>5. j < r => j < e
    BY <1>1, <2>4
  <2>6. r <= j => j \in r .. e - 1 \/ e <= j
    BY <1>1, <2>4
  <2> QED  BY <1>1, <2>4, <2>5, <2>6 DEF r
<1> QED  BY <1>3, <1>4

LEMMA FindRoomShape ==
    ASSUME TInv, TInv', HitInv, NEW own, Owned(own), Shape, FindRoom
    PROVE  Undisturbed /\ Shape'
<1> DEFINE n == SlotsFor(call.name)
<1>1. /\ pc = "entry" /\ ~call.hit /\ at' = FreeSlots(call.dir, n) /\ k' = 1
      /\ pc' = IF at' = <<0, 0>> THEN "expand" ELSE "slots"
      /\ fat' = fat /\ data' = data /\ dir' = dir /\ call' = call
      /\ first' = first /\ prev' = prev /\ old' = old
      /\ pc \in Busy
  BY DEF FindRoom, disk, Busy
<1>2. Undisturbed
  BY <1>1, StillUndisturbed
<1>3. \A c : Chain(c)' = Chain(c) /\ Of(c)' = Of(c) /\ (Ends(c)' <=> Ends(c))
  BY <1>1, SameChain DEF Of, Ends
<1>4. EndsInv'
  <2>1. \A b \in Cluster : Rooted(b)' => Ends(b)'
    BY <1>2, UndisturbedEnds DEF Shape
  <2> QED  BY <1>1, <1>3, <2>1 DEF Shape, EndsInv
<1>5. MarkInv' /\ BlankInv' /\ GrowInv' /\ MkdirInv'
  BY <1>1, <1>3 DEF Shape, MarkInv, BlankInv, GrowInv, MkdirInv, Busy
<1>6. CallPlace'
  <2>1. call.op # "delete"
    BY <1>1 DEF TInv, CallInv
  <2> QED  BY <1>1, <1>2, <2>1, CallKept DEF Shape
<1>7. RoomPlace'
  <2>1. CASE at' = <<0, 0>>
    BY <1>1, <2>1 DEF RoomPlace
  <2>2. CASE at' # <<0, 0>>
    <3>1. call.dir \in Cluster /\ call.dir \in Link /\ FatType /\ DirType /\ n \in {1, 2}
      BY <1>1, SlotsForIs, TInvFat DEF TInv, DiskInv, LocalInv, CallSet, Link
    <3>2. PICK c \in Cluster, i \in 1 .. Len(Chain(call.dir)) :
              /\ FreeSlots(call.dir, n) = <<c, RoomIn(c, n)>> /\ RoomIn(c, n) # 0
              /\ c = Chain(call.dir)[i]
      BY <1>1, <2>2, <3>1, FreeSlotsIs
    <3>3. c \in Of(call.dir)
      BY <3>1, <3>2, OfIs
    <3>4. RoomIn(c, n) \in 1 .. Slots
      BY <3>1, <3>2, RoomIs
    <3>5. \A j \in 1 .. Slots :
              /\ j < RoomIn(c, n) => dir[c][j] # End
              /\ RoomIn(c, n) <= j /\ j < RoomIn(c, n) + n => dir[c][j] \in {End, Erased}
      BY <3>1, <3>2, RoomSlots DEF Shape
    <3>6. at'[1] = c /\ at'[2] = RoomIn(c, n)
      BY <1>1, <3>2
    <3>7. \A j \in 1 .. Slots :
              /\ j < at'[2] + 1 - 1 => dir[c][j] # End
              /\ at'[2] + 1 - 1 <= j /\ j < at'[2] + n => dir[c][j] \in {End, Erased}
      BY <3>4, <3>5, <3>6
    <3>8. call'.dir = call.dir /\ SlotsFor(call'.name) = n /\ Of(call.dir)' = Of(call.dir)
      <4>1. PICK d : d = call.dir
        OBVIOUS
      <4>2. Of(call.dir)' = Of(d)'
        BY <1>1, <4>1 DEF Of
      <4> QED  BY <1>1, <1>3, <4>1, <4>2
    <3> QED  BY <1>1, <3>3, <3>6, <3>7, <3>8 DEF RoomPlace
  <2> QED  BY <2>1, <2>2
<1> QED  BY <1>2, <1>4, <1>5, <1>6, <1>7 DEF Shape

(* Slot m of the i-th cluster of a directory, in its listing. *)
LEMMA PlaceListed ==
    ASSUME FatType, DirType, NEW d \in Link, NEW i \in 1 .. Len(Chain(d)), NEW m \in 1 .. Slots
    PROVE  /\ Slots * (i - 1) + m \in 1 .. Len(AllEntries(d))
           /\ Place(d, Slots * (i - 1) + m) = <<Chain(d)[i], m>>
           /\ AllEntries(d)[Slots * (i - 1) + m] = dir[Chain(d)[i]][m]
<1> DEFINE n == Len(Chain(d))
           j == Slots * (i - 1) + m
           q == (j - 1) \div Slots
           r == (j - 1) % Slots
<1>1. Slots \in Nat \ {0} /\ n \in Nat /\ i - 1 \in Nat /\ i - 1 < n /\ m - 1 \in 0 .. Slots - 1
      /\ i \in 1 .. n
  BY ChainIs, SizesOK
<1>2. Len(AllEntries(d)) = n * Slots
  BY AllEntriesIs
<1> HIDE DEF n
<1>3. n * Slots = Slots * n /\ Slots * n \in Nat /\ Slots * (i - 1) \in Nat
  BY <1>1, Z3
<1>4. Slots * (i - 1) + Slots <= Slots * n
  BY <1>1, Products
<1>5. j \in 1 .. n * Slots /\ j - 1 \in Nat /\ j - 1 = Slots * (i - 1) + (m - 1)
  BY <1>1, <1>3, <1>4
<1>6. q \in Nat /\ r \in 0 .. Slots - 1 /\ j - 1 = Slots * q + r
  BY <1>1, <1>5, DivMod
<1> HIDE DEF j, q, r
<1>7. Slots * q \in Nat
  BY <1>1, <1>6, Products
<1>8. (q < i - 1 => Slots * q + Slots <= Slots * (i - 1))
      /\ (i - 1 < q => Slots * (i - 1) + Slots <= Slots * q)
  BY <1>1, <1>6, Products
<1>9. q = i - 1
  <2>1. ~(q < i - 1) /\ ~(i - 1 < q)
    BY <1>1, <1>3, <1>5, <1>6, <1>7, <1>8
  <2> QED  BY <1>1, <1>6, <2>1
<1>10. r = m - 1
  BY <1>1, <1>3, <1>5, <1>6, <1>9
<1>11. Place(d, j) = <<Chain(d)[q + 1], r + 1>>
  BY DEF Place, q, r
<1>12. Place(d, j) = <<Chain(d)[i], m>>
  BY <1>1, <1>9, <1>10, <1>11
<1>13. AllEntries(d)[j] = dir[Place(d, j)[1]][Place(d, j)[2]]
  BY <1>2, <1>5, AllEntriesIs
<1> QED  BY <1>2, <1>5, <1>12, <1>13 DEF j

LEMMA ExpandIs ==
    ASSUME TInv, NEW bad, Expand(bad), Clean'
    PROVE  /\ pc = "expand" /\ pc \in Busy /\ dir' = dir /\ data' = data /\ stored' = stored
           /\ ~call.hit
           /\ \/ Fail({}) /\ fat' = fat
              \/ \E c \in Cluster \ {Root} :
                  /\ fat[c] = 0 /\ fat' = [fat EXCEPT ![c] = EOF] /\ call' = call /\ at' = at
                  /\ past' = past /\ c # 0 /\ first' = first /\ prev' = prev /\ k' = k
                  /\ pc' = "tail" /\ old' = c
                  /\ End \notin Range(AllEntries(call.dir))
<1>1. pc = "expand" /\ pc \in Busy /\ dir' = dir /\ data' = data /\ stored' = stored
      /\ ~call.hit
  BY DEF Expand, Busy, TInv, CallInv
<1> DEFINE c == FreeCluster
<1>2. CASE bad \/ c = 0
  BY <1>1, <1>2 DEF Expand
<1>3. CASE ~(bad \/ c = 0)
  <2>1. c \in Cluster \ {Root} /\ fat[c] = 0 /\ c # 0
    BY <1>3, AllocCluster DEF TInv
  <2>2. /\ fat' = [fat EXCEPT ![c] = EOF] /\ call' = call /\ at' = at
        /\ first' = first /\ prev' = prev /\ k' = k /\ pc' = "tail" /\ old' = c
        /\ past' = IF End \in Range(AllEntries(call.dir)) THEN past \cup {"hidden"} ELSE past
    BY <1>3 DEF Expand, SetFat, Blame
  <2>3. End \notin Range(AllEntries(call.dir)) /\ past' = past
    BY <2>2 DEF Clean
  <2> HIDE DEF c
  <2> QED  BY <1>1, <2>1, <2>2, <2>3
<1> QED  BY <1>2, <1>3

LEMMA ExpandShape ==
    ASSUME TInv, TInv', HitInv, NEW own, Owned(own), Shape, NEW bad, Expand(bad), Clean'
    PROVE  Undisturbed /\ Shape'
<1>1. pc = "expand" /\ pc \in Busy /\ dir' = dir /\ data' = data /\ ~call.hit
  BY ExpandIs
<1>2. CASE Fail({}) /\ fat' = fat
  BY <1>1, <1>2, FailShape
<1>3. ASSUME NEW c \in Cluster \ {Root},
             /\ fat[c] = 0 /\ fat' = [fat EXCEPT ![c] = EOF] /\ call' = call /\ at' = at
             /\ past' = past /\ c # 0 /\ first' = first /\ prev' = prev /\ k' = k
             /\ pc' = "tail" /\ old' = c
             /\ End \notin Range(AllEntries(call.dir))
      PROVE  Undisturbed /\ Shape'
  <2>0. FatType /\ FatType'
    BY TInvFat, PTL
  <2>1. /\ \A b \in Cluster : b # c => fat'[b] = fat[b]
        /\ fat'[c] = EOF /\ EOF # 0 /\ EOF \notin Cluster
    BY <1>3, <2>0, SizesOK DEF FatType
  <2>2. Undisturbed
    <3>1. OldFreed => OldFreed'
      BY <1>1, <1>3 DEF OldFreed
    <3> QED  BY <1>1, <1>3, <2>1, <3>1, UndisturbedBy
  <2>3. /\ Of(first)' = Of(first) /\ c \notin Of(first)
        /\ \A b \in Cluster : b = first => Ends(b)'
    BY <1>3, <2>1, FirstKept DEF Shape
  <2>4. EndsInv'
    <3>1. \A b \in Cluster : Rooted(b)' => Ends(b)'
      BY <2>2, UndisturbedEnds DEF Shape
    <3> QED  BY <1>3, <2>3, <3>1 DEF EndsInv
  <2>5. MarkInv'
    BY <1>1, <2>1 DEF Shape, MarkInv
  <2>6. BlankInv'
    <3>1. dir[c] = Junk
      BY <1>3 DEF Shape, BlankInv
    <3>2. \A b \in Cluster : fat'[b] = 0 => dir'[b] = Junk
      BY <1>1, <2>1 DEF Shape, BlankInv
    <3> QED  BY <1>1, <1>3, <2>1, <2>3, <3>1, <3>2 DEF Shape, BlankInv
  <2>7. GrowInv'
    BY <1>3 DEF GrowInv
  <2>8. MkdirInv'
    <3>1. first # 0 => first \in Cluster /\ first # c
      <4>1. first # 0 => first \in Of(first) /\ first \in Cluster
        BY <2>0, OfIs DEF TInv, LocalInv, Link
      <4> QED  BY <2>3, <4>1
    <3>2. call.op = "mkdir" => first # 0
      BY <1>1 DEF TInv, CallInv
    <3> QED  BY <1>1, <1>3, <2>1, <3>1, <3>2 DEF Shape, MkdirInv
  <2>9. PICK d : d = call.dir
    OBVIOUS
  <2>10. call.op # "delete" /\ d \in Link
    BY <1>1, <2>9 DEF TInv, CallInv, LocalInv, CallSet, Link
  <2>11. CallPlace' /\ Of(d)' = Of(d)
    BY <1>1, <1>3, <2>2, <2>9, <2>10, CallKept DEF Shape
  <2>12. RoomPlace'
    <3>1. ASSUME NEW b \in Of(d), NEW m \in 1 .. Slots PROVE dir[b][m] # End
      <4>1. PICK i \in 1 .. Len(Chain(d)) : b = Chain(d)[i]
        BY <2>0, <2>10, OfIs
      <4>2. DirType
        BY DEF TInv, DiskInv
      <4>3. \E j \in 1 .. Len(AllEntries(d)) : AllEntries(d)[j] = dir[b][m]
        BY <2>0, <2>10, <4>1, <4>2, PlaceListed
      <4>4. AllEntries(d) \in Seq(EntrySet)
        BY <2>0, <2>10, <4>2, AllEntriesIs
      <4>5. dir[b][m] \in Range(AllEntries(d))
        BY <4>3, <4>4 DEF Range
      <4> QED  BY <1>3, <2>9, <4>5
    <3>2. Of(call.dir)' = Of(d)'
      BY <1>3, <2>9 DEF Of
    <3> QED  BY <1>1, <1>3, <2>11, <3>1, <3>2 DEF RoomPlace
  <2> QED  BY <2>2, <2>4, <2>5, <2>6, <2>7, <2>8, <2>11, <2>12 DEF Shape
<1> QED  BY <1>2, <1>3, ExpandIs

(* A step after which the directories list what they listed, though one of them may have
   grown, and the files are what they were. *)
SameListing == \A d : Directory(d)' =>
                   /\ Directory(d) /\ Of(d) \subseteq Of(d)'
                   /\ \A p : /\ Holds(d, p)' <=> Holds(d, p)
                             /\ Holds(d, p) => At(p)' = At(p)

SameFile(c) == /\ Chain(c)' = Chain(c) /\ Of(c)' = Of(c)
               /\ \A b \in Of(c) : data'[b] = data[b] /\ dir'[b] = dir[b]

SameFiles == \A p \in Places : Whole(p)' =>
                 /\ Whole(p) /\ At(p)' = At(p)
                 /\ \A c : At(p).kind = "file" /\ c = FirstOf(p) /\ c # 0 => SameFile(c)

LEMMA UndisturbedSame ==
    ASSUME TInv, TInv', Undisturbed
    PROVE  SameListing /\ SameFiles
<1>1. SameListing
  BY DirectoriesKept DEF SameListing
<1>2. ASSUME NEW p \in Places, Whole(p)'
      PROVE  /\ Whole(p) /\ At(p)' = At(p)
             /\ \A c : At(p).kind = "file" /\ c = FirstOf(p) /\ c # 0 => SameFile(c)
  <2>1. Whole(p) /\ At(p)' = At(p)
    BY <1>2 DEF Undisturbed
  <2>2. ASSUME NEW c, c = FirstOf(p), c # 0 PROVE SameFile(c)
    <3>1. c \in Cluster
      BY <2>1, <2>2, WholeIs DEF Link
    <3>2. FirstOf(p)' = c
      BY <2>1, <2>2 DEF FirstOf, At
    <3>3. Rooted(c)'
      BY <1>2, <3>1, <3>2 DEF Rooted
    <3> QED  BY <3>1, <3>3 DEF Undisturbed, SameFile
  <2> QED  BY <2>1, <2>2
<1> QED  BY <1>1, <1>2 DEF SameFiles

LEMMA LinkTailIs ==
    ASSUME TInv, HitInv, NEW own, Owned(own), Shape, NEW bad, LinkTail(bad), Clean',
           NEW d, d = call.dir
    PROVE  /\ pc = "tail" /\ pc \in Busy /\ pc' = "zero" /\ ~bad /\ past' = past
           /\ fat' = [fat EXCEPT ![Last(Chain(d))] = old]
           /\ dir' = dir /\ data' = data /\ call' = call /\ first' = first /\ prev' = prev
           /\ old' = old /\ at' = at /\ k' = k /\ stored' = stored /\ ~call.hit
           /\ call.op # "delete" /\ call.chain = 0
           /\ d \in Cluster /\ Directory(d) /\ Rooted(d) /\ Ends(d) /\ d # 0
           /\ old \in Cluster \ {Root} /\ fat[old] = EOF /\ dir[old] = Junk /\ own[old] = None
           /\ old \notin Of(d)
<1>1. /\ pc = "tail" /\ pc \in Busy /\ pc' = "zero"
      /\ past' = IF bad THEN past \cup {"lost"} ELSE past
      /\ dir' = dir /\ data' = data /\ call' = call /\ first' = first /\ prev' = prev
      /\ old' = old /\ at' = at /\ k' = k /\ stored' = stored
  BY DEF LinkTail, Busy, Blame, locals
<1>2. ~bad /\ past' = past
  BY <1>1 DEF Clean
<1>3. fat' = [fat EXCEPT ![Last(Chain(d))] = old]
  BY <1>2 DEF LinkTail, SetFat
<1>4. /\ ~call.hit /\ call.op # "delete" /\ call.chain = 0 /\ old \in Cluster \ {Root}
      /\ own[old] = None /\ fat[old] = EOF
  BY <1>1 DEF TInv, CallInv, LocalInv, StepInv, Link, Owned, Doing
<1>5. Directory(d) /\ dir[old] = Junk
  BY <1>1 DEF Shape, CallPlace, BlankInv
<1>6. Rooted(d) /\ d \in Cluster
  BY <1>5, DirectoryRooted
<1>7. Ends(d) /\ d # 0
  BY <1>6, SizesOK DEF Shape, EndsInv
<1>8. old \notin Of(d)
  BY <1>4, <1>6, Outside
<1> QED  BY <1>1, <1>2, <1>3, <1>4, <1>5, <1>6, <1>7, <1>8

(* The chain of the directory grows, the others stay. *)
LEMMA LinkTailChains ==
    ASSUME TInv, TInv', HitInv, NEW own, Owned(own), Shape, NEW bad, LinkTail(bad), Clean',
           NEW d, d = call.dir
    PROVE  /\ Of(d)' = Of(d) \cup {old} /\ Ends(d)' /\ fat'[old] = EOF
           /\ \A p : (Whole(p)' <=> Whole(p)) /\ At(p)' = At(p) /\ FirstOf(p)' = FirstOf(p)
           /\ \A c : Rooted(c)' <=> Rooted(c)
           /\ \A c : Rooted(c) /\ c # d => Chain(c)' = Chain(c) /\ Of(c)' = Of(c) /\ Ends(c)'
           /\ Chain(first)' = Chain(first) /\ Of(first)' = Of(first)
           /\ \A c \in Cluster : c = first => Ends(c)' /\ fat'[c] = fat[c]
           /\ \E z \in Of(d) : z \in Cluster /\ fat'[z] = old
                               /\ \A b \in Cluster : b # z => fat'[b] = fat[b]
<1> DEFINE z == Last(Chain(d))
<1>1. /\ pc = "tail" /\ pc' = "zero" /\ fat' = [fat EXCEPT ![z] = old]
      /\ dir' = dir /\ call' = call /\ first' = first /\ old' = old /\ at' = at
      /\ call.chain = 0
      /\ d \in Cluster /\ Rooted(d) /\ Ends(d)
      /\ old \in Cluster \ {Root} /\ fat[old] = EOF /\ old \notin Of(d)
  BY LinkTailIs
<1>2. FatType /\ FatType'
  BY TInvFat, PTL
<1>3. PICK x \in Cluster : x = old
  BY <1>1
<1>4. /\ Of(d)' = Of(d) \cup {x} /\ Last(Chain(d)') = x /\ fat'[x] = EOF /\ z \in Of(d)
  BY <1>1, <1>2, <1>3, ChainAppended
<1>5. Of(d)' = Of(d) \cup {old} /\ Ends(d)' /\ fat'[old] = EOF
  BY <1>3, <1>4 DEF Ends
<1>6. \A p : (Whole(p)' <=> Whole(p)) /\ At(p)' = At(p) /\ FirstOf(p)' = FirstOf(p)
  <2>1. ~OldFreed /\ ~OldFreed'
    BY <1>1 DEF OldFreed
  <2> QED  BY <1>1, <2>1 DEF Whole, At, FirstOf
<1>7. \A c : Rooted(c)' <=> Rooted(c)
  BY <1>6 DEF Rooted
<1>8. z \in Cluster /\ own[z] \notin {None, New}
  BY <1>1, <1>4, Outside
<1>9. \A b \in Cluster : b # z => fat'[b] = fat[b]
  BY <1>1, <1>2 DEF FatType
<1>10. fat'[z] = old
  BY <1>1, <1>2, <1>8 DEF FatType
<1> HIDE DEF z
<1>11. ASSUME NEW c, Rooted(c), c # d
       PROVE  Chain(c)' = Chain(c) /\ Of(c)' = Of(c) /\ Ends(c)'
  <2>1. c \in Cluster /\ c \in Link
    BY <1>11, RootedOwned
  <2>2. ASSUME NEW b \in Of(c) PROVE b \in Cluster /\ fat'[b] = fat[b]
    <3>1. b \in Cluster
      BY <1>11, Outside
    <3>2. b # z
      BY <1>1, <1>4, <1>11, RootedApart
    <3> QED  BY <1>9, <3>1, <3>2
  <2>3. Chain(c)' = Chain(c) /\ Of(c)' = Of(c)
    BY <1>2, <2>1, <2>2, ChainFrame
  <2>4. Ends(c) /\ Last(Chain(c)) \in Of(c)
    BY <1>2, <1>11, <2>1, OfIsTheLast DEF Shape, EndsInv
  <2> QED  BY <2>2, <2>3, <2>4 DEF Ends
<1>12. /\ Chain(first)' = Chain(first) /\ Of(first)' = Of(first) /\ z \notin Of(first)
       /\ \A c \in Cluster : c = first => Ends(c)'
  BY <1>1, <1>8, <1>9, FirstKept DEF Shape
<1>13. \A c \in Cluster : c = first => fat'[c] = fat[c]
  <2>1. \A c \in Cluster : c = first => c \in Of(first)
    BY <1>2, OfIs, SizesOK DEF Link
  <2> QED  BY <1>9, <1>12, <2>1
<1> QED  BY <1>4, <1>5, <1>6, <1>7, <1>8, <1>9, <1>10, <1>11, <1>12, <1>13

LEMMA LinkTailShape ==
    ASSUME TInv, TInv', HitInv, NEW own, Owned(own), Shape, NEW bad, LinkTail(bad), Clean'
    PROVE  SameListing /\ SameFiles /\ Shape'
<1>0. PICK d : d = call.dir
  OBVIOUS
<1>1. /\ pc = "tail" /\ pc \in Busy /\ pc' = "zero"
      /\ dir' = dir /\ data' = data /\ call' = call /\ first' = first /\ prev' = prev
      /\ old' = old /\ at' = at /\ k' = k /\ ~call.hit
      /\ call.op # "delete" /\ call.chain = 0
      /\ d \in Cluster /\ Directory(d) /\ Rooted(d) /\ Ends(d) /\ d # 0
      /\ old \in Cluster \ {Root} /\ dir[old] = Junk /\ old \notin Of(d)
  BY <1>0, LinkTailIs
<1>2. /\ Of(d)' = Of(d) \cup {old} /\ Ends(d)' /\ fat'[old] = EOF
      /\ \A p : (Whole(p)' <=> Whole(p)) /\ At(p)' = At(p) /\ FirstOf(p)' = FirstOf(p)
      /\ \A c : Rooted(c)' <=> Rooted(c)
      /\ \A c : Rooted(c) /\ c # d => Chain(c)' = Chain(c) /\ Of(c)' = Of(c) /\ Ends(c)'
      /\ Chain(first)' = Chain(first) /\ Of(first)' = Of(first)
      /\ \A c \in Cluster : c = first => Ends(c)' /\ fat'[c] = fat[c]
  BY <1>0, LinkTailChains
<1>3. PICK z \in Of(d) : z \in Cluster /\ fat'[z] = old
                         /\ \A b \in Cluster : b # z => fat'[b] = fat[b]
  BY <1>0, LinkTailChains
<1>4. \A p \in Places : p[1] = old => ~IsEntry(At(p))
  BY <1>1, PlacesAre, NewDirIs DEF At
<1>5. \A c : Rooted(c) => /\ Of(c) \subseteq Of(c)'
                          /\ \A p \in Places : IsEntry(At(p)) /\ p[1] \in Of(c)' => p[1] \in Of(c)
  BY <1>2, <1>4
<1>6. Rooted(Root)
  BY DEF Rooted
<1>7. \A p : DirAt(p)' <=> DirAt(p)
  BY <1>2, <1>5, <1>6 DEF DirAt, Whole
<1>8. \A c : Directory(c)' <=> Directory(c)
  BY <1>2, <1>7 DEF Directory
<1>9. \A c : Directory(c) => Rooted(c)
  BY DirectoryRooted
<1>10. SameListing
  BY <1>2, <1>5, <1>8, <1>9 DEF SameListing, Holds
<1>11. SameFiles
  <2> SUFFICES ASSUME NEW p \in Places, Whole(p), At(p).kind = "file",
                      NEW c, c = FirstOf(p), c # 0
               PROVE  SameFile(c)
    BY <1>2 DEF SameFiles
  <2>1. c \in Cluster
    BY WholeIs DEF Link
  <2>2. Rooted(c) /\ c # Root
    BY <2>1, WholeIs DEF Rooted
  <2>3. c # d
    <3> SUFFICES ASSUME c = d PROVE FALSE
      OBVIOUS
    <3>1. PICK q \in Places : DirAt(q) /\ FirstOf(q) = c
      BY <1>1, <2>2 DEF Directory
    <3>2. q = p
      BY <2>1, <3>1, WholeApart DEF DirAt
    <3> QED  BY <3>1, <3>2 DEF DirAt
  <2> QED  BY <1>1, <1>2, <2>2, <2>3 DEF SameFile
<1>12. EndsInv'
  BY <1>1, <1>2 DEF EndsInv
<1>13. MarkInv'
  <2>1. \A i \in 1 .. Slots : dir[z][i] # End
    BY <1>0, <1>1, <1>3 DEF Shape, RoomPlace
  <2> QED  BY <1>1, <1>3, <2>1 DEF Shape, MarkInv
<1>14. BlankInv'
  <2>1. \A b \in Cluster : fat'[b] = 0 => dir'[b] = Junk
    BY <1>1, <1>3, SizesOK DEF Shape, BlankInv
  <2> QED  BY <1>1, <1>2, <2>1 DEF Shape, BlankInv
<1>15. GrowInv'
  BY <1>1 DEF GrowInv
<1>16. MkdirInv'
  <2>1. first # 0 => first \in Cluster
    BY DEF TInv, LocalInv, Link
  <2> QED  BY <1>1, <1>2, <2>1 DEF Shape, MkdirInv
<1>17. CallPlace'
  <2>1. Directory(call.dir)'
    <3>1. Directory(d)'
      BY <1>1, <1>8
    <3>2. call'.dir = d
      BY <1>0, <1>1
    <3> QED  BY <3>1, <3>2 DEF Directory
  <2> QED  BY <1>1, <2>1 DEF Shape, CallPlace
<1>18. RoomPlace'
  <2>1. old' \in Of(d)'
    BY <1>1, <1>2
  <2>2. Of(call.dir)' = Of(d)'
    BY <1>0, <1>1 DEF Of
  <2> QED  BY <1>1, <2>1, <2>2 DEF RoomPlace
<1> QED  BY <1>10, <1>11, <1>12, <1>13, <1>14, <1>15, <1>16, <1>17, <1>18 DEF Shape

(* No file has a cluster of a directory. *)
LEMMA FilesOutside ==
    ASSUME TInv, HitInv, NEW own, Owned(own), NEW p, Whole(p), At(p).kind = "file",
           NEW c, c = FirstOf(p), c # 0, NEW d, Directory(d)
    PROVE  c \in Cluster /\ Rooted(c) /\ c # d /\ \A b \in Of(c) : b \notin Of(d)
<1>1. c \in Cluster /\ c # Root
  BY WholeIs DEF Link
<1>2. Rooted(c)
  BY <1>1, WholeIs DEF Rooted
<1>3. c # d
  <2> SUFFICES ASSUME c = d PROVE FALSE
    OBVIOUS
  <2>1. PICK q \in Places : DirAt(q) /\ FirstOf(q) = c
    BY <1>1 DEF Directory
  <2>2. q = p
    BY <2>1, WholeApart DEF DirAt
  <2> QED  BY <2>1, <2>2 DEF DirAt
<1>4. Rooted(d)
  BY DirectoryRooted
<1> QED  BY <1>1, <1>2, <1>3, <1>4, RootedApart

LEMMA ZeroTailIs ==
    ASSUME TInv, HitInv, NEW own, Owned(own), Shape, NEW bad, ZeroTail(bad), Clean',
           NEW d, d = call.dir
    PROVE  /\ pc = "zero" /\ pc \in Busy /\ pc' = "slots" /\ ~bad /\ past' = past
           /\ fat' = fat /\ dir' = [dir EXCEPT ![old] = Idle]
           /\ data' = [data EXCEPT ![old] = Nothing]
           /\ call' = call /\ first' = first /\ prev' = prev
           /\ old' = old /\ at' = <<old, 1>> /\ k' = k /\ k = 1 /\ stored' = stored /\ ~call.hit
           /\ call.op # "delete" /\ call.chain = 0 /\ ~OldFreed /\ ~OldFreed'
           /\ Directory(d) /\ old \in Of(d)
           /\ old \in Cluster \ {Root} /\ fat[old] = EOF /\ dir[old] = Junk /\ own[old] # New
<1>1. /\ pc = "zero" /\ pc \in Busy /\ pc' = "slots"
      /\ past' = IF bad THEN past \cup {"torn"} ELSE past
      /\ call' = call /\ first' = first /\ prev' = prev /\ fat' = fat
      /\ old' = old /\ at' = <<old, 1>> /\ k' = k /\ stored' = stored
  BY DEF ZeroTail, Busy, Blame
<1>2. ~bad /\ past' = past
  BY <1>1 DEF Clean
<1>3. dir' = [dir EXCEPT ![old] = Idle] /\ data' = [data EXCEPT ![old] = Nothing]
  BY <1>2 DEF ZeroTail
<1>4. ~call.hit /\ call.op # "delete" /\ call.chain = 0 /\ old \in Cluster \ {Root} /\ k = 1
  BY <1>1 DEF TInv, CallInv, LocalInv, StepInv, Link
<1>5. Directory(d) /\ dir[old] = Junk /\ fat[old] = EOF /\ old \in Of(d)
  BY <1>1 DEF Shape, CallPlace, BlankInv, RoomPlace
<1>6. own[old] # New
  <2>1. Rooted(d)
    BY <1>5, DirectoryRooted
  <2> QED  BY <1>5, <2>1, Outside
<1>7. ~OldFreed /\ ~OldFreed'
  BY <1>1, <1>4 DEF OldFreed
<1> QED  BY <1>1, <1>2, <1>3, <1>4, <1>5, <1>6, <1>7

LEMMA ZeroTailShape ==
    ASSUME TInv, TInv', HitInv, NEW own, Owned(own), Shape, NEW bad, ZeroTail(bad), Clean'
    PROVE  SameListing /\ SameFiles /\ Shape'
<1>0. PICK d : d = call.dir
  OBVIOUS
<1>1. /\ pc = "zero" /\ pc \in Busy /\ pc' = "slots"
      /\ fat' = fat /\ dir' = [dir EXCEPT ![old] = Idle]
      /\ data' = [data EXCEPT ![old] = Nothing]
      /\ call' = call /\ first' = first /\ prev' = prev
      /\ old' = old /\ at' = <<old, 1>> /\ k' = k /\ k = 1 /\ ~call.hit
      /\ call.op # "delete" /\ ~OldFreed /\ ~OldFreed'
      /\ Directory(d) /\ old \in Of(d)
      /\ old \in Cluster \ {Root} /\ fat[old] = EOF /\ dir[old] = Junk /\ own[old] # New
  BY <1>0, ZeroTailIs
<1>2. dir'[old] = Idle /\ \A b \in Cluster : b # old => dir'[b] = dir[b] /\ data'[b] = data[b]
  BY <1>1 DEF TInv, DiskInv, DirType
<1>3. \A c : Chain(c)' = Chain(c) /\ Of(c)' = Of(c) /\ (Ends(c)' <=> Ends(c))
  BY <1>1, SameChain DEF Of, Ends
<1>4. \A p \in Places : /\ IsEntry(At(p)') <=> IsEntry(At(p))
                        /\ IsEntry(At(p)) => At(p)' = At(p)
  <2> SUFFICES ASSUME NEW p \in Places
               PROVE  /\ IsEntry(At(p)') <=> IsEntry(At(p))
                      /\ IsEntry(At(p)) => At(p)' = At(p)
    OBVIOUS
  <2>1. p[1] \in Cluster /\ p[2] \in 1 .. Slots
    BY PlacesAre
  <2>2. CASE p[1] = old
    BY <1>1, <1>2, <2>1, <2>2, NewDirIs DEF At
  <2>3. CASE p[1] # old
    BY <1>2, <2>1, <2>3 DEF At
  <2> QED  BY <2>2, <2>3
<1>5. \A p : /\ Whole(p)' <=> Whole(p)
             /\ Whole(p) => At(p)' = At(p) /\ FirstOf(p)' = FirstOf(p) /\ p \in Places
  BY <1>1, <1>4 DEF Whole, At, FirstOf
<1>6. \A c : Rooted(c)' <=> Rooted(c)
  BY <1>5 DEF Rooted
<1>7. \A p : (DirAt(p)' <=> DirAt(p)) /\ (DirAt(p) => FirstOf(p)' = FirstOf(p))
  BY <1>3, <1>5 DEF DirAt
<1>8. \A c : Directory(c)' <=> Directory(c)
  BY <1>7 DEF Directory
<1>9. SameListing
  BY <1>3, <1>4, <1>8 DEF SameListing, Holds
<1>10. SameFiles
  <2> SUFFICES ASSUME NEW p \in Places, Whole(p), At(p).kind = "file",
                      NEW c, c = FirstOf(p), c # 0
               PROVE  SameFile(c)
    BY <1>5 DEF SameFiles
  <2>1. c \in Cluster /\ Rooted(c) /\ \A b \in Of(c) : b \notin Of(d)
    BY <1>1, FilesOutside
  <2>2. \A b \in Of(c) : b \in Cluster /\ b # old
    BY <1>1, <2>1, Outside
  <2> QED  BY <1>2, <1>3, <2>2 DEF SameFile
<1>11. EndsInv'
  BY <1>1, <1>3, <1>6 DEF Shape, EndsInv
<1>12. MarkInv'
  <2>1. \A i \in 1 .. Slots : \A j \in i .. Slots : j \in 1 .. Slots /\ Idle[j] = End
    BY NewDirIs, SizesOK
  <2> QED  BY <1>1, <1>2, <2>1, SizesOK DEF Shape, MarkInv
<1>13. \A b \in Of(first) : b \in Cluster /\ b # old
  BY <1>1, FirstOutside
<1>14. BlankInv'
  <2>1. \A b \in Cluster : fat'[b] = 0 => dir'[b] = Junk
    BY <1>1, <1>2, SizesOK DEF Shape, BlankInv
  <2>2. call.op = "write" => \A b \in Of(first)' : dir'[b] = Junk
    <3>1. Of(first)' = Of(first)
      BY <1>1, <1>3 DEF Of
    <3> QED  BY <1>1, <1>2, <1>13, <3>1 DEF Shape, BlankInv
  <2> QED  BY <1>1, <2>1, <2>2 DEF BlankInv
<1>15. GrowInv'
  BY <1>1 DEF GrowInv
<1>16. MkdirInv'
  <2>1. first # 0 => first \in Cluster /\ first # old
    BY <1>13, OfIs, TInvFat DEF TInv, LocalInv, Link
  <2>2. call.op = "mkdir" => first # 0
    BY <1>1 DEF TInv, CallInv
  <2> QED  BY <1>1, <1>2, <2>1, <2>2 DEF Shape, MkdirInv
<1>17. call'.dir = d
  BY <1>0, <1>1
<1>18. CallPlace'
  <2>1. Directory(call.dir)'
    BY <1>1, <1>8, <1>17 DEF Directory
  <2> QED  BY <1>1, <2>1 DEF Shape, CallPlace
<1>19. RoomPlace'
  <2>1. at'[1] = old /\ at'[2] = 1
    BY <1>1
  <2>2. old \in Of(call.dir)'
    BY <1>1, <1>3, <1>17 DEF Of
  <2>3. \A j \in 1 .. Slots : ~(j < at'[2] + k' - 1) /\ dir'[old][j] = End
    BY <1>1, <1>2, <2>1, NewDirIs
  <2> QED  BY <1>1, <2>1, <2>2, <2>3 DEF RoomPlace
<1> QED  BY <1>9, <1>10, <1>11, <1>12, <1>14, <1>15, <1>16, <1>18, <1>19 DEF Shape

(* One entry is written, in the directory of the call: what that leaves as it was. *)
LEMMA SlotShape ==
    ASSUME TInv, TInv', HitInv, NEW own, Owned(own), Shape,
           NEW d, Directory(d), NEW c \in Of(d), NEW i \in 1 .. Slots, NEW e \in EntrySet,
           dir' = [dir EXCEPT ![c][i] = e], fat' = fat, data' = data,
           e # End, \A j \in 1 .. Slots : j < i => dir[c][j] # End, IsEntry(e) => e.first = first,
           OldFreed /\ call.hit => at = <<c, i>> \/ (OldFreed' /\ call'.hit /\ at' = at),
           pc \in Busy, pc' \in {"none", "slots", "erase"},
           pc' = "none" => first' = 0, pc' # "none" => call' = call /\ first' = first
    PROVE  /\ c \in Cluster /\ <<c, i>> \in Places /\ c \notin Of(first)
           /\ \A p \in Places : At(p)' = IF p = <<c, i>> THEN e ELSE At(p)
           /\ \A x : Chain(x)' = Chain(x) /\ Of(x)' = Of(x)
           /\ \A p \in Places : Whole(p)' => p = <<c, i>> \/ Whole(p)
           /\ \A b \in Cluster : b # c => dir'[b] = dir[b]
           /\ \A j \in 1 .. Slots : dir'[c][j] = IF j = i THEN e ELSE dir[c][j]
           /\ EndsInv' /\ MarkInv' /\ BlankInv' /\ GrowInv'
<1>1. Rooted(d)
  BY DirectoryRooted
<1>2. c \in Cluster /\ own[c] # New /\ fat[c] # 0
  BY <1>1, Outside
<1>3. c \notin Of(first)
  BY <1>2, FirstOutside
<1>4. DirType
  BY DEF TInv, DiskInv
<1>5. SetEntry(FALSE, c, i, e)
  BY DEF SetEntry
<1>6. \A p \in Places : At(p)' = IF p = <<c, i>> THEN e ELSE At(p)
  <2>1. Rewritten(c, i, e)
    BY <1>2, <1>4, <1>5, EntryRewritten
  <2> QED  BY <2>1 DEF Rewritten, At
<1>7. \A x : Chain(x)' = Chain(x) /\ Of(x)' = Of(x) /\ (Ends(x)' <=> Ends(x))
  BY SameChain DEF Of, Ends
<1>8. ASSUME NEW p \in Places, Whole(p)', p # <<c, i>>
      PROVE  Whole(p)
  BY <1>6, <1>8 DEF Whole
<1>9. \A b \in Cluster : b # c => dir'[b] = dir[b]
  BY <1>4 DEF DirType
<1>10. \A j \in 1 .. Slots : dir'[c][j] = IF j = i THEN e ELSE dir[c][j]
  <2>1. dir[c] \in [1 .. Slots -> EntrySet] /\ dir'[c] = [dir[c] EXCEPT ![i] = e]
    BY <1>2, <1>4 DEF DirType
  <2> QED  BY <2>1
<1>11. EndsInv'
  <2> SUFFICES ASSUME NEW x \in Cluster, Rooted(x)' \/ x = first' PROVE Ends(x)'
    BY DEF EndsInv
  <2>1. CASE x = first'
    BY <1>7, <2>1, SizesOK DEF Shape, EndsInv
  <2>2. CASE Rooted(x)' /\ x # Root
    <3>1. PICK p \in Places : Whole(p)' /\ FirstOf(p)' = x
      BY <2>2 DEF Rooted
    <3>2. CASE p = <<c, i>>
      <4>1. IsEntry(e) /\ x = first
        BY <1>6, <3>1, <3>2 DEF Whole, FirstOf, At
      <4> QED  BY <1>7, <4>1 DEF Shape, EndsInv
    <3>3. CASE p # <<c, i>>
      <4>1. Whole(p) /\ FirstOf(p) = x
        BY <1>6, <1>8, <3>1, <3>3 DEF FirstOf, At
      <4>2. Rooted(x)
        BY <4>1 DEF Rooted
      <4> QED  BY <1>7, <4>2 DEF Shape, EndsInv
    <3> QED  BY <3>2, <3>3
  <2>3. CASE x = Root
    <3>1. Rooted(x)
      BY <2>3 DEF Rooted
    <3> QED  BY <1>7, <3>1 DEF Shape, EndsInv
  <2> QED  BY <2>1, <2>2, <2>3
<1>12. MarkInv'
  <2> SUFFICES ASSUME NEW b \in Cluster, NEW m \in 1 .. Slots, dir'[b][m] = End
               PROVE  fat[b] \notin Cluster /\ \A j \in m .. Slots : dir'[b][j] = End
    BY DEF MarkInv
  <2>1. CASE b # c
    BY <1>9, <2>1 DEF Shape, MarkInv
  <2>2. CASE b = c
    <3>1. m # i /\ dir[c][m] = End
      BY <1>10, <2>2
    <3>2. fat[c] \notin Cluster /\ \A j \in m .. Slots : dir[c][j] = End
      BY <1>2, <3>1 DEF Shape, MarkInv
    <3>3. ~(m < i)
      BY <3>1
    <3>4. \A j \in m .. Slots : j \in 1 .. Slots /\ j # i
      BY <3>1, <3>3, SizesOK
    <3> QED  BY <1>10, <2>2, <3>2, <3>4
  <2> QED  BY <2>1, <2>2
<1>13. BlankInv'
  <2>1. \A b \in Cluster : fat'[b] = 0 => dir'[b] = Junk
    BY <1>2, <1>9 DEF Shape, BlankInv
  <2>2. pc' \in Busy /\ call'.op = "write" => \A b \in Of(first)' : dir'[b] = Junk
    <3> SUFFICES ASSUME pc' \in Busy, call'.op = "write", NEW b \in Of(first)'
                 PROVE  dir'[b] = Junk
      OBVIOUS
    <3>1. call.op = "write" /\ first' = first
      BY DEF Busy
    <3>2. b \in Of(first)
      BY <1>7, <3>1 DEF Of
    <3>3. b \in Cluster /\ b # c
      BY <1>3, <3>2, FirstOutside
    <3> QED  BY <1>9, <3>1, <3>2, <3>3 DEF Shape, BlankInv
  <2> QED  BY <2>1, <2>2 DEF BlankInv
<1>14. GrowInv'
  BY DEF GrowInv
<1>15. <<c, i>> \in Places
  BY <1>2 DEF Places
<1> QED  BY <1>2, <1>3, <1>6, <1>7, <1>8, <1>9, <1>10, <1>11, <1>12, <1>13, <1>14, <1>15

(* An entry is written over. *)
LEMMA UpdateIs ==
    ASSUME TInv, Shape, NEW bad, UpdateEntry(bad), NEW d, d = call.dir
    PROVE  /\ pc = "entry" /\ pc \in Busy /\ call.hit /\ call.op = "write"
           /\ fat' = fat /\ data' = data /\ Directory(d) /\ Holds(d, at)
           /\ at \in Places /\ IsEntry(At(at)) /\ At(at).kind = "file"
           /\ \/ Fail({}) /\ dir' = dir /\ stored' = stored
              \/ \E c \in Of(d), i \in 1 .. Slots, e \in EntrySet :
                  /\ at = <<c, i>> /\ dir' = [dir EXCEPT ![c][i] = e]
                  /\ e.kind = "file" /\ e.name = Short[call.name] /\ e.first = first
                  /\ e.size = call.size /\ IsEntry(e) /\ e # End
                  /\ \A j \in 1 .. Slots : j < i => dir[c][j] # End
                  /\ Finish /\ past' = past
                  /\ stored' = [stored EXCEPT ![d][Short[call.name]] =
                                    Content(call.name, call.size)]
<1>1. pc = "entry" /\ pc \in Busy /\ call.hit /\ fat' = fat /\ data' = data
  BY DEF UpdateEntry, Busy
<1>2. call.op = "write" /\ call \in CallSet
  BY <1>1 DEF TInv, LocalInv, CallInv, CallSet
<1>3. Directory(d) /\ Holds(d, at) /\ at \in Places /\ IsEntry(At(at)) /\ At(at).kind = "file"
  BY <1>1, <1>2 DEF Shape, CallPlace, Holds
<1>4. CASE bad
  BY <1>1, <1>2, <1>3, <1>4 DEF UpdateEntry, SetEntry
<1>5. CASE ~bad
  <2>1. PICK c, i : c = at[1] /\ i = at[2]
    OBVIOUS
  <2>2. c \in Of(d) /\ c \in Cluster /\ i \in 1 .. Slots /\ at = <<c, i>>
    BY <1>3, <2>1, PlacesAre DEF Holds
  <2>3. NewEntry \in EntrySet /\ IsEntry(NewEntry)
    BY <1>2, NewEntryIs DEF TInv, LocalInv
  <2>4. NewEntry = [kind |-> "file", name |-> Short[call.name], first |-> first,
                    size |-> call.size]
    BY <1>2 DEF NewEntry, Entry
  <2>5. PICK e \in EntrySet : e = NewEntry
    BY <2>3
  <2>6. /\ e.kind = "file" /\ e.name = Short[call.name] /\ e.first = first
        /\ e.size = call.size /\ IsEntry(e)
    BY <2>3, <2>4, <2>5
  <2>7. e # End
    BY <2>6 DEF End
  <2>8. /\ dir' = [dir EXCEPT ![c][i] = e] /\ Finish /\ past' = past
        /\ stored' = [stored EXCEPT ![d][Short[call.name]] = Content(call.name, call.size)]
    BY <1>2, <1>5, <2>1, <2>5 DEF UpdateEntry, SetEntry, Done, Store
  <2>9. \A j \in 1 .. Slots : j < i => dir[c][j] # End
    <3>1. dir[c][i] # End
      BY <1>3, <2>1 DEF At, IsEntry, End
    <3> QED  BY <2>2, <3>1 DEF Shape, MarkInv
  <2> QED  BY <1>1, <1>2, <1>3, <2>2, <2>6, <2>7, <2>8, <2>9
<1> QED  BY <1>4, <1>5

LEMMA UpdateShape ==
    ASSUME TInv, TInv', HitInv, NEW own, Owned(own), Shape, NEW bad, UpdateEntry(bad), Clean'
    PROVE  Shape'
<1>0. PICK d : d = call.dir
  OBVIOUS
<1>1. /\ pc = "entry" /\ pc \in Busy /\ fat' = fat /\ data' = data /\ Directory(d)
  BY <1>0, UpdateIs
<1>2. CASE Fail({}) /\ dir' = dir
  BY <1>1, <1>2, FailShape
<1>3. ASSUME NEW c \in Of(d), NEW i \in 1 .. Slots, NEW e \in EntrySet,
             /\ at = <<c, i>> /\ dir' = [dir EXCEPT ![c][i] = e]
             /\ e.first = first /\ e # End
             /\ \A j \in 1 .. Slots : j < i => dir[c][j] # End
             /\ Finish
      PROVE  Shape'
  <2>1. pc' = "none" /\ first' = 0
    BY <1>3 DEF Finish
  <2>2. EndsInv' /\ MarkInv' /\ BlankInv' /\ GrowInv'
    BY <1>1, <1>3, <2>1, SlotShape
  <2>3. MkdirInv' /\ CallPlace' /\ RoomPlace'
    BY <2>1 DEF MkdirInv, CallPlace, RoomPlace, Busy
  <2> QED  BY <2>2, <2>3 DEF Shape
<1> QED  BY <1>0, <1>2, <1>3, UpdateIs

(* The entries of a new name are written: the long name, if there is one, and the 8.3 one. *)
LEMMA WriteSlotIs ==
    ASSUME TInv, Shape, NEW bad, WriteSlot(bad), Clean', NEW d, d = call.dir
    PROVE  /\ pc = "slots" /\ pc \in Busy /\ ~call.hit /\ fat' = fat /\ data' = data
           /\ Directory(d) /\ ~OldFreed /\ call.op \in {"write", "mkdir"} /\ k \in {1, 2}
           /\ SlotsFor(call.name) \in {1, 2}
           /\ \/ bad /\ k = 1 /\ Fail({}) /\ dir' = dir /\ stored' = stored
              \/ \E c \in Of(d), i \in 1 .. Slots, e \in EntrySet :
                  /\ c = at[1] /\ i = at[2] + k - 1 /\ dir' = [dir EXCEPT ![c][i] = e]
                  /\ dir[c][i] \in {End, Erased} /\ e # End
                  /\ \A j \in 1 .. Slots : j < i => dir[c][j] # End
                  /\ past' = past
                  /\ \/ /\ Finish /\ IsEntry(e) /\ e = NewEntry /\ k = SlotsFor(call.name)
                        /\ Done
                     \/ /\ e = LongEntry(call.name) /\ ~IsEntry(e)
                        /\ k = 1 /\ k' = 2 /\ SlotsFor(call.name) = 2 /\ i < Slots
                        /\ pc' = pc /\ call' = call /\ first' = first /\ prev' = prev
                        /\ old' = old /\ at' = at /\ stored' = stored
<1>1. pc = "slots" /\ pc \in Busy /\ fat' = fat /\ data' = data
  BY DEF WriteSlot, Busy
<1> DEFINE n == SlotsFor(call.name)
<1>2. /\ ~call.hit /\ call.chain = 0 /\ call.op \in {"write", "mkdir"} /\ call \in CallSet
      /\ at[1] \in Cluster /\ at[2] \in 1 .. Slots /\ k \in 1 .. n /\ at[2] + n - 1 <= Slots
      /\ first \in Link \ {Root} /\ (call.op = "mkdir" => first # 0)
  BY <1>1 DEF TInv, CallInv, LocalInv, CallSet
<1>3. Directory(d) /\ at[1] \in Of(d) /\ ~OldFreed
  BY <1>1, <1>2 DEF Shape, CallPlace, RoomPlace, OldFreed
<1>4. n \in {1, 2}
  BY SlotsForIs
<1> HIDE DEF n
<1>5. k \in {1, 2}
  BY <1>2, <1>4
<1>6. CASE bad
  <2>1. Fail(IF k > 1 THEN {"torn"} ELSE {}) /\ dir' = dir /\ stored' = stored
    BY <1>1, <1>6 DEF WriteSlot, SetEntry
  <2>2. ~(k > 1)
    BY <2>1 DEF Fail, Clean
  <2>3. Fail({}) /\ k = 1
    <3>1. k = 1
      BY <1>5, <2>2
    <3>2. Fail({})
      BY <2>1, <2>2
    <3> QED  BY <3>1, <3>2
  <2> QED  BY <1>1, <1>2, <1>3, <1>4, <1>5, <1>6, <2>1, <2>3 DEF n
<1>7. CASE ~bad
  <2>1. PICK c \in Of(d) : c = at[1]
    BY <1>3
  <2>2. PICK i : i = at[2] + k - 1
    OBVIOUS
  <2>3. i \in 1 .. Slots /\ (n = 2 /\ k = 1 => i < Slots) /\ k <= n
    BY <1>2, <1>4, <1>5, <2>2, SizesOK
  <2>4. \A j \in 1 .. Slots : /\ j < i => dir[c][j] # End
                              /\ i <= j /\ j < at[2] + n => dir[c][j] \in {End, Erased}
    BY <1>1, <2>1, <2>2 DEF Shape, RoomPlace, n
  <2>5. i < at[2] + n
    BY <1>2, <1>4, <1>5, <2>2, <2>3, SizesOK
  <2>6. dir[c][i] \in {End, Erased}
    BY <2>3, <2>4, <2>5
  <2>7. CASE k = n
    <3>1. PICK e \in EntrySet : e = NewEntry /\ IsEntry(e)
      BY <1>2, NewEntryIs
    <3>2. e # End
      BY <3>1 DEF IsEntry, End
    <3>3. dir' = [dir EXCEPT ![c][i] = e] /\ Finish /\ Done /\ past' = past
      BY <1>1, <1>7, <2>1, <2>2, <2>7, <3>1 DEF WriteSlot, SetEntry, n
    <3>4. /\ c = at[1] /\ i = at[2] + k - 1 /\ dir' = [dir EXCEPT ![c][i] = e]
          /\ dir[c][i] \in {End, Erased} /\ e # End
          /\ \A j \in 1 .. Slots : j < i => dir[c][j] # End
          /\ past' = past
          /\ Finish /\ IsEntry(e) /\ e = NewEntry /\ k = n /\ Done
      BY <2>1, <2>2, <2>4, <2>6, <2>7, <3>1, <3>2, <3>3
    <3> QED  BY <1>1, <1>2, <1>3, <1>4, <1>5, <2>3, <3>4 DEF n
  <2>8. CASE k # n
    <3>1. PICK e \in EntrySet : e = LongEntry(call.name)
      BY <1>2 DEF EntrySet, CallSet
    <3>2. e # End /\ ~IsEntry(e)
      BY <3>1 DEF LongEntry, End, IsEntry
    <3>3. k = 1 /\ n = 2
      BY <1>4, <1>5, <2>3, <2>8
    <3>4. /\ dir' = [dir EXCEPT ![c][i] = e] /\ k' = k + 1
          /\ pc' = pc /\ call' = call /\ first' = first /\ prev' = prev
          /\ old' = old /\ at' = at /\ stored' = stored /\ past' = past
      BY <1>1, <1>7, <2>1, <2>2, <2>8, <3>1 DEF WriteSlot, SetEntry, n
    <3>5. /\ c = at[1] /\ i = at[2] + k - 1 /\ dir' = [dir EXCEPT ![c][i] = e]
          /\ dir[c][i] \in {End, Erased} /\ e # End
          /\ \A j \in 1 .. Slots : j < i => dir[c][j] # End
          /\ past' = past
      BY <2>1, <2>2, <2>4, <2>6, <3>1, <3>2, <3>4
    <3>6. /\ e = LongEntry(call.name) /\ ~IsEntry(e) /\ k = 1 /\ k' = 2 /\ n = 2 /\ i < Slots
          /\ pc' = pc /\ call' = call /\ first' = first /\ prev' = prev
          /\ old' = old /\ at' = at /\ stored' = stored
      BY <2>3, <3>1, <3>2, <3>3, <3>4
    <3> QED  BY <1>1, <1>2, <1>3, <1>4, <1>5, <2>3, <3>5, <3>6 DEF n
  <2> QED  BY <2>7, <2>8
<1> QED  BY <1>6, <1>7

LEMMA NewEntryHas ==
    ASSUME TInv, pc = "slots"
    PROVE  /\ NewEntry.kind = IF call.op = "mkdir" THEN "dir" ELSE "file"
           /\ NewEntry.name = Short[call.name] /\ NewEntry.first = first
           /\ NewEntry.size = IF call.op = "mkdir" THEN 0 ELSE call.size
           /\ NewEntry \in EntrySet /\ IsEntry(NewEntry)
           /\ call.op = "mkdir" => first # 0
<1>1. call \in CallSet /\ first \in Link \ {Root} /\ (call.op = "mkdir" => first # 0)
  BY DEF TInv, LocalInv, CallInv, Busy
<1>2. NewEntry \in EntrySet /\ IsEntry(NewEntry)
  BY <1>1, NewEntryIs
<1> QED  BY <1>1, <1>2 DEF NewEntry, Entry

LEMMA WriteSlotShape ==
    ASSUME TInv, TInv', HitInv, NEW own, Owned(own), Shape, NEW bad, WriteSlot(bad), Clean'
    PROVE  Shape'
<1>0. PICK d : d = call.dir
  OBVIOUS
<1>1. /\ pc = "slots" /\ pc \in Busy /\ ~call.hit /\ fat' = fat /\ data' = data
      /\ Directory(d) /\ ~OldFreed /\ call.op \in {"write", "mkdir"} /\ k \in {1, 2}
  BY <1>0, WriteSlotIs
<1>2. CASE Fail({}) /\ dir' = dir
  BY <1>1, <1>2, FailShape
<1>3. ASSUME NEW c \in Of(d), NEW i \in 1 .. Slots, NEW e \in EntrySet,
             /\ dir' = [dir EXCEPT ![c][i] = e] /\ e # End
             /\ \A j \in 1 .. Slots : j < i => dir[c][j] # End,
             Finish, e = NewEntry
      PROVE  Shape'
  <2>1. pc' = "none" /\ first' = 0
    BY <1>3 DEF Finish
  <2>2. e.first = first
    BY <1>1, <1>3, NewEntryHas
  <2>3. EndsInv' /\ MarkInv' /\ BlankInv' /\ GrowInv'
    BY <1>1, <1>3, <2>1, <2>2, SlotShape
  <2>4. MkdirInv' /\ CallPlace' /\ RoomPlace'
    BY <2>1 DEF MkdirInv, CallPlace, RoomPlace, Busy
  <2> QED  BY <2>3, <2>4 DEF Shape
<1>4. ASSUME NEW c \in Of(d), NEW i \in 1 .. Slots, NEW e \in EntrySet,
             /\ c = at[1] /\ i = at[2] + k - 1 /\ dir' = [dir EXCEPT ![c][i] = e] /\ e # End
             /\ dir[c][i] \in {End, Erased}
             /\ \A j \in 1 .. Slots : j < i => dir[c][j] # End,
             /\ ~IsEntry(e) /\ k = 1 /\ k' = 2 /\ SlotsFor(call.name) = 2
             /\ pc' = pc /\ call' = call /\ first' = first /\ at' = at
      PROVE  Shape'
  <2>1. /\ c \in Cluster /\ c \notin Of(first)
        /\ \A p \in Places : At(p)' = IF p = <<c, i>> THEN e ELSE At(p)
        /\ \A x : Chain(x)' = Chain(x) /\ Of(x)' = Of(x)
        /\ \A b \in Cluster : b # c => dir'[b] = dir[b]
        /\ \A j \in 1 .. Slots : dir'[c][j] = IF j = i THEN e ELSE dir[c][j]
        /\ EndsInv' /\ MarkInv' /\ BlankInv' /\ GrowInv'
    <3>1. /\ pc' \in {"none", "slots", "erase"} /\ pc' # "none"
          /\ dir' = [dir EXCEPT ![c][i] = e] /\ e # End
          /\ \A j \in 1 .. Slots : j < i => dir[c][j] # End
          /\ call' = call /\ first' = first
      BY <1>1, <1>4
    <3>2. IsEntry(e) => e.first = first
      BY <1>4
    <3>3. OldFreed /\ call.hit => at = <<c, i>> \/ (OldFreed' /\ call'.hit /\ at' = at)
      BY <1>1
    <3>4. /\ c \in Cluster /\ <<c, i>> \in Places /\ c \notin Of(first)
          /\ \A p \in Places : At(p)' = IF p = <<c, i>> THEN e ELSE At(p)
          /\ \A x : Chain(x)' = Chain(x) /\ Of(x)' = Of(x)
          /\ \A p \in Places : Whole(p)' => p = <<c, i>> \/ Whole(p)
          /\ \A b \in Cluster : b # c => dir'[b] = dir[b]
          /\ \A j \in 1 .. Slots : dir'[c][j] = IF j = i THEN e ELSE dir[c][j]
          /\ EndsInv' /\ MarkInv' /\ BlankInv' /\ GrowInv'
      BY <1>1, <3>1, <3>2, <3>3, SlotShape
    <3> QED  BY <3>4
  <2>2. call'.dir = d
    BY <1>0, <1>4
  <2>3. Directory(d)'
    <3>1. CASE d = Root
      BY <3>1 DEF Directory
    <3>2. CASE d # Root
      <4>1. PICK p \in Places : DirAt(p) /\ FirstOf(p) = d
        BY <1>1, <3>2 DEF Directory
      <4>2. p # <<c, i>>
        <5>1. IsEntry(At(p))
          BY <4>1 DEF DirAt, Whole
        <5>2. ~IsEntry(dir[c][i])
          BY <1>4 DEF IsEntry, End, Erased
        <5> QED  BY <5>1, <5>2 DEF At
      <4>3. At(p)' = At(p) /\ FirstOf(p)' = FirstOf(p)
        BY <2>1, <4>2 DEF FirstOf, At
      <4>4. DirAt(p)'
        BY <1>1, <1>4, <2>1, <4>1, <4>3 DEF DirAt, Whole
      <4> QED  BY <4>1, <4>3, <4>4 DEF Directory
    <3> QED  BY <3>1, <3>2
  <2>4. Directory(call.dir)'
    BY <2>2, <2>3 DEF Directory
  <2>5. CallPlace'
    BY <1>1, <1>4, <2>4 DEF Shape, CallPlace
  <2>6. MkdirInv'
    <3>1. call.op = "mkdir" => first # 0 /\ first \in Cluster /\ first # c
      <4>1. call.op = "mkdir" => first # 0
        BY <1>1 DEF TInv, CallInv
      <4>2. first # 0 => first \in Cluster /\ first \in Of(first)
        BY OfIs, TInvFat DEF TInv, LocalInv, Link
      <4> QED  BY <2>1, <4>1, <4>2
    <3> QED  BY <1>1, <1>4, <2>1, <3>1 DEF Shape, MkdirInv
  <2>7. RoomPlace'
    <3>1. at[2] = i /\ i \in Nat
      BY <1>4, SizesOK DEF TInv, LocalInv
    <3>2. \A j \in 1 .. Slots : i + 1 <= j /\ j < i + 2 => dir[c][j] \in {End, Erased}
      BY <1>1, <1>4, <3>1 DEF Shape, RoomPlace
    <3>3. \A j \in 1 .. Slots : /\ j < i + 1 => dir'[c][j] # End
                                /\ i + 1 <= j /\ j < i + 2 => dir'[c][j] \in {End, Erased}
      BY <1>4, <2>1, <3>1, <3>2
    <3>4. at'[1] = c /\ at'[2] + k' - 1 = i + 1 /\ at'[2] + SlotsFor(call'.name) = i + 2
      BY <1>4, <3>1
    <3>5. c \in Of(call.dir)'
      BY <2>1, <2>2 DEF Of
    <3> QED  BY <1>1, <1>4, <3>3, <3>4, <3>5 DEF RoomPlace
  <2> QED  BY <2>1, <2>5, <2>6, <2>7 DEF Shape
<1> QED
  <2>1. \/ Fail({}) /\ dir' = dir
        \/ \E c \in Of(d), i \in 1 .. Slots, e \in EntrySet :
              /\ c = at[1] /\ i = at[2] + k - 1 /\ dir' = [dir EXCEPT ![c][i] = e]
              /\ dir[c][i] \in {End, Erased} /\ e # End
              /\ \A j \in 1 .. Slots : j < i => dir[c][j] # End
              /\ \/ Finish /\ e = NewEntry
                 \/ /\ ~IsEntry(e) /\ k = 1 /\ k' = 2 /\ SlotsFor(call.name) = 2
                    /\ pc' = pc /\ call' = call /\ first' = first /\ at' = at
    BY <1>0, WriteSlotIs
  <2> QED  BY <1>2, <1>3, <1>4, <2>1

(* The long name of a deleted entry is erased, then the entry. *)
LEMMA EraseIs ==
    ASSUME TInv, Shape, NEW bad, EraseEntry(bad), Clean', NEW d, d = call.dir
    PROVE  /\ pc = "erase" /\ pc \in Busy /\ call.hit /\ call.op = "delete"
           /\ fat' = fat /\ data' = data /\ Directory(d) /\ Holds(d, at) /\ d # call.chain
           /\ FirstOf(at) = call.chain /\ at \in Places /\ IsEntry(At(at))
           /\ \E c \in Of(d), i \in 1 .. Slots, e \in EntrySet :
                  /\ e = Erased /\ ~IsEntry(e) /\ e # End /\ e.kind # "long"
                  /\ c = at[1] /\ i = k /\ dir' = [dir EXCEPT ![c][i] = e]
                  /\ \A j \in 1 .. Slots : j < i => dir[c][j] # End
                  /\ \/ /\ i = at[2] /\ at = <<c, i>> /\ Finish
                        /\ i > 1 => dir[c][i - 1].kind # "long"
                        /\ stored' = [stored EXCEPT ![d][Short[call.name]] = Absent]
                        /\ past' = IF call.full THEN past \cup {"leaked"} ELSE past
                     \/ /\ i + 1 = at[2] /\ at = <<c, i + 1>> /\ dir[c][i].kind = "long"
                        /\ k' = k + 1
                        /\ pc' = pc /\ call' = call /\ first' = first /\ prev' = prev
                        /\ old' = old /\ at' = at /\ stored' = stored /\ past' = past
<1>1. pc = "erase" /\ pc \in Busy /\ fat' = fat /\ data' = data
  BY DEF EraseEntry, Busy
<1>2. call.hit /\ call.op = "delete" /\ at[2] \in 1 .. Slots /\ k \in 1 .. at[2]
  BY <1>1 DEF TInv, CallInv
<1>3. /\ Directory(d) /\ Holds(d, at) /\ d # call.chain /\ FirstOf(at) = call.chain
      /\ at \in Places /\ IsEntry(At(at))
      /\ \/ k = at[2] /\ (k > 1 => dir[at[1]][k - 1].kind # "long")
         \/ k + 1 = at[2] /\ dir[at[1]][k].kind = "long"
  BY <1>1, <1>2 DEF Shape, CallPlace, Holds
<1>4. ~bad
  <2> SUFFICES ASSUME bad PROVE FALSE
    OBVIOUS
  <2>1. Fail({"torn"})
    BY DEF EraseEntry
  <2> QED  BY <2>1 DEF Fail, Clean
<1>5. PICK c, i : c = at[1] /\ i = k
  OBVIOUS
<1>6. c \in Of(d) /\ c \in Cluster /\ i \in 1 .. Slots /\ i <= at[2] /\ at = <<c, at[2]>>
  BY <1>2, <1>3, <1>5, PlacesAre, SizesOK DEF Holds
<1>7. PICK e \in EntrySet : e = Erased
  BY DEF EntrySet
<1>8. ~IsEntry(e) /\ e # End /\ e.kind # "long"
  BY <1>7 DEF Erased, IsEntry, End
<1>9. dir' = [dir EXCEPT ![c][i] = e]
  BY <1>1, <1>4, <1>5, <1>7 DEF EraseEntry, SetEntry
<1>10. \A j \in 1 .. Slots : j < i => dir[c][j] # End
  <2> SUFFICES ASSUME NEW j \in 1 .. Slots, j < i, dir[c][j] = End PROVE FALSE
    OBVIOUS
  <2>1. at[2] \in j .. Slots
    BY <1>2, <1>6
  <2>2. dir[c][at[2]] = End
    BY <1>6, <2>1 DEF Shape, MarkInv
  <2> QED  BY <1>3, <1>5, <2>2 DEF At, IsEntry, End
<1>11. \/ /\ i = at[2] /\ at = <<c, i>> /\ Finish
          /\ i > 1 => dir[c][i - 1].kind # "long"
          /\ stored' = [stored EXCEPT ![d][Short[call.name]] = Absent]
          /\ past' = IF call.full THEN past \cup {"leaked"} ELSE past
       \/ /\ i + 1 = at[2] /\ at = <<c, i + 1>> /\ dir[c][i].kind = "long"
          /\ k' = k + 1
          /\ pc' = pc /\ call' = call /\ first' = first /\ prev' = prev
          /\ old' = old /\ at' = at /\ stored' = stored /\ past' = past
  <2>1. CASE k = at[2] /\ (k > 1 => dir[at[1]][k - 1].kind # "long")
    <3>1. /\ Finish /\ stored' = [stored EXCEPT ![d][Short[call.name]] = Absent]
          /\ past' = IF call.full THEN past \cup {"leaked"} ELSE past
      BY <1>1, <1>4, <2>1 DEF EraseEntry, Store, Blame
    <3> QED  BY <1>5, <1>6, <2>1, <3>1
  <2>2. CASE k + 1 = at[2] /\ dir[at[1]][k].kind = "long"
    <3>1. k # at[2]
      BY <1>2, <2>2
    <3>2. /\ k' = k + 1 /\ pc' = pc /\ call' = call /\ first' = first /\ prev' = prev
          /\ old' = old /\ at' = at /\ stored' = stored /\ past' = past
      BY <1>1, <1>4, <3>1 DEF EraseEntry
    <3> QED  BY <1>5, <1>6, <2>2, <3>2
  <2> QED  BY <1>3, <2>1, <2>2
<1>12. /\ e = Erased /\ ~IsEntry(e) /\ e # End /\ e.kind # "long"
       /\ c = at[1] /\ i = k /\ dir' = [dir EXCEPT ![c][i] = e]
       /\ \A j \in 1 .. Slots : j < i => dir[c][j] # End
  BY <1>5, <1>7, <1>8, <1>9, <1>10
<1> QED  BY <1>1, <1>2, <1>3, <1>6, <1>11, <1>12

LEMMA EraseShape ==
    ASSUME TInv, TInv', HitInv, NEW own, Owned(own), Shape, NEW bad, EraseEntry(bad), Clean'
    PROVE  Shape'
<1>0. PICK d : d = call.dir
  OBVIOUS
<1>1. /\ pc = "erase" /\ pc \in Busy /\ call.hit /\ call.op = "delete"
      /\ fat' = fat /\ data' = data /\ Directory(d) /\ Holds(d, at) /\ d # call.chain
      /\ FirstOf(at) = call.chain /\ at \in Places /\ IsEntry(At(at))
  BY <1>0, EraseIs
<1>2. PICK c \in Of(d), i \in 1 .. Slots, e \in EntrySet :
        /\ ~IsEntry(e) /\ e # End /\ e.kind # "long"
        /\ c = at[1] /\ i = k /\ dir' = [dir EXCEPT ![c][i] = e]
        /\ \A j \in 1 .. Slots : j < i => dir[c][j] # End
        /\ \/ i = at[2] /\ at = <<c, i>> /\ Finish
           \/ /\ i + 1 = at[2] /\ at = <<c, i + 1>> /\ dir[c][i].kind = "long"
              /\ k' = k + 1
              /\ pc' = pc /\ call' = call /\ first' = first /\ at' = at /\ old' = old
  <2> USE <1>0, EraseIs
  <2> QED  OBVIOUS
<1>3. CASE i = at[2] /\ at = <<c, i>> /\ Finish
  <2>1. pc' = "none" /\ first' = 0
    BY <1>3 DEF Finish
  <2>2. EndsInv' /\ MarkInv' /\ BlankInv' /\ GrowInv'
    BY <1>1, <1>2, <1>3, <2>1, SlotShape
  <2>3. MkdirInv' /\ CallPlace' /\ RoomPlace'
    BY <2>1 DEF MkdirInv, CallPlace, RoomPlace, Busy
  <2> QED  BY <2>2, <2>3 DEF Shape
<1>4. CASE /\ i + 1 = at[2] /\ at = <<c, i + 1>> /\ dir[c][i].kind = "long"
           /\ k' = k + 1
           /\ pc' = pc /\ call' = call /\ first' = first /\ at' = at /\ old' = old
  <2>1. OldFreed' <=> OldFreed
    BY <1>4 DEF OldFreed
  <2>2. /\ c \in Cluster /\ <<c, i>> \in Places /\ c \notin Of(first)
        /\ \A p \in Places : At(p)' = IF p = <<c, i>> THEN e ELSE At(p)
        /\ \A x : Chain(x)' = Chain(x) /\ Of(x)' = Of(x)
        /\ \A p \in Places : Whole(p)' => p = <<c, i>> \/ Whole(p)
        /\ \A b \in Cluster : b # c => dir'[b] = dir[b]
        /\ \A j \in 1 .. Slots : dir'[c][j] = IF j = i THEN e ELSE dir[c][j]
        /\ EndsInv' /\ MarkInv' /\ BlankInv' /\ GrowInv'
    <3>1. /\ pc' \in {"none", "slots", "erase"} /\ pc' # "none"
          /\ dir' = [dir EXCEPT ![c][i] = e] /\ e # End
          /\ \A j \in 1 .. Slots : j < i => dir[c][j] # End
          /\ call' = call /\ first' = first
      BY <1>1, <1>2, <1>4
    <3>2. IsEntry(e) => e.first = first
      BY <1>2
    <3>3. OldFreed /\ call.hit => at = <<c, i>> \/ (OldFreed' /\ call'.hit /\ at' = at)
      BY <1>1, <1>4, <2>1
    <3> QED  BY <1>1, <3>1, <3>2, <3>3, SlotShape
  <2>3. ASSUME NEW p \in Places, IsEntry(At(p))
        PROVE  p # <<c, i>> /\ At(p)' = At(p) /\ FirstOf(p)' = FirstOf(p)
    <3>1. p # <<c, i>>
      BY <1>4, <2>3 DEF At, IsEntry
    <3> QED  BY <2>2, <3>1 DEF At, FirstOf
  <2>4. Directory(d)'
    <3>1. CASE d = Root
      BY <3>1 DEF Directory
    <3>2. CASE d # Root
      <4>1. PICK p \in Places : DirAt(p) /\ FirstOf(p) = d
        BY <1>1, <3>2 DEF Directory
      <4>2. At(p)' = At(p) /\ FirstOf(p)' = FirstOf(p)
        BY <2>3, <4>1 DEF DirAt, Whole
      <4>3. DirAt(p)'
        BY <1>1, <1>4, <2>1, <2>2, <4>1, <4>2 DEF DirAt, Whole
      <4> QED  BY <4>1, <4>2, <4>3 DEF Directory
    <3> QED  BY <3>1, <3>2
  <2>5. call'.dir = d
    BY <1>0, <1>4
  <2>6. PICK q \in Places : q = at
    BY <1>1
  <2>7. At(q)' = At(q) /\ FirstOf(q)' = FirstOf(q) /\ IsEntry(At(q)) /\ q[1] \in Of(d)
    BY <1>1, <2>3, <2>6 DEF Holds
  <2>8. Holds(d, q)' /\ FirstOf(q)' = call.chain
    BY <1>1, <2>2, <2>6, <2>7 DEF Holds
  <2>9. Holds(call.dir, at)' /\ FirstOf(at)' = call'.chain
    <3>1. Holds(call.dir, at)' <=> Holds(d, q)'
      BY <1>4, <2>5, <2>6 DEF Holds
    <3>2. FirstOf(at)' = FirstOf(q)'
      BY <1>4, <2>6 DEF FirstOf
    <3> QED  BY <1>4, <2>8, <3>1, <3>2
  <2>10. Directory(call.dir)'
    BY <2>4, <2>5 DEF Directory
  <2>11. k' = at'[2] /\ dir'[at'[1]][k' - 1].kind # "long"
    <3>1. k' - 1 = i /\ at'[1] = c
      BY <1>2, <1>4
    <3>2. dir'[c][i] = e
      BY <2>2
    <3> QED  BY <1>2, <1>4, <3>1, <3>2
  <2>12. CallPlace'
    <3>1. call'.dir # call'.chain /\ call'.op = "delete"
      BY <1>1, <1>4, <2>5
    <3> QED  BY <2>9, <2>10, <2>11, <3>1 DEF CallPlace
  <2>13. MkdirInv' /\ RoomPlace'
    BY <1>1, <1>4 DEF MkdirInv, RoomPlace
  <2> QED  BY <2>2, <2>12, <2>13 DEF Shape
<1> QED  BY <1>2, <1>3, <1>4

(* The slot before an entry holds what is listed before it. *)
LEMMA PreviousListed ==
    ASSUME FatType, DirType, NEW d \in Link, NEW j \in 1 .. Len(Entries(d)),
           Place(d, j)[2] > 1
    PROVE  /\ j - 1 \in 1 .. Len(Entries(d))
           /\ Place(d, j - 1) = <<Place(d, j)[1], Place(d, j)[2] - 1>>
           /\ Entries(d)[j - 1] = dir[Place(d, j)[1]][Place(d, j)[2] - 1]
<1> DEFINE n == Len(Chain(d))
           q == (j - 1) \div Slots
           r == (j - 1) % Slots
<1>1. n \in Nat /\ Slots \in Nat /\ Slots > 2
  BY ChainIs, SizesOK
<1>2. j \in 1 .. Len(AllEntries(d)) /\ Len(AllEntries(d)) = n * Slots /\ j \in Nat
      /\ Len(Entries(d)) \in Nat
  BY EntriesAre, AllEntriesIs
<1>3. j \in 1 .. n * Slots
  BY <1>2
<1>4. q + 1 \in 1 .. n /\ r + 1 \in 1 .. Slots /\ j = Slots * q + r + 1
  BY <1>1, <1>3, SlotIs
<1>45. q \in Nat /\ r \in Nat
  <2>1. j - 1 \in Nat /\ Slots \in Nat \ {0}
    BY <1>1, <1>2
  <2>2. q \in Nat /\ r \in 0 .. Slots - 1
    BY <2>1, DivMod
  <2> QED  BY <2>1, <2>2
<1>5. Place(d, j) = <<Chain(d)[q + 1], r + 1>>
  BY DEF Place
<1> HIDE DEF n, q, r
<1>6. PICK i \in 1 .. n : i = q + 1
  BY <1>4
<1>7. PICK m : m = r
  OBVIOUS
<1>8. Place(d, j)[1] = Chain(d)[i] /\ Place(d, j)[2] = m + 1
  BY <1>5, <1>6, <1>7
<1>9. m \in 1 .. Slots /\ m + 1 \in 1 .. Slots
  BY <1>1, <1>4, <1>45, <1>7, <1>8
<1>10. q = i - 1 /\ j = Slots * (i - 1) + m + 1
  BY <1>1, <1>4, <1>45, <1>6, <1>7
<1>11. Slots * (i - 1) \in Nat
  BY <1>1, Products
<1>12. j - 1 = Slots * (i - 1) + m /\ j - 1 >= 1
  BY <1>9, <1>10, <1>11
<1>13. /\ Place(d, Slots * (i - 1) + m) = <<Chain(d)[i], m>>
       /\ AllEntries(d)[Slots * (i - 1) + m] = dir[Chain(d)[i]][m]
  BY <1>9, PlaceListed DEF n
<1>14. j - 1 \in 1 .. Len(Entries(d))
  BY <1>2, <1>12
<1>15. Entries(d)[j - 1] = AllEntries(d)[j - 1]
  BY <1>14, EntriesAre
<1> QED  BY <1>8, <1>9, <1>12, <1>13, <1>14, <1>15

(* A call begins: nothing is written. *)
LEMMA BeginIs ==
    ASSUME TInv, HitInv, NEW own, Owned(own), NEW op, NEW d \in Parents, NEW n, NEW len,
           NEW j \in Nat,
           j # 0 => j \in 1 .. Len(Entries(d)) /\ IsEntry(Entries(d)[j]),
           Begin(op, d, n, len, j)
    PROVE  /\ pc = "none" /\ first = 0 /\ first' = 0 /\ call = NoCall
           /\ fat' = fat /\ dir' = dir /\ data' = data /\ stored' = stored
           /\ call'.op = op /\ call'.dir = d /\ call'.name = n /\ call'.size = len
           /\ (call'.hit <=> j # 0) /\ call'.chain = old'
           /\ (j = 0 => old' = 0) /\ (j # 0 => old' = Entries(d)[j].first)
           /\ (old' # 0 => pc' = "free") /\ (old' = 0 /\ op = "delete" => pc' = "erase")
           /\ (old' = 0 /\ op # "delete" => pc' = IF len > 0 THEN "alloc" ELSE "entry")
           /\ pc' \in Busy /\ ~OldFreed /\ ~OldFreed'
           /\ Directory(d) /\ d \in Link /\ d # old'
           /\ j # 0 => /\ at' = Place(d, j) /\ Holds(d, at') /\ FirstOf(at') = old'
                       /\ At(at') = Entries(d)[j] /\ Whole(at') /\ old' \in Link \ {Root}
<1>0. PICK c : c = IF j = 0 THEN 0 ELSE Entries(d)[j].first
  OBVIOUS
<1>1. /\ pc = "none" /\ fat' = fat /\ dir' = dir /\ data' = data /\ stored' = stored
      /\ first' = first /\ old' = c
      /\ pc' = IF c # 0 THEN "free" ELSE IF op = "delete" THEN "erase"
               ELSE IF len > 0 THEN "alloc" ELSE "entry"
      /\ at' = IF j = 0 THEN <<0, 0>> ELSE Place(d, j)
      /\ call' = [op |-> op, dir |-> d, name |-> n, size |-> len,
                  hit |-> j # 0, chain |-> c,
                  full |-> \E x \in Range(Entries(c)) : IsEntry(x)]
  BY <1>0 DEF Begin, disk
<1>2. /\ call'.op = op /\ call'.dir = d /\ call'.name = n /\ call'.size = len
      /\ call'.hit = (j # 0) /\ call'.chain = c
  <2> DEFINE full == \E x \in Range(Entries(c)) : IsEntry(x)
  <2>1. call' = [op |-> op, dir |-> d, name |-> n, size |-> len, hit |-> j # 0, chain |-> c,
                 full |-> full]
    BY <1>1
  <2> HIDE DEF full
  <2> QED  BY <2>1
<1>3. first = 0 /\ call = NoCall
  BY <1>1 DEF TInv, StepInv, LocalInv, Busy
<1>4. ~OldFreed /\ ~OldFreed'
  BY <1>1, <1>2, <1>3 DEF OldFreed, NoCall
<1>5. pc' \in Busy
  BY <1>1 DEF Busy
<1>6. Directory(d)
  BY <1>4, ParentsDirectories
<1>7. d \in Link
  BY <1>6, DirectoryRooted
<1>8. ASSUME j # 0
      PROVE  /\ at' = Place(d, j) /\ Holds(d, at') /\ FirstOf(at') = c
             /\ At(at') = Entries(d)[j] /\ Whole(at') /\ c \in Link \ {Root} /\ d # c
  <2>1. PICK p : p = Place(d, j)
    OBVIOUS
  <2>2. at' = p
    BY <1>1, <1>8, <2>1
  <2>3. Holds(d, p) /\ At(p) = Entries(d)[j]
    BY <1>7, <1>8, <2>1, ListedHeld
  <2>4. FirstOf(p) = c
    BY <1>0, <1>8, <2>3 DEF FirstOf, At
  <2>5. Whole(p)
    BY <1>4, <2>3 DEF Whole, Holds
  <2>6. c \in Link \ {Root}
    BY <2>4, <2>5, WholeIs
  <2>7. d # c
    <3> SUFFICES ASSUME d = c PROVE FALSE
      OBVIOUS
    <3>1. PICK q \in Places : DirAt(q) /\ FirstOf(q) = d
      BY <1>6, <2>6 DEF Directory
    <3>2. d \in Cluster /\ d # 0 /\ Rooted(d)
      BY <1>6, DirectoryRooted, SizesOK
    <3>3. q = p
      BY <2>4, <2>5, <3>1, <3>2, WholeApart DEF DirAt
    <3>4. p[1] \in Of(Root) /\ p[1] \in Of(d)
      BY <2>3, <3>1, <3>3 DEF DirAt, Holds
    <3>5. Rooted(Root)
      BY DEF Rooted
    <3>6. d = Root
      BY <3>2, <3>4, <3>5, RootedApart
    <3> QED  BY <2>6, <3>6
  <2>8. Holds(d, at') /\ FirstOf(at') = c /\ At(at') = Entries(d)[j] /\ Whole(at')
    BY <2>2, <2>3, <2>4, <2>5
  <2> QED  BY <2>1, <2>2, <2>6, <2>7, <2>8
<1>9. d # c
  <2>1. j = 0 => c = 0
    BY <1>0
  <2>2. d # 0
    BY <1>6, DirectoryRooted, SizesOK
  <2> QED  BY <1>8, <2>1, <2>2
<1>10. old' = c /\ (j = 0 => c = 0) /\ (j # 0 => c = Entries(d)[j].first)
  BY <1>0, <1>1
<1> QED  BY <1>1, <1>2, <1>3, <1>4, <1>5, <1>6, <1>7, <1>8, <1>9, <1>10

LEMMA BeginShape ==
    ASSUME TInv, TInv', HitInv, NEW own, Owned(own), Shape,
           NEW op \in {"write", "mkdir", "delete"}, NEW d \in Parents, NEW n, NEW len \in Nat,
           NEW j \in Nat,
           j # 0 => j \in 1 .. Len(Entries(d)) /\ IsEntry(Entries(d)[j]),
           Begin(op, d, n, len, j),
           op = "mkdir" => j = 0 /\ len = 1,
           op = "write" => j = 0 \/ Entries(d)[j].kind = "file",
           op = "delete" => j # 0 /\ k' = Place(d, EraseFrom(d, j))[2]
    PROVE  Undisturbed /\ Shape'
<1>0. /\ pc = "none" /\ first = 0 /\ first' = 0 /\ call = NoCall
      /\ fat' = fat /\ dir' = dir /\ data' = data /\ stored' = stored
      /\ call'.op = op /\ call'.dir = d /\ call'.name = n /\ call'.size = len
      /\ (call'.hit <=> j # 0) /\ call'.chain = old'
      /\ (j = 0 => old' = 0) /\ (j # 0 => old' = Entries(d)[j].first)
      /\ (old' # 0 => pc' = "free") /\ (old' = 0 /\ op = "delete" => pc' = "erase")
      /\ (old' = 0 /\ op # "delete" => pc' = IF len > 0 THEN "alloc" ELSE "entry")
      /\ pc' \in Busy /\ ~OldFreed /\ ~OldFreed'
      /\ Directory(d) /\ d \in Link /\ d # old'
      /\ j # 0 => /\ at' = Place(d, j) /\ Holds(d, at') /\ FirstOf(at') = old'
                  /\ At(at') = Entries(d)[j] /\ Whole(at') /\ old' \in Link \ {Root}
  BY BeginIs
<1> PICK c : c = old'
  OBVIOUS
<1>1. /\ pc = "none" /\ first = 0 /\ first' = 0 /\ call = NoCall
      /\ fat' = fat /\ dir' = dir /\ data' = data /\ stored' = stored
      /\ call'.op = op /\ call'.dir = d /\ call'.name = n /\ call'.size = len
      /\ (call'.hit <=> j # 0) /\ call'.chain = c
      /\ old' = c
      /\ (j = 0 => c = 0) /\ (j # 0 => c = Entries(d)[j].first)
      /\ (c # 0 => pc' = "free") /\ (c = 0 /\ op = "delete" => pc' = "erase")
      /\ (c = 0 /\ op # "delete" => pc' = IF len > 0 THEN "alloc" ELSE "entry")
      /\ pc' \in Busy /\ ~OldFreed /\ ~OldFreed'
      /\ Directory(d) /\ d \in Link /\ d # c
  BY <1>0
<1>2. j # 0 => /\ at' = Place(d, j) /\ Holds(d, at') /\ FirstOf(at') = c
               /\ At(at') = Entries(d)[j] /\ Whole(at') /\ c \in Link \ {Root}
  BY <1>0
<1>3. Undisturbed
  BY <1>1, StillUndisturbed
<1>4. \A x : Chain(x)' = Chain(x) /\ Of(x)' = Of(x) /\ (Ends(x)' <=> Ends(x))
  BY <1>1, SameChain DEF Of, Ends
<1>5. \A p : /\ (Whole(p)' <=> Whole(p)) /\ At(p)' = At(p) /\ FirstOf(p)' = FirstOf(p)
             /\ (DirAt(p)' <=> DirAt(p))
  BY <1>1, <1>4 DEF Whole, At, FirstOf, DirAt
<1>6. \A x : (Directory(x)' <=> Directory(x)) /\ \A p : Holds(x, p)' <=> Holds(x, p)
  BY <1>4, <1>5 DEF Directory, Holds
<1>7. EndsInv'
  <2> SUFFICES ASSUME NEW x \in Cluster, Rooted(x)' \/ x = first' \/ x = old' PROVE Ends(x)'
    BY DEF EndsInv
  <2>1. Rooted(x)
    <3>1. CASE Rooted(x)'
      BY <1>5, <3>1 DEF Rooted
    <3>2. CASE x = old'
      <4>1. x = c /\ c # 0 /\ j # 0
        BY <1>1, <3>2, SizesOK
      <4>2. PICK p : p = at'
        OBVIOUS
      <4>3. Whole(p) /\ FirstOf(p) = x
        BY <1>2, <4>1, <4>2
      <4> QED  BY <4>3 DEF Rooted, Whole
    <3> QED  BY <1>1, <3>1, <3>2, SizesOK
  <2> QED  BY <1>4, <2>1 DEF Shape, EndsInv
<1>8. MarkInv'
  BY <1>1 DEF Shape, MarkInv
<1>9. BlankInv'
  <2>1. Empty'
    BY EmptyIs, TInvFat, PTL
  <2>2. Of(first)' = {}
    BY <1>1, <2>1 DEF Empty, Of
  <2>3. pc' \notin {"link", "tail", "zero"}
    BY <1>1
  <2> QED  BY <1>1, <2>2, <2>3 DEF Shape, BlankInv
<1>10. GrowInv' /\ RoomPlace'
  BY <1>1 DEF GrowInv, RoomPlace
<1>11. MkdirInv'
  <2>1. op = "mkdir" => c = 0 /\ len = 1 /\ pc' = "alloc"
    BY <1>1
  <2> QED  BY <1>1, <2>1 DEF MkdirInv
<1>12. PICK a : a = at'
  OBVIOUS
<1>13. j # 0 => Holds(call.dir, at)' /\ FirstOf(at)' = call'.chain /\ At(at)' = Entries(d)[j]
  <2>1. j # 0 => Holds(d, a)' /\ FirstOf(a)' = c /\ At(a)' = Entries(d)[j]
    BY <1>2, <1>5, <1>6, <1>12
  <2>2. Holds(call.dir, at)' <=> Holds(d, a)'
    BY <1>1, <1>12 DEF Holds
  <2>3. FirstOf(at)' = FirstOf(a)' /\ At(at)' = At(a)'
    BY <1>12 DEF FirstOf, At
  <2> QED  BY <1>1, <2>1, <2>2, <2>3
<1>14. ASSUME op = "delete"
       PROVE  \/ k' = at'[2] /\ (k' > 1 => dir'[at'[1]][k' - 1].kind # "long")
              \/ k' + 1 = at'[2] /\ dir'[at'[1]][k'].kind = "long"
  <2>1. FatType /\ DirType /\ j \in 1 .. Len(Entries(d)) /\ at' = Place(d, j)
    BY <1>2, <1>14, TInvFat DEF TInv, DiskInv
  <2>2. CASE LongName(Entries(d), j) = {}
    <3>1. k' = at'[2]
      BY <1>14, <2>1, <2>2 DEF EraseFrom
    <3>2. ASSUME k' > 1 PROVE dir[at'[1]][k' - 1].kind # "long"
      <4>1. Place(d, j)[2] > 1
        BY <2>1, <3>1, <3>2
      <4>2. j - 1 \in 1 .. Len(Entries(d)) /\ Entries(d)[j - 1] = dir[at'[1]][k' - 1]
        BY <1>1, <2>1, <3>1, <4>1, PreviousListed
      <4>3. j > 1
        BY <2>1, <4>2
      <4> QED  BY <2>2, <4>2, <4>3 DEF LongName
    <3> QED  BY <1>1, <3>1, <3>2
  <2>3. CASE LongName(Entries(d), j) # {}
    <3>1. /\ j - 1 \in 1 .. Len(Entries(d)) /\ Entries(d)[j - 1].kind = "long"
          /\ Place(d, j - 1)[1] = at'[1] /\ Place(d, j - 1)[2] + 1 = at'[2]
      BY <1>1, <2>1, <2>3, LongBefore
    <3>2. k' = Place(d, j - 1)[2]
      BY <1>14, <2>3 DEF EraseFrom
    <3>3. Entries(d)[j - 1] = dir[Place(d, j - 1)[1]][Place(d, j - 1)[2]]
      BY <1>1, <2>1, <3>1, EntryPlace
    <3>4. dir[at'[1]][k'].kind = "long" /\ k' + 1 = at'[2]
      BY <3>1, <3>2, <3>3
    <3> QED  BY <1>1, <3>4
  <2> QED  BY <2>2, <2>3
<1>15. CallPlace'
  <2>1. Directory(call.dir)'
    <3>1. Directory(d)'
      BY <1>1, <1>6
    <3> QED  BY <1>1, <3>1 DEF Directory
  <2>2. call'.hit => j # 0
    BY <1>1
  <2> QED  BY <1>1, <1>13, <1>14, <2>1, <2>2 DEF CallPlace
<1> QED  BY <1>3, <1>7, <1>8, <1>9, <1>10, <1>11, <1>15 DEF Shape

(* Most steps are quiet: no entry of a directory is written, and no part of a file that an
   entry leads to.  The call goes on, with what it found, or ends. *)
Quiet == /\ SameListing /\ SameFiles /\ stored' = stored
         /\ \A c \in Cluster : dir'[c] = dir[c] \/ \A i \in 1 .. Slots : dir'[c][i].kind # "long"
         /\ pc = "slots" /\ k = 2 => pc' = "slots" /\ k' = 2 /\ at' = at
         /\ pc' = "slots" /\ k' = 2 => pc = "slots" /\ k = 2 /\ at' = at /\ dir' = dir

Goes == pc' \in Busy => pc \in Busy /\ call' = call /\ (call.hit => at' = at)

LEMMA QuietBlank ==
    ASSUME TInv, NEW z, NEW b, dir' = [dir EXCEPT ![z] = b],
           \A i \in 1 .. Slots : b[i].kind # "long"
    PROVE  \A c \in Cluster : dir'[c] = dir[c] \/ \A i \in 1 .. Slots : dir'[c][i].kind # "long"
<1>1. dir \in [Cluster -> [1 .. Slots -> EntrySet]]
  BY DEF TInv, DiskInv, DirType
<1> QED  BY <1>1

LEMMA NoLongs == \A i \in 1 .. Slots : /\ Junk[i].kind # "long" /\ Idle[i].kind # "long"
                                       /\ NewDir[i].kind # "long"
<1>1. \A i \in 1 .. Slots : NewDir[i] \in {Dots, End}
  BY NewDirIs
<1> QED  BY <1>1 DEF Junk, Idle, Dots, End

LEMMA FailQuiet ==
    ASSUME TInv, TInv', HitInv, NEW own, Owned(own), Shape, NEW also, Fail(also), Clean',
           pc \in Busy, pc # "free", ~(pc = "slots" /\ k = 2),
           fat' = fat, dir' = dir, data' = data, stored' = stored
    PROVE  Quiet /\ Goes
<1>1. Undisturbed
  BY FailShape
<1>2. SameListing /\ SameFiles
  BY <1>1, UndisturbedSame
<1>3. pc' \in {"none", "undo"}
  BY FailIs
<1> QED  BY <1>2, <1>3 DEF Quiet, Goes, Busy

LEMMA PowerOffQuiet ==
    ASSUME TInv, TInv', HitInv, NEW own, Owned(own), Shape, PowerOff, Clean'
    PROVE  Quiet /\ Goes
<1>1. SameListing /\ SameFiles
  BY PowerOffShape, UndisturbedSame
<1>2. pc' = "none" /\ dir' = dir /\ stored' = stored
  BY DEF PowerOff, Finish, disk
<1>3. pc # "slots"
  BY DEF PowerOff, Clean
<1> QED  BY <1>1, <1>2, <1>3 DEF Quiet, Goes, Busy

LEMMA StutterQuiet ==
    ASSUME TInv, TInv', HitInv, NEW own, Owned(own), UNCHANGED vars
    PROVE  Quiet /\ Goes
<1>1. SameListing /\ SameFiles
  BY StutterShape, UndisturbedSame
<1> QED  BY <1>1 DEF Quiet, Goes, vars, disk, locals

LEMMA FreeQuiet ==
    ASSUME TInv, TInv', HitInv, NEW own, Owned(own), NEW bad, FreeChainStep(bad), Clean'
    PROVE  Quiet /\ Goes
<1>1. SameListing /\ SameFiles
  BY FreeUndisturbed, UndisturbedSame
<1>2. /\ pc \in {"free", "undo"} /\ stored' = stored
      /\ old' # 0 => pc' = pc
      /\ old' = 0 /\ pc = "undo" => pc' = "none"
      /\ old' = 0 /\ pc = "free" => pc' = IF call.op = "delete" THEN "erase"
                        ELSE IF call.size > 0 THEN "alloc" ELSE "entry"
      /\ pc' = "none" \/ (call' = call /\ at' = at)
      /\ dir' = [dir EXCEPT ![old] = Junk]
  BY FreeIs
<1>3. pc' # "slots"
  BY <1>2
<1>4. \A c \in Cluster : dir'[c] = dir[c] \/ \A i \in 1 .. Slots : dir'[c][i].kind # "long"
  BY <1>2, QuietBlank, NoLongs
<1>5. Goes
  BY <1>2 DEF Goes, Busy
<1> QED  BY <1>1, <1>2, <1>3, <1>4, <1>5 DEF Quiet

LEMMA AllocateQuiet ==
    ASSUME TInv, TInv', HitInv, NEW own, Owned(own), Shape, NEW bad, Allocate(bad), Clean'
    PROVE  Quiet /\ Goes
<1>1. SameListing /\ SameFiles
  BY AllocateShape, UndisturbedSame
<1>2. /\ pc = "alloc" /\ pc \in Busy /\ dir' = dir /\ stored' = stored
      /\ \/ Fail({})
         \/ call' = call /\ at' = at /\ pc' \in {"data", "alloc", "link"}
  BY AllocateIs
<1>3. pc' \in {"none", "undo"} \/ (call' = call /\ at' = at /\ pc' \in {"data", "alloc", "link"})
  BY <1>2, FailIs
<1> QED  BY <1>1, <1>2, <1>3 DEF Quiet, Goes, Busy

LEMMA LinkQuiet ==
    ASSUME TInv, TInv', HitInv, NEW own, Owned(own), Shape, NEW bad, LinkCluster(bad), Clean'
    PROVE  Quiet /\ Goes
<1>1. SameListing /\ SameFiles
  BY LinkShape, UndisturbedSame
<1>2. pc = "link" /\ pc \in Busy /\ dir' = dir /\ stored' = stored /\ call' = call /\ at' = at
      /\ pc' \in {"data", "alloc"}
  BY LinkIs
<1> QED  BY <1>1, <1>2 DEF Quiet, Goes

LEMMA WriteClusterQuiet ==
    ASSUME TInv, TInv', HitInv, NEW own, Owned(own), Shape, NEW bad, WriteCluster(bad), Clean'
    PROVE  Quiet /\ Goes
<1>1. SameListing /\ SameFiles
  BY WriteClusterShape, UndisturbedSame
<1>2. /\ pc = "data" /\ pc \in Busy /\ stored' = stored
      /\ \/ Fail({}) /\ dir' = dir
         \/ /\ call' = call /\ at' = at /\ pc' \in {"data", "entry"}
            /\ \E c \in Cluster :
                   dir' = [dir EXCEPT ![c] = IF call.op = "mkdir" THEN NewDir ELSE Junk]
  BY WriteClusterIs
<1>3. CASE Fail({}) /\ dir' = dir
  <2>1. pc' \in {"none", "undo"}
    BY <1>2, <1>3, FailIs
  <2> QED  BY <1>1, <1>2, <1>3, <2>1 DEF Quiet, Goes, Busy
<1>4. ASSUME call' = call, at' = at, pc' \in {"data", "entry"}, NEW c \in Cluster,
             dir' = [dir EXCEPT ![c] = IF call.op = "mkdir" THEN NewDir ELSE Junk]
      PROVE  Quiet /\ Goes
  <2>1. PICK b : b = IF call.op = "mkdir" THEN NewDir ELSE Junk
    OBVIOUS
  <2>2. \A i \in 1 .. Slots : b[i].kind # "long"
    BY <2>1, NoLongs
  <2>3. \A x \in Cluster : dir'[x] = dir[x] \/ \A i \in 1 .. Slots : dir'[x][i].kind # "long"
    BY <1>4, <2>1, <2>2, QuietBlank
  <2> QED  BY <1>1, <1>2, <1>4, <2>3 DEF Quiet, Goes, Busy
<1> QED  BY <1>2, <1>3, <1>4

LEMMA FindRoomQuiet ==
    ASSUME TInv, TInv', HitInv, NEW own, Owned(own), Shape, FindRoom
    PROVE  Quiet /\ Goes
<1>1. SameListing /\ SameFiles
  BY FindRoomShape, UndisturbedSame
<1>2. pc = "entry" /\ ~call.hit /\ k' = 1 /\ dir' = dir /\ stored' = stored /\ call' = call
  BY DEF FindRoom, disk
<1> QED  BY <1>1, <1>2 DEF Quiet, Goes, Busy

LEMMA ExpandQuiet ==
    ASSUME TInv, TInv', HitInv, NEW own, Owned(own), Shape, NEW bad, Expand(bad), Clean'
    PROVE  Quiet /\ Goes
<1>1. SameListing /\ SameFiles
  BY ExpandShape, UndisturbedSame
<1>2. /\ pc = "expand" /\ pc \in Busy /\ dir' = dir /\ stored' = stored
      /\ Fail({}) \/ (call' = call /\ at' = at /\ pc' = "tail")
  BY ExpandIs
<1>3. pc' \in {"none", "undo"} \/ (call' = call /\ at' = at /\ pc' = "tail")
  BY <1>2, FailIs
<1> QED  BY <1>1, <1>2, <1>3 DEF Quiet, Goes, Busy

LEMMA LinkTailQuiet ==
    ASSUME TInv, TInv', HitInv, NEW own, Owned(own), Shape, NEW bad, LinkTail(bad), Clean'
    PROVE  Quiet /\ Goes
<1>1. SameListing /\ SameFiles
  BY LinkTailShape
<1>2. pc = "tail" /\ pc \in Busy /\ pc' = "zero" /\ dir' = dir /\ call' = call /\ at' = at
      /\ stored' = stored
  BY LinkTailIs
<1> QED  BY <1>1, <1>2 DEF Quiet, Goes

LEMMA ZeroTailQuiet ==
    ASSUME TInv, TInv', HitInv, NEW own, Owned(own), Shape, NEW bad, ZeroTail(bad), Clean'
    PROVE  Quiet /\ Goes
<1>1. SameListing /\ SameFiles
  BY ZeroTailShape
<1>2. pc = "zero" /\ pc \in Busy /\ pc' = "slots" /\ dir' = [dir EXCEPT ![old] = Idle]
      /\ call' = call /\ k' = k /\ k = 1 /\ stored' = stored /\ ~call.hit
  BY ZeroTailIs
<1>3. \A c \in Cluster : dir'[c] = dir[c] \/ \A i \in 1 .. Slots : dir'[c][i].kind # "long"
  BY <1>2, QuietBlank, NoLongs
<1> QED  BY <1>1, <1>2, <1>3 DEF Quiet, Goes

LEMMA BeginQuiet ==
    ASSUME TInv, TInv', HitInv, NEW own, Owned(own), Shape,
           NEW op \in {"write", "mkdir", "delete"}, NEW d \in Parents, NEW n, NEW len \in Nat,
           NEW j \in Nat,
           j # 0 => j \in 1 .. Len(Entries(d)) /\ IsEntry(Entries(d)[j]),
           Begin(op, d, n, len, j)
    PROVE  Quiet
<1>1. pc = "none" /\ fat' = fat /\ dir' = dir /\ data' = data /\ stored' = stored
      /\ (old' # 0 => pc' = "free") /\ (old' = 0 /\ op = "delete" => pc' = "erase")
      /\ (old' = 0 /\ op # "delete" => pc' = IF len > 0 THEN "alloc" ELSE "entry")
      /\ ~OldFreed
  BY BeginIs
<1>2. Undisturbed
  BY <1>1, StillUndisturbed
<1>3. SameListing /\ SameFiles
  BY <1>2, UndisturbedSame
<1>4. pc' # "slots"
  BY <1>1
<1> QED  BY <1>1, <1>3, <1>4 DEF Quiet

(* The shape is kept.  What has gone wrong stays wrong. *)
LEMMA PastGrows == TInv /\ [Next]_vars => past \subseteq past'
<1> SUFFICES ASSUME TInv, [Next]_vars PROVE past \subseteq past'
  OBVIOUS
<1>2. ASSUME NEW d \in Parents, NEW n \in Names, NEW len \in Lengths, WriteFile(d, n, len)
      PROVE  past' = past
  BY <1>2 DEF WriteFile
<1>3. ASSUME NEW n \in Names, CreateDirectory(n) PROVE past \subseteq past'
  BY <1>3 DEF CreateDirectory, Blame
<1>4. ASSUME NEW d \in Parents, NEW n \in Names, DeleteFile(d, n) PROVE past' = past
  BY <1>4 DEF DeleteFile
<1>5. CASE FindRoom
  BY <1>5 DEF FindRoom
<1>6. CASE PowerOff
  BY <1>6 DEF PowerOff
<1>7. ASSUME NEW also, Fail(also) PROVE past \subseteq past'
  BY <1>7 DEF Fail
<1>8. ASSUME NEW bad \in BOOLEAN, NEW what, Blame(bad, what) PROVE past \subseteq past'
  BY <1>8 DEF Blame
<1>9. ASSUME NEW bad \in BOOLEAN, Write(bad) PROVE past \subseteq past'
  <2>1. CASE FreeChainStep(bad)
    BY <1>8, <2>1 DEF FreeChainStep
  <2>2. CASE Allocate(bad)
    BY <1>7, <2>2 DEF Allocate
  <2>3. CASE LinkCluster(bad)
    BY <1>8, <2>3 DEF LinkCluster
  <2>4. CASE WriteCluster(bad)
    BY <1>7, <2>4 DEF WriteCluster
  <2>5. CASE UpdateEntry(bad)
    BY <1>7, <2>5 DEF UpdateEntry
  <2>6. CASE Expand(bad)
    <3> DEFINE hidden == End \in Range(AllEntries(call.dir))
    <3>1. past' = (IF hidden THEN past \cup {"hidden"} ELSE past) \/ \E also : Fail(also)
      BY <2>6 DEF Expand, Blame
    <3> QED  BY <1>7, <3>1
  <2>7. CASE LinkTail(bad)
    BY <1>8, <2>7 DEF LinkTail
  <2>8. CASE ZeroTail(bad)
    BY <1>8, <2>8 DEF ZeroTail
  <2>9. CASE WriteSlot(bad)
    BY <1>7, <2>9 DEF WriteSlot
  <2>10. CASE EraseEntry(bad)
    BY <1>7, <2>10 DEF EraseEntry, Blame
  <2> QED  BY <1>9, <2>1, <2>2, <2>3, <2>4, <2>5, <2>6, <2>7, <2>8, <2>9, <2>10 DEF Write
<1>10. CASE UNCHANGED vars
  BY <1>10 DEF vars
<1> QED  BY <1>2, <1>3, <1>4, <1>5, <1>6, <1>9, <1>10, NextSteps

(* How a call begins, with what it found: MKDIR finds no entry of the name, when it does not
   make a second one. *)
Starts(op, d, n, len, j) ==
    /\ op \in {"write", "mkdir", "delete"} /\ d \in Parents /\ n \in Names /\ len \in Nat
    /\ j \in Nat /\ (j # 0 => j \in 1 .. Len(Entries(d)) /\ IsEntry(Entries(d)[j]))
    /\ Begin(op, d, n, len, j)
    /\ op = "mkdir" => j = 0 /\ len = 1 /\ WriteFinds(d, n) = 0
    /\ op = "write" => /\ j = WriteFinds(d, n)
                       /\ j = 0 \/ Entries(d)[j].kind = "file"
    /\ op = "delete" => j = DeleteFinds(d, n) /\ j # 0 /\ k' = Place(d, EraseFrom(d, j))[2]

LEMMA StartsOnce ==
    ASSUME TInv, Clean',
           \/ \E d \in Parents, n \in Names, len \in Lengths : WriteFile(d, n, len)
           \/ \E n \in Names : CreateDirectory(n)
           \/ \E d \in Parents, n \in Names : DeleteFile(d, n)
    PROVE  \E op, d, n, len, j : Starts(op, d, n, len, j)
<1>1. ASSUME NEW d \in Parents
      PROVE  FatType /\ DirType /\ d \in Link
  BY FatTypes, ParentsAre DEF TInv, DiskInv, Link
<1>2. ASSUME NEW d \in Parents, NEW n \in Names, NEW len \in Lengths, WriteFile(d, n, len)
      PROVE  \E op, x, y, z, j : Starts(op, x, y, z, j)
  <2> DEFINE j == WriteFinds(d, n)
  <2>1. j \in Nat /\ (j # 0 => j \in 1 .. Len(Entries(d)) /\ IsEntry(Entries(d)[j]))
    BY <1>1, Found
  <2>2. Begin("write", d, n, len, j) /\ (j = 0 \/ Entries(d)[j].kind = "file") /\ len \in Nat
    BY <1>2, FatAssumption DEF WriteFile
  <2>3. j = WriteFinds(d, n)
    OBVIOUS
  <2> HIDE DEF j
  <2>4. Starts("write", d, n, len, j)
    BY <2>1, <2>2, <2>3 DEF Starts
  <2> QED  BY <2>4
<1>3. ASSUME NEW n \in Names, CreateDirectory(n)
      PROVE  \E op, x, y, z, j : Starts(op, x, y, z, j)
  <2>1. Begin("mkdir", Root, n, 1, 0) /\ Root \in Parents /\ WriteFinds(Root, n) = 0
    BY <1>3 DEF CreateDirectory, Parents, Blame, Clean
  <2>2. Starts("mkdir", Root, n, 1, 0)
    BY <2>1 DEF Starts
  <2> QED  BY <2>2
<1>4. ASSUME NEW d \in Parents, NEW n \in Names, DeleteFile(d, n)
      PROVE  \E op, x, y, z, j : Starts(op, x, y, z, j)
  <2> DEFINE j == DeleteFinds(d, n)
  <2>1. j \in Nat /\ j # 0 /\ j \in 1 .. Len(Entries(d)) /\ IsEntry(Entries(d)[j])
    BY <1>1, <1>4, Found DEF DeleteFile
  <2>2. Begin("delete", d, n, 0, j) /\ k' = Place(d, EraseFrom(d, j))[2]
    BY <1>4 DEF DeleteFile
  <2>3. j = DeleteFinds(d, n)
    OBVIOUS
  <2> HIDE DEF j
  <2>4. Starts("delete", d, n, 0, j)
    BY <2>1, <2>2, <2>3 DEF Starts
  <2> QED  BY <2>4
<1> QED  BY <1>2, <1>3, <1>4

ShapeInv == Clean => Shape

(* What is known of a step after which nothing has gone wrong, when it has none before. *)
LEMMA NextShape ==
    ASSUME IInv, ShapeInv, [Next]_vars, Clean'
    PROVE  TInv' /\ Clean /\ Sound /\ Shape /\ Shape'
<1>1. TInv /\ HitInv /\ TInv'
  BY NextType DEF IInv
<1>2. Clean /\ Sound
  BY <1>1, PastGrows, CleanBefore
<1>3. Shape
  BY <1>2 DEF ShapeInv
<1>4. PICK own : Owned(own)
  BY <1>2 DEF IInv, OwnInv
<1>5. ASSUME NEW op, NEW d, NEW n, NEW len, NEW j, Starts(op, d, n, len, j)
      PROVE  Shape'
  BY <1>1, <1>3, <1>4, <1>5, BeginShape DEF Starts
<1>6. ASSUME NEW bad \in BOOLEAN, Write(bad) PROVE Shape'
  <2>1. CASE FreeChainStep(bad)
    BY <1>1, <1>3, <1>4, <2>1, FreeShape
  <2>2. CASE Allocate(bad)
    BY <1>1, <1>3, <1>4, <2>2, AllocateShape
  <2>3. CASE LinkCluster(bad)
    BY <1>1, <1>3, <1>4, <2>3, LinkShape
  <2>4. CASE WriteCluster(bad)
    BY <1>1, <1>3, <1>4, <2>4, WriteClusterShape
  <2>5. CASE UpdateEntry(bad)
    BY <1>1, <1>3, <1>4, <2>5, UpdateShape
  <2>6. CASE Expand(bad)
    BY <1>1, <1>3, <1>4, <2>6, ExpandShape
  <2>7. CASE LinkTail(bad)
    BY <1>1, <1>3, <1>4, <2>7, LinkTailShape
  <2>8. CASE ZeroTail(bad)
    BY <1>1, <1>3, <1>4, <2>8, ZeroTailShape
  <2>9. CASE WriteSlot(bad)
    BY <1>1, <1>3, <1>4, <2>9, WriteSlotShape
  <2>10. CASE EraseEntry(bad)
    BY <1>1, <1>3, <1>4, <2>10, EraseShape
  <2> QED  BY <1>6, <2>1, <2>2, <2>3, <2>4, <2>5, <2>6, <2>7, <2>8, <2>9, <2>10 DEF Write
<1>7. FindRoom => Shape'
  BY <1>1, <1>3, <1>4, FindRoomShape
<1>8. PowerOff => Shape'
  BY <1>1, <1>3, <1>4, PowerOffShape
<1>9. UNCHANGED vars => Shape'
  BY <1>1, <1>3, <1>4, StutterShape
<1>10. Shape'
  BY <1>1, <1>5, <1>6, <1>7, <1>8, <1>9, StartsOnce, NextSteps
<1> QED  BY <1>1, <1>2, <1>3, <1>10

LEMMA ShapeAlways == Spec => [](IInv /\ ShapeInv)
<1>1. Init => IInv /\ ShapeInv
  BY InitOwned, InitShape DEF IInv, ShapeInv
<1>2. IInv /\ ShapeInv /\ [Next]_vars => (IInv /\ ShapeInv)'
  BY NextOwned, NextShape DEF ShapeInv
<1> QED  BY <1>1, <1>2, PTL DEF Spec

(* What a directory holds is listed: no end mark is before it. *)
LEMMA HeldListed ==
    ASSUME FatType, DirType, MarkInv, NEW d \in Link, NEW p, Holds(d, p)
    PROVE  \E j \in 1 .. Len(Entries(d)) : Place(d, j) = p /\ Entries(d)[j] = At(p)
<1> DEFINE ch == Chain(d)
           n == Len(ch)
           L == Len(Entries(d))
           N == Len(AllEntries(d))
<1>1. /\ ch \in Seq(Cluster) /\ n \in Nat /\ Slots \in Nat /\ Slots > 2
      /\ \A i \in 1 .. n - 1 : ch[i + 1] = fat[ch[i]]
      /\ \A i \in 1 .. n : ch[i] \in Cluster
  BY ChainFacts, ChainIs, SizesOK DEF Chained, IsChain
<1>2. PICK i \in 1 .. n : p[1] = ch[i]
  BY OfIs DEF Holds
<1>3. p[2] \in 1 .. Slots /\ p = <<p[1], p[2]>> /\ p \in Places
  BY DEF Holds, Places
<1>4. PICK m \in 1 .. Slots : m = p[2]
  BY <1>3
<1> DEFINE J == Slots * (i - 1) + m
<1>5. J \in 1 .. N /\ Place(d, J) = <<ch[i], m>> /\ AllEntries(d)[J] = dir[ch[i]][m]
  BY PlaceListed
<1>6. AllEntries(d)[J] = At(p) /\ Place(d, J) = p
  BY <1>2, <1>3, <1>4, <1>5 DEF At
<1>7. /\ L \in Nat /\ N \in Nat /\ L <= N
      /\ \A j \in 1 .. L : Entries(d)[j] = AllEntries(d)[j]
      /\ L < N => AllEntries(d)[L + 1] = End
  BY EntriesAre
<1>8. N = n * Slots
  BY AllEntriesIs
<1>9. J <= L
  <2> SUFFICES ASSUME ~(J <= L) PROVE FALSE
    OBVIOUS
  <2> HIDE DEF n, ch, L, N, J
  <2>1. J \in Nat /\ L + 1 <= J /\ L < N /\ L + 1 \in 1 .. N /\ L \in Nat /\ (L + 1) - 1 = L
    BY <1>5, <1>7
  <2>2. AllEntries(d)[L + 1] = End
    BY <1>7, <2>1
  <2> DEFINE q == L \div Slots
             r == L % Slots
  <2>3. q + 1 \in 1 .. n /\ r + 1 \in 1 .. Slots /\ L + 1 = Slots * q + r + 1
    <3>1. PICK y \in 1 .. n * Slots : y = L + 1
      BY <1>8, <2>1
    <3>2. (y - 1) = L
      BY <2>1, <3>1
    <3>3. /\ ((y - 1) \div Slots) + 1 \in 1 .. n /\ ((y - 1) % Slots) + 1 \in 1 .. Slots
          /\ y = Slots * ((y - 1) \div Slots) + ((y - 1) % Slots) + 1
      BY <1>1, SlotIs
    <3> QED  BY <3>1, <3>2, <3>3
  <2>4. q \in Nat /\ r \in Nat
    <3>1. Slots \in Nat \ {0} /\ L \in Nat
      BY <1>1, <2>1
    <3>2. q \in Nat /\ r \in 0 .. Slots - 1
      BY <3>1, DivMod
    <3> QED  BY <3>1, <3>2
  <2> HIDE DEF q, r
  <2>5. PICK a \in 1 .. n : a = q + 1
    BY <2>3
  <2>6. PICK b \in 1 .. Slots : b = r + 1
    BY <2>3
  <2>7. L + 1 = Slots * (a - 1) + b
    <3>1. q = a - 1
      BY <1>1, <2>4, <2>5
    <3>2. Slots * q \in Nat
      BY <1>1, <2>4, Products
    <3> QED  BY <2>3, <2>4, <2>6, <3>1, <3>2
  <2>8. AllEntries(d)[L + 1] = dir[ch[a]][b]
    BY <2>7, PlaceListed DEF n, ch
  <2>9. ch[a] \in Cluster /\ dir[ch[a]][b] = End
    <3>1. ch[a] \in Cluster
      BY OfIs DEF ch, n
    <3>2. dir[ch[a]][b] = End
      BY <2>2, <2>8
    <3> QED  BY <3>1, <3>2
  <2>10. fat[ch[a]] \notin Cluster /\ \A j \in b .. Slots : dir[ch[a]][j] = End
    BY <2>9 DEF MarkInv
  <2>11. ~(a < n)
    <3> SUFFICES ASSUME a < n PROVE FALSE
      OBVIOUS
    <3>1. a \in 1 .. n - 1 /\ a + 1 \in 1 .. n
      BY <1>1
    <3>2. ch[a + 1] = fat[ch[a]] /\ ch[a + 1] \in Cluster
      BY <1>1, <3>1
    <3> QED  BY <2>10, <3>2
  <2>12. a = n /\ i <= a /\ i \in Nat /\ a \in Nat
    BY <1>1, <2>11
  <2>13. CASE i = a
    <3>1. Slots * (a - 1) \in Nat /\ J = Slots * (a - 1) + m
      BY <1>1, <2>12, <2>13, Products DEF J
    <3>2. b <= m
      BY <2>1, <2>7, <3>1
    <3>3. dir[ch[i]][m] = End
      BY <2>10, <2>13, <3>2
    <3>4. At(p) = End
      BY <1>5, <1>6, <3>3
    <3>5. IsEntry(At(p))
      BY DEF Holds
    <3> QED  BY <3>4, <3>5 DEF IsEntry, End
  <2>14. CASE i < a
    <3>1. i - 1 \in Nat /\ a - 1 \in Nat /\ i - 1 < a - 1
      BY <2>12, <2>14
    <3>2. Slots * (i - 1) \in Nat /\ Slots * (a - 1) \in Nat
          /\ Slots * (i - 1) + Slots <= Slots * (a - 1)
      BY <1>1, <3>1, Products
    <3>3. J = Slots * (i - 1) + m
      BY DEF J
    <3>4. PICK x : x = Slots * (i - 1)
      OBVIOUS
    <3>5. PICK y : y = Slots * (a - 1)
      OBVIOUS
    <3>6. x \in Nat /\ y \in Nat /\ x + Slots <= y /\ J = x + m /\ L + 1 = y + b
      BY <2>7, <3>2, <3>3, <3>4, <3>5
    <3> QED  BY <1>1, <2>1, <3>6
  <2> QED  BY <2>12, <2>13, <2>14
<1>10. J \in 1 .. L
  BY <1>5, <1>7, <1>9
<1> QED  BY <1>6, <1>7, <1>10

(* A place is listed once. *)
LEMMA PlacesApart ==
    ASSUME FatType, DirType, NEW d \in Cluster, Ends(d),
           NEW i \in 1 .. Len(Entries(d)), NEW j \in 1 .. Len(Entries(d)), Place(d, i) = Place(d, j)
    PROVE  i = j
<1> DEFINE n == Len(Chain(d))
<1>1. n \in Nat /\ Slots \in Nat /\ Slots > 2 /\ d \in Link
  BY ChainIs, SizesOK DEF Link
<1>2. Len(Entries(d)) <= Len(AllEntries(d)) /\ Len(AllEntries(d)) = n * Slots
      /\ Len(Entries(d)) \in Nat /\ Len(AllEntries(d)) \in Nat
  BY <1>1, EntriesAre, AllEntriesIs
<1>3. i \in 1 .. n * Slots /\ j \in 1 .. n * Slots
  BY <1>2
<1> DEFINE q(x) == (x - 1) \div Slots
           r(x) == (x - 1) % Slots
<1>4. /\ q(i) + 1 \in 1 .. n /\ i = Slots * q(i) + r(i) + 1
      /\ q(j) + 1 \in 1 .. n /\ j = Slots * q(j) + r(j) + 1
  BY <1>1, <1>3, SlotIs
<1>5. Place(d, i) = <<Chain(d)[q(i) + 1], r(i) + 1>> /\ Place(d, j) = <<Chain(d)[q(j) + 1], r(j) + 1>>
  BY DEF Place
<1>6. i - 1 \in Nat /\ j - 1 \in Nat /\ Slots \in Nat \ {0}
  BY <1>1, <1>2
<1>7. q(i) \in Nat /\ r(i) \in Nat /\ q(j) \in Nat /\ r(j) \in Nat
  <2>1. q(i) \in Nat /\ r(i) \in 0 .. Slots - 1 /\ q(j) \in Nat /\ r(j) \in 0 .. Slots - 1
    BY <1>6, DivMod
  <2> HIDE DEF q, r
  <2> QED  BY <1>6, <2>1
<1> HIDE DEF q, r
<1>8. q(i) + 1 = q(j) + 1 /\ r(i) + 1 = r(j) + 1
  <2>1. PICK a \in 1 .. n : a = q(i) + 1
    BY <1>4
  <2>2. PICK b \in 1 .. n : b = q(j) + 1
    BY <1>4
  <2>3. Chain(d)[a] = Chain(d)[b] /\ r(i) + 1 = r(j) + 1
    <3>1. <<Chain(d)[q(i) + 1], r(i) + 1>> = <<Chain(d)[q(j) + 1], r(j) + 1>>
      BY <1>5
    <3>2. Chain(d)[q(i) + 1] = Chain(d)[q(j) + 1] /\ r(i) + 1 = r(j) + 1
      BY <3>1
    <3> QED  BY <2>1, <2>2, <3>2
  <2>4. a = b
    BY <2>3, NoRepeats DEF n
  <2> QED  BY <2>1, <2>2, <2>3, <2>4
<1>9. q(i) = q(j) /\ r(i) = r(j)
  BY <1>7, <1>8
<1> QED  BY <1>4, <1>9

(* Names: a long name is followed by the entry whose 8.3 form it has, the entry a call found
   has the name it looked for, and a directory holds a name once. *)
LongInv == \A c \in Cluster, i \in 1 .. Slots :
               dir[c][i].kind = "long" =>
                   \/ IsEntry(dir[c][i + 1]) /\ dir[c][i + 1].name = Short[dir[c][i].name]
                   \/ pc = "slots" /\ k = 2 /\ at = <<c, i>>

NameInv == pc \in Busy =>
               /\ call.hit => At(at).name = Short[call.name]
               /\ ~call.hit => \A p : Holds(call.dir, p) => At(p).name # Short[call.name]
               /\ pc = "slots" /\ k = 2 => At(at) = LongEntry(call.name)

UniqueInv == \A d : Directory(d) =>
                 \A p, q : Holds(d, p) /\ Holds(d, q) /\ At(p).name = At(q).name => p = q

Named83 == LongInv /\ NameInv /\ UniqueInv

(* The long name of an entry fits it: while one is written, there is no entry behind it. *)
LEMMA LongNamed ==
    ASSUME TInv, RoomPlace, LongInv, NEW c \in Cluster, NEW i \in 1 .. Slots,
           dir[c][i].kind = "long"
    PROVE  /\ i < Slots
           /\ IsEntry(dir[c][i + 1]) => dir[c][i + 1].name = Short[dir[c][i].name]
           /\ \/ IsEntry(dir[c][i + 1])
              \/ pc = "slots" /\ k = 2 /\ at = <<c, i>> /\ dir[c][i + 1] \in {End, Erased}
<1>1. Slots \in Nat /\ Slots > 2
  BY SizesOK
<1>2. i # Slots
  BY DEF TInv, DiskInv, DirType
<1>3. i < Slots /\ i + 1 \in 1 .. Slots
  BY <1>1, <1>2
<1>4. ASSUME pc = "slots", k = 2, at = <<c, i>> PROVE dir[c][i + 1] \in {End, Erased}
  <2>1. k \in 1 .. SlotsFor(call.name) /\ SlotsFor(call.name) \in {1, 2}
    BY <1>4, SlotsForIs DEF TInv, CallInv, Busy
  <2>2. SlotsFor(call.name) = 2
    BY <1>4, <2>1
  <2>3. at[1] = c /\ at[2] = i
    BY <1>4
  <2>4. at[2] + k - 1 <= i + 1 /\ i + 1 < at[2] + SlotsFor(call.name)
    BY <1>1, <1>3, <1>4, <2>2, <2>3
  <2>5. PICK j \in 1 .. Slots : j = i + 1
    BY <1>3
  <2>6. dir[at[1]][j] \in {End, Erased}
    BY <1>4, <2>4, <2>5 DEF RoomPlace
  <2> QED  BY <2>3, <2>5, <2>6
<1>5. \/ IsEntry(dir[c][i + 1]) /\ dir[c][i + 1].name = Short[dir[c][i].name]
      \/ pc = "slots" /\ k = 2 /\ at = <<c, i>>
  BY DEF LongInv
<1>6. dir[c][i + 1] \in {End, Erased} => ~IsEntry(dir[c][i + 1])
  BY DEF IsEntry, End, Erased
<1> QED  BY <1>3, <1>4, <1>5, <1>6

LEMMA LongNameFits ==
    ASSUME TInv, Shape, LongInv, NEW d \in Link, NEW j \in 1 .. Len(Entries(d)),
           IsEntry(Entries(d)[j]), NEW m \in LongName(Entries(d), j)
    PROVE  Entries(d)[j].name = Short[m] /\ LongName(Entries(d), j) = {m}
<1>1. FatType /\ DirType /\ RoomPlace
  BY TInvFat DEF TInv, DiskInv, Shape
<1>2. /\ j - 1 \in 1 .. Len(Entries(d)) /\ Entries(d)[j - 1].kind = "long"
      /\ Place(d, j - 1)[1] = Place(d, j)[1] /\ Place(d, j - 1)[2] + 1 = Place(d, j)[2]
      /\ Place(d, j - 1)[2] \in 1 .. Slots
  BY <1>1, LongBefore
<1>3. PICK c \in Cluster : c = Place(d, j)[1]
  BY <1>1, EntryPlace
<1>4. PICK i \in 1 .. Slots : i = Place(d, j - 1)[2]
  BY <1>2
<1>5. Entries(d)[j] = dir[c][i + 1] /\ Entries(d)[j - 1] = dir[c][i]
  BY <1>1, <1>2, <1>3, <1>4, EntryPlace
<1>6. LongName(Entries(d), j) = {Entries(d)[j - 1].name} /\ m = Entries(d)[j - 1].name
  BY DEF LongName
<1>7. dir[c][i + 1].name = Short[dir[c][i].name]
  BY <1>1, <1>2, <1>5, LongNamed
<1> QED  BY <1>5, <1>6, <1>7

(* So each of the three lookups finds an entry of the 8.3 name.  Opening a path finds none only
   if there is none within reach, writing only if there is none. *)
LEMMA OpenFindsIt ==
    ASSUME TInv, Shape, LongInv, NEW d \in Link, NEW n
    PROVE  /\ OpenFinds(d, n) = 0 =>
                  \A j \in 1 .. Len(Entries(d)) :
                      IsEntry(Entries(d)[j]) /\ Entries(d)[j].name = Short[n]
                      => ~InReach(Entries(d), j)
           /\ OpenFinds(d, n) # 0 =>
                  /\ OpenFinds(d, n) \in 1 .. Len(Entries(d))
                  /\ IsEntry(Entries(d)[OpenFinds(d, n)])
                  /\ Entries(d)[OpenFinds(d, n)].name = Short[n]
                  /\ InReach(Entries(d), OpenFinds(d, n))
<1> DEFINE es == Entries(d)
           Shown(j) == IF LongName(es, j) = {} THEN {es[j].name}
                       ELSE {Short[m] : m \in LongName(es, j)}
           js == {j \in 1 .. Len(es) : IsEntry(es[j]) /\ Short[n] \in Shown(j) /\ InReach(es, j)}
<1>1. OpenFinds(d, n) = First(js)
  BY DEF OpenFinds
<1>3. ASSUME NEW j \in 1 .. Len(es), IsEntry(es[j])
      PROVE  Shown(j) = {es[j].name}
  <2>1. CASE LongName(es, j) = {}
    BY <2>1
  <2>2. ASSUME NEW m \in LongName(es, j) PROVE Shown(j) = {es[j].name}
    <3>1. es[j].name = Short[m] /\ LongName(es, j) = {m}
      BY <1>3, LongNameFits
    <3> QED  BY <3>1
  <2> QED  BY <2>1, <2>2
<1> HIDE DEF Shown
<1>4. js = {j \in 1 .. Len(es) : IsEntry(es[j]) /\ Short[n] = es[j].name /\ InReach(es, j)}
  BY <1>3
<1>5. js \in SUBSET (Nat \ {0})
  BY <1>4
<1> HIDE DEF js
<1>6. (First(js) = 0 <=> js = {}) /\ (js # {} => First(js) \in js)
  BY <1>5, FirstIs
<1> QED  BY <1>1, <1>4, <1>6

LEMMA WriteFindsIt ==
    ASSUME TInv, Shape, NEW d \in Link, NEW n, WriteFinds(d, n) = 0
    PROVE  \A p : Holds(d, p) => At(p).name # Short[n]
<1> DEFINE es == Entries(d)
           js == {j \in 1 .. Len(es) : IsEntry(es[j]) /\ es[j].name = Short[n]}
<1>1. WriteFinds(d, n) = First(js)
  BY DEF WriteFinds
<1>2. js \in SUBSET (Nat \ {0})
  OBVIOUS
<1>3. js = {}
  BY <1>1, <1>2, FirstIs
<1> SUFFICES ASSUME NEW p, Holds(d, p) PROVE At(p).name # Short[n]
  OBVIOUS
<1>4. FatType /\ DirType /\ MarkInv
  BY TInvFat DEF TInv, DiskInv, Shape
<1>5. PICK j \in 1 .. Len(Entries(d)) : Place(d, j) = p /\ Entries(d)[j] = At(p)
  BY <1>4, HeldListed
<1>6. IsEntry(es[j])
  BY <1>5 DEF Holds
<1> QED  BY <1>3, <1>5, <1>6

(* The names are kept by a step that is quiet, *)
LEMMA QuietNames ==
    ASSUME TInv, TInv', Shape, Shape', Named83, Quiet
    PROVE  /\ LongInv' /\ UniqueInv'
           /\ Goes => NameInv'
<1>1. LongInv'
  <2> SUFFICES ASSUME NEW c \in Cluster, NEW i \in 1 .. Slots, dir'[c][i].kind = "long"
               PROVE  \/ IsEntry(dir'[c][i + 1]) /\ dir'[c][i + 1].name = Short[dir'[c][i].name]
                      \/ pc' = "slots" /\ k' = 2 /\ at' = <<c, i>>
    BY DEF LongInv
  <2>1. dir'[c] = dir[c]
    BY DEF Quiet
  <2>2. \/ IsEntry(dir[c][i + 1]) /\ dir[c][i + 1].name = Short[dir[c][i].name]
        \/ pc = "slots" /\ k = 2 /\ at = <<c, i>>
    BY <2>1 DEF Named83, LongInv
  <2> QED  BY <2>1, <2>2 DEF Quiet
<1>2. UniqueInv'
  <2> SUFFICES ASSUME NEW d, Directory(d)', NEW p, NEW q, Holds(d, p)', Holds(d, q)',
                      At(p)'.name = At(q)'.name
               PROVE  p = q
    BY DEF UniqueInv
  <2>1. Directory(d) /\ Holds(d, p) /\ Holds(d, q) /\ At(p)' = At(p) /\ At(q)' = At(q)
    BY DEF Quiet, SameListing
  <2> QED  BY <2>1 DEF Named83, UniqueInv
<1>3. ASSUME Goes, pc' \in Busy PROVE NameInv'
  <2>1. pc \in Busy /\ call' = call /\ (call.hit => at' = at)
    BY <1>3 DEF Goes
  <2>2. PICK d : d = call.dir
    OBVIOUS
  <2>3. Directory(d)'
    <3>1. Directory(call.dir)'
      BY <1>3 DEF Shape, CallPlace
    <3> QED  BY <2>1, <2>2, <3>1 DEF Directory
  <2>4. Directory(d) /\ \A p : (Holds(d, p)' <=> Holds(d, p)) /\ (Holds(d, p) => At(p)' = At(p))
    BY <2>3 DEF Quiet, SameListing
  <2>5. ASSUME call.hit PROVE At(at)'.name = Short[call.name]
    <3>1. PICK p : p = at
      OBVIOUS
    <3>2. Holds(d, p) /\ At(p).name = Short[call.name]
      BY <2>1, <2>2, <2>5, <3>1 DEF Shape, CallPlace, Named83, NameInv
    <3>3. At(p)' = At(p)
      BY <2>4, <3>2
    <3>4. At(at)' = At(p)'
      BY <2>1, <2>5, <3>1 DEF At
    <3> QED  BY <3>2, <3>3, <3>4
  <2>6. ASSUME ~call.hit, NEW p, Holds(d, p)' PROVE At(p)'.name # Short[call.name]
    BY <2>1, <2>2, <2>4, <2>6 DEF Named83, NameInv
  <2>8. \A p : Holds(call.dir, p)' <=> Holds(d, p)'
    BY <2>1, <2>2 DEF Holds
  <2>9. pc' = "slots" /\ k' = 2 => At(at)' = LongEntry(call.name)
    BY <2>1 DEF Quiet, Named83, NameInv, At
  <2> QED  BY <2>1, <2>5, <2>6, <2>8, <2>9 DEF NameInv
<1>4. pc' \notin Busy => NameInv'
  BY DEF NameInv
<1> QED  BY <1>1, <1>2, <1>3, <1>4

(* The steps that are not quiet write one entry of the directory the call works in. *)
SlotStep(d, c, i, e) ==
    /\ d = call.dir /\ Directory(d) /\ c \in Of(d) /\ i \in 1 .. Slots /\ e \in EntrySet
    /\ pc \in Busy /\ fat' = fat /\ data' = data
    /\ c \in Cluster /\ <<c, i>> \in Places /\ c \notin Of(first)
    /\ \A p \in Places : At(p)' = IF p = <<c, i>> THEN e ELSE At(p)
    /\ \A x : Chain(x)' = Chain(x) /\ Of(x)' = Of(x)
    /\ \A p \in Places : Whole(p)' => p = <<c, i>> \/ Whole(p)
    /\ \A b \in Cluster : b # c => dir'[b] = dir[b]
    /\ \A j \in 1 .. Slots : dir'[c][j] = IF j = i THEN e ELSE dir[c][j]

Ended == pc' = "none" /\ call' = NoCall /\ first' = 0

\* the entry of the call's name is written, over the one found or where there is room,
Put(d, c, i, e) ==
    /\ Ended /\ past' = past
    /\ IsEntry(e) /\ e.name = Short[call.name] /\ e.first = first
    /\ \/ call.hit /\ call.op = "write" /\ at = <<c, i>> /\ IsEntry(At(at)) /\ pc = "entry"
       \/ /\ ~call.hit /\ pc = "slots" /\ c = at[1] /\ i = at[2] + k - 1 /\ k \in {1, 2}
          /\ dir[c][i] \in {End, Erased} /\ ~OldFreed
    /\ \/ /\ call.op = "write" /\ e.kind = "file" /\ e.size = call.size
          /\ stored' = [stored EXCEPT ![d][Short[call.name]] = Content(call.name, call.size)]
       \/ /\ call.op = "mkdir" /\ e.kind = "dir" /\ first # 0
          /\ stored' = [stored EXCEPT ![first] = [s \in Range(Short) |-> Absent]]

\* or its long name;
PutLong(c, i, e) ==
    /\ pc = "slots" /\ ~call.hit /\ c = at[1] /\ i = at[2] /\ k = 1 /\ k' = 2
    /\ e = LongEntry(call.name) /\ dir[c][i] \in {End, Erased}
    /\ call' = call /\ at' = at /\ first' = first /\ pc' = pc /\ stored' = stored /\ old' = old
    /\ past' = past

\* the entry found is erased, or its long name.
Drop(d, c, i, e) ==
    /\ pc = "erase" /\ call.op = "delete" /\ call.hit /\ at = <<c, i>> /\ e = Erased /\ Ended
    /\ IsEntry(At(at)) /\ FirstOf(at) = call.chain
    /\ i > 1 => dir[c][i - 1].kind # "long"
    /\ stored' = [stored EXCEPT ![d][Short[call.name]] = Absent]
    /\ past' = IF call.full THEN past \cup {"leaked"} ELSE past

DropLong(c, i, e) ==
    /\ pc = "erase" /\ call.op = "delete" /\ call.hit /\ at = <<c, i + 1>> /\ e = Erased
    /\ dir[c][i].kind = "long"
    /\ call' = call /\ at' = at /\ first' = first /\ pc' = pc /\ stored' = stored /\ old' = old
    /\ past' = past

Written(d, c, i, e) == /\ SlotStep(d, c, i, e)
                       /\ \/ Put(d, c, i, e) \/ PutLong(c, i, e)
                          \/ Drop(d, c, i, e) \/ DropLong(c, i, e)

LEMMA SlotSteps ==
    ASSUME TInv, TInv', HitInv, NEW own, Owned(own), Shape,
           NEW d, d = call.dir, Directory(d), NEW c \in Of(d), NEW i \in 1 .. Slots,
           NEW e \in EntrySet, dir' = [dir EXCEPT ![c][i] = e], fat' = fat, data' = data,
           e # End, \A j \in 1 .. Slots : j < i => dir[c][j] # End, IsEntry(e) => e.first = first,
           OldFreed /\ call.hit => at = <<c, i>> \/ (OldFreed' /\ call'.hit /\ at' = at),
           pc \in Busy, pc' \in {"none", "slots", "erase"},
           pc' = "none" => first' = 0, pc' # "none" => call' = call /\ first' = first
    PROVE  SlotStep(d, c, i, e)
<1>1. /\ c \in Cluster /\ <<c, i>> \in Places /\ c \notin Of(first)
      /\ \A p \in Places : At(p)' = IF p = <<c, i>> THEN e ELSE At(p)
      /\ \A x : Chain(x)' = Chain(x) /\ Of(x)' = Of(x)
      /\ \A p \in Places : Whole(p)' => p = <<c, i>> \/ Whole(p)
      /\ \A b \in Cluster : b # c => dir'[b] = dir[b]
      /\ \A j \in 1 .. Slots : dir'[c][j] = IF j = i THEN e ELSE dir[c][j]
      /\ EndsInv' /\ MarkInv' /\ BlankInv' /\ GrowInv'
  BY SlotShape
<1> QED  BY <1>1 DEF SlotStep

LEMMA UpdateWritten ==
    ASSUME TInv, TInv', HitInv, NEW own, Owned(own), Shape, NEW bad, UpdateEntry(bad), Clean'
    PROVE  \/ Quiet /\ Goes /\ Fail({}) /\ dir' = dir
           \/ \E d, c, i, e : Written(d, c, i, e)
<1>0. PICK d : d = call.dir
  OBVIOUS
<1>1. /\ pc = "entry" /\ pc \in Busy /\ call.hit /\ call.op = "write"
      /\ fat' = fat /\ data' = data /\ Directory(d) /\ IsEntry(At(at))
  BY <1>0, UpdateIs
<1>2. CASE Fail({}) /\ dir' = dir /\ stored' = stored
  BY <1>1, <1>2, FailQuiet
<1>3. ASSUME NEW c \in Of(d), NEW i \in 1 .. Slots, NEW e \in EntrySet,
             at = <<c, i>>, dir' = [dir EXCEPT ![c][i] = e],
             e.kind = "file" /\ e.name = Short[call.name] /\ e.first = first,
             e.size = call.size /\ IsEntry(e) /\ e # End,
             \A j \in 1 .. Slots : j < i => dir[c][j] # End,
             Finish /\ past' = past,
             stored' = [stored EXCEPT ![d][Short[call.name]] = Content(call.name, call.size)]
      PROVE  Written(d, c, i, e)
  <2>1. pc' = "none" /\ first' = 0 /\ Ended
    BY <1>3 DEF Finish, Ended
  <2>2. SlotStep(d, c, i, e)
    BY <1>0, <1>1, <1>3, <2>1, SlotSteps
  <2>3. Put(d, c, i, e)
    BY <1>1, <1>3, <2>1 DEF Put
  <2> QED  BY <2>2, <2>3 DEF Written
<1> QED
  <2>1. \/ Fail({}) /\ dir' = dir /\ stored' = stored
        \/ \E c \in Of(d), i \in 1 .. Slots, e \in EntrySet :
              /\ at = <<c, i>> /\ dir' = [dir EXCEPT ![c][i] = e]
              /\ e.kind = "file" /\ e.name = Short[call.name] /\ e.first = first
              /\ e.size = call.size /\ IsEntry(e) /\ e # End
              /\ \A j \in 1 .. Slots : j < i => dir[c][j] # End
              /\ Finish /\ past' = past
              /\ stored' = [stored EXCEPT ![d][Short[call.name]] =
                                Content(call.name, call.size)]
    BY <1>0, UpdateIs
  <2> QED  BY <1>2, <1>3, <2>1

LEMMA WriteSlotWritten ==
    ASSUME TInv, TInv', HitInv, NEW own, Owned(own), Shape, NEW bad, WriteSlot(bad), Clean'
    PROVE  \/ Quiet /\ Goes /\ Fail({}) /\ dir' = dir
           \/ \E d, c, i, e : Written(d, c, i, e)
<1>0. PICK d : d = call.dir
  OBVIOUS
<1>1. /\ pc = "slots" /\ pc \in Busy /\ ~call.hit /\ fat' = fat /\ data' = data
      /\ Directory(d) /\ ~OldFreed /\ call.op \in {"write", "mkdir"} /\ k \in {1, 2}
  BY <1>0, WriteSlotIs
<1>2. CASE k = 1 /\ Fail({}) /\ dir' = dir /\ stored' = stored
  BY <1>1, <1>2, FailQuiet
<1>3. ASSUME NEW c \in Of(d), NEW i \in 1 .. Slots, NEW e \in EntrySet,
             c = at[1], i = at[2] + k - 1, dir' = [dir EXCEPT ![c][i] = e], e # End,
             dir[c][i] \in {End, Erased},
             \A j \in 1 .. Slots : j < i => dir[c][j] # End, past' = past,
             Finish, e = NewEntry, Done
      PROVE  Written(d, c, i, e)
  <2>1. pc' = "none" /\ first' = 0 /\ Ended
    BY <1>3 DEF Finish, Ended
  <2>2. /\ e.kind = IF call.op = "mkdir" THEN "dir" ELSE "file"
        /\ e.name = Short[call.name] /\ e.first = first
        /\ e.size = IF call.op = "mkdir" THEN 0 ELSE call.size
        /\ IsEntry(e) /\ (call.op = "mkdir" => first # 0)
    BY <1>1, <1>3, NewEntryHas
  <2>3. SlotStep(d, c, i, e)
    BY <1>0, <1>1, <1>3, <2>1, <2>2, SlotSteps
  <2>4. /\ call.op = "write" => stored' = [stored EXCEPT ![d][Short[call.name]] =
                                               Content(call.name, call.size)]
        /\ call.op = "mkdir" => stored' = [stored EXCEPT ![first] =
                                               [s \in Range(Short) |-> Absent]]
    BY <1>0, <1>3 DEF Done, Store
  <2>5. Put(d, c, i, e)
    BY <1>1, <1>3, <2>1, <2>2, <2>4 DEF Put
  <2> QED  BY <2>3, <2>5 DEF Written
<1>4. ASSUME NEW c \in Of(d), NEW i \in 1 .. Slots, NEW e \in EntrySet,
             c = at[1], i = at[2] + k - 1, dir' = [dir EXCEPT ![c][i] = e], e # End,
             dir[c][i] \in {End, Erased},
             \A j \in 1 .. Slots : j < i => dir[c][j] # End, past' = past,
             e = LongEntry(call.name), ~IsEntry(e), k = 1, k' = 2,
             pc' = pc, call' = call, first' = first, old' = old, at' = at, stored' = stored
      PROVE  Written(d, c, i, e)
  <2>1. at[2] = i
    <3>1. at[2] \in Nat
      BY SizesOK DEF TInv, LocalInv
    <3> QED  BY <1>4, <3>1
  <2>2. PutLong(c, i, e)
    BY <1>1, <1>4, <2>1 DEF PutLong
  <2>3. IsEntry(e) => e.first = first
    BY <1>4
  <2>4. OldFreed /\ call.hit => at = <<c, i>> \/ (OldFreed' /\ call'.hit /\ at' = at)
    BY <1>1
  <2>5. pc' \in {"none", "slots", "erase"} /\ pc' # "none"
    BY <1>1, <1>4
  <2>6. SlotStep(d, c, i, e)
    BY <1>0, <1>1, <1>4, <2>3, <2>4, <2>5, SlotSteps
  <2> QED  BY <2>2, <2>6 DEF Written
<1> QED
  <2>1. \/ k = 1 /\ Fail({}) /\ dir' = dir /\ stored' = stored
        \/ \E c \in Of(d), i \in 1 .. Slots, e \in EntrySet :
              /\ c = at[1] /\ i = at[2] + k - 1 /\ dir' = [dir EXCEPT ![c][i] = e]
              /\ dir[c][i] \in {End, Erased} /\ e # End
              /\ \A j \in 1 .. Slots : j < i => dir[c][j] # End
              /\ past' = past
              /\ \/ Finish /\ e = NewEntry /\ Done
                 \/ /\ e = LongEntry(call.name) /\ ~IsEntry(e) /\ k = 1 /\ k' = 2
                    /\ pc' = pc /\ call' = call /\ first' = first
                    /\ old' = old /\ at' = at /\ stored' = stored
    BY <1>0, WriteSlotIs
  <2> QED  BY <1>2, <1>3, <1>4, <2>1

LEMMA EraseWritten ==
    ASSUME TInv, TInv', HitInv, NEW own, Owned(own), Shape, NEW bad, EraseEntry(bad), Clean'
    PROVE  \E d, c, i, e : Written(d, c, i, e)
<1>0. PICK d : d = call.dir
  OBVIOUS
<1>1. /\ pc = "erase" /\ pc \in Busy /\ call.hit /\ call.op = "delete"
      /\ fat' = fat /\ data' = data /\ Directory(d) /\ Holds(d, at)
      /\ FirstOf(at) = call.chain /\ IsEntry(At(at))
      /\ \E c \in Of(d), i \in 1 .. Slots, e \in EntrySet :
             /\ e = Erased /\ ~IsEntry(e) /\ e # End
             /\ c = at[1] /\ i = k /\ dir' = [dir EXCEPT ![c][i] = e]
             /\ \A j \in 1 .. Slots : j < i => dir[c][j] # End
             /\ \/ /\ i = at[2] /\ at = <<c, i>> /\ Finish
                   /\ i > 1 => dir[c][i - 1].kind # "long"
                   /\ stored' = [stored EXCEPT ![d][Short[call.name]] = Absent]
                   /\ past' = IF call.full THEN past \cup {"leaked"} ELSE past
                \/ /\ i + 1 = at[2] /\ at = <<c, i + 1>> /\ dir[c][i].kind = "long"
                   /\ pc' = pc /\ call' = call /\ first' = first
                   /\ old' = old /\ at' = at /\ stored' = stored /\ past' = past
  <2> USE <1>0, EraseIs
  <2> QED  OBVIOUS
<1>2. PICK c \in Of(d), i \in 1 .. Slots, e \in EntrySet :
        /\ e = Erased /\ ~IsEntry(e) /\ e # End
        /\ c = at[1] /\ i = k /\ dir' = [dir EXCEPT ![c][i] = e]
        /\ \A j \in 1 .. Slots : j < i => dir[c][j] # End
        /\ \/ /\ i = at[2] /\ at = <<c, i>> /\ Finish
              /\ i > 1 => dir[c][i - 1].kind # "long"
              /\ stored' = [stored EXCEPT ![d][Short[call.name]] = Absent]
              /\ past' = IF call.full THEN past \cup {"leaked"} ELSE past
           \/ /\ i + 1 = at[2] /\ at = <<c, i + 1>> /\ dir[c][i].kind = "long"
              /\ pc' = pc /\ call' = call /\ first' = first
              /\ old' = old /\ at' = at /\ stored' = stored /\ past' = past
  BY <1>1
<1>3. CASE /\ i = at[2] /\ at = <<c, i>> /\ Finish
           /\ i > 1 => dir[c][i - 1].kind # "long"
           /\ stored' = [stored EXCEPT ![d][Short[call.name]] = Absent]
           /\ past' = IF call.full THEN past \cup {"leaked"} ELSE past
  <2>1. pc' = "none" /\ first' = 0 /\ Ended
    BY <1>3 DEF Finish, Ended
  <2>2. Drop(d, c, i, e)
    BY <1>1, <1>2, <1>3, <2>1 DEF Drop
  <2>3. SlotStep(d, c, i, e)
    BY <1>0, <1>1, <1>2, <1>3, <2>1, SlotSteps
  <2>4. Written(d, c, i, e)
    BY <2>2, <2>3 DEF Written
  <2> QED  BY <2>4
<1>4. CASE /\ i + 1 = at[2] /\ at = <<c, i + 1>> /\ dir[c][i].kind = "long"
           /\ pc' = pc /\ call' = call /\ first' = first
           /\ old' = old /\ at' = at /\ stored' = stored /\ past' = past
  <2>1. OldFreed' <=> OldFreed
    BY <1>4 DEF OldFreed
  <2>2. DropLong(c, i, e)
    BY <1>1, <1>2, <1>4 DEF DropLong
  <2>3. OldFreed /\ call.hit => at = <<c, i>> \/ (OldFreed' /\ call'.hit /\ at' = at)
    BY <1>1, <1>4, <2>1
  <2>4. pc' \in {"none", "slots", "erase"} /\ pc' # "none"
    BY <1>1, <1>4
  <2>5. SlotStep(d, c, i, e)
    BY <1>0, <1>1, <1>2, <1>4, <2>3, <2>4, SlotSteps
  <2>6. Written(d, c, i, e)
    BY <2>2, <2>5 DEF Written
  <2> QED  BY <2>6
<1> QED  BY <1>2, <1>3, <1>4

(* A name a call begins with is what it found. *)
LEMMA BeginNames ==
    ASSUME TInv, TInv', HitInv, NEW own, Owned(own), Shape, Shape', Named83,
           NEW op, NEW d, NEW n, NEW len, NEW j, Starts(op, d, n, len, j)
    PROVE  Quiet /\ Named83'
<1>1. /\ op \in {"write", "mkdir", "delete"} /\ d \in Parents /\ n \in Names /\ len \in Nat
      /\ j \in Nat /\ (j # 0 => j \in 1 .. Len(Entries(d)) /\ IsEntry(Entries(d)[j]))
      /\ Begin(op, d, n, len, j)
  BY DEF Starts
<1>2. Quiet
  BY <1>1, BeginQuiet
<1>3. LongInv' /\ UniqueInv'
  BY <1>2, QuietNames
<1>4. /\ fat' = fat /\ dir' = dir /\ call'.dir = d /\ call'.name = n
      /\ (call'.hit <=> j # 0)
      /\ (old' # 0 => pc' = "free") /\ (old' = 0 /\ op = "delete" => pc' = "erase")
      /\ (old' = 0 /\ op # "delete" => pc' = IF len > 0 THEN "alloc" ELSE "entry")
      /\ d \in Link
  BY <1>1, BeginIs
<1>5. j # 0 => At(at') = Entries(d)[j]
  BY <1>1, BeginIs
<1>6. FatType /\ DirType /\ LongInv
  BY TInvFat DEF TInv, DiskInv, Named83
<1>7. ASSUME j # 0 PROVE Entries(d)[j].name = Short[n]
  <2>1. CASE op = "write"
    BY <1>4, <1>6, <1>7, <2>1, Found DEF Starts
  <2>2. CASE op = "delete"
    <3>1. \/ n \in LongName(Entries(d), j)
          \/ Entries(d)[j].name = Short[n]
      BY <1>4, <1>6, <1>7, <2>2, Found DEF Starts
    <3> QED  BY <1>1, <1>4, <1>6, <1>7, <3>1, LongNameFits
  <2> QED  BY <1>1, <1>7, <2>1, <2>2 DEF Starts
<1>8. ASSUME j = 0, NEW p, Holds(d, p) PROVE At(p).name # Short[n]
  <2>1. CASE op = "write"
    BY <1>4, <1>8, <2>1, WriteFindsIt DEF Starts
  <2>2. CASE op = "mkdir"
    BY <1>4, <1>8, <2>2, WriteFindsIt DEF Starts
  <2> QED  BY <1>1, <1>8, <2>1, <2>2 DEF Starts
<1>9. ASSUME j # 0 PROVE At(at)'.name = Short[n]
  <2>1. At(at)' = Entries(d)[j]
    BY <1>4, <1>5, <1>9 DEF At
  <2> QED  BY <1>7, <1>9, <2>1
<1>10. ASSUME j = 0, NEW p, Holds(call.dir, p)' PROVE At(p)'.name # Short[n]
  <2>1. Of(d)' = Of(d)
    BY <1>4, SameChain DEF Of
  <2>2. Holds(d, p) /\ At(p)' = At(p)
    BY <1>4, <1>10, <2>1 DEF Holds, At, Of
  <2> QED  BY <1>8, <1>10, <2>2
<1>11. pc' # "slots"
  BY <1>4
<1>12. NameInv'
  BY <1>4, <1>9, <1>10, <1>11 DEF NameInv
<1> QED  BY <1>2, <1>3, <1>12 DEF Named83

(* What one written entry changes: the directories, and what they hold. *)
LEMMA WrittenListing ==
    ASSUME TInv, HitInv, NEW own, Owned(own), Shape,
           NEW d, NEW c, NEW i, NEW e, SlotStep(d, c, i, e)
    PROVE  /\ \A x : Directory(x) /\ c \in Of(x) => x = d
           /\ \A x : Directory(x)' => Directory(x) \/ (e.kind = "dir" /\ x = e.first)
           /\ \A x, p : Holds(x, p)' <=> \/ Holds(x, p) /\ p # <<c, i>>
                                         \/ p = <<c, i>> /\ c \in Of(x) /\ IsEntry(e)
<1>1. /\ Directory(d) /\ c \in Of(d) /\ <<c, i>> \in Places /\ c \in Cluster
      /\ \A p \in Places : At(p)' = IF p = <<c, i>> THEN e ELSE At(p)
      /\ \A x : Chain(x)' = Chain(x) /\ Of(x)' = Of(x)
      /\ \A p \in Places : Whole(p)' => p = <<c, i>> \/ Whole(p)
  BY DEF SlotStep
<1>2. ASSUME NEW x, Directory(x), c \in Of(x) PROVE x = d
  <2>1. Rooted(x) /\ Rooted(d)
    BY <1>1, <1>2, DirectoryRooted
  <2> QED  BY <1>1, <1>2, <2>1, RootedApart
<1>3. ASSUME NEW x, Directory(x)' PROVE Directory(x) \/ (e.kind = "dir" /\ x = e.first)
  <2>1. CASE x = Root
    BY <2>1 DEF Directory
  <2>2. CASE x # Root
    <3>1. PICK p \in Places : DirAt(p)' /\ FirstOf(p)' = x
      BY <1>3, <2>2 DEF Directory
    <3>2. CASE p = <<c, i>>
      BY <1>1, <3>1, <3>2 DEF DirAt, FirstOf, At
    <3>3. CASE p # <<c, i>>
      <4>1. At(p)' = At(p) /\ FirstOf(p) = x /\ Whole(p) /\ Of(Root)' = Of(Root)
        BY <1>1, <3>1, <3>3 DEF DirAt, FirstOf, At
      <4>2. DirAt(p)
        BY <3>1, <4>1 DEF DirAt
      <4> QED  BY <4>1, <4>2 DEF Directory
    <3> QED  BY <3>2, <3>3
  <2> QED  BY <2>1, <2>2
<1>4. ASSUME NEW x, NEW p
      PROVE  Holds(x, p)' <=> \/ Holds(x, p) /\ p # <<c, i>>
                              \/ p = <<c, i>> /\ c \in Of(x) /\ IsEntry(e)
  <2>1. CASE p = <<c, i>>
    <3>1. p \in Places /\ p[1] = c /\ At(p)' = e /\ Of(x)' = Of(x)
      BY <1>1, <2>1
    <3> QED  BY <2>1, <3>1 DEF Holds
  <2>2. CASE p # <<c, i>>
    BY <1>1, <2>2 DEF Holds
  <2> QED  BY <2>1, <2>2
<1> QED  BY <1>2, <1>3, <1>4

(* A directory that is being made holds nothing. *)
LEMMA NewDirectory ==
    ASSUME TInv, Shape, call.op = "mkdir", pc = "slots"
    PROVE  first \in Cluster /\ Of(first) = {first} /\ \A p : ~Holds(first, p)
<1>1. first \in Cluster /\ fat[first] = EOF /\ dir[first] = NewDir
  BY DEF TInv, CallInv, LocalInv, Link, Shape, MkdirInv, Busy
<1>2. FatType /\ fat[first] \notin Cluster
  BY <1>1, TInvFat, SizesOK DEF Cluster, EOF
<1>3. Chain(first) = <<first>>
  BY <1>1, <1>2, ChainSingle DEF Singles
<1>4. Of(first) = {first}
  BY <1>3 DEF Of, Range
<1>5. ASSUME NEW p, Holds(first, p) PROVE FALSE
  <2>1. p[1] = first /\ p[2] \in 1 .. Slots /\ IsEntry(At(p))
    BY <1>4, <1>5 DEF Holds, Places
  <2> QED  BY <1>1, <2>1, NewDirIs DEF At
<1> QED  BY <1>1, <1>4, <1>5

(* No other entry of the directory has the name of the one that is written. *)
LEMMA PutApart ==
    ASSUME TInv, Shape, Named83, NEW d, NEW c, NEW i, NEW e, SlotStep(d, c, i, e),
           Put(d, c, i, e) \/ Drop(d, c, i, e), NEW p, Holds(d, p), p # <<c, i>>
    PROVE  At(p).name # Short[call.name]
<1>1. d = call.dir /\ pc \in Busy /\ Directory(d)
  BY DEF SlotStep
<1>2. CASE ~call.hit
  BY <1>1, <1>2 DEF Named83, NameInv
<1>3. CASE call.hit
  <2>1. at = <<c, i>>
    BY <1>3 DEF Put, Drop
  <2>2. Holds(d, at) /\ At(at).name = Short[call.name]
    BY <1>1, <1>3 DEF Shape, CallPlace, Named83, NameInv
  <2> QED  BY <1>1, <2>1, <2>2 DEF Named83, UniqueInv
<1>4. call.hit \/ ~call.hit
  OBVIOUS
<1> QED  BY <1>2, <1>3, <1>4

LEMMA WrittenUnique ==
    ASSUME TInv, TInv', HitInv, NEW own, Owned(own), Shape, Named83,
           NEW d, NEW c, NEW i, NEW e, Written(d, c, i, e)
    PROVE  UniqueInv'
<1> SUFFICES ASSUME NEW x, Directory(x)', NEW p, NEW q, Holds(x, p)', Holds(x, q)',
                    At(p)'.name = At(q)'.name, p # q
             PROVE  FALSE
  BY DEF UniqueInv
<1>1. SlotStep(d, c, i, e)
  BY DEF Written
<1>2. /\ \A y : Directory(y) /\ c \in Of(y) => y = d
      /\ Directory(x) \/ (e.kind = "dir" /\ x = e.first)
      /\ \A r : Holds(x, r)' <=> \/ Holds(x, r) /\ r # <<c, i>>
                                 \/ r = <<c, i>> /\ c \in Of(x) /\ IsEntry(e)
  BY <1>1, WrittenListing
<1>3. p \in Places /\ q \in Places
  BY DEF Holds
<1>4. \A r \in Places : At(r)' = IF r = <<c, i>> THEN e ELSE At(r)
  BY <1>1 DEF SlotStep
<1>5. CASE ~Directory(x)
  <2>1. e.kind = "dir" /\ x = e.first
    BY <1>2, <1>5
  <2>2. e # Erased /\ \A n : e # LongEntry(n)
    BY <2>1 DEF Erased, LongEntry
  <2>3. Put(d, c, i, e)
    BY <2>2 DEF Written, PutLong, Drop, DropLong
  <2>4. call.op = "mkdir" /\ pc = "slots" /\ x = first /\ c \notin Of(first)
    BY <1>1, <2>1, <2>3 DEF Put, SlotStep
  <2>5. ~Holds(x, p)
    BY <2>4, NewDirectory
  <2> QED  BY <1>2, <2>4, <2>5
<1>6. CASE Directory(x) /\ p # <<c, i>> /\ q # <<c, i>>
  <2>1. Holds(x, p) /\ Holds(x, q) /\ At(p)' = At(p) /\ At(q)' = At(q)
    BY <1>2, <1>3, <1>4, <1>6
  <2> QED  BY <1>6, <2>1 DEF Named83, UniqueInv
<1>7. ASSUME NEW r, Holds(x, r)', r # <<c, i>>, Directory(x), Holds(x, <<c, i>>)'
      PROVE  At(r)'.name # e.name
  <2>1. IsEntry(e) /\ c \in Of(x)
    BY <1>2, <1>7
  <2>2. e # Erased /\ \A n : e # LongEntry(n)
    BY <2>1 DEF Erased, LongEntry, IsEntry
  <2>3. Put(d, c, i, e)
    BY <2>2 DEF Written, PutLong, Drop, DropLong
  <2>4. x = d /\ Holds(d, r)
    BY <1>2, <1>7, <2>1
  <2>5. At(r).name # Short[call.name] /\ e.name = Short[call.name]
    BY <1>1, <1>7, <2>3, <2>4, PutApart DEF Put
  <2>6. At(r)' = At(r)
    BY <1>4, <1>7 DEF Holds
  <2> QED  BY <2>5, <2>6
<1>8. CASE Directory(x) /\ p = <<c, i>>
  <2>1. At(q)'.name # e.name
    BY <1>7, <1>8
  <2>2. At(p)' = e
    BY <1>3, <1>4, <1>8
  <2> QED  BY <2>1, <2>2
<1>9. CASE Directory(x) /\ q = <<c, i>>
  <2>1. At(p)'.name # e.name
    BY <1>7, <1>9
  <2>2. At(q)' = e
    BY <1>3, <1>4, <1>9
  <2> QED  BY <2>1, <2>2
<1> QED  BY <1>5, <1>6, <1>8, <1>9

LEMMA WrittenLong ==
    ASSUME TInv, Shape, Named83, NEW d, NEW c, NEW i, NEW e, Written(d, c, i, e)
    PROVE  LongInv'
<1> SUFFICES ASSUME NEW x \in Cluster, NEW m \in 1 .. Slots, dir'[x][m].kind = "long"
             PROVE  \/ IsEntry(dir'[x][m + 1]) /\ dir'[x][m + 1].name = Short[dir'[x][m].name]
                    \/ pc' = "slots" /\ k' = 2 /\ at' = <<x, m>>
  BY DEF LongInv
<1>1. /\ d = call.dir /\ c \in Cluster /\ i \in 1 .. Slots /\ pc \in Busy
      /\ \A b \in Cluster : b # c => dir'[b] = dir[b]
      /\ \A j \in 1 .. Slots : dir'[c][j] = IF j = i THEN e ELSE dir[c][j]
  BY DEF Written, SlotStep
<1>2. RoomPlace /\ LongInv /\ NameInv /\ Slots \in Nat
  BY SizesOK DEF Shape, Named83
<1>3. CASE x # c
  <2>1. dir'[x] = dir[x]
    BY <1>1, <1>3
  <2>2. \/ IsEntry(dir[x][m + 1]) /\ dir[x][m + 1].name = Short[dir[x][m].name]
        \/ pc = "slots" /\ k = 2 /\ at = <<x, m>>
    BY <1>2, <2>1 DEF LongInv
  <2>3. ~(pc = "slots" /\ k = 2 /\ at = <<x, m>>)
    BY <1>3 DEF Written, Put, PutLong, Drop, DropLong
  <2> QED  BY <2>1, <2>2, <2>3
<1>4. CASE x = c /\ m = i
  <2>1. e.kind = "long"
    BY <1>1, <1>4
  <2>2. ~IsEntry(e) /\ e # Erased
    BY <2>1 DEF IsEntry, Erased
  <2>3. PutLong(c, i, e)
    BY <2>2 DEF Written, Put, Drop, DropLong
  <2>4. at = <<at[1], at[2]>>
    BY DEF TInv, LocalInv
  <2> QED  BY <1>4, <2>3, <2>4 DEF PutLong
<1>5. CASE x = c /\ m # i
  <2>1. dir'[c][m] = dir[c][m]
    BY <1>1, <1>5
  <2>2. /\ m < Slots
        /\ IsEntry(dir[c][m + 1]) => dir[c][m + 1].name = Short[dir[c][m].name]
        /\ \/ IsEntry(dir[c][m + 1])
           \/ pc = "slots" /\ k = 2 /\ at = <<c, m>> /\ dir[c][m + 1] \in {End, Erased}
    BY <1>1, <1>2, <1>5, <2>1, LongNamed
  <2>3. m + 1 \in 1 .. Slots
    BY <1>2, <2>2
  <2>4. \A y : y \in {End, Erased} \/ y.kind = "long" => ~IsEntry(y)
    BY DEF IsEntry, End, Erased
  <2>5. CASE m + 1 # i
    <3>1. ~(pc = "slots" /\ k = 2 /\ at = <<c, m>>)
      BY <2>5 DEF Written, Put, PutLong, Drop, DropLong
    <3>2. dir'[c][m + 1] = dir[c][m + 1]
      BY <1>1, <2>3, <2>5
    <3> QED  BY <1>5, <2>1, <2>2, <3>1, <3>2
  <2>6. CASE m + 1 = i
    <3>1. dir'[c][m + 1] = e
      BY <1>1, <2>6
    <3>2. CASE Put(d, c, i, e) /\ call.hit
      <4>1. pc = "entry" /\ at = <<c, i>>
        BY <3>2 DEF Put
      <4>2. At(at) = dir[c][m + 1] /\ At(at).name = Short[call.name]
        BY <1>1, <1>2, <2>6, <3>2, <4>1 DEF NameInv, At
      <4>3. Short[call.name] = Short[dir[c][m].name]
        BY <2>2, <4>1, <4>2
      <4>4. IsEntry(e) /\ e.name = Short[call.name]
        BY <3>2 DEF Put
      <4> QED  BY <1>5, <2>1, <3>1, <4>3, <4>4
    <3>3. CASE Put(d, c, i, e) /\ ~call.hit
      <4>1. dir[c][m + 1] \in {End, Erased}
        BY <2>6, <3>3 DEF Put
      <4>2. pc = "slots" /\ k = 2 /\ at = <<c, m>>
        BY <2>2, <2>4, <4>1
      <4>3. At(at) = LongEntry(call.name) /\ At(at) = dir[c][m]
        BY <1>1, <1>2, <4>2 DEF NameInv, At
      <4>4. dir[c][m].name = call.name
        BY <4>3 DEF LongEntry
      <4>5. IsEntry(e) /\ e.name = Short[call.name]
        BY <3>3 DEF Put
      <4> QED  BY <1>5, <2>1, <3>1, <4>4, <4>5
    <3>4. ~PutLong(c, i, e)
      <4>1. PutLong(c, i, e) => dir[c][m + 1] \in {End, Erased} /\ k = 1
        BY <2>6 DEF PutLong
      <4> QED  BY <2>2, <2>4, <4>1
    <3>5. ~Drop(d, c, i, e)
      <4>1. i - 1 = m /\ i > 1
        BY <2>6
      <4> QED  BY <1>5, <2>1, <4>1 DEF Drop
    <3>6. ~DropLong(c, i, e)
      <4>1. DropLong(c, i, e) => dir[c][m + 1].kind = "long" /\ pc = "erase"
        BY <2>6 DEF DropLong
      <4> QED  BY <2>2, <2>4, <4>1
    <3> QED  BY <3>2, <3>3, <3>4, <3>5, <3>6 DEF Written
  <2> QED  BY <2>5, <2>6
<1> QED  BY <1>3, <1>4, <1>5

LEMMA WrittenNames ==
    ASSUME TInv, TInv', HitInv, NEW own, Owned(own), Shape, Named83,
           NEW d, NEW c, NEW i, NEW e, Written(d, c, i, e)
    PROVE  Named83'
<1>1. SlotStep(d, c, i, e)
  BY DEF Written
<1>2. /\ d = call.dir /\ pc \in Busy /\ <<c, i>> \in Places /\ Directory(d)
      /\ \A p \in Places : At(p)' = IF p = <<c, i>> THEN e ELSE At(p)
  BY <1>1 DEF SlotStep
<1>3. CASE Put(d, c, i, e) \/ Drop(d, c, i, e)
  <2>1. pc' \notin Busy
    BY <1>3 DEF Put, Drop, Ended, Busy
  <2>2. NameInv'
    BY <2>1 DEF NameInv
  <2> QED  BY <2>2, WrittenLong, WrittenUnique DEF Named83
<1>4. CASE PutLong(c, i, e)
  <2>1. /\ call' = call /\ ~call.hit /\ at' = at /\ at = <<c, i>> /\ e = LongEntry(call.name)
        /\ ~IsEntry(e)
    <3>1. at = <<at[1], at[2]>>
      BY DEF TInv, LocalInv
    <3> QED  BY <1>4, <3>1 DEF PutLong, LongEntry, IsEntry
  <2>2. At(at)' = LongEntry(call.name)
    <3>1. At(<<c, i>>)' = LongEntry(call.name)
      BY <1>2, <2>1
    <3> QED  BY <2>1, <3>1 DEF At
  <2>3. ASSUME NEW p, Holds(call.dir, p)' PROVE At(p)'.name # Short[call.name]
    <3>1. Holds(d, p)'
      BY <1>2, <2>1, <2>3 DEF Holds
    <3>2. Holds(d, p) /\ p # <<c, i>> /\ p \in Places
      BY <1>1, <2>1, <3>1, WrittenListing DEF Holds
    <3>3. At(p)' = At(p)
      BY <1>2, <3>2
    <3> QED  BY <1>2, <2>1, <3>2, <3>3 DEF Named83, NameInv
  <2>4. NameInv'
    BY <2>1, <2>2, <2>3 DEF NameInv
  <2> QED  BY <2>4, WrittenLong, WrittenUnique DEF Named83
<1>5. CASE DropLong(c, i, e)
  <2>1. call' = call /\ call.hit /\ at' = at /\ at = <<c, i + 1>> /\ pc' = "erase"
    BY <1>5 DEF DropLong
  <2>2. PICK p : p = at
    OBVIOUS
  <2>3. Holds(call.dir, p) /\ At(p).name = Short[call.name]
    BY <1>2, <2>1, <2>2 DEF Shape, CallPlace, Named83, NameInv
  <2>4. p \in Places /\ p # <<c, i>>
    <3>1. i \in Nat
      BY <1>1, SizesOK DEF SlotStep
    <3> QED  BY <2>1, <2>2, <2>3, <3>1 DEF Holds
  <2>5. At(p)' = At(p) /\ At(at)' = At(p)'
    BY <1>2, <2>1, <2>2, <2>4 DEF At
  <2>6. NameInv'
    BY <2>1, <2>3, <2>5 DEF NameInv
  <2> QED  BY <2>6, WrittenLong, WrittenUnique DEF Named83
<1> QED  BY <1>3, <1>4, <1>5 DEF Written

(* Every step is quiet, begins a call, or writes an entry. *)
StepKind == \/ Quiet /\ Goes
            \/ \E op, d, n, len, j : Starts(op, d, n, len, j)
            \/ \E d, c, i, e : Written(d, c, i, e)

LEMMA NextKind ==
    ASSUME IInv, ShapeInv, [Next]_vars, Clean'
    PROVE  StepKind
<1>1. TInv /\ TInv' /\ HitInv /\ Sound /\ Shape /\ Shape'
  BY NextShape DEF IInv
<1>2. PICK own : Owned(own)
  BY <1>1 DEF IInv, OwnInv
<1>3. ASSUME NEW bad \in BOOLEAN, Write(bad) PROVE StepKind
  <2>1. CASE FreeChainStep(bad)
    BY <1>1, <1>2, <2>1, FreeQuiet DEF StepKind
  <2>2. CASE Allocate(bad)
    BY <1>1, <1>2, <2>2, AllocateQuiet DEF StepKind
  <2>3. CASE LinkCluster(bad)
    BY <1>1, <1>2, <2>3, LinkQuiet DEF StepKind
  <2>4. CASE WriteCluster(bad)
    BY <1>1, <1>2, <2>4, WriteClusterQuiet DEF StepKind
  <2>5. CASE UpdateEntry(bad)
    BY <1>1, <1>2, <2>5, UpdateWritten DEF StepKind
  <2>6. CASE Expand(bad)
    BY <1>1, <1>2, <2>6, ExpandQuiet DEF StepKind
  <2>7. CASE LinkTail(bad)
    BY <1>1, <1>2, <2>7, LinkTailQuiet DEF StepKind
  <2>8. CASE ZeroTail(bad)
    BY <1>1, <1>2, <2>8, ZeroTailQuiet DEF StepKind
  <2>9. CASE WriteSlot(bad)
    BY <1>1, <1>2, <2>9, WriteSlotWritten DEF StepKind
  <2>10. CASE EraseEntry(bad)
    BY <1>1, <1>2, <2>10, EraseWritten DEF StepKind
  <2> QED  BY <1>3, <2>1, <2>2, <2>3, <2>4, <2>5, <2>6, <2>7, <2>8, <2>9, <2>10 DEF Write
<1>4. FindRoom => StepKind
  BY <1>1, <1>2, FindRoomQuiet DEF StepKind
<1>5. PowerOff => StepKind
  BY <1>1, <1>2, PowerOffQuiet DEF StepKind
<1>6. UNCHANGED vars => StepKind
  BY <1>1, <1>2, StutterQuiet DEF StepKind
<1>7. (\/ \E d \in Parents, n \in Names, len \in Lengths : WriteFile(d, n, len)
       \/ \E n \in Names : CreateDirectory(n)
       \/ \E d \in Parents, n \in Names : DeleteFile(d, n)) => StepKind
  BY <1>1, StartsOnce DEF StepKind
<1> QED  BY <1>1, <1>3, <1>4, <1>5, <1>6, <1>7, NextSteps

NamesInv == Clean => Named83

LEMMA InitNames == Init => NamesInv
<1> SUFFICES ASSUME Init PROVE Named83
  BY DEF NamesInv
<1>1. \A p \in Places : ~IsEntry(At(p)) /\ At(p).kind # "long"
  BY SizesOK DEF Init, At, Places, Idle, Junk, End, Dots, IsEntry
<1>2. \A c \in Cluster, i \in 1 .. Slots : dir[c][i].kind # "long"
  BY SizesOK DEF Init, Idle, Junk, End, Dots
<1>3. pc \notin Busy
  BY DEF Init, Busy
<1> QED  BY <1>1, <1>2, <1>3 DEF Named83, LongInv, NameInv, UniqueInv, Holds

LEMMA NextNames ==
    ASSUME IInv, ShapeInv, NamesInv, [Next]_vars, Clean'
    PROVE  Named83 /\ Named83'
<1>1. TInv /\ TInv' /\ HitInv /\ Clean /\ Sound /\ Shape /\ Shape' /\ Named83
  BY NextShape DEF IInv, NamesInv
<1>2. PICK own : Owned(own)
  BY <1>1 DEF IInv, OwnInv
<1>3. CASE Quiet /\ Goes
  BY <1>1, <1>3, QuietNames DEF Named83
<1>4. ASSUME NEW op, NEW d, NEW n, NEW len, NEW j, Starts(op, d, n, len, j)
      PROVE  Named83'
  BY <1>1, <1>2, <1>4, BeginNames
<1>5. ASSUME NEW d, NEW c, NEW i, NEW e, Written(d, c, i, e) PROVE Named83'
  BY <1>1, <1>2, <1>5, WrittenNames
<1> QED  BY <1>1, <1>3, <1>4, <1>5, NextKind DEF StepKind

LEMMA NamesAlways == Spec => [](IInv /\ ShapeInv /\ NamesInv)
<1>1. Init => IInv /\ ShapeInv /\ NamesInv
  BY InitOwned, InitShape, InitNames DEF IInv, ShapeInv
<1>2. IInv /\ ShapeInv /\ NamesInv /\ [Next]_vars => (IInv /\ ShapeInv /\ NamesInv)'
  BY NextOwned, NextShape, NextNames DEF ShapeInv, NamesInv
<1> QED  BY <1>1, <1>2, PTL DEF Spec

(* The first cluster of what is deleted stays free until its entry is erased. *)
GoneInv == Clean /\ pc \in Busy /\ call.op = "delete" /\ OldFreed => fat[call.chain] = 0

LEMMA NextGone ==
    ASSUME IInv, ShapeInv, GoneInv, [Next]_vars
    PROVE  GoneInv'
<1> SUFFICES ASSUME Clean', pc' \in Busy, call'.op = "delete", OldFreed'
             PROVE  fat'[call'.chain] = 0
  BY DEF GoneInv
<1>1. TInv /\ TInv' /\ HitInv /\ Clean /\ Sound /\ Shape /\ Shape'
  BY NextShape DEF IInv
<1>2. PICK own : Owned(own)
  BY <1>1 DEF IInv, OwnInv
<1>3. ASSUME NEW op, NEW d, NEW n, NEW len, NEW j, Starts(op, d, n, len, j) PROVE FALSE
  <2>1. ~OldFreed'
    BY <1>1, <1>2, <1>3, BeginIs DEF Starts
  <2> QED  BY <2>1
<1>4. CASE UNCHANGED vars
  <2>1. pc' = pc /\ call' = call /\ fat' = fat /\ old' = old
    BY <1>4 DEF vars, disk, locals
  <2>2. OldFreed
    BY <2>1 DEF OldFreed
  <2> QED  BY <1>1, <2>1, <2>2 DEF GoneInv
<1>5. CASE FindRoom \/ PowerOff
  <2>1. FindRoom => pc = "entry" /\ call' = call
    BY DEF FindRoom
  <2>2. PowerOff => pc' = "none"
    BY DEF PowerOff, Finish
  <2> QED  BY <1>1, <1>5, <2>1, <2>2 DEF TInv, CallInv, Busy
<1>6. ASSUME NEW bad \in BOOLEAN, Write(bad) PROVE fat'[call'.chain] = 0
  <2>1. CASE FreeChainStep(bad)
    <3>1. /\ pc \in {"free", "undo"} /\ old \in Cluster /\ fat' = [fat EXCEPT ![old] = 0]
          /\ old' # 0 => pc' = pc
          /\ old' = 0 /\ pc = "undo" => pc' = "none"
          /\ pc' = "none" \/ call' = call
      BY <1>1, <2>1, FreeIs
    <3>2. pc = "free" /\ call' = call
      BY <3>1 DEF Busy
    <3>3. call.chain # 0 /\ call.chain \in Cluster /\ fat \in [Cluster -> {0, EOF} \cup Cluster]
      BY <1>1, <3>2 DEF TInv, CallInv, LocalInv, CallSet, Link, DiskInv, Busy
    <3>4. CASE OldFreed
      <4>1. fat[call.chain] = 0
        BY <1>1, <3>2, <3>4 DEF GoneInv, Busy
      <4> QED  BY <3>1, <3>2, <3>3, <4>1
    <3>5. CASE ~OldFreed
      BY <3>1, <3>2, <3>3, <3>5 DEF OldFreed
    <3> QED  BY <3>4, <3>5
  <2>2. CASE EraseEntry(bad)
    <3>1. PICK d, c, i, e : Written(d, c, i, e)
      BY <1>1, <1>2, <2>2, EraseWritten
    <3>2. fat' = fat /\ pc \in Busy /\ pc = "erase"
      BY <2>2, <3>1 DEF Written, SlotStep, EraseEntry
    <3>3. pc' = pc /\ call' = call /\ old' = old
      BY <3>1, <3>2 DEF Written, Put, PutLong, Drop, DropLong, Ended, Busy
    <3>4. OldFreed
      BY <3>3 DEF OldFreed
    <3> QED  BY <1>1, <3>2, <3>3, <3>4 DEF GoneInv
  <2>3. CASE ~FreeChainStep(bad) /\ ~EraseEntry(bad)
    <3>1. pc \in Busy \ {"free", "erase"}
      BY <1>6, <2>3 DEF Write, Allocate, LinkCluster, WriteCluster, UpdateEntry, Expand,
                        LinkTail, ZeroTail, WriteSlot, Busy
    <3>2. call.op # "delete"
      BY <1>1, <3>1 DEF TInv, CallInv
    <3>3. StepKind
      BY <1>1, NextKind
    <3>4. ASSUME NEW d, NEW c, NEW i, NEW e, Written(d, c, i, e) PROVE FALSE
      <4>1. call' = call \/ pc' = "none"
        BY <3>4 DEF Written, Put, PutLong, Drop, DropLong, Ended
      <4> QED  BY <3>2, <4>1 DEF Busy
    <3>5. Goes => FALSE
      BY <3>2 DEF Goes
    <3> QED  BY <1>3, <3>3, <3>4, <3>5 DEF StepKind
  <2> QED  BY <2>1, <2>2, <2>3
<1> QED  BY <1>1, <1>3, <1>4, <1>5, <1>6, StartsOnce, NextSteps

(* A directory of Parents that is none any more is being deleted, and its first cluster is
   blank. *)
LEMMA ParentGone ==
    ASSUME TInv, HitInv, Shape, GoneInv, Clean, NEW d \in Parents, ~Directory(d)
    PROVE  /\ d = call.chain /\ pc \in Busy
           /\ \A j \in 1 .. Len(Entries(d)) : ~IsEntry(Entries(d)[j])
<1>1. OldFreed /\ d = call.chain /\ call.hit
  BY ParentsDirectories
<1>2. pc \in Busy
  BY <1>1 DEF TInv, LocalInv, NoCall
<1>3. FatType /\ DirType /\ d \in Cluster /\ d \in Link /\ Root \in Link /\ d # Root
  BY TInvFat, ParentsAre, SizesOK DEF TInv, DiskInv, Link, Directory
<1>4. PICK x \in Range(Entries(Root)) : x.kind = "dir" /\ x.first = d
  BY <1>3 DEF Parents
<1>5. PICK j \in 1 .. Len(Entries(Root)) : Entries(Root)[j] = x
  BY <1>3, EntriesAre DEF Range
<1>6. PICK p : p = Place(Root, j)
  OBVIOUS
<1>7. Holds(Root, p) /\ At(p) = x
  BY <1>3, <1>4, <1>5, <1>6, ListedHeld DEF IsEntry
<1>8. p = at
  <2> SUFFICES ASSUME p # at PROVE FALSE
    OBVIOUS
  <2>1. Whole(p)
    BY <1>7 DEF Whole, Holds
  <2>2. DirAt(p) /\ FirstOf(p) = d /\ p \in Places
    BY <1>4, <1>7, <2>1 DEF DirAt, Holds, FirstOf, At
  <2> QED  BY <2>2 DEF Directory
<1>9. call.op = "delete"
  BY <1>1, <1>2, <1>4, <1>7, <1>8 DEF Shape, CallPlace, TInv, CallInv, LocalInv, CallSet
<1>10. fat[d] = 0
  BY <1>1, <1>2, <1>9 DEF GoneInv
<1>11. dir[d] = Junk /\ Of(d) = {d}
  <2>1. dir[d] = Junk
    BY <1>3, <1>10 DEF Shape, BlankInv
  <2>2. fat[d] \notin Cluster
    BY <1>10, SizesOK
  <2>3. Chain(d) = <<d>>
    BY <1>3, <2>2, ChainSingle DEF Singles
  <2> QED  BY <2>1, <2>3 DEF Of, Range
<1>12. ASSUME NEW i \in 1 .. Len(Entries(d)), IsEntry(Entries(d)[i]) PROVE FALSE
  <2>1. Holds(d, Place(d, i)) /\ At(Place(d, i)) = Entries(d)[i]
    BY <1>3, <1>12, ListedHeld
  <2>2. PICK q : q = Place(d, i)
    OBVIOUS
  <2>3. q[1] = d /\ q[2] \in 1 .. Slots /\ IsEntry(At(q))
    BY <1>11, <2>1, <2>2 DEF Holds, Places
  <2> QED  BY <1>11, <2>3, NewDirIs DEF At
<1> QED  BY <1>1, <1>2, <1>12

NamesIInv == IInv /\ ShapeInv /\ NamesInv /\ GoneInv

LEMMA NamesIInvAlways == Spec => []NamesIInv
<1>1. Init => GoneInv
  BY DEF Init, GoneInv, Busy
<1>2. IInv /\ ShapeInv /\ GoneInv /\ [Next]_vars => GoneInv'
  BY NextGone
<1>3. Spec => [](IInv /\ ShapeInv /\ GoneInv)
  <2>1. Spec => []IInv /\ []ShapeInv
    BY ShapeAlways, PTL
  <2> QED  BY <1>1, <1>2, <2>1, PTL DEF Spec
<1> QED  BY <1>3, NamesAlways, PTL DEF NamesIInv

LEMMA NamesImplied == NamesIInv => NamesUnique
<1> SUFFICES ASSUME NamesIInv, Clean, NEW d \in Parents,
                    NEW i \in 1 .. Len(Entries(d)), NEW j \in 1 .. Len(Entries(d)), i # j,
                    IsEntry(Entries(d)[i]), IsEntry(Entries(d)[j]),
                    Entries(d)[i].name = Entries(d)[j].name
             PROVE  FALSE
  BY DEF NamesUnique, Clean
<1>1. TInv /\ HitInv /\ Shape /\ Named83 /\ GoneInv /\ FatType /\ DirType
  BY TInvFat DEF NamesIInv, IInv, ShapeInv, NamesInv, TInv, DiskInv
<1>2. Directory(d)
  BY <1>1, ParentGone
<1>3. d \in Cluster /\ d \in Link /\ Ends(d)
  BY <1>1, <1>2, DirectoryRooted DEF Shape, EndsInv
<1>4. /\ Holds(d, Place(d, i)) /\ At(Place(d, i)) = Entries(d)[i]
      /\ Holds(d, Place(d, j)) /\ At(Place(d, j)) = Entries(d)[j]
  BY <1>1, <1>3, ListedHeld
<1>5. Place(d, i) = Place(d, j)
  BY <1>1, <1>2, <1>4 DEF Named83, UniqueInv
<1> QED  BY <1>1, <1>3, <1>5, PlacesApart

(* A directory never has two entries of the same 8.3 name: Fat32WriteFile, by which of the
   lookups it does, and Fat32CreateDirectory write a new entry only where there is none of its
   8.3 name, whatever the long names, and whatever calls were given up.  Only a MKDIR of a name that is
   behind the entries Fat32OpenPath looks at makes a second one, and "past" says so. *)
THEOREM Fat32NamesUnique == Spec => []NamesUnique
BY NamesIInvAlways, NamesImplied, PTL

(* What the call has written: it has counted the clusters of its chain, and the first n of
   them hold the first n parts of its file. *)
Filled(n) == /\ Len(Chain(first)) = call.size
             /\ \A i \in 1 .. n : data[Chain(first)[i]] = <<call.name, i>>

FileInv == pc \in Busy /\ call.op # "delete" =>
               /\ pc \in {"alloc", "link"} => call.size > 0 /\ (first # 0 => k < call.size)
               /\ pc = "data" => Filled(k - 1)
               /\ pc \in {"entry", "expand", "tail", "zero", "slots"} => Filled(call.size)

Nil == Chain(0) = << >>

LEMMA NilIs == FatType => Nil
BY ChainIs DEF Nil, Link

(* It is not written any more. *)
LEMMA FilledKept ==
    ASSUME TInv, FileInv, call' = call, first' = first, Chain(first)' = Chain(first),
           \A b \in Of(first) : data'[b] = data[b],
           pc \in {"entry", "expand", "tail", "zero", "slots"}, pc' \notin {"alloc", "link", "data"},
           pc # "entry" \/ call.op # "delete"
    PROVE  FileInv'
<1>1. FatType /\ first \in Link /\ pc \in Busy /\ call.size \in Nat /\ call.op # "delete"
  BY TInvFat DEF TInv, LocalInv, CallInv, CallSet, Busy
<1>2. Filled(call.size)
  BY <1>1 DEF FileInv
<1>3. \A i \in 1 .. call.size : Chain(first)[i] \in Of(first)
  BY <1>1, <1>2, OfIs DEF Filled
<1>4. \A i \in 1 .. call.size : data'[Chain(first)[i]] = <<call.name, i>>
  BY <1>2, <1>3 DEF Filled
<1>5. Filled(call.size)'
  BY <1>2, <1>4 DEF Filled
<1> QED  BY <1>5 DEF FileInv

LEMMA AllocateFile ==
    ASSUME TInv, TInv', FileInv, Shape, NEW bad, Allocate(bad), Clean'
    PROVE  FileInv'
<1>1. FatType' /\ Busy \cap {"none", "undo"} = {}
  <2>1. FatType'
    BY TInvFat, PTL
  <2> QED  BY <2>1 DEF Busy
<1>2. /\ pc = "alloc" /\ pc \in Busy
      /\ \/ Fail({})
         \/ \E c \in Cluster \ {Root} :
               /\ fat' = [fat EXCEPT ![c] = EOF] /\ call' = call
               /\ first = 0 => first' = c /\ k' = 1
                               /\ pc' = IF call.size = 1 THEN "data" ELSE "alloc"
               /\ first # 0 => pc' = "link" /\ first' = first /\ k' = k
  BY AllocateIs
<1>3. CASE Fail({})
  BY <1>1, <1>2, <1>3, FailIs DEF FileInv
<1>4. ASSUME NEW c \in Cluster,
             fat' = [fat EXCEPT ![c] = EOF], call' = call,
             first = 0 => first' = c /\ k' = 1
                          /\ pc' = IF call.size = 1 THEN "data" ELSE "alloc",
             first # 0 => pc' = "link" /\ first' = first /\ k' = k
      PROVE  FileInv'
  <2>1. CASE call.op = "delete"
    BY <1>4, <2>1 DEF FileInv
  <2>2. CASE call.op # "delete"
    <3>1. call.size > 0 /\ call.size \in Nat /\ (first # 0 => k < call.size)
      BY <1>2, <2>2 DEF FileInv, TInv, LocalInv, CallSet
    <3>2. CASE first # 0
      BY <1>4, <3>1, <3>2 DEF FileInv
    <3>3. CASE first = 0 /\ call.size # 1
      BY <1>4, <3>1, <3>3 DEF FileInv
    <3>4. CASE first = 0 /\ call.size = 1
      <4>1. fat'[c] = EOF
        BY <1>4 DEF TInv, DiskInv
      <4>2. Chain(c)' = <<c>>
        BY <1>1, <4>1, NewChain
      <4>3. first' = c
        BY <1>4, <3>4
      <4>4. Len(Chain(first)') = 1
        BY <4>2, <4>3
      <4>5. pc' = "data" /\ k' - 1 = 0
        BY <1>4, <3>4
      <4>6. Filled(k - 1)'
        BY <1>4, <3>4, <4>4, <4>5 DEF Filled
      <4> QED  BY <4>5, <4>6 DEF FileInv
    <3> QED  BY <3>2, <3>3, <3>4
  <2> QED  BY <2>1, <2>2
<1> QED  BY <1>2, <1>3, <1>4

LEMMA LinkFile ==
    ASSUME TInv, TInv', FileInv, NEW own, Owned(own), Shape, NEW bad, LinkCluster(bad), Clean'
    PROVE  FileInv'
<1>1. /\ pc = "link" /\ pc \in Busy /\ call.op = "write" /\ call' = call /\ first' = first
      /\ first # 0 /\ k \in Nat
      /\ \/ k + 1 = call.size /\ pc' = "data" /\ k' = 1
         \/ k + 1 # call.size /\ pc' = "alloc" /\ k' = k + 1
  BY LinkIs
<1>2. Len(Chain(first)') = k + 1
  BY LinkChain
<1>3. call.size > 0 /\ k < call.size /\ call.size \in Nat
  BY <1>1 DEF FileInv, TInv, LocalInv, CallSet
<1>4. CASE k + 1 = call.size /\ pc' = "data" /\ k' = 1
  <2>1. Filled(k - 1)'
    BY <1>1, <1>2, <1>4 DEF Filled
  <2> QED  BY <1>4, <2>1 DEF FileInv
<1>5. CASE k + 1 # call.size /\ pc' = "alloc" /\ k' = k + 1
  BY <1>1, <1>3, <1>5 DEF FileInv
<1> QED  BY <1>1, <1>4, <1>5

LEMMA WriteClusterFile ==
    ASSUME TInv, TInv', FileInv, NEW own, Owned(own), Shape, NEW bad, WriteCluster(bad), Clean'
    PROVE  FileInv'
<1>1. /\ pc = "data" /\ pc \in Busy /\ fat' = fat
      /\ \/ Fail({})
         \/ \E c \in Cluster :
             /\ c = Chain(first)[k] /\ first \in Cluster /\ k \in 1 .. Len(Chain(first))
             /\ data' = [data EXCEPT ![c] = <<call.name, k>>]
             /\ \/ k < Min({call.size, Len(Chain(first))}) /\ k' = k + 1 /\ pc' = "data"
                \/ ~(k < Min({call.size, Len(Chain(first))})) /\ k' = k /\ pc' = "entry"
             /\ call' = call /\ first' = first
  BY WriteClusterIs
<1>2. CASE Fail({})
  BY <1>1, <1>2, FailIs DEF FileInv, Busy
<1>3. ASSUME NEW c \in Cluster,
             c = Chain(first)[k], first \in Cluster, k \in 1 .. Len(Chain(first)),
             data' = [data EXCEPT ![c] = <<call.name, k>>],
             \/ k < Min({call.size, Len(Chain(first))}) /\ k' = k + 1 /\ pc' = "data"
             \/ ~(k < Min({call.size, Len(Chain(first))})) /\ k' = k /\ pc' = "entry",
             call' = call, first' = first, call.op # "delete"
      PROVE  FileInv'
  <2>1. FatType /\ Ends(first) /\ first \in Link
    BY <1>1, <1>3, TInvFat DEF Shape, EndsInv, Link
  <2>2. Filled(k - 1) /\ call.size \in Nat /\ Len(Chain(first)) = call.size
    BY <1>1, <1>3 DEF FileInv, Filled, TInv, LocalInv, CallSet
  <2>3. Min({call.size, Len(Chain(first))}) = call.size
    <3> DEFINE S == {call.size, Len(Chain(first))}
    <3>1. S = {call.size} /\ S \in SUBSET Nat /\ S # {}
      BY <2>2
    <3> HIDE DEF S
    <3>2. Min(S) = call.size
      BY <3>1, MinIs
    <3> QED  BY <3>2 DEF S
  <2>4. \A i \in 1 .. call.size : Chain(first)[i] \in Cluster /\ (Chain(first)[i] = c => i = k)
    <3>1. \A i \in 1 .. Len(Chain(first)) : Chain(first)[i] = Chain(first)[k] => i = k
      BY <1>3, <2>1, NoRepeats
    <3>2. Chain(first) \in Seq(Cluster)
      BY <2>1, ChainIs
    <3> QED  BY <1>3, <2>2, <3>1, <3>2
  <2>5. \A i \in 1 .. k : data'[Chain(first)[i]] = <<call.name, i>>
    <3> SUFFICES ASSUME NEW i \in 1 .. k PROVE data'[Chain(first)[i]] = <<call.name, i>>
      OBVIOUS
    <3>1. i \in 1 .. call.size /\ Chain(first)[i] \in Cluster
      BY <1>3, <2>2, <2>4
    <3>2. CASE i = k
      BY <1>3, <3>2 DEF TInv, DiskInv
    <3>3. CASE i # k
      <4>1. i \in 1 .. k - 1 /\ Chain(first)[i] # c
        BY <1>3, <2>4, <3>1, <3>3
      <4>2. data'[Chain(first)[i]] = data[Chain(first)[i]]
        BY <1>3, <3>1, <4>1 DEF TInv, DiskInv
      <4> QED  BY <2>2, <4>1, <4>2 DEF Filled
    <3> QED  BY <3>2, <3>3
  <2>6. Chain(first)' = Chain(first)
    <3>1. PICK f : f = first
      OBVIOUS
    <3>2. Chain(f)' = Chain(f)
      BY <1>1, SameChain
    <3> QED  BY <1>3, <3>1, <3>2
  <2>7. CASE k < call.size /\ k' = k + 1 /\ pc' = "data"
    <3>1. k' - 1 = k
      BY <1>3, <2>7
    <3>2. Filled(k - 1)'
      BY <1>3, <2>2, <2>5, <2>6, <3>1 DEF Filled
    <3> QED  BY <2>7, <3>2 DEF FileInv
  <2>8. CASE ~(k < call.size) /\ k' = k /\ pc' = "entry"
    <3>1. k = call.size
      BY <1>3, <2>2, <2>8
    <3>2. Filled(call.size)'
      BY <1>3, <2>2, <2>5, <2>6, <3>1 DEF Filled
    <3> QED  BY <2>8, <3>2 DEF FileInv
  <2> QED  BY <1>3, <2>3, <2>7, <2>8
<1>4. call.op # "delete"
  BY <1>1 DEF TInv, CallInv
<1> QED  BY <1>1, <1>2, <1>3, <1>4

LEMMA NextFile ==
    ASSUME IInv, ShapeInv, FileInv, [Next]_vars, Clean'
    PROVE  FileInv'
<1>1. TInv /\ TInv' /\ HitInv /\ Clean /\ Sound /\ Shape
  BY NextShape DEF IInv
<1>2. PICK own : Owned(own)
  BY <1>1 DEF IInv, OwnInv
<1>3. Busy \cap {"none", "undo"} = {}
  BY DEF Busy
<1>4. Nil /\ Nil'
  <2>1. FatType /\ FatType'
    BY <1>1, TInvFat, PTL
  <2> QED  BY <2>1, NilIs, PTL
<1>5. PICK f : f = first
  OBVIOUS
<1>6. fat' = fat => Chain(f)' = Chain(f)
  BY SameChain
<1>7. fat' = fat /\ first' = first => Chain(first)' = Chain(first)
  BY <1>5, <1>6
<1>8. ASSUME NEW op, NEW d, NEW n, NEW len, NEW j, Starts(op, d, n, len, j) PROVE FileInv'
  <2>1. /\ first' = 0 /\ call'.op = op /\ call'.size = len
        /\ (old' # 0 => pc' = "free") /\ (old' = 0 /\ op = "delete" => pc' = "erase")
        /\ (old' = 0 /\ op # "delete" => pc' = IF len > 0 THEN "alloc" ELSE "entry")
    BY <1>1, <1>2, <1>8, BeginIs DEF Starts
  <2>2. len \in Nat
    BY <1>8 DEF Starts
  <2>3. len = 0 => Filled(call.size)'
    <3>1. Chain(first)' = << >>
      BY <1>4, <2>1 DEF Nil
    <3> QED  BY <2>1, <3>1 DEF Filled
  <2> QED  BY <2>1, <2>2, <2>3 DEF FileInv
<1>9. ASSUME NEW bad \in BOOLEAN, Write(bad) PROVE FileInv'
  <2>1. CASE FreeChainStep(bad)
    <3>1. /\ first' = 0 /\ (pc = "undo" => pc' \in {"none", "undo"})
          /\ old' # 0 => pc' = pc
          /\ old' = 0 /\ pc = "free" =>
                 pc' = IF call.op = "delete" THEN "erase"
                       ELSE IF call.size > 0 THEN "alloc" ELSE "entry"
          /\ pc' = "none" \/ call' = call
          /\ pc \in {"free", "undo"}
      BY <1>1, <2>1, FreeIs
    <3>2. Chain(first)' = << >>
      BY <1>4, <3>1 DEF Nil
    <3>3. CASE pc' \in {"none", "undo"}
      BY <1>3, <3>3 DEF FileInv
    <3>4. CASE pc = "free" /\ pc' \notin {"none", "undo"} /\ call.op # "delete"
      <4>1. call.size \in Nat /\ call' = call
        BY <1>1, <3>1, <3>4 DEF TInv, LocalInv, CallSet, Busy
      <4>2. call.size = 0 => Filled(call.size)'
        BY <3>2, <4>1 DEF Filled
      <4>3. pc' = "free" \/ (pc' = IF call.size > 0 THEN "alloc" ELSE "entry")
        BY <3>1, <3>4
      <4> QED  BY <3>1, <4>1, <4>2, <4>3 DEF FileInv
    <3>5. CASE call.op = "delete"
      BY <1>3, <3>1, <3>3, <3>5 DEF FileInv
    <3> QED  BY <3>1, <3>3, <3>4, <3>5
  <2>2. CASE Allocate(bad)
    BY <1>1, <2>2, AllocateFile
  <2>3. CASE LinkCluster(bad)
    BY <1>1, <1>2, <2>3, LinkFile
  <2>4. CASE WriteCluster(bad)
    BY <1>1, <1>2, <2>4, WriteClusterFile
  <2>5. CASE UpdateEntry(bad)
    <3>1. pc' \in {"none", "undo"}
      BY <1>1, <2>5 DEF UpdateEntry, Fail, Finish
    <3> QED  BY <1>3, <3>1 DEF FileInv
  <2>6. CASE Expand(bad)
    <3>1. /\ pc = "expand" /\ pc \in Busy /\ data' = data
          /\ \/ Fail({})
             \/ \E c \in Cluster : /\ fat[c] = 0 /\ fat' = [fat EXCEPT ![c] = EOF]
                                   /\ call' = call /\ first' = first /\ pc' = "tail"
      BY <1>1, <2>6, ExpandIs
    <3>2. CASE Fail({})
      BY <1>1, <1>3, <3>1, <3>2, FailIs DEF FileInv
    <3>3. ASSUME NEW c \in Cluster, fat[c] = 0, fat' = [fat EXCEPT ![c] = EOF],
                 call' = call, first' = first, pc' = "tail"
          PROVE  FileInv'
      <4>1. \A b \in Cluster : b # c => fat'[b] = fat[b]
        BY <3>3 DEF TInv, DiskInv
      <4>2. Chain(first)' = Chain(first)
        BY <1>1, <1>2, <3>3, <4>1, FirstKept
      <4> QED  BY <1>1, <3>1, <3>3, <4>2, FilledKept
    <3> QED  BY <3>1, <3>2, <3>3
  <2>7. CASE LinkTail(bad)
    <3>1. PICK d : d = call.dir
      OBVIOUS
    <3>2. /\ pc = "tail" /\ pc' = "zero" /\ data' = data /\ call' = call /\ first' = first
      BY <1>1, <1>2, <2>7, <3>1, LinkTailIs
    <3>3. Chain(first)' = Chain(first)
      BY <1>1, <1>2, <2>7, <3>1, LinkTailChains
    <3> QED  BY <1>1, <3>2, <3>3, FilledKept
  <2>8. CASE ZeroTail(bad)
    <3>1. PICK d : d = call.dir
      OBVIOUS
    <3>2. /\ pc = "zero" /\ pc' = "slots" /\ fat' = fat /\ call' = call /\ first' = first
          /\ data' = [data EXCEPT ![old] = Nothing] /\ own[old] # New
      BY <1>1, <1>2, <2>8, <3>1, ZeroTailIs
    <3>3. \A b \in Of(first) : data'[b] = data[b]
      <4>1. \A b \in Of(first) : b \in Cluster /\ b # old
        BY <1>1, <1>2, <3>2, FirstOutside
      <4> QED  BY <3>2, <4>1 DEF TInv, DiskInv
    <3> QED  BY <1>1, <1>7, <3>2, <3>3, FilledKept
  <2>9. CASE WriteSlot(bad)
    <3>1. PICK d : d = call.dir
      OBVIOUS
    <3>2. /\ pc = "slots" /\ pc \in Busy /\ fat' = fat /\ data' = data
          /\ Fail({}) \/ Finish \/ (pc' = pc /\ call' = call /\ first' = first)
      BY <1>1, <2>9, <3>1, WriteSlotIs
    <3>3. Fail({}) \/ Finish => FileInv'
      BY <1>1, <1>3, <3>2, FailIs DEF FileInv, Finish
    <3>4. CASE pc' = pc /\ call' = call /\ first' = first
      BY <1>1, <1>7, <3>2, <3>4, FilledKept
    <3> QED  BY <3>2, <3>3, <3>4
  <2>10. CASE EraseEntry(bad)
    <3>1. pc = "erase" /\ pc \in Busy
      BY <2>10 DEF EraseEntry, Busy
    <3>2. call.op = "delete"
      BY <1>1, <3>1 DEF TInv, CallInv
    <3>3. call' = call \/ pc' \in {"none", "undo"}
      BY <2>10 DEF EraseEntry, Fail, Finish
    <3> QED  BY <1>3, <3>2, <3>3 DEF FileInv
  <2> QED  BY <1>9, <2>1, <2>2, <2>3, <2>4, <2>5, <2>6, <2>7, <2>8, <2>9, <2>10 DEF Write
<1>10. CASE FindRoom
  <2>1. /\ pc = "entry" /\ pc' \in {"expand", "slots"} /\ fat' = fat /\ data' = data
        /\ call' = call /\ first' = first /\ ~call.hit
    BY <1>10 DEF FindRoom, disk
  <2>2. call.op # "delete"
    BY <1>1, <2>1 DEF TInv, CallInv, Busy
  <2> QED  BY <1>1, <1>7, <2>1, <2>2, FilledKept
<1>11. CASE PowerOff
  BY <1>3, <1>11 DEF PowerOff, Finish, FileInv
<1>12. CASE UNCHANGED vars
  <2>1. pc' = pc /\ call' = call /\ first' = first /\ fat' = fat /\ data' = data /\ k' = k
    BY <1>12 DEF vars, disk, locals
  <2> QED  BY <1>7, <2>1 DEF FileInv, Filled
<1> QED  BY <1>1, <1>8, <1>9, <1>10, <1>11, <1>12, StartsOnce, NextSteps

(* What was stored is what is held: an entry leads to what was written last under its name,
   and nothing was stored under a name that a directory does not hold. *)
Held(e) == IF e.kind = "dir" THEN Absent
           ELSE [i \in 1 .. Min({e.size, Len(Chain(e.first))}) |-> data[Chain(e.first)[i]]]

StoredType == DOMAIN stored = Cluster /\ \A c \in Cluster : DOMAIN stored[c] = Range(Short)

HeldInv == \A d, p, e : Directory(d) /\ Holds(d, p) /\ Whole(p) /\ At(p) = e =>
               stored[d][e.name] = Held(e)

AbsentInv == \A d : \A s \in Range(Short) :
                 Directory(d) /\ (\A p : Holds(d, p) => At(p).name # s) => stored[d][s] = Absent

StoredInv == StoredType /\ HeldInv /\ AbsentInv

LEMMA LeastOfTwo ==
    ASSUME NEW a \in Nat, NEW b \in Nat
    PROVE  Min({a, b}) \in Nat /\ Min({a, b}) <= a /\ Min({a, b}) <= b
           /\ (a = b => Min({a, b}) = a)
<1> DEFINE S == {a, b}
<1>1. S \in SUBSET Nat /\ S # {} /\ a \in S /\ b \in S
  OBVIOUS
<1>2. \A x \in S : x = a \/ x = b
  OBVIOUS
<1> HIDE DEF S
<1>3. Min(S) \in S /\ \A x \in S : Min(S) <= x
  BY <1>1, MinIs
<1>4. Min(S) \in Nat /\ Min(S) <= a /\ Min(S) <= b /\ (a = b => Min(S) = a)
  BY <1>1, <1>2, <1>3
<1> QED  BY <1>4 DEF S

(* The file of an entry is what it was, if its chain and its clusters are. *)
LEMMA HeldKept ==
    ASSUME TInv, TInv', NEW e \in EntrySet, IsEntry(e),
           \A c : e.kind = "file" /\ c = e.first /\ c # 0 => SameFile(c)
    PROVE  Held(e)' = Held(e)
<1>1. FatType /\ FatType' /\ Nil /\ Nil'
  <2>1. FatType /\ FatType'
    BY TInvFat, PTL
  <2> QED  BY <2>1, NilIs, PTL
<1>2. e.first \in Link /\ e.size \in Nat
  BY EntryIs DEF Link
<1>3. CASE e.kind = "dir"
  BY <1>3 DEF Held
<1>4. CASE e.kind = "file" /\ e.first = 0
  <2>1. Chain(e.first)' = << >> /\ Chain(e.first) = << >>
    BY <1>1, <1>4 DEF Nil
  <2>2. Min({e.size, 0}) \in Nat /\ Min({e.size, 0}) <= 0
    BY <1>2, LeastOfTwo
  <2>3. Len(Chain(e.first)) = 0 /\ Len(Chain(e.first)') = 0
    BY <2>1
  <2>4. 1 .. Min({e.size, 0}) = {}
    BY <2>2
  <2>5. Held(e) = [i \in {} |-> data[Chain(e.first)[i]]]
    BY <1>4, <2>3, <2>4 DEF Held
  <2>6. Held(e)' = [i \in {} |-> data'[Chain(e.first)'[i]]]
    BY <1>4, <2>3, <2>4 DEF Held
  <2> QED  BY <2>5, <2>6
<1>5. CASE e.kind = "file" /\ e.first # 0
  <2>1. PICK c \in Link : c = e.first
    BY <1>2
  <2>2. Chain(c)' = Chain(c) /\ \A b \in Of(c) : data'[b] = data[b]
    BY <1>5, <2>1 DEF SameFile
  <2>3. Len(Chain(c)) \in Nat /\ \A i \in 1 .. Len(Chain(c)) : Chain(c)[i] \in Of(c)
    BY <1>1, <2>1, OfIs, ChainIs
  <2> DEFINE m == Min({e.size, Len(Chain(c))})
  <2>4. m \in Nat /\ m <= Len(Chain(c))
    BY <1>2, <2>3, LeastOfTwo
  <2> HIDE DEF m
  <2>5. \A i \in 1 .. m : Chain(c)[i] \in Of(c)
    BY <2>3, <2>4
  <2>6. Held(e) = [i \in 1 .. m |-> data[Chain(c)[i]]]
    BY <1>5, <2>1 DEF Held, m
  <2>7. Held(e)' = [i \in 1 .. m |-> data'[Chain(c)[i]]]
    BY <1>5, <2>1, <2>2 DEF Held, m
  <2> QED  BY <2>2, <2>5, <2>6, <2>7
<1> QED  BY <1>3, <1>4, <1>5 DEF IsEntry

LEMMA QuietStored ==
    ASSUME TInv, TInv', StoredInv, Quiet
    PROVE  StoredInv'
<1>1. StoredType'
  BY DEF Quiet, StoredInv, StoredType
<1>2. HeldInv'
  <2> SUFFICES ASSUME NEW d, NEW p, NEW e, Directory(d)', Holds(d, p)', Whole(p)', At(p)' = e
               PROVE  stored'[d][e.name] = Held(e)'
    BY DEF HeldInv
  <2>1. p \in Places
    BY DEF Holds
  <2>2. Directory(d) /\ Holds(d, p) /\ Whole(p) /\ At(p)' = At(p)
    BY <2>1 DEF Quiet, SameListing, SameFiles
  <2>3. stored[d][e.name] = Held(e) /\ e \in EntrySet /\ IsEntry(e)
    BY <2>2, WholeIs DEF StoredInv, HeldInv, Whole
  <2>4. \A c : e.kind = "file" /\ c = e.first /\ c # 0 => SameFile(c)
    BY <2>1, <2>2 DEF Quiet, SameFiles, FirstOf, At
  <2> QED  BY <2>3, <2>4, HeldKept DEF Quiet
<1>3. AbsentInv'
  <2> SUFFICES ASSUME NEW d, NEW s \in Range(Short), Directory(d)',
                      \A p : Holds(d, p)' => At(p)'.name # s
               PROVE  stored'[d][s] = Absent
    BY DEF AbsentInv
  <2>1. Directory(d) /\ \A p : Holds(d, p) => At(p).name # s
    BY DEF Quiet, SameListing
  <2> QED  BY <2>1 DEF Quiet, StoredInv, AbsentInv
<1> QED  BY <1>1, <1>2, <1>3 DEF StoredInv

(* What writing an entry stores. *)
LEMMA WrittenStored ==
    ASSUME TInv, HitInv, NEW own, Owned(own), StoredType,
           NEW d, NEW c, NEW i, NEW e, Written(d, c, i, e), NEW s0, s0 = Short[call.name]
    PROVE  /\ StoredType' /\ s0 \in Range(Short) /\ d \in Cluster
           /\ \A x : Directory(x) => x # first
           /\ PutLong(c, i, e) \/ DropLong(c, i, e) => stored' = stored
           /\ \A x \in Cluster, s \in Range(Short) :
                  ~(x = d /\ s = s0) /\ x # first => stored'[x][s] = stored[x][s]
           /\ Put(d, c, i, e) /\ call.op = "write" =>
                  stored'[d][s0] = Content(call.name, call.size)
           /\ Put(d, c, i, e) /\ call.op = "mkdir" =>
                  /\ first \in Cluster /\ stored'[d] = stored[d]
                  /\ \A s \in Range(Short) : stored'[first][s] = Absent
           /\ Drop(d, c, i, e) => stored'[d][s0] = Absent
<1>1. d = call.dir /\ pc \in Busy /\ Directory(d)
  BY DEF Written, SlotStep
<1>2. d \in Cluster /\ call.name \in Names /\ first \in Link
  BY <1>1, DirectoryRooted DEF TInv, LocalInv, CallSet
<1>3. s0 \in Range(Short)
  BY <1>2, FatAssumption DEF Range
<1>4. ASSUME NEW x, Directory(x), x = first PROVE FALSE
  <2>1. Rooted(x) /\ x \in Cluster
    BY <1>4, DirectoryRooted
  <2>2. own[x] # New /\ x # 0
    BY <2>1, RootedOwned, SizesOK
  <2> QED  BY <1>4, <2>2, FirstOwned
<1>5. d # first
  BY <1>1, <1>4
<1>6. ASSUME NEW v, stored' = [stored EXCEPT ![d][s0] = v]
      PROVE  /\ StoredType' /\ stored'[d][s0] = v
             /\ \A x \in Cluster, s \in Range(Short) :
                    ~(x = d /\ s = s0) => stored'[x][s] = stored[x][s]
  BY <1>2, <1>3, <1>6 DEF StoredType
<1>7. ASSUME first \in Cluster, stored' = [stored EXCEPT ![first] = [s \in Range(Short) |-> Absent]]
      PROVE  /\ StoredType' /\ stored'[d] = stored[d]
             /\ \A s \in Range(Short) : stored'[first][s] = Absent
             /\ \A x \in Cluster, s \in Range(Short) : x # first => stored'[x][s] = stored[x][s]
  BY <1>2, <1>5, <1>7 DEF StoredType
<1>8. CASE PutLong(c, i, e) \/ DropLong(c, i, e)
  <2>1. stored' = stored /\ ~Put(d, c, i, e) /\ ~Drop(d, c, i, e)
    BY <1>1, <1>8 DEF PutLong, DropLong, Put, Drop, Ended, Busy
  <2> QED  BY <1>2, <1>3, <1>4, <2>1 DEF StoredType
<1>9. CASE Drop(d, c, i, e)
  <2>1. /\ stored' = [stored EXCEPT ![d][s0] = Absent] /\ ~Put(d, c, i, e)
        /\ ~PutLong(c, i, e) /\ ~DropLong(c, i, e)
    BY <1>1, <1>9 DEF PutLong, DropLong, Put, Drop, Ended, Busy
  <2>2. /\ StoredType' /\ stored'[d][s0] = Absent
        /\ \A x \in Cluster, s \in Range(Short) :
               ~(x = d /\ s = s0) => stored'[x][s] = stored[x][s]
    BY <1>6, <2>1
  <2> QED  BY <1>2, <1>3, <1>4, <2>1, <2>2
<1>10. CASE Put(d, c, i, e)
  <2>1. ~Drop(d, c, i, e) /\ ~PutLong(c, i, e) /\ ~DropLong(c, i, e)
    BY <1>1, <1>10 DEF PutLong, DropLong, Put, Drop, Ended, Busy
  <2>2. CASE call.op = "write"
    <3>1. stored' = [stored EXCEPT ![d][s0] = Content(call.name, call.size)]
      BY <1>10, <2>2 DEF Put
    <3>2. StoredType' /\ stored'[d][s0] = Content(call.name, call.size)
      BY <1>6, <3>1
    <3>3. \A x \in Cluster, s \in Range(Short) :
              ~(x = d /\ s = s0) => stored'[x][s] = stored[x][s]
      BY <1>6, <3>1
    <3> QED  BY <1>2, <1>3, <1>4, <2>1, <2>2, <3>2, <3>3
  <2>3. CASE call.op # "write"
    <3>1. stored' = [stored EXCEPT ![first] = [s \in Range(Short) |-> Absent]] /\ first # 0
      BY <1>10, <2>3 DEF Put
    <3>2. first \in Cluster
      BY <1>2, <3>1 DEF Link
    <3> QED  BY <1>2, <1>3, <1>4, <1>7, <2>1, <2>3, <3>1, <3>2
  <2> QED  BY <2>2, <2>3
<1> QED  BY <1>8, <1>9, <1>10 DEF Written

(* What a new file is stored as is what its chain holds. *)
LEMMA FilledHeld ==
    ASSUME TInv, FileInv, pc \in {"entry", "slots"}, call.op = "write",
           NEW e, e.kind = "file", e.first = first, e.size = call.size
    PROVE  Held(e) = Content(call.name, call.size)
<1>1. pc \in Busy /\ call.size \in Nat /\ first \in Link /\ FatType
  BY TInvFat DEF TInv, LocalInv, CallSet, Busy
<1>2. Filled(call.size)
  BY <1>1 DEF FileInv
<1>3. Min({e.size, Len(Chain(e.first))}) = call.size
  BY <1>1, <1>2, LeastOfTwo DEF Filled
<1> QED  BY <1>2, <1>3 DEF Held, Content, Filled

LEMMA WrittenHeld ==
    ASSUME TInv, TInv', HitInv, NEW own, Owned(own), Shape, Named83, FileInv, StoredInv,
           NEW d, NEW c, NEW i, NEW e, Written(d, c, i, e)
    PROVE  HeldInv'
<1> SUFFICES ASSUME NEW x, NEW p, NEW f, Directory(x)', Holds(x, p)', Whole(p)', At(p)' = f
             PROVE  stored'[x][f.name] = Held(f)'
  BY DEF HeldInv
<1>1. SlotStep(d, c, i, e)
  BY DEF Written
<1>2. /\ \A y : Directory(y) /\ c \in Of(y) => y = d
      /\ Directory(x) \/ (e.kind = "dir" /\ x = e.first)
      /\ \A r : Holds(x, r)' <=> \/ Holds(x, r) /\ r # <<c, i>>
                                 \/ r = <<c, i>> /\ c \in Of(x) /\ IsEntry(e)
  BY <1>1, WrittenListing
<1>3. /\ d = call.dir /\ pc \in Busy /\ c \notin Of(first)
      /\ \A r \in Places : At(r)' = IF r = <<c, i>> THEN e ELSE At(r)
      /\ Whole(p) \/ p = <<c, i>>
      /\ Held(f)' = Held(f)
  <2>1. Held(f)' = Held(f)
    BY <1>1 DEF SlotStep, Held
  <2> QED  BY <1>1, <2>1 DEF SlotStep, Whole
<1>4. PICK s0 : s0 = Short[call.name]
  OBVIOUS
<1>5. /\ s0 \in Range(Short) /\ d \in Cluster /\ \A y : Directory(y) => y # first
      /\ PutLong(c, i, e) \/ DropLong(c, i, e) => stored' = stored
      /\ \A y \in Cluster, s \in Range(Short) :
             ~(y = d /\ s = s0) /\ y # first => stored'[y][s] = stored[y][s]
      /\ Put(d, c, i, e) /\ call.op = "write" => stored'[d][s0] = Content(call.name, call.size)
      /\ Put(d, c, i, e) /\ call.op = "mkdir" => stored'[d] = stored[d]
  BY <1>4, WrittenStored DEF StoredInv
<1>6. IsEntry(e) => Put(d, c, i, e)
  <2>1. IsEntry(e) => e # Erased /\ \A n : e # LongEntry(n)
    BY DEF Erased, LongEntry, IsEntry
  <2> QED  BY <2>1 DEF Written, PutLong, Drop, DropLong
<1>7. e.kind = "dir" => /\ Put(d, c, i, e) /\ call.op = "mkdir" /\ pc = "slots" /\ e.first = first
  <2>1. e.kind = "dir" => IsEntry(e)
    BY DEF IsEntry
  <2> QED  BY <1>6, <2>1 DEF Put
<1>8. Directory(x)
  <2> SUFFICES ASSUME ~Directory(x) PROVE FALSE
    OBVIOUS
  <2>1. call.op = "mkdir" /\ pc = "slots" /\ x = first
    BY <1>2, <1>7
  <2>2. ~Holds(x, p)
    BY <2>1, NewDirectory
  <2> QED  BY <1>2, <1>3, <2>1, <2>2
<1>9. x \in Cluster /\ x # first
  BY <1>5, <1>8, DirectoryRooted
<1>10. CASE p # <<c, i>>
  <2>1. Holds(x, p) /\ Whole(p) /\ At(p) = f
    BY <1>2, <1>3, <1>10 DEF Holds
  <2>2. stored[x][f.name] = Held(f) /\ f.name \in Range(Short)
    BY <1>8, <2>1, WholeIs DEF StoredInv, HeldInv
  <2>3. CASE PutLong(c, i, e) \/ DropLong(c, i, e)
    BY <1>3, <1>5, <2>2, <2>3
  <2>4. CASE Put(d, c, i, e) \/ Drop(d, c, i, e)
    <3>1. x = d => f.name # s0
      BY <1>1, <1>4, <1>10, <2>1, <2>4, PutApart
    <3> QED  BY <1>3, <1>5, <1>9, <2>2, <3>1
  <2> QED  BY <2>3, <2>4 DEF Written
<1>11. CASE p = <<c, i>>
  <2>1. IsEntry(e) /\ x = d /\ p \in Places
    BY <1>2, <1>8, <1>11 DEF Holds
  <2>2. f = e /\ Put(d, c, i, e)
    BY <1>3, <1>6, <1>11, <2>1
  <2>3. e.name = s0 /\ e.first = first /\ pc \in {"entry", "slots"}
    BY <1>4, <2>2 DEF Put
  <2>4. CASE call.op = "write"
    <3>1. e.kind = "file" /\ e.size = call.size
      BY <2>2, <2>4 DEF Put
    <3>2. Held(e) = Content(call.name, call.size)
      BY <2>3, <2>4, <3>1, FilledHeld
    <3> QED  BY <1>3, <1>5, <2>1, <2>2, <2>3, <2>4, <3>2
  <2>5. CASE call.op # "write"
    <3>1. e.kind = "dir" /\ call.op = "mkdir" /\ ~call.hit
      BY <2>2, <2>5 DEF Put
    <3>2. \A r : Holds(d, r) => At(r).name # s0
      BY <1>3, <1>4, <3>1 DEF Named83, NameInv
    <3>3. stored[d][s0] = Absent
      BY <1>5, <1>8, <2>1, <3>2 DEF StoredInv, AbsentInv
    <3>4. Held(e) = Absent
      BY <3>1 DEF Held
    <3> QED  BY <1>3, <1>5, <2>1, <2>2, <2>3, <3>1, <3>3, <3>4
  <2> QED  BY <2>4, <2>5
<1> QED  BY <1>10, <1>11

LEMMA WrittenAbsent ==
    ASSUME TInv, TInv', HitInv, NEW own, Owned(own), Shape, Named83, StoredInv,
           NEW d, NEW c, NEW i, NEW e, Written(d, c, i, e)
    PROVE  AbsentInv'
<1> SUFFICES ASSUME NEW x, NEW s \in Range(Short), Directory(x)',
                    \A p : Holds(x, p)' => At(p)'.name # s
             PROVE  stored'[x][s] = Absent
  BY DEF AbsentInv
<1>1. SlotStep(d, c, i, e)
  BY DEF Written
<1>2. /\ \A y : Directory(y) /\ c \in Of(y) => y = d
      /\ Directory(x) \/ (e.kind = "dir" /\ x = e.first)
      /\ \A r : Holds(x, r)' <=> \/ Holds(x, r) /\ r # <<c, i>>
                                 \/ r = <<c, i>> /\ c \in Of(x) /\ IsEntry(e)
  BY <1>1, WrittenListing
<1>3. /\ d = call.dir /\ pc \in Busy /\ c \in Of(d) /\ <<c, i>> \in Places
      /\ \A r \in Places : At(r)' = IF r = <<c, i>> THEN e ELSE At(r)
  BY <1>1 DEF SlotStep
<1>4. PICK s0 : s0 = Short[call.name]
  OBVIOUS
<1>5. /\ s0 \in Range(Short) /\ d \in Cluster /\ \A y : Directory(y) => y # first
      /\ PutLong(c, i, e) \/ DropLong(c, i, e) => stored' = stored
      /\ \A y \in Cluster, z \in Range(Short) :
             ~(y = d /\ z = s0) /\ y # first => stored'[y][z] = stored[y][z]
      /\ Put(d, c, i, e) /\ call.op = "mkdir" => \A z \in Range(Short) : stored'[first][z] = Absent
      /\ Drop(d, c, i, e) => stored'[d][s0] = Absent
  BY <1>4, WrittenStored DEF StoredInv
<1>6. CASE ~Directory(x)
  <2>1. e.kind = "dir" /\ x = e.first
    BY <1>2, <1>6
  <2>2. e # Erased /\ \A n : e # LongEntry(n)
    BY <2>1 DEF Erased, LongEntry
  <2>3. Put(d, c, i, e)
    BY <2>2 DEF Written, PutLong, Drop, DropLong
  <2>4. call.op = "mkdir" /\ x = first
    BY <2>1, <2>3 DEF Put
  <2> QED  BY <1>5, <2>3, <2>4
<1>7. CASE Directory(x) /\ x = d /\ s = s0 /\ (Put(d, c, i, e) \/ Drop(d, c, i, e))
  <2>1. CASE Drop(d, c, i, e)
    BY <1>5, <1>7, <2>1
  <2>2. CASE Put(d, c, i, e)
    <3>1. IsEntry(e) /\ e.name = s0
      BY <1>4, <2>2 DEF Put
    <3>2. PICK q : q = <<c, i>>
      OBVIOUS
    <3>3. Holds(x, q)' /\ At(q)' = e
      BY <1>2, <1>3, <1>7, <3>1, <3>2
    <3> QED  BY <1>7, <3>1, <3>3
  <2> QED  BY <1>7, <2>1, <2>2
<1>8. CASE Directory(x) /\ ~(x = d /\ s = s0 /\ (Put(d, c, i, e) \/ Drop(d, c, i, e)))
  <2>1. ASSUME NEW p, Holds(x, p), At(p).name = s PROVE FALSE
    <3>1. p = <<c, i>>
      <4> SUFFICES ASSUME p # <<c, i>> PROVE FALSE
        OBVIOUS
      <4>1. Holds(x, p)' /\ At(p)' = At(p)
        BY <1>2, <1>3, <2>1 DEF Holds
      <4> QED  BY <2>1, <4>1
    <3>2. c \in Of(x) /\ IsEntry(At(p)) /\ At(p) = dir[c][i]
      BY <2>1, <3>1 DEF Holds, At
    <3>3. x = d
      BY <1>2, <1>8, <3>2
    <3>4. dir[c][i] \notin {End, Erased} /\ dir[c][i].kind # "long"
      BY <3>2 DEF IsEntry, End, Erased
    <3>5. call.hit /\ at = p /\ (Put(d, c, i, e) \/ Drop(d, c, i, e))
      BY <3>1, <3>4 DEF Written, Put, PutLong, Drop, DropLong
    <3>6. At(at).name = s0
      BY <1>3, <1>4, <3>5 DEF Named83, NameInv
    <3>7. At(p).name = s0
      BY <3>5, <3>6
    <3> QED  BY <1>8, <2>1, <3>3, <3>5, <3>7
  <2>2. stored[x][s] = Absent /\ x \in Cluster /\ x # first
    BY <1>5, <1>8, <2>1, DirectoryRooted DEF StoredInv, AbsentInv
  <2>3. CASE PutLong(c, i, e) \/ DropLong(c, i, e)
    BY <1>5, <2>2, <2>3
  <2>4. CASE Put(d, c, i, e) \/ Drop(d, c, i, e)
    BY <1>5, <1>8, <2>2, <2>4
  <2> QED  BY <2>3, <2>4 DEF Written
<1> QED  BY <1>6, <1>7, <1>8

ReadInv == Clean => FileInv /\ StoredInv

LEMMA InitRead == Init => ReadInv
<1> SUFFICES ASSUME Init PROVE FileInv /\ StoredInv
  BY DEF ReadInv
<1>1. FileInv
  BY DEF Init, FileInv, Busy
<1>2. TInv
  BY InitType
<1>3. StoredType
  BY DEF Init, StoredType
<1>4. \A d, p : ~Holds(d, p)
  BY SizesOK DEF Init, Holds, At, Places, Idle, Junk, End, Dots, IsEntry
<1>5. AbsentInv
  BY <1>2, DirectoryRooted DEF Init, AbsentInv
<1> QED  BY <1>1, <1>3, <1>4, <1>5 DEF StoredInv, HeldInv

LEMMA NextRead ==
    ASSUME IInv, ShapeInv, NamesInv, ReadInv, [Next]_vars, Clean'
    PROVE  FileInv' /\ StoredInv'
<1>1. TInv /\ TInv' /\ HitInv /\ Clean /\ Sound /\ Shape /\ Shape' /\ Named83
      /\ FileInv /\ StoredInv
  BY NextShape DEF IInv, NamesInv, ReadInv
<1>2. PICK own : Owned(own)
  BY <1>1 DEF IInv, OwnInv
<1>3. FileInv'
  BY <1>1, NextFile
<1>4. Quiet => StoredInv'
  BY <1>1, QuietStored
<1>5. ASSUME NEW op, NEW d, NEW n, NEW len, NEW j, Starts(op, d, n, len, j) PROVE Quiet
  BY <1>1, <1>2, <1>5, BeginNames
<1>6. ASSUME NEW d, NEW c, NEW i, NEW e, Written(d, c, i, e) PROVE StoredInv'
  <2>1. PICK s0 : s0 = Short[call.name]
    OBVIOUS
  <2>2. StoredType'
    BY <1>1, <1>2, <1>6, <2>1, WrittenStored DEF StoredInv
  <2> QED  BY <1>1, <1>2, <1>6, <2>2, WrittenHeld, WrittenAbsent DEF StoredInv
<1> QED  BY <1>1, <1>3, <1>4, <1>5, <1>6, NextKind DEF StepKind

ReadIInv == NamesIInv /\ ReadInv

LEMMA ReadAlways == Spec => []ReadIInv
<1>1. IInv /\ ShapeInv /\ NamesInv /\ ReadInv /\ [Next]_vars => ReadInv'
  BY NextRead DEF ReadInv
<1> QED  BY <1>1, InitRead, NamesAlways, NamesIInvAlways, PTL DEF Spec, ReadIInv

LEMMA ReadImplied == ReadIInv => ReadsBack
<1> SUFFICES ASSUME ReadIInv, Clean, NEW d \in Parents \ {call.chain}, NEW n \in Names,
                    pc # "none" /\ call.op # "none" => <<call.dir, Short[call.name]>> # <<d, Short[n]>>
             PROVE  Reads(d, n) = IF Behind(d, n) THEN Absent ELSE stored[d][Short[n]]
  BY DEF ReadsBack, Clean
<1>1. TInv /\ HitInv /\ Shape /\ Named83 /\ StoredInv /\ Sound
  BY DEF ReadIInv, NamesIInv, IInv, ShapeInv, NamesInv, ReadInv, Clean, Sound
<1>2. PICK own : Owned(own)
  BY <1>1 DEF ReadIInv, NamesIInv, IInv, OwnInv
<1>3. Directory(d) /\ d \in Link /\ Rooted(d)
  BY <1>1, ParentsDirectories, DirectoryRooted
<1>4. Short[n] \in Range(Short)
  BY FatAssumption DEF Range
<1>5. WriteFinds(d, n) # 0 => /\ WriteFinds(d, n) \in 1 .. Len(Entries(d))
                              /\ IsEntry(Entries(d)[WriteFinds(d, n)])
                              /\ Entries(d)[WriteFinds(d, n)].name = Short[n]
  BY <1>1, <1>3, Found, FatTypes DEF TInv, DiskInv
<1>6. CASE Behind(d, n)
  <2> SUFFICES ASSUME OpenFinds(d, n) # 0 PROVE FALSE
    BY <1>6 DEF Reads
  <2>1. OpenFinds(d, n) # WriteFinds(d, n)
    BY <1>1, <1>3, <1>6, OpenFindsIt DEF Behind, Named83
  <2>2. NamesUnique
    BY NamesImplied DEF ReadIInv
  <2> QED  BY <1>1, <1>3, <1>5, <1>6, <2>1, <2>2, OpenFindsIt
           DEF Behind, Named83, NamesUnique, Clean
<1>7. CASE ~Behind(d, n) /\ OpenFinds(d, n) = 0
  <2>1. WriteFinds(d, n) = 0
    BY <1>1, <1>3, <1>5, <1>7, OpenFindsIt DEF Behind, Named83
  <2>2. \A p : Holds(d, p) => At(p).name # Short[n]
    BY <1>1, <1>3, <2>1, WriteFindsIt
  <2> QED  BY <1>1, <1>3, <1>4, <1>7, <2>2 DEF StoredInv, AbsentInv, Reads
<1>8. CASE ~Behind(d, n) /\ OpenFinds(d, n) # 0
  <2>1. PICK j \in 1 .. Len(Entries(d)) : /\ j = OpenFinds(d, n) /\ IsEntry(Entries(d)[j])
                                          /\ Entries(d)[j].name = Short[n]
    BY <1>1, <1>3, <1>8, OpenFindsIt DEF Named83
  <2>2. PICK p, e : p = Place(d, j) /\ e = Entries(d)[j]
    OBVIOUS
  <2>3. Holds(d, p) /\ At(p) = e /\ IsEntry(e) /\ e.name = Short[n] /\ p \in Places
    BY <1>1, <1>3, <2>1, <2>2, ListedHeld DEF Holds
  <2>4. Whole(p)
    <3> SUFFICES ASSUME OldFreed, call.hit, p = at PROVE FALSE
      BY <2>3 DEF Whole
    <3>1. pc \in Busy
      BY <1>1 DEF TInv, LocalInv, NoCall
    <3>2. PICK x : x = call.dir
      OBVIOUS
    <3>3. Directory(x) /\ Holds(x, p) /\ Short[call.name] = Short[n]
      BY <1>1, <2>3, <3>1, <3>2 DEF Shape, CallPlace, Named83, NameInv
    <3>4. Rooted(x) /\ p[1] \in Of(x) /\ p[1] \in Of(d)
      BY <1>1, <2>3, <3>3, DirectoryRooted DEF Holds
    <3>5. x = d
      BY <1>1, <1>2, <1>3, <3>4, RootedApart
    <3>6. pc # "none" /\ call.op # "none"
      BY <1>1, <3>1 DEF TInv, LocalInv, CallSet, Busy
    <3> QED  BY <3>2, <3>3, <3>5, <3>6
  <2>5. stored[d][Short[n]] = Held(e)
    BY <1>1, <1>3, <2>3, <2>4 DEF StoredInv, HeldInv
  <2>6. Reads(d, n) = Held(e)
    BY <1>8, <2>1, <2>2 DEF Reads, Held
  <2> QED  BY <1>8, <2>5, <2>6
<1> QED  BY <1>6, <1>7, <1>8

(* What OPENFILE and READ find under a name is what was last written under its 8.3 form, whole:
   for volumes, directories and files of any size, any names and any lengths, while other calls
   are under way, and after any number of them were given up without a trace in "past" but
   leaked clusters.  Only a file that WRITEFILE and DELETE find behind the entries Fat32OpenPath
   looks at is never found. *)
THEOREM Fat32ReadsBack == Spec => []ReadsBack
BY ReadAlways, ReadImplied, PTL

(* NoLeak.  A cluster that is not free is kept by the root directory or by an entry that a
   directory holds, or the call under way leads to it.  Of a directory with entries in it that
   is being deleted nothing is said: "past" will say that it leaks. *)
Listed(p) == Whole(p) /\ \E d : Directory(d) /\ Holds(d, p)

Claimed(c) == c \in Of(Root) \/ \E p : Listed(p) /\ FirstOf(p) # 0 /\ c \in Of(FirstOf(p))

Reached(c) == \/ Claimed(c)
              \/ c \in Of(first)
              \/ pc \in {"free", "undo"} /\ c \in Of(old)
              \/ pc \in {"link", "tail"} /\ c = old

Emptying == pc \in Busy /\ call.op = "delete" /\ call.full

EmptyInv == pc = "free" /\ old = call.chain /\ call.op = "delete" /\ ~call.full
                /\ Directory(old) => \A p : ~Holds(old, p)

ReachInv == ~Emptying => \A c \in Cluster : fat[c] # 0 => Reached(c)

Accounted == (pc = "erase" => first = 0) /\ EmptyInv /\ ReachInv
LeakInv == past = {} => Accounted

(* A step that leaves the chains that are reached, but perhaps one, and the entries that lead
   to them.  That one may be the chain of a directory, if it holds nothing. *)
Stays(p) == Whole(p)' /\ At(p)' = At(p)

Grows == \A c : Rooted(c) /\ Rooted(c)' => \A b \in Of(c) : b \in Of(c)'

LEMMA KeptStays ==
    ASSUME TInv, TInv', Grows, NEW z,
           \A p : Listed(p) /\ FirstOf(p) # 0 /\ FirstOf(p) # z => Stays(p),
           z # Root, Directory(z) => \A p : ~Holds(z, p)
    PROVE  /\ \A d : Directory(d) /\ d # z => Directory(d)'
           /\ \A c : Claimed(c) => Claimed(c)' \/ c \in Of(z)
<1>1. Rooted(Root) /\ Rooted(Root)' /\ Directory(Root) /\ Directory(Root)'
  BY DEF Rooted, Directory
<1>2. \A b \in Of(Root) : b \in Of(Root)'
  BY <1>1 DEF Grows
<1>3. ASSUME NEW p, DirAt(p), FirstOf(p) # z PROVE DirAt(p)' /\ FirstOf(p)' = FirstOf(p)
  <2>1. /\ Whole(p) /\ p \in Places /\ p[1] \in Of(Root) /\ At(p).kind = "dir"
        /\ FirstOf(p) # 0
    BY <1>3, WholeIs, SizesOK DEF DirAt
  <2>2. Holds(Root, p)
    BY <2>1 DEF Holds, Whole
  <2>3. Listed(p)
    BY <1>1, <2>1, <2>2 DEF Listed
  <2>4. Whole(p)' /\ At(p)' = At(p)
    BY <1>3, <2>1, <2>3 DEF Stays
  <2> QED  BY <1>2, <2>1, <2>4 DEF DirAt, FirstOf, At
<1>4. ASSUME NEW d, Directory(d), d # z PROVE Directory(d)'
  BY <1>1, <1>3, <1>4 DEF Directory
<1>5. ASSUME NEW c, Claimed(c) PROVE Claimed(c)' \/ c \in Of(z)
  <2>1. CASE c \in Of(Root)
    BY <1>2, <2>1 DEF Claimed
  <2>2. ASSUME NEW p, Listed(p), FirstOf(p) # 0, c \in Of(FirstOf(p)), FirstOf(p) # z
        PROVE  Claimed(c)'
    <3>1. PICK d : Directory(d) /\ Holds(d, p)
      BY <2>2 DEF Listed
    <3>2. d # z /\ Directory(d)'
      BY <1>4, <3>1
    <3>3. Rooted(d) /\ Rooted(d)'
      <4>1. DirectoriesRooted /\ DirectoriesRooted'
        BY DirectoriesAre, PTL
      <4> QED  BY <3>1, <3>2, <4>1 DEF DirectoriesRooted
    <3>4. Whole(p)' /\ At(p)' = At(p) /\ Whole(p)
      BY <2>2 DEF Stays, Listed
    <3>5. Holds(d, p)'
      BY <3>1, <3>3, <3>4 DEF Holds, Grows
    <3>6. Listed(p)'
      BY <3>2, <3>4, <3>5 DEF Listed
    <3>7. PICK x \in Cluster : x = FirstOf(p) /\ x = FirstOf(p)'
      BY <2>2, <3>4, WholeIs DEF Link, FirstOf, At
    <3>8. Rooted(x) /\ Rooted(x)'
      BY <3>4, <3>7 DEF Rooted, Whole
    <3>9. c \in Of(x)'
      BY <2>2, <3>7, <3>8 DEF Grows
    <3>10. c \in Of(FirstOf(p))' /\ FirstOf(p)' # 0
      BY <2>2, <3>7, <3>9 DEF Of
    <3> QED  BY <3>6, <3>10 DEF Claimed
  <2> QED  BY <1>5, <2>1, <2>2 DEF Claimed
<1> QED  BY <1>4, <1>5

(* The entries a directory holds are not written, and none that was whole is being freed. *)
LEMMA StaysIf ==
    ASSUME TInv, NEW p, Listed(p),
           \A d : Directory(d) /\ Holds(d, p) => dir'[p[1]] = dir[p[1]],
           OldFreed' /\ call'.hit /\ p = at' => OldFreed /\ call.hit /\ p = at
    PROVE  Stays(p)
<1>1. dir'[p[1]] = dir[p[1]]
  BY DEF Listed
<1>2. At(p)' = At(p)
  BY <1>1 DEF At
<1> QED  BY <1>2 DEF Stays, Listed, Whole

LEMMA UndisturbedGrows == Undisturbed => Grows
<1> SUFFICES ASSUME Undisturbed, NEW c, Rooted(c), Rooted(c)', NEW b \in Of(c)
             PROVE  b \in Of(c)'
  BY DEF Grows
<1>1. c \in Cluster
  BY SizesOK DEF Rooted
<1> QED  BY <1>1 DEF Undisturbed

(* What the directory of a call has is kept. *)
DirectoriesKeep == \A d : Directory(d) => \A b \in Of(d) : Claimed(b)

LEMMA DirectoriesDo == TInv => DirectoriesKeep
<1> SUFFICES ASSUME TInv, NEW d, Directory(d), NEW b \in Of(d) PROVE Claimed(b)
  BY DEF DirectoriesKeep
<1>1. CASE d = Root
  BY <1>1 DEF Claimed
<1>2. ASSUME NEW p, DirAt(p), FirstOf(p) = d PROVE Claimed(b)
  <2>1. Whole(p) /\ Holds(Root, p) /\ Directory(Root) /\ FirstOf(p) # 0
    BY <1>2, WholeIs, SizesOK DEF DirAt, Holds, Whole, Directory
  <2>2. Listed(p)
    BY <2>1 DEF Listed
  <2> QED  BY <1>2, <2>1, <2>2 DEF Claimed
<1> QED  BY <1>1, <1>2 DEF Directory

(* A call that goes on leads to its new chain; one that is given up frees it. *)
LEMMA ReachedOn ==
    ASSUME NEW b, Reached(b), pc \notin {"free", "undo", "link", "tail"}, Claimed(b) => Claimed(b)',
           first' = first, \A x \in Of(first) : x \in Of(first)'
    PROVE  Reached(b)'
BY DEF Reached

LEMMA ReachedFail ==
    ASSUME TInv, TInv', HitInv, NEW own, Owned(own), Shape, NEW also, Fail(also), Clean',
           pc \in Busy, pc \notin {"free", "link", "tail"}, fat' = fat, dir' = dir, data' = data,
           NEW b, Reached(b)
    PROVE  Reached(b)' /\ pc' \notin Busy
<1>1. /\ call' = NoCall /\ first' = 0 /\ pc' \notin Busy /\ pc # "undo"
      /\ \/ first = 0
         \/ pc' = "undo" /\ first # 0 /\ old' = first
  BY FailIs DEF Busy
<1>2. Undisturbed
  BY FailShape
<1>3. Grows /\ ~OldFreed'
  BY <1>1, <1>2, UndisturbedGrows DEF OldFreed, NoCall
<1>4. \A p : Listed(p) => Stays(p)
  BY <1>3, StaysIf
<1>5. Empty
  BY TInvFat, EmptyIs
<1>6. ~Directory(0) /\ 0 # Root
  BY DirectoryRooted, SizesOK
<1>7. Claimed(b) => Claimed(b)'
  BY <1>3, <1>4, <1>5, <1>6, KeptStays DEF Empty
<1>8. CASE b \in Of(first)
  <2>1. PICK f : f = first
    OBVIOUS
  <2>2. Chain(f)' = Chain(f) /\ pc' = "undo" /\ old' = f /\ b \in Of(f)
    BY <1>1, <1>5, <1>8, <2>1, SameChain DEF Empty
  <2>3. Chain(old)' = Chain(f)
    BY <2>2
  <2>4. b \in Of(old)'
    BY <2>2, <2>3 DEF Of
  <2> QED  BY <1>1, <2>2, <2>4 DEF Reached
<1> QED  BY <1>1, <1>7, <1>8 DEF Reached

LEMMA FreeLeak ==
    ASSUME TInv, TInv', HitInv, NEW own, Owned(own), Shape, NEW bad, FreeChainStep(bad), Clean',
           pc = "erase" => first = 0, EmptyInv, ReachInv
    PROVE  Accounted'
<1>1. /\ pc \in {"free", "undo"} /\ old \in Cluster \ {Root} /\ first = 0 /\ first' = 0
      /\ pc = "undo" => call = NoCall
      /\ fat' = [fat EXCEPT ![old] = 0] /\ dir' = [dir EXCEPT ![old] = Junk]
      /\ old' = NextCluster(old) /\ (old' # 0 => pc' = pc)
      /\ old' = 0 /\ pc = "free" => pc' \in Busy
      /\ old' = 0 /\ pc = "undo" => pc' = "none"
      /\ pc' = "none" \/ (call' = call /\ at' = at)
      /\ pc = "free" => call.chain # 0 /\ call.hit /\ pc' # "none"
  <2>1. \A x, y : (IF x THEN "erase" ELSE IF y THEN "alloc" ELSE "entry") \in Busy
    BY DEF Busy
  <2> QED  BY <2>1, FreeIs
<1>2. Undisturbed /\ (pc = "free" => OldFreed') /\ own[old] = Gone
  BY FreeUndisturbed
<1>3. FatType /\ FatType' /\ DirType /\ Empty /\ Empty' /\ Singles
  <2>1. FatType /\ FatType'
    BY TInvFat, PTL
  <2> QED  BY <2>1, EmptyIs, ChainSingle, PTL DEF TInv, DiskInv
<1>4. EmptyInv'
  <2>1. pc' = "free" => pc = "free" /\ OldFreed'
    BY <1>1, <1>2
  <2> QED  BY <2>1 DEF EmptyInv, OldFreed
<1>5. ASSUME ~Emptying' PROVE ReachInv'
  <2>1. ~Emptying
    BY <1>1, <1>5 DEF Emptying, Busy
  <2>2. PICK z \in Cluster : z = old
    BY <1>1
  <2>3. ASSUME Directory(z) PROVE /\ pc = "free" /\ z = call.chain /\ ~OldFreed
                                  /\ \A p : ~Holds(z, p)
    <3>1. Rooted(z) /\ z \in Of(z) /\ z \in Link
      BY <1>3, <2>3, DirectoryRooted, OfIs, SizesOK DEF Link
    <3>2. pc = "free" /\ old = call.chain
      BY <1>2, <2>2, <3>1, Outside
    <3>3. pc \in Busy /\ ~OldFreed /\ call.hit
      BY <1>1, <3>2 DEF Busy, OldFreed
    <3>4. PICK p : DirAt(p) /\ FirstOf(p) = z
      BY <1>1, <2>2, <2>3 DEF Directory
    <3>5. PICK q : q = at
      OBVIOUS
    <3>6. Whole(q) /\ FirstOf(q) = z /\ (call.op = "write" => At(q).kind = "file")
      BY <2>2, <3>2, <3>3, <3>5 DEF Shape, CallPlace, Whole, Holds
    <3>7. p = q
      BY <2>2, <3>4, <3>6, WholeApart, SizesOK DEF DirAt
    <3>8. call.op = "delete"
      BY <3>3, <3>4, <3>6, <3>7 DEF DirAt, TInv, CallInv, LocalInv, CallSet
    <3>9. ~call.full
      BY <2>1, <3>3, <3>8 DEF Emptying, TInv, LocalInv, CallSet
    <3>10. Directory(old) => \A r : ~Holds(old, r)
      BY <3>2, <3>8, <3>9 DEF EmptyInv
    <3>11. Directory(old)
      BY <2>2, <2>3
    <3> QED  BY <2>2, <3>2, <3>3, <3>10, <3>11
  <2>4. ASSUME NEW p, Listed(p), FirstOf(p) # 0, FirstOf(p) # z PROVE Stays(p)
    <3>1. ASSUME NEW d, Directory(d), Holds(d, p) PROVE dir'[p[1]] = dir[p[1]]
      <4>1. p[1] \in Of(d) /\ p[1] \in Cluster /\ Rooted(d)
        BY <1>3, <3>1, DirectoryRooted, OfIs DEF Holds
      <4>2. p[1] # z
        <5> SUFFICES ASSUME p[1] = z PROVE FALSE
          OBVIOUS
        <5>1. own[p[1]] = Gone
          BY <1>2, <2>2
        <5>2. d = z
          BY <2>2, <4>1, <5>1, Outside
        <5> QED  BY <2>3, <3>1, <5>2
      <4> QED  BY <1>1, <1>3, <2>2, <4>1, <4>2 DEF DirType
    <3>2. ASSUME OldFreed', call'.hit, p = at' PROVE OldFreed /\ call.hit /\ p = at
      <4>1. pc' # "none"
        BY <3>2 DEF TInv, LocalInv, NoCall, Busy, OldFreed
      <4>2. call' = call /\ p = at /\ call.hit
        BY <1>1, <3>2, <4>1
      <4>3. pc = "free"
        BY <1>1, <4>2 DEF NoCall
      <4>4. FirstOf(at) = call.chain
        BY <4>2, <4>3 DEF Shape, CallPlace, Busy
      <4>5. call.chain # z
        BY <2>4, <4>2, <4>4
      <4> QED  BY <1>1, <2>2, <4>2, <4>3, <4>5 DEF OldFreed
    <3> QED  BY <2>4, <3>1, <3>2, StaysIf
  <2>5. Grows /\ z # Root
    BY <1>1, <1>2, <2>2, UndisturbedGrows
  <2>6. \A b : Claimed(b) => Claimed(b)' \/ b \in Of(z)
    BY <2>3, <2>4, <2>5, KeptStays
  <2>7. ASSUME NEW b \in Cluster, fat'[b] # 0 PROVE Reached(b)'
    <3>1. b # z /\ fat[b] # 0
      BY <1>1, <1>3, <2>2, <2>7 DEF FatType
    <3>2. Claimed(b)' \/ b \in Of(z)
      BY <1>1, <1>3, <2>1, <2>2, <2>6, <3>1 DEF ReachInv, Reached, Empty
    <3>3. ASSUME b \in Of(z) PROVE pc' \in {"free", "undo"} /\ b \in Of(old)'
      <4>1. Ends(z)
        BY <1>1, <2>2 DEF Shape, EndsInv
      <4>2. fat[z] \in Cluster
        <5> SUFFICES ASSUME fat[z] \notin Cluster PROVE FALSE
          OBVIOUS
        <5>1. Of(z) = {z}
          BY <1>3 DEF Singles, Of, Range
        <5> QED  BY <3>1, <3>3, <5>1
      <4>3. PICK y \in Cluster : y = fat[z]
        BY <4>2
      <4>4. b \in Of(y)'
        <5>1. Of(z) = Of(y)' \cup {z}
          BY <1>1, <1>3, <2>2, <4>1, <4>3, ChainFreed
        <5> QED  BY <3>1, <3>3, <5>1
      <4>5. old' = y /\ y # 0
        BY <1>1, <1>3, <2>2, <4>2, <4>3, NextIs, SizesOK DEF Link
      <4>6. Chain(old)' = Chain(y)'
        BY <4>5
      <4>7. b \in Of(old)'
        BY <4>4, <4>6 DEF Of
      <4> QED  BY <1>1, <4>5, <4>7
    <3> QED  BY <3>2, <3>3 DEF Reached
  <2> QED  BY <2>7 DEF ReachInv
<1> QED  BY <1>1, <1>4, <1>5 DEF Accounted, ReachInv

(* A step that writes no entry a directory holds, in no cluster but perhaps z. *)
LEMMA KeptOn ==
    ASSUME TInv, TInv', Grows, NEW z, \A b \in Cluster : b # z => dir'[b] = dir[b],
           \A d, p : Directory(d) /\ Holds(d, p) => p[1] # z,
           OldFreed' /\ call'.hit => OldFreed /\ call.hit /\ at' = at
    PROVE  /\ \A d : Directory(d) => Directory(d)'
           /\ \A b : Claimed(b) => Claimed(b)'
<1>1. \A p : Listed(p) => Stays(p)
  <2> SUFFICES ASSUME NEW p, Listed(p) PROVE Stays(p)
    OBVIOUS
  <2>1. ASSUME NEW d, Directory(d), Holds(d, p) PROVE dir'[p[1]] = dir[p[1]]
    <3>1. p[1] # z /\ p[1] \in Cluster
      BY <2>1, PlacesAre DEF Holds
    <3> QED  BY <3>1
  <2>2. OldFreed' /\ call'.hit /\ p = at' => OldFreed /\ call.hit /\ p = at
    OBVIOUS
  <2> QED  BY <2>1, <2>2, StaysIf
<1>2. Empty /\ ~Directory(0) /\ 0 # Root
  BY TInvFat, EmptyIs, DirectoryRooted, SizesOK
<1>3. /\ \A d : Directory(d) /\ d # 0 => Directory(d)'
      /\ \A c : Claimed(c) => Claimed(c)' \/ c \in Of(0)
  BY <1>1, <1>2, KeptStays
<1> QED  BY <1>2, <1>3 DEF Empty

(* A call that neither frees nor erases. *)
LEMMA LeakKept ==
    ASSUME TInv, ReachInv, pc \in Busy \ {"free", "erase"}, pc' \notin {"free", "erase"},
           \A b \in Cluster : fat'[b] # 0 /\ (fat[b] # 0 => Reached(b)) => Reached(b)'
    PROVE  Accounted'
<1>1. ~Emptying
  BY DEF Emptying, TInv, CallInv
<1> QED  BY <1>1 DEF Accounted, EmptyInv, ReachInv

LEMMA FailLeak ==
    ASSUME TInv, TInv', HitInv, NEW own, Owned(own), Shape, NEW also, Fail(also), Clean',
           pc \in Busy \ {"free", "erase", "link", "tail"}, fat' = fat, dir' = dir, data' = data,
           ReachInv
    PROVE  Accounted'
<1>1. pc' \notin Busy
  BY FailIs DEF Busy
<1>2. ASSUME NEW b \in Cluster, fat'[b] # 0, fat[b] # 0 => Reached(b) PROVE Reached(b)'
  BY <1>2, ReachedFail
<1> QED  BY <1>1, <1>2, LeakKept DEF Busy

LEMMA AllocateLeak ==
    ASSUME TInv, TInv', HitInv, NEW own, Owned(own), Shape, NEW bad, Allocate(bad), Clean',
           ReachInv
    PROVE  Accounted'
<1>1. /\ pc = "alloc" /\ pc \in Busy /\ dir' = dir /\ data' = data
      /\ \/ Fail({}) /\ fat' = fat
         \/ \E c \in Cluster \ {Root} :
             /\ fat[c] = 0 /\ fat' = [fat EXCEPT ![c] = EOF] /\ call' = call /\ at' = at
             /\ first = 0 => first' = c /\ pc' = IF call.size = 1 THEN "data" ELSE "alloc"
             /\ first # 0 => pc' = "link" /\ old' = c /\ first' = first
  BY AllocateIs
<1>2. CASE Fail({}) /\ fat' = fat
  BY <1>1, <1>2, FailLeak DEF Busy
<1>3. ASSUME NEW c \in Cluster, fat[c] = 0, fat' = [fat EXCEPT ![c] = EOF],
             call' = call, at' = at,
             first = 0 => first' = c /\ pc' = IF call.size = 1 THEN "data" ELSE "alloc",
             first # 0 => pc' = "link" /\ old' = c /\ first' = first
      PROVE  Accounted'
  <2>1. FatType /\ FatType' /\ Empty /\ c # 0
    <3>1. FatType /\ FatType'
      BY TInvFat, PTL
    <3> QED  BY <3>1, EmptyIs, SizesOK
  <2>2. Grows
    BY AllocateShape, UndisturbedGrows
  <2>3. OldFreed' /\ call'.hit => OldFreed /\ call.hit /\ at' = at
    BY <1>1, <1>3 DEF OldFreed
  <2>4. \A d, p : Directory(d) /\ Holds(d, p) => p[1] # 0
    BY PlacesAre, SizesOK DEF Holds
  <2>5. \A b : Claimed(b) => Claimed(b)'
    BY <1>1, <2>2, <2>3, <2>4, KeptOn
  <2>6. ASSUME NEW b \in Cluster, fat'[b] # 0, fat[b] # 0 => Reached(b) PROVE Reached(b)'
    <3>1. b # c => fat[b] # 0
      BY <1>3, <2>1, <2>6 DEF FatType
    <3>2. CASE first = 0
      <4>1. CASE b = c
        <5>1. Chain(c)' = <<c>>
          BY <1>3, <2>1, NewChain DEF FatType
        <5>2. Chain(first)' = Chain(c)'
          BY <1>3, <3>2
        <5>3. c \in Of(first)'
          BY <5>1, <5>2 DEF Of, Range
        <5> QED  BY <4>1, <5>3 DEF Reached
      <4>2. CASE b # c
        BY <1>1, <2>1, <2>5, <2>6, <3>1, <3>2, <4>2 DEF Reached, Empty
      <4> QED  BY <4>1, <4>2
    <3>3. CASE first # 0
      <4>1. CASE b = c
        BY <1>3, <3>3, <4>1 DEF Reached
      <4>2. CASE b # c
        <5>1. Of(first)' = Of(first)
          BY <1>3, <3>3, <2>1, FirstKept DEF FatType
        <5> QED  BY <1>1, <1>3, <2>5, <2>6, <3>1, <3>3, <4>2, <5>1, ReachedOn
      <4> QED  BY <4>1, <4>2
    <3> QED  BY <3>2, <3>3
  <2>7. pc' \notin {"free", "erase"}
    BY <1>3
  <2> QED  BY <1>1, <2>6, <2>7, LeakKept
<1> QED  BY <1>1, <1>2, <1>3

LEMMA LinkLeak ==
    ASSUME TInv, TInv', HitInv, NEW own, Owned(own), Shape, NEW bad, LinkCluster(bad), Clean',
           ReachInv
    PROVE  Accounted'
<1>1. /\ pc = "link" /\ pc \in Busy /\ fat' = [fat EXCEPT ![prev] = old]
      /\ dir' = dir /\ call' = call /\ first' = first /\ at' = at
      /\ old \in Cluster /\ prev \in Cluster /\ own[prev] = New
      /\ pc' \in {"data", "alloc"}
  BY LinkIs
<1>2. Of(first)' = Of(first) \cup {old} /\ \A b \in Cluster : b # prev => fat'[b] = fat[b]
  BY LinkChain
<1>3. Grows
  BY LinkShape, UndisturbedGrows
<1>4. OldFreed' /\ call'.hit => OldFreed /\ call.hit /\ at' = at
  BY <1>1 DEF OldFreed
<1>5. \A d, p : Directory(d) /\ Holds(d, p) => p[1] # 0
  BY PlacesAre, SizesOK DEF Holds
<1>6. \A b : Claimed(b) => Claimed(b)'
  BY <1>1, <1>3, <1>4, <1>5, KeptOn
<1>7. ASSUME NEW b \in Cluster, fat'[b] # 0, fat[b] # 0 => Reached(b) PROVE Reached(b)'
  <2>1. fat[prev] # 0
    BY <1>1, PlacesAre DEF Owned, Used
  <2>2. Reached(b)
    BY <1>2, <1>7, <2>1
  <2> QED  BY <1>1, <1>2, <1>6, <2>2 DEF Reached
<1> QED  BY <1>1, <1>7, LeakKept

LEMMA WriteClusterLeak ==
    ASSUME TInv, TInv', HitInv, NEW own, Owned(own), Shape, NEW bad, WriteCluster(bad), Clean',
           ReachInv
    PROVE  Accounted'
<1>1. /\ pc = "data" /\ pc \in Busy /\ fat' = fat
      /\ \/ Fail({}) /\ dir' = dir /\ data' = data
         \/ \E c \in Cluster :
             /\ own[c] = New /\ dir' = [dir EXCEPT ![c] = IF call.op = "mkdir" THEN NewDir ELSE Junk]
             /\ pc' \in {"data", "entry"} /\ call' = call /\ first' = first /\ at' = at
  BY WriteClusterIs
<1>2. CASE Fail({}) /\ dir' = dir /\ data' = data
  BY <1>1, <1>2, FailLeak DEF Busy
<1>3. ASSUME NEW c \in Cluster, NEW b, own[c] = New, dir' = [dir EXCEPT ![c] = b],
             pc' \in {"data", "entry"}, call' = call, first' = first, at' = at
      PROVE  Accounted'
  <2>1. Grows
    BY WriteClusterShape, UndisturbedGrows
  <2>2. OldFreed' /\ call'.hit => OldFreed /\ call.hit /\ at' = at
    BY <1>1, <1>3 DEF OldFreed
  <2>3. ASSUME NEW d, NEW p, Directory(d), Holds(d, p) PROVE p[1] # c
    <3>1. p[1] \in Of(d) /\ Rooted(d)
      BY <2>3, DirectoryRooted DEF Holds
    <3>2. own[p[1]] # New
      BY <3>1, Outside
    <3> QED  BY <1>3, <3>2
  <2>4. \A x \in Cluster : x # c => dir'[x] = dir[x]
    BY <1>3 DEF TInv, DiskInv, DirType
  <2>5. \A x : Claimed(x) => Claimed(x)'
    BY <2>1, <2>2, <2>3, <2>4, KeptOn
  <2>6. Of(first)' = Of(first)
    BY <1>1, <1>3, FirstKept, SizesOK
  <2>7. ASSUME NEW x \in Cluster, fat'[x] # 0, fat[x] # 0 => Reached(x) PROVE Reached(x)'
    BY <1>1, <1>3, <2>5, <2>6, <2>7, ReachedOn
  <2> QED  BY <1>1, <1>3, <2>7, LeakKept
<1> QED  BY <1>1, <1>2, <1>3

LEMMA FindRoomLeak ==
    ASSUME TInv, TInv', HitInv, NEW own, Owned(own), Shape, FindRoom, ReachInv
    PROVE  Accounted'
<1>1. /\ pc = "entry" /\ pc \in Busy /\ ~call.hit /\ pc' \in {"expand", "slots"}
      /\ fat' = fat /\ dir' = dir /\ call' = call /\ first' = first
  BY DEF FindRoom, disk, Busy
<1>2. Grows
  BY FindRoomShape, UndisturbedGrows
<1>3. \A d, p : Directory(d) /\ Holds(d, p) => p[1] # 0
  BY PlacesAre, SizesOK DEF Holds
<1>4. \A x : Claimed(x) => Claimed(x)'
  BY <1>1, <1>2, <1>3, KeptOn
<1>5. Of(first)' = Of(first)
  BY <1>1, FirstKept, SizesOK
<1>6. ASSUME NEW x \in Cluster, fat'[x] # 0, fat[x] # 0 => Reached(x) PROVE Reached(x)'
  BY <1>1, <1>4, <1>5, <1>6, ReachedOn
<1> QED  BY <1>1, <1>6, LeakKept

LEMMA ExpandLeak ==
    ASSUME TInv, TInv', HitInv, NEW own, Owned(own), Shape, NEW bad, Expand(bad), Clean',
           ReachInv
    PROVE  Accounted'
<1>1. /\ pc = "expand" /\ pc \in Busy /\ dir' = dir /\ data' = data /\ ~call.hit
      /\ \/ Fail({}) /\ fat' = fat
         \/ \E c \in Cluster \ {Root} :
             /\ fat[c] = 0 /\ fat' = [fat EXCEPT ![c] = EOF] /\ call' = call
             /\ first' = first /\ pc' = "tail" /\ old' = c
  BY ExpandIs
<1>2. CASE Fail({}) /\ fat' = fat
  BY <1>1, <1>2, FailLeak DEF Busy
<1>3. ASSUME NEW c \in Cluster, fat[c] = 0, fat' = [fat EXCEPT ![c] = EOF], call' = call,
             first' = first, pc' = "tail", old' = c
      PROVE  Accounted'
  <2>1. FatType
    BY TInvFat
  <2>2. Grows
    BY ExpandShape, UndisturbedGrows
  <2>3. \A d, p : Directory(d) /\ Holds(d, p) => p[1] # 0
    BY PlacesAre, SizesOK DEF Holds
  <2>4. \A b : Claimed(b) => Claimed(b)'
    BY <1>1, <1>3, <2>2, <2>3, KeptOn
  <2>5. Of(first)' = Of(first)
    BY <1>3, <2>1, FirstKept DEF FatType
  <2>6. ASSUME NEW b \in Cluster, fat'[b] # 0, fat[b] # 0 => Reached(b) PROVE Reached(b)'
    <3>1. CASE b = c
      BY <1>3, <3>1 DEF Reached
    <3>2. CASE b # c
      <4>1. Reached(b)
        BY <1>3, <2>1, <2>6, <3>2 DEF FatType
      <4> QED  BY <1>1, <1>3, <2>4, <2>5, <4>1, ReachedOn
    <3> QED  BY <3>1, <3>2
  <2> QED  BY <1>1, <1>3, <2>6, LeakKept
<1> QED  BY <1>1, <1>2, <1>3

LEMMA LinkTailLeak ==
    ASSUME TInv, TInv', HitInv, NEW own, Owned(own), Shape, NEW bad, LinkTail(bad), Clean',
           ReachInv
    PROVE  Accounted'
<1>1. PICK d : d = call.dir
  OBVIOUS
<1>2. /\ pc = "tail" /\ pc \in Busy /\ pc' = "zero" /\ dir' = dir /\ call' = call
      /\ first' = first /\ ~call.hit /\ Directory(d) /\ Rooted(d)
  BY <1>1, LinkTailIs
<1>3. /\ Of(d)' = Of(d) \cup {old} /\ Of(first)' = Of(first)
      /\ \A c : Rooted(c) /\ c # d => Of(c)' = Of(c)
      /\ \E z \in Of(d) : z \in Cluster /\ fat'[z] = old
                          /\ \A b \in Cluster : b # z => fat'[b] = fat[b]
  BY <1>1, LinkTailChains
<1>4. Grows
  BY <1>3 DEF Grows
<1>5. \A x, p : Directory(x) /\ Holds(x, p) => p[1] # 0
  BY PlacesAre, SizesOK DEF Holds
<1>6. Directory(d)' /\ \A b : Claimed(b) => Claimed(b)'
  BY <1>2, <1>4, <1>5, KeptOn
<1>7. PICK o : o = old
  OBVIOUS
<1>8. Claimed(o)'
  <2>1. DirectoriesKeep'
    BY DirectoriesDo, PTL
  <2>2. o \in Of(d)'
    BY <1>3, <1>7
  <2> QED  BY <1>6, <2>1, <2>2 DEF DirectoriesKeep
<1>9. ASSUME NEW b \in Cluster, fat'[b] # 0, fat[b] # 0 => Reached(b) PROVE Reached(b)'
  <2>1. Reached(b)
    <3>1. PICK z \in Of(d) : \A x \in Cluster : x # z => fat'[x] = fat[x]
      BY <1>3
    <3>2. fat[z] # 0
      BY <1>2, Outside
    <3> QED  BY <1>9, <3>1, <3>2
  <2>2. Claimed(b) \/ b \in Of(first) \/ b = o
    BY <1>2, <1>7, <2>1 DEF Reached
  <2> QED  BY <1>3, <1>6, <1>8, <2>2 DEF Reached
<1> QED  BY <1>2, <1>9, LeakKept

LEMMA ZeroTailLeak ==
    ASSUME TInv, TInv', HitInv, NEW own, Owned(own), Shape, NEW bad, ZeroTail(bad), Clean',
           ReachInv
    PROVE  Accounted'
<1>1. /\ pc = "zero" /\ pc \in Busy /\ pc' = "slots" /\ fat' = fat
      /\ dir' = [dir EXCEPT ![old] = Idle] /\ call' = call /\ first' = first
      /\ ~OldFreed' /\ dir[old] = Junk
  BY ZeroTailIs
<1>2. \A c : Chain(c)' = Chain(c)
  BY <1>1, SameChain
<1>3. Grows
  BY <1>2 DEF Grows, Of
<1>4. PICK z : z = old
  OBVIOUS
<1>5. ASSUME NEW x, NEW p, Directory(x), Holds(x, p) PROVE p[1] # z
  BY <1>1, <1>4, <1>5, NewDirIs, PlacesAre DEF Holds, At
<1>6. \A x \in Cluster : x # z => dir'[x] = dir[x]
  BY <1>1, <1>4 DEF TInv, DiskInv, DirType
<1>7. \A x : Claimed(x) => Claimed(x)'
  BY <1>1, <1>3, <1>5, <1>6, KeptOn
<1>8. Of(first)' = Of(first)
  BY <1>1, FirstKept, SizesOK
<1>9. ASSUME NEW x \in Cluster, fat'[x] # 0, fat[x] # 0 => Reached(x) PROVE Reached(x)'
  BY <1>1, <1>7, <1>8, <1>9, ReachedOn
<1> QED  BY <1>1, <1>9, LeakKept

(* A call begins, and what is to be freed is led to by its entry. *)
LEMMA BeginLeak ==
    ASSUME TInv, TInv', HitInv, NEW own, Owned(own), Shape, Shape', ReachInv,
           NEW op, NEW d, NEW n, NEW len, NEW j, Starts(op, d, n, len, j)
    PROVE  Accounted'
<1>1. /\ d \in Parents /\ j \in Nat /\ Begin(op, d, n, len, j)
      /\ j # 0 => j \in 1 .. Len(Entries(d)) /\ IsEntry(Entries(d)[j])
  BY DEF Starts
<1>2. /\ pc = "none" /\ first = 0 /\ first' = 0 /\ fat' = fat /\ dir' = dir /\ data' = data
      /\ call'.chain = old' /\ ~OldFreed /\ ~OldFreed' /\ (j = 0 => old' = 0)
      /\ (j # 0 => old' = Entries(d)[j].first)
  BY <1>1, BeginIs
<1>3. call'.full <=> \E x \in Range(Entries(old')) : IsEntry(x)
  BY <1>1 DEF Begin
<1>4. Undisturbed
  BY <1>2, StillUndisturbed
<1>5. Empty /\ FatType /\ DirType /\ MarkInv
  BY TInvFat, EmptyIs DEF TInv, DiskInv, Shape
<1>6. EmptyInv'
  <2> SUFFICES ASSUME Directory(old)', ~call'.full PROVE (\A p : ~Holds(old, p))'
    BY DEF EmptyInv
  <2>1. PICK x : x = old'
    OBVIOUS
  <2>2. Directory(x)'
    BY <2>1 DEF Directory
  <2>3. Directory(x) /\ \A p : Holds(x, p)' <=> Holds(x, p)
    BY <1>4, <2>2, DirectoriesKept
  <2>4. ASSUME NEW p PROVE ~Holds(x, p)
    <3> SUFFICES ASSUME Holds(x, p) PROVE FALSE
      OBVIOUS
    <3>1. x \in Link
      BY <2>3, DirectoryRooted
    <3>2. PICK i \in 1 .. Len(Entries(x)) : Entries(x)[i] = At(p)
      BY <1>5, <3>1, HeldListed
    <3>3. Entries(x) \in Seq(EntrySet)
      BY <1>5, <3>1, EntriesAre
    <3>4. Entries(x)[i] \in Range(Entries(x)) /\ IsEntry(Entries(x)[i])
      BY <3>2, <3>3 DEF Range, Holds
    <3> QED  BY <1>3, <2>1, <3>4
  <2>5. Chain(old)' = Chain(x)'
    BY <2>1
  <2>6. \A p : Holds(old, p)' <=> Holds(x, p)'
    BY <2>5 DEF Holds, Of
  <2> QED  BY <2>3, <2>4, <2>6
<1>7. \A x, p : Directory(x) /\ Holds(x, p) => p[1] # 0
  BY PlacesAre, SizesOK DEF Holds
<1>8. \A b : Claimed(b) => Claimed(b)'
  BY <1>2, <1>4, <1>7, UndisturbedGrows, KeptOn
<1>9. ~Emptying
  BY <1>2 DEF Emptying, Busy
<1>10. \A b \in Cluster : fat'[b] # 0 => Reached(b)'
  <2> SUFFICES ASSUME NEW b \in Cluster, fat[b] # 0 PROVE Reached(b)'
    BY <1>2
  <2>1. Claimed(b)
    BY <1>2, <1>5, <1>9 DEF ReachInv, Reached, Empty
  <2> QED  BY <1>8, <2>1 DEF Reached
<1> QED  BY <1>2, <1>6, <1>10 DEF Accounted, ReachInv

(* The entry that is written over, or erased, leads to no chain any more. *)
LEMMA WrittenKept ==
    ASSUME TInv, TInv', HitInv, NEW own, Owned(own), Shape,
           NEW d, NEW c, NEW i, NEW e, Written(d, c, i, e)
    PROVE  /\ \A x : Directory(x) => Directory(x)'
           /\ \A b : Claimed(b) => Claimed(b)'
<1>1. SlotStep(d, c, i, e) /\ (Put(d, c, i, e) \/ PutLong(c, i, e) \/ Drop(d, c, i, e)
                               \/ DropLong(c, i, e))
  BY DEF Written
<1>2. PICK q \in Places : q = <<c, i>>
  BY <1>1 DEF SlotStep
<1>3. Whole(q) => FirstOf(q) = 0
  <2>1. ASSUME Put(d, c, i, e) \/ Drop(d, c, i, e), at = q, call.hit
        PROVE  Whole(q) => FirstOf(q) = 0
    <3>1. FirstOf(at) = call.chain /\ pc # "free"
      BY <1>1, <2>1 DEF Shape, CallPlace, SlotStep, Put, Drop
    <3> QED  BY <2>1, <3>1 DEF Whole, OldFreed
  <2>2. ASSUME dir[c][i] \in {End, Erased} PROVE ~IsEntry(At(q))
    BY <1>2, <2>2 DEF At, IsEntry, End, Erased
  <2>3. ASSUME dir[c][i].kind = "long" PROVE ~IsEntry(At(q))
    BY <1>2, <2>3 DEF At, IsEntry
  <2>4. CASE Put(d, c, i, e)
    BY <1>2, <2>1, <2>2, <2>4 DEF Put, Whole
  <2>5. CASE Drop(d, c, i, e)
    BY <1>2, <2>1, <2>5 DEF Drop
  <2>6. CASE PutLong(c, i, e)
    BY <2>2, <2>6 DEF PutLong, Whole
  <2>7. CASE DropLong(c, i, e)
    BY <2>3, <2>7 DEF DropLong, Whole
  <2> QED  BY <1>1, <2>4, <2>5, <2>6, <2>7
<1>4. OldFreed' /\ call'.hit => OldFreed /\ call.hit /\ at' = at
  <2>1. CASE Ended
    BY <2>1 DEF Ended, NoCall, OldFreed
  <2>2. CASE PutLong(c, i, e) \/ DropLong(c, i, e)
    BY <2>2 DEF PutLong, DropLong, OldFreed
  <2> QED  BY <1>1, <2>1, <2>2 DEF Put, Drop
<1>5. ASSUME NEW p, Listed(p), FirstOf(p) # 0 PROVE Stays(p)
  <2>1. Whole(p) /\ p \in Places /\ p # q
    BY <1>3, <1>5 DEF Listed, Whole
  <2>2. At(p)' = At(p)
    BY <1>1, <1>2, <2>1 DEF SlotStep
  <2> QED  BY <1>4, <2>1, <2>2 DEF Stays, Whole
<1>6. Grows
  BY <1>1 DEF Grows, SlotStep
<1>7. Empty /\ ~Directory(0) /\ 0 # Root
  BY TInvFat, EmptyIs, DirectoryRooted, SizesOK
<1>8. /\ \A x : Directory(x) /\ x # 0 => Directory(x)'
      /\ \A b : Claimed(b) => Claimed(b)' \/ b \in Of(0)
  BY <1>5, <1>6, <1>7, KeptStays
<1> QED  BY <1>7, <1>8 DEF Empty

LEMMA WrittenLeak ==
    ASSUME TInv, TInv', HitInv, NEW own, Owned(own), Shape, Accounted, past' = {},
           NEW d, NEW c, NEW i, NEW e, Written(d, c, i, e)
    PROVE  Accounted'
<1>1. SlotStep(d, c, i, e) /\ (Put(d, c, i, e) \/ PutLong(c, i, e) \/ Drop(d, c, i, e)
                               \/ DropLong(c, i, e))
  BY DEF Written
<1>2. /\ fat' = fat /\ \A x : Of(x)' = Of(x) /\ Chain(x)' = Chain(x)
      /\ pc \in Busy /\ Directory(d) /\ c \in Of(d)
  BY <1>1 DEF SlotStep
<1>3. Directory(d)' /\ \A b : Claimed(b) => Claimed(b)'
  BY <1>2, WrittenKept
<1>4. Empty /\ ReachInv /\ (pc = "erase" => first = 0)
  BY TInvFat, EmptyIs DEF Accounted
<1>5. CASE Put(d, c, i, e)
  <2>1. /\ pc \in {"entry", "slots"} /\ pc' = "none" /\ first' = 0 /\ call'.hit = FALSE
        /\ IsEntry(e) /\ e.first = first
    BY <1>5 DEF Put, Ended, NoCall
  <2>2. ~Emptying
    BY <2>1 DEF Emptying, TInv, CallInv, Busy
  <2>3. ASSUME NEW b \in Of(first) PROVE Claimed(b)'
    <3>1. PICK f, q : f = first /\ q = <<c, i>>
      OBVIOUS
    <3>2. f # 0 /\ b \in Of(f)
      BY <1>4, <2>3, <3>1 DEF Empty
    <3>3. q \in Places /\ At(q)' = e /\ q[1] = c
      BY <1>1, <3>1 DEF SlotStep
    <3>4. Whole(q)' /\ FirstOf(q)' = f
      BY <2>1, <3>1, <3>3 DEF Whole, At, FirstOf
    <3>5. Holds(d, q)'
      BY <1>2, <2>1, <3>3 DEF Holds
    <3>6. Listed(q)'
      BY <1>3, <3>4, <3>5 DEF Listed
    <3>7. b \in Of(FirstOf(q))'
      <4>1. Chain(FirstOf(q))' = Chain(f)'
        BY <3>4
      <4> QED  BY <1>2, <3>2, <4>1 DEF Of
    <3> QED  BY <3>2, <3>4, <3>6, <3>7 DEF Claimed
  <2>4. \A b \in Cluster : fat'[b] # 0 => Reached(b)'
    BY <1>2, <1>3, <1>4, <2>1, <2>2, <2>3 DEF ReachInv, Reached
  <2> QED  BY <2>1, <2>4 DEF Accounted, EmptyInv, ReachInv
<1>6. CASE PutLong(c, i, e)
  <2>1. pc = "slots" /\ pc' = pc /\ first' = first
    BY <1>6 DEF PutLong
  <2>2. \A x \in Of(first) : x \in Of(first)'
    <3>1. PICK f : f = first
      OBVIOUS
    <3>2. Chain(first)' = Chain(f)'
      BY <2>1, <3>1
    <3> QED  BY <1>2, <3>1, <3>2 DEF Of
  <2>3. ASSUME NEW b \in Cluster, fat'[b] # 0, fat[b] # 0 => Reached(b) PROVE Reached(b)'
    BY <1>2, <1>3, <2>1, <2>2, <2>3, ReachedOn
  <2> QED  BY <1>2, <1>4, <2>1, <2>3, LeakKept
<1>7. ASSUME pc = "erase", ~Emptying PROVE \A b \in Cluster : fat'[b] # 0 => Reached(b)'
  BY <1>2, <1>3, <1>4, <1>7 DEF ReachInv, Reached, Empty
<1>8. CASE Drop(d, c, i, e)
  <2>1. pc = "erase" /\ pc' = "none"
    BY <1>8 DEF Drop, Ended
  <2>2. ~call.full
    BY <1>8 DEF Drop
  <2>3. ~Emptying
    BY <2>2 DEF Emptying
  <2> QED  BY <1>7, <2>1, <2>3 DEF Accounted, EmptyInv, ReachInv
<1>9. CASE DropLong(c, i, e)
  <2>1. pc = "erase" /\ pc' = pc /\ call' = call /\ first' = first
    BY <1>9 DEF DropLong
  <2>2. Emptying' <=> Emptying
    BY <2>1 DEF Emptying
  <2> QED  BY <1>4, <1>7, <2>1, <2>2 DEF Accounted, EmptyInv, ReachInv
<1> QED  BY <1>1, <1>5, <1>6, <1>8, <1>9

LEMMA StutterLeak == ASSUME UNCHANGED vars, Accounted PROVE Accounted'
<1>1. /\ fat' = fat /\ dir' = dir /\ pc' = pc /\ call' = call /\ first' = first
      /\ old' = old /\ at' = at
  BY DEF vars, disk, locals
<1>2. \A c : Of(c)' = Of(c) /\ (Directory(c)' <=> Directory(c))
  BY <1>1, SameChain DEF Of, Directory, DirAt, Whole, At, FirstOf, OldFreed
<1>3. \A c, p : /\ (Holds(c, p)' <=> Holds(c, p)) /\ (Whole(p)' <=> Whole(p))
                /\ FirstOf(p)' = FirstOf(p)
  BY <1>1, <1>2 DEF Holds, Whole, At, FirstOf, OldFreed
<1>4. \A p : Listed(p)' <=> Listed(p)
  BY <1>2, <1>3 DEF Listed
<1>5. PICK f, o : f = first /\ o = old
  OBVIOUS
<1>6. Chain(first)' = Chain(f)' /\ Chain(old)' = Chain(o)'
  BY <1>1, <1>5
<1>7. Of(first)' = Of(first) /\ Of(old)' = Of(old)
  BY <1>2, <1>5, <1>6 DEF Of
<1>8. \A b : Claimed(b) => Claimed(b)'
  <2> SUFFICES ASSUME NEW b, Claimed(b) PROVE Claimed(b)'
    OBVIOUS
  <2>1. ASSUME NEW p, Listed(p), FirstOf(p) # 0, b \in Of(FirstOf(p)) PROVE Claimed(b)'
    <3>1. PICK x : x = FirstOf(p)
      OBVIOUS
    <3>2. Chain(FirstOf(p))' = Chain(x)'
      BY <1>3, <3>1
    <3>3. b \in Of(FirstOf(p))'
      BY <1>2, <2>1, <3>1, <3>2 DEF Of
    <3> QED  BY <1>3, <1>4, <2>1, <3>3 DEF Claimed
  <2> QED  BY <1>2, <2>1 DEF Claimed
<1>9. \A b : Reached(b) => Reached(b)'
  BY <1>1, <1>7, <1>8 DEF Reached
<1>10. EmptyInv => EmptyInv'
  <2>1. Directory(old)' <=> Directory(o)
    BY <1>1, <1>2, <1>5 DEF Directory
  <2>2. \A p : Holds(old, p)' <=> Holds(old, p)
    BY <1>1, <1>7 DEF Holds, At
  <2> QED  BY <1>1, <1>5, <2>1, <2>2 DEF EmptyInv
<1> QED  BY <1>1, <1>9, <1>10 DEF Accounted, ReachInv, Emptying

LEMMA NextLeak ==
    ASSUME IInv, ShapeInv, LeakInv, [Next]_vars, past' = {}
    PROVE  Accounted'
<1>1. TInv /\ TInv' /\ HitInv /\ Sound /\ Shape /\ Shape' /\ Clean'
  BY NextShape DEF IInv, Clean
<1>2. past = {} /\ Accounted /\ EmptyInv /\ ReachInv /\ (pc = "erase" => first = 0)
  BY <1>1, PastGrows DEF LeakInv, Accounted
<1>3. PICK own : Owned(own)
  BY <1>1 DEF IInv, OwnInv
<1>4. ASSUME NEW d, NEW c, NEW i, NEW e, Written(d, c, i, e) PROVE Accounted'
  BY <1>1, <1>2, <1>3, <1>4, WrittenLeak
<1>5. ASSUME NEW bad \in BOOLEAN, Write(bad) PROVE Accounted'
  <2>1. CASE FreeChainStep(bad)
    BY <1>1, <1>2, <1>3, <2>1, FreeLeak
  <2>2. CASE Allocate(bad)
    BY <1>1, <1>2, <1>3, <2>2, AllocateLeak
  <2>3. CASE LinkCluster(bad)
    BY <1>1, <1>2, <1>3, <2>3, LinkLeak
  <2>4. CASE WriteCluster(bad)
    BY <1>1, <1>2, <1>3, <2>4, WriteClusterLeak
  <2>5. CASE UpdateEntry(bad)
    <3>1. Fail({}) /\ dir' = dir => Accounted'
      BY <1>1, <1>2, <1>3, <2>5, FailLeak DEF UpdateEntry, Busy
    <3> QED  BY <1>1, <1>3, <1>4, <2>5, <3>1, UpdateWritten
  <2>6. CASE Expand(bad)
    BY <1>1, <1>2, <1>3, <2>6, ExpandLeak
  <2>7. CASE LinkTail(bad)
    BY <1>1, <1>2, <1>3, <2>7, LinkTailLeak
  <2>8. CASE ZeroTail(bad)
    BY <1>1, <1>2, <1>3, <2>8, ZeroTailLeak
  <2>9. CASE WriteSlot(bad)
    <3>1. Fail({}) /\ dir' = dir => Accounted'
      BY <1>1, <1>2, <1>3, <2>9, FailLeak DEF WriteSlot, Busy
    <3> QED  BY <1>1, <1>3, <1>4, <2>9, <3>1, WriteSlotWritten
  <2>10. CASE EraseEntry(bad)
    BY <1>1, <1>3, <1>4, <2>10, EraseWritten
  <2> QED  BY <1>5, <2>1, <2>2, <2>3, <2>4, <2>5, <2>6, <2>7, <2>8, <2>9, <2>10 DEF Write
<1>6. FindRoom => Accounted'
  BY <1>1, <1>2, <1>3, FindRoomLeak
<1>7. ~PowerOff
  BY DEF PowerOff
<1>8. UNCHANGED vars => Accounted'
  BY <1>2, StutterLeak
<1>9. ASSUME NEW op, NEW d, NEW n, NEW len, NEW j, Starts(op, d, n, len, j) PROVE Accounted'
  BY <1>1, <1>2, <1>3, <1>9, BeginLeak
<1> QED  BY <1>1, <1>5, <1>6, <1>7, <1>8, <1>9, StartsOnce, NextSteps

LEMMA InitLeak == Init => LeakInv
<1> SUFFICES ASSUME Init PROVE Accounted
  BY DEF LeakInv
<1>1. pc = "none" /\ fat = [c \in Cluster |-> IF c = Root THEN EOF ELSE 0]
  BY DEF Init
<1>2. FatType /\ Root \in Link /\ Root # 0
  BY InitType, TInvFat, SizesOK DEF Link
<1>3. Root \in Of(Root)
  BY <1>2, OfIs
<1> QED  BY <1>1, <1>3 DEF Accounted, EmptyInv, ReachInv, Reached, Claimed

LEMMA LeakAlways == Spec => [](NamesIInv /\ LeakInv)
<1>1. IInv /\ ShapeInv /\ LeakInv /\ [Next]_vars => LeakInv'
  BY NextLeak DEF LeakInv
<1>2. Spec => []IInv /\ []ShapeInv
  BY ShapeAlways, PTL
<1> QED  BY <1>1, <1>2, InitLeak, NamesIInvAlways, PTL DEF Spec

(* A directory is one of Parents, and what it holds has a chain there. *)
LEMMA ListedChain ==
    ASSUME TInv, Shape, pc = "none", NEW p, Listed(p)
    PROVE  <<p, FirstOf(p)>> \in Chains
<1>1. FatType /\ DirType /\ MarkInv /\ Root \in Link /\ call.hit = FALSE
  <2>1. pc \notin Busy
    BY DEF Busy
  <2>2. call = NoCall
    BY <2>1 DEF TInv, LocalInv
  <2>3. call.hit = FALSE
    BY <2>2 DEF NoCall
  <2> QED  BY <2>3, TInvFat, SizesOK DEF TInv, DiskInv, Shape, Link
<1>2. PICK d : Directory(d) /\ Holds(d, p)
  BY DEF Listed
<1>3. d \in Parents
  <2>1. ASSUME NEW q, DirAt(q), FirstOf(q) = d PROVE d \in Parents
    <3>1. Holds(Root, q) /\ At(q).kind = "dir" /\ At(q).first = d
      BY <2>1 DEF DirAt, Whole, Holds, At, FirstOf
    <3>2. PICK j \in 1 .. Len(Entries(Root)) : Entries(Root)[j] = At(q)
      BY <1>1, <3>1, HeldListed
    <3>3. Entries(Root)[j] \in Range(Entries(Root))
      BY <1>1, EntriesAre DEF Range
    <3> QED  BY <3>1, <3>2, <3>3 DEF Parents
  <2> QED  BY <1>2, <2>1 DEF Directory, Parents
<1>4. d \in Link
  BY <1>2, DirectoryRooted
<1>5. PICK j \in 1 .. Len(Entries(d)) : Place(d, j) = p /\ Entries(d)[j] = At(p)
  BY <1>1, <1>2, <1>4, HeldListed
<1>6. IsEntry(Entries(d)[j]) /\ <<p, FirstOf(p)>> = <<Place(d, j), Entries(d)[j].first>>
  BY <1>2, <1>5 DEF Holds, At, FirstOf
<1>7. <<p, FirstOf(p)>> \in ChainsIn(d)
  BY <1>1, <1>6 DEF ChainsIn
<1> QED  BY <1>3, <1>7 DEF Chains

LEMMA NoLeakImplied == NamesIInv /\ LeakInv => NoLeak
<1> SUFFICES ASSUME NamesIInv, LeakInv, pc = "none", past = {}
             PROVE  {c \in Cluster : fat[c] # 0} = UNION {Clusters(h) : h \in Chains}
  BY DEF NoLeak
<1>1. TInv /\ IInv /\ Shape /\ Sound /\ ReachInv /\ FatType /\ NoClusterShared
  BY TInvFat, OwnedNotShared DEF NamesIInv, IInv, ShapeInv, LeakInv, Accounted, Clean, Sound
<1>2. PICK own : Owned(own)
  BY <1>1 DEF IInv, OwnInv
<1>3. ASSUME NEW c \in Cluster, fat[c] # 0 PROVE \E h \in Chains : c \in Clusters(h)
  <2>1. Claimed(c)
    <3>1. first = 0 /\ ~Emptying
      BY <1>1 DEF TInv, StepInv, Emptying, Busy
    <3>2. Empty
      BY <1>1, EmptyIs
    <3> QED  BY <1>1, <1>3, <3>1, <3>2 DEF ReachInv, Reached, Empty
  <2>2. CASE c \in Of(Root)
    <3>1. PICK h : h = <<<<0, 1>>, Root>>
      OBVIOUS
    <3>2. h \in Chains /\ h[2] = Root
      BY <3>1 DEF Chains
    <3> QED  BY <2>2, <3>2 DEF Clusters, Of
  <2>3. ASSUME NEW p, Listed(p), c \in Of(FirstOf(p)) PROVE \E h \in Chains : c \in Clusters(h)
    <3>1. PICK h : h = <<p, FirstOf(p)>>
      OBVIOUS
    <3>2. h \in Chains /\ h[2] = FirstOf(p)
      BY <1>1, <2>3, <3>1, ListedChain
    <3> QED  BY <2>3, <3>2 DEF Clusters, Of
  <2> QED  BY <2>1, <2>2, <2>3 DEF Claimed
<1>4. ASSUME NEW h \in Chains, NEW c \in Clusters(h) PROVE c \in Cluster /\ fat[c] # 0
  <2>1. h[2] \in Link
    BY <1>1, <1>2, ChainsOwned
  <2>2. c \in Cluster
    BY <1>1, <2>1, OfIs DEF Clusters, Of
  <2>3. fat[c] # 0
    BY <1>1 DEF NoClusterShared, Sound
  <2> QED  BY <2>2, <2>3
<1> QED  BY <1>3, <1>4

(* Between calls every cluster that is not free is in a chain: as long as nothing has gone
   wrong, what Fat32WriteFile, Fat32DeleteFile and Fat32CreateDirectory allocated is in the
   directory or was freed again, whichever write of theirs failed and was noticed. *)
THEOREM Fat32NoLeak == Spec => []NoLeak
BY LeakAlways, NoLeakImplied, PTL
=============================================================================
