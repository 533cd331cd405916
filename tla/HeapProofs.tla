----------------------------- MODULE HeapProofs -----------------------------
(***************************************************************************)
(* The kernel heap with headers, pages and blocks of any size.             *)
(***************************************************************************)
EXTENDS Heap, TLAPS

Headers == [size : Nat \ {0}, free : BOOLEAN, next : Nat, prev : Nat]

ListType == /\ List \subseteq Nat \ {0} /\ block \in [List -> Headers]
            /\ g_heap_head \in List /\ area \subseteq Nat

(* The blocks tile the heap. *)
Apart == \A b, c \in List : b < c => End(b) <= c
Inside == \A b \in List, u \in Nat : b <= u /\ u < End(b) => u \in area
Covered == \A u \in area : \E b \in List : b <= u /\ u < End(b)

(* The list runs both ways, in some order, to one end. *)
Links == /\ block[g_heap_head].prev = Null
         /\ \A b \in List :
            /\ block[b].next # Null => block[b].next \in List /\ block[block[b].next].prev = b
            /\ block[b].prev # Null => block[b].prev \in List /\ block[block[b].prev].next = b
OneEnd == \A b, c \in List : block[b].next = Null /\ block[c].next = Null => b = c
Sorts(r) == \A b \in List : block[b].next # Null => r[b] < r[block[b].next]
Order == \E r \in [List -> Nat] : Sorts(r)

Users == /\ given \subseteq [at : List, size : Nat \ {0}]
         /\ \A g \in given : ~block[g.at].free /\ block[g.at].size >= g.size
         /\ \A g, h \in given : g.at = h.at => g = h
         /\ \A b \in List : block[b].free \/ \E g \in given : g.at = b

CallInv ==
    /\ pc \in {"walk", "split", "take"} => size \in Nat \ {0}
    /\ pc = "walk" => IF last = Null THEN at = g_heap_head
                      ELSE last \in List /\ at = block[last].next
    /\ pc = "walk" /\ grown => at # Null /\ \E b \in List : block[b].next = Null /\ Fits(b)
    /\ pc \in {"split", "take"} => at \in List /\ Fits(at)
    /\ pc \in {"next", "prev"} => at \in List /\ block[at].free

Sound == ListType /\ Apart /\ Inside /\ Covered /\ Links /\ OneEnd /\ Order /\ Users

IInv == /\ torn \in BOOLEAN /\ grown \in BOOLEAN
        /\ torn => pc = "idle"
        /\ ~torn => Sound /\ CallInv

-----------------------------------------------------------------------------
(* The headers, and the pages a request needs. *)

LEMMA BlockFacts ==
  ASSUME ListType, NEW b \in List
  PROVE  /\ b \in Nat \ {0} /\ block[b] \in Headers
         /\ block[b].size \in Nat \ {0} /\ block[b].free \in BOOLEAN
         /\ block[b].next \in Nat /\ block[b].prev \in Nat
         /\ Header \in Nat \ {0} /\ End(b) \in Nat
         /\ End(b) = b + Header + block[b].size /\ b + Header < End(b)
<1>1. block[b] \in Headers /\ b \in Nat \ {0} /\ Header \in Nat \ {0}
  BY HeapAssumption DEF ListType, HeapAssumption
<1>2. block[b].size \in Nat \ {0} /\ block[b].free \in BOOLEAN
      /\ block[b].next \in Nat /\ block[b].prev \in Nat
  BY <1>1 DEF Headers
<1> QED
  BY <1>1, <1>2 DEF End

LEMMA PagesAreEnough ==
  ASSUME size \in Nat \ {0}
  PROVE  /\ NeededPages \in Nat
         /\ NeededPages * PAGE_SIZE \in Nat
         /\ NeededPages * PAGE_SIZE >= size + Header
<1> DEFINE k == (size + Header + PAGE_SIZE - 1) \div PAGE_SIZE
<1>1. PAGE_SIZE \in Nat \ {0} /\ Header \in Nat
  BY HeapAssumption DEF HeapAssumption
<1>2. k \in Int /\ PAGE_SIZE * k <= size + Header + PAGE_SIZE - 1
      /\ size + Header + PAGE_SIZE - 1 < PAGE_SIZE * k + PAGE_SIZE
  BY <1>1, Z3
<1> HIDE DEF k
<1>3. PAGE_SIZE * k = k * PAGE_SIZE /\ k * PAGE_SIZE \in Int
  BY <1>1, <1>2, Z3
<1>4. k * PAGE_SIZE >= size + Header
  BY <1>1, <1>2, <1>3
<1>5. k >= 0
  <2> SUFFICES ASSUME k < 0 PROVE FALSE
    BY <1>2
  <2>1. k * PAGE_SIZE <= 0
    BY <1>1, <1>2, Z3
  <2> QED
    BY <1>1, <1>3, <1>4, <2>1
<1>6. k = NeededPages
  BY DEF k, NeededPages
<1> QED
  BY <1>1, <1>2, <1>3, <1>4, <1>5, <1>6

-----------------------------------------------------------------------------
(* HeapSplitBlock: the second part of a free block becomes a block. *)

LEMMA SplitFacts ==
  ASSUME Sound, at \in List, size \in Nat \ {0}, Splits, HeapSplitBlock,
         NEW n, n = at + Header + size
  PROVE  /\ n \in Nat \ {0} /\ n \notin List /\ List' = List \cup {n}
         /\ at < n /\ n + Header < End(at)
         /\ block' \in [List' -> Headers]
         /\ block'[n].size = block[at].size - size - Header
         /\ block'[n].free /\ block'[n].next = block[at].next /\ block'[n].prev = at
         /\ block'[at].size = size /\ block'[at].next = n
         /\ block'[at].prev = block[at].prev /\ block'[at].free = block[at].free
         /\ \A c \in List : c # at =>
              /\ block'[c].size = block[c].size /\ block'[c].free = block[c].free
              /\ block'[c].next = block[c].next
              /\ block'[c].prev = IF c = block[at].next THEN at + Header + size
                                                        ELSE block[c].prev
<1>1. /\ at \in Nat \ {0} /\ block[at] \in Headers /\ block[at].size \in Nat
      /\ Header \in Nat \ {0} /\ End(at) = at + Header + block[at].size
      /\ block[at].next \in Nat /\ block[at].prev \in Nat
  BY BlockFacts DEF Sound
<1>2. block[at].size >= size + Header + 1
  BY <1>1, HeapAssumption DEF Splits, HeapAssumption
<1>3. n \in Nat \ {0} /\ at < n /\ n + Header < End(at)
  BY <1>1, <1>2
<1>4. n \notin List
  BY <1>1, <1>3 DEF Sound, Apart
<1>5. List' = List \cup {n} /\ block' = [c \in List' |-> block'[c]]
  <2>1. block' = [c \in List \cup {at + Header + size} |-> block'[c]]
    BY DEF HeapSplitBlock
  <2>2. DOMAIN block' = List \cup {at + Header + size}
    BY <2>1
  <2>3. List' = DOMAIN block'
    BY DEF List
  <2> QED
    BY <2>1, <2>2, <2>3
<1>6. block'[n] = [size |-> block[at].size - size - Header, free |-> TRUE,
                   next |-> block[at].next, prev |-> at]
  BY DEF HeapSplitBlock
<1>7. block'[at] = [block[at] EXCEPT !.size = size, !.next = n]
  BY <1>4 DEF HeapSplitBlock
<1>8. \A c \in List : c # at =>
        block'[c] = IF c = block[at].next THEN [block[c] EXCEPT !.prev = n] ELSE block[c]
  BY <1>4 DEF HeapSplitBlock
<1>9. \A c \in List : block[c] \in Headers
  BY DEF Sound, ListType
<1>10. block'[n] \in Headers
  BY <1>1, <1>2, <1>6 DEF Headers
<1>11. block'[at] \in Headers
  BY <1>1, <1>3, <1>7 DEF Headers
<1>12. \A c \in List : c # at => block'[c] \in Headers
  BY <1>3, <1>8, <1>9 DEF Headers
<1>13. block' \in [List' -> Headers]
  <2>1. block' = [c \in List' |-> block'[c]]
    BY <1>5
  <2>2. \A c \in List' : block'[c] \in Headers
    BY <1>5, <1>10, <1>11, <1>12
  <2> QED
    BY <2>1, <2>2
<1>14. /\ block'[at].size = size /\ block'[at].next = n
       /\ block'[at].prev = block[at].prev /\ block'[at].free = block[at].free
  BY <1>1, <1>7 DEF Headers
<1>15. \A c \in List : c # at =>
              /\ block'[c].size = block[c].size /\ block'[c].free = block[c].free
              /\ block'[c].next = block[c].next
              /\ block'[c].prev = IF c = block[at].next THEN n ELSE block[c].prev
  BY <1>8, <1>9 DEF Headers
<1> QED
  BY <1>3, <1>4, <1>5, <1>6, <1>13, <1>14, <1>15

LEMMA SplitSound ==
  ASSUME Sound, at \in List, block[at].free, size \in Nat \ {0}, Splits,
         HeapSplitBlock, UNCHANGED <<g_heap_head, area, given>>,
         NEW a, a = at, NEW n, n = at + Header + size
  PROVE  Sound' /\ List \subseteq List' /\ block'[at].free /\ block'[at].size = size
<1>1. /\ n \in Nat \ {0} /\ n \notin List /\ List' = List \cup {n}
      /\ a < n /\ n + Header < End(a)
      /\ block' \in [List' -> Headers]
      /\ block'[n].size = block[a].size - size - Header
      /\ block'[n].free /\ block'[n].next = block[a].next /\ block'[n].prev = a
      /\ block'[a].size = size /\ block'[a].next = n
      /\ block'[a].prev = block[a].prev /\ block'[a].free = block[a].free
      /\ n = a + Header + size
  BY SplitFacts
<1>2. \A c \in List : c # a =>
              /\ block'[c].size = block[c].size /\ block'[c].free = block[c].free
              /\ block'[c].next = block[c].next
              /\ block'[c].prev = IF c = block[a].next THEN n ELSE block[c].prev
  BY SplitFacts
<1>3. /\ a \in Nat \ {0} /\ block[a].size \in Nat /\ Header \in Nat \ {0}
      /\ End(a) = a + Header + block[a].size
      /\ List \subseteq Nat \ {0}
      /\ \A c \in List : End(c) \in Nat /\ c < End(c)
  BY BlockFacts DEF Sound, ListType
<1>4. /\ \A c \in List : c # a => End(c)' = End(c)
      /\ End(n)' = End(a) /\ End(a)' = n
  BY <1>1, <1>2, <1>3 DEF End
<1>5. ListType'
  BY <1>1, <1>3 DEF Sound, ListType
<1>6. Apart'
  <2> SUFFICES ASSUME NEW b \in List', NEW c \in List', b < c
               PROVE  (End(b) <= c)'
    BY DEF Apart
  <2>1. \A x, y \in List : x < y => End(x) <= y
    BY DEF Sound, Apart
  <2>2. CASE b = n
    BY <1>1, <1>3, <1>4, <2>1, <2>2
  <2>3. CASE c = n /\ b # n
    BY <1>1, <1>3, <1>4, <2>1, <2>3
  <2>4. CASE b # n /\ c # n
    BY <1>1, <1>3, <1>4, <2>1, <2>4
  <2> QED
    BY <2>2, <2>3, <2>4
<1>7. Inside'
  <2> SUFFICES ASSUME NEW b \in List', NEW u \in Nat, b <= u, u < End(b)'
               PROVE  u \in area
    BY DEF Inside
  <2>1. \A c \in List : c <= u /\ u < End(c) => u \in area
    BY DEF Sound, Inside
  <2>2. CASE b = n
    <3>1. a <= u /\ u < End(a)
      BY <1>1, <1>3, <1>4, <2>2
    <3> QED
      BY <2>1, <3>1
  <2>3. CASE b = a
    <3>1. u < End(a)
      BY <1>1, <1>3, <1>4, <2>3
    <3> QED
      BY <2>1, <2>3, <3>1
  <2>4. CASE b # n /\ b # a
    BY <1>1, <1>4, <2>1, <2>4
  <2> QED
    BY <2>2, <2>3, <2>4
<1>8. Covered'
  <2> SUFFICES ASSUME NEW u \in area PROVE \E b \in List' : b <= u /\ u < End(b)'
    BY DEF Covered
  <2>1. PICK b \in List : b <= u /\ u < End(b)
    BY DEF Sound, Covered
  <2>2. u \in Nat
    BY DEF Sound, ListType
  <2>3. CASE b # a
    BY <1>1, <1>4, <2>1, <2>3
  <2>4. CASE b = a
    BY <1>1, <1>3, <1>4, <2>1, <2>2, <2>4
  <2> QED
    BY <2>3, <2>4
<1>9. /\ block[g_heap_head].prev = Null /\ g_heap_head \in List
      /\ \A b \in List : block[b].next # Null =>
                           block[b].next \in List /\ block[block[b].next].prev = b
      /\ \A b \in List : block[b].prev # Null =>
                           block[b].prev \in List /\ block[block[b].prev].next = b
  BY DEF Sound, Links, ListType
<1>10. PICK r \in [List -> Nat] : Sorts(r)
  BY DEF Sound, Order
<1>11. block[a].next # a
  BY <1>3, <1>10 DEF Sorts, Null
<1>12. Links'
  <2>1. (block[g_heap_head].prev = Null)'
    BY <1>1, <1>2, <1>3, <1>9 DEF Null
  <2> SUFFICES ASSUME NEW b \in List'
               PROVE  /\ block'[b].next # Null =>
                           block'[b].next \in List' /\ block'[block'[b].next].prev = b
                      /\ block'[b].prev # Null =>
                           block'[b].prev \in List' /\ block'[block'[b].prev].next = b
    BY <2>1 DEF Links
  <2>2. CASE b = n
    BY <1>1, <1>2, <1>3, <1>9, <1>11, <2>2
  <2>3. CASE b = a
    <3> DEFINE p == block[a].prev
    <3>1. p # Null => p \in List /\ block[p].next = a
      BY <1>9
    <3>2. p # Null => p # a /\ block'[p].next = a
      BY <1>2, <1>11, <3>1
    <3> QED
      BY <1>1, <2>3, <3>1, <3>2
  <2>4. CASE b # n /\ b # a
    <3>1. block'[b].next = block[b].next /\ b \in List
      BY <1>1, <1>2, <2>4
    <3>2. block[b].next # Null => block[b].next # block[a].next
      BY <1>9, <3>1, <2>4
    <3>3. block[b].next # Null =>
            block'[b].next \in List' /\ block'[block'[b].next].prev = b
      BY <1>1, <1>2, <1>9, <3>1, <3>2
    <3>4. CASE b = block[a].next
      BY <1>1, <1>2, <2>4, <3>1, <3>3, <3>4
    <3>5. CASE b # block[a].next
      <4>1. block'[b].prev = block[b].prev
        BY <1>2, <2>4, <3>1, <3>5
      <4>2. block[b].prev # Null => block[b].prev # a
        BY <1>9, <3>1, <3>5
      <4> QED
        BY <1>1, <1>2, <1>9, <3>1, <3>3, <4>1, <4>2
    <3> QED
      BY <3>4, <3>5
  <2> QED
    BY <2>2, <2>3, <2>4
<1>13. OneEnd'
  BY <1>1, <1>2, <1>3 DEF Sound, OneEnd, Null
<1>14. Order'
  <2>0. PICK q : q = [c \in List' |-> IF c = n THEN r[a] + 1
                                   ELSE IF r[c] > r[a] THEN r[c] + 1 ELSE r[c]]
    OBVIOUS
  <2>1. \A c \in List : r[c] \in Nat
    OBVIOUS
  <2>2. q \in [List' -> Nat]
    BY <1>1, <2>0, <2>1
  <2>3. q[n] = r[a] + 1
    BY <1>1, <2>0
  <2>4. \A c \in List : q[c] = IF r[c] > r[a] THEN r[c] + 1 ELSE r[c]
    BY <1>1, <2>0
  <2>5. \A b \in List : block[b].next # Null => r[b] < r[block[b].next]
    BY <1>10 DEF Sorts
  <2>6. \A b \in List' : block'[b].next # Null => q[b] < q[block'[b].next]
    <3> SUFFICES ASSUME NEW b \in List', block'[b].next # Null
                 PROVE  q[b] < q[block'[b].next]
      OBVIOUS
    <3>1. CASE b = n
      <4>1. a \in List /\ block'[b].next = block[a].next
        BY <1>1, <3>1
      <4>2. block[a].next \in List /\ r[a] < r[block[a].next]
        BY <1>9, <2>5, <4>1
      <4> QED
        BY <2>1, <2>3, <2>4, <3>1, <4>1, <4>2
    <3>2. CASE b = a
      BY <1>1, <2>1, <2>3, <2>4, <3>2
    <3>3. CASE b # n /\ b # a
      <4>1. b \in List /\ block'[b].next = block[b].next
        BY <1>1, <1>2, <3>3
      <4>2. block[b].next \in List /\ r[b] < r[block[b].next]
        BY <1>9, <2>5, <4>1
      <4> QED
        BY <2>1, <2>4, <4>1, <4>2
    <3> QED
      BY <3>1, <3>2, <3>3
  <2>7. Sorts(q)'
    BY <2>6 DEF Sorts
  <2> QED
    BY <2>2, <2>7 DEF Order
<1>15. Users'
  BY <1>1, <1>2 DEF Sound, Users
<1> QED
  BY <1>1, <1>5, <1>6, <1>7, <1>8, <1>12, <1>13, <1>14, <1>15 DEF Sound

-----------------------------------------------------------------------------
(* HeapCoalesce: a free block becomes a part of the one it follows. *)

LEMMA JoinFacts ==
  ASSUME Sound, NEW a \in List, NEW b \in List, a # b, Join(a, b), NEW m,
         m = block[b].next, m # a
  PROVE  /\ List' = List \ {b} /\ block' \in [List' -> Headers]
         /\ block'[a].size = block[a].size + Header + block[b].size
         /\ block'[a].next = m
         /\ block'[a].prev = block[a].prev /\ (block[a].free => block'[a].free)
         /\ \A c \in List \ {a, b} :
              /\ block'[c].size = block[c].size /\ block'[c].free = block[c].free
              /\ block'[c].next = block[c].next
              /\ block'[c].prev = IF c = m THEN a ELSE block[c].prev
<1>1. /\ \A c \in List : block[c] \in Headers /\ c \in Nat
      /\ block[a] \in Headers /\ a \in Nat
      /\ block[a].size \in Nat \ {0} /\ block[b].size \in Nat \ {0}
      /\ Header \in Nat \ {0} /\ m \in Nat
  BY BlockFacts DEF Sound
<1>2. List' = List \ {b} /\ block' = [c \in List' |-> block'[c]]
  <2>1. block' = [c \in List \ {b} |-> block'[c]]
    BY DEF Join
  <2>2. DOMAIN block' = List \ {b}
    BY <2>1
  <2>3. List' = DOMAIN block'
    BY DEF List
  <2> QED
    BY <2>1, <2>2, <2>3
<1>3. block'[a] = [block[a] EXCEPT !.size = block[a].size + Header + block[b].size,
                                  !.next = m]
  BY DEF Join
<1>4. \A c \in List \ {a, b} :
        block'[c] = IF c = m THEN [block[c] EXCEPT !.prev = a] ELSE block[c]
  BY DEF Join
<1>5. /\ block'[a].size = block[a].size + Header + block[b].size
      /\ block'[a].next = m
      /\ block'[a].prev = block[a].prev /\ block'[a].free = block[a].free
      /\ block'[a] \in Headers
  <2>1. block[a] = [size |-> block[a].size, free |-> block[a].free,
                    next |-> block[a].next, prev |-> block[a].prev]
        /\ block[a].free \in BOOLEAN /\ block[a].prev \in Nat
    BY <1>1 DEF Headers
  <2>2. block'[a] = [size |-> block[a].size + Header + block[b].size,
                     free |-> block[a].free, next |-> m, prev |-> block[a].prev]
    BY <1>3, <2>1
  <2>3. block[a].size + Header + block[b].size \in Nat \ {0}
    BY <1>1
  <2> QED
    BY <1>1, <2>1, <2>2, <2>3 DEF Headers
<1>6. \A c \in List \ {a, b} :
        /\ block'[c].size = block[c].size /\ block'[c].free = block[c].free
        /\ block'[c].next = block[c].next
        /\ block'[c].prev = IF c = m THEN a ELSE block[c].prev
        /\ block'[c] \in Headers
  <2> SUFFICES ASSUME NEW c \in List \ {a, b}
               PROVE  /\ block'[c].size = block[c].size /\ block'[c].free = block[c].free
                      /\ block'[c].next = block[c].next
                      /\ block'[c].prev = IF c = m THEN a ELSE block[c].prev
                      /\ block'[c] \in Headers
    OBVIOUS
  <2>1. block[c] \in Headers
    BY <1>1
  <2>2. block'[c] = IF c = m THEN [block[c] EXCEPT !.prev = a] ELSE block[c]
    BY <1>4
  <2> QED
    BY <1>1, <2>1, <2>2 DEF Headers
<1>7. \A c \in List' : block'[c] \in Headers
  BY <1>2, <1>5, <1>6
<1> QED
  BY <1>2, <1>5, <1>6, <1>7

LEMMA JoinSound ==
  ASSUME Sound, NEW a \in List, NEW b \in List, block[a].next = b, End(a) = b,
         block[a].free, block[b].free, Join(a, b),
         UNCHANGED <<g_heap_head, area, given>>, NEW m, m = block[b].next
  PROVE  Sound' /\ a \in List' /\ block'[a].free
<1>1. /\ a \in Nat \ {0} /\ b \in Nat \ {0} /\ Header \in Nat \ {0}
      /\ block[a].size \in Nat \ {0} /\ block[b].size \in Nat \ {0}
      /\ List \subseteq Nat \ {0}
      /\ \A c \in List : End(c) \in Nat /\ c < End(c)
      /\ End(a) = a + Header + block[a].size /\ End(b) = b + Header + block[b].size
  BY BlockFacts DEF Sound, ListType
<1>2. /\ block[g_heap_head].prev = Null /\ g_heap_head \in List
      /\ \A c \in List : block[c].next # Null =>
                           block[c].next \in List /\ block[block[c].next].prev = c
      /\ \A c \in List : block[c].prev # Null =>
                           block[c].prev \in List /\ block[block[c].prev].next = c
  BY DEF Sound, Links, ListType
<1>3. PICK r \in [List -> Nat] : Sorts(r)
  BY DEF Sound, Order
<1>4. \A c \in List : r[c] \in Nat /\ (block[c].next # Null => r[c] < r[block[c].next])
  BY <1>3 DEF Sorts
<1>5. a # b /\ m # a /\ m # b
  <2>1. r[a] < r[b]
    BY <1>1, <1>4 DEF Null
  <2>2. m # Null => r[b] < r[m]
    BY <1>4
  <2> QED
    BY <1>1, <1>4, <2>1, <2>2 DEF Null
<1>6. m = block[b].next /\ (m # Null => m \in List /\ block[m].prev = b)
  BY <1>2
<1>7. /\ List' = List \ {b}
      /\ block' \in [List' -> Headers]
      /\ block'[a].size = block[a].size + Header + block[b].size
      /\ block'[a].next = m
      /\ block'[a].prev = block[a].prev
      /\ block'[a].free
  <2>1. Sound /\ a \in List /\ b \in List /\ a # b /\ Join(a, b) /\ m # a
    BY <1>5
  <2>2. List' = List \ {b} /\ block' \in [List' -> Headers]
    BY <1>6, <2>1, JoinFacts
  <2>3. block'[a].size = block[a].size + Header + block[b].size
    BY <1>6, <2>1, JoinFacts
  <2>4. block'[a].next = m
    BY <1>6, <2>1, JoinFacts
  <2>5. block'[a].prev = block[a].prev
    BY <1>6, <2>1, JoinFacts
  <2>6. block[a].free => block'[a].free
    BY <1>6, <2>1, JoinFacts
  <2> QED
    BY <2>2, <2>3, <2>4, <2>5, <2>6
<1>8. \A c \in List \ {a, b} :
              /\ block'[c].size = block[c].size /\ block'[c].free = block[c].free
              /\ block'[c].next = block[c].next
              /\ block'[c].prev = IF c = m THEN a ELSE block[c].prev
  BY <1>5, <1>6, JoinFacts
<1>9. block[b].prev = a
  BY <1>1, <1>2 DEF Null
<1>10. /\ \A c \in List \ {a, b} : End(c)' = End(c)
       /\ End(a)' = End(b)
  BY <1>1, <1>7, <1>8 DEF End
<1>11. ListType'
  <2>1. g_heap_head # b
    BY <1>1, <1>2, <1>9 DEF Null
  <2> QED
    BY <1>1, <1>7, <2>1 DEF Sound, ListType
<1>12. Apart'
  <2> SUFFICES ASSUME NEW c \in List', NEW d \in List', c < d
               PROVE  (End(c) <= d)'
    BY DEF Apart
  <2>1. \A x, y \in List : x < y => End(x) <= y
    BY DEF Sound, Apart
  <2>2. CASE c = a
    <3>1. d \in List /\ d # b /\ End(a) <= d
      BY <1>7, <2>1, <2>2
    <3>2. End(b) <= d
      BY <1>1, <2>1, <3>1
    <3> QED
      BY <1>10, <2>2, <3>2
  <2>3. CASE c # a
    <3>1. c \in List \ {a, b} /\ d \in List
      BY <1>7, <2>3
    <3>2. End(c)' = End(c) /\ End(c) <= d
      BY <1>10, <2>1, <3>1
    <3> QED
      BY <3>2
  <2> QED
    BY <2>2, <2>3
<1>13. Inside'
  <2> SUFFICES ASSUME NEW c \in List', NEW u \in Nat, c <= u, u < End(c)'
               PROVE  u \in area
    BY DEF Inside
  <2>1. \A d \in List : d <= u /\ u < End(d) => u \in area
    BY DEF Sound, Inside
  <2>2. CASE c = a
    BY <1>1, <1>10, <2>1, <2>2
  <2>3. CASE c # a
    BY <1>7, <1>10, <2>1, <2>3
  <2> QED
    BY <2>2, <2>3
<1>14. Covered'
  <2> SUFFICES ASSUME NEW u \in area PROVE \E c \in List' : c <= u /\ u < End(c)'
    BY DEF Covered
  <2>1. PICK c \in List : c <= u /\ u < End(c)
    BY DEF Sound, Covered
  <2>2. u \in Nat
    BY DEF Sound, ListType
  <2>3. CASE c \in {a, b}
    <3>1. a <= u /\ u < End(b)
      BY <1>1, <2>1, <2>2, <2>3
    <3>2. a \in List' /\ End(a)' = End(b)
      BY <1>5, <1>7, <1>10
    <3> QED
      BY <3>1, <3>2
  <2>4. CASE c \notin {a, b}
    BY <1>7, <1>10, <2>1, <2>4
  <2> QED
    BY <2>3, <2>4
<1>15. Links'
  <2>1. (block[g_heap_head].prev = Null)'
    <3>1. g_heap_head # m /\ g_heap_head # b
      BY <1>1, <1>2, <1>6, <1>9 DEF Null
    <3> QED
      BY <1>2, <1>7, <1>8, <3>1
  <2> SUFFICES ASSUME NEW c \in List'
               PROVE  /\ block'[c].next # Null =>
                           block'[c].next \in List' /\ block'[block'[c].next].prev = c
                      /\ block'[c].prev # Null =>
                           block'[c].prev \in List' /\ block'[block'[c].prev].next = c
    BY <2>1 DEF Links
  <2>2. CASE c = a
    <3>1. m # Null => m \in List' /\ block'[m].prev = a
      BY <1>5, <1>7, <1>8, <1>6
    <3> DEFINE p == block[a].prev
    <3>2. p # Null => p \in List /\ block[p].next = a
      BY <1>2
    <3>3. p # Null => p # a /\ p # b
      BY <1>5, <1>6, <3>2
    <3>4. p # Null => p \in List' /\ block'[p].next = a
      BY <1>7, <1>8, <3>2, <3>3
    <3> QED
      BY <1>7, <2>2, <3>1, <3>4
  <2>3. CASE c # a
    <3>1. c \in List /\ c # b /\ block'[c].next = block[c].next
      BY <1>7, <1>8, <2>3
    <3> DEFINE d == block[c].next
               p == block[c].prev
    <3>2. d # Null => d \in List /\ block[d].prev = c
      BY <1>2, <3>1
    <3>3. d # Null => d # b /\ d # m
      BY <1>6, <1>9, <2>3, <3>1, <3>2
    <3>4. d # Null => d \in List' /\ block'[d].prev = c
      BY <1>7, <1>8, <3>2, <3>3
    <3>5. CASE c = m
      BY <1>5, <1>7, <1>8, <2>3, <3>1, <3>4, <3>5
    <3>6. CASE c # m
      <4>1. block'[c].prev = p
        BY <1>8, <2>3, <3>1, <3>6
      <4>2. p # Null => p \in List /\ block[p].next = c
        BY <1>2, <3>1
      <4>3. p # Null => p # b /\ p # a
        BY <1>6, <3>1, <3>6, <4>2
      <4>4. p # Null => p \in List' /\ block'[p].next = c
        BY <1>7, <1>8, <4>2, <4>3
      <4> QED
        BY <3>1, <3>4, <4>1, <4>4
    <3> QED
      BY <3>5, <3>6
  <2> QED
    BY <2>2, <2>3
<1>16. OneEnd'
  <2>1. \A c, d \in List : block[c].next = Null /\ block[d].next = Null => c = d
    BY DEF Sound, OneEnd
  <2>2. \A c \in List' : block'[c].next = Null =>
          \/ c = a /\ block[b].next = Null
          \/ c # b /\ block[c].next = Null
    BY <1>7, <1>8, <1>6
  <2> QED
    BY <1>7, <2>1, <2>2 DEF OneEnd
<1>17. Order'
  <2>0. PICK q : q = [c \in List' |-> r[c]]
    OBVIOUS
  <2>1. q \in [List' -> Nat] /\ \A c \in List' : q[c] = r[c]
    BY <1>4, <1>7, <2>0
  <2>2. \A c \in List' : block'[c].next # Null => q[c] < q[block'[c].next]
    <3> SUFFICES ASSUME NEW c \in List', block'[c].next # Null
                 PROVE  q[c] < q[block'[c].next]
      OBVIOUS
    <3>1. CASE c = a
      <4>1. block'[c].next = m /\ m # Null /\ m \in List'
        BY <1>5, <1>7, <1>6, <3>1
      <4>2. r[a] < r[b] /\ r[b] < r[m]
        BY <1>1, <1>4, <1>6, <4>1 DEF Null
      <4>3. r[a] < r[m]
        BY <1>4, <1>6, <4>1, <4>2
      <4> QED
        BY <2>1, <3>1, <4>1, <4>3
    <3>2. CASE c # a
      <4>1. c \in List /\ c # b /\ block'[c].next = block[c].next
        BY <1>7, <1>8, <3>2
      <4>2. block'[c].next \in List'
        BY <1>11, <1>15 DEF Links
      <4> QED
        BY <1>4, <2>1, <4>1, <4>2
    <3> QED
      BY <3>1, <3>2
  <2>3. Sorts(q)'
    BY <2>2 DEF Sorts
  <2> QED
    BY <2>1, <2>3 DEF Order
<1>18. Users'
  BY <1>7, <1>8 DEF Sound, Users
<1> QED
  BY <1>5, <1>7, <1>11, <1>12, <1>13, <1>14, <1>15, <1>16, <1>17, <1>18 DEF Sound

-----------------------------------------------------------------------------
(* HeapExpand: pages the heap did not have become the last block. *)

Extend(b) == [c \in List \cup {b} |->
                 IF c = b THEN Alone(NeededPages, last)
                 ELSE IF c = last THEN [block[c] EXCEPT !.next = b] ELSE block[c]]

LEMMA ExtendFacts ==
  ASSUME Sound, last \in List, size \in Nat \ {0}, NEW b \in Pages(NeededPages),
         block' = Extend(b), NEW l, l = last
  PROVE  /\ b \in Nat \ {0} /\ b \notin List /\ List' = List \cup {b}
         /\ block' \in [List' -> Headers]
         /\ block'[b].size = NeededPages * PAGE_SIZE - Header
         /\ block'[b].size >= size
         /\ block'[b].free /\ block'[b].next = Null /\ block'[b].prev = l
         /\ block'[l].next = b
         /\ \A c \in List : /\ block'[c].size = block[c].size
                            /\ block'[c].prev = block[c].prev
                            /\ block[c].free => block'[c].free
                            /\ block'[c].free => block[c].free
                            /\ c # l => block'[c].next = block[c].next
<1> DEFINE k == NeededPages * PAGE_SIZE
<1>1. k \in Nat /\ k >= size + Header /\ Header \in Nat \ {0}
  BY PagesAreEnough, HeapAssumption DEF HeapAssumption
<1>2. b \in Nat \ {0} /\ Bytes(b, k) \cap area = {}
  BY HeapAssumption DEF Pages, HeapAssumption
<1>3. Bytes(b, k) = b .. b + k - 1
  BY DEF Bytes
<1>4. Alone(NeededPages, last)
        = [size |-> k - Header, free |-> TRUE, next |-> Null, prev |-> l]
  BY DEF Alone
<1> HIDE DEF k
<1>5. b \notin List
  <2> SUFFICES ASSUME b \in List PROVE FALSE
    OBVIOUS
  <2>1. b <= b /\ b < End(b)
    BY BlockFacts DEF Sound
  <2>2. b \in area
    BY <1>2, <2>1 DEF Sound, Inside
  <2>3. b \in Bytes(b, k)
    BY <1>1, <1>2, <1>3
  <2> QED
    BY <1>2, <2>2, <2>3
<1>6. List' = List \cup {b} /\ block' = [c \in List' |-> block'[c]]
  <2>1. block' = [c \in List \cup {b} |-> block'[c]]
    BY DEF Extend
  <2>2. DOMAIN block' = List \cup {b}
    BY <2>1
  <2>3. List' = DOMAIN block'
    BY DEF List
  <2> QED
    BY <2>1, <2>2, <2>3
<1>7. block'[b] = [size |-> k - Header, free |-> TRUE, next |-> Null, prev |-> l]
  BY <1>4 DEF Extend
<1>8. \A c \in List : block'[c] = IF c = l THEN [block[c] EXCEPT !.next = b] ELSE block[c]
  BY <1>5 DEF Extend
<1>9. l \in Nat /\ k - Header \in Nat \ {0}
  BY <1>1 DEF Sound, ListType
<1>10. /\ block'[b].size = k - Header /\ block'[b].size >= size
       /\ block'[b].free /\ block'[b].next = Null /\ block'[b].prev = l
       /\ block'[b] \in Headers
  BY <1>1, <1>7, <1>9 DEF Headers, Null
<1>11. \A c \in List : /\ block'[c].size = block[c].size
                       /\ block'[c].prev = block[c].prev
                       /\ block[c].free => block'[c].free
                       /\ block'[c].free => block[c].free
                       /\ c # l => block'[c].next = block[c].next
                       /\ block'[c] \in Headers
  <2> SUFFICES ASSUME NEW c \in List
               PROVE  /\ block'[c].size = block[c].size
                      /\ block'[c].prev = block[c].prev
                      /\ block[c].free => block'[c].free
                      /\ block'[c].free => block[c].free
                      /\ c # l => block'[c].next = block[c].next
                      /\ block'[c] \in Headers
    OBVIOUS
  <2>1. block[c] \in Headers
    BY DEF Sound, ListType
  <2>2. block'[c] = IF c = l THEN [block[c] EXCEPT !.next = b] ELSE block[c]
    BY <1>8
  <2> QED
    BY <1>2, <2>1, <2>2 DEF Headers
<1>12. block'[l].next = b
  <2>1. block[l] \in Headers /\ block'[l] = [block[l] EXCEPT !.next = b]
    BY <1>8 DEF Sound, ListType
  <2> QED
    BY <2>1 DEF Headers
<1>13. \A c \in List' : block'[c] \in Headers
  BY <1>6, <1>10, <1>11
<1> QED
  BY <1>2, <1>5, <1>6, <1>10, <1>11, <1>12, <1>13 DEF k

LEMMA ExtendSound ==
  ASSUME Sound, last \in List, block[last].next = Null, size \in Nat \ {0},
         NEW b \in Pages(NeededPages), block' = Extend(b),
         area' = area \cup Bytes(b, NeededPages * PAGE_SIZE),
         UNCHANGED <<g_heap_head, given>>
  PROVE  /\ Sound'
         /\ b \in List' /\ block'[b].next = Null /\ block'[b].free
         /\ block'[b].size >= size
<1>1. PICK l : l = last
  OBVIOUS
<1>2. PICK k : k = NeededPages * PAGE_SIZE
  OBVIOUS
<1>3. /\ k \in Nat /\ k >= size + Header /\ Header \in Nat \ {0}
      /\ Bytes(b, k) \cap area = {} /\ Bytes(b, k) = b .. b + k - 1
      /\ area' = area \cup Bytes(b, k)
  BY <1>2, PagesAreEnough, HeapAssumption DEF Pages, HeapAssumption, Bytes
<1>4. /\ b \in Nat \ {0} /\ b \notin List /\ List' = List \cup {b}
      /\ block' \in [List' -> Headers]
      /\ block'[b].size = k - Header
      /\ block'[b].size >= size
      /\ block'[b].free /\ block'[b].next = Null /\ block'[b].prev = l
      /\ block'[l].next = b
  BY <1>1, <1>2, ExtendFacts
<1>5. \A c \in List : /\ block'[c].size = block[c].size
                      /\ block'[c].prev = block[c].prev
                      /\ block[c].free => block'[c].free
                      /\ block'[c].free => block[c].free
                      /\ c # l => block'[c].next = block[c].next
  BY <1>1, ExtendFacts
<1>6. /\ List \subseteq Nat \ {0} /\ area \subseteq Nat /\ g_heap_head \in List
      /\ \A c \in List : End(c) \in Nat /\ c < End(c)
      /\ l \in List /\ block[l].next = Null
  BY <1>1, BlockFacts DEF Sound, ListType
<1>7. (\A c \in List : End(c)' = End(c)) /\ End(b)' = b + k
  BY <1>3, <1>4, <1>5 DEF End
<1>8. ListType'
  <2>1. area' \subseteq Nat
    <3>1. Bytes(b, k) \subseteq Nat
      BY <1>3, <1>4
    <3> QED
      BY <1>3, <1>6, <3>1
  <2>2. List' \subseteq Nat \ {0} /\ g_heap_head' \in List'
    BY <1>4, <1>6
  <2> QED
    BY <1>4, <2>1, <2>2 DEF ListType
<1>9. \A c \in List, u \in Nat : c <= u /\ u < End(c) => u \in area
  BY DEF Sound, Inside
<1>10. \A c \in List : End(c) <= b \/ b + k <= c
  <2> SUFFICES ASSUME NEW c \in List, b < End(c), c < b + k PROVE FALSE
    BY <1>3, <1>4, <1>6
  <2>1. CASE c <= b
    <3>1. b \in area /\ b \in Bytes(b, k)
      BY <1>3, <1>4, <1>9, <2>1
    <3> QED
      BY <1>3, <3>1
  <2>2. CASE b < c
    <3>1. c \in area /\ c \in Bytes(b, k)
      BY <1>3, <1>4, <1>6, <1>9, <2>2
    <3> QED
      BY <1>3, <3>1
  <2> QED
    BY <1>4, <1>6, <2>1, <2>2
<1>11. Apart'
  <2> SUFFICES ASSUME NEW c \in List', NEW d \in List', c < d
               PROVE  (End(c) <= d)'
    BY DEF Apart
  <2>1. CASE c = b
    <3>1. d \in List
      BY <1>4, <2>1
    <3> QED
      BY <1>3, <1>4, <1>6, <1>7, <1>10, <2>1, <3>1
  <2>2. CASE d = b
    <3>1. c \in List
      BY <1>4, <2>2
    <3> QED
      BY <1>3, <1>4, <1>6, <1>7, <1>10, <2>2, <3>1
  <2>3. CASE c # b /\ d # b
    BY <1>4, <1>7, <2>3 DEF Sound, Apart
  <2> QED
    BY <2>1, <2>2, <2>3
<1>12. Inside'
  <2> SUFFICES ASSUME NEW c \in List', NEW u \in Nat, c <= u, u < End(c)'
               PROVE  u \in area'
    BY DEF Inside
  <2>1. CASE c = b
    <3>1. u \in Bytes(b, k)
      BY <1>3, <1>4, <1>7, <2>1
    <3> QED
      BY <1>3, <3>1
  <2>2. CASE c # b
    BY <1>3, <1>4, <1>7, <1>9, <2>2
  <2> QED
    BY <2>1, <2>2
<1>13. Covered'
  <2> SUFFICES ASSUME NEW u \in area' PROVE \E c \in List' : c <= u /\ u < End(c)'
    BY DEF Covered
  <2>1. CASE u \in area
    <3>1. PICK c \in List : c <= u /\ u < End(c)
      BY <2>1 DEF Sound, Covered
    <3> QED
      BY <1>4, <1>7, <3>1
  <2>2. CASE u \in Bytes(b, k)
    <3>1. b <= u /\ u < End(b)' /\ b \in List'
      BY <1>3, <1>4, <1>7, <2>2
    <3> QED
      BY <3>1
  <2> QED
    BY <1>3, <2>1, <2>2
<1>14. /\ block[g_heap_head].prev = Null
       /\ \A c \in List : block[c].next # Null =>
                            block[c].next \in List /\ block[block[c].next].prev = c
       /\ \A c \in List : block[c].prev # Null =>
                            block[c].prev \in List /\ block[block[c].prev].next = c
  BY DEF Sound, Links
<1>15. Links'
  <2>1. (block[g_heap_head].prev = Null)'
    BY <1>5, <1>6, <1>14
  <2> SUFFICES ASSUME NEW c \in List'
               PROVE  /\ block'[c].next # Null =>
                           block'[c].next \in List' /\ block'[block'[c].next].prev = c
                      /\ block'[c].prev # Null =>
                           block'[c].prev \in List' /\ block'[block'[c].prev].next = c
    BY <2>1 DEF Links
  <2>2. CASE c = b
    BY <1>4, <1>6, <2>2
  <2>3. CASE c # b
    <3>1. c \in List /\ block'[c].prev = block[c].prev
      BY <1>4, <1>5, <2>3
    <3> DEFINE p == block[c].prev
    <3>2. p # Null => p \in List /\ block[p].next = c
      BY <1>14, <3>1
    <3>3. p # Null => p # l
      BY <1>6, <3>1, <3>2 DEF Null
    <3>4. p # Null => p \in List' /\ block'[p].next = c
      BY <1>4, <1>5, <3>2, <3>3
    <3>5. CASE c = l
      BY <1>4, <3>1, <3>4, <3>5
    <3>6. CASE c # l
      <4> DEFINE d == block[c].next
      <4>1. block'[c].next = d /\ (d # Null => d \in List /\ block[d].prev = c)
        BY <1>5, <1>14, <3>1, <3>6
      <4>2. d # Null => d \in List' /\ block'[d].prev = c
        BY <1>4, <1>5, <4>1
      <4> QED
        BY <3>1, <3>4, <4>1, <4>2
    <3> QED
      BY <3>5, <3>6
  <2> QED
    BY <2>2, <2>3
<1>16. OneEnd'
  <2>1. \A c, d \in List : block[c].next = Null /\ block[d].next = Null => c = d
    BY DEF Sound, OneEnd
  <2>2. \A c \in List' : block'[c].next = Null => c = b
    <3> SUFFICES ASSUME NEW c \in List, block'[c].next = Null PROVE FALSE
      BY <1>4
    <3>1. CASE c = l
      BY <1>4, <3>1 DEF Null
    <3>2. CASE c # l
      BY <1>5, <1>6, <2>1, <3>2
    <3> QED
      BY <3>1, <3>2
  <2> QED
    BY <2>2 DEF OneEnd
<1>17. Order'
  <2>1. PICK r \in [List -> Nat] : Sorts(r)
    BY DEF Sound, Order
  <2>2. PICK q : q = [c \in List' |-> IF c = b THEN r[l] + 1 ELSE r[c]]
    OBVIOUS
  <2>3. \A c \in List : r[c] \in Nat /\ (block[c].next # Null => r[c] < r[block[c].next])
    BY <2>1 DEF Sorts
  <2>4. /\ q \in [List' -> Nat] /\ q[b] = r[l] + 1
        /\ \A c \in List : q[c] = r[c]
    BY <1>4, <1>6, <2>2, <2>3
  <2>5. \A c \in List' : block'[c].next # Null => q[c] < q[block'[c].next]
    <3> SUFFICES ASSUME NEW c \in List', block'[c].next # Null
                 PROVE  q[c] < q[block'[c].next]
      OBVIOUS
    <3>1. c \in List
      BY <1>4
    <3>2. CASE c = l
      BY <1>4, <1>6, <2>3, <2>4, <3>2
    <3>3. CASE c # l
      <4>1. block'[c].next = block[c].next /\ block[c].next \in List
        BY <1>5, <1>14, <3>1, <3>3
      <4> QED
        BY <2>3, <2>4, <3>1, <4>1
    <3> QED
      BY <3>2, <3>3
  <2>6. Sorts(q)'
    BY <2>5 DEF Sorts
  <2> QED
    BY <2>4, <2>6 DEF Order
<1>18. Users'
  <2>1. /\ given \subseteq [at : List, size : Nat \ {0}]
        /\ \A g \in given : ~block[g.at].free /\ block[g.at].size >= g.size
        /\ \A g, h \in given : g.at = h.at => g = h
        /\ \A c \in List : block[c].free \/ \E g \in given : g.at = c
    BY DEF Sound, Users
  <2>2. given' = given /\ given \subseteq [at : List', size : Nat \ {0}]
    BY <1>4, <2>1
  <2>3. \A g \in given : ~block'[g.at].free /\ block'[g.at].size >= g.size
    BY <1>5, <2>1
  <2>4. \A c \in List' : block'[c].free \/ \E g \in given : g.at = c
    BY <1>4, <1>5, <2>1
  <2> QED
    BY <2>1, <2>2, <2>3, <2>4 DEF Users
<1> QED
  BY <1>4, <1>8, <1>11, <1>12, <1>13, <1>15, <1>16, <1>17, <1>18 DEF Sound

-----------------------------------------------------------------------------
LEMMA InitIInv == Init => IInv
<1> SUFFICES ASSUME Init PROVE IInv
  OBVIOUS
<1> USE HeapAssumption DEF HeapAssumption
<1>1. PICK p \in 1 .. MaxAddr : area = Bytes(p, InitPages * PAGE_SIZE)
  BY DEF Init
<1>2. PICK k : k = InitPages * PAGE_SIZE
  OBVIOUS
<1>3. k \in Nat /\ k > Header /\ Header \in Nat \ {0} /\ p \in Nat \ {0}
  <2>1. InitPages * PAGE_SIZE \in Nat
    OBVIOUS
  <2> QED
    BY <1>2, <2>1
<1>4. area = p .. p + k - 1
  BY <1>1, <1>2 DEF Bytes
<1>5. g_heap_head = p
  <2>1. p \in area /\ g_heap_head \in area /\ \A a \in area : g_heap_head <= a
    BY <1>3, <1>4 DEF Init
  <2> QED
    BY <1>3, <1>4, <2>1
<1>6. Alone(InitPages, Null) = [size |-> k - Header, free |-> TRUE, next |-> Null, prev |-> Null]
  BY <1>2 DEF Alone
<1>7. block = [b \in {p} |-> [size |-> k - Header, free |-> TRUE, next |-> Null, prev |-> Null]]
  BY <1>5, <1>6 DEF Init
<1>8. /\ List = {p} /\ block[p].size = k - Header /\ block[p].free
      /\ block[p].next = Null /\ block[p].prev = Null
  BY <1>7 DEF List
<1>9. [size |-> k - Header, free |-> TRUE, next |-> Null, prev |-> Null] \in Headers
  BY <1>3 DEF Headers, Null
<1>10. ListType
  <2>1. area \subseteq Nat
    BY <1>3, <1>4
  <2>2. block \in [List -> Headers]
    BY <1>7, <1>8, <1>9
  <2> QED
    BY <1>3, <1>5, <1>8, <2>1, <2>2 DEF ListType
<1>11. End(p) = p + k
  BY <1>3, <1>8 DEF End
<1>12. Apart /\ Inside /\ Covered
  BY <1>3, <1>4, <1>8, <1>11 DEF Apart, Inside, Covered
<1>13. Links /\ OneEnd
  BY <1>5, <1>8 DEF Links, OneEnd
<1>14. Order
  <2>1. PICK r : r = [b \in List |-> 0]
    OBVIOUS
  <2>2. r \in [List -> Nat] /\ Sorts(r)
    BY <1>8, <2>1 DEF Sorts
  <2> QED
    BY <2>2 DEF Order
<1>15. Users
  BY <1>8 DEF Users, Init
<1>16. torn \in BOOLEAN /\ grown \in BOOLEAN /\ pc = "idle" /\ CallInv
  BY DEF Init, CallInv
<1> QED
  BY <1>10, <1>12, <1>13, <1>14, <1>15, <1>16 DEF IInv, Sound

\* Steps that leave the list alone.
LEMMA SoundSame ==
  ASSUME Sound, UNCHANGED <<block, g_heap_head, area, given>>
  PROVE  Sound'
<1>1. List' = List /\ \A b \in List : End(b)' = End(b)
  BY DEF List, End
<1>2. ListType' /\ Apart' /\ Inside' /\ Covered'
  BY <1>1 DEF Sound, ListType, Apart, Inside, Covered
<1>3. Links' /\ OneEnd' /\ Users'
  BY <1>1 DEF Sound, Links, OneEnd, Users
<1>4. Order'
  BY <1>1 DEF Sound, Order, Sorts
<1> QED
  BY <1>2, <1>3, <1>4 DEF Sound

LEMMA BeginIInv ==
  ASSUME IInv, NEW n \in Sizes, Begin(n)
  PROVE  IInv'
<1>1. /\ ~torn /\ pc' = "walk" /\ size' = n /\ at' = g_heap_head /\ last' = Null
      /\ grown' = FALSE /\ UNCHANGED <<block, g_heap_head, area, given, torn>>
  BY DEF Begin
<1>2. Sound'
  BY <1>1, SoundSame DEF IInv
<1>3. n \in Nat \ {0}
  BY HeapAssumption DEF HeapAssumption
<1>4. CallInv'
  BY <1>1, <1>3 DEF CallInv
<1> QED
  BY <1>1, <1>2, <1>4 DEF IInv

LEMMA WalkIInv == IInv /\ (Walk \/ Panic) => IInv'
<1> SUFFICES ASSUME IInv, Walk \/ Panic PROVE IInv'
  OBVIOUS
<1>1. UNCHANGED <<block, g_heap_head, area, given, torn, size, grown>> /\ pc = "walk"
  BY DEF Walk, Panic, Goto
<1>2. CASE torn
  BY <1>1, <1>2 DEF IInv
<1>3. CASE ~torn
  <2>1. Sound /\ CallInv /\ Sound'
    BY <1>1, <1>3, SoundSame DEF IInv
  <2>2. CASE Panic
    BY <1>1, <1>3, <2>1, <2>2 DEF IInv, Panic, Goto, CallInv
  <2>3. CASE Walk
    <3>1. at \in List
      BY <1>1, <2>1, <2>3 DEF Walk, CallInv, Sound, Links, ListType
    <3>2. List' = List /\ size \in Nat \ {0}
      BY <1>1, <2>1 DEF List, CallInv
    <3>3. \A b : Fits(b)' <=> Fits(b)
      BY <1>1 DEF Fits
    <3>4. ASSUME Fits(at), Goto("split") PROVE CallInv'
      BY <1>1, <3>1, <3>2, <3>4 DEF Goto, CallInv, Fits
    <3>5. ASSUME ~Fits(at), at' = block[at].next, last' = at, UNCHANGED pc
          PROVE  CallInv'
      <4>1. last' # Null
        BY <2>1, <3>1, <3>5 DEF Sound, ListType, Null
      <4>2. grown => \E b \in List : block[b].next = Null /\ Fits(b)
        BY <1>1, <2>1 DEF CallInv
      <4>3. grown => block[at].next # Null
        BY <2>1, <3>1, <3>5, <4>2 DEF Sound, OneEnd
      <4>4. grown => \E b \in List' : block'[b].next = Null /\ Fits(b)'
        BY <1>1, <3>2, <3>3, <4>2
      <4> QED
        BY <1>1, <3>1, <3>2, <3>5, <4>1, <4>3, <4>4 DEF CallInv
    <3>6. CallInv'
      BY <2>3, <3>4, <3>5 DEF Walk
    <3> QED
      BY <1>1, <2>1, <3>6 DEF IInv
  <2> QED
    BY <2>2, <2>3
<1> QED
  BY <1>2, <1>3

LEMMA HeapExpandIInv == IInv /\ HeapExpand => IInv'
<1> SUFFICES ASSUME IInv, HeapExpand PROVE IInv'
  OBVIOUS
<1>1. /\ pc = "walk" /\ at = Null /\ at' = g_heap_head /\ last' = Null /\ grown' = TRUE
      /\ UNCHANGED <<g_heap_head, pc, size, irq, given, torn>>
  BY DEF HeapExpand
<1>2. CASE torn
  BY <1>1, <1>2 DEF IInv
<1>3. CASE ~torn
  <2>1. Sound /\ CallInv
    BY <1>3 DEF IInv
  <2>2. size \in Nat \ {0} /\ last \in List /\ block[last].next = Null
    BY <1>1, <2>1 DEF CallInv, Sound, ListType, Null
  <2>3. PICK b \in Pages(NeededPages) :
          /\ area' = area \cup Bytes(b, NeededPages * PAGE_SIZE)
          /\ block' = Extend(b)
    BY DEF HeapExpand, Extend
  <2>4. /\ Sound'
        /\ b \in List' /\ block'[b].next = Null /\ block'[b].free
        /\ block'[b].size >= size
    BY <1>1, <2>1, <2>2, <2>3, ExtendSound
  <2>5. Fits(b)'
    BY <1>1, <2>4 DEF Fits
  <2>6. g_heap_head # Null
    BY <2>1 DEF Sound, ListType, Null
  <2>7. CallInv'
    BY <1>1, <2>2, <2>4, <2>5, <2>6 DEF CallInv
  <2> QED
    BY <1>1, <2>4, <2>7 DEF IInv
<1> QED
  BY <1>2, <1>3

LEMMA SplitIInv == IInv /\ Split => IInv'
<1> SUFFICES ASSUME IInv, Split PROVE IInv'
  OBVIOUS
<1>1. /\ pc = "split" /\ pc' = "take"
      /\ UNCHANGED <<size, at, last, grown, g_heap_head, area, given, torn>>
  BY DEF Split, Goto
<1>2. CASE torn
  BY <1>1, <1>2 DEF IInv
<1>3. CASE ~torn
  <2>1. Sound /\ CallInv
    BY <1>3 DEF IInv
  <2>2. size \in Nat \ {0} /\ at \in List /\ block[at].free /\ block[at].size >= size
    BY <1>1, <2>1 DEF CallInv, Fits
  <2>3. CASE Splits /\ HeapSplitBlock
    <3>1. Sound' /\ List \subseteq List' /\ block'[at].free /\ block'[at].size = size
      BY <1>1, <2>1, <2>2, <2>3, SplitSound
    <3>2. CallInv'
      BY <1>1, <2>2, <3>1 DEF CallInv, Fits
    <3> QED
      BY <1>1, <3>1, <3>2 DEF IInv
  <2>4. CASE UNCHANGED block
    <3>1. Sound' /\ List' = List
      BY <1>1, <2>1, <2>4, SoundSame DEF List
    <3>2. CallInv'
      BY <1>1, <2>2, <2>4, <3>1 DEF CallInv, Fits
    <3> QED
      BY <1>1, <3>1, <3>2 DEF IInv
  <2> QED
    BY <2>3, <2>4 DEF Split
<1> QED
  BY <1>2, <1>3

\* Only the free flag of one block changes.
LEMMA FlagSound ==
  ASSUME Sound, NEW a \in List, NEW v \in BOOLEAN,
         block' = [block EXCEPT ![a].free = v],
         UNCHANGED <<g_heap_head, area>>
  PROVE  /\ ListType' /\ Apart' /\ Inside' /\ Covered' /\ Links' /\ OneEnd' /\ Order'
         /\ List' = List
         /\ \A b \in List : block'[b].size = block[b].size
         /\ \A b \in List : b # a => block'[b] = block[b]
         /\ block'[a].free = v
<1>1. \A b \in List : block[b] \in Headers
  BY DEF Sound, ListType
<1>2. List' = List /\ block' = [b \in List |-> block'[b]]
  <2>1. DOMAIN block = List /\ DOMAIN block' = List
    BY DEF List, Sound, ListType
  <2>2. block \in [List -> Headers]
    BY DEF Sound, ListType
  <2>3. block' = [b \in List |-> block'[b]]
    BY <2>1, <2>2
  <2>4. List' = DOMAIN block'
    BY DEF List
  <2> QED
    BY <2>1, <2>3, <2>4
<1>3. \A b \in List : b # a => block'[b] = block[b]
  BY DEF Sound, ListType
<1>4. block'[a] = [block[a] EXCEPT !.free = v]
  BY DEF Sound, ListType
<1>5. /\ block'[a].free = v /\ block'[a].size = block[a].size
      /\ block'[a].next = block[a].next /\ block'[a].prev = block[a].prev
      /\ block'[a] \in Headers
  BY <1>1, <1>4 DEF Headers
<1>6. \A b \in List : /\ block'[b].size = block[b].size
                      /\ block'[b].next = block[b].next
                      /\ block'[b].prev = block[b].prev
                      /\ block'[b] \in Headers
  BY <1>1, <1>3, <1>5
<1>7. \A b \in List : End(b)' = End(b)
  BY <1>6 DEF End
<1>8. block' \in [List' -> Headers]
  BY <1>2, <1>6
<1>9. ListType'
  BY <1>2, <1>8 DEF Sound, ListType
<1>10. Apart' /\ Inside' /\ Covered'
  BY <1>2, <1>7 DEF Sound, Apart, Inside, Covered
<1>11. Links'
  <2>1. /\ g_heap_head \in List /\ block[g_heap_head].prev = Null
        /\ \A b \in List :
             /\ block[b].next # Null => block[b].next \in List /\ block[block[b].next].prev = b
             /\ block[b].prev # Null => block[b].prev \in List /\ block[block[b].prev].next = b
    BY DEF Sound, Links, ListType
  <2> QED
    BY <1>2, <1>6, <2>1 DEF Links
<1>12. OneEnd'
  BY <1>2, <1>6 DEF Sound, OneEnd
<1>13. Order'
  BY <1>2, <1>6 DEF Sound, Order, Sorts
<1> QED
  BY <1>2, <1>3, <1>5, <1>6, <1>9, <1>10, <1>11, <1>12, <1>13

LEMMA TakeIInv == IInv /\ Take => IInv'
<1> SUFFICES ASSUME IInv, Take PROVE IInv'
  OBVIOUS
<1>1. /\ pc = "take" /\ pc' = "idle" /\ grown' = FALSE
      /\ block' = [block EXCEPT ![at].free = FALSE]
      /\ given' = given \cup {[at |-> at, size |-> size]}
      /\ UNCHANGED <<g_heap_head, area, torn>>
  BY DEF Take, Idle
<1>2. CASE torn
  BY <1>1, <1>2 DEF IInv
<1>3. CASE ~torn
  <2>1. Sound /\ CallInv
    BY <1>3 DEF IInv
  <2>2. size \in Nat \ {0} /\ at \in List /\ block[at].free /\ block[at].size >= size
    BY <1>1, <2>1 DEF CallInv, Fits
  <2>3. PICK a \in List : a = at
    BY <2>2
  <2>4. /\ ListType' /\ Apart' /\ Inside' /\ Covered' /\ Links' /\ OneEnd' /\ Order'
        /\ List' = List
        /\ \A b \in List : block'[b].size = block[b].size
        /\ \A b \in List : b # a => block'[b] = block[b]
        /\ block'[a].free = FALSE
    BY <1>1, <2>1, <2>3, FlagSound
  <2>5. /\ given \subseteq [at : List, size : Nat \ {0}]
        /\ \A g \in given : ~block[g.at].free /\ block[g.at].size >= g.size
        /\ \A g, h \in given : g.at = h.at => g = h
        /\ \A b \in List : block[b].free \/ \E g \in given : g.at = b
    BY <2>1 DEF Sound, Users
  <2>6. PICK x : x = [at |-> a, size |-> size]
    OBVIOUS
  <2>7. given' = given \cup {x} /\ x.at = a /\ x.size = size
        /\ x \in [at : List, size : Nat \ {0}]
    BY <1>1, <2>2, <2>3, <2>6
  <2>8. \A g \in given : g.at # a /\ g.at \in List
    BY <2>2, <2>3, <2>5
  <2>9. \A g \in given' : ~block'[g.at].free /\ block'[g.at].size >= g.size
    BY <2>2, <2>3, <2>4, <2>5, <2>7, <2>8
  <2>10. \A g, h \in given' : g.at = h.at => g = h
    BY <2>5, <2>7, <2>8
  <2>11. \A b \in List : block'[b].free \/ \E g \in given' : g.at = b
    BY <2>4, <2>5, <2>7
  <2>12. Users'
    BY <2>4, <2>5, <2>7, <2>9, <2>10, <2>11 DEF Users
  <2>13. CallInv'
    BY <1>1 DEF CallInv
  <2> QED
    BY <1>1, <2>4, <2>12, <2>13 DEF IInv, Sound
<1> QED
  BY <1>2, <1>3

LEMMA FreeIInv ==
  ASSUME IInv, NEW g \in given, Free(g)
  PROVE  IInv'
<1>1. Sound /\ ~torn /\ torn' = torn /\ grown' = FALSE /\ UNCHANGED <<g_heap_head, area>>
  BY DEF Free, IInv
<1>2. /\ given \subseteq [at : List, size : Nat \ {0}]
      /\ \A h \in given : ~block[h.at].free /\ block[h.at].size >= h.size
      /\ \A h, i \in given : h.at = i.at => h = i
      /\ \A b \in List : block[b].free \/ \E h \in given : h.at = b
  BY <1>1 DEF Sound, Users
<1>3. PICK a \in List : a = g.at
  BY <1>2
<1>4. /\ pc' = "next" /\ block' = [block EXCEPT ![a].free = TRUE] /\ at' = a
      /\ given' = given \ {g}
  BY <1>2, <1>3 DEF Free
<1>5. /\ ListType' /\ Apart' /\ Inside' /\ Covered' /\ Links' /\ OneEnd' /\ Order'
      /\ List' = List
      /\ \A b \in List : block'[b].size = block[b].size
      /\ \A b \in List : b # a => block'[b] = block[b]
      /\ block'[a].free = TRUE
  BY <1>1, <1>4, FlagSound
<1>6. \A h \in given' : h \in given /\ h.at # a /\ h.at \in List
  BY <1>2, <1>3, <1>4
<1>7. \A h \in given' : ~block'[h.at].free /\ block'[h.at].size >= h.size
  BY <1>2, <1>5, <1>6
<1>8. \A b \in List : block'[b].free \/ \E h \in given' : h.at = b
  <2> SUFFICES ASSUME NEW b \in List, b # a, ~block'[b].free
               PROVE  \E h \in given' : h.at = b
    BY <1>5
  <2>1. ~block[b].free
    BY <1>5
  <2>2. PICK h \in given : h.at = b
    BY <1>2, <2>1
  <2>3. h # g
    BY <1>3, <2>2
  <2> QED
    BY <1>4, <2>2, <2>3
<1>9. Users'
  BY <1>2, <1>5, <1>6, <1>7, <1>8 DEF Users
<1>10. CallInv'
  BY <1>4, <1>5 DEF CallInv
<1> QED
  BY <1>1, <1>5, <1>9, <1>10 DEF IInv, Sound

LEMMA CoalesceIInv == IInv /\ (CoalesceNext \/ CoalescePrev) => IInv'
<1> SUFFICES ASSUME IInv, CoalesceNext \/ CoalescePrev PROVE IInv'
  OBVIOUS
<1>1. /\ pc \in {"next", "prev"} /\ grown' \in BOOLEAN
      /\ UNCHANGED <<g_heap_head, area, given, torn>>
  BY DEF CoalesceNext, CoalescePrev, Goto, Idle, IInv
<1>2. CASE torn
  BY <1>1, <1>2 DEF IInv
<1>3. CASE ~torn
  <2>1. Sound /\ CallInv /\ at \in List /\ block[at].free
    BY <1>1, <1>3 DEF IInv, CallInv
  <2>2. PICK a \in List : a = at
    BY <2>1
  <2>3. /\ block[a].next # Null => block[a].next \in List
        /\ block[a].prev # Null =>
             block[a].prev \in List /\ block[block[a].prev].next = a
    BY <2>1 DEF Sound, Links
  <2>4. CASE UNCHANGED block
    <3>1. Sound' /\ List' = List
      BY <1>1, <2>1, <2>4, SoundSame DEF List
    <3>2. CallInv'
      BY <2>1, <2>4, <3>1 DEF CoalesceNext, CoalescePrev, Goto, Idle, CallInv
    <3> QED
      BY <1>1, <1>3, <3>1, <3>2 DEF IInv
  <2>5. CASE CoalesceNext /\ JoinsNext /\ Join(at, block[at].next)
    <3>1. PICK b : b = block[a].next
      OBVIOUS
    <3>2. b \in List /\ block[b].free /\ End(a) = b /\ Join(a, b)
      BY <2>2, <2>3, <2>5, <3>1 DEF JoinsNext
    <3>3. Sound' /\ a \in List' /\ block'[a].free
      BY <1>1, <2>1, <2>2, <3>1, <3>2, JoinSound
    <3>4. CallInv'
      BY <2>2, <2>5, <3>3 DEF CoalesceNext, Goto, CallInv
    <3> QED
      BY <1>1, <1>3, <3>3, <3>4 DEF IInv
  <2>6. CASE CoalescePrev /\ JoinsPrev /\ Join(block[at].prev, at)
    <3>1. PICK b : b = block[a].prev
      OBVIOUS
    <3>2. b \in List /\ block[b].free /\ End(b) = a /\ Join(b, a) /\ block[b].next = a
      BY <2>2, <2>3, <2>6, <3>1 DEF JoinsPrev
    <3>3. Sound'
      BY <1>1, <2>1, <2>2, <3>2, JoinSound
    <3>4. CallInv'
      BY <2>6 DEF CoalescePrev, Idle, CallInv
    <3> QED
      BY <1>1, <1>3, <3>3, <3>4 DEF IInv
  <2> QED
    BY <2>4, <2>5, <2>6 DEF CoalesceNext, CoalescePrev
<1> QED
  BY <1>2, <1>3

LEMMA CtrlCIInv == IInv /\ CtrlC => IInv'
<1> SUFFICES ASSUME IInv, CtrlC PROVE IInv'
  OBVIOUS
<1>1. pc' = "idle" /\ grown' = FALSE /\ UNCHANGED <<g_heap_head, area, given>>
  BY DEF CtrlC, Idle
<1>2. CallInv'
  BY <1>1 DEF CallInv
<1>3. CASE UNCHANGED <<block, torn>>
  <2>1. torn' \in BOOLEAN /\ (~torn' => Sound')
    BY <1>1, <1>3, SoundSame DEF IInv
  <2> QED
    BY <1>1, <1>2, <2>1 DEF IInv
<1>4. CASE torn' = TRUE
  BY <1>1, <1>4 DEF IInv
<1> QED
  BY <1>3, <1>4 DEF CtrlC

LEMMA IInvHolds == Spec => []IInv
<1>1. IInv /\ UNCHANGED vars => IInv'
  <2> SUFFICES ASSUME IInv, UNCHANGED vars PROVE IInv'
    OBVIOUS
  <2>1. UNCHANGED <<block, g_heap_head, area, given, torn, pc, size, at, last, grown>>
    BY DEF vars, call
  <2>2. ~torn => Sound'
    BY <2>1, SoundSame DEF IInv
  <2>3. ~torn => CallInv'
    BY <2>1 DEF IInv, CallInv, List, Fits
  <2> QED
    BY <2>1, <2>2, <2>3 DEF IInv
<1>2. IInv /\ [Next]_vars => IInv'
  BY <1>1, BeginIInv, WalkIInv, HeapExpandIInv, SplitIInv, TakeIInv, FreeIInv,
     CoalesceIInv, CtrlCIInv DEF Next
<1> QED
  BY <1>2, InitIInv, PTL DEF Spec

-----------------------------------------------------------------------------
\* KmAlloc hands out no byte twice and no byte of a header, whatever is asked for
\* and freed and in whatever order: a block ends where the next one begins.
THEOREM NothingGivenTwice == Spec => []MemoryGivenOnce
<1>1. IInv => MemoryGivenOnce
  <2> SUFFICES ASSUME IInv, ~torn, NEW g \in given
               PROVE  /\ Memory(g) \subseteq area
                      /\ \A b \in List : Bytes(b, Header) \cap Memory(g) = {}
                      /\ \A h \in given : g # h => Memory(g) \cap Memory(h) = {}
    BY DEF MemoryGivenOnce
  <2>1. Sound /\ Header \in Nat
    BY HeapAssumption DEF IInv, HeapAssumption
  <2>2. /\ \A h \in given : /\ h.at \in List /\ h.size \in Nat
                            /\ block[h.at].size >= h.size
        /\ \A h \in given : g.at = h.at => g = h
    BY <2>1 DEF Sound, Users
  <2>3. \A b \in List : /\ b \in Nat /\ block[b].size \in Nat
                        /\ End(b) = b + Header + block[b].size
    BY <2>1, BlockFacts DEF Sound
  <2>4. \A b, c \in List : b < c => End(b) <= c
    BY <2>1 DEF Sound, Apart
  <2>5. \A h \in given : \A u \in Memory(h) :
          u \in Nat /\ h.at + Header <= u /\ u < End(h.at)
    <3> SUFFICES ASSUME NEW h \in given, NEW u \in Memory(h)
                 PROVE  u \in Nat /\ h.at + Header <= u /\ u < End(h.at)
      OBVIOUS
    <3>1. u \in h.at + Header .. h.at + Header + h.size - 1
      BY DEF Memory, Bytes
    <3>2. /\ h.at \in Nat /\ h.size \in Nat /\ block[h.at].size \in Nat
          /\ block[h.at].size >= h.size /\ End(h.at) = h.at + Header + block[h.at].size
      BY <2>2, <2>3
    <3> QED
      BY <2>1, <3>1, <3>2
  <2>6. Memory(g) \subseteq area
    <3>1. \A u \in Memory(g) : u \in Nat /\ g.at <= u /\ u < End(g.at)
      BY <2>1, <2>2, <2>3, <2>5
    <3> QED
      BY <2>1, <2>2, <3>1 DEF Sound, Inside
  <2>7. \A b \in List : Bytes(b, Header) \cap Memory(g) = {}
    <3> SUFFICES ASSUME NEW b \in List, NEW u \in Bytes(b, Header), u \in Memory(g)
                 PROVE  FALSE
      OBVIOUS
    <3>1. u \in Nat /\ b <= u /\ u < b + Header
      BY <2>1, <2>3 DEF Bytes
    <3>2. g.at + Header <= u /\ u < End(g.at) /\ g.at \in List /\ g.at \in Nat
      BY <2>2, <2>3, <2>5
    <3>3. b # g.at
      BY <2>1, <2>3, <3>1, <3>2
    <3>4. CASE b < g.at
      BY <2>1, <2>3, <2>4, <3>1, <3>2, <3>4
    <3>5. CASE g.at < b
      BY <2>1, <2>3, <2>4, <3>1, <3>2, <3>5
    <3> QED
      BY <2>3, <3>2, <3>3, <3>4, <3>5
  <2>8. \A h \in given : g # h => Memory(g) \cap Memory(h) = {}
    <3> SUFFICES ASSUME NEW h \in given, g # h, NEW u \in Memory(g), u \in Memory(h)
                 PROVE  FALSE
      OBVIOUS
    <3>1. /\ g.at + Header <= u /\ u < End(g.at) /\ g.at \in List /\ g.at \in Nat
          /\ h.at + Header <= u /\ u < End(h.at) /\ h.at \in List /\ h.at \in Nat
          /\ u \in Nat
      BY <2>2, <2>3, <2>5
    <3>2. g.at # h.at
      BY <2>2
    <3>3. CASE g.at < h.at
      <4>1. End(g.at) <= h.at /\ End(g.at) \in Nat
        BY <2>1, <2>3, <2>4, <3>1, <3>3
      <4> QED
        BY <2>1, <3>1, <4>1
    <3>4. CASE h.at < g.at
      <4>1. End(h.at) <= g.at /\ End(h.at) \in Nat
        BY <2>1, <2>3, <2>4, <3>1, <3>4
      <4> QED
        BY <2>1, <3>1, <4>1
    <3> QED
      BY <3>1, <3>2, <3>3, <3>4
  <2> QED
    BY <2>6, <2>7, <2>8
<1> QED
  BY <1>1, IInvHolds, PTL

\* The blocks cover the heap without overlapping, in a list that can be followed
\* both ways: splitting, joining and growing lose nothing.
THEOREM NothingLost == Spec => []BlocksTile
<1>1. IInv => BlocksTile
  BY DEF IInv, Sound, Covered, Apart, Links, Users, BlocksTile
<1> QED
  BY <1>1, IInvHolds, PTL

\* The heap grows by enough for what it grew for.
THEOREM OneGrowth == Spec => []GrowsOnce
<1>1. IInv => GrowsOnce
  BY DEF IInv, CallInv, GrowsOnce
<1> QED
  BY <1>1, IInvHolds, PTL
=============================================================================
