---------------------------- MODULE MallocProofs ----------------------------
(***************************************************************************)
(* Proofs for Malloc: malloc and free keep the heap divided into blocks    *)
(* and the free blocks in one ordered ring, and malloc refuses only when   *)
(* there is no large enough block, for heaps of every size.                *)
(***************************************************************************)
EXTENDS Malloc, FiniteSetTheorems, TLAPS

InHand == {b \in {h} : mode = "insert"}
Blocks == (Ring \ {Root}) \cup used \cup InHand

(* The links: upwards to the next block of the ring, from the last to Root.*)
Last == \E b \in Ring : next[b] = Root
Upwards == \A b \in Ring : next[b] = Root \/ next[b] > b
Nearest == \A b, c \in Ring : c > b => next[b] > b /\ next[b] <= c
Unlinked == \A b \in Block \ Ring : next[b] = Root
Apart == \A b \in Ring \ {Root} : next[b] # Root => b + size[b] < next[b]
RingInv == Last /\ Upwards /\ Nearest /\ Unlinked /\ Apart

(* The blocks: what is in the ring, in use and in hand divides the heap.   *)
Places ==
    /\ size[Root] = 0
    /\ used \cap Ring = {}
    /\ mode = "insert" => h \in Heap /\ h \notin Ring /\ h \notin used
Sized == \A b \in Blocks : size[b] > 0 /\ \A u \in b..b + size[b] - 1 : u \in heap
Disjoint == \A b, c \in Blocks : b < c => b + size[b] <= c
Covered == \A u \in heap : \E b \in Blocks : b <= u /\ u < b + size[b]
BlocksInv == Places /\ Sized /\ Disjoint /\ Covered

(* The locals of the calls.                                                *)
LocalsInv ==
    /\ freelist \in Ring
    /\ mode = "search" => prev \in Ring /\ p = next[prev]
    /\ mode = "insert" => p \in Ring
    /\ caller = "brkmore" => mode = "insert"
    /\ mode = "search" \/ caller = "brkmore" => want > 0 /\ old \in used \cup {NULL}

(* Where the search of malloc has been: behind freelist, up to prev.       *)
Passed(b) ==
    \/ freelist < b /\ b <= prev
    \/ prev < freelist /\ (freelist < b \/ b <= prev)
SearchInv ==
    /\ mode # "user" => refused = 0
    /\ mode = "search" => \A b \in Ring : Passed(b) => size[b] < want
    /\ mode = "user" => RefusesOnlyInNeed

MallocInv ==
    /\ TypeOK
    /\ mode # "overrun" => RingInv /\ BlocksInv /\ LocalsInv /\ SearchInv
    /\ mode = "overrun" => refused = 0
-----------------------------------------------------------------------------
USE DEF Root, NULL

LEMMA BlockFacts ==
    /\ Root \in Block
    /\ \A b \in Block : b \in Int /\ b >= 0 /\ (b # Root => b \in Heap)
    /\ \A b \in Heap : b \in Block /\ b \in Int /\ b > 0
  BY MallocAssumption DEF Block, Heap

LEMMA TypeFacts ==
    ASSUME TypeOK
    PROVE  /\ \A b \in Block : next[b] \in Block /\ size[b] \in Nat
           /\ next \in [Block -> Block] /\ size \in [Block -> Nat]
           /\ p \in Block /\ prev \in Block /\ h \in Block /\ want \in Nat
           /\ Ring \subseteq Block
  BY DEF TypeOK, Ring

(* What the ring looks like in every state between two steps: some link    *)
(* leads to Root, and all blocks of the ring are blocks.                   *)
LEMMA RingFacts ==
    ASSUME TypeOK, RingInv
    PROVE  Root \in Ring /\ Ring \subseteq Block /\ \A b \in Ring : next[b] \in Ring
  BY BlockFacts, TypeFacts DEF RingInv, Last, Ring

(* Where free puts a block is between two neighbours of the ring.          *)
LEMMA PlacedBetween ==
    ASSUME TypeOK, RingInv, p \in Ring, h \in Heap, Placed(p)
    PROVE  p < h /\ (next[p] = Root \/ h < next[p])
  BY RingFacts, BlockFacts, TypeFacts DEF RingInv, Upwards, Placed

(* malloc takes a whole block out of the ring.                             *)
LEMMA ExactRing ==
    ASSUME TypeOK, RingInv, size[Root] = 0, want > 0, prev \in Ring, p = next[prev],
           size[p] = want, next' = [next EXCEPT ![p] = Root, ![prev] = next[p]],
           size' = size
    PROVE  /\ p \in Ring \ {Root} /\ prev # p
           /\ Ring' = Ring \ {p}
           /\ RingInv'
<1>1. Root \in Ring /\ Ring \subseteq Block /\ \A b \in Ring : next[b] \in Ring
  BY RingFacts
<1>2. p \in Ring \ {Root} /\ p > prev /\ prev # p
  BY <1>1, BlockFacts, TypeFacts DEF RingInv, Upwards
<1>3. ASSUME NEW b \in Block, next[b] = p PROVE b = prev
  <2>1. b \in Ring /\ b \in Int /\ prev \in Int /\ p \in Int
    BY <1>1, <1>2, <1>3, BlockFacts, TypeFacts DEF RingInv, Unlinked
  <2>2. p > b
    BY <2>1, <1>2, <1>3 DEF RingInv, Upwards
  <2>3. ~(prev > b)
    BY <2>1, <1>2, <1>3 DEF RingInv, Nearest
  <2>4. ~(b > prev)
    BY <2>1, <2>2, <1>2 DEF RingInv, Nearest
  <2>5. QED  BY <2>1, <2>3, <2>4
<1>4. /\ next'[p] = Root /\ next'[prev] = next[p]
      /\ \A b \in Block : b # p /\ b # prev => next'[b] = next[b]
  BY <1>1, <1>2, BlockFacts, TypeFacts
<1>5. next[p] # p /\ (next[p] = Root \/ next[p] > p)
  BY <1>1, <1>2, BlockFacts DEF RingInv, Upwards
<1>6. Ring' = Ring \ {p}
  <2>1. ASSUME NEW c \in Ring' PROVE c \in Ring \ {p}
    <3>1. PICK b \in Block : next'[b] = c
      BY DEF Ring
    <3>2. CASE b = p
      BY <3>1, <3>2, <1>1, <1>2, <1>4
    <3>3. CASE b = prev
      BY <3>1, <3>3, <1>1, <1>2, <1>4, <1>5
    <3>4. CASE b # p /\ b # prev
      BY <3>1, <3>4, <1>3, <1>4 DEF Ring
    <3>5. QED  BY <3>2, <3>3, <3>4
  <2>2. ASSUME NEW c \in Ring \ {p} PROVE c \in Ring'
    <3>1. PICK b \in Block : next[b] = c
      BY DEF Ring
    <3>2. b # prev
      BY <3>1
    <3>3. CASE b = p
      BY <3>3, <3>1, <1>1, <1>4 DEF Ring
    <3>4. CASE b # p
      BY <3>4, <3>2, <3>1, <1>4 DEF Ring
    <3>5. QED  BY <3>3, <3>4
  <2>3. QED  BY <2>1, <2>2
<1>7. Last'
  <2>1. CASE next[p] = Root
    BY <2>1, <1>1, <1>2, <1>4, <1>6 DEF Last
  <2>2. CASE next[p] # Root
    <3>1. PICK c \in Ring : next[c] = Root
      BY DEF RingInv, Last
    <3>2. c # p /\ c # prev
      BY <3>1, <2>2, <1>2
    <3>3. QED  BY <3>1, <3>2, <1>1, <1>4, <1>6 DEF Last
  <2>3. QED  BY <2>1, <2>2
<1>8. Upwards' /\ Unlinked'
  <2>1. ASSUME NEW b \in Ring \ {p} PROVE next'[b] = Root \/ next'[b] > b
    <3>1. CASE b = prev
      BY <3>1, <1>1, <1>2, <1>4, <1>5, BlockFacts
    <3>2. CASE b # prev
      BY <3>2, <1>1, <1>4 DEF RingInv, Upwards
    <3>3. QED  BY <3>1, <3>2
  <2>2. ASSUME NEW b \in Block \ (Ring \ {p}) PROVE next'[b] = Root
    BY <1>2, <1>4 DEF RingInv, Unlinked
  <2>3. QED  BY <2>1, <2>2, <1>6 DEF Upwards, Unlinked
<1>9. Nearest'
  <2>1. SUFFICES ASSUME NEW b \in Ring \ {p}, NEW c \in Ring \ {p}, c > b
                 PROVE  next'[b] > b /\ next'[b] <= c
    BY <1>6 DEF Nearest
  <2>2. CASE b = prev
    <3>1. p <= c /\ c # p
      BY <2>1, <2>2, <1>2 DEF RingInv, Nearest
    <3>2. c > p
      BY <3>1, <1>1, <1>2, BlockFacts
    <3>3. next[p] > p /\ next[p] <= c
      BY <3>2, <1>2 DEF RingInv, Nearest
    <3>4. QED  BY <3>3, <2>2, <1>1, <1>2, <1>4, BlockFacts
  <2>3. CASE b # prev
    BY <2>1, <2>3, <1>1, <1>4 DEF RingInv, Nearest
  <2>4. QED  BY <2>2, <2>3
<1>10. Apart'
  <2>1. SUFFICES ASSUME NEW b \in Ring \ {p}, b # Root, next'[b] # Root
                 PROVE  b + size[b] < next'[b]
    BY <1>6 DEF Apart
  <2>2. CASE b = prev
    <3>1. prev + size[prev] < p
      BY <2>1, <2>2, <1>2 DEF RingInv, Apart
    <3>2. next[p] > p
      BY <2>1, <2>2, <1>4, <1>5
    <3>3. QED  BY <3>1, <3>2, <2>2, <1>1, <1>2, <1>4, BlockFacts, TypeFacts
  <2>3. CASE b # prev
    BY <2>1, <2>3, <1>1, <1>4 DEF RingInv, Apart
  <2>4. QED  BY <2>2, <2>3
<1>11. QED
  BY <1>2, <1>6, <1>7, <1>8, <1>9, <1>10 DEF RingInv

(* free puts h behind p, joined with its neighbours where they touch.      *)
JoinsN == JoinsNext(p)
JoinsP == JoinsPrev(p)
BehindH == IF JoinsN THEN next[next[p]] ELSE next[p]

LEMMA InsertFacts ==
    ASSUME TypeOK, RingInv, BlocksInv, mode = "insert", p \in Ring, Placed(p),
           next' = Linked(p), size' = Joined(p)
    PROVE  /\ p < h /\ (next[p] = Root \/ next[p] > h)
           /\ p # Root => p + size[p] <= h
           /\ next[p] # Root => h + size[h] <= next[p]
           /\ JoinsN => next[p] # Root /\ next[p] = h + size[h]
           /\ JoinsP => p # Root /\ h = p + size[p]
           /\ size[h] > 0
           /\ BehindH \in Ring /\ (BehindH = Root \/ BehindH > h)
           /\ next'[p] = IF JoinsP THEN BehindH ELSE h
           /\ next'[h] = IF JoinsP THEN Root ELSE BehindH
           /\ JoinsN => next'[next[p]] = Root
           /\ \A b \in Block : b # p /\ b # h /\ ~(JoinsN /\ b = next[p]) =>
                 next'[b] = next[b] /\ size'[b] = size[b]
           /\ size'[h] = IF JoinsP THEN 0
                         ELSE size[h] + (IF JoinsN THEN size[next[p]] ELSE 0)
           /\ size'[p] = size[p] + (IF JoinsP THEN size[h] + (IF JoinsN THEN size[next[p]] ELSE 0)
                                    ELSE 0)
           /\ JoinsN => size'[next[p]] = 0
<1>1. Root \in Ring /\ Ring \subseteq Block /\ \A b \in Ring : next[b] \in Ring
  BY RingFacts
<1>2. h \in Heap /\ h \notin Ring /\ h \notin used
  BY DEF BlocksInv, Places
<1>3. p < h /\ (next[p] = Root \/ next[p] > h)
  BY <1>2, PlacedBetween
<1>4. /\ p # Root => p \in Blocks
      /\ next[p] # Root => next[p] \in Blocks
      /\ h \in Blocks
  BY <1>1 DEF Blocks, InHand
<1>5. /\ p # Root => p + size[p] <= h
      /\ next[p] # Root => h + size[h] <= next[p]
      /\ size[h] > 0
  BY <1>1, <1>2, <1>3, <1>4 DEF BlocksInv, Disjoint, Sized
<1>6. /\ p \in Block /\ h \in Block /\ next[p] \in Block
      /\ p \in Int /\ h \in Int /\ next[p] \in Int /\ size[p] \in Nat /\ size[h] \in Nat
      /\ p >= 0 /\ h > 0 /\ size[Root] = 0
  BY <1>1, <1>2, BlockFacts, TypeFacts DEF BlocksInv, Places
<1>7. /\ JoinsN => next[p] # Root /\ next[p] = h + size[h]
      /\ JoinsP => p # Root /\ h = p + size[p]
  BY <1>5, <1>6 DEF JoinsN, JoinsP, JoinsNext, JoinsPrev
<1>8. BehindH \in Ring /\ (BehindH = Root \/ BehindH > h)
  <2>1. CASE JoinsN
    <3>1. next[p] \in Ring /\ next[p] > h /\ BehindH = next[next[p]]
      BY <2>1, <1>1, <1>3, <1>7 DEF BehindH
    <3>2. BehindH \in Ring /\ (BehindH = Root \/ BehindH > next[p])
      BY <3>1, <1>1 DEF RingInv, Upwards
    <3>3. QED  BY <3>1, <3>2, <1>1, <1>2, BlockFacts
  <2>2. CASE ~JoinsN
    BY <2>2, <1>1, <1>3 DEF BehindH
  <2>3. QED  BY <2>1, <2>2
<1>9. /\ next'[p] = IF JoinsP THEN BehindH ELSE h
      /\ next'[h] = IF JoinsP THEN Root ELSE BehindH
      /\ JoinsN => next'[next[p]] = Root
      /\ \A b \in Block : b # p /\ b # h /\ ~(JoinsN /\ b = next[p]) => next'[b] = next[b]
  <2>1. p # h /\ (JoinsN => next[p] # p /\ next[p] # h)
    BY <1>3, <1>6, <1>7
  <2>2. QED  BY <2>1, <1>6 DEF Linked, JoinsN, JoinsP, BehindH
<1>10. /\ size'[h] = IF JoinsP THEN 0 ELSE size[h] + (IF JoinsN THEN size[next[p]] ELSE 0)
       /\ size'[p] = size[p] + (IF JoinsP THEN size[h] + (IF JoinsN THEN size[next[p]] ELSE 0)
                                ELSE 0)
       /\ JoinsN => size'[next[p]] = 0
       /\ \A b \in Block : b # p /\ b # h /\ ~(JoinsN /\ b = next[p]) => size'[b] = size[b]
  <2>1. p # h /\ (JoinsN => next[p] # p /\ next[p] # h)
    BY <1>3, <1>6, <1>7
  <2>2. size[p] \in Nat /\ size[h] \in Nat /\ size[next[p]] \in Nat
    BY <1>6, TypeFacts
  <2>3. QED  BY <2>1, <2>2, <1>6 DEF Joined, JoinsN, JoinsP
<1>11. QED
  BY <1>3, <1>5, <1>7, <1>8, <1>9, <1>10

LEMMA InsertRing ==
    ASSUME TypeOK, RingInv, BlocksInv, mode = "insert", p \in Ring, Placed(p),
           next' = Linked(p), size' = Joined(p)
    PROVE  /\ Ring' = (Ring \ {b \in {next[p]} : JoinsN}) \cup {b \in {h} : ~JoinsP}
           /\ RingInv'
<1> DEFINE New == (Ring \ {b \in {next[p]} : JoinsN}) \cup {b \in {h} : ~JoinsP}
<1>1. Root \in Ring /\ Ring \subseteq Block /\ \A b \in Ring : next[b] \in Ring
  BY RingFacts
<1>2. h \in Heap /\ h \notin Ring /\ h \in Block
  BY BlockFacts DEF BlocksInv, Places
<1>3. /\ p < h /\ (next[p] = Root \/ next[p] > h)
      /\ JoinsN => next[p] # Root
      /\ JoinsP => p # Root
      /\ BehindH \in Ring /\ (BehindH = Root \/ BehindH > h)
      /\ next'[p] = IF JoinsP THEN BehindH ELSE h
      /\ next'[h] = IF JoinsP THEN Root ELSE BehindH
      /\ JoinsN => next'[next[p]] = Root
      /\ \A b \in Block : b # p /\ b # h /\ ~(JoinsN /\ b = next[p]) => next'[b] = next[b]
  BY InsertFacts
<1>4. \A b \in Block : next[b] = next[p] /\ next[p] # Root => b = p
  <2>1. SUFFICES ASSUME NEW b \in Block, next[b] = next[p], next[p] # Root, b # p
                 PROVE  FALSE
    OBVIOUS
  <2>2. b \in Ring
    BY <2>1 DEF RingInv, Unlinked
  <2>3. next[b] > b /\ next[p] > p
    BY <2>1, <2>2 DEF RingInv, Upwards
  <2>4. CASE b > p
    BY <2>4, <2>1, <2>2, <2>3, <1>1, BlockFacts DEF RingInv, Nearest
  <2>5. CASE p > b
    BY <2>5, <2>1, <2>2, <2>3, <1>1, BlockFacts DEF RingInv, Nearest
  <2>6. QED  BY <2>1, <2>4, <2>5, <1>1, BlockFacts
<1>5. next[h] = Root
  BY <1>2 DEF RingInv, Unlinked
<1>6. JoinsN => BehindH # next[p]
  BY <1>1, <1>3, BlockFacts DEF BehindH, RingInv, Upwards
<1>7. p \in New /\ BehindH \in New /\ Root \in New /\ New \subseteq Block
  <2>1. p \in Ring /\ (JoinsN => p # next[p])
    BY <1>1, <1>2, <1>3, BlockFacts
  <2>2. QED  BY <2>1, <1>1, <1>2, <1>3, <1>6
<1>8. Last' /\ Ring' = New
  <2>1. PICK c \in Ring : next[c] = Root
    BY DEF RingInv, Last
  <2>2. \E b \in New : next'[b] = Root
    <3>1. CASE BehindH = Root
      BY <3>1, <1>3, <1>7
    <3>2. CASE BehindH # Root
      BY <3>2, <2>1, <1>1, <1>2, <1>3 DEF BehindH
    <3>3. QED  BY <3>1, <3>2
  <2>3. ASSUME NEW b \in Block PROVE next'[b] \in New
    <3>1. CASE b = p
      BY <3>1, <1>3, <1>7
    <3>2. CASE b = h
      BY <3>2, <1>3, <1>7
    <3>3. CASE JoinsN /\ b = next[p]
      BY <3>3, <1>3, <1>7
    <3>4. CASE b # p /\ b # h /\ ~(JoinsN /\ b = next[p])
      <4>1. next'[b] = next[b] /\ next[b] \in Ring
        BY <3>4, <1>3 DEF Ring
      <4>2. JoinsN => next[b] # next[p]
        BY <3>4, <1>3, <1>4
      <4>3. QED  BY <4>1, <4>2
    <3>5. QED  BY <3>1, <3>2, <3>3, <3>4
  <2>4. ASSUME NEW d \in New PROVE \E b \in Block : next'[b] = d
    <3>1. CASE d = Root
      BY <3>1, <2>2, <1>7
    <3>2. CASE d = h
      BY <3>2, <1>1, <1>2, <1>3
    <3>3. CASE d # Root /\ d # h
      <4>1. PICK b \in Block : next[b] = d
        BY <3>3 DEF Ring
      <4>2. CASE b = p
        <5>1. ~JoinsN /\ BehindH = d
          BY <4>1, <4>2, <1>2, <3>3 DEF BehindH
        <5>2. QED  BY <5>1, <1>1, <1>2, <1>3
      <4>3. CASE JoinsN /\ b = next[p]
        <5>1. BehindH = d
          BY <4>1, <4>3 DEF BehindH
        <5>2. QED  BY <5>1, <1>1, <1>2, <1>3
      <4>4. CASE b # p /\ ~(JoinsN /\ b = next[p])
        BY <4>1, <4>4, <3>3, <1>3, <1>5
      <4>5. QED  BY <4>2, <4>3, <4>4
    <3>4. QED  BY <3>1, <3>2, <3>3
  <2>5. Ring' = New
    BY <2>3, <2>4 DEF Ring
  <2>6. QED  BY <2>2, <2>5 DEF Last
<1>9. Upwards' /\ Unlinked'
  <2>1. ASSUME NEW b \in New PROVE next'[b] = Root \/ next'[b] > b
    BY <1>1, <1>2, <1>3, <1>7, BlockFacts, TypeFacts DEF RingInv, Upwards
  <2>2. ASSUME NEW b \in Block \ New PROVE next'[b] = Root
    BY <1>1, <1>2, <1>3, <1>7 DEF RingInv, Unlinked
  <2>3. QED  BY <2>1, <2>2, <1>8 DEF Upwards, Unlinked
<1>10. \A c \in New : c > p /\ c # h => BehindH > h /\ BehindH <= c
  <2>1. SUFFICES ASSUME NEW c \in New, c > p, c # h PROVE BehindH > h /\ BehindH <= c
    OBVIOUS
  <2>2. c \in Ring /\ next[p] > p /\ next[p] <= c
    BY <2>1 DEF RingInv, Nearest
  <2>3. CASE JoinsN
    <3>1. c # next[p]
      BY <2>1, <2>3, <1>2, <1>1
    <3>2. c > next[p]
      BY <3>1, <2>2, <1>1, BlockFacts
    <3>3. BehindH > next[p] /\ BehindH <= c
      BY <3>2, <2>2, <2>3, <1>1 DEF BehindH, RingInv, Nearest
    <3>4. QED  BY <3>3, <2>2, <1>1, <1>2, <1>3, BlockFacts, TypeFacts
  <2>4. CASE ~JoinsN
    BY <2>4, <2>2, <1>1, <1>3, BlockFacts, TypeFacts DEF BehindH
  <2>5. QED  BY <2>3, <2>4
<1>11. Nearest'
  <2>1. SUFFICES ASSUME NEW b \in New, NEW c \in New, c > b
                 PROVE  next'[b] > b /\ next'[b] <= c
    BY <1>8 DEF Nearest
  <2>2. CASE b = p
    BY <2>2, <2>1, <1>1, <1>2, <1>3, <1>7, <1>10, BlockFacts, TypeFacts
  <2>3. CASE b = h
    <3>1. ~JoinsP /\ c > p /\ c # h
      BY <2>3, <2>1, <1>1, <1>2, <1>3, <1>7, BlockFacts, TypeFacts
    <3>2. QED  BY <3>1, <2>3, <1>3, <1>10
  <2>4. CASE b # p /\ b # h
    <3>1. b \in Ring /\ next'[b] = next[b]
      BY <2>4, <1>1, <1>3
    <3>2. CASE c = h
      <4>1. ~(b > p)
        BY <3>1, <3>2, <2>1, <1>1, <1>2, <1>3, BlockFacts, TypeFacts DEF RingInv, Nearest
      <4>2. b < p
        BY <4>1, <2>4, <1>1, <3>1, BlockFacts, TypeFacts
      <4>3. QED
        BY <4>2, <3>1, <3>2, <1>1, <1>2, <1>3, BlockFacts, TypeFacts DEF RingInv, Nearest
    <3>3. CASE c # h
      BY <3>1, <3>3, <2>1 DEF RingInv, Nearest
    <3>4. QED  BY <3>2, <3>3
  <2>5. QED  BY <2>2, <2>3, <2>4
<1>12. Apart'
  <2>1. SUFFICES ASSUME NEW b \in New, b # Root, next'[b] # Root
                 PROVE  b + size'[b] < next'[b]
    BY <1>8 DEF Apart
  <2>2. /\ p # Root => p + size[p] <= h
        /\ next[p] # Root => h + size[h] <= next[p]
        /\ JoinsN => next[p] = h + size[h]
        /\ JoinsP => h = p + size[p]
        /\ size'[h] = IF JoinsP THEN 0
                      ELSE size[h] + (IF JoinsN THEN size[next[p]] ELSE 0)
        /\ size'[p] = size[p] + (IF JoinsP THEN size[h] + (IF JoinsN THEN size[next[p]] ELSE 0)
                                 ELSE 0)
        /\ \A c \in Block : c # p /\ c # h /\ ~(JoinsN /\ c = next[p]) => size'[c] = size[c]
    BY InsertFacts
  <2>3. /\ p \in Int /\ h \in Int /\ next[p] \in Int /\ BehindH \in Int
        /\ size[p] \in Nat /\ size[h] \in Nat /\ size[next[p]] \in Nat
    BY <1>1, <1>2, <1>3, BlockFacts, TypeFacts, BlockFacts, TypeFacts
  <2>4. BehindH # Root => h + size[h] + (IF JoinsN THEN size[next[p]] ELSE 0) < BehindH
    <3>1. CASE JoinsN
      <4>1. BehindH # Root => next[p] + size[next[p]] < BehindH
        BY <3>1, <1>1, <1>3 DEF BehindH, RingInv, Apart
      <4>2. QED  BY <4>1, <3>1, <2>2, <2>3
    <3>2. CASE ~JoinsN
      <4>1. h + size[h] # next[p]
        BY <3>2 DEF JoinsN, JoinsNext
      <4>2. QED  BY <4>1, <3>2, <2>2, <2>3 DEF BehindH
    <3>3. QED  BY <3>1, <3>2
  <2>5. CASE b = p
    <3>1. CASE JoinsP
      BY <3>1, <2>5, <2>1, <2>2, <2>3, <2>4, <1>3
    <3>2. CASE ~JoinsP
      <4>1. p + size[p] # h
        BY <3>2 DEF JoinsP, JoinsPrev
      <4>2. QED  BY <4>1, <3>2, <2>5, <2>1, <2>2, <2>3, <1>3
    <3>3. QED  BY <3>1, <3>2
  <2>6. CASE b = h
    <3>1. ~JoinsP
      BY <2>6, <1>2, <1>7
    <3>2. QED  BY <3>1, <2>6, <2>1, <2>2, <2>3, <2>4, <1>3
  <2>7. CASE b # p /\ b # h
    BY <2>7, <2>1, <2>2, <1>1, <1>3 DEF RingInv, Apart
  <2>8. QED  BY <2>5, <2>6, <2>7
<1>13. QED
  BY <1>8, <1>9, <1>11, <1>12 DEF RingInv

-----------------------------------------------------------------------------
LEMMA HeapFacts ==
    ASSUME TypeOK
    PROVE  /\ brk \in Int /\ brk >= 1 /\ brk <= Top + 1 /\ Top \in Nat
           /\ \A u \in heap : u \in Heap /\ u < brk
           /\ \A b \in used : b \in Heap
           /\ \A u \in Int : u >= 1 /\ u <= Top => u \in Heap
  BY MallocAssumption DEF TypeOK, Heap

LEMMA BlocksAreBlocks ==
    ASSUME TypeOK, Places
    PROVE  \A b \in Blocks : b \in Heap /\ b \in Block /\ b \in Int /\ b > 0 /\ size[b] \in Nat
  BY TypeFacts, BlockFacts, HeapFacts DEF Blocks, InHand, Places

(* BLOCKCOUNT leaves room for the header: malloc looks for one unit at     *)
(* least, unless it saw the overflow.                                      *)
LEMMA NBlocksPositive ==
    ASSUME NEW bytes \in 0..SIZE_MAX, ~Overflows(bytes)
    PROVE  NBlocks(bytes) \in Nat /\ NBlocks(bytes) > 0
<1> DEFINE sum == bytes + UnitSize + UnitSize - 1
<1>1. /\ sum \in Nat /\ sum < 2 * (SIZE_MAX + 1) /\ SIZE_MAX + 1 \in Nat \ {0}
      /\ UnitSize \in Nat \ {0} /\ sum - (SIZE_MAX + 1) < bytes /\ sum >= UnitSize
  BY MallocAssumption
<1>2. sum < SIZE_MAX + 1
  <2>1. SUFFICES ASSUME sum >= SIZE_MAX + 1 PROVE FALSE
    BY <1>1
  <2>2. sum % (SIZE_MAX + 1) = sum - (SIZE_MAX + 1)
    BY <1>1, <2>1
  <2>3. QED  BY <2>2, <1>1 DEF Overflows, BLOCKCOUNT
<1>3. BLOCKCOUNT(bytes) = sum
  BY <1>1, <1>2 DEF BLOCKCOUNT
<1>4. sum \div UnitSize \in Nat /\ sum \div UnitSize >= 1
  <2> HIDE DEF sum
  <2> QED  BY <1>1
<1>5. QED  BY <1>3, <1>4 DEF NBlocks

LEMMA CallocFits ==
    ASSUME NEW n \in Nat, NEW bytes \in Nat \ {0}, n <= SIZE_MAX \div bytes
    PROVE  n * bytes \in 0..SIZE_MAX
<1>1. SIZE_MAX \in Nat
  BY MallocAssumption
<1> DEFINE q == SIZE_MAX \div bytes
<1>2. q \in Nat /\ q * bytes <= SIZE_MAX
  BY <1>1
<1>3. n * bytes <= q * bytes /\ n * bytes \in Nat
  <2> HIDE DEF q
  <2>1. n * bytes \in Nat /\ (q - n) * bytes \in Nat
    BY <1>2 DEF q
  <2>2. q * bytes = n * bytes + (q - n) * bytes
    BY <1>2
  <2>3. QED  BY <2>1, <2>2
<1>4. QED  BY <1>1, <1>2, <1>3
-----------------------------------------------------------------------------
(* The steps, one lemma for each.  Running is the part of MallocInv that   *)
(* ends with an overrun.                                                   *)
Running == RingInv /\ BlocksInv /\ LocalsInv /\ SearchInv

LEMMA SameRing ==
    ASSUME RingInv, next' = next, size' = size
    PROVE  RingInv' /\ Ring' = Ring
  BY DEF RingInv, Last, Upwards, Nearest, Unlinked, Apart, Ring

LEMMA SameBlocks ==
    ASSUME BlocksInv, Blocks' = Blocks, size' = size, heap' = heap
    PROVE  (Sized /\ Disjoint /\ Covered)'
  BY DEF BlocksInv, Sized, Disjoint, Covered

LEMMA EnterMallocStep ==
    ASSUME MallocInv, mode = "user", NEW bytes \in 0..SIZE_MAX,
           NEW o \in used \cup {NULL}, EnterMalloc(bytes, o)
    PROVE  MallocInv'
<1>1. TypeOK /\ Running
  BY DEF MallocInv, Running
<1>2. CASE Overflows(bytes)
  <2>1. /\ refused' = 0 /\ mode' = "user"
        /\ UNCHANGED <<next, size, freelist, brk, heap, used, prev, p, want, h, caller, old>>
    BY <1>2 DEF EnterMalloc, locals
  <2>2. TypeOK'
    BY <2>1, <1>1 DEF TypeOK
  <2>3. RingInv' /\ Ring' = Ring
    BY <2>1, <1>1, SameRing DEF Running
  <2>4. BlocksInv'
    <3>1. Blocks' = Blocks /\ Places'
      BY <2>1, <2>3, <1>1 DEF Running, BlocksInv, Blocks, InHand, Places
    <3>2. QED  BY <3>1, <2>1, <1>1, SameBlocks DEF BlocksInv, Running
  <2>5. LocalsInv' /\ SearchInv'
    BY <2>1, <2>3, <1>1 DEF Running, LocalsInv, SearchInv, RefusesOnlyInNeed
  <2>6. QED  BY <2>2, <2>3, <2>4, <2>5 DEF MallocInv, SearchInv
<1>3. CASE ~Overflows(bytes)
  <2>1. /\ mode' = "search" /\ want' = NBlocks(bytes) /\ prev' = freelist
        /\ p' = next[freelist] /\ old' = o /\ refused' = 0
        /\ UNCHANGED <<next, size, freelist, brk, heap, used, h, caller>>
    BY <1>3 DEF EnterMalloc
  <2>2. want' \in Nat /\ want' > 0
    BY <2>1, <1>3, NBlocksPositive
  <2>3. freelist \in Ring /\ freelist \in Block
    BY <1>1, TypeFacts DEF Running, LocalsInv
  <2>4. TypeOK'
    BY <2>1, <2>2, <2>3, <1>1, TypeFacts, HeapFacts DEF TypeOK
  <2>5. RingInv' /\ Ring' = Ring
    BY <2>1, <1>1, SameRing DEF Running
  <2>6. BlocksInv'
    <3>1. Blocks' = Blocks /\ Places'
      BY <2>1, <2>5, <1>1 DEF Running, BlocksInv, Blocks, InHand, Places
    <3>2. QED  BY <3>1, <2>1, <1>1, SameBlocks DEF BlocksInv, Running
  <2>7. LocalsInv'
    BY <2>1, <2>2, <2>3, <2>5, <1>1 DEF Running, LocalsInv
  <2>8. SearchInv'
    <3>1. ASSUME NEW b \in Ring PROVE ~Passed(b)'
      BY <2>1, <2>3, BlockFacts, TypeFacts, <1>1 DEF Passed
    <3>2. QED  BY <3>1, <2>1, <2>5 DEF SearchInv
  <2>9. QED  BY <2>4, <2>5, <2>6, <2>7, <2>8 DEF MallocInv, SearchInv
<1>4. QED  BY <1>2, <1>3

LEMMA FreeStep ==
    ASSUME MallocInv, NEW b \in Heap, free(b)
    PROVE  MallocInv'
<1>1. /\ mode = "user" /\ b \in used /\ used' = used \ {b} /\ mode' = "insert" /\ h' = b
      /\ caller' = "user" /\ p' = freelist /\ refused' = 0
      /\ UNCHANGED <<next, size, freelist, brk, heap, prev, want, old>>
  BY DEF free, EnterFree
<1>2. TypeOK /\ Running
  BY <1>1 DEF MallocInv, Running
<1>3. TypeOK'
  BY <1>1, <1>2, BlockFacts DEF TypeOK
<1>4. RingInv' /\ Ring' = Ring
  BY <1>1, <1>2, SameRing DEF Running
<1>5. BlocksInv'
  <2>1. Blocks' = Blocks /\ Places'
    BY <1>1, <1>2, <1>4 DEF Running, BlocksInv, Blocks, InHand, Places
  <2>2. QED  BY <2>1, <1>1, <1>2, SameBlocks DEF BlocksInv, Running
<1>6. LocalsInv' /\ SearchInv'
  BY <1>1, <1>2, <1>4 DEF Running, LocalsInv, SearchInv
<1>7. QED  BY <1>3, <1>4, <1>5, <1>6 DEF MallocInv, SearchInv

LEMMA TurnStep ==
    ASSUME MallocInv, mode = "search", size[p] < want, ~Around(p), prev' = p, p' = next[p],
           UNCHANGED <<next, size, freelist, brk, heap, used, mode, want, h, caller, old, refused>>
    PROVE  MallocInv'
<1>1. TypeOK /\ Running
  BY DEF MallocInv, Running
<1>2. p \in Ring /\ prev \in Ring /\ p = next[prev] /\ freelist \in Ring /\ Ring \subseteq Block
  BY <1>1, RingFacts DEF Running, LocalsInv
<1>3. TypeOK'
  BY <1>1, <1>2, TypeFacts DEF TypeOK
<1>4. RingInv' /\ Ring' = Ring
  BY <1>1, SameRing DEF Running
<1>5. BlocksInv'
  <2>1. Blocks' = Blocks /\ Places'
    BY <1>1, <1>4 DEF Running, BlocksInv, Blocks, InHand, Places
  <2>2. QED  BY <2>1, <1>1, SameBlocks DEF BlocksInv, Running
<1>6. LocalsInv'
  BY <1>1, <1>2, <1>4 DEF Running, LocalsInv
<1>7. SearchInv'
  <2>1. SUFFICES ASSUME NEW b \in Ring, Passed(b)' PROVE size[b] < want
    BY <1>1, <1>4 DEF Running, SearchInv
  <2>2. \/ freelist < b /\ b <= p
        \/ p < freelist /\ (freelist < b \/ b <= p)
    BY <2>1 DEF Passed
  <2>3. b = p \/ Passed(b)
    <3>1. p = Root \/ p > prev
      BY <1>1, <1>2 DEF Running, RingInv, Upwards
    <3>2. p # freelist
      BY DEF Around
    <3>3. b > prev => p > prev /\ p <= b
      BY <1>1, <1>2 DEF Running, RingInv, Nearest
    <3>4. freelist > prev => p > prev /\ p <= freelist
      BY <1>1, <1>2 DEF Running, RingInv, Nearest
    <3>5. b \in Int /\ p \in Int /\ prev \in Int /\ freelist \in Int
          /\ b >= 0 /\ p >= 0 /\ prev >= 0 /\ freelist >= 0
      BY <1>2, BlockFacts
    <3>6. QED  BY <2>2, <3>1, <3>2, <3>3, <3>4, <3>5 DEF Passed
  <2>4. QED  BY <2>1, <2>3, <1>1 DEF Running, SearchInv
<1>8. QED  BY <1>3, <1>4, <1>5, <1>6, <1>7 DEF MallocInv, SearchInv

LEMMA BrkmoreStep ==
    ASSUME MallocInv, mode = "search", size[p] < want, brkmore
    PROVE  MallocInv'
<1> DEFINE nb == Units(want)
<1>1. TypeOK /\ Running
  BY DEF MallocInv, Running
<1>2. /\ want \in Nat /\ want > 0 /\ old \in used \cup {NULL} /\ refused = 0
      /\ prev \in Ring /\ p = next[prev] /\ p = freelist /\ freelist \in Ring
  BY <1>1, TypeFacts DEF Running, LocalsInv, SearchInv, brkmore, Around
<1>3. nb \in Nat /\ nb >= want /\ nb > 0
  BY <1>2, MallocAssumption DEF Units
<1> HIDE DEF nb
<1>4. UNCHANGED <<next, freelist, used>>
  BY DEF brkmore
<1>5. Ring' = Ring /\ Ring \subseteq Block /\ freelist \in Block
  BY <1>1, <1>2, <1>4, TypeFacts DEF Ring
<1>6. CASE SbrkFits(nb)
  <2>1. /\ size' = [size EXCEPT ![brk] = nb] /\ brk' = brk + nb
        /\ heap' = heap \cup (brk..brk + nb - 1)
        /\ mode' = "insert" /\ h' = brk /\ caller' = "brkmore" /\ p' = freelist
        /\ UNCHANGED <<prev, want, old, refused>>
    BY <1>6 DEF brkmore, EnterFree, nb
  <2>2. brk + nb <= Top + 1 /\ brk \in Int /\ brk >= 1 /\ Top \in Nat
    BY <1>1, <1>3, <1>6, HeapFacts DEF SbrkFits
  <2>3. brk \in Heap /\ brk \in Block
    BY <2>2, <1>3, <1>1, HeapFacts, BlockFacts
  <2>4. /\ size'[brk] = nb
        /\ \A b \in Block : b # brk => size'[b] = size[b]
        /\ size' \in [Block -> Nat]
    BY <2>1, <2>3, <1>1, <1>3, TypeFacts
  <2>5. \A b \in Blocks : b \in Heap /\ b \in Block /\ b \in Int /\ b > 0 /\ size[b] \in Nat
    BY <1>1, BlocksAreBlocks DEF Running, BlocksInv
  <2>6. \A b \in Blocks : size[b] > 0 /\ b + size[b] <= brk /\ b # brk
    <3>1. SUFFICES ASSUME NEW b \in Blocks
                   PROVE  size[b] > 0 /\ b + size[b] <= brk /\ b # brk
      OBVIOUS
    <3>2. size[b] > 0
      BY <3>1, <1>1 DEF Running, BlocksInv, Sized
    <3>3. b + size[b] - 1 \in heap
      BY <3>2, <2>5, <1>1 DEF Running, BlocksInv, Sized
    <3>4. QED  BY <3>2, <3>3, <2>2, <2>5, <1>1, HeapFacts
  <2>7. brk \notin Ring /\ brk \notin used
    BY <2>2, <2>6 DEF Blocks
  <2>8. TypeOK'
    <3>1. heap' \subseteq 1..brk' - 1 /\ brk' \in 1..Top + 1
      <4>1. brk' \in 1..Top + 1
        BY <2>1, <2>2, <1>3
      <4>2. ASSUME NEW u \in heap' PROVE u \in 1..brk' - 1
        <5>1. CASE u \in heap
          BY <5>1, <2>1, <2>2, <1>1, <1>3, HeapFacts, BlockFacts
        <5>2. CASE u \in brk..brk + nb - 1
          BY <5>2, <2>1, <2>2, <1>3
        <5>3. QED  BY <5>1, <5>2, <2>1
      <4>3. QED  BY <4>1, <4>2
    <3>2. QED
      BY <3>1, <2>1, <2>3, <2>4, <1>1, <1>4, <1>5 DEF TypeOK
  <2>9. RingInv'
    <3>1. \A b \in Ring : size'[b] = size[b]
      BY <2>4, <2>7, <1>5
    <3>2. QED
      BY <3>1, <1>1, <1>4, <1>5 DEF Running, RingInv, Last, Upwards, Nearest, Unlinked, Apart
  <2>10. BlocksInv'
    <3>1. Blocks' = Blocks \cup {brk}
      BY <2>1, <1>4, <1>5 DEF Blocks, InHand
    <3>2. Places'
      BY <2>1, <2>2, <2>3, <2>4, <2>7, <1>1, <1>4, <1>5, BlockFacts DEF Running, BlocksInv, Places
    <3>3. Sized'
      <4>1. SUFFICES ASSUME NEW b \in Blocks \cup {brk}
                     PROVE  size'[b] > 0 /\ \A u \in b..b + size'[b] - 1 : u \in heap'
        BY <3>1 DEF Sized
      <4>2. CASE b = brk
        BY <4>2, <2>1, <2>4, <1>3
      <4>3. CASE b # brk
        BY <4>1, <4>3, <2>1, <2>4, <2>5, <1>1 DEF Running, BlocksInv, Sized
      <4>4. QED  BY <4>2, <4>3
    <3>4. Disjoint'
      <4>1. SUFFICES ASSUME NEW b \in Blocks \cup {brk}, NEW c \in Blocks \cup {brk}, b < c
                     PROVE  b + size'[b] <= c
        BY <3>1 DEF Disjoint
      <4>2. b \in Blocks /\ size'[b] = size[b]
        <5>1. b # brk
          BY <4>1, <2>2, <2>5, <2>6
        <5>2. QED  BY <5>1, <4>1, <2>4, <2>5
      <4>3. CASE c = brk
        BY <4>2, <4>3, <2>6
      <4>4. CASE c # brk
        BY <4>1, <4>2, <4>4, <1>1 DEF Running, BlocksInv, Disjoint
      <4>5. QED  BY <4>3, <4>4
    <3>5. Covered'
      <4>1. SUFFICES ASSUME NEW u \in heap'
                     PROVE  \E b \in Blocks \cup {brk} : b <= u /\ u < b + size'[b]
        BY <3>1 DEF Covered
      <4>2. CASE u \in heap
        <5>1. PICK b \in Blocks : b <= u /\ u < b + size[b]
          BY <4>2, <1>1 DEF Running, BlocksInv, Covered
        <5>2. size'[b] = size[b]
          BY <2>4, <2>5, <2>6
        <5>3. QED  BY <5>1, <5>2
      <4>3. CASE u \in brk..brk + nb - 1
        BY <4>3, <2>2, <2>4, <1>3
      <4>4. QED  BY <4>1, <4>2, <4>3, <2>1
    <3>6. QED  BY <3>2, <3>3, <3>4, <3>5 DEF BlocksInv
  <2>11. LocalsInv' /\ SearchInv'
    BY <2>1, <1>2, <1>4, <1>5 DEF LocalsInv, SearchInv
  <2>12. QED  BY <2>8, <2>9, <2>10, <2>11 DEF MallocInv, SearchInv
<1>7. CASE ~SbrkFits(nb)
  <2>1. /\ refused' = want /\ mode' = "user" /\ prev' = Root /\ p' = Root /\ h' = Root
        /\ want' = 0 /\ caller' = "user" /\ old' = NULL
        /\ UNCHANGED <<size, brk, heap>>
    BY <1>7 DEF brkmore, Return, nb
  <2>2. TypeOK'
    BY <2>1, <1>1, <1>2, <1>4, BlockFacts DEF TypeOK
  <2>3. RingInv'
    BY <2>1, <1>1, <1>4, SameRing DEF Running
  <2>4. BlocksInv'
    <3>1. Blocks' = Blocks /\ Places'
      BY <2>1, <1>1, <1>4, <1>5 DEF Running, BlocksInv, Blocks, InHand, Places
    <3>2. QED  BY <3>1, <2>1, <1>1, SameBlocks DEF BlocksInv, Running
  <2>5. LocalsInv'
    BY <2>1, <1>2, <1>4, <1>5 DEF LocalsInv
  <2>6. \A b \in Ring : size[b] < want
    <3>1. SUFFICES ASSUME NEW b \in Ring, b # freelist PROVE size[b] < want
      BY <1>2
    <3>2. freelist = Root \/ freelist > prev
      BY <1>1, <1>2 DEF Running, RingInv, Upwards
    <3>3. b > prev => freelist > prev /\ freelist <= b
      BY <1>1, <1>2 DEF Running, RingInv, Nearest
    <3>4. b \in Int /\ prev \in Int /\ freelist \in Int /\ b >= 0 /\ prev >= 0 /\ freelist >= 0
      BY <1>2, <1>5, BlockFacts
    <3>5. Passed(b)
      BY <3>1, <3>2, <3>3, <3>4 DEF Passed
    <3>6. QED  BY <3>5, <1>1 DEF Running, SearchInv
  <2>7. SearchInv'
    BY <2>1, <2>6, <1>5 DEF SearchInv, RefusesOnlyInNeed
  <2>8. QED  BY <2>2, <2>3, <2>4, <2>5, <2>7 DEF MallocInv, SearchInv
<1>8. QED  BY <1>6, <1>7

LEMMA InsertBlocks ==
    ASSUME TypeOK, RingInv, BlocksInv, mode = "insert", p \in Ring, Placed(p),
           next' = Linked(p), size' = Joined(p), UNCHANGED <<used, heap>>,
           mode' \in {"user", "search"}
    PROVE  BlocksInv'
<1> DEFINE n == next[p]
           tail == size[h] + (IF JoinsN THEN size[n] ELSE 0)
<1>1. Root \in Ring /\ Ring \subseteq Block /\ \A b \in Ring : next[b] \in Ring
  BY RingFacts
<1>2. h \in Heap /\ h \in Block /\ h \notin Ring /\ h \notin used /\ size[Root] = 0 /\ used \cap Ring = {}
  BY BlockFacts DEF BlocksInv, Places
<1>3. /\ p < h /\ (n = Root \/ n > h)
      /\ JoinsN => n # Root /\ n = h + size[h]
      /\ JoinsP => p # Root /\ h = p + size[p]
      /\ \A b \in Block : b # p /\ b # h /\ ~(JoinsN /\ b = n) => size'[b] = size[b]
      /\ size'[h] = IF JoinsP THEN 0 ELSE tail
      /\ size'[p] = size[p] + (IF JoinsP THEN tail ELSE 0)
  BY InsertFacts
<1>4. Ring' = (Ring \ {b \in {n} : JoinsN}) \cup {b \in {h} : ~JoinsP}
  BY InsertRing
<1>5. \A b \in Blocks : b \in Heap /\ b \in Block /\ b \in Int /\ b > 0 /\ size[b] \in Nat
  BY BlocksAreBlocks DEF BlocksInv
<1>6. h \in Blocks /\ (p # Root => p \in Blocks) /\ (n # Root => n \in Blocks)
  BY <1>1 DEF Blocks, InHand
<1>7. /\ p \in Int /\ p >= 0 /\ size[p] \in Nat /\ n \in Int /\ size[n] \in Nat
      /\ h \in Int /\ h > 0 /\ size[h] \in Nat /\ size[h] > 0 /\ tail \in Nat
      /\ JoinsN => n \in Int /\ size[n] > 0
  BY <1>1, <1>2, <1>3, <1>5, <1>6, TypeFacts, BlockFacts DEF BlocksInv, Sized
<1>8. Blocks' = Blocks \ ({b \in {n} : JoinsN} \cup {b \in {h} : JoinsP})
  <2>1. InHand' = {} /\ InHand = {h}
    BY DEF InHand
  <2>2. JoinsN => n \notin used
    BY <1>1, <1>2
  <2>3. QED  BY <2>1, <2>2, <1>2, <1>3, <1>4, <1>7 DEF Blocks
<1>9. Places'
  <2>1. size'[Root] = 0
    BY <1>2, <1>3, <1>7, BlockFacts
  <2>2. QED  BY <2>1, <1>2, <1>4 DEF Places
<1>10. \A b \in Blocks' :
          size'[b] = IF (b = p /\ JoinsP) \/ b = h THEN (IF b = p THEN size[p] ELSE 0) + tail
                     ELSE size[b]
  <2>1. SUFFICES ASSUME NEW b \in Blocks'
                 PROVE  size'[b] = IF (b = p /\ JoinsP) \/ b = h
                                   THEN (IF b = p THEN size[p] ELSE 0) + tail
                                   ELSE size[b]
    OBVIOUS
  <2>2. b \in Block /\ ~(JoinsN /\ b = n) /\ ~(JoinsP /\ b = h)
    BY <1>5, <1>8
  <2> HIDE DEF tail
  <2>3. QED  BY <2>2, <1>3, <1>7
(* What follows the end of h, or of the block it is joined with. *)
<1>11. \A c \in Blocks : c > h /\ ~(JoinsN /\ c = n) => h + tail <= c
  <2>1. SUFFICES ASSUME NEW c \in Blocks, c > h, ~(JoinsN /\ c = n) PROVE h + tail <= c
    OBVIOUS
  <2>2. h + size[h] <= c
    BY <2>1, <1>6 DEF BlocksInv, Disjoint
  <2>3. CASE JoinsN
    <3>1. n < c /\ n \in Blocks
      BY <2>1, <2>2, <2>3, <1>3, <1>5, <1>6, <1>7
    <3>2. n + size[n] <= c
      BY <3>1 DEF BlocksInv, Disjoint
    <3>3. QED  BY <3>2, <2>3, <1>3, <1>7
  <2>4. CASE ~JoinsN
    BY <2>2, <2>4, <1>7
  <2>5. QED  BY <2>3, <2>4
<1>12. \A u \in h..h + tail - 1 : u \in heap
  <2>1. SUFFICES ASSUME NEW u \in h..h + tail - 1 PROVE u \in heap
    OBVIOUS
  <2>2. CASE u \in h..h + size[h] - 1
    BY <2>2, <1>6 DEF BlocksInv, Sized
  <2>3. CASE JoinsN /\ u \in n..n + size[n] - 1
    BY <2>3, <1>3, <1>6 DEF BlocksInv, Sized
  <2>4. QED  BY <2>1, <2>2, <2>3, <1>3, <1>7
<1>13. Sized'
  <2>1. SUFFICES ASSUME NEW b \in Blocks'
                 PROVE  size'[b] > 0 /\ \A u \in b..b + size'[b] - 1 : u \in heap
    BY DEF Sized
  <2>2. b \in Blocks /\ b \in Int /\ size[b] \in Nat /\ size[b] > 0
        /\ \A u \in b..b + size[b] - 1 : u \in heap
    BY <1>5, <1>8 DEF BlocksInv, Sized
  <2>3. CASE b = p /\ JoinsP
    <3>1. size'[b] = size[p] + tail
      BY <2>1, <2>3, <1>10
    <3> HIDE DEF tail
    <3>2. ASSUME NEW u \in b..b + size'[b] - 1 PROVE u \in heap
      <4>1. CASE u < h
        <5>1. u \in b..b + size[b] - 1
          BY <4>1, <3>1, <2>2, <2>3, <1>3, <1>7
        <5>2. QED  BY <5>1, <2>2
      <4>2. CASE u >= h
        <5>1. u \in h..h + tail - 1
          BY <4>2, <3>1, <2>2, <2>3, <1>3, <1>7
        <5>2. QED  BY <5>1, <1>12
      <4>3. QED  BY <4>1, <4>2, <2>2, <3>1, <1>7
    <3>3. QED  BY <3>1, <3>2, <2>2, <2>3, <1>7
  <2>4. CASE b = h
    <3>1. size'[b] = tail /\ tail > 0
      BY <2>1, <2>4, <1>3, <1>7, <1>10
    <3>2. QED  BY <3>1, <2>4, <1>12
  <2>5. CASE ~(b = p /\ JoinsP) /\ b # h
    BY <2>1, <2>2, <2>5, <1>10
  <2>6. QED  BY <2>3, <2>4, <2>5
<1>14. Disjoint'
  <2>1. SUFFICES ASSUME NEW b \in Blocks', NEW c \in Blocks', b < c
                 PROVE  b + size'[b] <= c
    BY DEF Disjoint
  <2>2. /\ b \in Blocks /\ c \in Blocks /\ b \in Int /\ c \in Int /\ b + size[b] <= c
        /\ ~(JoinsN /\ c = n) /\ ~(JoinsP /\ c = h)
    BY <2>1, <1>5, <1>8 DEF BlocksInv, Disjoint
  <2> HIDE DEF tail
  <2>3. CASE b = p /\ JoinsP
    <3>1. c > h /\ size'[b] = size[p] + tail
      BY <2>1, <2>2, <2>3, <1>3, <1>7, <1>10
    <3>2. h + tail <= c
      BY <3>1, <2>2, <1>11
    <3>3. QED  BY <3>1, <3>2, <2>2, <2>3, <1>3, <1>7
  <2>4. CASE b = h
    <3>1. size'[b] = tail
      BY <2>1, <2>4, <1>3, <1>7, <1>10
    <3>2. QED  BY <3>1, <2>1, <2>2, <2>4, <1>11
  <2>5. CASE ~(b = p /\ JoinsP) /\ b # h
    BY <2>1, <2>2, <2>5, <1>10
  <2>6. QED  BY <2>3, <2>4, <2>5
<1>15. Covered'
  <2>1. SUFFICES ASSUME NEW u \in heap
                 PROVE  \E b \in Blocks' : b <= u /\ u < b + size'[b]
    BY DEF Covered
  <2>2. PICK b \in Blocks : b <= u /\ u < b + size[b]
    BY <2>1 DEF BlocksInv, Covered
  <2>3. u \in Int
    BY <2>1, HeapFacts, BlockFacts
  <2> HIDE DEF tail
  <2>4. CASE b = h \/ (JoinsN /\ b = n)
    <3>1. h <= u /\ u < h + tail
      BY <2>2, <2>3, <2>4, <1>3, <1>7 DEF tail
    <3>2. CASE JoinsP
      <4>1. p \in Blocks' /\ size'[p] = size[p] + tail
        BY <3>2, <1>3, <1>6, <1>7, <1>8
      <4>2. QED  BY <4>1, <3>1, <3>2, <2>3, <1>3, <1>7
    <3>3. CASE ~JoinsP
      <4>1. h \in Blocks' /\ size'[h] = tail
        BY <3>3, <1>3, <1>6, <1>7, <1>8
      <4>2. QED  BY <4>1, <3>1
    <3>4. QED  BY <3>2, <3>3
  <2>5. CASE b # h /\ ~(JoinsN /\ b = n)
    <3>1. b \in Blocks'
      BY <2>5, <1>8
    <3>2. size'[b] >= size[b] /\ size'[b] \in Int
      BY <3>1, <2>5, <1>5, <1>7, <1>10
    <3>3. QED  BY <3>1, <3>2, <2>2, <2>3, <1>5
  <2>6. QED  BY <2>4, <2>5
<1>16. QED  BY <1>9, <1>13, <1>14, <1>15 DEF BlocksInv

(* Whatever block b malloc found, once it is taken from the free ones all  *)
(* is well, in malloc and in a realloc that goes on to free the old block. *)
LEMMA FoundStep ==
    ASSUME NEW b \in Heap, MallocInv, mode = "search", Found(b), freelist' = prev,
           UNCHANGED <<brk, heap, refused>>,
           next' \in [Block -> Block], size' \in [Block -> Nat], size'[Root] = 0,
           RingInv', prev \in Ring', b \notin Ring', b \notin used, used \cap Ring' = {},
           LET B == (Ring' \ {Root}) \cup used \cup {b}
           IN  /\ \A c \in B : size'[c] > 0 /\ \A u \in c..c + size'[c] - 1 : u \in heap
               /\ \A c, d \in B : c < d => c + size'[c] <= d
               /\ \A u \in heap : \E c \in B : c <= u /\ u < c + size'[c]
    PROVE  MallocInv'
<1> DEFINE B == (Ring' \ {Root}) \cup used \cup {b}
<1>1. TypeOK /\ Running
  BY DEF MallocInv, Running
<1>2. /\ refused = 0 /\ old \in used \cup {NULL} /\ prev \in Block /\ used \subseteq Heap
      /\ \A c \in used : c \in Heap /\ c \in Block /\ c # NULL
      /\ b \in Block /\ b # NULL
  BY <1>1, TypeFacts, HeapFacts, BlockFacts DEF Running, LocalsInv, SearchInv
<1>3. CASE old = NULL
  <2>1. /\ used' = used \cup {b} /\ mode' = "user" /\ prev' = Root /\ p' = Root /\ h' = Root
        /\ want' = 0 /\ caller' = "user" /\ old' = NULL
    BY <1>3 DEF Found, Return
  <2>2. TypeOK'
    BY <2>1, <1>1, <1>2, BlockFacts DEF TypeOK
  <2>3. Blocks' = B /\ Places'
    BY <2>1 DEF Blocks, InHand, Places
  <2>4. BlocksInv'
    BY <2>3 DEF BlocksInv, Sized, Disjoint, Covered
  <2>5. LocalsInv' /\ SearchInv'
    BY <2>1, <1>2 DEF LocalsInv, SearchInv, RefusesOnlyInNeed
  <2>6. QED  BY <2>2, <2>4, <2>5 DEF MallocInv, SearchInv
<1>4. CASE old # NULL /\ size[old] > size'[b] - 1
  <2>1. /\ mode' = "overrun" /\ used' = used \cup {b}
        /\ UNCHANGED <<prev, p, want, h, caller, old>>
    BY <1>4 DEF Found, locals
  <2>2. TypeOK'
    BY <2>1, <1>1, <1>2, BlockFacts DEF TypeOK
  <2>3. QED  BY <2>1, <2>2, <1>2 DEF MallocInv
<1>5. CASE old # NULL /\ ~(size[old] > size'[b] - 1)
  <2>1. /\ used' = (used \cup {b}) \ {old} /\ mode' = "insert" /\ h' = old /\ caller' = "user"
        /\ p' = freelist' /\ UNCHANGED <<prev, want, old>>
    BY <1>5 DEF Found, EnterFree
  <2>2. old \in used /\ old # b
    BY <1>2, <1>5
  <2>3. TypeOK'
    BY <2>1, <2>2, <1>1, <1>2, BlockFacts DEF TypeOK
  <2>4. Blocks' = B /\ Places'
    BY <2>1, <2>2, <1>2 DEF Blocks, InHand, Places
  <2>5. BlocksInv'
    BY <2>4 DEF BlocksInv, Sized, Disjoint, Covered
  <2>6. LocalsInv' /\ SearchInv'
    BY <2>1, <1>2 DEF LocalsInv, SearchInv
  <2>7. QED  BY <2>3, <2>5, <2>6 DEF MallocInv, SearchInv
<1>6. QED  BY <1>3, <1>4, <1>5

(* malloc takes a block of exactly the wanted size.                        *)
LEMMA ExactStep ==
    ASSUME MallocInv, mode = "search", ExactSize(p), UNCHANGED <<brk, heap, refused>>
    PROVE  MallocInv'
<1>1. TypeOK /\ RingInv /\ BlocksInv /\ LocalsInv
  BY DEF MallocInv
<1>2. /\ size[p] = want /\ next' = [next EXCEPT ![p] = Root, ![prev] = next[p]]
      /\ freelist' = prev /\ size' = size /\ Found(p)
  BY DEF ExactSize
<1>3. want > 0 /\ prev \in Ring /\ p = next[prev] /\ size[Root] = 0 /\ used \cap Ring = {}
  BY <1>1 DEF LocalsInv, BlocksInv, Places
<1>4. p \in Ring \ {Root} /\ prev # p /\ Ring' = Ring \ {p} /\ RingInv'
  BY <1>1, <1>2, <1>3, ExactRing
<1>5. p \in Heap /\ next' \in [Block -> Block] /\ size' \in [Block -> Nat]
  BY <1>1, <1>2, <1>4, TypeFacts, BlockFacts
<1>6. (Ring' \ {Root}) \cup used \cup {p} = Blocks
  BY <1>4 DEF Blocks, InHand
<1>7. /\ \A c \in Blocks : size'[c] > 0 /\ \A u \in c..c + size'[c] - 1 : u \in heap
      /\ \A c, d \in Blocks : c < d => c + size'[c] <= d
      /\ \A u \in heap : \E c \in Blocks : c <= u /\ u < c + size'[c]
  BY <1>1, <1>2 DEF BlocksInv, Sized, Disjoint, Covered
<1>8. p \notin used /\ used \cap Ring' = {} /\ p \notin Ring' /\ prev \in Ring' /\ size'[Root] = 0
  BY <1>2, <1>3, <1>4
<1>9. QED
  BY <1>2, <1>4, <1>5, <1>6, <1>7, <1>8, FoundStep

(* malloc takes the end of a larger block.                                 *)
LEMMA LargerStep ==
    ASSUME MallocInv, mode = "search", LargerSize(p), UNCHANGED <<brk, heap, refused>>
    PROVE  MallocInv'
<1> DEFINE e == p + size[p] - want
<1>1. TypeOK /\ RingInv /\ BlocksInv /\ LocalsInv
  BY DEF MallocInv
<1>2. /\ size[p] > want /\ size' = [size EXCEPT ![p] = size[p] - want, ![e] = want]
      /\ freelist' = prev /\ next' = next /\ Found(e)
  BY DEF LargerSize, Split
<1>3. /\ want > 0 /\ want \in Nat /\ prev \in Ring /\ p = next[prev] /\ size[Root] = 0
      /\ used \cap Ring = {} /\ Ring' = Ring /\ p \in Ring
  BY <1>1, <1>2, TypeFacts, RingFacts DEF LocalsInv, BlocksInv, Places, Ring
<1>4. \A b \in Blocks : b \in Heap /\ b \in Block /\ b \in Int /\ b > 0 /\ size[b] \in Nat
  BY <1>1, BlocksAreBlocks DEF BlocksInv
<1>5. p # Root /\ p \in Blocks /\ p \in Block /\ p \in Int /\ size[p] \in Nat
  BY <1>1, <1>2, <1>3, <1>4, TypeFacts DEF Blocks
<1>6. e \in Int /\ p < e /\ e < p + size[p] /\ e + want = p + size[p]
  BY <1>2, <1>3, <1>5
<1>7. e \in heap /\ e \in Heap /\ e \in Block /\ e # Root
  <2>1. e \in heap
    BY <1>5, <1>6, <1>1 DEF BlocksInv, Sized
  <2>2. QED  BY <2>1, <1>1, HeapFacts, BlockFacts
<1>8. e \notin Blocks
  <2>1. SUFFICES ASSUME e \in Blocks PROVE FALSE
    OBVIOUS
  <2>2. p + size[p] <= e
    BY <2>1, <1>1, <1>5, <1>6 DEF BlocksInv, Disjoint
  <2>3. QED  BY <2>2, <1>5, <1>6
<1> HIDE DEF e
<1>9. e \notin Ring /\ e \notin used
  BY <1>7, <1>8 DEF Blocks
<1>10. /\ size'[p] = size[p] - want /\ size'[e] = want /\ size' \in [Block -> Nat]
       /\ \A b \in Block : b # p /\ b # e => size'[b] = size[b]
  <2>1. size[p] - want \in Nat
    BY <1>2, <1>3, <1>5
  <2>2. p # e /\ size \in [Block -> Nat]
    BY <1>1, <1>5, <1>6, TypeFacts
  <2>3. QED  BY <2>1, <2>2, <1>2, <1>3, <1>5, <1>7
<1>11. RingInv'
  <2>1. Apart'
    <3>1. SUFFICES ASSUME NEW b \in Ring \ {Root}, next[b] # Root
                   PROVE  b + size'[b] < next[b]
      BY <1>2, <1>3 DEF Apart
    <3>2. b + size[b] < next[b]
      BY <3>1, <1>1 DEF RingInv, Apart
    <3>3. b \in Block /\ b \in Int /\ next[b] \in Int /\ size[b] \in Nat
      BY <3>1, <1>1, TypeFacts, BlockFacts
    <3>4. CASE b = p
      BY <3>2, <3>3, <3>4, <1>3, <1>10
    <3>5. CASE b # p
      BY <3>1, <3>2, <3>3, <3>5, <1>9, <1>10
    <3>6. QED  BY <3>4, <3>5
  <2>2. (Last /\ Upwards /\ Nearest /\ Unlinked)'
    BY <1>1, <1>2, <1>3 DEF RingInv, Last, Upwards, Nearest, Unlinked
  <2>3. QED  BY <2>1, <2>2 DEF RingInv
<1>12. (Ring' \ {Root}) \cup used \cup {e} = Blocks \cup {e}
  BY <1>3 DEF Blocks, InHand
<1>13. \A c \in Blocks \cup {e} : size'[c] > 0 /\ \A u \in c..c + size'[c] - 1 : u \in heap
  <2>1. SUFFICES ASSUME NEW c \in Blocks \cup {e}
                 PROVE  size'[c] > 0 /\ \A u \in c..c + size'[c] - 1 : u \in heap
    OBVIOUS
  <2>2. \A u \in p..p + size[p] - 1 : u \in heap
    BY <1>1, <1>5 DEF BlocksInv, Sized
  <2>3. CASE c = p
    BY <2>2, <2>3, <1>2, <1>3, <1>5, <1>10
  <2>4. CASE c = e
    BY <2>2, <2>4, <1>3, <1>5, <1>6, <1>10
  <2>5. CASE c # p /\ c # e
    BY <2>1, <2>5, <1>1, <1>4, <1>10 DEF BlocksInv, Sized
  <2>6. QED  BY <2>3, <2>4, <2>5
<1>14. \A c, d \in Blocks \cup {e} : c < d => c + size'[c] <= d
  <2>1. SUFFICES ASSUME NEW c \in Blocks \cup {e}, NEW d \in Blocks \cup {e}, c < d
                 PROVE  c + size'[c] <= d
    OBVIOUS
  <2>2. c \in Int /\ d \in Int
    BY <1>4, <1>6
  <2>3. CASE c = e
    <3>1. d \in Blocks /\ p < d
      BY <2>1, <2>2, <2>3, <1>5, <1>6
    <3>2. p + size[p] <= d
      BY <3>1, <1>1, <1>5 DEF BlocksInv, Disjoint
    <3>3. QED  BY <3>2, <2>3, <1>6, <1>10
  <2>4. CASE c = p
    <3>1. CASE d = e
      BY <3>1, <2>4, <1>3, <1>5, <1>6, <1>10
    <3>2. CASE d # e
      <4>1. p + size[p] <= d
        BY <3>2, <2>1, <2>4, <1>1, <1>5 DEF BlocksInv, Disjoint
      <4>2. QED  BY <4>1, <2>2, <2>4, <1>3, <1>5, <1>10
    <3>3. QED  BY <3>1, <3>2
  <2>5. CASE c # e /\ c # p
    <3>1. c \in Blocks /\ size'[c] = size[c] /\ size[c] \in Nat
      BY <2>1, <2>5, <1>4, <1>10
    <3>2. CASE d = e
      <4>1. CASE c < p
        <5>1. c + size[c] <= p
          BY <4>1, <3>1, <1>1, <1>5 DEF BlocksInv, Disjoint
        <5>2. QED  BY <5>1, <3>1, <3>2, <2>2, <1>5, <1>6
      <4>2. CASE p < c
        <5>1. p + size[p] <= c
          BY <4>2, <3>1, <1>1, <1>5 DEF BlocksInv, Disjoint
        <5>2. QED  BY <5>1, <3>2, <2>1, <2>2, <1>5, <1>6
      <4>3. QED  BY <4>1, <4>2, <2>2, <2>5, <1>5
    <3>3. CASE d # e
      BY <3>1, <3>3, <2>1, <1>1 DEF BlocksInv, Disjoint
    <3>4. QED  BY <3>2, <3>3
  <2>6. QED  BY <2>3, <2>4, <2>5
<1>15. \A u \in heap : \E c \in Blocks \cup {e} : c <= u /\ u < c + size'[c]
  <2>1. SUFFICES ASSUME NEW u \in heap
                 PROVE  \E c \in Blocks \cup {e} : c <= u /\ u < c + size'[c]
    OBVIOUS
  <2>2. u \in Int
    BY <1>1, HeapFacts, BlockFacts
  <2>3. PICK c \in Blocks : c <= u /\ u < c + size[c]
    BY <1>1 DEF BlocksInv, Covered
  <2>4. CASE c = p /\ u >= e
    <3>1. e <= u /\ u < e + size'[e]
      BY <2>2, <2>3, <2>4, <1>6, <1>10
    <3>2. QED  BY <3>1
  <2>5. CASE c = p /\ u < e
    <3>1. u < p + size'[p]
      BY <2>2, <2>3, <2>5, <1>3, <1>5, <1>6, <1>10
    <3>2. QED  BY <3>1, <2>3, <2>5
  <2>6. CASE c # p
    <3>1. size'[c] = size[c]
      BY <2>3, <2>6, <1>4, <1>8, <1>10
    <3>2. QED  BY <3>1, <2>3
  <2>7. QED  BY <2>2, <2>4, <2>5, <2>6, <1>6
<1>16. size'[Root] = 0 /\ next' \in [Block -> Block] /\ prev \in Ring' /\ used \cap Ring' = {}
       /\ e \notin Ring'
  BY <1>1, <1>2, <1>3, <1>5, <1>7, <1>9, <1>10, TypeFacts, BlockFacts
<1>17. QED
  BY <1>2, <1>7, <1>9, <1>10, <1>11, <1>12, <1>13, <1>14, <1>15, <1>16, FoundStep

(* free puts the block in the ring, and is done, or goes back to malloc.   *)
LEMMA InsertStep ==
    ASSUME MallocInv, Insert
    PROVE  MallocInv'
<1>1. /\ mode = "insert" /\ Placed(p) /\ next' = Linked(p) /\ size' = Joined(p)
      /\ freelist' = p /\ UNCHANGED <<brk, heap, used, refused>>
  BY DEF Insert
<1>2. TypeOK /\ RingInv /\ BlocksInv /\ LocalsInv /\ SearchInv
  BY <1>1 DEF MallocInv
<1>3. p \in Ring /\ refused = 0 /\ p \in Block /\ h \in Block /\ Ring \subseteq Block
  BY <1>1, <1>2, TypeFacts DEF LocalsInv, SearchInv
<1>4. RingInv' /\ Ring' = (Ring \ {b \in {next[p]} : JoinsN}) \cup {b \in {h} : ~JoinsP}
  BY <1>1, <1>2, <1>3, InsertRing
<1>5. p \in Ring'
  <2>1. p < h /\ (JoinsN => next[p] # Root /\ next[p] = h + size[h])
    BY <1>1, <1>2, <1>3, InsertFacts
  <2>2. JoinsN => next[p] # p
    BY <2>1, <1>2, <1>3, TypeFacts, BlockFacts
  <2>3. QED  BY <2>2, <1>3, <1>4
<1>6. next' \in [Block -> Block] /\ size' \in [Block -> Nat]
  <2>1. next[p] \in Block /\ next[next[p]] \in Block /\ size[next[p]] \in Nat
    BY <1>2, <1>3, TypeFacts
  <2>2. next' \in [Block -> Block]
    BY <2>1, <1>1, <1>2, <1>3, TypeFacts, BlockFacts DEF Linked
  <2>3. size[h] + size[next[p]] \in Nat /\ size[p] + size[h] \in Nat
        /\ size[p] + (size[h] + size[next[p]]) \in Nat
    BY <2>1, <1>2, <1>3, TypeFacts
  <2>4. size' \in [Block -> Nat]
    BY <2>1, <2>3, <1>1, <1>2, <1>3, TypeFacts DEF Joined
  <2>5. QED  BY <2>2, <2>4
<1>7. CASE caller = "user"
  <2>1. /\ mode' = "user" /\ prev' = Root /\ p' = Root /\ h' = Root
        /\ want' = 0 /\ caller' = "user" /\ old' = NULL
    BY <1>7 DEF Insert, Return
  <2>2. TypeOK'
    BY <2>1, <1>1, <1>2, <1>3, <1>6, BlockFacts DEF TypeOK
  <2>3. BlocksInv'
    BY <2>1, <1>1, <1>2, <1>3, InsertBlocks
  <2>4. LocalsInv' /\ SearchInv'
    BY <2>1, <1>1, <1>3, <1>5 DEF LocalsInv, SearchInv, RefusesOnlyInNeed
  <2>5. QED  BY <2>2, <2>3, <2>4, <1>4 DEF MallocInv, SearchInv
<1>8. CASE caller # "user"
  <2>1. /\ mode' = "search" /\ prev' = p /\ p' = next'[p] /\ h' = Root /\ caller' = "user"
        /\ UNCHANGED <<want, old>> /\ caller = "brkmore"
    BY <1>2, <1>8 DEF Insert, TypeOK
  <2>2. TypeOK'
    BY <2>1, <1>1, <1>2, <1>3, <1>6, BlockFacts DEF TypeOK
  <2>3. BlocksInv'
    BY <2>1, <1>1, <1>2, <1>3, InsertBlocks
  <2>4. LocalsInv'
    BY <2>1, <1>1, <1>2, <1>5 DEF LocalsInv
  <2>5. SearchInv'
    <3>1. ASSUME NEW b \in Ring' PROVE ~Passed(b)'
      <4>1. b \in Block /\ p \in Int /\ b \in Int
        BY <1>3, <1>4, BlockFacts
      <4>2. QED  BY <4>1, <2>1, <1>1 DEF Passed
    <3>2. QED  BY <3>1, <2>1, <1>1, <1>3 DEF SearchInv
  <2>6. QED  BY <2>2, <2>3, <2>4, <2>5, <1>4 DEF MallocInv, SearchInv
<1>9. QED  BY <1>7, <1>8

(* free looks further in the ring.                                         *)
LEMMA InsertNextStep ==
    ASSUME MallocInv, InsertNext
    PROVE  MallocInv'
<1>1. /\ mode = "insert" /\ p' = next[p]
      /\ UNCHANGED <<next, size, freelist, brk, heap, used, mode, prev, want, h, caller, old, refused>>
  BY DEF InsertNext
<1>2. TypeOK /\ RingInv /\ BlocksInv /\ LocalsInv /\ SearchInv
  BY <1>1 DEF MallocInv
<1>3. RingInv' /\ Ring' = Ring /\ next[p] \in Ring /\ next[p] \in Block
  BY <1>1, <1>2, SameRing, RingFacts, TypeFacts DEF LocalsInv
<1>4. TypeOK'
  BY <1>1, <1>2, <1>3 DEF TypeOK
<1>5. BlocksInv'
  <2>1. Blocks' = Blocks /\ Places'
    BY <1>1, <1>2, <1>3 DEF BlocksInv, Blocks, InHand, Places
  <2>2. QED  BY <2>1, <1>1, <1>2, SameBlocks DEF BlocksInv
<1>6. LocalsInv' /\ SearchInv'
  BY <1>1, <1>2, <1>3 DEF LocalsInv, SearchInv
<1>7. QED  BY <1>3, <1>4, <1>5, <1>6 DEF MallocInv, SearchInv

(* Somebody else takes memory from sbrk.                                   *)
LEMMA OtherSbrkStep ==
    ASSUME MallocInv, OtherSbrk
    PROVE  MallocInv'
<1>1. /\ mode = "user" /\ brk <= Top /\ brk' = brk + 1
      /\ UNCHANGED <<next, size, freelist, heap, used, mode, prev, p, want, h, caller, old, refused>>
  BY DEF OtherSbrk, locals
<1>2. TypeOK /\ RingInv /\ BlocksInv /\ LocalsInv /\ SearchInv
  BY <1>1 DEF MallocInv
<1>3. RingInv' /\ Ring' = Ring
  BY <1>1, <1>2, SameRing
<1>4. TypeOK'
  <2>1. brk' \in 1..Top + 1 /\ heap' \subseteq 1..brk' - 1
    BY <1>1, <1>2, HeapFacts, BlockFacts
  <2>2. QED  BY <2>1, <1>1, <1>2 DEF TypeOK
<1>5. BlocksInv'
  <2>1. Blocks' = Blocks /\ Places'
    BY <1>1, <1>2, <1>3 DEF BlocksInv, Blocks, InHand, Places
  <2>2. QED  BY <2>1, <1>1, <1>2, SameBlocks DEF BlocksInv
<1>6. LocalsInv' /\ SearchInv'
  BY <1>1, <1>2, <1>3 DEF LocalsInv, SearchInv, RefusesOnlyInNeed
<1>7. QED  BY <1>3, <1>4, <1>5, <1>6 DEF MallocInv, SearchInv
-----------------------------------------------------------------------------
LEMMA InitMallocInv == Init => MallocInv
<1> SUFFICES ASSUME Init PROVE MallocInv
  OBVIOUS
<1>1. /\ next = [b \in Block |-> Root] /\ size = [b \in Block |-> 0] /\ freelist = Root
      /\ brk = 1 /\ heap = {} /\ used = {} /\ mode = "user" /\ prev = Root /\ p = Root
      /\ h = Root /\ want = 0 /\ caller = "user" /\ old = NULL /\ refused = 0
  BY DEF Init
<1>2. TypeOK
  BY <1>1, BlockFacts, MallocAssumption DEF TypeOK
<1>3. Ring = {Root}
  BY <1>1, BlockFacts DEF Ring
<1>4. RingInv
  BY <1>1, <1>3, BlockFacts DEF RingInv, Last, Upwards, Nearest, Unlinked, Apart
<1>5. BlocksInv
  <2>1. Blocks = {}
    BY <1>1, <1>3 DEF Blocks, InHand
  <2>2. QED
    BY <2>1, <1>1, BlockFacts DEF BlocksInv, Places, Sized, Disjoint, Covered
<1>6. LocalsInv /\ SearchInv
  BY <1>1, <1>3 DEF LocalsInv, SearchInv, RefusesOnlyInNeed
<1>7. QED  BY <1>1, <1>2, <1>4, <1>5, <1>6 DEF MallocInv

LEMMA NextMallocInv == MallocInv /\ [Next]_vars => MallocInv'
<1> SUFFICES ASSUME MallocInv, [Next]_vars PROVE MallocInv'
  OBVIOUS
<1>1. Size \subseteq 0..SIZE_MAX /\ SIZE_MAX \in Nat
  BY MallocAssumption
<1>2. ASSUME NEW s \in Size, malloc(s) PROVE MallocInv'
  BY <1>1, <1>2, EnterMallocStep DEF malloc
<1>3. ASSUME NEW s \in Size, NEW n \in Size, calloc(n, s) PROVE MallocInv'
  <2>1. /\ mode = "user" /\ s \in Nat \ {0} /\ n \in Nat /\ n <= SIZE_MAX \div s
        /\ EnterMalloc(n * s, NULL)
    BY <1>1, <1>3 DEF calloc
  <2>2. n * s \in 0..SIZE_MAX
    BY <2>1, CallocFits
  <2>3. QED  BY <2>1, <2>2, EnterMallocStep
<1>4. ASSUME NEW b \in Heap, free(b) PROVE MallocInv'
  BY <1>4, FreeStep
<1>5. ASSUME NEW b \in Heap, NEW s \in Size, realloc(b, s) PROVE MallocInv'
  BY <1>1, <1>5, EnterMallocStep DEF realloc
<1>6. CASE Search
  <2>1. mode = "search"
    BY <1>6 DEF Search
  <2>2. CASE ExactSize(p) /\ UNCHANGED <<brk, heap, refused>>
    BY <2>1, <2>2, ExactStep
  <2>3. CASE LargerSize(p) /\ UNCHANGED <<brk, heap, refused>>
    BY <2>1, <2>3, LargerStep
  <2>4. CASE size[p] < want /\ brkmore
    BY <2>1, <2>4, BrkmoreStep
  <2>5. CASE /\ size[p] < want /\ ~Around(p) /\ prev' = p /\ p' = next[p]
             /\ UNCHANGED <<next, size, freelist, brk, heap, used, mode, want, h, caller, old, refused>>
    BY <2>1, <2>5, TurnStep
  <2>6. QED  BY <1>6, <2>2, <2>3, <2>4, <2>5 DEF Search
<1>7. CASE Insert
  BY <1>7, InsertStep
<1>8. CASE InsertNext
  BY <1>8, InsertNextStep
<1>9. CASE OtherSbrk
  BY <1>9, OtherSbrkStep
<1>10. CASE UNCHANGED vars
  <2>1. /\ next' = next /\ size' = size /\ freelist' = freelist /\ brk' = brk
        /\ heap' = heap /\ used' = used /\ mode' = mode /\ want' = want /\ p' = p
        /\ prev' = prev /\ h' = h /\ caller' = caller /\ old' = old /\ refused' = refused
    BY <1>10 DEF vars
  <2>2. Ring' = Ring /\ Blocks' = Blocks
    BY <2>1 DEF Ring, Blocks, InHand
  <2>3. TypeOK'
    BY <2>1 DEF MallocInv, TypeOK
  <2>4. RingInv => RingInv'
    BY <2>1, <2>2 DEF RingInv, Last, Upwards, Nearest, Unlinked, Apart
  <2>5. BlocksInv => BlocksInv'
    BY <2>1, <2>2 DEF BlocksInv, Places, Sized, Disjoint, Covered
  <2>6. LocalsInv => LocalsInv'
    BY <2>1, <2>2 DEF LocalsInv
  <2>7. SearchInv => SearchInv'
    BY <2>1, <2>2 DEF SearchInv, Passed, RefusesOnlyInNeed
  <2>8. QED
    BY <2>1, <2>3, <2>4, <2>5, <2>6, <2>7 DEF MallocInv
<1>11. QED
  BY <1>2, <1>3, <1>4, <1>5, <1>6, <1>7, <1>8, <1>9, <1>10 DEF Next

(* The inductive invariant holds in every state of malloc, free, calloc    *)
(* and realloc.                                                            *)
THEOREM MallocInvariant == Spec => []MallocInv
  BY InitMallocInv, NextMallocInv, PTL DEF Spec

(* free keeps the ring in the order of the addresses with no two touching  *)
(* free blocks, malloc takes blocks out of it, and __mem_freelist never    *)
(* points to a block that has left it.                                     *)
THEOREM RingInOrderHolds == Spec => []RingInOrder
<1>1. MallocInv => RingInOrder
  <2>1. SUFFICES ASSUME MallocInv, mode # "overrun"
                 PROVE  /\ freelist \in Ring
                        /\ \A b \in Ring :
                              LET above == {c \in Ring : c > b}
                              IN  /\ above = {} => next[b] = Root
                                  /\ above # {} => next[b] \in above /\ \A c \in above : next[b] <= c
                        /\ \A b \in Ring \ {Root} : next[b] # Root => b + size[b] < next[b]
    BY DEF RingInOrder, MallocInv
  <2>2. TypeOK /\ RingInv /\ LocalsInv
    BY <2>1 DEF MallocInv
  <2>3. freelist \in Ring /\ \A b \in Ring \ {Root} : next[b] # Root => b + size[b] < next[b]
    BY <2>2 DEF LocalsInv, RingInv, Apart
  <2>4. ASSUME NEW b \in Ring
        PROVE  LET above == {c \in Ring : c > b}
               IN  /\ above = {} => next[b] = Root
                   /\ above # {} => next[b] \in above /\ \A c \in above : next[b] <= c
    <3>1. next[b] \in Ring /\ (next[b] = Root \/ next[b] > b)
      BY <2>2, RingFacts DEF RingInv, Upwards
    <3>2. \A c \in Ring : c > b => next[b] > b /\ next[b] <= c
      BY <2>2 DEF RingInv, Nearest
    <3>3. QED  BY <3>1, <3>2
  <2>5. QED  BY <2>3, <2>4
<1>2. QED  BY <1>1, MallocInvariant, PTL

(* Every unit that sbrk gave to malloc is always in exactly one block:     *)
(* malloc, free and realloc neither lose memory nor give a unit twice.     *)
THEOREM BlocksTileHeapHolds == Spec => []BlocksTileHeap
<1>1. MallocInv => BlocksTileHeap
  <2>1. SUFFICES ASSUME MallocInv, mode # "overrun"
                 PROVE  /\ \A b \in Blocks : size[b] > 0 /\ UnitsOf(b) \subseteq heap
                        /\ \A u \in heap : Cardinality({b \in Blocks : u \in UnitsOf(b)}) = 1
    BY DEF BlocksTileHeap, Blocks, InHand
  <2>2. TypeOK /\ BlocksInv
    BY <2>1 DEF MallocInv
  <2>3. \A b \in Blocks : b \in Int /\ size[b] \in Nat
    BY <2>2, BlocksAreBlocks DEF BlocksInv
  <2>4. \A b \in Blocks : size[b] > 0 /\ UnitsOf(b) \subseteq heap
    BY <2>2 DEF BlocksInv, Sized, UnitsOf
  <2>5. ASSUME NEW u \in heap
        PROVE  Cardinality({b \in Blocks : u \in UnitsOf(b)}) = 1
    <3>1. u \in Int
      BY <2>2, HeapFacts, BlockFacts
    <3>2. PICK b \in Blocks : b <= u /\ u < b + size[b]
      BY <2>2 DEF BlocksInv, Covered
    <3>3. u \in UnitsOf(b)
      BY <3>1, <3>2, <2>3 DEF UnitsOf
    <3>4. ASSUME NEW c \in Blocks, u \in UnitsOf(c) PROVE c = b
      <4>1. c <= u /\ u < c + size[c]
        BY <3>4, <3>1, <2>3 DEF UnitsOf
      <4>2. ~(c < b)
        BY <4>1, <3>1, <3>2, <2>2, <2>3 DEF BlocksInv, Disjoint
      <4>3. ~(b < c)
        BY <4>1, <3>1, <3>2, <2>2, <2>3 DEF BlocksInv, Disjoint
      <4>4. QED  BY <4>2, <4>3, <2>3
    <3>5. {c \in Blocks : u \in UnitsOf(c)} = {b}
      BY <3>3, <3>4
    <3>6. QED  BY <3>5, FS_Singleton
  <2>6. QED  BY <2>4, <2>5
<1>2. QED  BY <1>1, MallocInvariant, PTL

(* malloc returns NULL only when it has seen every free block and none was *)
(* large enough, although free and brkmore change __mem_freelist.          *)
THEOREM RefusesOnlyInNeedHolds == Spec => []RefusesOnlyInNeed
<1>1. MallocInv => RefusesOnlyInNeed
  BY DEF MallocInv, SearchInv, RefusesOnlyInNeed
<1>2. QED  BY <1>1, MallocInvariant, PTL
=============================================================================
