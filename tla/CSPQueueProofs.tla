--------------------------- MODULE CSPQueueProofs ---------------------------
(***************************************************************************)
(* Proofs for CSP, first part: the inductive invariant CSPInv, the queues  *)
(* and DoTransfer, and the calls that are about the running process only,  *)
(* with Send.                                                              *)
(***************************************************************************)
EXTENDS CSP, LinkProofs

(* A leaf is first-order reasoning unless it cites SMT. *)
USE ZenonT(40)

(* The queues R of CSP hold the sequences C of processes: each is linked   *)
(* from its tail to its head, and no process is in two places.             *)
QOK(R, C) ==
    /\ R \in [next : [Process -> Process \cup {NIL}],
              head : [Queues -> Process \cup {NIL}],
              tail : [Queues -> Process \cup {NIL}]]
    /\ C \in [Queues -> Seq(Process)]
    /\ \A q \in Queues :
          /\ IsPath(C[q], R.tail[q], R.next, NIL)
          /\ R.head[q] = IF Len(C[q]) = 0 THEN NIL ELSE C[q][Len(C[q])]
    /\ \A q, r \in Queues : \A i \in 1..Len(C[q]), j \in 1..Len(C[r]) :
          C[q][i] = C[r][j] => q = r /\ i = j

Lines == [q \in Queues |-> Chain(q)]

(* The processes in each queue; now, in the queues of CSP.                 *)
Members(C) == [q \in Queues |-> {C[q][k] : k \in 1..Len(C[q])}]
Waiting == Members(Lines)

(***************************************************************************)
(* The parts of the invariant are stated for processes B in the queues and *)
(* a running process c.  With the queues as DoTransfer finds them, and NIL *)
(* for c, they also describe the moment at which the caller waits and no   *)
(* other process runs yet.                                                 *)
(***************************************************************************)
LiveIn(B) == Allocated \ B[FREE]

TypeInv ==
    /\ TypeOK
    /\ guards \in [Process -> Seq(Channel \cup {NIL})]

(* Who is where. *)
PlaceOK(B, c) ==
    /\ \A q \in Queues : B[q] \subseteq Allocated \ {c}
    /\ \A p \in Allocated \ {c} :
          (\E q \in Queues : p \in B[q]) \/ sons[p] > 0 \/ opened[p] \in Channel
    /\ \A q \in Queues : \A p \in B[q] : sons[p] = 0 /\ opened[p] \notin Channel
    /\ \A p \in Process : at[p] # "body" => p \in LiveIn(B) /\ sons[p] = 0

(* A father counts the sons that have not stopped. *)
SonsIn(B, f) == {p \in LiveIn(B) \ {Main} : father[p] = f}
FamilyOK(B) ==
    /\ Main \in LiveIn(B)
    /\ \A p \in LiveIn(B) \ {Main} : father[p] \in LiveIn(B)
    /\ \A f \in Process : sons[f] = Cardinality(SonsIn(B, f))

(* The list of opened channels of a process holds its open channels.       *)
Opens(p) == {ch \in Channel : chindex[ch] # 0 /\ owner[ch] = p}
ListOf(p) == Walk(opened[p], chnext, NIL, Cardinality(Channel))
ListOK(p) ==
    /\ IsPath(ListOf(p), opened[p], chnext, NIL)
    /\ \A i, j \in 1..Len(ListOf(p)) : ListOf(p)[i] = ListOf(p)[j] => i = j
    /\ Opens(p) = {ListOf(p)[k] : k \in 1..Len(ListOf(p))}
OpenOK(B, c) ==
    /\ \A ch \in Channel : chindex[ch] # 0 => owner[ch] \in Process /\ B[ch] = {}
    /\ \A p \in Process : opened[p] \notin Channel => Opens(p) = {}
    /\ \A p \in Process : opened[p] \in Channel =>
          /\ ListOK(p)
          /\ p = c => at[p] \in {"select", "endselect"}
          /\ p # c => at[p] \in {"receive", "select"}

(* A receiver waits for the one channel it receives from, or a message is  *)
(* there.                                                                  *)
ReceiveOK(B) ==
    \A p \in Process : at[p] = "receive" =>
        /\ rch[p] \in Channel /\ owner[rch[p]] = p
        /\ guardindex[p] <= 0
        /\ opened[p] \in Channel => Opens(p) = {rch[p]} /\ chindex[rch[p]] < 0
        /\ opened[p] \notin Channel => B[rch[p]] # {}

(* The guards from s on, round the table of n guards up to but not         *)
(* including g, were tried, and c are left.                                *)
TriedFrom(s, g, n, c, T) ==
    \/ s <= g /\ T = s..g - 1 /\ c = n - (g - s)
    \/ g < s /\ T = (s..n) \cup (1..g - 1) /\ c = s - g

InSelect(p) == at[p] \in {"select", "endselect"}
SelectsOK(p, c) ==
    LET n == Len(guards[p])
    IN  /\ n \in 1..MaxGuards
        /\ \A k \in 1..n : guards[p][k] \in Channel => owner[guards[p][k]] = p
        /\ guardindex[p] \in 0..n
        /\ at[p] = "endselect" => p = c /\ guardindex[p] # 0
        /\ \A ch \in Opens(p) : chindex[ch] \in 1..n
        /\ guardindex[p] = 0 => Opens(p) = {}
        /\ \/ tried[p] = 1..n
           \/ /\ p = c /\ guardindex[p] # 0 /\ guardcount[p] > 0
              /\ at[p] = "select" =>
                    \E s \in 1..n : TriedFrom(s, guardindex[p], n, guardcount[p], tried[p])
              /\ at[p] = "endselect" =>
                    \E s \in 1..n :
                       TriedFrom(s, guardindex[p] + 1, n, guardcount[p] - 1, tried[p])
SelectOK(c) ==
    /\ \A p \in Process : InSelect(p) => SelectsOK(p, c)
    /\ \A p \in Process : ~InSelect(p) => tried[p] = {}
    /\ \A p \in Process : at[p] = "body" => guardindex[p] <= 0

(* The stack of every process but the running one is in its workspace.     *)
StackOK ==
    /\ Running = AreaOf[cp]
    /\ \A p \in LiveIn(Waiting) \ {cp} : cor[p] = AreaOf[p] /\ AreaOf[p] \in saved

MessageOK(B) == \A ch \in Channel : \A p \in B[ch] : msgadr[p] = p

CSPInv ==
    /\ TypeInv
    /\ QOK(Q, Lines)
    /\ MessageOK(Waiting)
    /\ Going => /\ PlaceOK(Waiting, cp) /\ FamilyOK(Waiting) /\ OpenOK(Waiting, cp)
                /\ ReceiveOK(Waiting) /\ SelectOK(cp)
    /\ mode = "run" => cp \in Allocated /\ StackOK
    /\ mode = "halt" => cp = NIL
-----------------------------------------------------------------------------
(* What the field next of every descriptor says of the queues R. *)
ChainsOf(R) ==
    [q \in Queues |-> IF R.head[q] = NIL THEN <<>>
                      ELSE Walk(R.tail[q], R.next, NIL, Cardinality(Process))]

LEMMA QueueFacts ==
    ASSUME NEW R, NEW C, QOK(R, C), NEW q \in Queues
    PROVE  /\ R.next \in [Process -> Process \cup {NIL}]
           /\ R.head \in [Queues -> Process \cup {NIL}]
           /\ R.tail \in [Queues -> Process \cup {NIL}]
           /\ C[q] \in Seq(Process) /\ Len(C[q]) \in Nat
           /\ \A i \in 1..Len(C[q]) : C[q][i] \in Process
           /\ IsPath(C[q], R.tail[q], R.next, NIL)
           /\ R.head[q] = IF Len(C[q]) = 0 THEN NIL ELSE C[q][Len(C[q])]
           /\ \A r \in Queues : \A i \in 1..Len(C[q]), j \in 1..Len(C[r]) :
                 C[q][i] = C[r][j] => q = r /\ i = j
<1>1. C[q] \in Seq(Process)
  BY DEF QOK
<1>2. Len(C[q]) \in Nat /\ \A i \in 1..Len(C[q]) : C[q][i] \in Process
  BY <1>1, SMT
<1>3. QED  BY <1>1, <1>2 DEF QOK

(* A walk along the field next finds the sequence. *)
LEMMA ChainOf ==
    ASSUME NEW R, NEW C, QOK(R, C)
    PROVE  ChainsOf(R) = C
<1>1. ASSUME NEW q \in Queues PROVE ChainsOf(R)[q] = C[q]
  <2>1. /\ C[q] \in Seq(Process) /\ DOMAIN R.next = Process
        /\ IsPath(C[q], R.tail[q], R.next, NIL)
        /\ \A i, j \in 1..Len(C[q]) : C[q][i] = C[q][j] => i = j
        /\ R.head[q] = IF Len(C[q]) = 0 THEN NIL ELSE C[q][Len(C[q])]
    BY QueueFacts, SMT
  <2>2. Len(C[q]) \in Nat /\ Len(C[q]) <= Cardinality(Process) /\ Cardinality(Process) \in Nat
    BY <2>1, PathLength, CSPAssumption
  <2>3. Walk(R.tail[q], R.next, NIL, Cardinality(Process)) = C[q]
    BY <2>1, <2>2, WalkIsPath, CSPAssumption
  <2>4. CASE Len(C[q]) = 0
    BY <2>1, <2>4, SMT DEF ChainsOf
  <2>5. CASE Len(C[q]) # 0
    <3>1. C[q][Len(C[q])] \in Process
      BY <2>1, <2>2, <2>5, SMT
    <3>2. R.head[q] # NIL
      BY <2>1, <2>5, <3>1, CSPAssumption
    <3>3. QED  BY <2>3, <3>2 DEF ChainsOf
  <2>6. QED  BY <2>4, <2>5
<1>2. C = [q \in Queues |-> C[q]]
  BY DEF QOK
<1>3. ChainsOf(R) = [q \in Queues |-> ChainsOf(R)[q]]
  BY DEF ChainsOf
<1>4. QED  BY <1>1, <1>2, <1>3

(* Pop takes the process at the tail out of its queue. *)
LEMMA PopOK ==
    ASSUME NEW R, NEW C, QOK(R, C), NEW q \in Queues
    PROVE  /\ C[q] = <<>> => R.tail[q] = NIL /\ Pop(q, R) = R
           /\ C[q] # <<>> => /\ R.tail[q] = C[q][1] /\ R.tail[q] \in Process
                             /\ QOK(Pop(q, R), [C EXCEPT ![q] = Tail(@)])
<1>1. C[q] = <<>> => R.tail[q] = NIL /\ Pop(q, R) = R
  BY QueueFacts, SMT DEF IsPath, Pop
<1>2. ASSUME C[q] # <<>>
      PROVE  /\ R.tail[q] = C[q][1] /\ R.tail[q] \in Process
             /\ QOK(Pop(q, R), [C EXCEPT ![q] = Tail(@)])
  <2> DEFINE t == R.tail[q]
             c == C[q]
             n == Len(c)
             d == Tail(c)
             D == [C EXCEPT ![q] = Tail(@)]
             S == Pop(q, R)
  <2>1. /\ R.next \in [Process -> Process \cup {NIL}]
        /\ R.head \in [Queues -> Process \cup {NIL}]
        /\ R.tail \in [Queues -> Process \cup {NIL}]
        /\ C \in [Queues -> Seq(Process)]
        /\ \A r \in Queues :
              /\ IsPath(C[r], R.tail[r], R.next, NIL)
              /\ R.head[r] = IF Len(C[r]) = 0 THEN NIL ELSE C[r][Len(C[r])]
    BY DEF QOK
  <2>2. \A r, u \in Queues : \A i \in 1..Len(C[r]), j \in 1..Len(C[u]) :
              C[r][i] = C[u][j] => r = u /\ i = j
    BY DEF QOK
  <2>3. /\ c \in Seq(Process) /\ c # <<>> /\ IsPath(c, t, R.next, NIL)
        /\ R.head[q] = IF n = 0 THEN NIL ELSE c[n]
    BY <1>2, <2>1
  <2>4. \A i, j \in 1..n : c[i] = c[j] => i = j
    BY <2>2
  <2>5. D \in [Queues -> Seq(Process)] /\ D[q] = d /\ \A r \in Queues : r # q => D[r] = C[r]
    <3>1. d \in Seq(Process)
      BY <2>3, SMT
    <3>2. QED  BY <3>1, <2>1
  <2> HIDE DEF t, c, D
  <2>6. n \in Nat \ {0}
    BY <2>3, SMT
  <2>7. d \in Seq(Process) /\ Len(d) = n - 1 /\ \A i \in 1..Len(d) : d[i] = c[i + 1]
    BY <2>3, SMT
  <2>8. t = c[1] /\ t \in Process /\ IsPath(d, R.next[t], R.next, NIL)
    <3>1. t = c[1] /\ t \in DOMAIN R.next /\ IsPath(d, R.next[t], R.next, NIL)
      <4> DEFINE nx == R.next
      <4>1. IsPath(c, t, nx, NIL) /\ c # <<>>
        BY <2>3
      <4> HIDE DEF nx, n
      <4>2. /\ t = c[1] /\ t \in DOMAIN nx /\ c \in Seq(DOMAIN nx)
            /\ IsPath(Tail(c), nx[t], nx, NIL)
            /\ Len(Tail(c)) = Len(c) - 1 /\ c = <<t>> \o Tail(c)
        BY <4>1, PathTail, SMT
      <4>3. QED  BY <4>2, Zenon DEF nx
    <3>2. QED  BY <3>1, <2>1
  <2> HIDE DEF n, d
  <2>9. t # NIL /\ R.next[t] \in Process \cup {NIL}
    BY <2>1, <2>8, CSPAssumption
  <2>10. /\ S.next = R.next
         /\ S.tail = [R.tail EXCEPT ![q] = R.next[t]]
         /\ S.head = [R.head EXCEPT ![q] = IF @ = t THEN NIL ELSE @]
         /\ S \in [next : [Process -> Process \cup {NIL}],
                   head : [Queues -> Process \cup {NIL}],
                   tail : [Queues -> Process \cup {NIL}]]
    BY <2>9 DEF Pop, QOK, t
  <2> HIDE DEF S
  <2>11. IsPath(D[q], S.tail[q], S.next, NIL)
    BY <2>1, <2>5, <2>8, <2>10
  <2>12. S.head[q] = IF Len(D[q]) = 0 THEN NIL ELSE D[q][Len(D[q])]
    <3>1. R.head[q] = c[n] /\ S.head[q] = IF c[n] = t THEN NIL ELSE c[n]
      BY <2>1, <2>3, <2>6, <2>10
    <3>2. CASE n = 1
      BY <3>1, <3>2, <2>5, <2>7, <2>8, SMT
    <3>3. CASE n # 1
      <4>1. c[n] # c[1]
        BY <3>3, <2>4, <2>6, SMT
      <4>2. Len(d) # 0 /\ d[n - 1] = c[n]
        BY <3>3, <2>6, <2>7, SMT
      <4>3. QED  BY <4>1, <4>2, <3>1, <2>5, <2>7, <2>8
    <3>4. QED  BY <3>2, <3>3
  <2>13. ASSUME NEW r \in Queues, r # q
         PROVE  /\ IsPath(D[r], S.tail[r], S.next, NIL)
                /\ S.head[r] = IF Len(D[r]) = 0 THEN NIL ELSE D[r][Len(D[r])]
    <3>1. D[r] = C[r] /\ S.tail[r] = R.tail[r] /\ S.head[r] = R.head[r] /\ S.next = R.next
      BY <2>13, <2>1, <2>5, <2>10
    <3>2. QED  BY <3>1, <2>1
  <2>14. ASSUME NEW r \in Queues, NEW i \in 1..Len(D[r])
         PROVE  \E k \in 1..Len(C[r]) : D[r][i] = C[r][k] /\ k = IF r = q THEN i + 1 ELSE i
    <3>1. CASE r = q
      <4>1. i + 1 \in 1..n /\ d[i] = c[i + 1]
        BY <3>1, <2>5, <2>6, <2>7, SMT
      <4>2. QED  BY <4>1, <3>1, <2>5 DEF n, c
    <3>2. CASE r # q
      BY <3>2, <2>5
    <3>3. QED  BY <3>1, <3>2
  <2>15. ASSUME NEW r \in Queues, NEW u \in Queues, NEW i \in 1..Len(D[r]),
                NEW j \in 1..Len(D[u]), D[r][i] = D[u][j]
         PROVE  r = u /\ i = j
    <3>1. PICK k \in 1..Len(C[r]) : D[r][i] = C[r][k] /\ k = IF r = q THEN i + 1 ELSE i
      BY <2>14
    <3>2. PICK m \in 1..Len(C[u]) : D[u][j] = C[u][m] /\ m = IF u = q THEN j + 1 ELSE j
      BY <2>14
    <3>3. C[r][k] = C[u][m]
      BY <2>15, <3>1, <3>2
    <3>4. r = u /\ k = m
      BY <3>3, <2>2
    <3>5. i \in Int /\ j \in Int
      BY SMT
    <3>6. QED  BY <3>1, <3>2, <3>4, <3>5, SMT
  <2>16. QOK(S, D)
    BY <2>5, <2>10, <2>11, <2>12, <2>13, <2>15 DEF QOK
  <2>17. QED  BY <2>8, <2>16 DEF t, c, D, S
<1>3. QED  BY <1>1, <1>2

(* Push puts a process that is in no queue behind the others. *)
LEMMA PushOK ==
    ASSUME NEW R, NEW C, QOK(R, C), NEW q \in Queues, NEW p \in Process,
           \A r \in Queues : p \notin Members(C)[r]
    PROVE  QOK(Push(q, p, R), [C EXCEPT ![q] = Append(@, p)])
<1> DEFINE h == R.head[q]
           c == C[q]
           n == Len(c)
           d == Append(c, p)
           D == [C EXCEPT ![q] = Append(@, p)]
           S == Push(q, p, R)
<1>1. /\ R.next \in [Process -> Process \cup {NIL}]
      /\ R.head \in [Queues -> Process \cup {NIL}]
      /\ R.tail \in [Queues -> Process \cup {NIL}]
      /\ C \in [Queues -> Seq(Process)]
      /\ \A r \in Queues :
            /\ IsPath(C[r], R.tail[r], R.next, NIL)
            /\ R.head[r] = IF Len(C[r]) = 0 THEN NIL ELSE C[r][Len(C[r])]
  BY DEF QOK
<1>2. \A r, u \in Queues : \A i \in 1..Len(C[r]), j \in 1..Len(C[u]) :
            C[r][i] = C[u][j] => r = u /\ i = j
  BY DEF QOK
<1>3. \A r \in Queues : C[r] \in Seq(Process) /\ Len(C[r]) \in Nat
  BY <1>1, SMT
<1>4. \A r \in Queues : \A i \in 1..Len(C[r]) : C[r][i] # p /\ C[r][i] \in Process
  BY <1>3, SMT DEF Members
<1>5. /\ d \in Seq(Process) /\ Len(d) = n + 1 /\ d[n + 1] = p
      /\ \A i \in 1..n : d[i] = c[i]
  BY <1>3, SMT
<1>6. D \in [Queues -> Seq(Process)] /\ D[q] = d /\ \A r \in Queues : r # q => D[r] = C[r]
  BY <1>1, <1>5
<1>7. /\ h = (IF n = 0 THEN NIL ELSE c[n]) /\ n \in Nat /\ c \in Seq(Process)
      /\ IsPath(c, R.tail[q], R.next, NIL) /\ h \in Process \cup {NIL}
  BY <1>1, <1>3
<1> HIDE DEF c, d, n, D
<1>8. h = NIL <=> n = 0
  <2>1. n # 0 => c[n] \in Process
    BY <1>7, SMT DEF n
  <2>2. QED  BY <2>1, <1>7, CSPAssumption
<1>9. /\ S.next = IF h = NIL THEN [R.next EXCEPT ![p] = NIL]
                  ELSE [R.next EXCEPT ![p] = NIL, ![h] = p]
      /\ S.tail = [R.tail EXCEPT ![q] = IF h = NIL THEN p ELSE @]
      /\ S.head = [R.head EXCEPT ![q] = p]
      /\ S \in [next : [Process -> Process \cup {NIL}],
                head : [Queues -> Process \cup {NIL}],
                tail : [Queues -> Process \cup {NIL}]]
  <2>1. R \in [next : [Process -> Process \cup {NIL}],
                head : [Queues -> Process \cup {NIL}],
                tail : [Queues -> Process \cup {NIL}]]
    BY DEF QOK
  <2>2. CASE h = NIL
    BY <2>1, <2>2 DEF Push
  <2>3. CASE h # NIL
    BY <2>1, <2>3 DEF Push
  <2>4. QED  BY <2>2, <2>3
<1> HIDE DEF S
<1>10. /\ DOMAIN S.next = Process /\ DOMAIN R.next = Process
       /\ S.next[p] = NIL
       /\ n # 0 => h # p /\ h = c[n] /\ S.next[h] = p
       /\ \A x \in Process : x # p /\ x # h => S.next[x] = R.next[x]
  <2>1. n # 0 => c[n] # p /\ c[n] \in Process /\ h = c[n]
    BY <1>4, <1>7, SMT DEF n, c
  <2>2. CASE n = 0
    BY <2>2, <1>8, <1>9, <1>1
  <2>3. CASE n # 0
    BY <2>1, <2>3, <1>8, <1>9, <1>1, SMT
  <2>4. QED  BY <2>2, <2>3
<1>11. IsPath(D[q], S.tail[q], S.next, NIL)
  <2>1. d \in Seq(DOMAIN S.next)
    BY <1>5, <1>10
  <2>2. S.tail[q] = d[1]
    <3>1. CASE n = 0
      BY <3>1, <1>1, <1>5, <1>8, <1>9, SMT
    <3>2. CASE n # 0
      <4>1. R.tail[q] = c[1]
        BY <3>2, <1>7 DEF IsPath, n
      <4>2. d[1] = c[1]
        BY <3>2, <1>5, <1>7, SMT
      <4>3. QED  BY <4>1, <4>2, <3>2, <1>1, <1>8, <1>9
    <3>3. QED  BY <3>1, <3>2
  <2>3. ASSUME NEW i \in 1..n + 1
        PROVE  S.next[d[i]] = IF i = n + 1 THEN NIL ELSE d[i + 1]
    <3>1. CASE i = n + 1
      BY <3>1, <1>5, <1>10
    <3>2. CASE i = n
      BY <3>2, <1>5, <1>7, <1>10, SMT
    <3>3. CASE i < n
      <4>1. i \in 1..n /\ i + 1 \in 1..n /\ i # n /\ i # n + 1 /\ n \in 1..n
        BY <3>3, <1>7, SMT
      <4>2. R.next[c[i]] = c[i + 1]
        BY <4>1, <1>7 DEF IsPath, n
      <4>3. c[i] # c[n] /\ c[i] # p /\ c[i] \in Process /\ h = c[n]
        BY <4>1, <1>2, <1>4, <1>7, SMT DEF c, n
      <4>4. S.next[c[i]] = c[i + 1]
        BY <4>2, <4>3, <1>10
      <4>5. QED  BY <4>1, <4>4, <1>5
    <3>4. QED  BY <3>1, <3>2, <3>3, <1>7, SMT
  <2>4. Len(d) = n + 1 /\ n + 1 # 0
    BY <1>5, <1>7, SMT
  <2>5. QED  BY <2>1, <2>2, <2>3, <2>4, <1>6 DEF IsPath
<1>12. S.head[q] = IF Len(D[q]) = 0 THEN NIL ELSE D[q][Len(D[q])]
  BY <1>1, <1>5, <1>6, <1>7, <1>9, SMT
<1>13. ASSUME NEW r \in Queues, r # q
       PROVE  /\ IsPath(D[r], S.tail[r], S.next, NIL)
              /\ S.head[r] = IF Len(D[r]) = 0 THEN NIL ELSE D[r][Len(D[r])]
  <2>1. D[r] = C[r] /\ S.tail[r] = R.tail[r] /\ S.head[r] = R.head[r]
    BY <1>13, <1>1, <1>6, <1>9
  <2>2. ASSUME NEW i \in 1..Len(C[r]) PROVE S.next[C[r][i]] = R.next[C[r][i]]
    <3>1. C[r][i] \in Process /\ C[r][i] # p
      BY <1>4
    <3>2. C[r][i] # h
      <4>1. CASE n = 0
        BY <4>1, <3>1, <1>8, CSPAssumption
      <4>2. CASE n # 0
        BY <4>2, <1>13, <1>2, <1>7, <1>10, SMT DEF c, n
      <4>3. QED  BY <4>1, <4>2
    <3>3. QED  BY <3>1, <3>2, <1>10
  <2>3. IsPath(C[r], R.tail[r], R.next, NIL)
    BY <1>1
  <2>4. IsPath(C[r], R.tail[r], S.next, NIL)
    BY <2>2, <2>3, <1>10 DEF IsPath
  <2>5. QED  BY <2>1, <2>4, <1>1
<1>14. ASSUME NEW r \in Queues, NEW i \in 1..Len(D[r])
       PROVE  \/ i \in 1..Len(C[r]) /\ D[r][i] = C[r][i]
              \/ r = q /\ i = n + 1 /\ D[r][i] = p
  <2>1. CASE r = q
    <3>1. i \in 1..n + 1 /\ i \in Int
      BY <2>1, <1>5, <1>6, SMT
    <3>2. i \in 1..n \/ i = n + 1
      BY <3>1, <1>7, SMT
    <3>3. QED  BY <3>2, <2>1, <1>5, <1>6 DEF n, c
  <2>2. CASE r # q
    BY <2>2, <1>6
  <2>3. QED  BY <2>1, <2>2
<1>15. ASSUME NEW r \in Queues, NEW u \in Queues, NEW i \in 1..Len(D[r]),
              NEW j \in 1..Len(D[u]), D[r][i] = D[u][j]
       PROVE  r = u /\ i = j
  <2>1. CASE i \in 1..Len(C[r]) /\ D[r][i] = C[r][i]
    <3>1. D[u][j] # p
      BY <2>1, <1>15, <1>4
    <3>2. j \in 1..Len(C[u]) /\ D[u][j] = C[u][j]
      BY <3>1, <1>14
    <3>3. C[r][i] = C[u][j]
      BY <2>1, <3>2, <1>15
    <3>4. QED  BY <2>1, <3>2, <3>3, <1>2
  <2>2. CASE r = q /\ i = n + 1 /\ D[r][i] = p
    <3>1. ~(j \in 1..Len(C[u]) /\ D[u][j] = C[u][j])
      BY <2>2, <1>15, <1>4
    <3>2. QED  BY <3>1, <2>2, <1>14
  <2>3. QED  BY <2>1, <2>2, <1>14
<1>16. QOK(S, D)
  BY <1>6, <1>9, <1>11, <1>12, <1>13, <1>15 DEF QOK
<1>17. QED  BY <1>16 DEF S, D

(* What is in the queues, as sets. *)
LEMMA MemberFacts ==
    ASSUME NEW R, NEW C, QOK(R, C), NEW q \in Queues
    PROVE  /\ Members(C)[q] \subseteq Process
           /\ \A r \in Queues : r # q => Members(C)[q] \cap Members(C)[r] = {}
           /\ C[q] = <<>> <=> Members(C)[q] = {}
           /\ R.head[q] = NIL <=> Members(C)[q] = {}
           /\ R.tail[q] = NIL <=> Members(C)[q] = {}
           /\ R.tail[q] # NIL => R.tail[q] \in Members(C)[q]
<1> DEFINE c == C[q]
           n == Len(c)
           M(r) == {C[r][k] : k \in 1..Len(C[r])}
<1>1. /\ c \in Seq(Process) /\ n \in Nat /\ \A i \in 1..n : c[i] \in Process
      /\ R.head[q] = IF n = 0 THEN NIL ELSE c[n]
      /\ IsPath(c, R.tail[q], R.next, NIL)
  BY QueueFacts, SMT
<1>2. \A r, u \in Queues : \A i \in 1..Len(C[r]), j \in 1..Len(C[u]) :
         C[r][i] = C[u][j] => r = u /\ i = j
  BY DEF QOK
<1>3. \A r \in Queues : Members(C)[r] = M(r)
  BY DEF Members
<1>4. ASSUME NEW r \in Queues, r # q PROVE M(q) \cap M(r) = {}
  BY <1>2, <1>4
<1>5. c = <<>> <=> n = 0
  BY <1>1, SMT
<1> HIDE DEF c
<1>6. M(q) = {c[k] : k \in 1..n}
  BY DEF c
<1>7. R.tail[q] = IF n = 0 THEN NIL ELSE c[1]
  BY <1>1 DEF IsPath
<1> HIDE DEF n, M
<1>8. CASE n = 0
  <2>1. M(q) = {}
    BY <1>6, <1>8, SMT
  <2>2. QED  BY <2>1, <1>1, <1>3, <1>4, <1>5, <1>7, <1>8 DEF c
<1>9. CASE n # 0
  <2>1. 1 \in 1..n /\ n \in 1..n
    BY <1>1, <1>9, SMT
  <2>2. c[1] \in M(q) /\ c[1] # NIL /\ c[n] # NIL /\ M(q) \subseteq Process
    BY <2>1, <1>1, <1>6, CSPAssumption
  <2>3. QED  BY <2>2, <1>1, <1>3, <1>4, <1>5, <1>7, <1>9 DEF c
<1>10. QED  BY <1>8, <1>9

LEMMA PushMembers ==
    ASSUME NEW R, NEW C, QOK(R, C), NEW q \in Queues, NEW p \in Process,
           \A r \in Queues : p \notin Members(C)[r]
    PROVE  \E D : /\ QOK(Push(q, p, R), D)
                  /\ D = [C EXCEPT ![q] = Append(@, p)]
                  /\ Members(D) = [Members(C) EXCEPT ![q] = @ \cup {p}]
<1> DEFINE c == C[q]
           n == Len(c)
           d == Append(c, p)
           D == [C EXCEPT ![q] = Append(@, p)]
<1>1. C \in [Queues -> Seq(Process)]
  BY DEF QOK
<1>2. c \in Seq(Process) /\ n \in Nat
  BY <1>1, SMT
<1>3. Len(d) = n + 1 /\ d[n + 1] = p /\ \A i \in 1..n : d[i] = c[i]
  BY <1>2, SMT
<1>4. D[q] = d /\ \A r \in Queues : r # q => D[r] = C[r]
  BY <1>1
<1>5. QOK(Push(q, p, R), D)
  BY PushOK
<1> HIDE DEF c, d, D, n
<1>6. {d[k] : k \in 1..n + 1} = {c[k] : k \in 1..n} \cup {p}
  <2>1. ASSUME NEW k \in 1..n + 1 PROVE d[k] \in {c[i] : i \in 1..n} \cup {p}
    <3>1. k \in 1..n \/ k = n + 1
      BY <1>2, SMT
    <3>2. QED  BY <3>1, <1>3
  <2>2. ASSUME NEW k \in 1..n PROVE c[k] \in {d[i] : i \in 1..n + 1}
    <3>1. k \in 1..n + 1 /\ c[k] = d[k]
      BY <1>2, <1>3, SMT
    <3>2. QED  BY <3>1
  <2>3. p \in {d[i] : i \in 1..n + 1}
    <3>1. n + 1 \in 1..n + 1
      BY <1>2, SMT
    <3>2. QED  BY <3>1, <1>3
  <2>4. QED  BY <2>1, <2>2, <2>3
<1>7. Members(D)[q] = Members(C)[q] \cup {p}
  <2>1. Members(D)[q] = {d[k] : k \in 1..n + 1}
    BY <1>3, <1>4 DEF Members
  <2>2. Members(C)[q] = {c[k] : k \in 1..n}
    BY DEF Members, c, n
  <2>3. QED  BY <2>1, <2>2, <1>6
<1>8. \A r \in Queues : r # q => Members(D)[r] = Members(C)[r]
  BY <1>4 DEF Members
<1>9. Members(D) = [r \in Queues |-> Members(D)[r]]
  BY DEF Members
<1>10. Members(C) = [r \in Queues |-> Members(C)[r]]
  BY DEF Members
<1>11. Members(D) = [Members(C) EXCEPT ![q] = @ \cup {p}]
  BY <1>7, <1>8, <1>9, <1>10
<1>12. QED  BY <1>5, <1>11 DEF D

LEMMA PopMembers ==
    ASSUME NEW R, NEW C, QOK(R, C), NEW q \in Queues
    PROVE  \E D : /\ QOK(Pop(q, R), D)
                  /\ D = IF C[q] = <<>> THEN C ELSE [C EXCEPT ![q] = Tail(@)]
                  /\ Members(D) = [Members(C) EXCEPT ![q] = @ \ {R.tail[q]}]
<1>1. C \in [Queues -> Seq(Process)]
  BY DEF QOK
<1>2. Members(C) = [r \in Queues |-> Members(C)[r]]
  BY DEF Members
<1>3. CASE C[q] = <<>>
  <2>1. Pop(q, R) = R /\ Members(C)[q] = {}
    BY <1>3, PopOK, MemberFacts
  <2>2. Members(C) = [Members(C) EXCEPT ![q] = @ \ {R.tail[q]}]
    BY <2>1, <1>2
  <2>3. QED  BY <2>1, <2>2, <1>3
<1>4. CASE C[q] # <<>>
  <2> DEFINE c == C[q]
             n == Len(c)
             d == Tail(c)
             D == [C EXCEPT ![q] = Tail(@)]
  <2>1. QOK(Pop(q, R), D) /\ R.tail[q] = c[1]
    BY <1>4, PopOK
  <2>2. c \in Seq(Process) /\ c # <<>> /\ n \in Nat \ {0}
    BY <1>1, <1>4, SMT
  <2>3. Len(d) = n - 1 /\ \A i \in 1..Len(d) : d[i] = c[i + 1]
    BY <2>2, SMT
  <2>4. \A i, j \in 1..n : c[i] = c[j] => i = j
    BY DEF QOK
  <2>5. D[q] = d /\ \A r \in Queues : r # q => D[r] = C[r]
    BY <1>1
  <2> HIDE DEF c, d, D, n
  <2>6. {d[k] : k \in 1..n - 1} = {c[k] : k \in 1..n} \ {c[1]}
    <3>1. ASSUME NEW k \in 1..n - 1 PROVE d[k] \in {c[i] : i \in 1..n} \ {c[1]}
      <4>1. k + 1 \in 1..n /\ d[k] = c[k + 1] /\ k + 1 # 1 /\ 1 \in 1..n
        BY <2>2, <2>3, SMT
      <4>2. QED  BY <4>1, <2>4
    <3>2. ASSUME NEW k \in 1..n, c[k] # c[1] PROVE c[k] \in {d[i] : i \in 1..n - 1}
      <4>1. k # 1
        BY <3>2
      <4>2. k - 1 \in 1..n - 1 /\ (k - 1) + 1 = k
        BY <4>1, <2>2, SMT
      <4>3. d[k - 1] = c[(k - 1) + 1]
        BY <4>2, <2>3
      <4>4. QED  BY <4>2, <4>3
    <3>3. QED  BY <3>1, <3>2
  <2>7. Members(D)[q] = Members(C)[q] \ {c[1]}
    <3>1. Members(D)[q] = {d[k] : k \in 1..n - 1}
      BY <2>3, <2>5 DEF Members
    <3>2. Members(C)[q] = {c[k] : k \in 1..n}
      BY DEF Members, c, n
    <3>3. QED  BY <3>1, <3>2, <2>6
  <2>8. \A r \in Queues : r # q => Members(D)[r] = Members(C)[r]
    BY <2>5 DEF Members
  <2>9. Members(D) = [r \in Queues |-> Members(D)[r]]
    BY DEF Members
  <2>10. Members(D) = [Members(C) EXCEPT ![q] = @ \ {R.tail[q]}]
    BY <2>1, <2>7, <2>8, <2>9, <1>2
  <2>11. QED  BY <2>1, <2>10, <1>4 DEF D
<1>5. QED  BY <1>3, <1>4
-----------------------------------------------------------------------------
LEMMA NamesFacts ==
    /\ READY \in Queues /\ FREE \in Queues /\ READY # FREE
    /\ \A ch \in Channel : ch \in Queues /\ ch # READY /\ ch # FREE
    /\ NIL \notin Process /\ NIL \notin Channel /\ NIL \notin Area /\ Main \in Process
    /\ WILD \notin Channel /\ WILD # NIL
  BY CSPAssumption, CoroutineAssumption DEF Queues

LEMMA LinesNow ==
    ASSUME NEW C, QOK(Q, C)
    PROVE  Lines = C /\ Waiting = Members(C)
<1>1. Lines = ChainsOf(Q)
  BY DEF Lines, Chain, ChainsOf
<1>2. QED  BY <1>1, ChainOf DEF Waiting

LEMMA LinesThen ==
    ASSUME NEW C, QOK(Q', C)
    PROVE  Lines' = C /\ Waiting' = Members(C) /\ QOK(Q', Lines')
<1>1. Lines' = ChainsOf(Q')
  BY DEF Lines, Chain, ChainsOf
<1>2. Lines' = C
  BY <1>1, ChainOf
<1>3. QED  BY <1>2 DEF Waiting, Members

(* DoTransfer takes the first of the ready processes, if there is one.     *)
LEMMA Dispatches ==
    ASSUME NEW R, NEW C, QOK(R, C), DoTransfer(R)
    PROVE  /\ QOK(Q', Lines')
           /\ Waiting' = [Members(C) EXCEPT ![READY] = @ \ {cp'}]
           /\ \A ch \in Channel : Lines'[ch] = C[ch]
           /\ \/ /\ mode' = "halt" /\ cp' = NIL /\ Members(C)[READY] = {}
                 /\ cor' = cor /\ curproc' = curproc /\ saved' = saved
              \/ /\ cp' \in Members(C)[READY] /\ cor' = [cor EXCEPT ![cp] = Running]
                 /\ \/ mode' = "run" /\ TRANSFER(saved, cor'[cp'])
                    \/ mode' = "trap" /\ TRANSFERTooLarge(saved)
<1>1. cp' = R.tail[READY] /\ Q' = Pop(READY, R)
  BY DEF DoTransfer
<1>2. PICK D : /\ QOK(Pop(READY, R), D)
               /\ D = IF C[READY] = <<>> THEN C ELSE [C EXCEPT ![READY] = Tail(@)]
               /\ Members(D) = [Members(C) EXCEPT ![READY] = @ \ {R.tail[READY]}]
  BY PopMembers, NamesFacts
<1>3. QOK(Q', Lines') /\ Lines' = D /\ Waiting' = Members(D)
  BY <1>1, <1>2, LinesThen
<1>4. \A ch \in Channel : D[ch] = C[ch]
  BY <1>2, NamesFacts DEF QOK
<1>5. R.tail[READY] = NIL <=> Members(C)[READY] = {}
  BY NamesFacts, MemberFacts
<1>6. R.tail[READY] # NIL => R.tail[READY] \in Members(C)[READY]
  BY NamesFacts, MemberFacts
<1>7. CASE R.tail[READY] = NIL
  BY <1>7, <1>1, <1>2, <1>3, <1>4, <1>5 DEF DoTransfer, coroutineVars
<1>8. CASE R.tail[READY] # NIL
  <2>1. /\ cor' = [cor EXCEPT ![cp] = Running]
        /\ \/ mode' = "run" /\ TRANSFER(saved, cor'[cp'])
           \/ mode' = "trap" /\ TRANSFERTooLarge(saved)
    BY <1>8, <1>1 DEF DoTransfer
  <2>2. QED  BY <2>1, <1>1, <1>2, <1>3, <1>4, <1>6, <1>8
<1>9. QED  BY <1>7, <1>8

LEMMA TransferTypes ==
    ASSUME TypeOK, NEW R, NEW C, QOK(R, C), DoTransfer(R), mode = "run", cp \in Allocated
    PROVE  /\ cp' \in Process \cup {NIL}
           /\ Q' \in [next : [Process -> Process \cup {NIL}],
                      head : [Queues -> Process \cup {NIL}],
                      tail : [Queues -> Process \cup {NIL}]]
           /\ cor' \in [Process -> Area \cup {NIL}]
           /\ CoroutineTypeOK'
           /\ mode' \in Modes
           /\ Allocated' = Allocated
<1>1. Members(C)[READY] \subseteq Process
  BY NamesFacts, MemberFacts
<1>2. /\ QOK(Q', Lines')
      /\ \/ mode' = "halt" /\ cp' = NIL /\ cor' = cor /\ curproc' = curproc /\ saved' = saved
         \/ /\ cp' \in Members(C)[READY] /\ cor' = [cor EXCEPT ![cp] = Running]
            /\ \/ mode' = "run" /\ TRANSFER(saved, cor'[cp'])
               \/ mode' = "trap" /\ TRANSFERTooLarge(saved)
  BY Dispatches
<1>3. Running \in Area /\ Running # NIL /\ cor \in [Process -> Area \cup {NIL}] /\ cp \in Process
  BY CoroutineAssumption DEF TypeOK, CoroutineTypeOK, Running, Allocated
<1>4. cor' \in [Process -> Area \cup {NIL}]
  BY <1>2, <1>3
<1>5. CoroutineTypeOK'
  BY <1>1, <1>2, <1>3, <1>4 DEF TypeOK, CoroutineTypeOK, TRANSFER, TRANSFERTooLarge
<1>6. Allocated' = Allocated
  BY <1>2, <1>3 DEF Allocated
<1>7. QED  BY <1>1, <1>2, <1>4, <1>5, <1>6 DEF QOK, Modes

(* If all is well when the caller waits and nobody runs, with B in the     *)
(* queues, then all is well when DoTransfer has chosen who runs.           *)
LEMMA DispatchStep ==
    ASSUME TypeOK, mode = "run", cp \in Allocated, StackOK, TypeInv',
           NEW R, NEW C, QOK(R, C), DoTransfer(R), NEW B, B = Members(C),
           Waiting[FREE] \subseteq B[FREE],
           MessageOK(B)', PlaceOK(B, NIL)', FamilyOK(B)', OpenOK(B, NIL)', ReceiveOK(B)',
           SelectOK(NIL)'
    PROVE  CSPInv'
<1>1. /\ QOK(Q', Lines')
      /\ Waiting' = [B EXCEPT ![READY] = @ \ {cp'}]
      /\ \/ /\ mode' = "halt" /\ cp' = NIL /\ B[READY] = {}
            /\ cor' = cor /\ curproc' = curproc /\ saved' = saved
         \/ /\ cp' \in B[READY] /\ cor' = [cor EXCEPT ![cp] = Running]
            /\ \/ mode' = "run" /\ TRANSFER(saved, cor'[cp'])
               \/ mode' = "trap" /\ TRANSFERTooLarge(saved)
  BY Dispatches
<1>2. /\ DOMAIN B = Queues /\ \A q \in Queues : B[q] \subseteq Process
      /\ \A q, r \in Queues : q # r => B[q] \cap B[r] = {}
  <2>1. DOMAIN B = Queues
    BY DEF Members
  <2>2. QED  BY <2>1, MemberFacts
<1>3. Allocated' = Allocated /\ cor' \in [Process -> Area \cup {NIL}]
  BY TransferTypes
<1> HIDE DEF QOK
<1>4. /\ Waiting'[READY] = B[READY] \ {cp'}
      /\ \A q \in Queues : q # READY => Waiting'[q] = B[q]
      /\ \A q \in Queues : Waiting'[q] = B[q] \ {cp'}
  <2>1. \A q \in Queues : q # READY => cp' \notin B[q]
    BY <1>1, <1>2, NamesFacts, SMT
  <2>2. /\ Waiting'[READY] = B[READY] \ {cp'}
        /\ \A q \in Queues : q # READY => Waiting'[q] = B[q]
    BY <1>1, <1>2, NamesFacts
  <2>3. QED  BY <2>1, <2>2, NamesFacts
<1>5. LiveIn(Waiting)' = LiveIn(B)'
  BY <1>4, NamesFacts DEF LiveIn
<1>6. MessageOK(Waiting)'
  BY <1>4, NamesFacts DEF MessageOK
<1>7. PlaceOK(Waiting, cp)'
  <2>1. \A q \in Queues : Waiting'[q] \subseteq Allocated' \ {cp'}
    BY <1>4, SMT DEF PlaceOK
  <2>2. ASSUME NEW p \in Allocated', p # cp'
        PROVE  (\E q \in Queues : p \in Waiting'[q]) \/ sons'[p] > 0 \/ opened'[p] \in Channel
    <3>1. p # NIL
      BY NamesFacts DEF Allocated
    <3>2. (\E q \in Queues : p \in B[q]) \/ sons'[p] > 0 \/ opened'[p] \in Channel
      BY <3>1 DEF PlaceOK
    <3>3. QED  BY <3>2, <2>2, <1>4
  <2>3. \A q \in Queues : \A p \in Waiting'[q] : sons'[p] = 0 /\ opened'[p] \notin Channel
    BY <1>4 DEF PlaceOK
  <2>4. \A p \in Process : at'[p] # "body" => p \in LiveIn(Waiting)' /\ sons'[p] = 0
    BY <1>5 DEF PlaceOK
  <2>5. QED  BY <2>1, <2>2, <2>3, <2>4 DEF PlaceOK
<1>8. FamilyOK(Waiting)'
  BY <1>5 DEF FamilyOK, SonsIn
<1>9. cp' \in Process => opened'[cp'] \notin Channel
  BY <1>1, NamesFacts DEF PlaceOK
<1>10. OpenOK(Waiting, cp)'
  <2>1. \A ch \in Channel : chindex'[ch] # 0 => owner'[ch] \in Process /\ Waiting'[ch] = {}
    BY <1>4, NamesFacts DEF OpenOK
  <2>2. \A p \in Process : opened'[p] \notin Channel => Opens(p)' = {}
    BY DEF OpenOK
  <2>3. ASSUME NEW p \in Process, opened'[p] \in Channel
        PROVE  ListOK(p)' /\ p # cp' /\ at'[p] \in {"receive", "select"}
    BY <2>3, <1>9, NamesFacts DEF OpenOK
  <2>4. QED  BY <2>1, <2>2, <2>3 DEF OpenOK
<1>11. ReceiveOK(Waiting)'
  BY <1>4, NamesFacts DEF ReceiveOK
<1>12. SelectOK(cp)'
  <2>1. ASSUME NEW p \in Process, InSelect(p)' PROVE SelectsOK(p, cp)'
    <3>1. SelectsOK(p, NIL)' /\ p # NIL
      BY <2>1, NamesFacts DEF SelectOK
    <3>2. QED  BY <3>1 DEF SelectsOK
  <2>2. QED  BY <2>1 DEF SelectOK
<1>13. mode' = "run" => cp' \in Allocated' /\ StackOK'
  <2> SUFFICES ASSUME mode' = "run" PROVE cp' \in Allocated' /\ StackOK'
    OBVIOUS
  <2>1. /\ cp' \in B[READY] /\ cor' = [cor EXCEPT ![cp] = Running]
        /\ TRANSFER(saved, cor'[cp'])
    BY <1>1
  <2>2. cp' \in Allocated' /\ cp' \in Process /\ cp \in Process
    BY <2>1, <1>2, NamesFacts DEF PlaceOK, Allocated
  <2>3. Running = AreaOf[cp] /\ AreaOf \in [Process -> Area]
    BY CSPAssumption DEF StackOK
  <2>4. ASSUME NEW p \in LiveIn(B)'
        PROVE  /\ p \in Process /\ cor'[p] = AreaOf[p]
               /\ p # cp => AreaOf[p] \in saved
    <3>1. p \in Process /\ p \in LiveIn(Waiting)
      BY <1>3 DEF LiveIn, Allocated
    <3>2. CASE p = cp
      BY <3>1, <3>2, <2>1, <2>3 DEF TypeOK
    <3>3. CASE p # cp
      BY <3>1, <3>3, <2>1, <2>2 DEF StackOK, TypeOK
    <3>4. QED  BY <3>1, <3>2, <3>3
  <2>5. cp' \in LiveIn(B)'
    BY <2>1, <2>2, <1>2, NamesFacts DEF LiveIn
  <2>6. curproc' = AreaOf[cp'] /\ Running' = AreaOf[cp']
    BY <2>1, <2>2, <2>3, <2>4, <2>5, CoroutineAssumption DEF TRANSFER, Running
  <2>7. ASSUME NEW p \in LiveIn(Waiting)', p # cp'
        PROVE  cor'[p] = AreaOf[p] /\ AreaOf[p] \in saved'
    <3>1. p \in LiveIn(B)' /\ p \in Process
      BY <1>5, <2>4
    <3>2. AreaOf[p] # AreaOf[cp']
      BY <3>1, <2>2, <2>7, CSPAssumption
    <3>3. saved' = IF AreaOf[cp'] = AreaOf[cp] THEN saved
                   ELSE (saved \cup {AreaOf[cp]}) \ {AreaOf[cp']}
      BY <2>1, <2>3, <2>4, <2>5 DEF TRANSFER
    <3>4. CASE p = cp
      BY <3>1, <3>2, <3>3, <3>4, <2>4
    <3>5. CASE p # cp
      BY <3>1, <3>2, <3>3, <3>5, <2>4
    <3>6. QED  BY <3>4, <3>5
  <2>8. QED  BY <2>2, <2>6, <2>7 DEF StackOK
<1>14. mode' = "halt" => cp' = NIL
  BY <1>1, NamesFacts DEF TRANSFER
<1>15. QED  BY <1>1, <1>6, <1>7, <1>8, <1>10, <1>11, <1>12, <1>13, <1>14 DEF CSPInv
-----------------------------------------------------------------------------
LEMMA RunFacts ==
    ASSUME CSPInv, mode = "run"
    PROVE  /\ TypeInv /\ TypeOK /\ QOK(Q, Lines) /\ MessageOK(Waiting)
           /\ PlaceOK(Waiting, cp) /\ FamilyOK(Waiting) /\ OpenOK(Waiting, cp)
           /\ ReceiveOK(Waiting) /\ SelectOK(cp) /\ StackOK
           /\ cp \in Allocated /\ cp \in Process
           /\ \A q \in Queues : Waiting[q] \subseteq Process /\ cp \notin Waiting[q]
           /\ \A q, r \in Queues : q # r => Waiting[q] \cap Waiting[r] = {}
           /\ Allocated \subseteq Process
<1>1. /\ TypeInv /\ TypeOK /\ QOK(Q, Lines) /\ MessageOK(Waiting)
      /\ PlaceOK(Waiting, cp) /\ FamilyOK(Waiting) /\ OpenOK(Waiting, cp)
      /\ ReceiveOK(Waiting) /\ SelectOK(cp) /\ StackOK /\ cp \in Allocated
  BY DEF CSPInv, Going, TypeInv
<1>2. Allocated \subseteq Process
  BY DEF Allocated
<1>3. \A q \in Queues : Waiting[q] \subseteq Process /\ cp \notin Waiting[q]
  BY <1>1, <1>2 DEF PlaceOK
<1>4. \A q, r \in Queues : q # r => Waiting[q] \cap Waiting[r] = {}
  BY <1>1, MemberFacts DEF Waiting
<1>5. QED  BY <1>1, <1>2, <1>3, <1>4

(* What a call leaves as it was.  B and c are the contents of the queues   *)
(* and the process that runs, or NIL.                                      *)
LEMMA SamePlace ==
    ASSUME NEW B, NEW c, PlaceOK(B, c), Allocated' = Allocated, sons' = sons,
           opened' = opened, at' = at
    PROVE  PlaceOK(B, c)'
  BY DEF PlaceOK, LiveIn

LEMMA SameFamily ==
    ASSUME NEW B, FamilyOK(B), Allocated' = Allocated, sons' = sons, father' = father
    PROVE  FamilyOK(B)'
  BY DEF FamilyOK, LiveIn, SonsIn

LEMMA SameOpen ==
    ASSUME NEW B, NEW c, OpenOK(B, c), chindex' = chindex, owner' = owner, opened' = opened,
           chnext' = chnext, at' = at
    PROVE  OpenOK(B, c)'
  BY SMT DEF OpenOK, Opens, ListOK, ListOf

LEMMA SameReceive ==
    ASSUME NEW B, ReceiveOK(B), at' = at, rch' = rch, owner' = owner, opened' = opened,
           guardindex' = guardindex, chindex' = chindex
    PROVE  ReceiveOK(B)'
  BY DEF ReceiveOK, Opens

LEMMA SameSelect ==
    ASSUME NEW c, SelectOK(c), at' = at, owner' = owner, guardindex' = guardindex,
           guardcount' = guardcount, guards' = guards, tried' = tried, chindex' = chindex
    PROVE  SelectOK(c)'
  BY DEF SelectOK, SelectsOK, InSelect, Opens

(* A process that waits in no SELECT, or has tried all guards, may wait.   *)
LEMMA MayYield ==
    ASSUME TypeOK, NEW B, NEW c, SelectOK(c), OpenOK(B, c),
           c \in Process, at[c] # "endselect", at[c] = "select" => tried[c] = 1..Len(guards[c])
    PROVE  OpenOK(B, NIL) /\ SelectOK(NIL)
<1>1. OpenOK(B, NIL)
  BY NamesFacts DEF OpenOK
<1>2. ASSUME NEW p \in Process, InSelect(p) PROVE SelectsOK(p, NIL)
  <2>1. SelectsOK(p, c)
    BY <1>2 DEF SelectOK
  <2>2. CASE p = c
    BY <2>1, <2>2, <1>2 DEF SelectsOK, InSelect
  <2>3. CASE p # c
    BY <2>1, <2>3 DEF SelectsOK
  <2>4. QED  BY <2>2, <2>3
<1>3. QED  BY <1>1, <1>2 DEF SelectOK

(* An action that only ends the program.                                   *)
LEMMA StopsStep ==
    ASSUME CSPInv, NEW m \in Modes \ {"run", "halt"}, Stops(m)
    PROVE  CSPInv'
<1>1. /\ mode' = m /\ cp' = cp /\ Q' = Q /\ cor' = cor /\ guardindex' = guardindex
      /\ at' = at /\ rch' = rch /\ father' = father /\ sons' = sons /\ opened' = opened
      /\ guardcount' = guardcount /\ guards' = guards /\ tried' = tried /\ owner' = owner
      /\ made' = made /\ chindex' = chindex /\ chnext' = chnext /\ msgadr' = msgadr
      /\ curproc' = curproc /\ saved' = saved
  BY DEF Stops, descVars, chanVars, coroutineVars
<1>2. TypeInv'
  BY <1>1 DEF CSPInv, TypeInv, TypeOK, CoroutineTypeOK
<1>3. Lines' = Lines /\ Waiting' = Waiting
  BY <1>1 DEF Lines, Waiting, Chain, Members
<1>4. QOK(Q', Lines') /\ MessageOK(Waiting)'
  BY <1>1, <1>3 DEF CSPInv, MessageOK
<1>5. QED  BY <1>1, <1>2, <1>4 DEF CSPInv, Going

LEMMA COENDStep == CSPInv /\ COEND => CSPInv'
<1> SUFFICES ASSUME CSPInv, COEND PROVE CSPInv'
  OBVIOUS
<1>1. /\ mode = "run" /\ at[cp] = "body" /\ sons[cp] > 0 /\ DoTransfer(Q)
      /\ guardindex' = guardindex
      /\ at' = at /\ rch' = rch /\ father' = father /\ sons' = sons /\ opened' = opened
      /\ guardcount' = guardcount /\ guards' = guards /\ tried' = tried /\ owner' = owner
      /\ made' = made /\ chindex' = chindex /\ chnext' = chnext /\ msgadr' = msgadr
  BY DEF COEND, descVars, chanVars
<1>2. /\ TypeInv /\ TypeOK /\ QOK(Q, Lines) /\ MessageOK(Waiting)
      /\ PlaceOK(Waiting, cp) /\ FamilyOK(Waiting) /\ OpenOK(Waiting, cp)
      /\ ReceiveOK(Waiting) /\ SelectOK(cp) /\ StackOK
      /\ cp \in Allocated /\ cp \in Process
  BY <1>1, RunFacts
<1>3. Allocated' = Allocated /\ TypeInv'
  BY <1>1, <1>2, TransferTypes DEF TypeInv, TypeOK
<1>4. PICK C, B : C = Lines /\ B = Waiting
  OBVIOUS
<1>5. PlaceOK(B, NIL)'
  <2>1. PlaceOK(B, NIL)
    BY <1>1, <1>2, <1>4, NamesFacts DEF PlaceOK, Allocated
  <2>2. QED  BY <2>1, <1>1, <1>3, SamePlace
<1>6. FamilyOK(B)'
  BY <1>1, <1>2, <1>3, <1>4, SameFamily
<1>7. OpenOK(B, NIL)' /\ SelectOK(NIL)'
  <2>1. OpenOK(B, NIL) /\ SelectOK(NIL)
    BY <1>1, <1>2, <1>4, MayYield
  <2>2. QED  BY <2>1, <1>1, SameOpen, SameSelect
<1>8. ReceiveOK(B)'
  BY <1>1, <1>2, <1>4, SameReceive
<1>9. MessageOK(B)'
  BY <1>1, <1>2, <1>4 DEF MessageOK
<1>10. QOK(Q, C) /\ B = Members(C) /\ Waiting[FREE] \subseteq B[FREE]
  BY <1>2, <1>4 DEF Waiting
<1>11. QED  BY <1>1, <1>2, <1>3, <1>5, <1>6, <1>7, <1>8, <1>9, <1>10, DispatchStep

(* A step of the running process that moves no process.                    *)
LEMMA QuietStep ==
    ASSUME CSPInv, mode = "run", mode' = mode, Q' = Q, cp' = cp, cor' = cor,
           curproc' = curproc, saved' = saved, TypeInv', NEW B, B = Waiting, NEW c, c = cp,
           MessageOK(B)', PlaceOK(B, c)', FamilyOK(B)', OpenOK(B, c)', ReceiveOK(B)',
           SelectOK(c)'
    PROVE  CSPInv'
<1>1. Lines' = Lines /\ Waiting' = B /\ cp' = c
  BY DEF Lines, Waiting, Chain, Members
<1>2. QOK(Q', Lines')
  BY <1>1, RunFacts
<1>3. MessageOK(Waiting)'
  BY <1>1 DEF MessageOK
<1>4. PlaceOK(Waiting, cp)'
  BY <1>1 DEF PlaceOK, LiveIn
<1>5. FamilyOK(Waiting)'
  BY <1>1 DEF FamilyOK, LiveIn, SonsIn
<1>6. OpenOK(Waiting, cp)'
  BY <1>1 DEF OpenOK
<1>7. ReceiveOK(Waiting)'
  BY <1>1 DEF ReceiveOK
<1>8. SelectOK(cp)'
  BY <1>1 DEF SelectOK, SelectsOK
<1>9. cp' \in Allocated' /\ StackOK'
  <2>1. Allocated' = Allocated /\ Running' = Running
    BY DEF Allocated, Running
  <2>2. QED  BY <2>1, <1>1, RunFacts DEF StackOK, LiveIn
<1>10. QED  BY <1>2, <1>3, <1>4, <1>5, <1>6, <1>7, <1>8, <1>9 DEF CSPInv

LEMMA ChannelStep ==
    ASSUME CSPInv, NEW ch \in Channel, InitChannel(ch) \/ GetChannel(ch)
    PROVE  CSPInv'
<1>1. CASE GetChannel(ch) /\ owner[ch] # NIL
  <2>1. Stops("error")
    BY <1>1 DEF GetChannel
  <2>2. QED  BY <2>1, StopsStep DEF Modes
<1>2. CASE InitChannel(ch) \/ (GetChannel(ch) /\ owner[ch] = NIL)
  <2>1. /\ mode = "run" /\ mode' = mode /\ cp' = cp /\ Q' = Q /\ cor' = cor
        /\ guardindex' = guardindex
        /\ at' = at /\ rch' = rch /\ father' = father /\ sons' = sons /\ opened' = opened
        /\ guardcount' = guardcount /\ guards' = guards /\ tried' = tried
        /\ chindex' = chindex /\ chnext' = chnext /\ msgadr' = msgadr
        /\ curproc' = curproc /\ saved' = saved
        /\ owner' = owner \/ (owner[ch] = NIL /\ owner' = [owner EXCEPT ![ch] = cp])
        /\ made' \subseteq made \cup {ch}
    BY <1>2 DEF InitChannel, GetChannel, Calls, descVars, chanVars, coroutineVars
  <2>2. /\ TypeInv /\ TypeOK /\ MessageOK(Waiting)
        /\ PlaceOK(Waiting, cp) /\ FamilyOK(Waiting) /\ OpenOK(Waiting, cp)
        /\ ReceiveOK(Waiting) /\ SelectOK(cp) /\ cp \in Process
    BY <2>1, RunFacts
  <2>3. TypeInv' /\ Allocated' = Allocated
    BY <2>1, <2>2 DEF TypeInv, TypeOK, CoroutineTypeOK, Allocated
  <2>4. PICK B, c : B = Waiting /\ c = cp
    OBVIOUS
  <2>5. /\ \A p \in Process : Opens(p)' = Opens(p)
        /\ \A d \in Channel : owner[d] \in Process => owner'[d] = owner[d]
    <3>1. \A d \in Channel : chindex[d] # 0 => owner[d] \in Process
      BY <2>2 DEF OpenOK
    <3>2. \A d \in Channel : owner[d] \in Process => owner'[d] = owner[d]
      BY <2>1, <2>2, NamesFacts, SMT DEF TypeOK
    <3>3. \A d \in Channel : chindex[d] # 0 => owner'[d] = owner[d]
      BY <3>1, <3>2
    <3>4. QED  BY <3>2, <3>3, <2>1 DEF Opens
  <2>6. PlaceOK(B, c)' /\ FamilyOK(B)' /\ MessageOK(B)'
    BY <2>1, <2>2, <2>3, <2>4, SamePlace, SameFamily DEF MessageOK
  <2>7. OpenOK(B, c)'
    <3>1. \A p \in Process : ListOf(p)' = ListOf(p)
      BY <2>1 DEF ListOf
    <3>2. \A p \in Process : ListOK(p) => ListOK(p)'
      <4>1. \A p \in Process : /\ Opens(p)' = Opens(p) /\ opened'[p] = opened[p]
                              /\ ListOf(p)' = ListOf(p) /\ chnext' = chnext
        BY <2>1, <2>5, <3>1
      <4>2. QED  BY <4>1, SMT DEF ListOK
    <3>3. \A d \in Channel : chindex[d] # 0 => owner'[d] \in Process
      BY <2>2, <2>5 DEF OpenOK
    <3>4. QED  BY <2>1, <2>2, <2>4, <2>5, <3>2, <3>3 DEF OpenOK
  <2>8. ReceiveOK(B)'
    BY <2>1, <2>2, <2>4, <2>5 DEF ReceiveOK
  <2>9. SelectOK(c)'
    <3>1. ASSUME NEW p \in Process, InSelect(p) PROVE SelectsOK(p, c)'
      <4>1. SelectsOK(p, c)
        BY <3>1, <2>2, <2>4 DEF SelectOK
      <4>2. \A k \in 1..Len(guards[p]) : guards[p][k] \in Channel => owner'[guards[p][k]] = p
        BY <4>1, <2>5 DEF SelectsOK
      <4>3. QED  BY <4>1, <4>2, <2>1, <2>5 DEF SelectsOK
    <3>2. QED  BY <3>1, <2>1, <2>2, <2>4 DEF SelectOK, InSelect
  <2>10. QED  BY <2>1, <2>3, <2>4, <2>6, <2>7, <2>8, <2>9, QuietStep
<1>3. QED  BY <1>1, <1>2

LEMMA ExitStep == CSPInv /\ Exit => CSPInv'
  BY StopsStep DEF Exit, Modes

LEMMA InitCSPInv == Init => CSPInv
<1> SUFFICES ASSUME Init PROVE CSPInv
  OBVIOUS
<1>1. TypeInv
  <2>1. 0 \in -1..MaxGuards /\ 0 \in 0..CardSize - 1
    BY CSPAssumption, SMT
  <2>2. <<>> \in Seq(Channel \cup {NIL}) /\ Len(<<>>) = 0
    BY SMT
  <2>3. guards \in [Process -> Seq(Channel \cup {NIL})]
    BY <2>2 DEF Init
  <2>4. \A p \in Process : /\ Len(guards[p]) <= MaxGuards
                           /\ \A k \in 1..Len(guards[p]) : guards[p][k] \in Channel \cup {NIL}
    BY <2>2, CSPAssumption, SMT DEF Init
  <2>5. QED
    BY <2>1, <2>3, <2>4, NamesFacts
    DEF Init, TypeInv, TypeOK, CoroutineInit, CoroutineTypeOK, Places, Modes
<1>2. PICK C : C = [q \in Queues |-> <<>>]
  OBVIOUS
<1>3. QOK(Q, C)
  <2>1. \A q \in Queues : C[q] = <<>> /\ Len(C[q]) = 0
    BY <1>2
  <2>2. C \in [Queues -> Seq(Process)]
    BY <1>2, SMT
  <2>3. \A q \in Queues : IsPath(C[q], Q.tail[q], Q.next, NIL)
    <3>1. IsPath(<<>>, NIL, Q.next, NIL)
      <4>1. <<>> \in Seq(DOMAIN Q.next) /\ Len(<<>>) = 0
        BY SMT
      <4>2. QED  BY <4>1, SMT DEF IsPath
    <3>2. \A q \in Queues : Q.tail[q] = NIL
      BY DEF Init
    <3>3. QED  BY <2>1, <3>1, <3>2
  <2>4. \A q \in Queues : Q.head[q] = NIL
    BY DEF Init
  <2>5. QED  BY <1>1, <2>1, <2>2, <2>3, <2>4, SMT DEF QOK, TypeInv, TypeOK
<1>4. QOK(Q, Lines) /\ \A q \in Queues : Waiting[q] = {}
  <2>1. Lines = C /\ Waiting = Members(C)
    BY <1>3, LinesNow
  <2>2. QED  BY <2>1, <1>2, <1>3, SMT DEF Members
<1>5. Allocated = {Main} /\ LiveIn(Waiting) = {Main} /\ \A p \in Process : Opens(p) = {}
  BY <1>4, NamesFacts DEF Init, Allocated, LiveIn, Opens
<1>6. MessageOK(Waiting) /\ PlaceOK(Waiting, cp)
  BY <1>4, <1>5, NamesFacts DEF MessageOK, PlaceOK, Init
<1>7. FamilyOK(Waiting)
  <2>1. \A f \in Process : SonsIn(Waiting, f) = {}
    BY <1>5 DEF SonsIn
  <2>2. QED  BY <2>1, <1>5, FS_EmptySet DEF FamilyOK, Init
<1>8. OpenOK(Waiting, cp)
  BY <1>5, NamesFacts DEF OpenOK, Init
<1>9. ReceiveOK(Waiting) /\ SelectOK(cp)
  BY SMT DEF ReceiveOK, SelectOK, InSelect, Init
<1>10. StackOK
  BY <1>5, CSPAssumption DEF StackOK, Running, Init, CoroutineInit
<1>11. QED
  BY <1>1, <1>4, <1>5, <1>6, <1>7, <1>8, <1>9, <1>10 DEF CSPInv, Init, Going
-----------------------------------------------------------------------------
(* The list of opened channels, as OpenList finds it.                      *)
LEMMA OpenListIs ==
    ASSUME TypeOK, NEW B, NEW c, OpenOK(B, c), NEW p \in Process, opened[p] # WILD
    PROVE  OpenList(opened[p]) = Opens(p)
<1>1. CASE opened[p] \in Channel
  BY <1>1 DEF OpenOK, ListOK, ListOf, OpenList
<1>2. CASE opened[p] = NIL
  <2>1. DOMAIN chnext = Channel
    BY DEF TypeOK
  <2>2. IsPath(<<>>, NIL, chnext, NIL)
    <3>1. <<>> \in Seq(DOMAIN chnext) /\ Len(<<>>) = 0
      BY SMT
    <3>2. QED  BY <3>1, SMT DEF IsPath
  <2>3. Cardinality(Channel) \in Nat /\ Len(<<>>) = 0
    BY CSPAssumption, FS_CardinalityType
  <2>4. Walk(NIL, chnext, NIL, Cardinality(Channel)) = <<>>
    BY <2>1, <2>2, <2>3, WalkIsPath, NamesFacts, SMT
  <2>5. OpenList(NIL) = {}
    BY <2>3, <2>4, SMT DEF OpenList
  <2>6. QED  BY <2>5, <1>2, NamesFacts DEF OpenOK
<1>3. QED  BY <1>1, <1>2 DEF TypeOK

(* CloseChannels closes the open channels of p, and no other list changes. *)
LEMMA CloseFacts ==
    ASSUME TypeOK, NEW B, NEW c, OpenOK(B, c), NEW p \in Process, opened[p] # WILD,
           CloseChannels(p), owner' = owner
    PROVE  /\ chindex' \in [Channel -> -1..MaxGuards]
           /\ \A ch \in Channel : chindex'[ch] = IF ch \in Opens(p) THEN 0 ELSE chindex[ch]
           /\ opened' = [opened EXCEPT ![p] = NIL] /\ chnext' = chnext
           /\ Opens(p)' = {} /\ \A r \in Process \ {p} : Opens(r)' = Opens(r)
           /\ \A r \in Process \ {p} : ListOK(r) => ListOK(r)'
<1>1. OpenList(opened[p]) = Opens(p)
  BY OpenListIs
<1>2. /\ chindex' = [ch \in Channel |-> IF ch \in Opens(p) THEN 0 ELSE chindex[ch]]
      /\ opened' = [opened EXCEPT ![p] = NIL] /\ chnext' = chnext
  BY <1>1 DEF CloseChannels
<1>3. 0 \in -1..MaxGuards /\ chindex \in [Channel -> -1..MaxGuards]
  BY CSPAssumption, SMT DEF TypeOK
<1>4. Opens(p)' = {} /\ \A r \in Process \ {p} : Opens(r)' = Opens(r)
  BY <1>2 DEF Opens
<1>5. ASSUME NEW r \in Process \ {p}, ListOK(r) PROVE ListOK(r)'
  <2>1. opened'[r] = opened[r] /\ chnext' = chnext
    BY <1>2 DEF TypeOK
  <2>2. ListOf(r)' = ListOf(r)
    BY <2>1 DEF ListOf
  <2>3. QED  BY <2>1, <2>2, <1>4, <1>5, SMT DEF ListOK
<1>6. QED  BY <1>2, <1>3, <1>4, <1>5

LEMMA BodyFacts ==
    ASSUME TypeOK, NEW B, OpenOK(B, cp), cp \in Process, at[cp] = "body"
    PROVE  opened[cp] \notin Channel /\ Opens(cp) = {}
  BY DEF OpenOK

LEMMA PushNow ==
    ASSUME QOK(Q, Lines), NEW q \in Queues, NEW p \in Process,
           \A r \in Queues : p \notin Waiting[r]
    PROVE  \E D : /\ QOK(Push(q, p, Q), D)
                  /\ D = [Lines EXCEPT ![q] = Append(@, p)]
                  /\ Members(D) = [Waiting EXCEPT ![q] = @ \cup {p}]
<1>1. \A r \in Queues : p \notin Members(Lines)[r]
  BY DEF Waiting
<1>2. \E D : /\ QOK(Push(q, p, Q), D)
             /\ D = [Lines EXCEPT ![q] = Append(@, p)]
             /\ Members(D) = [Members(Lines) EXCEPT ![q] = @ \cup {p}]
  BY <1>1, PushMembers, SMT
<1>3. QED  BY <1>2 DEF Waiting

(* Send to a channel nobody waits for. *)
LEMMA SendClosedStep ==
    ASSUME CSPInv, NEW ch \in Channel, Send(ch), ~IsOpen(ch)
    PROVE  CSPInv'
<1>1. /\ mode = "run" /\ at[cp] = "body" /\ sons[cp] = 0 /\ DoTransfer(Push(ch, cp, Q))
      /\ guardindex' = guardindex
      /\ at' = at /\ rch' = rch /\ father' = father /\ sons' = sons /\ opened' = opened
      /\ guardcount' = guardcount /\ guards' = guards /\ tried' = tried /\ owner' = owner
      /\ made' = made /\ chindex' = chindex /\ chnext' = chnext
      /\ msgadr' = [msgadr EXCEPT ![cp] = cp] /\ chindex[ch] = 0
  BY DEF Send, Calls, IsOpen
<1>2. /\ TypeInv /\ TypeOK /\ QOK(Q, Lines) /\ MessageOK(Waiting)
      /\ PlaceOK(Waiting, cp) /\ FamilyOK(Waiting) /\ OpenOK(Waiting, cp)
      /\ ReceiveOK(Waiting) /\ SelectOK(cp) /\ StackOK
      /\ cp \in Allocated /\ cp \in Process
      /\ \A q \in Queues : Waiting[q] \subseteq Process /\ cp \notin Waiting[q]
  BY <1>1, RunFacts
<1>3. PICK C : /\ QOK(Push(ch, cp, Q), C)
               /\ C = [Lines EXCEPT ![ch] = Append(@, cp)]
               /\ Members(C) = [Waiting EXCEPT ![ch] = @ \cup {cp}]
  BY <1>2, NamesFacts, PushNow
<1>4. PICK B : B = Members(C)
  OBVIOUS
<1>5. B[ch] = Waiting[ch] \cup {cp} /\ \A q \in Queues : q # ch => B[q] = Waiting[q]
  <2>1. DOMAIN Waiting = Queues
    BY DEF Waiting, Members
  <2>2. QED  BY <2>1, <1>3, <1>4, NamesFacts
<1>6. Allocated' = Allocated /\ TypeInv'
  <2>1. msgadr' \in [Process -> Process \cup {NIL}]
    BY <1>1, <1>2 DEF TypeOK
  <2>2. QED  BY <2>1, <1>1, <1>2, <1>3, TransferTypes DEF TypeInv, TypeOK
<1>7. opened[cp] \notin Channel /\ LiveIn(B) = LiveIn(Waiting)
  BY <1>1, <1>2, <1>5, BodyFacts, NamesFacts DEF LiveIn
<1>8. PlaceOK(B, NIL)'
  <2>1. PlaceOK(B, NIL)
    BY <1>1, <1>2, <1>5, <1>7, NamesFacts, SMTT(30) DEF PlaceOK, Allocated
  <2>2. QED  BY <2>1, <1>1, <1>6, SamePlace
<1>9. FamilyOK(B)'
  <2>1. FamilyOK(B)
    BY <1>2, <1>7 DEF FamilyOK, SonsIn
  <2>2. QED  BY <2>1, <1>1, <1>6, SameFamily
<1>10. OpenOK(B, NIL)' /\ SelectOK(NIL)'
  <2>1. OpenOK(Waiting, NIL) /\ SelectOK(NIL)
    BY <1>1, <1>2, MayYield
  <2>2. OpenOK(B, NIL)
    BY <2>1, <1>1, <1>5, NamesFacts DEF OpenOK
  <2>3. QED  BY <2>1, <2>2, <1>1, SameOpen, SameSelect
<1>11. ReceiveOK(B)'
  <2>1. ReceiveOK(B)
    BY <1>2, <1>5, NamesFacts DEF ReceiveOK
  <2>2. QED  BY <2>1, <1>1, SameReceive
<1>12. MessageOK(B)'
  <2>1. ASSUME NEW d \in Channel, NEW r \in B[d] PROVE msgadr'[r] = r
    <3>1. r = cp \/ r \in Waiting[d]
      BY <1>5, NamesFacts
    <3>2. r \in Process /\ (r # cp => msgadr[r] = r)
      BY <3>1, <1>2, NamesFacts DEF MessageOK
    <3>3. QED  BY <3>2, <1>1, <1>2 DEF TypeOK
  <2>2. QED  BY <2>1 DEF MessageOK
<1>13. Waiting[FREE] \subseteq B[FREE]
  BY <1>5, NamesFacts
<1>14. QED
  BY <1>1, <1>2, <1>3, <1>4, <1>6, <1>8, <1>9, <1>10, <1>11, <1>12, <1>13, DispatchStep

(* Send to an open channel: its owner becomes ready. *)
LEMMA SendOpenStep ==
    ASSUME CSPInv, NEW ch \in Channel, Send(ch), IsOpen(ch)
    PROVE  CSPInv'
<1>0. PICK p : p = owner[ch]
  OBVIOUS
<1>1. /\ mode = "run" /\ at[cp] = "body" /\ sons[cp] = 0
      /\ DoTransfer(Push(READY, p, Push(ch, cp, Q)))
      /\ guardindex' = [guardindex EXCEPT ![p] = chindex[ch]]
      /\ CloseChannels(p)
      /\ at' = at /\ rch' = rch /\ father' = father /\ sons' = sons
      /\ guardcount' = guardcount /\ guards' = guards /\ tried' = tried /\ owner' = owner
      /\ made' = made /\ msgadr' = [msgadr EXCEPT ![cp] = cp] /\ chindex[ch] # 0
  BY <1>0 DEF Send, Calls, IsOpen
<1>2. /\ TypeInv /\ TypeOK /\ QOK(Q, Lines) /\ MessageOK(Waiting)
      /\ PlaceOK(Waiting, cp) /\ FamilyOK(Waiting) /\ OpenOK(Waiting, cp)
      /\ ReceiveOK(Waiting) /\ SelectOK(cp) /\ StackOK
      /\ cp \in Allocated /\ cp \in Process
      /\ \A q \in Queues : Waiting[q] \subseteq Process /\ cp \notin Waiting[q]
  BY <1>1, RunFacts
<1>3. opened[cp] \notin Channel /\ p \in Process /\ ch \in Opens(p) /\ opened[p] \in Channel /\ p # cp
  BY <1>0, <1>1, <1>2, BodyFacts DEF OpenOK, Opens
<1>4. /\ at[p] \in {"receive", "select"} /\ p \in LiveIn(Waiting) /\ p \in Allocated
      /\ sons[p] = 0 /\ \A q \in Queues : p \notin Waiting[q]
  BY <1>2, <1>3 DEF OpenOK, PlaceOK, LiveIn
<1>5. PICK C1 : /\ QOK(Push(ch, cp, Q), C1)
                /\ C1 = [Lines EXCEPT ![ch] = Append(@, cp)]
                /\ Members(C1) = [Waiting EXCEPT ![ch] = @ \cup {cp}]
  BY <1>2, NamesFacts, PushNow
<1>6. DOMAIN Waiting = Queues
  BY DEF Waiting, Members
<1>7. \A q \in Queues : p \notin Members(C1)[q]
  BY <1>3, <1>4, <1>5, <1>6
<1>8. PICK C : /\ QOK(Push(READY, p, Push(ch, cp, Q)), C)
               /\ C = [C1 EXCEPT ![READY] = Append(@, p)]
               /\ Members(C) = [Members(C1) EXCEPT ![READY] = @ \cup {p}]
  <2> DEFINE R == Push(ch, cp, Q)
  <2>1. QOK(R, C1) /\ READY \in Queues
    BY <1>5, NamesFacts
  <2> HIDE DEF R
  <2>2. \E C : /\ QOK(Push(READY, p, R), C)
               /\ C = [C1 EXCEPT ![READY] = Append(@, p)]
               /\ Members(C) = [Members(C1) EXCEPT ![READY] = @ \cup {p}]
    BY <2>1, <1>3, <1>7, PushMembers, SMT
  <2>3. QED  BY <2>2 DEF R
<1>9. PICK B : B = Members(C)
  OBVIOUS
<1>10. /\ B[ch] = Waiting[ch] \cup {cp} /\ B[READY] = Waiting[READY] \cup {p}
       /\ \A q \in Queues : q # ch /\ q # READY => B[q] = Waiting[q]
  BY <1>5, <1>6, <1>8, <1>9, NamesFacts
<1>11. /\ chindex' \in [Channel -> -1..MaxGuards]
       /\ \A d \in Channel : chindex'[d] = IF d \in Opens(p) THEN 0 ELSE chindex[d]
       /\ opened' = [opened EXCEPT ![p] = NIL] /\ chnext' = chnext
       /\ Opens(p)' = {} /\ \A r \in Process \ {p} : Opens(r)' = Opens(r)
       /\ \A r \in Process \ {p} : ListOK(r) => ListOK(r)'
  <2>1. opened[p] # WILD /\ CloseChannels(p)
    BY <1>1, <1>3, NamesFacts
  <2>2. QED  BY <2>1, <1>1, <1>2, <1>3, CloseFacts
<1>12. /\ opened'[p] = NIL /\ \A r \in Process \ {p} : opened'[r] = opened[r]
       /\ guardindex'[p] = chindex[ch] /\ \A r \in Process \ {p} : guardindex'[r] = guardindex[r]
  BY <1>1, <1>2, <1>3, <1>11 DEF TypeOK
<1>13. Allocated' = Allocated /\ TypeInv'
  <2>1. msgadr' \in [Process -> Process \cup {NIL}] /\ guardindex' \in [Process -> -1..MaxGuards]
    BY <1>1, <1>2, <1>3 DEF TypeOK
  <2>2. opened' \in [Process -> Channel \cup {NIL, WILD}]
    BY <1>2, <1>11 DEF TypeOK
  <2>3. DoTransfer(Push(READY, p, Push(ch, cp, Q)))
    BY <1>1
  <2>4. QED  BY <2>1, <2>2, <2>3, <1>1, <1>2, <1>8, <1>11, TransferTypes DEF TypeInv, TypeOK
<1>14. LiveIn(B)' = LiveIn(Waiting) /\ LiveIn(B) = LiveIn(Waiting)
  BY <1>10, <1>13, NamesFacts DEF LiveIn
<1>15. PlaceOK(B, NIL)'
  <2>1. \A q \in Queues : B[q] \subseteq Allocated \ {NIL}
    BY <1>2, <1>4, <1>10, NamesFacts, SMTT(30) DEF PlaceOK, Allocated
  <2>2. ASSUME NEW r \in Allocated
        PROVE  (\E q \in Queues : r \in B[q]) \/ sons[r] > 0 \/ opened'[r] \in Channel
    <3>1. CASE r = cp
      BY <3>1, <1>10, NamesFacts
    <3>2. CASE r = p
      BY <3>2, <1>10, NamesFacts
    <3>3. CASE r # cp /\ r # p
      <4>1. (\E q \in Queues : r \in Waiting[q]) \/ sons[r] > 0 \/ opened[r] \in Channel
        BY <3>3, <1>2 DEF PlaceOK
      <4>2. r \in Process
        BY DEF Allocated
      <4>3. \A q \in Queues : Waiting[q] \subseteq B[q]
        BY <1>10
      <4>4. QED  BY <4>1, <4>2, <4>3, <3>3, <1>12
    <3>4. QED  BY <3>1, <3>2, <3>3
  <2>3. ASSUME NEW q \in Queues, NEW r \in B[q]
        PROVE  sons[r] = 0 /\ opened'[r] \notin Channel
    <3>1. r = cp \/ r = p \/ r \in Waiting[q]
      BY <1>10
    <3>2. r \in Process /\ (r # p => opened'[r] = opened[r])
      BY <3>1, <1>2, <1>3, <1>12
    <3>3. QED  BY <3>1, <3>2, <1>1, <1>2, <1>3, <1>4, <1>12, NamesFacts DEF PlaceOK
  <2>4. \A r \in Process : at[r] # "body" => r \in LiveIn(B)' /\ sons[r] = 0
    BY <1>2, <1>14 DEF PlaceOK
  <2>5. QED  BY <2>1, <2>2, <2>3, <2>4, <1>1, <1>13 DEF PlaceOK
<1>16. FamilyOK(B)'
  <2>1. FamilyOK(B)
    BY <1>2, <1>14 DEF FamilyOK, SonsIn
  <2>2. QED  BY <2>1, <1>1, <1>13, SameFamily
<1>17. OpenOK(B, NIL)'
  <2>1. ASSUME NEW d \in Channel, chindex'[d] # 0 PROVE owner'[d] \in Process /\ B[d] = {}
    <3>1. d \notin Opens(p) /\ d # ch /\ chindex[d] # 0
      BY <2>1, <1>3, <1>11
    <3>2. QED  BY <3>1, <1>1, <1>2, <1>10, NamesFacts DEF OpenOK
  <2>2. ASSUME NEW r \in Process, opened'[r] \notin Channel PROVE Opens(r)' = {}
    BY <2>2, <1>2, <1>11, <1>12 DEF OpenOK
  <2>3. ASSUME NEW r \in Process, opened'[r] \in Channel
        PROVE  ListOK(r)' /\ at[r] \in {"receive", "select"}
    <3>1. r # p /\ r # cp /\ opened[r] \in Channel
      BY <2>3, <1>3, <1>12, NamesFacts
    <3>2. QED  BY <3>1, <1>2, <1>11 DEF OpenOK
  <2>4. QED  BY <2>1, <2>2, <2>3, <1>1, NamesFacts DEF OpenOK
<1>18. ReceiveOK(B)'
  <2> SUFFICES ASSUME NEW r \in Process, at[r] = "receive"
               PROVE  /\ rch[r] \in Channel /\ owner[rch[r]] = r
                      /\ guardindex'[r] <= 0
                      /\ opened'[r] \in Channel => Opens(r)' = {rch[r]} /\ chindex'[rch[r]] < 0
                      /\ opened'[r] \notin Channel => B[rch[r]] # {}
    BY <1>1 DEF ReceiveOK
  <2>1. /\ rch[r] \in Channel /\ owner[rch[r]] = r /\ guardindex[r] <= 0
        /\ opened[r] \in Channel => Opens(r) = {rch[r]} /\ chindex[rch[r]] < 0
        /\ opened[r] \notin Channel => Waiting[rch[r]] # {}
    BY <1>2 DEF ReceiveOK
  <2>2. CASE r = p
    <3>1. ch = rch[r] /\ chindex[ch] < 0
      BY <2>1, <2>2, <1>3
    <3>2. chindex[ch] \in Int
      BY <1>2, SMT DEF TypeOK
    <3>3. QED  BY <2>1, <2>2, <3>1, <3>2, <1>10, <1>12, NamesFacts, SMTT(30)
  <2>3. CASE r # p
    <3>1. rch[r] \notin Opens(p) /\ chindex'[rch[r]] = chindex[rch[r]]
      BY <2>1, <2>3, <1>11 DEF Opens
    <3>2. Waiting[rch[r]] \subseteq B[rch[r]]
      BY <2>1, <1>10, NamesFacts
    <3>3. QED  BY <2>1, <2>3, <3>1, <3>2, <1>11, <1>12
  <2>4. QED  BY <2>2, <2>3
<1>19. SelectOK(NIL)'
  <2>1. ASSUME NEW r \in Process, InSelect(r) PROVE SelectsOK(r, NIL)'
    <3>1. r # cp /\ SelectsOK(r, cp)
      BY <2>1, <1>1, <1>2 DEF SelectOK, InSelect
    <3>2. /\ tried[r] = 1..Len(guards[r]) /\ at[r] = "select" /\ Len(guards[r]) \in 1..MaxGuards
          /\ guardindex[r] \in 0..Len(guards[r])
          /\ \A d \in Opens(r) : chindex[d] \in 1..Len(guards[r])
          /\ \A k \in 1..Len(guards[r]) : guards[r][k] \in Channel => owner[guards[r][k]] = r
      BY <3>1, <2>1 DEF SelectsOK, InSelect
    <3>3. guardindex'[r] \in 0..Len(guards[r])
      <4>1. CASE r = p
        BY <4>1, <3>2, <1>3, <1>12, SMTT(30)
      <4>2. CASE r # p
        BY <4>2, <3>2, <1>12
      <4>3. QED  BY <4>1, <4>2
    <3>4. \A d \in Opens(r)' : chindex'[d] \in 1..Len(guards[r])
      <4>1. CASE r = p
        BY <4>1, <1>11
      <4>2. CASE r # p
        <5>1. ASSUME NEW d \in Opens(r) PROVE chindex'[d] = chindex[d]
          BY <4>2, <1>11 DEF Opens
        <5>2. QED  BY <5>1, <4>2, <3>2, <1>11
      <4>3. QED  BY <4>1, <4>2
    <3>5. guardindex'[r] = 0 => Opens(r)' = {}
      <4>1. CASE r = p
        BY <4>1, <1>11
      <4>2. CASE r # p
        <5>1. guardindex[r] = 0 => Opens(r) = {}
          BY <3>1 DEF SelectsOK
        <5>2. QED  BY <5>1, <4>2, <1>11, <1>12
      <4>3. QED  BY <4>1, <4>2
    <3>6. QED  BY <3>2, <3>3, <3>4, <3>5, <1>1 DEF SelectsOK
  <2>2. \A r \in Process : ~InSelect(r) => tried[r] = {}
    BY <1>2 DEF SelectOK
  <2>3. ASSUME NEW r \in Process, at[r] = "body" PROVE guardindex'[r] <= 0
    BY <2>3, <1>2, <1>4, <1>12 DEF SelectOK
  <2>4. QED  BY <2>1, <2>2, <2>3, <1>1 DEF SelectOK, InSelect
<1>20. MessageOK(B)'
  <2>1. ASSUME NEW d \in Channel, NEW r \in B[d] PROVE msgadr'[r] = r
    <3>1. r = cp \/ r \in Waiting[d]
      BY <1>10, NamesFacts
    <3>2. r \in Process /\ (r # cp => msgadr[r] = r)
      BY <3>1, <1>2, NamesFacts DEF MessageOK
    <3>3. QED  BY <3>2, <1>1, <1>2 DEF TypeOK
  <2>2. QED  BY <2>1 DEF MessageOK
<1>21. Waiting[FREE] \subseteq B[FREE] /\ DoTransfer(Push(READY, p, Push(ch, cp, Q)))
  BY <1>1, <1>10, NamesFacts
<1>22. QED
  BY <1>1, <1>2, <1>8, <1>9, <1>13, <1>15, <1>16, <1>17, <1>18, <1>19, <1>20, <1>21,
     DispatchStep
=============================================================================
