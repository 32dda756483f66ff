----------------------------- MODULE CSPProofs -----------------------------
(***************************************************************************)
(* Proofs for CSP: every process is in one place, no wake-up is lost,      *)
(* every guard is tried and every stack that is loaded was saved, for any  *)
(* number of processes, channels and guards.                               *)
(***************************************************************************)
EXTENDS CSPCallProofs

(* A leaf is first-order reasoning unless it cites SMT. *)
USE ZenonT(40)

(* The running process c goes on at place, in or behind its SELECT; the    *)
(* other processes and their channels stay as they are.                    *)
Moves(c, place) ==
    /\ mode' = mode /\ Q' = Q /\ cp' = cp /\ cor' = cor /\ curproc' = curproc
    /\ saved' = saved /\ rch' = rch /\ father' = father /\ sons' = sons
    /\ owner' = owner /\ msgadr' = msgadr
    /\ sons[c] = 0 /\ place \in {"body", "select", "endselect"}
    /\ at' = [at EXCEPT ![c] = place]
    /\ \A r \in Process \ {c} :
          /\ guardindex'[r] = guardindex[r] /\ guardcount'[r] = guardcount[r]
          /\ guards'[r] = guards[r] /\ tried'[r] = tried[r]
          /\ opened'[r] = opened[r] /\ Opens(r)' = Opens(r) /\ (ListOK(r) => ListOK(r)')
    /\ \A d \in Channel : owner[d] # c => chindex'[d] = chindex[d]
    /\ opened'[c] \in Channel => ListOK(c)' /\ place \in {"select", "endselect"}
    /\ opened'[c] \notin Channel => Opens(c)' = {}
    /\ \A d \in Opens(c)' : Waiting[d] = {}
    /\ place # "body" => SelectsOK(c, c)'
    /\ place = "body" => tried'[c] = {} /\ guardindex'[c] <= 0

LEMMA MovesStep ==
    ASSUME CSPInv, mode = "run", NEW c, c = cp, NEW place, Moves(c, place), TypeInv'
    PROVE  CSPInv'
<1>1. /\ TypeInv /\ TypeOK /\ QOK(Q, Lines) /\ MessageOK(Waiting)
      /\ PlaceOK(Waiting, c) /\ FamilyOK(Waiting) /\ OpenOK(Waiting, c)
      /\ ReceiveOK(Waiting) /\ SelectOK(c) /\ StackOK
      /\ c \in Allocated /\ c \in Process
      /\ \A q \in Queues : Waiting[q] \subseteq Process /\ c \notin Waiting[q]
  BY RunFacts
<1>2. PICK B : B = Waiting
  OBVIOUS
<1>3. /\ mode' = mode /\ Q' = Q /\ cp' = cp /\ cor' = cor /\ curproc' = curproc
      /\ saved' = saved /\ rch' = rch /\ father' = father /\ sons' = sons
      /\ owner' = owner /\ msgadr' = msgadr
      /\ sons[c] = 0 /\ place \in {"body", "select", "endselect"}
      /\ at' = [at EXCEPT ![c] = place]
      /\ \A d \in Channel : owner[d] # c => chindex'[d] = chindex[d]
      /\ opened'[c] \in Channel => ListOK(c)' /\ place \in {"select", "endselect"}
      /\ opened'[c] \notin Channel => Opens(c)' = {}
      /\ \A d \in Opens(c)' : B[d] = {}
      /\ place # "body" => SelectsOK(c, c)'
      /\ place = "body" => tried'[c] = {} /\ guardindex'[c] <= 0
  BY <1>2 DEF Moves
<1>4. \A r \in Process \ {c} :
          /\ guardindex'[r] = guardindex[r] /\ guardcount'[r] = guardcount[r]
          /\ guards'[r] = guards[r] /\ tried'[r] = tried[r]
          /\ opened'[r] = opened[r] /\ Opens(r)' = Opens(r) /\ (ListOK(r) => ListOK(r)')
  BY DEF Moves
<1>5. at'[c] = place /\ \A r \in Process \ {c} : at'[r] = at[r]
  <2>1. at \in [Process -> Places]
    BY <1>1 DEF TypeOK
  <2>2. QED  BY <2>1, <1>1, <1>3
<1>6. Allocated' = Allocated /\ LiveIn(B)' = LiveIn(Waiting) /\ c \in LiveIn(Waiting)
  <2>1. Allocated' = Allocated
    BY <1>3 DEF Allocated
  <2>2. QED  BY <2>1, <1>1, <1>2, NamesFacts DEF LiveIn
<1>7. PlaceOK(B, c)'
  <2>1. \A q \in Queues : B[q] \subseteq Allocated \ {c}
    BY <1>1, <1>2 DEF PlaceOK
  <2>2. ASSUME NEW r \in Allocated, r # c
        PROVE  (\E q \in Queues : r \in B[q]) \/ sons[r] > 0 \/ opened'[r] \in Channel
    <3>1. (\E q \in Queues : r \in B[q]) \/ sons[r] > 0 \/ opened[r] \in Channel
      BY <2>2, <1>1, <1>2 DEF PlaceOK
    <3>2. r \in Process
      BY DEF Allocated
    <3>3. QED  BY <3>1, <3>2, <2>2, <1>4
  <2>3. ASSUME NEW q \in Queues, NEW r \in B[q]
        PROVE  sons[r] = 0 /\ opened'[r] \notin Channel
    <3>1. r # c /\ r \in Process /\ sons[r] = 0 /\ opened[r] \notin Channel
      BY <1>1, <1>2 DEF PlaceOK
    <3>2. QED  BY <3>1, <1>4
  <2>4. ASSUME NEW r \in Process, at'[r] # "body" PROVE r \in LiveIn(B)' /\ sons[r] = 0
    <3>1. CASE r = c
      BY <3>1, <1>3, <1>6
    <3>2. CASE r # c
      BY <3>2, <2>4, <1>1, <1>5, <1>6 DEF PlaceOK
    <3>3. QED  BY <3>1, <3>2
  <2>5. QED  BY <2>1, <2>2, <2>3, <2>4, <1>3, <1>6 DEF PlaceOK
<1>8. FamilyOK(B)' /\ MessageOK(B)'
  BY <1>1, <1>2, <1>3, <1>6, SameFamily DEF MessageOK
<1>9. OpenOK(B, c)'
  <2>1. ASSUME NEW d \in Channel, chindex'[d] # 0 PROVE owner'[d] \in Process /\ B[d] = {}
    <3>1. CASE owner[d] = c
      BY <3>1, <2>1, <1>1, <1>3 DEF Opens
    <3>2. CASE owner[d] # c
      BY <3>2, <2>1, <1>1, <1>2, <1>3 DEF OpenOK
    <3>3. QED  BY <3>1, <3>2
  <2>2. ASSUME NEW r \in Process, opened'[r] \notin Channel PROVE Opens(r)' = {}
    BY <2>2, <1>1, <1>3, <1>4 DEF OpenOK
  <2>3. ASSUME NEW r \in Process, opened'[r] \in Channel
        PROVE  /\ r = c => at'[r] \in {"select", "endselect"}
               /\ r # c => at'[r] \in {"receive", "select"}
    <3>1. CASE r = c
      BY <3>1, <2>3, <1>3, <1>5
    <3>2. CASE r # c
      BY <3>2, <2>3, <1>1, <1>4, <1>5 DEF OpenOK
    <3>3. QED  BY <3>1, <3>2
  <2>4. ASSUME NEW r \in Process, opened'[r] \in Channel PROVE ListOK(r)'
    <3>1. CASE r = c
      BY <3>1, <2>4, <1>3
    <3>2. CASE r # c
      BY <3>2, <2>4, <1>1, <1>4 DEF OpenOK
    <3>3. QED  BY <3>1, <3>2
  <2>5. QED  BY <2>1, <2>2, <2>3, <2>4 DEF OpenOK
<1>10. ReceiveOK(B)'
  <2> SUFFICES ASSUME NEW r \in Process, at'[r] = "receive"
               PROVE  /\ rch'[r] \in Channel /\ owner'[rch'[r]] = r
                      /\ guardindex'[r] <= 0
                      /\ opened'[r] \in Channel => Opens(r)' = {rch'[r]} /\ chindex'[rch'[r]] < 0
                      /\ opened'[r] \notin Channel => B[rch'[r]] # {}
    BY DEF ReceiveOK
  <2>1. r # c /\ at[r] = "receive"
    BY <1>3, <1>5
  <2>2. /\ rch[r] \in Channel /\ owner[rch[r]] = r /\ guardindex[r] <= 0
        /\ opened[r] \in Channel => Opens(r) = {rch[r]} /\ chindex[rch[r]] < 0
        /\ opened[r] \notin Channel => B[rch[r]] # {}
    BY <2>1, <1>1, <1>2 DEF ReceiveOK
  <2>3. chindex'[rch[r]] = chindex[rch[r]]
    BY <2>1, <2>2, <1>3
  <2>4. QED  BY <2>1, <2>2, <2>3, <1>3, <1>4
<1>11. SelectOK(c)'
  <2>1. ASSUME NEW r \in Process, InSelect(r)' PROVE SelectsOK(r, c)'
    <3>1. CASE r = c
      BY <3>1, <2>1, <1>3, <1>5 DEF InSelect
    <3>2. CASE r # c
      <4>1. InSelect(r) /\ at'[r] = at[r]
        BY <3>2, <2>1, <1>5 DEF InSelect
      <4>2. SelectsOK(r, c)
        BY <4>1, <1>1 DEF SelectOK
      <4>3. \A d \in Opens(r)' : d \in Opens(r) /\ chindex'[d] = chindex[d]
        BY <3>2, <1>3, <1>4 DEF Opens
      <4>4. Opens(r)' = Opens(r)
        BY <3>2, <1>4
      <4>5. QED  BY <3>2, <4>1, <4>2, <4>3, <4>4, <1>3, <1>4, SMTT(30) DEF SelectsOK
    <3>3. QED  BY <3>1, <3>2
  <2>2. ASSUME NEW r \in Process, ~InSelect(r)' PROVE tried'[r] = {}
    <3>1. CASE r = c
      BY <3>1, <2>2, <1>3, <1>5 DEF InSelect
    <3>2. CASE r # c
      BY <3>2, <2>2, <1>1, <1>4, <1>5 DEF SelectOK, InSelect
    <3>3. QED  BY <3>1, <3>2
  <2>3. ASSUME NEW r \in Process, at'[r] = "body" PROVE guardindex'[r] <= 0
    <3>1. CASE r = c
      BY <3>1, <2>3, <1>3, <1>5
    <3>2. CASE r # c
      BY <3>2, <2>3, <1>1, <1>4, <1>5 DEF SelectOK
    <3>3. QED  BY <3>1, <3>2
  <2>4. QED  BY <2>1, <2>2, <2>3 DEF SelectOK
<1>12. QED
  BY <1>2, <1>3, <1>7, <1>8, <1>9, <1>10, <1>11, QuietStep
-----------------------------------------------------------------------------
(* GUARD tries one more guard. *)
LEMMA TriesOne ==
    ASSUME NEW n \in Nat, NEW s \in 1..n, NEW g \in 1..n, NEW k \in Nat \ {0}, NEW T,
           TriedFrom(s, g, n, k, T)
    PROVE  T \cup {g} = 1..n \/ TriedFrom(s, g + 1, n, k - 1, T \cup {g})
<1>1. CASE s <= g /\ T = s..g - 1 /\ k = n - (g - s)
  <2>1. T \cup {g} = s..(g + 1) - 1
    BY <1>1, SMT
  <2>2. s <= g + 1 /\ k - 1 = n - ((g + 1) - s)
    BY <1>1, SMT
  <2>3. QED  BY <2>1, <2>2 DEF TriedFrom
<1>2. CASE g < s /\ T = (s..n) \cup (1..g - 1) /\ k = s - g
  <2>1. CASE g + 1 < s
    <3>1. T \cup {g} = (s..n) \cup (1..(g + 1) - 1)
      BY <1>2, SMT
    <3>2. k - 1 = s - (g + 1)
      BY <1>2, SMT
    <3>3. QED  BY <2>1, <3>1, <3>2 DEF TriedFrom
  <2>2. CASE g + 1 = s
    <3>1. T \cup {g} = 1..n
      BY <1>2, <2>2, SMT
    <3>2. QED  BY <3>1
  <2>3. QED  BY <1>2, <2>1, <2>2, SMT
<1>3. QED  BY <1>1, <1>2 DEF TriedFrom

(* ENDSELECT goes on to the next guard while one is left. *)
LEMMA NextToTry ==
    ASSUME NEW n \in Nat, NEW s \in 1..n, NEW g \in 1..n, NEW k \in Nat \ {0}, NEW T,
           TriedFrom(s, g + 1, n, k - 1, T), T # 1..n
    PROVE  k - 1 # 0 /\ TriedFrom(s, (g % n) + 1, n, k - 1, T)
<1>1. CASE s <= g + 1 /\ T = s..(g + 1) - 1 /\ k - 1 = n - ((g + 1) - s)
  <2>1. T = s..g
    BY <1>1, SMT
  <2>2. CASE g = n
    <3>1. s # 1
      BY <2>1, <2>2
    <3>2. g % n = 0
      BY <2>2, SMT
    <3>3. k - 1 = s - 1 /\ 1 < s
      BY <1>1, <2>2, <3>1, SMT
    <3>4. T = (s..n) \cup (1..1 - 1)
      BY <2>1, <2>2, SMT
    <3>5. TriedFrom(s, 1, n, k - 1, T)
      BY <3>3, <3>4 DEF TriedFrom
    <3>6. QED  BY <3>2, <3>3, <3>5, SMT
  <2>3. CASE g # n
    <3>1. g % n = g /\ g < n
      BY <2>3, SMT
    <3>2. k - 1 # 0
      BY <1>1, <3>1, SMT
    <3>3. QED  BY <3>1, <3>2
  <2>4. QED  BY <2>2, <2>3
<1>2. CASE g + 1 < s /\ T = (s..n) \cup (1..(g + 1) - 1) /\ k - 1 = s - (g + 1)
  <2>1. g % n = g
    BY <1>2, SMT
  <2>2. k - 1 # 0
    BY <1>2, SMT
  <2>3. QED  BY <2>1, <2>2
<1>3. QED  BY <1>1, <1>2 DEF TriedFrom

LEMMA SameLists ==
    ASSUME chindex' = chindex, owner' = owner, opened' = opened, chnext' = chnext
    PROVE  \A r : Opens(r)' = Opens(r) /\ (ListOK(r) => ListOK(r)')
<1> SUFFICES ASSUME NEW r PROVE Opens(r)' = Opens(r) /\ (ListOK(r) => ListOK(r)')
  OBVIOUS
<1>1. Opens(r)' = Opens(r)
  BY DEF Opens
<1>2. ListOf(r)' = ListOf(r)
  BY DEF ListOf
<1>3. QED  BY <1>1, <1>2 DEF ListOK

LEMMA SELECTStep ==
    ASSUME CSPInv, NEW gs \in GuardTables(cp), SELECT(gs)
    PROVE  CSPInv'
<1>0. PICK c : c = cp
  OBVIOUS
<1>1. /\ mode = "run" /\ at[c] = "body" /\ sons[c] = 0
      /\ guards' = [guards EXCEPT ![c] = gs]
      /\ guardcount' = [guardcount EXCEPT ![c] = Len(gs)]
      /\ at' = [at EXCEPT ![c] = "select"]
      /\ cp' = cp /\ Q' = Q /\ cor' = cor /\ rch' = rch /\ mode' = mode /\ father' = father
      /\ sons' = sons /\ opened' = opened /\ tried' = tried /\ owner' = owner
      /\ made' = made /\ chindex' = chindex /\ chnext' = chnext /\ msgadr' = msgadr
      /\ curproc' = curproc /\ saved' = saved
  BY <1>0 DEF SELECT, Calls, GuardCount, chanVars, coroutineVars
<1>2. PICK k \in 1..Len(gs) : guardindex' = [guardindex EXCEPT ![c] = k]
  BY <1>0 DEF SELECT
<1>3. /\ TypeInv /\ TypeOK /\ OpenOK(Waiting, c) /\ SelectOK(c) /\ c \in Process
  BY <1>0, <1>1, RunFacts
<1>4. PICK n \in 1..MaxGuards : gs \in [1..n -> {ch \in Channel : owner[ch] = c} \cup {NIL}]
  BY <1>0 DEF GuardTables
<1>5. /\ gs \in Seq(Channel \cup {NIL}) /\ Len(gs) = n
      /\ \A i \in 1..n : gs[i] \in Channel \cup {NIL} /\ (gs[i] \in Channel => owner[gs[i]] = c)
  <2>1. n \in Nat
    BY CSPAssumption, SMT
  <2>2. gs \in [1..n -> Channel \cup {NIL}]
    BY <1>4
  <2>3. gs \in Seq(Channel \cup {NIL}) /\ Len(gs) = n
    BY <2>1, <2>2, SMT
  <2>4. QED  BY <2>3, <1>4, NamesFacts
<1>6. opened[c] \notin Channel /\ Opens(c) = {} /\ tried[c] = {}
  BY <1>1, <1>3 DEF OpenOK, SelectOK, InSelect
<1>7. /\ n \in 0..CardSize - 1 /\ n \in Nat /\ k \in -1..MaxGuards /\ k \in 1..n /\ n <= MaxGuards
  BY <1>5, CSPAssumption, SMT
<1>8. /\ guards \in [Process -> Seq(Channel \cup {NIL})] /\ at \in [Process -> Places]
      /\ guardindex \in [Process -> -1..MaxGuards] /\ guardcount \in [Process -> 0..CardSize - 1]
  BY <1>3 DEF TypeInv, TypeOK
<1>9. /\ guards'[c] = gs /\ guardcount'[c] = n /\ guardindex'[c] = k /\ at'[c] = "select"
      /\ \A r \in Process \ {c} : /\ guards'[r] = guards[r] /\ guardcount'[r] = guardcount[r]
                                  /\ guardindex'[r] = guardindex[r]
  BY <1>1, <1>2, <1>3, <1>5, <1>8
<1>10. TypeInv'
  <2>1. /\ guards' \in [Process -> Seq(Channel \cup {NIL})] /\ at' \in [Process -> Places]
        /\ guardindex' \in [Process -> -1..MaxGuards]
        /\ guardcount' \in [Process -> 0..CardSize - 1]
    BY <1>1, <1>2, <1>5, <1>7, <1>8 DEF Places
  <2>2. ASSUME NEW r \in Process
        PROVE  /\ Len(guards'[r]) <= MaxGuards
               /\ \A i \in 1..Len(guards'[r]) : guards'[r][i] \in Channel \cup {NIL}
    <3>1. CASE r = c
      BY <3>1, <1>5, <1>7, <1>9
    <3>2. CASE r # c
      BY <3>2, <1>3, <1>9 DEF TypeOK
    <3>3. QED  BY <3>1, <3>2
  <2>3. QED  BY <2>1, <2>2, <1>1, <1>3 DEF TypeInv, TypeOK, CoroutineTypeOK
<1>11. \A r : Opens(r)' = Opens(r) /\ (ListOK(r) => ListOK(r)')
  BY <1>1, SameLists
<1>12. SelectsOK(c, c)'
  <2>1. TriedFrom(k, k, n, n, {})
    <3>1. k..k - 1 = {} /\ n = n - (k - k) /\ k <= k
      BY <1>7, SMT
    <3>2. QED  BY <3>1 DEF TriedFrom
  <2>2. Opens(c)' = {} /\ tried'[c] = {} /\ k # 0 /\ n > 0 /\ owner' = owner
    BY <1>1, <1>6, <1>7, <1>11, SMT
  <2>3. QED
    BY <2>1, <2>2, <1>5, <1>7, <1>9, SMTT(30) DEF SelectsOK
<1>13. Moves(c, "select")
  BY <1>1, <1>6, <1>9, <1>11, <1>12 DEF Moves
<1>14. QED  BY <1>0, <1>1, <1>10, <1>13, MovesStep

(* What GoOn changes, for c that runs. *)
LEMMA GoOnFacts ==
    ASSUME TypeInv, NEW c \in Process, c = cp, NEW place \in {"body", "select", "endselect"},
           NEW k \in -1..MaxGuards, GoOn(place, k),
           place = "endselect" => guardindex[c] \in 1..MaxGuards
    PROVE  /\ at' = [at EXCEPT ![c] = place] /\ guardindex'[c] = k
           /\ place = "body" => guards'[c] = <<>> /\ tried'[c] = {}
           /\ place # "body" => guards'[c] = guards[c] /\ tried'[c] = tried[c] \cup {guardindex[c]}
           /\ \A r \in Process \ {c} : /\ guardindex'[r] = guardindex[r]
                                       /\ guards'[r] = guards[r] /\ tried'[r] = tried[r]
           /\ cp' = cp /\ Q' = Q /\ cor' = cor /\ rch' = rch /\ mode' = mode
           /\ father' = father /\ sons' = sons /\ guardcount' = guardcount
           /\ owner' = owner /\ made' = made /\ msgadr' = msgadr
           /\ curproc' = curproc /\ saved' = saved
           /\ at' \in [Process -> Places] /\ guardindex' \in [Process -> -1..MaxGuards]
           /\ guards' \in [Process -> Seq(Channel \cup {NIL})]
           /\ place # "select" => tried' \in [Process -> SUBSET (1..MaxGuards)]
           /\ \A r \in Process :
                 /\ Len(guards'[r]) <= MaxGuards
                 /\ \A i \in 1..Len(guards'[r]) : guards'[r][i] \in Channel \cup {NIL}
<1>1. /\ at' = [at EXCEPT ![c] = place] /\ guardindex' = [guardindex EXCEPT ![c] = k]
      /\ guards' = [guards EXCEPT ![c] = IF place = "body" THEN <<>> ELSE guards[c]]
      /\ tried' = [tried EXCEPT ![c] = IF place = "body" THEN {}
                                       ELSE tried[c] \cup {guardindex[c]}]
      /\ cp' = cp /\ Q' = Q /\ cor' = cor /\ rch' = rch /\ mode' = mode
      /\ father' = father /\ sons' = sons /\ guardcount' = guardcount
      /\ owner' = owner /\ made' = made /\ msgadr' = msgadr
      /\ curproc' = curproc /\ saved' = saved
  <2>1. place \in {"body", "guard"} <=> place = "body"
    OBVIOUS
  <2>2. QED  BY <2>1 DEF GoOn, LeaveSelect, coroutineVars
<1>2. /\ guards \in [Process -> Seq(Channel \cup {NIL})] /\ at \in [Process -> Places]
      /\ guardindex \in [Process -> -1..MaxGuards]
      /\ tried \in [Process -> SUBSET (1..MaxGuards)]
  BY DEF TypeInv, TypeOK
<1>3. /\ guardindex'[c] = k
      /\ place = "body" => guards'[c] = <<>> /\ tried'[c] = {}
      /\ place # "body" => guards'[c] = guards[c] /\ tried'[c] = tried[c] \cup {guardindex[c]}
  BY <1>1, <1>2
<1>4. \A r \in Process \ {c} : /\ guardindex'[r] = guardindex[r]
                               /\ guards'[r] = guards[r] /\ tried'[r] = tried[r]
  BY <1>1, <1>2
<1>5. at' \in [Process -> Places] /\ guardindex' \in [Process -> -1..MaxGuards]
  BY <1>1, <1>2 DEF Places
<1>6. guards' \in [Process -> Seq(Channel \cup {NIL})]
  <2>1. <<>> \in Seq(Channel \cup {NIL})
    BY SMT
  <2>2. QED  BY <2>1, <1>1, <1>2
<1>7. place # "select" => tried' \in [Process -> SUBSET (1..MaxGuards)]
  <2>1. CASE place = "body"
    BY <2>1, <1>1, <1>2
  <2>2. CASE place = "endselect"
    <3>1. tried[c] \cup {guardindex[c]} \in SUBSET (1..MaxGuards)
      BY <2>2, <1>2
    <3>2. QED  BY <2>2, <3>1, <1>1, <1>2
  <2>3. QED  BY <2>1, <2>2
<1>8. ASSUME NEW r \in Process
      PROVE  /\ Len(guards'[r]) <= MaxGuards
             /\ \A i \in 1..Len(guards'[r]) : guards'[r][i] \in Channel \cup {NIL}
  <2>1. CASE guards'[r] = <<>>
    <3>1. Len(<<>>) = 0
      OBVIOUS
    <3>2. QED  BY <2>1, <3>1, CSPAssumption, SMT
  <2>2. CASE guards'[r] = guards[r]
    BY <2>2 DEF TypeInv, TypeOK
  <2>3. QED  BY <2>1, <2>2, <1>3, <1>4
<1>9. QED  BY <1>1, <1>3, <1>4, <1>5, <1>6, <1>7, <1>8

(* A process leaves its SELECT for its own code, with no channel open.     *)
LEMMA LeavesStep ==
    ASSUME CSPInv, mode = "run", GoOn("body", 0), NEW c, c = cp, sons[c] = 0,
           opened' \in [Process -> Channel \cup {NIL, WILD}],
           chindex' \in [Channel -> -1..MaxGuards], chnext' \in [Channel -> Channel \cup {NIL}],
           opened'[c] \notin Channel, Opens(c)' = {},
           \A r \in Process \ {c} :
              opened'[r] = opened[r] /\ Opens(r)' = Opens(r) /\ (ListOK(r) => ListOK(r)'),
           \A d \in Channel : owner[d] # c => chindex'[d] = chindex[d]
    PROVE  CSPInv'
<1>1. TypeInv /\ TypeOK /\ c \in Process
  BY RunFacts
<1>2. /\ at' = [at EXCEPT ![c] = "body"] /\ guardindex'[c] = 0
      /\ guards'[c] = <<>> /\ tried'[c] = {}
      /\ \A r \in Process \ {c} : /\ guardindex'[r] = guardindex[r]
                                  /\ guards'[r] = guards[r] /\ tried'[r] = tried[r]
      /\ cp' = cp /\ Q' = Q /\ cor' = cor /\ rch' = rch /\ mode' = mode
      /\ father' = father /\ sons' = sons /\ guardcount' = guardcount
      /\ owner' = owner /\ made' = made /\ msgadr' = msgadr
      /\ curproc' = curproc /\ saved' = saved
      /\ at' \in [Process -> Places] /\ guardindex' \in [Process -> -1..MaxGuards]
      /\ guards' \in [Process -> Seq(Channel \cup {NIL})]
      /\ tried' \in [Process -> SUBSET (1..MaxGuards)]
      /\ \A r \in Process :
            /\ Len(guards'[r]) <= MaxGuards
            /\ \A i \in 1..Len(guards'[r]) : guards'[r][i] \in Channel \cup {NIL}
  <2>1. 0 \in -1..MaxGuards
    BY CSPAssumption, SMT
  <2>2. QED  BY <2>1, <1>1, GoOnFacts
<1>3. TypeInv'
  BY <1>1, <1>2 DEF TypeInv, TypeOK, CoroutineTypeOK
<1>4. Moves(c, "body")
  BY <1>2, SMT DEF Moves
<1>5. QED  BY <1>3, <1>4, MovesStep

LEMMA NoGuardStep == CSPInv /\ (NoGuard \/ GUARDRest) => CSPInv'
<1> SUFFICES ASSUME CSPInv, NoGuard \/ GUARDRest PROVE CSPInv'
  OBVIOUS
<1>0. PICK c : c = cp
  OBVIOUS
<1>1. /\ mode = "run" /\ GoOn("body", 0) /\ opened' = opened /\ chindex' = chindex
      /\ chnext' = chnext /\ at[c] \in {"select", "guard"}
      /\ at[c] = "select" => guardindex[c] = 0
  BY <1>0 DEF NoGuard, GUARDRest
<1>2. /\ TypeOK /\ OpenOK(Waiting, c) /\ SelectOK(c) /\ PlaceOK(Waiting, c) /\ c \in Process
  BY <1>0, <1>1, RunFacts
<1>3. opened[c] \notin Channel /\ Opens(c) = {} /\ sons[c] = 0
  <2>1. sons[c] = 0
    BY <1>1, <1>2 DEF PlaceOK
  <2>2. opened[c] \notin Channel => Opens(c) = {}
    BY <1>2 DEF OpenOK
  <2>3. CASE at[c] = "guard"
    BY <2>1, <2>2, <2>3, <1>2 DEF OpenOK
  <2>4. CASE at[c] = "select"
    <3>1. Opens(c) = {}
      <4>1. SelectsOK(c, c)
        BY <2>4, <1>2 DEF SelectOK, InSelect
      <4>2. QED  BY <2>4, <4>1, <1>1 DEF SelectsOK
    <3>2. opened[c] \in Channel => opened[c] \in Opens(c)
      <4> SUFFICES ASSUME opened[c] \in Channel PROVE opened[c] \in Opens(c)
        OBVIOUS
      <4>1. PICK s : s = ListOf(c)
        OBVIOUS
      <4>2. IsPath(s, opened[c], chnext, NIL) /\ Opens(c) = {s[i] : i \in 1..Len(s)}
        BY <4>1, <1>2, SMT DEF OpenOK, ListOK
      <4>3. s \in Seq(DOMAIN chnext) /\ opened[c] = IF Len(s) = 0 THEN NIL ELSE s[1]
        BY <4>2 DEF IsPath
      <4>4. Len(s) \in Nat /\ Len(s) # 0 /\ opened[c] = s[1]
        BY <4>3, NamesFacts, SMT
      <4>5. 1 \in 1..Len(s)
        BY <4>4, SMT
      <4>6. QED  BY <4>2, <4>4, <4>5
    <3>3. QED  BY <3>1, <3>2, <2>1
  <2>5. QED  BY <1>1, <2>3, <2>4
<1>4. owner' = owner
  BY <1>1 DEF GoOn
<1>5. \A r : Opens(r)' = Opens(r) /\ (ListOK(r) => ListOK(r)')
  BY <1>1, <1>4, SameLists
<1>6. /\ opened' \in [Process -> Channel \cup {NIL, WILD}]
      /\ chindex' \in [Channel -> -1..MaxGuards] /\ chnext' \in [Channel -> Channel \cup {NIL}]
  BY <1>1, <1>2 DEF TypeOK
<1>7. /\ opened'[c] \notin Channel /\ Opens(c)' = {}
      /\ \A r \in Process \ {c} :
            opened'[r] = opened[r] /\ Opens(r)' = Opens(r) /\ (ListOK(r) => ListOK(r)')
      /\ \A d \in Channel : owner[d] # c => chindex'[d] = chindex[d]
  BY <1>1, <1>3, <1>5
<1>8. QED  BY <1>0, <1>1, <1>3, <1>6, <1>7, LeavesStep

(* What the invariant says of a process that evaluates a guard.            *)
LEMMA SelectFacts ==
    ASSUME CSPInv, mode = "run", NEW c, c = cp, InSelect(c)
    PROVE  /\ SelectsOK(c, c) /\ sons[c] = 0 /\ guards[c] \in Seq(Channel \cup {NIL})
           /\ Len(guards[c]) \in 1..MaxGuards /\ guardindex[c] \in 0..Len(guards[c])
           /\ \A i \in 1..Len(guards[c]) : guards[c][i] \in Channel \cup {NIL}
           /\ \A i \in 1..Len(guards[c]) : guards[c][i] \in Channel => owner[guards[c][i]] = c
           /\ \A d \in Opens(c) : chindex[d] \in 1..Len(guards[c]) /\ Waiting[d] = {}
           /\ opened[c] \in Channel => ListOK(c)
           /\ opened[c] \notin Channel => Opens(c) = {}
<1>1. /\ TypeInv /\ TypeOK /\ OpenOK(Waiting, c) /\ SelectOK(c) /\ PlaceOK(Waiting, c)
      /\ c \in Process
  BY RunFacts
<1>2. SelectsOK(c, c)
  BY <1>1 DEF SelectOK
<1>3. sons[c] = 0
  BY <1>1 DEF PlaceOK, InSelect
<1>4. guards[c] \in Seq(Channel \cup {NIL})
  BY <1>1 DEF TypeInv
<1>5. \A i \in 1..Len(guards[c]) : guards[c][i] \in Channel \cup {NIL}
  BY <1>1 DEF TypeOK
<1>6. /\ Len(guards[c]) \in 1..MaxGuards /\ guardindex[c] \in 0..Len(guards[c])
      /\ \A i \in 1..Len(guards[c]) : guards[c][i] \in Channel => owner[guards[c][i]] = c
      /\ \A d \in Opens(c) : chindex[d] \in 1..Len(guards[c])
  BY <1>2 DEF SelectsOK
<1>7. \A d \in Opens(c) : Waiting[d] = {}
  BY <1>1 DEF OpenOK, Opens
<1>8. /\ opened[c] \in Channel => ListOK(c)
      /\ opened[c] \notin Channel => Opens(c) = {}
  BY <1>1 DEF OpenOK
<1>9. QED  BY <1>2, <1>3, <1>4, <1>5, <1>6, <1>7, <1>8

(* GUARD is false, for the time being: the guard counts as tried.          *)
LEMMA GuardFailsStep ==
    ASSUME CSPInv, mode = "run", NEW c, c = cp, at[c] = "select", guardindex[c] # 0,
           GoOn("endselect", guardindex[c]),
           opened' \in [Process -> Channel \cup {NIL, WILD}],
           chindex' \in [Channel -> -1..MaxGuards], chnext' \in [Channel -> Channel \cup {NIL}],
           opened'[c] \in Channel => ListOK(c)', opened'[c] \notin Channel => Opens(c)' = {},
           \A d \in Opens(c)' : Waiting[d] = {} /\ chindex'[d] \in 1..Len(guards[c]),
           \A r \in Process \ {c} :
              opened'[r] = opened[r] /\ Opens(r)' = Opens(r) /\ (ListOK(r) => ListOK(r)'),
           \A d \in Channel : owner[d] # c => chindex'[d] = chindex[d]
    PROVE  CSPInv'
<1>1. TypeInv /\ TypeOK /\ c \in Process
  BY RunFacts
<1>2. PICK g, n : g = guardindex[c] /\ n = Len(guards[c])
  OBVIOUS
<1>3. /\ SelectsOK(c, c) /\ sons[c] = 0 /\ n \in 1..MaxGuards /\ g \in 1..n /\ n \in Nat
      /\ g \in -1..MaxGuards /\ g \in 1..MaxGuards
      /\ \A i \in 1..n : guards[c][i] \in Channel => owner[guards[c][i]] = c
  <2>1. InSelect(c)
    BY DEF InSelect
  <2>2. /\ SelectsOK(c, c) /\ sons[c] = 0 /\ n \in 1..MaxGuards /\ g \in 0..n
        /\ \A i \in 1..n : guards[c][i] \in Channel => owner[guards[c][i]] = c
    BY <2>1, <1>2, SelectFacts
  <2>3. QED  BY <2>2, <1>2, CSPAssumption, SMT
<1>4. /\ at' = [at EXCEPT ![c] = "endselect"] /\ guardindex'[c] = g
      /\ guards'[c] = guards[c] /\ tried'[c] = tried[c] \cup {g}
      /\ \A r \in Process \ {c} : /\ guardindex'[r] = guardindex[r]
                                  /\ guards'[r] = guards[r] /\ tried'[r] = tried[r]
      /\ cp' = cp /\ Q' = Q /\ cor' = cor /\ rch' = rch /\ mode' = mode
      /\ father' = father /\ sons' = sons /\ guardcount' = guardcount
      /\ owner' = owner /\ made' = made /\ msgadr' = msgadr
      /\ curproc' = curproc /\ saved' = saved
      /\ at' \in [Process -> Places] /\ guardindex' \in [Process -> -1..MaxGuards]
      /\ guards' \in [Process -> Seq(Channel \cup {NIL})]
      /\ tried' \in [Process -> SUBSET (1..MaxGuards)]
      /\ \A r \in Process :
            /\ Len(guards'[r]) <= MaxGuards
            /\ \A i \in 1..Len(guards'[r]) : guards'[r][i] \in Channel \cup {NIL}
  BY <1>1, <1>2, <1>3, GoOnFacts
<1>5. TypeInv'
  BY <1>1, <1>4 DEF TypeInv, TypeOK, CoroutineTypeOK
<1>6. at'[c] = "endselect"
  BY <1>1, <1>4 DEF TypeOK
<1>7. SelectsOK(c, c)'
  <2>1. \/ tried'[c] = 1..n
        \/ /\ guardcount[c] > 0
           /\ \E s \in 1..n : TriedFrom(s, g + 1, n, guardcount[c] - 1, tried'[c])
    <3>1. CASE tried[c] = 1..n
      <4>1. tried'[c] = 1..n
        BY <3>1, <1>3, <1>4
      <4>2. QED  BY <4>1
    <3>2. CASE tried[c] # 1..n
      <4>1. /\ guardcount[c] > 0
            /\ \E s \in 1..n : TriedFrom(s, g, n, guardcount[c], tried[c])
        BY <3>2, <1>2, <1>3 DEF SelectsOK
      <4>2. PICK s \in 1..n : TriedFrom(s, g, n, guardcount[c], tried[c])
        BY <4>1
      <4>3. guardcount[c] \in Nat \ {0}
        BY <4>1, <1>1, CSPAssumption, SMTT(30) DEF TypeOK
      <4>4. \/ tried[c] \cup {g} = 1..n
            \/ TriedFrom(s, g + 1, n, guardcount[c] - 1, tried[c] \cup {g})
        BY <4>2, <4>3, <1>3, TriesOne
      <4>5. QED  BY <4>1, <4>4, <1>4
    <3>3. QED  BY <3>1, <3>2
  <2>2. \A d \in Opens(c)' : chindex'[d] \in 1..n
    BY <1>2
  <2>3. g \in 0..n /\ g # 0
    BY <1>3, SMT
  <2>4. Len(guards'[c]) = n /\ guardindex'[c] = g /\ guardcount'[c] = guardcount[c]
    BY <1>2, <1>4
  <2>5. \A i \in 1..n : guards'[c][i] \in Channel => owner'[guards'[c][i]] = c
    BY <1>3, <1>4, SMT
  <2>6. QED  BY <2>1, <2>2, <2>3, <2>4, <2>5, <1>3, <1>6 DEF SelectsOK
<1>8. \A d \in Opens(c)' : Waiting[d] = {}
  OBVIOUS
<1>9. Moves(c, "endselect")
  BY <1>3, <1>4, <1>7, <1>8 DEF Moves
<1>10. QED  BY <1>5, <1>9, MovesStep

LEMMA GUARDStep ==
    ASSUME CSPInv, NEW cond \in BOOLEAN, GUARD(cond)
    PROVE  CSPInv'
<1>0. PICK c, g, ch : c = cp /\ g = guardindex[c] /\ ch = guards[c][g]
  OBVIOUS
<1>1. /\ mode = "run" /\ at[c] = "select" /\ g # 0
      /\ \/ GoOn("endselect", g) /\ opened' = opened /\ chindex' = chindex /\ chnext' = chnext
         \/ Stops("wild")
         \/ opened[c] # WILD /\ ch = NIL /\ GoOn("body", 0) /\ CloseChannels(c)
         \/ opened[c] # WILD /\ ch # NIL /\ Sending(ch) /\ ReceiveNow(ch, "guard")
         \/ /\ opened[c] # WILD /\ ch # NIL /\ ~Sending(ch)
            /\ GoOn("endselect", g) /\ OpenChannel(ch, g)
  BY <1>0 DEF GUARD, Unassigned
<1>2. TypeInv /\ TypeOK /\ OpenOK(Waiting, c) /\ QOK(Q, Lines) /\ c \in Process
  BY <1>0, <1>1, RunFacts
<1>3. /\ SelectsOK(c, c) /\ sons[c] = 0
      /\ Len(guards[c]) \in 1..MaxGuards /\ g \in 1..Len(guards[c]) /\ g \in -1..MaxGuards
      /\ ch \in Channel \cup {NIL} /\ (ch \in Channel => owner[ch] = c)
      /\ \A d \in Opens(c) : chindex[d] \in 1..Len(guards[c]) /\ Waiting[d] = {}
      /\ opened[c] \in Channel => ListOK(c)
      /\ opened[c] \notin Channel => Opens(c) = {}
  <2>1. InSelect(c)
    BY <1>1 DEF InSelect
  <2>2. /\ SelectsOK(c, c) /\ sons[c] = 0
        /\ Len(guards[c]) \in 1..MaxGuards /\ guardindex[c] \in 0..Len(guards[c])
        /\ \A i \in 1..Len(guards[c]) : guards[c][i] \in Channel \cup {NIL}
        /\ \A i \in 1..Len(guards[c]) : guards[c][i] \in Channel => owner[guards[c][i]] = c
        /\ \A d \in Opens(c) : chindex[d] \in 1..Len(guards[c]) /\ Waiting[d] = {}
        /\ opened[c] \in Channel => ListOK(c)
        /\ opened[c] \notin Channel => Opens(c) = {}
    BY <2>1, <1>0, <1>1, SelectFacts
  <2>3. g \in 1..Len(guards[c]) /\ g \in -1..MaxGuards
    BY <2>2, <1>0, <1>1, CSPAssumption, SMTT(30)
  <2>4. QED  BY <2>2, <2>3, <1>0
<1>4. /\ opened \in [Process -> Channel \cup {NIL, WILD}]
      /\ chindex \in [Channel -> -1..MaxGuards] /\ chnext \in [Channel -> Channel \cup {NIL}]
  BY <1>2 DEF TypeOK
<1>5. CASE GoOn("endselect", g) /\ opened' = opened /\ chindex' = chindex /\ chnext' = chnext
  <2>1. owner' = owner
    BY <1>5 DEF GoOn
  <2>2. \A r : Opens(r)' = Opens(r) /\ (ListOK(r) => ListOK(r)')
    BY <2>1, <1>5, SameLists
  <2>3. /\ opened'[c] \in Channel => ListOK(c)'
        /\ opened'[c] \notin Channel => Opens(c)' = {}
        /\ \A d \in Opens(c)' : Waiting[d] = {} /\ chindex'[d] \in 1..Len(guards[c])
        /\ \A r \in Process \ {c} :
              opened'[r] = opened[r] /\ Opens(r)' = Opens(r) /\ (ListOK(r) => ListOK(r)')
        /\ \A d \in Channel : owner[d] # c => chindex'[d] = chindex[d]
    BY <2>2, <1>3, <1>5
  <2>4. /\ opened' \in [Process -> Channel \cup {NIL, WILD}]
        /\ chindex' \in [Channel -> -1..MaxGuards] /\ chnext' \in [Channel -> Channel \cup {NIL}]
    BY <1>4, <1>5
  <2>5. GoOn("endselect", guardindex[c]) /\ guardindex[c] # 0
    BY <1>0, <1>1, <1>5
  <2>6. QED  BY <2>3, <2>4, <2>5, <1>0, <1>1, GuardFailsStep
<1>6. CASE Stops("wild")
  <2>1. "wild" \in Modes \ {"run", "halt"}
    BY DEF Modes
  <2>2. QED  BY <2>1, <1>6, StopsStep
<1>7. CASE opened[c] # WILD /\ ch = NIL /\ GoOn("body", 0) /\ CloseChannels(c)
  <2>1. owner' = owner
    BY <1>7 DEF GoOn
  <2>2. /\ chindex' \in [Channel -> -1..MaxGuards]
        /\ \A d \in Channel : chindex'[d] = IF d \in Opens(c) THEN 0 ELSE chindex[d]
        /\ opened' = [opened EXCEPT ![c] = NIL] /\ chnext' = chnext
        /\ Opens(c)' = {} /\ \A r \in Process \ {c} : Opens(r)' = Opens(r)
        /\ \A r \in Process \ {c} : ListOK(r) => ListOK(r)'
    BY <2>1, <1>2, <1>7, CloseFacts
  <2>3. /\ opened' \in [Process -> Channel \cup {NIL, WILD}]
        /\ opened'[c] \notin Channel /\ \A r \in Process \ {c} : opened'[r] = opened[r]
    BY <2>2, <1>2, <1>4, NamesFacts
  <2>4. chnext' \in [Channel -> Channel \cup {NIL}]
    BY <2>2, <1>4
  <2>5. \A d \in Channel : owner[d] # c => chindex'[d] = chindex[d]
    BY <2>2 DEF Opens
  <2>6. \A r \in Process \ {c} :
           opened'[r] = opened[r] /\ Opens(r)' = Opens(r) /\ (ListOK(r) => ListOK(r)')
    BY <2>2, <2>3
  <2>7. /\ chindex' \in [Channel -> -1..MaxGuards] /\ Opens(c)' = {}
    BY <2>2
  <2>8. QED  BY <2>3, <2>4, <2>5, <2>6, <2>7, <1>0, <1>1, <1>3, <1>7, LeavesStep
<1>8. CASE opened[c] # WILD /\ ch # NIL /\ Sending(ch) /\ ReceiveNow(ch, "guard")
  <2>1. /\ ch \in Channel /\ owner[ch] = cp /\ sons[cp] = 0 /\ opened[cp] # WILD
        /\ Sending(ch) /\ ReceiveNow(ch, "guard") /\ mode = "run"
    BY <1>0, <1>1, <1>3, <1>8
  <2>2. QED  BY <2>1, ReceiveNowStep
<1>9. CASE /\ opened[c] # WILD /\ ch # NIL /\ ~Sending(ch)
           /\ GoOn("endselect", g) /\ OpenChannel(ch, g)
  <2>1. owner' = owner /\ ch \in Channel /\ owner[ch] = c
    BY <1>3, <1>9 DEF GoOn
  <2>2. GoOn("endselect", guardindex[c]) /\ guardindex[c] # 0
    BY <1>0, <1>1, <1>9
  <2>3. CASE chindex[ch] # 0
    <3>1. opened' = opened /\ chindex' = chindex /\ chnext' = chnext
      BY <2>3, <1>9 DEF OpenChannel
    <3>2. QED  BY <3>1, <1>5, <1>9
  <2>4. CASE chindex[ch] = 0
    <3>1. /\ chindex' \in [Channel -> -1..MaxGuards]
          /\ chindex'[ch] = g /\ \A d \in Channel \ {ch} : chindex'[d] = chindex[d]
          /\ chnext' \in [Channel -> Channel \cup {NIL}]
          /\ opened' \in [Process -> Channel \cup {NIL, WILD}]
          /\ opened'[c] = ch /\ \A r \in Process \ {c} : opened'[r] = opened[r]
          /\ Opens(c)' = Opens(c) \cup {ch} /\ ListOK(c)'
          /\ \A r \in Process \ {c} : Opens(r)' = Opens(r)
          /\ \A r \in Process \ {c} : ListOK(r) => ListOK(r)'
      BY <2>1, <2>4, <1>0, <1>1, <1>2, <1>3, <1>9, OpenFacts, SMTT(30)
    <3>2. Waiting[ch] = {}
      <4>1. /\ ch \in Queues /\ Q.head[ch] = NIL
        BY <2>1, <1>9, NamesFacts DEF Sending
      <4>2. Chain(ch) = <<>>
        BY <4>1 DEF Chain
      <4>3. Len(Lines[ch]) = 0
        BY <4>1, <4>2 DEF Lines
      <4>4. QED  BY <4>1, <4>3, SMTT(30) DEF Waiting, Members
    <3>3. \A d \in Opens(c)' : Waiting[d] = {} /\ chindex'[d] \in 1..Len(guards[c])
      <4> SUFFICES ASSUME NEW d \in Opens(c)'
                   PROVE  Waiting[d] = {} /\ chindex'[d] \in 1..Len(guards[c])
        OBVIOUS
      <4>1. d = ch \/ (d # ch /\ d \in Opens(c) /\ d \in Channel)
        BY <3>1 DEF Opens
      <4>2. QED  BY <4>1, <3>1, <3>2, <1>3
    <3>4. \A d \in Channel : owner[d] # c => chindex'[d] = chindex[d]
      BY <3>1, <2>1
    <3>5. /\ opened'[c] \in Channel => ListOK(c)'
          /\ opened'[c] \notin Channel => Opens(c)' = {}
          /\ \A r \in Process \ {c} :
                opened'[r] = opened[r] /\ Opens(r)' = Opens(r) /\ (ListOK(r) => ListOK(r)')
      BY <3>1, <2>1
    <3>6. /\ opened' \in [Process -> Channel \cup {NIL, WILD}]
          /\ chindex' \in [Channel -> -1..MaxGuards]
          /\ chnext' \in [Channel -> Channel \cup {NIL}]
      BY <3>1
    <3>7. QED  BY <3>3, <3>4, <3>5, <3>6, <2>2, <1>0, <1>1, GuardFailsStep, SMTT(30)
  <2>5. QED  BY <2>3, <2>4
<1>10. QED  BY <1>1, <1>5, <1>6, <1>7, <1>8, <1>9

LEMMA CountsDown ==
    ASSUME NEW k \in 0..CardSize - 1, NEW count, count = (k + CardSize - 1) % CardSize
    PROVE  count \in 0..CardSize - 1 /\ (k > 0 => count = k - 1)
<1>1. CardSize \in Nat /\ CardSize > 0 /\ k \in Nat /\ k < CardSize
  BY CSPAssumption, SMT
<1>2. CASE k = 0
  <2>1. k + CardSize - 1 = CardSize - 1 /\ CardSize - 1 \in 0..CardSize - 1
    BY <1>1, <1>2, SMT
  <2>2. (CardSize - 1) % CardSize = CardSize - 1
    BY <1>1, SMT
  <2>3. QED  BY <2>1, <2>2, <1>2, SMT
<1>3. CASE k > 0
  <2>1. k - 1 \in 0..CardSize - 1 /\ k + CardSize - 1 = (k - 1) + CardSize
    BY <1>1, <1>3, SMT
  <2>2. ((k - 1) + CardSize) % CardSize = k - 1
    BY <1>1, <2>1, SMT
  <2>3. QED  BY <2>1, <2>2, SMT
<1>4. QED  BY <1>1, <1>2, <1>3, SMT

(* What the invariant says of a process at ENDSELECT, whose count becomes  *)
(* count: it may only be 0 when every guard was tried.                     *)
LEMMA EndFacts ==
    ASSUME CSPInv, mode = "run", NEW c, c = cp, at[c] = "endselect",
           NEW count, count = (guardcount[c] + CardSize - 1) % CardSize
    PROVE  /\ count \in 0..CardSize - 1
           /\ guardindex[c] \in 1..Len(guards[c])
           /\ NextGuard(c) \in 1..Len(guards[c])
           /\ \/ tried[c] = 1..Len(guards[c])
              \/ /\ count > 0
                 /\ \E s \in 1..Len(guards[c]) :
                       TriedFrom(s, NextGuard(c), Len(guards[c]), count, tried[c])
<1>1. PICK g, n, k, T : g = guardindex[c] /\ n = Len(guards[c]) /\ k = guardcount[c] /\ T = tried[c]
  OBVIOUS
<1>2. InSelect(c) /\ TypeOK /\ c \in Process
  BY RunFacts DEF InSelect
<1>3. SelectsOK(c, c)
  BY <1>2, SelectFacts
<1>4. /\ n \in 1..MaxGuards /\ g \in 0..n /\ g # 0
      /\ T = 1..n \/ (k > 0 /\ \E s \in 1..n : TriedFrom(s, g + 1, n, k - 1, T))
  BY <1>1, <1>3 DEF SelectsOK
<1>5. k \in 0..CardSize - 1
  BY <1>1, <1>2 DEF TypeOK
<1>6. count \in 0..CardSize - 1 /\ (k > 0 => count = k - 1)
  BY <1>1, <1>5, CountsDown
<1>7. n \in Nat /\ n > 0 /\ g \in 1..n
  BY <1>4, CSPAssumption, SMT
<1>8. (g % n) + 1 \in 1..n
  BY <1>7, SMT
<1>9. CASE T # 1..n
  <2>1. k > 0 /\ \E s \in 1..n : TriedFrom(s, g + 1, n, k - 1, T)
    BY <1>4, <1>9
  <2>2. PICK s \in 1..n : TriedFrom(s, g + 1, n, k - 1, T)
    BY <2>1
  <2>3. k \in Nat \ {0}
    BY <2>1, <1>5, CSPAssumption, SMT
  <2>4. k - 1 # 0 /\ TriedFrom(s, (g % n) + 1, n, k - 1, T)
    BY <2>2, <2>3, <1>7, <1>9, NextToTry
  <2>5. count = k - 1 /\ count > 0
    BY <2>1, <2>3, <2>4, <1>6, SMT
  <2>6. QED  BY <2>4, <2>5, <1>1, <1>6, <1>7, <1>8 DEF NextGuard
<1>10. QED  BY <1>1, <1>6, <1>7, <1>8, <1>9 DEF NextGuard

LEMMA EndGoesOnStep ==
    ASSUME CSPInv, mode = "run", NEW c, c = cp, at[c] = "endselect",
           NEW count, count = (guardcount[c] + CardSize - 1) % CardSize,
           count = 0 => opened[c] = NIL,
           guardcount' = [guardcount EXCEPT ![c] = count],
           at' = [at EXCEPT ![c] = "select"],
           guardindex' = [guardindex EXCEPT ![c] = IF count # 0 THEN NextGuard(c) ELSE 0],
           UNCHANGED <<cp, Q, cor, mode, coroutineVars, father, sons, opened, guards, tried,
                       rch, chanVars, msgadr>>
    PROVE  CSPInv'
<1>1. /\ cp' = cp /\ Q' = Q /\ cor' = cor /\ mode' = mode /\ curproc' = curproc
      /\ saved' = saved /\ father' = father /\ sons' = sons /\ opened' = opened
      /\ guards' = guards /\ tried' = tried /\ rch' = rch /\ owner' = owner
      /\ made' = made /\ chindex' = chindex /\ chnext' = chnext /\ msgadr' = msgadr
  BY DEF coroutineVars, chanVars
<1>2. TypeInv /\ TypeOK /\ OpenOK(Waiting, c) /\ c \in Process
  BY RunFacts
<1>3. PICK n, g : n = Len(guards[c]) /\ g = IF count # 0 THEN NextGuard(c) ELSE 0
  OBVIOUS
<1>4. /\ count \in 0..CardSize - 1 /\ NextGuard(c) \in 1..n
      /\ \/ tried[c] = 1..n
         \/ count > 0 /\ \E s \in 1..n : TriedFrom(s, NextGuard(c), n, count, tried[c])
  BY <1>3, EndFacts
<1>5. /\ SelectsOK(c, c) /\ sons[c] = 0 /\ n \in 1..MaxGuards
      /\ \A i \in 1..n : guards[c][i] \in Channel => owner[guards[c][i]] = c
      /\ \A d \in Opens(c) : chindex[d] \in 1..n /\ Waiting[d] = {}
      /\ opened[c] \in Channel => ListOK(c)
      /\ opened[c] \notin Channel => Opens(c) = {}
  BY <1>3, SelectFacts DEF InSelect
<1>6. g \in 0..n /\ g \in -1..MaxGuards /\ (g # 0 <=> count # 0)
  BY <1>3, <1>4, <1>5, CSPAssumption, SMT
<1>7. /\ guardcount'[c] = count /\ at'[c] = "select" /\ guardindex'[c] = g
      /\ \A r \in Process \ {c} : guardindex'[r] = guardindex[r] /\ guardcount'[r] = guardcount[r]
  BY <1>2, <1>3 DEF TypeOK
<1>8. TypeInv'
  <2>1. /\ guardcount' \in [Process -> 0..CardSize - 1]
        /\ guardindex' \in [Process -> -1..MaxGuards] /\ at' \in [Process -> Places]
    BY <1>2, <1>3, <1>4, <1>6 DEF TypeOK, Places
  <2>2. QED  BY <2>1, <1>1, <1>2 DEF TypeInv, TypeOK, CoroutineTypeOK
<1>9. \A r : Opens(r)' = Opens(r) /\ (ListOK(r) => ListOK(r)')
  BY <1>1, SameLists
<1>10. SelectsOK(c, c)'
  <2>1. Opens(c)' = Opens(c)
    BY <1>9
  <2>2. g = 0 => Opens(c)' = {}
    BY <2>1, <1>5, <1>6, NamesFacts
  <2>3. \/ tried'[c] = 1..n
        \/ g # 0 /\ count > 0 /\ \E s \in 1..n : TriedFrom(s, g, n, count, tried'[c])
    <3>1. count > 0 => count # 0
      BY <1>4, SMT
    <3>2. count # 0 => g # 0 /\ g = NextGuard(c)
      BY <1>3, <1>6
    <3>3. QED  BY <3>1, <3>2, <1>1, <1>4
  <2>4. \A d \in Opens(c)' : chindex'[d] \in 1..n
    BY <2>1, <1>1, <1>5
  <2>5. \A i \in 1..n : guards'[c][i] \in Channel => owner'[guards'[c][i]] = c
    BY <1>1, <1>5
  <2>6. Len(guards'[c]) = n
    BY <1>1, <1>3
  <2>7. \/ tried'[c] = 1..n
        \/ /\ c = c /\ guardindex'[c] # 0 /\ guardcount'[c] > 0
           /\ at'[c] = "select" =>
                 \E s \in 1..n : TriedFrom(s, guardindex'[c], n, guardcount'[c], tried'[c])
           /\ at'[c] = "endselect" =>
                 \E s \in 1..n :
                    TriedFrom(s, guardindex'[c] + 1, n, guardcount'[c] - 1, tried'[c])
    BY <2>3, <1>7
  <2>8. QED  BY <2>2, <2>4, <2>5, <2>6, <2>7, <1>5, <1>6, <1>7, SMTT(30) DEF SelectsOK
<1>11. Moves(c, "select")
  BY <1>1, <1>5, <1>7, <1>9, <1>10 DEF Moves
<1>12. QED  BY <1>8, <1>11, MovesStep

(* ENDSELECT waits with its channels open: every guard was tried.          *)
LEMMA EndWaitsStep ==
    ASSUME CSPInv, mode = "run", NEW c, c = cp, at[c] = "endselect",
           (guardcount[c] + CardSize - 1) % CardSize = 0,
           opened[c] \notin {NIL, WILD}, DoTransfer(Q),
           guardcount' = [guardcount EXCEPT ![c] = 0],
           at' = [at EXCEPT ![c] = "select"], guardindex' = guardindex,
           UNCHANGED <<father, sons, opened, guards, tried, rch, chanVars, msgadr>>
    PROVE  CSPInv'
<1>1. /\ father' = father /\ sons' = sons /\ opened' = opened
      /\ guards' = guards /\ tried' = tried /\ rch' = rch /\ owner' = owner
      /\ made' = made /\ chindex' = chindex /\ chnext' = chnext /\ msgadr' = msgadr
  BY DEF chanVars
<1>2. /\ TypeInv /\ TypeOK /\ QOK(Q, Lines) /\ MessageOK(Waiting)
      /\ PlaceOK(Waiting, c) /\ FamilyOK(Waiting) /\ OpenOK(Waiting, c)
      /\ ReceiveOK(Waiting) /\ SelectOK(c) /\ StackOK
      /\ c \in Allocated /\ c \in Process
  BY RunFacts
<1>3. 0 \in 0..CardSize - 1 /\ tried[c] = 1..Len(guards[c])
  <2>1. PICK count : count = (guardcount[c] + CardSize - 1) % CardSize
    OBVIOUS
  <2>2. /\ count \in 0..CardSize - 1
        /\ tried[c] = 1..Len(guards[c]) \/ count > 0
    BY <2>1, EndFacts
  <2>3. ~(0 > 0)
    BY SMT
  <2>4. QED  BY <2>1, <2>2, <2>3
<1>4. opened[c] \in Channel /\ sons[c] = 0
  BY <1>2 DEF TypeOK, PlaceOK
<1>5. at'[c] = "select" /\ \A r \in Process \ {c} : at'[r] = at[r] /\ guardcount'[r] = guardcount[r]
  BY <1>2 DEF TypeOK
<1>6. Allocated' = Allocated /\ TypeInv'
  <2>1. guardcount' \in [Process -> 0..CardSize - 1] /\ at' \in [Process -> Places]
    BY <1>2, <1>3 DEF TypeOK, Places
  <2>2. QED  BY <2>1, <1>1, <1>2, TransferTypes DEF TypeInv, TypeOK
<1>7. PICK C, B : C = Lines /\ B = Waiting
  OBVIOUS
<1>8. \A r : Opens(r)' = Opens(r) /\ (ListOK(r) => ListOK(r)')
  BY <1>1, SameLists
<1>9. PlaceOK(B, NIL)'
  <2>1. /\ \A q \in Queues : B[q] \subseteq Allocated \ {NIL}
        /\ \A p \in Allocated \ {NIL} :
              (\E q \in Queues : p \in B[q]) \/ sons[p] > 0 \/ opened[p] \in Channel
        /\ \A q \in Queues : \A p \in B[q] : sons[p] = 0 /\ opened[p] \notin Channel
    <3>1. NIL \notin Allocated
      BY NamesFacts DEF Allocated
    <3>2. /\ \A q \in Queues : B[q] \subseteq Allocated
          /\ \A q \in Queues : \A p \in B[q] : sons[p] = 0 /\ opened[p] \notin Channel
          /\ \A p \in Allocated \ {c} :
                (\E q \in Queues : p \in B[q]) \/ sons[p] > 0 \/ opened[p] \in Channel
      BY <1>2, <1>7 DEF PlaceOK
    <3>3. QED  BY <3>1, <3>2, <1>4
  <2>2. \A p \in Process : at'[p] # "body" => p \in LiveIn(B) /\ sons[p] = 0
    BY <1>2, <1>5, <1>7 DEF PlaceOK
  <2>3. QED  BY <2>1, <2>2, <1>1, <1>6 DEF PlaceOK, LiveIn
<1>10. FamilyOK(B)'
  BY <1>1, <1>2, <1>6, <1>7, SameFamily
<1>11. OpenOK(B, NIL)'
  <2>1. \A p \in Process : opened'[p] \in Channel =>
           /\ ListOK(p)'
           /\ p = NIL => at'[p] \in {"select", "endselect"}
           /\ p # NIL => at'[p] \in {"receive", "select"}
    BY <1>1, <1>2, <1>5, <1>8, NamesFacts DEF OpenOK
  <2>2. /\ \A ch \in Channel : chindex'[ch] # 0 => owner'[ch] \in Process /\ B[ch] = {}
        /\ \A p \in Process : opened'[p] \notin Channel => Opens(p)' = {}
    BY <1>1, <1>2, <1>7, <1>8 DEF OpenOK
  <2>3. QED  BY <2>1, <2>2 DEF OpenOK
<1>12. ReceiveOK(B)'
  <2>1. \A p \in Process : at'[p] = "receive" => at[p] = "receive"
    BY <1>5
  <2>2. QED  BY <2>1, <1>1, <1>2, <1>7, <1>8 DEF ReceiveOK
<1>13. SelectOK(NIL)'
  <2>1. ASSUME NEW p \in Process, InSelect(p)' PROVE SelectsOK(p, NIL)'
    <3>1. InSelect(p)
      BY <2>1, <1>5 DEF InSelect
    <3>2. SelectsOK(p, c)
      BY <3>1, <1>2 DEF SelectOK
    <3>3. tried[p] = 1..Len(guards[p]) /\ at'[p] # "endselect"
      BY <3>2, <1>3, <1>5 DEF SelectsOK
    <3>4. QED  BY <3>2, <3>3, <1>1, <1>8 DEF SelectsOK
  <2>2. \A p \in Process : ~InSelect(p)' => tried'[p] = {}
    BY <1>1, <1>2, <1>5 DEF SelectOK, InSelect
  <2>3. \A p \in Process : at'[p] = "body" => guardindex'[p] <= 0
    BY <1>2, <1>5 DEF SelectOK
  <2>4. QED  BY <2>1, <2>2, <2>3 DEF SelectOK
<1>14. MessageOK(B)'
  BY <1>1, <1>2, <1>7 DEF MessageOK
<1>15. QOK(Q, C) /\ B = Members(C) /\ Waiting[FREE] \subseteq B[FREE]
  BY <1>2, <1>7 DEF Waiting
<1>16. QED
  BY <1>2, <1>6, <1>9, <1>10, <1>11, <1>12, <1>13, <1>14, <1>15, DispatchStep

LEMMA ENDSELECTStep == CSPInv /\ ENDSELECT => CSPInv'
<1> SUFFICES ASSUME CSPInv, ENDSELECT PROVE CSPInv'
  OBVIOUS
<1>0. PICK c, count : c = cp /\ count = (guardcount[c] + CardSize - 1) % CardSize
  OBVIOUS
<1>1. /\ mode = "run" /\ at[c] = "endselect"
      /\ \/ Stops("wild")
         \/ /\ ~(count = 0 /\ opened[c] = WILD)
            /\ guardcount' = [guardcount EXCEPT ![c] = count]
            /\ at' = [at EXCEPT ![c] = "select"]
            /\ \/ count = 0 /\ opened[c] # NIL /\ DoTransfer(Q) /\ guardindex' = guardindex
               \/ /\ ~(count = 0 /\ opened[c] # NIL)
                  /\ guardindex' = [guardindex EXCEPT ![c] =
                                      IF count # 0 THEN NextGuard(c) ELSE 0]
                  /\ UNCHANGED <<cp, Q, cor, mode, coroutineVars>>
            /\ UNCHANGED <<father, sons, opened, guards, tried, rch, chanVars, msgadr>>
  BY <1>0 DEF ENDSELECT, Unassigned, MustWait
<1>2. CASE Stops("wild")
  BY <1>2, StopsStep DEF Modes
<1>3. CASE /\ count = 0 /\ opened[c] \notin {NIL, WILD} /\ DoTransfer(Q)
           /\ guardcount' = [guardcount EXCEPT ![c] = count]
           /\ at' = [at EXCEPT ![c] = "select"] /\ guardindex' = guardindex
           /\ UNCHANGED <<father, sons, opened, guards, tried, rch, chanVars, msgadr>>
  BY <1>0, <1>1, <1>3, EndWaitsStep
<1>4. CASE /\ count = 0 => opened[c] = NIL
           /\ guardcount' = [guardcount EXCEPT ![c] = count]
           /\ at' = [at EXCEPT ![c] = "select"]
           /\ guardindex' = [guardindex EXCEPT ![c] = IF count # 0 THEN NextGuard(c) ELSE 0]
           /\ UNCHANGED <<cp, Q, cor, mode, coroutineVars>>
           /\ UNCHANGED <<father, sons, opened, guards, tried, rch, chanVars, msgadr>>
  BY <1>0, <1>1, <1>4, EndGoesOnStep
<1>5. QED  BY <1>1, <1>2, <1>3, <1>4

LEMMA StutterStep == CSPInv /\ UNCHANGED vars => CSPInv'
<1> SUFFICES ASSUME CSPInv, UNCHANGED vars PROVE CSPInv'
  OBVIOUS
<1>1. /\ cp' = cp /\ Q' = Q /\ cor' = cor /\ mode' = mode /\ curproc' = curproc
      /\ saved' = saved /\ father' = father /\ sons' = sons /\ opened' = opened
      /\ guards' = guards /\ tried' = tried /\ rch' = rch /\ owner' = owner
      /\ made' = made /\ chindex' = chindex /\ chnext' = chnext /\ msgadr' = msgadr
      /\ at' = at /\ guardindex' = guardindex /\ guardcount' = guardcount
  BY DEF vars, descVars, chanVars, coroutineVars
<1>2. /\ Lines' = Lines /\ Waiting' = Waiting /\ Allocated' = Allocated
      /\ Running' = Running /\ Going' = Going
  BY <1>1 DEF Lines, Waiting, Chain, Members, Allocated, Running, Going
<1>3. PICK B, c : B = Waiting /\ c = cp
  OBVIOUS
<1>4. TypeInv' /\ QOK(Q', Lines')
  <2>1. TypeInv /\ QOK(Q, Lines)
    BY DEF CSPInv
  <2>2. QED  BY <2>1, <1>1, <1>2 DEF TypeInv, TypeOK, CoroutineTypeOK
<1>5. MessageOK(Waiting)'
  BY <1>1, <1>2 DEF CSPInv, MessageOK
<1>6. ASSUME Going PROVE PlaceOK(B, c)' /\ FamilyOK(B)' /\ OpenOK(B, c)' /\ ReceiveOK(B)'
                         /\ SelectOK(c)'
  <2>1. PlaceOK(B, c) /\ FamilyOK(B) /\ OpenOK(B, c) /\ ReceiveOK(B) /\ SelectOK(c)
    BY <1>3, <1>6 DEF CSPInv
  <2>2. QED
    BY <2>1, <1>1, <1>2, SamePlace, SameFamily, SameOpen, SameReceive, SameSelect
<1>7. ASSUME Going PROVE /\ PlaceOK(Waiting, cp)' /\ FamilyOK(Waiting)'
                         /\ OpenOK(Waiting, cp)' /\ ReceiveOK(Waiting)' /\ SelectOK(cp)'
  <2>1. Waiting' = B /\ cp' = c
    BY <1>1, <1>2, <1>3
  <2>2. PlaceOK(Waiting, cp)' /\ FamilyOK(Waiting)'
    BY <2>1, <1>6, <1>7 DEF PlaceOK, FamilyOK, LiveIn, SonsIn
  <2>3. OpenOK(Waiting, cp)' /\ ReceiveOK(Waiting)'
    BY <2>1, <1>6, <1>7 DEF OpenOK, ReceiveOK
  <2>4. SelectOK(cp)'
    BY <2>1, <1>6, <1>7 DEF SelectOK, SelectsOK
  <2>5. QED  BY <2>2, <2>3, <2>4
<1>8. mode' = "run" => cp' \in Allocated' /\ StackOK'
  BY <1>1, <1>2 DEF CSPInv, StackOK, LiveIn
<1>9. mode' = "halt" => cp' = NIL
  BY <1>1 DEF CSPInv
<1>10. QED  BY <1>2, <1>4, <1>5, <1>7, <1>8, <1>9 DEF CSPInv

(* Every call of the module keeps the invariant. *)
LEMMA NextCSPInv == CSPInv /\ [Next]_vars => CSPInv'
<1> SUFFICES ASSUME CSPInv, [Next]_vars PROVE CSPInv'
  OBVIOUS
<1>1. CASE COEND
  BY <1>1, COENDStep
<1>2. CASE \E p \in Process : StartProcess(p)
  BY <1>2, StartProcessStep
<1>3. CASE StopProcess
  BY <1>3, StopProcessStep
<1>4. ASSUME NEW ch \in Channel, InitChannel(ch) \/ GetChannel(ch) PROVE CSPInv'
  BY <1>4, ChannelStep
<1>5. ASSUME NEW ch \in Channel, Send(ch) PROVE CSPInv'
  BY <1>5, SendClosedStep, SendOpenStep
<1>6. ASSUME NEW ch \in Channel, Receive(ch) PROVE CSPInv'
  BY <1>6, ReceiveStep
<1>7. CASE ReceiveRest
  BY <1>7, ReceiveRestStep
<1>8. CASE \E gs \in GuardTables(cp) : SELECT(gs)
  BY <1>8, SELECTStep
<1>9. CASE \E cond \in BOOLEAN : GUARD(cond)
  BY <1>9, GUARDStep
<1>10. CASE NoGuard \/ GUARDRest
  BY <1>10, NoGuardStep
<1>11. CASE ENDSELECT
  BY <1>11, ENDSELECTStep
<1>12. CASE Exit
  BY <1>12, ExitStep
<1>13. CASE UNCHANGED vars
  BY <1>13, StutterStep
<1>14. QED
  BY <1>1, <1>2, <1>3, <1>4, <1>5, <1>6, <1>7, <1>8, <1>9, <1>10, <1>11, <1>12, <1>13
  DEF Next

(***************************************************************************)
(* Whatever the processes of a program call, and in whatever order, the    *)
(* queues of CSP.mod are well linked, fathers count their sons, a channel  *)
(* is open exactly when it is in the list of its owner, and the guards of  *)
(* a SELECT are tried in turn.                                             *)
(***************************************************************************)
THEOREM CSPInvariant == Spec => []CSPInv
<1>1. Init => CSPInv
  BY InitCSPInv
<1>2. CSPInv /\ [Next]_vars => CSPInv'
  BY NextCSPInv
<1>3. QED  BY <1>1, <1>2, PTL DEF Spec
-----------------------------------------------------------------------------
LEMMA InWaiting ==
    ASSUME NEW p, NEW q \in Queues
    PROVE  In(p, q) <=> p \in Waiting[q]
<1>1. Lines[q] = Chain(q)
  BY DEF Lines
<1>2. Waiting[q] = {Lines[q][k] : k \in 1..Len(Lines[q])}
  BY DEF Waiting, Members
<1>3. QED  BY <1>1, <1>2 DEF In

LEMMA LiveIs == Live = LiveIn(Waiting)
  BY InWaiting, NamesFacts DEF Live, LiveIn

LEMMA SendingIs ==
    ASSUME CSPInv, NEW ch \in Channel
    PROVE  Sending(ch) <=> Waiting[ch] # {}
<1>1. QOK(Q, Lines) /\ ch \in Queues
  BY NamesFacts DEF CSPInv
<1>2. QED  BY <1>1, MemberFacts DEF Sending, Waiting

LEMMA ChainInOrder ==
    ASSUME CSPInv, NEW q \in Queues, NEW c, c = Chain(q)
    PROVE  /\ Q.head[q] = NIL <=> Q.tail[q] = NIL
           /\ Q.head[q] # NIL => c[Len(c)] = Q.head[q] /\ Q.next[Q.head[q]] = NIL
           /\ \A j, k \in 1..Len(c) : c[j] = c[k] => j = k
<1>1. QOK(Q, Lines) /\ c = Lines[q]
  BY DEF CSPInv, Lines
<1>2. /\ c \in Seq(Process) /\ Len(c) \in Nat
      /\ \A i \in 1..Len(c) : c[i] \in Process
      /\ IsPath(c, Q.tail[q], Q.next, NIL)
      /\ Q.head[q] = IF Len(c) = 0 THEN NIL ELSE c[Len(c)]
      /\ \A j, k \in 1..Len(c) : c[j] = c[k] => j = k
  <2>1. PICK C : C = Lines
    OBVIOUS
  <2>2. QOK(Q, C) /\ c = C[q]
    BY <1>1, <2>1
  <2>3. /\ C[q] \in Seq(Process) /\ Len(C[q]) \in Nat
        /\ \A i \in 1..Len(C[q]) : C[q][i] \in Process
        /\ IsPath(C[q], Q.tail[q], Q.next, NIL)
        /\ Q.head[q] = IF Len(C[q]) = 0 THEN NIL ELSE C[q][Len(C[q])]
        /\ \A i, j \in 1..Len(C[q]) : C[q][i] = C[q][j] => i = j
    BY <2>2, QueueFacts, SMTT(30)
  <2>4. QED  BY <2>2, <2>3
<1>3. \A j, k \in 1..Len(c) : c[j] = c[k] => j = k
  BY <1>2
<1>4. Q.head[q] = NIL <=> Q.tail[q] = NIL
  <2>1. (Q.head[q] = NIL <=> Members(Lines)[q] = {}) /\ (Q.tail[q] = NIL <=> Members(Lines)[q] = {})
    BY <1>1, MemberFacts
  <2>2. QED  BY <2>1
<1>5. ASSUME Q.head[q] # NIL PROVE c[Len(c)] = Q.head[q] /\ Q.next[Q.head[q]] = NIL
  <2>1. Len(c) # 0 /\ Q.head[q] = c[Len(c)]
    BY <1>2, <1>5
  <2>2. Len(c) \in 1..Len(c)
    BY <1>2, <2>1, SMT
  <2>3. \A i \in 1..Len(c) : Q.next[c[i]] = IF i = Len(c) THEN NIL ELSE c[i + 1]
    BY <1>2 DEF IsPath
  <2>4. QED  BY <2>1, <2>2, <2>3
<1>6. QED  BY <1>3, <1>4, <1>5

(* The places of a process, as OnePlace counts them. *)
PlacesOf(p) ==
    {q \in Queues : In(p, q)} \cup {w \in {"runs"} : p = cp}
        \cup {w \in {"joins"} : Joining(p)} \cup {w \in {"offers"} : Offering(p)}

LEMMA OneOfPlaces ==
    ASSUME CSPInv, Going, NEW p \in Allocated
    PROVE  Cardinality(PlacesOf(p)) = 1
<1>1. /\ PlaceOK(Waiting, cp) /\ OpenOK(Waiting, cp) /\ QOK(Q, Lines) /\ p \in Process
      /\ TypeOK
  BY DEF CSPInv, Allocated, TypeInv
<1>2. \A q, r \in Queues : q # r => Waiting[q] \cap Waiting[r] = {}
  BY <1>1, MemberFacts DEF Waiting
<1>3. PICK I : I = {q \in Queues : In(p, q)}
  OBVIOUS
<1>4. I = {q \in Queues : p \in Waiting[q]}
  BY <1>3, InWaiting
<1>5. \E x : PlacesOf(p) = {x}
  <2>1. CASE p = cp
    <3>1. I = {} /\ ~Joining(p) /\ ~Offering(p)
      BY <2>1, <1>1, <1>4 DEF PlaceOK, Joining, Offering
    <3>2. PlacesOf(p) = {"runs"}
      BY <2>1, <3>1, <1>3 DEF PlacesOf
    <3>3. QED  BY <3>2
  <2>2. CASE p # cp /\ \E q \in Queues : p \in Waiting[q]
    <3>1. PICK q \in Queues : p \in Waiting[q]
      BY <2>2
    <3>2. sons[p] = 0 /\ opened[p] \notin Channel
      BY <3>1, <1>1 DEF PlaceOK
    <3>3. ~Joining(p) /\ ~Offering(p)
      BY <3>2, SMT DEF Joining, Offering
    <3>4. I = {q}
      BY <3>1, <1>2, <1>4
    <3>5. PlacesOf(p) = {q}
      BY <2>2, <3>3, <3>4, <1>3 DEF PlacesOf
    <3>6. QED  BY <3>5
  <2>3. CASE p # cp /\ ~\E q \in Queues : p \in Waiting[q]
    <3>1. I = {}
      BY <2>3, <1>4
    <3>2. sons[p] > 0 \/ opened[p] \in Channel
      BY <2>3, <1>1 DEF PlaceOK
    <3>3. opened[p] \in Channel => sons[p] = 0
      BY <2>3, <1>1 DEF PlaceOK, OpenOK
    <3>4. CASE opened[p] \in Channel
      <4>1. Offering(p) /\ ~Joining(p)
        BY <2>3, <3>3, <3>4, SMT DEF Joining, Offering
      <4>2. PlacesOf(p) = {"offers"}
        BY <2>3, <3>1, <4>1, <1>3 DEF PlacesOf
      <4>3. QED  BY <4>2
    <3>5. CASE opened[p] \notin Channel
      <4>1. ~Offering(p) /\ Joining(p)
        BY <2>3, <3>2, <3>5 DEF Joining, Offering
      <4>2. PlacesOf(p) = {"joins"}
        BY <2>3, <3>1, <4>1, <1>3 DEF PlacesOf
      <4>3. QED  BY <4>2
    <3>6. QED  BY <3>4, <3>5
  <2>4. QED  BY <2>1, <2>2, <2>3
<1>6. QED  BY <1>5, FS_Singleton

(***************************************************************************)
(* Every process is in exactly one place: it runs, it is in one queue of   *)
(* CSP.mod, once, it waits in COEND for its sons, or in Receive or SELECT  *)
(* for a message; and every queue ends at its head.                        *)
(***************************************************************************)
THEOREM OnePlaceHolds == Spec => []OnePlace
<1>1. ASSUME CSPInv PROVE OnePlace
  <2>1. TypeOK
    BY <1>1 DEF CSPInv, TypeInv
  <2>2. Going => \A p \in Allocated : Cardinality(PlacesOf(p)) = 1
    BY <1>1, OneOfPlaces
  <2>3. \A q \in Queues : LET c == Chain(q) IN
          /\ Q.head[q] = NIL <=> Q.tail[q] = NIL
          /\ Q.head[q] # NIL => c[Len(c)] = Q.head[q] /\ Q.next[Q.head[q]] = NIL
          /\ \A j, k \in 1..Len(c) : c[j] = c[k] => j = k
    BY <1>1, ChainInOrder
  <2>4. QED  BY <2>1, <2>2, <2>3 DEF OnePlace, PlacesOf
<1>2. QED  BY <1>1, CSPInvariant, PTL

LEMMA OpenIsListed ==
    ASSUME CSPInv, Going
    PROVE  \A ch \in Channel : chindex[ch] # 0 =>
              owner[ch] # NIL /\ ch \in OpenList(opened[owner[ch]])
<1> SUFFICES ASSUME NEW ch \in Channel, chindex[ch] # 0
             PROVE  owner[ch] # NIL /\ ch \in OpenList(opened[owner[ch]])
  OBVIOUS
<1>1. TypeOK /\ OpenOK(Waiting, cp)
  BY DEF CSPInv, TypeInv
<1>2. owner[ch] \in Process /\ ch \in Opens(owner[ch])
  BY <1>1 DEF OpenOK, Opens
<1>3. opened[owner[ch]] \in Channel
  BY <1>1, <1>2 DEF OpenOK
<1>4. OpenList(opened[owner[ch]]) = Opens(owner[ch])
  BY <1>1, <1>2, <1>3, NamesFacts, OpenListIs
<1>5. QED  BY <1>2, <1>4, NamesFacts

(***************************************************************************)
(* No wake-up is lost: a channel is open exactly when it is in the list of *)
(* its owner, then nobody is sending to it and its owner waits or is still *)
(* in the SELECT; and when the rest of Receive runs, the message that made *)
(* the receiver ready is there.                                            *)
(***************************************************************************)
THEOREM NoLostWakeupHolds == Spec => []NoLostWakeup
<1>1. ASSUME CSPInv PROVE NoLostWakeup
  <2>1. \A ch \in Channel : LET c == Chain(ch) IN
           \A k \in 1..Len(c) : msgadr[c[k]] = c[k]
    <3>1. ASSUME NEW ch \in Channel, NEW c, c = Chain(ch), NEW k \in 1..Len(c)
          PROVE  msgadr[c[k]] = c[k]
      <4>1. In(c[k], ch)
        BY <3>1 DEF In
      <4>2. c[k] \in Waiting[ch]
        BY <4>1, InWaiting, NamesFacts
      <4>3. QED  BY <4>2, <1>1 DEF CSPInv, MessageOK
    <3>2. QED  BY <3>1
  <2>2. ASSUME Going, NEW p \in Live, at[p] = "receive", ~Offering(p)
        PROVE  Sending(rch[p])
    <3>1. p \in Process /\ ReceiveOK(Waiting) /\ OpenOK(Waiting, cp)
      BY <1>1, <2>2 DEF CSPInv, Live, Allocated
    <3>2. opened[p] \notin Channel
      BY <2>2, <3>1 DEF OpenOK, Offering
    <3>3. rch[p] \in Channel /\ Waiting[rch[p]] # {}
      BY <2>2, <3>1, <3>2 DEF ReceiveOK
    <3>4. QED  BY <3>3, <1>1, SendingIs
  <2>3. ASSUME Going, NEW ch \in Channel, chindex[ch] # 0
        PROVE  ~Sending(ch) /\ owner[ch] # NIL /\ ch \in OpenList(opened[owner[ch]])
    <3>1. Waiting[ch] = {}
      BY <1>1, <2>3 DEF CSPInv, OpenOK
    <3>2. QED  BY <3>1, <1>1, <2>3, SendingIs, OpenIsListed
  <2>4. ASSUME Going, NEW p \in Live, opened[p] \in Channel
        PROVE  /\ \A ch \in OpenList(opened[p]) : chindex[ch] # 0 /\ owner[ch] = p
               /\ p = cp => at[p] \in {"select", "endselect"}
    <3>1. p \in Process /\ TypeOK /\ OpenOK(Waiting, cp)
      BY <1>1, <2>4 DEF CSPInv, TypeInv, Live, Allocated
    <3>2. OpenList(opened[p]) = Opens(p)
      BY <2>4, <3>1, NamesFacts, OpenListIs
    <3>3. QED  BY <2>4, <3>1, <3>2 DEF OpenOK, Opens
  <2>5. QED  BY <2>1, <2>2, <2>3, <2>4 DEF NoLostWakeup, MessageThere
<1>2. QED  BY <1>1, CSPInvariant, PTL

(***************************************************************************)
(* A process waits in ENDSELECT, or leaves its SELECT because no guard     *)
(* held, only after it evaluated every guard, although the count wraps     *)
(* round when it is decremented at 0; and guardindex says that no SELECT   *)
(* is going on while a process runs outside one.                           *)
(***************************************************************************)
THEOREM TriesEveryGuardHolds == Spec => []TriesEveryGuard
<1>1. ASSUME CSPInv PROVE TriesEveryGuard
  <2>1. ASSUME Going, NEW p \in Live
        PROVE  /\ at[p] = "select" /\ (guardindex[p] = 0 \/ p # cp)
                     => tried[p] = 1..Len(guards[p])
               /\ at[p] = "body" => guardindex[p] <= 0
    <3>1. p \in Process /\ SelectOK(cp)
      BY <1>1, <2>1 DEF CSPInv, Live, Allocated
    <3>2. at[p] = "select" => SelectsOK(p, cp)
      BY <3>1 DEF SelectOK, InSelect
    <3>3. QED  BY <3>1, <3>2 DEF SelectOK, SelectsOK
  <2>2. QED  BY <2>1 DEF TriesEveryGuard
<1>2. QED  BY <1>1, CSPInvariant, PTL

(***************************************************************************)
(* The process that runs is the coroutine that runs, and every other       *)
(* process that has not stopped has its stack saved in its own workspace,  *)
(* where the TRANSFER of DoTransfer will find it.                          *)
(***************************************************************************)
THEOREM ResumesSavedStackHolds == Spec => []ResumesSavedStack
<1>1. ASSUME CSPInv PROVE ResumesSavedStack
  BY <1>1, LiveIs DEF CSPInv, StackOK, ResumesSavedStack, CanTransfer
<1>2. QED  BY <1>1, CSPInvariant, PTL
=============================================================================
