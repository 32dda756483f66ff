--------------------------- MODULE CSPCallProofs ----------------------------
(***************************************************************************)
(* Proofs for CSP, second part: StopProcess, StartProcess and Receive keep *)
(* the invariant CSPInv.                                                   *)
(***************************************************************************)
EXTENDS CSPQueueProofs

(* A leaf is first-order reasoning unless it cites SMT. *)
USE ZenonT(40)

LEMMA SonsFinite ==
    ASSUME NEW B, NEW f
    PROVE  IsFiniteSet(SonsIn(B, f)) /\ Cardinality(SonsIn(B, f)) \in Nat
<1>1. SonsIn(B, f) \in SUBSET Process
  BY DEF SonsIn, LiveIn, Allocated
<1>2. IsFiniteSet(SonsIn(B, f))
  BY <1>1, CSPAssumption, FS_Subset
<1>3. QED  BY <1>2, FS_CardinalityType

(* The father of a process that stops waits for it, unless it never was in *)
(* COEND; it is in no queue.                                               *)
LEMMA FatherFacts ==
    ASSUME CSPInv, mode = "run", at[cp] = "body", sons[cp] = 0, cp # Main
    PROVE  /\ father[cp] \in LiveIn(Waiting) /\ father[cp] \in Process
           /\ father[cp] \in Allocated /\ father[cp] # cp
           /\ sons[father[cp]] \in Nat \ {0} /\ SonsIn(Waiting, cp) = {}
           /\ cp \in SonsIn(Waiting, father[cp]) /\ cp \in LiveIn(Waiting)
           /\ opened[father[cp]] \notin Channel /\ at[father[cp]] = "body"
           /\ \A q \in Queues : father[cp] \notin Waiting[q]
<1> DEFINE f == father[cp]
<1>1. /\ PlaceOK(Waiting, cp) /\ FamilyOK(Waiting) /\ OpenOK(Waiting, cp)
      /\ cp \in Allocated /\ cp \in Process /\ TypeOK
      /\ \A q \in Queues : Waiting[q] \subseteq Process /\ cp \notin Waiting[q]
  BY RunFacts
<1>2. cp \in LiveIn(Waiting)
  BY <1>1, NamesFacts DEF LiveIn
<1>3. f \in LiveIn(Waiting) /\ f \in Allocated /\ f \in Process
  BY <1>1, <1>2 DEF FamilyOK, LiveIn, Allocated
<1>4. cp \in SonsIn(Waiting, f)
  BY <1>2 DEF SonsIn
<1>5. SonsIn(Waiting, cp) = {}
  <2>1. IsFiniteSet(SonsIn(Waiting, cp)) /\ Cardinality(SonsIn(Waiting, cp)) = 0
    BY <1>1, SonsFinite DEF FamilyOK
  <2>2. QED  BY <2>1, FS_EmptySet
<1>6. f # cp
  BY <1>4, <1>5
<1>7. sons[f] \in Nat \ {0}
  <2>1. /\ IsFiniteSet(SonsIn(Waiting, f)) /\ Cardinality(SonsIn(Waiting, f)) \in Nat
        /\ sons[f] = Cardinality(SonsIn(Waiting, f))
    BY <1>1, <1>3, SonsFinite DEF FamilyOK
  <2>2. Cardinality(SonsIn(Waiting, f)) # 0
    BY <2>1, <1>4, FS_EmptySet
  <2>3. QED  BY <2>1, <2>2
<1>8. at[f] = "body"
  BY <1>1, <1>3, <1>7 DEF PlaceOK
<1>9. opened[f] \notin Channel
  BY <1>1, <1>3, <1>6, <1>8 DEF OpenOK
<1>10. \A q \in Queues : f \notin Waiting[q]
  BY <1>1, <1>7 DEF PlaceOK
<1>11. QED  BY <1>2, <1>3, <1>4, <1>5, <1>6, <1>7, <1>8, <1>9, <1>10

LEMMA StopProcessStep == CSPInv /\ StopProcess => CSPInv'
<1> SUFFICES ASSUME CSPInv, StopProcess PROVE CSPInv'
  OBVIOUS
<1>0. PICK f, R1 : f = father[cp] /\ R1 = IF LastSon(f) THEN Push(READY, f, Q) ELSE Q
  OBVIOUS
<1>1. /\ mode = "run" /\ at[cp] = "body" /\ sons[cp] = 0 /\ cp # Main
      /\ sons' = [sons EXCEPT ![f] = @ - 1]
      /\ DoTransfer(Push(FREE, cp, R1))
      /\ at' = at /\ rch' = rch /\ father' = father /\ opened' = opened
      /\ guardindex' = guardindex
      /\ guardcount' = guardcount /\ guards' = guards /\ tried' = tried /\ owner' = owner
      /\ made' = made /\ chindex' = chindex /\ chnext' = chnext /\ msgadr' = msgadr
  BY <1>0 DEF StopProcess, Calls, chanVars
<1>2. /\ TypeInv /\ TypeOK /\ QOK(Q, Lines) /\ MessageOK(Waiting)
      /\ PlaceOK(Waiting, cp) /\ FamilyOK(Waiting) /\ OpenOK(Waiting, cp)
      /\ ReceiveOK(Waiting) /\ SelectOK(cp) /\ StackOK
      /\ cp \in Allocated /\ cp \in Process
      /\ \A q \in Queues : Waiting[q] \subseteq Process /\ cp \notin Waiting[q]
  BY <1>1, RunFacts
<1>3. /\ f \in LiveIn(Waiting) /\ f \in Process /\ f \in Allocated /\ f # cp
      /\ sons[f] \in Nat \ {0} /\ SonsIn(Waiting, cp) = {}
      /\ cp \in SonsIn(Waiting, f) /\ cp \in LiveIn(Waiting)
      /\ opened[f] \notin Channel /\ at[f] = "body"
      /\ \A q \in Queues : f \notin Waiting[q]
  BY <1>0, <1>1, FatherFacts
<1>4. DOMAIN Waiting = Queues
  BY DEF Waiting, Members
<1>5. PICK C1 : /\ QOK(R1, C1)
                /\ \A ch \in Channel : C1[ch] = Lines[ch]
                /\ Members(C1)[READY] = Waiting[READY] \cup {g \in {f} : sons[f] = 1}
                /\ \A q \in Queues : q # READY => Members(C1)[q] = Waiting[q]
  <2>1. CASE sons[f] = 1
    <3>1. PICK C1 : /\ QOK(Push(READY, f, Q), C1)
                    /\ C1 = [Lines EXCEPT ![READY] = Append(@, f)]
                    /\ Members(C1) = [Waiting EXCEPT ![READY] = @ \cup {f}]
      BY <1>2, <1>3, NamesFacts, PushNow
    <3>2. \A ch \in Channel : C1[ch] = Lines[ch]
      BY <3>1, NamesFacts DEF Lines
    <3>3. R1 = Push(READY, f, Q)
      BY <2>1, <1>0 DEF LastSon
    <3>4. /\ Members(C1)[READY] = Waiting[READY] \cup {g \in {f} : sons[f] = 1}
          /\ \A q \in Queues : q # READY => Members(C1)[q] = Waiting[q]
      BY <2>1, <3>1, <1>4, NamesFacts
    <3>5. QOK(R1, C1)
      BY <3>1, <3>3
    <3>6. QED  BY <3>2, <3>4, <3>5
  <2>2. CASE sons[f] # 1
    <3>1. R1 = Q
      BY <2>2, <1>0 DEF LastSon
    <3>2. Waiting = Members(Lines)
      BY DEF Waiting
    <3>3. QOK(R1, Lines) /\ {g \in {f} : sons[f] = 1} = {}
      BY <3>1, <2>2, <1>2
    <3>4. QED  BY <3>2, <3>3
  <2>3. QED  BY <2>1, <2>2
<1>6. \A q \in Queues : cp \notin Members(C1)[q]
  BY <1>2, <1>3, <1>5
<1>7. PICK C : /\ QOK(Push(FREE, cp, R1), C)
               /\ C = [C1 EXCEPT ![FREE] = Append(@, cp)]
               /\ Members(C) = [Members(C1) EXCEPT ![FREE] = @ \cup {cp}]
  BY <1>2, <1>5, <1>6, NamesFacts, PushMembers, SMTT(30)
<1>8. PICK B : B = Members(C)
  OBVIOUS
<1>9. /\ B[FREE] = Waiting[FREE] \cup {cp}
      /\ B[READY] = Waiting[READY] \cup {g \in {f} : sons[f] = 1}
      /\ \A q \in Queues : q # FREE /\ q # READY => B[q] = Waiting[q]
  <2>1. DOMAIN Members(C1) = Queues
    BY DEF Members
  <2>2. QED  BY <2>1, <1>5, <1>7, <1>8, NamesFacts
<1>10. sons'[f] = sons[f] - 1 /\ \A r \in Process \ {f} : sons'[r] = sons[r]
  BY <1>1, <1>2, <1>3 DEF TypeOK
<1>11. Allocated' = Allocated /\ TypeInv'
  <2>1. sons' \in [Process -> Nat]
    BY <1>1, <1>2, <1>3, SMT DEF TypeOK
  <2>2. QED  BY <2>1, <1>1, <1>2, <1>7, TransferTypes DEF TypeInv, TypeOK
<1>12. LiveIn(B)' = LiveIn(Waiting) \ {cp}
  BY <1>9, <1>11 DEF LiveIn
<1>13. PlaceOK(B, NIL)'
  <2>1. \A q \in Queues : B[q] \subseteq Allocated \ {NIL}
    BY <1>2, <1>3, <1>9, NamesFacts, SMT DEF PlaceOK, Allocated
  <2>2. ASSUME NEW r \in Allocated
        PROVE  (\E q \in Queues : r \in B[q]) \/ sons'[r] > 0 \/ opened[r] \in Channel
    <3>1. CASE r = cp
      BY <3>1, <1>9, NamesFacts
    <3>2. CASE r = f
      <4>1. CASE sons[f] = 1
        BY <3>2, <4>1, <1>9, NamesFacts
      <4>2. CASE sons[f] # 1
        BY <3>2, <4>2, <1>3, <1>10, SMT
      <4>3. QED  BY <4>1, <4>2
    <3>3. CASE r # cp /\ r # f
      <4>1. (\E q \in Queues : r \in Waiting[q]) \/ sons[r] > 0 \/ opened[r] \in Channel
        BY <3>3, <1>2 DEF PlaceOK
      <4>2. r \in Process
        BY DEF Allocated
      <4>3. \A q \in Queues : Waiting[q] \subseteq B[q]
        BY <1>9
      <4>4. QED  BY <4>1, <4>2, <4>3, <3>3, <1>10
    <3>4. QED  BY <3>1, <3>2, <3>3
  <2>3. ASSUME NEW q \in Queues, NEW r \in B[q]
        PROVE  sons'[r] = 0 /\ opened[r] \notin Channel
    <3>1. CASE r = cp
      BY <3>1, <1>1, <1>2, <1>3, <1>10, BodyFacts
    <3>2. CASE r = f
      <4>1. sons[f] = 1
        BY <3>2, <1>3, <1>9
      <4>2. QED  BY <4>1, <3>2, <1>3, <1>10, SMT
    <3>3. CASE r # cp /\ r # f
      <4>1. r \in Waiting[q] /\ r \in Process
        BY <3>3, <1>2, <1>9
      <4>2. QED  BY <4>1, <3>3, <1>2, <1>10 DEF PlaceOK
    <3>4. QED  BY <3>1, <3>2, <3>3
  <2>4. ASSUME NEW r \in Process, at[r] # "body" PROVE r \in LiveIn(B)' /\ sons'[r] = 0
    BY <2>4, <1>1, <1>2, <1>3, <1>10, <1>12 DEF PlaceOK
  <2>5. QED  BY <2>1, <2>2, <2>3, <2>4, <1>1, <1>11 DEF PlaceOK
<1>14. FamilyOK(B)'
  <2>1. Main \in LiveIn(B)'
    BY <1>1, <1>2, <1>12 DEF FamilyOK
  <2>2. ASSUME NEW r \in LiveIn(B)', r # Main PROVE father[r] \in LiveIn(B)'
    <3>1. father[r] \in LiveIn(Waiting) /\ r \in LiveIn(Waiting)
      BY <2>2, <1>2, <1>12 DEF FamilyOK
    <3>2. father[r] # cp
      BY <3>1, <2>2, <1>3 DEF SonsIn
    <3>3. QED  BY <3>1, <3>2, <1>12
  <2>3. ASSUME NEW g \in Process PROVE sons'[g] = Cardinality(SonsIn(B, g)')
    <3>1. SonsIn(B, g)' = SonsIn(Waiting, g) \ {cp}
      BY <1>1, <1>12 DEF SonsIn
    <3>2. sons[g] = Cardinality(SonsIn(Waiting, g)) /\ IsFiniteSet(SonsIn(Waiting, g))
      BY <1>2, SonsFinite DEF FamilyOK
    <3>3. CASE g = f
      <4>1. Cardinality(SonsIn(Waiting, g) \ {cp}) = Cardinality(SonsIn(Waiting, g)) - 1
        BY <3>2, <3>3, <1>3, FS_RemoveElement
      <4>2. QED  BY <4>1, <3>1, <3>2, <3>3, <1>10
    <3>4. CASE g # f
      <4>1. cp \notin SonsIn(Waiting, g)
        BY <3>4, <1>0 DEF SonsIn
      <4>2. SonsIn(B, g)' = SonsIn(Waiting, g)
        BY <4>1, <3>1
      <4>3. QED  BY <4>2, <3>2, <3>4, <1>10
    <3>5. QED  BY <3>3, <3>4
  <2>4. QED  BY <2>1, <2>2, <2>3, <1>1 DEF FamilyOK
<1>15. OpenOK(B, NIL)' /\ SelectOK(NIL)'
  <2>1. OpenOK(Waiting, NIL) /\ SelectOK(NIL)
    BY <1>1, <1>2, MayYield
  <2>2. OpenOK(B, NIL)
    BY <2>1, <1>9, NamesFacts DEF OpenOK
  <2>3. QED  BY <2>1, <2>2, <1>1, SameOpen, SameSelect
<1>16. ReceiveOK(B)'
  <2>1. ReceiveOK(B)
    BY <1>2, <1>9, NamesFacts DEF ReceiveOK
  <2>2. QED  BY <2>1, <1>1, SameReceive
<1>17. MessageOK(B)'
  BY <1>1, <1>2, <1>9, NamesFacts DEF MessageOK
<1>18. Waiting[FREE] \subseteq B[FREE]
  BY <1>9
<1>19. QED
  BY <1>1, <1>2, <1>7, <1>8, <1>11, <1>13, <1>14, <1>15, <1>16, <1>17, <1>18, DispatchStep

(* The descriptor that StartProcess takes belongs to no live process. *)
LEMMA StartFacts ==
    ASSUME CSPInv, NEW p \in Process, StartProcess(p)
    PROVE  /\ mode = "run" /\ at[cp] = "body"
           /\ p \notin LiveIn(Waiting) /\ p # cp /\ p # Main /\ at[p] = "body"
           /\ \A q \in Queues : p \in Waiting[q] => q = FREE /\ p = Q.tail[FREE]
           /\ opened[p] \notin Channel /\ opened'[p] \in {NIL, WILD} \cup {opened[p]}
           /\ \A r \in Process \ {p} : opened'[r] = opened[r]
           /\ opened' \in [Process -> Channel \cup {NIL, WILD}]
           /\ Q.tail[FREE] = NIL \/ p = Q.tail[FREE]
<1>1. /\ mode = "run" /\ at[cp] = "body"
      /\ IF Q.tail[FREE] # NIL
         THEN p = Q.tail[FREE] /\ opened' = opened
         ELSE /\ p # Main /\ cor[p] = NIL
              /\ \E o \in Residue : opened' = [opened EXCEPT ![p] = o]
  BY DEF StartProcess
<1>2. /\ TypeOK /\ QOK(Q, Lines) /\ PlaceOK(Waiting, cp) /\ FamilyOK(Waiting)
      /\ OpenOK(Waiting, cp) /\ cp \in Allocated /\ cp \in Process
      /\ \A q \in Queues : Waiting[q] \subseteq Process /\ cp \notin Waiting[q]
      /\ \A q, r \in Queues : q # r => Waiting[q] \cap Waiting[r] = {}
  BY <1>1, RunFacts
<1>3. Q.tail[FREE] # NIL => Q.tail[FREE] \in Waiting[FREE]
  BY <1>2, NamesFacts, MemberFacts DEF Waiting
<1>4. p \notin LiveIn(Waiting)
  BY <1>1, <1>3 DEF LiveIn, Allocated
<1>5. p # cp /\ p # Main /\ at[p] = "body"
  <2>1. cp \in LiveIn(Waiting) /\ Main \in LiveIn(Waiting)
    BY <1>2, NamesFacts DEF LiveIn, FamilyOK
  <2>2. QED  BY <2>1, <1>2, <1>4 DEF PlaceOK
<1>6. \A q \in Queues : p \in Waiting[q] => q = FREE /\ p = Q.tail[FREE]
  <2>1. CASE Q.tail[FREE] # NIL
    BY <2>1, <1>1, <1>2, <1>3, NamesFacts
  <2>2. CASE Q.tail[FREE] = NIL
    <3>1. p \notin Allocated
      BY <2>2, <1>1 DEF Allocated
    <3>2. QED  BY <3>1, <1>2 DEF PlaceOK
  <2>3. QED  BY <2>1, <2>2
<1>7. opened[p] \notin Channel
  BY <1>2, <1>5 DEF OpenOK
<1>8. /\ opened'[p] \in {NIL, WILD} \cup {opened[p]}
      /\ \A r \in Process \ {p} : opened'[r] = opened[r]
      /\ opened' \in [Process -> Channel \cup {NIL, WILD}]
  <2>1. opened \in [Process -> Channel \cup {NIL, WILD}]
    BY <1>2 DEF TypeOK
  <2>2. CASE opened' = opened
    BY <2>1, <2>2
  <2>3. ASSUME NEW o \in Residue, opened' = [opened EXCEPT ![p] = o]
        PROVE  /\ opened'[p] \in {NIL, WILD} \cup {opened[p]}
               /\ \A r \in Process \ {p} : opened'[r] = opened[r]
               /\ opened' \in [Process -> Channel \cup {NIL, WILD}]
    <3>1. o \in {NIL, WILD}
      BY CSPAssumption
    <3>2. QED  BY <2>1, <2>3, <3>1
  <2>4. QED  BY <2>2, <2>3, <1>1
<1>9. QED  BY <1>1, <1>4, <1>5, <1>6, <1>7, <1>8

(* NEWPROCESS finds the stack too large: the program ends. *)
LEMMA StartTrapStep ==
    ASSUME CSPInv, NEW p \in Process, StartProcess(p), mode' = "trap"
    PROVE  CSPInv'
<1>1. /\ mode = "run" /\ opened' \in [Process -> Channel \cup {NIL, WILD}]
  BY StartFacts
<1>2. /\ TypeInv /\ TypeOK /\ QOK(Q, Lines) /\ MessageOK(Waiting) /\ cp \in Process
  BY <1>1, RunFacts
<1>3. /\ father' = [father EXCEPT ![p] = cp] /\ sons' = [sons EXCEPT ![p] = 0]
      /\ Q' = Pop(FREE, Q) /\ cor' = cor /\ saved' = saved /\ at' = at
      /\ cp' = cp /\ curproc' = curproc /\ guardindex' = guardindex
      /\ guardcount' = guardcount /\ guards' = guards /\ tried' = tried /\ rch' = rch
      /\ owner' = owner /\ made' = made /\ chindex' = chindex /\ chnext' = chnext
      /\ msgadr' = msgadr
  BY <1>1 DEF StartProcess, chanVars
<1>4. PICK C : /\ QOK(Pop(FREE, Q), C)
               /\ C = IF Lines[FREE] = <<>> THEN Lines ELSE [Lines EXCEPT ![FREE] = Tail(@)]
               /\ Members(C) = [Members(Lines) EXCEPT ![FREE] = @ \ {Q.tail[FREE]}]
  BY <1>2, NamesFacts, PopMembers
<1>5. QOK(Q', Lines') /\ Waiting' = Members(C)
  BY <1>3, <1>4, LinesThen
<1>6. \A ch \in Channel : Waiting'[ch] = Waiting[ch]
  BY <1>4, <1>5, NamesFacts DEF Waiting, Members
<1>7. MessageOK(Waiting)'
  BY <1>2, <1>3, <1>6 DEF MessageOK
<1>8. TypeInv'
  <2>1. /\ father' \in [Process -> Process \cup {NIL}] /\ sons' \in [Process -> Nat]
    BY <1>2, <1>3 DEF TypeOK
  <2>2. Q' \in [next : [Process -> Process \cup {NIL}],
                head : [Queues -> Process \cup {NIL}],
                tail : [Queues -> Process \cup {NIL}]]
    BY <1>5 DEF QOK
  <2>3. CoroutineTypeOK' /\ mode' \in Modes
    BY <1>2, <1>3 DEF TypeOK, CoroutineTypeOK, Modes
  <2>4. QED  BY <2>1, <2>2, <2>3, <1>1, <1>2, <1>3 DEF TypeInv, TypeOK
<1>9. QED  BY <1>5, <1>7, <1>8 DEF CSPInv, Going

LEMMA StartProcessStep ==
    ASSUME CSPInv, NEW p \in Process, StartProcess(p)
    PROVE  CSPInv'
<1>0. CASE mode' = "trap"
  BY <1>0, StartTrapStep
<1>a. CASE mode' # "trap"
  <2>1. /\ mode = "run" /\ at[cp] = "body"
        /\ p \notin LiveIn(Waiting) /\ p # cp /\ p # Main /\ at[p] = "body"
        /\ \A q \in Queues : p \in Waiting[q] => q = FREE /\ p = Q.tail[FREE]
        /\ opened[p] \notin Channel /\ opened'[p] \in {NIL, WILD} \cup {opened[p]}
        /\ \A r \in Process \ {p} : opened'[r] = opened[r]
        /\ opened' \in [Process -> Channel \cup {NIL, WILD}]
        /\ Q.tail[FREE] = NIL \/ p = Q.tail[FREE]
    BY StartFacts
  <2>2. /\ TypeInv /\ TypeOK /\ QOK(Q, Lines) /\ MessageOK(Waiting)
        /\ PlaceOK(Waiting, cp) /\ FamilyOK(Waiting) /\ OpenOK(Waiting, cp)
        /\ ReceiveOK(Waiting) /\ SelectOK(cp) /\ StackOK
        /\ cp \in Allocated /\ cp \in Process
        /\ \A q \in Queues : Waiting[q] \subseteq Process /\ cp \notin Waiting[q]
    BY <2>1, RunFacts
  <2>3. /\ father' = [father EXCEPT ![p] = cp]
        /\ cor' = [cor EXCEPT ![p] = AreaOf[p]] /\ saved' = NEWPROCESS(saved, AreaOf[p])
        /\ sons' = [sons EXCEPT ![p] = 0, ![cp] = @ + 1]
        /\ Q' = Push(READY, p, Pop(FREE, Q)) /\ at' = [at EXCEPT ![p] = "body"]
        /\ mode' = mode /\ cp' = cp /\ curproc' = curproc /\ guardindex' = guardindex
        /\ guardcount' = guardcount /\ guards' = guards /\ tried' = tried /\ rch' = rch
        /\ owner' = owner /\ made' = made /\ chindex' = chindex /\ chnext' = chnext
        /\ msgadr' = msgadr
    BY <1>a DEF StartProcess, chanVars
  <2>4. at' = at /\ AreaOf[p] \in Area /\ AreaOf[p] # NIL
    <3>1. at \in [Process -> Places]
      BY <2>2 DEF TypeOK
    <3>2. at' = at
      BY <2>1, <2>3, <3>1
    <3>3. AreaOf[p] \in Area
      BY CSPAssumption
    <3>4. QED  BY <3>2, <3>3, NamesFacts
  <2>5. PICK C1 : /\ QOK(Pop(FREE, Q), C1)
                  /\ C1 = IF Lines[FREE] = <<>> THEN Lines ELSE [Lines EXCEPT ![FREE] = Tail(@)]
                  /\ Members(C1) = [Members(Lines) EXCEPT ![FREE] = @ \ {Q.tail[FREE]}]
    BY <2>2, NamesFacts, PopMembers
  <2>6. /\ Members(C1)[FREE] = Waiting[FREE] \ {Q.tail[FREE]}
        /\ \A q \in Queues : q # FREE => Members(C1)[q] = Waiting[q]
        /\ DOMAIN Members(C1) = Queues
    BY <2>5, NamesFacts DEF Waiting, Members
  <2>7. \A q \in Queues : p \notin Members(C1)[q]
    BY <2>1, <2>6
  <2>8. PICK C : /\ QOK(Push(READY, p, Pop(FREE, Q)), C)
                 /\ C = [C1 EXCEPT ![READY] = Append(@, p)]
                 /\ Members(C) = [Members(C1) EXCEPT ![READY] = @ \cup {p}]
    <3> DEFINE R == Pop(FREE, Q)
    <3>1. QOK(R, C1) /\ READY \in Queues
      BY <2>5, NamesFacts
    <3> HIDE DEF R
    <3>2. \E C : /\ QOK(Push(READY, p, R), C)
                 /\ C = [C1 EXCEPT ![READY] = Append(@, p)]
                 /\ Members(C) = [Members(C1) EXCEPT ![READY] = @ \cup {p}]
      BY <3>1, <2>7, PushMembers, SMT
    <3>3. QED  BY <3>2 DEF R
  <2>9. QOK(Q', Lines') /\ Waiting' = Members(C)
    BY <2>3, <2>8, LinesThen
  <2>10. PICK B, c : B = Members(C) /\ c = cp
    OBVIOUS
  <2>11. /\ B[FREE] = Waiting[FREE] \ {p} /\ B[READY] = Waiting[READY] \cup {p}
         /\ \A q \in Queues : q # FREE /\ q # READY => B[q] = Waiting[q]
    <3>1. Waiting[FREE] \ {Q.tail[FREE]} = Waiting[FREE] \ {p}
      <4>1. CASE Q.tail[FREE] = NIL
        BY <4>1, <2>1, <2>2, NamesFacts
      <4>2. CASE Q.tail[FREE] # NIL
        BY <4>2, <2>1
      <4>3. QED  BY <4>1, <4>2
    <3>2. QED  BY <3>1, <2>6, <2>8, <2>10, NamesFacts
  <2>12. /\ Allocated' = Allocated \cup {p} /\ LiveIn(B)' = LiveIn(Waiting) \cup {p}
         /\ p \in Process
    <3>1. Allocated' = Allocated \cup {p}
      BY <2>2, <2>3, <2>4 DEF Allocated, TypeOK
    <3>2. QED  BY <3>1, <2>11 DEF LiveIn
  <2>13. /\ sons'[p] = 0 /\ sons'[cp] = sons[cp] + 1 /\ sons[cp] \in Nat
         /\ \A r \in Process \ {p, cp} : sons'[r] = sons[r]
         /\ father'[p] = cp /\ \A r \in Process \ {p} : father'[r] = father[r]
    BY <2>1, <2>2, <2>3 DEF TypeOK
  <2>14. TypeInv'
    <3>1. /\ father' \in [Process -> Process \cup {NIL}] /\ sons' \in [Process -> Nat]
          /\ cor' \in [Process -> Area \cup {NIL}]
      BY <2>2, <2>3, <2>4, SMTT(30) DEF TypeOK
    <3>2. Q' \in [next : [Process -> Process \cup {NIL}],
                  head : [Queues -> Process \cup {NIL}],
                  tail : [Queues -> Process \cup {NIL}]]
      BY <2>9 DEF QOK
    <3>3. CoroutineTypeOK'
      BY <2>2, <2>3, <2>4 DEF TypeOK, CoroutineTypeOK, NEWPROCESS
    <3>4. QED  BY <3>1, <3>2, <3>3, <2>1, <2>2, <2>3, <2>4 DEF TypeInv, TypeOK
  <2>15. PlaceOK(B, c)'
    <3>1. \A q \in Queues : B[q] \subseteq Allocated' \ {c}
      BY <2>1, <2>2, <2>10, <2>11, <2>12, NamesFacts DEF PlaceOK
    <3>2. ASSUME NEW r \in Allocated', r # c
          PROVE  (\E q \in Queues : r \in B[q]) \/ sons'[r] > 0 \/ opened'[r] \in Channel
      <4>1. CASE r = p
        BY <4>1, <2>11, NamesFacts
      <4>2. CASE r # p
        <5>1. r \in Allocated /\ r # cp /\ r \in Process
          BY <4>2, <3>2, <2>10, <2>12 DEF Allocated
        <5>2. (\E q \in Queues : r \in Waiting[q]) \/ sons[r] > 0 \/ opened[r] \in Channel
          BY <5>1, <2>2 DEF PlaceOK
        <5>3. \A q \in Queues : r \in Waiting[q] => r \in B[q]
          BY <4>2, <2>11
        <5>4. QED  BY <4>2, <5>1, <5>2, <5>3, <2>1, <2>13
      <4>3. QED  BY <4>1, <4>2
    <3>3. ASSUME NEW q \in Queues, NEW r \in B[q]
          PROVE  sons'[r] = 0 /\ opened'[r] \notin Channel
      <4>1. CASE r = p
        BY <4>1, <2>1, <2>13, NamesFacts
      <4>2. CASE r # p
        <5>1. r \in Waiting[q] /\ r # cp /\ r \in Process
          BY <4>2, <2>2, <2>11
        <5>2. QED  BY <5>1, <4>2, <2>1, <2>2, <2>13 DEF PlaceOK
      <4>3. QED  BY <4>1, <4>2
    <3>4. ASSUME NEW r \in Process, at[r] # "body" PROVE r \in LiveIn(B)' /\ sons'[r] = 0
      BY <3>4, <2>1, <2>2, <2>12, <2>13 DEF PlaceOK
    <3>5. QED  BY <3>1, <3>2, <3>3, <3>4, <2>4 DEF PlaceOK
  <2>16. FamilyOK(B)'
    <3>1. Main \in LiveIn(B)' /\ cp \in LiveIn(Waiting)
      BY <2>2, <2>12, NamesFacts DEF FamilyOK, LiveIn
    <3>2. ASSUME NEW r \in LiveIn(B)', r # Main PROVE father'[r] \in LiveIn(B)'
      <4>1. CASE r = p
        BY <4>1, <3>1, <2>12, <2>13
      <4>2. CASE r # p
        <5>1. r \in LiveIn(Waiting) /\ r \in Process
          BY <4>2, <2>12 DEF LiveIn, Allocated
        <5>2. QED  BY <5>1, <4>2, <3>2, <2>2, <2>12, <2>13 DEF FamilyOK
      <4>3. QED  BY <4>1, <4>2
    <3>3. ASSUME NEW g \in Process PROVE sons'[g] = Cardinality(SonsIn(B, g)')
      <4>1. /\ sons[g] = Cardinality(SonsIn(Waiting, g)) /\ IsFiniteSet(SonsIn(Waiting, g))
            /\ p \notin SonsIn(Waiting, g)
        <5>1. sons[g] = Cardinality(SonsIn(Waiting, g)) /\ IsFiniteSet(SonsIn(Waiting, g))
          BY <2>2, SonsFinite DEF FamilyOK
        <5>2. p \notin SonsIn(Waiting, g)
          BY <2>1 DEF SonsIn
        <5>3. QED  BY <5>1, <5>2
      <4>2. \A r \in LiveIn(Waiting) : r # p /\ r \in Process
        BY <2>1 DEF LiveIn, Allocated
      <4>3. SonsIn(B, g)' = SonsIn(Waiting, g) \cup {r \in {p} : g = cp}
        <5>1. SonsIn(B, g)' = {r \in (LiveIn(Waiting) \cup {p}) \ {Main} : father'[r] = g}
          BY <2>12 DEF SonsIn
        <5>2. QED  BY <5>1, <4>2, <2>1, <2>13 DEF SonsIn
      <4>4. CASE g = cp
        <5>1. SonsIn(B, g)' = SonsIn(Waiting, g) \cup {p}
          BY <4>3, <4>4
        <5>2. Cardinality(SonsIn(Waiting, g) \cup {p}) = Cardinality(SonsIn(Waiting, g)) + 1
          BY <4>1, FS_AddElement
        <5>3. QED  BY <5>1, <5>2, <4>1, <4>4, <2>13
      <4>5. CASE g = p
        <5>1. SonsIn(B, g)' = SonsIn(Waiting, g)
          BY <4>3, <4>5, <2>1
        <5>2. SonsIn(Waiting, g) = {}
          BY <4>5, <2>1, <2>2 DEF SonsIn, FamilyOK
        <5>3. QED  BY <5>1, <5>2, <4>5, <2>13, FS_EmptySet
      <4>6. CASE g # p /\ g # cp
        <5>1. SonsIn(B, g)' = SonsIn(Waiting, g)
          BY <4>3, <4>6
        <5>2. QED  BY <5>1, <4>1, <4>6, <2>13
      <4>7. QED  BY <4>4, <4>5, <4>6
    <3>4. QED  BY <3>1, <3>2, <3>3 DEF FamilyOK
  <2>17. \A r \in Process : Opens(r)' = Opens(r) /\ (opened'[r] \in Channel <=> opened[r] \in Channel)
    BY <2>1, <2>3, NamesFacts DEF Opens
  <2>18. OpenOK(B, c)'
    <3>1. ASSUME NEW r \in Process, opened'[r] \in Channel PROVE ListOK(r)'
      <4>1. r # p /\ opened'[r] = opened[r] /\ ListOK(r)
        BY <3>1, <2>1, <2>2, <2>17 DEF OpenOK
      <4>2. ListOf(r)' = ListOf(r)
        BY <4>1, <2>3 DEF ListOf
      <4>3. QED  BY <4>1, <4>2, <2>3, <2>17 DEF ListOK
    <3>2. QED  BY <3>1, <2>2, <2>3, <2>4, <2>10, <2>11, <2>17, NamesFacts DEF OpenOK
  <2>19. ReceiveOK(B)'
    BY <2>2, <2>3, <2>4, <2>11, <2>17, NamesFacts DEF ReceiveOK
  <2>20. SelectOK(c)' /\ MessageOK(B)'
    BY <2>2, <2>3, <2>4, <2>10, <2>11, NamesFacts, SameSelect DEF MessageOK
  <2>21. cp' \in Allocated' /\ StackOK'
    <3>1. cp \in Allocated' /\ Running' = AreaOf[cp]
      BY <2>2, <2>3, <2>12 DEF StackOK, Running
    <3>2. ASSUME NEW r \in LiveIn(B)', r # cp PROVE cor'[r] = AreaOf[r] /\ AreaOf[r] \in saved'
      <4>1. CASE r = p
        BY <4>1, <2>2, <2>3 DEF NEWPROCESS, TypeOK
      <4>2. CASE r # p
        <5>1. r \in LiveIn(Waiting) /\ r \in Process
          BY <4>2, <2>12 DEF LiveIn, Allocated
        <5>2. QED  BY <5>1, <4>2, <3>2, <2>2, <2>3 DEF StackOK, NEWPROCESS, TypeOK
      <4>3. QED  BY <4>1, <4>2
    <3>3. LiveIn(Waiting)' = LiveIn(B)'
      BY <2>9, <2>10 DEF LiveIn
    <3>4. QED  BY <3>1, <3>2, <3>3, <2>3 DEF StackOK
  <2>22. Waiting' = B /\ cp' = c /\ mode' = "run"
    BY <2>1, <2>3, <2>9, <2>10
  <2>23. /\ PlaceOK(Waiting, cp)' /\ FamilyOK(Waiting)' /\ OpenOK(Waiting, cp)'
         /\ ReceiveOK(Waiting)' /\ SelectOK(cp)' /\ MessageOK(Waiting)'
    <3>1. PlaceOK(Waiting, cp)'
      BY <2>15, <2>22 DEF PlaceOK, LiveIn
    <3>2. FamilyOK(Waiting)'
      BY <2>16, <2>22 DEF FamilyOK, LiveIn, SonsIn
    <3>3. OpenOK(Waiting, cp)'
      BY <2>18, <2>22 DEF OpenOK
    <3>4. ReceiveOK(Waiting)' /\ MessageOK(Waiting)'
      BY <2>19, <2>20, <2>22 DEF ReceiveOK, MessageOK
    <3>5. SelectOK(cp)'
      BY <2>20, <2>22 DEF SelectOK, SelectsOK
    <3>6. QED  BY <3>1, <3>2, <3>3, <3>4, <3>5
  <2>24. QED  BY <2>9, <2>14, <2>21, <2>22, <2>23 DEF CSPInv
<1>b. QED  BY <1>0, <1>a
-----------------------------------------------------------------------------
(* The queues S with the contents E, when x becomes ready. *)
BecomesReady(x, S, E) ==
    \E D : /\ QOK(Push(READY, x, S), D)
           /\ D = [E EXCEPT ![READY] = Append(@, x)]
           /\ Members(D) = [Members(E) EXCEPT ![READY] = @ \cup {x}]

LEMMA Readied ==
    ASSUME NEW S, NEW E, QOK(S, E), NEW x \in Process,
           \A q \in Queues : x \notin Members(E)[q]
    PROVE  BecomesReady(x, S, E)
  BY NamesFacts, PushMembers, SMT DEF BecomesReady

(* Two processes become ready.  *)
LEMMA PushTwo ==
    ASSUME NEW R, NEW C, QOK(R, C), NEW x \in Process, NEW y \in Process, x # y,
           \A q \in Queues : x \notin Members(C)[q],
           \A q \in Queues : y \notin Members(C)[q]
    PROVE  \E D : /\ QOK(Push(READY, x, Push(READY, y, R)), D)
                  /\ Members(D)[READY] = Members(C)[READY] \cup {x, y}
                  /\ \A q \in Queues : q # READY => Members(D)[q] = Members(C)[q]
                  /\ \A q \in Queues : q # READY => D[q] = C[q]
<1> DEFINE R2 == Push(READY, y, R)
<1>1. READY \in Queues
  BY NamesFacts
<1>2. PICK C2 : /\ QOK(Push(READY, y, R), C2)
                /\ C2 = [C EXCEPT ![READY] = Append(@, y)]
                /\ Members(C2) = [Members(C) EXCEPT ![READY] = @ \cup {y}]
  BY <1>1, PushMembers, SMT
<1>3. /\ Members(C2)[READY] = Members(C)[READY] \cup {y} /\ DOMAIN Members(C2) = Queues
      /\ \A q \in Queues : q # READY => Members(C2)[q] = Members(C)[q]
  <2>1. DOMAIN Members(C) = Queues
    BY DEF Members
  <2>2. QED  BY <2>1, <1>1, <1>2
<1>4. \A q \in Queues : x \notin Members(C2)[q]
  BY <1>3
<1>5. QOK(R2, C2)
  BY <1>2
<1> HIDE DEF R2
<1>6. PICK D : /\ QOK(Push(READY, x, R2), D)
               /\ D = [C2 EXCEPT ![READY] = Append(@, x)]
               /\ Members(D) = [Members(C2) EXCEPT ![READY] = @ \cup {x}]
  BY <1>1, <1>4, <1>5, Readied, SMT DEF BecomesReady
<1>7. Members(D)[READY] = Members(C)[READY] \cup {x, y}
  BY <1>1, <1>3, <1>6
<1>8. \A q \in Queues : q # READY => Members(D)[q] = Members(C)[q]
  BY <1>1, <1>3, <1>6
<1>9. \A q \in Queues : q # READY => D[q] = C[q]
  <2>1. C \in [Queues -> Seq(Process)]
    BY DEF QOK
  <2>2. QED  BY <2>1, <1>2, <1>6
<1>10. QED  BY <1>6, <1>7, <1>8, <1>9 DEF R2

(* The queues when the first sender of ch and the receiver p become ready, *)
(* y before x.                                                             *)
Taken(ch, p, x, y) ==
    \E C : /\ QOK(Push(READY, x, Push(READY, y, Pop(ch, Q))), C)
           /\ Members(C)[ch] = Waiting[ch] \ {Q.tail[ch]}
           /\ Members(C)[READY] = Waiting[READY] \cup {Q.tail[ch], p}
           /\ \A q \in Queues : q # ch /\ q # READY => Members(C)[q] = Waiting[q]
           /\ C[ch] = Tail(Lines[ch])
           /\ \A d \in Channel : d # ch => C[d] = Lines[d]

LEMMA TakeQueues ==
    ASSUME QOK(Q, Lines), NEW ch \in Channel, Q.tail[ch] # NIL, NEW p \in Process,
           \A q \in Queues : p \notin Waiting[q], NEW x, NEW y,
           (x = Q.tail[ch] /\ y = p) \/ (x = p /\ y = Q.tail[ch])
    PROVE  Taken(ch, p, x, y)
<1>0. PICK t : t = Q.tail[ch]
  OBVIOUS
<1> DEFINE R1 == Pop(ch, Q)
<1>1. /\ ch \in Queues /\ READY \in Queues /\ ch # READY
      /\ \A d \in Channel : d \in Queues /\ d # READY
  BY NamesFacts
<1>2. /\ t \in Waiting[ch] /\ \A q \in Queues : q # ch => t \notin Waiting[q]
      /\ Lines[ch] # <<>> /\ t \in Process
  <2>1. /\ t # NIL => t \in Members(Lines)[ch]
        /\ \A q \in Queues : q # ch => Members(Lines)[ch] \cap Members(Lines)[q] = {}
        /\ Lines[ch] = <<>> <=> Members(Lines)[ch] = {}
        /\ Members(Lines)[ch] \subseteq Process
    BY <1>0, <1>1, MemberFacts, SMT
  <2>2. QED  BY <2>1, <1>0 DEF Waiting
<1>3. PICK C1 : /\ QOK(Pop(ch, Q), C1)
                /\ C1 = IF Lines[ch] = <<>> THEN Lines ELSE [Lines EXCEPT ![ch] = Tail(@)]
                /\ Members(C1) = [Members(Lines) EXCEPT ![ch] = @ \ {Q.tail[ch]}]
  BY <1>1, PopMembers
<1>4. /\ Members(C1)[ch] = Waiting[ch] \ {t}
      /\ \A q \in Queues : q # ch => Members(C1)[q] = Waiting[q]
  BY <1>0, <1>1, <1>3 DEF Waiting, Members
<1>5. /\ C1[ch] = Tail(Lines[ch])
      /\ \A d \in Channel : d # ch => C1[d] = Lines[d]
  BY <1>1, <1>2, <1>3 DEF Lines
<1>6. \A q \in Queues : t \notin Members(C1)[q] /\ p \notin Members(C1)[q]
  BY <1>2, <1>4
<1>7. /\ \A q \in Queues : x \notin Members(C1)[q]
      /\ \A q \in Queues : y \notin Members(C1)[q]
      /\ x # y /\ x \in Process /\ y \in Process
  BY <1>0, <1>1, <1>2, <1>6
<1>8. QOK(R1, C1)
  BY <1>3
<1> HIDE DEF R1
<1>9. PICK C : /\ QOK(Push(READY, x, Push(READY, y, R1)), C)
               /\ Members(C)[READY] = Members(C1)[READY] \cup {x, y}
               /\ \A q \in Queues : q # READY => Members(C)[q] = Members(C1)[q]
               /\ \A q \in Queues : q # READY => C[q] = C1[q]
  BY <1>7, <1>8, PushTwo, SMT
<1>10. Members(C)[READY] = Waiting[READY] \cup {Q.tail[ch], p}
  BY <1>1, <1>4, <1>9
<1>11. /\ Members(C)[ch] = Waiting[ch] \ {Q.tail[ch]}
       /\ \A q \in Queues : q # ch /\ q # READY => Members(C)[q] = Waiting[q]
  BY <1>0, <1>1, <1>4, <1>9
<1>12. C[ch] = Tail(Lines[ch]) /\ \A d \in Channel : d # ch => C[d] = Lines[d]
  BY <1>1, <1>5, <1>9
<1>13. QOK(Push(READY, x, Push(READY, y, Pop(ch, Q))), C)
  BY <1>9 DEF R1
<1>14. QED  BY <1>10, <1>11, <1>12, <1>13 DEF Taken

(* The running process c takes the message of the first sender t of ch and *)
(* goes on at place; c and t become ready.                                 *)
Takes(ch, t, c, place, C) ==
    /\ owner[ch] = c /\ sons[c] = 0 /\ t = Q.tail[ch] /\ t # NIL
    /\ Members(C)[ch] = Waiting[ch] \ {t}
    /\ Members(C)[READY] = Waiting[READY] \cup {t, c}
    /\ \A q \in Queues : q # ch /\ q # READY => Members(C)[q] = Waiting[q]
    /\ msgadr' = [msgadr EXCEPT ![t] = NIL] /\ at' = [at EXCEPT ![c] = place]
    /\ place \in {"body", "guard"} /\ (place = "body" => guardindex[c] <= 0)
    /\ guardindex' = guardindex /\ father' = father /\ sons' = sons /\ owner' = owner
    /\ guardcount' = guardcount
    /\ opened'[c] \notin Channel /\ Opens(c)' = {} /\ tried'[c] = {}
    /\ \A d \in Channel : chindex'[d] = IF d \in Opens(c) THEN 0 ELSE chindex[d]
    /\ \A r \in Process \ {c} :
          /\ opened'[r] = opened[r] /\ Opens(r)' = Opens(r) /\ (ListOK(r) => ListOK(r)')
          /\ rch'[r] = rch[r] /\ guards'[r] = guards[r] /\ tried'[r] = tried[r]

LEMMA TakesStep ==
    ASSUME CSPInv, mode = "run", NEW ch \in Channel, NEW R, NEW C, QOK(R, C), DoTransfer(R),
           NEW t, NEW c, c = cp, NEW place, Takes(ch, t, c, place, C), TypeInv'
    PROVE  CSPInv'
<1>1. /\ owner[ch] = c /\ sons[c] = 0 /\ t = Q.tail[ch] /\ t # NIL
      /\ Members(C)[ch] = Waiting[ch] \ {t}
      /\ Members(C)[READY] = Waiting[READY] \cup {t, c}
      /\ \A q \in Queues : q # ch /\ q # READY => Members(C)[q] = Waiting[q]
      /\ msgadr' = [msgadr EXCEPT ![t] = NIL] /\ at' = [at EXCEPT ![c] = place]
      /\ place \in {"body", "guard"} /\ (place = "body" => guardindex[c] <= 0)
      /\ guardindex' = guardindex /\ father' = father /\ sons' = sons /\ owner' = owner
      /\ guardcount' = guardcount
  BY DEF Takes
<1>2. /\ TypeInv /\ TypeOK /\ QOK(Q, Lines) /\ MessageOK(Waiting)
      /\ PlaceOK(Waiting, cp) /\ FamilyOK(Waiting) /\ OpenOK(Waiting, cp)
      /\ ReceiveOK(Waiting) /\ SelectOK(cp) /\ StackOK
      /\ cp \in Allocated /\ cp \in Process
      /\ \A q \in Queues : Waiting[q] \subseteq Process /\ cp \notin Waiting[q]
      /\ \A q, r \in Queues : q # r => Waiting[q] \cap Waiting[r] = {}
  BY RunFacts
<1>3. PICK B : B = Members(C) /\ c = cp
  OBVIOUS
<1>4. /\ t \in Waiting[ch] /\ t \in Process /\ t # c
  <2>1. t # NIL => t \in Members(Lines)[ch]
    BY <1>1, <1>2, NamesFacts, MemberFacts
  <2>2. QED  BY <2>1, <1>1, <1>2, <1>3, NamesFacts, SMT DEF Waiting
<1>5. /\ B[ch] = Waiting[ch] \ {t} /\ B[READY] = Waiting[READY] \cup {t, c}
      /\ \A q \in Queues : q # ch /\ q # READY => B[q] = Waiting[q]
      /\ B[FREE] = Waiting[FREE] /\ \A d \in Channel : B[d] \subseteq Waiting[d]
      /\ \A d \in Channel : d # ch => B[d] = Waiting[d]
  BY <1>1, <1>3, NamesFacts
<1>6. Allocated' = Allocated /\ LiveIn(B)' = LiveIn(Waiting) /\ c \in LiveIn(Waiting)
  <2>1. Allocated' = Allocated
    BY <1>2, TransferTypes
  <2>2. QED  BY <2>1, <1>2, <1>3, <1>5, NamesFacts, SMTT(30) DEF LiveIn
<1>7. at'[c] = place /\ \A r \in Process \ {c} : at'[r] = at[r]
  <2>1. at \in [Process -> Places]
    BY <1>2 DEF TypeOK
  <2>2. QED  BY <2>1, <1>1, <1>2, <1>3, SMT
<1>8. /\ opened'[c] \notin Channel /\ Opens(c)' = {} /\ tried'[c] = {} /\ sons[c] = 0
      /\ \A d \in Channel : chindex'[d] = IF d \in Opens(c) THEN 0 ELSE chindex[d]
      /\ \A r \in Process \ {c} :
            /\ opened'[r] = opened[r] /\ Opens(r)' = Opens(r) /\ (ListOK(r) => ListOK(r)')
            /\ rch'[r] = rch[r] /\ guards'[r] = guards[r] /\ tried'[r] = tried[r]
  BY DEF Takes
<1>9. PlaceOK(B, NIL)'
  <2>1. \A q \in Queues : B[q] \subseteq Allocated \ {NIL}
    <3>1. \A q \in Queues : Waiting[q] \subseteq Allocated
      BY <1>2 DEF PlaceOK
    <3>2. t \in Allocated /\ c \in Allocated /\ NIL \notin Allocated
      BY <1>2, <1>3, <1>4, <3>1, NamesFacts DEF Allocated
    <3>3. QED  BY <3>1, <3>2, <1>5
  <2>2. ASSUME NEW r \in Allocated
        PROVE  (\E q \in Queues : r \in B[q]) \/ sons[r] > 0 \/ opened'[r] \in Channel
    <3>1. CASE r = t \/ r = c
      BY <3>1, <1>5, NamesFacts
    <3>2. CASE r # t /\ r # c
      <4>1. (\E q \in Queues : r \in Waiting[q]) \/ sons[r] > 0 \/ opened[r] \in Channel
        BY <3>2, <1>2, <1>3 DEF PlaceOK
      <4>2. r \in Process
        BY DEF Allocated
      <4>3. \A q \in Queues : r \in Waiting[q] => r \in B[q]
        BY <3>2, <1>5
      <4>4. QED  BY <4>1, <4>2, <4>3, <3>2, <1>8
    <3>3. QED  BY <3>1, <3>2
  <2>3. ASSUME NEW q \in Queues, NEW r \in B[q]
        PROVE  sons[r] = 0 /\ opened'[r] \notin Channel
    <3>1. CASE r = c
      BY <3>1, <1>8
    <3>2. CASE r # c
      <4>1. \E u \in Queues : r \in Waiting[u]
        BY <3>2, <1>4, <1>5, NamesFacts
      <4>2. QED  BY <4>1, <3>2, <1>2, <1>8 DEF PlaceOK
    <3>3. QED  BY <3>1, <3>2
  <2>4. ASSUME NEW r \in Process, at'[r] # "body" PROVE r \in LiveIn(B)' /\ sons[r] = 0
    <3>1. CASE r = c
      BY <3>1, <1>6, <1>8
    <3>2. CASE r # c
      BY <3>2, <2>4, <1>2, <1>6, <1>7 DEF PlaceOK
    <3>3. QED  BY <3>1, <3>2
  <2>5. QED  BY <2>1, <2>2, <2>3, <2>4, <1>1, <1>6 DEF PlaceOK
<1>10. FamilyOK(B)'
  BY <1>1, <1>2, <1>6, SMT DEF FamilyOK, SonsIn
<1>11. OpenOK(B, NIL)'
  <2>1. ASSUME NEW d \in Channel, chindex'[d] # 0 PROVE owner'[d] \in Process /\ B[d] = {}
    <3>1. chindex[d] # 0
      BY <2>1, <1>8
    <3>2. owner[d] \in Process /\ Waiting[d] = {}
      BY <3>1, <1>2 DEF OpenOK
    <3>3. QED  BY <3>2, <1>1, <1>5
  <2>2. ASSUME NEW r \in Process, opened'[r] \notin Channel PROVE Opens(r)' = {}
    <3>1. CASE r = c
      BY <3>1, <1>8
    <3>2. CASE r # c
      BY <3>2, <2>2, <1>2, <1>8 DEF OpenOK
    <3>3. QED  BY <3>1, <3>2
  <2>3. ASSUME NEW r \in Process, opened'[r] \in Channel
        PROVE  ListOK(r)' /\ at'[r] \in {"receive", "select"} /\ r # NIL
    <3>1. r # c /\ opened[r] \in Channel
      BY <2>3, <1>8
    <3>2. QED  BY <3>1, <1>2, <1>3, <1>7, <1>8, NamesFacts DEF OpenOK
  <2>4. QED  BY <2>1, <2>2, <2>3 DEF OpenOK
<1>12. ReceiveOK(B)'
  <2> SUFFICES ASSUME NEW r \in Process, at'[r] = "receive"
               PROVE  /\ rch'[r] \in Channel /\ owner'[rch'[r]] = r
                      /\ guardindex'[r] <= 0
                      /\ opened'[r] \in Channel => Opens(r)' = {rch'[r]} /\ chindex'[rch'[r]] < 0
                      /\ opened'[r] \notin Channel => B[rch'[r]] # {}
    BY DEF ReceiveOK
  <2>1. r # c /\ rch'[r] = rch[r] /\ at[r] = "receive"
    BY <1>1, <1>7, <1>8
  <2>2. /\ rch[r] \in Channel /\ owner[rch[r]] = r /\ guardindex[r] <= 0
        /\ opened[r] \in Channel => Opens(r) = {rch[r]} /\ chindex[rch[r]] < 0
        /\ opened[r] \notin Channel => Waiting[rch[r]] # {}
    BY <2>1, <1>2 DEF ReceiveOK
  <2>3. rch[r] # ch /\ rch[r] \notin Opens(c) /\ B[rch[r]] = Waiting[rch[r]]
    BY <2>1, <2>2, <1>1, <1>5 DEF Opens
  <2>4. QED  BY <2>1, <2>2, <2>3, <1>1, <1>8
<1>13. SelectOK(NIL)'
  <2>1. ASSUME NEW r \in Process, InSelect(r)' PROVE SelectsOK(r, NIL)'
    <3>1. r # c /\ at'[r] = at[r] /\ InSelect(r)
      BY <2>1, <1>1, <1>7 DEF InSelect
    <3>2. SelectsOK(r, c) /\ guards'[r] = guards[r] /\ tried'[r] = tried[r]
      <4>1. SelectOK(c)
        BY <1>2
      <4>2. SelectsOK(r, c)
        BY <4>1, <3>1 DEF SelectOK
      <4>3. QED  BY <4>2, <3>1, <1>8
    <3>3. \A d \in Opens(r)' : d \in Opens(r) /\ chindex'[d] = chindex[d]
      BY <3>1, <1>8 DEF Opens
    <3>4. QED  BY <3>1, <3>2, <3>3, <1>1 DEF SelectsOK
  <2>2. ASSUME NEW r \in Process, ~InSelect(r)' PROVE tried'[r] = {}
    <3>1. CASE r = c
      BY <3>1, <1>8
    <3>2. CASE r # c
      BY <3>2, <2>2, <1>2, <1>7, <1>8 DEF SelectOK, InSelect
    <3>3. QED  BY <3>1, <3>2
  <2>3. ASSUME NEW r \in Process, at'[r] = "body" PROVE guardindex'[r] <= 0
    <3>1. CASE r = c
      BY <3>1, <2>3, <1>1, <1>7
    <3>2. CASE r # c
      BY <3>2, <2>3, <1>1, <1>2, <1>7 DEF SelectOK
    <3>3. QED  BY <3>1, <3>2
  <2>4. QED  BY <2>1, <2>2, <2>3 DEF SelectOK
<1>14. MessageOK(B)'
  <2>1. ASSUME NEW d \in Channel, NEW r \in B[d] PROVE msgadr'[r] = r
    <3>1. r \in Waiting[d] /\ r # t
      <4>1. CASE d = ch
        BY <4>1, <1>5
      <4>2. CASE d # ch
        <5>1. r \in Waiting[d] /\ Waiting[d] \cap Waiting[ch] = {}
          BY <4>2, <1>2, <1>5, NamesFacts
        <5>2. QED  BY <5>1, <1>4
      <4>3. QED  BY <4>1, <4>2
    <3>2. r \in Process /\ msgadr[r] = r
      BY <3>1, <1>2, NamesFacts DEF MessageOK
    <3>3. msgadr \in [Process -> Process \cup {NIL}]
      BY <1>2 DEF TypeOK
    <3>4. QED  BY <3>1, <3>2, <3>3, <1>1, <1>4
  <2>2. QED  BY <2>1 DEF MessageOK
<1>15. Waiting[FREE] \subseteq B[FREE]
  BY <1>5
<1>16. QED
  BY <1>2, <1>3, <1>9, <1>10, <1>11, <1>12, <1>13, <1>14, <1>15, DispatchStep
-----------------------------------------------------------------------------
(* OpenChannel puts a closed channel of the running process in front of    *)
(* its list; no other list changes.                                        *)
LEMMA OpenFacts ==
    ASSUME TypeOK, NEW B, NEW c \in Process, c = cp, OpenOK(B, c), NEW ch \in Channel,
           owner[ch] = c, chindex[ch] = 0, opened[c] # WILD,
           NEW n \in -1..MaxGuards, n # 0, OpenChannel(ch, n), owner' = owner
    PROVE  /\ chindex' \in [Channel -> -1..MaxGuards]
           /\ chindex'[ch] = n /\ \A d \in Channel \ {ch} : chindex'[d] = chindex[d]
           /\ chnext' \in [Channel -> Channel \cup {NIL}]
           /\ opened' \in [Process -> Channel \cup {NIL, WILD}]
           /\ opened'[c] = ch /\ \A r \in Process \ {c} : opened'[r] = opened[r]
           /\ Opens(c)' = Opens(c) \cup {ch} /\ ListOK(c)'
           /\ \A r \in Process \ {c} : Opens(r)' = Opens(r)
           /\ \A r \in Process \ {c} : ListOK(r) => ListOK(r)'
<1>1. /\ chindex' = [chindex EXCEPT ![ch] = n]
      /\ chnext' = [chnext EXCEPT ![ch] = opened[c]]
      /\ opened' = [opened EXCEPT ![c] = ch]
  BY DEF OpenChannel
<1>2. /\ chindex \in [Channel -> -1..MaxGuards] /\ chnext \in [Channel -> Channel \cup {NIL}]
      /\ opened \in [Process -> Channel \cup {NIL, WILD}]
  BY DEF TypeOK
<1>3. /\ chindex' \in [Channel -> -1..MaxGuards]
      /\ chindex'[ch] = n /\ \A d \in Channel \ {ch} : chindex'[d] = chindex[d]
  BY <1>1, <1>2
<1>4. /\ chnext' \in [Channel -> Channel \cup {NIL}] /\ opened[c] \in Channel \cup {NIL}
      /\ chnext'[ch] = opened[c] /\ \A d \in Channel \ {ch} : chnext'[d] = chnext[d]
  BY <1>1, <1>2
<1>5. /\ opened' \in [Process -> Channel \cup {NIL, WILD}]
      /\ opened'[c] = ch /\ \A r \in Process \ {c} : opened'[r] = opened[r]
  BY <1>1, <1>2
<1>6. /\ Opens(c)' = Opens(c) \cup {ch} /\ ch \notin Opens(c)
      /\ \A r \in Process \ {c} : Opens(r)' = Opens(r)
  BY <1>3 DEF Opens
<1>7. DOMAIN chnext = Channel /\ DOMAIN chnext' = Channel
  BY <1>2, <1>4
<1>8. ASSUME NEW r \in Process, r # c, ListOK(r) PROVE ListOK(r)'
  <2>1. PICK s : s = ListOf(r)
    OBVIOUS
  <2>2. /\ IsPath(s, opened[r], chnext, NIL)
        /\ \A i, j \in 1..Len(s) : s[i] = s[j] => i = j
        /\ Opens(r) = {s[k] : k \in 1..Len(s)}
    BY <2>1, <1>8 DEF ListOK
  <2>3. \A i \in 1..Len(s) : s[i] \in Opens(r)
    BY <2>2
  <2>4. \A i \in 1..Len(s) : s[i] \in Channel \ {ch}
    BY <2>3, <1>8 DEF Opens
  <2>5. \A i \in 1..Len(s) : chnext'[s[i]] = chnext[s[i]]
    BY <2>4, <1>4
  <2>6. IsPath(s, opened[r], chnext', NIL)
    BY <2>2, <2>5, <1>7, PathSame
  <2>7. s \in Seq(Channel)
    BY <2>2, <1>7 DEF IsPath
  <2>8. Len(s) <= Cardinality(Channel) /\ Cardinality(Channel) \in Nat
    BY <2>2, <2>7, PathLength, CSPAssumption
  <2>9. Walk(opened[r], chnext', NIL, Cardinality(Channel)) = s
    BY <2>6, <2>8, <1>7, NamesFacts, WalkIsPath
  <2>10. ListOf(r)' = s
    BY <2>9, <1>5, <1>8 DEF ListOf
  <2>11. opened'[r] = opened[r] /\ Opens(r)' = Opens(r)
    BY <1>5, <1>6, <1>8
  <2>12. QED  BY <2>2, <2>6, <2>10, <2>11, SMT DEF ListOK
<1>9. ListOK(c)'
  <2>1. PICK s : /\ IsPath(s, opened[c], chnext, NIL)
                 /\ \A i, j \in 1..Len(s) : s[i] = s[j] => i = j
                 /\ Opens(c) = {s[k] : k \in 1..Len(s)}
    <3>1. CASE opened[c] \in Channel
      <4>1. ListOK(c)
        BY <3>1 DEF OpenOK
      <4>2. QED  BY <4>1, SMT DEF ListOK
    <3>2. CASE opened[c] = NIL
      <4>1. Opens(c) = {}
        BY <3>2, NamesFacts DEF OpenOK
      <4>2. <<>> \in Seq(DOMAIN chnext) /\ Len(<<>>) = 0
        BY SMT
      <4>3. IsPath(<<>>, NIL, chnext, NIL)
        BY <4>2, SMT DEF IsPath
      <4>4. /\ \A i, j \in 1..Len(<<>>) : <<>>[i] = <<>>[j] => i = j
            /\ {} = {<<>>[k] : k \in 1..Len(<<>>)}
        BY <4>2, SMT
      <4>5. QED  BY <4>1, <4>3, <4>4, <3>2, SMT
    <3>3. QED  BY <3>1, <3>2, <1>4
  <2>2. \A i \in 1..Len(s) : s[i] \in Opens(c)
    BY <2>1
  <2>3. \A i \in 1..Len(s) : s[i] # ch /\ s[i] \in Channel
    BY <2>2, <1>6 DEF Opens
  <2>4. \A i \in 1..Len(s) : chnext'[s[i]] = chnext[s[i]]
    BY <2>3, <1>4
  <2>5. PICK u : /\ IsPath(u, ch, chnext', NIL)
                 /\ \A i, j \in 1..Len(u) : u[i] = u[j] => i = j
                 /\ \A y : (\E i \in 1..Len(u) : u[i] = y)
                          <=> (y = ch \/ \E i \in 1..Len(s) : s[i] = y)
    <3>1. PICK a, b, f : a = chnext /\ b = chnext' /\ f = opened[c]
      OBVIOUS
    <3>2. /\ IsPath(s, f, a, NIL) /\ ch \in DOMAIN a /\ DOMAIN b = DOMAIN a /\ b[ch] = f
          /\ \A i \in 1..Len(s) : s[i] # ch
          /\ \A i \in 1..Len(s) : b[s[i]] = a[s[i]]
          /\ \A i, j \in 1..Len(s) : s[i] = s[j] => i = j
      BY <3>1, <2>1, <2>3, <2>4, <1>4, <1>7
    <3>3. IsPathWith(ch, s, b, NIL)
      BY <3>2, PathCons
    <3>4. QED  BY <3>1, <3>3, Zenon DEF IsPathWith
  <2>6. u \in Seq(Channel)
    BY <2>5, <1>7 DEF IsPath
  <2>7. Len(u) <= Cardinality(Channel) /\ Cardinality(Channel) \in Nat
    BY <2>5, <2>6, PathLength, CSPAssumption
  <2>8. Walk(ch, chnext', NIL, Cardinality(Channel)) = u
    BY <2>5, <2>7, <1>7, NamesFacts, WalkIsPath, SMTT(30)
  <2>9. ListOf(c)' = u /\ opened'[c] = ch
    BY <2>8, <1>5 DEF ListOf
  <2>10. Opens(c)' = {u[i] : i \in 1..Len(u)}
    <3>1. \A y : y \in {u[i] : i \in 1..Len(u)} <=> \E i \in 1..Len(u) : u[i] = y
      OBVIOUS
    <3>2. \A y : y \in Opens(c) <=> \E i \in 1..Len(s) : s[i] = y
      BY <2>1
    <3>3. \A y : y \in {u[i] : i \in 1..Len(u)} <=> y \in Opens(c) \cup {ch}
      BY <3>1, <3>2, <2>5
    <3>4. QED  BY <3>3, <1>6
  <2>11. QED  BY <2>5, <2>9, <2>10, SMT DEF ListOK
<1>10. QED  BY <1>3, <1>4, <1>5, <1>6, <1>8, <1>9
-----------------------------------------------------------------------------
(* Receive, and GUARD, when a sender waits. *)
LEMMA ReceiveNowStep ==
    ASSUME CSPInv, mode = "run", NEW ch \in Channel, owner[ch] = cp, sons[cp] = 0,
           opened[cp] # WILD, Sending(ch), NEW place \in {"body", "guard"},
           place = "body" => guardindex[cp] <= 0, ReceiveNow(ch, place)
    PROVE  CSPInv'
<1>0. PICK t, c : t = Q.tail[ch] /\ c = cp
  OBVIOUS
<1>1. /\ msgadr' = [msgadr EXCEPT ![t] = NIL] /\ CloseChannels(c)
      /\ at' = [at EXCEPT ![c] = place]
      /\ guards' = [guards EXCEPT ![c] = <<>>] /\ tried' = [tried EXCEPT ![c] = {}]
      /\ DoTransfer(Push(READY, c, Push(READY, t, Pop(ch, Q))))
      /\ father' = father /\ sons' = sons /\ guardcount' = guardcount
      /\ guardindex' = guardindex /\ rch' = rch /\ owner' = owner /\ made' = made
  BY <1>0 DEF ReceiveNow, LeaveSelect
<1>2. /\ TypeInv /\ TypeOK /\ QOK(Q, Lines) /\ OpenOK(Waiting, c)
      /\ c \in Allocated /\ c \in Process
      /\ \A q \in Queues : c \notin Waiting[q]
  BY <1>0, RunFacts
<1>3. t # NIL /\ t \in Process
  <2>1. /\ Q.head[ch] = NIL <=> Members(Lines)[ch] = {}
        /\ Q.tail[ch] = NIL <=> Members(Lines)[ch] = {}
        /\ Q.tail[ch] # NIL => Q.tail[ch] \in Members(Lines)[ch]
        /\ Members(Lines)[ch] \subseteq Process
    BY <1>2, NamesFacts, MemberFacts
  <2>2. QED  BY <2>1, <1>0 DEF Sending
<1>4. PICK C : /\ QOK(Push(READY, c, Push(READY, t, Pop(ch, Q))), C)
               /\ Members(C)[ch] = Waiting[ch] \ {Q.tail[ch]}
               /\ Members(C)[READY] = Waiting[READY] \cup {Q.tail[ch], c}
               /\ \A q \in Queues : q # ch /\ q # READY => Members(C)[q] = Waiting[q]
               /\ C[ch] = Tail(Lines[ch])
               /\ \A d \in Channel : d # ch => C[d] = Lines[d]
  <2>1. Taken(ch, c, c, t)
    BY <1>0, <1>2, <1>3, TakeQueues
  <2>2. QED  BY <2>1 DEF Taken
<1>5. PICK R : R = Push(READY, c, Push(READY, t, Pop(ch, Q)))
  OBVIOUS
<1>6. QOK(R, C) /\ DoTransfer(R)
  BY <1>1, <1>4, <1>5
<1>7. /\ chindex' \in [Channel -> -1..MaxGuards]
      /\ \A d \in Channel : chindex'[d] = IF d \in Opens(c) THEN 0 ELSE chindex[d]
      /\ opened' = [opened EXCEPT ![c] = NIL] /\ chnext' = chnext
      /\ Opens(c)' = {} /\ \A r \in Process \ {c} : Opens(r)' = Opens(r)
      /\ \A r \in Process \ {c} : ListOK(r) => ListOK(r)'
  <2>1. opened[c] # WILD
    BY <1>0
  <2>2. QED  BY <2>1, <1>1, <1>2, CloseFacts
<1>8. /\ opened \in [Process -> Channel \cup {NIL, WILD}] /\ at \in [Process -> Places]
      /\ msgadr \in [Process -> Process \cup {NIL}]
      /\ tried \in [Process -> SUBSET (1..MaxGuards)]
      /\ guards \in [Process -> Seq(Channel \cup {NIL})]
  BY <1>2 DEF TypeOK, TypeInv
<1>9. /\ opened'[c] = NIL /\ tried'[c] = {} /\ guards'[c] = <<>>
      /\ \A r \in Process \ {c} :
            opened'[r] = opened[r] /\ guards'[r] = guards[r] /\ tried'[r] = tried[r]
  BY <1>1, <1>2, <1>7, <1>8
<1>10. TypeInv'
  <2>1. /\ opened' \in [Process -> Channel \cup {NIL, WILD}] /\ at' \in [Process -> Places]
        /\ msgadr' \in [Process -> Process \cup {NIL}]
        /\ tried' \in [Process -> SUBSET (1..MaxGuards)]
    BY <1>1, <1>2, <1>3, <1>7, <1>8 DEF Places
  <2>2. guards' \in [Process -> Seq(Channel \cup {NIL})]
    <3>1. <<>> \in Seq(Channel \cup {NIL})
      BY SMT
    <3>2. QED  BY <3>1, <1>1, <1>8
  <2>3. ASSUME NEW r \in Process
        PROVE  /\ Len(guards'[r]) <= MaxGuards
               /\ \A k \in 1..Len(guards'[r]) : guards'[r][k] \in Channel \cup {NIL}
    <3>1. CASE r = c
      <4>1. Len(<<>>) = 0
        OBVIOUS
      <4>2. QED  BY <3>1, <4>1, <1>9, CSPAssumption, SMTT(30)
    <3>2. CASE r # c
      BY <3>2, <1>2, <1>9 DEF TypeOK
    <3>3. QED  BY <3>1, <3>2
  <2>4. /\ cp' \in Process \cup {NIL}
        /\ Q' \in [next : [Process -> Process \cup {NIL}],
                   head : [Queues -> Process \cup {NIL}],
                   tail : [Queues -> Process \cup {NIL}]]
        /\ cor' \in [Process -> Area \cup {NIL}]
        /\ CoroutineTypeOK'
        /\ mode' \in Modes
    BY <1>0, <1>2, <1>6, TransferTypes
  <2>5. QED  BY <2>1, <2>2, <2>3, <2>4, <1>1, <1>2, <1>7 DEF TypeInv, TypeOK
<1>11. /\ Members(C)[ch] = Waiting[ch] \ {t}
       /\ Members(C)[READY] = Waiting[READY] \cup {t, cp}
       /\ \A q \in Queues : q # ch /\ q # READY => Members(C)[q] = Waiting[q]
       /\ at' = [at EXCEPT ![cp] = place]
  BY <1>0, <1>1, <1>4
<1>12. \A r \in Process \ {c} :
          /\ opened'[r] = opened[r] /\ Opens(r)' = Opens(r) /\ (ListOK(r) => ListOK(r)')
          /\ rch'[r] = rch[r] /\ guards'[r] = guards[r] /\ tried'[r] = tried[r]
  BY <1>1, <1>7, <1>9
<1>13. opened'[c] \notin Channel
  BY <1>9, NamesFacts
<1>14. Takes(ch, t, c, place, C)
  BY <1>0, <1>1, <1>3, <1>7, <1>9, <1>11, <1>12, <1>13 DEF Takes
<1>15. QED
  BY <1>0, <1>6, <1>10, <1>14, TakesStep

(* The rest of Receive.  The message is there. *)
LEMMA ReceiveRestStep == CSPInv /\ ReceiveRest => CSPInv'
<1> SUFFICES ASSUME CSPInv, ReceiveRest PROVE CSPInv'
  OBVIOUS
<1>0. PICK ch, t, c : ch = rch[cp] /\ t = Q.tail[ch] /\ c = cp
  OBVIOUS
<1>1. /\ mode = "run" /\ at[c] = "receive" /\ msgadr' = [msgadr EXCEPT ![t] = NIL]
      /\ at' = [at EXCEPT ![c] = "body"] /\ rch' = [rch EXCEPT ![c] = NIL]
      /\ DoTransfer(Push(READY, t, Push(READY, c, Pop(ch, Q))))
      /\ father' = father /\ sons' = sons /\ opened' = opened /\ guardcount' = guardcount
      /\ guards' = guards /\ tried' = tried /\ guardindex' = guardindex
      /\ owner' = owner /\ made' = made /\ chindex' = chindex /\ chnext' = chnext
  BY <1>0 DEF ReceiveRest, descVars, chanVars
<1>2. /\ TypeInv /\ TypeOK /\ QOK(Q, Lines) /\ OpenOK(Waiting, c) /\ ReceiveOK(Waiting)
      /\ PlaceOK(Waiting, c) /\ SelectOK(c) /\ c \in Allocated /\ c \in Process
      /\ \A q \in Queues : c \notin Waiting[q]
  BY <1>0, <1>1, RunFacts
<1>3. opened[c] \notin Channel /\ sons[c] = 0 /\ Opens(c) = {} /\ tried[c] = {}
  BY <1>1, <1>2 DEF OpenOK, PlaceOK, SelectOK, InSelect
<1>4. ch \in Channel /\ owner[ch] = c /\ guardindex[c] <= 0 /\ Waiting[ch] # {}
  BY <1>0, <1>1, <1>2, <1>3 DEF ReceiveOK
<1>5. t # NIL /\ t \in Process
  <2>1. /\ Q.tail[ch] = NIL <=> Members(Lines)[ch] = {}
        /\ Q.tail[ch] # NIL => Q.tail[ch] \in Members(Lines)[ch]
        /\ Members(Lines)[ch] \subseteq Process
    BY <1>2, <1>4, NamesFacts, MemberFacts
  <2>2. QED  BY <2>1, <1>0, <1>4 DEF Waiting
<1>6. PICK C : /\ QOK(Push(READY, t, Push(READY, c, Pop(ch, Q))), C)
               /\ Members(C)[ch] = Waiting[ch] \ {Q.tail[ch]}
               /\ Members(C)[READY] = Waiting[READY] \cup {Q.tail[ch], c}
               /\ \A q \in Queues : q # ch /\ q # READY => Members(C)[q] = Waiting[q]
               /\ C[ch] = Tail(Lines[ch])
               /\ \A d \in Channel : d # ch => C[d] = Lines[d]
  <2>1. Taken(ch, c, t, c)
    BY <1>0, <1>2, <1>4, <1>5, TakeQueues
  <2>2. QED  BY <2>1 DEF Taken
<1>7. PICK R : R = Push(READY, t, Push(READY, c, Pop(ch, Q)))
  OBVIOUS
<1>8. QOK(R, C) /\ DoTransfer(R)
  BY <1>1, <1>6, <1>7
<1>9. TypeInv'
  <2>1. /\ at' \in [Process -> Places] /\ rch' \in [Process -> Channel \cup {NIL}]
        /\ msgadr' \in [Process -> Process \cup {NIL}]
    BY <1>1, <1>2, <1>5 DEF Places, TypeOK
  <2>2. /\ cp' \in Process \cup {NIL}
        /\ Q' \in [next : [Process -> Process \cup {NIL}],
                   head : [Queues -> Process \cup {NIL}],
                   tail : [Queues -> Process \cup {NIL}]]
        /\ cor' \in [Process -> Area \cup {NIL}]
        /\ CoroutineTypeOK'
        /\ mode' \in Modes
    BY <1>0, <1>1, <1>2, <1>8, TransferTypes
  <2>3. QED  BY <2>1, <2>2, <1>1, <1>2 DEF TypeInv, TypeOK
<1>10. /\ Opens(c)' = {}
       /\ \A d \in Channel : chindex'[d] = IF d \in Opens(c) THEN 0 ELSE chindex[d]
  BY <1>1, <1>3 DEF Opens
<1>11. \A r \in Process \ {c} :
          /\ opened'[r] = opened[r] /\ Opens(r)' = Opens(r) /\ (ListOK(r) => ListOK(r)')
          /\ rch'[r] = rch[r] /\ guards'[r] = guards[r] /\ tried'[r] = tried[r]
  <2>1. rch \in [Process -> Channel \cup {NIL}]
    BY <1>2 DEF TypeOK
  <2>2. \A r \in Process \ {c} : rch'[r] = rch[r]
    BY <2>1, <1>1
  <2>3. \A r : Opens(r)' = Opens(r)
    BY <1>1 DEF Opens
  <2>4. \A r : ListOf(r)' = ListOf(r)
    BY <1>1 DEF ListOf
  <2>5. \A r : ListOK(r) => ListOK(r)'
    BY <2>3, <2>4, <1>1 DEF ListOK
  <2>6. QED  BY <2>2, <2>3, <2>5, <1>1
<1>12. /\ Members(C)[ch] = Waiting[ch] \ {t}
       /\ Members(C)[READY] = Waiting[READY] \cup {t, cp}
       /\ \A q \in Queues : q # ch /\ q # READY => Members(C)[q] = Waiting[q]
       /\ at' = [at EXCEPT ![cp] = "body"]
       /\ opened'[c] \notin Channel /\ tried'[c] = {}
       /\ owner[ch] = cp /\ sons[cp] = 0 /\ guardindex[cp] <= 0
  BY <1>0, <1>1, <1>3, <1>4, <1>6
<1>13. Takes(ch, t, c, "body", C)
  BY <1>0, <1>1, <1>5, <1>10, <1>11, <1>12 DEF Takes
<1>14. QED
  BY <1>0, <1>1, <1>4, <1>8, <1>9, <1>13, TakesStep

(* Receive when no sender waits: the channel is opened. *)
LEMMA ReceiveOpenStep ==
    ASSUME CSPInv, mode = "run", at[cp] = "body", sons[cp] = 0, NEW ch \in Channel,
           owner[ch] = cp, opened[cp] # WILD, ~Sending(ch), OpenChannel(ch, -1),
           at' = [at EXCEPT ![cp] = "receive"], rch' = [rch EXCEPT ![cp] = ch],
           DoTransfer(Q), father' = father, sons' = sons, guardcount' = guardcount,
           guards' = guards, tried' = tried, guardindex' = guardindex, owner' = owner,
           made' = made, msgadr' = msgadr
    PROVE  CSPInv'
<1>1. /\ TypeInv /\ TypeOK /\ QOK(Q, Lines) /\ MessageOK(Waiting)
      /\ PlaceOK(Waiting, cp) /\ FamilyOK(Waiting) /\ OpenOK(Waiting, cp)
      /\ ReceiveOK(Waiting) /\ SelectOK(cp) /\ StackOK
      /\ cp \in Allocated /\ cp \in Process
      /\ \A q \in Queues : Waiting[q] \subseteq Process /\ cp \notin Waiting[q]
  BY RunFacts
<1>2. PICK B, c, C : B = Waiting /\ c = cp /\ C = Lines
  OBVIOUS
<1>3. /\ opened[c] \notin Channel /\ Opens(c) = {} /\ chindex[ch] = 0 /\ B[ch] = {}
      /\ guardindex[c] <= 0 /\ tried[c] = {} /\ c \in Process /\ owner[ch] = c
  <2>1. opened[c] \notin Channel /\ Opens(c) = {}
    BY <1>1, <1>2, BodyFacts
  <2>2. guardindex[c] <= 0 /\ tried[c] = {}
    BY <1>1, <1>2 DEF SelectOK, InSelect
  <2>3. Q.head[ch] = NIL <=> Members(Lines)[ch] = {}
    BY <1>1, NamesFacts, MemberFacts
  <2>4. QED  BY <2>1, <2>2, <2>3, <1>1, <1>2 DEF Opens, Sending, Waiting
<1>4. /\ chindex' \in [Channel -> -1..MaxGuards]
      /\ chindex'[ch] = -1 /\ \A d \in Channel \ {ch} : chindex'[d] = chindex[d]
      /\ chnext' \in [Channel -> Channel \cup {NIL}]
      /\ opened' \in [Process -> Channel \cup {NIL, WILD}]
      /\ opened'[c] = ch /\ \A r \in Process \ {c} : opened'[r] = opened[r]
      /\ Opens(c)' = Opens(c) \cup {ch} /\ ListOK(c)'
      /\ \A r \in Process \ {c} : Opens(r)' = Opens(r)
      /\ \A r \in Process \ {c} : ListOK(r) => ListOK(r)'
  <2>1. -1 \in -1..MaxGuards /\ -1 # 0
    BY CSPAssumption, SMT
  <2>2. OpenOK(B, c) /\ opened[c] # WILD
    BY <1>1, <1>2
  <2>3. QED  BY <2>1, <2>2, <1>1, <1>2, <1>3, OpenFacts
<1>5. /\ at'[c] = "receive" /\ \A r \in Process \ {c} : at'[r] = at[r]
      /\ rch'[c] = ch /\ \A r \in Process \ {c} : rch'[r] = rch[r]
  <2>1. at \in [Process -> Places] /\ rch \in [Process -> Channel \cup {NIL}]
    BY <1>1 DEF TypeOK
  <2>2. QED  BY <2>1, <1>2, <1>3
<1>6. Allocated' = Allocated /\ TypeInv'
  <2>1. at' \in [Process -> Places] /\ rch' \in [Process -> Channel \cup {NIL}]
    BY <1>1 DEF TypeOK, Places
  <2>2. QED  BY <2>1, <1>1, <1>4, TransferTypes DEF TypeInv, TypeOK
<1>7. LiveIn(B)' = LiveIn(Waiting) /\ c \in LiveIn(Waiting)
  BY <1>1, <1>2, <1>6, NamesFacts DEF LiveIn
<1>8. PlaceOK(B, NIL)'
  <2>1. \A q \in Queues : B[q] \subseteq Allocated \ {NIL}
    BY <1>1, <1>2, NamesFacts DEF PlaceOK, Allocated
  <2>2. ASSUME NEW r \in Allocated
        PROVE  (\E q \in Queues : r \in B[q]) \/ sons[r] > 0 \/ opened'[r] \in Channel
    <3>1. CASE r = c
      BY <3>1, <1>4
    <3>2. CASE r # c
      <4>1. (\E q \in Queues : r \in B[q]) \/ sons[r] > 0 \/ opened[r] \in Channel
        BY <3>2, <1>1, <1>2 DEF PlaceOK
      <4>2. r \in Process
        BY DEF Allocated
      <4>3. QED  BY <4>1, <4>2, <3>2, <1>4
    <3>3. QED  BY <3>1, <3>2
  <2>3. ASSUME NEW q \in Queues, NEW r \in B[q]
        PROVE  sons[r] = 0 /\ opened'[r] \notin Channel
    <3>1. r # c /\ r \in Process /\ sons[r] = 0 /\ opened[r] \notin Channel
      BY <1>1, <1>2 DEF PlaceOK
    <3>2. QED  BY <3>1, <1>4
  <2>4. ASSUME NEW r \in Process, at'[r] # "body" PROVE r \in LiveIn(B)' /\ sons[r] = 0
    <3>1. CASE r = c
      BY <3>1, <1>2, <1>7
    <3>2. CASE r # c
      BY <3>2, <2>4, <1>1, <1>5, <1>7 DEF PlaceOK
    <3>3. QED  BY <3>1, <3>2
  <2>5. QED  BY <2>1, <2>2, <2>3, <2>4, <1>6 DEF PlaceOK
<1>9. FamilyOK(B)' /\ MessageOK(B)'
  BY <1>1, <1>2, <1>6, SameFamily DEF MessageOK
<1>10. OpenOK(B, NIL)'
  <2>1. ASSUME NEW d \in Channel, chindex'[d] # 0 PROVE owner'[d] \in Process /\ B[d] = {}
    <3>1. CASE d = ch
      BY <3>1, <1>3
    <3>2. CASE d # ch
      BY <3>2, <2>1, <1>1, <1>2, <1>4 DEF OpenOK
    <3>3. QED  BY <3>1, <3>2
  <2>2. ASSUME NEW r \in Process, opened'[r] \notin Channel PROVE Opens(r)' = {}
    BY <2>2, <1>1, <1>4 DEF OpenOK
  <2>3. ASSUME NEW r \in Process, opened'[r] \in Channel
        PROVE  ListOK(r)' /\ at'[r] \in {"receive", "select"} /\ r # NIL
    <3>1. CASE r = c
      BY <3>1, <1>3, <1>4, <1>5, NamesFacts
    <3>2. CASE r # c
      BY <3>2, <2>3, <1>1, <1>2, <1>4, <1>5, NamesFacts DEF OpenOK
    <3>3. QED  BY <3>1, <3>2
  <2>4. QED  BY <2>1, <2>2, <2>3 DEF OpenOK
<1>11. ReceiveOK(B)'
  <2> SUFFICES ASSUME NEW r \in Process, at'[r] = "receive"
               PROVE  /\ rch'[r] \in Channel /\ owner'[rch'[r]] = r
                      /\ guardindex'[r] <= 0
                      /\ opened'[r] \in Channel => Opens(r)' = {rch'[r]} /\ chindex'[rch'[r]] < 0
                      /\ opened'[r] \notin Channel => B[rch'[r]] # {}
    BY DEF ReceiveOK
  <2>1. CASE r = c
    BY <2>1, <1>3, <1>4, <1>5, SMT
  <2>2. CASE r # c
    <3>1. /\ rch[r] \in Channel /\ owner[rch[r]] = r /\ guardindex[r] <= 0
          /\ opened[r] \in Channel => Opens(r) = {rch[r]} /\ chindex[rch[r]] < 0
          /\ opened[r] \notin Channel => B[rch[r]] # {}
      BY <2>2, <1>1, <1>2, <1>5 DEF ReceiveOK
    <3>2. rch[r] # ch
      BY <3>1, <2>2, <1>3
    <3>3. QED  BY <3>1, <3>2, <2>2, <1>4, <1>5, SMT
  <2>3. QED  BY <2>1, <2>2
<1>12. SelectOK(NIL)'
  <2>1. ASSUME NEW r \in Process, InSelect(r)' PROVE SelectsOK(r, NIL)'
    <3>1. r # c /\ at'[r] = at[r] /\ InSelect(r)
      BY <2>1, <1>5 DEF InSelect
    <3>2. SelectsOK(r, c)
      <4>1. SelectOK(c)
        BY <1>1, <1>2
      <4>2. QED  BY <4>1, <3>1 DEF SelectOK
    <3>3. \A d \in Opens(r)' : d \in Opens(r) /\ chindex'[d] = chindex[d]
      BY <3>1, <1>3, <1>4 DEF Opens
    <3>4. Opens(r)' = Opens(r)
      BY <3>1, <1>4
    <3>5. QED  BY <3>1, <3>2, <3>3, <3>4 DEF SelectsOK
  <2>2. ASSUME NEW r \in Process, ~InSelect(r)' PROVE tried'[r] = {}
    BY <2>2, <1>1, <1>3, <1>5 DEF SelectOK, InSelect
  <2>3. ASSUME NEW r \in Process, at'[r] = "body" PROVE guardindex'[r] <= 0
    BY <2>3, <1>1, <1>5 DEF SelectOK
  <2>4. QED  BY <2>1, <2>2, <2>3 DEF SelectOK
<1>13. QOK(Q, C) /\ B = Members(C) /\ Waiting[FREE] \subseteq B[FREE]
  BY <1>1, <1>2 DEF Waiting
<1>14. QED
  BY <1>1, <1>6, <1>8, <1>9, <1>10, <1>11, <1>12, <1>13, DispatchStep

LEMMA ReceiveStep ==
    ASSUME CSPInv, NEW ch \in Channel, Receive(ch)
    PROVE  CSPInv'
<1>1. mode = "run" /\ at[cp] = "body" /\ sons[cp] = 0
  BY DEF Receive, Calls
<1>2. CASE cp # owner[ch]
  <2>1. Stops("error")
    BY <1>2 DEF Receive
  <2>2. QED  BY <2>1, StopsStep DEF Modes
<1>3. CASE cp = owner[ch] /\ opened[cp] = WILD
  <2>1. Stops("wild")
    BY <1>3 DEF Receive, Unassigned
  <2>2. QED  BY <2>1, StopsStep DEF Modes
<1>4. CASE cp = owner[ch] /\ opened[cp] # WILD /\ Sending(ch)
  <2>1. ReceiveNow(ch, "body")
    BY <1>4 DEF Receive, Unassigned
  <2>2. guardindex[cp] <= 0
    BY <1>1, RunFacts DEF SelectOK
  <2>3. QED  BY <2>1, <2>2, <1>1, <1>4, ReceiveNowStep
<1>5. CASE cp = owner[ch] /\ opened[cp] # WILD /\ ~Sending(ch)
  <2>1. /\ OpenChannel(ch, -1) /\ at' = [at EXCEPT ![cp] = "receive"]
        /\ rch' = [rch EXCEPT ![cp] = ch] /\ DoTransfer(Q) /\ father' = father
        /\ sons' = sons /\ guardcount' = guardcount /\ guards' = guards /\ tried' = tried
        /\ guardindex' = guardindex /\ owner' = owner /\ made' = made /\ msgadr' = msgadr
    BY <1>5 DEF Receive, Unassigned
  <2>2. QED  BY <2>1, <1>1, <1>5, ReceiveOpenStep
<1>6. QED  BY <1>2, <1>3, <1>4, <1>5
=============================================================================
