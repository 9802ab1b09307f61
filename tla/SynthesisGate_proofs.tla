------------------------ MODULE SynthesisGate_proofs ------------------------
(***************************************************************************)
(* The slots of the synthesis gate, its concurrency limit and its turns,   *)
(* for every number of requests and every --max-concurrent; and, after it, *)
(* casting, the ambient emitter and the health check.                      *)
(***************************************************************************)
EXTENDS SynthesisGate, DialogueAndAmbient, SequenceTheorems,
        FiniteSetTheorems, TLAPS

-----------------------------------------------------------------------------
(***************************************************************************)
(* The slots.  That running counts the requests that hold a slot needs     *)
(* that each request has at most one continuation, at the stage its        *)
(* handler is at, and that whoever waits is in the queue, alone.           *)
(***************************************************************************)
\* The stage of a handler whose continuation is in the microtask queue.
StageOf(kind) ==
  IF kind = "call" THEN "calling" ELSE IF kind = "resume" THEN "woken" ELSE "settling"

\* The tasks of m are at the stages p, and no two are of one request.
Placed(m, p) == \A i \in DOMAIN m : p[m[i].req] = StageOf(m[i].kind)
Apart(m)     == \A i, j \in DOMAIN m : m[i].req = m[j].req => i = j

\* The requests that hold a slot at the stages p.
Held(p) == {r \in Requests : p[r] \in {"running", "settling"}}

WaiterQueued ==
  \/ queue = <<>> /\ \A r \in Requests : pc[r] # "waiting"
  \/ \E w \in Requests : queue = <<w>> /\ \A r \in Requests : pc[r] = "waiting" <=> r = w

SlotInv == TypeOK /\ Placed(micro, pc) /\ Apart(micro) /\ WaiterQueued /\ SlotsHeld

\* The head of the queue, and what is behind it, of other requests.
LEMMA HeadAndTail ==
  ASSUME SlotInv, micro # <<>>
  PROVE  /\ \A i \in DOMAIN Tail(micro) : Tail(micro)[i] \in TaskType
         /\ Next1 \in TaskType /\ Next1.req \in Requests /\ Next1.kind \in {"call", "resume", "settle"}
         /\ Next1 = micro[1] /\ 1 \in DOMAIN micro
         /\ pc[Next1.req] = StageOf(Next1.kind)
         /\ Tail(micro) \in Seq(TaskType)
         /\ \A i \in DOMAIN Tail(micro) : i + 1 \in DOMAIN micro /\ Tail(micro)[i] = micro[i + 1]
         /\ Placed(Tail(micro), pc) /\ Apart(Tail(micro))
         /\ \A i \in DOMAIN Tail(micro) : Tail(micro)[i].req # Next1.req
<1>1. micro \in Seq(TaskType) /\ Placed(micro, pc) /\ Apart(micro)
  BY DEF SlotInv, TypeOK
<1>2. /\ Len(micro) \in Nat \ {0} /\ Head(micro) = micro[1] /\ micro[1] \in TaskType
      /\ Tail(micro) \in Seq(TaskType) /\ Len(Tail(micro)) = Len(micro) - 1
      /\ \A i \in 1..Len(Tail(micro)) : Tail(micro)[i] = micro[i + 1]
  BY <1>1, EmptySeq, HeadTailProperties, ElementOfSeq
<1>3. DOMAIN micro = 1..Len(micro) /\ DOMAIN Tail(micro) = 1..Len(Tail(micro))
  BY <1>1, <1>2, LenProperties
<1>4. \A i \in DOMAIN Tail(micro) : i + 1 \in DOMAIN micro /\ i + 1 # 1
                                    /\ Tail(micro)[i] = micro[i + 1]
  BY <1>2, <1>3
<1>5. 1 \in DOMAIN micro
  BY <1>2, <1>3
<1>6. Placed(Tail(micro), pc)
  BY <1>1, <1>4 DEF Placed
<1>7. Apart(Tail(micro))
  <2> SUFFICES ASSUME NEW i \in DOMAIN Tail(micro), NEW j \in DOMAIN Tail(micro),
                      Tail(micro)[i].req = Tail(micro)[j].req
               PROVE  i = j
    BY DEF Apart
  <2>1. i + 1 = j + 1
    BY <1>1, <1>4 DEF Apart
  <2>2. i \in Nat /\ j \in Nat
    BY <1>2, <1>3
  <2> QED BY <2>1, <2>2
<1>8. \A i \in DOMAIN Tail(micro) : Tail(micro)[i].req # micro[1].req
  BY <1>1, <1>4, <1>5 DEF Apart
<1>9. Next1 \in TaskType /\ Next1 = micro[1]
  BY <1>2 DEF Next1
<1>10. Next1.req \in Requests /\ Next1.kind \in {"call", "resume", "settle"}
  BY <1>9 DEF TaskType
<1>11. pc[Next1.req] = StageOf(Next1.kind)
  BY <1>1, <1>5, <1>9 DEF Placed
<1>12. \A i \in DOMAIN Tail(micro) : Tail(micro)[i] \in TaskType
  BY <1>2, <1>3, ElementOfSeq
<1> QED BY <1>2, <1>4, <1>5, <1>6, <1>7, <1>8, <1>9, <1>10, <1>11, <1>12

\* A task of another request, at its stage, may join the queue.
LEMMA Joins ==
  ASSUME NEW s \in Seq(TaskType), NEW t \in TaskType, NEW p,
         Placed(s, p), Apart(s), p[t.req] = StageOf(t.kind),
         \A i \in DOMAIN s : s[i].req # t.req
  PROVE  /\ Append(s, t) \in Seq(TaskType)
         /\ Placed(Append(s, t), p) /\ Apart(Append(s, t))
<1>1. Append(s, t) \in Seq(TaskType)
  BY AppendProperties
<1>2. /\ Len(s) \in Nat /\ DOMAIN s = 1..Len(s) /\ DOMAIN Append(s, t) = 1..Len(s) + 1
      /\ \A i \in 1..Len(s) : Append(s, t)[i] = s[i]
      /\ Append(s, t)[Len(s) + 1] = t
  BY AppendProperties, LenProperties
<1>3. \A i \in DOMAIN Append(s, t) : \/ i \in DOMAIN s /\ Append(s, t)[i] = s[i]
                                     \/ i = Len(s) + 1 /\ Append(s, t)[i] = t
  BY <1>2
<1>4. Placed(Append(s, t), p)
  BY <1>3 DEF Placed
<1>5. Apart(Append(s, t))
  BY <1>3 DEF Apart
<1> QED BY <1>1, <1>4, <1>5

\* The tasks left are of requests that did not move.
LEMMA TheOthersStay ==
  ASSUME NEW s, NEW p, NEW q, Placed(s, p), \A i \in DOMAIN s : q[s[i].req] = p[s[i].req]
  PROVE  Placed(s, q)
BY DEF Placed

\* How the number of requests that hold a slot changes with one of them.
LEMMA OneMore ==
  ASSUME NEW S \in SUBSET Requests, NEW r \in Requests, r \notin S
  PROVE  Cardinality(S \cup {r}) = Cardinality(S) + 1 /\ Cardinality(S) \in Nat
BY RequestsAssumption, FS_Subset, FS_CardinalityType, FS_AddElement

LEMMA OneLess ==
  ASSUME NEW S \in SUBSET Requests, NEW r \in S
  PROVE  Cardinality(S \ {r}) = Cardinality(S) - 1 /\ Cardinality(S \ {r}) \in Nat
<1>1. IsFiniteSet(S) /\ Cardinality(S) \in Nat /\ Cardinality(S) # 0
  BY RequestsAssumption, FS_Subset, FS_CardinalityType, FS_EmptySet
<1>2. Cardinality(S \ {r}) = Cardinality(S) - 1
  BY <1>1, FS_RemoveElement
<1> QED BY <1>1, <1>2

\* The handler at the head of the queue moves on, and is not behind it.
LEMMA HeadMoves ==
  ASSUME SlotInv, micro # <<>>, NEW x \in Stage, pc' = [pc EXCEPT ![Next1.req] = x]
  PROVE  /\ pc' \in [Requests -> Stage] /\ pc'[Next1.req] = x
         /\ \A r \in Requests : r # Next1.req => pc'[r] = pc[r]
         /\ Placed(Tail(micro), pc')
<1>1. pc \in [Requests -> Stage] /\ Next1.req \in Requests
  BY HeadAndTail DEF SlotInv, TypeOK
<1>2. \A i \in DOMAIN Tail(micro) : pc'[Tail(micro)[i].req] = pc[Tail(micro)[i].req]
  BY <1>1, HeadAndTail
<1>3. Placed(Tail(micro), pc)
  BY HeadAndTail
<1>4. Placed(Tail(micro), pc')
  BY <1>2, <1>3 DEF Placed
<1> QED BY <1>1, <1>4

\* A call leaves the queue of microtasks without a slot and without waiting.
LEMMA RefusedStep ==
  ASSUME SlotInv, RateLimited \/ Refuse
  PROVE  SlotInv'
<1>1. /\ micro # <<>> /\ Next1.kind = "call" /\ micro' = Tail(micro)
      /\ UNCHANGED <<running, queue, early>> /\ pc' = [pc EXCEPT ![Next1.req] = "done"]
      /\ \E a \in Answer : answer' = [answer EXCEPT ![Next1.req] = a]
  BY DEF RateLimited, Refuse, Ready, Answer
<1>2. "done" \in Stage /\ pc \in [Requests -> Stage]
  BY DEF Stage, SlotInv, TypeOK
<1>3. pc[Next1.req] = "calling" /\ Next1.req \in Requests
  BY <1>1, HeadAndTail DEF StageOf
<1>4. Placed(micro', pc') /\ Apart(micro') /\ micro' \in Seq(TaskType)
  BY <1>1, <1>2, HeadAndTail, HeadMoves
<1>5. Held(pc') = Held(pc)
  BY <1>1, <1>2, <1>3 DEF Held
<1>6. SlotsHeld'
  BY <1>1, <1>5 DEF SlotInv, SlotsHeld, Held
<1>7. TypeOK'
  BY <1>1, <1>2, <1>3, <1>4 DEF SlotInv, TypeOK
<1>8. WaiterQueued'
  BY <1>1, <1>2, <1>3 DEF SlotInv, WaiterQueued
<1> QED BY <1>4, <1>6, <1>7, <1>8 DEF SlotInv

\* A call or a woken waiter takes a slot.
LEMMA StartStep ==
  ASSUME SlotInv, Admit \/ Resume
  PROVE  SlotInv'
<1>1. /\ micro # <<>> /\ Next1.kind \in {"call", "resume"} /\ StartSynthesis(Next1.req)
      /\ UNCHANGED <<queue, answer>>
  BY DEF Admit, Resume, Ready
<1>2. pc[Next1.req] \in {"calling", "woken"} /\ Next1.req \in Requests
  BY <1>1, HeadAndTail DEF StageOf
<1>3. PICK x \in {"running", "settling"} :
        /\ running' = running + 1 /\ pc' = [pc EXCEPT ![Next1.req] = x]
        /\ early' \in {early, early \cup {Next1.req}}
        /\ \/ x = "running" /\ micro' = Tail(micro)
           \/ x = "settling" /\ \E hops \in 0..MaxHops :
                micro' = Append(Tail(micro), Task("settle", Next1.req, hops))
  BY <1>1 DEF StartSynthesis
<1>4. x \in Stage /\ pc \in [Requests -> Stage]
  BY DEF Stage, SlotInv, TypeOK
<1>5. /\ pc' \in [Requests -> Stage] /\ pc'[Next1.req] = x /\ Placed(Tail(micro), pc')
      /\ Tail(micro) \in Seq(TaskType) /\ Apart(Tail(micro))
      /\ \A i \in DOMAIN Tail(micro) : Tail(micro)[i].req # Next1.req
  BY <1>1, <1>3, <1>4, HeadAndTail, HeadMoves
<1>6. Placed(micro', pc') /\ Apart(micro') /\ micro' \in Seq(TaskType)
  <2>1. ASSUME NEW hops \in 0..MaxHops, x = "settling",
               micro' = Append(Tail(micro), Task("settle", Next1.req, hops))
        PROVE  Placed(micro', pc') /\ Apart(micro') /\ micro' \in Seq(TaskType)
    <3> DEFINE t == Task("settle", Next1.req, hops)
    <3>1. t \in TaskType /\ t.req = Next1.req /\ StageOf(t.kind) = "settling"
      BY <1>2 DEF Task, TaskType, StageOf
    <3> HIDE DEF t
    <3>2. pc'[t.req] = StageOf(t.kind)
      BY <1>5, <2>1, <3>1
    <3>3. \A i \in DOMAIN Tail(micro) : Tail(micro)[i].req # t.req
      BY <1>5, <3>1
    <3>4. /\ Append(Tail(micro), t) \in Seq(TaskType)
          /\ Placed(Append(Tail(micro), t), pc') /\ Apart(Append(Tail(micro), t))
      BY <1>5, <3>1, <3>2, <3>3, Joins
    <3> QED BY <2>1, <3>4 DEF t
  <2> QED BY <1>3, <1>5, <2>1
<1>7. Cardinality(Held(pc')) = Cardinality(Held(pc)) + 1
  <2>1. /\ Held(pc') = Held(pc) \cup {Next1.req} /\ Next1.req \notin Held(pc)
        /\ Held(pc) \in SUBSET Requests
    BY <1>2, <1>3, <1>4 DEF Held
  <2> QED BY <1>2, <2>1, OneMore
<1>8. SlotsHeld'
  BY <1>3, <1>7 DEF SlotInv, SlotsHeld, Held
<1>9. TypeOK'
  BY <1>1, <1>2, <1>3, <1>5, <1>6 DEF SlotInv, TypeOK
<1>10. WaiterQueued'
  BY <1>1, <1>2, <1>3, <1>4 DEF SlotInv, WaiterQueued
<1> QED BY <1>6, <1>8, <1>9, <1>10 DEF SlotInv

LEMMA WaitStep ==
  ASSUME SlotInv, Wait
  PROVE  SlotInv'
<1>1. /\ micro # <<>> /\ Next1.kind = "call" /\ micro' = Tail(micro)
      /\ UNCHANGED <<running, answer, early>> /\ pc' = [pc EXCEPT ![Next1.req] = "waiting"]
      /\ queue = <<>> /\ queue' = Append(queue, Next1.req)
  BY DEF Wait, Ready
<1>2. "waiting" \in Stage /\ pc \in [Requests -> Stage]
  BY DEF Stage, SlotInv, TypeOK
<1>3. pc[Next1.req] = "calling" /\ Next1.req \in Requests
  BY <1>1, HeadAndTail DEF StageOf
<1>4. /\ Placed(micro', pc') /\ Apart(micro') /\ micro' \in Seq(TaskType)
      /\ pc' \in [Requests -> Stage] /\ pc'[Next1.req] = "waiting"
      /\ \A r \in Requests : r # Next1.req => pc'[r] = pc[r]
  BY <1>1, <1>2, HeadAndTail, HeadMoves
<1>5. Held(pc') = Held(pc)
  BY <1>1, <1>2, <1>3 DEF Held
<1>6. SlotsHeld'
  BY <1>1, <1>5 DEF SlotInv, SlotsHeld, Held
<1>7. queue' = <<Next1.req>> /\ queue' \in Seq(Requests)
  BY <1>1, <1>3
<1>8. \A r \in Requests : pc[r] # "waiting"
  BY <1>1 DEF SlotInv, WaiterQueued
<1>9. WaiterQueued'
  BY <1>3, <1>4, <1>7, <1>8 DEF WaiterQueued
<1>10. TypeOK'
  BY <1>1, <1>4, <1>7 DEF SlotInv, TypeOK
<1> QED BY <1>4, <1>6, <1>9, <1>10 DEF SlotInv

\* A slot is given back, and whoever waits is woken.
LEMMA SettleStep ==
  ASSUME SlotInv, Settle
  PROVE  SlotInv'
<1> DEFINE r == Next1.req
           mid == [pc EXCEPT ![r] = "done"]
<1>1. /\ micro # <<>> /\ Next1.kind = "settle" /\ running' = running - 1
      /\ answer' = [answer EXCEPT ![r] = IF @ = "none" THEN "result" ELSE @]
      /\ early' = early /\ early \in SUBSET Requests
  BY DEF Settle, Ready, SlotInv, TypeOK
<1>2. "done" \in Stage /\ "woken" \in Stage /\ pc \in [Requests -> Stage]
  BY DEF Stage, SlotInv, TypeOK
<1>3. pc[r] = "settling" /\ r \in Requests
  BY <1>1, HeadAndTail DEF StageOf
<1>4. /\ mid \in [Requests -> Stage] /\ mid[r] = "done"
      /\ \A q \in Requests : q # r => mid[q] = pc[q]
  BY <1>2, <1>3
<1>5. Tail(micro) \in Seq(TaskType) /\ Apart(Tail(micro)) /\ Placed(Tail(micro), mid)
      /\ \A i \in DOMAIN Tail(micro) : Tail(micro)[i].req # r
  <2>1. \A i \in DOMAIN Tail(micro) : mid[Tail(micro)[i].req] = pc[Tail(micro)[i].req]
    BY <1>1, <1>2, <1>3, HeadAndTail
  <2> QED BY <1>1, <2>1, HeadAndTail, TheOthersStay
<1>6. Cardinality(Held(mid)) = running' /\ running' \in Nat
  <2>1. Cardinality(Held(mid)) = Cardinality(Held(pc)) - 1
        /\ Cardinality(Held(mid)) \in Nat
    <3>1. Held(mid) = Held(pc) \ {r} /\ r \in Held(pc) /\ Held(pc) \in SUBSET Requests
      BY <1>2, <1>3 DEF Held
    <3> QED BY <3>1, OneLess
  <2>2. running = Cardinality(Held(pc))
    BY DEF SlotInv, SlotsHeld, Held
  <2> QED BY <1>1, <2>1, <2>2
<1>7. answer' \in [Requests -> Answer]
  BY <1>1 DEF SlotInv, TypeOK, Answer
<1> HIDE DEF mid
<1>8. CASE queue = <<>>
  <2>1. pc' = mid /\ micro' = Tail(micro) /\ queue' = <<>>
    BY <1>8 DEF Settle, mid
  <2>2. TypeOK'
    BY <1>1, <1>4, <1>5, <1>6, <1>7, <2>1 DEF TypeOK
  <2>3. WaiterQueued'
    <3>1. \A q \in Requests : pc[q] # "waiting"
      BY <1>8 DEF SlotInv, WaiterQueued
    <3> QED BY <1>4, <2>1, <3>1 DEF WaiterQueued
  <2>4. SlotsHeld'
    BY <1>6, <2>1 DEF SlotsHeld, Held
  <2> QED BY <1>5, <2>1, <2>2, <2>3, <2>4 DEF SlotInv
<1>9. CASE queue # <<>>
  <2>1. PICK w \in Requests : queue = <<w>> /\ \A q \in Requests : pc[q] = "waiting" <=> q = w
    BY <1>9 DEF SlotInv, WaiterQueued
  <2>2. w # r /\ mid[w] = "waiting"
    BY <1>3, <1>4, <2>1
  <2>3. Head(queue) = w /\ Tail(queue) = <<>>
    BY <2>1
  <2>4. /\ pc' = [pc EXCEPT ![r] = "done", ![w] = "woken"]
        /\ micro' = Append(Tail(micro), Task("resume", w, 0)) /\ queue' = <<>>
    BY <1>9, <2>3 DEF Settle
  <2>5. pc' = [mid EXCEPT ![w] = "woken"]
    BY <2>4 DEF mid
  <2>6. pc' \in [Requests -> Stage] /\ pc'[w] = "woken"
        /\ \A q \in Requests : q # w => pc'[q] = mid[q]
    BY <1>2, <1>4, <2>5
  <2>7. \A i \in DOMAIN Tail(micro) : Tail(micro)[i].req # w
    <3> SUFFICES ASSUME NEW i \in DOMAIN Tail(micro), Tail(micro)[i].req = w
                 PROVE  FALSE
      OBVIOUS
    <3>1. mid[w] = StageOf(Tail(micro)[i].kind)
      BY <1>5 DEF Placed
    <3> QED BY <2>2, <3>1 DEF StageOf
  <2>8. Placed(Tail(micro), pc')
    <3>1. \A i \in DOMAIN Tail(micro) : Tail(micro)[i].req \in Requests
      BY <1>1, HeadAndTail DEF TaskType
    <3>2. \A i \in DOMAIN Tail(micro) : pc'[Tail(micro)[i].req] = mid[Tail(micro)[i].req]
      BY <2>6, <2>7, <3>1
    <3> QED BY <1>5, <3>2, TheOthersStay
  <2> DEFINE t == Task("resume", w, 0)
  <2>9. t \in TaskType /\ t.req = w /\ StageOf(t.kind) = "woken"
    BY MaxHopsAssumption DEF Task, TaskType, StageOf
  <2>10. micro' = Append(Tail(micro), t)
    BY <2>4
  <2> HIDE DEF t
  <2>11. micro' \in Seq(TaskType) /\ Placed(micro', pc') /\ Apart(micro')
    BY <1>5, <2>6, <2>7, <2>8, <2>9, <2>10, Joins
  <2>12. Held(pc') = Held(mid)
    BY <2>2, <2>6 DEF Held
  <2>13. SlotsHeld'
    BY <1>6, <2>12 DEF SlotsHeld, Held
  <2>14. WaiterQueued'
    <3>1. \A q \in Requests : pc'[q] # "waiting"
      BY <1>4, <2>1, <2>2, <2>6
    <3> QED BY <2>4, <3>1 DEF WaiterQueued
  <2>15. TypeOK'
    BY <1>1, <1>6, <1>7, <2>4, <2>6, <2>11 DEF TypeOK
  <2> QED BY <2>11, <2>13, <2>14, <2>15 DEF SlotInv
<1> QED BY <1>8, <1>9

\* A chunk of calls arrives; a backend's I/O ends.
LEMMA ReceiveStep ==
  ASSUME SlotInv, Receive
  PROVE  SlotInv'
<1>1. PICK batch \in SUBSET {r \in Requests : pc[r] = "unsent"} \ {{}} :
        /\ pc' = [r \in Requests |-> IF r \in batch THEN "calling" ELSE pc[r]]
        /\ \E order \in SetToSeqs(batch), hops \in [batch -> 0..MaxHops] :
             micro' = [i \in DOMAIN order |-> Task("call", order[i], hops[order[i]])]
  BY DEF Receive
<1>2. PICK order \in SetToSeqs(batch), hops \in [batch -> 0..MaxHops] :
        micro' = [i \in DOMAIN order |-> Task("call", order[i], hops[order[i]])]
  BY <1>1
<1>3. \E n \in Nat : /\ order \in [1..n -> batch]
                     /\ \A i, j \in 1..n : i # j => order[i] # order[j]
  <2>1. /\ order \in [1..Cardinality(batch) -> batch]
        /\ \A i, j \in 1..Cardinality(batch) : i # j => order[i] # order[j]
    BY <1>2 DEF SetToSeqs
  <2>2. Cardinality(batch) \in Nat
    BY <1>1, RequestsAssumption, FS_Subset, FS_CardinalityType
  <2> QED BY <2>1, <2>2
<1>4. \A i \in DOMAIN order : /\ order[i] \in batch /\ micro'[i] \in TaskType
                              /\ micro'[i].kind = "call" /\ micro'[i].req = order[i]
  BY <1>1, <1>2, <1>3 DEF Task, TaskType
<1>5. micro' \in Seq(TaskType) /\ DOMAIN micro' = DOMAIN order
  BY <1>2, <1>3, <1>4
<1>6. /\ pc \in [Requests -> Stage] /\ "calling" \in Stage
      /\ UNCHANGED <<running, queue, answer, early>>
  BY DEF SlotInv, TypeOK, Stage, Receive
<1>7. /\ pc' \in [Requests -> Stage]
      /\ \A r \in batch : pc'[r] = "calling" /\ pc[r] = "unsent"
      /\ \A r \in Requests \ batch : pc'[r] = pc[r]
  BY <1>1, <1>6
<1>8. Placed(micro', pc') /\ Apart(micro')
  BY <1>3, <1>4, <1>5, <1>7 DEF Placed, Apart, StageOf
<1>9. Held(pc') = Held(pc)
  BY <1>1, <1>7 DEF Held
<1>10. SlotsHeld'
  BY <1>6, <1>9 DEF SlotInv, SlotsHeld, Held
<1>11. WaiterQueued'
  <2>1. \A r \in Requests : pc'[r] = "waiting" <=> pc[r] = "waiting"
    BY <1>1, <1>7
  <2> QED BY <1>6, <2>1 DEF SlotInv, WaiterQueued
<1>12. TypeOK'
  BY <1>5, <1>6, <1>7 DEF SlotInv, TypeOK
<1> QED BY <1>8, <1>10, <1>11, <1>12 DEF SlotInv

LEMMA BackendDoneStep ==
  ASSUME SlotInv, NEW r \in Requests, BackendDone(r)
  PROVE  SlotInv'
<1> DEFINE t == Task("settle", r, 0)
<1>1. /\ pc[r] = "running" /\ pc' = [pc EXCEPT ![r] = "settling"]
      /\ micro' = <<t>> /\ UNCHANGED <<running, queue, answer, early>>
  BY DEF BackendDone
<1>2. pc \in [Requests -> Stage] /\ "settling" \in Stage
  BY DEF SlotInv, TypeOK, Stage
<1>3. /\ pc' \in [Requests -> Stage] /\ pc'[r] = "settling"
      /\ \A q \in Requests : q # r => pc'[q] = pc[q]
  BY <1>1, <1>2
<1>4. t \in TaskType /\ t.req = r /\ StageOf(t.kind) = "settling"
  BY MaxHopsAssumption DEF Task, TaskType, StageOf
<1> HIDE DEF t
<1>5. micro' \in Seq(TaskType) /\ DOMAIN micro' = {1} /\ micro'[1] = t
  BY <1>1, <1>4
<1>6. Placed(micro', pc') /\ Apart(micro')
  BY <1>3, <1>4, <1>5 DEF Placed, Apart
<1>7. Held(pc') = Held(pc)
  BY <1>1, <1>3 DEF Held
<1>8. SlotsHeld'
  BY <1>1, <1>7 DEF SlotInv, SlotsHeld, Held
<1>9. WaiterQueued'
  BY <1>1, <1>3 DEF SlotInv, WaiterQueued
<1>10. TypeOK'
  BY <1>1, <1>3, <1>5 DEF SlotInv, TypeOK
<1> QED BY <1>6, <1>8, <1>9, <1>10 DEF SlotInv

\* One await, a timer, or nothing: no handler moves.
LEMMA HopStep ==
  ASSUME SlotInv, Hop
  PROVE  SlotInv'
<1> DEFINE t == [Next1 EXCEPT !.hops = @ - 1]
<1>1. /\ micro # <<>> /\ Next1.hops > 0 /\ micro' = Append(Tail(micro), t)
      /\ UNCHANGED <<running, queue, pc, answer, early>>
  BY DEF Hop
<1>2. t \in TaskType /\ t.req = Next1.req /\ t.kind = Next1.kind
  <2>1. Next1 \in TaskType
    BY <1>1, HeadAndTail
  <2> QED BY <1>1, <2>1, MaxHopsAssumption DEF TaskType
<1> HIDE DEF t
<1>3. /\ Tail(micro) \in Seq(TaskType) /\ Placed(Tail(micro), pc) /\ Apart(Tail(micro))
      /\ pc[t.req] = StageOf(t.kind) /\ \A i \in DOMAIN Tail(micro) : Tail(micro)[i].req # t.req
  BY <1>1, <1>2, HeadAndTail
<1>4. micro' \in Seq(TaskType) /\ Placed(micro', pc) /\ Apart(micro')
  BY <1>1, <1>2, <1>3, Joins
<1>5. TypeOK' /\ WaiterQueued' /\ SlotsHeld' /\ Placed(micro', pc')
  BY <1>1, <1>4 DEF SlotInv, TypeOK, WaiterQueued, SlotsHeld
<1> QED BY <1>4, <1>5 DEF SlotInv

LEMMA TimeoutStep ==
  ASSUME SlotInv, (\E r \in Requests : Timeout(r)) \/ UNCHANGED vars
  PROVE  SlotInv'
<1>1. UNCHANGED <<running, queue, micro, pc, early>>
  BY DEF Timeout, vars
<1>2. answer' \in [Requests -> Answer]
  BY DEF Timeout, vars, SlotInv, TypeOK, Answer
<1> QED BY <1>1, <1>2 DEF SlotInv, TypeOK, WaiterQueued, SlotsHeld, Placed, Apart

LEMMA SlotInvHolds == Spec => []SlotInv
<1>1. Init => SlotInv
  <2> SUFFICES ASSUME Init
               PROVE  SlotInv
    OBVIOUS
  <2>1. TypeOK
    BY DEF Init, TypeOK, Stage, Answer
  <2>2. Placed(micro, pc) /\ Apart(micro) /\ WaiterQueued
    BY DEF Init, Placed, Apart, WaiterQueued
  <2>3. Held(pc) = {}
    BY DEF Init, Held
  <2>4. SlotsHeld
    BY <2>3, FS_EmptySet DEF Init, SlotsHeld, Held
  <2> QED BY <2>1, <2>2, <2>4 DEF SlotInv
<1>2. SlotInv /\ [Next]_vars => SlotInv'
  BY RefusedStep, StartStep, WaitStep, SettleStep, ReceiveStep, BackendDoneStep, HopStep,
     TimeoutStep DEF Next, Microtask, Macrotask
<1> QED BY <1>1, <1>2, PTL DEF Spec

\* The semaphore's counter is never negative, and every continuation and every waiter
\* is one of a known request: an await leads back to the handler it left.
THEOREM GateTypesKept == Spec => []TypeOK
<1>1. SlotInv => TypeOK
  BY DEF SlotInv
<1> QED BY <1>1, SlotInvHolds, PTL

\* SynthesisSemaphore.run(): running counts the syntheses in progress, whatever order
\* calls, timeouts, wake-ups and ends of I/O come in: no slot leaks, none is given back
\* twice.
THEOREM SlotsCounted == Spec => []SlotsHeld
<1>1. SlotInv => SlotsHeld
  BY DEF SlotInv
<1> QED BY <1>1, SlotInvHolds, PTL

-----------------------------------------------------------------------------
(***************************************************************************)
(* The limit and the turns.  Neither is inductive: a woken waiter takes a  *)
(* slot without a second look at the counter.  What bounds the damage is   *)
(* the event loop.  No microtask is left when a chunk of stdin or the end  *)
(* of an I/O comes in; so as long as a call is on its way, whatever else   *)
(* settles does so without I/O, and wakes no more waiters than that.       *)
(***************************************************************************)
\* The tasks of m.
TasksOf(m) == {m[i] : i \in DOMAIN m}

\* A request waits only while no slot is free.
FullWhenWaiting == queue # <<>> => running >= MaxConcurrent

\* Whoever is woken has its continuation in the microtask queue.
WokenIsDue == \A r \in Woken : \E t \in TasksOf(micro) : t.req = r

EarlySettles == \A r \in early : pc[r] \in {"settling", "done"}

CallOnItsWay == \E t \in TasksOf(micro) : t.kind = "call"

CallsAhead ==
  CallOnItsWay => /\ \A t \in TasksOf(micro) : t.kind = "settle" => t.req \in early
                  /\ Cardinality(Woken) <= Cardinality(EarlyDone)

TurnInv ==
  /\ FullWhenWaiting
  /\ WokenIsDue
  /\ EarlySettles
  /\ CallsAhead
  /\ LimitButForEarly

\* The tasks, without the first and with one more.
LEMMA TasksInQueue ==
  ASSUME SlotInv, micro # <<>>
  PROVE  /\ Next1 \in TasksOf(micro)
         /\ TasksOf(micro) = {Next1} \cup TasksOf(Tail(micro))
         /\ \A t \in TasksOf(Tail(micro)) : t.req # Next1.req
         /\ \A t \in TaskType : TasksOf(Append(Tail(micro), t)) = TasksOf(Tail(micro)) \cup {t}
<1>1. /\ Next1 = micro[1] /\ Tail(micro) \in Seq(TaskType) /\ micro \in Seq(TaskType)
      /\ \A i \in DOMAIN Tail(micro) : i + 1 \in DOMAIN micro /\ Tail(micro)[i] = micro[i + 1]
      /\ \A i \in DOMAIN Tail(micro) : Tail(micro)[i].req # Next1.req
  BY HeadAndTail DEF SlotInv, TypeOK
<1>2. /\ Len(micro) \in Nat \ {0} /\ Len(Tail(micro)) = Len(micro) - 1
      /\ DOMAIN micro = 1..Len(micro) /\ DOMAIN Tail(micro) = 1..Len(Tail(micro))
  BY <1>1, EmptySeq, HeadTailProperties, LenProperties
<1>3. \A j \in DOMAIN micro : j # 1 => j - 1 \in DOMAIN Tail(micro) /\ (j - 1) + 1 = j
  BY <1>2
<1>4. TasksOf(micro) = {Next1} \cup TasksOf(Tail(micro)) /\ Next1 \in TasksOf(micro)
  <2>1. \A i \in DOMAIN Tail(micro) : Tail(micro)[i] \in TasksOf(micro)
    BY <1>1 DEF TasksOf
  <2>2. 1 \in DOMAIN micro /\ Next1 \in TasksOf(micro)
    BY <1>1, <1>2 DEF TasksOf
  <2>3. \A j \in DOMAIN micro : micro[j] = Next1 \/ micro[j] \in TasksOf(Tail(micro))
    BY <1>1, <1>3 DEF TasksOf
  <2> QED BY <2>1, <2>2, <2>3 DEF TasksOf
<1>5. \A t \in TasksOf(Tail(micro)) : t.req # Next1.req
  BY <1>1 DEF TasksOf
<1>6. ASSUME NEW t \in TaskType
      PROVE  TasksOf(Append(Tail(micro), t)) = TasksOf(Tail(micro)) \cup {t}
  <2> DEFINE s == Tail(micro)
             u == Append(s, t)
  <2>1. /\ Len(s) \in Nat /\ DOMAIN s = 1..Len(s) /\ DOMAIN u = 1..Len(s) + 1
        /\ \A i \in 1..Len(s) : u[i] = s[i]
        /\ u[Len(s) + 1] = t
    BY <1>1, AppendProperties, LenProperties
  <2> HIDE DEF s, u
  <2>2. \A i \in DOMAIN s : i \in DOMAIN u /\ u[i] = s[i]
    BY <2>1
  <2>3. \A i \in DOMAIN u : i \in DOMAIN s \/ i = Len(s) + 1
    BY <2>1
  <2>4. Len(s) + 1 \in DOMAIN u
    BY <2>1
  <2>5. TasksOf(u) = TasksOf(s) \cup {t}
    BY <2>1, <2>2, <2>3, <2>4 DEF TasksOf
  <2> QED BY <2>5 DEF s, u
<1> QED BY <1>1, <1>4, <1>5, <1>6

\* The sets that are counted are finite.
LEMMA FiniteCounts ==
  ASSUME SlotInv
  PROVE  /\ IsFiniteSet(Woken) /\ Cardinality(Woken) \in Nat
         /\ IsFiniteSet(EarlyDone) /\ Cardinality(EarlyDone) \in Nat
         /\ running \in Nat /\ MaxConcurrent \in Nat
<1>1. Woken \subseteq Requests /\ EarlyDone \subseteq Requests
  BY DEF Woken, EarlyDone, SlotInv, TypeOK
<1> QED BY <1>1, RequestsAssumption, MaxConcurrentAssumption, FS_Subset, FS_CardinalityType
        DEF SlotInv, TypeOK

\* A call or a woken waiter, at the head of the queue, goes on to x.
LEMMA HeadGoes ==
  ASSUME SlotInv, TurnInv, micro # <<>>, Next1.kind \in {"call", "resume"},
         NEW x \in {"done", "waiting", "running", "settling"},
         pc' = [pc EXCEPT ![Next1.req] = x],
         \/ micro' = Tail(micro) /\ early' = early
         \/ /\ x = "settling" /\ early' = early \cup {Next1.req}
            /\ \E hops \in 0..MaxHops :
                 micro' = Append(Tail(micro), Task("settle", Next1.req, hops))
  PROVE  /\ WokenIsDue' /\ EarlySettles' /\ CallsAhead'
         /\ Woken' = Woken \ {Next1.req} /\ EarlyDone' = EarlyDone
         /\ Next1.kind = "call" => Next1.req \notin Woken
         /\ Next1.kind = "resume" => Next1.req \in Woken
<1> DEFINE h == Next1.req
<1>1. /\ h \in Requests /\ pc[h] = StageOf(Next1.kind)
      /\ pc \in [Requests -> Stage] /\ early \in SUBSET Requests
  BY HeadAndTail DEF SlotInv, TypeOK
<1>2. /\ pc[h] \in {"calling", "woken"}
      /\ Next1.kind = "call" => pc[h] = "calling"
      /\ Next1.kind = "resume" => pc[h] = "woken"
  BY <1>1 DEF StageOf
<1>3. h \notin early
  BY <1>2 DEF TurnInv, EarlySettles
<1>4. /\ pc'[h] = x /\ \A r \in Requests : r # h => pc'[r] = pc[r]
  BY <1>1
<1>5. Woken' = Woken \ {h}
  BY <1>1, <1>4 DEF Woken
<1>6. EarlyDone' = EarlyDone
  BY <1>1, <1>3, <1>4 DEF EarlyDone
<1>7. EarlySettles'
  BY <1>1, <1>3, <1>4 DEF TurnInv, EarlySettles
<1>8. /\ TasksOf(Tail(micro)) \subseteq TasksOf(micro')
      /\ \A t \in TasksOf(micro') : \/ t \in TasksOf(micro)
                                    \/ t.kind = "settle" /\ t.req \in early'
  <2>1. CASE micro' = Tail(micro)
    BY <2>1, TasksInQueue
  <2>2. ASSUME early' = early \cup {h}, NEW hops \in 0..MaxHops,
               micro' = Append(Tail(micro), Task("settle", h, hops))
        PROVE  <1>8!1 /\ <1>8!2
    <3>1. /\ Task("settle", h, hops) \in TaskType /\ Task("settle", h, hops).kind = "settle"
          /\ Task("settle", h, hops).req = h
      BY <1>1 DEF Task, TaskType
    <3> QED BY <2>2, <3>1, TasksInQueue
  <2> QED BY <2>1, <2>2
<1>9. WokenIsDue'
  <2> SUFFICES ASSUME NEW r \in Woken'
               PROVE  \E t \in TasksOf(micro') : t.req = r
    BY DEF WokenIsDue
  <2>1. r \in Woken /\ r # h
    BY <1>5
  <2>2. PICK t \in TasksOf(micro) : t.req = r
    BY <2>1 DEF TurnInv, WokenIsDue
  <2> QED BY <1>8, <2>1, <2>2, TasksInQueue
<1>10. CallsAhead'
  <2> SUFFICES ASSUME CallOnItsWay'
               PROVE  /\ \A t \in TasksOf(micro') : t.kind = "settle" => t.req \in early'
                      /\ Cardinality(Woken') <= Cardinality(EarlyDone')
    BY DEF CallsAhead
  <2>1. CallOnItsWay
    BY <1>8 DEF CallOnItsWay
  <2>2. /\ \A t \in TasksOf(micro) : t.kind = "settle" => t.req \in early
        /\ Cardinality(Woken) <= Cardinality(EarlyDone)
    BY <2>1 DEF TurnInv, CallsAhead
  <2>3. early \subseteq early'
    OBVIOUS
  <2>4. Cardinality(Woken') <= Cardinality(Woken) /\ Cardinality(Woken') \in Nat
    <3>1. Woken \ {h} \subseteq Woken
      OBVIOUS
    <3>2. /\ Cardinality(Woken \ {h}) <= Cardinality(Woken)
          /\ Cardinality(Woken \ {h}) \in Nat
      BY <3>1, FiniteCounts, FS_Subset, FS_CardinalityType
    <3> QED BY <1>5, <3>2
  <2>5. Cardinality(Woken') <= Cardinality(EarlyDone')
    BY <1>6, <2>2, <2>4, FiniteCounts
  <2> QED BY <1>8, <2>2, <2>3, <2>5
<1>11. /\ Next1.kind = "call" => h \notin Woken
       /\ Next1.kind = "resume" => h \in Woken
  BY <1>1, <1>2 DEF Woken
<1> QED BY <1>5, <1>6, <1>7, <1>9, <1>10, <1>11

\* A call that starts finds the queue empty, and no more woken than settled early.
LEMMA AdmittedFinds ==
  ASSUME SlotInv, TurnInv, Admit
  PROVE  /\ queue = <<>> /\ running < MaxConcurrent
         /\ Cardinality(Woken) <= Cardinality(EarlyDone)
<1>1. micro # <<>> /\ Next1.kind = "call" /\ running < MaxConcurrent
  BY DEF Admit, Ready
<1>2. queue = <<>>
  BY <1>1, FiniteCounts DEF TurnInv, FullWhenWaiting
<1>3. CallOnItsWay
  BY <1>1, TasksInQueue DEF CallOnItsWay
<1> QED BY <1>1, <1>2, <1>3 DEF TurnInv, CallsAhead

\* A call or a woken waiter takes a slot.
LEMMA StartTurn ==
  ASSUME SlotInv, TurnInv, Admit \/ Resume
  PROVE  TurnInv'
<1>1. /\ micro # <<>> /\ Next1.kind \in {"call", "resume"} /\ StartSynthesis(Next1.req)
      /\ queue' = queue /\ running' = running + 1
  BY DEF Admit, Resume, Ready, StartSynthesis
<1>2. PICK x \in {"running", "settling"} :
        /\ pc' = [pc EXCEPT ![Next1.req] = x]
        /\ \/ micro' = Tail(micro) /\ early' = early
           \/ /\ x = "settling" /\ early' = early \cup {Next1.req}
              /\ \E hops \in 0..MaxHops :
                   micro' = Append(Tail(micro), Task("settle", Next1.req, hops))
  BY <1>1 DEF StartSynthesis
<1>3. /\ WokenIsDue' /\ EarlySettles' /\ CallsAhead'
      /\ Woken' = Woken \ {Next1.req} /\ EarlyDone' = EarlyDone
      /\ Next1.kind = "call" => Next1.req \notin Woken
      /\ Next1.kind = "resume" => Next1.req \in Woken
  BY <1>1, <1>2, HeadGoes
<1>4. FullWhenWaiting'
  BY <1>1, FiniteCounts DEF TurnInv, FullWhenWaiting
<1>5. LimitButForEarly'
  <2>1. CASE Admit
    <3>1. Woken' = Woken
      BY <2>1, <1>3 DEF Admit, Ready
    <3>2. running < MaxConcurrent /\ Cardinality(Woken) <= Cardinality(EarlyDone)
      BY <2>1, AdmittedFinds
    <3>3. running + 1 + Cardinality(Woken) <= MaxConcurrent + Cardinality(EarlyDone)
      BY <3>2, FiniteCounts
    <3> QED BY <1>1, <1>3, <3>1, <3>3 DEF LimitButForEarly
  <2>2. CASE Resume
    <3>1. Next1.req \in Woken
      BY <2>2, <1>3 DEF Resume, Ready
    <3>2. Cardinality(Woken') = Cardinality(Woken) - 1
      BY <1>3, <3>1, FiniteCounts, FS_RemoveElement
    <3> QED BY <1>1, <1>3, <3>2, FiniteCounts DEF TurnInv, LimitButForEarly
  <2> QED BY <2>1, <2>2
<1> QED BY <1>3, <1>4, <1>5 DEF TurnInv

\* A call waits, or leaves.
LEMMA CallTurn ==
  ASSUME SlotInv, TurnInv, RateLimited \/ Refuse \/ Wait
  PROVE  TurnInv'
<1>1. /\ micro # <<>> /\ Next1.kind = "call" /\ running' = running
      /\ micro' = Tail(micro) /\ early' = early
      /\ \E x \in {"done", "waiting"} : pc' = [pc EXCEPT ![Next1.req] = x]
      /\ queue' = queue \/ running >= MaxConcurrent
  BY DEF RateLimited, Refuse, Wait, Ready
<1>2. /\ WokenIsDue' /\ EarlySettles' /\ CallsAhead'
      /\ Woken' = Woken \ {Next1.req} /\ EarlyDone' = EarlyDone
      /\ Next1.req \notin Woken
  BY <1>1, HeadGoes
<1>3. Woken' = Woken
  BY <1>2
<1>4. FullWhenWaiting' /\ LimitButForEarly'
  BY <1>1, <1>2, <1>3 DEF TurnInv, FullWhenWaiting, LimitButForEarly
<1> QED BY <1>2, <1>4 DEF TurnInv

\* A slot is given back: one less runs, at most one more is woken.
LEMMA SettleTurn ==
  ASSUME SlotInv, TurnInv, Settle
  PROVE  TurnInv'
<1> DEFINE h == Next1.req
<1>1. /\ micro # <<>> /\ Next1.kind = "settle" /\ running' = running - 1 /\ early' = early
  BY DEF Settle, Ready
<1>2. /\ h \in Requests /\ pc[h] = "settling"
      /\ pc \in [Requests -> Stage] /\ early \in SUBSET Requests
  BY <1>1, HeadAndTail DEF SlotInv, TypeOK, StageOf
<1>3. \/ /\ queue = <<>> /\ queue' = <<>> /\ micro' = Tail(micro)
         /\ pc' = [pc EXCEPT ![h] = "done"]
      \/ \E w \in Requests :
           /\ pc[w] = "waiting" /\ queue' = <<>>
           /\ micro' = Append(Tail(micro), Task("resume", w, 0))
           /\ pc' = [pc EXCEPT ![h] = "done", ![w] = "woken"]
  <2>1. CASE queue = <<>>
    BY <2>1 DEF Settle
  <2>2. CASE queue # <<>>
    <3>1. PICK w \in Requests : queue = <<w>> /\ pc[w] = "waiting"
      BY <2>2 DEF SlotInv, WaiterQueued
    <3>2. Head(queue) = w /\ Tail(queue) = <<>>
      BY <3>1
    <3> QED BY <2>2, <3>1, <3>2 DEF Settle
  <2> QED BY <2>1, <2>2
<1>4. /\ FullWhenWaiting' /\ pc'[h] = "done" /\ h \notin EarlyDone
      /\ \A r \in Requests : r # h /\ pc[r] # "waiting" => pc'[r] = pc[r]
      /\ \A r \in Requests : pc'[r] = "done" => r = h \/ pc[r] = "done"
  BY <1>2, <1>3 DEF FullWhenWaiting, EarlyDone
<1>5. EarlyDone' = IF h \in early THEN EarlyDone \cup {h} ELSE EarlyDone
  <2>1. \A r \in early : r # h => pc'[r] = pc[r]
    BY <1>2, <1>4 DEF TurnInv, EarlySettles
  <2> QED BY <1>1, <1>4, <2>1 DEF EarlyDone
<1>6. EarlySettles'
  BY <1>1, <1>2, <1>4 DEF TurnInv, EarlySettles
<1>7. \/ Woken' = Woken /\ micro' = Tail(micro)
      \/ \E w \in Requests \ Woken : /\ Woken' = Woken \cup {w}
                                     /\ micro' = Append(Tail(micro), Task("resume", w, 0))
  <2>1. h \notin Woken
    BY <1>2 DEF Woken
  <2>2. CASE pc' = [pc EXCEPT ![h] = "done"] /\ micro' = Tail(micro)
    BY <1>2, <2>1, <2>2 DEF Woken
  <2>3. ASSUME NEW w \in Requests, pc[w] = "waiting",
               pc' = [pc EXCEPT ![h] = "done", ![w] = "woken"]
        PROVE  w \notin Woken /\ Woken' = Woken \cup {w}
    BY <1>2, <2>1, <2>3 DEF Woken
  <2> QED BY <1>3, <2>2, <2>3
<1>8. /\ TasksOf(Tail(micro)) \subseteq TasksOf(micro')
      /\ \A t \in TasksOf(micro') : t \in TasksOf(micro) \/ t.kind = "resume"
      /\ \A r \in Woken' : r \in Woken \/ \E t \in TasksOf(micro') : t.req = r
  <2>1. CASE Woken' = Woken /\ micro' = Tail(micro)
    BY <1>1, <2>1, TasksInQueue
  <2>2. ASSUME NEW w \in Requests, Woken' = Woken \cup {w},
               micro' = Append(Tail(micro), Task("resume", w, 0))
        PROVE  <1>8!1 /\ <1>8!2 /\ <1>8!3
    <3>1. /\ Task("resume", w, 0) \in TaskType /\ Task("resume", w, 0).kind = "resume"
          /\ Task("resume", w, 0).req = w
      BY MaxHopsAssumption DEF Task, TaskType
    <3> QED BY <1>1, <2>2, <3>1, TasksInQueue
  <2> QED BY <1>7, <2>1, <2>2
<1>9. WokenIsDue'
  <2> SUFFICES ASSUME NEW r \in Woken
               PROVE  \E t \in TasksOf(micro') : t.req = r
    BY <1>8 DEF WokenIsDue
  <2>1. PICK t \in TasksOf(micro) : t.req = r
    BY DEF TurnInv, WokenIsDue
  <2>2. r # h
    BY <1>2 DEF Woken
  <2> QED BY <1>1, <1>8, <2>1, <2>2, TasksInQueue
<1>10. Cardinality(Woken') \in {Cardinality(Woken), Cardinality(Woken) + 1}
  BY <1>7, FiniteCounts, FS_AddElement
<1>11. Cardinality(EarlyDone') = IF h \in early THEN Cardinality(EarlyDone) + 1
                                                ELSE Cardinality(EarlyDone)
  BY <1>4, <1>5, FiniteCounts, FS_AddElement
<1>12. LimitButForEarly'
  <2>1. running + Cardinality(Woken) <= MaxConcurrent + Cardinality(EarlyDone)
    BY DEF TurnInv, LimitButForEarly
  <2>2. Cardinality(EarlyDone) <= Cardinality(EarlyDone') /\ Cardinality(EarlyDone') \in Nat
    BY <1>11, FiniteCounts
  <2>3. Cardinality(Woken') <= Cardinality(Woken) + 1 /\ Cardinality(Woken') \in Nat
    BY <1>10, FiniteCounts
  <2>4. running - 1 + Cardinality(Woken') <= MaxConcurrent + Cardinality(EarlyDone')
    BY <2>1, <2>2, <2>3, FiniteCounts
  <2> QED BY <1>1, <2>4 DEF LimitButForEarly
<1>13. CallsAhead'
  <2> SUFFICES ASSUME CallOnItsWay'
               PROVE  /\ \A t \in TasksOf(micro') : t.kind = "settle" => t.req \in early'
                      /\ Cardinality(Woken') <= Cardinality(EarlyDone')
    BY DEF CallsAhead
  <2>1. CallOnItsWay
    BY <1>8 DEF CallOnItsWay
  <2>2. /\ \A t \in TasksOf(micro) : t.kind = "settle" => t.req \in early
        /\ Cardinality(Woken) <= Cardinality(EarlyDone)
    BY <2>1 DEF TurnInv, CallsAhead
  <2>3. h \in early
    BY <1>1, <2>2, TasksInQueue
  <2>4. Cardinality(Woken') <= Cardinality(EarlyDone')
    BY <1>10, <1>11, <2>2, <2>3, FiniteCounts
  <2>5. \A t \in TasksOf(micro') : t.kind = "settle" => t.req \in early'
    BY <1>1, <1>8, <2>2
  <2> QED BY <2>4, <2>5
<1> QED BY <1>4, <1>6, <1>9, <1>12, <1>13 DEF TurnInv

\* What comes in finds no microtask left, and so nobody woken.
LEMMA ArrivalTurn ==
  ASSUME SlotInv, TurnInv, Receive \/ \E r \in Requests : BackendDone(r)
  PROVE  TurnInv'
<1>1. micro = <<>> /\ UNCHANGED <<running, queue, early>>
  BY DEF Receive, BackendDone
<1>2. Woken = {}
  BY <1>1 DEF TurnInv, WokenIsDue, TasksOf
<1>3. pc \in [Requests -> Stage] /\ early \in SUBSET Requests
  BY DEF SlotInv, TypeOK
<1>4. /\ \A r \in Requests : pc'[r] = pc[r] \/ /\ pc[r] \in {"unsent", "running"}
                                               /\ pc'[r] \in {"calling", "settling"}
  BY <1>3 DEF Receive, BackendDone
<1>5. Woken' = {}
  BY <1>2, <1>4 DEF Woken
<1>6. \A r \in early : pc'[r] = pc[r]
  BY <1>3, <1>4 DEF TurnInv, EarlySettles
<1>7. EarlyDone' = EarlyDone /\ EarlySettles'
  BY <1>1, <1>6 DEF EarlyDone, TurnInv, EarlySettles
<1>8. WokenIsDue' /\ FullWhenWaiting' /\ LimitButForEarly'
  BY <1>1, <1>2, <1>5, <1>7 DEF TurnInv, WokenIsDue, FullWhenWaiting, LimitButForEarly
<1>9. CallsAhead'
  <2>1. Cardinality(Woken') <= Cardinality(EarlyDone')
    BY <1>5, <1>7, FiniteCounts, FS_EmptySet
  <2>2. CASE Receive
    <3>1. \A t \in TasksOf(micro') : t.kind = "call"
      BY <2>2 DEF Receive, TasksOf, Task
    <3> QED BY <2>1, <3>1 DEF CallsAhead
  <2>3. CASE \E r \in Requests : BackendDone(r)
    <3>1. \A t \in TasksOf(micro') : t.kind = "settle"
      BY <2>3 DEF BackendDone, TasksOf, Task
    <3> QED BY <3>1 DEF CallsAhead, CallOnItsWay
  <2> QED BY <2>2, <2>3
<1> QED BY <1>7, <1>8, <1>9 DEF TurnInv

\* One await, a timer, or nothing.
LEMMA IdleTurn ==
  ASSUME SlotInv, TurnInv, Hop \/ (\E r \in Requests : Timeout(r)) \/ UNCHANGED vars
  PROVE  TurnInv'
<1>1. UNCHANGED <<running, queue, pc, early>>
  BY DEF Hop, Timeout, vars
<1>2. Woken' = Woken /\ EarlyDone' = EarlyDone
  BY <1>1 DEF Woken, EarlyDone
<1>3. \A t \in TasksOf(micro') : \E u \in TasksOf(micro) : t.req = u.req /\ t.kind = u.kind
  <2>1. CASE Hop
    <3> DEFINE t == [Next1 EXCEPT !.hops = @ - 1]
    <3>1. micro # <<>> /\ Next1.hops > 0 /\ micro' = Append(Tail(micro), t)
      BY <2>1 DEF Hop
    <3>2. t \in TaskType /\ t.req = Next1.req /\ t.kind = Next1.kind
      <4>1. Next1 \in TaskType
        BY <3>1, HeadAndTail
      <4> QED BY <3>1, <4>1, MaxHopsAssumption DEF TaskType
    <3> HIDE DEF t
    <3> QED BY <3>1, <3>2, TasksInQueue
  <2>2. CASE micro' = micro
    BY <2>2
  <2> QED BY <2>1, <2>2 DEF Timeout, vars
<1>4. \A u \in TasksOf(micro) : \E t \in TasksOf(micro') : t.req = u.req
  <2>1. CASE Hop
    <3> DEFINE t == [Next1 EXCEPT !.hops = @ - 1]
    <3>1. micro # <<>> /\ Next1.hops > 0 /\ micro' = Append(Tail(micro), t)
      BY <2>1 DEF Hop
    <3>2. t \in TaskType /\ t.req = Next1.req
      <4>1. Next1 \in TaskType
        BY <3>1, HeadAndTail
      <4> QED BY <3>1, <4>1, MaxHopsAssumption DEF TaskType
    <3> HIDE DEF t
    <3> QED BY <3>1, <3>2, TasksInQueue
  <2>2. CASE micro' = micro
    BY <2>2
  <2> QED BY <2>1, <2>2 DEF Timeout, vars
<1>5. WokenIsDue' /\ EarlySettles'
  BY <1>1, <1>2, <1>4 DEF TurnInv, WokenIsDue, EarlySettles
<1>6. CallsAhead'
  BY <1>1, <1>2, <1>3 DEF TurnInv, CallsAhead, CallOnItsWay
<1>7. FullWhenWaiting' /\ LimitButForEarly'
  BY <1>1, <1>2 DEF TurnInv, FullWhenWaiting, LimitButForEarly
<1> QED BY <1>5, <1>6, <1>7 DEF TurnInv

LEMMA TurnInvHolds == Spec => []TurnInv
<1>1. Init => TurnInv
  <2> SUFFICES ASSUME Init
               PROVE  TurnInv
    OBVIOUS
  <2>1. Woken = {} /\ EarlyDone = {} /\ TasksOf(micro) = {}
    BY DEF Init, Woken, EarlyDone, TasksOf
  <2>2. WokenIsDue /\ EarlySettles /\ CallsAhead /\ FullWhenWaiting
    BY <2>1 DEF Init, WokenIsDue, EarlySettles, CallsAhead, CallOnItsWay, FullWhenWaiting
  <2>3. LimitButForEarly
    BY <2>1, FS_EmptySet, MaxConcurrentAssumption DEF Init, LimitButForEarly
  <2> QED BY <2>2, <2>3 DEF TurnInv
<1>2. SlotInv /\ TurnInv /\ [Next]_vars => TurnInv'
  BY StartTurn, CallTurn, SettleTurn, ArrivalTurn, IdleTurn DEF Next, Microtask, Macrotask
<1> QED BY <1>1, <1>2, SlotInvHolds, PTL DEF Spec

\* SynthesisSemaphore.run(): --max-concurrent is passed by no more than the syntheses
\* that have settled without I/O, however many requests arrive, in whatever batches and
\* with whatever timeouts; while none has, it is kept.
THEOREM LimitKept == Spec => []LimitButForEarly
<1>1. TurnInv => LimitButForEarly
  BY DEF TurnInv
<1> QED BY <1>1, TurnInvHolds, PTL

\* A request starts at a call only in Admit.
LEMMA StartsAtAdmit ==
  ASSUME SlotInv, [Next]_vars, NEW r \in Requests, pc[r] = "calling",
         pc'[r] \in {"running", "settling"}
  PROVE  Admit
<1>0. pc \in [Requests -> Stage]
  BY DEF SlotInv, TypeOK
<1>1. ~Hop /\ ~UNCHANGED vars /\ ~\E s \in Requests : Timeout(s)
  BY DEF Hop, vars, Timeout
<1>2. ~RateLimited /\ ~Refuse /\ ~Wait
  BY <1>0 DEF RateLimited, Refuse, Wait
<1>3. ~Resume
  <2> SUFFICES ASSUME Resume
               PROVE  FALSE
    OBVIOUS
  <2>1. /\ micro # <<>> /\ Next1.kind = "resume"
        /\ \E x \in {"running", "settling"} : pc' = [pc EXCEPT ![Next1.req] = x]
    BY DEF Resume, Ready, StartSynthesis
  <2>2. pc[Next1.req] = "woken"
    BY <2>1, HeadAndTail DEF StageOf
  <2> QED BY <1>0, <2>1, <2>2
<1>4. ~Settle
  BY <1>0 DEF Settle
<1>5. ~Receive /\ ~\E s \in Requests : BackendDone(s)
  BY <1>0 DEF Receive, BackendDone
<1> QED BY <1>1, <1>2, <1>3, <1>4, <1>5 DEF Next, Microtask, Macrotask

\* A call that starts finds nobody in the queue, and somebody woken only after an
\* early settle.
LEMMA NobodyOvertaken ==
  ASSUME SlotInv, TurnInv, [Next]_vars,
         NEW r \in Requests, pc[r] = "calling", pc'[r] \in {"running", "settling"},
         NEW q \in Requests
  PROVE  pc[q] # "waiting" /\ (pc[q] = "woken" => EarlyDone # {})
<1>1. queue = <<>> /\ Cardinality(Woken) <= Cardinality(EarlyDone)
  BY StartsAtAdmit, AdmittedFinds
<1>2. pc[q] # "waiting"
  BY <1>1 DEF SlotInv, WaiterQueued
<1>3. ASSUME pc[q] = "woken", EarlyDone = {}
      PROVE  FALSE
  <2>1. Cardinality(Woken) = 0
    BY <1>1, <1>3, FiniteCounts, FS_EmptySet
  <2>2. Woken = {}
    BY <2>1, FiniteCounts, FS_EmptySet
  <2> QED BY <1>3, <2>2 DEF Woken
<1> QED BY <1>2, <1>3

\* SynthesisSemaphore.run(): a call that starts takes its slot from nobody in the queue,
\* whatever settles how; and from a woken waiter only after a synthesis that settled
\* without I/O.
THEOREM TurnsKept == Spec => NoOvertaking
<1>1. SlotInv /\ TurnInv /\ [Next]_vars =>
        [\A r \in Requests :
           (pc[r] = "calling" /\ pc'[r] \in {"running", "settling"}) =>
             \A q \in Requests : /\ pc[q] # "waiting"
                                 /\ pc[q] = "woken" => EarlyDone # {}]_vars
  BY NobodyOvertaken
<1> QED BY <1>1, SlotInvHolds, TurnInvHolds, PTL DEF Spec, NoOvertaking

-----------------------------------------------------------------------------
(***************************************************************************)
(* Casting. The search of the pool goes round it once, whatever number it  *)
(* starts at; so while a voice is free it comes to the first free one.     *)
(***************************************************************************)
DialogueConfig ==
  /\ Pool \in Seq(Range(Pool)) /\ Pool # <<>>
  /\ PauseTimes \subseteq Nat /\ MaxPause \in Nat /\ MaxLines \in Nat

\* The remainder is the one number that is left.
LEMMA RemainderIs ==
  ASSUME NEW n \in Nat \ {0}, NEW q \in Nat, NEW k \in 0..(n - 1)
  PROVE  (q * n + k) % n = k
<1> DEFINE x == q * n + k
           d == x \div n
           m == x % n
<1>1. q * n \in Nat /\ x \in Nat
  BY Z3
<1>2. x = d * n + m /\ d \in Int /\ m \in 0..(n - 1)
  BY <1>1, Z3
<1>3. CASE d >= q + 1
  <2>1. d * n >= (q + 1) * n /\ (q + 1) * n = q * n + n /\ d * n \in Int
    BY <1>2, <1>3, Z3
  <2> HIDE DEF d, m
  <2> QED BY <1>1, <1>2, <2>1
<1>4. CASE d <= q - 1
  <2>1. d * n <= (q - 1) * n /\ (q - 1) * n = q * n - n /\ d * n \in Int
    BY <1>2, <1>4, Z3
  <2> HIDE DEF d, m
  <2> QED BY <1>1, <1>2, <2>1
<1>5. CASE d = q
  <2> HIDE DEF d, m
  <2>1. m = k
    BY <1>1, <1>2, <1>5
  <2> QED BY <2>1 DEF m
<1> QED BY <1>2, <1>3, <1>4, <1>5

\* Round a pool of n, from a, to its place k.
LEMMA RoundThePool ==
  ASSUME NEW n \in Nat \ {0}, NEW a \in Nat, NEW k \in 0..(n - 1)
  PROVE  \E i \in 0..(n - 1) : (a + i) % n = k
<1> DEFINE q == a \div n
           r == a % n
<1>1. a = q * n + r /\ q \in Nat /\ r \in 0..(n - 1)
  BY Z3
<1>2. q * n \in Nat /\ (q + 1) * n = q * n + n
  BY <1>1, Z3
<1> HIDE DEF q, r
<1>3. CASE k >= r
  <2>1. k - r \in 0..(n - 1) /\ a + (k - r) = q * n + k
    BY <1>1, <1>2, <1>3
  <2>2. (q * n + k) % n = k
    BY <1>1, RemainderIs
  <2> QED BY <2>1, <2>2
<1>4. CASE k < r
  <2>1. k - r + n \in 0..(n - 1) /\ a + (k - r + n) = (q + 1) * n + k
    BY <1>1, <1>2, <1>4
  <2>2. ((q + 1) * n + k) % n = k
    <3>1. q + 1 \in Nat
      BY <1>1
    <3> QED BY <3>1, RemainderIs
  <2> QED BY <2>1, <2>2
<1> QED BY <1>1, <1>3, <1>4

\* The least of some numbers: sets of what lies below one get smaller, and not for ever.
LEMMA LeastIs ==
  ASSUME NEW S \in SUBSET Nat, IsFiniteSet(S), S # {}
  PROVE  \E x \in S : \A y \in S : x <= y
<1> DEFINE Below(x) == {y \in S : y < x}
           T == {Below(x) : x \in S}
<1>1. T \subseteq FiniteSubsetsOf(S) /\ T # {}
  <2>1. FiniteSubsetsOf(S) = SUBSET S
    BY FS_FiniteSubsetsOfFinite
  <2>2. \A x \in S : Below(x) \in SUBSET S
    OBVIOUS
  <2>3. T \subseteq SUBSET S
    <3> HIDE DEF Below
    <3> QED BY <2>2
  <2>4. T # {}
    <3> HIDE DEF Below
    <3> QED OBVIOUS
  <2> QED BY <2>1, <2>3, <2>4
<1>2. PICK U \in T : \A V \in T : ~(<<V, U>> \in StrictSubsetOrdering(S))
  <2> HIDE DEF T
  <2>1. IsWellFoundedOn(StrictSubsetOrdering(S), FiniteSubsetsOf(S))
    BY FS_StrictSubsetOrderingWellFounded
  <2> QED BY <1>1, <2>1, WFMin
<1>3. PICK x \in S : U = Below(x)
  OBVIOUS
<1>4. ASSUME NEW y \in S, y < x
      PROVE  FALSE
  <2>1. x \in Int /\ y \in Int /\ \A z \in S : z \in Int
    OBVIOUS
  <2>2. y \in Below(x) /\ y \notin Below(y)
    BY <1>4, <2>1
  <2>3. Below(y) \subseteq Below(x)
    <3> SUFFICES ASSUME NEW z \in S, z < y PROVE z < x
      OBVIOUS
    <3>1. z \in Int
      BY <2>1
    <3> QED BY <1>4, <2>1, <3>1
  <2>4. <<Below(y), Below(x)>> \in StrictSubsetOrdering(S)
    BY <2>2, <2>3 DEF StrictSubsetOrdering
  <2> QED BY <1>2, <1>3, <2>4
<1>5. \A y \in S : x <= y
  BY <1>4
<1> QED BY <1>5

\* What pickAutoVoice() gives is of the pool, and new while the pool lasts.
LEMMA PickedIsNew ==
  ASSUME DialogueConfig, autoIdx \in Nat
  PROVE  /\ PickAutoVoice.voice \in Range(Pool) /\ PickAutoVoice.next \in Nat
         /\ ~(Range(Pool) \subseteq Used) => PickAutoVoice.voice \notin Used
<1> DEFINE n == Len(Pool)
           free == {i \in 0..(n - 1) : At(autoIdx + i) \notin Used}
           least == CHOOSE i \in free : \A j \in free : i <= j
<1>1. /\ n \in Nat \ {0} /\ DOMAIN Pool = 1..n
      /\ \A k \in 1..n : Pool[k] \in Range(Pool)
      /\ \A v \in Range(Pool) : \E k \in 1..n : v = Pool[k]
  BY DEF DialogueConfig, Range
<1>2. \A i \in Nat : i % n \in 0..(n - 1)
  BY <1>1, Z3
<1>3. \A i \in Nat : At(i) \in Range(Pool)
  <2> SUFFICES ASSUME NEW i \in Nat PROVE At(i) \in Range(Pool)
    OBVIOUS
  <2> DEFINE m == i % n
  <2>1. At(i) = Pool[m + 1] /\ m \in 0..(n - 1)
    BY <1>2 DEF At
  <2> HIDE DEF m, n
  <2>2. m + 1 \in 1..n
    BY <1>1, <2>1
  <2> QED BY <1>1, <2>1, <2>2
<1>4. ASSUME ~(Range(Pool) \subseteq Used)
      PROVE  free # {}
  <2>1. PICK k \in 1..n : Pool[k] \notin Used
    BY <1>1, <1>4
  <2>2. k - 1 \in 0..(n - 1)
    BY <1>1
  <2>3. PICK i \in 0..(n - 1) : (autoIdx + i) % n = k - 1
    BY <1>1, <2>2, RoundThePool
  <2>4. At(autoIdx + i) = Pool[k]
    BY <1>1, <2>3 DEF At
  <2> QED BY <2>1, <2>4
<1>5. CASE free = {}
  <2>1. PickAutoVoice = [voice |-> At(autoIdx), next |-> autoIdx + 1]
    BY <1>5 DEF PickAutoVoice
  <2> HIDE DEF free
  <2> QED BY <1>3, <1>4, <1>5, <2>1
<1>6. CASE free # {}
  <2>1. IsFiniteSet(free) /\ free \in SUBSET Nat
    <3>1. IsFiniteSet(0..(n - 1))
      BY <1>1, FS_Interval
    <3> QED BY <1>1, <3>1, FS_Subset
  <2>2. least \in free
    <3> HIDE DEF free
    <3>1. \E x \in free : \A y \in free : x <= y
      BY <1>6, <2>1, LeastIs
    <3> QED BY <3>1
  <2>3. PickAutoVoice = [voice |-> At(autoIdx + least), next |-> ((autoIdx + least) % n) + 1]
    BY <1>6 DEF PickAutoVoice
  <2>4. autoIdx + least \in Nat /\ At(autoIdx + least) \notin Used
    BY <2>1, <2>2
  <2> HIDE DEF least, free
  <2>5. (autoIdx + least) % n \in 0..(n - 1)
    BY <1>2, <2>4
  <2>6. 0..(n - 1) \subseteq Nat
    BY <1>1
  <2> QED BY <1>3, <2>3, <2>4, <2>5, <2>6
<1> QED BY <1>5, <1>6

-----------------------------------------------------------------------------
DialogueInv == DialogueTypeOK /\ NewVoiceWhileItLasts

Cue == [type : {"pause", "line"}, speaker : SpeakerNames \cup {Nobody}, ms : 0..MaxPause]
Role == [speaker : SpeakerNames, voice : Range(Pool) \cup CastVoices, auto : BOOLEAN]

LEMMA DialogueInvInit == ASSUME DialogueConfig, DialogueInit PROVE DialogueInv
<1>1. 0 \in 0..MaxLines /\ 0 \in Nat
  BY DEF DialogueConfig
<1>2. DialogueTypeOK
  BY <1>1 DEF DialogueInit, DialogueTypeOK
<1>3. NewVoiceWhileItLasts
  BY DEF DialogueInit, NewVoiceWhileItLasts
<1> QED BY <1>2, <1>3 DEF DialogueInv

\* A line of the script casts nobody.
LEMMA CueAdded ==
  ASSUME DialogueInv, NEW cue \in Cue, AddCue(cue)
  PROVE  /\ cues' \in Seq(Cue) /\ parsing' \in {"lines", "casting", "done", "refused"}
BY DEF DialogueInv, DialogueTypeOK, AddCue, Cue

LEMMA LineKeeps ==
  ASSUME DialogueConfig, DialogueInv,
         \/ SkipLine \/ EndScript \/ Done
         \/ \E ms \in PauseTimes : Pause(ms)
         \/ \E s \in SpeakerNames : SpeakerLine(s)
  PROVE  DialogueInv'
<1>1. UNCHANGED <<casting, autoIdx>>
  BY DEF SkipLine, EndScript, Done, Pause, SpeakerLine
<1>2. /\ line' \in 0..MaxLines /\ cues' \in Seq(Cue) /\ speakers' \in Seq(SpeakerNames)
      /\ parsing' \in {"lines", "casting", "done", "refused"}
  <2>1. /\ line \in 0..MaxLines /\ cues \in Seq(Cue) /\ speakers \in Seq(SpeakerNames)
        /\ parsing \in {"lines", "casting", "done", "refused"} /\ MaxLines \in Nat
    BY DEF DialogueInv, DialogueTypeOK, DialogueConfig, Cue
  <2>2. ReadLine => line' \in 0..MaxLines
    BY <2>1 DEF ReadLine
  <2>3. CASE SkipLine
    BY <2>1, <2>2, <2>3 DEF SkipLine
  <2>4. CASE EndScript \/ Done
    BY <2>1, <2>4 DEF EndScript, Done
  <2>5. ASSUME NEW ms \in PauseTimes, Pause(ms)
        PROVE  /\ line' \in 0..MaxLines /\ cues' \in Seq(Cue) /\ speakers' \in Seq(SpeakerNames)
               /\ parsing' \in {"lines", "casting", "done", "refused"}
    <3> DEFINE cue == [type |-> "pause", speaker |-> Nobody, ms |-> IF ms < MaxPause THEN ms ELSE MaxPause]
    <3>1. cue \in Cue
      <4>1. (IF ms < MaxPause THEN ms ELSE MaxPause) \in 0..MaxPause
        BY DEF DialogueConfig
      <4>2. Nobody \in SpeakerNames \cup {Nobody}
        OBVIOUS
      <4> QED BY <4>1, <4>2 DEF Cue
    <3>2. AddCue(cue) /\ ReadLine /\ speakers' = speakers
      BY <2>5 DEF Pause
    <3> QED BY <2>1, <2>2, <3>1, <3>2, CueAdded
  <2>6. ASSUME NEW s \in SpeakerNames, SpeakerLine(s)
        PROVE  /\ line' \in 0..MaxLines /\ cues' \in Seq(Cue) /\ speakers' \in Seq(SpeakerNames)
               /\ parsing' \in {"lines", "casting", "done", "refused"}
    <3> DEFINE cue == [type |-> "line", speaker |-> s, ms |-> 0]
    <3>1. cue \in Cue
      BY DEF Cue, DialogueConfig
    <3>2. /\ ReadLine /\ speakers' \in Seq(SpeakerNames)
          /\ \/ parsing' = "refused" /\ cues' = cues
             \/ AddCue(cue)
      BY <2>1, <2>6 DEF SpeakerLine
    <3> QED BY <2>1, <2>2, <3>1, <3>2, CueAdded
  <2> QED BY <2>3, <2>4, <2>5, <2>6
<1>3. DialogueTypeOK'
  BY <1>1, <1>2 DEF DialogueInv, DialogueTypeOK, Cue
<1>4. NewVoiceWhileItLasts'
  BY <1>1 DEF DialogueInv, NewVoiceWhileItLasts
<1> QED BY <1>3, <1>4 DEF DialogueInv

LEMMA CastKeeps ==
  ASSUME DialogueConfig, DialogueInv, NEW v \in CastVoices \cup {NoVoice}, CastSpeaker(v)
  PROVE  DialogueInv'
<1> DEFINE n == Len(casting)
           role == [speaker |-> speakers[n + 1], voice |-> IF v = NoVoice THEN PickAutoVoice.voice ELSE v,
                    auto |-> v = NoVoice]
<1>1. /\ n < Len(speakers) /\ casting' = Append(casting, role)
      /\ autoIdx' = IF v = NoVoice THEN PickAutoVoice.next ELSE autoIdx
      /\ UNCHANGED <<line, cues, speakers, parsing>>
  BY DEF CastSpeaker
<1>2. /\ casting \in Seq(Role) /\ speakers \in Seq(SpeakerNames) /\ autoIdx \in Nat /\ n \in Nat
      /\ DOMAIN casting = 1..n
  BY DEF DialogueInv, DialogueTypeOK, Role
<1>3. /\ PickAutoVoice.voice \in Range(Pool) /\ PickAutoVoice.next \in Nat
      /\ ~(Range(Pool) \subseteq Used) => PickAutoVoice.voice \notin Used
  BY <1>2, PickedIsNew
<1>4. role \in Role
  <2>1. speakers[n + 1] \in SpeakerNames
    BY <1>1, <1>2
  <2> QED BY <1>3, <2>1 DEF Role
<1>5. role.auto /\ ~(Range(Pool) \subseteq Used) => role.voice \notin Used
  BY <1>3
<1> HIDE DEF role
<1>6. /\ casting' \in Seq(Role) /\ DOMAIN casting' = 1..(n + 1)
      /\ casting'[n + 1] = role /\ \A i \in 1..n : casting'[i] = casting[i]
  BY <1>1, <1>2, <1>4
<1>7. DialogueTypeOK'
  BY <1>1, <1>2, <1>3, <1>6 DEF DialogueInv, DialogueTypeOK, Role
<1>8. ASSUME NEW i \in 1..(n + 1)
      PROVE  LET before == {casting'[j].voice : j \in 1..(i - 1)}
             IN casting'[i].auto /\ ~(Range(Pool) \subseteq before) => casting'[i].voice \notin before
  <2>1. {casting'[j].voice : j \in 1..(i - 1)} = {casting[j].voice : j \in 1..(i - 1)}
    BY <1>2, <1>6
  <2>2. CASE i = n + 1
    <3>1. {casting[j].voice : j \in 1..(i - 1)} = Used
      BY <1>2, <2>2 DEF Used
    <3> QED BY <1>5, <1>6, <2>1, <2>2, <3>1
  <2>3. CASE i \in 1..n
    <3>1. LET before == {casting[j].voice : j \in 1..(i - 1)}
          IN casting[i].auto /\ ~(Range(Pool) \subseteq before) => casting[i].voice \notin before
      BY <1>2, <2>3 DEF DialogueInv, NewVoiceWhileItLasts
    <3> QED BY <1>6, <2>1, <2>3, <3>1
  <2> QED BY <1>2, <2>2, <2>3
<1>9. NewVoiceWhileItLasts'
  BY <1>6, <1>8 DEF NewVoiceWhileItLasts
<1> QED BY <1>7, <1>9 DEF DialogueInv

LEMMA DialogueInvNext ==
  ASSUME DialogueConfig, DialogueInv, [DialogueNext]_dialogueVars
  PROVE  DialogueInv'
<1>1. CASE UNCHANGED dialogueVars
  <2>1. /\ line' = line /\ cues' = cues /\ speakers' = speakers /\ casting' = casting
        /\ autoIdx' = autoIdx /\ parsing' = parsing
    BY <1>1 DEF dialogueVars
  <2>2. DialogueTypeOK'
    BY <2>1 DEF DialogueInv, DialogueTypeOK
  <2>3. NewVoiceWhileItLasts'
    BY <2>1 DEF DialogueInv, NewVoiceWhileItLasts
  <2> QED BY <2>2, <2>3 DEF DialogueInv
<1> QED BY <1>1, LineKeeps, CastKeeps DEF DialogueNext

LEMMA DialogueInvKept == ASSUME DialogueConfig PROVE DialogueSpec => []DialogueInv
BY DialogueInvInit, DialogueInvNext, PTL DEF DialogueSpec

\* The types of parseDialogue(), for any script, pool and cast (dialogue/parser.ts).
THEOREM DialogueTypesKept == ASSUME DialogueConfig PROVE DialogueSpec => []DialogueTypeOK
<1>1. DialogueInv => DialogueTypeOK
  BY DEF DialogueInv
<1> QED BY <1>1, DialogueInvKept, PTL

\* dialogue/parser.ts: while the pool lasts, a speaker who is cast from it gets a voice that
\* no speaker before has, whatever voices the caller gave to some of them.
THEOREM VoicesAreNew == ASSUME DialogueConfig PROVE DialogueSpec => []NewVoiceWhileItLasts
<1>1. DialogueInv => NewVoiceWhileItLasts
  BY DEF DialogueInv
<1> QED BY <1>1, DialogueInvKept, PTL

-----------------------------------------------------------------------------
(***************************************************************************)
(* The ambient emitter. Every thought was emitted at the last time of all  *)
(* or before it, and so for its category.                                  *)
(***************************************************************************)
AmbientConfig == GlobalCooldown \in Nat /\ CategoryCooldown \in Nat /\ EndTime \in Nat

Thought == [category : Categories, at : 0..EndTime]

ThoughtsTimed ==
  /\ clock \in 0..EndTime /\ lastEmit \in Int /\ lastOf \in [Categories -> Int]
  /\ emitted \in Seq(Thought)
  /\ \A i \in 1..Len(emitted) : /\ emitted[i].at <= lastEmit
                                /\ emitted[i].at <= lastOf[emitted[i].category]

AmbientInv == ThoughtsTimed /\ Spaced

LEMMA AmbientInvInit == ASSUME AmbientConfig, AmbientInit PROVE AmbientInv
<1>1. Never \in Int /\ 0 \in 0..EndTime
  BY DEF AmbientConfig, Never
<1>2. emitted = <<>> /\ emitted \in Seq(Thought) /\ Len(emitted) = 0 /\ DOMAIN emitted = {}
  <2>1. emitted = <<>>
    BY DEF AmbientInit
  <2> QED BY <2>1
<1>3. clock = 0 /\ lastEmit \in Int /\ lastOf \in [Categories -> Int]
  BY <1>1 DEF AmbientInit
<1> QED BY <1>1, <1>2, <1>3 DEF AmbientInv, ThoughtsTimed, Spaced

LEMMA EmitKeeps ==
  ASSUME AmbientConfig, AmbientInv, NEW c \in Categories, EmitThought(c)
  PROVE  AmbientInv'
<1> DEFINE n == Len(emitted)
           thought == [category |-> c, at |-> clock]
<1>1. /\ emitted' = Append(emitted, thought) /\ lastEmit' = clock
      /\ lastOf' = [lastOf EXCEPT ![c] = clock] /\ clock' = clock
      /\ clock - lastEmit >= GlobalCooldown /\ clock - lastOf[c] >= CategoryCooldown
  BY DEF EmitThought, Accepts
<1>2. /\ thought \in Thought /\ emitted \in Seq(Thought) /\ n \in Nat
      /\ emitted' \in Seq(Thought) /\ Len(emitted') = n + 1
      /\ DOMAIN emitted' = 1..(n + 1) /\ DOMAIN emitted = 1..n
      /\ emitted'[n + 1] = thought /\ \A i \in 1..n : emitted'[i] = emitted[i]
  BY <1>1 DEF AmbientInv, ThoughtsTimed, Thought
<1>3. /\ clock \in Int /\ lastEmit \in Int /\ lastOf \in [Categories -> Int]
      /\ GlobalCooldown \in Nat /\ CategoryCooldown \in Nat
      /\ \A i \in 1..n : emitted[i].at \in Int /\ emitted[i].category \in Categories
  <2>1. /\ clock \in Int /\ lastEmit \in Int /\ lastOf \in [Categories -> Int]
        /\ GlobalCooldown \in Nat /\ CategoryCooldown \in Nat
    BY DEF AmbientInv, ThoughtsTimed, AmbientConfig
  <2>2. \A i \in 1..n : emitted[i] \in Thought
    BY <1>2
  <2>3. \A e \in Thought : e.at \in Int /\ e.category \in Categories
    BY DEF Thought
  <2> QED BY <2>1, <2>2, <2>3
<1>4. ASSUME NEW i \in 1..n
      PROVE  /\ emitted[i].at <= lastEmit /\ emitted[i].at <= clock
             /\ clock - emitted[i].at >= GlobalCooldown
             /\ emitted[i].category = c => clock - emitted[i].at >= CategoryCooldown
             /\ emitted[i].at <= lastOf[emitted[i].category]
  <2>1. /\ emitted[i].at <= lastEmit /\ emitted[i].at <= lastOf[emitted[i].category]
        /\ emitted[i].at \in Int
    BY <1>3 DEF AmbientInv, ThoughtsTimed
  <2>2. lastOf[c] \in Int
    BY <1>3
  <2> QED BY <1>1, <1>3, <2>1, <2>2
<1> HIDE DEF thought
<1>5. thought.at = clock /\ thought.category = c
  BY DEF thought
<1>6. ThoughtsTimed'
  <2>1. ASSUME NEW i \in 1..(n + 1)
        PROVE  emitted'[i].at <= lastEmit' /\ emitted'[i].at <= lastOf'[emitted'[i].category]
    <3>1. CASE i = n + 1
      BY <1>1, <1>2, <1>3, <1>5, <3>1
    <3>2. CASE i \in 1..n /\ emitted[i].category = c
      BY <1>1, <1>2, <1>3, <1>4, <3>2
    <3>3. CASE i \in 1..n /\ emitted[i].category # c
      BY <1>1, <1>2, <1>3, <1>4, <3>3
    <3> QED BY <1>2, <3>1, <3>2, <3>3
  <2>2. clock' \in 0..EndTime /\ lastEmit' \in Int /\ lastOf' \in [Categories -> Int]
    BY <1>1, <1>3 DEF AmbientInv, ThoughtsTimed
  <2> QED BY <1>2, <2>1, <2>2 DEF ThoughtsTimed
<1>7. Spaced'
  <2> SUFFICES ASSUME NEW i \in 1..(n + 1), NEW j \in 1..(n + 1), i < j
               PROVE  /\ emitted'[j].at - emitted'[i].at >= GlobalCooldown
                      /\ emitted'[j].category = emitted'[i].category =>
                           emitted'[j].at - emitted'[i].at >= CategoryCooldown
    BY <1>2 DEF Spaced
  <2>1. i \in 1..n
    BY <1>2
  <2>2. CASE j = n + 1
    BY <1>2, <1>4, <1>5, <2>1, <2>2
  <2>3. CASE j \in 1..n
    BY <1>2, <2>1, <2>3 DEF AmbientInv, Spaced
  <2> QED BY <1>2, <2>2, <2>3
<1> QED BY <1>6, <1>7 DEF AmbientInv

LEMMA AmbientInvNext ==
  ASSUME AmbientConfig, AmbientInv, [AmbientNext]_ambientVars
  PROVE  AmbientInv'
<1>1. CASE PruneExpired \/ UNCHANGED ambientVars
  <2>1. UNCHANGED <<clock, lastEmit, lastOf, emitted>>
    BY <1>1 DEF PruneExpired, ambientVars
  <2> QED BY <2>1 DEF AmbientInv, ThoughtsTimed, Spaced
<1>2. CASE Tick
  <2>1. UNCHANGED <<lastEmit, lastOf, emitted>> /\ clock' \in 0..EndTime
    BY <1>2 DEF Tick, AmbientInv, ThoughtsTimed, AmbientConfig
  <2> QED BY <2>1 DEF AmbientInv, ThoughtsTimed, Spaced
<1>3. CASE Clear
  <2>1. Never \in Int
    BY DEF AmbientConfig, Never
  <2>2. emitted' = <<>> /\ emitted' \in Seq(Thought) /\ Len(emitted') = 0 /\ DOMAIN emitted' = {}
    <3>1. emitted' = <<>>
      BY <1>3 DEF Clear
    <3> QED BY <3>1
  <2>3. clock' \in 0..EndTime /\ lastEmit' \in Int /\ lastOf' \in [Categories -> Int]
    BY <1>3, <2>1 DEF Clear, AmbientInv, ThoughtsTimed
  <2> QED BY <2>2, <2>3 DEF AmbientInv, ThoughtsTimed, Spaced
<1> QED BY <1>1, <1>2, <1>3, EmitKeeps DEF AmbientNext

\* emitter.ts: two thoughts are never nearer than the cooldown of all, nor two of a category
\* than the cooldown of theirs, for any cooldowns, categories and times.
THEOREM ThoughtsSpaced == ASSUME AmbientConfig PROVE AmbientSpec => []Spaced
<1>1. AmbientInv => Spaced
  BY DEF AmbientInv
<1> QED BY <1>1, AmbientInvInit, AmbientInvNext, PTL DEF AmbientSpec

-----------------------------------------------------------------------------
(***************************************************************************)
(* The health check, for any callers and times. What is stored is never    *)
(* older than the time it is stored under, and unless two checks overlap   *)
(* each is newer than the one before; so a caller that was let in by a     *)
(* fresh cache finds one that is as fresh, though others have stored since.*)
(***************************************************************************)
CONSTANTS Callers, HealthEndTime, Recorders, Backends, Latencies, MaxSamples, MaxRecords
VARIABLES
  healthTime, lastCheck, lastTime, checking, healthAnswer, overlapped, stopEvent, monitor, control,
  wanted, late, counter, histogram, recording, export, observed, records

Health == INSTANCE Monitoring WITH
  EndTime <- HealthEndTime, time <- healthTime, answer <- healthAnswer

HealthConfig == "monitor" \notin Callers /\ HealthEndTime \in Nat \ {0}

InCheck == {"components", "store", "store time"}
Ages == [pc : {"out", "serve"} \cup InCheck, now : 0..HealthEndTime]
Answers == [made : 0..HealthEndTime, at : 0..HealthEndTime, cached : BOOLEAN]

HealthTyped ==
  /\ healthTime \in 1..HealthEndTime /\ lastCheck \in 0..HealthEndTime /\ lastTime \in 0..HealthEndTime
  /\ checking \in [Health!Threads -> Ages]
  /\ healthAnswer \in [Callers -> Answers]
  /\ overlapped \in BOOLEAN /\ stopEvent \in BOOLEAN /\ wanted \in BOOLEAN /\ late \in BOOLEAN
  /\ control \in 0..HealthEndTime /\ monitor \in {"none", "loop", "check", "wait", "ended"}
  /\ monitor # "check" => checking["monitor"].pc = "out"
  /\ checking["monitor"].pc # "serve"

\* What the cache says of its age.
Dated ==
  /\ lastTime <= lastCheck /\ lastCheck <= healthTime
  /\ \A t, u \in Health!Computing : t = u
  /\ \A t \in Health!Threads : LET c == checking[t] IN
       /\ c.pc = "serve" => c.now - lastCheck < Health!Fresh
       /\ c.pc \in InCheck => c.now <= healthTime /\ lastCheck <= c.now
       /\ c.pc = "store time" => lastCheck = c.now

HealthInv ==
  /\ HealthTyped
  /\ ~overlapped => Dated
  /\ Health!CachedIsFresh
  /\ Health!MonitoredWhenStarted

LEMMA ThreadsAre == "monitor" \in Health!Threads /\ \A c \in Callers : c \in Health!Threads
BY DEF Health!Threads

LEMMA HealthInvInit == ASSUME HealthConfig, Health!HealthInit PROVE HealthInv
<1>1. /\ 0 \in 0..HealthEndTime /\ 1 \in 1..HealthEndTime /\ 0 <= 1 /\ 0 <= 0
  BY DEF HealthConfig
<1>2. Health!Idle \in Ages /\ Health!Idle.pc = "out" /\ Health!Never \in Answers /\ Health!Never.cached = FALSE
  BY <1>1 DEF Health!Idle, Health!Never, Ages, Answers
<1>3. /\ checking \in [Health!Threads -> Ages] /\ \A t \in Health!Threads : checking[t].pc = "out"
      /\ healthAnswer \in [Callers -> Answers] /\ \A c \in Callers : healthAnswer[c].cached = FALSE
  BY <1>2 DEF Health!HealthInit
<1>4. HealthTyped
  BY <1>1, <1>3, ThreadsAre DEF Health!HealthInit, HealthTyped
<1>5. Dated
  BY <1>1, <1>3 DEF Health!HealthInit, Dated, Health!Computing, InCheck
<1>6. Health!CachedIsFresh
  BY <1>3 DEF Health!CachedIsFresh
<1>7. Health!MonitoredWhenStarted
  BY DEF Health!HealthInit, Health!MonitoredWhenStarted
<1> QED BY <1>4, <1>5, <1>6, <1>7 DEF HealthInv

\* Types, for arithmetic.
LEMMA Times ==
  ASSUME HealthConfig, HealthTyped
  PROVE  /\ healthTime \in Nat /\ lastCheck \in Nat /\ lastTime \in Nat /\ healthTime \in 0..HealthEndTime
         /\ \A c \in Ages : c.now \in Nat /\ c.now \in 0..HealthEndTime /\ c.pc \in {"out", "serve"} \cup InCheck
         /\ \A t \in Health!Threads : checking[t] \in Ages
         /\ healthTime <= healthTime
<1>1. healthTime \in Nat /\ lastCheck \in Nat /\ lastTime \in Nat /\ healthTime \in 0..HealthEndTime
  BY DEF HealthTyped, HealthConfig
<1>2. \A c \in Ages : c.now \in Nat /\ c.now \in 0..HealthEndTime /\ c.pc \in {"out", "serve"} \cup InCheck
  BY DEF Ages, HealthConfig
<1> QED BY <1>1, <1>2 DEF HealthTyped

LEMMA DatesInOrder ==
  ASSUME HealthConfig, HealthTyped, Dated
  PROVE  lastTime <= lastCheck /\ lastCheck <= healthTime /\ lastCheck <= lastCheck
<1>1. lastTime <= lastCheck /\ lastCheck <= healthTime
  BY DEF Dated
<1> QED BY <1>1, Times

LEMMA InOrder ==
  ASSUME NEW a \in Nat, NEW b \in Nat, NEW c \in Nat, a <= b, b <= c
  PROVE  a <= c /\ c <= c
OBVIOUS

\* What is fresh beside an older date is fresh beside a newer one.
LEMMA Fresher ==
  ASSUME NEW x \in Nat, NEW a \in Nat, NEW b \in Nat, a <= b, x - a < Health!Fresh
  PROVE  x - b < Health!Fresh
BY DEF Health!Fresh

\* One thread goes on.
LEMMA OneMoves ==
  ASSUME HealthTyped, NEW t \in Health!Threads, NEW c \in Ages, checking' = [checking EXCEPT ![t] = c]
  PROVE  /\ checking' \in [Health!Threads -> Ages] /\ checking'[t] = c
         /\ \A u \in Health!Threads \ {t} : checking'[u] = checking[u]
BY DEF HealthTyped

\* A thread begins to compute: it is alone, or there is an overlap.
LEMMA BeginKeepsDates ==
  ASSUME HealthConfig, HealthTyped, ~overlapped => Dated, NEW t \in Health!Threads,
         checking' = [checking EXCEPT ![t] = [pc |-> "components", now |-> healthTime]],
         overlapped' = (overlapped \/ Health!Computing # {}),
         UNCHANGED <<healthTime, lastCheck, lastTime>>
  PROVE  /\ checking' \in [Health!Threads -> Ages] /\ overlapped' \in BOOLEAN
         /\ ~overlapped' => Dated'
<1> DEFINE begun == [pc |-> "components", now |-> healthTime]
<1>1. begun \in Ages
  BY Times DEF Ages, InCheck
<1>2. begun.pc = "components" /\ begun.now = healthTime
  OBVIOUS
<1> HIDE DEF begun
<1>3. /\ checking' \in [Health!Threads -> Ages] /\ checking'[t] = begun
      /\ \A u \in Health!Threads \ {t} : checking'[u] = checking[u]
  BY <1>1, OneMoves DEF begun
<1>4. ASSUME ~overlapped'
      PROVE  Dated'
  <2>1. ~overlapped /\ Dated /\ \A u \in Health!Threads : checking[u].pc \notin InCheck
    BY <1>4 DEF Health!Computing, InCheck, HealthTyped
  <2>2. \A u, v \in Health!Computing' : u = v
    BY <1>3, <2>1 DEF Health!Computing, InCheck
  <2>3. lastTime <= lastCheck /\ lastCheck <= healthTime
    BY <2>1 DEF Dated
  <2>4. ASSUME NEW u \in Health!Threads
        PROVE  LET c == checking'[u] IN
               /\ c.pc = "serve" => c.now - lastCheck' < Health!Fresh
               /\ c.pc \in InCheck => c.now <= healthTime' /\ lastCheck' <= c.now
               /\ c.pc = "store time" => lastCheck' = c.now
    <3>1. CASE u = t
      BY <1>2, <1>3, <2>3, <3>1, Times
    <3>2. CASE u # t
      BY <1>3, <2>1, <3>2 DEF Dated
    <3> QED BY <3>1, <3>2
  <2> QED BY <2>2, <2>3, <2>4 DEF Dated
<1> QED BY <1>3, <1>4 DEF HealthTyped

\* A thread that is inside goes on to c, when nothing is dated anew but by it.
LEMMA StepKeepsDates ==
  ASSUME HealthConfig, HealthTyped, Dated, NEW t \in Health!Threads, NEW c \in Ages,
         checking' = [checking EXCEPT ![t] = c], healthTime' = healthTime,
         c.pc \in InCheck => checking[t].pc \in InCheck,
         lastTime' \in Nat, lastCheck' \in Nat,
         lastTime' <= lastCheck', lastCheck <= lastCheck', lastCheck' <= healthTime,
         lastCheck' = lastCheck \/ checking[t].pc \in InCheck,
         c.pc = "serve" => c.now - lastCheck' < Health!Fresh,
         c.pc \in InCheck => c.now <= healthTime /\ lastCheck' <= c.now,
         c.pc = "store time" => lastCheck' = c.now
  PROVE  Dated'
<1>1. /\ checking' \in [Health!Threads -> Ages] /\ checking'[t] = c
      /\ \A u \in Health!Threads \ {t} : checking'[u] = checking[u]
  BY OneMoves
<1>2. \A u, v \in Health!Computing' : u = v
  BY <1>1 DEF Dated, Health!Computing, InCheck
<1>3. ASSUME NEW u \in Health!Threads
      PROVE  LET d == checking'[u] IN
             /\ d.pc = "serve" => d.now - lastCheck' < Health!Fresh
             /\ d.pc \in InCheck => d.now <= healthTime' /\ lastCheck' <= d.now
             /\ d.pc = "store time" => lastCheck' = d.now
  <2>1. CASE u = t
    BY <1>1, <2>1
  <2>2. CASE u # t
    <3>1. checking'[u] = checking[u] /\ checking[u] \in Ages /\ checking[u].now \in Nat
      BY <1>1, <2>2, Times
    <3>2. /\ checking[u].pc = "serve" => checking[u].now - lastCheck < Health!Fresh
          /\ checking[u].pc \in InCheck => checking[u].now <= healthTime /\ lastCheck <= checking[u].now
          /\ checking[u].pc = "store time" => lastCheck = checking[u].now
      BY DEF Dated
    <3>3. checking[u].pc \in InCheck => lastCheck' = lastCheck
      BY <2>2 DEF Dated, Health!Computing, InCheck
    <3>4. checking[u].now - lastCheck < Health!Fresh => checking[u].now - lastCheck' < Health!Fresh
      BY <3>1, Times, Fresher
    <3> QED BY <3>1, <3>2, <3>3, <3>4 DEF InCheck
  <2> QED BY <2>1, <2>2
<1> QED BY <1>2, <1>3 DEF Dated

-----------------------------------------------------------------------------
\* What a check leaves of the monitor.
MonitorKept == UNCHANGED <<stopEvent, monitor, control, wanted, late>>

\* A check that leaves the monitor and the answers.
LEMMA InsideKeeps ==
  ASSUME HealthConfig, HealthInv, NEW t \in Health!Threads, NEW c \in Ages,
         checking' = [checking EXCEPT ![t] = c], MonitorKept, healthTime' = healthTime,
         t = "monitor" => c.pc # "serve" /\ (monitor # "check" => c.pc = "out"),
         lastCheck' \in 0..HealthEndTime, lastTime' \in 0..HealthEndTime, overlapped' \in BOOLEAN,
         healthAnswer' \in [Callers -> Answers],
         ~overlapped' => Dated', Health!CachedIsFresh'
  PROVE  HealthInv'
<1>1. /\ checking' \in [Health!Threads -> Ages] /\ checking'[t] = c
      /\ \A u \in Health!Threads \ {t} : checking'[u] = checking[u]
  BY OneMoves DEF HealthInv
<1>2. (monitor # "check" => checking'["monitor"].pc = "out") /\ checking'["monitor"].pc # "serve"
  BY <1>1, ThreadsAre DEF HealthInv, HealthTyped
<1>3. HealthTyped'
  BY <1>1, <1>2 DEF HealthInv, HealthTyped, MonitorKept
<1>4. Health!MonitoredWhenStarted'
  BY DEF HealthInv, Health!MonitoredWhenStarted, Health!Alive, MonitorKept
<1> QED BY <1>3, <1>4 DEF HealthInv

LEMMA EnterKeeps ==
  ASSUME HealthConfig, HealthInv, NEW t \in Health!Threads, Health!Check(t)
  PROVE  HealthInv'
<1> USE DEF HealthInv
<1>1. PICK force \in BOOLEAN : Health!Enter(t, force)
  BY DEF Health!Check
<1> DEFINE hit == ~force /\ lastCheck # 0 /\ healthTime - lastTime < Health!Fresh
<1>2. /\ t \in Callers /\ checking[t].pc = "out"
      /\ checking' = [checking EXCEPT ![t] = [pc |-> IF hit THEN "serve" ELSE "components", now |-> healthTime]]
      /\ overlapped' = (overlapped \/ (~hit /\ Health!Computing # {}))
      /\ UNCHANGED <<healthTime, lastCheck, lastTime, healthAnswer>> /\ MonitorKept
  BY <1>1 DEF Health!Check, Health!Enter, MonitorKept
<1>3. t # "monitor"
  BY <1>2 DEF HealthConfig
<1>4. /\ lastCheck' \in 0..HealthEndTime /\ lastTime' \in 0..HealthEndTime /\ overlapped' \in BOOLEAN
      /\ healthAnswer' \in [Callers -> Answers]
  BY <1>2 DEF HealthTyped
<1>5. Health!CachedIsFresh'
  BY <1>2 DEF Health!CachedIsFresh, HealthTyped
<1>6. CASE hit
  <2> DEFINE c == [pc |-> "serve", now |-> healthTime]
  <2>1. c \in Ages /\ checking' = [checking EXCEPT ![t] = c] /\ overlapped' = overlapped
    BY <1>2, <1>6, Times DEF Ages, HealthTyped
  <2>2. c.pc = "serve" /\ c.now = healthTime
    OBVIOUS
  <2>3. ASSUME ~overlapped'
        PROVE  Dated'
    <3>0. Dated
      BY <2>1, <2>3
    <3>1. Dated /\ lastTime <= lastCheck /\ lastCheck <= healthTime /\ lastCheck <= lastCheck
      BY <3>0, DatesInOrder
    <3>2. healthTime - lastCheck < Health!Fresh
      BY <1>6, <3>1, Times, Fresher
    <3> HIDE DEF c
    <3> QED BY <1>2, <2>1, <2>2, <3>1, <3>2, Times, StepKeepsDates DEF InCheck
  <2> HIDE DEF c
  <2> QED BY <1>2, <1>3, <1>4, <1>5, <2>1, <2>3, InsideKeeps
<1>7. CASE ~hit
  <2> DEFINE c == [pc |-> "components", now |-> healthTime]
  <2>1. c \in Ages /\ checking' = [checking EXCEPT ![t] = c]
        /\ overlapped' = (overlapped \/ Health!Computing # {})
    BY <1>2, <1>7, Times DEF Ages, InCheck
  <2>2. ~overlapped' => Dated'
    BY <1>2, <2>1, BeginKeepsDates
  <2> HIDE DEF c
  <2> QED BY <1>2, <1>3, <1>4, <1>5, <2>1, <2>2, InsideKeeps
<1> QED BY <1>6, <1>7

LEMMA ServeKeeps ==
  ASSUME HealthConfig, HealthInv, NEW t \in Health!Threads, Health!Serve(t)
  PROVE  HealthInv'
<1> USE DEF HealthInv
<1> DEFINE given == [made |-> lastCheck, at |-> checking[t].now, cached |-> TRUE]
<1>1. /\ t \in Callers /\ checking[t].pc = "serve"
      /\ healthAnswer' = [healthAnswer EXCEPT ![t] = given]
      /\ checking' = [checking EXCEPT ![t] = Health!Idle]
      /\ UNCHANGED <<healthTime, lastCheck, lastTime, overlapped>> /\ MonitorKept
  BY DEF Health!Serve, MonitorKept
<1>2. Health!Idle \in Ages /\ Health!Idle.pc = "out"
  BY DEF Health!Idle, Ages, HealthConfig
<1>3. t # "monitor" /\ lastCheck' \in 0..HealthEndTime /\ lastTime' \in 0..HealthEndTime /\ overlapped' \in BOOLEAN
  BY <1>1 DEF HealthConfig, HealthTyped
<1>4. given \in Answers /\ given.made = lastCheck /\ given.at = checking[t].now
  BY Times DEF Answers, HealthTyped
<1> HIDE DEF given
<1>5. /\ healthAnswer' \in [Callers -> Answers] /\ healthAnswer'[t] = given
      /\ \A c \in Callers \ {t} : healthAnswer'[c] = healthAnswer[c]
  BY <1>1, <1>4 DEF HealthTyped
<1>6. Health!CachedIsFresh'
  <2> SUFFICES ASSUME NEW c \in Callers, healthAnswer'[c].cached, ~overlapped'
               PROVE  healthAnswer'[c].at - healthAnswer'[c].made < Health!Fresh
    BY DEF Health!CachedIsFresh, Health!Fresh
  <2>1. CASE c = t
    <3>1. checking[t].now - lastCheck < Health!Fresh
      BY <1>1 DEF Dated
    <3> QED BY <1>4, <1>5, <2>1, <3>1
  <2>2. CASE c # t
    BY <1>1, <1>5, <2>2 DEF Health!CachedIsFresh
  <2> QED BY <2>1, <2>2
<1>7. ASSUME ~overlapped'
      PROVE  Dated'
  <2>0. Dated
    BY <1>1, <1>7
  <2>1. Dated /\ lastTime <= lastCheck /\ lastCheck <= healthTime /\ lastCheck <= lastCheck
    BY <2>0, DatesInOrder
  <2> QED BY <1>1, <1>2, <2>1, Times, StepKeepsDates DEF InCheck
<1> QED BY <1>1, <1>2, <1>3, <1>5, <1>6, <1>7, InsideKeeps

\* The two steps that leave the answers.
LEMMA ComputesKeeps ==
  ASSUME HealthConfig, HealthInv, NEW t \in Health!Threads, Health!Components(t) \/ Health!Store(t)
  PROVE  HealthInv'
<1> USE DEF HealthInv
<1> DEFINE goes(p) == [checking[t] EXCEPT !.pc = p]
           now == checking[t].now
<1>1. PICK p \in {"store", "store time"} :
         /\ checking' = [checking EXCEPT ![t] = goes(p)] /\ checking[t].pc \in {"components", "store"}
         /\ \/ p = "store" /\ lastCheck' = lastCheck
            \/ p = "store time" /\ lastCheck' = now
         /\ UNCHANGED <<healthTime, lastTime, healthAnswer, overlapped>> /\ MonitorKept
  <2>1. CASE Health!Components(t)
    BY <2>1 DEF Health!Components, MonitorKept
  <2>2. CASE Health!Store(t)
    BY <2>2 DEF Health!Store, MonitorKept
  <2> QED BY <2>1, <2>2
<1> DEFINE c == goes(p)
<1>2. c \in Ages /\ c.pc = p /\ c.now = now /\ now \in Nat /\ now \in 0..HealthEndTime
  BY Times DEF Ages, InCheck
<1> HIDE DEF c, now
<1>3. /\ lastCheck' \in 0..HealthEndTime /\ lastTime' \in 0..HealthEndTime /\ overlapped' \in BOOLEAN
      /\ healthAnswer' \in [Callers -> Answers] /\ checking' = [checking EXCEPT ![t] = c]
  BY <1>1, <1>2 DEF HealthTyped, c
<1>4. t = "monitor" => c.pc # "serve" /\ (monitor # "check" => c.pc = "out")
  BY <1>1, <1>2 DEF HealthTyped
<1>5. Health!CachedIsFresh'
  BY <1>1 DEF Health!CachedIsFresh, HealthTyped
<1>6. ASSUME ~overlapped'
      PROVE  Dated'
  <2>1. Dated
    BY <1>1, <1>6
  <2>2. /\ lastTime <= lastCheck /\ lastCheck <= healthTime /\ now <= healthTime /\ lastCheck <= now
    BY <1>1, <2>1 DEF Dated, InCheck, now
  <2>3. /\ lastTime' <= lastCheck' /\ lastCheck <= lastCheck' /\ lastCheck' <= healthTime
        /\ lastCheck' <= now /\ (p = "store time" => lastCheck' = now)
    <3>1. CASE p = "store" /\ lastCheck' = lastCheck
      <4>1. lastTime' = lastTime /\ lastCheck' = lastCheck
        BY <1>1, <3>1
      <4> QED BY <3>1, <4>1, <2>1, <2>2, DatesInOrder
    <3>2. CASE p = "store time" /\ lastCheck' = now
      <4>1. lastTime' = lastTime /\ lastCheck' = now /\ lastTime \in Nat /\ lastCheck \in Nat /\ now \in Nat
        BY <1>1, <1>2, <3>2, Times
      <4>2. lastTime <= now /\ now <= now
        BY <2>2, <4>1, InOrder
      <4> QED BY <4>1, <4>2, <2>2
    <3> QED BY <1>1, <3>1, <3>2
  <2>4. checking[t].pc \in InCheck /\ lastTime' \in Nat /\ lastCheck' \in Nat
    BY <1>1, <1>2, Times DEF InCheck
  <2> QED BY <1>1, <1>2, <1>3, <2>1, <2>2, <2>3, <2>4, StepKeepsDates
<1> QED BY <1>1, <1>2, <1>3, <1>4, <1>5, <1>6, InsideKeeps

LEMMA StoreTimeKeeps ==
  ASSUME HealthConfig, HealthInv, NEW t \in Health!Threads, Health!StoreTime(t)
  PROVE  HealthInv'
<1> USE DEF HealthInv
<1> DEFINE now == checking[t].now
           given == [made |-> now, at |-> now, cached |-> FALSE]
<1>1. /\ checking[t].pc = "store time" /\ lastTime' = now
      /\ healthAnswer' = [c \in Callers |-> IF c = t THEN given ELSE healthAnswer[c]]
      /\ checking' = [checking EXCEPT ![t] = Health!Idle]
      /\ UNCHANGED <<healthTime, lastCheck, overlapped>> /\ MonitorKept
  BY DEF Health!StoreTime, Health!Answered, MonitorKept
<1>2. Health!Idle \in Ages /\ Health!Idle.pc = "out"
  BY DEF Health!Idle, Ages, HealthConfig
<1>3. now \in Nat /\ now \in 0..HealthEndTime
  BY Times
<1> HIDE DEF now
<1>4. given \in Answers /\ given.cached = FALSE
  BY <1>3 DEF Answers
<1> HIDE DEF given
<1>5. /\ healthAnswer' \in [Callers -> Answers]
      /\ \A c \in Callers : healthAnswer'[c] = given \/ healthAnswer'[c] = healthAnswer[c]
  BY <1>1, <1>4 DEF HealthTyped
<1>6. lastCheck' \in 0..HealthEndTime /\ lastTime' \in 0..HealthEndTime /\ overlapped' \in BOOLEAN
  BY <1>1, <1>3 DEF HealthTyped
<1>7. Health!CachedIsFresh'
  BY <1>1, <1>4, <1>5 DEF Health!CachedIsFresh
<1>8. ASSUME ~overlapped'
      PROVE  Dated'
  <2>1. Dated /\ lastCheck <= healthTime /\ lastCheck <= lastCheck /\ lastCheck = now
    BY <1>1, <1>8, Times DEF Dated, now
  <2>2. lastTime' <= lastCheck' /\ lastTime' \in Nat /\ lastCheck' \in Nat /\ lastCheck' = lastCheck
    BY <1>1, <2>1, Times
  <2> QED BY <1>1, <1>2, <2>1, <2>2, StepKeepsDates DEF InCheck
<1> QED BY <1>1, <1>2, <1>5, <1>6, <1>7, <1>8, InsideKeeps

\* Start, stop and join, and the monitor's waiting.
LEMMA ControlKeeps ==
  ASSUME HealthConfig, HealthInv,
         \/ Health!StartAlive \/ Health!StartThread \/ Health!Stop \/ Health!Joined \/ Health!MonitorWait
         \/ Health!MonitorLoop /\ stopEvent
  PROVE  HealthInv'
<1> USE DEF HealthInv
<1>1. UNCHANGED <<healthTime, lastCheck, lastTime, checking, healthAnswer, overlapped>>
  BY DEF Health!StartAlive, Health!StartThread, Health!Stop, Health!Joined, Health!MonitorWait, Health!MonitorLoop
<1>2. /\ stopEvent' \in BOOLEAN /\ wanted' \in BOOLEAN /\ late' \in BOOLEAN
      /\ control' \in 0..HealthEndTime /\ monitor' \in {"none", "loop", "check", "wait", "ended"}
      /\ monitor' # "check" => checking["monitor"].pc = "out"
  <2>1. healthTime \in 0..HealthEndTime /\ 0 \in 0..HealthEndTime
    BY Times DEF HealthConfig
  <2>2. CASE Health!StartAlive
    BY <2>2 DEF Health!StartAlive, HealthTyped
  <2>3. CASE Health!StartThread
    BY <2>3 DEF Health!StartThread, Health!Alive, HealthTyped
  <2>4. CASE Health!Stop
    BY <2>1, <2>4 DEF Health!Stop, HealthTyped
  <2>5. CASE Health!Joined
    BY <2>1, <2>5 DEF Health!Joined, HealthTyped
  <2>6. CASE Health!MonitorWait
    BY <2>6 DEF Health!MonitorWait, HealthTyped
  <2>7. CASE Health!MonitorLoop /\ stopEvent
    BY <2>7 DEF Health!MonitorLoop, HealthTyped
  <2> QED BY <2>2, <2>3, <2>4, <2>5, <2>6, <2>7
<1>3. Health!MonitoredWhenStarted'
  BY DEF Health!MonitoredWhenStarted, HealthTyped, Health!Alive, Health!StartAlive, Health!StartThread,
     Health!Stop, Health!Joined, Health!MonitorWait, Health!MonitorLoop
<1>4. HealthTyped'
  BY <1>1, <1>2 DEF HealthTyped
<1>5. Health!CachedIsFresh' /\ (~overlapped' => Dated')
  BY <1>1 DEF Health!CachedIsFresh, Dated, Health!Computing
<1> QED BY <1>3, <1>4, <1>5

\* The monitor begins a check.
LEMMA MonitorKeeps ==
  ASSUME HealthConfig, HealthInv, Health!MonitorLoop, ~stopEvent
  PROVE  HealthInv'
<1> USE DEF HealthInv
<1> DEFINE c == [pc |-> "components", now |-> healthTime]
<1>1. /\ monitor' = "check" /\ checking' = [checking EXCEPT !["monitor"] = c]
      /\ overlapped' = (overlapped \/ Health!Computing # {})
      /\ UNCHANGED <<healthTime, lastCheck, lastTime, healthAnswer, stopEvent, control, wanted, late>>
  BY DEF Health!MonitorLoop
<1>2. checking' \in [Health!Threads -> Ages] /\ overlapped' \in BOOLEAN /\ (~overlapped' => Dated')
  BY <1>1, ThreadsAre, BeginKeepsDates
<1>3. checking'["monitor"].pc = "components"
  BY <1>1, ThreadsAre DEF HealthTyped
<1>4. HealthTyped'
  BY <1>1, <1>2, <1>3 DEF HealthTyped
<1>5. Health!CachedIsFresh' /\ Health!MonitoredWhenStarted'
  BY <1>1 DEF Health!CachedIsFresh, Health!MonitoredWhenStarted, Health!Alive, HealthTyped
<1> QED BY <1>2, <1>4, <1>5

LEMMA TimePassesKeeps ==
  ASSUME HealthConfig, HealthInv, Health!Tick
  PROVE  HealthInv'
<1> USE DEF HealthInv
<1>1. /\ healthTime' = healthTime + 1 /\ healthTime < HealthEndTime
      /\ UNCHANGED <<lastCheck, lastTime, checking, healthAnswer, overlapped, stopEvent, monitor, control, wanted, late>>
  BY DEF Health!Tick
<1>2. healthTime' \in 1..HealthEndTime
  BY <1>1 DEF HealthTyped, HealthConfig
<1>3. HealthTyped'
  BY <1>1, <1>2 DEF HealthTyped
<1>4. \A n \in Nat : n <= healthTime => n <= healthTime'
  BY <1>1, Times
<1>5. ~overlapped' => Dated'
  BY <1>1, <1>4, Times DEF Dated, Health!Computing, InCheck
<1>6. Health!CachedIsFresh' /\ Health!MonitoredWhenStarted'
  BY <1>1 DEF Health!CachedIsFresh, Health!MonitoredWhenStarted, Health!Alive
<1> QED BY <1>3, <1>5, <1>6

LEMMA HealthInvNext ==
  ASSUME HealthConfig, HealthInv, [Health!HealthNext]_(Health!healthVars)
  PROVE  HealthInv'
<1>1. CASE UNCHANGED Health!healthVars
  BY <1>1 DEF Health!healthVars, HealthInv, HealthTyped, Dated, Health!Computing, Health!CachedIsFresh,
     Health!MonitoredWhenStarted, Health!Alive
<1>2. CASE \E t \in Health!Threads : \/ Health!Check(t) \/ Health!Serve(t) \/ Health!Components(t)
                                     \/ Health!Store(t) \/ Health!StoreTime(t)
  BY <1>2, EnterKeeps, ServeKeeps, ComputesKeeps, StoreTimeKeeps
<1>3. CASE \/ Health!StartAlive \/ Health!StartThread \/ Health!Stop \/ Health!Joined \/ Health!MonitorWait
           \/ Health!MonitorLoop \/ Health!Tick
  BY <1>3, ControlKeeps, MonitorKeeps, TimePassesKeeps
<1> QED BY <1>1, <1>2, <1>3 DEF Health!HealthNext

LEMMA HealthInvKept == ASSUME HealthConfig PROVE Health!HealthSpec => []HealthInv
BY HealthInvInit, HealthInvNext, PTL DEF Health!HealthSpec

\* The types of the health check, for any callers (monitoring/health.py).
THEOREM HealthTypesKept == ASSUME HealthConfig PROVE Health!HealthSpec => []Health!HealthTypeOK
<1>1. HealthInv => Health!HealthTypeOK
  BY DEF HealthInv, HealthTyped, Health!HealthTypeOK, Ages, Answers, InCheck
<1> QED BY <1>1, HealthInvKept, PTL

\* health.py: an answer from the cache is less than a second old, whatever callers and the
\* monitor check and store meanwhile without a lock, unless two checks were computed at once.
THEOREM FreshnessKept == ASSUME HealthConfig PROVE Health!HealthSpec => []Health!CachedIsFresh
<1>1. HealthInv => Health!CachedIsFresh
  BY DEF HealthInv
<1> QED BY <1>1, HealthInvKept, PTL

\* health.py: after start the monitor runs until it is told to stop, unless start found the
\* thread of before, which had outlived the join of its stop.
THEOREM MonitorRuns == ASSUME HealthConfig PROVE Health!HealthSpec => []Health!MonitoredWhenStarted
<1>1. HealthInv => Health!MonitoredWhenStarted
  BY DEF HealthInv
<1> QED BY <1>1, HealthInvKept, PTL
=============================================================================
