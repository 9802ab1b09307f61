----------------------- MODULE RealtimeEngine_proofs -----------------------
(***************************************************************************)
(* What the real-time engine promises, for every number of sessions, texts *)
(* and chunks, and every size of the ring.                                 *)
(*                                                                         *)
(* The write position is count samples after the read position for as long *)
(* as no rollback overtook the reader; this is all that the refinement of  *)
(* AudioFifo needs.  What the sessions promise rests on a worker that has  *)
(* its request to itself, and on what it knows at each of its steps of the *)
(* request's chunks and of the interrupt event.                            *)
(***************************************************************************)
EXTENDS RealtimeEngine, SequenceTheorems, TLAPS

\* Where a worker has a request, and where it has made the request's marker.
Busy == {"clear", "mark", "chunk", "space", "write", "verdict", "commit", "idle", "finally"}
Marked == Busy \ {"clear", "mark"}

\* What is in the hands of a session: its own requests, the marker of the current one,
\* and the marker that an interrupt goes back to.
Own(s) == {r \in Requests : Of[r] = s}
HandOf(s) ==
  /\ pending[s] \in Seq(Own(s))
  /\ pc[s] \in Busy => current[s] \in Own(s)
  /\ pc[s] \in Marked => marker[s] = current[s]
  /\ caller[s] = "lock" => target[s] \in Requests
  /\ s \notin Open => pc[s] = "top"
InHand == \A s \in Sessions : HandOf(s)

\* How far a session has come with its current request.  The chunk that may still
\* follow an interrupt is the one whose test came before.
StepOf(s) ==
  /\ pc[s] \in {"space", "write"} => written[current[s]] < Chunks[current[s]]
  /\ pc[s] = "verdict" => event[s] \/ written[current[s]] = Chunks[current[s]]
  /\ pc[s] = "commit" => written[current[s]] = Chunks[current[s]]
  /\ late[s] <= 1
  /\ pc[s] \in {"space", "write"} /\ event[s] => late[s] = 0
Underway == \A s \in Sessions : StepOf(s)

\* All the requests are to one session, which waits for space.
OneWriter ==
  setup.policy = "block" /\ \E s \in Sessions : \A r \in setup.requests : Of[r] = s
Spared ==
  OneWriter => /\ ~dropped
               /\ \A s \in Sessions : pc[s] = "write" => count + ChunkLen[current[s]] <= Size

\* The positions and the count of the ring agree.
RingMeets == intact => wpos = (rpos + count) % Size

EngineInv == TypeOK /\ InHand /\ Underway /\ CompletedWasWhole /\ Spared /\ RingMeets

-----------------------------------------------------------------------------
(***************************************************************************)
(* Positions in a ring.                                                    *)
(***************************************************************************)
LEMMA Around ==
  ASSUME NEW n \in Nat \ {0}, NEW x \in Int
  PROVE  x % n \in 0 .. (n - 1)
BY SMT

\* A position ahead of another, and the way between two.
LEMMA Ahead ==
  ASSUME NEW n \in Nat \ {0}, NEW a \in 0 .. (n - 1), NEW b \in 0 .. n
  PROVE  (a + b) % n = IF a + b < n THEN a + b ELSE a + b - n
BY SMT

LEMMA Apart ==
  ASSUME NEW n \in Nat \ {0}, NEW a \in 0 .. (n - 1), NEW b \in 0 .. (n - 1)
  PROVE  (a - b) % n = IF a >= b THEN a - b ELSE a - b + n
BY SMT

\* The configuration.
LEMMA Setting ==
  ASSUME TypeOK
  PROVE  /\ Size \in Nat \ {0} /\ setup.requests \subseteq Requests
         /\ setup.policy \in {"block", "drop_oldest"} /\ Open \subseteq Sessions
         /\ \A r \in setup.requests : Of[r] # Direct => Of[r] \in Open
         /\ count \in Nat /\ count <= Size /\ wpos \in 0 .. (Size - 1) /\ rpos \in 0 .. (Size - 1)
BY RealtimeAssumption DEF TypeOK, Open, Slots

-----------------------------------------------------------------------------
(***************************************************************************)
(* The ring.                                                               *)
(***************************************************************************)
\* What is left of audio that may be longer than the ring.
End(audio, z) == IF Len(audio) > z THEN SubSeq(audio, Len(audio) - z + 1, Len(audio)) ELSE audio

LEMMA KeptEnd ==
  ASSUME NEW S, NEW audio \in Seq(S), NEW z \in Nat \ {0}, NEW end, end = End(audio, z)
  PROVE  /\ end \in Seq(S) /\ Len(end) \in Nat /\ Len(audio) \in Nat
         /\ Len(end) = IF Len(audio) > z THEN z ELSE Len(audio)
         /\ \A k \in 1 .. Len(end) : end[k] = audio[Len(audio) - Len(end) + k]
<1> DEFINE l == Len(audio)
<1>1. l \in Nat
  BY LenProperties
<1>2. CASE l > z
  <2>1. l - z + 1 \in 1 .. l /\ l \in 1 .. l
    BY <1>1, <1>2
  <2>2. \A i \in 1 .. l : audio[i] \in S
    BY <1>1, ElementOfSeq
  <2>3. /\ SubSeq(audio, l - z + 1, l) \in Seq(S)
        /\ Len(SubSeq(audio, l - z + 1, l)) = IF l - z + 1 <= l THEN l - (l - z + 1) + 1 ELSE 0
        /\ \A i \in 1 .. l - (l - z + 1) + 1 :
             SubSeq(audio, l - z + 1, l)[i] = audio[l - z + 1 + i - 1]
    BY <1>1, <2>1, <2>2, SubSeqProperties
  <2>4. end = SubSeq(audio, l - z + 1, l)
    BY <1>2 DEF End
  <2> HIDE DEF l
  <2>7. l - z + 1 <= l /\ l - (l - z + 1) + 1 = z
    BY <1>1, <1>2
  <2>5. Len(end) = z
    BY <2>3, <2>4, <2>7
  <2>6. \A k \in 1 .. z : end[k] = audio[l - z + k]
    <3> SUFFICES ASSUME NEW k \in 1 .. z
                 PROVE  end[k] = audio[l - z + k]
      OBVIOUS
    <3>1. k \in 1 .. l - (l - z + 1) + 1 /\ l - z + 1 + k - 1 = l - z + k
      BY <1>1, <1>2
    <3> QED BY <2>3, <2>4, <3>1
  <2> QED BY <1>1, <1>2, <2>3, <2>4, <2>5, <2>6 DEF l
<1>3. CASE ~(l > z)
  <2>1. end = audio
    BY <1>3 DEF End
  <2>2. \A k \in 1 .. l : l - l + k = k
    BY <1>1
  <2> QED BY <1>1, <1>3, <2>1, <2>2
<1> QED BY <1>2, <1>3

\* A write, with the variables that it computes.
LEMMA Written ==
  ASSUME TypeOK, NEW audio \in Seq(Samples), Len(audio) > 0, Write(audio)
  PROVE  \E n \in 1 .. Size, over \in 0 .. Size :
           /\ n = IF Len(audio) > Size THEN Size ELSE Len(audio)
           /\ over = IF n > Size - count THEN n - (Size - count) ELSE 0
           /\ over <= count
           /\ \A i \in Slots, k \in 0 .. (Size - 1) :
                k = (i - wpos) % Size =>
                  /\ k < n => cells'[i] = audio[Len(audio) - n + k + 1]
                  /\ k >= n => cells'[i] = cells[i]
           /\ cells' \in [Slots -> Samples \cup {Silence}]
           /\ wpos' = (wpos + n) % Size /\ rpos' = (rpos + over) % Size
           /\ count' = count - over + n
           /\ dropped' = (dropped \/ over > 0)
<1> DEFINE end == End(audio, Size)
           n == Len(end)
           over == IF n > Free THEN n - Free ELSE 0
<1>0. /\ Size \in Nat \ {0} /\ count \in 0 .. Size /\ wpos \in Int
      /\ cells \in [Slots -> Samples \cup {Silence}]
  BY Setting DEF TypeOK
<1>1. /\ end \in Seq(Samples) /\ n \in Nat /\ Len(audio) \in Nat
      /\ n = IF Len(audio) > Size THEN Size ELSE Len(audio)
      /\ \A k \in 1 .. n : end[k] = audio[Len(audio) - n + k]
  <2>1. Size \in Nat \ {0} /\ end = End(audio, Size)
    BY <1>0
  <2> HIDE DEF end
  <2>2. /\ end \in Seq(Samples) /\ Len(end) \in Nat /\ Len(audio) \in Nat
        /\ Len(end) = IF Len(audio) > Size THEN Size ELSE Len(audio)
        /\ \A k \in 1 .. Len(end) : end[k] = audio[Len(audio) - Len(end) + k]
    BY <2>1, KeptEnd
  <2> QED BY <2>2
<1>2. /\ cells' = [i \in Slots |-> IF (i - wpos) % Size < n THEN end[((i - wpos) % Size) + 1]
                                                            ELSE cells[i]]
      /\ wpos' = (wpos + n) % Size /\ rpos' = (rpos + over) % Size
      /\ count' = count - over + n
      /\ dropped' = (dropped \/ over > 0)
  BY DEF Write, End
<1>3. \A k \in 1 .. n : end[k] \in Samples
  BY <1>1, ElementOfSeq
<1> HIDE DEF end
<1>4. n \in 1 .. Size /\ over \in 0 .. Size /\ over <= count
  BY <1>0, <1>1 DEF Free
<1>5. over = IF n > Size - count THEN n - (Size - count) ELSE 0
  BY DEF Free
<1> HIDE DEF n, over
<1>6. ASSUME NEW i \in Slots, NEW k, k = (i - wpos) % Size
      PROVE  /\ k \in 0 .. (Size - 1) /\ cells'[i] \in Samples \cup {Silence}
             /\ k < n => cells'[i] = audio[Len(audio) - n + k + 1]
             /\ k >= n => cells'[i] = cells[i]
  <2>0. Size \in Nat \ {0} /\ i - wpos \in Int
    BY <1>0 DEF Slots
  <2>1. k \in 0 .. (Size - 1)
    BY <2>0, <1>6, Around
  <2>2. cells'[i] = IF k < n THEN end[k + 1] ELSE cells[i]
    BY <1>2, <1>6
  <2>3. CASE k < n
    <3>0. k \in Nat /\ Len(audio) \in Nat /\ n \in Nat
      BY <1>1, <1>4, <2>1
    <3>1. k + 1 \in 1 .. n /\ Len(audio) - n + (k + 1) = Len(audio) - n + k + 1
      BY <3>0, <2>3
    <3>2. end[k + 1] = audio[Len(audio) - n + k + 1] /\ end[k + 1] \in Samples
      BY <1>1, <1>3, <3>1
    <3>3. cells'[i] = end[k + 1]
      BY <2>2, <2>3
    <3>4. ~(k >= n)
      BY <3>0, <2>3
    <3> QED BY <2>1, <3>2, <3>3, <3>4
  <2>4. CASE ~(k < n)
    <3>1. cells'[i] = cells[i]
      BY <2>2, <2>4
    <3>2. cells[i] \in Samples \cup {Silence}
      BY <1>0
    <3> QED BY <2>1, <2>4, <3>1, <3>2
  <2> QED BY <2>3, <2>4
<1>7. cells' \in [Slots -> Samples \cup {Silence}]
  BY <1>2, <1>6
<1>8. \A i \in Slots, k \in 0 .. (Size - 1) :
        k = (i - wpos) % Size =>
          /\ k < n => cells'[i] = audio[Len(audio) - n + k + 1]
          /\ k >= n => cells'[i] = cells[i]
  BY <1>6
<1>9. n = IF Len(audio) > Size THEN Size ELSE Len(audio)
  BY <1>1
<1> QED
  <2>1. n \in 1 .. Size /\ over \in 0 .. Size /\ over <= count
    BY <1>4
  <2> QED BY <2>1, <1>2, <1>5, <1>7, <1>8, <1>9, Zenon

\* Writing keeps the ring in order.
LEMMA WriteKeepsRing ==
  ASSUME TypeOK, RingMeets, NEW audio \in Seq(Samples), Len(audio) > 0, Write(audio),
         intact' = intact
  PROVE  /\ cells' \in [Slots -> Samples \cup {Silence}] /\ wpos' \in Slots /\ rpos' \in Slots
         /\ count' \in 0 .. Size /\ dropped' \in BOOLEAN /\ RingMeets'
         /\ count + Len(audio) <= Size => dropped' = dropped
<1>1. PICK n \in 1 .. Size, over \in 0 .. Size :
           /\ n = IF Len(audio) > Size THEN Size ELSE Len(audio)
           /\ over = IF n > Size - count THEN n - (Size - count) ELSE 0
           /\ over <= count
           /\ cells' \in [Slots -> Samples \cup {Silence}]
           /\ wpos' = (wpos + n) % Size /\ rpos' = (rpos + over) % Size
           /\ count' = count - over + n
           /\ dropped' = (dropped \/ over > 0)
  BY Written
<1>2. /\ Size \in Nat \ {0} /\ count \in 0 .. Size /\ wpos \in 0 .. (Size - 1)
      /\ rpos \in 0 .. (Size - 1) /\ dropped \in BOOLEAN
  BY Setting DEF TypeOK
<1>3. wpos' \in Slots /\ rpos' \in Slots
  <2>1. Size \in Nat \ {0} /\ wpos + n \in Int /\ rpos + over \in Int
    BY <1>2
  <2>2. wpos' = (wpos + n) % Size /\ rpos' = (rpos + over) % Size
    BY <1>1
  <2>3. wpos' \in 0 .. (Size - 1)
    BY <2>1, <2>2, Around
  <2>4. rpos' \in 0 .. (Size - 1)
    BY <2>1, <2>2, Around
  <2> QED BY <2>3, <2>4 DEF Slots
<1>4. count' \in 0 .. Size
  BY <1>1, <1>2
<1>5. dropped' \in BOOLEAN
  BY <1>1, <1>2
<1>6. count + Len(audio) <= Size => dropped' = dropped
  <2> SUFFICES ASSUME count + Len(audio) <= Size
               PROVE  ~(over > 0)
    BY <1>1, <1>2
  <2> QED BY <1>1, <1>2
<1>7. ASSUME intact
      PROVE  wpos' = (rpos' + count') % Size
  <2>0. /\ Size \in Nat \ {0} /\ rpos \in 0 .. (Size - 1) /\ wpos \in 0 .. (Size - 1)
        /\ count \in 0 .. Size /\ n \in 0 .. Size /\ over \in 0 .. Size
        /\ rpos' \in 0 .. (Size - 1) /\ count' \in 0 .. Size
    BY <1>2, <1>3, <1>4 DEF Slots
  <2>1. wpos = IF rpos + count < Size THEN rpos + count ELSE rpos + count - Size
    BY <1>7, <2>0, Ahead DEF RingMeets
  <2>2. rpos' = (rpos + over) % Size /\ wpos' = (wpos + n) % Size
    BY <1>1
  <2>3. rpos' = IF rpos + over < Size THEN rpos + over ELSE rpos + over - Size
    BY <2>0, <2>2, Ahead
  <2>4. wpos' = IF wpos + n < Size THEN wpos + n ELSE wpos + n - Size
    BY <2>0, <2>2, Ahead
  <2>5. (rpos' + count') % Size
          = IF rpos' + count' < Size THEN rpos' + count' ELSE rpos' + count' - Size
    BY <2>0, Ahead
  <2>6. count' = count - over + n /\ over <= count
    BY <1>1
  <2> DEFINE far == (rpos' + count') % Size
  <2> HIDE DEF far
  <2>7. far = IF rpos' + count' < Size THEN rpos' + count' ELSE rpos' + count' - Size
    BY <2>5 DEF far
  <2>8. wpos' = far
    BY <2>0, <2>1, <2>3, <2>4, <2>6, <2>7
  <2> QED BY <2>8 DEF far
<1> QED BY <1>1, <1>3, <1>4, <1>5, <1>6, <1>7 DEF RingMeets

\* Reading moves the read position, by no more than there is to read.
LEMMA ReadKeepsRing ==
  ASSUME TypeOK, RingMeets, NEW n \in 1 .. Size, Read(n)
  PROVE  /\ rpos' \in Slots /\ RingMeets'
         /\ \E got \in 0 .. count : count' = count - got /\ rpos' = (rpos + got) % Size
<1> DEFINE got == IF n < count THEN n ELSE count
<1>1. /\ rpos' = (rpos + got) % Size /\ count' = count - got
      /\ wpos' = wpos /\ intact' = intact
  BY DEF Read
<1>2. /\ Size \in Nat \ {0} /\ rpos \in 0 .. (Size - 1) /\ count \in 0 .. Size
  BY Setting
<1>3. got \in 0 .. count
  BY <1>2
<1> HIDE DEF got
<1>4. got \in 0 .. Size /\ count' \in 0 .. Size /\ rpos + got \in Int
  BY <1>1, <1>2, <1>3
<1>5. rpos' \in 0 .. (Size - 1)
  BY <1>1, <1>2, <1>4, Around
<1>6. ASSUME intact
      PROVE  wpos' = (rpos' + count') % Size
  <2>1. wpos = IF rpos + count < Size THEN rpos + count ELSE rpos + count - Size
    BY <1>2, <1>6, Ahead DEF RingMeets
  <2>2. rpos' = IF rpos + got < Size THEN rpos + got ELSE rpos + got - Size
    BY <1>1, <1>2, <1>4, Ahead
  <2> DEFINE far == (rpos' + count') % Size
  <2>3. far = IF rpos' + count' < Size THEN rpos' + count' ELSE rpos' + count' - Size
    BY <1>2, <1>4, <1>5, Ahead
  <2> HIDE DEF far
  <2>4. count' = count - got /\ wpos' = wpos
    BY <1>1
  <2>5. wpos' = far
    BY <1>2, <1>3, <2>1, <2>2, <2>3, <2>4
  <2> QED BY <2>5 DEF far
<1> QED BY <1>1, <1>3, <1>5, <1>6 DEF RingMeets, Slots

\* Rolling back moves the write position, and keeps the ring in order unless it goes
\* back further than the reader has left.
LEMMA RollbackKeepsRing ==
  ASSUME TypeOK, RingMeets, NEW r \in Requests, Rollback(r)
  PROVE  /\ wpos' \in Slots /\ count' \in 0 .. Size /\ count' <= count /\ RingMeets'
         /\ kept' \subseteq Requests
         /\ intact' \in BOOLEAN
         /\ intact' => intact /\ \E back \in 0 .. count : count' = count - back
<1> DEFINE back == (wpos - position[r]) % Size
<1>1. /\ wpos' = position[r] /\ count' = IF back > count THEN 0 ELSE count - back
      /\ intact' = (intact /\ back <= count) /\ rpos' = rpos /\ kept' \subseteq kept
  BY DEF Rollback
<1>2. /\ Size \in Nat \ {0} /\ rpos \in 0 .. (Size - 1) /\ wpos \in 0 .. (Size - 1)
      /\ count \in 0 .. Size /\ position[r] \in 0 .. (Size - 1)
  <2>1. position[r] \in 0 .. (Size - 1)
    BY DEF TypeOK, Slots
  <2> QED BY <2>1, Setting
<1>3. back = IF wpos >= position[r] THEN wpos - position[r] ELSE wpos - position[r] + Size
  BY <1>2, Apart
<1> HIDE DEF back
<1>4. back \in 0 .. (Size - 1)
  BY <1>2, <1>3
<1>5. count' \in 0 .. Size /\ count' <= count
  BY <1>1, <1>2, <1>4
<1>6. intact' \in BOOLEAN /\ (intact' => intact /\ back <= count /\ count' = count - back)
  <2>1. back <= count => count' = count - back
    BY <1>1, <1>2, <1>4
  <2>2. intact \in BOOLEAN
    BY DEF TypeOK
  <2> QED BY <1>1, <2>1, <2>2
<1>7. ASSUME intact'
      PROVE  wpos' = (rpos' + count') % Size
  <2>1. wpos = IF rpos + count < Size THEN rpos + count ELSE rpos + count - Size
    BY <1>2, <1>6, <1>7, Ahead DEF RingMeets
  <2> DEFINE far == (rpos + count') % Size
  <2>2. far = IF rpos + count' < Size THEN rpos + count' ELSE rpos + count' - Size
    BY <1>2, <1>5, Ahead
  <2> HIDE DEF far
  <2>3. back <= count /\ count' = count - back /\ wpos' = position[r]
    BY <1>1, <1>6, <1>7
  <2>4. wpos' = far
    BY <1>2, <1>3, <1>4, <2>1, <2>2, <2>3
  <2> QED BY <1>1, <2>4 DEF far
<1>8. intact' => \E b \in 0 .. count : count' = count - b
  <2> SUFFICES ASSUME intact'
               PROVE  back \in 0 .. count /\ count' = count - back
    OBVIOUS
  <2> QED BY <1>2, <1>4, <1>6
<1>9. wpos' \in Slots /\ kept' \subseteq Requests
  BY <1>1, <1>2 DEF Slots, TypeOK
<1> QED BY <1>5, <1>6, <1>7, <1>8, <1>9 DEF RingMeets

-----------------------------------------------------------------------------
(***************************************************************************)
(* Types, and what is in hand.                                             *)
(***************************************************************************)
LEMMA Removed ==
  ASSUME NEW S, NEW q \in Seq(S), NEW i \in DOMAIN q
  PROVE  RemoveAt(q, i) \in Seq(S)
<1> DEFINE l == Len(q)
<1>1. l \in Nat /\ i \in 1 .. l /\ \A k \in 1 .. l : q[k] \in S
  BY LenProperties, ElementOfSeq
<1>2. SubSeq(q, 1, i - 1) \in Seq(S)
  <2>1. \A k \in 1 .. i - 1 : q[k] \in S
    BY <1>1
  <2> QED BY <1>1, <2>1, SubSeqProperties
<1>3. SubSeq(q, i + 1, l) \in Seq(S)
  <2>1. \A k \in i + 1 .. l : q[k] \in S
    BY <1>1
  <2> QED BY <1>1, <2>1, SubSeqProperties
<1> QED BY <1>2, <1>3, ConcatProperties DEF RemoveAt

\* What a step leaves to the other sessions.
Untouched(v) ==
  /\ pending'[v] = pending[v] /\ pc'[v] = pc[v] /\ current'[v] = current[v]
  /\ marker'[v] = marker[v] /\ caller'[v] = caller[v] /\ target'[v] = target[v]

LEMMA OthersHold ==
  ASSUME InHand, setup' = setup, NEW s \in Sessions, HandOf(s)',
         \A v \in Sessions : v # s => Untouched(v)
  PROVE  InHand'
<1> SUFFICES ASSUME NEW v \in Sessions, v # s
             PROVE  HandOf(v)'
  BY DEF InHand
<1>1. HandOf(v) /\ Untouched(v)
  BY DEF InHand
<1>2. Open' = Open
  BY DEF Open
<1> QED BY <1>1, <1>2 DEF HandOf, Untouched

\* What a worker has in hand.
LEMMA Mine ==
  ASSUME TypeOK, InHand, NEW s \in Sessions, pc[s] \in Busy
  PROVE  /\ current[s] \in Requests /\ Of[current[s]] = s
         /\ pc[s] \in Marked => marker[s] = current[s]
BY DEF InHand, HandOf, Own

\* The steps of a worker that leave the ring alone.
LEMMA WorkTyped ==
  ASSUME TypeOK, InHand, NEW s \in Open,
         \/ Leave(s) \/ Poll(s) \/ Nothing(s) \/ ClearEvent(s) \/ Mark(s) \/ Test(s) \/ Space(s)
         \/ Verdict(s) \/ Commit(s) \/ Idle(s) \/ Finally(s)
  PROVE  TypeOK' /\ InHand'
<1>0. s \in Sessions /\ HandOf(s)
  BY Setting DEF InHand
<1> DEFINE Frame == /\ setup' = setup /\ Open' = Open
                    /\ \A v \in Sessions : v # s => Untouched(v)
<1>1. CASE Leave(s)
  <2>1. TypeOK'
    BY <1>0, <1>1 DEF Leave, Goto, TypeOK, ring, marks, worker, user, history
  <2>2. Frame
    BY <1>0, <1>1 DEF Leave, Goto, TypeOK, Untouched, Open, ring, marks, worker, user, history
  <2>3. HandOf(s)'
    BY <1>0, <1>1, <2>2
       DEF Leave, Goto, TypeOK, HandOf, Busy, Marked, ring, marks, worker, user, history
  <2> QED BY <1>0, <2>1, <2>2, <2>3, OthersHold
<1>2. CASE Poll(s)
  <2>1. TypeOK'
    BY <1>0, <1>2 DEF Poll, Goto, TypeOK, ring, marks, worker, user, history
  <2>2. Frame
    BY <1>0, <1>2 DEF Poll, Goto, TypeOK, Untouched, Open, ring, marks, worker, user, history
  <2>3. HandOf(s)'
    BY <1>0, <1>2, <2>2
       DEF Poll, Goto, TypeOK, HandOf, Busy, Marked, ring, marks, worker, user, history
  <2> QED BY <1>0, <2>1, <2>2, <2>3, OthersHold
<1>3. CASE Nothing(s)
  <2>1. TypeOK'
    BY <1>0, <1>3 DEF Nothing, Goto, TypeOK, ring, marks, worker, user, history
  <2>2. Frame
    BY <1>0, <1>3 DEF Nothing, Goto, TypeOK, Untouched, Open, ring, marks, worker, user, history
  <2>3. HandOf(s)'
    BY <1>0, <1>3, <2>2
       DEF Nothing, Goto, TypeOK, HandOf, Busy, Marked, ring, marks, worker, user, history
  <2> QED BY <1>0, <2>1, <2>2, <2>3, OthersHold
<1>4. CASE ClearEvent(s)
  <2>1. TypeOK'
    BY <1>0, <1>4 DEF ClearEvent, Goto, TypeOK, ring, marks, worker, user, history
  <2>2. Frame
    BY <1>0, <1>4
       DEF ClearEvent, Goto, TypeOK, Untouched, Open, ring, marks, worker, user, history
  <2>3. HandOf(s)'
    BY <1>0, <1>4, <2>2
       DEF ClearEvent, Goto, TypeOK, HandOf, Busy, Marked, ring, marks, worker, user, history
  <2> QED BY <1>0, <2>1, <2>2, <2>3, OthersHold
<1>5. CASE Mark(s)
  <2>0. pc[s] = "mark" /\ current[s] \in Requests
    BY <1>0, <1>5, Mine DEF Mark, Busy, Marked
  <2>1. TypeOK'
    BY <2>0, <1>0, <1>5 DEF Mark, Goto, TypeOK, ring, marks, worker, user, history
  <2>2. Frame
    BY <1>0, <1>5 DEF Mark, Goto, TypeOK, Untouched, Open, ring, marks, worker, user, history
  <2>3. HandOf(s)'
    BY <2>0, <1>0, <1>5, <2>2
       DEF Mark, Goto, TypeOK, HandOf, Busy, Marked, ring, marks, worker, user, history
  <2> QED BY <1>0, <2>1, <2>2, <2>3, OthersHold
<1>6. CASE Test(s)
  <2>1. TypeOK'
    BY <1>0, <1>6 DEF Test, Goto, TypeOK, ring, marks, worker, user, history
  <2>2. Frame
    BY <1>0, <1>6 DEF Test, Goto, TypeOK, Untouched, Open, ring, marks, worker, user, history
  <2>3. HandOf(s)'
    BY <1>0, <1>6, <2>2
       DEF Test, Goto, TypeOK, HandOf, Busy, Marked, ring, marks, worker, user, history
  <2> QED BY <1>0, <2>1, <2>2, <2>3, OthersHold
<1>7. CASE Space(s)
  <2>1. TypeOK'
    BY <1>0, <1>7 DEF Space, Goto, TypeOK, ring, marks, worker, user, history
  <2>2. Frame
    BY <1>0, <1>7 DEF Space, Goto, TypeOK, Untouched, Open, ring, marks, worker, user, history
  <2>3. HandOf(s)'
    BY <1>0, <1>7, <2>2
       DEF Space, Goto, TypeOK, HandOf, Busy, Marked, ring, marks, worker, user, history
  <2> QED BY <1>0, <2>1, <2>2, <2>3, OthersHold
<1>8. CASE Verdict(s)
  <2>1. TypeOK'
    BY <1>0, <1>8 DEF Verdict, Goto, TypeOK, ring, marks, worker, user, history
  <2>2. Frame
    BY <1>0, <1>8 DEF Verdict, Goto, TypeOK, Untouched, Open, ring, marks, worker, user, history
  <2>3. HandOf(s)'
    BY <1>0, <1>8, <2>2
       DEF Verdict, Goto, TypeOK, HandOf, Busy, Marked, ring, marks, worker, user, history
  <2> QED BY <1>0, <2>1, <2>2, <2>3, OthersHold
<1>9. CASE Commit(s)
  <2>0. pc[s] = "commit" /\ current[s] \in Requests /\ marker[s] \in Requests
    BY <1>0, <1>9, Mine DEF Commit, Busy, Marked
  <2>1. TypeOK'
    BY <2>0, <1>0, <1>9 DEF Commit, Goto, TypeOK, ring, marks, worker, user, history
  <2>2. Frame
    BY <1>0, <1>9 DEF Commit, Goto, TypeOK, Untouched, Open, ring, marks, worker, user, history
  <2>3. HandOf(s)'
    BY <2>0, <1>0, <1>9, <2>2
       DEF Commit, Goto, TypeOK, HandOf, Busy, Marked, ring, marks, worker, user, history
  <2> QED BY <1>0, <2>1, <2>2, <2>3, OthersHold
<1>10. CASE Idle(s)
  <2>1. TypeOK'
    BY <1>0, <1>10 DEF Idle, Goto, TypeOK, ring, marks, worker, user, history
  <2>2. Frame
    BY <1>0, <1>10 DEF Idle, Goto, TypeOK, Untouched, Open, ring, marks, worker, user, history
  <2>3. HandOf(s)'
    BY <1>0, <1>10, <2>2
       DEF Idle, Goto, TypeOK, HandOf, Busy, Marked, ring, marks, worker, user, history
  <2> QED BY <1>0, <2>1, <2>2, <2>3, OthersHold
<1>11. CASE Finally(s)
  <2>0. pc[s] = "finally" /\ current[s] \in Requests
    BY <1>0, <1>11, Mine DEF Finally, Busy, Marked
  <2>1. TypeOK'
    BY <2>0, <1>0, <1>11 DEF Finally, Goto, TypeOK, ring, marks, worker, user, history
  <2>2. Frame
    BY <1>0, <1>11 DEF Finally, Goto, TypeOK, Untouched, Open, ring, marks, worker, user, history
  <2>3. HandOf(s)'
    BY <2>0, <1>0, <1>11, <2>2
       DEF Finally, Goto, TypeOK, HandOf, Busy, Marked, ring, marks, worker, user, history
  <2> QED BY <1>0, <2>1, <2>2, <2>3, OthersHold
<1> QED BY <1>1, <1>2, <1>3, <1>4, <1>5, <1>6, <1>7, <1>8, <1>9, <1>10, <1>11

\* What the caller of a session does.
LEMMA CallerTyped ==
  ASSUME TypeOK, InHand, NEW s \in Open, NEW r \in Requests,
         \/ Speak(s, r) \/ Interrupt(s) \/ SetEvent(s) \/ Flag(s)
         \/ EnterRollback(s) \/ Stop(s)
  PROVE  TypeOK' /\ InHand'
<1>0. s \in Sessions /\ HandOf(s)
  BY Setting DEF InHand
<1> DEFINE Frame == /\ setup' = setup /\ Open' = Open
                    /\ \A v \in Sessions : v # s => Untouched(v)
<1>1. CASE Speak(s, r)
  <2>0. Append(pending[s], r) \in Seq(Requests) /\ Append(pending[s], r) \in Seq(Own(s))
    <3>1. r \in Own(s)
      BY <1>1 DEF Speak, Own
    <3> QED BY <1>0, <3>1, AppendProperties DEF TypeOK, HandOf
  <2>1. TypeOK'
    BY <2>0, <1>0, <1>1 DEF Speak, TypeOK, ring, marks, worker, user, history
  <2>2. Frame
    BY <1>0, <1>1 DEF Speak, TypeOK, Untouched, Open, ring, marks, worker, user, history
  <2>3. HandOf(s)'
    BY <2>0, <1>0, <1>1, <2>2
       DEF Speak, TypeOK, HandOf, Busy, Marked, ring, marks, worker, user, history
  <2> QED BY <1>0, <2>1, <2>2, <2>3, OthersHold
<1>2. CASE Interrupt(s)
  <2>1. TypeOK'
    BY <1>0, <1>2 DEF Interrupt, TypeOK, ring, marks, worker, user, history
  <2>2. Frame
    BY <1>0, <1>2 DEF Interrupt, TypeOK, Untouched, Open, ring, marks, worker, user, history
  <2>3. HandOf(s)'
    BY <1>0, <1>2, <2>2
       DEF Interrupt, TypeOK, HandOf, Busy, Marked, ring, marks, worker, user, history
  <2> QED BY <1>0, <2>1, <2>2, <2>3, OthersHold
<1>3. CASE Flag(s)
  <2>1. TypeOK'
    BY <1>0, <1>3 DEF Flag, TypeOK, ring, marks, worker, user, history
  <2>2. Frame
    BY <1>0, <1>3 DEF Flag, TypeOK, Untouched, Open, ring, marks, worker, user, history
  <2>3. HandOf(s)'
    BY <1>0, <1>3, <2>2 DEF Flag, TypeOK, HandOf, Busy, Marked, ring, marks, worker, user, history
  <2> QED BY <1>0, <2>1, <2>2, <2>3, OthersHold
<1>4. CASE EnterRollback(s)
  <2>1. TypeOK'
    BY <1>0, <1>4 DEF EnterRollback, TypeOK, ring, marks, worker, user, history
  <2>2. Frame
    BY <1>0, <1>4 DEF EnterRollback, TypeOK, Untouched, Open, ring, marks, worker, user, history
  <2>3. HandOf(s)'
    BY <1>0, <1>4, <2>2
       DEF EnterRollback, TypeOK, HandOf, Busy, Marked, ring, marks, worker, user, history
  <2> QED BY <1>0, <2>1, <2>2, <2>3, OthersHold
<1>5. CASE Stop(s)
  <2>1. TypeOK'
    BY <1>0, <1>5 DEF Stop, TypeOK, ring, marks, worker, user, history
  <2>2. Frame
    BY <1>0, <1>5 DEF Stop, TypeOK, Untouched, Open, ring, marks, worker, user, history
  <2>3. HandOf(s)'
    BY <1>0, <1>5, <2>2 DEF Stop, TypeOK, HandOf, Busy, Marked, ring, marks, worker, user, history
  <2> QED BY <1>0, <2>1, <2>2, <2>3, OthersHold
<1>6. CASE SetEvent(s)
  <2>1. TypeOK'
    BY <1>0, <1>6 DEF SetEvent, TypeOK, ring, marks, worker, user, history
  <2>2. Frame
    BY <1>0, <1>6 DEF SetEvent, TypeOK, Untouched, Open, ring, marks, worker, user, history
  <2>3. HandOf(s)'
    BY <1>0, <1>6, <2>2
       DEF SetEvent, TypeOK, HandOf, Busy, Marked, ring, marks, worker, user, history
  <2> QED BY <1>0, <2>1, <2>2, <2>3, OthersHold
<1> QED BY <1>1, <1>2, <1>3, <1>4, <1>5, <1>6

\* The next request is taken from the queue.
LEMMA TakeTyped ==
  ASSUME TypeOK, InHand, NEW s \in Open, Take(s)
  PROVE  TypeOK' /\ InHand'
<1>0. s \in Sessions /\ HandOf(s)
  BY Setting DEF InHand
<1>1. PICK i \in DOMAIN pending[s] :
        /\ pending' = [pending EXCEPT ![s] = RemoveAt(@, i)]
        /\ current' = [current EXCEPT ![s] = pending[s][i]]
  BY DEF Take, Urgent
<1>2. /\ RemoveAt(pending[s], i) \in Seq(Requests) /\ RemoveAt(pending[s], i) \in Seq(Own(s))
      /\ pending[s][i] \in Own(s) /\ pending[s][i] \in Requests
  <2>1. pending[s] \in Seq(Requests) /\ pending[s] \in Seq(Own(s))
    BY <1>0 DEF TypeOK, HandOf
  <2>2. pending[s][i] \in Own(s)
    BY <2>1, ElementOfSeq, LenProperties
  <2> QED BY <2>1, <2>2, Removed DEF Own
<1>3. /\ state' = [state EXCEPT ![s] = "synthesizing"] /\ pc' = [pc EXCEPT ![s] = "clear"]
      /\ UNCHANGED <<setup, ring, marks, event, stop, marker, written, user, intact, dropped,
                     history>>
  BY DEF Take, Goto
<1>4. TypeOK'
  BY <1>0, <1>1, <1>2, <1>3 DEF TypeOK, ring, marks, user, history
<1>5. /\ Open' = Open /\ setup' = setup
      /\ \A v \in Sessions : v # s => Untouched(v)
  BY <1>0, <1>1, <1>3 DEF TypeOK, Untouched, Open, user
<1>6. HandOf(s)'
  BY <1>0, <1>1, <1>2, <1>3, <1>5 DEF TypeOK, HandOf, Busy, Marked, user
<1> QED BY <1>0, <1>4, <1>5, <1>6, OthersHold

\* A function on the numbers up to n is a sequence.
LEMMA Listed ==
  ASSUME NEW S, NEW n \in Nat, NEW f \in [1 .. n -> S]
  PROVE  f \in Seq(S) /\ Len(f) = n
OBVIOUS

\* A chunk, and the one of a speak_immediate.
LEMMA Audio ==
  ASSUME RealtimeAssumption, NEW r \in Requests
  PROVE  /\ Chunks[r] \in Nat \ {0} /\ ChunkLen[r] \in Nat \ {0}
         /\ Of[r] = Direct => Chunks[r] = 1
         /\ \A k \in 1 .. Chunks[r] :
              Chunk(r, k) \in Seq(Samples) /\ Len(Chunk(r, k)) = ChunkLen[r]
<1>1. /\ Chunks[r] \in Nat \ {0} /\ ChunkLen[r] \in Nat \ {0}
      /\ Of[r] = Direct => Chunks[r] = 1
  BY DEF RealtimeAssumption
<1>2. ASSUME NEW k \in 1 .. Chunks[r]
      PROVE  Chunk(r, k) \in Seq(Samples) /\ Len(Chunk(r, k)) = ChunkLen[r]
  <2>1. \A i \in 1 .. ChunkLen[r] : Sample(r, k, i) \in Samples
    BY DEF Samples
  <2>2. Chunk(r, k) \in [1 .. ChunkLen[r] -> Samples]
    BY <2>1 DEF Chunk
  <2> QED BY <1>1, <2>2, Listed
<1> QED BY <1>1, <1>2

-----------------------------------------------------------------------------
(***************************************************************************)
(* The steps that work on the ring.                                        *)
(***************************************************************************)
LEMMA AllHold ==
  ASSUME InHand, setup' = setup, \A v \in Sessions : Untouched(v)
  PROVE  InHand'
<1> SUFFICES ASSUME NEW v \in Sessions
             PROVE  HandOf(v)'
  BY DEF InHand
<1>1. HandOf(v) /\ Untouched(v)
  BY DEF InHand
<1>2. Open' = Open
  BY DEF Open
<1> QED BY <1>1, <1>2 DEF HandOf, Untouched

\* The chunk that is written next.
LEMMA NextChunk ==
  ASSUME TypeOK, InHand, Underway, NEW s \in Sessions, pc[s] = "write"
  PROVE  /\ current[s] \in Requests /\ Of[current[s]] = s
         /\ written[current[s]] \in Nat /\ written[current[s]] < Chunks[current[s]]
         /\ Chunks[current[s]] \in Nat /\ ChunkLen[current[s]] \in Nat \ {0}
         /\ written[current[s]] + 1 \in 1 .. Chunks[current[s]]
         /\ Chunk(current[s], written[current[s]] + 1) \in Seq(Samples)
         /\ Len(Chunk(current[s], written[current[s]] + 1)) = ChunkLen[current[s]]
<1> DEFINE r == current[s]
           k == written[r] + 1
<1>1. r \in Requests /\ Of[r] = s
  BY Mine DEF Busy
<1>2. written[r] \in Nat /\ written[r] < Chunks[r]
  BY <1>1 DEF TypeOK, Underway, StepOf
<1> HIDE DEF r
<1>3. Chunks[r] \in Nat /\ ChunkLen[r] \in Nat \ {0}
  BY <1>1, Audio, RealtimeAssumption
<1>4. k \in 1 .. Chunks[r]
  BY <1>2, <1>3
<1> HIDE DEF k
<1>5. Chunk(r, k) \in Seq(Samples) /\ Len(Chunk(r, k)) = ChunkLen[r]
  BY <1>1, <1>4, Audio, RealtimeAssumption
<1> QED BY <1>1, <1>2, <1>3, <1>4, <1>5 DEF r, k

LEMMA ChunkTyped ==
  ASSUME TypeOK, InHand, Underway, RingMeets, NEW s \in Open, WriteChunk(s)
  PROVE  TypeOK' /\ InHand' /\ RingMeets'
<1>0. s \in Sessions /\ HandOf(s)
  BY Setting DEF InHand
<1> DEFINE r == current[s]
           a == Chunk(r, written[r] + 1)
<1>1. /\ pc[s] = "write" /\ Write(a)
      /\ written' = [written EXCEPT ![r] = @ + 1]
      /\ late' = [late EXCEPT ![s] = IF event[s] THEN @ + 1 ELSE 0]
      /\ pc' = [pc EXCEPT ![s] = "chunk"]
      /\ UNCHANGED <<setup, marks, state, pending, event, stop, current, marker, user, intact,
                     completed, ended>>
  BY DEF WriteChunk, Goto
<1>2. /\ r \in Requests /\ written[r] \in Nat /\ written[r] < Chunks[r] /\ Chunks[r] \in Nat
      /\ a \in Seq(Samples) /\ Len(a) = ChunkLen[r] /\ ChunkLen[r] \in Nat \ {0}
  BY <1>0, <1>1, NextChunk
<1> HIDE DEF a, r
<1>3. Len(a) > 0 /\ intact' = intact
  BY <1>1, <1>2
<1>4. /\ cells' \in [Slots -> Samples \cup {Silence}] /\ wpos' \in Slots /\ rpos' \in Slots
      /\ count' \in 0 .. Size /\ dropped' \in BOOLEAN /\ RingMeets'
  BY <1>1, <1>2, <1>3, WriteKeepsRing
<1>5. written' \in [Requests -> Nat] /\ \A q \in Requests : written'[q] <= Chunks[q]
  <2>1. written \in [Requests -> Nat] /\ \A q \in Requests : written[q] <= Chunks[q]
    BY DEF TypeOK
  <2> QED BY <1>1, <1>2, <2>1
<1>6. TypeOK'
  BY <1>0, <1>1, <1>4, <1>5 DEF TypeOK, marks, user
<1>7. /\ Open' = Open /\ setup' = setup
      /\ \A v \in Sessions : v # s => Untouched(v)
  BY <1>0, <1>1 DEF TypeOK, Untouched, Open, user
<1>8. HandOf(s)'
  BY <1>0, <1>1, <1>7 DEF TypeOK, HandOf, Busy, Marked, user
<1> QED BY <1>0, <1>4, <1>6, <1>7, <1>8, OthersHold

\* The one chunk of a speak_immediate.
LEMMA FirstChunk ==
  ASSUME NEW r \in Requests, Of[r] = Direct
  PROVE  /\ Chunk(r, 1) \in Seq(Samples) /\ Len(Chunk(r, 1)) = ChunkLen[r]
         /\ ChunkLen[r] \in Nat \ {0} /\ Chunks[r] = 1 /\ 1 \in 1 .. Chunks[r]
<1>1. Chunks[r] = 1 /\ ChunkLen[r] \in Nat \ {0}
  BY Audio, RealtimeAssumption
<1>2. 1 \in 1 .. Chunks[r]
  BY <1>1
<1> QED BY <1>1, <1>2, Audio, RealtimeAssumption

LEMMA ImmediateTyped ==
  ASSUME TypeOK, InHand, RingMeets, NEW r \in Requests, SpeakImmediate(r)
  PROVE  TypeOK' /\ InHand' /\ RingMeets'
<1>1. /\ Of[r] = Direct /\ Write(Chunk(r, 1)) /\ written' = [written EXCEPT ![r] = 1]
      /\ spoken' = spoken \cup {r}
      /\ UNCHANGED <<setup, marks, state, pending, event, stop, pc, current, marker, caller, target,
                     intact, history>>
  BY DEF SpeakImmediate
<1>2. /\ Chunk(r, 1) \in Seq(Samples) /\ Len(Chunk(r, 1)) = ChunkLen[r]
      /\ ChunkLen[r] \in Nat \ {0} /\ Chunks[r] = 1
  BY <1>1, FirstChunk
<1>3. Len(Chunk(r, 1)) > 0 /\ intact' = intact
  BY <1>1, <1>2
<1>4. /\ cells' \in [Slots -> Samples \cup {Silence}] /\ wpos' \in Slots /\ rpos' \in Slots
      /\ count' \in 0 .. Size /\ dropped' \in BOOLEAN /\ RingMeets'
  BY <1>1, <1>2, <1>3, WriteKeepsRing
<1>5. written' \in [Requests -> Nat] /\ \A q \in Requests : written'[q] <= Chunks[q]
  <2>1. written \in [Requests -> Nat] /\ \A q \in Requests : written[q] <= Chunks[q]
    BY DEF TypeOK
  <2> QED BY <1>1, <1>2, <2>1
<1>6. TypeOK'
  BY <1>1, <1>4, <1>5 DEF TypeOK, marks, history
<1>7. InHand'
  <2>1. setup' = setup /\ \A v \in Sessions : Untouched(v)
    BY <1>1 DEF Untouched
  <2> QED BY <2>1, AllHold
<1> QED BY <1>4, <1>6, <1>7

LEMMA ReadTyped ==
  ASSUME TypeOK, InHand, RingMeets, NEW n \in 1 .. Size, Read(n)
  PROVE  TypeOK' /\ InHand' /\ RingMeets'
<1>1. UNCHANGED <<setup, cells, wpos, marks, state, pending, event, stop, worker, user, intact,
                  dropped, history>>
  BY DEF Read
<1>2. rpos' \in Slots /\ RingMeets' /\ \E got \in 0 .. count : count' = count - got
  BY ReadKeepsRing
<1>3. count' \in 0 .. Size
  BY <1>2, Setting
<1>4. TypeOK'
  BY <1>1, <1>2, <1>3 DEF TypeOK, marks, worker, user, history
<1>5. InHand'
  <2>1. setup' = setup /\ \A v \in Sessions : Untouched(v)
    BY <1>1 DEF Untouched, worker, user
  <2> QED BY <2>1, AllHold
<1> QED BY <1>2, <1>4, <1>5

\* An interrupt rolls back.
LEMMA UndoTyped ==
  ASSUME TypeOK, InHand, RingMeets, NEW s \in Open, Undo(s)
  PROVE  TypeOK' /\ InHand' /\ RingMeets'
<1>0. s \in Sessions /\ HandOf(s)
  BY Setting DEF InHand
<1>1. /\ caller[s] = "lock" /\ Rollback(target[s])
      /\ target' = [target EXCEPT ![s] = None] /\ caller' = [caller EXCEPT ![s] = "out"]
      /\ UNCHANGED <<setup, state, pending, event, stop, worker, spoken, history>>
  BY DEF Undo
<1>2. target[s] \in Requests
  BY <1>0, <1>1 DEF HandOf
<1>3. /\ wpos' \in Slots /\ count' \in 0 .. Size /\ RingMeets' /\ kept' \subseteq Requests
      /\ intact' \in BOOLEAN
  BY <1>1, <1>2, RollbackKeepsRing
<1>4. UNCHANGED <<cells, rpos, born, position, committed, dropped>>
  BY <1>1 DEF Rollback
<1>5. TypeOK'
  BY <1>0, <1>1, <1>3, <1>4 DEF TypeOK, worker, history
<1>6. /\ Open' = Open /\ setup' = setup
      /\ \A v \in Sessions : v # s => Untouched(v)
  BY <1>0, <1>1 DEF TypeOK, Untouched, Open, worker
<1>7. HandOf(s)'
  BY <1>0, <1>1, <1>6 DEF TypeOK, HandOf, worker
<1> QED BY <1>0, <1>3, <1>5, <1>6, <1>7, OthersHold

\* The compiler or the backend raises.
LEMMA RaiseTyped ==
  ASSUME TypeOK, InHand, RingMeets, NEW s \in Open, Raise(s)
  PROVE  TypeOK' /\ InHand' /\ RingMeets'
<1>0. s \in Sessions /\ HandOf(s)
  BY Setting DEF InHand
<1>1. /\ pc[s] = "chunk"
      /\ IF marker[s] \in committed THEN UNCHANGED <<ring, marks, intact, dropped>>
                                    ELSE Rollback(marker[s])
      /\ ended' = ended \cup {current[s]}
      /\ current' = [current EXCEPT ![s] = None] /\ marker' = [marker EXCEPT ![s] = None]
      /\ pc' = [pc EXCEPT ![s] = "dead"]
      /\ UNCHANGED <<setup, state, pending, event, stop, written, user, completed, late>>
  BY DEF Raise, Goto
<1>2. current[s] \in Requests /\ marker[s] \in Requests
  BY <1>0, <1>1, Mine DEF Busy, Marked
<1>3. /\ wpos' \in Slots /\ count' \in 0 .. Size /\ RingMeets' /\ kept' \subseteq Requests
      /\ intact' \in BOOLEAN /\ UNCHANGED <<cells, rpos, born, position, committed, dropped>>
  <2>1. CASE marker[s] \in committed
    BY <1>1, <2>1 DEF TypeOK, RingMeets, ring, marks
  <2>2. CASE marker[s] \notin committed
    <3>1. Rollback(marker[s])
      BY <1>1, <2>2
    <3>2. UNCHANGED <<cells, rpos, born, position, committed, dropped>>
      BY <3>1 DEF Rollback
    <3> QED BY <1>2, <3>1, <3>2, RollbackKeepsRing
  <2> QED BY <2>1, <2>2
<1>4. TypeOK'
  BY <1>0, <1>1, <1>2, <1>3 DEF TypeOK, user
<1>5. /\ Open' = Open /\ setup' = setup
      /\ \A v \in Sessions : v # s => Untouched(v)
  BY <1>0, <1>1 DEF TypeOK, Untouched, Open, user
<1>6. HandOf(s)'
  BY <1>0, <1>1, <1>5 DEF TypeOK, HandOf, Busy, Marked, user
<1> QED BY <1>0, <1>3, <1>4, <1>5, <1>6, OthersHold

\* Everything is cleared.
LEMMA ClearTyped ==
  ASSUME TypeOK, InHand, RingMeets, Clear
  PROVE  TypeOK' /\ InHand' /\ RingMeets'
<1>1. /\ cells' = [i \in Slots |-> Silence] /\ wpos' = 0 /\ rpos' = 0 /\ count' = 0
      /\ kept' = {} /\ intact' = TRUE
      /\ pending' = [s \in Sessions |-> <<>>]
      /\ ended' = ended \cup UNION {Range(pending[s]) : s \in Sessions}
      /\ UNCHANGED <<setup, born, position, committed, state, event, stop, worker, user, dropped,
                     completed, late>>
  BY DEF Clear
<1>2. ended' \subseteq Requests
  <2>1. \A s \in Sessions : Range(pending[s]) \subseteq Requests
    <3> SUFFICES ASSUME NEW s \in Sessions, NEW i \in DOMAIN pending[s]
                 PROVE  pending[s][i] \in Requests
      BY DEF Range
    <3>1. pending[s] \in Seq(Requests)
      BY DEF TypeOK
    <3> QED BY <3>1, ElementOfSeq, LenProperties
  <2>2. ended \subseteq Requests
    BY DEF TypeOK
  <2> QED BY <1>1, <2>1, <2>2
<1>3. 0 \in Slots /\ 0 \in 0 .. Size /\ 0 = (0 + 0) % Size
  <2>1. Size \in Nat \ {0}
    BY RealtimeAssumption
  <2>2. (0 + 0) % Size = 0
    BY <2>1
  <2> QED BY <2>1, <2>2 DEF Slots
<1>4. \A S : <<>> \in Seq(S)
  BY EmptySeq
<1>5. TypeOK'
  BY <1>1, <1>2, <1>3, <1>4 DEF TypeOK, worker, user
<1>6. InHand'
  <2> SUFFICES ASSUME NEW s \in Sessions
               PROVE  HandOf(s)'
    BY DEF InHand
  <2>1. HandOf(s) /\ Open' = Open /\ <<>> \in Seq(Own(s))
    BY <1>1, <1>4 DEF InHand, Open
  <2> QED BY <1>1, <2>1 DEF HandOf, worker, user
<1>7. RingMeets'
  BY <1>1, <1>3 DEF RingMeets
<1> QED BY <1>5, <1>6, <1>7

\* The types and what is in hand are kept by every step, and so is the ring.
LEMMA EngineTyped ==
  ASSUME TypeOK, InHand, Underway, RingMeets, [Next]_vars
  PROVE  TypeOK' /\ InHand' /\ RingMeets'
<1>1. ASSUME UNCHANGED <<ring, intact>>
      PROVE  RingMeets'
  BY <1>1 DEF RingMeets, ring
<1>2. ASSUME NEW s \in Open, Work(s)
      PROVE  TypeOK' /\ InHand' /\ RingMeets'
  <2>1. CASE Take(s)
    <3>1. UNCHANGED <<ring, intact>>
      BY <2>1 DEF Take
    <3> QED BY <1>1, <2>1, <3>1, TakeTyped
  <2>2. CASE WriteChunk(s)
    BY <2>2, ChunkTyped
  <2>3. CASE \/ Leave(s) \/ Poll(s) \/ Nothing(s) \/ ClearEvent(s) \/ Mark(s) \/ Test(s)
             \/ Space(s) \/ Verdict(s) \/ Commit(s) \/ Idle(s) \/ Finally(s)
    <3>1. UNCHANGED <<ring, intact>>
      BY <2>3
         DEF Leave, Poll, Nothing, ClearEvent, Mark, Test, Space, Verdict, Commit, Idle, Finally
    <3> QED BY <1>1, <2>3, <3>1, WorkTyped
  <2> QED BY <1>2, <2>1, <2>2, <2>3 DEF Work
<1>3. ASSUME NEW s \in Open, NEW r \in Requests,
             \/ Speak(s, r) \/ Interrupt(s) \/ SetEvent(s) \/ Flag(s)
         \/ EnterRollback(s) \/ Stop(s)
      PROVE  TypeOK' /\ InHand' /\ RingMeets'
  <2>1. UNCHANGED <<ring, intact>>
    BY <1>3 DEF Speak, Interrupt, SetEvent, Flag, EnterRollback, Stop
  <2> QED BY <1>1, <1>3, <2>1, CallerTyped
<1>4. ASSUME NEW s \in Open,
             Interrupt(s) \/ SetEvent(s) \/ Flag(s) \/ EnterRollback(s) \/ Stop(s)
      PROVE  TypeOK' /\ InHand' /\ RingMeets'
  <2>1. PICK r \in Requests : TRUE
    BY Setting DEF Open
  <2> QED BY <1>3, <1>4, <2>1
<1>5. CASE UNCHANGED vars
  <2>1. setup' = setup /\ \A v \in Sessions : Untouched(v)
    BY <1>5 DEF vars, Untouched, worker, user
  <2>2. TypeOK'
    BY <1>5 DEF TypeOK, vars, ring, marks, worker, user, history
  <2>3. UNCHANGED <<ring, intact>>
    BY <1>5 DEF vars
  <2> QED BY <1>1, <2>1, <2>2, <2>3, AllHold
<1> QED
  BY <1>2, <1>3, <1>4, <1>5, UndoTyped, RaiseTyped, ImmediateTyped, ReadTyped, ClearTyped DEF Next

-----------------------------------------------------------------------------
(***************************************************************************)
(* How far the sessions have come.                                         *)
(***************************************************************************)
\* What a step leaves to the worker of another session.
Unmoved(v) ==
  /\ pc'[v] = pc[v] /\ current'[v] = current[v] /\ event'[v] = event[v] /\ late'[v] = late[v]
  /\ pc[v] \in Busy => written'[current[v]] = written[current[v]]

LEMMA OneGoes ==
  ASSUME Underway, NEW v \in Sessions, Unmoved(v)
  PROVE  StepOf(v)'
BY DEF Underway, StepOf, Unmoved, Busy

LEMMA OthersGo ==
  ASSUME Underway, NEW s \in Sessions, StepOf(s)', \A v \in Sessions : v # s => Unmoved(v)
  PROVE  Underway'
<1> SUFFICES ASSUME NEW v \in Sessions, v # s
             PROVE  StepOf(v)'
  BY DEF Underway
<1> QED BY OneGoes

\* The worker's own steps.
LEMMA WorkGoes ==
  ASSUME TypeOK, InHand, Underway, NEW s \in Open, Work(s) \/ Raise(s)
  PROVE  Underway'
<1>0. s \in Sessions /\ StepOf(s)
  BY Setting DEF Underway
<1> DEFINE Others == \A v \in Sessions : v # s => Unmoved(v)
<1>1. CASE Leave(s)
  <2>1. Others
    BY <1>0, <1>1 DEF Leave, Goto, TypeOK, Unmoved, ring, marks, worker, user, history
  <2>2. StepOf(s)'
    BY <1>0, <1>1 DEF Leave, Goto, TypeOK, StepOf, ring, marks, worker, user, history
  <2> QED BY <1>0, <2>1, <2>2, OthersGo
<1>2. CASE Poll(s)
  <2>1. Others
    BY <1>0, <1>2 DEF Poll, Goto, TypeOK, Unmoved, ring, marks, worker, user, history
  <2>2. StepOf(s)'
    BY <1>0, <1>2 DEF Poll, Goto, TypeOK, StepOf, ring, marks, worker, user, history
  <2> QED BY <1>0, <2>1, <2>2, OthersGo
<1>3. CASE Take(s)
  <2>1. Others
    BY <1>0, <1>3 DEF Take, Goto, TypeOK, Unmoved, ring, marks, worker, user, history
  <2>2. StepOf(s)'
    BY <1>0, <1>3 DEF Take, Goto, TypeOK, StepOf, ring, marks, worker, user, history
  <2> QED BY <1>0, <2>1, <2>2, OthersGo
<1>4. CASE Nothing(s)
  <2>1. Others
    BY <1>0, <1>4 DEF Nothing, Goto, TypeOK, Unmoved, ring, marks, worker, user, history
  <2>2. StepOf(s)'
    BY <1>0, <1>4 DEF Nothing, Goto, TypeOK, StepOf, ring, marks, worker, user, history
  <2> QED BY <1>0, <2>1, <2>2, OthersGo
<1>5. CASE ClearEvent(s)
  <2>1. Others
    BY <1>0, <1>5 DEF ClearEvent, Goto, TypeOK, Unmoved, ring, marks, worker, user, history
  <2>2. StepOf(s)'
    BY <1>0, <1>5 DEF ClearEvent, Goto, TypeOK, StepOf, ring, marks, worker, user, history
  <2> QED BY <1>0, <2>1, <2>2, OthersGo
<1>6. CASE Mark(s)
  <2>1. Others
    BY <1>0, <1>6 DEF Mark, Goto, TypeOK, Unmoved, ring, marks, worker, user, history
  <2>2. StepOf(s)'
    BY <1>0, <1>6 DEF Mark, Goto, TypeOK, StepOf, ring, marks, worker, user, history
  <2> QED BY <1>0, <2>1, <2>2, OthersGo
<1>7. CASE Test(s)
  <2>0. pc[s] = "chunk" /\ written[current[s]] \in Nat /\ written[current[s]] <= Chunks[current[s]]
        /\ Chunks[current[s]] \in Nat
    <3>1. pc[s] = "chunk"
      BY <1>7 DEF Test
    <3>2. current[s] \in Requests
      BY <1>0, <3>1, Mine DEF Busy
    <3> QED BY <3>1, <3>2, RealtimeAssumption DEF TypeOK
  <2>1. Others
    BY <1>0, <1>7 DEF Test, Goto, TypeOK, Unmoved, ring, marks, worker, user, history
  <2>2. StepOf(s)'
    BY <2>0, <1>0, <1>7 DEF Test, Goto, TypeOK, StepOf, ring, marks, worker, user, history
  <2> QED BY <1>0, <2>1, <2>2, OthersGo
<1>8. CASE Space(s)
  <2>1. Others
    BY <1>0, <1>8 DEF Space, Goto, TypeOK, Unmoved, ring, marks, worker, user, history
  <2>2. StepOf(s)'
    BY <1>0, <1>8 DEF Space, Goto, TypeOK, StepOf, ring, marks, worker, user, history
  <2> QED BY <1>0, <2>1, <2>2, OthersGo
<1>9. CASE Verdict(s)
  <2>1. Others
    BY <1>0, <1>9 DEF Verdict, Goto, TypeOK, Unmoved, ring, marks, worker, user, history
  <2>2. StepOf(s)'
    BY <1>0, <1>9 DEF Verdict, Goto, TypeOK, StepOf, ring, marks, worker, user, history
  <2> QED BY <1>0, <2>1, <2>2, OthersGo
<1>10. CASE Commit(s)
  <2>1. Others
    BY <1>0, <1>10 DEF Commit, Goto, TypeOK, Unmoved, ring, marks, worker, user, history
  <2>2. StepOf(s)'
    BY <1>0, <1>10 DEF Commit, Goto, TypeOK, StepOf, ring, marks, worker, user, history
  <2> QED BY <1>0, <2>1, <2>2, OthersGo
<1>11. CASE Idle(s)
  <2>1. Others
    BY <1>0, <1>11 DEF Idle, Goto, TypeOK, Unmoved, ring, marks, worker, user, history
  <2>2. StepOf(s)'
    BY <1>0, <1>11 DEF Idle, Goto, TypeOK, StepOf, ring, marks, worker, user, history
  <2> QED BY <1>0, <2>1, <2>2, OthersGo
<1>12. CASE Finally(s)
  <2>1. Others
    BY <1>0, <1>12 DEF Finally, Goto, TypeOK, Unmoved, ring, marks, worker, user, history
  <2>2. StepOf(s)'
    BY <1>0, <1>12 DEF Finally, Goto, TypeOK, StepOf, ring, marks, worker, user, history
  <2> QED BY <1>0, <2>1, <2>2, OthersGo
<1>13. CASE Raise(s)
  <2>1. Others
    BY <1>0, <1>13 DEF Raise, Goto, TypeOK, Unmoved, ring, marks, worker, user, history
  <2>2. StepOf(s)'
    BY <1>0, <1>13 DEF Raise, Goto, TypeOK, StepOf, ring, marks, worker, user, history
  <2> QED BY <1>0, <2>1, <2>2, OthersGo
<1>14. CASE WriteChunk(s)
  <2> DEFINE r == current[s]
  <2>1. /\ pc[s] = "write"
        /\ written' = [written EXCEPT ![r] = @ + 1]
        /\ late' = [late EXCEPT ![s] = IF event[s] THEN @ + 1 ELSE 0]
        /\ pc' = [pc EXCEPT ![s] = "chunk"]
        /\ UNCHANGED <<event, current>>
    BY <1>14 DEF WriteChunk, Goto
  <2>2. r \in Requests /\ Of[r] = s
    BY <1>0, <2>1, NextChunk
  <2>3. Others
    <3> SUFFICES ASSUME NEW v \in Sessions, v # s
                 PROVE  Unmoved(v)
      OBVIOUS
    <3>1. pc[v] \in Busy => current[v] \in Requests /\ current[v] # r
      BY <2>2, Mine
    <3> QED BY <1>0, <2>1, <2>2, <3>1 DEF Unmoved, TypeOK
  <2>4. late'[s] <= 1
    BY <1>0, <2>1 DEF StepOf, TypeOK
  <2>5. StepOf(s)'
    BY <1>0, <2>1, <2>4 DEF StepOf, TypeOK
  <2> QED BY <1>0, <2>3, <2>5, OthersGo
<1> QED
  BY <1>1, <1>2, <1>3, <1>4, <1>5, <1>6, <1>7, <1>8, <1>9, <1>10, <1>11, <1>12, <1>13, <1>14
     DEF Work

\* The caller's steps, and those of no session.
LEMMA CallerGoes ==
  ASSUME TypeOK, InHand, Underway, NEW s \in Open, SetEvent(s)
  PROVE  Underway'
<1>0. s \in Sessions /\ StepOf(s)
  BY Setting DEF Underway
<1>1. \A v \in Sessions : v # s => Unmoved(v)
  BY <1>0 DEF SetEvent, TypeOK, Unmoved, worker
<1>2. StepOf(s)'
  BY <1>0 DEF SetEvent, TypeOK, StepOf, worker
<1> QED BY <1>0, <1>1, <1>2, OthersGo

LEMMA ImmediateGoes ==
  ASSUME TypeOK, InHand, Underway, NEW r \in Requests, SpeakImmediate(r)
  PROVE  Underway'
<1>1. /\ Of[r] = Direct /\ written' = [written EXCEPT ![r] = 1]
      /\ UNCHANGED <<event, pc, current, history>>
  BY DEF SpeakImmediate
<1> SUFFICES ASSUME NEW v \in Sessions
             PROVE  StepOf(v)'
  BY DEF Underway
<1>2. pc[v] \in Busy => current[v] \in Requests /\ current[v] # r
  BY <1>1, Mine, RealtimeAssumption
<1>3. Unmoved(v)
  BY <1>1, <1>2 DEF Unmoved, TypeOK, history
<1> QED BY <1>3, OneGoes

LEMMA EngineGoes ==
  ASSUME TypeOK, InHand, Underway, [Next]_vars
  PROVE  Underway'
<1>1. ASSUME UNCHANGED <<pc, current, event, late, written>>
      PROVE  Underway'
  BY <1>1 DEF Underway, StepOf
<1>2. ASSUME NEW s \in Open, NEW r \in Requests, Speak(s, r)
      PROVE  Underway'
  BY <1>1, <1>2 DEF Speak, worker, history
<1>3. ASSUME NEW s \in Open,
             Interrupt(s) \/ Flag(s) \/ EnterRollback(s) \/ Undo(s) \/ Stop(s)
      PROVE  Underway'
  BY <1>1, <1>3 DEF Interrupt, Flag, EnterRollback, Undo, Stop, worker, history
<1>4. CASE (\E n \in 1 .. Size : Read(n)) \/ Clear \/ UNCHANGED vars
  BY <1>1, <1>4 DEF Read, Clear, vars, worker, history
<1> QED BY <1>2, <1>3, <1>4, WorkGoes, CallerGoes, ImmediateGoes DEF Next


-----------------------------------------------------------------------------
(***************************************************************************)
(* What is reported complete is whole, and BLOCK keeps audio.              *)
(***************************************************************************)
LEMMA CompletedStays ==
  ASSUME TypeOK, InHand, Underway, CompletedWasWhole, [Next]_vars
  PROVE  CompletedWasWhole'
<1>1. ASSUME completed' = completed, written' = written
      PROVE  CompletedWasWhole'
  BY <1>1 DEF CompletedWasWhole
<1>2. ASSUME NEW s \in Open, Commit(s)
      PROVE  CompletedWasWhole'
  <2>1. completed' = completed \cup {current[s]} /\ written' = written /\ pc[s] = "commit"
    BY <1>2 DEF Commit
  <2>2. written[current[s]] = Chunks[current[s]]
    BY <2>1, Setting DEF Underway, StepOf
  <2> QED BY <2>1, <2>2 DEF CompletedWasWhole
<1>3. ASSUME NEW s \in Open, WriteChunk(s)
      PROVE  CompletedWasWhole'
  <2> DEFINE r == current[s]
  <2>1. completed' = completed /\ written' = [written EXCEPT ![r] = @ + 1] /\ pc[s] = "write"
    BY <1>3 DEF WriteChunk
  <2>2. r \in Requests /\ written[r] # Chunks[r]
    <3>1. s \in Sessions
      BY Setting
    <3>2. written[r] \in Nat /\ written[r] < Chunks[r] /\ Chunks[r] \in Nat /\ r \in Requests
      BY <2>1, <3>1, NextChunk
    <3> QED BY <3>2
  <2>3. written \in [Requests -> Nat] /\ completed \subseteq Requests
    BY DEF TypeOK
  <2> HIDE DEF r
  <2> QED BY <2>1, <2>2, <2>3 DEF CompletedWasWhole
<1>4. ASSUME NEW r \in Requests, SpeakImmediate(r)
      PROVE  CompletedWasWhole'
  <2>1. completed' = completed /\ written' = [written EXCEPT ![r] = Chunks[r]]
    <3>1. completed' = completed /\ written' = [written EXCEPT ![r] = 1] /\ Of[r] = Direct
      BY <1>4 DEF SpeakImmediate, history
    <3> QED BY <3>1, FirstChunk
  <2>2. written \in [Requests -> Nat] /\ completed \subseteq Requests
    BY DEF TypeOK
  <2> QED BY <2>1, <2>2 DEF CompletedWasWhole
<1>5. ASSUME NEW s \in Open, Work(s), ~Commit(s), ~WriteChunk(s)
      PROVE  CompletedWasWhole'
  BY <1>1, <1>5
     DEF Work, Leave, Poll, Take, Nothing, ClearEvent, Mark, Test, Space, Verdict, Idle, Finally,
         worker, history
<1>6. ASSUME NEW s \in Open, NEW r \in Requests, Speak(s, r)
      PROVE  CompletedWasWhole'
  BY <1>1, <1>6 DEF Speak, worker, history
<1>7. ASSUME NEW s \in Open,
             \/ Raise(s) \/ Interrupt(s) \/ SetEvent(s) \/ Flag(s)
             \/ EnterRollback(s) \/ Undo(s) \/ Stop(s)
      PROVE  CompletedWasWhole'
  BY <1>1, <1>7 DEF Raise, Interrupt, SetEvent, Flag, EnterRollback, Undo, Stop, worker, history
<1>8. CASE (\E n \in 1 .. Size : Read(n)) \/ Clear \/ UNCHANGED vars
  BY <1>1, <1>8 DEF Read, Clear, vars, worker, history
<1> QED BY <1>2, <1>3, <1>4, <1>5, <1>6, <1>7, <1>8 DEF Next

\* Nothing is lost in a step that writes nothing and sends no worker to write.
LEMMA SparedStays ==
  ASSUME TypeOK, Spared, setup' = setup, dropped' = dropped, count' \in 0 .. Size, count' <= count,
         InHand, \A v \in Sessions : pc'[v] = "write" => pc[v] = "write" /\ current'[v] = current[v]
  PROVE  Spared'
<1>1. OneWriter' = OneWriter
  BY DEF OneWriter
<1>2. ASSUME NEW v \in Sessions, pc[v] = "write", count + ChunkLen[current[v]] <= Size
      PROVE  count' + ChunkLen[current[v]] <= Size
  <2>1. count \in 0 .. Size /\ Size \in Nat
    BY Setting
  <2>2. ChunkLen[current[v]] \in Nat
    BY <1>2, Mine, Audio, RealtimeAssumption DEF Busy
  <2> HIDE DEF Busy
  <2> QED BY <1>2, <2>1, <2>2
<1> QED BY <1>1, <1>2 DEF Spared

\* Of several writers to a ring there is none when all is spoken to one session.
LEMMA OnlyOne ==
  ASSUME TypeOK, InHand, OneWriter, NEW s \in Open
  PROVE  /\ \A v \in Sessions : v # s => pc[v] = "top"
         /\ \A r \in setup.requests : Of[r] = s
BY Setting DEF InHand, HandOf, OneWriter, Open

LEMMA EngineSpares ==
  ASSUME TypeOK, InHand, Underway, RingMeets, Spared, TypeOK', [Next]_vars
  PROVE  Spared'
<1>0. count' \in 0 .. Size /\ count \in 0 .. Size /\ Size \in Nat
  BY Setting DEF TypeOK
<1>1. ASSUME UNCHANGED <<setup, dropped, count>>,
             \A v \in Sessions : pc'[v] = "write" => pc[v] = "write" /\ current'[v] = current[v]
      PROVE  Spared'
  <2>1. count' <= count
    BY <1>0, <1>1
  <2> QED BY <1>0, <1>1, <2>1, SparedStays
<1>2. ASSUME NEW s \in Open, WriteChunk(s)
      PROVE  Spared'
  <2> DEFINE a == Chunk(current[s], written[current[s]] + 1)
  <2>1. /\ pc[s] = "write" /\ Write(a) /\ pc' = [pc EXCEPT ![s] = "chunk"]
        /\ setup' = setup /\ intact' = intact
    BY <1>2 DEF WriteChunk, Goto
  <2>2. s \in Sessions
    BY Setting
  <2>3. /\ a \in Seq(Samples) /\ Len(a) = ChunkLen[current[s]]
        /\ ChunkLen[current[s]] \in Nat \ {0}
    BY <2>1, <2>2, NextChunk
  <2> HIDE DEF a
  <2>4. count + ChunkLen[current[s]] <= Size => dropped' = dropped
    <3>1. Len(a) > 0
      BY <2>3
    <3>2. count + Len(a) <= Size => dropped' = dropped
      BY <2>1, <2>3, <3>1, WriteKeepsRing
    <3> QED BY <2>3, <3>2
  <2> SUFFICES ASSUME OneWriter
               PROVE  ~dropped' /\ \A v \in Sessions : pc'[v] # "write"
    BY <2>1 DEF Spared, OneWriter
  <2>5. ~dropped'
    BY <2>1, <2>2, <2>4 DEF Spared
  <2>6. \A v \in Sessions : pc'[v] # "write"
    <3>1. \A v \in Sessions : v # s => pc[v] = "top"
      BY OnlyOne
    <3>2. \A v \in Sessions : pc'[v] = IF v = s THEN "chunk" ELSE pc[v]
      BY <2>1 DEF TypeOK
    <3> QED BY <3>1, <3>2
  <2> QED BY <2>5, <2>6
<1>3. ASSUME NEW s \in Open, Space(s)
      PROVE  Spared'
  <2>1. /\ setup.policy = "block" => Size - count >= ChunkLen[current[s]]
        /\ pc[s] = "space" /\ pc' = [pc EXCEPT ![s] = "write"]
        /\ UNCHANGED <<setup, dropped, count, current>>
    BY <1>3 DEF Space, Goto, ring, Free
  <2>2. OneWriter' = OneWriter /\ s \in Sessions
    BY <2>1, Setting DEF OneWriter
  <2>3. ChunkLen[current[s]] \in Nat
    BY <2>1, <2>2, Mine, Audio, RealtimeAssumption DEF Busy
  <2>4. OneWriter => count' + ChunkLen[current[s]] <= Size
    BY <1>0, <2>1, <2>3 DEF OneWriter
  <2>5. \A v \in Sessions : pc'[v] = IF v = s THEN "write" ELSE pc[v]
    BY <2>1 DEF TypeOK
  <2> QED BY <2>1, <2>2, <2>4, <2>5 DEF Spared
<1>4. ASSUME NEW r \in Requests, SpeakImmediate(r)
      PROVE  Spared'
  <2>1. Of[r] = Direct /\ r \in setup.requests /\ setup' = setup
    BY <1>4 DEF SpeakImmediate
  <2> QED BY <2>1, RealtimeAssumption DEF Spared, OneWriter
<1>5. ASSUME NEW s \in Open, Work(s), ~Space(s), ~WriteChunk(s)
      PROVE  Spared'
  <2>1. UNCHANGED <<setup, dropped, count>>
    BY <1>5
       DEF Work, Leave, Poll, Take, Nothing, ClearEvent, Mark, Test, Verdict, Commit, Idle,
           Finally, ring
  <2>2. \A v \in Sessions : pc'[v] = "write" => pc[v] = "write" /\ current'[v] = current[v]
    <3>1. \E l : pc' = [pc EXCEPT ![s] = l] /\ l # "write"
      BY <1>5
         DEF Work, Leave, Poll, Take, Nothing, ClearEvent, Mark, Test, Verdict, Commit, Idle,
             Finally, Goto
    <3>2. pc \in [Sessions -> {"top", "get", "clear", "mark", "chunk", "space", "write", "verdict",
                              "commit", "idle", "finally", "dead"}]
      BY DEF TypeOK
    <3>3. \A v \in Sessions : v # s => current'[v] = current[v]
      <4>1. CASE Take(s)
        <5>1. PICK i \in DOMAIN pending[s] : current' = [current EXCEPT ![s] = pending[s][i]]
          BY <4>1 DEF Take, Urgent
        <5> QED BY <5>1 DEF TypeOK
      <4>2. CASE Finally(s)
        BY <4>2 DEF Finally, TypeOK
      <4>3. CASE ~Take(s) /\ ~Finally(s)
        BY <1>5, <4>3 DEF Work, Leave, Poll, Nothing, ClearEvent, Mark, Test, Verdict, Commit, Idle
      <4> QED BY <4>1, <4>2, <4>3
    <3> QED BY <3>1, <3>2, <3>3
  <2> QED BY <1>1, <2>1, <2>2
<1>6. ASSUME NEW s \in Open, NEW r \in Requests, Speak(s, r)
      PROVE  Spared'
  BY <1>1, <1>6 DEF Speak, ring, worker
<1>7. ASSUME NEW s \in Open,
             Interrupt(s) \/ SetEvent(s) \/ Flag(s) \/ EnterRollback(s) \/ Stop(s)
      PROVE  Spared'
  BY <1>1, <1>7 DEF Interrupt, SetEvent, Flag, EnterRollback, Stop, ring, worker
<1>8. ASSUME NEW r \in Requests, Rollback(r)
      PROVE  count' <= count /\ dropped' = dropped
  BY <1>8, RollbackKeepsRing DEF Rollback
<1>9. ASSUME NEW s \in Open, Undo(s)
      PROVE  Spared'
  <2>1. target[s] \in Requests /\ Rollback(target[s]) /\ UNCHANGED <<setup, pc, current>>
    BY <1>9, Setting DEF Undo, InHand, HandOf, worker
  <2> QED BY <1>0, <1>8, <2>1, SparedStays
<1>10. ASSUME NEW s \in Open, Raise(s)
       PROVE  Spared'
  <2>1. /\ s \in Sessions /\ pc[s] = "chunk" /\ pc' = [pc EXCEPT ![s] = "dead"] /\ setup' = setup
        /\ current' = [current EXCEPT ![s] = None]
    BY <1>10, Setting DEF Raise, Goto
  <2>2. marker[s] \in Requests
    BY <2>1, Mine DEF Busy, Marked
  <2>3. count' <= count /\ dropped' = dropped
    <3>1. CASE marker[s] \in committed
      BY <1>0, <1>10, <3>1 DEF Raise, ring
    <3>2. CASE marker[s] \notin committed
      <4>1. Rollback(marker[s])
        BY <1>10, <3>2 DEF Raise
      <4> QED BY <1>8, <2>2, <4>1
    <3> QED BY <3>1, <3>2
  <2>4. \A v \in Sessions : pc'[v] = "write" => pc[v] = "write" /\ current'[v] = current[v]
    BY <2>1 DEF TypeOK
  <2> QED BY <1>0, <2>1, <2>3, <2>4, SparedStays
<1>11. ASSUME NEW n \in 1 .. Size, Read(n)
       PROVE  Spared'
  <2>1. UNCHANGED <<setup, dropped, pc, current>>
    BY <1>11 DEF Read, worker
  <2>2. \E got \in 0 .. count : count' = count - got
    BY <1>11, ReadKeepsRing
  <2>3. count' <= count
    BY <1>0, <2>2
  <2> QED BY <1>0, <2>1, <2>3, SparedStays
<1>12. CASE Clear
  <2>1. UNCHANGED <<setup, dropped, pc, current>> /\ count' = 0
    BY <1>12 DEF Clear, worker
  <2>2. count' <= count
    BY <1>0, <2>1
  <2> QED BY <1>0, <2>1, <2>2, SparedStays
<1>13. CASE UNCHANGED vars
  BY <1>1, <1>13 DEF vars, ring, worker
<1> QED
  BY <1>2, <1>3, <1>4, <1>5, <1>6, <1>7, <1>9, <1>10, <1>11, <1>12, <1>13 DEF Next

-----------------------------------------------------------------------------
(***************************************************************************)
(* The invariant, and what follows from it.                                *)
(***************************************************************************)
LEMMA EngineInvInit == Init => EngineInv
<1> SUFFICES ASSUME Init
             PROVE  EngineInv
  OBVIOUS
<1>1. Size \in Nat \ {0} /\ 0 \in Slots /\ 0 \in 0 .. Size
  BY RealtimeAssumption DEF Slots
<1>2. 0 = (0 + 0) % Size
  BY <1>1
<1>3. \A S : <<>> \in Seq(S)
  BY EmptySeq
<1>4. \A r \in Requests : 0 <= Chunks[r]
  BY RealtimeAssumption
<1>5. TypeOK
  BY <1>1, <1>3, <1>4 DEF Init, TypeOK
<1>6. InHand /\ Underway
  BY <1>3 DEF Init, InHand, HandOf, Underway, StepOf, Busy, Marked
<1>7. CompletedWasWhole /\ Spared
  BY DEF Init, CompletedWasWhole, Spared
<1>8. RingMeets
  BY <1>2 DEF Init, RingMeets
<1> QED BY <1>5, <1>6, <1>7, <1>8 DEF EngineInv

LEMMA EngineInvNext == EngineInv /\ [Next]_vars => EngineInv'
<1> SUFFICES ASSUME EngineInv, [Next]_vars
             PROVE  EngineInv'
  OBVIOUS
<1>1. TypeOK' /\ InHand' /\ RingMeets'
  BY EngineTyped DEF EngineInv
<1>2. Underway'
  BY EngineGoes DEF EngineInv
<1>3. CompletedWasWhole'
  BY CompletedStays DEF EngineInv
<1>4. Spared'
  BY <1>1, EngineSpares DEF EngineInv
<1> QED BY <1>1, <1>2, <1>3, <1>4 DEF EngineInv

LEMMA EngineInvKept == Spec => []EngineInv
<1> QED BY EngineInvInit, EngineInvNext, PTL DEF Spec

(* The ring's positions and count stay within the ring, and no request is  *)
(* written beyond its last chunk, for every size of the ring.              *)
THEOREM EngineTypesKept == Spec => []TypeOK
<1>1. EngineInv => TypeOK
  BY DEF EngineInv
<1> QED BY <1>1, EngineInvKept, PTL

(* What is reported complete was written whole, an interrupt lets one more *)
(* chunk through at most, and with BLOCK and a single session nothing is   *)
(* dropped, in whatever order caller, workers and player run.              *)
THEOREM AudioKeptWhole == Spec => []AudioIsWhole
<1>1. EngineInv => AudioIsWhole
  <2>1. Underway => OneChunkLate
    BY DEF Underway, StepOf, OneChunkLate
  <2>2. Spared => BlockNeverDrops
    BY DEF Spared, OneWriter, BlockNeverDrops
  <2> QED BY <2>1, <2>2 DEF EngineInv, AudioIsWhole
<1> QED BY <1>1, EngineInvKept, PTL

-----------------------------------------------------------------------------
(***************************************************************************)
(* The ring is a queue: it implements AudioFifo.                           *)
(***************************************************************************)
\* The samples of a ring, in their order.
LEMMA InTurn ==
  ASSUME NEW S, NEW z \in Nat \ {0}, NEW r \in Int, NEW c \in Nat, NEW f \in [0 .. (z - 1) -> S],
         NEW b, b = [i \in 1 .. c |-> f[(r + i - 1) % z]]
  PROVE  /\ b \in Seq(S) /\ Len(b) = c
         /\ \A i \in 1 .. c : b[i] = f[(r + (i - 1)) % z]
<1>1. ASSUME NEW i \in 1 .. c
      PROVE  f[(r + i - 1) % z] \in S /\ r + i - 1 = r + (i - 1)
  <2>1. r + i - 1 \in Int /\ r + i - 1 = r + (i - 1)
    OBVIOUS
  <2>2. (r + i - 1) % z \in 0 .. (z - 1)
    BY <2>1, Around
  <2> QED BY <2>1, <2>2
<1>2. b \in [1 .. c -> S]
  BY <1>1
<1>3. b \in Seq(S)
  BY <1>2, SeqDef
<1>4. Len(b) = c
  <2>1. DOMAIN b = 1 .. c
    BY <1>2
  <2>2. Len(b) \in Nat /\ DOMAIN b = 1 .. Len(b)
    BY <1>3, LenProperties
  <2> DEFINE l == Len(b)
  <2>3. l \in Nat /\ 1 .. l = 1 .. c
    BY <2>1, <2>2
  <2> HIDE DEF l
  <2>4. l = c
    BY <2>3
  <2> QED BY <2>4 DEF l
<1> QED BY <1>1, <1>3, <1>4

LEMMA ToCome ==
  ASSUME TypeOK
  PROVE  /\ Buffered \in Seq(Samples \cup {Silence}) /\ Len(Buffered) = count
         /\ \A i \in 1 .. count : Buffered[i] = cells[(rpos + (i - 1)) % Size]
<1>1. /\ Size \in Nat \ {0} /\ count \in Nat /\ rpos \in Int
      /\ cells \in [0 .. (Size - 1) -> Samples \cup {Silence}]
  BY Setting DEF TypeOK, Slots
<1>2. Buffered = [i \in 1 .. count |-> cells[(rpos + i - 1) % Size]]
  BY DEF Buffered
<1> QED BY <1>1, <1>2, InTurn

LEMMA ToComeNext ==
  ASSUME TypeOK'
  PROVE  /\ Buffered' \in Seq(Samples \cup {Silence}) /\ Len(Buffered') = count'
         /\ \A i \in 1 .. count' : Buffered'[i] = cells'[(rpos' + (i - 1)) % Size]
<1>1. /\ Size \in Nat \ {0} /\ count' \in 0 .. Size /\ rpos' \in 0 .. (Size - 1)
      /\ cells' \in [0 .. (Size - 1) -> Samples \cup {Silence}]
  BY RealtimeAssumption DEF TypeOK, Slots
<1>2. count' \in Nat /\ rpos' \in Int
  BY <1>1
<1>3. Buffered' = [i \in 1 .. count' |-> cells'[(rpos' + i - 1) % Size]]
  BY DEF Buffered
<1> DEFINE f == cells'
           r == rpos'
           c == count'
           b == Buffered'
<1>4. /\ r \in Int /\ c \in Nat /\ f \in [0 .. (Size - 1) -> Samples \cup {Silence}]
      /\ b = [i \in 1 .. c |-> f[(r + i - 1) % Size]]
  BY <1>1, <1>2, <1>3
<1> HIDE DEF f, r, c, b
<1>5. /\ b \in Seq(Samples \cup {Silence}) /\ Len(b) = c
      /\ \A i \in 1 .. c : b[i] = f[(r + (i - 1)) % Size]
  BY <1>1, <1>4, InTurn
<1> QED BY <1>5 DEF f, r, c, b

\* A write puts its audio behind what was there, and pushes the oldest samples out.
LEMMA WritePuts ==
  ASSUME TypeOK, TypeOK', RingMeets, intact,
         NEW audio \in Seq(Samples), Len(audio) > 0, Write(audio)
  PROVE  Buffered' = End(Buffered \o audio, Size)
<1> DEFINE S == Samples \cup {Silence}
           l == Len(audio)
           m == IF count + l > Size THEN Size ELSE count + l
           d == count + l - m
           all == Buffered \o audio
           t == End(all, Size)
<1>1. PICK n \in 1 .. Size, over \in 0 .. Size :
           /\ n = IF l > Size THEN Size ELSE l
           /\ over = IF n > Size - count THEN n - (Size - count) ELSE 0
           /\ over <= count
           /\ \A i \in Slots, k \in 0 .. (Size - 1) :
                k = (i - wpos) % Size =>
                  /\ k < n => cells'[i] = audio[l - n + k + 1]
                  /\ k >= n => cells'[i] = cells[i]
           /\ wpos' = (wpos + n) % Size /\ rpos' = (rpos + over) % Size
           /\ count' = count - over + n
  BY Written
<1>2. /\ Size \in Nat \ {0} /\ count \in 0 .. Size /\ wpos \in 0 .. (Size - 1)
      /\ rpos \in 0 .. (Size - 1) /\ l \in Nat /\ wpos = (rpos + count) % Size
  BY Setting, LenProperties DEF RingMeets
<1>3. audio \in Seq(S)
  <2>1. Samples \subseteq S
    OBVIOUS
  <2> HIDE DEF S
  <2> QED BY <2>1, SeqMonotonic
<1>4. /\ Buffered \in Seq(S) /\ Len(Buffered) = count
      /\ \A i \in 1 .. count : Buffered[i] = cells[(rpos + (i - 1)) % Size]
  BY ToCome
<1>5. /\ Buffered' \in Seq(S) /\ Len(Buffered') = count'
      /\ \A i \in 1 .. count' : Buffered'[i] = cells'[(rpos' + (i - 1)) % Size]
  BY ToComeNext
<1> HIDE DEF S
<1>6. /\ all \in Seq(S) /\ Len(all) = count + l
      /\ \A i \in 1 .. count + l : all[i] = IF i <= count THEN Buffered[i] ELSE audio[i - count]
  BY <1>3, <1>4, ConcatProperties
<1> HIDE DEF l, all
<1>7. t \in Seq(S) /\ Len(t) = m /\ \A i \in 1 .. m : t[i] = all[d + i]
  <2>1. Size \in Nat \ {0} /\ t = End(all, Size) /\ all \in Seq(S) /\ Len(all) = count + l
    BY <1>2, <1>6
  <2> HIDE DEF t
  <2>2. /\ t \in Seq(S)
        /\ Len(t) = IF Len(all) > Size THEN Size ELSE Len(all)
        /\ \A k \in 1 .. Len(t) : t[k] = all[Len(all) - Len(t) + k]
    BY <2>1, KeptEnd
  <2>3. Len(t) = m
    BY <2>1, <2>2
  <2> HIDE DEF m
  <2>4. Len(all) - Len(t) = d
    <3>1. Len(all) - Len(t) = (count + l) - m
      BY <2>1, <2>3
    <3>2. m \in Int /\ count \in Int /\ l \in Int
      BY <1>2 DEF m
    <3> QED BY <3>1, <3>2
  <2> HIDE DEF d
  <2> QED BY <2>2, <2>3, <2>4
<1>8. m = count' /\ d \in Nat
  <2>1. /\ n = IF l > Size THEN Size ELSE l
        /\ over = IF n > Size - count THEN n - (Size - count) ELSE 0
        /\ count' = count - over + n
    BY <1>1
  <2> QED BY <1>2, <2>1
<1>9. ASSUME NEW i \in 1 .. count'
      PROVE  Buffered'[i] = all[d + i]
  <2> DEFINE p == (rpos' + (i - 1)) % Size
             k == (p - wpos) % Size
  <2>0. i - 1 \in 0 .. (Size - 1) /\ over \in 0 .. count
    <3>1. over \in 0 .. Size /\ over <= count /\ count \in 0 .. Size /\ Size \in Nat
      BY <1>1, <1>2
    <3>2. count' \in 0 .. Size
      BY DEF TypeOK
    <3>3. i \in 1 .. count'
      BY <1>9
    <3> HIDE DEF p, k
    <3> QED BY <3>1, <3>2, <3>3
  <2>1. /\ p \in 0 .. (Size - 1)
        /\ over + (i - 1) < Size => p = (rpos + (over + (i - 1))) % Size
        /\ k = IF over + (i - 1) < count THEN over + (i - 1) - count + Size
                                         ELSE over + (i - 1) - count
    <3> DEFINE q == rpos'
               j == i - 1
    <3>0. /\ Size \in Nat \ {0} /\ rpos \in 0 .. (Size - 1) /\ count \in 0 .. Size
          /\ wpos \in 0 .. (Size - 1) /\ over \in 0 .. Size /\ j \in 0 .. Size
      BY <1>2, <2>0
    <3>1. /\ q = (rpos + over) % Size /\ wpos = (rpos + count) % Size
          /\ j \in 0 .. (Size - 1) /\ over \in 0 .. count
      BY <1>1, <1>2, <2>0
    <3> HIDE DEF q, j
    <3>2. q = IF rpos + over < Size THEN rpos + over ELSE rpos + over - Size
      BY <3>0, <3>1, Ahead
    <3>3. wpos = IF rpos + count < Size THEN rpos + count ELSE rpos + count - Size
      BY <3>0, <3>1, Ahead
    <3>4. q \in 0 .. (Size - 1)
      BY <3>0, <3>2
    <3>5. (q + j) % Size = IF q + j < Size THEN q + j ELSE q + j - Size
      BY <3>0, <3>4, Ahead
    <3>6. p = IF q + j < Size THEN q + j ELSE q + j - Size
      BY <3>5 DEF q, j
    <3> HIDE DEF p
    <3>7. ASSUME over + j < Size
          PROVE  p = (rpos + (over + j)) % Size
      <4>1. over + j \in 0 .. Size
        BY <3>0, <3>7
      <4> DEFINE far == (rpos + (over + j)) % Size
      <4>2. far = IF rpos + (over + j) < Size THEN rpos + (over + j) ELSE rpos + (over + j) - Size
        BY <3>0, <4>1, Ahead
      <4> HIDE DEF far
      <4>3. p = far
        BY <3>0, <3>2, <3>6, <3>7, <4>2
      <4> QED BY <4>3 DEF far
    <3>8. p \in 0 .. (Size - 1)
      BY <3>0, <3>4, <3>6
    <3>9. k = IF p >= wpos THEN p - wpos ELSE p - wpos + Size
      BY <3>0, <3>8, Apart
    <3> HIDE DEF k
    <3>10. k = IF over + j < count THEN over + j - count + Size ELSE over + j - count
      <4>1. over <= count /\ j <= Size - 1
        BY <3>0, <3>1
      <4> QED BY <3>0, <3>2, <3>3, <3>6, <3>9, <4>1
    <3> QED BY <3>7, <3>8, <3>10 DEF j
  <2>2. Buffered'[i] = cells'[p]
    BY <1>5
  <2> HIDE DEF p
  <2>3. p \in Slots
    BY <2>1 DEF Slots
  <2>4. k \in 0 .. (Size - 1) =>
          /\ k < n => cells'[p] = audio[l - n + k + 1]
          /\ k >= n => cells'[p] = cells[p]
    BY <1>1, <2>3
  <2> HIDE DEF k
  <2>5. d = IF l > Size THEN count + l - Size ELSE over
    BY <1>1, <1>2
  <2> DEFINE j == d + i
  <2>6. CASE l > Size \/ ~(over + (i - 1) < count)
    <3>1. /\ k \in 0 .. (Size - 1) /\ k < n /\ l - n + k + 1 = j - count
          /\ j \in 1 .. count + l /\ ~(j <= count)
      BY <1>1, <1>2, <2>0, <2>1, <2>5, <2>6
    <3> HIDE DEF j
    <3>2. cells'[p] = audio[j - count]
      BY <2>4, <3>1
    <3>3. all[j] = audio[j - count]
      BY <1>6, <3>1
    <3> QED BY <2>2, <3>2, <3>3 DEF j
  <2>7. CASE ~(l > Size) /\ over + (i - 1) < count
    <3>1. /\ k \in 0 .. (Size - 1) /\ k >= n /\ over + (i - 1) < Size
          /\ j \in 1 .. count + l /\ j <= count /\ j \in 1 .. count
          /\ j - 1 = over + (i - 1)
      BY <1>1, <1>2, <2>0, <2>1, <2>5, <2>7
    <3> HIDE DEF j
    <3>2. cells'[p] = cells[p] /\ p = (rpos + (over + (i - 1))) % Size
      BY <2>1, <2>4, <3>1
    <3>3. all[j] = Buffered[j]
      BY <1>6, <3>1
    <3>4. Buffered[j] = cells[(rpos + (j - 1)) % Size]
      BY <1>4, <3>1
    <3>5. all[j] = cells[p]
      BY <3>1, <3>2, <3>3, <3>4
    <3> QED BY <2>2, <3>2, <3>5 DEF j
  <2> QED BY <2>6, <2>7
<1> HIDE DEF t, m, d
<1>10. Buffered' = t
  BY <1>5, <1>7, <1>8, <1>9, SeqEqual
<1> QED BY <1>10 DEF t, all

\* A read takes the oldest samples.
LEMMA ReadGets ==
  ASSUME TypeOK, TypeOK', RingMeets, NEW n \in 1 .. Size, Read(n)
  PROVE  \E got \in 0 .. Len(Buffered) : Buffered' = SubSeq(Buffered, got + 1, Len(Buffered))
<1> DEFINE S == Samples \cup {Silence}
<1>1. PICK got \in 0 .. count : count' = count - got /\ rpos' = (rpos + got) % Size
  BY ReadKeepsRing
<1>2. cells' = cells
  BY DEF Read
<1>3. /\ Buffered \in Seq(S) /\ Len(Buffered) = count
      /\ \A i \in 1 .. count : Buffered[i] = cells[(rpos + (i - 1)) % Size]
  BY ToCome
<1>4. /\ Buffered' \in Seq(S) /\ Len(Buffered') = count'
      /\ \A i \in 1 .. count' : Buffered'[i] = cells'[(rpos' + (i - 1)) % Size]
  BY ToComeNext
<1>5. /\ Size \in Nat \ {0} /\ count \in 0 .. Size /\ rpos \in 0 .. (Size - 1)
      /\ got \in 0 .. Size /\ count' = count - got /\ got <= count
  BY <1>1, Setting
<1> DEFINE t == SubSeq(Buffered, got + 1, count)
<1>6. t \in Seq(S) /\ Len(t) = count' /\ \A i \in 1 .. count' : t[i] = Buffered[got + i]
  <2>1. \A i \in got + 1 .. count : Buffered[i] \in S
    <3> HIDE DEF S
    <3>1. \A i \in got + 1 .. count : i \in 1 .. Len(Buffered)
      BY <1>3, <1>5
    <3> QED BY <1>3, <3>1, ElementOfSeq
  <2> HIDE DEF S
  <2>2. got + 1 \in Int /\ count \in Int
    BY <1>5
  <2>3. /\ t \in Seq(S)
        /\ Len(t) = IF got + 1 <= count THEN count - (got + 1) + 1 ELSE 0
        /\ \A i \in 1 .. count - (got + 1) + 1 : t[i] = Buffered[got + 1 + i - 1]
    BY <2>1, <2>2, SubSeqProperties
  <2> HIDE DEF t
  <2>4. /\ count - (got + 1) + 1 = count'
        /\ (IF got + 1 <= count THEN count - (got + 1) + 1 ELSE 0) = count'
        /\ \A i \in 1 .. count' : got + 1 + i - 1 = got + i
    BY <1>5
  <2> QED BY <2>3, <2>4
<1> HIDE DEF S, t
<1>7. ASSUME NEW i \in 1 .. count'
      PROVE  Buffered'[i] = t[i]
  <2> DEFINE j == i - 1
             q == rpos'
             p == (q + j) % Size
             far == (rpos + (got + j)) % Size
  <2>1. /\ j \in 0 .. Size /\ got + j \in 0 .. Size /\ got + j < count
        /\ got + i \in 1 .. count /\ got + i - 1 = got + j /\ q = (rpos + got) % Size
    BY <1>1, <1>5
  <2> HIDE DEF j, q
  <2>2. q = IF rpos + got < Size THEN rpos + got ELSE rpos + got - Size
    BY <1>5, <2>1, Ahead
  <2>3. q \in 0 .. (Size - 1)
    BY <1>5, <2>2
  <2>4. p = IF q + j < Size THEN q + j ELSE q + j - Size
    BY <1>5, <2>1, <2>3, Ahead
  <2>5. far = IF rpos + (got + j) < Size THEN rpos + (got + j) ELSE rpos + (got + j) - Size
    BY <1>5, <2>1, Ahead
  <2>6. Buffered'[i] = cells[p]
    BY <1>2, <1>4 DEF j, q
  <2>7. Buffered[got + i] = cells[(rpos + (got + i - 1)) % Size]
    BY <1>3, <2>1
  <2>8. Buffered[got + i] = cells[far]
    BY <2>1, <2>7
  <2> HIDE DEF p, far
  <2>9. p = far
    BY <1>5, <2>1, <2>2, <2>4, <2>5
  <2> QED BY <1>6, <2>6, <2>8, <2>9
<1>8. Buffered' = t
  BY <1>4, <1>6, <1>7, SeqEqual
<1> QED BY <1>3, <1>8 DEF t

\* A rollback that does not overtake the reader takes the newest samples back.
LEMMA RollbackTakes ==
  ASSUME TypeOK, TypeOK', RingMeets, NEW r \in Requests, Rollback(r), intact'
  PROVE  \E back \in 0 .. Len(Buffered) : Buffered' = SubSeq(Buffered, 1, Len(Buffered) - back)
<1> DEFINE S == Samples \cup {Silence}
<1>1. PICK back \in 0 .. count : count' = count - back
  BY RollbackKeepsRing
<1>2. cells' = cells /\ rpos' = rpos
  BY DEF Rollback
<1>3. /\ Buffered \in Seq(S) /\ Len(Buffered) = count
      /\ \A i \in 1 .. count : Buffered[i] = cells[(rpos + (i - 1)) % Size]
  BY ToCome
<1>4. /\ Buffered' \in Seq(S) /\ Len(Buffered') = count'
      /\ \A i \in 1 .. count' : Buffered'[i] = cells'[(rpos' + (i - 1)) % Size]
  BY ToComeNext
<1>5. count \in Nat /\ count' \in 0 .. count
  BY <1>1, Setting
<1> DEFINE t == SubSeq(Buffered, 1, count')
<1>6. t \in Seq(S) /\ Len(t) = count' /\ \A i \in 1 .. count' : t[i] = Buffered[i]
  <2>1. \A i \in 1 .. count' : Buffered[i] \in S
    <3> HIDE DEF S
    <3>1. \A i \in 1 .. count' : i \in 1 .. Len(Buffered)
      BY <1>3, <1>5
    <3> QED BY <1>3, <3>1, ElementOfSeq
  <2> DEFINE c == count'
             b == Buffered
  <2>2. c \in Nat /\ t = SubSeq(b, 1, c) /\ \A i \in 1 .. c : b[i] \in S
    BY <1>5, <2>1
  <2> HIDE DEF S, t, c, b
  <2>3. /\ t \in Seq(S)
        /\ Len(t) = IF 1 <= c THEN c - 1 + 1 ELSE 0
        /\ \A i \in 1 .. c - 1 + 1 : t[i] = b[1 + i - 1]
    BY <2>2, SubSeqProperties
  <2>4. /\ c - 1 + 1 = c /\ (IF 1 <= c THEN c - 1 + 1 ELSE 0) = c
        /\ \A i \in 1 .. c : 1 + i - 1 = i
    BY <2>2
  <2>5. t \in Seq(S) /\ Len(t) = c /\ \A i \in 1 .. c : t[i] = b[i]
    BY <2>3, <2>4
  <2> QED BY <2>5 DEF c, b
<1> HIDE DEF S, t
<1>7. \A i \in 1 .. count' : Buffered'[i] = t[i]
  <2>1. \A i \in 1 .. count' : i \in 1 .. count
    BY <1>5
  <2> QED BY <1>2, <1>3, <1>4, <1>6, <2>1
<1>8. Buffered' = t
  BY <1>4, <1>6, <1>7, SeqEqual
<1> QED BY <1>1, <1>3, <1>8 DEF t

\* Every step of the ring is one of the queue or leaves it as it is.
LEMMA RingIsQueue ==
  ASSUME EngineInv, [Next]_vars
  PROVE  [Fifo!FifoNext]_(Fifo!fifoVars)
<1>0. TypeOK /\ InHand /\ Underway /\ RingMeets
  BY DEF EngineInv
<1>1. TypeOK' /\ intact \in BOOLEAN /\ intact' \in BOOLEAN
  BY <1>0, EngineTyped DEF TypeOK
<1> DEFINE fifo == IF intact THEN Buffered ELSE <<>>
           fifoNext == IF intact' THEN Buffered' ELSE <<>>
           Same == fifoNext = fifo /\ intact' = intact
           Input == UNION {{Chunk(r, k) : k \in 1 .. Chunks[r]} : r \in Requests}
<1>2. ASSUME Same
      PROVE  [Fifo!FifoNext]_(Fifo!fifoVars)
  BY <1>2 DEF Fifo!fifoVars
<1>3. ASSUME UNCHANGED <<ring, intact>>
      PROVE  Same
  BY <1>3 DEF ring, Buffered
<1>4. ASSUME NEW audio \in Input, audio \in Seq(Samples), Len(audio) > 0, Write(audio),
             intact' = intact
      PROVE  [Fifo!FifoNext]_(Fifo!fifoVars)
  <2>1. CASE ~intact
    BY <1>2, <1>4, <2>1
  <2>2. CASE intact
    <3>1. Buffered' = End(Buffered \o audio, Size)
      BY <1>0, <1>1, <1>4, <2>2, WritePuts
    <3>2. Fifo!Put(audio)
      BY <1>4, <2>2, <3>1 DEF Fifo!Put, Fifo!Newest, End
    <3> QED BY <3>2 DEF Fifo!FifoNext
  <2> QED BY <2>1, <2>2
<1>5. ASSUME NEW n \in 1 .. Size, Read(n)
      PROVE  [Fifo!FifoNext]_(Fifo!fifoVars)
  <2>0. intact' = intact
    BY <1>5 DEF Read
  <2>1. CASE ~intact
    BY <1>2, <2>0, <2>1
  <2>2. CASE intact
    <3>1. PICK got \in 0 .. Len(Buffered) : Buffered' = SubSeq(Buffered, got + 1, Len(Buffered))
      BY <1>0, <1>1, <1>5, ReadGets
    <3>2. Fifo!Get(got)
      BY <2>0, <2>2, <3>1 DEF Fifo!Get
    <3> QED BY <2>2, <3>2 DEF Fifo!FifoNext
  <2> QED BY <2>1, <2>2
<1>6. ASSUME NEW r \in Requests, Rollback(r)
      PROVE  [Fifo!FifoNext]_(Fifo!fifoVars)
  <2>1. CASE ~intact'
    BY <1>1, <2>1 DEF Fifo!FifoNext, Fifo!Overtake
  <2>2. CASE intact'
    <3>0. intact
      BY <1>6, <2>2 DEF Rollback
    <3>1. PICK back \in 0 .. Len(Buffered) :
                 Buffered' = SubSeq(Buffered, 1, Len(Buffered) - back)
      BY <1>0, <1>1, <1>6, <2>2, RollbackTakes
    <3>2. Fifo!TakeBack(back)
      BY <1>1, <2>2, <3>0, <3>1 DEF Fifo!TakeBack
    <3> QED BY <3>0, <3>2 DEF Fifo!FifoNext
  <2> QED BY <2>1, <2>2
<1>7. CASE Clear
  <2>1. count' = 0 /\ intact' = TRUE
    BY <1>7 DEF Clear
  <2>2. Buffered' = <<>>
    BY <2>1 DEF Buffered
  <2>3. Fifo!Empty
    BY <2>1, <2>2 DEF Fifo!Empty
  <2> QED BY <2>3 DEF Fifo!FifoNext
<1>8. ASSUME NEW s \in Open, WriteChunk(s)
      PROVE  [Fifo!FifoNext]_(Fifo!fifoVars)
  <2> DEFINE a == Chunk(current[s], written[current[s]] + 1)
  <2>1. Write(a) /\ pc[s] = "write" /\ intact' = intact
    BY <1>8 DEF WriteChunk
  <2>2. /\ a \in Seq(Samples) /\ Len(a) = ChunkLen[current[s]] /\ ChunkLen[current[s]] \in Nat \ {0}
        /\ current[s] \in Requests /\ written[current[s]] + 1 \in 1 .. Chunks[current[s]]
    BY <1>0, <2>1, Setting, NextChunk
  <2>3. a \in Input
    BY <2>2
  <2> HIDE DEF a
  <2>4. Len(a) > 0
    BY <2>2
  <2> QED BY <1>4, <2>1, <2>2, <2>3, <2>4
<1>9. ASSUME NEW r \in Requests, SpeakImmediate(r)
      PROVE  [Fifo!FifoNext]_(Fifo!fifoVars)
  <2>1. Write(Chunk(r, 1)) /\ intact' = intact /\ Of[r] = Direct
    BY <1>9 DEF SpeakImmediate
  <2>2. /\ Chunk(r, 1) \in Seq(Samples) /\ Len(Chunk(r, 1)) = ChunkLen[r]
        /\ ChunkLen[r] \in Nat \ {0} /\ 1 \in 1 .. Chunks[r]
    BY <2>1, FirstChunk
  <2>3. Chunk(r, 1) \in Input /\ Len(Chunk(r, 1)) > 0
    BY <2>2
  <2> QED BY <1>4, <2>1, <2>2, <2>3
<1>10. ASSUME NEW s \in Open, Undo(s)
       PROVE  [Fifo!FifoNext]_(Fifo!fifoVars)
  <2>1. target[s] \in Requests /\ Rollback(target[s])
    BY <1>0, <1>10, Setting DEF Undo, InHand, HandOf
  <2> QED BY <1>6, <2>1
<1>11. ASSUME NEW s \in Open, Raise(s)
       PROVE  [Fifo!FifoNext]_(Fifo!fifoVars)
  <2>1. CASE marker[s] \in committed
    <3>1. UNCHANGED <<ring, intact>>
      BY <1>11, <2>1 DEF Raise
    <3> QED BY <1>2, <1>3, <3>1
  <2>2. CASE marker[s] \notin committed
    <3>1. Rollback(marker[s]) /\ pc[s] = "chunk"
      BY <1>11, <2>2 DEF Raise
    <3>2. marker[s] \in Requests
      BY <1>0, <3>1, Setting, Mine DEF Busy, Marked
    <3> QED BY <1>6, <3>1, <3>2
  <2> QED BY <2>1, <2>2
<1>12. ASSUME NEW s \in Open, Work(s), ~WriteChunk(s)
       PROVE  [Fifo!FifoNext]_(Fifo!fifoVars)
  <2>1. UNCHANGED <<ring, intact>>
    BY <1>12
       DEF Work, Leave, Poll, Take, Nothing, ClearEvent, Mark, Test, Space, Verdict, Commit, Idle,
           Finally
  <2> QED BY <1>2, <1>3, <2>1
<1>13. ASSUME NEW s \in Open, NEW r \in Requests, Speak(s, r)
       PROVE  [Fifo!FifoNext]_(Fifo!fifoVars)
  <2>1. UNCHANGED <<ring, intact>>
    BY <1>13 DEF Speak
  <2> QED BY <1>2, <1>3, <2>1
<1>14. ASSUME NEW s \in Open,
              Interrupt(s) \/ SetEvent(s) \/ Flag(s) \/ EnterRollback(s) \/ Stop(s)
       PROVE  [Fifo!FifoNext]_(Fifo!fifoVars)
  <2>1. UNCHANGED <<ring, intact>>
    BY <1>14 DEF Interrupt, SetEvent, Flag, EnterRollback, Stop
  <2> QED BY <1>2, <1>3, <2>1
<1>15. CASE UNCHANGED vars
  <2>1. UNCHANGED <<ring, intact>>
    BY <1>15 DEF vars
  <2> QED BY <1>2, <1>3, <2>1
<1> QED
  BY <1>5, <1>7, <1>8, <1>9, <1>10, <1>11, <1>12, <1>13, <1>14, <1>15 DEF Next

(* Wrapping, dropping the oldest and rolling back neither lose, repeat nor *)
(* reorder the samples to come, for every size of the ring and every       *)
(* length of audio, until a rollback overtakes the reader.                 *)
THEOREM FifoImplemented == Spec => ImplementsFifo
<1>1. Init => Fifo!FifoInit
  <2> SUFFICES ASSUME Init
               PROVE  Fifo!FifoInit
    OBVIOUS
  <2>1. count = 0 /\ intact = TRUE
    BY DEF Init
  <2>2. Buffered = <<>>
    BY <2>1 DEF Buffered
  <2> QED BY <2>1, <2>2 DEF Fifo!FifoInit
<1>2. EngineInv /\ [Next]_vars => [Fifo!FifoNext]_(Fifo!fifoVars)
  BY RingIsQueue
<1> QED BY <1>1, <1>2, EngineInvKept, PTL DEF Spec, ImplementsFifo, Fifo!FifoSpec
=============================================================================
