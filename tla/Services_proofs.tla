-------------------------- MODULE Services_proofs --------------------------
(***************************************************************************)
(* Seven of the services, each for every value of its constants: the tool  *)
(* rate limiter of the TypeScript server, and of the Python library the    *)
(* speaker database, the token bucket, the batch, the bridge to a screen   *)
(* reader, the quality monitor's alerts and the spatial graph.             *)
(***************************************************************************)
EXTENDS RateLimiter, VoiceLibraries, AuditAndRateLimit, SequenceTheorems, FiniteSetTheorems, TLAPS

(***************************************************************************)
(* The rate limiter keeps its window, and refuses no call it need not, for *)
(* every maxCalls, windowMs and history.                                   *)
(*                                                                         *)
(* The bucket is a suffix of the history of admitted calls, and what was   *)
(* dropped before it is older than the window; this is what an admission   *)
(* and a refusal are justified by.                                         *)
(***************************************************************************)
\* The bucket holds the history from entry k + 1 on; entry k is out of the window.
SuffixFrom(k) ==
  /\ k + Len(timestamps) = Len(admitted)
  /\ \A i \in 1..Len(timestamps) : timestamps[i] = admitted[k + i]
  /\ k > 0 => admitted[k] <= now - WindowMs

\* Times of admission never decrease.
Ordered ==
  /\ \A i \in 1..Len(admitted) : admitted[i] <= now
  /\ \A i, j \in 1..Len(admitted) : i <= j => admitted[i] <= admitted[j]

WindowInv ==
  /\ TypeOK
  /\ Ordered
  /\ \E k \in Nat : SuffixFrom(k)
  /\ WindowBound
  /\ RefusedWhenFull

\* A suffix of a sequence.
LEMMA Suffix ==
  ASSUME NEW s \in Seq(Nat), NEW e \in 0..Len(s)
  PROVE  /\ SubSeq(s, e + 1, Len(s)) \in Seq(Nat)
         /\ Len(SubSeq(s, e + 1, Len(s))) = Len(s) - e
         /\ \A i \in 1..Len(s) - e : SubSeq(s, e + 1, Len(s))[i] = s[e + i]
<1> DEFINE n == Len(s)
           t == SubSeq(s, e + 1, n)
<1>1. n \in Nat /\ e \in 0..n
  BY LenProperties
<1>2. \A i \in e + 1 .. n : s[i] \in Nat
  BY <1>1, ElementOfSeq
<1>3. /\ t \in Seq(Nat)
      /\ Len(t) = IF e + 1 <= n THEN n - (e + 1) + 1 ELSE 0
      /\ \A i \in 1 .. n - (e + 1) + 1 : t[i] = s[e + 1 + i - 1]
  BY <1>1, <1>2, SubSeqProperties
<1> HIDE DEF t, n
<1>4. Len(t) = n - e
  <2>1. CASE e + 1 <= n
    BY <1>1, <1>3, <2>1
  <2>2. CASE ~(e + 1 <= n)
    BY <1>1, <1>3, <2>2
  <2> QED BY <2>1, <2>2
<1>5. \A i \in 1..n - e : t[i] = s[e + i]
  <2> SUFFICES ASSUME NEW i \in 1..n - e
               PROVE  t[i] = s[e + i]
    OBVIOUS
  <2>1. i \in 1 .. n - (e + 1) + 1 /\ e + 1 + i - 1 = e + i
    BY <1>1
  <2> QED BY <1>3, <2>1
<1> QED BY <1>3, <1>4, <1>5 DEF t, n

\* Pruning drops a part of the history that is out of the window.
LEMMA Pruning ==
  ASSUME TypeOK, NEW k \in Nat, SuffixFrom(k),
         NEW e \in 0..Len(timestamps), Expired(e)
  PROVE  /\ Rest(e) \in Seq(Nat)
         /\ Len(Rest(e)) = Len(timestamps) - e
         /\ k + e + Len(Rest(e)) = Len(admitted)
         /\ \A i \in 1..Len(Rest(e)) : Rest(e)[i] = admitted[k + e + i]
         /\ k + e > 0 => admitted[k + e] <= now - WindowMs
<1> DEFINE n == Len(timestamps)
           m == Len(admitted)
           r == Rest(e)
<1>1. n \in Nat /\ m \in Nat /\ e \in 0..n
  BY LenProperties DEF TypeOK
<1>2. r \in Seq(Nat) /\ Len(r) = n - e /\ \A i \in 1..n - e : r[i] = timestamps[e + i]
  BY Suffix DEF Rest, TypeOK
<1>3. /\ k + n = m
      /\ \A i \in 1..n : timestamps[i] = admitted[k + i]
      /\ k > 0 => admitted[k] <= now - WindowMs
  BY DEF SuffixFrom
<1>4. \A i \in 1..e : timestamps[i] <= now - WindowMs
  BY DEF Expired
<1> HIDE DEF n, m, r
<1>5. k + e + Len(r) = m
  BY <1>1, <1>2, <1>3
<1>6. \A i \in 1..Len(r) : r[i] = admitted[k + e + i]
  <2> SUFFICES ASSUME NEW i \in 1..n - e
               PROVE  r[i] = admitted[k + e + i]
    BY <1>2
  <2>1. e + i \in 1..n /\ k + (e + i) = k + e + i
    BY <1>1
  <2> QED BY <1>2, <1>3, <2>1
<1>7. k + e > 0 => admitted[k + e] <= now - WindowMs
  <2>1. CASE e = 0
    BY <1>3, <2>1
  <2>2. CASE e > 0
    <3>1. e \in 1..n /\ e \in 1..e
      BY <1>1, <2>2
    <3>2. timestamps[e] = admitted[k + e] /\ timestamps[e] <= now - WindowMs
      BY <1>3, <1>4, <3>1
    <3> QED BY <3>2
  <2> QED BY <1>1, <2>1, <2>2
<1> QED BY <1>2, <1>5, <1>6, <1>7 DEF n, m, r

\* An admission keeps the window: the call that is MaxCalls admissions back was
\* dropped from the bucket.
LEMMA AdmitStep ==
  ASSUME WindowInv, Admit
  PROVE  WindowInv'
<1>1. PICK k \in Nat : SuffixFrom(k)
  BY DEF WindowInv
<1>2. PICK e \in 0..Len(timestamps) :
        /\ Expired(e)
        /\ Len(timestamps) - e < MaxCalls
        /\ timestamps' = Append(Rest(e), now)
        /\ admitted' = Append(admitted, now)
        /\ refused' = FALSE /\ now' = now
  BY DEF Admit
<1> DEFINE m == Len(admitted)
           a == admitted
           b == admitted'
           r == Rest(e)
           l == Len(r)
           t == timestamps'
<1>3. /\ r \in Seq(Nat) /\ l < MaxCalls /\ k + e + l = m
      /\ \A i \in 1..l : r[i] = a[k + e + i]
      /\ k + e > 0 => a[k + e] <= now - WindowMs
  BY <1>1, <1>2, Pruning DEF WindowInv
<1>4. /\ m \in Nat /\ l \in Nat /\ k + e \in Nat /\ now \in Nat
      /\ \A i \in 1..m : a[i] \in Nat /\ a[i] <= now
      /\ \A i, j \in 1..m : i <= j => a[i] <= a[j]
      /\ \A i \in 1..m : i + MaxCalls <= m => a[i + MaxCalls] - a[i] >= WindowMs
  <2>1. m \in Nat /\ l \in Nat /\ k + e \in Nat
    BY <1>3, LenProperties DEF WindowInv, TypeOK
  <2>2. now \in Nat /\ \A i \in 1..m : a[i] \in Nat
    BY <2>1, ElementOfSeq DEF WindowInv, TypeOK
  <2> QED BY <2>1, <2>2 DEF WindowInv, Ordered, WindowBound
<1>5. /\ b \in Seq(Nat) /\ Len(b) = m + 1 /\ b[m + 1] = now
      /\ \A i \in 1..m : b[i] = a[i]
  BY <1>2, <1>4, AppendProperties DEF WindowInv, TypeOK
<1>6. /\ t \in Seq(Nat) /\ Len(t) = l + 1 /\ t[l + 1] = now
      /\ \A i \in 1..l : t[i] = r[i]
  BY <1>2, <1>3, <1>4, AppendProperties
<1>7. MaxCalls \in Nat /\ MaxCalls > 0 /\ WindowMs \in Nat
  BY MaxCallsAssumption, WindowAssumption
<1> DEFINE c == k + e
<1>8. c \in Nat /\ c + l = m
  BY <1>3, <1>4
<1>9. \A i \in 1..l : t[i] = b[c + i]
  <2> SUFFICES ASSUME NEW i \in 1..l
               PROVE  t[i] = b[c + i]
    OBVIOUS
  <2>1. c + i \in 1..m
    BY <1>4, <1>8
  <2> QED BY <1>3, <1>5, <1>6, <2>1
<1>10. c > 0 => b[c] <= now - WindowMs
  <2>1. c > 0 => c \in 1..m
    BY <1>4, <1>8
  <2> QED BY <1>3, <1>5, <2>1
<1> HIDE DEF m, a, b, r, l, t, c
<1>11. \A i \in 1..m + 1 : b[i] \in Nat /\ b[i] <= now
  BY <1>4, <1>5
<1>12. \A i, j \in 1..m + 1 : i <= j => b[i] <= b[j]
  BY <1>4, <1>5
<1>13. \A i \in 1..m + 1 : i + MaxCalls <= m + 1 => b[i + MaxCalls] - b[i] >= WindowMs
  <2> SUFFICES ASSUME NEW i \in 1..m + 1, i + MaxCalls <= m + 1
               PROVE  b[i + MaxCalls] - b[i] >= WindowMs
    OBVIOUS
  <2>1. CASE i + MaxCalls <= m
    <3>1. i \in 1..m /\ i + MaxCalls \in 1..m
      BY <1>4, <1>7, <2>1
    <3> QED BY <1>4, <1>5, <2>1, <3>1
  <2>2. CASE i + MaxCalls = m + 1
    <3>1. i \in 1..m /\ c \in 1..m /\ i <= c
      BY <1>3, <1>4, <1>7, <1>8, <2>2 DEF l
    <3>2. b[i] <= b[c] /\ b[c] <= now - WindowMs /\ b[i] \in Nat /\ b[c] \in Nat
      BY <1>4, <1>10, <1>11, <1>12, <3>1
    <3>3. b[i + MaxCalls] = now
      BY <1>5, <2>2
    <3> QED BY <1>4, <1>7, <3>2, <3>3
  <2> QED BY <1>4, <1>7, <2>1, <2>2
<1>14. SuffixFrom(c)'
  <2>1. c + (l + 1) = m + 1
    BY <1>4, <1>8
  <2>2. \A i \in 1..l + 1 : t[i] = b[c + i]
    <3> SUFFICES ASSUME NEW i \in 1..l + 1
                 PROVE  t[i] = b[c + i]
      OBVIOUS
    <3>1. CASE i \in 1..l
      BY <1>9, <3>1
    <3>2. CASE i = l + 1
      BY <1>5, <1>6, <1>4, <1>8, <2>1, <3>2
    <3> QED BY <1>4, <3>1, <3>2
  <2>3. SuffixFrom(c)' = (/\ c + Len(t) = Len(b)
                          /\ \A i \in 1..Len(t) : t[i] = b[c + i]
                          /\ c > 0 => b[c] <= now' - WindowMs)
    BY DEF SuffixFrom, b, t, c
  <2> QED BY <1>2, <1>5, <1>6, <1>10, <2>1, <2>2, <2>3
<1>15. Ordered'
  BY <1>2, <1>5, <1>11, <1>12 DEF Ordered, b
<1>16. WindowBound'
  BY <1>5, <1>13 DEF WindowBound, b
<1>17. TypeOK'
  <2>1. l + 1 <= MaxCalls
    BY <1>3, <1>4, <1>7 DEF l
  <2>2. refused' \in BOOLEAN
    BY <1>2
  <2> QED BY <1>2, <1>4, <1>5, <1>6, <2>1, <2>2 DEF TypeOK, b, t
<1>18. RefusedWhenFull'
  BY <1>2 DEF RefusedWhenFull
<1> QED BY <1>8, <1>14, <1>15, <1>16, <1>17, <1>18 DEF WindowInv

\* A refusal drops nothing from the bucket, which is full.
LEMMA RefuseStep ==
  ASSUME WindowInv, Refuse
  PROVE  WindowInv'
<1>1. PICK k \in Nat : SuffixFrom(k)
  BY DEF WindowInv
<1>2. PICK e \in 0..Len(timestamps) :
        /\ Expired(e)
        /\ Len(timestamps) - e >= MaxCalls
        /\ timestamps' = Rest(e)
        /\ refused' = TRUE /\ UNCHANGED <<now, admitted>>
  BY DEF Refuse
<1> DEFINE n == Len(timestamps)
           m == Len(admitted)
<1>3. n \in Nat /\ m \in Nat /\ k + n = m /\ n <= MaxCalls /\ MaxCalls \in Nat \ {0}
  BY <1>1, LenProperties, MaxCallsAssumption DEF WindowInv, TypeOK, SuffixFrom
<1>4. e \in 0..n /\ n - e >= MaxCalls
  BY <1>2
<1> HIDE DEF n, m
<1>5. e = 0 /\ n = MaxCalls /\ m - MaxCalls + 1 = k + 1 /\ m >= MaxCalls
  BY <1>3, <1>4
<1>6. timestamps[1] > now - WindowMs /\ timestamps[1] = admitted[k + 1]
  <2>1. 0 < n /\ 1 \in 1..n
    BY <1>3, <1>5
  <2>2. timestamps[0 + 1] > now - WindowMs
    BY <1>2, <1>5, <2>1 DEF Expired, n
  <2> QED BY <1>1, <2>1, <2>2 DEF SuffixFrom, n
<1>7. RefusedWhenFull'
  BY <1>2, <1>5, <1>6 DEF RefusedWhenFull, m
<1>8. timestamps' = timestamps
  <2>1. timestamps' \in Seq(Nat) /\ Len(timestamps') = n
        /\ \A i \in 1..n : timestamps'[i] = timestamps[i]
    <3>1. /\ Rest(0) \in Seq(Nat) /\ Len(Rest(0)) = n - 0
          /\ \A i \in 1..n - 0 : Rest(0)[i] = timestamps[0 + i]
      BY <1>3, Suffix DEF Rest, n, WindowInv, TypeOK
    <3> QED BY <1>2, <1>3, <1>5, <3>1
  <2> QED BY <2>1, SeqEqual DEF n, WindowInv, TypeOK
<1> QED BY <1>2, <1>7, <1>8
        DEF WindowInv, TypeOK, Ordered, WindowBound, SuffixFrom

\* The clock moves on, the bucket stays.
LEMMA TickStep ==
  ASSUME WindowInv, Tick
  PROVE  WindowInv'
<1>1. PICK k \in Nat : SuffixFrom(k)
  BY DEF WindowInv
<1>2. now \in Nat /\ now' \in Nat /\ now' > now /\ WindowMs \in Nat
  BY BoundsAssumption, WindowAssumption DEF Tick, WindowInv, TypeOK
<1>3. refused' = FALSE /\ timestamps' = timestamps /\ admitted' = admitted
  BY DEF Tick
<1>4. \A i \in 1..Len(admitted) : admitted[i] \in Nat
  BY ElementOfSeq DEF WindowInv, TypeOK
<1>5. Ordered'
  BY <1>2, <1>3, <1>4 DEF WindowInv, Ordered
<1>6. SuffixFrom(k)'
  <2>1. k > 0 => admitted[k] \in Nat /\ admitted[k] <= now - WindowMs
    <3> DEFINE n == Len(timestamps)
               m == Len(admitted)
    <3>1. n \in Nat /\ m \in Nat /\ k + n = m
      BY <1>1, LenProperties DEF WindowInv, TypeOK, SuffixFrom
    <3> HIDE DEF n, m
    <3>2. k > 0 => k \in 1..m
      BY <3>1
    <3> QED BY <1>1, <1>4, <3>2 DEF SuffixFrom, m
  <2>2. k > 0 => admitted[k] <= now' - WindowMs
    BY <1>2, <2>1
  <2> QED BY <1>1, <1>3, <2>2 DEF SuffixFrom
<1>7. TypeOK' /\ WindowBound' /\ RefusedWhenFull'
  BY <1>2, <1>3 DEF WindowInv, TypeOK, WindowBound, RefusedWhenFull
<1> QED BY <1>5, <1>6, <1>7 DEF WindowInv

LEMMA WindowStep ==
  ASSUME WindowInv, [Next]_vars
  PROVE  WindowInv'
<1>1. CASE UNCHANGED vars
  BY <1>1 DEF vars, WindowInv, TypeOK, Ordered, SuffixFrom, WindowBound, RefusedWhenFull
<1> QED BY <1>1, AdmitStep, RefuseStep, TickStep DEF Next

LEMMA WindowInit ==
  ASSUME Init
  PROVE  WindowInv
<1>1. /\ now = 0 /\ timestamps \in Seq(Nat) /\ Len(timestamps) = 0
      /\ admitted \in Seq(Nat) /\ Len(admitted) = 0
  BY DEF Init
<1>2. refused = FALSE
  BY DEF Init
<1>3. TypeOK
  <2>1. refused \in BOOLEAN
    BY <1>2
  <2>2. now \in Nat /\ Len(timestamps) <= MaxCalls
    BY <1>1, MaxCallsAssumption
  <2> QED BY <1>1, <2>1, <2>2 DEF TypeOK
<1>4. Ordered /\ WindowBound /\ RefusedWhenFull
  BY <1>1, <1>2 DEF Ordered, WindowBound, RefusedWhenFull
<1>5. SuffixFrom(0)
  BY <1>1 DEF SuffixFrom
<1> QED BY <1>3, <1>4, <1>5 DEF WindowInv

\* The limiter's state is well formed; the bucket never outgrows maxCalls.
THEOREM LimiterTypeCorrect == Spec => []TypeOK
<1>1. WindowInv => TypeOK
  BY DEF WindowInv
<1> QED BY <1>1, WindowInit, WindowStep, PTL DEF Spec

\* ToolRateLimiter.check(): no window holds more than maxCalls admitted calls.
THEOREM WindowKept == Spec => []WindowBound
<1>1. WindowInv => WindowBound
  BY DEF WindowInv
<1> QED BY <1>1, WindowInit, WindowStep, PTL DEF Spec

\* ToolRateLimiter.check(): a refusal means that the last window is full.
THEOREM RefusalJustified == Spec => []RefusedWhenFull
<1>1. WindowInv => RefusedWhenFull
  BY DEF WindowInv
<1> QED BY <1>1, WindowInit, WindowStep, PTL DEF Spec

\* ToolRateLimiter.check(): it admits what the window has room for, and nothing else.
THEOREM LimiterExact == Spec => []WindowExact
<1>1. WindowBound /\ RefusedWhenFull => WindowExact
  BY DEF WindowExact
<1> QED BY <1>1, WindowKept, RefusalJustified, PTL

(***************************************************************************)
(* The speaker database. What is unsure is what an operation cut short     *)
(* and what one is at; everything else agrees in the four places that      *)
(* know of it: the files, the index, the memories and the history.         *)
(***************************************************************************)
\* What the model takes the names to be: "A " is a spelling of a valid one.
SpeakerConfig == "a" \in Speakers /\ MaxSaves \in Nat

Places == {"idle", "dump", "index", "drop", "save"}

OpTyped ==
  /\ op.pc \in Places
  /\ op.pc = "idle" => op = Idle
  /\ op.pc # "idle" => /\ op.db \in Dbs /\ op.name \in Speakers
                       /\ op = [pc |-> op.pc, db |-> op.db, name |-> op.name]

IndexTyped ==
  /\ index = [torn |-> index.torn, names |-> index.names]
  /\ index.torn \in BOOLEAN /\ index.names \in SUBSET Speakers

Typed ==
  /\ OpTyped /\ IndexTyped
  /\ files \in [Speakers -> 0..Torn] /\ memory \in [Dbs -> SUBSET Speakers]
  /\ saves \in 0..MaxSaves /\ confirmed \in [Speakers -> 0..MaxSaves]
  /\ broken \in SUBSET Speakers /\ stale \in SUBSET Dbs /\ forgotten \in BOOLEAN

\* What the operation that goes on has done.
OpDone ==
  /\ op.pc = "dump" => saves < MaxSaves
  /\ op.pc = "index" => files[op.name] \in 1..MaxSaves
  /\ op.pc = "drop" => files[op.name] = 0
  /\ op.pc = "save" => /\ files[op.name] \in 0..MaxSaves
                       /\ op.name \in memory[op.db] <=> files[op.name] # 0

Unsure == broken \cup {n \in Speakers : op.pc # "idle" /\ n = op.name}
Confirmed == {n \in Speakers : confirmed[n] # 0}

FilesAgree == \A n \in Speakers \ Unsure : files[n] = confirmed[n]

\* Until something was forgotten, who is not stale knows what was confirmed.
IndexAgrees ==
  ~forgotten =>
    /\ index.torn => op.pc = "save"
    /\ ~index.torn => index.names \ Unsure = Confirmed \ Unsure
    /\ \A d \in Dbs \ stale : memory[d] \ Unsure = Confirmed \ Unsure

SpeakerInv == Typed /\ OpDone /\ FilesAgree /\ IndexAgrees

LEMMA IdleOp == Idle.pc = "idle"
BY Zenon DEF Idle

LEMMA NormalizedIsValid ==
  ASSUME SpeakerConfig, NEW raw, Normalized(raw) # ""
  PROVE  Normalized(raw) \in Speakers
BY Zenon DEF SpeakerConfig, Normalized

LEMMA SpeakerInvInit ==
  ASSUME SpeakerConfig, SpeakerInit
  PROVE  SpeakerInv
<1> USE IdleOp DEF SpeakerConfig, SpeakerInit, Whole
<1>1. Typed
  <2>1. OpTyped
    BY DEF OpTyped, Places
  <2>2. index = [torn |-> FALSE, names |-> {}]
    OBVIOUS
  <2>3. index.torn = FALSE /\ index.names = {}
    BY <2>2
  <2>4. IndexTyped
    BY <2>2, <2>3 DEF IndexTyped
  <2>5. 0 \in 0..Torn /\ 0 \in 0..MaxSaves /\ {} \in SUBSET Speakers
    BY DEF Torn
  <2> QED BY <2>1, <2>4, <2>5 DEF Typed
<1>2. OpDone /\ FilesAgree
  BY DEF OpDone, FilesAgree
<1>3. IndexAgrees
  BY DEF IndexAgrees, Confirmed
<1> QED BY <1>1, <1>2, <1>3 DEF SpeakerInv

LEMMA AddKeeps ==
  ASSUME SpeakerConfig, SpeakerInv, NEW d \in Dbs, NEW raw, NEW overwrite, Add(d, raw, overwrite)
  PROVE  SpeakerInv'
<1> DEFINE n == Normalized(raw)
<1>1. n \in Speakers /\ saves < MaxSaves
  BY Zenon, NormalizedIsValid DEF Add
<1>2. /\ op.pc = "idle" /\ op' = [pc |-> "dump", db |-> d, name |-> n]
      /\ files' = [files EXCEPT ![n] = Torn]
      /\ UNCHANGED <<index, memory, saves, confirmed, broken, stale, forgotten>>
  BY Zenon DEF Add, Begin
<1> HIDE DEF n
<1>3. op'.pc = "dump" /\ op'.db = d /\ op'.name = n /\ Unsure' = Unsure \cup {n}
  BY <1>1, <1>2 DEF Unsure
<1>4. Typed'
  BY <1>1, <1>2, <1>3 DEF SpeakerInv, Typed, OpTyped, IndexTyped, Places, Torn, SpeakerConfig
<1>5. OpDone' /\ FilesAgree'
  BY <1>1, <1>2, <1>3 DEF SpeakerInv, Typed, OpDone, FilesAgree
<1>6. IndexAgrees'
  BY <1>1, <1>2, <1>3 DEF SpeakerInv, IndexAgrees, Confirmed
<1> QED BY <1>4, <1>5, <1>6 DEF SpeakerInv

LEMMA DumpKeeps ==
  ASSUME SpeakerConfig, SpeakerInv, DumpEmbedding
  PROVE  SpeakerInv'
<1>1. /\ op.pc = "dump" /\ op' = [op EXCEPT !.pc = "index"]
      /\ saves' = saves + 1 /\ files' = [files EXCEPT ![op.name] = saves + 1]
      /\ UNCHANGED <<index, memory, confirmed, broken, stale, forgotten>>
  BY DEF DumpEmbedding
<1>2. op'.pc = "index" /\ op'.db = op.db /\ op'.name = op.name /\ op.name \in Speakers
      /\ op' = [pc |-> "index", db |-> op.db, name |-> op.name] /\ op.db \in Dbs
  BY <1>1 DEF SpeakerInv, Typed, OpTyped
<1>3. saves + 1 \in 1..MaxSaves /\ Unsure' = Unsure
  BY <1>1, <1>2 DEF SpeakerInv, Typed, OpDone, Unsure, SpeakerConfig
<1>4. Typed'
  BY <1>1, <1>2, <1>3 DEF SpeakerInv, Typed, OpTyped, IndexTyped, Places, Torn, SpeakerConfig
<1>5. OpDone' /\ FilesAgree'
  BY <1>1, <1>2, <1>3 DEF SpeakerInv, Typed, OpDone, FilesAgree, Unsure
<1>6. IndexAgrees'
  BY <1>1, <1>2, <1>3 DEF SpeakerInv, IndexAgrees, Confirmed
<1> QED BY <1>4, <1>5, <1>6 DEF SpeakerInv

LEMMA RaiseKeeps ==
  ASSUME SpeakerConfig, SpeakerInv, DumpRaises
  PROVE  SpeakerInv'
<1>1. /\ op.pc = "dump" /\ op' = Idle /\ broken' = broken \cup {op.name}
      /\ UNCHANGED <<files, index, memory, saves, confirmed, stale, forgotten>>
  BY DEF DumpRaises
<1>2. op'.pc = "idle" /\ op.name \in Speakers /\ Unsure' = Unsure
  BY <1>1, IdleOp DEF SpeakerInv, Typed, OpTyped, Unsure
<1>3. Typed'
  BY <1>1, <1>2 DEF SpeakerInv, Typed, OpTyped, IndexTyped, Places, Torn, SpeakerConfig
<1>4. OpDone' /\ FilesAgree'
  BY <1>1, <1>2 DEF SpeakerInv, OpDone, FilesAgree
<1>5. IndexAgrees'
  BY <1>1, <1>2 DEF SpeakerInv, IndexAgrees, Confirmed
<1> QED BY <1>3, <1>4, <1>5 DEF SpeakerInv

LEMMA AddEntryKeeps ==
  ASSUME SpeakerConfig, SpeakerInv, AddEntry
  PROVE  SpeakerInv'
<1>1. /\ op.pc = "index" /\ op' = [op EXCEPT !.pc = "save"]
      /\ memory' = [memory EXCEPT ![op.db] = @ \cup {op.name}]
      /\ index' = [torn |-> TRUE, names |-> {}]
      /\ UNCHANGED <<files, saves, confirmed, broken, stale, forgotten>>
  BY DEF AddEntry
<1>2. op'.pc = "save" /\ op'.db = op.db /\ op'.name = op.name /\ op.name \in Speakers
      /\ op' = [pc |-> "save", db |-> op.db, name |-> op.name] /\ op.db \in Dbs
  BY <1>1 DEF SpeakerInv, Typed, OpTyped
<1>3. Unsure' = Unsure /\ op.name \in Unsure
  BY <1>1, <1>2 DEF Unsure
<1>4. Typed'
  BY <1>1, <1>2 DEF SpeakerInv, Typed, OpTyped, IndexTyped, Places, Torn, SpeakerConfig
<1>5. OpDone' /\ FilesAgree'
  BY <1>1, <1>2, <1>3 DEF SpeakerInv, Typed, OpDone, FilesAgree
<1>6. IndexAgrees'
  BY <1>1, <1>2, <1>3 DEF SpeakerInv, Typed, IndexAgrees, Confirmed
<1> QED BY <1>4, <1>5, <1>6 DEF SpeakerInv

LEMMA RemoveKeeps ==
  ASSUME SpeakerConfig, SpeakerInv, NEW d \in Dbs, NEW raw, RemoveSpeaker(d, raw)
  PROVE  SpeakerInv'
<1>1. /\ raw \in memory[d] /\ op.pc = "idle" /\ op' = [pc |-> "drop", db |-> d, name |-> raw]
      /\ files' = [files EXCEPT ![raw] = 0]
      /\ UNCHANGED <<index, memory, saves, confirmed, broken, stale, forgotten>>
  BY DEF RemoveSpeaker, Begin
<1>2. raw \in Speakers
  BY <1>1 DEF SpeakerInv, Typed
<1>3. op'.pc = "drop" /\ op'.db = d /\ op'.name = raw /\ Unsure' = Unsure \cup {raw}
  BY <1>1, <1>2 DEF Unsure
<1>4. Typed'
  BY <1>1, <1>2, <1>3 DEF SpeakerInv, Typed, OpTyped, IndexTyped, Places, Torn, SpeakerConfig
<1>5. OpDone' /\ FilesAgree'
  BY <1>1, <1>2, <1>3 DEF SpeakerInv, Typed, OpDone, FilesAgree
<1>6. IndexAgrees'
  BY <1>1, <1>2, <1>3 DEF SpeakerInv, IndexAgrees, Confirmed
<1> QED BY <1>4, <1>5, <1>6 DEF SpeakerInv

LEMMA DropKeeps ==
  ASSUME SpeakerConfig, SpeakerInv, DropEntry
  PROVE  SpeakerInv'
<1>1. /\ op.pc = "drop" /\ op' = [op EXCEPT !.pc = "save"]
      /\ memory' = [memory EXCEPT ![op.db] = @ \ {op.name}]
      /\ index' = [torn |-> TRUE, names |-> {}]
      /\ UNCHANGED <<files, saves, confirmed, broken, stale, forgotten>>
  BY DEF DropEntry
<1>2. op'.pc = "save" /\ op'.db = op.db /\ op'.name = op.name /\ op.name \in Speakers
      /\ op' = [pc |-> "save", db |-> op.db, name |-> op.name] /\ op.db \in Dbs
  BY <1>1 DEF SpeakerInv, Typed, OpTyped
<1>3. Unsure' = Unsure /\ op.name \in Unsure
  BY <1>1, <1>2 DEF Unsure
<1>4. Typed'
  BY <1>1, <1>2 DEF SpeakerInv, Typed, OpTyped, IndexTyped, Places, Torn, SpeakerConfig
<1>5. OpDone' /\ FilesAgree'
  BY <1>1, <1>2, <1>3 DEF SpeakerInv, Typed, OpDone, FilesAgree, SpeakerConfig
<1>6. IndexAgrees'
  BY <1>1, <1>2, <1>3 DEF SpeakerInv, Typed, IndexAgrees, Confirmed
<1> QED BY <1>4, <1>5, <1>6 DEF SpeakerInv

LEMMA SaveKeeps ==
  ASSUME SpeakerConfig, SpeakerInv, SaveIndex
  PROVE  SpeakerInv'
<1>1. /\ op.pc = "save" /\ op' = Idle
      /\ index' = [torn |-> FALSE, names |-> memory[op.db]]
      /\ confirmed' = [confirmed EXCEPT ![op.name] = files[op.name]]
      /\ broken' = broken \ {op.name}
      /\ stale' = stale \cup (Dbs \ {op.db})
      /\ forgotten' = (forgotten \/ op.db \in stale)
      /\ UNCHANGED <<files, memory, saves>>
  BY DEF SaveIndex, Whole
<1>2. op'.pc = "idle" /\ op.name \in Speakers /\ op.db \in Dbs /\ Unsure' = Unsure \ {op.name}
  BY <1>1, IdleOp DEF SpeakerInv, Typed, OpTyped, Unsure
<1>3. files[op.name] \in 0..MaxSaves /\ (op.name \in memory[op.db] <=> files[op.name] # 0)
  BY <1>1 DEF SpeakerInv, OpDone
<1>4. Typed'
  BY <1>1, <1>2, <1>3 DEF SpeakerInv, Typed, OpTyped, IndexTyped, Places, Torn, SpeakerConfig
<1>5. OpDone' /\ FilesAgree'
  BY <1>1, <1>2, <1>3 DEF SpeakerInv, Typed, OpDone, FilesAgree
<1>6. Confirmed' \ {op.name} = Confirmed \ {op.name} /\ (op.name \in Confirmed' <=> files[op.name] # 0)
  BY <1>1, <1>2 DEF SpeakerInv, Typed, Confirmed
<1>7. IndexAgrees'
  <2> SUFFICES ASSUME ~forgotten' PROVE memory[op.db] \ Unsure' = Confirmed' \ Unsure'
    BY <1>1, <1>2 DEF IndexAgrees
  <2>1. memory[op.db] \ Unsure = Confirmed \ Unsure
    BY <1>1, <1>2 DEF SpeakerInv, IndexAgrees
  <2> QED BY <1>2, <1>3, <1>6, <2>1
<1> QED BY <1>4, <1>5, <1>7 DEF SpeakerInv

LEMMA OpenKeeps ==
  ASSUME SpeakerConfig, SpeakerInv, NEW d \in Dbs, Open(d)
  PROVE  SpeakerInv'
<1>1. /\ op.pc = "idle" /\ memory' = [memory EXCEPT ![d] = Loaded] /\ stale' = stale \ {d}
      /\ forgotten' = (forgotten \/ index.torn)
      /\ UNCHANGED <<files, index, op, saves, confirmed, broken>>
  BY DEF Open
<1>2. Unsure' = Unsure /\ Loaded \in SUBSET Speakers /\ (~index.torn => Loaded = index.names)
  BY <1>1 DEF SpeakerInv, Typed, IndexTyped, Loaded, Unsure
<1>3. Typed'
  BY <1>1, <1>2 DEF SpeakerInv, Typed, OpTyped, IndexTyped
<1>4. OpDone' /\ FilesAgree'
  BY <1>1, <1>2 DEF SpeakerInv, OpDone, FilesAgree
<1>5. IndexAgrees'
  BY <1>1, <1>2 DEF SpeakerInv, Typed, IndexAgrees, Confirmed
<1> QED BY <1>3, <1>4, <1>5 DEF SpeakerInv

LEMMA CrashKeeps ==
  ASSUME SpeakerConfig, SpeakerInv, Crash
  PROVE  SpeakerInv'
<1>1. /\ memory' = [d \in Dbs |-> Loaded] /\ stale' = {} /\ op' = Idle
      /\ broken' = broken \cup (IF op.pc = "idle" THEN {} ELSE {op.name})
      /\ forgotten' = (forgotten \/ index.torn)
      /\ UNCHANGED <<files, index, saves, confirmed>>
  BY DEF Crash
<1>2. op'.pc = "idle" /\ Loaded \in SUBSET Speakers /\ (~index.torn => Loaded = index.names)
  BY <1>1, IdleOp DEF SpeakerInv, Typed, IndexTyped, Loaded
<1>3. Unsure' = Unsure /\ broken' \in SUBSET Speakers
  BY <1>1, <1>2 DEF SpeakerInv, Typed, OpTyped, Unsure
<1>4. Typed'
  BY <1>1, <1>2, <1>3 DEF SpeakerInv, Typed, OpTyped, IndexTyped, Places
<1>5. OpDone' /\ FilesAgree'
  BY <1>1, <1>2, <1>3 DEF SpeakerInv, OpDone, FilesAgree
<1>6. IndexAgrees'
  BY <1>1, <1>2, <1>3 DEF SpeakerInv, IndexAgrees, Confirmed
<1> QED BY <1>4, <1>5, <1>6 DEF SpeakerInv

LEMMA SpeakerInvNext ==
  ASSUME SpeakerConfig, SpeakerInv, [SpeakerNext]_storeVars
  PROVE  SpeakerInv'
<1>1. CASE \E d \in Dbs : \E raw \in Raws : \/ \E overwrite \in BOOLEAN : Add(d, raw, overwrite)
                                            \/ RemoveSpeaker(d, raw)
  BY <1>1, AddKeeps, RemoveKeeps
<1>2. CASE \E d \in Dbs : Open(d)
  BY <1>2, OpenKeeps
<1>3. CASE DumpEmbedding \/ DumpRaises \/ AddEntry \/ DropEntry \/ SaveIndex \/ Crash
  BY <1>3, DumpKeeps, RaiseKeeps, AddEntryKeeps, DropKeeps, SaveKeeps, CrashKeeps
<1>4. CASE UNCHANGED storeVars
  BY <1>4 DEF storeVars, SpeakerInv, Typed, OpTyped, IndexTyped, OpDone, FilesAgree, IndexAgrees,
              Unsure, Confirmed
<1> QED BY <1>1, <1>2, <1>3, <1>4 DEF SpeakerNext

LEMMA SpeakerInvKept == ASSUME SpeakerConfig PROVE SpeakerSpec => []SpeakerInv
<1>1. SpeakerInit => SpeakerInv
  BY SpeakerInvInit
<1>2. SpeakerInv /\ [SpeakerNext]_storeVars => SpeakerInv'
  BY SpeakerInvNext
<1> QED BY <1>1, <1>2, PTL DEF SpeakerSpec

\* The types of the database and of its directory (database.py, storage.py), for any number
\* of databases, names and saves.
THEOREM SpeakerTypesKept == ASSUME SpeakerConfig PROVE SpeakerSpec => []SpeakerTypeOK
<1>1. SpeakerInv => SpeakerTypeOK
  BY DEF SpeakerInv, Typed, OpTyped, IndexTyped, Places, SpeakerTypeOK
<1> QED BY <1>1, SpeakerInvKept, PTL

\* database.py, storage.py: whatever operation dies or raises half way, in whichever of the
\* databases over the directory, the embedding of every other speaker is the one that was
\* last saved.
THEOREM EmbeddingsKept == ASSUME SpeakerConfig PROVE SpeakerSpec => []EmbeddingsSurvive
<1>1. SpeakerInv => EmbeddingsSurvive
  BY DEF SpeakerInv, FilesAgree, Unsure, EmbeddingsSurvive
<1> QED BY <1>1, SpeakerInvKept, PTL

\* database.py: between operations the index has exactly the speakers that were added and not
\* removed, but for those whose operation was cut short, and whoever is not stale knows it,
\* until a stale database saved its own or a torn index was taken for an empty one.
THEOREM IndexRight == ASSUME SpeakerConfig PROVE SpeakerSpec => []IndexIsRight
<1>1. SpeakerInv => IndexIsRight
  BY DEF SpeakerInv, IndexAgrees, Unsure, Confirmed, IndexIsRight
<1> QED BY <1>1, SpeakerInvKept, PTL

(***************************************************************************)
(* The token bucket. While no refill overlaps another, one thread at most  *)
(* is between its refill's first access and its last, and what it has read *)
(* is what is still there; so tokens and admissions together are covered   *)
(* by the burst and the time up to the last refill.                        *)
(***************************************************************************)
\* A burst and a rate are no debts, and threads are numbered from 1 (Free is none of them).
BucketConfig == Capacity \in Nat /\ Rate \in Nat /\ EndTime \in Nat /\ MaxChecks \in Nat

Steps == {"idle", "refill", "read", "write", "stamp", "test", "take", "peek"}

Tasks == [pc : Steps, locked : BOOLEAN, elapsed : Nat, value : Int]

BucketTyped ==
  /\ time \in 0..EndTime /\ lastRefill \in 0..EndTime /\ made \in 0..EndTime
  /\ lastRefill <= time /\ made <= lastRefill
  /\ tokens \in Int /\ tokens <= Capacity /\ granted \in Nat /\ calls \in 0..MaxChecks
  /\ lock \in Threads \cup {Free} /\ raced \in BOOLEAN
  /\ thread \in [Threads -> Tasks]
  /\ \A t \in Threads : thread[t].pc \in {"test", "take"} => thread[t].locked

\* What the burst and the time up to the last refill allow, and up to now.
Covered(upTo) == tokens + granted <= Capacity + Rate * (upTo - made)

\* What the thread that is inside a refill knows.
Knows(t) ==
  /\ thread[t].pc \in {"read", "write"} => thread[t].elapsed = time - lastRefill
  /\ thread[t].pc = "write" => thread[t].value = tokens
  /\ thread[t].pc = "take" => tokens >= 1

BucketAgrees ==
  ~raced =>
    /\ tokens >= 0
    /\ \A t, u \in Refilling : t = u
    /\ \A t \in Threads : Knows(t)
    /\ Covered(IF \E t \in Threads : thread[t].pc = "stamp" THEN time ELSE lastRefill)

BucketInv == BucketTyped /\ BucketAgrees

\* What is allowed grows with the time.
LEMMA Grows ==
  ASSUME NEW r \in Nat, NEW a \in Int, NEW b \in Int, NEW c \in Int, a <= b
  PROVE  /\ r * (a - c) \in Int /\ r * (b - c) \in Int /\ r * (a - c) <= r * (b - c)
         /\ r * (b - c) = r * (a - c) + r * (b - a) /\ r * (b - a) >= 0
<1>1. r * (b - c) = r * ((a - c) + (b - a))
  BY Z3
<1>2. r * ((a - c) + (b - a)) = r * (a - c) + r * (b - a)
  BY Z3
<1>3. r * (b - a) >= 0
  BY Z3
<1> QED BY <1>1, <1>2, <1>3


Inside(p) == ~(p \in {"idle", "peek"})

\* Who is inside a refill without a race is there alone.
LEMMA Alone ==
  ASSUME BucketInv, ~raced, NEW t \in Threads, Inside(thread[t].pc),
         NEW u \in Threads, u # t
  PROVE  ~Inside(thread[u].pc)
BY DEF BucketInv, BucketAgrees, Refilling, Inside

LEMMA BucketInvInit ==
  ASSUME BucketConfig, BucketInit
  PROVE  BucketInv
<1>1. BucketTyped
  <2>1. [pc |-> "idle", locked |-> FALSE, elapsed |-> 0, value |-> 0] \in Tasks
    BY DEF Tasks, Steps
  <2>2. thread \in [Threads -> Tasks] /\ \A t \in Threads : thread[t].pc = "idle"
    BY <2>1 DEF BucketInit
  <2>3. 0 \in 0..EndTime /\ 0 \in 0..MaxChecks /\ Capacity \in Int /\ Capacity <= Capacity /\ 0 <= 0 /\ 0 \in Nat
    BY DEF BucketConfig
  <2> QED BY <2>2, <2>3 DEF BucketInit, BucketTyped
<1>2. \A t \in Threads : thread[t].pc = "idle"
  BY DEF BucketInit
<1>3. Covered(lastRefill)
  <2>1. Rate * (0 - 0) = 0
    BY Z3 DEF BucketConfig
  <2> QED BY <2>1 DEF BucketConfig, BucketInit, Covered
<1>4. tokens >= 0
  BY DEF BucketConfig, BucketInit
<1> QED BY <1>1, <1>2, <1>3, <1>4 DEF BucketInv, BucketAgrees, Refilling, Knows

\* A thread enters a refill: it is alone, or there is a race.
LEMMA EnterKeeps ==
  ASSUME BucketConfig, BucketInv, NEW t \in Threads, Acquire(t) \/ Peek(t)
  PROVE  BucketInv'
<1>1. /\ thread' = [thread EXCEPT ![t] = thread'[t]]
      /\ thread'[t].pc = "refill" /\ thread'[t].locked \in BOOLEAN
      /\ thread'[t] \in Tasks
  <2>1. thread[t] \in Tasks /\ t \in DOMAIN thread /\ thread \in [Threads -> Tasks]
    BY DEF BucketInv, BucketTyped
  <2>2. PICK b \in BOOLEAN : thread' = [thread EXCEPT ![t] = [@ EXCEPT !.pc = "refill", !.locked = b]]
    BY DEF Acquire, Peek
  <2>3. thread'[t] = [thread[t] EXCEPT !.pc = "refill", !.locked = b]
    BY <2>1, <2>2
  <2>4. thread' = [thread EXCEPT ![t] = thread'[t]]
    BY <2>1, <2>2, <2>3
  <2> QED BY <2>1, <2>3, <2>4 DEF Tasks, Steps
<1>2. /\ raced' = (raced \/ Refilling # {})
      /\ UNCHANGED <<time, tokens, lastRefill, granted, made>>
      /\ lock' \in Threads \cup {Free} /\ calls' \in 0..MaxChecks
  BY DEF Acquire, Peek, BucketInv, BucketTyped, BucketConfig
<1>3. BucketTyped'
  BY <1>1, <1>2 DEF BucketInv, BucketTyped
<1>4. BucketAgrees'
  <2> SUFFICES ASSUME ~raced'
               PROVE  /\ tokens' >= 0 /\ \A u, v \in Refilling' : u = v
                      /\ \A u \in Threads : Knows(u)'
                      /\ Covered(IF \E u \in Threads : thread[u].pc = "stamp" THEN time ELSE lastRefill)'
    BY DEF BucketAgrees
  <2>1. ~raced /\ \A u \in Threads : ~Inside(thread[u].pc)
    BY <1>2 DEF Refilling, Inside, BucketInv, BucketTyped
  <2>2. \A u \in Threads \ {t} : thread'[u] = thread[u]
    BY <1>1 DEF BucketInv, BucketTyped
  <2>3. \A u, v \in Refilling' : u = v
    BY <2>1, <2>2 DEF Refilling, Inside
  <2>4. \A u \in Threads : Knows(u)'
    BY <1>1, <2>1, <2>2 DEF Knows, Inside
  <2>5. ~(\E u \in Threads : thread'[u].pc = "stamp") /\ ~(\E u \in Threads : thread[u].pc = "stamp")
    BY <1>1, <2>1, <2>2 DEF Inside
  <2> QED BY <1>2, <2>1, <2>3, <2>4, <2>5 DEF BucketInv, BucketAgrees, Covered
<1> QED BY <1>3, <1>4 DEF BucketInv

\* A step inside a refill: what is left to show is about the thread that takes it.
LEMMA InsideKeeps ==
  ASSUME BucketConfig, BucketInv, NEW t \in Threads, Inside(thread[t].pc),
         thread' = [thread EXCEPT ![t] = thread'[t]], BucketTyped', UNCHANGED <<raced, time, made>>,
         ~raced => /\ tokens' >= 0 /\ Knows(t)'
                   /\ Covered(IF thread[t].pc = "stamp" THEN time ELSE lastRefill)'
  PROVE  BucketInv'
<1> SUFFICES ASSUME ~raced
             PROVE  /\ \A u, v \in Refilling' : u = v
                    /\ \A u \in Threads : Knows(u)'
                    /\ Covered(IF \E u \in Threads : thread[u].pc = "stamp" THEN time ELSE lastRefill)'
  BY DEF BucketInv, BucketAgrees
<1>1. \A u \in Threads \ {t} : thread'[u] = thread[u] /\ ~Inside(thread[u].pc)
  BY Alone DEF BucketInv, BucketTyped
<1>2. \A u, v \in Refilling' : u = v
  BY <1>1 DEF Refilling, Inside
<1>3. \A u \in Threads : Knows(u)'
  BY <1>1 DEF Knows, Inside
<1>4. (\E u \in Threads : thread'[u].pc = "stamp") <=> thread'[t].pc = "stamp"
  BY <1>1 DEF Inside
<1> QED BY <1>2, <1>3, <1>4

\* What is covered before the step, for the thread that is inside.
LEMMA CoveredInside ==
  ASSUME BucketInv, ~raced, NEW t \in Threads, Inside(thread[t].pc)
  PROVE  /\ tokens >= 0 /\ Knows(t)
         /\ Covered(IF thread[t].pc = "stamp" THEN time ELSE lastRefill)
<1>1. (\E u \in Threads : thread[u].pc = "stamp") <=> thread[t].pc = "stamp"
  BY Alone DEF Inside
<1> QED BY <1>1 DEF BucketInv, BucketAgrees

LEMMA ReadKeeps ==
  ASSUME BucketConfig, BucketInv, NEW t \in Threads, Elapsed(t) \/ ReadTokens(t)
  PROVE  BucketInv'
<1>1. /\ thread[t].pc \in {"refill", "read"}
      /\ UNCHANGED <<time, tokens, lastRefill, lock, granted, made, raced, calls>>
  BY DEF Elapsed, ReadTokens, At
<1>2. /\ thread \in [Threads -> Tasks] /\ thread[t] \in Tasks
      /\ tokens \in Int /\ time - lastRefill \in Nat
  BY DEF BucketInv, BucketTyped, BucketConfig
<1>3. /\ thread' = [thread EXCEPT ![t] = thread'[t]] /\ thread'[t] \in Tasks
      /\ thread'[t].locked = thread[t].locked
      /\ \/ /\ thread[t].pc = "refill" /\ thread'[t].pc = "read" /\ thread'[t].elapsed = time - lastRefill
         \/ /\ thread[t].pc = "read" /\ thread'[t].pc = "write" /\ thread'[t].elapsed = thread[t].elapsed
            /\ thread'[t].value = tokens
  <2>1. CASE Elapsed(t)
    <3>1. thread'[t] = [thread[t] EXCEPT !.pc = "read", !.elapsed = time - lastRefill]
      BY <1>2, <2>1 DEF Elapsed
    <3>2. thread' = [thread EXCEPT ![t] = thread'[t]]
      BY <1>2, <2>1, <3>1 DEF Elapsed
    <3> QED BY <1>2, <2>1, <3>1, <3>2 DEF Elapsed, At, Tasks, Steps
  <2>2. CASE ReadTokens(t)
    <3>1. thread'[t] = [thread[t] EXCEPT !.pc = "write", !.value = tokens]
      BY <1>2, <2>2 DEF ReadTokens
    <3>2. thread' = [thread EXCEPT ![t] = thread'[t]]
      BY <1>2, <2>2, <3>1 DEF ReadTokens
    <3> QED BY <1>2, <2>2, <3>1, <3>2 DEF ReadTokens, At, Tasks, Steps
  <2> QED BY <2>1, <2>2
<1>4. BucketTyped'
  BY <1>1, <1>3 DEF BucketInv, BucketTyped
<1>5. ~raced => tokens' >= 0 /\ Knows(t)' /\ Covered(lastRefill)'
  BY <1>1, <1>3, CoveredInside DEF Knows, Covered, Inside
<1> QED BY <1>1, <1>3, <1>4, <1>5, InsideKeeps DEF Inside

LEMMA WriteKeeps ==
  ASSUME BucketConfig, BucketInv, NEW t \in Threads, WriteTokens(t)
  PROVE  BucketInv'
<1> DEFINE gain == thread[t].elapsed * Rate
           sum  == thread[t].value + gain
<1>1. /\ thread[t].pc = "write" /\ tokens' = Low(Capacity, sum)
      /\ UNCHANGED <<time, lastRefill, lock, granted, made, raced, calls>>
  BY DEF WriteTokens, At
<1>2. /\ thread' = [thread EXCEPT ![t] = thread'[t]] /\ thread'[t].pc = "stamp"
      /\ thread'[t] \in Tasks
  BY DEF WriteTokens, GoTo, BucketInv, BucketTyped, Tasks, Steps
<1>3. gain \in Nat /\ sum \in Int /\ (thread[t].elapsed = time - lastRefill => gain = Rate * (time - lastRefill))
  <2>1. thread[t].elapsed \in Nat /\ thread[t].value \in Int /\ Rate \in Nat
    BY DEF BucketInv, BucketTyped, BucketConfig, Tasks
  <2>2. \A e \in Nat : e * Rate \in Nat /\ e * Rate = Rate * e
    BY <2>1, Z3
  <2> HIDE DEF gain
  <2>3. gain \in Nat /\ gain = Rate * thread[t].elapsed
    BY <2>1, <2>2 DEF gain
  <2> QED BY <2>1, <2>3
<1> HIDE DEF gain
<1>4. tokens' \in Int /\ tokens' <= Capacity /\ tokens' <= sum /\ (sum >= 0 => tokens' >= 0)
  BY <1>1, <1>3 DEF Low, BucketConfig
<1>5. BucketTyped'
  BY <1>1, <1>2, <1>4 DEF BucketInv, BucketTyped
<1>6. ~raced => tokens' >= 0 /\ Knows(t)' /\ Covered(time)'
  <2> SUFFICES ASSUME ~raced PROVE tokens' >= 0 /\ Covered(time)'
    BY <1>2 DEF Knows
  <2>1. /\ tokens >= 0 /\ thread[t].value = tokens /\ thread[t].elapsed = time - lastRefill
        /\ tokens + granted <= Capacity + Rate * (lastRefill - made)
    BY <1>1, CoveredInside DEF Knows, Covered, Inside
  <2>2. Rate * (time - made) = Rate * (lastRefill - made) + gain
        /\ Rate * (time - made) \in Int /\ Rate * (lastRefill - made) \in Int
    <3>1. /\ Rate \in Nat /\ time \in Int /\ lastRefill \in Int /\ made \in Int /\ lastRefill <= time
      BY DEF BucketInv, BucketTyped, BucketConfig
    <3>2. gain = Rate * (time - lastRefill)
      BY <1>3, <2>1
    <3>3. /\ Rate * (time - made) = Rate * (lastRefill - made) + Rate * (time - lastRefill)
          /\ Rate * (time - made) \in Int /\ Rate * (lastRefill - made) \in Int
      BY <3>1, Grows
    <3> QED BY <3>2, <3>3
  <2>3. tokens' + granted <= Capacity + Rate * (time - made)
    <3>1. /\ tokens \in Int /\ granted \in Int /\ Capacity \in Int /\ gain \in Int /\ tokens' \in Int
          /\ tokens' <= tokens + gain
      BY <1>3, <1>4, <2>1 DEF BucketInv, BucketTyped, BucketConfig
    <3> HIDE DEF sum
    <3> DEFINE before == Rate * (lastRefill - made)
               after == Rate * (time - made)
    <3> HIDE DEF before, after
    <3>2. after = before + gain /\ before \in Int /\ tokens + granted <= Capacity + before
      BY <2>1, <2>2 DEF before, after
    <3>3. ASSUME NEW now1 \in Int, now1 <= tokens + gain
          PROVE  now1 + granted <= Capacity + after
      BY <3>1, <3>2, <3>3
    <3>4. tokens' + granted <= Capacity + after
      BY <3>1, <3>3
    <3> QED BY <3>4 DEF after
  <2> QED BY <1>1, <1>3, <1>4, <2>1, <2>3 DEF Covered, BucketInv, BucketTyped
<1> QED BY <1>1, <1>2, <1>5, <1>6, InsideKeeps DEF Inside

LEMMA StampKeeps ==
  ASSUME BucketConfig, BucketInv, NEW t \in Threads, Stamp(t)
  PROVE  BucketInv'
<1>1. /\ thread[t].pc = "stamp" /\ lastRefill' = time
      /\ UNCHANGED <<time, tokens, lock, granted, made, raced, calls>>
  BY DEF Stamp, At
<1>2. /\ thread' = [thread EXCEPT ![t] = thread'[t]]
      /\ thread'[t].pc \in {"test", "idle"} /\ (thread'[t].pc = "test" => thread'[t].locked)
      /\ thread'[t] \in Tasks
  BY DEF Stamp, GoTo, BucketInv, BucketTyped, Tasks, Steps
<1>3. BucketTyped'
  BY <1>1, <1>2 DEF BucketInv, BucketTyped
<1>4. ~raced => tokens' >= 0 /\ Knows(t)' /\ Covered(lastRefill)'
  BY <1>1, <1>2, CoveredInside DEF Knows, Covered, Inside
<1> QED BY <1>1, <1>2, <1>3, <1>4, InsideKeeps DEF Inside

LEMMA DecideKeeps ==
  ASSUME BucketConfig, BucketInv, NEW t \in Threads, RefuseToken(t) \/ GrantToken(t)
  PROVE  BucketInv'
<1>1. /\ thread[t].pc = "test" /\ lock' \in Threads \cup {Free}
      /\ UNCHANGED <<time, tokens, lastRefill, granted, made, raced, calls>>
  BY DEF RefuseToken, GrantToken, At, BucketInv, BucketTyped
<1>2. /\ thread' = [thread EXCEPT ![t] = thread'[t]]
      /\ thread'[t].pc \in {"peek", "take"} /\ (thread'[t].pc = "take" => tokens >= 1)
      /\ thread'[t].locked = thread[t].locked
      /\ thread'[t] \in Tasks
  BY DEF RefuseToken, GrantToken, GoTo, BucketInv, BucketTyped, Tasks, Steps
<1>3. BucketTyped'
  BY <1>1, <1>2 DEF BucketInv, BucketTyped
<1>4. ~raced => tokens' >= 0 /\ Knows(t)' /\ Covered(lastRefill)'
  BY <1>1, <1>2, CoveredInside DEF Knows, Covered, Inside
<1> QED BY <1>1, <1>2, <1>3, <1>4, InsideKeeps DEF Inside

LEMMA TakeKeeps ==
  ASSUME BucketConfig, BucketInv, NEW t \in Threads, TakeToken(t)
  PROVE  BucketInv'
<1>1. /\ thread[t].pc = "take" /\ tokens' = tokens - 1 /\ granted' = granted + 1 /\ lock' = Free
      /\ UNCHANGED <<time, lastRefill, made, raced, calls>>
  BY DEF TakeToken, At
<1>2. /\ thread' = [thread EXCEPT ![t] = thread'[t]] /\ thread'[t].pc = "peek"
      /\ thread'[t] \in Tasks
  BY DEF TakeToken, GoTo, BucketInv, BucketTyped, Tasks, Steps
<1>3. BucketTyped'
  BY <1>1, <1>2 DEF BucketInv, BucketTyped, BucketConfig
<1>4. ~raced => tokens' >= 0 /\ Knows(t)' /\ Covered(lastRefill)'
  <2> SUFFICES ASSUME ~raced PROVE tokens' >= 0 /\ Covered(lastRefill)'
    BY <1>2 DEF Knows
  <2>1. tokens >= 1 /\ tokens + granted <= Capacity + Rate * (lastRefill - made)
    BY <1>1, CoveredInside DEF Knows, Covered, Inside
  <2>2. tokens' + granted' = tokens + granted
    BY <1>1 DEF BucketInv, BucketTyped
  <2> QED BY <1>1, <2>1, <2>2 DEF Covered, BucketInv, BucketTyped
<1> QED BY <1>1, <1>2, <1>3, <1>4, InsideKeeps DEF Inside

\* Nobody is inside a refill when the bucket is made anew, nor when time passes.
LEMMA OutsideKeeps ==
  ASSUME BucketConfig, BucketInv, Reset \/ SecondPasses
  PROVE  BucketInv'
<1>1. \A t \in Threads : ~Inside(thread[t].pc)
  BY DEF Reset, SecondPasses, Refilling, Inside
<1>2. CASE Reset
  <2>1. BucketTyped'
    <3>1. calls' \in 0..MaxChecks /\ tokens' \in Int /\ tokens' <= Capacity /\ granted' \in Nat
      BY <1>2 DEF Reset, BucketInv, BucketTyped, BucketConfig
    <3>2. /\ time' \in 0..EndTime /\ lastRefill' \in 0..EndTime /\ made' \in 0..EndTime
          /\ lastRefill' <= time' /\ made' <= lastRefill'
      BY <1>2 DEF Reset, BucketInv, BucketTyped, BucketConfig
    <3>3. lock' = lock /\ thread' = thread /\ raced' \in BOOLEAN
      BY <1>2 DEF Reset
    <3> QED BY <3>1, <3>2, <3>3 DEF BucketInv, BucketTyped
  <2>2. Rate * (time - time) = 0
    BY Z3 DEF BucketConfig, BucketInv, BucketTyped
  <2>3. Covered(lastRefill)' /\ tokens' >= 0
    BY <1>2, <2>2 DEF Reset, Covered, BucketConfig
  <2> QED BY <1>1, <1>2, <2>1, <2>3 DEF Reset, BucketInv, BucketAgrees, Refilling, Inside, Knows
<1>3. CASE SecondPasses
  <2>1. BucketTyped'
    BY <1>3 DEF SecondPasses, BucketInv, BucketTyped, BucketConfig
  <2> QED BY <1>1, <1>3, <2>1 DEF SecondPasses, BucketInv, BucketAgrees, Refilling, Inside, Knows, Covered
<1> QED BY <1>2, <1>3

LEMMA BucketInvNext ==
  ASSUME BucketConfig, BucketInv, [BucketNext]_bucketVars
  PROVE  BucketInv'
<1>1. CASE Reset \/ SecondPasses
  BY <1>1, OutsideKeeps
<1>2. CASE \E t \in Threads : \/ Acquire(t) \/ Peek(t) \/ Elapsed(t) \/ ReadTokens(t) \/ WriteTokens(t)
                              \/ Stamp(t) \/ RefuseToken(t) \/ GrantToken(t) \/ TakeToken(t)
  BY <1>2, EnterKeeps, ReadKeeps, WriteKeeps, StampKeeps, DecideKeeps, TakeKeeps
<1>3. CASE UNCHANGED bucketVars
  BY <1>3 DEF bucketVars, BucketInv, BucketTyped, BucketAgrees, Refilling, Knows, Covered
<1> QED BY <1>1, <1>2, <1>3 DEF BucketNext

LEMMA BucketInvKept == ASSUME BucketConfig PROVE BucketSpec => []BucketInv
<1>1. BucketInit => BucketInv
  BY BucketInvInit
<1>2. BucketInv /\ [BucketNext]_bucketVars => BucketInv'
  BY BucketInvNext
<1> QED BY <1>1, <1>2, PTL DEF BucketSpec

\* The types of the bucket, for any threads, burst, rate and clock (rate_limit.py).
THEOREM BucketTypesKept == ASSUME BucketConfig PROVE BucketSpec => []BucketTypeOK
<1>1. BucketInv => BucketTypeOK
  BY DEF BucketInv, BucketTyped, BucketTypeOK
<1> QED BY <1>1, BucketInvKept, PTL

\* rate_limit.py: as long as no refill without the lock overlaps another, the bucket never
\* goes below empty, and since it was made it has admitted no more than its burst and what
\* the time refilled.
THEOREM BurstKept == ASSUME BucketConfig PROVE BucketSpec => []BurstUnlessRaced
<1>1. BucketInv => BurstUnlessRaced
  <2> SUFFICES ASSUME BucketInv, ~raced
               PROVE  tokens >= 0 /\ granted <= Capacity + Rate * (time - made)
    BY DEF BurstUnlessRaced
  <2>1. /\ Rate * (lastRefill - made) <= Rate * (time - made)
        /\ Rate * (lastRefill - made) \in Int /\ Rate * (time - made) \in Int
    BY Grows DEF BucketInv, BucketTyped, BucketConfig
  <2> QED BY <2>1 DEF BucketInv, BucketAgrees, BucketTyped, Covered, BucketConfig
<1> QED BY <1>1, BucketInvKept, PTL

(***************************************************************************)
(* The batch, for any number of items and workers. An item is fresh while  *)
(* it is compiled, and has its graph or an error before the loop comes to  *)
(* it; the loop leaves it with an error or with all that was asked for.    *)
(* (Runtime has two more sections, whose parameters do not matter here.)   *)
(***************************************************************************)
CONSTANTS BatchTotal, MaxWorkers, OutputDir
VARIABLES batchPhase, item, workers, batchCursor, batchFiles

Batch == INSTANCE Runtime WITH
  Total <- BatchTotal, phase <- batchPhase, cursor <- batchCursor, files <- batchFiles,
  Threads <- {}, Requests <- {}, Enabled <- TRUE, MaxSize <- 1, lru <- <<>>, graphOf <- <<>>,
  compile <- <<>>, uses <- <<>>, dropped <- {},
  Durations <- {}, Envelopes <- {}, MaxItems <- 0, items <- <<>>, placed <- <<>>, place <- 0,
  pending <- FALSE, current <- 0, gains <- <<>>

BatchConfig == BatchTotal \in Nat /\ OutputDir \in BOOLEAN

BatchItems == [graph : BOOLEAN, audio : BOOLEAN, path : BOOLEAN, error : BOOLEAN]

Compiled(i) == item[i].error \/ item[i].graph

\* What the loop leaves of an item that it passed, and of the others.
Passed(i) == item[i].error \/ (item[i].audio /\ (OutputDir => i \in batchFiles))
Ahead(i) == ~item[i].audio /\ i \notin batchFiles

BatchReturned == batchPhase = "returned" => batchCursor = BatchTotal

BatchInv ==
  /\ Batch!BatchTypeOK
  /\ batchPhase = "compile" => batchCursor = 0
  /\ BatchReturned
  /\ \A i \in Batch!Items :
       /\ i \in workers => item[i] = Batch!Fresh
       /\ item[i] = Batch!Fresh \/ Compiled(i)
       /\ batchPhase # "compile" => i \notin workers /\ item[i] # Batch!Fresh
       /\ item[i].audio => item[i].graph
       /\ i \in batchFiles => Batch!Success(i)
       /\ i <= batchCursor => Passed(i)
       /\ i > batchCursor => Ahead(i)

LEMMA FreshItem ==
  /\ Batch!Fresh \in BatchItems
  /\ ~Batch!Fresh.graph /\ ~Batch!Fresh.audio /\ ~Batch!Fresh.error
BY DEF Batch!Fresh, BatchItems

LEMMA BatchInvInit == ASSUME BatchConfig, Batch!BatchInit PROVE BatchInv
<1>1. item \in [Batch!Items -> BatchItems] /\ \A i \in Batch!Items : item[i] = Batch!Fresh
  BY FreshItem DEF Batch!BatchInit
<1>2. batchCursor = 0 /\ batchCursor \in 0..BatchTotal /\ \A i \in Batch!Items : i > 0 /\ ~(i <= 0)
  BY DEF Batch!BatchInit, BatchConfig, Batch!Items
<1>3. Batch!BatchTypeOK
  BY <1>1, <1>2 DEF Batch!BatchInit, Batch!BatchTypeOK, BatchItems
<1> QED BY <1>1, <1>2, <1>3, FreshItem DEF Batch!BatchInit, BatchInv, BatchReturned, Ahead

\* Compiling changes no item but the one that is done.
LEMMA CompileKeeps ==
  ASSUME BatchConfig, BatchInv, NEW i \in Batch!Items, Batch!BeginCompile(i) \/ Batch!EndCompile(i)
  PROVE  BatchInv'
<1>1. CASE Batch!BeginCompile(i)
  <2>1. /\ batchPhase = "compile" /\ item[i] = Batch!Fresh /\ workers' = workers \cup {i}
        /\ batchPhase' = batchPhase /\ item' = item /\ batchCursor' = batchCursor /\ batchFiles' = batchFiles
    BY <1>1 DEF Batch!BeginCompile
  <2>2. Batch!BatchTypeOK'
    BY <2>1 DEF BatchReturned, BatchInv, Batch!BatchTypeOK, Batch!Items
  <2> QED BY <2>1, <2>2 DEF BatchReturned, BatchInv, Compiled, Passed, Ahead, Batch!Success, Batch!Items
<1>2. CASE Batch!EndCompile(i)
  <2>1. /\ i \in workers /\ workers' = workers \ {i}
        /\ batchPhase' = batchPhase /\ batchCursor' = batchCursor /\ batchFiles' = batchFiles
    BY <1>2 DEF Batch!EndCompile
  <2>2. /\ batchPhase = "compile" /\ item[i] = Batch!Fresh /\ batchCursor = 0 /\ i > 0
        /\ item \in [Batch!Items -> BatchItems]
    BY <2>1 DEF BatchReturned, BatchInv, Batch!BatchTypeOK, Batch!Items, BatchItems
  <2>3. PICK done \in BatchItems :
          /\ item' = [item EXCEPT ![i] = done]
          /\ done.audio = Batch!Fresh.audio /\ (done.error \/ done.graph)
    <3>1. CASE item' = [item EXCEPT ![i].graph = TRUE]
      <4> DEFINE w == [item[i] EXCEPT !.graph = TRUE]
      <4>1. w \in BatchItems
        BY <2>2, <3>1 DEF BatchItems
      <4> QED BY <4>1, <2>2, <3>1 DEF BatchItems
    <3>2. CASE item' = [item EXCEPT ![i].error = TRUE]
      <4> DEFINE w == [item[i] EXCEPT !.error = TRUE]
      <4>1. w \in BatchItems
        BY <2>2, <3>2 DEF BatchItems
      <4> QED BY <4>1, <2>2, <3>2 DEF BatchItems
    <3> QED BY <1>2, <3>1, <3>2 DEF Batch!EndCompile
  <2>4. /\ item' \in [Batch!Items -> BatchItems] /\ item'[i] = done
        /\ \A j \in Batch!Items \ {i} : item'[j] = item[j]
    BY <2>2, <2>3
  <2>5. Batch!BatchTypeOK'
    BY <2>1, <2>4 DEF BatchReturned, BatchInv, Batch!BatchTypeOK, Batch!Items, BatchItems
  <2>6. ASSUME NEW j \in Batch!Items
        PROVE  /\ j \in workers' => item'[j] = Batch!Fresh
               /\ item'[j] = Batch!Fresh \/ Compiled(j)'
               /\ item'[j].audio => item'[j].graph
               /\ j \in batchFiles => Batch!Success(j)'
               /\ j <= batchCursor => Passed(j)'
               /\ j > batchCursor => Ahead(j)'
    <3>1. CASE j = i
      BY <2>1, <2>2, <2>3, <2>4, <3>1, FreshItem DEF BatchReturned, BatchInv, Compiled, Ahead, Batch!Items
    <3>2. CASE j # i
      BY <2>1, <2>4, <3>2 DEF BatchReturned, BatchInv, Compiled, Passed, Ahead, Batch!Success
    <3> QED BY <3>1, <3>2
  <2> QED BY <2>1, <2>2, <2>5, <2>6 DEF BatchReturned, BatchInv, Batch!Items
<1> QED BY <1>1, <1>2

LEMMA LoopKeeps ==
  ASSUME BatchConfig, BatchInv, Batch!SynthesizeNext
  PROVE  BatchInv'
<1> DEFINE i == batchCursor + 1
<1>1. /\ batchPhase = "synthesize" /\ batchCursor < BatchTotal /\ batchCursor' = i /\ workers' = workers
      /\ batchPhase' \in {"synthesize", "raised"}
  BY DEF Batch!SynthesizeNext
<1>2. /\ i \in Batch!Items /\ batchCursor' \in 0..BatchTotal /\ i > batchCursor
      /\ \A j \in Batch!Items \ {i} : (j <= i => j <= batchCursor) /\ (j > i => j > batchCursor)
  BY <1>1 DEF BatchReturned, BatchInv, Batch!BatchTypeOK, Batch!Items, BatchConfig
<1>3. item \in [Batch!Items -> BatchItems] /\ Compiled(i) /\ Ahead(i) /\ batchFiles \subseteq Batch!Items
  BY <1>1, <1>2 DEF BatchReturned, BatchInv, Batch!BatchTypeOK, BatchItems
<1>4. PICK done \in BatchItems :
        /\ item' = [item EXCEPT ![i] = done] /\ Compiled(i)
        /\ done.graph = item[i].graph /\ (done.audio => done.graph)
        /\ \/ done.error /\ batchFiles' = batchFiles
           \/ ~done.error /\ done.audio /\ batchFiles' = IF OutputDir THEN batchFiles \cup {i} ELSE batchFiles
  <2>1. CASE item[i].error /\ UNCHANGED <<item, batchFiles, batchPhase>>
    <3> DEFINE w == item[i]
    <3>1. w \in BatchItems
      BY <1>2, <1>3, <2>1 DEF BatchReturned, BatchInv
    <3> QED BY <3>1, <1>2, <1>3, <2>1 DEF BatchReturned, BatchInv
  <2>2. CASE ~item[i].error /\ item' = [item EXCEPT ![i].error = TRUE] /\ UNCHANGED batchFiles
    <3> DEFINE w == [item[i] EXCEPT !.error = TRUE]
    <3>1. w \in BatchItems
      BY <1>2, <1>3, <2>2 DEF BatchReturned, BatchInv, BatchItems
    <3> QED BY <3>1, <1>2, <1>3, <2>2 DEF BatchReturned, BatchInv, BatchItems
  <2>3. CASE /\ ~item[i].error /\ UNCHANGED batchFiles
             /\ item' = [item EXCEPT ![i] = [@ EXCEPT !.audio = TRUE, !.path = TRUE, !.error = TRUE]]
    <3> DEFINE w == [item[i] EXCEPT !.audio = TRUE, !.path = TRUE, !.error = TRUE]
    <3>1. w \in BatchItems
      BY <1>2, <1>3, <2>3 DEF Compiled, BatchItems
    <3> QED BY <3>1, <1>2, <1>3, <2>3 DEF Compiled, BatchItems
  <2>4. CASE /\ ~item[i].error /\ batchFiles' = IF OutputDir THEN batchFiles \cup {i} ELSE batchFiles
             /\ item' = [item EXCEPT ![i] = [@ EXCEPT !.audio = TRUE, !.path = OutputDir]]
    <3> DEFINE w == [item[i] EXCEPT !.audio = TRUE, !.path = OutputDir]
    <3>1. w \in BatchItems
      BY <1>2, <1>3, <2>4 DEF Compiled, BatchItems, BatchConfig
    <3> QED BY <3>1, <1>2, <1>3, <2>4 DEF Compiled, BatchItems, BatchConfig
  <2> QED BY <2>1, <2>2, <2>3, <2>4 DEF Batch!SynthesizeNext
<1> HIDE DEF i
<1>5. /\ item' \in [Batch!Items -> BatchItems] /\ item'[i] = done
      /\ \A j \in Batch!Items \ {i} : item'[j] = item[j] /\ (j \in batchFiles' <=> j \in batchFiles)
  BY <1>2, <1>3, <1>4
<1>6. Batch!BatchTypeOK'
  BY <1>1, <1>2, <1>3, <1>4, <1>5 DEF BatchReturned, BatchInv, Batch!BatchTypeOK, Batch!Items, BatchItems
<1>7. ASSUME NEW j \in Batch!Items
      PROVE  /\ j \notin workers /\ Compiled(j)' /\ item'[j] # Batch!Fresh
             /\ item'[j].audio => item'[j].graph
             /\ j \in batchFiles' => Batch!Success(j)'
             /\ j <= batchCursor' => Passed(j)'
             /\ j > batchCursor' => Ahead(j)'
  <2>1. CASE j = i
    <3>1. Compiled(j)' /\ item'[j] # Batch!Fresh
      BY <1>4, <1>5, <2>1, FreshItem DEF Compiled
    <3>2. i <= i /\ ~(i > i)
      BY <1>2 DEF Batch!Items
    <3> QED BY <1>1, <1>3, <1>4, <1>5, <2>1, <3>1, <3>2 DEF BatchReturned, BatchInv, Passed, Ahead, Batch!Success
  <2>2. CASE j # i
    <3>1. item'[j] = item[j] /\ (j \in batchFiles' <=> j \in batchFiles)
      BY <1>5, <2>2
    <3>2. (j <= i => j <= batchCursor) /\ (j > i => j > batchCursor)
      BY <1>2, <2>2
    <3> QED BY <1>1, <3>1, <3>2 DEF BatchReturned, BatchInv, Compiled, Passed, Ahead, Batch!Success
  <2> QED BY <2>1, <2>2
<1> QED BY <1>1, <1>6, <1>7 DEF BatchReturned, BatchInv, Batch!Items

\* When the items stay, the phase may go on.
LEMMA PhaseKeeps ==
  ASSUME BatchInv, item' = item, workers' = workers, batchCursor' = batchCursor, batchFiles' = batchFiles,
         \/ batchPhase' = batchPhase
         \/ batchPhase' = "synthesize" /\ \A i \in Batch!Items : item[i] # Batch!Fresh
         \/ batchPhase = "synthesize" /\ batchPhase' = "returned" /\ batchCursor = BatchTotal
  PROVE  BatchInv'
<1>1. Batch!BatchTypeOK'
  BY DEF BatchInv, Batch!BatchTypeOK, Batch!Items
<1>2. (batchPhase' = "compile" => batchCursor' = 0) /\ BatchReturned'
  BY DEF BatchInv, BatchReturned
<1>3. ASSUME NEW i \in Batch!Items
      PROVE  /\ i \in workers => item[i] = Batch!Fresh
             /\ item[i] = Batch!Fresh \/ Compiled(i)
             /\ batchPhase' # "compile" => i \notin workers /\ item[i] # Batch!Fresh
             /\ item[i].audio => item[i].graph
             /\ i \in batchFiles => Batch!Success(i)
             /\ i <= batchCursor => Passed(i)
             /\ i > batchCursor => Ahead(i)
  BY DEF BatchInv
<1>4. \A i \in Batch!Items : /\ (Compiled(i)' <=> Compiled(i)) /\ (Passed(i)' <=> Passed(i))
                             /\ (Ahead(i)' <=> Ahead(i)) /\ (Batch!Success(i)' <=> Batch!Success(i))
  BY DEF Compiled, Passed, Ahead, Batch!Success
<1> QED BY <1>1, <1>2, <1>3, <1>4 DEF BatchInv, Batch!Items

LEMMA BatchInvNext ==
  ASSUME BatchConfig, BatchInv, [Batch!BatchNext]_(Batch!batchVars)
  PROVE  BatchInv'
<1>1. CASE UNCHANGED Batch!batchVars \/ Batch!BeginSynthesis \/ Batch!Return
  BY <1>1, PhaseKeeps DEF Batch!batchVars, Batch!BeginSynthesis, Batch!Return
<1> QED BY <1>1, CompileKeeps, LoopKeeps DEF Batch!BatchNext

LEMMA BatchInvKept == ASSUME BatchConfig PROVE Batch!BatchSpec => []BatchInv
BY BatchInvInit, BatchInvNext, PTL DEF Batch!BatchSpec

\* The types of a batch, for any number of items (runtime/batch.py).
THEOREM BatchTypesKept == ASSUME BatchConfig PROVE Batch!BatchSpec => []Batch!BatchTypeOK
<1>1. BatchInv => Batch!BatchTypeOK
  BY DEF BatchReturned, BatchInv
<1> QED BY <1>1, BatchInvKept, PTL

\* batch.py: an item of a batch that returned is a success exactly when its graph, its audio
\* and its file are there, and has an error otherwise, whatever fails for others.
THEOREM SuccessWhole == ASSUME BatchConfig PROVE Batch!BatchSpec => []Batch!SuccessIsWhole
<1>1. ASSUME BatchInv PROVE Batch!SuccessIsWhole
  <2> SUFFICES ASSUME batchPhase = "returned", NEW i \in Batch!Items, BatchReturned
               PROVE  /\ Batch!Success(i) => item[i].graph /\ (OutputDir => i \in batchFiles)
                      /\ i \in batchFiles => Batch!Success(i)
                      /\ ~Batch!Success(i) => item[i].error
    BY <1>1 DEF Batch!SuccessIsWhole, BatchInv
  <2>1. i <= batchCursor
    BY DEF BatchReturned, Batch!Items
  <2> QED BY <1>1, <2>1 DEF BatchReturned, BatchInv, Passed, Batch!Success
<1> QED BY <1>1, BatchInvKept, PTL

(***************************************************************************)
(* The bridge to a screen reader, for any readers and limits. A reader is  *)
(* lowered only by an adapter that can restore it, and an adapter that is  *)
(* there stays; the queue is a run of the newest numbers. (Accessibility   *)
(* has two more sections, whose parameters do not matter here.)            *)
(***************************************************************************)
CONSTANTS Readers, CanDuck, Listeners, QueueLimit, Interval, Percents, MaxSyntheses, MaxAnnounced
VARIABLES
  running, adapter, initialized, announcements, speaking, syntheses, volume, listeners, spoken,
  announced, cleared, ranThen

Bridge == INSTANCE Accessibility WITH
  queue <- announcements,
  TextWords <- 0, Tolerance <- 0, Times <- {}, actions <- <<>>, position <- 0, highlighted <- 0,
  disturbed <- FALSE, ran <- 0, wordIndex <- 0, descriptions <- <<>>, isSorted <- TRUE, calls <- 0,
  Names <- {}, MaxCalls <- 0,
  Documents <- {}, Tables <- {}, Wrap <- TRUE, CaptionInputs <- {}, document <- <<>>, landmarks <- <<>>,
  cursor <- 0, moved <- FALSE, table <- <<>>, row <- 0, column <- 0, input <- <<>>

ReaderConfig == "none" \notin CanDuck /\ QueueLimit \in Nat \ {0} /\ MaxSyntheses \in Nat

\* A run of the numbers up to a that are above c, no more than limit of them.
Run(q, a, c, limit) ==
  /\ q \in Seq(Nat) /\ a \in Nat /\ c \in 0..a
  /\ Len(q) <= limit /\ Len(q) <= a - c
  /\ Len(q) = limit \/ Len(q) = a - c
  /\ \A i \in 1..Len(q) : q[i] = a - Len(q) + i

Newest == Run(announcements, announced, cleared, QueueLimit)

ReaderInv ==
  /\ syntheses \in Nat
  /\ volume # "normal" => adapter \in CanDuck
  /\ Bridge!NotLeftDucked
  /\ Newest

\* An adapter that lowers the volume is not looked for again.
LEMMA AdapterStays ==
  ASSUME ReaderConfig, Bridge!EnsureAdapter, adapter \in CanDuck
  PROVE  adapter' \in CanDuck
BY DEF ReaderConfig, Bridge!EnsureAdapter, Bridge!Ensured

LEMMA NoRun == ASSUME NEW limit \in Nat, NEW a \in Nat PROVE Run(<<>>, a, a, limit)
<1>1. <<>> \in Seq(Nat) /\ Len(<<>>) = 0 /\ a - a = 0 /\ a \in 0..a /\ 0 <= limit
  OBVIOUS
<1> QED BY <1>1 DEF Run

\* A new number is put behind the others, of which the oldest falls out when there is no room.
LEMMA RunGrows ==
  ASSUME NEW limit \in Nat \ {0}, NEW a \in Nat, NEW c \in 0..a, NEW s \in Seq(Nat), Run(s, a, c, limit)
  PROVE  LET all == Append(s, a + 1)
         IN  Run(IF Len(all) > limit THEN Tail(all) ELSE all, a + 1, c, limit)
<1> DEFINE all == Append(s, a + 1)
           m == Len(s)
<1>1. /\ m \in Nat /\ m <= limit /\ m <= a - c /\ (m = limit \/ m = a - c)
      /\ \A i \in 1..m : s[i] = a - m + i
  BY DEF Run
<1>2. /\ all \in Seq(Nat) /\ Len(all) = m + 1 /\ all # <<>>
      /\ all[m + 1] = a + 1 /\ \A i \in 1..m : all[i] = s[i]
  OBVIOUS
<1>3. /\ Tail(all) \in Seq(Nat) /\ Len(Tail(all)) = m
      /\ \A i \in 1..m : Tail(all)[i] = all[i + 1]
  <2>1. Len(all) - 1 = m
    BY <1>1, <1>2
  <2> HIDE DEF all, m
  <2> QED BY <1>2, <2>1, HeadTailProperties
<1> HIDE DEF all, m
<1>4. a + 1 \in Nat /\ c \in 0..(a + 1)
  OBVIOUS
<1>5. \A i \in 1..(m + 1) : all[i] = a + 1 - (m + 1) + i
  <2> TAKE i \in 1..(m + 1)
  <2>1. CASE i = m + 1
    BY <1>1, <1>2, <2>1
  <2>2. CASE i # m + 1
    <3>1. i \in 1..m /\ i \in Int
      BY <1>1, <2>2
    <3>2. all[i] = a - m + i
      BY <1>1, <1>2, <3>1
    <3> QED BY <1>1, <3>1, <3>2
  <2> QED BY <2>1, <2>2
<1>6. CASE m + 1 > limit
  <2>1. m = limit
    BY <1>1, <1>6
  <2>2. \A i \in 1..m : i + 1 \in 1..(m + 1) /\ a + 1 - (m + 1) + (i + 1) = a + 1 - m + i
    BY <1>1
  <2>3. \A i \in 1..m : Tail(all)[i] = a + 1 - m + i
    BY <1>3, <1>5, <2>2
  <2>4. m <= limit /\ m <= a + 1 - c
    BY <1>1, <2>1
  <2>5. Run(Tail(all), a + 1, c, limit)
    <3> DEFINE t == Tail(all)
               b == a + 1
    <3>1. t \in Seq(Nat) /\ b \in Nat /\ c \in 0..b
      BY <1>3, <1>4
    <3>2. Len(t) <= limit /\ Len(t) <= b - c /\ Len(t) = limit
      BY <1>3, <2>1, <2>4
    <3>3. \A i \in 1..Len(t) : t[i] = b - Len(t) + i
      <4>1. Len(t) = m /\ \A i \in 1..m : t[i] = b - m + i
        BY <1>3, <2>3
      <4> HIDE DEF t, b
      <4> QED BY ONLY <4>1, Zenon
    <3>4. Run(t, b, c, limit)
      <4> HIDE DEF t, b
      <4> QED BY ONLY <3>1, <3>2, <3>3, Zenon DEF Run
    <3> QED BY <3>4
  <2> QED BY <1>2, <1>6, <2>5 DEF all
<1>7. CASE ~(m + 1 > limit)
  <2>1. m + 1 <= limit /\ m + 1 = a + 1 - c
    BY <1>1, <1>7
  <2>2. Run(all, a + 1, c, limit)
    BY <1>2, <1>4, <1>5, <2>1 DEF Run
  <2> QED BY <1>2, <1>7, <2>2 DEF all
<1> QED BY <1>6, <1>7

LEMMA ReaderInvInit == ASSUME ReaderConfig, Bridge!ReaderInit PROVE ReaderInv
<1>1. announcements = <<>> /\ announcements \in Seq(Nat) /\ Len(announcements) = 0
  BY DEF Bridge!ReaderInit
<1>2. Newest
  BY <1>1, NoRun DEF Newest, Bridge!ReaderInit, ReaderConfig
<1>3. Bridge!NotLeftDucked /\ volume = "normal" /\ syntheses \in Nat
  BY DEF Bridge!ReaderInit, Bridge!NotLeftDucked
<1> QED BY <1>2, <1>3 DEF ReaderInv

LEMMA QueueGrows ==
  ASSUME ReaderConfig, Newest, NEW clear \in BOOLEAN, NEW n, n = announced + 1,
         announcements' = Bridge!Queued(n, clear), announced' = n,
         cleared' = IF clear THEN n - 1 ELSE cleared
  PROVE  Newest'
<1> DEFINE start == IF clear THEN <<>> ELSE announcements
<1>1. announced \in Nat /\ cleared \in 0..announced /\ QueueLimit \in Nat \ {0} /\ n - 1 = announced
  BY DEF Newest, Run, ReaderConfig
<1>2. start \in Seq(Nat) /\ cleared' \in 0..announced /\ Run(start, announced, cleared', QueueLimit)
  <2>1. CASE clear
    <3>1. start = <<>> /\ start \in Seq(Nat) /\ cleared' = announced /\ announced \in 0..announced
      BY <1>1, <2>1
    <3> QED BY <1>1, <3>1, NoRun
  <2>2. CASE ~clear
    BY <1>1, <2>2 DEF Newest, Run
  <2> QED BY <2>1, <2>2
<1>3. announcements' = LET all == Append(start, announced + 1)
                       IN  IF Len(all) > QueueLimit THEN Tail(all) ELSE all
  BY DEF Bridge!Queued
<1> HIDE DEF start
<1>4. ASSUME NEW c \in 0..announced, Run(start, announced, c, QueueLimit)
      PROVE  Run(announcements', announced + 1, c, QueueLimit)
  BY <1>1, <1>2, <1>3, <1>4, RunGrows
<1> QED BY <1>2, <1>4 DEF Newest

LEMMA AnnounceKeeps ==
  ASSUME ReaderConfig, ReaderInv, NEW p, NEW clear \in BOOLEAN, Bridge!Announce(p, clear)
  PROVE  ReaderInv'
<1> DEFINE n == announced + 1
<1>0. /\ announcements' = Bridge!Queued(n, clear) /\ announced' = n
      /\ cleared' = (IF clear THEN n - 1 ELSE cleared)
      /\ Bridge!EnsureAdapter
  BY Zenon DEF Bridge!Announce
<1>1. Bridge!EnsureAdapter /\ syntheses' = syntheses /\ volume' = volume /\ speaking' = speaking
  BY <1>0 DEF Bridge!Announce
<1>2. Newest'
  <2>1. n = announced + 1
    OBVIOUS
  <2> HIDE DEF n
  <2> QED BY <1>0, <2>1, QueueGrows, Zenon DEF ReaderInv
<1>3. volume' # "normal" => adapter' \in CanDuck
  BY <1>1, AdapterStays DEF ReaderInv
<1>4. syntheses' \in Nat /\ Bridge!NotLeftDucked'
  BY <1>1 DEF ReaderInv, Bridge!NotLeftDucked
<1> QED BY <1>2, <1>3, <1>4, Zenon DEF ReaderInv

LEMMA ReaderInvNext ==
  ASSUME ReaderConfig, ReaderInv, [Bridge!ReaderNext]_(Bridge!screenReaderVars)
  PROVE  ReaderInv'
<1>1. CASE \E p \in Bridge!Priorities, clear \in BOOLEAN : Bridge!Announce(p, clear)
  BY <1>1, AnnounceKeeps
<1>2. CASE \E p \in Percents : Bridge!Progress(p)
  BY <1>2, AnnounceKeeps DEF Bridge!Progress
<1>3. CASE UNCHANGED <<announcements, announced, cleared>> /\ UNCHANGED <<speaking, syntheses, volume>>
           /\ (adapter' = adapter \/ Bridge!EnsureAdapter)
  <2>1. Newest'
    BY <1>3 DEF ReaderInv, Newest
  <2> QED BY <1>3, <2>1, AdapterStays DEF ReaderInv, Bridge!NotLeftDucked
<1>4. CASE Bridge!SynthesisStart \/ Bridge!SynthesisEnd
  <2>1. Newest' /\ adapter' = adapter
    BY <1>4 DEF ReaderInv, Newest, Bridge!SynthesisStart, Bridge!SynthesisEnd
  <2>2. syntheses' \in Nat /\ Bridge!NotLeftDucked' /\ (volume' # "normal" => adapter \in CanDuck)
    <3>1. CASE Bridge!SynthesisStart
      BY <3>1 DEF ReaderInv, Bridge!NotLeftDucked, Bridge!SynthesisStart
    <3>2. CASE Bridge!SynthesisEnd
      BY <3>2 DEF ReaderInv, Bridge!NotLeftDucked, Bridge!SynthesisEnd
    <3> QED BY <1>4, <3>1, <3>2
  <2> QED BY <2>1, <2>2 DEF ReaderInv
<1>5. CASE UNCHANGED Bridge!screenReaderVars
  BY <1>3, <1>5 DEF Bridge!screenReaderVars
<1>6. CASE \/ \E r \in Bridge!ReaderSet : Bridge!ReaderToggles(r)
           \/ Bridge!LookUp
           \/ \E l \in Listeners : Bridge!AddListener(l) \/ Bridge!RemoveListener(l)
  BY <1>3, <1>6 DEF Bridge!ReaderToggles, Bridge!LookUp, Bridge!AddListener, Bridge!RemoveListener
<1> QED BY <1>1, <1>2, <1>4, <1>5, <1>6 DEF Bridge!ReaderNext

LEMMA ReaderInvKept == ASSUME ReaderConfig PROVE Bridge!ReaderSpec => []ReaderInv
BY ReaderInvInit, ReaderInvNext, PTL DEF Bridge!ReaderSpec

\* bridge.py: with no synthesis going on the reader's volume is back, for any readers, also
\* when syntheses overlap or one began before the adapter was detected.
THEOREM ReaderRestored == ASSUME ReaderConfig PROVE Bridge!ReaderSpec => []Bridge!NotLeftDucked
<1>1. ReaderInv => Bridge!NotLeftDucked
  BY DEF ReaderInv
<1> QED BY <1>1, ReaderInvKept, PTL

\* bridge.py: the queue is the newest announcements since it was last cleared, in order, for
\* every length it may have.
THEOREM QueueKept == ASSUME ReaderConfig PROVE Bridge!ReaderSpec => []Bridge!QueueIsNewest
<1>1. ASSUME ReaderInv PROVE Bridge!QueueIsNewest
  <2> DEFINE m == Len(announcements)
  <2>1. /\ announcements \in Seq(Nat) /\ announced \in Nat /\ cleared \in 0..announced /\ QueueLimit \in Nat
        /\ m \in Nat /\ DOMAIN announcements = 1..m
        /\ m <= QueueLimit /\ m <= announced - cleared /\ (m = QueueLimit \/ m = announced - cleared)
        /\ \A i \in 1..m : announcements[i] = announced - m + i
    BY <1>1 DEF ReaderInv, Newest, Run, ReaderConfig
  <2> HIDE DEF m
  <2>2. ASSUME NEW n \in 1..announced
        PROVE  n \in Bridge!Range(announcements) <=> n > cleared /\ n > announced - QueueLimit
    <3>1. n \in Bridge!Range(announcements) <=> \E i \in 1..m : n = announced - m + i
      BY <2>1 DEF Bridge!Range
    <3>2. (\E i \in 1..m : n = announced - m + i) <=> n > announced - m
      <4>1. ASSUME n > announced - m PROVE \E i \in 1..m : n = announced - m + i
        <5>1. n - (announced - m) \in 1..m /\ n = announced - m + (n - (announced - m))
          BY <2>1, <4>1
        <5> QED BY <5>1
      <4>2. ASSUME NEW i \in 1..m, n = announced - m + i PROVE n > announced - m
        BY <2>1, <4>2
      <4> QED BY <4>1, <4>2
    <3>3. n > announced - m <=> n > cleared /\ n > announced - QueueLimit
      BY <2>1
    <3> QED BY <3>1, <3>2, <3>3
  <2>3. \A i, j \in 1..m : i < j => announcements[i] < announcements[j]
    <3> TAKE i, j \in 1..m
    <3>1. /\ announcements[i] = announced - m + i /\ announcements[j] = announced - m + j
          /\ i \in Int /\ j \in Int /\ m \in Int /\ announced \in Int
      BY <2>1
    <3>2. i < j => announced - m + i < announced - m + j
      BY <3>1
    <3> QED BY <3>1, <3>2
  <2>4. Len(announcements) <= QueueLimit /\ DOMAIN announcements = 1..m
    BY <2>1 DEF m
  <2> QED BY ONLY <2>2, <2>3, <2>4, Zenon DEF Bridge!QueueIsNewest
<1> QED BY <1>1, ReaderInvKept, PTL

(***************************************************************************)
(* The alerts of the quality monitor, for any threads, voices and scores.  *)
(* Unless two threads were between the test and the setting of a voice's   *)
(* time, at most one thread is about to alert of a voice, and its cooldown *)
(* is over; and no alert of a voice is younger than the time that is kept  *)
(* for it. (Analytics has two more sections, whose parameters do not       *)
(* matter here.)                                                           *)
(***************************************************************************)
CONSTANTS
  QualityThreads, QualityVoices, Scores, Threshold, LowThreshold, Cooldown, Window, MaxSamples,
  QualityMaxRecords, QualityEndTime
VARIABLES qualityTime, samples, alerts, lastAlert, recording, threshold, sampled, qualityRaced

Monitor == INSTANCE Analytics WITH
  CostThreads <- {}, Jobs <- {}, CostRetention <- 0, PeriodDays <- 1, RecentDays <- 0, CostMaxRecords <- 0,
  CostEndTime <- 0, costTime <- 0, records <- <<>>, attributing <- <<>>, attributed <- <<>>, costRaced <- FALSE,
  UsageRetention <- 0, MaxLatencies <- 0, UsageMaxRecords <- 0, UsageEndTime <- 0,
  usageTime <- 0, metrics <- <<>>, latencies <- <<>>, recorded <- <<>>

\* A score is a number, and set_alert() lowers the threshold.
QualityConfig ==
  Scores \subseteq Nat /\ Cooldown \in Nat /\ Threshold \in Nat /\ LowThreshold \in 0..Threshold

PCs == {"out", "check", "alert"}
Recordings == [pc : PCs, voice : QualityVoices \cup {""}, score : Nat, now : Nat]
AlertRecords == [voice : QualityVoices \cup {""}, checked : Nat, at : Nat, score : Nat]

AboutTo(t) == recording[t].pc = "alert"
Apart(m, n) == n - m >= Cooldown
\* The time kept for a voice allows one more alert at n.
Cool(v, n) == v \in DOMAIN lastAlert => Apart(lastAlert[v], n)

QualityTypes ==
  /\ qualityTime \in Nat /\ threshold \in Nat /\ threshold <= Threshold
  /\ recording \in [QualityThreads -> Recordings]
  /\ alerts \in Seq(AlertRecords)
  /\ \A v \in DOMAIN lastAlert : lastAlert[v] \in Nat

\* Nothing is dated in the future.
Dated ==
  /\ \A t \in QualityThreads : recording[t].now <= qualityTime
  /\ \A i \in 1..Len(alerts) : alerts[i].checked <= alerts[i].at

BelowThreshold ==
  /\ \A t \in QualityThreads : AboutTo(t) => recording[t].score \in 1..(Threshold - 1)
  /\ \A i \in 1..Len(alerts) : alerts[i].score \in 1..(Threshold - 1)

OneAlertsOfAVoice ==
  \A t, u \in QualityThreads : t # u /\ AboutTo(t) /\ AboutTo(u) => recording[t].voice # recording[u].voice
CooledAlerts ==
  \A t \in QualityThreads : AboutTo(t) => Cool(recording[t].voice, recording[t].now)
LastIsNewest ==
  \A i \in 1..Len(alerts) :
    alerts[i].voice \in DOMAIN lastAlert /\ alerts[i].checked <= lastAlert[alerts[i].voice]
CooldownApart ==
  \A i, j \in 1..Len(alerts) : i < j /\ alerts[i].voice = alerts[j].voice => Apart(alerts[i].checked, alerts[j].checked)

QualityInv ==
  /\ QualityTypes
  /\ Dated
  /\ BelowThreshold
  /\ ~qualityRaced => OneAlertsOfAVoice /\ CooledAlerts /\ LastIsNewest /\ CooldownApart

LEMMA QualityOutTyped ==
  Monitor!QualityOut \in Recordings /\ Monitor!QualityOut.pc # "alert" /\ Monitor!QualityOut.now = 0
BY DEF Monitor!QualityOut, Recordings, PCs

LEMMA QualityInvInit == ASSUME QualityConfig, Monitor!QualityInit PROVE QualityInv
<1>1. /\ alerts = <<>> /\ recording = [t \in QualityThreads |-> Monitor!QualityOut]
      /\ qualityTime = 1 /\ threshold = Threshold /\ DOMAIN lastAlert = {}
  BY DEF Monitor!QualityInit
<1>2. QualityTypes
  <2>1. recording \in [QualityThreads -> Recordings]
    BY <1>1, QualityOutTyped
  <2>2. alerts \in Seq(AlertRecords) /\ qualityTime \in Nat /\ threshold \in Nat /\ threshold <= Threshold
    BY <1>1 DEF QualityConfig
  <2> QED BY <1>1, <2>1, <2>2 DEF QualityTypes
<1>3. \A t \in QualityThreads : ~AboutTo(t)
  BY <1>1, QualityOutTyped DEF AboutTo
<1>4. 1..Len(alerts) = {}
  BY <1>1
<1>5. Dated
  BY <1>1, <1>4, QualityOutTyped DEF Dated
<1> QED BY <1>2, <1>3, <1>4, <1>5 DEF QualityInv, BelowThreshold, OneAlertsOfAVoice, CooledAlerts, LastIsNewest, CooldownApart


\* A thread goes on to r, and no alert is touched.
LEMMA StepKeeps ==
  ASSUME QualityInv, NEW t \in QualityThreads, NEW r \in Recordings, r.now <= qualityTime,
         recording' = [recording EXCEPT ![t] = r],
         alerts' = alerts, lastAlert' = lastAlert, qualityTime' = qualityTime, threshold' = threshold,
         r.pc = "alert" => r.score \in 1..(Threshold - 1) /\ Cool(r.voice, r.now),
         ~qualityRaced' => ~qualityRaced,
         ~qualityRaced' /\ r.pc = "alert" =>
           \A u \in QualityThreads \ {t} : AboutTo(u) => recording[u].voice # r.voice
  PROVE  QualityInv'
<1>1. recording \in [QualityThreads -> Recordings]
  BY DEF QualityInv, QualityTypes
<1>2. recording' \in [QualityThreads -> Recordings]
  BY <1>1
<1>3. recording'[t] = r /\ \A u \in QualityThreads \ {t} : recording'[u] = recording[u]
  BY <1>1
<1>4. QualityTypes'
  BY <1>2 DEF QualityInv, QualityTypes
<1>5. BelowThreshold' /\ Dated'
  <2>1. BelowThreshold'
    BY <1>3 DEF QualityInv, BelowThreshold, AboutTo
  <2>2. Dated'
    BY <1>3 DEF QualityInv, Dated
  <2> QED BY <2>1, <2>2
<1>6. ASSUME ~qualityRaced' PROVE OneAlertsOfAVoice'
  BY <1>3, <1>6 DEF QualityInv, OneAlertsOfAVoice, AboutTo
<1>7. ASSUME ~qualityRaced' PROVE CooledAlerts'
  BY <1>3, <1>7 DEF QualityInv, CooledAlerts, AboutTo, Cool
<1>8. ASSUME ~qualityRaced' PROVE LastIsNewest' /\ CooldownApart'
  BY <1>8 DEF QualityInv, LastIsNewest, CooldownApart
<1> QED BY <1>4, <1>5, <1>6, <1>7, <1>8 DEF QualityInv

LEMMA SampleKeeps ==
  ASSUME QualityConfig, QualityInv, NEW t \in QualityThreads, NEW v \in QualityVoices, NEW s \in Scores,
         Monitor!Sample(t, v, s)
  PROVE  QualityInv'
<1> DEFINE r == [pc |-> "check", voice |-> v, score |-> s, now |-> qualityTime]
<1>1. r \in Recordings /\ r.pc # "alert" /\ r.now <= qualityTime
  <2>1. qualityTime \in Nat /\ s \in Nat
    BY DEF QualityConfig, QualityInv, QualityTypes
  <2>2. r \in Recordings /\ r.pc # "alert" /\ r.now = qualityTime
    BY <2>1 DEF Recordings, PCs
  <2> HIDE DEF r
  <2> QED BY <2>1, <2>2
<1>2. /\ recording' = [recording EXCEPT ![t] = r] /\ alerts' = alerts /\ lastAlert' = lastAlert
      /\ qualityTime' = qualityTime /\ threshold' = threshold /\ qualityRaced' = qualityRaced
  BY DEF Monitor!Sample
<1> HIDE DEF r
<1> QED BY <1>1, <1>2, StepKeeps

LEMMA CheckKeeps ==
  ASSUME QualityConfig, QualityInv, NEW t \in QualityThreads, Monitor!CheckAlert(t)
  PROVE  QualityInv'
<1> DEFINE old == recording[t]
           alarmed == old.score # 0 /\ old.score < threshold /\ Monitor!Cooled(t)
           r == IF alarmed THEN [old EXCEPT !.pc = "alert"] ELSE Monitor!QualityOut
<1>1. /\ recording \in [QualityThreads -> Recordings] /\ old \in Recordings
      /\ old.now <= qualityTime /\ qualityTime \in Nat
  BY DEF QualityInv, QualityTypes, Dated
<1>2. /\ recording' = [recording EXCEPT ![t] = r] /\ alerts' = alerts /\ lastAlert' = lastAlert
      /\ qualityTime' = qualityTime /\ threshold' = threshold
  BY <1>1 DEF Monitor!CheckAlert
<1>3. /\ ~qualityRaced' => ~qualityRaced
      /\ ~qualityRaced' => \A u \in QualityThreads \ {t} : AboutTo(u) => recording[u].voice # old.voice
  BY DEF Monitor!CheckAlert, AboutTo
<1>4. CASE alarmed
  <2>1. r = [old EXCEPT !.pc = "alert"]
    BY <1>4
  <2>2. r \in Recordings /\ r.voice = old.voice /\ r.score = old.score /\ r.now = old.now
    BY <1>1, <2>1 DEF Recordings, PCs
  <2>3. r.score \in 1..(Threshold - 1)
    <3>1. threshold \in Nat /\ threshold <= Threshold /\ Threshold \in Nat /\ old.score \in Nat
      BY <1>1 DEF QualityInv, QualityTypes, QualityConfig, Recordings
    <3> QED BY <1>4, <2>2, <3>1
  <2>4. Cool(r.voice, r.now)
    BY <1>4, <2>2 DEF Cool, Apart, Monitor!Cooled
  <2>5. r.now <= qualityTime
    BY <1>1, <2>2
  <2> HIDE DEF r, old
  <2> QED BY <1>2, <1>3, <2>2, <2>3, <2>4, <2>5, StepKeeps
<1>5. CASE ~alarmed
  <2>1. r \in Recordings /\ r.pc # "alert" /\ r.now <= qualityTime
    BY <1>1, <1>5, QualityOutTyped
  <2> HIDE DEF r
  <2> QED BY <1>2, <1>3, <2>1, StepKeeps
<1> QED BY <1>4, <1>5

LEMMA AlertKeeps ==
  ASSUME QualityConfig, QualityInv, NEW t \in QualityThreads, Monitor!Alert(t)
  PROVE  QualityInv'
<1> DEFINE r == recording[t]
           a == [voice |-> r.voice, checked |-> r.now, at |-> qualityTime, score |-> r.score]
           n == Len(alerts)
<1>1. recording \in [QualityThreads -> Recordings] /\ r \in Recordings /\ AboutTo(t)
  BY DEF QualityInv, QualityTypes, Monitor!Alert, AboutTo
<1>2. /\ a \in AlertRecords /\ a.voice = r.voice /\ a.checked = r.now /\ a.score = r.score
      /\ r.now \in Nat /\ a.checked <= a.at /\ qualityTime \in Nat
  BY <1>1 DEF Recordings, AlertRecords, QualityInv, QualityTypes, Dated
<1>3. /\ alerts' = Append(alerts, a) /\ recording' = [recording EXCEPT ![t] = Monitor!QualityOut]
      /\ lastAlert' = [v \in DOMAIN lastAlert \cup {r.voice} |-> IF v = r.voice THEN r.now ELSE lastAlert[v]]
      /\ qualityTime' = qualityTime /\ threshold' = threshold /\ qualityRaced' = qualityRaced
  BY DEF Monitor!Alert
<1> HIDE DEF r, a
<1>4. /\ alerts' \in Seq(AlertRecords) /\ n \in Nat /\ Len(alerts') = n + 1
      /\ alerts'[n + 1] = a /\ \A i \in 1..n : alerts'[i] = alerts[i] /\ alerts[i].checked \in Nat
  <2>1. alerts \in Seq(AlertRecords)
    BY DEF QualityInv, QualityTypes
  <2>2. \A i \in 1..n : alerts[i] \in AlertRecords
    BY <2>1
  <2>3. \A i \in 1..n : alerts[i].checked \in Nat
    BY <2>2 DEF AlertRecords
  <2>4. n \in Nat /\ alerts' \in Seq(AlertRecords) /\ Len(alerts') = n + 1
        /\ alerts'[n + 1] = a /\ \A i \in 1..n : alerts'[i] = alerts[i]
    BY <1>2, <1>3, <2>1
  <2> QED BY <2>3, <2>4
<1>5. /\ r.voice \in DOMAIN lastAlert' /\ lastAlert'[r.voice] = r.now
      /\ \A v \in DOMAIN lastAlert \ {r.voice} : v \in DOMAIN lastAlert' /\ lastAlert'[v] = lastAlert[v]
      /\ DOMAIN lastAlert' = DOMAIN lastAlert \cup {r.voice}
  BY <1>3
<1>6. /\ recording' \in [QualityThreads -> Recordings] /\ ~AboutTo(t)'
      /\ \A u \in QualityThreads \ {t} : recording'[u] = recording[u]
  BY <1>1, <1>3, QualityOutTyped DEF AboutTo
<1>7. QualityTypes'
  <2>1. \A v \in DOMAIN lastAlert' : lastAlert'[v] \in Nat
    BY <1>2, <1>5 DEF QualityInv, QualityTypes
  <2> QED BY <1>3, <1>4, <1>6, <2>1 DEF QualityInv, QualityTypes
<1>8. BelowThreshold'
  <2>1. a.score \in 1..(Threshold - 1)
    BY <1>1, <1>2 DEF QualityInv, BelowThreshold, r
  <2>2. \A i \in 1..Len(alerts') : alerts'[i].score \in 1..(Threshold - 1)
    <3> TAKE i \in 1..Len(alerts')
    <3>1. i = n + 1 \/ i \in 1..n
      BY <1>4
    <3> QED BY <1>4, <2>1, <3>1 DEF QualityInv, BelowThreshold
  <2> QED BY <1>6, <2>2 DEF QualityInv, BelowThreshold, AboutTo
<1>10. Dated'
  <2>1. \A i \in 1..Len(alerts') : alerts'[i].checked <= alerts'[i].at
    <3> TAKE i \in 1..Len(alerts')
    <3>1. i = n + 1 \/ i \in 1..n
      BY <1>4
    <3> QED BY <1>2, <1>4, <3>1 DEF QualityInv, Dated
  <2>2. \A u \in QualityThreads : recording'[u].now <= qualityTime
    <3>1. recording'[t].now = 0
      BY <1>1, <1>3, QualityOutTyped
    <3> QED BY <1>2, <1>6, <3>1 DEF QualityInv, Dated
  <2> QED BY <1>3, <2>1, <2>2 DEF Dated
<1>9. ASSUME ~qualityRaced' PROVE OneAlertsOfAVoice' /\ CooledAlerts' /\ LastIsNewest' /\ CooldownApart'
  <2>0. OneAlertsOfAVoice /\ CooledAlerts /\ LastIsNewest /\ CooldownApart
    BY <1>3, <1>9 DEF QualityInv
  <2>1. OneAlertsOfAVoice'
    BY <1>6, <2>0 DEF OneAlertsOfAVoice, AboutTo
  <2>2. CooledAlerts'
    <3> SUFFICES ASSUME NEW u \in QualityThreads, AboutTo(u)' PROVE Cool(recording[u].voice, recording[u].now)'
      BY DEF CooledAlerts
    <3>1. u # t /\ recording'[u] = recording[u] /\ AboutTo(u)
      BY <1>6 DEF AboutTo
    <3>2. recording[u].voice # r.voice /\ Cool(recording[u].voice, recording[u].now)
      BY <1>1, <2>0, <3>1 DEF OneAlertsOfAVoice, CooledAlerts, r
    <3> QED BY <1>5, <3>1, <3>2 DEF Cool
  <2>3. Cool(r.voice, r.now)
    BY <1>1, <2>0 DEF CooledAlerts, r
  <2>4. \A i \in 1..n : alerts[i].voice = r.voice => alerts[i].checked <= r.now /\ Apart(alerts[i].checked, r.now)
    <3> TAKE i \in 1..n
    <3> HAVE alerts[i].voice = r.voice
    <3>1. r.voice \in DOMAIN lastAlert /\ alerts[i].checked <= lastAlert[r.voice]
      BY <2>0 DEF LastIsNewest
    <3>2. lastAlert[r.voice] \in Nat /\ alerts[i].checked \in Nat /\ Cooldown \in Nat /\ r.now \in Nat
      BY <1>2, <1>4, <3>1 DEF QualityInv, QualityTypes, QualityConfig
    <3>3. r.now - lastAlert[r.voice] >= Cooldown
      BY <2>3, <3>1 DEF Cool, Apart
    <3> QED BY <3>1, <3>2, <3>3 DEF Apart
  <2>5. LastIsNewest'
    <3> SUFFICES ASSUME NEW i \in 1..Len(alerts')
                 PROVE  alerts'[i].voice \in DOMAIN lastAlert' /\ alerts'[i].checked <= lastAlert'[alerts'[i].voice]
      BY DEF LastIsNewest
    <3>1. CASE i = n + 1
      BY <1>2, <1>4, <1>5, <3>1
    <3>2. CASE i \in 1..n
      <4>1. alerts'[i] = alerts[i] /\ alerts[i].voice \in DOMAIN lastAlert /\ alerts[i].checked <= lastAlert[alerts[i].voice]
        BY <1>4, <2>0, <3>2 DEF LastIsNewest
      <4>2. CASE alerts[i].voice = r.voice
        BY <1>5, <2>4, <3>2, <4>1, <4>2
      <4>3. CASE alerts[i].voice # r.voice
        BY <1>5, <4>1, <4>3
      <4> QED BY <4>2, <4>3
    <3> QED BY <1>4, <3>1, <3>2
  <2>6. CooldownApart'
    <3> SUFFICES ASSUME NEW i \in 1..Len(alerts'), NEW j \in 1..Len(alerts'), i < j, alerts'[i].voice = alerts'[j].voice
                 PROVE  Apart(alerts'[i].checked, alerts'[j].checked)
      BY DEF CooldownApart, Apart
    <3>1. i \in 1..n /\ (j \in 1..n \/ j = n + 1)
      BY <1>4
    <3>2. CASE j \in 1..n
      BY <1>4, <2>0, <3>1, <3>2 DEF CooldownApart
    <3>3. CASE j = n + 1
      BY <1>2, <1>4, <2>4, <3>1, <3>3
    <3> QED BY <3>1, <3>2, <3>3
  <2> QED BY <2>1, <2>2, <2>5, <2>6
<1> QED BY <1>7, <1>8, <1>9, <1>10 DEF QualityInv

LEMMA QualityInvNext ==
  ASSUME QualityConfig, QualityInv, [Monitor!QualityNext]_(Monitor!qualityVars)
  PROVE  QualityInv'
<1>1. ASSUME NEW t \in QualityThreads, \/ \E v \in QualityVoices, s \in Scores : Monitor!Sample(t, v, s)
                                       \/ Monitor!CheckAlert(t) \/ Monitor!Alert(t)
      PROVE  QualityInv'
  BY <1>1, SampleKeeps, CheckKeeps, AlertKeeps
<1>2. ASSUME UNCHANGED <<alerts, lastAlert, recording, qualityRaced>>, qualityTime' \in Nat, qualityTime <= qualityTime',
             threshold' \in Nat, threshold' <= Threshold
      PROVE  QualityInv'
  <2>1. QualityTypes' /\ BelowThreshold'
    BY <1>2 DEF QualityInv, QualityTypes, BelowThreshold, AboutTo
  <2>3. Dated'
    <3>1. \A t \in QualityThreads : recording[t].now \in Nat
      BY DEF QualityInv, QualityTypes, Recordings
    <3>2. qualityTime \in Nat
      BY DEF QualityInv, QualityTypes
    <3> QED BY <1>2, <3>1, <3>2 DEF QualityInv, Dated
  <2>2. ~qualityRaced' => (OneAlertsOfAVoice /\ CooledAlerts /\ LastIsNewest /\ CooldownApart)'
    BY <1>2 DEF QualityInv, OneAlertsOfAVoice, CooledAlerts, LastIsNewest, CooldownApart, AboutTo, Cool
  <2> QED BY <2>1, <2>2, <2>3 DEF QualityInv
<1>3. CASE Monitor!SetAlert \/ Monitor!QualityTick \/ UNCHANGED Monitor!qualityVars
  <2>1. UNCHANGED <<alerts, lastAlert, recording, qualityRaced>>
    BY <1>3 DEF Monitor!SetAlert, Monitor!QualityTick, Monitor!qualityVars
  <2>2. /\ qualityTime' \in Nat /\ qualityTime <= qualityTime'
        /\ threshold' \in Nat /\ threshold' <= Threshold
    BY <1>3 DEF Monitor!SetAlert, Monitor!QualityTick, Monitor!qualityVars, QualityInv, QualityTypes, QualityConfig
  <2> QED BY <1>2, <2>1, <2>2
<1> QED BY <1>1, <1>3 DEF Monitor!QualityNext

\* quality.py: the checks that led to two alerts of a voice are a cooldown apart unless two
\* threads were between the test and the setting of its time, and the later alert is stamped
\* a cooldown after the check of the earlier one; nobody is alerted of a score that is not
\* below the first threshold; for any threads, voices, scores and cooldown.
THEOREM AlertsKept == ASSUME QualityConfig PROVE Monitor!QualitySpec => []Monitor!AlertsSpaced
<1>1. QualityInv => Monitor!AlertsSpaced
  <2> SUFFICES ASSUME QualityInv PROVE Monitor!AlertsSpaced
    OBVIOUS
  <2>1. DOMAIN alerts = 1..Len(alerts)
    BY DEF QualityInv, QualityTypes
  <2>2. ASSUME ~qualityRaced, NEW i \in 1..Len(alerts), NEW j \in 1..Len(alerts), i < j,
               alerts[i].voice = alerts[j].voice
        PROVE  /\ alerts[j].checked - alerts[i].checked >= Cooldown
               /\ alerts[j].at - alerts[i].checked >= Cooldown
    <3>1. /\ alerts[i] \in AlertRecords /\ alerts[j] \in AlertRecords
          /\ alerts[j].checked <= alerts[j].at
      BY DEF QualityInv, QualityTypes, Dated
    <3>2. alerts[j].checked - alerts[i].checked >= Cooldown
      BY <2>2 DEF QualityInv, CooldownApart, Apart
    <3>3. /\ alerts[i].checked \in Nat /\ alerts[j].checked \in Nat /\ alerts[j].at \in Nat
          /\ Cooldown \in Nat
      BY <3>1 DEF AlertRecords, QualityConfig
    <3> QED BY <3>1, <3>2, <3>3
  <2> QED BY <2>1, <2>2 DEF QualityInv, BelowThreshold, Monitor!AlertsSpaced
<1> QED BY <1>1, QualityInvInit, QualityInvNext, PTL DEF Monitor!QualitySpec

(***************************************************************************)
(* The spatial graph, for any names and limit: sources are never more than *)
(* the limit, and a movement has its source. (Scenes has two more          *)
(* sections, whose parameters do not matter here.)                         *)
(***************************************************************************)
CONSTANTS SpatialNames, MaxSources, Times, Distances, MaxSpeed, MaxKeyframes
VARIABLES listener, downmix, sources, paths

Spatial == INSTANCE Scenes WITH
  Lengths <- {}, SceneDurations <- {}, Transitions <- {}, Starts <- {},
  segments <- <<>>, music <- 0, effects <- <<>>, cursor <- 0, calls <- 0, layers <- <<>>, mix <- <<>>,
  TalkNames <- {}, TalkDurations <- {}, Overlaps <- {}, MaxTurns <- 0,
  speakers <- <<>>, turns <- <<>>, config <- <<>>, removed <- FALSE

LEMMA SameCardinality == ASSUME NEW S PROVE Spatial!Cardinality(S) = Cardinality(S)
BY Zenon DEF Spatial!Cardinality, Cardinality

SpatialInv ==
  /\ IsFiniteSet(DOMAIN sources) /\ Cardinality(DOMAIN sources) <= MaxSources
  /\ DOMAIN paths \subseteq DOMAIN sources

LEMMA SpatialInvInit == ASSUME MaxSources \in Nat, Spatial!SpatialInit PROVE SpatialInv
<1>1. DOMAIN sources = {} /\ DOMAIN paths = {}
  BY DEF Spatial!SpatialInit
<1> QED BY <1>1, FS_EmptySet DEF SpatialInv

LEMMA SourceAdded ==
  ASSUME MaxSources \in Nat, SpatialInv, NEW n, NEW z, Spatial!AddSource(n, z)
  PROVE  SpatialInv'
<1> DEFINE D == DOMAIN sources
<1>1. /\ n \notin D /\ Cardinality(D) < MaxSources /\ DOMAIN sources' = D \cup {n} /\ paths' = paths
  BY SameCardinality DEF Spatial!AddSource
<1>2. IsFiniteSet(D) /\ Cardinality(D) \in Nat
  BY FS_CardinalityType DEF SpatialInv
<1>3. IsFiniteSet(D \cup {n}) /\ Cardinality(D \cup {n}) = Cardinality(D) + 1
  BY <1>1, <1>2, FS_AddElement
<1> QED BY <1>1, <1>2, <1>3 DEF SpatialInv

LEMMA SourceRemoved ==
  ASSUME MaxSources \in Nat, SpatialInv, NEW n, Spatial!RemoveSource(n)
  PROVE  SpatialInv'
<1> DEFINE D == DOMAIN sources
<1>1. n \in D /\ DOMAIN sources' = D \ {n} /\ DOMAIN paths' = DOMAIN paths \ {n}
  BY DEF Spatial!RemoveSource
<1>2. IsFiniteSet(D) /\ Cardinality(D) \in Nat
  BY FS_CardinalityType DEF SpatialInv
<1>3. IsFiniteSet(D \ {n}) /\ Cardinality(D \ {n}) = Cardinality(D) - 1
  BY <1>1, <1>2, FS_RemoveElement
<1> QED BY <1>1, <1>2, <1>3 DEF SpatialInv

LEMMA SpatialInvNext ==
  ASSUME MaxSources \in Nat, SpatialInv, [Spatial!SpatialNext]_(Spatial!spatialVars)
  PROVE  SpatialInv'
<1>1. ASSUME NEW n \in SpatialNames, (\E z \in Distances : Spatial!AddSource(n, z)) \/ Spatial!RemoveSource(n)
      PROVE  SpatialInv'
  BY <1>1, SourceAdded, SourceRemoved
<1>2. ASSUME sources' = sources, DOMAIN paths' \subseteq DOMAIN sources PROVE SpatialInv'
  BY <1>2 DEF SpatialInv
<1>3. ASSUME NEW n \in SpatialNames,
             Spatial!AddMovement(n) \/ \E key \in Spatial!Keyframes : Spatial!AddKeyframe(n, key)
      PROVE  SpatialInv'
  <2>1. CASE Spatial!AddMovement(n)
    BY <1>2, <2>1 DEF Spatial!AddMovement, SpatialInv
  <2>2. ASSUME NEW key \in Spatial!Keyframes, Spatial!AddKeyframe(n, key) PROVE SpatialInv'
    BY <1>2, <2>2 DEF Spatial!AddKeyframe, SpatialInv
  <2> QED BY <1>3, <2>1, <2>2
<1>4. CASE Spatial!SetListener \/ Spatial!SetDownmix \/ UNCHANGED Spatial!spatialVars
  BY <1>2, <1>4 DEF Spatial!SetListener, Spatial!SetDownmix, Spatial!spatialVars, SpatialInv
<1> QED BY <1>1, <1>3, <1>4 DEF Spatial!SpatialNext

\* v3/spatial.py: a movement belongs to a source that is there, so that a source that is removed
\* and added again does not move as before, and there are never more sources than MAX_SOURCES,
\* for any names and limit.
THEOREM PathsKept == ASSUME MaxSources \in Nat PROVE Spatial!SpatialSpec => []Spatial!PathsOfSources
<1>1. SpatialInv => Spatial!PathsOfSources
  BY SameCardinality DEF SpatialInv, Spatial!PathsOfSources
<1> QED BY <1>1, SpatialInvInit, SpatialInvNext, PTL DEF Spatial!SpatialSpec
=============================================================================
