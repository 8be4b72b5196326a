---------------------------- MODULE ServerProofs ----------------------------
(***************************************************************************)
(* Proofs about the life of the pool-api process, for any number of        *)
(* requests, samples, crashes and restarts: samples are in one place, the  *)
(* persisted intent and the settings are what they should be when nobody   *)
(* is excused, and a shutdown loses nothing and hands the pump back.  Four *)
(* invariants that do not need each other are proved one after the other.  *)
(*                                                                         *)
(* First comes what each operation on the telemetry preserves, for any     *)
(* buffer size and any number of overlapping flushes.                      *)
(***************************************************************************)
EXTENDS Server, SequenceTheorems, TLAPS

Types ==
    /\ recorded \in Nat
    /\ buffer \in Seq(Nat)
    /\ batch \in [Flushes -> Seq(Nat)]
    /\ purging \in BOOLEAN

\* What a reset has to remove is nowhere from where it could come back.
WipedIsGone ==
    /\ wiped \subseteq 1..recorded
    /\ wiped \cap Range(buffer) = {}
    /\ wiped \cap InBatches = {}

SamplesInv == Types /\ EachSampleOnce /\ WipedIsGone /\ ResetWipes

-----------------------------------------------------------------------------
(* Ranges.                                                                 *)

\* The SMT backend does not know this of a variable that was set to FALSE.
LEMMA FalseIsBoolean == \A b : b = FALSE => b \in BOOLEAN
<1>1. QED
  OBVIOUS

\* The members of an empty list, of one with a member more,
LEMMA RangeOfEmpty == Range(<<>>) = {}
<1>1. QED
  BY DEF Range

\* of a list with a member more,
LEMMA RangeOfAppend ==
    ASSUME NEW s \in Seq(Nat), NEW e \in Nat
    PROVE  Append(s, e) \in Seq(Nat) /\ Range(Append(s, e)) = Range(s) \cup {e}
<1> DEFINE t == Append(s, e)
<1>1. t \in Seq(Nat) /\ DOMAIN t = 1..Len(s) + 1 /\ DOMAIN s = 1..Len(s)
  OBVIOUS
<1>2. \A i \in 1..Len(s) : t[i] = s[i]
  OBVIOUS
<1>3. t[Len(s) + 1] = e
  OBVIOUS
<1>4. QED
  BY <1>1, <1>2, <1>3 DEF Range

\* and of the end of a list.
LEMMA RangeOfSuffix ==
    ASSUME NEW s \in Seq(Nat), NEW d \in Nat, d < Len(s)
    PROVE  /\ SubSeq(s, d + 1, Len(s)) \in Seq(Nat)
           /\ Range(SubSeq(s, d + 1, Len(s))) \subseteq Range(s)
<1> DEFINE t == SubSeq(s, d + 1, Len(s))
<1>1. Len(s) \in Nat /\ DOMAIN s = 1..Len(s) /\ \A k \in 1..Len(s) : s[k] \in Nat
  OBVIOUS
<1>2. \A k \in d + 1 .. Len(s) : s[k] \in Nat
  BY <1>1
<1>3. /\ t \in Seq(Nat)
      /\ \A k \in 1 .. Len(s) - (d + 1) + 1 : t[k] = s[(d + 1) + k - 1]
      /\ Len(t) = Len(s) - (d + 1) + 1
  <2> DEFINE m == d + 1
             n == Len(s)
  <2>1. m \in Int /\ n \in Int /\ m <= n
    BY <1>1
  <2>2. \A k \in m .. n : s[k] \in Nat
    BY <1>2
  <2>3. t = SubSeq(s, m, n)
    OBVIOUS
  <2> HIDE DEF m, n, t
  <2>4. /\ SubSeq(s, m, n) \in Seq(Nat)
        /\ Len(SubSeq(s, m, n)) = IF m <= n THEN n - m + 1 ELSE 0
        /\ \A k \in 1 .. n - m + 1 : SubSeq(s, m, n)[k] = s[m + k - 1]
    BY <2>1, <2>2, SubSeqProperties, SMTT(30)
  <2>5. QED
    BY <2>1, <2>3, <2>4 DEF m, n
<1>4. DOMAIN t = 1 .. Len(s) - (d + 1) + 1
  BY <1>3
<1>5. \A k \in 1 .. Len(s) - (d + 1) + 1 : (d + 1) + k - 1 \in 1..Len(s)
  BY <1>1
<1> HIDE DEF t
<1>6. Range(t) \subseteq Range(s)
  BY <1>1, <1>3, <1>4, <1>5 DEF Range
<1>7. QED
  BY <1>3, <1>6 DEF t

\* The cap keeps a part of the buffer.
LEMMA RangeOfNewest ==
    ASSUME NEW s \in Seq(Nat)
    PROVE  Newest(s) \in Seq(Nat) /\ Range(Newest(s)) \subseteq Range(s)
<1>1. CASE Len(s) <= MAX_BUFFER
  BY <1>1 DEF Newest
<1>2. CASE ~(Len(s) <= MAX_BUFFER)
  <2>1. Len(s) - MAX_BUFFER \in Nat /\ Len(s) - MAX_BUFFER < Len(s)
    BY <1>2, TelemetryAssumption
  <2>2. QED
    BY <1>2, <2>1, RangeOfSuffix DEF Newest
<1>3. QED
  BY <1>1, <1>2

InBatchesOf(b) == UNION {Range(b[f]) : f \in Flushes}

\* A free flush takes samples,
LEMMA BatchTaken ==
    ASSUME NEW b \in [Flushes -> Seq(Nat)], NEW f \in Flushes, b[f] = <<>>,
           NEW s \in Seq(Nat)
    PROVE  InBatchesOf([b EXCEPT ![f] = s]) = InBatchesOf(b) \cup Range(s)
<1>1. QED
  BY RangeOfEmpty DEF InBatchesOf

\* and gives them up again, and no others.
LEMMA BatchDone ==
    ASSUME NEW b \in [Flushes -> Seq(Nat)], NEW f \in Flushes,
           \A g, h \in Flushes : g # h => Range(b[g]) \cap Range(b[h]) = {}
    PROVE  InBatchesOf([b EXCEPT ![f] = <<>>]) = InBatchesOf(b) \ Range(b[f])
<1>1. QED
  BY RangeOfEmpty DEF InBatchesOf

-----------------------------------------------------------------------------
(* The operations.                                                         *)

\* At first nothing is buffered, under way or stored.
LEMMA InitSamplesInv == Init => SamplesInv
<1> SUFFICES ASSUME Init PROVE SamplesInv
  OBVIOUS
<1>1. InBatches = {}
  BY RangeOfEmpty DEF Init, None, InBatches
<1>2. Types
  BY FalseIsBoolean DEF Init, None, Types
<1>3. QED
  BY <1>1, <1>2, RangeOfEmpty
  DEF Init, None, SamplesInv, EachSampleOnce, WipedIsGone, ResetWipes

\* A new sample is in the buffer, or everything else was given up for it.
LEMMA RecordKeeps ==
    ASSUME SamplesInv, Record
    PROVE  /\ SamplesInv'
           /\ Range(buffer') \subseteq Range(buffer) \cup {recorded + 1}
<1> DEFINE all == Append(buffer, recorded + 1)
<1>1. all \in Seq(Nat) /\ Range(all) = Range(buffer) \cup {recorded + 1}
  BY RangeOfAppend DEF SamplesInv, Types
<1>2. buffer' = Newest(all) /\ given' = given \cup (Range(all) \ Range(buffer'))
  BY DEF Record
<1> HIDE DEF all
<1>3. buffer' \in Seq(Nat) /\ Range(buffer') \subseteq Range(all)
  BY <1>1, <1>2, RangeOfNewest
<1>4. recorded' = recorded + 1 /\ 1..recorded' = 1..recorded \cup {recorded + 1}
  BY DEF Record, SamplesInv, Types
<1>5. recorded + 1 \notin 1..recorded
  BY DEF SamplesInv, Types
<1>6. /\ UNCHANGED <<batch, stored, purging, wiped>>
      /\ InBatches' = InBatches
  BY DEF Record, InBatches
<1>7. Types'
  BY <1>3, <1>4, <1>6 DEF SamplesInv, Types
<1>8. EachSampleOnce'
  <2> DEFINE kept == Range(buffer')
             rest == InBatches \cup stored \cup given
  <2>1. 1..recorded = Range(buffer) \cup rest /\ Range(buffer) \cap rest = {}
    BY DEF SamplesInv, EachSampleOnce
  <2>2. kept \subseteq Range(buffer) \cup {recorded + 1}
    BY <1>1, <1>3
  <2>3. given' = given \cup ((Range(buffer) \cup {recorded + 1}) \ kept)
    BY <1>1, <1>2
  <2>4. recorded + 1 \notin rest
    BY <1>5, <2>1
  <2> HIDE DEF kept
  <2>5. /\ 1..recorded' = kept \cup InBatches' \cup stored' \cup given'
        /\ kept \cap (InBatches' \cup stored' \cup given') = {}
    BY <1>4, <1>6, <2>1, <2>2, <2>3, <2>4
  <2>6. InBatches' \cap (stored' \cup given') = {} /\ stored' \cap given' = {}
    BY <1>6, <2>1, <2>3, <2>4 DEF SamplesInv, EachSampleOnce
  <2>7. \A g, h \in Flushes : g # h => Range(batch'[g]) \cap Range(batch'[h]) = {}
    BY <1>6 DEF SamplesInv, EachSampleOnce
  <2>8. QED
    BY <2>5, <2>6, <2>7 DEF kept, EachSampleOnce
<1>9. WipedIsGone' /\ ResetWipes'
  BY <1>1, <1>3, <1>4, <1>5, <1>6 DEF SamplesInv, WipedIsGone, ResetWipes
<1>10. QED
  BY <1>1, <1>3, <1>7, <1>8, <1>9 DEF SamplesInv

\* The whole buffer moves into the flush.
LEMMA FlushKeeps ==
    ASSUME SamplesInv, NEW f \in Flushes, Flush(f)
    PROVE  SamplesInv' /\ Range(buffer') = {}
<1>1. /\ batch[f] = <<>> /\ batch' = [batch EXCEPT ![f] = buffer]
      /\ buffer' = <<>>
      /\ UNCHANGED <<recorded, stored, purging, wiped, given>>
  BY DEF Flush, TakeBuffer
<1>2. Types' /\ Range(buffer') = {} /\ Range(batch[f]) = {}
  BY <1>1, RangeOfEmpty DEF SamplesInv, Types
<1>3. InBatches' = InBatches \cup Range(buffer)
  <2>1. InBatches = InBatchesOf(batch) /\ InBatches' = InBatchesOf(batch')
    BY DEF InBatches, InBatchesOf
  <2>2. batch \in [Flushes -> Seq(Nat)] /\ buffer \in Seq(Nat)
    BY DEF SamplesInv, Types
  <2>3. QED
    BY <1>1, <2>1, <2>2, BatchTaken
<1>4. \A g \in Flushes : batch'[g] = IF g = f THEN buffer ELSE batch[g]
  BY <1>1 DEF SamplesInv, Types
<1>5. \A g \in Flushes : Range(buffer) \cap Range(batch[g]) = {}
  BY DEF SamplesInv, EachSampleOnce, InBatches
<1>6. \A g, h \in Flushes : g # h => Range(batch'[g]) \cap Range(batch'[h]) = {}
  BY <1>4, <1>5 DEF SamplesInv, EachSampleOnce
<1>7. EachSampleOnce'
  BY <1>1, <1>2, <1>3, <1>6 DEF SamplesInv, EachSampleOnce
<1>8. WipedIsGone' /\ ResetWipes'
  BY <1>1, <1>2, <1>3 DEF SamplesInv, WipedIsGone, ResetWipes
<1>9. QED
  BY <1>2, <1>7, <1>8 DEF SamplesInv

\* The batch moves on, into the table or, if it is lost, to what was given up.
LEMMA BatchEnds ==
    ASSUME SamplesInv, NEW f \in Flushes,
           batch' = [batch EXCEPT ![f] = <<>>],
           \/ stored' = stored \cup Range(batch[f]) /\ UNCHANGED given
           \/ given' = given \cup Range(batch[f]) /\ UNCHANGED stored,
           UNCHANGED <<recorded, buffer, purging, wiped>>
    PROVE  SamplesInv'
<1>1. Types'
  BY DEF SamplesInv, Types
<1>2. InBatches' = InBatches \ Range(batch[f])
  <2>1. InBatches = InBatchesOf(batch) /\ InBatches' = InBatchesOf(batch')
    BY DEF InBatches, InBatchesOf
  <2>2. /\ batch \in [Flushes -> Seq(Nat)]
        /\ \A g, h \in Flushes : g # h => Range(batch[g]) \cap Range(batch[h]) = {}
    BY DEF SamplesInv, Types, EachSampleOnce
  <2>3. QED
    BY <2>1, <2>2, BatchDone
<1>3. Range(batch[f]) \subseteq InBatches
  BY DEF InBatches
<1>4. \A g \in Flushes : Range(batch'[g]) \subseteq Range(batch[g])
  BY RangeOfEmpty DEF SamplesInv, Types
<1>5. \A g, h \in Flushes : g # h => Range(batch'[g]) \cap Range(batch'[h]) = {}
  BY <1>4 DEF SamplesInv, EachSampleOnce
<1>6. EachSampleOnce'
  BY <1>2, <1>3, <1>5 DEF SamplesInv, EachSampleOnce
<1>7. WipedIsGone' /\ ResetWipes'
  BY <1>2, <1>3 DEF SamplesInv, WipedIsGone, ResetWipes
<1>8. QED
  BY <1>1, <1>6, <1>7 DEF SamplesInv

\* An insert that ends keeps the accounts of the samples,
LEMMA InsertKeeps ==
    ASSUME SamplesInv, NEW f \in Flushes, Insert(f) \/ InsertFails(f)
    PROVE  SamplesInv' /\ buffer' = buffer
<1>1. QED
  BY BatchEnds DEF Insert, InsertFails

\* A reset: what it is to remove is in no batch, and the buffer is given up.
LEMMA PurgeKeeps ==
    ASSUME SamplesInv, Purge
    PROVE  SamplesInv' /\ Range(buffer') = {}
<1>1. /\ purging' = TRUE /\ wiped' = 1..recorded \ InBatches
      /\ given' = given \cup Range(buffer) /\ buffer' = <<>>
      /\ UNCHANGED <<recorded, batch, stored>>
      /\ InBatches' = InBatches
  BY DEF Purge, DropBuffer, InBatches
<1>2. Types' /\ Range(buffer') = {}
  BY <1>1, RangeOfEmpty DEF SamplesInv, Types
<1>3. EachSampleOnce'
  BY <1>1, <1>2 DEF SamplesInv, EachSampleOnce
<1>4. WipedIsGone' /\ ResetWipes'
  BY <1>1, <1>2 DEF SamplesInv, WipedIsGone, ResetWipes
<1>5. QED
  BY <1>2, <1>3, <1>4 DEF SamplesInv

\* and so does the deletion of a reset.
LEMMA DeleteKeeps ==
    ASSUME SamplesInv, Delete \/ DeleteFails
    PROVE  SamplesInv' /\ buffer' = buffer
<1>1. UNCHANGED <<recorded, buffer, batch>> /\ InBatches' = InBatches
  BY DEF Delete, DeleteFails, InBatches
<1>2. purging' = FALSE /\ Types'
  BY <1>1 DEF Delete, DeleteFails, SamplesInv, Types
<1>3. CASE Delete
  <2>1. stored' = {} /\ given' = given \cup stored /\ wiped' = wiped
    BY <1>3 DEF Delete
  <2>2. QED
    BY <1>1, <1>2, <2>1
    DEF SamplesInv, EachSampleOnce, WipedIsGone, ResetWipes
<1>4. CASE DeleteFails
  <2>1. wiped' = {} /\ UNCHANGED <<stored, given>>
    BY <1>4 DEF DeleteFails
  <2>2. QED
    BY <1>1, <1>2, <2>1
    DEF SamplesInv, EachSampleOnce, WipedIsGone, ResetWipes
<1>5. QED
  BY <1>3, <1>4

\* The end of the process gives the buffer up; what was sent still runs.
LEMMA BufferLost ==
    ASSUME SamplesInv,
           buffer' = <<>>, given' = given \cup Range(buffer),
           UNCHANGED <<recorded, batch, stored, purging, wiped>>
    PROVE  SamplesInv'
<1>1. InBatches' = InBatches /\ Range(buffer') = {}
  BY RangeOfEmpty DEF InBatches
<1>2. Types'
  BY DEF SamplesInv, Types
<1>3. QED
  BY <1>1, <1>2 DEF SamplesInv, EachSampleOnce, WipedIsGone, ResetWipes

-----------------------------------------------------------------------------
(* Sequences of queries under way.                                         *)

\* A list without its i-th member.
LEMMA RemoveAtFacts ==
    ASSUME NEW S, NEW s \in Seq(S), NEW i \in DOMAIN s
    PROVE  /\ RemoveAt(s, i) \in Seq(S)
           /\ Len(RemoveAt(s, i)) = Len(s) - 1
           /\ \A k \in 1 .. Len(s) - 1 :
                RemoveAt(s, i)[k] = s[IF k < i THEN k ELSE k + 1]
<1>1. i \in 1..Len(s) /\ Len(s) \in Nat /\ \A k \in 1..Len(s) : s[k] \in S
  OBVIOUS
<1>2. /\ SubSeq(s, 1, i - 1) \in Seq(S) /\ Len(SubSeq(s, 1, i - 1)) = i - 1
      /\ \A k \in 1 .. i - 1 : SubSeq(s, 1, i - 1)[k] = s[k]
  <2>1. \A k \in 1 .. i - 1 : s[k] \in S
    BY <1>1
  <2>2. QED
    BY <1>1, <2>1, SubSeqProperties, SMTT(30)
<1>3. /\ SubSeq(s, i + 1, Len(s)) \in Seq(S)
      /\ Len(SubSeq(s, i + 1, Len(s))) = Len(s) - i
      /\ \A k \in 1 .. Len(s) - i : SubSeq(s, i + 1, Len(s))[k] = s[i + k]
  <2>1. \A k \in i + 1 .. Len(s) : s[k] \in S
    BY <1>1
  <2>2. QED
    BY <1>1, <2>1, SubSeqProperties, SMTT(30)
<1>4. ASSUME NEW a \in Seq(S), NEW b \in Seq(S)
      PROVE  /\ a \o b \in Seq(S) /\ Len(a \o b) = Len(a) + Len(b)
             /\ \A k \in 1 .. Len(a) + Len(b) :
                  (a \o b)[k] = IF k <= Len(a) THEN a[k] ELSE b[k - Len(a)]
  OBVIOUS
<1>5. RemoveAt(s, i) = SubSeq(s, 1, i - 1) \o SubSeq(s, i + 1, Len(s))
  BY DEF RemoveAt
<1>6. RemoveAt(s, i) \in Seq(S)
  BY <1>2, <1>3, <1>4, <1>5
<1>7. Len(RemoveAt(s, i)) = (i - 1) + (Len(s) - i)
  BY <1>2, <1>3, <1>4, <1>5
<1>8. ASSUME NEW k \in 1 .. Len(s) - 1
      PROVE  RemoveAt(s, i)[k] = s[IF k < i THEN k ELSE k + 1]
  <2>1. RemoveAt(s, i)[k] = IF k <= i - 1 THEN SubSeq(s, 1, i - 1)[k]
                            ELSE SubSeq(s, i + 1, Len(s))[k - (i - 1)]
    <3> DEFINE a == SubSeq(s, 1, i - 1)
               b == SubSeq(s, i + 1, Len(s))
    <3>1. /\ a \in Seq(S) /\ Len(a) = i - 1
          /\ b \in Seq(S) /\ Len(b) = Len(s) - i
          /\ RemoveAt(s, i) = a \o b
      BY <1>2, <1>3, <1>5
    <3> HIDE DEF a, b
    <3>2. k \in 1 .. Len(a) + Len(b)
      BY <1>1, <3>1
    <3>3. (a \o b)[k] = IF k <= Len(a) THEN a[k] ELSE b[k - Len(a)]
      BY <1>4, <3>1, <3>2
    <3>4. RemoveAt(s, i)[k] = IF k <= i - 1 THEN a[k] ELSE b[k - (i - 1)]
      BY <3>1, <3>3
    <3>5. QED
      BY <3>4 DEF a, b
  <2>2. CASE k < i
    BY <1>1, <1>2, <2>1, <2>2
  <2>3. CASE k >= i
    <3>1. k - (i - 1) \in 1 .. Len(s) - i
      BY <1>1, <2>3
    <3>2. SubSeq(s, i + 1, Len(s))[k - (i - 1)] = s[i + (k - (i - 1))]
      BY <1>3, <3>1
    <3>3. i + (k - (i - 1)) = k + 1 /\ ~(k <= i - 1) /\ ~(k < i)
      BY <1>1, <2>3
    <3>4. QED
      BY <2>1, <3>2, <3>3
  <2>4. QED
    BY <1>1, <2>2, <2>3
<1>9. QED
  BY <1>1, <1>6, <1>7, <1>8

-----------------------------------------------------------------------------
(* The samples.                                                            *)

\* What a shutdown found in the buffer has left it for good.
DueLeft ==
    /\ due \subseteq 1..recorded
    /\ phase \in {"flushing", "closing"} => due \cap Range(buffer) = {}

SamplesIInv == SamplesInv /\ DueLeft

\* A server that starts has buffered and stored nothing.
LEMMA SInitSamples == SInit => SamplesIInv
<1>1. QED
  BY InitSamplesInv DEF SInit, SamplesIInv, DueLeft

telemetry == <<recorded, buffer, batch, stored, purging, wiped, given>>

\* Steps that do not touch the telemetry.
LEMMA TelemetryUntouched ==
    ASSUME SamplesIInv, UNCHANGED <<telemetry, due>>,
           phase' \in {"flushing", "closing"} => phase \in {"flushing", "closing"}
    PROVE  SamplesIInv'
<1>1. InBatches' = InBatches
  BY DEF telemetry, InBatches
<1>2. QED
  BY <1>1
  DEF telemetry, SamplesIInv, SamplesInv, DueLeft, Types, EachSampleOnce,
      WipedIsGone, ResetWipes

\* A flush moves the buffered samples to a batch, and is due for no other.
LEMMA FlushOfBuffer ==
    ASSUME SamplesIInv, NEW f \in Flushes, Flush(f), due' \subseteq 1..recorded
    PROVE  SamplesIInv'
<1>1. QED
  BY FlushKeeps DEF Flush, SamplesIInv, DueLeft

\* Every step of the server keeps the accounts of the samples.
LEMMA SNextSamples == SamplesIInv /\ [SNext]_svars => SamplesIInv'
<1> SUFFICES ASSUME SamplesIInv, [SNext]_svars PROVE SamplesIInv'
  OBVIOUS
<1>1. CASE UNCHANGED <<telemetry, due, phase>>
  BY <1>1, TelemetryUntouched
<1>2. CASE Samples
  <2>1. UNCHANGED <<due, phase>>
    BY <1>2 DEF Samples, process
  <2>2. CASE Open /\ Bounded /\ Record
    <3>1. SamplesInv' /\ Range(buffer') \subseteq Range(buffer) \cup {recorded + 1}
      BY <2>2, RecordKeeps DEF SamplesIInv
    <3>2. recorded' = recorded + 1 /\ recorded \in Nat
      BY <2>2 DEF Record, SamplesIInv, SamplesInv, Types
    <3>3. recorded + 1 \notin 1..recorded /\ 1..recorded \subseteq 1..recorded'
      BY <3>2
    <3>4. QED
      BY <2>1, <3>1, <3>3 DEF SamplesIInv, DueLeft
  <2>3. ASSUME NEW f \in Flushes, Flush(f)
        PROVE  SamplesIInv'
    BY <2>1, <2>3, FlushOfBuffer DEF SamplesIInv, DueLeft
  <2>4. ASSUME NEW f \in Flushes, Insert(f) \/ InsertFails(f)
        PROVE  SamplesIInv'
    BY <2>1, <2>4, InsertKeeps DEF Insert, InsertFails, SamplesIInv, DueLeft
  <2>5. CASE Delete \/ DeleteFails
    BY <2>1, <2>5, DeleteKeeps DEF Delete, DeleteFails, SamplesIInv, DueLeft
  <2>6. QED
    BY <1>2, <2>2, <2>3, <2>4, <2>5 DEF Samples
<1>3. CASE Reset
  BY <1>3, PurgeKeeps DEF Reset, Purge, process, SamplesIInv, DueLeft
<1>4. CASE Boot
  <2>1. UNCHANGED telemetry /\ due' = {} /\ phase' = "serving"
    BY <1>4 DEF Boot, vars, telemetry
  <2>2. InBatches' = InBatches
    BY <2>1 DEF telemetry, InBatches
  <2>3. QED
    BY <2>1, <2>2
    DEF telemetry, SamplesIInv, SamplesInv, DueLeft, Types, EachSampleOnce,
        WipedIsGone, ResetWipes
<1>5. CASE Sigterm
  <2>1. UNCHANGED telemetry /\ due' = 1..recorded /\ phase' = "releasing"
    BY <1>5 DEF Sigterm, vars, telemetry
  <2>2. InBatches' = InBatches
    BY <2>1 DEF telemetry, InBatches
  <2>3. QED
    BY <2>1, <2>2
    DEF telemetry, SamplesIInv, SamplesInv, DueLeft, Types, EachSampleOnce,
        WipedIsGone, ResetWipes
<1>6. CASE Release
  <2>1. due' = due
    BY <1>6 DEF Release
  <2>2. CASE buffer = <<>>
    <3>1. UNCHANGED vars
      BY <1>6, <2>2 DEF Release, FinalFlush, Close
    <3>2. InBatches' = InBatches /\ Range(buffer) = {}
      BY <2>2, <3>1, RangeOfEmpty DEF vars, InBatches
    <3>3. QED
      BY <2>1, <3>1, <3>2
      DEF vars, SamplesIInv, SamplesInv, DueLeft, Types, EachSampleOnce,
          WipedIsGone, ResetWipes
  <2>3. CASE buffer # <<>>
    <3>1. PICK f \in Flushes : Flush(f)
      BY <1>6, <2>3 DEF Release, FinalFlush
    <3>2. QED
      BY <2>1, <3>1, FlushOfBuffer DEF SamplesIInv, DueLeft
  <2>4. QED
    BY <2>2, <2>3
<1>7. CASE CloseBridge
  BY <1>7, TelemetryUntouched DEF CloseBridge, Close, vars, telemetry
<1>8. CASE Exit \/ Crash
  <2>1. ProcessEnds
    BY <1>8 DEF Exit, Crash
  <2>2. SamplesInv'
    BY <2>1, BufferLost DEF ProcessEnds, SamplesIInv
  <2>3. QED
    BY <2>1, <2>2 DEF ProcessEnds, SamplesIInv, DueLeft
<1>9. QED
  <2> USE DEF vars, telemetry, process
  <2>1. CASE \/ \E rpm \in Rpms, timed \in BOOLEAN : SetManual(rpm, timed)
             \/ ResumeSchedule \/ SetOff \/ OverrideEnds \/ KeepAlive \/ Notified
    BY <1>1, <2>1
    DEF SetManual, ResumeSchedule, SetOff, OverrideEnds, NewIntent, KeepAlive, Notified
  <2>2. CASE \E i \in DOMAIN saves : SaveRuns(i) \/ SaveFails(i)
    BY <1>1, <2>2 DEF SaveRuns, SaveFails, Fails
  <2>3. CASE \E p \in Periods : PutSettings(p)
    BY <1>1, <2>3 DEF PutSettings
  <2>4. CASE \E i \in DOMAIN updates :
               UpdateRuns(i) \/ ReadRuns(i) \/ OnSettingsChange(i)
    BY <1>1, <2>4 DEF UpdateRuns, ReadRuns, Fails, OnSettingsChange
  <2>5. CASE Written \/ \E i \in DOMAIN orders : Rejected(i)
    BY <1>1, <2>5 DEF Written, Rejected
  <2>6. CASE UNCHANGED svars
    BY <1>1, <2>6 DEF svars
  <2>7. QED
    BY <1>2, <1>3, <1>4, <1>5, <1>6, <1>7, <1>8, <2>1, <2>2, <2>3, <2>4, <2>5, <2>6
    DEF SNext

\* The accounting of the samples holds throughout the life of the process.
THEOREM SamplesAlways == SSpec => []SamplesIInv
<1>1. QED
  BY SInitSamples, SNextSamples, PTL DEF SSpec

\* Whatever flushes, resets, failures, shutdowns and crashes come together, each
\* sample is in one place.
THEOREM ServerEachSampleOnce == SSpec => []EachSampleOnce
<1>1. SamplesIInv => EachSampleOnce
  BY DEF SamplesIInv, SamplesInv
<1>2. QED
  BY <1>1, SamplesAlways, PTL

\* A reset is not undone by a later flush, nor by one after a restart.
THEOREM ServerResetWipes == SSpec => []ResetWipes
<1>1. SamplesIInv => ResetWipes
  BY DEF SamplesIInv, SamplesInv
<1>2. QED
  BY <1>1, SamplesAlways, PTL

\* When the process exits, what was sampled before the signal is stored or known
\* to be given up.
THEOREM ServerShutdownKeepsSamples == SSpec => ShutdownKeepsSamples
<1>1. SamplesIInv /\ [SNext]_svars => [Exit => due \subseteq stored \cup given]_svars
  <2> SUFFICES ASSUME SamplesIInv, Exit PROVE due \subseteq stored \cup given
    OBVIOUS
  <2>1. InBatches = {} /\ phase = "closing"
    BY RangeOfEmpty DEF Exit, None, InBatches
  <2>2. QED
    BY <2>1 DEF SamplesIInv, SamplesInv, EachSampleOnce, DueLeft
<1>2. QED
  BY <1>1, SamplesAlways, PTL DEF SSpec, ShutdownKeepsSamples

-----------------------------------------------------------------------------
(* The persisted intent.                                                   *)

Modes == {"schedule", "manual", "off"}

Intents == [mode: Modes, rpm: Rpms \cup {0}]

IntentTypes ==
    /\ cs \in [controlMode: Modes, manualRpm: Rpms \cup {0}, timed: BOOLEAN]
    /\ row \in Intents
    /\ saves \in Seq(Intents)

\* Without an excuse the newest intent is the row, or the one save under way.
SavedIsComing ==
    saved /\ phase # "down" =>
        /\ Len(saves) <= 1
        /\ saves = <<>> => row = Intent(cs)
        /\ \A i \in DOMAIN saves : saves[i] = Intent(cs)

IntentIInv == IntentTypes /\ SavedIsComing

\* A server that starts runs what it has restored.
LEMMA SInitIntent == SInit => IntentIInv
<1>1. QED
  BY DEF SInit, DefaultIntent, IntentIInv, IntentTypes, SavedIsComing, Intents, Modes

\* A change of the intent, by a request or by the end of an override.
LEMMA NewIntentKeeps ==
    ASSUME IntentIInv,
           NEW s \in [controlMode: Modes, manualRpm: Rpms \cup {0}, timed: BOOLEAN],
           NewIntent(s)
    PROVE  IntentIInv'
<1>1. Intent(s) \in Intents
  BY DEF Intent, Intents
<1>2. cs' = s /\ saves' = Append(saves, Intent(s)) /\ row' = row
  BY DEF NewIntent, EmitIntent
<1>3. IntentTypes'
  BY <1>1, <1>2 DEF IntentIInv, IntentTypes
<1>4. saved' => saves = <<>>
  BY DEF NewIntent, EmitIntent
<1>5. ASSUME saved'
      PROVE  saves' = <<Intent(cs)'>>
  BY <1>2, <1>4, <1>5 DEF Intent
<1>6. ASSUME saved'
      PROVE  /\ Len(saves') <= 1 /\ saves' # <<>>
             /\ \A i \in DOMAIN saves' : saves'[i] = Intent(cs)'
  <2> DEFINE x == Intent(cs)'
  <2>1. saves' = <<x>>
    BY <1>5, <1>6
  <2> HIDE DEF x
  <2>2. Len(saves') <= 1 /\ saves' # <<>> /\ \A i \in DOMAIN saves' : saves'[i] = x
    BY <2>1
  <2>3. QED
    BY <2>2 DEF x
<1>7. SavedIsComing'
  BY <1>6, Zenon DEF SavedIsComing
<1>8. QED
  BY <1>3, <1>7 DEF IntentIInv

\* A save that runs stores the newest intent, or is excused.
LEMMA SaveKeeps ==
    ASSUME IntentIInv, NEW i \in DOMAIN saves, SaveRuns(i) \/ SaveFails(i)
    PROVE  IntentIInv'
<1>1. saves' = RemoveAt(saves, i) /\ UNCHANGED <<cs, phase>>
  BY DEF SaveRuns, SaveFails, process
<1>2. saves' \in Seq(Intents) /\ Len(saves') = Len(saves) - 1 /\ saves[i] \in Intents
  BY <1>1, RemoveAtFacts DEF IntentIInv, IntentTypes
<1>3. CASE SaveRuns(i)
  <2>1. row' = saves[i] /\ saved' = saved
    BY <1>3 DEF SaveRuns
  <2>2. IntentTypes'
    BY <1>1, <1>2, <2>1 DEF IntentIInv, IntentTypes
  <2>3. Len(saves) \in Nat /\ Len(saves) >= 1
    BY DEF IntentIInv, IntentTypes
  <2>4. ASSUME saved', phase' # "down"
        PROVE  Len(saves') = 0 /\ row' = Intent(cs')
    BY <1>1, <1>2, <2>1, <2>3, <2>4 DEF IntentIInv, SavedIsComing, Intent
  <2>5. QED
    BY <1>2, <2>2, <2>4 DEF IntentIInv, SavedIsComing
<1>4. CASE SaveFails(i)
  BY <1>1, <1>2, <1>4 DEF SaveFails, IntentIInv, IntentTypes, SavedIsComing
<1>5. QED
  BY <1>3, <1>4

\* A boot resumes the row.
LEMMA BootKeepsIntent ==
    ASSUME IntentIInv, Boot
    PROVE  IntentIInv'
<1>1. UNCHANGED <<row, saves>>
  BY DEF Boot
<1>2. CASE Restored(row) /\ saved' = (saves = <<>>)
  <2>1. cs' = [controlMode |-> row.mode, manualRpm |-> row.rpm, timed |-> FALSE]
    BY <1>2 DEF Restored
  <2>2. IntentTypes' /\ Intent(cs') = row
    BY <1>1, <2>1 DEF IntentIInv, IntentTypes, Intents, Intent
  <2>3. ASSUME saved'
        PROVE  /\ Len(saves') <= 1 /\ row' = Intent(cs)'
               /\ \A i \in DOMAIN saves' : saves'[i] = Intent(cs)'
    <3>1. saves' = <<>>
      BY <1>1, <1>2, <2>3
    <3>2. Len(saves') <= 1 /\ DOMAIN saves' = {}
      BY <3>1
    <3>3. row' = Intent(cs)'
      BY <1>1, <2>2 DEF Intent
    <3>4. QED
      BY <3>2, <3>3, Zenon
  <2>4. SavedIsComing'
    BY <2>3, Zenon DEF SavedIsComing
  <2>5. QED
    BY <2>2, <2>4 DEF IntentIInv
<1>3. CASE Restored(DefaultIntent) /\ saved' = FALSE
  BY <1>1, <1>3
  DEF Restored, DefaultIntent, IntentIInv, IntentTypes, SavedIsComing, Modes
<1>4. QED
  BY <1>2, <1>3 DEF Boot

\* Steps that leave the intent and its saves alone.
LEMMA IntentUntouched ==
    ASSUME IntentIInv, UNCHANGED intents, phase' # "down" => phase # "down"
    PROVE  IntentIInv'
<1>1. QED
  BY DEF intents, IntentIInv, IntentTypes, SavedIsComing, Intent

\* Every step of the server keeps the accounts of the intent.
LEMMA SNextIntent == IntentIInv /\ [SNext]_svars => IntentIInv'
<1> SUFFICES ASSUME IntentIInv, [SNext]_svars PROVE IntentIInv'
  OBVIOUS
<1> USE DEF intents, process
<1>1. ASSUME NEW rpm \in Rpms, NEW timed \in BOOLEAN, SetManual(rpm, timed)
      PROVE  IntentIInv'
  BY <1>1, NewIntentKeeps DEF SetManual, Modes
<1>2. CASE ResumeSchedule \/ SetOff \/ OverrideEnds
  <2>1. PICK mode \in Modes : NewIntent([cs EXCEPT !.controlMode = mode, !.timed = FALSE])
    BY <1>2 DEF ResumeSchedule, SetOff, OverrideEnds, Modes
  <2>2. [cs EXCEPT !.controlMode = mode, !.timed = FALSE] \in
          [controlMode: Modes, manualRpm: Rpms \cup {0}, timed: BOOLEAN]
    BY DEF IntentIInv, IntentTypes
  <2>3. QED
    BY <2>1, <2>2, NewIntentKeeps
<1>3. CASE \E i \in DOMAIN saves : SaveRuns(i) \/ SaveFails(i)
  BY <1>3, SaveKeeps
<1>4. CASE Boot
  BY <1>4, BootKeepsIntent
<1>5. CASE KeepAlive \/ Notified \/ Written \/ \E i \in DOMAIN orders : Rejected(i)
  BY <1>5, IntentUntouched DEF KeepAlive, Notified, Written, Rejected
<1>6. CASE \E p \in Periods : PutSettings(p)
  BY <1>6, IntentUntouched DEF PutSettings
<1>7. CASE \E i \in DOMAIN updates :
             UpdateRuns(i) \/ ReadRuns(i) \/ OnSettingsChange(i)
  BY <1>7, IntentUntouched DEF UpdateRuns, ReadRuns, OnSettingsChange
<1>8. CASE Samples \/ Reset
  BY <1>8, IntentUntouched DEF Samples, Reset
<1>9. CASE Sigterm \/ Release \/ CloseBridge
  BY <1>9, IntentUntouched DEF Sigterm, Release, CloseBridge
<1>10. CASE Exit \/ Crash
  BY <1>10, IntentUntouched DEF Exit, Crash, ProcessEnds
<1>11. CASE UNCHANGED svars
  BY <1>11, IntentUntouched DEF svars
<1>12. QED
  BY <1>1, <1>2, <1>3, <1>4, <1>5, <1>6, <1>7, <1>8, <1>9, <1>10, <1>11
  DEF SNext

\* A restart resumes what was selected last, unless one of the named excuses
\* applies.
THEOREM ServerIntentIsDurable == SSpec => []IntentIsDurable
<1>1. IntentIInv => IntentIsDurable
  BY DEF IntentIInv, SavedIsComing, IntentIsDurable, Intent
<1>2. QED
  BY <1>1, SInitIntent, SNextIntent, PTL DEF SSpec

-----------------------------------------------------------------------------
(* The settings.                                                           *)

Updates == [stage: {"update", "read", "answer"}, ms: Periods]

\* Without an excuse the engine has the saved period, or the one request under
\* way is about to hand it over.
AppliedIsComing ==
    applied /\ phase # "down" =>
        /\ Len(updates) <= 1
        /\ updates = <<>> => keepAliveMs = periodRow
        /\ \A i \in DOMAIN updates :
              updates[i].stage = "answer" => updates[i].ms = periodRow

SettingsIInv == periodRow \in Periods /\ updates \in Seq(Updates) /\ AppliedIsComing

\* A server that starts applies the period it has read.
LEMMA SInitSettings == SInit => SettingsIInv
<1>1. QED
  BY ServerAssumption DEF SInit, SettingsIInv, AppliedIsComing

\* A request goes one stage on.
LEMMA StageKeeps ==
    ASSUME SettingsIInv, NEW i \in DOMAIN updates, NEW u \in Updates,
           updates' = [updates EXCEPT ![i] = u], periodRow' \in Periods,
           UNCHANGED <<phase, keepAliveMs>>,
           applied' => applied,
           applied' /\ u.stage = "answer" => u.ms = periodRow'
    PROVE  SettingsIInv'
<1>1. updates' \in Seq(Updates) /\ Len(updates') = Len(updates)
  BY DEF SettingsIInv
<1>2. updates'[i] = u /\ Len(updates) \in Nat /\ i \in 1..Len(updates)
  BY DEF SettingsIInv
<1>3. ASSUME applied', phase' # "down"
      PROVE  Len(updates') = 1 /\ i = 1
  BY <1>1, <1>2, <1>3 DEF SettingsIInv, AppliedIsComing
<1>4. QED
  BY <1>1, <1>2, <1>3 DEF SettingsIInv, AppliedIsComing

\* Steps that leave the settings alone.
LEMMA SettingsUntouched ==
    ASSUME SettingsIInv, UNCHANGED settings, phase' # "down" => phase # "down"
    PROVE  SettingsIInv'
<1>1. QED
  BY DEF settings, SettingsIInv, AppliedIsComing

\* Every step of the server keeps the accounts of the settings.
LEMMA SNextSettings == SettingsIInv /\ [SNext]_svars => SettingsIInv'
<1> SUFFICES ASSUME SettingsIInv, [SNext]_svars PROVE SettingsIInv'
  OBVIOUS
<1> USE DEF settings, process
<1>1. ASSUME NEW p \in Periods, PutSettings(p)
      PROVE  SettingsIInv'
  <2>1. updates' = Append(updates, [stage |-> "update", ms |-> p])
        /\ [stage |-> "update", ms |-> p] \in Updates
    BY <1>1 DEF PutSettings, Updates
  <2>2. updates' \in Seq(Updates) /\ periodRow' \in Periods
    BY <1>1, <2>1 DEF PutSettings, SettingsIInv
  <2>3. applied' => updates = <<>>
    BY <1>1 DEF PutSettings
  <2> DEFINE u == [stage |-> "update", ms |-> p]
  <2>4. u.stage = "update" /\ updates' = Append(updates, u)
    BY <2>1
  <2> HIDE DEF u
  <2>5. ASSUME applied'
        PROVE  /\ Len(updates') <= 1 /\ updates' # <<>>
               /\ \A j \in DOMAIN updates' : updates'[j].stage # "answer"
    BY <2>3, <2>4, <2>5
  <2>6. AppliedIsComing'
    BY <2>5, Zenon DEF AppliedIsComing
  <2>7. QED
    BY <2>2, <2>6 DEF SettingsIInv
<1>2. ASSUME NEW i \in DOMAIN updates, UpdateRuns(i)
      PROVE  SettingsIInv'
  <2> DEFINE u == [updates[i] EXCEPT !.stage = "read"]
  <2>1. updates[i] \in Updates
    BY DEF SettingsIInv
  <2>2. u \in Updates /\ u.stage = "read" /\ updates[i].ms \in Periods
    BY <2>1 DEF Updates
  <2>3. updates' = [updates EXCEPT ![i] = u] /\ periodRow' = updates[i].ms
    BY <1>2 DEF UpdateRuns
  <2> HIDE DEF u
  <2>4. QED
    BY <1>2, <2>2, <2>3, StageKeeps DEF UpdateRuns
<1>3. ASSUME NEW i \in DOMAIN updates, ReadRuns(i)
      PROVE  SettingsIInv'
  <2>1. PICK p \in Periods : Answer(i, p) /\ (applied' => applied /\ p = periodRow)
    BY <1>3, ServerAssumption DEF ReadRuns, SettingsIInv
  <2>2. [stage |-> "answer", ms |-> p] \in Updates
    BY DEF Updates
  <2>3. QED
    BY <1>3, <2>1, <2>2, StageKeeps DEF ReadRuns, Answer, SettingsIInv
<1>4. ASSUME NEW i \in DOMAIN updates, OnSettingsChange(i)
      PROVE  SettingsIInv'
  <2>1. updates' \in Seq(Updates) /\ Len(updates') = Len(updates) - 1
    BY <1>4, RemoveAtFacts DEF OnSettingsChange, SettingsIInv
  <2>2. Len(updates) \in Nat /\ Len(updates) >= 1
    BY DEF SettingsIInv
  <2>3. keepAliveMs' = updates[i].ms /\ UNCHANGED <<periodRow, applied, phase>>
        /\ updates[i].stage = "answer"
    BY <1>4 DEF OnSettingsChange, SetKeepAliveMs
  <2>4. ASSUME applied', phase' # "down"
        PROVE  Len(updates') = 0 /\ keepAliveMs' = periodRow'
    BY <2>1, <2>2, <2>3, <2>4 DEF SettingsIInv, AppliedIsComing
  <2>5. QED
    BY <2>1, <2>3, <2>4 DEF SettingsIInv, AppliedIsComing
<1>5. CASE Boot
  BY <1>5 DEF Boot, SettingsIInv, AppliedIsComing
<1>6. CASE Exit
  BY <1>6 DEF Exit, ProcessEnds, SettingsIInv, AppliedIsComing
<1>7. CASE Crash
  <2>1. Range(updates) \subseteq Updates
    BY DEF SettingsIInv, Range
  <2>2. periodRow' \in Periods
    BY <1>7, <2>1 DEF Crash, SettingsIInv, Updates
  <2>3. updates' = <<>> /\ phase' = "down"
    BY <1>7 DEF Crash, ProcessEnds
  <2>4. QED
    BY <2>2, <2>3 DEF SettingsIInv, AppliedIsComing
<1>8. CASE \/ \E rpm \in Rpms, timed \in BOOLEAN : SetManual(rpm, timed)
           \/ ResumeSchedule \/ SetOff \/ OverrideEnds \/ KeepAlive \/ Notified
  BY <1>8, SettingsUntouched
  DEF SetManual, ResumeSchedule, SetOff, OverrideEnds, NewIntent, KeepAlive, Notified
<1>9. CASE \E i \in DOMAIN saves : SaveRuns(i) \/ SaveFails(i)
  BY <1>9, SettingsUntouched DEF SaveRuns, SaveFails
<1>10. CASE Samples \/ Reset
  BY <1>10, SettingsUntouched DEF Samples, Reset
<1>11. CASE Sigterm \/ Release \/ CloseBridge
  BY <1>11, SettingsUntouched DEF Sigterm, Release, CloseBridge
<1>12. CASE Written \/ \E i \in DOMAIN orders : Rejected(i)
  BY <1>12, SettingsUntouched DEF Written, Rejected
<1>13. CASE UNCHANGED svars
  BY <1>13, SettingsUntouched DEF svars
<1>14. QED
  BY <1>1, <1>2, <1>3, <1>4, <1>5, <1>6, <1>7, <1>8, <1>9, <1>10, <1>11, <1>12,
     <1>13
  DEF SNext

\* The engine runs with the settings saved last, unless one of the named excuses
\* applies.
THEOREM ServerSettingsInForce == SSpec => []SettingsInForce
<1>1. SettingsIInv => SettingsInForce
  BY DEF SettingsIInv, AppliedIsComing, SettingsInForce
<1>2. QED
  BY <1>1, SInitSettings, SNextSettings, PTL DEF SSpec

-----------------------------------------------------------------------------
(* The handover.                                                           *)

\* A release waits; no order in the queue takes the pump; none behind a release does.
ReleaseWaits  == \E i \in DOMAIN orders : orders[i] = "shutdown"
NoneTakes     == \A i \in DOMAIN orders : orders[i] # "enable"
ReleaseIsLast ==
    \A i \in DOMAIN orders, j \in DOMAIN orders :
        orders[i] = "shutdown" /\ i < j => orders[j] # "enable"

OrderNames == {"enable", "release", "shutdown"}

\* What is true while the release waits, and once it was written: the engine's
\* interval is over, and nothing in the queue takes the pump again.
HandBackIInv ==
    /\ orders \in Seq(OrderNames)
    /\ phase \in {"down", "serving"} => ~ReleaseWaits
    /\ handover = "asked" =>
         \/ phase = "down"
         \/ phase = "releasing" /\ ReleaseWaits /\ ReleaseIsLast
    /\ handover = "written" => phase # "serving" /\ held = FALSE /\ NoneTakes

\* An order that is queued after the release, or before any, and does not take
\* the pump keeps these accounts of the queue.
LEMMA QueueKeeps ==
    ASSUME orders \in Seq(OrderNames), NEW order \in OrderNames, Queue(order)
    PROVE  /\ orders' \in Seq(OrderNames)
           /\ ReleaseWaits => ReleaseWaits'
           /\ order # "shutdown" /\ ReleaseWaits' => ReleaseWaits
           /\ order # "enable" /\ ReleaseIsLast => ReleaseIsLast'
           /\ order # "enable" /\ NoneTakes => NoneTakes'
<1>1. /\ orders' \in Seq(OrderNames)
      /\ Len(orders) \in Nat /\ DOMAIN orders = 1..Len(orders)
      /\ DOMAIN orders' = 1 .. Len(orders) + 1
      /\ \A k \in 1..Len(orders) : orders'[k] = orders[k]
      /\ orders'[Len(orders) + 1] = order
  BY DEF Queue
<1>2. QED
  BY <1>1 DEF ReleaseWaits, ReleaseIsLast, NoneTakes

\* So does taking an order away, unless it was the release that waited.
LEMMA TakingKeeps ==
    ASSUME orders \in Seq(OrderNames), NEW i \in DOMAIN orders,
           orders' = RemoveAt(orders, i)
    PROVE  /\ orders' \in Seq(OrderNames)
           /\ orders[i] # "shutdown" /\ ReleaseWaits => ReleaseWaits'
           /\ ReleaseWaits' => ReleaseWaits
           /\ ReleaseIsLast => ReleaseIsLast'
           /\ NoneTakes => NoneTakes'
<1>1. /\ Len(orders) \in Nat /\ DOMAIN orders = 1..Len(orders)
      /\ i \in 1..Len(orders)
  OBVIOUS
<1>2. /\ orders' \in Seq(OrderNames)
      /\ DOMAIN orders' = 1 .. Len(orders) - 1
      /\ \A k \in 1 .. Len(orders) - 1 : orders'[k] = orders[IF k < i THEN k ELSE k + 1]
  <2> DEFINE s == RemoveAt(orders, i)
  <2>1. /\ s \in Seq(OrderNames) /\ Len(s) = Len(orders) - 1
        /\ \A k \in 1 .. Len(orders) - 1 : s[k] = orders[IF k < i THEN k ELSE k + 1]
    BY RemoveAtFacts
  <2>2. DOMAIN s = 1 .. Len(s)
    BY <2>1
  <2> HIDE DEF s
  <2>3. orders' = s
    BY DEF s
  <2>4. QED
    BY <2>1, <2>2, <2>3
<1>3. ASSUME NEW k \in DOMAIN orders, orders[k] = "shutdown", orders[i] # "shutdown"
      PROVE  ReleaseWaits'
  <2>1. CASE k < i
    BY <1>1, <1>2, <1>3, <2>1 DEF ReleaseWaits
  <2>2. CASE k > i
    <3>1. k - 1 \in 1 .. Len(orders) - 1 /\ ~(k - 1 < i) /\ (k - 1) + 1 = k
      BY <1>1, <2>2
    <3>2. orders'[k - 1] = orders[k]
      BY <1>2, <3>1
    <3>3. QED
      BY <1>2, <1>3, <3>1, <3>2 DEF ReleaseWaits
  <2>3. QED
    BY <1>1, <1>3, <2>1, <2>2
<1>4. \A k \in DOMAIN orders' :
          \E m \in DOMAIN orders : orders'[k] = orders[m] /\ m = (IF k < i THEN k ELSE k + 1)
  BY <1>1, <1>2
<1>5. ReleaseWaits' => ReleaseWaits
  BY <1>4 DEF ReleaseWaits
<1>6. ASSUME ReleaseIsLast PROVE ReleaseIsLast'
  <2>1. SUFFICES ASSUME NEW a \in DOMAIN orders', NEW b \in DOMAIN orders',
                        orders'[a] = "shutdown", a < b
                 PROVE  orders'[b] # "enable"
    BY DEF ReleaseIsLast
  <2>2. PICK m \in DOMAIN orders :
               orders'[a] = orders[m] /\ m = (IF a < i THEN a ELSE a + 1)
    BY <1>4
  <2>3. PICK n \in DOMAIN orders :
               orders'[b] = orders[n] /\ n = (IF b < i THEN b ELSE b + 1)
    BY <1>4
  <2>4. m < n
    BY <1>1, <1>2, <2>1, <2>2, <2>3
  <2>5. QED
    BY <1>6, <2>1, <2>2, <2>3, <2>4 DEF ReleaseIsLast
<1>7. ASSUME NoneTakes PROVE NoneTakes'
  BY <1>4, <1>7 DEF NoneTakes
<1>8. QED
  BY <1>2, <1>3, <1>5, <1>6, <1>7 DEF ReleaseWaits

\* The oldest order is taken away.
LEMMA TailTakesTheOldest ==
    ASSUME orders \in Seq(OrderNames), orders # <<>>, orders' = Tail(orders)
    PROVE  /\ 1 \in DOMAIN orders /\ orders[1] = Head(orders)
           /\ orders' \in Seq(OrderNames)
           /\ Head(orders) # "shutdown" /\ ReleaseWaits => ReleaseWaits'
           /\ ReleaseWaits' => ReleaseWaits
           /\ ReleaseIsLast => ReleaseIsLast'
           /\ NoneTakes => NoneTakes'
           /\ Head(orders) = "shutdown" /\ ReleaseIsLast => NoneTakes'
<1>1. /\ Len(orders) \in Nat /\ DOMAIN orders = 1..Len(orders)
      /\ 1 \in DOMAIN orders /\ orders[1] = Head(orders)
      /\ orders' \in Seq(OrderNames)
      /\ DOMAIN orders' = 1 .. Len(orders) - 1
      /\ \A k \in 1 .. Len(orders) - 1 : orders'[k] = orders[k + 1]
  OBVIOUS
<1>2. ASSUME NEW k \in DOMAIN orders, orders[k] = "shutdown", Head(orders) # "shutdown"
      PROVE  ReleaseWaits'
  <2>1. k - 1 \in 1 .. Len(orders) - 1 /\ (k - 1) + 1 = k
    BY <1>1, <1>2
  <2>2. QED
    BY <1>1, <1>2, <2>1 DEF ReleaseWaits
<1>3. ASSUME ReleaseIsLast
      PROVE  ReleaseIsLast' /\ (Head(orders) = "shutdown" => NoneTakes')
  BY <1>1, <1>3 DEF ReleaseIsLast, NoneTakes
<1>4. ASSUME NoneTakes PROVE NoneTakes'
  BY <1>1, <1>4 DEF NoneTakes
<1>5. QED
  BY <1>1, <1>2, <1>3, <1>4 DEF ReleaseWaits

\* A chain of the engine queues at most an order, and none that takes the pump
\* when the mode is off.
LEMMA ApplyKeeps ==
    ASSUME HandBackIInv, NEW mode, Apply(mode)
    PROVE  /\ orders' \in Seq(OrderNames) /\ UNCHANGED held
           /\ ReleaseWaits <=> ReleaseWaits'
           /\ mode = "off" /\ ReleaseIsLast => ReleaseIsLast'
           /\ mode = "off" /\ NoneTakes => NoneTakes'
<1>1. CASE UNCHANGED orders
  BY <1>1 DEF Apply, HandBackIInv, ReleaseWaits, ReleaseIsLast, NoneTakes
<1>2. ASSUME NEW order \in Orders(mode), Queue(order)
      PROVE  /\ orders' \in Seq(OrderNames)
             /\ ReleaseWaits <=> ReleaseWaits'
             /\ mode = "off" /\ ReleaseIsLast => ReleaseIsLast'
             /\ mode = "off" /\ NoneTakes => NoneTakes'
  <2>1. /\ order \in OrderNames /\ order # "shutdown"
        /\ mode = "off" => order # "enable"
    BY <1>2 DEF Orders, OrderNames
  <2>2. orders \in Seq(OrderNames)
    BY DEF HandBackIInv
  <2>3. /\ orders' \in Seq(OrderNames)
        /\ ReleaseWaits => ReleaseWaits'
        /\ order # "shutdown" /\ ReleaseWaits' => ReleaseWaits
        /\ order # "enable" /\ ReleaseIsLast => ReleaseIsLast'
        /\ order # "enable" /\ NoneTakes => NoneTakes'
    BY <1>2, <2>1, <2>2, QueueKeeps
  <2>4. QED
    BY <2>1, <2>3
<1>3. QED
  BY <1>1, <1>2 DEF Apply

\* A notification keeps the accounts of the release.
LEMMA NotifyKeeps ==
    ASSUME HandBackIInv, NEW mode, Notify(mode), UNCHANGED phase
    PROVE  HandBackIInv'
<1>1. Apply(mode) /\ (mode # "off" /\ handover # "none" => handover' = "renewed")
      /\ (~(mode # "off" /\ handover # "none") => handover' = handover)
  BY DEF Notify
<1>2. CASE mode = "off"
  BY <1>1, <1>2, ApplyKeeps DEF HandBackIInv
<1>3. CASE mode # "off"
  BY <1>1, <1>3, ApplyKeeps DEF HandBackIInv
<1>4. QED
  BY <1>2, <1>3

\* Nothing that the accounts are about changes.
LEMMA HandBackUntouched ==
    ASSUME HandBackIInv, UNCHANGED <<phase, orders, held, handover>>
    PROVE  HandBackIInv'
<1>1. QED
  BY DEF HandBackIInv, ReleaseWaits, ReleaseIsLast, NoneTakes

\* The bridge is closed after the release was awaited.
LEMMA CloseKeeps ==
    ASSUME HandBackIInv, Close, UNCHANGED <<held, handover>>, handover # "asked"
    PROVE  HandBackIInv'
<1>1. orders' = <<>> /\ phase' = "closing"
  BY DEF Close
<1>2. NoneTakes' /\ ~ReleaseWaits' /\ orders' \in Seq(OrderNames)
  BY <1>1 DEF NoneTakes, ReleaseWaits
<1>3. QED
  BY <1>1, <1>2 DEF HandBackIInv

\* Every step of the server keeps the accounts of the release.
LEMMA SNextHandBack == HandBackIInv /\ [SNext]_svars => HandBackIInv'
<1> SUFFICES ASSUME HandBackIInv, [SNext]_svars PROVE HandBackIInv'
  OBVIOUS
<1> USE DEF process, pump
<1>1. CASE \/ \E rpm \in Rpms, timed \in BOOLEAN : SetManual(rpm, timed)
           \/ ResumeSchedule \/ SetOff \/ OverrideEnds
  <2>1. PICK s : NewIntent(s)
    BY <1>1 DEF SetManual, ResumeSchedule, SetOff, OverrideEnds
  <2>2. QED
    BY <2>1, NotifyKeeps DEF NewIntent
<1>2. CASE Notified
  BY <1>2, NotifyKeeps DEF Notified
<1>3. CASE KeepAlive
  <2>1. phase = "serving" /\ UNCHANGED <<phase, handover>> /\ Apply(cs.controlMode)
    BY <1>3 DEF KeepAlive, EngineRuns
  <2>2. handover # "asked" /\ handover # "written"
    BY <2>1 DEF HandBackIInv
  <2>3. QED
    BY <2>1, <2>2, ApplyKeeps DEF HandBackIInv
<1>4. CASE Boot
  <2>1. Apply(cs'.controlMode) /\ handover' = "none" /\ phase = "down"
    BY <1>4 DEF Boot
  <2>2. QED
    BY <2>1, ApplyKeeps DEF HandBackIInv
<1>5. CASE Written
  <2>1. /\ orders # <<>> /\ orders' = Tail(orders) /\ UNCHANGED phase
        /\ held' = (Head(orders) = "enable")
        /\ handover' = IF Head(orders) = "shutdown" /\ handover = "asked"
                       THEN "written" ELSE handover
    BY <1>5 DEF Written
  <2>2. /\ orders' \in Seq(OrderNames) /\ 1 \in DOMAIN orders /\ orders[1] = Head(orders)
        /\ Head(orders) # "shutdown" /\ ReleaseWaits => ReleaseWaits'
        /\ ReleaseWaits' => ReleaseWaits
        /\ ReleaseIsLast => ReleaseIsLast'
        /\ NoneTakes => NoneTakes'
        /\ Head(orders) = "shutdown" /\ ReleaseIsLast => NoneTakes'
    BY <2>1, TailTakesTheOldest DEF HandBackIInv
  <2>3. CASE handover = "asked" /\ Head(orders) = "shutdown"
    <3>1. ReleaseIsLast /\ phase = "releasing"
      BY <2>2, <2>3 DEF HandBackIInv, ReleaseWaits
    <3>2. QED
      BY <2>1, <2>2, <2>3, <3>1 DEF HandBackIInv
  <2>4. CASE handover = "asked" /\ Head(orders) # "shutdown"
    BY <2>1, <2>2, <2>4 DEF HandBackIInv
  <2>5. CASE handover = "written"
    <3>1. Head(orders) # "enable"
      BY <2>2, <2>5 DEF HandBackIInv, NoneTakes
    <3>2. QED
      BY <2>1, <2>2, <2>5, <3>1 DEF HandBackIInv
  <2>6. CASE handover # "asked" /\ handover # "written"
    BY <2>1, <2>2, <2>6 DEF HandBackIInv
  <2>7. QED
    BY <2>3, <2>4, <2>5, <2>6
<1>6. CASE \E i \in DOMAIN orders : Rejected(i)
  <2>1. PICK i \in DOMAIN orders : Rejected(i)
    BY <1>6
  <2>2. /\ orders' = RemoveAt(orders, i) /\ UNCHANGED phase
        /\ handover' = IF orders[i] = "shutdown" /\ handover = "asked"
                       THEN "none" ELSE handover
        /\ held' = held \/ held' = (orders[i] = "enable")
    BY <2>1 DEF Rejected
  <2>3. /\ orders' \in Seq(OrderNames)
        /\ orders[i] # "shutdown" /\ ReleaseWaits => ReleaseWaits'
        /\ ReleaseWaits' => ReleaseWaits
        /\ ReleaseIsLast => ReleaseIsLast'
        /\ NoneTakes => NoneTakes'
    BY <2>2, TakingKeeps DEF HandBackIInv
  <2>4. handover = "written" => orders[i] # "enable"
    BY DEF HandBackIInv, NoneTakes
  <2>5. handover' = "written" => held' = FALSE
    BY <2>2, <2>4 DEF HandBackIInv
  <2>6. QED
    BY <2>2, <2>3, <2>5 DEF HandBackIInv
<1>7. CASE \E i \in DOMAIN saves : SaveRuns(i) \/ SaveFails(i)
  BY <1>7, HandBackUntouched DEF SaveRuns, SaveFails
<1>8. CASE \E p \in Periods : PutSettings(p)
  BY <1>8, HandBackUntouched DEF PutSettings
<1>9. CASE \E i \in DOMAIN updates :
             UpdateRuns(i) \/ ReadRuns(i) \/ OnSettingsChange(i)
  BY <1>9, HandBackUntouched DEF UpdateRuns, ReadRuns, OnSettingsChange
<1>10. CASE Samples \/ Reset
  BY <1>10, HandBackUntouched DEF Samples, Reset
<1>11. CASE Sigterm
  <2>1. phase = "serving" /\ phase' = "releasing" /\ UNCHANGED held
    BY <1>11 DEF Sigterm
  <2>2. handover # "asked" /\ handover # "written"
    BY <2>1 DEF HandBackIInv
  <2>3. CASE ~RELEASE_ON_SHUTDOWN
    <3>1. UNCHANGED <<orders, handover>>
      BY <1>11, <2>3 DEF Sigterm
    <3>2. QED
      BY <2>1, <2>2, <3>1 DEF HandBackIInv
  <2>4. CASE RELEASE_ON_SHUTDOWN
    <3>1. Queue("shutdown") /\ handover' = "asked"
      BY <1>11, <2>4 DEF Sigterm
    <3>2. /\ orders' = Append(orders, "shutdown") /\ Len(orders) \in Nat
          /\ orders \in Seq(OrderNames) /\ "shutdown" \in OrderNames
      BY <3>1 DEF Queue, HandBackIInv, OrderNames
    <3>3. orders' \in Seq(OrderNames) /\ DOMAIN orders' = 1 .. Len(orders) + 1
          /\ orders'[Len(orders) + 1] = "shutdown"
          /\ DOMAIN orders = 1..Len(orders)
          /\ \A k \in 1..Len(orders) : orders'[k] = orders[k]
      BY <3>2
    <3>4. ReleaseWaits'
      BY <3>2, <3>3 DEF ReleaseWaits
    <3>5. ReleaseIsLast'
      BY <2>1, <3>2, <3>3 DEF ReleaseIsLast, ReleaseWaits, HandBackIInv
    <3>6. QED
      BY <2>1, <3>1, <3>3, <3>4, <3>5 DEF HandBackIInv
  <2>5. QED
    BY <2>3, <2>4
<1>12. CASE Release
  <2>1. handover # "asked"
    BY <1>12 DEF Release, HandBackIInv, ReleaseWaits, Range
  <2>2. CASE Close
    BY <1>12, <2>1, <2>2, CloseKeeps DEF Release
  <2>3. CASE phase' = "flushing" /\ UNCHANGED orders
    BY <1>12, <2>1, <2>3 DEF Release, HandBackIInv, NoneTakes
  <2>4. QED
    BY <1>12, <2>2, <2>3 DEF Release, FinalFlush
<1>13. CASE CloseBridge
  BY <1>13, CloseKeeps DEF CloseBridge, HandBackIInv
<1>14. CASE Exit \/ Crash
  <2>1. orders' = <<>> /\ phase' = "down" /\ UNCHANGED <<held, handover>>
    BY <1>14 DEF Exit, Crash, ProcessEnds
  <2>2. ~ReleaseWaits' /\ NoneTakes' /\ orders' \in Seq(OrderNames)
    BY <2>1 DEF ReleaseWaits, NoneTakes
  <2>3. handover = "asked" => handover' = "asked" /\ phase' = "down"
    BY <2>1
  <2>4. handover = "written" => held' = FALSE
    BY <2>1 DEF HandBackIInv
  <2>5. QED
    BY <2>1, <2>2, <2>3, <2>4 DEF HandBackIInv
<1>15. CASE UNCHANGED svars
  BY <1>15, HandBackUntouched DEF svars
<1>16. QED
  BY <1>1, <1>2, <1>3, <1>4, <1>5, <1>6, <1>7, <1>8, <1>9, <1>10, <1>11, <1>12,
     <1>13, <1>14, <1>15
  DEF SNext

\* The bridge is never closed under the release of a shutdown, and once that went
\* out nothing but a notification that came after the signal drives the pump again.
THEOREM ServerShutdownHandsBack == SSpec => []ShutdownHandsBack
<1>1. SInit => HandBackIInv
  BY DEF SInit, HandBackIInv, ReleaseWaits
<1>2. HandBackIInv => ShutdownHandsBack
  BY DEF HandBackIInv, ShutdownHandsBack
<1>3. QED
  BY <1>1, <1>2, SNextHandBack, PTL DEF SSpec
=============================================================================
