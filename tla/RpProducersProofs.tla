------------------------- MODULE RpProducersProofs -------------------------
(***************************************************************************)
(* The rings between the cores of the RP2350 board implement LatestValue,  *)
(* whatever their capacities: the reader gets the newest packet, once.     *)
(***************************************************************************)
EXTENDS MCRp2350, TLAPS, FiniteSetTheorems, SequenceTheorems, WellFoundedInduction

(* A slot index stays inside its ring. *)
LEMMA ModRange ==
  ASSUME NEW a \in Int, NEW n \in Nat \ {0}
  PROVE  a % n \in 0 .. n - 1
  OBVIOUS

(* What the refinement rests on beyond the type: a ring that is not empty  *)
(* holds at its newest slot the number of the packet put last.             *)
RingTyped ==
  /\ ring = [q \in Queues |-> ring[q]]
  /\ \A q \in Queues : ring[q] \in [0 .. Cap[q] - 1 -> Nat]
HoldsNewest == \A q \in Queues : len[q] # 0 => ring[q][Newest(q)] = put[q] /\ put[q] # 0
IInv == TypeOK /\ RingTyped /\ HoldsNewest /\ taken = [q \in Queues |-> taken[q]]

LEMMA InitIInv == Init => IInv
  <1> SUFFICES ASSUME Init PROVE IInv
    OBVIOUS
  <1> USE RpProducersAssumption DEF Init
  <1>1. TypeOK
    BY DEF TypeOK
  <1>2. taken = [q \in Queues |-> taken[q]]
    OBVIOUS
  <1>3. RingTyped
    BY DEF RingTyped
  <1>4. HoldsNewest
    BY DEF HoldsNewest
  <1> QED
    BY <1>1, <1>2, <1>3, <1>4 DEF IInv

-----------------------------------------------------------------------------
(* A put: the ring that is full loses its oldest packet, and the one put   *)
(* is the newest, in each of the three rings.                              *)
PutStep(q) ==
  /\ put' = [put EXCEPT ![q] = @ + 1]
  /\ Push(q, put[q] + 1)
  /\ UNCHANGED <<bus, taken>>

LEMMA PutIsStep ==
  ASSUME PutImu \/ PutRc \/ PutGnss
  PROVE  \E q \in Queues : PutStep(q)
  <1>1. CASE PutImu
    BY <1>1 DEF PutImu, PutStep, Queues
  <1>2. CASE PutRc
    BY <1>2 DEF PutRc, PushRc, PutStep, Queues
  <1>3. CASE PutGnss
    BY <1>3 DEF PutGnss, PushGnss, PutStep, Queues
  <1> QED
    BY <1>1, <1>2, <1>3

LEMMA PutKeeps ==
  ASSUME IInv, NEW q \in Queues, PutStep(q)
  PROVE  /\ IInv'
         /\ len'[q] # 0
         /\ \A r \in Queues \ {q} :
              head'[r] = head[r] /\ len'[r] = len[r] /\ ring'[r] = ring[r] /\ put'[r] = put[r]
  <1> DEFINE full == len[q] = Cap[q]
             h == IF full THEN (head[q] + 1) % Cap[q] ELSE head[q]
             n == IF full THEN len[q] - 1 ELSE len[q]
             slot == (h + n) % Cap[q]
  <1>1. Cap[q] \in Nat \ {0} /\ head[q] \in Nat /\ len[q] \in Nat /\ put[q] \in Nat
    BY RpProducersAssumption DEF IInv, TypeOK
  <1>2. h \in 0 .. Cap[q] - 1 /\ n \in 0 .. Cap[q] - 1
    <2>1. (head[q] + 1) % Cap[q] \in 0 .. Cap[q] - 1
      <3>1. head[q] + 1 \in Int
        BY <1>1
      <3> QED
        BY <1>1, <3>1, ModRange, Zenon
    <2>2. head[q] < Cap[q] /\ len[q] <= Cap[q]
      BY DEF IInv, TypeOK
    <2> QED
      BY <1>1, <2>1, <2>2
  <1>3. slot \in 0 .. Cap[q] - 1
    <2>1. h + n \in Int
      BY <1>1, <1>2
    <2> QED
      BY <1>1, <2>1, ModRange, Zenon
  <1>4. /\ head' = [head EXCEPT ![q] = h] /\ len' = [len EXCEPT ![q] = n + 1]
        /\ ring' = [ring EXCEPT ![q][slot] = put[q] + 1]
        /\ put' = [put EXCEPT ![q] = put[q] + 1] /\ taken' = taken
    BY DEF PutStep, Push
  <1> HIDE DEF h, n, slot
  <1>5. TypeOK'
    BY <1>1, <1>2, <1>4 DEF IInv, TypeOK
  <1>6. ring[q] \in [0 .. Cap[q] - 1 -> Nat] /\ q \in DOMAIN ring
    BY DEF IInv, RingTyped
  <1>7. RingTyped'
    <2>1. ring' = [ring EXCEPT ![q] = [ring[q] EXCEPT ![slot] = put[q] + 1]]
      BY <1>4
    <2>2. [ring[q] EXCEPT ![slot] = put[q] + 1] \in [0 .. Cap[q] - 1 -> Nat]
      BY <1>1, <1>3, <1>6
    <2> QED
      BY <2>1, <2>2 DEF IInv, RingTyped
  <1>8. len'[q] # 0 /\ Newest(q)' = slot /\ ring'[q][slot] = put'[q] /\ put'[q] # 0
    <2>1. head'[q] = h /\ len'[q] = n + 1 /\ put'[q] = put[q] + 1
      BY <1>4 DEF IInv, TypeOK
    <2>2. (h + (n + 1)) - 1 = h + n
      BY <1>2
    <2>3. ring'[q][slot] = put[q] + 1
      BY <1>3, <1>4, <1>6
    <2> QED
      BY <1>1, <1>2, <2>1, <2>2, <2>3 DEF Newest, slot
  <1>9. \A r \in Queues \ {q} :
          head'[r] = head[r] /\ len'[r] = len[r] /\ ring'[r] = ring[r] /\ put'[r] = put[r]
    BY <1>4 DEF IInv, TypeOK, RingTyped
  <1>10. HoldsNewest'
    BY <1>8, <1>9 DEF IInv, HoldsNewest, Newest
  <1>11. (taken = [r \in Queues |-> taken[r]])'
    BY <1>4 DEF IInv
  <1> QED
    BY <1>5, <1>7, <1>8, <1>9, <1>10, <1>11 DEF IInv

LEMMA TakeKeeps ==
  ASSUME IInv, NEW qs \in SUBSET Queues, TakeLatest(qs), UNCHANGED <<ring, put>>
  PROVE  IInv'
  <1>1. \A q \in Looked(qs) : (Newest(q) + 1) % Cap[q] \in 0 .. Cap[q] - 1
    <2> TAKE q \in Looked(qs)
    <2>1. q \in Queues /\ Cap[q] \in Nat \ {0} /\ head[q] \in Nat /\ len[q] \in Nat
      BY RpProducersAssumption DEF IInv, TypeOK, Looked
    <2>2. Newest(q) \in 0 .. Cap[q] - 1
      <3>1. head[q] + len[q] - 1 \in Int
        BY <2>1
      <3> QED
        BY <2>1, <3>1, ModRange, Zenon DEF Newest
    <2>3. Newest(q) + 1 \in Int
      BY <2>1, <2>2
    <2> QED
      BY <2>1, <2>3, ModRange, Zenon
  <1>2. TypeOK'
    BY <1>1, RpProducersAssumption DEF IInv, TypeOK, TakeLatest, HeadsAfter
  <1>3. RingTyped'
    BY DEF IInv, RingTyped
  <1>4. HoldsNewest'
    <2> SUFFICES ASSUME NEW q \in Queues, len'[q] # 0
                 PROVE  ring'[q][Newest(q)'] = put'[q] /\ put'[q] # 0
      BY DEF HoldsNewest
    <2>1. q \notin qs /\ len'[q] = len[q] /\ head'[q] = head[q]
      BY DEF TakeLatest, HeadsAfter, Looked
    <2> QED
      BY <2>1 DEF IInv, HoldsNewest, Newest
  <1>5. (taken = [q \in Queues |-> taken[q]])'
    BY DEF TakeLatest
  <1> QED
    BY <1>2, <1>3, <1>4, <1>5 DEF IInv

-----------------------------------------------------------------------------
(* Every step is a put, a look, or changes neither ring nor reader.        *)
Looks == \E qs \in SUBSET Queues : TakeLatest(qs) /\ UNCHANGED <<ring, put>>
Idles == UNCHANGED <<ring, head, len, put, taken>>

LEMMA StepKinds == [Next]_vars => (\E q \in Queues : PutStep(q)) \/ Looks \/ Idles
  <1> SUFFICES ASSUME [Next]_vars PROVE (\E q \in Queues : PutStep(q)) \/ Looks \/ Idles
    OBVIOUS
  <1>1. CASE ImuInit \/ ImuInitFails
    BY <1>1 DEF ImuInit, ImuInitFails, Idles
  <1>2. CASE PutImu \/ PutRc \/ PutGnss
    BY <1>2, PutIsStep
  <1>3. CASE UpdateSensorBus
    BY <1>3 DEF UpdateSensorBus, Looks
  <1>4. CASE UpdateImuSensor
    <2>1. {"imu"} \in SUBSET Queues
      BY DEF Queues
    <2> QED
      BY <1>4, <2>1 DEF UpdateImuSensor, Looks
  <1>5. CASE UpdateServiceSensorBus
    <2>1. {"rc", "gnss"} \in SUBSET Queues
      BY DEF Queues
    <2> QED
      BY <1>5, <2>1 DEF UpdateServiceSensorBus, Looks
  <1>6. CASE UNCHANGED vars
    BY <1>6 DEF vars, Idles
  <1> QED
    BY <1>1, <1>2, <1>3, <1>4, <1>5, <1>6 DEF Next

LEMMA NextIInv == IInv /\ [Next]_vars => IInv'
  <1> SUFFICES ASSUME IInv, [Next]_vars PROVE IInv'
    OBVIOUS
  <1>1. CASE \E q \in Queues : PutStep(q)
    BY <1>1, PutKeeps
  <1>2. CASE Looks
    BY <1>2, TakeKeeps DEF Looks
  <1>3. CASE Idles
    BY <1>3 DEF Idles, IInv, TypeOK, RingTyped, HoldsNewest, Newest
  <1> QED
    BY <1>1, <1>2, <1>3, StepKinds

(* Heads and lengths stay within rings of every capacity (push and         *)
(* take_latest of the three queues).                                       *)
THEOREM TypeCorrect == Spec => []TypeOK
  <1>1. IInv => TypeOK
    BY DEF IInv
  <1> QED
    BY InitIInv, NextIInv, <1>1, PTL DEF Spec

-----------------------------------------------------------------------------
(* The refinement, step by step. *)
LEMMA LatestIsPut ==
  ASSUME IInv, NEW q \in Queues
  PROVE  Latest[q] = (IF len[q] = 0 THEN 0 ELSE put[q]) /\ (Latest[q] = 0 <=> len[q] = 0)
  BY DEF IInv, HoldsNewest, Latest

LEMMA PutRefines ==
  ASSUME IInv, NEW q \in Queues, PutStep(q)
  PROVE  Abstract!Put(q)
  <1>1. IInv' /\ len'[q] # 0 /\ \A r \in Queues \ {q} :
          head'[r] = head[r] /\ len'[r] = len[r] /\ ring'[r] = ring[r] /\ put'[r] = put[r]
    BY PutKeeps
  <1>2. put' = [put EXCEPT ![q] = @ + 1] /\ taken' = taken /\ put'[q] = put[q] + 1
    BY DEF PutStep, IInv, TypeOK
  <1>3. Latest'[q] = put[q] + 1
    BY <1>1, <1>2 DEF IInv, HoldsNewest, Latest
  <1>4. \A r \in Queues \ {q} : Latest'[r] = Latest[r]
    BY <1>1 DEF Latest, Newest
  <1>5. Latest' = [Latest EXCEPT ![q] = put[q] + 1]
    BY <1>3, <1>4 DEF Latest
  <1> QED
    BY <1>2, <1>5 DEF Abstract!Put

LEMMA LookRefines ==
  ASSUME IInv, Looks
  PROVE  Abstract!Take
  <1>1. PICK qs \in SUBSET Queues : TakeLatest(qs) /\ UNCHANGED <<ring, put>>
    BY DEF Looks
  <1> DEFINE found == {q \in qs : Latest[q] # 0}
  <1>2. found = Looked(qs)
    BY LatestIsPut DEF Looked
  <1>3. \A q \in found : Latest[q] = ring[q][Newest(q)]
    BY <1>2 DEF Latest, Looked
  <1>4. taken' = [q \in Queues |-> IF q \in found THEN Latest[q] ELSE taken[q]]
    BY <1>1, <1>2, <1>3 DEF TakeLatest
  <1>5. Latest' = [q \in Queues |-> IF q \in found THEN 0 ELSE Latest[q]]
    <2>1. \A q \in Queues : Latest'[q] = IF q \in found THEN 0 ELSE Latest[q]
      <3> TAKE q \in Queues
      <3>1. CASE q \in qs
        BY <1>1, <3>1 DEF TakeLatest, Latest
      <3>2. CASE q \notin qs
        <4>1. len'[q] = len[q] /\ head'[q] = head[q] /\ ring' = ring
          BY <1>1, <3>2 DEF TakeLatest, HeadsAfter, Looked
        <4> QED
          BY <3>2, <4>1 DEF Latest, Newest
      <3> QED
        BY <3>1, <3>2
    <2> QED
      BY <2>1 DEF Latest
  <1> QED
    BY <1>1, <1>4, <1>5 DEF Abstract!Take

(* Whatever the rings dropped, core 0 gets the newest packet of each ring, *)
(* once: the rings implement LatestValue for every capacity.               *)
THEOREM Refinement == Spec => ImplementsLatestValue
  <1>1. Init => Abstract!Init
    BY DEF Init, Abstract!Init, Abstract!Zero, Latest
  <1>2. IInv /\ [Next]_vars => [Abstract!Next]_<<put, Latest, taken>>
    <2> SUFFICES ASSUME IInv, [Next]_vars PROVE [Abstract!Next]_<<put, Latest, taken>>
      OBVIOUS
    <2>1. CASE \E q \in Queues : PutStep(q)
      BY <2>1, PutRefines DEF Abstract!Next
    <2>2. CASE Looks
      BY <2>2, LookRefines DEF Abstract!Next
    <2>3. CASE Idles
      BY <2>3 DEF Idles, Latest, Newest
    <2> QED
      BY <2>1, <2>2, <2>3, StepKinds
  <1> QED
    BY InitIInv, NextIInv, <1>1, <1>2, PTL DEF Spec, ImplementsLatestValue, Abstract!Spec

-----------------------------------------------------------------------------
(* The numbers that are missing.  Remainders modulo Wrap, whatever Wrap is. *)
LEMMA Euclid ==
  ASSUME NEW a \in Int, NEW n \in Nat \ {0}
  PROVE  a = n * (a \div n) + (a % n) /\ a % n \in 0 .. n - 1 /\ a \div n \in Int
  OBVIOUS

LEMMA UniqueRemainder ==
  ASSUME NEW n \in Nat \ {0}, NEW q \in Int, NEW r \in 0 .. n - 1, NEW p \in Int, NEW s \in 0 .. n - 1,
         n * q + r = n * p + s
  PROVE  r = s
  <1>1. n * (q - p) = s - r
    OBVIOUS
  <1>2. CASE q = p
    BY <1>2
  <1>3. CASE q > p
    <2>1. q - p >= 1
      BY <1>3
    <2>2. n * (q - p) >= n
      BY <2>1
    <2> QED
      BY <1>1, <2>2
  <1>4. CASE q < p
    <2>1. p - q >= 1
      BY <1>4
    <2>2. n * (p - q) >= n
      BY <2>1
    <2>3. n * (p - q) = r - s
      BY <1>1
    <2> QED
      BY <2>3, <2>2
  <1> QED
    BY <1>2, <1>3, <1>4

LEMMA ModSum ==
  ASSUME NEW a \in Int, NEW b \in Int, NEW n \in Nat \ {0}
  PROVE  ((a % n) + b) % n = (a + b) % n
  <1> DEFINE qa == a \div n ra == a % n
             qs == (ra + b) \div n rs == (ra + b) % n qt == (a + b) \div n rt == (a + b) % n
  <1>1. a = n * qa + ra /\ ra \in 0 .. n - 1 /\ qa \in Int
    BY Euclid
  <1>2. ra + b = n * qs + rs /\ rs \in 0 .. n - 1 /\ qs \in Int
    <2>1. ra + b \in Int
      BY <1>1
    <2> QED
      BY <2>1, Euclid, Zenon
  <1>3. a + b = n * qt + rt /\ rt \in 0 .. n - 1 /\ qt \in Int
    BY Euclid
  <1> HIDE DEF qa, ra, qs, rs, qt, rt
  <1>4. n * (qa + qs) + rs = n * qt + rt
    BY <1>1, <1>2, <1>3
  <1>5. rs = rt
    <2>1. qa + qs \in Int
      BY <1>1, <1>2
    <2> QED
      BY <1>2, <1>3, <1>4, <2>1, UniqueRemainder, Zenon
  <1> QED
    BY <1>5 DEF rs, rt, ra

LEMMA ModMinus ==
  ASSUME NEW a \in Int, NEW b \in Int, NEW n \in Nat \ {0}
  PROVE  ((a % n) - (b % n)) % n = (a - b) % n
  <1> DEFINE qa == a \div n qb == b \div n ra == a % n rb == b % n
             qs == (ra - rb) \div n rs == (ra - rb) % n qt == (a - b) \div n rt == (a - b) % n
  <1>1. a = n * qa + ra /\ ra \in 0 .. n - 1 /\ qa \in Int
    BY Euclid
  <1>2. b = n * qb + rb /\ rb \in 0 .. n - 1 /\ qb \in Int
    BY Euclid
  <1>3. ra - rb = n * qs + rs /\ rs \in 0 .. n - 1 /\ qs \in Int
    <2>1. ra - rb \in Int
      BY <1>1, <1>2
    <2> QED
      BY <2>1, Euclid, Zenon
  <1>4. a - b = n * qt + rt /\ rt \in 0 .. n - 1 /\ qt \in Int
    BY Euclid
  <1> HIDE DEF qa, qb, ra, rb, qs, rs, qt, rt
  <1>5. n * (qa - qb + qs) + rs = n * qt + rt
    BY <1>1, <1>2, <1>3, <1>4
  <1>6. rs = rt
    <2>1. qa - qb + qs \in Int
      BY <1>1, <1>2, <1>3
    <2> QED
      BY <1>3, <1>4, <1>5, <2>1, UniqueRemainder, Zenon
  <1> QED
    BY <1>6 DEF rs, rt, ra, rb

(* The count goes on by what was skipped, through the wrap of numbers and  *)
(* count.                                                                  *)
ExpectedAfter(t, n) == (((t - 1) % n) + 1) % n
NumberOf(v, n) == (v - 1) % n
Skipped(t, v, n) == (NumberOf(v, n) - ExpectedAfter(t, n)) % n

LEMMA CountGoesOn ==
  ASSUME NEW n \in Nat \ {0}, NEW m \in Int, NEW t \in Nat, NEW v \in Nat
  PROVE  /\ NumberOf(v, n) = ExpectedAfter(t, n) => m % n = (m + v - t - 1) % n
         /\ Skipped(t, v, n) # 0 => ((m % n) + Skipped(t, v, n)) % n = (m + v - t - 1) % n
         /\ NumberOf(v, n) # ExpectedAfter(t, n) => Skipped(t, v, n) # 0
  <1> DEFINE expected == ExpectedAfter(t, n) number == NumberOf(v, n) diff == Skipped(t, v, n)
  <1>e. /\ expected = (((t - 1) % n) + 1) % n /\ number = (v - 1) % n
        /\ diff = (number - expected) % n
    BY DEF ExpectedAfter, NumberOf, Skipped
  <1> HIDE DEF expected, number, diff
  <1>0. t - 1 \in Int /\ v - 1 \in Int /\ 1 \in Int /\ (t - 1) + 1 = t /\ v - 1 - t \in Int
    OBVIOUS
  <1>1. expected = t % n
    <2>1. (((t - 1) % n) + 1) % n = ((t - 1) + 1) % n
      BY <1>0, ModSum, Zenon
    <2> QED
      BY <1>0, <1>e, <2>1
  <1>2. diff = (v - 1 - t) % n
    <2>1. (((v - 1) % n) - (t % n)) % n = ((v - 1) - t) % n
      <3>1. t \in Int
        OBVIOUS
      <3> QED
        BY <1>0, <3>1, ModMinus, Zenon
    <2> QED
      BY <1>1, <1>e, <2>1
  <1>3. expected \in 0 .. n - 1 /\ number \in 0 .. n - 1
    BY <1>0, <1>1, <1>e, Euclid
  <1>4. diff \in 0 .. n - 1
    BY <1>2, Euclid
  <1>5. ((m % n) + diff) % n = (m + v - t - 1) % n
    <2>0. diff \in Int
      BY <1>4
    <2>1. ((m % n) + diff) % n = (m + diff) % n
      BY <2>0, ModSum, Zenon
    <2>2. (diff + m) % n = ((v - 1 - t) + m) % n
      <3>1. (((v - 1 - t) % n) + m) % n = ((v - 1 - t) + m) % n
        BY <1>0, ModSum, Zenon
      <3> QED
        BY <1>2, <3>1
    <2>3. diff + m = m + diff /\ (v - 1 - t) + m = m + v - t - 1
      BY <1>4
    <2> QED
      BY <2>1, <2>2, <2>3, Zenon
  <1>6. number = expected => diff = 0
    <2>1. 0 = n * (0 \div n) + (0 % n) /\ 0 % n \in 0 .. n - 1 /\ 0 \div n \in Int
      BY Euclid
    <2>2. 0 = n * 0 + 0
      OBVIOUS
    <2>3. 0 % n = 0
      BY <2>1, <2>2, UniqueRemainder
    <2>4. number = expected => number - expected = 0
      BY <1>3
    <2> QED
      BY <1>e, <2>3, <2>4
  <1>7. number = expected => m % n = (m + v - t - 1) % n
    <2> SUFFICES ASSUME number = expected PROVE m % n = (m + v - t - 1) % n
      OBVIOUS
    <2>1. ((m % n) + 0) % n = (m + v - t - 1) % n
      BY <1>5, <1>6
    <2>2. (m + 0) % n = ((m % n) + 0) % n
      <3>1. 0 \in Int
        OBVIOUS
      <3> QED
        BY <3>1, ModSum, Zenon
    <2>3. m + 0 = m
      OBVIOUS
    <2> QED
      BY <2>1, <2>2, <2>3
  <1>8. diff = 0 => number = expected
    <2> SUFFICES ASSUME diff = 0 PROVE number = expected
      OBVIOUS
    <2> DEFINE k == (number - expected) \div n
    <2>1. number - expected = n * k + 0 /\ k \in Int
      <3>1. number - expected \in Int
        BY <1>3
      <3>2. number - expected = n * k + diff /\ k \in Int
        BY <1>e, <3>1, Euclid, Zenon
      <3> QED
        BY <3>2
    <2> HIDE DEF k
    <2>2. n * k + expected = n * 0 + number
      BY <1>3, <2>1
    <2>3. 0 \in Int
      OBVIOUS
    <2> QED
      BY <1>3, <2>1, <2>2, <2>3, UniqueRemainder, Zenon
  <1> QED
    BY <1>5, <1>7, <1>8 DEF expected, number, diff

-----------------------------------------------------------------------------
(* The number of the last packet seen belongs to the packet taken last,    *)
(* and what a ring holds is newer than what was taken from it.             *)
Numbered ==
  /\ taken["imu"] \in Nat /\ missed \in Int
  /\ taken["imu"] <= put["imu"] /\ (len["imu"] # 0 => taken["imu"] < put["imu"])
  /\ lastSeq = IF taken["imu"] = 0 THEN -1 ELSE SeqOf(taken["imu"])
  /\ taken["imu"] = 0 => missed = 0 /\ gaps = 0
GapsInv == IInv /\ Numbered /\ GapsCounted

LEMMA ZeroGaps == 0 = 0 % Wrap
  <1>1. 0 = Wrap * (0 \div Wrap) + (0 % Wrap) /\ 0 % Wrap \in 0 .. Wrap - 1 /\ 0 \div Wrap \in Int
    BY Euclid, RpProducersAssumption
  <1>2. 0 = Wrap * 0 + 0
    BY RpProducersAssumption
  <1> QED
    BY <1>1, <1>2, UniqueRemainder, RpProducersAssumption

LEMMA InitGaps == Init => GapsInv
  <1> SUFFICES ASSUME Init PROVE GapsInv
    OBVIOUS
  <1>1. Numbered
    BY DEF Init, Numbered, Queues
  <1>2. GapsCounted
    BY ZeroGaps DEF Init, GapsCounted
  <1> QED
    BY <1>1, <1>2, InitIInv DEF GapsInv

LEMMA SeenGaps ==
  ASSUME GapsInv, NEW qs \in SUBSET Queues, "imu" \in qs, TakeLatest(qs), ImuSeen,
         UNCHANGED <<ring, put>>
  PROVE  Numbered' /\ GapsCounted'
  <1>1. /\ len["imu"] \in Nat /\ put["imu"] \in Nat /\ taken["imu"] \in Nat /\ missed \in Int
        /\ Wrap \in Nat \ {0} /\ "imu" \in Queues
    BY RpProducersAssumption DEF GapsInv, IInv, TypeOK, Numbered, Queues
  <1>2. len'["imu"] = 0 /\ put' = put
    BY <1>1 DEF TakeLatest
  <1>3. CASE len["imu"] = 0
    <2>1. UNCHANGED <<lastSeq, gaps, missed>> /\ taken'["imu"] = taken["imu"]
      BY <1>1, <1>3 DEF ImuSeen, TakeLatest, Looked
    <2> QED
      BY <1>2, <2>1 DEF GapsInv, Numbered, GapsCounted, SeqOf
  <1>4. CASE len["imu"] # 0
    <2> DEFINE v == put["imu"] t == taken["imu"]
    <2>1. ring["imu"][Newest("imu")] = v /\ v # 0 /\ t < v
      BY <1>1, <1>4 DEF GapsInv, IInv, HoldsNewest, Numbered
    <2>2. /\ gaps' = GapsAfter(v) /\ lastSeq' = SeqOf(v)
          /\ missed' = IF t = 0 THEN 0 ELSE missed + v - t - 1
      BY <1>4, <2>1 DEF ImuSeen
    <2>3. taken'["imu"] = v
      BY <1>1, <1>4, <2>1 DEF TakeLatest, Looked
    <2>4. CASE t = 0
      <3>1. missed' = 0 /\ gaps' = 0
        BY <2>2, <2>4 DEF GapsAfter, GapsInv, Numbered
      <3>2. GapsCounted'
        BY <3>1, ZeroGaps DEF GapsCounted
      <3> QED
        BY <1>1, <1>2, <2>1, <2>2, <2>3, <3>1, <3>2 DEF Numbered, SeqOf
    <2>5. CASE t # 0
      <3>1. lastSeq = (t - 1) % Wrap /\ lastSeq # -1 /\ gaps = missed % Wrap
        <4>0. t - 1 \in Int
          BY <1>1
        <4>1. (t - 1) % Wrap \in 0 .. Wrap - 1
          BY <1>1, <4>0, Euclid, Zenon
        <4>2. lastSeq = (t - 1) % Wrap
          BY <2>5 DEF GapsInv, Numbered, SeqOf
        <4> QED
          BY <1>1, <4>1, <4>2 DEF GapsInv, GapsCounted
      <3>2. missed' = missed + v - t - 1
        BY <2>2, <2>5
      <3> DEFINE expected == (lastSeq + 1) % Wrap number == (v - 1) % Wrap
                 diff == (number - expected) % Wrap
      <3>3. gaps' = IF number = expected THEN gaps
                    ELSE (gaps + (IF diff = 0 THEN 1 ELSE diff)) % Wrap
        BY <2>2, <3>1, Zenon DEF GapsAfter, SeqOf
      <3>4. expected = (((t - 1) % Wrap) + 1) % Wrap
        BY <3>1
      <3>5. missed' % Wrap = (missed + v - t - 1) % Wrap
        BY <3>2
      <3> HIDE DEF expected, number, diff
      <3>6. /\ number = expected => gaps = (missed + v - t - 1) % Wrap
            /\ diff # 0 => (gaps + diff) % Wrap = (missed + v - t - 1) % Wrap
            /\ number # expected => diff # 0
        <4>1. v \in Nat /\ t \in Nat
          BY <1>1
        <4>2. /\ number = expected => missed % Wrap = (missed + v - t - 1) % Wrap
              /\ diff # 0 => ((missed % Wrap) + diff) % Wrap = (missed + v - t - 1) % Wrap
              /\ number # expected => diff # 0
          <5>1. number = NumberOf(v, Wrap)
            BY DEF number, NumberOf
          <5>2. expected = ExpectedAfter(t, Wrap)
            BY <3>4 DEF ExpectedAfter
          <5>3. diff = Skipped(t, v, Wrap)
            BY <5>1, <5>2 DEF diff, Skipped
          <5> HIDE DEF v, t
          <5>4. Wrap \in Nat \ {0} /\ missed \in Int
            BY <1>1
          <5>5. /\ NumberOf(v, Wrap) = ExpectedAfter(t, Wrap) => missed % Wrap = (missed + v - t - 1) % Wrap
                /\ Skipped(t, v, Wrap) # 0
                     => ((missed % Wrap) + Skipped(t, v, Wrap)) % Wrap = (missed + v - t - 1) % Wrap
                /\ NumberOf(v, Wrap) # ExpectedAfter(t, Wrap) => Skipped(t, v, Wrap) # 0
            BY <4>1, <5>4, CountGoesOn, Zenon
          <5> QED
            BY <5>1, <5>2, <5>3, <5>5
        <4> QED
          BY <3>1, <4>2, Zenon
      <3>7. GapsCounted'
        BY <3>3, <3>5, <3>6, Zenon DEF GapsCounted
      <3>8. Numbered'
        BY <1>1, <1>2, <2>1, <2>2, <2>3, <3>2 DEF Numbered, SeqOf
      <3> QED
        BY <3>7, <3>8
    <2> QED
      BY <2>4, <2>5
  <1> QED
    BY <1>3, <1>4

LEMMA NextGaps == GapsInv /\ [Next]_vars => GapsInv'
  <1> SUFFICES ASSUME GapsInv, [Next]_vars PROVE GapsInv'
    OBVIOUS
  <1>0. IInv' /\ IInv
    BY NextIInv DEF GapsInv
  <1>1. CASE (PutImu \/ PutRc \/ PutGnss)
    <2>1. UNCHANGED <<lastSeq, gaps, missed, taken>>
      BY <1>1 DEF PutImu, PutRc, PutGnss, PushRc, PushGnss, Push
    <2>2. PICK q \in Queues : PutStep(q)
      BY <1>1, PutIsStep
    <2>4. q # "imu" => len'["imu"] = len["imu"] /\ put'["imu"] = put["imu"]
      BY <1>0, <2>2, PutKeeps DEF Queues
    <2>5. put["imu"] \in Nat
      BY <1>0 DEF IInv, TypeOK, Queues
    <2>6. q = "imu" => put'["imu"] = put["imu"] + 1
      BY <1>0, <2>2 DEF PutStep, IInv, TypeOK, Queues
    <2> QED
      BY <1>0, <2>1, <2>4, <2>5, <2>6 DEF GapsInv, Numbered, GapsCounted, SeqOf
  <1>2. CASE UpdateSensorBus \/ UpdateImuSensor
    <2>1. PICK qs \in SUBSET Queues :
            "imu" \in qs /\ TakeLatest(qs) /\ ImuSeen /\ UNCHANGED <<ring, put>>
      BY <1>2 DEF UpdateSensorBus, UpdateImuSensor, Queues
    <2> QED
      BY <1>0, <2>1, SeenGaps DEF GapsInv
  <1>3. CASE UpdateServiceSensorBus
    <2>1. UNCHANGED <<lastSeq, gaps, missed, put>>
          /\ taken'["imu"] = taken["imu"] /\ len'["imu"] = len["imu"]
      BY <1>0, <1>3 DEF UpdateServiceSensorBus, TakeLatest, Looked, Queues
    <2> QED
      BY <1>0, <2>1 DEF GapsInv, Numbered, GapsCounted, SeqOf
  <1>4. CASE ImuInit \/ ImuInitFails \/ UNCHANGED vars
    <2>1. UNCHANGED <<lastSeq, gaps, missed, put, taken, len>>
      BY <1>4 DEF ImuInit, ImuInitFails, vars
    <2> QED
      BY <1>0, <2>1 DEF GapsInv, Numbered, GapsCounted, SeqOf
  <1> QED
    BY <1>1, <1>2, <1>3, <1>4 DEF Next

-----------------------------------------------------------------------------
(* Queues: what an append and a removal at the front do to one. *)
Once(s) == \A a, b \in 1 .. Len(s) : s[a] = s[b] => a = b
Elements(s) == {s[i] : i \in 1 .. Len(s)}

LEMMA Appended ==
  ASSUME NEW S, NEW s \in Seq(S), NEW e \in S
  PROVE  /\ Append(s, e) \in Seq(S) /\ Len(s) \in Nat /\ Len(Append(s, e)) = Len(s) + 1
         /\ \A i \in 1 .. Len(s) : Append(s, e)[i] = s[i]
         /\ Append(s, e)[Len(s) + 1] = e
         /\ Elements(Append(s, e)) = Elements(s) \cup {e}
         /\ Once(s) /\ e \notin Elements(s) => Once(Append(s, e))
  <1>1. /\ Append(s, e) \in Seq(S) /\ Len(s) \in Nat /\ Len(Append(s, e)) = Len(s) + 1
        /\ \A i \in 1 .. Len(s) : Append(s, e)[i] = s[i]
        /\ Append(s, e)[Len(s) + 1] = e
    BY AppendProperties, LenProperties
  <1> DEFINE n == Len(s) t == Append(s, e)
  <1>2. 1 .. n + 1 = 1 .. n \cup {n + 1}
    BY <1>1
  <1>3. Elements(t) = Elements(s) \cup {e}
    <2> HIDE DEF t, n
    <2>1. \A x \in Elements(t) : x \in Elements(s) \cup {e}
      BY <1>1, <1>2 DEF Elements, t, n
    <2>2. \A x \in Elements(s) \cup {e} : x \in Elements(t)
      BY <1>1, <1>2 DEF Elements, t, n
    <2> QED
      BY <2>1, <2>2
  <1>4. Once(s) /\ e \notin Elements(s) => Once(t)
    <2> SUFFICES ASSUME Once(s), e \notin Elements(s), NEW a \in 1 .. n + 1, NEW b \in 1 .. n + 1, t[a] = t[b]
                 PROVE  a = b
      BY <1>1 DEF Once
    <2>1. \A i \in 1 .. n : s[i] # e
      BY DEF Elements
    <2> QED
      BY <1>1, <1>2, <2>1 DEF Once
  <1> QED
    BY <1>1, <1>3, <1>4

LEMMA Removed ==
  ASSUME NEW S, NEW s \in Seq(S), s # <<>>
  PROVE  /\ Tail(s) \in Seq(S) /\ Len(s) \in Nat \ {0} /\ Len(Tail(s)) = Len(s) - 1
         /\ \A i \in 1 .. Len(s) - 1 : Tail(s)[i] = s[i + 1]
         /\ Head(s) = s[1] /\ s[1] \in S /\ s[1] \in Elements(s)
         /\ Once(s) => Elements(Tail(s)) = Elements(s) \ {s[1]}
         /\ Once(s) => Once(Tail(s))
  <1>1. /\ Tail(s) \in Seq(S) /\ Len(s) \in Nat \ {0} /\ Len(Tail(s)) = Len(s) - 1
        /\ \A i \in 1 .. Len(s) - 1 : Tail(s)[i] = s[i + 1]
        /\ Head(s) = s[1] /\ s[1] \in S
    BY HeadTailProperties, LenProperties, EmptySeq
  <1> DEFINE n == Len(s) t == Tail(s)
  <1>2. Once(s) => Elements(t) = Elements(s) \ {s[1]}
    <2> SUFFICES ASSUME Once(s) PROVE Elements(t) = Elements(s) \ {s[1]}
      OBVIOUS
    <2>1. \A x \in Elements(t) : x \in Elements(s) /\ x # s[1]
      <3> SUFFICES ASSUME NEW i \in 1 .. n - 1 PROVE t[i] \in Elements(s) /\ t[i] # s[1]
        BY <1>1 DEF Elements
      <3>1. t[i] = s[i + 1] /\ i + 1 \in 1 .. n /\ i + 1 # 1 /\ 1 \in 1 .. n
        BY <1>1
      <3> QED
        BY <3>1 DEF Elements, Once
    <2>2. \A i \in 1 .. n : s[i] # s[1] => s[i] \in Elements(t)
      <3> SUFFICES ASSUME NEW i \in 1 .. n, s[i] # s[1] PROVE s[i] \in Elements(t)
        OBVIOUS
      <3>1. i - 1 \in 1 .. n - 1 /\ t[i - 1] = s[i]
        BY <1>1
      <3> QED
        BY <1>1, <3>1 DEF Elements
    <2>3. \A x \in Elements(s) : x # s[1] => x \in Elements(t)
      BY <2>2 DEF Elements
    <2> QED
      BY <2>1, <2>3
  <1>3. Once(s) => Once(t)
    <2> SUFFICES ASSUME Once(s), NEW a \in 1 .. n - 1, NEW b \in 1 .. n - 1, t[a] = t[b]
                 PROVE  a = b
      BY <1>1 DEF Once
    <2>1. t[a] = s[a + 1] /\ t[b] = s[b + 1] /\ a + 1 \in 1 .. n /\ b + 1 \in 1 .. n
      BY <1>1
    <2> QED
      BY <2>1 DEF Once
  <1>4. s[1] \in Elements(s)
    BY <1>1 DEF Elements
  <1> QED
    BY <1>1, <1>2, <1>3, <1>4

-----------------------------------------------------------------------------
(* The mailbox.  Its instances share the counting of sets.                 *)
DownStreams == {"DiffPressure", "Baro", "Imu", "Attitude", "OutputRaw", "RcRaw", "Range", "Mag",
                "Gnss", "BatteryStatus"}

LEMMA TheStreams ==
  /\ Down!Streams = DownStreams
  /\ IsFiniteSet(DownStreams)
  /\ \A S : Down!Cardinality(S) = Cardinality(S)
  <1>1. Down!Streams = DownStreams
    BY DEF Down!Streams, Down!Samples, Down!Slow, Down!Stream, DownStreams
  <1>2. IsFiniteSet(DownStreams)
    <2>1. IsFiniteSet({"DiffPressure", "Baro"})
      <3>1. {"DiffPressure", "Baro"} = {"DiffPressure"} \cup {"Baro"}
        OBVIOUS
      <3>2. IsFiniteSet({"DiffPressure"})
        BY FS_Singleton
      <3> QED
        BY <3>1, <3>2, FS_AddElement
    <2> DEFINE A == {"DiffPressure", "Baro"} B == A \cup {"Imu"} C == B \cup {"Attitude"}
               D == C \cup {"OutputRaw"} E == D \cup {"RcRaw"} F == E \cup {"Range"}
               G == F \cup {"Mag"} H == G \cup {"Gnss"} I == H \cup {"BatteryStatus"}
    <2>2. IsFiniteSet(B)
      BY <2>1, FS_AddElement
    <2> HIDE DEF B
    <2>3. IsFiniteSet(C)
      BY <2>2, FS_AddElement
    <2> HIDE DEF C
    <2>4. IsFiniteSet(D)
      BY <2>3, FS_AddElement
    <2> HIDE DEF D
    <2>5. IsFiniteSet(E)
      BY <2>4, FS_AddElement
    <2> HIDE DEF E
    <2>6. IsFiniteSet(F)
      BY <2>5, FS_AddElement
    <2> HIDE DEF F
    <2>7. IsFiniteSet(G)
      BY <2>6, FS_AddElement
    <2> HIDE DEF G
    <2>8. IsFiniteSet(H)
      BY <2>7, FS_AddElement
    <2> HIDE DEF H
    <2>9. IsFiniteSet(I)
      BY <2>8, FS_AddElement
    <2>10. I = DownStreams
      BY DEF DownStreams, B, C, D, E, F, G, H
    <2> QED
      BY <2>9, <2>10
  <1>3. \A S : Down!Cardinality(S) = Cardinality(S)
    BY DEF Down!Cardinality, Cardinality
  <1> QED
    BY <1>1, <1>2, <1>3

(* Down to the companion: types, and the receiving half at rest. *)
Message == Down!Kinds \X (0 .. 3)
DownTypes ==
  /\ box_rx = <<>> /\ box_critHeard = 0
  /\ box_crit \in Seq(Message) /\ Len(box_crit) <= 2
  /\ box_ready \in Seq(DownStreams)
  /\ box_tele \in [DownStreams -> 0 .. 3] /\ box_newest \in [DownStreams -> 0 .. 3]
  /\ box_sent \in 0 .. 3
  /\ box_wire \in [DownStreams \cup {"crit"} -> 0 .. 3]
  /\ box_stats \in [{"enqueued", "drained", "dropped", "replaced"} -> 0 .. 3]
  /\ box_count0 \in {"none", "enqueued", "dropped"} /\ box_count1 \in {"none", "drained"}

Waiting == {s \in DownStreams : box_tele[s] # 0}
(* Each stream with a message stands once in the queue. *)
DownReady ==
  /\ Once(box_ready) /\ Elements(box_ready) = Waiting /\ Len(box_ready) = Cardinality(Waiting)
  /\ \A s \in Waiting : box_tele[s] = box_newest[s]

(* Critical messages are in the order of their numbers. *)
DownOrder ==
  /\ \A i \in 1 .. Len(box_crit) : box_wire["crit"] <= box_crit[i][2] /\ box_crit[i][2] <= box_sent
  /\ \A i, j \in 1 .. Len(box_crit) : i < j => box_crit[i][2] <= box_crit[j][2]
  /\ box_wire["crit"] <= box_sent

(* The balance, with what the cores have still to count. *)
One(yes) == IF yes THEN 1 ELSE 0
Balance(e, x, d, y, r, c, q) == (e + x - d - y - r - c - q) % 4 = 0
DownBalance ==
  Balance(box_stats["enqueued"], One(box_count0 = "enqueued"),
          box_stats["drained"], One(box_count1 = "drained"), box_stats["replaced"],
          Len(box_crit), Len(box_ready))

DownInv == DownTypes /\ DownReady /\ DownOrder /\ DownBalance

LEMMA DownInit == Down!Init => DownInv
  <1> SUFFICES ASSUME Down!Init PROVE DownInv
    OBVIOUS
  <1>1. DownTypes
    BY TheStreams, EmptySeq DEF Down!Init, DownTypes
  <1>2. Waiting = {}
    BY TheStreams DEF Down!Init, Waiting
  <1>3. DownReady
    BY <1>2, FS_EmptySet, EmptySeq DEF Down!Init, DownReady, Once, Elements
  <1>4. DownOrder
    BY TheStreams, EmptySeq DEF Down!Init, DownOrder
  <1>5. DownBalance
    BY EmptySeq DEF Down!Init, DownBalance, Balance, One
  <1> QED
    BY <1>1, <1>3, <1>4, <1>5 DEF DownInv

LEMMA DownImplies ==
  ASSUME DownInv
  PROVE  Down!TypeOK /\ Down!ReadyIsPending /\ Down!NewestWaits /\ Down!StatsBalance
  <1>1. Down!Pending = Waiting /\ Cardinality(Waiting) \in Nat /\ Cardinality(Waiting) <= Cardinality(DownStreams)
    BY TheStreams, FS_Subset, FS_CardinalityType DEF Down!Pending, Waiting
  <1>2. Down!TypeOK
    BY <1>1, TheStreams DEF Down!TypeOK, DownInv, DownTypes, DownReady
  <1>3. Down!ReadyIsPending
    BY <1>1 DEF DownInv, DownTypes, DownReady, Once, Elements, Down!ReadyIsPending, Down!IsInjective, Down!ToSet
  <1>4. Down!NewestWaits
    BY <1>1 DEF DownInv, DownReady, Down!NewestWaits
  <1>5. Down!StatsBalance
    <2> SUFFICES ASSUME box_count0 = "none", box_count1 = "none"
                 PROVE  (box_stats.enqueued - box_stats.drained - box_stats.replaced
                           - Len(box_crit) - Down!Cardinality(Down!Pending)) % 4 = 0
      BY DEF Down!StatsBalance
    <2>1. Down!Cardinality(Down!Pending) = Len(box_ready)
      BY <1>1, TheStreams DEF DownInv, DownReady
    <2>2. One(box_count0 = "enqueued") = 0 /\ One(box_count1 = "drained") = 0
      BY DEF One
    <2>3. /\ box_stats["enqueued"] \in Int /\ box_stats["drained"] \in Int /\ box_stats["replaced"] \in Int
          /\ Len(box_crit) \in Nat /\ Len(box_ready) \in Nat
      BY LenProperties DEF DownInv, DownTypes
    <2> QED
      BY <2>1, <2>2, <2>3 DEF DownInv, DownBalance, Balance
  <1> QED
    BY <1>2, <1>3, <1>4, <1>5

(* What the counters may do: the arithmetic of one update. *)
LEMMA Counted ==
  ASSUME NEW e \in 0 .. 3, NEW d \in 0 .. 3, NEW r \in 0 .. 3, NEW x \in 0 .. 1, NEW y \in 0 .. 1,
         NEW c \in Nat, NEW q \in Nat, Balance(e, x, d, y, r, c, q)
  PROVE  /\ x = 1 => Balance((e + 1) % 4, 0, d, y, r, c, q)
         /\ y = 1 => Balance(e, x, (d + 1) % 4, 0, r, c, q)
         /\ x = 0 => Balance(e, 1, d, y, r, c + 1, q)
         /\ x = 0 => Balance(e, 1, d, y, (r + 1) % 4, c, q)
         /\ x = 0 => Balance(e, 1, d, y, r, c, q + 1)
         /\ y = 0 => Balance(e, x, d, 1, r, c - 1, q)
         /\ y = 0 => Balance(e, x, d, 1, r, c, q - 1)
  BY DEF Balance

LEMMA Ones == One(TRUE) = 1 /\ One(FALSE) = 0
  BY DEF One

LEMMA DownNumbers ==
  ASSUME DownTypes
  PROVE  /\ box_stats["enqueued"] \in 0 .. 3 /\ box_stats["drained"] \in 0 .. 3
         /\ box_stats["replaced"] \in 0 .. 3
         /\ One(box_count0 = "enqueued") \in 0 .. 1 /\ One(box_count1 = "drained") \in 0 .. 1
         /\ Len(box_crit) \in Nat /\ Len(box_ready) \in Nat
         /\ Down!ThisSent \in 1 .. 3 /\ Down!ThisSent >= box_sent
         /\ box_wire["crit"] \in 0 .. 3 /\ \A i \in 1 .. Len(box_crit) : box_crit[i][2] \in 0 .. 3
  <1>1. \A i \in 1 .. Len(box_crit) : box_crit[i] \in Message
    BY ElementOfSeq DEF DownTypes
  <1>2. \A i \in 1 .. Len(box_crit) : box_crit[i][2] \in 0 .. 3
    BY <1>1 DEF Message
  <1> QED
    BY <1>2, LenProperties DEF DownTypes, One, Down!ThisSent, Down!Least

(* The same of the counters of the mailbox. *)
LEMMA BalanceSteps ==
  ASSUME DownInv
  PROVE  /\ box_count0 = "enqueued" =>
              Balance((box_stats["enqueued"] + 1) % 4, 0, box_stats["drained"],
                      One(box_count1 = "drained"), box_stats["replaced"], Len(box_crit), Len(box_ready))
         /\ box_count1 = "drained" =>
              Balance(box_stats["enqueued"], One(box_count0 = "enqueued"), (box_stats["drained"] + 1) % 4,
                      0, box_stats["replaced"], Len(box_crit), Len(box_ready))
         /\ box_count0 = "none" =>
              /\ Balance(box_stats["enqueued"], 1, box_stats["drained"],
                         One(box_count1 = "drained"), box_stats["replaced"], Len(box_crit) + 1, Len(box_ready))
              /\ Balance(box_stats["enqueued"], 1, box_stats["drained"],
                         One(box_count1 = "drained"), (box_stats["replaced"] + 1) % 4,
                         Len(box_crit), Len(box_ready))
              /\ Balance(box_stats["enqueued"], 1, box_stats["drained"],
                         One(box_count1 = "drained"), box_stats["replaced"], Len(box_crit), Len(box_ready) + 1)
         /\ box_count1 = "none" =>
              /\ Balance(box_stats["enqueued"], One(box_count0 = "enqueued"), box_stats["drained"],
                         1, box_stats["replaced"], Len(box_crit) - 1, Len(box_ready))
              /\ Balance(box_stats["enqueued"], One(box_count0 = "enqueued"), box_stats["drained"],
                         1, box_stats["replaced"], Len(box_crit), Len(box_ready) - 1)
  <1> DEFINE e == box_stats["enqueued"] d == box_stats["drained"] r == box_stats["replaced"]
             x == One(box_count0 = "enqueued") y == One(box_count1 = "drained")
             c == Len(box_crit) q == Len(box_ready)
  <1>1. /\ e \in 0 .. 3 /\ d \in 0 .. 3 /\ r \in 0 .. 3 /\ x \in 0 .. 1 /\ y \in 0 .. 1
        /\ c \in Nat /\ q \in Nat /\ Balance(e, x, d, y, r, c, q)
    BY DownNumbers DEF DownInv, DownBalance
  <1>2. /\ box_count0 = "enqueued" => x = 1
        /\ box_count1 = "drained" => y = 1
        /\ box_count0 = "none" => x = 0
        /\ box_count1 = "none" => y = 0
    BY DEF One
  <1> HIDE DEF e, d, r, x, y, c, q
  <1>3. /\ x = 1 => Balance((e + 1) % 4, 0, d, y, r, c, q)
        /\ y = 1 => Balance(e, x, (d + 1) % 4, 0, r, c, q)
        /\ x = 0 => Balance(e, 1, d, y, r, c + 1, q)
        /\ x = 0 => Balance(e, 1, d, y, (r + 1) % 4, c, q)
        /\ x = 0 => Balance(e, 1, d, y, r, c, q + 1)
        /\ y = 0 => Balance(e, x, d, 1, r, c - 1, q)
        /\ y = 0 => Balance(e, x, d, 1, r, c, q - 1)
    BY <1>1, Counted, Zenon
  <1> QED
    BY <1>2, <1>3 DEF e, d, r, x, y, c, q

(* A later number leaves the order of what waits as it is. *)
LEMMA SentLater ==
  ASSUME DownInv, box_sent' \in 1 .. 3, box_sent' >= box_sent, UNCHANGED <<box_crit, box_wire>>
  PROVE  DownOrder'
  <1>1. box_sent \in 0 .. 3 /\ box_wire["crit"] \in 0 .. 3
        /\ \A i \in 1 .. Len(box_crit) : box_crit[i][2] \in 0 .. 3
    BY DownNumbers DEF DownInv, DownTypes
  <1>2. box_wire["crit"] <= box_sent'
    BY <1>1 DEF DownInv, DownOrder
  <1>3. \A i \in 1 .. Len(box_crit) : box_wire["crit"] <= box_crit[i][2] /\ box_crit[i][2] <= box_sent'
    BY <1>1 DEF DownInv, DownOrder
  <1> QED
    BY <1>2, <1>3 DEF DownInv, DownOrder

(* Core 0 sends a critical message: it is appended, or counted as dropped. *)
LEMMA DownSendsCritical ==
  ASSUME DownInv, Down!Send("Status")
  PROVE  DownInv'
  <1> DEFINE n == Down!ThisSent
  <1>0. DownTypes /\ n \in 1 .. 3 /\ n >= box_sent
    BY DownNumbers DEF DownInv
  <1>1. /\ box_count0 = "none" /\ box_sent' = n
        /\ UNCHANGED <<box_tele, box_ready, box_stats, box_newest, box_count1, box_wire, box_rx, box_critHeard>>
        /\ \/ Len(box_crit) < 2 /\ box_crit' = Append(box_crit, <<"Status", n>>) /\ box_count0' = "enqueued"
           \/ box_crit' = box_crit /\ box_count0' = "dropped"
    BY DEF Down!Send, Down!Replaceable, Down!Samples, Down!Slow, Down!ToCritical, Down!rxVars
  <1> HIDE DEF n
  <1>2. <<"Status", n>> \in Message
    BY <1>0 DEF Message, Down!Kinds, Down!Answers
  <1>3. CASE Len(box_crit) < 2 /\ box_crit' = Append(box_crit, <<"Status", n>>) /\ box_count0' = "enqueued"
    <2>1. /\ box_crit' \in Seq(Message) /\ Len(box_crit) \in Nat /\ Len(box_crit') = Len(box_crit) + 1
          /\ \A i \in 1 .. Len(box_crit) : box_crit'[i] = box_crit[i]
          /\ box_crit'[Len(box_crit) + 1] = <<"Status", n>>
      BY <1>0, <1>2, <1>3, Appended DEF DownTypes
    <2>2. DownTypes'
      BY <1>0, <1>1, <1>3, <2>1 DEF DownTypes
    <2>3. DownReady'
      BY <1>1 DEF DownInv, DownReady, Waiting
    <2>4. DownOrder'
      <3>1. 1 .. Len(box_crit') = 1 .. Len(box_crit) \cup {Len(box_crit) + 1}
        BY <2>1
      <3>2. box_crit'[Len(box_crit) + 1][2] = n
        BY <2>1
      <3>3. \A i \in 1 .. Len(box_crit') : box_wire["crit"] <= box_crit'[i][2] /\ box_crit'[i][2] <= n
        <4>1. \A i \in 1 .. Len(box_crit) : box_wire["crit"] <= box_crit[i][2] /\ box_crit[i][2] <= n
          BY <1>0, DownNumbers DEF DownInv, DownOrder, DownTypes
        <4>2. box_wire["crit"] <= n
          BY <1>0, DownNumbers DEF DownInv, DownOrder, DownTypes
        <4>3. \A i \in 1 .. Len(box_crit) : box_wire["crit"] <= box_crit'[i][2] /\ box_crit'[i][2] <= n
          BY <2>1, <4>1
        <4> QED
          BY <1>0, <3>1, <3>2, <4>2, <4>3
      <3>4. \A i, j \in 1 .. Len(box_crit') : i < j => box_crit'[i][2] <= box_crit'[j][2]
        <4> SUFFICES ASSUME NEW i \in 1 .. Len(box_crit'), NEW j \in 1 .. Len(box_crit'), i < j
                     PROVE  box_crit'[i][2] <= box_crit'[j][2]
          OBVIOUS
        <4>1. i \in 1 .. Len(box_crit)
          BY <2>1
        <4>2. CASE j \in 1 .. Len(box_crit)
          BY <2>1, <4>1, <4>2 DEF DownInv, DownOrder
        <4>3. CASE j = Len(box_crit) + 1
          BY <3>2, <3>3, <4>3
        <4> QED
          BY <3>1, <4>2, <4>3
      <3>5. box_wire["crit"] <= n
        BY <1>0, DownNumbers DEF DownInv, DownOrder, DownTypes
      <3> QED
        BY <1>1, <3>3, <3>4, <3>5 DEF DownOrder
    <2>5. DownBalance'
      BY <1>0, <1>1, <1>3, <2>1, BalanceSteps, Ones DEF DownBalance
    <2> QED
      BY <2>2, <2>3, <2>4, <2>5 DEF DownInv
  <1>4. CASE box_crit' = box_crit /\ box_count0' = "dropped"
    <2>1. DownTypes'
      BY <1>0, <1>1, <1>4 DEF DownTypes
    <2>2. DownReady'
      BY <1>1 DEF DownInv, DownReady, Waiting
    <2>3. DownOrder'
      BY <1>0, <1>1, <1>4, SentLater
    <2>4. DownBalance'
      BY <1>1, <1>4 DEF DownInv, DownBalance, One
    <2> QED
      BY <2>1, <2>2, <2>3, <2>4 DEF DownInv
  <1> QED
    BY <1>1, <1>3, <1>4

(* Core 0 sends a sample: it replaces the one that waits, or queues up.    *)
LEMMA DownSendsSample ==
  ASSUME DownInv, NEW kind \in {"Imu", "RcRaw", "RcChannels"}, Down!Send(kind)
  PROVE  DownInv'
  <1> DEFINE n == Down!ThisSent s == Down!Stream(kind)
  <1>0. DownTypes /\ n \in 1 .. 3 /\ n >= box_sent /\ s \in DownStreams
    BY DownNumbers DEF DownInv, Down!Stream, DownStreams
  <1>1. /\ box_count0 = "none" /\ box_sent' = n /\ box_count0' = "enqueued"
        /\ UNCHANGED <<box_crit, box_count1, box_wire, box_rx, box_critHeard>>
        /\ box_tele' = [box_tele EXCEPT ![s] = n] /\ box_newest' = [box_newest EXCEPT ![s] = n]
        /\ IF box_tele[s] # 0 THEN box_stats' = Down!Added("replaced") /\ box_ready' = box_ready
           ELSE box_ready' = Append(box_ready, s) /\ box_stats' = box_stats
    BY DEF Down!Send, Down!Replaceable, Down!Samples, Down!Slow, Down!ToStream, Down!rxVars
  <1> HIDE DEF n, s
  <1>2. /\ Waiting' = Waiting \cup {s}
        /\ s \in Waiting <=> box_tele[s] # 0
        /\ \A t \in Waiting' : box_tele'[t] = box_newest'[t]
    BY <1>0, <1>1 DEF Waiting, DownInv, DownReady, DownTypes
  <1>3. DownOrder'
    BY <1>0, <1>1, SentLater
  <1>4. CASE box_tele[s] # 0
    <2>1. /\ box_ready' = box_ready
          /\ box_stats' = [box_stats EXCEPT !["replaced"] = (box_stats["replaced"] + 1) % 4]
      BY <1>1, <1>4 DEF Down!Added
    <2>2. DownTypes'
      BY <1>0, <1>1, <2>1 DEF DownTypes
    <2>3. Waiting' = Waiting
      BY <1>2, <1>4
    <2>4. DownReady'
      BY <1>2, <2>1, <2>3 DEF DownInv, DownReady
    <2>5. DownBalance'
      <3>1. /\ box_stats'["enqueued"] = box_stats["enqueued"] /\ box_stats'["drained"] = box_stats["drained"]
            /\ box_stats'["replaced"] = (box_stats["replaced"] + 1) % 4
        BY <1>0, <2>1 DEF DownTypes
      <3> QED
        BY <1>0, <1>1, <2>1, <3>1, BalanceSteps, Ones DEF DownBalance
    <2> QED
      BY <1>3, <2>2, <2>4, <2>5 DEF DownInv
  <1>5. CASE box_tele[s] = 0
    <2>1. box_ready' = Append(box_ready, s) /\ box_stats' = box_stats
      BY <1>1, <1>5
    <2>2. /\ box_ready' \in Seq(DownStreams) /\ Len(box_ready) \in Nat /\ Len(box_ready') = Len(box_ready) + 1
          /\ Elements(box_ready') = Elements(box_ready) \cup {s}
          /\ Once(box_ready) /\ s \notin Elements(box_ready) => Once(box_ready')
      BY <1>0, <2>1, Appended DEF DownTypes
    <2>3. DownTypes'
      BY <1>0, <1>1, <2>1, <2>2 DEF DownTypes
    <2>4. Cardinality(Waiting') = Cardinality(Waiting) + 1
      <3>1. IsFiniteSet(Waiting) /\ s \notin Waiting
        BY <1>2, <1>5, TheStreams, FS_Subset DEF Waiting
      <3> QED
        BY <1>2, <3>1, FS_AddElement
    <2>5. DownReady'
      BY <1>2, <1>5, <2>2, <2>4 DEF DownInv, DownReady
    <2>6. DownBalance'
      BY <1>0, <1>1, <2>1, <2>2, BalanceSteps, Ones DEF DownBalance
    <2> QED
      BY <1>3, <2>3, <2>5, <2>6 DEF DownInv
  <1> QED
    BY <1>4, <1>5

LEMMA DownCounts ==
  ASSUME DownInv, Down!Count0 \/ Down!Count1
  PROVE  DownInv'
  <1>0. DownTypes
    BY DEF DownInv
  <1>1. UNCHANGED <<box_tele, box_ready, box_newest, box_wire, box_rx, box_critHeard, box_crit, box_sent>>
    BY DEF Down!Count0, Down!Count1, Down!rxVars
  <1>2. DownReady' /\ DownOrder'
    BY <1>1 DEF DownInv, DownReady, DownOrder, Waiting
  <1>3. CASE Down!Count0
    <2>1. /\ box_count0 # "none" /\ box_count0' = "none" /\ box_count1' = box_count1
          /\ box_stats' = [box_stats EXCEPT ![box_count0] = (@ + 1) % 4]
      BY <1>3 DEF Down!Count0, Down!Added
    <2>2. DownTypes'
      BY <1>0, <1>1, <2>1 DEF DownTypes
    <2>3. box_stats'["drained"] = box_stats["drained"] /\ box_stats'["replaced"] = box_stats["replaced"]
      BY <1>0, <2>1 DEF DownTypes
    <2>4. CASE box_count0 = "enqueued"
      <3>1. box_stats'["enqueued"] = (box_stats["enqueued"] + 1) % 4
        BY <1>0, <2>1, <2>4 DEF DownTypes
      <3>2. DownBalance'
        BY <1>0, <1>1, <2>1, <2>3, <2>4, <3>1, BalanceSteps, Ones DEF DownBalance
      <3> QED
        BY <1>2, <2>2, <3>2 DEF DownInv
    <2>5. CASE box_count0 = "dropped"
      <3>1. box_stats'["enqueued"] = box_stats["enqueued"]
        BY <1>0, <2>1, <2>5 DEF DownTypes
      <3>2. DownBalance'
        BY <1>1, <2>1, <2>3, <2>5, <3>1 DEF DownInv, DownBalance, One
      <3> QED
        BY <1>2, <2>2, <3>2 DEF DownInv
    <2> QED
      BY <1>0, <2>1, <2>4, <2>5 DEF DownTypes
  <1>4. CASE Down!Count1
    <2>1. /\ box_count1 = "drained" /\ box_count1' = "none" /\ box_count0' = box_count0
          /\ box_stats' = [box_stats EXCEPT !["drained"] = (@ + 1) % 4]
      BY <1>0, <1>4 DEF Down!Count1, Down!Added, DownTypes
    <2>2. DownTypes'
      BY <1>0, <1>1, <2>1 DEF DownTypes
    <2>3. /\ box_stats'["enqueued"] = box_stats["enqueued"] /\ box_stats'["replaced"] = box_stats["replaced"]
          /\ box_stats'["drained"] = (box_stats["drained"] + 1) % 4
      BY <1>0, <2>1 DEF DownTypes
    <2>4. DownBalance'
      BY <1>0, <1>1, <2>1, <2>3, BalanceSteps, Ones DEF DownBalance
    <2> QED
      BY <1>2, <2>2, <2>4 DEF DownInv
  <1> QED
    BY <1>3, <1>4

(* Core 1 takes the next message: a critical one, else the next stream's.  *)
LEMMA DownSent ==
  ASSUME DownInv, Down!UartTx
  PROVE  /\ DownInv'
         /\ box_crit # <<>> => \A s \in DownStreams : box_wire'[s] = box_wire[s]
         /\ box_wire'["crit"] >= box_wire["crit"]
  <1>0. DownTypes
    BY DEF DownInv
  <1>1. /\ box_count1 = "none" /\ box_count1' = "drained"
        /\ UNCHANGED <<box_stats, box_count0, box_sent, box_newest, box_rx, box_critHeard>>
    BY DEF Down!UartTx, Down!rxVars
  <1>2. CASE box_crit # <<>>
    <2>1. /\ box_crit' = Tail(box_crit) /\ UNCHANGED <<box_tele, box_ready>>
          /\ box_wire' = [box_wire EXCEPT !["crit"] = Head(box_crit)[2]]
      BY <1>2 DEF Down!UartTx, Down!Pop
    <2>2. /\ Tail(box_crit) \in Seq(Message) /\ Len(box_crit) \in Nat \ {0}
          /\ Len(Tail(box_crit)) = Len(box_crit) - 1
          /\ \A i \in 1 .. Len(box_crit) - 1 : Tail(box_crit)[i] = box_crit[i + 1]
          /\ Head(box_crit) = box_crit[1] /\ box_crit[1] \in Message
      BY <1>0, <1>2, Removed DEF DownTypes
    <2>3. box_crit[1][2] \in 0 .. 3 /\ \A i \in 1 .. Len(box_crit) : box_crit[i][2] \in Int
      <3>1. \A i \in 1 .. Len(box_crit) : box_crit[i] \in Message
        BY <1>0, ElementOfSeq DEF DownTypes
      <3> QED
        BY <2>2, <3>1 DEF Message
    <2>4. DownTypes'
      BY <1>0, <1>1, <2>1, <2>2, <2>3 DEF DownTypes
    <2>5. DownReady'
      BY <1>1, <2>1 DEF DownInv, DownReady, Waiting
    <2>6. box_wire'["crit"] = box_crit[1][2] /\ \A s \in DownStreams : box_wire'[s] = box_wire[s]
      BY <1>0, <2>1, <2>2 DEF DownTypes, DownStreams
    <2>7. DownOrder'
      <3>1. \A i \in 1 .. Len(box_crit') : box_crit'[i] = box_crit[i + 1] /\ i + 1 \in 1 .. Len(box_crit)
        BY <2>1, <2>2
      <3>2. 1 \in 1 .. Len(box_crit) /\ box_sent' = box_sent
        BY <1>1, <2>2
      <3>3. \A i \in 1 .. Len(box_crit') : box_crit[1][2] <= box_crit[i + 1][2] /\ box_crit[i + 1][2] <= box_sent
        BY <3>1, <3>2 DEF DownInv, DownOrder
      <3>4. \A i, j \in 1 .. Len(box_crit') : i < j => box_crit[i + 1][2] <= box_crit[j + 1][2]
        BY <2>1, <2>2, <3>1 DEF DownInv, DownOrder
      <3> QED
        BY <2>6, <3>1, <3>2, <3>3, <3>4 DEF DownInv, DownOrder
    <2>8. DownBalance'
      BY <1>0, <1>1, <2>1, <2>2, BalanceSteps, Ones DEF DownBalance
    <2>9. box_wire'["crit"] >= box_wire["crit"]
      BY <1>0, <2>2, <2>3, <2>6 DEF DownInv, DownOrder, DownTypes
    <2> QED
      BY <2>4, <2>5, <2>6, <2>7, <2>8, <2>9 DEF DownInv
  <1>3. CASE box_crit = <<>>
    <2> DEFINE s == box_ready[1]
    <2>1. /\ box_ready # <<>> /\ box_ready' = Tail(box_ready) /\ UNCHANGED box_crit
          /\ box_tele' = [box_tele EXCEPT ![Head(box_ready)] = 0]
          /\ box_wire' = [box_wire EXCEPT ![Head(box_ready)] = box_tele[Head(box_ready)]]
      BY <1>3 DEF Down!UartTx, Down!Pop
    <2>2. /\ Tail(box_ready) \in Seq(DownStreams) /\ Len(box_ready) \in Nat \ {0}
          /\ Len(Tail(box_ready)) = Len(box_ready) - 1
          /\ Head(box_ready) = s /\ s \in DownStreams /\ s \in Elements(box_ready)
          /\ Once(box_ready) => Elements(Tail(box_ready)) = Elements(box_ready) \ {s}
          /\ Once(box_ready) => Once(Tail(box_ready))
      BY <1>0, <2>1, Removed DEF DownTypes
    <2> HIDE DEF s
    <2>3. DownTypes'
      BY <1>0, <1>1, <2>1, <2>2 DEF DownTypes
    <2>4. box_wire'["crit"] = box_wire["crit"]
      BY <1>0, <2>1, <2>2 DEF DownTypes, DownStreams
    <2>5. /\ Waiting' = Waiting \ {s}
          /\ s \in Waiting
          /\ \A t \in Waiting' : box_tele'[t] = box_newest'[t]
      BY <1>0, <1>1, <2>1, <2>2 DEF Waiting, DownInv, DownReady, DownTypes
    <2>6. Cardinality(Waiting') = Cardinality(Waiting) - 1
      <3>1. IsFiniteSet(Waiting)
        BY TheStreams, FS_Subset DEF Waiting
      <3> QED
        BY <2>5, <3>1, FS_RemoveElement
    <2>7. DownReady'
      BY <2>1, <2>2, <2>5, <2>6 DEF DownInv, DownReady
    <2>8. DownOrder'
      BY <1>1, <2>1, <2>4 DEF DownInv, DownOrder
    <2>9. DownBalance'
      BY <1>0, <1>1, <2>1, <2>2, BalanceSteps, Ones DEF DownBalance
    <2> QED
      BY <1>0, <1>3, <2>3, <2>4, <2>7, <2>8, <2>9, DownNumbers DEF DownInv
  <1> QED
    BY <1>2, <1>3

LEMMA DownNext ==
  ASSUME DownInv, [Down!Next]_mailboxVars
  PROVE  /\ DownInv'
         /\ box_wire' # box_wire =>
              /\ box_crit # <<>> => \A s \in DownStreams : box_wire'[s] = box_wire[s]
              /\ box_wire'["crit"] >= box_wire["crit"]
         /\ UNCHANGED <<box_rx, box_stored>>
  <1>1. CASE Down!Send("Status")
    BY <1>1, DownSendsCritical DEF Down!Send, Down!rxVars
  <1>2. CASE \E kind \in {"Imu", "RcRaw", "RcChannels"} : Down!Send(kind)
    BY <1>2, DownSendsSample DEF Down!Send, Down!rxVars
  <1>3. CASE Down!Count0 \/ Down!Count1
    BY <1>3, DownCounts DEF Down!Count0, Down!Count1, Down!rxVars
  <1>4. CASE Down!UartTx
    BY <1>4, DownSent DEF Down!UartTx, Down!rxVars
  <1>5. CASE UNCHANGED mailboxVars
    BY <1>5 DEF mailboxVars, DownInv, DownTypes, DownReady, DownOrder, DownBalance, Waiting
  <1>6. ~ Down!RxFrameRead
    BY DEF Down!RxFrameRead, DownInv, DownTypes
  <1> QED
    BY <1>1, <1>2, <1>3, <1>4, <1>5, <1>6 DEF Down!Next

-----------------------------------------------------------------------------
(* Up from the companion: types, and the sending half at rest. *)
UpKinds == {"Timesync", "Offboard", "Other"}
UpFrame == UpKinds \X (0 .. 6)
UpRest ==
  /\ box_crit = <<>> /\ box_ready = <<>> /\ box_tele = [s \in Up!Streams |-> 0]
  /\ box_stats = [enqueued |-> 0, drained |-> 0, dropped |-> 0, replaced |-> 0]
  /\ box_count0 = "none" /\ box_count1 = "none"
UpTypes ==
  /\ box_rx \in Seq(UpFrame) /\ Len(box_rx) \in 0 .. 3
  /\ box_heard \in 0 .. 6
  /\ box_stored \in [Up!RxKinds -> 0 .. 6]
(* Three frames have been waiting, or do now. *)
UpCrowded == box_crowded \in BOOLEAN /\ (~ box_crowded => Len(box_rx) <= 2)

(* As long as it was not crowded, older frames stand before newer ones,    *)
(* and what was stored is older than what waits.                           *)
UpOrder ==
  /\ \A i \in 1 .. Len(box_rx) : box_rx[i][2] <= box_heard
  /\ \A k \in Up!RxKinds : box_stored[k] <= box_heard
  /\ ~ box_crowded =>
       /\ \A i \in 1 .. Len(box_rx) : box_stored[box_rx[i][1]] <= box_rx[i][2]
       /\ Len(box_rx) = 2 => box_rx[1][2] <= box_rx[2][2]
  /\ box_stored["Other"] = 0

(* Critical frames by slot. *)
CriticalAt(s, i) == One(i <= Len(s) /\ s[i][1] = "Timesync")
UpCritical == box_critHeard = CriticalAt(box_rx, 1) + CriticalAt(box_rx, 2) + CriticalAt(box_rx, 3)

UpInv == UpRest /\ UpTypes /\ UpCrowded /\ UpOrder /\ UpCritical

LEMMA FewFrames ==
  ASSUME UpTypes
  PROVE  Len(box_rx) <= 3 /\ (Len(box_rx) < 3 \/ Len(box_rx) = 3)
  <1>1. Len(box_rx) \in 0 .. 3
    BY Zenon DEF UpTypes
  <1>2. \A n \in 0 .. 3 : n <= 3 /\ (n < 3 \/ n = 3)
    OBVIOUS
  <1> QED
    BY <1>1, <1>2, Zenon

LEMMA UpPriorities ==
  ASSUME UpTypes, NEW i \in 1 .. Len(box_rx)
  PROVE  /\ box_rx[i] \in UpFrame
         /\ box_rx[i][1] \in UpKinds /\ box_rx[i][2] \in 0 .. 6
         /\ box_rx[i][1] = "Timesync" => Up!Priority(i) = 224
         /\ box_rx[i][1] = "Offboard" => Up!Priority(i) = 128
         /\ box_rx[i][1] = "Other" => Up!Priority(i) = 32
         /\ Up!Priority(i) \in {32, 128, 224}
         /\ Up!Critical(box_rx[i][1]) <=> box_rx[i][1] = "Timesync"
  <1>1. box_rx[i] \in UpFrame
    BY ElementOfSeq DEF UpTypes
  <1>2. box_rx[i][1] \in UpKinds /\ box_rx[i][2] \in 0 .. 6
    BY <1>1 DEF UpFrame
  <1>3. /\ Up!RxPriority("Timesync") = 224 /\ Up!RxPriority("Offboard") = 128
        /\ Up!RxPriority("Other") = 32
    BY DEF Up!RxPriority
  <1> QED
    BY <1>1, <1>2, <1>3 DEF Up!Priority, Up!Critical, UpKinds

LEMMA HighestFirst ==
  ASSUME UpTypes, Len(box_rx) # 0
  PROVE  /\ Up!Highest \in 1 .. Len(box_rx)
         /\ \A j \in 1 .. Len(box_rx) : Up!Priority(j) <= Up!Priority(Up!Highest)
         /\ \A j \in 1 .. Up!Highest - 1 : Up!Priority(j) < Up!Priority(Up!Highest)
  <1> DEFINE n == Len(box_rx) P(i) == Up!Priority(i)
             Best(i) == /\ \A j \in 1 .. n : P(j) <= P(i)
                        /\ \A j \in 1 .. i - 1 : P(j) < P(i)
  <1>1. n \in 1 .. 3 /\ \A i \in 1 .. n : P(i) \in Nat
    BY UpPriorities DEF UpTypes
  <1> HIDE DEF P
  <1>2. \E i \in 1 .. n : Best(i)
    <2>1. CASE n = 1
      <3>1. Best(1)
        BY <1>1, <2>1
      <3> QED
        BY <1>1, <2>1, <3>1
    <2>2. CASE n = 2
      <3>1. CASE P(1) >= P(2)
        <4>1. Best(1)
          BY <1>1, <2>2, <3>1
        <4> QED
          BY <1>1, <2>2, <4>1
      <3>2. CASE P(1) < P(2)
        <4>1. Best(2)
          BY <1>1, <2>2, <3>2
        <4> QED
          BY <1>1, <2>2, <4>1
      <3> QED
        BY <1>1, <2>2, <3>1, <3>2
    <2>3. CASE n = 3
      <3>1. CASE P(1) >= P(2) /\ P(1) >= P(3)
        <4>1. Best(1)
          BY <1>1, <2>3, <3>1
        <4> QED
          BY <1>1, <2>3, <4>1
      <3>2. CASE P(1) < P(2) /\ P(2) >= P(3)
        <4>1. Best(2)
          BY <1>1, <2>3, <3>2
        <4> QED
          BY <1>1, <2>3, <4>1
      <3>3. CASE P(1) < P(3) /\ P(2) < P(3)
        <4>1. Best(3)
          BY <1>1, <2>3, <3>3
        <4> QED
          BY <1>1, <2>3, <4>1
      <3> QED
        BY <1>1, <2>3, <3>1, <3>2, <3>3
    <2> QED
      BY <1>1, <2>1, <2>2, <2>3
  <1>3. Up!Highest = CHOOSE i \in 1 .. n : Best(i)
    BY DEF Up!Highest, Up!Slots, P
  <1> HIDE DEF Best
  <1>4. Up!Highest \in 1 .. n /\ Best(Up!Highest)
    BY <1>2, <1>3
  <1> QED
    BY <1>4 DEF Best, P

LEMMA LowestFirst ==
  ASSUME UpTypes, Len(box_rx) = 3
  PROVE  /\ Up!Lowest \in 1 .. 3
         /\ \A j \in 1 .. 3 : Up!Priority(j) >= Up!Priority(Up!Lowest)
  <1> DEFINE P(i) == Up!Priority(i)
             Worst(i) == /\ \A j \in 1 .. 3 : P(j) >= P(i)
                         /\ \A j \in 1 .. i - 1 : P(j) > P(i)
  <1>1. \A i \in 1 .. 3 : P(i) \in Nat
    BY UpPriorities DEF UpTypes
  <1> HIDE DEF P
  <1>2. \E i \in 1 .. 3 : Worst(i)
    <2>1. CASE P(1) <= P(2) /\ P(1) <= P(3)
      <3>1. Worst(1)
        BY <1>1, <2>1
      <3> QED
        BY <3>1
    <2>2. CASE P(1) > P(2) /\ P(2) <= P(3)
      <3>1. Worst(2)
        BY <1>1, <2>2
      <3> QED
        BY <3>1
    <2>3. CASE P(1) > P(3) /\ P(2) > P(3)
      <3>1. Worst(3)
        BY <1>1, <2>3
      <3> QED
        BY <3>1
    <2> QED
      BY <1>1, <2>1, <2>2, <2>3
  <1>3. Up!Lowest = CHOOSE i \in 1 .. 3 : Worst(i)
    BY DEF Up!Lowest, Up!Slots, P
  <1> HIDE DEF Worst
  <1>4. Up!Lowest \in 1 .. 3 /\ Worst(Up!Lowest)
    BY <1>2, <1>3
  <1> QED
    BY <1>4 DEF Worst, P

LEMMA CountOfThree ==
  ASSUME NEW S \in SUBSET (1 .. 3)
  PROVE  Cardinality(S) = One(1 \in S) + One(2 \in S) + One(3 \in S)
  <1>1. IsFiniteSet({}) /\ Cardinality({}) = 0
    BY FS_EmptySet
  <1> DEFINE A == IF 1 \in S THEN {} \cup {1} ELSE {}
             B == IF 2 \in S THEN A \cup {2} ELSE A
             C == IF 3 \in S THEN B \cup {3} ELSE B
  <1>2. IsFiniteSet(A) /\ Cardinality(A) = One(1 \in S) /\ 2 \notin A /\ 3 \notin A
    BY <1>1, FS_AddElement DEF One
  <1>3. IsFiniteSet(B) /\ Cardinality(B) = One(1 \in S) + One(2 \in S) /\ 3 \notin B
    <2> HIDE DEF A
    <2>1. CASE 2 \in S
      BY <1>2, <2>1, FS_AddElement DEF One
    <2>2. CASE 2 \notin S
      BY <1>2, <2>2 DEF One
    <2> QED
      BY <2>1, <2>2
  <1>4. Cardinality(C) = One(1 \in S) + One(2 \in S) + One(3 \in S)
    <2> HIDE DEF A, B
    <2>1. CASE 3 \in S
      BY <1>3, <2>1, FS_AddElement DEF One
    <2>2. CASE 3 \notin S
      BY <1>3, <2>2 DEF One
    <2> QED
      BY <2>1, <2>2
  <1>5. C = S
    <2>1. 1 .. 3 = {1, 2, 3}
      OBVIOUS
    <2>2. \A x : x \in C <=> x \in S
      BY <2>1, Zenon
    <2> QED
      BY <2>2
  <1> QED
    BY <1>4, <1>5

LEMMA UpImplies ==
  ASSUME UpInv
  PROVE  Up!TypeOK /\ Up!CriticalFramesKept
  <1> DEFINE S == {i \in Up!Slots : Up!Critical(box_rx[i][1])}
  <1>1. S \subseteq 1 .. 3 /\ \A i \in 1 .. 3 : i \in S <=> i <= Len(box_rx) /\ box_rx[i][1] = "Timesync"
    BY UpPriorities DEF UpInv, UpTypes, Up!Slots
  <1> HIDE DEF S
  <1>2. Cardinality(S) = CriticalAt(box_rx, 1) + CriticalAt(box_rx, 2) + CriticalAt(box_rx, 3)
    BY <1>1, CountOfThree DEF CriticalAt
  <1>3. Up!Cardinality(S) = Cardinality(S)
    BY DEF Up!Cardinality, Cardinality
  <1>4. Up!CriticalFramesKept
    BY <1>2, <1>3 DEF UpInv, UpCritical, Up!CriticalFramesKept, S
  <1>5. Up!TypeOK
    <2>1. box_critHeard \in 0 .. 3
      BY DEF UpInv, UpCritical, CriticalAt, One
    <2>2. Up!Cardinality(Up!Streams) \in Nat
      <3>1. Up!Streams = DownStreams
        BY DEF Up!Streams, Up!Samples, Up!Slow, Up!Stream, DownStreams
      <3>2. Up!Cardinality(Up!Streams) = Cardinality(DownStreams)
        BY <3>1 DEF Up!Cardinality, Cardinality
      <3> QED
        BY <3>2, TheStreams, FS_CardinalityType
    <2>3. box_stats \in [{"enqueued", "drained", "dropped", "replaced"} -> 0 .. 1]
      BY DEF UpInv, UpRest
    <2>4. Len(box_crit) = 0 /\ Len(box_ready) = 0 /\ Len(box_rx) <= 3
      <3>1. Len(<<>>) = 0
        OBVIOUS
      <3> QED
        <4>1. UpRest /\ UpTypes
          BY DEF UpInv
        <4>2. Len(box_rx) <= 3
          BY <4>1, FewFrames
        <4> QED
          BY <3>1, <4>1, <4>2 DEF UpRest
    <2>5. DOMAIN box_tele = Up!Streams /\ \A s \in Up!Streams : box_tele[s] \in 0 .. 0
      BY DEF UpInv, UpRest
    <2> QED
      BY <2>1, <2>2, <2>3, <2>4, <2>5 DEF Up!TypeOK
  <1> QED
    BY <1>4, <1>5

LEMMA UpInit == Up!Init => UpInv
  <1> SUFFICES ASSUME Up!Init PROVE UpInv
    OBVIOUS
  <1>1. UpRest
    BY DEF Up!Init, UpRest
  <1>2. Len(box_rx) = 0 /\ box_rx = <<>> /\ "Other" \in Up!RxKinds
    BY EmptySeq DEF Up!Init, Up!RxKinds
  <1>3. UpTypes
    <2>1. <<>> \in Seq(UpFrame)
      OBVIOUS
    <2> QED
      BY <1>2, <2>1 DEF Up!Init, UpTypes
  <1>4. UpOrder
    BY <1>2 DEF Up!Init, UpOrder
  <1>5. UpCritical
    BY <1>2 DEF Up!Init, UpCritical, CriticalAt, One
  <1>6. UpCrowded
    <2>1. Len(box_rx) <= 2
      BY <1>2
    <2>2. box_crowded \in BOOLEAN
      BY DEF Up!Init
    <2> QED
      BY <2>1, <2>2, Zenon DEF UpCrowded
  <1> QED
    BY <1>1, <1>3, <1>4, <1>5, <1>6 DEF UpInv

(* A frame arrives where there is room. *)
LEMMA UpAppends ==
  ASSUME UpInv, NEW kind \in UpKinds, Up!UartRx(kind), Len(box_rx) < 3
  PROVE  UpInv'
  <1> DEFINE n == Len(box_rx) new == Up!ThisHeard
  <1>1. UpTypes /\ new \in 1 .. 6 /\ new >= box_heard /\ n \in 0 .. 2
    <2>1. UpTypes
      BY DEF UpInv
    <2>2. box_heard \in 0 .. 6 /\ n \in 0 .. 2
      BY <2>1 DEF UpTypes
    <2> QED
      BY <2>1, <2>2 DEF Up!ThisHeard, Up!Least
  <1>2. /\ box_rx' = Append(box_rx, <<kind, new>>) /\ box_heard' = new
        /\ box_crowded' = (box_crowded \/ Len(box_rx') > 2)
        /\ box_critHeard' = IF Up!Critical(kind) /\ box_rx' # box_rx THEN box_critHeard + 1 ELSE box_critHeard
        /\ UNCHANGED <<box_stored, box_crit, box_ready, box_tele, box_stats, box_count0, box_count1>>
    <2>1. /\ Up!PushRx(kind) /\ box_heard' = new
          /\ box_crowded' = (box_crowded \/ Len(box_rx') > 2)
          /\ box_critHeard' = IF Up!Critical(kind) /\ box_rx' # box_rx THEN box_critHeard + 1 ELSE box_critHeard
          /\ UNCHANGED <<box_stored, box_crit, box_ready, box_tele, box_stats, box_count0, box_count1>>
      BY DEF Up!UartRx, Up!downVars
    <2>2. box_rx' = Append(box_rx, <<kind, new>>)
      BY <1>1, <2>1 DEF Up!PushRx
    <2> QED
      BY <2>1, <2>2
  <1> HIDE DEF new
  <1>3. <<kind, new>> \in UpFrame
    BY <1>1 DEF UpFrame
  <1>4. /\ box_rx' \in Seq(UpFrame) /\ Len(box_rx') = n + 1
        /\ \A i \in 1 .. n : box_rx'[i] = box_rx[i]
        /\ box_rx'[n + 1] = <<kind, new>>
    BY <1>1, <1>2, <1>3, Appended DEF UpTypes
  <1>5. box_rx' # box_rx
    BY <1>1, <1>4
  <1>6. UpRest'
    BY <1>2 DEF UpInv, UpRest
  <1>7. UpTypes'
    BY <1>1, <1>2, <1>4 DEF UpTypes
  <1>8. /\ 1 .. Len(box_rx') = 1 .. n \cup {n + 1}
        /\ \A i \in 1 .. n : box_rx[i][1] \in Up!RxKinds /\ box_rx[i][2] \in 0 .. 6
        /\ \A k \in Up!RxKinds : box_stored[k] \in 0 .. 6
        /\ kind \in Up!RxKinds
    BY <1>1, <1>4, UpPriorities DEF UpTypes, UpKinds, Up!RxKinds
  <1>11. UpCrowded' /\ (~ box_crowded' => ~ box_crowded /\ Len(box_rx') <= 2)
    <2> DEFINE long == Len(box_rx') > 2
    <2>1. ~ long => Len(box_rx') <= 2
      BY <1>1, <1>4
    <2>2. box_crowded' = (box_crowded \/ long)
      BY <1>2
    <2> HIDE DEF long
    <2>3. box_crowded' \in BOOLEAN /\ (~ box_crowded' => ~ box_crowded /\ ~ long)
      BY <2>2, Zenon DEF UpInv, UpCrowded
    <2> QED
      BY <2>1, <2>3, Zenon DEF UpCrowded
  <1>9. UpOrder'
    <2>1. \A i \in 1 .. n : box_rx'[i][2] <= new
      BY <1>1, <1>4, <1>8 DEF UpInv, UpOrder, UpTypes
    <2>2. \A k \in Up!RxKinds : box_stored[k] <= new
      BY <1>1, <1>8 DEF UpInv, UpOrder, UpTypes
    <2>3. ~ box_crowded' => ~ box_crowded /\ n <= 1
      BY <1>1, <1>4, <1>11
    <2>4. ~ box_crowded' => \A i \in 1 .. n : box_stored[box_rx'[i][1]] <= box_rx'[i][2]
      BY <1>4, <2>3 DEF UpInv, UpOrder
    <2>5. box_stored[box_rx'[n + 1][1]] <= box_rx'[n + 1][2] /\ box_rx'[n + 1][2] <= new
      BY <1>1, <1>4, <1>8, <2>2
    <2>6. ~ box_crowded' /\ Len(box_rx') = 2 => box_rx'[1][2] <= box_rx'[2][2]
      BY <1>1, <1>4, <2>1, <2>3
    <2> QED
      BY <1>1, <1>2, <1>4, <1>8, <2>1, <2>2, <2>4, <2>5, <2>6 DEF UpInv, UpOrder
  <1>10. UpCritical'
    <2>1. Up!Critical(kind) <=> kind = "Timesync"
      BY DEF Up!Critical, Up!RxPriority, UpKinds
    <2>2. \A i \in 1 .. n : CriticalAt(box_rx', i) = CriticalAt(box_rx, i)
      BY <1>1, <1>4 DEF CriticalAt
    <2>3. \A i \in n + 1 .. 3 : CriticalAt(box_rx, i) = 0
      BY <1>1 DEF CriticalAt, One
    <2>4. CriticalAt(box_rx', n + 1) = One(kind = "Timesync")
      BY <1>1, <1>4 DEF CriticalAt
    <2>5. \A i \in n + 2 .. 3 : CriticalAt(box_rx', i) = 0
      BY <1>1, <1>4 DEF CriticalAt, One
    <2>6. \A i \in 1 .. 3 : CriticalAt(box_rx, i) \in 0 .. 1
      BY DEF CriticalAt, One
    <2>7. box_critHeard' = box_critHeard + One(kind = "Timesync")
      BY <1>2, <1>5, <2>1, <2>6 DEF One, UpInv, UpCritical
    <2>8. CriticalAt(box_rx', 1) + CriticalAt(box_rx', 2) + CriticalAt(box_rx', 3)
             = CriticalAt(box_rx, 1) + CriticalAt(box_rx, 2) + CriticalAt(box_rx, 3) + One(kind = "Timesync")
      <3>1. CASE n = 0
        BY <2>2, <2>3, <2>4, <2>5, <2>6, <3>1 DEF One
      <3>2. CASE n = 1
        BY <2>2, <2>3, <2>4, <2>5, <2>6, <3>2 DEF One
      <3>3. CASE n = 2
        BY <2>2, <2>3, <2>4, <2>5, <2>6, <3>3 DEF One
      <3> QED
        BY <1>1, <3>1, <3>2, <3>3
    <2> QED
      BY <2>7, <2>8 DEF UpInv, UpCritical
  <1> QED
    BY <1>6, <1>7, <1>9, <1>10, <1>11 DEF UpInv

(* It takes the slot of the lowest one, or is dropped. *)
LEMMA UpReplaces ==
  ASSUME UpInv, NEW kind \in UpKinds, Up!UartRx(kind), Len(box_rx) = 3
  PROVE  UpInv'
  <1> DEFINE low == Up!Lowest new == Up!ThisHeard
  <1>1. UpTypes /\ new \in 1 .. 6 /\ new >= box_heard /\ box_crowded
    <2>1. UpTypes /\ new \in 1 .. 6 /\ new >= box_heard
      BY DEF UpInv, UpTypes, Up!ThisHeard, Up!Least
    <2>2. ~ (Len(box_rx) <= 2)
      OBVIOUS
    <2> QED
      BY <2>1, <2>2, Zenon DEF UpInv, UpCrowded
  <1>2. low \in 1 .. 3
    BY <1>1, LowestFirst
  <1>3. /\ \/ Up!Outranks(kind) /\ box_rx' = [box_rx EXCEPT ![low] = <<kind, new>>]
           \/ ~ Up!Outranks(kind) /\ box_rx' = box_rx
        /\ box_heard' = new
        /\ box_crowded' = TRUE
        /\ box_critHeard' = IF Up!Critical(kind) /\ box_rx' # box_rx THEN box_critHeard + 1 ELSE box_critHeard
        /\ UNCHANGED <<box_stored, box_crit, box_ready, box_tele, box_stats, box_count0, box_count1>>
    <2>1. /\ Up!PushRx(kind) /\ box_heard' = new
          /\ box_crowded' = (box_crowded \/ Len(box_rx') > 2)
          /\ box_critHeard' = IF Up!Critical(kind) /\ box_rx' # box_rx THEN box_critHeard + 1 ELSE box_critHeard
          /\ UNCHANGED <<box_stored, box_crit, box_ready, box_tele, box_stats, box_count0, box_count1>>
      BY DEF Up!UartRx, Up!downVars
    <2>2. \/ Up!Outranks(kind) /\ box_rx' = [box_rx EXCEPT ![low] = <<kind, new>>]
          \/ ~ Up!Outranks(kind) /\ box_rx' = box_rx
      BY <1>1, <2>1 DEF Up!PushRx
    <2>3. box_crowded' = TRUE
      BY <1>1, <2>1, Zenon
    <2> QED
      BY <2>1, <2>2, <2>3
  <1> HIDE DEF new, low
  <1>4. UpRest'
    BY <1>3 DEF UpInv, UpRest
  <1>5. /\ \A i \in 1 .. 3 : box_rx[i] \in UpFrame /\ box_rx[i][2] \in 0 .. 6
        /\ \A k \in Up!RxKinds : box_stored[k] \in 0 .. 6
        /\ <<kind, new>> \in UpFrame
    BY <1>1, UpPriorities DEF UpTypes, UpFrame
  <1>6. /\ box_rx' \in Seq(UpFrame) /\ Len(box_rx') = 3
        /\ Up!Outranks(kind) =>
             /\ box_rx'[low] = <<kind, new>>
             /\ \A i \in 1 .. 3 : i # low => box_rx'[i] = box_rx[i]
    <2>1. CASE ~ Up!Outranks(kind) /\ box_rx' = box_rx
      BY <1>1, <2>1 DEF UpTypes
    <2>2. CASE box_rx' = [box_rx EXCEPT ![low] = <<kind, new>>]
      <3>1. box_rx \in Seq(UpFrame) /\ DOMAIN box_rx = 1 .. 3 /\ low \in 1 .. Len(box_rx)
        BY <1>1, <1>2, LenProperties DEF UpTypes
      <3>2. box_rx' \in Seq(UpFrame) /\ Len(box_rx') = 3
        BY <1>5, <2>2, <3>1, ExceptSeq
      <3>3. box_rx'[low] = <<kind, new>> /\ \A i \in 1 .. 3 : i # low => box_rx'[i] = box_rx[i]
        BY <1>2, <2>2, <3>1
      <3> QED
        BY <3>2, <3>3
    <2> QED
      BY <1>3, <2>1, <2>2
  <1>7. UpTypes'
    BY <1>1, <1>3, <1>6 DEF UpTypes
  <1>8. UpOrder'
    <2>1. \A i \in 1 .. 3 : box_rx'[i][2] <= new
      <3>1. \A i \in 1 .. 3 : box_rx[i][2] <= new
        BY <1>1, <1>5 DEF UpInv, UpOrder, UpTypes
      <3> QED
        BY <1>1, <1>3, <1>6, <3>1
    <2>2. \A k \in Up!RxKinds : box_stored[k] <= new
      BY <1>1, <1>5 DEF UpInv, UpOrder, UpTypes
    <2> QED
      BY <1>3, <1>6, <2>1, <2>2 DEF UpInv, UpOrder
  <1>9. UpCritical'
    <2>1. /\ Up!Critical(kind) <=> kind = "Timesync"
          /\ Up!RxPriority("Timesync") = 224 /\ Up!RxPriority("Offboard") = 128 /\ Up!RxPriority("Other") = 32
      BY DEF Up!Critical, Up!RxPriority, UpKinds
    <2>2. \A i \in 1 .. 3 : CriticalAt(box_rx, i) \in 0 .. 1
      BY DEF CriticalAt, One
    <2>3. CASE box_rx' = box_rx
      BY <1>3, <2>3 DEF UpInv, UpCritical, CriticalAt
    <2>4. CASE Up!Outranks(kind) /\ box_rx' # box_rx
      <3>1. box_rx[low][1] # "Timesync"
        <4>1. Up!RxPriority(kind) > Up!Priority(low)
          BY <2>4 DEF Up!Outranks, low
        <4>2. Up!RxPriority(kind) <= 224 /\ Up!RxPriority(kind) \in Nat
          BY <2>1 DEF UpKinds
        <4> QED
          BY <1>1, <1>2, <4>1, <4>2, UpPriorities
      <3>2. box_critHeard' = box_critHeard + One(kind = "Timesync")
        BY <1>3, <2>1, <2>2, <2>4 DEF One, UpInv, UpCritical
      <3>3. CriticalAt(box_rx, low) = 0 /\ CriticalAt(box_rx', low) = One(kind = "Timesync")
        BY <1>1, <1>2, <1>6, <2>4, <3>1 DEF CriticalAt, One
      <3>4. \A i \in 1 .. 3 : i # low => CriticalAt(box_rx', i) = CriticalAt(box_rx, i)
        BY <1>6, <2>4 DEF CriticalAt
      <3>5. CriticalAt(box_rx', 1) + CriticalAt(box_rx', 2) + CriticalAt(box_rx', 3)
              = CriticalAt(box_rx, 1) + CriticalAt(box_rx, 2) + CriticalAt(box_rx, 3) + One(kind = "Timesync")
        <4>1. CASE low = 1
          BY <2>2, <3>3, <3>4, <4>1 DEF One
        <4>2. CASE low = 2
          BY <2>2, <3>3, <3>4, <4>2 DEF One
        <4>3. CASE low = 3
          BY <2>2, <3>3, <3>4, <4>3 DEF One
        <4> QED
          BY <1>2, <4>1, <4>2, <4>3
      <3> QED
        BY <3>2, <3>5 DEF UpInv, UpCritical
    <2> QED
      BY <1>3, <2>3, <2>4
  <1>10. UpCrowded'
    BY <1>3, Zenon DEF UpCrowded
  <1> QED
    BY <1>4, <1>7, <1>8, <1>9, <1>10 DEF UpInv

(* The highest frame is taken, and the last one fills its slot. *)
LEMMA UpTaken ==
  ASSUME UpInv, Up!RxFrameRead
  PROVE  /\ UpInv'
         /\ ~ box_crowded => \A k \in Up!RxKinds : box_stored'[k] >= box_stored[k]
  <1> DEFINE n == Len(box_rx) h == Up!Highest k == box_rx[h][1]
  <1>1. UpTypes /\ box_rx # <<>>
    BY DEF UpInv, Up!RxFrameRead
  <1>2. n \in 1 .. 3 /\ n \in Nat
    BY <1>1, EmptySeq DEF UpTypes
  <1>3. /\ h \in 1 .. n
        /\ \A j \in 1 .. n : Up!Priority(j) <= Up!Priority(h)
        /\ \A j \in 1 .. h - 1 : Up!Priority(j) < Up!Priority(h)
    BY <1>1, <1>2, HighestFirst
  <1>4. /\ box_stored' = IF k = "Other" THEN box_stored ELSE [box_stored EXCEPT ![k] = box_rx[h][2]]
        /\ box_critHeard' = IF Up!Critical(k) THEN box_critHeard - 1 ELSE box_critHeard
        /\ box_rx' = Up!RemovedAt(h)
        /\ box_crowded' = (box_crowded /\ box_rx' # <<>>)
        /\ UNCHANGED <<box_heard, box_crit, box_ready, box_tele, box_stats, box_count0, box_count1>>
    BY DEF Up!RxFrameRead, Up!downVars
  <1>5. /\ k \in UpKinds /\ k \in Up!RxKinds /\ box_rx[h][2] \in 0 .. 6
        /\ \A i \in 1 .. n : /\ box_rx[i] \in UpFrame /\ box_rx[i][1] \in UpKinds
                             /\ box_rx[i][2] \in 0 .. 6 /\ box_rx[i][1] \in Up!RxKinds
        /\ \A i \in Up!RxKinds : box_stored[i] \in 0 .. 6
        /\ Up!Critical(k) <=> k = "Timesync"
    BY <1>1, <1>3, UpPriorities DEF UpTypes, UpKinds, Up!RxKinds
  <1>6. /\ box_rx' \in Seq(UpFrame) /\ Len(box_rx') = n - 1
        /\ \A i \in 1 .. n - 1 : box_rx'[i] = IF i = h THEN box_rx[n] ELSE box_rx[i]
    <2> DEFINE moved == [box_rx EXCEPT ![h] = box_rx[n]]
    <2>1. box_rx \in Seq(UpFrame) /\ DOMAIN box_rx = 1 .. n
      BY <1>1, LenProperties DEF UpTypes
    <2>2. moved \in Seq(UpFrame) /\ Len(moved) = n /\ DOMAIN moved = 1 .. n
      BY <1>2, <1>3, <1>5, <2>1, ExceptSeq
    <2>3. \A i \in 1 .. n : moved[i] = IF i = h THEN box_rx[n] ELSE box_rx[i]
      BY <2>1
    <2>4. box_rx' = SubSeq(moved, 1, n - 1)
      BY <1>4, <2>2 DEF Up!RemovedAt, Up!Front, Up!Last
    <2> HIDE DEF moved
    <2>5. n - 1 \in 0 .. n /\ 1 \in 1 .. n
      BY <1>2
    <2>6. SubSeq(moved, 1, n - 1) \in Seq(UpFrame) /\ Len(SubSeq(moved, 1, n - 1)) = n - 1
          /\ \A i \in 1 .. n - 1 : SubSeq(moved, 1, n - 1)[i] = moved[i]
      BY <1>2, <2>2, <2>5, SubSeqProperties
    <2> QED
      BY <2>3, <2>4, <2>6
  <1> HIDE DEF n, h, k
  <1>7. UpRest'
    BY <1>4 DEF UpInv, UpRest
  <1>8. UpTypes'
    <2>1. box_stored' \in [Up!RxKinds -> 0 .. 6]
      BY <1>1, <1>4, <1>5 DEF UpTypes
    <2>2. box_heard' \in 0 .. 6
      BY <1>1, <1>4 DEF UpTypes
    <2>3. Len(box_rx') \in 0 .. 3
      BY <1>2, <1>6
    <2> QED
      BY <1>6, <2>1, <2>2, <2>3, Zenon DEF UpTypes
  <1>9. UpCrowded' /\ (box_crowded' => box_crowded)
        /\ (box_crowded /\ ~ box_crowded' => Len(box_rx') = 0)
    <2>1. box_rx' = <<>> => Len(box_rx') = 0 /\ Len(box_rx') <= 2
      OBVIOUS
    <2>2. Len(box_rx) <= 2 => Len(box_rx') <= 2
      BY <1>2, <1>6 DEF n
    <2> DEFINE empty == box_rx' = <<>> few == Len(box_rx') <= 2 none == Len(box_rx') = 0
    <2>3. (empty => none /\ few) /\ (Len(box_rx) <= 2 => few)
      BY <2>1, <2>2
    <2>4. box_crowded' = (box_crowded /\ ~ empty)
      BY <1>4
    <2> HIDE DEF empty, none, few
    <2>5. /\ box_crowded' \in BOOLEAN /\ (~ box_crowded' => few)
          /\ (box_crowded' => box_crowded) /\ (box_crowded /\ ~ box_crowded' => none)
      BY <2>3, <2>4, Zenon DEF UpInv, UpCrowded
    <2> QED
      BY <2>5, Zenon DEF UpCrowded, few, none
  <1>10. box_rx[h][2] <= box_heard /\ \A i \in 1 .. n - 1 : box_rx'[i][2] <= box_heard
    BY <1>2, <1>3, <1>6 DEF UpInv, UpOrder, n
  <1>11. \A i \in Up!RxKinds : box_stored'[i] = IF i = k /\ k # "Other" THEN box_rx[h][2] ELSE box_stored[i]
    BY <1>1, <1>4, <1>5 DEF UpTypes
  <1>12. \A i \in Up!RxKinds : box_stored'[i] <= box_heard
    BY <1>10, <1>11 DEF UpInv, UpOrder
  <1>13. ASSUME box_crowded PROVE UpOrder'
    <2>1. ~ box_crowded' => Len(box_rx') = 0
      BY <1>9, <1>13
    <2> QED
      BY <1>4, <1>6, <1>10, <1>11, <1>12, <2>1 DEF UpInv, UpOrder, Up!RxKinds
  <1>14. ASSUME ~ box_crowded
         PROVE  UpOrder' /\ \A i \in Up!RxKinds : box_stored'[i] >= box_stored[i]
    <2>1. n \in 1 .. 2
      <3>1. Len(box_rx) <= 2
        BY <1>14, Zenon DEF UpInv, UpCrowded
      <3> QED
        BY <1>2, <3>1 DEF n
    <2>2. \A i \in 1 .. n : box_stored[box_rx[i][1]] <= box_rx[i][2]
      BY <1>14 DEF UpInv, UpOrder, n
    <2>3. \A i \in Up!RxKinds : box_stored'[i] >= box_stored[i]
      BY <1>3, <1>5, <1>11, <2>2 DEF k
    <2>4. n = 2 => box_rx[1][2] <= box_rx[2][2]
      BY <1>14 DEF UpInv, UpOrder, n
    <2>5. n = 2 /\ box_rx[1][1] = box_rx[2][1] => h = 1
      <3>1. box_rx[1][1] = box_rx[2][1] => Up!Priority(1) = Up!Priority(2)
        BY DEF Up!Priority
      <3>2. n = 2 => Up!Priority(1) \in {32, 128, 224}
        BY <1>1, UpPriorities DEF n
      <3> QED
        BY <1>3, <3>1, <3>2
    <2>6. \A i \in 1 .. n - 1 : box_stored'[box_rx'[i][1]] <= box_rx'[i][2]
      <3>1. CASE n = 1
        BY <3>1
      <3>2. CASE n = 2 /\ h = 1
        BY <1>5, <1>6, <1>11, <2>2, <2>4, <3>2 DEF k
      <3>3. CASE n = 2 /\ h = 2
        BY <1>5, <1>6, <1>11, <2>2, <2>5, <3>3 DEF k
      <3> QED
        BY <1>3, <2>1, <3>1, <3>2, <3>3
    <2>7. UpOrder'
      <3>1. Len(box_rx') # 2 /\ 1 .. Len(box_rx') = 1 .. n - 1
        BY <1>6, <2>1
      <3>2. box_stored'["Other"] = 0
        BY <1>11 DEF UpInv, UpOrder, Up!RxKinds
      <3> QED
        BY <1>4, <1>10, <1>12, <2>6, <3>1, <3>2 DEF UpOrder
    <2> QED
      BY <2>3, <2>7
  <1>15. UpCritical'
    <2> DEFINE c(i) == CriticalAt(box_rx, i) d(i) == CriticalAt(box_rx', i)
    <2>1. \A i \in 1 .. 3 : c(i) \in 0 .. 1
      BY DEF CriticalAt, One
    <2>2. c(h) = One(k = "Timesync")
      BY <1>2, <1>3 DEF CriticalAt, n, k
    <2>3. \A i \in 1 .. n - 1 : d(i) = IF i = h THEN c(n) ELSE c(i)
      BY <1>2, <1>6 DEF CriticalAt, n
    <2>4. \A i \in n .. 3 : d(i) = 0
      BY <1>2, <1>6 DEF CriticalAt, One
    <2>5. \A i \in n + 1 .. 3 : c(i) = 0
      BY <1>2 DEF CriticalAt, One, n
    <2>6. box_critHeard' = box_critHeard - One(k = "Timesync")
      BY <1>4, <1>5, <2>1 DEF One, UpInv, UpCritical
    <2> HIDE DEF c, d
    <2>7. d(1) + d(2) + d(3) = c(1) + c(2) + c(3) - c(h)
      <3>1. CASE n = 1
        BY <1>3, <2>1, <2>3, <2>4, <2>5, <3>1
      <3>2. CASE n = 2
        BY <1>3, <2>1, <2>3, <2>4, <2>5, <3>2
      <3>3. CASE n = 3
        BY <1>3, <2>1, <2>3, <2>4, <2>5, <3>3
      <3> QED
        BY <1>2, <3>1, <3>2, <3>3
    <2>8. /\ c(1) \in 0 .. 1 /\ c(2) \in 0 .. 1 /\ c(3) \in 0 .. 1
          /\ box_critHeard = c(1) + c(2) + c(3)
      BY <2>1 DEF UpInv, UpCritical, c
    <2>9. box_critHeard' = d(1) + d(2) + d(3)
      BY <2>2, <2>6, <2>7, <2>8 DEF One
    <2> QED
      BY <2>9 DEF UpCritical, d
  <1>16. ~ box_crowded => \A i \in Up!RxKinds : box_stored'[i] >= box_stored[i]
    BY <1>14
  <1> QED
    BY <1>7, <1>8, <1>9, <1>13, <1>14, <1>15 DEF UpInv

LEMMA UpNext ==
  ASSUME UpInv, [Up!Next]_mailboxVars
  PROVE  /\ UpInv'
         /\ ~ box_crowded => \A k \in Up!RxKinds : box_stored'[k] >= box_stored[k]
         /\ UNCHANGED box_wire
  <1>0. \A k \in Up!RxKinds : box_stored[k] \in 0 .. 6
    BY DEF UpInv, UpTypes
  <1>1. CASE \E kind \in UpKinds : Up!UartRx(kind)
    <2>1. PICK kind \in UpKinds : Up!UartRx(kind)
      BY <1>1
    <2>2. Len(box_rx) < 3 \/ Len(box_rx) = 3
      BY FewFrames DEF UpInv
    <2>3. UpInv'
      BY <2>1, <2>2, UpAppends, UpReplaces
    <2>4. UNCHANGED <<box_wire, box_stored>>
      BY <2>1 DEF Up!UartRx, Up!downVars
    <2> QED
      BY <1>0, <2>3, <2>4
  <1>2. CASE Up!RxFrameRead
    BY <1>2, UpTaken DEF Up!RxFrameRead, Up!downVars
  <1>3. CASE UNCHANGED mailboxVars
    BY <1>0, <1>3 DEF mailboxVars, UpInv, UpRest, UpTypes, UpCrowded, UpOrder, UpCritical
  <1>4. ~ Up!Count0 /\ ~ Up!Count1 /\ ~ Up!UartTx
    BY DEF Up!Count0, Up!Count1, Up!UartTx, Up!Pop, UpInv, UpRest
  <1> QED
    BY <1>1, <1>2, <1>3, <1>4 DEF Up!Next, UpKinds

-----------------------------------------------------------------------------
(* The MAVLink receiver.  Its buffer is the end of what was heard, byte by *)
(* byte; the bytes themselves may be anything.                             *)
EndOf(b, h) == Len(b) <= Len(h) /\ \A i \in 1 .. Len(b) : b[i] = h[Len(h) - Len(b) + i]
Bytes(S) == mav_buf \in Seq(S) /\ mav_heard \in Seq(S) /\ mav_line \in Seq(S)
States == {"start", "header", "payload", "crc2", "crc1", "stopped"}
ParseInv ==
  /\ \E S : Bytes(S)
  /\ Len(mav_buf) <= 18 /\ Len(mav_heard) <= 18
  /\ mav_st \in States
  /\ mav_st = "start" <=> mav_buf = <<>>
  /\ mav_st # "stopped" => EndOf(mav_buf, mav_heard)

LEMMA ParseImplies ==
  ASSUME ParseInv
  PROVE  Parse!TypeOK /\ Parse!BufferIsReceived
  <1>1. Parse!TypeOK
    BY DEF ParseInv, States, Parse!TypeOK, Parse!Capacity, Parse!Header
  <1>2. Parse!BufferIsReceived
    <2> SUFFICES ASSUME mav_st # "stopped"
                 PROVE  mav_buf = SubSeq(mav_heard, Len(mav_heard) - Len(mav_buf) + 1, Len(mav_heard))
      BY DEF Parse!BufferIsReceived
    <2>1. PICK S : Bytes(S)
      BY DEF ParseInv
    <2> DEFINE n == Len(mav_buf) l == Len(mav_heard) s == SubSeq(mav_heard, l - n + 1, l)
    <2>2. /\ n \in Nat /\ l \in Nat /\ n <= l
          /\ \A i \in 1 .. n : mav_buf[i] = mav_heard[l - n + i]
      BY <2>1, LenProperties DEF ParseInv, EndOf, Bytes
    <2>3. l - n + 1 \in 1 .. l + 1 /\ l \in l - n .. l
      BY <2>2
    <2>4. s \in Seq(S) /\ Len(s) = n /\ \A i \in 1 .. n : s[i] = mav_heard[l - n + i]
      BY <2>1, <2>2, <2>3, SubSeqProperties DEF Bytes
    <2> QED
      BY <2>1, <2>2, <2>4, SeqEqual DEF Bytes
  <1> QED
    BY <1>1, <1>2

LEMMA ParseInit == Parse!Init => ParseInv
  <1> SUFFICES ASSUME Parse!Init PROVE ParseInv
    OBVIOUS
  <1>1. Bytes({})
    BY DEF Parse!Init, Bytes
  <1>2. Len(<<>>) = 0
    OBVIOUS
  <1> QED
    BY <1>1, <1>2 DEF Parse!Init, ParseInv, States, EndOf

(* The first start byte inside the buffer is found if there is one. *)
LEMMA FirstStart ==
  ASSUME NEW b, Len(b) \in Nat
  PROVE  Parse!StartInside(b) = 0 \/ Parse!StartInside(b) \in 2 .. Len(b)
  <1> DEFINE I == {i \in 2 .. Len(b) : b[i] = 4}
  <1>1. CASE I = {}
    BY <1>1 DEF Parse!StartInside
  <1>2. CASE I # {}
    <2>1. PICK i \in I : \A j \in I : i <= j
      <3>1. I \subseteq Nat
        OBVIOUS
      <3>2. PICK i \in I : \A j \in I : <<j, i>> \notin OpToRel(<, Nat)
        BY <1>2, <3>1, NatLessThanWellFounded, WFMin
      <3>3. \A j \in I : ~ (j < i)
        BY <3>1, <3>2 DEF OpToRel
      <3> QED
        BY <3>1, <3>3
    <2>2. b[i] = 4 /\ i \in 2 .. Len(b) /\ \A j \in 2 .. i - 1 : b[j] # 4
      BY <2>1
    <2> QED
      BY <2>2 DEF Parse!StartInside
  <1> QED
    BY <1>1, <1>2

(* What is heard goes on, and so does the end of it that was buffered. *)
LEMMA HeardGoesOn ==
  ASSUME NEW S, NEW h \in Seq(S), NEW c \in S, Len(h) <= 18, NEW g,
         g = SubSeq(Append(h, c), IF Len(h) < 18 THEN 1 ELSE 2, Len(h) + 1)
  PROVE  /\ g \in Seq(S) /\ Len(g) <= 18
         /\ \A b \in Seq(S) : EndOf(b, h) /\ Len(b) < 18 => EndOf(Append(b, c), g)
  <1> DEFINE a == Append(h, c) l == Len(h)
  <1>1. /\ a \in Seq(S) /\ l \in Nat /\ Len(a) = l + 1
        /\ a[l + 1] = c /\ \A i \in 1 .. l : a[i] = h[i]
    BY AppendProperties, LenProperties
  <1> DEFINE from == IF l < 18 THEN 1 ELSE 2
  <1>2. from \in 1 .. l + 2 /\ l + 1 \in from - 1 .. l + 1 /\ from \in 1 .. 2
    BY <1>1
  <1> HIDE DEF a
  <1>3. /\ g = SubSeq(a, from, l + 1)
        /\ SubSeq(a, from, l + 1) \in Seq(S) /\ Len(SubSeq(a, from, l + 1)) = l + 2 - from
        /\ \A i \in 1 .. l + 2 - from : SubSeq(a, from, l + 1)[i] = a[from + i - 1]
    <2>1. from \in Int /\ l + 1 \in Int /\ \A i \in from .. l + 1 : a[i] \in S
      <3> SUFFICES ASSUME NEW i \in from .. l + 1 PROVE a[i] \in S
        BY <1>1, <1>2
      <3>1. i \in 1 .. Len(a)
        BY <1>1, <1>2
      <3> QED
        BY <1>1, <3>1, ElementOfSeq
    <2>2. /\ SubSeq(a, from, l + 1) \in Seq(S)
          /\ Len(SubSeq(a, from, l + 1)) = IF from <= l + 1 THEN (l + 1) - from + 1 ELSE 0
          /\ \A i \in 1 .. (l + 1) - from + 1 : SubSeq(a, from, l + 1)[i] = a[from + i - 1]
      <3> HIDE DEF from, l
      <3> QED
        BY <2>1, SubSeqProperties
    <2>3. (l + 1) - from + 1 = l + 2 - from /\ (from <= l + 1 \/ l + 2 - from = 0)
      BY <1>1, <1>2
    <2>4. g = SubSeq(a, from, l + 1)
      BY DEF a
    <2> HIDE DEF from, l
    <2> QED
      BY <2>2, <2>3, <2>4
  <1>4. g \in Seq(S) /\ Len(g) <= 18 /\ Len(g) = l + 2 - from
    <2>1. l + 2 - from <= 18
      BY <1>1
    <2> HIDE DEF from, l
    <2> QED
      BY <1>3, <2>1
  <1>5. ASSUME NEW b \in Seq(S), EndOf(b, h), Len(b) < 18
        PROVE  EndOf(Append(b, c), g)
    <2> DEFINE n == Len(b) t == Append(b, c)
    <2>1. /\ n \in Nat /\ Len(t) = n + 1 /\ t[n + 1] = c /\ \A i \in 1 .. n : t[i] = b[i]
      BY AppendProperties, LenProperties
    <2>2. n <= l /\ \A i \in 1 .. n : b[i] = h[l - n + i]
      BY <1>5 DEF EndOf
    <2> HIDE DEF t, n, l, from
    <2>3. n + 1 <= Len(g)
      BY <1>1, <1>2, <1>4, <1>5, <2>1, <2>2 DEF n, from, l
    <2>4. \A i \in 1 .. n + 1 : t[i] = g[Len(g) - (n + 1) + i]
      <3> SUFFICES ASSUME NEW i \in 1 .. n + 1 PROVE t[i] = g[Len(g) - (n + 1) + i]
        OBVIOUS
      <3> DEFINE k == Len(g) - (n + 1) + i
      <3>1. k \in 1 .. l + 2 - from /\ from + k - 1 = l - n + i
        <4>1. l \in Nat /\ from \in 1 .. 2 /\ n \in Nat /\ i \in 1 .. n + 1
              /\ Len(g) = l + 2 - from /\ n + 1 <= Len(g)
          BY <1>1, <1>2, <1>4, <2>1, <2>3
        <4> QED
          BY <4>1
      <3>2. g[k] = a[l - n + i]
        BY <1>3, <3>1
      <3>3. CASE i = n + 1
        <4>1. l - n + i = l + 1
          BY <1>1, <2>1, <3>3
        <4> QED
          BY <1>1, <2>1, <3>2, <3>3, <4>1
      <3>4. CASE i \in 1 .. n
        <4>1. l - n + i \in 1 .. l
          BY <1>1, <2>1, <2>2, <3>4
        <4> QED
          BY <1>1, <2>1, <2>2, <3>2, <3>4, <4>1
      <3>5. i = n + 1 \/ i \in 1 .. n
        <4>1. n \in Nat /\ i \in 1 .. n + 1
          BY <2>1
        <4> QED
          BY <4>1
      <3> QED
        BY <3>3, <3>4, <3>5
    <2> QED
      BY <2>1, <2>3, <2>4 DEF EndOf, t
  <1> QED
    BY <1>4, <1>5

(* The end of an end. *)
LEMMA EndOfEnd ==
  ASSUME NEW S, NEW b \in Seq(S), NEW h \in Seq(S), EndOf(b, h), NEW k \in 2 .. Len(b)
  PROVE  /\ SubSeq(b, k, Len(b)) \in Seq(S) /\ SubSeq(b, k, Len(b)) # <<>>
         /\ Len(SubSeq(b, k, Len(b))) < Len(b)
         /\ EndOf(SubSeq(b, k, Len(b)), h)
  <1> DEFINE n == Len(b) t == SubSeq(b, k, n)
  <1>1. n \in Nat /\ Len(h) \in Nat /\ k \in 1 .. n + 1 /\ n \in k - 1 .. n /\ n <= Len(h)
    BY LenProperties DEF EndOf
  <1>2. t \in Seq(S) /\ Len(t) = n - k + 1 /\ \A i \in 1 .. n - k + 1 : t[i] = b[k + i - 1]
    BY <1>1, SubSeqProperties
  <1> HIDE DEF t, n
  <1>3. \A i \in 1 .. Len(t) : t[i] = h[Len(h) - Len(t) + i]
    <2> SUFFICES ASSUME NEW i \in 1 .. n - k + 1 PROVE t[i] = h[Len(h) - (n - k + 1) + i]
      BY <1>2
    <2>1. k + i - 1 \in 1 .. n /\ Len(h) - n + (k + i - 1) = Len(h) - (n - k + 1) + i
      BY <1>1
    <2>2. b[k + i - 1] = h[Len(h) - n + (k + i - 1)]
      BY <2>1 DEF EndOf, n
    <2> QED
      BY <1>2, <2>1, <2>2
  <1>4. t # <<>> /\ Len(t) < n /\ Len(t) <= Len(h)
    BY <1>1, <1>2, EmptySeq DEF n
  <1> QED
    BY <1>2, <1>3, <1>4 DEF EndOf, t, n
(* A frame is a sequence of bytes, whatever its checksum comes to. *)
LEMMA FrameIsSequence ==
  ASSUME NEW m \in MCFramesWithStart
  PROVE  \E S : Parse!Encoded(m) \in Seq(S)
  <1> DEFINE body == <<Len(m[2]), m[1]>> \o m[2]
             sums == Parse!Crc(body)
             S == Int \cup {sums[1], sums[2]}
  <1>1. m[1] \in Int /\ m[2] \in Seq(Int)
    <2>1. m \in {<<0, <<>>>>, <<1, <<4, 0>>>>, <<2, <<1>>>>}
      BY DEF MCFramesWithStart
    <2>2. <<>> \in Seq(Int) /\ <<4, 0>> \in Seq(Int) /\ <<1>> \in Seq(Int)
      OBVIOUS
    <2>3. CASE m = <<0, <<>>>>
      BY <2>2, <2>3
    <2>4. CASE m = <<1, <<4, 0>>>>
      BY <2>2, <2>4
    <2>5. CASE m = <<2, <<1>>>>
      BY <2>2, <2>5
    <2> QED
      BY <2>1, <2>3, <2>4, <2>5
  <1>2. Len(m[2]) \in Int
    BY <1>1
  <1>3. body \in Seq(Int)
    <2>1. <<Len(m[2]), m[1]>> \in Seq(Int)
      BY <1>1, <1>2
    <2> QED
      BY <1>1, <2>1, ConcatProperties
  <1>4. sums = <<sums[1], sums[2]>>
    BY DEF Parse!Crc
  <1>5. Parse!Encoded(m) = <<4>> \o body \o sums
    BY DEF Parse!Encoded
  <1> HIDE DEF body, sums
  <1>6. body \in Seq(S)
    BY <1>3, SeqMonotonic
  <1>7. <<sums[1], sums[2]>> \in Seq(S) /\ <<4>> \in Seq(S)
    OBVIOUS
  <1>8. <<4>> \o body \in Seq(S)
    BY <1>6, <1>7, ConcatProperties
  <1>9. <<4>> \o body \o sums \in Seq(S)
    BY <1>4, <1>7, <1>8, ConcatProperties
  <1> QED
    BY <1>5, <1>9

LEMMA RoomOrFull ==
  ASSUME NEW n \in Nat, n <= 18
  PROVE  (n < 18 /\ n # 18 /\ n + 1 <= 18) \/ (~ (n < 18) /\ n = 18)
  OBVIOUS

(* A byte that is fed leaves a buffer that ends what was heard. *)
LEMMA Fed ==
  ASSUME NEW S, Bytes(S), ParseInv, mav_st # "stopped", NEW c \in S,
         Parse!FeedByte(c), Parse!Heard(c)
  PROVE  /\ mav_buf' \in Seq(S) /\ mav_heard' \in Seq(S)
         /\ Len(mav_buf)' <= 18 /\ Len(mav_heard)' <= 18
         /\ mav_st' \in States /\ (mav_st' = "start" <=> mav_buf' = <<>>)
         /\ mav_st' # "stopped" => EndOf(mav_buf', mav_heard')
  <1> DEFINE b == Append(mav_buf, c)
  <1>1. /\ mav_buf \in Seq(S) /\ mav_heard \in Seq(S)
        /\ Len(mav_buf) \in Nat /\ Len(mav_heard) \in Nat
        /\ Len(mav_buf) <= 18 /\ Len(mav_heard) <= 18
        /\ mav_st \in States /\ (mav_st = "start" <=> mav_buf = <<>>)
        /\ EndOf(mav_buf, mav_heard)
    BY LenProperties DEF Bytes, ParseInv
  <1>0. \/ Len(mav_buf) < 18 /\ Len(mav_buf) # 18 /\ Len(mav_buf) + 1 <= 18
        \/ ~ (Len(mav_buf) < 18) /\ Len(mav_buf) = 18
    BY <1>1, RoomOrFull, Zenon
  <1>2. mav_heard' = SubSeq(Append(mav_heard, c), IF Len(mav_heard) < 18 THEN 1 ELSE 2, Len(mav_heard) + 1)
    BY DEF Parse!Heard, Parse!Capacity, Parse!Header
  <1>3. /\ mav_heard' \in Seq(S) /\ Len(mav_heard') <= 18 /\ Len(mav_heard') \in Nat
        /\ Len(mav_buf) < 18 => EndOf(b, mav_heard')
    <2>1. mav_heard' \in Seq(S) /\ Len(mav_heard') <= 18
      BY <1>1, <1>2, HeardGoesOn
    <2>2. Len(mav_buf) < 18 => EndOf(b, mav_heard')
      BY <1>1, <1>2, HeardGoesOn
    <2> QED
      BY <2>1, <2>2, LenProperties
  <1>4. b \in Seq(S) /\ b # <<>> /\ Len(b) = Len(mav_buf) + 1
    BY <1>1, AppendProperties
  <1>5. <<>> \in Seq(S) /\ Len(<<>>) = 0 /\ EndOf(<<>>, mav_heard')
    <2>1. <<>> \in Seq(S) /\ Len(<<>>) = 0
      BY EmptySeq
    <2> QED
      BY <1>3, <2>1 DEF EndOf
  <1>6. CASE mav_st = "start"
    <2>1. \/ mav_buf' = b /\ mav_st' = "header"
          \/ mav_buf' = <<>> /\ mav_st' = "start"
      BY <1>1, <1>6 DEF Parse!FeedByte
    <2>2. Len(mav_buf) = 0
      BY <1>1, <1>5, <1>6
    <2>3. Len(mav_buf) < 18 /\ Len(b) <= 18
      BY <1>4, <2>2
    <2> HIDE DEF b
    <2>4. CASE mav_buf' = b /\ mav_st' = "header"
      BY <1>3, <1>4, <2>3, <2>4 DEF States
    <2>5. CASE mav_buf' = <<>> /\ mav_st' = "start"
      BY <1>3, <1>5, <2>5 DEF States
    <2> QED
      BY <2>1, <2>4, <2>5
  <1>7. CASE mav_st # "start" /\ Len(mav_buf) = 18
    <2>1. mav_st' = "stopped" /\ mav_buf' = mav_buf
      BY <1>7 DEF Parse!FeedByte, Parse!Capacity, Parse!Header
    <2> QED
      BY <1>1, <1>3, <1>7, <2>1 DEF States
  <1>8. CASE mav_st \in {"header", "payload", "crc2"} /\ Len(mav_buf) < 18
    <2>0. Len(mav_buf) < 18
      BY <1>8
    <2>1. Len(mav_buf) # 18 /\ Len(b) <= 18
      BY <1>0, <1>4, <2>0, Zenon
    <2>3. Parse!AfterHeader(b) \in {"header", "payload", "crc2"}
          /\ Parse!AfterPayload(b) \in {"payload", "crc2"}
      BY DEF Parse!AfterHeader, Parse!AfterPayload
    <2>4. Parse!Capacity = 18
      BY DEF Parse!Capacity, Parse!Header
    <2>2. mav_buf' = b /\ mav_st' \in {"header", "payload", "crc2", "crc1"}
      <3>0. Parse!FeedByte(c)
        OBVIOUS
      <3>1. CASE mav_st = "header"
        BY <2>0, <2>1, <2>3, <2>4, <3>0, <3>1, Zenon DEF Parse!FeedByte
      <3>2. CASE mav_st = "payload"
        BY <2>0, <2>1, <2>3, <2>4, <3>0, <3>2, Zenon DEF Parse!FeedByte
      <3>3. CASE mav_st = "crc2"
        BY <2>0, <2>1, <2>4, <3>0, <3>3, Zenon DEF Parse!FeedByte
      <3> QED
        BY <1>8, <3>1, <3>2, <3>3, Zenon
    <2> HIDE DEF b
    <2> QED
      BY <1>3, <1>4, <2>0, <2>1, <2>2 DEF States
  <1>9. CASE mav_st = "crc1" /\ Len(mav_buf) < 18
    <2>a. Len(mav_buf) < 18
      BY <1>9
    <2>0. Len(mav_buf) # 18
      BY <1>0, <2>a, Zenon
    <2>1. IF Parse!ChecksOut(b)
          THEN mav_buf' = <<>> /\ mav_st' = "start"
          ELSE mav_buf' = Parse!Resynced(b).buf /\ mav_st' = Parse!Resynced(b).st
      BY <1>9, <2>0 DEF Parse!FeedByte, Parse!Capacity, Parse!Header
    <2> HIDE DEF b
    <2> DEFINE k == Parse!StartInside(b)
    <2>2. \/ mav_buf' = <<>> /\ mav_st' = "start"
          \/ k # 0 /\ mav_buf' = SubSeq(b, k, Len(b)) /\ mav_st' = "header"
      BY <2>1 DEF Parse!Resynced
    <2>3. CASE mav_buf' = <<>> /\ mav_st' = "start"
      BY <1>3, <1>5, <2>3 DEF States
    <2>4. CASE k # 0 /\ mav_buf' = SubSeq(b, k, Len(b)) /\ mav_st' = "header"
      <3>1. Len(b) \in Nat /\ Len(b) <= 18
        <4>1. Len(b) <= 18
          BY <1>0, <1>4, <2>a, Zenon
        <4> QED
          BY <1>4, <4>1, LenProperties
      <3>2. k \in 2 .. Len(b)
        BY <2>4, <3>1, FirstStart
      <3>3. EndOf(b, mav_heard')
        BY <1>3, <1>9
      <3> HIDE DEF k
      <3>4. /\ SubSeq(b, k, Len(b)) \in Seq(S) /\ SubSeq(b, k, Len(b)) # <<>>
            /\ Len(SubSeq(b, k, Len(b))) < Len(b)
            /\ EndOf(SubSeq(b, k, Len(b)), mav_heard')
        BY <1>3, <1>4, <3>2, <3>3, EndOfEnd
      <3>5. Len(mav_buf') \in Nat
        BY <2>4, <3>4, LenProperties
      <3> QED
        BY <1>3, <2>4, <3>1, <3>4, <3>5 DEF States
    <2> QED
      BY <2>2, <2>3, <2>4
  <1>10. Len(mav_buf) < 18 \/ Len(mav_buf) = 18
    BY <1>0, Zenon
  <1> QED
    BY <1>1, <1>6, <1>7, <1>8, <1>9, <1>10 DEF ParseInv, States

LEMMA ParseNext ==
  ASSUME ParseInv, [Parse!Next]_mavlinkVars
  PROVE  ParseInv'
  <1>1. PICK S : Bytes(S)
    BY DEF ParseInv
  <1>2. ASSUME NEW T, S \subseteq T, mav_line' \in Seq(T),
               UNCHANGED <<mav_buf, mav_st, mav_heard>>
        PROVE  ParseInv'
    <2>1. mav_buf' \in Seq(T) /\ mav_heard' \in Seq(T)
      BY <1>1, <1>2, SeqMonotonic DEF Bytes
    <2>2. Bytes(T)'
      BY <1>2, <2>1 DEF Bytes
    <2> QED
      BY <1>2, <2>2 DEF ParseInv, EndOf
  <1>3. ASSUME NEW m \in MCFramesWithStart, Parse!SendFrame(m)
        PROVE  ParseInv'
    <2>1. PICK F : Parse!Encoded(m) \in Seq(F)
      BY FrameIsSequence
    <2>2. mav_line' = Parse!Encoded(m) /\ UNCHANGED <<mav_buf, mav_st, mav_heard>>
      BY <1>3 DEF Parse!SendFrame
    <2>3. Parse!Encoded(m) \in Seq(S \cup F)
      BY <2>1, SeqMonotonic
    <2> QED
      BY <1>2, <2>2, <2>3
  <1>4. ASSUME Parse!Receive
        PROVE  ParseInv'
    <2> DEFINE T == S \cup {0, 4}
    <2>1. mav_line # <<>> /\ mav_st # "stopped" /\ mav_line' = Tail(mav_line)
      BY <1>4 DEF Parse!Receive
    <2>2. Head(mav_line) \in S /\ Tail(mav_line) \in Seq(S)
      BY <1>1, <2>1, HeadTailProperties DEF Bytes
    <2>3. PICK c \in T : Parse!FeedByte(c) /\ Parse!Heard(c)
      BY <1>4, <2>2 DEF Parse!Receive
    <2>4. Bytes(T) /\ mav_line' \in Seq(T)
      BY <1>1, <2>1, <2>2, SeqMonotonic DEF Bytes
    <2> HIDE DEF T
    <2>5. /\ mav_buf' \in Seq(T) /\ mav_heard' \in Seq(T)
          /\ Len(mav_buf)' <= 18 /\ Len(mav_heard)' <= 18
          /\ mav_st' \in States /\ (mav_st' = "start" <=> mav_buf' = <<>>)
          /\ mav_st' # "stopped" => EndOf(mav_buf', mav_heard')
      BY <2>1, <2>3, <2>4, Fed
    <2>6. Bytes(T)'
      BY <2>4, <2>5 DEF Bytes
    <2> QED
      BY <2>5, <2>6 DEF ParseInv
  <1>5. ASSUME Parse!ReceiveFrame
        PROVE  ParseInv'
    <2>1. mav_line' = <<>> /\ UNCHANGED <<mav_buf, mav_st, mav_heard>>
      BY <1>5 DEF Parse!ReceiveFrame
    <2> QED
      BY <1>2, <2>1, EmptySeq
  <1>6. ASSUME Parse!Lose
        PROVE  ParseInv'
    <2>1. mav_line # <<>> /\ mav_line' = Tail(mav_line) /\ UNCHANGED <<mav_buf, mav_st, mav_heard>>
      BY <1>6 DEF Parse!Lose
    <2>2. mav_line' \in Seq(S)
      BY <1>1, <2>1, HeadTailProperties DEF Bytes
    <2> QED
      BY <1>2, <2>1, <2>2
  <1>7. ASSUME UNCHANGED mavlinkVars
        PROVE  ParseInv'
    BY <1>1, <1>2, <1>7 DEF mavlinkVars, Bytes
  <1> QED
    BY <1>3, <1>4, <1>5, <1>6, <1>7 DEF Parse!Next

-----------------------------------------------------------------------------
(* The subjects of the suite.  Where streams are served no message is      *)
(* critical, and none is received.                                         *)
ServedInv ==
  /\ box_crit = <<>> /\ box_rx = <<>> /\ box_ready \in Seq(DownStreams)
  /\ "crit" \in DOMAIN box_wire /\ box_wire["crit"] \in Int
StoredTyped == box_stored \in [Up!RxKinds -> 0 .. 6]

LEMMA ServedNext ==
  ASSUME ServedInv, [Served!Next]_mailboxVars
  PROVE  ServedInv' /\ box_wire'["crit"] >= box_wire["crit"] /\ UNCHANGED box_stored
  <1>1. ASSUME NEW kind \in {"Imu", "Baro", "Attitude"}, Served!Send(kind)
        PROVE  ServedInv' /\ UNCHANGED <<box_wire, box_stored>>
    <2>1. Served!Replaceable(kind) /\ Served!Stream(kind) = kind /\ kind \in DownStreams
      BY <1>1 DEF Served!Replaceable, Served!Stream, Served!Samples, Served!Slow, DownStreams
    <2>2. /\ box_ready' = box_ready \/ box_ready' = Append(box_ready, kind)
          /\ UNCHANGED <<box_crit, box_wire, box_rx, box_stored>>
      BY <1>1, <2>1 DEF Served!Send, Served!ToStream, Served!rxVars
    <2>3. box_ready' \in Seq(DownStreams)
      BY <2>1, <2>2, AppendProperties DEF ServedInv
    <2> QED
      BY <2>2, <2>3 DEF ServedInv
  <1>2. ASSUME Served!UartTx
        PROVE  ServedInv' /\ box_wire'["crit"] = box_wire["crit"] /\ UNCHANGED box_stored
    <2>1. /\ box_ready # <<>> /\ box_ready' = Tail(box_ready)
          /\ box_wire' = [box_wire EXCEPT ![Head(box_ready)] = box_tele[Head(box_ready)]]
          /\ UNCHANGED <<box_crit, box_rx, box_stored>>
      BY <1>2 DEF Served!UartTx, Served!Pop, Served!rxVars, ServedInv
    <2>2. Head(box_ready) \in DownStreams /\ Tail(box_ready) \in Seq(DownStreams)
      BY <2>1, HeadTailProperties DEF ServedInv
    <2>3. Head(box_ready) # "crit"
      BY <2>2 DEF DownStreams
    <2> QED
      BY <2>1, <2>2, <2>3 DEF ServedInv
  <1>3. CASE Served!Count0 \/ Served!Count1 \/ UNCHANGED mailboxVars
    <2>1. UNCHANGED <<box_crit, box_rx, box_ready, box_wire, box_stored>>
      BY <1>3 DEF Served!Count0, Served!Count1, Served!rxVars, mailboxVars
    <2> QED
      BY <2>1 DEF ServedInv
  <1>4. ~ Served!RxFrameRead
    BY DEF Served!RxFrameRead, ServedInv
  <1>5. box_wire["crit"] >= box_wire["crit"]
    BY DEF ServedInv
  <1> QED
    BY <1>1, <1>2, <1>3, <1>4, <1>5 DEF Served!Next

(* What holds whichever subject moves. *)
SuiteInv ==
  /\ GapsInv
  /\ subject = "down" => DownInv
  /\ subject = "served" => ServedInv
  /\ subject = "up" => UpInv
  /\ subject = "parse" => ParseInv
  /\ StoredTyped

LEMMA SuiteStarts == SuiteInit => SuiteInv
  <1> SUFFICES ASSUME SuiteInit PROVE SuiteInv
    OBVIOUS
  <1>1. Down!Init => Up!Init
    BY DEF Down!Init, Up!Init, Down!Streams, Up!Streams, Down!Samples, Up!Samples, Down!Slow, Up!Slow,
           Down!Stream, Up!Stream, Down!RxKinds, Up!RxKinds
  <1>2. StoredTyped
    BY <1>1 DEF SuiteInit, Up!Init, StoredTyped
  <1>3. ServedInv
    BY EmptySeq DEF SuiteInit, Down!Init, ServedInv
  <1> QED
    BY <1>1, <1>2, <1>3, InitGaps, DownInit, UpInit, ParseInit DEF SuiteInit, SuiteInv

(* A step of the suite is one of the subject's, and the rest stands still. *)
LEMMA SuiteMoves ==
  ASSUME [SuiteNext]_suiteVars
  PROVE  /\ subject' = subject /\ [Next]_vars
         /\ subject = "down" => [Down!Next]_mailboxVars
         /\ subject = "served" => [Served!Next]_mailboxVars
         /\ subject = "up" => [Up!Next]_mailboxVars
         /\ subject \notin {"down", "served", "up"} => UNCHANGED mailboxVars
         /\ subject = "parse" => [Parse!Next]_mavlinkVars
  BY Zenon DEF SuiteNext, Still, suiteVars

LEMMA SuiteSteps ==
  ASSUME SuiteInv, [SuiteNext]_suiteVars
  PROVE  /\ SuiteInv'
         /\ box_wire' # box_wire =>
              /\ box_crit # <<>> => \A s \in DownStreams : box_wire'[s] = box_wire[s]
              /\ box_wire'["crit"] >= box_wire["crit"]
         /\ ~ box_crowded => \A k \in Up!RxKinds : box_stored'[k] >= box_stored[k]
  <1>1. subject' = subject /\ GapsInv'
    BY SuiteMoves, NextGaps DEF SuiteInv
  <1>2. subject = "parse" => ParseInv'
    BY SuiteMoves, ParseNext DEF SuiteInv
  <1>3. \A k \in Up!RxKinds : box_stored[k] \in Int
    BY DEF SuiteInv, StoredTyped
  <1>4. UNCHANGED box_stored => \A k \in Up!RxKinds : box_stored'[k] >= box_stored[k]
    BY <1>3
  <1>5. CASE subject = "down"
    BY <1>1, <1>4, <1>5, SuiteMoves, DownNext DEF SuiteInv, StoredTyped
  <1>6. CASE subject = "served"
    BY <1>1, <1>4, <1>6, SuiteMoves, ServedNext DEF SuiteInv, StoredTyped, ServedInv
  <1>7. CASE subject = "up"
    BY <1>1, <1>7, SuiteMoves, UpNext DEF SuiteInv, StoredTyped, UpInv, UpTypes
  <1>8. CASE subject \notin {"down", "served", "up"}
    BY <1>1, <1>2, <1>4, <1>8, SuiteMoves DEF SuiteInv, StoredTyped, mailboxVars
  <1> QED
    BY <1>5, <1>6, <1>7, <1>8

(* However long the MAVLink line is disturbed, the parser's buffer holds   *)
(* the bytes received last and stays within its capacity (parser.rs).      *)
THEOREM BufferWhole == SuiteSpec => []BufferIsWhole
  <1>1. SuiteInv => BufferIsWhole
    BY ParseImplies DEF SuiteInv, BufferIsWhole
  <1>2. SuiteInv /\ [SuiteNext]_suiteVars => SuiteInv'
    BY SuiteSteps
  <1> QED
    BY <1>1, <1>2, SuiteStarts, PTL DEF SuiteSpec

(* The mailbox between the cores keeps what it is given, in order, in the  *)
(* queues down and up, the numbers missing from rings of every capacity    *)
(* are counted for every number of packets, and the receiver's buffer is   *)
(* one piece of the line (comms.rs, parser.rs).                            *)
THEOREM LinkIsKept == SuiteSpec => LinkKeeps
  <1>1. SuiteInv =>
          /\ TypeOK /\ GapsCounted
          /\ subject = "down" =>
               Down!TypeOK /\ Down!ReadyIsPending /\ Down!NewestWaits /\ Down!StatsBalance
          /\ subject = "up" => Up!TypeOK /\ Up!CriticalFramesKept
    BY DownImplies, UpImplies DEF SuiteInv, GapsInv, IInv
  <1>2. SuiteInv /\ [SuiteNext]_suiteVars => SuiteInv'
    BY SuiteSteps
  <1>3. SuiteInv /\ [SuiteNext]_suiteVars =>
          [box_wire' # box_wire =>
             /\ box_crit # <<>> => \A s \in Down!Streams : box_wire'[s] = box_wire[s]
             /\ box_wire'["crit"] >= box_wire["crit"]]_Down!vars
    BY SuiteSteps, TheStreams
  <1>4. SuiteInv /\ [SuiteNext]_suiteVars =>
          [~ box_crowded => \A k \in Up!RxKinds : box_stored'[k] >= box_stored[k]]_Up!vars
    BY SuiteSteps
  <1> QED
    BY <1>1, <1>2, <1>3, <1>4, SuiteStarts, BufferWhole, PTL
    DEF SuiteSpec, LinkKeeps, Down!CriticalFirstInOrder, Up!InOrderUnlessCrowded

=============================================================================
