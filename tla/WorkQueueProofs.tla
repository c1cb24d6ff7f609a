--------------------------- MODULE WorkQueueProofs ---------------------------
(* Proofs about WorkQueue for any set of workers and datasets and any number *)
(* of crashes and pushes.                                                    *)
EXTENDS WorkQueue, SequenceTheorems, FiniteSetTheorems, TLAPS

\* What BRPOPLPUSH leaves of the main list.
LEMMA AllButLast ==
  ASSUME NEW q \in Seq(Items), q # <<>>
  PROVE  /\ Len(q) \in Nat \ {0}
         /\ q[Len(q)] \in Items
         /\ SubSeq(q, 1, Len(q) - 1) \in Seq(Items)
         /\ Len(SubSeq(q, 1, Len(q) - 1)) = Len(q) - 1
         /\ \A k \in 1..(Len(q) - 1) : SubSeq(q, 1, Len(q) - 1)[k] = q[k]
<1>1. Len(q) \in Nat \ {0}
  BY EmptySeq, LenProperties
<1>2. q[Len(q)] \in Items
  BY <1>1, ElementOfSeq
<1>3. \A k \in 1..(Len(q) - 1) : q[k] \in Items
  BY <1>1, ElementOfSeq
<1> DEFINE n == Len(q) - 1
<1>4. n \in Int /\ 1 \in Int /\ \A k \in 1..n : q[k] \in Items
  BY <1>1, <1>3
<1> HIDE DEF n
<1>5. /\ SubSeq(q, 1, n) \in Seq(Items)
      /\ Len(SubSeq(q, 1, n)) = IF 1 <= n THEN n - 1 + 1 ELSE 0
      /\ \A k \in 1..(n - 1 + 1) : SubSeq(q, 1, n)[k] = q[1 + k - 1]
  BY <1>4, SubSeqProperties
<1> DEFINE r == SubSeq(q, 1, n)
<1>6. n \in Nat
  BY <1>1 DEF n
<1>7. r \in Seq(Items) /\ Len(r) = n /\ \A k \in 1..n : r[k] = q[k]
  <2>1. /\ r \in Seq(Items)
        /\ Len(r) = IF 1 <= n THEN n - 1 + 1 ELSE 0
        /\ \A k \in 1..(n - 1 + 1) : r[k] = q[1 + k - 1]
    BY <1>5
  <2> HIDE DEF r
  <2>2. Len(r) = n
    BY <2>1, <1>6
  <2>3. \A k \in 1..n : 1 + k - 1 = k
    BY <1>6
  <2>4. n - 1 + 1 = n
    BY <1>6
  <2>5. QED
    BY <2>1, <2>2, <2>3, <2>4
<1>8. QED
  BY <1>1, <1>2, <1>7 DEF n, r

\* What RPUSH makes of it.
LEMMA PushedBatch ==
  ASSUME NEW q \in Seq(Items)
  PROVE  /\ q \o Batch \in Seq(Items)
         /\ Len(q \o Batch) = Len(q) + Len(Batch)
         /\ \A k \in 1..Len(q) : (q \o Batch)[k] = q[k]
         /\ Len(q) \in Nat
  BY ConcatProperties, WorkQueueAssumption, LenProperties

\* Every variable keeps its type, and a worker between lease() and complete()
\* has an item.
LEMMA TypeStep == TypeOK /\ [Next]_vars => TypeOK'
<1> SUFFICES ASSUME TypeOK, [Next]_vars
             PROVE  TypeOK'
  OBVIOUS
<1> USE DEF TypeOK, Stages, Holding, Goto, CheckpointName, LremAll,
            redisVars, localVars, fileVars, envVars
<1>1. ASSUME NEW w \in Workers, Start(w) PROVE TypeOK'
  BY <1>1 DEF Start
<1>2. ASSUME NEW w \in Workers, FirstLen(w) PROVE TypeOK'
  BY <1>2 DEF FirstLen
<1>3. ASSUME NEW w \in Workers, SecondLen(w) PROVE TypeOK'
  BY <1>3 DEF SecondLen
<1>4. ASSUME NEW w \in Workers, Pop(w) PROVE TypeOK'
  <2> DEFINE i == mainQ[Len(mainQ)]
  <2>1. i \in Items /\ mainQ' \in Seq(Items)
    BY <1>4, AllButLast DEF Pop
  <2>2. processing' \in [Items -> Nat]
    BY <1>4, <2>1 DEF Pop
  <2> HIDE DEF i
  <2>3. item' = [item EXCEPT ![w] = i] /\ pc' = [pc EXCEPT ![w] = "setex"]
    BY <1>4 DEF Pop, i
  <2>4. QED
    BY <1>4, <2>1, <2>2, <2>3 DEF Pop
<1>5. ASSUME NEW w \in Workers, PopTimeout(w) PROVE TypeOK'
  BY <1>5 DEF PopTimeout
<1>6. ASSUME NEW w \in Workers, SetLease(w) PROVE TypeOK'
  BY <1>6 DEF SetLease
<1>7. ASSUME NEW w \in Workers, LoadModel(w) PROVE TypeOK'
  BY <1>7 DEF LoadModel
<1>8. ASSUME NEW w \in Workers, LoadFails(w) PROVE TypeOK'
  BY <1>8 DEF LoadFails
<1>9. ASSUME NEW w \in Workers, FitAndOpen(w) PROVE TypeOK'
  BY <1>9 DEF FitAndOpen
<1>10. ASSUME NEW w \in Workers, DumpModel(w) PROVE TypeOK'
  BY <1>10 DEF DumpModel
<1>11. ASSUME NEW w \in Workers, Report(w) PROVE TypeOK'
  BY <1>11 DEF Report
<1>12. ASSUME NEW w \in Workers, Lrem(w) PROVE TypeOK'
  BY <1>12 DEF Lrem
<1>13. ASSUME NEW w \in Workers, DelLease(w) PROVE TypeOK'
  BY <1>13 DEF DelLease
<1>14. ASSUME NEW w \in Workers, Crash(w) PROVE TypeOK'
  BY <1>14, WorkQueueAssumption DEF Crash
<1>15. ASSUME NEW i \in Items, LeaseExpires(i) PROVE TypeOK'
  BY <1>15 DEF LeaseExpires
<1>16. CASE QueueJobs
  BY <1>16, PushedBatch, WorkQueueAssumption DEF QueueJobs
<1>17. CASE UNCHANGED vars
  BY <1>17 DEF vars
<1>18. QED
  BY <1>1, <1>2, <1>3, <1>4, <1>5, <1>6, <1>7, <1>8, <1>9, <1>10, <1>11,
     <1>12, <1>13, <1>14, <1>15, <1>16, <1>17
  DEF Next, WorkerStep, JobComplete

\* The variables of WorkQueue have their types in every reachable state.
THEOREM TypeCorrect == Spec => []TypeOK
<1>1. Init => TypeOK
  BY WorkQueueAssumption DEF Init, TypeOK, Stages, Holding
<1>2. QED
  BY <1>1, TypeStep, PTL DEF Spec

-----------------------------------------------------------------------------
(* Nothing is lost.                                                         *)

\* BRPOPLPUSH takes one element of the main list and leaves the others.
LEMMA PoppedMain ==
  ASSUME TypeOK, NEW w \in Workers, Pop(w)
  PROVE  LET i == mainQ[Len(mainQ)] IN
         /\ i \in Items /\ InMain(i)
         /\ processing' = [processing EXCEPT ![i] = @ + 1]
         /\ item' = [item EXCEPT ![w] = i]
         /\ \A j \in Items : InMain(j)' => InMain(j)
         /\ \A j \in Items : InMain(j) => (InMain(j)' \/ j = i)
         /\ (\A j, k \in 1..Len(mainQ) : mainQ[j] = mainQ[k] => j = k)
              => /\ \A j \in Items : j = i => ~InMain(j)'
                 /\ (\A j, k \in 1..Len(mainQ) : mainQ[j] = mainQ[k] => j = k)'
<1> DEFINE n == Len(mainQ)
<1>1. /\ mainQ \in Seq(Items) /\ mainQ # <<>>
      /\ mainQ' = SubSeq(mainQ, 1, n - 1)
      /\ processing' = [processing EXCEPT ![mainQ[n]] = @ + 1]
      /\ item' = [item EXCEPT ![w] = mainQ[n]]
  BY DEF Pop, TypeOK
<1>2. /\ n \in Nat \ {0} /\ mainQ[n] \in Items
      /\ Len(mainQ') = n - 1
      /\ \A k \in 1..(n - 1) : mainQ'[k] = mainQ[k]
  BY <1>1, AllButLast
<1> HIDE DEF n
<1>3. InMain(mainQ[n])
  BY <1>2 DEF InMain, n
<1>4. \A j \in Items : InMain(j)' => InMain(j)
  BY <1>2 DEF InMain, n
<1>5. \A j \in Items : InMain(j) => (InMain(j)' \/ j = mainQ[n])
  BY <1>2 DEF InMain, n
<1>6. (\A j, k \in 1..n : mainQ[j] = mainQ[k] => j = k)
        => /\ \A j \in Items : j = mainQ[n] => ~InMain(j)'
           /\ (\A j, k \in 1..Len(mainQ) : mainQ[j] = mainQ[k] => j = k)'
  <2> SUFFICES ASSUME \A j, k \in 1..n : mainQ[j] = mainQ[k] => j = k
               PROVE  /\ \A k \in 1..Len(mainQ') : mainQ'[k] # mainQ[n]
                      /\ \A j, k \in 1..Len(mainQ') : mainQ'[j] = mainQ'[k] => j = k
    BY <1>1 DEF InMain, n
  <2>1. ASSUME NEW k \in 1..(n - 1) PROVE mainQ'[k] # mainQ[n]
    BY <1>2, <2>1
  <2>2. \A j, k \in 1..(n - 1) : mainQ'[j] = mainQ'[k] => j = k
    BY <1>2
  <2>3. 1..Len(mainQ') = 1..(n - 1)
    BY <1>2
  <2>4. QED
    BY <2>1, <2>2, <2>3
<1>7. QED
  BY <1>1, <1>2, <1>3, <1>4, <1>5, <1>6 DEF n

\* RPUSH keeps what was in the list.
LEMMA PushedMain ==
  ASSUME TypeOK, QueueJobs
  PROVE  \A i \in Items : InMain(i) => InMain(i)'
  BY PushedBatch DEF QueueJobs, TypeOK, InMain

LossInv == NothingLost /\ ReportedBeforeLrem

\* No step makes the queue forget a dataset: the item BRPOPLPUSH takes from one list is
\* in the other, and LREM comes after the report.
LEMMA LossStep == TypeOK /\ LossInv /\ [Next]_vars => LossInv'
<1> SUFFICES ASSUME TypeOK, LossInv, [Next]_vars
             PROVE  LossInv'
  OBVIOUS
<1> USE DEF LossInv, NothingLost, ReportedBeforeLrem, TypeOK, Holding, Goto,
            redisVars, localVars, fileVars, envVars
<1>1. ASSUME NEW w \in Workers, Start(w) PROVE LossInv'
  BY <1>1 DEF Start, InMain
<1>2. ASSUME NEW w \in Workers, FirstLen(w) PROVE LossInv'
  BY <1>2 DEF FirstLen, InMain
<1>3. ASSUME NEW w \in Workers, SecondLen(w) PROVE LossInv'
  BY <1>3 DEF SecondLen, InMain
<1>4. ASSUME NEW w \in Workers, Pop(w) PROVE LossInv'
  <2> DEFINE i == mainQ[Len(mainQ)]
  <2>1. /\ i \in Items
        /\ processing' = [processing EXCEPT ![i] = @ + 1]
        /\ item' = [item EXCEPT ![w] = i]
        /\ \A j \in Items : InMain(j) => (InMain(j)' \/ j = i)
    BY <1>4, PoppedMain
  <2>2. reports' = reports /\ pc' = [pc EXCEPT ![w] = "setex"]
    BY <1>4 DEF Pop
  <2> HIDE DEF i
  <2>3. NothingLost'
    BY <2>1, <2>2
  <2>4. ReportedBeforeLrem'
    BY <2>1, <2>2
  <2>5. QED
    BY <2>3, <2>4
<1>5. ASSUME NEW w \in Workers, PopTimeout(w) PROVE LossInv'
  BY <1>5 DEF PopTimeout, InMain
<1>6. ASSUME NEW w \in Workers, SetLease(w) PROVE LossInv'
  BY <1>6 DEF SetLease, InMain
<1>7. ASSUME NEW w \in Workers, LoadModel(w) PROVE LossInv'
  BY <1>7 DEF LoadModel, InMain
<1>8. ASSUME NEW w \in Workers, LoadFails(w) PROVE LossInv'
  BY <1>8 DEF LoadFails, InMain
<1>9. ASSUME NEW w \in Workers, FitAndOpen(w) PROVE LossInv'
  BY <1>9 DEF FitAndOpen, InMain
<1>10. ASSUME NEW w \in Workers, DumpModel(w) PROVE LossInv'
  BY <1>10 DEF DumpModel, InMain
<1>11. ASSUME NEW w \in Workers, Report(w) PROVE LossInv'
  BY <1>11 DEF Report, InMain
<1>12. ASSUME NEW w \in Workers, Lrem(w) PROVE LossInv'
  BY <1>12 DEF Lrem, LremAll, InMain
<1>13. ASSUME NEW w \in Workers, DelLease(w) PROVE LossInv'
  BY <1>13 DEF DelLease, InMain
<1>14. ASSUME NEW w \in Workers, Crash(w) PROVE LossInv'
  BY <1>14 DEF Crash, InMain
<1>15. ASSUME NEW i \in Items, LeaseExpires(i) PROVE LossInv'
  BY <1>15 DEF LeaseExpires, InMain
<1>16. CASE QueueJobs
  BY <1>16, PushedMain DEF QueueJobs
<1>17. CASE UNCHANGED vars
  BY <1>17 DEF vars, InMain
<1>18. QED
  BY <1>1, <1>2, <1>3, <1>4, <1>5, <1>6, <1>7, <1>8, <1>9, <1>10, <1>11,
     <1>12, <1>13, <1>14, <1>15, <1>16, <1>17
  DEF Next, WorkerStep, JobComplete

\* However many crashes and pushes there are, a queued dataset is waiting, in
\* the processing list, or has a report.
THEOREM NothingIsLost == Spec => []NothingLost
<1>1. Init => LossInv
  BY WorkQueueAssumption
  DEF Init, LossInv, NothingLost, ReportedBeforeLrem, InMain
<1>2. QED
  BY <1>1, LossStep, TypeCorrect, PTL DEF Spec, LossInv

-----------------------------------------------------------------------------
(* Each push trains a dataset once.                                         *)

\* Where the main list holds a dataset, and who has still to report it.
Positions(i) == {k \in 1..Len(mainQ) : mainQ[k] = i}
Trainers(i) == {w \in Workers : pc[w] \in Holding \ {"lrem"} /\ item[w] = i}

\* A push is a copy in the main list, a worker that trains it, or a report; a copy that
\* a crash leaves in the processing list is none of them.
OnceInv ==
  \A i \in Items :
    /\ IsFiniteSet(Trainers(i))
    /\ reports[i] + Cardinality(Positions(i)) + Cardinality(Trainers(i)) <= 1 + repushes

LEMMA PositionsFinite ==
  ASSUME TypeOK, NEW i \in Items
  PROVE  IsFiniteSet(Positions(i)) /\ Cardinality(Positions(i)) \in Nat
<1>1. Len(mainQ) \in Nat
  BY LenProperties DEF TypeOK
<1>2. IsFiniteSet(1..Len(mainQ))
  BY <1>1, FS_Interval
<1>3. Positions(i) \in SUBSET (1..Len(mainQ))
  BY DEF Positions
<1>4. QED
  BY <1>2, <1>3, FS_Subset, FS_CardinalityType

\* The numbers the invariant adds up are numbers.
LEMMA OnceFacts ==
  ASSUME TypeOK, OnceInv, NEW i \in Items
  PROVE  /\ IsFiniteSet(Trainers(i)) /\ Cardinality(Trainers(i)) \in Nat
         /\ IsFiniteSet(Positions(i)) /\ Cardinality(Positions(i)) \in Nat
         /\ reports[i] \in Nat /\ repushes \in Nat
         /\ reports[i] + Cardinality(Positions(i)) + Cardinality(Trainers(i)) <= 1 + repushes
<1>1. IsFiniteSet(Positions(i)) /\ Cardinality(Positions(i)) \in Nat
  BY PositionsFinite
<1>2. /\ IsFiniteSet(Trainers(i))
      /\ reports[i] + Cardinality(Positions(i)) + Cardinality(Trainers(i)) <= 1 + repushes
  BY DEF OnceInv
<1>3. Cardinality(Trainers(i)) \in Nat
  BY <1>2, FS_CardinalityType
<1>4. reports[i] \in Nat
  BY DEF TypeOK
<1>5. repushes \in Nat
  BY WorkQueueAssumption DEF TypeOK
<1>6. QED
  BY <1>1, <1>2, <1>3, <1>4, <1>5

\* A step that changes neither the main list nor the reports, and gives nobody a
\* dataset to train, adds nothing.
LEMMA FewerTrainers ==
  ASSUME TypeOK, OnceInv, UNCHANGED <<mainQ, reports, repushes>>,
         \A i \in Items : Trainers(i)' \subseteq Trainers(i)
  PROVE  OnceInv'
<1> SUFFICES ASSUME NEW i \in Items
             PROVE  /\ IsFiniteSet(Trainers(i)')
                    /\ reports'[i] + Cardinality(Positions(i)') + Cardinality(Trainers(i)')
                         <= 1 + repushes'
  BY DEF OnceInv
<1>1. Positions(i)' = Positions(i)
  BY DEF Positions
<1>2. IsFiniteSet(Trainers(i)) /\ Trainers(i)' \in SUBSET Trainers(i)
  BY DEF OnceInv
<1>3. /\ IsFiniteSet(Trainers(i)')
      /\ Cardinality(Trainers(i)') <= Cardinality(Trainers(i))
  BY <1>2, FS_Subset
<1>4. Cardinality(Trainers(i)') \in Nat /\ Cardinality(Trainers(i)) \in Nat
  BY <1>2, <1>3, FS_CardinalityType
<1>5. /\ reports[i] \in Nat /\ repushes \in Nat /\ Cardinality(Positions(i)) \in Nat
      /\ reports[i] + Cardinality(Positions(i)) + Cardinality(Trainers(i)) <= 1 + repushes
  BY OnceFacts
<1>6. QED
  BY <1>1, <1>3, <1>4, <1>5

\* BRPOPLPUSH turns a copy in the main list into a worker that trains it.
LEMMA OncePop ==
  ASSUME TypeOK, OnceInv, NEW w \in Workers, Pop(w)
  PROVE  OnceInv'
<1> DEFINE n == Len(mainQ)
<1>1. /\ mainQ \in Seq(Items) /\ mainQ # <<>>
      /\ mainQ' = SubSeq(mainQ, 1, n - 1)
      /\ item' = [item EXCEPT ![w] = mainQ[n]]
      /\ pc[w] = "pop" /\ pc' = [pc EXCEPT ![w] = "setex"]
      /\ UNCHANGED <<reports, repushes>>
  BY DEF Pop, TypeOK, Goto, fileVars, envVars
<1>2. /\ n \in Nat \ {0} /\ mainQ[n] \in Items
      /\ Len(mainQ') = n - 1
      /\ \A k \in 1..(n - 1) : mainQ'[k] = mainQ[k]
  BY <1>1, AllButLast
<1> HIDE DEF n
<1> SUFFICES ASSUME NEW i \in Items
             PROVE  /\ IsFiniteSet(Trainers(i)')
                    /\ reports'[i] + Cardinality(Positions(i)') + Cardinality(Trainers(i)')
                         <= 1 + repushes'
  BY DEF OnceInv
<1>3. /\ IsFiniteSet(Trainers(i)) /\ Cardinality(Trainers(i)) \in Nat
      /\ IsFiniteSet(Positions(i)) /\ Cardinality(Positions(i)) \in Nat
      /\ reports[i] \in Nat /\ repushes \in Nat
      /\ reports[i] + Cardinality(Positions(i)) + Cardinality(Trainers(i)) <= 1 + repushes
  BY OnceFacts
<1>4. CASE i = mainQ[n]
  <2>1. Positions(i)' = Positions(i) \ {n} /\ n \in Positions(i)
    BY <1>2, <1>4 DEF Positions, n
  <2>2. Trainers(i)' = Trainers(i) \union {w} /\ w \notin Trainers(i)
    BY <1>1, <1>4 DEF Trainers, Holding, TypeOK
  <2>3. Cardinality(Positions(i)') = Cardinality(Positions(i)) - 1
    BY <1>3, <2>1, FS_RemoveElement
  <2>4. /\ IsFiniteSet(Trainers(i)')
        /\ Cardinality(Trainers(i)') = Cardinality(Trainers(i)) + 1
    BY <1>3, <2>2, FS_AddElement
  <2>5. QED
    BY <1>1, <1>3, <2>3, <2>4
<1>5. CASE i # mainQ[n]
  <2>1. Positions(i)' = Positions(i)
    BY <1>2, <1>5 DEF Positions, n
  <2>2. Trainers(i)' = Trainers(i)
    BY <1>1, <1>5 DEF Trainers, Holding, TypeOK
  <2>3. QED
    BY <1>1, <1>3, <2>1, <2>2
<1>6. QED
  BY <1>4, <1>5

\* The report takes the place of the worker that trained.
LEMMA OnceReport ==
  ASSUME TypeOK, OnceInv, NEW w \in Workers, Report(w)
  PROVE  OnceInv'
<1>1. /\ pc[w] = "report" /\ pc' = [pc EXCEPT ![w] = "lrem"] /\ item[w] \in Items
      /\ reports' = [reports EXCEPT ![item[w]] = @ + 1]
      /\ UNCHANGED <<mainQ, item, repushes>>
  BY DEF Report, Goto, TypeOK, Holding, redisVars, localVars, envVars
<1> SUFFICES ASSUME NEW i \in Items
             PROVE  /\ IsFiniteSet(Trainers(i)')
                    /\ reports'[i] + Cardinality(Positions(i)') + Cardinality(Trainers(i)')
                         <= 1 + repushes'
  BY DEF OnceInv
<1>2. /\ IsFiniteSet(Trainers(i)) /\ Cardinality(Trainers(i)) \in Nat
      /\ Cardinality(Positions(i)) \in Nat
      /\ reports[i] \in Nat /\ repushes \in Nat
      /\ reports[i] + Cardinality(Positions(i)) + Cardinality(Trainers(i)) <= 1 + repushes
  BY OnceFacts
<1>3. Positions(i)' = Positions(i)
  BY <1>1 DEF Positions
<1>4. CASE i = item[w]
  <2>1. Trainers(i)' = Trainers(i) \ {w} /\ w \in Trainers(i)
    BY <1>1, <1>4 DEF Trainers, Holding, TypeOK
  <2>2. /\ IsFiniteSet(Trainers(i)')
        /\ Cardinality(Trainers(i)') = Cardinality(Trainers(i)) - 1
    BY <1>2, <2>1, FS_RemoveElement
  <2>3. reports'[i] = reports[i] + 1
    BY <1>1, <1>4 DEF TypeOK
  <2>4. QED
    BY <1>1, <1>2, <1>3, <2>2, <2>3
<1>5. CASE i # item[w]
  <2>1. Trainers(i)' = Trainers(i) /\ reports'[i] = reports[i]
    BY <1>1, <1>5 DEF Trainers, Holding, TypeOK
  <2>2. QED
    BY <1>1, <1>2, <1>3, <2>1
<1>6. QED
  BY <1>4, <1>5

\* RPUSH of the batch adds one copy of each dataset.
LEMMA OncePush ==
  ASSUME TypeOK, OnceInv, QueueJobs
  PROVE  OnceInv'
<1> SUFFICES ASSUME NEW i \in Items
             PROVE  /\ IsFiniteSet(Trainers(i)')
                    /\ reports'[i] + Cardinality(Positions(i)') + Cardinality(Trainers(i)')
                         <= 1 + repushes'
  BY DEF OnceInv
<1> DEFINE n == Len(mainQ)
<1>1. /\ mainQ' = mainQ \o Batch /\ repushes' = repushes + 1
      /\ UNCHANGED <<reports, pc, item>>
  BY DEF QueueJobs, localVars, fileVars
<1>2. /\ n \in Nat /\ Len(Batch) \in Nat
      /\ Len(mainQ') = n + Len(Batch)
      /\ \A k \in 1..n : mainQ'[k] = mainQ[k]
      /\ \A k \in 1..Len(Batch) : mainQ'[n + k] = Batch[k]
  <2>1. mainQ \in Seq(Items) /\ Batch \in Seq(Items)
    BY WorkQueueAssumption DEF TypeOK
  <2>2. n \in Nat /\ Len(Batch) \in Nat
    BY <2>1, LenProperties
  <2>3. /\ Len(mainQ \o Batch) = n + Len(Batch)
        /\ \A k \in 1..(n + Len(Batch)) :
             (mainQ \o Batch)[k] = IF k <= n THEN mainQ[k] ELSE Batch[k - n]
    BY <2>1, ConcatProperties
  <2> HIDE DEF n
  <2>4. \A k \in 1..Len(Batch) : (mainQ \o Batch)[n + k] = Batch[n + k - n]
    BY <2>2, <2>3
  <2>5. \A k \in 1..Len(Batch) : n + k - n = k
    BY <2>2
  <2>6. \A k \in 1..n : (mainQ \o Batch)[k] = mainQ[k]
    BY <2>2, <2>3
  <2>7. QED
    BY <1>1, <2>2, <2>3, <2>4, <2>5, <2>6
<1> HIDE DEF n
<1>3. PICK b \in 1..Len(Batch) : Batch[b] = i
  BY WorkQueueAssumption
<1>4. \A k \in 1..Len(Batch) : Batch[k] = i => k = b
  BY <1>3, WorkQueueAssumption
<1>5. Positions(i)' = Positions(i) \union {n + b} /\ n + b \notin Positions(i)
  <2>1. \A k \in Positions(i)' : k \in Positions(i) \/ k = n + b
    <3> SUFFICES ASSUME NEW k \in 1..(n + Len(Batch)), mainQ'[k] = i
                 PROVE  k \in Positions(i) \/ k = n + b
      BY <1>2 DEF Positions
    <3>1. CASE k <= n
      BY <1>2, <3>1 DEF Positions, n
    <3>2. CASE k > n
      <4>1. k - n \in 1..Len(Batch) /\ n + (k - n) = k
        BY <1>2, <3>2
      <4>2. Batch[k - n] = i
        BY <1>2, <4>1
      <4>3. QED
        BY <1>2, <1>3, <1>4, <4>1, <4>2
    <3>3. QED
      BY <1>2, <3>1, <3>2
  <2>2. \A k \in Positions(i) : k \in Positions(i)'
    BY <1>2 DEF Positions, n
  <2>3. n + b \in Positions(i)'
    BY <1>2, <1>3 DEF Positions
  <2>4. n + b \notin Positions(i)
    BY <1>2, <1>3 DEF Positions, n
  <2>5. QED
    BY <2>1, <2>2, <2>3, <2>4
<1>6. Trainers(i)' = Trainers(i)
  BY <1>1 DEF Trainers
<1>7. /\ IsFiniteSet(Trainers(i)) /\ Cardinality(Trainers(i)) \in Nat
      /\ IsFiniteSet(Positions(i)) /\ Cardinality(Positions(i)) \in Nat
      /\ reports[i] \in Nat /\ repushes \in Nat
      /\ reports[i] + Cardinality(Positions(i)) + Cardinality(Trainers(i)) <= 1 + repushes
  BY OnceFacts
<1>8. Cardinality(Positions(i)') = Cardinality(Positions(i)) + 1
  BY <1>5, <1>7, FS_AddElement
<1>9. QED
  BY <1>1, <1>6, <1>7, <1>8

\* No other step makes a dataset be trained: a crash loses a worker, and nothing
\* returns its item to the main list.
LEMMA OnceStep == TypeOK /\ OnceInv /\ [Next]_vars => OnceInv'
<1> SUFFICES ASSUME TypeOK, OnceInv, [Next]_vars
             PROVE  OnceInv'
  OBVIOUS
<1> USE DEF TypeOK, Goto, Holding, redisVars, localVars, fileVars, envVars
<1>1. ASSUME NEW w \in Workers,
             \/ Start(w) \/ FirstLen(w) \/ SecondLen(w) \/ PopTimeout(w) \/ SetLease(w)
             \/ LoadModel(w) \/ LoadFails(w) \/ FitAndOpen(w) \/ DumpModel(w)
             \/ Lrem(w) \/ DelLease(w) \/ Crash(w)
      PROVE  OnceInv'
  <2>1. UNCHANGED <<mainQ, reports, repushes>>
    BY <1>1 DEF Start, FirstLen, SecondLen, PopTimeout, SetLease, LoadModel, LoadFails,
                FitAndOpen, DumpModel, Lrem, DelLease, Crash
  <2>2. \A v \in Workers : v # w => pc'[v] = pc[v] /\ item'[v] = item[v]
    BY <1>1 DEF Start, FirstLen, SecondLen, PopTimeout, SetLease, LoadModel, LoadFails,
                FitAndOpen, DumpModel, Lrem, DelLease, Crash
  <2>3. pc'[w] \in Holding \ {"lrem"} =>
          pc[w] \in Holding \ {"lrem"} /\ item'[w] = item[w]
    BY <1>1 DEF Start, FirstLen, SecondLen, PopTimeout, SetLease, LoadModel, LoadFails,
                FitAndOpen, DumpModel, Lrem, DelLease, Crash
  <2>4. \A i \in Items : Trainers(i)' \subseteq Trainers(i)
    BY <2>2, <2>3 DEF Trainers
  <2>5. QED
    BY <2>1, <2>4, FewerTrainers
<1>2. ASSUME NEW w \in Workers, Pop(w) PROVE OnceInv'
  BY <1>2, OncePop
<1>3. ASSUME NEW w \in Workers, Report(w) PROVE OnceInv'
  BY <1>3, OnceReport
<1>4. CASE \E i \in Items : LeaseExpires(i)
  <2>1. UNCHANGED <<mainQ, reports, repushes, pc, item>>
    BY <1>4 DEF LeaseExpires
  <2>2. \A i \in Items : Trainers(i)' \subseteq Trainers(i)
    BY <2>1 DEF Trainers
  <2>3. QED
    BY <2>1, <2>2, FewerTrainers
<1>5. CASE QueueJobs
  BY <1>5, OncePush
<1>6. CASE UNCHANGED vars
  <2>1. UNCHANGED <<mainQ, reports, repushes, pc, item>>
    BY <1>6 DEF vars
  <2>2. \A i \in Items : Trainers(i)' \subseteq Trainers(i)
    BY <2>1 DEF Trainers
  <2>3. QED
    BY <2>1, <2>2, FewerTrainers
<1>7. QED
  BY <1>1, <1>2, <1>3, <1>4, <1>5, <1>6 DEF Next, WorkerStep, JobComplete

\* However many workers, crashes and expired leases there are, a dataset has at most
\* one report for each time it was pushed (rediswq.py:72-117, worker.py).
THEOREM TrainedOncePerPush == Spec => []OncePerPush
<1>1. Init => OnceInv
  <2> SUFFICES ASSUME Init, NEW i \in Items
               PROVE  /\ IsFiniteSet(Trainers(i))
                      /\ reports[i] + Cardinality(Positions(i)) + Cardinality(Trainers(i))
                           <= 1 + repushes
    BY DEF OnceInv
  <2>1. PICK b \in 1..Len(Batch) : Batch[b] = i
    BY WorkQueueAssumption
  <2>2. Positions(i) = {b}
    BY <2>1, WorkQueueAssumption DEF Init, Positions
  <2>3. Trainers(i) = {}
    BY DEF Init, Trainers, Holding
  <2>4. Cardinality(Positions(i)) = 1 /\ Cardinality(Trainers(i)) = 0 /\ IsFiniteSet(Trainers(i))
    BY <2>2, <2>3, FS_Singleton, FS_EmptySet
  <2>5. QED
    BY <2>4 DEF Init
<1>2. TypeOK /\ OnceInv => OncePerPush
  <2> SUFFICES ASSUME TypeOK, OnceInv, NEW i \in Items
               PROVE  reports[i] <= 1 + repushes
    BY DEF OncePerPush
  <2>1. /\ Cardinality(Trainers(i)) \in Nat /\ Cardinality(Positions(i)) \in Nat
        /\ reports[i] \in Nat /\ repushes \in Nat
        /\ reports[i] + Cardinality(Positions(i)) + Cardinality(Trainers(i)) <= 1 + repushes
    BY OnceFacts
  <2>2. QED
    BY <2>1
<1>3. QED
  BY <1>1, <1>2, OnceStep, TypeCorrect, PTL DEF Spec

-----------------------------------------------------------------------------
(* While items are unique: one push of the batch.                           *)

UniqueParts == Unique /\ SingleHolder /\ Drained /\ OwnCheckpoint /\ CheckpointCurrent

\* Steps that leave the two lists, the files and everyone's item alone.
LEMMA QuietStep ==
  ASSUME TypeOK, UniqueParts, repushes = 0, NEW w \in Workers,
         UNCHANGED <<mainQ, processing, cpt, torn, repushes>>,
         \/ Start(w) \/ FirstLen(w) \/ SecondLen(w) \/ PopTimeout(w) \/ SetLease(w)
         \/ LoadModel(w) \/ LoadFails(w) \/ Report(w) \/ DelLease(w) \/ Crash(w)
  PROVE  UniqueParts'
<1> USE DEF UniqueParts, TypeOK, Stages, Holding, Goto,
            redisVars, localVars, fileVars, envVars
<1> DEFINE Act == \/ Start(w) \/ FirstLen(w) \/ SecondLen(w) \/ PopTimeout(w)
                  \/ SetLease(w) \/ LoadModel(w) \/ LoadFails(w) \/ Report(w)
                  \/ DelLease(w) \/ Crash(w)
<1>1. /\ \A v \in Workers : v # w => /\ pc'[v] = pc[v] /\ item'[v] = item[v]
                                     /\ cptPath'[v] = cptPath[v] /\ model'[v] = model[v]
      /\ pc'[w] \in Holding => /\ pc[w] \in Holding /\ item'[w] = item[w]
                               /\ cptPath'[w] = cptPath[w]
      /\ pc'[w] \in {"report", "lrem"} <=> (pc[w] \in {"report", "lrem"} /\ pc'[w] # "off")
      /\ pc'[w] # "off" => (cptPath'[w] = cptPath[w] /\ pc[w] # "off") \/ cptPath'[w] = NoItem
  BY DEF Start, FirstLen, SecondLen, PopTimeout, SetLease, LoadModel, LoadFails,
         Report, DelLease, Crash
<1>a. \A v \in Workers :
        /\ pc'[v] \in Holding =>
             /\ pc[v] \in Holding /\ item'[v] = item[v]
             /\ pc[v] \in {"report", "lrem"} => pc'[v] \in {"report", "lrem"}
        /\ (pc'[v] # "off" /\ cptPath'[v] \in Items) =>
             pc[v] # "off" /\ cptPath[v] \in Items /\ cptPath'[v] = cptPath[v]
  <2> TAKE v \in Workers
  <2>1. CASE v # w
    BY <1>1, <2>1
  <2>2. CASE v = w
    <3>1. "off" \notin Holding /\ NoItem \notin Items
      BY WorkQueueAssumption
    <3>2. pc'[v] \in Holding => pc[v] \in Holding /\ item'[v] = item[v]
      BY <1>1, <2>2, <3>1
    <3>3. (pc'[v] \in Holding /\ pc[v] \in {"report", "lrem"}) => pc'[v] \in {"report", "lrem"}
      BY <1>1, <2>2, <3>1
    <3>4. (pc'[v] # "off" /\ cptPath'[v] \in Items) =>
             pc[v] # "off" /\ cptPath[v] \in Items /\ cptPath'[v] = cptPath[v]
      BY <1>1, <2>2, <3>1
    <3>5. QED
      BY <3>2, <3>3, <3>4
  <2>3. QED
    BY <2>1, <2>2
<1>b. \A i \in Items : InMain(i)' <=> InMain(i)
  BY DEF InMain
<1>2. Unique'
  BY <1>a, <1>b DEF Unique
<1>3. SingleHolder'
  BY <1>a DEF SingleHolder
<1>4. Drained'
  <2>1. pc'[w] = "len2" => mainQ = <<>>
    BY DEF Start, FirstLen, SecondLen, PopTimeout, SetLease, LoadModel, LoadFails,
           Report, DelLease, Crash, IsEmpty, ReadOrder
  <2>2. pc'[w] = "exited" => mainQ = <<>> /\ \A i \in Items : processing[i] = 0
    BY DEF Start, FirstLen, SecondLen, PopTimeout, SetLease, LoadModel, LoadFails,
           Report, DelLease, Crash, IsEmpty, ReadOrder, Drained
  <2>3. QED
    BY <1>1, <2>1, <2>2 DEF Drained
<1>5. OwnCheckpoint'
  <2> SUFFICES ASSUME NEW u \in Workers, pc'[u] # "off", cptPath'[u] \in Items
               PROVE  /\ ~InMain(cptPath[u])'
                      /\ cptPath'[u] = cptPath[u]
                      /\ cptPath[u] \notin torn
                      /\ \A v \in Workers :
                           (pc'[v] \in Holding /\ item'[v] = cptPath[u]) =>
                             v = u /\ pc'[v] \in {"report", "lrem"}
    BY DEF OwnCheckpoint
  <2>1. QED
    BY <1>a, <1>b DEF OwnCheckpoint
<1>6. CheckpointCurrent'
  <2>1. CASE Start(w)
    BY <2>1 DEF CheckpointCurrent, Start
  <2>2. CASE LoadModel(w)
    BY <2>2 DEF CheckpointCurrent, LoadModel
  <2>3. CASE ~Start(w) /\ ~LoadModel(w)
    <3>1. UNCHANGED <<cptPath, model>> /\ (pc'[w] \notin {"off", "save", "dump"} =>
                                            pc[w] \notin {"off", "save", "dump"})
      BY <2>3 DEF FirstLen, SecondLen, PopTimeout, SetLease, LoadFails, Report,
                  DelLease, Crash
    <3>2. QED
      BY <1>1, <3>1 DEF CheckpointCurrent
  <2>4. QED
    BY <2>1, <2>2, <2>3
<1>7. QED
  BY <1>2, <1>3, <1>4, <1>5, <1>6

\* BRPOPLPUSH hands out an item nobody holds, and keeps the items of the two lists
\* apart.
LEMMA PopUnique ==
  ASSUME TypeOK, UniqueParts, repushes = 0, NEW w \in Workers, Pop(w)
  PROVE  UniqueParts'
<1> USE DEF UniqueParts, TypeOK, Stages, Holding, Goto,
            redisVars, localVars, fileVars, envVars
<1> DEFINE i == mainQ[Len(mainQ)]
<1>1. /\ i \in Items /\ InMain(i)
      /\ processing' = [processing EXCEPT ![i] = @ + 1]
      /\ item' = [item EXCEPT ![w] = i]
      /\ \A j \in Items : InMain(j)' => InMain(j)
      /\ \A j \in Items : j = i => ~InMain(j)'
      /\ (\A j, k \in 1..Len(mainQ) : mainQ[j] = mainQ[k] => j = k)'
  BY PoppedMain DEF Unique
<1>2. /\ pc[w] = "pop" /\ pc' = [pc EXCEPT ![w] = "setex"] /\ mainQ # <<>>
      /\ UNCHANGED <<cptPath, model, cpt, torn, reports, repushes>>
  BY DEF Pop
<1> HIDE DEF i
<1>3. processing[i] = 0 /\ \A v \in Workers : pc[v] \in Holding => item[v] # i
  BY <1>1 DEF Unique
<1>4. Unique'
  BY <1>1, <1>2, <1>3 DEF Unique
<1>5. SingleHolder'
  BY <1>1, <1>2, <1>3 DEF SingleHolder
<1>6. Drained'
  BY <1>1, <1>2 DEF Drained
<1>7. OwnCheckpoint'
  BY <1>1, <1>2, <1>3 DEF OwnCheckpoint
<1>8. CheckpointCurrent'
  BY <1>2 DEF CheckpointCurrent
<1>9. QED
  BY <1>4, <1>5, <1>6, <1>7, <1>8

\* Opening and dumping the checkpoint of one's own item leaves the checkpoints other
\* processes load alone.
LEMMA SaveUnique ==
  ASSUME TypeOK, UniqueParts, repushes = 0, NEW w \in Workers,
         FitAndOpen(w) \/ DumpModel(w)
  PROVE  UniqueParts'
<1> USE DEF UniqueParts, TypeOK, Stages, Holding, Goto, CheckpointName,
            redisVars, localVars, fileVars, envVars
<1>a. /\ UNCHANGED <<mainQ, processing, item, repushes>>
      /\ \E stage \in {"dump", "report"} : pc' = [pc EXCEPT ![w] = stage]
      /\ pc[w] \in {"save", "dump"}
  BY DEF FitAndOpen, DumpModel
<1>b. \A v \in Workers : /\ pc'[v] \in Holding <=> pc[v] \in Holding
                         /\ pc'[v] = "len2" <=> pc[v] = "len2"
                         /\ pc'[v] = "exited" <=> pc[v] = "exited"
  BY <1>a
<1>c. \A i \in Items : InMain(i)' <=> InMain(i)
  BY <1>a DEF InMain
<1>1. Unique' /\ SingleHolder' /\ Drained'
  <2>1. Unique'
    BY <1>a, <1>b, <1>c DEF Unique
  <2>2. SingleHolder'
    BY <1>a, <1>b DEF SingleHolder
  <2>3. Drained'
    BY <1>a, <1>b DEF Drained
  <2>4. QED
    BY <2>1, <2>2, <2>3
<1>2. item[w] \in Items /\ processing[item[w]] > 0 /\ ~InMain(item[w])
  BY DEF FitAndOpen, DumpModel, Unique
<1>3. \A v \in Workers : (pc[v] # "off" /\ cptPath[v] \in Items) => cptPath[v] # item[w]
  BY DEF FitAndOpen, DumpModel, OwnCheckpoint
<1>4. OwnCheckpoint'
  <2>1. CASE FitAndOpen(w)
    BY <1>2, <1>3, <2>1 DEF FitAndOpen, OwnCheckpoint, InMain
  <2>2. CASE DumpModel(w)
    <3>1. \A v \in Workers : (v # w /\ pc[v] \in Holding) => item[v] # item[w]
      BY <2>2 DEF SingleHolder, DumpModel
    <3>2. QED
      BY <1>2, <1>3, <2>2, <3>1 DEF DumpModel, OwnCheckpoint, InMain
  <2>3. QED
    BY <2>1, <2>2
<1>5. CheckpointCurrent'
  <2>1. CASE FitAndOpen(w)
    BY <2>1 DEF FitAndOpen, CheckpointCurrent
  <2>2. CASE DumpModel(w)
    <3>1. /\ pc' = [pc EXCEPT ![w] = "report"] /\ model' = model
          /\ cpt' = [cpt EXCEPT ![item[w]] = model[w]]
          /\ cptPath' = [cptPath EXCEPT ![w] = item[w]]
      BY <2>2 DEF DumpModel
    <3>2. ASSUME NEW v \in Workers, v # w, pc[v] \notin {"off", "save", "dump"},
                 cptPath[v] # NoItem
          PROVE  cpt'[cptPath[v]] = cpt[cptPath[v]]
      BY <1>3, <3>1, <3>2
    <3>3. cptPath'[w] = item[w] /\ cpt'[item[w]] = model[w] /\ item[w] # NoItem
      BY <1>2, <3>1, WorkQueueAssumption
    <3>4. \A v \in Workers : v # w => cptPath'[v] = cptPath[v] /\ pc'[v] = pc[v]
      BY <3>1
    <3>5. QED
      BY <3>1, <3>2, <3>3, <3>4 DEF CheckpointCurrent
  <2>3. QED
    BY <2>1, <2>2
<1>6. QED
  BY <1>1, <1>4, <1>5

\* LREM takes the only copy of the worker's item out of the processing list.
LEMMA LremUnique ==
  ASSUME TypeOK, UniqueParts, repushes = 0, NEW w \in Workers, Lrem(w)
  PROVE  UniqueParts'
<1> USE DEF UniqueParts, TypeOK, Stages, Holding, Goto,
            redisVars, localVars, fileVars, envVars
<1>1. /\ pc[w] = "lrem" /\ pc' = [pc EXCEPT ![w] = "del"]
      /\ processing' = [processing EXCEPT ![item[w]] = 0]
      /\ UNCHANGED <<mainQ, item, cptPath, model, cpt, torn, repushes>>
  BY DEF Lrem, LremAll
<1>2. \A v \in Workers : (v # w /\ pc[v] \in Holding) => item[v] # item[w]
  BY <1>1 DEF SingleHolder
<1>3. Unique'
  BY <1>1, <1>2 DEF Unique, InMain
<1>4. SingleHolder' /\ Drained'
  BY <1>1 DEF SingleHolder, Drained
<1>5. OwnCheckpoint'
  BY <1>1 DEF OwnCheckpoint, InMain
<1>6. CheckpointCurrent'
  BY <1>1 DEF CheckpointCurrent
<1>7. QED
  BY <1>3, <1>4, <1>5, <1>6

\* Every step keeps the invariant of the batch pushed once.
LEMMA UniqueStep == TypeOK /\ UniqueInv /\ [Next]_vars => UniqueInv'
<1> SUFFICES ASSUME TypeOK, UniqueInv, [Next]_vars, repushes' = 0
             PROVE  UniqueParts'
  BY DEF UniqueInv, UniqueParts
<1>1. ~QueueJobs
  BY DEF QueueJobs, TypeOK
<1>2. repushes = 0
  BY <1>1 DEF Next, WorkerStep, vars, envVars, Start, FirstLen, SecondLen, Pop,
      PopTimeout, SetLease, LoadModel, LoadFails, FitAndOpen, DumpModel, Report,
      Lrem, DelLease, Crash, LeaseExpires, JobComplete
<1>3. UniqueParts
  BY <1>2 DEF UniqueInv, UniqueParts
<1>4. ASSUME NEW w \in Workers,
             \/ Start(w) \/ FirstLen(w) \/ SecondLen(w) \/ PopTimeout(w) \/ SetLease(w)
             \/ LoadModel(w) \/ LoadFails(w) \/ Report(w) \/ DelLease(w) \/ Crash(w)
      PROVE  UniqueParts'
  <2>1. UNCHANGED <<mainQ, processing, cpt, torn, repushes>>
    BY <1>4 DEF Start, FirstLen, SecondLen, PopTimeout, SetLease, LoadModel,
        LoadFails, Report, DelLease, Crash, redisVars, fileVars, envVars
  <2>2. QED
    BY <1>2, <1>3, <1>4, <2>1, QuietStep
<1>5. ASSUME NEW w \in Workers,
             Pop(w) \/ FitAndOpen(w) \/ DumpModel(w) \/ Lrem(w)
      PROVE  UniqueParts'
  BY <1>2, <1>3, <1>5, PopUnique, SaveUnique, LremUnique
<1>6. ASSUME \/ \E i \in Items : LeaseExpires(i)
             \/ UNCHANGED vars
      PROVE  UniqueParts'
  <2>1. UNCHANGED <<mainQ, processing, pc, item, cptPath, model, cpt, torn, repushes>>
    BY <1>6 DEF LeaseExpires, vars, redisVars, localVars, fileVars, envVars
  <2>2. \A i \in Items : InMain(i)' <=> InMain(i)
    BY <2>1 DEF InMain
  <2>3. Unique' /\ SingleHolder' /\ Drained'
    BY <1>3, <2>1, <2>2 DEF UniqueParts, Unique, SingleHolder, Drained
  <2>4. OwnCheckpoint'
    BY <1>3, <2>1, <2>2 DEF UniqueParts, OwnCheckpoint
  <2>5. CheckpointCurrent'
    BY <1>3, <2>1 DEF UniqueParts, CheckpointCurrent
  <2>6. QED
    BY <2>3, <2>4, <2>5 DEF UniqueParts
<1>7. QED
  BY <1>1, <1>4, <1>5, <1>6 DEF Next, WorkerStep, JobComplete

\* While the batch has been pushed once, its items stay unique in the two lists.
LEMMA UniqueInvariant == Spec => []UniqueInv
<1>1. Init => UniqueInv
  BY WorkQueueAssumption
  DEF Init, UniqueInv, Unique, SingleHolder, Drained, OwnCheckpoint,
      CheckpointCurrent, Holding, InMain
<1>2. QED
  BY <1>1, UniqueStep, TypeCorrect, PTL DEF Spec

\* While the batch has been pushed once, no two workers hold one dataset,
\* however often leases run out.
THEOREM HoldersAreSingle == Spec => []SingleHolder
<1>1. UniqueInv => SingleHolder
  BY DEF UniqueInv, SingleHolder
<1>2. QED
  BY <1>1, UniqueInvariant, PTL

\* While the batch has been pushed once, a worker that left its loop left two
\* empty lists and no worker at work.
THEOREM ExitIsDrained == Spec => []ExitMeansDrained
<1>1. TypeOK /\ UniqueInv => ExitMeansDrained
  BY DEF TypeOK, UniqueInv, Drained, Unique, ExitMeansDrained, Holding
<1>2. QED
  BY <1>1, UniqueInvariant, TypeCorrect, PTL

\* While the batch has been pushed once, no worker reads a torn checkpoint.
THEOREM CheckpointsAreWhole == Spec => []NoTornLoad
<1>1. TypeOK /\ UniqueInv => NoTornLoad
  BY WorkQueueAssumption DEF TypeOK, UniqueInv, OwnCheckpoint, NoTornLoad
<1>2. QED
  BY <1>1, UniqueInvariant, TypeCorrect, PTL

\* While the batch has been pushed once, a process's model only grows.
THEOREM LineageIsKept == Spec => LineageKept
<1>1. TypeOK /\ UniqueInv /\ [Next]_vars =>
        [\A w \in Workers :
           (repushes = 0 /\ pc[w] = "load" /\ pc'[w] = "save")
             => model[w] \subseteq model'[w]]_vars
  <2> SUFFICES ASSUME TypeOK, UniqueInv, Next, repushes = 0,
                      NEW w \in Workers, pc[w] = "load", pc'[w] = "save"
               PROVE  model[w] \subseteq model'[w]
    OBVIOUS
  <2>1. LoadModel(w)
    <3>1. \A v \in Workers : Start(v) \/ WorkerStep(v) \/ Crash(v) => v = w
      BY DEF TypeOK, WorkerStep, Goto, Start, FirstLen, SecondLen, Pop, PopTimeout,
             SetLease, LoadModel, LoadFails, FitAndOpen, DumpModel, Report, Lrem,
             DelLease, Crash
    <3>2. Start(w) \/ WorkerStep(w) \/ Crash(w)
      BY <3>1 DEF Next, LeaseExpires, QueueJobs, JobComplete, vars
    <3>3. QED
      BY <3>2 DEF TypeOK, WorkerStep, Goto, Start, FirstLen, SecondLen, Pop,
             PopTimeout, SetLease, LoadFails, FitAndOpen, DumpModel, Report, Lrem,
             DelLease, Crash
  <2>2. model'[w] = IF cptPath[w] = NoItem THEN {} ELSE cpt[cptPath[w]]
    BY <2>1 DEF LoadModel, TypeOK
  <2>3. QED
    BY <2>2 DEF UniqueInv, CheckpointCurrent
<1>2. QED
  BY <1>1, UniqueInvariant, TypeCorrect, PTL DEF Spec, LineageKept

-----------------------------------------------------------------------------
(* Refinement of ClaimOnce.                                                 *)

Todo == {i \in Items : InMain(i)}
Done == {i \in Items : ~InMain(i) /\ processing[i] = 0}
Work(w) == IF pc[w] \in Holding THEN item[w] ELSE NoItem
Gone == {w \in Workers : pc[w] = "exited"}

\* Two workers never take their step at once.
LEMMA OthersStay ==
  ASSUME TypeOK, NEW w \in Workers, Start(w) \/ WorkerStep(w) \/ Crash(w)
  PROVE  \A v \in Workers : v # w => pc'[v] = pc[v] /\ item'[v] = item[v]
  BY DEF TypeOK, WorkerStep, Goto, Start, FirstLen, SecondLen, Pop, PopTimeout,
         SetLease, LoadModel, LoadFails, FitAndOpen, DumpModel, Report, Lrem,
         DelLease, Crash, redisVars, localVars, fileVars, envVars

\* A step that changes neither the two lists nor what a worker holds is a stutter of
\* the abstract queue.
LEMMA StutterStep ==
  ASSUME UNCHANGED <<mainQ, processing>>,
         \A w \in Workers : Work(w)' = Work(w) /\ (pc'[w] = "exited" <=> pc[w] = "exited")
  PROVE  UNCHANGED Claims!vars
<1>1. Todo' = Todo /\ Done' = Done
  BY DEF Todo, Done, InMain
<1>2. Gone' = Gone /\ [w \in Workers |-> Work(w)]' = [w \in Workers |-> Work(w)]
  BY DEF Gone
<1>3. QED
  BY <1>1, <1>2 DEF Claims!vars, Todo, Done, Work, Gone

\* BRPOPLPUSH of a waiting item is the abstract claim.
LEMMA ClaimStep ==
  ASSUME TypeOK, UniqueInv, repushes = 0, NEW w \in Workers, Pop(w)
  PROVE  \E i \in Items : Claims!Claim(w, i)
<1> DEFINE i == mainQ[Len(mainQ)]
<1>1. /\ i \in Items /\ InMain(i)
      /\ processing' = [processing EXCEPT ![i] = @ + 1]
      /\ item' = [item EXCEPT ![w] = i]
      /\ \A j \in Items : InMain(j)' => InMain(j)
      /\ \A j \in Items : InMain(j) => (InMain(j)' \/ j = i)
      /\ \A j \in Items : j = i => ~InMain(j)'
  BY PoppedMain DEF UniqueInv, Unique
<1>2. pc[w] = "pop" /\ pc' = [pc EXCEPT ![w] = "setex"]
  BY DEF Pop, Goto
<1> HIDE DEF i
<1>3. i \in Todo /\ Todo' = Todo \ {i}
  BY <1>1 DEF Todo
<1>4. Done' = Done
  BY <1>1 DEF Done, TypeOK
<1>5. Gone' = Gone /\ w \notin Gone
  BY <1>2 DEF Gone, TypeOK
<1>6. /\ Work(w) = NoItem
      /\ [v \in Workers |-> Work(v)]' = [[v \in Workers |-> Work(v)] EXCEPT ![w] = i]
  BY <1>1, <1>2 DEF Work, Holding, TypeOK
<1>7. QED
  BY <1>1, <1>3, <1>4, <1>5, <1>6 DEF Claims!Claim, Todo, Done, Work, Gone

\* LREM is the abstract completion.
LEMMA FinishStep ==
  ASSUME TypeOK, UniqueInv, repushes = 0, NEW w \in Workers, Lrem(w)
  PROVE  Claims!Finish(w)
<1>1. /\ pc[w] = "lrem" /\ pc' = [pc EXCEPT ![w] = "del"]
      /\ processing' = [processing EXCEPT ![item[w]] = 0]
      /\ UNCHANGED <<mainQ, item>> /\ item[w] \in Items
  BY DEF Lrem, LremAll, Goto, localVars, TypeOK, Holding
<1>2. ~InMain(item[w]) /\ \A i \in Items : InMain(i)' <=> InMain(i)
  BY <1>1 DEF UniqueInv, Unique, InMain, Holding, TypeOK
<1>3. Todo' = Todo /\ Done' = Done \union {item[w]}
  BY <1>1, <1>2 DEF Todo, Done, TypeOK
<1>4. Gone' = Gone
  BY <1>1 DEF Gone, TypeOK
<1>5. /\ Work(w) = item[w]
      /\ [v \in Workers |-> Work(v)]' = [[v \in Workers |-> Work(v)] EXCEPT ![w] = NoItem]
  BY <1>1 DEF Work, Holding, TypeOK
<1>6. QED
  BY <1>1, <1>3, <1>4, <1>5 DEF Claims!Finish, Todo, Done, Work, Gone

\* A crash, or a torn checkpoint, while an item is held abandons the item.
LEMMA AbandonStep ==
  ASSUME TypeOK, NEW w \in Workers, LoadFails(w) \/ Crash(w), pc[w] \in Holding
  PROVE  Claims!Abandon(w)
<1>1. /\ pc' = [pc EXCEPT ![w] = "off"] /\ UNCHANGED <<mainQ, processing, item>>
      /\ item[w] \in Items
  BY DEF LoadFails, Crash, Goto, redisVars, localVars, TypeOK
<1>2. Todo' = Todo /\ Done' = Done
  BY <1>1 DEF Todo, Done, InMain
<1>3. Gone' = Gone
  BY <1>1 DEF Gone, TypeOK, Holding
<1>4. /\ Work(w) = item[w]
      /\ [v \in Workers |-> Work(v)]' = [[v \in Workers |-> Work(v)] EXCEPT ![w] = NoItem]
  BY <1>1 DEF Work, Holding, TypeOK
<1>5. QED
  BY <1>1, <1>2, <1>3, <1>4 DEF Claims!Abandon, Todo, Done, Work, Gone

\* A worker whose second LLEN is 0 leaves the abstract queue, all of it done.
LEMMA LeaveStep ==
  ASSUME TypeOK, UniqueInv, repushes = 0, NEW w \in Workers,
         SecondLen(w), pc'[w] = "exited"
  PROVE  Claims!Leave(w)
<1>1. /\ pc[w] = "len2" /\ pc' = [pc EXCEPT ![w] = "exited"]
      /\ \A i \in Items : processing[i] = 0
      /\ UNCHANGED <<mainQ, processing, item>>
  BY DEF SecondLen, Goto, IsEmpty, ReadOrder, redisVars, localVars, TypeOK
<1>2. mainQ = <<>>
  BY <1>1 DEF UniqueInv, Drained
<1>3. \A i \in Items : ~InMain(i)
  BY <1>2 DEF InMain
<1>4. Done = Items /\ Todo' = Todo /\ Done' = Done
  BY <1>1, <1>3 DEF Done, Todo, InMain
<1>5. Gone' = Gone \union {w}
  BY <1>1 DEF Gone, TypeOK
<1>6. /\ Work(w) = NoItem
      /\ [v \in Workers |-> Work(v)]' = [v \in Workers |-> Work(v)]
  BY <1>1 DEF Work, Holding, TypeOK
<1>7. QED
  BY <1>4, <1>5, <1>6 DEF Claims!Leave, Todo, Done, Work, Gone

\* Every step of the queue is a step of the abstract one, or a stutter.
LEMMA WorkerRefines ==
  ASSUME TypeOK, UniqueInv, repushes = 0, NEW w \in Workers,
         Start(w) \/ WorkerStep(w) \/ Crash(w)
  PROVE  [Claims!Next]_(Claims!vars)
<1>1. CASE Pop(w)
  BY <1>1, ClaimStep DEF Claims!Next
<1>2. CASE Lrem(w)
  BY <1>2, FinishStep DEF Claims!Next
<1>3. CASE (LoadFails(w) \/ Crash(w)) /\ pc[w] \in Holding
  BY <1>3, AbandonStep DEF Claims!Next
<1>4. CASE SecondLen(w) /\ pc'[w] = "exited"
  BY <1>4, LeaveStep DEF Claims!Next
<1>5. CASE ~Pop(w) /\ ~Lrem(w) /\ ~((LoadFails(w) \/ Crash(w)) /\ pc[w] \in Holding)
           /\ ~(SecondLen(w) /\ pc'[w] = "exited")
  <2>1. UNCHANGED <<mainQ, processing>>
    BY <1>5 DEF WorkerStep, Start, FirstLen, SecondLen, PopTimeout, SetLease,
           LoadModel, LoadFails, FitAndOpen, DumpModel, Report, DelLease, Crash,
           redisVars
  <2>2. /\ Work(w)' = Work(w)
        /\ pc'[w] = "exited" <=> pc[w] = "exited"
    BY <1>5 DEF WorkerStep, Start, FirstLen, SecondLen, PopTimeout, SetLease,
           LoadModel, LoadFails, FitAndOpen, DumpModel, Report, DelLease, Crash,
           Goto, localVars, TypeOK, Work, Holding
  <2>3. \A v \in Workers : v # w => Work(v)' = Work(v) /\ pc'[v] = pc[v]
    BY OthersStay DEF Work
  <2>4. QED
    BY <2>1, <2>2, <2>3, StutterStep
<1>6. QED
  BY <1>1, <1>2, <1>3, <1>4, <1>5

\* A batch that is pushed once is worked off as ClaimOnce says: each dataset is
\* claimed by one worker only, and a worker leaves when every one is done.
THEOREM ImplementsClaimOnce == (MaxRepushes = 0) => (Spec => ClaimOnceSpec)
<1> SUFFICES ASSUME MaxRepushes = 0
             PROVE  Spec => ClaimOnceSpec
  OBVIOUS
<1>1. Init => Claims!Init
  <2> SUFFICES ASSUME Init
               PROVE  Claims!Init
    OBVIOUS
  <2>1. \A i \in Items : InMain(i)
    BY WorkQueueAssumption DEF Init, InMain
  <2>2. Todo = Items /\ Done = {} /\ Gone = {}
        /\ [w \in Workers |-> Work(w)] = [w \in Workers |-> NoItem]
    BY <2>1 DEF Todo, Done, Gone, Work, Holding, Init
  <2>3. QED
    BY <2>2 DEF Claims!Init, Todo, Done, Gone, Work
<1>2. TypeOK /\ UniqueInv /\ [Next]_vars => [Claims!Next]_(Claims!vars)
  <2> SUFFICES ASSUME TypeOK, UniqueInv, [Next]_vars
               PROVE  [Claims!Next]_(Claims!vars)
    OBVIOUS
  <2>1. repushes = 0 /\ ~QueueJobs
    BY DEF TypeOK, QueueJobs
  <2>2. ASSUME NEW w \in Workers, Start(w) \/ WorkerStep(w) \/ Crash(w)
        PROVE  [Claims!Next]_(Claims!vars)
    BY <2>1, <2>2, WorkerRefines
  <2>3. ASSUME (\E i \in Items : LeaseExpires(i)) \/ UNCHANGED vars
        PROVE  [Claims!Next]_(Claims!vars)
    <3>1. UNCHANGED <<mainQ, processing, pc, item>>
      BY <2>3 DEF LeaseExpires, vars, redisVars, localVars
    <3>2. QED
      BY <3>1, StutterStep DEF Work
  <2>4. QED
    BY <2>1, <2>2, <2>3 DEF Next, JobComplete
<1>3. QED
  BY <1>1, <1>2, UniqueInvariant, TypeCorrect, PTL
  DEF Spec, ClaimOnceSpec, Claims!Spec
=============================================================================
