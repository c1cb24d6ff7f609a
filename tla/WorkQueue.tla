------------------------------ MODULE WorkQueue ------------------------------
(***************************************************************************)
(* The fault-tolerant batch workload of batch/aiml-workloads: a Redis work *)
(* queue (src/rediswq.py), the worker loop that drains it (src/worker.py), *)
(* the model checkpoints the worker writes (src/model_training.py) and the *)
(* script that fills the queue (scripts/queue-jobs.sh).                    *)
(*                                                                         *)
(* One action is one Redis command or one file operation: between two of   *)
(* them any other worker may run, the Job's Pod may be preempted (the      *)
(* manifest asks for Spot nodes), and the lease key may expire.            *)
(***************************************************************************)
EXTENDS Naturals, Sequences

CONSTANTS Workers,     \* Pods of the Job (parallelism)
          Items,       \* dataset file names
          NoItem,      \* no dataset: also a checkpoint_path of None
          Batch,       \* the order in which queue-jobs.sh pushes the datasets
          MaxCrashes,  \* bound on preemptions
          MaxRepushes  \* bound on further runs of queue-jobs.sh

ASSUME WorkQueueAssumption ==
  /\ NoItem \notin Items
  /\ Batch \in Seq(Items)
  /\ \A i \in Items : \E k \in 1..Len(Batch) : Batch[k] = i
  /\ \A j, k \in 1..Len(Batch) : Batch[j] = Batch[k] => j = k
  /\ MaxCrashes \in Nat
  /\ MaxRepushes \in Nat

VARIABLES
  mainQ,       \* the Redis list "datasets", its right end last
  processing,  \* "datasets:processing": how many copies of each item it holds
  leased,      \* items whose lease key exists (nothing reads its session id)
  pc,          \* what each worker does next
  item,        \* worker.main's item
  cptPath,     \* worker.main's checkpoint_path: the dataset it is named after
  model,       \* datasets the worker's in-memory model was fitted on
  cpt,         \* the shared checkpoint files: datasets each one's model knows
  torn,        \* checkpoint files opened for writing and not yet dumped
  reports,     \* how many reports each dataset has in report.txt
  crashes, repushes  \* counters of the two bounded environment actions

redisVars == <<mainQ, processing, leased>>
fileVars  == <<cpt, torn, reports>>
localVars == <<item, cptPath, model>>
envVars   == <<crashes, repushes>>
vars == <<redisVars, pc, localVars, fileVars, envVars>>

Stages == {"off", "len1", "len2", "pop", "setex", "load", "save", "dump",
           "report", "lrem", "del", "exited"}

\* The stages at which a worker works on the item it popped.
Holding == {"setex", "load", "save", "dump", "report", "lrem"}

InMain(i) == \E k \in 1..Len(mainQ) : mainQ[k] = i

Goto(w, stage) == pc' = [pc EXCEPT ![w] = stage]

\* The operands of the `and` in empty(), each a Redis round trip of its own.
ReadProcessingFirst == <<"processing", "main">>
ReadOrder == <<"main", "processing">>

\* LLEN of a list is 0.
IsEmpty(list) == IF list = "main" THEN mainQ = <<>>
                                  ELSE \A i \in Items : processing[i] = 0

\* LREM key 0 value takes every copy of the value out of the processing list.
LremOneCopy(i) == [processing EXCEPT ![i] = IF @ = 0 THEN 0 ELSE @ - 1]
LremByKey(i) == processing
LremAll(i) == [processing EXCEPT ![i] = 0]

\* _get_checkpoint_name(): one checkpoint file for each dataset.
OneCheckpointName(i) == Batch[1]
CheckpointName(i) == i

-----------------------------------------------------------------------------
(* queue-jobs.sh has run before the Job is created, as in the tutorial.     *)
Init ==
  /\ mainQ = Batch
  /\ processing = [i \in Items |-> 0]
  /\ leased = {}
  /\ pc = [w \in Workers |-> "off"]
  /\ item = [w \in Workers |-> NoItem]
  /\ cptPath = [w \in Workers |-> NoItem]
  /\ model = [w \in Workers |-> {}]
  /\ cpt = [i \in Items |-> {}]
  /\ torn = {}
  /\ reports = [i \in Items |-> 0]
  /\ crashes = 0
  /\ repushes = 0

\* worker.main up to its loop; also the restart of a failed container.
Start(w) ==
  /\ pc[w] = "off"
  /\ item' = [item EXCEPT ![w] = NoItem]
  /\ cptPath' = [cptPath EXCEPT ![w] = NoItem]
  /\ model' = [model EXCEPT ![w] = {}]
  /\ Goto(w, "len1")
  /\ UNCHANGED <<redisVars, fileVars, envVars>>

\* q.empty(): the first LLEN; `and` skips the second if this one is not 0.
FirstLen(w) ==
  /\ pc[w] = "len1"
  /\ Goto(w, IF IsEmpty(ReadOrder[1]) THEN "len2" ELSE "pop")
  /\ UNCHANGED <<redisVars, localVars, fileVars, envVars>>

\* q.empty(): the second LLEN; both 0 ends the worker's loop.
SecondLen(w) ==
  /\ pc[w] = "len2"
  /\ Goto(w, IF IsEmpty(ReadOrder[2]) THEN "exited" ELSE "pop")
  /\ UNCHANGED <<redisVars, localVars, fileVars, envVars>>

\* As if lease() popped with RPOP and left the processing list to itself.
PopOnly(w) ==
  /\ pc[w] = "pop"
  /\ mainQ # <<>>
  /\ mainQ' = SubSeq(mainQ, 1, Len(mainQ) - 1)
  /\ item' = [item EXCEPT ![w] = mainQ[Len(mainQ)]]
  /\ Goto(w, "setex")
  /\ UNCHANGED <<processing, leased, cptPath, model, fileVars, envVars>>

\* q.lease(): BRPOPLPUSH moves the rightmost item to the processing list.
Pop(w) ==
  /\ pc[w] = "pop"
  /\ mainQ # <<>>
  /\ LET i == mainQ[Len(mainQ)] IN
       /\ mainQ' = SubSeq(mainQ, 1, Len(mainQ) - 1)
       /\ processing' = [processing EXCEPT ![i] = @ + 1]
       /\ item' = [item EXCEPT ![w] = i]
  /\ Goto(w, "setex")
  /\ UNCHANGED <<leased, cptPath, model, fileVars, envVars>>

\* As if main did not test that the item is not None.
PopUntested(w) ==
  /\ pc[w] = "pop"
  /\ mainQ = <<>>
  /\ item' = [item EXCEPT ![w] = NoItem]
  /\ Goto(w, "setex")
  /\ UNCHANGED <<redisVars, cptPath, model, fileVars, envVars>>

\* q.lease(): BRPOPLPUSH gives up after 2 s and returns None: "Waiting for work".
PopTimeout(w) ==
  /\ pc[w] = "pop"
  /\ mainQ = <<>>
  /\ item' = [item EXCEPT ![w] = NoItem]
  /\ Goto(w, "len1")
  /\ UNCHANGED <<redisVars, cptPath, model, fileVars, envVars>>

\* q.lease(): SETEX writes the lease key with a TTL of 20 s.
SetLease(w) ==
  /\ pc[w] = "setex"
  /\ leased' = leased \union {item[w]}
  /\ Goto(w, "load")
  /\ UNCHANGED <<mainQ, processing, localVars, fileVars, envVars>>

\* As if checkpoint_path were not passed to the trainer.
LoadFresh(w) ==
  /\ pc[w] = "load"
  /\ model' = [model EXCEPT ![w] = {}]
  /\ Goto(w, "save")
  /\ UNCHANGED <<redisVars, item, cptPath, fileVars, envVars>>

\* FraudDetectionModelTrainer(): a new model, or the one of checkpoint_path.
LoadModel(w) ==
  /\ pc[w] = "load"
  /\ cptPath[w] \notin torn
  /\ model' = [model EXCEPT ![w] =
                 IF cptPath[w] = NoItem THEN {} ELSE cpt[cptPath[w]]]
  /\ Goto(w, "save")
  /\ UNCHANGED <<redisVars, item, cptPath, fileVars, envVars>>

\* pickle.load of a checkpoint another worker is writing raises: the process ends.
LoadFails(w) ==
  /\ pc[w] = "load"
  /\ cptPath[w] \in torn
  /\ Goto(w, "off")
  /\ UNCHANGED <<redisVars, localVars, fileVars, envVars>>

\* train_and_save(): partial_fit, then open(path, "wb") truncates the file.
FitAndOpen(w) ==
  /\ pc[w] = "save"
  /\ model' = [model EXCEPT ![w] = @ \union {item[w]}]
  /\ torn' = torn \union {CheckpointName(item[w])}
  /\ Goto(w, "dump")
  /\ UNCHANGED <<redisVars, item, cptPath, cpt, reports, envVars>>

\* train_and_save(): pickle.dump, close, and checkpoint_path = the path.
DumpModel(w) ==
  /\ pc[w] = "dump"
  /\ cpt' = [cpt EXCEPT ![CheckpointName(item[w])] = model[w]]
  /\ torn' = torn \ {CheckpointName(item[w])}
  /\ cptPath' = [cptPath EXCEPT ![w] = CheckpointName(item[w])]
  /\ Goto(w, "report")
  /\ UNCHANGED <<redisVars, item, model, reports, envVars>>

\* generate_report(): append to report.txt.
Report(w) ==
  /\ pc[w] = "report"
  /\ reports' = [reports EXCEPT ![item[w]] = @ + 1]
  /\ Goto(w, "lrem")
  /\ UNCHANGED <<redisVars, localVars, cpt, torn, envVars>>

\* q.complete(): LREM of the item from the processing list.
Lrem(w) ==
  /\ pc[w] = "lrem"
  /\ processing' = LremAll(item[w])
  /\ Goto(w, "del")
  /\ UNCHANGED <<mainQ, leased, localVars, fileVars, envVars>>

\* q.complete(): DEL of the lease key, whoever holds it.
DelLease(w) ==
  /\ pc[w] = "del"
  /\ leased' = leased \ {item[w]}
  /\ Goto(w, "len1")
  /\ UNCHANGED <<mainQ, processing, localVars, fileVars, envVars>>

WorkerStep(w) ==
  \/ FirstLen(w) \/ SecondLen(w) \/ Pop(w) \/ PopTimeout(w) \/ SetLease(w)
  \/ LoadModel(w) \/ LoadFails(w) \/ FitAndOpen(w) \/ DumpModel(w)
  \/ Report(w) \/ Lrem(w) \/ DelLease(w)

-----------------------------------------------------------------------------
(* The environment.                                                         *)

\* The Spot node is reclaimed or the container fails: locals are lost.
Crash(w) ==
  /\ pc[w] \notin {"off", "exited"}
  /\ crashes < MaxCrashes
  /\ crashes' = crashes + 1
  /\ Goto(w, "off")
  /\ UNCHANGED <<redisVars, localVars, fileVars, repushes>>

\* As if the collector the comments speak of took every expired lease for a crash.
CollectExpired(i) ==
  /\ i \in leased
  /\ leased' = leased \ {i}
  /\ processing' = [processing EXCEPT ![i] = 0]
  /\ mainQ' = <<i>> \o mainQ
  /\ UNCHANGED <<pc, localVars, fileVars, envVars>>

\* The lease key's TTL runs out, whether or not its worker is alive.
LeaseExpires(i) ==
  /\ i \in leased
  /\ leased' = leased \ {i}
  /\ UNCHANGED <<mainQ, processing, pc, localVars, fileVars, envVars>>

\* queue-jobs.sh is run again: RPUSH of the whole batch.
QueueJobs ==
  /\ repushes < MaxRepushes
  /\ repushes' = repushes + 1
  /\ mainQ' = mainQ \o Batch
  /\ UNCHANGED <<processing, leased, pc, localVars, fileVars, crashes>>

\* Every worker has left its loop: the Job is complete.
JobComplete ==
  /\ \A w \in Workers : pc[w] = "exited"
  /\ UNCHANGED vars

Next ==
  \/ \E w \in Workers : Start(w) \/ WorkerStep(w) \/ Crash(w)
  \/ \E i \in Items : LeaseExpires(i)
  \/ QueueJobs
  \/ JobComplete

Spec == Init /\ [][Next]_vars

(* A running process takes its next step, the Job controller starts its     *)
(* Pods and restarts failed containers (restartPolicy: OnFailure), and a    *)
(* Redis TTL runs out.  Preemptions and the operator promise nothing.       *)
FairSpec ==
  /\ Spec
  /\ \A w \in Workers : WF_vars(Start(w)) /\ WF_vars(WorkerStep(w))
  /\ \A i \in Items : WF_vars(LeaseExpires(i))

-----------------------------------------------------------------------------
(* Properties.                                                              *)

TypeOK ==
  /\ mainQ \in Seq(Items)
  /\ processing \in [Items -> Nat]
  /\ leased \subseteq Items
  /\ pc \in [Workers -> Stages]
  /\ item \in [Workers -> Items \union {NoItem}]
  /\ \A w \in Workers : pc[w] \in Holding \union {"del"} => item[w] \in Items
  /\ cptPath \in [Workers -> Items \union {NoItem}]
  /\ model \in [Workers -> SUBSET Items]
  /\ cpt \in [Items -> SUBSET Items]
  /\ torn \subseteq Items
  /\ reports \in [Items -> Nat]
  /\ crashes \in 0..MaxCrashes
  /\ repushes \in 0..MaxRepushes

\* A queued dataset is waiting, in the processing list, or has a report: no
\* crash, duplicate push or LREM by another worker makes the queue forget it.
NothingLost ==
  \A i \in Items : InMain(i) \/ processing[i] > 0 \/ reports[i] > 0

\* A dataset is trained at most once for each time it was pushed: neither a
\* restart nor an expired lease trains it again.
OncePerPush == \A i \in Items : reports[i] <= 1 + repushes

\* While item values are unique (one push, as rediswq.py assumes), no two
\* workers work on one item, even when a lease has run out under its worker.
SingleHolder ==
  repushes = 0 =>
    \A v, w \in Workers :
      (v # w /\ pc[v] \in Holding /\ pc[w] \in Holding) => item[v] # item[w]

\* worker.main leaves its loop only if no work waits and nobody is working,
\* although empty() reads the two lists at different moments.
ExitMeansDrained ==
  repushes = 0 =>
    \A w \in Workers : pc[w] = "exited" =>
      /\ mainQ = <<>>
      /\ \A i \in Items : processing[i] = 0
      /\ \A v \in Workers : pc[v] \notin Holding

\* While item values are unique, no worker loads a checkpoint that a worker,
\* itself or another, opened for writing and did not finish.
NoTornLoad ==
  repushes = 0 => \A w \in Workers : pc[w] = "load" => cptPath[w] \notin torn

\* While item values are unique, a process never forgets what it has trained:
\* the checkpoint it loads for the next dataset knows all its model knew.
LineageKept ==
  [][\A w \in Workers :
       (repushes = 0 /\ pc[w] = "load" /\ pc'[w] = "save")
         => model[w] \subseteq model'[w]]_vars

\* With no crash and no second push the Job ends, each dataset has exactly
\* one report, and no lease key is left behind.
JobDone ==
  <>[](crashes = 0 /\ repushes = 0 =>
         /\ \A w \in Workers : pc[w] = "exited"
         /\ \A i \in Items : reports[i] = 1
         /\ leased = {})

\* Pushing the batch again repairs what a crash left behind: once crashes are
\* over, a running worker trains each waiting dataset and its LREM removes the
\* orphaned copy with its own.
RepushHeals ==
  \A i \in Items :
    (/\ InMain(i)
     /\ crashes = MaxCrashes
     /\ \A w \in Workers : pc[w] \notin {"len2", "exited"})
      ~> (~InMain(i) /\ processing[i] = 0)

Orphaned(i) ==
  /\ processing[i] > 0
  /\ i \notin leased
  /\ ~ \E w \in Workers : pc[w] \in Holding /\ item[w] = i

\* rediswq.py:82: after lease_secs "other workers may consider this client to
\* have crashed or stalled and pick up the item instead"; rediswq.py:101: GC
\* "will see no lease for this item a later return it to the main queue".
OrphanReturned ==
  \A i \in Items : Orphaned(i) ~> (InMain(i) \/ processing[i] = 0)

\* The queue implements ClaimOnce while it is filled once: the item counts as
\* done when LREM takes it out of the processing list.
Claims ==
  INSTANCE ClaimOnce WITH
    todo <- {i \in Items : InMain(i)},
    work <- [w \in Workers |-> IF pc[w] \in Holding THEN item[w] ELSE NoItem],
    done <- {i \in Items : ~InMain(i) /\ processing[i] = 0},
    gone <- {w \in Workers : pc[w] = "exited"}

ClaimOnceSpec == Claims!Spec

-----------------------------------------------------------------------------
(* The inductive invariant behind the theorems of WorkQueueProofs.          *)

\* LREM comes after the report.
ReportedBeforeLrem ==
  \A w \in Workers : pc[w] = "lrem" => reports[item[w]] > 0

\* While items are unique a dataset is in one list only, and in the processing
\* list as long as a worker holds it.
Unique ==
  /\ \A j, k \in 1..Len(mainQ) : mainQ[j] = mainQ[k] => j = k
  /\ \A i \in Items : InMain(i) => processing[i] = 0
  /\ \A w \in Workers : pc[w] \in Holding => processing[item[w]] > 0

\* The main list never fills again, so what the first LLEN saw stays true.
Drained ==
  \A w \in Workers :
    /\ pc[w] = "len2" => mainQ = <<>>
    /\ pc[w] = "exited" => mainQ = <<>> /\ \A i \in Items : processing[i] = 0

\* The dataset a process's checkpoint is named after is over for everyone but
\* that process, so nobody opens the file again.
OwnCheckpoint ==
  \A w \in Workers : (pc[w] # "off" /\ cptPath[w] \in Items) =>
    /\ ~InMain(cptPath[w])
    /\ cptPath[w] \notin torn
    /\ \A v \in Workers : (pc[v] \in Holding /\ item[v] = cptPath[w]) =>
         v = w /\ pc[v] \in {"report", "lrem"}

\* Outside a training step the checkpoint knows all the process's model knows.
CheckpointCurrent ==
  \A w \in Workers : pc[w] \notin {"off", "save", "dump"} =>
    /\ cptPath[w] = NoItem => model[w] = {}
    /\ cptPath[w] # NoItem => model[w] \subseteq cpt[cptPath[w]]

UniqueInv ==
  repushes = 0 =>
    Unique /\ SingleHolder /\ Drained /\ OwnCheckpoint /\ CheckpointCurrent

IInv == TypeOK /\ NothingLost /\ ReportedBeforeLrem /\ UniqueInv
=============================================================================
