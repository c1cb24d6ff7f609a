------------------------ MODULE SandboxDispatchProofs ------------------------
(***************************************************************************)
(* Proofs about SandboxDispatch for any number of dispatchers, sessions    *)
(* and pods, any --max-redispatch and any number of faults and crashes.    *)
(***************************************************************************)
EXTENDS SandboxDispatch, TLAPS

USE DispatchAssumption

\* The initial state has the types the code keeps.
LEMMA InitTyped == Init => TypeOK
  BY DEF Init, TypeOK, WorkStates, Stages

\* dispatch() returning or raising leaves its locals well typed, whatever claims
\* it has deleted.
LEMMA LeaveTyped ==
  ASSUME TypeOK, NEW d \in Dispatchers, NEW listed,
         listed \in [Dispatchers -> SUBSET (claims' \union {None})],
         \A e \in Dispatchers : sb[e] \in claims' \union {None} \/ e = d,
         Leave(d, listed)
  PROVE  /\ pc' \in [Dispatchers -> Stages]
         /\ sess' \in [Dispatchers -> Sessions \union {None}]
         /\ \A e \in Dispatchers : pc'[e] # "poll" => sess'[e] \in Sessions
         /\ victims' \in [Dispatchers -> SUBSET (claims' \union {None})]
         /\ prev' \in [Dispatchers -> 0..MaxRedispatch]
         /\ sb' \in [Dispatchers -> claims' \union {None}]
         /\ host' \in [Dispatchers -> Pods \union {None}]
         /\ \A e \in Dispatchers : pc'[e] = "post" => host'[e] \in Pods
         /\ tries' \in [Dispatchers -> 0..Attempts]
  BY DEF TypeOK, Leave, Goto, Stages

\* Deleting claims keeps the pods well typed.
LEMMA ReleaseTyped ==
  ASSUME TypeOK, NEW gone, Release(gone)
  PROVE  /\ claims' \subseteq Claims
         /\ bound' \in [Pods -> claims' \union {None}]
         /\ given' \in [Pods -> Sessions \union {None}]
         /\ \A e \in Dispatchers :
              Dangling(victims[e], gone) \subseteq claims' \union {None}
  BY DEF TypeOK, Release, Dangling

\* The calls that end dispatch() and delete nothing keep the types.
LEMMA ReturnTyped ==
  ASSUME TypeOK, NEW d \in Dispatchers,
         Stop(d) \/ PostAccepted(d) \/ CallRaises(d) \/ ReadyTimeout(d)
           \/ ReapRaises(d) \/ Crash(d)
  PROVE  TypeOK'
<1>1. Return(d) /\ claims' = claims
  BY DEF Stop, PostAccepted, CallRaises, ReadyTimeout, ReapRaises, Crash
<1>2. Leave(d, victims)
  BY <1>1 DEF Return
<1>3. /\ victims \in [Dispatchers -> SUBSET (claims' \union {None})]
      /\ \A e \in Dispatchers : sb[e] \in claims' \union {None} \/ e = d
  BY <1>1 DEF TypeOK
<1>4. /\ pc' \in [Dispatchers -> Stages]
      /\ sess' \in [Dispatchers -> Sessions \union {None}]
      /\ \A e \in Dispatchers : pc'[e] # "poll" => sess'[e] \in Sessions
      /\ victims' \in [Dispatchers -> SUBSET (claims' \union {None})]
      /\ prev' \in [Dispatchers -> 0..MaxRedispatch]
      /\ sb' \in [Dispatchers -> claims' \union {None}]
      /\ host' \in [Dispatchers -> Pods \union {None}]
      /\ \A e \in Dispatchers : pc'[e] = "post" => host'[e] \in Pods
      /\ tries' \in [Dispatchers -> 0..Attempts]
  BY <1>2, <1>3, LeaveTyped
<1>5. /\ work' \in [Sessions -> WorkStates]
      /\ given' \in [Pods -> Sessions \union {None}]
      /\ faults' \in 0..MaxFaults
      /\ crashes' \in 0..MaxCrashes
      /\ deleted' = deleted /\ prompts' = prompts /\ bound' = bound
      /\ dispatches' = dispatches /\ unacked' = unacked
  BY DEF TypeOK, Stop, PostAccepted, CallRaises, ReadyTimeout, ReapRaises, Crash,
         Delivered, Fault, WorkStates, planeVars, podVars, histVars
<1>6. QED
  BY <1>1, <1>4, <1>5 DEF TypeOK

\* A dispatch that ends with its claim deleted keeps the types: the claim is
\* nobody else's own.
LEMMA ReturnWithoutTyped ==
  ASSUME TypeOK, OwnSession, NEW d \in Dispatchers, Terminate(d) \/ ReadyRaises(d)
  PROVE  TypeOK'
<1> DEFINE gone == claims \intersect {sb[d]}
           listed == [e \in Dispatchers |-> Dangling(victims[e], gone)]
<1>1. Release(gone) /\ Leave(d, listed)
  BY DEF Terminate, ReadyRaises, ReturnWithout
<1>2. /\ claims' \subseteq Claims
      /\ bound' \in [Pods -> claims' \union {None}]
      /\ given' \in [Pods -> Sessions \union {None}]
      /\ \A e \in Dispatchers :
           Dangling(victims[e], gone) \subseteq claims' \union {None}
  BY <1>1, ReleaseTyped
<1>3. listed \in [Dispatchers -> SUBSET (claims' \union {None})]
  BY <1>2
<1>4. \A e \in Dispatchers : sb[e] \in claims' \union {None} \/ e = d
  BY <1>1 DEF TypeOK, OwnSession, Release
<1> HIDE DEF listed
<1>5. /\ pc' \in [Dispatchers -> Stages]
      /\ sess' \in [Dispatchers -> Sessions \union {None}]
      /\ \A e \in Dispatchers : pc'[e] # "poll" => sess'[e] \in Sessions
      /\ victims' \in [Dispatchers -> SUBSET (claims' \union {None})]
      /\ prev' \in [Dispatchers -> 0..MaxRedispatch]
      /\ sb' \in [Dispatchers -> claims' \union {None}]
      /\ host' \in [Dispatchers -> Pods \union {None}]
      /\ \A e \in Dispatchers : pc'[e] = "post" => host'[e] \in Pods
      /\ tries' \in [Dispatchers -> 0..Attempts]
  BY <1>1, <1>3, <1>4, LeaveTyped
<1>6. /\ faults' \in 0..MaxFaults
      /\ UNCHANGED <<work, deleted, prompts, dispatches, unacked, crashes>>
  BY DEF TypeOK, Terminate, ReadyRaises, Fault, planeVars, histVars
<1>7. QED
  BY <1>2, <1>5, <1>6 DEF TypeOK

\* Polling, listing, reading an address and the POSTs keep the types.
LEMMA CallTyped ==
  ASSUME TypeOK, NEW d \in Dispatchers,
         \/ \E s \in Sessions : Poll(d, s)
         \/ List(d)
         \/ \E p \in Pods : Ready(d, p)
         \/ PostAnswerLost(d) \/ PostRefused(d) \/ PostLost(d)
         \/ NoAddress(d) \/ PostRaises(d)
  PROVE  TypeOK'
<1> USE DEF TypeOK, Goto, Stages, planeVars, podVars, localVars, histVars
<1>1. CASE \E s \in Sessions : Poll(d, s)
  BY <1>1 DEF Poll, WorkStates
<1>2. CASE List(d)
  BY <1>2 DEF List, Listed
<1>3. CASE \E p \in Pods : Ready(d, p)
  BY <1>3 DEF Ready
<1>4. CASE PostAnswerLost(d)
  BY <1>4 DEF PostAnswerLost, Delivered, Fault
<1>5. CASE PostRefused(d) \/ PostLost(d)
  BY <1>5 DEF PostRefused, PostLost, Fault
<1>6. CASE NoAddress(d) \/ PostRaises(d)
  BY <1>6 DEF NoAddress, PostRaises, Fault
<1>7. QED
  BY <1>1, <1>2, <1>3, <1>4, <1>5, <1>6

\* Reaping a claim keeps the types, and the carried count within its range.
LEMMA ReapTyped ==
  ASSUME TypeOK, NEW d \in Dispatchers, NEW c, Reap(d, c)
  PROVE  TypeOK'
<1>1. c \in claims /\ Release({c})
  BY DEF Reap
<1>2. /\ claims' \subseteq Claims
      /\ bound' \in [Pods -> claims' \union {None}]
      /\ given' \in [Pods -> Sessions \union {None}]
      /\ \A e \in Dispatchers :
           Dangling(victims[e], {c}) \subseteq claims' \union {None}
  BY <1>1, ReleaseTyped
<1>3. victims[d] \ {c} \subseteq claims' \union {None}
  BY <1>1 DEF TypeOK, Release
<1>4. victims' \in [Dispatchers -> SUBSET (claims' \union {None})]
  BY <1>2, <1>3 DEF Reap
<1>5. sb' \in [Dispatchers -> claims' \union {None}]
  BY <1>1 DEF TypeOK, Reap, Release
<1>6. prev' \in [Dispatchers -> 0..MaxRedispatch]
  <2>1. c.count \in 1..MaxRedispatch
    BY <1>1 DEF TypeOK, Claims
  <2>2. QED
    BY <2>1 DEF TypeOK, Reap, Higher
<1>7. UNCHANGED <<work, deleted, prompts, pc, sess, host, tries, dispatches, unacked,
                  faults, crashes>>
  BY DEF Reap, planeVars, histVars
<1>8. QED
  BY <1>2, <1>4, <1>5, <1>6, <1>7 DEF TypeOK

\* A created claim has a count within --max-redispatch.
LEMMA CreateTyped ==
  ASSUME TypeOK, NEW d \in Dispatchers, Create(d)
  PROVE  TypeOK'
<1> DEFINE c == [sess |-> sess[d], count |-> prev[d] + 1, by |-> d]
<1>1. /\ claims' = claims \union {c}
      /\ sb' = [sb EXCEPT ![d] = c]
      /\ pc' = [pc EXCEPT ![d] = "ready"]
      /\ dispatches' = [dispatches EXCEPT ![sess[d]] = OneMore(@)]
      /\ unacked' = [unacked EXCEPT ![sess[d]] = OneMore(@)]
      /\ UNCHANGED <<work, deleted, prompts, bound, given, sess, victims, prev, host,
                     tries, faults, crashes>>
  BY DEF Create, Goto, planeVars, podVars
<1>2. c \in Claims
  <2>1. sess[d] \in Sessions /\ prev[d] \in 0..MaxRedispatch /\ ~(prev[d] + 1 > MaxRedispatch)
    BY DEF TypeOK, Create, Exceeded
  <2>2. QED
    BY <2>1 DEF Claims
<1> HIDE DEF c
<1>3. /\ dispatches' \in [Sessions -> 0..(MaxRedispatch + 1)]
      /\ unacked' \in [Sessions -> 0..(MaxRedispatch + 1)]
  <2>1. \A n \in 0..(MaxRedispatch + 1) : OneMore(n) \in 0..(MaxRedispatch + 1)
    BY DEF OneMore
  <2>2. QED
    BY <1>1, <2>1 DEF TypeOK
<1>4. QED
  BY <1>1, <1>2, <1>3 DEF TypeOK, Stages

\* The pods, the control plane and the users keep the types.
LEMMA EnvironmentTyped ==
  ASSUME TypeOK,
         \/ \E p \in Pods : PodStep(p)
         \/ \E s \in Sessions : AgeOut(s) \/ Prompt(s) \/ DeleteSession(s)
  PROVE  TypeOK'
<1> USE DEF TypeOK, WorkStates, planeVars, podVars, localVars, histVars
<1>1. CASE \E p \in Pods, c \in claims : Bind(c, p)
  BY <1>1 DEF Bind
<1>2. CASE \E p \in Pods : Ack(p)
  BY <1>2 DEF Ack
<1>3. CASE \E p \in Pods : WorkerExits(p)
  BY <1>3 DEF WorkerExits
<1>4. CASE \E s \in Sessions : AgeOut(s) \/ DeleteSession(s)
  BY <1>4 DEF AgeOut, DeleteSession
<1>5. CASE \E s \in Sessions : Prompt(s)
  BY <1>5 DEF Prompt
<1>6. QED
  BY <1>1, <1>2, <1>3, <1>4, <1>5 DEF PodStep

\* Every step keeps the types.
LEMMA TypeStep ==
  ASSUME TypeOK, OwnSession, [Next]_vars
  PROVE  TypeOK'
<1>1. CASE UNCHANGED vars
  BY <1>1 DEF TypeOK, vars, planeVars, podVars, localVars, histVars
<1>2. CASE \E d \in Dispatchers : DispatcherStep(d) \/ Crash(d)
  <2>1. PICK d \in Dispatchers : DispatcherStep(d) \/ Crash(d)
    BY <1>2
  <2>2. CASE Stop(d) \/ PostAccepted(d) \/ CallRaises(d) \/ ReadyTimeout(d)
               \/ ReapRaises(d) \/ Crash(d)
    BY <2>2, ReturnTyped
  <2>3. CASE Terminate(d) \/ ReadyRaises(d)
    BY <2>3, ReturnWithoutTyped
  <2>4. CASE \/ \E s \in Sessions : Poll(d, s)
             \/ List(d)
             \/ \E p \in Pods : Ready(d, p)
             \/ PostAnswerLost(d) \/ PostRefused(d) \/ PostLost(d)
             \/ NoAddress(d) \/ PostRaises(d)
    BY <2>4, CallTyped
  <2>5. CASE \E c \in victims[d] : Reap(d, c)
    BY <2>5, ReapTyped
  <2>6. CASE Create(d)
    BY <2>6, CreateTyped
  <2>7. QED
    BY <2>1, <2>2, <2>3, <2>4, <2>5, <2>6 DEF DispatcherStep
<1>3. CASE \/ \E p \in Pods : PodStep(p)
           \/ \E s \in Sessions : AgeOut(s) \/ Prompt(s) \/ DeleteSession(s)
  BY <1>3, EnvironmentTyped
<1>4. QED
  BY <1>1, <1>2, <1>3 DEF Next

\* A step is one of six kinds, told apart by what it does to the claims, the
\* counts and a dispatcher's locals.  (The POSTs, the pods and the control plane
\* touch none of them.)
LEMMA StepKinds ==
  ASSUME TypeOK, [Next]_vars
  PROVE  \/ /\ UNCHANGED <<claims, dispatches, victims, prev, sb, sess>>
            /\ \A d \in Dispatchers :
                 (pc'[d] = "poll" <=> pc[d] = "poll") /\ (pc'[d] = "reap" <=> pc[d] = "reap")
         \/ \E d \in Dispatchers, s \in Sessions : Poll(d, s)
         \/ \E d \in Dispatchers : List(d)
         \/ \E d \in Dispatchers : \E c \in victims[d] : Reap(d, c)
         \/ \E d \in Dispatchers : Create(d)
         \/ \E d \in Dispatchers :
              /\ Return(d)
              /\ UNCHANGED <<claims, dispatches>>
         \/ \E d \in Dispatchers :
              /\ ReturnWithout(d)
              /\ UNCHANGED dispatches
<1> USE DEF planeVars, podVars, localVars, histVars
<1>1. CASE UNCHANGED vars
  BY <1>1 DEF vars
<1>2. CASE \E d \in Dispatchers : DispatcherStep(d) \/ Crash(d)
  <2>1. PICK d \in Dispatchers : DispatcherStep(d) \/ Crash(d)
    BY <1>2
  <2>2. CASE Stop(d) \/ PostAccepted(d) \/ CallRaises(d) \/ ReadyTimeout(d)
               \/ ReapRaises(d) \/ Crash(d)
    BY <2>2 DEF Stop, PostAccepted, CallRaises, ReadyTimeout, ReapRaises, Crash
  <2>3. CASE Terminate(d) \/ ReadyRaises(d)
    BY <2>3 DEF Terminate, ReadyRaises
  <2>4. CASE \/ \E p \in Pods : Ready(d, p)
             \/ PostAnswerLost(d) \/ PostRefused(d) \/ PostLost(d)
             \/ NoAddress(d) \/ PostRaises(d)
    BY <2>4 DEF TypeOK, Ready, PostAnswerLost, PostRefused, PostLost, NoAddress,
                PostRaises, Goto
  <2>5. QED
    BY <2>1, <2>2, <2>3, <2>4 DEF DispatcherStep
<1>3. CASE \/ \E p \in Pods : PodStep(p)
           \/ \E s \in Sessions : AgeOut(s) \/ Prompt(s) \/ DeleteSession(s)
  BY <1>3 DEF PodStep, Bind, Ack, WorkerExits, AgeOut, Prompt, DeleteSession
<1>4. QED
  BY <1>1, <1>2, <1>3 DEF Next

\* What a dispatcher holds stays about its own session.
LEMMA OwnSessionStep ==
  ASSUME TypeOK, OwnSession, [Next]_vars
  PROVE  OwnSession'
<1>1. CASE /\ UNCHANGED <<claims, dispatches, victims, prev, sb, sess>>
           /\ \A d \in Dispatchers : (pc'[d] = "poll" <=> pc[d] = "poll")
  BY <1>1 DEF OwnSession
<1>2. CASE \E d \in Dispatchers, s \in Sessions : Poll(d, s)
  <2>1. PICK d \in Dispatchers, s \in Sessions : Poll(d, s)
    BY <1>2
  <2>2. sess[d] = None /\ victims[d] \subseteq claims \union {None}
    BY <2>1 DEF OwnSession, Poll, TypeOK
  <2>3. victims[d] \ {None} = {}
    BY <2>2 DEF OwnSession, TypeOK, Claims
  <2>4. sb[d] = None
    BY <2>2 DEF OwnSession, TypeOK, Claims
  <2>5. QED
    BY <2>1, <2>3, <2>4 DEF OwnSession, Poll, Goto, TypeOK
<1>3. CASE \E d \in Dispatchers : List(d)
  BY <1>3 DEF OwnSession, List, Listed, Goto, TypeOK
<1>4. CASE \E d \in Dispatchers : \E c \in victims[d] : Reap(d, c)
  BY <1>4 DEF OwnSession, Reap, Dangling, TypeOK
<1>5. CASE \E d \in Dispatchers : Create(d)
  BY <1>5 DEF OwnSession, Create, Goto, TypeOK
<1>6. CASE \E d \in Dispatchers : Return(d)
  BY <1>6 DEF OwnSession, Return, Leave, Goto, TypeOK
<1>7. CASE \E d \in Dispatchers : ReturnWithout(d)
  BY <1>7 DEF OwnSession, ReturnWithout, Leave, Goto, Dangling, TypeOK
<1>8. QED
  BY <1>1, <1>2, <1>3, <1>4, <1>5, <1>6, <1>7, StepKinds

\* A count stays within the sandboxes made for its session: it grows by one only
\* together with them.
LEMMA CountsStep ==
  ASSUME TypeOK, OwnSession, CountsEarned, [Next]_vars
  PROVE  CountsEarned'
<1>1. CASE /\ UNCHANGED <<claims, dispatches, victims, prev, sb, sess>>
           /\ \A d \in Dispatchers : (pc'[d] = "poll" <=> pc[d] = "poll")
  BY <1>1 DEF CountsEarned
<1>2. CASE \E d \in Dispatchers, s \in Sessions : Poll(d, s)
  BY <1>2 DEF CountsEarned, Poll, Goto, TypeOK, histVars
<1>3. CASE \E d \in Dispatchers : List(d)
  BY <1>3 DEF CountsEarned, List, Goto, TypeOK, histVars
<1>4. CASE \E d \in Dispatchers : \E c \in victims[d] : Reap(d, c)
  <2>1. PICK d \in Dispatchers, c \in claims : c \in victims[d] /\ Reap(d, c)
    BY <1>4 DEF Reap
  <2>2. c.sess = sess[d] /\ c.count <= dispatches[sess[d]]
    BY <2>1 DEF OwnSession, CountsEarned, TypeOK
  <2>3. Higher(prev[d], c.count) <= dispatches[sess[d]]
    BY <2>1, <2>2 DEF CountsEarned, Reap, Higher
  <2>4. /\ claims' \subseteq claims /\ UNCHANGED <<dispatches, pc, sess>>
        /\ prev' = [prev EXCEPT ![d] = Higher(prev[d], c.count)]
    BY <2>1 DEF Reap, Release, histVars
  <2>5. pc[d] = "reap"
    BY <2>1 DEF Reap
  <2>6. QED
    BY <2>3, <2>4, <2>5 DEF CountsEarned, TypeOK
<1>5. CASE \E d \in Dispatchers : Create(d)
  <2>1. PICK d \in Dispatchers : Create(d)
    BY <1>5
  <2>2. prev[d] <= dispatches[sess[d]] /\ sess[d] \in Sessions /\ prev[d] + 1 <= MaxRedispatch
    BY <2>1 DEF CountsEarned, Create, Exceeded, TypeOK
  <2>3. \A n \in 0..(MaxRedispatch + 1) : OneMore(n) >= n
    BY DEF OneMore
  <2>4. \A s \in Sessions : dispatches'[s] \in Nat /\ dispatches'[s] >= dispatches[s]
    <3>1. \A n \in 0..(MaxRedispatch + 1) : OneMore(n) \in Nat
      BY DEF OneMore
    <3>2. QED
      BY <2>1, <2>3, <3>1 DEF Create, TypeOK
  <2>5. prev[d] + 1 <= dispatches'[sess[d]]
    <3>1. dispatches'[sess[d]] = OneMore(dispatches[sess[d]])
      BY <2>1, <2>2 DEF Create, TypeOK
    <3>2. QED
      BY <2>2, <3>1 DEF OneMore, TypeOK
  <2>6. \A c \in claims' : c.count <= dispatches'[c.sess]
    BY <2>1, <2>4, <2>5 DEF CountsEarned, Create, TypeOK, Claims
  <2>7. \A e \in Dispatchers :
          IF pc'[e] = "poll" THEN prev'[e] = 0 ELSE prev'[e] <= dispatches'[sess'[e]]
    BY <2>1, <2>4 DEF CountsEarned, Create, Goto, TypeOK
  <2>8. QED
    BY <2>6, <2>7 DEF CountsEarned
<1>6. CASE \E d \in Dispatchers : Return(d) /\ UNCHANGED <<claims, dispatches>>
  BY <1>6 DEF CountsEarned, Return, Leave, Goto, TypeOK
<1>7. CASE \E d \in Dispatchers : ReturnWithout(d) /\ UNCHANGED dispatches
  BY <1>7 DEF CountsEarned, ReturnWithout, Release, Leave, Goto, TypeOK
<1>8. QED
  BY <1>1, <1>2, <1>3, <1>4, <1>5, <1>6, <1>7, StepKinds

\* Only work.stop() stops an item.
LEMMA StoppedBy ==
  ASSUME TypeOK, [Next]_vars, NEW s \in Sessions, work'[s] = "stopped",
         work[s] # "stopped"
  PROVE  \E d \in Dispatchers : Stop(d) /\ sess[d] = s
<1> USE DEF planeVars, podVars, localVars, histVars
<1>1. CASE work' = work
  BY <1>1
<1>2. CASE work' # work
  <2>1. \/ \E d \in Dispatchers : Stop(d) \/ \E t \in Sessions : Poll(d, t)
        \/ \E p \in Pods : Ack(p)
        \/ \E t \in Sessions : AgeOut(t) \/ Prompt(t)
    BY <1>2 DEF Next, vars, DispatcherStep, PodStep, List, Reap, ReapRaises, Create,
                Ready, PostAccepted, PostAnswerLost, PostRefused, PostLost, NoAddress,
                PostRaises, Terminate, CallRaises, ReadyRaises, ReadyTimeout, Crash,
                Bind, WorkerExits, DeleteSession
  <2>2. QED
    BY <2>1 DEF Stop, Poll, Ack, AgeOut, Prompt, TypeOK
<1>3. QED
  BY <1>1, <1>2

\* The histories only grow.
LEMMA DispatchesGrow ==
  ASSUME TypeOK, [Next]_vars, NEW s \in Sessions
  PROVE  dispatches'[s] >= dispatches[s]
<1>1. CASE UNCHANGED dispatches
  BY <1>1 DEF TypeOK
<1>2. CASE \E d \in Dispatchers : Create(d)
  <2>1. \A n \in 0..(MaxRedispatch + 1) : OneMore(n) >= n
    BY DEF OneMore
  <2>2. QED
    BY <1>2, <2>1 DEF Create, TypeOK
<1>3. QED
  BY <1>1, <1>2, StepKinds DEF Poll, List, Reap, histVars

\* An item that stops has used up its dispatches.
LEMMA StopStep ==
  ASSUME TypeOK, CountsEarned, StopOnlyAfterMax, [Next]_vars
  PROVE  StopOnlyAfterMax'
<1> SUFFICES ASSUME NEW s \in Sessions, work'[s] = "stopped"
             PROVE  dispatches'[s] >= MaxRedispatch
  BY DEF StopOnlyAfterMax
<1>1. dispatches'[s] >= dispatches[s] /\ dispatches[s] \in Nat /\ dispatches'[s] \in Nat
  <2>1. dispatches' = dispatches \/ \E d \in Dispatchers : Create(d)
    BY StepKinds DEF Poll, List, Reap, histVars
  <2>2. \A n \in 0..(MaxRedispatch + 1) : OneMore(n) \in Nat
    BY DEF OneMore
  <2>3. QED
    BY <2>1, <2>2, DispatchesGrow DEF TypeOK, Create
<1>2. CASE work[s] = "stopped"
  BY <1>1, <1>2 DEF StopOnlyAfterMax
<1>3. CASE work[s] # "stopped"
  <2>1. PICK d \in Dispatchers : Stop(d) /\ sess[d] = s
    BY <1>3, StoppedBy
  <2>2. prev[d] <= dispatches[s] /\ prev[d] + 1 > MaxRedispatch
    BY <2>1 DEF CountsEarned, Stop, Exceeded
  <2>3. QED
    BY <1>1, <2>2 DEF TypeOK
<1>4. QED
  BY <1>2, <1>3

\* A dispatcher that reaps keeps its own claims of the session among those it listed,
\* whatever the others delete, so the claim it creates is the only one of its own.
LEMMA OneClaimEachStep ==
  ASSUME TypeOK, OneClaimEach, OwnListed, [Next]_vars
  PROVE  OneClaimEach' /\ OwnListed'
<1> USE DEF OneClaimEach, OwnListed
<1>1. CASE /\ UNCHANGED <<claims, dispatches, victims, prev, sb, sess>>
           /\ \A d \in Dispatchers :
                (pc'[d] = "poll" <=> pc[d] = "poll") /\ (pc'[d] = "reap" <=> pc[d] = "reap")
  BY <1>1
<1>2. CASE \E d \in Dispatchers, s \in Sessions : Poll(d, s)
  BY <1>2 DEF Poll, Goto, TypeOK
<1>3. CASE \E d \in Dispatchers : List(d)
  BY <1>3 DEF List, Listed, Goto, TypeOK
<1>4. CASE \E d \in Dispatchers : \E c \in victims[d] : Reap(d, c)
  <2>1. PICK d \in Dispatchers, c \in claims : Reap(d, c)
    BY <1>4 DEF Reap
  <2>2. claims' = claims \ {c} /\ pc' = pc /\ sess' = sess
    BY <2>1 DEF Reap, Release
  <2>3. \A e \in Dispatchers : victims[e] \ {c} \subseteq victims'[e]
    BY <2>1 DEF Reap, Dangling, TypeOK
  <2>4. QED
    BY <2>2, <2>3
<1>5. CASE \E d \in Dispatchers : Create(d)
  <2>1. PICK d \in Dispatchers : Create(d)
    BY <1>5
  <2>2. PICK new : /\ new.sess = sess[d] /\ new.by = d
                   /\ claims' = claims \union {new}
    BY <2>1 DEF Create
  <2>3. \A c \in claims : ~(c.sess = sess[d] /\ c.by = d)
    BY <2>1 DEF Create
  <2>4. /\ pc'[d] = "ready" /\ victims' = victims /\ sess' = sess
        /\ \A e \in Dispatchers : e # d => pc'[e] = pc[e]
    BY <2>1 DEF Create, Goto, TypeOK
  <2>5. OneClaimEach'
    BY <2>2, <2>3
  <2>6. OwnListed'
    BY <2>2, <2>4
  <2>7. QED
    BY <2>5, <2>6
<1>6. CASE \E d \in Dispatchers : Return(d) /\ UNCHANGED <<claims, dispatches>>
  BY <1>6 DEF Return, Leave, Goto, TypeOK
<1>7. CASE \E d \in Dispatchers : ReturnWithout(d) /\ UNCHANGED dispatches
  <2>1. PICK d \in Dispatchers : ReturnWithout(d)
    BY <1>7
  <2> DEFINE gone == claims \intersect {sb[d]}
             listed == [e \in Dispatchers |-> Dangling(victims[e], gone)]
  <2>2. claims' = claims \ gone /\ Leave(d, listed)
    BY <2>1 DEF ReturnWithout, Release
  <2>3. \A e \in Dispatchers : victims[e] \ gone \subseteq listed[e]
    BY DEF Dangling
  <2> HIDE DEF listed, gone
  <2>4. /\ pc'[d] = "poll"
        /\ \A e \in Dispatchers :
             e # d => pc'[e] = pc[e] /\ sess'[e] = sess[e] /\ victims'[e] = listed[e]
    <3>1. listed \in [Dispatchers -> SUBSET (claims \union {None})]
      BY DEF listed, Dangling, TypeOK
    <3>2. QED
      BY <2>2, <3>1 DEF Leave, Goto, TypeOK
  <2>5. QED
    BY <2>2, <2>3, <2>4
<1>8. QED
  BY <1>1, <1>2, <1>3, <1>4, <1>5, <1>6, <1>7, StepKinds

\* With one dispatcher, a stopped item leaves no claim and nobody dispatching it:
\* it was stopped when its claims had been reaped.
LEMMA FreeStep ==
  ASSUME TypeOK, OwnSession, Alone, StopFreesPods, LoneDispatcher, [Next]_vars
  PROVE  /\ StopFreesPods'
         /\ \A d \in Dispatchers : sess'[d] # None => work'[sess'[d]] # "stopped"
<1> USE DEF StopFreesPods, LoneDispatcher, ClaimsOf, Alone
<1> SUFFICES ASSUME NEW s \in Sessions, work'[s] = "stopped"
             PROVE  /\ {c \in claims' : c.sess = s} = {}
                    /\ \A d \in Dispatchers : sess'[d] # s
  <2>1. TypeOK'
    BY TypeStep
  <2>2. QED
    BY <2>1 DEF TypeOK
<1>1. CASE work[s] # "stopped"
  <2>1. PICK d \in Dispatchers : Stop(d) /\ sess[d] = s
    BY <1>1, StoppedBy
  <2>2. {c \in claims : c.sess = s} = {} /\ claims' = claims
    BY <2>1 DEF Stop
  <2>3. sess'[d] = None
    BY <2>1 DEF Stop, Return, Leave, TypeOK
  <2>4. QED
    BY <2>2, <2>3
<1>2. CASE work[s] = "stopped"
  <2>1. {c \in claims : c.sess = s} = {} /\ \A d \in Dispatchers : sess[d] # s
    BY <1>2 DEF TypeOK
  <2>2. CASE UNCHANGED <<claims, sess>>
    BY <2>1, <2>2
  <2>3. CASE \E d \in Dispatchers, t \in Sessions : Poll(d, t)
    BY <1>2, <2>1, <2>3 DEF Poll, TypeOK
  <2>4. CASE \E d \in Dispatchers : \E c \in victims[d] : Reap(d, c)
    BY <2>1, <2>4 DEF Reap, Release
  <2>5. CASE \E d \in Dispatchers : Create(d)
    BY <2>1, <2>5 DEF Create
  <2>6. CASE \E d \in Dispatchers : Return(d) /\ UNCHANGED claims
    BY <2>1, <2>6 DEF Return, Leave, TypeOK
  <2>7. CASE \E d \in Dispatchers : ReturnWithout(d)
    BY <2>1, <2>7 DEF ReturnWithout, Release, Leave, TypeOK
  <2>8. QED
    BY <2>2, <2>3, <2>4, <2>5, <2>6, <2>7, StepKinds DEF List
<1>3. QED
  BY <1>1, <1>2

\* With one dispatcher, the pod it posts to is still bound to the claim it made, and
\* a pod works for the session of the claim that binds it.
LEMMA RightPodStep ==
  ASSUME TypeOK, OwnSession, Alone, RightPod, LoneDispatcher, [Next]_vars
  PROVE  /\ RightPod'
         /\ \A d \in Dispatchers :
              pc'[d] = "post" => sb'[d] # None /\ bound'[host'[d]] = sb'[d]
<1> USE DEF RightPod, LoneDispatcher, Alone, planeVars, podVars, localVars, histVars
<1>1. CASE UNCHANGED vars
  BY <1>1 DEF vars
<1>2. CASE \E d \in Dispatchers : DispatcherStep(d) \/ Crash(d)
  <2>1. PICK d \in Dispatchers : DispatcherStep(d) \/ Crash(d)
    BY <1>2
  <2>2. CASE Stop(d) \/ CallRaises(d) \/ ReadyTimeout(d) \/ ReapRaises(d) \/ Crash(d)
    <3>1. Return(d) /\ UNCHANGED podVars
      BY <2>2 DEF Stop, CallRaises, ReadyTimeout, ReapRaises, Crash
    <3>2. pc'[d] = "poll"
      BY <3>1 DEF Return, Leave, Goto, TypeOK
    <3>3. QED
      BY <3>1, <3>2
  <2>3. CASE Delivered(d)
    <3>1. sb[d] # None /\ bound[host[d]] = sb[d] /\ sb[d].sess = sess[d] /\ host[d] \in Pods
      BY <2>3 DEF Delivered, OwnSession, TypeOK
    <3>2. given' = [given EXCEPT ![host[d]] = sess[d]] /\ bound' = bound
      BY <2>1, <2>3 DEF Delivered, DispatcherStep, Crash, Poll, List, Reap, ReapRaises, Stop,
                        Create, Ready, PostAccepted, PostAnswerLost, PostRefused, PostLost,
                        NoAddress, PostRaises, Terminate, CallRaises, ReadyRaises,
                        ReadyTimeout
    <3>3. RightPod'
      BY <3>1, <3>2 DEF TypeOK
    <3>4. CASE PostAccepted(d)
      BY <3>3, <3>4 DEF PostAccepted, Return, Leave, Goto, TypeOK
    <3>5. CASE PostAnswerLost(d)
      BY <3>1, <3>2, <3>3, <3>5 DEF PostAnswerLost
    <3>6. CASE PostLost(d) \/ PostRefused(d) \/ Crash(d)
      BY <3>1, <3>6 DEF PostLost, PostRefused, Crash, Return, Leave, Goto, TypeOK
    <3>7. QED
      BY <2>1, <2>3, <3>4, <3>5, <3>6
         DEF Delivered, DispatcherStep, Poll, List, Reap, ReapRaises, Stop, Create, Ready,
             NoAddress, PostRaises, Terminate, CallRaises, ReadyRaises, ReadyTimeout
  <2>4. CASE PostRefused(d) \/ PostLost(d)
    BY <2>4 DEF PostRefused, PostLost
  <2>5. CASE NoAddress(d) \/ PostRaises(d) \/ List(d) \/ \E s \in Sessions : Poll(d, s)
    BY <2>5 DEF NoAddress, PostRaises, List, Poll, Goto, TypeOK
  <2>6. CASE Create(d)
    BY <2>6 DEF Create, Goto, TypeOK
  <2>7. CASE \E p \in Pods : Ready(d, p)
    BY <2>7 DEF Ready, AddressOf, Goto, TypeOK
  <2>8. CASE Terminate(d) \/ ReadyRaises(d)
    <3>1. /\ Release(claims \intersect {sb[d]})
          /\ pc'[d] = "poll"
      BY <2>8 DEF Terminate, ReadyRaises, ReturnWithout, Leave, Goto, TypeOK
    <3>2. QED
      BY <3>1 DEF Release, TypeOK
  <2>9. CASE \E c \in victims[d] : Reap(d, c)
    <3>1. PICK c \in victims[d] : Reap(d, c)
      BY <2>9
    <3>2. /\ Release({c})
          /\ pc'[d] = "reap"
      BY <3>1 DEF Reap
    <3>3. QED
      BY <3>2 DEF Release, TypeOK
  <2>10. QED
    BY <2>1, <2>2, <2>3, <2>4, <2>5, <2>6, <2>7, <2>8, <2>9
       DEF DispatcherStep, PostAccepted, PostAnswerLost
<1>3. CASE \E p \in Pods : PodStep(p)
  <2>1. PICK p \in Pods : PodStep(p)
    BY <1>3
  <2>2. CASE \E c \in claims : Bind(c, p)
    <3>1. PICK c \in claims : Bind(c, p)
      BY <2>2
    <3>2. /\ bound[p] = None /\ bound' = [bound EXCEPT ![p] = c]
          /\ UNCHANGED <<given, pc, sb, host>>
      BY <3>1 DEF Bind
    <3>3. \A d \in Dispatchers : pc[d] = "post" => host[d] # p
      BY <3>2
    <3>4. QED
      BY <3>2, <3>3 DEF TypeOK
  <2>3. CASE Ack(p)
    BY <2>3 DEF Ack
  <2>4. CASE WorkerExits(p)
    BY <2>4 DEF WorkerExits, TypeOK
  <2>5. QED
    BY <2>1, <2>2, <2>3, <2>4 DEF PodStep
<1>4. CASE \E s \in Sessions : AgeOut(s) \/ Prompt(s) \/ DeleteSession(s)
  BY <1>4 DEF AgeOut, Prompt, DeleteSession
<1>5. QED
  BY <1>1, <1>2, <1>3, <1>4 DEF Next

\* The inductive invariant holds at the start and is kept by every step.
THEOREM InvariantHolds == Spec => []IInv
<1>1. Init => IInv
  BY InitTyped DEF Init, IInv, CountsEarned, OwnSession, StopOnlyAfterMax, OneClaim,
                   RightPod, StopFreesPods, LoneDispatcher, ClaimsOf, OneClaimEach,
                   OwnListed
<1>2. IInv /\ [Next]_vars => IInv'
  <2> SUFFICES ASSUME IInv, [Next]_vars
               PROVE  IInv'
    OBVIOUS
  <2>1. /\ TypeOK' /\ OwnSession' /\ CountsEarned' /\ StopOnlyAfterMax'
        /\ OneClaimEach' /\ OwnListed'
    BY TypeStep, OwnSessionStep, CountsStep, StopStep, OneClaimEachStep DEF IInv
  <2>2. CASE Alone
    <3>1. Alone'
      BY <2>2 DEF Alone
    <3>2. /\ OneClaim'
          /\ \A d \in Dispatchers : pc'[d] = "reap" => ClaimsOf(sess[d])' \subseteq victims'[d]
      <4>1. \A c \in claims', d \in Dispatchers : c.by = d
        BY <2>1, <2>2 DEF TypeOK, Claims, Alone
      <4>2. \A b, c \in claims' : b.by = c.by
        BY <2>1, <2>2 DEF TypeOK, Claims, Alone
      <4>3. QED
        BY <2>1, <4>1, <4>2 DEF OneClaimEach, OwnListed, OneClaim, ClaimsOf
    <3>3. StopFreesPods' /\ RightPod' /\ LoneDispatcher'
      BY <2>2, <3>2, FreeStep, RightPodStep DEF IInv, LoneDispatcher
    <3>4. QED
      BY <2>1, <3>2, <3>3 DEF IInv
  <2>3. CASE ~Alone
    BY <2>1, <2>3 DEF IInv, OneClaim, StopFreesPods, RightPod, Alone
  <2>4. QED
    BY <2>2, <2>3
<1>3. QED
  BY <1>1, <1>2, PTL DEF Spec

\* Every reachable state has the types the code keeps (main.py:89-124).
THEOREM TypeCorrect == Spec => []TypeOK
<1>1. IInv => TypeOK
  BY DEF IInv
<1>2. QED
  BY <1>1, InvariantHolds, PTL

\* However many dispatchers overlap, and whatever calls fail, no item is stopped
\* before MaxRedispatch sandboxes were made for its session (main.py:94).
THEOREM StopsAfterMax == Spec => []StopOnlyAfterMax
<1>1. IInv => StopOnlyAfterMax
  BY DEF IInv
<1>2. QED
  BY <1>1, InvariantHolds, PTL

\* However many dispatchers overlap, each leaves a session at most one claim
\* (main.py:56-70, 92-109).
THEOREM ClaimsAreSingleEach == Spec => []OneClaimEach
<1>1. IInv => OneClaimEach
  BY DEF IInv
<1>2. QED
  BY <1>1, InvariantHolds, PTL

\* A lone dispatcher never leaves a session two claims (main.py:56-70).
THEOREM ClaimsAreSingle == Spec => []OneClaim
<1>1. IInv => OneClaim
  BY DEF IInv
<1>2. QED
  BY <1>1, InvariantHolds, PTL

\* A lone dispatcher hands a session only to the pod of its claim (main.py:112-121).
THEOREM PodsAreRight == Spec => []RightPod
<1>1. IInv => RightPod
  BY DEF IInv
<1>2. QED
  BY <1>1, InvariantHolds, PTL

\* A lone dispatcher that stops an item leaves no claim of it (main.py:92-99).
THEOREM StoppingFrees == Spec => []StopFreesPods
<1>1. IInv => StopFreesPods
  BY DEF IInv
<1>2. QED
  BY <1>1, InvariantHolds, PTL

-----------------------------------------------------------------------------
(* One dispatcher, and no call that fails.                                  *)

Clean == Alone /\ faults = 0 /\ crashes = 0

\* No claim is deleted but by the loop that reads its count: the pod of a new claim
\* still listens, so the first POST is answered, and no listed claim is gone.
Fresh ==
  \A d \in Dispatchers :
    /\ pc[d] # "terminate"
    /\ None \notin victims[d]
    /\ pc[d] \in {"ready", "post"} =>
         sb[d] # None /\ \A p \in Pods : bound[p] = sb[d] => given[p] = None
    /\ pc[d] = "post" => tries[d] > 0

\* The number of a session's sandboxes is on its claim, or carried to the next one,
\* until the item is stopped.
Carried ==
  \A s \in Sessions :
    \/ dispatches[s] = 0
    \/ work[s] = "stopped" /\ dispatches[s] <= MaxRedispatch
    \/ \E c \in claims : c.sess = s /\ c.count = dispatches[s]
    \/ \E d \in Dispatchers : pc[d] = "reap" /\ sess[d] = s /\ prev[d] = dispatches[s]

\* The bounds on failures are not spent again: a clean history was always clean.
LEMMA CleanBefore ==
  ASSUME TypeOK, [Next]_vars, Clean'
  PROVE  Clean /\ UNCHANGED <<faults, crashes>>
<1> USE DEF Clean, Alone, TypeOK, Fault
<1>1. CASE UNCHANGED vars
  BY <1>1 DEF vars
<1>2. CASE \E d \in Dispatchers : DispatcherStep(d) \/ Crash(d)
  <2>1. PICK d \in Dispatchers : DispatcherStep(d) \/ Crash(d)
    BY <1>2
  <2>2. CASE \/ CallRaises(d) \/ ReadyRaises(d) \/ PostLost(d) \/ PostAnswerLost(d)
             \/ NoAddress(d) \/ Crash(d)
    <3>1. faults' = faults + 1 \/ crashes' = crashes + 1
      BY <2>2 DEF CallRaises, ReadyRaises, PostLost, PostAnswerLost, NoAddress, Crash
    <3>2. QED
      BY <3>1
  <2>3. CASE \/ Stop(d) \/ Create(d) \/ ReapRaises(d) \/ ReadyTimeout(d) \/ Terminate(d)
             \/ PostAccepted(d) \/ PostRefused(d) \/ PostRaises(d) \/ List(d)
    BY <2>3 DEF Stop, Create, ReapRaises, ReadyTimeout, Terminate, PostAccepted,
                PostRefused, PostRaises, List
  <2>4. CASE \/ \E s \in Sessions : Poll(d, s)
             \/ \E p \in Pods : Ready(d, p)
             \/ \E c \in victims[d] : Reap(d, c)
    BY <2>4 DEF Poll, Ready, Reap
  <2>5. QED
    BY <2>1, <2>2, <2>3, <2>4 DEF DispatcherStep
<1>3. CASE \/ \E p \in Pods : PodStep(p)
           \/ \E s \in Sessions : AgeOut(s) \/ Prompt(s) \/ DeleteSession(s)
  BY <1>3 DEF PodStep, Bind, Ack, WorkerExits, AgeOut, Prompt, DeleteSession
<1>4. QED
  BY <1>1, <1>2, <1>3 DEF Next

\* With one dispatcher and no failure, the claim just made stays, its pod listens.
LEMMA FreshStep ==
  ASSUME IInv, Clean, Clean', Fresh, [Next]_vars
  PROVE  Fresh'
<1> USE DEF Fresh, Clean, Alone, planeVars, podVars, localVars, histVars
<1>0. TypeOK /\ OwnSession /\ RightPod /\ LoneDispatcher
  BY DEF IInv
<1>1. CASE UNCHANGED vars
  BY <1>1 DEF vars
<1>2. CASE \E d \in Dispatchers : DispatcherStep(d) \/ Crash(d)
  <2>1. PICK d \in Dispatchers : DispatcherStep(d) \/ Crash(d)
    BY <1>2
  <2>2. \A e \in Dispatchers : e = d
    OBVIOUS
  <2>3. CASE Stop(d) \/ PostAccepted(d) \/ ReadyTimeout(d) \/ ReapRaises(d)
    <3>1. Return(d)
      BY <2>3 DEF Stop, PostAccepted, ReadyTimeout, ReapRaises
    <3>2. pc'[d] = "poll" /\ victims'[d] = {}
      BY <1>0, <3>1 DEF Return, Leave, Goto, TypeOK
    <3>3. QED
      BY <2>2, <3>2
  <2>4. CASE \/ CallRaises(d) \/ ReadyRaises(d) \/ Crash(d) \/ PostAnswerLost(d)
             \/ PostLost(d) \/ NoAddress(d)
    BY <1>0, <2>4 DEF CallRaises, ReadyRaises, Crash, PostAnswerLost, PostLost, NoAddress,
                      Fault, TypeOK
  <2>5. CASE \E s \in Sessions : Poll(d, s)
    BY <1>0, <2>2, <2>5 DEF Poll, Goto, TypeOK
  <2>6. CASE List(d)
    <3>1. pc'[d] = "reap" /\ victims'[d] = Listed(sess[d])
      BY <1>0, <2>6 DEF List, Goto, TypeOK
    <3>2. None \notin claims
      BY <1>0 DEF TypeOK
    <3>3. QED
      BY <2>2, <3>1, <3>2 DEF Listed
  <2>7. CASE \E c \in victims[d] : Reap(d, c)
    <3>1. pc'[d] = "reap" /\ victims'[d] \subseteq victims[d]
      BY <1>0, <2>7 DEF Reap, TypeOK
    <3>2. QED
      BY <2>2, <3>1
  <2>8. CASE Create(d)
    <3> DEFINE new == [sess |-> sess[d], count |-> prev[d] + 1, by |-> d]
    <3>1. pc[d] = "reap" /\ victims[d] = {} /\ sess[d] \in Sessions
      BY <1>0, <2>8 DEF Create, TypeOK
    <3>2. new \notin claims
      BY <1>0, <3>1 DEF LoneDispatcher, ClaimsOf
    <3>3. new \in Claims
      BY <1>0, <2>8, CreateTyped DEF Create, TypeOK, Claims, Exceeded
    <3>4. /\ pc'[d] = "ready" /\ victims'[d] = {} /\ sb'[d] = new
          /\ UNCHANGED <<bound, given>>
      BY <1>0, <2>8, <3>1 DEF Create, Goto, TypeOK
    <3> HIDE DEF new
    <3>5. new # None /\ \A p \in Pods : bound[p] # new
      BY <1>0, <3>2, <3>3 DEF TypeOK
    <3>6. QED
      BY <2>2, <3>4, <3>5
  <2>9. CASE \E p \in Pods : Ready(d, p)
    <3>1. /\ pc[d] = "ready" /\ pc'[d] = "post" /\ tries'[d] = Attempts
          /\ UNCHANGED <<bound, given, sb, victims>>
      BY <1>0, <2>9 DEF Ready, Goto, TypeOK
    <3>2. QED
      BY <2>2, <3>1
  <2>10. CASE PostRefused(d) \/ PostRaises(d) \/ Terminate(d)
    BY <1>0, <2>10 DEF PostRefused, PostRaises, Terminate, LoneDispatcher, TypeOK
  <2>11. QED
    BY <2>1, <2>3, <2>4, <2>5, <2>6, <2>7, <2>8, <2>9, <2>10 DEF DispatcherStep
<1>3. CASE \E p \in Pods : PodStep(p)
  <2>1. PICK p \in Pods : PodStep(p)
    BY <1>3
  <2>2. CASE \E c \in claims : Bind(c, p)
    <3>1. bound[p] = None /\ \A q \in Pods : q # p => bound'[q] = bound[q]
      BY <1>0, <2>2 DEF Bind, TypeOK
    <3>2. given[p] = None
      BY <1>0, <3>1 DEF RightPod
    <3>3. UNCHANGED <<given, pc, victims, sb, tries>>
      BY <2>2 DEF Bind
    <3>4. QED
      BY <3>1, <3>2, <3>3
  <2>3. CASE Ack(p)
    BY <2>3 DEF Ack
  <2>4. CASE WorkerExits(p)
    BY <1>0, <2>4 DEF WorkerExits, TypeOK
  <2>5. QED
    BY <2>1, <2>2, <2>3, <2>4 DEF PodStep
<1>4. CASE \E s \in Sessions : AgeOut(s) \/ Prompt(s) \/ DeleteSession(s)
  BY <1>4 DEF AgeOut, Prompt, DeleteSession
<1>5. QED
  BY <1>1, <1>2, <1>3, <1>4 DEF Next

\* A session whose number is known has at most MaxRedispatch sandboxes.
LEMMA CarriedBounds ==
  ASSUME TypeOK, Carried
  PROVE  \A s \in Sessions : dispatches[s] <= MaxRedispatch
  BY DEF TypeOK, Carried, Claims

\* The number goes from the claim to the loop that deletes it and on to the next
\* claim, or ends with work.stop().
LEMMA CarriedStep ==
  ASSUME IInv, Clean, Clean', Fresh, Carried, [Next]_vars
  PROVE  Carried'
<1> USE DEF Clean, Alone, planeVars, podVars, localVars, histVars
<1>0. TypeOK /\ OwnSession /\ CountsEarned /\ LoneDispatcher
  BY DEF IInv
<1>1. \A s \in Sessions : work[s] = "stopped" => work'[s] = "stopped"
  <2>1. \/ work' = work
        \/ \E d \in Dispatchers : Stop(d) \/ \E t \in Sessions : Poll(d, t)
        \/ \E p \in Pods : Ack(p)
        \/ \E t \in Sessions : AgeOut(t) \/ Prompt(t)
    BY DEF Next, vars, DispatcherStep, PodStep, List, Reap, ReapRaises, Create,
           Ready, PostAccepted, PostAnswerLost, PostRefused, PostLost, NoAddress,
           PostRaises, Terminate, CallRaises, ReadyRaises, ReadyTimeout, Crash,
           Bind, WorkerExits, DeleteSession
  <2>2. QED
    BY <1>0, <2>1 DEF Stop, Poll, Ack, AgeOut, Prompt, Offered, TypeOK
<1>2. CASE /\ UNCHANGED <<claims, dispatches, victims, prev, sb, sess>>
           /\ \A d \in Dispatchers : (pc'[d] = "reap" <=> pc[d] = "reap")
  BY <1>1, <1>2 DEF Carried
<1>3. CASE \E d \in Dispatchers, s \in Sessions : Poll(d, s)
  BY <1>0, <1>1, <1>3 DEF Carried, Poll, Goto, TypeOK
<1>4. CASE \E d \in Dispatchers : List(d)
  BY <1>0, <1>1, <1>4 DEF Carried, List, Goto, TypeOK
<1>5. CASE \E d \in Dispatchers : \E c \in victims[d] : Reap(d, c)
  <2>1. PICK d \in Dispatchers, c \in claims : c \in victims[d] /\ Reap(d, c)
    BY <1>5 DEF Reap
  <2>2. /\ c.sess = sess[d] /\ sess[d] \in Sessions
        /\ c.count \in Nat /\ c.count <= dispatches[sess[d]]
        /\ prev[d] \in Nat /\ prev[d] <= dispatches[sess[d]]
        /\ dispatches[sess[d]] \in Nat
    BY <1>0, <2>1 DEF OwnSession, CountsEarned, TypeOK, Claims, Reap
  <2>3. /\ claims' = claims \ {c} /\ UNCHANGED <<dispatches, pc, sess>>
        /\ prev' = [prev EXCEPT ![d] = Higher(prev[d], c.count)] /\ pc[d] = "reap"
    BY <2>1 DEF Reap, Release
  <2>4. prev'[d] = Higher(prev[d], c.count)
    BY <1>0, <2>3 DEF TypeOK
  <2>5. /\ prev[d] = dispatches[sess[d]] => prev'[d] = dispatches[sess[d]]
        /\ c.count = dispatches[sess[d]] => prev'[d] = dispatches[sess[d]]
    BY <2>2, <2>4 DEF Higher
  <2>6. ASSUME NEW s \in Sessions,
               \E b \in claims : b.sess = s /\ b.count = dispatches[s]
        PROVE  \/ \E b \in claims' : b.sess = s /\ b.count = dispatches[s]
               \/ sess[d] = s /\ prev'[d] = dispatches[s]
    BY <2>2, <2>3, <2>5, <2>6
  <2>7. QED
    BY <1>1, <2>3, <2>5, <2>6 DEF Carried
<1>6. CASE \E d \in Dispatchers : Create(d)
  <2>1. PICK d \in Dispatchers : Create(d)
    BY <1>6
  <2> DEFINE new == [sess |-> sess[d], count |-> prev[d] + 1, by |-> d]
  <2>2. /\ pc[d] = "reap" /\ sess[d] \in Sessions /\ victims[d] = {}
        /\ claims' = claims \union {new}
        /\ dispatches' = [dispatches EXCEPT ![sess[d]] = OneMore(@)]
        /\ work' = work
    BY <1>0, <2>1 DEF Create, TypeOK
  <2>3. dispatches[sess[d]] = prev[d]
    <3>1. work[sess[d]] # "stopped" /\ ~ \E c \in claims : c.sess = sess[d]
      BY <1>0, <2>2 DEF LoneDispatcher, ClaimsOf, TypeOK
    <3>2. prev[d] \in Nat /\ prev[d] <= dispatches[sess[d]]
      BY <1>0, <2>2 DEF CountsEarned, TypeOK
    <3>3. QED
      BY <2>2, <3>1, <3>2 DEF Carried
  <2>4. dispatches'[sess[d]] = prev[d] + 1
    BY <1>0, <2>2, <2>3 DEF OneMore, TypeOK
  <2>5. new \in claims' /\ new.sess = sess[d] /\ new.count = dispatches'[sess[d]]
    BY <2>2, <2>4
  <2>6. ASSUME NEW s \in Sessions, s # sess[d]
        PROVE  \/ dispatches'[s] = 0
               \/ work'[s] = "stopped" /\ dispatches'[s] <= MaxRedispatch
               \/ \E c \in claims' : c.sess = s /\ c.count = dispatches'[s]
    <3>1. dispatches'[s] = dispatches[s]
      BY <1>0, <2>2, <2>6 DEF TypeOK
    <3>2. ~ \E e \in Dispatchers : sess[e] = s
      BY <2>6
    <3>3. QED
      BY <2>2, <3>1, <3>2 DEF Carried
  <2>7. QED
    BY <2>5, <2>6 DEF Carried
<1>7. CASE \E d \in Dispatchers : Stop(d)
  <2>1. PICK d \in Dispatchers : Stop(d)
    BY <1>7
  <2>2. UNCHANGED <<claims, dispatches>> /\ work'[sess[d]] = "stopped"
    BY <1>0, <2>1 DEF Stop, TypeOK
  <2>3. \A s \in Sessions : s # sess[d] => ~ \E e \in Dispatchers : sess[e] = s
    OBVIOUS
  <2>4. dispatches[sess[d]] <= MaxRedispatch
    BY <1>0, <2>1, CarriedBounds DEF Stop, TypeOK
  <2>5. QED
    BY <1>1, <2>2, <2>3, <2>4 DEF Carried
<1>8. CASE \E d \in Dispatchers : PostAccepted(d)
  <2>1. PICK d \in Dispatchers : PostAccepted(d)
    BY <1>8
  <2>2. pc[d] = "post" /\ UNCHANGED <<claims, dispatches>>
    BY <2>1 DEF PostAccepted, Delivered
  <2>3. \A e \in Dispatchers : pc[e] # "reap"
    BY <2>2
  <2>4. QED
    BY <1>1, <2>2, <2>3 DEF Carried
<1>9. ~ \E d \in Dispatchers :
         \/ CallRaises(d) \/ ReadyRaises(d) \/ ReadyTimeout(d) \/ ReapRaises(d)
         \/ Crash(d) \/ PostLost(d) \/ PostAnswerLost(d) \/ NoAddress(d) \/ Terminate(d)
  BY <1>0 DEF CallRaises, ReadyRaises, ReadyTimeout, ReapRaises, Crash, PostLost,
              PostAnswerLost, NoAddress, Terminate, Fault, Fresh, TypeOK
<1>10. ASSUME NEW d \in Dispatchers,
              PostRefused(d) \/ PostRaises(d) \/ \E p \in Pods : Ready(d, p)
       PROVE  Carried'
  <2>1. UNCHANGED <<claims, dispatches, prev, sess>> /\ \A e \in Dispatchers : pc[e] # "reap"
    BY <1>10 DEF PostRefused, PostRaises, Ready
  <2>2. QED
    BY <1>1, <2>1 DEF Carried
<1>11. CASE \/ UNCHANGED vars
            \/ \E p \in Pods : PodStep(p)
            \/ \E s \in Sessions : AgeOut(s) \/ Prompt(s) \/ DeleteSession(s)
  BY <1>2, <1>11 DEF vars, PodStep, Bind, Ack, WorkerExits, AgeOut, Prompt, DeleteSession
<1>12. QED
  BY <1>3, <1>4, <1>5, <1>6, <1>7, <1>8, <1>9, <1>10, <1>11 DEF Next, DispatcherStep

\* As long as no call fails, the count survives from claim to claim, and a session
\* gets at most MaxRedispatch sandboxes (main.py:56-70, 92-111).
THEOREM CleanAttemptsAreBounded == Spec => []CleanAttemptsBounded
<1> DEFINE CInv == Clean => Fresh /\ Carried
<1>1. Init => CInv
  BY DEF Init, Fresh, Carried
<1>2. IInv /\ CInv /\ [Next]_vars => CInv'
  BY CleanBefore, FreshStep, CarriedStep DEF IInv
<1>3. IInv /\ CInv => CleanAttemptsBounded
  BY CarriedBounds DEF IInv, CleanAttemptsBounded, Clean
<1> HIDE DEF CInv
<1>4. QED
  BY <1>1, <1>2, <1>3, InvariantHolds, PTL DEF Spec

-----------------------------------------------------------------------------
(* The lone dispatcher implements SandboxLease.                             *)

Live == {s \in Sessions : ClaimsOf(s) # {}}
LeaseOf(p) == IF bound[p] = None THEN None ELSE bound[p].sess
Stopped == {s \in Sessions : work[s] = "stopped"}

\* What changes neither claims nor pods, and stops no item, is invisible to a lease.
LEMMA LeaseStutter ==
  ASSUME UNCHANGED <<claims, bound, given, dispatches>>, Stopped' = Stopped
  PROVE  UNCHANGED Leases!vars
<1>1. Live' = Live /\ \A p \in Pods : LeaseOf(p)' = LeaseOf(p)
  BY DEF Live, ClaimsOf, LeaseOf
<1>2. [p \in Pods |-> LeaseOf(p)]' = [p \in Pods |-> LeaseOf(p)]
  BY <1>1
<1>3. QED
  BY <1>1, <1>2 DEF Leases!vars, Live, LeaseOf, Stopped

\* Only work.stop() adds to the stopped items.
LEMMA StoppedStays ==
  ASSUME TypeOK, [Next]_vars, ~ \E d \in Dispatchers : Stop(d)
  PROVE  Stopped' = Stopped
<1> USE DEF planeVars, podVars, localVars, histVars
<1>1. CASE work' = work
  BY <1>1 DEF Stopped
<1>2. CASE work' # work
  <2>1. \/ \E d \in Dispatchers, t \in Sessions : Poll(d, t)
        \/ \E p \in Pods : Ack(p)
        \/ \E t \in Sessions : AgeOut(t) \/ Prompt(t)
    BY <1>2 DEF Next, vars, DispatcherStep, PodStep, List, Reap, ReapRaises, Create,
                Ready, PostAccepted, PostAnswerLost, PostRefused, PostLost, NoAddress,
                PostRaises, Terminate, CallRaises, ReadyRaises, ReadyTimeout, Crash,
                Bind, WorkerExits, DeleteSession
  <2>2. QED
    BY <2>1 DEF Poll, Ack, AgeOut, Prompt, Offered, Stopped, TypeOK
<1>3. QED
  BY <1>1, <1>2

\* create_sandbox() makes the session's only sandbox: its claims are reaped.
LEMMA MakeStep ==
  ASSUME IInv, Alone, NEW d \in Dispatchers, Create(d), Stopped' = Stopped
  PROVE  Leases!Next
<1> DEFINE s == sess[d]
<1>1. TypeOK /\ LoneDispatcher
  BY DEF IInv
<1>2. s \in Sessions /\ s \notin Live /\ s \notin Stopped
  BY <1>1 DEF Create, LoneDispatcher, TypeOK, Live, Stopped
<1>3. PICK new : new.sess = s /\ claims' = claims \union {new}
  BY DEF Create
<1>4. Live' = Live \union {s}
  BY <1>2, <1>3 DEF Live, ClaimsOf
<1>5. UNCHANGED <<bound, given>> /\ dispatches' = [dispatches EXCEPT ![s] = OneMore(@)]
  BY DEF Create, podVars
<1>6. [p \in Pods |-> LeaseOf(p)]' = [p \in Pods |-> LeaseOf(p)]
  BY <1>5 DEF LeaseOf
<1> HIDE DEF s
<1>7. Leases!Make(s)
  BY <1>2, <1>4, <1>5, <1>6 DEF Leases!Make, Live, LeaseOf, Stopped, OneMore
<1>8. \E t \in Sessions : Leases!Make(t)
  BY <1>2, <1>7
<1>9. QED
  BY <1>8 DEF Leases!Next

\* The controller binds the session's only claim, hence at most one pod.
LEMMA BindStep ==
  ASSUME IInv, Alone, NEW p \in Pods, NEW c \in claims, Bind(c, p), Stopped' = Stopped
  PROVE  Leases!Next
<1>1. TypeOK /\ OneClaim
  BY DEF IInv
<1>2. c.sess \in Sessions /\ c # None /\ c.sess # None
  BY <1>1, DispatchAssumption DEF TypeOK, Claims
<1>3. /\ bound[p] = None /\ bound' = [bound EXCEPT ![p] = c]
      /\ \A q \in Pods : bound[q] # c
      /\ UNCHANGED <<claims, given, dispatches>>
  BY DEF Bind, histVars
<1>4. c.sess \in Live /\ Live' = Live
  BY <1>2, <1>3 DEF Live, ClaimsOf
<1>5. LeaseOf(p) = None /\ \A q \in Pods : LeaseOf(q) # c.sess
  <2>1. SUFFICES ASSUME NEW q \in Pods, bound[q] # None
                 PROVE  bound[q].sess # c.sess
    BY <1>2, <1>3 DEF LeaseOf
  <2>2. bound[q] \in claims
    BY <1>1, <2>1 DEF TypeOK
  <2>3. QED
    BY <1>1, <1>2, <1>3, <2>2 DEF OneClaim, ClaimsOf
<1>6. [q \in Pods |-> LeaseOf(q)]' = [[q \in Pods |-> LeaseOf(q)] EXCEPT ![p] = c.sess]
  BY <1>1, <1>2, <1>3 DEF LeaseOf, TypeOK
<1>7. Leases!Bind(c.sess, p)
  BY <1>3, <1>4, <1>5, <1>6 DEF Leases!Bind, Live, LeaseOf, Stopped
<1>8. QED
  BY <1>2, <1>7 DEF Leases!Next

\* A POST reaches the pod of the session's own claim.
LEMMA BeginStep ==
  ASSUME IInv, Alone, NEW d \in Dispatchers, Delivered(d),
         UNCHANGED <<claims, bound, dispatches>>, Stopped' = Stopped
  PROVE  Leases!Next
<1> DEFINE p == host[d]
<1>1. TypeOK /\ LoneDispatcher /\ OwnSession
  BY DEF IInv
<1>2. p \in Pods /\ bound[p] = sb[d] /\ sb[d] # None /\ sb[d].sess = sess[d]
  BY <1>1 DEF Delivered, LoneDispatcher, OwnSession, TypeOK
<1>3. sess[d] \in Sessions /\ sess[d] # None
  BY <1>1, DispatchAssumption DEF Delivered, TypeOK
<1>4. LeaseOf(p) = sess[d] /\ LeaseOf(p) # None
  BY <1>2, <1>3 DEF LeaseOf
<1>5. given[p] = None /\ given' = [given EXCEPT ![p] = sess[d]]
  BY DEF Delivered
<1>6. Live' = Live /\ [q \in Pods |-> LeaseOf(q)]' = [q \in Pods |-> LeaseOf(q)]
  BY DEF Live, ClaimsOf, LeaseOf
<1> HIDE DEF p
<1>7. Leases!Begin(p)
  BY <1>2, <1>4, <1>5, <1>6 DEF Leases!Begin, Live, LeaseOf, Stopped
<1>8. QED
  BY <1>2, <1>7 DEF Leases!Next

\* The worker's exit ends the pod's work.
LEMMA EndStep ==
  ASSUME NEW p \in Pods, WorkerExits(p), Stopped' = Stopped
  PROVE  Leases!Next
<1>1. /\ given[p] # None /\ given' = [given EXCEPT ![p] = None]
      /\ UNCHANGED <<claims, bound, dispatches>>
  BY DEF WorkerExits, histVars
<1>2. Live' = Live /\ [q \in Pods |-> LeaseOf(q)]' = [q \in Pods |-> LeaseOf(q)]
  BY <1>1 DEF Live, ClaimsOf, LeaseOf
<1>3. Leases!End(p)
  BY <1>1, <1>2 DEF Leases!End, Live, LeaseOf, Stopped
<1>4. QED
  BY <1>3 DEF Leases!Next

\* Deleting a claim drops its session's sandbox, with the pod and its work.
LEMMA DropStep ==
  ASSUME IInv, Alone, NEW c \in claims, Release({c}), UNCHANGED dispatches,
         Stopped' = Stopped
  PROVE  Leases!Next
<1> DEFINE s == c.sess
<1>1. TypeOK /\ OneClaim /\ RightPod
  BY DEF IInv
<1>2. s \in Sessions /\ s # None /\ c # None
  BY <1>1, DispatchAssumption DEF TypeOK, Claims
<1>3. /\ claims' = claims \ {c}
      /\ bound' = [p \in Pods |-> IF bound[p] = c THEN None ELSE bound[p]]
      /\ given' = [p \in Pods |-> IF bound[p] = c THEN None ELSE given[p]]
  BY DEF Release
<1>4. \A b \in claims : b.sess = s => b = c
  BY <1>1, <1>2 DEF OneClaim, ClaimsOf
<1>5. s \in Live /\ Live' = Live \ {s}
  BY <1>2, <1>3, <1>4 DEF Live, ClaimsOf
<1>6. \A p \in Pods : bound[p] = c <=> LeaseOf(p) = s
  BY <1>1, <1>2, <1>4 DEF LeaseOf, TypeOK
<1>7. \A p \in Pods : given[p] = s => bound[p] = c
  BY <1>1, <1>2, <1>6 DEF RightPod, LeaseOf
<1>8. \A p \in Pods : bound[p] = c => given[p] \in {s, None}
  BY <1>1, <1>2 DEF RightPod, TypeOK
<1>9. given' = [p \in Pods |-> IF given[p] = s THEN None ELSE given[p]]
  BY <1>3, <1>7, <1>8
<1>10. \A p \in Pods : LeaseOf(p)' = IF LeaseOf(p) = s THEN None ELSE LeaseOf(p)
  BY <1>2, <1>3, <1>6 DEF LeaseOf
<1>11. [p \in Pods |-> LeaseOf(p)]'
         = [p \in Pods |-> IF [q \in Pods |-> LeaseOf(q)][p] = s THEN None
                           ELSE [q \in Pods |-> LeaseOf(q)][p]]
  BY <1>10
<1> HIDE DEF s
<1>12. Leases!Drop(s)
  BY <1>5, <1>9, <1>11 DEF Leases!Drop, Leases!Without, Live, LeaseOf, Stopped
<1>13. QED
  BY <1>2, <1>12 DEF Leases!Next

\* work.stop() gives up a session that has no sandbox and has had enough of them.
LEMMA GiveUpStep ==
  ASSUME IInv, Alone, NEW d \in Dispatchers, Stop(d)
  PROVE  Leases!Next
<1>1. TypeOK /\ LoneDispatcher /\ CountsEarned
  BY DEF IInv
<1>2. PICK s \in Sessions : s = sess[d]
  BY <1>1 DEF Stop, TypeOK
<1>3. s \notin Live /\ s \notin Stopped
  BY <1>2, <1>1 DEF Stop, LoneDispatcher, TypeOK, Live, Stopped
<1>4. dispatches[s] >= MaxRedispatch
  BY <1>2, <1>1 DEF Stop, Exceeded, CountsEarned, TypeOK
<1>5. work' = [work EXCEPT ![s] = "stopped"] /\ UNCHANGED <<claims, bound, given, dispatches>>
  BY <1>2 DEF Stop, podVars, histVars
<1>6. Stopped' = Stopped \union {s}
  BY <1>1, <1>5 DEF Stopped, TypeOK
<1>7. Live' = Live /\ [q \in Pods |-> LeaseOf(q)]' = [q \in Pods |-> LeaseOf(q)]
  BY <1>5 DEF Live, ClaimsOf, LeaseOf
<1>8. Leases!GiveUp(s)
  BY <1>3, <1>4, <1>5, <1>6, <1>7 DEF Leases!GiveUp, Live, LeaseOf, Stopped
<1>9. QED
  BY <1>8 DEF Leases!Next

\* Every step of the lone dispatcher and of its pods is a step of the lease, or a
\* stutter.
LEMMA LeaseStep ==
  ASSUME IInv, Alone, [Next]_vars
  PROVE  [Leases!Next]_(Leases!vars)
<1> USE DEF planeVars, podVars, localVars, histVars
<1>1. TypeOK
  BY DEF IInv
<1>2. CASE \E d \in Dispatchers : Stop(d)
  BY <1>2, GiveUpStep
<1>3. CASE ~ \E d \in Dispatchers : Stop(d)
  <2>1. Stopped' = Stopped
    BY <1>1, <1>3, StoppedStays
  <2>2. CASE \E d \in Dispatchers : Create(d)
    BY <2>1, <2>2, MakeStep
  <2>3. CASE \E d \in Dispatchers : \E c \in victims[d] : Reap(d, c)
    <3>1. PICK c \in claims : Release({c}) /\ UNCHANGED dispatches
      BY <2>3 DEF Reap
    <3>2. QED
      BY <2>1, <3>1, DropStep
  <2>4. CASE \E d \in Dispatchers : Terminate(d) \/ ReadyRaises(d)
    <3>1. PICK d \in Dispatchers :
            Release(claims \intersect {sb[d]}) /\ UNCHANGED dispatches
      BY <2>4 DEF Terminate, ReadyRaises, ReturnWithout
    <3>2. CASE sb[d] \in claims
      <4>1. claims \intersect {sb[d]} = {sb[d]}
        BY <3>2
      <4>2. QED
        BY <2>1, <3>1, <3>2, <4>1, DropStep
    <3>3. CASE sb[d] \notin claims
      <4>1. claims \intersect {sb[d]} = {}
        BY <3>3
      <4>2. UNCHANGED <<claims, bound, given>>
        BY <1>1, <3>1, <4>1 DEF Release, TypeOK
      <4>3. QED
        BY <2>1, <3>1, <4>2, LeaseStutter
    <3>4. QED
      BY <3>2, <3>3
  <2>5. CASE \E d \in Dispatchers : PostAccepted(d) \/ PostAnswerLost(d)
    <3>1. PICK d \in Dispatchers : Delivered(d) /\ UNCHANGED <<claims, bound, dispatches>>
      BY <2>5 DEF PostAccepted, PostAnswerLost
    <3>2. QED
      BY <2>1, <3>1, BeginStep
  <2>6. CASE \E p \in Pods : \E c \in claims : Bind(c, p)
    BY <2>1, <2>6, BindStep
  <2>7. CASE \E p \in Pods : WorkerExits(p)
    BY <2>1, <2>7, EndStep
  <2>8. CASE \/ UNCHANGED vars
             \/ \E d \in Dispatchers :
                  \/ List(d) \/ ReapRaises(d) \/ PostRefused(d) \/ PostLost(d)
                  \/ NoAddress(d) \/ PostRaises(d) \/ CallRaises(d) \/ ReadyTimeout(d)
                  \/ Crash(d)
                  \/ \E s \in Sessions : Poll(d, s)
                  \/ \E p \in Pods : Ready(d, p)
             \/ \E p \in Pods : Ack(p)
             \/ \E s \in Sessions : AgeOut(s) \/ Prompt(s) \/ DeleteSession(s)
    <3>1. UNCHANGED <<claims, bound, given, dispatches>>
      BY <2>8 DEF vars, List, ReapRaises, PostRefused, PostLost, NoAddress, PostRaises,
                  CallRaises, ReadyTimeout, Crash, Poll, Ready, Ack, AgeOut, Prompt,
                  DeleteSession
    <3>2. QED
      BY <2>1, <3>1, LeaseStutter
  <2>9. QED
    BY <1>3, <2>2, <2>3, <2>4, <2>5, <2>6, <2>7, <2>8
       DEF Next, DispatcherStep, PodStep
<1>4. QED
  BY <1>2, <1>3

\* One dispatcher gives sandboxes out as SandboxLease says, whatever calls fail and
\* wherever it dies: one sandbox at a time, one pod each, work only for the session
\* that has it, and an item stopped only without one (main.py:56-124).
THEOREM ImplementsLease == Alone => (Spec => LeaseSpec)
<1> SUFFICES ASSUME Alone
             PROVE  Spec => LeaseSpec
  OBVIOUS
<1>1. Init => Leases!Init
  <2> SUFFICES ASSUME Init
               PROVE  Leases!Init
    OBVIOUS
  <2>1. Live = {} /\ Stopped = {}
    BY DEF Init, Live, ClaimsOf, Stopped
  <2>2. [p \in Pods |-> LeaseOf(p)] = [p \in Pods |-> None]
    BY DEF Init, LeaseOf
  <2>3. QED
    BY <2>1, <2>2 DEF Init, Leases!Init, Live, LeaseOf, Stopped
<1>2. IInv /\ [Next]_vars => [Leases!Next]_(Leases!vars)
  BY LeaseStep
<1>3. QED
  BY <1>1, <1>2, InvariantHolds, PTL DEF Spec, LeaseSpec, Leases!Spec
=============================================================================
