--------------------------- MODULE SandboxDispatch ---------------------------
(***************************************************************************)
(* The session dispatcher of ai-ml/anthropic-agent-sandbox: a poll loop    *)
(* (src/dispatcher/main.py) that gives each offered work item a            *)
(* SandboxClaim, waits for the pod the claim is bound to, and POSTs the    *)
(* session to the entrypoint of that pod (src/worker/entrypoint.py).       *)
(*                                                                         *)
(* One action is one call to the Anthropic control plane, the Kubernetes   *)
(* API or the pod; the pods, the control plane and a second dispatcher (a  *)
(* rolling update overlaps two) run between any two of them.  The control  *)
(* plane and the sandbox controller are not in the repository: they are    *)
(* modelled from the calls the code makes and from its comments.           *)
(***************************************************************************)
EXTENDS Naturals, FiniteSets

CONSTANTS Dispatchers,    \* dispatcher processes
          Sessions,       \* agent sessions, one work item each
          Pods,           \* pod addresses of the warm pool
          MaxRedispatch,  \* --max-redispatch
          Attempts,       \* attempts of post_with_retry
          MaxPrompts,     \* bound on the prompts of a session
          MaxFaults,      \* bound on failed calls
          MaxCrashes,     \* bound on dispatcher crashes
          None            \* no session, claim or pod

\* A claim: its session-id label, its dispatch-count label, and its creator, which
\* stands for its generated name (a dispatcher reaps a session's claims before it
\* creates another one).
Claims == [sess : Sessions, count : 1..MaxRedispatch, by : Dispatchers]

ASSUME DispatchAssumption ==
  /\ MaxRedispatch \in Nat \ {0}
  /\ Attempts \in Nat \ {0}
  /\ MaxPrompts \in Nat \ {0}
  /\ MaxFaults \in Nat
  /\ MaxCrashes \in Nat
  /\ None \notin Sessions \union Pods \union Claims

VARIABLES
  work,        \* state of each session's work item in the control plane
  deleted,     \* sessions the user has deleted
  claims,      \* the SandboxClaims in the namespace
  bound,       \* the claim each pod is bound to, or None
  given,       \* the session each pod's entrypoint has accepted, or None
  pc,          \* what each dispatcher does next
  sess,        \* dispatch's session_id
  victims,     \* reap_stale_claims: the listed claims not yet deleted, with None
               \* for those somebody else deleted meanwhile
  prev,        \* reap_stale_claims: the highest dispatch count seen so far
  sb,          \* dispatch: the claim made for the item, None once it is deleted
  host,        \* dispatch: the address read from the pod
  tries,       \* post_with_retry: attempts left
  dispatches,  \* history: sandboxes created for each session, as far as needed
  unacked,     \* history: those created since the last acknowledged item
  prompts, faults, crashes  \* counters of the bounded actions

planeVars == <<work, deleted, prompts>>
podVars   == <<bound, given>>
localVars == <<sess, victims, prev, sb, host, tries>>
histVars  == <<dispatches, unacked>>
vars == <<planeVars, claims, podVars, pc, localVars, histVars, faults, crashes>>

\* aged: offered for longer than --reclaim-older-than-ms without being acked.
WorkStates == {"queued", "offered", "aged", "acked", "stopped"}
Stages == {"poll", "list", "reap", "ready", "post", "terminate"}

Offered(s) == work[s] \in {"offered", "aged"}

\* The histories stop one above the limit their properties compare them with.
OneMore(n) == IF n > MaxRedispatch THEN n ELSE n + 1

\* Deleting claims gives their pods' places to fresh, unbound pods.
Release(gone) ==
  /\ claims' = claims \ gone
  /\ bound' = [p \in Pods |-> IF bound[p] \in gone THEN None ELSE bound[p]]
  /\ given' = [p \in Pods |-> IF bound[p] \in gone THEN None ELSE given[p]]

\* What dispatchers hold of a deleted claim dangles from then on.
Dangling(listed, gone) ==
  IF listed \intersect gone = {} THEN listed ELSE (listed \ gone) \union {None}

Goto(d, stage) == pc' = [pc EXCEPT ![d] = stage]

\* dispatch() returns or raises: its locals end, and main polls again.  The other
\* dispatchers' lists are those given.
Leave(d, listed) ==
  /\ Goto(d, "poll")
  /\ sess' = [sess EXCEPT ![d] = None]
  /\ victims' = [listed EXCEPT ![d] = {}]
  /\ prev' = [prev EXCEPT ![d] = 0]
  /\ sb' = [sb EXCEPT ![d] = None]
  /\ host' = [host EXCEPT ![d] = None]
  /\ tries' = [tries EXCEPT ![d] = 0]

Return(d) == Leave(d, victims)

\* dispatch() ends, and its claim, if it is still there, is deleted.
ReturnWithout(d) ==
  LET gone == claims \intersect {sb[d]} IN
    /\ Release(gone)
    /\ Leave(d, [e \in Dispatchers |-> Dangling(victims[e], gone)])

\* A call fails: at most MaxFaults times.
Fault == faults < MaxFaults /\ faults' = faults + 1

\* "exceeded max-redispatch": attempt > args.max_redispatch.
ExceededAtLimit(attempt) == attempt >= MaxRedispatch
ExceededTooLate(attempt) == attempt > MaxRedispatch + 1
Exceeded(attempt) == attempt > MaxRedispatch

-----------------------------------------------------------------------------
Init ==
  /\ work = [s \in Sessions |-> "queued"]
  /\ deleted = {}
  /\ claims = {}
  /\ bound = [p \in Pods |-> None]
  /\ given = [p \in Pods |-> None]
  /\ pc = [d \in Dispatchers |-> "poll"]
  /\ sess = [d \in Dispatchers |-> None]
  /\ victims = [d \in Dispatchers |-> {}]
  /\ prev = [d \in Dispatchers |-> 0]
  /\ sb = [d \in Dispatchers |-> None]
  /\ host = [d \in Dispatchers |-> None]
  /\ tries = [d \in Dispatchers |-> 0]
  /\ dispatches = [s \in Sessions |-> 0]
  /\ unacked = [s \in Sessions |-> 0]
  /\ prompts = [s \in Sessions |-> 1]
  /\ faults = 0
  /\ crashes = 0

-----------------------------------------------------------------------------
(* The dispatcher.                                                          *)

\* As if the poll did not pass --reclaim-older-than-ms.
PollQueuedOnly(d, s) ==
  /\ pc[d] = "poll"
  /\ work[s] = "queued"
  /\ work' = [work EXCEPT ![s] = "offered"]
  /\ sess' = [sess EXCEPT ![d] = s]
  /\ Goto(d, "list")
  /\ UNCHANGED <<deleted, prompts, claims, podVars, victims, prev, sb, host, tries,
                 histVars, faults, crashes>>

\* work.poll() offers a queued item, or one offered long ago and never acked.
Poll(d, s) ==
  /\ pc[d] = "poll"
  /\ work[s] \in {"queued", "aged"}
  /\ work' = [work EXCEPT ![s] = "offered"]
  /\ sess' = [sess EXCEPT ![d] = s]
  /\ Goto(d, "list")
  /\ UNCHANGED <<deleted, prompts, claims, podVars, victims, prev, sb, host, tries,
                 histVars, faults, crashes>>

\* The claims reap_stale_claims lists: those labelled with the session.
Listed(s) == {c \in claims : c.sess = s}

List(d) ==
  /\ pc[d] = "list"
  /\ victims' = [victims EXCEPT ![d] = Listed(sess[d])]
  /\ Goto(d, "reap")
  /\ UNCHANGED <<planeVars, claims, podVars, sess, prev, sb, host, tries, histVars, faults,
                 crashes>>

\* The dispatch-count carried from the claims: max(prev, the label).
CountForgotten(m, n) == m
Higher(m, n) == IF m >= n THEN m ELSE n

\* As if the loop only counted the claims.
ReapKept(d, c) ==
  /\ pc[d] = "reap"
  /\ c \in victims[d] \intersect claims
  /\ victims' = [victims EXCEPT ![d] = @ \ {c}]
  /\ prev' = [prev EXCEPT ![d] = Higher(@, c.count)]
  /\ UNCHANGED <<planeVars, claims, podVars, pc, sess, sb, host, tries, histVars,
                 faults, crashes>>

\* One turn of the loop in reap_stale_claims: its DELETE.
Reap(d, c) ==
  /\ pc[d] = "reap"
  /\ c \in victims[d] \intersect claims
  /\ Release({c})
  /\ victims' = [[e \in Dispatchers |-> Dangling(victims[e], {c})]
                   EXCEPT ![d] = victims[d] \ {c}]
  /\ prev' = [prev EXCEPT ![d] = Higher(@, c.count)]
  /\ sb' = [e \in Dispatchers |-> IF sb[e] = c THEN None ELSE sb[e]]
  /\ UNCHANGED <<planeVars, pc, sess, host, tries, histVars, faults, crashes>>

\* Another dispatcher deleted the claim: 404 raises, and main's loop logs it.
ReapRaises(d) ==
  /\ pc[d] = "reap"
  /\ None \in victims[d]
  /\ Return(d)
  /\ UNCHANGED <<planeVars, claims, podVars, histVars, faults, crashes>>

\* As if the count were looked at before the claims are reaped.
StopUnreaped(d) ==
  /\ pc[d] = "reap"
  /\ \E c \in victims[d] \intersect claims : Exceeded(c.count + 1)
  /\ work' = [work EXCEPT ![sess[d]] = "stopped"]
  /\ Return(d)
  /\ UNCHANGED <<deleted, prompts, claims, podVars, histVars, faults, crashes>>

\* Too many dispatches: work.stop().
Stop(d) ==
  /\ pc[d] = "reap"
  /\ victims[d] = {}
  /\ Exceeded(prev[d] + 1)
  /\ work' = [work EXCEPT ![sess[d]] = "stopped"]
  /\ Return(d)
  /\ UNCHANGED <<deleted, prompts, claims, podVars, histVars, faults, crashes>>

\* create_sandbox() creates the labelled claim.
Create(d) ==
  /\ pc[d] = "reap"
  /\ victims[d] = {}
  /\ ~Exceeded(prev[d] + 1)
  /\ LET c == [sess |-> sess[d], count |-> prev[d] + 1, by |-> d] IN
       /\ claims' = claims \union {c}
       /\ sb' = [sb EXCEPT ![d] = c]
  /\ dispatches' = [dispatches EXCEPT ![sess[d]] = OneMore(@)]
  /\ unacked' = [unacked EXCEPT ![sess[d]] = OneMore(@)]
  /\ Goto(d, "ready")
  /\ UNCHANGED <<planeVars, podVars, sess, victims, prev, host, tries, faults, crashes>>

\* As if the address were that of any pod of the template that listens.
AddressByLabel(d, p) == given[p] = None
AddressOf(d, p) == sb[d] # None /\ bound[p] = sb[d]

\* create_sandbox() returns once a pod is bound; dispatch reads the pod's IP.
Ready(d, p) ==
  /\ pc[d] = "ready"
  /\ AddressOf(d, p)
  /\ host' = [host EXCEPT ![d] = p]
  /\ tries' = [tries EXCEPT ![d] = Attempts]
  /\ Goto(d, "post")
  /\ UNCHANGED <<planeVars, claims, podVars, sess, victims, prev, sb, histVars, faults,
                 crashes>>

\* The POST reaches an entrypoint that still listens.
Delivered(d) ==
  /\ pc[d] = "post" /\ tries[d] > 0
  /\ given[host[d]] = None
  /\ given' = [given EXCEPT ![host[d]] = sess[d]]

\* It is answered 202.
PostAccepted(d) ==
  /\ Delivered(d)
  /\ Return(d)
  /\ UNCHANGED <<planeVars, claims, bound, histVars, faults, crashes>>

\* The answer is lost: a retry follows.
PostAnswerLost(d) ==
  /\ Delivered(d)
  /\ Fault
  /\ tries' = [tries EXCEPT ![d] = @ - 1]
  /\ UNCHANGED <<planeVars, claims, bound, pc, sess, victims, prev, sb, host, histVars,
                 crashes>>

\* The pod's process has stopped listening (it execs ant after one POST), or the
\* pod is gone.
PostRefused(d) ==
  /\ pc[d] = "post" /\ tries[d] > 0
  /\ given[host[d]] # None \/ sb[d] = None
  /\ tries' = [tries EXCEPT ![d] = @ - 1]
  /\ UNCHANGED <<planeVars, claims, podVars, pc, sess, victims, prev, sb, host,
                 histVars, faults, crashes>>

\* The POST never arrives.
PostLost(d) ==
  /\ pc[d] = "post" /\ tries[d] > 0
  /\ Fault
  /\ tries' = [tries EXCEPT ![d] = @ - 1]
  /\ UNCHANGED <<planeVars, claims, podVars, pc, sess, victims, prev, sb, host,
                 histVars, crashes>>

\* The bound pod has no podIP, or reading it raises.
NoAddress(d) ==
  /\ pc[d] = "ready"
  /\ \E p \in Pods : AddressOf(d, p)
  /\ Fault
  /\ Goto(d, "terminate")
  /\ UNCHANGED <<planeVars, claims, podVars, localVars, histVars, crashes>>

\* post_with_retry raises the last error.
PostRaises(d) ==
  /\ pc[d] = "post" /\ tries[d] = 0
  /\ Goto(d, "terminate")
  /\ UNCHANGED <<planeVars, claims, podVars, localVars, histVars, faults, crashes>>

\* dispatch's except clause: sb.terminate() deletes the claim, and the error is
\* raised again to main's loop.
Terminate(d) ==
  /\ pc[d] = "terminate"
  /\ ReturnWithout(d)
  /\ UNCHANGED <<planeVars, histVars, faults, crashes>>

\* A call raises outside dispatch's try: the list, a delete, work.stop, the
\* creation, the wait for the pod, or sb.terminate() itself.
CallRaises(d) ==
  /\ pc[d] \in {"list", "reap", "ready", "terminate"}
  /\ Fault
  /\ Return(d)
  /\ UNCHANGED <<planeVars, claims, podVars, histVars, crashes>>

\* create_sandbox() gives up on the pod and takes its claim away again.
ReadyRaises(d) ==
  /\ pc[d] = "ready"
  /\ Fault
  /\ ReturnWithout(d)
  /\ UNCHANGED <<planeVars, histVars, crashes>>

\* The dispatcher's claim was deleted under it: create_sandbox times out.
ReadyTimeout(d) ==
  /\ pc[d] = "ready"
  /\ sb[d] = None
  /\ Return(d)
  /\ UNCHANGED <<planeVars, claims, podVars, histVars, faults, crashes>>

\* The dispatcher dies and its Deployment restarts it.
Crash(d) ==
  /\ pc[d] # "poll"
  /\ crashes < MaxCrashes
  /\ crashes' = crashes + 1
  /\ Return(d)
  /\ UNCHANGED <<planeVars, claims, podVars, histVars, faults>>

-----------------------------------------------------------------------------
(* Pods and the sandbox controller.                                         *)

\* The controller binds a waiting claim to an unbound pod.
Bind(c, p) ==
  /\ c \in claims
  /\ \A q \in Pods : bound[q] # c
  /\ bound[p] = None
  /\ bound' = [bound EXCEPT ![p] = c]
  /\ UNCHANGED <<planeVars, claims, given, pc, localVars, histVars, faults, crashes>>

\* `ant beta:worker run` acknowledges the item and works on the session.
Ack(p) ==
  /\ given[p] # None
  /\ given[p] \notin deleted
  /\ Offered(given[p])
  /\ work' = [work EXCEPT ![given[p]] = "acked"]
  /\ unacked' = [unacked EXCEPT ![given[p]] = 0]
  /\ UNCHANGED <<deleted, prompts, claims, podVars, pc, localVars, dispatches, faults,
                 crashes>>

\* It ends: the session idles, was deleted, or its item is not there to ack.  The
\* container restarts and listens again, its pod still bound to the claim.
WorkerExits(p) ==
  /\ given[p] # None
  /\ given[p] \in deleted \/ ~Offered(given[p])
  /\ given' = [given EXCEPT ![p] = None]
  /\ UNCHANGED <<planeVars, claims, bound, pc, localVars, histVars, faults, crashes>>

-----------------------------------------------------------------------------
(* The control plane and the user.                                          *)

\* An offered item is not acked for --reclaim-older-than-ms.
AgeOut(s) ==
  /\ work[s] = "offered"
  /\ work' = [work EXCEPT ![s] = "aged"]
  /\ UNCHANGED <<deleted, prompts, claims, podVars, pc, localVars, histVars, faults,
                 crashes>>

\* The user sends another prompt to a session no pod works on any more.
Prompt(s) ==
  /\ work[s] = "acked"
  /\ s \notin deleted
  /\ \A p \in Pods : given[p] # s
  /\ prompts[s] < MaxPrompts
  /\ prompts' = [prompts EXCEPT ![s] = @ + 1]
  /\ work' = [work EXCEPT ![s] = "queued"]
  /\ UNCHANGED <<deleted, claims, podVars, pc, localVars, histVars, faults, crashes>>

DeleteSession(s) ==
  /\ s \notin deleted
  /\ deleted' = deleted \union {s}
  /\ UNCHANGED <<work, prompts, claims, podVars, pc, localVars, histVars, faults,
                 crashes>>

DispatcherStep(d) ==
  \/ \E s \in Sessions : Poll(d, s)
  \/ List(d)
  \/ \E c \in victims[d] : Reap(d, c)
  \/ ReapRaises(d)
  \/ Stop(d)
  \/ Create(d)
  \/ \E p \in Pods : Ready(d, p)
  \/ PostAccepted(d) \/ PostAnswerLost(d) \/ PostRefused(d) \/ PostLost(d)
  \/ NoAddress(d) \/ PostRaises(d) \/ Terminate(d)
  \/ CallRaises(d) \/ ReadyRaises(d) \/ ReadyTimeout(d)

PodStep(p) ==
  \/ \E c \in claims : Bind(c, p)
  \/ Ack(p)
  \/ WorkerExits(p)

Next ==
  \/ \E d \in Dispatchers : DispatcherStep(d) \/ Crash(d)
  \/ \E p \in Pods : PodStep(p)
  \/ \E s \in Sessions : AgeOut(s) \/ Prompt(s) \/ DeleteSession(s)

Spec == Init /\ [][Next]_vars

(* The poll loop runs forever, bound pods run their entrypoint, the         *)
(* controller binds claims, and an item nobody acks ages.  Users, faults    *)
(* and crashes promise nothing.                                             *)
FairSpec ==
  /\ Spec
  /\ \A d \in Dispatchers : WF_vars(DispatcherStep(d))
  /\ \A d \in Dispatchers, s \in Sessions : SF_vars(Poll(d, s))
  /\ \A p \in Pods : WF_vars(PodStep(p))
  /\ \A s \in Sessions : WF_vars(AgeOut(s))

-----------------------------------------------------------------------------
(* Properties.                                                              *)

TypeOK ==
  /\ work \in [Sessions -> WorkStates]
  /\ deleted \subseteq Sessions
  /\ claims \subseteq Claims
  /\ bound \in [Pods -> claims \union {None}]
  /\ given \in [Pods -> Sessions \union {None}]
  /\ pc \in [Dispatchers -> Stages]
  /\ sess \in [Dispatchers -> Sessions \union {None}]
  /\ \A d \in Dispatchers : pc[d] # "poll" => sess[d] \in Sessions
  /\ victims \in [Dispatchers -> SUBSET (claims \union {None})]
  /\ prev \in [Dispatchers -> 0..MaxRedispatch]
  /\ sb \in [Dispatchers -> claims \union {None}]
  /\ host \in [Dispatchers -> Pods \union {None}]
  /\ \A d \in Dispatchers : pc[d] = "post" => host[d] \in Pods
  /\ tries \in [Dispatchers -> 0..Attempts]
  /\ dispatches \in [Sessions -> 0..(MaxRedispatch + 1)]
  /\ unacked \in [Sessions -> 0..(MaxRedispatch + 1)]
  /\ prompts \in [Sessions -> 1..MaxPrompts]
  /\ faults \in 0..MaxFaults
  /\ crashes \in 0..MaxCrashes

\* The Deployment asks for one dispatcher.
Alone == \A d, e \in Dispatchers : d = e

ClaimsOf(s) == {c \in claims : c.sess = s}

\* However many dispatchers overlap, and whatever fails, each leaves a session at
\* most one claim: what it finds of its own it reaps before it creates another.  (So
\* a claim's creator does stand for its generated name.)
OneClaimEach ==
  \A b, c \in claims : (b.sess = c.sess /\ b.by = c.by) => b = c

\* With one dispatcher a session never holds two claims.
OneClaim == Alone => \A s \in Sessions : \A b, c \in ClaimsOf(s) : b = c

\* With one dispatcher a pod works only for the session whose claim binds it: the
\* address read after create_sandbox is still that pod's at each POST attempt.
RightPod ==
  Alone =>
    \A p \in Pods : given[p] # None => bound[p] # None /\ bound[p].sess = given[p]

\* A work item is stopped only after MaxRedispatch sandboxes were created for its
\* session, however many dispatchers, faults and crashes there are.
StopOnlyAfterMax ==
  \A s \in Sessions : work[s] = "stopped" => dispatches[s] >= MaxRedispatch

\* With one dispatcher a stopped item leaves no claim, hence no pod, behind.
StopFreesPods ==
  Alone => \A s \in Sessions : work[s] = "stopped" => ClaimsOf(s) = {}

\* As long as no call fails and the one dispatcher does not die, a session gets at
\* most MaxRedispatch sandboxes: the count survives from claim to claim.
CleanAttemptsBounded ==
  (Alone /\ faults = 0 /\ crashes = 0) =>
    \A s \in Sessions : dispatches[s] <= MaxRedispatch

\* dispatcher/main.py:95 "Stop zombie work items (deleted sessions keep getting
\* re-offered)": an item is stopped after MaxRedispatch dispatches nobody acked.
StopsOnlyZombies ==
  \A s \in Sessions : work[s] = "stopped" => unacked[s] >= MaxRedispatch

\* The item of a session deleted before it is acknowledged is stopped in the
\* end, although the control plane offers it again and again.
ZombieStopped ==
  \A s \in Sessions :
    (s \in deleted /\ work[s] # "acked") ~> work[s] = "stopped"

\* Once faults and crashes are over, a queued item is acknowledged by a pod or
\* stopped: no failed dispatch makes the loop forget it.
Served == \A s \in Sessions : work[s] = "queued" ~> work[s] \in {"acked", "stopped"}

\* The lone dispatcher implements SandboxLease: a sandbox is a claim with the pod
\* bound to it, and a pod works from the POST it accepts to the exit of its worker.
Leases ==
  INSTANCE SandboxLease WITH
    live <- {s \in Sessions : ClaimsOf(s) # {}},
    made <- dispatches,
    lease <- [p \in Pods |-> IF bound[p] = None THEN None ELSE bound[p].sess],
    running <- given,
    stopped <- {s \in Sessions : work[s] = "stopped"}

LeaseSpec == Leases!Spec

-----------------------------------------------------------------------------
(* The inductive invariant behind the theorems of SandboxDispatchProofs.    *)

\* A count, on a claim or carried from one claim to the next, never exceeds the
\* number of sandboxes made for the session.
CountsEarned ==
  /\ \A c \in claims : c.count <= dispatches[c.sess]
  /\ \A d \in Dispatchers :
       IF pc[d] = "poll" THEN prev[d] = 0 ELSE prev[d] <= dispatches[sess[d]]

\* What a dispatcher holds is about the session it is dispatching, and no two hold
\* the same claim as their own.
OwnSession ==
  \A d \in Dispatchers :
    /\ pc[d] = "poll" => sess[d] = None
    /\ \A c \in victims[d] \ {None} : c.sess = sess[d]
    /\ sb[d] # None => sb[d].sess = sess[d] /\ sb[d].by = d

\* A dispatcher that reaps has listed every claim of its own that the session has.
OwnListed ==
  \A d \in Dispatchers :
    pc[d] = "reap" =>
      \A c \in claims : (c.sess = sess[d] /\ c.by = d) => c \in victims[d]

\* The lone dispatcher reaps every claim of the session before it creates one,
\* posts to the pod of its own claim, and is through with a stopped item.
LoneDispatcher ==
  /\ \A d \in Dispatchers :
       /\ pc[d] = "reap" => ClaimsOf(sess[d]) \subseteq victims[d]
       /\ pc[d] = "post" => sb[d] # None /\ bound[host[d]] = sb[d]
       /\ sess[d] # None => work[sess[d]] # "stopped"

IInv ==
  /\ TypeOK /\ CountsEarned /\ OwnSession /\ StopOnlyAfterMax
  /\ OneClaimEach /\ OwnListed
  /\ OneClaim /\ RightPod /\ StopFreesPods
  /\ Alone => LoneDispatcher
=============================================================================
