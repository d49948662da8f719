----------------------------- MODULE MobileSync -----------------------------
(***************************************************************************)
(* The offline queue of the mobile app.  What a member does without a      *)
(* network is queued on the device (action-queue.ts, MMKV storage), and    *)
(* processQueue posts it when the app becomes active or the network comes  *)
(* back.  Nothing keeps one run of processQueue from another: the app and  *)
(* every mounted screen start their own.                                   *)
(*                                                                         *)
(* Actions are numbered in the order in which they are queued.  Storage is *)
(* synchronous, so each reading and rewriting of the queue is one step; a  *)
(* run yields where it awaits a post or sleeps.                            *)
(***************************************************************************)
EXTENDS Integers, FiniteSets, FiniteSetsExt

CONSTANTS
    MaxActions, \* bound: actions that the member queues
    Ballots,    \* those that are the member's ballots on one proposal
    Runs,       \* runs of processQueue that can be under way at one time
    MaxRetries, \* MAX_RETRIES of sync-engine.ts
    MaxCrashes  \* bound: times that the app is stopped

Actions == 1..MaxActions

ASSUME BoundsAssumption == MaxActions \in Nat /\ MaxCrashes \in Nat
ASSUME RetriesAssumption == MaxRetries \in Nat \ {0}
ASSUME BallotsAssumption == Ballots \subseteq Actions
ASSUME RunsAssumption == IsFiniteSet(Runs)

VARIABLES
    queued,    \* number of actions queued so far
    queue,     \* the stored queue
    attempts,  \* attemptCount of each action
    failed,    \* those marked as failed
    run,       \* runs in progress: what each still has to post
    late,      \* requests under way that the app has given up
    effects,   \* times that the backend carried out an action
    voted,     \* the member has a ballot on the proposal
    crashes

device == <<queue, attempts, failed>>
backend == <<effects, voted>>
vars == <<queued, queue, attempts, failed, run, late, effects, voted, crashes>>

Idle == [pc |-> "idle"]
Busy == [pc : {"post"}, todo : SUBSET Actions]
        \cup [pc : {"wait"}, todo : SUBSET Actions, done : BOOLEAN]

(* Each run adds at most one attempt after another run has marked the action. *)
TypeOK ==
    /\ queued \in 0..MaxActions
    /\ queue \in SUBSET (1..queued)
    /\ attempts \in [Actions -> 0..(MaxRetries + Cardinality(Runs) - 1)]
    /\ failed \in SUBSET queue
    /\ run \in [Runs -> Busy \cup {Idle}]
    /\ \A r \in Runs : run[r] # Idle => run[r].todo # {}
    /\ late \in [Actions -> Nat]
    /\ effects \in [Actions -> Nat]
    /\ voted \in BOOLEAN
    /\ crashes \in 0..MaxCrashes

Init ==
    /\ queued = 0
    /\ queue = {}
    /\ attempts = [a \in Actions |-> 0]
    /\ failed = {}
    /\ run = [r \in Runs |-> Idle]
    /\ late = [a \in Actions |-> 0]
    /\ effects = [a \in Actions |-> 0]
    /\ voted = FALSE
    /\ crashes = 0

-----------------------------------------------------------------------------
(* The member.  The network comes and goes at any time, so that each step finds
   it as it happens to be and no variable records it. *)

(* A screen that is offline queues the member's action. *)
Enqueue ==
    /\ queued < MaxActions
    /\ queued' = queued + 1
    /\ queue' = queue \cup {queued + 1}
    /\ UNCHANGED <<attempts, failed, run, late, backend, crashes>>

(* A screen that is online posts at once, past the queue. *)
VoteOnline ==
    /\ ~voted
    /\ voted' = TRUE
    /\ UNCHANGED <<queued, device, run, late, effects, crashes>>

-----------------------------------------------------------------------------
(* processQueue. *)

(* A new run lists what has not failed. *)
StartRun(r) ==
    LET pending == queue \ failed
    IN  /\ run[r] = Idle
        /\ pending # {}
        /\ run' = [run EXCEPT ![r] = [pc |-> "post", todo |-> pending]]
        /\ UNCHANGED <<queued, device, late, backend, crashes>>

(* The runs go through their lists in the order of the queue. *)
Current(r) == Min(run[r].todo)

Proceed(r, todo) ==
    run' = [run EXCEPT ![r] = IF todo = {} THEN Idle ELSE [pc |-> "post", todo |-> todo]]

(* The post, whether the action is still queued or not. *)
Post(r) ==
    /\ run[r].pc = "post"
    /\ run' = [run EXCEPT ![r] = [pc |-> "wait", todo |-> run[r].todo, done |-> FALSE]]
    /\ UNCHANGED <<queued, device, late, backend, crashes>>

(* The backend takes no notice of the Idempotency-Key.  A second ballot on a
   proposal is refused (Vote is unique); anything else is carried out again. *)
CarryOut(a) ==
    /\ a \in Ballots => ~voted
    /\ effects' = [effects EXCEPT ![a] = @ + 1]
    /\ voted' = (voted \/ a \in Ballots)

Serve(r) ==
    /\ run[r].pc = "wait" /\ ~run[r].done
    /\ CarryOut(Current(r))
    /\ run' = [run EXCEPT ![r].done = TRUE]
    /\ UNCHANGED <<queued, device, late, crashes>>

(* A request that the app no longer waits for. *)
ServeLate(a) ==
    /\ late[a] > 0
    /\ late' = [late EXCEPT ![a] = @ - 1]
    /\ CarryOut(a) \/ UNCHANGED backend
    /\ UNCHANGED <<queued, device, run, crashes>>

(* Mutant of Delivered: the list that the run began with, without the action,
   is written back. *)
DeliveredStale(r) ==
    LET a == Current(r)
    IN  /\ run[r].pc = "wait" /\ run[r].done
        /\ queue' = (run[r].todo \cup failed) \ {a}
        /\ failed' = failed \ {a}
        /\ Proceed(r, run[r].todo \ {a})
        /\ UNCHANGED <<queued, attempts, late, backend, crashes>>

(* The success has come: the action leaves the queue. *)
Delivered(r) ==
    LET a == Current(r)
    IN  /\ run[r].pc = "wait" /\ run[r].done
        /\ queue' = queue \ {a}
        /\ failed' = failed \ {a}
        /\ Proceed(r, run[r].todo \ {a})
        /\ UNCHANGED <<queued, attempts, late, backend, crashes>>

(* The post has thrown: there is no network, the backend refused, the reply was
   lost, or the request timed out and is still under way. *)
Throws(r) ==
    \/ run[r].pc \in {"post", "wait"} /\ UNCHANGED late
    \/ /\ run[r].pc = "wait" /\ ~run[r].done
       /\ late' = [late EXCEPT ![Current(r)] = @ + 1]

(* Mutant of Failed: the attempt is not counted. *)
FailedUncounted(r) ==
    /\ Throws(r)
    /\ Proceed(r, run[r].todo)
    /\ UNCHANGED <<queued, device, backend, crashes>>

(* Mutant of Failed: the run goes on with the next action. *)
FailedMovesOn(r) ==
    LET a == Current(r)
    IN  /\ Throws(r)
        /\ attempts' = [attempts EXCEPT ![a] = IF a \in queue THEN @ + 1 ELSE @]
        /\ failed' = IF a \in queue /\ attempts'[a] >= MaxRetries THEN failed \cup {a} ELSE failed
        /\ Proceed(r, run[r].todo \ {a})
        /\ UNCHANGED <<queued, queue, backend, crashes>>

(* Mutant of Failed: no number of attempts is enough. *)
FailedForever(r) ==
    LET a == Current(r)
    IN  /\ Throws(r)
        /\ attempts' = [attempts EXCEPT ![a] = IF a \in queue THEN @ + 1 ELSE @]
        /\ Proceed(r, IF a \in queue THEN run[r].todo ELSE run[r].todo \ {a})
        /\ UNCHANGED <<queued, queue, failed, backend, crashes>>

(* The attempt is counted in the stored queue.  The run sleeps and posts again,
   unless the action has left the queue or was tried often enough. *)
Failed(r) ==
    LET a == Current(r)
        count == attempts[a] + 1
    IN  /\ Throws(r)
        /\ \/ /\ a \in queue /\ count < MaxRetries
              /\ attempts' = [attempts EXCEPT ![a] = count]
              /\ Proceed(r, run[r].todo)
              /\ UNCHANGED failed
           \/ /\ a \in queue /\ count >= MaxRetries
              /\ attempts' = [attempts EXCEPT ![a] = count]
              /\ failed' = failed \cup {a}
              /\ Proceed(r, run[r].todo \ {a})
           \/ /\ a \notin queue
              /\ Proceed(r, run[r].todo \ {a})
              /\ UNCHANGED <<attempts, failed>>
        /\ UNCHANGED <<queued, queue, backend, crashes>>

(* The app is stopped; the queue is stored, the runs are not. *)
Crash ==
    /\ crashes < MaxCrashes
    /\ crashes' = crashes + 1
    /\ late' = [a \in Actions |-> late[a] + Cardinality({r \in Runs :
                   run[r].pc = "wait" /\ ~run[r].done /\ Current(r) = a})]
    /\ run' = [r \in Runs |-> Idle]
    /\ UNCHANGED <<queued, device, backend>>

RunStep(r) == Post(r) \/ Delivered(r) \/ Failed(r)

Next ==
    \/ Enqueue \/ VoteOnline \/ Crash
    \/ \E r \in Runs : StartRun(r) \/ RunStep(r) \/ Serve(r)
    \/ \E a \in Actions : ServeLate(a)

Spec == Init /\ [][Next]_vars

(* The member comes back to the app now and then, and a run goes on: fetch ends
   by its own time-out.  Nothing is assumed of the network or the backend. *)
FairSpec ==
    /\ Spec
    /\ WF_vars(\E r \in Runs : StartRun(r))
    /\ \A r \in Runs : WF_vars(RunStep(r))

-----------------------------------------------------------------------------
(* No action is dropped: one that has left the queue was carried out, although
   actions are queued and removed by others while a run awaits its posts. *)
NothingDropped == \A a \in 1..queued : a \in queue \/ effects[a] > 0

(* Although the backend knows no idempotency key, what a member queued once is
   carried out a bounded number of times: for each attempt counted as an error,
   and once more in each of the runs that the app or the action's delivery cut
   short. *)
EffectsAreCounted ==
    \A a \in Actions :
        effects[a] + late[a] <= attempts[a] + Cardinality(Runs) * (crashes + 1)

(* Of two ballots that a member queued for one proposal the earlier counts; the
   later one does only after the earlier was given up. *)
EarlierBallotFirst ==
    \A first, second \in Ballots :
        first < second /\ effects[second] > 0 => first \in failed

(* Every queued action is delivered or marked as failed, with no network as
   with a bad one, whatever runs overlap and although the app is stopped. *)
EventuallySettled ==
    \A a \in Actions : a \in queue \ failed ~> a \notin queue \ failed
=============================================================================
