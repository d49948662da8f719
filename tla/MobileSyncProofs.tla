-------------------------- MODULE MobileSyncProofs --------------------------
(* What holds of MobileSync for every value of the constants. *)
EXTENDS MobileSync, Induction

-----------------------------------------------------------------------------
(* The next action of a list, and counts of runs. *)

LEMMA MinIsFirst ==
    ASSUME NEW todo \in SUBSET Actions, todo # {}
    PROVE  Min(todo) \in todo /\ \A a \in todo : Min(todo) <= a
  <1>1. \E m \in todo : \A a \in todo : m <= a
    BY LeastExists, BoundsAssumption DEF Actions
  <1>2. QED
    BY <1>1 DEF Min

(* Two sets of runs that differ in one run at most. *)
LEMMA CountChange ==
    ASSUME NEW S \in SUBSET Runs, NEW T \in SUBSET Runs, NEW r \in Runs,
           \A q \in Runs \ {r} : q \in S => q \in T
    PROVE  /\ Cardinality(S) \in Nat /\ Cardinality(T) \in Nat
           /\ Cardinality(S) <= Cardinality(T) + 1
           /\ (r \in S => r \in T) => Cardinality(S) <= Cardinality(T)
           /\ r \notin S /\ r \in T => Cardinality(S) + 1 <= Cardinality(T)
  <1>1. IsFiniteSet(S) /\ IsFiniteSet(T)
    BY RunsAssumption, FS_Subset
  <1>2. Cardinality(S) \in Nat /\ Cardinality(T) \in Nat
    BY <1>1, FS_CardinalityType
  <1>3. S \ {r} \subseteq T \ {r}
    OBVIOUS
  <1>4. /\ IsFiniteSet(S \ {r}) /\ IsFiniteSet(T \ {r})
        /\ Cardinality(S \ {r}) = IF r \in S THEN Cardinality(S) - 1 ELSE Cardinality(S)
        /\ Cardinality(T \ {r}) = IF r \in T THEN Cardinality(T) - 1 ELSE Cardinality(T)
    BY <1>1, FS_RemoveElement
  <1>5. Cardinality(S \ {r}) <= Cardinality(T \ {r})
    BY <1>3, <1>4, FS_Subset
  <1>6. QED
    BY <1>2, <1>4, <1>5

LEMMA CountBound ==
    ASSUME NEW S \in SUBSET Runs
    PROVE  /\ Cardinality(S) \in Nat /\ Cardinality(Runs) \in Nat
           /\ Cardinality(S) <= Cardinality(Runs)
           /\ \A r \in Runs \ S : Cardinality(S) + 1 <= Cardinality(Runs)
  <1>1. /\ IsFiniteSet(S) /\ Cardinality(S) \in Nat /\ Cardinality(Runs) \in Nat
        /\ Cardinality(S) <= Cardinality(Runs)
    BY RunsAssumption, FS_Subset, FS_CardinalityType
  <1>2. ASSUME NEW r \in Runs \ S PROVE Cardinality(S) + 1 <= Cardinality(Runs)
    BY <1>1, <1>2, CountChange
  <1>3. QED
    BY <1>1, <1>2

-----------------------------------------------------------------------------
(* What a run has in its list, and waits for. *)

Has(s, a) == s.pc # "idle" /\ a \in s.todo
Waits(s, a) == s.pc = "wait" /\ Min(s.todo) = a
Answered(s, a) == Waits(s, a) /\ s.done = TRUE
Open(s, a) == Waits(s, a) /\ ~s.done

Undone(a) == {r \in Runs : Open(run[r], a)}
Trying(a) == {r \in Runs : Has(run[r], a)}
Spent(a) == {r \in Runs : Waits(run[r], a) \/ (a \notin queue /\ ~Has(run[r], a))}

(* A list holds actions that were queued; a post that has succeeded was carried
   out; and nothing is known of an action before it is queued. *)
ListInv ==
    /\ \A r \in Runs, a \in Actions :
          /\ Has(run[r], a) => a <= queued
          /\ Answered(run[r], a) => effects[a] > 0
    /\ \A a \in Actions : a > queued => attempts[a] = 0 /\ effects[a] = 0 /\ late[a] = 0

(* Once an action is marked, no run takes it up, and each that has it in its list
   adds at most one attempt. *)
AttemptInv ==
    \A a \in Actions :
        /\ a \in queue \ failed => attempts[a] < MaxRetries
        /\ a \in failed =>
              attempts[a] + Cardinality(Trying(a)) <= MaxRetries + Cardinality(Runs) - 1

(* What has been or may still be carried out, and is not counted as an attempt,
   is that of a run which waits for the action or is done with it (Spent), or
   which a crash cut short. *)
CountInv ==
    \A a \in Actions :
        effects[a] + late[a] + Cardinality(Undone(a))
            <= attempts[a] + Cardinality(Runs) * crashes + Cardinality(Spent(a))

(* One of the member's ballots is carried out. *)
VotedInv ==
    /\ \A b \in Ballots : effects[b] > 0 => voted = TRUE
    /\ \A b, c \in Ballots : effects[b] > 0 /\ effects[c] > 0 => b = c

(* A later ballot is past an earlier one only after that was given up, or when
   it is too late for both. *)
PassInv ==
    \A first, second \in Ballots : first < second =>
        /\ late[second] > 0 => voted = TRUE \/ first \in failed
        /\ \A r \in Runs : Has(run[r], second) /\ ~Has(run[r], first) =>
                              voted = TRUE \/ first \in failed

-----------------------------------------------------------------------------
(* What each step of a run does. *)

Entry == Busy \cup {Idle}

Changes(r, next) ==
    /\ run' = [run EXCEPT ![r] = next]
    /\ next \in Entry /\ (next # Idle => next.todo # {})

LEMMA IdleEntry == \A a : ~Has(Idle, a) /\ ~Waits(Idle, a)
  BY DEF Has, Waits, Idle

LEMMA PostEntry ==
    ASSUME NEW todo \in SUBSET Actions, todo # {}
    PROVE  \E next \in Entry :
              /\ next = [pc |-> "post", todo |-> todo] /\ next.todo # {}
              /\ \A a : ~Waits(next, a) /\ (Has(next, a) <=> a \in todo)
  <1> DEFINE next == [pc |-> "post", todo |-> todo]
  <1>1. next \in Entry /\ next.pc = "post" /\ next.todo = todo
    BY DEF Entry, Busy
  <1> HIDE DEF next
  <1>2. \A a : ~Waits(next, a) /\ (Has(next, a) <=> a \in todo)
    BY <1>1 DEF Waits, Has
  <1>3. QED
    BY <1>1, <1>2 DEF next

LEMMA WaitEntry ==
    ASSUME NEW todo \in SUBSET Actions, todo # {}, NEW done \in BOOLEAN
    PROVE  \E next \in Entry :
              /\ next = [pc |-> "wait", todo |-> todo, done |-> done] /\ next.todo # {}
              /\ next.done = done
              /\ \A a : (Waits(next, a) <=> a = Min(todo)) /\ (Has(next, a) <=> a \in todo)
  <1> DEFINE next == [pc |-> "wait", todo |-> todo, done |-> done]
  <1>1. next \in Entry /\ next.pc = "wait" /\ next.todo = todo /\ next.done = done
    BY DEF Entry, Busy
  <1> HIDE DEF next
  <1>2. \A a : (Waits(next, a) <=> a = Min(todo)) /\ (Has(next, a) <=> a \in todo)
    BY <1>1 DEF Waits, Has
  <1>3. QED
    BY <1>1, <1>2 DEF next

(* A run under way is at the first action of its list. *)
LEMMA RunCases ==
    ASSUME TypeOK, NEW r \in Runs, run[r].pc \in {"post", "wait"}
    PROVE  \E todo \in SUBSET Actions, a \in Actions :
              /\ run[r].todo = todo /\ todo # {} /\ a \in todo
              /\ a = Current(r) /\ a = Min(todo)
              /\ \A b : Has(run[r], b) <=> b \in todo
              /\ \A b : Waits(run[r], b) <=> (run[r].pc = "wait" /\ b = a)
              /\ run[r].pc = "wait" => run[r].done \in BOOLEAN
  <1>1. run[r] \in Busy /\ run[r] # Idle
    BY DEF TypeOK, Idle
  <1>2. run[r].todo # {}
    BY <1>1 DEF TypeOK
  <1>3. PICK todo \in SUBSET Actions : todo = run[r].todo
    BY <1>1 DEF Busy
  <1>4. Min(todo) \in todo
    BY <1>2, <1>3, MinIsFirst
  <1>5. run[r].pc = "wait" => run[r].done \in BOOLEAN
    BY <1>1 DEF Busy
  <1>6. QED
    BY <1>2, <1>3, <1>4, <1>5 DEF Current, Has, Waits

LEMMA ProceedEffect ==
    ASSUME TypeOK, NEW r \in Runs, NEW todo \in SUBSET Actions, Proceed(r, todo)
    PROVE  \E next \in Entry :
              /\ Changes(r, next)
              /\ \A b : ~Waits(next, b) /\ (Has(next, b) <=> b \in todo)
  <1>1. CASE todo = {}
    BY <1>1, IdleEntry DEF Proceed, Changes, Entry
  <1>2. CASE todo # {}
    <2>1. PICK next \in Entry :
              /\ next = [pc |-> "post", todo |-> todo] /\ next.todo # {}
              /\ \A a : ~Waits(next, a) /\ (Has(next, a) <=> a \in todo)
      BY <1>2, PostEntry
    <2>2. QED
      BY <1>2, <2>1 DEF Proceed, Changes
  <1>3. QED
    BY <1>1, <1>2

LEMMA QueueType == TypeOK => queue \subseteq Actions /\ failed \subseteq queue
  BY BoundsAssumption DEF TypeOK, Actions

LEMMA StartEffect ==
    ASSUME TypeOK, NEW r \in Runs, StartRun(r)
    PROVE  /\ run[r] = Idle
           /\ \E next \in Entry :
                 /\ Changes(r, next)
                 /\ \A b : ~Waits(next, b) /\ (Has(next, b) <=> b \in queue \ failed)
           /\ UNCHANGED <<queued, queue, attempts, failed, late, effects, voted, crashes>>
  <1>1. PICK pending \in SUBSET Actions : pending = queue \ failed
    <2>1. queue \subseteq Actions
      BY QueueType
    <2>2. QED
      BY <2>1
  <1>2. run[r] = Idle /\ pending # {} /\ run' = [run EXCEPT ![r] = [pc |-> "post", todo |-> pending]]
    BY <1>1 DEF StartRun
  <1>3. PICK next \in Entry :
              /\ next = [pc |-> "post", todo |-> pending] /\ next.todo # {}
              /\ \A a : ~Waits(next, a) /\ (Has(next, a) <=> a \in pending)
    BY <1>2, PostEntry
  <1>4. QED
    BY <1>1, <1>2, <1>3 DEF StartRun, Changes, device, backend

LEMMA PostEffect ==
    ASSUME TypeOK, NEW r \in Runs, Post(r)
    PROVE  /\ \E a \in Actions, next \in Entry :
                 /\ Has(run[r], a) /\ Changes(r, next)
                 /\ \A b : /\ ~Waits(run[r], b) /\ (Waits(next, b) <=> b = a)
                           /\ ~Answered(next, b)
                           /\ Has(next, b) <=> Has(run[r], b)
           /\ UNCHANGED <<queued, queue, attempts, failed, late, effects, voted, crashes>>
  <1>1. run[r].pc = "post"
    BY DEF Post
  <1>2. PICK todo \in SUBSET Actions, a \in Actions :
              /\ run[r].todo = todo /\ todo # {} /\ a \in todo
              /\ a = Min(todo)
              /\ \A b : Has(run[r], b) <=> b \in todo
              /\ \A b : Waits(run[r], b) <=> (run[r].pc = "wait" /\ b = a)
    BY <1>1, RunCases
  <1>3. PICK next \in Entry :
              /\ next = [pc |-> "wait", todo |-> todo, done |-> FALSE] /\ next.todo # {}
              /\ next.done = FALSE
              /\ \A b : (Waits(next, b) <=> b = Min(todo)) /\ (Has(next, b) <=> b \in todo)
    BY <1>2, WaitEntry
  <1>4. Changes(r, next)
    BY <1>2, <1>3 DEF Post, Changes
  <1>5. Has(run[r], a)
    BY <1>2
  <1>6. \A b : /\ ~Waits(run[r], b) /\ (Waits(next, b) <=> b = a)
               /\ Has(next, b) <=> Has(run[r], b)
    BY <1>1, <1>2, <1>3
  <1>7. UNCHANGED <<queued, queue, attempts, failed, late, effects, voted, crashes>>
    BY DEF Post, device, backend
  <1>8. \A b : ~Answered(next, b)
    BY <1>3 DEF Answered
  <1>9. QED
    BY <1>4, <1>5, <1>6, <1>7, <1>8

(* An action that is carried out. *)
Counted(a) ==
    /\ effects' = [effects EXCEPT ![a] = @ + 1]
    /\ a \in Ballots => voted = FALSE /\ voted' = TRUE
    /\ voted = TRUE => voted' = TRUE
    /\ voted' \in BOOLEAN

LEMMA CarryOutEffect ==
    ASSUME TypeOK, NEW a \in Actions, CarryOut(a)
    PROVE  Counted(a)
  <1>1. voted \in BOOLEAN
    BY DEF TypeOK
  <1>2. (a \in Ballots => voted = FALSE) /\ voted' = (voted \/ a \in Ballots)
    BY <1>1, Zenon DEF CarryOut
  <1>3. /\ a \in Ballots => voted' = TRUE
        /\ voted = TRUE => voted' = TRUE
        /\ voted' \in BOOLEAN
    BY <1>2, Zenon
  <1>4. QED
    BY <1>2, <1>3 DEF CarryOut, Counted

LEMMA ServeEffect ==
    ASSUME TypeOK, NEW r \in Runs, Serve(r)
    PROVE  /\ \E a \in Actions, next \in Entry :
                 /\ Open(run[r], a) /\ Has(run[r], a) /\ Changes(r, next) /\ Counted(a)
                 /\ \A b : /\ (Waits(run[r], b) <=> b = a) /\ (Waits(next, b) <=> b = a)
                           /\ ~Open(next, b)
                           /\ Has(next, b) <=> Has(run[r], b)
           /\ UNCHANGED <<queued, queue, attempts, failed, late, crashes>>
  <1>1. run[r].pc = "wait" /\ ~run[r].done
    BY DEF Serve
  <1>2. PICK todo \in SUBSET Actions, a \in Actions :
              /\ run[r].todo = todo /\ todo # {} /\ a \in todo
              /\ a = Current(r) /\ a = Min(todo)
              /\ \A b : Has(run[r], b) <=> b \in todo
              /\ \A b : Waits(run[r], b) <=> (run[r].pc = "wait" /\ b = a)
    BY <1>1, RunCases
  <1>y. PICK yes \in BOOLEAN : yes = TRUE
    OBVIOUS
  <1>3. PICK next \in Entry :
              /\ next = [pc |-> "wait", todo |-> todo, done |-> yes] /\ next.todo # {}
              /\ next.done = yes
              /\ \A b : (Waits(next, b) <=> b = Min(todo)) /\ (Has(next, b) <=> b \in todo)
    BY <1>2, WaitEntry
  <1>4. run[r] \in [pc : {"wait"}, todo : SUBSET Actions, done : BOOLEAN]
    BY <1>1 DEF TypeOK, Busy, Idle
  <1>5. [run[r] EXCEPT !.done = yes] = next
    <2>1. \A s \in [pc : {"wait"}, todo : SUBSET Actions, done : BOOLEAN] :
             [s EXCEPT !.done = yes] = [pc |-> "wait", todo |-> s.todo, done |-> yes]
      OBVIOUS
    <2>2. QED
      BY <1>2, <1>3, <1>4, <2>1
  <1>6. Changes(r, next)
    <2>1. run' = [run EXCEPT ![r].done = yes]
      BY <1>y DEF Serve
    <2>2. run' = [run EXCEPT ![r] = [run[r] EXCEPT !.done = yes]]
      BY <2>1 DEF TypeOK
    <2>3. QED
      BY <1>3, <1>5, <2>2 DEF Changes
  <1>7. Counted(a)
    BY <1>2, CarryOutEffect DEF Serve
  <1>8. Waits(run[r], a)
    BY <1>1, <1>2
  <1>9. Open(run[r], a)
    BY <1>1, <1>8 DEF Open
  <1>10. \A b : /\ (Waits(run[r], b) <=> b = a) /\ (Waits(next, b) <=> b = a)
                /\ Has(next, b) <=> Has(run[r], b)
    BY <1>1, <1>2, <1>3
  <1>11. \A b : ~Open(next, b)
    BY <1>3, <1>y DEF Open
  <1>12. UNCHANGED <<queued, queue, attempts, failed, late, crashes>>
    BY DEF Serve, device
  <1>13. Has(run[r], a)
    BY <1>2
  <1>14. QED
    BY <1>6, <1>7, <1>9, <1>10, <1>11, <1>12, <1>13

LEMMA DeliveredEffect ==
    ASSUME TypeOK, NEW r \in Runs, Delivered(r)
    PROVE  /\ \E a \in Actions, next \in Entry :
                 /\ Answered(run[r], a) /\ Has(run[r], a) /\ Changes(r, next)
                 /\ queue' = queue \ {a} /\ failed' = failed \ {a}
                 /\ \A b : /\ ~Waits(next, b) /\ ~Open(run[r], b)
                           /\ Waits(run[r], b) <=> b = a
                           /\ Has(next, b) <=> Has(run[r], b) /\ b # a
           /\ UNCHANGED <<queued, attempts, late, effects, voted, crashes>>
  <1>1. run[r].pc = "wait" /\ run[r].done
    BY DEF Delivered
  <1>2. PICK todo \in SUBSET Actions, a \in Actions :
              /\ run[r].todo = todo /\ todo # {} /\ a \in todo
              /\ a = Current(r) /\ a = Min(todo)
              /\ \A b : Has(run[r], b) <=> b \in todo
              /\ \A b : Waits(run[r], b) <=> (run[r].pc = "wait" /\ b = a)
              /\ run[r].done \in BOOLEAN
    BY <1>1, RunCases
  <1>3. Proceed(r, todo \ {a}) /\ queue' = queue \ {a} /\ failed' = failed \ {a}
    BY <1>2 DEF Delivered
  <1>4. PICK next \in Entry :
              /\ Changes(r, next)
              /\ \A b : ~Waits(next, b) /\ (Has(next, b) <=> b \in todo \ {a})
    BY <1>3, ProceedEffect
  <1>5. Waits(run[r], a) /\ Has(run[r], a)
    BY <1>1, <1>2
  <1>6. Answered(run[r], a) /\ \A b : ~Open(run[r], b)
    BY <1>1, <1>2, <1>5, Zenon DEF Answered, Open
  <1>7. \A b : /\ ~Waits(next, b)
               /\ Waits(run[r], b) <=> b = a
               /\ Has(next, b) <=> Has(run[r], b) /\ b # a
    BY <1>1, <1>2, <1>4
  <1>8. UNCHANGED <<queued, attempts, late, effects, voted, crashes>>
    BY DEF Delivered, backend
  <1>9. QED
    BY <1>3, <1>4, <1>5, <1>6, <1>7, <1>8

(* A post that has thrown: it may be under way still. *)
Thrown(s, a) ==
    \/ UNCHANGED late
    \/ Open(s, a) /\ late' = [late EXCEPT ![a] = @ + 1]

(* The three ways to go on. *)
Retried(a) ==
    /\ a \in queue /\ attempts[a] + 1 < MaxRetries
    /\ attempts' = [attempts EXCEPT ![a] = @ + 1] /\ UNCHANGED failed
GivenUp(a) ==
    /\ a \in queue /\ attempts[a] + 1 >= MaxRetries
    /\ attempts' = [attempts EXCEPT ![a] = @ + 1] /\ failed' = failed \cup {a}
Gone(a) == a \notin queue /\ UNCHANGED <<attempts, failed>>

LEMMA FailedEffect ==
    ASSUME TypeOK, NEW r \in Runs, Failed(r)
    PROVE  /\ \E a \in Actions, next \in Entry :
                 /\ Has(run[r], a) /\ Changes(r, next) /\ Thrown(run[r], a)
                 /\ \/ Retried(a) /\ \A b : Has(next, b) <=> Has(run[r], b)
                    \/ /\ GivenUp(a) \/ Gone(a)
                       /\ \A b : Has(next, b) <=> Has(run[r], b) /\ b # a
                 /\ \A b : ~Waits(next, b) /\ (Waits(run[r], b) => b = a)
           /\ UNCHANGED <<queued, queue, effects, voted, crashes>>
  <1>1. run[r].pc \in {"post", "wait"} /\ Throws(r)
    BY DEF Failed, Throws
  <1>2. PICK todo \in SUBSET Actions, a \in Actions :
              /\ run[r].todo = todo /\ todo # {} /\ a \in todo
              /\ a = Current(r) /\ a = Min(todo)
              /\ \A b : Has(run[r], b) <=> b \in todo
              /\ \A b : Waits(run[r], b) <=> (run[r].pc = "wait" /\ b = a)
    BY <1>1, RunCases
  <1>3. Has(run[r], a) /\ \A b : Waits(run[r], b) => b = a
    BY <1>2
  <1>4. Thrown(run[r], a)
    <2>1. CASE UNCHANGED late
      BY <2>1 DEF Thrown
    <2>2. CASE /\ run[r].pc = "wait" /\ ~run[r].done
               /\ late' = [late EXCEPT ![Current(r)] = @ + 1]
      <3>1. Waits(run[r], a)
        BY <1>2, <2>2
      <3>2. Open(run[r], a)
        BY <2>2, <3>1 DEF Open
      <3>3. QED
        BY <1>2, <2>2, <3>2 DEF Thrown
    <2>3. QED
      BY <1>1, <2>1, <2>2 DEF Throws
  <1>5. \/ Retried(a) /\ Proceed(r, todo)
        \/ (GivenUp(a) \/ Gone(a)) /\ Proceed(r, todo \ {a})
    BY <1>2 DEF Failed, Retried, GivenUp, Gone
  <1>6. CASE Retried(a) /\ Proceed(r, todo)
    <2>1. PICK next \in Entry :
              /\ Changes(r, next)
              /\ \A b : ~Waits(next, b) /\ (Has(next, b) <=> b \in todo)
      BY <1>6, ProceedEffect
    <2>2. \A b : Has(next, b) <=> Has(run[r], b)
      BY <1>2, <2>1
    <2>3. QED
      BY <1>3, <1>4, <1>6, <2>1, <2>2 DEF Failed, backend
  <1>7. CASE (GivenUp(a) \/ Gone(a)) /\ Proceed(r, todo \ {a})
    <2>1. PICK next \in Entry :
              /\ Changes(r, next)
              /\ \A b : ~Waits(next, b) /\ (Has(next, b) <=> b \in todo \ {a})
      BY <1>7, ProceedEffect
    <2>2. \A b : Has(next, b) <=> Has(run[r], b) /\ b # a
      BY <1>2, <2>1
    <2>3. QED
      BY <1>3, <1>4, <1>7, <2>1, <2>2 DEF Failed, backend
  <1>8. QED
    BY <1>5, <1>6, <1>7

(* Every request under way is one that the app no longer waits for. *)
LEMMA CrashEffect ==
    ASSUME TypeOK, Crash
    PROVE  /\ late' \in [Actions -> Nat]
           /\ \A a \in Actions : late'[a] = late[a] + Cardinality(Undone(a))
           /\ run' = [r \in Runs |-> Idle]
           /\ crashes' = crashes + 1 /\ crashes' \in 0..MaxCrashes /\ crashes \in Nat
           /\ UNCHANGED <<queued, queue, attempts, failed, effects, voted>>
  <1>1. ASSUME NEW a \in Actions
        PROVE  {r \in Runs : run[r].pc = "wait" /\ ~run[r].done /\ Current(r) = a} = Undone(a)
    BY DEF Undone, Open, Waits, Current
  <1>2. late' = [a \in Actions |-> late[a] + Cardinality(Undone(a))]
    BY <1>1 DEF Crash
  <1>3. \A a \in Actions : late[a] \in Nat /\ Cardinality(Undone(a)) \in Nat
    <2>1. \A a \in Actions : Undone(a) \in SUBSET Runs
      BY DEF Undone
    <2>2. QED
      BY <2>1, CountBound DEF TypeOK
  <1>4. \A a \in Actions : late[a] + Cardinality(Undone(a)) \in Nat
    BY <1>3
  <1>5. crashes' = crashes + 1 /\ crashes' \in 0..MaxCrashes /\ crashes \in Nat
    BY BoundsAssumption DEF Crash, TypeOK
  <1>6. QED
    BY <1>2, <1>4, <1>5 DEF Crash, device, backend

LEMMA ChangedRuns ==
    ASSUME TypeOK, NEW r \in Runs, NEW next \in Entry, Changes(r, next)
    PROVE  /\ run' \in [Runs -> Busy \cup {Idle}]
           /\ \A q \in Runs : run'[q] # Idle => run'[q].todo # {}
           /\ run'[r] = next /\ \A q \in Runs \ {r} : run'[q] = run[q]
  BY DEF TypeOK, Changes, Entry

-----------------------------------------------------------------------------
(* The inductive invariant. *)

IInv == TypeOK /\ ListInv /\ AttemptInv /\ NothingDropped

LEMMA InitInv == Init => IInv
  <1> SUFFICES ASSUME Init PROVE IInv
    OBVIOUS
  <1>1. Cardinality(Runs) \in Nat
    BY CountBound
  <1>2. TypeOK
    <2>1. 0 \in 0..(MaxRetries + Cardinality(Runs) - 1) /\ 0 \in 0..MaxActions /\ 0 \in 0..MaxCrashes
      BY <1>1, BoundsAssumption, RetriesAssumption
    <2>2. /\ run \in [Runs -> Busy \cup {Idle}]
          /\ \A r \in Runs : run[r] = Idle
      BY DEF Init
    <2>3. QED
      BY <2>1, <2>2 DEF Init, TypeOK
  <1>3. ListInv /\ AttemptInv /\ NothingDropped
    BY IdleEntry, RetriesAssumption DEF Init, ListInv, Answered, AttemptInv, NothingDropped
  <1>4. QED
    BY <1>2, <1>3 DEF IInv

LEMMA NextType == IInv /\ [Next]_vars => TypeOK'
  <1> SUFFICES ASSUME IInv, [Next]_vars PROVE TypeOK'
    OBVIOUS
  <1>t. TypeOK
    BY DEF IInv
  <1>1. CASE Enqueue
    <2>1. /\ queued' = queued + 1 /\ queue' = queue \cup {queued + 1} /\ queued < MaxActions
          /\ UNCHANGED <<attempts, failed, run, late, effects, voted, crashes>>
      BY <1>1 DEF Enqueue, backend
    <2>2. queued' \in 0..MaxActions
      BY <1>t, <2>1, BoundsAssumption DEF TypeOK
    <2>3. queue' \in SUBSET (1..queued')
      <3>1. \A n \in 0..MaxActions : \A m \in 1..n : m \in 1..(n + 1) /\ n + 1 \in 1..(n + 1)
        BY BoundsAssumption
      <3>2. \A n \in 0..MaxActions : \A S \in SUBSET (1..n) : S \cup {n + 1} \subseteq 1..(n + 1)
        BY <3>1, BoundsAssumption
      <3>3. queued \in 0..MaxActions /\ queue \in SUBSET (1..queued)
        BY <1>t DEF TypeOK
      <3>4. QED
        BY <2>1, <3>2, <3>3
    <2>4. failed' \in SUBSET queue'
      BY <1>t, <2>1 DEF TypeOK
    <2>5. QED
      BY <1>t, <2>1, <2>2, <2>3, <2>4 DEF TypeOK
  <1>2. CASE VoteOnline
    BY <1>t, <1>2 DEF VoteOnline, device, TypeOK
  <1>3. CASE Crash
    <2>1. /\ run' \in [Runs -> Busy \cup {Idle}]
          /\ \A r \in Runs : run'[r] = Idle
      BY <1>t, <1>3, CrashEffect
    <2>2. QED
      BY <1>t, <1>3, <2>1, CrashEffect DEF TypeOK
  <1>4. ASSUME NEW r \in Runs, StartRun(r) PROVE TypeOK'
    BY <1>t, <1>4, StartEffect, ChangedRuns DEF TypeOK
  <1>5. ASSUME NEW r \in Runs, Post(r) PROVE TypeOK'
    BY <1>t, <1>5, PostEffect, ChangedRuns DEF TypeOK
  <1>6. ASSUME NEW r \in Runs, Delivered(r) PROVE TypeOK'
    BY <1>t, <1>6, DeliveredEffect, ChangedRuns DEF TypeOK
  <1>7. ASSUME NEW r \in Runs, Failed(r) PROVE TypeOK'
    <2>1. PICK a \in Actions, next \in Entry :
             /\ Has(run[r], a) /\ Changes(r, next) /\ Thrown(run[r], a)
             /\ Retried(a) \/ GivenUp(a) \/ Gone(a)
      BY <1>t, <1>7, FailedEffect
    <2>2. UNCHANGED <<queued, queue, effects, voted, crashes>>
      BY <1>t, <1>7, FailedEffect
    <2>3. late' \in [Actions -> Nat]
      BY <1>t, <2>1 DEF Thrown, TypeOK
    <2>4. failed' \in SUBSET queue
      BY <1>t, <2>1 DEF Retried, GivenUp, Gone, TypeOK
    <2>5. a \in queue => attempts[a] + 1 \in 0..(MaxRetries + Cardinality(Runs) - 1)
      <3>1. Trying(a) \in SUBSET Runs /\ r \in Trying(a)
        BY <2>1 DEF Trying
      <3>2. /\ Cardinality(Trying(a)) \in Nat /\ Cardinality(Runs) \in Nat
            /\ 1 <= Cardinality(Trying(a)) /\ Cardinality(Trying(a)) <= Cardinality(Runs)
        <4>1. Cardinality({}) = 0 /\ {} \in SUBSET Runs
          BY FS_EmptySet
        <4>2. QED
          BY <3>1, <4>1, CountBound, CountChange
      <3>3. /\ attempts[a] \in Nat /\ MaxRetries \in Nat
            /\ a \in queue \ failed => attempts[a] < MaxRetries
            /\ a \in failed =>
                  attempts[a] + Cardinality(Trying(a)) <= MaxRetries + Cardinality(Runs) - 1
        BY <1>t, RetriesAssumption DEF IInv, AttemptInv, TypeOK
      <3>4. QED
        BY <3>2, <3>3
    <2>6. attempts' \in [Actions -> 0..(MaxRetries + Cardinality(Runs) - 1)]
      <3>1. UNCHANGED attempts \/ (a \in queue /\ attempts' = [attempts EXCEPT ![a] = @ + 1])
        BY <2>1 DEF Retried, GivenUp, Gone
      <3>2. attempts \in [Actions -> 0..(MaxRetries + Cardinality(Runs) - 1)]
        BY <1>t DEF TypeOK
      <3>3. QED
        BY <2>5, <3>1, <3>2
    <2>7. QED
      BY <1>t, <2>1, <2>2, <2>3, <2>4, <2>6, ChangedRuns DEF TypeOK
  <1>c. ASSUME NEW a \in Actions, Counted(a)
        PROVE  effects' \in [Actions -> Nat] /\ voted' \in BOOLEAN
    BY <1>t, <1>c DEF Counted, TypeOK
  <1>8. ASSUME NEW r \in Runs, Serve(r) PROVE TypeOK'
    <2>1. PICK a \in Actions, next \in Entry : Changes(r, next) /\ Counted(a)
      BY <1>t, <1>8, ServeEffect
    <2>2. UNCHANGED <<queued, queue, attempts, failed, late, crashes>>
      BY <1>t, <1>8, ServeEffect
    <2>3. effects' \in [Actions -> Nat] /\ voted' \in BOOLEAN
      BY <1>c, <2>1
    <2>4. QED
      BY <1>t, <2>1, <2>2, <2>3, ChangedRuns DEF TypeOK
  <1>9. ASSUME NEW a \in Actions, ServeLate(a) PROVE TypeOK'
    <2>1. UNCHANGED <<queued, queue, attempts, failed, run, crashes>>
      BY <1>9 DEF ServeLate, device
    <2>2. late' \in [Actions -> Nat]
      BY <1>t, <1>9 DEF ServeLate, TypeOK
    <2>3. Counted(a) \/ UNCHANGED <<effects, voted>>
      BY <1>t, <1>9, CarryOutEffect DEF ServeLate, backend
    <2>4. effects' \in [Actions -> Nat] /\ voted' \in BOOLEAN
      <3>1. CASE UNCHANGED <<effects, voted>>
        BY <1>t, <3>1 DEF TypeOK
      <3>2. QED
        BY <1>c, <2>3, <3>1
    <2>5. QED
      BY <1>t, <2>1, <2>2, <2>4 DEF TypeOK
  <1>10. CASE UNCHANGED vars
    BY <1>t, <1>10 DEF vars, TypeOK
  <1>11. QED
    BY <1>1, <1>2, <1>3, <1>4, <1>5, <1>6, <1>7, <1>8, <1>9, <1>10 DEF Next, RunStep

LEMMA WaitsHas ==
    ASSUME TypeOK, NEW r \in Runs, NEW a, Waits(run[r], a)
    PROVE  Has(run[r], a) /\ a \in Actions
  <1>1. run[r].pc = "wait"
    BY DEF Waits
  <1>2. QED
    BY <1>1, RunCases

(* An action that is served late was queued. *)
LEMMA LateEffect ==
    ASSUME IInv, NEW a \in Actions, ServeLate(a)
    PROVE  /\ a <= queued /\ late[a] > 0 /\ late' = [late EXCEPT ![a] = @ - 1]
           /\ Counted(a) \/ UNCHANGED <<effects, voted>>
           /\ UNCHANGED <<queued, queue, attempts, failed, run, crashes>>
  <1>1. a \in Nat /\ queued \in Nat /\ late[a] \in Nat
    BY BoundsAssumption DEF IInv, TypeOK, Actions
  <1>2. late[a] > 0 /\ (a > queued => late[a] = 0)
    BY DEF ServeLate, IInv, ListInv
  <1>3. Counted(a) \/ UNCHANGED <<effects, voted>>
    BY CarryOutEffect DEF ServeLate, backend, IInv
  <1>4. QED
    BY <1>1, <1>2, <1>3 DEF ServeLate, device

(* What no step takes back. *)
Onward ==
    /\ queued <= queued'
    /\ \A a \in Actions : /\ effects[a] <= effects'[a] /\ attempts[a] <= attempts'[a]
                          /\ effects'[a] \in Nat /\ attempts'[a] \in Nat /\ late'[a] \in Nat
                          /\ a > queued' => /\ effects'[a] = effects[a]
                                            /\ attempts'[a] = attempts[a]
                                            /\ late'[a] = late[a]

LEMMA NextOnward == IInv /\ [Next]_vars => Onward
  <1> SUFFICES ASSUME IInv, [Next]_vars PROVE Onward
    OBVIOUS
  <1>t. /\ TypeOK /\ queued \in Nat
        /\ effects \in [Actions -> Nat] /\ attempts \in [Actions -> Nat] /\ late \in [Actions -> Nat]
        /\ \A a \in Actions : a \in Nat
    BY BoundsAssumption DEF IInv, TypeOK, Actions
  <1>q. \A r \in Runs, a \in Actions : Has(run[r], a) => a <= queued
    BY DEF IInv, ListInv
  <1>c. ASSUME NEW a \in Actions, a <= queued, Counted(a)
        PROVE  \A b \in Actions : /\ effects[b] <= effects'[b] /\ effects'[b] \in Nat
                                  /\ b > queued => effects'[b] = effects[b]
    BY <1>t, <1>c DEF Counted
  <1>0. CASE UNCHANGED <<queued, attempts, effects, late>>
    BY <1>t, <1>0 DEF Onward
  <1>1. CASE Enqueue
    BY <1>t, <1>1 DEF Enqueue, backend, Onward
  <1>2. CASE VoteOnline \/ UNCHANGED vars
    BY <1>0, <1>2 DEF VoteOnline, device, vars
  <1>3. CASE Crash
    <2>1. \A a \in Actions : a > queued => Cardinality(Undone(a)) = 0
      <3>1. \A a \in Actions : a > queued => Undone(a) = {}
        BY <1>t, <1>q, WaitsHas DEF Undone, Open
      <3>2. QED
        BY <3>1, FS_EmptySet
    <2>2. \A a \in Actions : late'[a] \in Nat /\ late'[a] = late[a] + Cardinality(Undone(a))
      BY <1>t, <1>3, CrashEffect
    <2>3. UNCHANGED <<queued, attempts, effects>>
      BY <1>t, <1>3, CrashEffect
    <2>4. QED
      BY <1>t, <2>1, <2>2, <2>3 DEF Onward
  <1>4. ASSUME NEW r \in Runs, StartRun(r) \/ Post(r) \/ Delivered(r) PROVE Onward
    BY <1>t, <1>0, <1>4, StartEffect, PostEffect, DeliveredEffect
  <1>5. ASSUME NEW r \in Runs, Failed(r) PROVE Onward
    <2>1. PICK a \in Actions :
             /\ a <= queued /\ Thrown(run[r], a)
             /\ Retried(a) \/ GivenUp(a) \/ Gone(a)
      BY <1>t, <1>q, <1>5, FailedEffect
    <2>2. UNCHANGED <<queued, effects>>
      BY <1>t, <1>5, FailedEffect
    <2>3. late' \in {late, [late EXCEPT ![a] = @ + 1]}
      BY <2>1 DEF Thrown
    <2>4. attempts' \in {attempts, [attempts EXCEPT ![a] = @ + 1]}
      BY <2>1 DEF Retried, GivenUp, Gone
    <2>5. QED
      BY <1>t, <2>1, <2>2, <2>3, <2>4 DEF Onward
  <1>6. ASSUME NEW r \in Runs, Serve(r) PROVE Onward
    <2>1. PICK a \in Actions : a <= queued /\ Counted(a)
      BY <1>t, <1>q, <1>6, ServeEffect
    <2>2. UNCHANGED <<queued, attempts, late>>
      BY <1>t, <1>6, ServeEffect
    <2>3. QED
      BY <1>t, <1>c, <2>1, <2>2 DEF Onward
  <1>7. ASSUME NEW a \in Actions, ServeLate(a) PROVE Onward
    <2>1. /\ a <= queued /\ late[a] > 0 /\ late' = [late EXCEPT ![a] = @ - 1]
          /\ Counted(a) \/ UNCHANGED effects
          /\ UNCHANGED <<queued, attempts>>
      BY <1>7, LateEffect
    <2>2. \A b \in Actions : /\ effects[b] <= effects'[b] /\ effects'[b] \in Nat
                             /\ b > queued => effects'[b] = effects[b]
      BY <1>t, <1>c, <2>1
    <2>3. \A b \in Actions : late'[b] \in Nat /\ (b > queued => late'[b] = late[b])
      BY <1>t, <2>1
    <2>4. QED
      BY <1>t, <2>1, <2>2, <2>3 DEF Onward
  <1>8. QED
    BY <1>1, <1>2, <1>3, <1>4, <1>5, <1>6, <1>7 DEF Next, RunStep

(* What one step can do to one run. *)
RunChange(r) ==
    \/ run'[r] = run[r]
    \/ run'[r] = Idle
    \/ /\ \A a \in Actions : ~Waits(run'[r], a)
       /\ \/ /\ run[r] = Idle /\ UNCHANGED <<queue, failed, voted, effects>>
             /\ \A a \in Actions : Has(run'[r], a) <=> a \in queue \ failed
          \/ /\ \A a \in Actions : Has(run'[r], a) <=> Has(run[r], a)
          \/ \E a \in Actions :
                /\ \A b \in Actions : Has(run'[r], b) <=> Has(run[r], b) /\ b # a
                /\ Answered(run[r], a) \/ a \in failed' \/ a \notin queue
    \/ /\ \A a \in Actions : Has(run'[r], a) <=> Has(run[r], a)
       /\ \A a \in Actions : Answered(run'[r], a) => effects'[a] > 0

LEMMA NextRuns == IInv /\ [Next]_vars => \A r \in Runs : RunChange(r)
  <1> SUFFICES ASSUME IInv, [Next]_vars, NEW r \in Runs PROVE RunChange(r)
    OBVIOUS
  <1>t. TypeOK
    BY DEF IInv
  <1>0. CASE run'[r] = run[r]
    BY <1>0 DEF RunChange
  <1>1. CASE Enqueue \/ VoteOnline \/ UNCHANGED vars \/ \E a \in Actions : ServeLate(a)
    BY <1>0, <1>1 DEF Enqueue, VoteOnline, vars, ServeLate
  <1>2. CASE Crash
    BY <1>2 DEF Crash, RunChange
  <1>3. ASSUME NEW q \in Runs, StartRun(q) \/ Post(q) \/ Delivered(q) \/ Failed(q) \/ Serve(q), q # r
        PROVE  RunChange(r)
    BY <1>t, <1>0, <1>3, StartEffect, PostEffect, DeliveredEffect, FailedEffect, ServeEffect,
       ChangedRuns
  <1>4. CASE StartRun(r)
    <2>1. PICK next \in Entry :
             /\ run'[r] = next
             /\ \A b : ~Waits(next, b) /\ (Has(next, b) <=> b \in queue \ failed)
      BY <1>t, <1>4, StartEffect, ChangedRuns
    <2>2. run[r] = Idle /\ UNCHANGED <<queue, failed, voted, effects>>
      BY <1>t, <1>4, StartEffect
    <2>3. QED
      BY <2>1, <2>2 DEF RunChange
  <1>5. CASE Post(r)
    <2>1. PICK next \in Entry :
             /\ run'[r] = next
             /\ \A b : ~Answered(next, b) /\ (Has(next, b) <=> Has(run[r], b))
      BY <1>t, <1>5, PostEffect, ChangedRuns
    <2>2. QED
      BY <2>1 DEF RunChange
  <1>6. CASE Delivered(r)
    <2>1. PICK a \in Actions, next \in Entry :
             /\ run'[r] = next /\ Answered(run[r], a)
             /\ \A b : ~Waits(next, b) /\ (Has(next, b) <=> Has(run[r], b) /\ b # a)
      BY <1>t, <1>6, DeliveredEffect, ChangedRuns
    <2>2. QED
      BY <2>1 DEF RunChange
  <1>7. CASE Failed(r)
    <2>1. PICK a \in Actions, next \in Entry :
             /\ run'[r] = next
             /\ \/ Retried(a) /\ \A b : Has(next, b) <=> Has(run[r], b)
                \/ /\ GivenUp(a) \/ Gone(a)
                   /\ \A b : Has(next, b) <=> Has(run[r], b) /\ b # a
             /\ \A b : ~Waits(next, b)
      BY <1>t, <1>7, FailedEffect, ChangedRuns
    <2>2. (GivenUp(a) => a \in failed') /\ (Gone(a) => a \notin queue)
      BY DEF GivenUp, Gone
    <2>3. QED
      BY <2>1, <2>2 DEF RunChange
  <1>8. CASE Serve(r)
    <2>1. PICK a \in Actions, next \in Entry :
             /\ run'[r] = next /\ Counted(a)
             /\ \A b : (Waits(next, b) <=> b = a) /\ (Has(next, b) <=> Has(run[r], b))
      BY <1>t, <1>8, ServeEffect, ChangedRuns
    <2>2. effects'[a] > 0
      <3>1. \A n \in Nat : n + 1 > 0
        OBVIOUS
      <3>2. QED
        BY <1>t, <2>1, <3>1 DEF Counted, TypeOK
    <2>3. QED
      BY <2>1, <2>2 DEF RunChange, Answered
  <1>9. QED
    BY <1>1, <1>2, <1>3, <1>4, <1>5, <1>6, <1>7, <1>8 DEF Next, RunStep

(* What one step can do to the queue: an action leaves it, and its mark goes,
   only when it was carried out. *)
QueueStep ==
    \A a \in Actions :
        /\ a \in queue => a \in queue' \/ effects[a] > 0
        /\ a \in queue' => a \in queue \/ (a > queued /\ UNCHANGED attempts)
        /\ a <= queued' => a <= queued \/ a \in queue'
        /\ a \in failed => a \in failed' \/ (effects[a] > 0 /\ a \notin queue')

LEMMA NextQueue == IInv /\ [Next]_vars => QueueStep
  <1> SUFFICES ASSUME IInv, [Next]_vars PROVE QueueStep
    OBVIOUS
  <1>t. TypeOK
    BY DEF IInv
  <1>0. CASE UNCHANGED <<queued, queue>> /\ failed \subseteq failed'
    BY <1>0 DEF QueueStep
  <1>1. CASE Enqueue
    <2>1. queued \in Nat /\ \A a \in Actions : a \in Nat
      BY <1>t, BoundsAssumption DEF TypeOK, Actions
    <2>2. /\ queued' = queued + 1 /\ queue' = queue \cup {queued + 1}
          /\ UNCHANGED <<failed, attempts>>
      BY <1>1 DEF Enqueue
    <2>3. \A a \in Actions : /\ a = queued + 1 => a > queued
                             /\ a <= queued + 1 => a <= queued \/ a = queued + 1
      BY <2>1
    <2>4. QED
      BY <2>2, <2>3 DEF QueueStep
  <1>2. CASE VoteOnline \/ UNCHANGED vars \/ Crash \/ \E a \in Actions : ServeLate(a)
    BY <1>0, <1>2 DEF VoteOnline, device, vars, Crash, ServeLate
  <1>3. ASSUME NEW r \in Runs, StartRun(r) \/ Post(r) \/ Serve(r) PROVE QueueStep
    BY <1>0, <1>3 DEF StartRun, Post, Serve, device
  <1>4. ASSUME NEW r \in Runs, Delivered(r) PROVE QueueStep
    <2>1. PICK a \in Actions :
             Answered(run[r], a) /\ queue' = queue \ {a} /\ failed' = failed \ {a}
      BY <1>t, <1>4, DeliveredEffect
    <2>2. effects[a] > 0
      BY <2>1 DEF IInv, ListInv
    <2>3. UNCHANGED queued
      BY <1>4 DEF Delivered
    <2>4. QED
      BY <2>1, <2>2, <2>3 DEF QueueStep
  <1>5. ASSUME NEW r \in Runs, Failed(r) PROVE QueueStep
    BY <1>0, <1>5 DEF Failed
  <1>6. QED
    BY <1>1, <1>2, <1>3, <1>4, <1>5 DEF Next, RunStep

LEMMA NextList == IInv /\ [Next]_vars => ListInv'
  <1> SUFFICES ASSUME IInv, [Next]_vars PROVE ListInv'
    OBVIOUS
  <1>t. /\ queued \in Nat /\ queued' \in Nat /\ queued <= queued'
        /\ \A a \in Actions : a \in Nat /\ effects[a] \in Nat
    <2>1. TypeOK /\ TypeOK'
      BY NextType DEF IInv
    <2>2. queued \in Nat /\ queued' \in Nat
      BY <2>1, BoundsAssumption DEF TypeOK
    <2>3. \A a \in Actions : a \in Nat /\ effects[a] \in Nat
      BY <2>1, BoundsAssumption DEF TypeOK, Actions
    <2>4. QED
      BY <2>2, <2>3, NextOnward DEF Onward
  <1>o. \A a \in Actions : /\ effects'[a] \in Nat /\ effects[a] <= effects'[a]
                           /\ a > queued' => /\ effects'[a] = effects[a]
                                             /\ attempts'[a] = attempts[a]
                                             /\ late'[a] = late[a]
    BY NextOnward DEF Onward
  <1>1. ASSUME NEW a \in Actions, a > queued'
        PROVE  attempts'[a] = 0 /\ effects'[a] = 0 /\ late'[a] = 0
    <2>1. a > queued
      BY <1>t, <1>1
    <2>2. QED
      BY <1>1, <1>o, <2>1 DEF IInv, ListInv
  <1>2. ASSUME NEW r \in Runs, NEW a \in Actions
        PROVE  /\ Has(run'[r], a) => a <= queued'
               /\ Answered(run'[r], a) => effects'[a] > 0
    <2>1. /\ Has(run[r], a) => a <= queued
          /\ Answered(run[r], a) => effects[a] > 0
          /\ a \in queue => a <= queued
      BY <1>t DEF IInv, ListInv, TypeOK
    <2>2. /\ a <= queued => a <= queued'
          /\ effects[a] > 0 => effects'[a] > 0
      BY <1>t, <1>o
    <2>3. /\ \/ Has(run'[r], a) => Has(run[r], a)
             \/ Has(run'[r], a) => a \in queue
          /\ \/ Answered(run'[r], a) => Answered(run[r], a)
             \/ Answered(run'[r], a) => effects'[a] > 0
      <3>1. CASE run'[r] = run[r]
        BY <3>1
      <3>2. CASE run'[r] = Idle
        BY <3>2, IdleEntry DEF Answered
      <3>3. QED
        BY <3>1, <3>2, NextRuns DEF RunChange, Answered
    <2>4. QED
      BY <2>1, <2>2, <2>3
  <1>3. QED
    BY <1>1, <1>2 DEF ListInv, Has, Answered, Waits

LEMMA NextDropped == IInv /\ [Next]_vars => NothingDropped'
  <1> SUFFICES ASSUME IInv, [Next]_vars, NEW a \in 1..queued'
               PROVE  a \in queue' \/ effects'[a] > 0
    BY DEF NothingDropped
  <1>1. /\ a \in Actions /\ a <= queued' /\ a \in Nat /\ queued \in Nat
        /\ effects[a] \in Nat /\ effects'[a] \in Nat /\ effects[a] <= effects'[a]
    <2>1. TypeOK /\ TypeOK'
      BY NextType DEF IInv
    <2>2. a \in Actions /\ a <= queued' /\ a \in Nat /\ queued \in Nat
      BY <2>1, BoundsAssumption DEF TypeOK, Actions
    <2>3. QED
      BY <2>1, <2>2, NextOnward DEF Onward, TypeOK
  <1>2. effects[a] > 0 => effects'[a] > 0
    BY <1>1
  <1>3. a <= queued => a \in queue \/ effects[a] > 0
    <2>1. a <= queued => a \in 1..queued
      BY <1>1
    <2>2. QED
      BY <2>1 DEF IInv, NothingDropped
  <1>4. QED
    BY <1>1, <1>2, <1>3, NextQueue DEF QueueStep

(* What one step can do to the attempts at an action. *)
AttemptStep(a) ==
    \/ attempts'[a] = attempts[a] /\ (a \in failed' => a \in failed)
    \/ /\ a \in queue /\ attempts'[a] = attempts[a] + 1
       /\ \/ attempts'[a] < MaxRetries /\ UNCHANGED failed
          \/ a \in failed' /\ \E r \in Runs : Has(run[r], a) /\ ~Has(run'[r], a)

LEMMA NextAttempt == IInv /\ [Next]_vars => \A a \in Actions : AttemptStep(a)
  <1> SUFFICES ASSUME IInv, [Next]_vars, NEW a \in Actions PROVE AttemptStep(a)
    OBVIOUS
  <1>t. TypeOK /\ attempts \in [Actions -> Nat]
    BY DEF IInv, TypeOK
  <1>0. CASE UNCHANGED attempts /\ failed' \subseteq failed
    BY <1>0 DEF AttemptStep
  <1>1. CASE Enqueue \/ VoteOnline \/ UNCHANGED vars \/ Crash \/ \E b \in Actions : ServeLate(b)
    BY <1>0, <1>1 DEF Enqueue, VoteOnline, device, vars, Crash, ServeLate
  <1>2. ASSUME NEW r \in Runs, StartRun(r) \/ Post(r) \/ Serve(r) \/ Delivered(r)
        PROVE  AttemptStep(a)
    BY <1>0, <1>2 DEF StartRun, Post, Serve, device, Delivered
  <1>3. ASSUME NEW r \in Runs, Failed(r) PROVE AttemptStep(a)
    <2>1. PICK b \in Actions, next \in Entry :
             /\ Has(run[r], b) /\ run'[r] = next
             /\ \/ Retried(b)
                \/ (GivenUp(b) \/ Gone(b)) /\ ~Has(next, b)
      BY <1>t, <1>3, FailedEffect, ChangedRuns
    <2>2. CASE Retried(b)
      BY <1>t, <2>2 DEF Retried, AttemptStep
    <2>3. CASE GivenUp(b) /\ ~Has(next, b)
      BY <1>t, <2>1, <2>3 DEF GivenUp, AttemptStep
    <2>4. CASE Gone(b)
      BY <1>0, <2>4 DEF Gone
    <2>5. QED
      BY <2>1, <2>2, <2>3, <2>4
  <1>4. QED
    BY <1>1, <1>2, <1>3 DEF Next, RunStep

LEMMA NextAttempts == IInv /\ [Next]_vars => AttemptInv'
  <1> SUFFICES ASSUME IInv, [Next]_vars, NEW a \in Actions
               PROVE  /\ a \in queue' \ failed' => attempts'[a] < MaxRetries
                      /\ a \in failed' =>
                            attempts'[a] + Cardinality({r \in Runs : Has(run'[r], a)})
                                <= MaxRetries + Cardinality(Runs) - 1
    BY DEF AttemptInv, Trying, Has
  <1> DEFINE Tries == {r \in Runs : Has(run'[r], a)}
  <1>t. attempts[a] \in Nat /\ attempts'[a] \in Nat /\ MaxRetries \in Nat /\ 0 < MaxRetries
    BY NextOnward, RetriesAssumption DEF Onward, IInv, TypeOK
  <1>c. /\ Trying(a) \in SUBSET Runs /\ Tries \in SUBSET Runs
        /\ Cardinality(Trying(a)) \in Nat /\ Cardinality(Tries) \in Nat /\ Cardinality(Runs) \in Nat
        /\ Cardinality(Tries) <= Cardinality(Runs)
    <2>1. Trying(a) \in SUBSET Runs /\ Tries \in SUBSET Runs
      BY DEF Trying
    <2> HIDE DEF Tries
    <2>2. QED
      BY <2>1, CountBound
  <1>i. /\ a \in queue \ failed => attempts[a] < MaxRetries
        /\ a \in failed =>
              attempts[a] + Cardinality(Trying(a)) <= MaxRetries + Cardinality(Runs) - 1
    BY DEF IInv, AttemptInv
  <1>q. QueueStep /\ AttemptStep(a)
    BY NextQueue, NextAttempt
  <1>1. a \in queue' \ failed' => attempts'[a] < MaxRetries
    <2>1. SUFFICES ASSUME a \in queue' \ failed' PROVE attempts'[a] < MaxRetries
      OBVIOUS
    <2>2. a \notin failed
      BY <1>q, <2>1 DEF QueueStep
    <2>3. CASE a \notin queue
      <3>1. a > queued /\ UNCHANGED attempts
        BY <1>q, <2>1, <2>3 DEF QueueStep
      <3>2. attempts[a] = 0
        BY <3>1 DEF IInv, ListInv
      <3>3. QED
        BY <1>t, <3>1, <3>2
    <2>4. CASE a \in queue
      BY <1>i, <1>q, <2>1, <2>2, <2>4 DEF AttemptStep
    <2>5. QED
      BY <2>3, <2>4
  <1>2. ASSUME a \in failed, a \in failed' PROVE Tries \subseteq Trying(a)
    <2>1. SUFFICES ASSUME NEW r \in Runs, Has(run'[r], a) PROVE Has(run[r], a)
      BY DEF Trying
    <2>2. CASE run'[r] = Idle
      BY <2>1, <2>2, IdleEntry
    <2>3. RunChange(r)
      BY NextRuns
    <2>4. QED
      BY <1>2, <2>1, <2>2, <2>3 DEF RunChange
  <1>3. ASSUME NEW r \in Runs, ~Has(run'[r], a)
        PROVE  /\ Cardinality(Tries) + 1 <= Cardinality(Runs)
               /\ Has(run[r], a) /\ Tries \subseteq Trying(a) =>
                     Cardinality(Tries) + 1 <= Cardinality(Trying(a))
    <2>1. r \notin Tries /\ (Has(run[r], a) => r \in Trying(a))
      BY <1>3 DEF Trying
    <2> HIDE DEF Tries
    <2>2. Cardinality(Tries) + 1 <= Cardinality(Runs)
      BY <1>c, <2>1, CountBound
    <2>3. r \in Trying(a) /\ Tries \subseteq Trying(a) =>
             Cardinality(Tries) + 1 <= Cardinality(Trying(a))
      BY <1>c, <2>1, CountChange
    <2>4. QED
      BY <2>1, <2>2, <2>3
  <1>4. Tries \subseteq Trying(a) => Cardinality(Tries) <= Cardinality(Trying(a))
    <2> HIDE DEF Tries
    <2>1. IsFiniteSet(Trying(a))
      BY <1>c, RunsAssumption, FS_Subset
    <2>2. QED
      BY <2>1, FS_Subset
  <1>5. a \in failed' =>
           attempts'[a] + Cardinality(Tries) <= MaxRetries + Cardinality(Runs) - 1
    <2> HIDE DEF Tries
    <2>1. SUFFICES ASSUME a \in failed'
                   PROVE  attempts'[a] + Cardinality(Tries) <= MaxRetries + Cardinality(Runs) - 1
      OBVIOUS
    <2>2. CASE attempts'[a] = attempts[a] /\ a \in failed
      BY <1>c, <1>t, <1>i, <1>2, <1>4, <2>1, <2>2
    <2>3. CASE attempts'[a] < MaxRetries
      BY <1>c, <1>t, <2>3
    <2>4. ASSUME a \in queue, attempts'[a] = attempts[a] + 1,
                 NEW r \in Runs, Has(run[r], a), ~Has(run'[r], a)
          PROVE  attempts'[a] + Cardinality(Tries) <= MaxRetries + Cardinality(Runs) - 1
      <3>1. CASE a \in failed
        <4>1. Cardinality(Tries) + 1 <= Cardinality(Trying(a))
          BY <1>2, <1>3, <2>1, <2>4, <3>1
        <4>2. attempts[a] + Cardinality(Trying(a)) <= MaxRetries + Cardinality(Runs) - 1
          BY <1>i, <3>1
        <4>3. QED
          BY <1>c, <1>t, <2>4, <4>1, <4>2
      <3>2. CASE a \notin failed
        <4>1. Cardinality(Tries) + 1 <= Cardinality(Runs) /\ attempts[a] < MaxRetries
          BY <1>i, <1>3, <2>4, <3>2
        <4>2. QED
          BY <1>c, <1>t, <2>4, <4>1
      <3>3. QED
        BY <3>1, <3>2
    <2>5. QED
      BY <1>q, <2>1, <2>2, <2>3, <2>4 DEF AttemptStep
  <1>6. QED
    BY <1>1, <1>5

LEMMA NextInv == IInv /\ [Next]_vars => IInv'
  BY NextType, NextList, NextAttempts, NextDropped DEF IInv

LEMMA InvHolds == Spec => []IInv
  <1>1. IInv /\ [Next]_vars => IInv'
    BY NextInv
  <1>2. QED
    BY <1>1, InitInv, PTL DEF Spec

(* Every variable keeps its type; in particular the attempts at an action are
   bounded although runs of processQueue overlap: each other run adds at most
   one after the action was marked as failed. *)
THEOREM TypeCorrect == Spec => []TypeOK
  <1>1. IInv => TypeOK
    BY DEF IInv
  <1>2. QED
    BY <1>1, InvHolds, PTL

(* An action that has left the queue of the device was carried out: whatever the
   screens queue while processQueue awaits a post, and whatever two of its runs
   do to one another, nothing is written over (action-queue.ts, sync-engine.ts). *)
THEOREM ActionsAreKept == Spec => []NothingDropped
  <1>1. IInv => NothingDropped
    BY DEF IInv
  <1>2. QED
    BY <1>1, InvHolds, PTL

-----------------------------------------------------------------------------
(* How often an action is carried out. *)

Uses(s, stored, a) == Waits(s, a) \/ (a \notin stored /\ ~Has(s, a))

(* The sets Undone and Spent after a step. *)
NextUndone(a) == {r \in Runs : Open(run'[r], a)}
NextSpent(a) == {r \in Runs : Uses(run'[r], queue', a)}

LEMMA SpentUses == \A a : Spent(a) = {r \in Runs : Uses(run[r], queue, a)}
  BY DEF Spent, Uses

LEMMA CountTypes ==
    ASSUME NEW a
    PROVE  /\ Cardinality(Undone(a)) \in Nat /\ Cardinality(Spent(a)) \in Nat
           /\ Cardinality(NextUndone(a)) \in Nat /\ Cardinality(NextSpent(a)) \in Nat
           /\ Cardinality(Runs) \in Nat
           /\ Cardinality(Spent(a)) <= Cardinality(Runs)
  <1>1. /\ Undone(a) \in SUBSET Runs /\ Spent(a) \in SUBSET Runs
        /\ NextUndone(a) \in SUBSET Runs /\ NextSpent(a) \in SUBSET Runs
    BY DEF Undone, Spent, NextUndone, NextSpent
  <1>2. QED
    BY <1>1, CountBound

(* The step of one run. *)
LEMMA RunCounts ==
    ASSUME IInv, NEW r \in Runs, NEW next \in Entry, Changes(r, next), NEW a \in Actions,
           a \notin queue => a \notin queue'
    PROVE  /\ Cardinality(NextUndone(a)) <= Cardinality(Undone(a)) + 1
           /\ ~Open(next, a) => Cardinality(NextUndone(a)) <= Cardinality(Undone(a))
           /\ ~Open(next, a) /\ Open(run[r], a) =>
                 Cardinality(NextUndone(a)) + 1 <= Cardinality(Undone(a))
           /\ Cardinality(Spent(a)) <= Cardinality(NextSpent(a)) + 1
           /\ (Uses(run[r], queue, a) => Uses(next, queue', a)) =>
                 Cardinality(Spent(a)) <= Cardinality(NextSpent(a))
           /\ ~Uses(run[r], queue, a) /\ Uses(next, queue', a) =>
                 Cardinality(Spent(a)) + 1 <= Cardinality(NextSpent(a))
  <1>1. run'[r] = next /\ \A q \in Runs \ {r} : run'[q] = run[q]
    BY ChangedRuns DEF IInv
  <1>2. /\ Undone(a) \in SUBSET Runs /\ NextUndone(a) \in SUBSET Runs
        /\ r \in Undone(a) <=> Open(run[r], a)
        /\ r \in NextUndone(a) <=> Open(next, a)
        /\ \A q \in Runs \ {r} : q \in NextUndone(a) => q \in Undone(a)
    BY <1>1 DEF Undone, NextUndone
  <1>3. /\ Spent(a) \in SUBSET Runs /\ NextSpent(a) \in SUBSET Runs
        /\ r \in Spent(a) <=> Uses(run[r], queue, a)
        /\ r \in NextSpent(a) <=> Uses(next, queue', a)
    BY <1>1, SpentUses DEF NextSpent
  <1>4. \A q \in Runs \ {r} : q \in Spent(a) => q \in NextSpent(a)
    BY <1>1, SpentUses DEF NextSpent, Uses
  <1>5. /\ Cardinality(NextUndone(a)) <= Cardinality(Undone(a)) + 1
        /\ (r \in NextUndone(a) => r \in Undone(a)) =>
              Cardinality(NextUndone(a)) <= Cardinality(Undone(a))
        /\ r \notin NextUndone(a) /\ r \in Undone(a) =>
              Cardinality(NextUndone(a)) + 1 <= Cardinality(Undone(a))
    BY <1>2, CountChange
  <1>6. /\ Cardinality(Spent(a)) <= Cardinality(NextSpent(a)) + 1
        /\ (r \in Spent(a) => r \in NextSpent(a)) =>
              Cardinality(Spent(a)) <= Cardinality(NextSpent(a))
        /\ r \notin Spent(a) /\ r \in NextSpent(a) =>
              Cardinality(Spent(a)) + 1 <= Cardinality(NextSpent(a))
    BY <1>3, <1>4, CountChange
  <1>7. QED
    BY <1>2, <1>3, <1>5, <1>6

(* What one step can do to the counts of an action. *)
CountStep(a) ==
    LET u == Cardinality(Undone(a))
        w == Cardinality(NextUndone(a))
        s == Cardinality(Spent(a))
        z == Cardinality(NextSpent(a))
    IN  \/ /\ crashes' = crashes
           /\ effects'[a] + late'[a] + w - attempts'[a] - z <= effects[a] + late[a] + u - attempts[a] - s
        \/ /\ effects'[a] = 0 /\ late'[a] = 0 /\ w = 0 /\ UNCHANGED crashes
        \/ /\ crashes' = crashes + 1 /\ w = 0
           /\ effects'[a] + late'[a] = effects[a] + late[a] + u
           /\ attempts'[a] = attempts[a]

LEMMA NextCounts == IInv /\ [Next]_vars => \A a \in Actions : CountStep(a)
  <1> SUFFICES ASSUME IInv, [Next]_vars, NEW a \in Actions PROVE CountStep(a)
    OBVIOUS
  <1>t. /\ TypeOK /\ effects \in [Actions -> Nat] /\ late \in [Actions -> Nat]
        /\ attempts \in [Actions -> Nat]
    BY DEF IInv, TypeOK
  <1>n. /\ effects[a] \in Nat /\ late[a] \in Nat /\ attempts[a] \in Nat
        /\ effects'[a] \in Nat /\ late'[a] \in Nat /\ attempts'[a] \in Nat
        /\ Cardinality(Undone(a)) \in Nat /\ Cardinality(Spent(a)) \in Nat
        /\ Cardinality(NextUndone(a)) \in Nat /\ Cardinality(NextSpent(a)) \in Nat
    BY <1>t, NextOnward, CountTypes DEF Onward
  <1>c. \A b \in Actions : Counted(b) => effects'[a] = IF a = b THEN effects[a] + 1 ELSE effects[a]
    BY <1>t DEF Counted
  <1>e. ASSUME UNCHANGED run, a \in queue <=> a \in queue'
        PROVE  NextUndone(a) = Undone(a) /\ NextSpent(a) = Spent(a)
    BY <1>e, SpentUses DEF NextUndone, Undone, NextSpent, Uses
  <1>1. ASSUME UNCHANGED <<queue, attempts, run, late, effects, crashes>> PROVE CountStep(a)
    BY <1>n, <1>1, <1>e DEF CountStep
  <1>2. CASE VoteOnline \/ UNCHANGED vars
    BY <1>1, <1>2 DEF VoteOnline, vars, device
  <1>3. CASE Enqueue
    <2>1. /\ queue' = queue \cup {queued + 1}
          /\ UNCHANGED <<attempts, run, late, effects, crashes>>
      BY <1>3 DEF Enqueue, backend
    <2>2. CASE a = queued + 1
      <3>1. a > queued
        <4>1. queued \in Nat
          BY <1>t, BoundsAssumption DEF TypeOK
        <4>2. QED
          BY <2>2, <4>1
      <3>2. effects[a] = 0 /\ late[a] = 0
        BY <3>1 DEF IInv, ListInv
      <3>3. \A q \in Runs : ~Open(run'[q], a)
        <4>1. \A q \in Runs : ~Has(run[q], a)
          <5>1. queued \in Nat /\ a \in Nat
            BY <1>t, BoundsAssumption DEF TypeOK, Actions
          <5>2. QED
            BY <3>1, <5>1 DEF IInv, ListInv
        <4>2. QED
          BY <1>t, <2>1, <4>1, WaitsHas DEF Open
      <3>4. NextUndone(a) = {}
        BY <3>3 DEF NextUndone
      <3>5. QED
        BY <2>1, <3>2, <3>4, FS_EmptySet DEF CountStep
    <2>3. CASE a # queued + 1
      BY <1>n, <1>e, <2>1, <2>3 DEF CountStep
    <2>4. QED
      BY <2>2, <2>3
  <1>4. ASSUME NEW b \in Actions, ServeLate(b) PROVE CountStep(a)
    <2>1. /\ late[b] > 0 /\ late' = [late EXCEPT ![b] = @ - 1]
          /\ UNCHANGED <<queue, attempts, run, crashes>>
          /\ Counted(b) \/ UNCHANGED effects
      BY <1>4, LateEffect
    <2>2. Cardinality(NextUndone(a)) = Cardinality(Undone(a))
          /\ Cardinality(NextSpent(a)) = Cardinality(Spent(a))
      BY <1>e, <2>1
    <2>3. effects'[a] <= IF a = b THEN effects[a] + 1 ELSE effects[a]
      BY <1>n, <1>c, <2>1
    <2>4. late'[a] = IF a = b THEN late[a] - 1 ELSE late[a]
      BY <1>t, <2>1
    <2>5. effects'[a] + late'[a] <= effects[a] + late[a]
      BY <1>n, <2>3, <2>4
    <2>6. QED
      BY <1>n, <2>1, <2>2, <2>5 DEF CountStep
  <1>5. CASE Crash
    <2>1. /\ late'[a] = late[a] + Cardinality(Undone(a)) /\ crashes' = crashes + 1
          /\ UNCHANGED <<attempts, effects>>
      BY <1>t, <1>5, CrashEffect
    <2>2. NextUndone(a) = {}
      BY <1>t, <1>5, CrashEffect, IdleEntry DEF NextUndone, Open
    <2>3. QED
      BY <1>n, <2>1, <2>2, FS_EmptySet DEF CountStep
  <1>6. ASSUME NEW r \in Runs, StartRun(r) PROVE CountStep(a)
    <2>1. PICK next \in Entry :
             /\ Changes(r, next)
             /\ \A b : ~Waits(next, b) /\ (Has(next, b) <=> b \in queue \ failed)
      BY <1>t, <1>6, StartEffect
    <2>2. run[r] = Idle /\ UNCHANGED <<queue, attempts, late, effects, crashes>>
      BY <1>t, <1>6, StartEffect
    <2>3. ~Open(next, a) /\ (Uses(run[r], queue, a) => Uses(next, queue', a))
      BY <2>1, <2>2, IdleEntry DEF Open, Uses
    <2>4. /\ Cardinality(NextUndone(a)) <= Cardinality(Undone(a))
          /\ Cardinality(Spent(a)) <= Cardinality(NextSpent(a))
      BY <2>1, <2>2, <2>3, RunCounts
    <2>5. QED
      BY <1>n, <2>2, <2>4 DEF CountStep
  <1>7. ASSUME NEW r \in Runs, Post(r) PROVE CountStep(a)
    <2>1. PICK b \in Actions, next \in Entry :
             /\ Has(run[r], b) /\ Changes(r, next)
             /\ \A c : /\ ~Waits(run[r], c) /\ (Waits(next, c) <=> c = b)
                       /\ Has(next, c) <=> Has(run[r], c)
      BY <1>t, <1>7, PostEffect
    <2>2. UNCHANGED <<queue, attempts, late, effects, crashes>>
      BY <1>t, <1>7, PostEffect
    <2>3. CASE a = b
      <3>1. ~Uses(run[r], queue, a) /\ Uses(next, queue', a)
        BY <2>1, <2>3 DEF Uses
      <3>2. /\ Cardinality(NextUndone(a)) <= Cardinality(Undone(a)) + 1
            /\ Cardinality(Spent(a)) + 1 <= Cardinality(NextSpent(a))
        BY <2>1, <2>2, <3>1, RunCounts
      <3>3. QED
        BY <1>n, <2>2, <3>2 DEF CountStep
    <2>4. CASE a # b
      <3>1. ~Open(next, a) /\ (Uses(run[r], queue, a) => Uses(next, queue', a))
        BY <2>1, <2>2, <2>4 DEF Open, Uses
      <3>2. /\ Cardinality(NextUndone(a)) <= Cardinality(Undone(a))
            /\ Cardinality(Spent(a)) <= Cardinality(NextSpent(a))
        BY <2>1, <2>2, <3>1, RunCounts
      <3>3. QED
        BY <1>n, <2>2, <3>2 DEF CountStep
    <2>5. QED
      BY <2>3, <2>4
  <1>8. ASSUME NEW r \in Runs, Serve(r) PROVE CountStep(a)
    <2>1. PICK b \in Actions, next \in Entry :
             /\ Open(run[r], b) /\ Changes(r, next) /\ Counted(b)
             /\ \A c : /\ (Waits(run[r], c) <=> c = b) /\ (Waits(next, c) <=> c = b)
                       /\ ~Open(next, c)
                       /\ Has(next, c) <=> Has(run[r], c)
      BY <1>t, <1>8, ServeEffect
    <2>2. UNCHANGED <<queue, attempts, late, crashes>>
      BY <1>t, <1>8, ServeEffect
    <2>3. Uses(run[r], queue, a) => Uses(next, queue', a)
      BY <2>1, <2>2 DEF Uses
    <2>4. /\ Cardinality(NextUndone(a)) <= Cardinality(Undone(a))
          /\ a = b => Cardinality(NextUndone(a)) + 1 <= Cardinality(Undone(a))
          /\ Cardinality(Spent(a)) <= Cardinality(NextSpent(a))
      BY <2>1, <2>2, <2>3, RunCounts
    <2>5. effects'[a] = IF a = b THEN effects[a] + 1 ELSE effects[a]
      BY <1>c, <2>1
    <2>6. QED
      BY <1>n, <2>2, <2>4, <2>5 DEF CountStep
  <1>9. ASSUME NEW r \in Runs, Delivered(r) PROVE CountStep(a)
    <2>1. PICK b \in Actions, next \in Entry :
             /\ Changes(r, next) /\ queue' = queue \ {b}
             /\ \A c : /\ ~Waits(next, c)
                       /\ Waits(run[r], c) <=> c = b
                       /\ Has(next, c) <=> Has(run[r], c) /\ c # b
      BY <1>t, <1>9, DeliveredEffect
    <2>2. UNCHANGED <<attempts, late, effects, crashes>>
      BY <1>t, <1>9, DeliveredEffect
    <2>3. ~Open(next, a) /\ (Uses(run[r], queue, a) => Uses(next, queue', a))
      BY <2>1 DEF Open, Uses
    <2>4. /\ Cardinality(NextUndone(a)) <= Cardinality(Undone(a))
          /\ Cardinality(Spent(a)) <= Cardinality(NextSpent(a))
      BY <2>1, <2>3, RunCounts
    <2>5. QED
      BY <1>n, <2>2, <2>4 DEF CountStep
  <1>10. ASSUME NEW r \in Runs, Failed(r) PROVE CountStep(a)
    <2>1. PICK b \in Actions, next \in Entry :
             /\ Has(run[r], b) /\ Changes(r, next) /\ Thrown(run[r], b)
             /\ \/ Retried(b) /\ \A c : Has(next, c) <=> Has(run[r], c)
                \/ /\ GivenUp(b) \/ Gone(b)
                   /\ \A c : Has(next, c) <=> Has(run[r], c) /\ c # b
             /\ \A c : ~Waits(next, c) /\ (Waits(run[r], c) => c = b)
      BY <1>t, <1>10, FailedEffect
    <2>2. UNCHANGED <<queue, effects, crashes>>
      BY <1>t, <1>10, FailedEffect
    <2>3. ~Open(next, a)
      BY <2>1 DEF Open
    <2>4. /\ Cardinality(NextUndone(a)) <= Cardinality(Undone(a))
          /\ Open(run[r], a) => Cardinality(NextUndone(a)) + 1 <= Cardinality(Undone(a))
          /\ Cardinality(Spent(a)) <= Cardinality(NextSpent(a)) + 1
          /\ (Uses(run[r], queue, a) => Uses(next, queue', a)) =>
                Cardinality(Spent(a)) <= Cardinality(NextSpent(a))
      BY <2>1, <2>2, <2>3, RunCounts
    <2>5. late'[a] + Cardinality(NextUndone(a)) <= late[a] + Cardinality(Undone(a))
      <3>1. CASE UNCHANGED late
        BY <1>n, <2>4, <3>1
      <3>2. CASE Open(run[r], b) /\ late' = [late EXCEPT ![b] = @ + 1]
        <4>1. late'[a] = IF a = b THEN late[a] + 1 ELSE late[a]
          BY <1>t, <3>2
        <4>2. a = b => Cardinality(NextUndone(a)) + 1 <= Cardinality(Undone(a))
          BY <2>4, <3>2
        <4>3. QED
          BY <1>n, <2>4, <4>1, <4>2
      <3>3. QED
        BY <2>1, <3>1, <3>2 DEF Thrown
    <2>6. attempts[a] + Cardinality(Spent(a)) <= attempts'[a] + Cardinality(NextSpent(a))
      <3>1. CASE a = b /\ (Retried(b) \/ GivenUp(b))
        <4>1. attempts'[a] = attempts[a] + 1
          BY <1>t, <3>1 DEF Retried, GivenUp
        <4>2. QED
          BY <1>n, <2>4, <4>1
      <3>2. CASE a # b
        <4>1. attempts'[a] = attempts[a]
          BY <1>t, <2>1, <3>2 DEF Retried, GivenUp, Gone
        <4>2. Uses(run[r], queue, a) => Uses(next, queue', a)
          BY <2>1, <2>2, <3>2 DEF Uses
        <4>3. QED
          BY <1>n, <2>4, <4>1, <4>2
      <3>3. CASE a = b /\ Gone(b) /\ ~Has(next, b)
        <4>1. attempts'[a] = attempts[a] /\ Uses(next, queue', a)
          BY <2>2, <3>3 DEF Gone, Uses
        <4>2. QED
          BY <1>n, <2>4, <4>1
      <3>4. QED
        BY <2>1, <3>1, <3>2, <3>3
    <2>7. effects'[a] = effects[a] /\ crashes' = crashes
      BY <2>2
    <2>8. QED
      BY <1>n, <2>5, <2>6, <2>7 DEF CountStep
  <1>11. QED
    BY <1>2, <1>3, <1>4, <1>5, <1>6, <1>7, <1>8, <1>9, <1>10 DEF Next, RunStep

LEMMA NextCount == IInv /\ [Next]_vars /\ CountInv => CountInv'
  <1> SUFFICES ASSUME IInv, [Next]_vars, CountInv, NEW a \in Actions
               PROVE  effects'[a] + late'[a] + Cardinality(NextUndone(a))
                         <= attempts'[a] + Cardinality(Runs) * crashes' + Cardinality(NextSpent(a))
    BY DEF CountInv, NextUndone, Undone, Open, Waits, NextSpent, Spent, Uses, Has
  <1>n. /\ effects[a] \in Nat /\ late[a] \in Nat /\ attempts[a] \in Nat
        /\ effects'[a] \in Nat /\ late'[a] \in Nat /\ attempts'[a] \in Nat
        /\ Cardinality(Undone(a)) \in Nat /\ Cardinality(Spent(a)) \in Nat
        /\ Cardinality(NextUndone(a)) \in Nat /\ Cardinality(NextSpent(a)) \in Nat
        /\ Cardinality(Runs) \in Nat /\ Cardinality(Spent(a)) <= Cardinality(Runs)
        /\ crashes \in Nat
    BY NextOnward, CountTypes, BoundsAssumption DEF Onward, IInv, TypeOK
  <1>k. /\ Cardinality(Runs) * crashes \in Nat
        /\ Cardinality(Runs) * (crashes + 1) = Cardinality(Runs) * crashes + Cardinality(Runs)
    <2>1. \A m, n \in Nat : m * n \in Nat /\ m * (n + 1) = m * n + m
      OBVIOUS
    <2>2. QED
      BY <1>n, <2>1
  <1>1. effects[a] + late[a] + Cardinality(Undone(a))
           <= attempts[a] + Cardinality(Runs) * crashes + Cardinality(Spent(a))
    BY DEF CountInv
  <1>2. QED
    BY <1>n, <1>k, <1>1, NextCounts DEF CountStep

(* Although the backend knows no idempotency key, what a member queued once is
   carried out a bounded number of times: once for each attempt that was counted
   as an error, and once more for each run of processQueue that the delivery of
   the action or a stop of the app cut short. *)
THEOREM EffectsAreBounded == Spec => []EffectsAreCounted
  <1>1. Init => CountInv
    <2> SUFFICES ASSUME Init, NEW a \in Actions
                 PROVE  effects[a] + late[a] + Cardinality(Undone(a))
                           <= attempts[a] + Cardinality(Runs) * crashes + Cardinality(Spent(a))
      BY DEF CountInv
    <2>1. Undone(a) = {}
      BY IdleEntry DEF Init, Undone, Open
    <2>2. Cardinality(Undone(a)) = 0
      BY <2>1, FS_EmptySet
    <2>3. effects[a] = 0 /\ late[a] = 0 /\ attempts[a] = 0 /\ crashes = 0
      BY DEF Init
    <2>4. Cardinality(Runs) * 0 = 0 /\ Cardinality(Spent(a)) \in Nat
      BY CountTypes
    <2>5. QED
      BY <2>2, <2>3, <2>4
  <1>2. IInv /\ CountInv /\ [Next]_vars => CountInv'
    BY NextCount
  <1>3. IInv /\ CountInv => EffectsAreCounted
    <2> SUFFICES ASSUME IInv, CountInv, NEW a \in Actions
                 PROVE  effects[a] + late[a] <= attempts[a] + Cardinality(Runs) * (crashes + 1)
      BY DEF EffectsAreCounted
    <2>1. /\ effects[a] \in Nat /\ late[a] \in Nat /\ attempts[a] \in Nat /\ crashes \in Nat
          /\ Cardinality(Undone(a)) \in Nat /\ Cardinality(Spent(a)) \in Nat
          /\ Cardinality(Runs) \in Nat /\ Cardinality(Spent(a)) <= Cardinality(Runs)
      BY CountTypes, BoundsAssumption DEF IInv, TypeOK
    <2>2. /\ Cardinality(Runs) * crashes \in Nat
          /\ Cardinality(Runs) * (crashes + 1) = Cardinality(Runs) * crashes + Cardinality(Runs)
      <3>1. \A m, n \in Nat : m * n \in Nat /\ m * (n + 1) = m * n + m
        OBVIOUS
      <3>2. QED
        BY <2>1, <3>1
    <2>3. effects[a] + late[a] + Cardinality(Undone(a))
             <= attempts[a] + Cardinality(Runs) * crashes + Cardinality(Spent(a))
      BY DEF CountInv
    <2>4. QED
      BY <2>1, <2>2, <2>3
  <1>4. QED
    BY <1>1, <1>2, <1>3, InvHolds, PTL DEF Spec

-----------------------------------------------------------------------------
(* Which of two ballots counts. *)

LEMMA WaitsFirst ==
    ASSUME TypeOK, NEW r \in Runs, NEW a \in Actions, Waits(run[r], a)
    PROVE  Has(run[r], a) /\ \A b \in Actions : b < a => ~Has(run[r], b)
  <1>1. run[r].pc = "wait"
    BY DEF Waits
  <1>2. PICK todo \in SUBSET Actions : /\ todo # {} /\ a = Min(todo) /\ a \in todo
                                       /\ \A b : Has(run[r], b) <=> b \in todo
    BY <1>1, RunCases
  <1>3. \A b \in todo : a <= b
    BY <1>2, MinIsFirst
  <1>4. \A b \in Actions : b < a => b \notin todo
    <2>1. \A b \in Actions : b \in Nat
      BY BoundsAssumption DEF Actions
    <2>2. QED
      BY <1>3, <2>1
  <1>5. QED
    BY <1>2, <1>4

(* A run that is past every earlier action. *)
IsNext(r, a) == Has(run[r], a) /\ \A b \in Actions : b < a => ~Has(run[r], b)

(* What one step can do to what the backend has carried out and to what it may
   still be asked by requests that were given up. *)
EffectStep ==
    /\ voted = TRUE => voted' = TRUE
    /\ \/ UNCHANGED effects
       \/ \E a \in Actions : /\ Counted(a) /\ UNCHANGED failed
                             /\ late[a] > 0 \/ \E r \in Runs : IsNext(r, a)
    /\ \A a \in Actions : late'[a] > 0 => late[a] > 0 \/ \E r \in Runs : IsNext(r, a)

LEMMA NextEffects == IInv /\ [Next]_vars => EffectStep
  <1> SUFFICES ASSUME IInv, [Next]_vars PROVE EffectStep
    OBVIOUS
  <1>t. TypeOK /\ late \in [Actions -> Nat]
    BY DEF IInv, TypeOK
  <1>w. \A r \in Runs, a \in Actions : Open(run[r], a) => IsNext(r, a)
    BY <1>t, WaitsFirst DEF Open, IsNext
  <1>0. CASE UNCHANGED <<effects, late>> /\ (voted = TRUE => voted' = TRUE)
    BY <1>0 DEF EffectStep
  <1>1. CASE Enqueue \/ VoteOnline \/ UNCHANGED vars
    BY <1>0, <1>1 DEF Enqueue, VoteOnline, backend, vars
  <1>2. CASE Crash
    <2>1. UNCHANGED <<effects, voted>>
          /\ \A a \in Actions : late'[a] = late[a] + Cardinality(Undone(a))
      BY <1>t, <1>2, CrashEffect
    <2>2. \A a \in Actions : Undone(a) = {} => late'[a] = late[a]
      <3>1. \A a \in Actions : Undone(a) = {} => Cardinality(Undone(a)) = 0
        BY FS_EmptySet
      <3>2. QED
        BY <1>t, <2>1, <3>1
    <2>3. \A a \in Actions : Undone(a) # {} => \E r \in Runs : IsNext(r, a)
      BY <1>w DEF Undone
    <2>4. QED
      BY <2>1, <2>2, <2>3 DEF EffectStep
  <1>3. ASSUME NEW r \in Runs, StartRun(r) \/ Post(r) \/ Delivered(r) PROVE EffectStep
    BY <1>0, <1>3 DEF StartRun, Post, Delivered, backend
  <1>4. ASSUME NEW r \in Runs, Failed(r) PROVE EffectStep
    <2>1. PICK a \in Actions : Thrown(run[r], a)
      BY <1>t, <1>4, FailedEffect
    <2>2. UNCHANGED <<effects, voted>>
      BY <1>4 DEF Failed, backend
    <2>3. \A b \in Actions : late'[b] > 0 => late[b] > 0 \/ \E q \in Runs : IsNext(q, b)
      BY <1>t, <1>w, <2>1 DEF Thrown
    <2>4. QED
      BY <2>2, <2>3 DEF EffectStep
  <1>5. ASSUME NEW r \in Runs, Serve(r) PROVE EffectStep
    <2>1. PICK a \in Actions : Open(run[r], a) /\ Counted(a)
      BY <1>t, <1>5, ServeEffect
    <2>2. UNCHANGED <<late, failed>>
      BY <1>5 DEF Serve, device
    <2>3. (voted = TRUE => voted' = TRUE) /\ IsNext(r, a)
      BY <1>w, <2>1 DEF Counted
    <2>4. QED
      BY <2>1, <2>2, <2>3 DEF EffectStep
  <1>6. ASSUME NEW a \in Actions, ServeLate(a) PROVE EffectStep
    <2>1. /\ late[a] > 0 /\ late' = [late EXCEPT ![a] = @ - 1]
          /\ Counted(a) \/ UNCHANGED <<effects, voted>>
          /\ UNCHANGED failed
      BY <1>6, LateEffect DEF ServeLate, device
    <2>2. \A b \in Actions : late'[b] > 0 => late[b] > 0
      BY <1>t, <2>1
    <2>3. voted = TRUE => voted' = TRUE
      BY <2>1 DEF Counted
    <2>4. QED
      BY <2>1, <2>2, <2>3 DEF EffectStep
  <1>7. QED
    BY <1>1, <1>2, <1>3, <1>4, <1>5, <1>6 DEF Next, RunStep

BallotInv == VotedInv /\ PassInv /\ EarlierBallotFirst

LEMMA NextBallots == IInv /\ BallotInv /\ [Next]_vars => BallotInv'
  <1> SUFFICES ASSUME IInv, BallotInv, [Next]_vars PROVE BallotInv'
    OBVIOUS
  <1>t. /\ Ballots \subseteq Actions /\ effects \in [Actions -> Nat] /\ EffectStep
        /\ \A b \in Ballots : b \in Nat /\ effects[b] \in Nat
    <2>1. EffectStep
      BY NextEffects
    <2>2. effects \in [Actions -> Nat]
      BY DEF IInv, TypeOK
    <2>3. Actions \subseteq Nat
      BY BoundsAssumption DEF Actions
    <2>4. Ballots \subseteq Actions
      BY BallotsAssumption
    <2>5. QED
      BY <2>1, <2>2, <2>3, <2>4
  <1>v. VotedInv /\ PassInv /\ EarlierBallotFirst
    BY DEF BallotInv
  <1>m. voted = TRUE => voted' = TRUE
    BY <1>t DEF EffectStep
  <1>e. ASSUME NEW b \in Ballots, effects'[b] > 0
        PROVE  \/ effects[b] > 0
               \/ /\ voted = FALSE /\ voted' = TRUE /\ UNCHANGED failed
                  /\ late[b] > 0 \/ \E r \in Runs : IsNext(r, b)
                  /\ \A c \in Ballots \ {b} : effects'[c] = effects[c]
    <2>1. CASE UNCHANGED effects
      BY <1>e, <2>1
    <2>2. ASSUME NEW a \in Actions, Counted(a), UNCHANGED failed,
                 late[a] > 0 \/ \E r \in Runs : IsNext(r, a)
          PROVE  \/ effects[b] > 0
                 \/ /\ voted = FALSE /\ voted' = TRUE /\ UNCHANGED failed
                    /\ late[b] > 0 \/ \E r \in Runs : IsNext(r, b)
                    /\ \A c \in Ballots \ {b} : effects'[c] = effects[c]
      <3>1. effects' = [effects EXCEPT ![a] = effects[a] + 1]
        BY <2>2 DEF Counted
      <3>2. \A c \in Ballots : c # a => effects'[c] = effects[c]
        BY <1>t, <3>1
      <3>3. CASE a = b
        <4>1. voted = FALSE /\ voted' = TRUE
          BY <2>2, <3>3 DEF Counted
        <4>2. QED
          BY <2>2, <3>2, <3>3, <4>1
      <3>4. CASE a # b
        BY <1>e, <3>2, <3>4
      <3>5. QED
        BY <3>3, <3>4
    <2>3. QED
      BY <1>t, <2>1, <2>2 DEF EffectStep
  <1>1. VotedInv'
    <2>1. ASSUME NEW b \in Ballots, effects'[b] > 0 PROVE voted' = TRUE
      BY <1>e, <1>m, <1>v, <2>1 DEF VotedInv
    <2>2. ASSUME NEW b \in Ballots, NEW c \in Ballots, effects'[b] > 0, effects'[c] > 0, b # c
          PROVE  FALSE
      <3>1. ~(effects[b] > 0 /\ effects[c] > 0)
        BY <1>v, <2>2 DEF VotedInv
      <3>2. effects[b] > 0 \/ effects[c] > 0
        BY <1>e, <2>2
      <3>3. voted = TRUE
        BY <1>v, <3>2 DEF VotedInv
      <3>4. QED
        BY <1>e, <2>2, <3>1, <3>3
    <2>3. QED
      BY <2>1, <2>2 DEF VotedInv
  <1>2. ASSUME NEW first \in Ballots, voted = TRUE \/ first \in failed \/ effects[first] > 0
        PROVE  voted' = TRUE \/ first \in failed'
    <2>1. effects[first] > 0 => voted = TRUE
      BY <1>v DEF VotedInv
    <2>2. first \in failed => first \in failed' \/ effects[first] > 0
      BY <1>t, NextQueue DEF QueueStep
    <2>3. QED
      BY <1>2, <1>m, <2>1, <2>2
  <1>g. ASSUME NEW first \in Ballots, first <= queued, first \notin queue
        PROVE  effects[first] > 0
    <2>1. first \in 1..queued
      BY <1>g, BallotsAssumption, BoundsAssumption DEF Actions, IInv, TypeOK
    <2>2. QED
      BY <1>g, <2>1 DEF IInv, NothingDropped
  <1>p. ASSUME NEW first \in Ballots, NEW second \in Ballots, first < second
        PROVE  /\ late[second] > 0 => voted = TRUE \/ first \in failed
               /\ \A r \in Runs : Has(run[r], second) /\ ~Has(run[r], first) =>
                                     voted = TRUE \/ first \in failed
               /\ \A r \in Runs : IsNext(r, second) => voted = TRUE \/ first \in failed
    BY <1>t, <1>v, <1>p DEF PassInv, IsNext
  <1>3. PassInv'
    <2> SUFFICES ASSUME NEW first \in Ballots, NEW second \in Ballots, first < second
                 PROVE  /\ late'[second] > 0 => voted' = TRUE \/ first \in failed'
                        /\ \A r \in Runs : Has(run'[r], second) /\ ~Has(run'[r], first) =>
                                              voted' = TRUE \/ first \in failed'
      BY DEF PassInv, Has
    <2>1. late'[second] > 0 => voted' = TRUE \/ first \in failed'
      BY <1>t, <1>p, <1>2 DEF EffectStep
    <2>2. ASSUME NEW r \in Runs, Has(run'[r], second), ~Has(run'[r], first)
          PROVE  voted' = TRUE \/ first \in failed'
      <3>1. RunChange(r) /\ first \in Actions /\ second \in Actions
        BY <1>t, NextRuns
      <3>2. CASE Has(run[r], second) /\ ~Has(run[r], first)
        BY <1>p, <1>2, <3>2
      <3>3. CASE run'[r] = Idle
        BY <2>2, <3>3, IdleEntry
      <3>4. CASE /\ UNCHANGED <<queue, failed, voted, effects>>
                 /\ \A a \in Actions : Has(run'[r], a) <=> a \in queue \ failed
        <4>1. second \in queue /\ first \notin queue \ failed
          BY <2>2, <3>1, <3>4
        <4>2. first <= queued
          BY <1>t, <4>1, BoundsAssumption DEF IInv, TypeOK
        <4>3. first \in failed \/ effects[first] > 0
          BY <1>g, <4>1, <4>2
        <4>4. QED
          BY <1>2, <4>3
      <3>5. ASSUME NEW a \in Actions,
                   \A b \in Actions : Has(run'[r], b) <=> Has(run[r], b) /\ b # a,
                   Answered(run[r], a) \/ a \in failed' \/ a \notin queue,
                   Has(run[r], first)
            PROVE  voted' = TRUE \/ first \in failed'
        <4>1. first = a
          BY <2>2, <3>1, <3>5
        <4>2. Answered(run[r], a) => effects[a] > 0
          BY DEF IInv, ListInv
        <4>3. first <= queued
          BY <3>1, <3>5 DEF IInv, ListInv
        <4>4. QED
          BY <1>2, <1>g, <3>5, <4>1, <4>2, <4>3
      <3>6. QED
        BY <2>2, <3>1, <3>2, <3>3, <3>4, <3>5 DEF RunChange
    <2>3. QED
      BY <2>1, <2>2
  <1>4. EarlierBallotFirst'
    <2> SUFFICES ASSUME NEW first \in Ballots, NEW second \in Ballots, first < second,
                        effects'[second] > 0
                 PROVE  first \in failed'
      BY DEF EarlierBallotFirst
    <2>1. CASE effects[second] > 0
      <3>1. first \in failed /\ ~(effects[first] > 0)
        BY <1>t, <1>v, <2>1 DEF EarlierBallotFirst, VotedInv
      <3>2. QED
        BY <1>t, <3>1, NextQueue DEF QueueStep
    <2>2. CASE ~(effects[second] > 0)
      BY <1>e, <1>p, <2>2
    <2>3. QED
      BY <2>1, <2>2
  <1>5. QED
    BY <1>1, <1>3, <1>4 DEF BallotInv

(* Of two ballots that a member queued for one proposal the earlier counts: the
   later one is carried out only after processQueue gave the earlier one up,
   also when runs overlap and when requests that timed out are served late. *)
THEOREM BallotsInOrder == Spec => []EarlierBallotFirst
  <1>1. Init => BallotInv
    <2>1. ASSUME Init
          PROVE  /\ \A a \in Ballots : ~(effects[a] > 0) /\ ~(late[a] > 0)
                 /\ \A r \in Runs : run[r] = Idle
      BY <2>1, BallotsAssumption DEF Init
    <2>2. QED
      BY <2>1, IdleEntry DEF BallotInv, VotedInv, PassInv, EarlierBallotFirst
  <1>2. IInv /\ BallotInv /\ [Next]_vars => BallotInv'
    BY NextBallots
  <1>3. BallotInv => EarlierBallotFirst
    BY DEF BallotInv
  <1>4. QED
    BY <1>1, <1>2, <1>3, InvHolds, PTL DEF Spec

=============================================================================
